------------------------------ MODULE Follower ------------------------------
(***************************************************************************)
(* Catching up with the chain: a replica's follower (dude/sync/follower.py) *)
(* that polls peers, pulls blocks from one of them at a time and adopts    *)
(* them, and the thread that downloads a checkpoint when the blocks it     *)
(* needs are gone everywhere (dude/node.py), against peers that settle,    *)
(* collect garbage and make checkpoints meanwhile.                         *)
(*                                                                         *)
(* A request for blocks and its answer are messages that are lost, late and *)
(* reordered; a peer's height arrives in one step, and may be any it had;  *)
(* the download thread, which waits for each reply, asks and is answered   *)
(* in one step.  Times are kept as orders: which peer succeeded and which  *)
(* failed most recently.                                                   *)
(***************************************************************************)
EXTENDS BlockStore

CONSTANTS
    Start,      \* the block they are all at when the replica starts
    Casts,      \* the peers, those of them that make checkpoints, a budget of faults
    Batch,      \* pull_batch
    Reseating   \* the blocks that change the roster

ASSUME FollowerAssumption ==
    /\ Start \in 0..Len(Chain) /\ Batch \in Nat \ {0}
    /\ \A c \in Casts : c.faults \in Nat /\ "none" \notin c.peers

VARIABLES
    peer,       \* peer[p]: store of p, and its checkpoint and checkpoint server
    mine,       \* the replica's store
    follower,   \* the Follower object
    adopting,   \* the reply whose blocks are being adopted
    download,   \* the download thread
    net,        \* messages in flight
    faults,     \* how many losses, timeouts, restarts and removals are left
    overlapped  \* whether an import fell between an adoption's check and its commit

Peers == DOMAIN peer

vars == <<peer, mine, follower, adopting, download, net, faults, overlapped>>

NoPull == [from |-> "none", frm |-> 0]
NewFollower ==
    [heads |-> <<>>, pulling |-> NoPull, ok |-> <<>>, fail |-> <<>>, compacted |-> <<>>]
NotAdopting == [from |-> "none", frm |-> 0, offers |-> <<>>, checked |-> FALSE]
NoDownload == [pc |-> "off", left |-> {}, from |-> "none", meta |-> 0, chunks |-> <<>>]
NoCheckpoint == [meta |-> 0, chunks |-> StateAt(0), begun |-> 0, served |-> 0]

Init ==
    /\ \E c \in Casts :
         /\ peer = [p \in c.peers |->
              [store |-> StoreAt(Start),
               collects |-> p \in c.collecting, check |-> NoCheckpoint]]
         /\ faults = c.faults
    /\ mine = StoreAt(0)
    /\ follower = NewFollower /\ adopting = NotAdopting /\ download = NoDownload
    /\ net = {} /\ overlapped = FALSE

Fault == faults > 0 /\ faults' = faults - 1

\* Messages: a request, and the two answers to it.
GetBlocks(p, frm) == [is |-> "get", to |-> p, frm |-> frm]
SettledBlocks(p, offers) == [is |-> "blocks", from |-> p, offers |-> offers]
Refused(p, reason, num) == [is |-> "refused", from |-> p, reason |-> reason, num |-> num]

-----------------------------------------------------------------------------
(* The peers. *)

StoreOf(p) == peer[p].store

\* A peer commits the next block, by its own consensus or its own follower.
PeerCommits(p) ==
    \E b \in {HeadBlockNum(StoreOf(p)) + 1} \cap Blocks :
        /\ PreviewMatches(StoreOf(p), b)
        /\ peer' = [peer EXCEPT ![p].store = CommitBlock(@, b)]
        /\ UNCHANGED <<mine, follower, adopting, download, net, faults, overlapped>>

\* An operator calls gc_below for what a served checkpoint covers.
PeerCollects(p, pivot) ==
    /\ pivot \in (OldestBlockNum(StoreOf(p)) + 1)..peer[p].check.served
    /\ peer' = [peer EXCEPT ![p].store = GcBelow(@, pivot)]
    /\ UNCHANGED <<mine, follower, adopting, download, net, faults, overlapped>>

\* The blocks of a store from frm on, as serve_getblocks reads them.
Run(st, frm) ==
    LET last == Max({n \in (frm - 1)..(frm + Batch - 1) : frm..n \subseteq DOMAIN st.blocks})
    IN  [i \in 1..(last - frm + 1) |->
           [num |-> frm + i - 1, whole |-> BodiesKept(st, frm + i - 1)]]

\* serve_getblocks
Served(p, st, frm) ==
    IF Run(st, frm) # <<>> THEN SettledBlocks(p, Run(st, frm))
    ELSE IF DOMAIN st.blocks # {} /\ frm < OldestBlockNum(st) THEN Refused(p, "compacted", OldestBlockNum(st))
    ELSE Refused(p, "not yet settled", 0)

\* _on_getblock
ServeBlocks(p, m) ==
    /\ m \in net /\ m.is = "get" /\ m.to = p
    /\ net' = (net \ {m}) \cup {Served(p, StoreOf(p), m.frm)}
    /\ UNCHANGED <<peer, mine, follower, adopting, download, faults, overlapped>>

\* The same with gc_below between reading the first block and its bodies, which
\* are two snapshots.
ServeTorn(p, m, pivot) ==
    /\ m \in net /\ m.is = "get" /\ m.to = p
    /\ m.frm \in DOMAIN StoreOf(p).blocks /\ pivot \in (m.frm + 1)..peer[p].check.served
    /\ peer' = [peer EXCEPT ![p].store = GcBelow(@, pivot)]
    /\ net' = (net \ {m}) \cup
         {SettledBlocks(p, <<[num |-> m.frm, whole |-> TxCount(m.frm) = 0]>>
                           \o IF pivot = m.frm + 1 /\ Batch > 1
                              THEN SubSeq(Run(StoreOf(p), pivot), 1,
                                          Min({Batch - 1, Len(Run(StoreOf(p), pivot))}))
                              ELSE <<>>)}
    /\ UNCHANGED <<mine, follower, adopting, download, faults, overlapped>>

\* _run_compaction_cycle reads the head block for the checkpoint's meta, ...
BeginCheckpoint(p) ==
    /\ peer[p].check.begun = 0 /\ HeadBlockNum(StoreOf(p)) > Max({1, peer[p].check.meta})
    /\ peer[p].collects
    /\ peer' = [peer EXCEPT ![p].check.begun = HeadBlockNum(peer[p].store)]
    /\ UNCHANGED <<mine, follower, adopting, download, net, faults, overlapped>>

\* ... create_and_persist reads the rows, in another snapshot, and replaces what
\* is persisted, ...
PersistCheckpoint(p) ==
    /\ peer[p].check.begun # 0 /\ peer[p].check.meta # peer[p].check.begun
    /\ peer' = [peer EXCEPT ![p].check.meta = peer[p].check.begun,
                            ![p].check.chunks = peer[p].store.live]
    /\ UNCHANGED <<mine, follower, adopting, download, net, faults, overlapped>>

\* ... and the server that knows the new checkpoint's id takes over.
InstallServer(p) ==
    /\ peer[p].check.begun # 0 /\ peer[p].check.meta = peer[p].check.begun
    /\ peer' = [peer EXCEPT ![p].check.served = peer[p].check.meta, ![p].check.begun = 0]
    /\ UNCHANGED <<mine, follower, adopting, download, net, faults, overlapped>>

-----------------------------------------------------------------------------
(* The follower, on the replica's event loop. *)

With(f, k, v) == [x \in DOMAIN f \cup {k} |-> IF x = k THEN v ELSE f[x]]
Without(f, k) == [x \in DOMAIN f \ {k} |-> f[x]]

\* _last_ok_at, the latest success first, and _last_fail_at, the latest failure last.
Dropped(order, p) == SelectSeq(order, LAMBDA q : q # p)
Succeeded(fo, p) == [fo EXCEPT !.ok = <<p>> \o Dropped(@, p)]
Failed(fo, p) == [fo EXCEPT !.fail = Dropped(@, p) \o <<p>>]

\* The sort key of _pick_pull_source.
PullKey(fo, p) ==
    <<Min({i \in DOMAIN fo.ok : fo.ok[i] = p} \cup {Len(fo.ok) + 1}),
      Max({i \in DOMAIN fo.fail : fo.fail[i] = p} \cup {0}),
      -fo.heads[p]>>
Precedes(a, b) ==
    \E i \in 1..3 : a[i] < b[i] /\ \A j \in 1..(i - 1) : a[j] = b[j]

\* Mutant of Ahead: a peer one block ahead is not.
AheadByTwo(fo, num) == {p \in DOMAIN fo.heads : fo.heads[p] > num + 1}

\* The candidates of _pick_pull_source and the peers needs_checkpoint looks at.
Ahead(fo, num) == {p \in DOMAIN fo.heads : fo.heads[p] > num}

\* _pick_pull_source
PullSources(fo, num) ==
    {p \in Ahead(fo, num) :
        \A q \in Ahead(fo, num) : ~Precedes(PullKey(fo, q), PullKey(fo, p))}

\* Mutant of TryPull: a pull under way is not looked at.
TryPullAgain(fo, num, msgs) ==
    \/ PullSources(fo, num) = {} /\ follower' = fo /\ net' = msgs
    \/ \E p \in PullSources(fo, num) :
            /\ follower' = [fo EXCEPT !.pulling = [from |-> p, frm |-> num + 1]]
            /\ net' = msgs \cup {GetBlocks(p, num + 1)}

\* _try_pull and _pull_from, at the end of a handler that leaves fo.
TryPull(fo, num, msgs) ==
    \/ /\ fo.pulling # NoPull \/ PullSources(fo, num) = {}
       /\ follower' = fo /\ net' = msgs
    \/ /\ fo.pulling = NoPull
       /\ \E p \in PullSources(fo, num) :
            /\ follower' = [fo EXCEPT !.pulling = [from |-> p, frm |-> num + 1]]
            /\ net' = msgs \cup {GetBlocks(p, num + 1)}

LoopIsFree == adopting = NotAdopting

\* serve_height and _on_height_reply: a height that p had when it was asked, or
\* when it broadcast one after a commit.
OnHeight(p, num) ==
    /\ LoopIsFree /\ num \in Start..HeadBlockNum(StoreOf(p))
    /\ TryPull([follower EXCEPT !.heads = With(@, p, num)], HeadBlockNum(mine), net)
    /\ UNCHANGED <<peer, mine, adopting, download, faults, overlapped>>

\* _on_settled_blocks up to its loop.
OnBlocks(m) ==
    /\ LoopIsFree /\ m \in net /\ m.is = "blocks"
    /\ net' = net \ {m}
    /\ \/ follower.pulling.from # m.from /\ UNCHANGED <<follower, adopting>>
       \/ /\ follower.pulling.from = m.from
          /\ follower' = [follower EXCEPT !.pulling = NoPull]
          /\ adopting' = [from |-> m.from, frm |-> follower.pulling.frm, offers |-> m.offers,
                          checked |-> FALSE]
    /\ UNCHANGED <<peer, mine, download, faults, overlapped>>

\* Mutant of Acceptable: nothing is compared with the store.
AcceptableAlone(st, frm, offer) == offer.num = frm /\ offer.whole

\* _adopt up to its commit: is the offered block the next one asked for, does it
\* link, are its bodies there, does it give what it was signed for?
Acceptable(st, frm, offer) ==
    offer.num = frm /\ LinksTo(st, offer.num) /\ offer.whole /\ PreviewMatches(st, offer.num)

\* One round of _on_settled_blocks' loop, up to the commit.
CheckOffer ==
    /\ adopting.offers # <<>> /\ ~adopting.checked
    /\ \/ /\ Acceptable(mine, adopting.frm, adopting.offers[1])
          /\ adopting' = [adopting EXCEPT !.checked = TRUE]
          /\ UNCHANGED follower
       \/ /\ ~Acceptable(mine, adopting.frm, adopting.offers[1])
          /\ adopting' = NotAdopting
          /\ follower' = Failed(follower, adopting.from)
    /\ UNCHANGED <<peer, mine, download, net, faults, overlapped>>

\* The commit, in a transaction of its own.
CommitOffer ==
    /\ adopting.checked
    /\ mine' = CommitBlock(mine, adopting.offers[1].num)
    /\ adopting' = [adopting EXCEPT !.checked = FALSE, !.offers = Tail(@), !.frm = @ + 1]
    /\ UNCHANGED <<peer, follower, download, net, faults, overlapped>>

\* The rest of _on_settled_blocks.
Adopted ==
    /\ ~LoopIsFree /\ adopting.offers = <<>>
    /\ adopting' = NotAdopting
    /\ TryPull(Succeeded(follower, adopting.from), HeadBlockNum(mine), net)
    /\ UNCHANGED <<peer, mine, download, faults, overlapped>>

\* _on_refused
OnRefused(m) ==
    /\ LoopIsFree /\ m \in net /\ m.is = "refused"
    /\ LET idle == [follower EXCEPT !.pulling = NoPull]
       IN  \/ /\ follower.pulling.from # m.from
              /\ follower' = follower /\ net' = net \ {m}
           \/ /\ follower.pulling.from = m.from /\ m.reason = "not yet settled"
              /\ TryPull([idle EXCEPT !.heads = IF m.from \in DOMAIN @
                                                THEN With(@, m.from, follower.pulling.frm - 1)
                                                ELSE @],
                         HeadBlockNum(mine), net \ {m})
           \/ /\ follower.pulling.from = m.from /\ m.reason = "compacted"
              /\ follower' = Failed([idle EXCEPT !.compacted = With(@, m.from, m.num)], m.from)
              /\ net' = net \ {m}
    /\ UNCHANGED <<peer, mine, adopting, download, faults, overlapped>>

\* The request or its answer is under way.
UnderWay(p) == \E m \in net : (m.is = "get" /\ m.to = p) \/ (m.is \in {"blocks", "refused"} /\ m.from = p)

\* _on_pull_expiry; early, while the answer is under way, or because it is lost.
OnPullExpiry ==
    /\ LoopIsFree /\ follower.pulling # NoPull
    /\ IF UnderWay(follower.pulling.from) THEN Fault ELSE UNCHANGED faults
    /\ TryPull(Failed([follower EXCEPT !.pulling = NoPull], follower.pulling.from),
               HeadBlockNum(mine), net)
    /\ UNCHANGED <<peer, mine, adopting, download, overlapped>>

\* _on_peer_removed; the peer may still be heard of.
OnPeerRemoved(p) ==
    /\ LoopIsFree /\ p \in DOMAIN follower.heads /\ Fault
    /\ follower' = [follower EXCEPT
         !.heads = Without(@, p),
         !.ok = Dropped(@, p), !.fail = Dropped(@, p),
         !.pulling = IF @.from = p THEN NoPull ELSE @]
    /\ UNCHANGED <<peer, mine, adopting, download, net, overlapped>>

Lose(m) ==
    /\ m \in net /\ Fault
    /\ net' = net \ {m}
    /\ UNCHANGED <<peer, mine, follower, adopting, download, overlapped>>

\* The replica's process ends and starts again: the store is what survives.
Restart ==
    /\ Fault
    /\ follower' = NewFollower /\ adopting' = NotAdopting /\ download' = NoDownload
    /\ UNCHANGED <<peer, mine, net, overlapped>>

-----------------------------------------------------------------------------
(* The checkpoint download, on a thread of its own. *)

\* needs_checkpoint: every peer that is ahead once refused blocks as compacted.
NeedsCheckpoint ==
    /\ DOMAIN follower.compacted # {}
    /\ Ahead(follower, HeadBlockNum(mine)) # {}
    /\ Ahead(follower, HeadBlockNum(mine)) \subseteq DOMAIN follower.compacted

\* _on_reconcile_peers, _on_block_committed and _download_checkpoint.
StartDownload ==
    /\ LoopIsFree /\ download = NoDownload /\ NeedsCheckpoint
    /\ download' = [NoDownload EXCEPT !.pc = "ask", !.left = DOMAIN follower.compacted]
    /\ UNCHANGED <<peer, mine, follower, adopting, net, faults, overlapped>>

\* GET_CHECKPOINT, answered by serve_meta unless the peer has no server.
AskMeta(p) ==
    /\ download.pc = "ask" /\ p \in download.left
    /\ download' =
         IF peer[p].check.served = 0 THEN [download EXCEPT !.left = @ \ {p}]
         ELSE [download EXCEPT !.left = @ \ {p}, !.pc = "chunks", !.from = p,
                               !.meta = peer[p].check.meta, !.chunks = <<>>]
    /\ UNCHANGED <<peer, mine, follower, adopting, net, faults, overlapped>>

\* serve_chunks: the id is compared with the server's, and the chunks are those
\* that are persisted by now.
ServedChunk(c, id, i) == IF c.served = id THEN {c.chunks[i]} ELSE {}

\* GET_CHUNKS
AskChunks ==
    /\ download.pc = "chunks"
    /\ LET i == Len(download.chunks) + 1
           chunk == ServedChunk(peer[download.from].check, download.meta, i)
       IN  download' =
             IF chunk = {} THEN [download EXCEPT !.pc = "ask"]
             ELSE [download EXCEPT !.chunks = Append(@, CHOOSE c \in chunk : TRUE),
                                   !.pc = IF i = Cardinality(Parts) THEN "write" ELSE @]
    /\ UNCHANGED <<peer, mine, follower, adopting, net, faults, overlapped>>

\* No reply within the timeout.
NoReply ==
    /\ Fault
    /\ \/ \E p \in download.left : /\ download.pc = "ask"
                                   /\ download' = [download EXCEPT !.left = @ \ {p}]
       \/ download.pc = "chunks" /\ download' = [download EXCEPT !.pc = "ask"]
    /\ UNCHANGED <<peer, mine, follower, adopting, net, overlapped>>

\* Mutant of Import: the root is not verified.
ImportUnverified ==
    /\ download.pc = "write"
    /\ mine' = Imported(download.meta, download.chunks)
    /\ overlapped' = (overlapped \/ adopting.checked)
    /\ download' = [download EXCEPT !.pc = "verify"]
    /\ UNCHANGED <<peer, follower, adopting, net, faults>>

\* One transaction resets the store, loads the chunks, verifies the root and
\* records the block; it is rolled back, and the thread ends, if the root differs.
Import ==
    /\ download.pc = "write"
    /\ \/ /\ download.chunks = StateAt(download.meta)
          /\ mine' = Imported(download.meta, download.chunks)
          /\ overlapped' = (overlapped \/ adopting.checked)
          /\ download' = [download EXCEPT !.pc = "verify"]
       \/ /\ download.chunks # StateAt(download.meta)
          /\ download' = NoDownload
          /\ UNCHANGED <<mine, overlapped>>
    /\ UNCHANGED <<peer, follower, adopting, net, faults>>

\* verify_quorum, against the roster of the imported state.
VerifyQuorum ==
    /\ download.pc = "verify"
    /\ \/ follower' = [follower EXCEPT !.compacted = <<>>] /\ download' = NoDownload
       \/ /\ download.meta \in Reseating
          /\ download' = [download EXCEPT !.pc = "ask"]
          /\ UNCHANGED follower
    /\ UNCHANGED <<peer, mine, adopting, net, faults, overlapped>>

EndDownload ==
    /\ download.pc = "ask" /\ download.left = {}
    /\ download' = NoDownload
    /\ UNCHANGED <<peer, mine, follower, adopting, net, faults, overlapped>>

-----------------------------------------------------------------------------

PeerNext ==
    \E p \in Peers :
        \/ PeerCommits(p)
        \/ BeginCheckpoint(p) \/ PersistCheckpoint(p) \/ InstallServer(p)
        \/ \E pivot \in DOMAIN StoreOf(p).blocks : PeerCollects(p, pivot)
        \/ \E m \in net : \/ ServeBlocks(p, m)
                          \/ \E pivot \in DOMAIN StoreOf(p).blocks : ServeTorn(p, m, pivot)

LoopNext ==
    \/ \E p \in Peers, num \in Blocks : OnHeight(p, num)
    \/ \E m \in net : OnBlocks(m) \/ OnRefused(m)
    \/ CheckOffer \/ CommitOffer \/ Adopted
    \/ OnPullExpiry \/ StartDownload
    \/ \E p \in Peers : OnPeerRemoved(p)

DownloadNext ==
    \/ \E p \in Peers : AskMeta(p)
    \/ AskChunks \/ NoReply \/ Import \/ VerifyQuorum \/ EndDownload

Next == PeerNext \/ LoopNext \/ DownloadNext \/ Restart \/ \E m \in net : Lose(m)

\* The loop and the thread run; a peer answers and is polled; a timer fires.
Fairness ==
    /\ WF_vars(CheckOffer) /\ WF_vars(CommitOffer) /\ WF_vars(Adopted)
    /\ WF_vars(StartDownload) /\ WF_vars(AskChunks) /\ WF_vars(Import)
    /\ WF_vars(VerifyQuorum) /\ WF_vars(EndDownload)
    /\ WF_vars(\E m \in net : OnBlocks(m) \/ OnRefused(m))
    /\ WF_vars(~UnderWay(follower.pulling.from) /\ OnPullExpiry)
    /\ \A p \in UNION {c.peers : c \in Casts} :
         /\ WF_vars(p \in Peers /\ OnHeight(p, HeadBlockNum(StoreOf(p))))
         /\ WF_vars(p \in Peers /\ \E m \in net : ServeBlocks(p, m))
         /\ WF_vars(p \in Peers /\ AskMeta(p))

Spec == Init /\ [][Next]_vars /\ Fairness

-----------------------------------------------------------------------------

\* The variables' types; the replica pulls from one peer at a time, for the
\* block after its head or, since an import, for an older one.
TypeOK ==
    /\ \E c \in Casts : faults \in 0..c.faults /\ Cardinality(net) <= 1 + c.faults
    /\ overlapped \in BOOLEAN
    /\ DOMAIN follower.heads \subseteq Peers /\ DOMAIN follower.compacted \subseteq Peers
    /\ follower.pulling = NoPull \/ follower.pulling.from \in Peers
    /\ download.pc \in {"off", "ask", "chunks", "write", "verify"}

\* The replica's head block, log and live rows tell one story, whatever peers
\* collect, replace and answer late, and wherever the process stops, as long as
\* no import falls inside an adoption (Follower._adopt, Node._do_download).
ReplicaCoherent == overlapped \/ Coherent(mine)

\* The last block that is settled at some peer.
Settled == Max({0} \cup {HeadBlockNum(StoreOf(p)) : p \in Peers})

\* The chain as far as it is settled anywhere, and the replica's copy of it.
Copy == INSTANCE Ledger WITH
    State <- [b \in 0..Len(Chain) |-> StateAt(b)],
    settled <- Settled,
    at <- HeadBlockNum(mine),
    rows <- mine.live,
    torn <- overlapped

\* Following implements a ledger: whatever is lost, late or collected, the
\* replica's rows are those of one settled block at every moment, and they move
\* by one block, or to the block of a checkpoint in one transaction.
FollowsLedger == Copy!Spec

\* What keeps the replica from catching up: a peer has collected the block it
\* needs and another has not (the follower prefers the peer that last served it
\* and asks for no checkpoint while any peer has the block); the checkpoint of a
\* peer that has collected it is not usable; an import fell inside an adoption.
Collected(p) == OldestBlockNum(StoreOf(p)) > HeadBlockNum(mine) + 1
Usable(p) == peer[p].check.meta = peer[p].check.served
             /\ peer[p].check.chunks = StateAt(peer[p].check.meta)
Hampered ==
    \/ \E p, q \in Peers : Collected(p) /\ ~Collected(q)
    \/ \E p \in Peers : Collected(p) /\ ~Usable(p)
    \/ overlapped

\* A replica that is not hampered for ever reaches the blocks that every peer has,
\* and reaches them again after an import that took it back.
CatchesUp ==
    <>[]~Hampered => []<>(\E p \in Peers : HeadBlockNum(mine) >= HeadBlockNum(StoreOf(p)))
=============================================================================
