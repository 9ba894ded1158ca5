------------------------------ MODULE Consensus ------------------------------
(***************************************************************************)
(* How the nodes of a roster agree on the next block: the Round that cuts  *)
(* and ratifies a slice of pending transactions, the SettleRound that      *)
(* gathers a multisignature over its anchors, and the Coordinator that     *)
(* drives both from messages and timers (dude/consensus/).                 *)
(*                                                                         *)
(* Each node runs its handlers on one event loop, so a handler is a step.  *)
(* The handlers share helpers that pass a node's state along; they are     *)
(* operators from a node's record to a node's record here, and the         *)
(* messages they queue gather in the record's outbox until the handler     *)
(* flushes it.                                                             *)
(*                                                                         *)
(* The network is the set of all messages ever sent.  A handler may take   *)
(* any of them, any number of times or never: delivery loses, duplicates,  *)
(* delays and reorders.  Every node reads its own clock.                   *)
(***************************************************************************)
EXTENDS Settle, QuorumMath

CONSTANTS
    BlockTime,   \* length of a bucket, in units of the clocks
    CutReserve,  \* what the cut leaves of a bucket for the two signature waves
    WAdmit,      \* how far a transaction's timestamp may be from the clock
    ClockSkew,   \* the allowance for skew between two nodes
    Stamp,       \* Stamp[t]: the timestamp the author gave transaction t
    Door,        \* Door[t]: the nodes a client submits transaction t to
    Down,        \* members whose process is never started
    SubmitBy,    \* bound: clients submit before this time only
    MaxClock,    \* bound: clocks stop here
    MaxSkew,     \* bound on the difference between two clocks
    MaxCrashes   \* bound on the number of crashes

ASSUME TimeAssumption ==
    /\ BlockTime \in Nat \ {0}
    /\ CutReserve \in 1..(BlockTime - 1)
    /\ WAdmit \in Nat /\ ClockSkew \in Nat /\ Stamp \in [Txs -> Nat]
    /\ SubmitBy \in Nat /\ MaxClock \in Nat /\ MaxSkew \in Nat /\ MaxCrashes \in Nat

VARIABLES
    node,     \* node[n]: the coordinator and the store of n
    clock,    \* clock[n]: what Millis.now() returns at n
    msgs,     \* every message sent so far
    crashes   \* how often a process was lost

vars == <<node, clock, msgs, crashes>>

-----------------------------------------------------------------------------
(* Time (Tunables.bucket, bucket_start; Coordinator._close_by, _abandon_by) *)

BucketOf(now) == now \div BlockTime
BucketStart(b) == BlockTime * b
\* Mutant: a bucket too late.
AbandonByLate(b) == BucketStart(b + 3)
AbandonBy(b) == BucketStart(b + 2)
CloseBy(b) == AbandonBy(b) - CutReserve

-----------------------------------------------------------------------------
(* Messages.  A slice hash is the bucket and the transactions; the anchors *)
(* a SETTLE_SIG signs are determined by the block and the chain below it.  *)

Held(n, b, prev, txs) ==
    [type |-> "HELD", frm |-> n, bucket |-> b, prev |-> prev, txs |-> txs]
Bodies(n, to, b, prev, txs) ==
    [type |-> "BODIES", frm |-> n, to |-> to, bucket |-> b, prev |-> prev, txs |-> txs]
Sig(n, b, prev, txs) ==
    [type |-> "SIG", frm |-> n, bucket |-> b, prev |-> prev, txs |-> txs]
SettleSig(n, b, prev, txs) ==
    [type |-> "SETTLE_SIG", frm |-> n, bucket |-> b, prev |-> prev, txs |-> txs]

Broadcast == [type: {"HELD", "SIG", "SETTLE_SIG"}, frm: Nodes, bucket: Nat,
              prev: Chain, txs: SUBSET Txs]
Message == Broadcast \cup [type: {"BODIES"}, frm: Nodes, to: Nodes, bucket: Nat,
                           prev: Chain, txs: SUBSET Txs]

-----------------------------------------------------------------------------
(* Round: one bucket's slice, from COLLECT to GONE or ABANDONED.           *)

NoRound == [state |-> "NONE", bucket |-> 0, prev |-> <<>>, bodies |-> {},
            holds |-> {}, sigs |-> {}, slice |-> {}]

\* Round.__init__ and add_local.
NewRound(b, prev, bodies) ==
    [NoRound EXCEPT !.state = "COLLECT", !.bucket = b, !.prev = prev,
                    !.bodies = bodies]

QuorumOf(chain) == Size(Cardinality(Roster(chain)))

\* _all_holdings: the last HELD of every peer heard from, and my own bodies.
Holdings(r, n) ==
    [p \in {n} \cup {m.frm : m \in r.holds} |->
        IF p = n THEN r.bodies ELSE (CHOOSE m \in r.holds : m.frm = p).txs]

\* An order on slices that differs from bucket to bucket, as the order of
\* their hashes does.
SliceHash(b, txs) ==
    (MapThenSumSet(LAMBDA t : 2 ^ t, txs) + b) % (2 ^ (Max(Txs \cup {0}) + 1))

\* The largest of some slices; among those of one size, the one with the least hash.
Best(b, slices) ==
    CHOOSE c \in slices : \A d \in slices :
        \/ Cardinality(d) < Cardinality(c)
        \/ Cardinality(d) = Cardinality(c) /\ SliceHash(b, c) <= SliceHash(b, d)

\* _compute_slice: the best intersection of a quorum's holdings with my own.
ComputeSlice(r, n) ==
    LET held   == Holdings(r, n)
        combos == kSubset(QuorumOf(r.prev), DOMAIN held)
    IN  Best(r.bucket, {{t \in r.bodies : \A p \in combo : t \in held[p]} : combo \in combos}
                       \cup {{}})

\* Mutant: signatures for any slice are counted.
AgreeingOnAny(r) == {m.frm : m \in r.sigs}

\* Members whose signature in this round names the slice this node signed.
Agreeing(r) == {m.frm : m \in {s \in r.sigs : s.txs = r.slice}}

\* _try_ratify
TryRatify(s) ==
    IF /\ s.current_round.state = "FINALIZE"
       /\ Cardinality(Agreeing(s.current_round)) >= QuorumOf(s.current_round.prev)
    THEN [s EXCEPT !.current_round.state = "GONE"]
    ELSE s

\* Mutant: the own signature is counted but not sent.
SignUnsent(s, n, slice) ==
    TryRatify([s EXCEPT !.current_round.state = "FINALIZE",
                        !.current_round.slice = slice,
                        !.current_round.holds = {},
                        !.current_round.sigs =
                            @ \cup {Sig(n, s.current_round.bucket, s.current_round.prev, slice)}])

\* The slice is signed, and the signature counted.  What the peers hold is not
\* read again.
SignSlice(s, n, slice) ==
    LET mine == Sig(n, s.current_round.bucket, s.current_round.prev, slice)
    IN  TryRatify([s EXCEPT !.current_round.state = "FINALIZE",
                            !.current_round.slice = slice,
                            !.current_round.holds = {},
                            !.current_round.sigs = @ \cup {mine},
                            !.outbox = @ \cup {mine}])

\* _finalize: the cut.  The slice is screened against the store as it is now.
Finalize(s, n) ==
    LET r == s.current_round
    IN  SignSlice(s, n, Screen(s.chain, r.bodies \cap ComputeSlice(r, n)))

\* The second half of Round.tick.
AbandonLate(s, now) ==
    IF s.current_round.state = "FINALIZE" /\ now >= AbandonBy(s.current_round.bucket)
    THEN [s EXCEPT !.current_round.state = "ABANDONED"]
    ELSE s

\* Mutant: every tick after the cut cuts again.
RoundTickRecut(s, n, now) ==
    IF s.current_round.state \in {"COLLECT", "FINALIZE"} /\ now >= CloseBy(s.current_round.bucket)
    THEN Finalize(s, n) ELSE s

\* Round.tick: a late tick may both cut and abandon.
RoundTick(s, n, now) ==
    LET r == s.current_round
    IN  AbandonLate(IF r.state = "COLLECT" /\ now >= CloseBy(r.bucket)
                    THEN Finalize(s, n) ELSE s, now)

\* Bodies of mine that the sender of m lacks.
Gap(r, m) == r.bodies \ m.txs

\* _elected: one holder pushes each body, by a hash over the attempt and the
\* holders.  Every outcome of the hash is allowed, but a sole holder wins.
Elections(r, m) ==
    {push \in SUBSET Gap(r, m) :
        \A t \in Gap(r, m) \ push : \E h \in r.holds : h.frm # m.frm /\ t \in h.txs}

\* _on_held and _push_missing
OnHeld(s, n, m, push) ==
    LET r == s.current_round
    IN  IF r.state # "COLLECT" THEN s
        ELSE [s EXCEPT !.current_round.holds = {h \in @ : h.frm # m.frm} \cup {m},
                       !.outbox = IF push = {} THEN @
                                  ELSE @ \cup {Bodies(n, m.frm, r.bucket, r.prev, push)}]

\* _on_sig: a second signature of one member for another slice is not counted.
OnSig(s, m) ==
    LET r == s.current_round
    IN  IF r.state = "GONE" \/ \E g \in r.sigs : g.frm = m.frm /\ g.txs # m.txs
        THEN s
        ELSE TryRatify([s EXCEPT !.current_round.sigs = @ \cup {m}])

\* Mempool.valid_for_bucket: the test of a body a peer pushed, in terms of the
\* bucket, so that all members judge it alike.
ValidForBucket(c, t, b) ==
    /\ Stamp[t] >= BucketStart(b) - WAdmit - ClockSkew
    /\ Stamp[t] <= BucketStart(b + 1) + WAdmit + ClockSkew
    /\ t \notin Settled(c)
    /\ WouldApply(c, t)

\* Coordinator._absorb_bodies and Round.absorb: bodies that pass the door at
\* the present store join the round, and the larger holdings are advertised.
Absorb(s, n, m) ==
    LET r     == s.current_round
        fresh == {t \in m.txs \ r.bodies : ValidForBucket(s.chain, t, r.bucket)}
    IN  IF r.state # "COLLECT" \/ fresh = {} THEN s
        ELSE [s EXCEPT !.current_round.bodies = @ \cup fresh,
                       !.outbox = @ \cup {Held(n, r.bucket, r.prev, r.bodies \cup fresh)}]

-----------------------------------------------------------------------------
(* SettleRound: signatures over the anchors of one ratified block.         *)

NoSettling == [state |-> "NONE", bucket |-> 0, prev |-> <<>>, txs |-> {}, sigs |-> {}]

\* Mutant: a signature short of a quorum.
HasSettledEarly(g) == g.state = "COLLECTING" /\ Cardinality(g.sigs) + 1 >= QuorumOf(g.prev)

\* _try_settle
HasSettled(g) == g.state = "COLLECTING" /\ Cardinality(g.sigs) >= QuorumOf(g.prev)

\* SettleRound.receive: only a signature over my own anchors counts.
OnSettleSig(s, m) ==
    LET g == s.settling
    IN  IF /\ g.state = "COLLECTING" /\ ~HasSettled(g)
           /\ m.frm \in Roster(g.prev) /\ m.prev = g.prev
        THEN [s EXCEPT !.settling.sigs = @ \cup {m.frm}]
        ELSE s

\* SettleRound.tick
SettleTick(s, now) ==
    IF s.settling.state = "COLLECTING" /\ ~HasSettled(s.settling)
       /\ now >= AbandonBy(s.settling.bucket)
    THEN [s EXCEPT !.settling.state = "ABANDONED"]
    ELSE s

-----------------------------------------------------------------------------
(* Coordinator                                                             *)

SettledChain(g) == Append(g.prev, [bucket |-> g.bucket, txs |-> g.txs])

\* Store.commit_block: a block number that is taken by the same block is left
\* alone, by another block it is a fork.
IsFork(s) ==
    /\ Len(s.chain) > Len(s.settling.prev)
    /\ SubSeq(s.chain, 1, Len(s.settling.prev) + 1) # SettledChain(s.settling)

CommitBlock(s) ==
    IF Len(s.chain) > Len(s.settling.prev) THEN s.chain
    ELSE Append(s.chain, [bucket |-> s.settling.bucket, txs |-> s.settling.txs])

\* _expect_anchors: the log and the state are those the anchors were made of.
AnchorsHold(s) ==
    /\ Settled(CommitBlock(s)) = Settled(SettledChain(s.settling))
    /\ StateOf(CommitBlock(s)) = StateOf(SettledChain(s.settling))

\* An InvariantError ends the process (core/crashonly.py).
Raise(s) == [s EXCEPT !.up = FALSE, !.fault = TRUE]

\* _do_settled
DoSettled(s) ==
    IF IsFork(s) THEN Raise(s)
    ELSE IF ~AnchorsHold(s) THEN Raise([s EXCEPT !.chain = CommitBlock(s)])
    ELSE [s EXCEPT !.chain = CommitBlock(s),
                   !.mempool = @ \ Settled(CommitBlock(s)),
                   !.settling = NoSettling]

\* _do_settle_abandoned
FreeSettling(s) ==
    IF s.settling.state = "ABANDONED" THEN [s EXCEPT !.settling = NoSettling] ELSE s

\* _check_settled
CheckSettled(s) ==
    IF HasSettled(s.settling) THEN DoSettled(s)
    ELSE FreeSettling(s)

\* _promote_to_settling: a ratified slice whose base the store has left, or
\* that no longer applies, is dropped; otherwise this node signs its anchors.
Promote(s, n) ==
    LET r == s.current_round
    IN  IF \/ n \notin Roster(s.chain)
           \/ s.chain # r.prev
           \/ ApplyTo(StateOf(s.chain), r.slice).keep # r.slice
        THEN [s EXCEPT !.current_round = NoRound]
        ELSE [s EXCEPT !.current_round = NoRound,
                       !.settling = [state |-> "COLLECTING", bucket |-> r.bucket,
                                     prev |-> r.prev, txs |-> r.slice, sigs |-> {n}],
                       !.outbox = @ \cup {SettleSig(n, r.bucket, r.prev, r.slice)}]

\* _check_ratified
CheckRatified(s, n) ==
    IF s.current_round.state = "GONE" /\ s.settling.state = "NONE"
    THEN Promote(s, n) ELSE s

\* _open_round
OpenRound(s, n, b) ==
    IF n \notin Roster(s.chain) THEN s
    ELSE [s EXCEPT !.current_round = NewRound(b, s.chain, s.mempool),
                   !.outbox = @ \cup {Held(n, b, s.chain, s.mempool)}]

\* _close_current_bucket: the bucket that closed last is given a round, unless
\* its cut has passed or peers are known to be ahead; either way never again.
CloseCurrentBucket(s, n, now, behind) ==
    LET closed == BucketOf(now) - 1
    IN  IF s.current_round.state # "NONE" \/ closed < s.current_bucket THEN s
        ELSE IF now >= CloseBy(closed) \/ behind
             THEN [s EXCEPT !.current_bucket = closed + 1]
             ELSE [OpenRound(s, n, closed) EXCEPT !.current_bucket = closed + 1]

\* An abandoned round leaves its slot.
DropAbandoned(s) ==
    IF s.current_round.state = "ABANDONED" THEN [s EXCEPT !.current_round = NoRound]
    ELSE s

\* Mutant: the settlement is not caught up.
CatchUpRoundOnly(s, n, now, behind) ==
    CloseCurrentBucket(CheckRatified(DropAbandoned(RoundTick(s, n, now)), n), n, now, behind)

\* _catch_up: what the timers would have done by now, before a message is read.
\* A slot with a settled block was emptied by the handler that settled it, so
\* here CheckSettled only ever abandons.
CatchUp(s, n, now, behind) ==
    LET settled == CheckSettled(SettleTick(s, now))
        ticked  == DropAbandoned(RoundTick(settled, n, now))
    IN  CloseCurrentBucket(CheckRatified(ticked, n), n, now, behind)

\* The coordinator at n as a message handler finds it after _catch_up.
CaughtUp(n, behind) == CatchUp(node[n], n, clock[n], behind)

\* What of a RoundMessage that the round in progress takes notice of.
ForRound(s, m) ==
    /\ s.current_round.state # "NONE"
    /\ s.current_round.bucket = m.bucket
    /\ s.current_round.prev = m.prev
    /\ m.frm \in Roster(s.current_round.prev)

-----------------------------------------------------------------------------
(* Steps                                                                   *)

\* Handler at n ends in state s: the outbox is flushed to the network.
Finish(n, s) ==
    /\ node' = [node EXCEPT ![n] = [s EXCEPT !.outbox = {}]]
    /\ msgs' = msgs \cup s.outbox
    /\ UNCHANGED <<clock, crashes>>

\* A message reaches the members of its sender's roster, and a handler only if
\* the sender was a member to the receiver when it came in: Node._on_delivered
\* tests that and posts the message, the handler is a later event.
Delivered(n, m) ==
    /\ node[n].up
    /\ m.frm # n
    /\ n \in Roster(m.prev)
    /\ m.frm \in UNION {Roster(SubSeq(node[n].chain, 1, i)) : i \in 0..Len(node[n].chain)}

\* Follower.behind at n, which counts fresh height reports of members.  A report
\* may be lost, late or stale, so only reports of blocks that a member does have
\* make it true, and nothing makes it so for sure.
Behind(n) ==
    LET roster == Roster(node[n].chain)
        ahead  == {p \in roster : Len(node[p].chain) > Len(node[n].chain)}
    IN  {FALSE} \cup {Cardinality(ahead) >= Corroboration(Cardinality(roster))}

\* _on_round_msg once caught up, for each kind of message.
TakeHeld(s, n, m, push) ==
    IF ForRound(s, m) THEN CheckRatified(OnHeld(s, n, m, push), n) ELSE s
TakeBodies(s, n, m) ==
    IF ForRound(s, m) THEN CheckRatified(Absorb(s, n, m), n) ELSE s
TakeSig(s, n, m) ==
    IF ForRound(s, m) THEN CheckRatified(OnSig(s, m), n) ELSE s

\* _on_settle_msg once caught up: dropped unless this node settles the same slice.
TakeSettleSig(s, m) ==
    IF /\ s.settling.state # "NONE"
       /\ s.settling.bucket = m.bucket /\ s.settling.txs = m.txs
    THEN CheckSettled(OnSettleSig(s, m)) ELSE s

ReceiveHeld(n, m) ==
    /\ m.type = "HELD" /\ Delivered(n, m)
    /\ \E behind \in Behind(n) : \E s \in {CaughtUp(n, behind)} :
           \E push \in Elections(s.current_round, m) :
               Finish(n, TakeHeld(s, n, m, push))

ReceiveBodies(n, m) ==
    /\ m.type = "BODIES" /\ m.to = n /\ Delivered(n, m)
    /\ \E behind \in Behind(n) : Finish(n, TakeBodies(CaughtUp(n, behind), n, m))

ReceiveSig(n, m) ==
    /\ m.type = "SIG" /\ Delivered(n, m)
    /\ \E behind \in Behind(n) : Finish(n, TakeSig(CaughtUp(n, behind), n, m))

ReceiveSettleSig(n, m) ==
    /\ m.type = "SETTLE_SIG" /\ Delivered(n, m)
    /\ \E behind \in Behind(n) : Finish(n, TakeSettleSig(CaughtUp(n, behind), m))

\* _on_round_close.  Timers fire in the order of their times, so the older
\* SettleAbandon of this node is not pending any more.
RoundClose(n) ==
    LET r == node[n].current_round
    IN  /\ node[n].up
        /\ r.state \in {"COLLECT", "FINALIZE"} /\ clock[n] >= CloseBy(r.bucket)
        /\ node[n].settling.state # "NONE" => node[n].settling.bucket >= r.bucket
        /\ \E s \in {RoundTick(node[n], n, clock[n])} : Finish(n, CheckRatified(s, n))


\* _on_round_abandon, after the round's RoundClose.  The outbox is not flushed:
\* what the tick queued goes with the round.
RoundAbandon(n) ==
    LET r == node[n].current_round
    IN  /\ node[n].up
        /\ r.state \notin {"NONE", "COLLECT"} /\ clock[n] >= AbandonBy(r.bucket)
        /\ \E s \in {RoundTick(node[n], n, clock[n])} :
               Finish(n, [DropAbandoned(s) EXCEPT !.outbox = {}])


\* _on_settle_abandon_event
SettleAbandon(n) ==
    /\ node[n].up
    /\ node[n].settling.state # "NONE" /\ clock[n] >= AbandonBy(node[n].settling.bucket)
    /\ Finish(n, FreeSettling(SettleTick(node[n], clock[n])))

\* _on_bucket_tick
BucketTick(n) ==
    /\ node[n].up
    /\ BucketOf(clock[n]) > node[n].current_bucket
    /\ \E behind \in Behind(n) :
           Finish(n, CloseCurrentBucket(node[n], n, clock[n], behind))

\* Mempool.valid: the test of a transaction at the door, in terms of the clock.
Valid(c, t, now) ==
    /\ now - Stamp[t] <= WAdmit
    /\ Stamp[t] - now <= WAdmit
    /\ t \notin Settled(c)
    /\ WouldApply(c, t)

\* Coordinator.submit and Mempool.admit
Submit(n, t) ==
    /\ node[n].up /\ n \in Door[t] /\ clock[n] < SubmitBy
    /\ n \in Roster(node[n].chain)
    /\ t \notin node[n].mempool
    /\ Valid(node[n].chain, t, clock[n])
    /\ node' = [node EXCEPT ![n].mempool = @ \cup {t}]
    /\ UNCHANGED <<clock, msgs, crashes>>

\* chain.advance: the multisig of block i of c verifies against the roster the
\* block was settled under.
Authorised(c, i) ==
    LET prev    == SubSeq(c, 1, i - 1)
        signers == {m \in Roster(prev) :
                        SettleSig(m, c[i].bucket, prev, c[i].txs) \in msgs}
    IN  Cardinality(signers) >= QuorumOf(prev)

\* Follower._on_settled_blocks and _adopt: blocks of p that link to my tip, up
\* to number num, are verified and committed.
Adopt(n, p, num) ==
    LET mine == node[n].chain
        c    == SubSeq(node[p].chain, 1, num)
    IN  /\ node[n].up /\ p # n
        /\ num \in (Len(mine) + 1)..Len(node[p].chain)
        /\ SubSeq(c, 1, Len(mine)) = mine
        /\ \A i \in (Len(mine) + 1)..num :
               /\ Authorised(c, i)
               /\ ApplyTo(StateOf(SubSeq(c, 1, i - 1)), c[i].txs).keep = c[i].txs
        /\ node' = [node EXCEPT ![n].chain = c]
        /\ UNCHANGED <<clock, msgs, crashes>>

\* Time passes at n.
Tick(n) ==
    /\ clock[n] < MaxClock /\ n \notin Down
    /\ \A m \in Nodes \ Down : clock[n] < clock[m] + MaxSkew
    /\ clock' = [clock EXCEPT ![n] = @ + 1]
    /\ UNCHANGED <<node, msgs, crashes>>

\* A node with nothing in flight at time now, over a store with chain c.
Started(c, now, up, fault) ==
    [up |-> up, fault |-> fault, current_bucket |-> BucketOf(now),
     current_round |-> NoRound, settling |-> NoSettling, chain |-> c,
     mempool |-> {}, outbox |-> {}]

\* The process of n is lost.  Only its store survives.
Crash(n) ==
    /\ node[n].up /\ crashes < MaxCrashes
    /\ crashes' = crashes + 1
    /\ node' = [node EXCEPT ![n] = Started(@.chain, clock[n], FALSE, @.fault)]
    /\ UNCHANGED <<clock, msgs>>

\* Coordinator.__init__ and start, in a new process.
Restart(n) ==
    /\ ~node[n].up /\ n \notin Down
    /\ node' = [node EXCEPT ![n] = Started(@.chain, clock[n], TRUE, @.fault)]
    /\ UNCHANGED <<clock, msgs, crashes>>

Init ==
    /\ clock = [n \in Nodes |-> BlockTime - 1]
    /\ node = [n \in Nodes |-> Started(<<>>, BlockTime - 1, n \notin Down, FALSE)]
    /\ msgs = {}
    /\ crashes = 0

Next ==
    \/ \E n \in Nodes, m \in msgs : ReceiveHeld(n, m)
    \/ \E n \in Nodes, m \in msgs : ReceiveBodies(n, m)
    \/ \E n \in Nodes, m \in msgs : ReceiveSig(n, m)
    \/ \E n \in Nodes, m \in msgs : ReceiveSettleSig(n, m)
    \/ \E n \in Nodes : RoundClose(n)
    \/ \E n \in Nodes : RoundAbandon(n)
    \/ \E n \in Nodes : SettleAbandon(n)
    \/ \E n \in Nodes : BucketTick(n)
    \/ \E n \in Nodes, t \in Txs : Submit(n, t)
    \/ \E n, p \in Nodes : \E num \in 1..Len(node[p].chain) : Adopt(n, p, num)
    \/ \E n \in Nodes : Tick(n)
    \/ \E n \in Nodes : Crash(n)
    \/ \E n \in Nodes : Restart(n)

Spec == Init /\ [][Next]_vars

\* A timer of n fires.
Timers(n) == RoundClose(n) \/ RoundAbandon(n) \/ SettleAbandon(n) \/ BucketTick(n)

\* Clocks run, the loop fires due timers for as long as there is something for
\* them to do, and a supervisor starts a process that ended again.  No message
\* needs to arrive.
FairSpec ==
    /\ Spec
    /\ \A n \in Nodes \ Down : WF_vars(Tick(n)) /\ WF_vars(Restart(n)) /\ WF_vars(Timers(n))

-----------------------------------------------------------------------------
(* Properties                                                              *)

RoundType(sent) ==
    [state: {"NONE", "COLLECT", "FINALIZE", "GONE", "ABANDONED"}, bucket: Nat,
     prev: Chain, bodies: SUBSET Txs, holds: SUBSET sent, sigs: SUBSET sent,
     slice: SUBSET Txs]

SettlingType ==
    [state: {"NONE", "COLLECTING", "ABANDONED"}, bucket: Nat, prev: Chain,
     txs: SUBSET Txs, sigs: SUBSET Nodes]

NodeType(sent) ==
    [up: BOOLEAN, fault: BOOLEAN, current_bucket: Nat,
     current_round: RoundType(sent), settling: SettlingType, chain: Chain,
     mempool: SUBSET Txs, outbox: SUBSET Message]

\* Every variable has its type, a round holds only messages that were sent, and
\* every handler leaves its outbox empty.
TypeOK ==
    /\ node \in [Nodes -> NodeType(msgs)]
    /\ \A n \in Nodes : node[n].outbox = {}
    /\ clock \in [Nodes -> Nat]
    /\ msgs \in SUBSET Message
    /\ crashes \in Nat

\* A member signs at most one slice per bucket and the anchors of at most one
\* block per bucket, whatever it forgot in a crash (Round.tick cuts once,
\* _close_current_bucket opens no bucket again, start() none that has closed).
SignOnce ==
    \A m, k \in msgs :
        /\ m.type \in {"SIG", "SETTLE_SIG"} /\ k.type = m.type
        /\ k.frm = m.frm /\ k.bucket = m.bucket
        => k = m

\* The slices in the hands of n: settling or committed, each with its base.
Decided(n) ==
    {[prev |-> SubSeq(node[n].chain, 1, i - 1), bucket |-> node[n].chain[i].bucket,
      txs |-> node[n].chain[i].txs] : i \in DOMAIN node[n].chain}
    \cup {[prev |-> g.prev, bucket |-> g.bucket, txs |-> g.txs] :
              g \in {g \in {node[n].settling} : g.state # "NONE"}}

\* No two nodes ratify, and so settle, different slices for one bucket and one
\* base, under any loss, delay, duplication, crash and clock.
OneSlicePerBucket ==
    \A n, k \in Nodes : \A d \in Decided(n), e \in Decided(k) :
        d.bucket = e.bucket /\ d.prev = e.prev => d.txs = e.txs

\* Every block of every store carries the settle signatures of a quorum of the
\* roster below it, so that any other node can adopt it.
BlocksAuthorised ==
    \A n \in Nodes : \A i \in DOMAIN node[n].chain : Authorised(node[n].chain, i)

\* A transaction takes effect at most once: no op_hash is in two blocks of one
\* chain, although rounds are abandoned and retried, bodies of settled
\* transactions stay in mempools and blocks arrive by two routes.
SettleOnce ==
    \A n \in Nodes : \A i, j \in DOMAIN node[n].chain :
        i # j => node[n].chain[i].txs \cap node[n].chain[j].txs = {}

\* Buckets increase along every chain, so the bucket of the head says how old
\* the head is (sync/chain.py is_stale).
BucketsIncrease ==
    \A n \in Nodes : \A i, j \in DOMAIN node[n].chain :
        i < j => node[n].chain[i].bucket < node[n].chain[j].bucket

\* A round runs beside a settlement only when the settlement is past its
\* deadline and can no longer succeed: commits never interleave with a cut on
\* the base they replace.
OverlapIsDead ==
    \A n \in Nodes :
        LET s == node[n]
        IN  s.up /\ s.current_round.state # "NONE" /\ s.settling.state # "NONE"
            => /\ s.settling.bucket < s.current_round.bucket
               /\ clock[n] >= AbandonBy(s.settling.bucket)

\* A ratified round never stays in its slot after a handler, where no timer
\* would free it and every BucketTick would post the next at once.
NoParkedRound ==
    \A n \in Nodes : node[n].up => node[n].current_round.state # "GONE"



\* No handler raises InvariantError: a settlement never meets a store that
\* moved to another block or beyond its anchors.
NoFault == \A n \in Nodes : ~node[n].fault

\* Every participant folds the same log: of two stores one holds a prefix of
\* the other's chain.
SameLog ==
    \A n, k \in Nodes :
        \/ IsPrefix(node[n].chain, node[k].chain)
        \/ IsPrefix(node[k].chain, node[n].chain)
=============================================================================
