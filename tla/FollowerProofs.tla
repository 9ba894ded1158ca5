--------------------------- MODULE FollowerProofs ---------------------------
(***************************************************************************)
(* The replica's store stays coherent, and following the chain implements  *)
(* a ledger: proofs about Follower for every chain, every cast of peers    *)
(* and every budget of faults.                                             *)
(***************************************************************************)
EXTENDS Follower, FiniteSetTheorems, SequenceTheorems, TLAPS

-----------------------------------------------------------------------------
(* Numbers                                                                 *)

\* A set of naturals that is not empty has a least element.
LEMMA LeastOfNaturals ==
    ASSUME NEW S \in SUBSET Nat, S # {}
    PROVE  \E m \in S : \A k \in S : m <= k
<1>1. PICK m \in S : \A k \in S : <<k, m>> \notin OpToRel(<, Nat)
  BY NatLessThanWellFounded, WFMin, Zenon
<1>2. \A k \in S : ~(k < m)
  BY <1>1, Zenon DEF OpToRel
<1> QED  BY <1>2

\* Min returns the least element of a set of naturals.
LEMMA MinOfNaturals ==
    ASSUME NEW S \in SUBSET Nat, S # {}
    PROVE  Min(S) \in S /\ \A k \in S : Min(S) <= k
BY LeastOfNaturals, Zenon DEF Min

\* Max returns the greatest element of a set of naturals that has a bound.
LEMMA MaxOfBounded ==
    ASSUME NEW n \in Nat, NEW S \in SUBSET (0..n), S # {}
    PROVE  Max(S) \in S /\ \A k \in S : k <= Max(S)
<1> DEFINE T == {n - x : x \in S}
<1>1. \A x \in S : n - x \in Nat
  OBVIOUS
<1> HIDE DEF T
<1>2. T \in SUBSET Nat /\ T # {}
  BY <1>1, Zenon DEF T
<1>3. PICK t \in T : \A k \in T : t <= k
  BY <1>2, LeastOfNaturals
<1>4. PICK m \in S : t = n - m
  BY DEF T
<1>5. \A k \in S : m >= k
  BY <1>3, <1>4 DEF T
<1> QED  BY <1>5, Zenon DEF Max

-----------------------------------------------------------------------------
(* Stores. *)

\* A record with a store's fields, whose blocks are blocks of the chain.
IsStore(st) ==
    /\ st = [blocks |-> st.blocks, entries |-> st.entries, live |-> st.live,
             floor |-> st.floor]
    /\ DOMAIN st.blocks \subseteq Blocks

\* Blocks are numbered from 1 to the length of the chain.
LEMMA BlocksAreNumbers == Len(Chain) \in Nat /\ Blocks = 1..Len(Chain)
BY ChainAssumption DEF Blocks

\* HeadBlockNum is the greatest block number of the store, 0 if it has none.
LEMMA HeadOfStore ==
    ASSUME NEW st, IsStore(st)
    PROVE  /\ HeadBlockNum(st) \in {0} \cup DOMAIN st.blocks
           /\ HeadBlockNum(st) \in 0..Len(Chain)
           /\ \A b \in DOMAIN st.blocks : b <= HeadBlockNum(st)
<1> DEFINE S == {0} \cup DOMAIN st.blocks
<1>1. S \in SUBSET (0..Len(Chain)) /\ S # {}
  BY BlocksAreNumbers DEF IsStore
<1>2. Max(S) \in S /\ \A k \in S : k <= Max(S)
  BY <1>1, MaxOfBounded, BlocksAreNumbers, Zenon
<1> QED  BY <1>1, <1>2, Zenon DEF HeadBlockNum

\* It is a natural number.
LEMMA HeadIsNatural == ASSUME NEW st, IsStore(st) PROVE HeadBlockNum(st) \in Nat
<1>1. HeadBlockNum(st) \in 0..Len(Chain)
  BY HeadOfStore
<1> QED  BY <1>1, BlocksAreNumbers

\* A block number that is there and that no other exceeds is the head.
LEMMA HeadIs ==
    ASSUME NEW st, IsStore(st), NEW n \in {0} \cup DOMAIN st.blocks,
           \A b \in DOMAIN st.blocks : b <= n
    PROVE  HeadBlockNum(st) = n
<1>1. n \in 0..Len(Chain)
  BY BlocksAreNumbers DEF IsStore
<1> QED  BY <1>1, HeadOfStore, BlocksAreNumbers

\* commit_block keeps a store a store and adds the block to its table.
LEMMA CommitKeepsStore ==
    ASSUME NEW st, IsStore(st), NEW b \in Blocks
    PROVE  /\ IsStore(CommitBlock(st, b))
           /\ DOMAIN CommitBlock(st, b).blocks = DOMAIN st.blocks \cup {b}
BY Zenon DEF CommitBlock, InsertBlock, Applied, IsStore

\* The head after commit_block.
LEMMA CommitHead ==
    ASSUME NEW st, IsStore(st), NEW b \in Blocks
    PROVE  /\ HeadBlockNum(st) <= HeadBlockNum(CommitBlock(st, b))
           /\ b = HeadBlockNum(st) + 1 => HeadBlockNum(CommitBlock(st, b)) = b
<1> DEFINE new == CommitBlock(st, b)
<1>1. IsStore(new) /\ DOMAIN new.blocks = DOMAIN st.blocks \cup {b}
  BY CommitKeepsStore
<1> HIDE DEF new
<1>2. b \in 1..Len(Chain) /\ Len(Chain) \in Nat
  BY BlocksAreNumbers
<1>3. HeadBlockNum(st) <= HeadBlockNum(new)
  BY <1>1, <1>2, HeadOfStore
<1>4. ASSUME b = HeadBlockNum(st) + 1
      PROVE  HeadBlockNum(new) = b
  <2>1. \A c \in DOMAIN new.blocks : c <= b
    BY <1>1, <1>2, <1>4, HeadOfStore, BlocksAreNumbers DEF IsStore
  <2> QED  BY <1>1, <2>1, HeadIs, Zenon
<1> QED  BY <1>3, <1>4 DEF new

\* gc_below keeps a store a store, and its head.
LEMMA CollectKeepsStore ==
    ASSUME NEW st, IsStore(st), NEW pivot \in DOMAIN st.blocks
    PROVE  /\ IsStore(GcBelow(st, pivot))
           /\ HeadBlockNum(GcBelow(st, pivot)) = HeadBlockNum(st)
<1> DEFINE new == GcBelow(st, pivot)
<1>1. /\ new = [blocks |-> new.blocks, entries |-> new.entries, live |-> new.live,
                 floor |-> new.floor]
      /\ DOMAIN new.blocks = {d \in DOMAIN st.blocks : d >= pivot}
  <2> DEFINE kept == [c \in {d \in DOMAIN st.blocks : d >= pivot} |-> st.blocks[c]]
             log == {i \in st.entries : i >= st.blocks[pivot].first}
  <2>1. new = [st EXCEPT !.entries = log, !.blocks = kept]
    BY DEF GcBelow
  <2>2. DOMAIN kept = {d \in DOMAIN st.blocks : d >= pivot}
    OBVIOUS
  <2> HIDE DEF kept, log, new
  <2>3. new = [blocks |-> kept, entries |-> log, live |-> st.live, floor |-> st.floor]
    BY <2>1, Zenon DEF IsStore
  <2> QED  BY <2>2, <2>3
<1> HIDE DEF new
<1>2. pivot \in 1..Len(Chain) /\ Len(Chain) \in Nat
  BY BlocksAreNumbers DEF IsStore
<1>3. IsStore(new)
  BY <1>1 DEF IsStore
<1>4. HeadBlockNum(st) \in DOMAIN new.blocks
  BY <1>1, <1>2, HeadOfStore
<1>5. HeadBlockNum(new) = HeadBlockNum(st)
  BY <1>1, <1>3, <1>4, HeadIs, HeadOfStore
<1> QED  BY <1>3, <1>5 DEF new

\* What an import leaves is a store whose head is the checkpoint's block.
LEMMA ImportedStore ==
    ASSUME NEW b \in Blocks, NEW parts
    PROVE  /\ IsStore(Imported(b, parts))
           /\ HeadBlockNum(Imported(b, parts)) = b
           /\ parts = StateAt(b) => Coherent(Imported(b, parts))
<1> DEFINE new == Imported(b, parts)
<1>1. IsStore(new) /\ DOMAIN new.blocks = {b}
  BY DEF Imported, IsStore
<1>2. HeadBlockNum(new) = b
  <2> HIDE DEF new
  <2>1. b <= b
    BY BlocksAreNumbers
  <2> QED  BY <1>1, <2>1, HeadIs, Zenon
<1>3. parts = StateAt(b) => Coherent(new)
  BY <1>2 DEF Coherent, Imported, LogHead
<1> QED  BY <1>1, <1>2, <1>3

\* Adopting a block that links to the head and gives what it was signed for
\* keeps a coherent store coherent.
LEMMA CommitKeepsCoherence ==
    ASSUME NEW st, IsStore(st), Coherent(st), NEW b \in Blocks,
           LinksTo(st, b), PreviewMatches(st, b)
    PROVE  /\ Coherent(CommitBlock(st, b))
           /\ CommitBlock(st, b).live = StateAt(b)
<1> DEFINE new == CommitBlock(st, b)
<1>1. b \in 1..Len(Chain) /\ Len(Chain) \in Nat
  BY BlocksAreNumbers
<1>2. b \notin DOMAIN st.blocks
  BY <1>1, HeadOfStore DEF LinksTo
<1>3. new = InsertBlock(Applied(st, b), b, LogHead(st) + 1)
  BY <1>2 DEF CommitBlock
<1>4. HeadBlockNum(new) = b
  BY <1>1, CommitHead, HeadOfStore DEF LinksTo
<1>5. /\ new.live = Applied(st, b).live /\ LogHead(new) = LogHead(Applied(st, b))
      /\ DOMAIN new.blocks = DOMAIN st.blocks \cup {b}
      /\ \A c \in DOMAIN st.blocks : new.blocks[c] = st.blocks[c]
      /\ new.blocks[b].height = LogHead(Applied(st, b))
  BY <1>2, <1>3 DEF InsertBlock, Applied, LogHead, IsStore
<1> HIDE DEF new
<1>6. Coherent(new) /\ new.live = StateAt(b)
  BY <1>4, <1>5 DEF PreviewMatches, Coherent
<1> QED  BY <1>6 DEF new

-----------------------------------------------------------------------------
(* The inductive invariant. *)

\* Offers are of blocks of the chain, none of them beyond block n.
Offer == [num : Blocks, whole : BOOLEAN]
OffersUpTo(offers, n) ==
    /\ offers \in Seq(Offer)
    /\ \A i \in 1..Len(offers) : offers[i].num <= n

\* A peer has a store, and its checkpoint is of a block that it has settled.
PeerInv(r) ==
    /\ r = [store |-> r.store, collects |-> r.collects, check |-> r.check]
    /\ IsStore(r.store)
    /\ r.check = [meta |-> r.check.meta, chunks |-> r.check.chunks, begun |-> r.check.begun,
                  served |-> r.check.served]
    /\ r.check.meta \in 0..HeadBlockNum(r.store)
    /\ r.check.begun \in 0..HeadBlockNum(r.store)
    /\ r.check.served # 0 => r.check.meta # 0

PeersInv == \A p \in Peers : PeerInv(peer[p])

\* A message is a request to a peer or an answer of one, which offers blocks that
\* are settled.
MessageInv(m) ==
    \/ m.is = "get" /\ m = GetBlocks(m.to, m.frm) /\ m.to \in Peers /\ m.frm \in Nat \ {0}
    \/ /\ m.is = "blocks" /\ m = SettledBlocks(m.from, m.offers) /\ m.from \in Peers
       /\ OffersUpTo(m.offers, Settled)
    \/ m.is = "refused" /\ m = Refused(m.from, m.reason, m.num) /\ m.from \in Peers

NetInv == \A m \in net : MessageInv(m)

\* The follower knows of peers, and pulls from one.
IsFollower(fo) ==
    /\ fo = [heads |-> fo.heads, pulling |-> fo.pulling, ok |-> fo.ok, fail |-> fo.fail,
             compacted |-> fo.compacted]
    /\ DOMAIN fo.heads \subseteq Peers /\ DOMAIN fo.compacted \subseteq Peers
    /\ fo.pulling = NoPull \/ fo.pulling.from \in Peers

FollowerInv == IsFollower(follower)

\* The replica's store holds settled blocks, and is coherent until an import falls
\* inside an adoption.
MineInv ==
    /\ IsStore(mine) /\ HeadBlockNum(mine) <= Settled
    /\ overlapped \in BOOLEAN
    /\ ReplicaCoherent

\* Between its check and its commit the offered block is still acceptable, unless
\* an import has replaced the store.
AdoptingInv ==
    /\ adopting = [from |-> adopting.from, frm |-> adopting.frm, offers |-> adopting.offers,
                   checked |-> adopting.checked]
    /\ OffersUpTo(adopting.offers, Settled)
    /\ adopting.checked \in BOOLEAN
    /\ adopting.checked => adopting.offers # <<>>
    /\ adopting.checked => overlapped \/ Acceptable(mine, adopting.frm, adopting.offers[1])

\* The checkpoint under download is of a settled block.
DownloadInv ==
    /\ download = [pc |-> download.pc, left |-> download.left, from |-> download.from,
                   meta |-> download.meta, chunks |-> download.chunks]
    /\ download.pc \in {"off", "ask", "chunks", "write", "verify"}
    /\ download.pc \in {"chunks", "write", "verify"} => download.meta \in 1..Settled

\* What was spent of the budget of faults bounds the messages that no pull waits
\* for.
BudgetInv ==
    \E c \in Casts :
        /\ faults \in 0..c.faults /\ IsFiniteSet(net)
        /\ Cardinality(net) <= c.faults - faults
                               + (IF UnderWay(follower.pulling.from) THEN 1 ELSE 0)

\* "none" is the name of no peer.
NamesInv == "none" \notin Peers

FollowInv ==
    /\ PeersInv /\ NetInv /\ FollowerInv /\ MineInv /\ AdoptingInv /\ DownloadInv
    /\ BudgetInv /\ NamesInv

-----------------------------------------------------------------------------
(* The peers' steps. *)

\* Settled is the greatest head of a peer.
LEMMA SettledIsGreatest ==
    ASSUME PeersInv
    PROVE  /\ Settled \in 0..Len(Chain)
           /\ \A p \in Peers : HeadBlockNum(peer[p].store) <= Settled
           /\ Settled = 0 \/ \E p \in Peers : Settled = HeadBlockNum(peer[p].store)
<1> DEFINE S == {0} \cup {HeadBlockNum(StoreOf(p)) : p \in Peers}
<1>1. \A p \in Peers : HeadBlockNum(StoreOf(p)) \in 0..Len(Chain)
  BY HeadOfStore, Zenon DEF PeersInv, PeerInv, StoreOf
<1>2. S \in SUBSET (0..Len(Chain)) /\ S # {}
  BY <1>1, BlocksAreNumbers
<1>3. Max(S) \in S /\ \A k \in S : k <= Max(S)
  BY <1>2, MaxOfBounded, BlocksAreNumbers, Zenon
<1> QED  BY <1>2, <1>3, Zenon DEF Settled, StoreOf

\* What any step does to the peers: none comes or goes, and the chain is settled
\* as far as before or one block further.
Grows ==
    /\ Peers' = Peers
    /\ PeersInv'
    /\ Settled \in Nat /\ Settled' \in Settled..(Settled + 1)

\* A step that moves no peer's head back, and none by more than a block.
LEMMA HeadsGrow ==
    ASSUME PeersInv, PeersInv', Peers' = Peers,
           \A p \in Peers : HeadBlockNum(peer'[p].store) \in
               HeadBlockNum(peer[p].store)..(HeadBlockNum(peer[p].store) + 1)
    PROVE  Grows
<1>1. /\ Settled \in 0..Len(Chain)
      /\ \A p \in Peers : HeadBlockNum(peer[p].store) <= Settled
      /\ Settled = 0 \/ \E p \in Peers : Settled = HeadBlockNum(peer[p].store)
  BY SettledIsGreatest
<1>2. /\ Settled' \in 0..Len(Chain)
      /\ \A p \in Peers : HeadBlockNum(peer'[p].store) <= Settled'
      /\ Settled' = 0 \/ \E p \in Peers : Settled' = HeadBlockNum(peer'[p].store)
  <2>1. (/\ Settled \in 0..Len(Chain)
         /\ \A p \in Peers : HeadBlockNum(peer[p].store) <= Settled
         /\ Settled = 0 \/ \E p \in Peers : Settled = HeadBlockNum(peer[p].store))'
    BY SettledIsGreatest, PTL
  <2> QED  BY <2>1
<1>3. \A p \in Peers : HeadBlockNum(peer[p].store) \in 0..Len(Chain)
  BY HeadOfStore, Zenon DEF PeersInv, PeerInv
<1>4. Settled <= Settled'
  BY <1>1, <1>2, <1>3, BlocksAreNumbers
<1>5. Settled' <= Settled + 1
  BY <1>1, <1>2, <1>3, BlocksAreNumbers
<1> QED  BY <1>1, <1>2, <1>4, <1>5, BlocksAreNumbers DEF Grows

\* A step of one peer.
LEMMA OnePeerGrows ==
    ASSUME PeersInv, NEW q \in Peers, peer' = [peer EXCEPT ![q] = peer'[q]],
           PeerInv(peer'[q]),
           HeadBlockNum(peer'[q].store) \in
               HeadBlockNum(peer[q].store)..(HeadBlockNum(peer[q].store) + 1)
    PROVE  Grows
<1>1. Peers' = Peers
  BY DEF Peers
<1>2. \A p \in Peers : p # q => peer'[p] = peer[p]
  BY DEF Peers
<1>3. PeersInv'
  BY <1>1, <1>2 DEF PeersInv
<1>4. \A p \in Peers : HeadBlockNum(peer[p].store) \in Nat
  BY HeadIsNatural, Zenon DEF PeersInv, PeerInv
<1>5. \A p \in Peers : HeadBlockNum(peer'[p].store) \in
               HeadBlockNum(peer[p].store)..(HeadBlockNum(peer[p].store) + 1)
  BY <1>2, <1>4
<1> QED  BY <1>1, <1>3, <1>5, HeadsGrow

\* gc_below at one peer.
LEMMA CollectGrows ==
    ASSUME PeersInv, NEW p \in Peers, NEW pivot \in DOMAIN StoreOf(p).blocks,
           peer' = [peer EXCEPT ![p].store = GcBelow(@, pivot)]
    PROVE  Grows
<1> DEFINE st == peer[p].store
           r == peer'[p]
<1>1. IsStore(st) /\ pivot \in DOMAIN st.blocks /\ PeerInv(peer[p])
  BY DEF PeersInv, PeerInv, StoreOf
<1>2. IsStore(GcBelow(st, pivot)) /\ HeadBlockNum(GcBelow(st, pivot)) = HeadBlockNum(st)
  BY <1>1, CollectKeepsStore
<1>3. r.store = GcBelow(st, pivot) /\ r.check = peer[p].check /\ r.collects = peer[p].collects
      /\ r = [store |-> r.store, collects |-> r.collects, check |-> r.check]
  BY <1>1 DEF PeerInv, Peers
<1>4. HeadBlockNum(st) \in Nat
  BY <1>1, HeadIsNatural
<1>5. peer' = [peer EXCEPT ![p] = r]
  BY DEF Peers
<1>6. PeerInv(r)
  BY <1>1, <1>2, <1>3 DEF PeerInv
<1>7. HeadBlockNum(peer'[p].store) \in HeadBlockNum(peer[p].store)..(HeadBlockNum(peer[p].store) + 1)
  BY <1>2, <1>3, <1>4
<1> QED  BY <1>5, <1>6, <1>7, OnePeerGrows, Zenon

\* The peers' own steps, and with them every step.
LEMMA PeersGrow ==
    ASSUME PeersInv, [Next]_vars
    PROVE  Grows
<1>1. CASE UNCHANGED peer
  <2>1. Peers' = Peers /\ PeersInv'
    BY <1>1 DEF Peers, PeersInv
  <2>2. \A p \in Peers : HeadBlockNum(peer[p].store) \in Nat
    BY HeadIsNatural, Zenon DEF PeersInv, PeerInv
  <2> QED  BY <1>1, <2>1, <2>2, HeadsGrow
<1>2. ASSUME NEW p \in Peers, PeerCommits(p)
      PROVE  Grows
  <2> DEFINE st == peer[p].store
  <2>1. PICK b \in {HeadBlockNum(st) + 1} \cap Blocks :
             peer' = [peer EXCEPT ![p].store = CommitBlock(@, b)]
    BY <1>2, Zenon DEF PeerCommits, StoreOf
  <2> DEFINE r == peer'[p]
  <2>2. IsStore(st) /\ PeerInv(peer[p])
    BY DEF PeersInv, PeerInv
  <2>3. IsStore(CommitBlock(st, b)) /\ HeadBlockNum(CommitBlock(st, b)) = b
    BY <2>1, <2>2, CommitKeepsStore, CommitHead
  <2>4. r.store = CommitBlock(st, b) /\ r.check = peer[p].check
        /\ r = [store |-> r.store, collects |-> r.collects, check |-> r.check]
    BY <2>1, <2>2 DEF PeerInv, Peers
  <2>5. HeadBlockNum(st) \in Nat /\ b = HeadBlockNum(st) + 1
    BY <2>1, <2>2, HeadIsNatural
  <2>6. peer' = [peer EXCEPT ![p] = r]
    BY <2>1 DEF Peers
  <2>7. PeerInv(r)
    BY <2>2, <2>3, <2>4, <2>5 DEF PeerInv
  <2> QED  BY <2>3, <2>4, <2>5, <2>6, <2>7, OnePeerGrows
<1>3. ASSUME NEW p \in Peers, BeginCheckpoint(p) \/ PersistCheckpoint(p) \/ InstallServer(p)
      PROVE  Grows
  <2> DEFINE r == peer'[p]
  <2>1. PeerInv(peer[p]) /\ HeadBlockNum(peer[p].store) \in Nat
    BY HeadIsNatural DEF PeersInv, PeerInv
  <2>2. CASE BeginCheckpoint(p)
    <3>1. /\ peer' = [peer EXCEPT ![p] = r] /\ r.store = peer[p].store
          /\ r = [store |-> r.store, collects |-> r.collects, check |-> r.check]
          /\ r.check = [peer[p].check EXCEPT !.begun = HeadBlockNum(peer[p].store)]
      BY <2>1, <2>2 DEF BeginCheckpoint, PeerInv, Peers
    <3>2. PeerInv(r)
      BY <2>1, <3>1 DEF PeerInv
    <3> QED  BY <2>1, <3>1, <3>2, OnePeerGrows
  <2>3. CASE PersistCheckpoint(p)
    <3>1. /\ peer' = [peer EXCEPT ![p] = r] /\ r.store = peer[p].store
          /\ r = [store |-> r.store, collects |-> r.collects, check |-> r.check]
          /\ r.check = [peer[p].check EXCEPT !.meta = peer[p].check.begun,
                                             !.chunks = peer[p].store.live]
          /\ peer[p].check.begun # 0
      BY <2>1, <2>3, Zenon DEF PersistCheckpoint, PeerInv, Peers
    <3>2. PeerInv(r)
      BY <2>1, <3>1, Zenon DEF PeerInv
    <3> QED  BY <2>1, <3>1, <3>2, OnePeerGrows
  <2>4. CASE InstallServer(p)
    <3>1. /\ peer' = [peer EXCEPT ![p] = r] /\ r.store = peer[p].store
          /\ r = [store |-> r.store, collects |-> r.collects, check |-> r.check]
          /\ r.check = [meta |-> peer[p].check.meta, chunks |-> peer[p].check.chunks,
                        begun |-> 0, served |-> peer[p].check.meta]
      BY <2>1, <2>4, Zenon DEF InstallServer, PeerInv, Peers
    <3>2. PeerInv(r)
      BY <2>1, <3>1 DEF PeerInv
    <3> QED  BY <2>1, <3>1, <3>2, OnePeerGrows
  <2> QED  BY <1>3, <2>2, <2>3, <2>4
<1>4. ASSUME NEW p \in Peers, NEW pivot \in DOMAIN StoreOf(p).blocks,
             PeerCollects(p, pivot) \/ \E m \in net : ServeTorn(p, m, pivot)
      PROVE  Grows
  BY <1>4, CollectGrows, Zenon DEF PeerCollects, ServeTorn
<1>5. ASSUME NEW p \in Peers, NEW m \in net, ServeBlocks(p, m)
      PROVE  UNCHANGED peer
  BY <1>5 DEF ServeBlocks
<1>6. ASSUME LoopNext \/ DownloadNext \/ Restart \/ (\E m \in net : Lose(m)) \/ UNCHANGED vars
      PROVE  UNCHANGED peer
  BY <1>6, Zenon DEF LoopNext, DownloadNext, Restart, Lose, OnHeight, OnBlocks, OnRefused, CheckOffer,
     CommitOffer, Adopted, OnPullExpiry, StartDownload, OnPeerRemoved, AskMeta, AskChunks,
     NoReply, Import, VerifyQuorum, EndDownload, vars
<1> QED  BY <1>1, <1>2, <1>3, <1>4, <1>5, <1>6 DEF Next, PeerNext

-----------------------------------------------------------------------------
(* Messages. *)

\* What serve_getblocks reads are blocks of the store.
LEMMA RunOffers ==
    ASSUME NEW st, IsStore(st), NEW frm \in Nat \ {0}
    PROVE  OffersUpTo(Run(st, frm), HeadBlockNum(st))
<1> DEFINE S == {n \in (frm - 1)..(frm + Batch - 1) : frm..n \subseteq DOMAIN st.blocks}
           last == Max(S)
           offer(i) == [num |-> frm + i - 1, whole |-> BodiesKept(st, frm + i - 1)]
<1>1. frm + Batch - 1 \in Nat /\ S \in SUBSET (0..(frm + Batch - 1))
  BY FollowerAssumption
<1>2. frm - 1 \in S
  <2>1. frm..(frm - 1) = {}
    OBVIOUS
  <2> QED  BY <2>1, FollowerAssumption
<1>3. last \in S
  BY <1>1, <1>2, MaxOfBounded, Zenon
<1>4. last \in Int /\ frm - 1 <= last /\ frm..last \subseteq DOMAIN st.blocks
  BY <1>3, FollowerAssumption
<1> HIDE DEF S, last
<1>5. last - frm + 1 \in Nat
  BY <1>4
<1>6. \A i \in 1..(last - frm + 1) : frm + i - 1 \in DOMAIN st.blocks
  BY <1>4
<1>7. \A i \in 1..(last - frm + 1) :
         /\ offer(i) \in Offer
         /\ offer(i).num <= HeadBlockNum(st)
  BY <1>6, HeadOfStore DEF IsStore, BodiesKept, Offer
<1>8. Run(st, frm) = [i \in 1..(last - frm + 1) |-> offer(i)]
  BY DEF Run, last, S
<1> DEFINE size == last - frm + 1
<1>9. Run(st, frm) \in [1..size -> Offer] /\ \A i \in 1..size : Run(st, frm)[i] = offer(i)
  BY <1>7, <1>8
<1> HIDE DEF size
<1>10. Run(st, frm) \in Seq(Offer) /\ Len(Run(st, frm)) = size
  BY <1>5, <1>9 DEF size
<1> QED  BY <1>7, <1>9, <1>10 DEF OffersUpTo, size

\* Offers up to a block are offers up to a later one.
LEMMA OffersStay ==
    ASSUME NEW offers, NEW m \in Nat, NEW n \in Nat, m <= n, OffersUpTo(offers, m)
    PROVE  OffersUpTo(offers, n)
<1>1. \A i \in 1..Len(offers) : offers[i] \in Offer
  BY DEF OffersUpTo
<1>2. \A i \in 1..Len(offers) : offers[i].num \in Nat
  BY <1>1, BlocksAreNumbers DEF Offer
<1> QED  BY <1>2 DEF OffersUpTo

\* A message stays what it is when the chain grows.
LEMMA MessageStays ==
    ASSUME NEW m, MessageInv(m), Grows
    PROVE  MessageInv(m)'
<1>1. Settled' \in Nat /\ Settled <= Settled'
  BY DEF Grows
<1>2. OffersUpTo(m.offers, Settled) => OffersUpTo(m.offers, Settled')
  BY <1>1, OffersStay DEF Grows
<1> QED  BY <1>2 DEF MessageInv, Grows

\* A peer's head is a natural number, and not beyond what is settled.
LEMMA PeerHead ==
    ASSUME PeersInv, NEW p \in Peers
    PROVE  /\ IsStore(StoreOf(p)) /\ HeadBlockNum(StoreOf(p)) \in Nat
           /\ Settled \in Nat /\ HeadBlockNum(StoreOf(p)) <= Settled
<1>1. IsStore(StoreOf(p))
  BY Zenon DEF PeersInv, PeerInv, StoreOf
<1>2. HeadBlockNum(StoreOf(p)) \in Nat
  BY <1>1, HeadIsNatural
<1>3. HeadBlockNum(StoreOf(p)) <= Settled /\ Settled \in 0..Len(Chain)
  BY SettledIsGreatest DEF StoreOf
<1> QED  BY <1>1, <1>2, <1>3, BlocksAreNumbers

\* The answer that a peer gives.
LEMMA AnswerInv ==
    ASSUME PeersInv, NEW p \in Peers, NEW frm \in Nat \ {0}
    PROVE  MessageInv(Served(p, StoreOf(p), frm))
<1> DEFINE st == StoreOf(p)
<1>1. IsStore(st) /\ HeadBlockNum(st) \in Nat /\ HeadBlockNum(st) <= Settled /\ Settled \in Nat
  BY PeerHead
<1>2. OffersUpTo(Run(st, frm), Settled)
  BY <1>1, RunOffers, OffersStay
<1> HIDE DEF st
<1> QED  BY <1>2, Zenon DEF MessageInv, Served, SettledBlocks, Refused, st

\* The answer of a peer that collects meanwhile.
LEMMA TornAnswerInv ==
    ASSUME PeersInv, NEW p \in Peers, NEW frm \in DOMAIN StoreOf(p).blocks,
           NEW pivot \in DOMAIN StoreOf(p).blocks
    PROVE  LET first == <<[num |-> frm, whole |-> TxCount(frm) = 0]>>
               run == Run(StoreOf(p), pivot)
               rest == SubSeq(run, 1, Min({Batch - 1, Len(run)}))
           IN  /\ OffersUpTo(first \o rest, Settled)
               /\ OffersUpTo(first \o <<>>, Settled)
<1> DEFINE first == <<[num |-> frm, whole |-> TxCount(frm) = 0]>>
           run == Run(StoreOf(p), pivot)
           k == Min({Batch - 1, Len(run)})
           rest == SubSeq(run, 1, k)
<1>1. IsStore(StoreOf(p)) /\ frm \in Blocks /\ pivot \in Nat \ {0}
  BY PeerHead, BlocksAreNumbers DEF IsStore
<1>2. HeadBlockNum(StoreOf(p)) \in Nat /\ HeadBlockNum(StoreOf(p)) <= Settled /\ Settled \in Nat
      /\ frm <= HeadBlockNum(StoreOf(p))
  BY PeerHead, HeadOfStore
<1>3. OffersUpTo(run, Settled)
  BY <1>1, <1>2, RunOffers, OffersStay
<1>4. first \in Seq(Offer) /\ Len(first) = 1 /\ first[1].num = frm /\ frm <= Settled
  BY <1>1, <1>2, BlocksAreNumbers DEF Offer
<1>5. run \in Seq(Offer) /\ \A i \in 1..Len(run) : run[i].num <= Settled
  BY <1>3 DEF OffersUpTo
<1>6. k \in 0..Len(run)
  <2>1. Batch - 1 \in Nat /\ Len(run) \in Nat
    BY <1>5, FollowerAssumption
  <2>2. {Batch - 1, Len(run)} \in SUBSET Nat /\ {Batch - 1, Len(run)} # {}
    BY <2>1
  <2>3. k \in Nat /\ k <= Len(run)
    BY <2>2, MinOfNaturals
  <2> QED  BY <2>1, <2>3
<1> HIDE DEF run, k
<1>7. \A i \in 1..k : run[i] \in Offer
  BY <1>5, <1>6
<1>8. rest \in Seq(Offer) /\ Len(rest) = k /\ \A i \in 1..k : rest[i] = run[i]
  BY <1>6, <1>7, SubSeqProperties
<1> HIDE DEF first, rest
<1>9. /\ first \o rest \in Seq(Offer) /\ Len(first \o rest) = 1 + k
      /\ \A i \in 1..(1 + k) : (first \o rest)[i] = IF i <= 1 THEN first[i] ELSE rest[i - 1]
  <2>1. Len(first) + Len(rest) = 1 + k
    BY <1>4, <1>8
  <2>2. /\ first \o rest \in Seq(Offer) /\ Len(first \o rest) = Len(first) + Len(rest)
        /\ \A i \in 1..(Len(first) + Len(rest)) : (first \o rest)[i] =
              IF i <= Len(first) THEN first[i] ELSE rest[i - Len(first)]
    BY <1>4, <1>8, ConcatProperties, Zenon
  <2>3. \A i : i <= Len(first) <=> i <= 1
    BY <1>4
  <2> QED  BY <1>4, <2>1, <2>2, <2>3
<1>10. OffersUpTo(first \o rest, Settled)
  <2>1. \A i \in 1..(1 + k) : i <= 1 => i = 1
    BY <1>6
  <2>2. \A i \in 1..(1 + k) : ~(i <= 1) => i - 1 \in 1..k /\ i - 1 \in 1..Len(run)
    BY <1>5, <1>6
  <2>3. \A i \in 1..(1 + k) : (first \o rest)[i].num <= Settled
    BY <1>4, <1>5, <1>8, <1>9, <2>1, <2>2, Zenon
  <2> QED  BY <1>9, <2>3 DEF OffersUpTo
<1>11. OffersUpTo(first \o <<>>, Settled)
  <2>1. first \o <<>> = first
    BY <1>4, ConcatEmptySeq
  <2>2. \A i \in 1..Len(first) : i = 1
    BY <1>4
  <2> QED  BY <1>4, <2>1, <2>2, Zenon DEF OffersUpTo
<1> QED  BY <1>10, <1>11 DEF first, rest, k, run

-----------------------------------------------------------------------------
(* The follower and the messages. *)

\* _try_pull sends at most one request, to a peer that the follower has heard of.
LEMMA TryPullEffect ==
    ASSUME NEW fo, NEW num, NEW msgs, TryPull(fo, num, msgs)
    PROVE  \/ follower' = fo /\ net' = msgs
           \/ \E p \in DOMAIN fo.heads :
                /\ fo.pulling = NoPull
                /\ follower' = [fo EXCEPT !.pulling = [from |-> p, frm |-> num + 1]]
                /\ net' = msgs \cup {GetBlocks(p, num + 1)}
BY DEF TryPull, PullSources, Ahead

\* _try_pull keeps what holds of the follower and of the messages.
LEMMA TryPullInv ==
    ASSUME NEW fo, NEW num \in Nat, NEW msgs, TryPull(fo, num, msgs),
           Grows, IsFollower(fo), \A m \in msgs : MessageInv(m)
    PROVE  FollowerInv' /\ NetInv'
<1>1. \A m \in msgs : MessageInv(m)'
  BY MessageStays
<1>2. CASE follower' = fo /\ net' = msgs
  BY <1>1, <1>2 DEF FollowerInv, IsFollower, NetInv, Grows
<1>3. ASSUME NEW p \in DOMAIN fo.heads,
             follower' = [fo EXCEPT !.pulling = [from |-> p, frm |-> num + 1]],
             net' = msgs \cup {GetBlocks(p, num + 1)}
      PROVE  FollowerInv' /\ NetInv'
  <2>1. p \in Peers
    BY DEF IsFollower
  <2>2. MessageInv(GetBlocks(p, num + 1))'
    BY <2>1 DEF MessageInv, GetBlocks, Grows
  <2>3. FollowerInv'
    BY <1>3, <2>1 DEF FollowerInv, IsFollower, Grows
  <2> QED  BY <1>1, <1>3, <2>2, <2>3 DEF NetInv
<1> QED  BY <1>2, <1>3, TryPullEffect

\* The helpers that a handler applies to the follower.
LEMMA FollowerHelpers ==
    ASSUME NEW fo, IsFollower(fo), NEW p \in Peers, NEW n
    PROVE  /\ IsFollower([fo EXCEPT !.heads = With(@, p, n)])
           /\ IsFollower([fo EXCEPT !.compacted = With(@, p, n)])
           /\ IsFollower([fo EXCEPT !.pulling = NoPull])
           /\ IsFollower([fo EXCEPT !.compacted = <<>>])
<1>1. DOMAIN With(fo.heads, p, n) \subseteq Peers
  BY DEF With, IsFollower
<1>2. DOMAIN With(fo.compacted, p, n) \subseteq Peers
  BY DEF With, IsFollower
<1> QED  BY <1>1, <1>2 DEF IsFollower

\* _last_ok_at and _last_fail_at are kept beside the rest.
LEMMA FollowerMarks ==
    ASSUME NEW fo, IsFollower(fo), NEW p
    PROVE  /\ IsFollower(Succeeded(fo, p)) /\ Succeeded(fo, p).pulling = fo.pulling
           /\ IsFollower(Failed(fo, p)) /\ Failed(fo, p).pulling = fo.pulling
<1> DEFINE ok == <<p>> \o Dropped(fo.ok, p)
           fail == Dropped(fo.fail, p) \o <<p>>
<1>1. Succeeded(fo, p) = [fo EXCEPT !.ok = ok] /\ Failed(fo, p) = [fo EXCEPT !.fail = fail]
  BY DEF Succeeded, Failed
<1> HIDE DEF ok, fail
<1> QED  BY <1>1 DEF IsFollower

\* No step breaks what holds of the follower and of the messages.
LEMMA FollowerAndNetKept ==
    ASSUME FollowInv, [Next]_vars
    PROVE  FollowerInv' /\ NetInv'
<1> USE DEF FollowInv
<1>1. Grows
  BY PeersGrow
<1>2. \A m \in net : MessageInv(m)'
  BY MessageStays, <1>1 DEF NetInv
<1>3. HeadBlockNum(mine) \in Nat
  BY HeadIsNatural DEF MineInv
<1>4. CASE UNCHANGED <<follower, net>>
  BY <1>1, <1>2, <1>4 DEF FollowerInv, IsFollower, NetInv, Grows
<1>5. ASSUME NEW p \in Peers, NEW m \in net, ServeBlocks(p, m)
      PROVE  FollowerInv' /\ NetInv'
  <2>1. m.frm \in Nat \ {0}
    BY <1>5 DEF ServeBlocks, NetInv, MessageInv
  <2>2. MessageInv(Served(p, StoreOf(p), m.frm))
    BY <2>1, AnswerInv
  <2>3. MessageInv(Served(p, StoreOf(p), m.frm))'
    BY <1>1, <1>5, <2>2, MessageStays DEF ServeBlocks, StoreOf
  <2> QED  BY <1>1, <1>2, <1>5, <2>3 DEF ServeBlocks, NetInv, FollowerInv, IsFollower, Grows, StoreOf
<1>6. ASSUME NEW p \in Peers, NEW m \in net, NEW pivot \in DOMAIN StoreOf(p).blocks,
             ServeTorn(p, m, pivot)
      PROVE  FollowerInv' /\ NetInv'
  <2> DEFINE first == <<[num |-> m.frm, whole |-> TxCount(m.frm) = 0]>>
             run == Run(StoreOf(p), pivot)
             rest == SubSeq(run, 1, Min({Batch - 1, Len(run)}))
             offers == first \o IF pivot = m.frm + 1 /\ Batch > 1 THEN rest ELSE <<>>
  <2>1. m.frm \in DOMAIN StoreOf(p).blocks
    BY <1>6 DEF ServeTorn
  <2>2. OffersUpTo(first \o rest, Settled) /\ OffersUpTo(first \o <<>>, Settled)
    BY <2>1, TornAnswerInv
  <2>3. net' = (net \ {m}) \cup {SettledBlocks(p, offers)} /\ follower' = follower
    BY <1>6 DEF ServeTorn
  <2>4. OffersUpTo(offers, Settled)
    BY <2>2, Zenon
  <2> HIDE DEF offers
  <2>5. OffersUpTo(offers, Settled')
    BY <1>1, <2>4, OffersStay DEF Grows
  <2>6. \A x \in net' : MessageInv(x)'
    BY <1>1, <1>2, <2>3, <2>5 DEF MessageInv, SettledBlocks, Grows
  <2> QED  BY <1>1, <2>3, <2>6 DEF NetInv, FollowerInv, IsFollower, Grows
<1>7. ASSUME NEW p \in Peers, NEW num \in Blocks, OnHeight(p, num)
      PROVE  FollowerInv' /\ NetInv'
  <2>1. IsFollower([follower EXCEPT !.heads = With(@, p, num)])
    BY FollowerHelpers, Zenon DEF FollowerInv
  <2> QED  BY <1>1, <1>3, <1>7, <2>1, TryPullInv DEF OnHeight, NetInv
<1>8. ASSUME NEW m \in net, OnBlocks(m)
      PROVE  FollowerInv' /\ NetInv'
  <2>1. IsFollower([follower EXCEPT !.pulling = NoPull]) /\ IsFollower(follower)
    BY FollowerHelpers DEF FollowerInv, IsFollower
  <2>2. IsFollower(follower')
    BY <1>8, <2>1 DEF OnBlocks
  <2> QED  BY <1>1, <1>2, <1>8, <2>2 DEF OnBlocks, NetInv, FollowerInv, IsFollower, Grows
<1>9. ASSUME NEW m \in net, OnRefused(m)
      PROVE  FollowerInv' /\ NetInv'
  <2> DEFINE idle == [follower EXCEPT !.pulling = NoPull]
             known == [idle EXCEPT !.heads = IF m.from \in DOMAIN @
                                             THEN With(@, m.from, follower.pulling.frm - 1)
                                             ELSE @]
             told == [idle EXCEPT !.compacted = With(@, m.from, m.num)]
  <2>1. m.from \in Peers
    BY <1>9, Zenon DEF OnRefused, NetInv, MessageInv
  <2>2. IsFollower(follower) /\ IsFollower(idle)
    BY <2>1, FollowerHelpers, Zenon DEF FollowerInv
  <2> HIDE DEF idle
  <2>3. IsFollower(known)
    <3>1. IsFollower([idle EXCEPT !.heads = With(@, m.from, follower.pulling.frm - 1)])
      BY <2>1, <2>2, FollowerHelpers, Zenon
    <3>2. IsFollower([idle EXCEPT !.heads = @])
      BY <2>2 DEF IsFollower
    <3> QED  BY <3>1, <3>2
  <2>4. IsFollower(Failed(told, m.from))
    BY <2>1, <2>2, FollowerHelpers, FollowerMarks, Zenon
  <2> HIDE DEF known, told
  <2>5. CASE follower' = follower /\ net' = net \ {m}
    BY <1>1, <1>2, <2>5 DEF NetInv, FollowerInv, IsFollower, Grows
  <2>6. CASE TryPull(known, HeadBlockNum(mine), net \ {m})
    BY <1>1, <1>3, <2>3, <2>6, TryPullInv DEF NetInv
  <2>7. CASE follower' = Failed(told, m.from) /\ net' = net \ {m}
    BY <1>1, <1>2, <2>4, <2>7 DEF NetInv, FollowerInv, IsFollower, Grows
  <2> QED  BY <1>9, <2>5, <2>6, <2>7, Zenon DEF OnRefused, idle, known, told
<1>10. CASE CheckOffer
  <2>1. IsFollower(Failed(follower, adopting.from))
    BY FollowerMarks DEF FollowerInv
  <2> QED  BY <1>1, <1>2, <1>4, <1>10, <2>1 DEF CheckOffer, NetInv, FollowerInv, IsFollower, Grows
<1>11. CASE Adopted
  BY <1>1, <1>3, <1>11, FollowerMarks, TryPullInv DEF Adopted, FollowerInv, NetInv
<1>12. CASE OnPullExpiry
  <2>1. IsFollower(Failed([follower EXCEPT !.pulling = NoPull], follower.pulling.from))
    <3>1. IsFollower([follower EXCEPT !.pulling = NoPull])
      BY DEF FollowerInv, IsFollower
    <3> QED  BY <3>1, FollowerMarks
  <2> QED  BY <1>1, <1>3, <1>12, <2>1, TryPullInv DEF OnPullExpiry, NetInv
<1>13. ASSUME NEW p \in Peers, OnPeerRemoved(p)
       PROVE  FollowerInv' /\ NetInv'
  <2>1. DOMAIN Without(follower.heads, p) \subseteq Peers
    BY DEF Without, FollowerInv, IsFollower
  <2>2. IsFollower(follower')
    BY <1>13, <2>1, Zenon DEF OnPeerRemoved, FollowerInv, IsFollower
  <2> QED  BY <1>1, <1>2, <1>13, <2>2 DEF OnPeerRemoved, NetInv, FollowerInv, IsFollower, Grows
<1>14. ASSUME NEW m \in net, Lose(m)
       PROVE  FollowerInv' /\ NetInv'
  BY <1>1, <1>2, <1>14 DEF Lose, NetInv, FollowerInv, IsFollower, Grows
<1>15. CASE Restart
  BY <1>1, <1>2, <1>15 DEF Restart, NewFollower, NetInv, FollowerInv, IsFollower, Grows
<1>16. CASE VerifyQuorum
  <2>1. IsFollower([follower EXCEPT !.compacted = <<>>])
    BY DEF FollowerInv, IsFollower
  <2> QED  BY <1>1, <1>2, <1>4, <1>16, <2>1 DEF VerifyQuorum, NetInv, FollowerInv, IsFollower, Grows
<1>17. ASSUME \/ CommitOffer \/ StartDownload \/ AskChunks \/ NoReply \/ Import \/ EndDownload
              \/ UNCHANGED vars
              \/ \E p \in Peers : \/ AskMeta(p) \/ PeerCommits(p) \/ BeginCheckpoint(p)
                                  \/ PersistCheckpoint(p) \/ InstallServer(p)
                                  \/ \E pivot \in DOMAIN StoreOf(p).blocks : PeerCollects(p, pivot)
       PROVE  UNCHANGED <<follower, net>>
  BY <1>17, Zenon DEF CommitOffer, StartDownload, AskChunks, NoReply, Import, EndDownload, vars, AskMeta,
     PeerCommits, BeginCheckpoint, PersistCheckpoint, InstallServer, PeerCollects
<1> QED
  BY <1>4, <1>5, <1>6, <1>7, <1>8, <1>9, <1>10, <1>11, <1>12, <1>13, <1>14, <1>15, <1>16, <1>17
  DEF Next, PeerNext, LoopNext, DownloadNext

-----------------------------------------------------------------------------
(* The replica's store, the adoption and the download. *)

\* The first offer, and what is left when it is taken.
LEMMA FirstOffer ==
    ASSUME NEW offers, NEW n, OffersUpTo(offers, n), offers # <<>>
    PROVE  offers[1] \in Offer /\ offers[1].num \in Blocks /\ offers[1].num <= n
           /\ OffersUpTo(Tail(offers), n)
<1>1. offers \in Seq(Offer) /\ Len(offers) \in Nat /\ Len(offers) >= 1
  BY EmptySeq DEF OffersUpTo
<1>2. offers[1] \in Offer /\ offers[1].num <= n
  BY <1>1 DEF OffersUpTo
<1>3. Tail(offers) \in Seq(Offer) /\ Len(Tail(offers)) = Len(offers) - 1
      /\ \A i \in 1..Len(Tail(offers)) : Tail(offers)[i] = offers[i + 1]
  BY <1>1, HeadTailProperties DEF OffersUpTo
<1>4. \A i \in 1..Len(Tail(offers)) : i + 1 \in 1..Len(offers)
  BY <1>1, <1>3
<1> QED  BY <1>2, <1>3, <1>4 DEF OffersUpTo, Offer

\* A commit of the checked offer.
LEMMA CommitOfferKeeps ==
    ASSUME FollowInv, CommitOffer
    PROVE  /\ IsStore(mine') /\ HeadBlockNum(mine') <= Settled
           /\ ~overlapped => /\ Coherent(mine')
                             /\ HeadBlockNum(mine') = HeadBlockNum(mine) + 1
                             /\ mine'.live = StateAt(HeadBlockNum(mine) + 1)
<1> DEFINE b == adopting.offers[1].num
<1>1. b \in Blocks /\ b <= Settled
  BY FirstOffer DEF FollowInv, AdoptingInv, CommitOffer
<1>2. mine' = CommitBlock(mine, b)
  BY DEF CommitOffer
<1>3. IsStore(mine) /\ HeadBlockNum(mine) <= Settled /\ HeadBlockNum(mine) \in Nat
  BY HeadIsNatural DEF FollowInv, MineInv
<1>4. ~overlapped => Coherent(mine) /\ LinksTo(mine, b) /\ PreviewMatches(mine, b)
  BY DEF FollowInv, MineInv, ReplicaCoherent, AdoptingInv, CommitOffer, Acceptable
<1> HIDE DEF b
<1>5. IsStore(mine') /\ DOMAIN mine'.blocks = DOMAIN mine.blocks \cup {b}
  BY <1>1, <1>2, <1>3, CommitKeepsStore
<1>6. HeadBlockNum(mine') \in {0} \cup DOMAIN mine'.blocks
  BY <1>5, HeadOfStore
<1>7. 0 <= Settled /\ \A c \in DOMAIN mine.blocks : c <= HeadBlockNum(mine)
  BY <1>3, HeadOfStore, SettledIsGreatest, BlocksAreNumbers DEF FollowInv
<1>8. Settled \in Nat /\ DOMAIN mine.blocks \subseteq Nat
  BY <1>3, SettledIsGreatest, BlocksAreNumbers DEF FollowInv, IsStore
<1>9. HeadBlockNum(mine') <= Settled
  BY <1>1, <1>3, <1>5, <1>6, <1>7, <1>8
<1>10. ASSUME ~overlapped
       PROVE  Coherent(mine') /\ HeadBlockNum(mine') = HeadBlockNum(mine) + 1
              /\ mine'.live = StateAt(HeadBlockNum(mine) + 1)
  <2>1. b = HeadBlockNum(mine) + 1
    BY <1>1, <1>3, <1>4, <1>10, BlocksAreNumbers DEF LinksTo
  <2>2. HeadBlockNum(mine') = b
    BY <1>1, <1>2, <1>3, <2>1, CommitHead
  <2>3. Coherent(mine') /\ mine'.live = StateAt(b)
    BY <1>1, <1>2, <1>3, <1>4, <1>10, CommitKeepsCoherence
  <2> QED  BY <2>1, <2>2, <2>3
<1> QED  BY <1>5, <1>9, <1>10

\* An import of a checkpoint.
LEMMA ImportKeeps ==
    ASSUME FollowInv, Import, ~UNCHANGED <<mine, overlapped>>
    PROVE  /\ download.meta \in Blocks /\ download.meta <= Settled
           /\ IsStore(mine') /\ HeadBlockNum(mine') = download.meta
           /\ Coherent(mine') /\ mine'.live = StateAt(download.meta)
           /\ overlapped' = (overlapped \/ adopting.checked)
<1>1. /\ mine' = Imported(download.meta, download.chunks)
      /\ download.chunks = StateAt(download.meta)
      /\ overlapped' = (overlapped \/ adopting.checked)
  BY DEF Import
<1>2. download.meta \in 1..Settled
  BY DEF Import, FollowInv, DownloadInv
<1>3. Settled \in 0..Len(Chain)
  BY SettledIsGreatest DEF FollowInv
<1>4. download.meta \in Blocks /\ download.meta <= Settled
  BY <1>2, <1>3, BlocksAreNumbers
<1>5. mine'.live = StateAt(download.meta)
  BY <1>1 DEF Imported
<1> QED  BY <1>1, <1>4, <1>5, ImportedStore

\* Only a commit and an import change the store, and only an import within an
\* adoption forfeits the promise.
LEMMA MineChanges ==
    ASSUME [Next]_vars
    PROVE  UNCHANGED <<mine, overlapped>> \/ (CommitOffer /\ UNCHANGED overlapped) \/ Import
<1>1. PeerNext => UNCHANGED <<mine, overlapped>>
  BY Zenon DEF PeerNext, PeerCommits, BeginCheckpoint, PersistCheckpoint, InstallServer,
     PeerCollects, ServeBlocks, ServeTorn
<1>2. LoopNext => UNCHANGED <<mine, overlapped>> \/ (CommitOffer /\ UNCHANGED overlapped)
  BY Zenon DEF LoopNext, OnHeight, OnBlocks, OnRefused, CheckOffer, CommitOffer, Adopted,
     OnPullExpiry, StartDownload, OnPeerRemoved
<1>3. DownloadNext => UNCHANGED <<mine, overlapped>> \/ Import
  BY Zenon DEF DownloadNext, AskMeta, AskChunks, NoReply, VerifyQuorum, EndDownload
<1>4. Restart \/ (\E m \in net : Lose(m)) \/ UNCHANGED vars => UNCHANGED <<mine, overlapped>>
  BY Zenon DEF Restart, Lose, vars
<1> QED
  BY <1>1, <1>2, <1>3, <1>4, Zenon DEF Next

\* No step breaks what holds of the store.
LEMMA MineKept ==
    ASSUME FollowInv, [Next]_vars
    PROVE  MineInv'
<1>1. Grows
  BY PeersGrow DEF FollowInv
<1>2. IsStore(mine) /\ HeadBlockNum(mine) \in Nat /\ HeadBlockNum(mine) <= Settled
      /\ Settled \in Nat /\ Settled' \in Nat /\ Settled <= Settled' /\ overlapped \in BOOLEAN
  BY <1>1, HeadIsNatural DEF FollowInv, MineInv, Grows
<1>3. CASE UNCHANGED <<mine, overlapped>>
  BY <1>2, <1>3 DEF FollowInv, MineInv, ReplicaCoherent
<1>4. CASE CommitOffer /\ UNCHANGED overlapped
  <2>1. /\ IsStore(mine') /\ HeadBlockNum(mine') <= Settled
        /\ ~overlapped => Coherent(mine')
    BY <1>4, CommitOfferKeeps
  <2>2. HeadBlockNum(mine') \in Nat
    BY <2>1, HeadIsNatural
  <2> QED  BY <1>2, <1>4, <2>1, <2>2 DEF MineInv, ReplicaCoherent
<1>5. CASE Import /\ ~UNCHANGED <<mine, overlapped>>
  <2>1. /\ download.meta \in Blocks /\ download.meta <= Settled
        /\ IsStore(mine') /\ HeadBlockNum(mine') = download.meta /\ Coherent(mine')
        /\ overlapped' = (overlapped \/ adopting.checked)
    BY <1>5, ImportKeeps
  <2>2. download.meta \in Nat /\ adopting.checked \in BOOLEAN
    BY <2>1, BlocksAreNumbers DEF FollowInv, AdoptingInv
  <2> QED  BY <1>2, <2>1, <2>2 DEF MineInv, ReplicaCoherent
<1> QED  BY <1>3, <1>4, <1>5, MineChanges

\* No step breaks what holds of the adoption.
LEMMA AdoptingKept ==
    ASSUME FollowInv, [Next]_vars
    PROVE  AdoptingInv'
<1>1. Grows
  BY PeersGrow DEF FollowInv
<1>2. \A offers : OffersUpTo(offers, Settled) => OffersUpTo(offers, Settled')
  BY <1>1, OffersStay DEF Grows
<1>3. AdoptingInv /\ overlapped \in BOOLEAN
  BY DEF FollowInv, MineInv
<1>4. ASSUME adopting' = NotAdopting
      PROVE  AdoptingInv'
  <2>1. OffersUpTo(<<>>, Settled')
    BY EmptySeq DEF OffersUpTo
  <2> QED  BY <1>4, <2>1 DEF AdoptingInv, NotAdopting
<1>5. ASSUME UNCHANGED <<adopting, mine, overlapped>>
      PROVE  AdoptingInv'
  BY <1>2, <1>3, <1>5 DEF AdoptingInv
<1>6. ASSUME NEW m \in net, OnBlocks(m)
      PROVE  AdoptingInv'
  <2>1. OffersUpTo(m.offers, Settled)
    BY <1>6 DEF OnBlocks, FollowInv, NetInv, MessageInv
  <2>2. CASE UNCHANGED adopting
    BY <1>5, <1>6, <2>2 DEF OnBlocks
  <2>3. CASE adopting' = [from |-> m.from, frm |-> follower.pulling.frm, offers |-> m.offers,
                          checked |-> FALSE]
    BY <1>2, <2>1, <2>3 DEF AdoptingInv
  <2> QED  BY <1>6, <2>2, <2>3 DEF OnBlocks
<1>7. CASE CheckOffer
  BY <1>2, <1>3, <1>4, <1>7, Zenon DEF CheckOffer, AdoptingInv
<1>8. CASE CommitOffer
  <2>1. OffersUpTo(Tail(adopting.offers), Settled)
    BY <1>3, <1>8, FirstOffer DEF CommitOffer, AdoptingInv
  <2>2. OffersUpTo(Tail(adopting.offers), Settled')
    BY <1>2, <2>1
  <2> QED  BY <1>3, <1>8, <2>2, Zenon DEF CommitOffer, AdoptingInv
<1>9. CASE Import
  <2>1. UNCHANGED <<mine, overlapped>> \/ overlapped' = (overlapped \/ adopting.checked)
    BY <1>9 DEF Import
  <2>2. UNCHANGED adopting
    BY <1>9 DEF Import
  <2> QED  BY <1>2, <1>3, <1>5, <2>1, <2>2 DEF AdoptingInv
<1>10. ASSUME Adopted \/ Restart
       PROVE  adopting' = NotAdopting
  BY <1>10 DEF Adopted, Restart
<1>11. ASSUME \/ StartDownload \/ AskChunks \/ NoReply \/ EndDownload \/ VerifyQuorum
              \/ OnPullExpiry \/ UNCHANGED vars \/ PeerNext
              \/ \E p \in Peers : AskMeta(p) \/ OnPeerRemoved(p)
              \/ \E p \in Peers, num \in Blocks : OnHeight(p, num)
              \/ \E m \in net : OnRefused(m) \/ Lose(m)
       PROVE  UNCHANGED <<adopting, mine, overlapped>>
  BY <1>11, ZenonT(40) DEF StartDownload, AskChunks, NoReply, EndDownload, VerifyQuorum, OnPullExpiry, vars,
     PeerNext, PeerCommits, BeginCheckpoint, PersistCheckpoint, InstallServer, PeerCollects,
     ServeBlocks, ServeTorn, AskMeta, OnPeerRemoved, OnHeight, OnRefused, Lose
<1> QED
  BY <1>4, <1>5, <1>6, <1>7, <1>8, <1>9, <1>10, <1>11 DEF Next, LoopNext, DownloadNext

\* No step breaks what holds of the download.
LEMMA DownloadKept ==
    ASSUME FollowInv, [Next]_vars
    PROVE  DownloadInv'
<1>1. Grows /\ DownloadInv /\ PeersInv
  BY PeersGrow DEF FollowInv
<1>2. \A n \in 1..Settled : n \in 1..Settled'
  BY <1>1 DEF Grows
<1>3. ASSUME UNCHANGED download
      PROVE  DownloadInv'
  BY <1>1, <1>2, <1>3 DEF DownloadInv
<1>4. ASSUME download' = NoDownload
      PROVE  DownloadInv'
  BY <1>4 DEF DownloadInv, NoDownload
<1>5. CASE StartDownload
  BY <1>5, Zenon DEF StartDownload, DownloadInv, NoDownload
<1>6. ASSUME NEW p \in Peers, AskMeta(p)
      PROVE  DownloadInv'
  <2>1. HeadBlockNum(StoreOf(p)) \in Nat /\ Settled \in Nat /\ HeadBlockNum(StoreOf(p)) <= Settled
    BY <1>1, PeerHead
  <2>2. peer[p].check.served # 0 => peer[p].check.meta \in 1..Settled
    <3>1. /\ peer[p].check.meta \in 0..HeadBlockNum(StoreOf(p))
          /\ peer[p].check.served # 0 => peer[p].check.meta # 0
      BY <1>1, Zenon DEF PeersInv, PeerInv, StoreOf
    <3> QED  BY <2>1, <3>1
  <2> QED  BY <1>1, <1>2, <1>6, <2>2, Zenon DEF AskMeta, DownloadInv
<1>7. CASE AskChunks
  <2> DEFINE i == Len(download.chunks) + 1
             more == Append(download.chunks,
                       CHOOSE c \in ServedChunk(peer[download.from].check, download.meta, i) : TRUE)
  <2>1. \/ download' = [download EXCEPT !.pc = "ask"]
        \/ download' = [download EXCEPT !.chunks = more, !.pc = "write"]
        \/ download' = [download EXCEPT !.chunks = more, !.pc = @]
    BY <1>7, Zenon DEF AskChunks
  <2> HIDE DEF more
  <2> QED  BY <1>1, <1>2, <1>7, <2>1, Zenon DEF AskChunks, DownloadInv
<1>8. CASE NoReply
  BY <1>1, <1>2, <1>8 DEF NoReply, DownloadInv
<1>9. CASE Import
  BY <1>1, <1>2, <1>4, <1>9 DEF Import, DownloadInv
<1>10. CASE VerifyQuorum
  BY <1>1, <1>2, <1>4, <1>10 DEF VerifyQuorum, DownloadInv
<1>11. ASSUME EndDownload \/ Restart
       PROVE  download' = NoDownload
  BY <1>11 DEF EndDownload, Restart
<1>12. ASSUME \/ CheckOffer \/ CommitOffer \/ Adopted \/ OnPullExpiry \/ UNCHANGED vars \/ PeerNext
              \/ \E p \in Peers : OnPeerRemoved(p)
              \/ \E p \in Peers, num \in Blocks : OnHeight(p, num)
              \/ \E m \in net : OnBlocks(m) \/ OnRefused(m) \/ Lose(m)
       PROVE  UNCHANGED download
  BY <1>12, ZenonT(40) DEF CheckOffer, CommitOffer, Adopted, OnPullExpiry, vars, PeerNext, PeerCommits,
     BeginCheckpoint, PersistCheckpoint, InstallServer, PeerCollects, ServeBlocks, ServeTorn,
     OnPeerRemoved, OnHeight, OnBlocks, OnRefused, Lose
<1> QED
  BY <1>3, <1>4, <1>5, <1>6, <1>7, <1>8, <1>9, <1>10, <1>11, <1>12 DEF Next, LoopNext, DownloadNext

-----------------------------------------------------------------------------
(* The budget of faults. *)

\* What UnderWay asks of some message.
Concerns(m, p) == (m.is = "get" /\ m.to = p) \/ (m.is \in {"blocks", "refused"} /\ m.from = p)

\* Replacing a message by another, and dropping one.
LEMMA NetSizes ==
    ASSUME IsFiniteSet(net), NEW m \in net, NEW x
    PROVE  /\ IsFiniteSet(net \ {m}) /\ Cardinality(net \ {m}) = Cardinality(net) - 1
           /\ IsFiniteSet((net \ {m}) \cup {x})
           /\ Cardinality((net \ {m}) \cup {x}) <= Cardinality(net)
           /\ Cardinality(net) \in Nat
<1>1. IsFiniteSet(net \ {m}) /\ Cardinality(net \ {m}) = Cardinality(net) - 1
      /\ Cardinality(net) \in Nat
  BY FS_RemoveElement, FS_CardinalityType
<1>2. IsFiniteSet((net \ {m}) \cup {x})
      /\ Cardinality((net \ {m}) \cup {x}) <= Cardinality(net \ {m}) + 1
  <2>1. Cardinality((net \ {m}) \cup {x}) =
          IF x \in net \ {m} THEN Cardinality(net \ {m}) ELSE Cardinality(net \ {m}) + 1
    BY <1>1, FS_AddElement, Zenon
  <2>2. IsFiniteSet((net \ {m}) \cup {x}) /\ Cardinality(net \ {m}) \in Nat
    BY <1>1, FS_AddElement, FS_CardinalityType, Zenon
  <2> QED  BY <2>1, <2>2
<1> QED  BY <1>1, <1>2

\* The messages a handler leaves are within what was spent: then they are after
\* _try_pull, which sends a request only for a pull that waits for it.
LEMMA TryPullBudget ==
    ASSUME NEW fo, NEW num, NEW msgs, TryPull(fo, num, msgs), NEW spent \in Int,
           IsFiniteSet(msgs),
           Cardinality(msgs) <= spent
             + (IF \E m \in msgs : Concerns(m, fo.pulling.from) THEN 1 ELSE 0),
           fo.pulling = NoPull => Cardinality(msgs) <= spent,
           fo = [heads |-> fo.heads, pulling |-> fo.pulling, ok |-> fo.ok, fail |-> fo.fail,
                 compacted |-> fo.compacted]
    PROVE  /\ IsFiniteSet(net')
           /\ Cardinality(net') <= spent
                + (IF \E m \in net' : Concerns(m, follower'.pulling.from) THEN 1 ELSE 0)
<1>1. CASE follower' = fo /\ net' = msgs
  BY <1>1
<1>2. ASSUME NEW p \in DOMAIN fo.heads, fo.pulling = NoPull,
             follower' = [fo EXCEPT !.pulling = [from |-> p, frm |-> num + 1]],
             net' = msgs \cup {GetBlocks(p, num + 1)}
      PROVE  /\ IsFiniteSet(net')
             /\ Cardinality(net') <= spent
                  + (IF \E m \in net' : Concerns(m, follower'.pulling.from) THEN 1 ELSE 0)
  <2>1. follower'.pulling.from = p
    BY <1>2
  <2>2. \E m \in net' : Concerns(m, p)
    <3>1. Concerns(GetBlocks(p, num + 1), p)
      BY DEF Concerns, GetBlocks
    <3> QED  BY <1>2, <3>1
  <2>3. IsFiniteSet(net') /\ Cardinality(net') <= Cardinality(msgs) + 1
    <3>1. Cardinality(net') = IF GetBlocks(p, num + 1) \in msgs THEN Cardinality(msgs)
                              ELSE Cardinality(msgs) + 1
      BY <1>2, FS_AddElement, Zenon
    <3>2. IsFiniteSet(net') /\ Cardinality(msgs) \in Nat
      BY <1>2, FS_AddElement, FS_CardinalityType
    <3> QED  BY <3>1, <3>2
  <2>4. Cardinality(msgs) \in Nat /\ Cardinality(net') \in Nat
    BY <2>3, FS_CardinalityType
  <2> QED  BY <1>2, <2>1, <2>2, <2>3, <2>4
<1> QED  BY <1>1, <1>2, TryPullEffect

\* BudgetInv for the cast c of the behaviour.
Within(c) ==
    /\ faults \in 0..c.faults /\ IsFiniteSet(net)
    /\ Cardinality(net) <= c.faults - faults
         + (IF \E m \in net : Concerns(m, follower.pulling.from) THEN 1 ELSE 0)

\* A step that leaves no more messages than were spent is within the budget.
LEMMA FewMessages ==
    ASSUME NEW c \in Casts, faults' \in 0..c.faults, IsFiniteSet(net'),
           Cardinality(net') <= c.faults - faults'
    PROVE  Within(c)'
<1>1. Cardinality(net') \in Nat /\ c.faults \in Nat /\ faults' \in Int
  BY FS_CardinalityType, FollowerAssumption
<1> QED  BY <1>1 DEF Within

\* No step exceeds the budget.
LEMMA BudgetKept ==
    ASSUME FollowInv, [Next]_vars, NEW c \in Casts, Within(c)
    PROVE  Within(c)'
<1> DEFINE spent == c.faults - faults
           from == follower.pulling.from
<1>1. c.faults \in Nat /\ faults \in Nat /\ faults <= c.faults /\ IsFiniteSet(net)
      /\ spent \in Int /\ Cardinality(net) \in Nat /\ Cardinality(net) <= spent + 1
  BY FS_CardinalityType, FollowerAssumption DEF Within
<1>2. follower.pulling = NoPull => Cardinality(net) <= spent
  <2>1. \A m \in net : ~Concerns(m, "none")
    BY DEF FollowInv, NamesInv, NetInv, MessageInv, Concerns, GetBlocks, SettledBlocks, Refused
  <2> QED  BY <1>1, <2>1 DEF Within, NoPull
<1>3. ASSUME UNCHANGED net, follower'.pulling = follower.pulling, UNCHANGED faults
      PROVE  Within(c)'
  BY <1>3 DEF Within
<1>4. ASSUME Fault, net' \subseteq net
      PROVE  Within(c)'
  <2>1. faults' \in 0..c.faults /\ c.faults - faults' = spent + 1
    BY <1>1, <1>4 DEF Fault
  <2>2. IsFiniteSet(net') /\ Cardinality(net') \in Nat /\ Cardinality(net') <= Cardinality(net)
    BY <1>1, <1>4, FS_Subset, FS_CardinalityType
  <2> QED  BY <1>1, <2>1, <2>2, FewMessages
<1>5. ASSUME NEW m \in net, net' = net \ {m}, UNCHANGED faults
      PROVE  Within(c)'
  <2>1. IsFiniteSet(net \ {m}) /\ Cardinality(net \ {m}) = Cardinality(net) - 1
    BY <1>1, NetSizes, Zenon
  <2>2. faults' \in 0..c.faults /\ Cardinality(net') <= c.faults - faults'
    BY <1>1, <1>5, <2>1
  <2> QED  BY <1>5, <2>1, <2>2, FewMessages
<1>6. ASSUME NEW p \in Peers, NEW m \in net, m.is = "get", m.to = p, NEW x, Concerns(x, p),
             net' = (net \ {m}) \cup {x}, UNCHANGED <<follower, faults>>
      PROVE  Within(c)'
  <2>1. IsFiniteSet(net') /\ Cardinality(net') <= Cardinality(net)
    BY <1>1, <1>6, NetSizes, Zenon
  <2>2. (\E y \in net : Concerns(y, from)) => (\E y \in net' : Concerns(y, from))
    BY <1>6 DEF Concerns
  <2>3. Cardinality(net') \in Nat
    BY <2>1, FS_CardinalityType
  <2> QED  BY <1>1, <1>6, <2>1, <2>2, <2>3 DEF Within
<1>7. ASSUME NEW fo, NEW msgs, TryPull(fo, HeadBlockNum(mine), msgs), IsFollower(fo),
             IsFiniteSet(msgs), faults' \in 0..c.faults,
             Cardinality(msgs) <= c.faults - faults'
      PROVE  Within(c)'
  <2>1. Cardinality(msgs) \in Nat /\ c.faults - faults' \in Int
    BY <1>1, <1>7, FS_CardinalityType
  <2>2. Cardinality(msgs) <= (c.faults - faults')
          + (IF \E m \in msgs : Concerns(m, fo.pulling.from) THEN 1 ELSE 0)
    BY <1>7, <2>1
  <2>3. /\ IsFiniteSet(net')
        /\ Cardinality(net') <= (c.faults - faults')
             + (IF \E m \in net' : Concerns(m, follower'.pulling.from) THEN 1 ELSE 0)
    BY <1>7, <2>1, <2>2, TryPullBudget DEF IsFollower
  <2> QED  BY <1>7, <2>3 DEF Within
<1>8. ASSUME NEW fo, TryPull(fo, HeadBlockNum(mine), net), IsFollower(fo), UNCHANGED faults,
             fo.pulling = follower.pulling
      PROVE  Within(c)'
  <2>1. /\ IsFiniteSet(net')
        /\ Cardinality(net') <= spent
             + (IF \E m \in net' : Concerns(m, follower'.pulling.from) THEN 1 ELSE 0)
    <3> HIDE DEF spent
    <3>1. Cardinality(net) <= spent
            + (IF \E m \in net : Concerns(m, fo.pulling.from) THEN 1 ELSE 0)
      BY <1>8 DEF Within, spent
    <3> QED  BY <1>1, <1>2, <1>8, <3>1, TryPullBudget DEF IsFollower
  <2> QED  BY <1>1, <1>8, <2>1 DEF Within
<1>9. IsFollower(follower) /\ IsFollower([follower EXCEPT !.pulling = NoPull])
  BY DEF FollowInv, FollowerInv, IsFollower
<1>10. ASSUME NEW p \in Peers, NEW m \in net,
              ServeBlocks(p, m) \/ \E pivot \in DOMAIN StoreOf(p).blocks : ServeTorn(p, m, pivot)
       PROVE  Within(c)'
  <2>1. CASE ServeBlocks(p, m)
    <3>1. Concerns(Served(p, StoreOf(p), m.frm), p)
      BY DEF Concerns, Served, SettledBlocks, Refused
    <3> QED  BY <1>6, <2>1, <3>1 DEF ServeBlocks
  <2>2. ASSUME NEW pivot \in DOMAIN StoreOf(p).blocks, ServeTorn(p, m, pivot)
        PROVE  Within(c)'
    <3>1. \A offers : Concerns(SettledBlocks(p, offers), p)
      BY DEF Concerns, SettledBlocks
    <3> QED  BY <1>6, <2>2, <3>1 DEF ServeTorn
  <2> QED  BY <1>10, <2>1, <2>2
<1>11. ASSUME NEW p \in Peers, NEW num \in Blocks, OnHeight(p, num)
       PROVE  Within(c)'
  <2> DEFINE fo == [follower EXCEPT !.heads = With(@, p, num)]
  <2>1. IsFollower(fo) /\ fo.pulling = follower.pulling
    <3>1. IsFollower(fo)
      BY <1>9, FollowerHelpers, Zenon
    <3>2. fo.pulling = follower.pulling
      BY <1>9 DEF IsFollower
    <3> QED  BY <3>1, <3>2
  <2>2. TryPull(fo, HeadBlockNum(mine), net) /\ UNCHANGED faults
    BY <1>11 DEF OnHeight
  <2> HIDE DEF fo
  <2> QED  BY <1>8, <2>1, <2>2
<1>12. ASSUME NEW m \in net, OnBlocks(m)
       PROVE  Within(c)'
  BY <1>5, <1>12 DEF OnBlocks
<1>13. ASSUME NEW m \in net, OnRefused(m)
       PROVE  Within(c)'
  <2> DEFINE idle == [follower EXCEPT !.pulling = NoPull]
             known == [idle EXCEPT !.heads = IF m.from \in DOMAIN @
                                             THEN With(@, m.from, follower.pulling.frm - 1)
                                             ELSE @]
  <2>1. \/ net' = net \ {m}
        \/ TryPull(known, HeadBlockNum(mine), net \ {m})
    BY <1>13, Zenon DEF OnRefused
  <2>2. UNCHANGED faults
    BY <1>13, Zenon DEF OnRefused
  <2>3. IsFollower(known)
    <3>1. m.from \in Peers
      BY <1>13, Zenon DEF OnRefused, FollowInv, NetInv, MessageInv
    <3> HIDE DEF idle
    <3>2. IsFollower(idle)
      BY <1>9 DEF idle
    <3>3. IsFollower([idle EXCEPT !.heads = With(@, m.from, follower.pulling.frm - 1)])
      BY <3>1, <3>2, FollowerHelpers, Zenon
    <3>4. IsFollower([idle EXCEPT !.heads = @])
      BY <3>2 DEF IsFollower
    <3> QED  BY <3>3, <3>4
  <2> HIDE DEF known
  <2>4. IsFiniteSet(net \ {m}) /\ Cardinality(net \ {m}) = Cardinality(net) - 1
    BY <1>1, NetSizes, Zenon
  <2>5. faults' \in 0..c.faults /\ Cardinality(net \ {m}) <= c.faults - faults'
    BY <1>1, <2>2, <2>4
  <2> QED  BY <1>5, <1>7, <2>1, <2>2, <2>3, <2>4, <2>5
<1>14. CASE Adopted
  <2>1. IsFollower(Succeeded(follower, adopting.from))
        /\ Succeeded(follower, adopting.from).pulling = follower.pulling
    BY <1>9, FollowerMarks
  <2> QED  BY <1>8, <1>14, <2>1 DEF Adopted
<1>15. CASE OnPullExpiry
  <2> DEFINE fo == Failed([follower EXCEPT !.pulling = NoPull], follower.pulling.from)
  <2>1. IsFollower(fo)
    BY <1>9, FollowerMarks
  <2>2. TryPull(fo, HeadBlockNum(mine), net)
    BY <1>15 DEF OnPullExpiry
  <2>3. faults' \in 0..c.faults /\ Cardinality(net) <= c.faults - faults'
    <3>1. CASE UnderWay(from)
      BY <1>1, <1>15, <3>1 DEF OnPullExpiry, Fault
    <3>2. CASE ~UnderWay(from)
      <4>1. ~\E m \in net : Concerns(m, from)
        BY <3>2 DEF UnderWay, Concerns
      <4>2. UNCHANGED faults
        BY <1>15, <3>2 DEF OnPullExpiry
      <4> QED  BY <1>1, <4>1, <4>2 DEF Within
    <3> QED  BY <3>1, <3>2
  <2> HIDE DEF fo
  <2> QED  BY <1>1, <1>7, <2>1, <2>2, <2>3
<1>16. ASSUME \/ \E p \in Peers : OnPeerRemoved(p)
              \/ \E m \in net : Lose(m)
              \/ NoReply \/ Restart
       PROVE  Within(c)'
  BY <1>4, <1>16, Zenon DEF OnPeerRemoved, Lose, NoReply, Restart
<1>17. CASE CheckOffer
  <2>1. Failed(follower, adopting.from).pulling = follower.pulling
    BY <1>9, FollowerMarks
  <2> QED  BY <1>3, <1>17, <2>1 DEF CheckOffer
<1>18. CASE VerifyQuorum
  <2>1. [follower EXCEPT !.compacted = <<>>].pulling = follower.pulling
    BY <1>9 DEF IsFollower
  <2> QED  BY <1>3, <1>18, <2>1, Zenon DEF VerifyQuorum
<1>19. ASSUME \/ CommitOffer \/ StartDownload \/ AskChunks \/ Import \/ EndDownload
              \/ UNCHANGED vars
              \/ \E p \in Peers : \/ AskMeta(p) \/ PeerCommits(p) \/ BeginCheckpoint(p)
                                  \/ PersistCheckpoint(p) \/ InstallServer(p)
                                  \/ \E pivot \in DOMAIN StoreOf(p).blocks : PeerCollects(p, pivot)
       PROVE  UNCHANGED <<net, follower, faults>>
  BY <1>19, Zenon DEF CommitOffer, StartDownload, AskChunks, Import, EndDownload, vars, AskMeta,
     PeerCommits, BeginCheckpoint, PersistCheckpoint, InstallServer, PeerCollects
<1> QED
  BY <1>3, <1>10, <1>11, <1>12, <1>13, <1>14, <1>15, <1>16, <1>17, <1>18, <1>19
  DEF Next, PeerNext, LoopNext, DownloadNext

-----------------------------------------------------------------------------
(* The theorems. *)

\* A store that has just committed blocks 1..b.
LEMMA FreshStore ==
    ASSUME NEW b \in 0..Len(Chain)
    PROVE  IsStore(StoreAt(b)) /\ HeadBlockNum(StoreAt(b)) = b /\ StoreAt(b).live = StateAt(b)
<1> DEFINE st == StoreAt(b)
<1>1. st = [blocks |-> st.blocks, entries |-> st.entries, live |-> st.live, floor |-> st.floor]
      /\ DOMAIN st.blocks = 1..b /\ st.live = StateAt(b)
  BY DEF StoreAt
<1> HIDE DEF st
<1>2. IsStore(st)
  BY <1>1, BlocksAreNumbers DEF IsStore
<1>3. b \in {0} \cup DOMAIN st.blocks /\ \A c \in DOMAIN st.blocks : c <= b
  BY <1>1, BlocksAreNumbers
<1>4. HeadBlockNum(st) = b
  BY <1>2, <1>3, HeadIs
<1> QED  BY <1>1, <1>2, <1>4 DEF st

\* The replica starts with an empty store, which is coherent.
LEMMA EmptyStoreCoherent == Coherent(StoreAt(0))
<1>1. HeadBlockNum(StoreAt(0)) = 0 /\ StoreAt(0).live = StateAt(0)
  BY FreshStore, BlocksAreNumbers
<1>2. {c \in 1..0 : Chain[c] # 0} = {}
  OBVIOUS
<1>3. HeightAt(0) = 0
  BY <1>2, FS_EmptySet DEF HeightAt
<1>4. StoreAt(0).entries = {} /\ StoreAt(0).floor = 0 /\ DOMAIN StoreAt(0).blocks = {}
  BY <1>3 DEF StoreAt
<1> QED  BY <1>1, <1>3, <1>4 DEF Coherent, LogHead

\* The invariant holds at the start.
LEMMA InitFollow == Init => FollowInv
<1> SUFFICES ASSUME Init PROVE FollowInv
  OBVIOUS
<1>1. PICK c \in Casts :
         /\ peer = [p \in c.peers |-> [store |-> StoreAt(Start), collects |-> p \in c.collecting,
                                       check |-> NoCheckpoint]]
         /\ faults = c.faults
  BY DEF Init
<1>2. Peers = c.peers /\ NamesInv
  BY <1>1, FollowerAssumption DEF Peers, NamesInv
<1>3. IsStore(StoreAt(Start)) /\ HeadBlockNum(StoreAt(Start)) = Start /\ Start \in Nat
  BY FreshStore, FollowerAssumption, BlocksAreNumbers
<1>4. PeersInv
  <2>1. 0 \in 0..HeadBlockNum(StoreAt(Start))
    BY <1>3
  <2> QED  BY <1>1, <1>2, <1>3, <2>1 DEF PeersInv, PeerInv, NoCheckpoint
<1>5. Settled \in Nat
  BY <1>4, SettledIsGreatest, BlocksAreNumbers
<1>6. MineInv
  <2>1. IsStore(StoreAt(0)) /\ HeadBlockNum(StoreAt(0)) = 0
    BY FreshStore, BlocksAreNumbers
  <2>2. mine = StoreAt(0) /\ overlapped = FALSE
    BY DEF Init
  <2>3. Coherent(mine)
    BY <2>2, EmptyStoreCoherent
  <2>4. IsStore(mine) /\ HeadBlockNum(mine) <= Settled
    <3>1. IsStore(mine) /\ HeadBlockNum(mine) = 0
      BY <2>1, <2>2
    <3> QED  BY <1>5, <3>1
  <2> QED  BY <2>2, <2>3, <2>4, Zenon DEF MineInv, ReplicaCoherent
<1>7. AdoptingInv
  <2>1. OffersUpTo(<<>>, Settled)
    BY EmptySeq DEF OffersUpTo
  <2> QED  BY <2>1 DEF Init, AdoptingInv, NotAdopting
<1>8. DownloadInv /\ NetInv /\ FollowerInv
  BY DEF Init, DownloadInv, NoDownload, NetInv, FollowerInv, IsFollower, NewFollower
<1>9. BudgetInv
  <2>1. IsFiniteSet(net) /\ Cardinality(net) = 0 /\ net = {}
    BY FS_EmptySet DEF Init
  <2>2. ~UnderWay(follower.pulling.from)
    BY <2>1 DEF UnderWay
  <2>3. faults \in 0..c.faults /\ c.faults - faults = 0
    BY <1>1, FollowerAssumption
  <2> QED  BY <2>1, <2>2, <2>3 DEF BudgetInv
<1> QED  BY <1>2, <1>4, <1>6, <1>7, <1>8, <1>9 DEF FollowInv

\* Every step keeps the invariant.
LEMMA NextFollow == FollowInv /\ [Next]_vars => FollowInv'
<1> SUFFICES ASSUME FollowInv, [Next]_vars PROVE FollowInv'
  OBVIOUS
<1>1. PeersInv' /\ NamesInv'
  BY PeersGrow DEF FollowInv, Grows, NamesInv
<1>2. FollowerInv' /\ NetInv'
  BY FollowerAndNetKept
<1>3. MineInv' /\ AdoptingInv' /\ DownloadInv'
  BY MineKept, AdoptingKept, DownloadKept
<1>4. BudgetInv'
  <2>1. PICK c \in Casts : Within(c)
    BY DEF FollowInv, BudgetInv, Within, UnderWay, Concerns
  <2>2. Within(c)'
    BY <2>1, BudgetKept
  <2> QED  BY <2>2 DEF BudgetInv, Within, UnderWay, Concerns
<1> QED  BY <1>1, <1>2, <1>3, <1>4 DEF FollowInv

\* The inductive invariant of following: what peers, messages, the adoption and
\* the download may look like at any moment.
THEOREM FollowInvariant == Spec => []FollowInv
BY InitFollow, NextFollow, PTL DEF Spec

\* The variables keep their types; the requests and answers in flight are at most
\* one more than the faults that were spent (Follower._try_pull sends one request
\* at a time).
THEOREM FollowerTypes == Spec => []TypeOK
<1>1. FollowInv => TypeOK
  <2> SUFFICES ASSUME FollowInv PROVE TypeOK
    OBVIOUS
  <2>1. PICK c \in Casts : Within(c)
    BY DEF FollowInv, BudgetInv, Within, UnderWay, Concerns
  <2>2. faults \in 0..c.faults /\ Cardinality(net) <= 1 + c.faults
    <3>1. c.faults \in Nat /\ Cardinality(net) \in Nat
      BY <2>1, FS_CardinalityType, FollowerAssumption DEF Within
    <3> QED  BY <2>1, <3>1 DEF Within
  <2> QED  BY <2>2 DEF TypeOK, FollowInv, MineInv, FollowerInv, IsFollower, DownloadInv
<1> QED  BY <1>1, FollowInvariant, PTL

\* The replica's head block, log and live rows tell one story, for every chain,
\* every cast of peers and any number of faults, as long as no import falls inside
\* an adoption (Follower._adopt, Node._do_download).
THEOREM CoherentReplica == Spec => []ReplicaCoherent
<1>1. FollowInv => ReplicaCoherent
  BY DEF FollowInv, MineInv
<1> QED  BY <1>1, FollowInvariant, PTL

\* Every step of following is a step of the ledger, or leaves it alone.
LEMMA LedgerStep == FollowInv /\ [Next]_vars => [Copy!Next]_(Copy!vars)
<1> SUFFICES ASSUME FollowInv, [Next]_vars PROVE [Copy!Next]_(Copy!vars)
  OBVIOUS
<1> DEFINE State == [b \in 0..Len(Chain) |-> StateAt(b)]
<1>1. Settled \in Nat /\ Settled' \in Settled..(Settled + 1)
  BY PeersGrow DEF FollowInv, Grows
<1>2. overlapped \in BOOLEAN /\ Settled \in 0..Len(Chain)
  BY SettledIsGreatest DEF FollowInv, MineInv
<1>3. CASE overlapped
  <2>1. overlapped'
    BY <1>3, MineChanges, Zenon DEF Import
  <2> QED  BY <1>1, <1>3, <2>1 DEF Copy!Next, Copy!Forfeited
<1>4. CASE ~overlapped /\ UNCHANGED <<mine, overlapped>>
  <2>1. Settled' = Settled \/ Settled' = Settled + 1
    BY <1>1
  <2> QED  BY <1>4, <2>1 DEF Copy!Next, Copy!Settles, Copy!vars
<1>5. CASE ~overlapped /\ CommitOffer /\ UNCHANGED overlapped
  <2>1. /\ HeadBlockNum(mine') = HeadBlockNum(mine) + 1 /\ HeadBlockNum(mine') <= Settled
        /\ mine'.live = StateAt(HeadBlockNum(mine) + 1)
    BY <1>5, CommitOfferKeeps
  <2>2. UNCHANGED peer
    BY <1>5 DEF CommitOffer
  <2>3. UNCHANGED Settled
    BY <2>2 DEF Settled, StoreOf, Peers
  <2>4. HeadBlockNum(mine) + 1 \in 0..Len(Chain)
    <3>1. HeadBlockNum(mine) \in Nat
      BY HeadIsNatural DEF FollowInv, MineInv
    <3> QED  BY <1>1, <1>2, <2>1, <3>1, BlocksAreNumbers
  <2>5. mine'.live = State[HeadBlockNum(mine) + 1]
    BY <2>1, <2>4
  <2> HIDE DEF State
  <2> QED  BY <1>5, <2>1, <2>3, <2>5 DEF Copy!Next, Copy!Extends, Copy!Moves, State
<1>6. CASE ~overlapped /\ Import /\ ~UNCHANGED <<mine, overlapped>>
  <2>1. /\ download.meta \in Blocks /\ download.meta <= Settled
        /\ HeadBlockNum(mine') = download.meta /\ mine'.live = StateAt(download.meta)
        /\ overlapped' = (overlapped \/ adopting.checked)
    BY <1>6, ImportKeeps
  <2>2. UNCHANGED Settled
    BY <1>6 DEF Import, Settled, StoreOf, Peers
  <2>3. overlapped' \in BOOLEAN
    BY <1>2, <2>1 DEF FollowInv, AdoptingInv
  <2>4. download.meta \in 0..Len(Chain)
    BY <2>1, BlocksAreNumbers
  <2>5. download.meta \in DOMAIN State /\ mine'.live = State[download.meta]
    BY <2>1, <2>4
  <2> HIDE DEF State
  <2>6. \E b \in DOMAIN State : b <= Settled /\ HeadBlockNum(mine') = b /\ mine'.live = State[b]
    BY <2>1, <2>5
  <2> QED  BY <1>6, <2>2, <2>3, <2>6 DEF Copy!Next, Copy!Loads, Copy!Moves, State
<1> QED  BY <1>2, <1>3, <1>4, <1>5, <1>6, MineChanges

\* Following implements a ledger: for every chain, every cast of peers and any
\* number of faults, the replica shows the rows of one settled block at every
\* moment, and moves by one block or by one import.
THEOREM FollowingRefinesLedger == Spec => FollowsLedger
<1>1. Init => Copy!Init
  <2> SUFFICES ASSUME Init PROVE Copy!Init
    OBVIOUS
  <2>1. HeadBlockNum(mine) = 0 /\ mine.live = StateAt(0)
    BY FreshStore, BlocksAreNumbers DEF Init
  <2>2. Settled \in Nat
    BY InitFollow, SettledIsGreatest, BlocksAreNumbers DEF FollowInv
  <2>3. [b \in 0..Len(Chain) |-> StateAt(b)][0] = StateAt(0)
    BY BlocksAreNumbers
  <2> QED  BY <2>1, <2>2, <2>3 DEF Init, Copy!Init
<1> QED  BY <1>1, LedgerStep, FollowInvariant, PTL DEF Spec, FollowsLedger, Copy!Spec
=============================================================================
