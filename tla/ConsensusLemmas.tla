--------------------------- MODULE ConsensusLemmas ---------------------------
(***************************************************************************)
(* Facts behind the proofs about Consensus: quorums, chains, certificates, *)
(* and that what a node does in a Round, in a SettleRound, to its store    *)
(* and between them (Coordinator) preserves the invariant of ConsensusInv  *)
(* for that node.                                                          *)
(***************************************************************************)
EXTENDS ConsensusInv, FiniteSetTheorems, TLAPS

-----------------------------------------------------------------------------
(* Arithmetic and quorums                                                  *)

\* A quorum is at least two thirds of the roster.
LEMMA SizeBound ==
    ASSUME NEW n \in Nat
    PROVE  Size(n) \in Nat /\ 3 * Size(n) >= 2 * n
BY DEF Size

\* The bucket of a time does not decrease as time passes (Tunables.bucket).
LEMMA BucketMonotone ==
    ASSUME NEW a \in Nat, NEW b \in Nat, a <= b
    PROVE  BucketOf(a) \in Nat /\ BucketOf(b) \in Nat /\ BucketOf(a) <= BucketOf(b)
BY TimeAssumption DEF BucketOf

\* A roster is a finite set of nodes.
LEMMA RosterFinite ==
    ASSUME NEW c
    PROVE  /\ Roster(c) \subseteq Nodes
           /\ IsFiniteSet(Roster(c))
           /\ Cardinality(Roster(c)) \in Nat
           /\ QuorumOf(c) \in Nat
<1>1. Roster(c) \subseteq Nodes
  BY DEF Roster
<1>2. IsFiniteSet(Roster(c))
  BY <1>1, NodesAssumption, FS_Subset
<1>3. Cardinality(Roster(c)) \in Nat
  BY <1>2, FS_CardinalityType
<1>4. QuorumOf(c) \in Nat
  BY <1>3, SizeBound DEF QuorumOf
<1> QED
  BY <1>1, <1>2, <1>3, <1>4

\* Two quorums of one nonempty roster have a member in common.
LEMMA QuorumsMeet ==
    ASSUME NEW c, Roster(c) # {},
           NEW A \in SUBSET Roster(c), NEW B \in SUBSET Roster(c),
           Cardinality(A) >= QuorumOf(c), Cardinality(B) >= QuorumOf(c)
    PROVE  A \cap B # {}
<1> SUFFICES ASSUME A \cap B = {} PROVE FALSE
  OBVIOUS
<1> DEFINE R == Roster(c)
<1>1. IsFiniteSet(R) /\ IsFiniteSet(A) /\ IsFiniteSet(B)
  BY RosterFinite, FS_Subset
<1>2. /\ Cardinality(R) \in Nat /\ Cardinality(A) \in Nat /\ Cardinality(B) \in Nat
  BY <1>1, FS_CardinalityType
<1>3. Cardinality(A \cup B) = Cardinality(A) + Cardinality(B) - Cardinality(A \cap B)
  BY <1>1, FS_Union
<1>4. Cardinality(A \cap B) = 0
  BY FS_EmptySet
<1>5. IsFiniteSet(A \cup B) /\ Cardinality(A \cup B) <= Cardinality(R)
  BY <1>1, FS_Subset, A \cup B \subseteq R
<1>6. Cardinality(R) # 0
  BY <1>1, FS_EmptySet
<1>7. 3 * QuorumOf(c) >= 2 * Cardinality(R) /\ QuorumOf(c) \in Nat
  BY <1>2, SizeBound DEF QuorumOf
<1> QED
  BY <1>2, <1>3, <1>4, <1>5, <1>6, <1>7

-----------------------------------------------------------------------------
(* Chains                                                                  *)

\* What is below a block does not change when the chain grows.
LEMMA BaseOfAppend ==
    ASSUME NEW c \in Chain, NEW x \in Block
    PROVE  /\ Append(c, x) \in Chain
           /\ DOMAIN Append(c, x) = DOMAIN c \cup {Len(c) + 1}
           /\ Append(c, x)[Len(c) + 1] = x
           /\ Base(Append(c, x), Len(c) + 1) = c
           /\ \A i \in DOMAIN c : /\ Append(c, x)[i] = c[i]
                                  /\ Base(Append(c, x), i) = Base(c, i)
<1>1. Append(c, x) \in Chain /\ Len(Append(c, x)) = Len(c) + 1
  BY DEF Chain
<1>2. DOMAIN Append(c, x) = DOMAIN c \cup {Len(c) + 1}
  BY <1>1 DEF Chain
<1>3. Append(c, x)[Len(c) + 1] = x /\ \A i \in DOMAIN c : Append(c, x)[i] = c[i]
  BY DEF Chain
<1>4. Base(Append(c, x), Len(c) + 1) = c
  BY <1>1, <1>3 DEF Chain, Base
<1>5. \A i \in DOMAIN c : Base(Append(c, x), i) = Base(c, i)
  BY <1>1, <1>3 DEF Chain, Base
<1> QED
  BY <1>1, <1>2, <1>3, <1>4, <1>5

\* The same for a chain that is cut off after its block k.
LEMMA BaseOfPrefix ==
    ASSUME NEW c \in Chain, NEW k \in 0..Len(c)
    PROVE  /\ SubSeq(c, 1, k) \in Chain
           /\ Len(SubSeq(c, 1, k)) = k
           /\ DOMAIN SubSeq(c, 1, k) = 1..k
           /\ \A i \in 1..k : /\ SubSeq(c, 1, k)[i] = c[i]
                              /\ Base(SubSeq(c, 1, k), i) = Base(c, i)
<1>1. SubSeq(c, 1, k) \in Chain /\ Len(SubSeq(c, 1, k)) = k
  BY DEF Chain
<1>2. \A i \in 1..k : SubSeq(c, 1, k)[i] = c[i]
  BY DEF Chain
<1>3. \A i \in 1..k : Base(SubSeq(c, 1, k), i) = Base(c, i)
  BY <1>1, <1>2 DEF Chain, Base
<1> QED
  BY <1>1, <1>2, <1>3 DEF Chain

\* A base of a chain is a base of everything that extends the chain.
LEMMA BelowExtends ==
    ASSUME NEW p \in Chain, NEW c \in Chain, NEW d \in Chain,
           Below(p, c), Below(c, d)
    PROVE  Below(p, d)
BY DEF Below, Chain

\* A chain is below itself and below what is appended to it.
LEMMA BelowAppend ==
    ASSUME NEW c \in Chain, NEW x \in Block
    PROVE  Below(c, c) /\ Below(c, Append(c, x))
BY DEF Below, Chain

\* What has settled in a base has settled in the chain.
LEMMA SettledBelow ==
    ASSUME NEW p \in Chain, NEW c \in Chain, Below(p, c)
    PROVE  Settled(p) \subseteq Settled(c)
<1>1. DOMAIN p \subseteq DOMAIN c /\ \A i \in DOMAIN p : p[i] = c[i]
  BY DEF Below, Chain
<1> QED
  BY <1>1 DEF Settled

-----------------------------------------------------------------------------
(* Certificates only grow with the messages sent                           *)

\* Signatures that were sent stay sent, so a quorum stays a quorum.
LEMMA CertificatesGrow ==
    ASSUME NEW M, NEW K, M \subseteq K, NEW p, NEW b, NEW txs
    PROVE  /\ Ratifiers(p, b, txs, M) \subseteq Ratifiers(p, b, txs, K)
           /\ Settlers(p, b, txs, M) \subseteq Settlers(p, b, txs, K)
           /\ Ratified(p, b, txs, M) => Ratified(p, b, txs, K)
           /\ Cardinality(Settlers(p, b, txs, M)) >= QuorumOf(p)
                  => Cardinality(Settlers(p, b, txs, K)) >= QuorumOf(p)
<1>1. Ratifiers(p, b, txs, M) \subseteq Ratifiers(p, b, txs, K)
  BY DEF Ratifiers
<1>2. Settlers(p, b, txs, M) \subseteq Settlers(p, b, txs, K)
  BY DEF Settlers
<1>3. IsFiniteSet(Ratifiers(p, b, txs, K)) /\ IsFiniteSet(Settlers(p, b, txs, K))
  BY RosterFinite, FS_Subset DEF Ratifiers, Settlers
<1>4. /\ Cardinality(Ratifiers(p, b, txs, M)) <= Cardinality(Ratifiers(p, b, txs, K))
      /\ Cardinality(Settlers(p, b, txs, M)) <= Cardinality(Settlers(p, b, txs, K))
      /\ Cardinality(Ratifiers(p, b, txs, M)) \in Nat
      /\ Cardinality(Ratifiers(p, b, txs, K)) \in Nat
      /\ Cardinality(Settlers(p, b, txs, M)) \in Nat
      /\ Cardinality(Settlers(p, b, txs, K)) \in Nat
  BY <1>1, <1>2, <1>3, FS_Subset, FS_CardinalityType
<1>5. QuorumOf(p) \in Nat
  BY RosterFinite
<1> QED
  BY <1>1, <1>2, <1>4, <1>5 DEF Ratified

\* The certificates of a chain survive further messages.
LEMMA ChainInvGrows ==
    ASSUME NEW M, NEW K, M \subseteq K, NEW c, ChainInv(c, M)
    PROVE  ChainInv(c, K)
BY CertificatesGrow DEF ChainInv, BlockInv

\* The certificates of a settlement survive further messages.
LEMMA SettlingInvGrows ==
    ASSUME NEW M, NEW K, M \subseteq K, NEW s, NEW n, SettlingInv(s, n, M)
    PROVE  SettlingInv(s, n, K)
BY CertificatesGrow DEF SettlingInv

-----------------------------------------------------------------------------
(* The helpers of the handlers preserve the invariant                      *)

\* Messages that sign nothing leave the record of what n signed as it was.
LEMMA QuietMessages ==
    ASSUME NEW n, NEW M, NEW O, \A m \in O : m.type \in {"HELD", "BODIES"}
    PROVE  /\ \A b : SignedBelow(n, M, b) => SignedBelow(n, M \cup O, b)
           /\ \A b : SettleSignedBelow(n, M, b) => SettleSignedBelow(n, M \cup O, b)
           /\ SignedOnce(n, M) => SignedOnce(n, M \cup O)
BY DEF SignedBelow, SettleSignedBelow, SignedOnce

\* A step that changes only the round of n, and sends nothing that is signed.
LEMMA RoundStep ==
    ASSUME NEW n \in Nodes, NEW now \in Nat, NEW M \in SUBSET Message,
           NEW s, NEW t, Local(s, n, now, M),
           s.outbox \subseteq t.outbox,
           \A m \in t.outbox \ s.outbox : m.frm = n /\ m.type \in {"HELD", "BODIES"},
           t.chain = s.chain, t.settling = s.settling,
           t.current_bucket = s.current_bucket,
           t \in NodeType(Sent(t, M)), RoundInv(t, n, Sent(t, M))
    PROVE  Local(t, n, now, M)
<1> DEFINE O == t.outbox \ s.outbox
<1>1. Sent(t, M) = Sent(s, M) \cup O
  BY DEF Sent
<1>2. SignedOnce(n, Sent(t, M)) /\ SignedBelow(n, Sent(t, M), t.current_bucket)
  <2>1. SignedOnce(n, Sent(s, M)) /\ SignedBelow(n, Sent(s, M), s.current_bucket)
    BY DEF Local, ClockInv
  <2>2. \A m \in O : m.type \in {"HELD", "BODIES"}
    OBVIOUS
  <2>3. /\ SignedBelow(n, Sent(s, M), s.current_bucket)
             => SignedBelow(n, Sent(s, M) \cup O, s.current_bucket)
        /\ SignedOnce(n, Sent(s, M)) => SignedOnce(n, Sent(s, M) \cup O)
    BY <2>2, QuietMessages, ZenonT(40)
  <2> QED
    BY <1>1, <2>1, <2>3
<1>3. SettlingInv(s, n, Sent(t, M)) /\ ChainInv(s.chain, Sent(t, M))
  BY <1>1, SettlingInvGrows, ChainInvGrows DEF Local
<1>4. SettlingInv(t, n, Sent(t, M)) /\ ChainInv(t.chain, Sent(t, M))
  BY <1>3 DEF SettlingInv
<1>5. \A m \in t.outbox : m.frm = n
  BY DEF Local
<1>6. ClockInv(t, n, now, Sent(t, M))
  BY <1>2 DEF Local, ClockInv
<1> QED
  BY <1>2, <1>4, <1>5, <1>6 DEF Local

\* A round may leave its slot at any time.
LEMMA EmptyRoundLocal ==
    ASSUME NEW n \in Nodes, NEW now \in Nat, NEW M \in SUBSET Message, NEW s,
           Local(s, n, now, M)
    PROVE  Local([s EXCEPT !.current_round = NoRound], n, now, M)
<1> SUFFICES ASSUME NEW t, t = [s EXCEPT !.current_round = NoRound]
             PROVE  Local(t, n, now, M)
  OBVIOUS
<1>1. s \in NodeType(Sent(s, M))
  BY DEF Local
<1>2. /\ t.outbox = s.outbox /\ t.current_bucket = s.current_bucket
      /\ t.settling = s.settling /\ t.chain = s.chain /\ t.current_round = NoRound
  BY <1>1 DEF NodeType
<1>3. Sent(t, M) = Sent(s, M)
  BY <1>2 DEF Sent
<1>4. NoRound \in RoundType(Sent(s, M))
  BY DEF NoRound, RoundType, Chain
<1>5. t \in NodeType(Sent(t, M))
  BY <1>1, <1>3, <1>4 DEF NodeType
<1>6. RoundInv(t, n, Sent(t, M))
  BY <1>2 DEF RoundInv, NoRound
<1> QED
  BY <1>2, <1>5, <1>6, RoundStep, Zenon

\* DropAbandoned empties the slot of an abandoned round.
LEMMA DropAbandonedLocal ==
    ASSUME NEW n \in Nodes, NEW now \in Nat, NEW M \in SUBSET Message, NEW s,
           Local(s, n, now, M)
    PROVE  Local(DropAbandoned(s), n, now, M)
BY EmptyRoundLocal DEF DropAbandoned

\* _try_ratify: a round is GONE only with a quorum of signatures for its slice.
LEMMA TryRatifyLocal ==
    ASSUME NEW n \in Nodes, NEW now \in Nat, NEW M \in SUBSET Message, NEW s,
           Local(s, n, now, M)
    PROVE  Local(TryRatify(s), n, now, M)
<1> SUFFICES ASSUME s.current_round.state = "FINALIZE",
                    Cardinality(Agreeing(s.current_round)) >= QuorumOf(s.current_round.prev),
                    NEW t, t = [s EXCEPT !.current_round.state = "GONE"]
             PROVE  Local(t, n, now, M)
  BY DEF TryRatify
<1> DEFINE r == s.current_round
           q == t.current_round
<1>1. s \in NodeType(Sent(s, M)) /\ r \in RoundType(Sent(s, M))
  BY DEF Local, NodeType
<1>2. /\ t.outbox = s.outbox /\ t.current_bucket = s.current_bucket
      /\ t.settling = s.settling /\ t.chain = s.chain
      /\ q = [r EXCEPT !.state = "GONE"]
  BY <1>1 DEF NodeType
<1>3. Sent(t, M) = Sent(s, M)
  BY <1>2 DEF Sent
<1>4. /\ q \in RoundType(Sent(s, M)) /\ q.state = "GONE" /\ q.bucket = r.bucket
      /\ q.prev = r.prev /\ q.sigs = r.sigs /\ q.slice = r.slice
  BY <1>1, <1>2 DEF RoundType
<1>5. t \in NodeType(Sent(t, M))
  BY <1>1, <1>3, <1>4 DEF NodeType
<1>6. Agreeing(q) = Agreeing(r)
  BY <1>4 DEF Agreeing
<1>7. RoundInv(t, n, Sent(t, M))
  BY <1>2, <1>3, <1>4, <1>6 DEF Local, RoundInv
<1> QED
  BY <1>2, <1>5, <1>7, RoundStep, Zenon

\* The screen of the cut lets through only what has not settled yet.
LEMMA ScreenIsFresh ==
    ASSUME NEW c, NEW cand
    PROVE  Screen(c, cand) \subseteq cand /\ Screen(c, cand) \cap Settled(c) = {}
BY DEF Screen

\* The constructors build messages.
LEMMA MessagesTyped ==
    ASSUME NEW n \in Nodes, NEW b \in Nat, NEW p \in Chain, NEW x \in SUBSET Txs
    PROVE  /\ Held(n, b, p, x) \in Message
           /\ Sig(n, b, p, x) \in Message
           /\ SettleSig(n, b, p, x) \in Message
           /\ \A q \in Nodes : Bodies(n, q, b, p, x) \in Message
BY DEF Held, Sig, SettleSig, Bodies, Message, Broadcast

\* _finalize: the first signature of n for its bucket, on a slice that is new.
LEMMA FinalizeLocal ==
    ASSUME NEW n \in Nodes, NEW now \in Nat, NEW M \in SUBSET Message, NEW s,
           Local(s, n, now, M), s.current_round.state = "COLLECT"
    PROVE  Local(Finalize(s, n), n, now, M)
<1> DEFINE r     == s.current_round
           slice == Screen(s.chain, r.bodies \cap ComputeSlice(r, n))
           mine  == Sig(n, r.bucket, r.prev, slice)
           t     == [s EXCEPT !.current_round.state = "FINALIZE",
                              !.current_round.slice = slice,
                              !.current_round.holds = {},
                              !.current_round.sigs = @ \cup {mine},
                              !.outbox = @ \cup {mine}]
           q     == t.current_round
           K     == Sent(s, M)
<1> SUFFICES Local(t, n, now, M)
  BY TryRatifyLocal DEF Finalize, SignSlice
<1>1. s \in NodeType(K) /\ r \in RoundType(K) /\ s.chain \in Chain
      /\ r.bodies \in SUBSET Txs /\ r.bucket \in Nat /\ r.prev \in Chain
      /\ s.outbox \in SUBSET Message
  BY DEF Local, NodeType, RoundType
<1>2. slice \in SUBSET Txs /\ slice \cap Settled(s.chain) = {}
  BY <1>1, ScreenIsFresh
<1>3. mine \in Message
  BY <1>1, <1>2, MessagesTyped, Zenon
<1> HIDE DEF slice
<1>m. /\ mine.frm = n /\ mine.type = "SIG" /\ mine.bucket = r.bucket
      /\ mine.prev = r.prev /\ mine.txs = slice
  BY DEF Sig
<1> HIDE DEF mine
<1>4. /\ t.outbox = s.outbox \cup {mine} /\ t.current_bucket = s.current_bucket
      /\ t.settling = s.settling /\ t.chain = s.chain
      /\ q = [r EXCEPT !.state = "FINALIZE", !.slice = slice, !.holds = {},
                       !.sigs = @ \cup {mine}]
  BY <1>1 DEF NodeType
<1>t. t = [s EXCEPT !.current_round = q, !.outbox = s.outbox \cup {mine}]
  BY <1>1, Zenon DEF NodeType
<1> HIDE DEF t, r
<1>5. /\ q.state = "FINALIZE" /\ q.bucket = r.bucket /\ q.prev = r.prev
      /\ q.sigs = r.sigs \cup {mine} /\ q.slice = slice
  BY <1>1, <1>4 DEF RoundType
<1>6. Sent(t, M) = K \cup {mine}
  BY <1>4 DEF Sent
<1>7. q \in RoundType(K \cup {mine})
  BY <1>1, <1>2, <1>4, ZenonT(40) DEF RoundType
<1>8. t \in NodeType(K \cup {mine})
  <2> DEFINE out == s.outbox \cup {mine}
  <2>1. out \in SUBSET Message
    BY <1>1, <1>3
  <2>2. s \in NodeType(K) /\ t = [s EXCEPT !.current_round = q, !.outbox = out]
    BY <1>1, <1>t
  <2> HIDE DEF out, q, K
  <2> QED
    BY <2>1, <2>2, <1>7, ZenonT(40) DEF NodeType
<1>9. /\ r.bucket < s.current_bucket /\ SettleSignedBelow(n, K, r.bucket)
      /\ n \in Roster(r.prev) /\ Below(r.prev, s.chain) /\ SignedBelow(n, K, r.bucket)
      /\ \A m \in r.sigs : /\ m.type = "SIG" /\ m.bucket = r.bucket
                           /\ m.prev = r.prev /\ m.frm \in Roster(r.prev)
  BY DEF Local, RoundInv, r
<1>k. \A m \in K : m.bucket \in Nat
  BY <1>1 DEF Sent, Message, Broadcast
<1>10. slice \cap Settled(r.prev) = {}
  BY <1>1, <1>2, <1>9, SettledBelow
<1>11. SignedOnce(n, K \cup {mine})
  <2>1. SignedOnce(n, K)
    BY DEF Local
  <2>2. \A m \in K : m.frm = n /\ m.type = "SIG" => m.bucket # r.bucket
    BY <1>1, <1>9, <1>k DEF SignedBelow
  <2> HIDE DEF K
  <2> QED
    BY <2>1, <2>2, <1>m DEF SignedOnce
<1>12. ClockInv(t, n, now, K \cup {mine})
  <2>1. SignedBelow(n, K, s.current_bucket) /\ s.current_bucket <= BucketOf(now)
    BY DEF Local, ClockInv
  <2>2. SignedBelow(n, K \cup {mine}, s.current_bucket)
    BY <2>1, <1>9, <1>m DEF SignedBelow
  <2> QED
    BY <2>1, <2>2, <1>4 DEF ClockInv
<1>13. SettleSignedBelow(n, K \cup {mine}, r.bucket)
  BY <1>9, <1>m DEF SettleSignedBelow
<1>14. RoundInv(t, n, K \cup {mine})
  BY <1>4, <1>5, <1>9, <1>10, <1>13, <1>m DEF RoundInv
<1>15. SettlingInv(s, n, K \cup {mine}) /\ ChainInv(s.chain, K \cup {mine})
  BY SettlingInvGrows, ChainInvGrows DEF Local
<1>16. SettlingInv(t, n, K \cup {mine}) /\ ChainInv(t.chain, K \cup {mine})
  BY <1>15, <1>4 DEF SettlingInv
<1>17. \A m \in t.outbox : m.frm = n
  BY <1>4, <1>m DEF Local
<1> QED
  BY <1>6, <1>8, <1>11, <1>12, <1>14, <1>16, <1>17 DEF Local

\* _abandon, in Round.tick: the slot keeps a round that can do nothing more.
LEMMA AbandonLocal ==
    ASSUME NEW n \in Nodes, NEW now \in Nat, NEW M \in SUBSET Message, NEW s,
           Local(s, n, now, M), s.current_round.state = "FINALIZE"
    PROVE  Local([s EXCEPT !.current_round.state = "ABANDONED"], n, now, M)
<1> DEFINE t == [s EXCEPT !.current_round.state = "ABANDONED"]
           r == s.current_round
           q == t.current_round
<1>1. s \in NodeType(Sent(s, M)) /\ r \in RoundType(Sent(s, M))
  BY DEF Local, NodeType
<1>2. /\ t.outbox = s.outbox /\ t.current_bucket = s.current_bucket
      /\ t.settling = s.settling /\ t.chain = s.chain
      /\ q = [r EXCEPT !.state = "ABANDONED"]
      /\ t = [s EXCEPT !.current_round = q]
  BY <1>1 DEF NodeType
<1> HIDE DEF t, r
<1>3. Sent(t, M) = Sent(s, M)
  BY <1>2 DEF Sent
<1>4. /\ q \in RoundType(Sent(s, M)) /\ q.state = "ABANDONED" /\ q.bucket = r.bucket
      /\ q.prev = r.prev /\ q.sigs = r.sigs /\ q.slice = r.slice
  BY <1>1, <1>2 DEF RoundType
<1>5. t \in NodeType(Sent(t, M))
  BY <1>1, <1>2, <1>3, <1>4 DEF NodeType
<1>6. RoundInv(t, n, Sent(t, M))
  BY <1>2, <1>3, <1>4 DEF Local, RoundInv, r
<1> QED
  BY <1>2, <1>5, <1>6, RoundStep, Zenon DEF t

\* Round.tick
LEMMA RoundTickLocal ==
    ASSUME NEW n \in Nodes, NEW now \in Nat, NEW M \in SUBSET Message, NEW s,
           Local(s, n, now, M)
    PROVE  Local(RoundTick(s, n, now), n, now, M)
<1> DEFINE t == IF s.current_round.state = "COLLECT" /\ now >= CloseBy(s.current_round.bucket)
                THEN Finalize(s, n) ELSE s
<1>1. Local(t, n, now, M)
  BY FinalizeLocal
<1> HIDE DEF t
<1>2. Local(AbandonLate(t, now), n, now, M)
  BY <1>1, AbandonLocal DEF AbandonLate
<1> QED
  BY <1>2 DEF RoundTick, t

\* _on_held
LEMMA OnHeldLocal ==
    ASSUME NEW n \in Nodes, NEW now \in Nat, NEW M \in SUBSET Message, NEW s,
           Local(s, n, now, M), NEW m \in M, NEW push \in SUBSET s.current_round.bodies
    PROVE  Local(OnHeld(s, n, m, push), n, now, M)
<1> DEFINE r    == s.current_round
           mine == Bodies(n, m.frm, r.bucket, r.prev, push)
           out  == IF push = {} THEN s.outbox ELSE s.outbox \cup {mine}
           q    == [r EXCEPT !.holds = {h \in @ : h.frm # m.frm} \cup {m}]
           t    == [s EXCEPT !.current_round = q, !.outbox = out]
<1>1. s \in NodeType(Sent(s, M)) /\ r \in RoundType(Sent(s, M))
      /\ s.outbox \in SUBSET Message
  BY DEF Local, NodeType
<1> SUFFICES ASSUME r.state = "COLLECT" PROVE Local(t, n, now, M)
  <2>1. OnHeld(s, n, m, push) = IF r.state # "COLLECT" THEN s ELSE t
    BY <1>1 DEF OnHeld, NodeType, RoundType
  <2> QED
    BY <2>1
<1>2. m.frm \in Nodes /\ r.bucket \in Nat /\ r.prev \in Chain /\ push \in SUBSET Txs
  BY <1>1 DEF Message, Broadcast, RoundType
<1>3. mine \in Message /\ mine.frm = n /\ mine.type = "BODIES"
  BY <1>2, MessagesTyped DEF Bodies
<1> HIDE DEF mine
<1>4. /\ t.outbox = out /\ t.current_bucket = s.current_bucket
      /\ t.settling = s.settling /\ t.chain = s.chain /\ t.current_round = q
  BY <1>1 DEF NodeType
<1>5. Sent(s, M) \subseteq Sent(t, M) /\ m \in Sent(t, M)
  BY <1>4 DEF Sent
<1> HIDE DEF r
<1>6. /\ q \in RoundType(Sent(t, M)) /\ q.state = r.state /\ q.bucket = r.bucket
      /\ q.prev = r.prev /\ q.sigs = r.sigs /\ q.slice = r.slice
  BY <1>1, <1>5, ZenonT(40) DEF RoundType
<1> HIDE DEF q
<1>7. out \in SUBSET Message /\ s.outbox \subseteq out
      /\ \A k \in out \ s.outbox : k.frm = n /\ k.type \in {"HELD", "BODIES"}
  BY <1>1, <1>3
<1> HIDE DEF out
<1>8. t \in NodeType(Sent(t, M))
  BY <1>1, <1>6, <1>7, ZenonT(40) DEF NodeType
<1> HIDE DEF t
<1>9. Sent(t, M) = Sent(s, M) \cup (out \ s.outbox)
  BY <1>4, <1>7 DEF Sent
<1>10. /\ SettleSignedBelow(n, Sent(s, M), r.bucket) => SettleSignedBelow(n, Sent(t, M), r.bucket)
       /\ SignedBelow(n, Sent(s, M), r.bucket) => SignedBelow(n, Sent(t, M), r.bucket)
  BY <1>7, <1>9 DEF SignedBelow, SettleSignedBelow
<1>11. RoundInv(t, n, Sent(t, M))
  BY <1>4, <1>6, <1>10 DEF Local, RoundInv, r
<1> QED
  BY <1>4, <1>7, <1>8, <1>11, RoundStep

\* _on_sig
LEMMA OnSigLocal ==
    ASSUME NEW n \in Nodes, NEW now \in Nat, NEW M \in SUBSET Message, NEW s,
           Local(s, n, now, M), NEW m \in M, m.type = "SIG", ForRound(s, m)
    PROVE  Local(OnSig(s, m), n, now, M)
<1> DEFINE r == s.current_round
           q == [r EXCEPT !.sigs = @ \cup {m}]
           t == [s EXCEPT !.current_round = q]
<1>1. s \in NodeType(Sent(s, M)) /\ r \in RoundType(Sent(s, M))
  BY DEF Local, NodeType
<1> SUFFICES ASSUME r.state # "GONE" PROVE Local(t, n, now, M)
  <2>1. t = [s EXCEPT !.current_round.sigs = @ \cup {m}]
    BY <1>1 DEF NodeType, RoundType
  <2> QED
    BY <2>1, TryRatifyLocal DEF OnSig
<1>2. /\ t.outbox = s.outbox /\ t.current_bucket = s.current_bucket
      /\ t.settling = s.settling /\ t.chain = s.chain /\ t.current_round = q
  BY <1>1 DEF NodeType
<1>3. Sent(t, M) = Sent(s, M) /\ m \in Sent(s, M)
  BY <1>2 DEF Sent
<1>m. m.bucket = r.bucket /\ m.prev = r.prev /\ m.frm \in Roster(r.prev)
  BY DEF ForRound
<1> HIDE DEF r
<1>4. /\ q \in RoundType(Sent(s, M)) /\ q.state = r.state /\ q.bucket = r.bucket
      /\ q.prev = r.prev /\ q.sigs = r.sigs \cup {m} /\ q.slice = r.slice
  BY <1>1, <1>3 DEF RoundType
<1> HIDE DEF q
<1>5. t \in NodeType(Sent(t, M))
  BY <1>1, <1>3, <1>4 DEF NodeType
<1>6. RoundInv(t, n, Sent(t, M))
  BY <1>2, <1>3, <1>4, <1>m DEF Local, RoundInv, r
<1> QED
  BY <1>2, <1>5, <1>6, RoundStep, Zenon

\* _absorb_bodies
LEMMA AbsorbLocal ==
    ASSUME NEW n \in Nodes, NEW now \in Nat, NEW M \in SUBSET Message, NEW s,
           Local(s, n, now, M), NEW m \in M
    PROVE  Local(Absorb(s, n, m), n, now, M)
<1> DEFINE r     == s.current_round
           fresh == {t \in m.txs \ r.bodies : ValidForBucket(s.chain, t, r.bucket)}
           mine  == Held(n, r.bucket, r.prev, r.bodies \cup fresh)
           q     == [r EXCEPT !.bodies = @ \cup fresh]
           t     == [s EXCEPT !.current_round = q, !.outbox = @ \cup {mine}]
<1>1. s \in NodeType(Sent(s, M)) /\ r \in RoundType(Sent(s, M))
      /\ s.outbox \in SUBSET Message
  BY DEF Local, NodeType
<1> SUFFICES Local(t, n, now, M)
  <2>1. Absorb(s, n, m) = IF r.state # "COLLECT" \/ fresh = {} THEN s ELSE t
    BY <1>1 DEF Absorb, NodeType, RoundType
  <2> QED
    BY <2>1
<1>2. r.bucket \in Nat /\ r.prev \in Chain /\ r.bodies \in SUBSET Txs /\ m.txs \in SUBSET Txs
  BY <1>1 DEF Message, Broadcast, RoundType
<1>3. fresh \in SUBSET Txs
  BY <1>2
<1> HIDE DEF fresh
<1>4. mine \in Message /\ mine.frm = n /\ mine.type = "HELD"
  BY <1>2, <1>3, MessagesTyped DEF Held
<1> HIDE DEF mine
<1>5. /\ t.outbox = s.outbox \cup {mine} /\ t.current_bucket = s.current_bucket
      /\ t.settling = s.settling /\ t.chain = s.chain /\ t.current_round = q
  BY <1>1 DEF NodeType
<1>6. Sent(t, M) = Sent(s, M) \cup {mine}
  BY <1>5 DEF Sent
<1> HIDE DEF r
<1>7. /\ q \in RoundType(Sent(t, M)) /\ q.state = r.state /\ q.bucket = r.bucket
      /\ q.prev = r.prev /\ q.sigs = r.sigs /\ q.slice = r.slice
  BY <1>1, <1>3, <1>6 DEF RoundType
<1> HIDE DEF q
<1>8. t \in NodeType(Sent(t, M))
  BY <1>1, <1>4, <1>7, Zenon DEF NodeType
<1> HIDE DEF t
<1>9. /\ SettleSignedBelow(n, Sent(s, M), r.bucket) => SettleSignedBelow(n, Sent(t, M), r.bucket)
      /\ SignedBelow(n, Sent(s, M), r.bucket) => SignedBelow(n, Sent(t, M), r.bucket)
  BY <1>4, <1>6 DEF SignedBelow, SettleSignedBelow
<1>10. Agreeing(q) = Agreeing(r)
  BY <1>7 DEF Agreeing
<1>11. RoundInv(t, n, Sent(t, M))
  BY <1>5, <1>7, <1>9, <1>10 DEF Local, RoundInv, r
<1> QED
  BY <1>4, <1>5, <1>8, <1>11, RoundStep

\* A coordinator may take up a later bucket that its clock has reached.
LEMMA BucketLocal ==
    ASSUME NEW n \in Nodes, NEW now \in Nat, NEW M \in SUBSET Message, NEW s,
           Local(s, n, now, M), NEW b \in Nat, s.current_bucket <= b, b <= BucketOf(now)
    PROVE  Local([s EXCEPT !.current_bucket = b], n, now, M)
<1> DEFINE t == [s EXCEPT !.current_bucket = b]
<1>1. s \in NodeType(Sent(s, M)) /\ s.current_bucket \in Nat
      /\ s.current_round \in RoundType(Sent(s, M)) /\ s.outbox \in SUBSET Message
  BY DEF Local, NodeType
<1>2. /\ t.outbox = s.outbox /\ t.current_bucket = b /\ t.current_round = s.current_round
      /\ t.settling = s.settling /\ t.chain = s.chain /\ t \in NodeType(Sent(s, M))
  BY <1>1 DEF NodeType
<1> HIDE DEF t
<1>3. Sent(t, M) = Sent(s, M)
  BY <1>2 DEF Sent
<1>4. \A m \in Sent(s, M) : m.bucket \in Nat
  BY <1>1 DEF Sent, Message, Broadcast
<1>5. ClockInv(t, n, now, Sent(t, M))
  BY <1>1, <1>2, <1>3, <1>4 DEF Local, ClockInv, SignedBelow
<1>6. RoundInv(t, n, Sent(t, M))
  <2>1. s.current_round.bucket \in Nat
    BY <1>1 DEF RoundType
  <2>2. \A x \in Nat : x < s.current_bucket => x < b
    BY <1>1
  <2> QED
    BY <1>2, <1>3, <2>1, <2>2 DEF Local, RoundInv
<1> QED
  BY <1>2, <1>3, <1>5, <1>6 DEF Local, SettlingInv, t

\* _close_current_bucket: the round that opens is for a bucket that this node
\* has signed nothing for.
LEMMA CloseCurrentBucketLocal ==
    ASSUME NEW n \in Nodes, NEW now \in Nat, NEW M \in SUBSET Message, NEW s,
           Local(s, n, now, M), NEW behind
    PROVE  Local(CloseCurrentBucket(s, n, now, behind), n, now, M)
<1> DEFINE b    == BucketOf(now) - 1
           u    == [s EXCEPT !.current_bucket = b + 1]
           mine == Held(n, b, s.chain, s.mempool)
           q    == NewRound(b, s.chain, s.mempool)
           t    == [u EXCEPT !.current_round = q, !.outbox = @ \cup {mine}]
<1>1. s \in NodeType(Sent(s, M)) /\ s.chain \in Chain /\ s.mempool \in SUBSET Txs
      /\ s.current_bucket \in Nat /\ BucketOf(now) \in Nat
  BY BucketMonotone DEF Local, NodeType
<1> SUFFICES ASSUME s.current_bucket <= b
             PROVE  Local(u, n, now, M) /\ (n \in Roster(s.chain) => Local(t, n, now, M))
  <2> HIDE DEF q, mine
  <2>2. [[s EXCEPT !.current_round = q, !.outbox = @ \cup {mine}] EXCEPT !.current_bucket = b + 1]
          = t
    BY <1>1, Zenon DEF NodeType
  <2> HIDE DEF t, u, b
  <2>3. CloseCurrentBucket(s, n, now, behind) \in
            {s} \cup (IF b < s.current_bucket THEN {} ELSE {u, IF n \in Roster(s.chain) THEN t ELSE u})
    BY <2>2, Zenon DEF CloseCurrentBucket, OpenRound, q, mine, u, b
  <2> QED
    BY <2>3, <1>1 DEF b
<1>2. b \in Nat
  BY <1>1
<1>3. Local(u, n, now, M)
  BY <1>1, <1>2, BucketLocal
<1> SUFFICES ASSUME n \in Roster(s.chain) PROVE Local(t, n, now, M)
  BY <1>3
<1>4. mine \in Message /\ mine.frm = n /\ mine.type = "HELD"
  BY <1>1, <1>2, MessagesTyped DEF Held
<1>5. /\ q \in RoundType({}) /\ q.state = "COLLECT" /\ q.bucket = b
      /\ q.prev = s.chain /\ q.sigs = {}
  BY <1>1, <1>2, Zenon DEF NewRound, NoRound, RoundType, Chain
<1>6. u \in NodeType(Sent(u, M)) /\ u.chain = s.chain /\ u.outbox = s.outbox
      /\ u.current_bucket = b + 1
  BY <1>1, <1>3 DEF Local, NodeType
<1>7. Sent(u, M) = Sent(s, M)
  BY <1>6 DEF Sent
<1> HIDE DEF u, mine, q
<1>8. /\ t.outbox = u.outbox \cup {mine} /\ t.current_bucket = u.current_bucket
      /\ t.settling = u.settling /\ t.chain = u.chain /\ t.current_round = q
  BY <1>6 DEF NodeType
<1>9. Sent(t, M) = Sent(s, M) \cup {mine}
  BY <1>7, <1>8 DEF Sent
<1>10. q \in RoundType(Sent(t, M))
  BY <1>5 DEF RoundType
<1>11. t \in NodeType(Sent(t, M))
  BY <1>4, <1>6, <1>10, Zenon DEF NodeType
<1> HIDE DEF t
<1>12. SignedBelow(n, Sent(t, M), b) /\ SettleSignedBelow(n, Sent(t, M), b)
  <2>1. SignedBelow(n, Sent(s, M), s.current_bucket)
    BY DEF Local, ClockInv
  <2>2. \A m \in Sent(s, M) : m.bucket \in Nat
    BY <1>1 DEF Sent, NodeType, Message, Broadcast
  <2> QED
    BY <2>1, <2>2, <1>1, <1>2, <1>4, <1>9 DEF SignedBelow, SettleSignedBelow
<1>13. Below(s.chain, s.chain)
  BY <1>1 DEF Below, Chain
<1>14. RoundInv(t, n, Sent(t, M))
  BY <1>2, <1>5, <1>6, <1>8, <1>12, <1>13 DEF RoundInv
<1> QED
  BY <1>3, <1>4, <1>8, <1>11, <1>14, RoundStep

-----------------------------------------------------------------------------
(* Signatures over anchors                                                 *)

\* A signature is determined by its fields.
LEMMA MessageShape ==
    ASSUME NEW m \in Message
    PROVE  /\ m.type = "SIG" => m = Sig(m.frm, m.bucket, m.prev, m.txs)
           /\ m.type = "SETTLE_SIG" => m = SettleSig(m.frm, m.bucket, m.prev, m.txs)
BY DEF Message, Broadcast, Sig, SettleSig

\* A step that changes only the settling slot of n.
LEMMA SettlingStep ==
    ASSUME NEW n \in Nodes, NEW now \in Nat, NEW M \in SUBSET Message,
           NEW s, NEW t, Local(s, n, now, M),
           t.outbox = s.outbox, t.chain = s.chain, t.current_round = s.current_round,
           t.current_bucket = s.current_bucket,
           t \in NodeType(Sent(t, M)), SettlingInv(t, n, Sent(t, M))
    PROVE  Local(t, n, now, M)
<1>1. Sent(t, M) = Sent(s, M)
  BY DEF Sent
<1> QED
  BY <1>1 DEF Local, ClockInv, RoundInv

\* A step that extends the chain of n by certified blocks, or only changes what
\* the invariant does not read; it may empty the settling slot.
LEMMA ChainStep ==
    ASSUME NEW n \in Nodes, NEW now \in Nat, NEW M \in SUBSET Message,
           NEW s, NEW t, Local(s, n, now, M),
           t.outbox = s.outbox, t.current_round = s.current_round,
           t.current_bucket = s.current_bucket,
           t.settling = s.settling \/ t.settling = NoSettling,
           Below(s.chain, t.chain), ChainInv(t.chain, Sent(s, M)),
           t \in NodeType(Sent(s, M))
    PROVE  Local(t, n, now, M)
<1>1. Sent(t, M) = Sent(s, M)
  BY DEF Sent
<1>2. /\ s.chain \in Chain /\ t.chain \in Chain
      /\ s.current_round.prev \in Chain /\ s.settling.prev \in Chain
  BY DEF Local, NodeType, RoundType, SettlingType
<1>3. /\ Below(s.current_round.prev, s.chain) => Below(s.current_round.prev, t.chain)
      /\ Below(s.settling.prev, s.chain) => Below(s.settling.prev, t.chain)
  BY <1>2, BelowExtends
<1>4. RoundInv(t, n, Sent(t, M))
  BY <1>1, <1>3 DEF Local, RoundInv
<1>5. SettlingInv(t, n, Sent(t, M))
  BY <1>1, <1>3 DEF Local, SettlingInv, NoSettling
<1> QED
  BY <1>1, <1>4, <1>5 DEF Local, ClockInv

\* SettleRound.receive
LEMMA OnSettleSigLocal ==
    ASSUME NEW n \in Nodes, NEW now \in Nat, NEW M \in SUBSET Message, NEW s,
           Local(s, n, now, M), NEW m \in M, m.type = "SETTLE_SIG",
           m.bucket = s.settling.bucket, m.txs = s.settling.txs
    PROVE  Local(OnSettleSig(s, m), n, now, M)
<1> DEFINE g == s.settling
           h == [g EXCEPT !.sigs = @ \cup {m.frm}]
           t == [s EXCEPT !.settling = h]
<1>1. s \in NodeType(Sent(s, M)) /\ g \in SettlingType /\ m \in Message
  BY DEF Local, NodeType
<1> SUFFICES ASSUME g.state # "NONE", m.frm \in Roster(g.prev), m.prev = g.prev
             PROVE  Local(t, n, now, M)
  <2>1. [s EXCEPT !.settling.sigs = @ \cup {m.frm}] = t
    BY <1>1 DEF NodeType, SettlingType
  <2> QED
    BY <2>1 DEF OnSettleSig
<1>2. m.frm \in Nodes /\ m = SettleSig(m.frm, g.bucket, g.prev, g.txs)
  BY <1>1, MessageShape DEF Message, Broadcast
<1>3. /\ t.outbox = s.outbox /\ t.current_bucket = s.current_bucket
      /\ t.settling = h /\ t.chain = s.chain /\ t.current_round = s.current_round
  BY <1>1 DEF NodeType
<1>4. Sent(t, M) = Sent(s, M) /\ m \in Sent(s, M)
  BY <1>3 DEF Sent
<1>5. g.sigs \subseteq Settlers(g.prev, g.bucket, g.txs, Sent(s, M))
      /\ m.frm \in Settlers(g.prev, g.bucket, g.txs, Sent(s, M))
  BY <1>2, <1>4 DEF Local, SettlingInv, Settlers
<1> HIDE DEF g
<1>6. /\ h \in SettlingType /\ h.state = g.state /\ h.bucket = g.bucket
      /\ h.prev = g.prev /\ h.txs = g.txs /\ h.sigs = g.sigs \cup {m.frm}
  BY <1>1, <1>2 DEF SettlingType
<1> HIDE DEF h
<1>7. t \in NodeType(Sent(t, M))
  BY <1>1, <1>4, <1>6 DEF NodeType
<1>8. SettlingInv(t, n, Sent(t, M))
  BY <1>3, <1>4, <1>5, <1>6 DEF Local, SettlingInv, g
<1> QED
  BY <1>3, <1>7, <1>8, SettlingStep, Zenon

\* SettleRound.tick
LEMMA SettleTickLocal ==
    ASSUME NEW n \in Nodes, NEW now \in Nat, NEW M \in SUBSET Message, NEW s,
           Local(s, n, now, M)
    PROVE  Local(SettleTick(s, now), n, now, M)
<1> DEFINE g == s.settling
           h == [g EXCEPT !.state = "ABANDONED"]
           t == [s EXCEPT !.settling = h]
<1>1. s \in NodeType(Sent(s, M)) /\ g \in SettlingType
  BY DEF Local, NodeType
<1> SUFFICES ASSUME g.state # "NONE" PROVE Local(t, n, now, M)
  <2>1. [s EXCEPT !.settling.state = "ABANDONED"] = t
    BY <1>1 DEF NodeType, SettlingType
  <2> QED
    BY <2>1 DEF SettleTick
<1>2. /\ t.outbox = s.outbox /\ t.current_bucket = s.current_bucket
      /\ t.settling = h /\ t.chain = s.chain /\ t.current_round = s.current_round
  BY <1>1 DEF NodeType
<1>3. Sent(t, M) = Sent(s, M)
  BY <1>2 DEF Sent
<1> HIDE DEF g
<1>4. /\ h \in SettlingType /\ h.bucket = g.bucket
      /\ h.prev = g.prev /\ h.txs = g.txs /\ h.sigs = g.sigs
  BY <1>1 DEF SettlingType
<1> HIDE DEF h
<1>5. t \in NodeType(Sent(t, M))
  BY <1>1, <1>3, <1>4 DEF NodeType
<1>6. SettlingInv(t, n, Sent(t, M))
  BY <1>2, <1>3, <1>4 DEF Local, SettlingInv, g
<1> QED
  BY <1>2, <1>5, <1>6, SettlingStep, ZenonT(40)

\* _do_settle_abandoned
LEMMA DropSettlingLocal ==
    ASSUME NEW n \in Nodes, NEW now \in Nat, NEW M \in SUBSET Message, NEW s,
           Local(s, n, now, M)
    PROVE  Local([s EXCEPT !.settling = NoSettling], n, now, M)
<1> DEFINE t == [s EXCEPT !.settling = NoSettling]
<1>1. s \in NodeType(Sent(s, M)) /\ NoSettling \in SettlingType
  BY DEF Local, NodeType, NoSettling, SettlingType, Chain
<1>2. /\ t.outbox = s.outbox /\ t.current_bucket = s.current_bucket
      /\ t.settling = NoSettling /\ t.chain = s.chain /\ t.current_round = s.current_round
      /\ t \in NodeType(Sent(s, M))
  BY <1>1 DEF NodeType
<1>3. Sent(t, M) = Sent(s, M)
  BY <1>2 DEF Sent
<1>4. SettlingInv(t, n, Sent(t, M))
  BY <1>2 DEF SettlingInv, NoSettling
<1> QED
  BY <1>2, <1>3, <1>4, SettlingStep, Zenon

-----------------------------------------------------------------------------
(* Commits                                                                 *)

\* A settled block extends the chain its anchors were made on, with the
\* signatures of a quorum, or the chain stays as it is.
LEMMA CommitBlockChain ==
    ASSUME NEW n \in Nodes, NEW now \in Nat, NEW M \in SUBSET Message, NEW s,
           Local(s, n, now, M), HasSettled(s.settling)
    PROVE  /\ CommitBlock(s) \in Chain
           /\ Below(s.chain, CommitBlock(s))
           /\ ChainInv(CommitBlock(s), Sent(s, M))
<1> DEFINE g == s.settling
           x == [bucket |-> g.bucket, txs |-> g.txs]
           K == Sent(s, M)
           d == Append(s.chain, x)
<1>1. s.chain \in Chain /\ g \in SettlingType /\ ChainInv(s.chain, K)
  BY DEF Local, NodeType
<1>2. x \in Block /\ g.prev \in Chain /\ g.state = "COLLECTING"
      /\ Cardinality(g.sigs) >= QuorumOf(g.prev)
  BY <1>1 DEF SettlingType, Block, HasSettled
<1>3. /\ Below(g.prev, s.chain) /\ Ratified(g.prev, g.bucket, g.txs, K)
      /\ g.sigs \subseteq Settlers(g.prev, g.bucket, g.txs, K)
      /\ g.txs \cap Settled(g.prev) = {}
  BY <1>2 DEF Local, SettlingInv
<1>4. CASE Len(s.chain) > Len(g.prev)
  BY <1>1, <1>4, BelowAppend, <1>2 DEF CommitBlock
<1>5. CASE ~(Len(s.chain) > Len(g.prev))
  <2>1. g.prev = s.chain
    BY <1>1, <1>2, <1>3, <1>5 DEF Below, Chain
  <2>2. CommitBlock(s) = d
    BY <1>5 DEF CommitBlock
  <2>3. Cardinality(Settlers(g.prev, g.bucket, g.txs, K)) >= QuorumOf(g.prev)
    <3>1. IsFiniteSet(Settlers(g.prev, g.bucket, g.txs, K))
      BY RosterFinite, FS_Subset DEF Settlers
    <3>2. /\ Cardinality(g.sigs) <= Cardinality(Settlers(g.prev, g.bucket, g.txs, K))
          /\ Cardinality(g.sigs) \in Nat
          /\ Cardinality(Settlers(g.prev, g.bucket, g.txs, K)) \in Nat
      BY <1>3, <3>1, FS_Subset, FS_CardinalityType
    <3> QED
      BY <3>2, <1>2, RosterFinite
  <2> HIDE DEF x
  <2>4. /\ d \in Chain /\ DOMAIN d = DOMAIN s.chain \cup {Len(s.chain) + 1}
        /\ d[Len(s.chain) + 1] = x /\ Base(d, Len(s.chain) + 1) = s.chain
        /\ \A i \in DOMAIN s.chain : d[i] = s.chain[i] /\ Base(d, i) = Base(s.chain, i)
    BY <1>1, <1>2, BaseOfAppend
  <2>5. Below(s.chain, d)
    BY <1>1, <1>2, BelowAppend
  <2> HIDE DEF d
  <2>6. ASSUME NEW i \in DOMAIN s.chain PROVE BlockInv(d, i, K)
    BY <1>1, <2>4 DEF ChainInv, BlockInv
  <2>7. BlockInv(d, Len(s.chain) + 1, K)
    <3>1. x.bucket = g.bucket /\ x.txs = g.txs
      BY DEF x
    <3> QED
      BY <1>3, <2>1, <2>3, <2>4, <3>1 DEF BlockInv
  <2>8. ChainInv(d, K)
    BY <2>4, <2>6, <2>7 DEF ChainInv
  <2> QED
    BY <2>2, <2>4, <2>5, <2>8
<1> QED
  BY <1>4, <1>5

\* _check_settled
LEMMA CheckSettledLocal ==
    ASSUME NEW n \in Nodes, NEW now \in Nat, NEW M \in SUBSET Message, NEW s,
           Local(s, n, now, M)
    PROVE  Local(CheckSettled(s), n, now, M)
<1> SUFFICES ASSUME HasSettled(s.settling) PROVE Local(DoSettled(s), n, now, M)
  BY DropSettlingLocal DEF CheckSettled, FreeSettling
<1> DEFINE c == CommitBlock(s)
           u == Raise(s)
           v == Raise([s EXCEPT !.chain = c])
           left == s.mempool \ Settled(c)
           w == [s EXCEPT !.chain = c, !.mempool = left, !.settling = NoSettling]
<1>1. s \in NodeType(Sent(s, M)) /\ NoSettling \in SettlingType /\ s.chain \in Chain
      /\ ChainInv(s.chain, Sent(s, M))
  BY DEF Local, NodeType, NoSettling, SettlingType, Chain
<1>2. c \in Chain /\ Below(s.chain, c) /\ ChainInv(c, Sent(s, M))
  BY CommitBlockChain
<1>3. Below(s.chain, s.chain)
  BY <1>1 DEF Below, Chain
<1>4. DoSettled(s) \in {u, v, w} /\ left \in SUBSET Txs
  BY <1>1 DEF DoSettled, NodeType
<1> HIDE DEF c, left
<1>5. Local(u, n, now, M)
  <2>1. /\ u.outbox = s.outbox /\ u.current_bucket = s.current_bucket
        /\ u.settling = s.settling /\ u.chain = s.chain /\ u.current_round = s.current_round
        /\ u \in NodeType(Sent(s, M))
    BY <1>1, ZenonT(40) DEF NodeType, Raise
  <2> QED
    BY <1>1, <1>3, <2>1, ChainStep
<1>6. Local(v, n, now, M)
  <2>1. /\ v.outbox = s.outbox /\ v.current_bucket = s.current_bucket
        /\ v.settling = s.settling /\ v.chain = c /\ v.current_round = s.current_round
        /\ v \in NodeType(Sent(s, M))
    BY <1>1, <1>2, ZenonT(40) DEF NodeType, Raise
  <2> QED
    BY <1>2, <2>1, ChainStep
<1>7. Local(w, n, now, M)
  <2>1. /\ w.outbox = s.outbox /\ w.current_bucket = s.current_bucket
        /\ w.settling = NoSettling /\ w.chain = c /\ w.current_round = s.current_round
    BY <1>1 DEF NodeType
  <2>2. w \in NodeType(Sent(s, M))
    BY <1>1, <1>2, <1>4, Zenon DEF NodeType
  <2> HIDE DEF w
  <2> QED
    BY <1>2, <2>1, <2>2, ChainStep
<1> QED
  BY <1>4, <1>5, <1>6, <1>7

-----------------------------------------------------------------------------
(* Promotion                                                               *)

\* The members that agree in a round have signed its slice.
LEMMA AgreeingRatify ==
    ASSUME NEW n \in Nodes, NEW M \in SUBSET Message, NEW s,
           s \in NodeType(M), RoundInv(s, n, M), s.current_round.state = "GONE"
    PROVE  Ratified(s.current_round.prev, s.current_round.bucket, s.current_round.slice, M)
<1> DEFINE r == s.current_round
<1>1. r.sigs \subseteq M /\ n \in Roster(r.prev) /\ Cardinality(Agreeing(r)) >= QuorumOf(r.prev)
      /\ \A m \in r.sigs : /\ m.type = "SIG" /\ m.bucket = r.bucket
                           /\ m.prev = r.prev /\ m.frm \in Roster(r.prev)
  BY DEF NodeType, RoundType, RoundInv
<1> HIDE DEF r
<1>2. Agreeing(r) \subseteq Ratifiers(r.prev, r.bucket, r.slice, M)
  <2> SUFFICES ASSUME NEW m \in r.sigs, m.txs = r.slice
               PROVE  m.frm \in Ratifiers(r.prev, r.bucket, r.slice, M)
    BY DEF Agreeing
  <2>1. m = Sig(m.frm, r.bucket, r.prev, r.slice)
    BY <1>1, MessageShape
  <2> QED
    BY <1>1, <2>1 DEF Ratifiers
<1>3. IsFiniteSet(Ratifiers(r.prev, r.bucket, r.slice, M))
  BY RosterFinite, FS_Subset DEF Ratifiers
<1>4. /\ Cardinality(Agreeing(r)) <= Cardinality(Ratifiers(r.prev, r.bucket, r.slice, M))
      /\ Cardinality(Agreeing(r)) \in Nat
      /\ Cardinality(Ratifiers(r.prev, r.bucket, r.slice, M)) \in Nat
  BY <1>2, <1>3, FS_Subset, FS_CardinalityType
<1>5. Cardinality(Ratifiers(r.prev, r.bucket, r.slice, M)) >= QuorumOf(r.prev)
  BY <1>1, <1>4, RosterFinite
<1> QED
  BY <1>1, <1>5 DEF Ratified, r

\* _promote_to_settling: the first anchors n signs for the bucket.
LEMMA PromoteLocal ==
    ASSUME NEW n \in Nodes, NEW now \in Nat, NEW M \in SUBSET Message, NEW s,
           Local(s, n, now, M), s.current_round.state = "GONE"
    PROVE  Local(Promote(s, n), n, now, M)
<1> DEFINE r    == s.current_round
           mine == SettleSig(n, r.bucket, r.prev, r.slice)
           g    == [state |-> "COLLECTING", bucket |-> r.bucket, prev |-> r.prev,
                    txs |-> r.slice, sigs |-> {n}]
           u    == [s EXCEPT !.current_round = NoRound]
           t    == [s EXCEPT !.current_round = NoRound, !.settling = g,
                             !.outbox = @ \cup {mine}]
           K    == Sent(s, M)
<1>1. /\ s \in NodeType(K) /\ r \in RoundType(K) /\ s.outbox \in SUBSET Message
      /\ r.bucket \in Nat /\ r.prev \in Chain /\ r.slice \in SUBSET Txs /\ s.chain \in Chain
      /\ s.current_bucket \in Nat
  BY DEF Local, NodeType, RoundType
<1>2. Promote(s, n) \in {u, t}
  BY DEF Promote
<1>3. Local(u, n, now, M)
  BY EmptyRoundLocal
<1>4. Local(t, n, now, M)
  <2>1. /\ r.bucket < s.current_bucket /\ SettleSignedBelow(n, K, r.bucket)
        /\ n \in Roster(r.prev) /\ Below(r.prev, s.chain)
        /\ r.slice \cap Settled(r.prev) = {}
    BY DEF Local, RoundInv
  <2>2. Ratified(r.prev, r.bucket, r.slice, K)
    <3>1. K \in SUBSET Message
      BY <1>1 DEF Sent
    <3> QED
      BY <3>1, AgreeingRatify DEF Local
  <2>3. /\ mine \in Message /\ mine.frm = n /\ mine.type = "SETTLE_SIG"
        /\ mine.bucket = r.bucket
    BY <1>1, MessagesTyped DEF SettleSig
  <2>4. /\ g \in SettlingType /\ g.state = "COLLECTING" /\ g.bucket = r.bucket
        /\ g.prev = r.prev /\ g.txs = r.slice /\ g.sigs = {n}
    BY <1>1 DEF SettlingType
  <2>5. {n} \subseteq Settlers(r.prev, r.bucket, r.slice, K \cup {mine})
    BY <2>1 DEF Settlers
  <2>6. NoRound \in RoundType(K \cup {mine}) /\ NoRound.state = "NONE" /\ NoRound.sigs = {}
    BY DEF NoRound, RoundType, Chain
  <2> HIDE DEF mine, g, r
  <2>7. /\ t.outbox = s.outbox \cup {mine} /\ t.current_bucket = s.current_bucket
        /\ t.settling = g /\ t.chain = s.chain /\ t.current_round = NoRound
    BY <1>1 DEF NodeType
  <2>8. t \in NodeType(K \cup {mine})
    BY <1>1, <2>3, <2>4, <2>6, Zenon DEF NodeType
  <2> HIDE DEF t
  <2>9. Sent(t, M) = K \cup {mine}
    BY <2>7 DEF Sent
  <2>10. \A m \in K : m.bucket \in Nat
    BY <1>1 DEF Sent, Message, Broadcast
  <2>11. SignedOnce(n, K \cup {mine})
    <3>1. SignedOnce(n, K)
      BY DEF Local
    <3>2. \A m \in K : m.frm = n /\ m.type = "SETTLE_SIG" => m.bucket # r.bucket
      BY <1>1, <2>1, <2>10 DEF SettleSignedBelow
    <3> HIDE DEF K
    <3> QED
      BY <3>1, <3>2, <2>3 DEF SignedOnce
  <2>12. ClockInv(t, n, now, K \cup {mine})
    <3>1. SignedBelow(n, K, s.current_bucket) /\ s.current_bucket <= BucketOf(now)
      BY DEF Local, ClockInv
    <3>2. SignedBelow(n, K \cup {mine}, s.current_bucket)
      BY <3>1, <2>1, <2>3 DEF SignedBelow
    <3> QED
      BY <3>1, <3>2, <2>7 DEF ClockInv
  <2>13. RoundInv(t, n, K \cup {mine})
    BY <2>6, <2>7 DEF RoundInv
  <2>14. SettlingInv(t, n, K \cup {mine})
    BY <2>1, <2>2, <2>4, <2>5, <2>7, CertificatesGrow, SMTT(30) DEF SettlingInv
  <2>15. ChainInv(t.chain, K \cup {mine})
    BY <2>7, ChainInvGrows DEF Local
  <2>16. \A m \in t.outbox : m.frm = n
    BY <2>3, <2>7 DEF Local
  <2> QED
    BY <2>8, <2>9, <2>11, <2>12, <2>13, <2>14, <2>15, <2>16 DEF Local
<1> QED
  BY <1>2, <1>3, <1>4

\* _check_ratified
LEMMA CheckRatifiedLocal ==
    ASSUME NEW n \in Nodes, NEW now \in Nat, NEW M \in SUBSET Message, NEW s,
           Local(s, n, now, M)
    PROVE  Local(CheckRatified(s, n), n, now, M)
BY PromoteLocal DEF CheckRatified

\* _catch_up
LEMMA CatchUpLocal ==
    ASSUME NEW n \in Nodes, NEW now \in Nat, NEW M \in SUBSET Message, NEW s,
           Local(s, n, now, M), NEW behind
    PROVE  Local(CatchUp(s, n, now, behind), n, now, M)
<1> DEFINE settled == CheckSettled(SettleTick(s, now))
           ticked  == DropAbandoned(RoundTick(settled, n, now))
<1>1. Local(settled, n, now, M)
  BY SettleTickLocal, CheckSettledLocal
<1>2. Local(RoundTick(settled, n, now), n, now, M)
  BY <1>1, RoundTickLocal
<1>3. Local(ticked, n, now, M)
  BY <1>2, DropAbandonedLocal
<1>4. Local(CheckRatified(ticked, n), n, now, M)
  BY <1>3, CheckRatifiedLocal
<1>5. Local(CloseCurrentBucket(CheckRatified(ticked, n), n, now, behind), n, now, M)
  BY <1>4, CloseCurrentBucketLocal
<1> QED
  BY <1>5 DEF CatchUp
=============================================================================
