--------------------------- MODULE ConsensusProofs ---------------------------
(***************************************************************************)
(* Proofs of the safety properties of Consensus: the steps and the         *)
(* theorems.  The helpers are in ConsensusLemmas.                          *)
(***************************************************************************)
EXTENDS ConsensusLemmas

-----------------------------------------------------------------------------
(* From a node's handler to a step of the system                           *)

\* More messages sent leave every record well typed.
LEMMA TypesGrow ==
    ASSUME NEW M, NEW K, M \subseteq K, NEW s \in NodeType(M)
    PROVE  s \in NodeType(K)
<1>1. RoundType(M) \subseteq RoundType(K)
  BY DEF RoundType
<1> QED
  BY <1>1 DEF NodeType

\* The messages that other nodes send do not disturb the invariant of n.
LEMMA OthersSend ==
    ASSUME NEW n \in Nodes, NEW now \in Nat, NEW M, NEW s, Local(s, n, now, M),
           NEW O, \A m \in O : m.frm # n
    PROVE  Local(s, n, now, M \cup O)
<1> DEFINE K == Sent(s, M)
           L == Sent(s, M \cup O)
<1>1. L = K \cup O
  BY DEF Sent
<1>2. s \in NodeType(L)
  BY <1>1, TypesGrow, Zenon DEF Local
<1>3. /\ \A b : SignedBelow(n, K, b) => SignedBelow(n, L, b)
      /\ \A b : SettleSignedBelow(n, K, b) => SettleSignedBelow(n, L, b)
      /\ SignedOnce(n, K) => SignedOnce(n, L)
  BY <1>1, Zenon DEF SignedBelow, SettleSignedBelow, SignedOnce
<1>4. SettlingInv(s, n, L) /\ ChainInv(s.chain, L)
  BY <1>1, SettlingInvGrows, ChainInvGrows, Zenon DEF Local
<1> HIDE DEF K, L
<1>5. ClockInv(s, n, now, L)
  BY <1>3 DEF Local, ClockInv, K
<1>6. RoundInv(s, n, L)
  BY <1>3 DEF Local, RoundInv, K
<1>7. SignedOnce(n, L)
  BY <1>3 DEF Local, K
<1> QED
  BY <1>2, <1>4, <1>5, <1>6, <1>7 DEF Local, L

\* A node whose outbox was flushed.
LEMMA FlushLocal ==
    ASSUME NEW n \in Nodes, NEW now \in Nat, NEW M, NEW s, Local(s, n, now, M)
    PROVE  Local([s EXCEPT !.outbox = {}], n, now, M \cup s.outbox)
<1> DEFINE t == [s EXCEPT !.outbox = {}]
           K == Sent(s, M)
<1>1. /\ s \in NodeType(K)
  BY DEF Local
<1>2. /\ t.outbox = {} /\ t.current_bucket = s.current_bucket
      /\ t.settling = s.settling /\ t.chain = s.chain /\ t.current_round = s.current_round
      /\ t \in NodeType(K)
  BY <1>1 DEF NodeType
<1> HIDE DEF t
<1>3. Sent(t, M \cup s.outbox) = K
  BY <1>2 DEF Sent
<1> QED
  BY <1>2, <1>3, Zenon DEF Local, ClockInv, RoundInv, SettlingInv, t

\* A step of one node that keeps that node's invariant keeps all of it.
LEMMA NodeStep ==
    ASSUME IInv, NEW n \in Nodes, NEW t, NEW O \in SUBSET Message,
           node' = [node EXCEPT ![n] = t], msgs' = msgs \cup O, clock' = clock,
           crashes' \in Nat, t.outbox = {}, \A m \in O : m.frm = n,
           Local(t, n, clock[n], msgs \cup O)
    PROVE  IInv'
<1>1. /\ node \in [Nodes -> NodeType(msgs)] /\ \A k \in Nodes : node[k].outbox = {}
      /\ clock \in [Nodes -> Nat] /\ msgs \in SUBSET Message
      /\ \A k \in Nodes : Local(node[k], k, clock[k], msgs)
  BY DEF IInv, TypeOK
<1>2. t \in NodeType(msgs')
  BY DEF Local, Sent
<1>3. \A k \in Nodes : node[k] \in NodeType(msgs')
  BY <1>1, TypesGrow
<1>4. node' \in [Nodes -> NodeType(msgs')]
  BY <1>1, <1>2, <1>3, Zenon
<1>5. \A k \in Nodes : node'[k].outbox = {}
  BY <1>1
<1>6. TypeOK'
  BY <1>1, <1>4, <1>5, ZenonT(40) DEF TypeOK
<1>7. ASSUME NEW k \in Nodes PROVE Local(node'[k], k, clock'[k], msgs')
  <2>1. CASE k = n
    BY <1>1, <2>1
  <2>2. CASE k # n
    <3>1. \A m \in O : m.frm # k
      BY <2>2
    <3>2. clock[k] \in Nat /\ Local(node[k], k, clock[k], msgs)
      BY <1>1
    <3>3. Local(node[k], k, clock[k], msgs \cup O)
      BY <3>1, <3>2, OthersSend, ZenonT(40)
    <3> QED
      BY <1>1, <2>2, <3>3
  <2> QED
    BY <2>1, <2>2
<1> QED
  BY <1>6, <1>7, Zenon DEF IInv

\* The same for a step that sends nothing.
LEMMA SilentStep ==
    ASSUME IInv, NEW n \in Nodes, NEW t,
           node' = [node EXCEPT ![n] = t], msgs' = msgs, clock' = clock,
           crashes' \in Nat, t.outbox = {}, Local(t, n, clock[n], msgs)
    PROVE  IInv'
<1> DEFINE O == {}
<1>1. O \in SUBSET Message /\ (\A m \in O : m.frm = n) /\ msgs \cup O = msgs
  OBVIOUS
<1> HIDE DEF O
<1> QED
  BY <1>1, NodeStep, Zenon

\* A handler whose last state keeps the node's invariant.
LEMMA FinishInv ==
    ASSUME IInv, NEW n \in Nodes, NEW s, Local(s, n, clock[n], msgs), Finish(n, s)
    PROVE  IInv'
<1> DEFINE t == [s EXCEPT !.outbox = {}]
<1>1. /\ node' = [node EXCEPT ![n] = t] /\ msgs' = msgs \cup s.outbox
      /\ clock' = clock /\ crashes' = crashes
  BY DEF Finish
<1>2. clock[n] \in Nat /\ crashes \in Nat /\ msgs \in SUBSET Message
  BY DEF IInv, TypeOK
<1>3. s.outbox \in SUBSET Message /\ (\A m \in s.outbox : m.frm = n) /\ t.outbox = {}
  BY DEF Local, NodeType
<1>4. Local(t, n, clock[n], msgs \cup s.outbox)
  BY <1>2, FlushLocal
<1> HIDE DEF t
<1> QED
  BY <1>1, <1>2, <1>3, <1>4, NodeStep, ZenonT(40)

\* What the steps use of IInv about the node that takes them.
LEMMA NodeFacts ==
    ASSUME IInv, NEW n \in Nodes
    PROVE  /\ Local(node[n], n, clock[n], msgs) /\ clock[n] \in Nat
           /\ msgs \in SUBSET Message /\ crashes \in Nat
           /\ node[n] \in NodeType(msgs) /\ node[n].outbox = {}
BY DEF IInv, TypeOK

\* A message handler starts from a state in order.
LEMMA CaughtUpLocal ==
    ASSUME IInv, NEW n \in Nodes, NEW behind
    PROVE  Local(CaughtUp(n, behind), n, clock[n], msgs)
BY NodeFacts, CatchUpLocal DEF CaughtUp

-----------------------------------------------------------------------------
(* The steps                                                               *)

\* _on_round_msg for a HELD keeps the invariant.
LEMMA ReceiveHeldInv ==
    ASSUME IInv, NEW n \in Nodes, NEW m \in msgs, ReceiveHeld(n, m)
    PROVE  IInv'
<1>1. PICK behind \in Behind(n) :
          \E s \in {CaughtUp(n, behind)} : \E push \in Elections(s.current_round, m) :
              Finish(n, TakeHeld(s, n, m, push))
  BY DEF ReceiveHeld
<1> DEFINE s == CaughtUp(n, behind)
<1>2. PICK push \in Elections(s.current_round, m) : Finish(n, TakeHeld(s, n, m, push))
  BY <1>1
<1>3. Local(s, n, clock[n], msgs)
  BY CaughtUpLocal
<1> HIDE DEF s
<1>4. push \in SUBSET s.current_round.bodies
  BY DEF Elections, Gap
<1>5. Local(OnHeld(s, n, m, push), n, clock[n], msgs)
  BY <1>3, <1>4, NodeFacts, OnHeldLocal
<1>6. Local(TakeHeld(s, n, m, push), n, clock[n], msgs)
  BY <1>3, <1>5, NodeFacts, CheckRatifiedLocal DEF TakeHeld
<1> QED
  BY <1>2, <1>6, FinishInv

\* _on_round_msg for a BODIES keeps the invariant.
LEMMA ReceiveBodiesInv ==
    ASSUME IInv, NEW n \in Nodes, NEW m \in msgs, ReceiveBodies(n, m)
    PROVE  IInv'
<1>1. PICK behind \in Behind(n) : Finish(n, TakeBodies(CaughtUp(n, behind), n, m))
  BY DEF ReceiveBodies
<1> DEFINE s == CaughtUp(n, behind)
<1>2. Finish(n, TakeBodies(s, n, m))
  BY <1>1
<1>3. Local(s, n, clock[n], msgs)
  BY CaughtUpLocal
<1> HIDE DEF s
<1>4. Local(TakeBodies(s, n, m), n, clock[n], msgs)
  BY <1>3, NodeFacts, AbsorbLocal, CheckRatifiedLocal DEF TakeBodies
<1> QED
  BY <1>2, <1>4, FinishInv

\* _on_round_msg for a SIG keeps the invariant.
LEMMA ReceiveSigInv ==
    ASSUME IInv, NEW n \in Nodes, NEW m \in msgs, ReceiveSig(n, m)
    PROVE  IInv'
<1>1. PICK behind \in Behind(n) : Finish(n, TakeSig(CaughtUp(n, behind), n, m))
  BY DEF ReceiveSig
<1> DEFINE s == CaughtUp(n, behind)
<1>2. Finish(n, TakeSig(s, n, m)) /\ m.type = "SIG"
  BY <1>1 DEF ReceiveSig
<1>3. Local(s, n, clock[n], msgs)
  BY CaughtUpLocal
<1> HIDE DEF s
<1>4. ASSUME ForRound(s, m)
      PROVE  Local(CheckRatified(OnSig(s, m), n), n, clock[n], msgs)
  BY <1>2, <1>3, <1>4, NodeFacts, OnSigLocal, CheckRatifiedLocal
<1>5. Local(TakeSig(s, n, m), n, clock[n], msgs)
  BY <1>3, <1>4 DEF TakeSig
<1> QED
  BY <1>2, <1>5, FinishInv

\* _on_settle_msg keeps the invariant.
LEMMA ReceiveSettleSigInv ==
    ASSUME IInv, NEW n \in Nodes, NEW m \in msgs, ReceiveSettleSig(n, m)
    PROVE  IInv'
<1>1. PICK behind \in Behind(n) : Finish(n, TakeSettleSig(CaughtUp(n, behind), m))
  BY DEF ReceiveSettleSig
<1> DEFINE s == CaughtUp(n, behind)
<1>2. Finish(n, TakeSettleSig(s, m)) /\ m.type = "SETTLE_SIG"
  BY <1>1 DEF ReceiveSettleSig
<1>3. Local(s, n, clock[n], msgs)
  BY CaughtUpLocal
<1> HIDE DEF s
<1>4. ASSUME s.settling.bucket = m.bucket, s.settling.txs = m.txs
      PROVE  Local(CheckSettled(OnSettleSig(s, m)), n, clock[n], msgs)
  <2>1. Local(OnSettleSig(s, m), n, clock[n], msgs)
    BY <1>2, <1>3, <1>4, NodeFacts, OnSettleSigLocal
  <2> QED
    BY <2>1, NodeFacts, CheckSettledLocal
<1>5. Local(TakeSettleSig(s, m), n, clock[n], msgs)
  BY <1>3, <1>4 DEF TakeSettleSig
<1> QED
  BY <1>2, <1>5, FinishInv

\* The timers RoundClose and BucketTick keep the invariant.
LEMMA TimersInv ==
    ASSUME IInv, NEW n \in Nodes, RoundClose(n) \/ BucketTick(n)
    PROVE  IInv'
<1>1. CASE RoundClose(n)
  <2>1. Finish(n, CheckRatified(RoundTick(node[n], n, clock[n]), n))
    BY <1>1 DEF RoundClose
  <2>2. Local(CheckRatified(RoundTick(node[n], n, clock[n]), n), n, clock[n], msgs)
    BY NodeFacts, RoundTickLocal, CheckRatifiedLocal
  <2> QED
    BY <2>1, <2>2, FinishInv
<1>2. CASE BucketTick(n)
  <2>1. PICK behind : Finish(n, CloseCurrentBucket(node[n], n, clock[n], behind))
    BY <1>2 DEF BucketTick
  <2>2. Local(CloseCurrentBucket(node[n], n, clock[n], behind), n, clock[n], msgs)
    BY NodeFacts, CloseCurrentBucketLocal
  <2> QED
    BY <2>1, <2>2, FinishInv
<1> QED
  BY <1>1, <1>2

\* _on_round_abandon keeps the invariant: after the cut a tick sends nothing,
\* so nothing is lost with the outbox of the round.
LEMMA RoundAbandonInv ==
    ASSUME IInv, NEW n \in Nodes, RoundAbandon(n)
    PROVE  IInv'
<1> DEFINE u == RoundTick(node[n], n, clock[n])
           s == DropAbandoned(u)
           t == [s EXCEPT !.outbox = {}]
<1>1. Finish(n, t) /\ node[n].current_round.state # "COLLECT"
  BY DEF RoundAbandon
<1>2. node[n] \in NodeType(msgs) /\ node[n].outbox = {}
  BY NodeFacts
<1>3. Local(u, n, clock[n], msgs) /\ Local(s, n, clock[n], msgs)
  BY NodeFacts, RoundTickLocal, DropAbandonedLocal
<1>4. u.outbox = {}
  BY <1>1, <1>2 DEF RoundTick, AbandonLate, NodeType
<1>5. s.outbox = {}
  <2> HIDE DEF u
  <2> QED
    BY <1>3, <1>4 DEF DropAbandoned, Local, NodeType
<1>6. t = s
  BY <1>3, <1>5 DEF Local, NodeType
<1> HIDE DEF s, t
<1> QED
  BY <1>1, <1>3, <1>6, FinishInv

\* _on_settle_abandon_event keeps the invariant.
LEMMA SettleAbandonInv ==
    ASSUME IInv, NEW n \in Nodes, SettleAbandon(n)
    PROVE  IInv'
<1> DEFINE s == SettleTick(node[n], clock[n])
<1>1. Finish(n, s) \/ Finish(n, [s EXCEPT !.settling = NoSettling])
  BY DEF SettleAbandon, FreeSettling
<1>2. Local(s, n, clock[n], msgs)
  BY NodeFacts, SettleTickLocal
<1> HIDE DEF s
<1>3. Local([s EXCEPT !.settling = NoSettling], n, clock[n], msgs)
  BY <1>2, NodeFacts, DropSettlingLocal
<1> QED
  BY <1>1, <1>2, <1>3, FinishInv

\* Submit keeps the invariant.
LEMMA SubmitInv ==
    ASSUME IInv, NEW n \in Nodes, NEW x \in Txs, Submit(n, x)
    PROVE  IInv'
<1> DEFINE s == node[n]
           t == [s EXCEPT !.mempool = @ \cup {x}]
<1>1. /\ Local(s, n, clock[n], msgs) /\ clock[n] \in Nat /\ msgs \in SUBSET Message
      /\ crashes \in Nat /\ s \in NodeType(msgs) /\ s.outbox = {}
  BY NodeFacts
<1>2. node' = [node EXCEPT ![n] = t] /\ msgs' = msgs /\ clock' = clock
      /\ crashes' = crashes
  BY DEF Submit
<1>3. /\ t.outbox = {} /\ t.current_bucket = s.current_bucket
      /\ t.settling = s.settling /\ t.chain = s.chain /\ t.current_round = s.current_round
      /\ t \in NodeType(msgs)
  BY <1>1 DEF NodeType
<1>4. Sent(s, msgs) = msgs /\ Below(s.chain, s.chain) /\ ChainInv(s.chain, msgs)
  BY <1>1 DEF Sent, Below, Local, NodeType, Chain
<1> HIDE DEF t, s
<1>5. Local(t, n, clock[n], msgs)
  BY <1>1, <1>3, <1>4, ChainStep
<1> QED
  BY <1>1, <1>2, <1>3, <1>5, SilentStep, Zenon

\* A prefix of a chain is certified as the chain is.
LEMMA PrefixInv ==
    ASSUME NEW c \in Chain, NEW M, ChainInv(c, M), NEW k \in 0..Len(c)
    PROVE  ChainInv(SubSeq(c, 1, k), M)
<1>1. /\ DOMAIN SubSeq(c, 1, k) = 1..k /\ 1..k \subseteq DOMAIN c
      /\ \A i \in 1..k : /\ SubSeq(c, 1, k)[i] = c[i]
                         /\ Base(SubSeq(c, 1, k), i) = Base(c, i)
  BY BaseOfPrefix DEF Chain
<1> QED
  BY <1>1 DEF ChainInv, BlockInv

\* Follower._adopt keeps the invariant: the blocks come from a certified chain.
LEMMA AdoptInv ==
    ASSUME IInv, NEW n \in Nodes, NEW p \in Nodes, NEW num \in 1..Len(node[p].chain),
           Adopt(n, p, num)
    PROVE  IInv'
<1> DEFINE s == node[n]
           c == SubSeq(node[p].chain, 1, num)
           t == [s EXCEPT !.chain = c]
<1>1. /\ Local(s, n, clock[n], msgs) /\ clock[n] \in Nat /\ msgs \in SUBSET Message
      /\ crashes \in Nat /\ s \in NodeType(msgs) /\ s.outbox = {} /\ s.chain \in Chain
  BY NodeFacts DEF NodeType
<1>2. node[p].chain \in Chain /\ ChainInv(node[p].chain, msgs)
  <2>1. Local(node[p], p, clock[p], msgs) /\ node[p] \in NodeType(msgs) /\ node[p].outbox = {}
    BY NodeFacts
  <2> QED
    BY <2>1 DEF Local, Sent, NodeType
<1>3. node' = [node EXCEPT ![n] = t] /\ msgs' = msgs /\ clock' = clock
      /\ crashes' = crashes
  BY DEF Adopt
<1>4. SubSeq(c, 1, Len(s.chain)) = s.chain /\ num >= Len(s.chain) + 1
  BY DEF Adopt
<1>5. c \in Chain /\ Len(c) = num /\ ChainInv(c, msgs)
  BY <1>2, BaseOfPrefix, PrefixInv DEF Chain
<1> HIDE DEF c
<1>6. Below(s.chain, c)
  BY <1>1, <1>4, <1>5 DEF Below, Chain
<1>7. /\ t.outbox = {} /\ t.current_bucket = s.current_bucket
      /\ t.settling = s.settling /\ t.chain = c /\ t.current_round = s.current_round
      /\ t \in NodeType(msgs)
  BY <1>1, <1>5 DEF NodeType
<1>8. Sent(s, msgs) = msgs
  BY <1>1 DEF Sent
<1> HIDE DEF t, s
<1>9. Local(t, n, clock[n], msgs)
  BY <1>1, <1>5, <1>6, <1>7, <1>8, ChainStep, ZenonT(40)
<1> QED
  BY <1>1, <1>3, <1>7, <1>9, SilentStep, Zenon

\* A process that has just started has nothing in flight, and its clock is past
\* every bucket it signed for in earlier lives.
LEMMA StartedLocal ==
    ASSUME IInv, NEW n \in Nodes, NEW up \in BOOLEAN, NEW fault \in BOOLEAN
    PROVE  LET t == Started(node[n].chain, clock[n], up, fault)
           IN  t.outbox = {} /\ Local(t, n, clock[n], msgs)
<1> DEFINE s == node[n]
           t == Started(s.chain, clock[n], up, fault)
<1>1. /\ Local(s, n, clock[n], msgs) /\ clock[n] \in Nat /\ msgs \in SUBSET Message
      /\ s \in NodeType(msgs) /\ s.outbox = {} /\ s.chain \in Chain
      /\ s.current_bucket \in Nat
  BY NodeFacts DEF NodeType
<1>2. Sent(s, msgs) = msgs
  BY <1>1 DEF Sent
<1>3. /\ SignedOnce(n, msgs) /\ SignedBelow(n, msgs, s.current_bucket)
      /\ s.current_bucket <= BucketOf(clock[n]) /\ ChainInv(s.chain, msgs)
  BY <1>1, <1>2 DEF Local, ClockInv
<1>4. BucketOf(clock[n]) \in Nat
  BY <1>1, BucketMonotone
<1>5. /\ t.outbox = {} /\ t.current_bucket = BucketOf(clock[n])
      /\ t.settling = NoSettling /\ t.chain = s.chain /\ t.current_round = NoRound
  BY DEF Started
<1>6. t \in NodeType(msgs)
  <2>1. NoRound \in RoundType(msgs) /\ NoSettling \in SettlingType
    BY DEF NoRound, RoundType, NoSettling, SettlingType, Chain
  <2> QED
    BY <1>1, <1>4, <2>1 DEF Started, NodeType
<1> HIDE DEF t
<1>7. Sent(t, msgs) = msgs
  BY <1>5 DEF Sent
<1>8. ClockInv(t, n, clock[n], msgs)
  <2>1. \A m \in msgs : m.bucket \in Nat
    BY <1>1 DEF Message, Broadcast
  <2> QED
    BY <1>1, <1>3, <1>4, <1>5, <2>1 DEF ClockInv, SignedBelow
<1>9. RoundInv(t, n, msgs) /\ SettlingInv(t, n, msgs)
  BY <1>5 DEF RoundInv, SettlingInv, NoRound, NoSettling
<1>10. Local(t, n, clock[n], msgs)
  BY <1>3, <1>5, <1>6, <1>7, <1>8, <1>9 DEF Local
<1> QED
  BY <1>5, <1>10 DEF t

\* Crash and Restart keep the invariant.
LEMMA CrashInv ==
    ASSUME IInv, NEW n \in Nodes, Crash(n) \/ Restart(n)
    PROVE  IInv'
<1> DEFINE S(up) == Started(node[n].chain, clock[n], up, node[n].fault)
<1>1. node[n].fault \in BOOLEAN /\ crashes \in Nat
  BY NodeFacts DEF NodeType
<1>2. \A up \in BOOLEAN : S(up).outbox = {} /\ Local(S(up), n, clock[n], msgs)
  BY <1>1, StartedLocal
<1>3. \E up \in BOOLEAN : node' = [node EXCEPT ![n] = S(up)]
  <2>2. CASE Crash(n)
    <3>1. node' = [node EXCEPT ![n] = S(FALSE)]
      BY <2>2 DEF Crash
    <3> HIDE DEF S
    <3> QED
      BY <3>1, Zenon
  <2>3. CASE Restart(n)
    <3>1. node' = [node EXCEPT ![n] = S(TRUE)]
      BY <2>3 DEF Restart
    <3> HIDE DEF S
    <3> QED
      BY <3>1, Zenon
  <2> QED
    BY <2>2, <2>3
<1>4. msgs' = msgs /\ clock' = clock /\ crashes' \in Nat
  <2>1. msgs' = msgs /\ clock' = clock /\ (crashes' = crashes + 1 \/ crashes' = crashes)
    BY Zenon DEF Crash, Restart
  <2> QED
    BY <1>1, <2>1
<1> HIDE DEF S
<1>5. PICK up \in BOOLEAN : node' = [node EXCEPT ![n] = S(up)]
  BY <1>3, Zenon
<1> DEFINE t == S(up)
<1>6. t.outbox = {} /\ Local(t, n, clock[n], msgs) /\ node' = [node EXCEPT ![n] = t]
  BY <1>2, <1>5
<1> HIDE DEF t
<1> QED
  BY <1>4, <1>6, SilentStep, Zenon

\* Time passes at one node, and no bucket it signed for is ahead of its clock.
LEMMA TickInv ==
    ASSUME IInv, NEW n \in Nodes, Tick(n)
    PROVE  IInv'
<1>1. /\ node' = node /\ msgs' = msgs /\ crashes' = crashes
      /\ clock' = [clock EXCEPT ![n] = @ + 1]
  BY DEF Tick
<1>2. TypeOK /\ clock \in [Nodes -> Nat]
  BY DEF IInv, TypeOK
<1>3. clock' \in [Nodes -> Nat] /\ \A k \in Nodes : clock[k] <= clock'[k]
  BY <1>1, <1>2
<1>4. TypeOK'
  BY <1>1, <1>2, <1>3 DEF TypeOK
<1>5. ASSUME NEW k \in Nodes PROVE Local(node[k], k, clock'[k], msgs)
  <2>1. /\ BucketOf(clock[k]) \in Nat /\ BucketOf(clock'[k]) \in Nat
        /\ BucketOf(clock[k]) <= BucketOf(clock'[k])
    BY <1>2, <1>3, BucketMonotone
  <2>2. node[k].current_bucket \in Nat /\ Local(node[k], k, clock[k], msgs)
    BY NodeFacts DEF NodeType
  <2>3. ClockInv(node[k], k, clock'[k], Sent(node[k], msgs))
    BY <2>1, <2>2 DEF Local, ClockInv
  <2> QED
    BY <2>2, <2>3 DEF Local
<1> QED
  BY <1>1, <1>4, <1>5 DEF IInv

-----------------------------------------------------------------------------
(* Theorems                                                                *)

\* The invariant holds when the cluster starts.
LEMMA InitInv == Init => IInv
<1> SUFFICES ASSUME Init PROVE IInv
  OBVIOUS
<1> DEFINE now == BlockTime - 1
<1>1. now \in Nat /\ BucketOf(now) \in Nat
  BY TimeAssumption, BucketMonotone
<1>2. NoRound \in RoundType({}) /\ NoSettling \in SettlingType /\ <<>> \in Chain
  BY DEF NoRound, RoundType, NoSettling, SettlingType, Chain
<1>3. ASSUME NEW n \in Nodes
      PROVE  /\ node[n] \in NodeType({}) /\ node[n].outbox = {}
             /\ node[n].current_bucket = BucketOf(now)
             /\ node[n].settling = NoSettling /\ node[n].chain = <<>>
             /\ node[n].current_round = NoRound
  <2>1. node[n] = Started(<<>>, now, n \notin Down, FALSE)
    BY DEF Init
  <2>2. (n \notin Down) \in BOOLEAN
    OBVIOUS
  <2> HIDE DEF now
  <2> QED
    BY <1>1, <1>2, <2>1, <2>2 DEF Started, NodeType
<1>4. msgs = {} /\ clock = [n \in Nodes |-> now] /\ crashes = 0
  BY DEF Init
<1>5. node \in [Nodes -> NodeType({})]
  BY <1>3, Zenon DEF Init
<1>6. TypeOK
  BY <1>1, <1>3, <1>4, <1>5 DEF TypeOK
<1>7. ASSUME NEW n \in Nodes PROVE Local(node[n], n, clock[n], msgs)
  <2>1. clock[n] = now /\ Sent(node[n], msgs) = {}
    BY <1>3, <1>4 DEF Sent
  <2> HIDE DEF now
  <2>2. ClockInv(node[n], n, now, {}) /\ SignedOnce(n, {})
    BY <1>1, <1>3 DEF ClockInv, SignedBelow, SignedOnce
  <2>3. /\ node[n].current_round.state = "NONE" /\ node[n].current_round.sigs = {}
        /\ node[n].settling.state = "NONE"
    BY <1>3 DEF NoRound, NoSettling
  <2>r. RoundInv(node[n], n, {})
    BY <2>3 DEF RoundInv
  <2>s. SettlingInv(node[n], n, {})
    BY <2>3 DEF SettlingInv
  <2>4. ChainInv(node[n].chain, {})
    BY <1>3 DEF ChainInv
  <2> QED
    BY <1>3, <2>1, <2>2, <2>r, <2>s, <2>4 DEF Local
<1> QED
  BY <1>6, <1>7 DEF IInv

\* Every step keeps it.
LEMMA NextInv == IInv /\ [Next]_vars => IInv'
<1> SUFFICES ASSUME IInv, [Next]_vars PROVE IInv'
  OBVIOUS
<1>1. CASE UNCHANGED vars
  BY <1>1 DEF vars, IInv, TypeOK
<1>2. CASE \E n \in Nodes, m \in msgs : ReceiveHeld(n, m)
  BY <1>2, ReceiveHeldInv
<1>3. CASE \E n \in Nodes, m \in msgs : ReceiveBodies(n, m)
  BY <1>3, ReceiveBodiesInv
<1>4. CASE \E n \in Nodes, m \in msgs : ReceiveSig(n, m)
  BY <1>4, ReceiveSigInv
<1>5. CASE \E n \in Nodes, m \in msgs : ReceiveSettleSig(n, m)
  BY <1>5, ReceiveSettleSigInv
<1>6. CASE \E n \in Nodes : RoundClose(n)
  BY <1>6, TimersInv
<1>7. CASE \E n \in Nodes : RoundAbandon(n)
  BY <1>7, RoundAbandonInv
<1>8. CASE \E n \in Nodes : SettleAbandon(n)
  BY <1>8, SettleAbandonInv
<1>9. CASE \E n \in Nodes : BucketTick(n)
  BY <1>9, TimersInv
<1>10. CASE \E n \in Nodes, t \in Txs : Submit(n, t)
  BY <1>10, SubmitInv
<1>11. CASE \E n, p \in Nodes : \E num \in 1..Len(node[p].chain) : Adopt(n, p, num)
  BY <1>11, AdoptInv
<1>12. CASE \E n \in Nodes : Tick(n)
  BY <1>12, TickInv
<1>13. CASE \E n \in Nodes : Crash(n)
  BY <1>13, CrashInv
<1>14. CASE \E n \in Nodes : Restart(n)
  BY <1>14, CrashInv
<1> QED
  BY <1>1, <1>2, <1>3, <1>4, <1>5, <1>6, <1>7, <1>8, <1>9, <1>10, <1>11, <1>12,
     <1>13, <1>14 DEF Next

\* The inductive invariant holds in every reachable state.
THEOREM Invariance == Spec => []IInv
BY InitInv, NextInv, PTL DEF Spec

\* Every variable keeps its type, rounds hold only messages that were sent.
THEOREM TypeCorrect == Spec => []TypeOK
<1>1. IInv => TypeOK
  BY DEF IInv
<1> QED
  BY <1>1, Invariance, PTL

\* What the properties use of IInv, between handlers.
LEMMA SentFacts ==
    ASSUME IInv, NEW n \in Nodes
    PROVE  /\ SignedOnce(n, msgs) /\ SettlingInv(node[n], n, msgs)
           /\ ChainInv(node[n].chain, msgs) /\ node[n].chain \in Chain
<1>1. Sent(node[n], msgs) = msgs
  BY NodeFacts DEF Sent
<1>2. Local(node[n], n, clock[n], msgs) /\ node[n] \in NodeType(msgs)
  BY NodeFacts
<1> QED
  BY <1>1, <1>2 DEF Local, NodeType

\* Under the invariant a member has signed once per bucket.
LEMMA SignOnceHolds == IInv => SignOnce
<1> SUFFICES ASSUME IInv, NEW m \in msgs, NEW k \in msgs,
                    m.type \in {"SIG", "SETTLE_SIG"}, k.type = m.type,
                    k.frm = m.frm, k.bucket = m.bucket
             PROVE  k = m
  BY DEF SignOnce
<1>1. m.frm \in Nodes
  BY DEF IInv, TypeOK, Message, Broadcast
<1>2. SignedOnce(m.frm, msgs)
  BY <1>1, SentFacts
<1> QED
  BY <1>2 DEF SignedOnce

\* No member signs two slices or two blocks for one bucket, across crashes.
THEOREM MembersSignOnce == Spec => []SignOnce
BY Invariance, SignOnceHolds, PTL

\* Whatever a node settles or has committed was ratified by a quorum.
LEMMA DecidedRatified ==
    ASSUME IInv, NEW n \in Nodes, NEW d \in Decided(n)
    PROVE  Ratified(d.prev, d.bucket, d.txs, msgs)
<1>2. ChainInv(node[n].chain, msgs) /\ SettlingInv(node[n], n, msgs)
  BY SentFacts
<1>3. CASE \E i \in DOMAIN node[n].chain :
               d = [prev |-> Base(node[n].chain, i), bucket |-> node[n].chain[i].bucket,
                    txs |-> node[n].chain[i].txs]
  BY <1>2, <1>3 DEF ChainInv, BlockInv
<1>4. CASE /\ node[n].settling.state # "NONE"
           /\ d = [prev |-> node[n].settling.prev, bucket |-> node[n].settling.bucket,
                   txs |-> node[n].settling.txs]
  BY <1>2, <1>4 DEF SettlingInv
<1> QED
  BY <1>3, <1>4 DEF Decided, Base

\* Two ratified slices of one bucket on one base are one slice: their quorums
\* share a member, and it signed once.
LEMMA RatifiedUnique ==
    ASSUME SignOnce, NEW p, NEW b, NEW x, NEW y,
           Ratified(p, b, x, msgs), Ratified(p, b, y, msgs)
    PROVE  x = y
<1> DEFINE A == Ratifiers(p, b, x, msgs)
           B == Ratifiers(p, b, y, msgs)
<1>1. A \cap B # {}
  <2>1. /\ Roster(p) # {} /\ A \in SUBSET Roster(p) /\ B \in SUBSET Roster(p)
        /\ Cardinality(A) >= QuorumOf(p) /\ Cardinality(B) >= QuorumOf(p)
    BY DEF Ratified, Ratifiers
  <2> HIDE DEF A, B
  <2> QED
    BY <2>1, QuorumsMeet
<1>2. PICK q : q \in A /\ q \in B
  BY <1>1
<1>3. Sig(q, b, p, x) \in msgs /\ Sig(q, b, p, y) \in msgs
  BY <1>2 DEF Ratifiers
<1>4. Sig(q, b, p, x) = Sig(q, b, p, y)
  BY <1>3 DEF SignOnce, Sig
<1> QED
  BY <1>4 DEF Sig

\* No two nodes ratify or settle different slices for one bucket and one base.
THEOREM Agreement == Spec => []OneSlicePerBucket
<1>1. IInv => OneSlicePerBucket
  <2> SUFFICES ASSUME IInv, NEW n \in Nodes, NEW k \in Nodes,
                      NEW d \in Decided(n), NEW e \in Decided(k),
                      d.bucket = e.bucket, d.prev = e.prev
               PROVE  d.txs = e.txs
    BY DEF OneSlicePerBucket
  <2>1. Ratified(d.prev, d.bucket, d.txs, msgs) /\ Ratified(d.prev, d.bucket, e.txs, msgs)
    BY DecidedRatified
  <2> QED
    BY <2>1, SignOnceHolds, RatifiedUnique
<1> QED
  BY <1>1, Invariance, PTL

\* Every block of every store carries a quorum's settle signatures.
THEOREM Certified == Spec => []BlocksAuthorised
<1>1. IInv => BlocksAuthorised
  <2> SUFFICES ASSUME IInv, NEW n \in Nodes, NEW i \in DOMAIN node[n].chain
               PROVE  Authorised(node[n].chain, i)
    BY DEF BlocksAuthorised
  <2>1. BlockInv(node[n].chain, i, msgs)
    BY SentFacts DEF ChainInv
  <2> QED
    BY <2>1 DEF BlockInv, Authorised, Settlers, Base
<1> QED
  BY <1>1, Invariance, PTL

\* No transaction is in two blocks of one chain.
THEOREM EffectOnce == Spec => []SettleOnce
<1>1. IInv => SettleOnce
  <2> SUFFICES ASSUME IInv, NEW n \in Nodes
               PROVE  \A i, j \in DOMAIN node[n].chain :
                          i # j => node[n].chain[i].txs \cap node[n].chain[j].txs = {}
    BY DEF SettleOnce
  <2> DEFINE c == node[n].chain
  <2>1. c \in Chain /\ \A i \in DOMAIN c : c[i].txs \cap Settled(Base(c, i)) = {}
    BY SentFacts DEF ChainInv, BlockInv
  <2> HIDE DEF c
  <2>2. ASSUME NEW i \in DOMAIN c, NEW j \in DOMAIN c, j < i
        PROVE  c[i].txs \cap c[j].txs = {}
    <3>1. j \in DOMAIN Base(c, i) /\ Base(c, i)[j] = c[j]
      BY <2>1, <2>2 DEF Base, Chain
    <3>2. c[j].txs \subseteq Settled(Base(c, i))
      BY <3>1 DEF Settled
    <3> QED
      BY <2>1, <3>2
  <2>3. \A i, j \in DOMAIN c : i # j => i < j \/ j < i
    BY <2>1 DEF Chain
  <2> QED
    BY <2>2, <2>3 DEF c
<1> QED
  BY <1>1, Invariance, PTL
=============================================================================
