----------------------------- MODULE OrderProofs -----------------------------
(***************************************************************************)
(* Proofs about the order in which a coordinator works: its round and its  *)
(* settlement never get in each other's way, a ratified round never stays  *)
(* behind, and the buckets of its signatures grow with the chain.  They    *)
(* rest on the invariant IInv that ConsensusProofs establishes.            *)
(***************************************************************************)
EXTENDS ConsensusProofs, OrderLemmas

-----------------------------------------------------------------------------
(* Steps                                                                   *)

\* A step of one node that leaves it in order leaves all of them in order.
LEMMA NodeOrder ==
    ASSUME IInv, OrderInv, NEW n \in Nodes, NEW t, NEW O,
           node' = [node EXCEPT ![n] = t], msgs' = msgs \cup O, clock' = clock,
           \A m \in O : m.frm = n,
           Orderly(t, n, clock[n], msgs \cup O), t.up => t.current_round.state # "GONE"
    PROVE  OrderInv'
<1>1. /\ \A k \in Nodes : node'[k] = IF k = n THEN t ELSE node[k]
      /\ \A k \in Nodes : Orderly(node[k], k, clock[k], msgs)
  BY DEF IInv, TypeOK, OrderInv
<1>2. ASSUME NEW k \in Nodes PROVE Orderly(node'[k], k, clock'[k], msgs')
  <2>1. CASE k = n
    BY <1>1, <2>1
  <2>2. CASE k # n
    <3>1. SigsOf(k, Sent(node[k], msgs \cup O)) = SigsOf(k, Sent(node[k], msgs))
      BY <2>2 DEF SigsOf, Sent
    <3>2. Orderly(node[k], k, clock[k], msgs \cup O)
      BY <1>1, <3>1, Zenon DEF Orderly, BasesInv
    <3> QED
      BY <1>1, <2>2, <3>2
  <2> QED
    BY <2>1, <2>2
<1>3. NoParkedRound'
  BY <1>1 DEF OrderInv, NoParkedRound
<1> QED
  BY <1>2, <1>3, Zenon DEF OrderInv

\* A handler that ends in order.
LEMMA FinishOrder ==
    ASSUME IInv, OrderInv, NEW n \in Nodes, NEW s, Local(s, n, clock[n], msgs),
           Orderly(s, n, clock[n], msgs), s.up => s.current_round.state # "GONE",
           Finish(n, s)
    PROVE  OrderInv'
<1> DEFINE t == [s EXCEPT !.outbox = {}]
           O == s.outbox
<1>1. node' = [node EXCEPT ![n] = t] /\ msgs' = msgs \cup O /\ clock' = clock
  BY DEF Finish
<1>2. /\ t.outbox = {} /\ t.current_bucket = s.current_bucket /\ t.up = s.up
      /\ t.settling = s.settling /\ t.chain = s.chain /\ t.current_round = s.current_round
      /\ \A m \in O : m.frm = n
  BY DEF Local, NodeType
<1> HIDE DEF t
<1>3. Sent(t, msgs \cup O) = Sent(s, msgs)
  BY <1>2 DEF Sent
<1>4. Orderly(t, n, clock[n], msgs \cup O)
  BY <1>2, <1>3, Zenon DEF Orderly, SlotsInv, BasesInv
<1> HIDE DEF O
<1> QED
  BY <1>1, <1>2, <1>4, NodeOrder, Zenon

\* What the steps use of the two invariants about the node that takes them.
LEMMA OrderFacts ==
    ASSUME IInv, OrderInv, NEW n \in Nodes
    PROVE  /\ Local(node[n], n, clock[n], msgs) /\ clock[n] \in Nat
           /\ msgs \in SUBSET Message /\ node[n] \in NodeType(msgs)
           /\ node[n].outbox = {} /\ Sent(node[n], msgs) = msgs
           /\ Orderly(node[n], n, clock[n], msgs)
           /\ node[n].up => node[n].current_round.state # "GONE"
BY NodeFacts DEF OrderInv, NoParkedRound, Sent

\* A message handler starts from a state in order.
LEMMA CaughtUpOrderly ==
    ASSUME IInv, OrderInv, NEW n \in Nodes, NEW behind
    PROVE  /\ Local(CaughtUp(n, behind), n, clock[n], msgs)
           /\ Orderly(CaughtUp(n, behind), n, clock[n], msgs)
           /\ Tidy(CaughtUp(n, behind))
BY OrderFacts, CaughtUpLocal, CatchUpOrderly DEF CaughtUp
\* _on_round_msg: a message that ratifies the round also promotes it.
LEMMA ReceiveRoundOrder ==
    ASSUME IInv, OrderInv, NEW n \in Nodes, NEW m \in msgs,
           ReceiveHeld(n, m) \/ ReceiveBodies(n, m) \/ ReceiveSig(n, m)
    PROVE  OrderInv'
<1>1. PICK behind : \/ \E push \in Elections(CaughtUp(n, behind).current_round, m) :
                           Finish(n, TakeHeld(CaughtUp(n, behind), n, m, push))
                    \/ Finish(n, TakeBodies(CaughtUp(n, behind), n, m))
                    \/ m.type = "SIG" /\ Finish(n, TakeSig(CaughtUp(n, behind), n, m))
  BY DEF ReceiveHeld, ReceiveBodies, ReceiveSig
<1> DEFINE s == CaughtUp(n, behind)
           now == clock[n]
<1>2. Local(s, n, now, msgs) /\ Orderly(s, n, now, msgs) /\ Tidy(s)
  BY CaughtUpOrderly
<1> HIDE DEF s
<1>3. now \in Nat /\ msgs \in SUBSET Message
  BY OrderFacts
<1>4. s \in NodeType(Sent(s, msgs)) /\ Sent(s, msgs) \in SUBSET Message /\ m \in Sent(s, msgs)
  BY <1>2, <1>3, Lengths DEF Local, Sent
<1> HIDE DEF now
<1>5. ASSUME NEW t, Local(t, n, now, msgs), Steady(s, t), t.settling = s.settling, t.up = s.up,
             \/ t.current_round.state = s.current_round.state
             \/ s.current_round.state = "FINALIZE",
             Finish(n, CheckRatified(t, n))
      PROVE  OrderInv'
  <2>1. Orderly(t, n, now, msgs)
    BY <1>2, <1>3, <1>5, Lengths, SteadyOrderly
  <2> DEFINE u == CheckRatified(t, n)
  <2>2. Local(u, n, now, msgs)
    BY <1>3, <1>5, CheckRatifiedLocal
  <2>3. /\ Orderly(u, n, now, msgs) /\ u.up = t.up
        /\ IF t.current_round.state = "GONE" /\ t.settling.state = "NONE"
           THEN u.current_round.state = "NONE"
           ELSE u = t
    BY <1>3, <1>5, <2>1, CheckRatifiedOrderly
  <2>4. Finish(n, u)
    BY <1>5
  <2> HIDE DEF u
  <2>5. u.up => u.current_round.state # "GONE"
    BY <1>2, <1>5, <2>3 DEF Tidy
  <2> QED
    BY <2>2, <2>3, <2>4, <2>5, FinishOrder DEF now
<1>6. CASE Finish(n, s)
  BY <1>2, <1>6, FinishOrder DEF now, Tidy
<1>7. ASSUME NEW push \in Elections(s.current_round, m), Finish(n, TakeHeld(s, n, m, push))
      PROVE  OrderInv'
  <2>1. push \in SUBSET s.current_round.bodies
    BY DEF Elections, Gap
  <2>2. OnHeld(s, n, m, push) \in Collected(s, n, m)
    BY <2>1 DEF Collected
  <2>3. Local(OnHeld(s, n, m, push), n, now, msgs)
    BY <1>2, <1>3, <2>1, OnHeldLocal
  <2>4. Finish(n, s) \/ Finish(n, CheckRatified(OnHeld(s, n, m, push), n))
    BY <1>7 DEF TakeHeld
  <2> QED
    BY <1>4, <1>5, <1>6, <2>2, <2>3, <2>4, CollectSteady
<1>8. CASE Finish(n, TakeBodies(s, n, m))
  <2>1. Absorb(s, n, m) \in Collected(s, n, m)
    BY DEF Collected
  <2>2. Local(Absorb(s, n, m), n, now, msgs)
    BY <1>2, <1>3, AbsorbLocal
  <2>3. Finish(n, s) \/ Finish(n, CheckRatified(Absorb(s, n, m), n))
    BY <1>8 DEF TakeBodies
  <2> QED
    BY <1>4, <1>5, <1>6, <2>1, <2>2, <2>3, CollectSteady
<1>9. CASE m.type = "SIG" /\ Finish(n, TakeSig(s, n, m))
  <2>1. Finish(n, s) \/ (ForRound(s, m) /\ Finish(n, CheckRatified(OnSig(s, m), n)))
    BY <1>9 DEF TakeSig
  <2>2. ForRound(s, m) => Local(OnSig(s, m), n, now, msgs)
    BY <1>2, <1>3, <1>9, OnSigLocal
  <2>3. ASSUME ForRound(s, m), Finish(n, CheckRatified(OnSig(s, m), n))
        PROVE  OrderInv'
    <3> DEFINE t == OnSig(s, m)
    <3>1. /\ Steady(s, t) /\ t.settling = s.settling /\ t.up = s.up
          /\ \/ t.current_round.state = s.current_round.state
             \/ s.current_round.state = "FINALIZE"
      BY <1>4, <2>3, OnSigSteady
    <3>2. Local(t, n, now, msgs) /\ Finish(n, CheckRatified(t, n))
      BY <2>2, <2>3
    <3> HIDE DEF t
    <3> QED
      BY <1>5, <3>1, <3>2
  <2> QED
    BY <1>6, <2>1, <2>3
<1> QED
  BY <1>1, <1>7, <1>8, <1>9 DEF s

\* _on_settle_msg
LEMMA ReceiveSettleSigOrder ==
    ASSUME IInv, OrderInv, NEW n \in Nodes, NEW m \in msgs, ReceiveSettleSig(n, m)
    PROVE  OrderInv'
<1>1. PICK behind : Finish(n, TakeSettleSig(CaughtUp(n, behind), m))
  BY DEF ReceiveSettleSig
<1> DEFINE s == CaughtUp(n, behind)
           o == OnSettleSig(s, m)
           t == CheckSettled(o)
<1>2. Local(s, n, clock[n], msgs) /\ Orderly(s, n, clock[n], msgs) /\ Tidy(s)
  BY CaughtUpOrderly
<1>3. /\ Finish(n, s) \/ (Finish(n, t) /\ s.settling.bucket = m.bucket /\ s.settling.txs = m.txs)
      /\ m.type = "SETTLE_SIG"
  BY <1>1 DEF TakeSettleSig, ReceiveSettleSig
<1> HIDE DEF s
<1>4. CASE Finish(n, s)
  BY <1>2, <1>4, FinishOrder DEF Tidy
<1>5. CASE Finish(n, t) /\ s.settling.bucket = m.bucket /\ s.settling.txs = m.txs
  <2>1. Local(o, n, clock[n], msgs)
    BY <1>2, <1>3, <1>5, NodeFacts, OnSettleSigLocal
  <2>2. Local(t, n, clock[n], msgs)
    BY <2>1, NodeFacts, CheckSettledLocal
  <2>3. Steady(s, o) /\ o.current_round = s.current_round /\ o.up = s.up
    BY <1>2, OnSettleSteady DEF Local
  <2>4. Steady(o, t) /\ t.current_round = o.current_round /\ (t.up => o.up)
    BY <2>1, CheckSettledSteady DEF Local
  <2> HIDE DEF o, t
  <2>5. Orderly(o, n, clock[n], msgs)
    BY <1>2, <2>1, <2>3, NodeFacts, Lengths, SteadyOrderly
  <2>6. Orderly(t, n, clock[n], msgs)
    BY <2>1, <2>2, <2>4, <2>5, NodeFacts, Lengths, SteadyOrderly
  <2>7. t.up => t.current_round.state # "GONE"
    BY <1>2, <2>3, <2>4 DEF Tidy
  <2> QED
    BY <1>5, <2>2, <2>6, <2>7, FinishOrder
<1> QED
  BY <1>3, <1>4, <1>5
\* _on_round_close: the older settlement has left its slot by then, so a round
\* that its own signature ratifies is promoted at once.
LEMMA RoundCloseOrder ==
    ASSUME IInv, OrderInv, NEW n \in Nodes, RoundClose(n)
    PROVE  OrderInv'
<1> DEFINE s == node[n]
           now == clock[n]
           t == RoundTick(s, n, now)
           u == CheckRatified(t, n)
<1>1. /\ Finish(n, u) /\ s.current_round.state # "NONE"
      /\ s.settling.state # "NONE" => s.settling.bucket >= s.current_round.bucket
  BY DEF RoundClose
<1>2. Local(s, n, now, msgs) /\ Orderly(s, n, now, msgs) /\ now \in Nat
      /\ msgs \in SUBSET Message
  BY OrderFacts
<1>3. s.settling.state = "NONE"
  <2> HIDE DEF s, now
  <2>1. s.settling.bucket \in Nat /\ s.current_round.bucket \in Nat
    BY <1>2, Lengths, Zenon
  <2> QED
    BY <1>1, <1>2, <2>1 DEF Orderly, SlotsInv
<1>4. Local(t, n, now, msgs) /\ Local(u, n, now, msgs)
  BY <1>2, RoundTickLocal, CheckRatifiedLocal
<1>5. Orderly(t, n, now, msgs) /\ t.settling = s.settling
  BY <1>2, RoundTickOrderly
<1>6. Orderly(u, n, now, msgs) /\ u.current_round.state # "GONE"
  <2>1. /\ Orderly(u, n, now, msgs)
        /\ IF t.current_round.state = "GONE" /\ t.settling.state = "NONE"
           THEN u.current_round.state = "NONE"
           ELSE u = t
    BY <1>2, <1>4, <1>5, CheckRatifiedOrderly
  <2> HIDE DEF u, t
  <2> QED
    BY <1>3, <1>5, <2>1
<1> HIDE DEF u
<1> QED
  BY <1>1, <1>4, <1>6, FinishOrder DEF now

\* _on_round_abandon: a tick after the cut ratifies nothing.
LEMMA RoundAbandonOrder ==
    ASSUME IInv, OrderInv, NEW n \in Nodes, RoundAbandon(n)
    PROVE  OrderInv'
<1> DEFINE now == clock[n]
           u == RoundTick(node[n], n, now)
           s == DropAbandoned(u)
           t == [s EXCEPT !.outbox = {}]
<1>1. /\ Finish(n, t) /\ node[n].up
      /\ node[n].current_round.state # "COLLECT" /\ node[n].current_round.state # "NONE"
  BY DEF RoundAbandon
<1>2. /\ Local(node[n], n, now, msgs) /\ Orderly(node[n], n, now, msgs) /\ now \in Nat
      /\ node[n] \in NodeType(msgs) /\ node[n].outbox = {} /\ msgs \in SUBSET Message
      /\ node[n].current_round.state # "GONE"
  BY <1>1, OrderFacts
<1>3. Local(u, n, now, msgs) /\ Local(s, n, now, msgs)
  BY <1>2, RoundTickLocal, DropAbandonedLocal
<1>4. u.outbox = {}
  BY <1>1, <1>2 DEF RoundTick, AbandonLate, NodeType
<1>5. Orderly(u, n, now, msgs) /\ u.current_round.state # "GONE"
  BY <1>1, <1>2, RoundTickOrderly
<1> HIDE DEF u
<1>6. Steady(u, s) /\ s.outbox = {} /\ s.current_round.state # "GONE"
  BY <1>3, <1>4, <1>5, AbandonSteady DEF Local
<1>7. t = s
  BY <1>3, <1>6 DEF Local, NodeType
<1> HIDE DEF s, t
<1>8. Orderly(s, n, now, msgs)
  BY <1>2, <1>3, <1>5, <1>6, Lengths, SteadyOrderly
<1> QED
  BY <1>1, <1>3, <1>6, <1>7, <1>8, FinishOrder DEF now

\* _on_settle_abandon_event
LEMMA SettleAbandonOrder ==
    ASSUME IInv, OrderInv, NEW n \in Nodes, SettleAbandon(n)
    PROVE  OrderInv'
<1> DEFINE s == SettleTick(node[n], clock[n])
           t == [s EXCEPT !.settling = NoSettling]
<1>1. node[n].up /\ (Finish(n, s) \/ Finish(n, t))
  BY DEF SettleAbandon, FreeSettling
<1>2. /\ Local(node[n], n, clock[n], msgs) /\ Orderly(node[n], n, clock[n], msgs)
      /\ clock[n] \in Nat /\ msgs \in SUBSET Message /\ node[n] \in NodeType(msgs)
      /\ node[n].current_round.state # "GONE"
  BY <1>1, OrderFacts
<1>3. Steady(node[n], s) /\ s.current_round = node[n].current_round
  BY <1>2, OnSettleSteady
<1>4. Local(s, n, clock[n], msgs) /\ Local(t, n, clock[n], msgs)
  BY <1>2, SettleTickLocal, DropSettlingLocal
<1> HIDE DEF s
<1>5. Orderly(s, n, clock[n], msgs)
  BY <1>2, <1>3, <1>4, Lengths, SteadyOrderly
<1>6. Steady(s, t) /\ t.current_round = s.current_round
  <2>1. /\ t.outbox = s.outbox /\ t.current_bucket = s.current_bucket /\ t.chain = s.chain
        /\ t.current_round = s.current_round /\ t.settling.state = "NONE"
    BY <1>4 DEF Local, NodeType, NoSettling
  <2> HIDE DEF t
  <2> QED
    BY <1>4, <2>1, SettlementSteady DEF Local
<1> HIDE DEF t
<1>7. Orderly(t, n, clock[n], msgs)
  BY <1>2, <1>4, <1>5, <1>6, Lengths, SteadyOrderly
<1> QED
  BY <1>1, <1>2, <1>3, <1>4, <1>5, <1>6, <1>7, FinishOrder

\* _on_bucket_tick
LEMMA BucketTickOrder ==
    ASSUME IInv, OrderInv, NEW n \in Nodes, BucketTick(n)
    PROVE  OrderInv'
<1>1. PICK behind : Finish(n, CloseCurrentBucket(node[n], n, clock[n], behind))
  BY DEF BucketTick
<1> DEFINE t == CloseCurrentBucket(node[n], n, clock[n], behind)
<1>2. Local(t, n, clock[n], msgs)
  BY OrderFacts, CloseCurrentBucketLocal
<1>3. /\ Orderly(t, n, clock[n], msgs) /\ t.up = node[n].up
      /\ t.current_round = node[n].current_round \/ t.current_round.state = "COLLECT"
  BY OrderFacts, CloseCurrentBucketOrderly
<1> HIDE DEF t
<1>4. t.up => t.current_round.state # "GONE"
  <2>1. node[n].up => node[n].current_round.state # "GONE"
    BY OrderFacts
  <2> QED
    BY <1>3, <2>1
<1> QED
  BY <1>1, <1>2, <1>3, <1>4, FinishOrder DEF t
\* A step of a node that leaves its slots alone and sends nothing.
LEMMA ElsewhereOrder ==
    ASSUME IInv, OrderInv, NEW n \in Nodes, NEW t,
           node' = [node EXCEPT ![n] = t], msgs' = msgs, clock' = clock,
           t.current_bucket = node[n].current_bucket, t.settling = node[n].settling,
           t.up = node[n].up, t.current_round = node[n].current_round,
           t.outbox = node[n].outbox,
           Len(t.chain) \in Nat, Len(node[n].chain) <= Len(t.chain)
    PROVE  OrderInv'
<1> DEFINE O == {}
<1>1. /\ Local(node[n], n, clock[n], msgs) /\ Orderly(node[n], n, clock[n], msgs)
      /\ clock[n] \in Nat /\ msgs \in SUBSET Message
      /\ node[n].up => node[n].current_round.state # "GONE"
  BY OrderFacts
<1>2. msgs' = msgs \cup O /\ msgs \cup O = msgs /\ \A m \in O : m.frm = n
  OBVIOUS
<1> HIDE DEF O
<1>3. Steady(node[n], t)
  BY DEF Steady
<1>4. Orderly(t, n, clock[n], msgs)
  BY <1>1, <1>3, SteadyOrderly
<1>5. Orderly(t, n, clock[n], msgs \cup O)
  BY <1>2, <1>4, Zenon
<1>6. t.up => t.current_round.state # "GONE"
  BY <1>1
<1> QED
  BY <1>2, <1>5, <1>6, NodeOrder, ZenonT(40)

\* Coordinator.submit
LEMMA SubmitOrder ==
    ASSUME IInv, OrderInv, NEW n \in Nodes, NEW x \in Txs, Submit(n, x)
    PROVE  OrderInv'
<1> DEFINE s == node[n]
           t == [s EXCEPT !.mempool = @ \cup {x}]
<1>1. s \in NodeType(msgs)
  BY OrderFacts
<1>2. node' = [node EXCEPT ![n] = t] /\ msgs' = msgs /\ clock' = clock
  BY DEF Submit
<1>3. /\ t.outbox = s.outbox /\ t.current_bucket = s.current_bucket /\ t.up = s.up
      /\ t.settling = s.settling /\ t.chain = s.chain /\ t.current_round = s.current_round
  BY <1>1 DEF NodeType
<1>4. Len(s.chain) \in Nat
  BY <1>1 DEF NodeType, Chain
<1> HIDE DEF t
<1>5. Len(t.chain) \in Nat /\ Len(s.chain) <= Len(t.chain)
  BY <1>3, <1>4
<1> QED
  BY <1>2, <1>3, <1>5, ElsewhereOrder, Zenon

\* Follower._adopt
LEMMA AdoptOrder ==
    ASSUME IInv, OrderInv, NEW n \in Nodes, NEW p \in Nodes,
           NEW num \in 1..Len(node[p].chain), Adopt(n, p, num)
    PROVE  OrderInv'
<1> DEFINE s == node[n]
           c == SubSeq(node[p].chain, 1, num)
           t == [s EXCEPT !.chain = c]
<1>1. s \in NodeType(msgs) /\ node[p] \in NodeType(msgs)
  BY OrderFacts
<1>2. node' = [node EXCEPT ![n] = t] /\ msgs' = msgs /\ clock' = clock
  BY DEF Adopt
<1>3. num >= Len(s.chain) + 1
  BY DEF Adopt
<1>4. Len(s.chain) \in Nat /\ Len(c) = num /\ num \in Nat
  BY <1>1 DEF NodeType, Chain
<1> HIDE DEF c
<1>5. /\ t.outbox = s.outbox /\ t.current_bucket = s.current_bucket /\ t.up = s.up
      /\ t.settling = s.settling /\ t.chain = c /\ t.current_round = s.current_round
  BY <1>1 DEF NodeType
<1> HIDE DEF t
<1>6. Len(t.chain) \in Nat /\ Len(s.chain) <= Len(t.chain)
  BY <1>3, <1>4, <1>5
<1> QED
  BY <1>2, <1>5, <1>6, ElsewhereOrder, Zenon

\* Time passes, and deadlines that have passed stay so.
LEMMA TickOrder ==
    ASSUME IInv, OrderInv, NEW n \in Nodes, Tick(n)
    PROVE  OrderInv'
<1>1. node' = node /\ msgs' = msgs /\ clock' = [clock EXCEPT ![n] = @ + 1]
  BY DEF Tick
<1>2. clock \in [Nodes -> Nat]
  BY DEF IInv, TypeOK
<1>3. ASSUME NEW k \in Nodes PROVE Orderly(node[k], k, clock'[k], msgs)
  <2>1. clock[k] \in Nat /\ clock'[k] \in Nat /\ clock[k] <= clock'[k]
    BY <1>1, <1>2
  <2>2. /\ Orderly(node[k], k, clock[k], msgs) /\ node[k].settling.bucket \in Nat
    BY OrderFacts DEF NodeType, SettlingType
  <2>3. AbandonBy(node[k].settling.bucket) \in Nat
    BY <2>2, TimeAssumption DEF AbandonBy, BucketStart
  <2> QED
    BY <2>1, <2>2, <2>3 DEF Orderly, SlotsInv
<1> QED
  BY <1>1, <1>3 DEF OrderInv, NoParkedRound

\* A process that has just started has nothing in flight, over the same chain.
LEMMA StartedOrder ==
    ASSUME IInv, OrderInv, NEW n \in Nodes, NEW up, NEW fault,
           node' = [node EXCEPT ![n] = Started(node[n].chain, clock[n], up, fault)],
           msgs' = msgs, clock' = clock
    PROVE  OrderInv'
<1> DEFINE s == node[n]
           t == Started(s.chain, clock[n], up, fault)
           O == {}
<1>1. node' = [node EXCEPT ![n] = t]
  OBVIOUS
<1>2. /\ t.current_round.state = "NONE" /\ t.settling.state = "NONE"
      /\ t.chain = s.chain /\ t.outbox = {}
  BY DEF Started, NoRound, NoSettling
<1>3. Orderly(s, n, clock[n], msgs) /\ s.outbox = {}
  BY OrderFacts
<1>4. msgs' = msgs \cup O /\ msgs \cup O = msgs /\ \A m \in O : m.frm = n
  OBVIOUS
<1> HIDE DEF O, t, s
<1>5. Sent(t, msgs) = Sent(s, msgs)
  BY <1>2, <1>3 DEF Sent
<1>6. Orderly(t, n, clock[n], msgs)
  BY <1>2, <1>3, <1>5 DEF Orderly, SlotsInv, BasesInv
<1>7. Orderly(t, n, clock[n], msgs \cup O) /\ t.current_round.state # "GONE"
  BY <1>2, <1>4, <1>6
<1> QED
  BY <1>1, <1>4, <1>7, NodeOrder, ZenonT(40)

\* Crash and Restart
LEMMA CrashOrder ==
    ASSUME IInv, OrderInv, NEW n \in Nodes, Crash(n) \/ Restart(n)
    PROVE  OrderInv'
<1>1. CASE Crash(n)
  BY <1>1, StartedOrder, ZenonT(40) DEF Crash
<1>2. CASE Restart(n)
  BY <1>2, StartedOrder, ZenonT(40) DEF Restart
<1> QED
  BY <1>1, <1>2

\* The order holds when the cluster starts.
LEMMA InitOrder == Init => OrderInv
<1> SUFFICES ASSUME Init PROVE OrderInv
  OBVIOUS
<1>1. ASSUME NEW n \in Nodes
      PROVE  /\ node[n].current_round.state = "NONE" /\ node[n].settling.state = "NONE"
             /\ Sent(node[n], msgs) = {}
  BY DEF Init, Started, NoRound, NoSettling, Sent
<1>2. ASSUME NEW n \in Nodes PROVE Orderly(node[n], n, clock[n], msgs)
  <2>1. SigsOf(n, Sent(node[n], msgs)) = {}
    BY <1>1 DEF SigsOf
  <2> QED
    BY <1>1, <2>1 DEF Orderly, SlotsInv, BasesInv
<1> QED
  BY <1>1, <1>2 DEF OrderInv, NoParkedRound
\* Every step keeps it.
LEMMA NextOrder == IInv /\ OrderInv /\ [Next]_vars => OrderInv'
<1> SUFFICES ASSUME IInv, OrderInv, [Next]_vars PROVE OrderInv'
  OBVIOUS
<1>1. CASE UNCHANGED vars
  BY <1>1 DEF vars, OrderInv, NoParkedRound
<1>2. CASE \E n \in Nodes, m \in msgs : ReceiveHeld(n, m)
  BY <1>2, ReceiveRoundOrder
<1>3. CASE \E n \in Nodes, m \in msgs : ReceiveBodies(n, m)
  BY <1>3, ReceiveRoundOrder
<1>4. CASE \E n \in Nodes, m \in msgs : ReceiveSig(n, m)
  BY <1>4, ReceiveRoundOrder
<1>5. CASE \E n \in Nodes, m \in msgs : ReceiveSettleSig(n, m)
  BY <1>5, ReceiveSettleSigOrder
<1>6. CASE \E n \in Nodes : RoundClose(n)
  BY <1>6, RoundCloseOrder
<1>7. CASE \E n \in Nodes : RoundAbandon(n)
  BY <1>7, RoundAbandonOrder
<1>8. CASE \E n \in Nodes : SettleAbandon(n)
  BY <1>8, SettleAbandonOrder
<1>9. CASE \E n \in Nodes : BucketTick(n)
  BY <1>9, BucketTickOrder
<1>10. CASE \E n \in Nodes, t \in Txs : Submit(n, t)
  BY <1>10, SubmitOrder
<1>11. CASE \E n, p \in Nodes : \E num \in 1..Len(node[p].chain) : Adopt(n, p, num)
  BY <1>11, AdoptOrder
<1>12. CASE \E n \in Nodes : Tick(n)
  BY <1>12, TickOrder
<1>13. CASE \E n \in Nodes : Crash(n)
  BY <1>13, CrashOrder
<1>14. CASE \E n \in Nodes : Restart(n)
  BY <1>14, CrashOrder
<1> QED
  BY <1>1, <1>2, <1>3, <1>4, <1>5, <1>6, <1>7, <1>8, <1>9, <1>10, <1>11, <1>12,
     <1>13, <1>14 DEF Next

-----------------------------------------------------------------------------
(* Theorems                                                                *)

\* Every coordinator stays in order.
THEOREM OrderInvariance == Spec => []OrderInv
BY Invariance, InitOrder, NextOrder, PTL DEF Spec

\* A round runs beside a settlement only when the settlement is past its
\* deadline (Coordinator._close_current_bucket).
THEOREM DeadOverlap == Spec => []OverlapIsDead
<1>1. OrderInv => OverlapIsDead
  BY DEF OrderInv, Orderly, SlotsInv, OverlapIsDead
<1> QED
  BY <1>1, OrderInvariance, PTL

\* No ratified round is left in its slot after a handler
\* (Coordinator._check_ratified).
THEOREM NothingParked == Spec => []NoParkedRound
<1>1. OrderInv => NoParkedRound
  BY DEF OrderInv
<1> QED
  BY <1>1, OrderInvariance, PTL

\* The blocks below a block, and the block on top of them.
LEMMA BaseGrows ==
    ASSUME NEW c \in Chain, NEW i \in 1..(Len(c) - 1)
    PROVE  /\ Base(c, i) \in Chain /\ Len(Base(c, i)) = i - 1 /\ c[i] \in Block
           /\ Base(c, i + 1) = Append(Base(c, i), c[i]) /\ Len(Base(c, i + 1)) = i
<1>1. c \in Seq(Block) /\ i \in Nat /\ i >= 1 /\ i < Len(c)
  BY DEF Chain
<1>2. c[i] \in Block /\ SubSeq(c, 1, i - 1) \in Seq(Block) /\ SubSeq(c, 1, i) \in Seq(Block)
  BY <1>1
<1>3. Len(SubSeq(c, 1, i - 1)) = i - 1 /\ Len(SubSeq(c, 1, i)) = i
  BY <1>1
<1>4. SubSeq(c, 1, i) = Append(SubSeq(c, 1, i - 1), c[i])
  BY <1>1, <1>2, <1>3
<1> QED
  BY <1>1, <1>2, <1>3, <1>4 DEF Base, Chain
\* A roster that no block changes, and that is not empty, is such a one.
LEMMA FixedRosterMeets ==
    ASSUME Members # {}, \A c \in Chain : Roster(c) = Members
    PROVE  RostersMeet
<1> SUFFICES ASSUME NEW c \in Chain, NEW b \in Block,
                    NEW A \in SUBSET Roster(c), NEW B \in SUBSET Roster(Append(c, b)),
                    Cardinality(A) >= QuorumOf(c), Cardinality(B) >= QuorumOf(Append(c, b))
             PROVE  A \cap B # {}
  BY DEF RostersMeet
<1>1. Append(c, b) \in Chain
  BY BaseOfAppend
<1>2. Roster(c) = Members /\ Roster(Append(c, b)) = Members
  BY <1>1
<1>3. QuorumOf(Append(c, b)) = QuorumOf(c)
  BY <1>2 DEF QuorumOf
<1> QED
  BY <1>2, <1>3, QuorumsMeet

\* A member that signed for a block and for the block on top of it signed for
\* the upper one later, and so for a later bucket.
LEMMA BucketsAdvance ==
    ASSUME IInv, OrderInv, RostersMeet, NEW n \in Nodes,
           NEW i \in 1..(Len(node[n].chain) - 1)
    PROVE  node[n].chain[i].bucket < node[n].chain[i + 1].bucket
<1> DEFINE c == node[n].chain
           A == Ratifiers(Base(c, i), c[i].bucket, c[i].txs, msgs)
           B == Ratifiers(Base(c, i + 1), c[i + 1].bucket, c[i + 1].txs, msgs)
<1>1. c \in Chain /\ ChainInv(c, msgs)
  BY SentFacts
<1>2. i \in DOMAIN c /\ i + 1 \in DOMAIN c /\ c[i] \in Block /\ c[i + 1] \in Block
  BY <1>1 DEF Chain
<1>3. /\ Base(c, i) \in Chain /\ Len(Base(c, i)) = i - 1
      /\ Base(c, i + 1) = Append(Base(c, i), c[i]) /\ Len(Base(c, i + 1)) = i
  BY <1>1, BaseGrows
<1> HIDE DEF c
<1>4. /\ A \in SUBSET Roster(Base(c, i)) /\ Cardinality(A) >= QuorumOf(Base(c, i))
      /\ B \in SUBSET Roster(Base(c, i + 1)) /\ Cardinality(B) >= QuorumOf(Base(c, i + 1))
  BY <1>1, <1>2 DEF ChainInv, BlockInv, Ratified, Ratifiers
<1>5. A \cap B # {}
  <2> DEFINE p == Base(c, i)
             x == c[i]
  <2> HIDE DEF A, B
  <2>1. /\ p \in Chain /\ x \in Block
        /\ A \in SUBSET Roster(p) /\ Cardinality(A) >= QuorumOf(p)
        /\ B \in SUBSET Roster(Append(p, x)) /\ Cardinality(B) >= QuorumOf(Append(p, x))
    BY <1>2, <1>3, <1>4, ZenonT(40)
  <2> HIDE DEF p, x
  <2> QED
    BY <2>1, ZenonT(40) DEF RostersMeet
<1>6. PICK q : q \in A /\ q \in B
  BY <1>5
<1> DEFINE k == Sig(q, c[i].bucket, Base(c, i), c[i].txs)
           m == Sig(q, c[i + 1].bucket, Base(c, i + 1), c[i + 1].txs)
<1>7. q \in Nodes /\ k \in msgs /\ m \in msgs
  BY <1>6 DEF Ratifiers, Roster
<1>8. /\ k.frm = q /\ k.type = "SIG" /\ k.bucket = c[i].bucket /\ Len(k.prev) = i - 1
      /\ m.frm = q /\ m.type = "SIG" /\ m.bucket = c[i + 1].bucket /\ Len(m.prev) = i
  BY <1>3 DEF Sig
<1>9. c[i].bucket \in Nat /\ c[i + 1].bucket \in Nat
  BY <1>2 DEF Block
<1> HIDE DEF k, m, A, B
<1>10. c[i].bucket # c[i + 1].bucket
  <2>1. SignedOnce(q, msgs)
    BY <1>7, SentFacts
  <2> QED
    BY <2>1, <1>7, <1>8 DEF SignedOnce
<1>11. ~(m.bucket < k.bucket)
  <2>1. BasesInv(node[q], q, msgs)
    BY <1>7, OrderFacts DEF Orderly
  <2>2. k \in SigsOf(q, msgs) /\ m \in SigsOf(q, msgs)
    BY <1>7, <1>8 DEF SigsOf
  <2> QED
    BY <2>1, <2>2, <1>8 DEF BasesInv
<1> QED
  BY <1>8, <1>9, <1>10, <1>11 DEF c

\* A set of naturals that is not empty has a least element.
LEMMA LeastOfNaturals ==
    ASSUME NEW S \in SUBSET Nat, S # {}
    PROVE  \E m \in S : \A k \in S : m <= k
<1>1. PICK m \in S : \A k \in S : <<k, m>> \notin OpToRel(<, Nat)
  BY NatLessThanWellFounded, WFMin, ZenonT(40)
<1>2. \A k \in S : ~(k < m)
  BY <1>1, Zenon DEF OpToRel
<1> QED  BY <1>2

\* A sequence of numbers whose neighbours increase is increasing: otherwise
\* there is a first place that is not above all places before it.
LEMMA NeighboursIncrease ==
    ASSUME NEW L \in Nat, NEW f, \A i \in 1..L : f[i] \in Nat,
           \A i \in 1..(L - 1) : f[i] < f[i + 1]
    PROVE  \A i, j \in 1..L : i < j => f[i] < f[j]
<1> DEFINE Bad == {j \in 1..L : \E i \in 1..L : i < j /\ ~(f[i] < f[j])}
<1> SUFFICES ASSUME Bad # {} PROVE FALSE
  OBVIOUS
<1>1. Bad \in SUBSET Nat
  OBVIOUS
<1> HIDE DEF Bad
<1>2. PICK j \in Bad : \A k \in Bad : j <= k
  BY <1>1, LeastOfNaturals
<1>3. PICK i \in 1..L : i < j /\ ~(f[i] < f[j]) /\ j \in 1..L
  BY <1>2 DEF Bad
<1>4. j - 1 \in 1..(L - 1) /\ j - 1 \in 1..L /\ (j - 1) + 1 = j /\ j - 1 \notin Bad
  BY <1>2, <1>3
<1>5. f[j - 1] < f[j]
  BY <1>4
<1>6. CASE i = j - 1
  BY <1>3, <1>5, <1>6
<1>7. CASE i < j - 1
  <2>1. f[i] < f[j - 1]
    BY <1>4, <1>7 DEF Bad
  <2> QED
    BY <1>3, <1>4, <1>5, <2>1
<1> QED
  BY <1>3, <1>6, <1>7

\* While the quorums of successive rosters meet, buckets increase along every
\* chain whatever the clocks show (Coordinator._close_current_bucket).
THEOREM BucketOrder ==
    ASSUME RostersMeet
    PROVE  Spec => []BucketsIncrease
<1>1. IInv /\ OrderInv => BucketsIncrease
  <2> SUFFICES ASSUME IInv, OrderInv, NEW n \in Nodes
               PROVE  \A i, j \in DOMAIN node[n].chain :
                          i < j => node[n].chain[i].bucket < node[n].chain[j].bucket
    BY DEF BucketsIncrease
  <2> DEFINE c == node[n].chain
             L == Len(c)
             f == [i \in 1..L |-> c[i].bucket]
  <2>1. c \in Chain
    BY SentFacts
  <2>2. L \in Nat /\ DOMAIN c = 1..L /\ \A i \in 1..L : c[i].bucket \in Nat
    <3>1. L \in Nat /\ DOMAIN c = 1..L /\ \A i \in 1..L : c[i] \in Block
      BY <2>1 DEF Chain
    <3> QED
      BY <3>1 DEF Block
  <2>3. \A i \in 1..(L - 1) : c[i].bucket < c[i + 1].bucket
    BY BucketsAdvance, ZenonT(40)
  <2> HIDE DEF c, L
  <2>4. /\ \A i \in 1..L : f[i] \in Nat
        /\ \A i \in 1..(L - 1) : f[i] < f[i + 1]
    BY <2>2, <2>3
  <2> HIDE DEF f
  <2>5. \A i, j \in 1..L : i < j => f[i] < f[j]
    BY <2>2, <2>4, NeighboursIncrease
  <2>6. \A i, j \in DOMAIN c : i < j => c[i].bucket < c[j].bucket
    BY <2>2, <2>5 DEF f
  <2> QED
    BY <2>6 DEF c
<1> QED
  BY <1>1, Invariance, OrderInvariance, PTL
=============================================================================
