----------------------------- MODULE OrderLemmas -----------------------------
(***************************************************************************)
(* What the helpers of a coordinator do to the order in which it works:    *)
(* each keeps the slots, the clock and the bases of its signatures as      *)
(* Orderly of ConsensusInv relates them, or moves them in the way its      *)
(* lemma says.  OrderProofs lifts these facts to the steps of the nodes.   *)
(***************************************************************************)
EXTENDS ConsensusLemmas

-----------------------------------------------------------------------------
(* Helpers that open nothing and sign no slice                             *)

\* t is s after some of the things that cannot put a node out of order: slots
\* emptied or taken further, a longer chain, messages other than a SIG.
Steady(s, t) ==
    /\ t.current_bucket = s.current_bucket
    /\ t.settling.state # "NONE" =>
           s.settling.state # "NONE" /\ t.settling.bucket = s.settling.bucket
    /\ t.current_round.state # "NONE" =>
           /\ s.current_round.state # "NONE"
           /\ t.current_round.bucket = s.current_round.bucket
           /\ t.current_round.prev = s.current_round.prev
    /\ t.current_round.state = "COLLECT" => s.current_round.state = "COLLECT"
    /\ Len(s.chain) <= Len(t.chain)
    /\ s.outbox \subseteq t.outbox
    /\ \A m \in t.outbox : m.type = "SIG" => m \in s.outbox

\* The lengths of the chains that the order of a node is about are numbers.
LEMMA Lengths ==
    ASSUME NEW n \in Nodes, NEW now \in Nat, NEW M \in SUBSET Message, NEW s,
           Local(s, n, now, M)
    PROVE  /\ Len(s.chain) \in Nat /\ Len(s.current_round.prev) \in Nat
           /\ s.current_round.bucket \in Nat /\ s.settling.bucket \in Nat
           /\ s.current_bucket \in Nat
           /\ Sent(s, M) \in SUBSET Message
           /\ \A m \in Sent(s, M) : Len(m.prev) \in Nat /\ m.bucket \in Nat
<1>1. /\ s.chain \in Chain /\ s.current_round \in RoundType(Sent(s, M))
      /\ s.settling \in SettlingType /\ s.current_bucket \in Nat
      /\ s.outbox \in SUBSET Message
  BY DEF Local, NodeType
<1>2. \A c \in Chain : Len(c) \in Nat
  BY DEF Chain
<1>3. Sent(s, M) \in SUBSET Message
  BY <1>1 DEF Sent
<1>4. \A m \in Message : m.prev \in Chain /\ m.bucket \in Nat
  BY DEF Message, Broadcast
<1>5. /\ s.current_round.prev \in Chain /\ s.current_round.bucket \in Nat
      /\ s.settling.bucket \in Nat
  BY <1>1 DEF RoundType, SettlingType
<1> QED
  BY <1>1, <1>2, <1>3, <1>4, <1>5

\* Steady changes keep a node in order.
LEMMA SteadyOrderly ==
    ASSUME NEW n \in Nodes, NEW now \in Nat, NEW M \in SUBSET Message, NEW s, NEW t,
           Local(s, n, now, M), Len(t.chain) \in Nat,
           Orderly(s, n, now, M), Steady(s, t)
    PROVE  Orderly(t, n, now, M)
<1>1. SlotsInv(t, now)
  BY DEF Orderly, SlotsInv, Steady
<1>2. SigsOf(n, Sent(t, M)) = SigsOf(n, Sent(s, M))
  BY DEF SigsOf, Sent, Steady
<1>3. /\ \A m \in SigsOf(n, Sent(s, M)) : Len(m.prev) \in Nat
      /\ Len(s.chain) \in Nat /\ Len(t.chain) \in Nat /\ Len(s.chain) <= Len(t.chain)
  BY Lengths DEF SigsOf, Steady
<1>4. \A m \in SigsOf(n, Sent(s, M)) : Len(m.prev) <= Len(t.chain)
  BY <1>3 DEF Orderly, BasesInv
<1>5. t.current_round.state = "COLLECT" =>
          s.current_round.state = "COLLECT" /\ t.current_round.prev = s.current_round.prev
  BY DEF Steady
<1>6. BasesInv(t, n, Sent(t, M))
  BY <1>2, <1>4, <1>5 DEF Orderly, BasesInv
<1> QED
  BY <1>1, <1>6 DEF Orderly

\* Steady changes add up.
LEMMA SteadyTwice ==
    ASSUME NEW K, NEW s \in NodeType(K), NEW t \in NodeType(K), NEW u \in NodeType(K),
           Steady(s, t), Steady(t, u)
    PROVE  Steady(s, u)
<1>1. Len(s.chain) \in Nat /\ Len(t.chain) \in Nat /\ Len(u.chain) \in Nat
  BY DEF NodeType, Chain
<1>2. Len(s.chain) <= Len(u.chain)
  BY <1>1 DEF Steady
<1> QED
  BY <1>2 DEF Steady

\* A change of the round that does not reopen it, with messages that sign nothing.
LEMMA RoundSteady ==
    ASSUME NEW K, NEW s \in NodeType(K), NEW t,
           t.current_bucket = s.current_bucket, t.settling = s.settling, t.chain = s.chain,
           s.current_round.state # "NONE",
           t.current_round.bucket = s.current_round.bucket,
           t.current_round.prev = s.current_round.prev,
           t.current_round.state = "COLLECT" => s.current_round.state = "COLLECT",
           s.outbox \subseteq t.outbox, \A k \in t.outbox \ s.outbox : k.type # "SIG"
    PROVE  Steady(s, t)
<1>1. Len(s.chain) \in Nat
  BY DEF NodeType, Chain
<1> QED
  BY <1>1 DEF Steady

\* _try_ratify: only a round after its cut is ratified.
LEMMA TryRatifySteady ==
    ASSUME NEW K, NEW s \in NodeType(K)
    PROVE  /\ Steady(s, TryRatify(s))
           /\ TryRatify(s).settling = s.settling /\ TryRatify(s).up = s.up
           /\ TryRatify(s).outbox = s.outbox /\ TryRatify(s).chain = s.chain
           /\ TryRatify(s).current_round.state # s.current_round.state =>
                  /\ s.current_round.state = "FINALIZE"
                  /\ TryRatify(s).current_round.state = "GONE"
<1> DEFINE r == s.current_round
           q == [r EXCEPT !.state = "GONE"]
           t == [s EXCEPT !.current_round = q, !.outbox = s.outbox]
<1>1. r \in RoundType(K)
  BY DEF NodeType
<1>2. TryRatify(s) = s \/ (r.state = "FINALIZE" /\ TryRatify(s) = t)
  <2>1. [s EXCEPT !.current_round.state = "GONE"] = t
    BY <1>1, Zenon DEF NodeType, RoundType
  <2> HIDE DEF t
  <2> QED
    BY <2>1 DEF TryRatify
<1>3. /\ q.state = "GONE" /\ q.bucket = r.bucket /\ q.prev = r.prev
      /\ q \in RoundType(K)
  BY <1>1 DEF RoundType
<1>4. Steady(s, s)
  BY DEF Steady, NodeType, Chain
<1>5. /\ t.outbox = s.outbox /\ t.current_bucket = s.current_bucket /\ t.up = s.up
      /\ t.settling = s.settling /\ t.chain = s.chain /\ t.current_round = q
  BY DEF NodeType
<1> HIDE DEF q, t
<1>6. r.state = "FINALIZE" => Steady(s, t)
  BY <1>3, <1>5, RoundSteady
<1> QED
  BY <1>2, <1>3, <1>4, <1>5, <1>6

\* It keeps the record well typed.
LEMMA TryRatifyTyped ==
    ASSUME NEW K, NEW s \in NodeType(K)
    PROVE  TryRatify(s) \in NodeType(K)
<1>1. s.current_round \in RoundType(K)
  BY DEF NodeType
<1>2. [s.current_round EXCEPT !.state = "GONE"] \in RoundType(K)
  BY <1>1 DEF RoundType
<1>3. [s EXCEPT !.current_round.state = "GONE"] \in NodeType(K)
  BY <1>2 DEF NodeType
<1> QED
  BY <1>3 DEF TryRatify

\* What a HELD or BODIES message makes of a node.
Collected(s, n, m) ==
    {Absorb(s, n, m)} \cup {OnHeld(s, n, m, push) : push \in SUBSET s.current_round.bodies}

\* _on_held and _absorb_bodies
LEMMA CollectSteady ==
    ASSUME NEW n \in Nodes, NEW K \in SUBSET Message, NEW s \in NodeType(K),
           NEW m \in K, NEW t \in Collected(s, n, m)
    PROVE  /\ Steady(s, t) /\ t.settling = s.settling /\ t.up = s.up
           /\ t.current_round.state = s.current_round.state
<1> DEFINE r == s.current_round
<1>1. r \in RoundType(K)
  BY DEF NodeType
<1>2. Steady(s, s)
  BY DEF Steady, NodeType, Chain
<1>3. CASE t = Absorb(s, n, m)
  <2> DEFINE fresh == {x \in m.txs \ r.bodies : ValidForBucket(s.chain, x, r.bucket)}
             mine  == Held(n, r.bucket, r.prev, r.bodies \cup fresh)
             q     == [r EXCEPT !.bodies = @ \cup fresh]
             out   == s.outbox \cup {mine}
             u     == [s EXCEPT !.current_round = q, !.outbox = out]
  <2>1. t = s \/ (r.state = "COLLECT" /\ t = u)
    BY <1>1, <1>3 DEF Absorb, NodeType, RoundType
  <2>2. s.outbox \subseteq out /\ \A k \in out \ s.outbox : k.type # "SIG"
    BY DEF Held
  <2>3. fresh \in SUBSET Txs
    BY <1>1 DEF Message, Broadcast
  <2> HIDE DEF fresh, mine
  <2>4. q \in RoundType(K) /\ q.state = r.state /\ q.bucket = r.bucket /\ q.prev = r.prev
    BY <1>1, <2>3 DEF RoundType
  <2>5. /\ u.outbox = out /\ u.current_bucket = s.current_bucket /\ u.up = s.up
        /\ u.settling = s.settling /\ u.chain = s.chain /\ u.current_round = q
    BY DEF NodeType
  <2> HIDE DEF q, out, u
  <2>6. r.state = "COLLECT" => Steady(s, u)
    BY <2>2, <2>4, <2>5, RoundSteady
  <2> QED
    BY <1>2, <2>1, <2>4, <2>5, <2>6
<1>4. CASE \E push \in SUBSET r.bodies : t = OnHeld(s, n, m, push)
  <2>1. PICK push \in SUBSET r.bodies : t = OnHeld(s, n, m, push)
    BY <1>4
  <2> DEFINE mine == Bodies(n, m.frm, r.bucket, r.prev, push)
             out  == IF push = {} THEN s.outbox ELSE s.outbox \cup {mine}
             q    == [r EXCEPT !.holds = {h \in @ : h.frm # m.frm} \cup {m}]
             u    == [s EXCEPT !.current_round = q, !.outbox = out]
  <2>2. t = s \/ (r.state = "COLLECT" /\ t = u)
    BY <1>1, <2>1 DEF OnHeld, NodeType, RoundType
  <2>3. s.outbox \subseteq out /\ \A k \in out \ s.outbox : k.type # "SIG"
    BY DEF Bodies
  <2>4. q \in RoundType(K) /\ q.state = r.state /\ q.bucket = r.bucket /\ q.prev = r.prev
    BY <1>1 DEF RoundType
  <2>5. /\ u.outbox = out /\ u.current_bucket = s.current_bucket /\ u.up = s.up
        /\ u.settling = s.settling /\ u.chain = s.chain /\ u.current_round = q
    BY DEF NodeType
  <2> HIDE DEF q, out, u
  <2>6. r.state = "COLLECT" => Steady(s, u)
    BY <2>3, <2>4, <2>5, RoundSteady
  <2> QED
    BY <1>2, <2>2, <2>4, <2>5, <2>6
<1> QED
  BY <1>3, <1>4 DEF Collected

\* _on_sig
LEMMA OnSigSteady ==
    ASSUME NEW K \in SUBSET Message, NEW s \in NodeType(K), NEW m \in K,
           ForRound(s, m)
    PROVE  /\ Steady(s, OnSig(s, m))
           /\ OnSig(s, m).settling = s.settling /\ OnSig(s, m).up = s.up
           /\ OnSig(s, m).current_round.state # s.current_round.state =>
                  /\ s.current_round.state = "FINALIZE"
                  /\ OnSig(s, m).current_round.state = "GONE"
<1> DEFINE r == s.current_round
           q == [r EXCEPT !.sigs = @ \cup {m}]
           t == [s EXCEPT !.current_round = q, !.outbox = s.outbox]
<1>1. r \in RoundType(K) /\ r.state # "NONE"
  BY DEF NodeType, ForRound
<1>2. OnSig(s, m) = s \/ OnSig(s, m) = TryRatify(t)
  <2>1. [s EXCEPT !.current_round.sigs = @ \cup {m}] = t
    BY <1>1, Zenon DEF NodeType, RoundType
  <2> HIDE DEF t
  <2> QED
    BY <2>1 DEF OnSig
<1>3. Steady(s, s)
  BY DEF Steady, NodeType, Chain
<1>4. /\ q.state = r.state /\ q.bucket = r.bucket /\ q.prev = r.prev
      /\ q \in RoundType(K)
  BY <1>1 DEF RoundType
<1> HIDE DEF q
<1>5. t \in NodeType(K)
  BY <1>4, Zenon DEF NodeType
<1>6. /\ t.outbox = s.outbox /\ t.current_bucket = s.current_bucket /\ t.up = s.up
      /\ t.settling = s.settling /\ t.chain = s.chain /\ t.current_round = q
  BY DEF NodeType
<1> HIDE DEF t
<1>s. Steady(s, t)
  BY <1>1, <1>4, <1>6, RoundSteady
<1>7. TryRatify(t) \in NodeType(K) /\ Steady(t, TryRatify(t))
  BY <1>5, TryRatifySteady, TryRatifyTyped
<1> QED
  BY <1>2, <1>3, <1>4, <1>5, <1>6, <1>7, <1>s, SteadyTwice, TryRatifySteady
\* DropAbandoned and the second half of Round.tick
LEMMA AbandonSteady ==
    ASSUME NEW K, NEW s \in NodeType(K), NEW now,
           NEW t \in {DropAbandoned(s), AbandonLate(s, now)}
    PROVE  /\ Steady(s, t) /\ t.settling = s.settling /\ t.up = s.up
           /\ t.outbox = s.outbox /\ t.chain = s.chain
           /\ t.current_round.state \in {s.current_round.state, "NONE", "ABANDONED"}
<1> DEFINE r == s.current_round
           q == [r EXCEPT !.state = "ABANDONED"]
           u == [s EXCEPT !.current_round = q]
           v == [s EXCEPT !.current_round = NoRound]
<1>1. r \in RoundType(K)
  BY DEF NodeType
<1>2. t = s \/ (r.state = "FINALIZE" /\ t = u) \/ t = v
  <2>1. [s EXCEPT !.current_round.state = "ABANDONED"] = u
    BY <1>1 DEF NodeType, RoundType
  <2> HIDE DEF u
  <2> QED
    BY <2>1 DEF DropAbandoned, AbandonLate
<1>3. q.state = "ABANDONED" /\ q.bucket = r.bucket /\ q.prev = r.prev
  BY <1>1 DEF RoundType
<1>4. Steady(s, s) /\ Len(s.chain) \in Nat
  BY DEF Steady, NodeType, Chain
<1>5. /\ u.outbox = s.outbox /\ u.current_bucket = s.current_bucket /\ u.up = s.up
      /\ u.settling = s.settling /\ u.chain = s.chain /\ u.current_round = q
  BY DEF NodeType
<1>6. /\ v.outbox = s.outbox /\ v.current_bucket = s.current_bucket /\ v.up = s.up
      /\ v.settling = s.settling /\ v.chain = s.chain /\ v.current_round.state = "NONE"
  BY DEF NodeType, NoRound
<1> HIDE DEF q, u, v
<1>7. r.state = "FINALIZE" => Steady(s, u)
  BY <1>3, <1>5, RoundSteady
<1>8. Steady(s, v)
  BY <1>4, <1>6 DEF Steady
<1> QED
  BY <1>2, <1>3, <1>4, <1>5, <1>6, <1>7, <1>8

\* A commit never shortens the chain.
LEMMA CommitGrows ==
    ASSUME NEW K, NEW s \in NodeType(K)
    PROVE  /\ Len(CommitBlock(s)) \in Nat /\ Len(s.chain) \in Nat
           /\ Len(s.chain) <= Len(CommitBlock(s))
<1>1. s.chain \in Chain /\ s.settling \in SettlingType
  BY DEF NodeType
<1>2. [bucket |-> s.settling.bucket, txs |-> s.settling.txs] \in Block
  BY <1>1 DEF SettlingType, Block
<1> QED
  BY <1>1, <1>2 DEF CommitBlock, Chain

\* A change of the settlement that opens none.
LEMMA SettlementSteady ==
    ASSUME NEW K, NEW s \in NodeType(K), NEW t,
           t.current_bucket = s.current_bucket, t.current_round = s.current_round,
           t.outbox = s.outbox, t.chain = s.chain \/ t.chain = CommitBlock(s),
           t.settling.state = "NONE" \/ (/\ s.settling.state # "NONE"
                                         /\ t.settling.bucket = s.settling.bucket)
    PROVE  Steady(s, t)
BY CommitGrows DEF Steady

\* SettleRound.receive and SettleRound.tick
LEMMA OnSettleSteady ==
    ASSUME NEW K, NEW s \in NodeType(K), NEW m, NEW now,
           NEW t \in {OnSettleSig(s, m), SettleTick(s, now)}
    PROVE  /\ Steady(s, t) /\ t.current_round = s.current_round /\ t.up = s.up
           /\ t.outbox = s.outbox /\ t.settling.bucket = s.settling.bucket
<1> DEFINE g == s.settling
           h == [g EXCEPT !.sigs = @ \cup {m.frm}]
           d == [g EXCEPT !.state = "ABANDONED"]
           u == [s EXCEPT !.settling = h]
           v == [s EXCEPT !.settling = d]
<1>1. g \in SettlingType
  BY DEF NodeType
<1>2. t = s \/ (g.state # "NONE" /\ t \in {u, v})
  <2>1. /\ [s EXCEPT !.settling.sigs = @ \cup {m.frm}] = u
        /\ [s EXCEPT !.settling.state = "ABANDONED"] = v
    BY <1>1 DEF NodeType, SettlingType
  <2> HIDE DEF u, v
  <2> QED
    BY <2>1 DEF OnSettleSig, SettleTick
<1>3. h.bucket = g.bucket /\ d.bucket = g.bucket
  BY <1>1 DEF SettlingType
<1>4. \A w \in {u, v} : /\ w.outbox = s.outbox /\ w.current_bucket = s.current_bucket
                        /\ w.up = s.up /\ w.chain = s.chain
                        /\ w.current_round = s.current_round /\ w.settling \in {h, d}
  BY DEF NodeType
<1>5. Steady(s, s)
  BY DEF Steady, NodeType, Chain
<1> HIDE DEF h, d, u, v
<1>6. g.state # "NONE" => \A w \in {u, v} : Steady(s, w)
  BY <1>3, <1>4, SettlementSteady
<1> QED
  BY <1>2, <1>3, <1>4, <1>5, <1>6
\* _check_settled: a settlement that has its quorum leaves its slot or ends the
\* process, one that was abandoned leaves its slot.
LEMMA CheckSettledSteady ==
    ASSUME NEW K, NEW s \in NodeType(K)
    PROVE  /\ Steady(s, CheckSettled(s))
           /\ CheckSettled(s).current_round = s.current_round
           /\ CheckSettled(s).outbox = s.outbox
           /\ CheckSettled(s).up =>
                  /\ s.up
                  /\ \/ CheckSettled(s).settling.state = "NONE"
                     \/ /\ CheckSettled(s).settling = s.settling
                        /\ s.settling.state # "ABANDONED" /\ ~HasSettled(s.settling)
<1> DEFINE c == CommitBlock(s)
           left == s.mempool \ Settled(c)
           u == Raise(s)
           v == Raise([s EXCEPT !.chain = c])
           w == [s EXCEPT !.chain = c, !.mempool = left, !.settling = NoSettling]
           f == [s EXCEPT !.settling = NoSettling]
           t == CheckSettled(s)
<1>1. \/ t \in {u, v, w, f}
      \/ t = s /\ s.settling.state # "ABANDONED" /\ ~HasSettled(s.settling)
  BY DEF CheckSettled, DoSettled, FreeSettling
<1> HIDE DEF c, left
<1>2. /\ u.outbox = s.outbox /\ u.current_bucket = s.current_bucket /\ u.up = FALSE
      /\ u.settling = s.settling /\ u.chain = s.chain /\ u.current_round = s.current_round
  BY DEF NodeType, Raise
<1>3. /\ v.outbox = s.outbox /\ v.current_bucket = s.current_bucket /\ v.up = FALSE
      /\ v.settling = s.settling /\ v.chain = c /\ v.current_round = s.current_round
  BY DEF NodeType, Raise
<1>4. /\ w.outbox = s.outbox /\ w.current_bucket = s.current_bucket /\ w.up = s.up
      /\ w.settling.state = "NONE" /\ w.chain = c /\ w.current_round = s.current_round
  BY DEF NodeType, NoSettling
<1>5. /\ f.outbox = s.outbox /\ f.current_bucket = s.current_bucket /\ f.up = s.up
      /\ f.settling.state = "NONE" /\ f.chain = s.chain /\ f.current_round = s.current_round
  BY DEF NodeType, NoSettling
<1>6. s.settling \in SettlingType
  BY DEF NodeType
<1> HIDE DEF t, u, v, w, f
<1>7. /\ Steady(s, s) /\ Steady(s, u) /\ Steady(s, v) /\ Steady(s, w) /\ Steady(s, f)
  BY <1>2, <1>3, <1>4, <1>5, SettlementSteady DEF c
<1> QED
  BY <1>1, <1>2, <1>3, <1>4, <1>5, <1>7 DEF t

\* _on_settle_abandon_event and the first line of _catch_up: a settlement past
\* its deadline leaves its slot.
LEMMA SettlementCaughtUp ==
    ASSUME NEW K, NEW s \in NodeType(K), NEW now \in Nat,
           SettleTick(s, now) \in NodeType(K),
           NEW v, v = CheckSettled(SettleTick(s, now)), v \in NodeType(K)
    PROVE  /\ Steady(s, v)
           /\ v.current_round = s.current_round /\ v.outbox = s.outbox
           /\ v.up => /\ s.up
                      /\ \/ v.settling.state = "NONE"
                         \/ ~(now >= AbandonBy(v.settling.bucket))
<1> DEFINE t == SettleTick(s, now)
<1>1. Steady(s, t) /\ t.current_round = s.current_round /\ t.up = s.up /\ t.outbox = s.outbox
  BY OnSettleSteady
<1>2. Steady(t, v) /\ v.current_round = t.current_round /\ v.outbox = t.outbox
  BY CheckSettledSteady
<1>3. Steady(s, v)
  BY <1>1, <1>2, SteadyTwice
<1>4. ASSUME v.up, v.settling.state # "NONE"
      PROVE  s.up /\ ~(now >= AbandonBy(v.settling.bucket))
  <2>1. /\ t.up /\ v.settling = t.settling /\ t.settling.state # "ABANDONED"
        /\ ~HasSettled(t.settling)
    BY <1>4, CheckSettledSteady
  <2>2. t.settling.state = "COLLECTING"
    BY <1>4, <2>1 DEF NodeType, SettlingType
  <2>3. t = s
    <3>1. [s EXCEPT !.settling.state = "ABANDONED"].settling.state = "ABANDONED"
      BY DEF NodeType, SettlingType
    <3> QED
      BY <2>1, <3>1 DEF SettleTick
  <2> QED
    BY <1>1, <2>1, <2>2, <2>3 DEF SettleTick
<1>5. v.up => s.up
  BY <1>1, CheckSettledSteady
<1> QED
  BY <1>1, <1>2, <1>3, <1>4, <1>5
-----------------------------------------------------------------------------
(* Helpers that sign, promote and open                                     *)

\* _finalize: a signature on the base the round was opened on, which no base
\* that n signed on before is longer than.
LEMMA FinalizeOrderly ==
    ASSUME NEW n \in Nodes, NEW now \in Nat, NEW M \in SUBSET Message, NEW s,
           Local(s, n, now, M), Orderly(s, n, now, M), s.current_round.state = "COLLECT"
    PROVE  /\ Orderly(Finalize(s, n), n, now, M)
           /\ Finalize(s, n).settling = s.settling /\ Finalize(s, n).up = s.up
           /\ Finalize(s, n).current_round.state \in {"FINALIZE", "GONE"}
<1> DEFINE r     == s.current_round
           slice == Screen(s.chain, r.bodies \cap ComputeSlice(r, n))
           mine  == Sig(n, r.bucket, r.prev, slice)
           t     == [s EXCEPT !.current_round.state = "FINALIZE",
                              !.current_round.slice = slice,
                              !.current_round.holds = {},
                              !.current_round.sigs = @ \cup {mine},
                              !.outbox = @ \cup {mine}]
           q     == [r EXCEPT !.state = "FINALIZE", !.slice = slice, !.holds = {},
                              !.sigs = @ \cup {mine}]
           K     == Sent(s, M)
           L     == K \cup {mine}
           f     == Finalize(s, n)
<1>1. s \in NodeType(K) /\ r \in RoundType(K) /\ s.outbox \in SUBSET Message
      /\ r.bodies \in SUBSET Txs /\ r.bucket \in Nat /\ r.prev \in Chain
  BY DEF Local, NodeType, RoundType
<1>2. f = TryRatify(t)
  BY DEF Finalize, SignSlice
<1>3. slice \in SUBSET Txs
  BY <1>1, ScreenIsFresh
<1> HIDE DEF slice
<1>m. /\ mine.frm = n /\ mine.type = "SIG" /\ mine.bucket = r.bucket /\ mine.prev = r.prev
      /\ mine \in Message
  BY <1>1, <1>3, MessagesTyped DEF Sig
<1> HIDE DEF mine
<1>4. /\ t.outbox = s.outbox \cup {mine} /\ t.current_bucket = s.current_bucket
      /\ t.settling = s.settling /\ t.chain = s.chain /\ t.up = s.up /\ t.current_round = q
  BY <1>1 DEF NodeType
<1>t. t = [s EXCEPT !.current_round = q, !.outbox = s.outbox \cup {mine}]
  BY <1>1, Zenon DEF NodeType
<1> HIDE DEF t, r
<1>5. q.state = "FINALIZE" /\ q.bucket = r.bucket /\ q.prev = r.prev /\ q \in RoundType(L)
  BY <1>1, <1>3, ZenonT(40) DEF RoundType
<1>6. t \in NodeType(L)
  <2> DEFINE out == s.outbox \cup {mine}
  <2>1. out \in SUBSET Message
    BY <1>1, <1>m
  <2> HIDE DEF out, q, K, L
  <2> QED
    BY <2>1, <1>1, <1>5, <1>t, Zenon DEF NodeType, out
<1> HIDE DEF q
<1>7. /\ Steady(t, f) /\ f.settling = t.settling /\ f.up = t.up
      /\ f.outbox = t.outbox /\ f.chain = t.chain
      /\ f.current_round.state \in {"FINALIZE", "GONE"}
  BY <1>2, <1>4, <1>5, <1>6, TryRatifySteady
<1> HIDE DEF f
<1>8. SlotsInv(f, now)
  <2>1. /\ f.current_bucket = s.current_bucket /\ f.settling = s.settling
        /\ f.current_round.state # "NONE" /\ f.current_round.bucket = r.bucket
        /\ r.state # "NONE"
    BY <1>4, <1>5, <1>7 DEF Steady, r
  <2> QED
    BY <2>1 DEF Orderly, SlotsInv, r
<1>9. Sent(f, M) = L
  BY <1>4, <1>7 DEF Sent
<1>10. SigsOf(n, L) = SigsOf(n, K) \cup {mine}
  BY <1>m DEF SigsOf
<1>11. \A m \in SigsOf(n, K) : /\ Len(m.prev) <= Len(r.prev) /\ Len(m.prev) <= Len(s.chain)
                               /\ m.bucket < r.bucket /\ m.bucket \in Nat
  BY Lengths DEF Orderly, BasesInv, Local, RoundInv, SignedBelow, SigsOf, r
<1>12. Len(r.prev) \in Nat /\ r.bucket \in Nat /\ Len(r.prev) <= Len(s.chain)
  BY <1>1, Lengths DEF Local, RoundInv, Below, r
<1>13. BasesInv(f, n, L)
  <2>1. \A m, k \in SigsOf(n, K) : m.bucket < k.bucket => Len(m.prev) <= Len(k.prev)
    BY DEF Orderly, BasesInv
  <2> HIDE DEF K, L
  <2>2. \A m, k \in SigsOf(n, L) : m.bucket < k.bucket => Len(m.prev) <= Len(k.prev)
    <3> SUFFICES ASSUME NEW m \in SigsOf(n, L), NEW k \in SigsOf(n, L), m.bucket < k.bucket
                 PROVE  Len(m.prev) <= Len(k.prev)
      OBVIOUS
    <3>1. CASE m = mine
      BY <3>1, <1>10, <1>11, <1>12, <1>m
    <3>2. CASE k = mine
      BY <3>2, <1>10, <1>11, <1>12, <1>m
    <3> QED
      BY <3>1, <3>2, <2>1, <1>10
  <2>3. \A m \in SigsOf(n, L) : Len(m.prev) <= Len(f.chain)
    BY <1>4, <1>7, <1>10, <1>11, <1>12, <1>m
  <2> QED
    BY <1>7, <2>2, <2>3 DEF BasesInv
<1> QED
  BY <1>4, <1>7, <1>8, <1>9, <1>13 DEF Orderly, f
\* Round.tick
LEMMA RoundTickOrderly ==
    ASSUME NEW n \in Nodes, NEW now \in Nat, NEW M \in SUBSET Message, NEW s,
           Local(s, n, now, M), Orderly(s, n, now, M)
    PROVE  LET t == RoundTick(s, n, now)
           IN  /\ Orderly(t, n, now, M) /\ t.settling = s.settling /\ t.up = s.up
               /\ t.current_round.state = "GONE" => s.current_round.state \in {"COLLECT", "GONE"}
               /\ t.current_round.state = "FINALIZE" =>
                      s.current_round.state \in {"COLLECT", "FINALIZE"}
               /\ s.current_round.state = "NONE" => t.current_round.state = "NONE"
<1> DEFINE f == IF s.current_round.state = "COLLECT" /\ now >= CloseBy(s.current_round.bucket)
                THEN Finalize(s, n) ELSE s
           t == AbandonLate(f, now)
<1>1. /\ Local(f, n, now, M) /\ Orderly(f, n, now, M) /\ f.settling = s.settling /\ f.up = s.up
      /\ f = s \/ (/\ s.current_round.state = "COLLECT"
                   /\ f.current_round.state \in {"FINALIZE", "GONE"})
  BY FinalizeOrderly, FinalizeLocal
<1>2. t = RoundTick(s, n, now)
  BY DEF RoundTick
<1>3. Local(t, n, now, M)
  BY <1>2, RoundTickLocal
<1> HIDE DEF f
<1>4. /\ Steady(f, t) /\ t.settling = f.settling /\ t.up = f.up
      /\ t.current_round.state \in {f.current_round.state, "ABANDONED"}
      /\ f.current_round.state = "NONE" => t = f
  <2>1. f \in NodeType(Sent(f, M))
    BY <1>1 DEF Local
  <2>2. t = f \/ t.current_round.state = "ABANDONED"
    BY <2>1 DEF AbandonLate, NodeType, RoundType
  <2> QED
    BY <2>1, <2>2, AbandonSteady, Zenon DEF AbandonLate
<1> HIDE DEF t
<1>5. Orderly(t, n, now, M)
  BY <1>1, <1>3, <1>4, Lengths, SteadyOrderly
<1> QED
  BY <1>1, <1>2, <1>4, <1>5

\* A round leaves its slot.
LEMMA EmptyRoundSteady ==
    ASSUME NEW K, NEW s \in NodeType(K), NEW t, t = [s EXCEPT !.current_round = NoRound]
    PROVE  /\ Steady(s, t) /\ t.settling = s.settling /\ t.up = s.up
           /\ t.current_round.state = "NONE"
<1>1. /\ t.outbox = s.outbox /\ t.current_bucket = s.current_bucket /\ t.up = s.up
      /\ t.settling = s.settling /\ t.chain = s.chain /\ t.current_round.state = "NONE"
      /\ Len(s.chain) \in Nat
  BY DEF NodeType, NoRound, Chain
<1> QED
  BY <1>1 DEF Steady

\* _check_ratified: a ratified round leaves its slot when the settling slot is
\* free, and what it leaves behind is a settlement of a closed bucket.
LEMMA CheckRatifiedOrderly ==
    ASSUME NEW n \in Nodes, NEW now \in Nat, NEW M \in SUBSET Message, NEW s,
           Local(s, n, now, M), Orderly(s, n, now, M)
    PROVE  LET t == CheckRatified(s, n)
           IN  /\ Orderly(t, n, now, M) /\ t.up = s.up
               /\ IF s.current_round.state = "GONE" /\ s.settling.state = "NONE"
                  THEN t.current_round.state = "NONE"
                  ELSE t = s
<1> SUFFICES ASSUME s.current_round.state = "GONE", s.settling.state = "NONE"
             PROVE  LET t == Promote(s, n)
                    IN  /\ Orderly(t, n, now, M) /\ t.up = s.up
                        /\ t.current_round.state = "NONE"
  BY DEF CheckRatified
<1> DEFINE r    == s.current_round
           mine == SettleSig(n, r.bucket, r.prev, r.slice)
           g    == [state |-> "COLLECTING", bucket |-> r.bucket, prev |-> r.prev,
                    txs |-> r.slice, sigs |-> {n}]
           u    == [s EXCEPT !.current_round = NoRound]
           t    == [s EXCEPT !.current_round = NoRound, !.settling = g,
                             !.outbox = @ \cup {mine}]
<1>1. Promote(s, n) \in {u, t}
  BY DEF Promote
<1>2. s \in NodeType(Sent(s, M)) /\ r.bucket < s.current_bucket
  BY DEF Local, RoundInv
<1>3. Orderly(u, n, now, M) /\ u.up = s.up /\ u.current_round.state = "NONE"
  <2>1. Steady(s, u) /\ u.up = s.up /\ u.current_round.state = "NONE"
    BY <1>2, EmptyRoundSteady, ZenonT(40)
  <2>2. Local(u, n, now, M)
    BY EmptyRoundLocal
  <2> HIDE DEF u
  <2> QED
    BY <2>1, <2>2, Lengths, SteadyOrderly
<1>4. Orderly(t, n, now, M) /\ t.up = s.up /\ t.current_round.state = "NONE"
  <2>1. g.bucket = r.bucket /\ mine.type = "SETTLE_SIG"
    BY DEF SettleSig
  <2> HIDE DEF g, mine
  <2>2. /\ t.outbox = s.outbox \cup {mine} /\ t.current_bucket = s.current_bucket
        /\ t.up = s.up /\ t.settling = g /\ t.chain = s.chain
        /\ t.current_round.state = "NONE"
    BY <1>2 DEF NodeType, NoRound
  <2> HIDE DEF t
  <2>3. SlotsInv(t, now)
    BY <1>2, <2>1, <2>2 DEF SlotsInv
  <2>4. SigsOf(n, Sent(t, M)) = SigsOf(n, Sent(s, M))
    BY <2>1, <2>2 DEF SigsOf, Sent
  <2>5. BasesInv(t, n, Sent(t, M))
    BY <2>2, <2>4 DEF Orderly, BasesInv
  <2> QED
    BY <2>2, <2>3, <2>5 DEF Orderly
<1> HIDE DEF t, u
<1> QED
  BY <1>1, <1>3, <1>4

\* The deadline of a bucket passes as the clock leaves the bucket after it
\* (Coordinator._abandon_by).
LEMMA DeadlinePassed ==
    ASSUME NEW now \in Nat, NEW b \in Nat, b + 2 <= BucketOf(now)
    PROVE  now >= AbandonBy(b)
<1> DEFINE k == now \div BlockTime
<1>1. BlockTime \in Nat \ {0}
  BY TimeAssumption
<1>2. k \in Nat /\ BlockTime * k <= now
  BY <1>1
<1>3. b + 2 <= k
  BY DEF BucketOf
<1> HIDE DEF k
<1>4. BlockTime * (b + 2) <= BlockTime * k
  BY <1>1, <1>2, <1>3
<1> QED
  BY <1>1, <1>2, <1>4 DEF AbandonBy, BucketStart
\* _close_current_bucket: a round opens beside a settlement only once the
\* settlement is past its deadline.
LEMMA CloseCurrentBucketOrderly ==
    ASSUME NEW n \in Nodes, NEW now \in Nat, NEW M \in SUBSET Message, NEW s,
           Local(s, n, now, M), Orderly(s, n, now, M), NEW behind
    PROVE  LET t == CloseCurrentBucket(s, n, now, behind)
           IN  /\ Orderly(t, n, now, M) /\ t.up = s.up /\ t.settling = s.settling
               /\ \/ t.current_round = s.current_round
                  \/ t.current_round.state = "COLLECT"
<1> DEFINE b    == BucketOf(now) - 1
           u    == [s EXCEPT !.current_bucket = b + 1]
           mine == Held(n, b, s.chain, s.mempool)
           q    == NewRound(b, s.chain, s.mempool)
           t    == [s EXCEPT !.current_round = q, !.outbox = @ \cup {mine},
                             !.current_bucket = b + 1]
           c    == CloseCurrentBucket(s, n, now, behind)
<1>1. s \in NodeType(Sent(s, M)) /\ s.chain \in Chain /\ s.current_bucket \in Nat
      /\ BucketOf(now) \in Nat
  BY BucketMonotone DEF Local, NodeType
<1>2. \/ c = s
      \/ s.current_round.state = "NONE" /\ s.current_bucket <= b /\ c \in {u, t}
  <2> HIDE DEF q, mine
  <2>1. [[s EXCEPT !.current_round = q, !.outbox = @ \cup {mine}] EXCEPT !.current_bucket = b + 1]
          = t
    BY <1>1, ZenonT(40) DEF NodeType
  <2> HIDE DEF t, u, b
  <2>2. \/ c = s
        \/ s.current_round.state = "NONE" /\ ~(b < s.current_bucket) /\ c \in {u, t}
    BY <2>1, ZenonT(40) DEF CloseCurrentBucket, OpenRound, q, mine, u, b
  <2> QED
    BY <1>1, <2>2 DEF b
<1>3. /\ q.state = "COLLECT" /\ q.bucket = b /\ q.prev = s.chain
      /\ mine.type = "HELD"
  BY DEF NewRound, NoRound, Held
<1> HIDE DEF q, mine
<1>4. /\ u.outbox = s.outbox /\ u.current_bucket = b + 1 /\ u.up = s.up
      /\ u.settling = s.settling /\ u.chain = s.chain /\ u.current_round = s.current_round
  BY <1>1 DEF NodeType
<1>5. /\ t.outbox = s.outbox \cup {mine} /\ t.current_bucket = b + 1 /\ t.up = s.up
      /\ t.settling = s.settling /\ t.chain = s.chain /\ t.current_round = q
  BY <1>1 DEF NodeType
<1> HIDE DEF t, u, c
<1> SUFFICES ASSUME s.current_round.state = "NONE", s.current_bucket <= b
             PROVE  Orderly(u, n, now, M) /\ Orderly(t, n, now, M)
  BY <1>2, <1>3, <1>4, <1>5 DEF c
<1>6. /\ s.settling.state # "NONE" => s.settling.bucket < s.current_bucket
      /\ s.settling.bucket \in Nat /\ b \in Nat
  BY <1>1, Lengths DEF Orderly, SlotsInv
<1>7. Orderly(u, n, now, M)
  <2>1. SlotsInv(u, now)
    BY <1>1, <1>4, <1>6 DEF SlotsInv
  <2>2. Sent(u, M) = Sent(s, M)
    BY <1>4 DEF Sent
  <2> QED
    BY <1>4, <2>1, <2>2 DEF Orderly, BasesInv
<1>8. Orderly(t, n, now, M)
  <2>1. ASSUME s.settling.state # "NONE"
        PROVE  /\ s.settling.bucket < b + 1 /\ s.settling.bucket < b
               /\ now >= AbandonBy(s.settling.bucket)
    <3>1. s.settling.bucket < b /\ s.settling.bucket + 2 <= BucketOf(now)
      BY <1>1, <1>6, <2>1
    <3> QED
      BY <1>6, <3>1, DeadlinePassed
  <2>2. SlotsInv(t, now)
    BY <1>3, <1>5, <2>1 DEF SlotsInv
  <2>3. SigsOf(n, Sent(t, M)) = SigsOf(n, Sent(s, M))
    BY <1>3, <1>5 DEF SigsOf, Sent
  <2>4. BasesInv(t, n, Sent(t, M))
    BY <1>3, <1>5, <2>3 DEF Orderly, BasesInv
  <2> QED
    BY <2>2, <2>4 DEF Orderly
<1> QED
  BY <1>7, <1>8

-----------------------------------------------------------------------------
(* Handlers                                                                *)

\* What a handler may build on: no ratified round is waiting, and a round
\* after its cut has the settling slot to itself.
Tidy(s) ==
    s.up => /\ s.current_round.state # "GONE"
            /\ s.current_round.state = "FINALIZE" => s.settling.state = "NONE"

\* _catch_up
LEMMA CatchUpOrderly ==
    ASSUME NEW n \in Nodes, NEW now \in Nat, NEW M \in SUBSET Message, NEW s,
           Local(s, n, now, M), Orderly(s, n, now, M),
           s.up => s.current_round.state # "GONE", NEW behind
    PROVE  LET t == CatchUp(s, n, now, behind)
           IN  Orderly(t, n, now, M) /\ Tidy(t)
<1> DEFINE settled  == CheckSettled(SettleTick(s, now))
           rounded  == RoundTick(settled, n, now)
           ticked   == DropAbandoned(rounded)
           promoted == CheckRatified(ticked, n)
           t        == CloseCurrentBucket(promoted, n, now, behind)
           K        == Sent(s, M)
<1>1. /\ Local(SettleTick(s, now), n, now, M) /\ Local(settled, n, now, M)
      /\ Local(rounded, n, now, M) /\ Local(ticked, n, now, M)
      /\ Local(promoted, n, now, M)
  BY SettleTickLocal, CheckSettledLocal, RoundTickLocal, DropAbandonedLocal,
     CheckRatifiedLocal, ZenonT(40)
<1>2. /\ Steady(s, settled) /\ settled.current_round = s.current_round
      /\ settled.up => /\ s.up
                       /\ \/ settled.settling.state = "NONE"
                          \/ ~(now >= AbandonBy(settled.settling.bucket))
  <2>1. s \in NodeType(K)
    BY DEF Local
  <2>2. SettleTick(s, now).outbox = s.outbox
    BY <2>1, OnSettleSteady
  <2>3. SettleTick(s, now) \in NodeType(K)
    BY <1>1, <2>2, ZenonT(40) DEF Local, Sent
  <2>4. settled.outbox = s.outbox
    BY <2>2, <2>3, CheckSettledSteady
  <2>5. settled \in NodeType(K)
    BY <1>1, <2>4, ZenonT(40) DEF Local, Sent
  <2> HIDE DEF K
  <2> QED
    BY <2>1, <2>3, <2>5, SettlementCaughtUp
<1>t. t = CatchUp(s, n, now, behind)
  BY DEF CatchUp
<1> HIDE DEF settled
<1>3. Orderly(settled, n, now, M)
  BY <1>1, <1>2, Lengths, SteadyOrderly
<1>4. settled.up /\ settled.current_round.state # "NONE" => settled.settling.state = "NONE"
  BY <1>2, <1>3 DEF Orderly, SlotsInv
<1>5. /\ Orderly(rounded, n, now, M) /\ rounded.settling = settled.settling
      /\ rounded.up = settled.up
      /\ settled.current_round.state = "NONE" => rounded.current_round.state = "NONE"
  BY <1>1, <1>3, RoundTickOrderly
<1> HIDE DEF rounded
<1>6. /\ Steady(rounded, ticked) /\ ticked.settling = rounded.settling
      /\ ticked.up = rounded.up
      /\ ticked.current_round.state \in {rounded.current_round.state, "NONE", "ABANDONED"}
      /\ rounded.current_round.state = "NONE" => ticked = rounded
  BY <1>1, AbandonSteady DEF Local, DropAbandoned
<1> HIDE DEF ticked
<1>7. Orderly(ticked, n, now, M)
  BY <1>1, <1>5, <1>6, Lengths, SteadyOrderly
<1>8. ticked.up /\ ticked.current_round.state # "NONE" => ticked.settling.state = "NONE"
  BY <1>4, <1>5, <1>6
<1>9. /\ Orderly(promoted, n, now, M) /\ promoted.up = ticked.up
      /\ IF ticked.current_round.state = "GONE" /\ ticked.settling.state = "NONE"
         THEN promoted.current_round.state = "NONE"
         ELSE promoted = ticked
  BY <1>1, <1>7, CheckRatifiedOrderly
<1> HIDE DEF promoted
<1>10. Tidy(promoted)
  BY <1>8, <1>9 DEF Tidy
<1>11. /\ Orderly(t, n, now, M) /\ t.up = promoted.up /\ t.settling = promoted.settling
       /\ t.current_round = promoted.current_round \/ t.current_round.state = "COLLECT"
  BY <1>1, <1>9, CloseCurrentBucketOrderly
<1> HIDE DEF t
<1>12. Tidy(t)
  BY <1>10, <1>11 DEF Tidy
<1> QED
  BY <1>11, <1>12, <1>t
==============================================================================
