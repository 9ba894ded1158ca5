---------------------------- MODULE ConsensusInv ----------------------------
(***************************************************************************)
(* The inductive invariant behind the safety properties of Consensus: what *)
(* a node's record, taken with all messages sent so far, always satisfies. *)
(* It is stated for a record s in the middle of a handler as well, where   *)
(* the messages in the outbox count as sent.                               *)
(***************************************************************************)
EXTENDS Consensus

Sent(s, M) == M \cup s.outbox

\* Every signature of n names a bucket before b.
SignedBelow(n, M, b) ==
    \A m \in M : m.frm = n /\ m.type \in {"SIG", "SETTLE_SIG"} => m.bucket < b

SettleSignedBelow(n, M, b) ==
    \A m \in M : m.frm = n /\ m.type = "SETTLE_SIG" => m.bucket < b

\* n signed one slice and one block per bucket.
SignedOnce(n, M) ==
    \A m, k \in M : /\ m.frm = n /\ k.frm = n
                    /\ m.type \in {"SIG", "SETTLE_SIG"} /\ k.type = m.type
                    /\ k.bucket = m.bucket
                    => k = m

\* The members that signed a slice, and those that signed its anchors.
Ratifiers(prev, b, txs, M) == {q \in Roster(prev) : Sig(q, b, prev, txs) \in M}
Settlers(prev, b, txs, M) == {q \in Roster(prev) : SettleSig(q, b, prev, txs) \in M}

Ratified(prev, b, txs, M) ==
    /\ Roster(prev) # {}
    /\ Cardinality(Ratifiers(prev, b, txs, M)) >= QuorumOf(prev)

\* p is the chain c as it was some blocks ago.
Below(p, c) == Len(p) <= Len(c) /\ p = SubSeq(c, 1, Len(p))

Base(c, i) == SubSeq(c, 1, i - 1)

\* A coordinator is past every bucket it signed for, and not ahead of its clock.
ClockInv(s, n, now, M) ==
    /\ SignedBelow(n, M, s.current_bucket)
    /\ s.current_bucket <= BucketOf(now)

RoundInv(s, n, M) ==
    LET r == s.current_round
    IN  /\ r.state # "NONE" =>
               /\ r.bucket < s.current_bucket
               /\ SettleSignedBelow(n, M, r.bucket)
               /\ n \in Roster(r.prev)
               /\ Below(r.prev, s.chain)
        /\ r.state = "COLLECT" => SignedBelow(n, M, r.bucket)
        /\ r.state \in {"FINALIZE", "GONE", "ABANDONED"} =>
               r.slice \cap Settled(r.prev) = {}
        /\ \A m \in r.sigs : /\ m.type = "SIG" /\ m.bucket = r.bucket
                             /\ m.prev = r.prev /\ m.frm \in Roster(r.prev)
        /\ r.state = "GONE" => Cardinality(Agreeing(r)) >= QuorumOf(r.prev)

SettlingInv(s, n, M) ==
    LET g == s.settling
    IN  g.state # "NONE" =>
            /\ Below(g.prev, s.chain)
            /\ Ratified(g.prev, g.bucket, g.txs, M)
            /\ g.sigs \subseteq Settlers(g.prev, g.bucket, g.txs, M)
            /\ g.txs \cap Settled(g.prev) = {}

\* Block i of c was ratified and settled by quorums and is new to the chain.
BlockInv(c, i, M) ==
    /\ Ratified(Base(c, i), c[i].bucket, c[i].txs, M)
    /\ Cardinality(Settlers(Base(c, i), c[i].bucket, c[i].txs, M)) >= QuorumOf(Base(c, i))
    /\ c[i].txs \cap Settled(Base(c, i)) = {}

ChainInv(c, M) == \A i \in DOMAIN c : BlockInv(c, i, M)

\* All of it, for node n in state s at time now with messages M sent before.
Local(s, n, now, M) ==
    /\ s \in NodeType(Sent(s, M))
    /\ \A m \in s.outbox : m.frm = n
    /\ SignedOnce(n, Sent(s, M))
    /\ ClockInv(s, n, now, Sent(s, M))
    /\ RoundInv(s, n, Sent(s, M))
    /\ SettlingInv(s, n, Sent(s, M))
    /\ ChainInv(s.chain, Sent(s, M))

\* The inductive invariant of Spec.
IInv == TypeOK /\ \A n \in Nodes : Local(node[n], n, clock[n], msgs)
-----------------------------------------------------------------------------
(* What keeps a node's slots and its signatures in order                   *)

\* A settlement is of a bucket that was closed, and a round beside it is of a
\* later one, opened when the settlement was past its deadline.
SlotsInv(s, now) ==
    LET r == s.current_round
        g == s.settling
    IN  g.state # "NONE" =>
            /\ g.bucket < s.current_bucket
            /\ r.state # "NONE" => g.bucket < r.bucket /\ now >= AbandonBy(g.bucket)

\* The slices that n signed.
SigsOf(n, M) == {m \in M : m.frm = n /\ m.type = "SIG"}

\* n never signs a slice on a shorter base than before.
BasesInv(s, n, M) ==
    /\ \A m \in SigsOf(n, M) : Len(m.prev) <= Len(s.chain)
    /\ s.current_round.state = "COLLECT" =>
           \A m \in SigsOf(n, M) : Len(m.prev) <= Len(s.current_round.prev)
    /\ \A m, k \in SigsOf(n, M) : m.bucket < k.bucket => Len(m.prev) <= Len(k.prev)

Orderly(s, n, now, M) == SlotsInv(s, now) /\ BasesInv(s, n, Sent(s, M))

\* No handler leaves a ratified round behind.
OrderInv ==
    /\ \A n \in Nodes : Orderly(node[n], n, clock[n], msgs)
    /\ NoParkedRound

\* Whenever a block changes the roster, every quorum of the new one has a
\* member in common with every quorum of the old one.
RostersMeet ==
    \A c \in Chain, b \in Block :
        \A A \in SUBSET Roster(c), B \in SUBSET Roster(Append(c, b)) :
            /\ Cardinality(A) >= QuorumOf(c)
            /\ Cardinality(B) >= QuorumOf(Append(c, b))
            => A \cap B # {}
=============================================================================
