------------------------------ MODULE ClientInv ------------------------------
(***************************************************************************)
(* The inductive invariant behind the safety properties of the light       *)
(* client.                                                                 *)
(***************************************************************************)
EXTENDS LightClient

Rosters == {RosterAt[b] : b \in Blocks}

AnchorReply == [is : {"anchors"}, head : Blocks, roster : Rosters]
ProofReply == [is : {"proof"}, head : Blocks, roster : Rosters, headers : SUBSET Blocks]
RefusedReply == [is : {"refused"}, reason : {"not yet settled", "compacted"}]

NodeState == [head : Blocks, oldest : Nat, up : BOOLEAN, took : BOOLEAN]
Trust == [is : {"trust"}, head : Blocks, roster : Rosters]
View == [num : Nat, failures : 0..MaxFailures, seen : BOOLEAN]
ClientState(nodes) ==
    [state : {"UNBOOTSTRAPPED", "BOOTSTRAPPING", "READY"}, trust : {None} \cup Trust,
     timer : BOOLEAN, started : BOOLEAN,
     entries : [nodes -> {None} \cup AnchorReply], views : [nodes -> View]]
FanState(nodes) ==
    [state : {"none", "pending", "accepted", "refused"}, targets : SUBSET nodes,
     refused : SUBSET nodes, expired : SUBSET nodes]
Budget ==
    [last : Blocks, timeouts : Nat, losses : Nat, crashes : Nat, compactions : Nat,
     submits : Nat, walks : Nat]

\* What is in flight: a request to a node with the answer that belongs to its
\* kind, or none yet; a node that answered ACCEPTED has the transaction.
IsRequest(r) ==
    r = [kind |-> r.kind, peer |-> r.peer, from |-> r.from, reply |-> r.reply, n |-> r.n]
RequestOK(r, nd) ==
    /\ IsRequest(r) /\ r.peer \in DOMAIN nd /\ r.from \in Nat
    /\ \/ r.reply = None /\ r.kind \in {"anchors", "read", "nth", "submit"}
       \/ r.kind = "anchors" /\ r.reply \in AnchorReply
       \/ r.kind \in {"read", "nth"} /\ r.reply \in ProofReply
       \/ r.kind = "read" /\ r.reply \in RefusedReply
       \/ /\ r.kind = "submit" /\ r.reply \in SubmitAnswers
          /\ r.reply.is = "ACCEPTED" => nd[r.peer].took

\* What the client trusts, and where it is in its life.
ClientOK(c, nodes) ==
    /\ c \in ClientState(nodes)
    /\ c.state = "READY" <=> c.trust # None
    /\ ~c.started => c.state = "UNBOOTSTRAPPED"

\* The application's reader, whose request matters only as something to compare.
ReaderOK(rd) ==
    /\ rd = [pc |-> rd.pc, request |-> rd.request, outcome |-> rd.outcome, shown |-> rd.shown]
    /\ rd.pc \in {"idle", "waiting", "again"} /\ rd.shown \in Blocks \cup {0}

\* A submission: only its targets are asked, and refuse; while it is pending
\* each of them refused, expired or is still to answer, and not all refused.
Asked(rs) == {r.peer : r \in {x \in rs : x.kind = "submit"}}
FanOK(f, rs, nd) ==
    /\ f \in FanState(DOMAIN nd)
    /\ Asked(rs) \subseteq f.targets /\ f.refused \subseteq f.targets
    /\ f.state = "none" => f.targets = {}
    /\ f.state = "pending" =>
          f.targets \subseteq f.refused \cup f.expired \cup Asked(rs) /\ f.refused # f.targets
    /\ f.state = "accepted" => \E p \in f.targets : nd[p].took
    /\ f.state = "refused" => f.refused = f.targets

ClientInv ==
    /\ IsFiniteSet(Nodes) /\ node \in [Nodes -> NodeState]
    /\ clock \in Nat /\ budget \in Budget
    /\ ClientOK(client, Nodes)
    /\ \A r \in requests : RequestOK(r, node)
    /\ ReaderOK(reader)
    /\ FanOK(fan, requests, node)
=============================================================================
