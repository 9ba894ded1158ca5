---------------------------- MODULE ClientProofs ----------------------------
(***************************************************************************)
(* Proofs about the light client: the types of its state, that what a read *)
(* returns was proved at the head that is trusted when it returns, and     *)
(* that a submission is answered as its nodes answered.                    *)
(***************************************************************************)
EXTENDS ClientInv, FiniteSetTheorems, TLAPS

-----------------------------------------------------------------------------
(* Numbers                                                                 *)

\* A set of naturals that is not empty has a least element.
LEMMA LeastOfNaturals ==
    ASSUME NEW S \in SUBSET Nat, S # {}
    PROVE  \E m \in S : \A k \in S : m <= k
<1>1. PICK m \in S : \A k \in S : <<k, m>> \notin OpToRel(<, Nat)
  BY NatLessThanWellFounded, WFMin, Zenon
<1>2. \A k \in S : ~(k < m)
  BY <1>1, Zenon DEF OpToRel
<1> QED  BY <1>2

\* Min returns the least element of a set of naturals.
LEMMA MinOfNaturals ==
    ASSUME NEW S \in SUBSET Nat, S # {}
    PROVE  Min(S) \in S /\ \A k \in S : Min(S) <= k
BY LeastOfNaturals, Zenon DEF Min

\* Max returns the greatest element of a set of naturals that has a bound.
LEMMA MaxOfBounded ==
    ASSUME NEW n \in Nat, NEW S \in SUBSET (0..n), S # {}
    PROVE  Max(S) \in S /\ \A k \in S : k <= Max(S)
<1> DEFINE T == {n - x : x \in S}
<1>1. \A x \in S : n - x \in Nat
  OBVIOUS
<1> HIDE DEF T
<1>2. T \in SUBSET Nat /\ T # {}
  BY <1>1, Zenon DEF T
<1>3. PICK t \in T : \A k \in T : t <= k
  BY <1>2, LeastOfNaturals
<1>4. PICK m \in S : t = n - m
  BY DEF T
<1>5. \A k \in S : m >= k
  BY <1>3, <1>4 DEF T
<1> QED  BY <1>5, Zenon DEF Max

-----------------------------------------------------------------------------
(* The operators                                                           *)

\* The blocks are numbered from 1.
LEMMA BlockNumbers == \E top \in Nat : Blocks = 1..top
BY ClientAssumption DEF Blocks

\* The smaller of two numbers.
LEMMA MinOfTwo ==
    ASSUME NEW a \in Nat, NEW b \in Nat
    PROVE  Min({a, b}) \in {a, b} /\ Min({a, b}) <= a /\ Min({a, b}) <= b
BY MinOfNaturals

\* At least one report is needed, whatever the number of nodes.
LEMMA NeededPositive ==
    ASSUME NEW n \in Nat
    PROVE  Corroboration(n) \in Nat \ {0}
BY DEF Corroboration, Tolerates, Intersection, Size

\* chain.advance: the walk along a reply ends at a block, and not behind.
LEMMA WalkForward ==
    ASSUME NEW trust \in Trust, NEW reply \in ProofReply
    PROVE  Walk(trust, reply) \in Trust /\ Walk(trust, reply).head >= trust.head
<1>1. PICK top \in Nat : Blocks = 1..top
  BY BlockNumbers
<1> DEFINE S == {trust.head} \cup Above(trust, reply)
<1>2. S \subseteq Blocks /\ trust.head \in S
  BY DEF Above, Trust, ProofReply
<1> HIDE DEF S
<1>3. Max(S) \in S /\ \A k \in S : k <= Max(S)
  <2>1. S \in SUBSET (0..top) /\ S # {}
    BY <1>1, <1>2
  <2> QED
    BY <2>1, MaxOfBounded
<1>4. Max(S) \in Blocks /\ Max(S) >= trust.head
  BY <1>1, <1>2, <1>3, Zenon
<1> QED
  BY <1>4 DEF Walk, Trust, S

\* A reply to a read is a proof or a refusal, and one to nth_prefix a proof.
LEMMA ProofTyped ==
    ASSUME NEW p \in Nodes, node[p] \in NodeState, NEW from \in Nat
    PROVE  /\ Proof(p, from) \in ProofReply \cup RefusedReply
           /\ NthProof(p, from) \in ProofReply
           /\ Anchors(p) \in AnchorReply
<1>1. PICK top \in Nat : Blocks = 1..top
  BY BlockNumbers
<1>2. node[p].head \in Blocks
  BY DEF NodeState
<1>3. HeaderCap \in Nat
  BY ClientAssumption
<1>4. Headers(p, from) \subseteq Blocks
  <2>1. Min({node[p].head, from + HeaderCap}) <= node[p].head
    BY <1>1, <1>2, <1>3, MinOfTwo
  <2>2. Min({node[p].head, from + HeaderCap}) \in Nat
    BY <1>1, <1>2, <1>3, MinOfTwo
  <2> QED
    BY <1>1, <1>2, <2>1, <2>2 DEF Headers
<1>5. RosterAt[node[p].head] \in Rosters
  BY <1>2 DEF Rosters
<1> QED
  BY <1>2, <1>4, <1>5, Zenon DEF Proof, NthProof, Anchors, ProofReply, RefusedReply, AnchorReply, Refused


-----------------------------------------------------------------------------
(* Requests and the submission                                             *)

\* nd2 is nd with heads moved, nodes crashed and transactions taken.
Later(nd, nd2) ==
    DOMAIN nd2 = DOMAIN nd /\ \A p \in DOMAIN nd : nd[p].took => nd2[p].took

LEMMA RequestLater ==
    ASSUME NEW nd, NEW nd2, Later(nd, nd2), NEW r, RequestOK(r, nd)
    PROVE  RequestOK(r, nd2)
BY DEF Later, RequestOK

LEMMA FanLater ==
    ASSUME NEW nd, NEW nd2, Later(nd, nd2), NEW f, NEW rs, FanOK(f, rs, nd)
    PROVE  FanOK(f, rs, nd2)
BY DEF Later, FanOK, FanState

\* Only who is asked to take the transaction matters to a submission.
LEMMA FanAsked ==
    ASSUME NEW nd, NEW f, NEW rs, NEW rs2, Asked(rs2) = Asked(rs), FanOK(f, rs, nd)
    PROVE  FanOK(f, rs2, nd)
BY DEF FanOK

\* Participant.request adds requests that have no answer yet.
LEMMA AskingTyped ==
    ASSUME NEW nd, NEW rs, \A r \in rs : RequestOK(r, nd),
           NEW kind \in {"anchors", "read", "nth", "submit"}, NEW ps \in SUBSET DOMAIN nd,
           NEW from \in Nat
    PROVE  /\ \A r \in Asking(rs, kind, ps, from) : RequestOK(r, nd)
           /\ Asked(Asking(rs, kind, ps, from)) =
                 IF kind = "submit" THEN Asked(rs) \cup ps ELSE Asked(rs)
<1>1. ASSUME NEW p \in ps
      PROVE  /\ RequestOK(RequestTo(rs, kind, p, from), nd)
             /\ RequestTo(rs, kind, p, from).kind = kind
             /\ RequestTo(rs, kind, p, from).peer = p
  BY DEF RequestTo, RequestOK, IsRequest
<1>2. \A r \in Asking(rs, kind, ps, from) : r \in rs \/ \E p \in ps : r = RequestTo(rs, kind, p, from)
  BY DEF Asking
<1>3. \A r \in Asking(rs, kind, ps, from) : RequestOK(r, nd)
  BY <1>1, <1>2
<1>4. /\ rs \subseteq Asking(rs, kind, ps, from)
      /\ \A p \in ps : RequestTo(rs, kind, p, from) \in Asking(rs, kind, ps, from)
  BY DEF Asking
<1>5. Asked(Asking(rs, kind, ps, from)) =
         IF kind = "submit" THEN Asked(rs) \cup ps ELSE Asked(rs)
  BY <1>1, <1>2, <1>4 DEF Asked
<1> QED
  BY <1>3, <1>5

\* A request of another kind that goes leaves the submission alone.
LEMMA AskedWithout ==
    ASSUME NEW rs, NEW r, r.kind # "submit"
    PROVE  Asked(rs \ {r}) = Asked(rs)
BY DEF Asked

-----------------------------------------------------------------------------
(* Steps of the nodes                                                      *)

\* Commit, Compact, Crash and the clock.
LEMMA NodesKeepInv == ASSUME ClientInv, NodeNext PROVE ClientInv'
<1>1. CASE ClockTicks
  BY <1>1 DEF ClockTicks, ClientInv, Nodes
<1>2. ASSUME NEW p \in Nodes, Commit(p) \/ Compact(p) \/ Crash(p)
      PROVE  ClientInv'
  <2>1. node[p] \in NodeState
    BY DEF ClientInv
  <2>2. PICK top \in Nat : Blocks = 1..top
    BY BlockNumbers
  <2>3. PICK s \in NodeState : node' = [node EXCEPT ![p] = s] /\ s.took = node[p].took
    <3>1. CASE Commit(p)
      <4> DEFINE s == [node[p] EXCEPT !.head = @ + 1]
      <4>1. node[p].head \in Blocks /\ node[p].head + 1 \in Blocks
        <5>1. clock \in Nat /\ budget.last \in Blocks /\ node[p].head \in Blocks
          BY <2>1 DEF ClientInv, Budget, NodeState
        <5>2. Min({clock, budget.last}) <= budget.last
          BY <2>2, <5>1, MinOfTwo
        <5>3. Min({clock, budget.last}) \in Nat
          BY <2>2, <5>1, MinOfTwo
        <5> QED
          BY <2>2, <3>1, <5>1, <5>2, <5>3 DEF Commit
      <4>2. s \in NodeState /\ s.took = node[p].took
        BY <2>1, <4>1 DEF NodeState
      <4>3. node' = [node EXCEPT ![p] = s]
        BY <3>1 DEF Commit
      <4> HIDE DEF s
      <4> QED
        BY <4>2, <4>3, Zenon
    <3>2. CASE Compact(p)
      <4> DEFINE s == [node[p] EXCEPT !.oldest = node[p].head]
      <4>1. s \in NodeState /\ s.took = node[p].took
        BY <2>1, <2>2 DEF NodeState
      <4>2. node' = [node EXCEPT ![p] = s]
        BY <3>2 DEF Compact
      <4> HIDE DEF s
      <4> QED
        BY <4>1, <4>2, Zenon
    <3>3. CASE Crash(p)
      <4> DEFINE s == [node[p] EXCEPT !.up = FALSE]
      <4>1. s \in NodeState /\ s.took = node[p].took
        BY <2>1, Zenon DEF NodeState
      <4>2. node' = [node EXCEPT ![p] = s]
        BY <3>3 DEF Crash
      <4> HIDE DEF s
      <4> QED
        BY <4>1, <4>2, Zenon
    <3> QED
      BY <1>2, <3>1, <3>2, <3>3
  <2>4. Nodes' = Nodes /\ node' \in [Nodes -> NodeState] /\ Later(node, node')
    BY <2>3 DEF ClientInv, Later, Nodes
  <2>5. /\ client' = client /\ requests' = requests /\ reader' = reader /\ fan' = fan
        /\ clock' = clock
    BY <1>2 DEF Commit, Compact, Crash
  <2>6. budget' \in Budget
    BY <1>2 DEF Commit, Compact, Crash, Spend, ClientInv, Budget
  <2>7. (\A r \in requests : RequestOK(r, node')) /\ FanOK(fan, requests, node')
    BY <2>4, RequestLater, FanLater DEF ClientInv
  <2> QED
    BY <2>4, <2>5, <2>6, <2>7 DEF ClientInv
<1> QED
  BY <1>1, <1>2 DEF NodeNext

\* A node answers a request in the way of the request's kind.
LEMMA RepliesTyped ==
    ASSUME ClientInv, NEW r \in requests, r.reply = None, NEW reply \in Replies(r),
           NEW nd, DOMAIN nd = DOMAIN node, reply.is = "ACCEPTED" => nd[r.peer].took
    PROVE  RequestOK([r EXCEPT !.reply = reply], nd)
<1>1. /\ RequestOK(r, node) /\ r.peer \in Nodes /\ node[r.peer] \in NodeState /\ r.from \in Nat
      /\ r.kind \in {"anchors", "read", "nth", "submit"}
  BY DEF ClientInv, RequestOK, Nodes
<1> DEFINE q == [r EXCEPT !.reply = reply]
<1>2. /\ IsRequest(q) /\ q.kind = r.kind /\ q.peer = r.peer /\ q.from = r.from
      /\ q.reply = reply
  BY <1>1 DEF RequestOK, IsRequest
<1> HIDE DEF q
<1>3. CASE r.kind = "anchors"
  <2>1. reply = Anchors(r.peer)
    BY <1>3 DEF Replies
  <2> QED
    BY <1>1, <1>2, <1>3, <2>1, ProofTyped DEF RequestOK, q, Nodes
<1>4. CASE r.kind = "read"
  <2>1. reply = Proof(r.peer, r.from)
    BY <1>4 DEF Replies
  <2> QED
    BY <1>1, <1>2, <1>4, <2>1, ProofTyped DEF RequestOK, q, Nodes
<1>5. CASE r.kind = "nth"
  <2>1. reply = NthProof(r.peer, r.from)
    BY <1>5 DEF Replies
  <2> QED
    BY <1>1, <1>2, <1>5, <2>1, ProofTyped DEF RequestOK, q, Nodes
<1>6. CASE r.kind = "submit"
  <2>1. reply \in SubmitAnswers
    BY <1>6 DEF Replies
  <2> QED
    BY <1>1, <1>2, <1>6, <2>1 DEF RequestOK, q, Nodes
<1> QED
  BY <1>1, <1>3, <1>4, <1>5, <1>6

\* Serve: what a node accepts it has taken.
LEMMA ServeKeepsInv ==
    ASSUME ClientInv, NEW r \in requests, NEW reply \in Replies(r), Serve(r, reply)
    PROVE  ClientInv'
<1>1. r.peer \in Nodes /\ node[r.peer] \in NodeState /\ IsRequest(r) /\ r.reply = None
  BY DEF ClientInv, RequestOK, Nodes, Serve
<1> DEFINE s == [node[r.peer] EXCEPT !.took = @ \/ reply.is = "ACCEPTED"]
           q == [r EXCEPT !.reply = reply]
<1>2. node' = [node EXCEPT ![r.peer] = s]
  BY DEF Serve
<1>3. s \in NodeState /\ (s.took <=> node[r.peer].took \/ reply.is = "ACCEPTED")
  BY <1>1, Zenon DEF NodeState
<1> HIDE DEF s
<1>4. Nodes' = Nodes /\ node' \in [Nodes -> NodeState] /\ Later(node, node')
  BY <1>1, <1>2, <1>3 DEF ClientInv, Later, Nodes
<1>5. reply.is = "ACCEPTED" => node'[r.peer].took
  BY <1>1, <1>2, <1>3 DEF Nodes
<1>6. RequestOK(q, node')
  BY <1>1, <1>4, <1>5, RepliesTyped DEF Nodes
<1>7. q.kind = r.kind /\ q.peer = r.peer
  BY <1>1 DEF IsRequest
<1>8. requests' = (requests \ {r}) \cup {q}
  BY DEF Serve
<1> HIDE DEF q
<1>9. Asked(requests') = Asked(requests)
  BY <1>7, <1>8 DEF Asked
<1>10. \A x \in requests' : RequestOK(x, node')
  BY <1>4, <1>6, <1>8, RequestLater DEF ClientInv
<1>11. FanOK(fan, requests', node')
  <2>1. FanOK(fan, requests, node')
    BY <1>4, FanLater DEF ClientInv
  <2> QED
    BY <1>9, <2>1, FanAsked
<1>12. client' = client /\ reader' = reader /\ fan' = fan /\ clock' = clock /\ budget' = budget
  BY DEF Serve
<1> QED
  BY <1>4, <1>10, <1>11, <1>12 DEF ClientInv

-----------------------------------------------------------------------------
(* Steps of the client                                                     *)

\* A step that leaves the nodes, the clock and the submission alone, and asks
\* nobody to take a transaction.
LEMMA ClientStep ==
    ASSUME ClientInv, UNCHANGED <<node, fan, clock>>, budget' \in Budget,
           ClientOK(client', Nodes),
           ReaderOK(reader'), \A r \in requests' : RequestOK(r, node),
           Asked(requests') = Asked(requests)
    PROVE  ClientInv'
<1>1. FanOK(fan, requests', node)
  BY FanAsked DEF ClientInv
<1> QED
  BY <1>1 DEF ClientInv, Nodes

\* start, bootstrap and the stale check ask for anchors.
LEMMA AsksKeepInv ==
    ASSUME ClientInv, Start \/ Bootstrap \/ CheckStalePeers
    PROVE  ClientInv'
<1>1. ToAsk \subseteq Nodes
  BY DEF ToAsk
<1>2. \A ps \in SUBSET Nodes :
          /\ \A r \in Asking(requests, "anchors", ps, 0) : RequestOK(r, node)
          /\ Asked(Asking(requests, "anchors", ps, 0)) = Asked(requests)
  BY AskingTyped DEF ClientInv, Nodes
<1>3. (\A r \in requests' : RequestOK(r, node)) /\ Asked(requests') = Asked(requests)
  BY <1>1, <1>2 DEF Start, Bootstrap, CheckStalePeers, ClientInv
<1>4. ClientOK(client, Nodes)
  BY DEF ClientInv
<1>5. ClientOK(client', Nodes)
  <2>1. CASE Start
    BY <1>4, <2>1, Zenon DEF Start, ClientOK, ClientState
  <2>2. CASE Bootstrap
    BY <1>4, <2>2 DEF Bootstrap, ClientOK, ClientState
  <2>3. CASE CheckStalePeers
    BY <1>4, <2>3, Zenon DEF CheckStalePeers, ClientOK, ClientState
  <2> QED
    BY <2>1, <2>2, <2>3
<1>6. UNCHANGED <<node, fan, clock>> /\ reader' = reader /\ budget' = budget
  BY DEF Start, Bootstrap, CheckStalePeers
<1> QED
  BY <1>3, <1>5, <1>6, ClientStep DEF ClientInv

\* What a step may not do to the trusted head and to what is shown: the body of
\* ReadsCurrent.
ReadStep ==
    /\ client.trust # None /\ client'.trust # None => client'.trust.head >= client.trust.head
    /\ reader'.shown \notin {0, reader.shown} => reader'.shown = client'.trust.head

\* note_read_result
LEMMA NotedTyped ==
    ASSUME NEW nodes, NEW views \in [nodes -> View], NEW p \in nodes, NEW shown \in Blocks \cup {0}
    PROVE  Noted(views, p, shown) \in [nodes -> View]
<1>1. PICK top \in Nat : Blocks = 1..top
  BY BlockNumbers
<1>2. MaxFailures \in Nat /\ views[p] \in View
  BY ClientAssumption
<1>3. Seen(shown) \in View
  BY <1>1, <1>2 DEF Seen, View
<1>4. Min({views[p].failures + 1, MaxFailures}) \in 0..MaxFailures
  <2>1. views[p].failures \in Nat
    BY <1>2 DEF View
  <2>2. Min({views[p].failures + 1, MaxFailures}) \in Nat
    BY <1>2, <2>1, MinOfTwo
  <2>3. Min({views[p].failures + 1, MaxFailures}) <= MaxFailures
    BY <1>2, <2>1, MinOfTwo
  <2> QED
    BY <1>2, <2>2, <2>3
<1> DEFINE w == [views[p] EXCEPT !.failures = Min({@ + 1, MaxFailures}), !.seen = TRUE]
           v == IF shown # 0 THEN Seen(shown) ELSE w
<1>5. w \in View
  BY <1>2, <1>4, Zenon DEF View
<1>6. Noted(views, p, shown) = [views EXCEPT ![p] = v]
  BY DEF Noted
<1> HIDE DEF w
<1>7. v \in View
  BY <1>3, <1>5
<1> HIDE DEF v
<1> QED
  BY <1>6, <1>7

\* resolve_read: trust is kept and walked forward, or lost; what is shown was
\* proved at the head that is trusted then.
LEMMA ResolveReadForward ==
    ASSUME NEW nodes, NEW c, ClientOK(c, nodes), NEW reply \in ProofReply \cup RefusedReply,
           NEW got, got = ResolveRead(c, reply)
    PROVE  /\ ClientOK(got.client, nodes) /\ got.shown \in Blocks \cup {0}
           /\ c.trust # None /\ got.client.trust # None => got.client.trust.head >= c.trust.head
           /\ got.shown # 0 => got.shown = got.client.trust.head
<1>1. PICK top \in Nat : Blocks = 1..top
  BY BlockNumbers
<1>2. ClientOK(TrustLost(c), nodes) /\ TrustLost(c).trust = None
  BY Zenon DEF ClientOK, ClientState, TrustLost
<1>3. c.trust # None => c.trust \in Trust /\ c.trust.head \in Nat
  BY <1>1 DEF ClientOK, ClientState, Trust
<1>4. CASE got.shown = 0 /\ (got.client = c \/ got.client = TrustLost(c))
  BY <1>2, <1>3, <1>4
<1>5. ASSUME reply \in ProofReply, c.trust # None, ~(reply.roster # c.trust.roster),
             Walkable(c.trust, reply)
      PROVE  /\ ClientOK(got.client, nodes) /\ got.shown \in Blocks \cup {0}
             /\ c.trust # None /\ got.client.trust # None =>
                   got.client.trust.head >= c.trust.head
             /\ got.shown # 0 => got.shown = got.client.trust.head
  <2> DEFINE t == Walk(c.trust, reply)
             d == [c EXCEPT !.trust = t]
  <2>1. t \in Trust /\ t.head >= c.trust.head
    BY <1>3, <1>5, WalkForward
  <2>2. reply.is = "proof" /\ reply.head \in Blocks
    BY <1>5 DEF ProofReply
  <2>3. got = [client |-> [c EXCEPT !.trust = t],
               shown |-> IF t.head = reply.head /\ ~Stale(reply.head) THEN reply.head ELSE 0]
    BY <1>5, <2>2 DEF ResolveRead
  <2>4. t # None
    BY <2>1 DEF Trust, None
  <2> HIDE DEF t
  <2>5. ClientOK(d, nodes) /\ d.trust = t
    BY <1>5, <2>1, <2>4 DEF ClientOK, ClientState
  <2>6. /\ got.client = d
        /\ got.shown = IF t.head = reply.head /\ ~Stale(reply.head) THEN reply.head ELSE 0
    BY <2>3
  <2> HIDE DEF d
  <2> QED
    BY <2>1, <2>2, <2>5, <2>6
<1>6. \/ got.shown = 0 /\ (got.client = c \/ got.client = TrustLost(c))
      \/ /\ reply \in ProofReply /\ c.trust # None /\ ~(reply.roster # c.trust.roster)
         /\ Walkable(c.trust, reply)
  <2>1. CASE reply \in RefusedReply
    <3>1. reply.is = "refused"
      BY <2>1, Zenon DEF RefusedReply
    <3> QED
      BY <3>1 DEF ResolveRead
  <2>2. CASE reply \in ProofReply
    <3>1. reply.is = "proof"
      BY <2>2 DEF ProofReply
    <3> QED
      BY <2>2, <3>1 DEF ResolveRead
  <2> QED
    BY <2>1, <2>2
<1> QED
  BY <1>4, <1>5, <1>6

\* What the reader makes of a result.
LEMMA ResolvedTyped ==
    ASSUME ReaderOK(reader), NEW r, NEW shown \in Blocks \cup {0}, Resolved(r, shown)
    PROVE  ReaderOK(reader') /\ reader'.shown \in {reader.shown, shown}
<1>1. CASE ~Waits(r)
  BY <1>1 DEF Resolved
<1>2. CASE Waits(r) /\ shown # 0
  BY <1>2 DEF Resolved, ReaderOK
<1>3. CASE Waits(r) /\ shown = 0
  BY <1>3, ZenonT(40) DEF Resolved, ReaderOK
<1> QED
  BY <1>1, <1>2, <1>3

\* A request that is done with, and is no submission.
LEMMA RequestGone ==
    ASSUME ClientInv, NEW r \in requests, r.kind # "submit", requests' = requests \ {r}
    PROVE  (\A x \in requests' : RequestOK(x, node)) /\ Asked(requests') = Asked(requests)
BY AskedWithout DEF ClientInv

\* on_bootstrap_reply: trust is gained only where there was none, and what the
\* reader was shown is forgotten then.
LEMMA OnAnchorsKeepsInv ==
    ASSUME ClientInv, NEW r \in requests, OnAnchors(r)
    PROVE  ClientInv' /\ ReadStep
<1>1. PICK top \in Nat : Blocks = 1..top
  BY BlockNumbers
<1>2. /\ r.kind = "anchors" /\ r.reply \in AnchorReply /\ r.peer \in Nodes
      /\ ClientOK(client, Nodes) /\ ReaderOK(reader)
  BY Zenon DEF OnAnchors, ClientInv, RequestOK, Nodes
<1>3. UNCHANGED <<node, fan, clock>> /\ budget' = budget /\ requests' = requests \ {r}
  BY Zenon DEF OnAnchors
<1>4. (\A x \in requests' : RequestOK(x, node)) /\ Asked(requests') = Asked(requests)
  BY <1>2, <1>3, RequestGone
<1>5. ClientOK(client', Nodes) /\ ReaderOK(reader') /\ ReadStep
  <2>1. CASE UNCHANGED <<client, reader>>
    <3>1. client.trust # None => client.trust.head \in Nat
      BY <1>1, <1>2 DEF ClientOK, ClientState, Trust
    <3> QED
      BY <1>2, <2>1, <3>1 DEF ReadStep
  <2>2. CASE client.state = "BOOTSTRAPPING"
    <3> DEFINE v == Seen(r.reply.head)
               c == [client EXCEPT !.entries[r.peer] = r.reply, !.views[r.peer] = v]
    <3>1. v \in View
      BY <1>1, <1>2, ClientAssumption DEF Seen, View, AnchorReply
    <3> HIDE DEF v
    <3>2. ClientOK(c, Nodes) /\ c.state = client.state /\ c.trust = client.trust
      BY <1>2, <3>1, Zenon DEF ClientOK, ClientState
    <3>3. client.trust = None
      BY <1>2, <2>2 DEF ClientOK
    <3>4. \/ client' = c /\ reader' = reader
          \/ \E p \in Corroborated(c.entries) :
               /\ client' = [c EXCEPT !.state = "READY",
                    !.trust = [is |-> "trust", head |-> c.entries[p].head,
                               roster |-> c.entries[p].roster]]
               /\ reader' = [reader EXCEPT !.shown = 0]
      BY <2>2, Zenon DEF OnAnchors, v
    <3> HIDE DEF c
    <3>5. CASE client' = c /\ reader' = reader
      BY <1>2, <3>2, <3>3, <3>5 DEF ReadStep
    <3>6. ASSUME NEW p \in Corroborated(c.entries),
                 client' = [c EXCEPT !.state = "READY",
                    !.trust = [is |-> "trust", head |-> c.entries[p].head,
                               roster |-> c.entries[p].roster]],
                 reader' = [reader EXCEPT !.shown = 0]
          PROVE  ClientOK(client', Nodes) /\ ReaderOK(reader') /\ ReadStep
      <4> DEFINE t == [is |-> "trust", head |-> c.entries[p].head,
                       roster |-> c.entries[p].roster]
      <4>1. c.entries[p] \in AnchorReply
        BY <3>2 DEF Corroborated, ClientOK, ClientState
      <4>2. t \in Trust /\ t # None
        BY <4>1 DEF AnchorReply, Trust, None
      <4>3. client' = [c EXCEPT !.state = "READY", !.trust = t]
        BY <3>6
      <4> HIDE DEF t
      <4>4. c.started
        BY <2>2, <3>2 DEF ClientOK
      <4>5. ClientOK(client', Nodes)
        BY <3>2, <4>2, <4>3, <4>4, Zenon DEF ClientOK, ClientState
      <4>6. ReaderOK(reader') /\ reader'.shown = 0
        BY <1>2, <3>6 DEF ReaderOK
      <4> QED
        BY <3>3, <4>5, <4>6 DEF ReadStep
    <3> QED
      BY <3>4, <3>5, <3>6, Zenon
  <2> QED
    BY <2>1, <2>2, Zenon DEF OnAnchors
<1> QED
  BY <1>3, <1>4, <1>5, ClientStep DEF ClientInv

\* The answer to a read.
LEMMA OnReadKeepsInv ==
    ASSUME ClientInv, NEW r \in requests, OnRead(r)
    PROVE  ClientInv' /\ ReadStep
<1>1. /\ r.kind = "read" /\ r.reply \in ProofReply \cup RefusedReply /\ r.peer \in Nodes
      /\ ClientOK(client, Nodes) /\ ReaderOK(reader)
  BY DEF OnRead, ClientInv, RequestOK, Nodes
<1>2. UNCHANGED <<node, fan, clock>> /\ budget' = budget /\ requests' = requests \ {r}
  BY DEF OnRead
<1>3. (\A x \in requests' : RequestOK(x, node)) /\ Asked(requests') = Asked(requests)
  BY <1>1, <1>2, RequestGone
<1>4. PICK got : /\ got = ResolveRead(client, r.reply)
                 /\ client' = [got.client EXCEPT !.views = Noted(@, r.peer, got.shown)]
                 /\ Resolved(r, got.shown)
  BY DEF OnRead
<1>5. /\ ClientOK(got.client, Nodes) /\ got.shown \in Blocks \cup {0}
      /\ client.trust # None /\ got.client.trust # None =>
            got.client.trust.head >= client.trust.head
      /\ got.shown # 0 => got.shown = got.client.trust.head
  BY <1>1, <1>4, ResolveReadForward, ZenonT(40)
<1>6. got.client.views \in [Nodes -> View]
  BY <1>5 DEF ClientOK, ClientState
<1> DEFINE v == Noted(got.client.views, r.peer, got.shown)
<1>7. v \in [Nodes -> View]
  BY <1>1, <1>5, <1>6, NotedTyped
<1>8. client' = [got.client EXCEPT !.views = v]
  BY <1>4
<1> HIDE DEF v
<1>9. ClientOK(client', Nodes) /\ client'.trust = got.client.trust
  BY <1>5, <1>7, <1>8 DEF ClientOK, ClientState
<1>10. ReaderOK(reader') /\ reader'.shown \in {reader.shown, got.shown}
  BY <1>1, <1>4, <1>5, ResolvedTyped
<1>11. ReadStep
  BY <1>5, <1>9, <1>10 DEF ReadStep
<1> QED
  BY <1>2, <1>3, <1>9, <1>10, <1>11, ClientStep DEF ClientInv

\* The answer to nth_prefix.
LEMMA OnNthKeepsInv ==
    ASSUME ClientInv, NEW r \in requests, OnNth(r)
    PROVE  ClientInv' /\ ReadStep
<1>1. /\ r.kind = "nth" /\ r.reply \in ProofReply /\ r.peer \in Nodes
      /\ ClientOK(client, Nodes) /\ ReaderOK(reader)
  BY DEF OnNth, ClientInv, RequestOK, Nodes
<1>2. UNCHANGED <<node, fan, clock>> /\ budget' = budget /\ requests' = requests \ {r}
  BY DEF OnNth
<1>3. (\A x \in requests' : RequestOK(x, node)) /\ Asked(requests') = Asked(requests)
  BY <1>1, <1>2, RequestGone
<1>4. ClientOK(client', Nodes) /\ ReaderOK(reader') /\ ReadStep
  <2>1. CASE client' = client /\ Resolved(r, 0)
    <3>1. ReaderOK(reader') /\ reader'.shown \in {reader.shown, 0}
      BY <1>1, <2>1, ResolvedTyped
    <3>2. client.trust # None => client.trust.head >= client.trust.head
      <4>1. PICK top \in Nat : Blocks = 1..top
        BY BlockNumbers
      <4> QED
        BY <1>1, <4>1 DEF ClientOK, ClientState, Trust
    <3> QED
      BY <1>1, <2>1, <3>1, <3>2 DEF ReadStep
  <2>2. CASE client.trust # None /\ Walkable(client.trust, r.reply)
    <3> DEFINE t == Walk(client.trust, r.reply)
    <3>1. client.trust \in Trust
      BY <1>1, <2>2 DEF ClientOK, ClientState
    <3>2. t \in Trust /\ t.head >= client.trust.head
      BY <1>1, <3>1, WalkForward
    <3>3. /\ client' = [client EXCEPT !.trust = t]
          /\ Resolved(r, IF t.head = r.reply.head THEN t.head ELSE 0)
      BY <2>2 DEF OnNth
    <3> HIDE DEF t
    <3>4. t # None /\ t.head \in Blocks
      BY <3>2 DEF Trust, None
    <3>5. ClientOK(client', Nodes) /\ client'.trust = t
      BY <1>1, <2>2, <3>2, <3>3, <3>4 DEF ClientOK, ClientState
    <3>6. ReaderOK(reader') /\ reader'.shown \in {reader.shown, t.head, 0}
      BY <1>1, <3>3, <3>4, ResolvedTyped
    <3> QED
      BY <3>2, <3>5, <3>6 DEF ReadStep
  <2> QED
    BY <2>1, <2>2 DEF OnNth
<1> QED
  BY <1>2, <1>3, <1>4, ClientStep DEF ClientInv

\* get, nth_prefix, and the ways a read ends without an answer.
LEMMA ReaderKeepsInv == ASSUME ClientInv, ReaderNext PROVE ClientInv' /\ ReadStep
<1>1. ReaderOK(reader) /\ ClientOK(client, Nodes) /\ budget \in Budget
  BY DEF ClientInv
<1>2. client' = client /\ UNCHANGED <<node, fan, clock>>
  BY Zenon DEF ReaderNext, Get, NthPrefix, Issue, GetRaises, GetTimesOut
<1>3. /\ \A x \in requests' : RequestOK(x, node)
      /\ Asked(requests') = Asked(requests)
  <2>1. CASE requests' = requests
    BY <2>1 DEF ClientInv
  <2>2. ASSUME NEW kind \in {"read", "nth"}, NEW p \in Picks, NEW l, Issue(kind, p, l)
        PROVE  /\ \A x \in requests' : RequestOK(x, node)
               /\ Asked(requests') = Asked(requests)
    <3>1. PICK top \in Nat : Blocks = 1..top
      BY BlockNumbers
    <3>2. client.trust.head \in Nat /\ p \in Nodes
      BY <1>1, <2>2, <3>1 DEF Issue, ClientOK, ClientState, Trust, Picks
    <3>3. requests' = Asking(requests, kind, {p}, client.trust.head)
      BY <2>2 DEF Issue
    <3> QED
      BY <3>2, <3>3, AskingTyped DEF ClientInv, Nodes
  <2> QED
    BY <2>1, <2>2 DEF ReaderNext, Get, NthPrefix, GetRaises, GetTimesOut
<1>4. ReaderOK(reader') /\ reader'.shown = reader.shown
  BY <1>1, ZenonT(40) DEF ReaderNext, Get, NthPrefix, Issue, GetRaises, GetTimesOut, ReaderOK
<1>5. budget' \in Budget
  <2>1. CASE budget' = budget
    BY <1>1, <2>1
  <2>2. CASE NthPrefix
    BY <1>1, <2>2 DEF NthPrefix, Issue, Budget
  <2>3. CASE Spend("timeouts")
    BY <1>1, <2>3 DEF Spend, Budget
  <2> QED
    BY <2>1, <2>2, <2>3, Zenon DEF ReaderNext, Get, Issue, GetRaises, GetTimesOut
<1>6. ReadStep
  <2>1. PICK top \in Nat : Blocks = 1..top
    BY BlockNumbers
  <2>2. client.trust # None => client.trust.head \in Nat
    BY <1>1, <2>1 DEF ClientOK, ClientState, Trust
  <2> QED
    BY <1>2, <1>4, <2>2 DEF ReadStep
<1> QED
  BY <1>1, <1>2, <1>3, <1>4, <1>5, <1>6, ClientStep

-----------------------------------------------------------------------------
(* Submission                                                              *)

\* submit: some nodes are asked, and no request but theirs is a submission.
LEMMA SubmitKeepsInv ==
    ASSUME ClientInv, NEW T \in Targets, Submit(T)
    PROVE  ClientInv'
<1>1. T \in SUBSET Nodes /\ T # {} /\ FanOK(fan, requests, node) /\ fan.state = "none"
  <2>1. IsFiniteSet(Nodes)
    BY DEF ClientInv
  <2>2. Needed \in Nat \ {0}
    BY <2>1, FS_CardinalityType, NeededPositive DEF Needed
  <2>3. Cardinality(T) # 0
    BY <2>2 DEF Targets
  <2> QED
    BY <2>3, FS_EmptySet DEF Targets, Submit, ClientInv
<1>2. /\ \A r \in requests' : RequestOK(r, node)
      /\ Asked(requests') = Asked(requests) \cup T
  BY <1>1, AskingTyped DEF Submit, ClientInv, Nodes
<1>3. fan' = [fan EXCEPT !.state = "pending", !.targets = T]
  BY DEF Submit
<1>4. FanOK(fan', requests', node)
  BY <1>1, <1>2, <1>3, Zenon DEF FanOK, FanState, Nodes
<1> QED
  BY <1>2, <1>4 DEF Submit, ClientInv, Nodes

\* _SubmitPeerHandle.on_reply: the first ACCEPTED or the last REFUSED answers.
LEMMA AcknowledgedFan ==
    ASSUME NEW nd, IsFiniteSet(DOMAIN nd), NEW rs, NEW r \in rs, NEW f, FanOK(f, rs, nd),
           r.kind = "submit", NEW verb \in {"ACCEPTED", "REFUSED"},
           verb = "ACCEPTED" => nd[r.peer].took
    PROVE  FanOK(Acknowledged(f, r.peer, verb), rs \ {r}, nd)
<1>1. /\ Asked(rs \ {r}) \subseteq Asked(rs) /\ Asked(rs) \subseteq Asked(rs \ {r}) \cup {r.peer}
      /\ r.peer \in Asked(rs)
  BY DEF Asked
<1>2. r.peer \in f.targets /\ r.peer \in DOMAIN nd /\ f \in FanState(DOMAIN nd)
  BY <1>1 DEF FanOK, FanState
<1>3. CASE f.state = "accepted"
  BY <1>1, <1>3 DEF Acknowledged, FanOK
<1>4. CASE f.state # "accepted" /\ verb = "ACCEPTED"
  <2>1. Acknowledged(f, r.peer, verb) = [f EXCEPT !.state = "accepted"]
    BY <1>4 DEF Acknowledged
  <2> QED
    BY <1>1, <1>2, <1>4, <2>1 DEF FanOK, FanState
<1>5. CASE f.state # "accepted" /\ verb = "REFUSED"
  <2> DEFINE refused == f.refused \cup {r.peer}
             all == Cardinality(refused) >= Cardinality(f.targets)
             g == [f EXCEPT !.refused = refused, !.state = IF all THEN "refused" ELSE @]
  <2>1. Acknowledged(f, r.peer, verb) = g
    BY <1>5 DEF Acknowledged
  <2>2. refused \subseteq f.targets /\ f.targets \subseteq DOMAIN nd
    BY <1>2 DEF FanOK, FanState
  <2>3. all <=> refused = f.targets
    <3>1. IsFiniteSet(f.targets)
      BY <2>2, FS_Subset
    <3>2. /\ Cardinality(refused) \in Nat /\ Cardinality(f.targets) \in Nat
          /\ Cardinality(refused) <= Cardinality(f.targets)
          /\ Cardinality(refused) = Cardinality(f.targets) => refused = f.targets
      BY <2>2, <3>1, FS_Subset, FS_CardinalityType
    <3> QED
      BY <3>2
  <2> HIDE DEF all
  <2>4. /\ g.targets = f.targets /\ g.refused = refused /\ g.expired = f.expired
        /\ g.state = IF all THEN "refused" ELSE f.state
        /\ g \in FanState(DOMAIN nd)
    BY <1>2, <2>2, Zenon DEF FanState
  <2> HIDE DEF g
  <2>5. f.state # "none"
    BY <1>2 DEF FanOK
  <2> QED
    BY <1>1, <1>5, <2>1, <2>2, <2>3, <2>4, <2>5 DEF FanOK, FanState
<1> QED
  BY <1>3, <1>4, <1>5

LEMMA OnSubmitReplyKeepsInv ==
    ASSUME ClientInv, NEW r \in requests, OnSubmitReply(r)
    PROVE  ClientInv' /\ client'.trust = client.trust
<1>1. /\ r.kind = "submit" /\ r.reply \in SubmitAnswers /\ r.peer \in Nodes
      /\ r.reply.is = "ACCEPTED" => node[r.peer].took
      /\ ClientOK(client, Nodes) /\ FanOK(fan, requests, node) /\ IsFiniteSet(Nodes)
  BY Zenon DEF OnSubmitReply, ClientInv, RequestOK, Nodes, AnchorReply, ProofReply, RefusedReply
<1>2. r.reply.is \in {"ACCEPTED", "REFUSED"}
  BY <1>1 DEF SubmitAnswers
<1>3. FanOK(fan', requests', node)
  BY <1>1, <1>2, AcknowledgedFan, Zenon DEF OnSubmitReply, Nodes
<1> DEFINE v == [client.views[r.peer] EXCEPT !.failures = 0, !.seen = TRUE]
<1>4. client.views[r.peer] \in View
  BY <1>1 DEF ClientOK, ClientState
<1>5. v \in View
  <2> DEFINE bound == 0..MaxFailures
  <2>1. 0 \in bound
    BY ClientAssumption
  <2>2. View = [num : Nat, failures : bound, seen : BOOLEAN]
    BY DEF View
  <2> HIDE DEF bound
  <2> QED
    BY <1>4, <2>1, <2>2, Zenon
<1>6. client' = [client EXCEPT !.views[r.peer] = v]
  BY DEF OnSubmitReply
<1> HIDE DEF v
<1>7. ClientOK(client', Nodes) /\ client'.trust = client.trust
  BY <1>1, <1>5, <1>6 DEF ClientOK, ClientState
<1> QED
  BY <1>3, <1>7 DEF OnSubmitReply, ClientInv, Nodes

\* A request expires: a read fails, and a target of the submission is done with.
LEMMA ExpireKeepsInv ==
    ASSUME ClientInv, NEW r \in requests, Expire(r)
    PROVE  ClientInv' /\ ReadStep
<1>1. /\ RequestOK(r, node) /\ ReaderOK(reader) /\ ClientOK(client, Nodes)
      /\ FanOK(fan, requests, node) /\ budget \in Budget
  BY DEF ClientInv
<1>2. /\ client' = client /\ UNCHANGED <<node, clock>> /\ requests' = requests \ {r}
      /\ Resolved(r, 0)
      /\ fan' = [fan EXCEPT !.expired = IF r.kind = "submit" THEN @ \cup {r.peer} ELSE @]
  BY DEF Expire
<1>3. ReaderOK(reader') /\ reader'.shown \in {reader.shown, 0}
  BY <1>1, <1>2, ResolvedTyped
<1>4. FanOK(fan', requests', node)
  <2>1. CASE r.kind = "submit"
    <3>1. /\ Asked(requests') \subseteq Asked(requests) /\ r.peer \in DOMAIN node
          /\ Asked(requests) \subseteq Asked(requests') \cup {r.peer}
      BY <1>1, <1>2, <2>1 DEF Asked, RequestOK
    <3>2. fan' = [fan EXCEPT !.expired = fan.expired \cup {r.peer}]
      BY <1>2, <2>1
    <3> QED
      BY <1>1, <3>1, <3>2 DEF FanOK, FanState
  <2>2. CASE r.kind # "submit"
    <3>1. fan' = fan
      BY <1>1, <1>2, <2>2 DEF FanOK, FanState
    <3>2. Asked(requests') = Asked(requests)
      BY <1>2, <2>2, AskedWithout
    <3> QED
      BY <1>1, <3>1, <3>2, FanAsked
  <2> QED
    BY <2>1, <2>2
<1>5. budget' \in Budget
  BY <1>1 DEF Expire, Spend, Budget
<1>6. ReadStep
  <2>1. PICK top \in Nat : Blocks = 1..top
    BY BlockNumbers
  <2>2. client.trust # None => client.trust.head \in Nat
    BY <1>1, <2>1 DEF ClientOK, ClientState, Trust
  <2> QED
    BY <1>2, <1>3, <2>2 DEF ReadStep
<1> QED
  BY <1>2, <1>3, <1>4, <1>5, <1>6 DEF ClientInv, Nodes

-----------------------------------------------------------------------------
(* The whole                                                               *)

LEMMA ClientInitInv == ClientInit => ClientInv
<1> SUFFICES ASSUME ClientInit PROVE ClientInv
  OBVIOUS
<1>1. PICK top \in Nat : Blocks = 1..top
  BY BlockNumbers
<1>2. PICK c \in ClientCasts :
        /\ node = [p \in c.nodes |-> [head |-> c.from, oldest |-> 1, up |-> TRUE, took |-> FALSE]]
        /\ client = [state |-> "UNBOOTSTRAPPED", trust |-> None,
                     timer |-> FALSE, started |-> FALSE,
                     entries |-> [p \in c.nodes |-> None], views |-> [p \in c.nodes |-> NoView]]
        /\ requests = {}
        /\ reader = [pc |-> "idle", request |-> None, outcome |-> "none", shown |-> 0]
        /\ fan = [state |-> "none", targets |-> {}, refused |-> {}, expired |-> {}]
        /\ clock = c.from
        /\ budget = c.budget
  BY Zenon DEF ClientInit
<1>3. /\ IsFiniteSet(c.nodes) /\ c.from \in Blocks /\ c.budget \in Budget
      /\ MaxFailures \in Nat
  BY ClientAssumption DEF Blocks, Budget
<1>4. Nodes = c.nodes /\ node \in [Nodes -> NodeState]
  BY <1>2, <1>3 DEF Nodes, NodeState
<1>5. ClientOK(client, Nodes)
  BY <1>2, <1>3, <1>4 DEF ClientOK, ClientState, NoView, View
<1>6. ReaderOK(reader)
  BY <1>2 DEF ReaderOK
<1>7. FanOK(fan, requests, node)
  BY <1>2 DEF FanOK, FanState, Asked
<1>8. IsFiniteSet(Nodes) /\ budget \in Budget
  BY <1>2, <1>3, <1>4
<1>9. clock \in Nat /\ \A r \in requests : RequestOK(r, node)
  BY <1>1, <1>2, <1>3
<1> QED
  BY <1>4, <1>5, <1>6, <1>7, <1>8, <1>9 DEF ClientInv

LEMMA ClientNextInv == ClientInv /\ ClientNext => ClientInv' /\ ReadStep
<1> SUFFICES ASSUME ClientInv, ClientNext PROVE ClientInv' /\ ReadStep
  OBVIOUS
<1>1. PICK top \in Nat : Blocks = 1..top
  BY BlockNumbers
<1>2. client.trust # None => client.trust.head \in Nat
  BY <1>1 DEF ClientInv, ClientOK, ClientState, Trust
<1>3. client'.trust = client.trust /\ reader' = reader => ReadStep
  BY <1>2 DEF ReadStep
<1>4. CASE NodeNext
  BY <1>3, <1>4, NodesKeepInv, Zenon DEF NodeNext, ClockTicks, Commit, Compact, Crash
<1>5. CASE ReaderNext
  BY <1>5, ReaderKeepsInv
<1>6. CASE Start \/ Bootstrap \/ CheckStalePeers
  <2>1. client'.trust = client.trust /\ reader' = reader
    BY <1>6, Zenon DEF Start, Bootstrap, CheckStalePeers, ClientInv, ClientOK, ClientState
  <2> QED
    BY <1>3, <1>6, <2>1, AsksKeepInv
<1>7. ASSUME NEW T \in Targets, Submit(T) PROVE ClientInv' /\ ReadStep
  BY <1>3, <1>7, SubmitKeepsInv, Zenon DEF Submit
<1>8. ASSUME NEW r \in requests, Exchange(r) \/ Expire(r) PROVE ClientInv' /\ ReadStep
  <2>1. ASSUME NEW reply \in Replies(r), Serve(r, reply) PROVE ClientInv' /\ ReadStep
    BY <1>3, <2>1, ServeKeepsInv, Zenon DEF Serve
  <2>2. CASE OnAnchors(r)
    BY <2>2, OnAnchorsKeepsInv
  <2>3. CASE OnRead(r)
    BY <2>3, OnReadKeepsInv
  <2>4. CASE OnNth(r)
    BY <2>4, OnNthKeepsInv
  <2>5. CASE OnSubmitReply(r)
    BY <1>3, <2>5, OnSubmitReplyKeepsInv, Zenon DEF OnSubmitReply
  <2>6. CASE Expire(r)
    BY <2>6, ExpireKeepsInv
  <2> QED
    BY <1>8, <2>1, <2>2, <2>3, <2>4, <2>5, <2>6 DEF Exchange
<1> QED
  BY <1>4, <1>5, <1>6, <1>7, <1>8 DEF ClientNext

LEMMA ClientUnchanged == ClientInv /\ UNCHANGED clientVars => ClientInv'
BY DEF ClientInv, clientVars, Nodes

\* Whatever the nodes, the losses and the order of the answers do, the client's
\* trust, its requests, its reader and its submission fit together.
THEOREM ClientInvariance == ClientSpec => []ClientInv
<1>1. ClientInv /\ [ClientNext]_clientVars => ClientInv'
  BY ClientNextInv, ClientUnchanged
<1> QED
  BY <1>1, ClientInitInv, PTL DEF ClientSpec

\* The types of the client's variables: trust exactly when it is READY, trusted
\* and shown blocks that exist, failures within their bound.
THEOREM ClientTypes == ClientSpec => []ClientTypeOK
<1>1. ClientInv => ClientTypeOK
  <2> SUFFICES ASSUME ClientInv PROVE ClientTypeOK
    OBVIOUS
  <2>1. /\ client.state \in {"UNBOOTSTRAPPED", "BOOTSTRAPPING", "READY"}
        /\ client.state = "READY" <=> client.trust # None
        /\ client.trust # None => client.trust.head \in Blocks
        /\ \A p \in Nodes : client.views[p].failures \in 0..MaxFailures
    BY DEF ClientInv, ClientOK, ClientState, Trust, View
  <2>2. /\ reader.shown \in Blocks \cup {0} /\ reader.pc \in {"idle", "waiting", "again"}
        /\ fan.refused \subseteq fan.targets
    BY DEF ClientInv, ReaderOK, FanOK
  <2> QED
    BY <2>1, <2>2 DEF ClientTypeOK
<1> QED
  BY <1>1, ClientInvariance, PTL

\* A submission is accepted only if one of its nodes took it, refused only if all
\* refused it, and left without an answer only if a request expired.
THEOREM SubmissionAnswered == ClientSpec => []SubmitAnswered
<1>1. ClientInv => SubmitAnswered
  BY Zenon DEF ClientInv, FanOK, Asked, SubmitAnswered
<1> QED
  BY <1>1, ClientInvariance, PTL

\* While trust is kept the trusted head never goes back, and what a read returns
\* was proved at the head that is trusted when it returns.
THEOREM CurrentReads == ClientSpec => ReadsCurrent
<1>1. ClientInv /\ [ClientNext]_clientVars => [ReadStep]_clientVars
  BY ClientNextInv
<1> QED
  BY <1>1, ClientInvariance, PTL DEF ClientSpec, ReadsCurrent, ReadStep
=============================================================================
