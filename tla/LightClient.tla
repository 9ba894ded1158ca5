---------------------------- MODULE LightClient ----------------------------
(***************************************************************************)
(* A light client (dude/sync/lite_client.py) and the nodes that serve it   *)
(* (dude/sync/lite.py): bootstrap until enough nodes agree on a roster,    *)
(* reads proved against a head the client walks forward, loss of trust and *)
(* bootstrap again, and submission to several nodes at once.               *)
(*                                                                         *)
(* There is one chain: block b is settled in bucket b, is signed by the    *)
(* roster of block b - 1 and leaves roster RosterAt[b]; a proof verifies   *)
(* against the state root of the block it was made at and no other.  The   *)
(* exchange with a node is what Postman provides: a request is answered or *)
(* expires, once, and answers come in any order.                           *)
(***************************************************************************)
EXTENDS QuorumMath, Sequences, FiniteSets, FiniteSetsExt

CONSTANTS
    RosterAt,       \* RosterAt[b]: the roster commitment of block b's state
    HeaderCap,      \* headers in a reply
    Fresh,          \* buckets a head may be behind the clock: is_stale
    MaxFailures,    \* bound on the failures counted of a node
    ClientCasts     \* what each behaviour starts with: see ClientInit

ASSUME ClientAssumption ==
    /\ HeaderCap \in Nat \ {0} /\ Fresh \in Nat /\ MaxFailures \in Nat
    /\ RosterAt \in Seq({RosterAt[b] : b \in DOMAIN RosterAt})
    /\ \A c \in ClientCasts :
         /\ IsFiniteSet(c.nodes) /\ c.from \in DOMAIN RosterAt
         /\ c.budget \in [last : DOMAIN RosterAt, timeouts : Nat, losses : Nat, crashes : Nat,
                          compactions : Nat, submits : Nat, walks : Nat]

VARIABLES
    node,       \* node[p]: head and oldest block, whether it is up, and whether
                \* it took the client's transaction
    client,     \* state, trust, bootstrap entries, peer views, and whether the
                \* stale check is scheduled
    requests,   \* requests in flight, with their replies once made
    reader,     \* the application thread in _LiteSubstrate.get
    fan,        \* a submission and its acknowledgements
    clock,
    budget      \* what the environment may still do

clientVars == <<node, client, requests, reader, fan, clock, budget>>

Blocks == DOMAIN RosterAt
Nodes == DOMAIN node    \* the nodes of every roster, each a bootstrap peer
None == [is |-> "none"]
Stale(b) == clock - b > Fresh
NoView == [num |-> 0, failures |-> 0, seen |-> FALSE]

\* A behaviour starts with every node at some block, has a last block, and a
\* number of timeouts (of a read whose answer is still to come), losses (requests
\* that expire unanswered), crashes, compactions, submissions and walks (calls of
\* nth_prefix).
ClientInit ==
    \E c \in ClientCasts :
        /\ node = [p \in c.nodes |-> [head |-> c.from, oldest |-> 1, up |-> TRUE, took |-> FALSE]]
        /\ client = [state |-> "UNBOOTSTRAPPED", trust |-> None,
                     timer |-> FALSE, started |-> FALSE,
                     entries |-> [p \in c.nodes |-> None], views |-> [p \in c.nodes |-> NoView]]
        /\ requests = {}
        /\ reader = [pc |-> "idle", request |-> None, outcome |-> "none", shown |-> 0]
        /\ fan = [state |-> "none", targets |-> {}, refused |-> {}, expired |-> {}]
        /\ clock = c.from
        /\ budget = c.budget

Spend(what) == budget[what] > 0 /\ budget' = [budget EXCEPT ![what] = @ - 1]

(***************************************************************************)
(* The nodes.                                                              *)
(***************************************************************************)
Commit(p) ==
    /\ node[p].head < Min({clock, budget.last})
    /\ node' = [node EXCEPT ![p].head = @ + 1]
    /\ UNCHANGED <<client, requests, reader, fan, clock, budget>>
Compact(p) ==
    /\ node[p].oldest < node[p].head /\ Spend("compactions")
    /\ node' = [node EXCEPT ![p].oldest = node[p].head]
    /\ UNCHANGED <<client, requests, reader, fan, clock>>
Crash(p) ==
    /\ node[p].up /\ Spend("crashes")
    /\ node' = [node EXCEPT ![p].up = FALSE]
    /\ UNCHANGED <<client, requests, reader, fan, clock>>
ClockTicks ==
    /\ clock <= budget.last
    /\ clock' = clock + 1
    /\ UNCHANGED <<node, client, requests, reader, fan, budget>>

Refused(reason) == [is |-> "refused", reason |-> reason]

\* _anchors, of a request that knows neither roster nor block.
Anchors(p) == [is |-> "anchors", head |-> node[p].head, roster |-> RosterAt[node[p].head]]

\* _proof, and _headers_since: the proof at the node's own head, and the headers
\* after the block the client trusts, as many as a reply takes.
Headers(p, from) == (from + 1)..Min({node[p].head, from + HeaderCap})
Proof(p, from) ==
    IF from > node[p].head THEN Refused("not yet settled")
    ELSE IF from < node[p].oldest THEN Refused("compacted")
    ELSE [is |-> "proof", head |-> node[p].head, roster |-> RosterAt[node[p].head],
          headers |-> Headers(p, from)]

\* serve_nth_prefix of an entry that exists: what the client knows is not checked.
NthProof(p, from) ==
    [is |-> "proof", head |-> node[p].head, roster |-> RosterAt[node[p].head],
     headers |-> IF from + 1 < node[p].oldest THEN {} ELSE Headers(p, from)]

\* A node's answer to SUBMIT.
SubmitAnswers == {[is |-> "ACCEPTED"], [is |-> "REFUSED"]}

Replies(r) ==
    CASE r.kind = "anchors" -> {Anchors(r.peer)}
      [] r.kind = "read" -> {Proof(r.peer, r.from)}
      [] r.kind = "nth" -> {NthProof(r.peer, r.from)}
      [] OTHER -> SubmitAnswers

Serve(r, reply) ==
    /\ r.reply = None /\ node[r.peer].up
    /\ requests' = (requests \ {r}) \cup {[r EXCEPT !.reply = reply]}
    /\ node' = [node EXCEPT ![r.peer].took = @ \/ reply.is = "ACCEPTED"]
    /\ UNCHANGED <<client, reader, fan, clock, budget>>
(***************************************************************************)
(* Bootstrap.                                                              *)
(***************************************************************************)
\* Participant.request; n tells requests of a kind to the same node apart.
RequestTo(rs, kind, p, from) ==
    [kind |-> kind, peer |-> p, from |-> from, reply |-> None,
     n |-> Min(0..Cardinality(rs) \ {r.n : r \in {x \in rs : x.kind = kind /\ x.peer = p}})]
Asking(rs, kind, ps, from) == rs \cup {RequestTo(rs, kind, p, from) : p \in ps}

\* LightClient.start, with peers to bootstrap from
Start ==
    /\ ~client.started /\ Nodes # {}
    /\ client' = [client EXCEPT !.started = TRUE, !.state = "BOOTSTRAPPING", !.timer = TRUE]
    /\ requests' = Asking(requests, "anchors", Nodes, 0)
    /\ UNCHANGED <<node, reader, fan, clock, budget>>

\* bootstrap, called again once trust is lost: it asks everyone, once, and does
\* not schedule the stale check.
Bootstrap ==
    /\ client.started /\ client.state = "UNBOOTSTRAPPED"
    /\ client' = [client EXCEPT !.state = "BOOTSTRAPPING"]
    /\ requests' = Asking(requests, "anchors", Nodes, 0)
    /\ UNCHANGED <<node, reader, fan, clock, budget>>

\* _on_check_stale_peers and _ask_stale_peers
Waited == {r.peer : r \in {x \in requests : x.kind = "anchors"}}


ToAsk == {p \in Nodes \ Waited : client.entries[p] = None \/ Stale(client.entries[p].head)}
CheckStalePeers ==
    /\ client.timer
    /\ IF client.state = "BOOTSTRAPPING"
       THEN client' = client /\ requests' = Asking(requests, "anchors", ToAsk, 0)
       ELSE client' = [client EXCEPT !.timer = FALSE] /\ requests' = requests
    /\ UNCHANGED <<node, reader, fan, clock, budget>>

Needed == Corroboration(Cardinality(Nodes))

\* _check_bootstrap_convergence: enough entries that are not stale agree.
Agreeing(entries, roster) ==
    {p \in Nodes : entries[p] # None /\ ~Stale(entries[p].head) /\ entries[p].roster = roster}
Corroborated(entries) ==
    {p \in Nodes : /\ entries[p] # None
                   /\ p \in Agreeing(entries, entries[p].roster)
                   /\ Cardinality(Agreeing(entries, entries[p].roster)) >= Needed}

Seen(num) == [num |-> num, failures |-> 0, seen |-> TRUE]

\* on_bootstrap_reply, and _promote_to_ready on one of those that agree.
OnAnchors(r) ==
    /\ r.kind = "anchors" /\ r.reply # None
    /\ requests' = requests \ {r}
    /\ \/ client.state # "BOOTSTRAPPING" /\ UNCHANGED <<client, reader>>
       \/ /\ client.state = "BOOTSTRAPPING"
          /\ \E c \in {[client EXCEPT !.entries[r.peer] = r.reply,
                                      !.views[r.peer] = Seen(r.reply.head)]} :
             \E ready \in {Corroborated(c.entries)} :
               \/ ready = {} /\ client' = c /\ reader' = reader
               \/ \E p \in ready :
                    /\ client' = [c EXCEPT !.state = "READY",
                         !.trust = [is |-> "trust", head |-> c.entries[p].head,
                                    roster |-> c.entries[p].roster]]
                    /\ reader' = [reader EXCEPT !.shown = 0]
    /\ UNCHANGED <<node, fan, clock, budget>>

(***************************************************************************)
(* Reads.                                                                  *)
(***************************************************************************)
\* _ranked_peers: in sync first, then the fewest failures, then the highest.
Rank(p) ==
    LET v == client.views[p]
    IN  IF ~v.seen THEN <<1, 0, 0>>
        ELSE <<IF v.num >= client.trust.head THEN 1 ELSE 0, -v.failures, v.num>>
Outranks(p, q) ==
    LET x == Rank(p) y == Rank(q)
    IN  \/ x[1] > y[1]
        \/ x[1] = y[1] /\ x[2] > y[2]
        \/ x[1] = y[1] /\ x[2] = y[2] /\ x[3] > y[3]
Picks == {p \in Nodes : client.trust = None \/ \A q \in Nodes : ~Outranks(q, p)}

\* request_get, from _LiteSubstrate.get or nth_prefix, first or again.
Issue(kind, p, left) ==
    /\ client.state = "READY" /\ client.trust # None
    /\ requests' = Asking(requests, kind, {p}, client.trust.head)
    /\ reader' = [reader EXCEPT !.pc = "waiting",
                    !.request = RequestTo(requests, kind, p, client.trust.head)]
    /\ budget' = left
    /\ UNCHANGED <<node, client, fan, clock>>
Get == reader.pc \in {"idle", "again"} /\ \E p \in Picks : Issue("read", p, budget)
NthPrefix ==
    /\ reader.pc = "idle" /\ budget.walks > 0
    /\ \E p \in Picks : Issue("nth", p, [budget EXCEPT !.walks = @ - 1])
GetRaises ==
    /\ reader.pc = "again" /\ client.state # "READY"
    /\ reader' = [reader EXCEPT !.pc = "idle", !.request = None, !.outcome = "raised"]
    /\ UNCHANGED <<node, client, requests, fan, clock, budget>>

\* The deadline passes, before an answer or after a failure; get then returns
\* None, as for a name that is absent.
GetTimesOut ==
    /\ \/ reader.pc = "waiting" /\ Spend("timeouts")
       \/ reader.pc = "again" /\ UNCHANGED budget
    /\ reader' = [reader EXCEPT !.pc = "idle", !.request = None, !.outcome = "none"]
    /\ UNCHANGED <<node, client, requests, fan, clock>>

\* What the reader makes of the result of its request: shown is the block a
\* value was proved at, or 0 for a failure.
Waits(r) == reader.pc = "waiting" /\ reader.request = [r EXCEPT !.reply = None]
Resolved(r, shown) ==
    reader' = CASE ~Waits(r) -> reader
                [] Waits(r) /\ shown # 0 ->
                     [pc |-> "idle", request |-> None, outcome |-> "value", shown |-> shown]
                [] OTHER ->
                     [reader EXCEPT !.pc = IF r.kind = "read" THEN "again" ELSE "idle",
                                    !.request = None]

\* _contiguous_from and chain.advance: how far the blocks of a reply lead, and
\* whether the trusted roster signed them all.
Above(trust, reply) ==
    {b \in reply.headers \cup {reply.head} :
        b > trust.head /\ \A k \in (trust.head + 1)..b : k \in reply.headers \cup {reply.head}}
Walkable(trust, reply) == \A b \in Above(trust, reply) : RosterAt[b - 1] = trust.roster
Walk(trust, reply) ==
    [trust EXCEPT !.head = Max({trust.head} \cup Above(trust, reply))]

\* note_read_result
Noted(views, p, shown) ==
    [views EXCEPT ![p] =
        IF shown # 0 THEN Seen(shown)
        ELSE [views[p] EXCEPT !.failures = Min({@ + 1, MaxFailures}), !.seen = TRUE]]

TrustLost(c) == [c EXCEPT !.state = "UNBOOTSTRAPPED", !.trust = None]

\* Mutant: the value of any reply that walks is shown, whatever head is trusted.
ResolveReadAnyHead(c, reply) ==
    IF reply.is = "refused" THEN [client |-> TrustLost(c), shown |-> 0]
    ELSE IF c.trust = None \/ ~Walkable(c.trust, reply) THEN [client |-> c, shown |-> 0]
    ELSE [client |-> [c EXCEPT !.trust = Walk(@, reply)], shown |-> reply.head]

\* resolve_read: what becomes of the client, and the block that is shown.
ResolveRead(c, reply) ==
    CASE reply.is = "refused" ->
           [client |-> IF reply.reason = "compacted" THEN TrustLost(c) ELSE c, shown |-> 0]
      [] reply.is = "proof" /\ c.trust = None -> [client |-> c, shown |-> 0]
      [] reply.is = "proof" /\ c.trust # None /\ reply.roster # c.trust.roster ->
           [client |-> TrustLost(c), shown |-> 0]
      [] OTHER ->
           IF ~Walkable(c.trust, reply) THEN [client |-> c, shown |-> 0]
           ELSE [client |-> [c EXCEPT !.trust = Walk(@, reply)],
                 shown |-> IF Walk(c.trust, reply).head = reply.head /\ ~Stale(reply.head)
                           THEN reply.head ELSE 0]

OnRead(r) ==
    /\ r.kind = "read" /\ r.reply # None
    /\ requests' = requests \ {r}
    /\ \E got \in {ResolveRead(client, r.reply)} :
         /\ client' = [got.client EXCEPT !.views = Noted(@, r.peer, got.shown)]
         /\ Resolved(r, got.shown)
    /\ UNCHANGED <<node, fan, clock, budget>>

\* _PrefixNthHandle.on_reply: neither the roster nor the age of the head counts.
OnNth(r) ==
    /\ r.kind = "nth" /\ r.reply # None
    /\ requests' = requests \ {r}
    /\ IF client.trust # None /\ Walkable(client.trust, r.reply)
       THEN \E trust \in {Walk(client.trust, r.reply)} :
              /\ client' = [client EXCEPT !.trust = trust]
              /\ Resolved(r, IF trust.head = r.reply.head THEN trust.head ELSE 0)
       ELSE client' = client /\ Resolved(r, 0)
    /\ UNCHANGED <<node, fan, clock, budget>>

(***************************************************************************)
(* Submission to several nodes.                                            *)
(***************************************************************************)
\* submit: to the first of the ranked, as many as corroborate, or to one without
\* trust.
Targets ==
    {T \in SUBSET Nodes :
        /\ Cardinality(T) = IF client.trust = None THEN 1 ELSE Needed
        /\ client.trust # None => \A p \in T, q \in Nodes \ T : ~Outranks(q, p)}
Submit(T) ==
    /\ fan.state = "none" /\ budget.submits > 0
    /\ fan' = [fan EXCEPT !.state = "pending", !.targets = T]
    /\ requests' = Asking(requests, "submit", T, 0)
    /\ UNCHANGED <<node, client, reader, clock, budget>>

\* Mutant: the first REFUSED is the answer.
AcknowledgedFirst(f, p, verb) ==
    IF f.state = "accepted" THEN f
    ELSE [f EXCEPT !.state = IF verb = "ACCEPTED" THEN "accepted" ELSE "refused",
                   !.refused = IF verb = "ACCEPTED" THEN @ ELSE @ \cup {p}]

\* _SubmitPeerHandle.on_reply: the first ACCEPTED, or the last REFUSED, is the
\* answer.
Acknowledged(f, p, verb) ==
    CASE f.state = "accepted" -> f
      [] f.state # "accepted" /\ verb = "ACCEPTED" -> [f EXCEPT !.state = "accepted"]
      [] OTHER -> [f EXCEPT !.refused = @ \cup {p},
                            !.state = IF Cardinality(f.refused \cup {p}) >= Cardinality(f.targets)
                                      THEN "refused" ELSE @]
OnSubmitReply(r) ==
    /\ r.kind = "submit" /\ r.reply # None
    /\ requests' = requests \ {r}
    /\ fan' = Acknowledged(fan, r.peer, r.reply.is)
    /\ client' = [client EXCEPT !.views[r.peer] = [@ EXCEPT !.failures = 0, !.seen = TRUE]]
    /\ UNCHANGED <<node, reader, clock, budget>>

\* A request expires: a read fails, without a note of the node's failure; an
\* anchors request is forgotten; a submission to one node counts for nothing.
Expire(r) ==
    /\ \/ Spend("losses")
       \/ ~node[r.peer].up /\ r.reply = None /\ UNCHANGED budget
    /\ requests' = requests \ {r}
    /\ Resolved(r, 0)
    /\ fan' = [fan EXCEPT !.expired = IF r.kind = "submit" THEN @ \cup {r.peer} ELSE @]
    /\ UNCHANGED <<node, client, clock>>

(***************************************************************************)
(* The whole.                                                              *)
(***************************************************************************)
Exchange(r) == (\E reply \in Replies(r) : Serve(r, reply))
               \/ OnAnchors(r) \/ OnRead(r) \/ OnNth(r) \/ OnSubmitReply(r)
NodeNext == ClockTicks \/ \E p \in Nodes : Commit(p) \/ Compact(p) \/ Crash(p)
ReaderNext == Get \/ NthPrefix \/ GetRaises \/ GetTimesOut
ClientNext ==
    \/ NodeNext \/ ReaderNext
    \/ Start \/ Bootstrap \/ CheckStalePeers
    \/ \E T \in Targets : Submit(T)
    \/ \E r \in requests : Exchange(r) \/ Expire(r)

\* Nodes go on settling, answer if they are up, and the client handles answers,
\* lets go of what is never answered, bootstraps when it has to and reads.
ExchangeWith(p) == \E r \in requests : r.peer = p /\ Exchange(r)
Abandon(p) == \E r \in requests : r.peer = p /\ ~node[p].up /\ r.reply = None /\ Expire(r)
ClientFairness ==
    /\ WF_clientVars(ClockTicks \/ \E p \in Nodes : Commit(p))
    /\ WF_clientVars(Start \/ Bootstrap) /\ WF_clientVars(CheckStalePeers)
    /\ WF_clientVars(Get \/ GetRaises) /\ WF_clientVars(\E p \in Nodes : Abandon(p))
    /\ \A p \in UNION {c.nodes : c \in ClientCasts} : WF_clientVars(ExchangeWith(p))
ClientSpec == ClientInit /\ [][ClientNext]_clientVars /\ ClientFairness

ClientTypeOK ==
    /\ client.state \in {"UNBOOTSTRAPPED", "BOOTSTRAPPING", "READY"}
    /\ client.state = "READY" <=> client.trust # None
    /\ client.trust # None => client.trust.head \in Blocks
    /\ \A p \in Nodes : client.views[p].failures \in 0..MaxFailures
    /\ reader.shown \in Blocks \cup {0} /\ reader.pc \in {"idle", "waiting", "again"}
    /\ fan.refused \subseteq fan.targets

\* While trust is kept the trusted head only moves forward, and what a read
\* returns was proved at the head that is trusted when it returns: late answers,
\* answers of nodes that lag and answers to reads given up take nothing back.
ReadsCurrent ==
    [][/\ client.trust # None /\ client'.trust # None => client'.trust.head >= client.trust.head
       /\ reader'.shown \notin {0, reader.shown} => reader'.shown = client'.trust.head]_clientVars

\* A submission is answered once its nodes have answered: accepted if one took
\* it, refused only when all refused it; without an answer only if a request to
\* one of them expired.
SubmitAnswered ==
    /\ fan.state = "accepted" => \E p \in fan.targets : node[p].took
    /\ fan.state = "refused" => fan.refused = fan.targets
    /\ fan.state = "pending" /\ (\A r \in requests : r.kind # "submit") => fan.expired # {}

\* The client goes on reading through changes of the roster, compactions and lost
\* requests, unless it is bootstrapping with no request and no stale check left,
\* or a node that is down is the one it prefers.
Stranded ==
    \/ client.state = "BOOTSTRAPPING" /\ ~client.timer /\ Waited = {}
    \/ client.state = "READY" /\ \E p \in Picks : ~node[p].up
=============================================================================
