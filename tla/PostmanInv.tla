----------------------------- MODULE PostmanInv -----------------------------
(***************************************************************************)
(* The inductive invariant behind the safety properties of the postman:    *)
(* the links and the events posted about them (ConInv), the peers that     *)
(* list links (ListedInv), and the mailbox with its timers (MailInv).      *)
(***************************************************************************)
EXTENDS Postman

-----------------------------------------------------------------------------
(* Links, workers and the inbox                                            *)

LinkNumbers == Nat \ {0}
Attempts(c) == [m : DOMAIN c.messages, try : Nat]
LinkState(c) ==
    [address : c.addresses \cup {"ephemeral"}, inbound : BOOLEAN, who : c.others \cup {Nobody},
     sock : BOOLEAN, closed : BOOLEAN, notified : BOOLEAN, hook : {"postman", "worker"},
     reading : BOOLEAN, failures : Nat, opened : Int]
WorkerState == {"none", "dialing", "hooking", "waiting", "ending", "ended", "failed"}

Sends(c) == {SendOf(m) : m \in DOMAIN c.messages}
Syncs(c) == {[is |-> "sync", wanted |-> g.wanted, authorized |-> g.authorized] : g \in c.configs}
Changes == [is : {"up", "down"}, link : LinkNumbers]
Frames(c) ==
    [is : {"frame"}, link : LinkNumbers, from : c.others, kind : {"request", "ping", "bad"},
     re : {Nobody}] \cup
    [is : {"frame"}, link : LinkNumbers, from : c.others, kind : {"reply"}, re : Attempts(c)] \cup
    [is : {"frame"}, link : LinkNumbers, from : c.others \cup {Nobody}, kind : {"pong"},
     re : LinkNumbers]
Event(c) == Sends(c) \cup Syncs(c) \cup Changes \cup Frames(c)

ConState(c) ==
    [links : Seq(LinkState(c)), workers : [c.addresses -> WorkerState], inbox : Seq(Event(c))]

\* A link whose transport is closed has told so, and a breaker opened in the past.
LinksInv(cn, t) ==
    \A l \in 1..Len(cn.links) :
        /\ ~cn.links[l].sock => cn.links[l].notified
        /\ cn.links[l].opened \in -1..t

\* What is posted about a link comes after its _LinkUp; until that is handled the
\* link belongs to nobody, and its _LinkDown, if it is posted, is waiting too.
AboutLink(e) == e.is \in {"up", "down", "frame"}
InboxInv(cn) ==
    \A i \in 1..Len(cn.inbox) :
        /\ AboutLink(cn.inbox[i]) => cn.inbox[i].link \in 1..Len(cn.links)
        /\ cn.inbox[i].is = "up" =>
              /\ cn.links[cn.inbox[i].link].who = Nobody
              /\ cn.links[cn.inbox[i].link].notified =>
                    Down(cn.inbox[i].link) \in Range(cn.inbox)
              /\ \A j \in 1..Len(cn.inbox) :
                    AboutLink(cn.inbox[j]) /\ cn.inbox[j].link = cn.inbox[i].link => i <= j

ConInv(cn, t, c) == cn \in ConState(c) /\ LinksInv(cn, t) /\ InboxInv(cn)

-----------------------------------------------------------------------------
(* Peers                                                                   *)

PeerState(c) == [targets : SUBSET c.addresses, links : SUBSET LinkNumbers]
KnownOK(kn, c) ==
    /\ kn = [peers |-> kn.peers, authorized |-> kn.authorized, unbound |-> kn.unbound,
             pings |-> kn.pings, polled |-> kn.polled, strays |-> kn.strays, late |-> kn.late]
    /\ kn.peers \in [DOMAIN kn.peers -> PeerState(c)] /\ DOMAIN kn.peers \subseteq c.others
    /\ kn.authorized \subseteq c.others

\* A link is listed by the peer it is bound to, and once it has told that it is
\* closed its _LinkDown is waiting, unless it was bound after that was handled.
ListedInv(cn, kn) ==
    \A q \in DOMAIN kn.peers : \A l \in kn.peers[q].links :
        /\ l \in 1..Len(cn.links) /\ cn.links[l].who = q
        /\ cn.links[l].notified => Down(l) \in Range(cn.inbox) \/ l \in kn.late

KnownInv(cn, kn, c) ==
    /\ KnownOK(kn, c) /\ ListedInv(cn, kn)
    /\ kn.unbound \subseteq 1..Len(cn.links) /\ kn.pings \subseteq 1..Len(cn.links)
    /\ kn.polled \subseteq DOMAIN kn.peers
    /\ DOMAIN kn.peers \ kn.polled \subseteq kn.strays

-----------------------------------------------------------------------------
(* The mailbox                                                             *)

Pending(c) ==
    [to : c.others, awaits : BOOLEAN, deadline : Nat, next : Nat, flying : BOOLEAN,
     attempts : Seq(c.addresses \cup {"ephemeral"})]
HandleState == {"idle", "none", "unregistered", "waiting", "timed out", "answered", "expired"}
MailOK(mb, c) ==
    /\ mb = [box |-> mb.box, retry |-> mb.retry, reap |-> mb.reap, wire |-> mb.wire,
             handle |-> mb.handle]
    /\ mb.box \in [DOMAIN mb.box -> Pending(c)] /\ DOMAIN mb.box \subseteq DOMAIN c.messages
    /\ mb.retry \in Int /\ mb.reap \in Int /\ mb.wire \subseteq Attempts(c)
    /\ mb.handle \in [DOMAIN c.messages -> HandleState]

\* The messages whose send is still to be handled, and those whose was.
Queued(inbox) == {m \in AllMessages : SendOf(m) \in Range(inbox)}
Taken(mb, queued) == {m \in DOMAIN mb.handle : mb.handle[m] # "idle"} \ queued

\* Every message is sent once.
SendsInv(inbox, mb) ==
    /\ \A i, j \in 1..Len(inbox) : inbox[i].is = "send" /\ inbox[j] = inbox[i] => i = j
    /\ \A i \in 1..Len(inbox) : inbox[i].is = "send" => mb.handle[inbox[i].m] # "idle"

\* The clock runs no further than the messages taken so far allow.
Horizon(mb, queued, c) == c.until + TTL * Cardinality(Taken(mb, queued))
MailInv(mb, queued, t, c) ==
    /\ MailOK(mb, c)
    /\ DOMAIN mb.box \subseteq Taken(mb, queued)
    /\ t <= Horizon(mb, queued, c)
    /\ \A m \in DOMAIN mb.box :
         /\ mb.box[m].deadline <= Horizon(mb, queued, c)
         /\ Len(mb.box[m].attempts) <= MaxAttempts
         /\ mb.reap # Never /\ mb.reap <= mb.box[m].deadline
         /\ ~mb.box[m].flying /\ mb.box[m].next < mb.box[m].deadline /\ t < mb.box[m].deadline
               => mb.retry # Never /\ mb.retry <= mb.box[m].next

PostmanInv ==
    /\ cast \in PostmanCasts /\ now \in Nat
    /\ ConInv(con, now, cast)
    /\ KnownInv(con, known, cast)
    /\ SendsInv(con.inbox, mail) /\ MailInv(mail, Queued(con.inbox), now, cast)
=============================================================================
