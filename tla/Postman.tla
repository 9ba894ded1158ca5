------------------------------- MODULE Postman -------------------------------
(***************************************************************************)
(* The postman (dude/net/postman.py): one loop that owns the mailbox and   *)
(* the peers, fed by its user's sends, by transport threads and by timers; *)
(* with the handles that wait for replies (dude/session.py Inflight,       *)
(* dude/participant.py, dude/node.py request_reply) and the follower's     *)
(* record of the peers it polls.  The other ends answer when they like, or *)
(* never, over any connection they have.                                   *)
(*                                                                         *)
(* The loop takes what was posted, in order, before any timer that is due  *)
(* (dude/core/event_loop.py), so a timer fires only on an empty inbox.     *)
(***************************************************************************)
EXTENDS Mailbox, Links, Functions

CONSTANTS
    DesiredLinks,   \* tunables.desired_links_per_peer
    MaxLinks,       \* bound on the links ever made
    PostmanCasts    \* what each behaviour has: see PostmanInit

VARIABLES
    con,    \* links, dial workers and the loop's inbox: see Links
    mail,   \* box: the mailbox; retry, reap: when the timers are set to fire;
            \* wire: attempts sent and not answered; handle: what the sender of
            \* each message knows of it
    known,  \* peers: targets and links of each; authorized; unbound: links with a
            \* _ReapUnbound to come; pings: links in _keepalive_pending; polled:
            \* the peers the follower was told of; strays: peers made for a link,
            \* not for being wanted; late: links bound after their _LinkDown
    now,
    cast,   \* what this behaviour has
    left    \* and what its environment may still do

vars == <<con, mail, known, now, cast, left>>

\* A cast has: the peers wanted at first with their addresses, the addresses
\* linked, who is authorised, the kind and addressee of each message, the
\* configurations sync may come with, and how many syncs, faults, inbound
\* connections and frames of the peers' own there may be, and until when the
\* clock runs with no message pending.
CastOK(c) ==
    /\ DOMAIN c.wanted \subseteq c.others /\ Nobody \notin c.others
    /\ \A q \in DOMAIN c.wanted : c.wanted[q] \subseteq c.addresses
    /\ \A q, r \in DOMAIN c.wanted : q # r => c.wanted[q] \cap c.wanted[r] = {}
    /\ c.linked \in Seq(UNION {c.wanted[q] : q \in DOMAIN c.wanted})
    /\ c.authorized \subseteq c.others
    /\ IsFiniteSet(DOMAIN c.messages)
    /\ \A m \in DOMAIN c.messages :
         c.messages[m] \in [kind : {"request", "blocking", "reply"}, to : c.others]
    /\ \A g \in c.configs :
         /\ DOMAIN g.wanted \subseteq c.others /\ g.authorized \subseteq c.others
         /\ \A q \in DOMAIN g.wanted : g.wanted[q] \subseteq c.addresses
    /\ c.until \in Nat
ASSUME PostmanAssumption == \A c \in PostmanCasts : CastOK(c)

Owner(a) == CHOOSE q \in DOMAIN cast.wanted : a \in cast.wanted[q]
Established(a) == [NewLink(a, FALSE) EXCEPT !.who = Owner(a), !.hook = "worker"]
PeerAtFirst(q) ==
    [targets |-> cast.wanted[q],
     links |-> {l \in DOMAIN cast.linked : cast.linked[l] \in cast.wanted[q]}]

PostmanInit ==
    /\ cast \in PostmanCasts
    /\ left = cast.budget
    /\ con = [links |-> [l \in DOMAIN cast.linked |-> Established(cast.linked[l])],
              workers |-> [a \in cast.addresses |->
                  IF a \in Range(cast.linked) THEN "waiting" ELSE "none"],
              inbox |-> <<>>]
    /\ mail = [box |-> <<>>, retry |-> Never, reap |-> Never, wire |-> {},
               handle |-> [m \in DOMAIN cast.messages |-> "idle"]]
    /\ known = [peers |-> [q \in DOMAIN cast.wanted |-> PeerAtFirst(q)],
                authorized |-> cast.authorized, unbound |-> {}, pings |-> {},
                polled |-> DOMAIN cast.wanted, strays |-> {}, late |-> {}]
    /\ now = 0

Spends(what) == left[what] > 0 /\ left' = [left EXCEPT ![what] = @ - 1]

(***************************************************************************)
(* Users of the postman, on their own threads.                             *)
(***************************************************************************)
SendOf(m) == [is |-> "send", m |-> m]

\* Participant.request_raw registers the handle and then sends; a reply has no
\* handle.
Request(m) ==
    /\ mail.handle[m] = "idle" /\ cast.messages[m].kind # "blocking"
    /\ con' = Posted(con, SendOf(m))
    /\ mail' = [mail EXCEPT !.handle[m] =
                  IF cast.messages[m].kind = "request" THEN "waiting" ELSE "none"]
    /\ UNCHANGED <<known, now, cast, left>>

\* Node.request_reply sends first, then registers, then waits with a timeout.
RequestReply(m) ==
    /\ mail.handle[m] = "idle" /\ cast.messages[m].kind = "blocking"
    /\ con' = Posted(con, SendOf(m))
    /\ mail' = [mail EXCEPT !.handle[m] = "unregistered"]
    /\ UNCHANGED <<known, now, cast, left>>
Register(m) ==
    /\ mail.handle[m] = "unregistered"
    /\ mail' = [mail EXCEPT !.handle[m] = "waiting"]
    /\ UNCHANGED <<con, known, now, cast, left>>
WaitTimesOut(m) ==
    /\ mail.handle[m] = "waiting" /\ cast.messages[m].kind = "blocking"
    /\ mail' = [mail EXCEPT !.handle[m] = "timed out"]
    /\ UNCHANGED <<con, known, now, cast, left>>

\* Inflight.on_reply and on_expired: whoever is registered is told, once.
Told(handle, ms, what) ==
    [m \in DOMAIN handle |-> IF m \in ms /\ handle[m] = "waiting" THEN what ELSE handle[m]]

\* Node._reconcile_peers, and the observer's add_peer and remove_peer.
Sync(c) ==
    /\ Spends("syncs")
    /\ con' = Posted(con, [is |-> "sync", wanted |-> c.wanted, authorized |-> c.authorized])
    /\ UNCHANGED <<mail, known, now, cast>>

(***************************************************************************)
(* Transport threads and the other ends.                                   *)
(***************************************************************************)
LinkIds == 1..Len(con.links)
Frame(l, from, kind, re) == [is |-> "frame", link |-> l, from |-> from, kind |-> kind, re |-> re]

\* _DialWorker._serve: connect, then put its own hook before the postman's.
ConnectOk(a) ==
    /\ con.workers[a] = "dialing" /\ Len(con.links) < MaxLinks
    /\ con' = [Connected(con, a, FALSE) EXCEPT !.workers[a] = "hooking"]
    /\ UNCHANGED <<mail, known, now, cast, left>>
ConnectFails(a) ==
    /\ con.workers[a] = "dialing" /\ Spends("faults")
    /\ con' = [con EXCEPT !.workers[a] = "failed"]
    /\ UNCHANGED <<mail, known, now, cast>>
NewestAt(a) == Max({l \in LinkIds : con.links[l].address = a})
Hook(a) ==
    /\ con.workers[a] = "hooking"
    /\ con' = [con EXCEPT !.workers[a] = "waiting", !.links[NewestAt(a)].hook = "worker"]
    /\ UNCHANGED <<mail, known, now, cast, left>>
WorkerEnds(a) ==
    /\ con.workers[a] = "ending" /\ ~con.links[NewestAt(a)].reading
    /\ con' = [con EXCEPT !.workers[a] = "ended"]
    /\ UNCHANGED <<mail, known, now, cast, left>>

\* TCPListener._accept_loop; the address is the other end's own port.
Accept ==
    /\ Len(con.links) < MaxLinks /\ Spends("inbound")
    /\ con' = Connected(con, "ephemeral", TRUE)
    /\ UNCHANGED <<mail, known, now, cast>>

\* The connection breaks; a reader ends, too, once its socket is closed.
LinkFails(l) ==
    /\ con.links[l].sock /\ Spends("faults")
    /\ con' = WriterFails(con, l) \/ con' = ReaderFails(con, l)
    /\ UNCHANGED <<mail, known, now, cast>>
ReaderEnds(l) ==
    /\ ~con.links[l].sock /\ con.links[l].reading
    /\ con' = ReaderFails(con, l)
    /\ UNCHANGED <<mail, known, now, cast, left>>

\* The addressee answers an attempt, and the reader posts the answer; or an
\* other end sends a frame of its own: a request, a PING, one that is not
\* acceptable, or the PONG to a PING.
Answer(a, l) ==
    /\ con.links[l].reading
    /\ con' = Posted(con, Frame(l, cast.messages[a.m].to, "reply", a))
    /\ mail' = [mail EXCEPT !.wire = @ \ {a}]
    /\ UNCHANGED <<known, now, cast, left>>
Incoming(l, q, kind) ==
    /\ con.links[l].reading /\ con.links[l].who \in {Nobody, q} /\ Spends("frames")
    /\ con' = Posted(con, Frame(l, q, kind, Nobody))
    /\ UNCHANGED <<mail, known, now, cast>>
Pong(l, p) ==
    /\ con.links[l].reading
    /\ \A e \in Range(con.inbox) : e.is = "frame" => e.kind # "pong" \/ e.re # p
    /\ con' = Posted(con, Frame(l, con.links[p].who, "pong", p))
    /\ UNCHANGED <<mail, known, now, cast, left>>

(***************************************************************************)
(* The loop: handlers of what was posted.                                  *)
(***************************************************************************)
Handles(kind) == con.inbox # <<>> /\ Head(con.inbox).is = kind
Rest == [con EXCEPT !.inbox = Tail(@)]

ScheduleRetry(mb) == [mb EXCEPT !.retry = Earliest(RetryTimes(mb.box, now))]
ScheduleReap(mb) == [mb EXCEPT !.reap = Earliest(ReapTimes(mb.box))]

OnPostSend ==
    /\ Handles("send")
    /\ \E m \in {Head(con.inbox).m} :
         mail' = ScheduleReap(ScheduleRetry([mail EXCEPT !.box =
                     Post(@, m, cast.messages[m].to, cast.messages[m].kind # "reply", now)]))
    /\ con' = Rest
    /\ UNCHANGED <<known, now, cast, left>>

\* _dial_peer, for each of qs that is a peer.
DialPeers(cn, kn, qs) ==
    [cn EXCEPT !.workers = [a \in DOMAIN @ |->
        IF \E q \in qs \cap DOMAIN kn.peers :
              /\ Cardinality(kn.peers[q].links) < DesiredLinks
              /\ a \in kn.peers[q].targets
              /\ \A l \in kn.peers[q].links : cn.links[l].address # a
        THEN Dialled(@[a]) ELSE @[a]]]

\* Mutant: who is gone is not told.
NotifiedOfNew(polled, gone, new) == polled \cup new

\* _notify_peers_changed, heard by the follower.
Notified(polled, gone, new) == (polled \ gone) \cup new

\* _on_sync_peers: peers neither wanted nor authorised go, with their links; the
\* wanted are added, losing the links dialled to addresses they no longer have,
\* and dialled; whoever listens is told who is new and who is gone.
OnSyncPeers ==
    /\ Handles("sync")
    /\ \E e \in {Head(con.inbox)} :
       \E gone \in {{q \in DOMAIN known.peers :
                        q \notin DOMAIN e.wanted /\ q \notin e.authorized}} :
       \E stay \in {DOMAIN known.peers \ gone} :
       \E peers \in {[q \in stay \cup DOMAIN e.wanted |->
            [targets |-> IF q \in DOMAIN e.wanted THEN e.wanted[q] ELSE known.peers[q].targets,
             links |-> IF q \in stay THEN known.peers[q].links ELSE {}]]} :
       \E shut \in {(UNION {known.peers[q].links : q \in gone}) \cup
            {l \in UNION {known.peers[q].links : q \in stay \cap DOMAIN e.wanted} :
                ~con.links[l].inbound /\ con.links[l].address \notin e.wanted[con.links[l].who]}} :
         /\ known' = [known EXCEPT !.peers = peers, !.authorized = e.authorized,
                        !.polled = Notified(@, gone, DOMAIN e.wanted \ stay),
                        !.strays = @ \ gone]
         /\ con' = DialPeers(CloseAll(Rest, shut), known', DOMAIN e.wanted)
    /\ UNCHANGED <<mail, now, cast, left>>

\* _do_link_established, of a link that is bound.
ListLink(cn, kn, l, q) ==
    IF q \in DOMAIN kn.peers
    THEN [con |-> cn, known |-> [kn EXCEPT !.peers[q].links = @ \cup {l}]]
    ELSE IF q \in kn.authorized
    THEN [con |-> cn,
          known |-> [kn EXCEPT !.peers = With(@, q, [targets |-> {}, links |-> {l}]),
                               !.strays = @ \cup {q}]]
    ELSE [con |-> Close(cn, l), known |-> kn]

\* _on_link_up: a dialled link is bound to the peer with its address; one that
\* nobody has is left unbound, for a while.
OnLinkUp ==
    /\ Handles("up")
    /\ \E l \in {Head(con.inbox).link} :
         \/ \E q \in DOMAIN known.peers :
              /\ con.links[l].address \in known.peers[q].targets
              /\ \E r \in {ListLink([Rest EXCEPT !.links[l].who = q], known, l, q)} :
                   con' = r.con /\ known' = r.known
         \/ /\ \A q \in DOMAIN known.peers : con.links[l].address \notin known.peers[q].targets
            /\ known' = [known EXCEPT !.unbound = @ \cup {l}]
            /\ con' = Rest
    /\ UNCHANGED <<mail, now, cast, left>>

\* _on_link_down: the link is no longer listed, and its peer is dialled.
OnLinkDown ==
    /\ Handles("down")
    /\ \E l \in {Head(con.inbox).link} : \E q \in {con.links[l].who} :
         IF q \in DOMAIN known.peers
         THEN /\ known' = [known EXCEPT !.peers[q].links = @ \ {l}]
              /\ con' = DialPeers(Rest, known', {q})
         ELSE con' = Rest /\ known' = known
    /\ UNCHANGED <<mail, now, cast, left>>

\* _credit: a reply to an attempt resets the breaker of the link that has the
\* address of the attempt by now.
LinkAt(cn, kn, q, a) ==
    IF q \in DOMAIN kn.peers THEN {l \in kn.peers[q].links : cn.links[l].address = a} ELSE {}
Credited(cn, kn, f) ==
    LET ls == LinkAt(cn, kn, f.from, mail.box[f.re.m].attempts[f.re.try])
    IN  IF ls = {} THEN cn ELSE [cn EXCEPT !.links[Min(ls)] = OnReply(@)]

\* _do_deliver once the frame is accepted: bind the link to its sender if it has
\* none, answer a PING, and hand over the rest.
Accepted(cn, kn, mb, f) ==
    \E bound \in {IF cn.links[f.link].who = Nobody
                  THEN ListLink([cn EXCEPT !.links[f.link].who = f.from],
                                [kn EXCEPT !.late = IF cn.links[f.link].notified
                                                       /\ Down(f.link) \notin Range(cn.inbox)
                                                    THEN @ \cup {f.link} ELSE @],
                                f.link, f.from)
                  ELSE [con |-> cn, known |-> kn]} :
        /\ known' = bound.known
        /\ con' = IF f.kind = "ping" THEN Send(bound.con, f.link, now) ELSE bound.con
        /\ mail' = IF f.kind = "reply"
                   THEN [mb EXCEPT !.handle = Told(@, {f.re.m}, "answered")] ELSE mb

OnFrameIn ==
    /\ Handles("frame")
    /\ \E f \in {Head(con.inbox)} :
         \/ /\ f.kind = "bad"
            /\ con' = Close(Rest, f.link)
            /\ UNCHANGED <<mail, known>>
         \/ /\ f.kind = "reply" /\ Retires(mail.box, f.re.m, f.from)
            /\ Accepted(Credited(Rest, known, f), known,
                        [mail EXCEPT !.box = Without(@, {f.re.m})], f)
         \/ /\ f.kind = "pong" /\ f.re \in known.pings
            /\ con' = [Rest EXCEPT !.links[f.re] = OnReply(@)]
            /\ known' = [known EXCEPT !.pings = @ \ {f.re}]
            /\ mail' = mail
         \/ /\ \/ f.kind \in {"request", "ping"}
               \/ f.kind = "reply" /\ ~Retires(mail.box, f.re.m, f.from)
            /\ IF f.from \in DOMAIN known.peers \cup known.authorized
               THEN Accepted(Rest, known, mail, f)
               ELSE con' = Rest /\ UNCHANGED <<mail, known>>
    /\ UNCHANGED <<now, cast, left>>

(***************************************************************************)
(* The loop: timers, when nothing posted is waiting.                       *)
(***************************************************************************)
\* _act and plan_next for one message that is due.  st is the state so far, and
\* rank the order of the links by how fast they have been.
Act(st, m, rank) ==
    LET p == st.mail.box[m]
        n == Len(p.attempts)
        usable == {l \in known.peers[p.to].links : Available(st.con.links[l], now)}
        best == CHOOSE l \in usable : \A k \in usable : rank[l] <= rank[k]
    IN  CASE p.to \notin DOMAIN known.peers ->
               [st EXCEPT !.mail.box = Postponed(@, m, now + Backoff(n))]
          [] p.to \in DOMAIN known.peers /\ GivesUp(st.mail.box, m, now) ->
               [st EXCEPT !.mail.box = Without(@, {m}),
                          !.mail.handle = Told(@, {m}, "expired")]
          [] p.to \in DOMAIN known.peers /\ ~GivesUp(st.mail.box, m, now) /\ usable = {} ->
               [st EXCEPT !.mail.box = Postponed(@, m, WaitsUntil(st.mail.box, m, now))]
          [] OTHER ->
               IF st.con.links[best].sock
               THEN [con |-> Send(st.con, best, now),
                     mail |-> [st.mail EXCEPT
                         !.box = Sent(@, m, st.con.links[best].address, AgainAt(now, usable)),
                         !.wire = IF p.awaits THEN @ \cup {[m |-> m, try |-> n + 1]} ELSE @]]
               ELSE [con |-> Send(st.con, best, now),
                     mail |-> [st.mail EXCEPT !.box = Postponed(@, m, now + Backoff(n))]]

ActAll(st, order, rank) ==
    LET ActedUpTo[i \in 0..Len(order)] ==
          IF i = 0 THEN st ELSE Act(ActedUpTo[i - 1], order[i], rank)
    IN  ActedUpTo[Len(order)]

\* _on_retry_due: what is due goes in the order of the deadlines, and the timer
\* is set again.
OnRetryDue ==
    /\ con.inbox = <<>> /\ mail.retry # Never /\ mail.retry <= now
    /\ \E due \in {Due(mail.box, now)} :
       \E order \in Bijection(1..Cardinality(due), due) : \E rank \in Bijection(LinkIds, LinkIds) :
         /\ \A i, j \in DOMAIN order :
              i < j => mail.box[order[i]].deadline <= mail.box[order[j]].deadline
         /\ \E st \in {ActAll([con |-> con, mail |-> [mail EXCEPT !.box = MarkDue(@, now)]],
                              order, rank)} :
              con' = st.con /\ mail' = ScheduleRetry(st.mail)
    /\ UNCHANGED <<known, now, cast, left>>

\* _on_reap_check: what is overdue is reported, and the link that now has the
\* address of an only attempt is charged, once for each such message.
LinksOf(m) == UNION {LinkAt(con, known, mail.box[m].to, a) : a \in Charged(mail.box, m)}
ChargedTo(l, done) == {m \in done : LinksOf(m) # {} /\ l = Min(LinksOf(m))}

\* Mutant: the reap timer is not set again.
OnReapCheckOnce ==
    /\ con.inbox = <<>> /\ mail.reap # Never /\ mail.reap <= now
    /\ \E done \in {Overdue(mail.box, now)} :
         mail' = [mail EXCEPT !.box = Without(@, done), !.reap = Never,
                              !.handle = Told(@, done, "expired")]
    /\ UNCHANGED <<con, known, now, cast, left>>

OnReapCheck ==
    /\ con.inbox = <<>> /\ mail.reap # Never /\ mail.reap <= now
    /\ \E done \in {Overdue(mail.box, now)} :
         /\ mail' = ScheduleReap([mail EXCEPT !.box = Without(@, done),
                                              !.handle = Told(@, done, "expired")])
         /\ con' = [con EXCEPT !.links = [l \in LinkIds |->
                      OnFailed(con.links[l], Cardinality(ChargedTo(l, done)), now)]]
    /\ UNCHANGED <<known, now, cast, left>>

OnReapUnbound(l) ==
    /\ con.inbox = <<>>
    /\ con' = IF con.links[l].who = Nobody THEN Close(con, l) ELSE con
    /\ known' = [known EXCEPT !.unbound = @ \ {l}]
    /\ UNCHANGED <<mail, now, cast, left>>

OnMaintainLinks ==
    /\ con.inbox = <<>>
    /\ con' = DialPeers(con, known, DOMAIN known.peers)
    /\ UNCHANGED <<mail, known, now, cast, left>>

\* _on_keepalive: a PING to every link that has been idle.
OnKeepAlive(idle) ==
    /\ con.inbox = <<>> /\ Spends("frames")
    /\ con' = SendAll(con, idle, now)
    /\ known' = [known EXCEPT !.pings = @ \cup {l \in idle : con.links[l].sock}]
    /\ UNCHANGED <<mail, now, cast>>

Tick ==
    /\ now < cast.until \/ \E m \in DOMAIN mail.box : now < mail.box[m].deadline
    /\ now' = now + 1
    /\ UNCHANGED <<con, mail, known, cast, left>>

(***************************************************************************)
(* The whole.                                                              *)
(***************************************************************************)
UserNext ==
    \/ \E m \in DOMAIN mail.handle :
         Request(m) \/ RequestReply(m) \/ Register(m) \/ WaitTimesOut(m)
    \/ \E c \in cast.configs : Sync(c)
TransportNext ==
    \/ \E a \in DOMAIN con.workers : ConnectOk(a) \/ ConnectFails(a) \/ Hook(a) \/ WorkerEnds(a)
    \/ Accept
    \/ \E l \in LinkIds :
         \/ LinkFails(l) \/ ReaderEnds(l)
         \/ \E a \in mail.wire : Answer(a, l)
         \/ \E q \in cast.others, kind \in {"request", "ping", "bad"} : Incoming(l, q, kind)
         \/ \E p \in known.pings : Pong(l, p)
OnPosted == OnPostSend \/ OnSyncPeers \/ OnLinkUp \/ OnLinkDown \/ OnFrameIn
Pingable == {l \in UNION {known.peers[q].links : q \in DOMAIN known.peers} :
                Available(con.links[l], now) /\ l \notin known.pings}
OnTimer ==
    \/ OnRetryDue \/ OnReapCheck \/ OnMaintainLinks \/ Tick
    \/ \E l \in known.unbound : OnReapUnbound(l)
    \/ \E idle \in SUBSET Pingable \ {{}} : OnKeepAlive(idle)
PostmanNext == UserNext \/ TransportNext \/ OnPosted \/ OnTimer

\* The loop runs, timers that are due fire, threads go on, a connection attempt
\* ends, and time passes; no answer ever need come.
AllAddresses == UNION {c.addresses : c \in PostmanCasts}
AllMessages == UNION {DOMAIN c.messages : c \in PostmanCasts}
Threads ==
    \/ \E m \in DOMAIN mail.handle : Register(m)
    \/ \E l \in LinkIds : ReaderEnds(l)
PostmanFairness ==
    /\ WF_vars(OnPosted) /\ WF_vars(OnRetryDue) /\ WF_vars(OnReapCheck)
    /\ WF_vars(OnMaintainLinks) /\ WF_vars(Tick) /\ WF_vars(Threads)
    /\ WF_vars(\E l \in known.unbound : OnReapUnbound(l))
    /\ \A a \in AllAddresses :
         WF_vars(/\ a \in DOMAIN con.workers
                 /\ ConnectOk(a) \/ ConnectFails(a) \/ Hook(a) \/ WorkerEnds(a))
PostmanSpec == PostmanInit /\ [][PostmanNext]_vars /\ PostmanFairness

LastDeadline == cast.until + TTL * Cardinality(DOMAIN mail.handle)
PostmanTypeOK ==
    /\ now \in 0..LastDeadline
    /\ \A l \in LinkIds : con.links[l].failures \in Nat /\ con.links[l].opened \in -1..now
    /\ \A m \in DOMAIN mail.box :
         /\ mail.box[m].deadline \in 0..LastDeadline
         /\ Len(mail.box[m].attempts) <= MaxAttempts
    /\ \A q \in DOMAIN known.peers : \A l \in known.peers[q].links : con.links[l].who = q

\* Whatever is in the mailbox has a timer that will deal with it: the reap timer
\* fires by the earliest deadline, the retry timer by the earliest attempt due.
TimersArmed ==
    \A m \in DOMAIN mail.box : LET p == mail.box[m] IN
        /\ mail.reap # Never /\ mail.reap <= p.deadline
        /\ ~p.flying /\ p.next < p.deadline /\ now < p.deadline
              => mail.retry # Never /\ mail.retry <= p.next

\* Every request whose handle was registered before it was sent is answered or
\* reported expired, whatever happens to links, peers and replies.
Awaits(m) ==
    /\ m \in DOMAIN mail.handle /\ cast.messages[m].kind = "request"
    /\ mail.handle[m] = "waiting"
Resolves == \A m \in AllMessages : Awaits(m) ~> ~Awaits(m)

\* A link a peer lists is open, or its _LinkDown is still to be handled, or it was
\* bound to the peer by a frame handled after its _LinkDown, and stays for good.
ListedLinksOpen ==
    \A q \in DOMAIN known.peers : \A l \in known.peers[q].links :
        con.links[l].sock \/ Down(l) \in Range(con.inbox) \/ l \in known.late

\* The follower polls peers the postman has, and every one of them except those
\* that were made for an inbound link before they were wanted.
PolledArePeers ==
    /\ known.polled \subseteq DOMAIN known.peers
    /\ DOMAIN known.peers \ known.polled \subseteq known.strays

\* The postman keeps as many connections to a peer as it wants and has addresses
\* for, unless a worker waits on a connection that closed before its hook was
\* set, or the peer lists a link that was bound when it was closed already.
Forsaken(q) ==
    \/ known.peers[q].links \cap known.late # {}
    \/ \E a \in known.peers[q].targets :
         /\ con.workers[a] \in {"hooking", "waiting"}
         /\ con.links[NewestAt(a)].notified
Linked(q) ==
    Cardinality({l \in known.peers[q].links : con.links[l].sock})
        >= Min({DesiredLinks, Cardinality(known.peers[q].targets)})
Redials ==
    \A q \in UNION {c.others : c \in PostmanCasts} :
        <>[](q \in DOMAIN known.peers /\ ~Forsaken(q))
            => []<>(q \in DOMAIN known.peers /\ Linked(q))
=============================================================================
