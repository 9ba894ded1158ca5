-------------------------------- MODULE Links --------------------------------
(***************************************************************************)
(* Links and what makes and ends them: Link and Peer (dude/net/link.py),   *)
(* TCP connections with their reader threads, and the worker thread of a   *)
(* dialled address (dude/net/transports/tcp.py).                           *)
(*                                                                         *)
(* The operators act on a record con of                                    *)
(*   links    the links made so far, by number;                            *)
(*   workers  the dial worker of each address: "none", "dialing",          *)
(*            "hooking" between making the connection and setting its own  *)
(*            on_close, "waiting" for its stop event, "ending" once that   *)
(*            is set, "ended", or "failed" to connect;                     *)
(*   inbox    the events posted to the postman's loop, in order.           *)
(***************************************************************************)
EXTENDS Integers, Sequences, FiniteSets

CONSTANTS
    BreakerThreshold,   \* failures that open a link's breaker
    Cooldown            \* how long an open breaker keeps the link out

ASSUME LinksAssumption == BreakerThreshold \in Nat \ {0} /\ Cooldown \in Nat

Nobody == "nobody"

\* sock: the transport is open (not _TCPConn.closed); closed: Link._closed;
\* reading: the reader thread runs; opened: when the breaker opened, or -1.
NewLink(address, inbound) ==
    [address |-> address, inbound |-> inbound, who |-> Nobody, sock |-> TRUE,
     closed |-> FALSE, notified |-> FALSE, hook |-> "postman", reading |-> TRUE,
     failures |-> 0, opened |-> -1]

Posted(con, event) == [con EXCEPT !.inbox = Append(@, event)]
Up(l) == [is |-> "up", link |-> l]
Down(l) == [is |-> "down", link |-> l]

\* _TCPConn, with on_link before its reader starts: the postman's on_close is set
\* and _LinkUp posted.
Connected(con, address, inbound) ==
    LET l == Len(con.links) + 1
    IN  Posted([con EXCEPT !.links = Append(@, NewLink(address, inbound))], Up(l))

\* Link.notify_closed: the hook that is set by then is called, once.  Either
\* posts _LinkDown; only the worker's sets its stop event, and ends it.
NotifyClosed(con, l) ==
    IF con.links[l].notified THEN con
    ELSE Posted([con EXCEPT
            !.links[l].notified = TRUE,
            !.workers = [a \in DOMAIN @ |->
                IF con.links[l].hook = "worker" /\ a = con.links[l].address THEN "ending"
                ELSE @[a]]],
            Down(l))

\* Link.close, by the loop.
Close(con, l) ==
    IF con.links[l].closed THEN con
    ELSE NotifyClosed([con EXCEPT !.links[l].closed = TRUE, !.links[l].sock = FALSE], l)

\* Peer.reconfigure and Peer.disconnect close several links, in some order.
CloseAll(con, ls) ==
    LET ClosedUpTo[n \in 0..Len(con.links)] ==
          IF n = 0 THEN con
          ELSE IF n \in ls THEN Close(ClosedUpTo[n - 1], n) ELSE ClosedUpTo[n - 1]
    IN  ClosedUpTo[Len(con.links)]

\* Mutant: a failed write tells nobody.
WriterFailsSilently(con, l) == [con EXCEPT !.links[l].sock = FALSE]

\* _TCPConn._fail, in the writer, whose reader may still post what it has read,
\* or in the reader, which ends.
WriterFails(con, l) == NotifyClosed([con EXCEPT !.links[l].sock = FALSE], l)
ReaderFails(con, l) ==
    NotifyClosed([con EXCEPT !.links[l].sock = FALSE, !.links[l].reading = FALSE], l)

\* Link.available
Available(link, now) ==
    ~link.closed /\ (link.opened = -1 \/ now - link.opened >= Cooldown)

\* Link.on_reply, and Link.on_expired and _on_failed, so many times.
OnReply(link) == [link EXCEPT !.failures = 0, !.opened = -1]
OnFailed(link, times, now) ==
    [link EXCEPT !.failures = @ + times,
                 !.opened = IF times > 0 /\ link.failures + times >= BreakerThreshold
                            THEN now ELSE @]

\* Link.send: refused by a closed link or an open breaker; a dead transport
\* counts as a failure and closes the link.
Send(con, l, now) ==
    CASE ~Available(con.links[l], now) -> con
      [] Available(con.links[l], now) /\ con.links[l].sock -> [con EXCEPT !.links[l].opened = -1]
      [] OTHER -> Close([con EXCEPT !.links[l] =
                            OnFailed([con.links[l] EXCEPT !.opened = -1], 1, now)], l)

\* Several links are sent to, in some order.
SendAll(con, ls, now) ==
    LET SentUpTo[n \in 0..Len(con.links)] ==
          IF n = 0 THEN con
          ELSE IF n \in ls THEN Send(SentUpTo[n - 1], n, now) ELSE SentUpTo[n - 1]
    IN  SentUpTo[Len(con.links)]

\* Mutant: a worker that has ended is never replaced.
DialledOnce(worker) == IF worker = "none" THEN "dialing" ELSE worker

\* TCPDialer.dial: a worker that is alive is left to it; one that did not
\* connect costs a cooldown; else a new one starts.
Dialled(worker) ==
    CASE worker \in {"none", "ended"} -> "dialing"
      [] worker = "failed" -> "none"
      [] OTHER -> worker
=============================================================================
