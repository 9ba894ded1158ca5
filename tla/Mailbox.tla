------------------------------- MODULE Mailbox -------------------------------
(***************************************************************************)
(* The mailbox of a postman (dude/net/mailbox.py) and the plan of a        *)
(* message's next attempt (dude/net/plan.py), as operators on the pending  *)
(* messages: box[m] is the _Pending of message m, whose attempts are the   *)
(* sequence of the addresses they went to.                                 *)
(***************************************************************************)
EXTENDS Integers, Sequences, FiniteSets, FiniteSetsExt

CONSTANTS
    TTL,            \* from posting a message to its deadline
    BackoffBase, BackoffCap,
    StaggerCap,     \* the longest wait before a second link is tried
    MaxAttempts

ASSUME MailboxAssumption ==
    /\ TTL \in Nat \ {0} /\ MaxAttempts \in Nat \ {0}
    /\ BackoffBase \in Nat \ {0} /\ BackoffCap \in Nat /\ BackoffBase <= BackoffCap
    /\ StaggerCap \in Nat \ {0}

Never == -1

Without(f, S) == [x \in DOMAIN f \ S |-> f[x]]
With(f, x, v) == [y \in DOMAIN f \cup {x} |-> IF y = x THEN v ELSE f[y]]

\* Mailbox.post
Post(box, m, to, awaits, now) ==
    With(box, m, [to |-> to, awaits |-> awaits, deadline |-> now + TTL, next |-> now,
                  flying |-> FALSE, attempts |-> <<>>])

\* due, which also marks what it returns as in flight.
Due(box, now) ==
    {m \in DOMAIN box : ~box[m].flying /\ box[m].next <= now /\ now < box[m].deadline}
MarkDue(box, now) ==
    [m \in DOMAIN box |-> [box[m] EXCEPT !.flying = @ \/ m \in Due(box, now)]]

\* sent: what awaits no reply is done with; what does is in flight unless the
\* plan has another attempt at again.
Sent(box, m, address, again) ==
    IF box[m].awaits
    THEN [box EXCEPT ![m].attempts = Append(@, address),
                     ![m].flying = again = Never,
                     ![m].next = IF again = Never THEN @ ELSE again]
    ELSE Without(box, {m})

\* failed
Postponed(box, m, until) == [box EXCEPT ![m].flying = FALSE, ![m].next = until]

\* arrived: does a reply from frm retire what is pending?
Retires(box, re, frm) == re \in DOMAIN box /\ box[re].to = frm

\* expired and expire: the address that is charged, of the only attempt.
Overdue(box, now) == {m \in DOMAIN box : box[m].deadline <= now}
Charged(box, m) == IF Len(box[m].attempts) = 1 THEN {box[m].attempts[1]} ELSE {}

\* backoff and retry_at, after n attempts: Tripled[n] is the base times 3 ** n.
Tripled[n \in 0..MaxAttempts] == IF n = 0 THEN BackoffBase ELSE 3 * Tripled[n - 1]
Backoff(n) ==
    LET hi == Min({BackoffCap, Tripled[Max({1, n})]})
    IN  BackoffBase + (hi - BackoffBase) \div 2

\* Mutant: one attempt more than allowed.
GivesUpLate(box, m, now) == box[m].deadline <= now \/ Len(box[m].attempts) > MaxAttempts

\* plan_next: give up, wait, or send, again after a stagger when another link
\* could be tried.  How long a link's round trips take is left open.
GivesUp(box, m, now) == box[m].deadline <= now \/ Len(box[m].attempts) >= MaxAttempts
WaitsUntil(box, m, now) == Min({box[m].deadline, now + Backoff(Len(box[m].attempts))})
AgainAt(now, usable) == IF Cardinality(usable) > 1 THEN now + StaggerCap ELSE Never

\* Mutant: the retry timer is set for attempts that are still ahead only.
RetryTimesAhead(box, now) ==
    {box[m].next : m \in {x \in DOMAIN box : ~box[x].flying /\ now < box[x].next}}

\* _schedule_retry and _schedule_reap: when the timers are set to fire.
RetryTimes(box, now) ==
    {box[m].next : m \in {x \in DOMAIN box :
        ~box[x].flying /\ box[x].next < box[x].deadline /\ now < box[x].deadline}}
ReapTimes(box) == {box[m].deadline : m \in DOMAIN box}
Earliest(times) == IF times = {} THEN Never ELSE Min(times)
=============================================================================
