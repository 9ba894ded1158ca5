---------------------------- MODULE PostmanLemmas ----------------------------
(***************************************************************************)
(* Lemmas about the postman: what each operation on links, the inbox and   *)
(* the peers preserves, and that the threads and the hooks that no loop    *)
(* over links or messages enters keep PostmanInv.                          *)
(***************************************************************************)
EXTENDS PostmanInv, TLAPS

-----------------------------------------------------------------------------
(* Links                                                                   *)

\* cn2 is cn after links were closed, charged, credited or sent to at t: nothing
\* is bound or connected, and all that is posted is the _LinkDown of the links
\* that tell of their end.
Moved(cn, cn2, t) ==
    /\ Len(cn2.links) = Len(cn.links) /\ Len(cn.inbox) <= Len(cn2.inbox)
    /\ \A l \in 1..Len(cn.links) :
         /\ cn2.links[l].who = cn.links[l].who
         /\ cn.links[l].notified => cn2.links[l].notified
         /\ cn2.links[l].notified => cn.links[l].notified \/ Down(l) \in Range(cn2.inbox)
         /\ ~cn2.links[l].sock => ~cn.links[l].sock \/ cn2.links[l].notified
         /\ cn2.links[l].opened \in {cn.links[l].opened, -1, t}
    /\ \A i \in 1..Len(cn.inbox) : cn2.inbox[i] = cn.inbox[i]
    /\ \A i \in 1..Len(cn2.inbox) : i > Len(cn.inbox) =>
         cn2.inbox[i].is = "down" /\ cn2.inbox[i].link \in 1..Len(cn.links)

\* The parts of the record.
LEMMA ConFields ==
    ASSUME NEW c, NEW cn \in ConState(c)
    PROVE  /\ cn.links \in Seq(LinkState(c)) /\ cn.inbox \in Seq(Event(c))
           /\ cn.workers \in [c.addresses -> WorkerState]
           /\ Len(cn.links) \in Nat /\ Len(cn.inbox) \in Nat
           /\ DOMAIN cn.links = 1..Len(cn.links) /\ DOMAIN cn.inbox = 1..Len(cn.inbox)
           /\ \A l \in 1..Len(cn.links) : cn.links[l] \in LinkState(c)
           /\ \A i \in 1..Len(cn.inbox) : cn.inbox[i] \in Event(c)
<1>1. /\ cn.links \in Seq(LinkState(c)) /\ cn.inbox \in Seq(Event(c))
      /\ cn.workers \in [c.addresses -> WorkerState]
  BY DEF ConState
<1> QED
  BY <1>1

LEMMA MovedSame ==
    ASSUME NEW c, NEW t, NEW cn \in ConState(c), NEW cn2,
           cn2.inbox = cn.inbox, Len(cn2.links) = Len(cn.links),
           \A l \in 1..Len(cn.links) :
             /\ cn2.links[l].who = cn.links[l].who
             /\ cn2.links[l].notified = cn.links[l].notified
             /\ ~cn2.links[l].sock => ~cn.links[l].sock \/ cn2.links[l].notified
             /\ cn2.links[l].opened \in {cn.links[l].opened, -1, t}
    PROVE  Moved(cn, cn2, t)
BY ConFields DEF Moved

LEMMA MovedTwice ==
    ASSUME NEW c, NEW t, NEW x \in ConState(c), NEW y \in ConState(c), NEW z \in ConState(c),
           Moved(x, y, t), Moved(y, z, t)
    PROVE  Moved(x, z, t)
<1> DEFINE M == Len(x.inbox) N == Len(y.inbox) K == Len(z.inbox) L == Len(x.links)
<1>1. /\ M \in Nat /\ N \in Nat /\ K \in Nat /\ L \in Nat /\ M <= N /\ N <= K
      /\ Len(y.links) = L /\ Len(z.links) = L
      /\ DOMAIN y.inbox = 1..N /\ DOMAIN z.inbox = 1..K
  BY ConFields DEF Moved
<1>2. \A l \in 1..L : Down(l) \in Range(y.inbox) => Down(l) \in Range(z.inbox)
  BY <1>1 DEF Moved, Range
<1>3. ASSUME NEW l \in 1..L
      PROVE  /\ z.links[l].who = x.links[l].who
             /\ x.links[l].notified => z.links[l].notified
             /\ z.links[l].notified => x.links[l].notified \/ Down(l) \in Range(z.inbox)
             /\ ~z.links[l].sock => ~x.links[l].sock \/ z.links[l].notified
             /\ z.links[l].opened \in {x.links[l].opened, -1, t}
  BY <1>1, <1>2, Zenon DEF Moved
<1>4. \A i \in 1..M : z.inbox[i] = x.inbox[i]
  BY <1>1 DEF Moved
<1>5. \A i \in 1..K : i > M => z.inbox[i].is = "down" /\ z.inbox[i].link \in 1..L
  BY <1>1 DEF Moved
<1> QED
  BY <1>1, <1>3, <1>4, <1>5 DEF Moved

\* A step that only moves links keeps what holds of links, inbox and peers, and
\* the messages that are still to be sent.
LEMMA MovedConInv ==
    ASSUME NEW c, NEW t \in Nat, NEW cn, NEW cn2 \in ConState(c), ConInv(cn, t, c),
           Moved(cn, cn2, t)
    PROVE  ConInv(cn2, t, c)
<1> DEFINE N == Len(cn.inbox) K == Len(cn2.inbox) L == Len(cn.links)
<1>1. /\ cn \in ConState(c) /\ N \in Nat /\ K \in Nat /\ L \in Nat /\ N <= K /\ Len(cn2.links) = L
      /\ DOMAIN cn.inbox = 1..N /\ DOMAIN cn2.inbox = 1..K
  BY ConFields DEF Moved, ConInv
<1>2. LinksInv(cn2, t)
  BY <1>1 DEF Moved, ConInv, LinksInv
<1>3. InboxInv(cn2)
  <2> SUFFICES ASSUME NEW i \in 1..K
               PROVE  /\ AboutLink(cn2.inbox[i]) => cn2.inbox[i].link \in 1..L
                      /\ cn2.inbox[i].is = "up" =>
                            /\ cn2.links[cn2.inbox[i].link].who = Nobody
                            /\ cn2.links[cn2.inbox[i].link].notified =>
                                  Down(cn2.inbox[i].link) \in Range(cn2.inbox)
                            /\ \A j \in 1..K :
                                  AboutLink(cn2.inbox[j]) /\ cn2.inbox[j].link = cn2.inbox[i].link
                                     => i <= j
    BY <1>1 DEF InboxInv
  <2>1. CASE i > N
    BY <1>1, <2>1, Zenon DEF Moved
  <2>2. CASE i <= N
    <3>1. cn2.inbox[i] = cn.inbox[i] /\ i \in 1..N
      BY <1>1, <2>2 DEF Moved
    <3>2. /\ AboutLink(cn.inbox[i]) => cn.inbox[i].link \in 1..L
          /\ cn.inbox[i].is = "up" =>
                /\ cn.links[cn.inbox[i].link].who = Nobody
                /\ cn.links[cn.inbox[i].link].notified =>
                      Down(cn.inbox[i].link) \in Range(cn.inbox)
                /\ \A j \in 1..N :
                      AboutLink(cn.inbox[j]) /\ cn.inbox[j].link = cn.inbox[i].link => i <= j
      BY <3>1 DEF ConInv, InboxInv
    <3>3. cn.inbox[i].is = "up" => AboutLink(cn.inbox[i])
      BY DEF AboutLink
    <3>4. Range(cn.inbox) \subseteq Range(cn2.inbox)
      BY <1>1 DEF Moved, Range
    <3>5. cn.inbox[i].is = "up" =>
            /\ cn2.links[cn.inbox[i].link].who = Nobody
            /\ cn2.links[cn.inbox[i].link].notified =>
                  Down(cn.inbox[i].link) \in Range(cn2.inbox)
      BY <3>2, <3>3, <3>4, Zenon DEF Moved
    <3>6. ASSUME NEW j \in 1..K, cn.inbox[i].is = "up", AboutLink(cn2.inbox[j]),
                 cn2.inbox[j].link = cn.inbox[i].link
          PROVE  i <= j
      <4>1. CASE j <= N
        BY <1>1, <3>2, <3>6, <4>1 DEF Moved
      <4>2. CASE j > N
        BY <1>1, <2>2, <4>2
      <4> QED
        BY <1>1, <4>1, <4>2
    <3> QED
      BY <3>1, <3>2, <3>5, <3>6
  <2> QED
    BY <1>1, <2>1, <2>2
<1> QED
  BY <1>2, <1>3 DEF ConInv

LEMMA MovedKnownInv ==
    ASSUME NEW c, NEW t, NEW cn \in ConState(c), NEW cn2 \in ConState(c), NEW kn,
           KnownInv(cn, kn, c), Moved(cn, cn2, t)
    PROVE  KnownInv(cn2, kn, c)
<1>1. Range(cn.inbox) \subseteq Range(cn2.inbox)
  <2>1. /\ DOMAIN cn.inbox = 1..Len(cn.inbox) /\ DOMAIN cn2.inbox = 1..Len(cn2.inbox)
        /\ Len(cn.inbox) \in Nat /\ Len(cn2.inbox) \in Nat
    BY ConFields
  <2> QED
    BY <2>1 DEF Moved, Range
<1>2. ListedInv(cn2, kn)
  BY <1>1 DEF KnownInv, ListedInv, Moved
<1> QED
  BY <1>2 DEF KnownInv, Moved

LEMMA MovedSends ==
    ASSUME NEW c, NEW t, NEW cn \in ConState(c), NEW cn2 \in ConState(c), NEW mb,
           SendsInv(cn.inbox, mb), Moved(cn, cn2, t)
    PROVE  SendsInv(cn2.inbox, mb) /\ Queued(cn2.inbox) = Queued(cn.inbox)
<1> DEFINE N == Len(cn.inbox) K == Len(cn2.inbox)
<1>1. /\ N \in Nat /\ K \in Nat /\ N <= K /\ DOMAIN cn.inbox = 1..N /\ DOMAIN cn2.inbox = 1..K
  BY ConFields DEF Moved
<1>2. \A i \in 1..K : cn2.inbox[i].is = "send" => i \in 1..N /\ cn2.inbox[i] = cn.inbox[i]
  BY <1>1 DEF Moved
<1>3. SendsInv(cn2.inbox, mb)
  BY <1>1, <1>2, Zenon DEF SendsInv
<1>4. \A m : SendOf(m) \in Range(cn2.inbox) <=> SendOf(m) \in Range(cn.inbox)
  <2>1. \A m : SendOf(m).is = "send"
    BY DEF SendOf
  <2> QED
    BY <1>1, <1>2, <2>1 DEF Moved, Range
<1> QED
  BY <1>3, <1>4 DEF Queued

LEMMA ConShape ==
    ASSUME NEW c, NEW cn \in ConState(c)
    PROVE  cn = [links |-> cn.links, workers |-> cn.workers, inbox |-> cn.inbox]
BY DEF ConState

LEMMA LinkUpdate ==
    ASSUME NEW c, NEW cn \in ConState(c), NEW l \in 1..Len(cn.links), NEW k \in LinkState(c),
           NEW cn2, cn2 = [cn EXCEPT !.links[l] = k]
    PROVE  /\ cn2 \in ConState(c) /\ Len(cn2.links) = Len(cn.links)
           /\ cn2.inbox = cn.inbox /\ cn2.workers = cn.workers
           /\ cn2.links[l] = k
           /\ \A j \in 1..Len(cn.links) : j # l => cn2.links[j] = cn.links[j]
<1> DEFINE ls == [cn.links EXCEPT ![l] = k]
<1>1. cn.links \in Seq(LinkState(c)) /\ cn.inbox \in Seq(Event(c)) /\ l \in DOMAIN cn.links
  BY ConFields
<1>2. ls \in Seq(LinkState(c)) /\ Len(ls) = Len(cn.links) /\ ls[l] = k
      /\ \A j \in 1..Len(cn.links) : j # l => ls[j] = cn.links[j]
  BY <1>1
<1>3. cn2 = [cn EXCEPT !.links = ls]
  OBVIOUS
<1> HIDE DEF ls
<1>4. cn2 = [links |-> ls, workers |-> cn.workers, inbox |-> cn.inbox]
  BY <1>3, ConShape
<1>5. cn2 \in ConState(c)
  BY <1>2, <1>4, ConFields, Zenon DEF ConState
<1> QED
  BY <1>2, <1>4, <1>5

LEMMA EventAppended ==
    ASSUME NEW c, NEW cn \in ConState(c), NEW e \in Event(c), NEW cn2, cn2 = Posted(cn, e)
    PROVE  /\ cn2 \in ConState(c) /\ cn2.links = cn.links /\ cn2.workers = cn.workers
           /\ Len(cn2.inbox) = Len(cn.inbox) + 1 /\ cn2.inbox[Len(cn.inbox) + 1] = e
           /\ \A i \in 1..Len(cn.inbox) : cn2.inbox[i] = cn.inbox[i]
<1> DEFINE b == Append(cn.inbox, e)
<1>1. cn.inbox \in Seq(Event(c)) /\ Len(cn.inbox) \in Nat
  BY ConFields
<1>2. /\ b \in Seq(Event(c)) /\ Len(b) = Len(cn.inbox) + 1 /\ b[Len(cn.inbox) + 1] = e
      /\ \A i \in 1..Len(cn.inbox) : b[i] = cn.inbox[i]
  BY <1>1
<1>3. cn2 = [cn EXCEPT !.inbox = b]
  BY DEF Posted
<1> HIDE DEF b
<1>5. cn2 = [links |-> cn.links, workers |-> cn.workers, inbox |-> b]
  BY <1>3, ConShape
<1>6. cn2 \in ConState(c)
  BY <1>2, <1>5, ConFields DEF ConState
<1> QED
  BY <1>2, <1>5, <1>6

\* Workers may end, or start, on the side.
LEMMA NewWorkers ==
    ASSUME NEW c, NEW cn \in ConState(c), NEW w \in [c.addresses -> WorkerState],
           NEW cn2, cn2 = [cn EXCEPT !.workers = w]
    PROVE  cn2 \in ConState(c) /\ cn2.links = cn.links /\ cn2.inbox = cn.inbox
BY DEF ConState

\* Link.notify_closed
LEMMA NotifyShape ==
    ASSUME NEW c, NEW a \in ConState(c), NEW l \in 1..Len(a.links), ~a.links[l].notified
    PROVE  LET e == NotifyClosed(a, l)
           IN  /\ e \in ConState(c) /\ Len(e.links) = Len(a.links)
               /\ e.links[l].who = a.links[l].who /\ e.links[l].opened = a.links[l].opened
               /\ e.links[l].notified
               /\ \A j \in 1..Len(a.links) : j # l => e.links[j] = a.links[j]
               /\ Len(e.inbox) = Len(a.inbox) + 1 /\ e.inbox[Len(a.inbox) + 1] = Down(l)
               /\ \A i \in 1..Len(a.inbox) : e.inbox[i] = a.inbox[i]
<1> DEFINE w == [x \in DOMAIN a.workers |->
                  IF a.links[l].hook = "worker" /\ x = a.links[l].address THEN "ending"
                  ELSE a.workers[x]]
           k2 == [a.links[l] EXCEPT !.notified = TRUE]
           b == [a EXCEPT !.links[l] = k2]
           d == [b EXCEPT !.workers = w]
           e == NotifyClosed(a, l)
<1>1. e = Posted(d, Down(l))
  <2>1. a.links \in Seq(LinkState(c)) /\ l \in DOMAIN a.links
    BY ConFields
  <2>2. [a EXCEPT !.links[l].notified = TRUE, !.workers = w] = d
    BY <2>1 DEF ConState
  <2>3. e = Posted([a EXCEPT !.links[l].notified = TRUE, !.workers = w], Down(l))
    BY DEF NotifyClosed
  <2> QED
    BY <2>2, <2>3
<1>2. /\ k2 \in LinkState(c) /\ k2.who = a.links[l].who /\ k2.opened = a.links[l].opened
      /\ k2.notified
  <2>1. a.links[l] \in LinkState(c)
    BY ConFields
  <2> QED
    BY <2>1, Zenon DEF LinkState
<1>3. w \in [c.addresses -> WorkerState]
  BY DEF ConState, WorkerState
<1> HIDE DEF w, k2, e
<1>4. b = [a EXCEPT !.links[l] = k2]
  OBVIOUS
<1> HIDE DEF b
<1>5. /\ b \in ConState(c) /\ Len(b.links) = Len(a.links) /\ b.inbox = a.inbox /\ b.links[l] = k2
      /\ \A j \in 1..Len(a.links) : j # l => b.links[j] = a.links[j]
  BY <1>2, <1>4, LinkUpdate
<1>6. d = [b EXCEPT !.workers = w]
  OBVIOUS
<1> HIDE DEF d
<1>7. d \in ConState(c) /\ d.links = b.links /\ d.inbox = b.inbox
  BY <1>3, <1>5, <1>6, NewWorkers
<1>8. Down(l) \in Event(c)
  BY ConFields DEF Down, Event, Changes, LinkNumbers
<1>9. /\ e \in ConState(c) /\ e.links = d.links /\ Len(e.inbox) = Len(d.inbox) + 1
      /\ e.inbox[Len(d.inbox) + 1] = Down(l)
      /\ \A i \in 1..Len(d.inbox) : e.inbox[i] = d.inbox[i]
  <2> DEFINE dn == Down(l)
  <2>1. d \in ConState(c) /\ dn \in Event(c) /\ e = Posted(d, dn)
    BY ONLY <1>1, <1>7, <1>8
  <2> HIDE DEF dn
  <2>2. /\ e \in ConState(c) /\ e.links = d.links /\ Len(e.inbox) = Len(d.inbox) + 1
        /\ e.inbox[Len(d.inbox) + 1] = dn
        /\ \A i \in 1..Len(d.inbox) : e.inbox[i] = d.inbox[i]
    BY ONLY <2>1, EventAppended
  <2> QED
    BY ONLY <2>2 DEF dn
<1>10. /\ e \in ConState(c) /\ Len(e.links) = Len(a.links)
       /\ e.links[l].who = a.links[l].who /\ e.links[l].opened = a.links[l].opened
       /\ e.links[l].notified
       /\ \A j \in 1..Len(a.links) : j # l => e.links[j] = a.links[j]
       /\ Len(e.inbox) = Len(a.inbox) + 1 /\ e.inbox[Len(a.inbox) + 1] = Down(l)
       /\ \A i \in 1..Len(a.inbox) : e.inbox[i] = a.inbox[i]
  BY <1>2, <1>5, <1>7, <1>9
<1> QED
  BY <1>10 DEF e

\* Link.notify_closed, of a link that was changed without telling.
LEMMA NotifyMoved ==
    ASSUME NEW c, NEW t, NEW cn \in ConState(c), NEW l \in 1..Len(cn.links), NEW a \in ConState(c),
           Len(a.links) = Len(cn.links), a.inbox = cn.inbox,
           \A j \in 1..Len(cn.links) : j # l => a.links[j] = cn.links[j],
           a.links[l].who = cn.links[l].who, a.links[l].notified = cn.links[l].notified,
           a.links[l].opened \in {cn.links[l].opened, -1, t}
    PROVE  LET e == NotifyClosed(a, l)
           IN  e \in ConState(c) /\ Moved(cn, e, t) /\ e.links[l].notified
<1> DEFINE e == NotifyClosed(a, l)
<1>1. Len(cn.inbox) \in Nat /\ Len(cn.links) \in Nat /\ a.links[l] \in LinkState(c)
  BY ConFields
<1>2. CASE a.links[l].notified
  <2>1. e = a
    BY <1>2 DEF NotifyClosed
  <2> HIDE DEF e
  <2>2. ASSUME NEW j \in 1..Len(cn.links)
        PROVE  /\ a.links[j].who = cn.links[j].who
               /\ cn.links[j].notified => a.links[j].notified
               /\ a.links[j].notified => cn.links[j].notified \/ Down(j) \in Range(a.inbox)
               /\ ~a.links[j].sock => ~cn.links[j].sock \/ a.links[j].notified
               /\ a.links[j].opened \in {cn.links[j].opened, -1, t}
    <3>1. CASE j = l
      BY <1>2, <3>1, Zenon
    <3>2. CASE j # l
      BY <3>2
    <3> QED
      BY <3>1, <3>2
  <2>3. Moved(cn, a, t)
    BY <1>1, <2>2 DEF Moved
  <2> QED
    BY <1>2, <2>1, <2>3 DEF e
<1>3. CASE ~a.links[l].notified
  <2>1. l \in 1..Len(a.links)
    OBVIOUS
  <2>2. /\ e \in ConState(c) /\ Len(e.links) = Len(a.links)
        /\ e.links[l].who = a.links[l].who /\ e.links[l].opened = a.links[l].opened
        /\ e.links[l].notified
        /\ \A j \in 1..Len(a.links) : j # l => e.links[j] = a.links[j]
        /\ Len(e.inbox) = Len(a.inbox) + 1 /\ e.inbox[Len(a.inbox) + 1] = Down(l)
        /\ \A i \in 1..Len(a.inbox) : e.inbox[i] = a.inbox[i]
    BY <1>3, <2>1, NotifyShape, Zenon
  <2> HIDE DEF e
  <2>4. ASSUME NEW j \in 1..Len(cn.links)
         PROVE  /\ e.links[j].who = cn.links[j].who
                /\ cn.links[j].notified => e.links[j].notified
                /\ e.links[j].notified => cn.links[j].notified \/ Down(j) \in Range(e.inbox)
                /\ ~e.links[j].sock => ~cn.links[j].sock \/ e.links[j].notified
                /\ e.links[j].opened \in {cn.links[j].opened, -1, t}
    <3>1. CASE j = l
      <4>1. Down(l) \in Range(e.inbox)
        <5>1. Len(a.inbox) + 1 \in DOMAIN e.inbox
          BY <1>1, <2>2, ConFields
        <5> QED
          BY <2>2, <5>1 DEF Range
      <4> QED
        BY <2>2, <3>1, <4>1
    <3>2. CASE j # l
      BY <2>2, <3>2
    <3> QED
      BY <3>1, <3>2
  <2>5. \A i \in 1..Len(e.inbox) : i > Len(cn.inbox) => i = Len(cn.inbox) + 1
    BY <1>1, <2>2
  <2>6. Down(l).is = "down" /\ Down(l).link = l
    BY DEF Down
  <2>7. /\ Len(e.links) = Len(cn.links) /\ Len(cn.inbox) <= Len(e.inbox)
        /\ \A i \in 1..Len(cn.inbox) : e.inbox[i] = cn.inbox[i]
        /\ \A i \in 1..Len(e.inbox) : i > Len(cn.inbox) => e.inbox[i] = Down(l)
    BY <1>1, <2>2, <2>5
  <2>8. Moved(cn, e, t)
    BY <2>4, <2>6, <2>7 DEF Moved
  <2> QED
    BY <2>2, <2>8 DEF e
<1> QED
  BY <1>2, <1>3

LEMMA MovedNone ==
    ASSUME NEW c, NEW t, NEW cn \in ConState(c)
    PROVE  Moved(cn, cn, t)
BY MovedSame

\* Link.close, and a connection that fails on the writing or the reading side.
LEMMA CloseMoved ==
    ASSUME NEW c, NEW t, NEW cn \in ConState(c), NEW l \in 1..Len(cn.links)
    PROVE  /\ Close(cn, l) \in ConState(c) /\ Moved(cn, Close(cn, l), t)
           /\ WriterFails(cn, l) \in ConState(c) /\ Moved(cn, WriterFails(cn, l), t)
           /\ ReaderFails(cn, l) \in ConState(c) /\ Moved(cn, ReaderFails(cn, l), t)
<1> DEFINE k1 == [cn.links[l] EXCEPT !.closed = TRUE, !.sock = FALSE]
           k2 == [cn.links[l] EXCEPT !.sock = FALSE]
           k3 == [cn.links[l] EXCEPT !.sock = FALSE, !.reading = FALSE]
           a1 == [cn EXCEPT !.links[l].closed = TRUE, !.links[l].sock = FALSE]
           a2 == [cn EXCEPT !.links[l].sock = FALSE]
           a3 == [cn EXCEPT !.links[l].sock = FALSE, !.links[l].reading = FALSE]
           Told3(k) == /\ k \in LinkState(c) /\ k.who = cn.links[l].who
                       /\ k.notified = cn.links[l].notified /\ k.opened = cn.links[l].opened
<1>1. /\ cn.links[l] \in LinkState(c) /\ cn.links \in Seq(LinkState(c)) /\ l \in DOMAIN cn.links
  BY ConFields
<1>2. Told3(k1) /\ Told3(k2) /\ Told3(k3)
  BY <1>1, Zenon DEF LinkState
<1>3. /\ a1 = [cn EXCEPT !.links[l] = k1] /\ a2 = [cn EXCEPT !.links[l] = k2]
      /\ a3 = [cn EXCEPT !.links[l] = k3]
  BY <1>1, Zenon DEF ConState
<1> HIDE DEF k1, k2, k3, a1, a2, a3
<1>4. ASSUME NEW k, Told3(k), NEW a, a = [cn EXCEPT !.links[l] = k]
      PROVE  NotifyClosed(a, l) \in ConState(c) /\ Moved(cn, NotifyClosed(a, l), t)
  <2>1. /\ a \in ConState(c) /\ Len(a.links) = Len(cn.links) /\ a.inbox = cn.inbox /\ a.links[l] = k
        /\ \A j \in 1..Len(cn.links) : j # l => a.links[j] = cn.links[j]
    BY <1>4, LinkUpdate
  <2>2. /\ a.links[l].who = cn.links[l].who /\ a.links[l].notified = cn.links[l].notified
        /\ a.links[l].opened \in {cn.links[l].opened, -1, t}
    BY <1>4, <2>1
  <2> QED
    BY <2>1, <2>2, NotifyMoved, Zenon
<1> HIDE DEF Told3
<1>5. \A a \in {a1, a2, a3} : NotifyClosed(a, l) \in ConState(c) /\ Moved(cn, NotifyClosed(a, l), t)
  BY <1>2, <1>3, <1>4
<1>6. Close(cn, l) = IF cn.links[l].closed THEN cn ELSE NotifyClosed(a1, l)
  BY DEF Close, a1
<1>7. WriterFails(cn, l) = NotifyClosed(a2, l) /\ ReaderFails(cn, l) = NotifyClosed(a3, l)
  BY DEF WriterFails, ReaderFails, a2, a3
<1> QED
  BY <1>5, <1>6, <1>7, MovedNone

\* A link whose breaker changes at t, and nothing else that matters.
LEMMA BreakerMoved ==
    ASSUME NEW c, NEW t, NEW cn \in ConState(c), NEW l \in 1..Len(cn.links), NEW k \in LinkState(c),
           k.who = cn.links[l].who, k.notified = cn.links[l].notified, k.sock = cn.links[l].sock,
           k.opened \in {cn.links[l].opened, -1, t},
           NEW a, a = [cn EXCEPT !.links[l] = k]
    PROVE  a \in ConState(c) /\ Moved(cn, a, t)
<1>1. /\ a \in ConState(c) /\ Len(a.links) = Len(cn.links) /\ a.inbox = cn.inbox /\ a.links[l] = k
      /\ \A j \in 1..Len(cn.links) : j # l => a.links[j] = cn.links[j]
  BY LinkUpdate
<1>2. ASSUME NEW j \in 1..Len(cn.links)
      PROVE  /\ a.links[j].who = cn.links[j].who
             /\ a.links[j].notified = cn.links[j].notified
             /\ ~a.links[j].sock => ~cn.links[j].sock \/ a.links[j].notified
             /\ a.links[j].opened \in {cn.links[j].opened, -1, t}
  <2>1. CASE j = l
    BY <1>1, <2>1
  <2>2. CASE j # l
    BY <1>1, <2>2
  <2> QED
    BY <2>1, <2>2
<1> QED
  BY <1>1, <1>2, MovedSame, Zenon

\* Link.on_reply and Link.on_expired
LEMMA OnReplyOK ==
    ASSUME NEW c, NEW k \in LinkState(c)
    PROVE  /\ OnReply(k) \in LinkState(c) /\ OnReply(k).who = k.who
           /\ OnReply(k).notified = k.notified /\ OnReply(k).sock = k.sock
           /\ OnReply(k).opened = -1
<1> DEFINE never == -1
           z == 0
<1>1. never \in Int /\ z \in Nat
  OBVIOUS
<1>2. OnReply(k) = [k EXCEPT !.failures = z, !.opened = never]
  BY DEF OnReply
<1> HIDE DEF never, z
<1>3. /\ OnReply(k) \in LinkState(c) /\ OnReply(k).who = k.who
      /\ OnReply(k).notified = k.notified /\ OnReply(k).sock = k.sock
      /\ OnReply(k).opened = never
  BY <1>1, <1>2, Zenon DEF LinkState
<1> QED
  BY <1>3 DEF never

LEMMA OnFailedOK ==
    ASSUME NEW c, NEW t \in Nat, NEW times \in Nat, NEW k \in LinkState(c)
    PROVE  /\ OnFailed(k, times, t) \in LinkState(c) /\ OnFailed(k, times, t).who = k.who
           /\ OnFailed(k, times, t).notified = k.notified /\ OnFailed(k, times, t).sock = k.sock
           /\ OnFailed(k, times, t).opened \in {k.opened, t}
<1> DEFINE f == k.failures + times
           o == IF times > 0 /\ k.failures + times >= BreakerThreshold THEN t ELSE k.opened
           r == [k EXCEPT !.failures = f, !.opened = o]
<1>1. f \in Nat /\ o \in Int /\ o \in {k.opened, t}
  BY DEF LinkState
<1>2. OnFailed(k, times, t) = r
  BY DEF OnFailed, LinkState
<1> HIDE DEF f, o
<1>3. /\ r \in LinkState(c) /\ r.who = k.who /\ r.notified = k.notified /\ r.sock = k.sock
      /\ r.opened = o
  BY <1>1, Zenon DEF LinkState
<1> HIDE DEF r
<1> QED
  BY <1>1, <1>2, <1>3

\* Link.send
LEMMA SendMoved ==
    ASSUME NEW c, NEW t \in Nat, NEW cn \in ConState(c), NEW l \in 1..Len(cn.links)
    PROVE  Send(cn, l, t) \in ConState(c) /\ Moved(cn, Send(cn, l, t), t)
<1> DEFINE k0 == [cn.links[l] EXCEPT !.opened = -1]
           k1 == OnFailed(k0, 1, t)
           a0 == [cn EXCEPT !.links[l].opened = -1]
           a1 == [cn EXCEPT !.links[l] = k1]
<1>1. /\ cn.links[l] \in LinkState(c) /\ cn.links \in Seq(LinkState(c)) /\ l \in DOMAIN cn.links
  BY ConFields
<1>2. /\ k0 \in LinkState(c) /\ k0.who = cn.links[l].who /\ k0.notified = cn.links[l].notified
      /\ k0.sock = cn.links[l].sock /\ k0.opened = -1
  <2> DEFINE never == -1
  <2>1. never \in Int /\ k0 = [cn.links[l] EXCEPT !.opened = never]
    OBVIOUS
  <2> HIDE DEF never, k0
  <2>2. /\ k0 \in LinkState(c) /\ k0.who = cn.links[l].who /\ k0.notified = cn.links[l].notified
        /\ k0.sock = cn.links[l].sock /\ k0.opened = never
    BY <1>1, <2>1, Zenon DEF LinkState
  <2> QED
    BY <2>2 DEF never
<1>3. a0 = [cn EXCEPT !.links[l] = k0]
  BY <1>1 DEF ConState
<1> HIDE DEF k0, a0
<1>4. /\ k1 \in LinkState(c) /\ k1.who = cn.links[l].who /\ k1.notified = cn.links[l].notified
      /\ k1.sock = cn.links[l].sock /\ k1.opened \in {-1, t}
  <2> DEFINE one == 1
  <2>1. one \in Nat /\ k1 = OnFailed(k0, one, t)
    OBVIOUS
  <2> HIDE DEF one, k1
  <2>2. /\ k1 \in LinkState(c) /\ k1.who = k0.who /\ k1.notified = k0.notified
        /\ k1.sock = k0.sock /\ k1.opened \in {k0.opened, t}
    BY ONLY <1>2, <2>1, OnFailedOK
  <2> QED
    BY ONLY <1>2, <2>2
<1> HIDE DEF k1
<1>5. a0 \in ConState(c) /\ Moved(cn, a0, t)
  BY <1>2, <1>3, BreakerMoved, Zenon
<1>6. a1 = [cn EXCEPT !.links[l] = k1]
  OBVIOUS
<1> HIDE DEF a1
<1>7. a1 \in ConState(c) /\ Moved(cn, a1, t)
  BY <1>4, <1>6, BreakerMoved, Zenon
<1>8. Close(a1, l) \in ConState(c) /\ Moved(cn, Close(a1, l), t)
  <2>1. l \in 1..Len(a1.links)
    BY <1>7 DEF Moved
  <2>2. Close(a1, l) \in ConState(c) /\ Moved(a1, Close(a1, l), t)
    BY <1>7, <2>1, CloseMoved, Zenon
  <2> QED
    BY <1>7, <2>2, MovedTwice
<1>9. Send(cn, l, t) \in {cn, a0, Close(a1, l)}
  BY DEF Send, a0, a1, k1, k0
<1> QED
  BY <1>5, <1>8, <1>9, MovedNone

\* _dial_peer only starts workers.
LEMMA DialMoved ==
    ASSUME NEW c, NEW t, NEW cn \in ConState(c), NEW kn, NEW qs
    PROVE  /\ DialPeers(cn, kn, qs) \in ConState(c)
           /\ DialPeers(cn, kn, qs).links = cn.links /\ DialPeers(cn, kn, qs).inbox = cn.inbox
           /\ Moved(cn, DialPeers(cn, kn, qs), t)
<1> DEFINE T(a) == \E q \in qs \cap DOMAIN kn.peers :
                     /\ Cardinality(kn.peers[q].links) < DesiredLinks
                     /\ a \in kn.peers[q].targets
                     /\ \A l \in kn.peers[q].links : cn.links[l].address # a
           w == [a \in DOMAIN cn.workers |->
                   IF T(a) THEN Dialled(cn.workers[a]) ELSE cn.workers[a]]
           d == DialPeers(cn, kn, qs)
<1>1. d = [cn EXCEPT !.workers = w]
  BY DEF DialPeers
<1> HIDE DEF T, d
<1>2. w \in [c.addresses -> WorkerState]
  <2>1. cn.workers \in [c.addresses -> WorkerState]
    BY ConFields
  <2>2. \A x \in WorkerState : Dialled(x) \in WorkerState
    BY DEF Dialled, WorkerState
  <2> QED
    BY <2>1, <2>2
<1> HIDE DEF w
<1>3. d \in ConState(c) /\ d.links = cn.links /\ d.inbox = cn.inbox
  BY <1>1, <1>2, NewWorkers
<1>4. Moved(cn, d, t)
  BY <1>3, MovedSame
<1> QED
  BY <1>3, <1>4 DEF d

-----------------------------------------------------------------------------
(* The inbox                                                               *)

LEMMA InRange ==
    ASSUME NEW c, NEW cn \in ConState(c), NEW x
    PROVE  x \in Range(cn.inbox) <=> \E i \in 1..Len(cn.inbox) : cn.inbox[i] = x
<1>1. DOMAIN cn.inbox = 1..Len(cn.inbox)
  BY ConFields
<1> QED
  BY <1>1 DEF Range

\* The loop takes the event at the head of the inbox.
LEMMA PopHead ==
    ASSUME NEW c, NEW cn \in ConState(c), cn.inbox # <<>>, NEW r, r = [cn EXCEPT !.inbox = Tail(@)]
    PROVE  /\ r \in ConState(c) /\ r.links = cn.links
           /\ Len(cn.inbox) = Len(r.inbox) + 1 /\ Len(r.inbox) \in Nat
           /\ Head(cn.inbox) = cn.inbox[1] /\ Head(cn.inbox) \in Event(c)
           /\ \A i \in 1..Len(r.inbox) : r.inbox[i] = cn.inbox[i + 1]
<1> DEFINE b == Tail(cn.inbox)
<1>1. cn.inbox \in Seq(Event(c))
  BY ConFields
<1>2. /\ b \in Seq(Event(c)) /\ Len(cn.inbox) = Len(b) + 1 /\ Len(b) \in Nat
      /\ \A i \in 1..Len(b) : b[i] = cn.inbox[i + 1]
      /\ Head(cn.inbox) = cn.inbox[1] /\ Head(cn.inbox) \in Event(c)
  BY <1>1
<1>3. r = [cn EXCEPT !.inbox = b]
  OBVIOUS
<1> HIDE DEF b
<1>4. r = [links |-> cn.links, workers |-> cn.workers, inbox |-> b]
  BY <1>3, ConShape
<1>5. r \in ConState(c)
  BY <1>2, <1>4, ConFields, Zenon DEF ConState
<1> QED
  BY <1>2, <1>4, <1>5

\* What was in the inbox is still there, but for the head.
LEMMA PopRange ==
    ASSUME NEW c, NEW cn \in ConState(c), cn.inbox # <<>>, NEW r, r = [cn EXCEPT !.inbox = Tail(@)],
           NEW x \in Range(cn.inbox), x # Head(cn.inbox)
    PROVE  x \in Range(r.inbox)
<1>1. /\ r \in ConState(c) /\ Len(cn.inbox) = Len(r.inbox) + 1 /\ Len(r.inbox) \in Nat
      /\ Head(cn.inbox) = cn.inbox[1]
      /\ \A i \in 1..Len(r.inbox) : r.inbox[i] = cn.inbox[i + 1]
  BY PopHead
<1>2. PICK i \in 1..Len(cn.inbox) : cn.inbox[i] = x
  BY InRange, Zenon
<1>3. i - 1 \in 1..Len(r.inbox) /\ r.inbox[i - 1] = x
  BY <1>1, <1>2
<1> QED
  BY <1>1, <1>3, InRange, Zenon

LEMMA PopConInv ==
    ASSUME NEW c, NEW t, NEW cn, ConInv(cn, t, c), cn.inbox # <<>>,
           NEW r, r = [cn EXCEPT !.inbox = Tail(@)]
    PROVE  ConInv(r, t, c)
<1>1. cn \in ConState(c)
  BY DEF ConInv
<1>2. /\ r \in ConState(c) /\ r.links = cn.links
      /\ Len(cn.inbox) = Len(r.inbox) + 1 /\ Len(r.inbox) \in Nat
      /\ Head(cn.inbox) = cn.inbox[1]
      /\ \A i \in 1..Len(r.inbox) : r.inbox[i] = cn.inbox[i + 1]
  BY <1>1, PopHead
<1>3. \A x \in Range(cn.inbox) : x # Head(cn.inbox) => x \in Range(r.inbox)
  BY <1>1, PopRange, Zenon
<1>4. InboxInv(r)
  <2> SUFFICES ASSUME NEW i \in 1..Len(r.inbox)
               PROVE  /\ AboutLink(r.inbox[i]) => r.inbox[i].link \in 1..Len(r.links)
                      /\ r.inbox[i].is = "up" =>
                            /\ r.links[r.inbox[i].link].who = Nobody
                            /\ r.links[r.inbox[i].link].notified =>
                                  Down(r.inbox[i].link) \in Range(r.inbox)
                            /\ \A j \in 1..Len(r.inbox) :
                                  AboutLink(r.inbox[j]) /\ r.inbox[j].link = r.inbox[i].link => i <= j
    BY DEF InboxInv
  <2> DEFINE e == r.inbox[i]
  <2>1. i + 1 \in 1..Len(cn.inbox) /\ cn.inbox[i + 1] = e /\ 1 \in 1..Len(cn.inbox)
    BY <1>2
  <2>2. \A j \in 1..Len(r.inbox) : j + 1 \in 1..Len(cn.inbox) /\ cn.inbox[j + 1] = r.inbox[j]
    BY <1>2
  <2> HIDE DEF e
  <2>3. /\ AboutLink(e) => e.link \in 1..Len(cn.links)
        /\ e.is = "up" =>
              /\ cn.links[e.link].who = Nobody
              /\ cn.links[e.link].notified => Down(e.link) \in Range(cn.inbox)
              /\ \A j \in 1..Len(cn.inbox) :
                    AboutLink(cn.inbox[j]) /\ cn.inbox[j].link = e.link => i + 1 <= j
    BY <2>1 DEF ConInv, InboxInv
  <2>4. e.is = "up" => Down(e.link) # Head(cn.inbox)
    <3>1. AboutLink(Down(e.link)) /\ Down(e.link).link = e.link
      BY DEF AboutLink, Down
    <3>2. ~(i + 1 <= 1)
      BY <1>2
    <3> QED
      BY <1>2, <2>1, <2>3, <3>1, <3>2
  <2>5. ASSUME NEW j \in 1..Len(r.inbox), e.is = "up", AboutLink(r.inbox[j]),
               r.inbox[j].link = e.link
        PROVE  i <= j
    <3>1. i + 1 <= j + 1
      BY <2>2, <2>3, <2>5
    <3> QED
      BY <1>2, <3>1
  <2>6. /\ AboutLink(e) => e.link \in 1..Len(r.links)
        /\ e.is = "up" =>
              /\ r.links[e.link].who = Nobody
              /\ r.links[e.link].notified => Down(e.link) \in Range(r.inbox)
              /\ \A j \in 1..Len(r.inbox) :
                    AboutLink(r.inbox[j]) /\ r.inbox[j].link = e.link => i <= j
    BY <1>2, <1>3, <2>3, <2>4, <2>5, Zenon
  <2> QED
    BY <2>6 DEF e
<1>5. LinksInv(r, t)
  BY <1>2 DEF ConInv, LinksInv
<1> QED
  BY <1>2, <1>4, <1>5 DEF ConInv

\* The peers' links too, when none of them is told to be down by the head.
LEMMA PopKnownInv ==
    ASSUME NEW c, NEW t, NEW cn \in ConState(c), cn.inbox # <<>>, NEW kn, KnownInv(cn, kn, c),
           NEW r, r = [cn EXCEPT !.inbox = Tail(@)],
           \A q \in DOMAIN kn.peers : \A l \in kn.peers[q].links : Head(cn.inbox) # Down(l)
    PROVE  KnownInv(r, kn, c)
<1>1. r.links = cn.links
  BY PopHead
<1>2. \A x \in Range(cn.inbox) : x # Head(cn.inbox) => x \in Range(r.inbox)
  BY PopRange, Zenon
<1>3. ListedInv(r, kn)
  BY <1>1, <1>2 DEF KnownInv, ListedInv
<1> QED
  BY <1>1, <1>3 DEF KnownInv

\* A queued send that is popped is no longer queued.
Unqueued(cn, r) ==
    \A m : Head(cn.inbox) = SendOf(m) => Queued(r.inbox) = Queued(cn.inbox) \ {m}

\* Sends stay queued once each when the event in front is taken.
LEMMA PopSends ==
    ASSUME NEW c, NEW cn \in ConState(c), cn.inbox # <<>>, NEW mb, SendsInv(cn.inbox, mb),
           NEW r, r = [cn EXCEPT !.inbox = Tail(@)]
    PROVE  /\ SendsInv(r.inbox, mb)
           /\ Head(cn.inbox).is # "send" => Queued(r.inbox) = Queued(cn.inbox)
           /\ Unqueued(cn, r)
<1>1. /\ r \in ConState(c)
      /\ Len(cn.inbox) = Len(r.inbox) + 1 /\ Len(r.inbox) \in Nat
      /\ Head(cn.inbox) = cn.inbox[1]
      /\ \A i \in 1..Len(r.inbox) : r.inbox[i] = cn.inbox[i + 1]
  BY PopHead
<1>2. \A x \in Range(cn.inbox) : x # Head(cn.inbox) => x \in Range(r.inbox)
  BY PopRange, Zenon
<1>3. \A j \in 1..Len(r.inbox) : j + 1 \in 1..Len(cn.inbox) /\ cn.inbox[j + 1] = r.inbox[j]
  BY <1>1
<1>9. DOMAIN r.inbox = 1..Len(r.inbox)
  BY <1>1, ConFields
<1>4. ASSUME NEW x \in Range(r.inbox) PROVE x \in Range(cn.inbox)
  <2>1. \E i \in 1..Len(r.inbox) : r.inbox[i] = x
    BY <1>9 DEF Range
  <2>2. \E i \in 1..Len(cn.inbox) : cn.inbox[i] = x
    BY <1>3, <2>1
  <2> QED
    BY <2>2, InRange, Zenon
<1>5. SendsInv(r.inbox, mb)
  <2>1. ASSUME NEW i \in 1..Len(r.inbox), NEW j \in 1..Len(r.inbox), r.inbox[i].is = "send",
               r.inbox[j] = r.inbox[i]
        PROVE  i = j
    <3>1. i + 1 = j + 1
      BY <1>3, <2>1 DEF SendsInv
    <3> QED
      BY <1>1, <3>1
  <2>2. \A i \in 1..Len(r.inbox) : r.inbox[i].is = "send" => mb.handle[r.inbox[i].m] # "idle"
    BY <1>3 DEF SendsInv
  <2> QED
    BY <2>1, <2>2 DEF SendsInv
<1>6. \A m : SendOf(m).is = "send" /\ SendOf(m).m = m
  BY DEF SendOf
<1>7. Head(cn.inbox).is # "send" => Queued(r.inbox) = Queued(cn.inbox)
  BY <1>2, <1>4, <1>6 DEF Queued
<1>8. ASSUME NEW m, Head(cn.inbox) = SendOf(m)
      PROVE  Queued(r.inbox) = Queued(cn.inbox) \ {m}
  <2>1. SendOf(m) \notin Range(r.inbox)
    <3> SUFFICES ASSUME SendOf(m) \in Range(r.inbox) PROVE FALSE
      OBVIOUS
    <3>1. PICK j \in 1..Len(r.inbox) : r.inbox[j] = SendOf(m)
      BY <1>9 DEF Range
    <3>2. j + 1 \in 1..Len(cn.inbox) /\ 1 \in 1..Len(cn.inbox) /\ cn.inbox[j + 1] = cn.inbox[1]
      BY <1>1, <1>3, <1>8, <3>1
    <3>3. cn.inbox[1].is = "send"
      BY <1>1, <1>6, <1>8
    <3>4. 1 = j + 1
      BY <3>2, <3>3 DEF SendsInv
    <3> QED
      BY <1>1, <3>4
  <2>2. \A n : n # m => SendOf(n) # SendOf(m)
    BY <1>6
  <2> QED
    BY <1>2, <1>4, <1>8, <2>1, <2>2 DEF Queued
<1>10. Unqueued(cn, r)
  BY <1>8, Zenon DEF Unqueued
<1> QED
  BY <1>5, <1>7, <1>10, Zenon

\* An event is posted, about a link there is or about none.
LEMMA PostedInv ==
    ASSUME NEW c, NEW t, NEW cn, ConInv(cn, t, c), NEW kn, KnownInv(cn, kn, c),
           NEW e \in Event(c), e.is # "up", AboutLink(e) => e.link \in 1..Len(cn.links),
           NEW p, p = Posted(cn, e)
    PROVE  ConInv(p, t, c) /\ KnownInv(p, kn, c)
<1> DEFINE N == Len(cn.inbox)
<1>1. cn \in ConState(c)
  BY DEF ConInv
<1>2. /\ p \in ConState(c) /\ p.links = cn.links /\ Len(p.inbox) = N + 1 /\ p.inbox[N + 1] = e
      /\ \A i \in 1..N : p.inbox[i] = cn.inbox[i]
  BY <1>1, EventAppended
<1>3. /\ N \in Nat /\ DOMAIN cn.inbox = 1..N /\ DOMAIN p.inbox = 1..(N + 1)
  BY <1>1, <1>2, ConFields
<1>4. \A x \in Range(cn.inbox) : x \in Range(p.inbox)
  BY <1>2, <1>3 DEF Range
<1>5. \A i \in 1..(N + 1) : i = N + 1 \/ i \in 1..N
  BY <1>3
<1> HIDE DEF N
<1>6. InboxInv(p)
  <2> SUFFICES ASSUME NEW i \in 1..(N + 1)
               PROVE  /\ AboutLink(p.inbox[i]) => p.inbox[i].link \in 1..Len(p.links)
                      /\ p.inbox[i].is = "up" =>
                            /\ p.links[p.inbox[i].link].who = Nobody
                            /\ p.links[p.inbox[i].link].notified =>
                                  Down(p.inbox[i].link) \in Range(p.inbox)
                            /\ \A j \in 1..(N + 1) :
                                  AboutLink(p.inbox[j]) /\ p.inbox[j].link = p.inbox[i].link => i <= j
    BY <1>2, ZenonT(40) DEF InboxInv
  <2>1. CASE i = N + 1
    BY <1>2, <2>1, Zenon
  <2>2. CASE i \in 1..N
    <3> DEFINE x == p.inbox[i]
    <3>1. x = cn.inbox[i]
      BY <1>2, <2>2, Zenon
    <3> HIDE DEF x
    <3>2. /\ AboutLink(x) => x.link \in 1..Len(cn.links)
          /\ x.is = "up" =>
                /\ cn.links[x.link].who = Nobody
                /\ cn.links[x.link].notified => Down(x.link) \in Range(cn.inbox)
                /\ \A j \in 1..N :
                      AboutLink(cn.inbox[j]) /\ cn.inbox[j].link = x.link => i <= j
      BY <2>2, <3>1 DEF ConInv, InboxInv, N
    <3>3. ASSUME NEW j \in 1..(N + 1), x.is = "up", AboutLink(p.inbox[j]), p.inbox[j].link = x.link
          PROVE  i <= j
      <4>1. CASE j = N + 1
        BY <1>3, <2>2, <4>1
      <4>2. CASE j \in 1..N
        BY <1>2, <3>2, <3>3, <4>2
      <4> QED
        BY <1>5, <4>1, <4>2
    <3>4. /\ AboutLink(x) => x.link \in 1..Len(p.links)
          /\ x.is = "up" =>
                /\ p.links[x.link].who = Nobody
                /\ p.links[x.link].notified => Down(x.link) \in Range(p.inbox)
                /\ \A j \in 1..(N + 1) :
                      AboutLink(p.inbox[j]) /\ p.inbox[j].link = x.link => i <= j
      BY <1>2, <1>4, <3>2, <3>3
    <3> QED
      BY <3>4 DEF x
  <2> QED
    BY <1>5, <2>1, <2>2, Zenon
<1>7. LinksInv(p, t)
  BY <1>2 DEF ConInv, LinksInv
<1>8. ListedInv(p, kn)
  BY <1>2, <1>4 DEF KnownInv, ListedInv
<1> QED
  BY <1>2, <1>6, <1>7, <1>8 DEF ConInv, KnownInv

\* No event but a send changes what is still to be sent.
LEMMA PostedSends ==
    ASSUME NEW c, NEW cn \in ConState(c), NEW mb, SendsInv(cn.inbox, mb),
           NEW e \in Event(c), e.is # "send", NEW p, p = Posted(cn, e)
    PROVE  SendsInv(p.inbox, mb) /\ Queued(p.inbox) = Queued(cn.inbox)
<1> DEFINE N == Len(cn.inbox)
<1>1. /\ p \in ConState(c) /\ Len(p.inbox) = N + 1 /\ p.inbox[N + 1] = e
      /\ \A i \in 1..N : p.inbox[i] = cn.inbox[i]
  BY EventAppended
<1>2. /\ N \in Nat /\ DOMAIN cn.inbox = 1..N /\ DOMAIN p.inbox = 1..(N + 1)
  BY <1>1, ConFields
<1>3. \A i \in 1..(N + 1) : p.inbox[i].is = "send" => i \in 1..N
  BY <1>1, <1>2
<1>4. \A m : SendOf(m).is = "send"
  BY DEF SendOf
<1>5. SendsInv(p.inbox, mb)
  <2>1. ASSUME NEW i \in 1..(N + 1), NEW j \in 1..(N + 1), p.inbox[i].is = "send",
               p.inbox[j] = p.inbox[i]
        PROVE  i = j
    <3>1. i \in 1..N /\ j \in 1..N
      BY <1>3, <2>1
    <3> QED
      BY <1>1, <2>1, <3>1 DEF SendsInv
  <2>2. \A i \in 1..(N + 1) : p.inbox[i].is = "send" => mb.handle[p.inbox[i].m] # "idle"
    BY <1>1, <1>3 DEF SendsInv
  <2> QED
    BY <1>1, <2>1, <2>2 DEF SendsInv
<1>6. \A m : SendOf(m) \in Range(p.inbox) <=> SendOf(m) \in Range(cn.inbox)
  BY <1>1, <1>2, <1>3, <1>4 DEF Range
<1> QED
  BY <1>5, <1>6 DEF Queued

\* A message is sent for the first time.
LEMMA PostedSend ==
    ASSUME NEW c \in PostmanCasts, NEW cn \in ConState(c), NEW mb, NEW mb2,
           SendsInv(cn.inbox, mb), NEW m \in DOMAIN c.messages,
           mb.handle[m] = "idle", mb2.handle[m] # "idle",
           \A n \in DOMAIN c.messages : mb.handle[n] # "idle" => mb2.handle[n] # "idle",
           NEW p, p = Posted(cn, SendOf(m))
    PROVE  SendsInv(p.inbox, mb2) /\ Queued(p.inbox) = Queued(cn.inbox) \cup {m}
<1> DEFINE N == Len(cn.inbox) e == SendOf(m)
<1>1. e \in Event(c) /\ e.is = "send" /\ e.m = m
  BY DEF Event, Sends, SendOf
<1> HIDE DEF e
<1>2. p = Posted(cn, e)
  BY DEF e
<1>3. /\ p \in ConState(c) /\ Len(p.inbox) = N + 1 /\ p.inbox[N + 1] = e
      /\ \A i \in 1..N : p.inbox[i] = cn.inbox[i]
  BY <1>1, <1>2, EventAppended
<1>4. /\ N \in Nat /\ DOMAIN cn.inbox = 1..N /\ DOMAIN p.inbox = 1..(N + 1)
      /\ \A i \in 1..N : cn.inbox[i] \in Event(c)
  BY <1>3, ConFields
<1>5. \A i \in 1..(N + 1) : i = N + 1 \/ i \in 1..N
  BY <1>4
<1>6. \A i \in 1..N : cn.inbox[i].is = "send" =>
        /\ cn.inbox[i].m \in DOMAIN c.messages /\ mb.handle[cn.inbox[i].m] # "idle"
  <2>1. \A x \in Event(c) : x.is = "send" => x.m \in DOMAIN c.messages
    BY DEF Event, Sends, SendOf, Syncs, Changes, Frames
  <2> QED
    BY <1>4, <2>1 DEF SendsInv
<1>7. \A i \in 1..N : cn.inbox[i] # e
  BY <1>1, <1>6
<1> HIDE DEF N
<1>8. \A i, j \in 1..(N + 1) : p.inbox[i].is = "send" /\ p.inbox[j] = p.inbox[i] => i = j
  <2> SUFFICES ASSUME NEW i \in 1..(N + 1), NEW j \in 1..(N + 1), p.inbox[i].is = "send",
                      p.inbox[j] = p.inbox[i]
               PROVE  i = j
    OBVIOUS
  <2>1. CASE i \in 1..N /\ j \in 1..N
    BY <1>3, <2>1 DEF SendsInv, N
  <2>2. CASE i = N + 1 \/ j = N + 1
    BY <1>3, <1>5, <1>7, <2>2
  <2> QED
    BY <1>5, <2>1, <2>2
<1>9. \A i \in 1..(N + 1) : p.inbox[i].is = "send" => mb2.handle[p.inbox[i].m] # "idle"
  BY <1>1, <1>3, <1>5, <1>6
<1>10. SendsInv(p.inbox, mb2)
  BY <1>3, <1>8, <1>9 DEF SendsInv
<1>11. \A n : SendOf(n) \in Range(p.inbox) <=> (SendOf(n) \in Range(cn.inbox) \/ n = m)
  <2>1. \A n : SendOf(n) = e <=> n = m
    BY DEF e, SendOf
  <2>2. \A x : x \in Range(p.inbox) <=> (x \in Range(cn.inbox) \/ x = e)
    <3>1. N + 1 \in 1..(N + 1) /\ 1..N \subseteq 1..(N + 1)
      BY <1>4
    <3> QED
      BY <1>3, <1>4, <1>5, <3>1 DEF Range
  <2> QED
    BY <2>1, <2>2
<1>12. m \in AllMessages
  BY DEF AllMessages
<1> QED
  BY <1>10, <1>11, <1>12 DEF Queued

\* A connection is made: the link is new, and its _LinkUp is posted.
LEMMA ConnectedInv ==
    ASSUME NEW c, NEW t \in Nat, NEW cn, ConInv(cn, t, c), NEW kn, KnownInv(cn, kn, c),
           NEW mb, SendsInv(cn.inbox, mb),
           NEW a \in c.addresses \cup {"ephemeral"}, NEW inbound \in BOOLEAN,
           NEW p, p = Connected(cn, a, inbound)
    PROVE  /\ ConInv(p, t, c) /\ KnownInv(p, kn, c)
           /\ SendsInv(p.inbox, mb) /\ Queued(p.inbox) = Queued(cn.inbox)
<1> DEFINE L == Len(cn.links) N == Len(cn.inbox)
           k == NewLink(a, inbound)
           ls == Append(cn.links, k)
           b == [cn EXCEPT !.links = ls]
           e == Up(L + 1)
<1>1. cn \in ConState(c) /\ L \in Nat /\ N \in Nat /\ DOMAIN cn.inbox = 1..N
  BY ConFields DEF ConInv
<1>2. k \in LinkState(c) /\ k.who = Nobody /\ k.sock /\ ~k.notified /\ k.opened = -1
  <2> DEFINE never == -1 z == 0
  <2>1. never \in Int /\ z \in Nat
    OBVIOUS
  <2>2. k = [address |-> a, inbound |-> inbound, who |-> Nobody, sock |-> TRUE,
             closed |-> FALSE, notified |-> FALSE, hook |-> "postman", reading |-> TRUE,
             failures |-> z, opened |-> never]
    BY DEF NewLink
  <2> HIDE DEF never, z, k
  <2>3. k \in LinkState(c) /\ k.who = Nobody /\ k.sock /\ ~k.notified /\ k.opened = never
    BY <2>1, <2>2 DEF LinkState
  <2> QED
    BY <2>3 DEF never
<1>3. p = Posted(b, e)
  BY DEF Connected
<1> HIDE DEF k
<1>4. /\ ls \in Seq(LinkState(c)) /\ Len(ls) = L + 1 /\ ls[L + 1] = k
      /\ \A l \in 1..L : ls[l] = cn.links[l]
  BY <1>1, <1>2, ConFields
<1> HIDE DEF ls
<1>5. b = [links |-> ls, workers |-> cn.workers, inbox |-> cn.inbox]
  BY <1>1, ConShape
<1> HIDE DEF b
<1>6. b \in ConState(c)
  BY <1>1, <1>4, <1>5, ConFields DEF ConState
<1>7. e \in Event(c) /\ e.is = "up" /\ e.link = L + 1
  BY <1>1 DEF Up, Event, Changes, LinkNumbers
<1> HIDE DEF e
<1>8. /\ p \in ConState(c) /\ p.links = b.links /\ Len(p.inbox) = Len(b.inbox) + 1
      /\ p.inbox[Len(b.inbox) + 1] = e
      /\ \A i \in 1..Len(b.inbox) : p.inbox[i] = b.inbox[i]
  <2>1. e \in Event(c)
    BY <1>7
  <2> HIDE DEF L, N
  <2>2. p \in ConState(c) /\ p.links = b.links
    BY <1>3, <1>6, <2>1, EventAppended
  <2>3. Len(p.inbox) = Len(b.inbox) + 1 /\ p.inbox[Len(b.inbox) + 1] = e
    BY <1>3, <1>6, <2>1, EventAppended
  <2>4. \A i \in 1..Len(b.inbox) : p.inbox[i] = b.inbox[i]
    BY <1>3, <1>6, <2>1, EventAppended
  <2> QED
    BY <2>2, <2>3, <2>4
<1>9. /\ p \in ConState(c) /\ Len(p.links) = L + 1 /\ p.links[L + 1] = k
      /\ \A l \in 1..L : p.links[l] = cn.links[l]
      /\ Len(p.inbox) = N + 1 /\ p.inbox[N + 1] = e
      /\ \A i \in 1..N : p.inbox[i] = cn.inbox[i]
  BY <1>4, <1>5, <1>8
<1>10. /\ \A i \in 1..(N + 1) : i = N + 1 \/ i \in 1..N
       /\ \A l \in 1..(L + 1) : l = L + 1 \/ l \in 1..L
       /\ 1..L \subseteq 1..(L + 1) /\ L + 1 \in 1..(L + 1) /\ L + 1 \notin 1..L
       /\ DOMAIN p.inbox = 1..(N + 1)
  BY <1>1, <1>9, ConFields
<1>11. \A x \in Range(cn.inbox) : x \in Range(p.inbox)
  BY <1>1, <1>9, <1>10 DEF Range
<1> HIDE DEF L, N
<1>12. LinksInv(p, t)
  <2> SUFFICES ASSUME NEW l \in 1..(L + 1)
               PROVE  (~p.links[l].sock => p.links[l].notified) /\ p.links[l].opened \in -1..t
    BY <1>9 DEF LinksInv
  <2>1. CASE l = L + 1
    BY <1>2, <1>9, <2>1
  <2>2. CASE l \in 1..L
    BY <1>9, <2>2, Zenon DEF ConInv, LinksInv, L
  <2> QED
    BY <1>10, <2>1, <2>2
<1>13. \A i \in 1..N : AboutLink(cn.inbox[i]) => cn.inbox[i].link \in 1..L
  BY DEF ConInv, InboxInv, N, L
<1>14. InboxInv(p)
  <2> SUFFICES ASSUME NEW i \in 1..(N + 1)
               PROVE  /\ AboutLink(p.inbox[i]) => p.inbox[i].link \in 1..(L + 1)
                      /\ p.inbox[i].is = "up" =>
                            /\ p.links[p.inbox[i].link].who = Nobody
                            /\ p.links[p.inbox[i].link].notified =>
                                  Down(p.inbox[i].link) \in Range(p.inbox)
                            /\ \A j \in 1..(N + 1) :
                                  AboutLink(p.inbox[j]) /\ p.inbox[j].link = p.inbox[i].link => i <= j
    BY <1>9, Zenon DEF InboxInv
  <2>1. CASE i = N + 1
    <3>1. ASSUME NEW j \in 1..(N + 1), AboutLink(p.inbox[j]), p.inbox[j].link = L + 1
          PROVE  j = N + 1
      BY <1>9, <1>10, <1>13, <3>1
    <3>2. p.inbox[i] = e /\ e.link = L + 1 /\ p.links[e.link] = k
      BY <1>1, <1>2, <1>7, <1>9, <2>1
    <3>3. /\ e.link \in 1..(L + 1)
          /\ p.links[e.link].who = Nobody /\ ~p.links[e.link].notified
      BY <1>1, <1>2, <1>10, <3>2
    <3>4. \A j \in 1..(N + 1) :
             AboutLink(p.inbox[j]) /\ p.inbox[j].link = e.link => i <= j
      BY <1>1, <2>1, <3>1, <3>2
    <3> QED
      BY ONLY <3>2, <3>3, <3>4
  <2>2. CASE i \in 1..N
    <3> DEFINE x == p.inbox[i]
    <3>1. x = cn.inbox[i]
      BY <1>9, <2>2
    <3> HIDE DEF x
    <3>2. /\ AboutLink(x) => x.link \in 1..L
          /\ x.is = "up" =>
                /\ cn.links[x.link].who = Nobody
                /\ cn.links[x.link].notified => Down(x.link) \in Range(cn.inbox)
                /\ \A j \in 1..N :
                      AboutLink(cn.inbox[j]) /\ cn.inbox[j].link = x.link => i <= j
      BY <2>2, <3>1 DEF ConInv, InboxInv, N, L
    <3>3. x.is = "up" => AboutLink(x)
      BY DEF AboutLink
    <3>4. ASSUME NEW j \in 1..(N + 1), x.is = "up", AboutLink(p.inbox[j]), p.inbox[j].link = x.link
          PROVE  i <= j
      <4>1. CASE j = N + 1
        BY <1>1, <2>2, <4>1
      <4>2. CASE j \in 1..N
        BY <1>9, <3>2, <3>4, <4>2, Zenon
      <4> QED
        BY <1>10, <4>1, <4>2
    <3>5. x.is = "up" =>
            /\ p.links[x.link].who = Nobody
            /\ p.links[x.link].notified => Down(x.link) \in Range(p.inbox)
      BY <1>9, <1>11, <3>2, <3>3, Zenon
    <3>6. AboutLink(x) => x.link \in 1..(L + 1)
      BY <1>10, <3>2, Zenon
    <3> QED
      BY <3>4, <3>5, <3>6, Zenon DEF x
  <2> QED
    BY <1>10, <2>1, <2>2, Zenon
<1>15. KnownInv(p, kn, c)
  <2>1. ListedInv(p, kn)
    <3> SUFFICES ASSUME NEW q \in DOMAIN kn.peers, NEW l \in kn.peers[q].links
                 PROVE  /\ l \in 1..(L + 1) /\ p.links[l].who = q
                        /\ p.links[l].notified => Down(l) \in Range(p.inbox) \/ l \in kn.late
      BY <1>9, Zenon DEF ListedInv
    <3>1. /\ l \in 1..L /\ cn.links[l].who = q
          /\ cn.links[l].notified => Down(l) \in Range(cn.inbox) \/ l \in kn.late
      BY DEF KnownInv, ListedInv, L
    <3> QED
      BY <1>9, <1>10, <1>11, <3>1, Zenon
  <2> QED
    BY <1>9, <1>10, <2>1, Zenon DEF KnownInv, L
<1>16. \A i \in 1..(N + 1) : p.inbox[i].is = "send" => i \in 1..N
  BY <1>7, <1>9, <1>10, Zenon
<1>17. SendsInv(p.inbox, mb)
  <2>1. ASSUME NEW i \in 1..(N + 1), NEW j \in 1..(N + 1), p.inbox[i].is = "send",
               p.inbox[j] = p.inbox[i]
        PROVE  i = j
    <3>1. i \in 1..N /\ j \in 1..N
      BY <1>16, <2>1
    <3> QED
      BY <1>9, <2>1, <3>1, Zenon DEF SendsInv, N
  <2>2. \A i \in 1..(N + 1) : p.inbox[i].is = "send" => mb.handle[p.inbox[i].m] # "idle"
    BY <1>9, <1>16, Zenon DEF SendsInv, N
  <2> QED
    BY <1>9, <2>1, <2>2 DEF SendsInv
<1>18. \A m : SendOf(m) \in Range(p.inbox) <=> SendOf(m) \in Range(cn.inbox)
  <2>1. \A m : SendOf(m).is = "send"
    BY DEF SendOf
  <2> QED
    BY <1>1, <1>9, <1>10, <1>16, <2>1 DEF Range
<1> QED
  BY <1>9, <1>12, <1>14, <1>15, <1>17, <1>18, Zenon DEF ConInv, Queued

-----------------------------------------------------------------------------
(* Peers                                                                   *)

\* The parts of known that no peer and no link hangs on.
LEMMA KnownSides ==
    ASSUME NEW c, NEW cn, NEW kn, KnownInv(cn, kn, c), NEW u, NEW g, NEW w,
           u \subseteq 1..Len(cn.links), g \subseteq 1..Len(cn.links), kn.late \subseteq w,
           NEW kn2, kn2 = [kn EXCEPT !.unbound = u, !.pings = g, !.late = w]
    PROVE  /\ KnownInv(cn, kn2, c) /\ kn2.peers = kn.peers /\ kn2.authorized = kn.authorized
           /\ kn2.late = w
<1>1. kn2 = [peers |-> kn.peers, authorized |-> kn.authorized, unbound |-> u,
             pings |-> g, polled |-> kn.polled, strays |-> kn.strays, late |-> w]
  BY Zenon DEF KnownInv, KnownOK
<1>2. KnownOK(kn2, c)
  BY <1>1, Zenon DEF KnownInv, KnownOK
<1>3. ListedInv(cn, kn2)
  BY <1>1 DEF KnownInv, ListedInv
<1> QED
  BY <1>1, <1>2, <1>3 DEF KnownInv

\* The links of the peers, and the peers, change.
LEMMA KnownPeers ==
    ASSUME NEW c, NEW kn, KnownOK(kn, c), NEW P, NEW S,
           P \in [DOMAIN P -> PeerState(c)], DOMAIN P \subseteq c.others,
           NEW kn2, kn2 = [kn EXCEPT !.peers = P, !.strays = S]
    PROVE  /\ KnownOK(kn2, c) /\ kn2.peers = P /\ kn2.strays = S /\ kn2.polled = kn.polled
           /\ kn2.unbound = kn.unbound /\ kn2.pings = kn.pings /\ kn2.late = kn.late
           /\ kn2.authorized = kn.authorized
<1>1. kn2 = [peers |-> P, authorized |-> kn.authorized, unbound |-> kn.unbound,
             pings |-> kn.pings, polled |-> kn.polled, strays |-> S, late |-> kn.late]
  BY Zenon DEF KnownOK
<1> QED
  BY <1>1, Zenon DEF KnownOK

BindTo(cn, l, q) == [cn EXCEPT !.links[l].who = q]

\* No _LinkUp of l is queued.
UpHandled(cn, l) == \A i \in 1..Len(cn.inbox) : cn.inbox[i].is = "up" => cn.inbox[i].link # l

\* What binding link l to peer q depends on.
Bindable(cn, kn, l, q, t, c) ==
    /\ CastOK(c) /\ ConInv(cn, t, c) /\ KnownInv(cn, kn, c)
    /\ l \in 1..Len(cn.links) /\ cn.links[l].who = Nobody /\ UpHandled(cn, l) /\ q \in c.others

\* What binding link l to q leaves of the connection r.
Binds(r, b, kn, l, q, t, c) ==
    /\ ConInv(b, t, c) /\ KnownInv(b, kn, c) /\ b.inbox = r.inbox
    /\ Len(b.links) = Len(r.links) /\ b.links[l].who = q
    /\ b.links[l].notified = r.links[l].notified

\* A link is bound; what was posted about it before, its _LinkUp included, is
\* handled.
LEMMA BindInv ==
    ASSUME NEW c, NEW t, NEW r, NEW kn, NEW l, NEW q, Bindable(r, kn, l, q, t, c),
           NEW b, b = BindTo(r, l, q)
    PROVE  Binds(r, b, kn, l, q, t, c)
<1> /\ CastOK(c) /\ ConInv(r, t, c) /\ KnownInv(r, kn, c)
    /\ l \in 1..Len(r.links) /\ r.links[l].who = Nobody /\ UpHandled(r, l) /\ q \in c.others
  BY Zenon DEF Bindable
<1> DEFINE k == [r.links[l] EXCEPT !.who = q]
<1>1. /\ r \in ConState(c) /\ r.links[l] \in LinkState(c)
      /\ r.links \in Seq(LinkState(c)) /\ l \in DOMAIN r.links
  BY ConFields DEF ConInv
<1>2. /\ k \in LinkState(c) /\ k.who = q /\ k.notified = r.links[l].notified
      /\ k.sock = r.links[l].sock /\ k.opened = r.links[l].opened
  BY <1>1, Zenon DEF LinkState
<1>3. b = [r EXCEPT !.links[l] = k]
  BY <1>1 DEF ConState, BindTo
<1> HIDE DEF k
<1>4. /\ b \in ConState(c) /\ Len(b.links) = Len(r.links) /\ b.inbox = r.inbox /\ b.links[l] = k
      /\ \A j \in 1..Len(r.links) : j # l => b.links[j] = r.links[j]
  <2> DEFINE d == [r EXCEPT !.links[l] = k]
  <2>1. d = [r EXCEPT !.links[l] = k]
    OBVIOUS
  <2> HIDE DEF d
  <2>2. /\ d \in ConState(c) /\ Len(d.links) = Len(r.links) /\ d.inbox = r.inbox /\ d.links[l] = k
        /\ \A j \in 1..Len(r.links) : j # l => d.links[j] = r.links[j]
    BY <1>1, <1>2, <2>1, LinkUpdate
  <2> QED
    BY <1>3, <2>1, <2>2
<1>5. LinksInv(b, t)
  <2> SUFFICES ASSUME NEW j \in 1..Len(r.links)
               PROVE  (~b.links[j].sock => b.links[j].notified) /\ b.links[j].opened \in -1..t
    BY <1>4 DEF LinksInv
  <2>1. (~r.links[j].sock => r.links[j].notified) /\ r.links[j].opened \in -1..t
    BY DEF ConInv, LinksInv
  <2> QED
    BY <1>2, <1>4, <2>1
<1>6. InboxInv(b)
  <2>1. ASSUME NEW i \in 1..Len(r.inbox), r.inbox[i].is = "up"
        PROVE  /\ b.links[r.inbox[i].link].who = Nobody
               /\ b.links[r.inbox[i].link].notified => Down(r.inbox[i].link) \in Range(r.inbox)
    <3>1. r.inbox[i].link \in 1..Len(r.links) /\ r.inbox[i].link # l
      BY <2>1, Zenon DEF ConInv, InboxInv, AboutLink, UpHandled
    <3> QED
      BY <1>4, <2>1, <3>1, Zenon DEF ConInv, InboxInv
  <2>2. \A i \in 1..Len(r.inbox) :
           /\ AboutLink(r.inbox[i]) => r.inbox[i].link \in 1..Len(r.links)
           /\ r.inbox[i].is = "up" =>
                 \A j \in 1..Len(r.inbox) :
                    AboutLink(r.inbox[j]) /\ r.inbox[j].link = r.inbox[i].link => i <= j
    BY Zenon DEF ConInv, InboxInv
  <2> QED
    BY ONLY <1>4, <2>1, <2>2 DEF InboxInv
<1>7. KnownInv(b, kn, c)
  <2>1. \A p \in DOMAIN kn.peers : l \notin kn.peers[p].links
    BY DEF KnownInv, ListedInv, KnownOK, CastOK
  <2>2. ListedInv(b, kn)
    BY <1>4, <2>1 DEF KnownInv, ListedInv
  <2> QED
    BY <1>4, <2>2 DEF KnownInv
<1> QED
  BY <1>2, <1>4, <1>5, <1>6, <1>7, Zenon DEF ConInv, Binds

\* _do_link_established
LEMMA ListLinkInv ==
    ASSUME NEW c, NEW t \in Nat, NEW b, ConInv(b, t, c), NEW kn, KnownInv(b, kn, c),
           NEW l \in 1..Len(b.links), NEW q \in c.others, b.links[l].who = q,
           b.links[l].notified => Down(l) \in Range(b.inbox) \/ l \in kn.late
    PROVE  LET s == ListLink(b, kn, l, q)
           IN  /\ s.con \in ConState(c) /\ Moved(b, s.con, t) /\ ConInv(s.con, t, c)
               /\ KnownInv(s.con, s.known, c)
<1> DEFINE s == ListLink(b, kn, l, q)
<1>1. b \in ConState(c) /\ l \in LinkNumbers /\ Moved(b, b, t) /\ KnownOK(kn, c)
  BY ConFields, MovedNone DEF ConInv, KnownInv, LinkNumbers
<1>2. CASE q \in DOMAIN kn.peers
  <2> DEFINE P == [kn.peers EXCEPT ![q].links = @ \cup {l}]
             kn2 == [kn EXCEPT !.peers[q].links = @ \cup {l}]
  <2>1. s.con = b /\ s.known = kn2
    BY <1>2 DEF ListLink
  <2>2. kn.peers \in [DOMAIN kn.peers -> PeerState(c)]
    BY <1>1 DEF KnownOK
  <2>3. /\ P \in [DOMAIN kn.peers -> PeerState(c)] /\ DOMAIN P = DOMAIN kn.peers
        /\ P[q].links = kn.peers[q].links \cup {l}
        /\ \A p \in DOMAIN kn.peers : p # q => P[p] = kn.peers[p]
    <3>1. kn.peers[q] \in PeerState(c)
      BY <1>2, <2>2
    <3>2. [kn.peers[q] EXCEPT !.links = @ \cup {l}] \in PeerState(c)
      BY <1>1, <3>1 DEF PeerState
    <3>3. P = [kn.peers EXCEPT ![q] = [kn.peers[q] EXCEPT !.links = @ \cup {l}]]
      BY <1>2, <2>2
    <3> QED
      BY <1>2, <2>2, <3>1, <3>2, <3>3, Zenon DEF PeerState
  <2>4. kn2 = [kn EXCEPT !.peers = P, !.strays = kn.strays]
    BY <1>1, Zenon DEF KnownOK
  <2> HIDE DEF P, kn2
  <2>5. /\ KnownOK(kn2, c) /\ kn2.peers = P /\ kn2.strays = kn.strays /\ kn2.polled = kn.polled
        /\ kn2.unbound = kn.unbound /\ kn2.pings = kn.pings /\ kn2.late = kn.late
    BY <1>1, <2>3, <2>4, KnownPeers, Zenon DEF KnownOK
  <2>6. ListedInv(b, kn2)
    <3> SUFFICES ASSUME NEW p \in DOMAIN kn.peers, NEW j \in P[p].links
                 PROVE  /\ j \in 1..Len(b.links) /\ b.links[j].who = p
                        /\ b.links[j].notified => Down(j) \in Range(b.inbox) \/ j \in kn.late
      BY <2>3, <2>5 DEF ListedInv
    <3>1. CASE p = q /\ j = l
      BY <3>1
    <3>2. CASE ~(p = q /\ j = l)
      <4>1. j \in kn.peers[p].links
        BY <2>3, <3>2
      <4> QED
        BY <4>1 DEF KnownInv, ListedInv
    <3> QED
      BY <3>1, <3>2, Zenon
  <2>7. KnownInv(b, kn2, c)
    BY <2>3, <2>5, <2>6 DEF KnownInv
  <2> QED
    BY <1>1, <2>1, <2>7
<1>3. CASE q \notin DOMAIN kn.peers /\ q \in kn.authorized
  <2> DEFINE new == [targets |-> {}, links |-> {l}]
             P == With(kn.peers, q, new)
             S == kn.strays \cup {q}
             kn2 == [kn EXCEPT !.peers = P, !.strays = S]
  <2>1. s.con = b /\ s.known = kn2
    BY <1>3 DEF ListLink
  <2>2. kn.peers \in [DOMAIN kn.peers -> PeerState(c)] /\ DOMAIN kn.peers \subseteq c.others
    BY <1>1 DEF KnownOK
  <2>3. new \in PeerState(c) /\ new.links = {l}
    BY <1>1 DEF PeerState
  <2> HIDE DEF new
  <2>4. /\ P \in [DOMAIN P -> PeerState(c)] /\ DOMAIN P = DOMAIN kn.peers \cup {q}
        /\ P[q] = new /\ \A p \in DOMAIN kn.peers : P[p] = kn.peers[p]
    BY <1>3, <2>2, <2>3 DEF With
  <2>5. /\ P \in [DOMAIN P -> PeerState(c)] /\ DOMAIN P \subseteq c.others /\ KnownOK(kn, c)
        /\ kn2 = [kn EXCEPT !.peers = P, !.strays = S]
    BY <1>1, <2>2, <2>4
  <2> HIDE DEF P, kn2, S
  <2>6. /\ KnownOK(kn2, c) /\ kn2.peers = P /\ kn2.strays = S /\ kn2.polled = kn.polled
        /\ kn2.unbound = kn.unbound /\ kn2.pings = kn.pings /\ kn2.late = kn.late
    BY ONLY <2>5, KnownPeers, Zenon DEF KnownOK
  <2>7. ListedInv(b, kn2)
    <3> SUFFICES ASSUME NEW p \in DOMAIN kn.peers \cup {q}, NEW j \in P[p].links
                 PROVE  /\ j \in 1..Len(b.links) /\ b.links[j].who = p
                        /\ b.links[j].notified => Down(j) \in Range(b.inbox) \/ j \in kn.late
      BY <2>4, <2>6 DEF ListedInv
    <3>1. CASE p = q
      BY <2>3, <2>4, <3>1
    <3>2. CASE p # q
      <4>1. p \in DOMAIN kn.peers /\ j \in kn.peers[p].links
        BY <2>4, <3>2
      <4> QED
        BY <4>1 DEF KnownInv, ListedInv
    <3> QED
      BY <3>1, <3>2
  <2>8. KnownInv(b, kn2, c)
    BY <2>4, <2>6, <2>7, Zenon DEF KnownInv, S
  <2> QED
    BY <1>1, <2>1, <2>8
<1>4. CASE q \notin DOMAIN kn.peers /\ q \notin kn.authorized
  <2>1. s.con = Close(b, l) /\ s.known = kn
    BY <1>4 DEF ListLink
  <2>2. Close(b, l) \in ConState(c) /\ Moved(b, Close(b, l), t)
    BY <1>1, CloseMoved, Zenon
  <2>3. ConInv(Close(b, l), t, c) /\ KnownInv(Close(b, l), kn, c)
    BY <1>1, <2>2, MovedConInv, MovedKnownInv
  <2> QED
    BY <2>1, <2>2, <2>3
<1> QED
  BY <1>2, <1>3, <1>4, Zenon

-----------------------------------------------------------------------------
(* Steps that leave the mailbox alone                                      *)

LEMMA CastIsOK ==
    ASSUME PostmanInv
    PROVE  cast \in PostmanCasts /\ CastOK(cast) /\ now \in Nat /\ con \in ConState(cast)
BY PostmanAssumption DEF PostmanInv, ConInv

\* What the senders know and what is on the wire may change, if no message is
\* taken by it.
LEMMA MailSides ==
    ASSUME NEW c, NEW t, NEW mb, NEW q1, NEW q2, MailInv(mb, q1, t, c), NEW w, NEW h,
           w \subseteq Attempts(c), h \in [DOMAIN c.messages -> HandleState],
           NEW mb2, mb2 = [mb EXCEPT !.wire = w, !.handle = h],
           \A m \in DOMAIN c.messages :
             (h[m] # "idle" /\ m \notin q2) <=> (mb.handle[m] # "idle" /\ m \notin q1)
    PROVE  MailInv(mb2, q2, t, c)
<1>1. mb2 = [box |-> mb.box, retry |-> mb.retry, reap |-> mb.reap, wire |-> w, handle |-> h]
  BY Zenon DEF MailInv, MailOK
<1>2. DOMAIN mb.handle = DOMAIN c.messages /\ DOMAIN h = DOMAIN c.messages
  BY DEF MailInv, MailOK
<1>3. Taken(mb2, q2) = Taken(mb, q1)
  BY <1>1, <1>2 DEF Taken
<1>4. Horizon(mb2, q2, c) = Horizon(mb, q1, c)
  BY <1>3 DEF Horizon
<1>5. MailOK(mb2, c)
  BY <1>1, Zenon DEF MailInv, MailOK
<1> QED
  BY <1>1, <1>3, <1>4, <1>5 DEF MailInv

\* A send that is posted is of a message there is.
LEMMA SendEvents ==
    ASSUME NEW c, NEW cn \in ConState(c)
    PROVE  \A i \in 1..Len(cn.inbox) : cn.inbox[i].is = "send" => cn.inbox[i].m \in DOMAIN c.messages
<1>1. \A x \in Event(c) : x.is = "send" => x.m \in DOMAIN c.messages
  BY DEF Event, Sends, SendOf, Syncs, Changes, Frames
<1>2. \A i \in 1..Len(cn.inbox) : cn.inbox[i] \in Event(c)
  BY ConFields
<1> QED
  BY <1>1, <1>2

\* A step of links and peers, on which no message is sent or taken.
LEMMA QuietInv ==
    ASSUME PostmanInv, mail' = mail, now' = now, cast' = cast,
           ConInv(con', now, cast), KnownInv(con', known', cast),
           SendsInv(con'.inbox, mail), Queued(con'.inbox) = Queued(con.inbox)
    PROVE  PostmanInv'
BY DEF PostmanInv

\* A step that only moves links.
LEMMA MovingInv ==
    ASSUME PostmanInv, mail' = mail, known' = known, now' = now, cast' = cast,
           con' \in ConState(cast), Moved(con, con', now)
    PROVE  PostmanInv'
<1>1. con \in ConState(cast) /\ now \in Nat
  BY CastIsOK
<1>2. ConInv(con', now, cast)
  BY <1>1, MovedConInv DEF PostmanInv
<1>3. KnownInv(con', known, cast)
  BY <1>1, MovedKnownInv DEF PostmanInv
<1>4. SendsInv(con'.inbox, mail) /\ Queued(con'.inbox) = Queued(con.inbox)
  BY <1>1, MovedSends DEF PostmanInv
<1> QED
  BY <1>2, <1>3, <1>4, QuietInv

\* Participant.request_raw and the first half of Node.request_reply.
LEMMA RequestInv ==
    ASSUME PostmanInv, NEW m \in DOMAIN mail.handle, Request(m) \/ RequestReply(m)
    PROVE  PostmanInv'
<1> DEFINE Q == Queued(con.inbox)
<1>1. PICK x \in {"waiting", "none", "unregistered"} : mail' = [mail EXCEPT !.handle[m] = x]
  BY DEF Request, RequestReply
<1>2. /\ mail.handle[m] = "idle" /\ con' = Posted(con, SendOf(m))
      /\ known' = known /\ now' = now /\ cast' = cast
  BY DEF Request, RequestReply
<1>3. /\ cast \in PostmanCasts /\ CastOK(cast) /\ con \in ConState(cast)
      /\ ConInv(con, now, cast) /\ KnownInv(con, known, cast)
      /\ SendsInv(con.inbox, mail) /\ MailInv(mail, Q, now, cast) /\ MailOK(mail, cast)
  BY CastIsOK, Zenon DEF PostmanInv, MailInv
<1>4. mail.handle \in [DOMAIN cast.messages -> HandleState] /\ m \in DOMAIN cast.messages
      /\ mail.wire \subseteq Attempts(cast)
  BY <1>3 DEF MailOK
<1> DEFINE h == [mail.handle EXCEPT ![m] = x]
<1>5. /\ h \in [DOMAIN cast.messages -> HandleState] /\ h[m] # "idle"
      /\ \A n \in DOMAIN cast.messages : n # m => h[n] = mail.handle[n]
  BY <1>1, <1>4, Zenon DEF HandleState
<1>6. mail' = [mail EXCEPT !.wire = mail.wire, !.handle = h] /\ mail'.handle = h
  BY <1>1, <1>3, Zenon DEF MailOK
<1> HIDE DEF h, Q
<1>7. SendsInv(con'.inbox, mail') /\ Queued(con'.inbox) = Q \cup {m}
  <2>1. /\ mail.handle[m] = "idle" /\ mail'.handle[m] # "idle" /\ m \in DOMAIN cast.messages
        /\ \A n \in DOMAIN cast.messages : mail.handle[n] # "idle" => mail'.handle[n] # "idle"
    BY <1>2, <1>4, <1>5, <1>6, Zenon
  <2>2. /\ cast \in PostmanCasts /\ con \in ConState(cast) /\ con' = Posted(con, SendOf(m))
        /\ SendsInv(con.inbox, mail)
    BY <1>2, <1>3
  <2> QED
    BY ONLY <2>1, <2>2, PostedSend DEF Q
<1>8. MailInv(mail', Q \cup {m}, now, cast)
  <2>1. \A n \in DOMAIN cast.messages :
          (h[n] # "idle" /\ n \notin Q \cup {m}) <=> (mail.handle[n] # "idle" /\ n \notin Q)
    BY <1>2, <1>5
  <2>2. /\ mail.wire \subseteq Attempts(cast) /\ h \in [DOMAIN cast.messages -> HandleState]
        /\ mail' = [mail EXCEPT !.wire = mail.wire, !.handle = h] /\ MailInv(mail, Q, now, cast)
    BY <1>3, <1>4, <1>5, <1>6
  <2> QED
    BY ONLY <2>1, <2>2, MailSides, Zenon
<1>9. ConInv(con', now, cast) /\ KnownInv(con', known, cast)
  <2>1. SendOf(m) \in Event(cast) /\ SendOf(m).is = "send" /\ ~AboutLink(SendOf(m))
    BY <1>4 DEF SendOf, Event, Sends, AboutLink
  <2> QED
    BY <1>2, <1>3, <2>1, PostedInv, Zenon
<1> QED
  BY <1>2, <1>3, <1>7, <1>8, <1>9, CastIsOK, Zenon DEF PostmanInv

\* The second half of Node.request_reply.
LEMMA WaitInv ==
    ASSUME PostmanInv, NEW m \in DOMAIN mail.handle, Register(m) \/ WaitTimesOut(m)
    PROVE  PostmanInv'
<1> DEFINE Q == Queued(con.inbox)
<1>1. PICK x \in {"waiting", "timed out"} : mail' = [mail EXCEPT !.handle[m] = x]
  BY Zenon DEF Register, WaitTimesOut
<1>2. /\ mail.handle[m] # "idle" /\ con' = con
      /\ known' = known /\ now' = now /\ cast' = cast
  BY Zenon DEF Register, WaitTimesOut
<1>3. /\ con \in ConState(cast) /\ SendsInv(con.inbox, mail)
      /\ MailInv(mail, Q, now, cast) /\ MailOK(mail, cast)
  BY CastIsOK, Zenon DEF PostmanInv, MailInv
<1>4. mail.handle \in [DOMAIN cast.messages -> HandleState] /\ m \in DOMAIN cast.messages
      /\ mail.wire \subseteq Attempts(cast)
  BY <1>3, Zenon DEF MailOK
<1> DEFINE h == [mail.handle EXCEPT ![m] = x]
<1>5. /\ h \in [DOMAIN cast.messages -> HandleState] /\ h[m] # "idle"
      /\ \A n \in DOMAIN cast.messages : n # m => h[n] = mail.handle[n]
  BY <1>1, <1>4, Zenon DEF HandleState
<1>6. mail' = [mail EXCEPT !.wire = mail.wire, !.handle = h] /\ mail'.handle = h
  BY <1>1, <1>3, Zenon DEF MailOK
<1> HIDE DEF h, Q
<1>7. SendsInv(con'.inbox, mail')
  <2>1. \A n \in DOMAIN cast.messages : mail.handle[n] # "idle" => mail'.handle[n] # "idle"
    BY <1>2, <1>5, <1>6, Zenon
  <2> QED
    <3>1. \A i \in 1..Len(con.inbox) :
            con.inbox[i].is = "send" => con.inbox[i].m \in DOMAIN cast.messages
      BY <1>3, SendEvents, Zenon
    <3> QED
      BY <1>2, <1>3, <2>1, <3>1, Zenon DEF SendsInv
<1>8. MailInv(mail', Q, now, cast)
  <2>1. \A n \in DOMAIN cast.messages :
          (h[n] # "idle" /\ n \notin Q) <=> (mail.handle[n] # "idle" /\ n \notin Q)
    BY <1>2, <1>5, Zenon
  <2>2. /\ mail.wire \subseteq Attempts(cast) /\ h \in [DOMAIN cast.messages -> HandleState]
        /\ mail' = [mail EXCEPT !.wire = mail.wire, !.handle = h] /\ MailInv(mail, Q, now, cast)
    BY <1>3, <1>4, <1>5, <1>6, Zenon
  <2> QED
    BY ONLY <2>1, <2>2, MailSides, Zenon
<1> QED
  BY <1>2, <1>3, <1>7, <1>8, Zenon DEF PostmanInv, Q

\* Node._reconcile_peers
LEMMA SyncInv ==
    ASSUME PostmanInv, NEW g \in cast.configs, Sync(g)
    PROVE  PostmanInv'
<1> DEFINE e == [is |-> "sync", wanted |-> g.wanted, authorized |-> g.authorized]
<1>1. con' = Posted(con, e) /\ mail' = mail /\ known' = known /\ now' = now /\ cast' = cast
  BY DEF Sync
<1>2. e \in Event(cast) /\ e.is # "up" /\ e.is # "send" /\ ~AboutLink(e)
  BY DEF Event, Syncs, AboutLink
<1> HIDE DEF e
<1>3. /\ con \in ConState(cast) /\ ConInv(con, now, cast) /\ KnownInv(con, known, cast)
      /\ SendsInv(con.inbox, mail)
  BY CastIsOK, Zenon DEF PostmanInv
<1>4. ConInv(con', now, cast) /\ KnownInv(con', known, cast)
  BY <1>1, <1>2, <1>3, PostedInv, ZenonT(40)
<1>5. SendsInv(con'.inbox, mail) /\ Queued(con'.inbox) = Queued(con.inbox)
  BY <1>1, <1>2, <1>3, PostedSends
<1> QED
  BY <1>1, <1>4, <1>5, QuietInv

-----------------------------------------------------------------------------
(* Transport threads                                                       *)

\* Workers change by themselves.
LEMMA WorkerMoved ==
    ASSUME NEW c, NEW t, NEW cn \in ConState(c), NEW a \in c.addresses, NEW x \in WorkerState,
           NEW d, d = [cn EXCEPT !.workers[a] = x]
    PROVE  d \in ConState(c) /\ d.links = cn.links /\ d.inbox = cn.inbox /\ Moved(cn, d, t)
<1> DEFINE w == [cn.workers EXCEPT ![a] = x]
<1>1. w \in [c.addresses -> WorkerState]
  BY ConFields
<1>2. d = [cn EXCEPT !.workers = w]
  OBVIOUS
<1> HIDE DEF w
<1>3. d \in ConState(c) /\ d.links = cn.links /\ d.inbox = cn.inbox
  <2> DEFINE b == [cn EXCEPT !.workers = w]
  <2>1. b = [cn EXCEPT !.workers = w]
    OBVIOUS
  <2> HIDE DEF b
  <2>2. b \in ConState(c) /\ b.links = cn.links /\ b.inbox = cn.inbox
    BY <1>1, <2>1, NewWorkers
  <2> QED
    BY <1>2, <2>1, <2>2
<1>4. Moved(cn, d, t)
  BY <1>3, MovedSame, Zenon
<1> QED
  BY <1>3, <1>4

LEMMA ConnectInv ==
    ASSUME PostmanInv, NEW a \in DOMAIN con.workers, ConnectOk(a)
    PROVE  PostmanInv'
<1>1. /\ con \in ConState(cast) /\ ConInv(con, now, cast) /\ KnownInv(con, known, cast)
      /\ SendsInv(con.inbox, mail) /\ now \in Nat /\ a \in cast.addresses
  BY CastIsOK, ConFields DEF PostmanInv
<1> DEFINE p == Connected(con, a, FALSE)
<1>2. con' = [p EXCEPT !.workers[a] = "hooking"]
      /\ mail' = mail /\ known' = known /\ now' = now /\ cast' = cast
  BY DEF ConnectOk
<1>3. p = Connected(con, a, FALSE)
  BY Zenon
<1> HIDE DEF p
<1>4. /\ ConInv(p, now, cast) /\ KnownInv(p, known, cast)
      /\ SendsInv(p.inbox, mail) /\ Queued(p.inbox) = Queued(con.inbox)
  <2> DEFINE v == FALSE
  <2>1. a \in cast.addresses \cup {"ephemeral"} /\ v \in BOOLEAN /\ p = Connected(con, a, v)
    BY <1>1, <1>3
  <2> HIDE DEF v
  <2> QED
    BY <1>1, <2>1, ConnectedInv
<1>5. p \in ConState(cast)
  BY <1>4 DEF ConInv
<1>6. con' \in ConState(cast) /\ con'.inbox = p.inbox /\ Moved(p, con', now)
  BY <1>1, <1>2, <1>5, WorkerMoved DEF WorkerState
<1>7. ConInv(con', now, cast)
  BY <1>1, <1>4, <1>6, MovedConInv, Zenon
<1>8. KnownInv(con', known, cast)
  BY <1>4, <1>5, <1>6, MovedKnownInv, Zenon
<1> QED
  BY <1>2, <1>4, <1>6, <1>7, <1>8, QuietInv, ZenonT(40)

LEMMA AcceptInv ==
    ASSUME PostmanInv, Accept
    PROVE  PostmanInv'
<1>1. /\ ConInv(con, now, cast) /\ KnownInv(con, known, cast)
      /\ SendsInv(con.inbox, mail) /\ now \in Nat
  BY CastIsOK DEF PostmanInv
<1>2. con' = Connected(con, "ephemeral", TRUE)
      /\ mail' = mail /\ known' = known /\ now' = now /\ cast' = cast
  BY DEF Accept
<1>3. /\ ConInv(con', now, cast) /\ KnownInv(con', known, cast)
      /\ SendsInv(con'.inbox, mail) /\ Queued(con'.inbox) = Queued(con.inbox)
  <2> DEFINE v == TRUE e == "ephemeral"
  <2>1. e \in cast.addresses \cup {"ephemeral"} /\ v \in BOOLEAN /\ con' = Connected(con, e, v)
    BY <1>2
  <2> HIDE DEF v, e
  <2> QED
    BY <1>1, <2>1, ConnectedInv
<1> QED
  BY <1>2, <1>3, QuietInv

\* The rest of a dial worker's life.
LEMMA WorkerInv ==
    ASSUME PostmanInv, NEW a \in DOMAIN con.workers, ConnectFails(a) \/ WorkerEnds(a)
    PROVE  PostmanInv'
<1>1. con \in ConState(cast) /\ a \in cast.addresses
  BY CastIsOK, ConFields
<1>2. PICK x \in WorkerState : con' = [con EXCEPT !.workers[a] = x]
  BY DEF ConnectFails, WorkerEnds, WorkerState
<1>3. mail' = mail /\ known' = known /\ now' = now /\ cast' = cast
  BY DEF ConnectFails, WorkerEnds
<1>4. con' \in ConState(cast) /\ Moved(con, con', now)
  BY <1>1, <1>2, WorkerMoved
<1> QED
  BY <1>3, <1>4, MovingInv, Zenon

\* _DialWorker._serve puts its hook in front.
LEMMA HookInv ==
    ASSUME PostmanInv, NEW a \in DOMAIN con.workers, Hook(a)
    PROVE  PostmanInv'
<1> DEFINE x == NewestAt(a)
           w == [con.workers EXCEPT ![a] = "waiting"]
           ls == [con.links EXCEPT ![x].hook = "worker"]
<1>1. con \in ConState(cast) /\ a \in cast.addresses
  BY CastIsOK, ConFields
<1>2. /\ con.links \in Seq(LinkState(cast)) /\ con.inbox \in Seq(Event(cast))
      /\ con.workers \in [cast.addresses -> WorkerState]
      /\ DOMAIN con.links = 1..Len(con.links)
      /\ \A l \in 1..Len(con.links) : con.links[l] \in LinkState(cast)
  BY <1>1, ConFields
<1>3. con' = [con EXCEPT !.workers[a] = "waiting", !.links[x].hook = "worker"]
      /\ mail' = mail /\ known' = known /\ now' = now /\ cast' = cast
  BY DEF Hook
<1> HIDE DEF x
<1>4. con' = [links |-> ls, workers |-> w, inbox |-> con.inbox]
  BY <1>1, <1>3, Zenon DEF ConState
<1>5. w \in [cast.addresses -> WorkerState]
  BY <1>1, <1>2 DEF WorkerState
<1>6. /\ ls \in Seq(LinkState(cast)) /\ Len(ls) = Len(con.links)
      /\ \A l \in 1..Len(con.links) : ls[l] = con.links[l] \/ ls[l] = [con.links[l] EXCEPT !.hook = "worker"]
  <2>1. CASE x \in 1..Len(con.links)
    <3> DEFINE k == [con.links[x] EXCEPT !.hook = "worker"]
    <3>1. k \in LinkState(cast)
      BY <1>2, <2>1, ZenonT(40) DEF LinkState
    <3>2. ls = [con.links EXCEPT ![x] = k]
      BY <1>2, <2>1
    <3>3. [con.links EXCEPT ![x] = k] \in Seq(LinkState(cast))
          /\ Len([con.links EXCEPT ![x] = k]) = Len(con.links)
      <4> HIDE DEF k
      <4> QED
        BY <1>2, <2>1, <3>1
    <3> QED
      BY <1>2, <2>1, <3>2, <3>3
  <2>2. CASE x \notin 1..Len(con.links)
    <3>1. ls = con.links
      BY <1>2, <2>2
    <3> QED
      BY <1>2, <3>1, Zenon
  <2> QED
    BY <2>1, <2>2
<1> HIDE DEF w, ls
<1>7. con' \in ConState(cast)
  BY <1>2, <1>4, <1>5, <1>6 DEF ConState
<1>8. ASSUME NEW l \in 1..Len(con.links)
      PROVE  /\ ls[l].who = con.links[l].who /\ ls[l].notified = con.links[l].notified
             /\ ls[l].sock = con.links[l].sock /\ ls[l].opened = con.links[l].opened
  <2>1. con.links[l] \in LinkState(cast)
    BY <1>2
  <2> QED
    BY <1>6, <2>1, Zenon DEF LinkState
<1>9. con'.links = ls /\ con'.inbox = con.inbox
  BY <1>4
<1>10. Moved(con, con', now)
  BY <1>1, <1>6, <1>8, <1>9, MovedSame
<1> QED
  BY <1>3, <1>7, <1>10, MovingInv, Zenon

\* A connection breaks, and a reader ends.
LEMMA LinkEndsInv ==
    ASSUME PostmanInv, NEW l \in LinkIds, LinkFails(l) \/ ReaderEnds(l)
    PROVE  PostmanInv'
<1>1. con \in ConState(cast) /\ l \in 1..Len(con.links)
  BY CastIsOK DEF LinkIds
<1>2. /\ con' = WriterFails(con, l) \/ con' = ReaderFails(con, l)
      /\ mail' = mail /\ known' = known /\ now' = now /\ cast' = cast
  BY DEF LinkFails, ReaderEnds
<1>3. con' \in ConState(cast) /\ Moved(con, con', now)
  BY <1>1, <1>2, CloseMoved, Zenon
<1> QED
  BY <1>2, <1>3, MovingInv

\* The other ends: an answer to an attempt, a frame of their own, a PONG.
LEMMA FrameEvents ==
    ASSUME NEW c, NEW l \in LinkNumbers
    PROVE  /\ \A q \in c.others, a \in Attempts(c) : Frame(l, q, "reply", a) \in Event(c)
           /\ \A q \in c.others, k \in {"request", "ping", "bad"} : Frame(l, q, k, Nobody) \in Event(c)
           /\ \A q \in c.others \cup {Nobody}, p \in LinkNumbers : Frame(l, q, "pong", p) \in Event(c)
           /\ \A q, k, a : Frame(l, q, k, a).is = "frame" /\ Frame(l, q, k, a).link = l
BY Zenon DEF Frame, Event, Frames

LEMMA AnswerInv ==
    ASSUME PostmanInv, NEW l \in LinkIds, NEW a \in mail.wire, Answer(a, l)
    PROVE  PostmanInv'
<1> DEFINE Q == Queued(con.inbox)
           e == Frame(l, cast.messages[a.m].to, "reply", a)
           w == mail.wire \ {a}
<1>1. con' = Posted(con, e) /\ mail' = [mail EXCEPT !.wire = w]
      /\ known' = known /\ now' = now /\ cast' = cast
  BY Zenon DEF Answer
<1>2. /\ con \in ConState(cast) /\ ConInv(con, now, cast) /\ KnownInv(con, known, cast)
      /\ SendsInv(con.inbox, mail) /\ MailInv(mail, Q, now, cast) /\ MailOK(mail, cast)
      /\ CastOK(cast) /\ l \in LinkNumbers /\ l \in 1..Len(con.links)
  <2>1. /\ con \in ConState(cast) /\ ConInv(con, now, cast) /\ KnownInv(con, known, cast)
        /\ SendsInv(con.inbox, mail) /\ MailInv(mail, Q, now, cast) /\ MailOK(mail, cast)
        /\ CastOK(cast) /\ l \in 1..Len(con.links)
    BY CastIsOK, Zenon DEF PostmanInv, LinkIds, MailInv
  <2>2. Len(con.links) \in Nat
    BY ONLY <2>1, ConFields
  <2>3. l \in LinkNumbers
    BY ONLY <2>1, <2>2 DEF LinkNumbers
  <2> QED
    BY ONLY <2>1, <2>3
<1>3. a \in Attempts(cast) /\ w \subseteq Attempts(cast)
      /\ mail.handle \in [DOMAIN cast.messages -> HandleState]
  BY <1>2 DEF MailOK
<1>4. cast.messages[a.m].to \in cast.others
  BY <1>2, <1>3, Zenon DEF CastOK, Attempts
<1>5. e \in Event(cast) /\ e.is = "frame" /\ e.link = l
  <2> DEFINE q == cast.messages[a.m].to
  <2>1. q \in cast.others /\ a \in Attempts(cast) /\ l \in LinkNumbers /\ e = Frame(l, q, "reply", a)
    BY <1>2, <1>3, <1>4
  <2> HIDE DEF q, e
  <2> QED
    BY ONLY <2>1, FrameEvents
<1>6. mail' = [mail EXCEPT !.wire = w, !.handle = mail.handle] /\ mail'.handle = mail.handle
  BY <1>1, <1>2, Zenon DEF MailOK
<1> HIDE DEF Q, e, w
<1>7. ConInv(con', now, cast) /\ KnownInv(con', known, cast)
  BY <1>1, <1>2, <1>5, PostedInv
<1>8. SendsInv(con'.inbox, mail) /\ Queued(con'.inbox) = Q
  BY <1>1, <1>2, <1>5, PostedSends, Zenon DEF Q
<1>9. MailInv(mail', Q, now, cast)
  BY <1>2, <1>3, <1>6, MailSides, Zenon
<1>10. SendsInv(con'.inbox, mail')
  BY <1>6, <1>8 DEF SendsInv
<1> QED
  BY <1>1, <1>7, <1>8, <1>9, <1>10 DEF PostmanInv

LEMMA IncomingInv ==
    ASSUME PostmanInv, NEW l \in LinkIds, NEW e \in Event(cast), e.is = "frame", e.link = l,
           con' = Posted(con, e), mail' = mail, known' = known, now' = now, cast' = cast
    PROVE  PostmanInv'
<1>1. /\ con \in ConState(cast) /\ ConInv(con, now, cast) /\ KnownInv(con, known, cast)
      /\ SendsInv(con.inbox, mail) /\ l \in 1..Len(con.links)
  BY CastIsOK DEF PostmanInv, LinkIds
<1>2. ConInv(con', now, cast) /\ KnownInv(con', known, cast)
  BY <1>1, PostedInv, Zenon
<1>3. SendsInv(con'.inbox, mail) /\ Queued(con'.inbox) = Queued(con.inbox)
  BY <1>1, PostedSends
<1> QED
  BY <1>2, <1>3, QuietInv, Zenon

LEMMA FramesInv ==
    ASSUME PostmanInv, NEW l \in LinkIds,
           \/ \E q \in cast.others, k \in {"request", "ping", "bad"} : Incoming(l, q, k)
           \/ \E p \in known.pings : Pong(l, p)
    PROVE  PostmanInv'
<1>1. /\ con \in ConState(cast) /\ l \in LinkNumbers /\ KnownInv(con, known, cast)
  BY CastIsOK, ConFields DEF PostmanInv, LinkIds, LinkNumbers
<1>2. CASE \E q \in cast.others, k \in {"request", "ping", "bad"} : Incoming(l, q, k)
  <2>1. PICK q \in cast.others, k \in {"request", "ping", "bad"} : Incoming(l, q, k)
    BY <1>2, ZenonT(40)
  <2> DEFINE e == Frame(l, q, k, Nobody)
  <2>2. e \in Event(cast) /\ e.is = "frame" /\ e.link = l
    BY <1>1, FrameEvents
  <2>3. con' = Posted(con, e) /\ mail' = mail /\ known' = known /\ now' = now /\ cast' = cast
    BY <2>1, Zenon DEF Incoming
  <2> HIDE DEF e
  <2> QED
    BY <2>2, <2>3, IncomingInv, Zenon
<1>3. CASE \E p \in known.pings : Pong(l, p)
  <2>1. PICK p \in known.pings : Pong(l, p)
    BY <1>3, Zenon
  <2>2. p \in 1..Len(con.links) /\ con.links[p] \in LinkState(cast) /\ Len(con.links) \in Nat
    BY <1>1, ConFields DEF KnownInv
  <2> DEFINE e == Frame(l, con.links[p].who, "pong", p)
  <2>3. p \in LinkNumbers /\ con.links[p].who \in cast.others \cup {Nobody}
    BY <2>2 DEF LinkNumbers, LinkState
  <2>4. e \in Event(cast) /\ e.is = "frame" /\ e.link = l
    <3> DEFINE u == con.links[p].who
    <3>1. u \in cast.others \cup {Nobody}
      BY <2>3, Zenon
    <3> HIDE DEF u
    <3>2. Frame(l, u, "pong", p) \in Event(cast)
      BY <1>1, <2>3, <3>1, FrameEvents, ZenonT(40)
    <3>3. Frame(l, u, "pong", p).is = "frame" /\ Frame(l, u, "pong", p).link = l
      BY <1>1, FrameEvents
    <3> QED
      BY <3>2, <3>3 DEF u
  <2>5. con' = Posted(con, e) /\ mail' = mail /\ known' = known /\ now' = now /\ cast' = cast
    BY <2>1 DEF Pong
  <2> HIDE DEF e
  <2> QED
    BY <2>4, <2>5, IncomingInv, Zenon
<1> QED
  BY <1>2, <1>3, ZenonT(40)

-----------------------------------------------------------------------------
(* The loop: links and peers                                               *)

\* An event about a link is handled: its link exists, and no _LinkUp of it is
\* left in the inbox.
LEMMA PopAbout ==
    ASSUME NEW c, NEW t, NEW cn, ConInv(cn, t, c), cn.inbox # <<>>, AboutLink(Head(cn.inbox)),
           NEW r, r = [cn EXCEPT !.inbox = Tail(@)]
    PROVE  /\ Head(cn.inbox).link \in 1..Len(cn.links)
           /\ \A i \in 1..Len(r.inbox) : r.inbox[i].is = "up" => r.inbox[i].link # Head(cn.inbox).link
           /\ Head(cn.inbox).is = "up" =>
                 /\ cn.links[Head(cn.inbox).link].who = Nobody
                 /\ cn.links[Head(cn.inbox).link].notified =>
                       Down(Head(cn.inbox).link) \in Range(r.inbox)
<1> DEFINE e == Head(cn.inbox)
<1>1. cn \in ConState(c)
  BY DEF ConInv
<1>2. /\ Len(cn.inbox) = Len(r.inbox) + 1 /\ Len(r.inbox) \in Nat /\ e = cn.inbox[1]
      /\ \A i \in 1..Len(r.inbox) : r.inbox[i] = cn.inbox[i + 1]
  BY <1>1, PopHead
<1>3. 1 \in 1..Len(cn.inbox) /\ \A i \in 1..Len(r.inbox) : i + 1 \in 1..Len(cn.inbox) /\ ~(i + 1 <= 1)
  BY <1>2
<1>4. AboutLink(e)
  OBVIOUS
<1> HIDE DEF e
<1>5. /\ e.link \in 1..Len(cn.links)
      /\ e.is = "up" =>
            /\ cn.links[e.link].who = Nobody
            /\ cn.links[e.link].notified => Down(e.link) \in Range(cn.inbox)
  BY <1>2, <1>3, <1>4 DEF ConInv, InboxInv
<1>6. ASSUME NEW i \in 1..Len(r.inbox), r.inbox[i].is = "up", r.inbox[i].link = e.link
      PROVE  FALSE
  <2>1. cn.inbox[i + 1].is = "up" /\ cn.inbox[i + 1].link = e.link
    BY <1>2, <1>6
  <2>2. i + 1 <= 1
    BY <1>2, <1>3, <1>4, <2>1 DEF ConInv, InboxInv
  <2> QED
    BY <1>3, <2>2
<1>7. e.is = "up" => Down(e.link) # e
  BY DEF Down
<1>8. e.is = "up" /\ Down(e.link) \in Range(cn.inbox) => Down(e.link) \in Range(r.inbox)
  BY <1>1, <1>7, PopRange, Zenon DEF e
<1> QED
  BY <1>5, <1>6, <1>8 DEF e

\* _on_link_up
LEMMA OnLinkUpInv ==
    ASSUME PostmanInv, OnLinkUp
    PROVE  PostmanInv'
<1> DEFINE l == Head(con.inbox).link
           r == Rest
<1>1. /\ con \in ConState(cast) /\ ConInv(con, now, cast) /\ KnownInv(con, known, cast)
      /\ SendsInv(con.inbox, mail) /\ CastOK(cast) /\ now \in Nat
  BY CastIsOK DEF PostmanInv
<1>2. /\ con.inbox # <<>> /\ Head(con.inbox).is = "up" /\ AboutLink(Head(con.inbox))
      /\ mail' = mail /\ now' = now /\ cast' = cast
  BY DEF OnLinkUp, Handles, AboutLink
<1>3. r = [con EXCEPT !.inbox = Tail(@)]
  BY Zenon DEF Rest
<1>4. \/ \E q \in DOMAIN known.peers :
            LET res == ListLink([r EXCEPT !.links[l].who = q], known, l, q)
            IN  con' = res.con /\ known' = res.known
      \/ known' = [known EXCEPT !.unbound = @ \cup {l}] /\ con' = r
  BY DEF OnLinkUp
<1> HIDE DEF r
<1>5. /\ r \in ConState(cast) /\ r.links = con.links /\ ConInv(r, now, cast)
  BY <1>1, <1>2, <1>3, PopHead, PopConInv
<1>6. KnownInv(r, known, cast)
  <2>1. \A j : Head(con.inbox) # Down(j)
    BY <1>2 DEF Down
  <2> QED
    BY <1>1, <1>2, <1>3, <2>1, PopKnownInv
<1>7. SendsInv(r.inbox, mail) /\ Queued(r.inbox) = Queued(con.inbox)
  BY <1>1, <1>2, <1>3, PopSends, Zenon
<1>8. /\ l \in 1..Len(con.links)
      /\ \A i \in 1..Len(r.inbox) : r.inbox[i].is = "up" => r.inbox[i].link # l
      /\ con.links[l].who = Nobody
      /\ con.links[l].notified => Down(l) \in Range(r.inbox)
  BY <1>1, <1>2, <1>3, PopAbout, Zenon
<1> HIDE DEF l
<1>9. CASE \E q \in DOMAIN known.peers :
            LET res == ListLink([r EXCEPT !.links[l].who = q], known, l, q)
            IN  con' = res.con /\ known' = res.known
  <2>1. PICK q \in DOMAIN known.peers :
            LET res == ListLink([r EXCEPT !.links[l].who = q], known, l, q)
            IN  con' = res.con /\ known' = res.known
    BY <1>9
  <2> DEFINE b == [r EXCEPT !.links[l].who = q]
             res == ListLink(b, known, l, q)
  <2>2. q \in cast.others
    BY <1>1 DEF KnownInv, KnownOK
  <2>3. b = BindTo(r, l, q) /\ con' = res.con /\ known' = res.known
    BY <2>1, ZenonT(40) DEF BindTo
  <2> HIDE DEF b
  <2>4. /\ ConInv(b, now, cast) /\ KnownInv(b, known, cast) /\ b.inbox = r.inbox
        /\ Len(b.links) = Len(r.links) /\ b.links[l].who = q
        /\ b.links[l].notified = r.links[l].notified
    <3>1. l \in 1..Len(r.links) /\ r.links[l].who = Nobody /\ UpHandled(r, l)
      BY ONLY <1>5, <1>8 DEF UpHandled
    <3>2. Bindable(r, known, l, q, now, cast)
      BY <1>1, <1>5, <1>6, <2>2, <3>1, Zenon DEF Bindable
    <3>3. Binds(r, b, known, l, q, now, cast)
      BY ONLY <2>3, <3>2, BindInv, Zenon
    <3> QED
      BY ONLY <3>3, Zenon DEF Binds
  <2>5. l \in 1..Len(b.links) /\ (b.links[l].notified => Down(l) \in Range(b.inbox))
    BY <1>5, <1>8, <2>4, Zenon
  <2>6. /\ con' \in ConState(cast) /\ Moved(b, con', now) /\ ConInv(con', now, cast)
        /\ KnownInv(con', known', cast)
    BY <1>1, <2>2, <2>3, <2>4, <2>5, ListLinkInv, Zenon
  <2>7. SendsInv(con'.inbox, mail) /\ Queued(con'.inbox) = Queued(b.inbox)
    <3>1. b \in ConState(cast) /\ SendsInv(b.inbox, mail)
      BY <1>7, <2>4 DEF ConInv
    <3> QED
      BY <2>6, <3>1, MovedSends
  <2> QED
    BY <1>2, <1>7, <2>4, <2>6, <2>7, QuietInv
<1>10. CASE known' = [known EXCEPT !.unbound = @ \cup {l}] /\ con' = r
  <2> DEFINE u == known.unbound \cup {l}
  <2>1. known' = [known EXCEPT !.unbound = u, !.pings = known.pings, !.late = known.late]
    BY <1>1, <1>10, Zenon DEF KnownInv, KnownOK
  <2>2. u \subseteq 1..Len(r.links) /\ known.pings \subseteq 1..Len(r.links)
    BY <1>5, <1>6, <1>8 DEF KnownInv
  <2> HIDE DEF u
  <2>3. KnownInv(r, known', cast)
    BY <1>6, <2>1, <2>2, KnownSides, ZenonT(40)
  <2> QED
    BY <1>2, <1>5, <1>7, <1>10, <2>3, QuietInv
<1> QED
  BY <1>4, <1>9, <1>10

\* Dialling comes last, and keeps what was reached by then.
LEMMA DialledInv ==
    ASSUME PostmanInv, NEW r \in ConState(cast), ConInv(r, now, cast),
           KnownInv(r, known', cast), SendsInv(r.inbox, mail), Queued(r.inbox) = Queued(con.inbox),
           NEW kn, NEW qs, con' = DialPeers(r, kn, qs), mail' = mail, now' = now, cast' = cast
    PROVE  PostmanInv'
<1>1. con' \in ConState(cast) /\ con'.inbox = r.inbox /\ Moved(r, con', now)
  BY DialMoved
<1>2. ConInv(con', now, cast)
  BY <1>1, CastIsOK, MovedConInv, ZenonT(40)
<1>3. KnownInv(con', known', cast)
  BY <1>1, MovedKnownInv
<1> QED
  BY <1>1, <1>2, <1>3, QuietInv, Zenon

\* _on_link_down
LEMMA OnLinkDownInv ==
    ASSUME PostmanInv, OnLinkDown
    PROVE  PostmanInv'
<1> DEFINE l == Head(con.inbox).link
           q == con.links[l].who
           r == Rest
<1>1. /\ con \in ConState(cast) /\ ConInv(con, now, cast) /\ KnownInv(con, known, cast)
      /\ SendsInv(con.inbox, mail) /\ CastOK(cast) /\ now \in Nat
  BY CastIsOK DEF PostmanInv
<1>2. /\ con.inbox # <<>> /\ Head(con.inbox).is = "down"
      /\ mail' = mail /\ now' = now /\ cast' = cast
  BY DEF OnLinkDown, Handles
<1>3. r = [con EXCEPT !.inbox = Tail(@)]
  BY DEF Rest
<1>4. IF q \in DOMAIN known.peers
      THEN known' = [known EXCEPT !.peers[q].links = @ \ {l}] /\ con' = DialPeers(r, known', {q})
      ELSE con' = r /\ known' = known
  BY Zenon DEF OnLinkDown
<1> HIDE DEF r
<1>5. \A j : Head(con.inbox) = Down(j) => j = l
  BY DEF Down
<1>6. r \in ConState(cast) /\ r.links = con.links /\ ConInv(r, now, cast)
  BY <1>1, <1>2, <1>3, PopHead, PopConInv
<1>7. SendsInv(r.inbox, mail) /\ Queued(r.inbox) = Queued(con.inbox)
  BY <1>1, <1>2, <1>3, PopSends, Zenon
<1> HIDE DEF l, q
<1>8. CASE q \in DOMAIN known.peers
  <2> DEFINE P == [known.peers EXCEPT ![q].links = @ \ {l}]
             kn2 == known'
  <2>1. known.peers \in [DOMAIN known.peers -> PeerState(cast)] /\ KnownOK(known, cast)
    BY <1>1 DEF KnownInv, KnownOK
  <2>2. /\ P \in [DOMAIN known.peers -> PeerState(cast)] /\ DOMAIN P = DOMAIN known.peers
        /\ P[q].links = known.peers[q].links \ {l}
        /\ \A p \in DOMAIN known.peers : p # q => P[p] = known.peers[p]
    <3>1. known.peers[q] \in PeerState(cast)
      BY <1>8, <2>1
    <3>2. [known.peers[q] EXCEPT !.links = @ \ {l}] \in PeerState(cast)
      BY <3>1 DEF PeerState
    <3>3. P = [known.peers EXCEPT ![q] = [known.peers[q] EXCEPT !.links = @ \ {l}]]
      BY <1>8, <2>1
    <3> QED
      BY <1>8, <2>1, <3>1, <3>2, <3>3, Zenon DEF PeerState
  <2>3. known' = [known EXCEPT !.peers = P, !.strays = known.strays]
    BY <1>4, <1>8, <2>1, Zenon DEF KnownOK
  <2> HIDE DEF P
  <2>4. /\ KnownOK(known', cast) /\ known'.peers = P /\ known'.strays = known.strays
        /\ known'.polled = known.polled /\ known'.unbound = known.unbound
        /\ known'.pings = known.pings /\ known'.late = known.late
    BY <2>1, <2>2, <2>3, KnownPeers, Zenon DEF KnownOK
  <2>5. \A p \in DOMAIN known.peers : \A j \in P[p].links : j \in known.peers[p].links /\ j # l
    <3>1. \A p \in DOMAIN known.peers : \A j \in known.peers[p].links : con.links[j].who = p
      BY <1>1, Zenon DEF KnownInv, ListedInv
    <3>2. con.links[l].who = q
      BY DEF q
    <3> QED
      BY ONLY <1>8, <2>2, <3>1, <3>2
  <2>6. KnownInv(con, known', cast)
    <3>1. ListedInv(con, known')
      BY <1>1, <2>2, <2>4, <2>5 DEF KnownInv, ListedInv
    <3> QED
      BY <1>1, <2>2, <2>4, <3>1, ZenonT(40) DEF KnownInv
  <2>7. KnownInv(r, known', cast)
    <3>1. \A p \in DOMAIN known'.peers : \A j \in known'.peers[p].links : Head(con.inbox) # Down(j)
      BY <1>5, <2>2, <2>4, <2>5
    <3> QED
      BY <1>1, <1>2, <1>3, <2>6, <3>1, PopKnownInv, ZenonT(40)
  <2> QED
    BY <1>2, <1>4, <1>6, <1>7, <1>8, <2>7, DialledInv, Zenon
<1>9. CASE q \notin DOMAIN known.peers
  <2>1. \A p \in DOMAIN known.peers : \A j \in known.peers[p].links : Head(con.inbox) # Down(j)
    BY <1>1, <1>5, <1>9 DEF KnownInv, ListedInv, q
  <2>2. KnownInv(r, known, cast)
    BY <1>1, <1>2, <1>3, <2>1, PopKnownInv
  <2> QED
    BY <1>2, <1>4, <1>6, <1>7, <1>9, <2>2, QuietInv, Zenon
<1> QED
  BY <1>8, <1>9

\* _on_reap_unbound, _on_maintain_links and _on_keepalive
LEMMA OnReapUnboundInv ==
    ASSUME PostmanInv, NEW l \in known.unbound, OnReapUnbound(l)
    PROVE  PostmanInv'
<1> DEFINE u == known.unbound \ {l}
<1>1. /\ con \in ConState(cast) /\ ConInv(con, now, cast) /\ KnownInv(con, known, cast)
      /\ SendsInv(con.inbox, mail) /\ now \in Nat /\ l \in 1..Len(con.links)
  BY CastIsOK, Zenon DEF PostmanInv, KnownInv
<1>2. /\ con' \in {con, Close(con, l)} /\ known' = [known EXCEPT !.unbound = u]
      /\ mail' = mail /\ now' = now /\ cast' = cast
  BY DEF OnReapUnbound
<1>3. con' \in ConState(cast) /\ Moved(con, con', now)
  BY <1>1, <1>2, CloseMoved, MovedNone, Zenon
<1>4. ConInv(con', now, cast) /\ KnownInv(con', known, cast)
  BY <1>1, <1>3, MovedConInv, MovedKnownInv
<1>5. SendsInv(con'.inbox, mail) /\ Queued(con'.inbox) = Queued(con.inbox)
  BY ONLY <1>1, <1>3, MovedSends, ZenonT(40)
<1>6. u \subseteq 1..Len(con'.links) /\ known.pings \subseteq 1..Len(con'.links)
      /\ known' = [known EXCEPT !.unbound = u, !.pings = known.pings, !.late = known.late]
  BY <1>2, <1>4, Zenon DEF KnownInv, KnownOK
<1> HIDE DEF u
<1>7. KnownInv(con', known', cast)
  BY <1>4, <1>6, KnownSides, Zenon
<1> QED
  BY <1>2, <1>4, <1>5, <1>7, QuietInv

LEMMA OnMaintainLinksInv ==
    ASSUME PostmanInv, OnMaintainLinks
    PROVE  PostmanInv'
<1>1. con \in ConState(cast)
  BY CastIsOK
<1>2. /\ con' = DialPeers(con, known, DOMAIN known.peers)
      /\ mail' = mail /\ known' = known /\ now' = now /\ cast' = cast
  BY DEF OnMaintainLinks
<1>3. con' \in ConState(cast) /\ Moved(con, con', now)
  BY <1>1, <1>2, DialMoved
<1> QED
  BY <1>2, <1>3, MovingInv

-----------------------------------------------------------------------------
(* The loop: frames                                                        *)

LEMMA ToldOK ==
    ASSUME NEW D, NEW h \in [D -> HandleState], NEW ms, NEW what \in HandleState, what # "idle"
    PROVE  /\ Told(h, ms, what) \in [D -> HandleState]
           /\ \A m \in D : Told(h, ms, what)[m] = "idle" <=> h[m] = "idle"
BY DEF Told

\* Messages leave the mailbox, and who waits for them may be told.
LEMMA BoxShrinks ==
    ASSUME NEW c, NEW t, NEW mb, NEW q, MailInv(mb, q, t, c), NEW S, NEW h,
           h \in [DOMAIN c.messages -> HandleState],
           \A m \in DOMAIN c.messages : h[m] = "idle" <=> mb.handle[m] = "idle",
           NEW mb2, mb2 = [mb EXCEPT !.box = Without(mb.box, S), !.handle = h]
    PROVE  MailInv(mb2, q, t, c)
<1> DEFINE B == Without(mb.box, S)
<1>1. /\ DOMAIN B \subseteq DOMAIN mb.box /\ \A m \in DOMAIN B : B[m] = mb.box[m]
      /\ B \in [DOMAIN B -> Pending(c)] /\ DOMAIN B \subseteq DOMAIN c.messages
  BY DEF Without, MailInv, MailOK
<1> HIDE DEF B
<1>2. mb2 = [box |-> B, retry |-> mb.retry, reap |-> mb.reap, wire |-> mb.wire, handle |-> h]
  BY Zenon DEF MailInv, MailOK, B
<1>3. DOMAIN mb.handle = DOMAIN c.messages /\ DOMAIN h = DOMAIN c.messages
  BY DEF MailInv, MailOK
<1>4. Taken(mb2, q) = Taken(mb, q)
  BY <1>2, <1>3 DEF Taken
<1>5. Horizon(mb2, q, c) = Horizon(mb, q, c)
  BY <1>4 DEF Horizon
<1>6. /\ mb2.box = B /\ mb2.retry = mb.retry /\ mb2.reap = mb.reap /\ mb2.wire = mb.wire
      /\ mb2.handle = h
      /\ mb2 = [box |-> mb2.box, retry |-> mb2.retry, reap |-> mb2.reap, wire |-> mb2.wire,
                handle |-> mb2.handle]
  BY ONLY <1>2
<1>7. mb.retry \in Int /\ mb.reap \in Int /\ mb.wire \subseteq Attempts(c)
  BY DEF MailInv, MailOK
<1>8. MailOK(mb2, c)
  BY ONLY <1>1, <1>6, <1>7, h \in [DOMAIN c.messages -> HandleState] DEF MailOK
<1>9. DOMAIN B \subseteq Taken(mb, q) /\ t <= Horizon(mb, q, c)
  BY <1>1 DEF MailInv
<1>10. \A m \in DOMAIN B :
         /\ B[m].deadline <= Horizon(mb, q, c) /\ Len(B[m].attempts) <= MaxAttempts
         /\ mb.reap # Never /\ mb.reap <= B[m].deadline
         /\ ~B[m].flying /\ B[m].next < B[m].deadline /\ t < B[m].deadline
               => mb.retry # Never /\ mb.retry <= B[m].next
  BY <1>1 DEF MailInv
<1> QED
  BY ONLY <1>4, <1>5, <1>6, <1>8, <1>9, <1>10 DEF MailInv

BoundLate(cn, kn, l) ==
    [kn EXCEPT !.late = IF cn.links[l].notified /\ Down(l) \notin Range(cn.inbox)
                        THEN @ \cup {l} ELSE @]

\* What binding leaves: b is the connection with the link bound, s with it listed.
BoundWell(cn, b, s, t, c) ==
    /\ s.con \in ConState(c) /\ Moved(b, s.con, t) /\ ConInv(s.con, t, c)
    /\ KnownInv(s.con, s.known, c) /\ b \in ConState(c) /\ b.inbox = cn.inbox
    /\ Len(b.links) = Len(cn.links)
Listed(cn, kn, l, q) == ListLink(BindTo(cn, l, q), BoundLate(cn, kn, l), l, q)

\* An unbound link is bound to the sender of a frame that came over it, perhaps
\* after its _LinkDown was handled.
LEMMA BoundInv ==
    ASSUME NEW c, NEW t \in Nat, NEW cn, NEW kn0, NEW l, NEW q, Bindable(cn, kn0, l, q, t, c)
    PROVE  BoundWell(cn, BindTo(cn, l, q), Listed(cn, kn0, l, q), t, c)
<1> DEFINE b == BindTo(cn, l, q)
           kn == BoundLate(cn, kn0, l)
           s == ListLink(b, kn, l, q)
<1>7. b = BindTo(cn, l, q) /\ kn = BoundLate(cn, kn0, l) /\ s = ListLink(b, kn, l, q)
      /\ Listed(cn, kn0, l, q) = s
  BY DEF Listed
<1> HIDE DEF b, kn, s
<1> /\ CastOK(c) /\ ConInv(cn, t, c) /\ KnownInv(cn, kn0, c)
    /\ l \in 1..Len(cn.links) /\ cn.links[l].who = Nobody /\ UpHandled(cn, l) /\ q \in c.others
  BY Zenon DEF Bindable
<1> DEFINE w == IF cn.links[l].notified /\ Down(l) \notin Range(cn.inbox)
                THEN kn0.late \cup {l} ELSE kn0.late
<1>1. kn0.late \subseteq w /\ (cn.links[l].notified => Down(l) \in Range(cn.inbox) \/ l \in w)
      /\ kn = [kn0 EXCEPT !.late = w]
  BY <1>7 DEF BoundLate
<1> HIDE DEF w
<1>2. kn = [peers |-> kn0.peers, authorized |-> kn0.authorized, unbound |-> kn0.unbound,
            pings |-> kn0.pings, polled |-> kn0.polled, strays |-> kn0.strays, late |-> w]
  <2>1. KnownOK(kn0, c)
    BY Zenon DEF KnownInv
  <2> QED
    BY ONLY <1>1, <2>1 DEF KnownOK
<1>3. KnownInv(cn, kn, c) /\ kn.late = w
  <2>1. KnownOK(kn, c)
    BY <1>2 DEF KnownInv, KnownOK
  <2>2. ListedInv(cn, kn)
    BY <1>1, <1>2, ZenonT(40) DEF KnownInv, ListedInv
  <2> QED
    <3>1. kn.peers = kn0.peers /\ kn.authorized = kn0.authorized /\ kn.unbound = kn0.unbound
          /\ kn.pings = kn0.pings /\ kn.polled = kn0.polled /\ kn.strays = kn0.strays /\ kn.late = w
      BY ONLY <1>2
    <3> QED
      BY <2>1, <2>2, <3>1, Zenon DEF KnownInv
<1>4. /\ ConInv(b, t, c) /\ KnownInv(b, kn, c) /\ b.inbox = cn.inbox
      /\ Len(b.links) = Len(cn.links) /\ b.links[l].who = q
      /\ b.links[l].notified = cn.links[l].notified
  <2>1. Bindable(cn, kn, l, q, t, c)
    BY <1>3, Zenon DEF Bindable
  <2>2. Binds(cn, b, kn, l, q, t, c)
    BY ONLY <1>7, <2>1, BindInv, Zenon
  <2> QED
    BY ONLY <2>2, Zenon DEF Binds
<1>5. /\ l \in 1..Len(b.links) /\ b \in ConState(c)
      /\ b.links[l].notified => Down(l) \in Range(b.inbox) \/ l \in kn.late
  BY <1>1, <1>3, <1>4 DEF ConInv
<1>6. /\ s.con \in ConState(c) /\ Moved(b, s.con, t) /\ ConInv(s.con, t, c)
      /\ KnownInv(s.con, s.known, c)
  BY <1>4, <1>5, <1>7, ListLinkInv, Zenon
<1>8. BoundWell(cn, b, s, t, c)
  BY <1>4, <1>5, <1>6, Zenon DEF BoundWell
<1> QED
  BY ONLY <1>7, <1>8, Zenon

\* _do_deliver, once the frame is accepted.
LEMMA AcceptedInv ==
    ASSUME PostmanInv, NEW cn, ConInv(cn, now, cast), KnownInv(cn, known, cast),
           SendsInv(cn.inbox, mail), Queued(cn.inbox) = Queued(con.inbox),
           NEW mb, MailInv(mb, Queued(con.inbox), now, cast), mb.handle = mail.handle,
           NEW f, f.from \in cast.others, f.link \in 1..Len(cn.links),
           \A i \in 1..Len(cn.inbox) : cn.inbox[i].is = "up" => cn.inbox[i].link # f.link,
           Accepted(cn, known, mb, f), now' = now, cast' = cast
    PROVE  PostmanInv'
<1> DEFINE l == f.link
           Q == Queued(con.inbox)
           kn == [known EXCEPT !.late = IF cn.links[l].notified /\ Down(l) \notin Range(cn.inbox)
                                        THEN @ \cup {l} ELSE @]
           b == [cn EXCEPT !.links[l].who = f.from]
           bound == IF cn.links[l].who = Nobody THEN ListLink(b, kn, l, f.from)
                    ELSE [con |-> cn, known |-> known]
<1>1. now \in Nat /\ CastOK(cast) /\ cn \in ConState(cast)
  BY CastIsOK, Zenon DEF ConInv
<1>2. /\ known' = bound.known
      /\ con' = IF f.kind = "ping" THEN Send(bound.con, l, now) ELSE bound.con
      /\ mail' = IF f.kind = "reply" THEN [mb EXCEPT !.handle = Told(@, {f.re.m}, "answered")]
                 ELSE mb
  BY DEF Accepted
<1> DEFINE bc == bound.con bk == bound.known
<1>3. /\ ConInv(bc, now, cast) /\ KnownInv(bc, bk, cast) /\ Len(bc.links) = Len(cn.links)
      /\ SendsInv(bc.inbox, mail) /\ Queued(bc.inbox) = Q
  <2>1. CASE cn.links[l].who = Nobody
    <3> DEFINE s == ListLink(b, kn, l, f.from)
               q == f.from
    <3>1. bc = s.con /\ bk = s.known /\ s = ListLink(b, kn, l, q) /\ b = BindTo(cn, l, q)
      BY <2>1 DEF BindTo
    <3>2. /\ q \in cast.others /\ l \in 1..Len(cn.links) /\ ConInv(cn, now, cast)
          /\ KnownInv(cn, known, cast)
          /\ UpHandled(cn, l) /\ kn = BoundLate(cn, known, l)
      BY DEF BoundLate, UpHandled
    <3> HIDE DEF l, b, kn, s, q
    <3>3. /\ s.con \in ConState(cast) /\ Moved(b, s.con, now) /\ ConInv(s.con, now, cast)
          /\ KnownInv(s.con, s.known, cast) /\ b \in ConState(cast) /\ b.inbox = cn.inbox
          /\ Len(b.links) = Len(cn.links)
      <4>1. Bindable(cn, known, l, q, now, cast)
        BY ONLY <1>1, <2>1, <3>2, Zenon DEF Bindable
      <4>2. now \in Nat
        BY ONLY <1>1, Zenon
      <4>3. BoundWell(cn, BindTo(cn, l, q), Listed(cn, known, l, q), now, cast)
        BY ONLY <4>1, <4>2, BoundInv, Zenon
      <4>4. b = BindTo(cn, l, q) /\ s = Listed(cn, known, l, q)
        BY ONLY <3>1, <3>2, Zenon DEF Listed
      <4>5. BoundWell(cn, b, s, now, cast)
        BY ONLY <4>3, <4>4, Zenon
      <4> QED
        BY ONLY <4>5, Zenon DEF BoundWell
    <3>4. SendsInv(b.inbox, mail)
      BY <3>3, Zenon
    <3>5. SendsInv(s.con.inbox, mail) /\ Queued(s.con.inbox) = Queued(b.inbox)
      BY ONLY <3>3, <3>4, MovedSends, ZenonT(30)
    <3> QED
      BY <3>1, <3>3, <3>5, ZenonT(40) DEF Moved
  <2>2. CASE cn.links[l].who # Nobody
    BY <2>2
  <2> QED
    BY <2>1, <2>2, Zenon
<1>4. con' = (IF f.kind = "ping" THEN Send(bc, l, now) ELSE bc) /\ known' = bk
  BY <1>2
<1> HIDE DEF bound, bc, bk
<1>5. bc \in ConState(cast) /\ l \in 1..Len(bc.links)
  BY <1>3, Zenon DEF ConInv
<1>6. con' \in ConState(cast) /\ Moved(bc, con', now)
  BY <1>1, <1>4, <1>5, SendMoved, MovedNone, Zenon
<1>7. ConInv(con', now, cast) /\ KnownInv(con', known', cast)
  BY <1>1, <1>3, <1>4, <1>5, <1>6, MovedConInv, MovedKnownInv, Zenon
<1>8. SendsInv(con'.inbox, mail) /\ Queued(con'.inbox) = Q
  <2>1. SendsInv(con'.inbox, mail) /\ Queued(con'.inbox) = Queued(bc.inbox)
    BY ONLY <1>3, <1>5, <1>6, MovedSends, ZenonT(40)
  <2> QED
    BY <1>3, <2>1, Zenon
<1>9. MailInv(mail', Q, now, cast)
      /\ \A m \in DOMAIN cast.messages : mail'.handle[m] = "idle" <=> mail.handle[m] = "idle"
  <2> DEFINE h == Told(mb.handle, {f.re.m}, "answered")
  <2>1. mb.handle \in [DOMAIN cast.messages -> HandleState] /\ MailOK(mb, cast)
        /\ mb.wire \subseteq Attempts(cast)
    BY DEF MailInv, MailOK
  <2>2. /\ h \in [DOMAIN cast.messages -> HandleState]
        /\ \A m \in DOMAIN cast.messages : h[m] = "idle" <=> mb.handle[m] = "idle"
    <3> DEFINE x == "answered" D == DOMAIN cast.messages S == {f.re.m}
    <3>1. x \in HandleState /\ x # "idle" /\ mb.handle \in [D -> HandleState]
          /\ h = Told(mb.handle, S, x)
      BY <2>1, Zenon DEF HandleState
    <3> HIDE DEF x, D, S, h
    <3>2. h \in [D -> HandleState] /\ \A m \in D : h[m] = "idle" <=> mb.handle[m] = "idle"
      BY ONLY <3>1, ToldOK
    <3> QED
      BY <3>2, Zenon DEF D
  <2> HIDE DEF h, Q
  <2>3. CASE f.kind = "reply"
    <3>1. mail' = [mb EXCEPT !.wire = mb.wire, !.handle = h]
      BY <1>2, <2>1, <2>3, Zenon DEF h, MailOK
    <3>2. \A m \in DOMAIN cast.messages :
            (h[m] # "idle" /\ m \notin Q) <=> (mb.handle[m] # "idle" /\ m \notin Q)
      BY <2>2, Zenon
    <3>3. MailInv(mb, Q, now, cast)
      BY Zenon DEF Q
    <3>4. MailInv(mail', Q, now, cast)
      BY ONLY <2>1, <2>2, <3>1, <3>2, <3>3, MailSides, Zenon
    <3>5. mail'.handle = h
      BY <2>1, <3>1 DEF MailOK
    <3> QED
      BY <2>2, <3>4, <3>5, Zenon
  <2>4. CASE f.kind # "reply"
    <3>1. mail' = mb
      BY <1>2, <2>4
    <3> QED
      BY <3>1, Zenon DEF Q
  <2> QED
    BY <2>3, <2>4, Zenon
<1>10. SendsInv(con'.inbox, mail')
  <2>1. \A i \in 1..Len(con'.inbox) :
          con'.inbox[i].is = "send" => con'.inbox[i].m \in DOMAIN cast.messages
    BY <1>6, SendEvents, Zenon
  <2> QED
    BY <1>8, <1>9, <2>1, Zenon DEF SendsInv
<1> QED
  BY <1>7, <1>8, <1>9, <1>10, Zenon DEF PostmanInv

-----------------------------------------------------------------------------
(* The loop: the mailbox and its timers                                    *)

\* What MailInv says of the messages, and of either timer.
BoxInv(mb, q, t, c) ==
    /\ MailOK(mb, c) /\ DOMAIN mb.box \subseteq Taken(mb, q) /\ t <= Horizon(mb, q, c)
    /\ \A m \in DOMAIN mb.box :
         mb.box[m].deadline <= Horizon(mb, q, c) /\ Len(mb.box[m].attempts) <= MaxAttempts

ReapArmed(mb) ==
    \A m \in DOMAIN mb.box : mb.reap # Never /\ mb.reap <= mb.box[m].deadline

RetryArmed(mb, t) ==
    \A m \in DOMAIN mb.box :
        ~mb.box[m].flying /\ mb.box[m].next < mb.box[m].deadline /\ t < mb.box[m].deadline
            => mb.retry # Never /\ mb.retry <= mb.box[m].next

LEMMA MailParts ==
    ASSUME NEW mb, NEW q, NEW t, NEW c
    PROVE  MailInv(mb, q, t, c) <=> BoxInv(mb, q, t, c) /\ ReapArmed(mb) /\ RetryArmed(mb, t)
BY DEF MailInv, BoxInv, ReapArmed, RetryArmed

Timed(mb, x, y) == [mb EXCEPT !.retry = x, !.reap = y]

\* A timer is set anew; nothing else changes.
LEMMA TimersSet ==
    ASSUME NEW c, NEW q, NEW t, NEW mb, BoxInv(mb, q, t, c), NEW x \in Int, NEW y \in Int,
           NEW mb2, mb2 = Timed(mb, x, y)
    PROVE  BoxInv(mb2, q, t, c) /\ mb2.box = mb.box /\ mb2.retry = x /\ mb2.reap = y
<1>1. mb2 = [box |-> mb.box, retry |-> x, reap |-> y, wire |-> mb.wire, handle |-> mb.handle]
  BY Zenon DEF Timed, BoxInv, MailOK
<1>2. /\ mb2.box = mb.box /\ mb2.retry = x /\ mb2.reap = y /\ mb2.wire = mb.wire
      /\ mb2.handle = mb.handle
      /\ mb2 = [box |-> mb2.box, retry |-> mb2.retry, reap |-> mb2.reap, wire |-> mb2.wire,
                handle |-> mb2.handle]
  BY ONLY <1>1
<1>3. Horizon(mb2, q, c) = Horizon(mb, q, c) /\ Taken(mb2, q) = Taken(mb, q)
  BY <1>2 DEF Horizon, Taken
<1>4. MailOK(mb2, c)
  BY <1>2 DEF BoxInv, MailOK
<1> QED
  BY <1>2, <1>3, <1>4 DEF BoxInv

\* mb2 is mb after one of the messages due, m, was acted on: only m may have left.
Acted(mb, mb2, m, c) ==
    /\ MailOK(mb2, c) /\ mb2.reap = mb.reap
    /\ DOMAIN mb2.box \subseteq DOMAIN mb.box /\ DOMAIN mb.box \ {m} \subseteq DOMAIN mb2.box
    /\ \A x \in DOMAIN mb2.box :
         mb2.box[x].deadline = mb.box[x].deadline /\ Len(mb2.box[x].attempts) <= MaxAttempts
    /\ \A x \in DOMAIN c.messages : mb2.handle[x] = "idle" <=> mb.handle[x] = "idle"

LEMMA ActedInv ==
    ASSUME NEW c, NEW q, NEW t, NEW mb, BoxInv(mb, q, t, c), ReapArmed(mb), NEW mb2, NEW m,
           Acted(mb, mb2, m, c)
    PROVE  BoxInv(mb2, q, t, c) /\ ReapArmed(mb2)
<1>1. DOMAIN mb.handle = DOMAIN c.messages /\ DOMAIN mb2.handle = DOMAIN c.messages
  BY Zenon DEF BoxInv, Acted, MailOK
<1>2. Taken(mb2, q) = Taken(mb, q)
  BY <1>1 DEF Taken, Acted
<1>3. Horizon(mb2, q, c) = Horizon(mb, q, c)
  BY <1>2, Zenon DEF Horizon
<1>4. ReapArmed(mb2)
  BY DEF Acted, ReapArmed
<1> QED
  BY <1>2, <1>3, <1>4 DEF BoxInv, Acted

Parts(mb, box, wire, handle) ==
    [box |-> box, retry |-> mb.retry, reap |-> mb.reap, wire |-> wire, handle |-> handle]

LEMMA PartsActed ==
    ASSUME NEW c, NEW mb, MailOK(mb, c), NEW m, NEW B, NEW w, NEW h,
           B \in [DOMAIN B -> Pending(c)], DOMAIN B \subseteq DOMAIN mb.box,
           DOMAIN mb.box \ {m} \subseteq DOMAIN B, w \subseteq Attempts(c),
           h \in [DOMAIN c.messages -> HandleState],
           \A x \in DOMAIN B : B[x].deadline = mb.box[x].deadline /\ Len(B[x].attempts) <= MaxAttempts,
           \A x \in DOMAIN c.messages : h[x] = "idle" <=> mb.handle[x] = "idle"
    PROVE  Acted(mb, Parts(mb, B, w, h), m, c)
<1> DEFINE mb2 == Parts(mb, B, w, h)
<1>1. /\ mb2.box = B /\ mb2.retry = mb.retry /\ mb2.reap = mb.reap /\ mb2.wire = w
      /\ mb2.handle = h
      /\ mb2 = [box |-> mb2.box, retry |-> mb2.retry, reap |-> mb2.reap, wire |-> mb2.wire,
                handle |-> mb2.handle]
  BY Zenon DEF Parts
<1> HIDE DEF mb2
<1>2. MailOK(mb2, c)
  BY <1>1 DEF MailOK
<1>3. Acted(mb, mb2, m, c)
  BY <1>1, <1>2 DEF Acted
<1> QED
  BY <1>3 DEF mb2

\* Mailbox.failed and Mailbox.drop
LEMMA PostponedOK ==
    ASSUME NEW c, NEW b, b \in [DOMAIN b -> Pending(c)], NEW m \in DOMAIN b, NEW u \in Nat,
           NEW B, B = Postponed(b, m, u)
    PROVE  /\ B \in [DOMAIN B -> Pending(c)] /\ DOMAIN B = DOMAIN b
           /\ \A x \in DOMAIN B : B[x].deadline = b[x].deadline /\ B[x].attempts = b[x].attempts
<1> DEFINE no == FALSE
           p == [b[m] EXCEPT !.flying = no, !.next = u]
<1>1. no \in BOOLEAN /\ b[m] \in Pending(c)
  OBVIOUS
<1>2. B = [b EXCEPT ![m] = p]
  BY <1>1, Zenon DEF Postponed, Pending
<1> HIDE DEF no
<1>3. p \in Pending(c) /\ p.deadline = b[m].deadline /\ p.attempts = b[m].attempts
  BY <1>1, Zenon DEF Pending
<1> HIDE DEF p
<1> QED
  BY <1>2, <1>3

Marked(mb, S) ==
    [mb EXCEPT !.box = [m \in DOMAIN mb.box |-> [mb.box[m] EXCEPT !.flying = @ \/ m \in S]]]

\* _on_retry_due: the mailbox before any message is acted on.
LEMMA MarkedOK ==
    ASSUME NEW c, NEW q, NEW t, NEW mb, BoxInv(mb, q, t, c), ReapArmed(mb), NEW S,
           NEW mb2, mb2 = Marked(mb, S)
    PROVE  BoxInv(mb2, q, t, c) /\ ReapArmed(mb2) /\ DOMAIN mb2.box = DOMAIN mb.box
           /\ mb2.handle = mb.handle
<1> DEFINE B == [m \in DOMAIN mb.box |-> [mb.box[m] EXCEPT !.flying = @ \/ m \in S]]
           w == mb.wire
           h == mb.handle
<1>1. /\ MailOK(mb, c) /\ \A m \in DOMAIN mb.box : mb.box[m] \in Pending(c)
      /\ w \subseteq Attempts(c) /\ h \in [DOMAIN c.messages -> HandleState]
  BY DEF BoxInv, MailOK
<1>2. DOMAIN B = DOMAIN mb.box
  OBVIOUS
<1>3. ASSUME NEW m \in DOMAIN mb.box
      PROVE  /\ B[m] \in Pending(c) /\ B[m].deadline = mb.box[m].deadline
             /\ B[m].attempts = mb.box[m].attempts
  <2> DEFINE x == (mb.box[m].flying \/ m \in S)
  <2>1. B[m] = [mb.box[m] EXCEPT !.flying = x] /\ x \in BOOLEAN /\ mb.box[m] \in Pending(c)
    BY <1>1
  <2> HIDE DEF x, B
  <2> QED
    BY <2>1 DEF Pending
<1>4. B = [m \in DOMAIN B |-> B[m]]
  OBVIOUS
<1>5. mb2 = Parts(mb, B, w, h)
  BY <1>1, Zenon DEF MailOK, Parts, Marked
<1> HIDE DEF B
<1>6. B \in [DOMAIN B -> Pending(c)]
  BY <1>2, <1>3, <1>4
<1>7. \A m \in DOMAIN B : B[m].deadline = mb.box[m].deadline /\ Len(B[m].attempts) <= MaxAttempts
  BY <1>2, <1>3 DEF BoxInv
<1>8. \A m \in DOMAIN c.messages : h[m] = "idle" <=> mb.handle[m] = "idle"
  OBVIOUS
<1> HIDE DEF w, h
<1>9. PICK m : TRUE
  OBVIOUS
<1>10. Acted(mb, mb2, m, c)
  <2>1. DOMAIN B \subseteq DOMAIN mb.box /\ DOMAIN mb.box \ {m} \subseteq DOMAIN B
    BY <1>2
  <2>2. Acted(mb, Parts(mb, B, w, h), m, c)
    BY ONLY <1>1, <1>6, <1>7, <1>8, <2>1, PartsActed
  <2> QED
    BY <1>5, <2>2, Zenon
<1>11. BoxInv(mb2, q, t, c) /\ ReapArmed(mb2)
  BY <1>10, ActedInv
<1> QED
  BY <1>2, <1>5, <1>11 DEF Parts, h

\* The mailbox and the links after i of the messages that are due.
ActInv(st, i, order) ==
    /\ st = [con |-> st.con, mail |-> st.mail]
    /\ st.con \in ConState(cast) /\ Moved(con, st.con, now)
    /\ BoxInv(st.mail, Queued(con.inbox), now, cast) /\ ReapArmed(st.mail)
    /\ \A m \in DOMAIN cast.messages : st.mail.handle[m] = "idle" <=> mail.handle[m] = "idle"
    /\ \A j \in 1..Len(order) : j > i => order[j] \in DOMAIN st.mail.box

\* Each link is charged for the messages that went over it alone.
LEMMA ChargedMoved ==
    ASSUME NEW c, NEW t \in Nat, NEW cn \in ConState(c), NEW times \in [1..Len(cn.links) -> Nat],
           NEW cn2, cn2 = [cn EXCEPT !.links =
                             [l \in 1..Len(cn.links) |-> OnFailed(cn.links[l], times[l], t)]]
    PROVE  cn2 \in ConState(c) /\ Moved(cn, cn2, t)
<1> DEFINE K == [l \in 1..Len(cn.links) |-> OnFailed(cn.links[l], times[l], t)]
<1>1. Len(cn.links) \in Nat /\ \A l \in 1..Len(cn.links) : cn.links[l] \in LinkState(c)
  BY ConFields
<1>2. \A l \in 1..Len(cn.links) :
        /\ K[l] \in LinkState(c) /\ K[l].who = cn.links[l].who
        /\ K[l].notified = cn.links[l].notified /\ K[l].sock = cn.links[l].sock
        /\ K[l].opened \in {cn.links[l].opened, t}
  BY <1>1, OnFailedOK
<1>3. K = [l \in 1..Len(cn.links) |-> K[l]]
  OBVIOUS
<1>4. cn2 = [cn EXCEPT !.links = K]
  OBVIOUS
<1> HIDE DEF K
<1>5. K \in Seq(LinkState(c)) /\ Len(K) = Len(cn.links)
  <2>1. K \in [1..Len(cn.links) -> LinkState(c)]
    BY <1>2, <1>3, Zenon
  <2> DEFINE N == Len(cn.links) T == LinkState(c)
  <2>2. K \in [1..N -> T] /\ N \in Nat
    BY <1>1, <2>1
  <2> HIDE DEF N, T
  <2>3. K \in Seq(T) /\ Len(K) = N
    BY ONLY <2>2
  <2> QED
    BY <2>3 DEF N, T
<1>6. cn2 = [links |-> K, workers |-> cn.workers, inbox |-> cn.inbox]
  BY <1>4, ConShape, Zenon
<1>7. cn2.links = K /\ cn2.inbox = cn.inbox
  BY ONLY <1>6
<1>8. cn2 \in ConState(c)
  BY <1>5, <1>6, ConFields, Zenon DEF ConState
<1>9. Moved(cn, cn2, t)
  BY <1>2, <1>5, <1>7, MovedSame, Zenon
<1> QED
  BY <1>8, <1>9

-----------------------------------------------------------------------------
(* The whole                                                               *)

\* At first each linked address has a link, bound to the peer that has it.
LEMMA FirstLinks ==
    ASSUME CastOK(cast), NEW l \in DOMAIN cast.linked
    PROVE  LET k == Established(cast.linked[l]) IN
           /\ k \in LinkState(cast) /\ k.sock /\ ~k.notified /\ k.opened = -1
           /\ \A q \in DOMAIN cast.wanted : cast.linked[l] \in cast.wanted[q] => k.who = q
<1> DEFINE a == cast.linked[l]
           o == Owner(a)
           no == FALSE
           zero == 0
           never == -1
           yes == TRUE
           who0 == Nobody
           hook0 == "postman"
           hook1 == "worker"
           k == Established(a)
           k0 == [address |-> a, inbound |-> no, who |-> who0, sock |-> yes, closed |-> no,
                  notified |-> no, hook |-> hook0, reading |-> yes, failures |-> zero,
                  opened |-> never]
<1>1. /\ cast.linked \in Seq(UNION {cast.wanted[q] : q \in DOMAIN cast.wanted})
      /\ DOMAIN cast.wanted \subseteq cast.others
      /\ \A q \in DOMAIN cast.wanted : cast.wanted[q] \subseteq cast.addresses
      /\ \A q, r \in DOMAIN cast.wanted : q # r => cast.wanted[q] \cap cast.wanted[r] = {}
  BY DEF CastOK
<1>2. a \in UNION {cast.wanted[q] : q \in DOMAIN cast.wanted}
  BY <1>1
<1>3. o \in DOMAIN cast.wanted /\ a \in cast.wanted[o]
  <2>1. \E q \in DOMAIN cast.wanted : a \in cast.wanted[q]
    BY <1>2
  <2> QED
    BY <2>1 DEF Owner
<1>4. a \in cast.addresses /\ o \in cast.others
  BY <1>1, <1>3
<1> HIDE DEF a, o
<1>5. k = [address |-> a, inbound |-> no, who |-> o, sock |-> yes, closed |-> no, notified |-> no,
           hook |-> hook1, reading |-> yes, failures |-> zero, opened |-> never]
  <2>1. k = [k0 EXCEPT !.who = o, !.hook = hook1]
    BY DEF Established, NewLink, o
  <2> HIDE DEF no, zero, never, yes, who0, hook0, hook1
  <2> QED
    BY <2>1, Zenon
<1>6. /\ no \in BOOLEAN /\ yes \in BOOLEAN /\ zero \in Nat /\ never \in Int
      /\ hook1 \in {"postman", "worker"} /\ yes /\ ~no /\ never = -1
  OBVIOUS
<1> HIDE DEF no, zero, never, yes, hook1, k
<1>7. k \in LinkState(cast) /\ k.sock = yes /\ k.notified = no /\ k.opened = never /\ k.who = o
  BY <1>4, <1>5, <1>6 DEF LinkState
<1>8. \A q \in DOMAIN cast.wanted : a \in cast.wanted[q] => o = q
  BY <1>1, <1>3
<1>9. /\ k \in LinkState(cast) /\ k.sock /\ ~k.notified /\ k.opened = -1
      /\ \A q \in DOMAIN cast.wanted : a \in cast.wanted[q] => k.who = q
  BY <1>6, <1>7, <1>8
<1> QED
  BY <1>9 DEF k, a
=============================================================================
