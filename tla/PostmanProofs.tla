---------------------------- MODULE PostmanProofs ----------------------------
(***************************************************************************)
(* Proofs about the postman: what is in the mailbox has a timer armed for  *)
(* it, a link that a peer lists is open or its closing is still to be      *)
(* handled, and the follower polls the peers the postman has.              *)
(***************************************************************************)
EXTENDS PostmanLemmas, FiniteSetTheorems, TLAPS

-----------------------------------------------------------------------------
(* Numbers                                                                 *)

\* A set of naturals that is not empty has a least element.
LEMMA LeastOfNaturals ==
    ASSUME NEW S \in SUBSET Nat, S # {}
    PROVE  \E m \in S : \A k \in S : m <= k
<1>1. PICK m \in S : \A k \in S : <<k, m>> \notin OpToRel(<, Nat)
  BY NatLessThanWellFounded, WFMin, Zenon
<1>2. \A k \in S : ~(k < m)
  BY <1>1, Zenon DEF OpToRel
<1> QED  BY <1>2

\* Min returns the least element of a set of naturals.
LEMMA MinOfNaturals ==
    ASSUME NEW S \in SUBSET Nat, S # {}
    PROVE  Min(S) \in S /\ \A k \in S : Min(S) <= k
BY LeastOfNaturals, Zenon DEF Min

\* Max returns the greatest element of a set of naturals that has a bound.
LEMMA MaxOfBounded ==
    ASSUME NEW n \in Nat, NEW S \in SUBSET (0..n), S # {}
    PROVE  Max(S) \in S /\ \A k \in S : k <= Max(S)
<1> DEFINE T == {n - x : x \in S}
<1>1. \A x \in S : n - x \in Nat
  OBVIOUS
<1> HIDE DEF T
<1>2. T \in SUBSET Nat /\ T # {}
  BY <1>1, Zenon DEF T
<1>3. PICK t \in T : \A k \in T : t <= k
  BY <1>2, LeastOfNaturals
<1>4. PICK m \in S : t = n - m
  BY DEF T
<1>5. \A k \in S : m >= k
  BY <1>3, <1>4 DEF T
<1> QED  BY <1>5, Zenon DEF Max

-----------------------------------------------------------------------------
(* Loops over links and messages                                           *)

\* Peer.reconfigure and disconnect: the links are closed one after another.
LEMMA CloseAllSteps ==
    ASSUME NEW cn, NEW ls, Len(cn.links) \in Nat
    PROVE  \E f : /\ CloseAll(cn, ls) = f[Len(cn.links)] /\ f[0] = cn
                  /\ \A n \in 1..Len(cn.links) :
                       f[n] = IF n \in ls THEN Close(f[n - 1], n) ELSE f[n - 1]
<1> DEFINE Next1(x, n) == IF n \in ls THEN Close(x, n) ELSE x
           Is(k, f) == f = [n \in 0..k |-> IF n = 0 THEN cn ELSE Next1(f[n - 1], n)]
           Bad == {k \in Nat : ~\E f : Is(k, f)}
<1> HIDE DEF Next1
<1>1. Bad = {}
  <2> SUFFICES ASSUME Bad # {} PROVE FALSE
    OBVIOUS
  <2>1. PICK k \in Bad : \A j \in Bad : k <= j
    BY LeastOfNaturals, Zenon
  <2>2. k # 0
    <3>1. Is(0, [n \in 0..0 |-> cn])
      OBVIOUS
    <3> QED
      BY <3>1, Zenon
  <2>3. k - 1 \in Nat /\ k - 1 \notin Bad
    <3>1. k \in Nat
      OBVIOUS
    <3> HIDE DEF Bad
    <3> QED
      BY <2>1, <2>2, <3>1
  <2>4. PICK g : Is(k - 1, g)
    BY <2>3, Zenon
  <2> DEFINE h == [n \in 0..k |-> IF n = k THEN Next1(g[k - 1], k) ELSE g[n]]
  <2>5. Is(k, h)
    BY <2>2, <2>3, <2>4
  <2> QED
    BY <2>5, Zenon
<1> DEFINE P(f) == Is(Len(cn.links), f)
           F == CHOOSE f : P(f)
<1>2. \E f : P(f)
  BY <1>1
<1>3. CloseAll(cn, ls) = F[Len(cn.links)]
  BY DEF CloseAll, Next1
<1> HIDE DEF P
<1>4. P(F)
  BY <1>2, Zenon
<1> HIDE DEF F
<1>5. ASSUME NEW n \in 0..Len(cn.links)
      PROVE  F[n] = IF n = 0 THEN cn ELSE Next1(F[n - 1], n)
  BY <1>4, Zenon DEF P
<1>6. F[0] = cn /\ \A n \in 1..Len(cn.links) : F[n] = Next1(F[n - 1], n)
  BY <1>5
<1> QED
  BY <1>3, <1>6 DEF Next1

\* _on_keepalive: the links are sent to one after another.
LEMMA SendAllSteps ==
    ASSUME NEW cn, NEW ls, NEW t, Len(cn.links) \in Nat
    PROVE  \E f : /\ SendAll(cn, ls, t) = f[Len(cn.links)] /\ f[0] = cn
                  /\ \A n \in 1..Len(cn.links) :
                       f[n] = IF n \in ls THEN Send(f[n - 1], n, t) ELSE f[n - 1]
<1> DEFINE Next1(x, n) == IF n \in ls THEN Send(x, n, t) ELSE x
           Is(k, f) == f = [n \in 0..k |-> IF n = 0 THEN cn ELSE Next1(f[n - 1], n)]
           Bad == {k \in Nat : ~\E f : Is(k, f)}
<1> HIDE DEF Next1
<1>1. Bad = {}
  <2> SUFFICES ASSUME Bad # {} PROVE FALSE
    OBVIOUS
  <2>1. PICK k \in Bad : \A j \in Bad : k <= j
    BY LeastOfNaturals, Zenon
  <2>2. k # 0
    <3>1. Is(0, [n \in 0..0 |-> cn])
      OBVIOUS
    <3> QED
      BY <3>1, Zenon
  <2>3. k - 1 \in Nat /\ k - 1 \notin Bad
    <3>1. k \in Nat
      OBVIOUS
    <3> HIDE DEF Bad
    <3> QED
      BY <2>1, <2>2, <3>1
  <2>4. PICK g : Is(k - 1, g)
    BY <2>3, Zenon
  <2> DEFINE h == [n \in 0..k |-> IF n = k THEN Next1(g[k - 1], k) ELSE g[n]]
  <2>5. Is(k, h)
    BY <2>2, <2>3, <2>4
  <2> QED
    BY <2>5, Zenon
<1> DEFINE P(f) == Is(Len(cn.links), f)
           F == CHOOSE f : P(f)
<1>2. \E f : P(f)
  BY <1>1
<1>3. SendAll(cn, ls, t) = F[Len(cn.links)]
  BY Zenon DEF SendAll, Next1
<1> HIDE DEF P
<1>4. P(F)
  BY <1>2, Zenon
<1> HIDE DEF F
<1>5. ASSUME NEW n \in 0..Len(cn.links)
      PROVE  F[n] = IF n = 0 THEN cn ELSE Next1(F[n - 1], n)
  BY <1>4, Zenon DEF P
<1>6. F[0] = cn /\ \A n \in 1..Len(cn.links) : F[n] = Next1(F[n - 1], n)
  BY <1>5
<1> QED
  BY <1>3, <1>6, Zenon DEF Next1

\* _on_retry_due: the messages that are due are acted on one after another.
LEMMA ActAllSteps ==
    ASSUME NEW st, NEW order, NEW rank, Len(order) \in Nat
    PROVE  \E f : /\ ActAll(st, order, rank) = f[Len(order)] /\ f[0] = st
                  /\ \A n \in 1..Len(order) :
                       f[n] = Act(f[n - 1], order[n], rank)
<1> DEFINE Next1(x, n) == Act(x, order[n], rank)
           Is(k, f) == f = [n \in 0..k |-> IF n = 0 THEN st ELSE Next1(f[n - 1], n)]
           Bad == {k \in Nat : ~\E f : Is(k, f)}
<1> HIDE DEF Next1
<1>1. Bad = {}
  <2> SUFFICES ASSUME Bad # {} PROVE FALSE
    OBVIOUS
  <2>1. PICK k \in Bad : \A j \in Bad : k <= j
    BY LeastOfNaturals, Zenon
  <2>2. k # 0
    <3>1. Is(0, [n \in 0..0 |-> st])
      OBVIOUS
    <3> QED
      BY <3>1, Zenon
  <2>3. k - 1 \in Nat /\ k - 1 \notin Bad
    <3>1. k \in Nat
      OBVIOUS
    <3> HIDE DEF Bad
    <3> QED
      BY <2>1, <2>2, <3>1
  <2>4. PICK g : Is(k - 1, g)
    BY <2>3
  <2> DEFINE h == [n \in 0..k |-> IF n = k THEN Next1(g[k - 1], k) ELSE g[n]]
  <2>5. Is(k, h)
    BY <2>2, <2>3, <2>4
  <2> QED
    BY <2>5, Zenon
<1> DEFINE P(f) == Is(Len(order), f)
           F == CHOOSE f : P(f)
<1>2. \E f : P(f)
  BY <1>1
<1>3. ActAll(st, order, rank) = F[Len(order)]
  BY DEF ActAll, Next1
<1> HIDE DEF P
<1>4. P(F)
  BY <1>2, Zenon
<1> HIDE DEF F
<1>5. ASSUME NEW n \in 0..Len(order)
      PROVE  F[n] = IF n = 0 THEN st ELSE Next1(F[n - 1], n)
  BY <1>4, Zenon DEF P
<1>6. F[0] = st /\ \A n \in 1..Len(order) : F[n] = Next1(F[n - 1], n)
  BY <1>5
<1> QED
  BY <1>3, <1>6 DEF Next1

-----------------------------------------------------------------------------
(* Links                                                                   *)

\* Peer.reconfigure and Peer.disconnect
LEMMA CloseAllMoved ==
    ASSUME NEW c, NEW t \in Nat, NEW cn \in ConState(c), NEW ls
    PROVE  CloseAll(cn, ls) \in ConState(c) /\ Moved(cn, CloseAll(cn, ls), t)
<1> DEFINE N == Len(cn.links)
<1>1. N \in Nat
  BY ConFields
<1>2. PICK f : /\ CloseAll(cn, ls) = f[N] /\ f[0] = cn
               /\ \A n \in 1..N : f[n] = IF n \in ls THEN Close(f[n - 1], n) ELSE f[n - 1]
  BY <1>1, CloseAllSteps
<1> DEFINE P(n) == f[n] \in ConState(c) /\ Moved(cn, f[n], t)
           Bad == {n \in 0..N : ~P(n)}
<1>3. Bad = {}
  <2> SUFFICES ASSUME Bad # {} PROVE FALSE
    OBVIOUS
  <2>1. Bad \in SUBSET Nat
    BY <1>1
  <2>2. PICK k \in Bad : \A j \in Bad : k <= j
    BY <2>1, LeastOfNaturals, Zenon
  <2>3. P(0)
    BY <1>2, MovedNone
  <2>4. k \in 1..N /\ k - 1 \in 0..N /\ ~P(k)
    BY <1>1, <2>3
  <2>5. k - 1 \notin Bad
    <3> HIDE DEF Bad
    <3> QED
      BY <2>2, <2>4
  <2>6. P(k - 1)
    BY <2>4, <2>5
  <2>7. k \in 1..Len(f[k - 1].links)
    BY <2>4, <2>6, Zenon DEF Moved
  <2> DEFINE x == f[k - 1]
  <2>8. x \in ConState(c) /\ k \in 1..Len(x.links)
    BY <2>6, <2>7
  <2> HIDE DEF x
  <2>9. Close(x, k) \in ConState(c) /\ Moved(x, Close(x, k), t)
    BY <2>8, CloseMoved, Zenon
  <2>10. f[k] = x \/ f[k] = Close(x, k)
    BY <1>2, <2>4 DEF x
  <2>11. Moved(cn, x, t)
    BY <2>6 DEF x
  <2>12. P(k)
    BY <2>8, <2>9, <2>10, <2>11, MovedTwice, Zenon
  <2> QED
    BY <2>4, <2>12
<1>4. P(N)
  BY <1>1, <1>3
<1> QED
  BY <1>2, <1>4

\* The PINGs of _on_keepalive.
LEMMA SendAllMoved ==
    ASSUME NEW c, NEW t \in Nat, NEW cn \in ConState(c), NEW ls
    PROVE  SendAll(cn, ls, t) \in ConState(c) /\ Moved(cn, SendAll(cn, ls, t), t)
<1> DEFINE N == Len(cn.links)
<1>1. N \in Nat
  BY ConFields
<1>2. PICK f : /\ SendAll(cn, ls, t) = f[N] /\ f[0] = cn
               /\ \A n \in 1..N : f[n] = IF n \in ls THEN Send(f[n - 1], n, t) ELSE f[n - 1]
  BY <1>1, SendAllSteps
<1> DEFINE P(n) == f[n] \in ConState(c) /\ Moved(cn, f[n], t)
           Bad == {n \in 0..N : ~P(n)}
<1>3. Bad = {}
  <2> SUFFICES ASSUME Bad # {} PROVE FALSE
    OBVIOUS
  <2>1. Bad \in SUBSET Nat
    BY <1>1
  <2>2. PICK k \in Bad : \A j \in Bad : k <= j
    BY <2>1, LeastOfNaturals, Zenon
  <2>3. P(0)
    BY <1>2, MovedNone, Zenon
  <2>4. k \in 1..N /\ k - 1 \in 0..N /\ ~P(k)
    BY <1>1, <2>3
  <2>5. k - 1 \notin Bad
    <3> HIDE DEF Bad
    <3> QED
      BY <2>2, <2>4
  <2>6. P(k - 1)
    BY <2>4, <2>5
  <2>7. k \in 1..Len(f[k - 1].links)
    BY <2>4, <2>6, Zenon DEF Moved
  <2> DEFINE x == f[k - 1]
  <2>8. x \in ConState(c) /\ k \in 1..Len(x.links)
    BY <2>6, <2>7
  <2> HIDE DEF x
  <2>9. Send(x, k, t) \in ConState(c) /\ Moved(x, Send(x, k, t), t)
    BY <2>8, SendMoved
  <2>10. f[k] = x \/ f[k] = Send(x, k, t)
    BY <1>2, <2>4 DEF x
  <2>11. Moved(cn, x, t)
    BY <2>6 DEF x
  <2>12. P(k)
    BY <2>8, <2>9, <2>10, <2>11, MovedTwice, Zenon
  <2> QED
    BY <2>4, <2>12
<1>4. P(N)
  BY <1>1, <1>3
<1> QED
  BY <1>2, <1>4

-----------------------------------------------------------------------------
(* The loop: links and peers                                               *)

\* _on_sync_peers
LEMMA OnSyncPeersInv ==
    ASSUME PostmanInv, OnSyncPeers
    PROVE  PostmanInv'
<1> DEFINE e == Head(con.inbox)
           r == Rest
           gone == {q \in DOMAIN known.peers : q \notin DOMAIN e.wanted /\ q \notin e.authorized}
           stay == DOMAIN known.peers \ gone
           peers == [q \in stay \cup DOMAIN e.wanted |->
                       [targets |-> IF q \in DOMAIN e.wanted THEN e.wanted[q]
                                    ELSE known.peers[q].targets,
                        links |-> IF q \in stay THEN known.peers[q].links ELSE {}]]
           polled == Notified(known.polled, gone, DOMAIN e.wanted \ stay)
           strays == known.strays \ gone
           shut == (UNION {known.peers[q].links : q \in gone}) \cup
                     {l \in UNION {known.peers[q].links : q \in stay \cap DOMAIN e.wanted} :
                        ~con.links[l].inbound
                        /\ con.links[l].address \notin e.wanted[con.links[l].who]}
<1>1. /\ con \in ConState(cast) /\ ConInv(con, now, cast) /\ KnownInv(con, known, cast)
      /\ SendsInv(con.inbox, mail) /\ CastOK(cast) /\ now \in Nat /\ KnownOK(known, cast)
  BY CastIsOK, Zenon DEF PostmanInv, KnownInv
<1>2. /\ con.inbox # <<>> /\ e.is = "sync" /\ mail' = mail /\ now' = now /\ cast' = cast
  BY DEF OnSyncPeers, Handles
<1>3. r = [con EXCEPT !.inbox = Tail(@)]
  BY DEF Rest
<1>4. /\ known' = [known EXCEPT !.peers = peers, !.authorized = e.authorized,
                                !.polled = polled, !.strays = strays]
      /\ con' = DialPeers(CloseAll(r, shut), known', DOMAIN e.wanted)
  <2> DEFINE G(x) == {q \in DOMAIN known.peers : q \notin DOMAIN x.wanted /\ q \notin x.authorized}
             K(x, s) == [q \in s \cup DOMAIN x.wanted |->
                          [targets |-> IF q \in DOMAIN x.wanted THEN x.wanted[q]
                                       ELSE known.peers[q].targets,
                           links |-> IF q \in s THEN known.peers[q].links ELSE {}]]
             S(x, g, s) == (UNION {known.peers[q].links : q \in g}) \cup
                            {l \in UNION {known.peers[q].links : q \in s \cap DOMAIN x.wanted} :
                               ~con.links[l].inbound
                               /\ con.links[l].address \notin x.wanted[con.links[l].who]}
             B(x, g, s, k, h) ==
               /\ known' = [known EXCEPT !.peers = k, !.authorized = x.authorized,
                              !.polled = Notified(@, g, DOMAIN x.wanted \ s), !.strays = @ \ g]
               /\ con' = DialPeers(CloseAll(Rest, h), known', DOMAIN x.wanted)
  <2>1. \E x \in {Head(con.inbox)} : \E g \in {G(x)} : \E s \in {DOMAIN known.peers \ g} :
        \E k \in {K(x, s)} : \E h \in {S(x, g, s)} : B(x, g, s, k, h)
    BY Zenon DEF OnSyncPeers
  <2> HIDE DEF G, K, S, B, e
  <2>2. \E x \in {e} : \E g \in {G(x)} : \E s \in {DOMAIN known.peers \ g} :
        \E k \in {K(x, s)} : \E h \in {S(x, g, s)} : B(x, g, s, k, h)
    BY <2>1 DEF e
  <2>3. \E g \in {G(e)} : \E s \in {DOMAIN known.peers \ g} :
        \E k \in {K(e, s)} : \E h \in {S(e, g, s)} : B(e, g, s, k, h)
    BY <2>2, Zenon
  <2>4. \E s \in {DOMAIN known.peers \ G(e)} :
        \E k \in {K(e, s)} : \E h \in {S(e, G(e), s)} : B(e, G(e), s, k, h)
    BY <2>3, Zenon
  <2>5. G(e) = gone /\ DOMAIN known.peers \ G(e) = stay
    BY DEF G
  <2> HIDE DEF gone, stay
  <2>6. \E k \in {K(e, stay)} : \E h \in {S(e, gone, stay)} : B(e, gone, stay, k, h)
    BY <2>4, <2>5, Zenon
  <2>7. B(e, gone, stay, K(e, stay), S(e, gone, stay))
    BY <2>6, Zenon
  <2>8. K(e, stay) = peers /\ S(e, gone, stay) = shut
    BY DEF K, S
  <2> HIDE DEF peers, shut
  <2>9. B(e, gone, stay, peers, shut)
    BY <2>7, <2>8
  <2> QED
    BY <2>9 DEF B
<1> HIDE DEF r
<1>5. /\ r \in ConState(cast) /\ r.links = con.links /\ ConInv(r, now, cast) /\ e \in Event(cast)
  BY <1>1, <1>2, <1>3, PopHead, PopConInv
<1>6. SendsInv(r.inbox, mail) /\ Queued(r.inbox) = Queued(con.inbox)
  BY <1>1, <1>2, <1>3, PopSends, ZenonT(40)
<1> HIDE DEF e
<1>7. /\ DOMAIN e.wanted \subseteq cast.others /\ e.authorized \subseteq cast.others
      /\ \A q \in DOMAIN e.wanted : e.wanted[q] \subseteq cast.addresses
  <2>1. e \in Syncs(cast)
    BY <1>2, <1>5 DEF Event, Sends, SendOf, Syncs, Changes, Frames
  <2>2. PICK g \in cast.configs : e = [is |-> "sync", wanted |-> g.wanted, authorized |-> g.authorized]
    BY <2>1 DEF Syncs
  <2> QED
    BY <1>1, <2>2 DEF CastOK
<1>8. /\ peers \in [DOMAIN peers -> PeerState(cast)] /\ DOMAIN peers = stay \cup DOMAIN e.wanted
      /\ DOMAIN peers \subseteq cast.others
      /\ \A q \in DOMAIN peers : \A j \in peers[q].links :
           q \in DOMAIN known.peers /\ j \in known.peers[q].links
  <2>1. \A q \in DOMAIN known.peers : known.peers[q] \in PeerState(cast) /\ q \in cast.others
    BY <1>1 DEF KnownOK
  <2>2. \A q \in stay \cup DOMAIN e.wanted : peers[q] \in PeerState(cast)
    BY <1>7, <2>1, Zenon DEF PeerState
  <2>3. DOMAIN peers = stay \cup DOMAIN e.wanted
    OBVIOUS
  <2>4. \A q \in DOMAIN peers : \A j \in peers[q].links :
           q \in DOMAIN known.peers /\ j \in known.peers[q].links
    OBVIOUS
  <2> QED
    BY <1>7, <2>1, <2>2, <2>3, <2>4, Zenon
<1>9. /\ polled \subseteq DOMAIN peers
      /\ DOMAIN peers \ polled \subseteq strays
  <2> HIDE DEF peers
  <2>1. known.polled \subseteq DOMAIN known.peers /\ DOMAIN known.peers \ known.polled \subseteq known.strays
    BY <1>1 DEF KnownInv
  <2> QED
    BY <1>8, <2>1 DEF Notified
<1> HIDE DEF peers, polled, strays, gone, stay, shut
<1>10. known' = [peers |-> peers, authorized |-> e.authorized, unbound |-> known.unbound,
                 pings |-> known.pings, polled |-> polled, strays |-> strays, late |-> known.late]
  BY <1>1, <1>4, Zenon DEF KnownOK
<1>11. KnownOK(known', cast)
  BY <1>7, <1>8, <1>10 DEF KnownOK
<1>12. KnownInv(con, known', cast)
  <2>1. ListedInv(con, known')
    BY <1>1, <1>8, <1>10 DEF KnownInv, ListedInv
  <2> QED
    BY <1>1, <1>9, <1>10, <1>11, <2>1, Zenon DEF KnownInv
<1>13. KnownInv(r, known', cast)
  <2>1. \A j : Head(con.inbox) # Down(j)
    BY <1>2 DEF Down, e
  <2> QED
    BY <1>1, <1>2, <1>3, <1>12, <2>1, PopKnownInv, ZenonT(40)
<1> DEFINE x == CloseAll(r, shut)
<1>15. x \in ConState(cast) /\ Moved(r, x, now)
  BY <1>1, <1>5, CloseAllMoved
<1> HIDE DEF x
<1>16. ConInv(x, now, cast) /\ KnownInv(x, known', cast)
  BY <1>1, <1>5, <1>13, <1>15, MovedConInv, MovedKnownInv, Zenon
<1>17. SendsInv(x.inbox, mail) /\ Queued(x.inbox) = Queued(con.inbox)
  BY ONLY <1>5, <1>6, <1>15, MovedSends
<1>18. con' = DialPeers(x, known', DOMAIN e.wanted)
  BY <1>4 DEF x
<1> QED
  BY <1>2, <1>15, <1>16, <1>17, <1>18, DialledInv, Zenon

LEMMA OnKeepAliveInv ==
    ASSUME PostmanInv, NEW idle \in SUBSET Pingable, OnKeepAlive(idle)
    PROVE  PostmanInv'
<1> DEFINE g == known.pings \cup {l \in idle : con.links[l].sock}
<1>1. /\ con \in ConState(cast) /\ ConInv(con, now, cast) /\ KnownInv(con, known, cast)
      /\ SendsInv(con.inbox, mail) /\ now \in Nat
  BY CastIsOK DEF PostmanInv
<1>2. idle \subseteq 1..Len(con.links)
  BY <1>1 DEF Pingable, KnownInv, ListedInv
<1>3. /\ con' = SendAll(con, idle, now) /\ known' = [known EXCEPT !.pings = g]
      /\ mail' = mail /\ now' = now /\ cast' = cast
  BY DEF OnKeepAlive
<1>4. con' \in ConState(cast) /\ Moved(con, con', now)
  BY <1>1, <1>3, SendAllMoved
<1>5. ConInv(con', now, cast) /\ KnownInv(con', known, cast)
  BY <1>1, <1>4, MovedConInv, MovedKnownInv
<1>6. SendsInv(con'.inbox, mail) /\ Queued(con'.inbox) = Queued(con.inbox)
  BY ONLY <1>1, <1>4, MovedSends, ZenonT(40)
<1>7. known.unbound \subseteq 1..Len(con'.links) /\ g \subseteq 1..Len(con'.links)
      /\ known' = [known EXCEPT !.unbound = known.unbound, !.pings = g, !.late = known.late]
  <2>1. Len(con'.links) = Len(con.links)
    BY <1>4 DEF Moved
  <2> QED
    BY <1>1, <1>2, <1>3, <2>1, Zenon DEF KnownInv, KnownOK
<1> HIDE DEF g
<1>8. KnownInv(con', known', cast)
  BY <1>5, <1>7, KnownSides, ZenonT(40)
<1> QED
  BY <1>3, <1>5, <1>6, <1>8, QuietInv

-----------------------------------------------------------------------------
(* The loop: frames                                                        *)

\* _credit: the link that has the address of the attempt is one of the peer's.
LEMMA CreditedMoved ==
    ASSUME NEW c, NEW t, NEW cn \in ConState(c), NEW kn, KnownInv(cn, kn, c), NEW f
    PROVE  Credited(cn, kn, f) \in ConState(c) /\ Moved(cn, Credited(cn, kn, f), t)
<1> DEFINE ls == LinkAt(cn, kn, f.from, mail.box[f.re.m].attempts[f.re.try])
           l == Min(ls)
           k == OnReply(cn.links[l])
           a == [cn EXCEPT !.links[l] = k]
<1>1. Credited(cn, kn, f) = IF ls = {} THEN cn ELSE a
  BY DEF Credited
<1>2. ls \subseteq 1..Len(cn.links)
  BY DEF LinkAt, KnownInv, ListedInv
<1> HIDE DEF ls
<1>3. CASE ls = {}
  BY <1>1, <1>3, MovedNone
<1>4. CASE ls # {}
  <2>1. ls \in SUBSET Nat
    BY <1>2
  <2>2. l \in 1..Len(cn.links)
    BY <1>2, <1>4, <2>1, MinOfNaturals, Zenon
  <2> HIDE DEF l
  <2>3. cn.links[l] \in LinkState(c)
    BY <2>2, ConFields
  <2>4. /\ k \in LinkState(c) /\ k.who = cn.links[l].who /\ k.notified = cn.links[l].notified
        /\ k.sock = cn.links[l].sock /\ k.opened \in {cn.links[l].opened, -1, t}
        /\ a = [cn EXCEPT !.links[l] = k]
    BY <2>3, OnReplyOK
  <2> HIDE DEF k, a
  <2>5. a \in ConState(c) /\ Moved(cn, a, t)
    BY <2>2, <2>4, BreakerMoved, Zenon
  <2> QED
    BY <1>1, <1>4, <2>5
<1> QED
  BY <1>3, <1>4

\* _on_frame_in
LEMMA OnFrameInInv ==
    ASSUME PostmanInv, OnFrameIn
    PROVE  PostmanInv'
<1> DEFINE f == Head(con.inbox)
           r == Rest
           Q == Queued(con.inbox)
<1>1. /\ con \in ConState(cast) /\ ConInv(con, now, cast) /\ KnownInv(con, known, cast)
      /\ SendsInv(con.inbox, mail) /\ CastOK(cast) /\ now \in Nat /\ MailInv(mail, Q, now, cast)
  BY CastIsOK DEF PostmanInv
<1>2. /\ con.inbox # <<>> /\ f.is = "frame" /\ AboutLink(f) /\ now' = now /\ cast' = cast
  BY DEF OnFrameIn, Handles, AboutLink
<1>3. r = [con EXCEPT !.inbox = Tail(@)]
  BY DEF Rest
<1>4. \/ f.kind = "bad" /\ con' = Close(r, f.link) /\ mail' = mail /\ known' = known
      \/ /\ f.kind = "reply"
         /\ Accepted(Credited(r, known, f), known, [mail EXCEPT !.box = Without(@, {f.re.m})], f)
      \/ /\ f.kind = "pong" /\ f.re \in known.pings
         /\ con' = [r EXCEPT !.links[f.re] = OnReply(@)]
         /\ known' = [known EXCEPT !.pings = @ \ {f.re}] /\ mail' = mail
      \/ f.kind # "pong" /\ Accepted(r, known, mail, f)
      \/ con' = r /\ mail' = mail /\ known' = known
  BY DEF OnFrameIn
<1> HIDE DEF r
<1>5. /\ r \in ConState(cast) /\ r.links = con.links /\ ConInv(r, now, cast) /\ f \in Event(cast)
  BY <1>1, <1>2, <1>3, PopHead, PopConInv, Zenon
<1>6. KnownInv(r, known, cast)
  <2>1. \A j : f # Down(j)
    BY <1>2 DEF Down
  <2> QED
    BY <1>1, <1>2, <1>3, <2>1, PopKnownInv
<1>7. SendsInv(r.inbox, mail) /\ Queued(r.inbox) = Q
  BY <1>1, <1>2, <1>3, PopSends, Zenon
<1>8. /\ f.link \in 1..Len(r.links)
      /\ \A i \in 1..Len(r.inbox) : r.inbox[i].is = "up" => r.inbox[i].link # f.link
  BY <1>1, <1>2, <1>3, <1>5, PopAbout, ZenonT(40)
<1> HIDE DEF f
<1>9. f.kind # "pong" => f.from \in cast.others
  BY <1>2, <1>5 DEF Event, Sends, SendOf, Syncs, Changes, Frames
<1> HIDE DEF Q
<1>10. CASE f.kind = "bad" /\ con' = Close(r, f.link) /\ mail' = mail /\ known' = known
  <2>1. con' \in ConState(cast) /\ Moved(r, con', now)
    BY <1>5, <1>8, <1>10, CloseMoved, Zenon
  <2>2. ConInv(con', now, cast) /\ KnownInv(con', known', cast)
    BY <1>1, <1>5, <1>6, <1>10, <2>1, MovedConInv, MovedKnownInv, Zenon
  <2>3. SendsInv(con'.inbox, mail) /\ Queued(con'.inbox) = Queued(r.inbox)
    BY ONLY <1>5, <1>7, <2>1, MovedSends
  <2> QED
    BY <1>2, <1>7, <1>10, <2>2, <2>3, QuietInv, ZenonT(40) DEF Q
<1>11. CASE f.kind = "pong" /\ f.re \in known.pings
            /\ con' = [r EXCEPT !.links[f.re] = OnReply(@)]
            /\ known' = [known EXCEPT !.pings = @ \ {f.re}] /\ mail' = mail
  <2> DEFINE l == f.re
             k == OnReply(r.links[l])
             g == known.pings \ {l}
  <2>1. l \in 1..Len(r.links) /\ g \subseteq known.pings /\ known' = [known EXCEPT !.pings = g]
        /\ con' = [r EXCEPT !.links[l] = k]
    BY <1>6, <1>11 DEF KnownInv
  <2> HIDE DEF l
  <2>2. r.links[l] \in LinkState(cast)
    BY <1>5, <2>1, ConFields
  <2>3. /\ k \in LinkState(cast) /\ k.who = r.links[l].who /\ k.notified = r.links[l].notified
        /\ k.sock = r.links[l].sock /\ k.opened \in {r.links[l].opened, -1, now}
    BY <2>2, OnReplyOK
  <2> HIDE DEF k, g
  <2>4. con' \in ConState(cast) /\ Moved(r, con', now)
    BY <1>5, <2>1, <2>3, BreakerMoved, Zenon
  <2>5. ConInv(con', now, cast) /\ KnownInv(con', known, cast)
    BY <1>1, <1>5, <1>6, <2>4, MovedConInv, MovedKnownInv, Zenon
  <2>6. SendsInv(con'.inbox, mail) /\ Queued(con'.inbox) = Queued(r.inbox)
    BY ONLY <1>5, <1>7, <2>4, MovedSends
  <2>7. known.unbound \subseteq 1..Len(con'.links) /\ g \subseteq 1..Len(con'.links)
        /\ known' = [known EXCEPT !.unbound = known.unbound, !.pings = g, !.late = known.late]
    BY <2>1, <2>5, Zenon DEF KnownInv, KnownOK
  <2>8. KnownInv(con', known', cast)
    BY <2>5, <2>7, KnownSides, ZenonT(40)
  <2> QED
    BY <1>2, <1>7, <1>11, <2>5, <2>6, <2>8, QuietInv, Zenon DEF Q
<1>12. CASE f.kind = "reply"
            /\ Accepted(Credited(r, known, f), known, [mail EXCEPT !.box = Without(@, {f.re.m})], f)
  <2> DEFINE cn == Credited(r, known, f)
             S == {f.re.m}
             h == mail.handle
             mb == [mail EXCEPT !.box = Without(@, {f.re.m})]
  <2>1. cn \in ConState(cast) /\ Moved(r, cn, now)
    BY <1>5, <1>6, CreditedMoved, Zenon
  <2>2. h \in [DOMAIN cast.messages -> HandleState]
        /\ mb = [mail EXCEPT !.box = Without(mail.box, S), !.handle = h] /\ mb.handle = h
    BY <1>1, Zenon DEF MailInv, MailOK
  <2>3. Accepted(cn, known, mb, f)
    BY <1>12
  <2> HIDE DEF cn, S, mb
  <2>4. ConInv(cn, now, cast) /\ KnownInv(cn, known, cast)
    BY <1>1, <1>5, <1>6, <2>1, MovedConInv, MovedKnownInv, ZenonT(40)
  <2>5. SendsInv(cn.inbox, mail) /\ Queued(cn.inbox) = Queued(con.inbox)
    BY ONLY <1>5, <1>7, <2>1, MovedSends DEF Q
  <2>6. MailInv(mb, Queued(con.inbox), now, cast)
    <3>1. \A m \in DOMAIN cast.messages : h[m] = "idle" <=> mail.handle[m] = "idle"
      OBVIOUS
    <3> HIDE DEF h
    <3> QED
      BY <1>1, <2>2, <3>1, BoxShrinks, Zenon DEF Q
  <2>7. /\ f.link \in 1..Len(cn.links)
        /\ \A i \in 1..Len(cn.inbox) : cn.inbox[i].is = "up" => cn.inbox[i].link # f.link
    <3>1. Len(r.inbox) \in Nat /\ Len(cn.inbox) \in Nat
      BY <1>5, <2>1, ConFields
    <3> QED
      BY <1>8, <2>1, <3>1 DEF Moved
  <2> QED
    BY <1>2, <1>9, <1>12, <2>2, <2>3, <2>4, <2>5, <2>6, <2>7, AcceptedInv, Zenon
<1>13. CASE f.kind # "pong" /\ Accepted(r, known, mail, f)
  <2>1. MailInv(mail, Queued(con.inbox), now, cast) /\ Queued(r.inbox) = Queued(con.inbox)
    BY <1>1, <1>7, Zenon DEF Q
  <2> QED
    BY <1>2, <1>5, <1>6, <1>7, <1>8, <1>9, <1>13, <2>1, AcceptedInv, Zenon
<1>14. CASE con' = r /\ mail' = mail /\ known' = known
  BY <1>2, <1>5, <1>6, <1>7, <1>14, QuietInv, Zenon DEF Q
<1> QED
  BY <1>4, <1>10, <1>11, <1>12, <1>13, <1>14, Zenon

-----------------------------------------------------------------------------
(* The loop: the mailbox and its timers                                    *)

\* The base times 3 ** n: what the recursive definition computes is a natural
\* number no less than the base.
LEMMA TripledIsNat ==
    \A n \in 0..MaxAttempts : Tripled[n] \in Nat /\ BackoffBase <= Tripled[n]
<1> DEFINE Is(k, f) == f = [n \in 0..k |-> IF n = 0 THEN BackoffBase ELSE 3 * f[n - 1]]
           Bad == {k \in Nat : ~\E f : Is(k, f)}
<1>1. Bad = {}
  <2> SUFFICES ASSUME Bad # {} PROVE FALSE
    OBVIOUS
  <2>1. PICK k \in Bad : \A j \in Bad : k <= j
    BY LeastOfNaturals, Zenon
  <2>2. k # 0
    <3>1. Is(0, [n \in 0..0 |-> BackoffBase])
      OBVIOUS
    <3> QED
      BY <3>1, Zenon
  <2>3. k - 1 \in Nat /\ k - 1 \notin Bad
    <3>1. k \in Nat
      OBVIOUS
    <3> HIDE DEF Bad
    <3> QED
      BY <2>1, <2>2, <3>1
  <2>4. PICK g : Is(k - 1, g)
    BY <2>3
  <2> DEFINE h == [n \in 0..k |-> IF n = k THEN 3 * g[k - 1] ELSE g[n]]
  <2>5. Is(k, h)
    BY <2>2, <2>3, <2>4
  <2> QED
    BY <2>5, Zenon
<1> DEFINE P(f) == Is(MaxAttempts, f)
<1>2. \E f : P(f)
  BY <1>1, MailboxAssumption, Zenon
<1>3. Tripled = CHOOSE f : P(f)
  BY DEF Tripled
<1> HIDE DEF P
<1>4. P(Tripled)
  BY <1>2, <1>3, Zenon
<1>5. \A n \in 0..MaxAttempts : Tripled[n] = IF n = 0 THEN BackoffBase ELSE 3 * Tripled[n - 1]
  BY <1>4, Zenon DEF P
<1> DEFINE Low == {k \in 0..MaxAttempts : ~(Tripled[k] \in Nat /\ BackoffBase <= Tripled[k])}
<1>6. Low = {}
  <2> SUFFICES ASSUME Low # {} PROVE FALSE
    OBVIOUS
  <2>1. Low \in SUBSET Nat
    OBVIOUS
  <2>2. PICK k \in Low : \A j \in Low : k <= j
    BY <2>1, LeastOfNaturals, Zenon
  <2>3. k # 0
    BY <1>5, MailboxAssumption
  <2>4. k - 1 \in 0..MaxAttempts /\ ~(k <= k - 1)
    BY <2>3, MailboxAssumption
  <2>5. Tripled[k - 1] \in Nat /\ BackoffBase <= Tripled[k - 1]
    BY <2>2, <2>4
  <2> QED
    BY <1>5, <2>3, <2>5, MailboxAssumption
<1> QED
  BY <1>6

LEMMA BackoffIsNat ==
    ASSUME NEW n \in 0..MaxAttempts
    PROVE  Backoff(n) \in Nat
<1> DEFINE x == Max({1, n}) y == Tripled[x] hi == Min({BackoffCap, y})
<1>1. {1, n} \in SUBSET (0..MaxAttempts) /\ MaxAttempts \in Nat
  BY MailboxAssumption
<1>2. x \in {1, n}
  BY <1>1, MaxOfBounded
<1>3. y \in Nat /\ BackoffBase <= y
  BY <1>1, <1>2, TripledIsNat
<1> HIDE DEF x, y
<1>4. {BackoffCap, y} \in SUBSET Nat
  BY <1>3, MailboxAssumption
<1>5. hi \in {BackoffCap, y}
  BY <1>4, MinOfNaturals
<1>6. Backoff(n) = BackoffBase + (hi - BackoffBase) \div 2
  BY DEF Backoff, x, y
<1> HIDE DEF hi
<1>7. hi \in Nat /\ BackoffBase <= hi
  BY <1>3, <1>5, MailboxAssumption
<1>8. hi - BackoffBase \in Nat
  BY <1>7, MailboxAssumption
<1> QED
  BY <1>6, <1>8, MailboxAssumption

LEMMA EarliestOK ==
    ASSUME NEW T \in SUBSET Nat
    PROVE  Earliest(T) \in Int /\ \A x \in T : Earliest(T) # Never /\ Earliest(T) <= x
<1>1. CASE T = {}
  BY <1>1 DEF Earliest, Never
<1>2. CASE T # {}
  <2>1. Min(T) \in T /\ \A k \in T : Min(T) <= k
    BY <1>2, MinOfNaturals
  <2>2. Min(T) \in Nat
    BY <2>1, Zenon
  <2> QED
    BY <1>2, <2>1, <2>2 DEF Earliest, Never
<1> QED
  BY <1>1, <1>2

\* _schedule_retry and _schedule_reap
LEMMA ScheduledRetry ==
    ASSUME NEW c, NEW q, NEW mb, BoxInv(mb, q, now, c), NEW mb2, mb2 = ScheduleRetry(mb)
    PROVE  /\ BoxInv(mb2, q, now, c) /\ RetryArmed(mb2, now) /\ mb2.box = mb.box
           /\ ReapArmed(mb) => ReapArmed(mb2)
<1> DEFINE T == RetryTimes(mb.box, now)
           x == Earliest(T)
           y == mb.reap
<1>1. mb2 = Timed(mb, x, y) /\ y \in Int
  BY Zenon DEF Timed, ScheduleRetry, BoxInv, MailOK
<1>2. T \in SUBSET Nat
  BY DEF RetryTimes, BoxInv, MailOK, Pending
<1>3. x \in Int /\ \A k \in T : x # Never /\ x <= k
  BY <1>2, EarliestOK
<1>4. \A m \in DOMAIN mb.box :
        ~mb.box[m].flying /\ mb.box[m].next < mb.box[m].deadline /\ now < mb.box[m].deadline
            => mb.box[m].next \in T
  BY DEF RetryTimes
<1> HIDE DEF T, x, y
<1>5. BoxInv(mb2, q, now, c) /\ mb2.box = mb.box /\ mb2.retry = x /\ mb2.reap = y
  BY <1>1, <1>3, TimersSet
<1>6. RetryArmed(mb2, now)
  BY <1>3, <1>4, <1>5 DEF RetryArmed
<1>7. ReapArmed(mb) => ReapArmed(mb2)
  BY <1>5 DEF ReapArmed, y
<1> QED
  BY <1>5, <1>6, <1>7

LEMMA ScheduledReap ==
    ASSUME NEW c, NEW q, NEW t, NEW mb, BoxInv(mb, q, t, c), NEW mb2, mb2 = ScheduleReap(mb)
    PROVE  /\ BoxInv(mb2, q, t, c) /\ ReapArmed(mb2) /\ mb2.box = mb.box
           /\ RetryArmed(mb, t) => RetryArmed(mb2, t)
<1> DEFINE T == ReapTimes(mb.box)
           x == mb.retry
           y == Earliest(T)
<1>1. mb2 = Timed(mb, x, y) /\ x \in Int
  BY Zenon DEF Timed, ScheduleReap, BoxInv, MailOK
<1>2. T \in SUBSET Nat
  BY DEF ReapTimes, BoxInv, MailOK, Pending
<1>3. y \in Int /\ \A k \in T : y # Never /\ y <= k
  BY <1>2, EarliestOK
<1>4. \A m \in DOMAIN mb.box : mb.box[m].deadline \in T
  BY DEF ReapTimes
<1> HIDE DEF T, x, y
<1>5. BoxInv(mb2, q, t, c) /\ mb2.box = mb.box /\ mb2.retry = x /\ mb2.reap = y
  BY <1>1, <1>3, TimersSet
<1>6. ReapArmed(mb2)
  BY <1>3, <1>4, <1>5 DEF ReapArmed
<1>7. RetryArmed(mb, t) => RetryArmed(mb2, t)
  BY <1>5 DEF RetryArmed, x
<1> QED
  BY <1>5, <1>6, <1>7

\* A message is taken from the inbox, and the horizon moves by the time it has.
LEMMA HorizonGrows ==
    ASSUME NEW c, CastOK(c), NEW mb, MailOK(mb, c), NEW q, NEW m \in DOMAIN c.messages,
           mb.handle[m] # "idle", m \in q, NEW mb2, mb2.handle = mb.handle
    PROVE  /\ Taken(mb2, q \ {m}) = Taken(mb, q) \cup {m} /\ m \notin Taken(mb, q)
           /\ Horizon(mb2, q \ {m}, c) = Horizon(mb, q, c) + TTL
           /\ Horizon(mb, q, c) \in Nat
<1> DEFINE A == Taken(mb, q) N == Cardinality(A)
<1>1. DOMAIN mb.handle = DOMAIN c.messages /\ IsFiniteSet(DOMAIN c.messages) /\ c.until \in Nat
  BY DEF MailOK, CastOK
<1>2. Taken(mb2, q \ {m}) = A \cup {m} /\ m \notin A /\ A \subseteq DOMAIN c.messages
  BY <1>1 DEF Taken
<1> HIDE DEF A
<1>3. IsFiniteSet(A)
  BY <1>1, <1>2, FS_Subset
<1>4. Cardinality(A \cup {m}) = N + 1 /\ N \in Nat
  BY <1>2, <1>3, FS_AddElement, FS_CardinalityType
<1> HIDE DEF N
<1>5. TTL * (N + 1) = TTL * N + TTL /\ TTL * N \in Nat /\ TTL \in Nat
  BY <1>4, MailboxAssumption
<1>6. Horizon(mb, q, c) = c.until + TTL * N
  BY DEF Horizon, N, A
<1>7. Horizon(mb2, q \ {m}, c) = c.until + TTL * (N + 1)
  BY <1>2, <1>4, Zenon DEF Horizon
<1>8. Horizon(mb2, q \ {m}, c) = Horizon(mb, q, c) + TTL /\ Horizon(mb, q, c) \in Nat
  BY ONLY <1>1, <1>5, <1>6, <1>7
<1> QED
  BY <1>2, <1>8 DEF A

\* _on_post_send, before the timers are set again.
LEMMA PostOK ==
    ASSUME NEW c, CastOK(c), NEW mb, NEW q, NEW t \in Nat, BoxInv(mb, q, t, c),
           NEW m \in DOMAIN c.messages, mb.handle[m] # "idle", m \in q,
           NEW to \in c.others, NEW aw \in BOOLEAN,
           NEW mb2, mb2 = [mb EXCEPT !.box = Post(mb.box, m, to, aw, t)]
    PROVE  BoxInv(mb2, q \ {m}, t, c)
<1> DEFINE B == Post(mb.box, m, to, aw, t)
           H == Horizon(mb, q, c)
<1>1. /\ DOMAIN mb.box \subseteq Taken(mb, q) /\ MailOK(mb, c) /\ t <= H
      /\ \A x \in DOMAIN mb.box : mb.box[x].deadline <= H /\ Len(mb.box[x].attempts) <= MaxAttempts
      /\ \A x \in DOMAIN mb.box : mb.box[x] \in Pending(c)
  BY DEF BoxInv, MailOK
<1>2. TTL \in Nat /\ MaxAttempts \in Nat
  BY MailboxAssumption
<1>3. /\ DOMAIN B = DOMAIN mb.box \cup {m} /\ B[m] \in Pending(c) /\ B[m].deadline = t + TTL
      /\ B[m].attempts = <<>> /\ \A x \in DOMAIN mb.box : x # m => B[x] = mb.box[x]
      /\ B = [x \in DOMAIN B |-> B[x]]
  BY <1>2 DEF Post, With, Pending
<1> HIDE DEF B
<1>4. mb2 = [box |-> B, retry |-> mb.retry, reap |-> mb.reap, wire |-> mb.wire, handle |-> mb.handle]
  BY <1>1 DEF MailOK, B
<1>5. /\ mb2.box = B /\ mb2.retry = mb.retry /\ mb2.reap = mb.reap /\ mb2.wire = mb.wire
      /\ mb2.handle = mb.handle
      /\ mb2 = [box |-> mb2.box, retry |-> mb2.retry, reap |-> mb2.reap, wire |-> mb2.wire,
                handle |-> mb2.handle]
  BY ONLY <1>4
<1>6. /\ Taken(mb2, q \ {m}) = Taken(mb, q) \cup {m} /\ m \notin Taken(mb, q)
      /\ Horizon(mb2, q \ {m}, c) = H + TTL /\ H \in Nat
  BY ONLY <1>1, <1>5, CastOK(c), m \in DOMAIN c.messages, mb.handle[m] # "idle", m \in q,
          HorizonGrows, ZenonT(40)
<1>7. B \in [DOMAIN B -> Pending(c)]
  BY <1>1, <1>3
<1>8. MailOK(mb2, c)
  BY <1>1, <1>3, <1>5, <1>7 DEF MailOK
<1> HIDE DEF H
<1>9. ASSUME NEW x \in DOMAIN B
      PROVE  B[x].deadline <= H + TTL /\ Len(B[x].attempts) <= MaxAttempts
  <2>1. CASE x = m
    BY <1>1, <1>2, <1>3, <1>6, <2>1
  <2>2. CASE x # m
    <3>1. mb.box[x].deadline \in Nat /\ mb.box[x].deadline <= H /\ B[x] = mb.box[x]
          /\ Len(mb.box[x].attempts) <= MaxAttempts
      BY <1>1, <1>3, <2>2, Zenon DEF Pending
    <3> QED
      BY <1>2, <1>6, <3>1
  <2> QED
    BY <2>1, <2>2
<1>10. t <= H + TTL
  BY <1>1, <1>2, <1>6
<1> QED
  BY ONLY <1>1, <1>3, <1>5, <1>6, <1>8, <1>9, <1>10, Zenon DEF BoxInv

LEMMA OnPostSendInv ==
    ASSUME PostmanInv, OnPostSend
    PROVE  PostmanInv'
<1> DEFINE m == Head(con.inbox).m
           r == Rest
           Q == Queued(con.inbox)
           to == cast.messages[m].to
           aw == cast.messages[m].kind # "reply"
           x == [mail EXCEPT !.box = Post(mail.box, m, to, aw, now)]
           y == ScheduleRetry(x)
<1>1. /\ con \in ConState(cast) /\ ConInv(con, now, cast) /\ KnownInv(con, known, cast)
      /\ SendsInv(con.inbox, mail) /\ CastOK(cast) /\ now \in Nat /\ MailInv(mail, Q, now, cast)
      /\ cast \in PostmanCasts
  BY CastIsOK DEF PostmanInv
<1>2. /\ con.inbox # <<>> /\ Head(con.inbox).is = "send" /\ con' = r /\ mail' = ScheduleReap(y)
      /\ known' = known /\ now' = now /\ cast' = cast
  BY Zenon DEF OnPostSend, Handles
<1>3. r = [con EXCEPT !.inbox = Tail(@)]
  BY DEF Rest
<1> HIDE DEF r
<1>4. /\ r \in ConState(cast) /\ ConInv(r, now, cast) /\ Head(con.inbox) \in Event(cast)
      /\ Head(con.inbox) = con.inbox[1] /\ 1 \in 1..Len(con.inbox)
  BY <1>1, <1>2, <1>3, PopHead, PopConInv
<1>5. KnownInv(r, known, cast)
  <2>1. \A j : Head(con.inbox) # Down(j)
    BY <1>2 DEF Down
  <2> QED
    BY <1>1, <1>2, <1>3, <2>1, PopKnownInv, Zenon
<1>6. m \in DOMAIN cast.messages /\ Head(con.inbox) = SendOf(m)
  BY <1>2, <1>4 DEF Event, Sends, SendOf, Syncs, Changes, Frames
<1>7. SendsInv(r.inbox, mail) /\ Queued(r.inbox) = Q \ {m}
  <2>1. SendsInv(r.inbox, mail)
    BY <1>1, <1>2, <1>3, PopSends, Zenon
  <2> HIDE DEF m
  <2>2. Unqueued(con, r)
    BY ONLY <1>1, <1>2, <1>3, PopSends, Zenon
  <2>3. Queued(r.inbox) = Queued(con.inbox) \ {m}
    BY ONLY <1>6, <2>2, Zenon DEF Unqueued
  <2> QED
    BY <2>1, <2>3, Zenon
<1>8. mail.handle[m] # "idle" /\ m \in Q
  <2>1. mail.handle[m] # "idle"
    BY <1>1, <1>2, <1>4, Zenon DEF SendsInv
  <2>2. SendOf(m) \in Range(con.inbox)
    BY <1>1, <1>4, <1>6, InRange, Zenon
  <2>3. m \in AllMessages
    BY <1>1, <1>6 DEF AllMessages
  <2> QED
    BY <2>1, <2>2, <2>3, Zenon DEF Queued
<1>9. to \in cast.others /\ aw \in BOOLEAN
  BY <1>1, <1>6 DEF CastOK
<1>10. BoxInv(mail, Q, now, cast) /\ x = [mail EXCEPT !.box = Post(mail.box, m, to, aw, now)]
  BY <1>1, MailParts
<1> HIDE DEF m, Q, to, aw, x
<1>11. BoxInv(x, Q \ {m}, now, cast)
  BY <1>1, <1>6, <1>8, <1>9, <1>10, PostOK
<1>12. BoxInv(y, Q \ {m}, now, cast) /\ RetryArmed(y, now)
  BY <1>11, ScheduledRetry
<1> HIDE DEF y
<1>13. MailInv(mail', Q \ {m}, now, cast)
  <2>1. BoxInv(mail', Q \ {m}, now, cast) /\ ReapArmed(mail') /\ RetryArmed(mail', now)
    BY <1>2, <1>12, ScheduledReap, ZenonT(40)
  <2> QED
    BY <2>1, MailParts, Zenon
<1>14. SendsInv(r.inbox, mail')
  <2>1. mail'.handle = mail.handle
    BY <1>1, <1>2, Zenon DEF ScheduleReap, y, ScheduleRetry, x, MailInv, MailOK
  <2> QED
    BY <1>7, <2>1 DEF SendsInv
<1> QED
  BY <1>1, <1>2, <1>4, <1>5, <1>7, <1>13, <1>14 DEF PostmanInv

\* The links that a message can be sent over, and the one that is chosen.
LEMMA BestIsUsable ==
    ASSUME NEW U, U # {}, NEW rank, \A l \in U : rank[l] \in Nat
    PROVE  (CHOOSE l \in U : \A k \in U : rank[l] <= rank[k]) \in U
<1> DEFINE R == {rank[l] : l \in U}
<1>1. R \in SUBSET Nat /\ R # {}
  OBVIOUS
<1>2. PICK x \in R : \A y \in R : x <= y
  BY <1>1, LeastOfNaturals, Zenon
<1>3. \E l \in U : \A k \in U : rank[l] <= rank[k]
  BY <1>2
<1> QED
  BY <1>3

\* _act
LEMMA ActOK ==
    ASSUME PostmanInv, NEW st, st = [con |-> st.con, mail |-> st.mail], st.con \in ConState(cast),
           Moved(con, st.con, now), MailOK(st.mail, cast), NEW m \in DOMAIN st.mail.box,
           \A x \in DOMAIN st.mail.box : Len(st.mail.box[x].attempts) <= MaxAttempts,
           NEW rank, \A l \in LinkIds : rank[l] \in Nat, NEW s, s = Act(st, m, rank)
    PROVE  /\ s = [con |-> s.con, mail |-> s.mail] /\ s.con \in ConState(cast)
           /\ Moved(st.con, s.con, now) /\ Acted(st.mail, s.mail, m, cast)
<1> DEFINE mb == st.mail
           b == mb.box
           n == Len(b[m].attempts)
           U == {l \in known.peers[b[m].to].links : Available(st.con.links[l], now)}
           l == CHOOSE x \in U : \A k \in U : rank[x] <= rank[k]
           back == now + Backoff(n)
           wait == WaitsUntil(b, m, now)
           no == Without(b, {m})
           told == Told(mb.handle, {m}, "expired")
           sends == Send(st.con, l, now)
           sent == Sent(b, m, st.con.links[l].address, AgainAt(now, U))
           wired == IF b[m].awaits THEN mb.wire \cup {[m |-> m, try |-> n + 1]} ELSE mb.wire
           R(cn, B, w, h) == s = [con |-> cn, mail |-> Parts(mb, B, w, h)]
<1>1. /\ now \in Nat /\ con \in ConState(cast) /\ KnownInv(con, known, cast)
      /\ b \in [DOMAIN b -> Pending(cast)] /\ b[m] \in Pending(cast)
      /\ b[m].attempts \in Seq(cast.addresses \cup {"ephemeral"})
      /\ n \in 0..MaxAttempts /\ MaxAttempts \in Nat
      /\ mb.handle \in [DOMAIN cast.messages -> HandleState] /\ mb.wire \subseteq Attempts(cast)
      /\ m \in DOMAIN cast.messages
  <2>1. MaxAttempts \in Nat
    BY MailboxAssumption
  <2>2. b \in [DOMAIN b -> Pending(cast)] /\ m \in DOMAIN b
    BY DEF MailOK
  <2>3. b[m] \in Pending(cast)
    BY <2>2
  <2>4. b[m].attempts \in Seq(cast.addresses \cup {"ephemeral"})
    BY <2>3 DEF Pending
  <2>5. n \in 0..MaxAttempts
    BY <2>1, <2>4
  <2> QED
    BY <2>1, <2>2, <2>3, <2>4, <2>5, CastIsOK DEF MailOK, PostmanInv
<1>2. \/ R(st.con, Postponed(b, m, back), mb.wire, mb.handle)
      \/ R(st.con, no, mb.wire, told)
      \/ R(st.con, Postponed(b, m, wait), mb.wire, mb.handle)
      \/ /\ b[m].to \in DOMAIN known.peers /\ ~GivesUp(b, m, now) /\ U # {}
         /\ \/ R(sends, sent, wired, mb.handle)
            \/ R(sends, Postponed(b, m, back), mb.wire, mb.handle)
  <2>1. mb = Parts(mb, b, mb.wire, mb.handle)
    BY Zenon DEF MailOK, Parts
  <2>2. CASE b[m].to \notin DOMAIN known.peers
    BY <2>1, <2>2, Zenon DEF Act, Parts
  <2>3. CASE b[m].to \in DOMAIN known.peers /\ GivesUp(b, m, now)
    BY <2>1, <2>3, Zenon DEF Act, Parts
  <2>4. CASE b[m].to \in DOMAIN known.peers /\ ~GivesUp(b, m, now) /\ U = {}
    BY <2>1, <2>4, Zenon DEF Act, Parts
  <2>5. CASE b[m].to \in DOMAIN known.peers /\ ~GivesUp(b, m, now) /\ U # {}
    BY <2>1, <2>5, Zenon DEF Act, Parts
  <2> QED
    BY <2>2, <2>3, <2>4, <2>5, Zenon
<1>3. back \in Nat /\ wait \in Nat
  <2>1. Backoff(n) \in Nat
    BY <1>1, BackoffIsNat
  <2>2. {b[m].deadline, back} \in SUBSET Nat
    BY <1>1, <2>1 DEF Pending
  <2>3. Min({b[m].deadline, back}) \in {b[m].deadline, back}
    BY <2>2, MinOfNaturals, ZenonT(40)
  <2>4. wait = Min({b[m].deadline, back})
    BY DEF WaitsUntil
  <2> QED
    BY <2>2, <2>3, <2>4, ZenonT(40)
<1>4. told \in [DOMAIN cast.messages -> HandleState]
      /\ \A x \in DOMAIN cast.messages : told[x] = "idle" <=> mb.handle[x] = "idle"
  BY <1>1, Zenon DEF Told, HandleState
<1>5. b[m].to \in DOMAIN known.peers /\ U # {} =>
        l \in 1..Len(st.con.links) /\ sends \in ConState(cast) /\ Moved(st.con, sends, now)
  <2> SUFFICES ASSUME b[m].to \in DOMAIN known.peers, U # {}
               PROVE  l \in 1..Len(st.con.links) /\ sends \in ConState(cast)
                      /\ Moved(st.con, sends, now)
    BY Zenon
  <2>1. U \subseteq 1..Len(con.links) /\ Len(st.con.links) = Len(con.links)
    BY <1>1, Zenon DEF KnownInv, ListedInv, Moved
  <2> HIDE DEF U
  <2>2. l \in U
    BY <2>1, BestIsUsable, Zenon DEF LinkIds
  <2>3. l \in 1..Len(st.con.links)
    BY <2>1, <2>2
  <2> HIDE DEF l
  <2> QED
    BY <1>1, <2>3, SendMoved
<1>6. AgainAt(now, U) \in Int /\ (AgainAt(now, U) = Never \/ AgainAt(now, U) \in Nat)
  BY <1>1, MailboxAssumption DEF AgainAt, Never
<1> DEFINE Fits(B, w, h) ==
             /\ B \in [DOMAIN B -> Pending(cast)] /\ DOMAIN B \subseteq DOMAIN b
             /\ DOMAIN b \ {m} \subseteq DOMAIN B /\ w \subseteq Attempts(cast)
             /\ h \in [DOMAIN cast.messages -> HandleState]
             /\ \A x \in DOMAIN B : B[x].deadline = b[x].deadline /\ Len(B[x].attempts) <= MaxAttempts
             /\ \A x \in DOMAIN cast.messages : h[x] = "idle" <=> mb.handle[x] = "idle"
<1>7. Fits(no, mb.wire, told)
  <2> HIDE DEF told
  <2>1. no = Without(b, {m})
    OBVIOUS
  <2> HIDE DEF no
  <2>2. /\ no \in [DOMAIN no -> Pending(cast)] /\ DOMAIN no = DOMAIN b \ {m}
        /\ \A x \in DOMAIN no : no[x].deadline = b[x].deadline /\ no[x].attempts = b[x].attempts
    BY ONLY <1>1, <2>1, Zenon DEF Without
  <2> QED
    BY <1>1, <1>4, <2>2, Zenon
<1>8. ASSUME NEW u \in Nat
      PROVE  Fits(Postponed(b, m, u), mb.wire, mb.handle)
  <2> DEFINE B == Postponed(b, m, u)
  <2>1. B = Postponed(b, m, u)
    OBVIOUS
  <2> HIDE DEF B
  <2>2. /\ B \in [DOMAIN B -> Pending(cast)] /\ DOMAIN B = DOMAIN b
        /\ \A x \in DOMAIN B : B[x].deadline = b[x].deadline /\ B[x].attempts = b[x].attempts
    BY <1>1, <2>1, PostponedOK
  <2>3. Fits(B, mb.wire, mb.handle)
    BY <1>1, <2>2, Zenon
  <2> QED
    BY <2>3 DEF B
<1>9. b[m].to \in DOMAIN known.peers /\ ~GivesUp(b, m, now) /\ U # {} => Fits(sent, wired, mb.handle)
  <2> SUFFICES ASSUME b[m].to \in DOMAIN known.peers, ~GivesUp(b, m, now), U # {}
               PROVE  Fits(sent, wired, mb.handle)
    BY Zenon
  <2> DEFINE a == st.con.links[l].address
             u == AgainAt(now, U)
  <2>1. n < MaxAttempts
    BY <1>1 DEF GivesUp
  <2>2. a \in cast.addresses \cup {"ephemeral"}
    <3>1. l \in 1..Len(st.con.links)
      BY <1>5, Zenon
    <3> HIDE DEF l
    <3>2. st.con.links[l] \in LinkState(cast)
      BY <3>1, ConFields, ZenonT(40)
    <3> QED
      BY <3>2, Zenon DEF LinkState
  <2>3. wired \subseteq Attempts(cast)
    BY <1>1 DEF Attempts
  <2>4. sent = Sent(b, m, a, u) /\ u \in Int /\ (u = Never \/ u \in Nat)
    BY <1>6, Zenon
  <2> HIDE DEF a, u, wired, sent
  <2>5. CASE b[m].awaits
    <3> DEFINE fl == (u = Never)
               ats == Append(b[m].attempts, a)
               nx == IF u = Never THEN b[m].next ELSE u
               p == [b[m] EXCEPT !.attempts = ats, !.flying = fl, !.next = nx]
    <3>1. fl \in BOOLEAN /\ nx \in Nat /\ ats \in Seq(cast.addresses \cup {"ephemeral"})
          /\ Len(ats) = n + 1
      BY <1>1, <2>2, <2>4 DEF Pending
    <3>2. sent = [b EXCEPT ![m] = p]
      BY <1>1, <2>4, <2>5, Zenon DEF Sent, Pending
    <3> HIDE DEF fl, nx, ats
    <3>3. p \in Pending(cast) /\ p.deadline = b[m].deadline /\ p.attempts = ats
      BY <1>1, <3>1, Zenon DEF Pending
    <3> HIDE DEF p
    <3>4. /\ sent \in [DOMAIN sent -> Pending(cast)] /\ DOMAIN sent = DOMAIN b
          /\ \A x \in DOMAIN sent : sent[x].deadline = b[x].deadline
          /\ \A x \in DOMAIN sent : x # m => sent[x].attempts = b[x].attempts
          /\ Len(sent[m].attempts) = n + 1
      BY <1>1, <3>1, <3>2, <3>3, Zenon
    <3>5. \A x \in DOMAIN sent : Len(sent[x].attempts) <= MaxAttempts
      BY <1>1, <2>1, <3>4
    <3> QED
      BY <1>1, <2>3, <3>4, <3>5, ZenonT(40)
  <2>6. CASE ~b[m].awaits
    <3>1. sent = no
      BY <2>4, <2>6 DEF Sent
    <3> QED
      BY <1>1, <1>7, <2>3, <3>1, Zenon
  <2> QED
    BY <2>5, <2>6, Zenon
<1> HIDE DEF U, l, back, wait, no, told, sends, sent, wired
<1>10. ASSUME NEW cn \in ConState(cast), Moved(st.con, cn, now), NEW B, NEW w, NEW h,
              Fits(B, w, h), R(cn, B, w, h)
       PROVE  /\ s = [con |-> s.con, mail |-> s.mail] /\ s.con \in ConState(cast)
              /\ Moved(st.con, s.con, now) /\ Acted(st.mail, s.mail, m, cast)
  <2>1. Acted(mb, Parts(mb, B, w, h), m, cast)
    BY <1>10, PartsActed
  <2>2. s.con = cn /\ s.mail = Parts(mb, B, w, h) /\ s = [con |-> s.con, mail |-> s.mail]
    BY ONLY R(cn, B, w, h)
  <2> QED
    BY <1>10, <2>1, <2>2, ZenonT(40)
<1>11. Moved(st.con, st.con, now)
  BY MovedNone, Zenon
<1> HIDE DEF Fits, R
<1>12. CASE R(st.con, Postponed(b, m, back), mb.wire, mb.handle)
  BY <1>3, <1>8, <1>10, <1>11, <1>12, Zenon
<1>13. CASE R(st.con, no, mb.wire, told)
  BY <1>7, <1>10, <1>11, <1>13, Zenon
<1>14. CASE R(st.con, Postponed(b, m, wait), mb.wire, mb.handle)
  BY <1>3, <1>8, <1>10, <1>11, <1>14, Zenon
<1>15. CASE /\ b[m].to \in DOMAIN known.peers /\ ~GivesUp(b, m, now) /\ U # {}
            /\ R(sends, sent, wired, mb.handle)
  BY <1>5, <1>9, <1>10, <1>15, Zenon
<1>16. CASE /\ b[m].to \in DOMAIN known.peers /\ ~GivesUp(b, m, now) /\ U # {}
            /\ R(sends, Postponed(b, m, back), mb.wire, mb.handle)
  BY <1>3, <1>5, <1>8, <1>10, <1>16, Zenon
<1> QED
  BY <1>2, <1>12, <1>13, <1>14, <1>15, <1>16

LEMMA ActStep ==
    ASSUME PostmanInv, NEW order, Len(order) \in Nat, NEW i \in 1..Len(order),
           \A j, k \in 1..Len(order) : order[j] = order[k] => j = k,
           NEW st, ActInv(st, i - 1, order), NEW rank, \A l \in LinkIds : rank[l] \in Nat,
           NEW s, s = Act(st, order[i], rank)
    PROVE  ActInv(s, i, order)
<1> DEFINE m == order[i]
           Q == Queued(con.inbox)
<1>1. i > i - 1
  OBVIOUS
<1>2. /\ st = [con |-> st.con, mail |-> st.mail] /\ st.con \in ConState(cast)
      /\ Moved(con, st.con, now) /\ BoxInv(st.mail, Q, now, cast) /\ ReapArmed(st.mail)
      /\ m \in DOMAIN st.mail.box /\ MailOK(st.mail, cast)
      /\ \A x \in DOMAIN st.mail.box : Len(st.mail.box[x].attempts) <= MaxAttempts
      /\ s = Act(st, m, rank)
  BY <1>1 DEF ActInv, BoxInv
<1>3. now \in Nat /\ con \in ConState(cast)
  BY CastIsOK, Zenon
<1> HIDE DEF m, Q
<1>4. /\ s = [con |-> s.con, mail |-> s.mail] /\ s.con \in ConState(cast)
      /\ Moved(st.con, s.con, now) /\ Acted(st.mail, s.mail, m, cast)
  BY <1>2, ActOK, Zenon
<1>5. Moved(con, s.con, now)
  BY <1>2, <1>3, <1>4, MovedTwice, ZenonT(40)
<1>6. BoxInv(s.mail, Q, now, cast) /\ ReapArmed(s.mail)
  BY <1>2, <1>4, ActedInv, Zenon
<1>7. \A x \in DOMAIN cast.messages : s.mail.handle[x] = "idle" <=> mail.handle[x] = "idle"
  BY <1>4, Zenon DEF Acted, ActInv
<1>8. ASSUME NEW j \in 1..Len(order), j > i
      PROVE  order[j] \in DOMAIN s.mail.box
  <2>1. j > i - 1 /\ order[j] # m
    BY <1>8 DEF m
  <2>2. order[j] \in DOMAIN st.mail.box
    BY <2>1 DEF ActInv
  <2> QED
    BY <1>4, <2>1, <2>2, Zenon DEF Acted
<1> QED
  BY <1>4, <1>5, <1>6, <1>7, <1>8 DEF ActInv, Q

\* By induction over the messages that are due: the first one after which it no
\* longer held would not be the first.
LEMMA ActAllInv ==
    ASSUME PostmanInv, NEW order, Len(order) \in Nat,
           \A j, k \in 1..Len(order) : order[j] = order[k] => j = k,
           NEW st, ActInv(st, 0, order), NEW rank, \A l \in LinkIds : rank[l] \in Nat
    PROVE  ActInv(ActAll(st, order, rank), Len(order), order)
<1> DEFINE N == Len(order)
<1>1. PICK f : /\ ActAll(st, order, rank) = f[N] /\ f[0] = st
               /\ \A n \in 1..N : f[n] = Act(f[n - 1], order[n], rank)
  BY ActAllSteps
<1> DEFINE Bad == {n \in 0..N : ~ActInv(f[n], n, order)}
<1>2. Bad = {}
  <2> SUFFICES ASSUME Bad # {} PROVE FALSE
    OBVIOUS
  <2>1. Bad \in SUBSET Nat
    OBVIOUS
  <2>2. PICK n \in Bad : \A k \in Bad : n <= k
    BY <2>1, LeastOfNaturals, Zenon
  <2>3. n # 0
    BY <1>1
  <2>4. n \in 1..N /\ n - 1 \in 0..N /\ ~(n <= n - 1)
    BY <2>3
  <2>5. ActInv(f[n - 1], n - 1, order)
    BY <2>2, <2>4
  <2>6. ActInv(f[n], n, order)
    BY <1>1, <2>4, <2>5, ActStep, Zenon
  <2> QED
    BY <2>6
<1> QED
  BY <1>1, <1>2

\* The messages there are, and so any of them, can be counted.
LEMMA FewMessages ==
    ASSUME PostmanInv, NEW S \in SUBSET DOMAIN mail.box
    PROVE  IsFiniteSet(S) /\ Cardinality(S) \in Nat
<1>1. IsFiniteSet(DOMAIN cast.messages) /\ S \subseteq DOMAIN cast.messages
  BY CastIsOK, ZenonT(40) DEF CastOK, PostmanInv, MailInv, MailOK
<1> QED
  BY <1>1, FS_Subset, FS_CardinalityType

LEMMA OnRetryDueInv ==
    ASSUME PostmanInv, OnRetryDue
    PROVE  PostmanInv'
<1> DEFINE due == Due(mail.box, now)
           N == Cardinality(due)
           mb == [mail EXCEPT !.box = MarkDue(@, now)]
           st0 == [con |-> con, mail |-> mb]
           Q == Queued(con.inbox)
<1>1. /\ con \in ConState(cast) /\ ConInv(con, now, cast) /\ KnownInv(con, known, cast)
      /\ SendsInv(con.inbox, mail) /\ now \in Nat /\ BoxInv(mail, Q, now, cast) /\ ReapArmed(mail)
      /\ mail.handle \in [DOMAIN cast.messages -> HandleState]
  <2>1. MailInv(mail, Q, now, cast)
    BY DEF PostmanInv
  <2>2. BoxInv(mail, Q, now, cast) /\ ReapArmed(mail)
    BY <2>1, MailParts
  <2> QED
    BY <2>2, CastIsOK DEF PostmanInv, BoxInv, MailOK
<1>2. PICK order \in Bijection(1..N, due), rank \in Bijection(LinkIds, LinkIds) :
        /\ con' = ActAll(st0, order, rank).con
        /\ mail' = ScheduleRetry(ActAll(st0, order, rank).mail)
        /\ known' = known /\ now' = now /\ cast' = cast
  BY DEF OnRetryDue
<1>3. due \subseteq DOMAIN mail.box
  BY DEF Due
<1>4. N \in Nat
  BY <1>3, FewMessages
<1>5. mb = Marked(mail, due)
  BY DEF MarkDue, Marked
<1> HIDE DEF due, N, mb, Q
<1>6. order \in [1..N -> due] /\ \A j, k \in 1..N : order[j] = order[k] => j = k
  BY DEF Bijection, Injection, IsInjective
<1>7. Len(order) = N
  BY <1>4, <1>6
<1>8. \A l \in LinkIds : rank[l] \in Nat
  BY DEF Bijection, Injection, LinkIds
<1>9. /\ BoxInv(mb, Q, now, cast) /\ ReapArmed(mb) /\ DOMAIN mb.box = DOMAIN mail.box
      /\ mb.handle = mail.handle
  BY <1>1, <1>5, MarkedOK
<1>10. ActInv(st0, 0, order)
  <2>1. Moved(con, con, now)
    BY <1>1, MovedNone, Zenon
  <2>2. st0.con = con /\ st0.mail = mb /\ st0 = [con |-> st0.con, mail |-> st0.mail]
    OBVIOUS
  <2>3. \A j \in 1..N : order[j] \in DOMAIN mb.box
    BY <1>3, <1>6, <1>9, Zenon
  <2> HIDE DEF st0
  <2> QED
    BY <1>1, <1>7, <1>9, <2>1, <2>2, <2>3, Zenon DEF ActInv, Q
<1> DEFINE st == ActAll(st0, order, rank)
<1> HIDE DEF st0
<1>11. ActInv(st, Len(order), order)
  BY <1>4, <1>6, <1>7, <1>8, <1>10, ActAllInv, Zenon
<1>12. con' = st.con /\ mail' = ScheduleRetry(st.mail)
  BY <1>2
<1> HIDE DEF st
<1>13. con' \in ConState(cast) /\ Moved(con, con', now)
  BY <1>11, <1>12, Zenon DEF ActInv
<1>14. ConInv(con', now, cast) /\ KnownInv(con', known, cast)
  BY <1>1, <1>13, MovedConInv, MovedKnownInv, Zenon
<1>15. SendsInv(con'.inbox, mail) /\ Queued(con'.inbox) = Q
  BY ONLY <1>1, <1>13, MovedSends, ZenonT(40) DEF Q
<1>16. BoxInv(st.mail, Q, now, cast) /\ ReapArmed(st.mail)
       /\ \A m \in DOMAIN cast.messages : st.mail.handle[m] = "idle" <=> mail.handle[m] = "idle"
  BY <1>11 DEF ActInv, Q
<1>17. MailInv(mail', Q, now, cast)
  <2>1. BoxInv(mail', Q, now, cast) /\ RetryArmed(mail', now) /\ ReapArmed(mail')
    BY <1>12, <1>16, ScheduledRetry
  <2> QED
    BY <2>1, MailParts
<1>18. SendsInv(con'.inbox, mail')
  <2>1. mail'.handle = st.mail.handle
    BY <1>12, <1>16, Zenon DEF ScheduleRetry, BoxInv, MailOK
  <2>2. \A i \in 1..Len(con'.inbox) :
          con'.inbox[i].is = "send" => con'.inbox[i].m \in DOMAIN cast.messages
    BY <1>13, SendEvents, ZenonT(40)
  <2> QED
    BY <1>15, <1>16, <2>1, <2>2, Zenon DEF SendsInv
<1>19. cast \in PostmanCasts /\ now \in Nat
  BY DEF PostmanInv
<1> QED
  BY <1>2, <1>14, <1>15, <1>17, <1>18, <1>19, Zenon DEF PostmanInv

LEMMA OnReapCheckInv ==
    ASSUME PostmanInv, OnReapCheck
    PROVE  PostmanInv'
<1> DEFINE done == Overdue(mail.box, now)
           what == "expired"
           D == DOMAIN cast.messages
           h == Told(mail.handle, done, what)
           mb == [mail EXCEPT !.box = Without(mail.box, done), !.handle = h]
           times == [l \in 1..Len(con.links) |-> Cardinality(ChargedTo(l, done))]
           Q == Queued(con.inbox)
<1>1. /\ con \in ConState(cast) /\ ConInv(con, now, cast) /\ KnownInv(con, known, cast)
      /\ SendsInv(con.inbox, mail) /\ now \in Nat /\ MailInv(mail, Q, now, cast)
      /\ mail.handle \in [D -> HandleState] /\ cast \in PostmanCasts
  BY CastIsOK DEF PostmanInv, MailInv, MailOK
<1>2. /\ mail' = ScheduleReap(mb)
      /\ con' = [con EXCEPT !.links =
                   [l \in 1..Len(con.links) |-> OnFailed(con.links[l], times[l], now)]]
      /\ known' = known /\ now' = now /\ cast' = cast
  BY Zenon DEF OnReapCheck, LinkIds
<1>3. times \in [1..Len(con.links) -> Nat]
  <2>1. \A l \in 1..Len(con.links) : ChargedTo(l, done) \subseteq DOMAIN mail.box
    BY DEF ChargedTo, Overdue
  <2>2. \A l \in 1..Len(con.links) : Cardinality(ChargedTo(l, done)) \in Nat
    BY <2>1, FewMessages
  <2> QED
    BY <2>2
<1>4. what \in HandleState /\ what # "idle"
  BY DEF HandleState
<1> HIDE DEF times, done, what
<1>5. con' \in ConState(cast) /\ Moved(con, con', now)
  BY ONLY <1>1, <1>2, <1>3, ChargedMoved, ZenonT(40)
<1>6. ConInv(con', now, cast) /\ KnownInv(con', known, cast)
  BY <1>1, <1>5, MovedConInv, MovedKnownInv
<1>7. SendsInv(con'.inbox, mail) /\ Queued(con'.inbox) = Q
  BY ONLY <1>1, <1>5, MovedSends, ZenonT(40)
<1> HIDE DEF Q, D
<1>8. h \in [D -> HandleState] /\ \A m \in D : h[m] = "idle" <=> mail.handle[m] = "idle"
  BY <1>1, <1>4, ToldOK
<1> HIDE DEF h
<1>9. mb = [mail EXCEPT !.box = Without(mail.box, done), !.handle = h] /\ mb.handle = h
  BY <1>1 DEF MailInv, MailOK
<1> HIDE DEF mb
<1>10. MailInv(mb, Q, now, cast)
  BY <1>1, <1>8, <1>9, BoxShrinks, ZenonT(40) DEF D
<1>11. MailInv(mail', Q, now, cast)
  <2>1. BoxInv(mb, Q, now, cast) /\ RetryArmed(mb, now)
    BY <1>10, MailParts
  <2>2. BoxInv(mail', Q, now, cast) /\ ReapArmed(mail') /\ RetryArmed(mail', now)
    BY <1>2, <2>1, ScheduledReap, Zenon
  <2> QED
    BY <2>2, MailParts
<1>12. SendsInv(con'.inbox, mail')
  <2>1. mail'.handle = h
    BY <1>2, <1>9, <1>10, Zenon DEF ScheduleReap, MailInv, MailOK
  <2>2. \A i \in 1..Len(con'.inbox) : con'.inbox[i].is = "send" => con'.inbox[i].m \in D
    BY <1>5, SendEvents, ZenonT(40) DEF D
  <2> QED
    BY <1>7, <1>8, <2>1, <2>2, ZenonT(40) DEF SendsInv
<1> QED
  BY <1>1, <1>2, <1>6, <1>7, <1>11, <1>12, Zenon DEF PostmanInv

\* Time passes while a message has time left, or up to the end that the cast sets.
LEMMA TickInv ==
    ASSUME PostmanInv, Tick
    PROVE  PostmanInv'
<1> DEFINE Q == Queued(con.inbox)
           H == Horizon(mail, Q, cast)
<1>1. /\ now \in Nat /\ CastOK(cast) /\ cast \in PostmanCasts
      /\ now' = now + 1 /\ con' = con /\ mail' = mail /\ known' = known /\ cast' = cast
      /\ (now < cast.until \/ \E m \in DOMAIN mail.box : now < mail.box[m].deadline)
      /\ MailInv(mail, Q, now, cast)
  BY CastIsOK DEF Tick, PostmanInv
<1>2. H \in Nat /\ cast.until <= H
  <2> DEFINE N == Cardinality(Taken(mail, Q))
  <2>1. IsFiniteSet(DOMAIN cast.messages) /\ cast.until \in Nat
        /\ Taken(mail, Q) \subseteq DOMAIN cast.messages
    BY <1>1 DEF CastOK, MailInv, MailOK, Taken
  <2>2. N \in Nat
    BY <2>1, FS_Subset, FS_CardinalityType, Zenon
  <2>3. H = cast.until + TTL * N
    BY DEF Horizon
  <2> HIDE DEF N
  <2>4. TTL * N \in Nat
    BY <2>2, MailboxAssumption
  <2> QED
    BY ONLY <2>1, <2>3, <2>4
<1> HIDE DEF H
<1>3. now + 1 <= H
  <2>1. CASE now < cast.until
    BY <1>1, <1>2, <2>1 DEF CastOK
  <2>2. CASE \E m \in DOMAIN mail.box : now < mail.box[m].deadline
    <3>1. PICK m \in DOMAIN mail.box : now < mail.box[m].deadline
      BY <2>2, Zenon
    <3>2. mail.box[m].deadline \in Nat /\ mail.box[m].deadline <= H
      BY <1>1, Zenon DEF MailInv, MailOK, Pending, H
    <3> QED
      BY <1>1, <1>2, <3>1, <3>2
  <2> QED
    BY <1>1, <2>1, <2>2, ZenonT(40)
<1>4. MailInv(mail, Q, now + 1, cast)
  <2>1. \A m \in DOMAIN mail.box : mail.box[m].deadline \in Nat
    BY <1>1 DEF MailInv, MailOK, Pending
  <2>2. \A m \in DOMAIN mail.box : now + 1 < mail.box[m].deadline => now < mail.box[m].deadline
    BY <1>1, <2>1
  <2> QED
    BY <1>1, <1>3, <2>2, ZenonT(40) DEF MailInv, H
<1>5. ConInv(con, now + 1, cast)
  <2>1. ConInv(con, now, cast)
    BY Zenon DEF PostmanInv
  <2>2. LinksInv(con, now + 1)
    BY <1>1, <2>1 DEF ConInv, LinksInv
  <2> QED
    BY <2>1, <2>2 DEF ConInv
<1>6. KnownInv(con, known, cast) /\ SendsInv(con.inbox, mail)
  BY Zenon DEF PostmanInv
<1> QED
  BY <1>1, <1>4, <1>5, <1>6 DEF PostmanInv

-----------------------------------------------------------------------------
(* The whole                                                               *)

LEMMA PostmanInitInv == PostmanInit => PostmanInv
<1> SUFFICES ASSUME PostmanInit PROVE PostmanInv
  BY Zenon
<1> DEFINE L == [l \in DOMAIN cast.linked |-> Established(cast.linked[l])]
           W == [a \in cast.addresses |-> IF a \in Range(cast.linked) THEN "waiting" ELSE "none"]
           P == [q \in DOMAIN cast.wanted |-> PeerAtFirst(q)]
           Q == Queued(con.inbox)
           N == Len(cast.linked)
<1>1. /\ cast \in PostmanCasts /\ CastOK(cast) /\ now = 0
      /\ con = [links |-> L, workers |-> W, inbox |-> <<>>]
      /\ mail = [box |-> <<>>, retry |-> Never, reap |-> Never, wire |-> {},
                 handle |-> [m \in DOMAIN cast.messages |-> "idle"]]
      /\ known = [peers |-> P, authorized |-> cast.authorized, unbound |-> {}, pings |-> {},
                  polled |-> DOMAIN cast.wanted, strays |-> {}, late |-> {}]
  BY PostmanAssumption, Zenon DEF PostmanInit
<1>2. DOMAIN cast.linked = 1..N /\ N \in Nat
  <2> DEFINE T == UNION {cast.wanted[q] : q \in DOMAIN cast.wanted}
  <2>1. cast.linked \in Seq(T)
    BY <1>1, Zenon DEF CastOK
  <2> HIDE DEF T
  <2> QED
    BY ONLY <2>1
<1>3. \A l \in 1..N :
        /\ L[l] \in LinkState(cast) /\ L[l].sock /\ ~L[l].notified /\ L[l].opened = -1
        /\ \A q \in DOMAIN cast.wanted : cast.linked[l] \in cast.wanted[q] => L[l].who = q
  BY <1>1, <1>2, FirstLinks, Zenon
<1>4. L \in [1..N -> LinkState(cast)]
  BY <1>2, <1>3, Zenon
<1>5. W \in [cast.addresses -> WorkerState]
  BY DEF WorkerState
<1>6. /\ DOMAIN P = DOMAIN cast.wanted /\ DOMAIN P \subseteq cast.others
      /\ P \in [DOMAIN P -> PeerState(cast)]
      /\ \A q \in DOMAIN P : \A l \in P[q].links : l \in 1..N /\ cast.linked[l] \in cast.wanted[q]
  <2>1. /\ DOMAIN cast.wanted \subseteq cast.others
        /\ \A q \in DOMAIN cast.wanted : cast.wanted[q] \subseteq cast.addresses
    BY <1>1, Zenon DEF CastOK
  <2>2. \A q \in DOMAIN cast.wanted :
          P[q].targets = cast.wanted[q]
          /\ P[q].links = {l \in 1..N : cast.linked[l] \in cast.wanted[q]}
          /\ P[q] = [targets |-> P[q].targets, links |-> P[q].links]
    BY ONLY <1>2, Zenon DEF PeerAtFirst
  <2>3. DOMAIN P = DOMAIN cast.wanted
    OBVIOUS
  <2> HIDE DEF P
  <2>4. \A q \in DOMAIN cast.wanted : P[q] \in PeerState(cast)
    <3> SUFFICES ASSUME NEW q \in DOMAIN cast.wanted PROVE P[q] \in PeerState(cast)
      OBVIOUS
    <3> DEFINE a == P[q].targets b == P[q].links
    <3>1. a \subseteq cast.addresses /\ b \subseteq 1..N /\ P[q] = [targets |-> a, links |-> b]
      BY <2>1, <2>2
    <3>2. b \subseteq LinkNumbers
      BY ONLY <1>2, <3>1 DEF LinkNumbers
    <3> HIDE DEF a, b
    <3> QED
      BY ONLY <3>1, <3>2 DEF PeerState
  <2>5. P = [q \in DOMAIN P |-> P[q]]
    BY DEF P
  <2> QED
    BY ONLY <2>1, <2>2, <2>3, <2>4, <2>5, Zenon
<1> HIDE DEF L, W, P, N
<1>7. L \in Seq(LinkState(cast)) /\ Len(L) = N
  <2> DEFINE T == LinkState(cast)
  <2>1. L \in [1..N -> T] /\ N \in Nat
    BY <1>2, <1>4
  <2> HIDE DEF T
  <2>2. L \in Seq(T) /\ Len(L) = N
    BY ONLY <2>1
  <2> QED
    BY <2>2 DEF T
<1>8. /\ con.links = L /\ con.inbox = <<>> /\ con.workers = W /\ Len(con.inbox) = 0
      /\ con \in ConState(cast)
  BY <1>1, <1>5, <1>7 DEF ConState
<1>9. ConInv(con, now, cast)
  <2>1. LinksInv(con, now)
    <3>1. Len(con.links) = N /\ -1 \in -1..now
      BY <1>1, <1>7, <1>8
    <3>2. \A l \in 1..N : con.links[l].sock /\ con.links[l].opened = -1
      BY <1>3, <1>8, ZenonT(40)
    <3> QED
      BY ONLY <3>1, <3>2 DEF LinksInv
  <2>2. InboxInv(con)
    BY <1>8 DEF InboxInv
  <2> QED
    BY <1>8, <2>1, <2>2, ZenonT(40) DEF ConInv
<1>10. KnownInv(con, known, cast)
  <2>1. /\ known.peers = P /\ known.authorized = cast.authorized /\ known.unbound = {}
        /\ known.pings = {} /\ known.polled = DOMAIN P
        /\ known = [peers |-> known.peers, authorized |-> known.authorized,
                    unbound |-> known.unbound, pings |-> known.pings, polled |-> known.polled,
                    strays |-> known.strays, late |-> known.late]
    BY <1>1, <1>6, Zenon
  <2>2. KnownOK(known, cast)
    BY <1>1, <1>6, <2>1, ZenonT(40) DEF KnownOK, CastOK
  <2>3. ListedInv(con, known)
    BY <1>3, <1>6, <1>7, <1>8, <2>1 DEF ListedInv
  <2> QED
    BY <2>1, <2>2, <2>3 DEF KnownInv
<1>11. SendsInv(con.inbox, mail)
  BY <1>8 DEF SendsInv
<1>12. MailInv(mail, Q, now, cast)
  <2>1. /\ mail.box = <<>> /\ mail.retry = Never /\ mail.reap = Never /\ mail.wire = {}
        /\ mail.handle = [m \in DOMAIN cast.messages |-> "idle"]
        /\ mail = [box |-> mail.box, retry |-> mail.retry, reap |-> mail.reap,
                   wire |-> mail.wire, handle |-> mail.handle]
    BY <1>1
  <2>2. DOMAIN mail.box = {} /\ mail.box \in [DOMAIN mail.box -> Pending(cast)]
    BY <2>1
  <2>3. MailOK(mail, cast)
    BY <2>1, <2>2 DEF MailOK, Never, HandleState
  <2>4. Taken(mail, Q) = {}
    BY <2>1 DEF Taken
  <2>5. Horizon(mail, Q, cast) = cast.until /\ cast.until \in Nat
    <3>1. Cardinality({}) = 0
      BY FS_EmptySet, ZenonT(40)
    <3>2. TTL * 0 = 0 /\ cast.until \in Nat
      BY <1>1, MailboxAssumption DEF CastOK
    <3> QED
      BY <2>4, <3>1, <3>2 DEF Horizon
  <2> QED
    <3>1. now = 0
      BY <1>1
    <3> QED
      BY ONLY <2>2, <2>3, <2>5, <3>1 DEF MailInv
<1> QED
  BY <1>1, <1>9, <1>10, <1>11, <1>12, Zenon DEF PostmanInv

LEMMA PostmanNextInv == PostmanInv /\ [PostmanNext]_vars => PostmanInv'
<1> SUFFICES ASSUME PostmanInv, [PostmanNext]_vars PROVE PostmanInv'
  OBVIOUS
<1>1. CASE UserNext
  BY <1>1, RequestInv, WaitInv, SyncInv, Zenon DEF UserNext
<1>2. CASE TransportNext
  <2>1. ASSUME NEW a \in DOMAIN con.workers, ConnectOk(a) \/ ConnectFails(a) \/ Hook(a) \/ WorkerEnds(a)
        PROVE  PostmanInv'
    BY <2>1, ConnectInv, WorkerInv, HookInv, Zenon
  <2>2. ASSUME NEW l \in LinkIds,
               \/ LinkFails(l) \/ ReaderEnds(l)
               \/ \E a \in mail.wire : Answer(a, l)
               \/ \E q \in cast.others, kind \in {"request", "ping", "bad"} : Incoming(l, q, kind)
               \/ \E p \in known.pings : Pong(l, p)
        PROVE  PostmanInv'
    BY <2>2, LinkEndsInv, AnswerInv, FramesInv, Zenon
  <2> QED
    BY <1>2, <2>1, <2>2, AcceptInv, Zenon DEF TransportNext
<1>3. CASE OnPosted
  BY <1>3, OnPostSendInv, OnSyncPeersInv, OnLinkUpInv, OnLinkDownInv, OnFrameInInv, Zenon DEF OnPosted
<1>4. CASE OnTimer
  <2>1. ASSUME NEW idle \in SUBSET Pingable \ {{}}, OnKeepAlive(idle) PROVE PostmanInv'
    BY <2>1, OnKeepAliveInv
  <2> QED
    BY <1>4, <2>1, OnRetryDueInv, OnReapCheckInv, OnMaintainLinksInv, TickInv, OnReapUnboundInv, Zenon
       DEF OnTimer
<1>5. CASE UNCHANGED vars
  BY <1>5 DEF vars, PostmanInv
<1> QED
  BY <1>1, <1>2, <1>3, <1>4, <1>5, Zenon DEF PostmanNext

\* Whatever the peers, the transports and the clock do, the postman's links, peers
\* and mailbox fit together.
THEOREM PostmanInvariance == PostmanSpec => []PostmanInv
BY PostmanInitInv, PostmanNextInv, PTL DEF PostmanSpec

\* The clock and the deadlines stay within the time the messages have, no message
\* has more attempts than it may, and a link listed by a peer is bound to it.
THEOREM PostmanTypes == PostmanSpec => []PostmanTypeOK
<1>1. PostmanInv => PostmanTypeOK
  <2> SUFFICES ASSUME PostmanInv PROVE PostmanTypeOK
    OBVIOUS
  <2> DEFINE Q == Queued(con.inbox)
             H == Horizon(mail, Q, cast)
  <2>1. /\ now \in Nat /\ CastOK(cast) /\ con \in ConState(cast) /\ ConInv(con, now, cast)
        /\ KnownInv(con, known, cast) /\ MailInv(mail, Q, now, cast)
    BY CastIsOK DEF PostmanInv
  <2>2. H \in Nat /\ LastDeadline \in Nat /\ H <= LastDeadline
    <3> DEFINE A == Taken(mail, Q) D == DOMAIN mail.handle
               M == Cardinality(A) N == Cardinality(D)
    <3>1. IsFiniteSet(D) /\ A \subseteq D /\ cast.until \in Nat
      BY <2>1 DEF CastOK, MailInv, MailOK, Taken
    <3>2. H = cast.until + TTL * M /\ LastDeadline = cast.until + TTL * N
      BY DEF Horizon, LastDeadline
    <3> HIDE DEF A, D
    <3>3. M \in Nat /\ N \in Nat /\ M <= N
      BY <3>1, FS_Subset, FS_CardinalityType, ZenonT(40)
    <3> HIDE DEF M, N
    <3>4. TTL * M \in Nat /\ TTL * N \in Nat /\ TTL * M <= TTL * N
      BY <3>3, MailboxAssumption
    <3> QED
      BY ONLY <3>1, <3>2, <3>4
  <2> HIDE DEF H
  <2>3. now \in 0..LastDeadline
    <3>1. now \in Nat /\ now <= H
      BY ONLY <2>1 DEF MailInv, H
    <3> QED
      BY ONLY <2>2, <3>1
  <2>4. \A l \in LinkIds : con.links[l].failures \in Nat /\ con.links[l].opened \in -1..now
    BY <2>1, ConFields, Zenon DEF LinkIds, LinkState, ConInv, LinksInv
  <2>5. \A m \in DOMAIN mail.box :
          mail.box[m].deadline \in 0..LastDeadline /\ Len(mail.box[m].attempts) <= MaxAttempts
    <3>1. \A m \in DOMAIN mail.box :
            /\ mail.box[m].deadline \in Nat /\ mail.box[m].deadline <= H
            /\ Len(mail.box[m].attempts) <= MaxAttempts
      BY <2>1, Zenon DEF MailInv, MailOK, Pending, H
    <3> QED
      BY <2>2, <3>1
  <2>6. \A q \in DOMAIN known.peers : \A l \in known.peers[q].links : con.links[l].who = q
    BY <2>1, ZenonT(40) DEF KnownInv, ListedInv
  <2> QED
    BY <2>3, <2>4, <2>5, <2>6, ZenonT(40) DEF PostmanTypeOK
<1> QED
  BY <1>1, PostmanInvariance, PTL

\* Whatever is in the mailbox has a timer that will deal with it.
THEOREM ArmedTimers == PostmanSpec => []TimersArmed
<1>1. PostmanInv => TimersArmed
  BY Zenon DEF PostmanInv, MailInv, TimersArmed
<1> QED
  BY <1>1, PostmanInvariance, PTL

\* A link a peer lists is open, or its _LinkDown is to be handled, or it was bound
\* after that was handled.
THEOREM OpenLinksListed == PostmanSpec => []ListedLinksOpen
<1>1. PostmanInv => ListedLinksOpen
  BY Zenon DEF PostmanInv, ConInv, LinksInv, KnownInv, ListedInv, ListedLinksOpen
<1> QED
  BY <1>1, PostmanInvariance, PTL

\* The follower polls the peers the postman has, but for those made for an inbound
\* link before they were wanted.
THEOREM PeersPolled == PostmanSpec => []PolledArePeers
<1>1. PostmanInv => PolledArePeers
  BY DEF PostmanInv, KnownInv, PolledArePeers
<1> QED
  BY <1>1, PostmanInvariance, PTL
=============================================================================
