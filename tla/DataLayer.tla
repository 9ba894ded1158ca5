----------------------------- MODULE DataLayer -----------------------------
(***************************************************************************)
(* Workers, managers and session clients over one store.  A behaviour has  *)
(* one cast: the applications that are active in it.                       *)
(***************************************************************************)
EXTENDS Worker, Manager

CONSTANTS
    Casts,      \* a subset of {"jobs", "registry", "roster", "keys"}
    Seats       \* the nodes genesis seats

VARIABLE cast

vars == <<submissionVars, workerVars, managerVars, cast>>

\* The clients genesis grants.
Clients == IF cast \in {"jobs", "registry"} THEN Workers \cup {App} ELSE Writers

Init ==
    /\ cast \in Casts
    /\ \E genesis \in {Genesis(IF cast \in {"jobs", "registry"} THEN {} ELSE Managers,
                                IF cast = "roster" THEN {} ELSE Clients,
                                IF cast = "roster" THEN Seats ELSE {})} :
         genesis.ok /\ rows = genesis.rows
    /\ pool = [a \in Authors |-> <<>>]
    /\ WorkerInit(cast = "registry") /\ ManagerInit

Store == (SettleOne \/ LoseOne) /\ RecordMeta /\ UNCHANGED <<workerVars, manager, keys, changes>>

Next ==
    \/ Store /\ UNCHANGED cast
    \/ cast = "jobs" /\ (WorkerNext \/ JobsNext) /\ UNCHANGED <<managerVars, cast>>
    \/ cast = "registry" /\ (WorkerNext \/ RegistryNext) /\ UNCHANGED <<managerVars, cast>>
    \/ cast = "roster" /\ RosterNext /\ UNCHANGED <<workerVars, cast>>
    \/ cast = "keys" /\ KeysNext /\ UNCHANGED <<workerVars, cast>>

Spec == Init /\ [][Next]_vars

-----------------------------------------------------------------------------

\* The variables' types: every author has a bounded number of unsettled
\* transactions, and a session's cache never names an epoch not minted yet.
TypeOK ==
    /\ \A a \in Authors : Len(pool[a]) <= MaxPool
    /\ \A w \in Workers : /\ worker[w].pc \in DOMAIN After \cup
                               {"new", "idle", "finish", "claim", "shutdown", "leave", "dead"}
                          /\ worker[w].thread \in {"none", "alive", "ok", "error"}
    /\ now \in 0..MaxClock /\ ran \subseteq Jobs /\ crashes \in 0..MaxCrashes
    /\ \A m \in Signers : manager[m].pc \in {"idle", "meta", "rows"}
    /\ \A c \in Writers : keys[c].epoch \in 0..CurrentEpoch(rows)
    /\ changes \in 0..MaxChanges /\ recurred \in BOOLEAN /\ cast \in Casts

Held(job) == {w \in Workers : Active(w, job) \in DOMAIN rows}
LeasesOf(job) == {n \in Leases(rows) : n[3] = job}

\* A submitted job is in one place: pending, or active at one worker under one
\* lease, or nowhere any more, whatever claims, renewals, completions and
\* reclaims of several workers settled, were refused, were lost or settled late
\* (dude/ds/queue.py, dude/ds/worker.py).
JobInOnePlace ==
    \A job \in Jobs :
        LET places == Cardinality(Held(job)) + Cardinality({Pending(job)} \cap DOMAIN rows)
        IN  places <= 1 /\ Cardinality(LeasesOf(job)) = Cardinality(Held(job))

\* A job leaves the queue only after a handler finished it without an error:
\* neither crashes, exceptions, expired leases nor lost races drop a job
\* (Worker._finish_handler).
DoneOnlyIfRan ==
    \A job \in Jobs :
        \/ <<"data", job>> \notin DOMAIN rows
        \/ Pending(job) \in DOMAIN rows \/ Held(job) # {}
        \/ job \in ran

\* The registry's two rows of a worker are there together or not at all, though
\* registration, heartbeat, departure and cleanup race (WorkerRegistry).
RegistryAgrees ==
    \A w \in Workers : RegistryRow(w) \in DOMAIN rows <=> QueueRow(w) \in DOMAIN rows

\* The node map stays dense under concurrent changes as long as no meta row
\* comes back: the guard on the meta row is all that orders them
\* (ManagedMap.tx_add, tx_remove).
DenseWhileFresh == recurred \/ Dense(rows, "node")

\* Whoever can unwrap the epoch a value was sealed under unwraps the master it
\* was sealed with, although managers rotate concurrently and sessions keep
\* epochs and masters for life (MgmtWriter.rotate, KeyCache.seal).
SealedReadable ==
    \A n \in {m \in DOMAIN rows : m[1] = "sealed"} : \A who \in Ids :
        \A master \in Get(rows, WrapRow(rows[n].epoch, who)) : master = rows[n].master

\* Everyone genesis gave keys to can unwrap every epoch minted since
\* (MgmtWriter.rotate: bump and every wrap, or neither).
EpochsWrapped ==
    cast = "keys" =>
        \A e \in 1..CurrentEpoch(rows), who \in Signers \cup Writers :
            WrapRow(e, who) \in DOMAIN rows

\* Every recorded node is attested by a signer that is still authorised, so that
\* a revocation unseats nobody (MgmtWriter.revoke: "Revocation MUST re-issue
\* everything the key attested, in the same transaction").
NodesAttested == Seated(rows) = DOMAIN NodeRecords(rows)
=============================================================================
