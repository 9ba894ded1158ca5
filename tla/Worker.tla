------------------------------- MODULE Worker -------------------------------
(***************************************************************************)
(* Workers over one queue (dude/ds/worker.py): registration, the tick with *)
(* its heartbeat, lease renewal and reclaiming, the handler's thread, and  *)
(* the exits by stop, by an exception and by a crash.  Rows guarded by the *)
(* value read make the moment of each read immaterial, so a transaction is *)
(* composed in one step; waiting for it, and what runs meanwhile, is not.  *)
(***************************************************************************)
EXTENDS Submission, Queue

CONSTANTS
    Workers,        \* worker identities, also authors of transactions
    Jobs,           \* job identities, numbers in the order of their names
    App,            \* the author that submits jobs and cleans the registry
    LeaseDuration,
    Ahead,          \* Ahead[c]: how far the clock of client c is ahead
    MaxClock,       \* bound on the clock
    MaxCrashes      \* bound on crashes

VARIABLES
    worker,     \* worker[w]: the Worker object and where its thread is
    now,        \* the time, in units of which a lease lasts LeaseDuration
    ran,        \* jobs a handler has finished without an error
    crashes

workerVars == <<worker, now, ran, crashes>>

Clock(c) == now + Ahead[c]
Deadline(w) == Clock(w) + LeaseDuration
StaleAfter == 3 * LeaseDuration

RegistryRow(w) == <<"w", w>>
QueueRow(w) == <<"qw", w>>

NoClaim == [job |-> 0, deadline |-> 0]
NewWorker == [pc |-> "new", member |-> FALSE, claim |-> NoClaim, thread |-> "none",
              stopping |-> FALSE]

\* run registers a worker first; a program that calls tick itself need not.
WorkerInit(registers) ==
    /\ worker = [w \in Workers |->
                   IF registers THEN NewWorker ELSE [NewWorker EXCEPT !.pc = "idle"]]
    /\ now = 0 /\ ran = {} /\ crashes = 0

Claimed(w) == [job |-> worker[w].claim.job, deadline |-> worker[w].claim.deadline, worker |-> w]

\* The job the heartbeat reports: _active is set once a thread was started.
ActiveJob(w) == IF worker[w].thread = "none" THEN 0 ELSE worker[w].claim.job

\* WorkerRegistry.register
RegisterTx(w) ==
    Put(RegistryRow(w), Clock(w), {Absent}) \o Put(QueueRow(w), 0, {Absent})

\* Mutant: a heartbeat writes the registry row whatever it holds.
HeartbeatBlindly(w) ==
    IF ~worker[w].member \/ RegistryRow(w) \notin DOMAIN rows THEN <<>>
    ELSE Put(RegistryRow(w), Clock(w), {})

\* WorkerMembership.heartbeat
HeartbeatTx(w) ==
    IF ~worker[w].member \/ RegistryRow(w) \notin DOMAIN rows THEN <<>>
    ELSE Put(RegistryRow(w), Clock(w), {Expect(Get(rows, RegistryRow(w)))})
         \o IF QueueRow(w) \notin DOMAIN rows THEN <<>>
            ELSE Put(QueueRow(w), ActiveJob(w), {Expect(Get(rows, QueueRow(w)))})

\* WorkerRegistry.deregister_tx
DeregisterTx(w) ==
    IF RegistryRow(w) \notin DOMAIN rows THEN <<>>
    ELSE Delete(RegistryRow(w), {Expect(Get(rows, RegistryRow(w)))})
         \o IF QueueRow(w) \notin DOMAIN rows THEN <<>>
            ELSE Delete(QueueRow(w), {Expect(Get(rows, QueueRow(w)))})

\* Where the code goes on after _submit's wait returned.
After == [registering |-> "idle", ticked |-> "idle", beaten |-> "finish",
          finished |-> "claim", claiming |-> "idle", last |-> "leave"]

\* Worker._submit: waits unless there is nothing to submit.
SubmitThen(w, steps, pc) ==
    /\ Submit(w, steps)
    /\ worker' = [worker EXCEPT ![w].pc = IF steps = <<>> THEN After[pc] ELSE pc]
    /\ UNCHANGED <<rows, now, ran, crashes>>

\* An exception leaves run's loop for its finally clause.
RaiseIn(w) ==
    /\ worker' = [worker EXCEPT ![w].pc = "shutdown"]
    /\ UNCHANGED <<rows, pool, now, ran, crashes>>

\* Worker.register; the membership is set before the transaction is submitted.
Register(w) ==
    /\ worker[w].pc = "new"
    /\ Submit(w, RegisterTx(w))
    /\ worker' = [worker EXCEPT ![w].pc = "registering", ![w].member = TRUE]
    /\ UNCHANGED <<rows, now, ran, crashes>>

\* Worker.tick while the handler runs: the lease is renewed.  The deadline of
\* the claim is replaced whatever becomes of the transaction.
TickRenewing(w) ==
    /\ worker[w].pc = "idle" /\ ~worker[w].stopping /\ worker[w].thread = "alive"
    /\ \E steps \in {HeartbeatTx(w) \o ReclaimExpired(rows, Clock(w))
                     \o RenewLease(rows, Claimed(w), Deadline(w))} :
         \/ /\ Composes(steps)
            /\ Submit(w, steps)
            /\ worker' = [worker EXCEPT ![w].pc = "ticked", ![w].claim.deadline = Deadline(w)]
            /\ UNCHANGED <<rows, now, ran, crashes>>
         \/ ~Composes(steps) /\ RaiseIn(w)

\* Worker.tick otherwise.
TickIdle(w) ==
    /\ worker[w].pc = "idle" /\ ~worker[w].stopping /\ worker[w].thread # "alive"
    /\ \E steps \in {HeartbeatTx(w) \o ReclaimExpired(rows, Clock(w))} :
         \/ Composes(steps) /\ SubmitThen(w, steps, "beaten")
         \/ ~Composes(steps) /\ RaiseIn(w)

\* Mutant: _finish_handler does not look at the handler's error.
FinishAsDone(w) ==
    IF worker[w].thread \in {"ok", "error"} THEN Complete(rows, Claimed(w)) ELSE <<>>

\* The transaction _finish_handler submits for a handler that has ended.
FinishTx(w) ==
    CASE worker[w].thread = "ok" -> Complete(rows, Claimed(w))
      [] worker[w].thread = "error" -> Reclaim(rows, Claimed(w))
      [] OTHER -> <<>>

\* Worker._finish_handler, from tick and from _shutdown_handler.
FinishHandler(w) ==
    /\ worker[w].pc \in {"finish", "shutdown"}
    /\ \E steps \in {FinishTx(w)} :
         \/ /\ Composes(steps)
            /\ SubmitThen(w, steps, IF worker[w].pc = "finish" THEN "finished" ELSE "last")
         \/ /\ ~Composes(steps)
            /\ worker' = [worker EXCEPT ![w].pc = IF @ = "finish" THEN "shutdown" ELSE "dead"]
            /\ UNCHANGED <<rows, pool, now, ran, crashes>>

\* Worker._try_claim: any pending job.
TryClaim(w) ==
    /\ worker[w].pc = "claim"
    /\ \/ /\ Claimable(rows) = {}
          /\ worker' = [worker EXCEPT ![w].pc = "idle"]
          /\ UNCHANGED <<rows, pool, now, ran, crashes>>
       \/ \E job \in Claimable(rows) :
            /\ Submit(w, ClaimJob(rows, w, Deadline(w), job))
            /\ worker' = [worker EXCEPT ![w].pc = "claiming",
                                        ![w].claim = [job |-> job, deadline |-> Deadline(w)]]
            /\ UNCHANGED <<rows, now, ran, crashes>>

\* Worker.deregister
Deregister(w) ==
    /\ worker[w].pc = "leave"
    /\ Submit(w, IF worker[w].member THEN DeregisterTx(w) ELSE <<>>)
    /\ worker' = [worker EXCEPT ![w].pc = "dead", ![w].member = FALSE]
    /\ UNCHANGED <<rows, now, ran, crashes>>

\* The wait returns: settled, refused or unknown, the code does not look.  After
\* a claim the handler's thread starts, after _finish_handler it is forgotten.
WaitReturns(w) ==
    /\ worker[w].pc \in DOMAIN After
    /\ LET finished == worker[w].pc \in {"finished", "last"}
       IN  worker' = [worker EXCEPT
             ![w].pc = After[@],
             ![w].thread = IF finished THEN "none"
                           ELSE IF worker[w].pc = "claiming" THEN "alive" ELSE @,
             ![w].claim = IF finished THEN NoClaim ELSE @]
    /\ UNCHANGED <<rows, pool, now, ran, crashes>>

\* The wait times out and raises; the transaction may settle all the same.
WaitRaises(w) ==
    /\ worker[w].pc \in DOMAIN After
    /\ worker' = [worker EXCEPT
         ![w].pc = IF @ \in {"registering", "last"} THEN "dead" ELSE "shutdown",
         ![w].claim = IF worker[w].pc = "claiming" THEN NoClaim ELSE @]
    /\ UNCHANGED <<rows, pool, now, ran, crashes>>

\* run's loop sees the stop flag that Worker.stop set.
LeaveLoop(w) == worker[w].pc = "idle" /\ worker[w].stopping /\ RaiseIn(w)

\* Worker.stop
Stop(w) ==
    /\ worker[w].pc \notin {"new", "dead"} /\ ~worker[w].stopping
    /\ worker' = [worker EXCEPT ![w].stopping = TRUE]
    /\ UNCHANGED <<rows, pool, now, ran, crashes>>

\* Worker._handler_target returns, or records the handler's exception.
HandlerEnds(w) ==
    /\ worker[w].thread = "alive"
    /\ \E how \in {"ok", "error"} :
         /\ worker' = [worker EXCEPT ![w].thread = how]
         /\ ran' = IF how = "ok" THEN ran \cup {worker[w].claim.job} ELSE ran
    /\ UNCHANGED <<rows, pool, now, crashes>>

\* The process ends, its handler's thread with it.
WorkerCrash(w) ==
    /\ worker[w].pc \notin {"new", "dead"} /\ crashes < MaxCrashes
    /\ worker' = [worker EXCEPT ![w] = [NewWorker EXCEPT !.pc = "dead"]]
    /\ crashes' = crashes + 1
    /\ UNCHANGED <<rows, pool, now, ran>>

\* BoundQueue.submit, of a job that was never submitted before.
SubmitJob(job) ==
    /\ <<"data", job>> \notin DOMAIN rows /\ pool[App] = <<>>
    /\ Submit(App, QueueSubmit(job))
    /\ UNCHANGED <<rows, worker, now, ran, crashes>>

\* WorkerRegistry.cleanup_stale
StaleWorkers == {w \in Workers : \E ts \in Get(rows, RegistryRow(w)) : Clock(App) - ts > StaleAfter}
CleanupStale ==
    /\ StaleWorkers # {} /\ pool[App] = <<>>
    /\ Submit(App, FlattenSeq([i \in DOMAIN SetToSeq(StaleWorkers) |->
                                 DeregisterTx(SetToSeq(StaleWorkers)[i])]))
    /\ UNCHANGED <<rows, worker, now, ran, crashes>>

Elapse ==
    /\ now < MaxClock
    /\ now' = now + 1
    /\ UNCHANGED <<rows, pool, worker, ran, crashes>>

WorkerNext ==
    \/ \E w \in Workers :
         \/ TickIdle(w) \/ FinishHandler(w) \/ TryClaim(w) \/ Deregister(w)
         \/ WaitReturns(w) \/ WaitRaises(w) \/ WorkerCrash(w)
    \/ Elapse

JobsNext ==
    \/ \E w \in Workers : TickRenewing(w) \/ HandlerEnds(w)
    \/ \E job \in Jobs : SubmitJob(job)

RegistryNext == CleanupStale \/ \E w \in Workers : Register(w) \/ LeaveLoop(w) \/ Stop(w)
=============================================================================
