------------------------------- MODULE Queue -------------------------------
(***************************************************************************)
(* The lease-based job queue (dude/ds/queue.py): the transactions that     *)
(* move a job between its pending row, a worker's active row with a lease, *)
(* and nothing.  The payload is the name of the job's data row, which      *)
(* depends on the job alone.                                               *)
(***************************************************************************)
EXTENDS Rows

Pending(job) == <<"pending", job>>
Active(worker, job) == <<"active", worker, job>>
Lease(deadline, job) == <<"lease", deadline, job>>
DataKey(job) == job

Leases(rows) == {n \in DOMAIN rows : n[1] = "lease"}

\* Queue.submit, with the data row BoundQueue.submit adds.
QueueSubmit(job) ==
    Put(<<"data", job>>, job, {}) \o Put(Pending(job), DataKey(job), {Absent})

\* claim_random picks any pending job.
Claimable(rows) == {n[2] : n \in KeysUnder(rows, <<"pending">>)}

\* _claim_job
ClaimJob(rows, worker, deadline, job) ==
    Delete(Pending(job), {Expect(Get(rows, Pending(job)))})
    \o Put(Active(worker, job), DataKey(job), {Absent})
    \o Put(Lease(deadline, job), worker, {Absent})

\* Mutant: complete drops the job whoever holds the lease by now.
CompleteUnguarded(rows, claim) ==
    Delete(Active(claim.worker, claim.job), {})
    \o Delete(Lease(claim.deadline, claim.job), {})

Complete(rows, claim) ==
    Delete(Active(claim.worker, claim.job),
           {Expect(Get(rows, Active(claim.worker, claim.job)))})
    \o Delete(Lease(claim.deadline, claim.job),
              {Expect(Get(rows, Lease(claim.deadline, claim.job)))})

Reclaim(rows, claim) == Complete(rows, claim) \o Put(Pending(claim.job), DataKey(claim.job), {})

RenewLease(rows, claim, deadline) ==
    Delete(Lease(claim.deadline, claim.job),
           {Expect(Get(rows, Lease(claim.deadline, claim.job)))})
    \o Put(Lease(deadline, claim.job), claim.worker, {Absent})

\* The lease reclaim_expired(limit=1) looks at: the first by deadline, then job.
FirstLease(rows) ==
    {n \in Leases(rows) :
        \A o \in Leases(rows) : n[2] < o[2] \/ (n[2] = o[2] /\ n[3] <= o[3])}

\* reclaim_expired
ReclaimExpired(rows, now) ==
    LET expired == {n \in FirstLease(rows) : n[2] <= now}
        lease   == CHOOSE n \in expired : TRUE
    IN  IF expired = {} THEN <<>>
        ELSE Delete(lease, {Expect(Get(rows, lease))})
             \o Delete(Active(rows[lease], lease[3]),
                       {Expect(Get(rows, Active(rows[lease], lease[3])))})
             \o Put(Pending(lease[3]), DataKey(lease[3]), {})
=============================================================================
