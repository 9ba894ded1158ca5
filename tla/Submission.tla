----------------------------- MODULE Submission -----------------------------
(***************************************************************************)
(* Clients of the store: they compose transactions from rows they read and *)
(* submit them (dude/session.py).  A submitted transaction settles later,  *)
(* in any order with the others, against the rows of that moment; or it is *)
(* refused at the door, or lost.  A client that gave up waiting does not   *)
(* withdraw it.  Settled blocks are abstracted to the settlement of their  *)
(* transactions one by one: Consensus models how the order is agreed.      *)
(***************************************************************************)
EXTENDS Management

CONSTANTS
    Authors,    \* the identities that sign transactions
    MaxPool     \* how many transactions of one author may be unsettled

VARIABLES
    rows,       \* the live rows
    pool        \* pool[a]: the unsettled transactions of author a

submissionVars == <<rows, pool>>

\* Substrate.submit; a transaction without steps is not submitted.
Submit(a, steps) ==
    /\ steps # <<>> => Len(pool[a]) < MaxPool
    /\ pool' = IF steps = <<>> THEN pool ELSE [pool EXCEPT ![a] = Append(@, steps)]

\* A transaction is settled, or found not to apply and dropped.
SettleOne ==
    \E a \in Authors : \E i \in DOMAIN pool[a] :
        /\ rows' = Settle(rows,
                          Evaluate(rows, [author |-> a, steps |-> pool[a][i]]))
        /\ pool' = [pool EXCEPT ![a] = RemoveAt(@, i)]

\* A transaction is refused by the node it went to, or lost.
LoseOne ==
    \E a \in Authors : \E i \in DOMAIN pool[a] :
        /\ pool' = [pool EXCEPT ![a] = RemoveAt(@, i)]
        /\ UNCHANGED rows
=============================================================================
