----------------------------- MODULE MCConsensus -----------------------------
(* Values of the constants of Consensus for TLC. *)
EXTENDS ConsensusInv

CONSTANTS n1, n2, n3, n4

MCNodes == {n1, n2, n3}

\* A step that writes key k where the values in accepts are held.
Write(k, accepts) ==
    [key |-> k, deletes |-> FALSE, needs |-> {}, soft |-> FALSE,
     guards |-> {[key |-> k, accepts |-> accepts]}]
Whatever == Txs \cup {Absent}

Symmetry == Permutations(MCNodes)
OneSymmetry == Permutations({n1, n2})

\* No transactions: every block is empty, and blocks differ by their bucket.
NoSteps == <<>>
NoDoor == <<>>

\* Transaction 1 writes "a" whatever it holds, 2 claims "a" while it is absent
\* and so loses to 1 in one block, 3 is a compactor's and travels alone.
ClaimSteps == (1 :> <<Write("a", Whatever)>>) @@ (2 :> <<Write("a", {Absent})>>)
              @@ (3 :> <<Write("b", {Absent})>>)
ClaimStamp == (1 :> 1) @@ (2 :> 2) @@ (3 :> 0)
ClaimDoor == (1 :> {n1, n2}) @@ (2 :> {n2}) @@ (3 :> {n1})

\* One transaction, held by two of the three nodes.
OneStep == 1 :> <<Write("a", {Absent})>>
BlindStep == 1 :> <<Write("a", Whatever)>>
OneStamp == 1 :> 0
OneDoor == 1 :> {n1, n2}

\* Transaction 1 replaces the member n3 of the roster by n4.
RosterNodes == {n1, n2, n3, n4}
RosterStep == 1 :> <<Write("roster", {Absent})>>
Replaced == 1 :> {n1, n2, n4}
=============================================================================
