------------------------------- MODULE Ledger -------------------------------
(***************************************************************************)
(* What following a chain promises, with no word of peers, messages,       *)
(* threads or log indices: a copy of the chain's rows that shows the state *)
(* after some settled block, whole, and moves by one block or, when it is  *)
(* loaded from a checkpoint, to any settled block at once.                 *)
(***************************************************************************)
EXTENDS Integers

CONSTANT State      \* State[b]: the rows after block b

VARIABLES
    settled,    \* the last block that is settled anywhere
    at,         \* the block the copy claims to be at
    rows,       \* the rows it shows
    torn        \* whether the promise was forfeited

vars == <<settled, at, rows, torn>>

Init == settled \in Nat /\ at = 0 /\ rows = State[0] /\ ~torn

Settles == settled' = settled + 1 /\ UNCHANGED <<at, rows, torn>>

Moves(b) == /\ b <= settled
            /\ at' = b /\ rows' = State[b]
            /\ UNCHANGED settled

Extends == ~torn /\ Moves(at + 1) /\ UNCHANGED torn

\* torn' is free: loading at a bad moment is what forfeits the promise.
Loads == ~torn /\ \E b \in DOMAIN State : Moves(b) /\ torn' \in BOOLEAN

Forfeited == torn /\ torn' /\ settled' \in settled..(settled + 1)

Next == Settles \/ Extends \/ Loads \/ Forfeited

Spec == Init /\ [][Next]_vars
=============================================================================
