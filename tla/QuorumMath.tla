----------------------------- MODULE QuorumMath -----------------------------
(***************************************************************************)
(* The quorum arithmetic of dude/quorum.py: how many members of a roster   *)
(* of n must agree, and what follows from that number.                     *)
(***************************************************************************)
EXTENDS Integers

\* Mutant: a third is enough.
SizeOfThird(n) == (n + 2) \div 3

\* size: two thirds of the roster, rounded up (Python's -(-2 * n // 3)).
Size(n) == (2 * n + 2) \div 3

\* intersection: how many members two quorums must have in common.
Intersection(n) == 2 * Size(n) - n

\* tolerates: members that may lie without two quorums certifying two answers.
Tolerates(n) == IF Intersection(n) - 1 > 0 THEN Intersection(n) - 1 ELSE 0

\* corroboration: independent reports that contain one from an honest member.
Corroboration(n) == Tolerates(n) + 1
=============================================================================
