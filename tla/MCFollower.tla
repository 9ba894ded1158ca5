----------------------------- MODULE MCFollower -----------------------------
(* Values of the constants of Follower for TLC. *)
EXTENDS Follower

\* Blocks 1 and 3 write the first part of the rows; block 2 is empty.
ThreeBlocks == <<1, 0, 1>>

\* Two peers that keep everything, with two faults; two of which one makes
\* checkpoints and collects; one alone that does, with a fault.
Cast(ps, cs, n) == [peers |-> ps, collecting |-> cs, faults |-> n]
SmallCasts ==
    {Cast({"p1", "p2"}, {}, 2), Cast({"p1", "p2"}, {"p1"}, 0), Cast({"p1"}, {"p1"}, 1)}
=============================================================================
