---------------------------- MODULE MCDataLayer ----------------------------
(* Values of the constants of DataLayer for TLC. *)
EXTENDS DataLayer

MCIds == {"anchor", "m", "w1", "w2", "app", "c", "n1", "n2", "n3", "n4", "n5"}
MCAuthors == {"anchor", "m", "w1", "w2", "app", "c"}

\* The second worker's clock is ahead of the first one's.
MCAhead == [c \in MCAuthors |-> IF c = "w2" THEN 1 ELSE IF c = "app" THEN 2 ELSE 0]
=============================================================================
