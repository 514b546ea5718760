--------------------------- MODULE MCPolledIngestion ---------------------------
(* Instances of PolledIngestion: two messages of one thread. *)
EXTENDS PolledIngestion, TLC

CONSTANT t1

OneThread == [m \in Messages |-> t1]

\* Requests are interchangeable.
Symmetry == Permutations(Requests)

=============================================================================
