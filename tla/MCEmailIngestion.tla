--------------------------- MODULE MCEmailIngestion ---------------------------
(* An instance of EmailIngestion: messages of one thread. *)
EXTENDS EmailIngestion

CONSTANT t1

OneThread == [m \in Messages |-> t1]

=============================================================================
