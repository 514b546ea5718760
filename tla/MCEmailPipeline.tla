---------------------------- MODULE MCEmailPipeline ----------------------------
(* An instance of EmailPipeline: messages of one thread. *)
EXTENDS EmailPipeline

CONSTANT t1

OneThread == [m \in Messages |-> t1]

=============================================================================
