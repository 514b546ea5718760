--------------------------- MODULE MCThreadParsing ---------------------------
(* An instance of ThreadParsing. *)
EXTENDS ThreadParsing, TLC

\* Request slots are interchangeable, and so are threads.
Symmetry == Permutations(Parses) \cup Permutations(Threads)

=============================================================================
