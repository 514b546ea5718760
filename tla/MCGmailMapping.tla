---------------------------- MODULE MCGmailMapping ----------------------------
(* An instance of GmailMapping: small trees, and the kinds of parts that mail *)
(* is made of. *)
EXTENDS GmailMapping, FiniteSets

CONSTANT MaxParts  \* bound: parts below the payload

Degree(tree, p) == Cardinality({q \in tree : Len(q) = Len(p) + 1 /\ SubSeq(q, 1, Len(p)) = p})

\* All trees of n parts below the payload: each has one leaf more than another.
TreesOf[n \in Nat] ==
    IF n = 0 THEN {{<<>>}}
    ELSE UNION {{tree \cup {Append(p, Degree(tree, p) + 1)} : p \in tree} : tree \in TreesOf[n - 1]}

SmallTrees == UNION {TreesOf[n] : n \in 0..MaxParts}

MailParts == {
    [type |-> "other", content |-> "none", named |-> FALSE],        \* multipart/*
    [type |-> "plain", content |-> "data", named |-> FALSE],        \* text
    [type |-> "html", content |-> "data", named |-> FALSE],
    [type |-> "plain", content |-> "attachment", named |-> TRUE],   \* a file, or an attached message
    [type |-> "text", content |-> "data", named |-> TRUE] }         \* text/calendar with a name

=============================================================================
