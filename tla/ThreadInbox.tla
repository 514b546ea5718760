------------------------------ MODULE ThreadInbox ------------------------------
(***************************************************************************)
(* What the workflow of an e-mail thread promises to those who signal it:  *)
(* a first-in first-out inbox.  A message is settled when the workflow has *)
(* acted on its verdict, or when it is dropped together with everything    *)
(* behind it because the execution that held it is over.                   *)
(***************************************************************************)
EXTENDS Naturals, Sequences

CONSTANTS Workflows, Messages

VARIABLES accepted, settled

vars == <<accepted, settled>>

Init ==
    /\ accepted = [w \in Workflows |-> <<>>]
    /\ settled = [w \in Workflows |-> <<>>]

\* How many messages are settled is also where the next one stands.
Waiting(w) == Len(settled[w]) + 1 .. Len(accepted[w])

Accept(w) ==
    /\ \E m \in Messages : accepted' = [accepted EXCEPT ![w] = Append(@, m)]
    /\ UNCHANGED settled

Parse(w) ==
    /\ Waiting(w) # {}
    /\ settled' = [settled EXCEPT ![w] = Append(@,
            [message |-> accepted[w][Len(@) + 1], outcome |-> "parsed"])]
    /\ UNCHANGED accepted

Abandon(w) ==
    /\ Waiting(w) # {}
    /\ settled' = [settled EXCEPT ![w] =
            [i \in DOMAIN accepted[w] |->
                IF i <= Len(settled[w]) THEN settled[w][i]
                ELSE [message |-> accepted[w][i], outcome |-> "dropped"]]]
    /\ UNCHANGED accepted

Next == \E w \in Workflows : Accept(w) \/ Parse(w) \/ Abandon(w)

Spec == Init /\ [][Next]_vars

\* No message of w waits for ever.
ServesFairly(w) == WF_vars(Parse(w) \/ Abandon(w))

=============================================================================
