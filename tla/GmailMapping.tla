------------------------------ MODULE GmailMapping ------------------------------
(***************************************************************************)
(* GmailClientMapper: what of a Gmail message's MIME tree becomes the body *)
(* and the attachments of an email.  getBody and getAttachments walk the   *)
(* tree one after the other.                                               *)
(*                                                                         *)
(* A part is named by its path: <<>> is the payload itself, <<2, 1>> the   *)
(* first part of its second part.  Text and file contents are kept as the  *)
(* path of the part they come from.                                        *)
(***************************************************************************)
EXTENDS Naturals, Sequences

CONSTANTS
    Trees,  \* the shapes a message may have: sets of paths
    Parts,  \* the parts it may be made of
    None

\* What the walks look at: the MIME type; whether the part's content is in it
\* (body.data), elsewhere (body.attachmentId) or missing; the file name.
Part == [type : {"plain", "html", "text", "other"},
         content : {"data", "attachment", "none"},
         named : BOOLEAN]

\* A part lies in a part, after those numbered before it.
IsTree(tree) ==
    /\ tree \subseteq Seq(Nat \ {0})
    /\ <<>> \in tree
    /\ \A p \in tree : \A n \in 1..Len(p) : \A i \in 1..p[n] :
          Append(SubSeq(p, 1, n - 1), i) \in tree

ASSUME MappingAssumption ==
    /\ \A tree \in Trees : IsTree(tree) /\ None \notin tree
    /\ Parts \subseteq Part

VARIABLES
    payload,     \* the MIME tree: a part for every path
    pc,          \* "start", "body", "files", "done"
    at,          \* the indices of the loops under way, outermost first
    plainText,   \* result.plainText: the part it was decoded from, or None
    html,        \* result.html
    body,        \* the part that became the body of the email, or None
    attachments  \* the parts that became attachments, in order

vars == <<payload, pc, at, plainText, html, body, attachments>>

-----------------------------------------------------------------------------

\* Gmail puts content into leaves only; a message/rfc822 part is the exception:
\* it is an attachment and has parts.
WellFormed(tree) ==
    \A p \in DOMAIN tree : Append(p, 1) \in DOMAIN tree => tree[p].content # "data"

Payloads == {tree \in UNION {[t -> Parts] : t \in Trees} : WellFormed(tree)}

Init ==
    /\ payload \in Payloads
    /\ pc = "start"
    /\ at = <<>>
    /\ plainText = None
    /\ html = None
    /\ body = None
    /\ attachments = <<>>

Paths == DOMAIN payload

Texts(type) == {p \in Paths : payload[p].type = type /\ payload[p].content = "data"}

Files == {p \in Paths : payload[p].named /\ payload[p].content = "attachment"}

-----------------------------------------------------------------------------
(* walkParts: a loop over the parts of a part, which calls itself.  The    *)
(* indices of the loops under way are the path of the part looked at.      *)

\* Mistake: the loop looks for one part too many.
HasPartUpTo(p) ==
    p # <<>> /\ (p \in Paths \/ [p EXCEPT ![Len(p)] = @ - 1] \in Paths)

\* The innermost loop has a next part.
HasPart(p) == p # <<>> /\ p \in Paths

\* Mistake: the walk goes on with the siblings and forgets a part's parts.
SkipParts(p) == at' = [p EXCEPT ![Len(p)] = @ + 1]

\* walkParts(part.parts); for a part without parts a loop that ends at once.
WalkParts(p) == at' = Append(p, 1)

\* The part whose parts the innermost loop is over.
Caller(p) == SubSeq(p, 1, Len(p) - 1)

\* The innermost loop is over, and the one around it goes on.
LoopEnds ==
    /\ pc \in {"body", "files"}
    /\ at # <<>>
    /\ ~HasPart(at)
    /\ at' = IF Caller(at) = <<>> THEN <<>>
             ELSE [Caller(at) EXCEPT ![Len(Caller(at))] = @ + 1]
    /\ UNCHANGED <<payload, pc, plainText, html, body, attachments>>

\* getBody looks at the payload: text is the body, else its parts are walked.
StartBody ==
    /\ pc = "start"
    /\ pc' = "body"
    /\ plainText' = IF <<>> \in Texts("plain") THEN <<>> ELSE plainText
    /\ html' = IF <<>> \in Texts("html") THEN <<>> ELSE html
    /\ at' = IF \E type \in {"plain", "html", "text"} : <<>> \in Texts(type) THEN <<>> ELSE <<1>>
    /\ UNCHANGED <<payload, body, attachments>>

\* Mistake: the first text wins.
KeepFirst(p) ==
    /\ plainText' = IF p \in Texts("plain") /\ plainText = None THEN p ELSE plainText
    /\ html' = IF p \in Texts("html") /\ html = None THEN p ELSE html

\* A text overwrites the one found before.
KeepText(p) ==
    /\ plainText' = IF p \in Texts("plain") THEN p ELSE plainText
    /\ html' = IF p \in Texts("html") THEN p ELSE html

WalkBody ==
    /\ pc = "body"
    /\ HasPart(at)
    /\ KeepText(at)
    /\ WalkParts(at)
    /\ UNCHANGED <<payload, pc, body, attachments>>

\* getAttachments looks at the payload: its parts are walked, or it is a file.
StartFiles ==
    /\ pc = "body"
    /\ at = <<>>
    /\ pc' = "files"
    /\ IF <<1>> \in Paths
       THEN at' = <<1>> /\ UNCHANGED attachments
       ELSE /\ attachments' = IF <<>> \in Files THEN <<<<>>>> ELSE attachments
            /\ UNCHANGED at
    /\ UNCHANGED <<payload, plainText, html, body>>

WalkFiles ==
    /\ pc = "files"
    /\ HasPart(at)
    /\ attachments' = IF at \in Files THEN Append(attachments, at) ELSE attachments
    /\ WalkParts(at)
    /\ UNCHANGED <<payload, pc, plainText, html, body>>

\* The email is made: body.plainText || body.html || ''.
Finish ==
    /\ pc = "files"
    /\ at = <<>>
    /\ pc' = "done"
    /\ body' = IF plainText # None THEN plainText ELSE html
    /\ UNCHANGED <<payload, at, plainText, html, attachments>>

Next == StartBody \/ WalkBody \/ StartFiles \/ WalkFiles \/ LoopEnds \/ Finish

Spec == Init /\ [][Next]_vars

-----------------------------------------------------------------------------
(* Properties.                                                             *)

\* Every variable stays within its type, and a loop under way is one over the
\* parts of a part.
TypeOK ==
    /\ payload \in Payloads
    /\ pc \in {"start", "body", "files", "done"}
    /\ at \in Seq(Nat \ {0})
    /\ at # <<>> => Caller(at) \in Paths
    /\ {plainText, html, body} \subseteq Paths \cup {None}
    /\ attachments \in Seq(Paths)

\* Document order: p comes before its own parts and before those of later siblings.
Before(p, q) ==
    \/ Len(p) < Len(q) /\ SubSeq(q, 1, Len(p)) = p
    \/ \E n \in 1..Len(p) : /\ n <= Len(q)
                            /\ SubSeq(p, 1, n - 1) = SubSeq(q, 1, n - 1)
                            /\ p[n] < q[n]

\* The last of several texts in document order, wherever it is nested: a reply's
\* own text gives way to that of a message attached below it.
IsLast(p, texts) ==
    IF texts = {} THEN p = None
    ELSE p \in texts /\ \A q \in texts : q = p \/ Before(q, p)

\* What the core service gets to read of a message is decided here: the body is
\* the last plain text of the tree in document order, else the last HTML.
BodyIsLastText ==
    pc = "done" =>
        IsLast(body, IF Texts("plain") # {} THEN Texts("plain") ELSE Texts("html"))

\* Every file below the payload becomes one attachment, in document order, those
\* inside attached messages too; the payload itself only if it has no parts.
FilesInOrder ==
    pc = "done" =>
        /\ {attachments[i] : i \in DOMAIN attachments} =
               {p \in Files : p = <<>> => Paths = {<<>>}}
        /\ \A i, j \in DOMAIN attachments : i < j => Before(attachments[i], attachments[j])

=============================================================================
