--------------------------- MODULE RequestValidation ---------------------------
(***************************************************************************)
(* libs/schema-validation: decorators record a zod schema for a handler    *)
(* when its class is defined; the global SchemaValidationInterceptor and   *)
(* SchemaValidationPipe apply schemas to requests.  One handler and its    *)
(* requests.  Of a value only this is kept: what its schema makes of it.   *)
(***************************************************************************)
EXTENDS Naturals, Sequences

CONSTANT MaxDecorators  \* bound: decorators of the handler and its class

\* No schema, no answer yet.
None == "none"

\* What a handler of each kind is given.
SourcesOf(kind) ==
    CASE kind = "controller" -> {"body", "query", "params"}
      [] kind = "event" -> {"payload"}
      [] kind = "useCase" -> {"command"}

Kinds == {"controller", "event", "useCase"}

\* A value its schema returns as it is, returns changed (coerced, stripped,
\* with defaults), or refuses.
Value == {"exact", "loose", "bad"}

\* What a decorator records its schema for: the handler, or something that nobody
\* looks up.  A decorator of a method records for it.  One of a class records for the
\* class, and for the method execute as well if there is one: so do those of commands
\* and queries, and there even decorators of other methods record for execute only.
Decorator(kind) ==
    [source : SourcesOf(kind), for : IF kind = "useCase" THEN {"handler"} ELSE {"handler", "other"}]

VARIABLES
    kind,       \* what the handler is
    decorators, \* decorators not yet evaluated, topmost first
    pipes,      \* per source: "none", "check", "transform"
    metadata,   \* the source whose schema is recorded for the handler, or None
    topmost,    \* history: the source of the topmost decorator for the handler, or None
    pc,         \* "declaring", "idle", "intercepting", "piping", "handling"
    wrapped,    \* the event has a field data
    received,   \* the request as it arrived
    data,       \* the request as the handler is given it
    outcome     \* of the last request: None, "handled", "refused", "badRequest"

declaration == <<kind, pipes, topmost>>
vars == <<declaration, decorators, metadata, pc, wrapped, received, data, outcome>>

-----------------------------------------------------------------------------

SourceOfTopmost(s) ==
    IF \E i \in DOMAIN s : s[i].for = "handler"
    THEN s[CHOOSE i \in DOMAIN s : /\ s[i].for = "handler"
                                   /\ \A j \in 1..(i - 1) : s[j].for = "other"].source
    ELSE None

Declarations(k) == UNION {[1..n -> Decorator(k)] : n \in 0..MaxDecorators}

Init ==
    /\ kind \in Kinds
    /\ decorators \in Declarations(kind)
    /\ pipes \in [SourcesOf(kind) -> IF kind = "useCase" THEN {"none"}
                                     ELSE {"none", "check", "transform"}]
    /\ metadata = None
    /\ topmost = SourceOfTopmost(decorators)
    /\ pc = "declaring"
    /\ wrapped = FALSE
    /\ received = [s \in SourcesOf(kind) |-> "exact"]
    /\ data = received
    /\ outcome = None

\* Decorators are evaluated from the bottom up, and each overwrites what the one
\* before has recorded for the handler.
Decorate ==
    /\ pc = "declaring"
    /\ decorators # <<>>
    /\ decorators' = SubSeq(decorators, 1, Len(decorators) - 1)
    /\ LET d == decorators[Len(decorators)] IN
          metadata' = IF d.for = "handler" THEN d.source ELSE metadata
    /\ UNCHANGED <<declaration, pc, wrapped, received, data, outcome>>

Declared ==
    /\ pc = "declaring"
    /\ decorators = <<>>
    /\ pc' = "idle"
    /\ UNCHANGED <<declaration, decorators, metadata, wrapped, received, data, outcome>>

\* A request or an event comes in, or a bus executes a command or a query: no
\* interceptor and no pipe is run for those, and the schema of their class, which the
\* README of the library says validates them, is not applied.
Receive ==
    /\ pc = "idle"
    /\ received' \in [SourcesOf(kind) -> Value]
    /\ data' = received'
    /\ wrapped' \in {FALSE, kind = "event"}
    /\ outcome' = None
    /\ pc' = IF kind = "useCase" THEN "handling" ELSE "intercepting"
    /\ UNCHANGED <<declaration, decorators, metadata>>

End(result) ==
    /\ outcome' = result
    /\ pc' = "idle"
    /\ UNCHANGED <<declaration, decorators, metadata, wrapped, received>>

\* assignValidatedData: an event without data keeps its payload.
AssignValidated(s) ==
    data' = IF s = "payload" /\ ~wrapped THEN data ELSE [data EXCEPT ![s] = "exact"]

\* No schema for this handler.
PassThrough ==
    /\ pc = "intercepting"
    /\ metadata = None
    /\ pc' = "piping"
    /\ UNCHANGED <<declaration, decorators, metadata, wrapped, received, data, outcome>>

\* The schema accepts, and its result replaces the request's.
Validate ==
    /\ pc = "intercepting"
    /\ metadata \notin {None, "query"}
    /\ data[metadata] # "bad"
    /\ AssignValidated(metadata)
    /\ pc' = "piping"
    /\ UNCHANGED <<declaration, decorators, metadata, wrapped, received, outcome>>

\* Express has only a getter for request.query: the assignment throws a
\* TypeError, which becomes a BadRequestException.
AssignQuery ==
    /\ pc = "intercepting"
    /\ metadata = "query"
    /\ data["query"] # "bad"
    /\ End("badRequest")
    /\ UNCHANGED data

\* The schema refuses.  SchemaValidationException is not an HttpException, so
\* the caller is told of an internal server error.
Refuse ==
    /\ pc = "intercepting"
    /\ metadata # None
    /\ data[metadata] = "bad"
    /\ End("refused")
    /\ UNCHANGED data

Piped == {s \in SourcesOf(kind) : pipes[s] # "none"}

\* The pipes of the handler's parameters; without the option transform the
\* schema's result is thrown away.
RunPipes ==
    /\ pc = "piping"
    /\ \/ /\ \E s \in Piped : data[s] = "bad"
          /\ End("refused")
          /\ UNCHANGED data
       \/ /\ \A s \in Piped : data[s] # "bad"
          /\ data' = [s \in SourcesOf(kind) |->
                        IF pipes[s] = "transform" THEN "exact" ELSE data[s]]
          /\ pc' = "handling"
          /\ UNCHANGED <<declaration, decorators, metadata, wrapped, received, outcome>>

Handle ==
    /\ pc = "handling"
    /\ End("handled")
    /\ UNCHANGED data

Next ==
    \/ Decorate \/ Declared
    \/ Receive
    \/ PassThrough \/ Validate \/ AssignQuery \/ Refuse
    \/ RunPipes
    \/ Handle

Spec == Init /\ [][Next]_vars

-----------------------------------------------------------------------------
(* Properties.                                                             *)

\* Every variable stays within its type.
TypeOK ==
    /\ kind \in Kinds
    /\ decorators \in Seq(Decorator(kind))
    /\ pipes \in [SourcesOf(kind) -> {"none", "check", "transform"}]
    /\ {metadata, topmost} \subseteq SourcesOf(kind) \cup {None}
    /\ pc \in {"declaring", "idle", "intercepting", "piping", "handling"}
    /\ wrapped \in BOOLEAN
    /\ {received, data} \subseteq [SourcesOf(kind) -> Value]
    /\ outcome \in {None, "handled", "refused", "badRequest"}

\* A handler of requests or events works on data its schema refuses, or has not put
\* into shape, only where neither a pipe nor the topmost decorator looks: of several
\* decorators for a handler the lower ones protect nothing.
HandlerIsGuarded ==
    outcome = "handled" /\ kind # "useCase" => \A s \in SourcesOf(kind) :
        /\ data[s] = "bad" => pipes[s] = "none" /\ topmost # s
        /\ data[s] = "loose" => /\ pipes[s] # "transform"
                                /\ topmost = s => s = "payload" /\ ~wrapped

=============================================================================
