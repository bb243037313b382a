------------------------------- MODULE Tracing -------------------------------
(***************************************************************************)
(* How the domain events of a worker get their trace.  The controller and  *)
(* the event handlers put the trace of a call, or the parent event, in a   *)
(* slot of their use case; the use case's next save takes it.  There is    *)
(* one controller and one handler helper in a worker, so its coroutines    *)
(* share both slots, and await the load between putting and taking.        *)
(*                                                                         *)
(* The steps of a call are those of CommandService, of one worker; rows,   *)
(* locks and transactions are left out, a load or a save may always fail.  *)
(***************************************************************************)
EXTENDS Integers, Sequences, FiniteSets

CONSTANTS
    Requests,   \* HTTP requests; each is its own trace id (X-Trace-Id, or a new uuid4)
    Bodies,     \* the bodies considered: [cmd, calls], a call being its number of items
    NoTrace

ASSUME TraceAssumption == Requests \cap Int = {} /\ NoTrace \notin Requests \cup Int

ASSUME BodiesAssumption ==
    \A b \in Bodies :
        /\ b.cmd \in {"CREATE", "UPDATE", "VOID", "DELETE"}
        /\ b.calls \in Seq(Nat \ {0})

VARIABLES
    \* the coroutines: pc is the await each is suspended at, "out" between calls
    pc, body,
    call,       \* how many calls the request has begun
    item,
    event,      \* the event of the current item
    \* the worker
    use_case,   \* the slots of the controller's use case and of the handlers'
    events,     \* every event given its tracing, in order; span_id is its position
    met         \* met[r]: the requests whose calls overlapped r's current one

coroutine == <<pc, body, call, item, event>>
vars == <<coroutine, use_case, events, met>>

UseCases == {"controller", "handlers"}

PCs == {"out", "load", "save", "handle", "handler_save", "read", "commit"}

Spans == 1 .. Len(events)

Init ==
    /\ pc = [r \in Requests |-> "out"]
    /\ body \in [Requests -> Bodies]
    /\ call = [r \in Requests |-> 0]
    /\ item = [r \in Requests |-> 1]
    /\ event = [r \in Requests |-> 0]
    /\ use_case = [u \in UseCases |-> [parent_event |-> 0, trace_id |-> NoTrace]]
    /\ events = <<>>
    /\ met = [r \in Requests |-> {}]

Running == {r \in Requests : pc[r] # "out"}

Size(r) == body[r].calls[call[r]]

-----------------------------------------------------------------------------

\* Mutant: a trace that is there already is kept.
WithTraceIfNone(ucs, u, t) ==
    IF ucs[u].trace_id # NoTrace THEN ucs
    ELSE [ucs EXCEPT ![u] = [parent_event |-> 0, trace_id |-> t]]

\* The two setters: each forgets what the other put.
WithTrace(ucs, u, t) == [ucs EXCEPT ![u] = [parent_event |-> 0, trace_id |-> t]]

\* Mutant: the handlers' use case is not told.
WithParentForgotten(ucs, u, span) == ucs

WithParent(ucs, u, span) ==
    [ucs EXCEPT ![u] = [parent_event |-> span, trace_id |-> NoTrace]]

\* Mutant: the trace is not taken out.
TakenButKept(slot) == [slot EXCEPT !.parent_event = 0]

\* What _save_tracing leaves in the slot: it takes one of the two.
Taken(slot) ==
    IF slot.parent_event # 0 THEN [slot EXCEPT !.parent_event = 0]
    ELSE [slot EXCEPT !.trace_id = NoTrace]

\* save_events_tracing, on an event whose tracer starts a trace of its own.
Traced(slot, span) ==
    IF slot.parent_event # 0
    THEN [parent |-> slot.parent_event, trace |-> events[slot.parent_event].trace]
    ELSE [parent |-> 0, trace |-> IF slot.trace_id # NoTrace THEN slot.trace_id ELSE span]

\* _save_tracing in r's use case u, whose slots are ucs.  The event also keeps,
\* for the properties: of which request, for which item, by an event handler of
\* which event (or 0), and whom the call had met.
SaveTracing(r, ucs, u, n, handled) ==
    LET span == Len(events) + 1
        t == Traced(ucs[u], span)
    IN /\ events' = Append(events,
              [parent |-> t.parent, trace |-> t.trace,
               by |-> r, item |-> n, handled |-> handled, met |-> met'[r]])
       /\ use_case' = [ucs EXCEPT ![u] = Taken(@)]
       /\ event' = [event EXCEPT ![r] = span]

\* Item n of r's call: a creation saves its event before the first await, the
\* other commands await the load.
Begin(r, ucs, n) ==
    /\ item' = [item EXCEPT ![r] = n]
    /\ \/ /\ body[r].cmd = "CREATE"
          /\ SaveTracing(r, ucs, "controller", n, 0)
          /\ pc' = [pc EXCEPT ![r] = "save"]
       \/ /\ body[r].cmd # "CREATE"
          /\ use_case' = ucs
          /\ pc' = [pc EXCEPT ![r] = "load"]
          /\ UNCHANGED <<events, event>>

\* The decorator of the controller, and the call up to its first await.
Enter(r) ==
    /\ pc[r] = "out" /\ call[r] < Len(body[r].calls)
    /\ call' = [call EXCEPT ![r] = @ + 1]
    /\ met' = [q \in Requests |->
                  IF q = r THEN Running
                  ELSE IF q \in Running THEN met[q] \cup {r} ELSE met[q]]
    /\ Begin(r, WithTrace(use_case, "controller", r), 1)
    /\ UNCHANGED body

\* The row is loaded, the command accepted, and its event saved.
Load(r) ==
    /\ pc[r] = "load"
    /\ UNCHANGED met
    /\ SaveTracing(r, use_case, "controller", item[r], 0)
    /\ pc' = [pc EXCEPT ![r] = "save"]
    /\ UNCHANGED <<body, call, item>>

\* Mutant: one item too many.
MoreItemsOffByOne(r) == item[r] <= Size(r)

MoreItems(r) == item[r] < Size(r)

\* The item is done: the next one, or the commit.
Advance(r) ==
    \/ MoreItems(r) /\ Begin(r, use_case, item[r] + 1)
    \/ /\ ~MoreItems(r)
       /\ pc' = [pc EXCEPT ![r] = "commit"]
       /\ UNCHANGED <<item, event, use_case, events>>

\* save_your_aggregate is done and the event bus runs the event's handler, which
\* puts the event in the slot before its first await.
Save(r) ==
    /\ pc[r] = "save"
    /\ UNCHANGED <<met, body, call>>
    /\ \/ /\ body[r].cmd \in {"CREATE", "VOID"}
          /\ use_case' = WithParent(use_case, "handlers", event[r])
          /\ pc' = [pc EXCEPT ![r] = IF body[r].cmd = "CREATE" THEN "handle" ELSE "read"]
          /\ UNCHANGED <<item, event, events>>
       \/ body[r].cmd \notin {"CREATE", "VOID"} /\ Advance(r)

\* The creation's handler has loaded the row and saves its update.
Handle(r) ==
    /\ pc[r] = "handle"
    /\ UNCHANGED met
    /\ SaveTracing(r, use_case, "handlers", item[r], event[r])
    /\ pc' = [pc EXCEPT ![r] = "handler_save"]
    /\ UNCHANGED <<body, call, item>>

\* The handler ends; the voiding's one saves nothing and leaves the slot as it is.
HandlerEnds(r) ==
    /\ pc[r] \in {"handler_save", "read"}
    /\ UNCHANGED <<met, body, call>>
    /\ Advance(r)

\* The call ends, by its commit or by an exception at any await; its entity goes.
Leave(r) ==
    /\ pc[r] # "out"
    /\ pc' = [pc EXCEPT ![r] = "out"]
    /\ item' = [item EXCEPT ![r] = 1]
    /\ event' = [event EXCEPT ![r] = 0]
    /\ met' = [met EXCEPT ![r] = {}]
    /\ UNCHANGED <<body, call, use_case, events>>

AllOver ==
    /\ \A r \in Requests : pc[r] = "out" /\ call[r] = Len(body[r].calls)
    /\ UNCHANGED vars

Next ==
    \/ \E r \in Requests :
        Enter(r) \/ Load(r) \/ Save(r) \/ Handle(r) \/ HandlerEnds(r) \/ Leave(r)
    \/ AllOver

Spec == Init /\ [][Next]_vars

-----------------------------------------------------------------------------
(* Properties *)

\* Types, and each call within its items.
TypeOK ==
    /\ pc \in [Requests -> PCs]
    /\ body \in [Requests -> Bodies]
    /\ event \in [Requests -> 0 .. Len(events)]
    /\ \A r \in Requests : r \in Running => item[r] \in 1 .. Size(r)
    /\ use_case \in [UseCases ->
           [parent_event : 0 .. Len(events), trace_id : Requests \cup {NoTrace}]]
    /\ \A n \in Spans : events[n].trace \in Requests \cup Spans

\* The events that were given r's trace itself, not a parent in it.
Roots(r) == {n \in Spans : events[n].parent = 0 /\ events[n].trace = r}

\* The root events that carry r's trace, whoever saved them, are no more than the
\* calls r has begun: what one save took from the slot no other save gets, however
\* the coroutines interleave.
TracesAreTakenOnce == \A r \in Requests : Cardinality(Roots(r)) <= call[r]

\* The request an event's trace or parent came from; itself if from nowhere.
SourceOf(n) ==
    IF events[n].parent # 0 THEN events[events[n].parent].by
    ELSE IF events[n].trace = n THEN events[n].by
    ELSE events[n].trace

\* An event that is not in its own request's trace is in the trace of a request
\* that overlapped it: what failing calls and voiding handlers leave in the
\* slots never reaches a later call.
TracesComeFromOverlappingCalls ==
    \A n \in Spans : SourceOf(n) \in {events[n].by} \cup events[n].met

\* As long as it overlaps no other, a call puts its request's trace on the event
\* of its first item, and on no other, and the event that a handler adds has as
\* its parent the event that was handled.
UndisturbedCallsAreTraced ==
    \A n \in Spans : events[n].met = {} =>
        IF events[n].handled # 0 THEN events[n].parent = events[n].handled
        ELSE /\ events[n].parent = 0
             /\ events[n].trace = IF events[n].item = 1 THEN events[n].by ELSE n
=============================================================================
