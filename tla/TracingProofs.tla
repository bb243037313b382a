--------------------------- MODULE TracingProofs ---------------------------
(***************************************************************************)
(* Tracing is correct for any number of requests, whatever their commands  *)
(* and however many items their calls have: a child event is in the trace  *)
(* of its parent, a trace never reaches the event of a request that did    *)
(* not overlap its own, and a call that overlaps no other is traced right. *)
(***************************************************************************)
EXTENDS Tracing, SequenceTheorems, FiniteSetTheorems, TLAPS

(***************************************************************************)
(* The inductive invariant.                                                *)
(***************************************************************************)

Event ==
    [parent : Nat, trace : Requests \cup Nat, by : Requests, item : Nat,
     handled : Nat, met : SUBSET Requests]

Empty == [parent_event |-> 0, trace_id |-> NoTrace]

\* Slots when there are k events: the controller has no parents to put, the
\* handlers no traces.
SlotTypes(ucs, k) ==
    /\ ucs \in [UseCases -> [parent_event : 0 .. k, trace_id : Requests \cup {NoTrace}]]
    /\ ucs["controller"].parent_event = 0
    /\ ucs["handlers"].trace_id = NoTrace

CoroutineTypes ==
    /\ pc \in [Requests -> PCs]
    /\ body \in [Requests -> Bodies]
    /\ call \in [Requests -> Nat]
    /\ item \in [Requests -> Nat]
    /\ event \in [Requests -> 0 .. Len(events)]
    /\ met \in [Requests -> SUBSET Requests]
    /\ \A r \in Running : call[r] \in 1 .. Len(body[r].calls) /\ item[r] \in 1 .. Size(r)

\* A parent is older than its child, which is in its trace.
ChildrenFollowParents ==
    \A n \in Spans : LET p == events[n].parent IN
        p # 0 => p < n /\ events[n].trace = events[p].trace

\* The events that were saved are as they should be.
EventList ==
    /\ events \in Seq(Event)
    /\ \A n \in Spans : events[n].trace \in Requests \cup Spans
    /\ ChildrenFollowParents
    /\ TracesComeFromOverlappingCalls
    /\ UndisturbedCallsAreTraced

\* A coroutine that runs the event bus has the event its request saved.
OwnEvents ==
    \A r \in Requests : pc[r] \in {"save", "handle"} =>
        event[r] # 0 /\ events[event[r]].by = r

\* Whoever runs beside a call has been met by it.
AllMet == \A r \in Running : Running \ {r} \subseteq met[r]

\* What a running call can find in a slot is its own or of someone it met.
SlotsAreMet ==
    /\ \A r \in Running : use_case["controller"].trace_id \in {NoTrace, r} \cup met[r]
    /\ \A r \in Requests : pc[r] = "handle" =>
          LET p == use_case["handlers"].parent_event
          IN p # 0 => events[p].by \in {r} \cup met[r]

\* As long as a call has met nobody, the slots have what it put there.
QuietSlots ==
    \A r \in Running : met[r] = {} =>
        /\ use_case["controller"].trace_id = (IF pc[r] = "load" /\ item[r] = 1 THEN r ELSE NoTrace)
        /\ pc[r] = "handle" => use_case["handlers"].parent_event = event[r]

IInv ==
    /\ CoroutineTypes /\ SlotTypes(use_case, Len(events))
    /\ EventList
    /\ OwnEvents /\ AllMet /\ SlotsAreMet /\ QuietSlots

(***************************************************************************)
(* Saving an event.                                                        *)
(***************************************************************************)

LEMMA AppendOne ==
    ASSUME NEW S, NEW q \in Seq(S), NEW x \in S, NEW q2, q2 = Append(q, x)
    PROVE  /\ Len(q) \in Nat /\ Len(q2) = Len(q) + 1 /\ q2 \in Seq(S)
           /\ q2[Len(q) + 1] = x /\ \A n \in 1 .. Len(q) : q2[n] = q[n]
  OBVIOUS

\* One more event that is as it should be.
LEMMA EventAdded ==
    ASSUME EventList, NEW e \in Event, events' = Append(events, e),
           e.parent \in 0 .. Len(events),
           e.trace \in Requests \cup 1 .. Len(events) + 1,
           e.parent # 0 => /\ e.trace = events[e.parent].trace
                           /\ events[e.parent].by \in {e.by} \cup e.met,
           e.parent = 0 => e.trace \in {Len(events) + 1, e.by} \cup e.met,
           e.met = {} =>
               IF e.handled # 0 THEN e.parent = e.handled
               ELSE /\ e.parent = 0
                    /\ e.trace = IF e.item = 1 THEN e.by ELSE Len(events) + 1
    PROVE  /\ EventList' /\ Len(events') = Len(events) + 1
           /\ \A n \in Spans : events'[n] = events[n]
           /\ events'[Len(events) + 1] = e
  <1> DEFINE k == Len(events) + 1
  <1>1. /\ Len(events) \in Nat /\ Len(events') = k /\ events' \in Seq(Event)
        /\ events'[k] = e /\ \A n \in Spans : events'[n] = events[n]
    <2>1. events \in Seq(Event)
      BY DEF EventList
    <2>2. /\ Len(events) \in Nat /\ Len(events') = Len(events) + 1 /\ events' \in Seq(Event)
          /\ events'[Len(events) + 1] = e
          /\ \A n \in 1 .. Len(events) : events'[n] = events[n]
      BY <2>1
    <2> QED BY <2>2, Zenon DEF Spans
  <1>2. Spans' = Spans \cup {k} /\ k \notin Spans /\ k # 0
    BY DEF Spans
  <1>3. \A n \in Spans : events[n] \in Event /\ events[n].parent \in Nat
    <2>1. events \in Seq(Event)
      BY DEF EventList
    <2>2. \A n \in Spans : events[n] \in Event
      BY <2>1 DEF Spans
    <2> QED BY <2>2 DEF Event
  <1>4. \A n \in Spans : events[n].parent # 0 => events[n].parent \in Spans /\ events[n].parent < n
    BY <1>3 DEF EventList, ChildrenFollowParents, Spans
  <1> HIDE DEF k
  <1>6. ASSUME NEW n \in Spans'
        PROVE  events'[n].trace \in Requests \cup Spans'
    <2>1. CASE n = k
      BY <2>1 DEF Spans, k
    <2>2. CASE n \in Spans
      BY <1>1, <1>2, <2>2 DEF EventList
    <2> QED BY <1>2, <2>1, <2>2
  <1>7. ChildrenFollowParents'
    <2> SUFFICES ASSUME NEW n \in Spans', events'[n].parent # 0
                 PROVE  /\ events'[n].parent < n
                        /\ events'[n].trace = events'[events'[n].parent].trace
      BY DEF ChildrenFollowParents
    <2>1. CASE n = k
      BY <1>1, <2>1
    <2>2. CASE n \in Spans
      <3>1. events'[n] = events[n] /\ events[n].parent \in Spans /\ events[n].parent < n
        BY <1>1, <1>4, <2>2
      <3>2. events'[events[n].parent] = events[events[n].parent]
        BY <1>1, <3>1
      <3>3. events[n].trace = events[events[n].parent].trace
        BY <2>2, <3>1 DEF EventList, ChildrenFollowParents
      <3> QED BY <3>1, <3>2, <3>3
    <2> QED BY <1>2, <2>1, <2>2
  <1>8. TracesComeFromOverlappingCalls'
    <2> SUFFICES ASSUME NEW n \in Spans'
                 PROVE  SourceOf(n)' \in {events'[n].by} \cup events'[n].met
      BY DEF TracesComeFromOverlappingCalls
    <2>1. CASE n = k
      <3>1. CASE e.parent # 0
        <4>1. events'[n] = e /\ events'[e.parent] = events[e.parent]
          BY <1>1, <2>1, <3>1
        <4> QED BY <3>1, <4>1 DEF SourceOf
      <3>2. CASE e.parent = 0
        <4>1. events'[n] = e
          BY <1>1, <2>1
        <4>2. SourceOf(n)' = IF e.trace = n THEN e.by ELSE e.trace
          BY <3>2, <4>1 DEF SourceOf
        <4>3. e.trace \in {n, e.by} \cup e.met
          BY <2>1, <3>2 DEF k
        <4> QED BY <4>1, <4>2, <4>3
      <3> QED BY <3>1, <3>2
    <2>2. CASE n \in Spans
      <3>1. SourceOf(n)' = SourceOf(n)
        <4>1. events'[n] = events[n]
          BY <1>1, <2>2
        <4>2. events[n].parent # 0 => events'[events[n].parent] = events[events[n].parent]
          BY <1>1, <1>4, <2>2
        <4> QED BY <4>1, <4>2 DEF SourceOf
      <3> QED BY <1>1, <2>2, <3>1 DEF EventList, TracesComeFromOverlappingCalls
    <2> QED BY <1>2, <2>1, <2>2
  <1>9. UndisturbedCallsAreTraced'
    <2> SUFFICES ASSUME NEW n \in Spans', events'[n].met = {}
                 PROVE  IF events'[n].handled # 0 THEN events'[n].parent = events'[n].handled
                        ELSE /\ events'[n].parent = 0
                             /\ events'[n].trace = IF events'[n].item = 1 THEN events'[n].by ELSE n
      BY DEF UndisturbedCallsAreTraced
    <2>1. CASE n = k
      BY <2>1 DEF k
    <2>2. CASE n \in Spans
      BY <1>1, <2>2 DEF EventList, UndisturbedCallsAreTraced
    <2> QED BY <1>2, <2>1, <2>2
  <1> QED BY <1>1, <1>6, <1>7, <1>8, <1>9 DEF EventList, k

\* A save by request r, given what is in the slot.
LEMMA SaveStep ==
    ASSUME EventList, NEW r \in Requests, NEW ucs, SlotTypes(ucs, Len(events)),
           NEW u \in UseCases, NEW n \in Nat, NEW h \in Nat,
           SaveTracing(r, ucs, u, n, h), met' \in [Requests -> SUBSET Requests],
           ucs[u].parent_event # 0 => events[ucs[u].parent_event].by \in {r} \cup met'[r],
           ucs[u].trace_id \in {NoTrace, r} \cup met'[r],
           met'[r] = {} =>
               IF h # 0 THEN ucs[u].parent_event = h
               ELSE /\ ucs[u].parent_event = 0
                    /\ ucs[u].trace_id = IF n = 1 THEN r ELSE NoTrace
    PROVE  /\ EventList' /\ Len(events') = Len(events) + 1
           /\ \A k \in Spans : events'[k] = events[k]
           /\ events'[Len(events) + 1].by = r
           /\ use_case' = [ucs EXCEPT ![u] = Empty]
           /\ event' = [event EXCEPT ![r] = Len(events) + 1]
  <1> DEFINE span == Len(events) + 1
             t == Traced(ucs[u], span)
             e == [parent |-> t.parent, trace |-> t.trace, by |-> r, item |-> n,
                   handled |-> h, met |-> met'[r]]
  <1>1. Len(events) \in Nat /\ \A k \in Spans : events[k] \in Event /\ events[k].trace \in Requests \cup Spans
    BY DEF EventList, Spans
  <1>2. /\ events' = Append(events, e) /\ use_case' = [ucs EXCEPT ![u] = Taken(@)]
        /\ event' = [event EXCEPT ![r] = span]
    BY DEF SaveTracing
  <1>3. /\ ucs[u] \in [parent_event : 0 .. Len(events), trace_id : Requests \cup {NoTrace}]
        /\ ucs[u].parent_event = 0 \/ ucs[u].trace_id = NoTrace
    BY DEF SlotTypes, UseCases
  <1>4. Taken(ucs[u]) = Empty
    BY <1>3 DEF Taken, Empty
  <1>5. use_case' = [ucs EXCEPT ![u] = Empty]
    BY <1>2, <1>4
  <1>6. CASE ucs[u].parent_event # 0
    <2>1. t.parent = ucs[u].parent_event /\ t.trace = events[ucs[u].parent_event].trace
      BY <1>6 DEF Traced
    <2>2. ucs[u].parent_event \in Spans
      BY <1>3, <1>6 DEF Spans
    <2>3. t.parent \in 0 .. Len(events) /\ t.trace \in Requests \cup 1 .. span
      BY <1>1, <2>1, <2>2 DEF Spans
    <2>4. e \in Event
      BY <2>3 DEF Event
    <2>6. /\ e.parent = t.parent /\ e.trace = t.trace /\ e.by = r /\ e.item = n
          /\ e.handled = h /\ e.met = met'[r]
      OBVIOUS
    <2> HIDE DEF t, e
    <2> QED BY <1>2, <1>5, <1>6, <2>1, <2>3, <2>4, <2>6, EventAdded
  <1>7. CASE ucs[u].parent_event = 0
    <2>1. t.parent = 0 /\ t.trace = IF ucs[u].trace_id # NoTrace THEN ucs[u].trace_id ELSE span
      BY <1>7 DEF Traced
    <2>2. t.parent \in 0 .. Len(events) /\ t.trace \in Requests \cup 1 .. span
      BY <2>1
    <2>3. e \in Event
      BY <2>2 DEF Event
    <2>5. met'[r] = {} =>
              IF h # 0 THEN t.parent = h
              ELSE t.parent = 0 /\ t.trace = IF n = 1 THEN r ELSE span
      BY <1>7, <2>1, TraceAssumption
    <2>6. /\ e.parent = t.parent /\ e.trace = t.trace /\ e.by = r /\ e.item = n
          /\ e.handled = h /\ e.met = met'[r]
      OBVIOUS
    <2> HIDE DEF t, e
    <2> QED BY <1>2, <1>5, <2>1, <2>2, <2>3, <2>5, <2>6, EventAdded
  <1> QED BY <1>6, <1>7

(***************************************************************************)
(* The steps.                                                              *)
(***************************************************************************)

\* Request r goes on inside its call, with perhaps another event and other slots.
LEMMA GoesOn ==
    ASSUME IInv, NEW r \in Running, NEW p \in PCs \ {"out"}, NEW n \in 1 .. Size(r),
           pc' = [pc EXCEPT ![r] = p], item' = [item EXCEPT ![r] = n],
           UNCHANGED <<body, call, met>>,
           EventList', Len(events') \in Nat, Len(events') >= Len(events),
           \A m \in Spans : events'[m] = events[m],
           event' \in [Requests -> 0 .. Len(events')],
           \A q \in Requests \ {r} : event'[q] = event[q],
           p \in {"save", "handle"} => event'[r] # 0 /\ events'[event'[r]].by = r,
           SlotTypes(use_case', Len(events')),
           use_case'["controller"].trace_id \in {use_case["controller"].trace_id, NoTrace},
           LET s == use_case'["handlers"].parent_event
           IN s \notin {0, use_case["handlers"].parent_event} => events'[s].by = r,
           p = "handle" => use_case'["handlers"].parent_event = event'[r],
           met[r] = {} => use_case'["controller"].trace_id = IF p = "load" /\ n = 1 THEN r ELSE NoTrace
    PROVE  IInv'
  <1>1. /\ r \in Requests /\ pc \in [Requests -> PCs] /\ item \in [Requests -> Nat]
        /\ Running \subseteq Requests /\ Running' = Running
        /\ \A q \in Requests : pc'[q] = (IF q = r THEN p ELSE pc[q])
                            /\ item'[q] = (IF q = r THEN n ELSE item[q])
    BY DEF IInv, CoroutineTypes, Running
  <1>3. \A q \in Requests : Size(q)' = Size(q)
    BY DEF Size
  <1>4. CoroutineTypes'
    <2>2. \A q \in Running : call'[q] \in 1 .. Len(body'[q].calls) /\ item'[q] \in 1 .. Size(q)'
      BY <1>1, <1>3 DEF IInv, CoroutineTypes
    <2> QED BY <1>1, <2>2 DEF IInv, CoroutineTypes
  <1>5. OwnEvents'
    <2> SUFFICES ASSUME NEW q \in Requests, pc'[q] \in {"save", "handle"}
                 PROVE  event'[q] # 0 /\ events'[event'[q]].by = q
      BY DEF OwnEvents
    <2>1. CASE q = r
      BY <1>1, <2>1
    <2>2. CASE q # r
      <3>1. event'[q] = event[q] /\ event[q] # 0 /\ events[event[q]].by = q
        BY <2>2 DEF IInv, OwnEvents
      <3>2. event[q] \in 0 .. Len(events) /\ Len(events) \in Nat
        BY DEF IInv, CoroutineTypes
      <3>3. event[q] \in Spans
        BY <3>1, <3>2 DEF Spans
      <3> QED BY <3>1, <3>3
    <2> QED BY <2>1, <2>2
  <1>6. AllMet'
    BY <1>1 DEF IInv, AllMet
  <1>7. SlotsAreMet'
    <2>1. ASSUME NEW q \in Running
          PROVE  use_case'["controller"].trace_id \in {NoTrace, q} \cup met[q]
      BY DEF IInv, SlotsAreMet
    <2>2. ASSUME NEW q \in Requests, pc'[q] = "handle", use_case'["handlers"].parent_event # 0
          PROVE  events'[use_case'["handlers"].parent_event].by \in {q} \cup met[q]
      <3> DEFINE s == use_case'["handlers"].parent_event
      <3>1. q \in Running
        BY <2>2 DEF Running
      <3>2. r = q \/ r \in met[q]
        BY <3>1 DEF IInv, AllMet
      <3>3. CASE events'[s].by = r
        BY <3>2, <3>3
      <3>4. CASE q = r
        BY <1>1, <2>2, <3>4
      <3>5. CASE q # r /\ s = use_case["handlers"].parent_event
        <4>1. s \in 0 .. Len(events) /\ Len(events) \in Nat
          BY <3>5 DEF IInv, SlotTypes, UseCases
        <4>2. s \in Spans
          BY <2>2, <4>1 DEF Spans
        <4>3. events[s].by \in {q} \cup met[q]
          BY <2>2, <3>5 DEF IInv, SlotsAreMet
        <4> QED BY <4>2, <4>3
      <3> QED BY <2>2, <3>3, <3>4, <3>5
    <2> QED BY <1>1, <2>1, <2>2 DEF SlotsAreMet
  <1>8. QuietSlots'
    <2> SUFFICES ASSUME NEW q \in Running, met[q] = {}
                 PROVE  /\ use_case'["controller"].trace_id = (IF pc'[q] = "load" /\ item'[q] = 1 THEN q ELSE NoTrace)
                        /\ pc'[q] = "handle" => use_case'["handlers"].parent_event = event'[q]
      BY <1>1 DEF QuietSlots
    <2>1. q = r
      BY DEF IInv, AllMet
    <2> QED BY <1>1, <2>1
  <1> QED BY <1>4, <1>5, <1>6, <1>7, <1>8 DEF IInv

LEMMA SameEvents ==
    ASSUME IInv, UNCHANGED events
    PROVE  /\ EventList' /\ Len(events') = Len(events) /\ Len(events) \in Nat
           /\ \A m \in Spans : events'[m] = events[m]
  BY DEF IInv, EventList, Spans, ChildrenFollowParents,
         TracesComeFromOverlappingCalls, SourceOf, UndisturbedCallsAreTraced

\* Slots stay well typed when events are added.
LEMMA MoreEvents ==
    ASSUME NEW k \in Nat, NEW m \in Nat, m >= k, NEW ucs, SlotTypes(ucs, k)
    PROVE  SlotTypes(ucs, m)
  BY DEF SlotTypes

\* What holds of a coroutine that runs.
LEMMA RunningTypes ==
    ASSUME IInv, NEW r \in Running
    PROVE  /\ r \in Requests /\ pc[r] \in PCs \ {"out"}
           /\ Size(r) \in Nat /\ item[r] \in 1 .. Size(r)
           /\ event[r] \in 0 .. Len(events)
  <1>1. r \in Requests /\ pc[r] # "out"
    BY DEF Running
  <1>2. body[r] \in Bodies /\ call[r] \in 1 .. Len(body[r].calls)
    BY <1>1 DEF IInv, CoroutineTypes
  <1>3. body[r].calls \in Seq(Nat \ {0})
    BY <1>2, BodiesAssumption
  <1>4. Size(r) \in Nat
    BY <1>2, <1>3 DEF Size
  <1> QED BY <1>1, <1>4 DEF IInv, CoroutineTypes

\* The controller's use case saves the event of item n.
LEMMA ControllerSaves ==
    ASSUME IInv, NEW r \in Running, NEW n \in 1 .. Size(r),
           IF pc[r] = "load" THEN n = item[r] ELSE n # 1,
           SaveTracing(r, use_case, "controller", n, 0),
           pc' = [pc EXCEPT ![r] = "save"], item' = [item EXCEPT ![r] = n],
           UNCHANGED <<body, call, met>>
    PROVE  IInv'
  <1>1. /\ EventList' /\ Len(events') = Len(events) + 1
        /\ \A m \in Spans : events'[m] = events[m]
        /\ events'[Len(events) + 1].by = r
        /\ use_case' = [use_case EXCEPT !["controller"] = Empty]
        /\ event' = [event EXCEPT ![r] = Len(events) + 1]
    <2>1. r \in Requests /\ n \in Nat /\ item[r] \in Nat /\ Size(r) \in Nat
      BY RunningTypes
    <2>2. use_case["controller"].parent_event = 0 /\ "controller" \in UseCases
      BY DEF IInv, SlotTypes, UseCases
    <2>3. use_case["controller"].trace_id \in {NoTrace, r} \cup met'[r]
      BY DEF IInv, SlotsAreMet
    <2>4. met'[r] = {} => use_case["controller"].trace_id = IF n = 1 THEN r ELSE NoTrace
      BY DEF IInv, QuietSlots
    <2>5. met' \in [Requests -> SUBSET Requests]
      BY DEF IInv, CoroutineTypes
    <2> QED BY <2>1, <2>2, <2>3, <2>4, <2>5, SaveStep DEF IInv
  <1>2. Len(events) \in Nat /\ Len(events') \in Nat /\ Len(events') >= Len(events)
    BY <1>1
  <1>3. /\ r \in Requests /\ event \in [Requests -> 0 .. Len(events)]
        /\ use_case \in [UseCases -> [parent_event : 0 .. Len(events), trace_id : Requests \cup {NoTrace}]]
    BY RunningTypes DEF IInv, CoroutineTypes, SlotTypes
  <1>4. /\ event' \in [Requests -> 0 .. Len(events')] /\ event'[r] = Len(events) + 1
        /\ \A q \in Requests \ {r} : event'[q] = event[q]
    BY <1>1, <1>3
  <1>5. /\ use_case'["controller"] = Empty /\ use_case'["handlers"] = use_case["handlers"]
        /\ SlotTypes(use_case', Len(events'))
    <2>1. Empty \in [parent_event : 0 .. Len(events'), trace_id : Requests \cup {NoTrace}]
      BY DEF Empty
    <2>2. use_case'["controller"] = Empty /\ use_case'["handlers"] = use_case["handlers"]
      BY <1>1, <1>3 DEF UseCases
    <2>3. SlotTypes(use_case, Len(events'))
      BY <1>2, MoreEvents DEF IInv
    <2>4. use_case' \in [UseCases -> [parent_event : 0 .. Len(events'), trace_id : Requests \cup {NoTrace}]]
      BY <1>1, <2>1, <2>3 DEF SlotTypes
    <2> QED BY <2>2, <2>4 DEF IInv, SlotTypes, Empty
  <1>6. use_case'["controller"].trace_id = NoTrace
    BY <1>5 DEF Empty
  <1> DEFINE p == "save"
  <1>7. p \in PCs \ {"out"} /\ p # "load" /\ p # "handle" /\ pc' = [pc EXCEPT ![r] = p]
    BY DEF PCs
  <1>8. event'[r] # 0 /\ events'[event'[r]].by = r
    BY <1>1, <1>4
  <1>9. use_case'["handlers"].parent_event = use_case["handlers"].parent_event
    BY <1>5
  <1>10. /\ EventList' /\ SlotTypes(use_case', Len(events'))
         /\ \A m \in Spans : events'[m] = events[m]
    BY <1>1, <1>5
  <1> HIDE DEF p
  <1> QED BY <1>2, <1>4, <1>6, <1>7, <1>8, <1>9, <1>10, GoesOn

LEMMA AdvanceStep ==
    ASSUME IInv, NEW r \in Running, pc[r] \in {"save", "handler_save", "read"},
           Advance(r), UNCHANGED <<body, call, met>>
    PROVE  IInv'
  <1>1. /\ r \in Requests /\ Size(r) \in Nat /\ item[r] \in 1 .. Size(r)
        /\ event \in [Requests -> 0 .. Len(events)] /\ item \in [Requests -> Nat]
    BY RunningTypes DEF IInv, CoroutineTypes
  <1>2. met[r] = {} => use_case["controller"].trace_id = NoTrace
    BY DEF IInv, QuietSlots
  <1>3. ASSUME NEW p \in {"load", "commit"}, NEW n \in 1 .. Size(r), p = "load" => n # 1,
               pc' = [pc EXCEPT ![r] = p], item' = [item EXCEPT ![r] = n],
               UNCHANGED <<event, use_case, events>>
        PROVE  IInv'
    <2>1. p \in PCs \ {"out"} /\ p \notin {"save", "handle"}
      BY DEF PCs
    <2>2. SlotTypes(use_case', Len(events'))
      BY <1>3 DEF IInv
    <2>3. met[r] = {} => use_case'["controller"].trace_id = IF p = "load" /\ n = 1 THEN r ELSE NoTrace
      BY <1>2, <1>3
    <2>4. /\ EventList' /\ Len(events') \in Nat /\ Len(events') >= Len(events)
          /\ \A m \in Spans : events'[m] = events[m]
      BY <1>3, SameEvents
    <2>5. event' \in [Requests -> 0 .. Len(events')] /\ \A q \in Requests \ {r} : event'[q] = event[q]
      BY <1>1, <1>3
    <2> QED BY <1>3, <2>1, <2>2, <2>3, <2>4, <2>5, GoesOn
  <1>4. CASE MoreItems(r) /\ Begin(r, use_case, item[r] + 1)
    <2>1. item[r] + 1 \in 1 .. Size(r) /\ item[r] + 1 # 1
      BY <1>1, <1>4 DEF MoreItems
    <2>2. CASE body[r].cmd = "CREATE"
      BY <1>4, <2>1, <2>2, ControllerSaves DEF Begin
    <2>3. CASE body[r].cmd # "CREATE"
      <3>1. /\ pc' = [pc EXCEPT ![r] = "load"] /\ item' = [item EXCEPT ![r] = item[r] + 1]
            /\ UNCHANGED <<event, use_case, events>>
        BY <1>4, <2>3 DEF Begin
      <3> QED BY <1>3, <2>1, <3>1
    <2> QED BY <2>2, <2>3
  <1>5. CASE ~MoreItems(r) /\ pc' = [pc EXCEPT ![r] = "commit"] /\ UNCHANGED <<item, event, use_case, events>>
    BY <1>1, <1>3, <1>5
  <1> QED BY <1>4, <1>5 DEF Advance

LEMMA LoadStep == ASSUME IInv, NEW r \in Requests, Load(r) PROVE IInv'
  <1>1. r \in Running
    BY DEF Load, Running
  <1>2. /\ item[r] \in 1 .. Size(r) /\ item' = [item EXCEPT ![r] = item[r]]
    BY <1>1 DEF Load, IInv, CoroutineTypes
  <1> QED BY <1>1, <1>2, ControllerSaves DEF Load

\* The event bus puts the event in the handlers' slot, or nobody handles it.
LEMMA SaveActionStep == ASSUME IInv, NEW r \in Requests, Save(r) PROVE IInv'
  <1>1. /\ pc[r] = "save" /\ r \in Running /\ UNCHANGED <<met, body, call>>
    BY DEF Save, Running
  <1>2. CASE /\ body[r].cmd \in {"CREATE", "VOID"}
             /\ use_case' = WithParent(use_case, "handlers", event[r])
             /\ pc' = [pc EXCEPT ![r] = IF body[r].cmd = "CREATE" THEN "handle" ELSE "read"]
             /\ UNCHANGED <<item, event, events>>
    <2> DEFINE p == IF body[r].cmd = "CREATE" THEN "handle" ELSE "read"
    <2>1. /\ item[r] \in 1 .. Size(r) /\ event[r] \in 0 .. Len(events)
          /\ item' = [item EXCEPT ![r] = item[r]] /\ event \in [Requests -> 0 .. Len(events)]
      BY <1>1, <1>2 DEF IInv, CoroutineTypes
    <2>2. p \in PCs \ {"out", "load"}
      BY DEF PCs
    <2>3. event[r] # 0 /\ events[event[r]].by = r
      BY <1>1 DEF IInv, OwnEvents
    <2>4. /\ EventList' /\ Len(events') \in Nat /\ Len(events') >= Len(events) /\ Len(events') = Len(events)
          /\ \A m \in Spans : events'[m] = events[m]
      BY <1>2, SameEvents
    <2>5. /\ use_case'["handlers"].parent_event = event[r] /\ use_case'["handlers"].trace_id = NoTrace
          /\ use_case'["controller"] = use_case["controller"]
          /\ use_case' \in [UseCases -> [parent_event : 0 .. Len(events'), trace_id : Requests \cup {NoTrace}]]
      <3> DEFINE s == [parent_event |-> event[r], trace_id |-> NoTrace]
      <3>1. s \in [parent_event : 0 .. Len(events'), trace_id : Requests \cup {NoTrace}]
        BY <2>1, <2>4
      <3>2. s.parent_event = event[r] /\ s.trace_id = NoTrace
        OBVIOUS
      <3>3. /\ use_case' = [use_case EXCEPT !["handlers"] = s]
            /\ use_case \in [UseCases -> [parent_event : 0 .. Len(events'), trace_id : Requests \cup {NoTrace}]]
        BY <1>2 DEF WithParent, IInv, SlotTypes
      <3> HIDE DEF s
      <3> QED BY <3>1, <3>2, <3>3 DEF UseCases
    <2>6. SlotTypes(use_case', Len(events'))
      BY <2>5 DEF IInv, SlotTypes
    <2>7. met[r] = {} => use_case'["controller"].trace_id = NoTrace
      BY <1>1, <2>5 DEF IInv, QuietSlots
    <2>9. /\ event' \in [Requests -> 0 .. Len(events')] /\ \A q \in Requests \ {r} : event'[q] = event[q]
          /\ event'[r] # 0 /\ events'[event'[r]].by = r /\ event'[r] = event[r]
      BY <1>2, <2>1, <2>3
    <2>10. pc' = [pc EXCEPT ![r] = p]
      BY <1>2
    <2> HIDE DEF p
    <2> QED BY <1>1, <2>1, <2>2, <2>4, <2>5, <2>6, <2>7, <2>9, <2>10, GoesOn
  <1>3. CASE Advance(r)
    BY <1>1, <1>3, AdvanceStep
  <1> QED BY <1>2, <1>3 DEF Save

LEMMA HandleStep == ASSUME IInv, NEW r \in Requests, Handle(r) PROVE IInv'
  <1> DEFINE n == item[r]
             p == "handler_save"
  <1>1. /\ r \in Running /\ pc[r] = "handle" /\ UNCHANGED <<met, body, call>>
        /\ pc' = [pc EXCEPT ![r] = p]
        /\ SaveTracing(r, use_case, "handlers", n, event[r])
    BY DEF Handle, Running
  <1>2. /\ n \in 1 .. Size(r) /\ n \in Nat /\ event[r] \in Nat /\ item' = [item EXCEPT ![r] = n]
        /\ event \in [Requests -> 0 .. Len(events)]
        /\ use_case \in [UseCases -> [parent_event : 0 .. Len(events), trace_id : Requests \cup {NoTrace}]]
        /\ Len(events) \in Nat
    <2>2. n \in 1 .. Size(r) /\ Size(r) \in Nat /\ event[r] \in 0 .. Len(events)
      BY <1>1, RunningTypes
    <2> QED BY <2>2 DEF Handle, IInv, CoroutineTypes, SlotTypes
  <1>3. /\ EventList' /\ Len(events') = Len(events) + 1
        /\ \A m \in Spans : events'[m] = events[m]
        /\ events'[Len(events) + 1].by = r
        /\ use_case' = [use_case EXCEPT !["handlers"] = Empty]
        /\ event' = [event EXCEPT ![r] = Len(events) + 1]
    <2>1. "handlers" \in UseCases /\ use_case["handlers"].trace_id = NoTrace
      BY DEF IInv, SlotTypes, UseCases
    <2>2. LET s == use_case["handlers"].parent_event
          IN s # 0 => events[s].by \in {r} \cup met'[r]
      BY <1>1 DEF IInv, SlotsAreMet
    <2>3. event[r] # 0 /\ (met'[r] = {} => use_case["handlers"].parent_event = event[r])
      BY <1>1 DEF IInv, OwnEvents, QuietSlots
    <2>4. met' \in [Requests -> SUBSET Requests]
      BY <1>1 DEF IInv, CoroutineTypes
    <2> HIDE DEF n
    <2> QED BY <1>1, <1>2, <2>1, <2>2, <2>3, <2>4, SaveStep DEF IInv
  <1> HIDE DEF n
  <1>4. /\ use_case'["handlers"] = Empty /\ use_case'["controller"] = use_case["controller"]
        /\ SlotTypes(use_case', Len(events'))
    <2>1. Len(events') \in Nat /\ Len(events') >= Len(events)
      BY <1>3
    <2>2. Empty \in [parent_event : 0 .. Len(events'), trace_id : Requests \cup {NoTrace}]
      BY DEF Empty
    <2>3. SlotTypes(use_case, Len(events'))
      BY <2>1, MoreEvents DEF IInv
    <2>4. use_case'["handlers"] = Empty /\ use_case'["controller"] = use_case["controller"]
      BY <1>2, <1>3 DEF UseCases
    <2>5. use_case' \in [UseCases -> [parent_event : 0 .. Len(events'), trace_id : Requests \cup {NoTrace}]]
      BY <1>3, <2>2, <2>3 DEF SlotTypes
    <2> QED BY <2>4, <2>5 DEF IInv, SlotTypes, Empty
  <1>5. /\ Len(events) \in Nat /\ Len(events') \in Nat /\ Len(events') >= Len(events)
        /\ event' \in [Requests -> 0 .. Len(events')]
        /\ \A q \in Requests \ {r} : event'[q] = event[q]
        /\ EventList' /\ \A m \in Spans : events'[m] = events[m]
    BY <1>2, <1>3
  <1>6. /\ use_case'["controller"].trace_id = use_case["controller"].trace_id
        /\ use_case'["handlers"].parent_event = 0
        /\ met[r] = {} => use_case'["controller"].trace_id = NoTrace
    BY <1>1, <1>4 DEF IInv, QuietSlots, Empty
  <1>7. p \in PCs \ {"out"} /\ p \notin {"load", "save", "handle"}
    BY DEF PCs
  <1> HIDE DEF p
  <1> QED BY <1>1, <1>2, <1>4, <1>5, <1>6, <1>7, GoesOn

LEMMA HandlerEndsStep == ASSUME IInv, NEW r \in Requests, HandlerEnds(r) PROVE IInv'
  <1>1. r \in Running /\ pc[r] \in {"save", "handler_save", "read"}
    BY DEF HandlerEnds, Running
  <1> QED BY <1>1, AdvanceStep DEF HandlerEnds

\* Request r's call has come to its first await, with its trace in the
\* controller's slot or on the event that it saved.
LEMMA Entered ==
    ASSUME IInv, NEW r \in Requests, pc[r] = "out", NEW p \in {"load", "save"},
           pc' = [pc EXCEPT ![r] = p], item' = [item EXCEPT ![r] = 1],
           call[r] < Len(body[r].calls), call' = [call EXCEPT ![r] = @ + 1], UNCHANGED body,
           met' = [q \in Requests |->
                      IF q = r THEN Running
                      ELSE IF q \in Running THEN met[q] \cup {r} ELSE met[q]],
           EventList', Len(events) \in Nat, Len(events') \in Nat, Len(events') >= Len(events),
           \A m \in Spans : events'[m] = events[m],
           event' \in [Requests -> 0 .. Len(events')],
           \A q \in Requests \ {r} : event'[q] = event[q],
           p = "save" => event'[r] # 0 /\ events'[event'[r]].by = r,
           SlotTypes(use_case', Len(events')),
           use_case'["controller"].trace_id = IF p = "load" THEN r ELSE NoTrace,
           use_case'["handlers"].parent_event = use_case["handlers"].parent_event
    PROVE  IInv'
  <1>1. /\ pc \in [Requests -> PCs] /\ item \in [Requests -> Nat] /\ call \in [Requests -> Nat]
        /\ Running \subseteq Requests /\ r \notin Running /\ Running' = Running \cup {r}
        /\ \A q \in Requests : pc'[q] = (IF q = r THEN p ELSE pc[q])
                            /\ item'[q] = (IF q = r THEN 1 ELSE item[q])
                            /\ call'[q] = (IF q = r THEN call[r] + 1 ELSE call[q])
        /\ met \in [Requests -> SUBSET Requests]
    BY DEF IInv, CoroutineTypes, Running
  <1>3. body \in [Requests -> Bodies] /\ body[r].calls \in Seq(Nat \ {0})
    BY BodiesAssumption DEF IInv, CoroutineTypes
  <1>4. CoroutineTypes'
    <2>1. pc' \in [Requests -> PCs] /\ item' \in [Requests -> Nat] /\ call' \in [Requests -> Nat]
      BY <1>1 DEF PCs
    <2>2. call'[r] \in 1 .. Len(body[r].calls) /\ item'[r] \in 1 .. Size(r)'
      <3>1. Len(body[r].calls) \in Nat /\ call[r] \in Nat /\ call'[r] = call[r] + 1
        BY <1>1
      <3>2. call'[r] \in 1 .. Len(body[r].calls)
        BY <3>1
      <3>3. body[r].calls[call'[r]] \in Nat \ {0}
        BY <1>3, <3>2
      <3> QED BY <1>1, <3>3 DEF Size
    <2>3. \A q \in Running : call'[q] \in 1 .. Len(body'[q].calls) /\ item'[q] \in 1 .. Size(q)'
      BY <1>1 DEF IInv, CoroutineTypes, Size
    <2> QED BY <1>1, <1>3, <2>1, <2>2, <2>3 DEF CoroutineTypes
  <1>5. OwnEvents'
    <2> SUFFICES ASSUME NEW q \in Requests, pc'[q] \in {"save", "handle"}
                 PROVE  event'[q] # 0 /\ events'[event'[q]].by = q
      BY DEF OwnEvents
    <2>1. CASE q = r
      BY <2>1
    <2>2. CASE q # r
      <3>1. event'[q] = event[q] /\ event[q] # 0 /\ events[event[q]].by = q
        BY <2>2 DEF IInv, OwnEvents
      <3>2. event[q] \in 0 .. Len(events)
        BY DEF IInv, CoroutineTypes
      <3>3. event[q] \in Spans
        BY <3>1, <3>2 DEF Spans
      <3> QED BY <3>1, <3>3
    <2> QED BY <2>2
  <1>6. AllMet'
    BY <1>1 DEF IInv, AllMet
  <1>7. SlotsAreMet'
    <2>1. ASSUME NEW q \in Running'
          PROVE  use_case'["controller"].trace_id \in {NoTrace, q} \cup met'[q]
      BY <1>1
    <2>2. ASSUME NEW q \in Requests, pc'[q] = "handle", use_case'["handlers"].parent_event # 0
          PROVE  events'[use_case'["handlers"].parent_event].by \in {q} \cup met'[q]
      <3> DEFINE s == use_case["handlers"].parent_event
      <3>1. q \in Running /\ pc[q] = "handle"
        BY <2>2 DEF Running
      <3>2. s \in Spans
        BY <2>2 DEF IInv, SlotTypes, UseCases, Spans
      <3>3. events[s].by \in {q} \cup met[q]
        BY <2>2 DEF IInv, SlotsAreMet
      <3> QED BY <3>1, <3>2, <3>3
    <2> QED BY <2>1, <2>2 DEF SlotsAreMet
  <1>8. QuietSlots'
    <2> SUFFICES ASSUME NEW q \in Running', met'[q] = {}
                 PROVE  /\ use_case'["controller"].trace_id = (IF pc'[q] = "load" /\ item'[q] = 1 THEN q ELSE NoTrace)
                        /\ pc'[q] = "handle" => use_case'["handlers"].parent_event = event'[q]
      BY DEF QuietSlots
    <2>1. q = r
      BY <1>1
    <2>2. pc'[r] = p /\ item'[r] = 1 /\ p # "handle"
      BY <1>1
    <2> QED BY <2>1, <2>2
  <1> QED BY <1>4, <1>5, <1>6, <1>7, <1>8 DEF IInv

LEMMA EnterStep == ASSUME IInv, NEW r \in Requests, Enter(r) PROVE IInv'
  <1> DEFINE ucs == WithTrace(use_case, "controller", r)
             s == [parent_event |-> 0, trace_id |-> r]
  <1>1. /\ pc[r] = "out" /\ call[r] < Len(body[r].calls) /\ UNCHANGED body
        /\ call' = [call EXCEPT ![r] = @ + 1] /\ item' = [item EXCEPT ![r] = 1]
        /\ met' = [q \in Requests |->
                      IF q = r THEN Running
                      ELSE IF q \in Running THEN met[q] \cup {r} ELSE met[q]]
    BY DEF Enter, Begin
  <1>2. /\ Len(events) \in Nat /\ event \in [Requests -> 0 .. Len(events)]
        /\ met' \in [Requests -> SUBSET Requests]
    BY <1>1 DEF IInv, CoroutineTypes, Running
  <1>3. /\ ucs["controller"].trace_id = r /\ ucs["controller"].parent_event = 0
        /\ ucs["handlers"] = use_case["handlers"] /\ SlotTypes(ucs, Len(events))
    <2>1. s \in [parent_event : 0 .. Len(events), trace_id : Requests \cup {NoTrace}]
          /\ s.parent_event = 0 /\ s.trace_id = r
      OBVIOUS
    <2>2. ucs = [use_case EXCEPT !["controller"] = s]
      BY DEF WithTrace
    <2>3. use_case \in [UseCases -> [parent_event : 0 .. Len(events), trace_id : Requests \cup {NoTrace}]]
          /\ use_case["handlers"].trace_id = NoTrace
      BY DEF IInv, SlotTypes
    <2> HIDE DEF s, ucs
    <2>4. /\ ucs \in [UseCases -> [parent_event : 0 .. Len(events), trace_id : Requests \cup {NoTrace}]]
          /\ ucs["controller"] = s /\ ucs["handlers"] = use_case["handlers"]
      BY <2>1, <2>2, <2>3 DEF UseCases
    <2> QED BY <2>1, <2>3, <2>4 DEF SlotTypes
  <1>4. CASE body[r].cmd = "CREATE"
    <2> DEFINE p == "save"
    <2>1. SaveTracing(r, ucs, "controller", 1, 0) /\ pc' = [pc EXCEPT ![r] = p]
      BY <1>4 DEF Enter, Begin
    <2> HIDE DEF ucs
    <2>2. /\ EventList' /\ Len(events') = Len(events) + 1
          /\ \A m \in Spans : events'[m] = events[m]
          /\ events'[Len(events) + 1].by = r
          /\ use_case' = [ucs EXCEPT !["controller"] = Empty]
          /\ event' = [event EXCEPT ![r] = Len(events) + 1]
      <3>1. "controller" \in UseCases
        BY DEF UseCases
      <3> QED BY <1>2, <1>3, <2>1, <3>1, SaveStep DEF IInv
    <2>3. /\ use_case'["controller"] = Empty /\ use_case'["handlers"] = use_case["handlers"]
          /\ SlotTypes(use_case', Len(events'))
      <3>1. Len(events') \in Nat /\ Len(events') >= Len(events)
        BY <2>2
      <3>2. Empty \in [parent_event : 0 .. Len(events'), trace_id : Requests \cup {NoTrace}]
        BY DEF Empty
      <3>3. SlotTypes(ucs, Len(events'))
        BY <1>3, <3>1, MoreEvents
      <3>4. use_case'["controller"] = Empty /\ use_case'["handlers"] = ucs["handlers"]
        BY <2>2, <3>3 DEF UseCases, SlotTypes
      <3>5. use_case' \in [UseCases -> [parent_event : 0 .. Len(events'), trace_id : Requests \cup {NoTrace}]]
        BY <2>2, <3>2, <3>3 DEF SlotTypes
      <3> QED BY <1>3, <3>4, <3>5 DEF SlotTypes, Empty
    <2>4. /\ use_case'["controller"].trace_id = NoTrace /\ SlotTypes(use_case', Len(events'))
          /\ use_case'["handlers"].parent_event = use_case["handlers"].parent_event
      BY <2>3 DEF Empty
    <2>5. /\ EventList' /\ \A m \in Spans : events'[m] = events[m]
          /\ Len(events') \in Nat /\ Len(events') >= Len(events)
          /\ event' \in [Requests -> 0 .. Len(events')]
          /\ \A q \in Requests \ {r} : event'[q] = event[q]
          /\ event'[r] # 0 /\ events'[event'[r]].by = r
      BY <1>2, <2>2
    <2>6. p \in {"load", "save"} /\ p # "load"
      OBVIOUS
    <2> HIDE DEF p
    <2> QED BY <1>1, <1>2, <2>1, <2>4, <2>5, <2>6, Entered
  <1>5. CASE body[r].cmd # "CREATE"
    <2> DEFINE p == "load"
    <2>1. use_case' = ucs /\ pc' = [pc EXCEPT ![r] = p] /\ UNCHANGED <<events, event>>
      BY <1>5 DEF Enter, Begin
    <2> HIDE DEF ucs
    <2>2. EventList' /\ Len(events') = Len(events) /\ \A m \in Spans : events'[m] = events[m]
      BY <2>1, SameEvents
    <2>3. /\ Len(events') \in Nat /\ Len(events') >= Len(events)
          /\ event' \in [Requests -> 0 .. Len(events')]
          /\ \A q \in Requests \ {r} : event'[q] = event[q]
      BY <1>2, <2>1
    <2>4. /\ use_case'["controller"].trace_id = r /\ SlotTypes(use_case', Len(events'))
          /\ use_case'["handlers"].parent_event = use_case["handlers"].parent_event
      BY <1>3, <2>1
    <2>5. p \in {"load", "save"} /\ p = "load" /\ p # "save"
      OBVIOUS
    <2> HIDE DEF p
    <2> QED BY <1>1, <2>1, <2>2, <2>3, <2>4, <2>5, Entered
  <1> QED BY <1>4, <1>5

LEMMA LeaveStep == ASSUME IInv, NEW r \in Requests, Leave(r) PROVE IInv'
  <1>1. /\ Running' = Running \ {r} /\ Running \subseteq Requests
        /\ \A q \in Requests \ {r} : /\ pc'[q] = pc[q] /\ item'[q] = item[q]
                                     /\ event'[q] = event[q] /\ met'[q] = met[q]
        /\ pc'[r] = "out"
        /\ UNCHANGED <<body, call, use_case, events>>
    BY DEF Leave, IInv, CoroutineTypes, Running
  <1>2. EventList' /\ Len(events') = Len(events) /\ Len(events) \in Nat
    BY <1>1, SameEvents
  <1>3. CoroutineTypes'
    <2>1. /\ pc' \in [Requests -> PCs] /\ item' \in [Requests -> Nat]
          /\ event' \in [Requests -> 0 .. Len(events')] /\ met' \in [Requests -> SUBSET Requests]
          /\ body' \in [Requests -> Bodies] /\ call' \in [Requests -> Nat]
      BY DEF Leave, IInv, CoroutineTypes, PCs
    <2>2. \A q \in Running' : call'[q] \in 1 .. Len(body'[q].calls) /\ item'[q] \in 1 .. Size(q)'
      BY <1>1 DEF IInv, CoroutineTypes, Size
    <2> QED BY <2>1, <2>2 DEF CoroutineTypes
  <1>4. SlotTypes(use_case, Len(events))'
    BY <1>1 DEF IInv
  <1>5. OwnEvents'
    BY <1>1 DEF IInv, OwnEvents
  <1>6. AllMet'
    BY <1>1 DEF IInv, AllMet
  <1>7. SlotsAreMet'
    BY <1>1 DEF IInv, SlotsAreMet
  <1>8. QuietSlots'
    BY <1>1 DEF IInv, QuietSlots
  <1> QED BY <1>2, <1>3, <1>4, <1>5, <1>6, <1>7, <1>8 DEF IInv

LEMMA Stutter == ASSUME IInv, UNCHANGED vars PROVE IInv'
  <1>1. EventList'
    BY SameEvents DEF vars
  <1>2. Running' = Running /\ \A r \in Requests : Size(r)' = Size(r)
    BY DEF vars, coroutine, Running, Size
  <1>3. CoroutineTypes' /\ SlotTypes(use_case, Len(events))'
    BY <1>2 DEF vars, coroutine, IInv, CoroutineTypes, Running
  <1>4. OwnEvents' /\ AllMet' /\ SlotsAreMet' /\ QuietSlots'
    BY <1>2 DEF vars, coroutine, IInv, OwnEvents, AllMet, SlotsAreMet, QuietSlots
  <1> QED BY <1>1, <1>3, <1>4 DEF IInv

(***************************************************************************)
(* A trace that a call brings is in the slot until one event has it.       *)
(***************************************************************************)

Waiting(ucs, r) == IF ucs["controller"].trace_id = r THEN 1 ELSE 0

\* The calls of a request have brought its trace for each event that has it,
\* and once more when it is still in the slot.
TracesAreBrought ==
    \A r \in Requests :
        IsFiniteSet(Roots(r)) /\ Cardinality(Roots(r)) + Waiting(use_case, r) <= call[r]

\* What _save_tracing puts on the event, it takes out of the slot.
LEMMA RootsOfSave ==
    ASSUME CoroutineTypes, EventList, NEW q \in Requests, NEW ucs, SlotTypes(ucs, Len(events)),
           NEW u \in UseCases, NEW n, NEW h, SaveTracing(q, ucs, u, n, h),
           NEW r \in Requests, IsFiniteSet(Roots(r))
    PROVE  /\ IsFiniteSet(Roots(r)')
           /\ Cardinality(Roots(r)') + Waiting(use_case', r)
                  <= Cardinality(Roots(r)) + Waiting(ucs, r)
  <1> DEFINE span == Len(events) + 1
             t == Traced(ucs[u], span)
             e == [parent |-> t.parent, trace |-> t.trace, by |-> q, item |-> n,
                   handled |-> h, met |-> met'[q]]
  <1>1. /\ Len(events) \in Nat /\ Len(events') = span /\ events'[span] = e
        /\ \A m \in Spans : events'[m] = events[m]
    <2>1. events \in Seq(Event) /\ events' = Append(events, e)
      BY DEF EventList, SaveTracing
    <2> HIDE DEF e
    <2>2. /\ Len(events) \in Nat /\ Len(events') = Len(events) + 1
          /\ events'[Len(events) + 1] = e
          /\ \A m \in 1 .. Len(events) : events'[m] = events[m]
      BY <2>1
    <2> QED BY <2>2, Zenon DEF Spans
  <1>2. Spans' = Spans \cup {span} /\ span \notin Spans /\ span \notin Requests
    BY <1>1, TraceAssumption DEF Spans
  <1>3. /\ ucs[u] \in [parent_event : 0 .. Len(events), trace_id : Requests \cup {NoTrace}]
        /\ ucs["controller"].parent_event = 0 /\ ucs["handlers"].trace_id = NoTrace
        /\ use_case' = [ucs EXCEPT ![u] = Taken(ucs[u])]
        /\ DOMAIN ucs = UseCases
    BY DEF SlotTypes, SaveTracing
  <1>4. /\ e.parent = ucs[u].parent_event
        /\ e.parent = 0 => e.trace = IF ucs[u].trace_id # NoTrace THEN ucs[u].trace_id ELSE span
    BY DEF Traced
  <1> HIDE DEF e
  <1>5. Cardinality(Roots(r)) \in Nat
    BY FS_CardinalityType
  <1>6. CASE u = "controller" /\ ucs[u].trace_id = r
    <2>1. use_case'["controller"].trace_id = NoTrace /\ NoTrace # r
      BY <1>3, <1>6, TraceAssumption DEF Taken, UseCases
    <2>2. Roots(r)' = Roots(r) \cup {span} /\ span \notin Roots(r)
      <3>1. e.parent = 0 /\ e.trace = r
        BY <1>3, <1>4, <1>6, <2>1
      <3> HIDE DEF span
      <3> QED BY <1>1, <1>2, <3>1 DEF Roots
    <2>3. IsFiniteSet(Roots(r)') /\ Cardinality(Roots(r)') = Cardinality(Roots(r)) + 1
      BY <2>2, FS_AddElement
    <2> QED BY <1>5, <1>6, <2>1, <2>3 DEF Waiting
  <1>7. CASE ~(u = "controller" /\ ucs[u].trace_id = r)
    <2>1. Roots(r)' = Roots(r)
      <3>1. ~(e.parent = 0 /\ e.trace = r)
        BY <1>2, <1>3, <1>4, <1>7 DEF UseCases
      <3> HIDE DEF span
      <3> QED BY <1>1, <1>2, <3>1 DEF Roots
    <2>2. Waiting(use_case', r) <= Waiting(ucs, r)
      BY <1>3, <1>7, TraceAssumption DEF Waiting, Taken, UseCases
    <2>3. Waiting(use_case', r) \in Nat /\ Waiting(ucs, r) \in Nat
      BY DEF Waiting
    <2> QED BY <1>5, <2>1, <2>2, <2>3
  <1> QED BY <1>6, <1>7

LEMMA RootsStay ==
    ASSUME UNCHANGED events, NEW r PROVE Roots(r)' = Roots(r)
  BY DEF Roots, Spans

LEMMA RootsOfBegin ==
    ASSUME CoroutineTypes, EventList, NEW q \in Requests, NEW ucs, SlotTypes(ucs, Len(events)),
           NEW n, Begin(q, ucs, n), NEW r \in Requests, IsFiniteSet(Roots(r))
    PROVE  /\ IsFiniteSet(Roots(r)')
           /\ Cardinality(Roots(r)') + Waiting(use_case', r)
                  <= Cardinality(Roots(r)) + Waiting(ucs, r)
  <1>1. CASE SaveTracing(q, ucs, "controller", n, 0)
    BY <1>1, RootsOfSave DEF UseCases
  <1>2. CASE use_case' = ucs /\ UNCHANGED events
    <2>1. Roots(r)' = Roots(r) /\ Cardinality(Roots(r)) \in Nat /\ Waiting(ucs, r) \in Nat
      BY <1>2, RootsStay, FS_CardinalityType DEF Waiting
    <2> QED BY <1>2, <2>1
  <1> QED BY <1>1, <1>2 DEF Begin

\* Only a call that begins brings a trace, its own.
LEMMA TracesAreBroughtNext == IInv /\ TracesAreBrought /\ [Next]_vars => TracesAreBrought'
  <1> SUFFICES ASSUME IInv, TracesAreBrought, [Next]_vars, NEW r \in Requests
               PROVE  /\ IsFiniteSet(Roots(r)')
                      /\ Cardinality(Roots(r)') + Waiting(use_case', r) <= call'[r]
    BY DEF TracesAreBrought
  <1>1. /\ CoroutineTypes /\ EventList /\ SlotTypes(use_case, Len(events))
        /\ IsFiniteSet(Roots(r)) /\ Cardinality(Roots(r)) \in Nat
        /\ Cardinality(Roots(r)) + Waiting(use_case, r) <= call[r]
        /\ call \in [Requests -> Nat]
    BY FS_CardinalityType DEF IInv, CoroutineTypes, TracesAreBrought
  <1>2. \A ucs : Waiting(ucs, r) \in 0 .. 1
    BY DEF Waiting
  <1>3. SUFFICES ASSUME ~UNCHANGED <<events, use_case, call>>
                 PROVE  /\ IsFiniteSet(Roots(r)')
                        /\ Cardinality(Roots(r)') + Waiting(use_case', r) <= call'[r]
    BY <1>1, RootsStay
  <1>4. ASSUME NEW q \in Requests, NEW ucs, UNCHANGED call, SlotTypes(ucs, Len(events)),
               Waiting(ucs, r) = Waiting(use_case, r),
               \/ \E n : Begin(q, ucs, n)
               \/ \E n, h : \E u \in UseCases : SaveTracing(q, ucs, u, n, h)
        PROVE  /\ IsFiniteSet(Roots(r)')
               /\ Cardinality(Roots(r)') + Waiting(use_case', r) <= call'[r]
    <2>1. /\ IsFiniteSet(Roots(r)')
          /\ Cardinality(Roots(r)') + Waiting(use_case', r)
                 <= Cardinality(Roots(r)) + Waiting(ucs, r)
      BY <1>1, <1>4, RootsOfBegin, RootsOfSave
    <2>2. Cardinality(Roots(r)') \in Nat
      BY <2>1, FS_CardinalityType
    <2> QED BY <1>1, <1>2, <1>4, <2>1, <2>2
  <1>5. ASSUME NEW q \in Requests, Enter(q)
        PROVE  /\ IsFiniteSet(Roots(r)')
               /\ Cardinality(Roots(r)') + Waiting(use_case', r) <= call'[r]
    <2> DEFINE ucs == WithTrace(use_case, "controller", q)
    <2>1. Begin(q, ucs, 1) /\ call' = [call EXCEPT ![q] = @ + 1]
      BY <1>5 DEF Enter
    <2>2. SlotTypes(ucs, Len(events))
      BY <1>1 DEF SlotTypes, WithTrace, UseCases, CoroutineTypes
    <2>3. Waiting(ucs, r) = IF r = q THEN 1 ELSE 0
      BY <1>1 DEF SlotTypes, WithTrace, Waiting, UseCases
    <2> HIDE DEF ucs
    <2>4. /\ IsFiniteSet(Roots(r)')
          /\ Cardinality(Roots(r)') + Waiting(use_case', r)
                 <= Cardinality(Roots(r)) + Waiting(ucs, r)
      BY <1>1, <2>1, <2>2, RootsOfBegin
    <2>5. Cardinality(Roots(r)') \in Nat
      BY <2>4, FS_CardinalityType
    <2> QED BY <1>1, <1>2, <2>1, <2>3, <2>4, <2>5
  <1>6. ASSUME NEW q \in Requests, Load(q) \/ Handle(q)
        PROVE  /\ IsFiniteSet(Roots(r)')
               /\ Cardinality(Roots(r)') + Waiting(use_case', r) <= call'[r]
    BY <1>1, <1>4, <1>6 DEF Load, Handle, UseCases
  <1>7. ASSUME NEW q \in Requests, Advance(q), UNCHANGED call
        PROVE  /\ IsFiniteSet(Roots(r)')
               /\ Cardinality(Roots(r)') + Waiting(use_case', r) <= call'[r]
    BY <1>1, <1>3, <1>4, <1>7 DEF Advance
  <1>8. ASSUME NEW q \in Requests, Save(q)
        PROVE  /\ IsFiniteSet(Roots(r)')
               /\ Cardinality(Roots(r)') + Waiting(use_case', r) <= call'[r]
    <2>1. CASE Advance(q)
      BY <1>7, <1>8, <2>1 DEF Save
    <2>2. CASE use_case' = WithParent(use_case, "handlers", event[q]) /\ UNCHANGED events
      <3>1. Waiting(use_case', r) = Waiting(use_case, r)
        BY <1>1, <2>2 DEF SlotTypes, WithParent, Waiting, UseCases
      <3>2. Roots(r)' = Roots(r) /\ UNCHANGED call
        BY <1>8, <2>2, RootsStay DEF Save
      <3> QED BY <1>1, <3>1, <3>2
    <2> QED BY <1>8, <2>1, <2>2 DEF Save
  <1>9. ASSUME NEW q \in Requests, HandlerEnds(q)
        PROVE  /\ IsFiniteSet(Roots(r)')
               /\ Cardinality(Roots(r)') + Waiting(use_case', r) <= call'[r]
    BY <1>7, <1>9 DEF HandlerEnds
  <1> QED BY <1>3, <1>5, <1>6, <1>8, <1>9 DEF Next, Leave, AllOver, vars, coroutine

(***************************************************************************)
(* The theorems.                                                           *)
(***************************************************************************)

LEMMA InitInvariant == Init => IInv
  <1> SUFFICES ASSUME Init PROVE IInv
    OBVIOUS
  <1>1. events = <<>> /\ Len(events) = 0 /\ Spans = {} /\ events \in Seq(Event) /\ Running = {}
    BY DEF Init, Spans, Running
  <1>2. CoroutineTypes
    BY <1>1 DEF Init, CoroutineTypes, PCs
  <1>3. SlotTypes(use_case, Len(events))
    BY DEF Init, SlotTypes, UseCases
  <1>4. EventList
    BY <1>1 DEF EventList, ChildrenFollowParents, TracesComeFromOverlappingCalls,
                UndisturbedCallsAreTraced
  <1>5. OwnEvents /\ AllMet /\ SlotsAreMet /\ QuietSlots
    BY <1>1 DEF Init, OwnEvents, AllMet, SlotsAreMet, QuietSlots
  <1> QED BY <1>2, <1>3, <1>4, <1>5 DEF IInv

LEMMA NextInvariant == IInv /\ [Next]_vars => IInv'
  <1> SUFFICES ASSUME IInv, [Next]_vars PROVE IInv'
    OBVIOUS
  <1>1. ASSUME NEW r \in Requests, Enter(r) PROVE IInv'
    BY <1>1, EnterStep
  <1>2. ASSUME NEW r \in Requests, Load(r) PROVE IInv'
    BY <1>2, LoadStep
  <1>3. ASSUME NEW r \in Requests, Save(r) PROVE IInv'
    BY <1>3, SaveActionStep
  <1>4. ASSUME NEW r \in Requests, Handle(r) PROVE IInv'
    BY <1>4, HandleStep
  <1>5. ASSUME NEW r \in Requests, HandlerEnds(r) PROVE IInv'
    BY <1>5, HandlerEndsStep
  <1>6. ASSUME NEW r \in Requests, Leave(r) PROVE IInv'
    BY <1>6, LeaveStep
  <1>7. CASE AllOver \/ UNCHANGED vars
    BY <1>7, Stutter DEF AllOver
  <1> QED BY <1>1, <1>2, <1>3, <1>4, <1>5, <1>6, <1>7 DEF Next

\* The inductive invariant holds whatever the interleaving of the coroutines.
THEOREM Invariant == Spec => []IInv
  BY InitInvariant, NextInvariant, PTL DEF Spec

\* Calls stay within their items, and the slots and events within their types,
\* for any bodies.
THEOREM TypeCorrect == Spec => []TypeOK
  <1>1. IInv => TypeOK
    BY DEF IInv, CoroutineTypes, SlotTypes, EventList, TypeOK
  <1> QED BY <1>1, Invariant, PTL

\* Whatever failing calls leave in the slots of the two use cases, the trace of
\* an event is its request's own or that of one its call overlapped.
THEOREM TracesAlwaysFromOverlappingCalls == Spec => []TracesComeFromOverlappingCalls
  <1>1. IInv => TracesComeFromOverlappingCalls
    BY DEF IInv, EventList
  <1> QED BY <1>1, Invariant, PTL

\* For any requests and bodies, at most as many root events carry r's trace as r
\* has begun calls: a trace that a call puts in the slot is used by one save of
\* _save_tracing, in whichever coroutine, or by none.
THEOREM TracesAlwaysTakenOnce == Spec => []TracesAreTakenOnce
  <1>1. Init => TracesAreBrought
    <2> SUFFICES ASSUME Init, NEW r \in Requests
                 PROVE  IsFiniteSet(Roots(r)) /\ Cardinality(Roots(r)) + Waiting(use_case, r) <= call[r]
      BY DEF TracesAreBrought
    <2>1. Roots(r) = {} /\ Waiting(use_case, r) = 0 /\ call[r] = 0
      BY TraceAssumption DEF Init, Roots, Spans, Waiting, UseCases
    <2> QED BY <2>1, FS_EmptySet
  <1>2. IInv /\ TracesAreBrought => TracesAreTakenOnce
    <2> SUFFICES ASSUME IInv, TracesAreBrought, NEW r \in Requests
                 PROVE  Cardinality(Roots(r)) <= call[r]
      BY DEF TracesAreTakenOnce
    <2>1. /\ Cardinality(Roots(r)) \in Nat /\ Waiting(use_case, r) \in Nat /\ call[r] \in Nat
          /\ Cardinality(Roots(r)) + Waiting(use_case, r) <= call[r]
      BY FS_CardinalityType DEF TracesAreBrought, Waiting, IInv, CoroutineTypes
    <2> QED BY <2>1
  <1> QED BY <1>1, <1>2, InitInvariant, NextInvariant, TracesAreBroughtNext, PTL DEF Spec

\* A call that overlaps no other is traced right, whatever happened before it.
THEOREM UndisturbedAlwaysTraced == Spec => []UndisturbedCallsAreTraced
  <1>1. IInv => UndisturbedCallsAreTraced
    BY DEF IInv, EventList
  <1> QED BY <1>1, Invariant, PTL

============================================================================
