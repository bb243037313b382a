------------------------ MODULE CommandServiceProofs ------------------------
(***************************************************************************)
(* CommandService is correct for every set of requests, ids, values,       *)
(* bodies, seeds and faults: the invariant IInv is inductive, the safety   *)
(* properties follow from it, and the specification implements             *)
(* AggregateLedger.                                                        *)
(***************************************************************************)
EXTENDS CommandService, SequenceTheorems, TLAPS

(***************************************************************************)
(* Journals as sequences.                                                  *)
(***************************************************************************)

\* Adding an entry to what a transaction logged adds it to the whole line.
LEMMA ConcatAppend ==
    ASSUME NEW S, NEW j \in Seq(S), NEW l \in Seq(S), NEW e \in S
    PROVE  j \o Append(l, e) = Append(j \o l, e)
  <1> DEFINE a == j \o Append(l, e)
             b == Append(j \o l, e)
  <1>1. a \in Seq(S) /\ b \in Seq(S)
    OBVIOUS
  <1>2. Len(a) = Len(b)
    OBVIOUS
  <1>3. ASSUME NEW n \in 1 .. Len(a) PROVE a[n] = b[n]
    OBVIOUS
  <1> QED BY <1>1, <1>2, <1>3, SeqEqual

\* An uncommitted line without entries is the journal.
LEMMA ConcatNothing ==
    ASSUME NEW S, NEW j \in Seq(S)
    PROVE  j \o <<>> = j
  BY ConcatEmptySeq

\* A legal journal grows legally exactly by a birth or by a legal successor.
LEMMA LegalAppend ==
    ASSUME NEW S, NEW j \in Seq(S), NEW e \in S, Ledger!LegalJournal(j)
    PROVE  Ledger!LegalJournal(Append(j, e))
             <=> IF j = <<>> THEN Ledger!Birth(e) ELSE Ledger!Follows(j[Len(j)], e)
  BY DEF Ledger!LegalJournal

LEMMA CurrentAppend ==
    ASSUME NEW S, NEW j \in Seq(S), NEW e \in S
    PROVE  Ledger!Current(Append(j, e)) = Ledger!RowAfter(e)
  BY DEF Ledger!Current

LEMMA AppendToOne ==
    ASSUME NEW S, NEW j \in Seq(S), NEW e \in S, Len(j) = 1
    PROVE  Append(j, e)[1] = j[1] /\ Append(j, e)[2] = e /\ Len(Append(j, e)) = 2
  <1> DEFINE k == Append(j, e)
  <1>1. /\ Len(k) = Len(j) + 1
        /\ \A i \in 1 .. Len(j) : k[i] = j[i]
        /\ k[Len(j) + 1] = e
    BY AppendProperties, SMTT(30)
  <1>2. Len(j) + 1 = 2 /\ 1 \in 1 .. Len(j)
    OBVIOUS
  <1> HIDE DEF k
  <1>3. Len(k) = 2 /\ k[2] = e
    BY <1>1, <1>2, Zenon
  <1>4. k[1] = j[1]
    BY <1>1, <1>2, Zenon
  <1> QED BY <1>3, <1>4 DEF k

LEMMA AppendNotEmpty ==
    ASSUME NEW S, NEW j \in Seq(S), NEW e \in S
    PROVE  Append(j, e) # <<>>
  <1>1. Len(Append(j, e)) = Len(j) + 1
    BY AppendProperties
  <1>2. Len(j) + 1 # 0 /\ Len(<<>>) = 0
    OBVIOUS
  <1> QED BY <1>1, <1>2, Zenon

\* Committing continues the journal.
LEMMA ExtendsConcat ==
    ASSUME NEW S, NEW j \in Seq(S), NEW l \in Seq(S)
    PROVE  Ledger!Extends(j, j \o l)
  BY DEF Ledger!Extends

(***************************************************************************)
(* The entity.                                                             *)
(***************************************************************************)

LEMMA HistoryType ==
    ASSUME NEW type \in {"CREATED", "UPDATED", "VOIDED"}, NEW d \in SUBSET Change
    PROVE  History(type, d) \in OperationHistory
  BY DEF History, OperationHistory

LEMMA HistoryOfOne ==
    ASSUME NEW type, NEW x, NEW y
    PROVE  History(type, {[before |-> x, after |-> y]}) =
             [type |-> type, data |-> IF x = y THEN {} ELSE {[before |-> x, after |-> y]}]
  BY DEF History

LEMMA CreateType ==
    ASSUME NEW vo \in Values
    PROVE  CreateYourAggregate(vo) \in Row
  <1>1. History("CREATED", {}) \in OperationHistory
    BY HistoryType
  <1> QED BY <1>1 DEF CreateYourAggregate, Row, Statuses

LEMMA UpdateType ==
    ASSUME NEW row \in Row, NEW vo \in Values
    PROVE  UpdateYourAggregate(row, vo) \in Row
  <1>1. row.vo \in Values /\ row.histories \in Seq(OperationHistory)
    BY DEF Row
  <1>2. {[before |-> row.vo, after |-> vo]} \in SUBSET Change
    BY <1>1 DEF Change
  <1> DEFINE h == History("UPDATED", {[before |-> row.vo, after |-> vo]})
  <1>3. h \in OperationHistory
    BY <1>2, HistoryType
  <1> HIDE DEF h
  <1>4. Append(row.histories, h) \in Seq(OperationHistory)
    BY <1>1, <1>3
  <1>5. [row EXCEPT !.vo = vo, !.histories = Append(row.histories, h)] \in Row
    BY <1>4 DEF Row
  <1> QED BY <1>5 DEF UpdateYourAggregate, h

LEMMA VoidType ==
    ASSUME NEW row \in Row
    PROVE  VoidYourAggregate(row) \in Row
  <1>1. row.status \in Statuses /\ row.histories \in Seq(OperationHistory)
    BY DEF Row
  <1>2. {[before |-> row.status, after |-> "VOIDED"]} \in SUBSET Change
    BY <1>1 DEF Change, Statuses
  <1> DEFINE h == History("VOIDED", {[before |-> row.status, after |-> "VOIDED"]})
  <1>3. h \in OperationHistory
    BY <1>2, HistoryType
  <1> HIDE DEF h
  <1>4. Append(row.histories, h) \in Seq(OperationHistory)
    BY <1>1, <1>3
  <1>5. [row EXCEPT !.status = "VOIDED", !.histories = Append(row.histories, h)] \in Row
    BY <1>4 DEF Row, Statuses
  <1> QED BY <1>5 DEF VoidYourAggregate, h

\* What an operation makes of a row is a row, with an event's name.
LEMMA OperateType ==
    ASSUME NEW cmd \in Commands, NEW row \in Row, NEW vo \in Values
    PROVE  Operate(cmd, row, vo) \in Row /\ EventOf(cmd) \in EventNames
  BY UpdateType, VoidType DEF Operate, EventOf, Commands, EventNames

\* An allowed operation on the live row is a legal next entry.
LEMMA OperateFollows ==
    ASSUME NEW cmd \in Commands \ {"CREATE"}, NEW a \in Entry, NEW vo \in Values, NEW b,
           a.event # "Deleted", Allowed(cmd, a.row)
    PROVE  Ledger!Follows(a, [event |-> EventOf(cmd), row |-> Operate(cmd, a.row, vo),
                              by |-> b])
  <1> DEFINE e == [event |-> EventOf(cmd), row |-> Operate(cmd, a.row, vo), by |-> b]
  <1>1. a.row \in Row /\ a.row.status \in Statuses
    BY DEF Entry, Row
  <1>2. CASE cmd = "DELETE"
    BY <1>2 DEF Ledger!Follows, EventOf, Operate
  <1>3. CASE cmd = "UPDATE"
    <2>1. a.row.status = "CREATED"
      BY <1>1, <1>3 DEF Allowed, MayAddHistory, Statuses
    <2>2. e.event = "Updated" /\ e.row = UpdateYourAggregate(a.row, vo)
      BY <1>3 DEF EventOf, Operate
    <2>3. /\ e.row.vo = vo
          /\ e.row.status = a.row.status
          /\ e.row.histories = Append(a.row.histories,
                History("UPDATED", {[before |-> a.row.vo, after |-> vo]}))
      BY <1>1, <2>2 DEF UpdateYourAggregate, Row
    <2> HIDE DEF e
    <2>4. Ledger!OneMore(a, e, "UPDATED", a.row.vo, vo)
      BY <2>3, HistoryOfOne DEF Ledger!OneMore
    <2>5. Ledger!Follows(a, e)
      BY <2>1, <2>2, <2>3, <2>4 DEF Ledger!Follows
    <2> QED BY <2>5 DEF e
  <1>4. CASE cmd = "VOID"
    <2>1. a.row.status = "CREATED"
      BY <1>1, <1>4 DEF Allowed, MayAddHistory, Statuses
    <2>2. e.event = "Voided" /\ e.row = VoidYourAggregate(a.row)
      BY <1>4 DEF EventOf, Operate
    <2>3. /\ e.row.vo = a.row.vo
          /\ e.row.status = "VOIDED"
          /\ e.row.histories = Append(a.row.histories,
                History("VOIDED", {[before |-> "CREATED", after |-> "VOIDED"]}))
      BY <1>1, <2>1, <2>2 DEF VoidYourAggregate, Row
    <2> HIDE DEF e
    <2>4. Ledger!OneMore(a, e, "VOIDED", "CREATED", "VOIDED")
      BY <2>3, HistoryOfOne DEF Ledger!OneMore
    <2>5. Ledger!Follows(a, e)
      BY <2>1, <2>2, <2>3, <2>4 DEF Ledger!Follows
    <2> QED BY <2>5 DEF e
  <1> QED BY <1>2, <1>3, <1>4 DEF Commands

LEMMA CreateBirth ==
    ASSUME NEW vo, NEW b
    PROVE  Ledger!Birth([event |-> "Created", row |-> CreateYourAggregate(vo), by |-> b])
  BY DEF Ledger!Birth, CreateYourAggregate, History

(***************************************************************************)
(* Types.                                                                  *)
(***************************************************************************)

\* While a call has items to go, it is a call of the payload, and the item an
\* item.
LEMMA ItemType ==
    ASSUME TypeOK, NEW r \in Requests,
           Len(resp[r]) < Len(Calls(r)), at[r] <= Len(ThisCall(r))
    PROVE  ThisItem(r) \in Item /\ ThisItem(r).id \in Ids /\ ThisItem(r).vo \in Values
  <1>1. body[r] \in Body
    BY BodiesAssumption DEF TypeOK
  <1>2. Calls(r) \in Seq(Seq(Item))
    BY <1>1 DEF Calls, Body
  <1>3. Len(resp[r]) + 1 \in 1 .. Len(Calls(r))
    BY <1>2 DEF TypeOK
  <1>4. ThisCall(r) \in Seq(Item)
    BY <1>2, <1>3, ElementOfSeq DEF ThisCall
  <1>5. ThisItem(r) \in Item
    BY <1>4, ElementOfSeq DEF ThisItem, TypeOK
  <1> QED BY <1>5 DEF Item

LEMMA CommandType ==
    ASSUME TypeOK, NEW r \in Requests
    PROVE  body[r].cmd \in Commands /\ Operation(r) \in Commands
  BY BodiesAssumption DEF TypeOK, Body, Operation, Commands

LEMMA ViewType ==
    ASSUME TypeOK, NEW r \in Requests, NEW id \in Ids
    PROVE  View(r, id) \in Row \cup {None}
  BY DEF TypeOK, View

\* What Load computes is an entity with an event.
LEMMA LoadType ==
    ASSUME TypeOK, NEW r \in Requests, Progress(r), pc[r] = "load",
           View(r, agg[r].id) # None
    PROVE  /\ agg[r].id \in Ids
           /\ View(r, agg[r].id) \in Row
           /\ NewValue(r) \in Values
           /\ EventOf(Operation(r)) \in EventNames
           /\ Operate(Operation(r), View(r, agg[r].id), NewValue(r)) \in Row
  <1>1. agg[r].id \in Ids
    BY DEF Progress
  <1>2. View(r, agg[r].id) \in Row
    BY <1>1, ViewType
  <1>3. NewValue(r) \in Values
    <2>1. CASE session_count[r] = 2
      BY <2>1, SuffixAssumption DEF NewValue, Progress, Row
    <2>2. CASE session_count[r] # 2
      BY <2>2, ItemType DEF NewValue, Progress
    <2> QED BY <2>1, <2>2
  <1> QED BY <1>1, <1>2, <1>3, OperateType, CommandType

LEMMA EmptyWork ==
    /\ [id \in Ids |-> None] \in [Ids -> Row \cup {None}]
    /\ [id \in Ids |-> <<>>] \in [Ids -> Seq(Entry)]
  OBVIOUS

LEMMA EndTransactionType ==
    ASSUME TypeOK, NEW r \in Requests, EndTransaction(r)
    PROVE  /\ written' \in [Requests -> [Ids -> Row \cup {None}]]
           /\ logged' \in [Requests -> [Ids -> Seq(Entry)]]
           /\ lock' \in [Ids -> Requests \cup {None}]
  BY EmptyWork DEF TypeOK, EndTransaction

LEMMA ApplyTransactionType ==
    ASSUME TypeOK, NEW r \in Requests, ApplyTransaction(r)
    PROVE  /\ rows' \in [Ids -> Row \cup {None}]
           /\ journal' \in [Ids -> Seq(Entry)]
  <1>1. \A id \in Ids : View(r, id) \in Row \cup {None}
    BY ViewType
  <1>2. \A id \in Ids : journal[id] \o logged[r][id] \in Seq(Entry)
    BY DEF TypeOK
  <1> QED BY <1>1, <1>2 DEF ApplyTransaction

LEMMA NoAggType == NoAgg \in Agg
  BY DEF NoAgg, Agg

LEMMA EndCallType ==
    ASSUME TypeOK, NEW r \in Requests, NEW ok \in BOOLEAN, EndCall(r, ok)
    PROVE  /\ resp' \in [Requests -> Seq(BOOLEAN)]
           /\ agg' \in [Requests -> Agg]
           /\ found' \in [Requests -> BOOLEAN]
           /\ pc' \in [Requests -> PCs]
  BY NoAggType DEF TypeOK, EndCall, PCs

\* Every step of a request keeps the types.
LEMMA StepTypes ==
    ASSUME IInv, NEW r \in Requests, Proceed(r) \/ Fail(r)
    PROVE  TypeOK'
  <1> USE DEF database
  <1>0. TypeOK /\ Progress(r) /\ HandsLegal(r)
    BY DEF IInv
  <1>1. CASE Enter(r)
    <2>1. session_count[r] = 0
      BY <1>0, <1>1 DEF Enter, Progress
    <2> QED BY <1>0, <1>1, <2>1 DEF Enter, TypeOK, PCs
  <1>2. CASE Finish(r)
    BY <1>0, <1>2 DEF Finish, TypeOK, PCs
  <1>3. CASE BeginCreate(r)
    <2>1. CreateYourAggregate(ThisItem(r).vo) \in Row
      BY <1>0, <1>3, ItemType, CreateType DEF BeginCreate, Progress
    <2>2. PICK id \in Ids :
            /\ lock' = [lock EXCEPT ![id] = r]
            /\ agg' = [agg EXCEPT ![r] = [id |-> id, event |-> "Created",
                                          row |-> CreateYourAggregate(ThisItem(r).vo)]]
      BY <1>3 DEF BeginCreate
    <2>3. agg' \in [Requests -> Agg]
      BY <1>0, <2>1, <2>2 DEF TypeOK, Agg, EventNames
    <2> QED BY <1>0, <1>3, <2>2, <2>3 DEF BeginCreate, TypeOK, PCs
  <1>4. CASE BeginLoad(r)
    <2>1. ThisItem(r).id \in Ids
      BY <1>0, <1>4, ItemType DEF BeginLoad, Progress
    <2>2. [NoAgg EXCEPT !.id = ThisItem(r).id] \in Agg
      BY <2>1 DEF NoAgg, Agg
    <2> QED BY <1>0, <1>4, <2>2 DEF BeginLoad, TypeOK, PCs
  <1>5. CASE BeginCommit(r)
    BY <1>0, <1>5 DEF BeginCommit, TypeOK, PCs
  <1>6. CASE Load(r)
    <2> DEFINE new == Operate(Operation(r), View(r, agg[r].id), NewValue(r))
               ev == EventOf(Operation(r))
    <2>1. agg[r].id \in Ids /\ ev \in EventNames /\ new \in Row
      BY <1>0, <1>6, LoadType DEF Load
    <2>2. agg' = [agg EXCEPT ![r] = [id |-> agg[r].id, event |-> ev, row |-> new]]
      BY <1>6 DEF Load
    <2> HIDE DEF new, ev
    <2>3. agg' \in [Requests -> Agg]
      BY <1>0, <2>1, <2>2 DEF TypeOK, Agg
    <2> QED BY <1>0, <1>6, <2>1, <2>3 DEF Load, TypeOK, PCs
  <1>7. CASE LoadRefused(r)
    <2>1. agg[r].id \in Ids
      BY <1>0, <1>7 DEF LoadRefused, Progress
    <2> QED BY <1>0, <1>7, <2>1 DEF LoadRefused, TypeOK, PCs
  <1>8. CASE LoadMissing(r)
    BY <1>0, <1>8 DEF LoadMissing, TypeOK, PCs
  <1>9. CASE GetModel(r)
    BY <1>0, <1>9 DEF GetModel, TypeOK, PCs
  <1>10. CASE Save(r)
    <2>1. agg[r].id \in Ids /\ InHand(r) \in Entry /\ agg[r].row \in Row
      BY <1>0, <1>10 DEF Save, Progress, HandsLegal, InHand, Entry
    <2>2. Append(logged[r][agg[r].id], InHand(r)) \in Seq(Entry)
      BY <1>0, <2>1 DEF TypeOK
    <2>3. logged' = [logged EXCEPT ![r][agg[r].id] = Append(@, InHand(r))]
      BY <1>10 DEF Save, InHand
    <2>4. logged' \in [Requests -> [Ids -> Seq(Entry)]]
      BY <1>0, <2>1, <2>2, <2>3 DEF TypeOK
    <2>5. written' \in [Requests -> [Ids -> Row \cup {None}]]
      BY <1>0, <1>10, <2>1 DEF Save, TypeOK
    <2>6. at' \in [Requests -> Nat \ {0}] /\ session_count' \in [Requests -> 0 .. 2]
      BY <1>0, <1>10 DEF Save, TypeOK
    <2> QED BY <1>0, <1>10, <2>1, <2>4, <2>5, <2>6 DEF Save, TypeOK, PCs
  <1>11. CASE ReadVoided(r)
    <2>1. agg[r].id \in Ids /\ session_count[r] = 2
      BY <1>0, <1>11 DEF ReadVoided, Progress
    <2>2. msgs' \in [Requests -> Seq(Ids)]
      BY <1>0, <1>11, <2>1 DEF ReadVoided, TypeOK
    <2> QED BY <1>0, <1>11, <2>1, <2>2, SMTT(30)
            DEF ReadVoided, LeaveScope, TypeOK, PCs
  <1>12. CASE Commit(r)
    <2>1. session_count[r] = 1
      BY <1>0, <1>12 DEF Commit, Progress
    <2> QED BY <1>0, <1>12, <2>1, EndTransactionType, ApplyTransactionType
            DEF Commit, LeaveScope, TypeOK, PCs
  <1>13. CASE Publish(r)
    <2>1. broker' \in Seq(Seq(Ids)) /\ msgs' \in [Requests -> Seq(Ids)]
      BY <1>0, <1>13 DEF Publish, TypeOK
    <2> QED BY <1>0, <1>13, <2>1, EndCallType DEF Publish, TypeOK
  <1>14. CASE Unwind(r)
    <2>1. msgs' \in [Requests -> Seq(Ids)]
      BY <1>0, <1>14 DEF Unwind, TypeOK
    <2>2. EndCall(r, FALSE) /\ EndTransaction(r)
      BY <1>14 DEF Unwind
    <2>3. /\ resp' \in [Requests -> Seq(BOOLEAN)]
          /\ agg' \in [Requests -> Agg]
          /\ found' \in [Requests -> BOOLEAN]
          /\ pc' \in [Requests -> PCs]
      BY <1>0, <2>2, EndCallType
    <2>4. /\ written' \in [Requests -> [Ids -> Row \cup {None}]]
          /\ logged' \in [Requests -> [Ids -> Seq(Entry)]]
          /\ lock' \in [Ids -> Requests \cup {None}]
      BY <1>0, <2>2, EndTransactionType
    <2>5. session_count' \in [Requests -> 0 .. 2]
      BY <1>0, <1>14 DEF Unwind, LeaveScopes, LeaveScope, TypeOK
    <2> QED BY <1>0, <1>14, <2>1, <2>3, <2>4, <2>5 DEF Unwind, TypeOK
  <1>15. CASE StatementFails(r)
    BY <1>0, <1>15 DEF StatementFails, TypeOK, PCs
  <1>16. CASE DeadlockVictim(r)
    BY <1>0, <1>16 DEF DeadlockVictim, TypeOK, PCs
  <1>17. CASE CommitFails(r)
    <2>1. session_count[r] = 1
      BY <1>0, <1>17 DEF CommitFails, Progress
    <2>2. rows' \in [Ids -> Row \cup {None}] /\ journal' \in [Ids -> Seq(Entry)]
      BY <1>0, <1>17, ApplyTransactionType DEF CommitFails, TypeOK
    <2>3. EndCall(r, FALSE) /\ EndTransaction(r)
      BY <1>17 DEF CommitFails
    <2>4. /\ resp' \in [Requests -> Seq(BOOLEAN)]
          /\ agg' \in [Requests -> Agg]
          /\ found' \in [Requests -> BOOLEAN]
          /\ pc' \in [Requests -> PCs]
      BY <1>0, <2>3, EndCallType
    <2>5. /\ written' \in [Requests -> [Ids -> Row \cup {None}]]
          /\ logged' \in [Requests -> [Ids -> Seq(Entry)]]
          /\ lock' \in [Ids -> Requests \cup {None}]
      BY <1>0, <2>3, EndTransactionType
    <2>6. session_count' \in [Requests -> 0 .. 2]
      BY <1>0, <1>17, <2>1 DEF CommitFails, LeaveScope, TypeOK
    <2> QED BY <1>0, <1>17, <2>2, <2>4, <2>5, <2>6 DEF CommitFails, TypeOK
  <1>18. CASE PublishFails(r)
    <2> DEFINE m == msgs[r]
    <2>0. broker \in Seq(Seq(Ids)) /\ msgs \in [Requests -> Seq(Ids)] /\ m \in Seq(Ids)
      BY <1>0 DEF TypeOK
    <2>1. broker' = broker \/ broker' = Append(broker, m)
      BY <1>18 DEF PublishFails
    <2>2. msgs' = msgs \/ msgs' = [msgs EXCEPT ![r] = <<>>]
      BY <1>18 DEF PublishFails
    <2> HIDE DEF m
    <2>3. broker' \in Seq(Seq(Ids))
      BY <2>0, <2>1
    <2>4. msgs' \in [Requests -> Seq(Ids)]
      <3>1. <<>> \in Seq(Ids)
        OBVIOUS
      <3>2. [msgs EXCEPT ![r] = <<>>] \in [Requests -> Seq(Ids)]
        BY <2>0, <3>1
      <3> QED BY <2>0, <2>2, <3>2
    <2>5. EndCall(r, TRUE) /\ UNCHANGED <<body, at, session_count, database>>
      BY <1>18 DEF PublishFails
    <2>6. /\ resp' \in [Requests -> Seq(BOOLEAN)]
          /\ agg' \in [Requests -> Agg]
          /\ found' \in [Requests -> BOOLEAN]
          /\ pc' \in [Requests -> PCs]
      BY <1>0, <2>5, EndCallType
    <2> QED BY <1>0, <2>3, <2>4, <2>5, <2>6 DEF TypeOK
  <1>19. CASE Crash(r)
    <2>1. msgs' \in [Requests -> Seq(Ids)]
      BY <1>0, <1>19 DEF Crash, TypeOK
    <2> QED BY <1>0, <1>19, <2>1, EndTransactionType, NoAggType DEF Crash, TypeOK, PCs
  <1> QED BY <1>1, <1>2, <1>3, <1>4, <1>5, <1>6, <1>7, <1>8, <1>9, <1>10, <1>11,
             <1>12, <1>13, <1>14, <1>15, <1>16, <1>17, <1>18, <1>19
          DEF Proceed, Fail
(***************************************************************************)
(* The other requests.                                                     *)
(***************************************************************************)

Own(r) ==
    Progress(r) /\ Released(r) /\ HandsLegal(r) /\ LineLegal(r) /\ CreationPending(r)

\* What the parts of IInv say of request q depends on these, ...
Private(q) ==
    <<pc[q], body[q], resp[q], at[q], session_count[q], agg[q], written[q], logged[q]>>

\* ... on the locks q holds and on the rows they cover.
LeavesAlone(q) ==
    /\ Private(q)' = Private(q)
    /\ \A id \in Ids : lock'[id] = q <=> lock[id] = q
    /\ \A id \in Ids : lock[id] = q => rows'[id] = rows[id] /\ journal'[id] = journal[id]

\* A request keeps its part of the invariant when others move: the rows it has
\* written are under its lock, and the others are legal by themselves.
LEMMA OthersKeep ==
    ASSUME IInv, TypeOK', AuditTrail', CreationIsComplete',
           NEW q \in Requests, LeavesAlone(q)
    PROVE  Own(q)' /\ \A id \in Ids : logged'[q][id] # <<>> => lock'[id] = q
  <1>0. /\ TypeOK /\ Own(q)
        /\ \A id \in Ids : logged[q][id] # <<>> => lock[id] = q
    BY DEF IInv, Own, WritersHoldTheLock
  <1>1. /\ pc'[q] = pc[q] /\ body'[q] = body[q] /\ resp'[q] = resp[q]
        /\ at'[q] = at[q] /\ session_count'[q] = session_count[q]
        /\ agg'[q] = agg[q] /\ written'[q] = written[q] /\ logged'[q] = logged[q]
    BY DEF LeavesAlone, Private
  <1>2. /\ Calls(q)' = Calls(q) /\ ThisCall(q)' = ThisCall(q)
        /\ By(q)' = By(q) /\ InHand(q)' = InHand(q)
    BY <1>1 DEF Calls, ThisCall, By, InHand
  <1>3. Progress(q)' /\ Released(q)'
    BY <1>0, <1>1, <1>2 DEF Own, Progress, Released, LeavesAlone
  <1>4. \A id \in Ids : lock[id] = q => Line(q, id)' = Line(q, id) /\ View(q, id)' = View(q, id)
    BY <1>1 DEF LeavesAlone, Line, View
  <1>5. ASSUME NEW id \in Ids, logged[q][id] = <<>>
        PROVE  /\ Line(q, id)' = journal'[id]
               /\ View(q, id)' = rows'[id]
    <2>1. journal'[id] \in Seq(Entry)
      BY DEF TypeOK
    <2> QED BY <1>1, <1>5, <2>1, ConcatNothing DEF Line, View
  <1>6. HandsLegal(q)'
    BY <1>0, <1>1, <1>2, <1>4 DEF Own, HandsLegal, Progress, LeavesAlone
  <1>7. LineLegal(q)'
    <2> SUFFICES ASSUME NEW id \in Ids
                 PROVE  /\ Ledger!LegalJournal(Line(q, id)')
                        /\ View(q, id)' = Ledger!Current(Line(q, id)')
      BY DEF LineLegal
    <2>1. CASE logged[q][id] = <<>>
      <3>1. /\ Ledger!LegalJournal(journal'[id])
            /\ rows'[id] = Ledger!Current(journal'[id])
        BY DEF AuditTrail
      <3> QED BY <1>5, <2>1, <3>1
    <2>2. CASE logged[q][id] # <<>>
      BY <1>0, <1>4, <2>2 DEF Own, LineLegal
    <2> QED BY <2>1, <2>2
  <1>8. CreationPending(q)'
    <2>1. ASSUME NEW id \in Ids, logged[q][id] = <<>>
          PROVE  Ledger!CreationComplete(Line(q, id)')
      BY <1>5, <2>1 DEF CreationIsComplete, Ledger!CreationComplete
    <2>2. ASSUME NEW id \in Ids, logged[q][id] # <<>>
          PROVE  Line(q, id)' = Line(q, id)
      BY <1>0, <1>4, <2>2
    <2> QED BY <1>0, <1>1, <1>2, <2>1, <2>2 DEF Own, CreationPending, Ledger!CreationComplete
  <1>9. \A id \in Ids : logged'[q][id] # <<>> => lock'[id] = q
    BY <1>0, <1>1 DEF LeavesAlone
  <1> QED BY <1>3, <1>6, <1>7, <1>8, <1>9 DEF Own

\* So only the tables and the moving request are left to look at.
LEMMA Assemble ==
    ASSUME IInv, TypeOK', AuditTrail', CreationIsComplete', NEW r \in Requests,
           \A q \in Requests \ {r} : LeavesAlone(q),
           Own(r)',
           \A id \in Ids : logged'[r][id] # <<>> => lock'[id] = r
    PROVE  IInv'
  <1>1. ASSUME NEW q \in Requests
        PROVE  Own(q)' /\ \A id \in Ids : logged'[q][id] # <<>> => lock'[id] = q
    BY OthersKeep
  <1> QED BY <1>1 DEF IInv, Own, WritersHoldTheLock
(***************************************************************************)
(* Steps that leave the database alone.                                    *)
(***************************************************************************)

LEMMA QuietTables ==
    ASSUME IInv, UNCHANGED database
    PROVE  /\ AuditTrail' /\ CreationIsComplete' /\ WritersHoldTheLock'
           /\ \A r \in Requests : LineLegal(r)'
           /\ \A r \in Requests, id \in Ids : Line(r, id)' = Line(r, id)
  <1>1. \A r \in Requests, id \in Ids :
            Line(r, id)' = Line(r, id) /\ View(r, id)' = View(r, id)
    BY DEF database, Line, View
  <1>2. AuditTrail' /\ CreationIsComplete' /\ WritersHoldTheLock'
    BY DEF IInv, AuditTrail, CreationIsComplete, WritersHoldTheLock, database
  <1>3. \A r \in Requests : LineLegal(r)'
    BY <1>1 DEF IInv, LineLegal
  <1> QED BY <1>1, <1>2, <1>3

\* Steps in which r moves between awaits, or gives up.
Quiet(r) ==
    \/ Enter(r) \/ Finish(r) \/ BeginLoad(r) \/ BeginCommit(r) \/ LoadMissing(r)
    \/ GetModel(r) \/ ReadVoided(r) \/ StatementFails(r) \/ DeadlockVictim(r)
    \/ Publish(r) \/ PublishFails(r)

LEMMA QuietStep ==
    ASSUME IInv, NEW r \in Requests, Quiet(r), TypeOK'
    PROVE  IInv'
  <1>0. TypeOK /\ Progress(r) /\ Released(r) /\ HandsLegal(r) /\ CreationPending(r)
    BY DEF IInv
  <1>1. UNCHANGED database
    BY DEF Quiet, Enter, Finish, BeginLoad, BeginCommit, LoadMissing, GetModel,
           ReadVoided, StatementFails, DeadlockVictim, Publish, PublishFails, EndCall
  <1>2. /\ AuditTrail' /\ CreationIsComplete' /\ WritersHoldTheLock' /\ LineLegal(r)'
        /\ \A id \in Ids : Line(r, id)' = Line(r, id)
    BY <1>1, QuietTables
  <1>3. \A q \in Requests \ {r} : LeavesAlone(q)
    <2> SUFFICES ASSUME NEW q \in Requests \ {r} PROVE LeavesAlone(q)
      OBVIOUS
    <2>1. Private(q)' = Private(q)
      <3>1. /\ pc'[q] = pc[q] /\ body'[q] = body[q] /\ resp'[q] = resp[q] /\ at'[q] = at[q]
            /\ session_count'[q] = session_count[q] /\ agg'[q] = agg[q]
        BY <1>0, ZenonT(60)
           DEF Quiet, Enter, Finish, BeginLoad, BeginCommit, LoadMissing, GetModel,
               ReadVoided, StatementFails, DeadlockVictim, Publish, PublishFails, EndCall,
               TypeOK
      <3> QED BY <1>1, <3>1 DEF Private, database
    <2> QED BY <1>1, <2>1 DEF LeavesAlone, database
  <1>4. \A id \in Ids : lock'[id] = lock[id] /\ logged'[r][id] = logged[r][id]
    BY <1>1 DEF database
  \* Between items, before a commit and outside calls every creation is whole.
  <1>5. ASSUME pc[r] \notin {"load", "get", "flush", "unwind"}
        PROVE  CreationPending(r)'
    BY <1>0, <1>2, <1>5 DEF CreationPending
  <1>6. CASE Enter(r)
    <2>1. Progress(r)' /\ Released(r)' /\ HandsLegal(r)'
      BY <1>0, <1>6 DEF Enter, TypeOK, Progress, Released, HandsLegal, Calls, ThisCall
    <2>2. CreationPending(r)'
      BY <1>5, <1>6 DEF Enter
    <2> QED BY <1>2, <1>3, <2>1, <2>2, Assemble DEF Own, WritersHoldTheLock
  <1>7. CASE Finish(r)
    <2>1. Progress(r)' /\ Released(r)' /\ HandsLegal(r)'
      BY <1>0, <1>4, <1>7 DEF Finish, TypeOK, Progress, Released, HandsLegal, Calls, ThisCall
    <2>2. CreationPending(r)'
      BY <1>5, <1>7 DEF Finish
    <2> QED BY <1>2, <1>3, <2>1, <2>2, Assemble DEF Own, WritersHoldTheLock
  <1>8. CASE BeginLoad(r)
    <2>1. ThisItem(r).id \in Ids
      BY <1>0, <1>8, ItemType DEF BeginLoad, Progress
    <2>2. agg'[r].id = ThisItem(r).id
      BY <1>0, <1>8 DEF BeginLoad, TypeOK, NoAgg
    <2>3. Progress(r)' /\ Released(r)' /\ HandsLegal(r)'
      BY <1>0, <1>8, <2>1, <2>2
         DEF BeginLoad, TypeOK, Progress, Released, HandsLegal, Calls, ThisCall
    <2>4. CreationPending(r)'
      BY <1>5, <1>8 DEF BeginLoad
    <2> QED BY <1>2, <1>3, <2>3, <2>4, Assemble DEF Own, WritersHoldTheLock
  <1>9. CASE BeginCommit(r)
    <2>1. Progress(r)' /\ Released(r)' /\ HandsLegal(r)'
      BY <1>0, <1>9 DEF BeginCommit, TypeOK, Progress, Released, HandsLegal, Calls, ThisCall
    <2>2. CreationPending(r)'
      BY <1>5, <1>9 DEF BeginCommit
    <2> QED BY <1>2, <1>3, <2>1, <2>2, Assemble DEF Own, WritersHoldTheLock
  <1>10. CASE LoadMissing(r) \/ StatementFails(r) \/ DeadlockVictim(r)
    <2>1. /\ pc'[r] = "unwind" /\ resp'[r] = resp[r]
      BY <1>0, <1>10 DEF LoadMissing, StatementFails, DeadlockVictim, TypeOK
    <2>2. Progress(r)' /\ Released(r)' /\ HandsLegal(r)'
      BY <2>1 DEF Progress, Released, HandsLegal
    <2>3. By(r)' = By(r)
      BY <2>1 DEF By
    <2>4. CreationPending(r)'
      BY <1>0, <1>2, <2>1, <2>3 DEF CreationPending
    <2> QED BY <1>2, <1>3, <2>2, <2>4, Assemble DEF Own, WritersHoldTheLock
  <1>11. CASE GetModel(r)
    <2>1. /\ pc[r] = "get" /\ pc'[r] = "flush"
          /\ UNCHANGED <<body, resp, at, session_count, agg>>
      BY <1>0, <1>11 DEF GetModel, TypeOK
    <2>2. By(r)' = By(r) /\ InHand(r)' = InHand(r) /\ agg'[r].id \in Ids
      BY <1>0, <2>1 DEF By, InHand, Progress
    <2>3. Progress(r)' /\ Released(r)'
      BY <1>0, <2>1 DEF Progress, Released, Calls, ThisCall
    <2>4. HandsLegal(r)'
      BY <1>0, <1>2, <1>4, <2>1, <2>2 DEF HandsLegal, Progress
    <2>5. CreationPending(r)'
      BY <1>0, <1>2, <2>1, <2>2 DEF CreationPending
    <2> QED BY <1>2, <1>3, <2>3, <2>4, <2>5, Assemble DEF Own, WritersHoldTheLock
  <1>12. CASE ReadVoided(r)
    <2>1. Progress(r)' /\ Released(r)' /\ HandsLegal(r)'
      BY <1>0, <1>12 DEF ReadVoided, LeaveScope, TypeOK, Progress, Released, HandsLegal, Calls,
                         ThisCall
    <2>2. CreationPending(r)'
      BY <1>5, <1>12 DEF ReadVoided
    <2> QED BY <1>2, <1>3, <2>1, <2>2, Assemble DEF Own, WritersHoldTheLock
  <1>13. CASE Publish(r) \/ PublishFails(r)
    <2>1. /\ pc[r] = "publish" /\ pc'[r] = "call"
          /\ UNCHANGED <<session_count>>
      BY <1>0, <1>13 DEF Publish, PublishFails, EndCall, TypeOK
    <2>2. Progress(r)' /\ Released(r)' /\ HandsLegal(r)'
      BY <1>0, <1>4, <2>1 DEF Progress, Released, HandsLegal
    <2>3. CreationPending(r)'
      BY <1>5, <2>1
    <2> QED BY <1>2, <1>3, <2>2, <2>3, Assemble DEF Own, WritersHoldTheLock
  <1> QED BY <1>6, <1>7, <1>8, <1>9, <1>10, <1>11, <1>12, <1>13 DEF Quiet
(***************************************************************************)
(* Steps that take a lock.                                                 *)
(***************************************************************************)

\* Only r's locks grow; the tables and the open transactions stay.
LEMMA LockingTables ==
    ASSUME IInv, UNCHANGED <<written, logged, rows, journal>>,
           NEW r \in Requests, NEW id \in Ids,
           lock' = [lock EXCEPT ![id] = r], lock[id] \in {None, r}
    PROVE  /\ AuditTrail' /\ CreationIsComplete'
           /\ LineLegal(r)'
           /\ \A i \in Ids : Line(r, i)' = Line(r, i) /\ View(r, i)' = View(r, i)
           /\ \A i \in Ids : logged'[r][i] # <<>> => lock'[i] = r
           /\ \A q \in Requests \ {r}, i \in Ids : lock'[i] = q <=> lock[i] = q
  <1>1. \A i \in Ids : Line(r, i)' = Line(r, i) /\ View(r, i)' = View(r, i)
    BY DEF Line, View
  <1>2. AuditTrail' /\ CreationIsComplete'
    BY DEF IInv, AuditTrail, CreationIsComplete
  <1>3. LineLegal(r)'
    BY <1>1 DEF IInv, LineLegal
  <1>4. \A i \in Ids : logged'[r][i] # <<>> => lock'[i] = r
    BY DEF IInv, TypeOK, WritersHoldTheLock
  <1>5. \A q \in Requests \ {r}, i \in Ids : lock'[i] = q <=> lock[i] = q
    BY NoneAssumption DEF IInv, TypeOK
  <1> QED BY <1>1, <1>2, <1>3, <1>4, <1>5

\* A row that is there and free is r's or nobody's.
LEMMA FreeLock ==
    ASSUME IInv, NEW r \in Requests, NEW id \in Ids,
           Free(r, id), View(r, id) # None
    PROVE  lock[id] \in {None, r}
  BY DEF IInv, WritersHoldTheLock, Free, View

\* r's line of an aggregate it sees ends in an entry that left that row.
LEMMA LastOfLine ==
    ASSUME IInv, NEW r \in Requests, NEW id \in Ids, View(r, id) # None
    PROVE  LET line == Line(r, id)
               last == line[Len(line)]
           IN  /\ line \in Seq(Entry) /\ line # <<>>
               /\ last \in Entry
               /\ last.event # "Deleted"
               /\ last.row = View(r, id)
  <1> DEFINE line == Line(r, id)
  <1>1. line \in Seq(Entry)
    BY DEF IInv, TypeOK, Line
  <1>2. View(r, id) = Ledger!Current(line)
    BY DEF IInv, LineLegal
  <1> HIDE DEF line
  <1>3. line # <<>>
    BY <1>2 DEF Ledger!Current
  <1>4. line[Len(line)] \in Entry
    BY <1>1, <1>3
  <1>5. line[Len(line)].event # "Deleted" /\ line[Len(line)].row = View(r, id)
    BY <1>2, <1>3 DEF Ledger!Current, Ledger!RowAfter
  <1> QED BY <1>1, <1>3, <1>4, <1>5 DEF line

LEMMA LoadStep ==
    ASSUME IInv, NEW r \in Requests, Load(r), TypeOK'
    PROVE  IInv'
  <1> DEFINE id == agg[r].id
             old == View(r, id)
             op == Operation(r)
             new == Operate(op, old, NewValue(r))
             entry == [event |-> EventOf(op), row |-> new, by |-> By(r)]
             line == Line(r, id)
  <1>0. TypeOK /\ Progress(r) /\ CreationPending(r) /\ LineLegal(r)
    BY DEF IInv
  <1>1. /\ pc[r] = "load" /\ Free(r, id) /\ old # None /\ Allowed(op, old)
        /\ lock' = [lock EXCEPT ![id] = r]
        /\ agg' = [agg EXCEPT ![r] = [id |-> id, event |-> EventOf(op), row |-> new]]
        /\ pc' = [pc EXCEPT ![r] = "get"]
        /\ UNCHANGED <<body, resp, at, session_count, written, logged, rows, journal>>
    BY DEF Load
  <1>2. id \in Ids /\ old \in Row /\ new \in Row /\ EventOf(op) \in EventNames
        /\ NewValue(r) \in Values
    BY <1>0, <1>1, LoadType
  <1>3. lock[id] \in {None, r}
    BY <1>1, <1>2, FreeLock
  <1>4. op \in Commands \ {"CREATE"}
    BY <1>0, <1>1, CommandType DEF Operation, Progress
  <1>5. entry \in Entry
    BY <1>0, <1>2 DEF Entry, By, TypeOK
  <1>6. /\ line \in Seq(Entry) /\ line # <<>> /\ line[Len(line)] \in Entry
        /\ line[Len(line)].event # "Deleted" /\ line[Len(line)].row = old
    BY <1>1, <1>2, LastOfLine
  <1>7. Ledger!Follows(line[Len(line)], entry)
    <2> DEFINE a == line[Len(line)]
    <2>1. a \in Entry /\ a.event # "Deleted" /\ Allowed(op, a.row) /\ a.row = old
      BY <1>1, <1>6
    <2> HIDE DEF a, op
    <2> QED BY <1>2, <1>4, <2>1, OperateFollows DEF a, op
  <1>8. Ledger!LegalJournal(Append(line, entry))
    <2>1. Ledger!LegalJournal(line)
      BY <1>0, <1>2 DEF LineLegal
    <2> HIDE DEF line, entry
    <2> QED BY <2>1, <1>5, <1>6, <1>7, LegalAppend
  <1>9. /\ AuditTrail' /\ CreationIsComplete' /\ LineLegal(r)'
        /\ \A i \in Ids : Line(r, i)' = Line(r, i)
        /\ \A i \in Ids : logged'[r][i] # <<>> => lock'[i] = r
        /\ \A q \in Requests \ {r}, i \in Ids : lock'[i] = q <=> lock[i] = q
    BY <1>1, <1>2, <1>3, LockingTables
  <1>10. \A q \in Requests \ {r} : LeavesAlone(q)
    BY <1>0, <1>1, <1>9 DEF LeavesAlone, Private, TypeOK
  <1>11. /\ agg'[r] = [id |-> id, event |-> EventOf(op), row |-> new]
         /\ pc'[r] = "get" /\ lock'[id] = r
    BY <1>0, <1>1, <1>2 DEF TypeOK
  <1>12. By(r)' = By(r) /\ InHand(r)' = entry /\ agg'[r].id = id
    BY <1>1, <1>11 DEF By, InHand
  <1>13. Progress(r)' /\ Released(r)'
    BY <1>0, <1>1, <1>2, <1>11, <1>12 DEF Progress, Released, Calls, ThisCall
  <1>14. HandsLegal(r)'
    <2>1. InHand(r)' \in Entry
      BY <1>5, <1>12
    <2>2. Line(r, agg[r].id)' = line
      BY <1>1, <1>12 DEF Line
    <2> QED BY <2>2, <1>8, <1>11, <1>12, <2>1 DEF HandsLegal
  \* The update of a pending creation is its handler's.
  <1>15. CreationPending(r)'
    <2> SUFFICES ASSUME NEW i \in Ids, ~Ledger!CreationComplete(Line(r, i))
                 PROVE  /\ Len(Line(r, i)) = 1
                        /\ Line(r, i)[1].by = By(r)
                        /\ id = i /\ session_count[r] = 2
                        /\ EventOf(op) = "Updated"
                        /\ new.vo = WithSuffix[Line(r, i)[1].row.vo]
      BY <1>1, <1>9, <1>11, <1>12 DEF CreationPending
    <2>1. /\ Len(Line(r, i)) = 1 /\ Line(r, i)[1].by = By(r)
          /\ id = i /\ session_count[r] = 2 /\ agg[r].row = Line(r, i)[1].row
      BY <1>0, <1>1 DEF CreationPending
    <2>2. op = "UPDATE" /\ NewValue(r) = WithSuffix[Line(r, i)[1].row.vo]
      BY <2>1 DEF Operation, NewValue
    <2>3. new.vo = NewValue(r)
      BY <1>2, <2>2 DEF Operate, UpdateYourAggregate, Row
    <2> QED BY <2>1, <2>2, <2>3 DEF EventOf
  <1> QED BY <1>9, <1>10, <1>13, <1>14, <1>15, Assemble DEF Own

LEMMA LoadRefusedStep ==
    ASSUME IInv, NEW r \in Requests, LoadRefused(r), TypeOK'
    PROVE  IInv'
  <1> DEFINE id == agg[r].id
  <1>0. TypeOK /\ Progress(r) /\ CreationPending(r)
    BY DEF IInv
  <1>1. /\ pc[r] = "load" /\ Free(r, id) /\ View(r, id) # None
        /\ lock' = [lock EXCEPT ![id] = r]
        /\ pc' = [pc EXCEPT ![r] = "unwind"]
        /\ UNCHANGED <<body, resp, at, session_count, agg, written, logged, rows, journal>>
    BY DEF LoadRefused
  <1>2. id \in Ids
    BY <1>0, <1>1 DEF Progress
  <1>3. lock[id] \in {None, r}
    BY <1>1, <1>2, FreeLock
  <1>4. /\ AuditTrail' /\ CreationIsComplete' /\ LineLegal(r)'
        /\ \A i \in Ids : Line(r, i)' = Line(r, i)
        /\ \A i \in Ids : logged'[r][i] # <<>> => lock'[i] = r
        /\ \A q \in Requests \ {r}, i \in Ids : lock'[i] = q <=> lock[i] = q
    BY <1>1, <1>2, <1>3, LockingTables
  <1>5. \A q \in Requests \ {r} : LeavesAlone(q)
    BY <1>0, <1>1, <1>4 DEF LeavesAlone, Private, TypeOK
  <1>6. pc'[r] = "unwind" /\ By(r)' = By(r)
    BY <1>0, <1>1 DEF TypeOK, By
  <1>7. Progress(r)' /\ Released(r)' /\ HandsLegal(r)'
    BY <1>6 DEF Progress, Released, HandsLegal
  <1>8. CreationPending(r)'
    BY <1>0, <1>1, <1>4, <1>6 DEF CreationPending
  <1> QED BY <1>4, <1>5, <1>7, <1>8, Assemble DEF Own

LEMMA BeginCreateStep ==
    ASSUME IInv, NEW r \in Requests, BeginCreate(r), TypeOK'
    PROVE  IInv'
  <1> DEFINE new == CreateYourAggregate(ThisItem(r).vo)
             entry == [event |-> "Created", row |-> new, by |-> By(r)]
  <1>0. TypeOK /\ Progress(r) /\ CreationPending(r) /\ WritersHoldTheLock
    BY DEF IInv
  <1>1. PICK id \in Ids :
          /\ journal[id] = <<>> /\ lock[id] = None
          /\ lock' = [lock EXCEPT ![id] = r]
          /\ agg' = [agg EXCEPT ![r] = [id |-> id, event |-> "Created", row |-> new]]
    BY DEF BeginCreate
  <1>2. /\ pc[r] = "item" /\ body[r].cmd = "CREATE"
        /\ pc' = [pc EXCEPT ![r] = "get"]
        /\ UNCHANGED <<body, resp, at, session_count, written, logged, rows, journal>>
        /\ at[r] <= Len(ThisCall(r))
    BY DEF BeginCreate
  <1>3. new \in Row
    BY <1>0, <1>2, ItemType, CreateType DEF Progress
  <1>4. /\ AuditTrail' /\ CreationIsComplete' /\ LineLegal(r)'
        /\ \A i \in Ids : Line(r, i)' = Line(r, i)
        /\ \A i \in Ids : logged'[r][i] # <<>> => lock'[i] = r
        /\ \A q \in Requests \ {r}, i \in Ids : lock'[i] = q <=> lock[i] = q
    BY <1>1, <1>2, LockingTables
  <1>5. \A q \in Requests \ {r} : LeavesAlone(q)
    BY <1>0, <1>1, <1>2, <1>4 DEF LeavesAlone, Private, TypeOK
  <1>6. Line(r, id) = <<>>
    <2>1. logged[r][id] = <<>>
      BY <1>0, <1>1, NoneAssumption DEF WritersHoldTheLock
    <2> QED BY <1>1, <2>1 DEF Line
  <1>7. entry \in Entry /\ Ledger!Birth(entry)
    BY SMTT(30), <1>0, <1>3, CreateBirth DEF Entry, EventNames, By, TypeOK
  <1>8. Ledger!LegalJournal(Append(<<>>, entry))
    BY <1>7 DEF Ledger!LegalJournal
  <1>9. /\ agg'[r] = [id |-> id, event |-> "Created", row |-> new]
        /\ pc'[r] = "get" /\ lock'[id] = r
    BY <1>0, <1>1, <1>2 DEF TypeOK
  <1>10. By(r)' = By(r) /\ InHand(r)' = entry /\ agg'[r].id = id
    BY <1>2, <1>9 DEF By, InHand
  <1>11. Progress(r)' /\ Released(r)'
    BY <1>0, <1>2, <1>9, <1>10 DEF Progress, Released, Calls, ThisCall
  <1>12. HandsLegal(r)'
    <2>1. InHand(r)' \in Entry
      BY <1>7, <1>10
    <2>2. Line(r, agg[r].id)' = <<>>
      BY <1>2, <1>6, <1>10 DEF Line
    <2> QED BY <2>2, <1>8, <1>9, <1>10, <2>1 DEF HandsLegal
  <1>13. CreationPending(r)'
    BY <1>0, <1>2, <1>4 DEF CreationPending
  <1> QED BY <1>4, <1>5, <1>11, <1>12, <1>13, Assemble DEF Own
(***************************************************************************)
(* Saving.                                                                 *)
(***************************************************************************)

LEMMA SaveStep ==
    ASSUME IInv, NEW r \in Requests, Save(r), TypeOK'
    PROVE  IInv'
  <1>0. TypeOK /\ Progress(r) /\ CreationPending(r) /\ LineLegal(r) /\ HandsLegal(r)
        /\ WritersHoldTheLock
    BY DEF IInv
  <1>. PICK id \in Ids : id = agg[r].id
    BY <1>0 DEF Save, Progress
  <1> DEFINE e == agg[r].event
             line == Line(r, id)
             entry == InHand(r)
  <1>1. /\ pc[r] = "flush"
        /\ lock' = [lock EXCEPT ![id] = r]
        /\ written' = [written EXCEPT ![r][id] = IF e = "Deleted" THEN None ELSE agg[r].row]
        /\ logged' = [logged EXCEPT ![r][id] = Append(@, entry)]
        /\ session_count' = [session_count EXCEPT ![r] = IF e \in Subscribed THEN 2 ELSE 1]
        /\ at' = [at EXCEPT ![r] = IF e \in Subscribed THEN @ ELSE @ + 1]
        /\ pc' = [pc EXCEPT ![r] = CASE e \notin Subscribed -> "item"
                                    [] e = "Created"       -> "load"
                                    [] OTHER               -> "read"]
        /\ UNCHANGED <<body, resp, agg, rows, journal>>
    BY DEF Save, InHand
  <1>2. id \in Ids /\ entry \in Entry /\ lock[id] = r
    BY <1>0, <1>1 DEF Progress, HandsLegal
  <1>3. lock' = lock
    BY <1>0, <1>1, <1>2 DEF TypeOK
  <1>4. Line(r, id)' = Append(line, entry)
    <2>1. logged'[r][id] = Append(logged[r][id], entry)
      BY <1>0, <1>1, <1>2 DEF TypeOK
    <2>2. journal'[id] = journal[id] /\ journal[id] \in Seq(Entry) /\ logged[r][id] \in Seq(Entry)
      BY <1>0, <1>1, <1>2 DEF TypeOK
    <2>3. journal[id] \o Append(logged[r][id], entry) = Append(journal[id] \o logged[r][id], entry)
      <3> DEFINE j == journal[id]
                 l == logged[r][id]
      <3>1. j \in Seq(Entry) /\ l \in Seq(Entry) /\ entry \in Entry
        BY <1>2, <2>2
      <3> HIDE DEF j, l, entry
      <3>2. j \o Append(l, entry) = Append(j \o l, entry)
        BY <3>1, ConcatAppend
      <3> QED BY <3>2 DEF j, l
    <2>4. Line(r, id)' = journal'[id] \o logged'[r][id]
      BY <1>1 DEF Line
    <2> QED BY <2>1, <2>2, <2>3, <2>4 DEF Line
  <1>5. \A i \in Ids \ {id} : Line(r, i)' = Line(r, i) /\ View(r, i)' = View(r, i)
    <2>1. ASSUME NEW i \in Ids \ {id}
          PROVE  logged'[r][i] = logged[r][i] /\ written'[r][i] = written[r][i]
      BY <1>0, <1>1 DEF TypeOK
    <2> QED BY <1>1, <2>1 DEF Line, View
  <1>6. line \in Seq(Entry)
    BY <1>0, <1>2 DEF TypeOK, Line
  <1>7. View(r, id)' = Ledger!RowAfter(entry)
    <2>1. logged'[r][id] # <<>>
      <3>1. logged'[r][id] = Append(logged[r][id], entry) /\ logged[r][id] \in Seq(Entry)
        BY SMTT(30), <1>0, <1>1, <1>2 DEF TypeOK
      <3>2. entry \in Entry
        BY <1>2
      <3> QED BY <3>1, <3>2, AppendNotEmpty, Zenon
    <2>2. written'[r][id] = IF e = "Deleted" THEN None ELSE agg[r].row
      BY <1>0, <1>1, <1>2 DEF TypeOK
    <2>3. View(r, id)' = written'[r][id]
      BY <1>1, <2>1 DEF View
    <2> QED BY <2>2, <2>3 DEF Ledger!RowAfter, InHand
  <1>8. Ledger!LegalJournal(Append(line, entry))
    BY <1>0, <1>1 DEF HandsLegal
  <1>9. LineLegal(r)'
    <2>1. Ledger!Current(Append(line, entry)) = Ledger!RowAfter(entry)
      <3> HIDE DEF line, entry
      <3> QED BY <1>2, <1>6, CurrentAppend
    <2>2. ASSUME NEW i \in Ids
          PROVE  /\ Ledger!LegalJournal(Line(r, i)')
                 /\ View(r, i)' = Ledger!Current(Line(r, i)')
      <3>1. CASE i = id
        BY <1>4, <1>7, <1>8, <2>1, <3>1
      <3>2. CASE i # id
        BY <1>0, <1>5, <3>2 DEF LineLegal
      <3> QED BY <3>1, <3>2
    <2> QED BY <2>2 DEF LineLegal
  <1>10. AuditTrail' /\ CreationIsComplete'
    BY <1>1 DEF IInv, AuditTrail, CreationIsComplete
  <1>11. \A i \in Ids : logged'[r][i] # <<>> => lock'[i] = r
    BY <1>0, <1>1, <1>2, <1>3 DEF TypeOK, WritersHoldTheLock
  <1>12. \A q \in Requests \ {r} : LeavesAlone(q)
    BY <1>0, <1>1, <1>2, <1>3 DEF LeavesAlone, Private, TypeOK
  <1>13. /\ session_count'[r] = IF e \in Subscribed THEN 2 ELSE 1
         /\ at'[r] = IF e \in Subscribed THEN at[r] ELSE at[r] + 1
         /\ pc'[r] = CASE e \notin Subscribed -> "item"
                      [] e = "Created"       -> "load"
                      [] OTHER               -> "read"
    BY <1>0, <1>1 DEF TypeOK
  <1>14. Progress(r)'
    <2>1. agg[r].row \in Row
      BY <1>2 DEF InHand, Entry
    <2> QED BY <1>0, <1>1, <1>2, <1>13, <2>1 DEF Progress, Calls, ThisCall, Subscribed
  <1>15. Released(r)' /\ HandsLegal(r)'
    BY <1>13 DEF Released, HandsLegal
  <1>16. By(r)' = By(r) /\ entry.by = By(r) /\ entry.event = e /\ entry.row = agg[r].row
    BY <1>1 DEF By, InHand
  \* Every other aggregate was whole, or id's update is what it lacked.
  <1>17. \A i \in Ids : ~Ledger!CreationComplete(Line(r, i)) =>
            i = id /\ e = "Updated" /\ Len(Line(r, i)) = 1
    BY <1>0, <1>1 DEF CreationPending
  <1>18. CASE e = "Created"
    <2>1. line = <<>>
      <3> HIDE DEF line, entry
      <3>1. Ledger!LegalJournal(line)
        BY <1>0, <1>2 DEF LineLegal, line
      <3>2. entry.event = "Created"
        BY <1>16, <1>18
      <3>3. ~Ledger!Follows(line[Len(line)], entry)
        BY <3>2 DEF Ledger!Follows
      <3> QED BY <1>2, <1>6, <1>8, <3>1, <3>3, LegalAppend
    <2>2. Line(r, id)' = <<entry>>
      BY <1>4, <2>1
    <2>3. ASSUME NEW i \in Ids, ~Ledger!CreationComplete(Line(r, i)')
          PROVE  i = id
      BY <1>5, <1>17, <1>18, <2>3
    <2>4. /\ Len(<<entry>>) = 1 /\ <<entry>>[1].by = By(r) /\ <<entry>>[1].row = agg[r].row
          /\ pc'[r] = "load" /\ session_count'[r] = 2 /\ agg' = agg
      BY <1>1, <1>13, <1>16, <1>18 DEF Subscribed
    <2>5. CreationPending(r)'
      <3> HIDE DEF entry
      <3> QED BY <1>16, <2>2, <2>3, <2>4 DEF CreationPending
    <2> QED BY <1>9, <1>10, <1>11, <1>12, <1>14, <1>15, <2>5, Assemble DEF Own
  <1>19. CASE e # "Created"
    <2>1. line # <<>>
      <3> HIDE DEF line, entry
      <3>1. ~Ledger!Birth(entry)
        BY <1>16, <1>19 DEF Ledger!Birth
      <3>2. Ledger!LegalJournal(line)
        BY <1>0, <1>2 DEF LineLegal, line
      <3> QED BY <1>2, <1>6, <1>8, <3>1, <3>2, LegalAppend
    <2>2. Ledger!CreationComplete(Append(line, entry))
      <3>1. CASE Ledger!CreationComplete(line)
        <4> HIDE DEF line, entry
        <4>1. /\ Len(line) > 1 /\ Append(line, entry)[1] = line[1]
              /\ Append(line, entry)[2] = line[2] /\ Len(Append(line, entry)) > 1
          BY <1>2, <1>6, <2>1, <3>1 DEF Ledger!CreationComplete
        <4> QED BY <2>1, <3>1, <4>1 DEF Ledger!CreationComplete
      <3>2. CASE ~Ledger!CreationComplete(line)
        <4>1. /\ Len(line) = 1 /\ line[1].by = By(r)
              /\ e = "Updated" /\ agg[r].row.vo = WithSuffix[line[1].row.vo]
          BY <1>0, <1>1, <1>2, <3>2 DEF CreationPending
        <4>2. entry.by = line[1].by /\ entry.event = "Updated"
              /\ entry.row.vo = WithSuffix[line[1].row.vo]
          BY <1>16, <4>1
        <4> HIDE DEF line, entry
        <4>3. /\ Append(line, entry)[1] = line[1]
              /\ Append(line, entry)[2] = entry /\ Len(Append(line, entry)) = 2
          <5>1. line \in Seq(Entry) /\ entry \in Entry /\ Len(line) = 1
            BY <1>2, <1>6, <4>1
          <5> QED BY <5>1, AppendToOne
        <4> QED BY <4>2, <4>3 DEF Ledger!CreationComplete
      <3> QED BY <3>1, <3>2
    <2>3. ASSUME NEW i \in Ids PROVE Ledger!CreationComplete(Line(r, i)')
      BY <1>4, <1>5, <1>17, <2>2
    <2>4. CreationPending(r)'
      BY <2>3 DEF CreationPending
    <2> QED BY <1>9, <1>10, <1>11, <1>12, <1>14, <1>15, <2>4, Assemble DEF Own
  <1> QED BY <1>18, <1>19

(***************************************************************************)
(* The end of a transaction.                                               *)
(***************************************************************************)

\* However r's transaction ends, with or without its work in the tables, the
\* tables are sound and the others have not noticed.
LEMMA EndStep ==
    ASSUME IInv, TypeOK', NEW r \in Requests, EndTransaction(r),
           \/ pc[r] = "commit" /\ ApplyTransaction(r)
           \/ UNCHANGED <<rows, journal>>,
           pc'[r] \in {"publish", "call", "dead"},
           pc'[r] = "dead" \/ session_count'[r] = 0,
           \A q \in Requests \ {r} :
               <<pc[q], body[q], resp[q], at[q], session_count[q], agg[q]>>' =
               <<pc[q], body[q], resp[q], at[q], session_count[q], agg[q]>>
    PROVE  IInv'
  <1>0. TypeOK /\ Progress(r) /\ CreationPending(r) /\ LineLegal(r) /\ WritersHoldTheLock
        /\ AuditTrail /\ CreationIsComplete
    BY DEF IInv
  <1>1. \A id \in Ids : logged'[r][id] = <<>> /\ lock'[id] # r
    BY <1>0, NoneAssumption DEF EndTransaction, TypeOK
  <1>2. AuditTrail' /\ CreationIsComplete'
    <2>1. CASE pc[r] = "commit" /\ ApplyTransaction(r)
      <3>1. \A id \in Ids : rows'[id] = View(r, id) /\ journal'[id] = Line(r, id)
        BY <2>1 DEF ApplyTransaction, Line
      <3>2. AuditTrail'
        BY <1>0, <3>1 DEF AuditTrail, LineLegal
      <3>3. CreationIsComplete'
        BY <1>0, <2>1, <3>1 DEF CreationIsComplete, CreationPending
      <3> QED BY <3>2, <3>3
    <2>2. CASE UNCHANGED <<rows, journal>>
      BY <1>0, <2>2 DEF AuditTrail, CreationIsComplete
    <2> QED BY <2>1, <2>2
  <1>3. ASSUME NEW q \in Requests \ {r} PROVE LeavesAlone(q)
    <2>1. written'[q] = written[q] /\ logged'[q] = logged[q]
      BY <1>0 DEF EndTransaction, TypeOK
    <2>2. \A id \in Ids : lock'[id] = q <=> lock[id] = q
      <3>1. q # None /\ q # r
        BY NoneAssumption
      <3>2. \A id \in Ids : lock'[id] = IF lock[id] = r THEN None ELSE lock[id]
        BY DEF EndTransaction
      <3> QED BY <3>1, <3>2
    <2>3. ASSUME NEW id \in Ids, lock[id] = q
          PROVE  rows'[id] = rows[id] /\ journal'[id] = journal[id]
      <3>1. logged[r][id] = <<>>
        BY <1>0, <2>3 DEF WritersHoldTheLock
      <3>2. journal[id] \in Seq(Entry)
        BY <1>0 DEF TypeOK
      <3>3. journal[id] \o <<>> = journal[id]
        BY <3>2, ConcatNothing
      <3>4. CASE ApplyTransaction(r)
        <4>1. rows'[id] = View(r, id) /\ journal'[id] = journal[id] \o logged[r][id]
          BY <3>4 DEF ApplyTransaction
        <4> QED BY <3>1, <3>3, <4>1 DEF View
      <3> QED BY <3>4
    <2> QED BY <2>1, <2>2, <2>3 DEF LeavesAlone, Private
  <1>4. Progress(r)' /\ Released(r)' /\ HandsLegal(r)'
    BY <1>1 DEF Progress, Released, HandsLegal
  <1>5. ASSUME NEW id \in Ids
        PROVE  Line(r, id)' = journal'[id] /\ View(r, id)' = rows'[id]
    <2>1. journal'[id] \in Seq(Entry)
      BY DEF TypeOK
    <2> QED BY <1>1, <2>1, ConcatNothing DEF Line, View
  <1>6. LineLegal(r)'
    BY <1>2, <1>5 DEF LineLegal, AuditTrail
  <1>7. CreationPending(r)'
    BY <1>2, <1>5 DEF CreationPending, CreationIsComplete
  <1> QED BY <1>1, <1>2, <1>3, <1>4, <1>6, <1>7, Assemble DEF Own
(***************************************************************************)
(* The invariant.                                                          *)
(***************************************************************************)

LEMMA SeedLegal ==
    ASSUME NEW id \in DOMAIN Seeds
    PROVE  /\ SeedEntries(id) \in Seq(Entry)
           /\ SeedEntries(id)[2].row \in Row
           /\ Ledger!LegalJournal(SeedEntries(id))
           /\ SeedEntries(id)[2].row = Ledger!Current(SeedEntries(id))
           /\ Ledger!CreationComplete(SeedEntries(id))
  <1> DEFINE v == WithSuffix[Seeds[id]]
             born == CreateYourAggregate(Seeds[id])
             e1 == [event |-> "Created", row |-> born, by |-> <<None, 0>>]
             e2 == [event |-> "Updated", row |-> UpdateYourAggregate(born, v),
                    by |-> <<None, 0>>]
  <1>1. v \in Values /\ born \in Row
    BY SeedsAssumption, SuffixAssumption, CreateType
  <1>2. UpdateYourAggregate(born, v) \in Row
    BY <1>1, UpdateType
  <1>3. e1 \in Entry /\ e2 \in Entry
    BY <1>1, <1>2 DEF Entry, EventNames
  <1>4. Ledger!Birth(e1)
    BY CreateBirth
  <1>5. Ledger!Follows(e1, e2)
    <2>1. Allowed("UPDATE", e1.row) /\ "UPDATE" \in Commands \ {"CREATE"}
      BY DEF Allowed, MayAddHistory, CreateYourAggregate, Commands
    <2>2. e2 = [event |-> EventOf("UPDATE"), row |-> Operate("UPDATE", e1.row, v),
                by |-> <<None, 0>>]
      BY DEF EventOf, Operate
    <2>3. e1.event # "Deleted"
      OBVIOUS
    <2> HIDE DEF e1, e2, v
    <2> QED BY <1>1, <1>3, <2>1, <2>2, <2>3, OperateFollows
  <1>6. e2.event = "Updated" /\ e2.by = e1.by /\ e2.row.vo = WithSuffix[e1.row.vo]
    <2>1. e2.row.vo = v
      BY <1>1 DEF UpdateYourAggregate, Row
    <2>2. e1.row.vo = Seeds[id]
      BY DEF CreateYourAggregate
    <2> QED BY <2>1, <2>2
  <1>7. SeedEntries(id) = <<e1, e2>>
    BY DEF SeedEntries
  <1> HIDE DEF e1, e2
  <1>8. Ledger!LegalJournal(<<e1, e2>>)
    BY <1>4, <1>5 DEF Ledger!LegalJournal
  <1>9. Ledger!Current(<<e1, e2>>) = e2.row
    BY <1>6 DEF Ledger!Current, Ledger!RowAfter
  <1>10. Ledger!CreationComplete(<<e1, e2>>)
    BY <1>6 DEF Ledger!CreationComplete
  <1>11. e2.row \in Row
    BY <1>3 DEF Entry
  <1> QED BY <1>3, <1>7, <1>8, <1>9, <1>10, <1>11

LEMMA InitInv == Init => IInv
  <1> SUFFICES ASSUME Init PROVE IInv
    OBVIOUS
  <1> USE DEF Init
  <1>1. ASSUME NEW id \in Ids
        PROVE  /\ journal[id] \in Seq(Entry)
               /\ rows[id] \in Row \cup {None}
               /\ Ledger!LegalJournal(journal[id])
               /\ rows[id] = Ledger!Current(journal[id])
               /\ Ledger!CreationComplete(journal[id])
    <2>1. CASE id \in DOMAIN Seeds
      BY <2>1, SeedLegal
    <2>2. CASE id \notin DOMAIN Seeds
      <3>1. journal[id] = <<>> /\ rows[id] = None
        BY <2>2
      <3>2. Ledger!LegalJournal(<<>>) /\ Ledger!CreationComplete(<<>>)
            /\ Ledger!Current(<<>>) = None /\ <<>> \in Seq(Entry)
        BY DEF Ledger!LegalJournal, Ledger!CreationComplete, Ledger!Current
      <3> QED BY ONLY <3>1, <3>2
    <2> QED BY <2>1, <2>2
  <1>2. TypeOK
    <2>1. journal \in [Ids -> Seq(Entry)] /\ rows \in [Ids -> Row \cup {None}]
      BY <1>1
    <2>2. /\ agg \in [Requests -> Agg] /\ pc \in [Requests -> PCs]
          /\ at \in [Requests -> Nat \ {0}] /\ session_count \in [Requests -> 0 .. 2]
          /\ resp \in [Requests -> Seq(BOOLEAN)] /\ msgs \in [Requests -> Seq(Ids)]
      BY NoAggType DEF PCs
    <2>3. /\ written \in [Requests -> [Ids -> Row \cup {None}]]
          /\ logged \in [Requests -> [Ids -> Seq(Entry)]]
      BY EmptyWork
    <2>4. /\ body \in [Requests -> Bodies] /\ found \in [Requests -> BOOLEAN]
          /\ lock \in [Ids -> Requests \cup {None}] /\ broker \in Seq(Seq(Ids))
      OBVIOUS
    <2> QED BY <2>1, <2>2, <2>3, <2>4 DEF TypeOK
  <1>3. WritersHoldTheLock /\ AuditTrail /\ CreationIsComplete
    BY <1>1 DEF WritersHoldTheLock, AuditTrail, CreationIsComplete
  <1>4. ASSUME NEW r \in Requests
        PROVE  Progress(r) /\ Released(r) /\ HandsLegal(r) /\ LineLegal(r) /\ CreationPending(r)
    <2>1. Progress(r) /\ Released(r) /\ HandsLegal(r)
      BY NoneAssumption DEF Progress, Released, HandsLegal
    <2>2. \A id \in Ids : Line(r, id) = journal[id] /\ View(r, id) = rows[id]
      <3>1. ASSUME NEW id \in Ids PROVE journal[id] \o <<>> = journal[id]
        BY <1>1, ConcatNothing
      <3> QED BY <3>1 DEF Line, View
    <2> QED BY <1>1, <2>1, <2>2 DEF LineLegal, CreationPending
  <1> QED BY <1>2, <1>3, <1>4 DEF IInv

\* Every step of a request preserves the invariant, ...
LEMMA StepInv ==
    ASSUME IInv, NEW r \in Requests, Proceed(r) \/ Fail(r)
    PROVE  IInv'
  <1>0. TypeOK' /\ TypeOK
    BY StepTypes DEF IInv
  <1>1. CASE Quiet(r)
    BY <1>0, <1>1, QuietStep
  <1>2. CASE BeginCreate(r)
    BY <1>0, <1>2, BeginCreateStep
  <1>3. CASE Load(r)
    BY <1>0, <1>3, LoadStep
  <1>4. CASE LoadRefused(r)
    BY <1>0, <1>4, LoadRefusedStep
  <1>5. CASE Save(r)
    BY <1>0, <1>5, SaveStep
  <1>6. CASE Commit(r)
    <2>1. session_count[r] = 1
      BY <1>6 DEF Commit, IInv, Progress
    <2> QED BY <1>0, <1>6, <2>1, EndStep DEF Commit, LeaveScope, TypeOK
  <1>7. CASE CommitFails(r)
    <2>1. session_count[r] = 1
      BY <1>7 DEF CommitFails, IInv, Progress
    <2>2. EndTransaction(r) /\ (ApplyTransaction(r) \/ UNCHANGED <<rows, journal>>)
          /\ pc[r] = "commit"
      BY <1>7 DEF CommitFails
    <2>3. pc'[r] = "call" /\ session_count'[r] = 0
      BY <1>0, <1>7, <2>1 DEF CommitFails, LeaveScope, EndCall, TypeOK
    <2>4. \A q \in Requests \ {r} :
               <<pc[q], body[q], resp[q], at[q], session_count[q], agg[q]>>' =
               <<pc[q], body[q], resp[q], at[q], session_count[q], agg[q]>>
      BY <1>0, <1>7 DEF CommitFails, EndCall, TypeOK
    <2> QED BY <1>0, <2>2, <2>3, <2>4, EndStep
  <1>8. CASE Unwind(r)
    <2>1. session_count[r] \in 0 .. 2 /\ session_count'[r] = LeaveScopes(session_count[r])
      BY <1>0, <1>8 DEF Unwind, TypeOK
    <2>2. session_count'[r] = 0
      BY <2>1 DEF LeaveScopes, LeaveScope
    <2> QED BY <1>0, <1>8, <2>2, EndStep DEF Unwind, EndCall, TypeOK
  <1>9. CASE Crash(r)
    BY <1>0, <1>9, EndStep DEF Crash, TypeOK
  <1> QED BY <1>1, <1>2, <1>3, <1>4, <1>5, <1>6, <1>7, <1>8, <1>9 DEF Proceed, Fail, Quiet

\* ... and so does every step of the system.
LEMMA NextInv ==
    ASSUME IInv, [Next]_vars
    PROVE  IInv'
  <1>1. ASSUME NEW r \in Requests, Proceed(r) \/ Fail(r) PROVE IInv'
    BY <1>1, StepInv
  <1>2. CASE UNCHANGED vars
    <2>1. UNCHANGED database /\ UNCHANGED coroutine /\ UNCHANGED broker
      BY <1>2 DEF vars
    <2>2. TypeOK'
      BY <2>1 DEF IInv, TypeOK, coroutine, database
    <2>3. /\ AuditTrail' /\ CreationIsComplete' /\ WritersHoldTheLock'
          /\ \A r \in Requests : LineLegal(r)'
          /\ \A r \in Requests, id \in Ids : Line(r, id)' = Line(r, id)
      BY <2>1, QuietTables
    <2>4. \A r \in Requests : Private(r)' = Private(r) /\ LeavesAlone(r)
      BY <2>1 DEF coroutine, database, Private, LeavesAlone
    <2>5. \A r \in Requests : Own(r)'
      BY <2>2, <2>3, <2>4, OthersKeep
    <2> QED BY <2>2, <2>3, <2>5 DEF IInv, Own
  <1> QED BY <1>1, <1>2 DEF Next, AllOver

\* The inductive invariant holds in every reachable state.
THEOREM Invariant == Spec => []IInv
  BY InitInv, NextInv, PTL DEF Spec

\* Types, for any instance.
THEOREM TypeCorrect == Spec => []TypeOK
  <1>1. IInv => TypeOK
    BY DEF IInv
  <1> QED BY <1>1, Invariant, PTL

\* The committed tables are a legal audit trail: SELECT FOR UPDATE in _load,
\* held to the commit, is enough against every interleaving and failure.
THEOREM AuditTrailAlways == Spec => []AuditTrail
  <1>1. IInv => AuditTrail
    BY DEF IInv
  <1> QED BY <1>1, Invariant, PTL

\* A creation is never visible without its event handler's update.
THEOREM CreationAlwaysComplete == Spec => []CreationIsComplete
  <1>1. IInv => CreationIsComplete
    BY DEF IInv
  <1> QED BY <1>1, Invariant, PTL

\* A coroutine never saves a stale entity.
THEOREM NeverStale == Spec => []LoadedIsCurrent
  <1>1. IInv => LoadedIsCurrent
    BY DEF IInv, HandsLegal, LoadedIsCurrent
  <1> QED BY <1>1, Invariant, PTL

\* Uncommitted work is always under its row's lock.
THEOREM WritersAlwaysHoldTheLock == Spec => []WritersHoldTheLock
  <1>1. IInv => WritersHoldTheLock
    BY DEF IInv
  <1> QED BY <1>1, Invariant, PTL

\* Between calls a request holds no session, lock or uncommitted work.
THEOREM NothingEverHeldBetweenCalls == Spec => []NothingHeldBetweenCalls
  <1>1. IInv => NothingHeldBetweenCalls
    BY DEF IInv, Progress, Released, NothingHeldBetweenCalls
  <1> QED BY <1>1, Invariant, PTL
(***************************************************************************)
(* The abstract ledger is implemented.                                     *)
(***************************************************************************)

\* No step rewrites a journal.
LEMMA JournalsGrow ==
    ASSUME IInv, [Next]_vars
    PROVE  \A id \in Ids : Ledger!Extends(journal[id], journal'[id])
  <1>0. TypeOK
    BY DEF IInv
  <1>1. CASE UNCHANGED journal
    BY <1>1 DEF Ledger!Extends
  <1>2. ASSUME NEW r \in Requests, ApplyTransaction(r)
        PROVE  \A id \in Ids : Ledger!Extends(journal[id], journal'[id])
    <2>1. ASSUME NEW id \in Ids PROVE Ledger!Extends(journal[id], journal'[id])
      <3> DEFINE j == journal[id]
                 l == logged[r][id]
      <3>1. j \in Seq(Entry) /\ l \in Seq(Entry) /\ journal'[id] = j \o l
        BY <1>0, <1>2 DEF TypeOK, ApplyTransaction
      <3> HIDE DEF j, l
      <3>2. Ledger!Extends(j, j \o l)
        BY <3>1, ExtendsConcat
      <3> QED BY <3>1, <3>2 DEF j
    <2> QED BY <2>1
  <1>3. UNCHANGED journal \/ \E r \in Requests : ApplyTransaction(r)
    <2>1. CASE UNCHANGED vars
      BY <2>1 DEF vars, database
    <2>2. ASSUME NEW r \in Requests, Proceed(r)
          PROVE  UNCHANGED journal \/ ApplyTransaction(r)
      BY <2>2 DEF Proceed, Enter, Finish, BeginCreate, BeginLoad, BeginCommit, Load,
         LoadRefused, LoadMissing, GetModel, Save, ReadVoided, Commit, Publish, Unwind, database
    <2>3. ASSUME NEW r \in Requests, Fail(r)
          PROVE  UNCHANGED journal \/ ApplyTransaction(r)
      BY <2>3 DEF Fail, StatementFails, DeadlockVictim, CommitFails, PublishFails, Crash, database
    <2> QED BY <2>1, <2>2, <2>3 DEF Next, AllOver
  <1> QED BY <1>1, <1>2, <1>3

LEMMA InvSound == IInv => Ledger!Sound
  BY DEF IInv, AuditTrail, CreationIsComplete, Ledger!Sound

\* The service implements the ledger: what the tables hold can be explained
\* without requests, sessions, locks and failures.
THEOREM ImplementsTheLedger == Spec => ImplementsLedger
  <1>1. Init => Ledger!Init
    BY InitInv, InvSound DEF Ledger!Init
  <1>2. IInv /\ IInv' /\ [Next]_vars => [Ledger!Next]_(Ledger!vars)
    <2>1. IInv' => Ledger!Sound'
      BY DEF IInv, AuditTrail, CreationIsComplete, Ledger!Sound
    <2>2. IInv /\ [Next]_vars => \A id \in Ids : Ledger!Extends(journal[id], journal'[id])
      BY JournalsGrow
    <2> QED BY <2>1, <2>2 DEF Ledger!Next
  <1> QED BY <1>1, <1>2, Invariant, PTL DEF Spec, ImplementsLedger, Ledger!Spec

(***************************************************************************)
(* Voided and deleted aggregates.                                          *)
(***************************************************************************)

\* A legal continuation of a voided aggregate's journal can only delete it, and
\* a deleted one's has no continuation.
LEMMA FinalRows ==
    ASSUME NEW j \in Seq(Entry), NEW k \in Seq(Entry),
           Ledger!LegalJournal(k), Ledger!Extends(j, k)
    PROVE  /\ Ledger!Current(j) # None /\ Ledger!Current(j).status = "VOIDED"
                => Ledger!Current(k) \in {Ledger!Current(j), None}
           /\ Ledger!Current(j) = None /\ j # <<>> => Ledger!Current(k) = None
  <1> DEFINE m == Len(j)
             l == Len(k)
  <1>1. m \in Nat /\ l \in Nat /\ m <= l /\ \A n \in 1 .. m : k[n] = j[n]
    BY DEF Ledger!Extends
  <1>2. CASE j = <<>>
    BY <1>2 DEF Ledger!Current
  <1>3. CASE j # <<>>
    <2>1. m > 0 /\ k # <<>> /\ k[m] = j[m] /\ k[m] \in Entry /\ k[l] \in Entry
      BY <1>1, <1>3
    <2>2. Ledger!Current(j) = Ledger!RowAfter(k[m]) /\ Ledger!Current(k) = Ledger!RowAfter(k[l])
      BY <1>3, <2>1 DEF Ledger!Current
    <2>3. ASSUME NEW n \in m .. l, n # l PROVE Ledger!Follows(k[n], k[n+1])
      <3>1. n + 1 \in 1 .. l /\ n + 1 # 1 /\ (n + 1) - 1 = n
        BY <1>1, <2>1, <2>3
      <3> QED BY <3>1 DEF Ledger!LegalJournal
    <2>4. CASE l = m
      BY <2>2, <2>4
    <2>5. CASE l # m /\ k[m].event = "Deleted"
      BY <1>1, <2>3, <2>5 DEF Ledger!Follows
    <2>6. CASE l # m /\ k[m].event # "Deleted" /\ k[m].row.status = "VOIDED"
      <3>1. Ledger!Follows(k[m], k[m+1]) /\ m + 1 \in m .. l
        BY <1>1, <2>3, <2>6
      <3>2. k[m+1].event = "Deleted"
        BY <2>6, <3>1 DEF Ledger!Follows
      <3>3. m + 1 = l
        BY <2>3, <3>1, <3>2 DEF Ledger!Follows
      <3> QED BY <2>1, <2>2, <2>6, <3>2, <3>3, NoneIsNoRow DEF Ledger!RowAfter, Entry
    <2>7. CASE k[m].event # "Deleted" /\ k[m].row.status # "VOIDED"
      BY <2>1, <2>2, <2>7, NoneIsNoRow DEF Ledger!RowAfter, Entry
    <2> QED BY <2>4, <2>5, <2>6, <2>7
  <1> QED BY <1>2, <1>3

\* A voided aggregate can only be deleted, a deleted one never comes back.
THEOREM Finality == Spec => VoidedAndDeletedAreFinal
  <1>1. ASSUME IInv, IInv', [Next]_vars
        PROVE  \A id \in Ids :
                 /\ rows[id] # None /\ rows[id].status = "VOIDED" => rows'[id] \in {rows[id], None}
                 /\ rows[id] = None /\ journal[id] # <<>> => rows'[id] = None
    <2> SUFFICES ASSUME NEW id \in Ids
                 PROVE
                 /\ rows[id] # None /\ rows[id].status = "VOIDED" => rows'[id] \in {rows[id], None}
                 /\ rows[id] = None /\ journal[id] # <<>> => rows'[id] = None
      OBVIOUS
    <2>1. journal[id] \in Seq(Entry) /\ journal'[id] \in Seq(Entry)
      BY <1>1 DEF IInv, TypeOK
    <2>2. rows[id] = Ledger!Current(journal[id])
      BY <1>1 DEF IInv, AuditTrail
    <2>3. Ledger!LegalJournal(journal'[id]) /\ rows'[id] = Ledger!Current(journal'[id])
      BY <1>1 DEF IInv, AuditTrail
    <2>4. Ledger!Extends(journal[id], journal'[id])
      BY <1>1, JournalsGrow
    <2> QED BY <2>1, <2>2, <2>3, <2>4, FinalRows
  <1> QED BY <1>1, Invariant, PTL DEF Spec, VoidedAndDeletedAreFinal
(***************************************************************************)
(* Announcements, when commits do not fail.                                *)
(***************************************************************************)

\* r's transaction, or an earlier one, has voided id.
Voiding(r, id) == \E n \in 1 .. Len(Line(r, id)) : Line(r, id)[n].event = "Voided"

Queued(r) ==
    /\ \A k \in 1 .. Len(msgs[r]) : Voiding(r, msgs[r][k])
    /\ pc[r] = "read" => Voiding(r, agg[r].id)

AInv == IInv /\ AnnouncedWasVoided /\ \A r \in Requests : Queued(r)

\* A line grows, or r gives its transaction up.
LEMMA LinesGrow ==
    ASSUME IInv, IInv', NEW r \in Requests, Proceed(r) \/ Fail(r), "commit" \notin Faults,
           NEW q \in Requests, q # r \/ (~Unwind(r) /\ ~Crash(r)), NEW id \in Ids
    PROVE  Ledger!Extends(Line(q, id), Line(q, id)')
  <1>0. TypeOK /\ TypeOK' /\ WritersHoldTheLock /\ Progress(r) /\ HandsLegal(r)
    BY DEF IInv
  <1> DEFINE j == journal[id]
             l == logged[q][id]
  <1>1. j \in Seq(Entry) /\ l \in Seq(Entry) /\ journal'[id] \in Seq(Entry)
    BY <1>0 DEF TypeOK
  <1>2. j \o <<>> = j /\ journal'[id] \o <<>> = journal'[id]
    BY <1>1, ConcatNothing
  <1>3. CASE logged'[q][id] = l /\ journal'[id] = j
    BY <1>3 DEF Line, Ledger!Extends
  <1>4. CASE logged'[q][id] = l /\ l = <<>>
    <2>1. Ledger!Extends(j, journal'[id])
      BY JournalsGrow DEF Next
    <2> QED BY <1>2, <1>4, <2>1 DEF Line
  <1>5. CASE Save(r)
    <2>1. journal' = journal
      BY <1>5 DEF Save
    <2>2. CASE q = r /\ agg[r].id = id
      <3>1. InHand(r) \in Entry /\ logged'[q][id] = Append(l, InHand(r))
        BY <1>0, <1>5, <2>2 DEF Save, InHand, HandsLegal, TypeOK
      <3>2. Line(q, id)' = j \o Append(l, InHand(r)) /\ Line(q, id) = j \o l
        BY <2>1, <3>1 DEF Line
      <3> HIDE DEF j, l
      <3>3. j \o Append(l, InHand(r)) = Append(j \o l, InHand(r)) /\ j \o l \in Seq(Entry)
        BY <1>1, <3>1, ConcatAppend
      <3> DEFINE a == j \o l
      <3>4. a \in Seq(Entry)
        BY <3>3
      <3> HIDE DEF a
      <3>5. Ledger!Extends(a, Append(a, InHand(r)))
        BY <3>1, <3>4 DEF Ledger!Extends
      <3> QED BY <3>2, <3>3, <3>5 DEF a
    <2>3. CASE ~(q = r /\ agg[r].id = id)
      <3>1. logged'[q][id] = l
        BY <1>0, <1>5, <2>3 DEF Save, TypeOK
      <3> QED BY <1>3, <2>1, <3>1
    <2> QED BY <2>2, <2>3
  <1>6. CASE Commit(r) \/ Unwind(r) \/ Crash(r)
    <2>1. EndTransaction(r)
      BY <1>6 DEF Commit, Unwind, Crash
    <2>2. CASE q = r
      <3>1. journal'[id] = Line(q, id) /\ logged'[q][id] = <<>>
        BY <1>0, <1>6, <2>1, <2>2 DEF Commit, ApplyTransaction, EndTransaction, Line, TypeOK
      <3>2. Line(q, id)' = Line(q, id)
        BY <1>2, <3>1 DEF Line
      <3> QED BY <3>2 DEF Ledger!Extends
    <2>3. CASE q # r
      <3>1. logged'[q][id] = l
        BY <1>0, <2>1, <2>3 DEF EndTransaction, TypeOK
      <3>2. CASE l = <<>>
        BY <1>4, <3>1, <3>2
      <3>3. CASE l # <<>>
        <4>1. logged[r][id] = <<>>
          BY <1>0, <2>3, <3>3 DEF WritersHoldTheLock
        <4>2. journal'[id] = j
          BY <1>2, <1>6, <4>1 DEF Commit, Unwind, Crash, ApplyTransaction
        <4> QED BY <1>3, <3>1, <4>2
      <3> QED BY <3>2, <3>3
    <2> QED BY <2>2, <2>3
  <1>7. CASE Quiet(r) \/ BeginCreate(r) \/ Load(r) \/ LoadRefused(r)
    <2>1. logged' = logged /\ journal' = journal
      BY <1>7 DEF Quiet, Enter, Finish, BeginLoad, BeginCommit, LoadMissing, GetModel,
           ReadVoided, StatementFails, DeadlockVictim, Publish, PublishFails, BeginCreate,
           Load, LoadRefused, database
    <2> QED BY <1>3, <2>1
  <1>8. ~CommitFails(r)
    BY DEF CommitFails
  <1> QED BY <1>5, <1>6, <1>7, <1>8 DEF Proceed, Fail, Quiet

\* What was voided in a line is voided in what it grows into.
LEMMA VoidingGrows ==
    ASSUME NEW j \in Seq(Entry), NEW k \in Seq(Entry), Ledger!Extends(j, k),
           \E n \in 1 .. Len(j) : j[n].event = "Voided"
    PROVE  \E n \in 1 .. Len(k) : k[n].event = "Voided"
  <1>1. Len(j) \in Nat /\ Len(k) \in Nat /\ Len(j) <= Len(k) /\ \A n \in 1 .. Len(j) : k[n] = j[n]
    BY DEF Ledger!Extends
  <1>2. PICK n \in 1 .. Len(j) : j[n].event = "Voided"
    OBVIOUS
  <1>3. n \in 1 .. Len(k) /\ k[n].event = "Voided"
    BY <1>1, <1>2
  <1> QED BY <1>3

LEMMA AnnouncingStep ==
    ASSUME AInv, IInv', NEW r \in Requests, Proceed(r) \/ Fail(r), "commit" \notin Faults
    PROVE  AInv'
  <1>0. /\ IInv /\ TypeOK /\ TypeOK' /\ Progress(r) /\ Released(r) /\ AnnouncedWasVoided
        /\ \A q \in Requests : Queued(q)
    BY DEF AInv, IInv
  <1>h. TypeOK /\ HandsLegal(r)
    BY <1>0 DEF IInv
  <1>q. ASSUME NEW q \in Requests, NEW k \in 1 .. Len(msgs[q])
        PROVE  msgs[q][k] \in Ids /\ Voiding(q, msgs[q][k])
    <2>1. msgs[q] \in Seq(Ids)
      BY <1>h DEF TypeOK
    <2>2. msgs[q][k] \in Ids
      BY <2>1
    <2> QED BY <1>0, <2>2 DEF Queued
  <1>1. \A id \in Ids : journal[id] \in Seq(Entry) /\ journal'[id] \in Seq(Entry)
    BY <1>0 DEF TypeOK
  <1>2. ASSUME NEW id \in Ids, WasVoided(id) PROVE WasVoided(id)'
    <2> DEFINE j == journal[id]
               k == journal'[id]
    <2>1. j \in Seq(Entry) /\ k \in Seq(Entry) /\ Ledger!Extends(j, k)
      BY <1>0, <1>1, JournalsGrow DEF Next
    <2>2. \E n \in 1 .. Len(j) : j[n].event = "Voided"
      BY <1>2, <2>1 DEF WasVoided
    <2> HIDE DEF j, k
    <2>3. \E n \in 1 .. Len(k) : k[n].event = "Voided"
      BY <2>1, <2>2, VoidingGrows
    <2> QED BY <2>1, <2>3 DEF WasVoided, k
  <1>3. ASSUME NEW q \in Requests, q # r \/ (~Unwind(r) /\ ~Crash(r)),
               NEW id \in Ids, Voiding(q, id)
        PROVE  \E n \in 1 .. Len(Line(q, id)') : Line(q, id)'[n].event = "Voided"
    <2> DEFINE j == Line(q, id)
               k == Line(q, id)'
    <2>1. j \in Seq(Entry) /\ k \in Seq(Entry)
      BY <1>0 DEF TypeOK, Line
    <2>2. Ledger!Extends(j, k)
      BY <1>0, <1>3, LinesGrow
    <2>3. \E n \in 1 .. Len(j) : j[n].event = "Voided"
      BY <1>3 DEF Voiding
    <2> HIDE DEF j, k
    <2>4. \E n \in 1 .. Len(k) : k[n].event = "Voided"
      BY <2>1, <2>2, <2>3, VoidingGrows
    <2> QED BY <2>4 DEF k
  \* The broker: what is published was queued by a transaction that committed.
  <1>4. AnnouncedWasVoided'
    <2>1. CASE broker' = broker
      BY <1>0, <1>2, <2>1 DEF AnnouncedWasVoided, TypeOK
    <2>2. CASE pc[r] = "publish" /\ broker' = Append(broker, msgs[r])
      <3>1. \A k \in 1 .. Len(msgs[r]) : msgs[r][k] \in Ids /\ WasVoided(msgs[r][k])
        <4> SUFFICES ASSUME NEW k \in 1 .. Len(msgs[r])
                     PROVE  msgs[r][k] \in Ids /\ WasVoided(msgs[r][k])
          OBVIOUS
        <4> DEFINE id == msgs[r][k]
        <4>1. id \in Ids /\ Voiding(r, id)
          BY <1>0 DEF TypeOK, Queued
        <4>2. logged[r][id] = <<>> /\ journal[id] \in Seq(Entry)
          BY <1>0, <1>1, <2>2, <4>1 DEF Released
        <4>3. Line(r, id) = journal[id]
          BY <4>2, ConcatNothing DEF Line
        <4> QED BY <4>1, <4>2, <4>3 DEF Voiding, WasVoided
      <3>2. ASSUME NEW m \in DOMAIN broker', NEW k \in DOMAIN broker'[m]
            PROVE  broker'[m][k] \in Ids /\ WasVoided(broker'[m][k])
        <4>0. broker \in Seq(Seq(Ids)) /\ msgs[r] \in Seq(Ids)
          BY <1>0 DEF TypeOK
        <4>1. /\ Len(broker') = Len(broker) + 1
              /\ \A i \in 1 .. Len(broker) : broker'[i] = broker[i]
              /\ broker'[Len(broker) + 1] = msgs[r]
          BY <2>2, <4>0, AppendProperties
        <4>2. m \in 1 .. Len(broker) + 1
          BY <1>0, <4>1 DEF TypeOK
        <4>3. CASE m \in 1 .. Len(broker)
          <5>1. broker'[m] = broker[m] /\ broker[m] \in Seq(Ids)
            BY <4>0, <4>1, <4>3
          <5> QED BY <1>0, <4>0, <4>3, <5>1 DEF AnnouncedWasVoided
        <4>4. CASE m = Len(broker) + 1
          <5>1. broker'[m] = msgs[r]
            BY <4>1, <4>4
          <5>2. k \in 1 .. Len(msgs[r])
            BY <4>0, <5>1
          <5> QED BY <3>1, <5>1, <5>2
        <4> QED BY <4>0, <4>2, <4>3, <4>4
      <3>3. UNCHANGED journal
        BY <2>2 DEF Proceed, Fail, Enter, Finish, BeginCreate, BeginLoad, BeginCommit, Load,
           LoadRefused, LoadMissing, GetModel, Save, ReadVoided, Commit, Publish, Unwind,
           StatementFails, DeadlockVictim, CommitFails, PublishFails, Crash, database
      <3> QED BY <3>2, <3>3 DEF AnnouncedWasVoided, WasVoided
    <2> QED BY <2>1, <2>2 DEF Proceed, Fail, Enter, Finish, BeginCreate, BeginLoad,
           BeginCommit, Load, LoadRefused, LoadMissing, GetModel, Save, ReadVoided, Commit,
           Publish, Unwind, StatementFails, DeadlockVictim, CommitFails, PublishFails, Crash
  \* The queues: a message is pushed after its voiding is flushed, and a
  \* rollback empties the queue.
  <1>5. ASSUME NEW q \in Requests \ {r} PROVE Queued(q)'
    <2>1. msgs'[q] = msgs[q] /\ pc'[q] = pc[q] /\ agg'[q] = agg[q]
      BY <1>0 DEF Proceed, Fail, Enter, Finish, BeginCreate, BeginLoad,
           BeginCommit, Load, LoadRefused, LoadMissing, GetModel, Save, ReadVoided, Commit,
           Publish, Unwind, StatementFails, DeadlockVictim, CommitFails, PublishFails, Crash,
           EndCall, TypeOK
    <2>2. \A k \in 1 .. Len(msgs[q]) : msgs[q][k] \in Ids /\ Voiding(q, msgs[q][k])
      BY <1>q
    <2>3. pc[q] = "read" => agg[q].id \in Ids /\ Voiding(q, agg[q].id)
      BY <1>0 DEF Queued, IInv, Progress
    <2>4. \A id \in Ids : Voiding(q, id) => Voiding(q, id)'
      BY <1>3 DEF Voiding
    <2> QED BY <2>1, <2>2, <2>3, <2>4 DEF Queued, Voiding, Line
  <1>6. Queued(r)'
    <2> DEFINE Kept == /\ msgs'[r] = msgs[r]
                       /\ pc'[r] = "read" => pc[r] = "read" /\ agg'[r] = agg[r]
                       /\ ~Unwind(r) /\ ~Crash(r)
    <2>1. \A k \in 1 .. Len(msgs[r]) : msgs[r][k] \in Ids /\ Voiding(r, msgs[r][k])
      BY <1>q
    <2>2. pc[r] = "read" => agg[r].id \in Ids /\ Voiding(r, agg[r].id)
      BY <1>0 DEF Queued, Progress
    <2>3. CASE Kept
      <3>1. \A id \in Ids : Voiding(r, id) => Voiding(r, id)'
        BY <1>3, <2>3 DEF Voiding
      <3> QED BY <2>1, <2>2, <2>3, <3>1 DEF Queued, Voiding, Line
    <2>4. CASE msgs'[r] = <<>> /\ pc'[r] # "read"
      BY <2>4 DEF Queued
    <2>5. CASE ReadVoided(r)
      <3>1. /\ pc[r] = "read" /\ pc'[r] = "item" /\ UNCHANGED <<logged, journal>>
            /\ msgs'[r] = msgs[r] \/ msgs'[r] = Append(msgs[r], agg[r].id)
        BY <1>0, <2>5 DEF ReadVoided, TypeOK, database
      <3>2. \A id : Voiding(r, id)' <=> Voiding(r, id)
        BY <3>1 DEF Voiding, Line
      <3>3. msgs[r] \in Seq(Ids)
        BY <1>0 DEF TypeOK
      <3>4. \A k \in 1 .. Len(msgs'[r]) : Voiding(r, msgs'[r][k])
        <4>1. CASE msgs'[r] = msgs[r]
          BY <2>1, <4>1
        <4>2. CASE msgs'[r] = Append(msgs[r], agg[r].id)
          BY <2>1, <2>2, <3>1, <3>3, <4>2
        <4> QED BY <3>1, <4>1, <4>2
      <3> QED BY <3>1, <3>4 DEF Queued, Voiding, Line
    <2>6. CASE Save(r)
      <3>1. pc'[r] # "read" \/ agg[r].event = "Voided"
        <4>1. agg[r].event \in EventNames
          BY <1>h, <2>6 DEF Save, HandsLegal, InHand, Entry
        <4>2. pc \in [Requests -> PCs]
          BY <1>h DEF TypeOK
        <4> QED BY <2>6, <4>1, <4>2 DEF Save, Subscribed, EventNames
      <3>2. msgs' = msgs /\ agg' = agg /\ ~Unwind(r) /\ ~Crash(r)
        <4>1. pc[r] = "flush" /\ pc'[r] # "dead"
          BY <1>0, <2>6 DEF Save, TypeOK
        <4> QED BY <1>0, <2>6, <4>1 DEF Save, Unwind, Crash, TypeOK
      <3>3. CASE pc'[r] # "read"
        BY <2>3, <3>2, <3>3
      <3>4. CASE agg[r].event = "Voided"
        <4>1. PICK id \in Ids : id = agg[r].id
          BY <1>0, <2>6 DEF Save, Progress
        <4>2. InHand(r) \in Entry /\ logged'[r][id] = Append(logged[r][id], InHand(r))
              /\ journal'[id] = journal[id]
          <5>1. InHand(r) \in Entry
            BY <1>h, <2>6 DEF Save, HandsLegal
          <5>2. logged \in [Requests -> [Ids -> Seq(Entry)]]
            BY <1>h DEF TypeOK
          <5> QED BY <2>6, <4>1, <5>1, <5>2 DEF Save, InHand
        <4> DEFINE j == journal[id]
                   l == logged[r][id]
                   k == Line(r, id)'
        <4>3. k = j \o Append(l, InHand(r)) /\ j \in Seq(Entry) /\ l \in Seq(Entry)
          BY <1>0, <4>2 DEF Line, TypeOK
        <4> HIDE DEF j, l, k
        <4> DEFINE a == j \o l
        <4>4. k = Append(a, InHand(r)) /\ a \in Seq(Entry)
          BY <4>2, <4>3, ConcatAppend
        <4> HIDE DEF a
        <4>5. Len(k) \in 1 .. Len(k) /\ k[Len(k)].event = "Voided"
          BY <3>4, <4>2, <4>4 DEF InHand
        <4>6. \E n \in 1 .. Len(k) : k[n].event = "Voided"
          BY <4>5
        <4>7. Voiding(r, agg[r].id)'
          BY <3>2, <4>1, <4>6 DEF Voiding, k, Line
        <4>8. \A i \in Ids : Voiding(r, i) => Voiding(r, i)'
          BY <1>3, <3>2 DEF Voiding
        <4> QED BY <2>1, <3>2, <4>7, <4>8 DEF Queued, Voiding, Line
      <3> QED BY <3>1, <3>3, <3>4
    <2>7. /\ msgs \in [Requests -> Seq(Ids)] /\ pc \in [Requests -> PCs]
          /\ agg \in [Requests -> Agg]
      BY <1>h DEF TypeOK
    <2>8. CASE \/ Publish(r) \/ Unwind(r) \/ Crash(r)
               \/ PublishFails(r) /\ msgs' # msgs
      BY <2>4, <2>7, <2>8 DEF Publish, PublishFails, Unwind, Crash, EndCall
    <2>9. CASE \/ Enter(r) \/ Finish(r) \/ BeginCreate(r) \/ BeginLoad(r) \/ BeginCommit(r)
               \/ Load(r) \/ LoadRefused(r) \/ LoadMissing(r) \/ GetModel(r)
      <3>1. /\ msgs'[r] = msgs[r] /\ pc'[r] # "read"
            /\ pc[r] # "unwind" /\ pc'[r] # "dead"
        BY <2>7, <2>9 DEF Enter, Finish, BeginCreate, BeginLoad, BeginCommit, Load,
            LoadRefused, LoadMissing, GetModel
      <3> QED BY <2>3, <2>7, <3>1 DEF Unwind, Crash
    <2>10. CASE \/ StatementFails(r) \/ DeadlockVictim(r) \/ Commit(r)
                \/ PublishFails(r) /\ msgs' = msgs
      <3>1. /\ msgs'[r] = msgs[r] /\ pc'[r] # "read"
            /\ pc[r] # "unwind" /\ pc'[r] # "dead"
        BY <2>7, <2>10 DEF StatementFails, DeadlockVictim, Deadlocked, WaitsFor, Commit,
            PublishFails, EndCall
      <3> QED BY <2>3, <2>7, <3>1 DEF Unwind, Crash
    <2> QED BY <2>5, <2>6, <2>8, <2>9, <2>10 DEF Proceed, Fail, CommitFails
  <1> QED BY <1>0, <1>4, <1>5, <1>6 DEF AInv

LEMMA AnnouncedInvariant ==
    ASSUME "commit" \notin Faults
    PROVE  Spec => []AInv
  <1>1. IInv /\ Init => AInv
    BY DEF AInv, AnnouncedWasVoided, Queued, Init
  <1>2. ASSUME AInv, IInv', [Next]_vars PROVE AInv'
    <2>1. ASSUME NEW r \in Requests, Proceed(r) \/ Fail(r) PROVE AInv'
      BY <1>2, <2>1, AnnouncingStep
    <2>2. CASE UNCHANGED vars
      BY <1>2, <2>2 DEF AInv, AnnouncedWasVoided, WasVoided, Queued, Voiding, Line,
         vars, coroutine, database
    <2> QED BY <1>2, <2>1, <2>2 DEF Next, AllOver
  <1> QED BY <1>1, <1>2, Invariant, PTL DEF Spec

\* If commits do not fail, nobody is ever told that an aggregate is voided
\* before, or without, its voiding being committed.
THEOREM AnnouncedAlwaysVoided ==
    ASSUME "commit" \notin Faults
    PROVE  Spec => []AnnouncedWasVoided
  <1>1. AInv => AnnouncedWasVoided
    BY DEF AInv
  <1>2. Spec => []AInv
    BY AnnouncedInvariant
  <1> QED BY <1>1, <1>2, PTL
=============================================================================
