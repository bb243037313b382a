--------------------------- MODULE YourAggregate ---------------------------
(***************************************************************************)
(* The domain entity of the service: what one business operation does to   *)
(* one aggregate held in memory.  The operators are pure; who calls them,  *)
(* on which row and in which transaction is CommandService's subject.      *)
(*                                                                         *)
(* An aggregate is the part of it that is stored: its value object, its    *)
(* status and its operation histories.  Creator, doer and timestamps are   *)
(* left out: nothing in the code branches on them.                         *)
(***************************************************************************)
EXTENDS Integers, Sequences

CONSTANTS
    Values,       \* the value objects a client can send or the service compute
    WithSuffix,   \* [Values -> Values]: property_a + "_test_event_handler"
    None          \* the absent row, id or lock holder

Statuses == {"CREATED", "VOIDED"}

EventNames == {"Created", "Updated", "Voided", "Deleted"}

Commands == {"CREATE", "UPDATE", "VOID", "DELETE"}

\* What one operation history says changed; a list of at most one element in
\* the code, a set here.
Change == [before : Values \cup Statuses, after : Values \cup Statuses]

OperationHistory == [type : {"CREATED", "UPDATED", "VOIDED"}, data : SUBSET Change]

Row == [vo : Values, status : Statuses, histories : Seq(OperationHistory)]

ASSUME SuffixAssumption == WithSuffix \in [Values -> Values]

ASSUME NoneIsNoRow == None \notin Row

-----------------------------------------------------------------------------

\* Mutant: records data that did not change.
HistoryUnfiltered(type, data) == [type |-> type, data |-> data]

\* A history entry keeps only the data that really changed.
History(type, data) ==
    [type |-> type, data |-> {d \in data : d.before # d.after}]

\* Mutant: no status check.
MayAlwaysAddHistory(row) == TRUE

\* add_operation_history refuses every further operation on a voided aggregate.
MayAddHistory(row) == row.status # "VOIDED"

CreateYourAggregate(vo) ==
    [vo |-> vo, status |-> "CREATED", histories |-> <<History("CREATED", {})>>]

UpdateYourAggregate(row, vo) ==
    [row EXCEPT !.vo = vo,
                !.histories = Append(row.histories,
                    History("UPDATED", {[before |-> row.vo, after |-> vo]}))]

\* Mutant: a status that is not in the enumeration.
VoidYourAggregateByName(row) ==
    [row EXCEPT !.status = "Voided",
                !.histories = Append(row.histories,
                    History("VOIDED", {[before |-> row.status, after |-> "VOIDED"]}))]

VoidYourAggregate(row) ==
    [row EXCEPT !.status = "VOIDED",
                !.histories = Append(row.histories,
                    History("VOIDED", {[before |-> row.status, after |-> "VOIDED"]}))]

\* delete_your_aggregate checks no status and adds no history: it only marks
\* the aggregate and adds its event.
Allowed(cmd, row) == cmd = "DELETE" \/ MayAddHistory(row)

\* The entity after the operation; a deleted one keeps its last content, which
\* is what the archive stores.
Operate(cmd, row, vo) ==
    CASE cmd = "UPDATE" -> UpdateYourAggregate(row, vo)
      [] cmd = "VOID"   -> VoidYourAggregate(row)
      [] OTHER          -> row

\* The one domain event each operation adds to the aggregate.
EventOf(cmd) ==
    CASE cmd = "UPDATE" -> "Updated"
      [] cmd = "VOID"   -> "Voided"
      [] cmd = "DELETE" -> "Deleted"
      [] OTHER          -> "Created"
=============================================================================
