-------------------------- MODULE AggregateLedger --------------------------
(***************************************************************************)
(* What the store of aggregates promises, with no request, session, lock   *)
(* or queue in sight: each aggregate has a journal (its domain events, and *)
(* with each the archived row) that only ever grows, every entry is a      *)
(* legal successor of the one before it, and the live row is what the last *)
(* entry left.  CommandService implements this specification.              *)
(*                                                                         *)
(* The legality conditions are written field by field, from what an audit  *)
(* of the tables would ask, and use none of the entity's operators.        *)
(***************************************************************************)
EXTENDS Integers, Sequences

CONSTANTS Ids, Values, WithSuffix, None

VARIABLES
    rows,      \* the table your_aggregate: a row, or None, for each id
    journal    \* the archive and domain_event tables: per id, its entries in order

vars == <<rows, journal>>

\* The live row an entry leaves behind.
RowAfter(e) == IF e.event = "Deleted" THEN None ELSE e.row

Current(j) == IF j = <<>> THEN None ELSE RowAfter(j[Len(j)])

\* The first entry of an aggregate.
Birth(e) ==
    /\ e.event = "Created"
    /\ e.row.status = "CREATED"
    /\ e.row.histories = <<[type |-> "CREATED", data |-> {}]>>

\* e's row has one more operation history than a's, of this type and telling
\* exactly this change.
OneMore(a, e, type, before, after) ==
    e.row.histories =
        Append(a.row.histories,
               [type |-> type,
                data |-> IF before = after THEN {}
                         ELSE {[before |-> before, after |-> after]}])

\* e is a legal entry right after a.
Follows(a, e) ==
    /\ a.event # "Deleted"
    /\ \/ /\ e.event = "Updated"
          /\ a.row.status = "CREATED"
          /\ e.row.status = "CREATED"
          /\ OneMore(a, e, "UPDATED", a.row.vo, e.row.vo)
       \/ /\ e.event = "Voided"
          /\ a.row.status = "CREATED"
          /\ e.row.status = "VOIDED"
          /\ e.row.vo = a.row.vo
          /\ OneMore(a, e, "VOIDED", "CREATED", "VOIDED")
       \/ /\ e.event = "Deleted"
          /\ e.row = a.row

LegalJournal(j) ==
    \A n \in 1 .. Len(j) : IF n = 1 THEN Birth(j[1]) ELSE Follows(j[n-1], j[n])

\* A creation is stored together with the update its event handler makes, by
\* the same call.
CreationComplete(j) ==
    j # <<>> =>
        /\ Len(j) > 1
        /\ j[2].event = "Updated"
        /\ j[2].row.vo = WithSuffix[j[1].row.vo]
        /\ j[2].by = j[1].by

\* new continues old: nothing stored is lost or rewritten.
Extends(old, new) ==
    /\ Len(old) <= Len(new)
    /\ \A n \in 1 .. Len(old) : new[n] = old[n]

Sound ==
    \A id \in Ids :
        /\ LegalJournal(journal[id])
        /\ CreationComplete(journal[id])
        /\ rows[id] = Current(journal[id])

Init == Sound

\* One transaction: any number of aggregates move, each by any number of legal
\* entries, all at once.
Next ==
    /\ Sound'
    /\ \A id \in Ids : Extends(journal[id], journal'[id])

Spec == Init /\ [][Next]_vars
=============================================================================
