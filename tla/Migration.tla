----------------------------- MODULE Migration -----------------------------
(***************************************************************************)
(* `alembic upgrade head` (alembic/env.py), run by several processes at    *)
(* once: every container that starts in the mode DB_MIGRATE runs it.       *)
(*                                                                         *)
(* Revisions 1 .. HeadRevision are applied in order, each in a transaction of its  *)
(* own (transaction_per_migration); the first of them also commits what    *)
(* came before it, the schema and the version table.  A statement that     *)
(* creates what another open transaction has created waits for that        *)
(* transaction, and fails if it commits.  The advisory lock belongs to the *)
(* session and outlives the transactions.                                  *)
(***************************************************************************)
EXTENDS Integers, Sequences, FiniteSets

CONSTANTS
    Processes,
    HeadRevision,    \* the number of revisions
    DataRevisions,   \* those that change data only, and create nothing
    Nobody,
    Faults,          \* which of FaultKinds may happen
    MaxMishaps       \* bound: how often they do

FaultKinds == {"statement", "crash"}

Revisions == 1 .. HeadRevision

\* What the transactions create: the schema, alembic_version, and what each
\* revision creates, as one object.
Schema == -1
VersionTable == 0
Objects == {Schema, VersionTable} \cup Revisions

ASSUME MigrationAssumption ==
    /\ HeadRevision \in Nat
    /\ DataRevisions \subseteq Revisions
    /\ Nobody \notin Processes
    /\ Faults \subseteq FaultKinds
    /\ MaxMishaps \in Nat

VARIABLES
    pc,
    heads,      \* the revision the process read, and then applied, last
    pending,    \* the objects its open transaction has created
    holder,     \* whose session has the advisory lock
    exists,     \* the committed objects
    version,    \* the committed version_num, 0 for none
    applied,    \* the committed revisions, in the order of their commits
    first,      \* there was no version table at the beginning
    mishaps

session == <<pc, heads, pending>>
database == <<exists, version, applied>>
vars == <<session, holder, database, first, mishaps>>

\* The statements of run_migrations_online and of Alembic's run_migrations at
\* which a process is; and the ways it ends.
Running == {"schema", "create schema", "check", "lock", "heads",
            "create version table", "migrate", "stamp", "commit"}
Ended == {"done", "conflicted", "failed"}

ObjectsAt(v) == {Schema, VersionTable} \cup ((1 .. v) \ DataRevisions)

\* A new database, one with the schema only, or one at a revision.
Init ==
    /\ pc = [p \in Processes |-> "schema"]
    /\ heads = [p \in Processes |-> 0]
    /\ pending = [p \in Processes |-> {}]
    /\ holder = Nobody
    /\ \/ version = 0 /\ first = TRUE /\ exists \in {{}, {Schema}}
       \/ version \in 0 .. HeadRevision /\ first = FALSE /\ exists = ObjectsAt(version)
    /\ applied = [k \in 1 .. version |-> k]
    /\ mishaps = 0

Goto(p, where) == pc' = [pc EXCEPT ![p] = where]

\* Mutant: an error path that leaves the session, and its lock, open.
EndKeepingLock(p, how) ==
    /\ Goto(p, how)
    /\ pending' = [pending EXCEPT ![p] = {}]
    /\ UNCHANGED holder

\* The connection closes (NullPool), or pg_advisory_unlock comes first: what is
\* not committed and the lock are gone.
End(p, how) ==
    /\ Goto(p, how)
    /\ pending' = [pending EXCEPT ![p] = {}]
    /\ holder' = IF holder = p THEN Nobody ELSE holder

\* Statement CREATE of object o, then on to `next`.
Create(p, o, next) ==
    /\ \A q \in Processes \ {p} : o \notin pending[q]
    /\ IF o \in exists
       THEN End(p, "conflicted")
       ELSE /\ Goto(p, next)
            /\ pending' = [pending EXCEPT ![p] = @ \cup {o}]
            /\ UNCHANGED holder
    /\ UNCHANGED <<heads, database, first, mishaps>>

-----------------------------------------------------------------------------

\* CREATE SCHEMA IF NOT EXISTS looks first, and then creates.
CheckSchema(p) ==
    /\ pc[p] = "schema"
    /\ Goto(p, IF Schema \in exists THEN "check" ELSE "create schema")
    /\ UNCHANGED <<heads, pending, holder, database, first, mishaps>>

CreateSchema(p) == pc[p] = "create schema" /\ Create(p, Schema, "check")

\* Mutant: nobody takes the lock.
CheckAndNeverLock(p) ==
    /\ pc[p] = "check"
    /\ Goto(p, "heads")
    /\ UNCHANGED <<heads, pending, holder, database, first, mishaps>>

\* Without a version table there is nothing to make a lock's key of: no lock.
CheckVersionTable(p) ==
    /\ pc[p] = "check"
    /\ Goto(p, IF VersionTable \in exists THEN "lock" ELSE "heads")
    /\ UNCHANGED <<heads, pending, holder, database, first, mishaps>>

\* Mutant: pg_try_advisory_lock, and nobody looks at its answer.
LockOrGoOn(p) ==
    /\ pc[p] = "lock"
    /\ holder' = IF holder = Nobody THEN p ELSE holder
    /\ Goto(p, "heads")
    /\ UNCHANGED <<heads, pending, database, first, mishaps>>

\* pg_advisory_lock waits.
Lock(p) ==
    /\ pc[p] = "lock" /\ holder = Nobody
    /\ holder' = p
    /\ Goto(p, "heads")
    /\ UNCHANGED <<heads, pending, database, first, mishaps>>

\* Mutant: the version table is looked for in another schema.
ReadHeadsElsewhere(p) ==
    /\ pc[p] = "heads"
    /\ heads' = [heads EXCEPT ![p] = 0]
    /\ Goto(p, IF VersionTable \in exists THEN "migrate" ELSE "create version table")
    /\ UNCHANGED <<pending, holder, database, first, mishaps>>

\* get_current_heads; without any, the version table is created if it is missing.
ReadHeads(p) ==
    /\ pc[p] = "heads"
    /\ heads' = [heads EXCEPT ![p] = version]
    /\ Goto(p, IF VersionTable \in exists THEN "migrate" ELSE "create version table")
    /\ UNCHANGED <<pending, holder, database, first, mishaps>>

CreateVersionTable(p) ==
    pc[p] = "create version table" /\ Create(p, VersionTable, "migrate")

\* Mutant: the last revision is not the last.
UpgradeOnceMore(p) ==
    /\ pc[p] = "migrate" /\ heads[p] <= HeadRevision
    /\ LET revision == heads[p] + 1
       IN IF revision \in DataRevisions
          THEN Goto(p, "stamp")
               /\ UNCHANGED <<heads, pending, holder, database, first, mishaps>>
          ELSE Create(p, revision, "stamp")

\* The body of the next revision, as one statement.
Upgrade(p) ==
    /\ pc[p] = "migrate" /\ heads[p] < HeadRevision
    /\ LET revision == heads[p] + 1
       IN IF revision \in DataRevisions
          THEN Goto(p, "stamp")
               /\ UNCHANGED <<heads, pending, holder, database, first, mishaps>>
          ELSE Create(p, revision, "stamp")

\* Mutant: nobody looks at how many rows were updated.
StampUnchecked(p) ==
    /\ pc[p] = "stamp"
    /\ \A q \in Processes : pc[q] # "commit"
    /\ Goto(p, "commit")
    /\ UNCHANGED <<heads, pending, holder, database, first, mishaps>>

\* version_num is inserted, or updated where it is still what was read: a row
\* that is taken, or no longer there, is an error.
Stamp(p) ==
    /\ pc[p] = "stamp"
    /\ \A q \in Processes : pc[q] # "commit"
    /\ IF version = heads[p]
       THEN Goto(p, "commit") /\ UNCHANGED <<pending, holder>>
       ELSE End(p, "conflicted")
    /\ UNCHANGED <<heads, database, first, mishaps>>

Commit(p) ==
    /\ pc[p] = "commit"
    /\ exists' = exists \cup pending[p]
    /\ pending' = [pending EXCEPT ![p] = {}]
    /\ version' = heads[p] + 1
    /\ applied' = Append(applied, heads[p] + 1)
    /\ heads' = [heads EXCEPT ![p] = @ + 1]
    /\ Goto(p, "migrate")
    /\ UNCHANGED <<holder, first, mishaps>>

Finish(p) ==
    /\ pc[p] = "migrate" /\ heads[p] = HeadRevision
    /\ End(p, "done")
    /\ UNCHANGED <<heads, database, first, mishaps>>

Mishap(kind) ==
    /\ kind \in Faults /\ mishaps < MaxMishaps
    /\ mishaps' = mishaps + 1

\* A statement of the revision fails, and its transaction is rolled back.
UpgradeFails(p) ==
    /\ pc[p] \in {"migrate", "stamp"} /\ heads[p] < HeadRevision
    /\ Mishap("statement")
    /\ End(p, "failed")
    /\ UNCHANGED <<heads, database, first>>

Crash(p) ==
    /\ pc[p] \in Running
    /\ Mishap("crash")
    /\ End(p, "failed")
    /\ UNCHANGED <<heads, database, first>>

\* A container that failed is started again.
Retry(p) ==
    /\ pc[p] \in {"conflicted", "failed"}
    /\ Goto(p, "schema")
    /\ UNCHANGED <<heads, pending, holder, database, first, mishaps>>

AllOver == (\A p \in Processes : pc[p] = "done") /\ UNCHANGED vars

Proceed(p) ==
    \/ CheckSchema(p) \/ CreateSchema(p) \/ CheckVersionTable(p) \/ Lock(p)
    \/ ReadHeads(p) \/ CreateVersionTable(p) \/ Upgrade(p) \/ Stamp(p)
    \/ Commit(p) \/ Finish(p) \/ Retry(p)

Next ==
    \/ \E p \in Processes : Proceed(p) \/ UpgradeFails(p) \/ Crash(p)
    \/ AllOver

Spec == Init /\ [][Next]_vars

\* Every process runs and is started again; PostgreSQL's waiting ends with what is
\* waited for.
FairSpec == Spec /\ \A p \in Processes : WF_vars(Proceed(p))

-----------------------------------------------------------------------------
(* Properties *)

TypeOK ==
    /\ pc \in [Processes -> Running \cup Ended]
    /\ heads \in [Processes -> 0 .. HeadRevision]
    /\ pending \in [Processes -> SUBSET Objects]
    /\ holder \in Processes \cup {Nobody}
    /\ exists \in SUBSET Objects
    /\ version \in 0 .. HeadRevision
    /\ applied \in Seq(Revisions)
    /\ first \in BOOLEAN
    /\ mishaps \in 0 .. MaxMishaps

\* However many processes migrate, with the lock or beside it, every revision is
\* committed once, in order, and version_num says which are.
RevisionsAreAppliedOnce ==
    /\ applied = [k \in 1 .. version |-> k]
    /\ version > 0 => exists = ObjectsAt(version)

\* Once there is a version table, processes wait for each other and none fails
\* because of another.
NobodyConflicts == ~first => \A p \in Processes : pc[p] # "conflicted"

\* What the holder of the lock read stays true until it commits the next revision:
\* nobody migrates beside it.
LockedReadsAreCurrent ==
    \A p \in Processes :
        ~first /\ pc[p] \in {"create version table", "migrate", "stamp", "commit"} =>
            holder = p /\ heads[p] = version

\* The lock does not outlive the process that took it.
LockEndsWithItsProcess == holder # Nobody => pc[holder] \in Running

\* Every process ends well in the end, if the failed ones are started again: the
\* conflicts of a first migration cost retries, and there is no deadlock.
EveryProcessIsDone == <>(\A p \in Processes : pc[p] = "done")
=============================================================================
