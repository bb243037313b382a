-------------------------- MODULE MigrationProofs --------------------------
(***************************************************************************)
(* Migration is correct for every set of processes, every number of        *)
(* revisions and whichever of them change data only: the invariant IInv is *)
(* inductive and the safety properties follow from it.                     *)
(***************************************************************************)
EXTENDS Migration, SequenceTheorems, TLAPS

(***************************************************************************)
(* The inductive invariant.                                                *)
(***************************************************************************)

\* What is committed: revisions 1 .. version, in order, with what they create, and
\* before the first of them the schema and the version table.
Committed ==
    /\ applied = [k \in 1 .. version |-> k]
    /\ exists \cap Revisions = (1 .. version) \ DataRevisions
    /\ version > 0 => {Schema, VersionTable} \subseteq exists

\* Nobody has created what is committed or what another has created, and only
\* the revision a process is at is among it.
CreatedByOne ==
    /\ \A p \in Processes : pending[p] \cap exists = {}
    /\ \A p, q \in Processes : p # q => pending[p] \cap pending[q] = {}
    /\ \A p \in Processes :
         \/ pending[p] \cap Revisions = {}
         \/ /\ pc[p] \in {"stamp", "commit"}
            /\ heads[p] + 1 \notin DataRevisions
            /\ pending[p] \cap Revisions = {heads[p] + 1}

\* What a process has behind it exists, committed or its own.
Prepared ==
    \A p \in Processes :
        /\ pc[p] \in Running \ {"schema", "create schema"} => Schema \in exists \cup pending[p]
        /\ pc[p] = "lock" => VersionTable \in exists
        /\ pc[p] \in {"migrate", "stamp", "commit"} => VersionTable \in exists \cup pending[p]
        /\ pc[p] \in {"stamp", "commit"} =>
             /\ heads[p] < HeadRevision
             /\ heads[p] + 1 \in DataRevisions \cup pending[p]

\* Between its version_num and its commit there is one process, at the next
\* revision.
OneCommits ==
    /\ \A p \in Processes : pc[p] = "commit" => heads[p] = version
    /\ \A p, q \in Processes : pc[p] = "commit" /\ pc[q] = "commit" => p = q

\* With a version table, whoever reads the heads and what follows has the lock.
Locked ==
    ~first =>
        /\ {Schema, VersionTable} \subseteq exists
        /\ \A p \in Processes :
             /\ pc[p] \notin {"create schema", "create version table", "conflicted"}
             /\ pc[p] \in {"heads", "migrate", "stamp", "commit"} => holder = p
             /\ pc[p] \in {"migrate", "stamp", "commit"} => heads[p] = version

IInv ==
    /\ TypeOK
    /\ Committed /\ CreatedByOne /\ Prepared /\ OneCommits /\ Locked
    /\ LockEndsWithItsProcess

LEMMA NextRevision ==
    ASSUME NEW n \in Nat
    PROVE  Append([k \in 1 .. n |-> k], n + 1) = [k \in 1 .. n + 1 |-> k]
  OBVIOUS

LEMMA AppliedIsASequence ==
    ASSUME NEW n \in 0 .. HeadRevision
    PROVE  [k \in 1 .. n |-> k] \in Seq(Revisions)
  BY MigrationAssumption DEF Revisions

(***************************************************************************)
(* The steps.  Each lemma is about one action, or about what several share.*)
(***************************************************************************)

\* A process ends: what it created and did not commit is gone, and so is its lock.
LEMMA EndStep ==
    ASSUME IInv, NEW p \in Processes, NEW how \in Ended, End(p, how),
           UNCHANGED <<heads, database, first>>,
           how = "conflicted" => first, mishaps' \in 0 .. MaxMishaps
    PROVE  IInv'
  <1> USE DEF End, Goto, database
  <1>1. TypeOK'
    BY DEF IInv, TypeOK
  <1>2. Committed'
    BY DEF IInv, Committed
  <1>3. CreatedByOne'
    BY DEF IInv, TypeOK, CreatedByOne
  <1>4. Prepared'
    BY DEF IInv, TypeOK, Running, Ended, Prepared
  <1>5. OneCommits'
    BY DEF IInv, Ended, OneCommits
  <1>6. Locked'
    BY DEF IInv, TypeOK, Ended, Locked
  <1>7. LockEndsWithItsProcess'
    BY DEF IInv, TypeOK, LockEndsWithItsProcess
  <1> QED BY <1>1, <1>2, <1>3, <1>4, <1>5, <1>6, <1>7 DEF IInv

\* Looking for the schema.
LEMMA CheckSchemaStep ==
    ASSUME IInv, NEW p \in Processes, CheckSchema(p)
    PROVE  IInv'
  <1> USE DEF CheckSchema, Goto, database
  <1>1. TypeOK'
    BY DEF IInv, TypeOK, Running
  <1>2. Committed'
    BY DEF IInv, Committed
  <1>3. CreatedByOne'
    BY DEF IInv, TypeOK, CreatedByOne
  <1>4. Prepared'
    BY DEF IInv, TypeOK, Prepared
  <1>5. OneCommits'
    BY DEF IInv, TypeOK, OneCommits
  <1>6. Locked'
    BY DEF IInv, TypeOK, Locked
  <1>7. LockEndsWithItsProcess'
    BY DEF IInv, TypeOK, Running, LockEndsWithItsProcess
  <1> QED BY <1>1, <1>2, <1>3, <1>4, <1>5, <1>6, <1>7 DEF IInv

\* Who goes past the version table without a lock is in a first migration.
LEMMA CheckVersionTableStep ==
    ASSUME IInv, NEW p \in Processes, CheckVersionTable(p)
    PROVE  IInv'
  <1> USE DEF CheckVersionTable, Goto, database
  <1>1. TypeOK'
    BY DEF IInv, TypeOK, Running
  <1>2. Committed'
    BY DEF IInv, Committed
  <1>3. CreatedByOne'
    BY DEF IInv, CreatedByOne
  <1>4. Prepared'
    BY DEF IInv, TypeOK, Ended, Prepared
  <1>5. OneCommits'
    BY DEF IInv, OneCommits
  <1>6. Locked'
    BY DEF IInv, TypeOK, Locked
  <1>7. LockEndsWithItsProcess'
    BY DEF IInv, TypeOK, Running, LockEndsWithItsProcess
  <1> QED BY <1>1, <1>2, <1>3, <1>4, <1>5, <1>6, <1>7 DEF IInv

\* Taking the lock: its holder has read nothing yet, and nobody else migrates.
LEMMA LockStep ==
    ASSUME IInv, NEW p \in Processes, Lock(p)
    PROVE  IInv'
  <1> USE DEF Lock, Goto, database
  <1>1. TypeOK'
    BY DEF IInv, TypeOK, Running
  <1>2. Committed'
    BY DEF IInv, Committed
  <1>3. CreatedByOne'
    BY DEF IInv, CreatedByOne
  <1>4. Prepared'
    BY DEF IInv, TypeOK, Ended, Prepared
  <1>5. OneCommits'
    BY DEF IInv, OneCommits
  <1>6. Locked'
    BY MigrationAssumption DEF IInv, TypeOK, Locked
  <1>7. LockEndsWithItsProcess'
    BY DEF IInv, TypeOK, Running, LockEndsWithItsProcess
  <1> QED BY <1>1, <1>2, <1>3, <1>4, <1>5, <1>6, <1>7 DEF IInv

\* What the holder reads is current.
LEMMA ReadHeadsStep ==
    ASSUME IInv, NEW p \in Processes, ReadHeads(p)
    PROVE  IInv'
  <1> USE DEF ReadHeads, Goto, database
  <1>1. TypeOK'
    BY DEF IInv, TypeOK, Running
  <1>2. Committed'
    BY DEF IInv, Committed
  <1>3. CreatedByOne'
    BY DEF IInv, TypeOK, CreatedByOne
  <1>4. Prepared'
    BY DEF IInv, TypeOK, Ended, Prepared
  <1>5. OneCommits'
    BY DEF IInv, TypeOK, OneCommits
  <1>6. Locked'
    BY DEF IInv, TypeOK, Locked
  <1>7. LockEndsWithItsProcess'
    BY DEF IInv, TypeOK, Running, LockEndsWithItsProcess
  <1> QED BY <1>1, <1>2, <1>3, <1>4, <1>5, <1>6, <1>7 DEF IInv

\* What a process creates is new, and nobody else's.
LEMMA NewObject ==
    ASSUME IInv, NEW p \in Processes, NEW o \in Objects, NEW next,
           o \notin exists, \A q \in Processes \ {p} : o \notin pending[q],
           pc[p] \notin {"stamp", "commit"}, pc' = [pc EXCEPT ![p] = next],
           pending' = [pending EXCEPT ![p] = pending[p] \cup {o}], UNCHANGED <<heads, exists>>,
           o \in Revisions => next = "stamp" /\ o = heads[p] + 1 /\ o \notin DataRevisions
    PROVE  CreatedByOne'
  <1>1. \A q \in Processes : pending[q]' \cap exists' = {}
    BY DEF IInv, CreatedByOne
  <1>2. ASSUME NEW q \in Processes, NEW r \in Processes, q # r
        PROVE  pending[q]' \cap pending[r]' = {}
    <2>1. pending[q] \cap pending[r] = {}
      BY <1>2 DEF IInv, CreatedByOne
    <2>4. CASE r = p
      BY <1>2, <2>1
    <2> QED BY <2>1, <2>4
  <1>3. ASSUME NEW q \in Processes
        PROVE  \/ pending[q]' \cap Revisions = {}
               \/ /\ pc[q]' \in {"stamp", "commit"}
                  /\ heads[q]' + 1 \notin DataRevisions
                  /\ pending[q]' \cap Revisions = {heads[q]' + 1}
    <2>1. pending[p] \cap Revisions = {}
      BY DEF IInv, CreatedByOne
    <2>2. CASE q = p
      BY <2>1, <2>2 DEF IInv, TypeOK
    <2>3. CASE q # p
      BY DEF IInv, TypeOK, CreatedByOne
    <2> QED BY <2>2, <2>3
  <1> QED BY <1>1, <1>2, <1>3, Zenon DEF CreatedByOne

\* The schema is new, or another has committed it meanwhile and this is a first
\* migration.
LEMMA CreateSchemaStep ==
    ASSUME IInv, NEW p \in Processes, CreateSchema(p)
    PROVE  IInv'
  <1> USE DEF CreateSchema, Create, Goto, database
  <1>1. CASE Schema \in exists
    <2>1. first
      BY DEF IInv, Locked
    <2>2. End(p, "conflicted") /\ mishaps' \in 0 .. MaxMishaps
      BY <1>1 DEF IInv, TypeOK
    <2> QED BY <2>1, <2>2, EndStep DEF Ended
  <1>2. CASE Schema \notin exists
    <2>a. /\ pc[p] = "create schema" /\ pc' = [pc EXCEPT ![p] = "check"]
          /\ pending' = [pending EXCEPT ![p] = pending[p] \cup {Schema}]
          /\ \A q \in Processes \ {p} : Schema \notin pending[q]
          /\ UNCHANGED <<heads, holder, exists, version, applied, first, mishaps>>
      BY <1>2
    <2> HIDE DEF CreateSchema, Create, Goto
    <2>1. TypeOK'
      BY <2>a DEF IInv, TypeOK, Running, Objects
    <2>2. Committed'
      BY <2>a DEF IInv, Committed
    <2>3. CreatedByOne'
      <3>1. Schema \in Objects /\ Schema \notin Revisions
        BY DEF Objects, Revisions, Schema
      <3> QED BY <1>2, <2>a, <3>1, NewObject
    <2>4. Prepared'
      BY <2>a DEF IInv, TypeOK, Prepared
    <2>5. OneCommits'
      BY <2>a DEF IInv, TypeOK, OneCommits
    <2>6. Locked'
      BY <2>a DEF IInv, Locked
    <2>7. LockEndsWithItsProcess'
      BY <2>a DEF IInv, TypeOK, Running, LockEndsWithItsProcess
    <2> QED BY <2>1, <2>2, <2>3, <2>4, <2>5, <2>6, <2>7 DEF IInv
  <1> QED BY <1>1, <1>2

\* So with the version table.
LEMMA CreateVersionTableStep ==
    ASSUME IInv, NEW p \in Processes, CreateVersionTable(p)
    PROVE  IInv'
  <1> USE DEF CreateVersionTable, Create, Goto, database
  <1>1. CASE VersionTable \in exists
    <2>1. first
      BY DEF IInv, Locked
    <2>2. End(p, "conflicted") /\ mishaps' \in 0 .. MaxMishaps
      BY <1>1 DEF IInv, TypeOK
    <2> QED BY <2>1, <2>2, EndStep DEF Ended
  <1>2. CASE VersionTable \notin exists
    <2>a. /\ pc[p] = "create version table" /\ pc' = [pc EXCEPT ![p] = "migrate"]
          /\ pending' = [pending EXCEPT ![p] = pending[p] \cup {VersionTable}]
          /\ \A q \in Processes \ {p} : VersionTable \notin pending[q]
          /\ UNCHANGED <<heads, holder, exists, version, applied, first, mishaps>>
      BY <1>2
    <2> HIDE DEF CreateVersionTable, Create, Goto
    <2>1. TypeOK'
      BY <2>a DEF IInv, TypeOK, Running, Objects
    <2>2. Committed'
      BY <2>a DEF IInv, Committed
    <2>3. CreatedByOne'
      <3>1. VersionTable \in Objects /\ VersionTable \notin Revisions
        BY DEF Objects, Revisions, VersionTable
      <3> QED BY <1>2, <2>a, <3>1, NewObject
    <2>4. Prepared'
      BY <2>a DEF IInv, TypeOK, Ended, Prepared
    <2>5. OneCommits'
      BY <2>a DEF IInv, TypeOK, OneCommits
    <2>6. Locked'
      BY <2>a DEF IInv, Locked
    <2>7. LockEndsWithItsProcess'
      BY <2>a DEF IInv, TypeOK, Running, LockEndsWithItsProcess
    <2> QED BY <2>1, <2>2, <2>3, <2>4, <2>5, <2>6, <2>7 DEF IInv
  <1> QED BY <1>1, <1>2

\* The next revision changes data only, or creates what is new, or finds it created
\* by another in a first migration.
LEMMA UpgradeStep ==
    ASSUME IInv, NEW p \in Processes, Upgrade(p)
    PROVE  IInv'
  <1> DEFINE revision == heads[p] + 1
  <1> USE DEF Upgrade, Create, Goto, database
  <1>1. CASE revision \in DataRevisions
    <2> USE <1>1
    <2>1. TypeOK'
      BY DEF IInv, TypeOK, Running
    <2>2. Committed'
      BY DEF IInv, Committed
    <2>3. CreatedByOne'
      BY DEF IInv, TypeOK, CreatedByOne
    <2>4. Prepared'
      BY DEF IInv, TypeOK, Ended, Prepared
    <2>5. OneCommits'
      BY DEF IInv, TypeOK, OneCommits
    <2>6. Locked'
      BY DEF IInv, TypeOK, Locked
    <2>7. LockEndsWithItsProcess'
      BY DEF IInv, TypeOK, Running, LockEndsWithItsProcess
    <2> QED BY <2>1, <2>2, <2>3, <2>4, <2>5, <2>6, <2>7 DEF IInv
  <1>2. CASE revision \notin DataRevisions /\ revision \in exists
    <2>a. pc[p] = "migrate" /\ heads[p] \in Nat /\ version \in Nat /\ revision \in 1 .. HeadRevision
      BY MigrationAssumption DEF IInv, TypeOK
    <2>b. revision \in 1 .. version
      BY <1>2, <2>a DEF IInv, Committed, Revisions
    <2>1. first
      <3>1. ~first => heads[p] = version
        BY DEF IInv, Locked
      <3>2. heads[p] # version
        BY <2>a, <2>b
      <3> QED BY <3>1, <3>2
    <2>2. End(p, "conflicted") /\ mishaps' \in 0 .. MaxMishaps
      BY <1>2 DEF IInv, TypeOK
    <2> QED BY <2>1, <2>2, EndStep DEF Ended
  <1>3. CASE revision \notin DataRevisions /\ revision \notin exists
    <2>a. /\ pc[p] = "migrate" /\ pc' = [pc EXCEPT ![p] = "stamp"]
          /\ pending' = [pending EXCEPT ![p] = pending[p] \cup {revision}]
          /\ \A q \in Processes \ {p} : revision \notin pending[q]
          /\ UNCHANGED <<heads, holder, exists, version, applied, first, mishaps>>
      BY <1>3
    <2>b. revision \in Revisions /\ heads[p] < HeadRevision
      BY MigrationAssumption DEF IInv, TypeOK, Revisions
    <2> HIDE DEF Upgrade, Create, Goto
    <2>1. TypeOK'
      BY <2>a, <2>b DEF IInv, TypeOK, Running, Objects
    <2>2. Committed'
      BY <2>a DEF IInv, Committed
    <2>3. CreatedByOne'
      BY <1>3, <2>a, <2>b, NewObject DEF Objects
    <2>4. Prepared'
      BY <2>a, <2>b DEF IInv, TypeOK, Ended, Prepared
    <2>5. OneCommits'
      BY <2>a DEF IInv, OneCommits
    <2>6. Locked'
      BY <2>a DEF IInv, TypeOK, Locked
    <2>7. LockEndsWithItsProcess'
      BY <2>a DEF IInv, TypeOK, Running, LockEndsWithItsProcess
    <2> QED BY <2>1, <2>2, <2>3, <2>4, <2>5, <2>6, <2>7 DEF IInv
  <1> QED BY <1>1, <1>2, <1>3

\* The update of version_num finds what was read, or this is a first migration.
LEMMA StampStep ==
    ASSUME IInv, NEW p \in Processes, Stamp(p)
    PROVE  IInv'
  <1> USE DEF Stamp, Goto, database
  <1>1. CASE version = heads[p]
    <2> USE <1>1
    <2>1. TypeOK'
      BY DEF IInv, TypeOK, Running
    <2>2. Committed'
      BY DEF IInv, Committed
    <2>3. CreatedByOne'
      BY DEF IInv, TypeOK, CreatedByOne
    <2>4. Prepared'
      BY DEF IInv, TypeOK, Ended, Prepared
    <2>5. OneCommits'
      BY DEF IInv, TypeOK, OneCommits
    <2>6. Locked'
      BY DEF IInv, TypeOK, Locked
    <2>7. LockEndsWithItsProcess'
      BY DEF IInv, TypeOK, Running, LockEndsWithItsProcess
    <2> QED BY <2>1, <2>2, <2>3, <2>4, <2>5, <2>6, <2>7 DEF IInv
  <1>2. CASE version # heads[p]
    <2>1. first
      BY <1>2 DEF IInv, Locked
    <2>2. End(p, "conflicted") /\ mishaps' \in 0 .. MaxMishaps
      BY <1>2 DEF IInv, TypeOK
    <2> QED BY <2>1, <2>2, EndStep DEF Ended
  <1> QED BY <1>1, <1>2

\* A commit is of the next revision, after its predecessor's.
LEMMA CommitStep ==
    ASSUME IInv, NEW p \in Processes, Commit(p)
    PROVE  IInv'
  <1> USE DEF Commit, Goto, database
  <1> DEFINE revision == heads[p] + 1
  <1>e. version = heads[p] /\ heads[p] < HeadRevision
    BY DEF IInv, OneCommits, Prepared
  <1>a. version = heads[p] /\ version' = revision /\ revision \in 1 .. HeadRevision
    BY <1>e, MigrationAssumption DEF IInv, TypeOK
  <1>b. applied' = [k \in 1 .. revision |-> k]
    BY <1>a DEF IInv, TypeOK, Committed
  <1>c. applied' \in Seq(Revisions)
    <2>1. revision \in 0 .. HeadRevision
      BY <1>a
    <2> HIDE DEF revision
    <2>2. [k \in 1 .. revision |-> k] \in Seq(Revisions)
      BY <2>1, AppliedIsASequence
    <2> QED BY <1>b, <2>2
  <1>d. exists' \cap Revisions = (1 .. revision) \ DataRevisions
    <2>1. /\ exists' \cap Revisions = (exists \cap Revisions) \cup (pending[p] \cap Revisions)
          /\ exists \cap Revisions = (1 .. version) \ DataRevisions
          /\ pc[p] = "commit"
      BY DEF IInv, Committed
    <2>2. 1 .. revision = (1 .. version) \cup {revision} /\ revision \notin 1 .. version
      BY <1>a DEF IInv, TypeOK
    <2>3. CASE pending[p] \cap Revisions = {}
      <3>1. revision \in DataRevisions
        BY <1>a, <2>3 DEF IInv, Prepared, Revisions
      <3> QED BY <2>1, <2>2, <2>3, <3>1
    <2>4. CASE pending[p] \cap Revisions = {revision}
      <3>1. revision \notin DataRevisions
        BY <2>4 DEF IInv, CreatedByOne
      <3> QED BY <2>1, <2>2, <2>4, <3>1
    <2> QED BY <2>3, <2>4 DEF IInv, CreatedByOne
  <1>1. TypeOK'
    <2>2. heads' \in [Processes -> 0 .. HeadRevision] /\ version' \in 0 .. HeadRevision
      BY <1>e, MigrationAssumption DEF IInv, TypeOK
    <2>3. pc' \in [Processes -> Running \cup Ended] /\ pending' \in [Processes -> SUBSET Objects]
      BY DEF IInv, TypeOK, Running
    <2> QED BY <1>c, <2>2, <2>3 DEF IInv, TypeOK
  <1>2. Committed'
    <2>1. {Schema, VersionTable} \subseteq exists'
      BY DEF IInv, Prepared, Running
    <2> QED BY <1>b, <1>d, <2>1 DEF Committed
  <1>3. CreatedByOne'
    BY DEF IInv, TypeOK, CreatedByOne
  <1>4. Prepared'
    BY DEF IInv, TypeOK, Ended, Prepared
  <1>5. OneCommits'
    BY DEF IInv, TypeOK, OneCommits
  <1>6. Locked'
    BY DEF IInv, TypeOK, Locked
  <1>7. LockEndsWithItsProcess'
    BY DEF IInv, TypeOK, Running, LockEndsWithItsProcess
  <1> QED BY <1>1, <1>2, <1>3, <1>4, <1>5, <1>6, <1>7 DEF IInv

\* Starting again, without a lock or anything created.
LEMMA RetryStep ==
    ASSUME IInv, NEW p \in Processes, Retry(p)
    PROVE  IInv'
  <1> USE DEF Retry, Goto, database
  <1>1. TypeOK'
    BY DEF IInv, TypeOK, Running
  <1>2. Committed'
    BY DEF IInv, Committed
  <1>3. CreatedByOne'
    BY DEF IInv, CreatedByOne
  <1>4. Prepared'
    BY DEF IInv, TypeOK, Prepared
  <1>5. OneCommits'
    BY DEF IInv, OneCommits
  <1>6. Locked'
    BY DEF IInv, TypeOK, Locked
  <1>7. LockEndsWithItsProcess'
    BY DEF IInv, TypeOK, Running, LockEndsWithItsProcess
  <1> QED BY <1>1, <1>2, <1>3, <1>4, <1>5, <1>6, <1>7 DEF IInv

\* At the beginning nobody has created anything.
LEMMA InitInvariant == Init => IInv
  <1> SUFFICES ASSUME Init PROVE IInv
    OBVIOUS
  <1> USE DEF Init
  <1>a. version \in 0 .. HeadRevision /\ exists \in SUBSET Objects
    BY MigrationAssumption DEF Objects, ObjectsAt, Revisions
  <1>b. applied \in Seq(Revisions)
    BY AppliedIsASequence
  <1>1. TypeOK
    <2>1. heads \in [Processes -> 0 .. HeadRevision] /\ pending \in [Processes -> SUBSET Objects]
      BY MigrationAssumption
    <2>2. pc \in [Processes -> Running \cup Ended]
      BY DEF Running
    <2>3. holder = Nobody /\ mishaps \in 0 .. MaxMishaps
      BY MigrationAssumption
    <2>4. first \in BOOLEAN
      BY Zenon
    <2> HIDE DEF Init
    <2> QED BY <1>a, <1>b, <2>1, <2>2, <2>3, <2>4 DEF TypeOK
  <1>2. Committed
    BY MigrationAssumption DEF Committed, ObjectsAt, Revisions, Schema, VersionTable
  <1>3. CreatedByOne
    BY DEF CreatedByOne
  <1>4. Prepared
    BY DEF Prepared
  <1>5. OneCommits
    BY DEF OneCommits
  <1>6. Locked
    BY DEF Locked, ObjectsAt
  <1>7. LockEndsWithItsProcess
    BY DEF LockEndsWithItsProcess
  <1> QED BY <1>1, <1>2, <1>3, <1>4, <1>5, <1>6, <1>7 DEF IInv

\* Every step keeps the invariant: at most the end of a process is a failure, and
\* it is a conflict only in a first migration.
LEMMA NextInvariant == IInv /\ [Next]_vars => IInv'
  <1> SUFFICES ASSUME IInv, [Next]_vars PROVE IInv'
    OBVIOUS
  <1>1. CASE UNCHANGED vars
    BY <1>1 DEF vars, session, database, IInv, TypeOK, Committed, CreatedByOne, Prepared,
                OneCommits, Locked, LockEndsWithItsProcess
  <1>2. ASSUME NEW p \in Processes, Finish(p) PROVE IInv'
    <2>1. End(p, "done") /\ mishaps' \in 0 .. MaxMishaps
      BY <1>2 DEF Finish, IInv, TypeOK
    <2> QED BY <1>2, <2>1, EndStep DEF Finish, Ended
  <1>3. ASSUME NEW p \in Processes, UpgradeFails(p) \/ Crash(p) PROVE IInv'
    <2>1. End(p, "failed") /\ UNCHANGED <<heads, database, first>>
      BY <1>3 DEF UpgradeFails, Crash
    <2>2. mishaps' \in 0 .. MaxMishaps
      BY <1>3, MigrationAssumption DEF UpgradeFails, Crash, Mishap, IInv, TypeOK
    <2> QED BY <2>1, <2>2, EndStep DEF Ended
  <1>4. ASSUME NEW p \in Processes, Proceed(p) PROVE IInv'
    BY <1>2, <1>4, CheckSchemaStep, CreateSchemaStep, CheckVersionTableStep, LockStep,
       ReadHeadsStep, CreateVersionTableStep, UpgradeStep, StampStep, CommitStep, RetryStep
    DEF Proceed
  <1> QED BY <1>1, <1>3, <1>4 DEF Next, AllOver

(***************************************************************************)
(* The theorems.                                                           *)
(***************************************************************************)

\* The inductive invariant holds of alembic/env.py however many processes run it,
\* crash and are started again.
THEOREM Invariant == Spec => []IInv
  BY InitInvariant, NextInvariant, PTL DEF Spec

\* The state keeps its types.
THEOREM TypeCorrect == Spec => []TypeOK
  <1>1. IInv => TypeOK
    BY DEF IInv
  <1> QED BY <1>1, Invariant, PTL

\* Every revision is committed once and in order, with the advisory lock or, in a
\* first migration, without it, and version_num says which are.
THEOREM RevisionsAlwaysAppliedOnce == Spec => []RevisionsAreAppliedOnce
  <1>1. IInv => RevisionsAreAppliedOnce
    <2> SUFFICES ASSUME IInv PROVE RevisionsAreAppliedOnce
      OBVIOUS
    <2>1. version > 0 => exists = ObjectsAt(version)
      BY DEF IInv, TypeOK, Committed, ObjectsAt, Objects
    <2> QED BY <2>1 DEF IInv, Committed, RevisionsAreAppliedOnce
  <1> QED BY <1>1, Invariant, PTL

\* Once there is a version table nobody fails because of another process.
THEOREM NobodyEverConflicts == Spec => []NobodyConflicts
  <1>1. IInv => NobodyConflicts
    BY DEF IInv, Locked, NobodyConflicts
  <1> QED BY <1>1, Invariant, PTL

\* Under the lock nobody migrates beside a process, so what it read stays true.
THEOREM LockedReadsAlwaysCurrent == Spec => []LockedReadsAreCurrent
  <1>1. IInv => LockedReadsAreCurrent
    BY DEF IInv, Locked, LockedReadsAreCurrent
  <1> QED BY <1>1, Invariant, PTL

\* No path through the context manager of the lock leaves it taken.
THEOREM LockAlwaysEnds == Spec => []LockEndsWithItsProcess
  <1>1. IInv => LockEndsWithItsProcess
    BY DEF IInv
  <1> QED BY <1>1, Invariant, PTL
=============================================================================
