--------------------------- MODULE CommandService ---------------------------
(***************************************************************************)
(* The write path of the service: POST .../command, the controller's       *)
(* session scope, the use cases, the repository's load and save, the       *)
(* in-process event handlers and the announcement of voided aggregates,    *)
(* for requests that run concurrently on one PostgreSQL database.          *)
(*                                                                         *)
(* A request is a coroutine, so one step runs from one await to the next:  *)
(* pc[r] names the await at which request r is suspended ("load" the       *)
(* SELECT FOR UPDATE, "get" the lookup of save_your_aggregate, "flush" the *)
(* INSERT/UPDATE/DELETE, "read" the unlocked SELECT of the voided handler, *)
(* "commit" the COMMIT, "unwind" the ROLLBACK) or a point between two      *)
(* awaits ("call", "item", "publish").                                     *)
(*                                                                         *)
(* The database is READ COMMITTED with row locks: a transaction sees its   *)
(* own writes over the committed rows, FOR UPDATE and writes wait for a    *)
(* row lock and then see the latest committed row, and locks are held to   *)
(* the end of the transaction.                                             *)
(***************************************************************************)
EXTENDS YourAggregate, FiniteSets

CONSTANTS
    Requests,   \* HTTP requests, each served by a coroutine of some worker
    Ids,        \* the aggregate ids (uuid4)
    Bodies,     \* the request bodies considered: [cmd, payload]
    Seeds,      \* the function from the ids already stored to their first value
    Faults      \* which of FaultKinds may happen

FaultKinds == {"statement", "commit", "publish", "crash"}

\* One element of a controller call; id means nothing for CREATE, vo only
\* matters for CREATE and UPDATE.
Item == [id : Ids, vo : Values]

\* The payload: controller calls, each a transaction of its own, each on one
\* item (REST) or more (a batch through the controller).
Body == [cmd : Commands, payload : Seq(Seq(Item))]

ASSUME BodiesAssumption ==
    \A b \in Bodies : b \in Body /\ \A n \in DOMAIN b.payload : b.payload[n] # <<>>

ASSUME SeedsAssumption ==
    DOMAIN Seeds \subseteq Ids /\ \A id \in DOMAIN Seeds : Seeds[id] \in Values

ASSUME FaultsAssumption == Faults \subseteq FaultKinds

ASSUME NoneAssumption == None \notin Ids /\ None \notin Requests

\* An entry of the archive table and of domain_event: _save writes both, the
\* snapshot with the event that caused it; by is the controller call.
Entry == [event : EventNames, row : Row, by : (Requests \cup {None}) \X Nat]

PCs == {"call", "item", "load", "get", "flush", "read",
        "commit", "publish", "unwind", "done", "dead"}

\* The entity in the coroutine's hands and the event it carries.
NoAgg == [id |-> None, event |-> "none", row |-> None]

Agg == [id : Ids \cup {None}, event : EventNames \cup {"none"}, row : Row \cup {None}]

VARIABLES
    \* the coroutines
    pc, body,
    resp,            \* resp[r]: for each finished call, whether it succeeded
    at,              \* the item of the current call
    session_count,   \* SessionProvider.session_count
    agg,
    found,           \* what _get_model found in save_your_aggregate
    msgs,            \* the request's RabbitMqPublisher.messages: ids to announce
    \* the open transactions
    written,         \* the rows written and not yet committed
    logged,          \* the archive and event entries added and not committed
    \* the database and the broker
    rows, journal,
    lock,            \* the request whose transaction holds the row's lock
    broker           \* the messages the exchange has accepted, in order

coroutine == <<pc, body, resp, at, session_count, agg, found, msgs>>
database  == <<written, logged, rows, journal, lock>>
vars      == <<coroutine, database, broker>>

-----------------------------------------------------------------------------

Calls(r) == body[r].payload
ThisCall(r) == Calls(r)[Len(resp[r]) + 1]
ThisItem(r) == ThisCall(r)[at[r]]
By(r) == <<r, Len(resp[r]) + 1>>

\* The row r's transaction sees: its own write, or else the committed row.
\* Every _save archives (add_event sets is_archive), so a row is written
\* exactly when an entry is.
View(r, id) == IF logged[r][id] # <<>> THEN written[r][id] ELSE rows[id]

\* Mutant: _load without with_for_update.
FreeUnlocked(r, id) == TRUE

\* r's statement on the row need not wait.  A row that is not committed is
\* invisible to the others' FOR UPDATE, which finds nothing and locks nothing.
Free(r, id) == rows[id] = None \/ lock[id] \in {None, r}

\* What r is executing: the handler of a creation updates, in the same call.
Operation(r) == IF session_count[r] = 2 THEN "UPDATE" ELSE body[r].cmd

\* Mutant: a handler that is not registered.
SubscribedVoidedOnly == {"Voided"}

\* The event bus runs handlers for these events only.
Subscribed == {"Created", "Voided"}

\* SessionProvider.__aexit__: the count after a session scope is left.
LeaveScope(count) == IF count - 1 <= 0 THEN 0 ELSE count - 1

\* Mutant: the session is neither rolled back nor closed, and keeps its locks.
EndTransactionKeepingLocks(r) ==
    /\ written' = [written EXCEPT ![r] = [id \in Ids |-> None]]
    /\ logged' = [logged EXCEPT ![r] = [id \in Ids |-> <<>>]]
    /\ UNCHANGED lock

\* r's transaction is over: its locks go, its uncommitted work is forgotten.
EndTransaction(r) ==
    /\ lock' = [id \in Ids |-> IF lock[id] = r THEN None ELSE lock[id]]
    /\ written' = [written EXCEPT ![r] = [id \in Ids |-> None]]
    /\ logged' = [logged EXCEPT ![r] = [id \in Ids |-> <<>>]]

ApplyTransaction(r) ==
    /\ rows' = [id \in Ids |-> View(r, id)]
    /\ journal' = [id \in Ids |-> journal[id] \o logged[r][id]]

\* Mutant: an exception that does not reach the caller.
EndCallSwallowing(r, ok) ==
    /\ resp' = [resp EXCEPT ![r] = Append(resp[r], TRUE)]
    /\ agg' = [agg EXCEPT ![r] = NoAgg]
    /\ found' = [found EXCEPT ![r] = FALSE]
    /\ pc' = [pc EXCEPT ![r] = "call"]

\* The controller call is over, with this answer; the entity goes out of scope.
EndCall(r, ok) ==
    /\ resp' = [resp EXCEPT ![r] = Append(resp[r], ok)]
    /\ agg' = [agg EXCEPT ![r] = NoAgg]
    /\ found' = [found EXCEPT ![r] = FALSE]
    /\ pc' = [pc EXCEPT ![r] = "call"]

-----------------------------------------------------------------------------

SeedEntries(id) ==
    LET born == CreateYourAggregate(Seeds[id])
    IN <<[event |-> "Created", row |-> born, by |-> <<None, 0>>],
         [event |-> "Updated",
          row |-> UpdateYourAggregate(born, WithSuffix[Seeds[id]]),
          by |-> <<None, 0>>]>>

\* Every request is about to start; Seeds were created by earlier ones.
Init ==
    /\ pc = [r \in Requests |-> "call"]
    /\ body \in [Requests -> Bodies]
    /\ resp = [r \in Requests |-> <<>>]
    /\ at = [r \in Requests |-> 1]
    /\ session_count = [r \in Requests |-> 0]
    /\ agg = [r \in Requests |-> NoAgg]
    /\ found = [r \in Requests |-> FALSE]
    /\ msgs = [r \in Requests |-> <<>>]
    /\ written = [r \in Requests |-> [id \in Ids |-> None]]
    /\ logged = [r \in Requests |-> [id \in Ids |-> <<>>]]
    /\ journal = [id \in Ids |-> IF id \in DOMAIN Seeds THEN SeedEntries(id) ELSE <<>>]
    /\ rows = [id \in Ids |-> IF id \in DOMAIN Seeds THEN SeedEntries(id)[2].row ELSE None]
    /\ lock = [id \in Ids |-> None]
    /\ broker = <<>>

\* The handler takes the next payload element and calls the controller, whose
\* decorator opens the session.
Enter(r) ==
    /\ pc[r] = "call"
    /\ Len(resp[r]) < Len(Calls(r))
    /\ session_count' = [session_count EXCEPT ![r] = @ + 1]
    /\ at' = [at EXCEPT ![r] = 1]
    /\ pc' = [pc EXCEPT ![r] = "item"]
    /\ UNCHANGED <<body, resp, agg, found, msgs, database, broker>>

Finish(r) ==
    /\ pc[r] = "call"
    /\ Len(resp[r]) = Len(Calls(r))
    /\ pc' = [pc EXCEPT ![r] = "done"]
    /\ UNCHANGED <<body, resp, at, session_count, agg, found, msgs, database, broker>>

\* create_your_aggregate builds the entity under a new uuid.  The reservation
\* of the lock stands for the uuid's being nobody else's.
BeginCreate(r) ==
    /\ pc[r] = "item"
    /\ body[r].cmd = "CREATE"
    /\ at[r] <= Len(ThisCall(r))
    /\ \E id \in Ids :
        /\ journal[id] = <<>>
        /\ lock[id] = None
        /\ lock' = [lock EXCEPT ![id] = r]
        /\ agg' = [agg EXCEPT ![r] = [id |-> id, event |-> "Created",
                                      row |-> CreateYourAggregate(ThisItem(r).vo)]]
    /\ pc' = [pc EXCEPT ![r] = "get"]
    /\ UNCHANGED <<body, resp, at, session_count, found, msgs,
                   written, logged, rows, journal, broker>>

\* The other use cases start by loading.
BeginLoad(r) ==
    /\ pc[r] = "item"
    /\ body[r].cmd # "CREATE"
    /\ at[r] <= Len(ThisCall(r))
    /\ agg' = [agg EXCEPT ![r] = [NoAgg EXCEPT !.id = ThisItem(r).id]]
    /\ pc' = [pc EXCEPT ![r] = "load"]
    /\ UNCHANGED <<body, resp, at, session_count, found, msgs, database, broker>>

\* Mutant: commits after each item instead of after the batch.
BeginCommitEachItem(r) ==
    /\ pc[r] = "item"
    /\ at[r] > 1
    /\ pc' = [pc EXCEPT ![r] = "commit"]
    /\ UNCHANGED <<body, resp, at, session_count, agg, found, msgs, database, broker>>

\* After the last item the decorator flushes (nothing is left to) and leaves
\* the session scope, which commits.
BeginCommit(r) ==
    /\ pc[r] = "item"
    /\ at[r] > Len(ThisCall(r))
    /\ pc' = [pc EXCEPT ![r] = "commit"]
    /\ UNCHANGED <<body, resp, at, session_count, agg, found, msgs, database, broker>>

NewValue(r) ==
    IF session_count[r] = 2 THEN WithSuffix[agg[r].row.vo] ELSE ThisItem(r).vo

\* SELECT ... FOR UPDATE returns the row, and the entity's operation succeeds.
Load(r) ==
    LET id  == agg[r].id
        old == View(r, id)
        op  == Operation(r)
    IN /\ pc[r] = "load"
       /\ Free(r, id)
       /\ old # None
       /\ Allowed(op, old)
       /\ lock' = [lock EXCEPT ![id] = r]
       /\ agg' = [agg EXCEPT ![r] = [id |-> id, event |-> EventOf(op),
                                     row |-> Operate(op, old, NewValue(r))]]
       /\ pc' = [pc EXCEPT ![r] = "get"]
       /\ UNCHANGED <<body, resp, at, session_count, found, msgs,
                      written, logged, rows, journal, broker>>

\* The row is there, and locked, but voided: YourAggregateStatusNotMatched.
LoadRefused(r) ==
    LET id == agg[r].id
    IN /\ pc[r] = "load"
       /\ Free(r, id)
       /\ View(r, id) # None
       /\ ~Allowed(Operation(r), View(r, id))
       /\ lock' = [lock EXCEPT ![id] = r]
       /\ pc' = [pc EXCEPT ![r] = "unwind"]
       /\ UNCHANGED <<body, resp, at, session_count, agg, found, msgs,
                      written, logged, rows, journal, broker>>

\* NoResultFound.
LoadMissing(r) ==
    /\ pc[r] = "load"
    /\ View(r, agg[r].id) = None
    /\ pc' = [pc EXCEPT ![r] = "unwind"]
    /\ UNCHANGED <<body, resp, at, session_count, agg, found, msgs, database, broker>>

\* save_your_aggregate looks the model up to choose between INSERT and UPDATE.
GetModel(r) ==
    /\ pc[r] = "get"
    /\ found' = [found EXCEPT ![r] = View(r, agg[r].id) # None]
    /\ pc' = [pc EXCEPT ![r] = "flush"]
    /\ UNCHANGED <<body, resp, at, session_count, agg, msgs, database, broker>>

\* The statement would meet another row than the lookup did: a duplicate key,
\* or no row to update.
Clash(r) == found[r] # (View(r, agg[r].id) # None)

\* _save: the row is written or deleted, the archive and event entries are
\* added, and everything is flushed.  Then publish_all runs the handlers of the
\* event, each in a nested session scope; an event without one (and the update
\* of the creation's handler) ends the item.
Save(r) ==
    LET id == agg[r].id
        e  == agg[r].event
    IN /\ pc[r] = "flush"
       /\ Free(r, id)
       /\ ~Clash(r)
       /\ lock' = [lock EXCEPT ![id] = r]
       /\ written' = [written EXCEPT ![r][id] = IF e = "Deleted" THEN None ELSE agg[r].row]
       /\ logged' = [logged EXCEPT ![r][id] =
                        Append(@, [event |-> e, row |-> agg[r].row, by |-> By(r)])]
       /\ session_count' = [session_count EXCEPT ![r] = IF e \in Subscribed THEN 2 ELSE 1]
       /\ at' = [at EXCEPT ![r] = IF e \in Subscribed THEN @ ELSE @ + 1]
       /\ pc' = [pc EXCEPT ![r] = CASE e \notin Subscribed -> "item"
                                    [] e = "Created"       -> "load"
                                    [] OTHER               -> "read"]
       /\ UNCHANGED <<body, resp, agg, found, msgs, rows, journal, broker>>

\* handle_your_aggregate_voided: reads the aggregate again, without a lock, and
\* queues the announcement.
ReadVoided(r) ==
    LET row == View(r, agg[r].id)
    IN /\ pc[r] = "read"
       /\ row # None
       /\ msgs' = [msgs EXCEPT ![r] =
                      IF row.status = "VOIDED" THEN Append(@, agg[r].id) ELSE @]
       /\ session_count' = [session_count EXCEPT ![r] = LeaveScope(@)]
       /\ at' = [at EXCEPT ![r] = @ + 1]
       /\ pc' = [pc EXCEPT ![r] = "item"]
       /\ UNCHANGED <<body, resp, agg, found, database, broker>>

\* A statement fails: the connection, the database, a constraint.  _load turns
\* it into NoResultFound; either way an exception leaves the controller.
StatementFails(r) ==
    /\ \/ "statement" \in Faults /\ pc[r] \in {"load", "get", "flush", "read"}
       \/ pc[r] = "flush" /\ Clash(r)
    /\ pc' = [pc EXCEPT ![r] = "unwind"]
    /\ UNCHANGED <<body, resp, at, session_count, agg, found, msgs, database, broker>>

\* r waits for a lock that p holds.
WaitsFor(r, p) ==
    /\ pc[r] = "load"
    /\ ~Free(r, agg[r].id)
    /\ lock[agg[r].id] = p

\* A set of requests each waiting for one of them, all waited for: PostgreSQL's
\* deadlock detector aborts a member.
Deadlocked(r) ==
    \E S \in SUBSET Requests :
        /\ r \in S
        /\ \A q \in S : \E p \in S : WaitsFor(q, p)
        /\ \A p \in S : \E q \in S : WaitsFor(q, p)

DeadlockVictim(r) ==
    /\ Deadlocked(r)
    /\ pc' = [pc EXCEPT ![r] = "unwind"]
    /\ UNCHANGED <<body, resp, at, session_count, agg, found, msgs, database, broker>>

\* SessionProvider.__aexit__ of the outermost scope.
Commit(r) ==
    /\ pc[r] = "commit"
    /\ session_count' = [session_count EXCEPT ![r] = LeaveScope(@)]
    /\ ApplyTransaction(r)
    /\ EndTransaction(r)
    /\ pc' = [pc EXCEPT ![r] = "publish"]
    /\ UNCHANGED <<body, resp, at, agg, found, msgs, broker>>

\* COMMIT raises; if the connection broke, the server may or may not have done
\* it.  __aexit__ rolls back, closes and raises out of the decorator, past its
\* except clauses: nobody cleans the publisher's messages.
CommitFails(r) ==
    /\ pc[r] = "commit"
    /\ "commit" \in Faults
    /\ session_count' = [session_count EXCEPT ![r] = LeaveScope(@)]
    /\ \/ ApplyTransaction(r)
       \/ UNCHANGED <<rows, journal>>
    /\ EndTransaction(r)
    /\ EndCall(r, FALSE)
    /\ UNCHANGED <<body, at, msgs, broker>>

\* After the session scope the decorator publishes whatever the request's
\* publisher holds, one message with the merged list of ids.
Publish(r) ==
    /\ pc[r] = "publish"
    /\ broker' = IF msgs[r] = <<>> THEN broker ELSE Append(broker, msgs[r])
    /\ msgs' = [msgs EXCEPT ![r] = <<>>]
    /\ EndCall(r, TRUE)
    /\ UNCHANGED <<body, at, session_count, database>>

\* Publishing fails and publish_messages logs the error: before the messages are
\* popped, which keeps them, or on leaving the connection, which loses them if
\* the broker has not taken them.  Without publisher confirms it may have taken
\* them either way.
PublishFails(r) ==
    /\ pc[r] = "publish"
    /\ "publish" \in Faults
    /\ msgs[r] # <<>>
    /\ broker' \in {broker, Append(broker, msgs[r])}
    /\ msgs' \in {msgs, [msgs EXCEPT ![r] = <<>>]}
    /\ EndCall(r, TRUE)
    /\ UNCHANGED <<body, at, session_count, database>>

\* Mutant: the handler's scope is not left when the handler raises.
LeaveOneScope(count) == LeaveScope(count)

\* The scopes an exception leaves: the controller's, and before it the event
\* handler's if one is running.
LeaveScopes(count) == IF count = 2 THEN LeaveScope(LeaveScope(count)) ELSE LeaveScope(count)

\* Mutant: an except clause without clean_messages.
UnwindKeepingMessages(r) ==
    /\ pc[r] = "unwind"
    /\ EndTransaction(r)
    /\ session_count' = [session_count EXCEPT ![r] = LeaveScopes(@)]
    /\ EndCall(r, FALSE)
    /\ UNCHANGED <<body, at, msgs, rows, journal, broker>>

\* An exception leaves the handler and the controller: both roll back, the
\* controller's except clause cleans the messages, each session scope is left.
Unwind(r) ==
    /\ pc[r] = "unwind"
    /\ EndTransaction(r)
    /\ msgs' = [msgs EXCEPT ![r] = <<>>]
    /\ session_count' = [session_count EXCEPT ![r] = LeaveScopes(@)]
    /\ EndCall(r, FALSE)
    /\ UNCHANGED <<body, at, rows, journal, broker>>

\* The worker dies; the server rolls its transaction back.
Crash(r) ==
    /\ "crash" \in Faults
    /\ pc[r] \notin {"done", "dead"}
    /\ EndTransaction(r)
    /\ msgs' = [msgs EXCEPT ![r] = <<>>]
    /\ agg' = [agg EXCEPT ![r] = NoAgg]
    /\ pc' = [pc EXCEPT ![r] = "dead"]
    /\ UNCHANGED <<body, resp, at, session_count, found, rows, journal, broker>>

\* Every request has been answered or has died: no more steps, no deadlock.
AllOver ==
    /\ \A r \in Requests : pc[r] \in {"done", "dead"}
    /\ UNCHANGED vars

\* What r does when nothing fails.
Proceed(r) ==
    \/ Enter(r) \/ Finish(r)
    \/ BeginCreate(r) \/ BeginLoad(r) \/ BeginCommit(r)
    \/ Load(r) \/ LoadRefused(r) \/ LoadMissing(r)
    \/ GetModel(r) \/ Save(r) \/ ReadVoided(r)
    \/ Commit(r) \/ Publish(r) \/ Unwind(r)

Fail(r) ==
    \/ StatementFails(r) \/ DeadlockVictim(r)
    \/ CommitFails(r) \/ PublishFails(r) \/ Crash(r)

Next == (\E r \in Requests : Proceed(r) \/ Fail(r)) \/ AllOver

Spec == Init /\ [][Next]_vars

\* A coroutine whose await has completed runs; PostgreSQL breaks deadlocks.
Fairness ==
    \A r \in Requests : WF_vars(Proceed(r)) /\ WF_vars(DeadlockVictim(r))

FairSpec == Spec /\ Fairness

-----------------------------------------------------------------------------
(* Properties *)

\* Types, and the sequences of each request within its payload.
TypeOK ==
    /\ pc \in [Requests -> PCs]
    /\ body \in [Requests -> Bodies]
    /\ resp \in [Requests -> Seq(BOOLEAN)]
    /\ at \in [Requests -> Nat \ {0}]
    /\ session_count \in [Requests -> 0 .. 2]
    /\ agg \in [Requests -> Agg]
    /\ found \in [Requests -> BOOLEAN]
    /\ msgs \in [Requests -> Seq(Ids)]
    /\ written \in [Requests -> [Ids -> Row \cup {None}]]
    /\ logged \in [Requests -> [Ids -> Seq(Entry)]]
    /\ rows \in [Ids -> Row \cup {None}]
    /\ journal \in [Ids -> Seq(Entry)]
    /\ lock \in [Ids -> Requests \cup {None}]
    /\ broker \in Seq(Seq(Ids))

Ledger == INSTANCE AggregateLedger

\* The journal of id as r's transaction would leave it.
Line(r, id) == journal[id] \o logged[r][id]

\* At every moment the committed journal of an aggregate is a chain of legal
\* operations and its row is what the last one left: no lost update, no
\* operation on a voided or deleted aggregate, and the stored operation
\* histories tell exactly what changed (FOR UPDATE in _load, then _save).
AuditTrail ==
    \A id \in Ids :
        /\ Ledger!LegalJournal(journal[id])
        /\ rows[id] = Ledger!Current(journal[id])

\* No aggregate is ever visible without the update of its creation's event
\* handler, stored by the same call (handle_your_aggregate_created runs in the
\* nested session scope, before the commit).
CreationIsComplete == \A id \in Ids : Ledger!CreationComplete(journal[id])

\* The entry that saving the entity in hand would add.
InHand(r) == [event |-> agg[r].event, row |-> agg[r].row, by |-> By(r)]

\* What a coroutine loaded and changed is still a legal successor of what its
\* transaction sees when it gets to save it, however many awaits lie between
\* (load_your_aggregate, _get_model and the flush of _save).
LoadedIsCurrent ==
    \A r \in Requests : pc[r] \in {"get", "flush"} =>
        Ledger!LegalJournal(Append(Line(r, agg[r].id), InHand(r)))

\* Uncommitted work is always covered by the lock of its row, so no two
\* transactions have written the same aggregate.
WritersHoldTheLock ==
    \A r \in Requests, id \in Ids : logged[r][id] # <<>> => lock[id] = r

\* Between two controller calls, and before it publishes, a request has no
\* session, no lock and nothing uncommitted: the nested scopes of the event
\* handlers and every error path unwind to the count of zero.
NothingHeldBetweenCalls ==
    \A r \in Requests : pc[r] \in {"call", "publish", "done"} =>
        /\ session_count[r] = 0
        /\ \A id \in Ids : lock[id] # r /\ logged[r][id] = <<>>

(***************************************************************************)
(* The inductive invariant behind these, in named parts.                   *)
(***************************************************************************)

\* Where a coroutine is in its payload, its call and its session scopes.
Progress(r) ==
    /\ pc[r] \in {"item", "load", "get", "flush", "read"} =>
        Len(resp[r]) < Len(Calls(r))
    /\ pc[r] \in {"load", "get", "flush", "read"} =>
        at[r] <= Len(ThisCall(r)) /\ agg[r].id \in Ids
    /\ pc[r] \in {"call", "publish", "done"} => session_count[r] = 0
    /\ pc[r] \in {"item", "commit"} => session_count[r] = 1
    /\ pc[r] \in {"load", "get", "flush"} => session_count[r] > 0
    /\ pc[r] = "read" => session_count[r] = 2
    /\ pc[r] = "load" => IF session_count[r] = 2 THEN agg[r].row \in Row
                                                ELSE body[r].cmd # "CREATE"

\* Outside a transaction nothing is locked and nothing is uncommitted.
Released(r) ==
    pc[r] \in {"call", "publish", "done", "dead"} =>
        \A id \in Ids : lock[id] # r /\ logged[r][id] = <<>>

\* The entity to save is new or changed legally, and its row is locked.
HandsLegal(r) ==
    pc[r] \in {"get", "flush"} =>
        /\ InHand(r) \in Entry
        /\ lock[agg[r].id] = r
        /\ Ledger!LegalJournal(Append(Line(r, agg[r].id), InHand(r)))

\* What the transaction would leave is legal, and its view agrees with it.
LineLegal(r) ==
    \A id \in Ids :
        /\ Ledger!LegalJournal(Line(r, id))
        /\ View(r, id) = Ledger!Current(Line(r, id))

\* An aggregate that r has created without its handler's update is the one r
\* is updating now, unless r is about to roll back.
CreationPending(r) ==
    \A id \in Ids :
        LET line == Line(r, id)
        IN ~Ledger!CreationComplete(line) =>
            /\ Len(line) = 1
            /\ line[1].by = By(r)
            /\ pc[r] \in {"load", "get", "flush", "unwind"}
            /\ pc[r] # "unwind" => agg[r].id = id /\ session_count[r] = 2
            /\ pc[r] = "load" => agg[r].row = line[1].row
            /\ pc[r] \in {"get", "flush"} =>
                    agg[r].event = "Updated" /\ agg[r].row.vo = WithSuffix[line[1].row.vo]

IInv ==
    /\ TypeOK
    /\ WritersHoldTheLock
    /\ AuditTrail
    /\ CreationIsComplete
    /\ \A r \in Requests :
        Progress(r) /\ Released(r) /\ HandsLegal(r) /\ LineLegal(r) /\ CreationPending(r)

\* What call n of request r has committed, and how much it has if complete.
Committed(r, n) ==
    UNION {{<<id, k>> : k \in {l \in DOMAIN journal[id] : journal[id][l].by = <<r, n>>}} :
              id \in Ids}

Whole(r, n) == Len(Calls(r)[n]) * (IF body[r].cmd = "CREATE" THEN 2 ELSE 1)

\* A controller call is one transaction: all its items, with what their event
\* handlers wrote, or nothing, whatever failed in between; and all of it once it
\* is answered with success.
CallsAreAtomic ==
    \A r \in Requests : \A n \in DOMAIN Calls(r) :
        \/ Cardinality(Committed(r, n)) = Whole(r, n)
        \/ Committed(r, n) = {} /\ ~(n \in DOMAIN resp[r] /\ resp[r][n])

\* "success" in the response means committed, and "failure" means nothing was,
\* unless the commit itself was what failed.
AnswersAreTrue ==
    \A r \in Requests : \A n \in DOMAIN resp[r] :
        /\ resp[r][n] => Committed(r, n) # {}
        /\ ~resp[r][n] /\ "commit" \notin Faults => Committed(r, n) = {}

WasVoided(id) == \E n \in DOMAIN journal[id] : journal[id][n].event = "Voided"

\* Whoever consumes the exchange is told that an aggregate is voided only after
\* the voiding is committed (messages wait for the end of the session scope).
AnnouncedWasVoided ==
    \A m \in DOMAIN broker : \A k \in DOMAIN broker[m] : WasVoided(broker[m][k])

\* Where the exchange has accepted an announcement of id.
Announced(id) ==
    UNION {{<<m, k>> : k \in {l \in DOMAIN broker[m] : broker[m][l] = id}} : m \in DOMAIN broker}

\* If neither a COMMIT nor a publication fails, a voiding answered with success
\* has been announced, and once: not by the call that failed half way, nor by a
\* request that voided the same aggregate in vain (clean_messages on every
\* failing path, publish_messages clearing what it sent).
VoidingIsAnnouncedOnce ==
    "commit" \notin Faults /\ "publish" \notin Faults =>
        \A r \in Requests : \A n \in DOMAIN resp[r] :
            resp[r][n] /\ body[r].cmd = "VOID" =>
                \A k \in DOMAIN Calls(r)[n] : Cardinality(Announced(Calls(r)[n][k].id)) = 1

\* A voided aggregate never changes again, except that it may be deleted, and a
\* deleted one never comes back (save_your_aggregate inserts what it does not
\* find).
VoidedAndDeletedAreFinal ==
    [][\A id \in Ids :
        /\ rows[id] # None /\ rows[id].status = "VOIDED" => rows'[id] \in {rows[id], None}
        /\ rows[id] = None /\ journal[id] # <<>> => rows'[id] = None]_vars

\* The store implements the abstract ledger.
ImplementsLedger == Ledger!Spec

\* Every request is answered, or its worker died: no lock is waited for
\* forever, batches that lock in opposite orders included.
RequestsFinish == \A r \in Requests : <>(pc[r] \in {"done", "dead"})
=============================================================================
