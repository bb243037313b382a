-------------------------- MODULE MessageConsumer --------------------------
(***************************************************************************)
(* The RabbitMQ consumer process: RabbitMqConsumer.start_consume, its      *)
(* acknowledgements, deferred messages and retries, and the signal that    *)
(* stops it.                                                               *)
(*                                                                         *)
(* One consumer reads the queue.  A delivered message stays at the head of *)
(* queue until it is acknowledged, for if the connection goes it is there  *)
(* again.  There is no limit on what the broker sends ahead (no            *)
(* basic_qos): when the connection is lost the process may have any number *)
(* of the queue's first messages, and it handles and acknowledges them     *)
(* until it notices.  A retry is a new copy at the tail:                   *)
(* publish_raw_message sends it, on a connection of its own, to the        *)
(* exchange with the queue's own binding as its routing key.  The queue    *)
(* survives; a restart of the broker is not modelled.                      *)
(***************************************************************************)
EXTENDS Integers, Sequences, FiniteSets

CONSTANTS
    Incoming,      \* the ids of the messages in the queue, in order
    Attempts,      \* [ids -> Int]: attempt_number as published, -1 for no limit
    Unparsable,    \* the messages that may turn out not to parse
    NoMessage,
    Faults,        \* which of FaultKinds may happen
    MaxMishaps,    \* bound: how many connections, publications and processes fail
    MaxFailures    \* bound: how often the handler fails on an unlimited message

FaultKinds == {"handler", "connection", "publish", "crash", "signal"}

Ids == {Incoming[n] : n \in DOMAIN Incoming}

ASSUME IncomingAssumption ==
    /\ Incoming \in Seq(Ids)
    /\ \A n, k \in DOMAIN Incoming : Incoming[n] = Incoming[k] => n = k

ASSUME AttemptsAssumption == Attempts \in [Ids -> Nat \cup {-1}]

ASSUME ConsumerAssumption ==
    /\ Unparsable \subseteq Ids
    /\ Faults \subseteq FaultKinds
    /\ MaxMishaps \in Nat /\ MaxFailures \in Nat

\* started is when a retried message may be handled: not before, or since.
QueueMessage ==
    [id : Ids, attempt_number : Nat \cup {-1}, started : {"none", "later", "due"}]

ASSUME NoMessageAssumption == NoMessage \notin QueueMessage

\* The points of start_consume and of the callback: entering `with
\* self.connection`, the loop's test, basic_consume, start_consuming without a
\* delivery, the handler, publishing a deferred or a failed message, basic_ack.
Consuming == {"connect", "loop", "subscribe", "idle", "handle", "defer", "retry", "ack"}

\* And those of serve, before RabbitMqConsumer has its signal handler: about to
\* make it, or hanging in the handler that the worker had until then.
Running == Consuming \cup {"start", "hung"}

\* How serve ends: unreachable is an AMQPConnectorException, raised any other
\* exception, and a killed process ends without either.
Ended == {"returned", "raised", "unreachable", "killed"}

VARIABLES
    pc,
    connected,     \* the consuming connection is open
    consuming,     \* its channel has a consumer
    kill_now,
    prefetched,    \* how many more deliveries a process that lost its connection has
    message,       \* the message in the callback's hands
    queue,
    malformed,     \* the messages that do not parse
    abandoned,     \* delivered, never acknowledged (for all the broker knows), and
                   \* no callback has them
    successes, failures, given_up,   \* what became of each message
    mishaps

process == <<connected, consuming, prefetched, kill_now, malformed>>
history == <<successes, failures, given_up>>
vars == <<pc, process, message, queue, abandoned, history, mishaps>>

Init ==
    /\ pc = "start"
    /\ connected = FALSE /\ consuming = FALSE /\ prefetched = 0 /\ kill_now = FALSE
    /\ message = NoMessage
    /\ malformed \in SUBSET Unparsable
    /\ queue = [n \in DOMAIN Incoming |->
                   [id |-> Incoming[n], attempt_number |-> Attempts[Incoming[n]],
                    started |-> "none"]]
    /\ abandoned = <<>>
    /\ successes = [m \in Ids |-> 0] /\ failures = [m \in Ids |-> 0] /\ given_up = {}
    /\ mishaps = 0

Mishap(kind) ==
    /\ kind \in Faults
    /\ mishaps < MaxMishaps
    /\ mishaps' = mishaps + 1

\* start_consume ends and `with self.connection` closes: q, and before it what
\* was never acknowledged, is in the queue again.
End(how, q) ==
    /\ pc' = how
    /\ connected' = FALSE /\ consuming' = FALSE /\ prefetched' = 0
    /\ message' = NoMessage
    /\ queue' = abandoned \o q
    /\ abandoned' = <<>>

-----------------------------------------------------------------------------

\* RabbitMqConsumer.__init__ installs its signal handler.
Start ==
    /\ pc = "start"
    /\ pc' = "connect"
    /\ UNCHANGED <<process, message, queue, abandoned, history, mishaps>>

Connect ==
    /\ pc = "connect"
    /\ pc' = "loop"
    /\ connected' = TRUE
    /\ UNCHANGED <<consuming, prefetched, kill_now, malformed, message, queue, abandoned,
                   history, mishaps>>

ConnectFails ==
    /\ pc = "connect"
    /\ Mishap("connection")
    /\ End("unreachable", queue)
    /\ UNCHANGED <<kill_now, malformed, history>>

\* Mutant: the loop does not look at the flag.
LoopAnyway ==
    /\ pc = "loop"
    /\ pc' = "subscribe"
    /\ UNCHANGED <<process, message, queue, abandoned, history, mishaps>>

Loop ==
    /\ pc = "loop" /\ ~kill_now
    /\ pc' = "subscribe"
    /\ UNCHANGED <<process, message, queue, abandoned, history, mishaps>>

\* Closing a connection that was lost may raise.
Stop ==
    /\ pc = "loop" /\ kill_now
    /\ \E how \in {"returned", "raised"} : End(how, queue) /\ (connected => how = "returned")
    /\ UNCHANGED <<kill_now, malformed, history, mishaps>>

Subscribe ==
    /\ pc = "subscribe" /\ connected
    /\ pc' = "idle"
    /\ consuming' = TRUE
    /\ UNCHANGED <<connected, prefetched, kill_now, malformed, message, queue, abandoned,
                   history, mishaps>>

\* basic_consume on a closed channel is a channel error: the loop breaks.  If it is
\* basic_consume that finds the connection lost, the sleep that follows raises.
SubscribeFails ==
    /\ pc = "subscribe" /\ ~connected
    /\ \E how \in {"returned", "raised"} : End(how, queue)
    /\ UNCHANGED <<kill_now, malformed, history, mishaps>>

\* Mutant: the comparison of started with now turned round.
DueReversed(m) == m.started # "due"

Due(m) == m.started # "later"

\* pika has a delivery to dispatch: from the broker, or one that came before the
\* connection was lost.
Delivery ==
    /\ pc = "idle" /\ consuming
    /\ queue # <<>>
    /\ connected \/ prefetched > 0

\* A message comes to the callback.
Deliver ==
    /\ Delivery /\ Head(queue).id \notin malformed
    /\ message' = Head(queue)
    /\ prefetched' = IF connected THEN prefetched ELSE prefetched - 1
    /\ pc' = IF Due(Head(queue)) THEN "handle" ELSE "defer"
    /\ UNCHANGED <<connected, consuming, kill_now, malformed, queue, abandoned, history, mishaps>>

\* The message is parsed outside the callback's try.
DeliverMalformed ==
    /\ Delivery /\ Head(queue).id \in malformed
    /\ End("raised", queue)
    /\ UNCHANGED <<kill_now, malformed, history, mishaps>>

HandlerSucceeds ==
    /\ pc = "handle"
    /\ pc' = "ack"
    /\ successes' = [successes EXCEPT ![message.id] = @ + 1]
    /\ UNCHANGED <<process, message, queue, abandoned, failures, given_up, mishaps>>

\* Mutants: the boundary moved by one, down and up.
AllowsRetryOneLess(n) == n = -1 \/ n - 1 > 1
AllowsRetryOneMore(n) == n = -1 \/ n - 1 >= 0

\* A message that fails with n attempts left is published again.
AllowsRetry(n) == n = -1 \/ n - 1 > 0

\* Mutant: the unlimited message is counted too.
AttemptFailedCountingAll ==
    LET n == message.attempt_number
    IN /\ message' = [message EXCEPT !.attempt_number = n - 1, !.started = "later"]
       /\ IF AllowsRetry(n)
          THEN pc' = "retry" /\ UNCHANGED given_up
          ELSE pc' = "ack" /\ given_up' = given_up \cup {message.id}

\* The except branch: the message in hand gets a delay and loses an attempt, and
\* is given up if that was the last.
AttemptFailed ==
    LET n == message.attempt_number
    IN /\ message' = [message EXCEPT !.attempt_number = IF n = -1 THEN n ELSE n - 1,
                                     !.started = "later"]
       /\ IF AllowsRetry(n)
          THEN pc' = "retry" /\ UNCHANGED given_up
          ELSE pc' = "ack" /\ given_up' = given_up \cup {message.id}

\* Mutant: the handler's exception leaves the callback.
HandlerFailsUncaught ==
    /\ pc = "handle"
    /\ "handler" \in Faults
    /\ message.attempt_number = -1 => failures[message.id] < MaxFailures
    /\ failures' = [failures EXCEPT ![message.id] = @ + 1]
    /\ End("raised", queue)
    /\ UNCHANGED <<kill_now, malformed, successes, given_up, mishaps>>

HandlerFails ==
    /\ pc = "handle"
    /\ "handler" \in Faults
    /\ message.attempt_number = -1 => failures[message.id] < MaxFailures
    /\ failures' = [failures EXCEPT ![message.id] = @ + 1]
    /\ AttemptFailed
    /\ UNCHANGED <<process, queue, abandoned, successes, mishaps>>

\* publish_raw_message, of a message that is not due yet or of a retry.
Republish ==
    /\ pc \in {"defer", "retry"}
    /\ queue' = Append(queue, message)
    /\ pc' = "ack"
    /\ UNCHANGED <<process, message, abandoned, history, mishaps>>

\* The queue after a publication that failed: it may have got there.
MaybeSent == {queue, Append(queue, message)}

\* A deferred message is published inside the try: its failing is an attempt.
DeferFails ==
    /\ pc = "defer"
    /\ Mishap("publish")
    /\ queue' \in MaybeSent
    /\ AttemptFailed
    /\ UNCHANGED <<process, abandoned, successes, failures>>

\* Mutant: the error is logged, as publish_messages does, and the message
\* acknowledged.
RetryFailsSilently ==
    /\ pc = "retry"
    /\ Mishap("publish")
    /\ queue' \in MaybeSent
    /\ pc' = "ack"
    /\ UNCHANGED <<process, message, abandoned, history>>

\* The exception leaves the callback and start_consuming.  A publisher that cannot
\* connect (AMQPConnectorException) ends start_consume, as other errors do; a
\* channel error breaks the loop; a connection error is the publisher's, but the
\* loop waits and subscribes again, and what the callback had is never acknowledged.
\* (The wait is a sleep of the connection, which may dispatch deliveries: those of a
\* connection that is open are dispatched after it here, and it is the end of one
\* that was lost.)
RetryFails ==
    /\ pc = "retry"
    /\ Mishap("publish")
    /\ \E q \in MaybeSent :
        \/ \E how \in Ended \ {"killed"} : End(how, q) /\ UNCHANGED <<kill_now, malformed>>
        \/ /\ queue' = Tail(q)
           /\ abandoned' = Append(abandoned, Head(q))
           /\ message' = NoMessage
           /\ pc' = IF connected THEN "loop" ELSE "idle"
           /\ UNCHANGED process
    /\ UNCHANGED history

\* Mutant: a callback that forgets basic_ack.
AckForgotten ==
    /\ pc = "ack"
    /\ queue' = Tail(queue)
    /\ abandoned' = Append(abandoned, Head(queue))
    /\ message' = NoMessage
    /\ pc' = IF consuming THEN "idle" ELSE "loop"
    /\ UNCHANGED <<process, history, mishaps>>

\* basic_ack, which does not wait for the broker: the acknowledgement is lost with
\* the connection, unnoticed.  The callback returns into start_consuming, which
\* returns if the consumer was cancelled meanwhile.
Ack ==
    /\ pc = "ack"
    /\ queue' = Tail(queue)
    /\ abandoned' = IF connected THEN abandoned ELSE Append(abandoned, Head(queue))
    /\ message' = NoMessage
    /\ pc' = IF consuming THEN "idle" ELSE "loop"
    /\ UNCHANGED <<process, history, mishaps>>

\* basic_ack notices that the connection is lost: a channel error breaks the loop; a
\* connection error is handled by a sleep on the connection that broke, which raises.
AckFails ==
    /\ pc = "ack" /\ ~connected
    /\ \E how \in {"returned", "raised"} : End(how, queue)
    /\ UNCHANGED <<kill_now, malformed, history, mishaps>>

Held == IF message = NoMessage THEN 0 ELSE 1

\* The connection is lost, silently or not, behind the deliveries that came by it.
LoseConnection ==
    /\ connected
    /\ Mishap("connection")
    /\ connected' = FALSE
    /\ prefetched' \in IF consuming THEN 0 .. Len(queue) - Held ELSE {0}
    /\ UNCHANGED <<pc, consuming, kill_now, malformed, message, queue, abandoned, history>>

\* start_consuming raises, and the except clauses meet the closed connection: its
\* sleep raises, or the next basic_consume is a channel error.
NoticeLoss ==
    /\ pc = "idle" /\ ~connected
    /\ \E how \in {"returned", "raised"} : End(how, queue)
    /\ UNCHANGED <<kill_now, malformed, history, mishaps>>

\* exit_gracefully cancels the channel's consumers, if there are any yet: what they
\* have not handled is rejected, and start_consuming returns.
ExitGracefully ==
    /\ pc \in Consuming
    /\ kill_now' = TRUE
    /\ consuming' = (consuming /\ ~connected) /\ prefetched' = 0
    /\ pc' = IF pc = "idle" /\ connected THEN "loop" ELSE pc
    /\ UNCHANGED <<connected, malformed, message, queue, abandoned, history, mishaps>>

\* A signal before RabbitMqConsumer has its handler meets the supervisor's, which a
\* worker that has not served yet inherited: it waits for a lock that was held when
\* the worker was forked.  (In a worker that has served before it meets the handler
\* of the consumer it had then, and nothing comes of it.)
SignalTooEarly ==
    /\ pc = "start"
    /\ pc' = "hung"
    /\ UNCHANGED <<process, message, queue, abandoned, history, mishaps>>

Signal == "signal" \in Faults /\ ~kill_now /\ (ExitGracefully \/ SignalTooEarly)

\* The process ends where it is.
Killed ==
    /\ pc \in Running
    /\ mishaps' = mishaps + 1
    /\ End("killed", queue)
    /\ UNCHANGED <<kill_now, malformed, history>>

Crash == Mishap("crash") /\ Killed

\* serve is submitted again, or the container started again: a new
\* RabbitMqConsumer.
Restart ==
    /\ pc \in Ended
    /\ pc' = "start"
    /\ kill_now' = FALSE
    /\ UNCHANGED <<connected, consuming, prefetched, malformed, message, queue, abandoned,
                   history, mishaps>>

NowDue(m) == IF m.started = "later" THEN [m EXCEPT !.started = "due"] ELSE m

\* retry_delay_second has passed for the messages that wait.
TimePasses ==
    /\ \E n \in DOMAIN queue : queue[n].started = "later"
    /\ queue' = [n \in DOMAIN queue |-> NowDue(queue[n])]
    /\ message' = IF message = NoMessage THEN message ELSE NowDue(message)
    /\ UNCHANGED <<pc, process, abandoned, history, mishaps>>

\* Nothing to do, or nothing that it can: no deadlock.
AllOver == (pc = "hung" \/ (pc = "idle" /\ queue = <<>>)) /\ UNCHANGED vars

\* What the process does when nothing fails.
Proceed ==
    \/ Start \/ Connect \/ Loop \/ Stop \/ Subscribe \/ SubscribeFails
    \/ Deliver \/ DeliverMalformed \/ HandlerSucceeds
    \/ Republish \/ Ack \/ AckFails \/ NoticeLoss

Fail ==
    \/ ConnectFails \/ HandlerFails \/ DeferFails \/ RetryFails
    \/ LoseConnection \/ Signal \/ Crash

Next == Proceed \/ Fail \/ Restart \/ TimePasses \/ AllOver

Spec == Init /\ [][Next]_vars

\* The process runs and is started again, and time passes.
FairSpec == Spec /\ WF_vars(Proceed \/ Restart) /\ WF_vars(TimePasses)

-----------------------------------------------------------------------------
(* Properties *)

\* Types, and the callback has a message between its delivery and its end.
TypeOK ==
    /\ pc \in Running \cup Ended
    /\ connected \in BOOLEAN /\ consuming \in BOOLEAN /\ kill_now \in BOOLEAN
    /\ prefetched \in Nat
    /\ malformed \subseteq Unparsable
    /\ message \in QueueMessage \cup {NoMessage}
    /\ queue \in Seq(QueueMessage) /\ abandoned \in Seq(QueueMessage)
    /\ successes \in [Ids -> Nat] /\ failures \in [Ids -> Nat] /\ given_up \subseteq Ids
    /\ mishaps \in Nat
    /\ message # NoMessage <=> pc \in {"handle", "defer", "retry", "ack"}

\* Message m is still to be handled: the copy in hand no longer counts when only
\* its acknowledgement is missing.
Pending(m) ==
    \/ \E n \in DOMAIN queue : queue[n].id = m /\ ~(n = 1 /\ pc = "ack")
    \/ \E n \in DOMAIN abandoned : abandoned[n].id = m

\* No message disappears: until it is handled, or given up, the broker has it
\* (publish first, acknowledge after, whatever fails in between).
NoMessageIsLost ==
    \A m \in Ids : successes[m] > 0 \/ m \in given_up \/ Pending(m)

Promise == INSTANCE AtLeastOnce WITH
    Messages <- Ids, pending <- {m \in Ids : Pending(m)}, handled <- successes

\* The consumer with its acknowledgements, copies and failures delivers every
\* message at least once: a settled message comes back, a pending one goes, only
\* as AtLeastOnce allows.
DeliversAtLeastOnce == Promise!Spec

\* The copies of message m that are still to be handled.
Copies(m) ==
    LET In(q) == Cardinality({n \in DOMAIN q : q[n].id = m})
    IN In(queue) + In(abandoned) - (IF pc = "ack" /\ message.id = m THEN 1 ELSE 0)

\* How many copies of a message n mishaps make of one: each repeats at most what
\* there was, and the delivery in hand.
Repetitions(n) == 2 ^ (n + 1) - 1

\* A message is handled once, and repeated only for a connection, a publication or a
\* process that fails, by which its copies no more than double (but for one): without
\* a prefetch limit a lost connection may repeat all of them, and no more.
RepetitionsAreBounded ==
    \A m \in Ids : successes[m] + Copies(m) <= Repetitions(mishaps)

\* The handler fails on a message at most attempt_number times (once if that is 0)
\* for each of these copies.
AttemptsAreBounded ==
    \A m \in Ids : Attempts[m] # -1 =>
        failures[m] <= (IF Attempts[m] = 0 THEN 1 ELSE Attempts[m]) * Repetitions(mishaps)

\* No message is given up before attempt_number attempts failed, each in the
\* handler or (a deferred one) in its publication; one without a limit never is.
GivenUpAfterAllAttempts ==
    \A m \in given_up : Attempts[m] # -1 /\ failures[m] + mishaps >= Attempts[m]

\* A process told to stop while it consumes, or in the callback, stops.
StopsWhenTold == (kill_now /\ ~consuming /\ pc # "subscribe") ~> pc \in Ended

\* "Recover on all other connection errors": start_consume goes on after the
\* connection broke.
RecoversFromConnectionErrors ==
    [][pc = "idle" /\ ~connected => pc' \notin Ended]_vars
=============================================================================
