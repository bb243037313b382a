----------------------------- MODULE Supervisor -----------------------------
(***************************************************************************)
(* app/message_queue_consumer.py: the process that runs serve in a pool of *)
(* worker processes, submits it again when it ends, gives up, and shuts    *)
(* down.  Composed with MessageConsumer, which is serve: its Restart is    *)
(* the supervisor's to take.                                               *)
(*                                                                         *)
(* There is one exchange, hence one future, and the future is what pc      *)
(* says: running, or how serve ended.  A worker that is killed breaks the  *)
(* pool, which then takes no more submissions.                             *)
(***************************************************************************)
EXTENDS MessageConsumer

CONSTANTS
    RESTART_MAX_NUM,
    SupervisorFaults   \* which of SupervisorFaultKinds may happen

\* A signal to the supervisor alone, or to its whole process group (Ctrl-C).
SupervisorFaultKinds == {"parent", "group"}

ASSUME SupervisorAssumption ==
    /\ RESTART_MAX_NUM \in Nat \ {0}
    /\ SupervisorFaults \subseteq SupervisorFaultKinds

VARIABLES
    phase,           \* where the supervisor's main thread is
    restart_count,
    idle_stuck,      \* the idle workers were signalled and will never end
    signals          \* how often the consumer alone was signalled

Phases == {"watching", "delaying", "waiting", "interrupted", "ended"}

supervisor == <<phase, restart_count, idle_stuck, signals>>
allVars == <<vars, supervisor>>

SInit ==
    /\ Init
    /\ phase = "watching" /\ restart_count = 0 /\ idle_stuck = FALSE
    /\ signals = 0

-----------------------------------------------------------------------------

\* Mutant: a loop without end.
ResubmitForever ==
    /\ phase = "watching" /\ pc \in {"returned", "raised"}
    /\ Restart
    /\ restart_count' = restart_count + 1
    /\ UNCHANGED <<phase, idle_stuck, signals>>

\* The future is done, with a result or an exception: serve is submitted again.
Resubmit ==
    /\ phase = "watching" /\ restart_count < RESTART_MAX_NUM
    /\ pc \in {"returned", "raised"}
    /\ Restart
    /\ restart_count' = restart_count + 1
    /\ UNCHANGED <<phase, idle_stuck, signals>>

\* AMQPConnectorException: not submitted again, and the loop is to end.
GiveUp ==
    /\ phase = "watching" /\ restart_count < RESTART_MAX_NUM
    /\ pc = "unreachable"
    /\ restart_count' = restart_count + RESTART_MAX_NUM
    /\ UNCHANGED <<vars, phase, idle_stuck, signals>>

LoopEnds ==
    /\ phase = "watching" /\ restart_count >= RESTART_MAX_NUM
    /\ phase' = "delaying"
    /\ UNCHANGED <<vars, restart_count, idle_stuck, signals>>

\* The worker was killed: the future has BrokenProcessPool, and so does submit,
\* which leaves the loop for the outer except.
SubmitFails ==
    /\ phase = "watching" /\ restart_count < RESTART_MAX_NUM
    /\ pc = "killed"
    /\ phase' = "delaying"
    /\ UNCHANGED <<vars, restart_count, idle_stuck, signals>>

\* What a signal finds in the worker that runs serve, or is to run it: the handler of
\* its consumer; GracefulKiller's, which all workers inherited; that of a consumer it
\* had before; or no process, or one that already hangs.
WorkerSignalled ==
    \/ ExitGracefully
    \/ SignalTooEarly
    \/ pc = "start" /\ restart_count > 0 /\ UNCHANGED vars
    \/ pc \in Ended \cup {"hung"} /\ UNCHANGED vars

\* A signal to every worker: the idle ones have GracefulKiller's handler and wait in
\* it for a lock that was held when they were forked.
SignalWorkers == WorkerSignalled /\ idle_stuck' = TRUE

\* SHUTDOWN_DELAY_SECONDS have passed.
Terminate ==
    /\ phase = "delaying"
    /\ phase' = "waiting"
    /\ SignalWorkers
    /\ UNCHANGED <<restart_count, signals>>

\* The future is done; the idle workers are killed.
WaitEnds ==
    /\ phase = "waiting" /\ pc \in Ended
    /\ phase' = "ended"
    /\ idle_stuck' = FALSE
    /\ UNCHANGED <<vars, restart_count, signals>>

\* Mutant: the wait has no timeout.
WaitForever ==
    /\ phase = "waiting" /\ pc \in Ended
    /\ phase' = "ended" /\ idle_stuck' = FALSE
    /\ UNCHANGED <<vars, restart_count, signals>>

\* Mutant: a worker that does not end in time is left alone.
WaitTimesOutOnly ==
    /\ phase = "waiting"
    /\ phase' = "ended" /\ idle_stuck' = FALSE
    /\ UNCHANGED <<vars, restart_count, signals>>

\* PROCESS_TIMEOUT_SECONDS have passed: whoever still runs is killed.
WaitTimesOut ==
    /\ phase = "waiting"
    /\ Killed
    /\ phase' = "ended"
    /\ idle_stuck' = FALSE
    /\ UNCHANGED <<restart_count, signals>>

\* exit_gracefully of GracefulKiller: executor.shutdown waits for every worker,
\* and sys.exit leaves the main thread wherever it was.
Interrupt ==
    /\ "parent" \in SupervisorFaults
    /\ phase \notin {"interrupted", "ended"}
    /\ phase' = "interrupted"
    /\ UNCHANGED <<vars, restart_count, idle_stuck, signals>>

InterruptGroup ==
    /\ "group" \in SupervisorFaults
    /\ phase \notin {"interrupted", "ended"}
    /\ phase' = "interrupted"
    /\ SignalWorkers
    /\ UNCHANGED <<restart_count, signals>>

Exit ==
    /\ phase = "interrupted" /\ pc \in Ended /\ ~idle_stuck
    /\ phase' = "ended"
    /\ UNCHANGED <<vars, restart_count, idle_stuck, signals>>

\* Nothing more to do, or everyone stuck.
SAllOver ==
    /\ \/ phase = "ended"
       \/ phase = "interrupted" /\ pc \in Ended
       \/ AllOver
    /\ UNCHANGED allVars

Supervise ==
    \/ Resubmit \/ GiveUp \/ LoopEnds \/ SubmitFails
    \/ Terminate \/ WaitEnds \/ WaitTimesOut \/ Exit

\* serve's own steps, but for the two that the supervisor's side has a part in.
Consume ==
    /\ Proceed \/ TimePasses \/ ConnectFails \/ HandlerFails
         \/ DeferFails \/ RetryFails \/ LoseConnection
    /\ UNCHANGED supervisor

\* Someone signals the worker that runs serve, and no other process.
SignalConsumer ==
    /\ Signal
    /\ signals' = signals + 1
    /\ UNCHANGED <<phase, restart_count, idle_stuck>>

\* The pool notices that the worker died and signals the others.
WorkerDies ==
    /\ Crash
    /\ idle_stuck' = TRUE
    /\ UNCHANGED <<phase, restart_count, signals>>

SNext ==
    \/ Supervise \/ Consume
    \/ SignalConsumer \/ WorkerDies \/ Interrupt \/ InterruptGroup
    \/ SAllOver

SSpec == SInit /\ [][SNext]_allVars

\* Both processes run, and time passes for the messages as for the timeouts.
FairSSpec ==
    /\ SSpec
    /\ WF_allVars(Supervise)
    /\ WF_allVars(Proceed /\ UNCHANGED supervisor)
    /\ WF_allVars(TimePasses /\ UNCHANGED supervisor)

-----------------------------------------------------------------------------
(* Properties *)

\* Types; restart_count stops where the loop does.
STypeOK ==
    /\ phase \in Phases
    /\ restart_count \in 0 .. 2 * RESTART_MAX_NUM - 1
    /\ idle_stuck \in BOOLEAN
    /\ signals \in Nat

\* Restarts are for what went wrong with the process: each connection, publication
\* or process that fails and each signal to the consumer costs at most one, and
\* the failures of handlers none.  (A message that does not parse costs all of
\* them; an unreachable broker ends the loop at once.)
RestartsHaveCauses ==
    malformed = {} =>
        restart_count <= mishaps + signals + (IF pc = "unreachable" THEN RESTART_MAX_NUM ELSE 0)

\* When the supervisor is gone, so is its consumer, and the broker has every
\* message it did not acknowledge ready for the next one.
NothingLeftBehind == phase = "ended" => pc \in Ended /\ abandoned = <<>>

\* A shutdown ends, whatever the handler does and whether or not the signal
\* reached the consumer, unless a signal interrupts it.
ShutdownEnds == phase \in {"delaying", "waiting"} ~> phase \in {"ended", "interrupted"}

\* A connection error while a retry was published left message m with a consumer
\* that goes on without it.
Parked(m) == \E n \in DOMAIN abandoned : abandoned[n].id = m

\* While the supervisor watches, every message that parses is handled or given up in
\* the end: deferring and retrying one does not starve the others, and the consumer is
\* started again as long as it must be.  Left out are a message that is parked, and
\* all of them once a signal came before the worker had its handler: it hangs then,
\* and the supervisor waits for it.
EveryMessageIsSettled ==
    \A m \in Ids :
        []<>(\/ m \in malformed \/ successes[m] > 0 \/ m \in given_up \/ Parked(m)
             \/ phase # "watching" \/ pc = "hung")
=============================================================================
