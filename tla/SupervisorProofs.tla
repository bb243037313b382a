-------------------------- MODULE SupervisorProofs --------------------------
(***************************************************************************)
(* Supervisor is correct for every queue of messages, every limit on       *)
(* restarts and every kind and number of failures: it leaves nothing       *)
(* behind, restarts the consumer for a cause each time, and whatever it    *)
(* does to the consumer leaves the consumer's own promises as they are.    *)
(***************************************************************************)
EXTENDS Supervisor, ConsumerBoundsProofs

\* Something has been charged for that will end the process, or has ended it.
Owed ==
    \/ pc \in Running /\ kill_now
    \/ pc \in Consuming \ {"connect"} /\ ~connected
    \/ pc \in {"returned", "raised", "killed"}

\* What a restart costs is paid before it is taken.
CausesInv ==
    malformed = {} =>
        /\ restart_count <=
             mishaps + signals + (IF pc = "unreachable" THEN RESTART_MAX_NUM ELSE 0)
        /\ phase = "watching" =>
             /\ Owed => restart_count < mishaps + signals
             /\ pc = "unreachable" =>
                  restart_count < mishaps + signals
                    + (IF restart_count >= RESTART_MAX_NUM THEN RESTART_MAX_NUM ELSE 0)

\* A process that has ended holds nothing, and the supervisor outlives it.
EndsInv ==
    /\ pc \in Ended => abandoned = <<>>
    /\ phase = "ended" => pc \in Ended

SInv == STypeOK /\ EndsInv /\ CausesInv

\* What a step of the supervised consumer can be.
LEMMA ConsumerSteps == [SNext]_allVars => [AnyStep]_vars
  BY DEF SNext, allVars, Supervise, Consume, Resubmit, GiveUp, LoopEnds, SubmitFails, Terminate,
         WaitEnds, WaitTimesOut, Exit, SignalConsumer, WorkerDies, Interrupt, InterruptGroup,
         SignalWorkers, WorkerSignalled, SAllOver, AnyStep, Next, Fail

\* The consumer's own steps cost the supervisor a restart only where something
\* failed: a step without a mishap leaves nothing owed that was not owed before.
LEMMA ConsumerPays ==
    ASSUME IInv, malformed = {}, Consume
    PROVE  /\ malformed' = {} /\ UNCHANGED <<phase, restart_count, signals>>
           /\ \/ mishaps' = mishaps + 1
              \/ mishaps' = mishaps /\ (Owed' => Owed) /\ (pc' = "unreachable" => pc = "unreachable")
           /\ pc = "unreachable" => pc' = "unreachable"
  <1>0. UNCHANGED <<phase, restart_count, signals>>
    BY DEF Consume, supervisor
  <1>1. CASE ConnectFails \/ DeferFails \/ RetryFails \/ LoseConnection
    <2>1. mishaps' = mishaps + 1 /\ malformed' = malformed
      BY <1>1 DEF ConnectFails, DeferFails, RetryFails, LoseConnection, Mishap, End, process
    <2>2. pc = "unreachable" => pc' = "unreachable"
      BY <1>1 DEF ConnectFails, DeferFails, RetryFails, LoseConnection
    <2> QED BY <1>0, <2>1, <2>2
  <1>2. CASE Proceed \/ TimePasses \/ HandlerFails
    <2>1. mishaps' = mishaps /\ malformed' = malformed
      BY <1>2 DEF Proceed, TimePasses, HandlerFails, Start, Connect, Loop, Stop, Subscribe, SubscribeFails,
                  Deliver, Delivery, DeliverMalformed, HandlerSucceeds, Republish, Ack, AckFails, NoticeLoss,
                  process
    <2>2. ~DeliverMalformed
      BY DEF DeliverMalformed
    <2>3. CASE Stop \/ SubscribeFails \/ AckFails \/ NoticeLoss
      <3>1. /\ Owed /\ pc # "unreachable" /\ pc' # "unreachable"
        BY <2>3 DEF Stop, SubscribeFails, AckFails, NoticeLoss, Owed, Running, Consuming, End
      <3> QED BY <1>0, <2>1, <3>1
    <2>4. CASE Start \/ Connect \/ Loop \/ Subscribe \/ Deliver \/ HandlerSucceeds \/ HandlerFails
                 \/ Republish \/ Ack
      <3>1. /\ pc \in Running /\ pc' \in Running \ {"start", "hung"} /\ kill_now' = kill_now
            /\ connected' = connected \/ connected'
            /\ pc = "start" => pc' = "connect"
            /\ pc = "connect" => connected'
            /\ pc # "hung"
        BY <2>4, Zenon DEF Start, Connect, Loop, Subscribe, Delivery, Deliver, HandlerSucceeds, HandlerFails,
                    AttemptFailed, Republish, Ack, Running, Consuming, process
      <3>2. pc # "unreachable" /\ pc' # "unreachable"
        BY <3>1 DEF Running, Consuming
      <3>3. Owed' => Owed
        BY <3>1 DEF Owed, Running, Consuming
      <3> QED BY <1>0, <2>1, <3>2, <3>3
    <2>5. CASE TimePasses
      <3>1. UNCHANGED <<pc, kill_now, connected>>
        BY <2>5 DEF TimePasses, process
      <3> QED BY <1>0, <2>1, <3>1 DEF Owed
    <2> QED BY <1>2, <2>2, <2>3, <2>4, <2>5 DEF Proceed
  <1> QED BY <1>1, <1>2 DEF Consume

\* The messages that do not parse are the same throughout.
LEMMA MalformedStays == [SNext]_allVars => malformed' = malformed
  <1>1. [AnyStep]_vars => malformed' = malformed
    BY DEF AnyStep, Next, vars, Proceed, Fail, Start, Connect, Loop, Stop, Subscribe, SubscribeFails,
           Deliver, Delivery, DeliverMalformed, HandlerFails, HandlerSucceeds, Republish, Ack, AckFails,
           NoticeLoss, ConnectFails, DeferFails, RetryFails, LoseConnection, Signal, ExitGracefully, SignalTooEarly,
           Crash, Killed, Restart, TimePasses, AllOver, process
  <1> QED BY <1>1, ConsumerSteps

\* Only what ends the process takes it out of its running.
LEMMA JustEnded ==
    ASSUME [SNext]_allVars, pc \notin Ended, pc' \in Ended
    PROVE  abandoned' = <<>>
  <1>1. [AnyStep]_vars
    BY ConsumerSteps
  <1> QED BY <1>1
      DEF AnyStep, Next, vars, Proceed, Fail, Start, Connect, Loop, Stop, Subscribe, SubscribeFails,
          Deliver, Delivery, DeliverMalformed, HandlerFails, HandlerSucceeds, AttemptFailed, Republish, Ack,
          AckFails, NoticeLoss, ConnectFails, DeferFails, RetryFails, LoseConnection, Signal,
          ExitGracefully, SignalTooEarly, Crash, Killed, Restart, TimePasses, AllOver, End, Ended

\* A process that has ended does nothing more.
LEMMA OnlyResubmitted ==
    ASSUME [SNext]_allVars, pc \in Ended, ~Resubmit
    PROVE  pc' = pc
  BY DEF SNext, Supervise, GiveUp, LoopEnds, SubmitFails, Terminate, WaitEnds, WaitTimesOut, Exit,
         Interrupt, InterruptGroup, SignalWorkers, WorkerSignalled, SignalConsumer, WorkerDies,
         SAllOver, allVars, vars, Consume, Proceed, Start, Connect, Loop, Stop, Subscribe,
         SubscribeFails, Delivery, Deliver, DeliverMalformed, HandlerFails, HandlerSucceeds,
         Republish, Ack, AckFails, NoticeLoss, ConnectFails, DeferFails, RetryFails,
         LoseConnection, Signal, ExitGracefully, SignalTooEarly, Crash, Killed, TimePasses,
         Running, Consuming, Ended

\* Nor does anything come to it.
LEMMA StillEnded ==
    ASSUME [SNext]_allVars, pc \in Ended, pc' \in Ended
    PROVE  UNCHANGED abandoned
  BY DEF SNext, Supervise, Resubmit, Restart, GiveUp, LoopEnds, SubmitFails, Terminate, WaitEnds,
         WaitTimesOut, Exit,
         Interrupt, InterruptGroup, SignalWorkers, WorkerSignalled, SignalConsumer, WorkerDies,
         SAllOver, allVars, vars, Consume, Proceed, Start, Connect, Loop, Stop, Subscribe,
         SubscribeFails, Delivery, Deliver, DeliverMalformed, HandlerFails, HandlerSucceeds,
         Republish, Ack, AckFails, NoticeLoss, ConnectFails, DeferFails, RetryFails,
         LoseConnection, Signal, ExitGracefully, SignalTooEarly, Crash, Killed, TimePasses,
         Running, Consuming, Ended

\* Every step keeps what a restart costs paid for.
LEMMA CausesStep ==
    ASSUME IInv, IInv', STypeOK, CausesInv, [SNext]_allVars
    PROVE  CausesInv'
  <1> SUFFICES ASSUME malformed' = {} PROVE CausesInv'
    BY DEF CausesInv
  <1>0. malformed = {}
    BY MalformedStays
  <1> DEFINE R == RESTART_MAX_NUM
  <1>1. /\ restart_count <= mishaps + signals + (IF pc = "unreachable" THEN R ELSE 0)
        /\ phase = "watching" =>
             /\ Owed => restart_count < mishaps + signals
             /\ pc = "unreachable" =>
                  restart_count < mishaps + signals + (IF restart_count >= R THEN R ELSE 0)
    BY <1>0 DEF CausesInv
  <1>2. restart_count \in Nat /\ mishaps \in Nat /\ signals \in Nat /\ R \in Nat
    BY SupervisorAssumption DEF STypeOK, IInv, TypeOK
  <1>3. CASE Consume
    <2>1. /\ malformed' = {} /\ UNCHANGED <<phase, restart_count, signals>>
          /\ \/ mishaps' = mishaps + 1
             \/ mishaps' = mishaps /\ (Owed' => Owed) /\ (pc' = "unreachable" => pc = "unreachable")
          /\ pc = "unreachable" => pc' = "unreachable"
      BY <1>0, <1>3, ConsumerPays
    <2>2. CASE mishaps' = mishaps + 1
      <3>1. Owed' => pc # "unreachable"
        BY <2>1 DEF Owed, Running, Consuming
      <3>2. pc # "unreachable" => restart_count < (mishaps + 1) + signals
        BY <1>1, <1>2
      <3>3. restart_count <=
               (mishaps + 1) + signals + (IF pc' = "unreachable" THEN R ELSE 0)
        BY <1>1, <1>2, <2>1
      <3>4. phase = "watching" /\ pc = "unreachable" =>
              restart_count < (mishaps + 1) + signals + (IF restart_count >= R THEN R ELSE 0)
        BY <1>1, <1>2
      <3>5. pc # "unreachable" =>
              restart_count < (mishaps + 1) + signals + (IF restart_count >= R THEN R ELSE 0)
        BY <1>2, <3>2
      <3> QED BY <2>1, <2>2, <3>1, <3>2, <3>3, <3>4, <3>5 DEF CausesInv
    <2>3. CASE mishaps' = mishaps /\ (Owed' => Owed) /\ (pc' = "unreachable" => pc = "unreachable")
      BY <1>1, <1>2, <2>1, <2>3 DEF CausesInv
    <2> QED BY <2>1, <2>2, <2>3
  <1>4. CASE Resubmit
    <2>1. /\ pc \in {"returned", "raised"} /\ phase = "watching" /\ pc' = "start" /\ kill_now' = FALSE
          /\ restart_count' = restart_count + 1 /\ UNCHANGED <<phase, signals, mishaps>>
      BY <1>4 DEF Resubmit, Restart
    <2>2. Owed /\ ~Owed'
      BY <2>1 DEF Owed, Consuming
    <2> QED BY <1>1, <1>2, <2>1, <2>2 DEF CausesInv
  <1>5. CASE GiveUp
    <2>1. /\ pc = "unreachable" /\ pc' = "unreachable" /\ restart_count < R
          /\ phase = "watching" /\ restart_count' = restart_count + R
          /\ UNCHANGED <<phase, signals, mishaps>>
      BY <1>5 DEF GiveUp, vars
    <2>2. ~Owed'
      BY <2>1 DEF Owed, Running, Consuming
    <2> QED BY <1>1, <1>2, <2>1, <2>2 DEF CausesInv
  <1>6. CASE LoopEnds \/ SubmitFails \/ Terminate \/ WaitEnds \/ WaitTimesOut \/ Exit
               \/ Interrupt \/ InterruptGroup
    <2>1. /\ phase' # "watching" /\ UNCHANGED <<restart_count, signals>>
          /\ mishaps' \in {mishaps, mishaps + 1} /\ (pc = "unreachable" => pc' = "unreachable")
      BY <1>6 DEF LoopEnds, SubmitFails, Terminate, WaitEnds, WaitTimesOut, Exit, Interrupt,
                  InterruptGroup, SignalWorkers, WorkerSignalled, ExitGracefully, SignalTooEarly,
                  Killed, Running, Consuming, vars
    <2>2. restart_count <= mishaps' + signals + (IF pc' = "unreachable" THEN R ELSE 0)
      <3>1. CASE mishaps' = mishaps
        BY <1>1, <1>2, <2>1, <3>1
      <3>2. CASE mishaps' = mishaps + 1
        BY <1>1, <1>2, <2>1, <3>2
      <3> QED BY <2>1, <3>1, <3>2
    <2> QED BY <2>1, <2>2 DEF CausesInv
  <1>7. CASE SignalConsumer \/ WorkerDies
    <2>1. /\ UNCHANGED <<phase, restart_count>>
          /\ \/ signals' = signals + 1 /\ mishaps' = mishaps
             \/ signals' = signals /\ mishaps' = mishaps + 1
          /\ pc \in Running
      BY <1>7 DEF SignalConsumer, Signal, WorkerDies, Crash, Mishap, Killed, ExitGracefully,
                  SignalTooEarly, Running
    <2>2. pc # "unreachable" /\ pc' # "unreachable"
      BY <1>7, <2>1 DEF SignalConsumer, Signal, ExitGracefully, SignalTooEarly, WorkerDies, Crash, Killed, End, Running, Consuming
    <2> QED BY <1>1, <1>2, <2>1, <2>2 DEF CausesInv
  <1>8. CASE UNCHANGED allVars
    <2>1. UNCHANGED <<pc, kill_now, connected, mishaps, phase, restart_count, signals>>
      BY <1>8 DEF allVars, vars, process, supervisor
    <2> QED BY <1>1, <2>1 DEF CausesInv, Owed
  <1> QED BY <1>3, <1>4, <1>5, <1>6, <1>7, <1>8 DEF SNext, Supervise, SAllOver

\* And leaves nothing behind.
LEMMA EndsStep ==
    ASSUME STypeOK, EndsInv, IInv, IInv', [SNext]_allVars
    PROVE  EndsInv'
  <1>1. ASSUME pc' \in Ended PROVE abandoned' = <<>>
    <2>1. CASE pc \in Ended
      <3>1. UNCHANGED abandoned
        BY <1>1, <2>1, StillEnded
      <3> QED BY <2>1, <3>1 DEF EndsInv
    <2>2. CASE pc \notin Ended
      BY <1>1, <2>2, JustEnded
    <2> QED BY <2>1, <2>2
  <1>2. ASSUME phase' = "ended" PROVE pc' \in Ended
    <2>1. CASE phase = "ended"
      <3>1. pc \in Ended
        BY <2>1 DEF EndsInv
      <3>2. ~Resubmit
        BY <2>1 DEF Resubmit
      <3> QED BY <3>1, <3>2, OnlyResubmitted
    <2>2. CASE phase # "ended"
      <3>1. WaitEnds \/ WaitTimesOut \/ Exit
        BY <1>2, <2>2 DEF SNext, Supervise, Consume, SignalConsumer, WorkerDies, Interrupt,
             InterruptGroup, SAllOver, Resubmit, GiveUp, LoopEnds, SubmitFails, Terminate,
             allVars, supervisor
      <3> QED BY <3>1 DEF WaitEnds, WaitTimesOut, Exit, Killed, End, Ended, vars
    <2> QED BY <2>1, <2>2
  <1> QED BY <1>1, <1>2 DEF EndsInv

\* The supervisor's types after a step.
LEMMA SupervisorTypes ==
    ASSUME STypeOK, [SNext]_allVars
    PROVE  STypeOK'
  <1> DEFINE R == RESTART_MAX_NUM
  <1>1. R \in Nat \ {0} /\ restart_count \in 0 .. 2 * R - 1 /\ signals \in Nat
        /\ phase \in Phases /\ idle_stuck \in BOOLEAN
    BY SupervisorAssumption, Zenon DEF STypeOK
  <1>2. /\ phase' \in Phases
        /\ \/ UNCHANGED restart_count
           \/ restart_count < R /\ restart_count' = restart_count + 1
           \/ restart_count < R /\ restart_count' = restart_count + R
        /\ signals' \in {signals, signals + 1}
    BY <1>1 DEF SNext, Supervise, Resubmit, GiveUp, LoopEnds, SubmitFails, Terminate, WaitEnds,
         WaitTimesOut, Exit, Interrupt, InterruptGroup, SignalConsumer, WorkerDies, SAllOver,
         Consume, allVars, supervisor, Phases
  <1>3. idle_stuck' = idle_stuck \/ idle_stuck' = TRUE \/ idle_stuck' = FALSE
    BY DEF SNext, Supervise, Resubmit, GiveUp, LoopEnds, SubmitFails, Terminate, WaitEnds,
         WaitTimesOut, Exit, Interrupt, InterruptGroup, SignalWorkers, WorkerSignalled, SignalConsumer, WorkerDies,
         SAllOver, Consume, allVars, supervisor
  <1>4. idle_stuck' \in BOOLEAN
    BY <1>1, <1>3, Zenon
  <1>5. restart_count' \in 0 .. 2 * R - 1 /\ signals' \in Nat
    BY <1>1, <1>2
  <1> QED BY <1>2, <1>4, <1>5, Zenon DEF STypeOK

\* The invariant of the consumer under its supervisor, and of the supervisor.
THEOREM SupervisedInvariant == SSpec => [](IInv /\ BoundsInv /\ SInv)
  <1>1. SInit => IInv /\ BoundsInv /\ SInv
    <2> SUFFICES ASSUME SInit PROVE IInv /\ BoundsInv /\ SInv
      OBVIOUS
    <2>1. Init /\ IInv /\ BoundsInv
      BY InitInvariant, BoundsInit DEF SInit
    <2>2. pc = "start" /\ kill_now = FALSE /\ mishaps = 0
      BY <2>1 DEF Init
    <2>3. phase = "watching" /\ restart_count = 0 /\ idle_stuck = FALSE /\ signals = 0
      BY DEF SInit
    <2>4. RESTART_MAX_NUM \in Nat \ {0}
      BY SupervisorAssumption
    <2>5. restart_count \in 0 .. 2 * RESTART_MAX_NUM - 1 /\ signals \in Nat
      BY <2>3, <2>4
    <2>6. STypeOK
      BY <2>3, <2>5 DEF STypeOK, Phases
    <2>7. EndsInv
      BY <2>2, <2>3 DEF EndsInv, Ended
    <2>8. CausesInv
      BY <2>2, <2>3 DEF CausesInv, Owed, Consuming
    <2> QED BY <2>1, <2>6, <2>7, <2>8 DEF SInv
  <1>2. IInv /\ BoundsInv /\ SInv /\ [SNext]_allVars => (IInv /\ BoundsInv /\ SInv)'
    <2> SUFFICES ASSUME IInv, BoundsInv, SInv, [SNext]_allVars PROVE (IInv /\ BoundsInv /\ SInv)'
      OBVIOUS
    <2>1. IInv' /\ BoundsInv'
      BY ConsumerSteps, StepInvariant, BoundsStep
    <2>2. STypeOK /\ EndsInv /\ CausesInv
      BY DEF SInv
    <2>3. STypeOK' /\ EndsInv' /\ CausesInv'
      BY <2>1, <2>2, SupervisorTypes, EndsStep, CausesStep
    <2> QED BY <2>1, <2>3 DEF SInv
  <1> QED BY <1>1, <1>2, PTL DEF SSpec

\* The supervisor's state keeps its types, and restart_count stops where its loop does.
THEOREM SupervisorTypeCorrect == SSpec => []STypeOK
  <1>1. SInv => STypeOK
    BY DEF SInv
  <1> QED BY <1>1, SupervisedInvariant, PTL

\* The consumer is restarted for a cause each time: a connection, a publication or a
\* process that failed, or a signal to the consumer, and never for a handler's failure.
THEOREM RestartsAlwaysHaveCauses == SSpec => []RestartsHaveCauses
  <1>1. SInv => RestartsHaveCauses
    BY DEF SInv, CausesInv, RestartsHaveCauses
  <1> QED BY <1>1, SupervisedInvariant, PTL

\* Once the supervisor is gone, so is its consumer, and the broker has what it did
\* not acknowledge.
THEOREM NothingEverLeftBehind == SSpec => []NothingLeftBehind
  <1>1. SInv => NothingLeftBehind
    BY DEF SInv, EndsInv, NothingLeftBehind
  <1> QED BY <1>1, SupervisedInvariant, PTL

\* A supervisor that restarts the consumer, signals it and kills it makes it lose no
\* message.
THEOREM NothingLostUnderSupervision == SSpec => []NoMessageIsLost
  <1>1. IInv => NoMessageIsLost
    BY DEF IInv
  <1> QED BY <1>1, SupervisedInvariant, PTL

\* Nor does it handle one, or try one, more often than its mishaps allow, the kills of a
\* shutdown included among them.
THEOREM BoundedUnderSupervision == SSpec => [](RepetitionsAreBounded /\ AttemptsAreBounded)
  <1>1. IInv /\ BoundsInv => RepetitionsAreBounded /\ AttemptsAreBounded
    BY RepetitionsBounded, AttemptsBounded
  <1> QED BY <1>1, SupervisedInvariant, PTL

\* Supervised, the consumer still implements AtLeastOnce.
THEOREM SupervisedImplementsAtLeastOnce == SSpec => DeliversAtLeastOnce
  <1>1. SInit => Promise!Init
    BY InitInvariant DEF SInit
  <1>2. IInv /\ [SNext]_allVars => [Promise!Next]_(Promise!promised)
    BY ConsumerSteps, StepInvariant DEF Simulated
  <1> QED BY <1>1, <1>2, SupervisedInvariant, PTL DEF SSpec, DeliversAtLeastOnce, Promise!Spec
=============================================================================
