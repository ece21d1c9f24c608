-------------------------- MODULE SupervisorProofs ---------------------------
(***************************************************************************)
(* Theorems about Supervisor, for any sets of tasks.                       *)
(***************************************************************************)
EXTENDS Supervisor, TLAPS

\* What has to be true before the summary is written for it to tell the truth:
\* whatever set the stop event is known, and the flag that goes into the summary
\* follows what has happened.
Truthful ==
    /\ phase \in Shutdown \union {"exited"} => stop
    /\ stop => asked \/ raised \/ found
    /\ supervisor = "recording" => found
    /\ phase # "exited" => (clean <=> ~raised /\ ~found)
    /\ phase # "exited" => summary = "none"

IInv == TypeOK /\ NothingRunsOn /\ Truthful /\ CleanIffOnlyAsked

\* A step of the environment starts no task and settles nothing.
LEMMA EnvironmentKeeps == ASSUME IInv, Environment PROVE IInv'
  <1> USE DEF IInv, TypeOK, NothingRunsOn, Truthful, CleanIffOnlyAsked, Shutdown, history
  <1>1. CASE Signal
    BY <1>1 DEF Signal
  <1>2. CASE DatabaseChanges
    BY <1>2 DEF DatabaseChanges
  <1>3. ASSUME NEW t \in Tasks, TaskFails(t)
        PROVE  IInv'
    BY <1>3 DEF TaskFails
  <1>4. ASSUME NEW t \in Tasks, TaskReturns(t)
        PROVE  IInv'
    BY <1>4 DEF TaskReturns
  <1> QED BY <1>1, <1>2, <1>3, <1>4 DEF Environment

\* Tasks are only created before any shutdown.
LEMMA StartupKeeps == ASSUME IInv, Startup PROVE IInv'
  <1> USE DEF IInv, TypeOK, NothingRunsOn, Truthful, CleanIffOnlyAsked, Shutdown, history
  <1>1. CASE StartEarly
    BY <1>1 DEF StartEarly
  <1>2. CASE StartLate
    BY <1>2 DEF StartLate
  <1>3. CASE StartupFails
    BY <1>3 DEF StartupFails
  <1> QED BY <1>1, <1>2, <1>3 DEF Startup

\* The supervisor marks the session before it can fail.
LEMMA WatchKeeps == ASSUME IInv, Watch PROVE IInv'
  <1> USE DEF IInv, TypeOK, NothingRunsOn, Truthful, CleanIffOnlyAsked, Shutdown, history
  <1>1. CASE SupervisorFinds
    BY <1>1 DEF SupervisorFinds
  <1>2. CASE SupervisorRecords
    BY <1>2 DEF SupervisorRecords
  <1>3. CASE SupervisorReturns
    BY <1>3 DEF SupervisorReturns
  <1> QED BY <1>1, <1>2, <1>3 DEF Watch

\* The shutdown cancels every task before it goes on to the records.
LEMMA StoppingKeeps == ASSUME IInv, Stopping PROVE IInv'
  <1> USE DEF IInv, TypeOK, NothingRunsOn, Truthful, CleanIffOnlyAsked, Shutdown, history
  <1>1. CASE StopNoticed
    BY <1>1 DEF StopNoticed
  <1>2. CASE CloseStreams
    BY <1>2 DEF CloseStreams
  <1>3. CASE CancelTasks
    BY <1>3 DEF CancelTasks, Cancelled
  <1>4. CASE RecordStop
    <2>1. CASE database
      BY <1>4, <2>1 DEF RecordStop
    <2>2. CASE ~database
      BY <1>4, <2>2 DEF RecordStop
    <2> QED BY <2>1, <2>2
  <1>5. CASE Release
    BY <1>5 DEF Release
  <1> QED BY <1>1, <1>2, <1>3, <1>4, <1>5 DEF Stopping

\* IInv holds initially and is kept by every step.
LEMMA Invariance == Spec => []IInv
  <1>1. Init => IInv
    BY DEF Init, IInv, TypeOK, NothingRunsOn, Truthful, CleanIffOnlyAsked, Shutdown
  <1>2. IInv /\ [Next]_vars => IInv'
    <2>1. IInv /\ UNCHANGED vars => IInv'
      BY DEF vars, history, IInv, TypeOK, NothingRunsOn, Truthful, CleanIffOnlyAsked
    <2> QED BY <2>1, EnvironmentKeeps, StartupKeeps, WatchKeeps, StoppingKeeps DEF Next
  <1> QED BY <1>1, <1>2, PTL DEF Spec

\* The objects of the runtime are well formed in every reachable state.
THEOREM TypeCorrect == Spec => []TypeOK
  <1>1. IInv => TypeOK
    BY DEF IInv
  <1> QED BY Invariance, <1>1, PTL

\* However the process stops, no task of the runtime outlives the cancelling
\* step of _shutdown.
THEOREM TasksGone == Spec => []NothingRunsOn
  <1>1. IInv => NothingRunsOn
    BY DEF IInv
  <1> QED BY Invariance, <1>1, PTL

\* A summary calls the session clean when, and only when, it ended because of a
\* signal, with its startup done and no failed task found by the supervisor.
THEOREM SummaryTrue == Spec => []CleanIffOnlyAsked
  <1>1. IInv => CleanIffOnlyAsked
    BY DEF IInv
  <1> QED BY Invariance, <1>1, PTL

=============================================================================
