----------------------------- MODULE Supervisor -----------------------------
(***************************************************************************)
(* The life of the runtime process: _startup creates the tasks, run waits  *)
(* for the stop event, _task_supervisor sets it when a task has failed,    *)
(* _shutdown cancels the tasks, writes the last records and closes the     *)
(* clients.  Signals, task failures and an unreachable ledger come at any  *)
(* suspension.                                                             *)
(*                                                                         *)
(* A ledger write raises while the database of a configured Postgres DSN   *)
(* is unreachable; without a DSN the database is as good as always there.  *)
(* The drill, which runs once and returns by itself, is not among the      *)
(* tasks; when a transport error ends it, it is like any failed task of    *)
(* Late.                                                                   *)
(***************************************************************************)
CONSTANTS
    Early,     \* tasks created before the warmup (portfolio refresh, reconcile)
    Late       \* tasks created after it

ASSUME TasksAssumption == Early \intersect Late = {}

Tasks == Early \union Late

VARIABLES
    phase,       \* where run() is
    task,        \* task[t]: its asyncio state
    supervisor,  \* _task_supervisor
    stop,        \* _stop_event
    clean,       \* _session_ended_cleanly
    database,    \* the database answers
    client,      \* the REST client is open
    raised,      \* an exception is on its way out of run()
    summary,     \* session_ended_cleanly as written to the summary
    asked,       \* history: a signal came while nothing had stopped the runtime
    found        \* history: the supervisor found a failed task

\* What has happened, which no action reads.
history == <<asked, found>>

vars == <<phase, task, supervisor, stop, clean, database, client, raised, summary, history>>

\* "closing": websocket clients; "cancelling": tasks cancelled and gathered;
\* "recording": runtime_stop; "releasing": session summary, REST client, store.
Shutdown == {"closing", "cancelling", "recording", "releasing"}

TypeOK ==
    /\ phase \in {"starting", "warmup", "running", "exited"} \union Shutdown
    /\ task \in [Tasks -> {"none", "running", "failed", "done", "cancelled"}]
    /\ supervisor \in {"none", "polling", "recording", "failed", "done", "cancelled"}
    /\ stop \in BOOLEAN /\ clean \in BOOLEAN /\ database \in BOOLEAN
    /\ client \in BOOLEAN /\ raised \in BOOLEAN
    /\ asked \in BOOLEAN /\ found \in BOOLEAN
    /\ summary \in {"none", "clean", "unclean"}

Init ==
    /\ phase = "starting"
    /\ task = [t \in Tasks |-> "none"]
    /\ supervisor = "none"
    /\ stop = FALSE
    /\ clean = TRUE
    /\ database = TRUE
    /\ client = TRUE
    /\ raised = FALSE
    /\ summary = "none"
    /\ asked = FALSE
    /\ found = FALSE

-----------------------------------------------------------------------------
(***************************************************************************)
(* The environment.                                                        *)
(***************************************************************************)

\* SIGTERM or SIGINT: the handler calls stop().
Signal ==
    /\ phase # "exited"
    /\ ~stop
    /\ stop' = TRUE
    /\ asked' = TRUE
    /\ UNCHANGED <<phase, task, supervisor, clean, database, client, raised, summary, found>>

\* The database goes away or comes back (external).
DatabaseChanges ==
    /\ phase # "exited"
    /\ database' = ~database
    /\ UNCHANGED <<phase, task, supervisor, stop, clean, client, raised, summary, history>>

\* A task raises: a transport error of a REST call, a ledger write, a bug.
TaskFails(t) ==
    /\ task[t] = "running"
    /\ task' = [task EXCEPT ![t] = "failed"]
    /\ UNCHANGED <<phase, supervisor, stop, clean, database, client, raised, summary, history>>

\* A loop sees the stop event and returns.
TaskReturns(t) ==
    /\ task[t] = "running"
    /\ stop
    /\ task' = [task EXCEPT ![t] = "done"]
    /\ UNCHANGED <<phase, supervisor, stop, clean, database, client, raised, summary, history>>

-----------------------------------------------------------------------------
(***************************************************************************)
(* _startup and run.                                                       *)
(***************************************************************************)

\* Server time, runtime_start record, refresh and inspection are over.
StartEarly ==
    /\ phase = "starting"
    /\ phase' = "warmup"
    /\ task' = [t \in Tasks |-> IF t \in Early THEN "running" ELSE "none"]
    /\ UNCHANGED <<supervisor, stop, clean, database, client, raised, summary, history>>

\* The warmup is over; what follows does not suspend.
StartLate ==
    /\ phase = "warmup"
    /\ phase' = "running"
    /\ task' = [t \in Tasks |-> IF t \in Late THEN "running" ELSE task[t]]
    /\ supervisor' = "polling"
    /\ UNCHANGED <<stop, clean, database, client, raised, summary, history>>

\* Any statement of _startup raises: it shuts down what it has started.
StartupFails ==
    /\ phase \in {"starting", "warmup"}
    /\ phase' = "closing"
    /\ clean' = FALSE
    /\ raised' = TRUE
    /\ stop' = TRUE
    /\ UNCHANGED <<task, supervisor, database, client, summary, history>>

\* Mutant of StopNoticed: waits for the supervisor.
StopNoticedLate ==
    /\ phase = "running"
    /\ supervisor = "done"
    /\ phase' = "closing"
    /\ UNCHANGED <<task, supervisor, stop, clean, database, client, raised, summary, history>>

\* run: the stop event is set.
StopNoticed ==
    /\ phase = "running"
    /\ stop
    /\ phase' = "closing"
    /\ UNCHANGED <<task, supervisor, stop, clean, database, client, raised, summary, history>>

-----------------------------------------------------------------------------
(***************************************************************************)
(* _task_supervisor.                                                       *)
(***************************************************************************)

\* Mutant of SupervisorFinds: looks at the tasks it was started with.
SupervisorFindsLate ==
    /\ supervisor = "polling"
    /\ ~stop
    /\ \E t \in Late : task[t] = "failed"
    /\ clean' = FALSE
    /\ supervisor' = "recording"
    /\ found' = TRUE
    /\ UNCHANGED <<phase, task, stop, database, client, raised, summary, asked>>

\* Mutant of SupervisorFinds: leaves the mark to what follows the record.
SupervisorFindsUnmarked ==
    /\ supervisor = "polling"
    /\ ~stop
    /\ \E t \in Tasks : task[t] = "failed"
    /\ supervisor' = "recording"
    /\ found' = TRUE
    /\ UNCHANGED <<phase, task, stop, clean, database, client, raised, summary, asked>>

\* Every 0.5 s: the first failed task is found, the session marked, and its
\* record written.
SupervisorFinds ==
    /\ supervisor = "polling"
    /\ ~stop
    /\ \E t \in Tasks : task[t] = "failed"
    /\ clean' = FALSE
    /\ supervisor' = "recording"
    /\ found' = TRUE
    /\ UNCHANGED <<phase, task, stop, database, client, raised, summary, asked>>

\* The record is written before the stop event is set; when that raises, the
\* supervisor is gone and nobody looks at it.
SupervisorRecords ==
    /\ supervisor = "recording"
    /\ \/ database /\ supervisor' = "done" /\ stop' = TRUE
       \/ ~database /\ supervisor' = "failed" /\ UNCHANGED stop
    /\ UNCHANGED <<phase, task, clean, database, client, raised, summary, history>>

SupervisorReturns ==
    /\ supervisor = "polling"
    /\ stop
    /\ supervisor' = "done"
    /\ UNCHANGED <<phase, task, stop, clean, database, client, raised, summary, history>>

-----------------------------------------------------------------------------
(***************************************************************************)
(* _shutdown.                                                              *)
(***************************************************************************)

\* Both websocket clients are closed.
CloseStreams ==
    /\ phase = "closing"
    /\ phase' = "cancelling"
    /\ UNCHANGED <<task, supervisor, stop, clean, database, client, raised, summary, history>>

\* Mutant of Cancelled: leaves the supervisor to its record.
CancelledPolling(state) == IF state \in {"running", "polling"} THEN "cancelled" ELSE state

\* task.cancel() of a task that is not done.
Cancelled(state) == IF state \in {"running", "polling", "recording"} THEN "cancelled" ELSE state

\* The tasks are cancelled and gathered; their exceptions are dropped.
CancelTasks ==
    /\ phase = "cancelling"
    /\ phase' = "recording"
    /\ task' = [t \in Tasks |-> Cancelled(task[t])]
    /\ supervisor' = Cancelled(supervisor)
    /\ UNCHANGED <<stop, clean, database, client, raised, summary, history>>

\* The runtime_stop record; when it raises, nothing after it happens.
RecordStop ==
    /\ phase = "recording"
    /\ \/ /\ database
          /\ phase' = "releasing"
          /\ UNCHANGED raised
       \/ /\ ~database
          /\ phase' = "exited"
          /\ raised' = TRUE
    /\ UNCHANGED <<task, supervisor, stop, clean, database, client, summary, history>>

\* The session summary is written, REST client and store are closed.
Release ==
    /\ phase = "releasing"
    /\ phase' = "exited"
    /\ summary' = IF clean THEN "clean" ELSE "unclean"
    /\ client' = FALSE
    /\ UNCHANGED <<task, supervisor, stop, clean, database, raised, history>>

-----------------------------------------------------------------------------
Environment ==
    \/ Signal
    \/ DatabaseChanges
    \/ \E t \in Tasks : TaskFails(t) \/ TaskReturns(t)

Startup == StartEarly \/ StartLate \/ StartupFails

Watch == SupervisorFinds \/ SupervisorRecords \/ SupervisorReturns

Stopping == StopNoticed \/ CloseStreams \/ CancelTasks \/ RecordStop \/ Release

Next == Environment \/ Startup \/ Watch \/ Stopping

Spec == Init /\ [][Next]_vars

\* The event loop serves every coroutine that can go on.
FairSpec == Spec /\ WF_vars(Startup) /\ WF_vars(Watch) /\ WF_vars(Stopping)

-----------------------------------------------------------------------------
(***************************************************************************)
(* Properties.                                                             *)
(***************************************************************************)

\* The REST client and the ledger are never taken away from a task: when
\* _shutdown has gathered the tasks none runs any more, even when a startup
\* that failed half way shuts down what it had created.  (The reader and ping
\* tasks that the websocket clients create are not the runtime's to gather.)
NothingRunsOn ==
    phase \in {"recording", "releasing", "exited"} =>
        /\ \A t \in Tasks : task[t] # "running"
        /\ supervisor \notin {"polling", "recording"}

\* The summary of a session calls it clean exactly when it ended only because
\* it was asked to: a signal came, the startup did not fail, and the supervisor
\* found no failed task, whether or not the record of one could be written and
\* whichever of signal and failure came first.  (A task that fails after the
\* stop, or so shortly before it that the supervisor does not look again, is
\* not found.)
CleanIffOnlyAsked ==
    summary # "none" => (summary = "clean" <=> asked /\ ~raised /\ ~found)

\* A stop that was asked for or decided is never forgotten, whatever fails on
\* the way out and wherever the startup is.
StopEnds == stop ~> phase = "exited"

\* A failed task ends the runtime, unless the supervisor ends on its record.
FailureNoticed ==
    (\E t \in Tasks : task[t] = "failed") ~> (phase = "exited" \/ supervisor = "failed")

=============================================================================
