----------------------------- MODULE RunControl -----------------------------
(***************************************************************************)
(* How the web server runs diagnostics: netdiag_core/server/state.py       *)
(* (RunState.run_diag, the worker thread), routes_diag.py (POST /api/run,  *)
(* POST /api/stop, GET /api/status) and the --daemon loop of app.py.       *)
(*                                                                         *)
(* An action is one critical section, or one access to shared state that   *)
(* no lock protects.  A run is one call of full_diagnostic; what it probes *)
(* is the subject of module Diagnostic.  The tool that calls it from the   *)
(* Tools tab (tools_menu.py:280-322) does not touch this state, and is a   *)
(* job of module ToolRunner.  The daemon loop takes a lock of its own      *)
(* (current_run["_lock"]) which nobody else ever takes, so that lock does  *)
(* not appear here: it excludes nobody.                                    *)
(***************************************************************************)
CONSTANTS
    Runs,      \* the runs there can be: bounds how often a run is started
    Stoppers,  \* request threads that may serve POST /api/stop at once
    Faults,    \* which operations may raise, a subset of FaultKinds
    Daemon,    \* whether the server was started with --daemon
    None       \* no run

\* "args": the body of POST /api/run breaks the argument parsing;
\* "probe": full_diagnostic raises; "save": save_history raises.
FaultKinds == {"args", "probe", "save"}

ASSUME RunControlAssumption ==
    /\ None \notin Runs
    /\ Faults \subseteq FaultKinds
    /\ Daemon \in BOOLEAN

VARIABLES
    status,     \* current_run["status"]
    results,    \* current_run["results"]: the run whose report it is, or None
    error,      \* whether current_run["error"] is set
    progress,   \* the runs with entries in current_run["progress"]
    lock,       \* the worker that holds state.lock across a step, or None
    stopEvent,  \* state.stop_event
    owner,      \* which thread executes the run
    phase,      \* how far the run has come
    report,     \* what full_diagnostic returned to it
    samples,    \* the runs whose report still holds its ping samples
    history,    \* the session file of the run
    stopper,    \* POST /api/stop handlers: the runs active when it began
    daemon,     \* the daemon loop
    asked       \* history variable: whether a stop reached the run, and whether it
                \* began during that run, during another ("stale") or during none

shown == <<status, results, error, progress>>
vars == <<shown, lock, stopEvent, owner, phase, report, samples, history,
          stopper, daemon, asked>>

Phases == {"unused", "claimed", "dropped", "started", "probing", "returned",
           "saving", "failing", "ended"}

\* The run a handler or the loop has claimed and whose thread has yet to end.
Active(r) == phase[r] \in {"claimed", "started", "probing", "returned", "failing"}
Idle == [at |-> "idle", saw |-> {}]

TypeOK ==
    /\ status \in {"idle", "running", "done", "stopped", "error"}
    /\ results \in Runs \union {None}
    /\ error \in BOOLEAN
    /\ progress \in SUBSET Runs
    /\ lock \in Runs \union {None}
    /\ stopEvent \in BOOLEAN
    /\ owner \in [Runs -> {"nobody", "gui", "daemon"}]
    /\ phase \in [Runs -> Phases]
    /\ report \in [Runs -> {"none", "full", "partial"}]
    /\ samples \in SUBSET Runs
    /\ history \in [Runs -> {"none", "whole", "stripped"}]
    /\ stopper \in [Stoppers -> [at : {"idle", "armed"}, saw : SUBSET Runs]]
    /\ daemon \in {"asleep", "sawIdle", "busy"}
    /\ asked \in [Runs -> {"no", "early", "stale", "yes"}]

Init ==
    /\ status = "idle" /\ results = None /\ error = FALSE /\ progress = {}
    /\ lock = None /\ stopEvent = FALSE
    /\ owner = [r \in Runs |-> "nobody"]
    /\ phase = [r \in Runs |-> "unused"]
    /\ report = [r \in Runs |-> "none"]
    /\ samples = Runs
    /\ history = [r \in Runs |-> "none"]
    /\ stopper = [s \in Stoppers |-> Idle]
    /\ daemon = "asleep"
    /\ asked = [r \in Runs |-> "no"]

Goto(r, p) == phase' = [phase EXCEPT ![r] = p]

-----------------------------------------------------------------------------
(* The pieces of the critical sections.  A definition that follows the      *)
(* comment "Mutant:" is the next one with a bug; no action uses it.         *)

\* Mutant: the busy check is dropped.
NotRunningDropped == TRUE
\* The busy check of a claim.
NotRunning == status # "running"

\* Mutant: the progress of the last run is kept.
ResetRunKeepsProgress ==
    status' = "running" /\ results' = None /\ error' = FALSE /\ UNCHANGED progress
\* Mutant: the report of the last run is kept.
ResetRunKeepsResults ==
    status' = "running" /\ progress' = {} /\ error' = FALSE /\ UNCHANGED results
\* Both the claim and run_diag reset the run state.
ResetRun == status' = "running" /\ progress' = {} /\ results' = None /\ error' = FALSE

\* Mutant: the stop flag is never reset.
ClearStopForgotten == UNCHANGED stopEvent
ClearStop == stopEvent' = FALSE

\* Mutant: the thread is made but not started.
LaunchForgotten(r) == Goto(r, "claimed")
Launch(r) == Goto(r, "started")

\* Mutant: run_diag has no except clause.
RaisedUncaught(r) == Goto(r, "ended")
\* An exception unwinds full_diagnostic and waits for the error handler.
Raised(r) == Goto(r, "failing")

\* state.lock is free, or r runs in the daemon loop, which does not take it.
MayEnter(r) == owner[r] = "daemon" \/ lock = None

\* Mutant: a status no client knows.
FinalStatusUnknown(r) == IF report[r] = "partial" THEN "interrupted" ELSE "done"
\* The daemon loop ignores "interrupted"; it cannot be stopped anyway.
FinalStatus(r) == IF owner[r] = "gui" /\ report[r] = "partial" THEN "stopped" ELSE "done"

\* Mutant: the session file is written after the lock is released.
HoldNot(r) == UNCHANGED lock
Hold(r) == lock' = IF owner[r] = "gui" THEN r ELSE lock

\* Mutant: an exception leaves the lock taken.
ReleaseForgotten(r) == UNCHANGED lock
Release(r) == lock' = IF owner[r] = "gui" THEN None ELSE lock

\* The daemon loop sleeps when its run is over.
Rest(r) == daemon' = IF owner[r] = "daemon" THEN "asleep" ELSE daemon

-----------------------------------------------------------------------------
(* POST /api/run.  The handler is a coroutine without an await after the    *)
(* body is read, so two requests never overlap; a thread may run between    *)
(* the claim and the start of the worker.                                   *)

\* The claim.  A request that finds "running" is answered "already running".
AcceptRun(r) ==
    /\ phase[r] = "unused" /\ \A q \in Runs : phase[q] # "claimed"
    /\ lock = None /\ NotRunning
    /\ ResetRun /\ ClearStop
    /\ owner' = [owner EXCEPT ![r] = "gui"] /\ Goto(r, "claimed")
    /\ UNCHANGED <<lock, report, samples, history, stopper, daemon, asked>>

\* The arguments are read after the lock is released: a body that is not an
\* object, or a count that int() refuses, raises and the server answers 500.
DropRun(r) ==
    /\ phase[r] = "claimed" /\ "args" \in Faults
    /\ Goto(r, "dropped")
    /\ UNCHANGED <<shown, lock, stopEvent, owner, report, samples, history,
                   stopper, daemon, asked>>

StartRun(r) ==
    /\ phase[r] = "claimed"
    /\ Launch(r)
    /\ UNCHANGED <<shown, lock, stopEvent, owner, report, samples, history,
                   stopper, daemon, asked>>

-----------------------------------------------------------------------------
(* The thread that executes a run: run_diag, or the body of daemon_loop.    *)

\* run_diag resets the run state a second time, without the lock.
BeginRun(r) ==
    /\ phase[r] = "started"
    /\ ResetRun /\ Goto(r, "probing")
    /\ UNCHANGED <<lock, stopEvent, owner, report, samples, history, stopper,
                   daemon, asked>>

\* The progress callback, called by every probe.
Progress(r) ==
    /\ phase[r] = "probing" /\ MayEnter(r)
    /\ progress' = progress \union {r}
    /\ UNCHANGED <<status, results, error, lock, stopEvent, owner, phase, report,
                   samples, history, stopper, daemon, asked>>

\* full_diagnostic returns a partial report.  The worker polls the flag in the
\* callback and between probes; the daemon loop passes no should_stop.
Interrupt(r) ==
    /\ phase[r] = "probing" /\ owner[r] = "gui" /\ stopEvent
    /\ report' = [report EXCEPT ![r] = "partial"] /\ Goto(r, "returned")
    /\ UNCHANGED <<shown, lock, stopEvent, owner, samples, history, stopper,
                   daemon, asked>>

\* It returns a full one, also when the flag is set after the last poll.
Complete(r) ==
    /\ phase[r] = "probing"
    /\ report' = [report EXCEPT ![r] = "full"] /\ Goto(r, "returned")
    /\ UNCHANGED <<shown, lock, stopEvent, owner, samples, history, stopper,
                   daemon, asked>>

Raise(r) ==
    /\ phase[r] = "probing" /\ "probe" \in Faults
    /\ Raised(r)
    /\ UNCHANGED <<shown, lock, stopEvent, owner, report, samples, history,
                   stopper, daemon, asked>>

\* status and results are set and the session file is written in one critical
\* section: the worker keeps state.lock from Publish to Persist.
Publish(r) ==
    /\ phase[r] = "returned" /\ MayEnter(r)
    /\ status' = FinalStatus(r) /\ results' = r
    /\ Hold(r) /\ Goto(r, "saving")
    /\ UNCHANGED <<error, progress, stopEvent, owner, report, samples, history,
                   stopper, daemon, asked>>

Persist(r) ==
    /\ phase[r] = "saving"
    /\ history' = [history EXCEPT ![r] = IF r \in samples THEN "whole" ELSE "stripped"]
    /\ Release(r) /\ Rest(r) /\ Goto(r, "ended")
    /\ UNCHANGED <<shown, stopEvent, owner, report, samples, stopper, asked>>

\* save_history raises out of the critical section ...
PersistFail(r) ==
    /\ phase[r] = "saving" /\ "save" \in Faults
    /\ Release(r) /\ Raised(r)
    /\ UNCHANGED <<shown, stopEvent, owner, report, samples, history, stopper,
                   daemon, asked>>

\* ... and every exception ends here, in a critical section of its own.
HandleError(r) ==
    /\ phase[r] = "failing" /\ MayEnter(r)
    /\ status' = "error" /\ error' = TRUE
    /\ Rest(r) /\ Goto(r, "ended")
    /\ UNCHANGED <<results, progress, lock, stopEvent, owner, report, samples,
                   history, stopper, asked>>

-----------------------------------------------------------------------------
(* POST /api/stop: the status is read under state.lock, the flag is set     *)
(* after the lock is released.                                              *)

StopRead(s) ==
    /\ stopper[s].at = "idle" /\ lock = None
    /\ stopper' = [stopper EXCEPT ![s] =
                     [at |-> "armed", saw |-> {r \in Runs : Active(r)}]]
    /\ UNCHANGED <<shown, lock, stopEvent, owner, phase, report, samples,
                   history, daemon, asked>>

StopSet(s) ==
    /\ stopper[s].at = "armed"
    /\ stopEvent' = TRUE
    /\ asked' = [r \in Runs |->
                   IF ~Active(r) \/ asked[r] = "yes" THEN asked[r]
                   ELSE IF r \in stopper[s].saw THEN "yes"
                   ELSE IF stopper[s].saw = {} THEN "early" ELSE "stale"]
    /\ stopper' = [stopper EXCEPT ![s] = Idle]
    /\ UNCHANGED <<shown, lock, owner, phase, report, samples, history, daemon>>

\* GET /api/status copies current_run under state.lock, then removes the ping
\* samples from the nested dictionaries, which the copy shares with the report.
PollStatus ==
    /\ lock = None /\ results \in samples
    /\ samples' = samples \ {results}
    /\ UNCHANGED <<shown, lock, stopEvent, owner, phase, report, history,
                   stopper, daemon, asked>>

-----------------------------------------------------------------------------
(* The --daemon loop: every ten minutes, check and claim under its own lock.*)

DaemonCheck ==
    /\ Daemon /\ daemon = "asleep" /\ NotRunning
    /\ daemon' = "sawIdle"
    /\ UNCHANGED <<shown, lock, stopEvent, owner, phase, report, samples,
                   history, stopper, asked>>

DaemonClaim(r) ==
    /\ daemon = "sawIdle" /\ phase[r] = "unused"
    /\ status' = "running" /\ progress' = {}
    /\ daemon' = "busy"
    /\ owner' = [owner EXCEPT ![r] = "daemon"] /\ Goto(r, "probing")
    /\ UNCHANGED <<results, error, lock, stopEvent, report, samples, history,
                   stopper, asked>>

-----------------------------------------------------------------------------
Api(r) == AcceptRun(r) \/ DropRun(r) \/ StartRun(r)
Finish(r) == Interrupt(r) \/ Complete(r) \/ Raise(r)
Save(r) == Persist(r) \/ PersistFail(r)
Thread(r) == BeginRun(r) \/ Progress(r) \/ Finish(r) \/ Publish(r) \/ Save(r)
             \/ HandleError(r)

Next ==
    \/ \E r \in Runs : Api(r) \/ Thread(r) \/ DaemonClaim(r)
    \/ \E s \in Stoppers : StopRead(s) \/ StopSet(s)
    \/ PollStatus
    \/ DaemonCheck

\* A claimed request is answered and a started thread goes on: every probe is
\* bounded by a timeout and no critical section waits for another.  Requests
\* are the clients' choice and are not fair.
Fairness ==
    /\ \A r \in Runs :
         /\ WF_vars(DropRun(r) \/ StartRun(r))
         /\ WF_vars(BeginRun(r)) /\ WF_vars(Finish(r))
         /\ WF_vars(Publish(r)) /\ WF_vars(Save(r)) /\ WF_vars(HandleError(r))
    /\ \A s \in Stoppers : WF_vars(StopSet(s))

Spec == Init /\ [][Next]_vars /\ Fairness
-----------------------------------------------------------------------------
(* Properties of the web server without --daemon, when the bodies of the    *)
(* requests are well formed and the history directory can be written to.    *)

\* At most one diagnostic of POST /api/run is in progress (not counting the one
\* in the slot of the Tools tab): the claim under state.lock, the worker's final
\* critical section and the error handler never let a second request in before
\* the first run is over (routes_diag.py:71, state.py:47-54).
AtMostOneActive == \A q, r \in Runs : Active(q) /\ Active(r) => q = r

\* A request is refused with "Diagnostic already running" exactly while one is:
\* no run goes on behind an idle status, and no refusal names a run that is over.
StatusTellsTruth == (status = "running") <=> \E r \in Runs : Active(r)

\* A client that polls "done" or "stopped" finds the report shown, its session
\* file written with all samples, and the status agreeing with the report's
\* "interrupted", although polls strip the shared report (routes_diag.py:32-37).
SavedWhenDone ==
    status \in {"done", "stopped"} /\ lock = None =>
        /\ results \in Runs /\ history[results] = "whole"
        /\ status = "stopped" <=> report[results] = "partial"

\* A run is interrupted only if the stop flag was set while it was active: a
\* flag left over from an earlier run is gone before this one polls it.
NoLeftoverStop == \A r \in Runs : report[r] = "partial" => asked[r] # "no"

\* The progress a client polls during a run is that run's own.
ProgressIsOwn == \A q, r \in Runs : q \in progress /\ Active(r) => q = r

\* A report stays on display until a request claims the next run: no late write
\* of another thread replaces or clears it.
ShownUntilNextRun ==
    [][results # None /\ results' # results => results' = None /\ status' = "running"]_vars

\* The server implements SerialRuns: a run is over when its outcome is shown.
Current == IF \E r \in Runs : Active(r) THEN CHOOSE r \in Runs : Active(r) ELSE None
OutcomeOf(r) ==
    IF phase[r] \notin {"saving", "ended"} THEN "pending"
    ELSE CASE report[r] = "partial" -> "stopped"
           [] report[r] = "full" -> "done"
           [] report[r] = "none" -> "error"
Serial == INSTANCE SerialRuns
            WITH current <- Current, outcome <- [r \in Runs |-> OutcomeOf(r)]
ImplementsSerialRuns == Serial!Spec

-----------------------------------------------------------------------------
(* Properties that survive every fault and the daemon loop.                 *)

\* state.lock is held across a step by the worker that is saving, by no one
\* else, and is always given back when save_history raises.
LockHeldWhileSaving ==
    \A r \in Runs : (lock = r) <=> (phase[r] = "saving" /\ owner[r] = "gui")

\* The session file of a run started from the GUI holds its ping samples: a
\* status poll can strip the report only after it was written, because the
\* file is written inside the critical section (state.py:47-50).
GuiSessionsWhole == \A r \in Runs : owner[r] = "gui" => history[r] # "stripped"

\* Every thread that starts a run ends it, whatever raises: no one keeps
\* state.lock, and no exception leaves run_diag or daemon_loop.
ThreadsEnd == \A r \in Runs : phase[r] \in {"started", "probing"} ~> phase[r] = "ended"

-----------------------------------------------------------------------------
(* What a comment of the code says, which its behaviours refute.            *)

\* No run is interrupted by a POST /api/stop that began during another run: "a
\* stale stop from a prior run can't cancel this one" (routes_diag.py:78).
NoStaleStop == \A r \in Runs : report[r] = "partial" => asked[r] # "stale"
=============================================================================
