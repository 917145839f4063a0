-------------------------- MODULE RunControlProofs --------------------------
(***************************************************************************)
(* Proofs about RunControl, for any set of runs and of stop handlers.      *)
(***************************************************************************)
EXTENDS RunControl, TLAPS

-----------------------------------------------------------------------------
(* Type correctness.                                                        *)

\* Before the first request every variable has its type.
LEMMA InitTypeOK == Init => TypeOK
  <1> SUFFICES ASSUME Init PROVE TypeOK
    OBVIOUS
  <1>1. Idle \in [at : {"idle", "armed"}, saw : SUBSET Runs]
    BY DEF Idle
  <1>2. stopper \in [Stoppers -> [at : {"idle", "armed"}, saw : SUBSET Runs]]
    BY <1>1 DEF Init
  <1> QED
    BY <1>2 DEF Init, TypeOK, Phases

\* No request, thread or poll gives a variable another type.
LEMMA NextTypeOK == TypeOK /\ [Next]_vars => TypeOK'
  <1> SUFFICES ASSUME TypeOK, [Next]_vars PROVE TypeOK'
    OBVIOUS
  <1> USE DEF TypeOK, shown, Phases, Goto
  <1>1. ASSUME NEW r \in Runs, AcceptRun(r) PROVE TypeOK'
    BY <1>1 DEF AcceptRun, ResetRun, ClearStop
  <1>2. ASSUME NEW r \in Runs, DropRun(r) \/ StartRun(r) PROVE TypeOK'
    BY <1>2 DEF DropRun, StartRun, Launch
  <1>3. ASSUME NEW r \in Runs, BeginRun(r) PROVE TypeOK'
    BY <1>3 DEF BeginRun, ResetRun
  <1>4. ASSUME NEW r \in Runs, Progress(r) PROVE TypeOK'
    BY <1>4 DEF Progress
  <1>5. ASSUME NEW r \in Runs, Finish(r) PROVE TypeOK'
    BY <1>5 DEF Finish, Interrupt, Complete, Raise, Raised
  <1>6. ASSUME NEW r \in Runs, Publish(r) PROVE TypeOK'
    BY <1>6 DEF Publish, FinalStatus, Hold
  <1>7. ASSUME NEW r \in Runs, Save(r) PROVE TypeOK'
    BY <1>7 DEF Save, Persist, PersistFail, Release, Rest, Raised
  <1>8. ASSUME NEW r \in Runs, HandleError(r) PROVE TypeOK'
    BY <1>8 DEF HandleError, Rest
  <1>9. ASSUME NEW s \in Stoppers, StopRead(s) PROVE TypeOK'
    BY <1>9 DEF StopRead
  <1>10. ASSUME NEW s \in Stoppers, StopSet(s) PROVE TypeOK'
    <2>1. asked' \in [Runs -> {"no", "early", "stale", "yes"}]
      BY <1>10 DEF StopSet
    <2> QED
      BY <1>10, <2>1 DEF StopSet, Idle
  <1>11. CASE PollStatus
    BY <1>11 DEF PollStatus
  <1>12. CASE DaemonCheck
    BY <1>12 DEF DaemonCheck
  <1>13. ASSUME NEW r \in Runs, DaemonClaim(r) PROVE TypeOK'
    BY <1>13 DEF DaemonClaim
  <1>14. CASE UNCHANGED vars
    BY <1>14 DEF vars
  <1> QED
    BY <1>1, <1>2, <1>3, <1>4, <1>5, <1>6, <1>7, <1>8, <1>9, <1>10, <1>11,
       <1>12, <1>13, <1>14 DEF Next, Api, Thread

\* Every variable keeps its type, for any runs, handlers, faults and mode.
THEOREM TypeCorrect == Spec => []TypeOK
  BY InitTypeOK, NextTypeOK, PTL DEF Spec
-----------------------------------------------------------------------------
(* state.lock and the session files, under every fault and beside the       *)
(* daemon loop.  What makes GuiSessionsWhole inductive: only a report that  *)
(* was published can be stripped, and the worker that publishes it holds    *)
(* the lock, which a poll needs, until the file is written.                 *)

Published(r) == phase[r] \in {"saving", "failing", "ended"}

PollsOnlyPublished ==
    /\ results # None => Published(results)
    /\ \A r \in Runs : r \notin samples => Published(r)

SavingUnstripped ==
    \A r \in Runs : phase[r] = "saving" /\ owner[r] = "gui" => r \in samples

OnlyEndedSaved == \A r \in Runs : history[r] # "none" => phase[r] = "ended"

SessionInv == LockHeldWhileSaving /\ PollsOnlyPublished /\ SavingUnstripped
              /\ OnlyEndedSaved /\ GuiSessionsWhole

\* Before the first run nothing is locked, shown or saved.
LEMMA InitSession == Init => SessionInv
  BY RunControlAssumption
  DEF Init, SessionInv, LockHeldWhileSaving, PollsOnlyPublished, SavingUnstripped,
      GuiSessionsWhole, OnlyEndedSaved, Published

\* Who takes the lock gives it back, and only published reports are
\* stripped by a poll.
LEMMA NextSession == TypeOK /\ SessionInv /\ [Next]_vars => SessionInv'
  <1> SUFFICES ASSUME TypeOK, SessionInv, [Next]_vars PROVE SessionInv'
    OBVIOUS
  <1> USE RunControlAssumption
      DEF TypeOK, shown, Phases, Goto, SessionInv, LockHeldWhileSaving,
          PollsOnlyPublished, SavingUnstripped, OnlyEndedSaved, GuiSessionsWhole,
          Published, MayEnter
  <1>1. ASSUME NEW r \in Runs, AcceptRun(r) PROVE SessionInv'
    BY <1>1 DEF AcceptRun, ResetRun, ClearStop
  <1>2. ASSUME NEW r \in Runs, DropRun(r) \/ StartRun(r) PROVE SessionInv'
    BY <1>2 DEF DropRun, StartRun, Launch
  <1>3. ASSUME NEW r \in Runs, BeginRun(r) PROVE SessionInv'
    BY <1>3 DEF BeginRun, ResetRun
  <1>4. ASSUME NEW r \in Runs, Progress(r) PROVE SessionInv'
    BY <1>4 DEF Progress
  <1>5. ASSUME NEW r \in Runs, Finish(r) PROVE SessionInv'
    BY <1>5 DEF Finish, Interrupt, Complete, Raise, Raised
  <1>6. ASSUME NEW r \in Runs, Publish(r) PROVE SessionInv'
    BY <1>6 DEF Publish, Hold
  <1>7. ASSUME NEW r \in Runs, Persist(r) PROVE SessionInv'
    BY <1>7 DEF Persist, Release
  <1>8. ASSUME NEW r \in Runs, PersistFail(r) PROVE SessionInv'
    BY <1>8 DEF PersistFail, Release, Raised
  <1>9. ASSUME NEW r \in Runs, HandleError(r) PROVE SessionInv'
    BY <1>9 DEF HandleError
  <1>10. ASSUME NEW s \in Stoppers, StopRead(s) \/ StopSet(s) PROVE SessionInv'
    BY <1>10 DEF StopRead, StopSet
  <1>11. CASE PollStatus
    BY <1>11 DEF PollStatus
  <1>12. CASE DaemonCheck
    BY <1>12 DEF DaemonCheck
  <1>13. ASSUME NEW r \in Runs, DaemonClaim(r) PROVE SessionInv'
    BY <1>13 DEF DaemonClaim
  <1>14. CASE UNCHANGED vars
    BY <1>14 DEF vars
  <1> QED
    BY <1>1, <1>2, <1>3, <1>4, <1>5, <1>6, <1>7, <1>8, <1>9, <1>10, <1>11,
       <1>12, <1>13, <1>14 DEF Next, Api, Thread, Save

\* Lock and reports are in order at all times, under any faults.
LEMMA SessionInvariant == Spec => []SessionInv
  BY InitSession, NextSession, TypeCorrect, PTL DEF Spec

\* state.lock is held across steps by the saving worker only, and is given
\* back whatever save_history does.
THEOREM LockSafety == Spec => []LockHeldWhileSaving
  BY SessionInvariant, PTL DEF SessionInv

\* No interleaving of status polls, GUI runs and daemon runs lets the session
\* file of a GUI run lose its ping samples.
THEOREM SessionSafety == Spec => []GuiSessionsWhole
  BY SessionInvariant, PTL DEF SessionInv

-----------------------------------------------------------------------------
(* One run of POST /api/run at a time, without --daemon when neither the    *)
(* argument parsing nor save_history raises.  AtMostOneActive alone is not  *)
(* inductive: a claim is let in by the status, so the status has to tell    *)
(* the truth, and a run that has published can only end.                    *)

GuiOnly == ~Daemon /\ Faults \subseteq {"probe"}

NoDaemonRun ==
    /\ daemon = "asleep"
    /\ \A r \in Runs : owner[r] # "daemon" /\ phase[r] # "dropped"
    /\ \A r \in Runs : phase[r] # "unused" => owner[r] = "gui"

ReportMatchesPhase ==
    \A r \in Runs :
        /\ phase[r] \in {"unused", "claimed", "started", "probing", "failing"}
             => report[r] = "none"
        /\ phase[r] \in {"returned", "saving"} => report[r] # "none"

SerialInv == NoDaemonRun /\ ReportMatchesPhase /\ AtMostOneActive /\ StatusTellsTruth

\* Before the first run none is active.
LEMMA InitSerial == Init => SerialInv
  BY DEF Init, SerialInv, NoDaemonRun, ReportMatchesPhase, AtMostOneActive,
         StatusTellsTruth, Active

\* A run is claimed only when the status says that none is active, and the
\* status is set in the same critical section as the end of a run.
LEMMA NextSerial ==
    GuiOnly /\ TypeOK /\ LockHeldWhileSaving /\ SerialInv /\ [Next]_vars => SerialInv'
  <1> SUFFICES ASSUME GuiOnly, TypeOK, LockHeldWhileSaving, SerialInv, [Next]_vars
               PROVE SerialInv'
    OBVIOUS
  <1> USE RunControlAssumption
      DEF TypeOK, shown, Phases, Goto, GuiOnly, LockHeldWhileSaving, SerialInv,
          NoDaemonRun, ReportMatchesPhase, AtMostOneActive, StatusTellsTruth, Active,
          MayEnter
  <1>1. ASSUME NEW r \in Runs, AcceptRun(r) PROVE SerialInv'
    BY <1>1 DEF AcceptRun, ResetRun, ClearStop, NotRunning
  <1>2. ASSUME NEW r \in Runs, DropRun(r) PROVE SerialInv'
    BY <1>2 DEF DropRun
  <1>3. ASSUME NEW r \in Runs, StartRun(r) PROVE SerialInv'
    BY <1>3 DEF StartRun, Launch
  <1>4. ASSUME NEW r \in Runs, BeginRun(r) PROVE SerialInv'
    BY <1>4 DEF BeginRun, ResetRun
  <1>5. ASSUME NEW r \in Runs, Progress(r) PROVE SerialInv'
    BY <1>5 DEF Progress
  <1>6. ASSUME NEW r \in Runs, Finish(r) PROVE SerialInv'
    BY <1>6 DEF Finish, Interrupt, Complete, Raise, Raised
  <1>7. ASSUME NEW r \in Runs, Publish(r) PROVE SerialInv'
    BY <1>7 DEF Publish, FinalStatus, Hold
  <1>8. ASSUME NEW r \in Runs, Save(r) PROVE SerialInv'
    BY <1>8 DEF Save, Persist, PersistFail, Release, Rest
  <1>9. ASSUME NEW r \in Runs, HandleError(r) PROVE SerialInv'
    BY <1>9 DEF HandleError, Rest
  <1>10. ASSUME NEW s \in Stoppers, StopRead(s) \/ StopSet(s) PROVE SerialInv'
    BY <1>10 DEF StopRead, StopSet
  <1>11. CASE PollStatus
    BY <1>11 DEF PollStatus
  <1>12. CASE DaemonCheck
    BY <1>12 DEF DaemonCheck
  <1>13. ASSUME NEW r \in Runs, DaemonClaim(r) PROVE SerialInv'
    BY <1>13 DEF DaemonClaim
  <1>14. CASE UNCHANGED vars
    BY <1>14 DEF vars
  <1> QED
    BY <1>1, <1>2, <1>3, <1>4, <1>5, <1>6, <1>7, <1>8, <1>9, <1>10, <1>11,
       <1>12, <1>13, <1>14 DEF Next, Api, Thread

\* Claims, phases and the status agree at all times.
LEMMA SerialInvariant == GuiOnly => (Spec => []SerialInv)
  <1> SUFFICES ASSUME GuiOnly PROVE Spec => []SerialInv
    OBVIOUS
  <1>1. TypeOK /\ LockHeldWhileSaving /\ SerialInv /\ [Next]_vars => SerialInv'
    BY NextSerial
  <1> QED
    BY <1>1, InitSerial, TypeCorrect, LockSafety, PTL DEF Spec

\* Two diagnostics never overlap.
THEOREM SerialSafety == GuiOnly => (Spec => []AtMostOneActive)
  <1> SUFFICES ASSUME GuiOnly PROVE Spec => []AtMostOneActive
    OBVIOUS
  <1>1. SerialInv => AtMostOneActive
    BY DEF SerialInv
  <1> QED
    BY <1>1, SerialInvariant, PTL

\* A request is refused exactly while a diagnostic is in progress.
THEOREM StatusSafety == GuiOnly => (Spec => []StatusTellsTruth)
  <1> SUFFICES ASSUME GuiOnly PROVE Spec => []StatusTellsTruth
    OBVIOUS
  <1>1. SerialInv => StatusTellsTruth
    BY DEF SerialInv
  <1> QED
    BY <1>1, SerialInvariant, PTL
-----------------------------------------------------------------------------
(* The server implements SerialRuns (its safety part; that every run ends   *)
(* is checked by TLC).  A run is accepted at the claim and over when its    *)
(* outcome is shown, at Publish or in the error handler; every other step   *)
(* stutters.                                                                *)

Outcome == [r \in Runs |-> OutcomeOf(r)]

\* The run that is active is the current one of SerialRuns.
LEMMA CurrentIsActive ==
    ASSUME AtMostOneActive, NEW r \in Runs, Active(r) PROVE Current = r
  BY DEF AtMostOneActive, Current

\* Without an active run there is no current one.
LEMMA CurrentIsNone == ASSUME \A r \in Runs : ~Active(r) PROVE Current = None
  BY DEF Current

\* The same two facts of the state after a step.
LEMMA NextCurrentIsActive ==
    ASSUME AtMostOneActive', NEW r \in Runs, Active(r)' PROVE Current' = r
  BY DEF AtMostOneActive, Current

\* The same after a step.
LEMMA NextCurrentIsNone == ASSUME \A r \in Runs : ~Active(r)' PROVE Current' = None
  BY DEF Current

\* A step that leaves phase and report alone is a stutter.
LEMMA StutterUnlessPhase ==
    ASSUME UNCHANGED <<phase, report>> PROVE UNCHANGED <<Current, Outcome>>
  BY DEF Current, Outcome, OutcomeOf, Active

\* So is one that keeps the active runs and the outcomes.
LEMMA StutterWhileActive ==
    ASSUME AtMostOneActive, AtMostOneActive', NEW r \in Runs, Active(r), Active(r)',
           \A q \in Runs : OutcomeOf(q)' = OutcomeOf(q)
    PROVE UNCHANGED <<Current, Outcome>>
  <1>1. Current = r /\ Current' = r
    BY CurrentIsActive, NextCurrentIsActive
  <1> QED
    BY <1>1 DEF Outcome

\* A server that was just started is one that promises nothing yet.
LEMMA InitRefines == Init => Serial!Init
  <1> SUFFICES ASSUME Init PROVE Serial!Init
    OBVIOUS
  <1>1. \A r \in Runs : ~Active(r) /\ OutcomeOf(r) = "pending"
    BY DEF Init, Active, OutcomeOf
  <1> QED
    BY <1>1, CurrentIsNone DEF Serial!Init

\* A claim is an acceptance, a published report an end; all else stutters.
LEMMA NextRefines ==
    GuiOnly /\ TypeOK /\ TypeOK' /\ SerialInv /\ SerialInv' /\ [Next]_vars
      => [Serial!Next]_(Serial!vars)
  <1> SUFFICES ASSUME GuiOnly, TypeOK, TypeOK', SerialInv, SerialInv', [Next]_vars
               PROVE Serial!Next \/ UNCHANGED <<Current, Outcome>>
    BY DEF Serial!vars, Outcome
  <1> USE DEF SerialInv, TypeOK, Goto
  <1>1. ASSUME NEW r \in Runs, AcceptRun(r) PROVE Serial!Accept(r)
    <2>1. \A q \in Runs : ~Active(q)
      BY <1>1 DEF AcceptRun, NotRunning, StatusTellsTruth
    <2>2. Active(r)'
      BY <1>1 DEF AcceptRun, Active
    <2>3. \A q \in Runs : OutcomeOf(q)' = OutcomeOf(q)
      BY <1>1 DEF AcceptRun, OutcomeOf
    <2>4. OutcomeOf(r) = "pending"
      BY <1>1 DEF AcceptRun, OutcomeOf
    <2> QED
      BY <2>1, <2>2, <2>3, <2>4, CurrentIsNone, NextCurrentIsActive DEF Serial!Accept
  <1>2. ASSUME NEW r \in Runs, StartRun(r) \/ BeginRun(r) \/ Finish(r)
        PROVE UNCHANGED <<Current, Outcome>>
    <2>1. Active(r) /\ Active(r)'
      BY <1>2 DEF StartRun, BeginRun, Finish, Interrupt, Complete, Raise, Raised,
                  Launch, Active
    <2>2. \A q \in Runs : OutcomeOf(q)' = OutcomeOf(q)
      BY <1>2 DEF StartRun, BeginRun, Finish, Interrupt, Complete, Raise, Raised,
                  Launch, OutcomeOf
    <2> QED
      BY <2>1, <2>2, StutterWhileActive
  <1>3. ASSUME NEW r \in Runs, Publish(r) \/ HandleError(r) PROVE Serial!End(r)
    <2>1. Active(r) /\ ~Active(r)'
      BY <1>3 DEF Publish, HandleError, Active
    <2>2. \A q \in Runs : Active(q)' => Active(q) /\ q # r
      BY <1>3, <2>1 DEF Publish, HandleError, Active
    <2>3. Current = r
      BY <2>1, CurrentIsActive
    <2>4. Current' = None
      BY <2>1, <2>2, NextCurrentIsNone DEF AtMostOneActive
    <2>5. \A q \in Runs \ {r} : OutcomeOf(q)' = OutcomeOf(q)
      BY <1>3 DEF Publish, HandleError, OutcomeOf
    <2>6. OutcomeOf(r)' \in {"done", "stopped", "error"}
      BY <1>3 DEF Publish, HandleError, OutcomeOf
    <2>7. PICK o \in Serial!Outcomes : OutcomeOf(r)' = o
      BY <2>6 DEF Serial!Outcomes
    <2>8. [q \in Runs |-> OutcomeOf(q)]'
            = [[q \in Runs |-> OutcomeOf(q)] EXCEPT ![r] = o]
      BY <2>5, <2>7
    <2> QED
      BY <2>3, <2>4, <2>8 DEF Serial!End
  <1>4. ASSUME NEW r \in Runs, Persist(r) PROVE UNCHANGED <<Current, Outcome>>
    <2>1. \A q \in Runs : Active(q)' <=> Active(q)
      BY <1>4 DEF Persist, Active
    <2>2. \A q \in Runs : OutcomeOf(q)' = OutcomeOf(q)
      BY <1>4 DEF Persist, OutcomeOf
    <2>3. CASE \E q \in Runs : Active(q)
      BY <2>1, <2>2, <2>3, StutterWhileActive
    <2>4. CASE \A q \in Runs : ~Active(q)
      BY <2>1, <2>2, <2>4, CurrentIsNone, NextCurrentIsNone DEF Outcome
    <2> QED
      BY <2>3, <2>4
  <1>5. ASSUME NEW r \in Runs, DropRun(r) \/ PersistFail(r) \/ DaemonClaim(r)
        PROVE FALSE
    BY <1>5 DEF DropRun, PersistFail, DaemonClaim, GuiOnly, NoDaemonRun
  <1>6. ASSUME NEW r \in Runs, Progress(r) PROVE UNCHANGED <<Current, Outcome>>
    BY <1>6, StutterUnlessPhase DEF Progress
  <1>7. ASSUME NEW s \in Stoppers, StopRead(s) \/ StopSet(s)
        PROVE UNCHANGED <<Current, Outcome>>
    BY <1>7, StutterUnlessPhase DEF StopRead, StopSet
  <1>8. CASE PollStatus \/ DaemonCheck \/ UNCHANGED vars
    BY <1>8, StutterUnlessPhase DEF PollStatus, DaemonCheck, vars
  <1> QED
    BY <1>1, <1>2, <1>3, <1>4, <1>5, <1>6, <1>7, <1>8
    DEF Next, Api, Thread, Save, Serial!Next

\* Every step of the server is a step of SerialRuns or a stutter.
THEOREM ServerImplementsSerialRuns == GuiOnly => (Spec => Serial!SafeSpec)
  <1> SUFFICES ASSUME GuiOnly PROVE Spec => Serial!SafeSpec
    OBVIOUS
  <1>1. TypeOK /\ TypeOK' /\ SerialInv /\ SerialInv' /\ [Next]_vars
          => [Serial!Next]_(Serial!vars)
    BY NextRefines
  <1> QED
    BY <1>1, InitRefines, TypeCorrect, SerialInvariant, PTL DEF Spec, Serial!SafeSpec

-----------------------------------------------------------------------------
(* The stop flag, under every fault and beside the daemon loop.  Only GUI   *)
(* runs poll it, and each finds it cleared at its claim, so that whoever    *)
(* sets it while the run is active has asked that run to stop.              *)

FlagIsAsked ==
    \A r \in Runs : /\ stopEvent /\ owner[r] = "gui"
                    /\ phase[r] \in {"claimed", "started", "probing"}
                    => asked[r] # "no"

UnusedIsUnasked == \A r \in Runs : phase[r] = "unused" => owner[r] = "nobody"

StopInv == FlagIsAsked /\ UnusedIsUnasked /\ NoLeftoverStop

\* Before the first run no flag is set.
LEMMA InitStop == Init => StopInv
  BY DEF Init, StopInv, FlagIsAsked, UnusedIsUnasked, NoLeftoverStop

\* A claim clears the flag; StopSet sets it for every run that is active then.
LEMMA NextStop == TypeOK /\ StopInv /\ [Next]_vars => StopInv'
  <1> SUFFICES ASSUME TypeOK, StopInv, [Next]_vars PROVE StopInv'
    OBVIOUS
  <1> USE DEF TypeOK, shown, Goto, StopInv, FlagIsAsked, UnusedIsUnasked, NoLeftoverStop,
              Active
  <1>1. ASSUME NEW r \in Runs, AcceptRun(r) PROVE StopInv'
    BY <1>1 DEF AcceptRun, ClearStop
  <1>2. ASSUME NEW r \in Runs, DropRun(r) \/ StartRun(r) \/ BeginRun(r) PROVE StopInv'
    BY <1>2 DEF DropRun, StartRun, Launch, BeginRun
  <1>3. ASSUME NEW r \in Runs, Progress(r) PROVE StopInv'
    BY <1>3 DEF Progress
  <1>4. ASSUME NEW r \in Runs, Finish(r) PROVE StopInv'
    BY <1>4 DEF Finish, Interrupt, Complete, Raise, Raised
  <1>5. ASSUME NEW r \in Runs, Publish(r) \/ HandleError(r) PROVE StopInv'
    BY <1>5 DEF Publish, HandleError
  <1>6. ASSUME NEW r \in Runs, Save(r) PROVE StopInv'
    BY <1>6 DEF Save, Persist, PersistFail, Raised
  <1>7. ASSUME NEW s \in Stoppers, StopRead(s) PROVE StopInv'
    BY <1>7 DEF StopRead
  <1>8. ASSUME NEW s \in Stoppers, StopSet(s) PROVE StopInv'
    <2>1. \A r \in Runs : /\ asked[r] # "no" => asked'[r] # "no"
                          /\ Active(r) => asked'[r] # "no"
      BY <1>8 DEF StopSet
    <2> QED
      BY <1>8, <2>1 DEF StopSet
  <1>9. CASE PollStatus \/ DaemonCheck
    BY <1>9 DEF PollStatus, DaemonCheck
  <1>10. ASSUME NEW r \in Runs, DaemonClaim(r) PROVE StopInv'
    BY <1>10 DEF DaemonClaim
  <1>11. CASE UNCHANGED vars
    BY <1>11 DEF vars
  <1> QED
    BY <1>1, <1>2, <1>3, <1>4, <1>5, <1>6, <1>7, <1>8, <1>9, <1>10, <1>11
    DEF Next, Api, Thread

\* No run is interrupted by a flag that was set before it was claimed.
THEOREM StopSafety == Spec => []NoLeftoverStop
  <1>1. StopInv => NoLeftoverStop
    BY DEF StopInv
  <1> QED
    BY <1>1, InitStop, NextStop, TypeCorrect, PTL DEF Spec

-----------------------------------------------------------------------------
(* What is on display, under the assumption of SerialInv.  While a run is   *)
(* in progress no report is shown and the progress is that run's; a report  *)
(* that is shown is of a run that has ended or is saving, which nobody      *)
(* sees since the run holds the lock.                                       *)

ActiveShowsNothing == \A r \in Runs : Active(r) => results = None

ShownIsOver ==
    status \in {"done", "stopped"} =>
        /\ results \in Runs
        /\ status = "stopped" <=> report[results] = "partial"
        /\ \/ phase[results] = "saving"
           \/ phase[results] = "ended" /\ history[results] = "whole"

DisplayInv == ProgressIsOwn /\ ActiveShowsNothing /\ ShownIsOver

\* Before the first run nothing is on display.
LEMMA InitDisplay == Init => DisplayInv
  BY DEF Init, DisplayInv, ProgressIsOwn, ActiveShowsNothing, ShownIsOver, Active

\* A claim clears the display, the end of a run fills it; a poll waits for
\* the lock, and so for the session file.
LEMMA NextDisplay ==
    GuiOnly /\ TypeOK /\ SessionInv /\ SerialInv /\ DisplayInv /\ [Next]_vars => DisplayInv'
  <1> SUFFICES ASSUME GuiOnly, TypeOK, SessionInv, SerialInv, DisplayInv, [Next]_vars
               PROVE DisplayInv'
    OBVIOUS
  <1> USE DEF TypeOK, shown, Goto, DisplayInv, ProgressIsOwn, ActiveShowsNothing,
              ShownIsOver, SerialInv, AtMostOneActive, StatusTellsTruth, Active
  <1>1. ASSUME NEW r \in Runs, AcceptRun(r) PROVE DisplayInv'
    BY <1>1 DEF AcceptRun, ResetRun
  <1>2. ASSUME NEW r \in Runs, StartRun(r) \/ Finish(r) PROVE DisplayInv'
    BY <1>2 DEF StartRun, Launch, Finish, Interrupt, Complete, Raise, Raised
  <1>3. ASSUME NEW r \in Runs, BeginRun(r) PROVE DisplayInv'
    BY <1>3 DEF BeginRun, ResetRun
  <1>4. ASSUME NEW r \in Runs, Progress(r) PROVE DisplayInv'
    BY <1>4 DEF Progress
  <1>5. ASSUME NEW r \in Runs, Publish(r) PROVE DisplayInv'
    BY <1>5 DEF Publish, FinalStatus, ReportMatchesPhase, NoDaemonRun
  <1>6. ASSUME NEW r \in Runs, Persist(r) PROVE DisplayInv'
    <2>1. r \in samples
      BY <1>6 DEF Persist, SessionInv, SavingUnstripped, NoDaemonRun
    <2> QED
      BY <1>6, <2>1 DEF Persist
  <1>7. ASSUME NEW r \in Runs, HandleError(r) PROVE DisplayInv'
    BY <1>7 DEF HandleError
  <1>8. ASSUME NEW s \in Stoppers, StopRead(s) \/ StopSet(s) PROVE DisplayInv'
    BY <1>8 DEF StopRead, StopSet
  <1>9. CASE PollStatus \/ DaemonCheck
    BY <1>9 DEF PollStatus, DaemonCheck
  <1>10. ASSUME NEW r \in Runs, DropRun(r) \/ PersistFail(r) \/ DaemonClaim(r)
         PROVE FALSE
    BY <1>10 DEF DropRun, PersistFail, DaemonClaim, GuiOnly, NoDaemonRun
  <1>11. CASE UNCHANGED vars
    BY <1>11 DEF vars
  <1> QED
    BY <1>1, <1>2, <1>3, <1>4, <1>5, <1>6, <1>7, <1>8, <1>9, <1>10, <1>11
    DEF Next, Api, Thread, Save

\* The display is that of the latest run at all times.
LEMMA DisplayInvariant == GuiOnly => (Spec => []DisplayInv)
  <1> SUFFICES ASSUME GuiOnly PROVE Spec => []DisplayInv
    OBVIOUS
  <1>1. TypeOK /\ SessionInv /\ SerialInv /\ DisplayInv /\ [Next]_vars => DisplayInv'
    BY NextDisplay
  <1> QED
    BY <1>1, InitDisplay, TypeCorrect, SessionInvariant, SerialInvariant, PTL DEF Spec

\* The progress a client polls is that of the run in progress.
THEOREM ProgressSafety == GuiOnly => (Spec => []ProgressIsOwn)
  <1> SUFFICES ASSUME GuiOnly PROVE Spec => []ProgressIsOwn
    OBVIOUS
  <1>1. DisplayInv => ProgressIsOwn
    BY DEF DisplayInv
  <1> QED
    BY <1>1, DisplayInvariant, PTL

\* A client that is told "done" or "stopped" is shown a report whose session
\* file is written and whole: the saving run holds the lock, which keeps the
\* client from looking in between.
THEOREM DoneIsSaved == GuiOnly => (Spec => []SavedWhenDone)
  <1> SUFFICES ASSUME GuiOnly PROVE Spec => []SavedWhenDone
    OBVIOUS
  <1>1. SessionInv /\ SerialInv /\ DisplayInv => SavedWhenDone
    BY RunControlAssumption
    DEF SessionInv, LockHeldWhileSaving, SerialInv, NoDaemonRun, DisplayInv,
        ShownIsOver, SavedWhenDone
  <1> QED
    BY <1>1, SessionInvariant, SerialInvariant, DisplayInvariant, PTL

\* A report stays on display until the next run is claimed.
THEOREM ReportStaysShown == GuiOnly => (Spec => ShownUntilNextRun)
  <1> SUFFICES ASSUME GuiOnly PROVE Spec => ShownUntilNextRun
    OBVIOUS
  <1> DEFINE Kept == results # None /\ results' # results
                       => results' = None /\ status' = "running"
  <1>1. DisplayInv /\ SerialInv /\ [Next]_vars => [Kept]_vars
    <2> SUFFICES ASSUME DisplayInv, SerialInv, Next PROVE Kept
      OBVIOUS
    <2>1. ASSUME NEW r \in Runs, Api(r) \/ BeginRun(r) PROVE Kept
      BY <2>1 DEF Api, AcceptRun, DropRun, StartRun, BeginRun, ResetRun, shown
    <2>2. ASSUME NEW r \in Runs, Publish(r) PROVE Kept
      BY <2>2 DEF Publish, DisplayInv, ActiveShowsNothing, Active
    <2>3. ASSUME NEW r \in Runs, Progress(r) \/ Finish(r) \/ Save(r) \/ HandleError(r)
          PROVE Kept
      BY <2>3 DEF Progress, Finish, Interrupt, Complete, Raise, Save, Persist,
                  PersistFail, HandleError, shown
    <2>4. ASSUME NEW r \in Runs, DaemonClaim(r) PROVE Kept
      BY <2>4 DEF DaemonClaim
    <2>5. ASSUME NEW s \in Stoppers, StopRead(s) \/ StopSet(s) PROVE Kept
      BY <2>5 DEF StopRead, StopSet, shown
    <2>6. CASE PollStatus \/ DaemonCheck
      BY <2>6 DEF PollStatus, DaemonCheck, shown
    <2> QED
      BY <2>1, <2>2, <2>3, <2>4, <2>5, <2>6 DEF Next, Thread
  <1> QED
    BY <1>1, DisplayInvariant, SerialInvariant, PTL DEF Spec, ShownUntilNextRun
=============================================================================
