----------------------------- MODULE ToolRunner -----------------------------
(***************************************************************************)
(* The Tools tab: the one slot for a tool that runs, on the server         *)
(* (netdiag_core/server/routes_tools.py), and the cards of the browser     *)
(* tabs that start tools and poll the slot (frontend/js/app3.js).          *)
(*                                                                         *)
(* A job is one run of a tool.  The server's critical sections never block *)
(* and are single actions.  Nobody else sees a request or its reply while  *)
(* it is under way, so a request is served and answered in one action; a   *)
(* reply may be lost.                                                      *)
(***************************************************************************)
EXTENDS Naturals, Sequences

CONSTANTS
    Tabs,   \* browser tabs
    Tools,  \* the catalogue, TOOLS_MENU
    Jobs,   \* the jobs there can be: bounds how often a tool is run
    None    \* no job, no tool

ASSUME ToolRunnerAssumption == None \notin Jobs \union Tools

Cards == Tabs \X Tools
\* Mutant: the tab is taken for the tool.
ToolOfTab(c) == c[1]
ToolOf(c) == c[2]

VARIABLES
    slot,     \* state.tools_run_state
    job,      \* how far a job has come
    from,     \* the card it was started from
    card,     \* whether a card is ready, or polls for the job it started
    shown,    \* the job whose result or error a card shows, and which of the two
    accepted  \* history variable: the jobs in the order they were accepted

vars == <<slot, job, from, card, shown, accepted>>

Ready == [at |-> "ready", own |-> None]
Blank == [job |-> None, as |-> "blank"]

TypeOK ==
    /\ slot \in [running : BOOLEAN, tool_id : Tools \union {None},
                 result : Jobs \union {None}, error : Jobs \union {None}]
    /\ job \in [Jobs -> {"unused", "running", "done", "failed"}]
    /\ from \in [Jobs -> Cards \union {None}]
    /\ card \in [Cards -> [at : {"ready", "polling"}, own : Jobs \union {None}]]
    /\ shown \in [Cards -> [job : Jobs \union {None}, as : {"blank", "done", "failed"}]]
    /\ accepted \in Seq(Jobs)

Init ==
    /\ slot = [running |-> FALSE, tool_id |-> None, result |-> None, error |-> None]
    /\ job = [j \in Jobs |-> "unused"]
    /\ from = [j \in Jobs |-> None]
    /\ card = [c \in Cards |-> Ready]
    /\ shown = [c \in Cards |-> Blank]
    /\ accepted = <<>>

-----------------------------------------------------------------------------
(* A definition that follows the comment "Mutant:" is the next one with a   *)
(* bug; no action uses it.                                                  *)

\* Mutant: the slot is not checked.
FreeAlways == TRUE
Free == ~slot.running

\* Mutant: the error of the last job is kept.
ClaimedKeepsError(c) ==
    [slot EXCEPT !.running = TRUE, !.tool_id = ToolOf(c), !.result = None]
Claimed(c) == [running |-> TRUE, tool_id |-> ToolOf(c), result |-> None, error |-> None]

\* Mutant: the error handler does not free the slot.
WithErrorBusy(j) == [slot EXCEPT !.error = j]
WithError(j) == [slot EXCEPT !.error = j, !.running = FALSE]

\* Mutant: the result is stored under a lock of its own, after the slot is free.
WithResultLate(j) == [slot EXCEPT !.running = FALSE]
WithResult(j) == [slot EXCEPT !.result = j, !.running = FALSE]

-----------------------------------------------------------------------------
\* A click on a card whose button is enabled, and POST /api/tool/run: the slot
\* is claimed and the thread started.  The card begins to poll, or is ready
\* again when the reply is lost.
RunTool(c, j) ==
    /\ card[c].at = "ready" /\ job[j] = "unused" /\ Free
    /\ slot' = Claimed(c)
    /\ job' = [job EXCEPT ![j] = "running"]
    /\ from' = [from EXCEPT ![j] = c]
    /\ accepted' = Append(accepted, j)
    /\ card' \in {card, [card EXCEPT ![c] = [at |-> "polling", own |-> j]]}
    /\ shown' = [shown EXCEPT ![c] = Blank]

\* The same while a tool runs: status 409, and the card says so.
Refuse(c) ==
    /\ card[c].at = "ready" /\ ~Free
    /\ shown' = [shown EXCEPT ![c] = Blank]
    /\ UNCHANGED <<slot, job, from, card, accepted>>

\* The tool returns, or raises.
Return(j) ==
    /\ job[j] = "running"
    /\ job' = [job EXCEPT ![j] = "done"]
    /\ slot' = WithResult(j)
    /\ UNCHANGED <<from, card, shown, accepted>>

Raise(j) ==
    /\ job[j] = "running"
    /\ job' = [job EXCEPT ![j] = "failed"]
    /\ slot' = WithError(j)
    /\ UNCHANGED <<from, card, shown, accepted>>

\* pollToolResult: a slot that is busy is polled again.  Otherwise the card shows
\* the error, or else the result, whichever job it is of.
Poll(c) ==
    /\ card[c].at = "polling" /\ ~slot.running
    /\ card' = [card EXCEPT ![c] = [@ EXCEPT !.at = "ready"]]
    /\ shown' = [shown EXCEPT ![c] =
                   IF slot.error # None THEN [job |-> slot.error, as |-> "failed"]
                   ELSE IF slot.result # None THEN [job |-> slot.result, as |-> "done"]
                   ELSE Blank]
    /\ UNCHANGED <<slot, job, from, accepted>>

-----------------------------------------------------------------------------
End(j) == Return(j) \/ Raise(j)

Next ==
    \/ \E c \in Cards : Refuse(c) \/ Poll(c) \/ \E j \in Jobs : RunTool(c, j)
    \/ \E j \in Jobs : End(j)

\* Every tool is bounded by its timeouts, and a card polls every 300 ms.
Spec == Init /\ [][Next]_vars
        /\ \A j \in Jobs : WF_vars(End(j))
        /\ \A c \in Cards : WF_vars(Poll(c))

-----------------------------------------------------------------------------
(* Properties                                                               *)

Running == {j \in Jobs : job[j] = "running"}

\* "A tool is already running" is answered exactly while one is, and names the
\* tool that is running, whatever the tools raise (routes_tools.py:41-59).
RefusalTellsTruth ==
    /\ slot.running <=> Running # {}
    /\ \A j \in Running : slot.tool_id = ToolOf(from[j])

\* What a card shows is no older than the job it started: a result that was
\* there before the click is never taken for the answer to it, and an error is
\* never shown as a result.
Position(j) == CHOOSE n \in 1..Len(accepted) : accepted[n] = j
ShownIsFresh ==
    \A c \in Cards :
        shown[c].as # "blank" =>
            /\ Position(shown[c].job) >= Position(card[c].own)
            /\ shown[c].as = job[shown[c].job]

\* A card that has polled shows something: no poll falls between the end of a
\* tool and the storing of its result (routes_tools.py:52-54).
NoEmptyAnswer ==
    [][\A c \in Cards : card[c].at = "polling" /\ card'[c].at = "ready"
                          => shown'[c] # Blank]_vars

\* Tools run one at a time, each accepted one ends, and the server goes on to
\* accept the next.
Serial == INSTANCE SerialRuns
            WITH Runs <- Jobs,
                 current <- IF Running = {} THEN None ELSE CHOOSE j \in Running : TRUE,
                 outcome <- [j \in Jobs |-> IF job[j] = "done" THEN "done"
                                            ELSE IF job[j] = "failed" THEN "error"
                                            ELSE "pending"]
ImplementsSerialRuns == Serial!Spec
=============================================================================
