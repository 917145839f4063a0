------------------------------- MODULE Probes -------------------------------
(***************************************************************************)
(* Runs with an optional probe at their end, over the store they take its  *)
(* settings from and save their sessions in (orchestrate.py:210-267,       *)
(* server/tools_menu.py:16-46, server/state.py:46-50): the MTU search, the *)
(* reliability probe, or the site fleet.  The Tools tab calls the          *)
(* MTU search and the reliability probe directly.                          *)
(*                                                                         *)
(* Diagnostic has the order of all probes and RunControl that there is one *)
(* run at a time; here a run is what it reads, what it measures with that, *)
(* and what is left of it.  While it probes, the store rests: by then the  *)
(* settings are read, so what happens to the store may as well happen      *)
(* before or after.                                                        *)
(***************************************************************************)
EXTENDS ReliabilityProbe, ConfigStore, MtuSearch

CONSTANTS
    Paths,        \* largest payloads that a path may carry
    Sizes,        \* largest payloads that the tool may be asked to try
    Losses,       \* bound on the pings lost in a search
    RunTargets,   \* lists of targets of a run, as sets
    ToolTargets,  \* and of a tool
    MaxTrials,    \* bound on the targets times the rounds of a tool
    Sites,        \* the site fleet
    Samples,      \* numbers of rounds that may be asked for
    Durations     \* and deadlines, 0 for none

ASSUME SearchAssumption == Paths \subseteq Int /\ Sizes \subseteq Nat

Options == {"none", "connection_test", "reliability_test", "wellknown_test"}

\* What a probe and a run may be called with, after validation.
Lists == RunTargets \union ToolTargets \union {Sites}
Calls == [label : {"reliability", "wellknown"}, targets : Lists, ipv : {0, 4, 6},
          samples : Nat \ {0}, duration : Nat, concurrency : Nat \ {0}, retries : Nat,
          compare : BOOLEAN, callback : BOOLEAN]
Args == [option : Options, history_dir : Directories]

ASSUME CallAssumption ==
    /\ \A targets \in Lists : TargetsOK(targets)
    /\ Samples \subseteq Nat /\ Durations \subseteq Nat
    /\ None \notin Calls /\ None \notin Args

VARIABLES
    run,    \* the last run that was started
    stage,  \* "idle", "started", "probing" or "saving"
    args,   \* what the run was started with, or None
    asked   \* history: what the user had set when the probe read the settings

vars == <<searchVars, probeVars, storeVars, run, stage, args, asked>>

Init ==
    /\ NoSearch /\ NoProbe /\ EmptyStore
    /\ run = 0 /\ stage = "idle" /\ args = None /\ asked = None

-----------------------------------------------------------------------------
\* POST /api/run reads where sessions go, on the event loop, so that no write
\* of the settings can be under way.  Only the first run of an instance probes.
Click(option) ==
    /\ stage = "idle" /\ EventLoopFree /\ run + 1 \in Runs
    /\ run > 0 => option = "none"
    /\ args' = [option |-> option, history_dir |-> load_config(Home).history_dir]
    /\ run' = run + 1
    /\ stage' = IF option = "none" THEN "saving" ELSE "started"
    /\ UNCHANGED <<searchVars, probeVars, storeVars, asked>>

Starts(option) == stage = "started" /\ args.option = option /\ stage' = "probing"

\* A run tries no payload above the size of an Ethernet frame.
MtuProbe ==
    /\ Starts("connection_test")
    /\ \E f \in Paths : Search(EthernetSize, f)
    /\ UNCHANGED <<probeVars, storeVars, run, args, asked>>

\* The settings that this instance tells apart.
Used(cfg) ==
    [concurrency |-> cfg.reliability_concurrency, retries |-> cfg.reliability_retries]

\* The worker reads the settings of the probe when it comes to it, in a thread
\* of its own and from the directory of the sessions.
ReliabilityTest ==
    /\ Starts("reliability_test")
    /\ LET settings == Used(load_config(args.history_dir))
       IN \E targets \in RunTargets, n \in Samples, d \in Durations :
            StartProbe([label |-> "reliability", targets |-> targets, ipv |-> 0,
                        samples |-> n, duration |-> d, concurrency |-> settings.concurrency,
                        retries |-> settings.retries, compare |-> TRUE, callback |-> TRUE])
    /\ asked' = [settings |-> Used(wanted),
                 quiet |-> handler = {} /\ args.history_dir = Home]
    /\ UNCHANGED <<searchVars, storeVars, run, args>>

\* The sites are known by name.  No setting reaches this probe: config.json keeps
\* no duration or concurrency for it.
WellknownTest ==
    /\ Starts("wellknown_test")
    /\ StartProbe([label |-> "wellknown", targets |-> Sites, ipv |-> 4, samples |-> 10,
                   duration |-> 150, concurrency |-> 12, retries |-> 2, compare |-> FALSE,
                   callback |-> TRUE])
    /\ UNCHANGED <<searchVars, storeVars, run, args, asked>>

\* The tools have parameters of their own, no callback and no session.  They do
\* not look at the store, so that a store nobody used yet is enough for them.
StartsTool ==
    /\ stage = "idle" /\ run = 0 /\ up /\ disk = {} /\ handler = {} /\ clock = 1
    /\ stage' = "probing"

ToolSearch ==
    /\ StartsTool
    /\ \E m \in Sizes, f \in Paths : Search(m, f)
    /\ UNCHANGED <<probeVars, storeVars, run, args, asked>>

ToolProbe ==
    /\ StartsTool
    /\ \E targets \in ToolTargets, ipv \in {0, 4, 6}, n \in Samples \union {0},
          retries \in {-1, 2}, compare \in BOOLEAN :
         /\ Cardinality(targets) * n <= MaxTrials
         /\ StartProbe([label |-> "reliability", targets |-> targets, ipv |-> ipv, samples |-> n,
                        duration |-> 0, concurrency |-> 2, retries |-> retries,
                        compare |-> compare, callback |-> FALSE])
    /\ UNCHANGED <<searchVars, storeVars, run, args, asked>>

ProbeStep ==
    /\ stage = "probing"
    /\ \/ Ping(Losses) /\ UNCHANGED <<probeVars, stage>>
       \/ /\ \/ \E j \in queue, o \in Phases \union {"ok"} : FirstAttempt(j, o)
             \/ \E j \in DOMAIN flight, ok \in BOOLEAN : Retry(j, ok)
             \/ NextRound
             \/ EndPass
          /\ UNCHANGED <<searchVars, stage>>
       \/ StopProbe /\ stage' = "saving" /\ UNCHANGED searchVars
    /\ UNCHANGED <<storeVars, run, args, asked>>

\* What was measured goes into the session, or to the card of the tool.
Forget ==
    /\ fits' = -1 /\ max_size' = -1 /\ lost' = 0
    /\ low' = Smallest /\ high' = -1 /\ last_ok' = Smallest
    /\ call' = None /\ result' = None /\ pass' = "over" /\ round' = 0
    /\ queue' = {} /\ flight' = <<>> /\ trials' = [high |-> <<>>, low |-> <<>>]
    /\ asked' = None

ProbeAnswered == Searched \/ (call # None /\ ~Probing)

Finish ==
    /\ stage = "probing" /\ ProbeAnswered
    /\ Forget
    /\ stage' = IF args = None THEN "idle" ELSE "saving"
    /\ UNCHANGED <<storeVars, run, args>>

SaveSession ==
    /\ stage = "saving" /\ OpenSession(run, args.history_dir)
    /\ stage' = "idle" /\ args' = None
    /\ UNCHANGED <<searchVars, probeVars, run, asked>>

-----------------------------------------------------------------------------
StoreStep ==
    /\ stage # "probing"
    /\ \/ \E body \in Updates : PostConfig(body)
       \/ WriteConfig
       \/ WriteConfigFails
       \/ WriteSession
       \/ Tick
       \/ Restart
    /\ UNCHANGED <<searchVars, probeVars, run, stage, args, asked>>

\* Runs live in the memory of the server.
Kill ==
    /\ stage # "probing" /\ Crash
    /\ stage' = "idle" /\ args' = None /\ Forget /\ UNCHANGED run

Next ==
    \/ \E option \in Options : Click(option)
    \/ MtuProbe \/ ReliabilityTest \/ WellknownTest
    \/ ToolSearch \/ ToolProbe
    \/ ProbeStep \/ Finish \/ SaveSession
    \/ StoreStep \/ Kill

Spec == Init /\ [][Next]_vars

-----------------------------------------------------------------------------
\* The state of the store, of the two probes and of the run.
TypeOK ==
    /\ StoreTypeOK /\ ProbeTypeOK /\ SearchTypeOK
    /\ stage \in {"idle", "started", "probing", "saving"}
    /\ stage = "probing" => (call # None) # (max_size # -1)
    /\ stage \in {"started", "saving"} => args # None /\ up

\* The settings tab and the runs stay in sync (config.py:14-18): a reliability
\* probe works with the settings as the user had made them when it began.  Only
\* if a save was under way at that moment, or sessions go to another directory,
\* does it work with the defaults instead, and never with a mixture of the two;
\* no save that was acknowledged is undone by a later one.
SettingsReachProbe ==
    stage = "probing" /\ call # None /\ args # None /\ call.label = "reliability" =>
        LET got == [concurrency |-> call.concurrency, retries |-> call.retries]
        IN /\ got \in {asked.settings, Used(Defaults)}
           /\ asked.quiet => got = asked.settings
=============================================================================
