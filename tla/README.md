# Formal models of NetDiag (network-complex-diagnosis)

TLA+ modules about the parts of `netdiag_core` whose correctness depends on the
order of things: threads that share run state, a stop flag that travels between
them, an orchestrator that can be interrupted anywhere, a background sampler, a
settings file that is written in place, a pool of workers with retries; and about
the rules that turn measurements into findings, a score and a report.
TLC checks them on small instances; TLAPS proves the most important theorems for
every value of the constants.

Line numbers below are those of the sources under `src/netdiag_core/`.
`PROJECT.json` maps every definition to the lines it models.

## Inventory

| Component (sources) | State it keeps | Operations | Interacts with | What is hard |
|---|---|---|---|---|
| Diagnostic runs of the server (`server/state.py`, `server/routes_diag.py`, `server/app.py`) | `current_run` {status, progress, results, error}, `state.lock`, `stop_event`, the daemon's own `_lock` | POST /api/run, POST /api/stop, GET /api/status, worker thread `run_diag`, `daemon_loop` | calls the orchestrator, history store; polled by the browser | claim / finish / error races, stale stop flag, two locks, shallow copies of shared reports |
| Orchestrator and CLI (`orchestrate.py`, `cli.py`) | the results dict of one call | 20 or so probes in order, callback, `_stopcheck`, except clauses, analysis; `cli_main` writes files | every probe, analysis, caller's callback and flag | an interruption between any two steps; partial reports; answers without a single success |
| Live monitor (`monitor.py`, `server/routes_monitor.py`) | `MONITOR_STATE` {running, samples, events, outages, targets} under `MONITOR_LOCK` | start, stop, sampler thread, snapshot | configuration, probes; polled by the browser | restart while the old sampler lives, samples in flight, keys that come and go, bounded deques |
| Configuration and history (`config.py`, `server/routes_reports.py`) | `~/.netdiag/config.json`, `session_*.json` | load, save (clamped), save and list sessions | server, CLI, monitor, probes | in-place writes that readers, full disks and crashes cut off, names by the second, two directories |
| Tools tab (`server/routes_tools.py`, `server/tools_menu.py`, `frontend/js/app3.js`) | `tools_run_state`, one slot under `state.lock` | claim (409 if busy), run in a thread, poll | every probe | results shown under the wrong tool |
| Reliability and web probes (`probes/reliability.py`, `webprobes.py`, `verdicts.py`) | trials and counters of one call | attempts, retries, rounds on a thread pool, a second sequential pass, summaries, verdicts | settings, callback of the caller, diagnosis | first versus eventual outcome, rounds by number or deadline, denominators |
| Route and MTU (`probes/route.py`) | none; the bounds of one search | mtr/traceroute parsing, binary search for the MTU | system tools | lost pings, a host that never answers |
| Other probes (`ping`, `dns_tcp`, `sockets`, `throughput`, `wifi`, `netinfo`) | none | run a tool, parse, statistics | system tools | empty series, platform differences |
| Analysis (`analysis/*`, `stats.py`) | none; adds reconciliation, findings and score to the results | ICMP/TCP reconciliation, diagnoses by layer, score | reads the results dict, is read by the reports | four rules and two reports read the same loss in different ways; missing values, weights |
| Activity log (`runtime.py`) | a deque of 200 entries under a lock | append, read | every probe | none beyond its bound |
| Reports (`reporting.py`) | none | CSV, summaries, the evidence report for the ISP | reads the saved session | judges the gateway a second time, asks by title and layer of findings |
| Front end (`app1.js`, `app2.js`, partials), installers, `nettest.py` | – | formatting, user interface, packaging | | not state machines |

What makes each correct, in a sentence: of the diagnostics that `POST /api/run`
starts the server runs **one at a time, says truthfully whether one runs, and every
accepted run ends with one outcome that is shown and saved** (the Tools tab may run
`full_diagnostic` beside it, in its own slot); the orchestrator **starts nothing after a
stop and always hands back a coherent report**; the monitor's **outages are those
of its samples, and start and stop do what they say**; the configuration store
**loses no setting**; the tools tab **shows a tool its own result**; the
reliability probe's **counters add up**; the MTU search **returns the largest
size that passes**; the analysis **keeps rate limiting apart from packet loss,
beside a gateway passes over no host in trouble, says "no issues" of normal
measurements, and has evidence for what it asks of the ISP**, each within limits that
[What the models show](#what-the-models-show-of-the-code) names;
the score **stays between 0 and 100**. The hazards behind
these sentences are listed, line by line, in `PROJECT.json`.

## Modules

| Module | Models | Checked by |
|---|---|---|
| `SerialRuns` | what the server promises of the runs of one slot, that of `POST /api/run` or that of the tools: one at a time, each ends once | refinement from `RunControl` and `ToolRunner` |
| `RunControl` | the server's run control, thread by thread | `RunControl_*.cfg` |
| `RunControlProofs` | theorems about it | TLAPS |
| `DiagnosticCall` | what one call of `full_diagnostic` promises its caller | refinement from `Diagnostic` |
| `Diagnostic`, `MCDiagnostic` | one call, probe by probe, and what the CLI does with it | `Diagnostic*.cfg` |
| `DiagnosticProofs` | theorems about it | TLAPS |
| `Monitor`, `MCMonitor` | the live monitor | `Monitor*.cfg` |
| `MonitorProofs` | theorems about it | TLAPS |
| `ToolRunner` | the tool slot of the server and the cards that poll it | `ToolRunner.cfg` |
| `ToolRunnerProofs` | theorems about it | TLAPS |
| `MtuSearch` | the binary search of `mtu_probe`, ping by ping | `Probes.cfg`, through `Probes` |
| `ReliabilityProbe` | one call of `reliability_test`: workers, attempts, retries, rounds, passes, summary | the same |
| `ConfigStore` | settings and session files, their writers and readers, crashes | the same |
| `Probes`, `MCProbes` | runs that take settings from the store, probe, and save a session; and the tool | `Probes.cfg` |
| `ReliabilityProofs` | one call of `reliability_test`, lemma by lemma: what its counters count | TLAPS |
| `ProbesProofs` | theorems about `Probes` and the modules it composes | TLAPS |
| `Measurements` | the rows that probes hand to the analysis | `Analysis*.cfg`, through `Analysis` |
| `Reconcile`, `Layers`, `Verdicts`, `Score`, `IspReport` | `reconcile_icmp`, the `_diag_` rules, the verdicts of the reliability probe, `health_score`, `build_isp_report` | the same |
| `Analysis`, `MCAnalysis` | reconciliation, diagnosis, score and export one after the other | `Analysis.cfg` |
| `AnalysisProofs` | theorems about them | TLAPS |
| `CountingLemmas` | lemmas on the order of the naturals and on sums over finite sets, for `MonitorProofs`, `ReliabilityProofs` and `AnalysisProofs` | TLAPS |

`DiagnosticCall` is the seam between the two large modules. `RunControl` knows of
a call that it returns a full report, returns a partial one if the flag was set,
or raises (`Complete`, `Interrupt`, `Raise`); `Diagnostic` is shown to keep that
contract.

In the modules a definition that follows the comment `Mutant:` is the next
definition with a plausible bug in it. No action uses it; it shows that some
property would notice.

### RunControl

One action is one critical section of `state.lock`, or one access to shared state
outside of it. `lock` is a variable only because one critical section is long:
the worker keeps the lock while it writes the session file (`state.py:47-50`), so
`Publish` takes it, `Persist` or `PersistFail` gives it back, and everything that
needs the lock waits. The other sections do not block and are single actions.

| Actions | Code |
|---|---|
| `AcceptRun`, `DropRun`, `StartRun` | `api_run`: the claim, the argument parsing that may raise, the start of the thread. The handler is a coroutine without an `await` after the body is read, so requests do not overlap; a worker may run in between |
| `BeginRun`, `Progress`, `Interrupt`, `Complete`, `Raise` | `run_diag` up to the return of `full_diagnostic` |
| `Publish`, `Persist`, `PersistFail`, `HandleError` | the final critical section and the error handler |
| `StopRead`, `StopSet` | `api_stop`: the status is read under the lock, the flag set after it; the handler runs in a thread pool, so anything may happen between |
| `PollStatus` | `api_status`: the copy is shallow, so that it strips the samples from the report everybody shares |
| `DaemonCheck`, `DaemonClaim` | the `--daemon` loop; its lock is taken by nobody else and excludes nobody |

`asked`, and `saw` of a stop handler, are history: they record during which run a
stop began and which run it reached.

### Diagnostic

`Order` is the sequence of probes. Each passes the boundary (`Skip` or `Begin`:
the condition around it and, where the code has one, `_stopcheck`), the callback
before it (`Announce`), the probe itself (`Answer`), and the callback after it
(`Record`). `StopNoticed` is every place where `UserInterrupted` is raised,
`PressCtrlC` is `KeyboardInterrupt` in and outside of the `try`, `Analyse` the
reconciliation, diagnosis and score. A probe's answer is `ok` or `dead`: the
second stands for a series without a single success, whose percentiles are None.
The GUI polls a flag, the daemon loop has a callback and no flag, the CLI neither.

### Monitor

A sampler thread loads its targets, then goes round: look at the flag, take a
timestamp and probe (`Begin`), add the sample and update the outages under
`MONITOR_LOCK` (`Add`), perhaps read the targets again (`ReadTargets`). `Start`
makes a sampler whether or not an older one still lives, as `monitor_start` does.
A sample is the set of keys probed and whether each answered; round-trip times
and the statistics of a snapshot are left out. `log`, a history variable, keeps
all samples since the last start: the outages and events the code updates step by
step are compared with what they should be, computed from the log.

### ToolRunner

`RunTool` and `Refuse` are a click together with POST /api/tool/run, `Return` and
`Raise` the two ends of the tool's thread, `Poll` one round of `pollToolResult`.
A card is a tool in a tab. A card takes whatever an idle slot holds for its
answer. That this may be the answer to another card, which started its tool
between two polls, is part of the model; what is checked is that it is never an
older one.

### Probes

`Probes` composes three modules over one set of variables. A click (`Click`) reads
where sessions go; the worker reads the settings of the reliability probe when it
comes to it (`ReliabilityTest`), in a thread of its own, so that a save may be half
done then. `MtuProbe` and `WellknownTest` are the other optional probes; `ToolSearch` and
`ToolProbe` are the MTU search and the reliability probe from the Tools tab, with
parameters nobody clamps and without a callback. `Finish` and `SaveSession` are the end of a run.

In `MtuSearch` the path has a largest payload `fits`, unknown to the search, and
some of the pings that would fit are lost. In `ReliabilityProbe` a job is a target
in an address family; workers take jobs of a round (`FirstAttempt`), retry them
(`Retry`), and the round ends when all are done, since the code waits for it. The
trials of a pass are a bag, as nothing depends on their order.
In `ConfigStore` a file is the set of what can be read from it, one content or
none: `PostConfig` truncates, `WriteConfig` writes, `WriteConfigFails` is a full
disk, `Crash` may come at any time. `wanted` is history: the settings as the user
made them by the saves that were acknowledged, or the defaults after a write that
was cut off. `begun` and `kept` are the sessions opened and written.

While a run probes, the store rests. Nothing is lost by it: the settings are read in
the step that starts the probe and the session is written after it, so that whatever
happens to the store meanwhile commutes with the steps of the probe. For the same
reason a tool, which does not look at the store, runs before anything was stored,
and only the first run of an instance probes; the second one is there to overwrite
sessions.

### Analysis

Pure functions, and four steps. `Measurements` builds rows as the probes do, with
None where the code has None: percentiles without an answer, jitter of one answer.
Values are whole percents and milliseconds, ratios are in tenths, points of the
score in 1/120; the thresholds are those of the code and the instances lie on both
sides of each. Findings keep layer, severity, an idea for the title and the host
they are about. Where a value that is None is compared with a number, the step is
`Fail`, the TypeError that ends the run (the finding of `diagnostic_dead`).

## Runs

| Run | Question | Bounds and why they are enough |
|---|---|---|
| `runcontrol_gui` | is the server, without `--daemon`, correct? | three runs, so that one has both a predecessor and a successor; one stop handler, which may be reused; `full_diagnostic` may raise |
| `runcontrol_daemon` | what survives the daemon loop and every fault? | two runs, each of either kind; bad requests, raising probes and failing saves |
| `runcontrol_stale_stop` | can a late stop hit the next run? – yes | two runs, no fault |
| `runcontrol_two_locks` | does the daemon exclude requests? – no | one run of each kind |
| `diagnostic` | is an interrupted call coherent? | two hosts, names and TCP targets, so that a loop has a first and a last element; no, the default and all options; Ctrl-C twice |
| `diagnostic_dead` | is a stopped call always scored? – no | one target each |
| `monitor` | do outages match the samples over restarts? | two samplers alive at once; three samples of two keys, one of which may be missing; a window of two and one event, so that both deques overflow |
| `monitor_double` | is there one sampler per session? – no | a stop and a start |
| `tools` | do tools run one at a time, and do cards show what is new? | two tabs of two tools, so that cards of one tab, and the same tool in two tabs, compete; three jobs, so that a card may miss one |
| `analysis` | do findings, score and report agree with what was measured? | six families of reports, each the product of values on both sides of the thresholds of the rules that read them: pings with connections, traces, the own equipment, the optional tests, interrupted runs, reliability summaries. Rules of different families read different fields, so that the product of families adds nothing but size; about 157,000 states |
| `analysis_missing_layer` | are missing layers excluded from the denominator of the score? – no | the reports of interrupted runs |
| `probes` | do settings reach the probes, do sessions stay listed, do counters add up, is the MTU right? | two runs and two seconds, so that a session may or may not be written over; three bodies: below a limit, no number beside an unknown name, another directory; one job or none in a run, up to three in a tool, two rounds, retries to the limit; searches up to 60, 1500 and 9000 on paths around the smallest size and the ends of the searches, one lost ping |

The runs of violations are about what a comment or a requirement says and
the code does not do; `PROJECT.json` quotes the lines.

`diagnostic`, `tools`, `probes` and the runs of the analysis and the monitor do not check for
deadlock, because a call ends and because the number of samples, starts, jobs and
runs is bounded: the model stops there by intention.
In `RunControl` a stop request is possible whenever the lock is free, so deadlock is checked.

### Fairness

Requests, stops, polls, Ctrl-C and the daemon's timer are not fair: nobody has to
make them. Weak fairness is assumed of what a thread does next once it was
started. The code justifies it: each probe is bounded by a timeout
(`runtime.py:61-71`, socket timeouts), no critical section waits for another, and
Python threads are preemptive. Under it every started thread ends
(`ThreadsEnd`), every accepted run and tool ends (`ImplementsSerialRuns`), a call
returns (`KeepsContract`), and a stopped monitor comes to rest (`StopIsNoticed`).

## Proofs

All theorems hold for every value of the constants that satisfies the modules'
assumptions (`RunControlAssumption`: None is no run, faults are known faults;
`DiagnosticAssumption`: natural numbers, known options; `ToolRunnerAssumption`: None
is no job and no tool; `MonitorAssumption`: finitely many samplers, distinct keys,
deques that hold something; `StoreAssumption` and `DirectoryAssumption`: defaults
within their limits, limits that `reliability_test` accepts, directories that are
known; `SearchAssumption`: sizes are numbers; `PhasesAssumption`, `TallyAssumption`
and `CallAssumption`: failures have known phases, numbers of rounds and deadlines are
natural, a list of targets is finite and names none twice, None is no record;
`AnalysisAssumption`: measurements are those the probes can make, `WellFormed` in
`Analysis`, where each host was pinged once, as the dictionary of
`reporting.py:193` supposes; `ExportAssumption`: None is no report). TLC evaluates
each of them on its run.

Every safety property that a passing run checks is now a theorem as well: all its
invariants, its action properties, and the safety half of its refinements.

`RunControlProofs`
* `TypeCorrect`: `TypeOK` is inductive.
* `LockSafety`, `SessionSafety`: any faults, with the daemon. `GuiSessionsWhole` is
  not inductive, because a poll may strip a report that has yet to be saved unless
  one knows that the lock protects it; `SessionInv` adds who holds the lock, that
  only published reports are stripped, and that a GUI run that saves still has its
  samples.
* `SerialSafety`, `StatusSafety`: without the daemon and without failing saves
  and well-formed requests (`GuiOnly`; the run `runcontrol_two_locks` and
  the hazards at `routes_diag.py:99` and `state.py:52` show why). Neither is
  inductive alone, because a claim is let in by the status: `SerialInv` takes both
  together, with the owners of the runs and what each phase says of the report;
  that a run which has published its status still holds the lock while it saves
  comes from `LockSafety`.
* `StopSafety`: with every fault and the daemon. `StopInv` adds that
  while the flag is set every active run from the GUI has been asked to stop, and that
  a run not yet claimed belongs to nobody.
* `ProgressSafety`, `DoneIsSaved`, `ReportStaysShown`: under `GuiOnly`. `DisplayInv`
  says that an active run shows nothing yet, and that a report on display is that of
  a run which is over or is writing its session behind the lock; a poll that waits
  for the lock therefore waits for the file.
* `ServerImplementsSerialRuns`: under the same assumption, initial states map to
  initial states, and every step to a step of `SerialRuns` or a stutter. `Publish`
  and `HandleError` map to `End`, `AcceptRun` to `Accept`, all else stutters.

`DiagnosticProofs`
* `TypeCorrect`, for any number of targets: the length of `Order` is never computed.
* `ReportCoherent`, `UnmarkedComplete`: the invariant adds what `pc` says of the
  probe at hand: recorded or not, wanted or not, and that an unmarked call is past
  the last probe when it is analysed.
* `StopStartsNothing`: an action property, from the guards and from only the GUI
  ever having the flag set.
* `CallKeepsContract`: the safety half of `KeepsContract`. `MarkWasAsked` says that
  only Stop and Ctrl-C mark a report; `Analyse` and a Ctrl-C outside of the `try`
  map to `End`, other interruptions to `Ask`, all else stutters.

`ToolRunnerProofs`
* `TypeCorrect`, `RefusalSafety`: that at most one tool runs is what makes the
  latter inductive.
* `CardSafety`, `PollIsAnswered`: `CardInv` lists the jobs in the order of their
  acceptance (a history sequence), each once; an idle slot holds the answer of the
  last of them, and what a card shows stands no earlier in it than what it started.
* `ToolsImplementSerialRuns`: the safety half of the refinement.

`MonitorProofs`
* `LateSafety`: `LogIsKept` says that no two samples bear the same timestamp, added
  or on their way, that the window is the end of the log, and that a sampler which
  still works on a sample of an earlier session has added none since the restart
  (`LateOnce`). As many samplers as one likes may be alive.
* `SamplerSafety`: a running monitor has a sampler, or one that found no targets.
* `OutageSafety`: `OutagesKept`. The outages the code keeps, key by key, are
  compared with `OutagesIn(log)`, which looks at the whole log; the step (`OutagesNext`)
  is that a sample more changes only the entries of its keys.
* `EventSafety`: `EventsKept` carries a sequence, in order, of *all* outages that an
  answer has ended; the events are its last `MaxEvents`. Without it the deque that has
  dropped an event would not determine the next one. `EventsMatchSamples` speaks
  of sets: that the events differ, and that what is missing is older than
  `MaxEvents` others, follows from the order of that sequence.
* `TypeCorrect`: from these.

`ReliabilityProofs` and `ProbesProofs`
* `MtuCorrect`: `MtuIsLargest` speaks of the last answer, and is not inductive
  without what the bounds say: everything up to `last_ok` fits, `low` is just above
  it, and unless a ping was lost nothing above `high` fits (`SearchInv`, the loop
  invariant of `mtu_probe`).
* `SettingsSafety`: `SettingsInv` says that `config.json` holds exactly what the user
  meant, or is empty while it is being written or because everything was lost; that
  the body a handler is writing was applied to that; and that numbers are within
  their limits, so that the probe's own validation changes nothing.
* `SessionSafety`: the file of a kept session is its own or that of a later session
  of the same second. It needs that sessions are begun in the order of their runs
  (`AllBefore`), which in turn needs that the tool cannot be stopped.
* `CountSafety`: `CountersAddUp` speaks of the result. `CountInv` relates it to
  the work: in each pass, the trials kept so far and the jobs that wait or are in
  flight make `round + 1` times the jobs of a round. From that the lengths of both
  passes follow (`HighDone`, `LowDone`). The summary adds up because families,
  targets, phases and outcomes each split the bag into disjoint parts (`SumByParts`).
* `TypeCorrect`: all of these, `FilesInv` (files and sessions are of runs) and
  `StageInv` (a run belongs to a server that is up, one probe is under way).

`AnalysisProofs`
* The state space is a product of inputs, and the invariant `StageInv` says no more
  than which function made each variable; the theorems are about the functions, for
  any number of hosts and any values.
* `LossSafety`, `BadHostSafety`, `AllClearSafety`, `AskSafety`, `FlakySafety`: every
  finding has a rule that made it (`FindingOrigins`), and each rule its condition
  (`LossFindings`, `MtrFindings`, `AppFindings` and others); for the all-clear, the
  rules the other way round: one that finds nothing measured what is normal
  (`QuietHosts`, `CleanLink` and others). `LossSafety` is about *heavy phantoms*, loss of 20 % or more of a
  host that the transport reaches, because `reconcile_icmp` looks at no other; those
  are the hosts it filters. Lighter loss the code
  reports, see below.
* `ScoreSafety`: the score is compared with that of the same measurements in which
  some filtered hosts had answered every ping. For the hosts whose TCP never fails or
  is not tested, the points of a host do not rise by that, a mean of smaller terms is
  no larger (`SumOfSmaller`), and weights and rounding keep the order. For all
  filtered hosts, up to 20 % of whose connects may fail, the points of a host rise by
  30 of 100 at most (score.py:43), so that the sum of n hosts rises by 30 n
  (`SumShifted`), and the layer by 30; it weighs 25 of 100 and the weights of missing
  layers are added to the denominator, which leaves 8 points.
* `TypeCorrect`: every layer has at most its full points, so that the score is
  at most 100.

Induction. The library's induction rules cannot be used by the provers here. Where
a proof needs one, `CountingLemmas` takes a least counterexample instead: if
some natural, or some finite set, did not have a property, there would be a smallest
one (`LeastOfNaturals`, `SmallestSet`), and that is contradicted. In this way the
sums of the community modules, which are defined by recursion, are shown to exist, to be
unique, and to take their terms in any order (`SumExists`, `SumTakesAny`).

Only model-checked: liveness, which is out of the prover's reach (`ThreadsEnd`,
`InterruptedRunIsSaved`, `StopIsNoticed`, and the liveness halves of both
refinements of `SerialRuns` and of `KeepsContract`).

## What the models show of the code

Besides the findings in `PROJECT.json`, the models contain the following, each as
the code has it. No run checks them against a document; the properties name them as
exceptions where they meet them.

* Without a known gateway no rule looks at the hosts, nor at the retransmits
  (`analysis/layers_path.py:54-76`, `layers_local.py:125`), and none looks at downloads
  that all failed (`layers_app.py:110`, `webprobes.py:47`). `AllClearIsTrue` and
  `EveryBadHostReported` name these exceptions. The diagnosis then says that all tests
  passed within normal parameters (`engine.py:49`).
* Loss of 5 to 19 % of a host that takes every TCP connect is a bad "External path
  unstable" and "real loss" in the ISP report, as `reconcile.py:50` compares from 20 %
  only, although `constants.py:12-13` says that packet loss which the working TCP layer
  contradicts is never reported; traces are compared from 5 % (`layers_path.py:119`).
* With more than 50 retransmits and clean pings the gateway is found bad, and the ISP
  report says `LOCAL NETWORK: HEALTHY` (`reporting.py:147-148`) and may ask about
  routing. Beside a gateway that loses packets it may ask about the loss of a trace
  (`reporting.py:253`), although that finding says that everything downstream is
  unreliable until it is fixed (`layers_local.py:146-147`).
* A body that breaks the argument parsing of `POST /api/run` leaves the status at
  running for good (`routes_diag.py:99`): every later request is refused.
* A rate-limited host is charged for its connects that fail, up to 20 % of them, in
  the internet layer (`score.py:43`) besides the TCP layer (`score.py:62`), so that
  it may score below a host that answers its pings.
* A host that answers no ping has an MTU of 96 (`route.py:114`).
* With another `history_dir`, every setting of the reliability probe is the default,
  since settings are saved at home only (`orchestrate.py:231`, `config.py:76`), and
  the session is not listed (`routes_reports.py:41`).
* A save that is cut off, by a crash or a full disk, resets every setting without a
  word (`config.py:56-57`).
* Stop during the reliability probe discards its trials (`reliability.py:233-236`).

Three more lie in what the models leave out: a target that is named twice is
reported twice, each time with the trials of both (`reliability.py:281-282`), so that
the targets add up to more than all trials; `next(seq)` is taken twice per attempt
(`reliability.py:94` and `110`), so that with two addresses the sequential pass does
not rotate; and the hint of the monitor that no issue was seen is given although TCP
fails, if there is no gateway (`monitor.py:205-217`).

## Not modelled

Content: what probes measure, texts, layout of reports, charts, platform
differences. The parsers of system tools (`netinfo.py`, `wifi.py`, `throughput.py`,
`sockets.py`, the traces in `route.py`) turn text into fields and keep no state; the
analysis starts from those fields. The catalogue of `tools_menu.py` is data, of which
the entry of the reliability probe is modelled. Another of its entries calls
`full_diagnostic` (`tools_menu.py:280-322`); for `ToolRunner` it is a job like any
other, and that it may run beside a diagnostic of `POST /api/run`, both loading the
line, is not modelled: the slots are claimed independently, each serial by itself. `nettest.py` is an earlier
standalone version that the package does not use. The front end beyond the requests
it may send and the cards of the Tools tab, installers. The activity log, a bounded
deque that nothing depends on. The statistics and hints of a monitor snapshot. Crashes of
the process in `RunControl`, `Monitor` and `ToolRunner`: their state is in memory
only and is gone with the process; what a crash leaves on disk is in `ConfigStore`.

## Plan

1. Done: the server, the orchestrator, the monitor, the tool slot, the settings and
   sessions, the reliability probe, the MTU search, the analysis and the ISP report.
2. Done: proofs of every safety property that a passing run checks.
3. The hints of a monitor snapshot, against the samples of its window, with a theorem
   that none contradicts the samples.
4. `RunControl` and `Diagnostic` composed: that `Complete`, `Interrupt` and `Raise` are
   the steps `End` of `DiagnosticCall`, so far an argument of this page.
