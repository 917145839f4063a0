------------------------------ MODULE Monitor ------------------------------
(***************************************************************************)
(* The live monitor (netdiag_core/monitor.py): sampler threads that probe  *)
(* every layer about once a second, the window of samples and the record   *)
(* of outages they share, and the start and stop requests of               *)
(* server/routes_monitor.py.                                               *)
(*                                                                         *)
(* MONITOR_LOCK is never held across a blocking call, so a critical        *)
(* section is one action.  A timestamp is the number of the sample that    *)
(* bears it, in the order in which samples are begun.                      *)
(***************************************************************************)
EXTENDS Naturals, Sequences, FiniteSets

CONSTANTS
    Samplers,    \* the threads monitor_start may make: bounds the starts
    Keys,        \* the keys of a flattened sample, in its order
    TargetSets,  \* the keys monitor_targets may choose to probe
    Window,      \* maxlen of the deque of samples
    MaxEvents,   \* maxlen of the deque of events
    MaxSamples,  \* bounds how many samples are begun
    Faults       \* what may raise, a subset of {"targets", "sample"}

KeySet == {Keys[n] : n \in 1..Len(Keys)}

\* The keys of a flattened sample are those of a dict: no key comes twice.
ASSUME MonitorAssumption ==
    /\ IsFiniteSet(Samplers)
    /\ Keys \in Seq(STRING)
    /\ \A m, n \in 1..Len(Keys) : Keys[m] = Keys[n] => m = n
    /\ TargetSets \subseteq SUBSET KeySet
    /\ Window \in Nat \ {0} /\ MaxEvents \in Nat \ {0} /\ MaxSamples \in Nat
    /\ Faults \subseteq {"targets", "sample"}

VARIABLES
    running,   \* MONITOR_STATE["running"]
    samples,   \* the deque of samples
    events,    \* the deque of outages that are over
    outages,   \* the outages that are not, by key
    targets,   \* the keys of MONITOR_STATE["targets"]
    phase,     \* how far a sampler is
    flight,    \* the sample it works on
    clock,     \* how many samples were begun
    session,   \* how often the monitor was started: MONITOR_STATE["started_at"]
    log        \* history variable: all samples added since the last start

shared == <<running, samples, events, outages>>
ghosts == <<session, log>>
vars == <<shared, targets, phase, flight, clock, ghosts>>

\* A thread that was made and has not returned.
Alive(t) == phase[t] \in {"loading", "check", "probing", "pause"}

Stamp == [ts : 1..MaxSamples, by : Samplers, session : 0..Cardinality(Samplers)]
Plan == [stamp : Stamp, keys : TargetSets]
IsSample(sample) == sample.stamp \in Stamp /\ \E K \in TargetSets : sample.ok \in [K -> BOOLEAN]
Outage == [start : 1..MaxSamples, count : 1..MaxSamples]
Event == [target : KeySet, start : 1..MaxSamples, end : 1..MaxSamples, count : 1..MaxSamples]
NoPlan == <<>>

TypeOK ==
    /\ running \in BOOLEAN
    /\ Len(samples) <= Window /\ \A n \in 1..Len(samples) : IsSample(samples[n])
    /\ Len(events) <= MaxEvents /\ \A n \in 1..Len(events) : events[n] \in Event
    /\ DOMAIN outages \subseteq KeySet /\ \A k \in DOMAIN outages : outages[k] \in Outage
    /\ targets \in TargetSets \/ targets = {}
    /\ phase \in [Samplers -> {"unused", "loading", "check", "probing",
                               "pause", "ended", "died"}]
    /\ \A t \in Samplers : flight[t] = NoPlan \/ flight[t] \in Plan
    /\ clock \in 0..MaxSamples
    /\ session \in 0..Cardinality(Samplers)

Init ==
    /\ running = FALSE /\ samples = <<>> /\ events = <<>> /\ outages = <<>>
    /\ targets = {}
    /\ phase = [t \in Samplers |-> "unused"]
    /\ flight = [t \in Samplers |-> NoPlan]
    /\ clock = 0 /\ session = 0 /\ log = <<>>

Goto(t, p) == phase' = [phase EXCEPT ![t] = p]

-----------------------------------------------------------------------------
(* A definition that follows the comment "Mutant:" is the next one with a   *)
(* bug; no action uses it.                                                  *)

\* Mutant: nothing is ever dropped.
LatestAll(q, n) == q
\* What a deque of length n keeps of q.
Latest(q, n) == IF Len(q) > n THEN SubSeq(q, Len(q) - n + 1, Len(q)) ELSE q

Failed(sample) == {k \in DOMAIN sample.ok : ~sample.ok[k]}
Passed(sample) == {k \in DOMAIN sample.ok : sample.ok[k]}

\* Mutant: a key that is not in the sample loses its outage.
OutagesAfterProbedOnly(sample) ==
    [k \in Failed(sample) |->
        IF k \in DOMAIN outages THEN [outages[k] EXCEPT !.count = @ + 1]
        ELSE [start |-> sample.stamp.ts, count |-> 1]]
\* _update_outages: a failure opens an outage or adds to it, a success closes it.
OutagesAfter(sample) ==
    [k \in (DOMAIN outages \ Passed(sample)) \union Failed(sample) |->
        IF k \notin Failed(sample) THEN outages[k]
        ELSE IF k \in DOMAIN outages THEN [outages[k] EXCEPT !.count = @ + 1]
        ELSE [start |-> sample.stamp.ts, count |-> 1]]

\* The outages a sample closes become events, in the order of the keys.
InOrder(S) ==
    CHOOSE s \in [1..Cardinality(S) -> S] :
        \A m, n \in 1..Cardinality(S) : m < n => s[m] < s[n]
Over(sample) == {p \in 1..Len(Keys) : Keys[p] \in Passed(sample) \intersect DOMAIN outages}
Closed(sample) ==
    LET event(k) == [target |-> k, start |-> outages[k].start,
                     end |-> sample.stamp.ts, count |-> outages[k].count]
        over == InOrder(Over(sample))
    IN  [n \in DOMAIN over |-> event(Keys[over[n]])]

\* Mutant: a start keeps the samples of the last session.
ClearKeepsSamples == UNCHANGED samples /\ events' = <<>> /\ outages' = <<>>
\* Mutant: a start keeps the outages of the last session.
ClearKeepsOutages == samples' = <<>> /\ events' = <<>> /\ UNCHANGED outages
Clear == samples' = <<>> /\ events' = <<>> /\ outages' = <<>>

\* Mutant: the loop does not look at the flag.
GoesOnForever == TRUE
GoesOn == running

\* Mutant: an error in a sample ends the loop.
SurvivesNot(t) == Goto(t, "ended")
\* Whatever a sample raises is logged.
Survives(t) == Goto(t, "pause")

-----------------------------------------------------------------------------
(* The requests.                                                            *)

\* monitor_start, if the monitor is not running: otherwise it changes nothing.
\* It makes a sampler, also while an earlier one is still alive.
Start(t) ==
    /\ phase[t] = "unused" /\ ~running
    /\ running' = TRUE /\ Clear
    /\ Goto(t, "loading")
    /\ session' = session + 1 /\ log' = <<>>
    /\ UNCHANGED <<targets, flight, clock>>

Stop ==
    /\ running /\ running' = FALSE
    /\ UNCHANGED <<samples, events, outages, targets, phase, flight, clock, ghosts>>

-----------------------------------------------------------------------------
(* monitor_loop.                                                            *)

\* The targets are read at the start and again every minute.
ReadTargets(t, K) ==
    /\ phase[t] \in {"loading", "pause"} /\ K \in TargetSets
    /\ targets' = K /\ Goto(t, "check")
    /\ UNCHANGED <<shared, flight, clock, ghosts>>

\* monitor_targets raises, outside of the try: monitor_tcp_target has no port.
Die(t) ==
    /\ phase[t] \in {"loading", "pause"} /\ "targets" \in Faults
    /\ Goto(t, "died")
    /\ UNCHANGED <<shared, targets, flight, clock, ghosts>>

\* The loop comes round, with or without new targets.
Begin(t) ==
    /\ phase[t] \in {"check", "pause"} /\ GoesOn /\ clock < MaxSamples
    /\ clock' = clock + 1
    /\ flight' = [flight EXCEPT ![t] =
                    [stamp |-> [ts |-> clock + 1, by |-> t, session |-> session],
                     keys |-> targets]]
    /\ Goto(t, "probing")
    /\ UNCHANGED <<shared, targets, ghosts>>

Quit(t) ==
    /\ phase[t] \in {"check", "pause"} /\ ~GoesOn
    /\ Goto(t, "ended")
    /\ UNCHANGED <<shared, targets, flight, clock, ghosts>>

\* The sample is added and the outages are updated, whether or not the monitor
\* is still running.
Add(t, ok) ==
    LET sample == [stamp |-> flight[t].stamp, ok |-> ok] IN
    /\ phase[t] = "probing" /\ ok \in [flight[t].keys -> BOOLEAN]
    /\ samples' = Latest(Append(samples, sample), Window)
    /\ events' = Latest(events \o Closed(sample), MaxEvents)
    /\ outages' = OutagesAfter(sample)
    /\ log' = Append(log, sample)
    /\ flight' = [flight EXCEPT ![t] = NoPlan]
    /\ Goto(t, "pause")
    /\ UNCHANGED <<running, targets, clock, session>>

SampleError(t) ==
    /\ phase[t] = "probing" /\ "sample" \in Faults
    /\ flight' = [flight EXCEPT ![t] = NoPlan]
    /\ Survives(t)
    /\ UNCHANGED <<shared, targets, clock, ghosts>>

-----------------------------------------------------------------------------
Measure(t) == SampleError(t) \/ \E K \in TargetSets : \E ok \in [K -> BOOLEAN] : Add(t, ok)
Load(t) == Die(t) \/ \E K \in TargetSets : ReadTargets(t, K)

Next ==
    \/ Stop
    \/ \E t \in Samplers :
         Start(t) \/ Load(t) \/ Begin(t) \/ Quit(t) \/ Measure(t)

\* A thread that was made runs, and every probe has a timeout.  Requests are the
\* client's choice and are not fair.
Fairness ==
    \A t \in Samplers :
        /\ WF_vars(phase[t] = "loading" /\ Load(t))
        /\ WF_vars(Measure(t)) /\ WF_vars(Quit(t))

Spec == Init /\ [][Next]_vars /\ Fairness

-----------------------------------------------------------------------------
(* Properties                                                               *)

\* The samples at which k was probed, of those added since the last start, and
\* those right before the n-th at which it failed, as an outage describes them.
Probed(k) == {n \in 1..Len(log) : k \in DOMAIN log[n].ok}
FailuresBefore(k, n) ==
    {a \in Probed(k) : a < n /\ \A b \in Probed(k) : a <= b /\ b < n => ~log[b].ok[k]}
Described(failures) ==
    [start |-> log[CHOOSE a \in failures : \A b \in failures : a <= b].stamp.ts,
     count |-> Cardinality(failures)]

\* The outages that are kept step by step are the failures that have no answer
\* yet, with their first timestamp and their number, whichever threads added the
\* samples and whatever keys the targets changed to (monitor.py:73-89).
OutagesMatchSamples ==
    outages = [k \in {q \in KeySet : FailuresBefore(q, Len(log) + 1) # {}} |->
                   Described(FailuresBefore(k, Len(log) + 1))]

\* The events are the latest of the outages that an answer ended, each of them
\* once.
EventsMatchSamples ==
    LET ends == {o \in KeySet \X (1..Len(log)) :
                   /\ o[2] \in Probed(o[1]) /\ log[o[2]].ok[o[1]]
                   /\ FailuresBefore(o[1], o[2]) # {}}
        event(o) == LET outage == Described(FailuresBefore(o[1], o[2]))
                    IN  [target |-> o[1], start |-> outage.start,
                         end |-> log[o[2]].stamp.ts, count |-> outage.count]
        shown == {events[n] : n \in 1..Len(events)}
    IN  /\ shown \subseteq {event(o) : o \in ends}
        /\ Cardinality(shown) = Len(events)
        /\ \A o \in ends : event(o) \in shown
                           \/ Cardinality({q \in ends : q[2] >= o[2]}) > MaxEvents

\* A restart starts afresh: of what was measured before it, the window holds at
\* most the one sample each older sampler had begun (monitor.py:95-100,115-117).
OneLateSample ==
    \A m, n \in 1..Len(samples) :
        LET a == samples[m].stamp b == samples[n].stamp
        IN  m # n /\ a.by = b.by => a.session = session \/ b.session = session

\* A monitor that says it is running has a sampler, unless its targets cannot be
\* read: no error in a sample and no quick restart leaves it without one.
RunningIsSampled == running => \E t \in Samplers : Alive(t) \/ phase[t] = "died"

\* A monitor that stays stopped comes to rest: every sampler notices.
StopIsNoticed == ~running ~> running \/ \A t \in Samplers : ~Alive(t)

\* The window holds "~3 minutes of samples at 1 Hz" (monitor.py:15): one sampler
\* fills it in a session.
OneSampler ==
    \A m, n \in 1..Len(samples) :
        LET a == samples[m].stamp b == samples[n].stamp
        IN  a.session = session /\ b.session = session => a.by = b.by
=============================================================================
