---------------------------- MODULE ProbesProofs ----------------------------
(***************************************************************************)
(* Theorems about Probes: what the MTU search finds, for every path, every *)
(* largest size and any number of lost pings; which settings a probe works *)
(* with and which sessions are listed, for any updates, crashes and runs;  *)
(* what the counters of a reliability probe add up to.                     *)
(***************************************************************************)
EXTENDS Probes, ReliabilityProofs, TLAPS

\* Everything up to the last answer fits, and without a loss nothing above the
\* current range does.
SearchInv ==
    /\ {fits, max_size, low, high, last_ok, lost} \subseteq Int
    /\ lost >= 0 /\ low >= Smallest /\ high <= max_size
    /\ \/ last_ok = Smallest /\ low = Smallest
       \/ last_ok = low - 1 /\ last_ok <= fits /\ last_ok <= max_size /\ last_ok >= Smallest
    /\ high >= low - 1 \/ (low = Smallest /\ high = max_size)
    /\ lost = 0 /\ max_size # -1 => high = max_size \/ high >= fits

\* Before the first search nothing was claimed.
LEMMA SearchInit == NoSearch => SearchInv
  BY DEF NoSearch, SearchInv, Smallest

\* A new search has tried nothing yet.
LEMMA NewSearch == \A m \in Int, f \in Int : Search(m, f) => SearchInv'
  BY DEF Search, SearchInv, Smallest

\* After a search nothing is claimed any more.
LEMMA ForgetSearch == Forget => SearchInv'
  BY DEF Forget, SearchInv, Smallest

\* Either answer to a ping keeps the bounds: mid lies between them.
LEMMA PingKeeps == ASSUME NEW losses, SearchInv, Ping(losses) PROVE SearchInv'
<1> USE DEF SearchInv, Smallest
<1>0. Searching /\ low <= high /\ UNCHANGED <<fits, max_size>>
  BY DEF Ping, Searching
<1>1. /\ Middle \in Int /\ low <= Middle /\ Middle <= high
  BY <1>0 DEF Middle
<1>2. CASE Answered
  BY <1>0, <1>1, <1>2 DEF Answered
<1>3. CASE Unanswered(losses)
  BY <1>0, <1>1, <1>3 DEF Unanswered
<1> QED BY <1>2, <1>3 DEF Ping

\* The bounds speak of the search alone.
LEMMA SearchUnchanged == SearchInv /\ UNCHANGED searchVars => SearchInv'
  BY DEF SearchInv, searchVars

\* No step of a run, of another probe or of the store touches a search.
LEMMA SearchStep == SearchInv /\ [Next]_vars => SearchInv'
<1> SUFFICES ASSUME SearchInv, [Next]_vars PROVE SearchInv'
  OBVIOUS
<1> USE SearchUnchanged
<1>1. ASSUME NEW option \in Options, Click(option) PROVE SearchInv'
  BY <1>1 DEF Click
<1>2. CASE MtuProbe
  <2>1. PICK f \in Paths : Search(EthernetSize, f)
    BY <1>2 DEF MtuProbe
  <2>2. EthernetSize \in Nat
    BY DEF EthernetSize
  <2> QED BY <2>1, <2>2, NewSearch, SearchAssumption
<1>3. CASE ReliabilityTest
  BY <1>3 DEF ReliabilityTest
<1>4. CASE WellknownTest
  BY <1>4 DEF WellknownTest
<1>5. CASE ToolProbe
  BY <1>5 DEF ToolProbe
<1>6. CASE ProbeStep
  BY <1>6, PingKeeps DEF ProbeStep
<1>7. CASE Finish
  BY <1>7, ForgetSearch DEF Finish
<1>8. CASE SaveSession
  BY <1>8 DEF SaveSession
<1>9. CASE StoreStep
  BY <1>9 DEF StoreStep
<1>10. CASE Kill
  BY <1>10, ForgetSearch DEF Kill
<1>11. CASE UNCHANGED vars
  BY <1>11 DEF vars
<1>12. CASE ToolSearch
  <2>1. PICK m \in Sizes, f \in Paths : Search(m, f)
    BY <1>12 DEF ToolSearch
  <2> QED BY <2>1, NewSearch, SearchAssumption
<1> QED BY <1>1, <1>2, <1>3, <1>4, <1>5, <1>6, <1>7, <1>8, <1>9, <1>10, <1>11, <1>12 DEF Next

\* The MTU search never claims more than the path carries, and finds exactly
\* that unless a ping is lost: mtu_probe, for any path and any largest size.
THEOREM MtuCorrect == Spec => []MtuIsLargest
<1>1. Init => SearchInv
  BY SearchInit DEF Init
<1>2. SearchInv => MtuIsLargest
  BY DEF SearchInv, MtuIsLargest, Searched, mtu, Larger, Smaller, Smallest, Headers
<1> QED BY <1>1, <1>2, SearchStep, PTL DEF Spec

-----------------------------------------------------------------------------
(* Settings.                                                                *)

Bounded(cfg) ==
    \A k \in Numbers : cfg[k] \in Nat /\ LIMITS[k][1] <= cfg[k] /\ cfg[k] <= LIMITS[k][2]

\* config.json holds what the user meant, or nothing: then it is being written,
\* or all settings are back at their defaults.
SettingsInv ==
    /\ DOMAIN wanted = DOMAIN Defaults /\ Bounded(wanted)
    /\ disk \subseteq {wanted}
    /\ handler = {} /\ disk = {} => wanted = Defaults
    /\ handler # {} => up /\ disk = {}
    /\ \A h \in handler : h.cfg = Meant(wanted, h.body)

\* The defaults are within their limits.
LEMMA DefaultsBounded == Bounded(Defaults)
  BY StoreAssumption DEF Bounded

\* A save keeps every number within its limits.
LEMMA MeantBounded ==
    ASSUME NEW cfg, NEW body, DOMAIN cfg = DOMAIN Defaults, Bounded(cfg)
    PROVE  DOMAIN Meant(cfg, body) = DOMAIN Defaults /\ Bounded(Meant(cfg, body))
<1>1. DOMAIN Meant(cfg, body) = DOMAIN Defaults
  BY DEF Meant
<1>2. ASSUME NEW k \in Numbers
      PROVE  /\ Meant(cfg, body)[k] \in Nat
             /\ LIMITS[k][1] <= Meant(cfg, body)[k] /\ Meant(cfg, body)[k] <= LIMITS[k][2]
  <2>1. k \in DOMAIN cfg /\ k \in DOMAIN LIMITS
    BY StoreAssumption
  <2>2. LIMITS[k][1] \in Nat /\ LIMITS[k][2] \in Nat /\ LIMITS[k][1] <= LIMITS[k][2]
    BY StoreAssumption
  <2>3. CASE Accepted(body, k)
    <3>1. body[k] \in Int /\ Meant(cfg, body)[k] = Between(LIMITS[k], body[k])
      BY <2>1, <2>3 DEF Meant, Accepted, Within
    <3> QED BY <2>2, <3>1 DEF Between
  <2>4. CASE ~Accepted(body, k)
    <3>1. Meant(cfg, body)[k] = cfg[k]
      BY <2>1, <2>4 DEF Meant
    <3> QED BY <3>1 DEF Bounded
  <2> QED BY <2>3, <2>4
<1> QED BY <1>1, <1>2 DEF Bounded

\* Between saves, what is loaded at home is what the user meant.
LEMMA LoadedIsWanted ==
    ASSUME SettingsInv
    PROVE  /\ \A d : load_config(d) \in {wanted, Defaults}
           /\ handler = {} => load_config(Home) = wanted
  BY DEF SettingsInv, load_config, Stored

\* What save_config computes is what the body means.
LEMMA UpdatedIsMeant ==
    ASSUME NEW cfg, NEW body, DOMAIN cfg = DOMAIN Defaults
    PROVE  Updated(cfg, body) = Meant(cfg, body)
  BY DEF Updated, Meant

\* A new server works with the defaults.
LEMMA SettingsInit == EmptyStore => SettingsInv
  BY DefaultsBounded DEF EmptyStore, SettingsInv

\* The invariant speaks of the settings alone.
LEMMA SettingsUnchanged == SettingsInv /\ UNCHANGED <<disk, handler, up, wanted>> => SettingsInv'
  BY DEF SettingsInv, Bounded, Meant, Accepted, Within, Between

\* Saves, whole or failed, leave the file with what was meant or empty.
LEMMA SettingsStoreStep == SettingsInv /\ StoreStep => SettingsInv'
<1> SUFFICES ASSUME SettingsInv, StoreStep PROVE SettingsInv'
  OBVIOUS
<1> USE SettingsUnchanged
<1>1. ASSUME NEW body \in Updates, PostConfig(body) PROVE SettingsInv'
  <2>1. handler' = {[body |-> body, cfg |-> Meant(wanted, body)]}
    BY <1>1, LoadedIsWanted, UpdatedIsMeant DEF PostConfig, EventLoopFree, SettingsInv
  <2>2. up /\ disk' = {} /\ UNCHANGED <<up, wanted>>
    BY <1>1 DEF PostConfig, EventLoopFree
  <2>3. \A h \in handler' : h.cfg = Meant(wanted', h.body)
    BY <2>1, <2>2
  <2>4. Bounded(wanted') /\ DOMAIN wanted' = DOMAIN Defaults
    BY <2>2 DEF SettingsInv
  <2> QED BY <2>1, <2>2, <2>3, <2>4 DEF SettingsInv, Bounded
<1>2. CASE WriteConfig
  <2>1. PICK h \in handler : disk' = {h.cfg} /\ wanted' = Meant(wanted, h.body)
    BY <1>2 DEF WriteConfig
  <2>2. disk' = {wanted'} /\ handler' = {}
    BY <1>2, <2>1 DEF WriteConfig, SettingsInv
  <2>3. DOMAIN wanted' = DOMAIN Defaults /\ Bounded(wanted')
    BY <2>1, MeantBounded DEF SettingsInv
  <2> QED BY <2>2, <2>3 DEF SettingsInv, Bounded
<1>3. CASE WriteConfigFails
  BY <1>3, DefaultsBounded DEF WriteConfigFails, SettingsInv, Bounded
<1>4. CASE WriteSession
  BY <1>4 DEF WriteSession
<1>5. CASE Tick
  BY <1>5 DEF Tick
<1>6. CASE Restart
  BY <1>6 DEF Restart, SettingsInv, Bounded
<1> QED BY <1>1, <1>2, <1>3, <1>4, <1>5, <1>6 DEF StoreStep

\* A crash leaves the file as it is, cut off if it was being written.
LEMMA SettingsCrash == SettingsInv /\ Crash => SettingsInv'
<1> SUFFICES ASSUME SettingsInv, Crash PROVE SettingsInv'
  OBVIOUS
<1>1. wanted' = wanted \/ wanted' = Defaults
  BY DEF Crash
<1>2. DOMAIN wanted' = DOMAIN Defaults /\ Bounded(wanted')
  BY <1>1, DefaultsBounded DEF SettingsInv
<1>3. handler' = {} /\ disk' \subseteq {wanted'} /\ (disk' = {} => wanted' = Defaults)
  BY DEF Crash, SettingsInv
<1> QED BY <1>2, <1>3 DEF SettingsInv, Bounded

\* Every step of a run or a probe leaves the store's settings alone.
LEMMA SettingsStep == SettingsInv /\ [Next]_vars => SettingsInv'
<1> SUFFICES ASSUME SettingsInv, [Next]_vars PROVE SettingsInv'
  OBVIOUS
<1> USE SettingsUnchanged DEF storeVars
<1>1. ASSUME NEW option \in Options, Click(option) PROVE SettingsInv'
  BY <1>1 DEF Click
<1>2. CASE MtuProbe \/ ReliabilityTest \/ WellknownTest \/ ToolSearch \/ ToolProbe
  BY <1>2 DEF MtuProbe, ReliabilityTest, WellknownTest, ToolSearch, ToolProbe
<1>3. CASE ProbeStep
  BY <1>3 DEF ProbeStep
<1>4. CASE Finish
  BY <1>4 DEF Finish
<1>5. CASE SaveSession
  BY <1>5 DEF SaveSession, OpenSession
<1>6. CASE StoreStep
  BY <1>6, SettingsStoreStep
<1>7. CASE Kill
  BY <1>7, SettingsCrash DEF Kill
<1>8. CASE UNCHANGED vars
  BY <1>8 DEF vars
<1> QED BY <1>1, <1>2, <1>3, <1>4, <1>5, <1>6, <1>7, <1>8 DEF Next

\* Only a probe that is under way has parameters; what runs without arguments
\* is the tool's.
RunInv ==
    /\ stage = "idle" => args = None
    /\ stage # "probing" => call = None
    /\ SettingsReachProbe

\* A click starts no probe yet.
LEMMA ClickKeepsRun ==
    ASSUME RunInv, NEW option \in Options, Click(option) PROVE RunInv'
<1>1. stage' \in {"saving", "started"} /\ call' = None
  BY DEF Click, RunInv, probeVars
<1> QED BY <1>1 DEF RunInv, SettingsReachProbe

\* The probe is started with what was loaded just now, since the limits of the
\* settings are within what reliability_test accepts.
LEMMA ReliabilityKeepsRun ==
    ASSUME SettingsInv, RunInv, ReliabilityTest PROVE RunInv'
<1> DEFINE cfg == load_config(args.history_dir)
<1>1. PICK targets \in RunTargets, n \in Samples, d \in Durations :
         StartProbe([label |-> "reliability", targets |-> targets, ipv |-> 0,
                     samples |-> n, duration |-> d, concurrency |-> Used(cfg).concurrency,
                     retries |-> Used(cfg).retries, compare |-> TRUE, callback |-> TRUE])
  BY DEF ReliabilityTest
<1>2. cfg \in {wanted, Defaults}
  BY LoadedIsWanted
<1>3. /\ Used(cfg).retries \in Nat
      /\ Used(cfg).concurrency \in Nat /\ Used(cfg).concurrency >= 1
  BY <1>2, DefaultsBounded, StoreAssumption DEF SettingsInv, Bounded, Numbers, Used
<1>4. stage = "started" /\ stage' = "probing"
  BY DEF ReliabilityTest, Starts
<1>5. call'.concurrency = Used(cfg).concurrency /\ call'.retries = Used(cfg).retries
  BY <1>1, <1>3 DEF StartProbe, Validated, AtLeastOne
<1>6. [concurrency |-> call'.concurrency, retries |-> call'.retries] = Used(cfg)
  BY <1>5 DEF Used
<1>7. /\ asked'.settings = Used(wanted)
      /\ asked'.quiet <=> handler = {} /\ args.history_dir = Home
  BY DEF ReliabilityTest
<1>8. asked'.quiet => cfg = wanted
  BY <1>7, LoadedIsWanted
<1> QED BY <1>2, <1>4, <1>6, <1>7, <1>8 DEF RunInv, SettingsReachProbe

\* No other step changes what a probe works with.
LEMMA RunStep == SettingsInv /\ RunInv /\ [Next]_vars => RunInv'
<1> SUFFICES ASSUME SettingsInv, RunInv, [Next]_vars PROVE RunInv'
  OBVIOUS
<1>1. ASSUME NEW option \in Options, Click(option) PROVE RunInv'
  BY <1>1, ClickKeepsRun
<1>2. CASE MtuProbe
  BY <1>2 DEF MtuProbe, Starts, RunInv, SettingsReachProbe, probeVars
<1>3. CASE ReliabilityTest
  BY <1>3, ReliabilityKeepsRun
<1>4. CASE WellknownTest
  <2>1. call'.label = "wellknown" /\ stage' = "probing"
    BY <1>4 DEF WellknownTest, Starts, StartProbe, Validated
  <2> QED BY <2>1 DEF RunInv, SettingsReachProbe
<1>5. CASE ToolProbe
  <2>1. args' = None /\ stage' = "probing"
    BY <1>5 DEF ToolProbe, StartsTool, RunInv
  <2> QED BY <2>1 DEF RunInv, SettingsReachProbe
<1>6. CASE ProbeStep
  <2>1. stage = "probing" /\ UNCHANGED <<args, asked>>
    BY <1>6 DEF ProbeStep
  <2>2. \/ UNCHANGED <<call, stage>>
        \/ call' = None /\ stage' = "saving"
    BY <1>6 DEF ProbeStep, FirstAttempt, Retry, NextRound, EndPass, StopProbe, probeVars
  <2> QED BY <2>1, <2>2 DEF RunInv, SettingsReachProbe
<1>7. CASE Finish
  BY <1>7 DEF Finish, Forget, RunInv, SettingsReachProbe
<1>8. CASE SaveSession
  BY <1>8 DEF SaveSession, RunInv, SettingsReachProbe, probeVars
<1>9. CASE StoreStep
  BY <1>9 DEF StoreStep, RunInv, SettingsReachProbe, probeVars
<1>10. CASE Kill
  BY <1>10 DEF Kill, Forget, RunInv, SettingsReachProbe
<1>11. CASE UNCHANGED vars
  BY <1>11 DEF vars, RunInv, SettingsReachProbe, probeVars
<1>12. CASE ToolSearch
  <2>1. args' = None /\ stage' = "probing" /\ UNCHANGED call
    BY <1>12 DEF ToolSearch, StartsTool, RunInv, probeVars
  <2> QED BY <2>1 DEF RunInv, SettingsReachProbe
<1> QED BY <1>1, <1>2, <1>3, <1>4, <1>5, <1>6, <1>7, <1>8, <1>9, <1>10, <1>11, <1>12 DEF Next

\* A reliability probe works with the settings the user had made, or with the
\* defaults while a save is under way or if sessions go to another directory:
\* for any settings, limits, saves and crashes.
THEOREM SettingsSafety == Spec => []SettingsReachProbe
<1>1. Init => SettingsInv /\ RunInv
  BY SettingsInit DEF Init, NoProbe, RunInv, SettingsReachProbe
<1>2. SettingsInv /\ RunInv /\ [Next]_vars => (SettingsInv /\ RunInv)'
  BY SettingsStep, RunStep
<1>3. RunInv => SettingsReachProbe
  BY DEF RunInv
<1> QED BY <1>1, <1>2, <1>3, PTL DEF Spec

-----------------------------------------------------------------------------
(* Sessions.                                                                *)

\* The name of the file of a session at home still belongs to it.
Owned(k) == sessions[Home][k.second] = {k.run}

\* A later session of the same second.
Overtaken(k) == \E b \in begun : b.run > k.run /\ b.second = k.second

\* Sessions are begun in the order of their runs, so that whoever opens a file
\* is the later one.  Only a tool probes without a run, and it cannot be stopped.
AllBefore == \A b \in begun : b.run < run
Unsaved == call = None \/ call.callback = FALSE
SessionInv ==
    /\ run \in Int /\ clock \in Seconds
    /\ DOMAIN sessions = Directories /\ DOMAIN sessions[Home] = Seconds
    /\ stage \in {"started", "saving"} => AllBefore
    /\ stage = "probing" => AllBefore \/ (args = None /\ Unsaved)
    /\ \A b \in begun : b.run \in Int /\ b.run <= run /\ b.second \in Seconds
    /\ saver \subseteq begun /\ kept \subseteq begun
    /\ \A s \in saver, t \in saver : s = t
    /\ \A s \in saver : \A k \in kept : s.run # k.run => s.run > k.run
    /\ \A k \in kept : k.directory = Home => Owned(k) \/ Overtaken(k)

sessionVars == <<run, clock, sessions, begun, saver, kept>>

\* The invariant speaks of the sessions and of who may open one.
LEMMA SessionUnchanged ==
    ASSUME SessionInv, UNCHANGED sessionVars,
           stage' \in {"started", "saving"} => AllBefore,
           stage' = "probing" => AllBefore \/ (args' = None /\ Unsaved')
    PROVE  SessionInv'
  BY DEF SessionInv, sessionVars, AllBefore, Unsaved, Owned, Overtaken

\* A session that is opened writes over none but one of the same second.
LEMMA OpenKeeps ==
    ASSUME SessionInv, SaveSession PROVE SessionInv'
<1> DEFINE new == [run |-> run, directory |-> args.history_dir, second |-> clock]
<1>1. /\ stage = "saving" /\ stage' = "idle" /\ AllBefore
      /\ saver = {} /\ saver' = {new} /\ begun' = begun \union {new}
      /\ sessions' = [sessions EXCEPT ![args.history_dir][clock] = {}]
      /\ UNCHANGED <<run, clock, kept>>
  BY DEF SaveSession, OpenSession, SessionInv, FileName
<1>2. DOMAIN sessions' = Directories /\ DOMAIN sessions'[Home] = Seconds
  BY <1>1 DEF SessionInv, Directories
<1>3. ASSUME NEW k \in kept, k.directory = Home PROVE (Owned(k) \/ Overtaken(k))'
  <2>1. k.run < new.run /\ k.second \in Seconds
    BY <1>1 DEF SessionInv, AllBefore
  <2>2. CASE k.second = clock
    <3>1. new \in begun' /\ new.second = k.second /\ k.run \in Int /\ run \in Int
      BY <1>1, <2>2 DEF SessionInv
    <3>2. Overtaken(k)'
      BY <2>1, <3>1 DEF Overtaken
    <3> QED BY <3>2
  <2>3. CASE k.second # clock
    <3>1. sessions'[Home][k.second] = sessions[Home][k.second]
      BY <1>1, <2>1, <2>3 DEF SessionInv, Directories
    <3>2. Owned(k) \/ Overtaken(k)
      BY <1>3 DEF SessionInv
    <3> QED BY <1>1, <3>1, <3>2 DEF Owned, Overtaken
  <2> QED BY <2>2, <2>3
<1>4. \A b \in begun' : b.run \in Int /\ b.run <= run' /\ b.second \in Seconds
  BY <1>1 DEF SessionInv
<1>5. \A s \in saver' : \A k \in kept' : s.run # k.run => s.run > k.run
  BY <1>1 DEF SessionInv, AllBefore
<1>6. \A k \in kept' : k.directory = Home => (Owned(k) \/ Overtaken(k))'
  BY <1>1, <1>3
<1> QED BY <1>1, <1>2, <1>4, <1>5, <1>6 DEF SessionInv, Owned, Overtaken

\* A session that is written is in its own file.
LEMMA WriteKeeps ==
    ASSUME SessionInv, WriteSession, UNCHANGED <<run, stage, args, call>> PROVE SessionInv'
<1>1. PICK s \in saver :
         sessions' = [sessions EXCEPT ![s.directory][s.second] = {s.run}]
  BY DEF WriteSession, FileName
<1>2. /\ kept' = kept \union {s} /\ saver' = {} /\ s \in begun /\ s.second \in Seconds
      /\ UNCHANGED <<run, clock, begun>>
  BY <1>1 DEF WriteSession, SessionInv
<1>3. DOMAIN sessions' = Directories /\ DOMAIN sessions'[Home] = Seconds
  BY <1>1 DEF SessionInv, Directories
<1>4. ASSUME NEW k \in kept', k.directory = Home PROVE (Owned(k) \/ Overtaken(k))'
  <2>1. k.second \in Seconds /\ k.run \in Int
    BY <1>2 DEF SessionInv
  <2>2. CASE s.directory = Home /\ k.second = s.second
    <3>1. sessions'[Home][k.second] = {s.run}
      BY <1>1, <1>2, <2>2 DEF SessionInv, Directories
    <3>2. k.run = s.run \/ s.run > k.run
      BY <1>2 DEF SessionInv
    <3> QED BY <1>2, <2>2, <3>1, <3>2 DEF Owned, Overtaken
  <2>3. CASE ~(s.directory = Home /\ k.second = s.second)
    <3>1. sessions'[Home][k.second] = sessions[Home][k.second]
      BY <1>1, <2>1, <2>3 DEF SessionInv, Directories
    <3>2. k \in kept
      BY <1>2, <1>4, <2>3
    <3>3. Owned(k) \/ Overtaken(k)
      BY <1>4, <3>2 DEF SessionInv
    <3> QED BY <1>2, <3>1, <3>3 DEF Owned, Overtaken
  <2> QED BY <2>2, <2>3
<1>5. \A k \in kept' : k.directory = Home => (Owned(k) \/ Overtaken(k))'
  BY <1>4
<1> QED BY <1>2, <1>3, <1>5 DEF SessionInv, AllBefore, Owned, Overtaken, Unsaved

\* Runs open their sessions in their order.
LEMMA SessionStep == SessionInv /\ RunInv /\ [Next]_vars => SessionInv'
<1> SUFFICES ASSUME SessionInv, RunInv, [Next]_vars PROVE SessionInv'
  OBVIOUS
<1> USE SessionUnchanged DEF sessionVars
<1>1. ASSUME NEW option \in Options, Click(option) PROVE SessionInv'
  <2>1. run' = run + 1 /\ run' \in Int /\ stage' # "probing"
        /\ UNCHANGED <<clock, sessions, begun, saver, kept>>
    BY <1>1 DEF Click, storeVars, SessionInv
  <2>2. AllBefore'
    BY <2>1 DEF SessionInv, AllBefore
  <2>3. \A b \in begun' : b.run <= run'
    BY <2>1 DEF SessionInv
  <2> QED BY <2>1, <2>2, <2>3 DEF SessionInv, Owned, Overtaken
<1>2. CASE MtuProbe \/ ReliabilityTest \/ WellknownTest
  <2>1. AllBefore /\ stage' = "probing" /\ UNCHANGED storeVars /\ UNCHANGED run
    BY <1>2 DEF MtuProbe, ReliabilityTest, WellknownTest, Starts, SessionInv
  <2> QED BY <2>1 DEF storeVars
<1>3. CASE ToolProbe
  <2>1. args' = None /\ stage' = "probing" /\ UNCHANGED storeVars /\ UNCHANGED run
    BY <1>3 DEF ToolProbe, StartsTool, RunInv
  <2>2. call'.callback = FALSE
    BY <1>3 DEF ToolProbe, StartProbe, Validated
  <2> QED BY <2>1, <2>2 DEF storeVars, Unsaved
<1>4. CASE ProbeStep
  <2>1. stage = "probing" /\ UNCHANGED <<args, run>> /\ UNCHANGED storeVars
    BY <1>4 DEF ProbeStep
  <2>2. \/ UNCHANGED <<call, stage>>
        \/ call # None /\ call.callback /\ stage' = "saving"
    BY <1>4 DEF ProbeStep, FirstAttempt, Retry, NextRound, EndPass, StopProbe,
                RoundOver, Probing, probeVars
  <2> QED BY <2>1, <2>2 DEF SessionInv, storeVars, Unsaved
<1>5. CASE Finish
  <2>1. stage = "probing" /\ UNCHANGED run /\ UNCHANGED storeVars
    BY <1>5 DEF Finish
  <2>2. stage' = "idle" \/ (stage' = "saving" /\ args # None)
    BY <1>5 DEF Finish
  <2> QED BY <2>1, <2>2 DEF SessionInv, storeVars
<1>6. CASE SaveSession
  BY <1>6, OpenKeeps
<1>7. CASE StoreStep
  <2>1. UNCHANGED <<run, stage, args, call>> /\ stage # "probing"
    BY <1>7 DEF StoreStep, probeVars
  <2>2. CASE WriteSession
    BY <2>1, <2>2, WriteKeeps
  <2>3. CASE Tick
    BY <2>1, <2>3 DEF Tick, SessionInv, AllBefore, Owned, Overtaken
  <2>4. ASSUME NEW body \in Updates, PostConfig(body) PROVE SessionInv'
    BY <2>1, <2>4 DEF PostConfig, SessionInv
  <2>5. CASE WriteConfig \/ WriteConfigFails \/ Restart
    BY <2>1, <2>5 DEF WriteConfig, WriteConfigFails, Restart, SessionInv
  <2> QED BY <1>7, <2>2, <2>3, <2>4, <2>5 DEF StoreStep
<1>8. CASE Kill
  BY <1>8 DEF Kill, Crash, SessionInv, AllBefore, Owned, Overtaken
<1>9. CASE UNCHANGED vars
  BY <1>9 DEF vars, storeVars, probeVars, SessionInv, Unsaved
<1>10. CASE ToolSearch
  <2>1. /\ args' = None /\ call = None /\ stage' = "probing"
        /\ UNCHANGED storeVars /\ UNCHANGED <<run, call>>
    BY <1>10 DEF ToolSearch, StartsTool, RunInv, probeVars
  <2> QED BY <2>1 DEF storeVars, Unsaved
<1> QED BY <1>1, <1>2, <1>3, <1>4, <1>5, <1>6, <1>7, <1>8, <1>9, <1>10 DEF Next

\* A session that was saved at home stays in the history, whatever crashes and
\* however many runs follow, unless one of the same second is saved over it.
THEOREM SessionSafety == Spec => []SessionsListed
<1>1. Init => SessionInv
  BY StoreAssumption DEF Init, EmptyStore, SessionInv, Directories
<1>2. Init => SettingsInv /\ RunInv
  BY SettingsInit DEF Init, NoProbe, RunInv, SettingsReachProbe
<1>3. SettingsInv /\ RunInv /\ SessionInv /\ [Next]_vars => (SettingsInv /\ RunInv /\ SessionInv)'
  BY SettingsStep, RunStep, SessionStep
<1>4. SessionInv => SessionsListed
  BY DEF SessionInv, SessionsListed, Listed, Owned, Overtaken
<1> QED BY <1>1, <1>2, <1>3, <1>4, PTL DEF Spec

-----------------------------------------------------------------------------
(* Counters.                                                                *)

\* What a probe may be asked for.
Requests == [label : {"reliability", "wellknown"}, targets : Lists, ipv : {0, 4, 6},
             samples : Int, duration : Nat, concurrency : Int, retries : Int,
             compare : BOOLEAN, callback : BOOLEAN]

\* Validation puts the numbers in range and keeps the rest.
LEMMA ValidatedCall == ASSUME NEW c, c \in Requests PROVE Validated(c) \in Calls
<1> DEFINE n == AtLeastOne(c.samples)
           w == AtLeastOne(c.concurrency)
           r == IF c.retries < 0 THEN 0 ELSE c.retries
<1>1. n \in Nat \ {0} /\ w \in Nat \ {0} /\ r \in Nat
  BY DEF Requests, AtLeastOne
<1>2. Validated(c) = [c EXCEPT !.samples = n, !.concurrency = w, !.retries = r]
  BY DEF Validated
<1> HIDE DEF n, w, r
<1>3. [c EXCEPT !.samples = n, !.concurrency = w, !.retries = r] \in Calls
  BY <1>1 DEF Requests, Calls
<1> QED BY <1>2, <1>3

\* A probe that starts is given parameters, of which none is out of range.
Started(c) == StartProbe(c) /\ Validated(c) \in Calls

\* What was validated is what CountInv asks for.
LEMMA StartedCounts ==
    ASSUME NEW c, Started(c) PROVE CountInv' /\ call' \in Calls /\ call' # None
<1>1. Validated(c) \in Calls /\ StartProbe(c)
  BY DEF Started
<1>2. Validated(c) # None
  BY <1>1, CallAssumption
<1>3. CallOK(Validated(c))
  <2> DEFINE v == Validated(c)
  <2>1. v \in Calls
    BY <1>1
  <2> HIDE DEF v
  <2>2. /\ v.targets \in Lists /\ v.samples \in Nat \ {0} /\ v.concurrency \in Nat \ {0}
        /\ v.retries \in Nat /\ v.duration \in Nat
    BY <2>1 DEF Calls
  <2>3. CallOK(v)
    BY <2>2, CallAssumption DEF CallOK
  <2> QED BY <2>3 DEF v
<1> QED BY <1>1, <1>2, <1>3, StartCounts DEF StartProbe

\* The settings of the probe are within its limits.
LEMMA ReliabilityStarts ==
    ASSUME SettingsInv, ReliabilityTest
    PROVE  CountInv' /\ call' # None /\ call'.callback = TRUE
<1> DEFINE cfg == load_config(args.history_dir)
           rec(T, n, d) == [label |-> "reliability", targets |-> T, ipv |-> 0, samples |-> n,
                            duration |-> d, concurrency |-> Used(cfg).concurrency,
                            retries |-> Used(cfg).retries, compare |-> TRUE, callback |-> TRUE]
<1>1. PICK T \in RunTargets, n \in Samples, d \in Durations : StartProbe(rec(T, n, d))
  BY DEF ReliabilityTest
<1>2. cfg \in {wanted, Defaults}
  BY LoadedIsWanted
<1>3. /\ Used(cfg).retries \in Nat
      /\ Used(cfg).concurrency \in Nat /\ Used(cfg).concurrency >= 1
  BY <1>2, DefaultsBounded, StoreAssumption DEF SettingsInv, Bounded, Numbers, Used
<1>4. n \in Nat /\ d \in Nat /\ T \in Lists
  BY CallAssumption DEF Lists
<1> HIDE DEF cfg
<1>5. Validated(rec(T, n, d)) \in Calls
  <2>1. rec(T, n, d) \in Requests
    BY <1>3, <1>4 DEF Requests
  <2> HIDE DEF rec
  <2> QED BY <2>1, ValidatedCall
<1>6. call'.callback = TRUE
  BY <1>1 DEF StartProbe, Validated
<1>7. Started(rec(T, n, d))
  BY <1>1, <1>5 DEF Started
<1> HIDE DEF rec
<1> QED BY <1>6, <1>7, StartedCounts

\* So are those of the site fleet.
LEMMA WellknownStarts ==
    ASSUME WellknownTest PROVE CountInv' /\ call' # None /\ call'.callback = TRUE
<1> DEFINE c == [label |-> "wellknown", targets |-> Sites, ipv |-> 4, samples |-> 10,
                 duration |-> 150, concurrency |-> 12, retries |-> 2, compare |-> FALSE,
                 callback |-> TRUE]
<1>1. StartProbe(c)
  BY DEF WellknownTest
<1>2. Validated(c) \in Calls
  <2>1. c \in Requests
    BY DEF Requests, Lists
  <2> HIDE DEF c
  <2> QED BY <2>1, ValidatedCall
<1>3. Started(c)
  BY <1>1, <1>2 DEF Started
<1>4. call'.callback = TRUE
  BY <1>1 DEF StartProbe, Validated
<1> HIDE DEF c
<1> QED BY <1>3, <1>4, StartedCounts

\* A tool is asked for no rounds or too few retries, and corrects both.
LEMMA ToolStarts ==
    ASSUME ToolProbe PROVE CountInv' /\ call' # None /\ call'.callback = FALSE
<1> DEFINE rec(T, v, n, r, b) ==
             [label |-> "reliability", targets |-> T, ipv |-> v, samples |-> n, duration |-> 0,
              concurrency |-> 2, retries |-> r, compare |-> b, callback |-> FALSE]
<1>1. PICK T \in ToolTargets, v \in {0, 4, 6}, n \in Samples \union {0}, r \in {-1, 2},
           b \in BOOLEAN : StartProbe(rec(T, v, n, r, b))
  BY DEF ToolProbe
<1>2. n \in Nat /\ T \in Lists /\ r \in Int
  BY CallAssumption DEF Lists
<1>3. Validated(rec(T, v, n, r, b)) \in Calls
  <2>1. rec(T, v, n, r, b) \in Requests
    BY <1>2 DEF Requests
  <2> HIDE DEF rec
  <2> QED BY <2>1, ValidatedCall
<1>4. call'.callback = FALSE
  BY <1>1 DEF StartProbe, Validated
<1>5. Started(rec(T, v, n, r, b))
  BY <1>1, <1>3 DEF Started
<1> HIDE DEF rec
<1> QED BY <1>4, <1>5, StartedCounts

\* When the result was taken, the probe is as good as new.
LEMMA ForgetCounts == Forget => CountInv'
<1> SUFFICES ASSUME Forget PROVE CountInv'
  OBVIOUS
<1>1. /\ call' = None /\ round' = 0 /\ result' = None /\ pass' = "over"
      /\ DOMAIN trials' = {"high", "low"}
      /\ DOMAIN trials'.high = {} /\ DOMAIN trials'.low = {}
      /\ queue' = {} /\ DOMAIN flight' = {}
  BY DEF Forget
<1> QED BY <1>1, FS_EmptySet DEF CountInv, Idle, BagOK

\* Every step of a probe keeps the count of its trials.
LEMMA CountStep == SettingsInv /\ CountInv /\ [Next]_vars => CountInv'
<1> SUFFICES ASSUME SettingsInv, CountInv, [Next]_vars PROVE CountInv'
  OBVIOUS
<1>0. ASSUME UNCHANGED probeVars PROVE CountInv'
  BY <1>0, CountsUnchanged
<1>1. CASE \E option \in Options : Click(option)
  BY <1>0, <1>1 DEF Click
<1>2. CASE MtuProbe \/ ToolSearch
  BY <1>0, <1>2 DEF MtuProbe, ToolSearch
<1>3. CASE ReliabilityTest
  BY <1>3, ReliabilityStarts
<1>4. CASE WellknownTest
  BY <1>4, WellknownStarts
<1>5. CASE ToolProbe
  BY <1>5, ToolStarts
<1>6. CASE ProbeStep
  <2>1. CASE Ping(Losses) /\ UNCHANGED <<probeVars, stage>>
    BY <1>0, <2>1
  <2>2. ASSUME NEW j, NEW o, FirstAttempt(j, o) PROVE CountInv'
    BY <2>2, FirstAttemptCounts
  <2>3. ASSUME NEW j, NEW ok \in BOOLEAN, Retry(j, ok) PROVE CountInv'
    BY <2>3, RetryCounts
  <2>4. CASE NextRound \/ EndPass
    BY <2>4, NextRoundCounts, EndPassCounts
  <2>5. CASE StopProbe
    BY <2>5, StopCounts
  <2> QED BY <1>6, <2>1, <2>2, <2>3, <2>4, <2>5 DEF ProbeStep
<1>7. CASE Finish
  BY <1>7, ForgetCounts DEF Finish
<1>8. CASE SaveSession
  BY <1>0, <1>8 DEF SaveSession
<1>9. CASE StoreStep
  BY <1>0, <1>9 DEF StoreStep
<1>10. CASE Kill
  BY <1>10, ForgetCounts DEF Kill
<1>11. CASE UNCHANGED vars
  BY <1>0, <1>11 DEF vars
<1> QED BY <1>1, <1>2, <1>3, <1>4, <1>5, <1>6, <1>7, <1>8, <1>9, <1>10, <1>11 DEF Next

\* Nothing was counted yet.
LEMMA CountInit == NoProbe => CountInv
<1> SUFFICES ASSUME NoProbe PROVE CountInv
  OBVIOUS
<1>1. /\ call = None /\ round = 0 /\ result = None /\ pass = "over"
      /\ DOMAIN trials = {"high", "low"} /\ DOMAIN trials.high = {} /\ DOMAIN trials.low = {}
      /\ queue = {} /\ DOMAIN flight = {}
  BY DEF NoProbe
<1> QED BY <1>1, IdleIsFine DEF Idle

\* The numbers of a summary agree with each other and with the rounds that were
\* asked for, however many targets, rounds, workers and retries there are:
\* reliability_test loses no trial and counts none twice.
THEOREM CountSafety == Spec => []CountersAddUp
<1>1. Init => SettingsInv /\ CountInv
  BY SettingsInit, CountInit DEF Init
<1>2. SettingsInv /\ CountInv /\ [Next]_vars => (SettingsInv /\ CountInv)'
  BY SettingsStep, CountStep
<1> QED BY <1>1, <1>2, CountsAddUp, PTL DEF Spec

-----------------------------------------------------------------------------
(* Types.                                                                   *)

\* Sessions and their files are those of runs; they go where they may go.
FilesInv ==
    /\ wanted.history_dir \in Directories
    /\ \A h \in handler : h.body \in Updates
    /\ \A s \in saver : s.run \in Runs
    /\ \A s \in Seconds : sessions[Home][s] \subseteq Runs

\* A run belongs to a server that is up; only the tool has no arguments, and its
\* probe no callback.  One of the two probes is under way, or none.
StageInv ==
    /\ up \in BOOLEAN /\ stage \in {"idle", "started", "probing", "saving"}
    /\ stage \in {"started", "saving"} => up /\ args \in Args /\ run \in Runs
    /\ stage = "probing" => /\ up
                            /\ args = None \/ (args \in Args /\ run \in Runs)
                            /\ args = None /\ call # None => call.callback = FALSE
    /\ stage = "probing" => IF call = None THEN max_size # -1 ELSE max_size = -1
    /\ stage # "probing" => max_size = -1

\* Where sessions go is a setting like any other.
LEMMA MeantDirectory ==
    ASSUME NEW cfg, DOMAIN cfg = DOMAIN Defaults, cfg.history_dir \in Directories,
           NEW body \in Updates
    PROVE  Meant(cfg, body).history_dir \in Directories
<1>1. "history_dir" \in DOMAIN cfg /\ "history_dir" \notin DOMAIN LIMITS
  BY DirectoryAssumption
<1>2. Meant(cfg, body).history_dir =
        IF Accepted(body, "history_dir") THEN body.history_dir ELSE cfg.history_dir
  BY <1>1 DEF Meant, Within
<1> QED BY <1>2, DirectoryAssumption DEF Accepted

\* What a run is started with.
LEMMA ClickArgs ==
    ASSUME SettingsInv, FilesInv, NEW option \in Options, Click(option)
    PROVE  args' \in Args /\ run' \in Runs /\ up /\ stage' \in {"started", "saving"}
<1>1. load_config(Home) \in {wanted, Defaults}
  BY LoadedIsWanted
<1>2. load_config(Home).history_dir \in Directories
  BY <1>1, DirectoryAssumption DEF FilesInv
<1> QED BY <1>2 DEF Click, EventLoopFree, Args

\* Files change when the store does, and when a session is opened.
LEMMA FilesStoreStep == SettingsInv /\ SessionInv /\ FilesInv /\ StoreStep => FilesInv'
<1> SUFFICES ASSUME SettingsInv, SessionInv, FilesInv, StoreStep PROVE FilesInv'
  OBVIOUS
<1>1. ASSUME NEW body \in Updates, PostConfig(body) PROVE FilesInv'
  BY <1>1 DEF PostConfig, FilesInv
<1>2. CASE WriteConfig
  <2>1. PICK h \in handler : wanted' = Meant(wanted, h.body)
    BY <1>2 DEF WriteConfig
  <2>2. wanted'.history_dir \in Directories
    BY <2>1, MeantDirectory DEF FilesInv, SettingsInv
  <2>3. handler' = {} /\ UNCHANGED <<saver, sessions>>
    BY <1>2 DEF WriteConfig
  <2> QED BY <2>2, <2>3 DEF FilesInv
<1>3. CASE WriteConfigFails
  BY <1>3, DirectoryAssumption DEF WriteConfigFails, FilesInv
<1>4. CASE WriteSession
  <2>1. PICK s \in saver :
           sessions' = [sessions EXCEPT ![s.directory][FileName(s.second)] = {s.run}]
    BY <1>4 DEF WriteSession
  <2>2. s.run \in Runs
    BY DEF FilesInv
  <2>3. \A t \in Seconds : sessions'[Home][t] \subseteq Runs
    BY <2>1, <2>2 DEF FilesInv, SessionInv, Directories
  <2> QED BY <1>4, <2>3 DEF WriteSession, FilesInv
<1>5. CASE Tick \/ Restart
  BY <1>5 DEF Tick, Restart, FilesInv
<1> QED BY <1>1, <1>2, <1>3, <1>4, <1>5 DEF StoreStep

\* Every step keeps the files those of runs.
LEMMA FilesStep ==
    SettingsInv /\ SessionInv /\ StageInv /\ FilesInv /\ [Next]_vars => FilesInv'
<1> SUFFICES ASSUME SettingsInv, SessionInv, StageInv, FilesInv, [Next]_vars PROVE FilesInv'
  OBVIOUS
<1>0. ASSUME UNCHANGED storeVars PROVE FilesInv'
  BY <1>0 DEF storeVars, FilesInv
<1>1. CASE \E option \in Options : Click(option)
  BY <1>0, <1>1 DEF Click
<1>2. CASE MtuProbe \/ ReliabilityTest \/ WellknownTest \/ ToolSearch \/ ToolProbe
  BY <1>0, <1>2 DEF MtuProbe, ReliabilityTest, WellknownTest, ToolSearch, ToolProbe
<1>3. CASE ProbeStep \/ Finish
  BY <1>0, <1>3 DEF ProbeStep, Finish
<1>4. CASE SaveSession
  <2>1. /\ run \in Runs /\ UNCHANGED <<wanted, handler>>
        /\ saver' = {[run |-> run, directory |-> args.history_dir, second |-> clock]}
        /\ sessions' = [sessions EXCEPT ![args.history_dir][clock] = {}]
    BY <1>4 DEF SaveSession, OpenSession, FileName, StageInv
  <2>2. \A t \in Seconds : sessions'[Home][t] \subseteq Runs
    BY <2>1 DEF FilesInv, SessionInv, Directories
  <2> QED BY <2>1, <2>2 DEF FilesInv
<1>5. CASE StoreStep
  BY <1>5, FilesStoreStep
<1>6. CASE Kill
  <2>1. handler' = {} /\ saver' = {} /\ UNCHANGED sessions /\ wanted' \in {wanted, Defaults}
    BY <1>6 DEF Kill, Crash
  <2> QED BY <2>1, DirectoryAssumption DEF FilesInv
<1>7. CASE UNCHANGED vars
  BY <1>0, <1>7 DEF vars
<1> QED BY <1>1, <1>2, <1>3, <1>4, <1>5, <1>6, <1>7 DEF Next

\* A probe that starts is the only one.
LEMMA StageStarts ==
    ASSUME StageInv, stage \in {"idle", "started"}, stage' = "probing",
           up' = TRUE, UNCHANGED run,
           args' = None \/ (args' \in Args /\ run' \in Runs),
           args' = None /\ call' # None => call'.callback = FALSE,
           IF call' = None THEN max_size' # -1 ELSE max_size' = -1
    PROVE  StageInv'
  BY DEF StageInv

\* A probe that goes on stays the same probe.
LEMMA StageProbeStep == StageInv /\ ProbeStep => StageInv'
<1> SUFFICES ASSUME StageInv, ProbeStep PROVE StageInv'
  OBVIOUS
<1>1. stage = "probing" /\ UNCHANGED <<up, run, args>>
  BY DEF ProbeStep, storeVars
<1>2. CASE UNCHANGED <<stage, call, max_size>>
  BY <1>1, <1>2 DEF StageInv
<1>3. CASE StopProbe /\ stage' = "saving" /\ UNCHANGED searchVars
  <2>1. call # None /\ call.callback /\ max_size' = max_size
    BY <1>3 DEF StopProbe, RoundOver, Probing, searchVars
  <2> QED BY <1>1, <1>3, <2>1 DEF StageInv
<1> QED
  BY <1>2, <1>3 DEF ProbeStep, Ping, FirstAttempt, Retry, NextRound, EndPass, probeVars, searchVars

\* Every step keeps the stage and what belongs to it.
LEMMA StageStep ==
    SettingsInv /\ FilesInv /\ RunInv /\ StageInv /\ [Next]_vars => StageInv'
<1> SUFFICES ASSUME SettingsInv, FilesInv, RunInv, StageInv, [Next]_vars PROVE StageInv'
  OBVIOUS
<1>1. ASSUME NEW option \in Options, Click(option) PROVE StageInv'
  <2>1. args' \in Args /\ run' \in Runs /\ up /\ stage' \in {"started", "saving"}
    BY <1>1, ClickArgs
  <2>2. UNCHANGED <<up, max_size>> /\ stage = "idle"
    BY <1>1 DEF Click, storeVars, searchVars
  <2> QED BY <2>1, <2>2 DEF StageInv
<1>2. CASE MtuProbe
  <2>1. PICK f \in Paths : Search(EthernetSize, f)
    BY <1>2 DEF MtuProbe
  <2>2. max_size' # -1
    BY <2>1 DEF Search, EthernetSize
  <2>3. stage = "started" /\ stage' = "probing" /\ UNCHANGED <<up, run, args, call>>
    BY <1>2 DEF MtuProbe, Starts, storeVars, probeVars
  <2>4. call = None
    BY <2>3 DEF RunInv
  <2>5. up = TRUE /\ args \in Args /\ run \in Runs
    BY <2>3 DEF StageInv
  <2> QED BY <2>2, <2>3, <2>4, <2>5, StageStarts
<1>3. CASE ReliabilityTest \/ WellknownTest
  <2>1. call' # None /\ call'.callback = TRUE
    BY <1>3, ReliabilityStarts, WellknownStarts
  <2>2. stage = "started" /\ stage' = "probing" /\ UNCHANGED <<up, run, args, max_size>>
    BY <1>3 DEF ReliabilityTest, WellknownTest, Starts, storeVars, searchVars
  <2>3. up = TRUE /\ args \in Args /\ run \in Runs /\ max_size = -1
    BY <2>2 DEF StageInv
  <2>4. args # None
    BY <2>3, CallAssumption
  <2> QED BY <2>1, <2>2, <2>3, <2>4, StageStarts
<1>4. CASE ToolSearch
  <2>1. PICK m \in Sizes, f \in Paths : Search(m, f)
    BY <1>4 DEF ToolSearch
  <2>2. max_size' # -1
    BY <2>1, SearchAssumption DEF Search
  <2>3. stage = "idle" /\ up /\ stage' = "probing" /\ UNCHANGED <<up, run, args, call>>
    BY <1>4 DEF ToolSearch, StartsTool, storeVars, probeVars
  <2>4. call = None /\ args = None /\ up = TRUE
    BY <2>3 DEF RunInv, StageInv
  <2> QED BY <2>2, <2>3, <2>4, StageStarts
<1>5. CASE ToolProbe
  <2>1. call' # None /\ call'.callback = FALSE
    BY <1>5, ToolStarts
  <2>2. stage = "idle" /\ up /\ stage' = "probing" /\ UNCHANGED <<up, run, args, max_size>>
    BY <1>5 DEF ToolProbe, StartsTool, storeVars, searchVars
  <2>3. args = None /\ up = TRUE /\ max_size = -1
    BY <2>2 DEF RunInv, StageInv
  <2> QED BY <2>1, <2>2, <2>3, StageStarts
<1>6. CASE ProbeStep
  BY <1>6, StageProbeStep
<1>7. CASE Finish
  <2>1. max_size' = -1 /\ stage = "probing" /\ UNCHANGED <<up, run, args>>
        /\ stage' = (IF args = None THEN "idle" ELSE "saving")
    BY <1>7 DEF Finish, Forget, storeVars
  <2> QED BY <2>1 DEF StageInv
<1>8. CASE SaveSession
  <2>1. stage' = "idle" /\ stage = "saving" /\ UNCHANGED <<up, max_size>>
    BY <1>8 DEF SaveSession, OpenSession, searchVars
  <2> QED BY <2>1 DEF StageInv
<1>9. CASE StoreStep
  <2>1. stage # "probing" /\ UNCHANGED <<stage, run, args, max_size>>
    BY <1>9 DEF StoreStep, searchVars
  <2>2. up' = up \/ up' = TRUE
    BY <1>9 DEF StoreStep, PostConfig, WriteConfig, WriteConfigFails, WriteSession, Tick, Restart
  <2> QED BY <2>1, <2>2 DEF StageInv
<1>10. CASE Kill
  <2>1. stage' = "idle" /\ max_size' = -1 /\ up' = FALSE
    BY <1>10 DEF Kill, Crash, Forget
  <2> QED BY <2>1 DEF StageInv
<1>11. CASE UNCHANGED vars
  BY <1>11 DEF vars, storeVars, searchVars, probeVars, StageInv
<1> QED BY <1>1, <1>2, <1>3, <1>4, <1>5, <1>6, <1>7, <1>8, <1>9, <1>10, <1>11 DEF Next

\* Together the invariants say what every variable may be.
LEMMA TypesFollow ==
    SearchInv /\ SettingsInv /\ RunInv /\ SessionInv /\ CountInv /\ FilesInv /\ StageInv => TypeOK
<1> SUFFICES ASSUME SearchInv, SettingsInv, RunInv, SessionInv, CountInv, FilesInv, StageInv
             PROVE  TypeOK
  OBVIOUS
<1>1. SearchTypeOK
  BY DEF SearchInv, SearchTypeOK, Smallest
<1>2. ProbeTypeOK
  <2>1. /\ pass \in {"high", "low", "over"} /\ round \in Nat
        /\ \A t \in DOMAIN trials.high : trials.high[t] \in Nat \ {0}
    BY DEF CountInv, BagOK
  <2>2. call # None => queue \subseteq Jobs(call) /\ DOMAIN flight \subseteq Jobs(call) \ queue
    BY DEF CountInv, Working
  <2>3. \A j \in DOMAIN flight : flight[j].attempts \in 1..call.retries
    BY DEF CountInv, Working, Idle
  <2> QED BY <2>1, <2>2, <2>3 DEF ProbeTypeOK
<1>3. StoreTypeOK
  <2>1. \A cfg \in disk : \A k \in Numbers : cfg[k] \in LIMITS[k][1]..LIMITS[k][2]
    BY StoreAssumption DEF SettingsInv, Bounded
  <2>2. Listed \subseteq Runs
    BY DEF Listed, FilesInv
  <2> QED BY <2>1, <2>2 DEF StoreTypeOK, StageInv, SessionInv, SettingsInv
<1>4. stage \in {"started", "saving"} => args # None /\ up
  BY CallAssumption DEF StageInv
<1>5. stage = "probing" => (call # None) # (max_size # -1)
  <2>1. stage = "probing" => (call # None <=> ~(max_size # -1))
    BY DEF StageInv
  <2> QED BY <2>1
<1> QED BY <1>1, <1>2, <1>3, <1>4, <1>5 DEF TypeOK, StageInv

\* The settings on disk are within their limits, whatever was posted; what is
\* listed are sessions of runs; no job is both waiting and in flight, no retry
\* too many is under way, and one probe is, whatever is started or crashes.
THEOREM TypeCorrect == Spec => []TypeOK
<1> DEFINE Inv == SearchInv /\ SettingsInv /\ RunInv /\ SessionInv /\ CountInv /\ FilesInv /\ StageInv
<1>1. Init => Inv
  <2> SUFFICES ASSUME Init PROVE Inv
    OBVIOUS
  <2>1. SearchInv /\ SettingsInv /\ CountInv
    BY SearchInit, SettingsInit, CountInit DEF Init
  <2>2. RunInv
    BY DEF Init, NoProbe, RunInv, SettingsReachProbe
  <2>3. SessionInv
    BY StoreAssumption DEF Init, EmptyStore, SessionInv, Directories
  <2>4. FilesInv
    BY DirectoryAssumption DEF Init, EmptyStore, FilesInv, Directories
  <2>5. StageInv
    BY DEF Init, EmptyStore, NoSearch, StageInv
  <2> QED BY <2>1, <2>2, <2>3, <2>4, <2>5
<1>2. Inv /\ [Next]_vars => Inv'
  BY SearchStep, SettingsStep, RunStep, SessionStep, CountStep, FilesStep, StageStep
<1>3. Inv => TypeOK
  BY TypesFollow
<1> HIDE DEF Inv
<1> QED BY <1>1, <1>2, <1>3, PTL DEF Spec
=============================================================================
