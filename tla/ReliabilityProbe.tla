-------------------------- MODULE ReliabilityProbe --------------------------
(***************************************************************************)
(* reliability_test (probes/reliability.py:29-312): every round makes one  *)
(* trial of each target and address family on a pool of workers; a trial   *)
(* is an attempt and its retries.  The trials of a pass are kept as a bag, *)
(* since nothing depends on their order, and times are left out.           *)
(*                                                                         *)
(* A target is a record of its url, whether it is an address, and of which *)
(* family if so.                                                           *)
(***************************************************************************)
EXTENDS Verdicts, Functions, Bags

CONSTANTS
    Phases,    \* the phases in which attempts fail in this instance
    MaxRounds  \* bound on the rounds of a pass with a deadline

FailPhases == {"dns", "tcp", "tls", "ttfb", "body", "unknown"}

ASSUME PhasesAssumption == Phases \subseteq FailPhases

\* Python's None is no dictionary.
Tallies == [n : Nat, ff : Nat]
ASSUME TallyAssumption == None \notin Tallies

VARIABLES
    call,    \* the parameters, after validation, or None
    pass,    \* "high", then perhaps "low", then "over"
    round,   \* rounds of the pass that are over
    queue,   \* jobs of the round that no worker has taken
    flight,  \* jobs whose first attempt failed, with the phase and the attempts so far
    trials,  \* the trials of each pass: how often each outcome occurred
    result   \* what the call returned

probeVars == <<call, pass, round, queue, flight, trials, result>>

NoProbe ==
    /\ call = None /\ result = None /\ pass = "over" /\ round = 0
    /\ queue = {} /\ flight = <<>> /\ trials = [high |-> <<>>, low |-> <<>>]

-----------------------------------------------------------------------------
\* Address families of ipv 0, 4 and 6; any other number counts as 0.
Families(ipv) == IF ipv = 4 THEN {"ipv4"} ELSE IF ipv = 6 THEN {"ipv6"} ELSE {"ipv4", "ipv6"}

\* A target that is named twice is reported twice, each time with the trials of
\* both; it is left out.
TargetsOK(targets) ==
    IsFiniteSet(targets) /\ \A x, y \in targets : x.url = y.url => x = y

\* An address is tried in its own family only.
Jobs(c) == {j \in c.targets \X Families(c.ipv) : j[1].is_ip => j[1].family = j[2]}

AtLeastOne(n) == IF n < 1 THEN 1 ELSE n
Validated(c) ==
    [c EXCEPT !.samples = AtLeastOne(@), !.concurrency = AtLeastOne(@),
              !.retries = IF @ < 0 THEN 0 ELSE @]

\* An address needs no lookup.
Outcomes(job) == {"ok"} \union (Phases \ When(job[1].is_ip, {"dns"}))

Trial(job, first, eventual) ==
    [url |-> job[1].url, is_ip |-> job[1].is_ip, family |-> job[2],
     first |-> first, eventual_ok |-> eventual]

Workers == IF pass = "high" THEN call.concurrency ELSE 1
Rounds  == IF pass = "high" THEN call.samples ELSE IF call.samples < 5 THEN call.samples ELSE 5
ByDeadline == pass = "high" /\ call.duration > 0

-----------------------------------------------------------------------------
(* Summaries.                                                               *)

Count(bag, ts) == SumFunctionOnSet(bag, ts)
FirstFailures(ts) == {t \in ts : t.first # "ok"}
Tally(bag, ts) == [n |-> Count(bag, ts), ff |-> Count(bag, FirstFailures(ts))]

\* A group without trials is left out.
Taken(tally) == IF tally.n = 0 THEN None ELSE tally

\* Mutant: every trial that ended well counts as recovered.
AnyRecovery(t) == t.eventual_ok
Recovered(t) == t.first # "ok" /\ t.eventual_ok

TrialsOf(x, ts) == {t \in ts : t.url = x.url}
TargetTallies(c, bag) ==
    {[url |-> x.url, is_ip |-> x.is_ip, n |-> Count(bag, TrialsOf(x, DOMAIN bag)),
      ff |-> Count(bag, FirstFailures(TrialsOf(x, DOMAIN bag)))] :
        x \in {y \in c.targets : TrialsOf(y, DOMAIN bag) # {}}}

Summary(c) ==
    LET high == trials.high
        all  == DOMAIN high
        family(f) == Taken(Tally(high, {t \in all : t.family = f}))
    IN [available |-> TRUE, verdict |-> None, all |-> Tally(high, all),
        v4 |-> family("ipv4"), v6 |-> family("ipv6"),
        low |-> Taken(Tally(trials.low, DOMAIN trials.low)),
        targets |-> TargetTallies(c, high),
        recovered |-> Count(high, {t \in all : Recovered(t)}),
        hard |-> Count(high, {t \in all : ~t.eventual_ok}),
        phases |-> [p \in FailPhases |-> Count(high, {t \in all : t.first = p})]]

Unavailable == [available |-> FALSE]

-----------------------------------------------------------------------------
\* The checks before the first pass.
StartProbe(c) ==
    LET checked == Validated(c)
    IN /\ call' = checked /\ round' = 0 /\ flight' = <<>>
       /\ trials' = [high |-> <<>>, low |-> <<>>]
       /\ queue' = Jobs(checked)
       /\ pass' = IF Jobs(checked) = {} THEN "over" ELSE "high"
       /\ result' = IF Jobs(checked) = {} THEN Unavailable ELSE None

Probing == call # None /\ pass # "over"

Keep(trial) == trials' = [trials EXCEPT ![pass] = @ (+) SetToBag({trial})]

\* Mutant: one retry too many.
MayRetryOnce(attempts) == attempts <= call.retries + 1
MayRetry(attempts) == attempts <= call.retries

\* A worker takes a job and makes the first attempt.
FirstAttempt(job, outcome) ==
    /\ Probing /\ job \in queue
    /\ Cardinality(DOMAIN flight) < Workers
    /\ outcome \in Outcomes(job)
    /\ queue' = queue \ {job}
    /\ IF outcome # "ok" /\ MayRetry(1)
       THEN /\ flight' = [j \in DOMAIN flight \union {job} |->
                             IF j = job THEN [first |-> outcome, attempts |-> 1] ELSE flight[j]]
            /\ UNCHANGED trials
       ELSE Keep(Trial(job, outcome, outcome = "ok")) /\ UNCHANGED flight
    /\ UNCHANGED <<call, pass, round, result>>

\* The next attempt of a trial; it ends the trial if it succeeds or is the last.
Retry(job, ok) ==
    /\ Probing /\ job \in DOMAIN flight
    /\ LET t == flight[job]
           attempts == t.attempts + 1
       IN IF ok \/ ~MayRetry(attempts)
          THEN Keep(Trial(job, t.first, ok)) /\ flight' = Restrict(flight, DOMAIN flight \ {job})
          ELSE flight' = [flight EXCEPT ![job].attempts = attempts] /\ UNCHANGED trials
    /\ UNCHANGED <<call, pass, round, queue, result>>

-----------------------------------------------------------------------------
RoundOver == Probing /\ queue = {} /\ flight = <<>>

\* The deadline may pass during any round; it ends none.
NextRound ==
    /\ RoundOver
    /\ round + 1 < (IF ByDeadline THEN MaxRounds ELSE Rounds)
    /\ round' = round + 1 /\ queue' = Jobs(call)
    /\ UNCHANGED <<call, pass, flight, trials, result>>

Compared == call.compare /\ call.concurrency > 1

\* The site fleet replaces the verdict by one of its own.
Verdict(s) ==
    IF call.label = "wellknown" THEN wellknown_verdict(s) ELSE reliability_verdict(s)

EndPass ==
    /\ RoundOver
    /\ ByDeadline \/ round + 1 = Rounds
    /\ round' = 0
    /\ IF pass = "high" /\ Compared
       THEN pass' = "low" /\ queue' = Jobs(call) /\ UNCHANGED result
       ELSE /\ pass' = "over" /\ UNCHANGED queue
            /\ result' = [Summary(call) EXCEPT !.verdict = Verdict(Summary(call))]
    /\ UNCHANGED <<call, flight, trials>>

\* After a round the callback reports it, and raises if Stop was pressed: all
\* that was measured is lost.
StopProbe ==
    /\ RoundOver /\ call.callback
    /\ call' = None /\ result' = None /\ pass' = "over" /\ round' = 0
    /\ trials' = [high |-> <<>>, low |-> <<>>]
    /\ UNCHANGED <<queue, flight>>

-----------------------------------------------------------------------------
ProbeTypeOK ==
    /\ pass \in {"high", "low", "over"} /\ round \in Nat
    /\ call # None => queue \subseteq Jobs(call) /\ DOMAIN flight \subseteq Jobs(call) \ queue
    /\ \A j \in DOMAIN flight : flight[j].attempts \in 1..call.retries
    /\ \A t \in DOMAIN trials.high : trials.high[t] \in Nat \ {0}

Measured == result # None /\ result.available

\* The numbers of a summary agree with each other: every trial belongs to one
\* family and one target, every first failure has one phase and was recovered
\* from or was final; the sequential pass made its rounds, or was not asked for.
CountersAddUp ==
    Measured =>
        LET s == result
            jobs == Cardinality(Jobs(call))
            fewer == IF call.samples < 5 THEN call.samples ELSE 5
            n(t)  == IF t = None THEN 0 ELSE t.n
            ff(t) == IF t = None THEN 0 ELSE t.ff
        IN /\ n(s.v4) + n(s.v6) = s.all.n /\ ff(s.v4) + ff(s.v6) = s.all.ff
           /\ SumFunction([t \in s.targets |-> t.n]) = s.all.n
           /\ SumFunction([t \in s.targets |-> t.ff]) = s.all.ff
           /\ SumFunction(s.phases) = s.all.ff
           /\ s.recovered + s.hard = s.all.ff
           /\ IF call.duration > 0 THEN s.all.n >= jobs ELSE s.all.n = call.samples * jobs
           /\ IF Compared THEN s.low.n = fewer * jobs ELSE s.low = None
=============================================================================
