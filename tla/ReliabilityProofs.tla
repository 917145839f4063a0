------------------------- MODULE ReliabilityProofs --------------------------
(***************************************************************************)
(* What one call of reliability_test keeps while its workers run, for any  *)
(* targets, numbers of rounds, workers and retries: every job of a round   *)
(* is in the queue, in flight, or among the trials.  The theorems that     *)
(* follow are those of Probes, which makes the calls.                      *)
(***************************************************************************)
EXTENDS ReliabilityProbe, CountingLemmas

\* The parameters of a call.
CallOK(c) ==
    /\ TargetsOK(c.targets)
    /\ c.samples \in Nat \ {0} /\ c.concurrency \in Nat \ {0}
    /\ c.retries \in Nat /\ c.duration \in Nat

\* What a trial and a bag of trials of the call c may be.
TrialOK(c, t) ==
    /\ \E j \in Jobs(c) : t.url = j[1].url /\ t.family = j[2]
    /\ t.first \in FailPhases \union {"ok"}
    /\ t.eventual_ok \in BOOLEAN /\ (t.first = "ok" => t.eventual_ok)
BagOK(c, bag) ==
    /\ IsFiniteSet(DOMAIN bag)
    /\ \A t \in DOMAIN bag : bag[t] \in Nat \ {0} /\ TrialOK(c, t)
Number(bag) == Count(bag, DOMAIN bag)

\* The jobs of the round that are not among the trials yet.
Pending == Cardinality(queue) + Cardinality(DOMAIN flight)
N == Cardinality(Jobs(call))
Fewer == IF call.samples < 5 THEN call.samples ELSE 5

HighDone ==
    IF call.duration > 0 THEN Number(trials.high) >= N ELSE Number(trials.high) = call.samples * N
LowDone == IF Compared THEN Number(trials.low) = Fewer * N ELSE DOMAIN trials.low = {}

\* No call, or one that was made.
Idle ==
    /\ result = None /\ pass = "over" /\ queue = {} /\ DOMAIN flight = {}
    /\ DOMAIN trials.high = {} /\ DOMAIN trials.low = {}
Working ==
    /\ CallOK(call)
    /\ queue \subseteq Jobs(call) /\ DOMAIN flight \subseteq Jobs(call) \ queue
    /\ \A j \in DOMAIN flight : flight[j] \in [first : FailPhases, attempts : 1..call.retries]

InHighPass ==
    /\ Jobs(call) # {} /\ result = None /\ DOMAIN trials.low = {}
    /\ Number(trials.high) + Pending = (round + 1) * N
    /\ call.duration > 0 \/ round + 1 <= call.samples
InLowPass ==
    /\ Jobs(call) # {} /\ result = None /\ Compared /\ HighDone
    /\ Number(trials.low) + Pending = (round + 1) * N
    /\ round + 1 <= Fewer
AllOver ==
    \/ result = Unavailable
    \/ /\ Jobs(call) # {} /\ HighDone /\ LowDone
       /\ \E v : result = [Summary(call) EXCEPT !.verdict = v]

CountInv ==
    /\ DOMAIN trials = {"high", "low"} /\ round \in Nat /\ pass \in {"high", "low", "over"}
    /\ BagOK(call, trials.high) /\ BagOK(call, trials.low)
    /\ call = None => Idle
    /\ call # None => /\ Working
                      /\ pass = "high" => InHighPass
                      /\ pass = "low" => InLowPass
                      /\ pass = "over" => AllOver

-----------------------------------------------------------------------------
\* There are finitely many jobs.
LEMMA JobsAreFinite ==
    ASSUME NEW c, CallOK(c)
    PROVE  IsFiniteSet(Jobs(c)) /\ Cardinality(Jobs(c)) \in Nat
  <1>1. IsFiniteSet(c.targets) /\ IsFiniteSet(Families(c.ipv))
    <2>1. IsFiniteSet({"ipv4"}) /\ IsFiniteSet({"ipv6"})
      BY FS_Singleton
    <2>2. IsFiniteSet({"ipv4", "ipv6"})
      <3>1. {"ipv4", "ipv6"} = {"ipv4"} \union {"ipv6"}
        OBVIOUS
      <3> QED BY <2>1, <3>1, FS_Union
    <2> QED BY <2>1, <2>2 DEF CallOK, TargetsOK, Families
  <1>2. IsFiniteSet(c.targets \X Families(c.ipv))
    BY <1>1, FS_Product
  <1>3. Jobs(c) \subseteq c.targets \X Families(c.ipv)
    BY DEF Jobs
  <1> QED BY <1>2, <1>3, FS_Subset, FS_CardinalityType

\* The number of trials in a bag.
LEMMA NumberIsNatural ==
    ASSUME NEW c, NEW bag, BagOK(c, bag)
    PROVE  /\ Number(bag) \in Nat
           /\ DOMAIN bag = {} => Number(bag) = 0
  <1>1. Number(bag) \in Nat
    BY SumIsNatural DEF BagOK, Number, Count
  <1>2. ASSUME DOMAIN bag = {} PROVE Number(bag) = 0
    BY <1>2, SumFirst, FS_EmptySet DEF Number, Count
  <1> QED BY <1>1, <1>2

\* A trial that is kept is one more.
LEMMA OneMore ==
    ASSUME NEW c, NEW bag, BagOK(c, bag), NEW t, TrialOK(c, t)
    PROVE  /\ BagOK(c, bag (+) SetToBag({t}))
           /\ Number(bag (+) SetToBag({t})) = Number(bag) + 1
  <1> DEFINE more == bag (+) SetToBag({t})
             D == DOMAIN bag
             E == D \union {t}
             R == D \ {t}
  <1>1. /\ DOMAIN more = E
        /\ more[t] = IF t \in D THEN bag[t] + 1 ELSE 1
        /\ \A u \in R : more[u] = bag[u]
    BY DEF BagOK, (+), SetToBag, BagToSet
  <1>2. /\ IsFiniteSet(D) /\ IsFiniteSet(E) /\ IsFiniteSet(R)
        /\ \A u \in D : bag[u] \in Nat \ {0}
    BY FS_AddElement, FS_Subset DEF BagOK
  <1> HIDE DEF more
  <1>3. \A u \in E : more[u] \in Nat \ {0} /\ TrialOK(c, u)
    BY <1>1, <1>2 DEF BagOK
  <1>4. SumFunctionOnSet(more, E) = more[t] + SumFunctionOnSet(more, E \ {t})
    BY <1>2, <1>3, SumTakesAny
  <1>5. E \ {t} = R
    OBVIOUS
  <1>6. SumFunctionOnSet(more, R) = SumFunctionOnSet(bag, R) /\ SumFunctionOnSet(bag, R) \in Nat
    BY <1>1, <1>2, SumOfSame, SumIsNatural
  <1>7. SumFunctionOnSet(bag, D) =
           IF t \in D THEN bag[t] + SumFunctionOnSet(bag, R) ELSE SumFunctionOnSet(bag, R)
    <2>1. CASE t \in D
      BY <1>2, <2>1, SumTakesAny
    <2>2. CASE t \notin D
      <3>1. D = R
        BY <2>2
      <3> QED BY <2>2, <3>1
    <2> QED BY <2>1, <2>2
  <1>8. SumFunctionOnSet(more, E) = SumFunctionOnSet(bag, D) + 1
    BY <1>1, <1>2, <1>4, <1>5, <1>6, <1>7
  <1>9. Number(more) = Number(bag) + 1 /\ BagOK(c, more)
    BY <1>1, <1>2, <1>3, <1>8 DEF Number, Count, BagOK
  <1> QED BY <1>9 DEF more

-----------------------------------------------------------------------------
\* How many jobs are pending.
LEMMA PendingIsNatural ==
    ASSUME CallOK(call), queue \subseteq Jobs(call), DOMAIN flight \subseteq Jobs(call)
    PROVE  /\ IsFiniteSet(queue) /\ IsFiniteSet(DOMAIN flight)
           /\ Cardinality(queue) \in Nat /\ Cardinality(DOMAIN flight) \in Nat
           /\ Pending \in Nat
           /\ N \in Nat
           /\ Jobs(call) # {} => N >= 1
  <1>1. IsFiniteSet(Jobs(call)) /\ N \in Nat
    BY JobsAreFinite DEF N
  <1>2. IsFiniteSet(queue) /\ IsFiniteSet(DOMAIN flight)
    BY <1>1, FS_Subset
  <1>3. Cardinality(queue) \in Nat /\ Cardinality(DOMAIN flight) \in Nat
    BY <1>2, FS_CardinalityType
  <1>4. Jobs(call) # {} => N # 0
    BY <1>1, FS_EmptySet DEF N
  <1> QED BY <1>1, <1>2, <1>3, <1>4 DEF Pending

\* A probe that was never called, or whose call was stopped.
LEMMA IdleIsFine ==
    ASSUME DOMAIN trials = {"high", "low"}, round \in Nat, call = None, Idle
    PROVE  CountInv
  <1>1. BagOK(call, trials.high) /\ BagOK(call, trials.low)
    BY FS_EmptySet DEF Idle, BagOK
  <1> QED BY <1>1 DEF CountInv, Idle

\* A step that only moves a job from the queue to the flight, or tries again.
LEMMA MovedJob ==
    ASSUME CountInv, Probing, UNCHANGED <<call, pass, round, trials, result>>,
           Working', Pending' = Pending
    PROVE  CountInv'
  <1>1. N' = N /\ Compared' = Compared /\ Fewer' = Fewer /\ HighDone' = HighDone
    BY DEF N, Compared, Fewer, HighDone
  <1> QED BY <1>1 DEF CountInv, Probing, InHighPass, InLowPass

\* A step that ends a trial.
LEMMA KeptTrial ==
    ASSUME CountInv, Probing, UNCHANGED <<call, pass, round, result>>,
           NEW t, TrialOK(call, t), Keep(t),
           Working', Pending' = Pending - 1
    PROVE  CountInv'
  <1> DEFINE h == trials.high
             l == trials.low
             b == SetToBag({t})
  <1>1. N' = N /\ Compared' = Compared /\ Fewer' = Fewer /\ TrialOK(call', t)
    BY DEF N, Compared, Fewer
  <1>2. /\ BagOK(call, h) /\ BagOK(call, l) /\ DOMAIN trials = {"high", "low"}
        /\ pass \in {"high", "low"}
    BY DEF CountInv, Probing
  <1>3. Pending \in Nat /\ N \in Nat
    BY PendingIsNatural DEF CountInv, Probing, Working
  <1>4. CASE pass = "high"
    <2>1. trials'.high = h (+) b /\ trials'.low = l /\ DOMAIN trials' = {"high", "low"}
      BY <1>2, <1>4 DEF Keep
    <2>2. BagOK(call, h (+) b) /\ Number(h (+) b) = Number(h) + 1 /\ Number(h) \in Nat
      BY <1>2, OneMore, NumberIsNatural
    <2>3. InHighPass
      BY <1>4 DEF CountInv, Probing
    <2> HIDE DEF h, l, b
    <2>4. Number(trials'.high) + Pending' = Number(trials.high) + Pending
      BY <1>3, <2>1, <2>2 DEF h
    <2>5. (InHighPass)'
      BY <1>1, <2>1, <2>3, <2>4 DEF InHighPass, l
    <2>6. (BagOK(call, trials.high) /\ BagOK(call, trials.low))'
      BY <1>2, <2>1, <2>2
    <2> QED BY <1>4, <2>1, <2>5, <2>6 DEF CountInv, Probing
  <1>5. CASE pass = "low"
    <2>1. trials'.low = l (+) b /\ trials'.high = h /\ DOMAIN trials' = {"high", "low"}
      BY <1>2, <1>5 DEF Keep
    <2>2. BagOK(call, l (+) b) /\ Number(l (+) b) = Number(l) + 1 /\ Number(l) \in Nat
      BY <1>2, OneMore, NumberIsNatural
    <2>3. InLowPass
      BY <1>5 DEF CountInv, Probing
    <2> HIDE DEF h, l, b
    <2>4. Number(trials'.low) + Pending' = Number(trials.low) + Pending
      BY <1>3, <2>1, <2>2 DEF l
    <2>5. HighDone'
      BY <1>1, <2>1, <2>3 DEF InLowPass, HighDone, h
    <2>6. (InLowPass)'
      BY <1>1, <2>1, <2>3, <2>4, <2>5 DEF InLowPass
    <2>7. (BagOK(call, trials.high) /\ BagOK(call, trials.low))'
      BY <1>2, <2>1, <2>2
    <2> QED BY <1>5, <2>1, <2>6, <2>7 DEF CountInv, Probing
  <1> QED BY <1>2, <1>4, <1>5

\* The first attempt of a job ends its trial, or leaves it in flight.
LEMMA FirstAttemptCounts ==
    ASSUME CountInv, NEW job, NEW outcome, FirstAttempt(job, outcome)
    PROVE  CountInv'
  <1>1. /\ Probing /\ job \in queue /\ queue' = queue \ {job}
        /\ outcome \in FailPhases \union {"ok"}
        /\ UNCHANGED <<call, pass, round, result>>
    BY PhasesAssumption DEF FirstAttempt, Outcomes, When
  <1>2. /\ Working /\ CallOK(call) /\ job \in Jobs(call)
        /\ queue \subseteq Jobs(call) /\ DOMAIN flight \subseteq Jobs(call) \ queue
    BY <1>1 DEF CountInv, Probing, Working
  <1>3. /\ IsFiniteSet(queue) /\ IsFiniteSet(DOMAIN flight)
        /\ Cardinality(queue) \in Nat /\ Cardinality(DOMAIN flight) \in Nat
    BY <1>2, PendingIsNatural
  <1>4. Cardinality(queue') = Cardinality(queue) - 1
    BY <1>1, <1>3, FS_RemoveElement
  <1>5. CASE outcome # "ok" /\ MayRetry(1)
    <2> DEFINE F == DOMAIN flight \union {job}
               new == [first |-> outcome, attempts |-> 1]
    <2>1. flight' = [j \in F |-> IF j = job THEN new ELSE flight[j]] /\ UNCHANGED trials
      BY <1>5 DEF FirstAttempt
    <2>2. Cardinality(F) = Cardinality(DOMAIN flight) + 1
      <3>1. job \notin DOMAIN flight
        BY <1>1, <1>2
      <3> QED BY <1>3, <3>1, FS_AddElement
    <2>3. DOMAIN flight' = F /\ flight'[job] = new
          /\ \A j \in DOMAIN flight : flight'[j] = flight[j]
      BY <1>1, <1>2, <2>1
    <2>4. Pending' = Pending
      BY <1>3, <1>4, <2>2, <2>3 DEF Pending
    <2>5. new \in [first : FailPhases, attempts : 1..call.retries]
      BY <1>1, <1>2, <1>5 DEF MayRetry, CallOK
    <2>6. Working'
      BY <1>1, <1>2, <2>3, <2>5 DEF Working
    <2> QED BY <1>1, <2>1, <2>4, <2>6, MovedJob
  <1>6. CASE ~(outcome # "ok" /\ MayRetry(1))
    <2> DEFINE t == Trial(job, outcome, outcome = "ok")
    <2>1. Keep(t) /\ UNCHANGED flight
      BY <1>6 DEF FirstAttempt
    <2>2. TrialOK(call, t)
      BY <1>1, <1>2 DEF Trial, TrialOK
    <2>3. Pending' = Pending - 1 /\ Working'
      BY <1>1, <1>2, <1>3, <1>4, <2>1 DEF Pending, Working
    <2> HIDE DEF t
    <2> QED BY <1>1, <2>1, <2>2, <2>3, KeptTrial
  <1> QED BY <1>5, <1>6

\* A retry ends the trial with its first outcome, or leaves it in flight.
LEMMA RetryCounts ==
    ASSUME CountInv, NEW job, NEW ok \in BOOLEAN, Retry(job, ok)
    PROVE  CountInv'
  <1>1. Probing /\ job \in DOMAIN flight /\ UNCHANGED <<call, pass, round, queue, result>>
    BY DEF Retry
  <1>2. /\ Working /\ CallOK(call) /\ job \in Jobs(call)
        /\ queue \subseteq Jobs(call) /\ DOMAIN flight \subseteq Jobs(call) \ queue
    BY <1>1 DEF CountInv, Probing, Working
  <1>3. /\ IsFiniteSet(queue) /\ IsFiniteSet(DOMAIN flight)
        /\ Cardinality(queue) \in Nat /\ Cardinality(DOMAIN flight) \in Nat
    BY <1>2, PendingIsNatural
  <1>4. flight[job].attempts \in 1..call.retries /\ flight[job].first \in FailPhases
    BY <1>1, <1>2 DEF Working
  <1> DEFINE n == flight[job].attempts + 1
             R == DOMAIN flight \ {job}
  <1>5. CASE ok \/ ~MayRetry(n)
    <2> DEFINE t == Trial(job, flight[job].first, ok)
    <2>1. Keep(t) /\ flight' = [j \in R |-> flight[j]]
      BY <1>5 DEF Retry, Restrict
    <2>2. TrialOK(call, t)
      BY <1>2, <1>4 DEF Trial, TrialOK, FailPhases
    <2>3. Cardinality(R) = Cardinality(DOMAIN flight) - 1
      BY <1>1, <1>3, FS_RemoveElement
    <2>4. DOMAIN flight' = R /\ \A j \in R : flight'[j] = flight[j]
      BY <2>1
    <2>5. Pending' = Pending - 1 /\ Working'
      BY <1>1, <1>2, <1>3, <2>3, <2>4 DEF Pending, Working
    <2> HIDE DEF t
    <2> QED BY <1>1, <2>1, <2>2, <2>5, KeptTrial
  <1>6. CASE ~(ok \/ ~MayRetry(n))
    <2>1. flight' = [flight EXCEPT ![job].attempts = n] /\ UNCHANGED trials
      BY <1>6 DEF Retry
    <2>2. /\ DOMAIN flight' = DOMAIN flight
          /\ \A j \in DOMAIN flight \ {job} : flight'[j] = flight[j]
          /\ flight'[job] = [flight[job] EXCEPT !.attempts = n]
      BY <1>1, <2>1
    <2>3. n \in 1..call.retries
      BY <1>2, <1>4, <1>6 DEF MayRetry, CallOK
    <2>4. flight'[job] \in [first : FailPhases, attempts : 1..call.retries]
      BY <1>1, <1>2, <2>2, <2>3 DEF Working
    <2>5. Working'
      BY <1>1, <1>2, <2>2, <2>4 DEF Working
    <2>6. Pending' = Pending
      BY <1>1, <2>2 DEF Pending
    <2> QED BY <1>1, <2>1, <2>5, <2>6, MovedJob
  <1> QED BY <1>5, <1>6

\* Rounds that are over, in trials.
LEMMA RoundsAreTrials ==
    ASSUME CountInv, RoundOver
    PROVE  /\ Pending = 0 /\ Working /\ CallOK(call) /\ Jobs(call) # {} /\ result = None
           /\ pass \in {"high", "low"} /\ N \in Nat /\ N >= 1 /\ round \in Nat
           /\ pass = "high" => InHighPass /\ Number(trials.high) = (round + 1) * N
           /\ pass = "low" => InLowPass /\ Number(trials.low) = (round + 1) * N
  <1>1. Probing /\ queue = {} /\ DOMAIN flight = {}
    BY DEF RoundOver
  <1>2. /\ Working /\ CallOK(call) /\ pass \in {"high", "low"} /\ round \in Nat
        /\ pass = "high" => InHighPass
        /\ pass = "low" => InLowPass
    BY <1>1 DEF CountInv, Probing, Working
  <1>3. Pending = 0
    BY <1>1, FS_EmptySet DEF Pending
  <1>4. Jobs(call) # {} /\ result = None /\ N \in Nat /\ N >= 1
    BY <1>2, PendingIsNatural DEF Working, InHighPass, InLowPass
  <1>5. Number(trials.high) \in Nat /\ Number(trials.low) \in Nat
    BY NumberIsNatural DEF CountInv
  <1>6. CASE pass = "high"
    BY <1>2, <1>3, <1>4, <1>5, <1>6 DEF InHighPass
  <1>7. CASE pass = "low"
    BY <1>2, <1>3, <1>4, <1>5, <1>7 DEF InLowPass
  <1> QED BY <1>2, <1>3, <1>4, <1>6, <1>7

\* A new round has every job once.
LEMMA NewRound ==
    ASSUME CallOK(call), queue' = Jobs(call), DOMAIN flight' = {}, call' = call
    PROVE  Working' /\ Pending' = N
  <1>1. Cardinality(DOMAIN flight') = 0 /\ Cardinality(queue') = N /\ N \in Nat
    BY FS_EmptySet, JobsAreFinite DEF N
  <1> QED BY <1>1 DEF Working, Pending

\* A round follows as long as there are more to come.
LEMMA NextRoundCounts ==
    ASSUME CountInv, NextRound PROVE CountInv'
  <1>1. /\ RoundOver /\ round' = round + 1 /\ queue' = Jobs(call)
        /\ round + 1 < (IF ByDeadline THEN MaxRounds ELSE Rounds)
        /\ UNCHANGED <<call, pass, flight, trials, result>>
    BY DEF NextRound
  <1>2. /\ Working /\ CallOK(call) /\ pass \in {"high", "low"}
        /\ N \in Nat /\ round \in Nat
        /\ pass = "high" => InHighPass /\ Number(trials.high) = (round + 1) * N
        /\ pass = "low" => InLowPass /\ Number(trials.low) = (round + 1) * N
    BY <1>1, RoundsAreTrials
  <1>3. DOMAIN flight' = {}
    BY <1>1 DEF RoundOver
  <1>4. Working' /\ Pending' = N
    BY <1>1, <1>2, <1>3, NewRound
  <1>5. N' = N /\ Compared' = Compared /\ Fewer' = Fewer /\ HighDone' = HighDone
    BY <1>1 DEF N, Compared, Fewer, HighDone
  <1>6. (round + 1) * N + N = (round' + 1) * N
    BY <1>1, <1>2
  <1>7. ASSUME pass = "high" PROVE (InHighPass)'
    <2>1. call.duration > 0 \/ round' + 1 <= call.samples
      BY <1>1, <1>2, <1>7 DEF ByDeadline, Rounds, CallOK
    <2>2. Number(trials.high)' + Pending' = (round' + 1) * N'
      BY <1>1, <1>2, <1>4, <1>5, <1>6, <1>7
    <2> QED BY <1>1, <1>2, <1>7, <2>1, <2>2 DEF InHighPass
  <1>8. ASSUME pass = "low" PROVE (InLowPass)'
    <2>1. round' + 1 <= Fewer
      BY <1>1, <1>2, <1>8 DEF ByDeadline, Rounds, Fewer, CallOK
    <2>2. Number(trials.low)' + Pending' = (round' + 1) * N'
      BY <1>1, <1>2, <1>4, <1>5, <1>6, <1>8
    <2> QED BY <1>1, <1>2, <1>5, <1>8, <2>1, <2>2 DEF InLowPass
  <1>9. round' \in Nat
    BY <1>1, <1>2
  <1> QED BY <1>1, <1>2, <1>4, <1>7, <1>8, <1>9 DEF CountInv, RoundOver, Probing

\* The first pass makes as many rounds as were asked for, or at least one.
LEMMA HighPassEnds ==
    ASSUME CountInv, RoundOver, pass = "high", ByDeadline \/ round + 1 = Rounds
    PROVE  HighDone
  <1>1. /\ CallOK(call) /\ N \in Nat /\ round \in Nat
        /\ Number(trials.high) = (round + 1) * N
    BY RoundsAreTrials
  <1>2. CASE call.duration > 0
    <2>1. (round + 1) * N = round * N + N /\ round * N \in Nat
      BY <1>1
    <2> QED BY <1>1, <1>2, <2>1 DEF HighDone
  <1>3. CASE ~(call.duration > 0)
    BY <1>1, <1>3 DEF HighDone, ByDeadline, Rounds
  <1> QED BY <1>2, <1>3

\* A pass that is over is followed by the sequential one, or by the summary.
LEMMA EndPassCounts ==
    ASSUME CountInv, EndPass PROVE CountInv'
  <1>1. /\ RoundOver /\ round' = 0 /\ (ByDeadline \/ round + 1 = Rounds)
        /\ UNCHANGED <<call, flight, trials>> /\ DOMAIN flight' = {}
    BY DEF EndPass, RoundOver
  <1>2. /\ Working /\ CallOK(call) /\ pass \in {"high", "low"} /\ Jobs(call) # {}
        /\ N \in Nat /\ round \in Nat /\ result = None /\ call # None
        /\ pass = "high" => InHighPass /\ Number(trials.high) = (round + 1) * N
        /\ pass = "low" => InLowPass /\ Number(trials.low) = (round + 1) * N
    BY <1>1, RoundsAreTrials DEF RoundOver, Probing
  <1>3. N' = N /\ Compared' = Compared /\ Fewer' = Fewer /\ HighDone' = HighDone
        /\ LowDone' = LowDone
    BY <1>1 DEF N, Compared, Fewer, HighDone, LowDone
  <1>4. HighDone
    BY <1>1, <1>2, HighPassEnds DEF InLowPass
  <1>5. CASE pass = "high" /\ Compared
    <2>1. pass' = "low" /\ queue' = Jobs(call) /\ UNCHANGED result
      BY <1>5 DEF EndPass
    <2>2. Working' /\ Pending' = N
      BY <1>1, <1>2, <2>1, NewRound
    <2>3. Number(trials.low)' = 0
      BY <1>1, <1>2, <1>5, NumberIsNatural DEF CountInv, InHighPass
    <2>4. 0 + N = (0 + 1) * N /\ 0 + 1 <= Fewer
      BY <1>2 DEF Fewer, CallOK
    <2>5. (InLowPass)'
      BY <1>1, <1>2, <1>3, <1>4, <1>5, <2>1, <2>2, <2>3, <2>4 DEF InLowPass
    <2> QED BY <1>1, <1>2, <2>1, <2>2, <2>5 DEF CountInv
  <1>6. CASE ~(pass = "high" /\ Compared)
    <2>1. /\ pass' = "over" /\ UNCHANGED queue
          /\ result' = [Summary(call) EXCEPT !.verdict = Verdict(Summary(call))]
      BY <1>6 DEF EndPass
    <2>2. LowDone
      <3>1. CASE pass = "high"
        BY <1>2, <1>6, <3>1 DEF LowDone, InHighPass
      <3>2. CASE pass = "low"
        BY <1>1, <1>2, <3>2 DEF LowDone, InLowPass, ByDeadline, Rounds, Fewer
      <3> QED BY <1>2, <3>1, <3>2
    <2>3. Working'
      BY <1>1, <1>2, <2>1 DEF Working
    <2>4. Summary(call)' = Summary(call)
      BY <1>1 DEF Summary, Tally, TargetTallies
    <2>5. (\E v : result = [Summary(call) EXCEPT !.verdict = v])'
      BY <2>1, <2>4
    <2>6. (AllOver)'
      BY <1>1, <1>2, <1>3, <1>4, <2>2, <2>5 DEF AllOver
    <2> QED BY <1>1, <1>2, <2>1, <2>3, <2>6 DEF CountInv
  <1> QED BY <1>5, <1>6

\* A call starts with every job in the queue, or is over without one.
LEMMA StartCounts ==
    ASSUME NEW c, StartProbe(c), Validated(c) # None, CallOK(Validated(c))
    PROVE  CountInv'
  <1>1. /\ call' = Validated(c) /\ call' # None /\ CallOK(call') /\ round' = 0
        /\ trials' = [high |-> <<>>, low |-> <<>>] /\ flight' = <<>>
        /\ queue' = Jobs(call')
        /\ pass' = IF Jobs(call') = {} THEN "over" ELSE "high"
        /\ result' = IF Jobs(call') = {} THEN Unavailable ELSE None
    BY DEF StartProbe
  <1>2. /\ DOMAIN trials' = {"high", "low"} /\ DOMAIN flight' = {}
        /\ DOMAIN trials'.high = {} /\ DOMAIN trials'.low = {}
    BY <1>1
  <1>3. BagOK(call', trials'.high) /\ BagOK(call', trials'.low)
    BY <1>2, FS_EmptySet DEF BagOK
  <1>4. Working'
    BY <1>1, <1>2 DEF Working
  <1>5. CASE Jobs(call') = {}
    BY <1>1, <1>2, <1>3, <1>4, <1>5 DEF CountInv, AllOver
  <1>6. CASE Jobs(call') # {}
    <2>1. Cardinality(DOMAIN flight') = 0 /\ Cardinality(queue') = N' /\ N' \in Nat
      BY <1>1, <1>2, FS_EmptySet, JobsAreFinite DEF N
    <2>2. Number(trials'.high) = 0
      BY <1>2, <1>3, NumberIsNatural
    <2>3. Number(trials'.high) + Pending' = (round' + 1) * N'
      BY <1>1, <2>1, <2>2 DEF Pending
    <2>4. round' + 1 <= call'.samples
      BY <1>1 DEF CallOK
    <2>5. (InHighPass)'
      BY <1>1, <1>2, <1>6, <2>3, <2>4 DEF InHighPass
    <2> QED BY <1>1, <1>2, <1>3, <1>4, <1>6, <2>5 DEF CountInv
  <1> QED BY <1>5, <1>6

\* Stop leaves nothing of a call.
LEMMA StopCounts ==
    ASSUME StopProbe PROVE CountInv'
  <1>1. /\ call' = None /\ round' = 0 /\ DOMAIN trials' = {"high", "low"}
        /\ result' = None /\ pass' = "over"
        /\ DOMAIN trials'.high = {} /\ DOMAIN trials'.low = {}
        /\ queue' = {} /\ DOMAIN flight' = {}
    BY DEF StopProbe, RoundOver
  <1>2. (Idle)'
    BY <1>1 DEF Idle
  <1>3. BagOK(call', trials'.high) /\ BagOK(call', trials'.low)
    BY <1>1, FS_EmptySet DEF BagOK
  <1> QED BY <1>1, <1>2, <1>3 DEF CountInv

\* The counts are those of the call alone.
LEMMA CountsUnchanged == CountInv /\ UNCHANGED probeVars => CountInv'
  <1> SUFFICES ASSUME CountInv, UNCHANGED probeVars PROVE CountInv'
    OBVIOUS
  <1>1. UNCHANGED <<call, pass, round, queue, flight, trials, result>>
    BY DEF probeVars
  <1>2. /\ N' = N /\ Pending' = Pending /\ Compared' = Compared /\ Fewer' = Fewer
        /\ HighDone' = HighDone /\ LowDone' = LowDone /\ Summary(call)' = Summary(call)
    BY <1>1 DEF N, Pending, Compared, Fewer, HighDone, LowDone, Summary, Tally, TargetTallies
  <1>3. CASE call = None
    BY <1>1, <1>3 DEF CountInv, Idle
  <1>4. CASE call # None
    <2>1. Working /\ pass \in {"high", "low", "over"}
      BY <1>4 DEF CountInv
    <2>2. Working'
      BY <1>1, <2>1 DEF Working
    <2>3. ASSUME pass = "high" PROVE (InHighPass)'
      BY <1>1, <1>2, <1>4, <2>3 DEF CountInv, InHighPass
    <2>4. ASSUME pass = "low" PROVE (InLowPass)'
      BY <1>1, <1>2, <1>4, <2>4 DEF CountInv, InLowPass
    <2>5. ASSUME pass = "over" PROVE (AllOver)'
      BY <1>1, <1>2, <1>4, <2>5 DEF CountInv, AllOver
    <2> QED BY <1>1, <1>4, <2>2, <2>3, <2>4, <2>5 DEF CountInv
  <1> QED BY <1>3, <1>4

-----------------------------------------------------------------------------
(* The summary.                                                             *)

\* Trials of two kinds are counted one kind after the other.
LEMMA CountOfTwo ==
    ASSUME NEW c, NEW bag, BagOK(c, bag),
           NEW T \in SUBSET DOMAIN bag, NEW U \in SUBSET DOMAIN bag, T \intersect U = {}
    PROVE  /\ Count(bag, T) \in Nat /\ Count(bag, U) \in Nat
           /\ Count(bag, T \union U) = Count(bag, T) + Count(bag, U)
  <1>1. IsFiniteSet(DOMAIN bag) /\ \A t \in DOMAIN bag : bag[t] \in Nat
    BY DEF BagOK
  <1>2. IsFiniteSet(T) /\ IsFiniteSet(U)
    BY <1>1, FS_Subset
  <1>3. Count(bag, T) \in Nat /\ Count(bag, U) \in Nat
    BY <1>1, <1>2, SumIsNatural DEF Count
  <1> QED BY <1>1, <1>3, SumOfTwo DEF Count

\* A tally that may be None counts nothing then.
NumberIn(t) == IF t = None THEN 0 ELSE t.n
FailedIn(t) == IF t = None THEN 0 ELSE t.ff

\* Leaving out a tally of no trials loses no first failure.
LEMMA TakenCounts ==
    ASSUME NEW c, NEW bag, BagOK(c, bag), NEW T \in SUBSET DOMAIN bag
    PROVE  /\ NumberIn(Taken(Tally(bag, T))) = Count(bag, T)
           /\ FailedIn(Taken(Tally(bag, T))) = Count(bag, FirstFailures(T))
           /\ Count(bag, T) # 0 => Taken(Tally(bag, T)).n = Count(bag, T)
           /\ Count(bag, T) = 0 => Taken(Tally(bag, T)) = None
  <1> DEFINE F == FirstFailures(T)
  <1>1. F \subseteq T /\ T = F \union (T \ F)
    BY DEF FirstFailures
  <1> HIDE DEF F
  <1>2. /\ Count(bag, F) \in Nat /\ Count(bag, T \ F) \in Nat
        /\ Count(bag, T) = Count(bag, F) + Count(bag, T \ F)
    <2>1. F \intersect (T \ F) = {} /\ F \in SUBSET DOMAIN bag /\ T \ F \in SUBSET DOMAIN bag
      BY <1>1
    <2> QED BY <1>1, <2>1, CountOfTwo
  <1>3. Tally(bag, T) = [n |-> Count(bag, T), ff |-> Count(bag, F)]
    BY DEF Tally, F
  <1>4. Tally(bag, T) \in Tallies /\ Tally(bag, T) # None
    BY <1>2, <1>3, TallyAssumption DEF Tallies
  <1>5. Count(bag, T) = 0 => Count(bag, F) = 0
    BY <1>2
  <1> QED BY <1>3, <1>4, <1>5 DEF Taken, NumberIn, FailedIn, F

\* Every trial is of one family.
LEMMA FamiliesAddUp ==
    ASSUME NEW c, NEW bag, BagOK(c, bag),
           NEW S, S = DOMAIN bag \/ S = FirstFailures(DOMAIN bag)
    PROVE  Count(bag, {t \in S : t.family = "ipv4"}) + Count(bag, {t \in S : t.family = "ipv6"})
             = Count(bag, S)
  <1> DEFINE T == {t \in S : t.family = "ipv4"}
             U == {t \in S : t.family = "ipv6"}
  <1>1. S \in SUBSET DOMAIN bag
    BY DEF FirstFailures
  <1>2. ASSUME NEW t \in S PROVE t.family \in {"ipv4", "ipv6"}
    <2>1. PICK j \in Jobs(c) : t.family = j[2]
      BY <1>1 DEF BagOK, TrialOK
    <2> QED BY <2>1 DEF Jobs, Families
  <1>3. S = T \union U /\ T \intersect U = {} /\ T \in SUBSET DOMAIN bag /\ U \in SUBSET DOMAIN bag
    BY <1>1, <1>2
  <1> HIDE DEF T, U
  <1>4. Count(bag, T) + Count(bag, U) = Count(bag, S)
    BY <1>3, CountOfTwo
  <1> QED BY <1>4 DEF T, U

\* Every first failure was recovered from or was final.
LEMMA OutcomesAddUp ==
    ASSUME NEW c, NEW bag, BagOK(c, bag)
    PROVE  Count(bag, {t \in DOMAIN bag : Recovered(t)}) + Count(bag, {t \in DOMAIN bag : ~t.eventual_ok})
             = Count(bag, FirstFailures(DOMAIN bag))
  <1> DEFINE T == {t \in DOMAIN bag : Recovered(t)}
             U == {t \in DOMAIN bag : ~t.eventual_ok}
  <1>1. \A t \in DOMAIN bag : t.first = "ok" => t.eventual_ok
    BY DEF BagOK, TrialOK
  <1>2. FirstFailures(DOMAIN bag) = T \union U /\ T \intersect U = {}
        /\ T \in SUBSET DOMAIN bag /\ U \in SUBSET DOMAIN bag
    BY <1>1 DEF FirstFailures, Recovered
  <1> HIDE DEF T, U
  <1>3. Count(bag, T) + Count(bag, U) = Count(bag, FirstFailures(DOMAIN bag))
    BY <1>2, CountOfTwo
  <1> QED BY <1>3 DEF T, U

\* There are six phases.
LEMMA FailPhasesAreFinite == IsFiniteSet(FailPhases)
  <1>1. \A S, x : IsFiniteSet(S) => IsFiniteSet(S \union {x})
    BY FS_AddElement
  <1>2. FailPhases = ((((({"dns"} \union {"tcp"}) \union {"tls"}) \union {"ttfb"})
                        \union {"body"}) \union {"unknown"})
    BY DEF FailPhases
  <1>3. IsFiniteSet({"dns"})
    BY FS_Singleton
  <1> QED BY <1>1, <1>2, <1>3

\* Every first failure has one phase.
LEMMA PhasesAddUp ==
    ASSUME NEW c, NEW bag, BagOK(c, bag)
    PROVE  SumFunction([p \in FailPhases |-> Count(bag, {t \in DOMAIN bag : t.first = p})])
             = Count(bag, FirstFailures(DOMAIN bag))
  <1> DEFINE P == [p \in FailPhases |-> {t \in DOMAIN bag : t.first = p}]
             G == [p \in FailPhases |-> Count(bag, {t \in DOMAIN bag : t.first = p})]
             S == DOMAIN bag
  <1>1. IsFiniteSet(S) /\ \A t \in S : bag[t] \in Nat
    BY DEF BagOK
  <1>2. /\ \A p \in FailPhases : P[p] \in SUBSET S
        /\ \A p, q \in FailPhases : p # q => P[p] \intersect P[q] = {}
    OBVIOUS
  <1>3. \A p \in FailPhases : G[p] = SumFunctionOnSet(bag, P[p])
    BY DEF Count
  <1>4. UNION {P[p] : p \in FailPhases} = FirstFailures(S)
    <2>1. \A t \in S : t.first # "ok" => t.first \in FailPhases
      BY DEF BagOK, TrialOK
    <2>2. "ok" \notin FailPhases
      BY DEF FailPhases
    <2> QED BY <2>1, <2>2 DEF FirstFailures
  <1>5. DOMAIN G = FailPhases
    OBVIOUS
  <1> HIDE DEF P, G, S
  <1>6. SumFunctionOnSet(G, FailPhases) = SumFunctionOnSet(bag, UNION {P[p] : p \in FailPhases})
    BY <1>1, <1>2, <1>3, FailPhasesAreFinite, SumByParts
  <1>7. SumFunction(G) = Count(bag, FirstFailures(S))
    BY <1>4, <1>5, <1>6 DEF SumFunction, Count
  <1> QED BY <1>7 DEF G, S

\* Every trial is of one target.
LEMMA TargetsAddUp ==
    ASSUME NEW c, CallOK(c), NEW bag, BagOK(c, bag)
    PROVE  /\ SumFunction([k \in TargetTallies(c, bag) |-> k.n]) = Count(bag, DOMAIN bag)
           /\ SumFunction([k \in TargetTallies(c, bag) |-> k.ff])
                = Count(bag, FirstFailures(DOMAIN bag))
  <1> DEFINE S == DOMAIN bag
             K == TargetTallies(c, bag)
             row(x) == [url |-> x.url, is_ip |-> x.is_ip, n |-> Count(bag, TrialsOf(x, S)),
                        ff |-> Count(bag, FirstFailures(TrialsOf(x, S)))]
             X == {x \in c.targets : TrialsOf(x, S) # {}}
             P == [k \in K |-> TrialsOf(k, S)]
             Q == [k \in K |-> FirstFailures(TrialsOf(k, S))]
             G == [k \in K |-> k.n]
             H == [k \in K |-> k.ff]
  <1>1. IsFiniteSet(S) /\ \A t \in S : bag[t] \in Nat
    BY DEF BagOK
  <1>2. K = {row(x) : x \in X}
    BY DEF TargetTallies
  <1>3. IsFiniteSet(K)
    <2>1. IsFiniteSet(X)
      BY FS_Subset DEF CallOK, TargetsOK
    <2> DEFINE f == [x \in X |-> row(x)]
    <2>2. f \in Surjection(X, K)
      BY <1>2 DEF Surjection
    <2> QED BY <2>1, <2>2, FS_Surjection
  <1>4. ASSUME NEW k \in K
        PROVE  /\ k.n = Count(bag, TrialsOf(k, S)) /\ k.ff = Count(bag, FirstFailures(TrialsOf(k, S)))
               /\ \E x \in X : k = row(x) /\ k.url = x.url
    <2>1. PICK x \in X : k = row(x)
      BY <1>2
    <2>2. k.url = x.url /\ k.n = Count(bag, TrialsOf(x, S))
          /\ k.ff = Count(bag, FirstFailures(TrialsOf(x, S)))
      BY <2>1
    <2>3. TrialsOf(k, S) = TrialsOf(x, S)
      BY <2>2 DEF TrialsOf
    <2> QED BY <2>1, <2>2, <2>3
  <1>5. ASSUME NEW k \in K, NEW l \in K, k.url = l.url PROVE k = l
    <2>1. PICK x \in X : k = row(x) /\ k.url = x.url
      BY <1>4
    <2>2. PICK y \in X : l = row(y) /\ l.url = y.url
      BY <1>4
    <2>3. x = y
      BY <1>5, <2>1, <2>2 DEF CallOK, TargetsOK
    <2> QED BY <2>1, <2>2, <2>3
  <1>6. ASSUME NEW t \in S PROVE \E k \in K : t.url = k.url
    <2>1. PICK j \in Jobs(c) : t.url = j[1].url
      BY DEF BagOK, TrialOK
    <2>2. j[1] \in X
      BY <2>1 DEF Jobs, TrialsOf
    <2>3. row(j[1]) \in K /\ row(j[1]).url = t.url
      BY <1>2, <2>1, <2>2
    <2> QED BY <2>3
  <1> HIDE DEF K, X
  <1>7. /\ \A k \in K : P[k] \in SUBSET S /\ Q[k] \in SUBSET S
        /\ \A k \in K : G[k] = SumFunctionOnSet(bag, P[k]) /\ H[k] = SumFunctionOnSet(bag, Q[k])
        /\ \A k, l \in K : k # l => P[k] \intersect P[l] = {} /\ Q[k] \intersect Q[l] = {}
    <2>1. ASSUME NEW k \in K
          PROVE  P[k] = TrialsOf(k, S) /\ Q[k] = FirstFailures(TrialsOf(k, S))
      OBVIOUS
    <2>2. ASSUME NEW k \in K PROVE G[k] = k.n /\ H[k] = k.ff
      OBVIOUS
    <2> HIDE DEF P, Q, G, H, S
    <2>3. ASSUME NEW k \in K PROVE P[k] \in SUBSET S /\ Q[k] \in SUBSET P[k]
      BY <2>1, <2>3 DEF TrialsOf, FirstFailures
    <2>4. ASSUME NEW k \in K
          PROVE  G[k] = SumFunctionOnSet(bag, P[k]) /\ H[k] = SumFunctionOnSet(bag, Q[k])
      BY <1>4, <2>1, <2>2, <2>4 DEF Count, S
    <2>5. ASSUME NEW k \in K, NEW l \in K, k # l PROVE P[k] \intersect P[l] = {}
      <3>1. k.url # l.url
        BY <1>5, <2>5
      <3>2. TrialsOf(k, S) \intersect TrialsOf(l, S) = {}
        BY <3>1 DEF TrialsOf
      <3>3. P[k] = TrialsOf(k, S) /\ P[l] = TrialsOf(l, S)
        BY <2>1
      <3> QED BY <3>2, <3>3
    <2>6. ASSUME NEW k \in K, NEW l \in K, k # l PROVE Q[k] \intersect Q[l] = {}
      BY <2>3, <2>5, <2>6
    <2> QED BY <2>3, <2>4, <2>5, <2>6
  <1>8. UNION {P[k] : k \in K} = S /\ UNION {Q[k] : k \in K} = FirstFailures(S)
    <2>1. ASSUME NEW k \in K
          PROVE  P[k] = TrialsOf(k, S) /\ Q[k] = FirstFailures(TrialsOf(k, S))
      OBVIOUS
    <2> HIDE DEF P, Q, S
    <2>2. ASSUME NEW t \in S PROVE \E k \in K : t \in P[k]
      <3>1. PICK k \in K : t.url = k.url
        BY <1>6, <2>2 DEF S
      <3> QED BY <2>1, <2>2, <3>1 DEF TrialsOf
    <2>3. ASSUME NEW t \in S, t.first # "ok" PROVE \E k \in K : t \in Q[k]
      BY <2>1, <2>2, <2>3 DEF FirstFailures
    <2>4. \A k \in K : P[k] \in SUBSET S /\ Q[k] \in SUBSET FirstFailures(S)
      BY <2>1 DEF TrialsOf, FirstFailures
    <2>5. \A t \in FirstFailures(S) : t \in S /\ t.first # "ok"
      BY DEF FirstFailures
    <2> QED BY <2>2, <2>3, <2>4, <2>5
  <1>9. DOMAIN G = K /\ DOMAIN H = K
    OBVIOUS
  <1> HIDE DEF P, Q, G, H, S
  <1>10. SumFunctionOnSet(G, K) = SumFunctionOnSet(bag, UNION {P[k] : k \in K})
    BY <1>1, <1>3, <1>7, SumByParts
  <1>11. SumFunctionOnSet(H, K) = SumFunctionOnSet(bag, UNION {Q[k] : k \in K})
    BY <1>1, <1>3, <1>7, SumByParts
  <1>12. SumFunction(G) = Count(bag, S) /\ SumFunction(H) = Count(bag, FirstFailures(S))
    BY <1>8, <1>9, <1>10, <1>11 DEF SumFunction, Count
  <1> QED BY <1>12 DEF G, H, K, S

-----------------------------------------------------------------------------
\* What the result of a call adds up to, whatever the verdict.
LEMMA SummaryAddsUp ==
    ASSUME CountInv, call # None, NEW v, NEW s,
           s = [Summary(call) EXCEPT !.verdict = v], HighDone, LowDone, Jobs(call) # {}
    PROVE  /\ NumberIn(s.v4) + NumberIn(s.v6) = s.all.n
           /\ FailedIn(s.v4) + FailedIn(s.v6) = s.all.ff
           /\ SumFunction([t \in s.targets |-> t.n]) = s.all.n
           /\ SumFunction([t \in s.targets |-> t.ff]) = s.all.ff
           /\ SumFunction(s.phases) = s.all.ff
           /\ s.recovered + s.hard = s.all.ff
           /\ IF call.duration > 0 THEN s.all.n >= N ELSE s.all.n = call.samples * N
           /\ IF Compared THEN s.low.n = Fewer * N ELSE s.low = None
  <1> DEFINE h == trials.high
             l == trials.low
             D == DOMAIN h
             F4 == {t \in D : t.family = "ipv4"}
             F6 == {t \in D : t.family = "ipv6"}
  <1>1. /\ s.all.n = Count(h, D) /\ s.all.ff = Count(h, FirstFailures(D))
        /\ s.v4 = Taken(Tally(h, F4)) /\ s.v6 = Taken(Tally(h, F6))
        /\ s.low = Taken(Tally(l, DOMAIN l))
    BY DEF Summary, Tally
  <1>2. /\ s.targets = TargetTallies(call, h)
        /\ s.recovered = Count(h, {t \in D : Recovered(t)})
        /\ s.hard = Count(h, {t \in D : ~t.eventual_ok})
        /\ s.phases = [p \in FailPhases |-> Count(h, {t \in D : t.first = p})]
    BY DEF Summary
  <1>3. BagOK(call, h) /\ BagOK(call, l) /\ CallOK(call) /\ Working
    BY DEF CountInv, Working
  <1>4. NumberIn(s.v4) + NumberIn(s.v6) = s.all.n
    <2>1. NumberIn(s.v4) = Count(h, F4) /\ NumberIn(s.v6) = Count(h, F6)
      BY <1>1, <1>3, TakenCounts
    <2>2. Count(h, F4) + Count(h, F6) = Count(h, D)
      BY <1>3, FamiliesAddUp
    <2> QED BY <1>1, <2>1, <2>2
  <1>5. FailedIn(s.v4) + FailedIn(s.v6) = s.all.ff
    <2>1. FailedIn(s.v4) = Count(h, FirstFailures(F4)) /\ FailedIn(s.v6) = Count(h, FirstFailures(F6))
      BY <1>1, <1>3, TakenCounts
    <2>2. /\ FirstFailures(F4) = {t \in FirstFailures(D) : t.family = "ipv4"}
          /\ FirstFailures(F6) = {t \in FirstFailures(D) : t.family = "ipv6"}
      BY DEF FirstFailures
    <2>3. Count(h, FirstFailures(F4)) + Count(h, FirstFailures(F6)) = Count(h, FirstFailures(D))
      BY <1>3, <2>2, FamiliesAddUp
    <2> QED BY <1>1, <2>1, <2>3
  <1>6. /\ SumFunction([t \in s.targets |-> t.n]) = s.all.n
        /\ SumFunction([t \in s.targets |-> t.ff]) = s.all.ff
    BY <1>1, <1>2, <1>3, TargetsAddUp
  <1>7. SumFunction(s.phases) = s.all.ff
    BY <1>1, <1>2, <1>3, PhasesAddUp
  <1>8. s.recovered + s.hard = s.all.ff
    BY <1>1, <1>2, <1>3, OutcomesAddUp
  <1>9. IF call.duration > 0 THEN s.all.n >= N ELSE s.all.n = call.samples * N
    BY <1>1 DEF HighDone, Number
  <1>10. IF Compared THEN s.low.n = Fewer * N ELSE s.low = None
    <2>1. N \in Nat /\ N >= 1
      BY <1>3, PendingIsNatural DEF Working
    <2>2. CASE Compared
      <3>1. Count(l, DOMAIN l) = Fewer * N /\ Fewer \in Nat /\ Fewer >= 1
        BY <1>3, <2>2 DEF LowDone, Number, Fewer, CallOK
      <3>2. Fewer * N # 0
        BY <2>1, <3>1, SMT
      <3> QED BY <1>1, <1>3, <2>2, <3>1, <3>2, TakenCounts
    <2>3. CASE ~Compared
      <3>1. Count(l, DOMAIN l) = 0
        BY <1>3, <2>3, NumberIsNatural DEF LowDone, Number
      <3> QED BY <1>1, <1>3, <2>3, <3>1, TakenCounts
    <2> QED BY <2>2, <2>3
  <1> QED BY <1>4, <1>5, <1>6, <1>7, <1>8, <1>9, <1>10

\* What a probe returns adds up.
LEMMA CountsAddUp == CountInv => CountersAddUp
  <1> SUFFICES ASSUME CountInv, Measured PROVE CountersAddUp
    BY DEF CountersAddUp
  <1>1. call # None /\ pass = "over"
    BY DEF Measured, CountInv, Idle, InHighPass, InLowPass
  <1>2. result # Unavailable
    BY DEF Measured, Unavailable
  <1>3. PICK v : result = [Summary(call) EXCEPT !.verdict = v]
    BY <1>1, <1>2 DEF CountInv, AllOver
  <1>4. HighDone /\ LowDone /\ Jobs(call) # {}
    BY <1>1, <1>2 DEF CountInv, AllOver
  <1> DEFINE s == result
  <1>5. s = [Summary(call) EXCEPT !.verdict = v]
    BY <1>3
  <1> HIDE DEF s
  <1>6. /\ NumberIn(s.v4) + NumberIn(s.v6) = s.all.n
        /\ FailedIn(s.v4) + FailedIn(s.v6) = s.all.ff
        /\ SumFunction([t \in s.targets |-> t.n]) = s.all.n
        /\ SumFunction([t \in s.targets |-> t.ff]) = s.all.ff
        /\ SumFunction(s.phases) = s.all.ff
        /\ s.recovered + s.hard = s.all.ff
        /\ IF call.duration > 0 THEN s.all.n >= N ELSE s.all.n = call.samples * N
        /\ IF Compared THEN s.low.n = Fewer * N ELSE s.low = None
    BY <1>1, <1>4, <1>5, SummaryAddsUp
  <1> QED BY <1>6 DEF CountersAddUp, N, Fewer, NumberIn, FailedIn, s
=============================================================================
