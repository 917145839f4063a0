--------------------------- MODULE MonitorProofs ---------------------------
(***************************************************************************)
(* Monitor satisfies its invariants, for every set of samplers, keys and   *)
(* target sets, every size of the two deques and whatever raises.          *)
(***************************************************************************)
EXTENDS Monitor, CountingLemmas, SequenceTheorems

Sample == [stamp : Stamp, ok : UNION {[K -> BOOLEAN] : K \in TargetSets}]

\* The types of what the threads work with.  A sampler that has passed its
\* first reading of the targets finds some there.
ThreadsOK ==
    /\ running \in BOOLEAN
    /\ targets \in TargetSets \/ targets = {}
    /\ phase \in [Samplers -> {"unused", "loading", "check", "probing",
                               "pause", "ended", "died"}]
    /\ flight \in [Samplers -> Plan \union {NoPlan}]
    /\ \A t \in Samplers :
         /\ phase[t] = "probing" => flight[t] \in Plan /\ flight[t].stamp.by = t
         /\ phase[t] \in {"check", "probing", "pause"} => targets \in TargetSets
    /\ clock \in 0..MaxSamples
    /\ log \in Seq(Sample)

\* A session is a sampler that was made.
SessionsAreStarts ==
    session = Cardinality({t \in Samplers : phase[t] # "unused"})

\* No two samples bear the same timestamp, whether they are added or on their way.
StampsAreFresh ==
    /\ \A m, n \in 1..Len(log) : log[m].stamp.ts = log[n].stamp.ts => m = n
    /\ \A n \in 1..Len(log) : log[n].stamp.ts <= clock
    /\ \A t \in Samplers : phase[t] = "probing" =>
         /\ flight[t].stamp.ts <= clock
         /\ \A n \in 1..Len(log) : log[n].stamp.ts # flight[t].stamp.ts
         /\ \A u \in Samplers :
              phase[u] = "probing" /\ flight[u].stamp.ts = flight[t].stamp.ts => u = t

\* A sampler adds at most one sample that it began in an earlier session: while
\* it works on that one it has added none.
LateOnce ==
    /\ \A m, n \in 1..Len(log) :
         m # n /\ log[m].stamp.by = log[n].stamp.by =>
            log[m].stamp.session = session \/ log[n].stamp.session = session
    /\ \A t \in Samplers :
         phase[t] = "probing" /\ flight[t].stamp.session # session =>
            \A n \in 1..Len(log) : log[n].stamp.by # t

WindowIsLatest == samples = Latest(log, Window)

LogInv == ThreadsOK /\ SessionsAreStarts /\ StampsAreFresh /\ LateOnce

-----------------------------------------------------------------------------
(* The deques.                                                              *)

\* What a deque keeps: the last elements, no more of them than fit.
LEMMA LatestProperties ==
    ASSUME NEW S, NEW q \in Seq(S), NEW n \in Nat
    PROVE  /\ Latest(q, n) \in Seq(S)
           /\ Len(Latest(q, n)) = IF Len(q) > n THEN n ELSE Len(q)
           /\ \A i \in 1..Len(Latest(q, n)) :
                Latest(q, n)[i] = q[Len(q) - Len(Latest(q, n)) + i]
  <1>1. Len(q) \in Nat /\ \A i \in 1..Len(q) : q[i] \in S
    BY LenProperties
  <1>2. CASE Len(q) > n
    <2> DEFINE m == Len(q) - n + 1
    <2>1. m \in Int /\ Len(q) \in Int /\ \A i \in m..Len(q) : q[i] \in S
      BY <1>1, <1>2
    <2>2. Latest(q, n) = SubSeq(q, m, Len(q))
      BY <1>2 DEF Latest
    <2>3. /\ SubSeq(q, m, Len(q)) \in Seq(S)
          /\ Len(SubSeq(q, m, Len(q))) = IF m <= Len(q) THEN Len(q) - m + 1 ELSE 0
          /\ \A i \in 1..(Len(q) - m + 1) : SubSeq(q, m, Len(q))[i] = q[m + i - 1]
      <3> HIDE DEF m
      <3> QED BY <2>1, SubSeqProperties
    <2>4. Len(Latest(q, n)) = n
      BY <1>1, <1>2, <2>2, <2>3
    <2>5. ASSUME NEW i \in 1..n PROVE Latest(q, n)[i] = q[Len(q) - n + i]
      <3>1. i \in 1..(Len(q) - m + 1) /\ m + i - 1 = Len(q) - n + i
        BY <1>1
      <3> QED BY <3>1, <2>2, <2>3
    <2> QED BY <1>2, <2>2, <2>3, <2>4, <2>5
  <1>3. CASE ~(Len(q) > n)
    BY <1>1, <1>3 DEF Latest
  <1> QED BY <1>2, <1>3

\* It makes no difference to a deque whether it dropped before or after.
LEMMA LatestOfLatest ==
    ASSUME NEW S, NEW a \in Seq(S), NEW b \in Seq(S), NEW n \in Nat
    PROVE  Latest(Latest(a, n) \o b, n) = Latest(a \o b, n)
  <1> DEFINE l == Latest(a, n)
             x == Latest(l \o b, n)
             y == Latest(a \o b, n)
  <1>1. /\ l \in Seq(S) /\ Len(l) = IF Len(a) > n THEN n ELSE Len(a)
        /\ \A i \in 1..Len(l) : l[i] = a[Len(a) - Len(l) + i]
        /\ Len(a) \in Nat /\ Len(b) \in Nat /\ Len(l) \in Nat
    BY LatestProperties, LenProperties
  <1> HIDE DEF l
  <1>2. /\ l \o b \in Seq(S) /\ Len(l \o b) = Len(l) + Len(b)
        /\ \A i \in 1..(Len(l) + Len(b)) :
             (l \o b)[i] = IF i <= Len(l) THEN l[i] ELSE b[i - Len(l)]
    BY <1>1, ConcatProperties
  <1>3. /\ a \o b \in Seq(S) /\ Len(a \o b) = Len(a) + Len(b)
        /\ \A i \in 1..(Len(a) + Len(b)) :
             (a \o b)[i] = IF i <= Len(a) THEN a[i] ELSE b[i - Len(a)]
    BY ConcatProperties
  <1> DEFINE p == l \o b
             q == a \o b
  <1> HIDE DEF p, q
  <1>4. /\ x \in Seq(S) /\ Len(x) = IF Len(p) > n THEN n ELSE Len(p)
        /\ \A i \in 1..Len(x) : x[i] = p[Len(p) - Len(x) + i]
    BY <1>2, LatestProperties DEF p
  <1>5. /\ y \in Seq(S) /\ Len(y) = IF Len(q) > n THEN n ELSE Len(q)
        /\ \A i \in 1..Len(y) : y[i] = q[Len(q) - Len(y) + i]
    BY <1>3, LatestProperties DEF q
  <1> HIDE DEF x, y
  <1>6. Len(x) = Len(y) /\ Len(x) \in Nat
    BY <1>1, <1>2, <1>3, <1>4, <1>5 DEF p, q
  <1>7. ASSUME NEW i \in 1..Len(x) PROVE x[i] = y[i]
    <2> DEFINE j == Len(p) - Len(x) + i
               k == Len(q) - Len(y) + i
               d == Len(a) - Len(l)
    <2>1. /\ j \in 1..(Len(l) + Len(b)) /\ k \in 1..(Len(a) + Len(b))
          /\ k = j + d /\ d \in Nat
      <3>1. /\ Len(p) = Len(l) + Len(b) /\ Len(q) = Len(a) + Len(b)
            /\ Len(y) = Len(x) /\ Len(x) \in Nat /\ Len(x) <= Len(p)
            /\ Len(a) \in Nat /\ Len(l) \in Nat /\ Len(b) \in Nat /\ Len(l) <= Len(a)
        BY <1>1, <1>2, <1>3, <1>4, <1>6 DEF p, q
      <3> QED BY <3>1
    <2>2. x[i] = p[j] /\ y[i] = q[k]
      BY <1>4, <1>5, <1>6
    <2>3. d = Len(a) - Len(l) /\ i \in Nat
      OBVIOUS
    <2> HIDE DEF j, k, d
    <2>4. p[j] = IF j <= Len(l) THEN l[j] ELSE b[j - Len(l)]
      BY <1>2, <2>1 DEF p
    <2>5. q[k] = IF k <= Len(a) THEN a[k] ELSE b[k - Len(a)]
      BY <1>3, <2>1 DEF q
    <2>6. CASE j <= Len(l)
      <3>1. k <= Len(a) /\ l[j] = a[k]
        <4>1. j \in 1..Len(l) /\ Len(a) - Len(l) + j = k /\ k <= Len(a)
          BY <2>1, <2>3, <2>6, <1>1
        <4> QED BY <4>1, <1>1
      <3> QED BY <3>1, <2>2, <2>4, <2>5, <2>6
    <2>7. CASE ~(j <= Len(l))
      <3>1. ~(k <= Len(a)) /\ k - Len(a) = j - Len(l)
        BY <2>1, <2>3, <2>7, <1>1
      <3> QED BY <3>1, <2>2, <2>4, <2>5, <2>7
    <2> QED BY <2>6, <2>7
  <1>8. x = y
    BY <1>4, <1>5, <1>6, <1>7, SeqEqual
  <1> QED BY <1>8 DEF x, y, l

-----------------------------------------------------------------------------
(* The samples and their stamps.                                            *)

\* The assumption about the keys, as sets and functions.
LEMMA KeysAreOnce ==
    /\ Keys \in [1..Len(Keys) -> KeySet] /\ Len(Keys) \in Nat
    /\ IsFiniteSet(KeySet)
    /\ \A m, n \in 1..Len(Keys) : Keys[m] = Keys[n] => m = n
  <1>1. Len(Keys) \in Nat /\ Keys \in [1..Len(Keys) -> STRING]
    BY MonitorAssumption, LenProperties
  <1>2. Keys \in [1..Len(Keys) -> KeySet]
    BY <1>1 DEF KeySet
  <1>3. Keys \in Surjection(1..Len(Keys), KeySet)
    BY <1>2, Fun_IsSurj DEF KeySet
  <1>4. IsFiniteSet(1..Len(Keys))
    BY <1>1, FS_Interval
  <1>5. IsFiniteSet(KeySet)
    BY <1>3, <1>4, FS_Surjection
  <1> QED BY <1>1, <1>2, <1>5, MonitorAssumption

\* There are no more sessions than samplers.
LEMMA SessionType ==
    ASSUME ThreadsOK, SessionsAreStarts
    PROVE  session \in 0..Cardinality(Samplers) /\ Cardinality(Samplers) \in Nat
  <1> DEFINE T == {t \in Samplers : phase[t] # "unused"}
  <1>1. T \in SUBSET Samplers
    OBVIOUS
  <1>2. /\ IsFiniteSet(T) /\ Cardinality(T) <= Cardinality(Samplers)
        /\ Cardinality(T) \in Nat /\ Cardinality(Samplers) \in Nat
    BY <1>1, MonitorAssumption, FS_Subset, FS_CardinalityType
  <1> QED BY <1>2 DEF SessionsAreStarts

\* Before the first start there are no samples.
LEMMA InitLog == Init => LogInv /\ WindowIsLatest
  <1> SUFFICES ASSUME Init PROVE LogInv /\ WindowIsLatest
    OBVIOUS
  <1>1. ThreadsOK
    <2>1. \A t \in Samplers : phase[t] = "unused"
      BY DEF Init
    <2>2. phase \in [Samplers -> {"unused", "loading", "check", "probing",
                                 "pause", "ended", "died"}]
      BY DEF Init
    <2>3. flight \in [Samplers -> Plan \union {NoPlan}]
      BY DEF Init
    <2>4. log \in Seq(Sample)
      <3>1. <<>> \in Seq(Sample)
        BY EmptySeq, Zenon
      <3> QED BY <3>1 DEF Init
    <2>5. running \in BOOLEAN /\ targets = {} /\ clock \in 0..MaxSamples
      <3>1. running = FALSE /\ targets = {} /\ clock = 0
        BY DEF Init
      <3>2. MaxSamples \in Nat
        BY MonitorAssumption
      <3>3. clock \in 0..MaxSamples
        BY <3>1, <3>2
      <3> QED BY <3>1, <3>3, Zenon
    <2>6. \A t \in Samplers :
            phase[t] # "probing" /\ ~(phase[t] \in {"check", "probing", "pause"})
      BY <2>1
    <2> QED BY <2>2, <2>3, <2>4, <2>5, <2>6 DEF ThreadsOK
  <1>2. SessionsAreStarts
    <2>1. {t \in Samplers : phase[t] # "unused"} = {}
      BY DEF Init
    <2> QED BY <2>1, FS_EmptySet DEF Init, SessionsAreStarts
  <1>3. StampsAreFresh /\ LateOnce
    BY DEF Init, StampsAreFresh, LateOnce
  <1>4. WindowIsLatest
    BY MonitorAssumption DEF Init, WindowIsLatest, Latest
  <1> QED BY <1>1, <1>2, <1>3, <1>4 DEF LogInv

\* A step that only moves one made thread on does not change the sessions.
LEMMA StaysMade ==
    ASSUME ThreadsOK, SessionsAreStarts, NEW t \in Samplers, phase[t] # "unused",
           NEW p, p # "unused", Goto(t, p), session' = session
    PROVE  SessionsAreStarts'
  <1>1. {u \in Samplers : phase'[u] # "unused"} = {u \in Samplers : phase[u] # "unused"}
    BY DEF Goto, ThreadsOK
  <1> QED BY <1>1 DEF SessionsAreStarts

\* A step that leaves the log, the clock, the session and every flight alone
\* and sends nobody to probe keeps the stamps.
LEMMA StampsStay ==
    ASSUME StampsAreFresh, LateOnce,
           log' = log, clock' = clock, session' = session,
           \A t \in Samplers : phase'[t] = "probing" =>
               phase[t] = "probing" /\ flight'[t] = flight[t]
    PROVE  StampsAreFresh' /\ LateOnce'
  BY DEF StampsAreFresh, LateOnce

\* monitor_start clears samples and outages together; what older samplers
\* have in flight may come late.
LEMMA StartKeepsLog ==
    ASSUME LogInv, NEW t \in Samplers, Start(t)
    PROVE  LogInv' /\ WindowIsLatest'
  <1> USE DEF LogInv
  <1>1. ThreadsOK'
    BY DEF Start, ThreadsOK, Goto
  <1>2. SessionsAreStarts'
    <2> DEFINE T == {u \in Samplers : phase[u] # "unused"}
    <2>1. {u \in Samplers : phase'[u] # "unused"} = T \union {t} /\ t \notin T
      BY DEF Start, Goto, ThreadsOK
    <2>2. T \in SUBSET Samplers
      OBVIOUS
    <2>3. IsFiniteSet(T)
      BY <2>2, MonitorAssumption, FS_Subset
    <2> HIDE DEF T
    <2>4. Cardinality(T \union {t}) = Cardinality(T) + 1
      BY <2>1, <2>3, FS_AddElement
    <2>5. session = Cardinality(T) /\ session' = session + 1
      BY DEF T, SessionsAreStarts, Start
    <2> QED BY <2>1, <2>4, <2>5 DEF SessionsAreStarts
  <1>3. StampsAreFresh' /\ LateOnce'
    <2>1. /\ log' = <<>> /\ clock' = clock /\ flight' = flight
          /\ \A u \in Samplers : phase'[u] = "probing" => phase[u] = "probing"
      BY DEF Start, Goto, ThreadsOK
    <2> QED BY <2>1 DEF StampsAreFresh, LateOnce
  <1>4. WindowIsLatest'
    BY MonitorAssumption DEF Start, Clear, WindowIsLatest, Latest
  <1> QED BY <1>1, <1>2, <1>3, <1>4

\* A sampler that takes its timestamp has a sample in flight.
LEMMA BeginKeepsLog ==
    ASSUME LogInv, NEW t \in Samplers, Begin(t)
    PROVE  LogInv'
  <1> USE DEF LogInv
  <1> DEFINE stamp == [ts |-> clock + 1, by |-> t, session |-> session]
             plan == [stamp |-> stamp, keys |-> targets]
  <1>1. /\ phase[t] \in {"check", "pause"} /\ targets \in TargetSets
        /\ clock \in Nat /\ clock' = clock + 1 /\ clock < MaxSamples
        /\ MaxSamples \in Nat
        /\ flight' = [flight EXCEPT ![t] = plan]
        /\ Goto(t, "probing")
        /\ UNCHANGED <<shared, targets, ghosts>>
    BY MonitorAssumption DEF Begin, ThreadsOK
  <1>2. plan \in Plan
    BY <1>1, SessionType DEF Plan, Stamp
  <1>3. flight' \in [Samplers -> Plan \union {NoPlan}] /\ flight'[t] = plan
    BY <1>1, <1>2 DEF ThreadsOK
  <1>4. phase' = [phase EXCEPT ![t] = "probing"] /\ phase'[t] = "probing"
    BY <1>1 DEF Goto, ThreadsOK
  <1>5. \A u \in Samplers : u # t => phase'[u] = phase[u] /\ flight'[u] = flight[u]
    BY <1>1, <1>4 DEF ThreadsOK
  <1>6. plan.stamp.ts = clock + 1 /\ plan.stamp.by = t /\ plan.stamp.session = session
    OBVIOUS
  <1>7. log' = log /\ session' = session /\ targets' = targets /\ running' = running
    BY <1>1 DEF ghosts, shared
  <1> HIDE DEF plan, stamp
  <1>8. ThreadsOK'
    <2>1. \A u \in Samplers :
             /\ phase'[u] = "probing" => flight'[u] \in Plan /\ flight'[u].stamp.by = u
             /\ phase'[u] \in {"check", "probing", "pause"} => targets' \in TargetSets
      BY <1>1, <1>2, <1>3, <1>4, <1>5, <1>6, <1>7 DEF ThreadsOK
    <2>2. clock' \in 0..MaxSamples
      BY <1>1
    <2> QED BY <1>1, <1>3, <1>4, <1>7, <2>1, <2>2 DEF ThreadsOK
  <1>9. SessionsAreStarts'
    BY <1>1, <1>7, StaysMade
  <1>10. StampsAreFresh'
    <2>1. \A n \in 1..Len(log) : log[n].stamp.ts \in Nat
      <3> SUFFICES ASSUME NEW n \in 1..Len(log) PROVE log[n].stamp.ts \in Nat
        OBVIOUS
      <3>1. log[n] \in Sample
        BY ElementOfSeq DEF ThreadsOK
      <3> QED BY <3>1 DEF Sample, Stamp
    <2>2. \A u \in Samplers : phase[u] = "probing" => flight[u].stamp.ts \in Nat
      BY DEF ThreadsOK, Plan, Stamp
    <2> QED BY <1>1, <1>3, <1>4, <1>5, <1>6, <1>7, <2>1, <2>2 DEF StampsAreFresh
  <1>11. LateOnce'
    BY <1>3, <1>4, <1>5, <1>6, <1>7 DEF LateOnce
  <1> QED BY <1>8, <1>9, <1>10, <1>11

\* New targets are the sampler's own affair.
LEMMA ReadTargetsKeepsLog ==
    ASSUME LogInv, NEW t \in Samplers, NEW K \in TargetSets, ReadTargets(t, K)
    PROVE  LogInv'
  <1> USE DEF LogInv
  <1>1. ThreadsOK'
    BY DEF ReadTargets, ThreadsOK, Goto, shared, ghosts
  <1>2. SessionsAreStarts'
    BY StaysMade DEF ReadTargets, ghosts
  <1>3. StampsAreFresh' /\ LateOnce'
    BY StampsStay DEF ReadTargets, ghosts, Goto, ThreadsOK
  <1> QED BY <1>1, <1>2, <1>3

\* Of a thread that returns or raises nothing else is left.
LEMMA EndKeepsLog ==
    ASSUME LogInv, NEW t \in Samplers, Die(t) \/ Quit(t)
    PROVE  LogInv'
  <1> USE DEF LogInv
  <1>1. ThreadsOK'
    BY DEF Die, Quit, ThreadsOK, Goto, shared, ghosts
  <1>2. SessionsAreStarts'
    BY StaysMade DEF Die, Quit, ghosts
  <1>3. StampsAreFresh' /\ LateOnce'
    BY StampsStay DEF Die, Quit, ghosts, Goto, ThreadsOK
  <1> QED BY <1>1, <1>2, <1>3

\* A sample that raises leaves no trace.
LEMMA ErrorKeepsLog ==
    ASSUME LogInv, NEW t \in Samplers, SampleError(t)
    PROVE  LogInv'
  <1> USE DEF LogInv
  <1>1. ThreadsOK'
    BY DEF SampleError, Survives, ThreadsOK, Goto, shared, ghosts
  <1>2. SessionsAreStarts'
    BY StaysMade DEF SampleError, Survives, ghosts
  <1>3. StampsAreFresh' /\ LateOnce'
    BY StampsStay DEF SampleError, Survives, ghosts, Goto, ThreadsOK
  <1> QED BY <1>1, <1>2, <1>3

\* What an added sample is: the stamp it was begun with and an answer for every
\* key of its plan.  It is the last of the log.
LEMMA AddedSample ==
    ASSUME ThreadsOK, NEW t \in Samplers, NEW ok, Add(t, ok),
           NEW sample, sample = [stamp |-> flight[t].stamp, ok |-> ok]
    PROVE  /\ sample \in Sample /\ sample.stamp = flight[t].stamp /\ sample.ok = ok
           /\ sample.stamp.ts \in 1..MaxSamples
           /\ DOMAIN ok \subseteq KeySet /\ \A k \in DOMAIN ok : ok[k] \in BOOLEAN
           /\ log' = Append(log, sample) /\ log' \in Seq(Sample)
           /\ Len(log') = Len(log) + 1 /\ Len(log) \in Nat
           /\ \A n \in 1..Len(log) : log'[n] = log[n]
           /\ log'[Len(log) + 1] = sample
  <1>1. flight[t] \in Plan /\ ok \in [flight[t].keys -> BOOLEAN]
    BY DEF Add, ThreadsOK
  <1>2. flight[t].stamp \in Stamp /\ flight[t].keys \in TargetSets
    BY <1>1 DEF Plan
  <1>3. sample \in Sample /\ sample.stamp = flight[t].stamp /\ sample.ok = ok
    BY <1>1, <1>2 DEF Sample
  <1>4. sample.stamp.ts \in 1..MaxSamples
    BY <1>2, <1>3 DEF Stamp
  <1>5. DOMAIN ok \subseteq KeySet /\ \A k \in DOMAIN ok : ok[k] \in BOOLEAN
    BY <1>1, <1>2, MonitorAssumption
  <1>6. log' = Append(log, sample) /\ log \in Seq(Sample)
    BY DEF Add, ThreadsOK
  <1> QED BY <1>3, <1>4, <1>5, <1>6, AppendProperties, LenProperties

\* A sample that is added is the latest of the log and of the window.
LEMMA AddKeepsLog ==
    ASSUME LogInv, WindowIsLatest, NEW t \in Samplers, NEW ok, Add(t, ok)
    PROVE  LogInv' /\ WindowIsLatest'
  <1> USE DEF LogInv
  <1> DEFINE sample == [stamp |-> flight[t].stamp, ok |-> ok]
  <1>1. /\ sample \in Sample /\ sample.stamp = flight[t].stamp
        /\ log' = Append(log, sample) /\ log' \in Seq(Sample)
        /\ Len(log') = Len(log) + 1 /\ Len(log) \in Nat
        /\ \A n \in 1..Len(log) : log'[n] = log[n]
        /\ log'[Len(log) + 1] = sample
    BY AddedSample
  <1>2. /\ phase[t] = "probing" /\ phase' = [phase EXCEPT ![t] = "pause"]
        /\ flight' = [flight EXCEPT ![t] = NoPlan]
        /\ UNCHANGED <<running, targets, clock, session>>
        /\ samples' = Latest(Append(samples, sample), Window)
    BY DEF Add, Goto
  <1> HIDE DEF sample
  <1>3. \A u \in Samplers : phase'[u] = "probing" =>
            u # t /\ phase[u] = "probing" /\ flight'[u] = flight[u]
    BY <1>2 DEF ThreadsOK
  <1>4. flight[t].stamp.by = t
    BY <1>2 DEF ThreadsOK
  <1>5. ThreadsOK'
    BY <1>1, <1>2 DEF ThreadsOK
  <1>6. SessionsAreStarts'
    BY <1>2, StaysMade DEF Goto
  <1>7. StampsAreFresh'
    <2>1. \A m, n \in 1..Len(log') : log'[m].stamp.ts = log'[n].stamp.ts => m = n
      BY <1>1, <1>2 DEF StampsAreFresh
    <2>2. \A n \in 1..Len(log') : log'[n].stamp.ts <= clock
      BY <1>1, <1>2 DEF StampsAreFresh
    <2>3. ASSUME NEW u \in Samplers, phase'[u] = "probing"
          PROVE  /\ flight'[u].stamp.ts <= clock
                 /\ \A n \in 1..Len(log') : log'[n].stamp.ts # flight'[u].stamp.ts
                 /\ \A v \in Samplers :
                      phase'[v] = "probing" /\ flight'[v].stamp.ts = flight'[u].stamp.ts
                        => v = u
      BY <1>1, <1>2, <1>3, <2>3 DEF StampsAreFresh
    <2> QED BY <1>2, <2>1, <2>2, <2>3 DEF StampsAreFresh
  <1>8. LateOnce'
    <2>1. ASSUME NEW m \in 1..Len(log'), NEW n \in 1..Len(log'), m # n,
                 log'[m].stamp.by = log'[n].stamp.by
          PROVE  log'[m].stamp.session = session \/ log'[n].stamp.session = session
      BY <1>1, <1>2, <1>4, <2>1 DEF LateOnce
    <2>2. ASSUME NEW u \in Samplers, phase'[u] = "probing",
                 flight'[u].stamp.session # session, NEW n \in 1..Len(log')
          PROVE  log'[n].stamp.by # u
      BY <1>1, <1>3, <1>4, <2>2 DEF LateOnce
    <2> QED BY <1>2, <2>1, <2>2 DEF LateOnce
  <1>9. WindowIsLatest'
    <2>1. Window \in Nat /\ log \in Seq(Sample) /\ samples = Latest(log, Window)
      BY MonitorAssumption DEF WindowIsLatest, ThreadsOK
    <2>2. samples \in Seq(Sample) /\ <<sample>> \in Seq(Sample)
      BY <1>1, <2>1, LatestProperties
    <2>3. Append(samples, sample) = samples \o <<sample>>
          /\ Append(log, sample) = log \o <<sample>>
      BY <1>1, <2>1, <2>2, AppendIsConcat
    <2>4. Latest(Latest(log, Window) \o <<sample>>, Window)
            = Latest(log \o <<sample>>, Window)
      BY <2>1, <2>2, LatestOfLatest, Zenon
    <2> QED BY <1>1, <1>2, <2>1, <2>3, <2>4 DEF WindowIsLatest
  <1> QED BY <1>5, <1>6, <1>7, <1>8, <1>9

\* The stamps, the sessions and the window, in every reachable state.
LogIsKept == LogInv /\ WindowIsLatest

\* Every step keeps the log and the window in agreement.
LEMMA NextLog == LogIsKept /\ [Next]_vars => LogIsKept'
  <1> SUFFICES ASSUME LogIsKept, [Next]_vars PROVE LogIsKept'
    OBVIOUS
  <1> USE DEF LogIsKept
  <1>1. CASE UNCHANGED vars
    BY <1>1 DEF vars, shared, ghosts, LogInv, ThreadsOK, SessionsAreStarts,
        StampsAreFresh, LateOnce, WindowIsLatest
  <1>2. CASE Stop
    <2>1. /\ running' = FALSE
          /\ UNCHANGED <<samples, targets, phase, flight, clock, session, log>>
      BY <1>2 DEF Stop, ghosts
    <2>2. ThreadsOK'
      BY <2>1 DEF LogInv, ThreadsOK
    <2>3. SessionsAreStarts' /\ StampsAreFresh' /\ LateOnce'
      BY <2>1 DEF LogInv, SessionsAreStarts, StampsAreFresh, LateOnce
    <2>4. WindowIsLatest'
      BY <2>1 DEF WindowIsLatest
    <2> QED BY <2>2, <2>3, <2>4 DEF LogInv
  <1>3. ASSUME NEW t \in Samplers, Start(t) PROVE LogIsKept'
    BY <1>3, StartKeepsLog
  <1>4. ASSUME NEW t \in Samplers, NEW K \in TargetSets, ReadTargets(t, K)
        PROVE  LogIsKept'
    BY <1>4, ReadTargetsKeepsLog DEF ReadTargets, shared, ghosts, WindowIsLatest
  <1>5. ASSUME NEW t \in Samplers, Die(t) \/ Quit(t) PROVE LogIsKept'
    BY <1>5, EndKeepsLog DEF Die, Quit, shared, ghosts, WindowIsLatest
  <1>6. ASSUME NEW t \in Samplers, Begin(t) PROVE LogIsKept'
    BY <1>6, BeginKeepsLog DEF Begin, shared, ghosts, WindowIsLatest
  <1>7. ASSUME NEW t \in Samplers, SampleError(t) PROVE LogIsKept'
    BY <1>7, ErrorKeepsLog DEF SampleError, shared, ghosts, WindowIsLatest
  <1>8. ASSUME NEW t \in Samplers, NEW ok, Add(t, ok) PROVE LogIsKept'
    BY <1>8, AddKeepsLog
  <1>9. QED
    BY <1>1, <1>2, <1>3, <1>4, <1>5, <1>6, <1>7, <1>8 DEF Next, Load, Measure

\* Of what was measured before a restart, the window holds at most the one sample
\* each older sampler had begun, however many samplers a quick stop and start
\* leaves running (monitor.py:95-100,115-117).
LEMMA WindowHoldsLateOnce == LogIsKept => OneLateSample
  <1> SUFFICES ASSUME LogIsKept,
                      NEW m \in 1..Len(samples), NEW n \in 1..Len(samples), m # n,
                      samples[m].stamp.by = samples[n].stamp.by
               PROVE  samples[m].stamp.session = session
                      \/ samples[n].stamp.session = session
    BY DEF OneLateSample
  <1>1. /\ Window \in Nat /\ log \in Seq(Sample) /\ samples = Latest(log, Window)
        /\ Len(log) \in Nat
    BY MonitorAssumption, LenProperties DEF LogIsKept, WindowIsLatest, LogInv, ThreadsOK
  <1> DEFINE d == Len(log) - Len(samples)
  <1>2. /\ d \in Nat /\ Len(samples) \in Nat
        /\ \A i \in 1..Len(samples) : samples[i] = log[d + i]
    BY <1>1, LatestProperties
  <1>3. /\ d + m \in 1..Len(log) /\ d + n \in 1..Len(log) /\ d + m # d + n
        /\ samples[m] = log[d + m] /\ samples[n] = log[d + n]
    BY <1>1, <1>2
  <1> HIDE DEF d
  <1> QED BY <1>3 DEF LogIsKept, LogInv, LateOnce

\* A restart lets at most one sample of each older sampler into the new
\* session, since each has at most one in flight (monitor.py:93-118).
THEOREM LateSafety == Spec => []OneLateSample
  <1>1. Init => LogIsKept
    BY InitLog DEF LogIsKept
  <1> QED BY <1>1, NextLog, WindowHoldsLateOnce, PTL DEF Spec

\* A monitor that says it is running has a sampler, or one that could not read
\* its targets, whatever raises in a sample and however quickly it is restarted
\* (monitor.py:93-106).
SampledInv == LogIsKept /\ RunningIsSampled

\* The flag is set by a start, which makes a sampler; a sampler quits only
\* when it finds the flag cleared.
LEMMA NextSampled == SampledInv /\ [Next]_vars => SampledInv'
  <1> SUFFICES ASSUME SampledInv, [Next]_vars PROVE RunningIsSampled'
    BY NextLog DEF SampledInv
  <1>1. phase \in [Samplers -> {"unused", "loading", "check", "probing",
                               "pause", "ended", "died"}]
    BY DEF SampledInv, LogIsKept, LogInv, ThreadsOK
  <1>2. CASE UNCHANGED vars
    BY <1>2 DEF vars, shared, SampledInv, RunningIsSampled, Alive
  <1>3. CASE Stop
    BY <1>3 DEF Stop, RunningIsSampled
  <1>4. ASSUME NEW t \in Samplers, NEW p \in {"loading", "check", "probing", "pause", "died"},
               Goto(t, p)
        PROVE  RunningIsSampled'
    <2>1. phase'[t] = p
      BY <1>1, <1>4 DEF Goto
    <2> QED BY <2>1 DEF RunningIsSampled, Alive
  <1>5. ASSUME NEW t \in Samplers, Quit(t) PROVE RunningIsSampled'
    BY <1>5 DEF Quit, GoesOn, shared, RunningIsSampled
  <1>6. ASSUME NEW t \in Samplers, Start(t) \/ Load(t) \/ Begin(t) \/ Measure(t)
        PROVE  RunningIsSampled'
    <2>1. \E p \in {"loading", "check", "probing", "pause", "died"} : Goto(t, p)
      BY <1>6 DEF Start, Load, Die, ReadTargets, Begin, Measure, SampleError, Survives, Add
    <2> QED BY <2>1, <1>4
  <1> QED BY <1>2, <1>3, <1>5, <1>6 DEF Next

\* A monitor that says it is running has a sampler, or one that could not
\* read its targets (monitor.py:93-118).
THEOREM SamplerSafety == Spec => []RunningIsSampled
  <1>1. Init => SampledInv
    BY InitLog DEF Init, SampledInv, LogIsKept, RunningIsSampled
  <1>2. SampledInv => RunningIsSampled
    BY DEF SampledInv
  <1> QED BY <1>1, <1>2, NextSampled, PTL DEF Spec

-----------------------------------------------------------------------------
(* The outages.  The definitions of Monitor, of any log.                    *)

ProbedIn(l, k) == {n \in 1..Len(l) : k \in DOMAIN l[n].ok}
FailuresIn(l, k, n) ==
    {a \in ProbedIn(l, k) : a < n /\ \A b \in ProbedIn(l, k) : a <= b /\ b < n => ~l[b].ok[k]}
First(F) == CHOOSE a \in F : \A b \in F : a <= b
DescribedIn(l, F) == [start |-> l[First(F)].stamp.ts, count |-> Cardinality(F)]
OpenIn(l, k) == FailuresIn(l, k, Len(l) + 1)
OutagesIn(l) == [k \in {q \in KeySet : OpenIn(l, q) # {}} |-> DescribedIn(l, OpenIn(l, k))]

\* The definitions of Monitor are these, of the log as it is.
LEMMA OfTheLog ==
    /\ \A k : Probed(k) = ProbedIn(log, k)
    /\ \A k, n : FailuresBefore(k, n) = FailuresIn(log, k, n)
    /\ \A F : Described(F) = DescribedIn(log, F)
    /\ OutagesMatchSamples <=> outages = OutagesIn(log)
  <1>1. \A k : Probed(k) = ProbedIn(log, k)
    BY DEF Probed, ProbedIn
  <1>2. \A k, n : FailuresBefore(k, n) = FailuresIn(log, k, n)
    BY <1>1 DEF FailuresBefore, FailuresIn
  <1>3. \A F : Described(F) = DescribedIn(log, F)
    BY DEF Described, DescribedIn, First
  <1>4. OutagesMatchSamples <=> outages = OutagesIn(log)
    BY <1>2, <1>3 DEF OutagesMatchSamples, OutagesIn, OpenIn
  <1> QED BY <1>1, <1>2, <1>3, <1>4

\* The first of some failures is one of them.
LEMMA FirstProperties ==
    ASSUME NEW F, F \subseteq Nat, F # {}
    PROVE  First(F) \in F /\ \A b \in F : First(F) <= b
  BY LeastOfNaturals DEF First

\* Failures are positions of the log, before the one that is asked about.
LEMMA FailuresType ==
    ASSUME NEW l \in Seq(Sample), NEW k, NEW n
    PROVE  /\ FailuresIn(l, k, n) \subseteq 1..Len(l)
           /\ \A a \in FailuresIn(l, k, n) : a < n
           /\ IsFiniteSet(FailuresIn(l, k, n))
           /\ Cardinality(FailuresIn(l, k, n)) \in 0..Len(l)
  <1> DEFINE F == FailuresIn(l, k, n)
  <1>1. F \subseteq 1..Len(l) /\ \A a \in F : a < n
    BY DEF FailuresIn, ProbedIn
  <1>2. Len(l) \in Nat
    BY LenProperties
  <1> HIDE DEF F
  <1>4. IsFiniteSet(F) /\ Cardinality(F) <= Len(l) /\ Cardinality(F) \in Nat
    BY <1>1, <1>2, SomeOfTheFirst
  <1> QED BY <1>1, <1>2, <1>4 DEF F

\* What a sample is made of.
LEMMA SampleType ==
    ASSUME NEW s \in Sample
    PROVE  /\ DOMAIN s.ok \subseteq KeySet /\ \A k \in DOMAIN s.ok : s.ok[k] \in BOOLEAN
           /\ s.stamp.ts \in 1..MaxSamples /\ s.stamp \in Stamp
           /\ \E K \in TargetSets : s.ok \in [K -> BOOLEAN]
  <1>1. s.ok \in UNION {[K -> BOOLEAN] : K \in TargetSets} /\ s.stamp \in Stamp
    BY DEF Sample
  <1>2. PICK K \in TargetSets : s.ok \in [K -> BOOLEAN]
    BY <1>1
  <1>3. K \subseteq KeySet
    BY MonitorAssumption
  <1> QED BY <1>1, <1>2, <1>3 DEF Stamp

\* What is before a sample does not change when others are added.
LEMMA FailuresStay ==
    ASSUME NEW l \in Seq(Sample), NEW s \in Sample, NEW k, NEW n \in 1..(Len(l) + 1)
    PROVE  FailuresIn(Append(l, s), k, n) = FailuresIn(l, k, n)
  <1> DEFINE m == Append(l, s)
  <1>1. /\ Len(m) = Len(l) + 1 /\ Len(l) \in Nat
        /\ \A i \in 1..Len(l) : m[i] = l[i]
    BY AppendProperties, LenProperties
  <1> HIDE DEF m
  <1>2. \A a \in 1..Len(m) : a < n => a \in 1..Len(l)
    BY <1>1
  <1>3. \A a \in 1..Len(l) : a \in ProbedIn(m, k) <=> a \in ProbedIn(l, k)
    BY <1>1 DEF ProbedIn
  <1>4. ProbedIn(m, k) \subseteq 1..Len(m) /\ ProbedIn(l, k) \subseteq 1..Len(l)
    BY DEF ProbedIn
  <1>5. ASSUME NEW a PROVE a \in FailuresIn(m, k, n) <=> a \in FailuresIn(l, k, n)
    BY <1>1, <1>2, <1>3, <1>4 DEF FailuresIn
  <1> QED BY <1>5 DEF m

\* What the next sample makes of the failures that have no answer yet.
LEMMA OpenNext ==
    ASSUME NEW l \in Seq(Sample), NEW s \in Sample, NEW k
    PROVE  /\ k \notin DOMAIN s.ok => OpenIn(Append(l, s), k) = OpenIn(l, k)
           /\ k \in DOMAIN s.ok /\ s.ok[k] => OpenIn(Append(l, s), k) = {}
           /\ k \in DOMAIN s.ok /\ ~s.ok[k] =>
                OpenIn(Append(l, s), k) = OpenIn(l, k) \union {Len(l) + 1}
  <1> DEFINE m == Append(l, s)
  <1>1. /\ Len(m) = Len(l) + 1 /\ Len(l) \in Nat
        /\ \A i \in 1..Len(l) : m[i] = l[i]
        /\ m[Len(l) + 1] = s
    BY AppendProperties, LenProperties
  <1> HIDE DEF m
  <1>2. \A a : a \in ProbedIn(m, k) <=>
              a \in ProbedIn(l, k) \/ (a = Len(l) + 1 /\ k \in DOMAIN s.ok)
    BY <1>1 DEF ProbedIn
  <1>3. \A a \in ProbedIn(l, k) : a \in 1..Len(l) /\ a < Len(l) + 1 /\ a < Len(m) + 1
    BY <1>1 DEF ProbedIn
  <1>4. \A a \in ProbedIn(l, k) : m[a] = l[a]
    BY <1>1, <1>3
  <1>5. \A a : a \in OpenIn(l, k) <=>
              a \in ProbedIn(l, k) /\ \A b \in ProbedIn(l, k) : a <= b => ~l[b].ok[k]
    BY <1>3 DEF OpenIn, FailuresIn
  <1>6. \A a \in ProbedIn(m, k) : a < Len(m) + 1
    BY <1>1, <1>2, <1>3
  <1>7. \A a : a \in OpenIn(m, k) <=>
              a \in ProbedIn(m, k) /\ \A b \in ProbedIn(m, k) : a <= b => ~m[b].ok[k]
    BY <1>6 DEF OpenIn, FailuresIn
  <1>8. CASE k \notin DOMAIN s.ok
    <2>1. \A a : a \in OpenIn(m, k) <=> a \in OpenIn(l, k)
      BY <1>2, <1>4, <1>5, <1>7, <1>8
    <2> QED BY <2>1, <1>8 DEF m
  <1>9. CASE k \in DOMAIN s.ok /\ s.ok[k]
    <2>1. \A a \in ProbedIn(m, k) : a <= Len(l) + 1
      BY <1>1, <1>2, <1>3
    <2>2. Len(l) + 1 \in ProbedIn(m, k) /\ m[Len(l) + 1].ok[k]
      BY <1>1, <1>2, <1>9
    <2>3. \A a : a \notin OpenIn(m, k)
      BY <2>1, <2>2, <1>7
    <2> QED BY <2>3, <1>9 DEF m
  <1>10. CASE k \in DOMAIN s.ok /\ ~s.ok[k]
    <2>1. \A a : a \in OpenIn(m, k) <=> a \in OpenIn(l, k) \/ a = Len(l) + 1
      <3>1. \A b \in ProbedIn(l, k) : ~(Len(l) + 1 <= b)
        BY <1>1, <1>3
      <3> QED BY <3>1, <1>1, <1>2, <1>4, <1>5, <1>7, <1>10
    <2> QED BY <2>1, <1>10 DEF m
  <1> QED BY <1>8, <1>9, <1>10

\* The outages after a sample are the failures without an answer of the log with
\* that sample, whatever keys were probed (monitor.py:73-89).
LEMMA OutagesNext ==
    ASSUME NEW l \in Seq(Sample), NEW s \in Sample, outages = OutagesIn(l)
    PROVE  OutagesAfter(s) = OutagesIn(Append(l, s))
  <1> DEFINE m == Append(l, s)
             open == {q \in KeySet : OpenIn(l, q) # {}}
  <1>1. /\ Len(m) = Len(l) + 1 /\ Len(l) \in Nat
        /\ \A i \in 1..Len(l) : m[i] = l[i]
        /\ m[Len(l) + 1] = s
    BY AppendProperties, LenProperties
  <1>2. /\ DOMAIN s.ok \subseteq KeySet /\ \A k \in DOMAIN s.ok : s.ok[k] \in BOOLEAN
    BY SampleType
  <1>3. /\ DOMAIN outages = open
        /\ \A k \in open : outages[k] = DescribedIn(l, OpenIn(l, k))
    BY DEF OutagesIn
  <1>4. \A k : /\ k \notin DOMAIN s.ok => OpenIn(m, k) = OpenIn(l, k)
               /\ k \in Passed(s) => OpenIn(m, k) = {}
               /\ k \in Failed(s) => OpenIn(m, k) = OpenIn(l, k) \union {Len(l) + 1}
    BY OpenNext DEF Passed, Failed
  <1>5. \A k : k \in DOMAIN s.ok <=> k \in Passed(s) \/ k \in Failed(s)
    BY DEF Passed, Failed
  <1>6. \A k : /\ OpenIn(l, k) \subseteq 1..Len(l) /\ OpenIn(l, k) \subseteq Nat
               /\ IsFiniteSet(OpenIn(l, k)) /\ Cardinality(OpenIn(l, k)) \in Nat
    <2> TAKE k
    <2>1. /\ OpenIn(l, k) \subseteq 1..Len(l) /\ IsFiniteSet(OpenIn(l, k))
          /\ Cardinality(OpenIn(l, k)) \in 0..Len(l)
      BY FailuresType DEF OpenIn
    <2> QED BY <2>1, <1>1
  <1>7. \A k \in open : /\ First(OpenIn(l, k)) \in OpenIn(l, k)
                        /\ \A b \in OpenIn(l, k) : First(OpenIn(l, k)) <= b
    BY <1>6, FirstProperties
  <1> HIDE DEF m
  <1>8. (open \ Passed(s)) \union Failed(s) = {q \in KeySet : OpenIn(m, q) # {}}
    <2>1. \A k \in KeySet :
            k \in (open \ Passed(s)) \union Failed(s) <=> OpenIn(m, k) # {}
      BY <1>4, <1>5 DEF Passed, Failed
    <2>2. (open \ Passed(s)) \union Failed(s) \subseteq KeySet
      BY <1>2, <1>5
    <2> QED BY <2>1, <2>2
  <1>9. ASSUME NEW k \in (open \ Passed(s)) \union Failed(s)
        PROVE  (IF k \notin Failed(s) THEN outages[k]
                ELSE IF k \in DOMAIN outages THEN [outages[k] EXCEPT !.count = @ + 1]
                ELSE [start |-> s.stamp.ts, count |-> 1])
               = DescribedIn(m, OpenIn(m, k))
    <2>1. CASE k \notin Failed(s)
      <3>1. k \in open /\ OpenIn(m, k) = OpenIn(l, k)
        BY <2>1, <1>4, <1>5
      <3>2. First(OpenIn(l, k)) \in 1..Len(l)
        BY <3>1, <1>6, <1>7
      <3>3. DescribedIn(m, OpenIn(m, k)) = DescribedIn(l, OpenIn(l, k))
        BY <3>1, <3>2, <1>1 DEF DescribedIn
      <3> QED BY <2>1, <3>1, <3>3, <1>3
    <2>2. CASE k \in Failed(s) /\ k \in open
      <3> DEFINE F == OpenIn(l, k)
                 G == OpenIn(m, k)
      <3>1. G = F \union {Len(l) + 1} /\ Len(l) + 1 \notin F
        BY <2>2, <1>1, <1>4, <1>6
      <3>2. Cardinality(G) = Cardinality(F) + 1
        BY <3>1, <1>6, FS_AddElement
      <3>3. First(G) = First(F)
        <4>1. First(F) \in F /\ First(F) \in Nat /\ \A b \in F : First(F) <= b
          BY <2>2, <1>6, <1>7
        <4>2. First(F) \in G /\ \A b \in G : First(F) <= b
          BY <3>1, <4>1, <1>1, <1>6
        <4>3. G \subseteq Nat /\ G # {}
          BY <3>1, <1>1, <1>6
        <4>4. First(G) \in G /\ \A b \in G : First(G) <= b
          BY <4>3, FirstProperties
        <4>5. First(G) <= First(F) /\ First(F) <= First(G) /\ First(G) \in Nat
          BY <4>2, <4>3, <4>4
        <4> QED BY <4>1, <4>5
      <3>4. m[First(F)] = l[First(F)]
        BY <2>2, <1>1, <1>6, <1>7
      <3>5. outages[k] = DescribedIn(l, F) /\ k \in DOMAIN outages
        BY <2>2, <1>3
      <3>6. [DescribedIn(l, F) EXCEPT !.count = @ + 1] = DescribedIn(m, G)
        BY <3>2, <3>3, <3>4 DEF DescribedIn
      <3> QED BY <2>2, <3>5, <3>6
    <2>3. CASE k \in Failed(s) /\ k \notin open
      <3>1. OpenIn(m, k) = {Len(l) + 1}
        BY <2>3, <1>2, <1>4, <1>5
      <3>2. First({Len(l) + 1}) = Len(l) + 1
        BY <1>1 DEF First
      <3>3. Cardinality({Len(l) + 1}) = 1
        BY FS_Singleton
      <3> QED BY <2>3, <3>1, <3>2, <3>3, <1>1, <1>3 DEF DescribedIn
    <2> QED BY <2>1, <2>2, <2>3
  <1>10. OutagesAfter(s) =
           [k \in (open \ Passed(s)) \union Failed(s) |-> DescribedIn(m, OpenIn(m, k))]
    BY <1>3, <1>9 DEF OutagesAfter
  <1> QED BY <1>8, <1>10 DEF OutagesIn, m

OutagesKept == LogIsKept /\ outages = OutagesIn(log)

\* Before the first sample of a session nothing has failed.
LEMMA NoOutages == OutagesIn(<<>>) = <<>>
  <1>1. \A k : OpenIn(<<>>, k) = {}
    BY DEF OpenIn, FailuresIn, ProbedIn
  <1>2. {q \in KeySet : OpenIn(<<>>, q) # {}} = {}
    BY <1>1
  <1>3. OutagesIn(<<>>) = [k \in {} |-> DescribedIn(<<>>, OpenIn(<<>>, k))]
    BY <1>2 DEF OutagesIn
  <1> QED BY <1>3

\* What a step does to the outages and the log: it starts both afresh, adds a
\* sample to both, or touches neither.
LEMMA LogSteps ==
    ASSUME LogIsKept, [Next]_vars
    PROVE  \/ /\ log' = <<>> /\ outages' = <<>> /\ events' = <<>>
           \/ \E s \in Sample : /\ log' = Append(log, s)
                               /\ outages' = OutagesAfter(s)
                               /\ events' = Latest(events \o Closed(s), MaxEvents)
           \/ UNCHANGED <<log, outages, events>>
  <1>1. CASE UNCHANGED vars
    BY <1>1 DEF vars, shared, ghosts
  <1>2. CASE Stop
    BY <1>2 DEF Stop, ghosts
  <1>3. ASSUME NEW t \in Samplers, Start(t) PROVE log' = <<>> /\ outages' = <<>> /\ events' = <<>>
    BY <1>3 DEF Start, Clear
  <1>4. ASSUME NEW t \in Samplers, Load(t) \/ Quit(t) \/ Begin(t) \/ SampleError(t)
        PROVE  UNCHANGED <<log, outages, events>>
    BY <1>4 DEF Load, ReadTargets, Die, Quit, Begin, SampleError, shared, ghosts
  <1>5. ASSUME NEW t \in Samplers, NEW ok, Add(t, ok)
        PROVE  \E s \in Sample : /\ log' = Append(log, s)
                               /\ outages' = OutagesAfter(s)
                               /\ events' = Latest(events \o Closed(s), MaxEvents)
    <2> DEFINE s == [stamp |-> flight[t].stamp, ok |-> ok]
    <2>1. s \in Sample
      BY <1>5, AddedSample DEF LogIsKept, LogInv
    <2>2. /\ log' = Append(log, s) /\ outages' = OutagesAfter(s)
          /\ events' = Latest(events \o Closed(s), MaxEvents)
      BY <1>5 DEF Add
    <2> HIDE DEF s
    <2> QED BY <2>1, <2>2
  <1> QED BY <1>1, <1>2, <1>3, <1>4, <1>5 DEF Next, Measure

\* The outages that the code updates with a sample are those of the log with
\* that sample at its end.
LEMMA NextOutages == OutagesKept /\ [Next]_vars => OutagesKept'
  <1> SUFFICES ASSUME OutagesKept, [Next]_vars PROVE OutagesKept'
    OBVIOUS
  <1>1. LogIsKept /\ LogIsKept' /\ outages = OutagesIn(log) /\ log \in Seq(Sample)
    BY NextLog DEF OutagesKept, LogIsKept, LogInv, ThreadsOK
  <1>2. outages' = OutagesIn(log')
    <2>1. CASE log' = <<>> /\ outages' = <<>>
      BY <2>1, NoOutages
    <2>2. CASE \E s \in Sample : log' = Append(log, s) /\ outages' = OutagesAfter(s)
      BY <2>2, <1>1, OutagesNext
    <2>3. CASE UNCHANGED <<log, outages>>
      BY <2>3, <1>1
    <2> QED BY <2>1, <2>2, <2>3, <1>1, LogSteps
  <1> QED BY <1>1, <1>2 DEF OutagesKept

\* The outages that are kept step by step are the failures that have no answer
\* yet, with their first timestamp and their number, whichever threads added the
\* samples and whatever keys the targets changed to (monitor.py:73-89).
THEOREM OutageSafety == Spec => []OutagesMatchSamples
  <1>1. Init => OutagesKept
    <2> SUFFICES ASSUME Init PROVE OutagesKept
      OBVIOUS
    <2>1. LogIsKept
      BY InitLog DEF LogIsKept
    <2>2. outages = <<>> /\ log = <<>>
      BY DEF Init
    <2> QED BY <2>1, <2>2, NoOutages DEF OutagesKept
  <1>2. OutagesKept => OutagesMatchSamples
    BY OfTheLog DEF OutagesKept
  <1> QED BY <1>1, <1>2, NextOutages, PTL DEF Spec

-----------------------------------------------------------------------------
(* The events.                                                              *)

\* The outages of a log that an answer ended: a key and the sample that has it.
EndsIn(l) ==
    {o \in KeySet \X (1..Len(l)) :
        /\ o[2] \in ProbedIn(l, o[1]) /\ l[o[2]].ok[o[1]]
        /\ FailuresIn(l, o[1], o[2]) # {}}
EventIn(l, o) ==
    LET outage == DescribedIn(l, FailuresIn(l, o[1], o[2]))
    IN  [target |-> o[1], start |-> outage.start,
         end |-> l[o[2]].stamp.ts, count |-> outage.count]

\* A list of them all, each once, in the order in which they ended.
Lists(l, all) ==
    /\ all \in Seq(EndsIn(l))
    /\ \A i, j \in 1..Len(all) : i < j => all[i] # all[j] /\ all[i][2] <= all[j][2]
    /\ \A o \in EndsIn(l) : \E i \in 1..Len(all) : all[i] = o
EventsOf(l, all) == [i \in 1..Len(all) |-> EventIn(l, all[i])]

LatestIn(l, e) == \E all : Lists(l, all) /\ e = Latest(EventsOf(l, all), MaxEvents)

EventsKept == OutagesKept /\ LatestIn(log, events)

\* A finite set of naturals in order is an increasing sequence.
LEMMA InOrderIsIncreasing ==
    ASSUME NEW S, S \subseteq Nat, IsFiniteSet(S)
    PROVE  Increasing(S, InOrder(S))
  BY IncreasingExists DEF Increasing, InOrder

\* The positions of the keys whose outages a sample closes.
LEMMA OverProperties ==
    ASSUME NEW s
    PROVE  /\ InOrder(Over(s)) \in [1..Cardinality(Over(s)) -> Over(s)]
           /\ Cardinality(Over(s)) \in Nat
           /\ \A i, j \in 1..Cardinality(Over(s)) :
                i # j => Keys[InOrder(Over(s))[i]] # Keys[InOrder(Over(s))[j]]
           /\ \A k \in KeySet : k \in Passed(s) \intersect DOMAIN outages =>
                \E i \in 1..Cardinality(Over(s)) : Keys[InOrder(Over(s))[i]] = k
  <1> DEFINE S == Over(s)
             f == InOrder(S)
  <1>1. S \subseteq 1..Len(Keys) /\ Len(Keys) \in Nat
    BY KeysAreOnce DEF Over
  <1>2. S \subseteq Nat /\ IsFiniteSet(S) /\ Cardinality(S) \in Nat
    <2> HIDE DEF S
    <2> QED BY <1>1, SomeOfTheFirst
  <1>3. Increasing(S, f)
    <2> HIDE DEF S
    <2> QED BY <1>2, InOrderIsIncreasing
  <1>4. f \in Bijection(1..Cardinality(S), S)
    <2> HIDE DEF f, S
    <2> QED BY <1>2, <1>3, IncreasingIsBijection
  <1>5. /\ f \in [1..Cardinality(S) -> S]
        /\ \A i, j \in 1..Cardinality(S) : f[i] = f[j] => i = j
        /\ \A p \in S : \E i \in 1..Cardinality(S) : f[i] = p
    <2> DEFINE D == 1..Cardinality(S)
    <2> HIDE DEF f, S, D
    <2>1. f \in Bijection(D, S)
      BY <1>4 DEF D
    <2>2. /\ f \in [D -> S] /\ \A i, j \in D : f[i] = f[j] => i = j
          /\ \A p \in S : \E i \in D : f[i] = p
      BY <2>1, Fun_BijectionProperties
    <2> QED BY <2>2 DEF D
  <1>7. ASSUME NEW i \in 1..Cardinality(S), NEW j \in 1..Cardinality(S), i # j
        PROVE  Keys[f[i]] # Keys[f[j]]
    <2>1. f[i] # f[j] /\ f[i] \in 1..Len(Keys) /\ f[j] \in 1..Len(Keys)
      BY <1>1, <1>5, <1>7
    <2> QED BY <2>1, KeysAreOnce
  <1>8. ASSUME NEW k \in KeySet, k \in Passed(s) \intersect DOMAIN outages
        PROVE  \E i \in 1..Cardinality(S) : Keys[f[i]] = k
    <2>1. PICK p \in 1..Len(Keys) : Keys[p] = k
      BY DEF KeySet
    <2>2. p \in S
      BY <1>8, <2>1 DEF Over
    <2> HIDE DEF f, S
    <2> QED BY <2>1, <2>2, <1>5
  <1> QED BY <1>2, <1>5, <1>7, <1>8

\* An outage that is over is described as it was when it ended.
LEMMA EventStays ==
    ASSUME NEW l \in Seq(Sample), NEW s \in Sample, NEW o \in EndsIn(l)
    PROVE  EventIn(Append(l, s), o) = EventIn(l, o)
  <1> DEFINE m == Append(l, s)
             F == FailuresIn(l, o[1], o[2])
  <1>1. /\ Len(m) = Len(l) + 1 /\ Len(l) \in Nat
        /\ \A i \in 1..Len(l) : m[i] = l[i]
    BY AppendProperties, LenProperties
  <1>2. o[2] \in 1..Len(l) /\ F # {}
    BY DEF EndsIn
  <1>3. o[2] \in 1..(Len(l) + 1)
    BY <1>1, <1>2
  <1>4. FailuresIn(m, o[1], o[2]) = F
    BY <1>3, FailuresStay
  <1>5. F \subseteq 1..Len(l) /\ F \subseteq Nat
    BY <1>1, FailuresType
  <1> HIDE DEF m, F
  <1>6. First(F) \in 1..Len(l)
    BY <1>2, <1>5, FirstProperties
  <1>7. DescribedIn(m, F) = DescribedIn(l, F)
    BY <1>1, <1>6 DEF DescribedIn
  <1>8. m[o[2]] = l[o[2]]
    BY <1>1, <1>2
  <1>9. EventIn(m, o) = EventIn(l, o)
    BY <1>4, <1>7, <1>8 DEF EventIn, F
  <1> QED BY <1>9 DEF m

\* The outages that are over once a sample is added: those that were, and those
\* it closes.
LEMMA EndsNext ==
    ASSUME NEW l \in Seq(Sample), NEW s \in Sample, outages = OutagesIn(l)
    PROVE  /\ EndsIn(l) \subseteq EndsIn(Append(l, s))
           /\ \A o \in EndsIn(Append(l, s)) : o \in EndsIn(l) \/
                \E k \in KeySet : k \in Passed(s) \intersect DOMAIN outages
                                 /\ o = <<k, Len(l) + 1>>
           /\ \A k \in KeySet : k \in Passed(s) \intersect DOMAIN outages =>
                /\ <<k, Len(l) + 1>> \in EndsIn(Append(l, s))
                /\ EventIn(Append(l, s), <<k, Len(l) + 1>>) =
                     [target |-> k, start |-> outages[k].start,
                      end |-> s.stamp.ts, count |-> outages[k].count]
  <1> DEFINE m == Append(l, s)
  <1>1. /\ Len(m) = Len(l) + 1 /\ Len(l) \in Nat
        /\ \A i \in 1..Len(l) : m[i] = l[i]
        /\ m[Len(l) + 1] = s
    BY AppendProperties, LenProperties
  <1>2. \A k : \A n \in 1..(Len(l) + 1) : FailuresIn(m, k, n) = FailuresIn(l, k, n)
    BY FailuresStay
  <1>3. /\ DOMAIN outages = {q \in KeySet : OpenIn(l, q) # {}}
        /\ \A k \in DOMAIN outages : outages[k] = DescribedIn(l, OpenIn(l, k))
    BY DEF OutagesIn
  <1> HIDE DEF m
  <1>4. \A k : \A n \in 1..Len(l) : n \in ProbedIn(m, k) <=> n \in ProbedIn(l, k)
    BY <1>1 DEF ProbedIn
  <1>5. \A k : Len(l) + 1 \in ProbedIn(m, k) <=> k \in DOMAIN s.ok
    BY <1>1 DEF ProbedIn
  <1>6. ASSUME NEW k \in KeySet, NEW n \in 1..Len(m)
        PROVE  <<k, n>> \in EndsIn(m) <=>
                 \/ <<k, n>> \in EndsIn(l)
                 \/ n = Len(l) + 1 /\ k \in Passed(s) \intersect DOMAIN outages
    <2>1. <<k, n>> \in EndsIn(m) <=>
             n \in ProbedIn(m, k) /\ m[n].ok[k] /\ FailuresIn(m, k, n) # {}
      BY DEF EndsIn
    <2>2. CASE n \in 1..Len(l)
      <3>1. <<k, n>> \in EndsIn(l) <=>
             n \in ProbedIn(l, k) /\ l[n].ok[k] /\ FailuresIn(l, k, n) # {}
        BY <2>2 DEF EndsIn
      <3>2. FailuresIn(m, k, n) = FailuresIn(l, k, n) /\ m[n] = l[n] /\ n # Len(l) + 1
        BY <1>1, <1>2, <2>2
      <3> QED BY <2>1, <2>2, <3>1, <3>2, <1>4
    <2>3. CASE n = Len(l) + 1
      <3>1. <<k, n>> \notin EndsIn(l)
        <4>1. n \notin 1..Len(l)
          BY <1>1, <2>3
        <4> QED BY <4>1 DEF EndsIn
      <3>2. FailuresIn(m, k, n) = OpenIn(l, k) /\ m[n] = s
        BY <1>1, <1>2, <2>3 DEF OpenIn
      <3>3. k \in Passed(s) <=> k \in DOMAIN s.ok /\ s.ok[k]
        BY DEF Passed
      <3>4. k \in DOMAIN outages <=> OpenIn(l, k) # {}
        BY <1>3
      <3> QED BY <2>1, <2>3, <3>1, <3>2, <3>3, <3>4, <1>5
    <2> QED BY <2>2, <2>3, <1>1
  <1>7. EndsIn(l) \subseteq EndsIn(m)
    <2> SUFFICES ASSUME NEW o \in EndsIn(l) PROVE o \in EndsIn(m)
      OBVIOUS
    <2>1. PICK k \in KeySet, n \in 1..Len(l) : o = <<k, n>>
      BY DEF EndsIn
    <2>2. n \in 1..Len(m)
      BY <1>1
    <2> QED BY <2>1, <2>2, <1>6
  <1>8. ASSUME NEW o \in EndsIn(m)
        PROVE  o \in EndsIn(l) \/
                \E k \in KeySet : k \in Passed(s) \intersect DOMAIN outages
                                 /\ o = <<k, Len(l) + 1>>
    <2>1. PICK k \in KeySet, n \in 1..Len(m) : o = <<k, n>>
      BY DEF EndsIn
    <2> QED BY <2>1, <1>6
  <1>9. ASSUME NEW k \in KeySet, k \in Passed(s) \intersect DOMAIN outages
        PROVE  /\ <<k, Len(l) + 1>> \in EndsIn(m)
               /\ EventIn(m, <<k, Len(l) + 1>>) =
                     [target |-> k, start |-> outages[k].start,
                      end |-> s.stamp.ts, count |-> outages[k].count]
    <2>1. <<k, Len(l) + 1>> \in EndsIn(m)
      <3>1. Len(l) + 1 \in 1..Len(m)
        BY <1>1
      <3> QED BY <3>1, <1>6, <1>9
    <2> DEFINE F == OpenIn(l, k)
    <2>2. FailuresIn(m, k, Len(l) + 1) = F
      BY <1>1, <1>2 DEF OpenIn
    <2>3. F # {} /\ outages[k] = DescribedIn(l, F)
      BY <1>3, <1>9
    <2>4. F \subseteq 1..Len(l) /\ F \subseteq Nat
      BY <1>1, FailuresType DEF OpenIn
    <2> HIDE DEF F
    <2>5. First(F) \in 1..Len(l)
      BY <2>3, <2>4, FirstProperties
    <2>6. DescribedIn(m, F) = DescribedIn(l, F)
      BY <1>1, <2>5 DEF DescribedIn
    <2>7. EventIn(m, <<k, Len(l) + 1>>) =
                     [target |-> k, start |-> outages[k].start,
                      end |-> s.stamp.ts, count |-> outages[k].count]
      BY <1>1, <2>2, <2>3, <2>6 DEF EventIn
    <2> QED BY <2>1, <2>7
  <1> QED BY <1>7, <1>8, <1>9 DEF m

\* Without samples there are no events.
LEMMA NoEvents == \E all : Lists(<<>>, all) /\ Latest(EventsOf(<<>>, all), MaxEvents) = <<>>
  <1>1. EndsIn(<<>>) = {}
    BY DEF EndsIn
  <1>2. Lists(<<>>, <<>>)
    BY <1>1, EmptySeq DEF Lists
  <1>3. EventsOf(<<>>, <<>>) = <<>>
    BY DEF EventsOf
  <1>4. Latest(<<>>, MaxEvents) = <<>>
    BY MonitorAssumption DEF Latest
  <1> QED BY <1>2, <1>3, <1>4

\* A sample that is added appends the outages it ends to the list of them all,
\* and the events of those to the events.
LEMMA ListsNext ==
    ASSUME NEW l \in Seq(Sample), NEW s \in Sample, outages = OutagesIn(l),
           NEW all, Lists(l, all)
    PROVE  \E more : /\ Lists(Append(l, s), more)
                     /\ EventsOf(Append(l, s), more) = EventsOf(l, all) \o Closed(s)
                     /\ {EventsOf(l, all), Closed(s)}
                          \subseteq Seq({EventIn(Append(l, s), o) : o \in EndsIn(Append(l, s))})
  <1> DEFINE m == Append(l, s)
             over == InOrder(Over(s))
             c == Cardinality(Over(s))
             new == [i \in 1..c |-> <<Keys[over[i]], Len(l) + 1>>]
             more == all \o new
  <1>1. Len(l) \in Nat /\ all \in Seq(EndsIn(l)) /\ Len(all) \in Nat
    BY LenProperties DEF Lists
  <1>2. /\ over \in [1..c -> Over(s)] /\ c \in Nat
        /\ \A i, j \in 1..c : i # j => Keys[over[i]] # Keys[over[j]]
        /\ \A k \in KeySet : k \in Passed(s) \intersect DOMAIN outages =>
                \E i \in 1..c : Keys[over[i]] = k
    BY OverProperties
  <1>3. \A p \in Over(s) : Keys[p] \in KeySet /\ Keys[p] \in Passed(s) \intersect DOMAIN outages
    BY DEF Over, KeySet
  <1>4. /\ EndsIn(l) \subseteq EndsIn(m)
        /\ \A o \in EndsIn(m) : o \in EndsIn(l) \/
                \E k \in KeySet : k \in Passed(s) \intersect DOMAIN outages
                                 /\ o = <<k, Len(l) + 1>>
        /\ \A k \in KeySet : k \in Passed(s) \intersect DOMAIN outages =>
                /\ <<k, Len(l) + 1>> \in EndsIn(m)
                /\ EventIn(m, <<k, Len(l) + 1>>) =
                     [target |-> k, start |-> outages[k].start,
                      end |-> s.stamp.ts, count |-> outages[k].count]
    BY EndsNext
  <1>5. Closed(s) = [i \in 1..c |-> [target |-> Keys[over[i]], start |-> outages[Keys[over[i]]].start,
                                    end |-> s.stamp.ts, count |-> outages[Keys[over[i]]].count]]
    BY <1>2 DEF Closed
  <1>6. \A o \in EndsIn(l) : EventIn(m, o) = EventIn(l, o) /\ o[2] \in 1..Len(l)
    BY EventStays DEF EndsIn
  <1> HIDE DEF m, over, c
  <1>7. \A i \in 1..c : new[i] \in EndsIn(m) /\ EventIn(m, new[i]) = Closed(s)[i]
    BY <1>2, <1>3, <1>4, <1>5
  <1>8. new \in Seq(EndsIn(m)) /\ Len(new) = c /\ all \in Seq(EndsIn(m))
    <2>1. new \in Seq(EndsIn(m)) /\ Len(new) = c
      BY <1>2, <1>7
    <2>2. all \in Seq(EndsIn(m))
      BY <1>1, <1>4, SeqMonotonic
    <2> QED BY <2>1, <2>2
  <1>9. \A i \in 1..c : new[i] = <<Keys[over[i]], Len(l) + 1>>
    OBVIOUS
  <1> HIDE DEF new
  <1>10. /\ more \in Seq(EndsIn(m)) /\ Len(more) = Len(all) + c
         /\ \A i \in 1..(Len(all) + c) :
              more[i] = IF i <= Len(all) THEN all[i] ELSE new[i - Len(all)]
    BY <1>8, ConcatProperties
  <1> HIDE DEF more
  <1>11. \A i \in 1..Len(all) : /\ i \in 1..(Len(all) + c) /\ more[i] = all[i]
                               /\ all[i] \in EndsIn(l)
    BY <1>1, <1>2, <1>10, ElementOfSeq
  <1>12. \A i \in 1..c : Len(all) + i \in 1..(Len(all) + c) /\ more[Len(all) + i] = new[i]
    <2> SUFFICES ASSUME NEW i \in 1..c
                 PROVE  /\ Len(all) + i \in 1..(Len(all) + c)
                        /\ more[Len(all) + i] = new[i]
      OBVIOUS
    <2>1. /\ Len(all) + i \in 1..(Len(all) + c) /\ ~(Len(all) + i <= Len(all))
          /\ Len(all) + i - Len(all) = i
      BY <1>1, <1>2
    <2> QED BY <2>1, <1>10
  <1>13. \A i \in 1..(Len(all) + c) :
            i \in 1..Len(all) \/ \E h \in 1..c : i = Len(all) + h
    <2> SUFFICES ASSUME NEW i \in 1..(Len(all) + c), i \notin 1..Len(all)
                 PROVE  \E h \in 1..c : i = Len(all) + h
      OBVIOUS
    <2>1. i - Len(all) \in 1..c /\ i = Len(all) + (i - Len(all))
      BY <1>1, <1>2
    <2> QED BY <2>1
  <1>14. Lists(m, more)
    <2>1. ASSUME NEW i \in 1..Len(more), NEW j \in 1..Len(more), i < j
          PROVE  more[i] # more[j] /\ more[i][2] <= more[j][2]
      <3>1. CASE j \in 1..Len(all)
        <4>1. i \in 1..Len(all)
          BY <2>1, <3>1, <1>1, <1>2, <1>10
        <4> QED BY <4>1, <3>1, <2>1, <1>11 DEF Lists
      <3>2. CASE \E h \in 1..c : j = Len(all) + h
        <4>1. PICK h \in 1..c : j = Len(all) + h
          BY <3>2
        <4>2. more[j] = <<Keys[over[h]], Len(l) + 1>>
          BY <4>1, <1>9, <1>12
        <4>3. CASE i \in 1..Len(all)
          <5>1. more[i][2] \in 1..Len(l)
            BY <4>3, <1>6, <1>11
          <5> QED BY <5>1, <4>2, <1>1
        <4>4. CASE \E g \in 1..c : i = Len(all) + g
          <5>1. PICK g \in 1..c : i = Len(all) + g
            BY <4>4
          <5>2. more[i] = <<Keys[over[g]], Len(l) + 1>> /\ g # h
            BY <5>1, <4>1, <2>1, <1>1, <1>9, <1>12
          <5> QED BY <5>2, <4>2, <1>1, <1>2
        <4> QED BY <4>3, <4>4, <1>10, <1>13
      <3> QED BY <3>1, <3>2, <1>10, <1>13
    <2>2. ASSUME NEW o \in EndsIn(m) PROVE \E i \in 1..Len(more) : more[i] = o
      <3>1. CASE o \in EndsIn(l)
        <4>1. PICK i \in 1..Len(all) : all[i] = o
          BY <3>1 DEF Lists
        <4> QED BY <4>1, <1>10, <1>11
      <3>2. CASE \E k \in KeySet : k \in Passed(s) \intersect DOMAIN outages
                                 /\ o = <<k, Len(l) + 1>>
        <4>1. PICK h \in 1..c : o = <<Keys[over[h]], Len(l) + 1>>
          BY <3>2, <1>2
        <4> QED BY <4>1, <1>9, <1>10, <1>12
      <3> QED BY <3>1, <3>2, <1>4
    <2> QED BY <2>1, <2>2, <1>10 DEF Lists
  <1> DEFINE E == EventsOf(m, more)
             V == {EventIn(m, o) : o \in EndsIn(m)}
             a == EventsOf(l, all)
  <1>15. /\ E \in Seq(V) /\ Len(E) = Len(all) + c
         /\ \A i \in 1..(Len(all) + c) : E[i] = EventIn(m, more[i])
    <2>1. \A i \in 1..(Len(all) + c) : more[i] \in EndsIn(m)
      BY <1>10, ElementOfSeq
    <2> QED BY <2>1, <1>1, <1>2, <1>10 DEF EventsOf
  <1>16. /\ a \in Seq(V) /\ Len(a) = Len(all)
         /\ \A i \in 1..Len(all) : a[i] = EventIn(l, all[i])
    <2>1. \A i \in 1..Len(all) : EventIn(l, all[i]) \in V
      BY <1>4, <1>6, <1>11
    <2> QED BY <2>1, <1>1 DEF EventsOf
  <1>17. Closed(s) \in Seq(V) /\ Len(Closed(s)) = c
    <2>1. \A i \in 1..c : Closed(s)[i] \in V
      BY <1>7
    <2>2. DOMAIN Closed(s) = 1..c
      BY <1>5
    <2>3. Closed(s) = [i \in 1..c |-> Closed(s)[i]]
      BY <1>5
    <2> HIDE DEF V
    <2> QED BY <2>1, <2>3, <1>2
  <1> HIDE DEF E, V, a
  <1>18. /\ a \o Closed(s) \in Seq(V) /\ Len(a \o Closed(s)) = Len(all) + c
         /\ \A i \in 1..(Len(all) + c) :
              (a \o Closed(s))[i] = IF i <= Len(all) THEN a[i] ELSE Closed(s)[i - Len(all)]
    <2> DEFINE b == Closed(s)
    <2>1. a \in Seq(V) /\ b \in Seq(V) /\ Len(a) = Len(all) /\ Len(b) = c
      BY <1>16, <1>17
    <2> HIDE DEF b
    <2>2. /\ a \o b \in Seq(V) /\ Len(a \o b) = Len(a) + Len(b)
          /\ \A i \in 1..(Len(a) + Len(b)) :
               (a \o b)[i] = IF i <= Len(a) THEN a[i] ELSE b[i - Len(a)]
      BY <2>1, ConcatProperties
    <2> QED BY <2>1, <2>2 DEF b
  <1>19. ASSUME NEW i \in 1..(Len(all) + c) PROVE E[i] = (a \o Closed(s))[i]
    <2>1. CASE i \in 1..Len(all)
      <3>1. i <= Len(all) /\ E[i] = EventIn(l, all[i])
        BY <2>1, <1>6, <1>11, <1>15
      <3> QED BY <3>1, <2>1, <1>16, <1>18
    <2>2. CASE \E h \in 1..c : i = Len(all) + h
      <3>1. PICK h \in 1..c : i = Len(all) + h
        BY <2>2
      <3>2. E[i] = Closed(s)[h]
        BY <3>1, <1>7, <1>12, <1>15
      <3>3. ~(i <= Len(all)) /\ i - Len(all) = h
        BY <3>1, <1>1, <1>2
      <3> QED BY <3>2, <3>3, <1>18
    <2> QED BY <2>1, <2>2, <1>13
  <1>20. E = a \o Closed(s)
    BY <1>15, <1>18, <1>19, SeqEqual
  <1>21. /\ EventsOf(m, more) = EventsOf(l, all) \o Closed(s)
         /\ {EventsOf(l, all), Closed(s)} \subseteq Seq({EventIn(m, o) : o \in EndsIn(m)})
    BY <1>16, <1>17, <1>20, Zenon DEF E, V, a
  <1> QED BY <1>14, <1>21, Zenon DEF m

\* Before the first start there are no events.
LEMMA InitKept == Init => EventsKept
  <1> SUFFICES ASSUME Init PROVE EventsKept
    OBVIOUS
  <1>1. LogIsKept
    BY InitLog DEF LogIsKept
  <1>2. outages = <<>> /\ log = <<>> /\ events = <<>>
    BY DEF Init
  <1>3. OutagesKept
    BY <1>1, <1>2, NoOutages DEF OutagesKept
  <1>4. \E all : Lists(log, all) /\ events = Latest(EventsOf(log, all), MaxEvents)
    BY <1>2, NoEvents
  <1> QED BY <1>3, <1>4 DEF EventsKept, LatestIn

\* The events a sample adds are the outages it ends, behind the older ones.
LEMMA NextEvents == EventsKept /\ [Next]_vars => EventsKept'
  <1> SUFFICES ASSUME EventsKept, [Next]_vars PROVE EventsKept'
    OBVIOUS
  <1>1. /\ OutagesKept /\ OutagesKept' /\ LogIsKept /\ outages = OutagesIn(log)
        /\ log \in Seq(Sample)
    BY NextOutages DEF EventsKept, OutagesKept, LogIsKept, LogInv, ThreadsOK
  <1>2. PICK all : Lists(log, all) /\ events = Latest(EventsOf(log, all), MaxEvents)
    BY DEF EventsKept, LatestIn
  <1>3. \E more : Lists(log', more) /\ events' = Latest(EventsOf(log', more), MaxEvents)
    <2>1. CASE log' = <<>> /\ events' = <<>>
      BY <2>1, NoEvents
    <2>2. ASSUME NEW s \in Sample, log' = Append(log, s),
                 events' = Latest(events \o Closed(s), MaxEvents)
          PROVE  \E more : Lists(log', more) /\ events' = Latest(EventsOf(log', more), MaxEvents)
      <3> DEFINE m == Append(log, s)
                 a == EventsOf(log, all)
                 b == Closed(s)
                 V == {EventIn(m, o) : o \in EndsIn(m)}
      <3>1. PICK more : /\ Lists(m, more) /\ EventsOf(m, more) = a \o b
        BY <1>1, <1>2, ListsNext
      <3>2. a \in Seq(V) /\ b \in Seq(V)
        BY <1>1, <1>2, ListsNext
      <3>3. MaxEvents \in Nat
        BY MonitorAssumption
      <3> HIDE DEF m, a, b, V
      <3>4. Latest(Latest(a, MaxEvents) \o b, MaxEvents) = Latest(a \o b, MaxEvents)
        BY <3>2, <3>3, LatestOfLatest
      <3>5. events' = Latest(EventsOf(m, more), MaxEvents)
        BY <1>2, <2>2, <3>1, <3>4 DEF a, b
      <3> QED BY <2>2, <3>1, <3>5 DEF m
    <2>3. CASE UNCHANGED <<log, events>>
      BY <2>3, <1>2
    <2> QED BY <2>1, <2>2, <2>3, <1>1, LogSteps
  <1>4. LatestIn(log', events')
    BY <1>3 DEF LatestIn
  <1> QED BY <1>1, <1>4 DEF EventsKept

\* There are finitely many outages to end.
LEMMA EndsAreFinite ==
    ASSUME NEW l \in Seq(Sample) PROVE IsFiniteSet(EndsIn(l))
  <1> DEFINE P == KeySet \X (1..Len(l))
  <1>1. IsFiniteSet(KeySet) /\ IsFiniteSet(1..Len(l))
    BY KeysAreOnce, LenProperties, FirstNaturals
  <1>2. IsFiniteSet(P)
    <2> DEFINE I == 1..Len(l)
    <2> HIDE DEF I
    <2>1. IsFiniteSet(KeySet \X I)
      BY <1>1, FS_Product DEF I
    <2> QED BY <2>1 DEF I
  <1>3. EndsIn(l) \in SUBSET P
    BY DEF EndsIn
  <1> HIDE DEF P
  <1> QED BY <1>2, <1>3, FS_Subset

\* No two outages that are over look the same: they differ in the key or in the
\* sample that ended them, and no two samples bear the same timestamp.
LEMMA EventsDiffer ==
    ASSUME LogInv, NEW o \in EndsIn(log), NEW q \in EndsIn(log),
           EventIn(log, o) = EventIn(log, q)
    PROVE  o = q
  <1>1. PICK k \in KeySet, m \in 1..Len(log) : o = <<k, m>>
    BY DEF EndsIn
  <1>2. PICK h \in KeySet, n \in 1..Len(log) : q = <<h, n>>
    BY DEF EndsIn
  <1>3. EventIn(log, o).target = k /\ EventIn(log, o).end = log[m].stamp.ts
    BY <1>1 DEF EventIn
  <1>4. EventIn(log, q).target = h /\ EventIn(log, q).end = log[n].stamp.ts
    BY <1>2 DEF EventIn
  <1>5. k = h /\ m = n
    BY <1>3, <1>4 DEF LogInv, StampsAreFresh
  <1> QED BY <1>1, <1>2, <1>5

\* What the events are: the last of the list of outages that are over.
LEMMA EventsAreLast ==
    ASSUME EventsKept
    PROVE  \E all : \E d \in Nat :
              /\ Lists(log, all) /\ Len(all) \in Nat /\ Len(events) \in Nat
              /\ Len(all) = d + Len(events)
              /\ d > 0 => Len(events) = MaxEvents
              /\ Len(events) <= MaxEvents
              /\ \A i \in 1..Len(events) : /\ d + i \in 1..Len(all)
                                          /\ all[d + i] \in EndsIn(log)
                                          /\ events[i] = EventIn(log, all[d + i])
  <1>1. PICK all : Lists(log, all) /\ events = Latest(EventsOf(log, all), MaxEvents)
    BY DEF EventsKept, LatestIn
  <1> DEFINE V == {EventIn(log, o) : o \in EndsIn(log)}
             a == EventsOf(log, all)
             d == Len(all) - Len(events)
  <1>2. /\ all \in Seq(EndsIn(log)) /\ Len(all) \in Nat
        /\ \A i \in 1..Len(all) : all[i] \in EndsIn(log)
    BY <1>1, LenProperties, ElementOfSeq DEF Lists
  <1>3. a \in Seq(V) /\ Len(a) = Len(all) /\ \A i \in 1..Len(all) : a[i] = EventIn(log, all[i])
    BY <1>2 DEF EventsOf
  <1>4. MaxEvents \in Nat
    BY MonitorAssumption
  <1> HIDE DEF a, V
  <1>5. /\ Len(events) = IF Len(a) > MaxEvents THEN MaxEvents ELSE Len(a)
        /\ \A i \in 1..Len(events) : events[i] = a[Len(a) - Len(events) + i]
    BY <1>1, <1>3, <1>4, LatestProperties DEF a
  <1>6. d \in Nat /\ Len(events) \in Nat /\ Len(events) <= MaxEvents
        /\ (d > 0 => Len(events) = MaxEvents) /\ Len(all) = d + Len(events)
    BY <1>2, <1>3, <1>4, <1>5
  <1>7. ASSUME NEW i \in 1..Len(events)
        PROVE  /\ d + i \in 1..Len(all) /\ all[d + i] \in EndsIn(log)
               /\ events[i] = EventIn(log, all[d + i])
    <2>1. d + i \in 1..Len(all)
      BY <1>2, <1>6
    <2> QED BY <2>1, <1>2, <1>3, <1>5
  <1> HIDE DEF d
  <1> QED BY <1>1, <1>2, <1>6, <1>7

\* The events are the latest of the outages that an answer ended, each of them
\* once.
LEMMA EventsMatch == EventsKept => EventsMatchSamples
  <1> SUFFICES ASSUME EventsKept PROVE EventsMatchSamples
    OBVIOUS
  <1> DEFINE ends == {o \in KeySet \X (1..Len(log)) :
                        /\ o[2] \in Probed(o[1]) /\ log[o[2]].ok[o[1]]
                        /\ FailuresBefore(o[1], o[2]) # {}}
             event(o) == LET outage == Described(FailuresBefore(o[1], o[2]))
                         IN  [target |-> o[1], start |-> outage.start,
                              end |-> log[o[2]].stamp.ts, count |-> outage.count]
             shown == {events[n] : n \in 1..Len(events)}
  <1>1. ends = EndsIn(log) /\ \A o : event(o) = EventIn(log, o)
    BY OfTheLog DEF EndsIn, EventIn
  <1>2. LogInv /\ log \in Seq(Sample)
    BY DEF EventsKept, OutagesKept, LogIsKept, LogInv, ThreadsOK
  <1>3. PICK all : \E d \in Nat :
              /\ Lists(log, all) /\ Len(all) \in Nat /\ Len(events) \in Nat
              /\ Len(all) = d + Len(events)
              /\ d > 0 => Len(events) = MaxEvents
              /\ Len(events) <= MaxEvents
              /\ \A i \in 1..Len(events) : /\ d + i \in 1..Len(all)
                                          /\ all[d + i] \in EndsIn(log)
                                          /\ events[i] = EventIn(log, all[d + i])
    BY EventsAreLast
  <1>4. PICK d \in Nat :
              /\ Lists(log, all) /\ Len(all) \in Nat /\ Len(events) \in Nat
              /\ Len(all) = d + Len(events)
              /\ d > 0 => Len(events) = MaxEvents
              /\ Len(events) <= MaxEvents
              /\ \A i \in 1..Len(events) : /\ d + i \in 1..Len(all)
                                          /\ all[d + i] \in EndsIn(log)
                                          /\ events[i] = EventIn(log, all[d + i])
    BY <1>3
  <1> HIDE DEF ends, event
  <1>5. shown \subseteq {event(o) : o \in ends}
    BY <1>1, <1>4
  <1>6. Cardinality(shown) = Len(events)
    <2> DEFINE f == [n \in 1..Len(events) |-> events[n]]
    <2>1. \A i, j \in 1..Len(all) : i # j => all[i] # all[j]
      <3> SUFFICES ASSUME NEW i \in 1..Len(all), NEW j \in 1..Len(all), i # j
                   PROVE  all[i] # all[j]
        OBVIOUS
      <3>1. i < j \/ j < i
        BY <1>4
      <3> QED BY <3>1, <1>4 DEF Lists
    <2>2. ASSUME NEW i \in 1..Len(events), NEW j \in 1..Len(events), f[i] = f[j]
          PROVE  i = j
      <3>1. EventIn(log, all[d + i]) = EventIn(log, all[d + j])
        BY <2>2, <1>4
      <3>2. all[d + i] = all[d + j]
        BY <3>1, <1>2, <1>4, EventsDiffer
      <3>3. d + i = d + j
        BY <3>2, <2>1, <1>4
      <3> QED BY <3>3, <1>4
    <2>3. f \in [1..Len(events) -> shown] /\ \A e \in shown : \E i \in 1..Len(events) : f[i] = e
      OBVIOUS
    <2> HIDE DEF f, shown
    <2> DEFINE D == 1..Len(events)
    <2>4. (\A i, j \in D : f[i] = f[j] => i = j) /\ f \in [D -> shown]
          /\ \A e \in shown : \E i \in D : f[i] = e
      BY <2>2, <2>3
    <2> HIDE DEF D
    <2>5. f \in Bijection(D, shown)
      BY <2>4, Fun_IsBij
    <2>6. ExistsBijection(1..Len(events), shown)
      BY <2>5 DEF ExistsBijection, D
    <2> QED BY <2>6, <1>4, FS_CountingElements
  <1>7. ASSUME NEW o \in ends, event(o) \notin shown
        PROVE  Cardinality({q \in ends : q[2] >= o[2]}) > MaxEvents
    <2> DEFINE Q == {q \in ends : q[2] >= o[2]}
    <2>1. PICK i \in 1..Len(all) : all[i] = o
      BY <1>1, <1>4 DEF Lists
    <2>2. i <= d
      <3> SUFFICES ASSUME ~(i <= d) PROVE FALSE
        OBVIOUS
      <3>1. i - d \in 1..Len(events) /\ d + (i - d) = i
        BY <1>4
      <3>2. events[i - d] = EventIn(log, o)
        BY <3>1, <2>1, <1>4
      <3> QED BY <3>1, <3>2, <1>1, <1>7
    <2>3. Len(events) = MaxEvents /\ Len(all) = d + MaxEvents /\ MaxEvents \in Nat
      BY <2>2, <1>4
    <2> DEFINE f == [n \in 1..(MaxEvents + 1) |-> all[d - 1 + n]]
               D == 1..(MaxEvents + 1)
    <2>4. \A n \in D : d - 1 + n \in 1..Len(all) /\ (i < d - 1 + n \/ i = d - 1 + n)
      BY <2>2, <2>3, <1>4
    <2>5. \A n \in D : all[d - 1 + n] \in Q
      <3> SUFFICES ASSUME NEW n \in D PROVE all[d - 1 + n] \in Q
        OBVIOUS
      <3> DEFINE j == d - 1 + n
      <3>1. j \in 1..Len(all) /\ (i < j \/ i = j)
        BY <2>4
      <3> HIDE DEF j
      <3>2. all[j] \in EndsIn(log)
        BY <3>1, <1>4, ElementOfSeq DEF Lists
      <3>3. all[j][2] \in Int /\ o[2] \in Int
        BY <3>2, <1>1 DEF EndsIn
      <3>4. all[j][2] >= o[2]
        BY <3>1, <3>3, <2>1, <1>4 DEF Lists
      <3> QED BY <3>2, <3>4, <1>1 DEF j
    <2>6. ASSUME NEW m \in D, NEW n \in D, m # n PROVE all[d - 1 + m] # all[d - 1 + n]
      <3>1. d - 1 + m < d - 1 + n \/ d - 1 + n < d - 1 + m
        BY <2>6, <2>3
      <3> QED BY <3>1, <2>4, <1>4 DEF Lists
    <2>7. f \in [D -> Q] /\ \A m, n \in D : f[m] = f[n] => m = n
      BY <2>5, <2>6
    <2>8. IsFiniteSet(Q)
      <3>1. IsFiniteSet(ends) /\ Q \in SUBSET ends
        BY <1>1, <1>2, EndsAreFinite
      <3> HIDE DEF Q
      <3> QED BY <3>1, FS_Subset
    <2>9. Cardinality(D) = MaxEvents + 1
      BY <2>3, FirstNaturals
    <2> HIDE DEF f, D, Q
    <2>10. f \in Injection(D, Q)
      BY <2>7, Fun_IsInj
    <2>11. Cardinality(D) <= Cardinality(Q) /\ Cardinality(Q) \in Nat
      BY <2>8, <2>10, FS_Injection, FS_CardinalityType
    <2>12. Cardinality(Q) > MaxEvents
      BY <2>3, <2>9, <2>11
    <2> QED BY <2>12 DEF Q
  <1> QED BY <1>5, <1>6, <1>7 DEF EventsMatchSamples, ends, event

\* The events are the latest of the outages that an answer ended, each of them
\* once, in whatever order the samplers add their samples (monitor.py:73-89).
THEOREM EventSafety == Spec => []EventsMatchSamples
  BY InitKept, NextEvents, EventsMatch, PTL DEF Spec

-----------------------------------------------------------------------------
(* Types.                                                                   *)

\* No more samples are added than are begun: each bears a timestamp of its own.
LEMMA LogIsShort ==
    ASSUME LogInv
    PROVE  Len(log) \in Nat /\ Len(log) <= MaxSamples /\ MaxSamples \in Nat
  <1> DEFINE f == [n \in 1..Len(log) |-> log[n].stamp.ts]
             D == 1..Len(log)
             C == 1..clock
  <1>1. /\ log \in Seq(Sample) /\ Len(log) \in Nat
        /\ MaxSamples \in Nat /\ clock \in Nat /\ clock <= MaxSamples
    BY MonitorAssumption, LenProperties DEF LogInv, ThreadsOK
  <1>2. \A n \in D : f[n] \in C
    <2> SUFFICES ASSUME NEW n \in D PROVE log[n].stamp.ts \in C
      OBVIOUS
    <2>1. log[n].stamp.ts \in 1..MaxSamples
      BY <1>1, ElementOfSeq, SampleType
    <2> QED BY <2>1, <1>1 DEF LogInv, StampsAreFresh
  <1>3. \A m, n \in D : f[m] = f[n] => m = n
    BY DEF LogInv, StampsAreFresh
  <1>4. f \in [D -> C]
    BY <1>2
  <1>5. Cardinality(D) = Len(log) /\ Cardinality(C) = clock /\ IsFiniteSet(C)
    BY <1>1, FirstNaturals
  <1> HIDE DEF f, D, C
  <1>6. f \in Injection(D, C)
    BY <1>3, <1>4, Fun_IsInj
  <1>7. Cardinality(D) <= Cardinality(C)
    BY <1>5, <1>6, FS_Injection
  <1> QED BY <1>1, <1>5, <1>7

\* What some failures are described as has the type of an outage.
LEMMA DescribedType ==
    ASSUME LogInv, NEW k, NEW n, FailuresIn(log, k, n) # {}
    PROVE  DescribedIn(log, FailuresIn(log, k, n)) \in Outage
  <1> DEFINE F == FailuresIn(log, k, n)
  <1>1. log \in Seq(Sample) /\ Len(log) \in Nat /\ Len(log) <= MaxSamples /\ MaxSamples \in Nat
    BY LogIsShort DEF LogInv, ThreadsOK
  <1>2. /\ F \subseteq 1..Len(log) /\ F \subseteq Nat /\ IsFiniteSet(F)
        /\ Cardinality(F) \in 0..Len(log)
    BY <1>1, FailuresType
  <1> HIDE DEF F
  <1>3. F # {}
    BY DEF F
  <1>4. First(F) \in 1..Len(log)
    BY <1>2, <1>3, FirstProperties
  <1>5. log[First(F)].stamp.ts \in 1..MaxSamples
    BY <1>1, <1>4, ElementOfSeq, SampleType
  <1>6. Cardinality(F) # 0
    BY <1>2, <1>3, FS_EmptySet
  <1>7. Cardinality(F) \in 1..MaxSamples
    BY <1>1, <1>2, <1>6
  <1>8. DescribedIn(log, F) \in Outage
    BY <1>5, <1>7 DEF DescribedIn, Outage
  <1> QED BY <1>8 DEF F

\* What is kept of the log has the types of the variables.
LEMMA KeptHasTypes == EventsKept => TypeOK
  <1> SUFFICES ASSUME EventsKept PROVE TypeOK
    OBVIOUS
  <1> USE DEF EventsKept, OutagesKept, LogIsKept
  <1>1. LogInv /\ ThreadsOK /\ log \in Seq(Sample) /\ Len(log) \in Nat
    BY LogIsShort DEF LogInv, ThreadsOK
  <1>2. Len(samples) <= Window /\ \A n \in 1..Len(samples) : IsSample(samples[n])
    <2>1. /\ samples \in Seq(Sample)
          /\ Len(samples) = IF Len(log) > Window THEN Window ELSE Len(log)
          /\ Window \in Nat
      BY <1>1, MonitorAssumption, LatestProperties DEF WindowIsLatest
    <2>2. ASSUME NEW n \in 1..Len(samples) PROVE IsSample(samples[n])
      <3>1. samples[n] \in Sample
        BY <2>1, ElementOfSeq
      <3> QED BY <3>1, SampleType DEF IsSample
    <2> QED BY <1>1, <2>1, <2>2
  <1>3. Len(events) <= MaxEvents /\ \A n \in 1..Len(events) : events[n] \in Event
    <2>1. /\ Len(events) <= MaxEvents
          /\ \A n \in 1..Len(events) : \E o \in EndsIn(log) : events[n] = EventIn(log, o)
      BY EventsAreLast
    <2>2. ASSUME NEW o \in EndsIn(log) PROVE EventIn(log, o) \in Event
      <3>1. /\ o[1] \in KeySet /\ o[2] \in 1..Len(log)
            /\ FailuresIn(log, o[1], o[2]) # {}
        BY DEF EndsIn
      <3>2. DescribedIn(log, FailuresIn(log, o[1], o[2])) \in Outage
        BY <1>1, <3>1, DescribedType
      <3>3. log[o[2]].stamp.ts \in 1..MaxSamples
        BY <1>1, <3>1, ElementOfSeq, SampleType
      <3> QED BY <3>1, <3>2, <3>3 DEF EventIn, Event, Outage
    <2> QED BY <2>1, <2>2
  <1>4. DOMAIN outages \subseteq KeySet /\ \A k \in DOMAIN outages : outages[k] \in Outage
    <2>1. outages = OutagesIn(log)
      OBVIOUS
    <2>2. DOMAIN outages = {q \in KeySet : OpenIn(log, q) # {}}
      BY <2>1 DEF OutagesIn
    <2>3. ASSUME NEW k \in DOMAIN outages PROVE outages[k] \in Outage
      <3>1. OpenIn(log, k) # {} /\ outages[k] = DescribedIn(log, OpenIn(log, k))
        BY <2>1, <2>2 DEF OutagesIn
      <3> QED BY <3>1, <1>1, DescribedType DEF OpenIn
    <2> QED BY <2>2, <2>3
  <1>5. \A t \in Samplers : flight[t] = NoPlan \/ flight[t] \in Plan
    BY <1>1 DEF ThreadsOK
  <1>6. session \in 0..Cardinality(Samplers)
    BY <1>1, SessionType DEF LogInv
  <1> QED BY <1>1, <1>2, <1>3, <1>4, <1>5, <1>6 DEF TypeOK, ThreadsOK

\* The variables of the monitor keep their types, whatever the sizes of its
\* deques and whatever keys it is told to probe (monitor.py:15-25).
THEOREM TypeCorrect == Spec => []TypeOK
  BY InitKept, NextEvents, KeptHasTypes, PTL DEF Spec
=============================================================================
