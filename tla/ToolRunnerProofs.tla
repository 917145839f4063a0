-------------------------- MODULE ToolRunnerProofs --------------------------
(***************************************************************************)
(* Proofs about ToolRunner, for any tabs, tools and jobs.                  *)
(***************************************************************************)
EXTENDS ToolRunner, TLAPS

\* Before the first click every variable has its type.
LEMMA InitTypeOK == Init => TypeOK
  <1> SUFFICES ASSUME Init PROVE TypeOK
    OBVIOUS
  <1> QED
    BY DEF Init, TypeOK, Ready, Blank

\* No click, thread or poll gives a variable another type.
LEMMA NextTypeOK == TypeOK /\ [Next]_vars => TypeOK'
  <1> SUFFICES ASSUME TypeOK, [Next]_vars PROVE TypeOK'
    OBVIOUS
  <1> USE DEF TypeOK
  <1>1. ASSUME NEW c \in Cards, NEW j \in Jobs, RunTool(c, j) PROVE TypeOK'
    <2>1. ToolOf(c) \in Tools
      BY DEF ToolOf, Cards
    <2>2. slot' \in [running : BOOLEAN, tool_id : Tools \union {None},
                     result : Jobs \union {None}, error : Jobs \union {None}]
      BY <1>1, <2>1 DEF RunTool, Claimed
    <2>3. card' \in [Cards -> [at : {"ready", "polling"}, own : Jobs \union {None}]]
      BY <1>1 DEF RunTool
    <2>4. shown' \in [Cards -> [job : Jobs \union {None}, as : {"blank", "done", "failed"}]]
      BY <1>1 DEF RunTool, Blank
    <2> QED
      BY <1>1, <2>2, <2>3, <2>4 DEF RunTool
  <1>2. ASSUME NEW c \in Cards, Refuse(c) PROVE TypeOK'
    BY <1>2 DEF Refuse, Blank
  <1>3. ASSUME NEW j \in Jobs, End(j) PROVE TypeOK'
    BY <1>3 DEF End, Return, Raise, WithResult, WithError
  <1>4. ASSUME NEW c \in Cards, Poll(c) PROVE TypeOK'
    <2>1. shown' \in [Cards -> [job : Jobs \union {None}, as : {"blank", "done", "failed"}]]
      BY <1>4 DEF Poll, Blank
    <2>2. card' \in [Cards -> [at : {"ready", "polling"}, own : Jobs \union {None}]]
      BY <1>4 DEF Poll
    <2> QED
      BY <1>4, <2>1, <2>2 DEF Poll
  <1>5. CASE UNCHANGED vars
    BY <1>5 DEF vars
  <1> QED
    BY <1>1, <1>2, <1>3, <1>4, <1>5 DEF Next

\* Every variable keeps its type, for any tabs, tools and jobs.
THEOREM TypeCorrect == Spec => []TypeOK
  <1> QED
    BY InitTypeOK, NextTypeOK, PTL DEF Spec

-----------------------------------------------------------------------------
(* One tool at a time.  RefusalTellsTruth says that the slot is busy while  *)
(* some tool runs; that this is a single one makes it inductive, since the  *)
(* end of any tool frees the slot.                                          *)

OneTool == \A i, j \in Running : i = j
SlotInv == RefusalTellsTruth /\ OneTool

\* Before the first click the slot is idle.
LEMMA InitSlot == Init => SlotInv
  BY DEF Init, SlotInv, RefusalTellsTruth, OneTool, Running

\* A claim finds the slot idle, and only the thread that was started frees it.
LEMMA NextSlot == TypeOK /\ SlotInv /\ [Next]_vars => SlotInv'
  <1> SUFFICES ASSUME TypeOK, SlotInv, [Next]_vars PROVE SlotInv'
    OBVIOUS
  <1> USE DEF TypeOK, SlotInv, RefusalTellsTruth, OneTool, Running
  <1>1. ASSUME NEW c \in Cards, NEW j \in Jobs, RunTool(c, j) PROVE SlotInv'
    <2>1. Running = {} /\ Running' = {j}
      BY <1>1 DEF RunTool, Free
    <2>2. slot'.running /\ slot'.tool_id = ToolOf(from'[j])
      BY <1>1 DEF RunTool, Claimed
    <2> QED
      BY <2>1, <2>2
  <1>2. ASSUME NEW c \in Cards, Refuse(c) \/ Poll(c) PROVE SlotInv'
    BY <1>2 DEF Refuse, Poll
  <1>3. ASSUME NEW j \in Jobs, End(j) PROVE SlotInv'
    <2>1. Running = {j} /\ Running' = {}
      BY <1>3 DEF End, Return, Raise
    <2>2. ~slot'.running
      BY <1>3 DEF End, Return, Raise, WithResult, WithError
    <2> QED
      BY <2>1, <2>2
  <1>4. CASE UNCHANGED vars
    BY <1>4 DEF vars
  <1> QED
    BY <1>1, <1>2, <1>3, <1>4 DEF Next

\* The slot is that of the one running tool at all times.
LEMMA SlotInvariant == Spec => []SlotInv
  <1> QED
    BY InitSlot, NextSlot, TypeCorrect, PTL DEF Spec

\* The slot is busy exactly while a tool runs, and names that tool.
THEOREM RefusalSafety == Spec => []RefusalTellsTruth
  <1>1. SlotInv => RefusalTellsTruth
    BY DEF SlotInv
  <1> QED
    BY <1>1, SlotInvariant, PTL

-----------------------------------------------------------------------------
(* Each step of the Tools tab is a step of SerialRuns or changes nothing    *)
(* that SerialRuns speaks of.                                               *)

CurrentJob == IF Running = {} THEN None ELSE CHOOSE j \in Running : TRUE
OutcomeOfJob(j) == IF job[j] = "done" THEN "done"
                   ELSE IF job[j] = "failed" THEN "error" ELSE "pending"

\* A server that was just started has accepted no tool.
LEMMA InitRefines == Init => Serial!Init
  BY DEF Init, Serial!Init, Running

\* A claim is an acceptance, the end of the thread an end; polls stutter.
LEMMA NextRefines ==
    TypeOK /\ SlotInv /\ [Next]_vars => [Serial!Next]_(Serial!vars)
  <1> SUFFICES ASSUME TypeOK, SlotInv, [Next]_vars PROVE [Serial!Next]_(Serial!vars)
    OBVIOUS
  <1> DEFINE O == [j \in Jobs |-> OutcomeOfJob(j)]
  <1>1. ASSUME NEW c \in Cards, NEW j \in Jobs, RunTool(c, j) PROVE Serial!Accept(j)
    <2>1. Running = {} /\ Running' = {j}
      BY <1>1 DEF RunTool, Free, SlotInv, RefusalTellsTruth, Running, TypeOK
    <2>2. CurrentJob = None /\ CurrentJob' = j
      BY <2>1 DEF CurrentJob
    <2>3. job[j] = "unused" /\ job' = [job EXCEPT ![j] = "running"]
      BY <1>1 DEF RunTool
    <2>4. O[j] = "pending" /\ O' = O
      BY <2>3 DEF OutcomeOfJob, TypeOK
    <2> QED
      BY <2>2, <2>4 DEF Serial!Accept, CurrentJob, OutcomeOfJob
  <1>2. ASSUME NEW j \in Jobs, End(j) PROVE Serial!End(j)
    <2>1. Running = {j} /\ Running' = {}
      BY <1>2 DEF End, Return, Raise, SlotInv, OneTool, Running, TypeOK
    <2>2. CurrentJob = j /\ CurrentJob' = None
      BY <2>1 DEF CurrentJob
    <2>3. \/ job' = [job EXCEPT ![j] = "done"]
          \/ job' = [job EXCEPT ![j] = "failed"]
      BY <1>2 DEF End, Return, Raise
    <2>4. \E o \in {"done", "stopped", "error"} : O' = [O EXCEPT ![j] = o]
      <3>1. CASE job' = [job EXCEPT ![j] = "done"]
        <4>1. O' = [O EXCEPT ![j] = "done"]
          BY <3>1 DEF OutcomeOfJob, TypeOK
        <4> QED
          BY <4>1
      <3>2. CASE job' = [job EXCEPT ![j] = "failed"]
        <4>1. O' = [O EXCEPT ![j] = "error"]
          BY <3>2 DEF OutcomeOfJob, TypeOK
        <4> QED
          BY <4>1
      <3> QED
        BY <2>3, <3>1, <3>2
    <2> QED
      BY <2>2, <2>4 DEF Serial!End, Serial!Outcomes, CurrentJob, OutcomeOfJob
  <1>3. ASSUME UNCHANGED job PROVE UNCHANGED Serial!vars
    BY <1>3 DEF Serial!vars, Running
  <1>4. ASSUME NEW c \in Cards, Refuse(c) \/ Poll(c) PROVE UNCHANGED job
    BY <1>4 DEF Refuse, Poll
  <1>5. CASE UNCHANGED vars
    BY <1>5, <1>3 DEF vars
  <1> QED
    BY <1>1, <1>2, <1>3, <1>4, <1>5 DEF Next, Serial!Next

\* The safety half of ImplementsSerialRuns: tools run one at a time and each
\* ends once.
THEOREM ToolsImplementSerialRuns == Spec => Serial!SafeSpec
  <1> QED
    BY InitRefines, NextRefines, TypeCorrect, SlotInvariant, PTL DEF Spec, Serial!SafeSpec

-----------------------------------------------------------------------------
(* What the cards show.  An idle slot holds the answer of the job that was  *)
(* accepted last, since a claim drops the one before; a card that polls it  *)
(* started that job or an earlier one.                                      *)

Places == 1..Len(accepted)
Used(j) == \E n \in Places : accepted[n] = j

AcceptedOnce ==
    /\ \A m, n \in Places : accepted[m] = accepted[n] => m = n
    /\ \A j \in Jobs : job[j] # "unused" <=> Used(j)

\* Whose answer the slot holds.
SlotIsLatest ==
    /\ slot.running =>
         /\ slot.result = None /\ slot.error = None
         /\ Len(accepted) > 0 /\ Running = {accepted[Len(accepted)]}
    /\ ~slot.running /\ Len(accepted) > 0 =>
         LET last == accepted[Len(accepted)]
         IN \/ slot.result = last /\ slot.error = None /\ job[last] = "done"
            \/ slot.error = last /\ slot.result = None /\ job[last] = "failed"
    /\ Len(accepted) = 0 => ~slot.running

\* What a card shows was accepted no earlier than what it started.
CardIsFresh(c) ==
    \E m, n \in Places : /\ m <= n
                         /\ accepted[m] = card[c].own /\ accepted[n] = shown[c].job
                         /\ shown[c].as = job[shown[c].job]

CardsAreFresh ==
    \A c \in Cards : /\ card[c].at = "polling" => Used(card[c].own)
                     /\ shown[c].as # "blank" => CardIsFresh(c)

CardInv == AcceptedOnce /\ SlotIsLatest /\ CardsAreFresh

\* Before the first click every card is blank.
LEMMA InitCards == Init => CardInv
  BY DEF Init, CardInv, AcceptedOnce, SlotIsLatest, CardsAreFresh, Places, Used, Ready, Blank

\* A new job is the latest, and moves no other.
LEMMA RunToolKeeps ==
    ASSUME TypeOK, SlotInv, CardInv, NEW c \in Cards, NEW j \in Jobs, RunTool(c, j)
    PROVE CardInv'
  <1> DEFINE last == Len(accepted) + 1
  <1>1. /\ accepted' \in Seq(Jobs) /\ Len(accepted') = last /\ last \in Nat \ {0}
        /\ accepted'[last] = j
        /\ \A n \in Places : /\ accepted'[n] = accepted[n]
                            /\ n \in Places' /\ n < last
        /\ \A n \in Places' : n \in Places \/ n = last
    <2>1. accepted \in Seq(Jobs) /\ accepted' = Append(accepted, j)
      BY DEF RunTool, TypeOK
    <2>2. Len(accepted) \in Nat /\ Len(accepted') = last /\ accepted' \in Seq(Jobs)
      BY <2>1
    <2>3. accepted'[last] = j /\ \A n \in Places : accepted'[n] = accepted[n]
      BY <2>1, <2>2 DEF Places
    <2>4. Places = 1..Len(accepted) /\ Places' = 1..last
      BY <2>2 DEF Places
    <2> QED
      BY <2>2, <2>3, <2>4
  <1>2. /\ job[j] = "unused" /\ job'[j] = "running"
        /\ \A i \in Jobs \ {j} : job'[i] = job[i]
    BY DEF RunTool, TypeOK
  <1>3. ~Used(j)
    BY <1>2 DEF CardInv, AcceptedOnce
  <1>4. \A i : Used(i) => Used(i)'
    BY <1>1 DEF Used
  <1>5. AcceptedOnce'
    <2>1. \A m, n \in Places' : accepted'[m] = accepted'[n] => m = n
      BY <1>1, <1>3 DEF CardInv, AcceptedOnce, Used
    <2>2. ASSUME NEW i \in Jobs PROVE job'[i] # "unused" <=> Used(i)'
      <3>1. Used(i)' <=> Used(i) \/ i = j
        BY <1>1 DEF Used, Places
      <3> QED
        BY <1>2, <3>1 DEF CardInv, AcceptedOnce
    <2> QED
      BY <2>1, <2>2 DEF AcceptedOnce
  <1>6. SlotIsLatest'
    <2>1. Running = {} /\ Running' = {j}
      BY <1>2 DEF RunTool, Free, SlotInv, RefusalTellsTruth, Running, TypeOK
    <2>2. slot' = [running |-> TRUE, tool_id |-> ToolOf(c), result |-> None, error |-> None]
      BY DEF RunTool, Claimed
    <2> QED
      BY <1>1, <2>1, <2>2 DEF SlotIsLatest
  <1>7. CardsAreFresh'
    <2> SUFFICES ASSUME NEW d \in Cards
                 PROVE /\ (card[d].at = "polling" => Used(card[d].own))'
                       /\ shown'[d].as # "blank" => CardIsFresh(d)'
      BY DEF CardsAreFresh
    <2>1. Used(j)'
      BY <1>1 DEF Used, Places
    <2>2. card' \in {card, [card EXCEPT ![c] = [at |-> "polling", own |-> j]]}
      BY DEF RunTool
    <2>3. card'[d] = card[d] \/ card'[d] = [at |-> "polling", own |-> j]
      BY <2>2 DEF TypeOK
    <2>4. (card[d].at = "polling" => Used(card[d].own))'
      BY <1>4, <2>1, <2>3 DEF CardInv, CardsAreFresh
    <2>5. CASE d = c
      <3>1. shown'[d] = Blank
        BY <2>5 DEF RunTool, TypeOK
      <3> QED
        BY <2>4, <3>1 DEF Blank
    <2>6. CASE d # c
      <3>1. card'[d] = card[d] /\ shown'[d] = shown[d]
        BY <2>2, <2>6 DEF RunTool, TypeOK
      <3>2. ASSUME shown[d].as # "blank" PROVE CardIsFresh(d)'
        <4>1. PICK m, n \in Places :
                 /\ m <= n
                 /\ accepted[m] = card[d].own /\ accepted[n] = shown[d].job
                 /\ shown[d].as = job[shown[d].job]
          BY <3>2 DEF CardInv, CardsAreFresh, CardIsFresh
        <4>2. shown[d].job # j
          BY <1>3, <4>1 DEF Used
        <4>3. job'[shown[d].job] = job[shown[d].job]
          BY <1>1, <1>2, <4>1, <4>2 DEF Places, TypeOK
        <4> QED
          BY <1>1, <3>1, <4>1, <4>3 DEF CardIsFresh
      <3> QED
        BY <2>4, <3>1, <3>2
    <2> QED
      BY <2>5, <2>6
  <1> QED
    BY <1>5, <1>6, <1>7 DEF CardInv

\* The job that ends is the latest.
LEMMA EndKeeps ==
    ASSUME TypeOK, SlotInv, CardInv, NEW j \in Jobs, End(j) PROVE CardInv'
  <1>1. Running = {j} /\ Running' = {} /\ job[j] = "running"
    BY DEF End, Return, Raise, SlotInv, OneTool, Running, TypeOK
  <1>2. slot.running
    BY <1>1 DEF SlotInv, RefusalTellsTruth
  <1>3. /\ j = accepted[Len(accepted)] /\ Len(accepted) > 0
        /\ slot.result = None /\ slot.error = None
    BY <1>1, <1>2 DEF CardInv, SlotIsLatest
  <1>4. UNCHANGED <<card, shown, accepted>>
    BY DEF End, Return, Raise
  <1>5. /\ job' \in {[job EXCEPT ![j] = "done"], [job EXCEPT ![j] = "failed"]}
        /\ \A i \in Jobs \ {j} : job'[i] = job[i]
        /\ job'[j] # "unused"
    BY DEF End, Return, Raise, TypeOK
  <1>6. AcceptedOnce'
    BY <1>1, <1>4, <1>5 DEF CardInv, AcceptedOnce, Used, Places
  <1>7. SlotIsLatest'
    BY <1>3, <1>4 DEF End, Return, Raise, WithResult, WithError, SlotIsLatest, TypeOK
  <1>8. ASSUME NEW c \in Cards, shown[c].as # "blank" PROVE shown[c].job # j
    <2>1. shown[c].as = job[shown[c].job] /\ shown[c].as \in {"done", "failed"}
      BY <1>8 DEF CardInv, CardsAreFresh, CardIsFresh, TypeOK
    <2> QED
      BY <1>1, <2>1
  <1>9. CardsAreFresh'
    <2> SUFFICES ASSUME NEW c \in Cards
                 PROVE /\ (card[c].at = "polling" => Used(card[c].own))'
                       /\ shown[c].as # "blank" => CardIsFresh(c)'
      BY <1>4 DEF CardsAreFresh
    <2>1. (card[c].at = "polling" => Used(card[c].own))'
      BY <1>4 DEF CardInv, CardsAreFresh, Used, Places
    <2>2. ASSUME shown[c].as # "blank" PROVE CardIsFresh(c)'
      <3>1. PICK m, n \in Places :
               /\ m <= n
               /\ accepted[m] = card[c].own /\ accepted[n] = shown[c].job
               /\ shown[c].as = job[shown[c].job]
        BY <2>2 DEF CardInv, CardsAreFresh, CardIsFresh
      <3>2. shown[c].job \in Jobs \ {j}
        BY <1>8, <2>2, <3>1 DEF TypeOK, Places
      <3> QED
        BY <1>4, <1>5, <3>1, <3>2 DEF CardIsFresh, Places
    <2> QED
      BY <2>1, <2>2
  <1> QED
    BY <1>6, <1>7, <1>9 DEF CardInv

\* A card that polled shows the latest job.
LEMMA PollKeeps ==
    ASSUME TypeOK, CardInv, NEW c \in Cards, Poll(c)
    PROVE CardInv' /\ shown'[c].as # "blank"
  <1> DEFINE last == Len(accepted)
  <1>1. /\ card[c].at = "polling" /\ ~slot.running
        /\ UNCHANGED <<slot, job, accepted>>
    BY DEF Poll
  <1>2. PICK m \in Places : accepted[m] = card[c].own
    BY <1>1 DEF CardInv, CardsAreFresh, Used
  <1>3. last \in Places /\ m <= last /\ last > 0 /\ accepted[last] \in Jobs
    BY <1>2 DEF Places, TypeOK
  <1>4. shown'[c] \in {[job |-> accepted[last], as |-> job[accepted[last]]]}
        /\ job[accepted[last]] \in {"done", "failed"}
    <2>1. \/ /\ slot.result = accepted[last] /\ slot.error = None
             /\ job[accepted[last]] = "done"
          \/ /\ slot.error = accepted[last] /\ slot.result = None
             /\ job[accepted[last]] = "failed"
      BY <1>1, <1>3 DEF CardInv, SlotIsLatest
    <2> QED
      BY <1>3, <2>1, ToolRunnerAssumption DEF Poll, TypeOK
  <1>5. card'[c].own = card[c].own /\ card'[c].at = "ready"
    BY DEF Poll, TypeOK
  <1>6. \A d \in Cards \ {c} : card'[d] = card[d] /\ shown'[d] = shown[d]
    BY DEF Poll, TypeOK
  <1>7. CardIsFresh(c)'
    BY <1>1, <1>2, <1>3, <1>4, <1>5 DEF CardIsFresh, Places
  <1>8. CardsAreFresh'
    <2> SUFFICES ASSUME NEW d \in Cards \ {c}
                 PROVE /\ (card[d].at = "polling" => Used(card[d].own))'
                       /\ shown'[d].as # "blank" => CardIsFresh(d)'
      BY <1>5, <1>7 DEF CardsAreFresh
    <2> QED
      BY <1>1, <1>6 DEF CardInv, CardsAreFresh, CardIsFresh, Used, Places
  <1> QED
    BY <1>1, <1>4, <1>8 DEF CardInv, AcceptedOnce, SlotIsLatest, Used, Places, Running

\* A refused click blanks the card that made it.
LEMMA RefuseKeeps ==
    ASSUME TypeOK, CardInv, NEW c \in Cards, Refuse(c) PROVE CardInv'
  <1>1. UNCHANGED <<slot, job, card, accepted>> /\ shown' = [shown EXCEPT ![c] = Blank]
    BY DEF Refuse
  <1>2. ASSUME NEW d \in Cards, shown'[d].as # "blank" PROVE shown'[d] = shown[d]
    BY <1>1, <1>2 DEF Blank, TypeOK
  <1> QED
    BY <1>1, <1>2 DEF CardInv, AcceptedOnce, SlotIsLatest, CardsAreFresh, CardIsFresh, Used,
                      Places, Running

\* Clicks, answers and polls keep the order of acceptance and what is shown.
LEMMA NextCards == TypeOK /\ SlotInv /\ CardInv /\ [Next]_vars => CardInv'
  <1> SUFFICES ASSUME TypeOK, SlotInv, CardInv, [Next]_vars PROVE CardInv'
    OBVIOUS
  <1>1. CASE UNCHANGED vars
    BY <1>1 DEF vars, CardInv, AcceptedOnce, SlotIsLatest, CardsAreFresh, CardIsFresh,
                Used, Places, Running
  <1> QED
    BY <1>1, RunToolKeeps, EndKeeps, PollKeeps, RefuseKeeps DEF Next

\* Cards are in order with what was accepted at all times.
LEMMA CardInvariant == Spec => []CardInv
  BY InitCards, NextCards, TypeCorrect, SlotInvariant, PTL DEF Spec

\* The order of acceptance has one place for each job.
LEMMA PositionIsPlace ==
    ASSUME AcceptedOnce, NEW n \in Places PROVE Position(accepted[n]) = n
  BY DEF AcceptedOnce, Places, Position

\* No card shows what was there before its job was accepted, whichever tabs start
\* tools in between, nor an error as a result.
THEOREM CardSafety == Spec => []ShownIsFresh
  <1>1. TypeOK /\ CardInv => ShownIsFresh
    <2> SUFFICES ASSUME TypeOK, CardInv, NEW c \in Cards, shown[c].as # "blank"
                 PROVE /\ Position(shown[c].job) >= Position(card[c].own)
                       /\ shown[c].as = job[shown[c].job]
      BY DEF ShownIsFresh
    <2>1. PICK m, n \in Places :
             /\ m <= n
             /\ accepted[m] = card[c].own /\ accepted[n] = shown[c].job
             /\ shown[c].as = job[shown[c].job]
      BY DEF CardInv, CardsAreFresh, CardIsFresh
    <2>2. Position(card[c].own) = m /\ Position(shown[c].job) = n
      BY <2>1, PositionIsPlace DEF CardInv
    <2> QED
      BY <2>1, <2>2 DEF Places
  <1> QED
    BY <1>1, TypeCorrect, CardInvariant, PTL

\* A card that has polled shows an answer.
THEOREM PollIsAnswered == Spec => NoEmptyAnswer
  <1> DEFINE Answered == \A c \in Cards : card[c].at = "polling" /\ card'[c].at = "ready"
                                            => shown'[c] # Blank
  <1>1. TypeOK /\ CardInv /\ [Next]_vars => [Answered]_vars
    <2> SUFFICES ASSUME TypeOK, CardInv, Next, NEW c \in Cards,
                        card[c].at = "polling", card'[c].at = "ready"
                 PROVE shown'[c] # Blank
      OBVIOUS
    <2>1. CASE Poll(c)
      BY <2>1, PollKeeps DEF Blank
    <2>2. ASSUME NEW d \in Cards, Poll(d), d # c PROVE FALSE
      BY <2>2 DEF Poll, TypeOK
    <2>3. ASSUME NEW d \in Cards, Refuse(d) PROVE FALSE
      BY <2>3 DEF Refuse
    <2>4. ASSUME NEW d \in Cards, NEW j \in Jobs, RunTool(d, j) PROVE FALSE
      <3>1. d # c /\ card' \in {card, [card EXCEPT ![d] = [at |-> "polling", own |-> j]]}
        BY <2>4 DEF RunTool
      <3>2. card'[c] = card[c]
        BY <3>1 DEF TypeOK
      <3> QED
        BY <3>2
    <2>5. ASSUME NEW j \in Jobs, End(j) PROVE FALSE
      BY <2>5 DEF End, Return, Raise
    <2> QED
      BY <2>1, <2>2, <2>3, <2>4, <2>5 DEF Next
  <1> QED
    BY <1>1, TypeCorrect, CardInvariant, PTL DEF Spec, NoEmptyAnswer
=============================================================================
