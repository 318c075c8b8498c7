-------------------------- MODULE PollScheduleProofs --------------------------
(***************************************************************************)
(* Proofs about PollSchedule, for any registry, cadences, retries and      *)
(* request times: its type invariant, that no dataset is requested before  *)
(* its interval has passed, and that none starves.                         *)
(***************************************************************************)
EXTENDS PollSchedule, TLAPS

\* What the assumptions say of the constants, in the form the steps need.
LEMMA Constants ==
  /\ Len(Registry) \in Nat
  /\ DOMAIN Registry = 1..Len(Registry)
  /\ CyclePeriod \in Nat \ {0}
  /\ RATE_LIMIT \in Nat /\ RequestTime \in Nat /\ TokenCost \in Nat /\ Capacity \in Nat
  /\ MaxAttempts \in Nat \ {0}
  /\ RetryWaits \subseteq Nat
  /\ Horizon \in Nat /\ MaxExcused \in Nat
  /\ Tolerance \in Nat
BY ScheduleAssumption DEF Tolerance

\* A poll interval is a number of time units within the horizon.
LEMMA Intervals ==
  ASSUME NEW d \in Datasets PROVE PollInterval(d) \in Nat /\ PollInterval(d) <= Horizon
BY ScheduleAssumption

\* Inside the loop the position names a dataset.
LEMMA CurrentIsDataset ==
  ASSUME TypeOK, position <= Len(Registry)
  PROVE  Current \in Datasets /\ position \in DOMAIN Registry
BY Constants DEF TypeOK, Current, Datasets

\* One more.
LEMMA OneMore ==
  ASSUME NEW n \in Nat, NEW s \in Nat
  PROVE  (n + 1) * s = n * s + s /\ n * s \in Nat
OBVIOUS

\* The longest cycle is a time.
LEMMA CycleTime == LongestFetch \in Nat /\ LongestCycle \in Nat
<1>1. LongestFetch \in Nat
  BY Constants, OneMore DEF LongestFetch
<1>2. RATE_LIMIT + LongestFetch \in Nat
  BY <1>1, Constants
<1>. QED BY <1>1, <1>2, Constants, OneMore DEF LongestCycle

\* What is lost is added to what was lost since the last attempt.
LEMMA Excused ==
  ASSUME TypeOK, NEW ds, NEW t \in Nat, Excuse(ds, t)
  PROVE  /\ excused' \in [Datasets -> Nat]
         /\ \A d \in Datasets :
              /\ excused'[d] >= excused[d]
              /\ d \in ds /\ Overdue(d) => excused'[d] = excused[d] + t
<1>1. excused \in [Datasets -> Nat]
  BY DEF TypeOK
<1>2. excused' = [d \in Datasets |-> excused[d] + IF d \in ds /\ Overdue(d) THEN t ELSE 0]
  BY DEF Excuse
<1> HIDE DEF TypeOK
<1>. QED BY <1>1, <1>2

-----------------------------------------------------------------------------

\* A cycle that is not looping or idle is at a dataset, and it waits to retry only
\* with attempts left.
AtDataset ==
  /\ pc \notin {"idle", "looping"} => position <= Len(Registry)
  /\ pc = "backoff" => attempt < MaxAttempts

ScheduleType == TypeOK /\ AtDataset

\* The service starts with well-typed variables.
LEMMA InitScheduleType == Init => ScheduleType
BY Constants DEF Init, ScheduleType, TypeOK, AtDataset, PCs

\* Every step keeps the types, and no attempt follows the last one.
LEMMA StepScheduleType == ScheduleType /\ [Next]_vars => ScheduleType'
<1> SUFFICES ASSUME ScheduleType, [Next]_vars PROVE ScheduleType'
  OBVIOUS
<1> USE Constants
<1>1. CASE StartCycle
  BY <1>1 DEF StartCycle, ScheduleType, TypeOK, AtDataset, PCs
<1>2. CASE MissRun
  BY <1>2 DEF MissRun, ScheduleType, TypeOK, AtDataset, PCs, loopVars
<1>3. CASE SkipDataset
  BY <1>3 DEF SkipDataset, ScheduleType, TypeOK, AtDataset, PCs
<1>4. CASE PaceDataset
  BY <1>4 DEF PaceDataset, ScheduleType, TypeOK, AtDataset, PCs
<1>5. CASE StampAttempt
  <2>1. since' \in [Datasets -> 0..Horizon]
    <3>1. since \in [Datasets -> 0..Horizon] /\ 0 \in 0..Horizon
      BY DEF ScheduleType, TypeOK
    <3>2. since' = [since EXCEPT ![Current] = 0]
      BY <1>5 DEF StampAttempt
    <3>. QED BY <3>1, <3>2, Zenon
  <2>2. attempt' \in 0..MaxAttempts
    <3>1. attempt' = 1
      BY <1>5 DEF StampAttempt
    <3>. QED BY <3>1
  <2>3. excused' \in [Datasets -> Nat]
    <3>1. excused \in [Datasets -> Nat] /\ 0 \in Nat
      BY DEF ScheduleType, TypeOK
    <3>2. excused' = [excused EXCEPT ![Current] = 0]
      BY <1>5 DEF StampAttempt
    <3>. QED BY <3>1, <3>2, Zenon
  <2>. QED BY <1>5, <2>1, <2>2, <2>3 DEF StampAttempt, ScheduleType, TypeOK, AtDataset, PCs, loopVars
<1>6. CASE Acquire
  BY <1>6 DEF Acquire, ScheduleType, TypeOK, AtDataset, PCs, loopVars
<1>7. CASE Answered
  BY <1>7 DEF Answered, DatasetDone, ScheduleType, TypeOK, AtDataset, PCs
<1>8. CASE Retry
  BY <1>8 DEF Retry, ScheduleType, TypeOK, AtDataset, PCs, loopVars
<1>9. CASE NextAttempt
  BY <1>9 DEF NextAttempt, ScheduleType, TypeOK, AtDataset, PCs, loopVars
<1>10. CASE FetchFails
  BY <1>10 DEF FetchFails, DatasetDone, ScheduleType, TypeOK, AtDataset, PCs
<1>11. CASE FinishCycle
  BY <1>11 DEF FinishCycle, ScheduleType, TypeOK, AtDataset, PCs, loopVars
<1>12. CASE Tick
  <2>1. since' \in [Datasets -> 0..Horizon]
    BY <1>12 DEF Tick, ScheduleType, TypeOK, Older
  <2>2. excused' \in [Datasets -> Nat]
    BY <1>12, Excused DEF Tick, ScheduleType
  <2>. QED BY <1>12, <2>1, <2>2 DEF Tick, ScheduleType, TypeOK, AtDataset, PCs, loopVars
<1>13. CASE Restart
  BY <1>13 DEF Restart, ScheduleType, TypeOK, AtDataset, PCs
<1>14. CASE CycleCannotStart
  <2>1. excused' \in [Datasets -> Nat]
    BY <1>14, Excused DEF CycleCannotStart, ScheduleType
  <2>. QED BY <1>14, <2>1 DEF CycleCannotStart, ScheduleType, TypeOK, AtDataset, PCs, loopVars
<1>15. CASE AnswerEndsCycle
  <2>1. LongestCycle \in Nat
    BY CycleTime
  <2>2. CyclePeriod + LongestCycle \in Nat
    BY <2>1
  <2>3. excused' \in [Datasets -> Nat]
    BY <1>15, <2>2, Excused DEF AnswerEndsCycle, ScheduleType
  <2>. QED BY <1>15, <2>3 DEF AnswerEndsCycle, ScheduleType, TypeOK, AtDataset, PCs
<1>16. CASE UNCHANGED vars
  BY <1>16 DEF vars, ScheduleType, TypeOK, AtDataset
<1>. QED
  BY <1>1, <1>2, <1>3, <1>4, <1>5, <1>6, <1>7, <1>8, <1>9, <1>10, <1>11, <1>12, <1>13, <1>14,
     <1>15, <1>16
  DEF Next, Step

\* Every variable keeps its type: in particular no dataset is tried more than
\* MaxAttempts times in its turn, and the bucket is never overdrawn or overfull.
THEOREM ScheduleTypeCorrect == Spec => []TypeOK
<1>1. Spec => []ScheduleType
  BY InitScheduleType, StepScheduleType, PTL DEF Spec
<1>. QED BY <1>1, PTL DEF ScheduleType

-----------------------------------------------------------------------------

\* A dataset whose turn is still to come.
Unstamped(i) ==
  IF pc \in {"looping", "pacing"} THEN position <= i
  ELSE pc # "idle" /\ position < i

Ripe(d) == since[d] >= PollInterval(d) - Tolerance

\* What a cycle found due stays due until its turn: its stamp only grows older.
DueStayRipe ==
  \A i \in DOMAIN Registry : Unstamped(i) /\ Registry[i] \in due => Ripe(Registry[i])

\* The dataset a cycle pauses for is one it found due.
PacingDue == pc = "pacing" => Current \in due

ScheduleInv == ScheduleType /\ DueStayRipe /\ PacingDue

\* When the service starts no cycle runs.
LEMMA InitSchedule == Init => ScheduleInv
<1> SUFFICES ASSUME Init PROVE ScheduleInv
  OBVIOUS
<1>. QED BY InitScheduleType DEF Init, ScheduleInv, DueStayRipe, PacingDue, Unstamped

\* Ageing keeps a dataset ripe, the greatest age included.
LEMMA AgeingKeepsRipe ==
  ASSUME NEW d \in Datasets, NEW age \in 0..Horizon, age >= PollInterval(d) - Tolerance
  PROVE  Older(age) >= PollInterval(d) - Tolerance
BY Constants, Intervals DEF Older

\* Every step keeps what a cycle found due ripe until its turn.
LEMMA StepSchedule == ScheduleInv /\ [Next]_vars => ScheduleInv'
<1> SUFFICES ASSUME ScheduleInv, [Next]_vars PROVE DueStayRipe' /\ PacingDue'
  BY StepScheduleType DEF ScheduleInv
<1> USE Constants DEF ScheduleInv
<1>1. CASE StartCycle
  <2>1. \A i \in DOMAIN Registry : Registry[i] \in Datasets
    BY DEF Datasets
  <2>. QED BY <1>1, <2>1
           DEF StartCycle, ShouldPoll, DueStayRipe, PacingDue, Unstamped, Ripe
<1>2. CASE MissRun
  BY <1>2 DEF MissRun, DueStayRipe, PacingDue, Unstamped, Ripe, Current, loopVars
<1>3. CASE SkipDataset
  BY <1>3 DEF SkipDataset, DueStayRipe, PacingDue, Unstamped, Ripe, ScheduleType, TypeOK
<1>4. CASE PaceDataset
  BY <1>4 DEF PaceDataset, DueStayRipe, PacingDue, Unstamped, Ripe, Current
<1>5. CASE StampAttempt
  <2>1. Current \in Datasets /\ position \in DOMAIN Registry
    BY <1>5, CurrentIsDataset DEF StampAttempt, ScheduleType, AtDataset
  <2>2. ASSUME NEW i \in DOMAIN Registry, position < i
        PROVE  since'[Registry[i]] = since[Registry[i]]
    <3>1. Registry[i] # Current
      BY <2>1, <2>2, ScheduleAssumption DEF Current, ScheduleType, TypeOK
    <3>2. Registry[i] \in Datasets
      BY DEF Datasets
    <3>. QED BY <1>5, <3>1, <3>2 DEF StampAttempt, ScheduleType, TypeOK
  <2>3. PacingDue'
    BY <1>5 DEF StampAttempt, PacingDue
  <2>4. ASSUME NEW i \in DOMAIN Registry, Unstamped(i)', (Registry[i] \in due)'
        PROVE  Ripe(Registry[i])'
    <3>1. position < i /\ Unstamped(i) /\ Registry[i] \in due
      BY <1>5, <2>4 DEF StampAttempt, Unstamped, loopVars, ScheduleType, TypeOK
    <3>. QED BY <2>2, <3>1 DEF DueStayRipe, Ripe
  <2>. QED BY <2>3, <2>4 DEF DueStayRipe
<1>6. CASE Acquire
  BY <1>6 DEF Acquire, DueStayRipe, PacingDue, Unstamped, Ripe, loopVars
<1>7. CASE Answered \/ FetchFails
  BY <1>7 DEF Answered, FetchFails, DatasetDone, DueStayRipe, PacingDue, Unstamped, Ripe,
              ScheduleType, TypeOK
<1>8. CASE Retry
  BY <1>8 DEF Retry, DueStayRipe, PacingDue, Unstamped, Ripe, loopVars
<1>9. CASE NextAttempt
  BY <1>9 DEF NextAttempt, DueStayRipe, PacingDue, Unstamped, Ripe, loopVars
<1>10. CASE FinishCycle
  BY <1>10 DEF FinishCycle, DueStayRipe, PacingDue, Unstamped
<1>11. CASE Tick
  <2>1. PacingDue'
    BY <1>11 DEF Tick, PacingDue, Current, loopVars
  <2>2. ASSUME NEW i \in DOMAIN Registry, Unstamped(i)', (Registry[i] \in due)'
        PROVE  Ripe(Registry[i])'
    <3>1. Registry[i] \in Datasets
      BY DEF Datasets
    <3>2. Ripe(Registry[i])
      BY <1>11, <2>2 DEF Tick, Unstamped, loopVars, DueStayRipe
    <3>3. since'[Registry[i]] = Older(since[Registry[i]]) /\ since[Registry[i]] \in 0..Horizon
      BY <1>11, <3>1 DEF Tick, ScheduleType, TypeOK
    <3>. QED BY <3>1, <3>2, <3>3, AgeingKeepsRipe DEF Ripe
  <2>. QED BY <2>1, <2>2 DEF DueStayRipe
<1>12. CASE Restart
  BY <1>12 DEF Restart, DueStayRipe, PacingDue, Unstamped
<1>13. CASE CycleCannotStart \/ AnswerEndsCycle
  BY <1>13 DEF CycleCannotStart, AnswerEndsCycle, DueStayRipe, PacingDue, Unstamped
<1>14. CASE UNCHANGED vars
  BY <1>14 DEF vars, DueStayRipe, PacingDue, Unstamped, Ripe, Current
<1>. QED
  BY <1>1, <1>2, <1>3, <1>4, <1>5, <1>6, <1>7, <1>8, <1>9, <1>10, <1>11, <1>12, <1>13, <1>14
  DEF Next, Step

-----------------------------------------------------------------------------

\* One step of NeverEarly.
NotEarly ==
  \A d \in Datasets : since'[d] < since[d] => since[d] >= PollInterval(d) - Tolerance

\* A stamp is renewed only by StampAttempt; ageing and a restart never lower an age.
LEMMA StepNotEarly == ScheduleInv /\ [Next]_vars => NotEarly \/ UNCHANGED vars
<1> SUFFICES ASSUME ScheduleInv, Next, NEW d \in Datasets, since'[d] < since[d]
             PROVE  since[d] >= PollInterval(d) - Tolerance
  BY DEF NotEarly
<1> USE Constants DEF ScheduleInv
<1>1. since[d] \in 0..Horizon
  BY DEF ScheduleType, TypeOK
<1>2. CASE StampAttempt
  <2>1. d = Current
    BY <1>1, <1>2 DEF StampAttempt, ScheduleType, TypeOK
  <2>2. position \in DOMAIN Registry /\ Unstamped(position)
    BY <1>2, CurrentIsDataset DEF StampAttempt, ScheduleType, AtDataset, TypeOK, Unstamped
  <2>. QED BY <1>2, <2>1, <2>2 DEF StampAttempt, PacingDue, DueStayRipe, Ripe, Current
<1>3. CASE Tick
  <2>1. since'[d] = Older(since[d])
    BY <1>3 DEF Tick, ScheduleType, TypeOK
  <2>. QED BY <1>1, <2>1 DEF Older
<1>4. CASE Restart
  <2>1. since'[d] = Horizon
    BY <1>4 DEF Restart
  <2>. QED BY <1>1, <2>1
<1>5. CASE Step /\ ~StampAttempt
  <2>1. since' = since
    BY <1>5 DEF Step, StartCycle, CycleCannotStart, AnswerEndsCycle, MissRun, SkipDataset,
                PaceDataset, Acquire, Answered, Retry, NextAttempt, FetchFails, FinishCycle, DatasetDone
  <2>. QED BY <1>1, <2>1
<1>. QED BY <1>2, <1>3, <1>4, <1>5 DEF Next

\* No dataset is requested before its interval has passed, whatever its
\* neighbours' retries do to the timing of the cycles.
THEOREM NeverEarlyCorrect == Spec => NeverEarly
<1>1. Spec => []ScheduleInv
  BY InitSchedule, StepSchedule, PTL DEF Spec
<1>2. ScheduleInv /\ [Next]_vars => [NotEarly]_vars
  BY StepNotEarly
<1>. QED BY <1>1, <1>2, PTL DEF Spec, NeverEarly, NotEarly

-----------------------------------------------------------------------------
(* How stale a dataset gets.                                               *)

\* An attempt, without the delay after it; a dataset's pause and fetch.
AttemptTime == RequestTime + TokenCost
FetchTime == RATE_LIMIT + LongestFetch

\* So many of them.
Attempts(n) == n * AttemptTime
Fetches(n) == n * FetchTime

\* The longest the current dataset can still take, delays before retries apart.
FetchRest ==
  CASE pc = "looping" -> FetchTime
    [] pc = "pacing" -> wait + LongestFetch
    [] pc = "acquiring" -> (IF tokens < TokenCost THEN TokenCost - tokens ELSE 0) + RequestTime
                             + Attempts(MaxAttempts - attempt)
    [] pc = "requesting" -> wait + Attempts(MaxAttempts - attempt)
    [] OTHER -> Attempts(MaxAttempts - attempt)

\* The longest the running cycle can still take.
CycleRest ==
  IF pc = "idle" \/ position > Len(Registry) THEN 0
  ELSE FetchRest + Fetches(Len(Registry) - position)

\* A dataset that is due in the running cycle and has not had its turn.
Waiting(d) ==
  d \in due /\ \E i \in DOMAIN Registry :
    /\ Registry[i] = d
    /\ position < i \/ (position = i /\ pc \in {"looping", "pacing"})

\* The age at which a dataset is due, with what it is excused for.
DueAge(d) == PollInterval(d) - Tolerance
Allowed(d) == DueAge(d) + excused[d]

\* Between cycles a dataset's age is bounded by the time since the last one; in a cycle,
\* by what is left of it.
AgeBounded(d) ==
  IF pc = "idle" THEN since[d] <= Allowed(d) + LongestCycle + CyclePeriod - untilRun
  ELSE since[d] + CycleRest
         <= Allowed(d) + LongestCycle + IF Waiting(d) THEN CyclePeriod + LongestCycle ELSE 0

StaleInv ==
  /\ CycleRest <= LongestCycle
  /\ \A d \in Datasets : since[d] # Horizon => AgeBounded(d)

\* The durations and what they add up to.
LEMMA Times ==
  /\ AttemptTime \in Nat /\ AttemptTime = RequestTime + TokenCost
  /\ LongestFetch \in Nat /\ LongestFetch = Attempts(MaxAttempts)
  /\ FetchTime \in Nat /\ FetchTime = RATE_LIMIT + LongestFetch
  /\ LongestCycle \in Nat /\ LongestCycle = Fetches(Len(Registry))
<1>1. LongestFetch \in Nat /\ LongestCycle \in Nat
  BY CycleTime
<1>. QED
  BY <1>1, Constants DEF AttemptTime, FetchTime, Attempts, Fetches, LongestFetch, LongestCycle

\* An attempt more, and a fetch more.
LEMMA Counting ==
  ASSUME NEW n \in Nat
  PROVE  /\ Attempts(n) \in Nat /\ Attempts(n + 1) = Attempts(n) + AttemptTime
         /\ Fetches(n) \in Nat /\ Fetches(n + 1) = Fetches(n) + FetchTime
BY Times, OneMore DEF Attempts, Fetches

\* One of so many.
LEMMA Fewer ==
  ASSUME NEW n \in Nat, n > 0
  PROVE  /\ n - 1 \in Nat
         /\ Attempts(n - 1) \in Nat /\ Attempts(n) = Attempts(n - 1) + AttemptTime
         /\ Fetches(n - 1) \in Nat /\ Fetches(n) = Fetches(n - 1) + FetchTime
<1>1. PICK m \in Nat : m = n - 1 /\ n = m + 1
  OBVIOUS
<1>. QED BY <1>1, Counting

\* What is left of the loop, and of the attempts.
LEMMA Rests ==
  ASSUME ScheduleType
  PROVE  /\ Attempts(MaxAttempts - attempt) \in Nat
         /\ attempt < MaxAttempts =>
              /\ Attempts(MaxAttempts - attempt - 1) \in Nat
              /\ Attempts(MaxAttempts - attempt) = Attempts(MaxAttempts - attempt - 1) + AttemptTime
         /\ position <= Len(Registry) => Fetches(Len(Registry) - position) \in Nat
         /\ position < Len(Registry) =>
              /\ Fetches(Len(Registry) - (position + 1)) \in Nat
              /\ Fetches(Len(Registry) - position)
                   = Fetches(Len(Registry) - (position + 1)) + FetchTime
<1>1. /\ attempt \in 0..MaxAttempts /\ MaxAttempts \in Nat
      /\ position \in 1..(Len(Registry) + 1) /\ Len(Registry) \in Nat
  BY Constants DEF ScheduleType, TypeOK
<1>2. MaxAttempts - attempt \in Nat /\ (attempt < MaxAttempts => MaxAttempts - attempt > 0)
  BY <1>1
<1>3. /\ position <= Len(Registry) => Len(Registry) - position \in Nat
      /\ position < Len(Registry) => Len(Registry) - position > 0
      /\ Len(Registry) - (position + 1) = (Len(Registry) - position) - 1
  BY <1>1
<1>4. PICK n : n = MaxAttempts - attempt
  OBVIOUS
<1>5. PICK m : m = Len(Registry) - position
  OBVIOUS
<1>6. /\ Attempts(n) \in Nat
      /\ attempt < MaxAttempts => Attempts(n - 1) \in Nat /\ Attempts(n) = Attempts(n - 1) + AttemptTime
  BY <1>2, <1>4, Counting, Fewer
<1>7. /\ position <= Len(Registry) => Fetches(m) \in Nat
      /\ position < Len(Registry) => Fetches(m - 1) \in Nat /\ Fetches(m) = Fetches(m - 1) + FetchTime
  <2>1. position <= Len(Registry) => m \in Nat
    BY <1>3, <1>5
  <2>2. position < Len(Registry) => m \in Nat /\ m > 0
    BY <1>1, <1>5
  <2>. QED BY <2>1, <2>2, Counting, Fewer
<1>. QED BY <1>3, <1>4, <1>5, <1>6, <1>7

\* What is left of a cycle, where it is in it.
LEMMA RestAt ==
  ASSUME ScheduleType
  PROVE  /\ CycleRest \in Nat
         /\ pc = "idle" \/ position > Len(Registry) => CycleRest = 0
         /\ pc # "idle" /\ position <= Len(Registry) =>
              CycleRest = FetchRest + Fetches(Len(Registry) - position)
<1>1. /\ attempt \in 0..MaxAttempts /\ MaxAttempts \in Nat /\ wait \in Nat /\ tokens \in Nat
      /\ position \in Nat /\ Len(Registry) \in Nat /\ pc \in PCs
      /\ pc = "backoff" => attempt < MaxAttempts
  BY Constants DEF ScheduleType, TypeOK, AtDataset
<1>2. /\ AttemptTime \in Nat /\ LongestFetch \in Nat /\ FetchTime \in Nat
      /\ TokenCost \in Nat /\ RequestTime \in Nat
  BY Times, Constants
<1>3. /\ Attempts(MaxAttempts - attempt) \in Nat
      /\ position <= Len(Registry) => Fetches(Len(Registry) - position) \in Nat
  BY <1>1, Rests
<1>4. pc # "idle" => FetchRest \in Nat
  <2>1. CASE pc \in {"looping", "pacing"}
    BY <1>1, <1>2, <2>1 DEF FetchRest
  <2>2. CASE pc = "acquiring"
    BY <1>1, <1>2, <1>3, <2>2 DEF FetchRest
  <2>3. CASE pc = "requesting"
    BY <1>1, <1>2, <1>3, <2>3 DEF FetchRest
  <2>4. CASE pc = "backoff"
    <3>1. FetchRest = Attempts(MaxAttempts - attempt)
      BY <2>4 DEF FetchRest
    <3>. QED BY <1>3, <3>1
  <2>. QED BY <1>1, <2>1, <2>2, <2>3, <2>4 DEF PCs
<1>. QED BY <1>1, <1>3, <1>4 DEF CycleRest

\* The loop goes on to the next dataset, with what is left after the current one.
LEMMA RestAfter ==
  ASSUME ScheduleType, position <= Len(Registry), position' = position + 1,
         pc' = "looping"
  PROVE  CycleRest' \in Nat /\ CycleRest' <= Fetches(Len(Registry) - position)
<1>1. position \in Nat /\ Len(Registry) \in Nat
  BY Constants DEF ScheduleType, TypeOK
<1>2. CASE position = Len(Registry)
  <2>1. CycleRest' = 0
    BY <1>1, <1>2 DEF CycleRest
  <2>. QED BY <2>1, Rests
<1>3. CASE position < Len(Registry)
  <2>1. CycleRest' = FetchTime + Fetches(Len(Registry) - (position + 1))
    BY <1>1, <1>3 DEF CycleRest, FetchRest
  <2>. QED BY <1>3, <2>1, Rests, Times
<1>. QED BY <1>1, <1>2, <1>3

\* No step but the start of a cycle makes the rest of it longer.
LEMMA RestOfStep ==
  ASSUME ScheduleType, Step, ~StartCycle, ~CycleCannotStart
  PROVE  CycleRest' \in Nat /\ CycleRest' <= CycleRest
<1>1. /\ attempt \in 0..MaxAttempts /\ MaxAttempts \in Nat \ {0} /\ wait \in Nat /\ tokens \in Nat
      /\ position \in 1..(Len(Registry) + 1) /\ Len(Registry) \in Nat
      /\ pc = "backoff" => attempt < MaxAttempts
      /\ pc \notin {"idle", "looping"} => position <= Len(Registry)
  BY Constants DEF ScheduleType, TypeOK, AtDataset
<1>2. /\ AttemptTime = RequestTime + TokenCost
      /\ AttemptTime \in Nat /\ LongestFetch \in Nat /\ FetchTime \in Nat
      /\ FetchTime = RATE_LIMIT + LongestFetch
      /\ LongestFetch = Attempts(MaxAttempts)
      /\ TokenCost \in Nat /\ RequestTime \in Nat /\ RATE_LIMIT \in Nat
  BY Times, Constants
<1>3. PICK k : k = Attempts(MaxAttempts - attempt)
  OBVIOUS
<1>4. PICK j : j = Attempts(MaxAttempts - attempt - 1)
  OBVIOUS
<1>5. PICK m : m = Fetches(Len(Registry) - position)
  OBVIOUS
<1>6. /\ k \in Nat
      /\ attempt < MaxAttempts => j \in Nat /\ k = j + AttemptTime
      /\ position <= Len(Registry) => m \in Nat
  BY <1>3, <1>4, <1>5, Rests
<1>7. CASE MissRun
  BY <1>7, RestAt DEF MissRun, loopVars, CycleRest, FetchRest
<1>8. CASE SkipDataset
  <2>1. /\ pc = "looping" /\ pc' = pc /\ position' = position + 1 /\ position <= Len(Registry)
    BY <1>8 DEF SkipDataset
  <2>2. CycleRest = FetchTime + m
    BY <1>5, <2>1, RestAt DEF FetchRest
  <2>3. FetchTime \in Nat /\ m \in Nat
    BY <1>2, <1>6, <2>1
  <2>4. CycleRest' \in Nat /\ CycleRest' <= m
    BY <1>5, <2>1, RestAfter
  <2>. QED BY <2>2, <2>3, <2>4
<1>9. CASE PaceDataset
  <2>1. /\ pc = "looping" /\ pc' = "pacing" /\ position' = position /\ position <= Len(Registry)
        /\ wait' \in {0, RATE_LIMIT}
    BY <1>9 DEF PaceDataset
  <2>2. CycleRest = FetchTime + m
    BY <1>5, <2>1, RestAt DEF FetchRest
  <2>3. CycleRest' = wait' + LongestFetch + m
    BY <1>1, <1>5, <2>1 DEF CycleRest, FetchRest
  <2>4. wait' \in Nat /\ wait' <= RATE_LIMIT /\ m \in Nat
    BY <1>2, <1>6, <2>1
  <2>. QED BY <1>2, <2>2, <2>3, <2>4
<1>10. CASE StampAttempt
  <2>1. /\ pc = "pacing" /\ pc' = "acquiring" /\ position' = position /\ position <= Len(Registry)
        /\ wait = 0 /\ attempt' = 1 /\ tokens' = tokens
    BY <1>1, <1>10 DEF StampAttempt, loopVars
  <2>2. CycleRest = LongestFetch + m
    BY <1>2, <1>5, <2>1, RestAt DEF FetchRest
  <2>3. PICK x : x = Attempts(MaxAttempts - 1)
    OBVIOUS
  <2>4. CycleRest' = (IF tokens < TokenCost THEN TokenCost - tokens ELSE 0) + RequestTime + x + m
    BY <1>1, <1>5, <2>1, <2>3 DEF CycleRest, FetchRest
  <2>5. x \in Nat
    <3>1. MaxAttempts \in Nat /\ MaxAttempts > 0
      BY <1>1
    <3>. QED BY <2>3, <3>1, Fewer
  <2>6. CycleRest = TokenCost + RequestTime + x + m
    <3>1. MaxAttempts \in Nat /\ MaxAttempts > 0
      BY <1>1
    <3>2. Attempts(MaxAttempts) = x + (RequestTime + TokenCost)
      BY <1>2, <2>3, <3>1, Fewer
    <3>. QED BY <1>2, <1>6, <2>1, <2>2, <2>5, <3>2
  <2>7. tokens \in Nat /\ TokenCost \in Nat /\ RequestTime \in Nat /\ m \in Nat
    BY <1>1, <1>2, <1>6, <2>1
  <2>. QED BY <2>4, <2>5, <2>6, <2>7
<1>11. CASE Acquire
  <2>1. /\ pc = "acquiring" /\ pc' = "requesting" /\ position' = position
        /\ wait' = RequestTime /\ attempt' = attempt /\ tokens >= TokenCost
        /\ position <= Len(Registry)
    BY <1>1, <1>11 DEF Acquire, loopVars
  <2>2. ~(tokens < TokenCost)
    BY <1>1, <1>2, <2>1
  <2>3. CycleRest = 0 + RequestTime + k + m
    BY <1>3, <1>5, <2>1, <2>2, RestAt DEF FetchRest
  <2>4. CycleRest' = RequestTime + k + m
    BY <1>1, <1>3, <1>5, <2>1 DEF CycleRest, FetchRest
  <2>. QED BY <1>2, <1>6, <2>1, <2>3, <2>4
<1>12. CASE Answered \/ FetchFails
  <2>1. /\ pc = "requesting" /\ pc' = "looping" /\ position' = position + 1
        /\ position <= Len(Registry)
    BY <1>1, <1>12 DEF Answered, FetchFails, DatasetDone
  <2>2. CycleRest = wait + k + m
    BY <1>3, <1>5, <2>1, RestAt DEF FetchRest
  <2>3. wait \in Nat /\ k \in Nat /\ m \in Nat
    BY <1>1, <1>6, <2>1
  <2>4. CycleRest' \in Nat /\ CycleRest' <= m
    BY <1>5, <2>1, RestAfter
  <2>. QED BY <2>2, <2>3, <2>4
<1>13. CASE Retry
  <2>1. /\ pc = "requesting" /\ pc' = "backoff" /\ position' = position /\ attempt' = attempt
        /\ position <= Len(Registry)
    BY <1>1, <1>13 DEF Retry, loopVars
  <2>2. CycleRest = wait + k + m
    BY <1>3, <1>5, <2>1, RestAt DEF FetchRest
  <2>3. CycleRest' = k + m
    BY <1>1, <1>3, <1>5, <2>1 DEF CycleRest, FetchRest
  <2>. QED BY <1>1, <1>6, <2>1, <2>2, <2>3
<1>14. CASE NextAttempt
  <2>1. /\ pc = "backoff" /\ pc' = "acquiring" /\ position' = position /\ attempt' = attempt + 1
        /\ position <= Len(Registry) /\ attempt < MaxAttempts /\ tokens' = tokens
    BY <1>1, <1>14 DEF NextAttempt, loopVars
  <2>2. CycleRest = k + m
    BY <1>3, <1>5, <2>1, RestAt DEF FetchRest
  <2>3. MaxAttempts - attempt' = MaxAttempts - attempt - 1
    BY <1>1, <2>1
  <2>4. CycleRest' = (IF tokens < TokenCost THEN TokenCost - tokens ELSE 0) + RequestTime + j + m
    BY <1>1, <1>4, <1>5, <2>1, <2>3 DEF CycleRest, FetchRest
  <2>5. k = j + (RequestTime + TokenCost) /\ j \in Nat /\ m \in Nat
        /\ tokens \in Nat /\ TokenCost \in Nat /\ RequestTime \in Nat
    BY <1>1, <1>2, <1>6, <2>1
  <2>. QED BY <2>2, <2>4, <2>5
<1>15. CASE FinishCycle
  BY <1>15, RestAt DEF FinishCycle, CycleRest
<1>16. CASE AnswerEndsCycle
  BY <1>16, RestAt DEF AnswerEndsCycle, CycleRest
<1>. QED BY <1>7, <1>8, <1>9, <1>10, <1>11, <1>12, <1>13, <1>14, <1>15, <1>16 DEF Step

\* While the cycle sleeps for a reason of its own, the rest of it passes.
LEMMA RestOfTick ==
  ASSUME ScheduleType, Tick, pc \notin {"idle", "backoff"}
  PROVE  CycleRest' + 1 = CycleRest /\ CycleRest' \in Nat
<1>1. /\ wait \in Nat /\ tokens \in 0..Capacity /\ position \in Nat /\ Len(Registry) \in Nat
      /\ position <= Len(Registry) /\ attempt \in 0..MaxAttempts /\ MaxAttempts \in Nat
      /\ pc = "backoff" => attempt < MaxAttempts
  BY Constants DEF ScheduleType, TypeOK, AtDataset, Tick, Asleep
<1>2. /\ UNCHANGED <<pc, position, attempt>>
      /\ wait' = IF wait > 0 THEN wait - 1 ELSE 0
      /\ tokens' = IF tokens < Capacity THEN tokens + 1 ELSE Capacity
  BY DEF Tick, loopVars
<1>3. /\ AttemptTime \in Nat /\ LongestFetch \in Nat /\ FetchTime \in Nat /\ Capacity \in Nat
      /\ TokenCost \in Nat /\ RequestTime \in Nat /\ RATE_LIMIT \in Nat /\ TokenCost <= Capacity
  BY Times, Constants, ScheduleAssumption
<1>4. PICK k : k = Attempts(MaxAttempts - attempt)
  OBVIOUS
<1>6. PICK m : m = Fetches(Len(Registry) - position)
  OBVIOUS
<1>7. k \in Nat /\ m \in Nat
  BY <1>1, <1>4, <1>6, Rests
<1>8. CycleRest = FetchRest + m /\ CycleRest' = FetchRest' + m
  <2>1. ~(position > Len(Registry))
    BY <1>1
  <2>. QED BY <1>2, <1>6, <2>1 DEF CycleRest
<1>9. CASE pc = "pacing" /\ wait > 0
  <2>1. FetchRest = wait + LongestFetch /\ FetchRest' = wait' + LongestFetch
    BY <1>2, <1>9 DEF FetchRest
  <2>. QED BY <1>1, <1>2, <1>3, <1>7, <1>8, <1>9, <2>1
<1>10. CASE pc = "requesting" /\ wait > 0
  <2>1. FetchRest = wait + k /\ FetchRest' = wait' + k
    BY <1>2, <1>4, <1>10 DEF FetchRest
  <2>. QED BY <1>1, <1>2, <1>3, <1>7, <1>8, <1>10, <2>1
<1>12. CASE pc = "acquiring" /\ tokens < TokenCost
  <2>1. /\ FetchRest = (TokenCost - tokens) + RequestTime + k
        /\ FetchRest' = (IF tokens' < TokenCost THEN TokenCost - tokens' ELSE 0) + RequestTime + k
    BY <1>2, <1>4, <1>12 DEF FetchRest
  <2>2. tokens' = tokens + 1
    BY <1>1, <1>2, <1>3, <1>12
  <2>. QED BY <1>1, <1>3, <1>7, <1>8, <1>12, <2>1, <2>2
<1>. QED BY <1>9, <1>10, <1>12 DEF Tick, Asleep

\* A dataset is due no earlier than it was attempted.
LEMMA DueAges ==
  ASSUME NEW d \in Datasets
  PROVE  DueAge(d) \in Nat
<1>1. PollInterval(d) \in Nat /\ PollInterval(d) >= CyclePeriod
  BY ScheduleAssumption DEF PollInterval
<1>2. Tolerance \in Nat /\ Tolerance <= CyclePeriod /\ CyclePeriod \in Nat
  BY ScheduleAssumption DEF Tolerance
<1>. QED BY <1>1, <1>2 DEF DueAge

\* What a dataset is allowed is a time.
LEMMA Allowances ==
  ASSUME TypeOK, NEW d \in Datasets
  PROVE  Allowed(d) \in Nat /\ excused[d] \in Nat /\ Allowed(d) = DueAge(d) + excused[d]
BY DueAges DEF TypeOK, Allowed

\* The steps of a running cycle that no malformed answer ends.
Progress == Step /\ ~StartCycle /\ ~CycleCannotStart /\ ~AnswerEndsCycle

\* A dataset waits for its turn until its attempt is stamped.
LEMMA TurnStamps ==
  ASSUME ScheduleType, Progress, NEW d \in Datasets, Waiting(d), ~Waiting(d)'
  PROVE  since'[d] = 0
<1>1. /\ position \in Nat /\ Len(Registry) \in Nat /\ DOMAIN Registry = 1..Len(Registry)
      /\ since \in [Datasets -> 0..Horizon]
  BY Constants DEF ScheduleType, TypeOK
<1>2. PICK i \in DOMAIN Registry :
        /\ Registry[i] = d /\ d \in due
        /\ position < i \/ (position = i /\ pc \in {"looping", "pacing"})
  BY DEF Waiting
<1>3. i \in Nat /\ i <= Len(Registry)
  BY <1>1
<1>4. due' = due
  BY DEF Progress, Step, MissRun, SkipDataset, PaceDataset, StampAttempt, Acquire, Answered, Retry,
         NextAttempt, FetchFails, FinishCycle, DatasetDone, loopVars
<1>5. ~(position' < i \/ (position' = i /\ pc' \in {"looping", "pacing"}))
  <2>1. ASSUME position' < i \/ (position' = i /\ pc' \in {"looping", "pacing"}) PROVE Waiting(d)'
    BY <1>2, <1>4, <2>1 DEF Waiting
  <2>. QED BY <2>1
<1>6. ~SkipDataset
  <2>1. ASSUME SkipDataset PROVE FALSE
    <3>1. /\ position' = position + 1 /\ pc' = "looping" /\ Registry[position] \notin due
      BY <2>1 DEF SkipDataset, Current
    <3>2. position < i
      BY <1>2, <3>1
    <3>. QED BY <1>1, <1>3, <1>4, <1>5, <3>1, <3>2
  <2>. QED BY <2>1
<1>7. ~(Answered \/ FetchFails)
  <2>1. ASSUME Answered \/ FetchFails PROVE FALSE
    <3>1. /\ position' = position + 1 /\ pc' = "looping" /\ pc = "requesting"
      BY <2>1 DEF Answered, FetchFails, DatasetDone
    <3>2. position < i
      BY <1>2, <3>1
    <3>. QED BY <1>1, <1>3, <1>4, <1>5, <3>1, <3>2
  <2>. QED BY <2>1
<1>8. ~(PaceDataset \/ MissRun \/ Acquire \/ Retry \/ NextAttempt)
  BY <1>2, <1>4, <1>5 DEF PaceDataset, MissRun, Acquire, Retry, NextAttempt, loopVars
<1>9. ~FinishCycle
  BY <1>1, <1>2, <1>3 DEF FinishCycle
<1>10. StampAttempt
  BY <1>6, <1>7, <1>8, <1>9 DEF Progress, Step
<1>11. /\ position' = position /\ since' = [since EXCEPT ![Registry[position]] = 0]
  BY <1>10 DEF StampAttempt, loopVars, Current
<1>12. position = i
  BY <1>2, <1>4, <1>5, <1>11
<1>. QED BY <1>1, <1>2, <1>11, <1>12

\* A cycle begins: what is left of it is a whole cycle.
LEMMA StartBounded ==
  ASSUME ScheduleType, StaleInv, StartCycle
  PROVE  StaleInv'
<1>1. /\ pc = "idle" /\ untilRun = 0 /\ pc' = "looping" /\ position' = 1 /\ since' = since
      /\ excused' = excused
      /\ due' = {d \in Datasets : ShouldPoll(d)}
  BY DEF StartCycle
<1>2. /\ LongestCycle = Fetches(Len(Registry)) /\ LongestCycle \in Nat /\ FetchTime \in Nat
      /\ Len(Registry) \in Nat /\ CyclePeriod \in Nat /\ DOMAIN Registry = 1..Len(Registry)
      /\ since \in [Datasets -> 0..Horizon]
  BY Times, Constants DEF ScheduleType, TypeOK
<1>3. CycleRest' \in Nat /\ CycleRest' <= LongestCycle
  <2>1. CASE Len(Registry) = 0
    BY <1>1, <1>2, <2>1 DEF CycleRest
  <2>2. CASE Len(Registry) > 0
    <3>1. CycleRest' = FetchTime + Fetches(Len(Registry) - 1)
      BY <1>1, <1>2, <2>2 DEF CycleRest, FetchRest
    <3>2. Fetches(Len(Registry)) = Fetches(Len(Registry) - 1) + FetchTime
          /\ Fetches(Len(Registry) - 1) \in Nat
      BY <1>2, <2>2, Fewer
    <3>. QED BY <1>2, <3>1, <3>2
  <2>. QED BY <1>2, <2>1, <2>2
<1>4. ASSUME NEW d \in Datasets, since'[d] # Horizon PROVE AgeBounded(d)'
  <2>1. Allowed(d) \in Nat /\ since[d] \in Nat /\ Allowed(d)' = Allowed(d)
    BY <1>1, <1>2, Allowances, Constants DEF ScheduleType, Allowed, DueAge
  <2>2. CASE ShouldPoll(d)
    <3>1. since[d] <= Allowed(d) + LongestCycle + CyclePeriod - untilRun
      BY <1>1, <1>4 DEF StaleInv, AgeBounded
    <3>2. since[d] <= Allowed(d) + LongestCycle + CyclePeriod
      BY <1>1, <1>2, <2>1, <3>1
    <3>3. since[d] + CycleRest' <= Allowed(d) + LongestCycle + (CyclePeriod + LongestCycle)
      BY <1>2, <1>3, <2>1, <3>2
    <3>4. Waiting(d)'
      <4>1. PICK i \in DOMAIN Registry : Registry[i] = d
        BY DEF Datasets
      <4>2. 1 < i \/ 1 = i
        BY <1>2
      <4>. QED BY <1>1, <2>2, <4>1, <4>2 DEF Waiting
    <3>. QED BY <1>1, <2>1, <3>3, <3>4 DEF AgeBounded
  <2>3. CASE ~ShouldPoll(d)
    <3>1. ~(since[d] >= Allowed(d))
      <4>1. ~(since[d] >= DueAge(d)) /\ DueAge(d) \in Nat
        BY <2>3, DueAges DEF ShouldPoll, DueAge
      <4>. QED BY <2>1, <4>1, Allowances DEF ScheduleType
    <3>2. ~Waiting(d)'
      BY <1>1, <2>3 DEF Waiting
    <3>3. since[d] + CycleRest' <= Allowed(d) + LongestCycle + 0
      BY <1>2, <1>3, <2>1, <3>1
    <3>. QED BY <1>1, <2>1, <3>2, <3>3 DEF AgeBounded
  <2>. QED BY <2>2, <2>3
<1>. QED BY <1>3, <1>4 DEF StaleInv

\* A cycle that cannot start excuses what is overdue for the period until the next one.
LEMMA CannotStartBounded ==
  ASSUME ScheduleType, StaleInv, CycleCannotStart
  PROVE  StaleInv'
<1>1. /\ pc = "idle" /\ pc' = "idle" /\ untilRun = 0 /\ untilRun' = CyclePeriod /\ since' = since
      /\ CyclePeriod \in Nat /\ LongestCycle \in Nat /\ since \in [Datasets -> 0..Horizon]
  BY Times, Constants DEF CycleCannotStart, ScheduleType, TypeOK
<1>2. CycleRest' = 0
  BY <1>1 DEF CycleRest
<1>3. ASSUME NEW d \in Datasets, since'[d] # Horizon PROVE AgeBounded(d)'
  <2>1. /\ DueAge(d) \in Nat /\ since[d] \in Nat /\ excused[d] \in Nat
        /\ Allowed(d) = DueAge(d) + excused[d]
    BY <1>1, DueAges, Allowances, Constants DEF ScheduleType
  <2>2. /\ excused'[d] \in Nat /\ excused'[d] >= excused[d]
        /\ Overdue(d) => excused'[d] = excused[d] + CyclePeriod
    BY <1>1, Excused DEF CycleCannotStart, ScheduleType
  <2>3. Allowed(d)' = DueAge(d) + excused'[d]
    BY DEF Allowed, DueAge
  <2>4. since[d] <= DueAge(d) + excused[d] + LongestCycle + CyclePeriod
    BY <1>1, <1>3, <2>1 DEF StaleInv, AgeBounded
  <2>5. since[d] <= DueAge(d) + excused'[d] + LongestCycle
    <3>1. CASE Overdue(d)
      BY <1>1, <2>1, <2>2, <2>4, <3>1
    <3>2. CASE ~Overdue(d)
      <4>1. ~(since[d] >= DueAge(d))
        BY <1>1, <1>3, <3>2 DEF Overdue, DueAge
      <4>. QED BY <1>1, <2>1, <2>2, <4>1
    <3>. QED BY <3>1, <3>2
  <2>6. since'[d] <= Allowed(d)' + LongestCycle + CyclePeriod - untilRun'
    BY <1>1, <2>1, <2>2, <2>3, <2>5
  <2>. QED BY <1>1, <2>6 DEF AgeBounded
<1>. QED BY <1>1, <1>2, <1>3 DEF StaleInv

\* An answer that ends the cycle excuses the datasets still to come for a lost turn.
LEMMA AnswerEndsBounded ==
  ASSUME ScheduleType, ScheduleType', StaleInv, AnswerEndsCycle
  PROVE  StaleInv'
<1>1. /\ pc = "requesting" /\ pc' = "idle" /\ untilRun' = untilRun /\ since' = since
      /\ CyclePeriod \in Nat /\ LongestCycle \in Nat /\ since \in [Datasets -> 0..Horizon]
      /\ untilRun \in 0..CyclePeriod /\ CycleRest \in Nat
      /\ DOMAIN Registry = 1..Len(Registry) /\ Len(Registry) \in Nat /\ position \in Nat
  <2>1. CycleRest \in Nat
    BY RestAt
  <2>2. pc = "requesting" /\ pc' = "idle" /\ UNCHANGED <<since, untilRun, due, requested, tokens>>
    BY Zenon DEF AnswerEndsCycle
  <2>3. since \in [Datasets -> 0..Horizon] /\ untilRun \in 0..CyclePeriod /\ position \in Nat
    BY Constants DEF ScheduleType, TypeOK
  <2>. QED BY <2>1, <2>2, <2>3, Times, Constants
<1>2. CycleRest' = 0
  BY <1>1 DEF CycleRest
<1> DEFINE ToCome == {Registry[i] : i \in (position + 1)..Len(Registry)} \cap due
<1>3. Excuse(ToCome, CyclePeriod + LongestCycle) /\ CyclePeriod + LongestCycle \in Nat
  <2>1. Excuse(ToCome, CyclePeriod + LongestCycle)
    BY Zenon DEF AnswerEndsCycle
  <2>2. CyclePeriod + LongestCycle \in Nat
    BY <1>1
  <2>. QED BY <2>1, <2>2
<1>4. ASSUME NEW d \in Datasets, since'[d] # Horizon PROVE AgeBounded(d)'
  <2>1. /\ DueAge(d) \in Nat /\ since[d] \in Nat /\ excused[d] \in Nat
        /\ Allowed(d) = DueAge(d) + excused[d]
    BY <1>1, DueAges, Allowances, Constants DEF ScheduleType
  <2>2. /\ excused'[d] \in Nat /\ excused'[d] >= excused[d]
        /\ d \in ToCome /\ Overdue(d) => excused'[d] = excused[d] + (CyclePeriod + LongestCycle)
    <3> HIDE DEF ToCome
    <3>. QED BY <1>3, Excused DEF ScheduleType
  <2>3. Allowed(d)' = DueAge(d) + excused'[d]
    BY DEF Allowed, DueAge
  <2>4. PICK more : more = IF Waiting(d) THEN CyclePeriod + LongestCycle ELSE 0
    OBVIOUS
  <2>5. since[d] + CycleRest <= DueAge(d) + excused[d] + LongestCycle + more
    BY <1>1, <1>4, <2>1, <2>4 DEF StaleInv, AgeBounded
  <2>6. since[d] <= DueAge(d) + excused'[d] + LongestCycle
    <3>1. CASE ~Waiting(d)
      BY <1>1, <2>1, <2>2, <2>4, <2>5, <3>1
    <3>2. CASE Waiting(d) /\ Overdue(d)
      <4>1. d \in ToCome
        BY <1>1, <3>2 DEF Waiting
      <4>2. since[d] <= DueAge(d) + excused[d] + LongestCycle + (CyclePeriod + LongestCycle)
        BY <1>1, <2>1, <2>4, <2>5, <3>2
      <4>. QED BY <1>1, <2>1, <2>2, <3>2, <4>1, <4>2
    <3>3. CASE ~Overdue(d)
      <4>1. ~(since[d] >= DueAge(d))
        BY <1>1, <1>4, <3>3 DEF Overdue, DueAge
      <4>. QED BY <1>1, <2>1, <2>2, <4>1
    <3>. QED BY <3>1, <3>2, <3>3
  <2>7. since'[d] <= Allowed(d)' + LongestCycle + CyclePeriod - untilRun'
    <3>1. since'[d] = since[d] /\ untilRun' = untilRun /\ Allowed(d)' \in Nat
      BY <1>1, <2>1, <2>2, <2>3
    <3>. QED BY <1>1, <2>1, <2>2, <2>3, <2>6, <3>1
  <2>. QED BY <1>1, <2>7 DEF AgeBounded
<1>. QED BY <1>1, <1>2, <1>4 DEF StaleInv

\* The other steps take no time; at its turn a dataset's age is stamped.
LEMMA StepBounded ==
  ASSUME ScheduleType, ScheduleType', StaleInv, Progress
  PROVE  StaleInv'
<1>1. CycleRest' \in Nat /\ CycleRest' <= CycleRest /\ CycleRest \in Nat /\ LongestCycle \in Nat /\ CyclePeriod \in Nat
      /\ CycleRest <= LongestCycle
  BY RestOfStep, RestAt, Times, Constants DEF StaleInv, Progress
<1>2. CycleRest' <= LongestCycle
  BY <1>1
<1>3. pc # "idle" /\ since \in [Datasets -> 0..Horizon] /\ untilRun' \in 0..CyclePeriod
  BY DEF Progress, Step, MissRun, SkipDataset, PaceDataset, StampAttempt, Acquire, Answered, Retry,
         NextAttempt, FetchFails, FinishCycle, ScheduleType, TypeOK
<1>4. ASSUME NEW d \in Datasets, since'[d] # Horizon PROVE AgeBounded(d)'
  <2>1. Allowed(d) \in Nat /\ Allowed(d)' \in Nat /\ since[d] \in Nat
    <3>1. Allowed(d)' = DueAge(d) + excused'[d] /\ excused'[d] \in Nat
      BY DEF ScheduleType, TypeOK, Allowed, DueAge
    <3>. QED BY <1>3, <3>1, DueAges, Allowances, Constants DEF ScheduleType
  <2>2. (since'[d] = since[d] /\ Allowed(d)' = Allowed(d)) \/ since'[d] = 0
    <3>1. CASE StampAttempt
      BY <1>3, <3>1 DEF StampAttempt, Allowed, DueAge, ScheduleType, TypeOK
    <3>2. CASE ~StampAttempt
      <4>1. since' = since /\ excused' = excused
        BY <3>2 DEF Progress, Step, MissRun, SkipDataset, PaceDataset, Acquire, Answered, Retry,
                    NextAttempt, FetchFails, FinishCycle, DatasetDone
      <4>. QED BY <4>1 DEF Allowed, DueAge
    <3>. QED BY <3>1, <3>2
  <2>3. PICK more : more = IF Waiting(d) THEN CyclePeriod + LongestCycle ELSE 0
    OBVIOUS
  <2>4. PICK more2 : more2 = IF Waiting(d)' THEN CyclePeriod + LongestCycle ELSE 0
    OBVIOUS
  <2>5. more \in Nat /\ more2 \in Nat
    BY <1>1, <2>3, <2>4
  <2>6. since'[d] + CycleRest' <= Allowed(d)' + LongestCycle + more2
    <3>1. CASE since'[d] = 0
      BY <1>1, <1>2, <2>1, <2>5, <3>1
    <3>2. CASE since'[d] = since[d] /\ Allowed(d)' = Allowed(d)
      <4>1. since[d] + CycleRest <= Allowed(d) + LongestCycle + more
        BY <1>3, <1>4, <2>3, <3>2 DEF StaleInv, AgeBounded
      <4>2. CASE Waiting(d) /\ ~Waiting(d)'
        <5>1. since'[d] = 0
          BY <4>2, TurnStamps
        <5>. QED BY <1>1, <1>2, <2>1, <2>5, <5>1
      <4>3. CASE ~Waiting(d) \/ Waiting(d)'
        <5>1. more <= more2
          BY <1>1, <2>3, <2>4, <4>3
        <5>. QED BY <1>1, <2>1, <2>5, <3>2, <4>1, <5>1
      <4>. QED BY <4>2, <4>3
    <3>. QED BY <2>2, <3>1, <3>2
  <2>7. CASE pc' # "idle"
    BY <2>4, <2>6, <2>7 DEF AgeBounded
  <2>8. CASE pc' = "idle"
    <3>1. FinishCycle
      BY <1>3, <2>8
         DEF Progress, Step, MissRun, SkipDataset, PaceDataset, StampAttempt, Acquire, Answered,
             Retry, NextAttempt, FetchFails, DatasetDone
    <3>2. position > Len(Registry) /\ position' = position
      BY <3>1 DEF FinishCycle, loopVars
    <3>3. ~Waiting(d)'
      <4>1. ASSUME NEW i \in DOMAIN Registry PROVE ~(position < i \/ position = i)
        BY <3>2, <4>1, Constants DEF ScheduleType, TypeOK
      <4>. QED BY <3>2, <4>1 DEF Waiting
    <3>4. since'[d] + CycleRest' <= Allowed(d)' + LongestCycle + 0
      BY <2>4, <2>6, <3>3
    <3>5. since'[d] \in Nat /\ CyclePeriod - untilRun' \in Nat
      <4>1. since'[d] \in Nat
        BY <2>1, <2>2
      <4>2. PICK u : u = untilRun'
        OBVIOUS
      <4>3. u \in 0..CyclePeriod
        BY <1>3, <4>2
      <4>4. CyclePeriod \in Nat
        BY Constants
      <4>5. CyclePeriod - u \in Nat
        BY <4>3, <4>4
      <4>. QED BY <4>1, <4>2, <4>5
    <3>6. PICK left : left = CyclePeriod - untilRun'
      OBVIOUS
    <3>7. since'[d] <= Allowed(d)' + LongestCycle + left
      BY <1>1, <2>1, <3>4, <3>5, <3>6
    <3>8. since'[d] <= Allowed(d)' + LongestCycle + CyclePeriod - untilRun'
      BY <1>1, <1>3, <2>1, <3>6, <3>7
    <3>. QED BY <2>8, <3>8 DEF AgeBounded
  <2>. QED BY <2>7, <2>8
<1>. QED BY <1>2, <1>4 DEF StaleInv

\* Time passes, and the rest of the cycle with it.
LEMMA TickBounded ==
  ASSUME ScheduleType, ScheduleType', StaleInv, Tick
  PROVE  StaleInv'
<1>1. /\ since \in [Datasets -> 0..Horizon] /\ untilRun \in 0..CyclePeriod /\ untilRun > 0
      /\ LongestCycle \in Nat /\ CyclePeriod \in Nat /\ Horizon \in Nat
      /\ CycleRest \in Nat /\ CycleRest <= LongestCycle
  BY RestAt, Times, Constants DEF ScheduleType, TypeOK, Tick, StaleInv
<1>2. /\ UNCHANGED <<pc, due, position>> /\ untilRun' = untilRun - 1
      /\ \A d \in Datasets : since'[d] = Older(since[d])
  BY DEF Tick, loopVars
<1>3. ASSUME NEW d \in Datasets, since'[d] # Horizon
      PROVE  since[d] # Horizon /\ since'[d] = since[d] + 1 /\ since[d] \in Nat
  BY <1>1, <1>2, <1>3 DEF Older
<1>4. ASSUME NEW d \in Datasets
      PROVE  /\ DueAge(d) \in Nat /\ excused[d] \in Nat /\ excused'[d] \in Nat
             /\ Allowed(d) = DueAge(d) + excused[d] /\ Allowed(d)' = DueAge(d) + excused'[d]
             /\ excused'[d] >= excused[d]
             /\ pc = "backoff" /\ Overdue(d) => excused'[d] = excused[d] + 1
  <2>1. Excuse(IF pc = "backoff" THEN Datasets ELSE {}, 1)
    BY DEF Tick
  <2>2. excused'[d] \in Nat /\ excused'[d] >= excused[d]
        /\ (pc = "backoff" /\ Overdue(d) => excused'[d] = excused[d] + 1)
    BY <2>1, Excused DEF ScheduleType
  <2>. QED BY <2>2, DueAges, Allowances DEF ScheduleType, Allowed, DueAge
<1>5. CASE pc = "idle"
  <2>1. CycleRest' = 0
    BY <1>2, <1>5 DEF CycleRest
  <2>2. ASSUME NEW d \in Datasets, since'[d] # Horizon PROVE AgeBounded(d)'
    <3>1. since[d] <= Allowed(d) + LongestCycle + CyclePeriod - untilRun
      BY <1>3, <1>5, <2>2 DEF StaleInv, AgeBounded
    <3>2. since'[d] <= Allowed(d)' + LongestCycle + CyclePeriod - untilRun'
      BY <1>1, <1>2, <1>3, <1>4, <2>2, <3>1
    <3>. QED BY <1>2, <1>5, <3>2 DEF AgeBounded
  <2>. QED BY <1>1, <2>1, <2>2 DEF StaleInv
<1>6. CASE pc \notin {"idle", "backoff"}
  <2>1. CycleRest' + 1 = CycleRest /\ CycleRest' \in Nat
    BY <1>6, RestOfTick
  <2>2. ASSUME NEW d \in Datasets, since'[d] # Horizon PROVE AgeBounded(d)'
    <3>1. PICK more : more = IF Waiting(d) THEN CyclePeriod + LongestCycle ELSE 0
      OBVIOUS
    <3>2. since[d] + CycleRest <= Allowed(d) + LongestCycle + more
      BY <1>3, <1>6, <2>2, <3>1 DEF StaleInv, AgeBounded
    <3>3. since'[d] + CycleRest' <= Allowed(d)' + LongestCycle + more
      <4>1. PICK c : c = CycleRest'
        OBVIOUS
      <4>2. c \in Nat /\ c + 1 = CycleRest /\ since'[d] = since[d] + 1 /\ since[d] \in Nat
        BY <1>3, <2>1, <2>2, <4>1
      <4>3. since'[d] + c = since[d] + CycleRest
        BY <4>2
      <4>4. PICK x : x = LongestCycle + more
        OBVIOUS
      <4>5. x \in Nat /\ since'[d] + c <= Allowed(d) + x
        BY <1>1, <3>1, <3>2, <4>3, <4>4, <1>4, <2>2, <4>2
      <4>6. since'[d] + c <= Allowed(d)' + x
        BY <1>4, <2>2, <4>2, <4>5
      <4>7. Allowed(d)' \in Nat /\ more \in Nat
        BY <1>1, <1>4, <3>1
      <4>. QED BY <1>1, <4>1, <4>4, <4>6, <4>7
    <3>4. Waiting(d)' = Waiting(d)
      BY <1>2 DEF Waiting
    <3>. QED BY <1>2, <1>6, <3>1, <3>3, <3>4 DEF AgeBounded
  <2>3. CycleRest' <= LongestCycle
    <3>1. PICK c : c = CycleRest'
      OBVIOUS
    <3>2. c \in Nat /\ c + 1 = CycleRest
      BY <2>1, <3>1
    <3>3. CycleRest <= LongestCycle /\ LongestCycle \in Nat
      BY <1>1
    <3>. QED BY <3>1, <3>2, <3>3
  <2>. QED BY <2>2, <2>3 DEF StaleInv
<1>7. CASE pc = "backoff"
  <2>1. CycleRest' = CycleRest
    BY <1>2, <1>7 DEF Tick, CycleRest, FetchRest
  <2>2. ASSUME NEW d \in Datasets, since'[d] # Horizon PROVE AgeBounded(d)'
    <3>1. PICK more : more = IF Waiting(d) THEN CyclePeriod + LongestCycle ELSE 0
      OBVIOUS
    <3>2. since[d] + CycleRest <= Allowed(d) + LongestCycle + more /\ more \in Nat
      BY <1>1, <1>3, <1>7, <2>2, <3>1 DEF StaleInv, AgeBounded
    <3>3. since'[d] + CycleRest <= Allowed(d)' + LongestCycle + more
      <4>1. CASE Overdue(d)
        BY <1>1, <1>3, <1>4, <1>7, <2>2, <3>2, <4>1
      <4>2. CASE ~Overdue(d)
        <5>1. ~(since[d] >= DueAge(d))
          BY <1>3, <2>2, <4>2 DEF Overdue, DueAge
        <5>. QED BY <1>1, <1>3, <1>4, <2>2, <3>2, <5>1
      <4>. QED BY <4>1, <4>2
    <3>4. Waiting(d)' = Waiting(d)
      BY <1>2 DEF Waiting
    <3>. QED BY <1>2, <1>7, <2>1, <3>1, <3>3, <3>4 DEF AgeBounded
  <2>. QED BY <1>1, <2>1, <2>2 DEF StaleInv
<1>. QED BY <1>5, <1>6, <1>7

\* Every step keeps the ages bounded.
LEMMA StaleStep ==
  ASSUME ScheduleType, StaleInv, [Next]_vars PROVE StaleInv'
<1>1. ScheduleType'
  BY StepScheduleType
<1>2. CASE StartCycle
  BY <1>2, StartBounded
<1>3. CASE Progress
  BY <1>1, <1>3, StepBounded
<1>4. CASE Tick
  BY <1>1, <1>4, TickBounded
<1>5. CASE Restart
  <2>1. pc' = "idle" /\ \A d \in Datasets : since'[d] = Horizon
    BY <1>5 DEF Restart
  <2>2. CycleRest' = 0 /\ LongestCycle \in Nat
    BY <2>1, Times DEF CycleRest
  <2>. QED BY <2>1, <2>2 DEF StaleInv
<1>6. CASE UNCHANGED vars
  BY <1>6 DEF vars, StaleInv, AgeBounded, Allowed, DueAge, CycleRest, FetchRest, Waiting
<1>7. CASE CycleCannotStart
  BY <1>7, CannotStartBounded
<1>8. CASE AnswerEndsCycle
  BY <1>1, <1>8, AnswerEndsBounded
<1>. QED BY <1>2, <1>3, <1>4, <1>5, <1>6, <1>7, <1>8 DEF Next, Progress

\* Ages bounded by where the cycle is are bounded.
LEMMA StaleIsBounded ==
  ASSUME ScheduleType, StaleInv PROVE StalenessBounded
<1> SUFFICES ASSUME NEW d \in Datasets, since[d] # Horizon
             PROVE  since[d] <= DueAge(d) + LongestCycle + CyclePeriod + LongestCycle + excused[d]
  BY DEF StalenessBounded, DueAge
<1>1. /\ LongestCycle \in Nat /\ CyclePeriod \in Nat /\ DueAge(d) \in Nat /\ excused[d] \in Nat
      /\ Allowed(d) = DueAge(d) + excused[d] /\ CycleRest \in Nat
      /\ untilRun \in 0..CyclePeriod /\ since[d] \in Nat
  <2>1. CycleRest \in Nat
    BY RestAt
  <2>2. excused[d] \in Nat /\ Allowed(d) = DueAge(d) + excused[d]
    BY Allowances DEF ScheduleType
  <2>. QED BY <2>1, <2>2, Times, Constants, DueAges DEF ScheduleType, TypeOK
<1>2. AgeBounded(d)
  BY DEF StaleInv
<1>3. CASE pc = "idle"
  BY <1>1, <1>2, <1>3 DEF AgeBounded
<1>4. CASE pc # "idle"
  <2>1. PICK more : more = IF Waiting(d) THEN CyclePeriod + LongestCycle ELSE 0
    OBVIOUS
  <2>2. since[d] + CycleRest <= Allowed(d) + LongestCycle + more
    BY <1>2, <1>4, <2>1 DEF AgeBounded
  <2>3. more \in Nat /\ more <= CyclePeriod + LongestCycle
    BY <1>1, <2>1
  <2>. QED BY <1>1, <2>2, <2>3
<1>. QED BY <1>3, <1>4

\* No dataset starves: for any registry, cadences, failures and delays before retries
\* it is attempted again within its interval, a period and two of the longest cycles,
\* and what it was excused for: the delays while it was overdue and the turns lost to
\* cycles that could not start or were cut (run_ingestion_cycle, _should_poll,
\* fetch_data).
THEOREM StalenessCorrect == Spec => []StalenessBounded
<1>1. Init => ScheduleType /\ StaleInv
  <2> SUFFICES ASSUME Init PROVE ScheduleType /\ StaleInv
    OBVIOUS
  <2>1. CycleRest = 0 /\ LongestCycle \in Nat
    BY Times DEF Init, CycleRest
  <2>2. \A d \in Datasets : since[d] = Horizon
    BY DEF Init
  <2>. QED BY <2>1, <2>2, InitScheduleType DEF StaleInv
<1>2. ScheduleType /\ StaleInv /\ [Next]_vars => ScheduleType' /\ StaleInv'
  BY StepScheduleType, StaleStep
<1>3. ScheduleType /\ StaleInv => StalenessBounded
  BY StaleIsBounded
<1>. QED BY <1>1, <1>2, <1>3, PTL DEF Spec

=============================================================================
