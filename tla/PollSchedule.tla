----------------------------- MODULE PollSchedule -----------------------------
(***************************************************************************)
(* When the ingestor requests a dataset (services/ingestor/main.py and the *)
(* client of shared/base_ingestor.py).                                     *)
(*                                                                         *)
(* A cycle runs every CyclePeriod.  It decides at its start which datasets *)
(* are due, then requests them one after the other, pausing between two of *)
(* them; each request waits for a token and is retried after a delay.  The *)
(* attempt is stamped when a dataset's turn comes, which retries of the    *)
(* datasets before it can push far into the cycle.                         *)
(*                                                                         *)
(* Time is discrete and relative: since[d] is the age of dataset d's stamp *)
(* in _last_poll_attempt, wait and untilRun count down.  An age stays at   *)
(* Horizon once it gets there, which is also the age of a dataset without  *)
(* a stamp: both are due.  What a fetch leaves in the database is in       *)
(* MarketHistory.                                                          *)
(*                                                                         *)
(* excused is a history variable: the delay that is not the loop's doing.  *)
(***************************************************************************)
EXTENDS Integers, Sequences

CONSTANTS
  Registry,       \* DATASETS: the names, in the order the cycle goes through them
  Cadence,        \* update_frequency in time units; 0 if absent or unparseable
  CyclePeriod,    \* INGESTION_INTERVAL_MINUTES, and MIN_POLL_INTERVAL_SECONDS
  POLLS_PER_UPDATE_FREQUENCY,  \* 4 in the code
  RATE_LIMIT,     \* RATE_LIMIT_SECONDS
  MaxAttempts,    \* stop_after_attempt: 5 in the code
  RetryWaits,     \* delays before a retry: exponential, or what a 429 asks for
  RequestTime,    \* the longest a request can take (the client's timeout)
  TokenCost,      \* time in which the bucket refills one token
  Capacity,       \* the bucket's capacity, in the same unit
  Horizon,        \* bound: the greatest age told apart
  MaxExcused      \* bound: no turn is lost once a dataset is excused for longer

Datasets == {Registry[i] : i \in DOMAIN Registry}

\* POLL_DUE_TOLERANCE_SECONDS
Tolerance == CyclePeriod \div 2

\* poll_interval_seconds
PollInterval(d) ==
  IF Cadence[d] \div POLLS_PER_UPDATE_FREQUENCY > CyclePeriod
  THEN Cadence[d] \div POLLS_PER_UPDATE_FREQUENCY
  ELSE CyclePeriod

ASSUME ScheduleAssumption ==
  /\ Registry \in Seq(Datasets)
  /\ \A i, j \in DOMAIN Registry : Registry[i] = Registry[j] => i = j
  /\ Cadence \in [Datasets -> Nat]
  /\ CyclePeriod \in Nat \ {0}
  /\ POLLS_PER_UPDATE_FREQUENCY \in Nat \ {0}
  /\ {RATE_LIMIT, RequestTime, TokenCost, Capacity} \subseteq Nat
  /\ TokenCost <= Capacity
  /\ MaxAttempts \in Nat \ {0}
  /\ RetryWaits \subseteq Nat
  /\ {Horizon, MaxExcused} \subseteq Nat
  /\ \A d \in Datasets : PollInterval(d) \in 0..Horizon

VARIABLES
  since,      \* the age of each dataset's last attempt
  untilRun,   \* time until the scheduler fires again
  pc,         \* where the running cycle is
  due,        \* due_names
  position,   \* the loop over DATASETS
  requested,  \* requested_this_cycle
  attempt,    \* tenacity's attempt number
  wait,       \* what is left of the current sleep or request
  tokens,     \* the bucket of this cycle's client, in refill time
  excused     \* history: since its last attempt, what an overdue dataset lost to
              \* turns it did not get and to delays before other datasets' retries

vars == <<since, untilRun, pc, due, position, requested, attempt, wait, tokens, excused>>
loopVars == <<due, position, requested>>

PCs == {"idle", "looping", "pacing", "acquiring", "requesting", "backoff"}

TypeOK ==
  /\ since \in [Datasets -> 0..Horizon]
  /\ untilRun \in 0..CyclePeriod
  /\ pc \in PCs
  /\ due \subseteq Datasets
  /\ position \in 1..(Len(Registry) + 1)
  /\ requested \in Nat
  /\ attempt \in 0..MaxAttempts
  /\ wait \in Nat
  /\ tokens \in 0..Capacity
  /\ excused \in [Datasets -> Nat]

Current == Registry[position]

Init ==
  /\ since = [d \in Datasets |-> Horizon]
  /\ untilRun = 0
  /\ pc = "idle"
  /\ due = {}
  /\ position = Len(Registry) + 1
  /\ requested = 0
  /\ attempt = 0
  /\ wait = 0
  /\ tokens = Capacity
  /\ excused = [d \in Datasets |-> 0]

-----------------------------------------------------------------------------

\* Mutant of ShouldPoll: the slack is a whole cycle.
ShouldPollEarly(d) == since[d] >= PollInterval(d) - CyclePeriod

\* _should_poll
ShouldPoll(d) == since[d] >= PollInterval(d) - Tolerance

\* The longest a cycle can last, the delays before retries apart: every dataset
\* due, every attempt failing late.
LongestFetch == MaxAttempts * (RequestTime + TokenCost)
LongestCycle == Len(Registry) * (RATE_LIMIT + LongestFetch)

\* A dataset is past its interval; one that was never attempted has no age.
Overdue(d) == since[d] >= PollInterval(d) - Tolerance /\ since[d] # Horizon

\* The datasets in ds lose t through no fault of the loop.
Excuse(ds, t) ==
  excused' = [d \in Datasets |-> excused[d] + IF d \in ds /\ Overdue(d) THEN t ELSE 0]

\* Outages are bounded: no dataset has been excused for longer than MaxExcused.
MayLoseTurn == \A d \in Datasets : excused[d] <= MaxExcused

\* The scheduler fires while no cycle runs: run_ingestion_cycle, with a new client.
StartCycle ==
  /\ pc = "idle"
  /\ untilRun = 0
  /\ untilRun' = CyclePeriod
  /\ pc' = "looping"
  /\ due' = {d \in Datasets : ShouldPoll(d)}
  /\ position' = 1
  /\ requested' = 0
  /\ tokens' = Capacity
  /\ UNCHANGED <<since, attempt, wait, excused>>

\* DatabaseManager() raises before the loop's try: no dataset gets a turn, nothing is
\* stamped, and the scheduler fires again a period later.
CycleCannotStart ==
  /\ pc = "idle"
  /\ untilRun = 0
  /\ MayLoseTurn
  /\ untilRun' = CyclePeriod
  /\ Excuse(Datasets, CyclePeriod)
  /\ UNCHANGED <<since, pc, loopVars, attempt, wait, tokens>>

\* External: the scheduler fires while the last cycle still runs, and skips the
\* run (one instance of the job at a time).
MissRun ==
  /\ pc # "idle"
  /\ untilRun = 0
  /\ untilRun' = CyclePeriod
  /\ UNCHANGED <<since, pc, loopVars, attempt, wait, tokens, excused>>

SkipDataset ==
  /\ pc = "looping"
  /\ position <= Len(Registry)
  /\ Current \notin due
  /\ position' = position + 1
  /\ UNCHANGED <<since, untilRun, pc, due, requested, attempt, wait, tokens, excused>>

\* A due dataset's turn: a pause, unless it is the first request of the cycle.
PaceDataset ==
  /\ pc = "looping"
  /\ position <= Len(Registry)
  /\ Current \in due
  /\ pc' = "pacing"
  /\ wait' = IF requested > 0 THEN RATE_LIMIT ELSE 0
  /\ requested' = requested + 1
  /\ UNCHANGED <<since, untilRun, due, position, attempt, tokens, excused>>

\* The attempt is stamped, and fetch_data begins.
StampAttempt ==
  /\ pc = "pacing"
  /\ wait = 0
  /\ since' = [since EXCEPT ![Current] = 0]
  /\ excused' = [excused EXCEPT ![Current] = 0]
  /\ attempt' = 1
  /\ pc' = "acquiring"
  /\ UNCHANGED <<untilRun, loopVars, wait, tokens>>

\* TokenBucket.acquire, and the request is sent.
Acquire ==
  /\ pc = "acquiring"
  /\ tokens >= TokenCost
  /\ tokens' = tokens - TokenCost
  /\ pc' = "requesting"
  /\ wait' = RequestTime
  /\ UNCHANGED <<since, untilRun, loopVars, attempt, excused>>

\* The dataset is done with: saved, empty, or failed for good.
DatasetDone ==
  /\ pc' = "looping"
  /\ position' = position + 1
  /\ attempt' = 0
  /\ wait' = 0
  /\ UNCHANGED <<since, untilRun, due, requested, tokens, excused>>

\* An answer: save_market_data, whose failure is logged; no records; or an answer
\* that cannot be read, an error that is logged and not retried.
Answered == pc = "requesting" /\ DatasetDone

\* A JSON answer that is not an object: data.get raises outside the dataset's try,
\* and the datasets still to come lose this turn.
AnswerEndsCycle ==
  /\ pc = "requesting"
  /\ MayLoseTurn
  /\ pc' = "idle"
  /\ position' = Len(Registry) + 1
  /\ attempt' = 0
  /\ wait' = 0
  /\ Excuse({Registry[i] : i \in (position + 1)..Len(Registry)} \cap due,
            CyclePeriod + LongestCycle)
  /\ UNCHANGED <<since, untilRun, due, requested, tokens>>

\* An error or a timeout, with attempts left.
Retry ==
  /\ pc = "requesting"
  /\ attempt < MaxAttempts
  /\ \E w \in RetryWaits : wait' = w
  /\ pc' = "backoff"
  /\ UNCHANGED <<since, untilRun, loopVars, attempt, tokens, excused>>

NextAttempt ==
  /\ pc = "backoff"
  /\ wait = 0
  /\ attempt' = attempt + 1
  /\ pc' = "acquiring"
  /\ UNCHANGED <<since, untilRun, loopVars, wait, tokens, excused>>

\* Mutant of FetchFails: the failure ends the cycle.
FetchAborts ==
  /\ pc = "requesting"
  /\ attempt = MaxAttempts
  /\ pc' = "looping"
  /\ position' = Len(Registry) + 1
  /\ attempt' = 0
  /\ wait' = 0
  /\ UNCHANGED <<since, untilRun, due, requested, tokens, excused>>

\* The last attempt failed: logged, and on to the next dataset.
FetchFails ==
  /\ pc = "requesting"
  /\ attempt = MaxAttempts
  /\ DatasetDone

FinishCycle ==
  /\ pc = "looping"
  /\ position > Len(Registry)
  /\ pc' = "idle"
  /\ UNCHANGED <<since, untilRun, loopVars, attempt, wait, tokens, excused>>

\* The service stops and comes back: the stamps are gone, a cycle runs at once.
Restart ==
  /\ since' = [d \in Datasets |-> Horizon]
  /\ untilRun' = 0
  /\ pc' = "idle"
  /\ due' = {}
  /\ position' = Len(Registry) + 1
  /\ requested' = 0
  /\ attempt' = 0
  /\ wait' = 0
  /\ tokens' = Capacity
  /\ excused' = [d \in Datasets |-> 0]

Older(age) == IF age < Horizon THEN age + 1 ELSE Horizon

\* Time passes while the service sleeps: between cycles, in a pause, before a
\* retry, for a token, or for an answer until the timeout.  Nothing else takes time.
Asleep ==
  \/ pc = "idle"
  \/ pc \in {"pacing", "backoff", "requesting"} /\ wait > 0
  \/ pc = "acquiring" /\ tokens < TokenCost

Tick ==
  /\ untilRun > 0
  /\ Asleep
  /\ since' = [d \in Datasets |-> Older(since[d])]
  /\ untilRun' = untilRun - 1
  /\ wait' = IF wait > 0 THEN wait - 1 ELSE 0
  /\ tokens' = IF tokens < Capacity THEN tokens + 1 ELSE Capacity
  /\ Excuse(IF pc = "backoff" THEN Datasets ELSE {}, 1)
  /\ UNCHANGED <<pc, loopVars, attempt>>

Step ==
  \/ StartCycle \/ CycleCannotStart \/ MissRun \/ SkipDataset \/ PaceDataset
  \/ StampAttempt \/ Acquire \/ Answered \/ AnswerEndsCycle \/ Retry \/ NextAttempt
  \/ FetchFails \/ FinishCycle

Next == Step \/ Tick \/ Restart

Spec == Init /\ [][Next]_vars

-----------------------------------------------------------------------------

\* A dataset is never requested before its interval has passed, give or take the
\* tolerance, since its last attempt (_should_poll; "far too narrow to let a
\* 6h-interval dataset come due a cycle early").  A restart forgets the attempts.
NeverEarly ==
  [][\A d \in Datasets :
       since'[d] < since[d] => since[d] >= PollInterval(d) - Tolerance]_vars

\* Failed fetches and saves, retries, missed runs and pauses starve no dataset: once
\* due it is attempted within the running cycle's rest, one period and one cycle
\* ("staleness here is bounded delay").  Two things can delay it further, and are
\* counted: the delays asked for before retries, which nothing bounds, and a turn lost
\* with a cycle that could not start or that a malformed answer ended.  Ages of
\* datasets never attempted do not count.
StalenessBounded ==
  \A d \in Datasets : since[d] # Horizon =>
    since[d] <= PollInterval(d) - Tolerance + LongestCycle + CyclePeriod + LongestCycle
                  + excused[d]
=============================================================================
