----------------------------- MODULE BessProofs -----------------------------
(***************************************************************************)
(* Proofs about BessBacktest, for every configuration and every series: a  *)
(* threshold run decides, and divides its reserve, on the past alone;      *)
(* either engine keeps the battery within its usable band and the rolling  *)
(* day within the cycle cap, and sells its power once; a plan delivers the *)
(* reserve it sells, and is reported to be worth what it was chosen for.   *)
(***************************************************************************)
EXTENDS BessBacktest, BessSeriesProofs

-----------------------------------------------------------------------------
(* Decisions of a threshold run.                                           *)

\* A threshold run has one tick for each period it has passed, and its history is the
\* newest of their prices.
HistoryIsThePast ==
  config.strategy = "threshold" =>
    /\ position \in Nat \ {0}
    /\ Len(ticks) = position - 1 /\ DOMAIN ticks = 1..(position - 1)
    /\ ticks = [k \in 1..(position - 1) |-> ticks[k]]
    /\ history = Newest(PricesBefore(position), config.lookback)

DecideInv == config.lookback \in Nat /\ HistoryIsThePast /\ DecidesOnThePast

\* What a period does, if anything, is what the z-score against the history says.
LEMMA MoveFollowsStance ==
  ASSUME NEW t, NEW x, NEW length, Move(t, x, length).action # "idle"
  PROVE  Move(t, x, length).action = Stance(history, x, config.threshold2)
<1> DEFINE stance == Stance(history, x, config.threshold2)
<1>1. Idle.action = "idle"
  BY DEF Idle
<1>2. CASE stance = "charge"
  <2>1. Move(t, x, length) = ChargeMove(x, length)
    BY <1>2 DEF Move
  <2>2. ChargeMove(x, length).action \in {"idle", "charge"}
    BY DEF ChargeMove, Idle
  <2>. QED BY <1>2, <2>1, <2>2
<1>3. CASE stance = "discharge"
  <2>1. Move(t, x, length) = DischargeMove(t, x, length)
    BY <1>3 DEF Move
  <2>2. DischargeMove(t, x, length).action \in {"idle", "discharge"}
    BY DEF DischargeMove, Idle
  <2>. QED BY <1>3, <2>1, <2>2
<1>4. CASE stance \notin {"charge", "discharge"}
  BY <1>1, <1>4 DEF Move
<1>. QED BY <1>2, <1>3, <1>4

LEMMA DecideInit == Init => DecideInv
<1> SUFFICES ASSUME Init PROVE DecideInv
  OBVIOUS
<1>1. config.lookback \in Nat
  BY WindowAssumption DEF Init, config
<1>2. position = 1 /\ ticks = << >> /\ history = << >>
  BY DEF Init
<1>3. PricesBefore(1) = << >>
  BY DEF PricesBefore
<1>4. Newest(<< >>, config.lookback) = << >>
  BY <1>1 DEF Newest
<1>5. HistoryIsThePast
  BY <1>2, <1>3, <1>4 DEF HistoryIsThePast
<1>6. DecidesOnThePast
  BY <1>2 DEF DecidesOnThePast
<1>. QED BY <1>1, <1>5, <1>6 DEF DecideInv

LEMMA TickKeepsDecideInv == DecideInv /\ Tick => DecideInv'
<1> SUFFICES ASSUME DecideInv, Tick PROVE DecideInv'
  OBVIOUS
<1>0. PICK n : n = position - 1
  OBVIOUS
<1> DEFINE t == w.times[position]
           x == w.price[t]
           length == Length(w, position)
           move == Move(t, x, length)
<1>1. /\ config.strategy = "threshold" /\ config' = config
      /\ position' = position + 1
      /\ history' = Newest(Append(history, x), config.lookback)
  BY DEF Tick, config
<1>2. PICK r : /\ ticks' = Append(ticks, r)
               /\ r.price = x /\ r.action = move.action
  <2> DEFINE r == BessTick(t, x, length, move)
  <2>1. ticks' = Append(ticks, r)
    BY DEF Tick
  <2>2. r.price = x /\ r.action = move.action
    BY DEF BessTick
  <2>. QED BY <2>1, <2>2
<1>3. /\ config.lookback \in Nat
      /\ n \in Nat /\ position = n + 1
      /\ Len(ticks) = n /\ DOMAIN ticks = 1..n
      /\ ticks = [k \in 1..n |-> ticks[k]]
      /\ history = Newest(PricesBefore(position), config.lookback)
  BY <1>0, <1>1 DEF DecideInv, HistoryIsThePast
<1> HIDE DEF t, x, length, move
<1>4. /\ Len(ticks') = n + 1 /\ DOMAIN ticks' = 1..(n + 1)
      /\ ticks' = [k \in 1..(n + 1) |-> ticks'[k]]
      /\ ticks'[n + 1] = r
      /\ \A k \in 1..n : ticks'[k] = ticks[k]
  BY <1>2, <1>3, LogGrows
<1>5. \A k \in 1..(n + 1) : PricesBefore(k)' = PricesBefore(k)
  BY <1>3, <1>4 DEF PricesBefore
<1>6. PricesBefore(n + 2)' = Append(PricesBefore(n + 1), x)
  <2> DEFINE S == {ticks[k].price : k \in 1..n} \cup {x}
             before == PricesBefore(n + 1)
             after == PricesBefore(n + 2)'
  <2>1. before \in Seq(S) /\ Len(before) = n /\ x \in S
        /\ \A k \in 1..n : before[k] = ticks[k].price
    <3>1. before = [k \in 1..n |-> ticks[k].price]
      BY <1>3 DEF PricesBefore
    <3>. QED BY <1>3, <3>1, IsASeq
  <2>2. after = [k \in 1..(n + 1) |-> ticks'[k].price]
    BY <1>3 DEF PricesBefore
  <2>3. \A k \in 1..(n + 1) : after[k] \in S
    BY <1>2, <1>3, <1>4, <2>2
  <2>4. after \in Seq(S) /\ Len(after) = n + 1
    BY <1>3, <2>2, <2>3, IsASeq
  <2>5. /\ Append(before, x) \in Seq(S) /\ Len(Append(before, x)) = n + 1
        /\ Append(before, x)[n + 1] = x
        /\ \A k \in 1..n : Append(before, x)[k] = before[k]
    <3> HIDE DEF before, S
    <3>. QED BY <2>1, AppendProperties
  <2>6. \A k \in 1..(n + 1) : after[k] = Append(before, x)[k]
    BY <1>2, <1>3, <1>4, <2>1, <2>2, <2>5
  <2> HIDE DEF before, after, S
  <2>7. after = Append(before, x)
    BY <1>3, <2>4, <2>5, <2>6, SeqEqual
  <2>. QED BY <2>7 DEF before, after
<1>7. history' = Newest(PricesBefore(n + 2)', config.lookback)
  <2> DEFINE S == {ticks[k].price : k \in 1..n} \cup {x}
             before == PricesBefore(n + 1)
  <2>1. before \in Seq(S) /\ x \in S
    <3>1. before = [k \in 1..n |-> ticks[k].price]
      BY <1>3 DEF PricesBefore
    <3>. QED BY <1>3, <3>1, IsASeq
  <2> HIDE DEF S, before
  <2>2. Newest(Append(Newest(before, config.lookback), x), config.lookback)
          = Newest(Append(before, x), config.lookback)
    BY <1>3, <2>1, NewestSlides
  <2>. QED BY <1>1, <1>3, <1>6, <2>2 DEF before
<1>8. HistoryIsThePast'
  <2>1. position' = n + 2
    BY <1>1, <1>3
  <2>2. PricesBefore(position)' = PricesBefore(n + 2)'
    BY <2>1 DEF PricesBefore
  <2>3. history' = Newest(PricesBefore(position)', config'.lookback)
    BY <1>1, <1>7, <2>2
  <2>. QED BY <1>3, <1>4, <2>1, <2>3 DEF HistoryIsThePast
<1>9. DecidesOnThePast'
  <2>1. ASSUME NEW k \in 1..(n + 1), ticks'[k].action # "idle"
        PROVE  Stance(Newest(PricesBefore(k), config.lookback), ticks'[k].price,
                      config.threshold2) = ticks'[k].action
    <3>1. CASE k = n + 1
      <4>1. move.action = Stance(history, x, config.threshold2)
        BY <1>2, <1>4, <2>1, <3>1, MoveFollowsStance DEF move
      <4>. QED BY <1>2, <1>3, <1>4, <3>1, <4>1
    <3>2. CASE k \in 1..n
      <4>1. ticks'[k] = ticks[k]
        BY <1>4, <3>2
      <4>. QED BY <1>1, <1>3, <2>1, <3>2, <4>1 DEF DecideInv, DecidesOnThePast
    <3>. QED BY <1>3, <3>1, <3>2
  <2>2. \A k \in 1..(n + 1) :
          ticks'[k].action # "idle" =>
            Stance(Newest(PricesBefore(k)', config'.lookback), ticks'[k].price,
                   config'.threshold2) = ticks'[k].action
    BY <1>1, <1>5, <2>1
  <2>. QED BY <1>4, <2>2 DEF DecidesOnThePast
<1>. QED BY <1>1, <1>3, <1>8, <1>9 DEF DecideInv

LEMMA StepKeepsDecideInv == DecideInv /\ [Next]_vars => DecideInv'
<1> SUFFICES ASSUME DecideInv, [Next]_vars PROVE DecideInv'
  OBVIOUS
<1>1. CASE Tick
  BY <1>1, TickKeepsDecideInv
<1>2. CASE Dispatch
  <2>1. config' = config /\ config.strategy # "threshold"
    BY <1>2 DEF Dispatch, config
  <2>. QED BY <2>1 DEF DecideInv, HistoryIsThePast, DecidesOnThePast
<1>3. CASE UNCHANGED vars
  BY <1>3 DEF vars, DecideInv, HistoryIsThePast, DecidesOnThePast, PricesBefore, config
<1>. QED BY <1>1, <1>2, <1>3 DEF Next

\* Nothing a threshold run does in a period depends on a later price: its action is the
\* z-score of the period's price against the newest prices of the periods before it.
THEOREM ThresholdIsCausal == Spec => []DecidesOnThePast
<1>1. Init => DecideInv
  BY DecideInit
<1>2. DecideInv /\ [Next]_vars => DecideInv'
  BY StepKeepsDecideInv
<1>3. DecideInv => DecidesOnThePast
  BY DEF DecideInv
<1>. QED BY <1>1, <1>2, <1>3, PTL DEF Spec

-----------------------------------------------------------------------------
(* The discharge window.                                                   *)

Entry == [time : Int, amount : Nat]
Amounts(window) == [m \in DOMAIN window |-> window[m].amount]
Fresh(window, c) == {m \in DOMAIN window : window[m].time >= c}
Booked(window, c) == SumFunctionOnSet(Amounts(window), Fresh(window, c))

LEMMA EntryFacts ==
  ASSUME NEW window \in Seq(Entry), NEW c \in Int
  PROVE  /\ Len(window) \in Nat /\ DOMAIN window = 1..Len(window)
         /\ \A m \in DOMAIN window : window[m].time \in Int /\ window[m].amount \in Nat
         /\ IsFiniteSet(DOMAIN window) /\ OnInts(Amounts(window), DOMAIN window)
         /\ IsFiniteSet(Fresh(window, c)) /\ OnInts(Amounts(window), Fresh(window, c))
         /\ Fresh(window, c) \subseteq DOMAIN window
         /\ Booked(window, c) \in Int
<1>1. Len(window) \in Nat /\ DOMAIN window = 1..Len(window)
  BY LenProperties
<1>2. \A m \in DOMAIN window : window[m].time \in Int /\ window[m].amount \in Nat
  <2>1. \A m \in 1..Len(window) : window[m] \in Entry
    BY ElementOfSeq
  <2>. QED BY <1>1, <2>1 DEF Entry
<1>3. IsFiniteSet(DOMAIN window) /\ OnInts(Amounts(window), DOMAIN window)
  <2>1. IsFiniteSet(1..Len(window))
    BY <1>1, FS_Interval
  <2>. QED BY <1>1, <1>2, <2>1 DEF OnInts, Amounts
<1>4. /\ Fresh(window, c) \subseteq DOMAIN window
      /\ IsFiniteSet(Fresh(window, c)) /\ OnInts(Amounts(window), Fresh(window, c))
  <2>1. Fresh(window, c) \subseteq DOMAIN window
    BY DEF Fresh
  <2>. QED BY <1>3, <2>1, FS_Subset DEF OnInts
<1>5. Booked(window, c) \in Int
  BY <1>4, SumType DEF Booked
<1>. QED BY <1>1, <1>2, <1>3, <1>4, <1>5

\* Dropping what is older than a day leaves what is sold since a later time.
LEMMA PruneKeepsBooked ==
  ASSUME dischargeWindow \in Seq(Entry), NEW t \in Int, NEW c \in Int, c >= t - Day
  PROVE  /\ RecentDischarges(t) \in Seq(Entry)
         /\ Booked(RecentDischarges(t), c) = Booked(dischargeWindow, c)
<1> DEFINE fresh == {k \in DOMAIN dischargeWindow : dischargeWindow[k].time >= t - Day}
           R == RecentDischarges(t)
           n == Len(dischargeWindow)
<1>0. Day \in Int
  BY SeriesAssumption
<1>1. /\ n \in Nat /\ DOMAIN dischargeWindow = 1..n
      /\ \A k \in DOMAIN dischargeWindow : dischargeWindow[k].time \in Int
      /\ Fresh(dischargeWindow, c) \subseteq fresh
  <2>1. \A k \in DOMAIN dischargeWindow : dischargeWindow[k].time \in Int
    BY EntryFacts
  <2>2. Fresh(dischargeWindow, c) \subseteq fresh
    BY <1>0, <2>1 DEF Fresh
  <2>. QED BY <2>1, <2>2, EntryFacts
<1>2. CASE fresh = {}
  <2>1. R = << >>
    BY <1>2 DEF RecentDischarges, Recent
  <2>2. R \in Seq(Entry)
    BY <2>1, EmptySeq
  <2>3. Fresh(R, c) = {} /\ Fresh(dischargeWindow, c) = {}
    BY <1>1, <1>2, <2>1 DEF Fresh
  <2>4. Booked(R, c) = 0 /\ Booked(dischargeWindow, c) = 0
    BY <2>3, FS_EmptySet, SumUnfolds DEF Booked
  <2>. QED BY <2>2, <2>4
<1>3. CASE fresh # {}
  <2>1. PICK i \in fresh : i = Min(fresh) /\ \A k \in fresh : i <= k
    <3>1. fresh \subseteq 1..n
      BY <1>1
    <3>2. \E i \in fresh : \A k \in fresh : i <= k
      <4> HIDE DEF fresh
      <4>. QED BY <1>1, <1>3, <3>1, SmallestNumber
    <3>. QED BY <3>2 DEF Min
  <2>2. i \in 1..n
    BY <1>1, <2>1
  <2>3. R = SubSeq(dischargeWindow, i, n)
    BY <1>3, <2>1 DEF RecentDischarges, Recent
  <2>4. /\ R \in Seq(Entry) /\ Len(R) = n - i + 1
        /\ \A m \in 1..(n - i + 1) : R[m] = dischargeWindow[m + i - 1]
    <3>1. /\ SubSeq(dischargeWindow, i, n) \in Seq(Entry)
          /\ Len(SubSeq(dischargeWindow, i, n)) = n - i + 1
          /\ \A m \in 1..(n - i + 1) : SubSeq(dischargeWindow, i, n)[m] = dischargeWindow[i + m - 1]
      BY <1>1, <2>2, SubSeqProperties
    <3>. QED BY <1>1, <2>2, <2>3, <3>1
  <2> HIDE DEF R
  <2>5. DOMAIN R = 1..(n - i + 1) /\ Fresh(R, c) \subseteq DOMAIN R
        /\ IsFiniteSet(Fresh(R, c)) /\ OnInts(Amounts(R), Fresh(R, c))
    BY <2>4, EntryFacts
  <2> DEFINE name == [m \in 1..(n - i + 1) |-> m + i - 1]
  <2>6. {name[m] : m \in Fresh(R, c)} = Fresh(dischargeWindow, c)
    <3>1. ASSUME NEW m \in Fresh(R, c) PROVE name[m] \in Fresh(dischargeWindow, c)
      BY <1>1, <2>2, <2>4, <2>5 DEF Fresh
    <3>2. ASSUME NEW k \in Fresh(dischargeWindow, c)
          PROVE  \E m \in Fresh(R, c) : name[m] = k
      <4>1. k \in 1..n /\ i <= k /\ dischargeWindow[k].time >= c
        BY <1>1, <2>1 DEF Fresh
      <4>2. k - i + 1 \in 1..(n - i + 1) /\ (k - i + 1) + i - 1 = k
        BY <1>1, <2>2, <4>1
      <4>3. R[k - i + 1] = dischargeWindow[k]
        BY <2>4, <4>2
      <4>4. k - i + 1 \in Fresh(R, c) /\ name[k - i + 1] = k
        BY <2>5, <4>1, <4>2, <4>3 DEF Fresh
      <4>. QED BY <4>4
    <3> HIDE DEF name
    <3>. QED BY <3>1, <3>2
  <2>7. \A m \in Fresh(R, c) : Amounts(dischargeWindow)[name[m]] = Amounts(R)[m]
    BY <1>1, <2>2, <2>4, <2>5 DEF Amounts
  <2>8. \A m, k \in Fresh(R, c) : name[m] = name[k] => m = k
    BY <1>1, <2>2, <2>5
  <2> HIDE DEF name
  <2>9. SumFunctionOnSet(Amounts(dischargeWindow), {name[m] : m \in Fresh(R, c)})
          = SumFunctionOnSet(Amounts(R), Fresh(R, c))
    <3>1. PICK f, g, U : f = Amounts(R) /\ g = Amounts(dischargeWindow) /\ U = Fresh(R, c)
      OBVIOUS
    <3>2. /\ IsFiniteSet(U) /\ OnInts(f, U)
          /\ \A m, k \in U : name[m] = name[k] => m = k
          /\ \A m \in U : g[name[m]] = f[m]
      BY <2>5, <2>7, <2>8, <3>1
    <3>3. SumFunctionOnSet(g, {name[m] : m \in U}) = SumFunctionOnSet(f, U)
      BY <3>2, SumRenamed
    <3>. QED BY <3>1, <3>3
  <2>10. Booked(dischargeWindow, c) = Booked(R, c)
    BY <2>6, <2>9 DEF Booked
  <2>. QED BY <2>4, <2>10 DEF R
<1>. QED BY <1>2, <1>3

\* An entry added to the window counts from its time on.
LEMMA AppendAddsBooked ==
  ASSUME NEW window \in Seq(Entry), NEW e \in Entry, NEW c \in Int
  PROVE  /\ Append(window, e) \in Seq(Entry)
         /\ Booked(Append(window, e), c)
              = Booked(window, c) + IF e.time >= c THEN e.amount ELSE 0
<1> DEFINE longer == Append(window, e)
           n == Len(window)
<1>1. /\ longer \in Seq(Entry) /\ Len(longer) = n + 1
      /\ longer[n + 1] = e /\ \A m \in 1..n : longer[m] = window[m]
  BY AppendProperties
<1>2. /\ n \in Nat /\ DOMAIN window = 1..n
      /\ IsFiniteSet(Fresh(window, c)) /\ OnInts(Amounts(window), Fresh(window, c))
      /\ Booked(window, c) \in Int
  BY EntryFacts
<1> HIDE DEF longer
<1>3. /\ DOMAIN longer = 1..(n + 1)
      /\ IsFiniteSet(Fresh(longer, c)) /\ OnInts(Amounts(longer), Fresh(longer, c))
  BY <1>1, EntryFacts
<1>4. \A m \in Fresh(window, c) : Amounts(window)[m] = Amounts(longer)[m]
  BY <1>1, <1>2, <1>3 DEF Fresh, Amounts
<1>5. SumFunctionOnSet(Amounts(longer), Fresh(window, c)) = Booked(window, c)
  BY <1>2, <1>4, SumSame DEF Booked
<1>6. CASE e.time >= c
  <2>1. n + 1 \in Fresh(longer, c) /\ Fresh(longer, c) \ {n + 1} = Fresh(window, c)
    BY <1>1, <1>2, <1>3, <1>6 DEF Fresh
  <2>2. Booked(longer, c)
          = Amounts(longer)[n + 1] + SumFunctionOnSet(Amounts(longer), Fresh(longer, c) \ {n + 1})
    BY <1>3, <2>1, SumTakes DEF Booked
  <2>3. Amounts(longer)[n + 1] = e.amount /\ e.amount \in Nat
    BY <1>1, <1>2, <1>3 DEF Amounts, Entry
  <2>4. SumFunctionOnSet(Amounts(longer), Fresh(longer, c) \ {n + 1}) = Booked(window, c)
    BY <1>5, <2>1
  <2>5. Booked(longer, c) = Booked(window, c) + e.amount
    BY <1>2, <2>2, <2>3, <2>4
  <2>. QED BY <1>1, <1>6, <2>5 DEF longer
<1>7. CASE ~(e.time >= c)
  <2>1. Fresh(longer, c) = Fresh(window, c)
    BY <1>1, <1>2, <1>3, <1>7 DEF Fresh
  <2>. QED BY <1>1, <1>2, <1>5, <1>7, <2>1 DEF Booked, longer
<1>. QED BY <1>6, <1>7

-----------------------------------------------------------------------------
(* What a record of a run has sold.                                        *)

SoldIn(log, S) == SumFunction([k \in S |-> log[k].discharged])
Counts(log, S) == IsFiniteSet(S) /\ \A k \in S : log[k].discharged \in Nat

\* What was sold is a natural number.
LEMMA SoldType ==
  ASSUME NEW log, NEW S, Counts(log, S)
  PROVE  SoldIn(log, S) \in Nat
<1> DEFINE f == [k \in S |-> log[k].discharged]
<1>1. OnInts(f, S) /\ IsFiniteSet(S) /\ \A k \in S \ {} : f[k] >= 0
  BY DEF OnInts, Counts
<1>2. SoldIn(log, S) = SumFunctionOnSet(f, S)
  BY DEF SoldIn, SumFunction
<1> HIDE DEF f
<1>3. SumFunctionOnSet(f, S) \in Int /\ SumFunctionOnSet(f, {}) <= SumFunctionOnSet(f, S)
  BY <1>1, SumType, SumPart
<1>4. SumFunctionOnSet(f, {}) = 0
  BY FS_EmptySet, SumUnfolds
<1>. QED BY <1>2, <1>3, <1>4

\* A part of the periods sold no more than all of them.
LEMMA SoldPart ==
  ASSUME NEW log, NEW S, Counts(log, S), NEW T \in SUBSET S
  PROVE  SoldIn(log, T) <= SoldIn(log, S)
<1> DEFINE f == [k \in S |-> log[k].discharged]
           g == [k \in T |-> f[k]]
<1>1. OnInts(f, S) /\ OnInts(f, T) /\ IsFiniteSet(S) /\ \A k \in S : f[k] >= 0
  BY DEF OnInts, Counts
<1>2. SoldIn(log, S) = SumFunctionOnSet(f, S) /\ SoldIn(log, T) = SumFunction(g)
  BY DEF SoldIn, SumFunction
<1>3. IsFiniteSet(T)
  BY <1>1, FS_Subset
<1> HIDE DEF f
<1>4. SumFunction(g) = SumFunctionOnSet(f, T)
  BY <1>1, <1>3, SumRestricted
<1>5. SumFunctionOnSet(f, T) <= SumFunctionOnSet(f, S)
  BY <1>1, SumPart
<1>. QED BY <1>2, <1>4, <1>5

\* A period adds what it sold.
LEMMA SoldWith ==
  ASSUME NEW log, NEW S, Counts(log, S), NEW u \in S
  PROVE  SoldIn(log, S) = log[u].discharged + SoldIn(log, S \ {u})
<1> DEFINE f == [k \in S |-> log[k].discharged]
           T == S \ {u}
           g == [k \in T |-> f[k]]
<1>1. OnInts(f, S) /\ OnInts(f, T) /\ IsFiniteSet(S)
  BY DEF OnInts, Counts
<1>2. /\ SoldIn(log, S) = SumFunctionOnSet(f, S) /\ SoldIn(log, T) = SumFunction(g)
      /\ f[u] = log[u].discharged
  BY DEF SoldIn, SumFunction
<1>3. IsFiniteSet(T)
  BY <1>1, FS_Subset
<1> HIDE DEF f
<1>4. SumFunction(g) = SumFunctionOnSet(f, T)
  BY <1>1, <1>3, SumRestricted
<1>5. SumFunctionOnSet(f, S) = f[u] + SumFunctionOnSet(f, S \ {u})
  BY <1>1, SumTakes
<1>. QED BY <1>2, <1>4, <1>5

\* Records that agree on the periods sold the same in them.
LEMMA SoldSame ==
  ASSUME NEW log, NEW other, NEW S, \A k \in S : log[k] = other[k]
  PROVE  SoldIn(log, S) = SoldIn(other, S)
BY DEF SoldIn

-----------------------------------------------------------------------------
(* A period of the threshold engine.                                       *)

InRun == w \in Windows /\ ValidConfig(config)

\* What the assumptions say of a run.
LEMMA RunFacts ==
  ASSUME InRun
  PROVE  /\ config.power \in Nat /\ config.commit \in Nat /\ config.commit <= config.power
         /\ config.in \in Nat \ {0} /\ config.out \in Nat \ {0}
         /\ config.lo \in Int /\ config.hi \in Int /\ config.start \in config.lo..config.hi
         /\ config.cap = None \/ config.cap \in Nat \ {0}
         /\ IsFiniteSet(config.energyMarkets)
         /\ Len(w.times) \in Nat /\ Periods(w) = 1..Len(w.times)
         /\ \A i \in Periods(w) : w.times[i] \in Int
         /\ \A i, j \in Periods(w) : i < j => w.times[i] < w.times[j]
<1>1. /\ {config.power, config.lo, config.hi, config.start, config.in, config.out,
          config.commit} \subseteq Int
      /\ config.cap \in Int \cup {None} /\ IsFiniteSet(config.energyMarkets)
      /\ w.times \in Seq(DOMAIN w.price) /\ IsSeries(w.price)
      /\ \A i, j \in DOMAIN w.times : i < j => w.times[i] < w.times[j]
  BY WindowAssumption DEF InRun, config
<1>2. Len(w.times) \in Nat /\ Periods(w) = 1..Len(w.times)
  BY <1>1, LenProperties DEF Periods
<1>3. \A i \in Periods(w) : w.times[i] \in Int
  BY <1>1, <1>2, ElementOfSeq DEF IsSeries
<1>4. /\ config.power > 0 /\ 0 < config.in /\ config.in <= config.out
      /\ 0 <= config.lo /\ config.lo < config.hi
      /\ config.lo <= config.start /\ config.start <= config.hi
      /\ 0 <= config.commit /\ config.commit <= config.power
      /\ config.cap = None \/ config.cap > 0
  BY DEF InRun, ValidConfig
<1>. QED BY <1>1, <1>2, <1>3, <1>4 DEF Periods

\* What the assumptions say of its legs and markets.
LEMMA LegFacts ==
  ASSUME InRun
  PROVE  /\ IsFiniteSet(config.legs) /\ config.endurance \in Nat \ {0}
         /\ \A l \in config.legs : /\ DirectionOf[l] \in {"up", "down", "symmetric"}
                                   /\ IsSeries(w.capacity[l])
         /\ \A m \in config.energyMarkets : IsSeries(w.energy[m])
         /\ IsSeries(w.activation)
         /\ config.rate \in Nat \X (Nat \ {0})
<1>1. config.endurance \in Int /\ config.endurance > 0
  BY WindowAssumption DEF InRun, config, ValidConfig
<1>2. /\ IsFiniteSet(config.legs)
      /\ \A l \in config.legs : /\ DirectionOf[l] \in {"up", "down", "symmetric"}
                                /\ IsSeries(w.capacity[l])
      /\ \A m \in config.energyMarkets : IsSeries(w.energy[m])
      /\ IsSeries(w.activation) /\ config.rate \in Nat \X (Nat \ {0})
  BY WindowAssumption DEF InRun, config
<1>. QED BY <1>1, <1>2

\* A period has a length.
LEMMA LengthFacts ==
  ASSUME InRun, NEW i \in Periods(w)
  PROVE  Length(w, i) \in Nat
<1>1. /\ Len(w.times) \in Nat /\ i \in 1..Len(w.times)
      /\ \A k \in 1..Len(w.times) : w.times[k] \in Int
      /\ \A k, j \in 1..Len(w.times) : k < j => w.times[k] < w.times[j]
  BY RunFacts
<1>2. CASE i < Len(w.times)
  <2>1. i + 1 \in 1..Len(w.times) /\ w.times[i] < w.times[i + 1]
    BY <1>1, <1>2
  <2>. QED BY <1>1, <1>2, <2>1 DEF Length, PeriodLength
<1>3. CASE ~(i < Len(w.times)) /\ i > 1
  <2>1. i - 1 \in 1..Len(w.times) /\ w.times[i - 1] < w.times[i]
    BY <1>1, <1>3
  <2>. QED BY <1>1, <1>3, <2>1 DEF Length, PeriodLength
<1>4. CASE ~(i < Len(w.times)) /\ ~(i > 1)
  BY <1>4, SeriesAssumption DEF Length, PeriodLength
<1>. QED BY <1>2, <1>3, <1>4

\* A period has a positive length.
LEMMA LengthPositive ==
  ASSUME InRun, NEW i \in Periods(w)
  PROVE  Length(w, i) \in Nat \ {0}
<1>1. /\ Len(w.times) \in Nat /\ i \in 1..Len(w.times)
      /\ \A k \in 1..Len(w.times) : w.times[k] \in Int
      /\ \A k, j \in 1..Len(w.times) : k < j => w.times[k] < w.times[j]
  BY RunFacts
<1>2. CASE i < Len(w.times)
  <2>1. i + 1 \in 1..Len(w.times) /\ w.times[i] < w.times[i + 1]
    BY <1>1, <1>2
  <2>. QED BY <1>1, <1>2, <2>1 DEF Length, PeriodLength
<1>3. CASE ~(i < Len(w.times)) /\ i > 1
  <2>1. i - 1 \in 1..Len(w.times) /\ w.times[i - 1] < w.times[i]
    BY <1>1, <1>3
  <2>. QED BY <1>1, <1>3, <2>1 DEF Length, PeriodLength
<1>4. CASE ~(i < Len(w.times)) /\ ~(i > 1)
  BY <1>4, SeriesAssumption DEF Length, PeriodLength
<1>. QED BY <1>2, <1>3, <1>4

\* What a leg clears at, when it is covered, is a number.
LEMMA QuoteFacts ==
  ASSUME InRun, NEW t
  PROVE  \A l \in config.legs : Quotes(t)[l] \in Int \cup {None}
<1> SUFFICES ASSUME NEW l \in config.legs PROVE Quotes(t)[l] \in Int \cup {None}
  OBVIOUS
<1>1. IsSeries(w.capacity[l])
  BY LegFacts
<1>2. Quotes(t)[l] = ValueAtOrBefore(w.capacity[l], t, NativePeriod2(w.capacity[l]))
  BY DEF Quotes
<1>. QED BY <1>1, <1>2, ValueFacts

\* What the band and the power leave room for.
LEMMA AmountFacts ==
  ASSUME InRun, soc \in config.lo..config.hi, NEW length \in Nat
  PROVE  /\ ChargeAmount(length) \in Nat /\ soc + ChargeAmount(length) \in config.lo..config.hi
         /\ ChargeAmount(length) <= config.in * ArbitragePower * length
         /\ DischargeAmount(length) \in Nat
         /\ DischargeAmount(length) <= config.out * ArbitragePower * length
         /\ soc - DischargeAmount(length) \in config.lo..config.hi
<1>1. ArbitragePower \in Nat /\ config.in \in Nat /\ config.out \in Nat
      /\ config.lo \in Int /\ config.hi \in Int /\ soc \in Int
      /\ config.lo <= soc /\ soc <= config.hi
  BY RunFacts DEF ArbitragePower
<1>2. PICK a \in Nat : a = config.in * ArbitragePower * length
  BY <1>1, Product
<1>3. PICK b \in Nat : b = config.out * ArbitragePower * length
  BY <1>1, Product
<1>4. ChargeAmount(length) \in {a, config.hi - soc}
      /\ ChargeAmount(length) <= a /\ ChargeAmount(length) <= config.hi - soc
  <2>1. ChargeAmount(length) = Min({a, config.hi - soc})
    BY <1>2 DEF ChargeAmount
  <2>2. \E x \in {a, config.hi - soc} : \A y \in {a, config.hi - soc} : x <= y
    BY <1>1
  <2>. QED BY <2>1, <2>2 DEF Min
<1>5. DischargeAmount(length) \in {b, soc - config.lo}
      /\ DischargeAmount(length) <= b /\ DischargeAmount(length) <= soc - config.lo
  <2>1. DischargeAmount(length) = Min({b, soc - config.lo})
    BY <1>3 DEF DischargeAmount
  <2>2. \E x \in {b, soc - config.lo} : \A y \in {b, soc - config.lo} : x <= y
    BY <1>1
  <2>. QED BY <2>1, <2>2 DEF Min
<1>. QED BY <1>1, <1>2, <1>3, <1>4, <1>5

\* What is left of the cap, beside all that the pruned window counts.
LEMMA CapFacts ==
  ASSUME InRun, dischargeWindow \in Seq(Entry), NEW t \in Int, config.cap # None
  PROVE  /\ RemainingCap(t) \in Nat
         /\ \/ RemainingCap(t) = 0
            \/ RemainingCap(t) + Booked(dischargeWindow, t - Day) <= config.out * config.cap
<1> DEFINE R == RecentDischarges(t)
           total == SumFunctionOnSet(Amounts(R), DOMAIN R)
<1>1. t - Day \in Int
  BY SeriesAssumption
<1>2. R \in Seq(Entry) /\ Booked(R, t - Day) = Booked(dischargeWindow, t - Day)
  BY <1>1, PruneKeepsBooked
<1>3. RemainingCap(t) = Max({config.out * config.cap - total, 0})
  <2>1. SumFunction([k \in DOMAIN R |-> R[k].amount]) = total
    BY DEF SumFunction, Amounts
  <2>. QED BY <2>1 DEF RemainingCap
<1> HIDE DEF R
<1>4. total \in Int /\ Booked(R, t - Day) \in Int /\ Booked(R, t - Day) <= total
  <2>1. /\ IsFiniteSet(DOMAIN R) /\ OnInts(Amounts(R), DOMAIN R)
        /\ Fresh(R, t - Day) \subseteq DOMAIN R /\ Booked(R, t - Day) \in Int
        /\ \A m \in DOMAIN R : R[m].amount \in Nat
    BY <1>1, <1>2, EntryFacts
  <2>2. \A m \in DOMAIN R : Amounts(R)[m] >= 0
    BY <2>1 DEF Amounts
  <2>. QED BY <2>1, <2>2, SumType, SumPart DEF Booked
<1>5. PICK limit \in Nat : limit = config.out * config.cap
  BY RunFacts, Product
<1> HIDE DEF total
<1>6. Max({limit - total, 0}) \in {limit - total, 0}
      /\ Max({limit - total, 0}) >= limit - total /\ Max({limit - total, 0}) >= 0
  <2>1. \E x \in {limit - total, 0} : \A y \in {limit - total, 0} : x >= y
    BY <1>4
  <2>. QED BY <2>1 DEF Max
<1>. QED BY <1>2, <1>3, <1>4, <1>5, <1>6

\* What a period discharges fits the cap, beside the window it is then entered in.
LEMMA MoveFacts ==
  ASSUME InRun, soc \in config.lo..config.hi, dischargeWindow \in Seq(Entry),
         NEW t \in Int, NEW x, NEW length \in Nat
  PROVE  LET move == Move(t, x, length)
         IN /\ move.soc \in config.lo..config.hi /\ move.discharged \in Nat
            /\ move.soc - soc \in (-DischargeAmount(length))..ChargeAmount(length)
            /\ \/ move.discharged = 0 /\ move.window = dischargeWindow
               \/ config.cap = None /\ move.window = dischargeWindow
               \/ move.discharged = 0 /\ move.window = RecentDischarges(t)
               \/ /\ move.discharged <= RemainingCap(t) /\ move.discharged > 0
                  /\ move.window = Append(RecentDischarges(t),
                                          [time |-> t, amount |-> move.discharged])
<1> DEFINE move == Move(t, x, length)
           stance == Stance(history, x, config.threshold2)
<1>0. ChargeAmount(length) \in Nat /\ DischargeAmount(length) \in Nat
  BY AmountFacts
<1>1. /\ Idle.soc = soc /\ Idle.discharged = 0 /\ Idle.window = dischargeWindow
      /\ config.lo \in Int /\ config.hi \in Int /\ soc \in Int
  BY RunFacts DEF Idle
<1>2. CASE stance = "charge"
  <2>1. move = ChargeMove(x, length)
    BY <1>2 DEF Move
  <2>2. /\ ChargeMove(x, length).soc \in {soc, soc + ChargeAmount(length)}
        /\ ChargeMove(x, length).discharged = 0
        /\ ChargeMove(x, length).window = dischargeWindow
    BY DEF ChargeMove, Idle
  <2>3. soc + ChargeAmount(length) \in config.lo..config.hi
    BY AmountFacts
  <2> HIDE DEF move
  <2>. QED BY <1>0, <1>1, <2>1, <2>2, <2>3 DEF move
<1>3. CASE stance = "discharge"
  <2> DEFINE wanted == DischargeAmount(length)
             capped == config.cap # None
             amount == IF capped THEN Min({wanted, RemainingCap(t)}) ELSE wanted
             kept == IF capped THEN RecentDischarges(t) ELSE dischargeWindow
             d == DischargeMove(t, x, length)
  <2>1. move = d
    BY <1>3 DEF Move
  <2>2. wanted \in Nat /\ soc - wanted \in config.lo..config.hi
    BY AmountFacts
  <2>3. amount \in Nat /\ amount <= wanted /\ (capped => amount <= RemainingCap(t))
    <3>1. CASE ~capped
      BY <2>2, <3>1
    <3>2. CASE capped
      <4>1. RemainingCap(t) \in Nat
        BY <3>2, CapFacts
      <4>2. PICK r \in Nat : r = RemainingCap(t)
        BY <4>1
      <4>3. PICK a \in Nat : a = wanted
        BY <2>2
      <4>4. \E y \in {a, r} : \A z \in {a, r} : y <= z
        OBVIOUS
      <4>5. Min({a, r}) \in {a, r} /\ Min({a, r}) <= a /\ Min({a, r}) <= r
        BY <4>4 DEF Min
      <4>. QED BY <3>2, <4>2, <4>3, <4>5
    <3>. QED BY <3>1, <3>2
  <2>4. CASE amount = 0
    <3>1. d.soc = soc /\ d.discharged = 0 /\ d.window = kept
      BY <2>4 DEF DischargeMove, Idle
    <3>. QED BY <1>0, <1>1, <2>1, <3>1
  <2>5. CASE amount # 0
    <3>1. /\ d.soc = soc - amount /\ d.discharged = amount
          /\ d.window = IF capped THEN Append(kept, [time |-> t, amount |-> amount]) ELSE kept
      BY <2>5 DEF DischargeMove, Idle
    <3> HIDE DEF amount, wanted, kept, d, move
    <3>2. PICK a \in Nat, v \in Nat : a = amount /\ v = wanted /\ a <= v
      BY <2>2, <2>3
    <3>3. /\ soc - a \in config.lo..config.hi /\ a # 0
          /\ (soc - a) - soc \in (-v)..ChargeAmount(length)
      <4>1. PICK g \in Nat : g = ChargeAmount(length)
        BY <1>0
      <4>2. soc - v \in config.lo..config.hi
        BY <2>2, <3>2
      <4>3. soc - a \in config.lo..config.hi
        BY <1>1, <3>2, <4>2
      <4>4. (soc - a) - soc \in (-v)..g
        BY <1>1, <3>2, <4>1
      <4>. QED BY <2>5, <3>2, <4>1, <4>3, <4>4
    <3>4. /\ d.soc \in config.lo..config.hi /\ d.discharged \in Nat /\ d.discharged > 0
          /\ d.soc - soc \in (-wanted)..ChargeAmount(length)
      BY <3>1, <3>2, <3>3
    <3>5. CASE capped
      <4>1. /\ kept = RecentDischarges(t) /\ d.discharged <= RemainingCap(t)
            /\ d.window = Append(kept, [time |-> t, amount |-> d.discharged])
        BY <2>3, <3>1, <3>5 DEF kept
      <4>. QED BY <2>1, <3>4, <4>1 DEF wanted, move
    <3>6. CASE ~capped
      <4>1. config.cap = None /\ d.window = dischargeWindow
        BY <3>1, <3>6 DEF kept
      <4>. QED BY <2>1, <3>4, <4>1 DEF wanted, move
    <3>. QED BY <3>5, <3>6
  <2>. QED BY <2>4, <2>5
<1>4. CASE stance \notin {"charge", "discharge"}
  BY <1>0, <1>1, <1>4 DEF Move
<1>. QED BY <1>2, <1>3, <1>4

-----------------------------------------------------------------------------
(* The band and the cap.                                                   *)

\* The periods of the first n that start at a time or later.
Since(c, n) == {j \in 1..n : w.times[j] >= c}

\* What the window counts from any time within the last period's day on is what the run
\* has sold from that time on.
WindowTells ==
  \A c \in Int :
    (position > 1 => c >= w.times[position - 1] - Day)
      => Booked(dischargeWindow, c) = SoldIn(ticks, Since(c, position - 1))

\* The battery, and the record, of a threshold run.
EngineInv ==
  /\ position \in 1..(Len(w.times) + 1)
  /\ DOMAIN ticks = 1..(position - 1)
  /\ ticks = [k \in 1..(position - 1) |-> ticks[k]]
  /\ \A k \in 1..(position - 1) : ticks[k].time = w.times[k] /\ ticks[k].discharged \in Nat
  /\ soc \in config.lo..config.hi
  /\ dischargeWindow \in Seq(Entry)
  /\ config.cap # None => WindowTells

\* What a run of either engine keeps.
BandInv ==
  /\ InRun
  /\ config.strategy = "threshold" => EngineInv
  /\ BandAndCapHold

LEMMA BandInit == Init => BandInv
<1> SUFFICES ASSUME Init PROVE BandInv
  OBVIOUS
<1>1. InRun
  BY DEF Init, InRun, config
<1>2. /\ position = 1 /\ ticks = << >> /\ dischargeWindow = << >> /\ soc = config.start
  BY DEF Init
<1>3. BandAndCapHold
  BY <1>2 DEF BandAndCapHold
<1>4. \A c : Booked(dischargeWindow, c) = 0
  <2> TAKE c
  <2>1. Fresh(dischargeWindow, c) = {}
    BY <1>2 DEF Fresh
  <2>. QED BY <2>1, FS_EmptySet, SumUnfolds DEF Booked
<1>5. \A c : SoldIn(ticks, Since(c, position - 1)) = 0
  <2> TAKE c
  <2>1. Since(c, position - 1) = {}
    BY <1>2 DEF Since
  <2> DEFINE f == [k \in {} |-> ticks[k].discharged]
  <2>2. SoldIn(ticks, Since(c, position - 1)) = SumFunctionOnSet(f, {})
    BY <2>1 DEF SoldIn, SumFunction
  <2>. QED BY <2>2, FS_EmptySet, SumUnfolds
<1>6. EngineInv
  <2>1. Len(w.times) \in Nat /\ soc \in config.lo..config.hi
    BY <1>1, <1>2, RunFacts
  <2>2. WindowTells
    BY <1>4, <1>5 DEF WindowTells
  <2>3. dischargeWindow \in Seq(Entry)
    BY <1>2, EmptySeq
  <2>4. ticks = [k \in 1..(position - 1) |-> ticks[k]] /\ DOMAIN ticks = 1..(position - 1)
    BY <1>2
  <2>. QED BY <1>2, <2>1, <2>2, <2>3, <2>4 DEF EngineInv
<1>. QED BY <1>1, <1>3, <1>6 DEF BandInv

\* A rolling day that ends with period k.
RollingDay(k) == Since(w.times[k] - Day, k)

\* What the property says of a threshold run, period by period.
BandAndCapAt(k) ==
  /\ ticks[k].soc \in config.lo..config.hi
  /\ config.cap # None => SoldIn(ticks, RollingDay(k)) <= config.out * config.cap

\* The property, period by period of the record.
LEMMA PeriodsOnRecord ==
  ASSUME InRun, config.strategy = "threshold", NEW n \in Nat, n <= Len(w.times),
         DOMAIN ticks = 1..n, \A k \in 1..n : ticks[k].time = w.times[k]
  PROVE  BandAndCapHold <=> \A k \in 1..n : BandAndCapAt(k)
<1>1. \A k \in 1..n : w.times[k] \in Int
  BY RunFacts
<1>2. ASSUME NEW k \in 1..n
      PROVE  {j \in 1..k : \/ ticks[j].time > ticks[k].time - Day
                           \/ config.strategy = "threshold"
                                /\ ticks[j].time = ticks[k].time - Day} = RollingDay(k)
  <2>1. \A j \in 1..k : ticks[j].time = w.times[j] /\ w.times[j] \in Int
    BY <1>1
  <2>2. ticks[k].time = w.times[k] /\ w.times[k] - Day \in Int
    BY <1>1, SeriesAssumption
  <2>. QED BY <2>1, <2>2 DEF RollingDay, Since
<1>3. \A S : EnergySold(S) = SoldIn(ticks, S)
  BY DEF EnergySold, SoldIn
<1>. QED BY <1>2, <1>3 DEF BandAndCapHold, BandAndCapAt

LEMMA BandByPeriod ==
  \A n \in Nat :
    /\ InRun /\ config.strategy = "threshold" /\ n <= Len(w.times)
    /\ DOMAIN ticks = 1..n /\ \A k \in 1..n : ticks[k].time = w.times[k]
    => (BandAndCapHold <=> \A k \in 1..n : BandAndCapAt(k))
BY PeriodsOnRecord

LEMMA BandByPeriodNext ==
  (\A n \in Nat :
    /\ InRun /\ config.strategy = "threshold" /\ n <= Len(w.times)
    /\ DOMAIN ticks = 1..n /\ \A k \in 1..n : ticks[k].time = w.times[k]
    => (BandAndCapHold <=> \A k \in 1..n : BandAndCapAt(k)))'
BY BandByPeriod, PTL

LEMMA TickKeepsBand == BandInv /\ Tick => BandInv'
<1> SUFFICES ASSUME BandInv, Tick PROVE BandInv'
  OBVIOUS
<1>0. PICK n : n = position - 1
  OBVIOUS
<1> DEFINE t == w.times[position]
           x == w.price[t]
           length == Length(w, position)
           move == Move(t, x, length)
           d == move.discharged
           limit == config.out * config.cap
<1>1. /\ config.strategy = "threshold" /\ w' = w /\ config' = config
      /\ position \in Periods(w) /\ position' = position + 1
      /\ soc' = move.soc /\ dischargeWindow' = move.window
  BY DEF Tick, config
<1>2. PICK r : /\ ticks' = Append(ticks, r)
               /\ r.time = t /\ r.soc = move.soc /\ r.discharged = d
  <2> DEFINE r == BessTick(t, x, length, move)
  <2>1. ticks' = Append(ticks, r)
    BY DEF Tick
  <2>2. r.time = t /\ r.soc = move.soc /\ r.discharged = d
    BY DEF BessTick
  <2>. QED BY <2>1, <2>2
<1>3. /\ InRun /\ BandAndCapHold
      /\ n \in Nat /\ position = n + 1 /\ n + 1 \in 1..Len(w.times) /\ Len(w.times) \in Nat
      /\ ticks = [k \in 1..n |-> ticks[k]] /\ DOMAIN ticks = 1..n
      /\ \A k \in 1..n : ticks[k].time = w.times[k] /\ ticks[k].discharged \in Nat
      /\ soc \in config.lo..config.hi
      /\ dischargeWindow \in Seq(Entry)
      /\ config.cap # None => WindowTells
  <2>1. InRun /\ BandAndCapHold /\ EngineInv
    BY <1>1 DEF BandInv
  <2>2. Len(w.times) \in Nat /\ Periods(w) = 1..Len(w.times)
    BY <2>1, RunFacts
  <2>3. n \in Nat /\ position = n + 1 /\ n + 1 \in 1..Len(w.times)
    BY <1>0, <1>1, <2>2
  <2>. QED BY <1>0, <2>1, <2>2, <2>3 DEF EngineInv
<1>4. /\ Len(ticks') = n + 1 /\ DOMAIN ticks' = 1..(n + 1)
      /\ ticks' = [k \in 1..(n + 1) |-> ticks'[k]]
      /\ ticks'[n + 1] = r
      /\ \A k \in 1..n : ticks'[k] = ticks[k]
  BY <1>2, <1>3, LogGrows
<1>5. /\ t \in Int /\ t - Day \in Int /\ w.times[n + 1] = t
      /\ \A k \in 1..n : w.times[k] \in Int /\ w.times[k] < t
      /\ length \in Nat
  <2>1. length \in Nat
    BY <1>1, <1>3, LengthFacts
  <2>2. /\ \A k \in 1..Len(w.times) : w.times[k] \in Int
        /\ \A k, j \in 1..Len(w.times) : k < j => w.times[k] < w.times[j]
    BY <1>3, RunFacts
  <2>3. t \in Int /\ w.times[n + 1] = t
    BY <1>3, <2>2
  <2>4. \A k \in 1..n : k \in 1..Len(w.times) /\ k < n + 1
    BY <1>3
  <2>5. \A k \in 1..n : w.times[k] \in Int /\ w.times[k] < t
    BY <1>3, <2>2, <2>3, <2>4
  <2>6. t - Day \in Int
    BY <2>3, SeriesAssumption
  <2>. QED BY <2>1, <2>3, <2>5, <2>6
<1>6. /\ move.soc \in config.lo..config.hi /\ d \in Nat
      /\ \/ d = 0 /\ move.window = dischargeWindow
         \/ config.cap = None /\ move.window = dischargeWindow
         \/ d = 0 /\ move.window = RecentDischarges(t)
         \/ /\ d <= RemainingCap(t) /\ d > 0
            /\ move.window = Append(RecentDischarges(t), [time |-> t, amount |-> d])
  BY <1>3, <1>5, MoveFacts
<1> HIDE DEF t, x, length, move, d
<1>7. \A k \in 1..(n + 1) : ticks'[k].time = w.times[k] /\ ticks'[k].discharged \in Nat
  BY <1>2, <1>3, <1>4, <1>5, <1>6
<1>8. [time |-> t, amount |-> d] \in Entry
  BY <1>5, <1>6 DEF Entry
<1>9. dischargeWindow' \in Seq(Entry)
  <2>1. RecentDischarges(t) \in Seq(Entry)
    BY <1>3, <1>5, PruneKeepsBooked
  <2>2. Append(RecentDischarges(t), [time |-> t, amount |-> d]) \in Seq(Entry)
    BY <1>8, <2>1, AppendProperties
  <2>. QED BY <1>1, <1>3, <1>6, <2>1, <2>2
<1>10. ASSUME config.cap # None, NEW c \in Int, c >= t - Day
       PROVE  /\ Booked(dischargeWindow, c) = SoldIn(ticks, Since(c, n))
              /\ Booked(dischargeWindow', c)
                   = Booked(dischargeWindow, c) + IF t >= c THEN d ELSE 0
  <2>1. Booked(dischargeWindow, c) = SoldIn(ticks, Since(c, n))
    <3>1. position > 1 => c >= w.times[position - 1] - Day
      <4> SUFFICES ASSUME position > 1 PROVE c >= w.times[n] - Day
        BY <1>0
      <4>1. n \in 1..n
        BY <1>3
      <4>2. w.times[n] \in Int /\ w.times[n] < t
        BY <1>5, <4>1
      <4>. QED BY <1>5, <1>10, <4>2, SeriesAssumption
    <3>. QED BY <1>0, <1>3, <1>10, <3>1 DEF WindowTells
  <2>2. /\ RecentDischarges(t) \in Seq(Entry)
        /\ Booked(RecentDischarges(t), c) = Booked(dischargeWindow, c)
    BY <1>3, <1>5, <1>10, PruneKeepsBooked
  <2>3. Booked(dischargeWindow, c) \in Int
    BY <1>3, EntryFacts
  <2>4. CASE d = 0 /\ dischargeWindow' \in {dischargeWindow, RecentDischarges(t)}
    <3>1. Booked(dischargeWindow', c) = Booked(dischargeWindow, c)
      BY <2>2, <2>4
    <3>. QED BY <2>1, <2>3, <2>4, <3>1
  <2>5. CASE dischargeWindow' = Append(RecentDischarges(t), [time |-> t, amount |-> d])
    <3>1. Booked(dischargeWindow', c)
            = Booked(RecentDischarges(t), c) + IF t >= c THEN d ELSE 0
      BY <1>8, <1>10, <2>2, <2>5, AppendAddsBooked
    <3>. QED BY <2>1, <2>2, <3>1
  <2>. QED BY <1>1, <1>6, <1>10, <2>4, <2>5
<1>11. ASSUME NEW c \in Int
       PROVE  /\ SoldIn(ticks', Since(c, n)) = SoldIn(ticks, Since(c, n))
              /\ SoldIn(ticks', Since(c, n) \cup {n + 1}) = SoldIn(ticks, Since(c, n)) + d
              /\ SoldIn(ticks, Since(c, n)) \in Nat
  <2>1. ticks'[n + 1].discharged = d
    BY <1>2, <1>4
  <2>2. PICK longer : longer = ticks'
    OBVIOUS
  <2>3. PICK S : S = Since(c, n)
    OBVIOUS
  <2>4. /\ \A k \in S : longer[k] = ticks[k]
        /\ n + 1 \notin S /\ (S \cup {n + 1}) \ {n + 1} = S
        /\ S \cup {n + 1} \subseteq 1..(n + 1)
    BY <1>3, <1>4, <2>2, <2>3 DEF Since
  <2>5. Counts(longer, S \cup {n + 1}) /\ Counts(longer, S)
    <3>1. 1 \in Int /\ n + 1 \in Int
      BY <1>3
    <3>2. IsFiniteSet(1..(n + 1))
      BY <3>1, FS_Interval
    <3>. QED BY <1>7, <2>2, <2>4, <3>2, FS_Subset DEF Counts
  <2>6. SoldIn(longer, S) = SoldIn(ticks, S)
    BY <2>4, SoldSame
  <2>7. SoldIn(longer, S) \in Nat
    BY <2>5, SoldType
  <2>8. SoldIn(longer, S \cup {n + 1}) = longer[n + 1].discharged + SoldIn(longer, S)
    BY <2>4, <2>5, SoldWith
  <2>. QED BY <1>6, <2>1, <2>2, <2>3, <2>6, <2>7, <2>8
<1>12. ASSUME NEW c \in Int
       PROVE  Since(c, n + 1)' = IF t >= c THEN Since(c, n) \cup {n + 1} ELSE Since(c, n)
  <2>1. Since(c, n + 1)' = {j \in 1..(n + 1) : w.times[j] >= c}
    BY <1>1 DEF Since
  <2>2. 1..(n + 1) = 1..n \cup {n + 1} /\ n + 1 \notin 1..n
    BY <1>3
  <2>. QED BY <1>5, <2>1, <2>2 DEF Since
<1>13. ASSUME config.cap # None PROVE WindowTells'
  <2>1. position' - 1 = n + 1
    BY <1>1, <1>3
  <2>2. ASSUME NEW c \in Int, c >= t - Day
        PROVE  Booked(dischargeWindow', c) = SoldIn(ticks', Since(c, n + 1)')
    <3>1. /\ Booked(dischargeWindow, c) = SoldIn(ticks, Since(c, n))
          /\ Booked(dischargeWindow', c) = Booked(dischargeWindow, c) + IF t >= c THEN d ELSE 0
      BY <1>10, <1>13, <2>2
    <3>2. CASE t >= c
      BY <1>11, <1>12, <3>1, <3>2
    <3>3. CASE ~(t >= c)
      <4>1. Since(c, n + 1)' = Since(c, n)
        BY <1>12, <3>3
      <4>2. SoldIn(ticks', Since(c, n)) = SoldIn(ticks, Since(c, n))
            /\ SoldIn(ticks, Since(c, n)) \in Nat
        BY <1>11
      <4>. QED BY <3>1, <3>3, <4>1, <4>2
    <3>. QED BY <3>2, <3>3
  <2>3. \A c \in Int : c >= w'.times[n + 1] - Day
                         => Booked(dischargeWindow', c) = SoldIn(ticks', Since(c, n + 1)')
    BY <1>1, <1>5, <2>2
  <2>4. position' > 1
    BY <1>1, <1>3
  <2>. QED BY <2>1, <2>3, <2>4 DEF WindowTells, Booked, Fresh, Amounts, SoldIn, Since
<1>14. \A k \in 1..n : BandAndCapAt(k)
  BY <1>1, <1>3, BandByPeriod
<1>15. ASSUME NEW k \in 1..n PROVE BandAndCapAt(k)'
  <2>1. RollingDay(k)' = RollingDay(k) /\ RollingDay(k) \subseteq 1..n
    BY <1>1, <1>3 DEF RollingDay, Since
  <2>2. SoldIn(ticks', RollingDay(k)) = SoldIn(ticks, RollingDay(k))
    BY <1>4, <2>1, SoldSame
  <2>. QED BY <1>1, <1>4, <1>14, <2>1, <2>2 DEF BandAndCapAt, SoldIn
<1>16. ASSUME config.cap # None PROVE SoldIn(ticks, Since(t - Day, n)) + d <= limit
  <2>1. limit \in Nat
    BY <1>3, <1>16, RunFacts, Product
  <2>2. SoldIn(ticks, Since(t - Day, n)) \in Nat
    BY <1>5, <1>11
  <2>3. CASE d > 0
    <3>1. d <= RemainingCap(t)
      BY <1>6, <1>16, <2>3
    <3>2. /\ RemainingCap(t) \in Nat
          /\ \/ RemainingCap(t) = 0
             \/ RemainingCap(t) + Booked(dischargeWindow, t - Day) <= limit
      BY <1>3, <1>5, <1>16, CapFacts
    <3>3. Booked(dischargeWindow, t - Day) = SoldIn(ticks, Since(t - Day, n))
      BY <1>5, <1>10, <1>16
    <3>. QED BY <1>6, <2>1, <2>2, <2>3, <3>1, <3>2, <3>3
  <2>4. CASE d = 0 /\ n = 0
    <3>1. Since(t - Day, n) = {}
      BY <2>4 DEF Since
    <3>2. SoldIn(ticks, {}) = 0
      <4> DEFINE f == [k \in {} |-> ticks[k].discharged]
      <4>1. SoldIn(ticks, {}) = SumFunctionOnSet(f, {})
        BY DEF SoldIn, SumFunction
      <4>. QED BY <4>1, FS_EmptySet, SumUnfolds
    <3>. QED BY <2>1, <2>4, <3>1, <3>2
  <2>5. CASE d = 0 /\ n # 0
    <3>1. n \in 1..n /\ w.times[n] \in Int /\ w.times[n] < t
      BY <1>3, <1>5, <2>5
    <3>2. Since(t - Day, n) \subseteq RollingDay(n) /\ RollingDay(n) \subseteq 1..n
      BY <1>5, <3>1, SeriesAssumption DEF Since, RollingDay
    <3>3. Counts(ticks, RollingDay(n))
      <4>1. IsFiniteSet(1..n)
        <5>1. 1 \in Int /\ n \in Int
          BY <1>3
        <5>. QED BY <5>1, FS_Interval
      <4>. QED BY <1>3, <3>2, <4>1, FS_Subset DEF Counts
    <3>4. SoldIn(ticks, Since(t - Day, n)) <= SoldIn(ticks, RollingDay(n))
      BY <3>2, <3>3, SoldPart
    <3>5. SoldIn(ticks, RollingDay(n)) <= limit /\ SoldIn(ticks, RollingDay(n)) \in Nat
      BY <1>14, <1>16, <3>1, <3>3, SoldType DEF BandAndCapAt
    <3>. QED BY <2>1, <2>2, <2>5, <3>4, <3>5
  <2>. QED BY <1>6, <2>3, <2>4, <2>5
<1>17. BandAndCapAt(n + 1)'
  <2>1. RollingDay(n + 1)' = Since(t - Day, n) \cup {n + 1}
    <3>1. PICK c \in Int : c = t - Day
      BY <1>5
    <3>2. RollingDay(n + 1)' = Since(c, n + 1)'
      <4>1. w'.times[n + 1] - Day = c
        BY <1>1, <1>5, <3>1
      <4>. QED BY <4>1 DEF RollingDay, Since
    <3>3. t >= c
      BY <1>5, <3>1, SeriesAssumption
    <3>. QED BY <1>12, <3>1, <3>2, <3>3
  <2>2. SoldIn(ticks', RollingDay(n + 1)') = SoldIn(ticks, Since(t - Day, n)) + d
    BY <1>5, <1>11, <2>1
  <2>3. ticks'[n + 1].soc \in config.lo..config.hi
    BY <1>2, <1>4, <1>6
  <2>. QED BY <1>1, <1>16, <2>2, <2>3 DEF BandAndCapAt, SoldIn
<1>18. BandAndCapHold'
  <2>1. \A k \in 1..(n + 1) : BandAndCapAt(k)'
    <3>1. \A k \in 1..(n + 1) : k \in 1..n \/ k = n + 1
      BY <1>3
    <3>. QED BY <1>15, <1>17, <3>1
  <2>2. InRun' /\ config'.strategy = "threshold"
    BY <1>1, <1>3 DEF InRun, config
  <2>3. /\ n + 1 \in Nat /\ n + 1 <= Len(w'.times)
        /\ DOMAIN ticks' = 1..(n + 1) /\ \A k \in 1..(n + 1) : ticks'[k].time = w'.times[k]
    BY <1>1, <1>3, <1>4, <1>7
  <2>4. BandAndCapHold' <=> \A k \in 1..(n + 1) : BandAndCapAt(k)'
    BY <2>2, <2>3, BandByPeriodNext
  <2>. QED BY <2>1, <2>4
<1>19. EngineInv'
  <2>1. position' \in 1..(Len(w'.times) + 1) /\ position' - 1 = n + 1
    BY <1>1, <1>3
  <2>2. soc' \in config'.lo..config'.hi
    BY <1>1, <1>6
  <2>3. config'.cap # None => WindowTells'
    BY <1>1, <1>13
  <2>. QED BY <1>1, <1>4, <1>7, <1>9, <2>1, <2>2, <2>3 DEF EngineInv
<1>. QED BY <1>1, <1>3, <1>18, <1>19 DEF BandInv, InRun, config

-----------------------------------------------------------------------------
(* A plan keeps the band and the cap.                                      *)

\* What a flow charges and discharges.
LEMMA FlowFacts ==
  ASSUME InRun, NEW flow \in Flows(config)
  PROVE  Charged(flow) \in Nat /\ Discharged(flow) \in Nat
<1>1. IsFiniteSet(config.energyMarkets) /\ config.power \in Nat
  BY RunFacts
<1>2. /\ DOMAIN flow.ch = config.energyMarkets /\ DOMAIN flow.dis = config.energyMarkets
      /\ \A m \in config.energyMarkets : flow.ch[m] \in 0..config.power
                                         /\ flow.dis[m] \in 0..config.power
  BY DEF Flows
<1>3. ASSUME NEW f, DOMAIN f = config.energyMarkets,
             \A m \in config.energyMarkets : f[m] \in 0..config.power
      PROVE  SumFunction(f) \in Nat
  <2>1. OnInts(f, config.energyMarkets) /\ \A m \in config.energyMarkets \ {} : f[m] >= 0
    BY <1>1, <1>3 DEF OnInts
  <2>2. /\ SumFunctionOnSet(f, config.energyMarkets) \in Int
        /\ SumFunctionOnSet(f, {}) <= SumFunctionOnSet(f, config.energyMarkets)
    BY <1>1, <2>1, SumType, SumPart
  <2>3. SumFunctionOnSet(f, {}) = 0
    BY FS_EmptySet, SumUnfolds
  <2>. QED BY <1>3, <2>2, <2>3 DEF SumFunction
<1>. QED BY <1>2, <1>3 DEF Charged, Discharged

\* A feasible plan keeps the band, and the rolling day within the cap.
LEMMA PlanFacts ==
  ASSUME InRun, NEW plan \in Feasible(w), NEW i \in Periods(w)
  PROVE  /\ Charged(plan[i]) \in Nat /\ Discharged(plan[i]) \in Nat /\ Length(w, i) \in Nat
         /\ Stored(w, plan, i) \in config.lo..config.hi
         /\ config.cap # None => DischargedWithin(w, plan, i) <= config.cap
<1>1. /\ plan \in [Periods(w) -> Flows(config)]
      /\ InBand(w, Stored(w, plan, i)) /\ CycleCapKept(w, plan, i)
  BY DEF Feasible, config
<1>2. \A j \in Periods(w) : /\ Charged(plan[j]) \in Nat /\ Discharged(plan[j]) \in Nat
                            /\ Length(w, j) \in Nat
  BY <1>1, FlowFacts, LengthFacts
<1>3. /\ config.in \in Int /\ config.out \in Int /\ config.start \in Int
      /\ config.lo \in Int /\ config.hi \in Int
      /\ Len(w.times) \in Nat /\ Periods(w) = 1..Len(w.times)
  BY RunFacts
<1> DEFINE f == [j \in 1..i |-> (w.config.in * Charged(plan[j])
                                   - w.config.out * Discharged(plan[j])) * Length(w, j)]
<1>4. SumFunctionOnSet(f, 1..i) \in Int
  <2>1. 1 \in Int /\ i \in Int /\ 1..i \subseteq Periods(w)
    BY <1>3
  <2>2. IsFiniteSet(1..i)
    BY <2>1, FS_Interval
  <2>3. ASSUME NEW j \in 1..i PROVE f[j] \in Int
    <3>1. /\ Charged(plan[j]) \in Int /\ Discharged(plan[j]) \in Int /\ Length(w, j) \in Int
      BY <1>2, <2>1
    <3>2. config.in * Charged(plan[j]) \in Int /\ config.out * Discharged(plan[j]) \in Int
      BY <1>3, <3>1
    <3>3. (config.in * Charged(plan[j]) - config.out * Discharged(plan[j])) * Length(w, j) \in Int
      BY <3>1, <3>2
    <3>. QED BY <3>3 DEF config
  <2> HIDE DEF f
  <2>. QED BY <2>2, <2>3, SumType DEF OnInts
<1>5. Stored(w, plan, i) = config.start + SumFunctionOnSet(f, 1..i)
  BY DEF Stored, SumFunction, config
<1>6. Stored(w, plan, i) \in config.lo..config.hi
  BY <1>1, <1>3, <1>4, <1>5 DEF InBand, config
<1>7. config.cap # None => DischargedWithin(w, plan, i) <= config.cap
  BY <1>1 DEF CycleCapKept, config
<1>. QED BY <1>2, <1>6, <1>7

LEMMA DispatchKeepsBand == BandInv /\ Dispatch => BandInv'
<1> SUFFICES ASSUME BandInv, Dispatch PROVE BandInv'
  OBVIOUS
<1>1. /\ config.strategy = "cooptimized" /\ w' = w /\ config' = config /\ InRun
      /\ ~(config.strategy = "threshold")
  BY DEF Dispatch, config, BandInv
<1>2. PICK plan \in Optimal(w) : ticks' = [i \in Periods(w) |-> PlannedTick(w, plan, i)]
  BY DEF Dispatch
<1>3. plan \in Feasible(w)
  BY DEF Optimal, BestOf
<1>4. /\ DOMAIN ticks' = Periods(w)
      /\ \A j \in Periods(w) :
           /\ ticks'[j].time = w.times[j] /\ ticks'[j].soc = Stored(w, plan, j)
           /\ ticks'[j].discharged \in {0, config.out * Discharged(plan[j]) * Length(w, j)}
  BY <1>2 DEF PlannedTick, config
<1>5. /\ Len(w.times) \in Nat /\ Periods(w) = 1..Len(w.times)
      /\ config.out \in Nat /\ (config.cap = None \/ config.cap \in Nat)
  BY <1>1, RunFacts
<1>6. ASSUME NEW k \in Periods(w), config.cap # None
      PROVE  SumFunction([j \in RollingWindow(w, k) |-> ticks'[j].discharged])
               <= config.out * config.cap
  <2> DEFINE U == RollingWindow(w, k)
             f == [j \in U |-> ticks'[j].discharged]
             g == [j \in U |-> Discharged(plan[j]) * Length(w, j)]
  <2>1. U \subseteq 1..k /\ 1..k \subseteq Periods(w) /\ IsFiniteSet(U)
    <3>1. 1 \in Int /\ k \in Int
      BY <1>5
    <3>2. IsFiniteSet(1..k)
      BY <3>1, FS_Interval
    <3>. QED BY <1>5, <3>2, FS_Subset DEF RollingWindow
  <2>2. ASSUME NEW j \in U
        PROVE  g[j] \in Int /\ f[j] \in Int /\ f[j] <= config.out * g[j]
    <3>1. Discharged(plan[j]) \in Nat /\ Length(w, j) \in Nat
      BY <1>1, <1>3, <2>1, PlanFacts
    <3>2. PICK d, l \in Nat : d = Discharged(plan[j]) /\ l = Length(w, j)
      BY <3>1
    <3>3. d * l \in Nat /\ config.out * (d * l) \in Nat
      BY <1>5, Product
    <3>4. config.out * (d * l) = config.out * d * l
      BY <1>5
    <3>5. f[j] \in {0, config.out * (d * l)} /\ g[j] = d * l
      BY <1>4, <2>1, <3>2, <3>4
    <3>. QED BY <3>3, <3>5
  <2>3. SumFunction(f) = SumFunctionOnSet(f, U) /\ SumFunction(g) = SumFunctionOnSet(g, U)
    BY DEF SumFunction
  <2>4. DischargedWithin(w, plan, k) = SumFunction(g) /\ SumFunction(g) <= config.cap
    BY <1>1, <1>3, <1>6, PlanFacts DEF DischargedWithin
  <2> HIDE DEF f, g, U
  <2>5. OnInts(f, U) /\ OnInts(g, U) /\ \A j \in U : f[j] <= config.out * g[j]
    BY <2>2 DEF OnInts
  <2>6. /\ SumFunctionOnSet(f, U) <= config.out * SumFunctionOnSet(g, U)
        /\ SumFunctionOnSet(f, U) \in Int /\ SumFunctionOnSet(g, U) \in Int
    <3>1. SumFunctionOnSet(f, U) \in Int /\ SumFunctionOnSet(g, U) \in Int
      BY <2>1, <2>5, SumType
    <3>2. PICK c \in Int : c = config.out
      BY <1>5
    <3>3. SumFunctionOnSet(f, U) <= c * SumFunctionOnSet(g, U)
      BY <2>1, <2>5, <3>2, SumAtMost
    <3>. QED BY <3>1, <3>2, <3>3
  <2>7. \A a, b \in Int, c \in Nat : a <= b => c * a <= c * b
    OBVIOUS
  <2>8. config.out * SumFunctionOnSet(g, U) <= config.out * config.cap
    BY <1>5, <1>6, <2>3, <2>4, <2>6, <2>7
  <2>9. SumFunction(f) <= config.out * config.cap
    BY <1>5, <1>6, <2>3, <2>6, <2>8
  <2>. QED BY <2>9 DEF f, U
<1>7. ASSUME NEW k \in Periods(w)
      PROVE  {j \in 1..k : \/ ticks'[j].time > ticks'[k].time - Day
                           \/ config.strategy = "threshold"
                                /\ ticks'[j].time = ticks'[k].time - Day}
               = RollingWindow(w, k)
  <2>1. \A j \in 1..k : j \in Periods(w)
    BY <1>5
  <2>. QED BY <1>1, <1>4, <2>1 DEF RollingWindow
<1>8. ASSUME NEW k \in Periods(w) PROVE ticks'[k].soc \in config.lo..config.hi
  BY <1>1, <1>3, <1>4, PlanFacts
<1>9. BandAndCapHold'
  <2>1. \A S : EnergySold(S)' = SumFunction([j \in S |-> ticks'[j].discharged])
    BY DEF EnergySold
  <2>. QED BY <1>1, <1>4, <1>6, <1>7, <1>8, <2>1 DEF BandAndCapHold
<1>. QED BY <1>1, <1>9 DEF BandInv, InRun, config

LEMMA StepKeepsBand == BandInv /\ [Next]_vars => BandInv'
<1> SUFFICES ASSUME BandInv, [Next]_vars PROVE BandInv'
  OBVIOUS
<1>1. CASE UNCHANGED vars
  <2>1. w' = w /\ position' = position /\ soc' = soc /\ ticks' = ticks
        /\ dischargeWindow' = dischargeWindow /\ config' = config
    BY <1>1 DEF vars, config
  <2>2. /\ \A c : Booked(dischargeWindow, c)' = Booked(dischargeWindow, c)
        /\ \A c, n : Since(c, n)' = Since(c, n)
        /\ \A S : EnergySold(S)' = EnergySold(S)
    BY <2>1 DEF Booked, Fresh, Amounts, Since, EnergySold
  <2>3. \A c, n : SoldIn(ticks, Since(c, n))' = SoldIn(ticks, Since(c, n))
    BY <2>1, <2>2 DEF SoldIn
  <2>4. WindowTells' = WindowTells
    BY <2>1, <2>2, <2>3 DEF WindowTells
  <2>5. EngineInv' = EngineInv
    BY <2>1, <2>4 DEF EngineInv
  <2>6. BandAndCapHold' = BandAndCapHold
    BY <2>1, <2>2 DEF BandAndCapHold
  <2>. QED BY <2>1, <2>5, <2>6 DEF BandInv, InRun
<1>. QED BY <1>1, TickKeepsBand, DispatchKeepsBand DEF Next

\* Whichever engine runs, and whatever the prices, stored energy stays within the usable
\* band and no rolling day sells more than the cycle cap: what the engine's pruned window
\* counts is all that the record says was sold.
THEOREM BandAndCapCorrect == Spec => []BandAndCapHold
<1>1. BandInv => BandAndCapHold
  BY DEF BandInv
<1>. QED BY <1>1, BandInit, StepKeepsBand, PTL DEF Spec

-----------------------------------------------------------------------------
(* A plan delivers its reserve.                                            *)

\* What a flow reserves, on a leg and on several.
LEMMA ReserveFacts ==
  ASSUME InRun, NEW flow \in Flows(config)
  PROVE  /\ \A l \in config.legs : flow.cap[l] \in Nat
         /\ \A legs \in SUBSET config.legs :
              /\ Reserved(flow, legs) \in Nat
              /\ \A l \in legs : flow.cap[l] <= Reserved(flow, legs)
<1>1. IsFiniteSet(config.legs) /\ config.power \in Nat
  BY RunFacts, LegFacts
<1>2. \A l \in config.legs : flow.cap[l] \in Nat
  BY <1>1 DEF Flows
<1>3. ASSUME NEW legs \in SUBSET config.legs
      PROVE  /\ Reserved(flow, legs) \in Nat
             /\ \A l \in legs : flow.cap[l] <= Reserved(flow, legs)
  <2>1. IsFiniteSet(legs) /\ OnInts(flow.cap, legs) /\ \A l \in legs : flow.cap[l] >= 0
    BY <1>1, <1>2, FS_Subset DEF OnInts
  <2>2. Reserved(flow, legs) = SumFunctionOnSet(flow.cap, legs)
    BY DEF Reserved
  <2>3. SumFunctionOnSet(flow.cap, legs) \in Int /\ 0 <= SumFunctionOnSet(flow.cap, legs)
    <3>1. SumFunctionOnSet(flow.cap, {}) = 0
      BY FS_EmptySet, SumUnfolds
    <3>2. SumFunctionOnSet(flow.cap, {}) <= SumFunctionOnSet(flow.cap, legs)
      BY <2>1, SumPart
    <3>. QED BY <2>1, <3>1, <3>2, SumType
  <2>4. ASSUME NEW l \in legs PROVE flow.cap[l] <= SumFunctionOnSet(flow.cap, legs)
    <3>1. SumFunctionOnSet(flow.cap, legs)
            = flow.cap[l] + SumFunctionOnSet(flow.cap, legs \ {l})
      BY <2>1, SumTakes
    <3>2. IsFiniteSet(legs \ {l}) /\ OnInts(flow.cap, legs \ {l})
      BY <2>1, FS_Subset DEF OnInts
    <3>3. SumFunctionOnSet(flow.cap, {}) = 0
      BY FS_EmptySet, SumUnfolds
    <3>4. SumFunctionOnSet(flow.cap, {}) <= SumFunctionOnSet(flow.cap, legs \ {l})
      BY <2>1, <3>2, SumPart
    <3>5. SumFunctionOnSet(flow.cap, legs \ {l}) \in Int
      BY <3>2, SumType
    <3>. QED BY <1>2, <3>1, <3>3, <3>4, <3>5
  <2>. QED BY <2>2, <2>3, <2>4
<1>. QED BY <1>2, <1>3

\* A plan starts from the configured charge.
LEMMA StoredAtStart ==
  ASSUME InRun, NEW plan
  PROVE  Stored(w, plan, 0) = config.start
<1> DEFINE f == [j \in 1..0 |-> (w.config.in * Charged(plan[j])
                                   - w.config.out * Discharged(plan[j])) * Length(w, j)]
<1>1. Stored(w, plan, 0) = config.start + SumFunctionOnSet(f, DOMAIN f)
  BY DEF Stored, SumFunction, config
<1>2. DOMAIN f = {}
  OBVIOUS
<1> HIDE DEF f
<1>3. SumFunctionOnSet(f, {}) = 0
  BY FS_EmptySet, SumUnfolds
<1>. QED BY <1>1, <1>2, <1>3, RunFacts

\* Stored energy is within the band before the first period and after each.
LEMMA BandFacts ==
  ASSUME InRun, NEW plan \in Feasible(w), NEW i \in 0..Len(w.times)
  PROVE  Stored(w, plan, i) \in config.lo..config.hi
<1>1. CASE i = 0
  BY <1>1, RunFacts, StoredAtStart
<1>2. CASE i # 0
  BY <1>2, RunFacts, PlanFacts
<1>. QED BY <1>1, <1>2

\* The record of a plan.
Reports(plan) == ticks = [i \in Periods(w) |-> PlannedTick(w, plan, i)]

\* The state of charge before a period is what the plan has stored.
LEMMA SocBeforeIsStored ==
  ASSUME InRun, NEW plan \in Feasible(w), Reports(plan), NEW k \in Periods(w)
  PROVE  SocBefore(k) = Stored(w, plan, k - 1) /\ ticks[k].soc = Stored(w, plan, k)
<1>1. Len(w.times) \in Nat /\ Periods(w) = 1..Len(w.times) /\ config.start \in Int
  BY RunFacts
<1>2. \A j \in Periods(w) : ticks[j].soc = Stored(w, plan, j)
  BY DEF Reports, PlannedTick
<1>3. Stored(w, plan, 0) = config.start
  BY StoredAtStart
<1>. QED BY <1>1, <1>2, <1>3 DEF SocBefore

\* No more is short than what a fraction is below another.
LEMMA NoShortfall ==
  ASSUME NEW e \in Int, NEW y, NEW n \in Int, NEW d \in Nat \ {0}, Is(y, n, d), e * d <= n
  PROVE  Shortfall(Frac(e, 1), y) = Zero
<1>1. Is(Frac(e, 1), e * d, d)
  <2>1. Is(Frac(e, 1), e, 1)
    BY FracIs
  <2>2. Is(Frac(e, 1), e * d, 1 * d)
    BY <2>1, IsScales
  <2>. QED BY <2>2
<1>2. Is(Minus(y), -n, d)
  <2>1. PICK a \in Int, b \in Nat \ {0} : y = <<a, b>> /\ a * d = n * b
    BY DEF Is, Fractions
  <2>2. (-a) * d = -(a * d) /\ (-n) * b = -(n * b)
    OBVIOUS
  <2>. QED BY <2>1, <2>2 DEF Is, Fractions, Minus
<1>3. PICK m \in Int : m = e * d + -n /\ m <= 0
  <2>1. e * d \in Int
    OBVIOUS
  <2>. QED BY <2>1
<1>4. Frac(e, 1) ++ Minus(y) = Frac(m, d)
  <2>1. e * d \in Int /\ -n \in Int
    OBVIOUS
  <2>. QED BY <1>1, <1>2, <1>3, <2>1, AddedIs
<1>5. CASE m < 0
  <2>1. Frac(m, d)[1] < 0
    BY <1>5, FracIs, SignIs
  <2>. QED BY <1>4, <2>1 DEF Shortfall, Clipped
<1>6. CASE m = 0
  BY <1>4, <1>6, FracOfZero DEF Shortfall, Clipped
<1>. QED BY <1>3, <1>5, <1>6

\* Reserve in a plan can be delivered out of the energy of the period, at its lowest and
\* at its highest.
LEMMA PlanDelivers ==
  ASSUME InRun, NEW plan \in Feasible(w), NEW k \in Periods(w), NEW l \in config.legs,
         NEW soc1 \in {Stored(w, plan, k - 1), Stored(w, plan, k)}
  PROVE  /\ DirectionOf[l] \in {"up", "symmetric"} =>
              plan[k].cap[l] * (config.out * config.endurance) <= soc1 - config.lo
         /\ DirectionOf[l] \in {"down", "symmetric"} =>
              plan[k].cap[l] * (config.in * config.endurance) <= config.hi - soc1
<1>0. soc1 \in Int
  <2>1. Len(w.times) \in Nat /\ k \in 1..Len(w.times) /\ config.lo \in Int /\ config.hi \in Int
    BY RunFacts
  <2>2. k - 1 \in 0..Len(w.times) /\ k \in 0..Len(w.times)
    BY <2>1
  <2>. QED BY <2>1, <2>2, BandFacts
<1>1. /\ Deliverable(w, plan[k], soc1) /\ plan[k] \in Flows(config)
  BY DEF Feasible, HeadroomKept, config
<1>2. /\ config.out \in Nat /\ config.in \in Nat /\ config.endurance \in Nat
  BY RunFacts, LegFacts
<1>3. ASSUME NEW direction, l \in Towards(w, direction), NEW f \in Nat, NEW room \in Int,
             Reserved(plan[k], Towards(w, direction)) * config.endurance * f <= room
      PROVE  plan[k].cap[l] * (f * config.endurance) <= room
  <2>1. Towards(w, direction) \subseteq config.legs
    BY DEF Towards, config
  <2>2. PICK c, r \in Nat : /\ c = plan[k].cap[l] /\ c <= r
                            /\ r = Reserved(plan[k], Towards(w, direction))
    BY <1>1, <1>3, <2>1, ReserveFacts
  <2>3. PICK e \in Nat : e = config.endurance
    BY <1>2
  <2>4. f * e \in Nat
    OBVIOUS
  <2>5. \A a, b, x \in Nat : a <= b => a * x <= b * x /\ a * x \in Int /\ b * x \in Int
    OBVIOUS
  <2>6. /\ c * (f * e) <= r * (f * e)
        /\ c * (f * e) \in Int /\ r * (f * e) \in Int
    BY <2>2, <2>4, <2>5
  <2>7. r * (f * e) = r * e * f
    OBVIOUS
  <2>8. r * e * f <= room
    BY <1>3, <2>2, <2>3
  <2>9. c * (f * e) <= room
    BY <2>6, <2>7, <2>8
  <2>. QED BY <2>2, <2>3, <2>9
<1>4. soc1 - config.lo \in Int /\ config.hi - soc1 \in Int
  BY <1>0, RunFacts
<1>5. /\ Reserved(plan[k], Towards(w, "up")) * config.endurance * config.out <= soc1 - config.lo
      /\ Reserved(plan[k], Towards(w, "down")) * config.endurance * config.in <= config.hi - soc1
  BY <1>1 DEF Deliverable, config
<1>6. /\ DirectionOf[l] \in {"up", "symmetric"} => l \in Towards(w, "up")
      /\ DirectionOf[l] \in {"down", "symmetric"} => l \in Towards(w, "down")
  BY DEF Towards, config
<1>. QED BY <1>2, <1>3, <1>4, <1>5, <1>6

\* What the headroom of a period has room for, in a leg's direction, is at least what a
\* plan reserves on the leg.
LEMMA RoomFacts ==
  ASSUME InRun, NEW c \in Nat, NEW before \in config.lo..config.hi, NEW after \in config.lo..config.hi,
         NEW direction \in {"up", "down", "symmetric"},
         \A s \in {before, after} :
           /\ direction \in {"up", "symmetric"} => c * (config.out * config.endurance) <= s - config.lo
           /\ direction \in {"down", "symmetric"} => c * (config.in * config.endurance) <= config.hi - s,
         NEW up, up = Clipped(Frac(Min({before, after}) - config.lo, config.out * config.endurance)),
         NEW down, down = Clipped(Frac(config.hi - Max({before, after}), config.in * config.endurance)),
         NEW y, y = CASE direction = "up" -> up [] direction = "down" -> down [] OTHER -> Lesser(up, down)
  PROVE  \E n \in Int, d \in Nat \ {0} : Is(y, n, d) /\ c * d <= n
<1>1. /\ config.lo \in Int /\ config.hi \in Int
      /\ config.out \in Nat \ {0} /\ config.in \in Nat \ {0} /\ config.endurance \in Nat \ {0}
  BY RunFacts, LegFacts
<1>2. PICK d, e \in Nat \ {0} : d = config.out * config.endurance /\ e = config.in * config.endurance
  <2>1. \A a, b \in Nat \ {0} : a * b \in Nat \ {0}
    OBVIOUS
  <2>. QED BY <1>1, <2>1
<1>3. Min({before, after}) \in {before, after} /\ Max({before, after}) \in {before, after}
  <2>1. before \in Int /\ after \in Int
    BY <1>1
  <2>2. \E x \in {before, after} : \A z \in {before, after} : x <= z
    BY <2>1
  <2>3. \E x \in {before, after} : \A z \in {before, after} : x >= z
    BY <2>1
  <2>4. Min({before, after}) \in {before, after}
    BY <2>2 DEF Min
  <2>5. Max({before, after}) \in {before, after}
    BY <2>3 DEF Max
  <2>. QED BY <2>4, <2>5
<1>4. PICK n, m \in Nat : n = Min({before, after}) - config.lo /\ m = config.hi - Max({before, after})
  BY <1>1, <1>3
<1>5. Is(up, n, d) /\ Is(down, m, e)
  BY <1>2, <1>4, ClippedIs
<1>6. /\ direction \in {"up", "symmetric"} => c * d <= n
      /\ direction \in {"down", "symmetric"} => c * e <= m
  BY <1>2, <1>3, <1>4
<1>7. y \in {up, down} /\ (direction = "up" => y = up) /\ (direction = "down" => y = down)
  BY DEF Lesser
<1>. QED BY <1>5, <1>6, <1>7

\* No leg of a reported plan sells what it cannot deliver.
LEMMA LegDelivers ==
  ASSUME InRun, NEW plan \in Feasible(w), Reports(plan), NEW k \in Periods(w), NEW l \in config.legs
  PROVE  PhantomRevenue(w, ticks[k], SocBefore(k), Length(w, k))[l] = Zero
<1> DEFINE t == w.times[k]
           length == Length(w, k)
           clearing == OrZero(ValueAtOrBefore(w.capacity[l], t, None))
           before == SocBefore(k)
           after == ticks[k].soc
           up == Clipped(Frac(Min({before, after}) - config.lo, config.out * config.endurance))
           down == Clipped(Frac(config.hi - Max({before, after}), config.in * config.endurance))
           feasible == CASE DirectionOf[l] = "up" -> up
                         [] DirectionOf[l] = "down" -> down
                         [] OTHER -> Lesser(up, down)
           paid == Whole(clearing * length)
           committed == ticks[k].legRevenue[l] ** Inverted(paid)
<1>1. PhantomRevenue(w, ticks[k], SocBefore(k), Length(w, k))[l]
        = IF clearing = 0 \/ length <= 0 THEN Zero ELSE Shortfall(committed, feasible) ** paid
  <2>1. ticks[k].time = t
    BY DEF Reports, PlannedTick
  <2>. QED BY <2>1 DEF PhantomRevenue, config
<1> HIDE DEF feasible, up, down
<1>2. SUFFICES ASSUME clearing # 0, ~(length <= 0)
               PROVE  Shortfall(committed, feasible) ** paid = Zero
  BY <1>1
<1>3. clearing \in Int /\ length \in Nat \ {0}
  <2>1. IsSeries(w.capacity[l])
    BY LegFacts
  <2>2. ValueAtOrBefore(w.capacity[l], t, None) \in Int \cup {None}
    BY <2>1, ValueFacts
  <2>. QED BY <1>2, <2>2, LengthFacts DEF OrZero
<1>4. PICK c \in Nat : c = plan[k].cap[l]
  <2>1. plan[k] \in Flows(config)
    BY DEF Feasible, config
  <2>. QED BY <2>1, ReserveFacts
<1>5. PICK n \in Int, d \in Nat \ {0} : Is(feasible, n, d) /\ c * d <= n
  <2>1. /\ before = Stored(w, plan, k - 1) /\ after = Stored(w, plan, k)
    BY SocBeforeIsStored
  <2>2. before \in config.lo..config.hi /\ after \in config.lo..config.hi
    <3>1. k - 1 \in 0..Len(w.times) /\ k \in 0..Len(w.times)
      BY RunFacts
    <3>. QED BY <2>1, <3>1, BandFacts
  <2>3. DirectionOf[l] \in {"up", "down", "symmetric"}
    BY LegFacts
  <2>4. \A s \in {before, after} :
          /\ DirectionOf[l] \in {"up", "symmetric"} =>
               c * (config.out * config.endurance) <= s - config.lo
          /\ DirectionOf[l] \in {"down", "symmetric"} =>
               c * (config.in * config.endurance) <= config.hi - s
    BY <1>4, <2>1, PlanDelivers
  <2> HIDE DEF before, after
  <2>. QED BY <1>4, <2>2, <2>3, <2>4, RoomFacts DEF feasible, up, down
<1>6. PICK r \in Int : r = clearing * length /\ r # 0
  <2>1. \A a \in Int, b \in Nat \ {0} : a # 0 => a * b # 0 /\ a * b \in Int
    OBVIOUS
  <2>. QED BY <1>2, <1>3, <2>1
<1>7. PICK e \in Nat : e <= c /\ ticks[k].legRevenue[l] = Whole(r * e)
  <2>1. ticks[k].legRevenue[l] = Whole(LegRevenue(plan[k], SettlementPrices(w)[k], l, length))
    BY DEF Reports, PlannedTick, Settled, config
  <2>2. SettlementPrices(w)[k].capacity[l]
          = ValueAtOrBefore(w.capacity[l], t, NativePeriod2(w.capacity[l]))
    BY DEF SettlementPrices, PricesFrom, config
  <2>3. SettlementPrices(w)[k].capacity[l] \in {None, ValueAtOrBefore(w.capacity[l], t, None)}
    <3>1. IsSeries(w.capacity[l])
      BY LegFacts
    <3>. QED BY <2>2, <3>1, ValueFacts
  <2>4. LegRevenue(plan[k], SettlementPrices(w)[k], l, length)
          = OrZero(SettlementPrices(w)[k].capacity[l]) * c * length
    BY <1>4 DEF LegRevenue
  <2>5. OrZero(SettlementPrices(w)[k].capacity[l]) \in {0, clearing}
    BY <2>3 DEF OrZero
  <2>6. PICK a, b \in Int : a = clearing /\ b = length
    BY <1>3
  <2>7. CASE OrZero(SettlementPrices(w)[k].capacity[l]) = 0
    <3>1. 0 * c * b = r * 0
      BY <2>6
    <3>. QED BY <2>1, <2>4, <2>6, <2>7, <3>1
  <2>8. CASE OrZero(SettlementPrices(w)[k].capacity[l]) = clearing
    <3>1. a * c * b = (a * b) * c
      BY <2>6
    <3>. QED BY <1>6, <2>1, <2>4, <2>6, <2>8, <3>1
  <2>. QED BY <2>5, <2>7, <2>8
<1>8. committed = Frac(e, 1)
  <2>1. CASE r < 0
    <3>1. Inverted(paid) = <<-1, -r>>
      BY <1>6, <2>1 DEF Inverted, Whole
    <3>2. committed = Frac((r * e) * (-1), 1 * (-r))
      BY <1>7, <3>1 DEF **, Whole
    <3>3. (r * e) * (-1) \in Int /\ 1 * (-r) \in Nat \ {0}
      BY <2>1
    <3>4. ((r * e) * (-1)) * 1 = e * (1 * (-r))
      OBVIOUS
    <3>. QED BY <3>2, <3>3, <3>4, FracSame
  <2>2. CASE ~(r < 0)
    <3>1. Inverted(paid) = <<1, r>>
      BY <1>6, <2>2 DEF Inverted, Whole
    <3>2. committed = Frac((r * e) * 1, 1 * r)
      BY <1>7, <3>1 DEF **, Whole
    <3>3. (r * e) * 1 \in Int /\ 1 * r \in Nat \ {0}
      BY <1>6, <2>2
    <3>4. ((r * e) * 1) * 1 = e * (1 * r)
      OBVIOUS
    <3>. QED BY <3>2, <3>3, <3>4, FracSame
  <2>. QED BY <2>1, <2>2
<1>9. e * d <= n
  <2>1. e * d <= c * d /\ e * d \in Int /\ c * d \in Int
    BY <1>7
  <2>. QED BY <1>5, <2>1
<1>10. Shortfall(committed, feasible) = Zero
  BY <1>5, <1>8, <1>9, NoShortfall
<1>11. Zero ** paid = Zero
  <2>1. Zero ** paid = Frac(0 * r, 1 * 1)
    BY <1>6 DEF **, Zero, Whole
  <2>2. 0 * r = 0 /\ 1 * 1 = 1
    OBVIOUS
  <2>. QED BY <2>1, <2>2, FracOfZero
<1>. QED BY <1>10, <1>11

\* A planned run's record is that of a feasible plan.
PlannedInv == InRun /\ (Planned => \E plan \in Feasible(w) : Reports(plan))

LEMMA PlannedInit == Init => PlannedInv
BY DEF Init, PlannedInv, InRun, Planned, config

LEMMA StepKeepsPlanned == PlannedInv /\ [Next]_vars => PlannedInv'
<1> SUFFICES ASSUME PlannedInv, [Next]_vars PROVE PlannedInv'
  OBVIOUS
<1>1. w' = w /\ config' = config
  BY DEF Next, Tick, Dispatch, vars, config
<1>2. CASE UNCHANGED vars
  BY <1>1, <1>2 DEF vars, PlannedInv, InRun, Planned, Reports
<1>3. CASE Tick
  BY <1>1, <1>3 DEF Tick, PlannedInv, InRun, Planned
<1>4. CASE Dispatch
  <2>1. PICK plan \in Optimal(w) : ticks' = [i \in Periods(w) |-> PlannedTick(w, plan, i)]
    BY <1>4 DEF Dispatch
  <2>2. plan \in Feasible(w) /\ Reports(plan)'
    BY <1>1, <2>1 DEF Optimal, BestOf, Reports
  <2>. QED BY <1>1, <2>2 DEF PlannedInv, InRun
<1>. QED BY <1>2, <1>3, <1>4 DEF Next

LEMMA PlansAreDelivered == PlannedInv => PlansHaveNoPhantom
<1> SUFFICES ASSUME PlannedInv, Planned, NEW k \in DOMAIN ticks
             PROVE  SumOver(PhantomRevenue(w, ticks[k], SocBefore(k), Length(w, k))) = Zero
  BY DEF PlansHaveNoPhantom
<1>1. PICK plan \in Feasible(w) : Reports(plan)
  BY DEF PlannedInv
<1>2. InRun /\ k \in Periods(w)
  BY <1>1 DEF PlannedInv, Reports
<1> DEFINE phantom == PhantomRevenue(w, ticks[k], SocBefore(k), Length(w, k))
           none == [l \in config.legs |-> 0]
<1>3. DOMAIN phantom = config.legs /\ IsFiniteSet(config.legs)
  BY <1>2, LegFacts DEF PhantomRevenue, config
<1>4. \A l \in config.legs : phantom[l] = Zero
  BY <1>1, <1>2, LegDelivers
<1>5. Is(Zero, 0, 1)
  BY DEF Is, Fractions, Zero, Whole
<1>6. OnInts(none, config.legs) /\ \A l \in config.legs : none[l] = 0
  BY DEF OnInts
<1> HIDE DEF phantom, none
<1>7. SumOver(phantom) = Frac(SumFunctionOnSet(none, config.legs), 1)
  <2>1. \A l \in config.legs : Is(phantom[l], none[l], 1)
    BY <1>4, <1>5, <1>6
  <2>. QED BY <1>3, <1>6, <2>1, SumOverCommon
<1>8. SumFunctionOnSet(none, config.legs) = 0
  <2>1. SumFunctionOnSet(none, {}) = SumFunctionOnSet(none, config.legs)
    BY <1>3, <1>6, SumIgnoresZeros
  <2>. QED BY <2>1, FS_EmptySet, SumUnfolds
<1>. QED BY <1>7, <1>8, FracOfZero DEF phantom

\* The replay that looks for reserve a result could not have delivered finds none in what
\* the co-optimiser reports: its headroom binds at both ends of every period.
THEOREM PlansDeliver == Spec => []PlansHaveNoPhantom
BY PlannedInit, StepKeepsPlanned, PlansAreDelivered, PTL DEF Spec

-----------------------------------------------------------------------------
(* A plan is worth its settlement.                                         *)

\* A period's revenues, kept as fractions, come to the whole number the program counts.
LEMMA ValueIs ==
  ASSUME NEW f \in Nat \ {0}, NEW r \in Nat \ {0}, NEW p \in Nat, NEW e \in Int, NEW s \in Int,
         NEW a \in Int, NEW y, Is(y, s, 1)
  PROVE  Is(Whole(r) ** ((Frac(f * e, f) ++ y) ++ (Whole(p) ** Frac(a, r))), r * (e + s) + p * a, 1)
<1>1. Is(Frac(f * e, f), e, 1)
  <2>1. f * e \in Int /\ (f * e) * 1 = e * f
    OBVIOUS
  <2>2. Frac(f * e, f) = Frac(e, 1)
    BY <2>1, FracSame
  <2>. QED BY <2>2, FracIs
<1>2. Is(Frac(f * e, f) ++ y, e + s, 1)
  <2>1. Frac(f * e, f) ++ y = Frac(e + s, 1)
    BY <1>1, AddedIs
  <2>. QED BY <2>1, FracIs
<1>3. Is(Frac(f * e, f) ++ y, (e + s) * r, r)
  <2>1. PICK t \in Int : t = e + s
    OBVIOUS
  <2>2. Is(Frac(f * e, f) ++ y, t * r, 1 * r)
    BY <1>2, <2>1, IsScales
  <2>3. 1 * r = r
    OBVIOUS
  <2>. QED BY <2>1, <2>2, <2>3
<1>4. Is(Whole(p) ** Frac(a, r), p * a, r)
  <2>1. Is(Whole(p), p, 1) /\ Is(Frac(a, r), a, r)
    BY WholeIs, FracIs
  <2>2. Whole(p) ** Frac(a, r) = Frac(p * a, 1 * r)
    BY <2>1, TimesIs
  <2>3. 1 * r = r /\ p * a \in Int
    OBVIOUS
  <2>. QED BY <2>2, <2>3, FracIs
<1>5. PICK m \in Int, n \in Int : m = (e + s) * r /\ n = p * a
  <2>1. (e + s) * r \in Int /\ p * a \in Int
    OBVIOUS
  <2>. QED BY <2>1
<1>6. PICK x : x = (Frac(f * e, f) ++ y) ++ (Whole(p) ** Frac(a, r))
  OBVIOUS
<1>7. Is(x, m + n, r)
  <2>1. x = Frac(m + n, r)
    BY <1>3, <1>4, <1>5, <1>6, AddedIs
  <2>. QED BY <2>1, FracIs
<1>8. Whole(r) ** x = Frac(r * (m + n), 1 * r)
  BY <1>7, WholeIs, TimesIs
<1>9. Frac(r * (m + n), 1 * r) = Frac(m + n, 1)
  <2>1. r * (m + n) \in Int /\ 1 * r \in Nat \ {0} /\ (r * (m + n)) * 1 = (m + n) * (1 * r)
    OBVIOUS
  <2>. QED BY <2>1, FracSame
<1>10. m + n = r * (e + s) + p * a
  BY <1>5
<1>11. Is(Frac(m + n, 1), m + n, 1)
  BY FracIs
<1>. QED BY <1>6, <1>8, <1>9, <1>10, <1>11

\* A currency factor is a natural number.
LEMMA PegFacts == \A currency : PegFactor(currency) \in Nat
BY PegAssumption DEF PegFactor

\* Prices are whole or missing.
LEMMA SettlementFacts ==
  ASSUME InRun, NEW i \in Periods(w)
  PROVE  LET prices == SettlementPrices(w)[i]
         IN /\ \A m \in config.energyMarkets : OrZero(prices.energy[m]) \in Int
            /\ \A l \in config.legs : OrZero(prices.capacity[l]) \in Int
            /\ OrZero(prices.activation) \in Int
<1> DEFINE prices == SettlementPrices(w)[i]
           t == w.times[i]
<1>1. /\ \A m \in config.energyMarkets : prices.energy[m] = ValueAtOrBefore(w.energy[m], t, None)
      /\ \A l \in config.legs :
           prices.capacity[l] = ValueAtOrBefore(w.capacity[l], t, NativePeriod2(w.capacity[l]))
      /\ prices.activation = ValueAtOrBefore(w.activation, t, NativePeriod2(w.activation))
  BY DEF SettlementPrices, PricesFrom, config
<1> HIDE DEF prices, t
<1>2. ASSUME NEW s, IsSeries(s), NEW staleness
      PROVE  OrZero(ValueAtOrBefore(s, t, staleness)) \in Int
  <2>1. ValueAtOrBefore(s, t, staleness) \in Int \cup {None}
    BY <1>2, ValueFacts
  <2>. QED BY <2>1 DEF OrZero
<1>3. \A m \in config.energyMarkets : OrZero(prices.energy[m]) \in Int
  BY <1>1, <1>2, LegFacts
<1>4. \A l \in config.legs : OrZero(prices.capacity[l]) \in Int
  BY <1>1, <1>2, LegFacts
<1>5. OrZero(prices.activation) \in Int
  BY <1>1, <1>2, LegFacts
<1>. QED BY <1>3, <1>4, <1>5 DEF prices

\* What the parts of a period's revenue are.
LEMMA RevenueFacts ==
  ASSUME InRun, NEW plan \in Feasible(w), NEW i \in Periods(w)
  PROVE  LET prices == SettlementPrices(w)[i]
             length == Length(w, i)
         IN /\ EnergyRevenue(w, plan[i], prices, length) \in Int
            /\ \A l \in config.legs : LegRevenue(plan[i], prices, l, length) \in Int
            /\ ActivationRevenue(w, plan[i], prices, length) \in Int
<1> DEFINE prices == SettlementPrices(w)[i]
           length == Length(w, i)
           flow == plan[i]
<1>1. flow \in Flows(config) /\ length \in Nat
  BY LengthFacts DEF Feasible, config
<1>2. /\ \A m \in config.energyMarkets : OrZero(prices.energy[m]) \in Int
      /\ \A l \in config.legs : OrZero(prices.capacity[l]) \in Int
      /\ OrZero(prices.activation) \in Int
  BY SettlementFacts
<1> HIDE DEF prices, length, flow
<1>3. \A a, b \in Int : a * b \in Int
  OBVIOUS
<1>4. EnergyRevenue(w, flow, prices, length) \in Int
  <2> DEFINE f == [m \in config.energyMarkets |->
                     PegFactor(CurrencyOf[m]) * OrZero(prices.energy[m])
                       * (flow.dis[m] - flow.ch[m])]
  <2>1. ASSUME NEW m \in config.energyMarkets PROVE f[m] \in Int
    <3>1. flow.dis[m] \in Int /\ flow.ch[m] \in Int
      BY <1>1, RunFacts DEF Flows
    <3>2. flow.dis[m] - flow.ch[m] \in Int /\ PegFactor(CurrencyOf[m]) \in Int
      BY <3>1, PegFacts
    <3>3. PegFactor(CurrencyOf[m]) * OrZero(prices.energy[m]) \in Int
      BY <1>2, <1>3, <3>2
    <3>4. PegFactor(CurrencyOf[m]) * OrZero(prices.energy[m]) * (flow.dis[m] - flow.ch[m]) \in Int
      BY <1>3, <3>2, <3>3
    <3>. QED BY <3>4
  <2>2. EnergyRevenue(w, flow, prices, length)
          = SumFunctionOnSet(f, config.energyMarkets) * length
    BY DEF EnergyRevenue, SumFunction, config
  <2> HIDE DEF f
  <2>3. SumFunctionOnSet(f, config.energyMarkets) \in Int
    BY <2>1, RunFacts, SumType DEF OnInts
  <2>. QED BY <1>1, <1>3, <2>2, <2>3
<1>5. ASSUME NEW l \in config.legs PROVE LegRevenue(flow, prices, l, length) \in Int
  <2>1. flow.cap[l] \in Int
    BY <1>1, ReserveFacts
  <2>2. OrZero(prices.capacity[l]) * flow.cap[l] \in Int
    BY <1>2, <1>3, <2>1
  <2>3. OrZero(prices.capacity[l]) * flow.cap[l] * length \in Int
    BY <1>1, <1>3, <2>2
  <2>. QED BY <2>3 DEF LegRevenue
<1>6. ActivationRevenue(w, flow, prices, length) \in Int
  <2>1. Reserved(flow, ActivationLegs(w)) \in Int
    <3>1. ActivationLegs(w) \in SUBSET config.legs
      BY DEF ActivationLegs, config
    <3>. QED BY <1>1, <3>1, ReserveFacts
  <2>2. config.rate[1] \in Int
    BY LegFacts
  <2>3. OrZero(prices.activation) * Reserved(flow, ActivationLegs(w)) \in Int
    BY <1>2, <1>3, <2>1
  <2>4. OrZero(prices.activation) * Reserved(flow, ActivationLegs(w)) * config.rate[1] \in Int
    BY <1>3, <2>2, <2>3
  <2>5. OrZero(prices.activation) * Reserved(flow, ActivationLegs(w)) * config.rate[1] * length \in Int
    BY <1>1, <1>3, <2>4
  <2>. QED BY <2>5 DEF ActivationRevenue, config
<1>. QED BY <1>4, <1>5, <1>6 DEF prices, length, flow

\* What a period adds to the total.
Worth(tick) ==
  Whole(config.rate[2])
    ** (Frac(tick.energyRevenue, config.in * config.out)
        ++ SumOver([l \in config.legs |-> Whole(PegFactor(CurrencyOf[l])) ** tick.legRevenue[l]])
        ++ (Whole(Peg) ** tick.activation))

\* A planned tick is worth what the plan counted for its period.
LEMMA WorthIs ==
  ASSUME InRun, NEW plan \in Feasible(w), Reports(plan), NEW i \in Periods(w)
  PROVE  /\ PeriodValue(w, plan[i], SettlementPrices(w)[i], Length(w, i)) \in Int
         /\ Is(Worth(ticks[i]), PeriodValue(w, plan[i], SettlementPrices(w)[i], Length(w, i)), 1)
<1> DEFINE prices == SettlementPrices(w)[i]
           length == Length(w, i)
           flow == plan[i]
           energy == EnergyRevenue(w, flow, prices, length)
           activation == ActivationRevenue(w, flow, prices, length)
           perLeg == [l \in config.legs |-> PegFactor(CurrencyOf[l]) * LegRevenue(flow, prices, l, length)]
           paid == [l \in config.legs |-> Whole(PegFactor(CurrencyOf[l])) ** ticks[i].legRevenue[l]]
           legs == SumFunctionOnSet(perLeg, config.legs)
<1>1. /\ energy \in Int /\ activation \in Int
      /\ \A l \in config.legs : LegRevenue(flow, prices, l, length) \in Int
  BY RevenueFacts
<1>2. /\ ticks[i].energyRevenue = config.in * config.out * energy
      /\ ticks[i].activation = Frac(activation, config.rate[2])
      /\ \A l \in config.legs :
           ticks[i].legRevenue[l] = Whole(LegRevenue(flow, prices, l, length))
  BY DEF Reports, PlannedTick, Settled, config
<1>3. /\ config.in * config.out \in Nat \ {0} /\ config.rate[2] \in Nat \ {0} /\ Peg \in Nat
      /\ IsFiniteSet(config.legs)
  <2>1. \A a, b \in Nat \ {0} : a * b \in Nat \ {0}
    OBVIOUS
  <2>. QED BY <2>1, RunFacts, LegFacts, PegAssumption
<1>4. ASSUME NEW l \in config.legs
      PROVE  perLeg[l] \in Int /\ Is(paid[l], perLeg[l], 1)
  <2>1. PICK a, b \in Int : a = PegFactor(CurrencyOf[l]) /\ b = LegRevenue(flow, prices, l, length)
    BY <1>1, PegFacts
  <2>2. paid[l] = Whole(a) ** Whole(b) /\ perLeg[l] = a * b
    BY <1>2, <2>1
  <2>3. a * b \in Int /\ 1 * 1 = 1
    OBVIOUS
  <2>4. Whole(a) ** Whole(b) = Frac(a * b, 1 * 1)
    BY WholeIs, TimesIs
  <2>. QED BY <2>2, <2>3, <2>4, FracIs
<1>5. DOMAIN paid = config.legs
  OBVIOUS
<1>6. Worth(ticks[i]) = Whole(config.rate[2])
                          ** ((Frac(config.in * config.out * energy, config.in * config.out)
                                 ++ SumOver(paid))
                              ++ (Whole(Peg) ** Frac(activation, config.rate[2])))
  BY <1>2 DEF Worth
<1>7. PeriodValue(w, flow, prices, length) = config.rate[2] * (energy + legs) + Peg * activation
  BY DEF PeriodValue, SumFunction, config
<1> HIDE DEF perLeg, paid, energy, activation, prices, length, flow
<1>8. legs \in Int /\ Is(SumOver(paid), legs, 1)
  BY <1>3, <1>4, <1>5, SumOverCommon DEF OnInts
<1> HIDE DEF legs
<1>9. PICK f, r \in Nat \ {0} : f = config.in * config.out /\ r = config.rate[2]
  BY <1>3
<1>10. PICK p \in Nat : p = Peg
  BY <1>3
<1>11. r * (energy + legs) + p * activation \in Int
  BY <1>1, <1>8
<1>12. Is(Whole(r) ** ((Frac(f * energy, f) ++ SumOver(paid)) ++ (Whole(p) ** Frac(activation, r))),
          r * (energy + legs) + p * activation, 1)
  BY <1>1, <1>8, ValueIs
<1>. QED BY <1>6, <1>7, <1>9, <1>10, <1>11, <1>12 DEF prices, length, flow

LEMMA PlannedWorth == PlannedInv => PreNeverBeatsPost
<1> SUFFICES ASSUME PlannedInv, Planned
             PROVE  \E plan \in Feasible(w) :
                      TotalWorth \preceq Whole(PlanValue(w, plan, SettlementPrices(w)))
  BY DEF PreNeverBeatsPost
<1>1. PICK plan \in Feasible(w) : Reports(plan)
  BY DEF PlannedInv
<1>2. InRun /\ DOMAIN ticks = Periods(w)
  BY <1>1 DEF PlannedInv, Reports
<1>3. IsFiniteSet(Periods(w))
  <2>1. Periods(w) = 1..Len(w.times) /\ 1 \in Int /\ Len(w.times) \in Int
    BY <1>2, RunFacts
  <2>. QED BY <2>1, FS_Interval
<1> DEFINE worth == [k \in Periods(w) |-> Worth(ticks[k])]
           values == [i \in Periods(w) |->
                        PeriodValue(w, plan[i], SettlementPrices(w)[i], Length(w, i))]
           value == SumFunctionOnSet(values, Periods(w))
<1>4. TotalWorth = SumOver(worth)
  BY <1>2 DEF TotalWorth, Worth
<1>5. PlanValue(w, plan, SettlementPrices(w)) = value
  BY DEF PlanValue, SumFunction
<1>6. /\ OnInts(values, Periods(w)) /\ DOMAIN worth = Periods(w)
      /\ \A k \in Periods(w) : Is(worth[k], values[k], 1)
  BY <1>1, <1>2, WorthIs DEF OnInts
<1> HIDE DEF worth, values
<1>7. value \in Int /\ Is(TotalWorth, value, 1)
  BY <1>3, <1>4, <1>6, SumOverCommon
<1>8. Is(Whole(value), value, 1)
  BY <1>7, WholeIs
<1>9. TotalWorth \preceq Whole(value)
  BY <1>7, <1>8, PrecedesIs
<1>. QED BY <1>5, <1>9

\* A planned run reports, settled at the actual prices, exactly what the plan it follows is
\* worth at them, so never more than the best plan for those prices.
THEOREM PlansWorthTheirSettlement == Spec => []PreNeverBeatsPost
BY PlannedInit, StepKeepsPlanned, PlannedWorth, PTL DEF Spec

-----------------------------------------------------------------------------
(* The shares of the committed power add up.                               *)

\* What the legs' trailing windows hold.
WindowsTyped ==
  \A l \in config.legs : short[l] \in Seq(Int) /\ baseline[l] \in Seq(Int)

\* The markets are finitely many, and each has a leg.
LEMMA MarketFacts ==
  ASSUME InRun
  PROVE  /\ IsFiniteSet(Markets)
         /\ \A m \in Markets : IsFiniteSet(LegsOf(m)) /\ Cardinality(LegsOf(m)) \in Nat \ {0}
<1>1. IsFiniteSet(config.legs)
  BY LegFacts
<1>2. IsFiniteSet(Markets)
  <2> DEFINE f == [l \in config.legs |-> MarketOf[l]]
  <2>1. f \in Surjection(config.legs, Markets)
    BY DEF Surjection, Markets
  <2> HIDE DEF f
  <2>. QED BY <1>1, <2>1, FS_Surjection DEF ExistsSurjection
<1>3. ASSUME NEW m \in Markets
      PROVE  IsFiniteSet(LegsOf(m)) /\ Cardinality(LegsOf(m)) \in Nat \ {0}
  <2>1. LegsOf(m) \subseteq config.legs /\ LegsOf(m) # {}
    BY DEF LegsOf, Markets
  <2>2. IsFiniteSet(LegsOf(m))
    BY <1>1, <2>1, FS_Subset
  <2>3. Cardinality(LegsOf(m)) \in Nat /\ Cardinality(LegsOf(m)) # 0
    BY <2>1, <2>2, FS_CardinalityType, FS_EmptySet
  <2>. QED BY <2>2, <2>3
<1>. QED BY <1>2, <1>3

\* No group is of negative strength.
LEMMA GroupStrengthFacts ==
  ASSUME InRun, WindowsTyped
  PROVE  DOMAIN GroupStrength = Markets /\ \A m \in Markets : GroupStrength[m] \in NonNegative
<1>1. DOMAIN GroupStrength = Markets
  BY DEF GroupStrength
<1>2. ASSUME NEW m \in Markets PROVE GroupStrength[m] \in NonNegative
  <2> DEFINE f == [l \in LegsOf(m) |-> LegRelativeStrength(short[l], baseline[l])]
  <2>1. GroupStrength[m] = SumOver(f) ** <<1, Cardinality(DOMAIN f)>> /\ DOMAIN f = LegsOf(m)
    BY DEF GroupStrength, Mean
  <2>2. \A l \in LegsOf(m) : f[l] \in NonNegative
    BY StrengthFacts DEF WindowsTyped, LegsOf
  <2> HIDE DEF f
  <2>3. IsFiniteSet(LegsOf(m)) /\ Cardinality(LegsOf(m)) \in Nat \ {0}
    BY MarketFacts
  <2>4. SumOver(f) \in NonNegative
    BY <2>1, <2>2, <2>3, SumOverAmounts
  <2>5. <<1, Cardinality(LegsOf(m))>> \in NonNegative
    BY <2>3 DEF NonNegative
  <2>. QED BY <2>1, <2>4, <2>5, TimesAmount
<1>. QED BY <1>1, <1>2

\* The groups' shares, over a common denominator, add up to the commitment at most.
Shared(g) ==
  \E d \in Nat \ {0} : \E nums :
    /\ OnInts(nums, Markets)
    /\ \A m \in Markets : Is(g[m], nums[m], d) /\ nums[m] >= 0
    /\ SumFunctionOnSet(nums, Markets) <= config.commit * d

\* Even shares add up to the commitment.
LEMMA EvenSharesAddUp ==
  ASSUME InRun
  PROVE  Shared(EvenShares)
<1>1. config.commit \in Nat /\ IsFiniteSet(Markets)
  BY RunFacts, MarketFacts
<1>2. CASE Markets = {}
  <2> DEFINE nums == [m \in Markets |-> 0]
  <2>1. SumFunctionOnSet(nums, {}) = 0
    <3> HIDE DEF nums
    <3>. QED BY FS_EmptySet, SumUnfolds
  <2>2. 0 <= config.commit * 1 /\ 1 \in Nat \ {0}
    BY <1>1
  <2>3. OnInts(nums, Markets)
    BY DEF OnInts
  <2> HIDE DEF nums
  <2>. QED BY <1>2, <2>1, <2>2, <2>3 DEF Shared
<1>3. CASE Markets # {}
  <2> DEFINE d == Cardinality(Markets)
             nums == [m \in Markets |-> config.commit]
             ones == [m \in Markets |-> 1]
  <2>1. d \in Nat \ {0}
    BY <1>1, <1>3, FS_CardinalityType, FS_EmptySet
  <2>2. \A m \in Markets : EvenShares[m] = Frac(config.commit, d)
    BY DEF EvenShares
  <2>3. OnInts(nums, Markets) /\ OnInts(ones, Markets)
    BY <1>1 DEF OnInts
  <2>4. \A m \in Markets : nums[m] = config.commit /\ ones[m] = 1
    OBVIOUS
  <2> HIDE DEF nums, ones, d
  <2>5. SumFunctionOnSet(ones, Markets) = d
    BY <1>1, <2>4, SumCounts DEF d
  <2>6. SumFunctionOnSet(nums, Markets) <= config.commit * SumFunctionOnSet(ones, Markets)
    <3>1. PICK c \in Int : c = config.commit
      BY <1>1
    <3>2. \A m \in Markets : nums[m] <= c * ones[m]
      BY <2>4, <3>1
    <3>. QED BY <1>1, <2>3, <3>1, <3>2, SumAtMost
  <2>7. \A m \in Markets : Is(EvenShares[m], nums[m], d) /\ nums[m] >= 0
    BY <1>1, <2>1, <2>2, <2>4, FracIs
  <2>. QED BY <2>1, <2>3, <2>5, <2>6, <2>7 DEF Shared
<1>. QED BY <1>2, <1>3

\* The ranked shares: each group's strength in the sum of them all, over one denominator.
LEMMA RankedSharesAre ==
  ASSUME InRun, WindowsTyped, ~NoSignal
  PROVE  \E d \in Nat \ {0}, total \in Nat \ {0} : \E nums :
           /\ OnInts(nums, Markets) /\ total = SumFunctionOnSet(nums, Markets)
           /\ \A m \in Markets :
                /\ nums[m] \in Nat
                /\ Is(GroupStrength[m], nums[m], d)
                /\ Is(RankedShares[m], config.commit * nums[m], total)
<1>1. config.commit \in Nat /\ IsFiniteSet(Markets)
  BY RunFacts, MarketFacts
<1>2. PICK d \in Nat \ {0} : \E nums : /\ OnInts(nums, Markets)
                                       /\ \A m \in Markets : Is(GroupStrength[m], nums[m], d)
  <2>1. \A m \in Markets : GroupStrength[m] \in Fractions
    BY GroupStrengthFacts DEF NonNegative, Fractions
  <2>. QED BY <1>1, <2>1, CommonDenominator
<1>3. PICK nums : OnInts(nums, Markets) /\ \A m \in Markets : Is(GroupStrength[m], nums[m], d)
  BY <1>2
<1>4. \A m \in Markets : nums[m] \in Nat
  BY <1>3, GroupStrengthFacts, AmountIs DEF OnInts
<1>5. PICK total \in Int : /\ total = SumFunctionOnSet(nums, Markets)
                           /\ Is(SumOver(GroupStrength), total, d)
  BY <1>1, <1>3, GroupStrengthFacts, SumOverCommon
<1>6. total \in Nat \ {0}
  <2>1. Is(Zero, 0, d)
    BY DEF Is, Fractions, Zero, Whole
  <2>2. SumOver(GroupStrength) \preceq Zero <=> total <= 0
    BY <1>5, <2>1, PrecedesIs
  <2>3. total > 0
    BY <2>2 DEF NoSignal
  <2>. QED BY <2>3
<1>7. Is(Inverted(SumOver(GroupStrength)), d, total)
  BY <1>5, <1>6, InvertedIs
<1>8. ASSUME NEW m \in Markets
      PROVE  Is(RankedShares[m], config.commit * nums[m], total)
  <2>1. RankedShares[m] = Whole(config.commit)
                            ** (GroupStrength[m] ** Inverted(SumOver(GroupStrength)))
    BY DEF RankedShares
  <2>2. PICK n, c \in Nat : n = nums[m] /\ c = config.commit
    BY <1>1, <1>4
  <2>3. n * d \in Nat /\ c * n \in Nat /\ c * (n * d) \in Nat
    OBVIOUS
  <2>4. d * total \in Nat \ {0} /\ 1 * (d * total) \in Nat \ {0}
    BY <1>6
  <2>5. Is(GroupStrength[m] ** Inverted(SumOver(GroupStrength)), n * d, d * total)
    <3>1. Is(GroupStrength[m], n, d)
      BY <1>3, <2>2
    <3>2. GroupStrength[m] ** Inverted(SumOver(GroupStrength)) = Frac(n * d, d * total)
      BY <1>6, <1>7, <3>1, TimesIs
    <3>. QED BY <2>3, <2>4, <3>2, FracIs
  <2>6. Is(Whole(c), c, 1)
    BY DEF Is, Fractions, Whole
  <2>7. RankedShares[m] = Frac(c * (n * d), 1 * (d * total))
    BY <2>1, <2>2, <2>3, <2>4, <2>5, <2>6, TimesIs
  <2>8. (c * (n * d)) * total = (c * n) * (1 * (d * total))
    OBVIOUS
  <2>9. RankedShares[m] = Frac(c * n, total)
    BY <1>6, <2>3, <2>4, <2>7, <2>8, FracSame
  <2>. QED BY <1>6, <2>2, <2>3, <2>9, FracIs
<1>. QED BY <1>3, <1>4, <1>5, <1>6, <1>8

\* So do ranked ones.
LEMMA RankedSharesAddUp ==
  ASSUME InRun, WindowsTyped
  PROVE  Shared(RankedShares)
<1>1. config.commit \in Nat /\ IsFiniteSet(Markets)
  BY RunFacts, MarketFacts
<1>2. CASE NoSignal
  <2>1. RankedShares = EvenShares
    BY <1>2 DEF RankedShares
  <2>. QED BY <2>1, EvenSharesAddUp
<1>3. CASE ~NoSignal
  <2>1. PICK total \in Nat \ {0} : \E nums :
           /\ OnInts(nums, Markets) /\ total = SumFunctionOnSet(nums, Markets)
           /\ \A m \in Markets : /\ nums[m] \in Nat
                                 /\ Is(RankedShares[m], config.commit * nums[m], total)
    BY <1>3, RankedSharesAre
  <2>2. PICK nums :
           /\ OnInts(nums, Markets) /\ total = SumFunctionOnSet(nums, Markets)
           /\ \A m \in Markets : /\ nums[m] \in Nat
                                 /\ Is(RankedShares[m], config.commit * nums[m], total)
    BY <2>1
  <2>3. PICK c \in Nat : c = config.commit
    BY <1>1
  <2> DEFINE tops == [m \in Markets |-> c * nums[m]]
  <2>4. \A m \in Markets : tops[m] \in Nat /\ tops[m] = c * nums[m]
    BY <2>2, Product
  <2>5. \A m \in Markets : Is(RankedShares[m], tops[m], total) /\ tops[m] >= 0
    BY <2>2, <2>3, <2>4
  <2> HIDE DEF tops
  <2>6. OnInts(tops, Markets)
    BY <2>4 DEF OnInts
  <2>7. SumFunctionOnSet(tops, Markets) <= c * total
    <3>1. \A m \in Markets : tops[m] <= c * nums[m]
      BY <2>4
    <3>. QED BY <1>1, <2>2, <2>6, <3>1, SumAtMost
  <2>. QED BY <2>3, <2>5, <2>6, <2>7 DEF Shared
<1>. QED BY <1>2, <1>3

\* A leg has an equal part of its group's share, so that no selection of legs reserves
\* more than the commitment.
LEMMA ReservedFacts ==
  ASSUME InRun, WindowsTyped, NEW covered \in SUBSET config.legs
  PROVE  \E n \in Int, d \in Nat \ {0} :
           Is(SumOver([l \in covered |-> LegShares[l]]), n, d) /\ n <= config.commit * d
<1>1. /\ config.commit \in Nat /\ IsFiniteSet(Markets) /\ IsFiniteSet(config.legs)
      /\ IsFiniteSet(covered)
  BY RunFacts, MarketFacts, LegFacts, FS_Subset
<1>2. Shared(GroupShares)
  BY EvenSharesAddUp, RankedSharesAddUp DEF GroupShares
<1>3. PICK d \in Nat \ {0} : \E nums :
        /\ OnInts(nums, Markets)
        /\ \A m \in Markets : Is(GroupShares[m], nums[m], d) /\ nums[m] >= 0
        /\ SumFunctionOnSet(nums, Markets) <= config.commit * d
  BY <1>2 DEF Shared
<1>4. PICK nums :
        /\ OnInts(nums, Markets)
        /\ \A m \in Markets : Is(GroupShares[m], nums[m], d) /\ nums[m] >= 0
        /\ SumFunctionOnSet(nums, Markets) <= config.commit * d
  BY <1>3
<1> DEFINE size(m) == Cardinality(LegsOf(m))
           parts == [m \in Markets |-> <<1, size(m)>>]
<1>5. \A m \in Markets : size(m) \in Nat \ {0} /\ parts[m] \in Fractions /\ parts[m] = <<1, size(m)>>
  BY MarketFacts DEF Fractions
<1>6. PICK e \in Nat \ {0} : \E inv : /\ OnInts(inv, Markets)
                                      /\ \A m \in Markets : Is(parts[m], inv[m], e)
  <2> HIDE DEF parts
  <2>. QED BY <1>1, <1>5, CommonDenominator
<1>7. PICK inv : OnInts(inv, Markets) /\ \A m \in Markets : Is(parts[m], inv[m], e)
  BY <1>6
<1> HIDE DEF parts
<1>8. ASSUME NEW m \in Markets
      PROVE  inv[m] \in Nat /\ e = inv[m] * size(m)
  <2>1. PICK s \in Nat \ {0} : s = size(m) /\ parts[m] = <<1, s>>
    BY <1>5
  <2>2. PICK i \in Int : i = inv[m] /\ 1 * e = i * s
    BY <1>7, <2>1 DEF OnInts, Is
  <2>3. i >= 0
    <3>1. ASSUME i < 0 PROVE FALSE
      <4>1. i * s < 0
        BY <3>1
      <4>. QED BY <2>2, <4>1
    <3>. QED BY <3>1
  <2>. QED BY <2>1, <2>2, <2>3
<1> DEFINE each == [m \in Markets |-> nums[m] * inv[m]]
           tops == [l \in config.legs |-> each[MarketOf[l]]]
           groups == [m \in Markets |-> size(m) * each[m]]
           bottom == d * e
<1>9. bottom \in Nat \ {0}
  OBVIOUS
<1>10. ASSUME NEW m \in Markets
       PROVE  each[m] \in Nat /\ groups[m] = e * nums[m] /\ groups[m] \in Int
  <2>1. PICK i, n \in Nat : i = inv[m] /\ n = nums[m]
    BY <1>4, <1>8 DEF OnInts
  <2>2. PICK s \in Nat : s = size(m) /\ e = i * s
    BY <1>5, <1>8, <2>1
  <2>3. s * (n * i) = (i * s) * n /\ n * i \in Nat /\ s * (n * i) \in Int
    OBVIOUS
  <2>. QED BY <2>1, <2>2, <2>3
<1>11. \A l \in config.legs : MarketOf[l] \in Markets
  BY DEF Markets
<1>12. ASSUME NEW l \in config.legs
       PROVE  Is(LegShares[l], tops[l], bottom) /\ tops[l] \in Nat
  <2>1. PICK m \in Markets : m = MarketOf[l]
    BY <1>11
  <2>2. LegShares[l] = GroupShares[m] ** parts[m]
    BY <1>5, <2>1 DEF LegShares
  <2>3. PICK i, n \in Int : i = inv[m] /\ n = nums[m]
    BY <1>4, <1>8 DEF OnInts
  <2>4. Is(GroupShares[m], n, d) /\ Is(parts[m], i, e)
    BY <1>4, <1>7, <2>3
  <2>5. n * i \in Int
    OBVIOUS
  <2>6. Is(LegShares[l], n * i, bottom)
    <3>1. LegShares[l] = Frac(n * i, d * e)
      BY <2>2, <2>4, TimesIs
    <3>. QED BY <1>9, <2>5, <3>1, FracIs
  <2>7. each[m] = n * i /\ each[m] \in Nat
    BY <1>10, <2>3
  <2>8. tops[l] = each[m]
    BY <2>1
  <2> HIDE DEF tops, each, bottom
  <2>. QED BY <2>6, <2>7, <2>8
<1>13. /\ \A l \in config.legs : tops[l] = each[MarketOf[l]]
       /\ \A m \in Markets : groups[m] = size(m) * each[m]
  BY <1>11
<1> HIDE DEF each, tops, groups
<1>14. OnInts(tops, config.legs) /\ OnInts(tops, covered) /\ OnInts(each, Markets)
       /\ OnInts(groups, Markets)
  BY <1>10, <1>12 DEF OnInts
<1>15. SumFunctionOnSet(tops, covered) <= SumFunctionOnSet(tops, config.legs)
  BY <1>1, <1>12, <1>14, SumPart
<1>16. SumFunctionOnSet(tops, config.legs) = SumFunctionOnSet(groups, Markets)
  <2>1. ASSUME NEW m \in Markets
        PROVE  groups[m] = Cardinality(Called(config.legs, MarketOf, m)) * each[m]
    <3>1. LegsOf(m) = Called(config.legs, MarketOf, m)
      BY DEF LegsOf, Called
    <3>. QED BY <1>13, <3>1
  <2>. QED BY <1>1, <1>11, <1>13, <1>14, <2>1, SumGrouped
<1>17. SumFunctionOnSet(groups, Markets) <= e * SumFunctionOnSet(nums, Markets)
  <2>1. \A m \in Markets : groups[m] <= e * nums[m]
    BY <1>10
  <2>. QED BY <1>1, <1>4, <1>14, <2>1, SumAtMost
<1>18. e * SumFunctionOnSet(nums, Markets) <= config.commit * bottom
  <2>1. PICK a, c \in Int : a = SumFunctionOnSet(nums, Markets) /\ c = config.commit /\ a <= c * d
    BY <1>1, <1>4, SumType
  <2>2. e * a <= e * (c * d)
    BY <2>1
  <2>3. e * (c * d) = c * (d * e)
    OBVIOUS
  <2>. QED BY <2>1, <2>2, <2>3
<1> DEFINE shares == [l \in covered |-> LegShares[l]]
<1>19. /\ SumFunctionOnSet(tops, covered) \in Int
       /\ Is(SumOver(shares), SumFunctionOnSet(tops, covered), bottom)
  <2>1. \A l \in covered : Is(shares[l], tops[l], bottom)
    BY <1>12
  <2>2. DOMAIN shares = covered
    OBVIOUS
  <2> HIDE DEF shares, bottom
  <2>. QED BY <1>1, <1>9, <1>14, <2>1, <2>2, SumOverCommon
<1>20. SumFunctionOnSet(tops, covered) <= config.commit * bottom
  <2>1. /\ SumFunctionOnSet(groups, Markets) \in Int /\ SumFunctionOnSet(tops, config.legs) \in Int
        /\ SumFunctionOnSet(nums, Markets) \in Int
    BY <1>1, <1>4, <1>14, SumType
  <2>. QED BY <1>1, <1>9, <1>15, <1>16, <1>17, <1>18, <1>19, <2>1
<1>. QED BY <1>9, <1>19, <1>20

-----------------------------------------------------------------------------
(* Power is sold once.                                                     *)

\* What is reserved, over a common denominator, and what is traded at a power of at most a
\* fit the power of the battery, if the reserve and a do.
LEMMA PowerFits ==
  ASSUME InRun, NEW reserved, NEW n \in Int, NEW d \in Nat \ {0}, Is(reserved, n, d),
         NEW length \in Nat, NEW change \in Int, NEW a \in Nat, n + a * d <= config.power * d,
         change >= 0 => change <= config.in * a * length,
         change < 0 => -change <= config.out * a * length
  PROVE  ((reserved ** Whole(length))
            ++ (IF change >= 0 THEN Frac(change, config.in) ELSE Frac(-change, config.out)))
           \preceq (Whole(config.power) ** Whole(length))
<1>1. config.power \in Nat /\ config.in \in Nat \ {0} /\ config.out \in Nat \ {0}
  BY RunFacts
<1>2. PICK p \in Nat : p = config.power
  BY <1>1
<1>3. PICK u \in Nat, f \in Nat \ {0} :
        /\ (IF change >= 0 THEN Frac(change, config.in) ELSE Frac(-change, config.out)) = Frac(u, f)
        /\ u <= f * a * length
  <2>1. CASE change >= 0
    BY <1>1, <2>1
  <2>2. CASE change < 0
    <3>1. -change \in Nat /\ ~(change >= 0)
      BY <2>2
    <3>. QED BY <1>1, <2>2, <3>1
  <2>. QED BY <2>1, <2>2
<1> DEFINE left == (n * length) * f
           right == u * d
           bottom == d * f
           whole == ((p * length) * d) * f
<1>4. left \in Int /\ right \in Int /\ bottom \in Nat \ {0} /\ whole \in Int
  OBVIOUS
<1>5. Is(reserved ** Whole(length), left, bottom)
  <2>1. Is(Whole(length), length, 1)
    BY DEF Is, Fractions, Whole
  <2>2. reserved ** Whole(length) = Frac(n * length, d * 1)
    BY <2>1, TimesIs
  <2>3. n * length \in Int /\ d * 1 = d
    OBVIOUS
  <2>4. Is(reserved ** Whole(length), n * length, d)
    BY <2>2, <2>3, FracIs
  <2>. QED BY <2>3, <2>4, IsScales
<1>6. Is(Frac(u, f), right, bottom)
  <2>1. Is(Frac(u, f), u, f)
    BY FracIs
  <2>2. Is(Frac(u, f), u * d, f * d)
    BY <2>1, IsScales
  <2>3. f * d = d * f
    OBVIOUS
  <2>. QED BY <2>2, <2>3
<1>7. Is(Whole(p) ** Whole(length), whole, bottom)
  <2>1. Is(Whole(length), length, 1) /\ Is(Whole(p), p, 1)
    BY DEF Is, Fractions, Whole
  <2>2. Whole(p) ** Whole(length) = Frac(p * length, 1 * 1)
    BY <2>1, TimesIs
  <2>3. p * length \in Int /\ 1 * 1 = 1
    OBVIOUS
  <2>4. Is(Whole(p) ** Whole(length), p * length, 1)
    BY <2>2, <2>3, FracIs
  <2>5. Is(Whole(p) ** Whole(length), (p * length) * (d * f), 1 * (d * f))
    <3>1. d * f \in Nat \ {0}
      OBVIOUS
    <3>. QED BY <2>3, <2>4, <3>1, IsScales
  <2>6. 1 * (d * f) = d * f /\ (p * length) * (d * f) = ((p * length) * d) * f
    OBVIOUS
  <2>. QED BY <2>5, <2>6
<1>8. left + right <= whole
  <2>1. right <= f * a * length * d
    <3>1. PICK b \in Nat : b = f * a * length
      OBVIOUS
    <3>2. u * d <= b * d
      BY <1>3, <3>1
    <3>. QED BY <3>1, <3>2
  <2>2. left + f * a * length * d = (f * length) * (n + a * d)
    <3>1. (f * length) * (n + a * d) = (f * length) * n + (f * length) * (a * d)
      OBVIOUS
    <3>2. (f * length) * n = left
      OBVIOUS
    <3>3. (f * length) * (a * d) = f * a * length * d
      OBVIOUS
    <3>. QED BY <3>1, <3>2, <3>3
  <2>3. (f * length) * (n + a * d) <= (f * length) * (p * d)
    <3>1. PICK x \in Int, y \in Int, c \in Nat : x = n + a * d /\ y = p * d /\ c = f * length
      OBVIOUS
    <3>2. x <= y
      BY <1>2, <3>1
    <3>3. c * x <= c * y
      BY <3>2
    <3>. QED BY <3>1, <3>3
  <2>4. (f * length) * (p * d) = whole
    OBVIOUS
  <2>5. f * a * length * d \in Int /\ (f * length) * (n + a * d) \in Int
    OBVIOUS
  <2> HIDE DEF left, right, whole
  <2>. QED BY <1>4, <2>1, <2>2, <2>3, <2>4, <2>5
<1> HIDE DEF left, right, whole, bottom
<1>9. (reserved ** Whole(length)) ++ Frac(u, f) = Frac(left + right, bottom)
  BY <1>4, <1>5, <1>6, AddedIs
<1>10. Is((reserved ** Whole(length)) ++ Frac(u, f), left + right, bottom)
  <2>1. left + right \in Int
    BY <1>4
  <2>. QED BY <1>4, <1>9, <2>1, FracIs
<1>11. left + right \in Int
  BY <1>4
<1>12. ((reserved ** Whole(length)) ++ Frac(u, f)) \preceq (Whole(p) ** Whole(length))
  BY <1>4, <1>7, <1>8, <1>10, <1>11, PrecedesIs
<1>. QED BY <1>2, <1>3, <1>12

\* The property, period by period of the window.
PowerAt(k) ==
  LET change == ticks[k].soc - SocBefore(k)
      traded == IF change >= 0 THEN Frac(change, config.in) ELSE Frac(-change, config.out)
      length == Whole(Length(w, k))
  IN ((ticks[k].reserved ** length) ++ traded) \preceq (Whole(config.power) ** length)

LEMMA PowerByPeriod ==
  ASSUME NEW n \in Nat, DOMAIN ticks = 1..n, \A k \in 1..n : PowerAt(k)
  PROVE  PowerSoldOnce
BY DEF PowerSoldOnce, PowerAt, Length

\* What a period of a plan stores.
LEMMA StoredSteps ==
  ASSUME InRun, NEW plan \in Feasible(w), NEW k \in Periods(w)
  PROVE  Stored(w, plan, k) - Stored(w, plan, k - 1)
           = (config.in * Charged(plan[k]) - config.out * Discharged(plan[k])) * Length(w, k)
<1> DEFINE term(j) == (w.config.in * Charged(plan[j])
                         - w.config.out * Discharged(plan[j])) * Length(w, j)
           all == [j \in 1..k |-> term(j)]
           before == [j \in 1..(k - 1) |-> term(j)]
<1>1. /\ Len(w.times) \in Nat /\ Periods(w) = 1..Len(w.times) /\ k \in 1..Len(w.times)
      /\ config.start \in Int /\ config.in \in Int /\ config.out \in Int
  BY RunFacts
<1>2. 1..k \subseteq Periods(w) /\ 1..(k - 1) \subseteq 1..k /\ (1..k) \ {k} = 1..(k - 1)
      /\ k \in 1..k
  BY <1>1
<1>3. ASSUME NEW j \in 1..k PROVE term(j) \in Int
  <2>1. Charged(plan[j]) \in Nat /\ Discharged(plan[j]) \in Nat /\ Length(w, j) \in Nat
    BY <1>2, PlanFacts
  <2>2. PICK c, d, e \in Nat : /\ c = Charged(plan[j]) /\ d = Discharged(plan[j])
                               /\ e = Length(w, j)
    BY <2>1
  <2>3. (config.in * c - config.out * d) * e \in Int
    BY <1>1
  <2>. QED BY <2>2, <2>3 DEF config
<1>4. IsFiniteSet(1..k) /\ IsFiniteSet(1..(k - 1))
  <2>1. 1 \in Int /\ k \in Int /\ k - 1 \in Int
    BY <1>1
  <2>. QED BY <2>1, FS_Interval
<1>5. OnInts(all, 1..k) /\ OnInts(before, 1..(k - 1))
      /\ \A j \in 1..(k - 1) : before[j] = all[j]
      /\ all[k] = term(k)
  <2> HIDE DEF term
  <2>. QED BY <1>2, <1>3 DEF OnInts
<1>6. /\ Stored(w, plan, k) = config.start + SumFunctionOnSet(all, 1..k)
      /\ Stored(w, plan, k - 1) = config.start + SumFunctionOnSet(before, 1..(k - 1))
  BY DEF Stored, SumFunction, config
<1>7. term(k) = (config.in * Charged(plan[k]) - config.out * Discharged(plan[k])) * Length(w, k)
  BY DEF config
<1>8. PICK v \in Int : v = term(k) /\ all[k] = v
  BY <1>2, <1>3, <1>5
<1> HIDE DEF all, before, term
<1>9. SumFunctionOnSet(all, 1..k) = v + SumFunctionOnSet(all, 1..(k - 1))
  <2>1. SumFunctionOnSet(all, 1..k) = all[k] + SumFunctionOnSet(all, (1..k) \ {k})
    BY <1>2, <1>4, <1>5, SumTakes
  <2>. QED BY <1>2, <1>8, <2>1, Zenon
<1>10. /\ SumFunctionOnSet(before, 1..(k - 1)) = SumFunctionOnSet(all, 1..(k - 1))
       /\ SumFunctionOnSet(before, 1..(k - 1)) \in Int
  BY <1>4, <1>5, SumSame, SumType
<1>. QED BY <1>1, <1>6, <1>7, <1>8, <1>9, <1>10

\* A feasible plan sells its power once.
LEMMA PlannedPower ==
  ASSUME InRun, NEW plan \in Feasible(w), Reports(plan), NEW k \in Periods(w)
  PROVE  PowerAt(k)
<1>1. plan[k] \in Flows(config)
  BY DEF Feasible, config
<1>2. PICK ch, dis, r, e \in Nat : /\ ch = Charged(plan[k]) /\ dis = Discharged(plan[k])
                                   /\ r = Reserved(plan[k], config.legs) /\ e = Length(w, k)
  BY <1>1, PlanFacts, ReserveFacts
<1>3. ch + dis + r <= config.power
  BY <1>1, <1>2 DEF Flows
<1>4. PICK x, y \in Nat \ {0}, p \in Nat : x = config.in /\ y = config.out /\ p = config.power
  BY RunFacts
<1>5. PICK change \in Int : /\ change = ticks[k].soc - SocBefore(k)
                            /\ change = (x * ch - y * dis) * e
  <2>1. (x * ch - y * dis) * e \in Int
    OBVIOUS
  <2>2. ticks[k].soc - SocBefore(k) = Stored(w, plan, k) - Stored(w, plan, k - 1)
    BY SocBeforeIsStored
  <2>3. ticks[k].soc - SocBefore(k) = (x * ch - y * dis) * e
    BY <1>2, <1>4, <2>2, StoredSteps
  <2>. QED BY <2>1, <2>3
<1>6. ticks[k].reserved = Whole(r)
  BY <1>2 DEF Reports, PlannedTick, config
<1>7. Is(Whole(r), r, 1)
  BY DEF Is, Fractions, Whole
<1>8. (x * ch - y * dis) * e = x * ch * e - y * dis * e
  OBVIOUS
<1>9. x * ch * e \in Nat /\ y * dis * e \in Nat
  OBVIOUS
<1>10. CASE change >= 0
  <2>1. change <= config.in * ch * e
    <3>1. PICK g, h \in Nat : g = x * ch * e /\ h = y * dis * e
      BY <1>9
    <3>2. change = g - h
      BY ONLY <1>5, <1>8, <3>1
    <3>3. change <= g
      BY <3>2
    <3>. QED BY <1>4, <3>1, <3>3
  <2>2. r + ch * 1 <= config.power * 1
    BY <1>3, <1>4
  <2>3. ~(change < 0)
    BY <1>10
  <2>4. ((ticks[k].reserved ** Whole(e))
            ++ (IF change >= 0 THEN Frac(change, config.in) ELSE Frac(-change, config.out)))
           \preceq (Whole(config.power) ** Whole(e))
    <3>1. change >= 0 => change <= config.in * ch * e
      BY <2>1, <2>3
    <3>2. change < 0 => -change <= config.out * ch * e
      BY <2>1, <2>3
    <3>. QED BY <1>6, <1>7, <2>2, <3>1, <3>2, PowerFits
  <2>. QED BY <1>2, <1>5, <2>4 DEF PowerAt
<1>11. CASE change < 0
  <2>1. -change <= config.out * dis * e
    <3>1. PICK g, h \in Nat : g = x * ch * e /\ h = y * dis * e
      BY <1>9
    <3>2. change = g - h
      BY ONLY <1>5, <1>8, <3>1
    <3>3. -change <= h
      BY <3>2
    <3>. QED BY <1>4, <3>1, <3>3
  <2>2. r + dis * 1 <= config.power * 1
    BY <1>3, <1>4
  <2>3. ~(change >= 0)
    BY <1>11
  <2>4. ((ticks[k].reserved ** Whole(e))
            ++ (IF change >= 0 THEN Frac(change, config.in) ELSE Frac(-change, config.out)))
           \preceq (Whole(config.power) ** Whole(e))
    <3>1. change >= 0 => change <= config.in * dis * e
      BY <2>1, <2>3
    <3>2. change < 0 => -change <= config.out * dis * e
      BY <2>1, <2>3
    <3>. QED BY <1>6, <1>7, <2>2, <3>1, <3>2, PowerFits
  <2>. QED BY <1>2, <1>5, <2>4 DEF PowerAt
<1>. QED BY <1>10, <1>11

\* Remembering a price keeps the windows well-formed.
LEMMA RememberType ==
  ASSUME InRun, NEW window, \A l \in config.legs : window[l] \in Seq(Int), NEW n \in Nat, NEW t
  PROVE  \A l \in config.legs : Remember(window, n, Quotes(t))[l] \in Seq(Int)
<1> SUFFICES ASSUME NEW l \in config.legs
             PROVE  Remember(window, n, Quotes(t))[l] \in Seq(Int)
  OBVIOUS
<1>1. CASE l \in Covered(Quotes(t))
  <2>1. Quotes(t)[l] \in Int
    BY <1>1, QuoteFacts DEF Covered
  <2>2. Append(window[l], Quotes(t)[l]) \in Seq(Int)
    BY <2>1, AppendProperties
  <2>3. Newest(Append(window[l], Quotes(t)[l]), n) \in Seq(Int)
    BY <2>2, NewestType
  <2>. QED BY <1>1, <2>3 DEF Remember
<1>2. CASE l \notin Covered(Quotes(t))
  BY <1>2 DEF Remember
<1>. QED BY <1>1, <1>2

\* A period of the threshold engine trades with what is not reserved.
LEMMA MovePower ==
  ASSUME InRun, WindowsTyped, soc \in config.lo..config.hi, dischargeWindow \in Seq(Entry),
         NEW t \in Int, NEW x, NEW length \in Nat, NEW covered \in SUBSET config.legs,
         NEW change, change = Move(t, x, length).soc - soc
  PROVE  ((SumOver([l \in covered |-> LegShares[l]]) ** Whole(length))
            ++ (IF change >= 0 THEN Frac(change, config.in) ELSE Frac(-change, config.out)))
           \preceq (Whole(config.power) ** Whole(length))
<1>1. PICK n \in Int, d \in Nat \ {0} :
        Is(SumOver([l \in covered |-> LegShares[l]]), n, d) /\ n <= config.commit * d
  BY ReservedFacts
<1>2. PICK a \in Nat, p, c \in Nat : /\ a = ArbitragePower /\ p = config.power /\ c = config.commit
                                     /\ a = p - c
  BY RunFacts DEF ArbitragePower
<1>3. n + a * d <= config.power * d
  <2>1. a * d = p * d - c * d
    BY <1>2
  <2>2. p * d \in Int /\ c * d \in Int
    OBVIOUS
  <2>. QED BY <1>1, <1>2, <2>1, <2>2
<1>4. PICK g, h \in Nat : /\ g = ChargeAmount(length) /\ h = DischargeAmount(length)
                          /\ g <= config.in * a * length /\ h <= config.out * a * length
  BY <1>2, AmountFacts
<1>5. change \in (-h)..g
  BY <1>4, MoveFacts
<1>6. config.in * a * length \in Nat /\ config.out * a * length \in Nat
  <2>1. config.in * a \in Nat /\ config.out * a \in Nat
    BY RunFacts, Product
  <2>. QED BY <2>1, Product
<1>7. change \in Int /\ change <= g /\ -change <= h
  BY <1>5
<1>8. change <= config.in * a * length /\ -change <= config.out * a * length
  BY <1>4, <1>6, <1>7
<1>. QED BY <1>1, <1>3, <1>7, <1>8, PowerFits

\* The record so far has sold its power once.
PowerInv ==
  /\ BandInv
  /\ PlannedInv
  /\ config.strategy = "threshold" =>
       /\ WindowsTyped
       /\ soc = SocBefore(position)
       /\ \A k \in 1..(position - 1) : PowerAt(k)

LEMMA PowerInit == Init => PowerInv
<1> SUFFICES ASSUME Init PROVE PowerInv
  OBVIOUS
<1>1. position = 1 /\ soc = config.start
  BY DEF Init
<1>2. WindowsTyped
  BY EmptySeq DEF Init, WindowsTyped
<1>3. soc = SocBefore(position) /\ \A k \in 1..(position - 1) : PowerAt(k)
  BY <1>1 DEF SocBefore
<1>. QED BY <1>2, <1>3, BandInit, PlannedInit DEF PowerInv

LEMMA TickKeepsPower ==
  PowerInv /\ Tick =>
    (/\ WindowsTyped
     /\ soc = SocBefore(position)
     /\ \A k \in 1..(position - 1) : PowerAt(k))'
<1> SUFFICES ASSUME PowerInv, Tick
             PROVE  /\ WindowsTyped'
                    /\ soc' = SocBefore(position)'
                    /\ \A k \in 1..(position' - 1) : PowerAt(k)'
  OBVIOUS
<1>0. PICK n : n = position - 1
  OBVIOUS
<1> DEFINE t == w.times[position]
           x == w.price[t]
           length == Length(w, position)
           move == Move(t, x, length)
           covered == Covered(Quotes(t))
           r == BessTick(t, x, length, move)
<1>1. /\ config.strategy = "threshold" /\ w' = w /\ config' = config
      /\ position \in Periods(w) /\ position' = position + 1
      /\ soc' = move.soc /\ ticks' = Append(ticks, r)
      /\ short' = Remember(short, config.lookback, Quotes(t))
      /\ baseline' = Remember(baseline, BaselineMultiplier * config.lookback, Quotes(t))
  BY DEF Tick, BookCapacity, config
<1>2. /\ InRun /\ EngineInv /\ WindowsTyped /\ soc = SocBefore(position)
      /\ \A k \in 1..(position - 1) : PowerAt(k)
  BY <1>1 DEF PowerInv, BandInv
<1>3. /\ n \in Nat /\ position = n + 1 /\ n + 1 \in 1..Len(w.times) /\ Len(w.times) \in Nat
      /\ position' = n + 2 /\ position' - 1 = n + 1
  <2>1. Len(w.times) \in Nat /\ Periods(w) = 1..Len(w.times)
    BY <1>2, RunFacts
  <2>. QED BY <1>0, <1>1, <2>1
<1>4. /\ ticks = [k \in 1..n |-> ticks[k]] /\ soc \in config.lo..config.hi
      /\ dischargeWindow \in Seq(Entry)
  BY <1>0, <1>2 DEF EngineInv
<1>5. ticks'[n + 1] = r /\ \A k \in 1..n : ticks'[k] = ticks[k]
  BY <1>1, <1>3, <1>4, LogGrows
<1>6. WindowsTyped'
  <2>1. config.lookback \in Nat /\ BaselineMultiplier * config.lookback \in Nat
    <3>1. config.lookback \in Nat
      BY <1>2, WindowAssumption DEF InRun, config
    <3>. QED BY <3>1, SeriesAssumption, Product
  <2>2. \A l \in config.legs : short'[l] \in Seq(Int)
    <3>1. \A l \in config.legs : short[l] \in Seq(Int)
      BY <1>2 DEF WindowsTyped
    <3>. QED BY <1>1, <1>2, <2>1, <3>1, RememberType
  <2>3. \A l \in config.legs : baseline'[l] \in Seq(Int)
    <3>1. \A l \in config.legs : baseline[l] \in Seq(Int)
      BY <1>2 DEF WindowsTyped
    <3>. QED BY <1>1, <1>2, <2>1, <3>1, RememberType
  <2>. QED BY <1>1, <2>2, <2>3 DEF WindowsTyped
<1>7. r.soc = move.soc /\ r.reserved = SumOver([l \in covered |-> LegShares[l]])
  BY DEF BessTick
<1>8. soc' = SocBefore(position)'
  <2>1. position' # 1 /\ ticks'[position' - 1].soc = move.soc
    BY <1>3, <1>5, <1>7
  <2>. QED BY <1>1, <2>1 DEF SocBefore
<1>9. t \in Int /\ length \in Nat /\ covered \in SUBSET config.legs
  BY <1>1, <1>2, RunFacts, LengthFacts DEF Covered
<1>10. SocBefore(n + 1)' = soc
  <2>1. CASE n = 0
    <3>1. SocBefore(n + 1)' = config'.start /\ SocBefore(position) = config.start
      BY <1>3, <2>1 DEF SocBefore
    <3>. QED BY <1>1, <1>2, <3>1
  <2>2. CASE n # 0
    <3>1. SocBefore(n + 1)' = ticks'[n].soc /\ SocBefore(position) = ticks[n].soc
      BY <1>3, <2>2 DEF SocBefore
    <3>2. ticks'[n] = ticks[n]
      BY <1>3, <1>5, <2>2
    <3>. QED BY <1>2, <3>1, <3>2
  <2>. QED BY <2>1, <2>2
<1>11. PowerAt(n + 1)'
  <2> DEFINE change == move.soc - soc
  <2>1. ((SumOver([l \in covered |-> LegShares[l]]) ** Whole(length))
            ++ (IF change >= 0 THEN Frac(change, config.in) ELSE Frac(-change, config.out)))
           \preceq (Whole(config.power) ** Whole(length))
    <3> HIDE DEF t, x, length, covered
    <3>. QED BY <1>2, <1>4, <1>9, MovePower
  <2>2. /\ ticks'[n + 1].soc - SocBefore(n + 1)' = change
        /\ ticks'[n + 1].reserved = SumOver([l \in covered |-> LegShares[l]])
        /\ Length(w, n + 1)' = length
    BY <1>1, <1>3, <1>5, <1>7, <1>10 DEF Length
  <2> HIDE DEF t, x, length, covered, move, change
  <2>. QED BY <1>1, <2>1, <2>2 DEF PowerAt
<1>12. ASSUME NEW k \in 1..n PROVE PowerAt(k)'
  <2>1. ticks'[k] = ticks[k] /\ SocBefore(k)' = SocBefore(k)
    <3>1. k # 1 => ticks'[k - 1] = ticks[k - 1]
      BY <1>3, <1>5
    <3>. QED BY <1>1, <1>5, <3>1 DEF SocBefore
  <2>2. PowerAt(k)
    BY <1>0, <1>2
  <2>. QED BY <1>1, <2>1, <2>2 DEF PowerAt, Length
<1>13. \A k \in 1..(n + 1) : k \in 1..n \/ k = n + 1
  BY <1>3
<1>. QED BY <1>3, <1>6, <1>8, <1>11, <1>12, <1>13

LEMMA StepKeepsPower == PowerInv /\ [Next]_vars => PowerInv'
<1> SUFFICES ASSUME PowerInv, [Next]_vars PROVE PowerInv'
  OBVIOUS
<1>1. BandInv' /\ PlannedInv'
  BY StepKeepsBand, StepKeepsPlanned DEF PowerInv
<1>2. CASE Tick
  BY <1>1, <1>2, TickKeepsPower DEF PowerInv
<1>3. CASE Dispatch
  <2>1. config'.strategy = "cooptimized"
    BY <1>3 DEF Dispatch, config
  <2>. QED BY <1>1, <2>1 DEF PowerInv
<1>4. CASE UNCHANGED vars
  <2>1. /\ config' = config /\ w' = w /\ ticks' = ticks /\ position' = position
        /\ soc' = soc /\ short' = short /\ baseline' = baseline
    BY <1>4 DEF vars, config
  <2>2. /\ WindowsTyped' = WindowsTyped
        /\ \A k : SocBefore(k)' = SocBefore(k)
    BY <2>1 DEF WindowsTyped, SocBefore
  <2>3. SocBefore(position)' = SocBefore(position)
    BY <2>1 DEF SocBefore
  <2>4. \A k : PowerAt(k)' = PowerAt(k)
    BY <2>1, <2>2 DEF PowerAt
  <2>. QED BY <1>1, <2>1, <2>2, <2>3, <2>4 DEF PowerInv
<1>. QED BY <1>2, <1>3, <1>4 DEF Next

LEMMA PowerInvEnough == PowerInv => PowerSoldOnce
<1> SUFFICES ASSUME PowerInv PROVE PowerSoldOnce
  OBVIOUS
<1>1. InRun /\ Len(w.times) \in Nat /\ Periods(w) = 1..Len(w.times)
  BY RunFacts DEF PowerInv, BandInv
<1>2. config.strategy \in {"threshold", "cooptimized"}
  BY <1>1 DEF InRun, ValidConfig, config
<1>3. CASE config.strategy = "threshold"
  <2>1. EngineInv /\ \A k \in 1..(position - 1) : PowerAt(k)
    BY <1>3 DEF PowerInv, BandInv
  <2>2. PICK n \in Nat : n = position - 1
    BY <1>1, <2>1 DEF EngineInv
  <2>3. DOMAIN ticks = 1..n /\ \A k \in 1..n : PowerAt(k)
    BY <2>1, <2>2 DEF EngineInv
  <2>. QED BY <2>2, <2>3, PowerByPeriod
<1>4. CASE config.strategy = "cooptimized"
  <2>1. CASE ticks = << >>
    BY <2>1 DEF PowerSoldOnce
  <2>2. CASE ticks # << >>
    <3>1. PICK plan \in Feasible(w) : Reports(plan)
      BY <1>4, <2>2 DEF PowerInv, PlannedInv, Planned
    <3>2. PICK n \in Nat : n = Len(w.times) /\ Periods(w) = 1..n
      BY <1>1
    <3>3. \A k \in 1..n : PowerAt(k)
      BY <1>1, <3>1, <3>2, PlannedPower
    <3>4. DOMAIN ticks = 1..n
      BY <3>1, <3>2 DEF Reports, PlannedTick
    <3>. QED BY <3>3, <3>4, PowerByPeriod
  <2>. QED BY <2>1, <2>2
<1>. QED BY <1>2, <1>3, <1>4

\* In every period of a run, whichever engine makes it, the reserve sold on the legs and
\* the power traded fit the battery together: the legs' shares of the commitment, as the
\* engine divides it, never add up to more than the commitment.
THEOREM PowerCorrect == Spec => []PowerSoldOnce
BY PowerInit, StepKeepsPower, PowerInvEnough, PTL DEF Spec

-----------------------------------------------------------------------------
(* The shares follow the strengths of the legs.                            *)

\* A leg's strength in its trailing windows.
StrengthNow(l) == LegRelativeStrength(short[l], baseline[l])

\* A leg that is its market's only one stands for its group, in the strengths and in the
\* shares.
LEMMA OnlyLeg ==
  ASSUME InRun, WindowsTyped, NEW l \in config.legs, Cardinality(LegsOf(MarketOf[l])) = 1,
         NEW n \in Int, NEW d \in Nat \ {0}, Is(StrengthNow(l), n, d)
  PROVE  Is(GroupStrength[MarketOf[l]], n, d)
<1>1. MarketOf[l] \in Markets /\ l \in LegsOf(MarketOf[l])
  BY DEF Markets, LegsOf
<1>2. PICK group : group = LegsOf(MarketOf[l]) /\ IsFiniteSet(group) /\ l \in group
  BY <1>1, MarketFacts
<1>3. group = {l}
  <2>1. IsFiniteSet({l}) /\ Cardinality({l}) = 1 /\ {l} \in SUBSET group
    BY <1>2, FS_Singleton
  <2>. QED BY <1>2, <2>1, FS_Subset
<1> DEFINE f == [x \in group |-> LegRelativeStrength(short[x], baseline[x])]
           nums == [x \in group |-> n]
<1>4. GroupStrength[MarketOf[l]] = SumOver(f) ** <<1, 1>>
  <2>1. DOMAIN f = group
    OBVIOUS
  <2>. QED BY <1>1, <1>2, <2>1 DEF GroupStrength, Mean
<1>5. OnInts(nums, group) /\ nums[l] = n /\ DOMAIN f = group /\ f[l] = StrengthNow(l)
  BY <1>2 DEF OnInts, StrengthNow
<1>6. \A x \in group : Is(f[x], nums[x], d)
  BY <1>3, <1>5
<1> HIDE DEF f, nums
<1>7. SumFunctionOnSet(nums, group) = n
  <2>1. SumFunctionOnSet(nums, group) = nums[l] + SumFunctionOnSet(nums, group \ {l})
    BY <1>2, <1>5, SumTakes
  <2>2. group \ {l} = {}
    BY <1>3
  <2>3. SumFunctionOnSet(nums, {}) = 0
    BY FS_EmptySet, SumUnfolds
  <2>. QED BY <1>5, <2>1, <2>2, <2>3
<1>8. Is(SumOver(f), n, d)
  BY <1>2, <1>5, <1>6, <1>7, SumOverCommon
<1>9. Is(<<1, 1>>, 1, 1)
  BY DEF Is, Fractions
<1>10. SumOver(f) ** <<1, 1>> = Frac(n * 1, d * 1)
  BY <1>8, <1>9, TimesIs
<1>11. n * 1 = n /\ d * 1 = d
  OBVIOUS
<1>. QED BY <1>4, <1>10, <1>11, FracIs

\* A strength that is not zero is a signal.
LEMMA StrengthSignals ==
  ASSUME InRun, WindowsTyped, NEW l \in config.legs, Cardinality(LegsOf(MarketOf[l])) = 1,
         StrengthNow(l) # Zero
  PROVE  ~NoSignal
<1>1. StrengthNow(l) \in NonNegative
  BY StrengthFacts DEF WindowsTyped, StrengthNow
<1>2. PICK a \in Nat, b \in Nat \ {0} : StrengthNow(l) = <<a, b>>
  BY <1>1 DEF NonNegative
<1>3. a # 0
  <2> SUFFICES ASSUME a = 0 PROVE StrengthNow(l) = Zero
    OBVIOUS
  <2>1. ASSUME NEW n \in Int, NEW d \in Nat \ {0}, StrengthNow(l) = Frac(n, d)
        PROVE  StrengthNow(l) = Zero
    <3>1. Is(<<a, b>>, n, d)
      BY <1>2, <2>1, FracIs
    <3>2. 0 * d = n * b
      BY <3>1 DEF Is
    <3>3. n = 0
      <4>1. n > 0 => n * b > 0
        OBVIOUS
      <4>2. n < 0 => n * b < 0
        OBVIOUS
      <4>. QED BY <3>2, <4>1, <4>2
    <3>. QED BY <2>1, <3>3, FracOfZero
  <2>2. CASE short[l] # << >> /\ baseline[l] # << >> /\ ~(SumOf(baseline[l]) <= 0)
    <3>1. /\ SumOf(short[l]) \in Int /\ SumOf(baseline[l]) \in Nat \ {0}
          /\ Len(short[l]) \in Nat \ {0} /\ Len(baseline[l]) \in Nat \ {0}
      <4>1. short[l] \in Seq(Int) /\ baseline[l] \in Seq(Int)
        BY DEF WindowsTyped
      <4>2. SumOf(short[l]) \in Int /\ SumOf(baseline[l]) \in Int
        BY <4>1, SumOfType
      <4>3. /\ Len(short[l]) \in Nat /\ Len(baseline[l]) \in Nat
            /\ Len(short[l]) # 0 /\ Len(baseline[l]) # 0
        BY <2>2, <4>1, LenProperties, EmptySeq
      <4>. QED BY <2>2, <4>2, <4>3
    <3>2. /\ SumOf(short[l]) * Len(baseline[l]) \in Int
          /\ Len(short[l]) * SumOf(baseline[l]) \in Nat \ {0}
      BY <3>1
    <3>3. PICK n \in Int, d \in Nat \ {0} : StrengthNow(l) = Clipped(Frac(n, d))
      BY <2>2, <3>2 DEF StrengthNow, LegRelativeStrength
    <3>. QED BY <2>1, <3>3 DEF Clipped
  <2>3. CASE ~(short[l] # << >> /\ baseline[l] # << >> /\ ~(SumOf(baseline[l]) <= 0))
    BY <2>3 DEF StrengthNow, LegRelativeStrength
  <2>. QED BY <2>2, <2>3
<1>4. Is(StrengthNow(l), a, b)
  BY <1>2 DEF Is, Fractions
<1>5. PICK m \in Markets : m = MarketOf[l] /\ Is(GroupStrength[m], a, b)
  BY <1>4, OnlyLeg DEF Markets
<1>6. IsFiniteSet(Markets) /\ DOMAIN GroupStrength = Markets
  BY MarketFacts DEF GroupStrength
<1>7. PICK d \in Nat \ {0} : \E nums : /\ OnInts(nums, Markets)
                                       /\ \A x \in Markets : Is(GroupStrength[x], nums[x], d)
  <2>1. \A x \in Markets : GroupStrength[x] \in Fractions
    BY GroupStrengthFacts DEF NonNegative, Fractions
  <2>. QED BY <1>6, <2>1, CommonDenominator
<1>8. PICK nums : OnInts(nums, Markets) /\ \A x \in Markets : Is(GroupStrength[x], nums[x], d)
  BY <1>7
<1>9. \A x \in Markets : nums[x] \in Nat
  BY <1>8, GroupStrengthFacts, AmountIs DEF OnInts
<1>10. PICK k \in Nat : k = nums[m] /\ k > 0
  <2>1. PICK k \in Nat : k = nums[m]
    BY <1>9
  <2>2. a * d = k * b
    BY <1>5, <1>8, <2>1, IsAgree
  <2>3. a * d > 0
    BY <1>3
  <2>4. k = 0 => k * b = 0
    OBVIOUS
  <2>. QED BY <2>1, <2>2, <2>3, <2>4
<1>11. PICK total \in Int : /\ total = SumFunctionOnSet(nums, Markets)
                            /\ Is(SumOver(GroupStrength), total, d)
  BY <1>6, <1>8, SumOverCommon
<1>12. total >= k
  <2>1. SumFunctionOnSet(nums, Markets) = nums[m] + SumFunctionOnSet(nums, Markets \ {m})
    BY <1>6, <1>8, SumTakes
  <2>2. IsFiniteSet(Markets \ {m}) /\ OnInts(nums, Markets \ {m})
    BY <1>6, <1>8, FS_Subset DEF OnInts
  <2>3. SumFunctionOnSet(nums, {}) = 0
    BY FS_EmptySet, SumUnfolds
  <2>4. SumFunctionOnSet(nums, {}) <= SumFunctionOnSet(nums, Markets \ {m})
    BY <1>9, <2>2, SumPart
  <2>5. SumFunctionOnSet(nums, Markets \ {m}) \in Int
    BY <2>2, SumType
  <2>. QED BY <1>10, <1>11, <2>1, <2>3, <2>4, <2>5
<1>13. Is(Zero, 0, d)
  BY DEF Is, Fractions, Zero, Whole
<1>14. SumOver(GroupStrength) \preceq Zero <=> total <= 0
  BY <1>11, <1>13, PrecedesIs
<1>. QED BY <1>10, <1>12, <1>14 DEF NoSignal

\* What a leg is paid per unit, in the value of its group's share.
LEMMA PaidPerUnit ==
  ASSUME InRun, NEW l \in config.legs, Cardinality(LegsOf(MarketOf[l])) = 1,
         NEW n \in Int, NEW d \in Nat \ {0}, Is(GroupShares[MarketOf[l]], n, d),
         NEW a \in Nat \ {0}
  PROVE  Is((Whole(a) ** LegShares[l]) ** <<1, a>>, n, d)
<1>1. Is(LegShares[l], n, d)
  <2>1. PICK share : share = GroupShares[MarketOf[l]] /\ Is(share, n, d)
    OBVIOUS
  <2>2. Is(<<1, 1>>, 1, 1)
    BY DEF Is, Fractions
  <2>3. LegShares[l] = Frac(n * 1, d * 1)
    <3>1. LegShares[l] = share ** <<1, 1>>
      BY <2>1 DEF LegShares
    <3>. QED BY <2>1, <2>2, <3>1, TimesIs
  <2>4. n * 1 = n /\ d * 1 = d
    OBVIOUS
  <2>. QED BY <2>3, <2>4, FracIs
<1>2. Is(Whole(a) ** LegShares[l], a * n, d)
  <2>1. Whole(a) ** LegShares[l] = Frac(a * n, 1 * d)
    <3>1. Is(Whole(a), a, 1)
      BY WholeIs
    <3>2. a \in Int /\ 1 \in Nat \ {0}
      OBVIOUS
    <3>. QED BY <1>1, <3>1, <3>2, TimesIs
  <2>2. 1 * d = d /\ a * n \in Int
    OBVIOUS
  <2>. QED BY <2>1, <2>2, FracIs
<1>3. Is(<<1, a>>, 1, a)
  BY DEF Is, Fractions
<1>4. (Whole(a) ** LegShares[l]) ** <<1, a>> = Frac((a * n) * 1, d * a)
  <2>1. a * n \in Int
    OBVIOUS
  <2>. QED BY <1>2, <1>3, <2>1, TimesIs
<1>5. (a * n) * 1 = n * a /\ (a * n) * 1 \in Int /\ d * a \in Nat \ {0}
  OBVIOUS
<1>6. Is((Whole(a) ** LegShares[l]) ** <<1, a>>, n * a, d * a)
  BY <1>4, <1>5, FracIs
<1>. QED BY <1>6, IsReduced

\* Two legs, each its market's only one, are weighed by their strengths.
LEMMA WeighedByStrength ==
  ASSUME InRun, WindowsTyped, config.allocation = "price_ranked",
         NEW l \in config.legs, Cardinality(LegsOf(MarketOf[l])) = 1,
         NEW m \in config.legs, Cardinality(LegsOf(MarketOf[m])) = 1,
         StrengthNow(l) # Zero \/ StrengthNow(m) # Zero,
         NEW a \in Nat \ {0}, NEW b \in Nat \ {0}
  PROVE  ((Whole(a) ** LegShares[l]) ** <<1, a>>) ** StrengthNow(m)
           = ((Whole(b) ** LegShares[m]) ** <<1, b>>) ** StrengthNow(l)
<1>1. ~NoSignal
  BY StrengthSignals
<1>2. PICK d \in Nat \ {0}, total \in Nat \ {0} : \E nums :
        \A x \in Markets : /\ nums[x] \in Nat
                           /\ Is(GroupStrength[x], nums[x], d)
                           /\ Is(RankedShares[x], config.commit * nums[x], total)
  BY <1>1, RankedSharesAre
<1>3. PICK nums : \A x \in Markets : /\ nums[x] \in Nat
                                     /\ Is(GroupStrength[x], nums[x], d)
                                     /\ Is(RankedShares[x], config.commit * nums[x], total)
  BY <1>2
<1>4. GroupShares = RankedShares /\ MarketOf[l] \in Markets /\ MarketOf[m] \in Markets
  BY DEF GroupShares, Markets
<1>5. PICK c, i, j \in Nat : c = config.commit /\ i = nums[MarketOf[l]] /\ j = nums[MarketOf[m]]
  BY <1>3, <1>4, RunFacts
<1>6. c * i \in Nat /\ c * j \in Nat
  OBVIOUS
<1>7. /\ Is((Whole(a) ** LegShares[l]) ** <<1, a>>, c * i, total)
      /\ Is((Whole(b) ** LegShares[m]) ** <<1, b>>, c * j, total)
  BY <1>3, <1>4, <1>5, <1>6, PaidPerUnit
<1>8. ASSUME NEW x \in config.legs, Cardinality(LegsOf(MarketOf[x])) = 1, NEW g \in Nat,
             g = nums[MarketOf[x]]
      PROVE  Is(StrengthNow(x), g, d)
  <2>1. StrengthNow(x) \in NonNegative
    BY StrengthFacts DEF WindowsTyped, StrengthNow
  <2>2. PICK e \in Int, f \in Nat \ {0} : StrengthNow(x) = <<e, f>>
    BY <2>1 DEF NonNegative
  <2>3. Is(StrengthNow(x), e, f)
    BY <2>2 DEF Is, Fractions
  <2>4. Is(GroupStrength[MarketOf[x]], e, f)
    BY <1>8, <2>3, OnlyLeg
  <2>5. Is(GroupStrength[MarketOf[x]], g, d)
    BY <1>3, <1>8 DEF Markets
  <2>6. e * d = g * f
    BY <2>4, <2>5, IsAgree
  <2>. QED BY <2>2, <2>6 DEF Is, Fractions
<1>9. Is(StrengthNow(l), i, d) /\ Is(StrengthNow(m), j, d)
  BY <1>5, <1>8
<1>10. /\ ((Whole(a) ** LegShares[l]) ** <<1, a>>) ** StrengthNow(m) = Frac((c * i) * j, total * d)
       /\ ((Whole(b) ** LegShares[m]) ** <<1, b>>) ** StrengthNow(l) = Frac((c * j) * i, total * d)
  BY <1>6, <1>7, <1>9, TimesIs
<1>11. (c * i) * j = (c * j) * i
  OBVIOUS
<1>. QED BY <1>10, <1>11

-----------------------------------------------------------------------------
(* The strengths are those of the past.                                    *)

\* The periods before the k-th that a leg was covered in, and the prices it cleared at.
CoveredBefore(l, k) == {j \in 1..(k - 1) : Quotes(w.times[j])[l] # None}

ClearedBefore(l, k) ==
  LET order == Ascending(CoveredBefore(l, k))
  IN [n \in DOMAIN order |-> Quotes(w.times[order[n]])[l]]

\* The covered periods are finitely many, and their prices numbers.
LEMMA ClearedFacts ==
  ASSUME InRun, NEW l \in config.legs, NEW k \in Nat \ {0}
  PROVE  /\ CoveredBefore(l, k) \in SUBSET Int /\ IsFiniteSet(CoveredBefore(l, k))
         /\ \A j \in CoveredBefore(l, k) : j < k
         /\ ClearedBefore(l, k) \in Seq(Int)
         /\ Len(ClearedBefore(l, k)) = Cardinality(CoveredBefore(l, k))
<1>1. PICK S : S = CoveredBefore(l, k)
  OBVIOUS
<1>2. S \in SUBSET Int /\ IsFiniteSet(S) /\ \A j \in S : j < k /\ Quotes(w.times[j])[l] \in Int
  <2>1. 1 \in Int /\ k - 1 \in Int
    OBVIOUS
  <2>2. IsFiniteSet(1..(k - 1))
    BY <2>1, FS_Interval
  <2>3. S \subseteq 1..(k - 1)
    BY <1>1 DEF CoveredBefore
  <2>4. \A j \in S : Quotes(w.times[j])[l] \in Int
    BY <1>1, QuoteFacts DEF CoveredBefore
  <2>5. \A j \in S : j \in Int /\ j < k
    BY <2>3
  <2>6. IsFiniteSet(S)
    BY <2>2, <2>3, FS_Subset
  <2>. QED BY <2>4, <2>5, <2>6
<1>3. PICK c \in Nat : c = Cardinality(S)
  BY <1>2, FS_CardinalityType
<1>4. DOMAIN Ascending(S) = 1..c /\ \A i \in 1..c : Ascending(S)[i] \in S
  BY <1>2, <1>3, AscendingFrom
<1>5. ClearedBefore(l, k) = [i \in 1..c |-> Quotes(w.times[Ascending(S)[i]])[l]]
  BY <1>1, <1>4 DEF ClearedBefore
<1>6. [i \in 1..c |-> Quotes(w.times[Ascending(S)[i]])[l]] \in [1..c -> Int]
  BY <1>2, <1>4
<1>7. ClearedBefore(l, k) \in Seq(Int) /\ Len(ClearedBefore(l, k)) = c
  BY <1>5, <1>6
<1>. QED BY <1>1, <1>2, <1>3, <1>7

\* The record of what was cleared grows by the period that has passed, if it was covered.
LEMMA ClearedGrows ==
  ASSUME InRun, NEW l \in config.legs, NEW k \in Nat \ {0}
  PROVE  ClearedBefore(l, k + 1) = IF l \in Covered(Quotes(w.times[k]))
                                     THEN Append(ClearedBefore(l, k), Quotes(w.times[k])[l])
                                     ELSE ClearedBefore(l, k)
<1>1. PICK S : S = CoveredBefore(l, k)
  OBVIOUS
<1>2. S \in SUBSET Int /\ IsFiniteSet(S) /\ \A j \in S : j < k
  BY <1>1, ClearedFacts
<1>3. l \in Covered(Quotes(w.times[k])) <=> Quotes(w.times[k])[l] # None
  BY DEF Covered
<1>4. 1..((k + 1) - 1) = 1..(k - 1) \cup {k}
  OBVIOUS
<1>5. CASE Quotes(w.times[k])[l] = None
  <2>1. CoveredBefore(l, k + 1) = S
    BY <1>1, <1>4, <1>5 DEF CoveredBefore
  <2>. QED BY <1>1, <1>3, <1>5, <2>1 DEF ClearedBefore
<1>6. CASE Quotes(w.times[k])[l] # None
  <2>1. CoveredBefore(l, k + 1) = S \cup {k}
    BY <1>1, <1>4, <1>6 DEF CoveredBefore
  <2>2. PICK c \in Nat : c = Cardinality(S)
    BY <1>2, FS_CardinalityType
  <2>3. PICK T : T = S \cup {k}
    OBVIOUS
  <2>4. /\ Cardinality(T) = c + 1 /\ Ascending(T)[c + 1] = k
        /\ \A i \in 1..c : Ascending(T)[i] = Ascending(S)[i]
    BY <1>2, <2>2, <2>3, AscendingAdds
  <2>5. DOMAIN Ascending(T) = 1..(c + 1) /\ DOMAIN Ascending(S) = 1..c
    BY <2>2, <2>4 DEF Ascending
  <2> DEFINE long == ClearedBefore(l, k + 1)
             short1 == ClearedBefore(l, k)
             q == Quotes(w.times[k])[l]
  <2>6. /\ long = [i \in 1..(c + 1) |-> Quotes(w.times[Ascending(T)[i]])[l]]
        /\ short1 = [i \in 1..c |-> Quotes(w.times[Ascending(S)[i]])[l]]
    BY <1>1, <2>1, <2>3, <2>5 DEF ClearedBefore
  <2>7. long[c + 1] = q /\ \A i \in 1..c : long[i] = short1[i]
    BY <2>4, <2>6
  <2>8. /\ short1 \in Seq(Int) /\ Len(short1) = c
    BY <1>1, <2>2, ClearedFacts
  <2>9. q \in Int
    BY <1>6, QuoteFacts
  <2>10. long \in Seq(Int) /\ Len(long) = c + 1
    <3>1. k + 1 \in Nat \ {0}
      OBVIOUS
    <3>. QED BY <2>1, <2>3, <2>4, <3>1, ClearedFacts
  <2> HIDE DEF long, short1, q
  <2>11. /\ Append(short1, q) \in Seq(Int) /\ Len(Append(short1, q)) = c + 1
         /\ Append(short1, q)[c + 1] = q /\ \A i \in 1..c : Append(short1, q)[i] = short1[i]
    BY <2>8, <2>9, AppendProperties
  <2>12. \A i \in 1..(c + 1) : long[i] = Append(short1, q)[i]
    <3>1. \A i \in 1..(c + 1) : i \in 1..c \/ i = c + 1
      OBVIOUS
    <3>. QED BY <2>7, <2>11, <3>1
  <2>13. long = Append(short1, q)
    BY <2>10, <2>11, <2>12, SeqEqual
  <2>. QED BY <1>3, <1>6, <2>13 DEF long, short1, q
<1>. QED BY <1>5, <1>6

\* A leg's trailing windows are the newest of what it has cleared at.
WindowsTrail ==
  \A l \in config.legs :
    /\ short[l] = Newest(ClearedBefore(l, position), config.lookback)
    /\ baseline[l] = Newest(ClearedBefore(l, position), BaselineMultiplier * config.lookback)

\* The strength of leg l before period k, by the prices it cleared at.
StrengthBefore(l, k) ==
  LegRelativeStrength(Newest(ClearedBefore(l, k), config.lookback),
                      Newest(ClearedBefore(l, k), BaselineMultiplier * config.lookback))

\* What leg l clears at in period k.
QuoteAt(l, k) == Quotes(w.times[k])[l]

\* The property, period by period of the window and pair by pair of legs.
Weighed(l, m, k) ==
  /\ OrZero(QuoteAt(l, k)) > 0 /\ OrZero(QuoteAt(m, k)) > 0
  /\ Cardinality(LegsOf(MarketOf[l])) = 1 /\ Cardinality(LegsOf(MarketOf[m])) = 1
  /\ StrengthBefore(l, k) # Zero \/ StrengthBefore(m, k) # Zero
  => (ticks[k].legRevenue[l] ** <<1, QuoteAt(l, k) * Length(w, k)>>) ** StrengthBefore(m, k)
       = (ticks[k].legRevenue[m] ** <<1, QuoteAt(m, k) * Length(w, k)>>) ** StrengthBefore(l, k)

AllocatedAt(k) == \A l, m \in config.legs : Weighed(l, m, k)

\* The windows trail the past, and the record was divided by them.
AllocInv ==
  /\ PowerInv
  /\ config.strategy = "threshold" =>
       /\ WindowsTrail
       /\ config.allocation = "price_ranked" => \A k \in 1..(position - 1) : AllocatedAt(k)

LEMMA AllocInit == Init => AllocInv
<1> SUFFICES ASSUME Init PROVE AllocInv
  OBVIOUS
<1>1. /\ position = 1 /\ config.lookback \in Nat /\ BaselineMultiplier * config.lookback \in Nat
      /\ InRun
  <2>1. position = 1 /\ InRun
    BY DEF Init, InRun, config
  <2>2. config.lookback \in Nat
    BY <2>1, WindowAssumption DEF InRun, config
  <2>. QED BY <2>1, <2>2, SeriesAssumption, Product
<1>2. ASSUME NEW l \in config.legs
      PROVE  ClearedBefore(l, position) = << >>
  <2>1. CoveredBefore(l, position) = {}
    BY <1>1 DEF CoveredBefore
  <2>2. ClearedBefore(l, position) \in Seq(Int) /\ Len(ClearedBefore(l, position)) = 0
    <3>1. position \in Nat \ {0}
      BY <1>1
    <3>2. Cardinality(CoveredBefore(l, position)) = 0
      BY <2>1, FS_EmptySet
    <3>. QED BY <1>1, <3>1, <3>2, ClearedFacts
  <2>. QED BY <2>2, EmptySeq
<1>3. \A n \in Nat : Newest(<< >>, n) = << >>
  BY DEF Newest
<1>4. WindowsTrail
  <2>1. \A l \in config.legs : short[l] = << >> /\ baseline[l] = << >>
    BY DEF Init
  <2>. QED BY <1>1, <1>2, <1>3, <2>1 DEF WindowsTrail
<1>5. \A k \in 1..(position - 1) : AllocatedAt(k)
  BY <1>1
<1>. QED BY <1>4, <1>5, PowerInit DEF AllocInv

\* A period divides the reserve by the strengths in what was cleared before it.
LEMMA PeriodAllocates ==
  ASSUME InRun, WindowsTyped, WindowsTrail, config.allocation = "price_ranked",
         position \in Periods(w), NEW l \in config.legs, NEW m \in config.legs,
         NEW quotes, quotes = Quotes(w.times[position]), NEW length, length = Length(w, position),
         OrZero(quotes[l]) > 0, OrZero(quotes[m]) > 0,
         Cardinality(LegsOf(MarketOf[l])) = 1, Cardinality(LegsOf(MarketOf[m])) = 1,
         StrengthBefore(l, position) # Zero \/ StrengthBefore(m, position) # Zero
  PROVE  ((Whole(OrZero(quotes[l]) * length) ** LegShares[l]) ** <<1, quotes[l] * length>>)
             ** StrengthBefore(m, position)
           = ((Whole(OrZero(quotes[m]) * length) ** LegShares[m]) ** <<1, quotes[m] * length>>)
               ** StrengthBefore(l, position)
<1>1. ASSUME NEW x \in {l, m}
      PROVE  /\ OrZero(quotes[x]) = quotes[x] /\ quotes[x] * length \in Nat \ {0}
             /\ StrengthBefore(x, position) = StrengthNow(x)
  <2>1. quotes[x] \in Int \cup {None} /\ OrZero(quotes[x]) > 0
    BY QuoteFacts
  <2>2. quotes[x] \in Nat \ {0} /\ OrZero(quotes[x]) = quotes[x]
    BY <2>1 DEF OrZero
  <2>3. length \in Nat \ {0}
    BY LengthPositive
  <2>4. \A a, b \in Nat \ {0} : a * b \in Nat \ {0}
    OBVIOUS
  <2>5. StrengthBefore(x, position) = StrengthNow(x)
    BY DEF StrengthBefore, StrengthNow, WindowsTrail
  <2>. QED BY <2>2, <2>3, <2>4, <2>5
<1>2. PICK a, b \in Nat \ {0} : a = quotes[l] * length /\ b = quotes[m] * length
  BY <1>1
<1>3. /\ OrZero(quotes[l]) * length = a /\ OrZero(quotes[m]) * length = b
      /\ StrengthBefore(l, position) = StrengthNow(l)
      /\ StrengthBefore(m, position) = StrengthNow(m)
  BY <1>1, <1>2
<1>4. ((Whole(a) ** LegShares[l]) ** <<1, a>>) ** StrengthNow(m)
        = ((Whole(b) ** LegShares[m]) ** <<1, b>>) ** StrengthNow(l)
  BY <1>3, WeighedByStrength
<1>. QED BY <1>2, <1>3, <1>4

LEMMA TickKeepsAlloc ==
  ASSUME AllocInv, Tick
  PROVE  WindowsTrail' /\ (config'.allocation = "price_ranked"
                             => \A k \in 1..(position' - 1) : AllocatedAt(k)')
<1>0. PICK n : n = position - 1
  OBVIOUS
<1> DEFINE t == w.times[position]
           x == w.price[t]
           length == Length(w, position)
           r == BessTick(t, x, length, Move(t, x, length))
<1>1. /\ config.strategy = "threshold" /\ w' = w /\ config' = config
      /\ position \in Periods(w) /\ position' = position + 1
      /\ ticks' = Append(ticks, r)
      /\ short' = Remember(short, config.lookback, Quotes(t))
      /\ baseline' = Remember(baseline, BaselineMultiplier * config.lookback, Quotes(t))
  BY DEF Tick, BookCapacity, config
<1>2. /\ InRun /\ EngineInv /\ WindowsTyped /\ WindowsTrail
      /\ config.allocation = "price_ranked" => \A k \in 1..(position - 1) : AllocatedAt(k)
  BY <1>1 DEF AllocInv, PowerInv, BandInv
<1>3. /\ n \in Nat /\ position = n + 1 /\ n + 1 \in 1..Len(w.times) /\ Len(w.times) \in Nat
      /\ position' = n + 2 /\ position' - 1 = n + 1
  <2>1. Len(w.times) \in Nat /\ Periods(w) = 1..Len(w.times)
    BY <1>2, RunFacts
  <2>. QED BY <1>0, <1>1, <2>1
<1>4. ticks'[n + 1] = r /\ \A k \in 1..n : ticks'[k] = ticks[k]
  <2>1. ticks = [k \in 1..n |-> ticks[k]]
    BY <1>0, <1>2 DEF EngineInv
  <2>. QED BY <1>1, <1>3, <2>1, LogGrows
<1>5. /\ \A u : Quotes(u)' = Quotes(u)
      /\ \A l, k : CoveredBefore(l, k)' = CoveredBefore(l, k)
      /\ \A m : LegsOf(m)' = LegsOf(m)
  BY <1>1 DEF Quotes, CoveredBefore, LegsOf
<1>6. \A l, k : ClearedBefore(l, k)' = ClearedBefore(l, k)
  BY <1>1, <1>5 DEF ClearedBefore
<1>7. \A l, k : StrengthBefore(l, k)' = StrengthBefore(l, k)
  BY <1>1, <1>6 DEF StrengthBefore
<1>8. WindowsTrail'
  <2>1. config.lookback \in Nat /\ BaselineMultiplier * config.lookback \in Nat
    <3>1. config.lookback \in Nat
      BY <1>2, WindowAssumption DEF InRun, config
    <3>. QED BY <3>1, SeriesAssumption, Product
  <2>2. ASSUME NEW l \in config.legs, NEW i \in Nat, NEW window,
               window[l] = Newest(ClearedBefore(l, position), i)
        PROVE  Remember(window, i, Quotes(t))[l] = Newest(ClearedBefore(l, position + 1), i)
    <3>1. position \in Nat \ {0} /\ ClearedBefore(l, position) \in Seq(Int)
      BY <1>2, <1>3, ClearedFacts
    <3>2. CASE l \in Covered(Quotes(t))
      <4>1. Quotes(t)[l] \in Int
        BY <1>2, <3>2, QuoteFacts DEF Covered
      <4>2. ClearedBefore(l, position + 1) = Append(ClearedBefore(l, position), Quotes(t)[l])
        BY <1>2, <3>1, <3>2, ClearedGrows
      <4>3. Newest(Append(Newest(ClearedBefore(l, position), i), Quotes(t)[l]), i)
              = Newest(Append(ClearedBefore(l, position), Quotes(t)[l]), i)
        BY <3>1, <4>1, NewestSlides
      <4>4. Remember(window, i, Quotes(t))[l] = Newest(Append(window[l], Quotes(t)[l]), i)
        BY <3>2 DEF Remember
      <4>. QED BY <2>2, <4>2, <4>3, <4>4
    <3>3. CASE l \notin Covered(Quotes(t))
      <4>1. ClearedBefore(l, position + 1) = ClearedBefore(l, position)
        BY <1>2, <3>1, <3>3, ClearedGrows
      <4>. QED BY <2>2, <3>3, <4>1 DEF Remember
    <3>. QED BY <3>2, <3>3
  <2>3. \A l \in config.legs :
          /\ short'[l] = Newest(ClearedBefore(l, position'), config.lookback)
          /\ baseline'[l] = Newest(ClearedBefore(l, position'), BaselineMultiplier * config.lookback)
    <3>1. \A l \in config.legs :
            /\ short[l] = Newest(ClearedBefore(l, position), config.lookback)
            /\ baseline[l] = Newest(ClearedBefore(l, position), BaselineMultiplier * config.lookback)
      BY <1>2 DEF WindowsTrail
    <3>. QED BY <1>1, <2>1, <2>2, <3>1
  <2>4. \A l : ClearedBefore(l, position)' = ClearedBefore(l, position')
    BY <1>1, <1>5 DEF ClearedBefore, CoveredBefore
  <2>. QED BY <1>1, <2>3, <2>4 DEF WindowsTrail
<1>9. \A l, k : QuoteAt(l, k)' = QuoteAt(l, k)
  BY <1>1 DEF QuoteAt, Quotes
<1>10. ASSUME config.allocation = "price_ranked", NEW k \in 1..(n + 1) PROVE AllocatedAt(k)'
  <2>1. CASE k \in 1..n
    <3>1. AllocatedAt(k) /\ ticks'[k] = ticks[k]
      BY <1>0, <1>2, <1>4, <1>10, <2>1
    <3>2. \A l, m : Weighed(l, m, k)' = Weighed(l, m, k)
      BY <1>1, <1>5, <1>7, <1>9, <3>1 DEF Weighed
    <3>. QED BY <1>1, <3>1, <3>2 DEF AllocatedAt
  <2>2. CASE k = n + 1
    <3> SUFFICES ASSUME NEW l \in config.legs, NEW m \in config.legs PROVE Weighed(l, m, k)'
      BY <1>1 DEF AllocatedAt
    <3>1. \A u \in config.legs :
            /\ r.legRevenue[u] = Whole(OrZero(Quotes(t)[u]) * length) ** LegShares[u]
            /\ QuoteAt(u, k) = Quotes(t)[u]
      BY <1>3, <2>2 DEF BessTick, QuoteAt
    <3>2. k = position /\ ticks'[k] = r /\ length = Length(w, k)
      BY <1>3, <1>4, <2>2
    <3> HIDE DEF r, length
    <3>3. SUFFICES
            ASSUME OrZero(Quotes(t)[l]) > 0, OrZero(Quotes(t)[m]) > 0,
                   Cardinality(LegsOf(MarketOf[l])) = 1, Cardinality(LegsOf(MarketOf[m])) = 1,
                   StrengthBefore(l, k) # Zero \/ StrengthBefore(m, k) # Zero
            PROVE  (r.legRevenue[l] ** <<1, Quotes(t)[l] * length>>) ** StrengthBefore(m, k)
                     = (r.legRevenue[m] ** <<1, Quotes(t)[m] * length>>) ** StrengthBefore(l, k)
      BY <1>1, <1>5, <1>7, <1>9, <3>1, <3>2 DEF Weighed
    <3>4. PICK quotes : quotes = Quotes(t)
      OBVIOUS
    <3>5. ((Whole(OrZero(quotes[l]) * length) ** LegShares[l]) ** <<1, quotes[l] * length>>)
              ** StrengthBefore(m, position)
            = ((Whole(OrZero(quotes[m]) * length) ** LegShares[m]) ** <<1, quotes[m] * length>>)
                ** StrengthBefore(l, position)
      BY <1>1, <1>2, <1>10, <3>2, <3>3, <3>4, PeriodAllocates
    <3>. QED BY <3>1, <3>2, <3>4, <3>5
  <2>. QED BY <1>3, <2>1, <2>2
<1>. QED BY <1>1, <1>3, <1>8, <1>10

LEMMA StepKeepsAlloc == AllocInv /\ [Next]_vars => AllocInv'
<1> SUFFICES ASSUME AllocInv, [Next]_vars PROVE AllocInv'
  OBVIOUS
<1>1. PowerInv'
  BY StepKeepsPower DEF AllocInv
<1>2. CASE Tick
  BY <1>1, <1>2, TickKeepsAlloc DEF AllocInv
<1>3. CASE Dispatch
  <2>1. config'.strategy = "cooptimized"
    BY <1>3 DEF Dispatch, config
  <2>. QED BY <1>1, <2>1 DEF AllocInv
<1>4. CASE UNCHANGED vars
  <2>1. /\ config' = config /\ w' = w /\ ticks' = ticks /\ position' = position
        /\ short' = short /\ baseline' = baseline
    BY <1>4 DEF vars, config
  <2>2. /\ \A u : Quotes(u)' = Quotes(u)
        /\ \A l, k : CoveredBefore(l, k)' = CoveredBefore(l, k)
        /\ \A m : LegsOf(m)' = LegsOf(m)
    BY <2>1 DEF Quotes, CoveredBefore, LegsOf
  <2>3. /\ \A l, k : ClearedBefore(l, k)' = ClearedBefore(l, k)
        /\ \A l : ClearedBefore(l, position)' = ClearedBefore(l, position)
    BY <2>1, <2>2 DEF ClearedBefore, CoveredBefore
  <2>4. \A l, k : StrengthBefore(l, k)' = StrengthBefore(l, k)
    BY <2>1, <2>3 DEF StrengthBefore
  <2>5. WindowsTrail' = WindowsTrail
    BY <2>1, <2>3 DEF WindowsTrail
  <2>6. \A l, k : QuoteAt(l, k)' = QuoteAt(l, k)
    BY <2>1 DEF QuoteAt, Quotes
  <2>7. \A l, m, k : Weighed(l, m, k)' = Weighed(l, m, k)
    BY <2>1, <2>2, <2>4, <2>6 DEF Weighed
  <2>8. \A k : AllocatedAt(k)' = AllocatedAt(k)
    BY <2>1, <2>7 DEF AllocatedAt
  <2>. QED BY <1>1, <2>1, <2>5, <2>8 DEF AllocInv
<1>. QED BY <1>2, <1>3, <1>4 DEF Next

LEMMA AllocInvEnough == AllocInv => AllocatesOnThePast
<1> SUFFICES ASSUME AllocInv, config.strategy = "threshold", config.allocation = "price_ranked",
                    NEW k \in DOMAIN ticks
             PROVE  /\ w.times[k] = ticks[k].time
                    /\ \A l \in config.legs : StrengthAt(l, k) = StrengthBefore(l, k)
                    /\ AllocatedAt(k)
  BY DEF AllocatesOnThePast, AllocatedAt, Weighed, QuoteAt, Length
<1>1. InRun /\ EngineInv /\ \A j \in 1..(position - 1) : AllocatedAt(j)
  BY DEF AllocInv, PowerInv, BandInv
<1>2. PICK n \in Nat : n = position - 1 /\ DOMAIN ticks = 1..n /\ k \in 1..n
  <2>1. Len(w.times) \in Nat
    BY <1>1, RunFacts
  <2>. QED BY <1>1, <2>1 DEF EngineInv
<1>3. \A j \in 1..n : ticks[j].time = w.times[j]
  BY <1>1, <1>2 DEF EngineInv
<1>4. ASSUME NEW l \in config.legs
      PROVE  StrengthAt(l, k) = StrengthBefore(l, k)
  <2>1. \A j \in 1..(k - 1) : ticks[j].time = w.times[j]
    BY <1>2, <1>3
  <2>2. {j \in 1..(k - 1) : Quotes(ticks[j].time)[l] # None} = CoveredBefore(l, k)
    BY <2>1 DEF CoveredBefore
  <2>3. PICK order : /\ order = Ascending(CoveredBefore(l, k))
                     /\ \A i \in DOMAIN order : order[i] \in CoveredBefore(l, k)
    BY <1>1, <1>2, ClearedFacts, AscendingFrom
  <2>4. \A i \in DOMAIN order : ticks[order[i]].time = w.times[order[i]]
    BY <2>1, <2>3 DEF CoveredBefore
  <2>5. PaidBefore(l, k) = [i \in DOMAIN order |-> Quotes(ticks[order[i]].time)[l]]
    BY <2>2, <2>3 DEF PaidBefore
  <2>6. ClearedBefore(l, k) = [i \in DOMAIN order |-> Quotes(w.times[order[i]])[l]]
    BY <2>3 DEF ClearedBefore
  <2>7. PaidBefore(l, k) = ClearedBefore(l, k)
    BY <2>4, <2>5, <2>6
  <2>. QED BY <2>7 DEF StrengthAt, StrengthBefore
<1>. QED BY <1>1, <1>2, <1>3, <1>4

\* The division of the reserve looks at the past alone: in every period two legs are
\* weighed by the clearing prices of the covered periods before it.
THEOREM AllocationIsCausal == Spec => []AllocatesOnThePast
BY AllocInit, StepKeepsAlloc, AllocInvEnough, PTL DEF Spec
=============================================================================
