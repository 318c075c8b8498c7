-------------------------- MODULE BessSeriesProofs --------------------------
(***************************************************************************)
(* Lemmas about the operators the BESS engines are built from, for any     *)
(* numbers and series: sums over finite sets, reduced fractions (what Gcd, *)
(* ++, **, \preceq and SumOver compute, by cross-multiplication), trailing *)
(* windows, look-ups in a series, and the order of its times.              *)
(***************************************************************************)
EXTENDS BessSeries, SequenceTheorems, FiniteSetTheorems, TLAPS

-----------------------------------------------------------------------------
(* Sequences.                                                              *)

\* A record that is one longer.
LEMMA LogGrows ==
  ASSUME NEW n \in Nat, NEW log, log = [k \in 1..n |-> log[k]], NEW r
  PROVE  /\ Len(log) = n
         /\ Len(Append(log, r)) = n + 1 /\ DOMAIN Append(log, r) = 1..(n + 1)
         /\ Append(log, r) = [k \in 1..(n + 1) |-> Append(log, r)[k]]
         /\ Append(log, r)[n + 1] = r
         /\ \A k \in 1..n : Append(log, r)[k] = log[k]
<1> DEFINE S == {log[k] : k \in 1..n} \cup {r}
<1>1. \A k \in 1..n : log[k] \in S
  OBVIOUS
<1>2. log \in Seq(S) /\ Len(log) = n /\ r \in S
  BY <1>1, IsASeq
<1>. QED BY <1>2, AppendProperties

\* A window of the newest n entries slides: keeping n of the kept entries and the next one
\* is keeping n of them all.
LEMMA NewestSlides ==
  ASSUME NEW S, NEW s \in Seq(S), NEW x \in S, NEW n \in Nat
  PROVE  Newest(Append(Newest(s, n), x), n) = Newest(Append(s, x), n)
<1>1. CASE Len(s) <= n
  BY <1>1 DEF Newest
<1>2. CASE Len(s) > n
  <2> DEFINE t == SubSeq(s, Len(s) - n + 1, Len(s))
             left == Append(t, x)
             right == Append(s, x)
  <2>1. Len(s) \in Nat
    BY LenProperties
  <2>2. /\ t \in Seq(S) /\ Len(t) = n
        /\ \A i \in 1..n : t[i] = s[Len(s) - n + i]
    BY <1>2, <2>1, SubSeqProperties
  <2>3. /\ left \in Seq(S) /\ Len(left) = n + 1 /\ left[n + 1] = x
        /\ \A i \in 1..n : left[i] = t[i]
    BY <2>2, AppendProperties
  <2>4. /\ right \in Seq(S) /\ Len(right) = Len(s) + 1 /\ right[Len(s) + 1] = x
        /\ \A i \in 1..Len(s) : right[i] = s[i]
    BY <2>1, AppendProperties
  <2> HIDE DEF t, left, right
  <2> DEFINE a == SubSeq(left, 2, n + 1)
             b == SubSeq(right, Len(s) - n + 2, Len(s) + 1)
  <2>5. /\ a \in Seq(S) /\ Len(a) = n
        /\ \A i \in 1..n : a[i] = left[i + 1]
    BY <2>3, SubSeqProperties
  <2>6. /\ b \in Seq(S) /\ Len(b) = n
        /\ \A i \in 1..n : b[i] = right[Len(s) - n + i + 1]
    BY <1>2, <2>1, <2>4, SubSeqProperties
  <2>7. ASSUME NEW i \in 1..n PROVE a[i] = b[i]
    <3>1. CASE i = n
      BY <2>1, <2>3, <2>4, <2>5, <2>6, <3>1
    <3>2. CASE i < n
      <4>1. a[i] = s[Len(s) - n + i + 1]
        BY <2>2, <2>3, <2>5, <3>2
      <4>2. Len(s) - n + i + 1 \in 1..Len(s)
        BY <1>2, <2>1, <3>2
      <4>. QED BY <2>4, <2>6, <4>1, <4>2
    <3>. QED BY <3>1, <3>2
  <2>8. a = b
    <3> HIDE DEF a, b
    <3>. QED BY <2>5, <2>6, <2>7, SeqEqual
  <2>9. Newest(left, n) = a
    BY <2>3 DEF Newest, a
  <2>10. Newest(right, n) = b
    BY <1>2, <2>1, <2>4 DEF Newest, b
  <2>11. Newest(s, n) = t
    BY <1>2, <2>1 DEF Newest, t
  <2>. QED BY <2>8, <2>9, <2>10, <2>11 DEF left, right
<1>. QED BY <1>1, <1>2, LenProperties

\* A trailing window of numbers is a sequence of numbers.
LEMMA NewestType ==
  ASSUME NEW s \in Seq(Int), NEW n \in Nat
  PROVE  Newest(s, n) \in Seq(Int)
<1>1. Len(s) \in Nat /\ \A i \in 1..Len(s) : s[i] \in Int
  BY LenProperties, ElementOfSeq
<1>2. CASE Len(s) <= n
  BY <1>2 DEF Newest
<1>3. CASE ~(Len(s) <= n)
  <2>1. Len(s) - n + 1 \in Int /\ Len(s) \in Int /\ \A i \in (Len(s) - n + 1)..Len(s) : s[i] \in Int
    BY <1>1, <1>3
  <2>2. SubSeq(s, Len(s) - n + 1, Len(s)) \in Seq(Int)
    BY <2>1, SubSeqProperties
  <2>. QED BY <1>3, <2>2 DEF Newest
<1>. QED BY <1>2, <1>3

-----------------------------------------------------------------------------
(* Numbers.                                                                *)

\* A set of finite sets that is not empty has a smallest one.
LEMMA SmallestSet ==
  ASSUME NEW U, NEW bad \in SUBSET FiniteSubsetsOf(U), bad # {}
  PROVE  \E S \in bad : \A T \in bad : T \subseteq S => T = S
<1> DEFINE R == StrictSubsetOrdering(U)
<1>1. IsWellFoundedOn(R, FiniteSubsetsOf(U))
  BY FS_StrictSubsetOrderingWellFounded
<1>3. PICK S \in bad : \A T \in bad : <<T, S>> \notin R
  <2> HIDE DEF R
  <2>. QED BY <1>1, WFMin
<1>4. ASSUME NEW T \in bad, T \subseteq S, T # S PROVE FALSE
  BY <1>3, <1>4 DEF StrictSubsetOrdering, FiniteSubsetsOf
<1>. QED BY <1>4

\* A set of numbers has a smallest one.
LEMMA SmallestNat ==
  ASSUME NEW S \in SUBSET Nat, S # {}
  PROVE  \E i \in S : \A k \in S : i <= k
<1> DEFINE below == {0..x : x \in S}
<1>1. below \in SUBSET FiniteSubsetsOf(Int) /\ below # {}
  <2>1. \A x \in S : IsFiniteSet(0..x) /\ 0..x \in SUBSET Int
    BY FS_Interval
  <2>. QED BY <2>1 DEF FiniteSubsetsOf
<1>2. PICK a \in below : \A b \in below : b \subseteq a => b = a
  <2> HIDE DEF below
  <2>. QED BY <1>1, SmallestSet
<1>3. PICK i \in S : a = 0..i
  OBVIOUS
<1>4. ASSUME NEW k \in S, k < i PROVE FALSE
  <2>1. 0..k \in below /\ 0..k \subseteq a /\ i \in a /\ i \notin 0..k
    BY <1>3, <1>4
  <2>. QED BY <1>2, <2>1
<1>. QED BY <1>4

\* A set of places in a sequence has a first one.
LEMMA SmallestNumber ==
  ASSUME NEW n \in Nat, NEW S \in SUBSET (1..n), S # {}
  PROVE  \E i \in S : \A k \in S : i <= k
<1>1. S \in SUBSET Nat
  OBVIOUS
<1>. QED BY <1>1, SmallestNat

\* Finitely many numbers have a largest one.
LEMMA LargestNumber ==
  ASSUME NEW U \in SUBSET Int, IsFiniteSet(U), U # {}
  PROVE  \E x \in U : \A y \in U : x >= y
<1> DEFINE Topped(S) == \E x \in S : \A y \in S : x >= y
           bad == {S \in SUBSET U : S # {} /\ ~Topped(S)}
<1>1. SUFFICES ASSUME bad # {} PROVE FALSE
  OBVIOUS
<1>2. bad \in SUBSET FiniteSubsetsOf(U)
  BY FS_Subset DEF FiniteSubsetsOf
<1>3. PICK S \in bad : \A T \in bad : T \subseteq S => T = S
  <2> HIDE DEF bad
  <2>. QED BY <1>1, <1>2, SmallestSet
<1>4. PICK x : x \in S
  OBVIOUS
<1>5. S \ {x} # {}
  <2>1. ASSUME S = {x} PROVE Topped(S)
    BY <2>1
  <2>. QED BY <1>4, <2>1
<1>6. PICK y \in S \ {x} : \A z \in S \ {x} : y >= z
  <2>1. S \ {x} \notin bad
    <3> HIDE DEF bad
    <3>. QED BY <1>3, <1>4
  <2>. QED BY <1>5, <2>1
<1>7. Topped(S)
  <2>1. x \in Int /\ \A z \in S : z \in Int
    BY <1>4
  <2>2. CASE x >= y
    BY <1>4, <1>6, <2>1, <2>2
  <2>3. CASE ~(x >= y)
    BY <1>4, <1>6, <2>1, <2>3
  <2>. QED BY <2>2, <2>3
<1>. QED BY <1>7

LEMMA Product == \A a, b \in Nat : a * b \in Nat
OBVIOUS

\* Two products with a common factor.
LEMMA Cancel ==
  ASSUME NEW a \in Int, NEW b \in Int, NEW c \in Nat \ {0}
  PROVE  /\ c * a = c * b => a = b
         /\ c * a <= c * b <=> a <= b
OBVIOUS

\* A factor divides exactly.
LEMMA DividesExactly ==
  ASSUME NEW g \in Nat \ {0}, NEW p \in Int
  PROVE  (g * p) \div g = p
OBVIOUS

\* What a division leaves, as a natural number below the divisor.
LEMMA Remainder ==
  ASSUME NEW a \in Nat, NEW b \in Nat, b > 0
  PROVE  /\ a % b \in Nat /\ a % b < b
         /\ \E q \in Nat : a = b * q + (a % b)
<1>1. a % b \in Int /\ 0 <= a % b /\ a % b < b
  OBVIOUS
<1>2. \E q \in Int : a = b * q + (a % b)
  OBVIOUS
<1>3. PICK q \in Int : a = b * q + (a % b)
  BY <1>2
<1>4. q >= 0
  <2>1. ASSUME q < 0 PROVE FALSE
    <3>1. q <= -1
      BY <2>1
    <3>2. b * q <= b * (-1)
      BY <3>1
    <3>. QED BY <1>1, <1>3, <3>2
  <2>. QED BY <2>1
<1>5. \E m \in Nat : a = b * m + (a % b)
  BY <1>3, <1>4
<1>. QED BY <1>1, <1>5

-----------------------------------------------------------------------------
(* Sums over finite sets.                                                  *)

\* The member a fold takes first.
First(s) == CHOOSE x \in s : TRUE

\* The function a sum is computed with.
Sums(g, fun, S) ==
  g = [s \in SUBSET S |-> IF s = {} THEN 0 ELSE fun[First(s)] + g[s \ {First(s)}]]

\* The library computes the sum with a recursion it chooses.
LEMMA SumIs ==
  ASSUME NEW fun, NEW S
  PROVE  SumFunctionOnSet(fun, S) = (CHOOSE g : Sums(g, fun, S))[S]
BY DEF SumFunctionOnSet, FoldFunctionOnSet, MapThenFoldSet, Sums, First

\* Two such functions agree where both are defined.
LEMMA SumsAgree ==
  ASSUME NEW fun, NEW S, IsFiniteSet(S), NEW T, S \subseteq T,
         NEW g, Sums(g, fun, S), NEW h, Sums(h, fun, T)
  PROVE  \A s \in SUBSET S : g[s] = h[s]
<1> DEFINE bad == {s \in SUBSET S : g[s] # h[s]}
<1>1. SUFFICES ASSUME bad # {} PROVE FALSE
  OBVIOUS
<1>2. bad \in SUBSET FiniteSubsetsOf(S)
  BY FS_Subset DEF FiniteSubsetsOf
<1>3. PICK s \in bad : \A t \in bad : t \subseteq s => t = s
  <2> HIDE DEF bad
  <2>. QED BY <1>1, <1>2, SmallestSet
<1>4. s # {} /\ First(s) \in s
  BY DEF Sums, First
<1>5. g[s \ {First(s)}] = h[s \ {First(s)}]
  BY <1>3, <1>4
<1>6. /\ g[s] = fun[First(s)] + g[s \ {First(s)}]
      /\ h[s] = fun[First(s)] + h[s \ {First(s)}]
  BY <1>4 DEF Sums
<1>. QED BY <1>5, <1>6

\* A sum of which there is such a function, and of its parts.
LEMMA SumOfKnown ==
  ASSUME NEW fun, NEW S, IsFiniteSet(S), S # {}, \E g : Sums(g, fun, S),
         \E g : Sums(g, fun, S \ {First(S)})
  PROVE  SumFunctionOnSet(fun, S) = fun[First(S)] + SumFunctionOnSet(fun, S \ {First(S)})
<1> DEFINE rest == S \ {First(S)}
<1>1. PICK g : g = CHOOSE f : Sums(f, fun, S)
  OBVIOUS
<1>2. PICK h : h = CHOOSE f : Sums(f, fun, rest)
  OBVIOUS
<1>3. Sums(g, fun, S) /\ Sums(h, fun, rest)
  BY <1>1, <1>2
<1>4. IsFiniteSet(rest) /\ rest \subseteq S
  BY FS_Subset
<1>5. h[rest] = g[rest]
  BY <1>3, <1>4, SumsAgree
<1>6. g[S] = fun[First(S)] + g[rest]
  BY <1>3 DEF Sums
<1>. QED BY <1>1, <1>2, <1>5, <1>6, SumIs

\* Every finite set has such a recursion.
LEMMA SumsExist ==
  ASSUME NEW fun, NEW U, IsFiniteSet(U)
  PROVE  \E g : Sums(g, fun, U)
<1> DEFINE bad == {S \in SUBSET U : ~ \E g : Sums(g, fun, S)}
<1>1. SUFFICES ASSUME bad # {} PROVE FALSE
  OBVIOUS
<1>2. bad \in SUBSET FiniteSubsetsOf(U)
  BY FS_Subset DEF FiniteSubsetsOf
<1>3. PICK S \in bad : \A T \in bad : T \subseteq S => T = S
  <2> HIDE DEF bad
  <2>. QED BY <1>1, <1>2, SmallestSet
<1>4. \A T \in SUBSET S : T # S => IsFiniteSet(T) /\ \E g : Sums(g, fun, T)
  BY <1>3, <1>2, FS_Subset
<1>5. \A T \in SUBSET S : T # {} => First(T) \in T
  BY DEF First
<1>6. \A T \in SUBSET S : T # S /\ T # {} =>
        SumFunctionOnSet(fun, T) = fun[First(T)] + SumFunctionOnSet(fun, T \ {First(T)})
  <2> SUFFICES ASSUME NEW T \in SUBSET S, T # S, T # {}
               PROVE  SumFunctionOnSet(fun, T) = fun[First(T)] + SumFunctionOnSet(fun, T \ {First(T)})
    OBVIOUS
  <2>1. T \ {First(T)} \in SUBSET S /\ T \ {First(T)} # S
    BY <1>5
  <2>. QED BY <1>4, <2>1, SumOfKnown
<1>7. ASSUME S # {} PROVE SumFunctionOnSet(fun, {}) = 0
  <2>1. PICK g : g = CHOOSE f : Sums(f, fun, {})
    OBVIOUS
  <2>2. Sums(g, fun, {})
    BY <1>4, <1>7, <2>1
  <2>3. g[{}] = 0
    BY <2>2 DEF Sums
  <2>. QED BY <2>1, <2>3, SumIs
<1> DEFINE G == [s \in SUBSET S |->
                   IF s = {} THEN 0 ELSE fun[First(s)] + SumFunctionOnSet(fun, s \ {First(s)})]
<1>8. \A s \in SUBSET S : s # {} => G[s \ {First(s)}] = SumFunctionOnSet(fun, s \ {First(s)})
  <2> SUFFICES ASSUME NEW s \in SUBSET S, s # {}
               PROVE  G[s \ {First(s)}] = SumFunctionOnSet(fun, s \ {First(s)})
    OBVIOUS
  <2>1. PICK T \in SUBSET S : T = s \ {First(s)}
    OBVIOUS
  <2>2. T # S /\ S # {}
    BY <1>5, <2>1
  <2>3. G[T] = IF T = {} THEN 0 ELSE fun[First(T)] + SumFunctionOnSet(fun, T \ {First(T)})
    OBVIOUS
  <2>4. G[T] = SumFunctionOnSet(fun, T)
    BY <1>6, <1>7, <2>2, <2>3
  <2>. QED BY <2>1, <2>4
<1>9. Sums(G, fun, S)
  BY <1>8 DEF Sums
<1>. QED BY <1>9

\* A sum is that of the first member and of the rest.
LEMMA SumUnfolds ==
  ASSUME NEW fun, NEW S, IsFiniteSet(S)
  PROVE  /\ SumFunctionOnSet(fun, {}) = 0
         /\ S # {} => /\ First(S) \in S
                      /\ SumFunctionOnSet(fun, S)
                           = fun[First(S)] + SumFunctionOnSet(fun, S \ {First(S)})
<1>1. SumFunctionOnSet(fun, {}) = 0
  <2>1. PICK g : g = CHOOSE f : Sums(f, fun, {})
    OBVIOUS
  <2>2. Sums(g, fun, {})
    BY <2>1, FS_EmptySet, SumsExist
  <2>3. g[{}] = 0
    BY <2>2 DEF Sums
  <2>. QED BY <2>1, <2>3, SumIs
<1>2. ASSUME S # {}
      PROVE  /\ First(S) \in S
             /\ SumFunctionOnSet(fun, S) = fun[First(S)] + SumFunctionOnSet(fun, S \ {First(S)})
  <2>1. First(S) \in S
    BY <1>2 DEF First
  <2>2. IsFiniteSet(S \ {First(S)})
    BY FS_Subset
  <2>. QED BY <1>2, <2>1, <2>2, SumsExist, SumOfKnown
<1>. QED BY <1>1, <1>2

\* Whole numbers on a set.
OnInts(fun, S) == \A x \in S : fun[x] \in Int

\* A sum of integers is an integer.
LEMMA SumType ==
  ASSUME NEW fun, NEW U, IsFiniteSet(U), OnInts(fun, U)
  PROVE  SumFunctionOnSet(fun, U) \in Int
<1> DEFINE bad == {S \in SUBSET U : SumFunctionOnSet(fun, S) \notin Int}
<1>1. SUFFICES ASSUME bad # {} PROVE FALSE
  OBVIOUS
<1>2. bad \in SUBSET FiniteSubsetsOf(U)
  BY FS_Subset DEF FiniteSubsetsOf
<1>3. PICK S \in bad : \A T \in bad : T \subseteq S => T = S
  <2> HIDE DEF bad
  <2>. QED BY <1>1, <1>2, SmallestSet
<1>4. IsFiniteSet(S) /\ S \subseteq U
  BY FS_Subset
<1>5. S # {} /\ First(S) \in S
  <2>1. SumFunctionOnSet(fun, {}) = 0
    BY FS_EmptySet, SumUnfolds
  <2>2. S # {}
    BY <2>1
  <2>. QED BY <1>4, <2>2, SumUnfolds
<1>6. SumFunctionOnSet(fun, S \ {First(S)}) \in Int
  BY <1>3, <1>5
<1>7. SumFunctionOnSet(fun, S) = fun[First(S)] + SumFunctionOnSet(fun, S \ {First(S)})
  BY <1>4, <1>5, SumUnfolds
<1>. QED BY <1>4, <1>5, <1>6, <1>7 DEF OnInts

\* Any member may be taken out first.
LEMMA SumTakes ==
  ASSUME NEW fun, NEW U, IsFiniteSet(U), OnInts(fun, U), NEW u \in U
  PROVE  SumFunctionOnSet(fun, U) = fun[u] + SumFunctionOnSet(fun, U \ {u})
<1> DEFINE bad == {S \in SUBSET U : \E x \in S : SumFunctionOnSet(fun, S)
                                                   # fun[x] + SumFunctionOnSet(fun, S \ {x})}
<1>1. SUFFICES ASSUME bad # {} PROVE FALSE
  OBVIOUS
<1>2. bad \in SUBSET FiniteSubsetsOf(U)
  BY FS_Subset DEF FiniteSubsetsOf
<1>3. PICK S \in bad : \A T \in bad : T \subseteq S => T = S
  <2> HIDE DEF bad
  <2>. QED BY <1>1, <1>2, SmallestSet
<1>4. PICK x \in S : SumFunctionOnSet(fun, S) # fun[x] + SumFunctionOnSet(fun, S \ {x})
  OBVIOUS
<1>5. PICK y : y = First(S)
  OBVIOUS
<1>6. IsFiniteSet(S) /\ S \subseteq U
  BY FS_Subset
<1>7. /\ y \in S /\ x # y
      /\ SumFunctionOnSet(fun, S) = fun[y] + SumFunctionOnSet(fun, S \ {y})
  BY <1>4, <1>5, <1>6, SumUnfolds
<1>8. PICK rest : rest = (S \ {y}) \ {x}
  OBVIOUS
<1>9. rest = (S \ {x}) \ {y}
  BY <1>8
<1>10. S \ {y} \notin bad /\ S \ {x} \notin bad
  <2> HIDE DEF bad
  <2>. QED BY <1>3, <1>7
<1>11. SumFunctionOnSet(fun, S \ {y}) = fun[x] + SumFunctionOnSet(fun, rest)
  BY <1>6, <1>7, <1>8, <1>10
<1>12. SumFunctionOnSet(fun, S \ {x}) = fun[y] + SumFunctionOnSet(fun, rest)
  BY <1>6, <1>7, <1>9, <1>10
<1>13. SumFunctionOnSet(fun, rest) \in Int
  <2>1. IsFiniteSet(rest) /\ OnInts(fun, rest)
    BY <1>6, <1>8, FS_Subset DEF OnInts
  <2>. QED BY <2>1, SumType
<1>14. fun[x] \in Int /\ fun[y] \in Int
  BY <1>6, <1>7 DEF OnInts
<1>. QED BY <1>4, <1>7, <1>11, <1>12, <1>13, <1>14

\* A sum no term of which is more than c times another's is at most c times the other.
LEMMA SumAtMost ==
  ASSUME NEW fun, NEW gun, NEW c \in Int, NEW U, IsFiniteSet(U), OnInts(fun, U), OnInts(gun, U),
         \A x \in U : fun[x] <= c * gun[x]
  PROVE  SumFunctionOnSet(fun, U) <= c * SumFunctionOnSet(gun, U)
<1> DEFINE bad == {S \in SUBSET U :
                     ~(SumFunctionOnSet(fun, S) <= c * SumFunctionOnSet(gun, S))}
<1>1. SUFFICES ASSUME bad # {} PROVE FALSE
  OBVIOUS
<1>2. bad \in SUBSET FiniteSubsetsOf(U)
  BY FS_Subset DEF FiniteSubsetsOf
<1>3. PICK S \in bad : \A T \in bad : T \subseteq S => T = S
  <2> HIDE DEF bad
  <2>. QED BY <1>1, <1>2, SmallestSet
<1>4. IsFiniteSet(S) /\ S \subseteq U
  BY FS_Subset
<1>5. PICK x : x \in S
  <2>1. SumFunctionOnSet(fun, {}) = 0 /\ SumFunctionOnSet(gun, {}) = 0
    BY FS_EmptySet, SumUnfolds
  <2>. QED BY <2>1
<1> DEFINE T == S \ {x}
<1>6. T \subseteq U /\ SumFunctionOnSet(fun, T) <= c * SumFunctionOnSet(gun, T)
  BY <1>3, <1>4, <1>5
<1>7. /\ SumFunctionOnSet(fun, S) = fun[x] + SumFunctionOnSet(fun, T)
      /\ SumFunctionOnSet(gun, S) = gun[x] + SumFunctionOnSet(gun, T)
  BY <1>4, <1>5, SumTakes DEF OnInts
<1>8. SumFunctionOnSet(fun, T) \in Int /\ SumFunctionOnSet(gun, T) \in Int
  <2>1. IsFiniteSet(T) /\ OnInts(fun, T) /\ OnInts(gun, T)
    BY <1>4, FS_Subset DEF OnInts
  <2>. QED BY <2>1, SumType
<1>9. fun[x] \in Int /\ gun[x] \in Int /\ fun[x] <= c * gun[x]
  BY <1>4, <1>5 DEF OnInts
<1>10. c * (gun[x] + SumFunctionOnSet(gun, T)) = c * gun[x] + c * SumFunctionOnSet(gun, T)
  BY <1>8, <1>9
<1>. QED BY <1>6, <1>7, <1>8, <1>9, <1>10

\* Terms that are not negative only add.
LEMMA SumPart ==
  ASSUME NEW fun, NEW U, IsFiniteSet(U), OnInts(fun, U), NEW V \in SUBSET U,
         \A x \in U \ V : fun[x] >= 0
  PROVE  SumFunctionOnSet(fun, V) <= SumFunctionOnSet(fun, U)
<1> DEFINE bad == {S \in SUBSET U : /\ V \subseteq S
                                    /\ ~(SumFunctionOnSet(fun, V) <= SumFunctionOnSet(fun, S))}
<1>1. SUFFICES ASSUME bad # {} PROVE FALSE
  OBVIOUS
<1>2. bad \in SUBSET FiniteSubsetsOf(U)
  BY FS_Subset DEF FiniteSubsetsOf
<1>3. PICK S \in bad : \A T \in bad : T \subseteq S => T = S
  <2> HIDE DEF bad
  <2>. QED BY <1>1, <1>2, SmallestSet
<1>4. /\ IsFiniteSet(S) /\ S \subseteq U /\ V \subseteq S
      /\ IsFiniteSet(V) /\ OnInts(fun, V)
  BY FS_Subset DEF OnInts
<1>5. S # V
  BY <1>4, SumType
<1>6. PICK x \in S : x \notin V
  BY <1>4, <1>5
<1>7. SumFunctionOnSet(fun, V) <= SumFunctionOnSet(fun, S \ {x})
  BY <1>3, <1>4, <1>6
<1>8. SumFunctionOnSet(fun, S) = fun[x] + SumFunctionOnSet(fun, S \ {x})
  BY <1>4, SumTakes DEF OnInts
<1>9. SumFunctionOnSet(fun, S \ {x}) \in Int /\ SumFunctionOnSet(fun, V) \in Int
  <2>1. IsFiniteSet(S \ {x}) /\ OnInts(fun, S \ {x})
    BY <1>4, FS_Subset DEF OnInts
  <2>. QED BY <1>4, <2>1, SumType
<1>10. fun[x] \in Int /\ fun[x] >= 0
  BY <1>4, <1>6 DEF OnInts
<1>. QED BY <1>7, <1>8, <1>9, <1>10

\* Terms that are zero add nothing.
LEMMA SumIgnoresZeros ==
  ASSUME NEW fun, NEW U, IsFiniteSet(U), OnInts(fun, U), NEW V \in SUBSET U,
         \A x \in U \ V : fun[x] = 0
  PROVE  SumFunctionOnSet(fun, V) = SumFunctionOnSet(fun, U)
<1> DEFINE bad == {S \in SUBSET U : /\ V \subseteq S
                                    /\ SumFunctionOnSet(fun, V) # SumFunctionOnSet(fun, S)}
<1>1. SUFFICES ASSUME bad # {} PROVE FALSE
  OBVIOUS
<1>2. bad \in SUBSET FiniteSubsetsOf(U)
  BY FS_Subset DEF FiniteSubsetsOf
<1>3. PICK S \in bad : \A T \in bad : T \subseteq S => T = S
  <2> HIDE DEF bad
  <2>. QED BY <1>1, <1>2, SmallestSet
<1>4. IsFiniteSet(S) /\ S \subseteq U /\ V \subseteq S
  BY FS_Subset
<1>5. PICK x \in S : x \notin V
  BY <1>4
<1>6. SumFunctionOnSet(fun, V) = SumFunctionOnSet(fun, S \ {x})
  BY <1>3, <1>4, <1>5
<1>7. SumFunctionOnSet(fun, S) = fun[x] + SumFunctionOnSet(fun, S \ {x})
  BY <1>4, SumTakes DEF OnInts
<1>8. SumFunctionOnSet(fun, S \ {x}) \in Int
  <2>1. IsFiniteSet(S \ {x}) /\ OnInts(fun, S \ {x})
    BY <1>4, FS_Subset DEF OnInts
  <2>. QED BY <2>1, SumType
<1>9. fun[x] = 0
  BY <1>4, <1>5
<1>. QED BY <1>6, <1>7, <1>8, <1>9

\* A sum does not depend on how its terms are named.
LEMMA SumRenamed ==
  ASSUME NEW fun, NEW gun, NEW U, IsFiniteSet(U), OnInts(fun, U), NEW name,
         \A x, y \in U : name[x] = name[y] => x = y,
         \A x \in U : gun[name[x]] = fun[x]
  PROVE  SumFunctionOnSet(gun, {name[x] : x \in U}) = SumFunctionOnSet(fun, U)
<1> DEFINE Named(S) == {name[x] : x \in S}
           bad == {S \in SUBSET U :
                     \/ ~ IsFiniteSet(Named(S))
                     \/ SumFunctionOnSet(gun, Named(S)) # SumFunctionOnSet(fun, S)}
<1>1. SUFFICES ASSUME bad # {} PROVE FALSE
  OBVIOUS
<1>2. bad \in SUBSET FiniteSubsetsOf(U)
  BY FS_Subset DEF FiniteSubsetsOf
<1>3. PICK S \in bad : \A T \in bad : T \subseteq S => T = S
  <2> HIDE DEF bad
  <2>. QED BY <1>1, <1>2, SmallestSet
<1>4. IsFiniteSet(S) /\ S \subseteq U
  BY FS_Subset
<1>5. PICK x : x \in S
  <2>1. SumFunctionOnSet(fun, {}) = 0 /\ SumFunctionOnSet(gun, {}) = 0
    BY FS_EmptySet, SumUnfolds
  <2>2. Named({}) = {} /\ IsFiniteSet(Named({}))
    BY FS_EmptySet
  <2>. QED BY <2>1, <2>2
<1>6. Named(S \ {x}) = Named(S) \ {name[x]} /\ name[x] \in Named(S)
  BY <1>4, <1>5
<1>7. /\ IsFiniteSet(Named(S \ {x}))
      /\ SumFunctionOnSet(gun, Named(S \ {x})) = SumFunctionOnSet(fun, S \ {x})
  BY <1>3, <1>4, <1>5
<1>8. SumFunctionOnSet(fun, S) = fun[x] + SumFunctionOnSet(fun, S \ {x})
  BY <1>4, <1>5, SumTakes DEF OnInts
<1>9. IsFiniteSet(Named(S)) /\ OnInts(gun, Named(S))
  <2>1. IsFiniteSet(Named(S))
    <3>1. Named(S) = Named(S \ {x}) \cup {name[x]}
      BY <1>5
    <3>2. PICK T : T = Named(S \ {x}) /\ IsFiniteSet(T)
      BY <1>7
    <3>3. IsFiniteSet(T \cup {name[x]})
      BY <3>2, FS_AddElement
    <3>. QED BY <3>1, <3>2, <3>3
  <2>2. \A y \in S : gun[name[y]] \in Int
    BY <1>4 DEF OnInts
  <2>. QED BY <2>1, <2>2 DEF OnInts
<1>10. SumFunctionOnSet(gun, Named(S))
         = gun[name[x]] + SumFunctionOnSet(gun, Named(S) \ {name[x]})
  <2> HIDE DEF Named
  <2>. QED BY <1>6, <1>9, SumTakes
<1>. QED BY <1>4, <1>5, <1>6, <1>7, <1>8, <1>9, <1>10

\* The sum of what two functions agree on.
LEMMA SumSame ==
  ASSUME NEW fun, NEW gun, NEW U, IsFiniteSet(U), OnInts(fun, U), \A x \in U : fun[x] = gun[x]
  PROVE  SumFunctionOnSet(fun, U) = SumFunctionOnSet(gun, U)
<1> DEFINE name == [x \in U |-> x]
<1>1. {name[x] : x \in U} = U
  OBVIOUS
<1>2. SumFunctionOnSet(gun, {name[x] : x \in U}) = SumFunctionOnSet(fun, U)
  <2>1. \A x, y \in U : name[x] = name[y] => x = y
    OBVIOUS
  <2>2. \A x \in U : gun[name[x]] = fun[x]
    OBVIOUS
  <2> HIDE DEF name
  <2>. QED BY <2>1, <2>2, SumRenamed
<1>. QED BY <1>1, <1>2

\* The sum of a function cut down to a set.
LEMMA SumRestricted ==
  ASSUME NEW fun, NEW U, IsFiniteSet(U), OnInts(fun, U)
  PROVE  SumFunction([x \in U |-> fun[x]]) = SumFunctionOnSet(fun, U)
<1> DEFINE cut == [x \in U |-> fun[x]]
<1>1. SumFunction(cut) = SumFunctionOnSet(cut, U)
  BY DEF SumFunction
<1>2. \A x \in U : fun[x] = cut[x]
  OBVIOUS
<1> HIDE DEF cut
<1>3. SumFunctionOnSet(fun, U) = SumFunctionOnSet(cut, U)
  BY <1>2, SumSame
<1>. QED BY <1>1, <1>3 DEF cut

\* A sum of ones counts.
LEMMA SumCounts ==
  ASSUME NEW fun, NEW U, IsFiniteSet(U), \A x \in U : fun[x] = 1
  PROVE  SumFunctionOnSet(fun, U) = Cardinality(U)
<1> DEFINE bad == {S \in SUBSET U : SumFunctionOnSet(fun, S) # Cardinality(S)}
<1>1. SUFFICES ASSUME bad # {} PROVE FALSE
  OBVIOUS
<1>2. bad \in SUBSET FiniteSubsetsOf(U)
  BY FS_Subset DEF FiniteSubsetsOf
<1>3. PICK S \in bad : \A T \in bad : T \subseteq S => T = S
  <2> HIDE DEF bad
  <2>. QED BY <1>1, <1>2, SmallestSet
<1>4. IsFiniteSet(S) /\ OnInts(fun, S)
  BY FS_Subset DEF OnInts
<1>5. PICK x : x \in S
  <2>1. SumFunctionOnSet(fun, {}) = 0 /\ Cardinality({}) = 0
    BY FS_EmptySet, SumUnfolds
  <2>. QED BY <2>1
<1>6. SumFunctionOnSet(fun, S \ {x}) = Cardinality(S \ {x})
  <2>1. S \ {x} \notin bad
    <3> HIDE DEF bad
    <3>. QED BY <1>3, <1>5
  <2>. QED BY <2>1
<1>7. SumFunctionOnSet(fun, S) = fun[x] + SumFunctionOnSet(fun, S \ {x}) /\ fun[x] = 1
  BY <1>4, <1>5, SumTakes
<1>8. Cardinality(S \ {x}) = Cardinality(S) - 1 /\ Cardinality(S) \in Nat
  BY <1>4, <1>5, FS_RemoveElement, FS_CardinalityType
<1>. QED BY <1>6, <1>7, <1>8

\* The members of a set that have a name.
Called(L, name, m) == {l \in L : name[l] = m}

\* A sum, group by group.
LEMMA SumGrouped ==
  ASSUME NEW L, IsFiniteSet(L), NEW Groups, IsFiniteSet(Groups),
         NEW name, \A l \in L : name[l] \in Groups,
         NEW each, OnInts(each, Groups),
         NEW fun, \A l \in L : fun[l] = each[name[l]],
         NEW gun, \A m \in Groups : gun[m] = Cardinality(Called(L, name, m)) * each[m]
  PROVE  SumFunctionOnSet(fun, L) = SumFunctionOnSet(gun, Groups)
<1> DEFINE Group(S, m) == Called(S, name, m)
           Grouped(S) == [m \in Groups |-> Cardinality(Group(S, m)) * each[m]]
           bad == {S \in SUBSET L : SumFunctionOnSet(fun, S) # SumFunctionOnSet(Grouped(S), Groups)}
<1>1. \A S \in SUBSET L : IsFiniteSet(S) /\ \A m : IsFiniteSet(Group(S, m))
  BY FS_Subset DEF Called
<1>2. \A S \in SUBSET L : OnInts(Grouped(S), Groups)
  <2>1. \A S \in SUBSET L : \A m : Cardinality(Group(S, m)) \in Int
    <3> HIDE DEF Group
    <3>. QED BY <1>1, FS_CardinalityType
  <2> HIDE DEF Group
  <2>2. \A S \in SUBSET L : \A m \in Groups : Cardinality(Group(S, m)) * each[m] \in Int
    BY <2>1 DEF OnInts
  <2>. QED BY <2>2 DEF OnInts
<1>3. bad = {}
  <2>1. SUFFICES ASSUME bad # {} PROVE FALSE
    OBVIOUS
  <2>2. bad \in SUBSET FiniteSubsetsOf(L)
    <3> HIDE DEF Grouped
    <3>. QED BY FS_Subset DEF FiniteSubsetsOf
  <2>3. PICK S \in bad : \A T \in bad : T \subseteq S => T = S
    <3> HIDE DEF bad
    <3>. QED BY <2>1, <2>2, SmallestSet
  <2>4. PICK x : x \in S
    <3>1. SumFunctionOnSet(fun, {}) = 0
      BY FS_EmptySet, SumUnfolds
    <3>2. SumFunctionOnSet(Grouped({}), Groups) = 0
      <4>1. \A m \in Groups : Grouped({})[m] = 0
        <5>1. \A m : Group({}, m) = {}
          BY DEF Called
        <5>2. \A m \in Groups : 0 * each[m] = 0
          BY DEF OnInts
        <5> HIDE DEF Group
        <5>. QED BY <5>1, <5>2, FS_EmptySet
      <4> HIDE DEF Grouped
      <4>2. SumFunctionOnSet(Grouped({}), {}) = SumFunctionOnSet(Grouped({}), Groups)
        BY <1>2, <4>1, SumIgnoresZeros
      <4>. QED BY <4>2, FS_EmptySet, SumUnfolds
    <3>. QED BY <3>1, <3>2
  <2>5. S \ {x} \in SUBSET L /\ S \in SUBSET L /\ x \in L /\ S \ {x} # S
    BY <2>4
  <2>6. SumFunctionOnSet(fun, S \ {x}) = SumFunctionOnSet(Grouped(S \ {x}), Groups)
    <3>1. S \ {x} \notin bad
      <4> HIDE DEF bad
      <4>. QED BY <2>3, <2>4
    <3>. QED BY <2>5, <3>1
  <2>7. PICK m \in Groups : m = name[x]
    BY <2>5
  <2>8. SumFunctionOnSet(fun, S) = each[m] + SumFunctionOnSet(fun, S \ {x})
    <3>1. OnInts(fun, S)
      BY <2>5 DEF OnInts
    <3>. QED BY <1>1, <2>4, <2>5, <2>7, <3>1, SumTakes
  <2> DEFINE G == Grouped(S)
             H == Grouped(S \ {x})
  <2>9. G[m] = each[m] + H[m]
    <3>1. Group(S \ {x}, m) = Group(S, m) \ {x} /\ x \in Group(S, m)
      BY <2>4, <2>7 DEF Called
    <3>2. PICK T : T = Group(S, m) /\ IsFiniteSet(T)
      BY <1>1, <2>5
    <3>3. Cardinality(T \ {x}) = Cardinality(T) - 1 /\ Cardinality(T) \in Nat
      BY <3>1, <3>2, FS_RemoveElement, FS_CardinalityType
    <3>4. PICK c, e \in Int : c = Cardinality(T) /\ e = each[m]
      BY <3>3 DEF OnInts
    <3>5. c * e = e + (c - 1) * e
      OBVIOUS
    <3>. QED BY <3>1, <3>2, <3>3, <3>4, <3>5
  <2>10. ASSUME NEW k \in Groups \ {m} PROVE G[k] = H[k]
    <3>1. Group(S \ {x}, k) = Group(S, k)
      BY <2>7, <2>10 DEF Called
    <3> HIDE DEF Group
    <3>. QED BY <3>1
  <2>11. OnInts(G, Groups) /\ OnInts(H, Groups)
    <3> HIDE DEF Grouped
    <3>. QED BY <1>2, <2>5
  <2> HIDE DEF G, H
  <2>12. /\ SumFunctionOnSet(G, Groups) = G[m] + SumFunctionOnSet(G, Groups \ {m})
         /\ SumFunctionOnSet(H, Groups) = H[m] + SumFunctionOnSet(H, Groups \ {m})
    BY <2>11, SumTakes
  <2>13. IsFiniteSet(Groups \ {m}) /\ OnInts(G, Groups \ {m}) /\ OnInts(H, Groups \ {m})
    BY <2>11, FS_Subset DEF OnInts
  <2>14. SumFunctionOnSet(G, Groups \ {m}) = SumFunctionOnSet(H, Groups \ {m})
    BY <2>10, <2>13, SumSame
  <2>15. SumFunctionOnSet(H, Groups \ {m}) \in Int /\ each[m] \in Int /\ H[m] \in Int
    BY <2>11, <2>13, SumType DEF OnInts
  <2>16. SumFunctionOnSet(G, Groups) = each[m] + SumFunctionOnSet(H, Groups)
    BY <2>9, <2>12, <2>14, <2>15
  <2>17. SumFunctionOnSet(fun, S) # SumFunctionOnSet(G, Groups)
    BY DEF G
  <2>. QED BY <2>6, <2>8, <2>16, <2>17 DEF H
<1>4. SumFunctionOnSet(fun, L) = SumFunctionOnSet(Grouped(L), Groups)
  <2> HIDE DEF Grouped
  <2>. QED BY <1>3
<1>5. SumFunctionOnSet(Grouped(L), Groups) = SumFunctionOnSet(gun, Groups)
  <2>1. OnInts(Grouped(L), Groups)
    <3> HIDE DEF Grouped
    <3>. QED BY <1>2
  <2>2. \A m \in Groups : Grouped(L)[m] = gun[m]
    OBVIOUS
  <2> HIDE DEF Grouped
  <2>. QED BY <2>1, <2>2, SumSame
<1>. QED BY <1>4, <1>5

\* The sum of a sequence of numbers is a number.
LEMMA SumOfType ==
  ASSUME NEW s \in Seq(Int)
  PROVE  SumOf(s) \in Int
<1>1. Len(s) \in Nat /\ DOMAIN s = 1..Len(s) /\ OnInts(s, DOMAIN s)
  BY LenProperties, ElementOfSeq DEF OnInts
<1>2. IsFiniteSet(1..Len(s))
  <2>1. 1 \in Int /\ Len(s) \in Int
    BY <1>1
  <2>. QED BY <2>1, FS_Interval
<1>. QED BY <1>1, <1>2, SumType DEF SumOf, SumFunction

\* A multiple of every term is the multiple of the sum.
LEMMA SumScaled ==
  ASSUME NEW fun, NEW gun, NEW c \in Int, NEW U, IsFiniteSet(U), OnInts(fun, U), OnInts(gun, U),
         \A x \in U : fun[x] = c * gun[x]
  PROVE  SumFunctionOnSet(fun, U) = c * SumFunctionOnSet(gun, U)
<1> DEFINE bad == {S \in SUBSET U :
                     ~(SumFunctionOnSet(fun, S) = c * SumFunctionOnSet(gun, S))}
<1>1. SUFFICES ASSUME bad # {} PROVE FALSE
  OBVIOUS
<1>2. bad \in SUBSET FiniteSubsetsOf(U)
  BY FS_Subset DEF FiniteSubsetsOf
<1>3. PICK S \in bad : \A T \in bad : T \subseteq S => T = S
  <2> HIDE DEF bad
  <2>. QED BY <1>1, <1>2, SmallestSet
<1>4. IsFiniteSet(S) /\ S \subseteq U
  BY FS_Subset
<1>5. PICK x : x \in S
  <2>1. SumFunctionOnSet(fun, {}) = 0 /\ SumFunctionOnSet(gun, {}) = 0
    BY FS_EmptySet, SumUnfolds
  <2>. QED BY <2>1
<1> DEFINE T == S \ {x}
<1>6. T \subseteq U /\ SumFunctionOnSet(fun, T) = c * SumFunctionOnSet(gun, T)
  BY <1>3, <1>4, <1>5
<1>7. /\ SumFunctionOnSet(fun, S) = fun[x] + SumFunctionOnSet(fun, T)
      /\ SumFunctionOnSet(gun, S) = gun[x] + SumFunctionOnSet(gun, T)
  BY <1>4, <1>5, SumTakes DEF OnInts
<1>8. SumFunctionOnSet(fun, T) \in Int /\ SumFunctionOnSet(gun, T) \in Int
  <2>1. IsFiniteSet(T) /\ OnInts(fun, T) /\ OnInts(gun, T)
    BY <1>4, FS_Subset DEF OnInts
  <2>. QED BY <2>1, SumType
<1>9. fun[x] \in Int /\ gun[x] \in Int /\ fun[x] = c * gun[x]
  BY <1>4, <1>5 DEF OnInts
<1>10. c * (gun[x] + SumFunctionOnSet(gun, T)) = c * gun[x] + c * SumFunctionOnSet(gun, T)
  BY <1>8, <1>9
<1>. QED BY <1>6, <1>7, <1>8, <1>9, <1>10

\* The sum of two terms.
LEMMA SumOfTwo ==
  ASSUME NEW a, NEW b, a # b, NEW fun, fun[a] \in Int, fun[b] \in Int
  PROVE  IsFiniteSet({a, b}) /\ SumFunctionOnSet(fun, {a, b}) = fun[a] + fun[b]
<1>1. IsFiniteSet({a, b}) /\ IsFiniteSet({b})
  <2>1. IsFiniteSet({b}) /\ IsFiniteSet({b} \cup {a})
    BY FS_Singleton, FS_AddElement
  <2>2. {b} \cup {a} = {a, b}
    OBVIOUS
  <2>. QED BY <2>1, <2>2
<1>2. SumFunctionOnSet(fun, {a, b}) = fun[a] + SumFunctionOnSet(fun, {a, b} \ {a})
  <2>1. OnInts(fun, {a, b}) /\ a \in {a, b}
    BY DEF OnInts
  <2>. QED BY <1>1, <2>1, SumTakes
<1>3. SumFunctionOnSet(fun, {b}) = fun[b] + SumFunctionOnSet(fun, {b} \ {b})
  <2>1. OnInts(fun, {b}) /\ b \in {b}
    BY DEF OnInts
  <2>. QED BY <1>1, <2>1, SumTakes
<1>4. {a, b} \ {a} = {b} /\ {b} \ {b} = {}
  OBVIOUS
<1>5. SumFunctionOnSet(fun, {}) = 0
  BY FS_EmptySet, SumUnfolds
<1>6. SumFunctionOnSet(fun, {b}) = fun[b] + 0
  BY <1>3, <1>4, <1>5, Zenon
<1>7. SumFunctionOnSet(fun, {a, b}) = fun[a] + SumFunctionOnSet(fun, {b})
  BY <1>2, <1>4, Zenon
<1>. QED BY <1>1, <1>6, <1>7

-----------------------------------------------------------------------------
(* Euclid's algorithm: the recursion over pairs has a solution, and Gcd is one.*)

\* One step of Euclid's algorithm, and its first steps as a function.
Euclid(g, ab) == IF ab[2] = 0 THEN ab[1] ELSE g[<<ab[2], ab[1] % ab[2]>>]

UpTo(n) == Nat \X (0..n)
EuclidUpTo(g, n) == g = [ab \in UpTo(n) |-> Euclid(g, ab)]

\* The function of the first steps at a pair.
LEMMA EuclidAt ==
  ASSUME NEW n \in Nat, NEW g, EuclidUpTo(g, n), NEW a \in Nat, NEW b \in 0..n
  PROVE  g[<<a, b>>] = IF b = 0 THEN a ELSE g[<<b, a % b>>]
<1>1. <<a, b>> \in UpTo(n) /\ <<a, b>>[1] = a /\ <<a, b>>[2] = b
  BY DEF UpTo
<1>2. g[<<a, b>>] = Euclid(g, <<a, b>>)
  BY <1>1 DEF EuclidUpTo
<1>. QED BY <1>1, <1>2 DEF Euclid

\* The functions of fewer and of more steps agree where both are defined.
LEMMA EuclidAgrees ==
  ASSUME NEW n \in Nat, NEW m \in Nat, n <= m, NEW g, EuclidUpTo(g, n), NEW h, EuclidUpTo(h, m)
  PROVE  \A a \in Nat : \A b \in 0..n : g[<<a, b>>] = h[<<a, b>>]
<1> DEFINE bad == {b \in 0..n : \E a \in Nat : g[<<a, b>>] # h[<<a, b>>]}
<1>1. SUFFICES ASSUME bad # {} PROVE FALSE
  OBVIOUS
<1>2. PICK b \in bad : \A c \in bad : b <= c
  <2>1. bad \in SUBSET Nat
    OBVIOUS
  <2> HIDE DEF bad
  <2>. QED BY <1>1, <2>1, SmallestNat
<1>3. PICK a \in Nat : g[<<a, b>>] # h[<<a, b>>]
  OBVIOUS
<1>4. b \in 0..n /\ b \in 0..m /\ b \in Nat
  OBVIOUS
<1>5. b # 0 /\ g[<<b, a % b>>] # h[<<b, a % b>>]
  BY <1>3, <1>4, EuclidAt
<1>6. a % b \in Nat /\ a % b < b
  BY <1>4, <1>5, Remainder
<1>7. a % b \in bad
  BY <1>4, <1>5, <1>6
<1>. QED BY <1>2, <1>4, <1>6, <1>7

\* There is a function of any number of steps.
LEMMA EuclidExists == \A n \in Nat : \E g : EuclidUpTo(g, n)
<1> DEFINE bad == {n \in Nat : ~ \E g : EuclidUpTo(g, n)}
<1>1. SUFFICES ASSUME bad # {} PROVE FALSE
  OBVIOUS
<1>2. PICK n \in bad : \A m \in bad : n <= m
  <2>1. bad \in SUBSET Nat
    OBVIOUS
  <2> HIDE DEF bad
  <2>. QED BY <1>1, <2>1, SmallestNat
<1>3. CASE n = 0
  <2> DEFINE g == [ab \in UpTo(0) |-> ab[1]]
  <2>1. \A ab \in UpTo(0) : ab[2] = 0
    BY DEF UpTo
  <2>2. EuclidUpTo(g, 0)
    BY <2>1 DEF EuclidUpTo, Euclid
  <2>. QED BY <1>3, <2>2
<1>4. CASE n # 0
  <2>1. n \in Nat /\ n - 1 \in Nat /\ n - 1 \notin bad
    BY <1>2, <1>4
  <2>2. PICK h : EuclidUpTo(h, n - 1)
    BY <2>1
  <2> DEFINE g == [ab \in UpTo(n) |-> Euclid(h, ab)]
  <2>3. ASSUME NEW ab \in UpTo(n), ab[2] # 0
        PROVE  g[<<ab[2], ab[1] % ab[2]>>] = h[<<ab[2], ab[1] % ab[2]>>]
    <3>1. PICK a, b, r : a = ab[1] /\ b = ab[2] /\ r = ab[1] % ab[2]
      OBVIOUS
    <3>2. a \in Nat /\ b \in 0..n /\ b \in Nat /\ b > 0
      BY <2>1, <2>3, <3>1 DEF UpTo
    <3>3. r \in Nat /\ r < b /\ r = a % b
      BY <3>1, <3>2, Remainder
    <3>4. r \in 0..(n - 1) /\ r \in 0..n
      BY <2>1, <3>2, <3>3
    <3>5. h[<<b, r>>] = IF r = 0 THEN b ELSE h[<<r, b % r>>]
      BY <2>1, <2>2, <3>2, <3>4, EuclidAt
    <3>6. <<b, r>> \in UpTo(n)
      BY <3>2, <3>4 DEF UpTo
    <3>7. g[<<b, r>>] = Euclid(h, <<b, r>>)
      BY <3>6
    <3>8. Euclid(h, <<b, r>>) = IF r = 0 THEN b ELSE h[<<r, b % r>>]
      BY DEF Euclid
    <3>. QED BY <3>1, <3>5, <3>7, <3>8
  <2>4. \A ab \in UpTo(n) : Euclid(h, ab) = Euclid(g, ab)
    BY <2>3 DEF Euclid
  <2>5. EuclidUpTo(g, n)
    BY <2>4 DEF EuclidUpTo
  <2>. QED BY <2>5
<1>. QED BY <1>3, <1>4

\* Gcd satisfies the equation it is defined by.
LEMMA GcdUnfolds ==
  ASSUME NEW a \in Nat, NEW b \in Nat
  PROVE  Gcd[<<a, b>>] = IF b = 0 THEN a ELSE Gcd[<<b, a % b>>]
<1> DEFINE some(n) == CHOOSE g : EuclidUpTo(g, n)
           G == [ab \in Nat \X Nat |-> some(ab[2])[ab]]
<1>1. \A n \in Nat : EuclidUpTo(some(n), n)
  BY EuclidExists
<1>2. ASSUME NEW c \in Nat, NEW d \in Nat
      PROVE  G[<<c, d>>] = IF d = 0 THEN c ELSE G[<<d, c % d>>]
  <2>1. G[<<c, d>>] = some(d)[<<c, d>>]
    OBVIOUS
  <2> HIDE DEF some, G
  <2>2. some(d)[<<c, d>>] = IF d = 0 THEN c ELSE some(d)[<<d, c % d>>]
    BY <1>1, EuclidAt
  <2>3. ASSUME d # 0 PROVE some(d)[<<d, c % d>>] = G[<<d, c % d>>]
    <3>1. PICK r : r = c % d
      OBVIOUS
    <3>2. r \in Nat /\ r <= d
      BY <2>3, <3>1, Remainder
    <3>3. G[<<d, r>>] = some(r)[<<d, r>>]
      BY <3>2 DEF G
    <3>4. r \in 0..r
      BY <3>2
    <3>5. some(r)[<<d, r>>] = some(d)[<<d, r>>]
      BY <1>1, <3>2, <3>4, EuclidAgrees
    <3>. QED BY <3>1, <3>3, <3>5
  <2>. QED BY <2>1, <2>2, <2>3
<1>3. G = [ab \in Nat \X Nat |-> IF ab[2] = 0 THEN ab[1] ELSE G[<<ab[2], ab[1] % ab[2]>>]]
  <2>1. ASSUME NEW ab \in Nat \X Nat
        PROVE  G[ab] = IF ab[2] = 0 THEN ab[1] ELSE G[<<ab[2], ab[1] % ab[2]>>]
    <3>1. PICK c, d \in Nat : ab = <<c, d>>
      OBVIOUS
    <3> HIDE DEF G
    <3>2. ab[1] = c /\ ab[2] = d
      BY <3>1
    <3>. QED BY <1>2, <3>1, <3>2
  <2>2. G = [ab \in Nat \X Nat |-> G[ab]]
    OBVIOUS
  <2> HIDE DEF G
  <2>. QED BY <2>1, <2>2
<1>4. Gcd = [ab \in Nat \X Nat |-> IF ab[2] = 0 THEN ab[1] ELSE Gcd[<<ab[2], ab[1] % ab[2]>>]]
  <2> HIDE DEF G
  <2>. QED BY <1>3 DEF Gcd
<1>5. <<a, b>> \in Nat \X Nat /\ <<a, b>>[1] = a /\ <<a, b>>[2] = b
  OBVIOUS
<1>. QED BY <1>4, <1>5

\* It divides both, and of zero and a number it is the number.
LEMMA GcdDivides ==
  ASSUME NEW a \in Nat, NEW b \in Nat
  PROVE  /\ Gcd[<<a, b>>] \in Nat
         /\ a > 0 \/ b > 0 => Gcd[<<a, b>>] > 0
         /\ \E p, q \in Nat : a = Gcd[<<a, b>>] * p /\ b = Gcd[<<a, b>>] * q
<1> DEFINE Holds(c, d) == /\ Gcd[<<c, d>>] \in Nat
                          /\ c > 0 \/ d > 0 => Gcd[<<c, d>>] > 0
                          /\ \E p, q \in Nat : c = Gcd[<<c, d>>] * p /\ d = Gcd[<<c, d>>] * q
           bad == {d \in Nat : \E c \in Nat : ~Holds(c, d)}
<1>1. SUFFICES ASSUME bad # {} PROVE FALSE
  OBVIOUS
<1>2. PICK d \in bad : \A e \in bad : d <= e
  <2>1. bad \in SUBSET Nat
    OBVIOUS
  <2> HIDE DEF bad
  <2>. QED BY <1>1, <2>1, SmallestNat
<1>3. PICK c \in Nat : ~Holds(c, d)
  OBVIOUS
<1>4. CASE d = 0
  <2>1. Gcd[<<c, d>>] = c
    BY <1>4, GcdUnfolds
  <2>2. c = c * 1 /\ d = c * 0
    BY <1>4
  <2>3. Holds(c, d)
    BY <1>4, <2>1, <2>2
  <2>. QED BY <1>3, <2>3
<1>5. CASE d # 0
  <2>1. d \in Nat /\ d > 0
    BY <1>5
  <2>2. PICK r, k \in Nat : r = c % d /\ r < d /\ c = d * k + r
    BY <2>1, Remainder
  <2>3. Holds(d, r)
    <3>1. r \notin bad
      <4> HIDE DEF bad
      <4>1. d \in Nat
        BY <2>1
      <4>. QED BY <1>2, <2>2, <4>1
    <3> HIDE DEF Holds
    <3>. QED BY <2>1, <2>2, <3>1
  <2>4. Gcd[<<c, d>>] = Gcd[<<d, r>>]
    BY <2>1, <2>2, GcdUnfolds
  <2>5. PICK g \in Nat : g = Gcd[<<d, r>>] /\ g > 0
    BY <2>1, <2>3
  <2>6. PICK p, q \in Nat : d = g * p /\ r = g * q
    BY <2>3, <2>5
  <2>7. c = g * (p * k + q) /\ p * k + q \in Nat
    <3>1. p * k \in Nat
      OBVIOUS
    <3>2. g * (p * k + q) = g * (p * k) + g * q
      BY <3>1
    <3>3. g * (p * k) = (g * p) * k
      OBVIOUS
    <3>. QED BY <2>2, <2>6, <3>1, <3>2, <3>3
  <2>8. Holds(c, d)
    BY <2>1, <2>4, <2>5, <2>6, <2>7
  <2>. QED BY <1>3, <2>8
<1>. QED BY <1>4, <1>5

\* A divisor of zero and d is d.
LEMMA GcdOfZero ==
  ASSUME NEW d \in Nat \ {0}
  PROVE  Gcd[<<0, d>>] = d
<1>1. 0 % d = 0
  OBVIOUS
<1>2. Gcd[<<0, d>>] = Gcd[<<d, 0>>]
  BY <1>1, GcdUnfolds
<1>. QED BY <1>2, GcdUnfolds

\* What is left over is known once the quotient is.
LEMMA RemainderIs ==
  ASSUME NEW a \in Nat, NEW b \in Nat \ {0}, NEW q \in Nat, NEW r \in Nat, r < b
  PROVE  a = b * q + r => a % b = r
<1>0. b \in Nat /\ b > 0
  OBVIOUS
<1>1. PICK s, p \in Nat : s = a % b /\ s < b /\ a = b * p + s
  BY <1>0, Remainder
<1>. SUFFICES ASSUME a = b * q + r PROVE a % b = r
  OBVIOUS
<1>2. ASSUME p > q PROVE FALSE
  <2>1. b * p >= b * (q + 1)
    BY <1>2
  <2>2. b * (q + 1) = b * q + b
    OBVIOUS
  <2>. QED BY <1>1, <2>1, <2>2
<1>3. ASSUME q > p PROVE FALSE
  <2>1. b * q >= b * (p + 1)
    BY <1>3
  <2>2. b * (p + 1) = b * p + b
    OBVIOUS
  <2>. QED BY <1>1, <2>1, <2>2
<1>4. p = q
  BY <1>2, <1>3
<1>. QED BY <1>1, <1>4

\* Gcd scales with its arguments.
LEMMA GcdScales ==
  ASSUME NEW k \in Nat \ {0}
  PROVE  \A a, b \in Nat : Gcd[<<k * a, k * b>>] = k * Gcd[<<a, b>>]
<1> DEFINE bad == {b \in Nat : \E a \in Nat : Gcd[<<k * a, k * b>>] # k * Gcd[<<a, b>>]}
<1>1. SUFFICES ASSUME bad # {} PROVE FALSE
  OBVIOUS
<1>2. PICK b \in bad : \A c \in bad : b <= c
  <2>1. bad \in SUBSET Nat
    OBVIOUS
  <2> HIDE DEF bad
  <2>. QED BY <1>1, <2>1, SmallestNat
<1>3. PICK a \in Nat : Gcd[<<k * a, k * b>>] # k * Gcd[<<a, b>>]
  OBVIOUS
<1>4. b \in Nat /\ k * a \in Nat /\ k * b \in Nat
  OBVIOUS
<1>5. b # 0
  <2>1. ASSUME b = 0 PROVE FALSE
    <3>1. k * b = 0
      BY <2>1
    <3>2. Gcd[<<k * a, 0>>] = k * a /\ Gcd[<<a, 0>>] = a
      BY <1>4, GcdUnfolds
    <3>. QED BY <1>3, <2>1, <3>1, <3>2
  <2>. QED BY <2>1
<1>6. PICK r, q \in Nat : r = a % b /\ r < b /\ a = b * q + r
  <2>1. b > 0
    BY <1>5
  <2>. QED BY <2>1, Remainder
<1>7. (k * a) % (k * b) = k * r
  <2>1. k * a = (k * b) * q + k * r
    <3>1. k * (b * q + r) = k * (b * q) + k * r
      OBVIOUS
    <3>2. k * (b * q) = (k * b) * q
      OBVIOUS
    <3>. QED BY <1>6, <3>1, <3>2
  <2>2. k * r < k * b /\ k * b # 0 /\ k * r \in Nat
    BY <1>4, <1>5, <1>6
  <2>. QED BY <1>4, <2>1, <2>2, RemainderIs
<1>8. Gcd[<<k * b, k * r>>] = k * Gcd[<<b, r>>]
  <2>1. r \notin bad
    <3> HIDE DEF bad
    <3>. QED BY <1>2, <1>4, <1>6
  <2>. QED BY <1>4, <2>1
<1>9. Gcd[<<a, b>>] = Gcd[<<b, r>>]
  BY <1>4, <1>5, <1>6, GcdUnfolds
<1>10. Gcd[<<k * a, k * b>>] = Gcd[<<k * b, k * r>>]
  <2>1. k * b # 0
    BY <1>4, <1>5
  <2>. QED BY <1>4, <1>7, <2>1, GcdUnfolds
<1>. QED BY <1>3, <1>8, <1>9, <1>10

-----------------------------------------------------------------------------
(* Fractions.                                                              *)

\* Fractions, and the number that one is: n / d.
Fractions == Int \X (Nat \ {0})

\* x has the value n/d.
Is(x, n, d) == x \in Fractions /\ x[1] * d = n * x[2]

\* A reduced fraction and the factor taken out of it.
LEMMA FracReduces ==
  ASSUME NEW n \in Int, NEW d \in Nat \ {0}
  PROVE  \E p \in Int : \E q, g \in Nat \ {0} : Frac(n, d) = <<p, q>> /\ n = g * p /\ d = g * q
<1>1. Magnitude(n) \in Nat /\ (n = Magnitude(n) \/ n = -Magnitude(n))
  BY DEF Magnitude
<1>2. PICK g \in Nat : g = Gcd[<<Magnitude(n), d>>] /\ g > 0
  BY <1>1, GcdDivides
<1>3. PICK k, q \in Nat : Magnitude(n) = g * k /\ d = g * q
  BY <1>1, <1>2, GcdDivides
<1>4. q # 0
  BY <1>3
<1>5. PICK p \in Int : n = g * p
  <2>1. -(g * k) = g * (-k)
    OBVIOUS
  <2>. QED BY <1>1, <1>3, <2>1
<1>6. Frac(n, d) = <<(g * p) \div g, (g * q) \div g>>
  BY <1>2, <1>3, <1>5 DEF Frac, Divided
<1>7. Frac(n, d) = <<p, q>>
  BY <1>2, <1>6, DividesExactly
<1>. QED BY <1>2, <1>3, <1>4, <1>5, <1>7

\* A reduced fraction has the value of what it was reduced from.
LEMMA FracIs ==
  ASSUME NEW n \in Int, NEW d \in Nat \ {0}
  PROVE  Is(Frac(n, d), n, d)
<1>1. PICK p \in Int, q \in Nat \ {0}, g \in Nat \ {0} :
        Frac(n, d) = <<p, q>> /\ n = g * p /\ d = g * q
  BY FracReduces
<1>2. p * (g * q) = (g * p) * q
  OBVIOUS
<1>. QED BY <1>1, <1>2 DEF Is, Fractions

\* Every zero reduces to the one zero.
LEMMA FracOfZero ==
  ASSUME NEW d \in Nat \ {0}
  PROVE  Frac(0, d) = Zero
<1>1. Gcd[<<Magnitude(0), d>>] = d
  BY GcdOfZero DEF Magnitude
<1>2. d * 0 = 0 /\ d * 1 = d
  OBVIOUS
<1>3. 0 \div d = 0 /\ d \div d = 1
  BY <1>2, DividesExactly
<1>. QED BY <1>1, <1>3 DEF Frac, Divided, Zero, Whole

\* The same number reduces to the same fraction.
LEMMA FracScales ==
  ASSUME NEW n \in Int, NEW d \in Nat \ {0}, NEW k \in Nat \ {0}
  PROVE  Frac(k * n, k * d) = Frac(n, d)
<1>1. PICK a \in Nat : a = Magnitude(n) /\ (n = a \/ n = -a)
  BY DEF Magnitude
<1>2. Magnitude(k * n) = k * a
  BY <1>1 DEF Magnitude
<1>3. PICK g \in Nat : g = Gcd[<<a, d>>] /\ g > 0
  BY GcdDivides
<1>4. Gcd[<<k * a, k * d>>] = k * g
  BY <1>3, GcdScales
<1>5. PICK p, q \in Nat : a = g * p /\ d = g * q
  BY <1>3, GcdDivides
<1>6. PICK m \in Int : n = g * m
  <2>1. -(g * p) = g * (-p)
    OBVIOUS
  <2>. QED BY <1>1, <1>5, <2>1
<1>7. k * n = (k * g) * m /\ k * d = (k * g) * q /\ k * g \in Nat \ {0}
  <2>1. k * (g * m) = (k * g) * m /\ k * (g * q) = (k * g) * q
    OBVIOUS
  <2>2. k * g \in Nat /\ k * g > 0
    BY <1>3
  <2>. QED BY <1>5, <1>6, <2>1, <2>2
<1>8. (k * n) \div (k * g) = m /\ (k * d) \div (k * g) = q
  BY <1>7, DividesExactly
<1>9. n \div g = m /\ d \div g = q
  <2>1. g \in Nat \ {0}
    BY <1>3
  <2>2. (g * m) \div g = m /\ (g * q) \div g = q
    BY <2>1, DividesExactly
  <2>. QED BY <1>5, <1>6, <2>2
<1>. QED BY <1>1, <1>2, <1>3, <1>4, <1>8, <1>9 DEF Frac, Divided

\* Equal ratios reduce to the same fraction.
LEMMA FracSame ==
  ASSUME NEW n \in Int, NEW d \in Nat \ {0}, NEW m \in Int, NEW e \in Nat \ {0}, n * e = m * d
  PROVE  Frac(n, d) = Frac(m, e)
<1>1. Frac(e * n, e * d) = Frac(n, d) /\ Frac(d * m, d * e) = Frac(m, e)
  BY FracScales
<1>2. e * n = d * m /\ e * d = d * e
  BY Z3
<1>. QED BY <1>1, <1>2

\* ++ adds.
LEMMA AddedIs ==
  ASSUME NEW x, NEW y, NEW n \in Int, NEW m \in Int, NEW d \in Nat \ {0}, Is(x, n, d), Is(y, m, d)
  PROVE  x ++ y = Frac(n + m, d)
<1>1. PICK a \in Int, b \in Nat \ {0} : x = <<a, b>>
  BY DEF Is, Fractions
<1>2. PICK e \in Int, f \in Nat \ {0} : y = <<e, f>>
  BY DEF Is, Fractions
<1>3. a * d = n * b /\ e * d = m * f
  BY <1>1, <1>2 DEF Is
<1>4. PICK g \in Nat \ {0} : g = Gcd[<<b, f>>]
  BY GcdDivides
<1>5. PICK u, v \in Nat : b = g * u /\ f = g * v
  BY <1>4, GcdDivides
<1>6. u # 0 /\ v # 0
  BY <1>5
<1>7. b \div g = u /\ f \div g = v
  BY <1>5, DividesExactly
<1>8. x ++ y = Frac(a * v + e * u, b * v)
  BY <1>1, <1>2, <1>4, <1>7 DEF ++, Added
<1>9. a * v + e * u \in Int /\ b * v \in Nat \ {0}
  BY <1>6
<1>10. (a * v + e * u) * d = (n + m) * (b * v)
  <2>1. a * v * d = n * (b * v)
    <3>1. a * v * d = (a * d) * v
      OBVIOUS
    <3>2. (n * b) * v = n * (b * v)
      OBVIOUS
    <3>. QED BY <1>3, <3>1, <3>2
  <2>2. e * u * d = m * (b * v)
    <3>1. e * u * d = (e * d) * u
      OBVIOUS
    <3>2. (m * f) * u = m * (f * u)
      OBVIOUS
    <3>3. f * u = b * v
      <4>1. (g * v) * u = (g * u) * v
        OBVIOUS
      <4>. QED BY <1>5, <4>1
    <3>. QED BY <1>3, <3>1, <3>2, <3>3
  <2>3. PICK c \in Int : c = b * v
    OBVIOUS
  <2>4. (n + m) * c = n * c + m * c
    OBVIOUS
  <2>5. (a * v + e * u) * d = a * v * d + e * u * d
    OBVIOUS
  <2>. QED BY <2>1, <2>2, <2>3, <2>4, <2>5
<1>. QED BY <1>8, <1>9, <1>10, FracSame

\* ** multiplies.
LEMMA TimesIs ==
  ASSUME NEW x, NEW y, NEW n \in Int, NEW m \in Int, NEW d \in Nat \ {0}, NEW e \in Nat \ {0},
         Is(x, n, d), Is(y, m, e)
  PROVE  x ** y = Frac(n * m, d * e)
<1>1. PICK a \in Int, b \in Nat \ {0} : x = <<a, b>>
  BY DEF Is, Fractions
<1>2. PICK k \in Int, f \in Nat \ {0} : y = <<k, f>>
  BY DEF Is, Fractions
<1>3. a * d = n * b /\ k * e = m * f
  BY <1>1, <1>2 DEF Is
<1>4. a * k \in Int /\ b * f \in Nat \ {0} /\ x ** y = Frac(a * k, b * f)
  BY <1>1, <1>2 DEF **
<1>5. (a * k) * (d * e) = (n * m) * (b * f)
  <2>1. (a * k) * (d * e) = (a * d) * (k * e)
    OBVIOUS
  <2>2. (n * b) * (m * f) = (n * m) * (b * f)
    OBVIOUS
  <2>. QED BY <1>3, <2>1, <2>2
<1>6. n * m \in Int /\ d * e \in Nat \ {0}
  OBVIOUS
<1>. QED BY <1>4, <1>5, <1>6, FracSame

\* Fractions compare as the numbers they are.
LEMMA PrecedesIs ==
  ASSUME NEW x, NEW y, NEW n \in Int, NEW m \in Int, NEW d \in Nat \ {0}, Is(x, n, d), Is(y, m, d)
  PROVE  x \preceq y <=> n <= m
<1>1. PICK a \in Int, b \in Nat \ {0} : x = <<a, b>>
  BY DEF Is, Fractions
<1>2. PICK e \in Int, f \in Nat \ {0} : y = <<e, f>>
  BY DEF Is, Fractions
<1>3. a * d = n * b /\ e * d = m * f
  BY <1>1, <1>2 DEF Is
<1>4. PICK c \in Nat \ {0} : c = b * f
  OBVIOUS
<1>5. d * (a * f) = c * n
  <2>1. d * (a * f) = (a * d) * f
    OBVIOUS
  <2>2. (n * b) * f = (b * f) * n
    OBVIOUS
  <2>. QED BY <1>3, <1>4, <2>1, <2>2
<1>6. d * (e * b) = c * m
  <2>1. d * (e * b) = (e * d) * b
    OBVIOUS
  <2>2. (m * f) * b = (b * f) * m
    OBVIOUS
  <2>. QED BY <1>3, <1>4, <2>1, <2>2
<1>7. a * f \in Int /\ e * b \in Int
  OBVIOUS
<1>8. a * f <= e * b <=> n <= m
  BY <1>5, <1>6, <1>7, Cancel
<1>. QED BY <1>1, <1>2, <1>8 DEF \preceq

\* A fraction has the sign of its value.
LEMMA SignIs ==
  ASSUME NEW x, NEW n \in Int, NEW d \in Nat \ {0}, Is(x, n, d)
  PROVE  /\ x[1] <= 0 <=> n <= 0
         /\ x[1] < 0 <=> n < 0
<1>1. PICK a \in Int, b \in Nat \ {0} : x = <<a, b>> /\ a * d = n * b
  BY DEF Is, Fractions
<1>2. a * d <= 0 <=> a <= 0
  OBVIOUS
<1>3. n * b <= 0 <=> n <= 0
  OBVIOUS
<1>4. a * d < 0 <=> a < 0
  OBVIOUS
<1>5. n * b < 0 <=> n < 0
  OBVIOUS
<1>. QED BY <1>1, <1>2, <1>3, <1>4, <1>5

\* A value may be written over a multiple of its denominator.
LEMMA IsScales ==
  ASSUME NEW x, NEW n \in Int, NEW d \in Nat \ {0}, NEW k \in Nat \ {0}, Is(x, n, d)
  PROVE  Is(x, n * k, d * k)
<1>1. PICK a \in Int, b \in Nat \ {0} : x = <<a, b>> /\ a * d = n * b
  BY DEF Is, Fractions
<1>2. a * (d * k) = (a * d) * k /\ (n * b) * k = (n * k) * b
  OBVIOUS
<1>. QED BY <1>1, <1>2 DEF Is, Fractions

\* A whole number is its own value.
LEMMA WholeIs ==
  ASSUME NEW n \in Int
  PROVE  Is(Whole(n), n, 1)
BY DEF Is, Fractions, Whole

\* The value of a fraction is one number, over any denominator.
LEMMA IsAgree ==
  ASSUME NEW x, NEW n \in Int, NEW m \in Int, NEW d \in Nat \ {0}, NEW e \in Nat \ {0},
         Is(x, n, d), Is(x, m, e)
  PROVE  n * e = m * d
<1>1. PICK a \in Int, b \in Nat \ {0} : x = <<a, b>> /\ a * d = n * b /\ a * e = m * b
  BY DEF Is, Fractions
<1>2. b * (n * e) = (n * b) * e /\ b * (m * d) = (m * b) * d
  OBVIOUS
<1>3. (a * d) * e = (a * e) * d
  OBVIOUS
<1>4. b * (n * e) = b * (m * d)
  BY <1>1, <1>2, <1>3
<1>5. n * e \in Int /\ m * d \in Int
  OBVIOUS
<1>. QED BY <1>4, <1>5, Cancel

\* A factor may be cancelled out of a value.
LEMMA IsReduced ==
  ASSUME NEW x, NEW n \in Int, NEW d \in Nat \ {0}, NEW k \in Nat \ {0}, Is(x, n * k, d * k)
  PROVE  Is(x, n, d)
<1>1. PICK a \in Int, b \in Nat \ {0} : x = <<a, b>> /\ a * (d * k) = (n * k) * b
  BY DEF Is, Fractions
<1>2. k * (a * d) = a * (d * k) /\ k * (n * b) = (n * k) * b
  OBVIOUS
<1>3. a * d \in Int /\ n * b \in Int
  OBVIOUS
<1>4. a * d = n * b
  BY <1>1, <1>2, <1>3, Cancel
<1>. QED BY <1>1, <1>4 DEF Is, Fractions

\* A fraction that is not negative is not clipped.
LEMMA ClippedIs ==
  ASSUME NEW n \in Nat, NEW d \in Nat \ {0}
  PROVE  Is(Clipped(Frac(n, d)), n, d)
<1>1. Is(Frac(n, d), n, d)
  BY FracIs
<1>2. ~(Frac(n, d)[1] < 0)
  BY <1>1, SignIs
<1>. QED BY <1>1, <1>2 DEF Clipped

\* The opposite of a fraction has the opposite numerator.
LEMMA MinusIs ==
  ASSUME NEW x, NEW n \in Int, NEW d \in Nat \ {0}, Is(x, n, d)
  PROVE  Is(Minus(x), -n, d)
<1>1. PICK a \in Int, b \in Nat \ {0} : x = <<a, b>> /\ a * d = n * b
  BY DEF Is, Fractions
<1>2. (-a) * d = -(a * d) /\ (-n) * b = -(n * b)
  OBVIOUS
<1>3. Minus(x) = <<-a, b>>
  BY <1>1 DEF Minus
<1>. QED BY <1>1, <1>2, <1>3 DEF Is, Fractions

\* The lesser of two fractions over one denominator has the lesser numerator.
LEMMA LesserIs ==
  ASSUME NEW x, NEW y, NEW n \in Int, NEW m \in Int, NEW d \in Nat \ {0}, Is(x, n, d), Is(y, m, d)
  PROVE  Is(Lesser(x, y), IF n <= m THEN n ELSE m, d)
BY PrecedesIs DEF Lesser

\* The part of a fraction above zero has the part of the numerator above zero.
LEMMA ClippedValue ==
  ASSUME NEW x, NEW n \in Int, NEW d \in Nat \ {0}, Is(x, n, d)
  PROVE  Is(Clipped(x), IF n < 0 THEN 0 ELSE n, d)
<1>1. Is(Zero, 0, d)
  <2>1. 0 * d = 0 * 1
    OBVIOUS
  <2>. QED BY <2>1 DEF Is, Zero, Whole, Fractions
<1>. QED BY <1>1, SignIs DEF Clipped

\* The inverse of a positive fraction.
LEMMA InvertedIs ==
  ASSUME NEW x, NEW n \in Nat \ {0}, NEW d \in Nat \ {0}, Is(x, n, d)
  PROVE  Is(Inverted(x), d, n)
<1>1. PICK a \in Int, b \in Nat \ {0} : x = <<a, b>> /\ a * d = n * b
  BY DEF Is, Fractions
<1>2. a > 0
  <2>1. ~(x[1] <= 0)
    BY SignIs
  <2>. QED BY <1>1, <2>1
<1>3. Inverted(x) = <<b, a>>
  BY <1>1, <1>2 DEF Inverted
<1>4. b * n = d * a
  <2>1. b * n = n * b /\ d * a = a * d
    OBVIOUS
  <2>. QED BY <1>1, <2>1
<1>. QED BY <1>2, <1>3, <1>4 DEF Is, Fractions

\* A whole number is a fraction over any denominator.
LEMMA WholeOver ==
  ASSUME NEW n \in Int, NEW d \in Nat \ {0}
  PROVE  n * d \in Int /\ Is(Whole(n), n * d, d)
<1>1. Is(Whole(n), n * d, 1 * d)
  BY WholeIs, IsScales
<1>2. 1 * d = d /\ n * d \in Int
  OBVIOUS
<1>. QED BY <1>1, <1>2

\* A fraction whose value is whole is that whole.
LEMMA WholeReduced ==
  ASSUME NEW p \in Int, NEW n \in Int, NEW d \in Nat \ {0}, Is(Whole(p), n, d)
  PROVE  Frac(n, d) = Whole(p)
<1>1. n * 1 = p * d
  <2>1. Is(Whole(p), p, 1)
    BY WholeIs
  <2>. QED BY <2>1, IsAgree
<1>2. Frac(n, d) = Frac(p, 1)
  BY <1>1, FracSame
<1>3. PICK x \in Int, q \in Nat \ {0}, g \in Nat \ {0} : Frac(p, 1) = <<x, q>> /\ p = g * x /\ 1 = g * q
  <2>1. PICK one \in Nat \ {0} : one = 1
    OBVIOUS
  <2>2. \E x \in Int : \E q, g \in Nat \ {0} : Frac(p, one) = <<x, q>> /\ p = g * x /\ one = g * q
    BY FracReduces
  <2>. QED BY <2>1, <2>2
<1>4. g = 1 /\ q = 1
  BY <1>3
<1>. QED BY <1>2, <1>3, <1>4 DEF Whole

\* Two fractions have a common denominator.
LEMMA TwoFractions ==
  ASSUME NEW x \in Fractions, NEW y \in Fractions
  PROVE  \E d \in Nat \ {0} : \E n, m \in Int : Is(x, n, d) /\ Is(y, m, d)
<1>1. PICK a \in Int, b \in Nat \ {0} : x = <<a, b>>
  BY DEF Fractions
<1>2. PICK p \in Int, q \in Nat \ {0} : y = <<p, q>>
  BY DEF Fractions
<1>3. Is(x, a, b) /\ Is(y, p, q)
  BY <1>1, <1>2 DEF Is, Fractions
<1>4. Is(x, a * q, b * q) /\ Is(y, p * b, q * b)
  BY <1>3, IsScales
<1>5. b * q = q * b /\ b * q \in Nat \ {0} /\ a * q \in Int /\ p * b \in Int
  OBVIOUS
<1>. QED BY <1>4, <1>5

\* Three fractions have a common denominator.
LEMMA ThreeFractions ==
  ASSUME NEW x \in Fractions, NEW y \in Fractions, NEW z \in Fractions
  PROVE  \E d \in Nat \ {0} : \E n, m, k \in Int : Is(x, n, d) /\ Is(y, m, d) /\ Is(z, k, d)
<1>1. PICK d \in Nat \ {0}, n \in Int, m \in Int : Is(x, n, d) /\ Is(y, m, d)
  BY TwoFractions
<1>2. PICK a \in Int, b \in Nat \ {0} : Is(z, a, b)
  <2>1. PICK a \in Int, b \in Nat \ {0} : z = <<a, b>>
    BY DEF Fractions
  <2>. QED BY <2>1 DEF Is, Fractions
<1>3. PICK e \in Nat \ {0} : e = d * b
  OBVIOUS
<1>4. PICK n1 \in Int, m1 \in Int, a1 \in Int : n1 = n * b /\ m1 = m * b /\ a1 = a * d
  OBVIOUS
<1>5. Is(x, n1, e) /\ Is(y, m1, e)
  BY <1>1, <1>3, <1>4, IsScales
<1>6. Is(z, a1, e)
  <2>1. Is(z, a * d, b * d)
    BY <1>2, IsScales
  <2>2. b * d = d * b
    OBVIOUS
  <2>. QED BY <1>3, <1>4, <2>1, <2>2
<1>. QED BY <1>5, <1>6

\* The sum, the product and the opposite of fractions are fractions.
LEMMA FractionsClosed ==
  ASSUME NEW x \in Fractions, NEW y \in Fractions
  PROVE  x ++ y \in Fractions /\ x ** y \in Fractions /\ Minus(x) \in Fractions
<1>1. PICK d \in Nat \ {0}, n \in Int, m \in Int : Is(x, n, d) /\ Is(y, m, d)
  BY TwoFractions
<1>2. x ++ y \in Fractions
  <2>1. x ++ y = Frac(n + m, d)
    BY <1>1, AddedIs
  <2>. QED BY <2>1, FracIs DEF Is
<1>3. x ** y \in Fractions
  <2>1. n * m \in Int /\ d * d \in Nat \ {0}
    OBVIOUS
  <2>2. x ** y = Frac(n * m, d * d)
    BY <1>1, TimesIs
  <2>. QED BY <2>1, <2>2, FracIs DEF Is
<1>4. Minus(x) \in Fractions
  BY <1>1, MinusIs DEF Is
<1>. QED BY <1>2, <1>3, <1>4

\* The order of fractions is transitive.
LEMMA PrecedesFollows ==
  ASSUME NEW x \in Fractions, NEW y \in Fractions, NEW z \in Fractions, x \preceq y, y \preceq z
  PROVE  x \preceq z
<1>1. PICK d \in Nat \ {0}, n \in Int, m \in Int, k \in Int : Is(x, n, d) /\ Is(y, m, d) /\ Is(z, k, d)
  BY ThreeFractions
<1>2. n <= m /\ m <= k
  BY <1>1, PrecedesIs
<1>3. n <= k
  BY <1>2
<1>. QED BY <1>1, <1>3, PrecedesIs

-----------------------------------------------------------------------------
(* Sums of fractions.                                                      *)

\* What the model's sums of fractions are computed with, as Sums is of numbers.
Total(fun, S) == FoldFunctionOnSet(++, Zero, fun, S)

Totals(g, fun, S) ==
  g = [s \in SUBSET S |-> IF s = {} THEN Zero ELSE fun[First(s)] ++ g[s \ {First(s)}]]

\* The library computes the total with a recursion it chooses.
LEMMA TotalIs ==
  ASSUME NEW fun, NEW S
  PROVE  Total(fun, S) = (CHOOSE g : Totals(g, fun, S))[S]
BY DEF Total, FoldFunctionOnSet, MapThenFoldSet, Totals, First

\* The sum of fractions with a common denominator.
LEMMA TotalOfCommon ==
  ASSUME NEW fun, NEW nums, NEW S, IsFiniteSet(S), OnInts(nums, S), NEW d \in Nat \ {0},
         \A x \in S : Is(fun[x], nums[x], d)
  PROVE  Total(fun, S) = Frac(SumFunctionOnSet(nums, S), d)
<1> DEFINE Sum(s) == Frac(SumFunctionOnSet(nums, s), d)
           G == [s \in SUBSET S |-> Sum(s)]
<1>1. Sum({}) = Zero
  <2>1. SumFunctionOnSet(nums, {}) = 0
    BY FS_EmptySet, SumUnfolds
  <2>. QED BY <2>1, FracOfZero
<1>2. ASSUME NEW s \in SUBSET S, s # {}
      PROVE  /\ s \ {First(s)} \in SUBSET S
             /\ Sum(s) = fun[First(s)] ++ Sum(s \ {First(s)})
  <2>1. PICK x : x = First(s)
    OBVIOUS
  <2>2. IsFiniteSet(s) /\ IsFiniteSet(s \ {x})
    BY FS_Subset
  <2>3. x \in s /\ SumFunctionOnSet(nums, s) = nums[x] + SumFunctionOnSet(nums, s \ {x})
    BY <1>2, <2>1, <2>2, SumUnfolds
  <2>4. PICK n \in Int : n = nums[x]
    BY <2>3 DEF OnInts
  <2>5. PICK m \in Int : m = SumFunctionOnSet(nums, s \ {x})
    <3>1. OnInts(nums, s \ {x})
      BY DEF OnInts
    <3>. QED BY <2>2, <3>1, SumType
  <2>6. Is(fun[x], n, d) /\ Is(Frac(m, d), m, d)
    BY <2>3, <2>4, FracIs
  <2>7. fun[x] ++ Frac(m, d) = Frac(n + m, d)
    BY <2>6, AddedIs
  <2>. QED BY <2>1, <2>3, <2>4, <2>5, <2>7
<1>3. Totals(G, fun, S)
  <2>1. \A s \in SUBSET S : s # {} => G[s \ {First(s)}] = Sum(s \ {First(s)})
    BY <1>2
  <2> HIDE DEF Sum
  <2>2. \A s \in SUBSET S :
          Sum(s) = IF s = {} THEN Zero ELSE fun[First(s)] ++ G[s \ {First(s)}]
    BY <1>1, <1>2, <2>1
  <2>. QED BY <2>2 DEF Totals
<1>4. PICK g : g = CHOOSE f : Totals(f, fun, S)
  OBVIOUS
<1>5. Totals(g, fun, S)
  <2> HIDE DEF G
  <2>. QED BY <1>3, <1>4
<1>6. \A s \in SUBSET S : g[s] = G[s]
  <2> DEFINE bad == {s \in SUBSET S : g[s] # G[s]}
  <2>1. SUFFICES ASSUME bad # {} PROVE FALSE
    OBVIOUS
  <2>2. bad \in SUBSET FiniteSubsetsOf(S)
    BY FS_Subset DEF FiniteSubsetsOf
  <2>3. PICK s \in bad : \A t \in bad : t \subseteq s => t = s
    <3> HIDE DEF bad
    <3>. QED BY <2>1, <2>2, SmallestSet
  <2> HIDE DEF G
  <2>4. s # {} /\ First(s) \in s
    BY <1>3, <1>5 DEF Totals, First
  <2>5. g[s \ {First(s)}] = G[s \ {First(s)}]
    BY <2>3, <2>4
  <2>6. /\ g[s] = fun[First(s)] ++ g[s \ {First(s)}]
        /\ G[s] = fun[First(s)] ++ G[s \ {First(s)}]
    BY <1>3, <1>5, <2>4 DEF Totals
  <2>. QED BY <2>5, <2>6
<1>7. g[S] = Sum(S)
  BY <1>6
<1>. QED BY <1>4, <1>7, TotalIs

\* Fractions over a common denominator sum to the sum of their numerators.
LEMMA SumOverCommon ==
  ASSUME NEW S, IsFiniteSet(S), NEW fun, DOMAIN fun = S, NEW nums, OnInts(nums, S),
         NEW d \in Nat \ {0}, \A x \in S : Is(fun[x], nums[x], d)
  PROVE  /\ SumOver(fun) = Frac(SumFunctionOnSet(nums, S), d)
         /\ SumFunctionOnSet(nums, S) \in Int
         /\ Is(SumOver(fun), SumFunctionOnSet(nums, S), d)
<1>1. SumOver(fun) = Total(fun, S)
  BY DEF SumOver, FoldFunction, Total
<1>2. SumFunctionOnSet(nums, S) \in Int
  BY SumType
<1>. QED BY <1>1, <1>2, TotalOfCommon, FracIs

\* Finitely many fractions have a common denominator.
LEMMA CommonDenominator ==
  ASSUME NEW U, IsFiniteSet(U), NEW fun, \A x \in U : fun[x] \in Fractions
  PROVE  \E d \in Nat \ {0} : \E nums : OnInts(nums, U) /\ \A x \in U : Is(fun[x], nums[x], d)
<1> DEFINE Common(S) ==
             \E d \in Nat \ {0} : \E nums : OnInts(nums, S) /\ \A x \in S : Is(fun[x], nums[x], d)
           bad == {S \in SUBSET U : ~Common(S)}
<1>1. SUFFICES ASSUME bad # {} PROVE FALSE
  OBVIOUS
<1>2. bad \in SUBSET FiniteSubsetsOf(U)
  BY FS_Subset DEF FiniteSubsetsOf
<1>3. PICK S \in bad : \A T \in bad : T \subseteq S => T = S
  <2> HIDE DEF bad
  <2>. QED BY <1>1, <1>2, SmallestSet
<1>4. PICK x : x \in S
  <2>1. Common({})
    BY DEF OnInts
  <2>. QED BY <2>1
<1>5. Common(S \ {x})
  <2>1. S \ {x} \notin bad
    <3> HIDE DEF bad
    <3>. QED BY <1>3, <1>4
  <2> HIDE DEF Common
  <2>. QED BY <2>1
<1>6. PICK d \in Nat \ {0} : \E nums : /\ OnInts(nums, S \ {x})
                                       /\ \A y \in S \ {x} : Is(fun[y], nums[y], d)
  BY <1>5
<1>7. PICK nums : OnInts(nums, S \ {x}) /\ \A y \in S \ {x} : Is(fun[y], nums[y], d)
  BY <1>6
<1>8. PICK a \in Int, b \in Nat \ {0} : fun[x] = <<a, b>>
  BY <1>4 DEF Fractions
<1> DEFINE other == [y \in S |-> IF y = x THEN a * d ELSE nums[y] * b]
<1>9. d * b \in Nat \ {0} /\ a * d \in Int
  OBVIOUS
<1>10. ASSUME NEW y \in S
       PROVE  other[y] \in Int /\ Is(fun[y], other[y], d * b)
  <2>1. CASE y = x
    <3>1. a * (d * b) = (a * d) * b
      OBVIOUS
    <3>. QED BY <1>8, <1>9, <2>1, <3>1 DEF Is, Fractions
  <2>2. CASE y # x
    <3>1. PICK n \in Int : n = nums[y]
      BY <1>7, <2>2 DEF OnInts
    <3>2. Is(fun[y], n * b, d * b)
      BY <1>7, <2>2, <3>1, IsScales
    <3>. QED BY <2>2, <3>1, <3>2
  <2>. QED BY <2>1, <2>2
<1>11. Common(S)
  <2>1. OnInts(other, S)
    BY <1>10 DEF OnInts
  <2> HIDE DEF other
  <2>. QED BY <1>9, <1>10, <2>1
<1>. QED BY <1>11

\* Fractions that are not negative.
NonNegative == Nat \X (Nat \ {0})

\* An amount has a value that is not negative.
LEMMA AmountIs ==
  ASSUME NEW x, NEW n \in Int, NEW d \in Nat \ {0}, Is(x, n, d)
  PROVE  x \in NonNegative <=> n >= 0
<1>1. x[1] < 0 <=> n < 0
  BY SignIs
<1>2. x \in Int \X (Nat \ {0})
  BY DEF Is, Fractions
<1>. QED BY <1>1, <1>2 DEF NonNegative

\* Amounts multiply to an amount.
LEMMA TimesAmount ==
  ASSUME NEW x \in NonNegative, NEW y \in NonNegative
  PROVE  x ** y \in NonNegative
<1>1. x ** y = Frac(x[1] * y[1], x[2] * y[2])
  BY DEF **
<1>2. x[1] * y[1] \in Nat /\ x[2] * y[2] \in Nat \ {0}
  <2>1. PICK a, c \in Nat, b, d \in Nat \ {0} : x = <<a, b>> /\ y = <<c, d>>
    BY DEF NonNegative
  <2>. QED BY <2>1
<1>3. PICK n \in Nat, d \in Nat \ {0} : n = x[1] * y[1] /\ d = x[2] * y[2]
  BY <1>2
<1>. QED BY <1>1, <1>3, FracIs, AmountIs

\* Amounts sum to an amount.
LEMMA SumOverAmounts ==
  ASSUME NEW S, IsFiniteSet(S), NEW fun, DOMAIN fun = S, \A x \in S : fun[x] \in NonNegative
  PROVE  SumOver(fun) \in NonNegative
<1>1. PICK d \in Nat \ {0} : \E nums : OnInts(nums, S) /\ \A x \in S : Is(fun[x], nums[x], d)
  <2>1. \A x \in S : fun[x] \in Fractions
    BY DEF NonNegative, Fractions
  <2>. QED BY <2>1, CommonDenominator
<1>2. PICK nums : OnInts(nums, S) /\ \A x \in S : Is(fun[x], nums[x], d)
  BY <1>1
<1>3. \A x \in S : nums[x] >= 0
  BY <1>2, AmountIs DEF OnInts
<1>4. /\ SumFunctionOnSet(nums, S) \in Int
      /\ Is(SumOver(fun), SumFunctionOnSet(nums, S), d)
  BY <1>2, SumOverCommon
<1>5. 0 <= SumFunctionOnSet(nums, S)
  <2>1. SumFunctionOnSet(nums, {}) <= SumFunctionOnSet(nums, S)
    BY <1>2, <1>3, SumPart
  <2>2. SumFunctionOnSet(nums, {}) = 0
    BY FS_EmptySet, SumUnfolds
  <2>. QED BY <2>1, <2>2
<1>. QED BY <1>4, <1>5, AmountIs

\* An amount is a fraction.
LEMMA AmountIsFraction == \A x \in NonNegative : x \in Fractions
BY DEF NonNegative, Fractions

\* The lesser of two amounts is an amount, at most either.
LEMMA LesserFacts ==
  ASSUME NEW x \in NonNegative, NEW y \in NonNegative
  PROVE  Lesser(x, y) \in NonNegative /\ Lesser(x, y) \preceq x /\ Lesser(x, y) \preceq y
<1>1. x \in Fractions /\ y \in Fractions
  BY DEF NonNegative, Fractions
<1>2. PICK d \in Nat \ {0}, n \in Int, m \in Int : Is(x, n, d) /\ Is(y, m, d)
  BY <1>1, TwoFractions
<1>3. PICK k \in Int : k = (IF n <= m THEN n ELSE m)
  OBVIOUS
<1>4. Is(Lesser(x, y), k, d)
  BY <1>2, <1>3, LesserIs
<1>5. Lesser(x, y) \preceq x /\ Lesser(x, y) \preceq y
  <2>1. k <= n /\ k <= m
    BY <1>3
  <2>. QED BY <1>2, <1>4, <2>1, PrecedesIs
<1>. QED BY <1>5 DEF Lesser

\* Adding nothing passes no bound.
LEMMA NothingAdded ==
  ASSUME NEW x \in Fractions, NEW y \in Fractions, x \preceq y
  PROVE  (Zero ++ x) \preceq y
<1>1. PICK d \in Nat \ {0}, n \in Int, m \in Int : Is(x, n, d) /\ Is(y, m, d)
  BY TwoFractions
<1>2. Is(Zero, 0, d)
  BY DEF Is, Fractions, Zero, Whole
<1>3. Is(Zero ++ x, 0 + n, d)
  <2>1. Zero ++ x = Frac(0 + n, d)
    BY <1>1, <1>2, AddedIs
  <2>. QED BY <2>1, FracIs
<1>4. 0 + n <= m
  BY <1>1, PrecedesIs
<1>. QED BY <1>1, <1>3, <1>4, PrecedesIs

\* Charging no more than the room below the top of a band stays within the band.
LEMMA AddWithin ==
  ASSUME NEW lo \in Int, NEW hi \in Int, NEW s \in Fractions, Whole(lo) \preceq s, s \preceq Whole(hi),
         NEW x \in Fractions, NEW room, room = Clipped(Lesser(x, Whole(hi) ++ Minus(s)))
  PROVE  /\ room \in NonNegative
         /\ s ++ room \in Fractions /\ Whole(lo) \preceq (s ++ room) /\ (s ++ room) \preceq Whole(hi)
<1>1. PICK d \in Nat \ {0}, n \in Int, m \in Int : Is(s, n, d) /\ Is(x, m, d)
  BY TwoFractions
<1>2. PICK l \in Int : Is(Whole(lo), l, d)
  BY WholeOver
<1>3. PICK h \in Int : Is(Whole(hi), h, d)
  BY WholeOver
<1>4. l <= n /\ n <= h
  BY <1>1, <1>2, <1>3, PrecedesIs
<1>5. Is(Whole(hi) ++ Minus(s), h + (-n), d)
  <2>1. Is(Minus(s), -n, d)
    BY <1>1, MinusIs
  <2>2. Whole(hi) ++ Minus(s) = Frac(h + (-n), d)
    BY <1>3, <2>1, AddedIs
  <2>. QED BY <2>2, FracIs
<1>6. PICK r \in Int : r = (IF m <= h + (-n) THEN m ELSE h + (-n))
  OBVIOUS
<1>7. PICK q \in Int : q = (IF r < 0 THEN 0 ELSE r)
  OBVIOUS
<1>8. Is(room, q, d)
  <2>1. Is(Lesser(x, Whole(hi) ++ Minus(s)), r, d)
    BY <1>1, <1>5, <1>6, LesserIs
  <2>. QED BY <1>7, <2>1, ClippedValue
<1>9. 0 <= q /\ n + q <= h /\ l <= n + q
  BY <1>4, <1>6, <1>7
<1>10. Is(s ++ room, n + q, d)
  <2>1. s ++ room = Frac(n + q, d)
    BY <1>1, <1>8, AddedIs
  <2>. QED BY <2>1, FracIs
<1>11. room \in NonNegative
  BY <1>8, <1>9, AmountIs
<1>12. Whole(lo) \preceq (s ++ room)
  BY <1>2, <1>9, <1>10, PrecedesIs
<1>13. (s ++ room) \preceq Whole(hi)
  BY <1>3, <1>9, <1>10, PrecedesIs
<1>. QED BY <1>10, <1>11, <1>12, <1>13 DEF Is

\* Nor does taking any part of what is above its bottom leave it.
LEMMA TakeWithin ==
  ASSUME NEW lo \in Int, NEW hi \in Int, NEW s \in Fractions, Whole(lo) \preceq s, s \preceq Whole(hi),
         NEW x \in Fractions, NEW wanted, wanted = Clipped(Lesser(x, s ++ Minus(Whole(lo))))
  PROVE  /\ wanted \in NonNegative
         /\ \A a \in NonNegative : a \preceq wanted =>
              /\ s ++ Minus(a) \in Fractions
              /\ Whole(lo) \preceq (s ++ Minus(a)) /\ (s ++ Minus(a)) \preceq Whole(hi)
<1>1. PICK d \in Nat \ {0}, n \in Int, m \in Int : Is(s, n, d) /\ Is(x, m, d)
  BY TwoFractions
<1>2. PICK l \in Int : Is(Whole(lo), l, d)
  BY WholeOver
<1>4. l <= n
  BY <1>1, <1>2, PrecedesIs
<1>5. Is(s ++ Minus(Whole(lo)), n + (-l), d)
  <2>1. Is(Minus(Whole(lo)), -l, d)
    BY <1>2, MinusIs
  <2>2. s ++ Minus(Whole(lo)) = Frac(n + (-l), d)
    BY <1>1, <2>1, AddedIs
  <2>. QED BY <2>2, FracIs
<1>6. PICK r \in Int : r = (IF m <= n + (-l) THEN m ELSE n + (-l))
  OBVIOUS
<1>7. PICK q \in Int : q = (IF r < 0 THEN 0 ELSE r)
  OBVIOUS
<1>8. Is(wanted, q, d)
  <2>1. Is(Lesser(x, s ++ Minus(Whole(lo))), r, d)
    BY <1>1, <1>5, <1>6, LesserIs
  <2>. QED BY <1>7, <2>1, ClippedValue
<1>9. 0 <= q /\ q <= n - l
  BY <1>4, <1>6, <1>7
<1>10. wanted \in NonNegative
  BY <1>8, <1>9, AmountIs
<1>11. ASSUME NEW a \in NonNegative, a \preceq wanted
       PROVE  /\ s ++ Minus(a) \in Fractions
              /\ Whole(lo) \preceq (s ++ Minus(a)) /\ (s ++ Minus(a)) \preceq Whole(hi)
  <2>1. PICK t, y : t = s /\ y = wanted
    OBVIOUS
  <2>2. t \in Fractions /\ a \in Fractions
    BY <2>1 DEF Fractions, NonNegative
  <2>3. PICK e \in Nat \ {0}, u \in Int, v \in Int : Is(t, u, e) /\ Is(a, v, e)
    BY <2>2, TwoFractions
  <2>4. PICK k \in Nat \ {0} : k = d * e
    OBVIOUS
  <2>5. /\ Is(s, n * e, k) /\ Is(wanted, q * e, k) /\ Is(Whole(lo), l * e, k)
        /\ Is(a, v * d, k)
    <3>1. e * d = d * e
      OBVIOUS
    <3>. QED BY <1>1, <1>2, <1>8, <2>3, <2>4, <3>1, IsScales
  <2>6. PICK n1 \in Int, q1 \in Int, l1 \in Int, v1 \in Int :
          n1 = n * e /\ q1 = q * e /\ l1 = l * e /\ v1 = v * d
    OBVIOUS
  <2>7. Is(s, n1, k) /\ Is(wanted, q1, k) /\ Is(Whole(lo), l1, k) /\ Is(a, v1, k)
    BY <2>5, <2>6
  <2>8. PICK h1 \in Int : Is(Whole(hi), h1, k)
    BY WholeOver
  <2>9. q1 <= n1 - l1
    <3>1. q * e <= (n - l) * e
      BY <1>9
    <3>. QED BY <2>6, <3>1
  <2>10. 0 <= v1 /\ v1 <= q1 /\ n1 <= h1
    BY <1>11, <2>7, <2>8, AmountIs, PrecedesIs
  <2>11. Is(s ++ Minus(a), n1 + (-v1), k)
    <3>1. Is(Minus(a), -v1, k)
      BY <2>7, MinusIs
    <3>2. s ++ Minus(a) = Frac(n1 + (-v1), k)
      BY <2>7, <3>1, AddedIs
    <3>. QED BY <3>2, FracIs
  <2>12. l1 <= n1 + (-v1) /\ n1 + (-v1) <= h1
    BY <2>9, <2>10
  <2>13. Whole(lo) \preceq (s ++ Minus(a))
    BY <2>7, <2>11, <2>12, PrecedesIs
  <2>14. (s ++ Minus(a)) \preceq Whole(hi)
    BY <2>8, <2>11, <2>12, PrecedesIs
  <2>. QED BY <2>11, <2>13, <2>14 DEF Is
<1>. QED BY <1>10, <1>11

\* What fits in the rest of a cap fits with anything that was counted.
LEMMA CapLeaves ==
  ASSUME NEW top \in Nat, NEW total \in Fractions, NEW held \in Fractions, NEW amount \in Fractions,
         held \preceq total, held \preceq Whole(top),
         amount \preceq Clipped(Whole(top) ++ Minus(total))
  PROVE  (amount ++ held) \preceq Whole(top)
<1>1. PICK d \in Nat \ {0}, T \in Int, h \in Int, a \in Int :
        Is(total, T, d) /\ Is(held, h, d) /\ Is(amount, a, d)
  BY ThreeFractions
<1>2. PICK c \in Int : Is(Whole(top), c, d)
  BY WholeOver
<1>3. h <= T /\ h <= c
  BY <1>1, <1>2, PrecedesIs
<1>4. Is(Whole(top) ++ Minus(total), c + (-T), d)
  <2>1. Is(Minus(total), -T, d)
    BY <1>1, MinusIs
  <2>2. Whole(top) ++ Minus(total) = Frac(c + (-T), d)
    BY <1>2, <2>1, AddedIs
  <2>. QED BY <2>2, FracIs
<1>5. PICK r \in Int : r = (IF c + (-T) < 0 THEN 0 ELSE c + (-T))
  OBVIOUS
<1>6. Is(Clipped(Whole(top) ++ Minus(total)), r, d)
  BY <1>4, <1>5, ClippedValue
<1>7. a <= r
  BY <1>1, <1>6, PrecedesIs
<1>8. a + h <= c
  BY <1>3, <1>5, <1>7
<1>9. Is(amount ++ held, a + h, d)
  <2>1. amount ++ held = Frac(a + h, d)
    BY <1>1, AddedIs
  <2>. QED BY <2>1, FracIs
<1>. QED BY <1>2, <1>8, <1>9, PrecedesIs

\* The sum of no fractions is zero.
LEMMA SumOverNone ==
  ASSUME NEW f, DOMAIN f = {}
  PROVE  SumOver(f) = Zero
<1> DEFINE nums == [x \in {} |-> 0]
<1>1. SumOver(f) = Frac(SumFunctionOnSet(nums, {}), 1)
  BY FS_EmptySet, SumOverCommon DEF OnInts
<1>2. SumFunctionOnSet(nums, {}) = 0
  BY FS_EmptySet, SumUnfolds
<1> HIDE DEF nums
<1>. QED BY <1>1, <1>2, FracOfZero

\* A sum of fractions is a fraction.
LEMMA SumOverType ==
  ASSUME NEW S, IsFiniteSet(S), NEW f, DOMAIN f = S, \A x \in S : f[x] \in Fractions
  PROVE  SumOver(f) \in Fractions
<1>1. PICK d \in Nat \ {0} : \E nums : OnInts(nums, S) /\ \A x \in S : Is(f[x], nums[x], d)
  BY CommonDenominator
<1>2. PICK nums : OnInts(nums, S) /\ \A x \in S : Is(f[x], nums[x], d)
  BY <1>1
<1>. QED BY <1>2, SumOverCommon DEF Is

\* A sum is that of one of its terms and of the others, which is the whole sum when the
\* one is zero.
LEMMA SumOverTakes ==
  ASSUME NEW S, IsFiniteSet(S), NEW f, DOMAIN f = S, \A x \in S : f[x] \in Fractions, NEW u \in S
  PROVE  /\ SumOver(f) = f[u] ++ SumOver([x \in S \ {u} |-> f[x]])
         /\ f[u] = Zero => SumOver(f) = SumOver([x \in S \ {u} |-> f[x]])
<1> DEFINE g == [x \in S \ {u} |-> f[x]]
<1>1. PICK d \in Nat \ {0} : \E nums : OnInts(nums, S) /\ \A x \in S : Is(f[x], nums[x], d)
  BY CommonDenominator
<1>2. PICK nums : OnInts(nums, S) /\ \A x \in S : Is(f[x], nums[x], d)
  BY <1>1
<1>3. /\ IsFiniteSet(S \ {u}) /\ DOMAIN g = S \ {u} /\ OnInts(nums, S \ {u})
      /\ \A x \in S \ {u} : Is(g[x], nums[x], d)
  <2>1. IsFiniteSet(S \ {u})
    BY FS_Subset
  <2>. QED BY <1>2, <2>1 DEF OnInts
<1> HIDE DEF g
<1>4. PICK n \in Int, m \in Int : n = nums[u] /\ m = SumFunctionOnSet(nums, S \ {u})
  BY <1>2, <1>3, SumType DEF OnInts
<1>5. SumOver(f) = Frac(n + m, d)
  <2>1. SumFunctionOnSet(nums, S) = n + m
    BY <1>2, <1>4, SumTakes
  <2>. QED BY <1>2, <2>1, SumOverCommon
<1>6. SumOver(g) = Frac(m, d) /\ Is(SumOver(g), m, d)
  BY <1>3, <1>4, SumOverCommon
<1>7. Is(f[u], n, d)
  BY <1>2, <1>4
<1>8. f[u] ++ SumOver(g) = Frac(n + m, d)
  BY <1>6, <1>7, AddedIs
<1>9. ASSUME f[u] = Zero PROVE SumOver(f) = SumOver(g)
  <2>1. Is(Zero, 0, 1) /\ Is(Zero, n, d)
    <3>1. Is(Whole(0), 0, 1)
      BY WholeIs
    <3>. QED BY <1>7, <1>9, <3>1 DEF Zero
  <2>2. 0 * d = n * 1
    BY <2>1, IsAgree
  <2>3. n = 0 /\ n + m = m
    BY <2>2
  <2>. QED BY <1>5, <1>6, <2>3
<1>. QED BY <1>5, <1>8, <1>9 DEF g

\* A sum with one more term, which may be zero.
LEMMA OneMore ==
  ASSUME NEW R, IsFiniteSet(R), NEW u \in R, NEW S, \A x : x \in S <=> x \in R /\ x # u,
         NEW f, DOMAIN f = S, f = [x \in S |-> f[x]],
         NEW g, DOMAIN g = R, \A x \in R : g[x] \in Fractions, \A x \in S : f[x] = g[x]
  PROVE  /\ SumOver(g) = g[u] ++ SumOver(f)
         /\ g[u] = Zero => SumOver(g) = SumOver(f)
<1>1. R \ {u} = S
  OBVIOUS
<1>2. f = [x \in R \ {u} |-> g[x]]
  BY <1>1
<1>3. /\ SumOver(g) = g[u] ++ SumOver([x \in R \ {u} |-> g[x]])
      /\ g[u] = Zero => SumOver(g) = SumOver([x \in R \ {u} |-> g[x]])
  BY SumOverTakes
<1>. QED BY <1>2, <1>3, Zenon

\* A part of a sum of amounts is at most the whole.
LEMMA SumOverPart ==
  ASSUME NEW S, IsFiniteSet(S), NEW f, DOMAIN f = S, \A x \in S : f[x] \in NonNegative,
         NEW V \in SUBSET S
  PROVE  SumOver([x \in V |-> f[x]]) \preceq SumOver(f)
<1> DEFINE g == [x \in V |-> f[x]]
<1>1. \A x \in S : f[x] \in Fractions
  BY DEF NonNegative, Fractions
<1>2. PICK d \in Nat \ {0} : \E nums : OnInts(nums, S) /\ \A x \in S : Is(f[x], nums[x], d)
  BY <1>1, CommonDenominator
<1>3. PICK nums : OnInts(nums, S) /\ \A x \in S : Is(f[x], nums[x], d)
  BY <1>2
<1>4. \A x \in S : nums[x] \in Int /\ nums[x] >= 0
  BY <1>3, AmountIs DEF OnInts
<1>5. /\ IsFiniteSet(V) /\ DOMAIN g = V /\ OnInts(nums, V)
      /\ \A x \in V : Is(g[x], nums[x], d)
  <2>1. IsFiniteSet(V)
    BY FS_Subset
  <2>. QED BY <1>3, <2>1 DEF OnInts
<1> HIDE DEF g
<1>6. Is(SumOver(f), SumFunctionOnSet(nums, S), d) /\ SumFunctionOnSet(nums, S) \in Int
  BY <1>3, SumOverCommon
<1>7. Is(SumOver(g), SumFunctionOnSet(nums, V), d) /\ SumFunctionOnSet(nums, V) \in Int
  BY <1>5, SumOverCommon
<1>8. SumFunctionOnSet(nums, V) <= SumFunctionOnSet(nums, S)
  BY <1>3, <1>4, SumPart
<1>. QED BY <1>6, <1>7, <1>8, PrecedesIs DEF g

\* The names of the terms do not matter.
LEMMA SumOverRenamed ==
  ASSUME NEW S, IsFiniteSet(S), NEW f, DOMAIN f = S, \A x \in S : f[x] \in Fractions,
         NEW name, \A x, y \in S : name[x] = name[y] => x = y,
         NEW g, DOMAIN g = {name[x] : x \in S}, \A x \in S : g[name[x]] = f[x]
  PROVE  SumOver(g) = SumOver(f)
<1> DEFINE T == {name[x] : x \in S}
<1>1. IsFiniteSet(T)
  <2> DEFINE h == [x \in S |-> name[x]]
  <2>1. h \in Surjection(S, T)
    BY DEF Surjection
  <2> HIDE DEF h, T
  <2>. QED BY <2>1, FS_Surjection DEF ExistsSurjection
<1>2. \A y \in T : g[y] \in Fractions
  OBVIOUS
<1>3. PICK d \in Nat \ {0} : \E nums : OnInts(nums, T) /\ \A y \in T : Is(g[y], nums[y], d)
  <2> HIDE DEF T
  <2>. QED BY <1>1, <1>2, CommonDenominator
<1>4. PICK nums : OnInts(nums, T) /\ \A y \in T : Is(g[y], nums[y], d)
  BY <1>3
<1> DEFINE old == [x \in S |-> nums[name[x]]]
<1>5. OnInts(old, S) /\ \A x \in S : Is(f[x], old[x], d)
  BY <1>4 DEF OnInts
<1>6. \A x \in S : nums[name[x]] = old[x]
  OBVIOUS
<1> HIDE DEF old
<1>7. SumFunctionOnSet(nums, {name[x] : x \in S}) = SumFunctionOnSet(old, S)
  BY <1>5, <1>6, SumRenamed
<1>8. SumOver(f) = Frac(SumFunctionOnSet(old, S), d)
  BY <1>5, SumOverCommon
<1>9. SumOver(g) = Frac(SumFunctionOnSet(nums, T), d)
  <2>1. DOMAIN g = T
    OBVIOUS
  <2> HIDE DEF T
  <2>. QED BY <1>1, <1>4, <2>1, SumOverCommon
<1>. QED BY <1>7, <1>8, <1>9

-----------------------------------------------------------------------------
(* Series and signals.                                                     *)

\* The newest value at or before a time is a value, if there is one; a bound on its age
\* can only take it away.
LEMMA ValueFacts ==
  ASSUME NEW s, IsSeries(s), NEW t, NEW staleness
  PROVE  /\ ValueAtOrBefore(s, t, None) \in Int \cup {None}
         /\ ValueAtOrBefore(s, t, staleness) \in {None, ValueAtOrBefore(s, t, None)}
<1> DEFINE past == {u \in DOMAIN s : u <= t}
<1>1. ASSUME past # {} PROVE Max(past) \in DOMAIN s
  <2>1. IsFiniteSet(past) /\ past \subseteq Int
    BY FS_Subset DEF IsSeries
  <2> HIDE DEF past
  <2>2. \E x \in past : \A y \in past : x >= y
    BY <1>1, <2>1, LargestNumber
  <2>3. Max(past) \in past
    BY <2>2 DEF Max
  <2>. QED BY <2>3 DEF past
<1>2. ValueAtOrBefore(s, t, None) = IF past = {} THEN None ELSE s[Max(past)]
  BY DEF ValueAtOrBefore
<1>3. ValueAtOrBefore(s, t, staleness)
        \in {None, IF past = {} THEN None ELSE s[Max(past)]}
  BY DEF ValueAtOrBefore
<1>4. past # {} => s[Max(past)] \in Int
  BY <1>1 DEF IsSeries
<1>. QED BY <1>2, <1>3, <1>4

\* A leg is never of negative strength.
LEMMA StrengthFacts ==
  ASSUME NEW s \in Seq(Int), NEW b \in Seq(Int)
  PROVE  LegRelativeStrength(s, b) \in NonNegative
<1>1. Zero \in NonNegative
  BY DEF Zero, Whole, NonNegative
<1>2. CASE s # << >> /\ b # << >> /\ ~(SumOf(b) <= 0)
  <2>1. Len(s) \in Nat \ {0} /\ Len(b) \in Nat \ {0}
    <3>1. Len(s) \in Nat /\ Len(b) \in Nat /\ Len(s) # 0 /\ Len(b) # 0
      BY <1>2, LenProperties, EmptySeq
    <3>. QED BY <3>1
  <2>2. SumOf(s) \in Int /\ SumOf(b) \in Nat \ {0}
    BY <1>2, SumOfType
  <2>3. SumOf(s) * Len(b) \in Int /\ Len(s) * SumOf(b) \in Nat \ {0}
    BY <2>1, <2>2
  <2>4. PICK n \in Int, d \in Nat \ {0} : n = SumOf(s) * Len(b) /\ d = Len(s) * SumOf(b)
    BY <2>3
  <2>5. LegRelativeStrength(s, b) = Clipped(Frac(n, d))
    BY <1>2, <2>4 DEF LegRelativeStrength
  <2>6. CASE n >= 0
    <3>1. n \in Nat /\ Is(Clipped(Frac(n, d)), n, d)
      BY <2>6, ClippedIs
    <3>. QED BY <2>5, <3>1, AmountIs
  <2>7. CASE n < 0
    <3>1. Frac(n, d)[1] < 0
      BY <2>7, FracIs, SignIs
    <3>. QED BY <1>1, <2>5, <3>1 DEF Clipped
  <2>. QED BY <2>6, <2>7
<1>3. CASE ~(s # << >> /\ b # << >> /\ ~(SumOf(b) <= 0))
  BY <1>1, <1>3 DEF LegRelativeStrength
<1>. QED BY <1>2, <1>3

\* A set with a new largest element is in order as before, and then the new element.
LEMMA AscendingAdds ==
  ASSUME NEW S \in SUBSET Int, IsFiniteSet(S), NEW m \in Int, \A x \in S : x < m
  PROVE  /\ Cardinality(S) \in Nat /\ Cardinality(S \cup {m}) = Cardinality(S) + 1
         /\ \A k \in 1..Cardinality(S) : Ascending(S \cup {m})[k] = Ascending(S)[k]
         /\ Ascending(S \cup {m})[Cardinality(S) + 1] = m
<1> DEFINE T == S \cup {m}
           below(U, x) == {y \in U : y < x}
           at(U, k) == CHOOSE x \in U : Cardinality({y \in U : y < x}) = k - 1
<1>1. PICK c \in Nat : c = Cardinality(S)
  BY FS_CardinalityType
<1>2. m \notin S /\ m \in T
  OBVIOUS
<1>3. Cardinality(T) = c + 1
  BY <1>1, <1>2, FS_AddElement
<1>4. {y \in T : y < m} = S
  <2>1. \A y : y \in T /\ y < m <=> y \in S
    <3>1. ~(m < m)
      OBVIOUS
    <3>. QED BY <3>1
  <2>. QED BY <2>1
<1>5. ASSUME NEW x \in S
      PROVE  /\ {y \in T : y < x} = {y \in S : y < x}
             /\ Cardinality({y \in S : y < x}) \in Nat /\ Cardinality({y \in S : y < x}) < c
  <2>1. {y \in T : y < x} = {y \in S : y < x}
    BY <1>5
  <2>2. {y \in S : y < x} \subseteq S /\ {y \in S : y < x} # S
    <3>1. x \notin {y \in S : y < x}
      BY <1>5
    <3>. QED BY <1>5, <3>1
  <2>3. PICK L : L = {y \in S : y < x}
    OBVIOUS
  <2>4. L \in SUBSET S /\ L # S
    BY <2>2, <2>3
  <2>5. IsFiniteSet(L) /\ Cardinality(L) <= Cardinality(S) /\ Cardinality(S) # Cardinality(L)
    BY <2>4, FS_Subset
  <2>6. Cardinality(L) \in Nat
    BY <2>5, FS_CardinalityType
  <2>. QED BY <1>1, <2>1, <2>3, <2>5, <2>6
<1>6. ASSUME NEW k \in 1..c
      PROVE  Ascending(T)[k] = Ascending(S)[k]
  <2>1. \A x : (x \in T /\ Cardinality({y \in T : y < x}) = k - 1)
                 <=> (x \in S /\ Cardinality({y \in S : y < x}) = k - 1)
    <3>1. ASSUME NEW x \in S
          PROVE  Cardinality({y \in T : y < x}) = Cardinality({y \in S : y < x})
      BY <1>5, <3>1
    <3>2. Cardinality({y \in T : y < m}) = c
      BY <1>1, <1>4
    <3>3. c # k - 1
      BY <1>6
    <3>. QED BY <1>2, <3>1, <3>2, <3>3
  <2>2. at(T, k) = at(S, k)
    <3> DEFINE P(x) == x \in T /\ Cardinality({y \in T : y < x}) = k - 1
               Q(x) == x \in S /\ Cardinality({y \in S : y < x}) = k - 1
    <3>1. \A x : P(x) <=> Q(x)
      BY <2>1
    <3>2. (CHOOSE x : P(x)) = (CHOOSE x : Q(x))
      <4> HIDE DEF P, Q
      <4>. QED BY <3>1
    <3>. QED BY <3>2
  <2>3. Ascending(T)[k] = at(T, k)
    <3>1. k \in 1..Cardinality(T)
      BY <1>3, <1>6
    <3> HIDE DEF T
    <3>. QED BY <3>1 DEF Ascending
  <2>4. Ascending(S)[k] = at(S, k)
    BY <1>1, <1>6 DEF Ascending
  <2>. QED BY <2>2, <2>3, <2>4
<1>7. Ascending(T)[c + 1] = m
  <2>1. Ascending(T)[c + 1] = at(T, c + 1)
    <3>1. c + 1 \in 1..Cardinality(T)
      BY <1>3
    <3> HIDE DEF T
    <3>. QED BY <3>1 DEF Ascending
  <2>2. Cardinality({y \in T : y < m}) = (c + 1) - 1
    <3>1. c = (c + 1) - 1
      OBVIOUS
    <3>2. Cardinality({y \in T : y < m}) = c
      BY <1>1, <1>4, Zenon
    <3>. QED BY <3>1, <3>2, Zenon
  <2>3. \A x \in T : Cardinality({y \in T : y < x}) = (c + 1) - 1 => x = m
    <3> SUFFICES ASSUME NEW x \in S, Cardinality({y \in T : y < x}) = (c + 1) - 1 PROVE FALSE
      OBVIOUS
    <3>1. PICK e \in Nat : e = Cardinality({y \in S : y < x}) /\ e < c
      BY <1>5
    <3>2. Cardinality({y \in T : y < x}) = e
      BY <1>5, <3>1
    <3>. QED BY <3>1, <3>2
  <2>. QED BY <1>2, <2>1, <2>2, <2>3
<1>. QED BY <1>1, <1>3, <1>6, <1>7

\* What is put in order is the set's elements.
LEMMA AscendingFrom ==
  ASSUME NEW U \in SUBSET Int, IsFiniteSet(U)
  PROVE  /\ DOMAIN Ascending(U) = 1..Cardinality(U)
         /\ \A k \in DOMAIN Ascending(U) : Ascending(U)[k] \in U
<1> DEFINE From(S) == \A k \in 1..Cardinality(S) : Ascending(S)[k] \in S
           bad == {S \in SUBSET U : ~From(S)}
<1>1. DOMAIN Ascending(U) = 1..Cardinality(U)
  BY DEF Ascending
<1>2. From(U)
  <2> SUFFICES ASSUME bad # {} PROVE FALSE
    OBVIOUS
  <2>1. bad \in SUBSET FiniteSubsetsOf(U)
    BY FS_Subset DEF FiniteSubsetsOf
  <2>2. PICK S \in bad : \A T \in bad : T \subseteq S => T = S
    <3> HIDE DEF bad
    <3>. QED BY <2>1, SmallestSet
  <2>3. IsFiniteSet(S) /\ S \in SUBSET Int /\ ~From(S)
    BY FS_Subset
  <2>4. S # {}
    BY <2>3, FS_EmptySet
  <2>5. PICK m \in S : \A y \in S : m >= y
    BY <2>3, <2>4, LargestNumber
  <2> DEFINE R == S \ {m}
  <2>6. /\ R \in SUBSET Int /\ IsFiniteSet(R) /\ m \in Int /\ \A x \in R : x < m
        /\ R \cup {m} = S
    <3>1. \A x \in R : x \in Int /\ x # m /\ m >= x
      BY <2>3, <2>5
    <3>2. m \in Int /\ R \subseteq S
      BY <2>3
    <3>. QED BY <2>3, <3>1, <3>2, FS_Subset
  <2>7. From(R)
    <3>1. R \subseteq S /\ R # S /\ R \in SUBSET U
      OBVIOUS
    <3>. QED BY <2>2, <3>1
  <2> HIDE DEF R
  <2>8. /\ Cardinality(R) \in Nat /\ Cardinality(S) = Cardinality(R) + 1
        /\ \A k \in 1..Cardinality(R) : Ascending(S)[k] = Ascending(R)[k]
        /\ Ascending(S)[Cardinality(R) + 1] = m
    BY <2>6, AscendingAdds
  <2>9. PICK c \in Nat : c = Cardinality(R)
    BY <2>8
  <2>10. \A k \in 1..c : Ascending(S)[k] \in S
    BY <2>6, <2>7, <2>8, <2>9
  <2>11. \A k \in 1..(c + 1) : k \in 1..c \/ k = c + 1
    BY <2>9
  <2>. QED BY <2>3, <2>6, <2>8, <2>9, <2>10, <2>11
<1>. QED BY <1>1, <1>2

\* Numbers in ascending order rise.
LEMMA AscendingRises ==
  ASSUME NEW U \in SUBSET Int, IsFiniteSet(U)
  PROVE  /\ Cardinality(U) \in Nat
         /\ \A j, k \in 1..Cardinality(U) : j < k => Ascending(U)[j] < Ascending(U)[k]
<1> DEFINE Rises(S) == \A j, k \in 1..Cardinality(S) : j < k => Ascending(S)[j] < Ascending(S)[k]
           bad == {S \in SUBSET U : ~Rises(S)}
<1>1. SUFFICES ASSUME bad # {} PROVE FALSE
  BY FS_CardinalityType
<1>2. PICK S \in bad : \A T \in bad : T \subseteq S => T = S
  <2>1. bad \in SUBSET FiniteSubsetsOf(U)
    BY FS_Subset DEF FiniteSubsetsOf
  <2> HIDE DEF bad
  <2>. QED BY <1>1, <2>1, SmallestSet
<1>3. S \in SUBSET Int /\ IsFiniteSet(S) /\ ~Rises(S)
  BY FS_Subset
<1>4. S # {}
  BY <1>3, FS_EmptySet
<1>5. PICK m \in S : \A y \in S : m >= y
  <2> HIDE DEF bad, Rises
  <2>. QED BY <1>3, <1>4, LargestNumber
<1> DEFINE R == S \ {m}
<1>6. /\ R \in SUBSET Int /\ IsFiniteSet(R) /\ m \in Int /\ R \cup {m} = S /\ Rises(R)
      /\ \A x \in R : x < m
  <2>1. R \notin bad
    BY <1>2
  <2>2. IsFiniteSet(R)
    BY <1>3, FS_Subset
  <2>. QED BY <1>3, <1>5, <2>1, <2>2
<1> HIDE DEF R, bad
<1>7. /\ Cardinality(R) \in Nat /\ Cardinality(S) = Cardinality(R) + 1
      /\ \A k \in 1..Cardinality(R) : Ascending(S)[k] = Ascending(R)[k]
      /\ Ascending(S)[Cardinality(R) + 1] = m
  BY <1>6, AscendingAdds
<1>8. \A k \in 1..Cardinality(R) : Ascending(R)[k] < m
  BY <1>6, AscendingFrom
<1>9. Rises(S)
  <2> SUFFICES ASSUME NEW j \in 1..Cardinality(S), NEW k \in 1..Cardinality(S), j < k
               PROVE  Ascending(S)[j] < Ascending(S)[k]
    OBVIOUS
  <2>1. j \in 1..Cardinality(R)
    BY <1>7
  <2>2. CASE k = Cardinality(R) + 1
    BY <1>7, <1>8, <2>1, <2>2
  <2>3. CASE k # Cardinality(R) + 1
    <3>1. k \in 1..Cardinality(R)
      BY <1>7, <2>3
    <3>. QED BY <1>6, <1>7, <2>1, <3>1
  <2>. QED BY <2>2, <2>3
<1>. QED BY <1>3, <1>9
-----------------------------------------------------------------------------
(* The cadence of a series, and the figure of the period itself.           *)

\* The n-th smallest value of a function is one of its values.
LEMMA NthIsValue ==
  ASSUME NEW S, IsFiniteSet(S), NEW f, DOMAIN f = S, \A k \in S : f[k] \in Nat,
         NEW n \in 1..Cardinality(S)
  PROVE  \E k \in S : Nth(f, n) = f[k]
<1> DEFINE Below(x) == {k \in S : f[k] < x}
           NotAbove(x) == {k \in S : f[k] <= x}
           values == {f[k] : k \in S}
           far == {x \in values : n <= Cardinality(NotAbove(x))}
<1>1. /\ Cardinality(S) \in Nat /\ n \in Nat
      /\ \A x : /\ IsFiniteSet(Below(x)) /\ Cardinality(Below(x)) \in Nat
                /\ IsFiniteSet(NotAbove(x)) /\ Cardinality(NotAbove(x)) \in Nat
  <2>1. \A T \in SUBSET S : IsFiniteSet(T) /\ Cardinality(T) \in Nat
    BY FS_Subset, FS_CardinalityType
  <2>2. \A x : Below(x) \in SUBSET S /\ NotAbove(x) \in SUBSET S
    OBVIOUS
  <2> HIDE DEF Below, NotAbove
  <2>3. Cardinality(S) \in Nat
    BY FS_CardinalityType
  <2>. QED BY <2>1, <2>2, <2>3
<1>2. values \subseteq Nat /\ far \subseteq Nat /\ Range(f) = values
  BY DEF Range
<1>3. \A T \in SUBSET S : T # {} => \E k \in T : \A m \in T : f[m] <= f[k]
  <2> SUFFICES ASSUME NEW T \in SUBSET S, T # {} PROVE \E k \in T : \A m \in T : f[m] <= f[k]
    OBVIOUS
  <2> DEFINE reached == {f[k] : k \in T}
             reach == [k \in T |-> f[k]]
  <2>1. IsFiniteSet(reached) /\ reached # {} /\ reached \in SUBSET Int
    <3>1. IsFiniteSet(T)
      BY FS_Subset
    <3>2. reach \in Surjection(T, reached)
      BY DEF Surjection
    <3>3. IsFiniteSet(reached)
      <4> HIDE DEF reach, reached
      <4>. QED BY <3>1, <3>2, FS_Surjection DEF ExistsSurjection
    <3>. QED BY <3>3
  <2>2. PICK x \in reached : \A y \in reached : x >= y
    <3> HIDE DEF reached
    <3>. QED BY <2>1, LargestNumber
  <2>3. PICK k \in T : x = f[k]
    BY <2>2
  <2>. QED BY <2>2, <2>3
<1>4. far # {}
  <2>1. S # {}
    BY <1>1, FS_EmptySet
  <2>2. PICK k \in S : \A m \in S : f[m] <= f[k]
    BY <1>3, <2>1
  <2>3. NotAbove(f[k]) = S
    BY <2>2
  <2>. QED BY <1>1, <2>3
<1>5. PICK x \in far : \A y \in far : x <= y
  <2> HIDE DEF far
  <2>. QED BY <1>2, <1>4, SmallestNat
<1>6. Cardinality(Below(x)) < n
  <2>0. SUFFICES ASSUME n <= Cardinality(Below(x)) PROVE FALSE
    <3>1. Cardinality(Below(x)) \in Nat /\ n \in Nat
      BY <1>1
    <3> HIDE DEF Below
    <3>. QED BY <3>1
  <2>1. Below(x) # {}
    BY <1>1, <2>0, FS_EmptySet
  <2>2. PICK k \in Below(x) : \A m \in Below(x) : f[m] <= f[k]
    BY <1>3, <2>1
  <2>3. Below(x) \subseteq NotAbove(f[k])
    BY <2>2
  <2>4. Cardinality(Below(x)) <= Cardinality(NotAbove(f[k]))
    BY <1>1, <2>3, FS_Subset
  <2>5. n <= Cardinality(NotAbove(f[k]))
    <3> HIDE DEF Below, NotAbove
    <3>. QED BY <1>1, <2>0, <2>4
  <2>6. f[k] \in far /\ f[k] < x
    BY <2>2, <2>5
  <2>. QED BY <1>2, <1>5, <2>6
<1>7. Nth(f, n) \in values
  <2>1. \E y \in Range(f) : /\ Cardinality({k \in DOMAIN f : f[k] < y}) < n
                            /\ n <= Cardinality({k \in DOMAIN f : f[k] <= y})
    BY <1>2, <1>5, <1>6
  <2>. QED BY <1>2, <2>1 DEF Nth
<1>. QED BY <1>7

\* The points of a series are apart.
LEMMA GapsPositive ==
  ASSUME NEW U \in SUBSET Int, IsFiniteSet(U), U # {}
  PROVE  /\ IsFiniteSet(DOMAIN Gaps(U)) /\ Cardinality(DOMAIN Gaps(U)) = Cardinality(U) - 1
         /\ \A t \in DOMAIN Gaps(U) : Gaps(U)[t] \in Nat \ {0}
<1>1. PICK last \in U : last = Max(U) /\ \A u \in U : last >= u
  BY LargestNumber DEF Max
<1>2. DOMAIN Gaps(U) = U \ {last}
  BY <1>1 DEF Gaps
<1>3. IsFiniteSet(U \ {last}) /\ Cardinality(U \ {last}) = Cardinality(U) - 1
  BY <1>1, FS_RemoveElement
<1>4. ASSUME NEW t \in U \ {last} PROVE Gaps(U)[t] \in Nat \ {0}
  <2> DEFINE later == {u \in U : u > t}
             apart == {u - t : u \in later}
  <2>0. t \in Int /\ later \subseteq Int /\ last \in later
    <3>1. t \in Int /\ last \in Int /\ last >= t /\ last # t
      BY <1>1, <1>4
    <3>2. last > t
      BY <3>1
    <3>. QED BY <3>1, <3>2
  <2>1. apart \in SUBSET Nat /\ apart # {}
    <3>1. \A u \in later : u - t \in Nat
      BY <2>0
    <3>2. last - t \in apart
      BY <2>0
    <3> HIDE DEF later
    <3>. QED BY <3>1, <3>2
  <2>2. PICK d \in apart : \A e \in apart : d <= e
    <3> HIDE DEF apart
    <3>. QED BY <2>1, SmallestNat
  <2>3. PICK u \in later : d = u - t
    BY <2>2
  <2>4. \A v \in later : u <= v
    <3> SUFFICES ASSUME NEW v \in later PROVE u <= v
      OBVIOUS
    <3>1. v - t \in apart /\ v \in Int /\ u \in Int
      BY <2>0, <2>3
    <3>. QED BY <2>0, <2>2, <2>3, <3>1
  <2>5. Min(later) \in later
    BY <2>3, <2>4 DEF Min
  <2>6. Gaps(U)[t] = Min(later) - t
    BY <1>1, <1>4 DEF Gaps
  <2>7. Min(later) \in Int /\ Min(later) > t
    BY <2>0, <2>5
  <2>. QED BY <2>0, <2>6, <2>7
<1>. QED BY <1>2, <1>3, <1>4

\* A series of two points or more has a positive native period.
LEMMA CadencePositive ==
  ASSUME NEW s, IsSeries(s)
  PROVE  NativePeriod2(s) = None \/ NativePeriod2(s) \in Nat \ {0}
<1> DEFINE U == DOMAIN s
           gaps == Gaps(U)
           S == DOMAIN gaps
           n == Cardinality(S)
<1>1. CASE Cardinality(U) < 2
  BY <1>1 DEF NativePeriod2
<1>2. CASE ~(Cardinality(U) < 2)
  <2>1. U \in SUBSET Int /\ IsFiniteSet(U) /\ Cardinality(U) \in Nat /\ U # {}
    BY <1>2, FS_CardinalityType, FS_EmptySet DEF IsSeries
  <2>2. IsFiniteSet(S) /\ n \in Nat \ {0} /\ \A t \in S : gaps[t] \in Nat \ {0}
    BY <1>2, <2>1, GapsPositive
  <2> HIDE DEF U, gaps, S, n
  <2>3. \A m \in 1..n : Nth(gaps, m) \in Nat \ {0}
    <3> SUFFICES ASSUME NEW m \in 1..n PROVE Nth(gaps, m) \in Nat \ {0}
      OBVIOUS
    <3>1. \E k \in S : Nth(gaps, m) = gaps[k]
      BY <2>2, NthIsValue DEF S, n
    <3>. QED BY <2>2, <3>1
  <2>4. TwiceMedian(gaps) \in Nat \ {0}
    <3>1. TwiceMedian(gaps) = IF n % 2 = 1 THEN 2 * Nth(gaps, (n + 1) \div 2)
                                ELSE Nth(gaps, n \div 2) + Nth(gaps, n \div 2 + 1)
      BY DEF TwiceMedian, n, S
    <3>2. CASE n % 2 = 1
      <4>1. (n + 1) \div 2 \in 1..n
        BY <2>2
      <4>. QED BY <2>3, <3>1, <3>2, <4>1
    <3>3. CASE n % 2 # 1
      <4>1. n \div 2 \in 1..n /\ n \div 2 + 1 \in 1..n
        BY <2>2, <3>3
      <4>. QED BY <2>3, <3>1, <3>3, <4>1
    <3>. QED BY <3>2, <3>3
  <2>. QED BY <1>2, <2>4 DEF NativePeriod2, U, gaps
<1>. QED BY <1>1, <1>2

\* A point of a series is what a period that starts with it is paid by.
LEMMA OwnFigure ==
  ASSUME NEW s, IsSeries(s), NEW t \in DOMAIN s
  PROVE  ValueAtOrBefore(s, t, NativePeriod2(s)) = s[t] /\ t \in Int /\ s[t] \in Int
<1> DEFINE past == {u \in DOMAIN s : u <= t}
<1>1. t \in Int /\ s[t] \in Int /\ \A u \in past : t >= u
  BY DEF IsSeries
<1>2. t \in past /\ \A u \in past : u \in Int
  BY <1>1 DEF IsSeries
<1>3. Max(past) = t
  BY <1>1, <1>2 DEF Max
<1>4. PICK cadence : cadence = NativePeriod2(s) /\ (cadence = None \/ cadence \in Nat \ {0})
  BY CadencePositive
<1>5. ~(cadence # None /\ 2 * t <= 2 * t - cadence)
  BY <1>1, <1>4
<1>. QED BY <1>1, <1>2, <1>3, <1>4, <1>5 DEF ValueAtOrBefore
-----------------------------------------------------------------------------
(* Whole amounts as fractions.                                             *)

LEMMA FracOfOne ==
  ASSUME NEW n \in Int
  PROVE  Frac(n, 1) = Whole(n)
BY WholeIs, WholeReduced

\* The smaller and the larger of two numbers.
LEMMA MinMaxOfTwo ==
  ASSUME NEW a \in Int, NEW b \in Int
  PROVE  /\ Min({a, b}) = IF a <= b THEN a ELSE b
         /\ Max({a, b}) = IF a <= b THEN b ELSE a
BY DEF Min, Max

\* Arithmetic on whole amounts is that of the numbers.
LEMMA WholeSum ==
  ASSUME NEW a \in Int, NEW b \in Int, NEW c \in Int, c = a + b
  PROVE  Whole(a) ++ Whole(b) = Whole(c)
<1>1. PICK one \in Nat \ {0} : one = 1
  OBVIOUS
<1>2. Whole(a) ++ Whole(b) = Frac(a + b, one)
  BY <1>1, WholeIs, AddedIs
<1>. QED BY <1>1, <1>2, FracOfOne

LEMMA WholeProduct ==
  ASSUME NEW a \in Int, NEW b \in Int, NEW c \in Int, c = a * b
  PROVE  Whole(a) ** Whole(b) = Whole(c)
<1>1. PICK one \in Nat \ {0} : one = 1 /\ one * one = one
  OBVIOUS
<1>2. Whole(a) ** Whole(b) = Frac(a * b, one * one)
  BY <1>1, WholeIs, TimesIs
<1>. QED BY <1>1, <1>2, FracOfOne

LEMMA WholeLess ==
  ASSUME NEW a \in Int, NEW b \in Int, NEW c \in Int, c = a - b
  PROVE  Whole(a) ++ Minus(Whole(b)) = Whole(c)
<1>1. PICK m \in Int : m = -b /\ c = a + m
  OBVIOUS
<1>2. Minus(Whole(b)) = Whole(m)
  BY <1>1 DEF Minus, Whole
<1>. QED BY <1>1, <1>2, WholeSum

LEMMA WholeLesser ==
  ASSUME NEW a \in Int, NEW b \in Int
  PROVE  Lesser(Whole(a), Whole(b)) = Whole(Min({a, b})) /\ Min({a, b}) \in {a, b}
<1>1. Lesser(Whole(a), Whole(b)) = Whole(IF a <= b THEN a ELSE b)
  BY DEF Lesser, \preceq, Whole
<1>. QED BY <1>1, MinMaxOfTwo

LEMMA WholeClipped ==
  ASSUME NEW a \in Int
  PROVE  Clipped(Whole(a)) = Whole(Max({a, 0})) /\ Max({a, 0}) \in Nat
<1>1. Clipped(Whole(a)) = Whole(IF a <= 0 THEN 0 ELSE a)
  BY DEF Clipped, Zero, Whole
<1>2. Max({a, 0}) = IF a <= 0 THEN 0 ELSE a
  BY MinMaxOfTwo
<1>. QED BY <1>1, <1>2

LEMMA WholeClippedNat ==
  ASSUME NEW a \in Nat
  PROVE  Clipped(Whole(a)) = Whole(a)
BY DEF Clipped, Whole

LEMMA WholeEqual ==
  ASSUME NEW a, NEW b
  PROVE  Whole(a) = Whole(b) <=> a = b
BY DEF Whole

\* The sum of whole amounts is the sum of the numbers.
LEMMA SumOverWholes ==
  ASSUME NEW S, IsFiniteSet(S), NEW fun, OnInts(fun, S),
         NEW amounts, amounts = [x \in S |-> Whole(fun[x])]
  PROVE  /\ SumFunctionOnSet(fun, S) \in Int
         /\ SumOver(amounts) = Whole(SumFunctionOnSet(fun, S))
<1>1. PICK one \in Nat \ {0} : one = 1
  OBVIOUS
<1>2. \A x \in S : Is(amounts[x], fun[x], one)
  BY <1>1, WholeIs DEF OnInts
<1>3. DOMAIN amounts = S
  OBVIOUS
<1>4. SumOver(amounts) = Frac(SumFunctionOnSet(fun, S), one) /\ SumFunctionOnSet(fun, S) \in Int
  BY <1>2, <1>3, SumOverCommon
<1>. QED BY <1>1, <1>4, FracOfOne
=============================================================================
