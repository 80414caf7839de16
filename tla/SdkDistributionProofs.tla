------------------------ MODULE SdkDistributionProofs ------------------------
(***************************************************************************)
(* Lemmas about the operators of SdkDistribution, for the proofs of the    *)
(* modules that use them.                                                  *)
(***************************************************************************)
EXTENDS SdkDistribution, Functions, TLAPS, WellFoundedInduction, FiniteSetTheorems

USE NValsAssumption, NDelsAssumption, ValOfAssumption, UnitAssumption,
    PeriodCapAssumption

----------------------------------------------------------------------------
(* The keeper's operators stay within its store.                           *)

(* A reference count changes by one and everything else stays.             *)
LEMMA DecrementType ==
    ASSUME NEW R \in RecordsState, NEW v \in Vals, NEW p \in Periods
    PROVE  DecrementReferenceCount(R, v, p) \in RecordsState
<1> DEFINE refs == [R.refs EXCEPT ![v][p] = @ - 1]
           fault == IF R.refs[v][p] = 0 THEN TRUE ELSE R.fault
<1>1. refs \in [Vals -> [Periods -> Int]]
  BY DEF RecordsState
<1>2. DecrementReferenceCount(R, v, p) = [R EXCEPT !.refs = refs, !.fault = fault]
  BY DEF DecrementReferenceCount, RecordsState
<1>3. fault \in BOOLEAN
  BY DEF RecordsState
<1> QED BY <1>1, <1>2, <1>3 DEF RecordsState

LEMMA IncrementType ==
    ASSUME NEW R \in RecordsState, NEW v \in Vals, NEW p \in Periods
    PROVE  IncrementReferenceCount(R, v, p) \in RecordsState
<1> DEFINE refs == [R.refs EXCEPT ![v][p] = @ + 1]
           fault == IF R.refs[v][p] > 2 THEN TRUE ELSE R.fault
<1>1. refs \in [Vals -> [Periods -> Int]]
  BY DEF RecordsState
<1>2. IncrementReferenceCount(R, v, p) = [R EXCEPT !.refs = refs, !.fault = fault]
  BY DEF IncrementReferenceCount, RecordsState
<1>3. fault \in BOOLEAN
  BY DEF RecordsState
<1> QED BY <1>1, <1>2, <1>3 DEF RecordsState

(* Ending a period needs room for it among Periods.                        *)
LEMMA EndPeriodType ==
    ASSUME NEW R \in RecordsState, NEW v \in Vals,
           R.period[v] \in Periods, R.period[v] > 0
    PROVE  EndPeriod(R, v) \in RecordsState
<1> DEFINE p == R.period[v]
           S == DecrementReferenceCount(R, v, p - 1)
           refs == [S.refs EXCEPT ![v][p] = 1]
           period == [R.period EXCEPT ![v] = @ + 1]
<1>1. p \in Nat /\ p - 1 \in Periods
  BY DEF Periods
<1>2. S \in RecordsState
  BY <1>1, DecrementType
<1>3. refs \in [Vals -> [Periods -> Int]]
  BY <1>2 DEF RecordsState
<1>4. period \in [Vals -> Nat]
  BY <1>1 DEF RecordsState
<1>5. S.period = R.period
  BY <1>1 DEF DecrementReferenceCount, RecordsState
<1> HIDE DEF S
<1>6. EndPeriod(R, v) = [S EXCEPT !.refs = refs, !.period = period]
  BY <1>2, <1>5 DEF EndPeriod, SetHistoricalRewards, RecordsState, S
<1> HIDE DEF refs, period
<1> QED BY <1>2, <1>3, <1>4, <1>6 DEF RecordsState

LEMMA InitializeType ==
    ASSUME NEW R \in RecordsState, NEW d \in Dels, NEW h \in Nat,
           R.period[ValOf[d]] - 1 \in Periods
    PROVE  InitializeDelegation(R, d, h) \in RecordsState
<1> DEFINE v == ValOf[d]
           p == R.period[v] - 1
           S == IncrementReferenceCount(R, v, p)
<1>1. S \in RecordsState
  BY IncrementType
<1> HIDE DEF S
<1> QED BY <1>1 DEF InitializeDelegation, SetStartingInfo, RecordsState, S
----------------------------------------------------------------------------
(* What the operators do to each field, for the lemmas that follow.        *)

LEMMA DecrementFields ==
    ASSUME NEW R \in RecordsState, NEW v \in Vals, NEW p \in Periods, R.refs[v][p] # 0,
           NEW S, S = DecrementReferenceCount(R, v, p)
    PROVE  /\ S.refs = [R.refs EXCEPT ![v][p] = @ - 1]
           /\ S.period = R.period /\ S.slashes = R.slashes
           /\ S.start = R.start /\ S.height = R.height /\ S.fault = R.fault
  BY DEF DecrementReferenceCount, RecordsState

LEMMA IncrementFields ==
    ASSUME NEW R \in RecordsState, NEW v \in Vals, NEW p \in Periods, R.refs[v][p] =< 2,
           NEW S, S = IncrementReferenceCount(R, v, p)
    PROVE  /\ S.refs = [R.refs EXCEPT ![v][p] = @ + 1]
           /\ S.period = R.period /\ S.slashes = R.slashes
           /\ S.start = R.start /\ S.height = R.height /\ S.fault = R.fault
<1>1. ~(R.refs[v][p] > 2)
  BY DEF RecordsState
<1> QED BY <1>1 DEF IncrementReferenceCount, RecordsState

LEMMA EndPeriodFields ==
    ASSUME NEW R \in RecordsState, NEW v \in Vals,
           R.period[v] \in Periods, R.period[v] > 0,
           R.refs[v][R.period[v] - 1] # 0,
           NEW S, S = EndPeriod(R, v)
    PROVE  /\ S.refs = [R.refs EXCEPT ![v] =
                           [R.refs[v] EXCEPT ![R.period[v] - 1] = @ - 1, ![R.period[v]] = 1]]
           /\ S.period = [R.period EXCEPT ![v] = R.period[v] + 1]
           /\ S.slashes = R.slashes
           /\ S.start = R.start /\ S.height = R.height /\ S.fault = R.fault
<1> DEFINE p == R.period[v]
           T == DecrementReferenceCount(R, v, p - 1)
<1>1. p \in Nat /\ p - 1 \in Periods
  BY DEF Periods
<1>2. /\ T.refs = [R.refs EXCEPT ![v][p - 1] = @ - 1]
      /\ T.period = R.period /\ T.slashes = R.slashes
      /\ T.start = R.start /\ T.height = R.height /\ T.fault = R.fault
  BY <1>1, DecrementFields
<1>3. T \in RecordsState
  BY <1>1, DecrementType
<1> HIDE DEF T
<1>4. S = [[T EXCEPT !.refs = [T.refs EXCEPT ![v][p] = 1]]
              EXCEPT !.period = [R.period EXCEPT ![v] = p + 1]]
  BY DEF EndPeriod, SetHistoricalRewards, T
<1>5. /\ S.refs = [T.refs EXCEPT ![v][p] = 1]
      /\ S.period = [R.period EXCEPT ![v] = p + 1]
      /\ S.slashes = T.slashes
      /\ S.start = T.start /\ S.height = T.height /\ S.fault = T.fault
  BY <1>3, <1>4 DEF RecordsState
<1>6. [T.refs EXCEPT ![v][p] = 1]
        = [R.refs EXCEPT ![v] = [R.refs[v] EXCEPT ![p - 1] = @ - 1, ![p] = 1]]
  BY <1>1, <1>2 DEF RecordsState
<1> QED BY <1>2, <1>5, <1>6

LEMMA InitializeFields ==
    ASSUME NEW R \in RecordsState, NEW d \in Dels, NEW h \in Nat, NEW p \in Periods,
           p = R.period[ValOf[d]] - 1, R.refs[ValOf[d]][p] =< 2,
           NEW S, S = InitializeDelegation(R, d, h)
    PROVE  /\ S.refs = [R.refs EXCEPT ![ValOf[d]][p] = @ + 1]
           /\ S.period = R.period /\ S.slashes = R.slashes
           /\ S.start = [R.start EXCEPT ![d] = p]
           /\ S.height = [R.height EXCEPT ![d] = h]
           /\ S.fault = R.fault
<1> DEFINE v == ValOf[d]
           T == IncrementReferenceCount(R, v, p)
<1>1. v \in Vals
  OBVIOUS
<1>2. /\ T.refs = [R.refs EXCEPT ![v][p] = @ + 1]
      /\ T.period = R.period /\ T.slashes = R.slashes
      /\ T.start = R.start /\ T.height = R.height /\ T.fault = R.fault
  BY <1>1, IncrementFields
<1>3. T \in RecordsState
  BY <1>1, IncrementType
<1> HIDE DEF T
<1>4. S = [T EXCEPT !.start = [T.start EXCEPT ![d] = p],
                    !.height = [T.height EXCEPT ![d] = h]]
  BY DEF InitializeDelegation, SetStartingInfo, T
<1> QED BY <1>2, <1>3, <1>4 DEF RecordsState

(* The hook gives a validator its first period and one reference to it.    *)
LEMMA CreateRecordsType ==
    ASSUME NEW R \in RecordsState, NEW v \in Vals
    PROVE  CreateRecords(R, v) \in RecordsState
<1> DEFINE refs == [R.refs EXCEPT ![v][0] = 1]
           period == [R.period EXCEPT ![v] = 1]
<1>1. 0 \in Periods
  BY DEF Periods
<1>2. refs \in [Vals -> [Periods -> Int]]
  BY <1>1 DEF RecordsState
<1>3. period \in [Vals -> Nat]
  BY DEF RecordsState
<1>4. CreateRecords(R, v) = [R EXCEPT !.refs = refs, !.period = period]
  BY DEF CreateRecords
<1> HIDE DEF refs, period
<1> QED BY <1>2, <1>3, <1>4 DEF RecordsState

(* No operator takes a period below the first.                             *)
PeriodsPositive(R) == \A v \in Vals : R.period[v] > 0

LEMMA CreateRecordsPositive ==
    ASSUME NEW R \in RecordsState, NEW v \in Vals, PeriodsPositive(R)
    PROVE  PeriodsPositive(CreateRecords(R, v))
  BY DEF CreateRecords, RecordsState, PeriodsPositive

LEMMA EndPeriodPositive ==
    ASSUME NEW R \in RecordsState, NEW v \in Vals, PeriodsPositive(R)
    PROVE  /\ EndPeriod(R, v).period = [R.period EXCEPT ![v] = @ + 1]
           /\ PeriodsPositive(EndPeriod(R, v))
<1>1. EndPeriod(R, v).period = [R.period EXCEPT ![v] = @ + 1]
  BY DEF EndPeriod, SetHistoricalRewards, DecrementReferenceCount, RecordsState
<1> QED BY <1>1 DEF RecordsState, PeriodsPositive
----------------------------------------------------------------------------
(* Induction over the numbers, from the least number of a set.             *)
LEMMA LeastNumber ==
    ASSUME NEW T, T \subseteq Nat, T # {}
    PROVE  \E n \in T : \A m \in T : n =< m
<1> DEFINE R == {ss \in Nat \X Nat : ss[1] < ss[2]}
<1>1. R = OpToRel(<, Nat)
  BY Zenon DEF OpToRel
<1>2. IsWellFoundedOn(R, Nat)
  BY <1>1, NatLessThanWellFounded, Zenon
<1>3. PICK n \in T : \A m \in T : ~ (<<m, n>> \in R)
  <2> HIDE DEF R
  <2> QED BY <1>2, WFMin, Zenon
<1>4. \A m \in T : ~ (m < n)
  BY <1>3
<1> QED BY <1>4

LEMMA Induct ==
    ASSUME NEW T, 0 \in T, \A n \in Nat : n \in T => n + 1 \in T
    PROVE  Nat \subseteq T
<1> SUFFICES ASSUME Nat \ T # {} PROVE FALSE
  OBVIOUS
<1>1. PICK n \in Nat \ T : \A m \in Nat \ T : n =< m
  BY LeastNumber
<1>2. n # 0 /\ n - 1 \in Nat /\ n - 1 \notin Nat \ T
  BY <1>1
<1> QED BY <1>1, <1>2

----------------------------------------------------------------------------
(* SumFunction adds up a function over a set that loses one element at a   *)
(* time, Taken(s); Adds says so of the sums g over the sets in D.          *)
Taken(s) == CHOOSE x \in s : TRUE

Adds(g, f, D) == \A s \in D : g[s] = IF s = {} THEN 0 ELSE f[Taken(s)] + g[s \ {Taken(s)}]

Small(S, n) == {s \in SUBSET S : Cardinality(s) =< n}

LEMMA TakenFrom ==
    ASSUME NEW S, IsFiniteSet(S), NEW s \in SUBSET S, s # {}
    PROVE  /\ Taken(s) \in s /\ s \ {Taken(s)} \in SUBSET S
           /\ Cardinality(s) \in Nat /\ Cardinality(s) # 0
           /\ Cardinality(s \ {Taken(s)}) = Cardinality(s) - 1
<1>1. IsFiniteSet(s)
  BY FS_Subset
<1>2. Taken(s) \in s
  BY DEF Taken
<1>3. Cardinality(s) \in Nat
  BY <1>1, FS_CardinalityType
<1>4. Cardinality(s) # 0
  BY <1>1, FS_EmptySet
<1>5. Cardinality(s \ {Taken(s)}) = Cardinality(s) - 1
  BY <1>1, <1>2, FS_RemoveElement
<1> QED BY <1>2, <1>3, <1>4, <1>5

(* The sums over the sets of at most n elements exist.                     *)
LEMMA SmallSums ==
    ASSUME NEW S, IsFiniteSet(S), NEW f \in [S -> Int]
    PROVE  \A n \in Nat : \E g \in [Small(S, n) -> Int] : Adds(g, f, Small(S, n))
<1> DEFINE T == {n \in Nat : \E g \in [Small(S, n) -> Int] : Adds(g, f, Small(S, n))}
<1>1. 0 \in T
  <2>1. \A s \in Small(S, 0) : s = {}
    <3> SUFFICES ASSUME NEW s \in SUBSET S, Cardinality(s) =< 0, s # {} PROVE FALSE
      BY DEF Small
    <3>1. Cardinality(s) \in Nat /\ Cardinality(s) # 0
      BY TakenFrom
    <3> QED BY <3>1
  <2> DEFINE g == [s \in Small(S, 0) |-> 0]
  <2>2. g \in [Small(S, 0) -> Int] /\ Adds(g, f, Small(S, 0))
    BY <2>1 DEF Adds
  <2> HIDE DEF g
  <2> QED BY <2>2
<1>2. ASSUME NEW n \in Nat, n \in T PROVE n + 1 \in T
  <2>1. PICK g \in [Small(S, n) -> Int] : Adds(g, f, Small(S, n))
    BY <1>2
  <2> DEFINE h == [s \in Small(S, n + 1) |->
                      IF s = {} THEN 0 ELSE f[Taken(s)] + g[s \ {Taken(s)}]]
  <2>2. ASSUME NEW s \in Small(S, n + 1), s # {}
        PROVE  Taken(s) \in S /\ s \ {Taken(s)} \in Small(S, n)
    <3>1. s \in SUBSET S /\ Cardinality(s) =< n + 1
      BY DEF Small
    <3>2. /\ Taken(s) \in s /\ s \ {Taken(s)} \in SUBSET S
          /\ Cardinality(s) \in Nat /\ Cardinality(s \ {Taken(s)}) = Cardinality(s) - 1
      BY <2>2, <3>1, TakenFrom
    <3>3. Cardinality(s \ {Taken(s)}) =< n
      BY <3>1, <3>2
    <3> QED BY <3>1, <3>2, <3>3 DEF Small
  <2>3. h \in [Small(S, n + 1) -> Int]
    BY <2>2
  <2>4. \A s \in Small(S, n) : s \in Small(S, n + 1)
    <3> SUFFICES ASSUME NEW s \in SUBSET S, Cardinality(s) =< n
                 PROVE  Cardinality(s) =< n + 1
      BY DEF Small
    <3>1. Cardinality(s) \in Nat
      BY FS_Subset, FS_CardinalityType
    <3> QED BY <3>1
  <2>5. \A s \in Small(S, n) : h[s] = g[s]
    BY <2>1, <2>4 DEF Adds
  <2>6. Adds(h, f, Small(S, n + 1))
    BY <2>2, <2>5 DEF Adds
  <2> HIDE DEF h
  <2> QED BY <2>3, <2>6
<1>3. Nat \subseteq T
  <2> HIDE DEF T
  <2> QED BY <1>1, <1>2, Induct
<1> QED BY <1>3

(* What SumFunction is defined by is a function on all subsets.            *)
LEMMA SumIsAdded ==
    ASSUME NEW S, IsFiniteSet(S), NEW f \in [S -> Int]
    PROVE  \E g : Adds(g, f, SUBSET S) /\ SumFunction(f) = g[S]
<1> DEFINE iter == CHOOSE g : g = [s \in SUBSET S |->
                       IF s = {} THEN 0 ELSE f[Taken(s)] + g[s \ {Taken(s)}]]
<1>1. Small(S, Cardinality(S)) = SUBSET S
  BY FS_Subset DEF Small
<1>2. PICK g \in [SUBSET S -> Int] : Adds(g, f, SUBSET S)
  <2>1. Cardinality(S) \in Nat
    BY FS_CardinalityType
  <2>2. \E g \in [Small(S, Cardinality(S)) -> Int] : Adds(g, f, Small(S, Cardinality(S)))
    BY <2>1, SmallSums
  <2> QED BY <1>1, <2>2
<1>3. g = [s \in SUBSET S |-> IF s = {} THEN 0 ELSE f[Taken(s)] + g[s \ {Taken(s)}]]
  BY <1>2 DEF Adds
<1>4. iter = [s \in SUBSET S |-> IF s = {} THEN 0 ELSE f[Taken(s)] + iter[s \ {Taken(s)}]]
  BY <1>3
<1>5. SumFunction(f) = iter[S]
  BY DEF SumFunction, SumFunctionOnSet, FoldFunctionOnSet, MapThenFoldSet, Taken
<1> HIDE DEF iter
<1>6. Adds(iter, f, SUBSET S)
  BY <1>4 DEF Adds
<1> QED BY <1>5, <1>6

(* What holds of the empty set, and of a set when it holds of what is left *)
(* after its element taken, holds of every subset.                         *)
LEMMA TakingInduct ==
    ASSUME NEW S, IsFiniteSet(S), NEW T, {} \in T,
           \A s \in SUBSET S : s # {} /\ s \ {Taken(s)} \in T => s \in T
    PROVE  SUBSET S \subseteq T
<1> DEFINE N == {n \in Nat : \A s \in SUBSET S : Cardinality(s) = n => s \in T}
<1>1. 0 \in N
  <2> SUFFICES ASSUME NEW s \in SUBSET S, Cardinality(s) = 0 PROVE s \in T
    OBVIOUS
  <2>1. s = {}
    BY TakenFrom
  <2> QED BY <2>1
<1>2. ASSUME NEW n \in Nat, n \in N PROVE n + 1 \in N
  <2> SUFFICES ASSUME NEW s \in SUBSET S, Cardinality(s) = n + 1 PROVE s \in T
    OBVIOUS
  <2>1. s # {}
    BY FS_EmptySet
  <2>2. s \ {Taken(s)} \in SUBSET S /\ Cardinality(s \ {Taken(s)}) = n
    BY <2>1, TakenFrom
  <2>3. s \ {Taken(s)} \in T
    BY <1>2, <2>2
  <2> QED BY <2>1, <2>3
<1>3. Nat \subseteq N
  <2> HIDE DEF N
  <2> QED BY <1>1, <1>2, Induct
<1>4. ASSUME NEW s \in SUBSET S PROVE s \in T
  <2>1. Cardinality(s) \in Nat
    BY FS_Subset, FS_CardinalityType
  <2> QED BY <1>3, <2>1
<1> QED BY <1>4

(* A sum changes by as much as the one value that changes.                 *)
LEMMA SumChanges ==
    ASSUME NEW S, IsFiniteSet(S), NEW f \in [S -> Int], NEW g \in [S -> Int],
           NEW v \in S, \A w \in S \ {v} : g[w] = f[w]
    PROVE  /\ SumFunction(f) \in Int
           /\ SumFunction(g) = SumFunction(f) + (g[v] - f[v])
<1>1. PICK a : Adds(a, f, SUBSET S) /\ SumFunction(f) = a[S]
  BY SumIsAdded
<1>2. PICK b : Adds(b, g, SUBSET S) /\ SumFunction(g) = b[S]
  BY SumIsAdded
<1> DEFINE T == {s \in SUBSET S : /\ a[s] \in Int
                                  /\ b[s] = a[s] + (IF v \in s THEN g[v] - f[v] ELSE 0)}
<1>3. {} \in T
  <2>1. {} \in SUBSET S
    OBVIOUS
  <2>2. a[{}] = 0 /\ b[{}] = 0
    BY <1>1, <1>2, <2>1, Zenon DEF Adds
  <2> QED BY <2>2
<1>4. ASSUME NEW s \in SUBSET S, s # {}, s \ {Taken(s)} \in T PROVE s \in T
  <2> DEFINE x == Taken(s)
  <2>1. x \in S /\ x \in s /\ f[x] \in Int /\ g[x] \in Int /\ f[v] \in Int /\ g[v] \in Int
    BY <1>4, TakenFrom
  <2>2. a[s] = f[x] + a[s \ {x}] /\ b[s] = g[x] + b[s \ {x}]
    BY <1>1, <1>2, <1>4 DEF Adds
  <2>3. /\ a[s \ {x}] \in Int
        /\ b[s \ {x}] = a[s \ {x}] + (IF v \in s \ {x} THEN g[v] - f[v] ELSE 0)
    BY <1>4
  <2> HIDE DEF x
  <2>4. CASE v = x
    BY <2>1, <2>2, <2>3, <2>4
  <2>5. CASE v # x
    <3>1. g[x] = f[x] /\ (v \in s \ {x} <=> v \in s)
      BY <2>1, <2>5
    <3> QED BY <2>1, <2>2, <2>3, <3>1
  <2> QED BY <2>4, <2>5
<1>5. SUBSET S \subseteq T
  <2> HIDE DEF T
  <2> QED BY <1>3, <1>4, TakingInduct
<1> QED BY <1>1, <1>2, <1>5

(* Zeros add up to zero.                                                   *)
LEMMA SumOfZeros ==
    ASSUME NEW S, IsFiniteSet(S), NEW f \in [S -> Int], \A w \in S : f[w] = 0
    PROVE  SumFunction(f) = 0
<1>1. PICK a : Adds(a, f, SUBSET S) /\ SumFunction(f) = a[S]
  BY SumIsAdded
<1> DEFINE T == {s \in SUBSET S : a[s] = 0}
<1>2. {} \in T
  BY <1>1 DEF Adds
<1>3. ASSUME NEW s \in SUBSET S, s # {}, s \ {Taken(s)} \in T PROVE s \in T
  <2>1. f[Taken(s)] = 0
    BY <1>3, TakenFrom
  <2>2. a[s] = f[Taken(s)] + a[s \ {Taken(s)}]
    BY <1>1, <1>3, Zenon DEF Adds
  <2>3. a[s \ {Taken(s)}] = 0
    BY <1>3
  <2> QED BY <2>1, <2>2, <2>3
<1>4. SUBSET S \subseteq T
  <2> HIDE DEF T
  <2> QED BY <1>2, <1>3, TakingInduct
<1> QED BY <1>1, <1>4
----------------------------------------------------------------------------
(* The outstanding rewards of all validators together.                     *)

(* They change by what is taken from, or given to, one validator.          *)
LEMMA TotalChanges ==
    ASSUME NEW f \in [Vals -> Nat], NEW g \in [Vals -> Nat],
           NEW v \in Vals, \A w \in Vals \ {v} : g[w] = f[w]
    PROVE  /\ SumFunction(f) \in Int
           /\ SumFunction(g) = SumFunction(f) + (g[v] - f[v])
<1>1. IsFiniteSet(Vals)
  BY FS_Interval DEF Vals
<1>2. f \in [Vals -> Int] /\ g \in [Vals -> Int]
  OBVIOUS
<1> HIDE DEF Vals
<1> QED BY <1>1, <1>2, SumChanges

LEMMA TotalOfNone ==
    ASSUME NEW f \in [Vals -> Nat], \A w \in Vals : f[w] = 0
    PROVE  SumFunction(f) = 0
<1>1. IsFiniteSet(Vals)
  BY FS_Interval DEF Vals
<1>2. f \in [Vals -> Int]
  OBVIOUS
<1> HIDE DEF Vals
<1> QED BY <1>1, <1>2, SumOfZeros
=============================================================================
