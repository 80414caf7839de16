----------------------- MODULE ZeroHeightExportProofs -----------------------
(***************************************************************************)
(* Theorems about ZeroHeightExport, for any number of validators,          *)
(* delegations and entries, any allow list and any amounts.                *)
(***************************************************************************)
EXTENDS ZeroHeightExport, SdkDistributionProofs, FiniteSetTheorems

USE NValsAssumption, NDelsAssumption, ValOfAssumption, UnitAssumption,
    PeriodCapAssumption

----------------------------------------------------------------------------
(* The records of v are held by its current period, by the delegations of  *)
(* L and by its slash events, each holder in a period of its own.          *)
Held(R, L, v) ==
    /\ R.period[v] > 0
    /\ \A p \in Periods : R.refs[v][p] = ReferencesTo(R, L, v, p)
    /\ \A d \in L : ValOf[d] = v => /\ R.start[d] < R.period[v]
                                   /\ R.start[d] \notin R.slashes[v]
    /\ \A d, e \in L : ValOf[d] = v /\ ValOf[e] = v /\ R.start[d] = R.start[e] => d = e
    /\ \A p \in R.slashes[v] : p < R.period[v]

(* The last ended period of v is held by the current period alone.         *)
Fresh(R, L, v) ==
    /\ \A d \in L : ValOf[d] = v => R.start[d] # R.period[v] - 1
    /\ R.period[v] - 1 \notin R.slashes[v]

(* Ending a period of v finds a reference to drop, and leaves a record     *)
(* that nothing but the current period holds.                              *)
LEMMA EndPeriodHeld ==
    ASSUME NEW R \in RecordsState, NEW v \in Vals, NEW L \in SUBSET Dels,
           R.period[v] \in Periods, Held(R, L, v),
           NEW S, S = EndPeriod(R, v)
    PROVE  /\ S \in RecordsState
           /\ Held(S, L, v)
           /\ Fresh(S, L, v)
           /\ S.fault = R.fault
           /\ S.period[v] = R.period[v] + 1
<1> DEFINE q == R.period[v]
<1>1. q \in Nat /\ q > 0 /\ q - 1 \in Periods /\ q \in Periods
  BY DEF Held, Periods
<1>2. R.refs[v][q - 1] # 0
  BY <1>1 DEF Held, ReferencesTo
<1>3. S \in RecordsState
  BY <1>1, EndPeriodType
<1>4. /\ S.refs = [R.refs EXCEPT ![v] = [R.refs[v] EXCEPT ![q - 1] = @ - 1, ![q] = 1]]
      /\ S.period = [R.period EXCEPT ![v] = q + 1]
      /\ S.slashes = R.slashes
      /\ S.start = R.start /\ S.fault = R.fault
  BY <1>1, <1>2, EndPeriodFields
<1>5. S.period[v] = q + 1
  BY <1>4 DEF RecordsState
<1>6. ASSUME NEW p \in Periods
      PROVE  S.refs[v][p] = ReferencesTo(S, L, v, p)
  <2>1. R.refs[v] \in [Periods -> Int]
    BY DEF RecordsState
  <2>2. S.refs[v] = [R.refs[v] EXCEPT ![q - 1] = @ - 1, ![q] = 1]
    BY <1>4 DEF RecordsState
  <2>3. R.refs[v][p] = ReferencesTo(R, L, v, p)
    BY DEF Held
  <2>4. CASE p = q - 1
    <3>1. S.refs[v][p] = R.refs[v][p] - 1
      BY <1>1, <2>1, <2>2, <2>4
    <3> QED BY <1>1, <1>4, <1>5, <2>3, <2>4, <3>1 DEF ReferencesTo
  <2>5. CASE p = q
    <3>1. S.refs[v][p] = 1
      BY <1>1, <2>1, <2>2, <2>5
    <3>2. ~ \E d \in L : ValOf[d] = v /\ R.start[d] = p
      BY <2>5 DEF Held, RecordsState, Periods
    <3>3. p \notin R.slashes[v]
      BY <1>1, <2>5 DEF Held
    <3> QED BY <1>1, <1>4, <1>5, <2>5, <3>1, <3>2, <3>3 DEF ReferencesTo
  <2>6. CASE p # q /\ p # q - 1
    <3>1. S.refs[v][p] = R.refs[v][p]
      BY <1>1, <2>1, <2>2, <2>6
    <3>2. S.period[v] - 1 = q
      BY <1>1, <1>5
    <3> QED BY <1>4, <2>3, <2>6, <3>1, <3>2 DEF ReferencesTo
  <2> QED BY <2>4, <2>5, <2>6
<1>7. \A d \in L : R.start[d] \in Nat
  BY DEF RecordsState, Periods
<1>8. \A p \in R.slashes[v] : p \in Nat /\ p < q
  BY DEF Held, RecordsState, Periods
<1>9. Held(S, L, v)
  BY <1>1, <1>4, <1>5, <1>6, <1>7, <1>8 DEF Held
<1>10. Fresh(S, L, v)
  BY <1>1, <1>4, <1>5, <1>7, <1>8 DEF Held, Fresh
<1> QED BY <1>3, <1>4, <1>5, <1>9, <1>10

(* Ending a period of v leaves the other validators' records alone.        *)
LEMMA EndPeriodOthers ==
    ASSUME NEW R \in RecordsState, NEW v \in Vals, NEW L \in SUBSET Dels,
           R.period[v] \in Periods, Held(R, L, v),
           NEW S, S = EndPeriod(R, v)
    PROVE  /\ \A w \in Vals \ {v} : S.refs[w] = R.refs[w] /\ S.period[w] = R.period[w]
           /\ S.slashes = R.slashes /\ S.start = R.start /\ S.height = R.height
<1>1. R.period[v] > 0 /\ R.period[v] - 1 \in Periods
  BY DEF Held, Periods
<1>2. R.refs[v][R.period[v] - 1] # 0
  BY <1>1 DEF Held, ReferencesTo
<1>3. /\ S.refs = [R.refs EXCEPT ![v] =
                      [R.refs[v] EXCEPT ![R.period[v] - 1] = @ - 1, ![R.period[v]] = 1]]
      /\ S.period = [R.period EXCEPT ![v] = R.period[v] + 1]
      /\ S.slashes = R.slashes /\ S.start = R.start /\ S.height = R.height
  BY <1>1, <1>2, EndPeriodFields
<1> QED BY <1>3 DEF RecordsState

(* A delegation that gives up its starting period leaves the rest held.    *)
LEMMA ReleaseHeld ==
    ASSUME NEW R \in RecordsState, NEW L \in SUBSET Dels, NEW d \in L,
           Held(R, L, ValOf[d]), Fresh(R, L, ValOf[d]),
           NEW S, S = DecrementReferenceCount(R, ValOf[d], R.start[d])
    PROVE  /\ S \in RecordsState
           /\ Held(S, L \ {d}, ValOf[d])
           /\ Fresh(S, L \ {d}, ValOf[d])
           /\ S.fault = R.fault
           /\ S.period = R.period
<1> DEFINE v == ValOf[d]
           s == R.start[d]
           M == L \ {d}
<1>1. v \in Vals /\ s \in Periods
  BY DEF RecordsState
<1>2. R.refs[v][s] = ReferencesTo(R, L, v, s) /\ s # R.period[v] - 1 /\ s \notin R.slashes[v]
  BY <1>1 DEF Held, Fresh
<1>3. R.refs[v][s] = 1 /\ R.refs[v][s] # 0
  BY <1>1, <1>2 DEF ReferencesTo
<1>4. /\ S.refs = [R.refs EXCEPT ![v][s] = @ - 1]
      /\ S.period = R.period /\ S.slashes = R.slashes
      /\ S.start = R.start /\ S.fault = R.fault
  <2>1. S = DecrementReferenceCount(R, v, s)
    OBVIOUS
  <2> HIDE DEF v, s
  <2> QED BY <1>1, <1>3, <2>1, DecrementFields
<1>5. S \in RecordsState
  BY <1>1, DecrementType
<1>6. ASSUME NEW p \in Periods
      PROVE  S.refs[v][p] = ReferencesTo(S, M, v, p)
  <2>1. R.refs[v] \in [Periods -> Int] /\ S.refs[v] = [R.refs[v] EXCEPT ![s] = @ - 1]
    BY <1>1, <1>4 DEF RecordsState
  <2>2. CASE p = s
    <3>1. S.refs[v][p] = 0
      BY <1>1, <1>3, <2>1, <2>2
    <3>2. ~ \E e \in M : ValOf[e] = v /\ R.start[e] = p
      BY <2>2 DEF Held
    <3> QED BY <1>2, <1>4, <2>2, <3>1, <3>2 DEF ReferencesTo
  <2>3. CASE p # s
    <3>1. S.refs[v][p] = R.refs[v][p]
      BY <1>1, <2>1, <2>3
    <3>2. (\E e \in M : ValOf[e] = v /\ R.start[e] = p)
            <=> (\E e \in L : ValOf[e] = v /\ R.start[e] = p)
      BY <2>3
    <3>3. R.refs[v][p] = ReferencesTo(R, L, v, p)
      BY DEF Held
    <3> QED BY <1>4, <3>1, <3>2, <3>3 DEF ReferencesTo
  <2> QED BY <2>2, <2>3
<1>7. Held(S, M, v)
  <2>1. /\ R.period[v] > 0 /\ \A p \in R.slashes[v] : p < R.period[v]
        /\ \A e \in M : ValOf[e] = v => R.start[e] < R.period[v] /\ R.start[e] \notin R.slashes[v]
        /\ \A e, f \in M : ValOf[e] = v /\ ValOf[f] = v /\ R.start[e] = R.start[f] => e = f
    BY DEF Held
  <2> HIDE DEF v, M
  <2> QED BY <1>4, <1>6, <2>1 DEF Held
<1>8. Fresh(S, M, v)
  <2>1. \A e \in M : ValOf[e] = v => R.start[e] # R.period[v] - 1
    BY DEF Fresh
  <2>2. R.period[v] - 1 \notin R.slashes[v]
    BY DEF Fresh
  <2> HIDE DEF v, M
  <2> QED BY <1>4, <2>1, <2>2 DEF Fresh
<1> QED BY <1>4, <1>5, <1>7, <1>8
(* The last ended period of v is one that Periods has room for.            *)
LastEnded(R, v) == R.period[v] - 1 \in Periods

(* From R to S, of the delegations only d starts anew, at height h, and of *)
(* the validators only d's has a record referenced.                        *)
Started(R, S, d, h) ==
    /\ S.fault = R.fault /\ S.period = R.period /\ S.slashes = R.slashes
    /\ S.height[d] = h
    /\ \A e \in Dels \ {d} : S.start[e] = R.start[e] /\ S.height[e] = R.height[e]
    /\ \A w \in Vals \ {ValOf[d]} : S.refs[w] = R.refs[w]

(* A delegation that starts at the last ended period becomes its second    *)
(* holder.                                                                 *)
LEMMA InitializeHeld ==
    ASSUME NEW R \in RecordsState, NEW L \in SUBSET Dels, NEW d \in Dels, d \notin L,
           NEW h \in Nat, LastEnded(R, ValOf[d]),
           Held(R, L, ValOf[d]), Fresh(R, L, ValOf[d]),
           NEW M, M = L \cup {d},
           NEW S, S = InitializeDelegation(R, d, h)
    PROVE  /\ S \in RecordsState
           /\ Held(S, M, ValOf[d])
           /\ Started(R, S, d, h)
<1> DEFINE v == ValOf[d]
           q == R.period[v] - 1
<1>1. v \in Vals /\ q \in Periods
  BY DEF LastEnded
<1>2. R.refs[v][q] = 1 /\ R.refs[v][q] =< 2
  BY <1>1 DEF Held, Fresh, ReferencesTo
<1>3. /\ S.refs = [R.refs EXCEPT ![v][q] = @ + 1]
      /\ S.period = R.period /\ S.slashes = R.slashes
      /\ S.start = [R.start EXCEPT ![d] = q]
      /\ S.height = [R.height EXCEPT ![d] = h]
      /\ S.fault = R.fault
  BY <1>1, <1>2, InitializeFields
<1>4. S \in RecordsState
  BY <1>1, InitializeType
<1>5. /\ S.start[d] = q
      /\ \A e \in L : S.start[e] = R.start[e]
  BY <1>1, <1>3 DEF RecordsState
<1>6. ASSUME NEW p \in Periods
      PROVE  S.refs[v][p] = ReferencesTo(S, M, v, p)
  <2>1. R.refs[v] \in [Periods -> Int] /\ S.refs[v] = [R.refs[v] EXCEPT ![q] = @ + 1]
    BY <1>1, <1>3 DEF RecordsState
  <2>2. CASE p = q
    <3>1. S.refs[v][p] = 2
      BY <1>1, <1>2, <2>1, <2>2
    <3>2. \E e \in M : ValOf[e] = v /\ S.start[e] = p
      BY <1>5, <2>2
    <3>3. p \notin S.slashes[v] /\ p = S.period[v] - 1
      BY <1>3, <2>2 DEF Fresh
    <3> QED BY <3>1, <3>2, <3>3 DEF ReferencesTo
  <2>3. CASE p # q
    <3>1. S.refs[v][p] = R.refs[v][p]
      BY <1>1, <2>1, <2>3
    <3>2. (\E e \in M : ValOf[e] = v /\ S.start[e] = p)
            <=> (\E e \in L : ValOf[e] = v /\ R.start[e] = p)
      BY <1>5, <2>3
    <3>3. R.refs[v][p] = ReferencesTo(R, L, v, p)
      BY DEF Held
    <3> QED BY <1>3, <3>1, <3>2, <3>3 DEF ReferencesTo
  <2> QED BY <2>2, <2>3
<1>7. q < R.period[v] /\ q \notin R.slashes[v] /\ \A e \in L : ValOf[e] = v => R.start[e] # q
  BY <1>1 DEF Fresh, RecordsState
<1>8. Held(S, M, v)
  <2>1. \A e \in M : ValOf[e] = v => /\ S.start[e] < S.period[v]
                                   /\ S.start[e] \notin S.slashes[v]
    BY <1>3, <1>5, <1>7 DEF Held
  <2>2. \A e, f \in M : ValOf[e] = v /\ ValOf[f] = v /\ S.start[e] = S.start[f] => e = f
    BY <1>5, <1>7 DEF Held
  <2> HIDE DEF v, q
  <2>3. Held(R, L, v)
    BY DEF v
  <2> QED BY <1>3, <1>6, <2>1, <2>2, <2>3 DEF Held
<1>9. /\ \A w \in Vals \ {v} : S.refs[w] = R.refs[w]
      /\ S.height[d] = h
      /\ \A e \in Dels \ {d} : S.start[e] = R.start[e] /\ S.height[e] = R.height[e]
  BY <1>1, <1>3 DEF RecordsState
<1>10. Started(R, S, d, h)
  BY <1>3, <1>9 DEF Started
<1> QED BY <1>4, <1>8, <1>10

(* What happens to one validator's records is nothing to another's.        *)
LEMMA OtherHeld ==
    ASSUME NEW R \in RecordsState, NEW S \in RecordsState, NEW w \in Vals,
           NEW L \in SUBSET Dels, NEW M \in SUBSET Dels,
           Held(R, L, w),
           S.refs[w] = R.refs[w], S.period[w] = R.period[w], S.slashes[w] = R.slashes[w],
           \A d \in Dels : ValOf[d] = w => /\ d \in L <=> d \in M
                                          /\ S.start[d] = R.start[d]
    PROVE  Held(S, M, w)
<1>1. ASSUME NEW p \in Periods
      PROVE  S.refs[w][p] = ReferencesTo(S, M, w, p)
  <2>1. (\E d \in M : ValOf[d] = w /\ S.start[d] = p)
          <=> (\E d \in L : ValOf[d] = w /\ R.start[d] = p)
    OBVIOUS
  <2>2. R.refs[w][p] = ReferencesTo(R, L, w, p)
    BY DEF Held
  <2> QED BY <2>1, <2>2 DEF ReferencesTo
<1> QED BY <1>1 DEF Held

AllHeld(R, L) == \A v \in Vals : Held(R, L, v)

(* From R to S one period of v has ended; only d's height may be new.      *)
PeriodEnded(R, S, v) ==
    /\ S.fault = R.fault /\ S.slashes = R.slashes
    /\ S.period[v] = R.period[v] + 1
    /\ \A w \in Vals \ {v} : S.period[w] = R.period[w]

StartedAt(R, S, d, h) ==
    S.height[d] = h /\ \A e \in Dels \ {d} : S.height[e] = R.height[e]

(* BeforeDelegationCreated and AfterDelegationModified bring a delegation  *)
(* to life without a panic.                                                *)
LEMMA ResetHeld ==
    ASSUME NEW R \in RecordsState, NEW L \in SUBSET Dels, NEW d \in Dels, d \notin L,
           NEW h \in Nat, R.period[ValOf[d]] \in Periods, AllHeld(R, L),
           NEW M, M = L \cup {d},
           NEW S, S = InitializeDelegation(EndPeriod(R, ValOf[d]), d, h)
    PROVE  /\ S \in RecordsState
           /\ AllHeld(S, M)
           /\ PeriodEnded(R, S, ValOf[d])
           /\ StartedAt(R, S, d, h)
<1> DEFINE v == ValOf[d]
           E == EndPeriod(R, v)
<1>1. v \in Vals /\ Held(R, L, v)
  BY DEF AllHeld
<1>2. /\ E \in RecordsState /\ Held(E, L, v) /\ Fresh(E, L, v)
      /\ E.fault = R.fault /\ E.period[v] = R.period[v] + 1
  BY <1>1, EndPeriodHeld
<1>3. /\ \A w \in Vals \ {v} : E.refs[w] = R.refs[w] /\ E.period[w] = R.period[w]
      /\ E.slashes = R.slashes /\ E.start = R.start /\ E.height = R.height
  BY <1>1, EndPeriodOthers
<1> HIDE DEF E
<1>4. LastEnded(E, v)
  BY <1>1, <1>2 DEF Periods, LastEnded
<1>5. S = InitializeDelegation(E, d, h)
  BY DEF E
<1>6. S \in RecordsState /\ Held(S, M, v) /\ Started(E, S, d, h)
  BY <1>2, <1>4, <1>5, InitializeHeld
<1>7. /\ S.fault = E.fault /\ S.period = E.period /\ S.slashes = E.slashes
      /\ S.height[d] = h
      /\ \A e \in Dels \ {d} : S.start[e] = E.start[e] /\ S.height[e] = E.height[e]
      /\ \A w \in Vals \ {v} : S.refs[w] = E.refs[w]
  BY <1>6 DEF Started
<1>8. ASSUME NEW w \in Vals, w # v
      PROVE  Held(S, M, w)
  <2>1. S.refs[w] = R.refs[w] /\ S.period[w] = R.period[w] /\ S.slashes[w] = R.slashes[w]
    BY <1>3, <1>7, <1>8
  <2>2. \A e \in Dels : ValOf[e] = w => /\ e \in L <=> e \in M
                                       /\ S.start[e] = R.start[e]
    BY <1>3, <1>7, <1>8
  <2>3. Held(R, L, w) /\ M \in SUBSET Dels
    BY DEF AllHeld
  <2> HIDE DEF v
  <2> QED BY <1>6, <2>1, <2>2, <2>3, OtherHeld
<1>9. AllHeld(S, M)
  BY <1>6, <1>8 DEF AllHeld
<1> QED BY <1>2, <1>3, <1>6, <1>7, <1>9 DEF PeriodEnded, StartedAt
(* WithdrawDelegationRewards releases the starting period of a delegation  *)
(* and takes the one just ended, or fails after ending a period; in both   *)
(* cases the records stay held by the same delegations, without a panic.   *)
LEMMA RestartHeld ==
    ASSUME NEW R \in RecordsState, NEW L \in SUBSET Dels, NEW d \in L,
           NEW h \in Nat, NEW sent \in BOOLEAN,
           R.period[ValOf[d]] \in Periods, AllHeld(R, L),
           NEW S, S = RestartDelegation(EndPeriod(R, ValOf[d]), d, sent, h)
    PROVE  /\ S \in RecordsState
           /\ AllHeld(S, L)
           /\ PeriodEnded(R, S, ValOf[d])
<1> DEFINE v == ValOf[d]
           E == EndPeriod(R, v)
           F == DecrementReferenceCount(E, v, E.start[d])
           M == L \ {d}
<1>1. v \in Vals /\ Held(R, L, v) /\ d \in Dels
  BY DEF AllHeld
<1>2. /\ E \in RecordsState /\ Held(E, L, v) /\ Fresh(E, L, v)
      /\ E.fault = R.fault /\ E.period[v] = R.period[v] + 1
  BY <1>1, EndPeriodHeld
<1>3. /\ \A w \in Vals \ {v} : E.refs[w] = R.refs[w] /\ E.period[w] = R.period[w]
      /\ E.slashes = R.slashes /\ E.start = R.start
  BY <1>1, EndPeriodOthers
<1>4. E.start[d] \in Periods
  BY <1>1, <1>2 DEF RecordsState
<1>5. ASSUME NEW w \in Vals, w # v
      PROVE  Held(E, L, w)
  <2>1. E.refs[w] = R.refs[w] /\ E.period[w] = R.period[w] /\ E.slashes[w] = R.slashes[w]
    BY <1>3, <1>5
  <2>2. \A e \in Dels : ValOf[e] = w => /\ e \in L <=> e \in L
                                       /\ E.start[e] = R.start[e]
    BY <1>3
  <2>3. Held(R, L, w)
    BY DEF AllHeld
  <2> HIDE DEF E, v
  <2> QED BY <1>2, <2>1, <2>2, <2>3, OtherHeld
<1>6. CASE ~sent
  <2>1. S = E
    BY <1>6 DEF RestartDelegation
  <2> QED BY <1>2, <1>3, <1>5, <2>1 DEF AllHeld, PeriodEnded
<1>7. CASE sent
  <2>1. /\ F \in RecordsState /\ Held(F, M, v) /\ Fresh(F, M, v)
        /\ F.fault = E.fault /\ F.period = E.period
    <3> HIDE DEF E
    <3> QED BY <1>2, ReleaseHeld
  <2>2. /\ F.refs = [E.refs EXCEPT ![v][E.start[d]] = @ - 1]
        /\ F.slashes = E.slashes /\ F.start = E.start
    <3> DEFINE s == E.start[d]
    <3>1. E.refs[v][s] # 0
      <4>1. E.refs[v][s] = ReferencesTo(E, L, v, s) /\ s # E.period[v] - 1 /\ s \notin E.slashes[v]
        BY <1>2, <1>4 DEF Held, Fresh
      <4> HIDE DEF E
      <4> QED BY <4>1 DEF ReferencesTo
    <3>2. s \in Periods
      BY <1>4
    <3> HIDE DEF E, s, v
    <3> QED BY <1>1, <1>2, <3>1, <3>2, DecrementFields DEF s
  <2>3. S = InitializeDelegation(F, d, h)
    BY <1>7 DEF RestartDelegation
  <2> HIDE DEF F
  <2>4. LastEnded(F, v)
    BY <1>1, <1>2, <2>1 DEF Periods, LastEnded
  <2>5. S \in RecordsState /\ Held(S, L, v) /\ Started(F, S, d, h)
    <3>1. M \in SUBSET Dels /\ d \notin M /\ L = M \cup {d}
      OBVIOUS
    <3> HIDE DEF M, E
    <3> QED BY <1>1, <2>1, <2>3, <2>4, <3>1, InitializeHeld
  <2>6. ASSUME NEW w \in Vals, w # v
        PROVE  Held(S, L, w)
    <3> HIDE DEF E
    <3>1. S.refs[w] = E.refs[w] /\ S.period[w] = E.period[w] /\ S.slashes[w] = E.slashes[w]
      BY <1>1, <1>2, <2>1, <2>2, <2>5, <2>6 DEF Started, RecordsState
    <3>2. \A e \in Dels : ValOf[e] = w => /\ e \in L <=> e \in L
                                         /\ S.start[e] = E.start[e]
      BY <2>2, <2>5, <2>6 DEF Started
    <3>3. Held(E, L, w)
      BY <1>5, <2>6
    <3> HIDE DEF v
    <3> QED BY <1>2, <2>5, <3>1, <3>2, <3>3, OtherHeld
  <2>7. AllHeld(S, L)
    BY <2>5, <2>6 DEF AllHeld
  <2>8. PeriodEnded(R, S, v)
    <3>1. S.fault = R.fault /\ S.slashes = R.slashes /\ S.period = E.period
      BY <1>2, <1>3, <2>1, <2>2, <2>5 DEF Started
    <3> HIDE DEF E, v
    <3> QED BY <1>2, <1>3, <3>1 DEF PeriodEnded
  <2> QED BY <2>5, <2>7, <2>8
<1> QED BY <1>6, <1>7
----------------------------------------------------------------------------
(* The books: every operator keeps the amounts natural and what it takes   *)
(* from a validator's outstanding rewards it puts elsewhere.               *)

(* The current rewards of a validator are part of its outstanding rewards. *)
Covered(B, v) == B.current[v] =< B.outstanding[v]

LEMMA EndPeriodBooksKept ==
    ASSUME NEW B \in BooksState, NEW v \in Vals, NEW b \in BOOLEAN,
           \A w \in Vals : Covered(B, w),
           NEW C, C = EndPeriodBooks(B, v, b)
    PROVE  C \in BooksState /\ MovesOnly(B, C, v) /\ \A w \in Vals : Covered(C, w)
<1> DEFINE donated == IF b THEN B.current[v] ELSE 0
           outstanding == [B.outstanding EXCEPT ![v] = @ - donated]
           current == [B.current EXCEPT ![v] = 0]
<1>1. /\ B.outstanding[v] \in Nat /\ B.current[v] \in Nat /\ B.pool \in Nat
      /\ B.balance \in Int /\ B.unsent \in Nat
  BY DEF BooksState
<1>2. donated \in Nat /\ donated =< B.outstanding[v]
  BY <1>1 DEF Covered
<1> HIDE DEF donated
<1>3. outstanding \in [Vals -> Nat] /\ current \in [Vals -> Nat] /\ B.pool + donated \in Nat
  BY <1>1, <1>2 DEF BooksState
<1>4. C = [B EXCEPT !.outstanding = outstanding, !.pool = @ + donated, !.current = current]
  BY DEF EndPeriodBooks, donated
<1> HIDE DEF outstanding, current
<1>5. /\ C \in BooksState
      /\ C.outstanding = outstanding /\ C.current = current
      /\ C.pool = B.pool + donated /\ C.balance = B.balance /\ C.unsent = B.unsent
  BY <1>3, <1>4 DEF BooksState
<1>6. /\ C.outstanding[v] = B.outstanding[v] - donated /\ C.current[v] = 0
      /\ \A w \in Vals \ {v} : /\ C.outstanding[w] = B.outstanding[w]
                              /\ C.current[w] = B.current[w]
  BY <1>5 DEF BooksState, outstanding, current
<1>7. RestOfBooks(C, v) = RestOfBooks(B, v)
  BY <1>1, <1>2, <1>5, <1>6 DEF RestOfBooks
<1>8. \A w \in Vals : Covered(C, w)
  BY <1>1, <1>2, <1>6 DEF Covered
<1> QED BY <1>5, <1>6, <1>7, <1>8 DEF MovesOnly

LEMMA PayRewardsKept ==
    ASSUME NEW B \in BooksState, NEW v \in Vals, NEW sent \in BOOLEAN,
           NEW coins \in Nat, NEW rest \in Nat,
           Unit * coins + rest =< B.outstanding[v], B.current[v] = 0,
           \A w \in Vals : Covered(B, w),
           NEW C, C = PayRewards(B, v, coins, rest, sent)
    PROVE  C \in BooksState /\ MovesOnly(B, C, v) /\ \A w \in Vals : Covered(C, w)
<1> DEFINE due == Unit * coins + rest
           outstanding == [B.outstanding EXCEPT ![v] = @ - due]
<1>1. /\ B.outstanding[v] \in Nat /\ B.current[v] \in Nat /\ B.pool \in Nat
      /\ B.balance \in Int /\ B.unsent \in Nat /\ due \in Int /\ due =< B.outstanding[v]
  BY DEF BooksState
<1>2. CASE ~sent
  BY <1>2 DEF PayRewards, MovesOnly
<1>3. CASE sent
  <2>1. due \in Int /\ Unit * (B.balance - coins) = Unit * B.balance - due + rest
    BY <1>1
  <2> HIDE DEF due
  <2>2. outstanding \in [Vals -> Nat] /\ B.pool + rest \in Nat /\ B.balance - coins \in Int
    BY <1>1 DEF BooksState
  <2>3. C = [B EXCEPT !.outstanding = outstanding, !.pool = @ + rest, !.balance = @ - coins]
    BY <1>3 DEF PayRewards, due
  <2> HIDE DEF outstanding
  <2>4. /\ C \in BooksState
        /\ C.outstanding = outstanding /\ C.current = B.current
        /\ C.pool = B.pool + rest /\ C.balance = B.balance - coins /\ C.unsent = B.unsent
    BY <2>2, <2>3 DEF BooksState
  <2>5. /\ C.outstanding[v] = B.outstanding[v] - due
        /\ \A w \in Vals \ {v} : C.outstanding[w] = B.outstanding[w]
    BY <2>4 DEF BooksState, outstanding
  <2>6. RestOfBooks(C, v) = RestOfBooks(B, v)
    <3>1. Unit * B.balance \in Int /\ Unit * B.unsent \in Int
      BY <1>1
    <3> QED BY <1>1, <2>1, <2>4, <2>5, <3>1 DEF RestOfBooks
  <2>7. \A w \in Vals : Covered(C, w)
    BY <1>1, <2>4, <2>5 DEF Covered
  <2> QED BY <2>4, <2>5, <2>6, <2>7 DEF MovesOnly
<1> QED BY <1>2, <1>3

LEMMA PayCommissionKept ==
    ASSUME NEW B \in BooksState, NEW v \in Vals, NEW sent \in BOOLEAN,
           NEW coins \in Nat, NEW rest \in Nat,
           B.commission[v] = Unit * coins + rest,
           B.commission[v] + B.current[v] =< B.outstanding[v],
           \A w \in Vals : Covered(B, w),
           NEW C, C = PayCommission(B, v, coins, rest, sent)
    PROVE  /\ C \in BooksState /\ MovesOnly(B, C, v) /\ \A w \in Vals : Covered(C, w)
           /\ C.current = B.current
           /\ \A w \in Vals \ {v} : C.commission[w] = B.commission[w]
<1> DEFINE written == Unit * coins
           outstanding == [B.outstanding EXCEPT ![v] = @ - written]
           commission == [B.commission EXCEPT ![v] = rest]
           balance == IF sent THEN B.balance - coins ELSE B.balance
           unsent == IF sent THEN B.unsent ELSE B.unsent + coins
<1>1. /\ B.outstanding[v] \in Nat /\ B.current[v] \in Nat /\ B.commission[v] \in Nat
      /\ B.pool \in Nat /\ B.balance \in Int /\ B.unsent \in Nat /\ written \in Int
  BY DEF BooksState
<1>2. written + rest + B.current[v] =< B.outstanding[v]
  BY <1>1
<1>3. balance \in Int /\ unsent \in Nat
  BY <1>1
<1>4. Unit * balance - Unit * unsent = Unit * B.balance - Unit * B.unsent - written
  <2>1. CASE sent
    BY <1>1, <2>1
  <2>2. CASE ~sent
    BY <1>1, <2>2
  <2> QED BY <2>1, <2>2
<1> HIDE DEF written
<1>5. outstanding \in [Vals -> Nat] /\ commission \in [Vals -> Nat]
  BY <1>1, <1>2 DEF BooksState
<1>6. C = [B EXCEPT !.commission = commission, !.outstanding = outstanding,
                    !.balance = balance, !.unsent = unsent]
  BY DEF PayCommission, written
<1> HIDE DEF outstanding, commission, balance, unsent
<1>7. /\ C \in BooksState
      /\ C.outstanding = outstanding /\ C.commission = commission /\ C.current = B.current
      /\ C.pool = B.pool /\ C.balance = balance /\ C.unsent = unsent
  BY <1>3, <1>5, <1>6 DEF BooksState
<1>8. /\ C.outstanding[v] = B.outstanding[v] - written
      /\ \A w \in Vals \ {v} : /\ C.outstanding[w] = B.outstanding[w]
                              /\ C.commission[w] = B.commission[w]
  BY <1>7 DEF BooksState, outstanding, commission
<1>9. RestOfBooks(C, v) = RestOfBooks(B, v)
  <2>1. /\ Unit * B.balance \in Int /\ Unit * B.unsent \in Int
        /\ Unit * balance \in Int /\ Unit * unsent \in Int
    BY <1>1, <1>3
  <2>2. /\ Unit * C.balance = Unit * balance /\ Unit * C.unsent = Unit * unsent
        /\ C.outstanding[v] = B.outstanding[v] - written /\ C.pool = B.pool
    BY <1>7, <1>8
  <2> DEFINE ub == Unit * B.balance
             uu == Unit * B.unsent
             vb == Unit * balance
             vu == Unit * unsent
  <2>3. vb - vu = ub - uu - written
    BY <1>4
  <2>4. ub \in Int /\ uu \in Int /\ vb \in Int /\ vu \in Int
    BY <2>1
  <2>5. /\ RestOfBooks(B, v) = ub - B.outstanding[v] - B.pool - uu
        /\ RestOfBooks(C, v) = vb - (B.outstanding[v] - written) - B.pool - vu
    BY <2>2 DEF RestOfBooks
  <2> HIDE DEF ub, uu, vb, vu
  <2>6. \A o, p \in Int : vb - (o - written) - p - vu = ub - o - p - uu
    BY <1>1, <2>3, <2>4
  <2>7. B.outstanding[v] \in Int /\ B.pool \in Int
    BY <1>1
  <2> QED BY <2>5, <2>6, <2>7
<1>10. \A w \in Vals : Covered(C, w)
  BY <1>1, <1>2, <1>7, <1>8 DEF Covered
<1> QED BY <1>7, <1>8, <1>9, <1>10 DEF MovesOnly

LEMMA ResetKept ==
    ASSUME NEW B \in BooksState, NEW v \in Vals, \A w \in Vals : Covered(B, w),
           NEW C, C = DonatedAndReset(B, v)
    PROVE  C \in BooksState /\ MovesOnly(B, C, v) /\ \A w \in Vals : Covered(C, w)
<1> DEFINE outstanding == [B.outstanding EXCEPT ![v] = 0]
           current == [B.current EXCEPT ![v] = 0]
           commission == [B.commission EXCEPT ![v] = 0]
           pool == B.pool + B.outstanding[v]
<1>1. /\ B.outstanding[v] \in Nat /\ B.pool \in Nat
      /\ B.balance \in Int /\ B.unsent \in Nat
  BY DEF BooksState
<1>2. /\ outstanding \in [Vals -> Nat] /\ current \in [Vals -> Nat]
      /\ commission \in [Vals -> Nat] /\ pool \in Nat
  BY <1>1 DEF BooksState
<1>3. C = [B EXCEPT !.pool = pool, !.current = current, !.commission = commission,
                    !.outstanding = outstanding]
  BY DEF DonatedAndReset, CreateBooks, BooksState
<1> HIDE DEF outstanding, current, commission, pool
<1>4. /\ C \in BooksState
      /\ C.outstanding = outstanding /\ C.current = current
      /\ C.pool = pool /\ C.balance = B.balance /\ C.unsent = B.unsent
  BY <1>2, <1>3 DEF BooksState
<1>5. /\ C.outstanding[v] = 0 /\ C.current[v] = 0
      /\ \A w \in Vals \ {v} : /\ C.outstanding[w] = B.outstanding[w]
                              /\ C.current[w] = B.current[w]
  BY <1>4 DEF BooksState, outstanding, current
<1>6. RestOfBooks(C, v) = RestOfBooks(B, v)
  BY <1>1, <1>4, <1>5 DEF RestOfBooks, pool
<1>7. \A w \in Vals : Covered(C, w)
  BY <1>5 DEF Covered
<1> QED BY <1>4, <1>5, <1>6, <1>7 DEF MovesOnly
----------------------------------------------------------------------------
(* The inductive invariant.                                                *)

(* How far the periods have come: Periods has room for all that end.       *)
PeriodsBounded ==
    /\ pc \in {"start", "commission"} => \A v \in Vals : records.period[v] =< PeriodCap
    /\ pc = "rewards" => \A v \in Vals : records.period[v] =< PeriodCap + i - 1
    /\ pc = "validators" => \A v \in Vals : v < i => records.period[v] = 1
    /\ pc = "delegations" => \A v \in Vals : records.period[v] =< i

(* The records are gone or held by the delegations alive, never faulty.    *)
RecordsHeld ==
    /\ \A v \in Vals : HasRecords(v) => Held(records, Live, v)
    /\ \A v \in Vals : ~HasRecords(v) => \A p \in Periods : records.refs[v][p] = 0
    /\ ~records.fault

(* From the deletion on there are no slash events.                         *)
SlashesGone ==
    pc \in {"validators", "delegations"} => \A v \in Vals : records.slashes[v] = {}

(* What is to be withdrawn or moved is outstanding.                        *)
BooksCovered ==
    /\ \A v \in Vals : Covered(books, v)
    /\ pc \in {"start", "commission"} =>
          \A v \in Vals : pc = "start" \/ v >= i => books.commission[v] + books.current[v] =< books.outstanding[v]

IInv == WorkOK /\ PeriodsBounded /\ RecordsHeld /\ SlashesGone /\ BooksCovered

(* While every delegation is alive, Live is the set of all of them.        *)
LEMMA LiveAll ==
    ASSUME pc \notin {"validators", "delegations"}
    PROVE  Live = Dels /\ \A v \in Vals : HasRecords(v)
  BY DEF Live, IsLive, HasRecords

LEMMA InitIInv == Init => IInv
<1> USE LastHeightAssumption, OldHeightsAssumption, PowersAssumption,
        MaxAmountAssumption, CountsAssumption
<1> SUFFICES ASSUME Init PROVE IInv
  OBVIOUS
<1>2. PICK r \in Records, height \in [Dels -> Heights] :
          records = [period |-> r.period, start |-> r.start, slashes |-> r.slashes,
                     refs |-> [v \in Vals |-> [p \in Periods |->
                         ReferencesTo(r, Dels, v, p)]],
                     height |-> height, fault |-> FALSE]
  BY DEF Init, InitRecords
<1>3. books \in BooksState
  BY DEF Init, InitBooks, BooksState
<1>4. \A v \in Vals : books.commission[v] + books.current[v] =< books.outstanding[v]
  BY DEF Init, InitBooks
<1>5. \A v \in Vals : Covered(books, v)
  BY <1>3, <1>4 DEF Covered, BooksState
<1>6. /\ r.period \in [Vals -> 1 .. PeriodCap]
      /\ r.start \in [Dels -> 0 .. PeriodCap - 1]
      /\ r.slashes \in [Vals -> SUBSET (1 .. PeriodCap - 1)]
      /\ \A d \in Dels : r.start[d] < r.period[ValOf[d]]
      /\ \A v \in Vals : r.slashes[v] \subseteq 0 .. r.period[v] - 1
      /\ StartsApart(r, Dels) /\ SlashesApart(r, Dels)
  BY <1>2 DEF Records
<1>7. /\ records.period = r.period /\ records.start = r.start
      /\ records.slashes = r.slashes /\ records.fault = FALSE /\ records.height = height
      /\ \A v \in Vals, p \in Periods : records.refs[v][p] = ReferencesTo(r, Dels, v, p)
  BY <1>2
<1>8. records \in RecordsState
  <2>1. r.period \in [Vals -> Nat] /\ r.start \in [Dels -> Periods]
    BY <1>6 DEF Periods
  <2>2. r.slashes \in [Vals -> SUBSET Periods]
    BY <1>6 DEF Periods
  <2>3. height \in [Dels -> Nat]
    BY DEF Heights
  <2>4. [v \in Vals |-> [p \in Periods |-> ReferencesTo(r, Dels, v, p)]]
           \in [Vals -> [Periods -> Int]]
    BY DEF ReferencesTo
  <2> QED BY <1>2, <2>1, <2>2, <2>3, <2>4 DEF RecordsState
<1>9. AllHeld(records, Dels)
  <2> SUFFICES ASSUME NEW v \in Vals PROVE Held(records, Dels, v)
    BY DEF AllHeld
  <2>1. records.period[v] > 0
    BY <1>6, <1>7
  <2>2. \A p \in Periods : records.refs[v][p] = ReferencesTo(records, Dels, v, p)
    BY <1>7 DEF ReferencesTo
  <2>3. \A d \in Dels : ValOf[d] = v => /\ records.start[d] < records.period[v]
                                      /\ records.start[d] \notin records.slashes[v]
    BY <1>6, <1>7 DEF SlashesApart
  <2>4. \A p \in records.slashes[v] : p < records.period[v]
    BY <1>6, <1>7
  <2>5. \A d, e \in Dels : ValOf[d] = v /\ ValOf[e] = v /\ records.start[d] = records.start[e]
                              => d = e
    BY <1>6, <1>7 DEF StartsApart
  <2> QED BY <2>1, <2>2, <2>3, <2>4, <2>5 DEF Held
<1>10. pc = "start" /\ i = 1
  BY DEF Init, InitControl
<1>11. RecordsHeld
  <2>1. Live = Dels /\ \A v \in Vals : HasRecords(v)
    BY <1>10, LiveAll
  <2> QED BY <1>7, <1>9, <2>1 DEF RecordsHeld, AllHeld
<1>12. PeriodsBounded /\ SlashesGone
  BY <1>6, <1>7, <1>10 DEF PeriodsBounded, SlashesGone
<1>13. BooksCovered
  BY <1>4, <1>5 DEF BooksCovered
<1>14. WorkOK
  <2>1. /\ powerIndex \subseteq Vals /\ lastVals \subseteq Vals
    BY DEF Init, InitStaking, Electable, Visited
  <2>2. /\ unbondHeight \in [Vals -> Heights] /\ signStart \in [Vals -> Heights]
    BY DEF Init, InitStaking, Heights
  <2>3. /\ redHeights \in [1 .. NReds -> [Entries -> Heights]]
        /\ ubdHeights \in [1 .. NUbds -> [Entries -> Heights]]
    <3>1. [Entries -> OldHeights] \subseteq [Entries -> Heights]
      BY DEF Heights
    <3> QED BY <3>1 DEF Init, InitStaking
  <2>4. power \in [Vals -> Nat] /\ jailed \in [Vals -> BOOLEAN]
    BY DEF Init, InitStaking
  <2>5. ctxHeight \in Heights /\ pc \in Phases /\ i \in Nat \ {0}
    BY DEF Init, InitControl, Heights, Phases
  <2>6. result \in [err : BOOLEAN, height : Int, validators : SUBSET Vals]
    BY DEF Init, InitControl, NoResult
  <2>7. /\ forZero \in BOOLEAN /\ allow \in AllowLists /\ skipped \in BOOLEAN
        /\ unwritten \subseteq Vals
        /\ status \in [Vals -> {"bonded", "unbonding", "unbonded"}]
    BY DEF Init, InitControl, InitStaking
  <2> QED BY <1>3, <1>8, <2>1, <2>2, <2>3, <2>4, <2>5, <2>6, <2>7 DEF WorkOK
<1> QED BY <1>11, <1>12, <1>13, <1>14 DEF IInv
----------------------------------------------------------------------------
(* Every step preserves the invariant, and balances the books.             *)

(* Steps that leave the distribution store alone, before or after the      *)
(* loops in which some records are missing.                                *)
LEMMA DistrKept ==
    ASSUME IInv, UNCHANGED distr,
           pc \notin {"validators", "delegations"},
           pc' \notin {"start", "commission", "rewards", "validators", "delegations"}
    PROVE  (PeriodsBounded /\ RecordsHeld /\ SlashesGone /\ BooksCovered)'
<1>1. Live = Dels /\ \A v \in Vals : HasRecords(v)
  BY LiveAll
<1>2. Live' = Dels /\ \A v \in Vals : HasRecords(v)'
  BY DEF Live, IsLive, HasRecords
<1>3. records' = records /\ books' = books
  BY DEF distr
<1> QED BY <1>1, <1>2, <1>3 DEF IInv, PeriodsBounded, RecordsHeld, SlashesGone, BooksCovered

LEMMA StartStep == IInv /\ Start => IInv' /\ LedgerStep
<1> SUFFICES ASSUME IInv, Start PROVE IInv' /\ LedgerStep
  OBVIOUS
<1>1. /\ pc = "start" /\ i' = 1 /\ pc' \in {"export", "panicked", "commission"}
      /\ OnlyControl
  BY DEF Start, Goto
<1>2. records' = records /\ books' = books
  BY <1>1 DEF OnlyControl, distr
<1>3. WorkOK'
  BY <1>1 DEF IInv, WorkOK, OnlyControl, args, history, distr, staking, unbondings, Phases
<1>4. CASE pc' # "commission"
  <2>1. UNCHANGED distr
    BY <1>2 DEF distr
  <2> QED BY <1>1, <1>2, <1>3, <1>4, <2>1, DistrKept DEF IInv, LedgerStep
<1>5. CASE pc' = "commission"
  <2>1. /\ Live = Dels /\ Live' = Dels
        /\ \A v \in Vals : HasRecords(v) /\ HasRecords(v)'
    BY <1>1, <1>5 DEF Live, IsLive, HasRecords
  <2> QED BY <1>1, <1>2, <1>3, <1>5, <2>1
          DEF IInv, PeriodsBounded, RecordsHeld, SlashesGone, BooksCovered, LedgerStep
<1> QED BY <1>4, <1>5

LEMMA NextLoopStep == IInv /\ NextLoop => IInv' /\ LedgerStep
<1> SUFFICES ASSUME IInv, NextLoop PROVE IInv' /\ LedgerStep
  OBVIOUS
<1>1. /\ i' = 1 /\ OnlyControl
      /\ \/ pc = "commission" /\ i > NVals /\ pc' = "rewards"
         \/ pc = "validators" /\ i > NVals /\ pc' = "delegations"
         \/ pc = "redelegations" /\ pc' = "unbondings"
         \/ pc = "unbondings" /\ pc' = "bondheights"
         \/ pc = "signing" /\ pc' = "export"
  BY DEF NextLoop, EndOfLoop, Goto
<1>2. records' = records /\ books' = books
  BY <1>1 DEF OnlyControl, distr
<1>3. WorkOK'
  BY <1>1 DEF IInv, WorkOK, OnlyControl, args, history, distr, staking, unbondings, Phases
<1>4. CASE pc = "commission" /\ pc' = "rewards"
  <2>1. /\ Live = Dels /\ Live' = Dels
        /\ \A v \in Vals : HasRecords(v) /\ HasRecords(v)'
    BY <1>4 DEF Live, IsLive, HasRecords
  <2> QED BY <1>1, <1>2, <1>3, <1>4, <2>1
          DEF IInv, PeriodsBounded, RecordsHeld, SlashesGone, BooksCovered, LedgerStep
<1>5. CASE pc = "validators" /\ i > NVals /\ pc' = "delegations"
  <2>1. /\ Live = {} /\ Live' = {}
        /\ \A v \in Vals : v < i
        /\ \A v \in Vals : HasRecords(v) /\ HasRecords(v)'
    BY <1>1, <1>5 DEF Live, IsLive, HasRecords, Vals, Dels, IInv, WorkOK
  <2>2. \A v \in Vals : records.period[v] =< 1
    BY <1>5, <2>1 DEF IInv, PeriodsBounded
  <2> QED BY <1>1, <1>2, <1>3, <1>5, <2>1, <2>2
          DEF IInv, PeriodsBounded, RecordsHeld, SlashesGone, BooksCovered, LedgerStep
<1>6. CASE pc \notin {"commission", "validators"}
  <2>1. UNCHANGED distr
    BY <1>2 DEF distr
  <2> QED BY <1>1, <1>2, <1>3, <1>6, <2>1, DistrKept DEF IInv, LedgerStep
<1> QED BY <1>1, <1>4, <1>5, <1>6
(* The variables that the loops over the distribution store leave alone.   *)
LEMMA TypeOfDistrStep ==
    ASSUME IInv, OnlyDistr, pc' \in Phases, i' \in Nat \ {0},
           books' \in BooksState, records' \in RecordsState
    PROVE  WorkOK'
  BY DEF IInv, WorkOK, OnlyDistr, args, history, staking, unbondings

LEMMA WithdrawCommissionStep == IInv /\ WithdrawCommission => IInv' /\ LedgerStep
<1> SUFFICES ASSUME IInv, WithdrawCommission PROVE IInv' /\ LedgerStep
  OBVIOUS
<1>1. /\ pc = "commission" /\ i \in Vals /\ i \in Nat /\ records' = records /\ OnlyDistr
  BY DEF WithdrawCommission, IInv, WorkOK, Vals
<1>2. /\ pc' = "commission" /\ i' = i + 1
  BY <1>1 DEF WithdrawCommission, Turn, IInv, RecordsHeld
<1>3. PICK paid \in Truncations(books.commission[i]), sent \in BOOLEAN :
          books' = PayCommission(books, i, paid.coins, paid.rest, sent)
  BY DEF WithdrawCommission
<1>4. books \in BooksState /\ records \in RecordsState
  BY DEF IInv, WorkOK
<1>5. /\ paid.coins \in Nat /\ paid.rest \in Nat
      /\ books.commission[i] = Unit * paid.coins + paid.rest
  BY <1>1, <1>4 DEF Truncations, BooksState
<1>6. books.commission[i] + books.current[i] =< books.outstanding[i]
  BY <1>1 DEF IInv, BooksCovered
<1>7. \A w \in Vals : Covered(books, w)
  BY DEF IInv, BooksCovered
<1>8. /\ books' \in BooksState /\ MovesOnly(books, books', i)
      /\ \A w \in Vals : Covered(books', w)
      /\ books'.current = books.current
      /\ \A w \in Vals \ {i} : books'.commission[w] = books.commission[w]
  BY <1>1, <1>3, <1>4, <1>5, <1>6, <1>7, PayCommissionKept, SMTT(20)
<1>9. WorkOK'
  BY <1>1, <1>2, <1>4, <1>8, TypeOfDistrStep DEF Phases
<1>10. BooksCovered'
  <2>1. ASSUME NEW w \in Vals, w >= i + 1
        PROVE  books'.commission[w] + books'.current[w] =< books'.outstanding[w]
    <3>1. w # i /\ w >= i
      BY <1>1, <2>1 DEF Vals
    <3>2. books.commission[w] + books.current[w] =< books.outstanding[w]
      BY <1>1, <3>1 DEF IInv, BooksCovered
    <3> QED BY <1>8, <3>1, <3>2 DEF MovesOnly
  <2> QED BY <1>2, <1>8, <2>1 DEF BooksCovered
<1>11. (PeriodsBounded /\ RecordsHeld /\ SlashesGone)'
  <2>1. /\ Live = Dels /\ Live' = Dels
        /\ \A v \in Vals : HasRecords(v) /\ HasRecords(v)'
    BY <1>1, <1>2 DEF Live, IsLive, HasRecords
  <2> QED BY <1>1, <1>2, <2>1 DEF IInv, PeriodsBounded, RecordsHeld, SlashesGone
<1> QED BY <1>1, <1>8, <1>9, <1>10, <1>11 DEF IInv, LedgerStep

(* Both halves of a withdrawal from a validator move its rewards only.     *)
LEMMA MovesTwice ==
    ASSUME NEW B, NEW C, NEW D, NEW v \in Vals, MovesOnly(B, C, v), MovesOnly(C, D, v)
    PROVE  MovesOnly(B, D, v)
  BY DEF MovesOnly

LEMMA WithdrawRewardsStep == IInv /\ WithdrawRewards => IInv' /\ LedgerStep
<1> SUFFICES ASSUME IInv, WithdrawRewards PROVE IInv' /\ LedgerStep
  OBVIOUS
<1> DEFINE v == ValOf[i]
           ended == EndPeriodBooks(books, v, NoTokens(v))
<1>1. /\ pc = "rewards" /\ i \in Dels /\ i \in Nat /\ OnlyDistr /\ v \in Vals
  BY DEF WithdrawRewards, IInv, WorkOK, Dels
<1>2. PICK earned \in Earned(ended, i), sent \in BOOLEAN :
        \E paid \in Truncations(earned) :
          /\ books' = PayRewards(ended, v, paid.coins, paid.rest, sent)
          /\ records' = RestartDelegation(EndPeriod(records, v), i, sent, ctxHeight)
  BY DEF WithdrawRewards
<1>3. PICK paid \in Truncations(earned) :
          /\ books' = PayRewards(ended, v, paid.coins, paid.rest, sent)
          /\ records' = RestartDelegation(EndPeriod(records, v), i, sent, ctxHeight)
  BY <1>2
<1>4. /\ books \in BooksState /\ records \in RecordsState /\ ctxHeight \in Nat
      /\ \A w \in Vals : Covered(books, w)
  BY DEF IInv, WorkOK, BooksCovered, Heights
<1>5. ended \in BooksState /\ MovesOnly(books, ended, v) /\ \A w \in Vals : Covered(ended, w)
  <2>1. NoTokens(v) \in BOOLEAN
    BY DEF NoTokens
  <2> QED BY <1>1, <1>4, <2>1, EndPeriodBooksKept
<1>6. ended.current[v] = 0
  BY <1>1, <1>4 DEF EndPeriodBooks, BooksState
<1> HIDE DEF ended
<1>7. earned \in Nat /\ earned =< ended.outstanding[v]
  BY <1>1, <1>5 DEF Earned, BooksState
<1>8. /\ paid.coins \in Nat /\ paid.rest \in Nat
      /\ Unit * paid.coins + paid.rest =< ended.outstanding[v]
  BY <1>7 DEF Truncations
<1>9. /\ books' \in BooksState /\ MovesOnly(ended, books', v)
      /\ \A w \in Vals : Covered(books', w)
  BY <1>1, <1>3, <1>5, <1>6, <1>8, PayRewardsKept
<1>10. LedgerStep
  BY <1>1, <1>5, <1>9, MovesTwice DEF LedgerStep
<1>11. Live = Dels /\ \A w \in Vals : HasRecords(w)
  BY <1>1, LiveAll
<1>12. AllHeld(records, Dels) /\ ~records.fault
  BY <1>11 DEF IInv, RecordsHeld, AllHeld
<1>13. records.period[v] \in Periods /\ \A w \in Vals : records.period[w] =< PeriodCap + i - 1
  BY <1>1, <1>4 DEF IInv, PeriodsBounded, RecordsState, Periods, Dels
<1>14. records' \in RecordsState /\ AllHeld(records', Dels) /\ PeriodEnded(records, records', v)
  <2> DEFINE L == Dels
  <2>1. L \in SUBSET Dels /\ i \in L /\ AllHeld(records, L)
    BY <1>1, <1>12
  <2> HIDE DEF L, v
  <2>2. records' \in RecordsState /\ AllHeld(records', L) /\ PeriodEnded(records, records', ValOf[i])
    BY <1>3, <1>4, <1>13, <2>1, RestartHeld DEF v
  <2> QED BY <2>2 DEF L, v
<1>15. pc' = "rewards" /\ i' = i + 1
  BY <1>1, <1>12, <1>14 DEF WithdrawRewards, Turn, PeriodEnded
<1>16. Live' = Dels /\ \A w \in Vals : HasRecords(w)'
  BY <1>15 DEF Live, IsLive, HasRecords
<1>17. RecordsHeld' /\ SlashesGone'
  BY <1>12, <1>14, <1>15, <1>16 DEF RecordsHeld, SlashesGone, AllHeld, PeriodEnded
<1>18. PeriodsBounded'
  <2>1. \A w \in Vals : records.period[w] \in Nat /\ records'.period[w] \in Nat
    BY <1>4, <1>14 DEF RecordsState
  <2>2. ASSUME NEW w \in Vals
        PROVE  records'.period[w] =< PeriodCap + i
    <3>1. records'.period[w] = IF w = v THEN records.period[w] + 1 ELSE records.period[w]
      BY <1>1, <1>14 DEF PeriodEnded
    <3> QED BY <1>1, <1>13, <2>1, <3>1
  <2> QED BY <1>1, <1>15, <2>1, <2>2 DEF PeriodsBounded
<1>19. WorkOK' /\ BooksCovered'
  <2>1. WorkOK'
    BY <1>1, <1>9, <1>14, <1>15, TypeOfDistrStep DEF Phases
  <2> QED BY <1>9, <1>15, <2>1 DEF BooksCovered
<1> QED BY <1>10, <1>17, <1>18, <1>19 DEF IInv

(* Cleared leaves no slash event and no historical record.                 *)
LEMMA ClearedKept ==
    ASSUME NEW R \in RecordsState, NEW S, S = Cleared(R)
    PROVE  /\ S \in RecordsState /\ S.fault = R.fault
           /\ \A v \in Vals : S.slashes[v] = {}
           /\ \A v \in Vals, p \in Periods : S.refs[v][p] = 0
<1> DEFINE slashes == [v \in Vals |-> {}]
           refs == [v \in Vals |-> [p \in Periods |-> 0]]
<1>1. slashes \in [Vals -> SUBSET Periods] /\ refs \in [Vals -> [Periods -> Int]]
  OBVIOUS
<1>2. S = [[R EXCEPT !.slashes = slashes] EXCEPT !.refs = refs]
  BY DEF Cleared, DeleteAllValidatorHistoricalRewards, DeleteAllValidatorSlashEvents
<1>3. /\ \A v \in Vals : slashes[v] = {}
      /\ \A v \in Vals, p \in Periods : refs[v][p] = 0
  OBVIOUS
<1> HIDE DEF slashes, refs
<1>4. S \in RecordsState /\ S.slashes = slashes /\ S.refs = refs /\ S.fault = R.fault
  BY <1>1, <1>2 DEF RecordsState
<1> QED BY <1>3, <1>4

LEMMA ClearRecordsStep == IInv /\ ClearRecords => IInv' /\ LedgerStep
<1> SUFFICES ASSUME IInv, ClearRecords PROVE IInv' /\ LedgerStep
  OBVIOUS
<1>1. /\ pc = "rewards" /\ pc' = "validators" /\ i' = 1 /\ ctxHeight' = 0
      /\ books' = books /\ records' = Cleared(records)
      /\ UNCHANGED <<args, staking, unbondings, signStart, history, result>>
  BY DEF ClearRecords, Goto
<1>2. records \in RecordsState /\ ~records.fault
  BY DEF IInv, WorkOK, RecordsHeld
<1>3. /\ records' \in RecordsState
      /\ ~records'.fault
      /\ \A v \in Vals : records'.slashes[v] = {}
      /\ \A v \in Vals, p \in Periods : records'.refs[v][p] = 0
  BY <1>1, <1>2, ClearedKept
<1>4. \A v \in Vals : ~(v < 1)
  BY DEF Vals
<1>5. RecordsHeld' /\ SlashesGone' /\ PeriodsBounded'
  BY <1>1, <1>3, <1>4 DEF RecordsHeld, SlashesGone, PeriodsBounded, HasRecords
<1>6. BooksCovered'
  BY <1>1 DEF IInv, BooksCovered
<1>7. WorkOK'
  BY <1>1, <1>3, LastHeightAssumption
     DEF IInv, WorkOK, args, history, staking, unbondings, Heights, Phases
<1> QED BY <1>1, <1>5, <1>6, <1>7 DEF IInv, LedgerStep

(* The fresh records of a validator are held by its first period.          *)
LEMMA CreateHeld ==
    ASSUME NEW R \in RecordsState, NEW v \in Vals,
           \A p \in Periods : R.refs[v][p] = 0, R.slashes[v] = {},
           NEW S, S = RecordsReset(R, v)
    PROVE  /\ S \in RecordsState
           /\ Held(S, {}, v)
           /\ S.fault = R.fault /\ S.slashes = R.slashes /\ S.start = R.start
           /\ S.period[v] = 1
           /\ \A w \in Vals \ {v} : S.refs[w] = R.refs[w] /\ S.period[w] = R.period[w]
<1> DEFINE refs == [R.refs EXCEPT ![v][0] = 1]
           period == [R.period EXCEPT ![v] = 1]
<1>1. 0 \in Periods
  BY DEF Periods
<1>2. refs \in [Vals -> [Periods -> Int]] /\ period \in [Vals -> Nat]
  BY <1>1 DEF RecordsState
<1>3. S = [R EXCEPT !.refs = refs, !.period = period]
  BY DEF RecordsReset, CreateRecords
<1>4. /\ refs[v][0] = 1 /\ period[v] = 1
      /\ \A p \in Periods \ {0} : refs[v][p] = 0
      /\ \A w \in Vals \ {v} : refs[w] = R.refs[w] /\ period[w] = R.period[w]
  BY <1>1 DEF RecordsState
<1> HIDE DEF refs, period
<1>5. /\ S \in RecordsState /\ S.refs = refs /\ S.period = period
      /\ S.fault = R.fault /\ S.slashes = R.slashes /\ S.start = R.start
  BY <1>2, <1>3 DEF RecordsState
<1>6. Held(S, {}, v)
  BY <1>1, <1>4, <1>5 DEF Held, ReferencesTo
<1> QED BY <1>4, <1>5, <1>6

LEMMA ReinitValidatorStep == IInv /\ ReinitValidator => IInv' /\ LedgerStep
<1> SUFFICES ASSUME IInv, ReinitValidator PROVE IInv' /\ LedgerStep
  OBVIOUS
<1>1. /\ pc = "validators" /\ i \in Vals /\ i \in Nat /\ OnlyDistr
      /\ books' = DonatedAndReset(books, i) /\ records' = RecordsReset(records, i)
  BY DEF ReinitValidator, IInv, WorkOK, Vals
<1>2. /\ books \in BooksState /\ records \in RecordsState /\ ~records.fault
      /\ \A w \in Vals : Covered(books, w)
  BY DEF IInv, WorkOK, BooksCovered, RecordsHeld
<1>3. /\ books' \in BooksState /\ MovesOnly(books, books', i)
      /\ \A w \in Vals : Covered(books', w)
  BY <1>1, <1>2, ResetKept
<1>4. /\ records.slashes[i] = {}
      /\ \A w \in Vals : w >= i => \A p \in Periods : records.refs[w][p] = 0
      /\ \A w \in Vals : w < i => Held(records, {}, w) /\ records.period[w] = 1
  <2>1. Live = {}
    BY <1>1 DEF Live, IsLive
  <2>2. \A w \in Vals : HasRecords(w) <=> w < i
    BY <1>1 DEF HasRecords
  <2>3. \A w \in Vals : w >= i => ~(w < i)
    BY <1>1 DEF Vals
  <2> QED BY <1>1, <2>1, <2>2, <2>3 DEF IInv, SlashesGone, RecordsHeld, PeriodsBounded
<1>5. /\ records' \in RecordsState /\ Held(records', {}, i)
      /\ records'.fault = records.fault /\ records'.slashes = records.slashes
      /\ records'.start = records.start /\ records'.period[i] = 1
      /\ \A w \in Vals \ {i} : /\ records'.refs[w] = records.refs[w]
                              /\ records'.period[w] = records.period[w]
  BY <1>1, <1>2, <1>4, CreateHeld
<1>6. pc' = "validators" /\ i' = i + 1
  BY <1>1, <1>2, <1>5 DEF ReinitValidator, Turn
<1>7. \A w \in Vals : w < i + 1 => w < i \/ w = i
  BY <1>1 DEF Vals
<1>8. ASSUME NEW w \in Vals, w < i
      PROVE  Held(records', {}, w)
  <2>1. w # i /\ Held(records, {}, w)
    BY <1>1, <1>4, <1>8 DEF Vals
  <2> QED BY <1>2, <1>5, <2>1, OtherHeld
<1>9. RecordsHeld'
  <2>1. Live' = {} /\ \A w \in Vals : HasRecords(w)' <=> w < i + 1
    BY <1>6 DEF Live, IsLive, HasRecords
  <2>2. ASSUME NEW w \in Vals, ~(w < i + 1)
        PROVE  \A p \in Periods : records'.refs[w][p] = 0
    <3>1. w # i /\ w >= i
      BY <1>1, <2>2 DEF Vals
    <3> QED BY <1>4, <1>5, <3>1
  <2> QED BY <1>2, <1>5, <1>7, <1>8, <2>1, <2>2 DEF RecordsHeld
<1>10. PeriodsBounded' /\ SlashesGone'
  <2>1. \A w \in Vals : w < i => w # i
    BY <1>1 DEF Vals
  <2> QED BY <1>1, <1>4, <1>5, <1>6, <1>7, <2>1 DEF IInv, PeriodsBounded, SlashesGone
<1>11. WorkOK' /\ BooksCovered'
  <2>1. WorkOK'
    BY <1>1, <1>3, <1>5, <1>6, TypeOfDistrStep DEF Phases
  <2> QED BY <1>3, <1>6, <2>1 DEF BooksCovered
<1> QED BY <1>1, <1>3, <1>9, <1>10, <1>11 DEF IInv, LedgerStep

LEMMA ReinitDelegationStep == IInv /\ ReinitDelegation => IInv' /\ LedgerStep
<1> SUFFICES ASSUME IInv, ReinitDelegation PROVE IInv' /\ LedgerStep
  OBVIOUS
<1> DEFINE v == ValOf[i]
           L == {d \in Dels : d < i}
           M == L \cup {i}
<1>1. /\ pc = "delegations" /\ i \in Dels /\ i \in Nat /\ i =< NDels /\ OnlyDistr
      /\ v \in Vals
  BY DEF ReinitDelegation, IInv, WorkOK, Dels
<1>2. /\ books' = EndPeriodBooks(books, v, NoTokens(v))
      /\ records' = InitializeDelegation(EndPeriod(records, v), i, ctxHeight)
  BY DEF ReinitDelegation, DelegationReset
<1>3. /\ books \in BooksState /\ records \in RecordsState /\ ctxHeight \in Nat
      /\ \A w \in Vals : Covered(books, w)
  BY DEF IInv, WorkOK, BooksCovered, Heights
<1>4. NoTokens(v) \in BOOLEAN
  BY DEF NoTokens
<1>5. /\ books' \in BooksState /\ MovesOnly(books, books', v)
      /\ \A w \in Vals : Covered(books', w)
  BY <1>1, <1>2, <1>3, <1>4, EndPeriodBooksKept
<1>6. Live = L /\ \A w \in Vals : HasRecords(w)
  BY <1>1 DEF Live, IsLive, HasRecords
<1>7. AllHeld(records, L) /\ ~records.fault
  BY <1>6 DEF IInv, RecordsHeld, AllHeld
<1>8. L \in SUBSET Dels /\ i \notin L
  BY <1>1 DEF Dels
<1>9. /\ \A w \in Vals : records.period[w] =< i /\ records.period[w] \in Nat
      /\ records.period[v] \in Periods
  <2>1. \A w \in Vals : records.period[w] =< i /\ records.period[w] \in Nat
    BY <1>1, <1>3 DEF IInv, PeriodsBounded, RecordsState
  <2> QED BY <1>1, <2>1 DEF Periods
<1>10. /\ records' \in RecordsState /\ AllHeld(records', M)
       /\ PeriodEnded(records, records', v)
  <2> HIDE DEF L
  <2> QED BY <1>1, <1>2, <1>3, <1>7, <1>8, <1>9, ResetHeld
<1>11. pc' = "delegations" /\ i' = i + 1
  BY <1>1, <1>7, <1>10 DEF ReinitDelegation, Turn, PeriodEnded
<1>12. Live' = M /\ \A w \in Vals : HasRecords(w)'
  BY <1>1, <1>11 DEF Live, IsLive, HasRecords, Dels
<1>13. RecordsHeld' /\ SlashesGone'
  BY <1>1, <1>7, <1>10, <1>11, <1>12
     DEF IInv, RecordsHeld, SlashesGone, AllHeld, PeriodEnded
<1>14. PeriodsBounded'
  <2>1. ASSUME NEW w \in Vals
        PROVE  records'.period[w] =< i + 1
    <3>1. records'.period[w] = IF w = v THEN records.period[w] + 1 ELSE records.period[w]
      BY <1>1, <1>10 DEF PeriodEnded
    <3> QED BY <1>1, <1>9, <3>1
  <2> QED BY <1>11, <2>1 DEF PeriodsBounded
<1>15. WorkOK' /\ BooksCovered'
  <2>1. WorkOK'
    BY <1>1, <1>5, <1>10, <1>11, TypeOfDistrStep DEF Phases
  <2> QED BY <1>5, <1>11, <2>1 DEF BooksCovered
<1>16. LedgerStep
  BY <1>1, <1>5 DEF LedgerStep
<1> QED BY <1>13, <1>14, <1>15, <1>16 DEF IInv

LEMMA RestoreHeightStep == IInv /\ RestoreHeight => IInv' /\ LedgerStep
<1> SUFFICES ASSUME IInv, RestoreHeight PROVE IInv' /\ LedgerStep
  OBVIOUS
<1>1. /\ pc = "delegations" /\ i > NDels /\ i \in Nat
      /\ pc' = "redelegations" /\ i' = 1 /\ ctxHeight' = LastHeight
      /\ UNCHANGED <<args, distr, staking, unbondings, signStart, history, result>>
  BY DEF RestoreHeight, Goto, HeightBefore, IInv, WorkOK
<1>2. records' = records /\ books' = books
  BY <1>1 DEF distr
<1>3. /\ Live = Dels /\ \A v \in Vals : HasRecords(v)
      /\ Live' = Dels /\ \A v \in Vals : HasRecords(v)'
  BY <1>1 DEF Live, IsLive, HasRecords, Dels
<1>4. (PeriodsBounded /\ RecordsHeld /\ SlashesGone /\ BooksCovered)'
  BY <1>1, <1>2, <1>3 DEF IInv, PeriodsBounded, RecordsHeld, SlashesGone, BooksCovered
<1>5. WorkOK'
  BY <1>1, LastHeightAssumption
     DEF IInv, WorkOK, args, history, distr, staking, unbondings, Heights, Phases
<1> QED BY <1>2, <1>4, <1>5 DEF IInv, LedgerStep
----------------------------------------------------------------------------
(* The staking and slashing loops, and the export.                         *)

(* A turn of a loop that leaves the reward records alone does not panic.   *)
LEMMA TurnKept ==
    ASSUME IInv, Turn, records' = records
    PROVE  pc' = pc /\ i' = i + 1 /\ i' \in Nat \ {0}
  BY DEF Turn, IInv, RecordsHeld, WorkOK

(* No entry of an iterated redelegation or unbonding delegation keeps a    *)
(* height that the chain has not reached.                                  *)
LEMMA EntriesResetType == ASSUME NEW h PROVE EntriesReset(h) \in [Entries -> Heights]
  BY LastHeightAssumption DEF EntriesReset, Heights

LEMMA UnbondingSteps ==
    IInv /\ (ResetRedelegation \/ ResetUnbonding) => IInv' /\ LedgerStep
<1> SUFFICES ASSUME IInv, ResetRedelegation \/ ResetUnbonding PROVE IInv' /\ LedgerStep
  OBVIOUS
<1>1. records' = records /\ books' = books /\ Turn /\ pc \in {"redelegations", "unbondings"}
  BY DEF ResetRedelegation, ResetUnbonding, distr
<1>2. pc' = pc /\ i' \in Nat \ {0}
  BY <1>1, TurnKept
<1>3. WorkOK'
  <2>1. CASE ResetRedelegation
    <3>1. EntriesReset(redHeights[i]) \in [Entries -> Heights]
      BY EntriesResetType
    <3> HIDE DEF EntriesReset
    <3>2. redHeights' \in [1 .. NReds -> [Entries -> Heights]]
      BY <2>1, <3>1 DEF ResetRedelegation, IInv, WorkOK
    <3> QED BY <1>1, <1>2, <2>1, <3>2
            DEF ResetRedelegation, IInv, WorkOK, args, history, distr, staking
  <2>2. CASE ResetUnbonding
    <3>1. EntriesReset(ubdHeights[i]) \in [Entries -> Heights]
      BY EntriesResetType
    <3>2. ubdHeights' \in [1 .. NUbds -> [Entries -> Heights]]
      BY <2>2, <3>1 DEF ResetUnbonding, IInv, WorkOK
    <3> QED BY <1>1, <1>2, <2>2, <3>2
            DEF ResetUnbonding, IInv, WorkOK, args, history, distr, staking
  <2> QED BY <2>1, <2>2
<1> QED BY <1>1, <1>2, <1>3, DistrKept DEF IInv, LedgerStep, distr

LEMMA ResetBondHeightStep == IInv /\ ResetBondHeight => IInv' /\ LedgerStep
<1> SUFFICES ASSUME IInv, ResetBondHeight PROVE IInv' /\ LedgerStep
  OBVIOUS
<1>1. /\ records' = records /\ books' = books /\ Turn /\ pc = "bondheights"
      /\ unbondHeight' = [unbondHeight EXCEPT ![Iterated] = 0]
      /\ jailed' = [jailed EXCEPT ![Iterated] = @ \/ IsJailedByList(Iterated)]
      /\ UNCHANGED <<args, ctxHeight, status, powerIndex, lastVals,
                     unbondings, signStart, history, result>>
  BY DEF ResetBondHeight, distr
<1>2. pc' = "bondheights" /\ i' \in Nat \ {0}
  BY <1>1, TurnKept
<1>3. unbondHeight' \in [Vals -> Heights]
  <2>1. unbondHeight \in [Vals -> Heights] /\ 0 \in Heights
    BY LastHeightAssumption DEF IInv, WorkOK, Heights
  <2> QED BY <1>1, <2>1
<1>4. jailed' \in [Vals -> BOOLEAN]
  <2>1. jailed \in [Vals -> BOOLEAN]
    BY DEF IInv, WorkOK
  <2>2. (jailed[Iterated] \/ IsJailedByList(Iterated)) \in BOOLEAN
    OBVIOUS
  <2> QED BY <1>1, <2>1, <2>2, Zenon
<1>5. WorkOK'
  BY <1>1, <1>2, <1>3, <1>4 DEF IInv, WorkOK, args, history, unbondings, Phases
<1> QED BY <1>1, <1>2, <1>5, DistrKept DEF IInv, LedgerStep, distr

LEMMA CloseIteratorStep == IInv /\ CloseIterator => IInv' /\ LedgerStep
<1> SUFFICES ASSUME IInv, CloseIterator PROVE IInv' /\ LedgerStep
  OBVIOUS
<1>1. /\ pc = "bondheights" /\ pc' \in {"valset", "export"} /\ i' = 1
      /\ skipped' \in {skipped, TRUE}
      /\ UNCHANGED <<args, ctxHeight, distr, staking, unbondings, signStart,
                     unwritten, result>>
  BY DEF CloseIterator, Goto
<1>2. WorkOK'
  <2>1. skipped' \in BOOLEAN
    BY <1>1 DEF IInv, WorkOK
  <2> QED BY <1>1, <2>1 DEF IInv, WorkOK, args, history, distr, staking, unbondings, Phases
<1> QED BY <1>1, <1>2, DistrKept DEF IInv, LedgerStep, distr

LEMMA ApplyValidatorSetUpdatesStep ==
    IInv /\ ApplyValidatorSetUpdates => IInv' /\ LedgerStep
<1> SUFFICES ASSUME IInv, ApplyValidatorSetUpdates PROVE IInv' /\ LedgerStep
  OBVIOUS
<1>1. /\ pc = "valset" /\ pc' \in {"panicked", "signing"} /\ i' = 1
      /\ UNCHANGED <<args, ctxHeight, distr, jailed, powerIndex,
                     unbondings, signStart, history, result>>
  BY DEF ApplyValidatorSetUpdates, Goto
<1>2. /\ lastVals' \subseteq Vals
      /\ status' \in [Vals -> {"bonded", "unbonding", "unbonded"}]
      /\ unbondHeight' \in [Vals -> Heights]
  <2>1. CASE \E v \in Visited(powerIndex) : jailed[v]
    BY <2>1 DEF ApplyValidatorSetUpdates, IInv, WorkOK
  <2>2. CASE ~ \E v \in Visited(powerIndex) : jailed[v]
    <3> DEFINE bonded == Electable(powerIndex)
               leaving == lastVals \ bonded
    <3>1. /\ lastVals' = bonded
          /\ status' = [v \in Vals |-> IF v \in bonded THEN "bonded"
                           ELSE IF v \in leaving THEN "unbonding" ELSE status[v]]
          /\ unbondHeight' = [v \in Vals |->
                  IF v \in leaving THEN ctxHeight ELSE unbondHeight[v]]
      BY <2>2 DEF ApplyValidatorSetUpdates
    <3>2. /\ status \in [Vals -> {"bonded", "unbonding", "unbonded"}]
          /\ unbondHeight \in [Vals -> Heights] /\ ctxHeight \in Heights
          /\ bonded \subseteq Vals
      BY DEF IInv, WorkOK, Electable, Visited
    <3> HIDE DEF bonded, leaving
    <3> QED BY <3>1, <3>2
  <2> QED BY <2>1, <2>2
<1>3. WorkOK'
  BY <1>1, <1>2 DEF IInv, WorkOK, args, history, distr, unbondings, Phases
<1> QED BY <1>1, <1>3, DistrKept DEF IInv, LedgerStep, distr

LEMMA ResetSigningInfoStep == IInv /\ ResetSigningInfo => IInv' /\ LedgerStep
<1> SUFFICES ASSUME IInv, ResetSigningInfo PROVE IInv' /\ LedgerStep
  OBVIOUS
<1>1. /\ records' = records /\ books' = books /\ Turn /\ pc = "signing"
      /\ signStart' \in {signStart, [signStart EXCEPT ![i] = 0]}
      /\ i \in Vals /\ unwritten' \in {unwritten, unwritten \cup {i}}
      /\ UNCHANGED <<args, ctxHeight, staking, unbondings, skipped, result>>
  BY DEF ResetSigningInfo, distr, IInv, WorkOK, Vals
<1>2. pc' = "signing" /\ i' \in Nat \ {0}
  BY <1>1, TurnKept
<1>3. signStart' \in [Vals -> Heights]
  <2>1. signStart \in [Vals -> Heights] /\ 0 \in Heights
    BY LastHeightAssumption DEF IInv, WorkOK, Heights
  <2> QED BY <1>1, <2>1
<1>4. unwritten' \subseteq Vals
  BY <1>1 DEF IInv, WorkOK
<1>5. WorkOK'
  BY <1>1, <1>2, <1>3, <1>4 DEF IInv, WorkOK, args, staking, unbondings, Phases
<1> QED BY <1>1, <1>2, <1>5, DistrKept DEF IInv, LedgerStep, distr

LEMMA ExportStep == IInv /\ Export => IInv' /\ LedgerStep
<1> SUFFICES ASSUME IInv, Export PROVE IInv' /\ LedgerStep
  OBVIOUS
<1>1. /\ pc = "export" /\ pc' = "returned" /\ i' = 1
      /\ UNCHANGED <<args, ctxHeight, distr, staking, unbondings, signStart, history>>
  BY DEF Export, Goto
<1>2. result' \in [err : BOOLEAN, height : Int, validators : SUBSET Vals]
  <2>1. LastHeight + 1 \in Int /\ lastVals \in SUBSET Vals
    BY LastHeightAssumption DEF IInv, WorkOK
  <2>2. ListedBeforeError \subseteq SUBSET Vals
    BY <2>1 DEF ListedBeforeError
  <2>3. CASE result' = [err |-> TRUE, height |-> 0, validators |-> {}]
    BY <2>3
  <2>4. CASE \E err \in BOOLEAN :
             \E listed \in IF err THEN ListedBeforeError ELSE {lastVals} :
                result' = [err |-> err,
                           height |-> IF forZero THEN 0 ELSE LastHeight + 1,
                           validators |-> listed]
    <3>1. PICK err \in BOOLEAN :
             \E listed \in IF err THEN ListedBeforeError ELSE {lastVals} :
                result' = [err |-> err,
                           height |-> IF forZero THEN 0 ELSE LastHeight + 1,
                           validators |-> listed]
      BY <2>4
    <3>2. PICK listed \in IF err THEN ListedBeforeError ELSE {lastVals} :
                result' = [err |-> err,
                           height |-> IF forZero THEN 0 ELSE LastHeight + 1,
                           validators |-> listed]
      BY <3>1
    <3>3. listed \in SUBSET Vals
      BY <2>1, <2>2
    <3> QED BY <2>1, <3>2, <3>3
  <2> QED BY <2>3, <2>4 DEF Export
<1>3. WorkOK'
  BY <1>1, <1>2 DEF IInv, WorkOK, args, history, distr, staking, unbondings, Phases
<1> QED BY <1>1, <1>3, DistrKept DEF IInv, LedgerStep, distr

(* A stopped or stuttering step changes nothing.                           *)
LEMMA StutterStep == IInv /\ UNCHANGED work => IInv' /\ LedgerStep
<1> SUFFICES ASSUME IInv, UNCHANGED work PROVE IInv' /\ LedgerStep
  OBVIOUS
<1>1. /\ pc' = pc /\ i' = i /\ books' = books /\ records' = records
      /\ UNCHANGED <<args, ctxHeight, distr, staking, unbondings, signStart, history, result>>
  BY DEF work, distr
<1>2. WorkOK'
  BY <1>1 DEF IInv, WorkOK, args, history, distr, staking, unbondings
<1>3. Live' = Live /\ \A v \in Vals : HasRecords(v)' <=> HasRecords(v)
  BY <1>1 DEF Live, IsLive, HasRecords
<1> QED BY <1>1, <1>2, <1>3
        DEF IInv, PeriodsBounded, RecordsHeld, SlashesGone, BooksCovered, LedgerStep

LEMMA NextStep == IInv /\ [Next]_vars => IInv' /\ LedgerStep
<1> SUFFICES ASSUME IInv, [Next]_vars PROVE IInv' /\ LedgerStep
  OBVIOUS
<1>1. CASE Start BY <1>1, StartStep
<1>2. CASE NextLoop BY <1>2, NextLoopStep
<1>3. CASE WithdrawCommission BY <1>3, WithdrawCommissionStep
<1>4. CASE WithdrawRewards BY <1>4, WithdrawRewardsStep
<1>5. CASE ClearRecords BY <1>5, ClearRecordsStep
<1>6. CASE ReinitValidator BY <1>6, ReinitValidatorStep
<1>7. CASE ReinitDelegation BY <1>7, ReinitDelegationStep
<1>8. CASE RestoreHeight BY <1>8, RestoreHeightStep
<1>9. CASE ResetRedelegation \/ ResetUnbonding BY <1>9, UnbondingSteps
<1>10. CASE ResetBondHeight BY <1>10, ResetBondHeightStep
<1>11. CASE CloseIterator BY <1>11, CloseIteratorStep
<1>12. CASE ApplyValidatorSetUpdates BY <1>12, ApplyValidatorSetUpdatesStep
<1>13. CASE ResetSigningInfo BY <1>13, ResetSigningInfoStep
<1>14. CASE Export BY <1>14, ExportStep
<1>15. CASE UNCHANGED work BY <1>15, StutterStep
<1> QED BY <1>1, <1>2, <1>3, <1>4, <1>5, <1>6, <1>7, <1>8, <1>9, <1>10, <1>11,
           <1>12, <1>13, <1>14, <1>15 DEF Next, Step, Stopped, PanicOnError, vars
----------------------------------------------------------------------------
(* The staking store and the allow list.  A zero height export that is in  *)
(* one of the later phases, or hands over to the export, has the earlier   *)
(* loops behind it.                                                        *)
Reached(phases) == pc \in phases \/ (pc \in {"export", "returned"} /\ forZero)

(* The stored set is the one that the power index elects.                  *)
SetElected ==
    /\ lastVals = Electable(powerIndex)
    /\ \A v \in Vals : status[v] = "bonded" <=> v \in lastVals

(* The validators that export.go:223 has compared with the allow list.     *)
Judged(v) == (pc = "bondheights" /\ v > Iterated) \/ Reached({"valset", "signing"})

(* Of the indexed validators those are jailed that the list omits, once    *)
(* the loop has come to them.                                              *)
ListApplied ==
    pc # "panicked" => \A v \in powerIndex : jailed[v] <=> Judged(v) /\ IsJailedByList(v)

(* The preparation was asked for, and its list parsed.                     *)
ListParsed ==
    /\ pc \notin {"start", "export", "returned"} => forZero
    /\ forZero /\ pc \notin {"start", "panicked"} => BadAddr \notin allow

(* The set was computed again without a panic, or the list explains one.   *)
Survived == pc = "signing" \/ (pc \in {"export", "returned"} /\ forZero /\ ~skipped)

PanicExplained == (pc = "panicked" => ListKillsExport) /\ (Survived => ~ListKillsExport)

StakingInv ==
    /\ SetElected /\ ListApplied /\ ListParsed /\ PanicExplained
    /\ result.validators \subseteq lastVals

(* The phases before the list is applied.                                  *)
Early == {"commission", "rewards", "validators", "delegations",
          "redelegations", "unbondings"}

LEMMA InitStakingInv == Init => StakingInv
<1> SUFFICES ASSUME Init PROVE StakingInv
  OBVIOUS
<1>1. /\ pc = "start" /\ result.validators = {}
      /\ powerIndex = {v \in Vals : ~jailed[v]}
      /\ lastVals = Electable(powerIndex)
      /\ \A v \in Vals : status[v] = "bonded" <=> v \in lastVals
  BY DEF Init, InitControl, InitStaking, NoResult
<1>2. ListApplied
  BY <1>1 DEF ListApplied, Judged, Reached
<1> QED BY <1>1, <1>2 DEF StakingInv, SetElected, ListParsed, PanicExplained, Survived

(* A turn without a fault stays in its loop.                               *)
LEMMA TurnStays ==
    ASSUME IInv, IInv', Turn
    PROVE  pc' = pc /\ i' = i + 1 /\ i \in Nat
  BY DEF Turn, IInv, RecordsHeld, WorkOK

(* The loops over the distribution store and the unbondings go on, one to  *)
(* the next, and change nothing in the staking store.                      *)
EarlyActions ==
    \/ WithdrawCommission \/ WithdrawRewards \/ ClearRecords
    \/ ReinitValidator \/ ReinitDelegation \/ RestoreHeight
    \/ ResetRedelegation \/ ResetUnbonding
    \/ NextLoop /\ pc # "signing"

LEMMA EarlyStep ==
    ASSUME IInv, IInv', EarlyActions
    PROVE  /\ pc \in Early /\ pc' \in Early \cup {"bondheights"}
           /\ pc' = "bondheights" => i' = 1
           /\ UNCHANGED <<args, staking, signStart, history, result>>
<1>1. CASE WithdrawCommission \/ WithdrawRewards \/ ReinitValidator \/ ReinitDelegation
  <2>1. OnlyDistr /\ Turn /\ pc \in Early
    BY <1>1 DEF WithdrawCommission, WithdrawRewards, ReinitValidator, ReinitDelegation, Early
  <2> QED BY <2>1, TurnStays DEF OnlyDistr, Early
<1>2. CASE ClearRecords \/ RestoreHeight
  BY <1>2 DEF ClearRecords, RestoreHeight, Goto, Early
<1>3. CASE ResetRedelegation \/ ResetUnbonding
  <2>1. Turn /\ pc \in Early
    BY <1>3 DEF ResetRedelegation, ResetUnbonding, Early
  <2> QED BY <1>3, <2>1, TurnStays DEF ResetRedelegation, ResetUnbonding, Early
<1>4. CASE NextLoop /\ pc # "signing"
  BY <1>4 DEF NextLoop, EndOfLoop, Goto, OnlyControl, Early
<1> QED BY <1>1, <1>2, <1>3, <1>4 DEF EarlyActions

(* What the power index offers depends on the powers alone.                *)
LEMMA ElectionKept ==
    ASSUME power' = power, powerIndex' = powerIndex, allow' = allow
    PROVE  /\ Electable(powerIndex)' = Electable(powerIndex)
           /\ Visited(powerIndex)' = Visited(powerIndex)
           /\ ListKillsExport' <=> ListKillsExport
           /\ \A v : IsJailedByList(v)' <=> IsJailedByList(v)
<1>1. Visited(powerIndex)' = Visited(powerIndex)
  BY DEF Visited, Above, Outranks
<1> QED BY <1>1 DEF Electable, ListKillsExport, IsJailedByList

LEMMA SetElectedKept ==
    ASSUME SetElected, power' = power, powerIndex' = powerIndex, allow' = allow,
           lastVals' = lastVals, status' = status
    PROVE  SetElected'
  BY ElectionKept DEF SetElected

LEMMA EarlyStaking ==
    ASSUME IInv, IInv', StakingInv, EarlyActions
    PROVE  StakingInv'
<1>1. /\ pc \in Early /\ pc' \in Early \cup {"bondheights"}
      /\ pc' = "bondheights" => i' = 1
      /\ UNCHANGED <<args, staking, signStart, history, result>>
  BY EarlyStep
<1>2. /\ power' = power /\ powerIndex' = powerIndex /\ allow' = allow /\ forZero' = forZero
      /\ jailed' = jailed /\ lastVals' = lastVals /\ status' = status /\ result' = result
  BY <1>1 DEF args, history, staking
<1>3. SetElected'
  BY <1>2, SetElectedKept DEF StakingInv
<1>4. \A v \in Vals : ~Judged(v) /\ ~Judged(v)'
  <2>1. pc' = "bondheights" => Iterated' = NVals
    BY <1>1 DEF Iterated
  <2> QED BY <1>1, <2>1 DEF Judged, Reached, Early, Vals
<1>5. ListApplied'
  <2>1. pc # "panicked" /\ powerIndex \subseteq Vals
    BY <1>1 DEF Early, IInv, WorkOK
  <2> QED BY <1>2, <1>4, <2>1, ElectionKept DEF StakingInv, ListApplied
<1>6. ListParsed' /\ PanicExplained'
  BY <1>1, <1>2, ElectionKept DEF StakingInv, ListParsed, PanicExplained, Survived, Early
<1> QED BY <1>2, <1>3, <1>5, <1>6 DEF StakingInv

LEMMA StartStaking == ASSUME IInv, StakingInv, Start PROVE StakingInv'
<1>1. /\ pc = "start" /\ OnlyControl
      /\ pc' = IF ~forZero THEN "export"
               ELSE IF BadAddr \in allow THEN "panicked" ELSE "commission"
  BY DEF Start, Goto
<1>2. /\ power' = power /\ powerIndex' = powerIndex /\ allow' = allow /\ forZero' = forZero
      /\ jailed' = jailed /\ lastVals' = lastVals /\ status' = status /\ result' = result
      /\ skipped' = skipped
  BY <1>1 DEF OnlyControl, args, history, staking
<1>3. SetElected'
  BY <1>2, SetElectedKept DEF StakingInv
<1>4. ListApplied'
  BY <1>1, <1>2, ElectionKept DEF StakingInv, ListApplied, Judged, Reached
<1>5. ListParsed' /\ PanicExplained'
  BY <1>1, <1>2, ElectionKept
     DEF StakingInv, ListParsed, PanicExplained, Survived, ListKillsExport
<1> QED BY <1>2, <1>3, <1>4, <1>5 DEF StakingInv

(* One more validator is compared with the list.                           *)
LEMMA ResetBondHeightStaking ==
    ASSUME IInv, IInv', StakingInv, ResetBondHeight
    PROVE  StakingInv'
<1>1. /\ pc = "bondheights" /\ i =< NVals /\ Turn
      /\ jailed' = [jailed EXCEPT ![Iterated] = @ \/ IsJailedByList(Iterated)]
      /\ UNCHANGED <<args, status, powerIndex, lastVals, history, result>>
  BY DEF ResetBondHeight
<1>2. pc' = "bondheights" /\ i' = i + 1 /\ i \in Nat /\ i # 0
  BY <1>1, TurnStays DEF IInv, WorkOK
<1>3. /\ power' = power /\ powerIndex' = powerIndex /\ allow' = allow /\ forZero' = forZero
      /\ lastVals' = lastVals /\ status' = status /\ result' = result /\ skipped' = skipped
  BY <1>1 DEF args, history
<1>4. SetElected'
  BY <1>3, SetElectedKept DEF StakingInv
<1>5. /\ Iterated \in Vals
      /\ \A v \in Vals : /\ Judged(v) <=> v > Iterated
                         /\ Judged(v)' <=> v > Iterated \/ v = Iterated
  <2>1. Iterated = NVals + 1 - i /\ Iterated' = NVals - i
    BY <1>2 DEF Iterated
  <2>2. \A v \in Vals : v > NVals - i <=> v > NVals + 1 - i \/ v = NVals + 1 - i
    BY <1>2 DEF Vals
  <2>3. \A v \in Vals : /\ Judged(v) <=> v > Iterated
                        /\ Judged(v)' <=> v > Iterated'
    BY <1>1, <1>2 DEF Judged, Reached
  <2> QED BY <1>1, <1>2, <2>1, <2>2, <2>3 DEF Vals
<1>6. ASSUME NEW v \in powerIndex
      PROVE  jailed'[v] <=> Judged(v)' /\ IsJailedByList(v)
  <2>1. v \in Vals /\ jailed \in [Vals -> BOOLEAN]
    BY DEF IInv, WorkOK
  <2>2. jailed[v] <=> Judged(v) /\ IsJailedByList(v)
    BY <1>1 DEF StakingInv, ListApplied
  <2>3. CASE v = Iterated
    <3>1. jailed'[v] = (jailed[v] \/ IsJailedByList(v))
      BY <1>1, <2>1, <2>3
    <3>2. ~Judged(v) /\ Judged(v)'
      <4>1. ~(v > Iterated)
        BY <2>1, <2>3 DEF Vals
      <4> QED BY <1>5, <2>1, <2>3, <4>1
    <3> QED BY <2>2, <3>1, <3>2
  <2>4. CASE v # Iterated
    <3>1. jailed'[v] = jailed[v]
      BY <1>1, <2>1, <2>4
    <3>2. Judged(v)' <=> Judged(v)
      BY <1>5, <2>1, <2>4
    <3> QED BY <2>2, <3>1, <3>2
  <2> QED BY <2>3, <2>4
<1>7. ListApplied'
  BY <1>3, <1>6, ElectionKept DEF ListApplied
<1>8. ListParsed' /\ PanicExplained'
  BY <1>1, <1>2, <1>3, ElectionKept DEF StakingInv, ListParsed, PanicExplained, Survived
<1> QED BY <1>3, <1>4, <1>7, <1>8 DEF StakingInv

LEMMA CloseIteratorStaking ==
    ASSUME IInv, StakingInv, CloseIterator
    PROVE  StakingInv'
<1>1. /\ pc = "bondheights" /\ i > NVals
      /\ \/ pc' = "valset" /\ skipped' = skipped
         \/ pc' = "export" /\ skipped' = TRUE
      /\ UNCHANGED <<args, staking, result>>
  BY DEF CloseIterator, Goto
<1>2. /\ power' = power /\ powerIndex' = powerIndex /\ allow' = allow /\ forZero' = forZero
      /\ jailed' = jailed /\ lastVals' = lastVals /\ status' = status /\ result' = result
  BY <1>1 DEF args, history, staking
<1>3. forZero
  BY <1>1 DEF StakingInv, ListParsed
<1>4. SetElected'
  BY <1>2, SetElectedKept DEF StakingInv
<1>5. \A v \in Vals : Judged(v) /\ Judged(v)'
  <2>1. \A v \in Vals : v > Iterated
    BY <1>1 DEF Iterated, Vals, IInv, WorkOK
  <2> QED BY <1>1, <1>2, <1>3, <2>1 DEF Judged, Reached
<1>6. ListApplied'
  <2>1. powerIndex \subseteq Vals
    BY DEF IInv, WorkOK
  <2> QED BY <1>1, <1>2, <1>5, <2>1, ElectionKept DEF StakingInv, ListApplied
<1>7. ListParsed' /\ PanicExplained'
  BY <1>1, <1>2, ElectionKept DEF StakingInv, ListParsed, PanicExplained, Survived
<1> QED BY <1>2, <1>4, <1>6, <1>7 DEF StakingInv

(* Computing the set again finds the stored one, or a jailed validator     *)
(* that the list omits.                                                    *)
LEMMA SetFoundAgain ==
    ASSUME IInv, StakingInv, ApplyValidatorSetUpdates
    PROVE  /\ lastVals' = lastVals /\ status' = status
           /\ pc' = "signing" => unbondHeight' = unbondHeight
<1>1. CASE \E v \in Visited(powerIndex) : jailed[v]
  BY <1>1 DEF ApplyValidatorSetUpdates, Goto
<1>2. CASE ~ \E v \in Visited(powerIndex) : jailed[v]
  <2> DEFINE bonded == Electable(powerIndex)
             leaving == lastVals \ bonded
  <2>1. /\ lastVals' = bonded
        /\ status' = [v \in Vals |-> IF v \in bonded THEN "bonded"
                         ELSE IF v \in leaving THEN "unbonding" ELSE status[v]]
        /\ unbondHeight' = [v \in Vals |->
                IF v \in leaving THEN ctxHeight ELSE unbondHeight[v]]
    BY <1>2 DEF ApplyValidatorSetUpdates
  <2>2. bonded = lastVals /\ leaving = {}
    BY DEF StakingInv, SetElected
  <2>3. \A v \in Vals : v \in bonded => status[v] = "bonded"
    BY <2>2 DEF StakingInv, SetElected
  <2>4. /\ status \in [Vals -> {"bonded", "unbonding", "unbonded"}]
        /\ unbondHeight \in [Vals -> Heights]
    BY DEF IInv, WorkOK
  <2> HIDE DEF bonded, leaving
  <2> QED BY <2>1, <2>2, <2>3, <2>4
<1> QED BY <1>1, <1>2

LEMMA ApplyStaking ==
    ASSUME IInv, StakingInv, ApplyValidatorSetUpdates
    PROVE  StakingInv'
<1>1. /\ pc = "valset" /\ UNCHANGED <<args, jailed, powerIndex, history, result>>
      /\ IF \E v \in Visited(powerIndex) : jailed[v] THEN pc' = "panicked"
                                                     ELSE pc' = "signing"
  BY DEF ApplyValidatorSetUpdates, Goto
<1>2. /\ power' = power /\ powerIndex' = powerIndex /\ allow' = allow /\ forZero' = forZero
      /\ jailed' = jailed /\ result' = result
      /\ lastVals' = lastVals /\ status' = status
  BY <1>1, SetFoundAgain DEF args, history
<1>3. forZero /\ BadAddr \notin allow
  BY <1>1 DEF StakingInv, ListParsed
<1>4. SetElected'
  BY <1>2, SetElectedKept DEF StakingInv
<1>5. \A v : Judged(v) /\ (pc' = "signing" => Judged(v)')
  BY <1>1 DEF Judged, Reached
<1>6. \A v \in powerIndex : jailed[v] <=> IsJailedByList(v)
  BY <1>1, <1>5 DEF StakingInv, ListApplied
<1>7. ListApplied'
  BY <1>1, <1>2, <1>5, <1>6, ElectionKept DEF ListApplied
<1>8. ListKillsExport <=> \E v \in Visited(powerIndex) : jailed[v]
  <2>1. \A v \in Visited(powerIndex) : v \in powerIndex
    BY DEF Visited
  <2> QED BY <1>3, <1>6, <2>1 DEF ListKillsExport, IsJailedByList
<1>9. ListParsed' /\ PanicExplained'
  BY <1>1, <1>2, <1>3, <1>8, ElectionKept DEF ListParsed, PanicExplained, Survived
<1> QED BY <1>2, <1>4, <1>7, <1>9 DEF StakingInv

LEMMA SigningStaking ==
    ASSUME IInv, IInv', StakingInv, ResetSigningInfo \/ (NextLoop /\ pc = "signing")
    PROVE  StakingInv'
<1>1. /\ pc = "signing" /\ pc' \in {"signing", "export"}
      /\ UNCHANGED <<args, staking, skipped, result>>
  <2>1. CASE ResetSigningInfo
    BY <2>1, TurnStays DEF ResetSigningInfo
  <2>2. CASE NextLoop /\ pc = "signing"
    BY <2>2 DEF NextLoop, EndOfLoop, Goto, OnlyControl, history
  <2> QED BY <2>1, <2>2
<1>2. /\ power' = power /\ powerIndex' = powerIndex /\ allow' = allow /\ forZero' = forZero
      /\ jailed' = jailed /\ lastVals' = lastVals /\ status' = status /\ result' = result
      /\ skipped' = skipped
  BY <1>1 DEF args, history, staking
<1>3. forZero
  BY <1>1 DEF StakingInv, ListParsed
<1>4. SetElected'
  BY <1>2, SetElectedKept DEF StakingInv
<1>5. \A v : Judged(v) /\ Judged(v)'
  BY <1>1, <1>2, <1>3 DEF Judged, Reached
<1>6. ListApplied'
  BY <1>1, <1>2, <1>5, ElectionKept DEF StakingInv, ListApplied
<1>7. ListParsed' /\ PanicExplained'
  BY <1>1, <1>2, <1>3, ElectionKept DEF StakingInv, ListParsed, PanicExplained, Survived
<1> QED BY <1>2, <1>4, <1>6, <1>7 DEF StakingInv

LEMMA ExportStaking == ASSUME IInv, StakingInv, Export PROVE StakingInv'
<1>1. /\ pc = "export" /\ pc' = "returned" /\ UNCHANGED <<args, staking, history>>
  BY DEF Export, Goto
<1>2. /\ power' = power /\ powerIndex' = powerIndex /\ allow' = allow /\ forZero' = forZero
      /\ jailed' = jailed /\ lastVals' = lastVals /\ status' = status /\ skipped' = skipped
  BY <1>1 DEF args, history, staking
<1>3. result'.validators \subseteq lastVals
  BY DEF Export, ListedBeforeError
<1>4. SetElected'
  BY <1>2, SetElectedKept DEF StakingInv
<1>5. ListApplied'
  BY <1>1, <1>2, ElectionKept DEF StakingInv, ListApplied, Judged, Reached
<1>6. ListParsed' /\ PanicExplained'
  BY <1>1, <1>2, ElectionKept DEF StakingInv, ListParsed, PanicExplained, Survived
<1> QED BY <1>2, <1>3, <1>4, <1>5, <1>6 DEF StakingInv

LEMMA StutterStaking == ASSUME StakingInv, UNCHANGED work PROVE StakingInv'
<1>1. /\ pc' = pc /\ i' = i /\ skipped' = skipped
      /\ power' = power /\ powerIndex' = powerIndex /\ allow' = allow /\ forZero' = forZero
      /\ jailed' = jailed /\ lastVals' = lastVals /\ status' = status /\ result' = result
  BY DEF work, args, history, staking
<1>2. SetElected'
  BY <1>1, SetElectedKept DEF StakingInv
<1>3. ListApplied'
  BY <1>1, ElectionKept DEF StakingInv, ListApplied, Judged, Reached, Iterated
<1>4. ListParsed' /\ PanicExplained'
  BY <1>1, ElectionKept DEF StakingInv, ListParsed, PanicExplained, Survived
<1> QED BY <1>1, <1>2, <1>3, <1>4 DEF StakingInv

LEMMA StakingStep == ASSUME IInv, IInv', StakingInv, [Next]_vars PROVE StakingInv'
<1>1. CASE EarlyActions BY <1>1, EarlyStaking
<1>2. CASE Start BY <1>2, StartStaking
<1>3. CASE ResetBondHeight BY <1>3, ResetBondHeightStaking
<1>4. CASE CloseIterator BY <1>4, CloseIteratorStaking
<1>5. CASE ApplyValidatorSetUpdates BY <1>5, ApplyStaking
<1>6. CASE ResetSigningInfo \/ (NextLoop /\ pc = "signing") BY <1>6, SigningStaking
<1>7. CASE Export BY <1>7, ExportStaking
<1>8. CASE UNCHANGED work BY <1>8, StutterStaking
<1> QED BY <1>1, <1>2, <1>3, <1>4, <1>5, <1>6, <1>7, <1>8
        DEF Next, Step, Stopped, PanicOnError, vars, EarlyActions

(* The set and the statuses are what they were after every step.           *)
LEMMA SetKeptStep ==
    ASSUME IInv, IInv', StakingInv, [Next]_vars
    PROVE  lastVals' = lastVals /\ status' = status
<1>1. CASE EarlyActions BY <1>1, EarlyStep DEF staking
<1>2. CASE Start BY <1>2 DEF Start, OnlyControl, staking
<1>3. CASE ResetBondHeight BY <1>3 DEF ResetBondHeight
<1>4. CASE CloseIterator BY <1>4 DEF CloseIterator, staking
<1>5. CASE ApplyValidatorSetUpdates BY <1>5, SetFoundAgain
<1>6. CASE ResetSigningInfo BY <1>6 DEF ResetSigningInfo, staking
<1>7. CASE NextLoop BY <1>7 DEF NextLoop, EndOfLoop, OnlyControl, staking
<1>8. CASE Export BY <1>8 DEF Export, staking
<1>9. CASE UNCHANGED work BY <1>9 DEF work, staking
<1> QED BY <1>1, <1>2, <1>3, <1>4, <1>5, <1>6, <1>7, <1>8, <1>9
        DEF Next, Step, Stopped, PanicOnError, vars, EarlyActions
----------------------------------------------------------------------------
(* Where a step leads, and what each of the loops may write.               *)
Leads(from, turns, to) == pc = from /\ i > turns /\ pc' = to

TurnTaken ==
    \/ WithdrawCommission \/ WithdrawRewards \/ ReinitValidator \/ ReinitDelegation
    \/ ResetRedelegation \/ ResetUnbonding \/ ResetBondHeight \/ ResetSigningInfo

Flow ==
    \/ UNCHANGED work
    \/ pc' = pc /\ i' = i + 1 /\ TurnTaken
    \/ /\ i' = 1
       /\ \/ pc = "start" /\ ~forZero /\ pc' = "export"
          \/ pc = "start" /\ forZero /\ pc' \in {"commission", "panicked"}
          \/ Leads("commission", NVals, "rewards")
          \/ Leads("rewards", NDels, "validators") /\ ctxHeight' = 0
          \/ Leads("validators", NVals, "delegations")
          \/ Leads("delegations", NDels, "redelegations")
          \/ Leads("redelegations", NReds, "unbondings")
          \/ Leads("unbondings", NUbds, "bondheights")
          \/ Leads("bondheights", NVals, "valset")
          \/ Leads("bondheights", NVals, "export") /\ skipped'
          \/ pc = "valset" /\ pc' \in {"panicked", "signing"}
          \/ Leads("signing", NVals, "export")
          \/ pc = "export" /\ pc' = "returned"

Writes ==
    /\ books' = books \/ pc \in {"commission", "rewards"} \/ ReinitValidator \/ ReinitDelegation
    /\ records' = records \/ pc = "rewards" \/ ReinitValidator \/ ReinitDelegation
    /\ ctxHeight' = ctxHeight \/ ClearRecords \/ RestoreHeight
    /\ redHeights' = redHeights \/ ResetRedelegation
    /\ ubdHeights' = ubdHeights \/ ResetUnbonding
    /\ unbondHeight' = unbondHeight \/ ResetBondHeight \/ pc' = "panicked"
    /\ (signStart' = signStart /\ unwritten' = unwritten) \/ ResetSigningInfo
    /\ forZero' = forZero /\ (skipped' = skipped \/ pc = "bondheights")

LEMMA StepFlow ==
    ASSUME IInv, IInv', StakingInv, [Next]_vars
    PROVE  Flow /\ Writes
<1>1. CASE Start
  BY <1>1 DEF Start, Goto, OnlyControl, Flow, Writes, args, history, distr, staking, unbondings
<1>2. CASE NextLoop
  BY <1>2 DEF NextLoop, EndOfLoop, Goto, OnlyControl, Flow, Leads, Writes,
              args, history, distr, staking, unbondings
<1>3. CASE WithdrawCommission \/ WithdrawRewards \/ ReinitValidator \/ ReinitDelegation
  <2>1. OnlyDistr /\ Turn
    BY <1>3 DEF WithdrawCommission, WithdrawRewards, ReinitValidator, ReinitDelegation
  <2>2. pc' = pc /\ i' = i + 1
    BY <2>1, TurnStays
  <2>3. Writes
    BY <1>3, <2>1 DEF WithdrawCommission, WithdrawRewards, OnlyDistr, Writes,
                      args, history, staking, unbondings
  <2> QED BY <1>3, <2>2, <2>3 DEF Flow, TurnTaken
<1>4. CASE ClearRecords \/ RestoreHeight
  BY <1>4 DEF ClearRecords, RestoreHeight, Goto, Flow, Leads, Writes,
              args, history, distr, staking, unbondings
<1>5. CASE ResetRedelegation \/ ResetUnbonding
  <2>1. pc' = pc /\ i' = i + 1
    BY <1>5, TurnStays DEF ResetRedelegation, ResetUnbonding
  <2>2. Writes
    BY <1>5 DEF ResetRedelegation, ResetUnbonding, Writes, args, history, distr, staking
  <2> QED BY <1>5, <2>1, <2>2 DEF Flow, TurnTaken
<1>6. CASE ResetBondHeight
  <2>1. pc' = pc /\ i' = i + 1
    BY <1>6, TurnStays DEF ResetBondHeight
  <2>2. Writes
    BY <1>6 DEF ResetBondHeight, Writes, args, history, distr, unbondings
  <2> QED BY <1>6, <2>1, <2>2 DEF Flow, TurnTaken
<1>7. CASE CloseIterator
  BY <1>7 DEF CloseIterator, Goto, Flow, Leads, Writes, args, history, distr, staking, unbondings
<1>8. CASE ApplyValidatorSetUpdates
  <2>1. pc' = "signing" => unbondHeight' = unbondHeight
    BY <1>8, SetFoundAgain
  <2>2. pc = "valset" /\ pc' \in {"panicked", "signing"} /\ i' = 1
    BY <1>8 DEF ApplyValidatorSetUpdates, Goto
  <2> QED BY <1>8, <2>1, <2>2
          DEF ApplyValidatorSetUpdates, Flow, Writes, args, history, distr, unbondings
<1>9. CASE ResetSigningInfo
  <2>1. pc' = pc /\ i' = i + 1
    BY <1>9, TurnStays DEF ResetSigningInfo
  <2>2. Writes
    BY <1>9 DEF ResetSigningInfo, Writes, args, history, distr, staking, unbondings
  <2> QED BY <1>9, <2>1, <2>2 DEF Flow, TurnTaken
<1>10. CASE Export
  BY <1>10 DEF Export, Goto, Flow, Writes, args, history, distr, staking, unbondings
<1>11. CASE UNCHANGED work
  BY <1>11 DEF work, Flow, Writes, args, history, distr, staking, unbondings
<1> QED BY <1>1, <1>2, <1>3, <1>4, <1>5, <1>6, <1>7, <1>8, <1>9, <1>10, <1>11
        DEF Next, Step, Stopped, PanicOnError, vars
----------------------------------------------------------------------------
(* The heights of the old chain.                                           *)
AfterDelegations == {"redelegations", "unbondings", "bondheights", "valset", "signing"}
AfterRedelegations == AfterDelegations \ {"redelegations"}
AfterUnbondings == AfterRedelegations \ {"unbondings"}

(* The loop has had its k-th turn, or is behind the procedure.             *)
Done(loop, later, k) == (pc = loop /\ k < i) \/ Reached(later)

DelegationsAtZero ==
    \A d \in Dels : Done("delegations", AfterDelegations, d) => records.height[d] = 0

RedelegationsAtZero ==
    \A r \in 1 .. NReds : Done("redelegations", AfterRedelegations, r) =>
        \A e \in Entries : redHeights[r][e] = 0

UnbondingsAtZero ==
    \A u \in 1 .. NUbds : Done("unbondings", AfterUnbondings, u) =>
        \A e \in Entries : ubdHeights[u][e] = 0

ValidatorsAtZero == \A v \in Vals : Judged(v) => unbondHeight[v] = 0

(* The signing info of v begins at zero, or it could not be written.       *)
SigningReset(v) == signStart[v] = 0 \/ v \in unwritten

SigningAtZero ==
    /\ pc = "signing" => \A v \in Vals : v < i => SigningReset(v)
    /\ pc \in {"export", "returned"} /\ forZero /\ ~skipped => \A v \in Vals : SigningReset(v)

ContextAtZero == pc \in {"validators", "delegations"} => ctxHeight = 0

HeightsInv ==
    /\ ContextAtZero /\ DelegationsAtZero /\ RedelegationsAtZero
    /\ UnbondingsAtZero /\ ValidatorsAtZero /\ SigningAtZero

LEMMA InitHeightsInv == Init => HeightsInv
<1> SUFFICES ASSUME Init PROVE HeightsInv
  OBVIOUS
<1>1. pc = "start"
  BY DEF Init, InitControl
<1>2. \A later : "start" \notin later => ~Reached(later)
  BY <1>1 DEF Reached
<1>3. /\ ~Reached(AfterDelegations) /\ ~Reached(AfterRedelegations)
      /\ ~Reached(AfterUnbondings) /\ ~Reached({"valset", "signing"})
  BY <1>2 DEF AfterDelegations, AfterRedelegations, AfterUnbondings
<1> QED BY <1>1, <1>3
        DEF HeightsInv, ContextAtZero, DelegationsAtZero, RedelegationsAtZero,
            UnbondingsAtZero, ValidatorsAtZero, SigningAtZero, Done, Judged

(* The later phases are entered from the loop, once it has ended.          *)
Entered(loop, turns, later) ==
    Reached(later)' => Reached(later) \/ (pc = loop /\ i > turns)

LEMMA LoopsEnd ==
    ASSUME Flow, Writes
    PROVE  /\ Entered("validators", NVals, {"delegations"} \cup AfterDelegations)
           /\ Entered("delegations", NDels, AfterDelegations)
           /\ Entered("redelegations", NReds, AfterRedelegations)
           /\ Entered("unbondings", NUbds, AfterUnbondings)
           /\ Entered("bondheights", NVals, {"valset", "signing"})
<1>1. forZero' = forZero
  BY DEF Writes
<1>2. CASE pc' = pc
  BY <1>1, <1>2 DEF Entered, Reached
<1>3. CASE pc' # pc
  <2>1. \/ pc = "start" /\ ~forZero /\ pc' = "export"
        \/ pc = "start" /\ forZero /\ pc' \in {"commission", "panicked"}
        \/ Leads("commission", NVals, "rewards")
        \/ Leads("rewards", NDels, "validators")
        \/ Leads("validators", NVals, "delegations")
        \/ Leads("delegations", NDels, "redelegations")
        \/ Leads("redelegations", NReds, "unbondings")
        \/ Leads("unbondings", NUbds, "bondheights")
        \/ Leads("bondheights", NVals, "valset")
        \/ Leads("bondheights", NVals, "export")
        \/ pc = "valset" /\ pc' \in {"panicked", "signing"}
        \/ Leads("signing", NVals, "export")
        \/ pc = "export" /\ pc' = "returned"
    BY <1>3 DEF Flow, work
  <2>2. AfterDelegations = {"redelegations", "unbondings", "bondheights", "valset", "signing"}
    BY DEF AfterDelegations
  <2>3. AfterRedelegations = {"unbondings", "bondheights", "valset", "signing"}
    BY DEF AfterRedelegations, AfterDelegations
  <2>4. AfterUnbondings = {"bondheights", "valset", "signing"}
    BY <2>3 DEF AfterUnbondings
  <2>5. Entered("validators", NVals, {"delegations"} \cup AfterDelegations)
    BY <1>1, <2>1, <2>2 DEF Entered, Reached, Leads
  <2>6. Entered("delegations", NDels, AfterDelegations)
    BY <1>1, <2>1, <2>2 DEF Entered, Reached, Leads
  <2>7. Entered("redelegations", NReds, AfterRedelegations)
    BY <1>1, <2>1, <2>3 DEF Entered, Reached, Leads
  <2>8. Entered("unbondings", NUbds, AfterUnbondings)
    BY <1>1, <2>1, <2>4 DEF Entered, Reached, Leads
  <2>9. Entered("bondheights", NVals, {"valset", "signing"})
    BY <1>1, <2>1 DEF Entered, Reached, Leads
  <2> QED BY <2>5, <2>6, <2>7, <2>8, <2>9
<1> QED BY <1>2, <1>3

(* What is done after a step was done before it, or its turn has just been *)
(* taken.                                                                  *)
LEMMA DoneBefore ==
    ASSUME NEW loop, NEW later, NEW turns \in Nat, Entered(loop, turns, later),
           IInv, Flow,
           NEW k \in 1 .. turns, Done(loop, later, k)'
    PROVE  Done(loop, later, k) \/ (pc = loop /\ pc' = loop /\ k = i)
<1>1. i \in Nat
  BY DEF IInv, WorkOK
<1>2. CASE Reached(later)'
  BY <1>1, <1>2 DEF Entered, Done
<1>3. CASE pc' = loop /\ k < i'
  <2>1. i' # 1
    BY <1>3
  <2>2. pc' = pc /\ i' \in {i, i + 1}
    BY <2>1 DEF Flow, work
  <2> QED BY <1>1, <1>3, <2>2 DEF Done
<1> QED BY <1>2, <1>3 DEF Done

(* The new starting info of a delegation bears the height of the context.  *)
LEMMA ResetDelegationHeight ==
    ASSUME NEW R \in RecordsState, NEW d \in Dels
    PROVE  DelegationReset(R, d).height = [R.height EXCEPT ![d] = ctxHeight]
<1> DEFINE E == EndPeriod(R, ValOf[d])
<1>1. E.height = R.height /\ DOMAIN E = DOMAIN R
  BY DEF EndPeriod, SetHistoricalRewards, DecrementReferenceCount, RecordsState
<1> HIDE DEF E
<1>2. DelegationReset(R, d) = InitializeDelegation(E, d, ctxHeight)
  BY DEF DelegationReset, E
<1> QED BY <1>1, <1>2
        DEF InitializeDelegation, SetStartingInfo, IncrementReferenceCount, RecordsState

LEMMA DelegationsAtZeroStep ==
    ASSUME IInv, HeightsInv, Flow, Writes
    PROVE  DelegationsAtZero'
<1> SUFFICES ASSUME NEW d \in Dels, Done("delegations", AfterDelegations, d)'
             PROVE  records'.height[d] = 0
  BY DEF DelegationsAtZero
<1>1. Done("delegations", AfterDelegations, d) \/ (pc = "delegations" /\ pc' = pc /\ d = i)
  <2>1. Entered("delegations", NDels, AfterDelegations)
    BY LoopsEnd
  <2>2. d \in 1 .. NDels /\ NDels \in Nat
    BY DEF Dels
  <2> QED BY <2>1, <2>2, DoneBefore
<1>2. records \in RecordsState /\ i \in Nat
  BY DEF IInv, WorkOK
<1>3. CASE ReinitDelegation
  <2>1. pc = "delegations" /\ i \in Dels /\ records' = DelegationReset(records, i)
    BY <1>2, <1>3 DEF ReinitDelegation, IInv, WorkOK, Dels
  <2>2. records'.height = [records.height EXCEPT ![i] = 0]
    BY <1>2, <2>1, ResetDelegationHeight DEF HeightsInv, ContextAtZero
  <2>3. d # i => records.height[d] = 0
    BY <1>1 DEF HeightsInv, DelegationsAtZero
  <2> QED BY <1>2, <2>1, <2>2, <2>3 DEF RecordsState
<1>4. CASE ~ReinitDelegation
  <2>1. Done("delegations", AfterDelegations, d)
    <3> SUFFICES ASSUME pc = "delegations", pc' = pc, d = i,
                        ~Done("delegations", AfterDelegations, d)
                 PROVE  FALSE
      BY <1>1
    <3>1. ~(i < i)
      BY <1>2
    <3>2. i' # i
      BY <3>1 DEF Done, Reached, Writes
    <3>3. TurnTaken
      BY <3>2 DEF Flow, work, Leads
    <3> QED BY <1>4, <3>3 DEF TurnTaken, WithdrawCommission, WithdrawRewards, ReinitValidator,
               ResetRedelegation, ResetUnbonding, ResetBondHeight, ResetSigningInfo
  <2>2. records'.height = records.height
    <3>1. pc # "rewards" /\ ~ReinitValidator
      BY <2>1 DEF Done, Reached, AfterDelegations, ReinitValidator
    <3> QED BY <1>4, <3>1 DEF Writes
  <2> QED BY <2>1, <2>2 DEF HeightsInv, DelegationsAtZero
<1> QED BY <1>3, <1>4

(* A turn of a loop whose phase stays is the turn of that loop.            *)
LEMMA TurnOfLoop ==
    ASSUME IInv, Flow, pc' = pc, ~(UNCHANGED work), pc \in Phases
    PROVE  /\ i' = i + 1
           /\ pc = "delegations" => ReinitDelegation
           /\ pc = "redelegations" => ResetRedelegation
           /\ pc = "unbondings" => ResetUnbonding
           /\ pc = "bondheights" => ResetBondHeight
           /\ pc = "signing" => ResetSigningInfo
           /\ pc = "validators" => ReinitValidator
           /\ pc \notin {"export", "returned"}
<1>1. i' = i + 1 /\ TurnTaken
  BY DEF Flow, Leads
<1> QED BY <1>1 DEF TurnTaken, WithdrawCommission, WithdrawRewards, ReinitValidator,
       ReinitDelegation, ResetRedelegation, ResetUnbonding, ResetBondHeight, ResetSigningInfo

LEMMA StutterDone ==
    ASSUME UNCHANGED work, NEW loop, NEW later, NEW k
    PROVE  Done(loop, later, k)' <=> Done(loop, later, k)
  BY DEF work, args, history, Done, Reached

LEMMA RedelegationsAtZeroStep ==
    ASSUME IInv, HeightsInv, Flow, Writes
    PROVE  RedelegationsAtZero'
<1> SUFFICES ASSUME NEW r \in 1 .. NReds, Done("redelegations", AfterRedelegations, r)',
                    NEW e \in Entries
             PROVE  redHeights'[r][e] = 0
  BY DEF RedelegationsAtZero
<1>1. Done("redelegations", AfterRedelegations, r)
        \/ (pc = "redelegations" /\ pc' = pc /\ r = i)
  BY LoopsEnd, DoneBefore, CountsAssumption
<1>2. redHeights \in [1 .. NReds -> [Entries -> Heights]] /\ i \in Nat \ {0} /\ pc \in Phases
  BY DEF IInv, WorkOK
<1>3. CASE ResetRedelegation
  <2>1. i \in 1 .. NReds /\ redHeights' = [redHeights EXCEPT ![i] = EntriesReset(@)]
    BY <1>2, <1>3 DEF ResetRedelegation
  <2>2. pc = "redelegations"
    BY <1>3 DEF ResetRedelegation
  <2>3. CASE r = i
    BY <1>2, <2>1, <2>3 DEF EntriesReset
  <2>4. CASE r # i
    <3>1. redHeights[r][e] = 0
      BY <1>1, <2>4 DEF HeightsInv, RedelegationsAtZero
    <3> QED BY <1>2, <2>1, <2>4, <3>1
  <2> QED BY <2>3, <2>4
<1>4. CASE ~ResetRedelegation
  <2>1. redHeights' = redHeights
    BY <1>4 DEF Writes
  <2>2. Done("redelegations", AfterRedelegations, r)
    BY <1>1, <1>2, <1>4, TurnOfLoop, StutterDone
  <2> QED BY <2>1, <2>2 DEF HeightsInv, RedelegationsAtZero
<1> QED BY <1>3, <1>4

LEMMA UnbondingsAtZeroStep ==
    ASSUME IInv, HeightsInv, Flow, Writes
    PROVE  UnbondingsAtZero'
<1> SUFFICES ASSUME NEW u \in 1 .. NUbds, Done("unbondings", AfterUnbondings, u)',
                    NEW e \in Entries
             PROVE  ubdHeights'[u][e] = 0
  BY DEF UnbondingsAtZero
<1>1. Done("unbondings", AfterUnbondings, u) \/ (pc = "unbondings" /\ pc' = pc /\ u = i)
  BY LoopsEnd, DoneBefore, CountsAssumption
<1>2. ubdHeights \in [1 .. NUbds -> [Entries -> Heights]] /\ i \in Nat \ {0} /\ pc \in Phases
  BY DEF IInv, WorkOK
<1>3. CASE ResetUnbonding
  <2>1. i \in 1 .. NUbds /\ ubdHeights' = [ubdHeights EXCEPT ![i] = EntriesReset(@)]
    BY <1>2, <1>3 DEF ResetUnbonding
  <2>2. CASE u = i
    BY <1>2, <2>1, <2>2 DEF EntriesReset
  <2>3. CASE u # i
    <3>1. ubdHeights[u][e] = 0
      BY <1>1, <2>3 DEF HeightsInv, UnbondingsAtZero
    <3> QED BY <1>2, <2>1, <2>3, <3>1
  <2> QED BY <2>2, <2>3
<1>4. CASE ~ResetUnbonding
  <2>1. ubdHeights' = ubdHeights
    BY <1>4 DEF Writes
  <2>2. Done("unbondings", AfterUnbondings, u)
    BY <1>1, <1>2, <1>4, TurnOfLoop, StutterDone
  <2> QED BY <2>1, <2>2 DEF HeightsInv, UnbondingsAtZero
<1> QED BY <1>3, <1>4

(* The loop over the validators runs by falling address: its k-th turn is  *)
(* that of validator NVals + 1 - k.                                        *)
LEMMA JudgedInTurn ==
    ASSUME i \in Nat, NEW v \in Vals
    PROVE  /\ NVals + 1 - v \in 1 .. NVals
           /\ Judged(v) <=> Done("bondheights", {"valset", "signing"}, NVals + 1 - v)
<1>1. v > NVals + 1 - i <=> NVals + 1 - v < i
  BY DEF Vals
<1> QED BY <1>1 DEF Vals, Judged, Done, Iterated

LEMMA ValidatorsAtZeroStep ==
    ASSUME IInv, IInv', HeightsInv, Flow, Writes
    PROVE  ValidatorsAtZero'
<1> SUFFICES ASSUME NEW v \in Vals, Judged(v)'
             PROVE  unbondHeight'[v] = 0
  BY DEF ValidatorsAtZero
<1> DEFINE k == NVals + 1 - v
<1>1. k \in 1 .. NVals /\ (Judged(v) <=> Done("bondheights", {"valset", "signing"}, k))
  BY JudgedInTurn DEF IInv, WorkOK
<1>2. Judged(v)' <=> Done("bondheights", {"valset", "signing"}, k)'
  <2>1. i' \in Nat
    BY DEF IInv, WorkOK
  <2>2. \A j \in Nat : v > NVals + 1 - j <=> NVals + 1 - v < j
    BY DEF Vals
  <2>3. v > NVals + 1 - i' <=> k < i'
    BY <2>1, <2>2
  <2> QED BY <2>3 DEF Judged, Done, Iterated
<1>3. Judged(v) \/ (pc = "bondheights" /\ pc' = pc /\ k = i)
  <2> HIDE DEF k
  <2> QED BY <1>1, <1>2, LoopsEnd, DoneBefore
<1>4. unbondHeight \in [Vals -> Heights] /\ i \in Nat \ {0} /\ pc \in Phases
  BY DEF IInv, WorkOK
<1>5. CASE ResetBondHeight
  <2>1. Iterated \in Vals /\ unbondHeight' = [unbondHeight EXCEPT ![Iterated] = 0]
    BY <1>4, <1>5 DEF ResetBondHeight, Iterated, Vals
  <2>2. k = i => v = Iterated
    BY <1>4 DEF Vals, Iterated
  <2>3. CASE v = Iterated
    BY <1>4, <2>1, <2>3
  <2>4. CASE v # Iterated
    <3>1. unbondHeight[v] = 0
      BY <1>3, <2>2, <2>4 DEF HeightsInv, ValidatorsAtZero
    <3> QED BY <1>4, <2>1, <2>4, <3>1
  <2> QED BY <2>3, <2>4
<1>6. CASE ~ResetBondHeight
  <2>1. pc' # "panicked"
    BY DEF Judged, Reached
  <2>2. unbondHeight' = unbondHeight
    BY <1>6, <2>1 DEF Writes
  <2>3. Judged(v)
    <3> HIDE DEF k
    <3>1. CASE UNCHANGED work
      BY <1>1, <1>2, <3>1, StutterDone
    <3>2. CASE ~(UNCHANGED work)
      BY <1>3, <1>4, <1>6, <3>2, TurnOfLoop
    <3> QED BY <3>1, <3>2
  <2> QED BY <2>2, <2>3 DEF HeightsInv, ValidatorsAtZero
<1> QED BY <1>5, <1>6

LEMMA SigningAtZeroStep ==
    ASSUME IInv, IInv', HeightsInv, Flow, Writes
    PROVE  SigningAtZero'
<1>1. /\ signStart \in [Vals -> Heights] /\ i \in Nat \ {0} /\ pc \in Phases
      /\ forZero \in BOOLEAN /\ skipped \in BOOLEAN
  BY DEF IInv, WorkOK
<1>2. CASE ResetSigningInfo
  <2>1. /\ pc = "signing" /\ i \in Vals
        /\ \/ signStart' = [signStart EXCEPT ![i] = 0] /\ unwritten' = unwritten
           \/ unwritten' = unwritten \cup {i} /\ signStart' = signStart
    BY <1>1, <1>2 DEF ResetSigningInfo, Vals
  <2>2. pc' = "signing" /\ i' = i + 1
    BY <1>2, <2>1, TurnStays DEF ResetSigningInfo
  <2>3. \A v \in Vals : v < i + 1 => v = i \/ v < i
    BY <1>1 DEF Vals
  <2>4. \A v \in Vals : v < i => SigningReset(v)
    BY <2>1 DEF HeightsInv, SigningAtZero
  <2>5. \A v \in Vals : v < i + 1 => SigningReset(v)'
    BY <1>1, <2>1, <2>3, <2>4 DEF SigningReset
  <2> QED BY <2>2, <2>5 DEF SigningAtZero
<1>3. CASE ~ResetSigningInfo
  <2>1. \A v : SigningReset(v)' <=> SigningReset(v)
    BY <1>3 DEF Writes, SigningReset
  <2>2. CASE pc' = "signing"
    <3>1. UNCHANGED work \/ i' = 1
      BY <1>1, <1>3, <2>2, TurnOfLoop DEF Flow, Leads
    <3>2. CASE UNCHANGED work
      BY <2>1, <2>2, <3>2 DEF work, HeightsInv, SigningAtZero
    <3>3. CASE i' = 1
      <4>1. \A v \in Vals : ~(v < 1)
        BY DEF Vals
      <4> QED BY <2>2, <3>3, <4>1 DEF SigningAtZero
    <3> QED BY <3>1, <3>2, <3>3
  <2>3. CASE pc' \in {"export", "returned"} /\ forZero' /\ ~skipped'
    <3>1. forZero /\ (pc = "bondheights" \/ ~skipped)
      BY <2>3 DEF Writes
    <3>2. CASE pc = "signing"
      <4>1. i > NVals /\ ~skipped
        BY <1>1, <2>3, <3>1, <3>2, TurnOfLoop DEF Flow, Leads, work
      <4>2. \A v \in Vals : v < i
        BY <1>1, <4>1 DEF Vals
      <4> QED BY <2>1, <2>3, <3>2, <4>2 DEF HeightsInv, SigningAtZero
    <3>3. CASE pc \in {"export", "returned"}
      BY <2>1, <2>3, <3>1, <3>3 DEF HeightsInv, SigningAtZero
    <3>4. pc \in {"signing", "export", "returned"}
      <4>1. CASE pc' = pc
        BY <2>3, <4>1
      <4>2. CASE pc' # pc
        BY <2>3, <3>1, <4>2 DEF Flow, Leads, work
      <4> QED BY <4>1, <4>2
    <3> QED BY <3>2, <3>3, <3>4
  <2> QED BY <2>1, <2>2, <2>3 DEF SigningAtZero
<1> QED BY <1>2, <1>3

LEMMA ContextAtZeroStep ==
    ASSUME IInv, HeightsInv, Flow, Writes
    PROVE  ContextAtZero'
<1>1. CASE UNCHANGED work
  BY <1>1 DEF work, HeightsInv, ContextAtZero
<1>2. CASE ~(UNCHANGED work) /\ pc' \in {"validators", "delegations"}
  BY <1>2 DEF Flow, Leads, Writes, ClearRecords, RestoreHeight, Goto, HeightsInv, ContextAtZero
<1> QED BY <1>1, <1>2 DEF ContextAtZero

LEMMA HeightsStep ==
    ASSUME IInv, IInv', StakingInv, HeightsInv, [Next]_vars
    PROVE  HeightsInv'
<1>1. Flow /\ Writes
  BY StepFlow
<1> QED BY <1>1, DelegationsAtZeroStep, RedelegationsAtZeroStep, UnbondingsAtZeroStep,
           ValidatorsAtZeroStep, SigningAtZeroStep, ContextAtZeroStep DEF HeightsInv
----------------------------------------------------------------------------
(* The distribution store that goes into the genesis.                      *)

(* The loop over the validators gives what is outstanding to the community *)
(* pool, and nothing becomes outstanding after it.                         *)
AllDonated ==
    \A v \in Vals : Done("validators", {"delegations"} \cup AfterDelegations, v) =>
        books.outstanding[v] = 0

NoSlashesLeft == Reached(AfterDelegations) => \A v \in Vals : records.slashes[v] = {}

(* A validator begins in period 1, and of the delegations that are started *)
(* anew each one to it ends a period.                                      *)
PeriodsAnew ==
    \A v \in Vals : Done("validators", {"delegations"} \cup AfterDelegations, v) =>
        records.period[v] = Cardinality({d \in Live : ValOf[d] = v}) + 1

StartsAnew ==
    \A d \in Dels : Done("delegations", AfterDelegations, d) =>
        records.start[d] = Cardinality({e \in DelegationsTo(ValOf[d]) : e =< d})

GenesisInv == AllDonated /\ NoSlashesLeft /\ LedgerBalanced /\ PeriodsAnew /\ StartsAnew

LEMMA InitGenesisInv == Init => GenesisInv
<1> SUFFICES ASSUME Init PROVE GenesisInv
  OBVIOUS
<1>1. pc = "start" /\ books.unsent = 0
  BY DEF Init, InitControl, InitBooks
<1>2. /\ ~Reached(AfterDelegations) /\ ~Reached({"delegations"} \cup AfterDelegations)
  BY <1>1 DEF Reached, AfterDelegations
<1>3. LedgerBalanced
  <2>1. Unit * books.balance = SumFunction(books.outstanding) + books.pool
    BY DEF Init, InitBooks
  <2>2. books.outstanding \in [Vals -> Nat] /\ books.pool \in Nat
    BY DEF Init, InitBooks
  <2>3. SumFunction(books.outstanding) \in Int
    <3> DEFINE f == books.outstanding
    <3>1. CASE \E v : v \in Vals
      <4> HIDE DEF f
      <4> QED BY <2>2, <3>1, TotalChanges DEF f
    <3>2. CASE ~ \E v : v \in Vals
      <4> HIDE DEF f
      <4> QED BY <2>2, <3>2, TotalOfNone DEF f
    <3> QED BY <3>1, <3>2
  <2> QED BY <1>1, <2>1, <2>2, <2>3 DEF LedgerBalanced
<1> QED BY <1>1, <1>2, <1>3 DEF GenesisInv, AllDonated, NoSlashesLeft, PeriodsAnew, StartsAnew, Done

(* Moving the rewards of one validator only keeps the total in balance.    *)
LEMMA LedgerKeptBalanced ==
    ASSUME IInv, IInv', LedgerBalanced, LedgerStep
    PROVE  LedgerBalanced'
<1>1. CASE books' = books
  BY <1>1 DEF LedgerBalanced
<1>2. CASE books' # books
  <2>1. PICK v \in Vals : MovesOnly(books, books', v)
    BY <1>2 DEF LedgerStep
  <2> DEFINE f == books.outstanding
             g == books'.outstanding
             ub == Unit * books.balance
             uu == Unit * books.unsent
             vb == Unit * books'.balance
             vu == Unit * books'.unsent
  <2>2. /\ f \in [Vals -> Nat] /\ g \in [Vals -> Nat]
        /\ books.pool \in Nat /\ books'.pool \in Nat
        /\ ub \in Int /\ uu \in Int /\ vb \in Int /\ vu \in Int
    <3>1. books \in BooksState /\ books' \in BooksState
      BY DEF IInv, WorkOK
    <3>2. /\ books.balance \in Int /\ books.unsent \in Int
          /\ books'.balance \in Int /\ books'.unsent \in Int
      BY <3>1 DEF BooksState
    <3>3. /\ ub \in Int /\ uu \in Int /\ vb \in Int /\ vu \in Int
      BY <3>2
    <3> QED BY <3>1, <3>3 DEF BooksState
  <2>3. /\ \A w \in Vals \ {v} : g[w] = f[w]
        /\ vb - g[v] - books'.pool - vu = ub - f[v] - books.pool - uu
    BY <2>1 DEF MovesOnly, RestOfBooks
  <2>4. ub = SumFunction(f) + books.pool + uu
    BY DEF LedgerBalanced
  <2>5. LedgerBalanced' <=> vb = SumFunction(g) + books'.pool + vu
    BY DEF LedgerBalanced
  <2> HIDE DEF f, g, ub, uu, vb, vu
  <2>6. /\ SumFunction(f) \in Int
        /\ SumFunction(g) = SumFunction(f) + (g[v] - f[v])
    BY <2>2, <2>3, TotalChanges
  <2>7. f[v] \in Int /\ g[v] \in Int
    BY <2>2
  <2>8. vb = SumFunction(g) + books'.pool + vu
    BY <2>2, <2>3, <2>4, <2>6, <2>7
  <2> QED BY <2>5, <2>8
<1> QED BY <1>1, <1>2

(* A validator begins anew without outstanding rewards.                    *)
LEMMA ResetLeavesNone ==
    ASSUME NEW B \in BooksState, NEW v \in Vals
    PROVE  DonatedAndReset(B, v).outstanding = [B.outstanding EXCEPT ![v] = 0]
  BY DEF DonatedAndReset, CreateBooks, BooksState

(* Ending a period takes from the outstanding rewards at most the current  *)
(* ones: nothing, where nothing is outstanding.                            *)
LEMMA EndPeriodLeavesNone ==
    ASSUME NEW B \in BooksState, NEW v \in Vals, NEW b, Covered(B, v), B.outstanding[v] = 0
    PROVE  EndPeriodBooks(B, v, b).outstanding = B.outstanding
<1>1. B.current[v] = 0
  BY DEF Covered, BooksState
<1>2. EndPeriodBooks(B, v, b).outstanding = [B.outstanding EXCEPT ![v] = @ - 0]
  BY <1>1 DEF EndPeriodBooks, BooksState
<1> QED BY <1>2 DEF BooksState

LEMMA AllDonatedStep ==
    ASSUME IInv, AllDonated, Flow, Writes
    PROVE  AllDonated'
<1> DEFINE later == {"delegations"} \cup AfterDelegations
<1> SUFFICES ASSUME NEW v \in Vals, Done("validators", later, v)'
             PROVE  books'.outstanding[v] = 0
  BY DEF AllDonated
<1>1. Done("validators", later, v) \/ (pc = "validators" /\ pc' = pc /\ v = i)
  <2>1. Entered("validators", NVals, later)
    BY LoopsEnd
  <2>2. v \in 1 .. NVals /\ NVals \in Nat
    BY DEF Vals
  <2> HIDE DEF later
  <2> QED BY <2>1, <2>2, DoneBefore
<1>2. books \in BooksState /\ i \in Nat \ {0} /\ pc \in Phases
  BY DEF IInv, WorkOK
<1>3. CASE ReinitValidator
  <2>1. i \in Vals /\ books'.outstanding = [books.outstanding EXCEPT ![i] = 0]
    BY <1>2, <1>3, ResetLeavesNone DEF ReinitValidator, Vals
  <2>2. v # i => books.outstanding[v] = 0
    BY <1>1 DEF AllDonated
  <2> QED BY <1>2, <2>1, <2>2 DEF BooksState
<1>4. CASE ReinitDelegation
  <2>1. pc = "delegations" /\ i \in Dels /\ ValOf[i] \in Vals
    BY <1>2, <1>4 DEF ReinitDelegation, Dels
  <2>2. \A w \in Vals : books.outstanding[w] = 0
    BY <2>1 DEF AllDonated, Done, Reached
  <2>3. Covered(books, ValOf[i])
    BY <2>1 DEF IInv, BooksCovered
  <2>4. books'.outstanding = books.outstanding
    BY <1>2, <1>4, <2>1, <2>2, <2>3, EndPeriodLeavesNone DEF ReinitDelegation
  <2> QED BY <2>2, <2>4
<1>5. CASE ~ReinitValidator /\ ~ReinitDelegation
  <2>1. Done("validators", later, v)
    <3> HIDE DEF later
    <3>1. CASE UNCHANGED work
      BY <3>1, StutterDone
    <3>2. CASE ~(UNCHANGED work)
      BY <1>1, <1>2, <1>5, <3>2, TurnOfLoop
    <3> QED BY <3>1, <3>2
  <2>2. books' = books
    <3>1. pc \notin {"commission", "rewards"}
      BY <2>1 DEF Done, Reached, AfterDelegations
    <3> QED BY <1>5, <3>1 DEF Writes
  <2> QED BY <2>1, <2>2 DEF AllDonated
<1> QED BY <1>3, <1>4, <1>5

LEMMA NoSlashesLeftStep ==
    ASSUME IInv, NoSlashesLeft, Flow, Writes
    PROVE  NoSlashesLeft'
<1> SUFFICES ASSUME Reached(AfterDelegations)'
             PROVE  \A v \in Vals : records'.slashes[v] = {}
  BY DEF NoSlashesLeft
<1>1. Reached(AfterDelegations) \/ (pc = "delegations" /\ i > NDels)
  BY LoopsEnd DEF Entered
<1>2. \A v \in Vals : records.slashes[v] = {}
  BY <1>1 DEF NoSlashesLeft, IInv, SlashesGone
<1>3. records' = records
  <2>1. pc # "rewards" /\ ~ReinitValidator
    BY <1>1 DEF Reached, AfterDelegations, ReinitValidator
  <2>2. ~ReinitDelegation
    BY <1>1 DEF Reached, AfterDelegations, ReinitDelegation, IInv, WorkOK
  <2> QED BY <2>1, <2>2 DEF Writes
<1> QED BY <1>2, <1>3

(* What the two hooks write of periods and starts.                         *)
LEMMA ResetPeriods ==
    ASSUME NEW R \in RecordsState, NEW v \in Vals
    PROVE  /\ RecordsReset(R, v).period = [R.period EXCEPT ![v] = 1]
           /\ RecordsReset(R, v).start = R.start
  BY DEF RecordsReset, CreateRecords, RecordsState

LEMMA ResetDelegationPeriods ==
    ASSUME NEW R \in RecordsState, NEW d \in Dels
    PROVE  /\ DelegationReset(R, d).period = [R.period EXCEPT ![ValOf[d]] = @ + 1]
           /\ DelegationReset(R, d).start = [R.start EXCEPT ![d] = R.period[ValOf[d]]]
<1> DEFINE E == EndPeriod(R, ValOf[d])
<1>1. /\ E.period = [R.period EXCEPT ![ValOf[d]] = @ + 1] /\ E.start = R.start
      /\ DOMAIN E = DOMAIN R
  BY DEF EndPeriod, SetHistoricalRewards, DecrementReferenceCount, RecordsState
<1>2. E.period[ValOf[d]] - 1 = R.period[ValOf[d]]
  <2>1. ValOf[d] \in Vals /\ R.period \in [Vals -> Nat]
    BY DEF RecordsState
  <2> HIDE DEF E
  <2> QED BY <1>1, <2>1
<1> HIDE DEF E
<1>3. DelegationReset(R, d) = InitializeDelegation(E, d, ctxHeight)
  BY DEF DelegationReset, E
<1>4. /\ InitializeDelegation(E, d, ctxHeight).period = E.period
      /\ InitializeDelegation(E, d, ctxHeight).start
             = [E.start EXCEPT ![d] = E.period[ValOf[d]] - 1]
  BY <1>1 DEF InitializeDelegation, SetStartingInfo, IncrementReferenceCount, RecordsState
<1> QED BY <1>1, <1>2, <1>3, <1>4

LEMMA DelegationsFinite == \A S \in SUBSET Dels : IsFiniteSet(S) /\ Cardinality(S) \in Nat
<1>1. IsFiniteSet(Dels)
  BY FS_Interval DEF Dels
<1> QED BY <1>1, FS_Subset, FS_CardinalityType

(* Behind its turns, a step of no other loop starts a delegation anew, and *)
(* a step out of the loops leaves those that are started.                  *)
LEMMA LiveKept ==
    ASSUME IInv, Flow, Writes, ~ReinitValidator, ~ReinitDelegation, NEW v \in Vals,
           Done("validators", {"delegations"} \cup AfterDelegations, v)'
    PROVE  /\ Done("validators", {"delegations"} \cup AfterDelegations, v)
           /\ Live' = Live /\ records' = records
<1> DEFINE later == {"delegations"} \cup AfterDelegations
<1>0. i \in Nat \ {0} /\ pc \in Phases
  BY DEF IInv, WorkOK
<1>d. Done("validators", later, v)'
  OBVIOUS
<1>1. Done("validators", later, v) \/ (pc = "validators" /\ pc' = pc /\ v = i)
  <2>1. Entered("validators", NVals, later)
    BY LoopsEnd
  <2>2. v \in 1 .. NVals /\ NVals \in Nat
    BY DEF Vals
  <2> HIDE DEF later
  <2> QED BY <1>d, <2>1, <2>2, DoneBefore
<1>2. Done("validators", later, v)
  <2> HIDE DEF later
  <2>1. CASE UNCHANGED work
    BY <1>d, <2>1, StutterDone
  <2>2. CASE ~(UNCHANGED work)
    BY <1>0, <1>1, <2>2, TurnOfLoop
  <2> QED BY <2>1, <2>2
<1>3. records' = records
  <2>1. pc # "rewards"
    BY <1>2 DEF Done, Reached, AfterDelegations
  <2> QED BY <2>1 DEF Writes
<1>4. Live' = Live
  <2>1. CASE UNCHANGED work
    BY <2>1 DEF work, Live, IsLive
  <2>2. CASE ~(UNCHANGED work) /\ pc' = pc
    <3>1. pc \notin {"validators", "delegations"}
      BY <1>0, <2>2, TurnOfLoop
    <3> QED BY <2>2, <3>1 DEF Live, IsLive
  <2>3. CASE pc' # pc /\ pc = "validators"
    <3>1. pc' = "delegations" /\ i' = 1
      BY <2>3 DEF Flow, Leads, work
    <3>2. \A d \in Dels : ~(d < 1)
      BY DEF Dels
    <3> QED BY <2>3, <3>1, <3>2 DEF Live, IsLive
  <2>4. CASE pc' # pc /\ pc = "delegations"
    <3>1. pc' = "redelegations" /\ i > NDels
      BY <2>4 DEF Flow, Leads, work
    <3>2. \A d \in Dels : d < i
      BY <1>0, <3>1 DEF Dels
    <3> QED BY <2>4, <3>1, <3>2 DEF Live, IsLive
  <2>5. CASE pc' # pc /\ pc \notin {"validators", "delegations"}
    <3>1. pc # "rewards"
      BY <1>2 DEF Done, Reached, AfterDelegations
    <3>2. pc' \notin {"validators", "delegations"}
      BY <2>5, <3>1 DEF Flow, Leads, work
    <3> QED BY <2>5, <3>2, LiveAll DEF Live, IsLive
  <2> QED BY <2>1, <2>2, <2>3, <2>4, <2>5
<1> QED BY <1>2, <1>3, <1>4

LEMMA PeriodsAnewStep ==
    ASSUME IInv, IInv', PeriodsAnew, Flow, Writes
    PROVE  PeriodsAnew'
<1> DEFINE later == {"delegations"} \cup AfterDelegations
<1> SUFFICES ASSUME NEW v \in Vals, Done("validators", later, v)'
             PROVE  records'.period[v] = Cardinality({d \in Live' : ValOf[d] = v}) + 1
  BY DEF PeriodsAnew
<1>0. records \in RecordsState /\ i \in Nat \ {0} /\ NVals \in Nat
  BY DEF IInv, WorkOK
<1>1. CASE ReinitValidator
  <2>1. pc = "validators" /\ i \in Vals /\ records' = RecordsReset(records, i)
    BY <1>0, <1>1 DEF ReinitValidator, Vals
  <2>2. pc' = pc /\ i' = i + 1
    BY <1>1, TurnStays DEF ReinitValidator
  <2>3. Live = {} /\ Live' = {}
    BY <2>1, <2>2 DEF Live, IsLive
  <2>4. /\ Cardinality({d \in Live : ValOf[d] = v}) = 0
        /\ Cardinality({d \in Live' : ValOf[d] = v}) = 0
    <3>1. {d \in Live : ValOf[d] = v} = {} /\ {d \in Live' : ValOf[d] = v} = {}
      BY <2>3
    <3> QED BY <3>1, FS_EmptySet
  <2>5. records'.period = [records.period EXCEPT ![i] = 1]
    BY <1>0, <2>1, ResetPeriods
  <2>6. CASE v = i
    <3>1. records'.period[v] = 1
      BY <1>0, <2>1, <2>5, <2>6 DEF RecordsState
    <3> QED BY <2>4, <3>1
  <2>7. CASE v # i
    <3>1. v < i
      <4>1. v < i'
        BY <2>1, <2>2 DEF Done, Reached, AfterDelegations
      <4> QED BY <1>0, <2>2, <2>7, <4>1 DEF Vals
    <3>2. records.period[v] = 1
      BY <2>1, <2>4, <3>1 DEF PeriodsAnew, Done
    <3>3. records'.period[v] = 1
      BY <1>0, <2>1, <2>5, <2>7, <3>2 DEF RecordsState
    <3> QED BY <2>4, <3>3
  <2> QED BY <2>6, <2>7
<1>2. CASE ReinitDelegation
  <2>1. pc = "delegations" /\ i \in Dels /\ records' = DelegationReset(records, i)
    BY <1>0, <1>2 DEF ReinitDelegation, Dels
  <2>2. pc' = pc /\ i' = i + 1
    BY <1>2, TurnStays DEF ReinitDelegation
  <2>3. Live = {d \in Dels : d < i} /\ Live' = Live \cup {i} /\ i \notin Live
    BY <1>0, <2>1, <2>2 DEF Live, IsLive, Dels
  <2> DEFINE before == {d \in Live : ValOf[d] = v}
  <2>4. records.period[v] = Cardinality(before) + 1
    BY <2>1 DEF PeriodsAnew, Done, Reached
  <2>5. records'.period = [records.period EXCEPT ![ValOf[i]] = @ + 1]
    BY <1>0, <2>1, ResetDelegationPeriods
  <2>6. IsFiniteSet(before) /\ Cardinality(before) \in Nat
    BY <2>3, DelegationsFinite
  <2>7. CASE ValOf[i] = v
    <3>1. {d \in Live' : ValOf[d] = v} = before \cup {i} /\ i \notin before
      BY <2>3, <2>7
    <3>2. Cardinality(before \cup {i}) = Cardinality(before) + 1
      <4> HIDE DEF before
      <4> QED BY <2>6, <3>1, FS_AddElement
    <3>3. records'.period[v] = records.period[v] + 1
      BY <1>0, <2>5, <2>7 DEF RecordsState
    <3> QED BY <2>4, <3>1, <3>2, <3>3
  <2>8. CASE ValOf[i] # v
    <3>1. {d \in Live' : ValOf[d] = v} = before
      BY <2>3, <2>8
    <3>2. records'.period[v] = records.period[v]
      BY <1>0, <2>1, <2>5, <2>8 DEF RecordsState
    <3> QED BY <2>4, <3>1, <3>2
  <2> QED BY <2>7, <2>8
<1>3. CASE ~ReinitValidator /\ ~ReinitDelegation
  BY <1>3, LiveKept DEF PeriodsAnew
<1> QED BY <1>1, <1>2, <1>3

LEMMA StartsAnewStep ==
    ASSUME IInv, IInv', PeriodsAnew, StartsAnew, Flow, Writes
    PROVE  StartsAnew'
<1> SUFFICES ASSUME NEW d \in Dels, Done("delegations", AfterDelegations, d)'
             PROVE  records'.start[d] = Cardinality({e \in DelegationsTo(ValOf[d]) : e =< d})
  BY DEF StartsAnew, DelegationsTo
<1>1. Done("delegations", AfterDelegations, d) \/ (pc = "delegations" /\ pc' = pc /\ d = i)
  <2>1. Entered("delegations", NDels, AfterDelegations)
    BY LoopsEnd
  <2>2. d \in 1 .. NDels /\ NDels \in Nat
    BY DEF Dels
  <2> QED BY <2>1, <2>2, DoneBefore
<1>2. records \in RecordsState /\ i \in Nat \ {0} /\ pc \in Phases
  BY DEF IInv, WorkOK
<1>3. CASE ReinitDelegation
  <2>1. pc = "delegations" /\ i \in Dels /\ records' = DelegationReset(records, i)
    BY <1>2, <1>3 DEF ReinitDelegation, Dels
  <2>2. records'.start = [records.start EXCEPT ![i] = records.period[ValOf[i]]]
    BY <1>2, <2>1, ResetDelegationPeriods
  <2>3. CASE d # i
    <3>1. Done("delegations", AfterDelegations, d)
      BY <1>1, <2>3
    <3> QED BY <1>2, <2>1, <2>2, <2>3, <3>1 DEF StartsAnew, RecordsState
  <2>4. CASE d = i
    <3> DEFINE before == {e \in Live : ValOf[e] = ValOf[d]}
    <3>1. Live = {e \in Dels : e < i} /\ ValOf[d] \in Vals
      BY <2>1 DEF Live, IsLive
    <3>2. records.period[ValOf[d]] = Cardinality(before) + 1
      BY <2>1, <3>1 DEF PeriodsAnew, Done, Reached
    <3>3. IsFiniteSet(before) /\ d \notin before
      BY <2>4, <3>1, DelegationsFinite DEF Dels
    <3>4. {e \in DelegationsTo(ValOf[d]) : e =< d} = before \cup {d}
      BY <2>4, <3>1 DEF DelegationsTo, Dels
    <3> HIDE DEF before
    <3>5. Cardinality(before \cup {d}) = Cardinality(before) + 1
      BY <3>3, FS_AddElement
    <3> QED BY <1>2, <2>1, <2>2, <2>4, <3>2, <3>4, <3>5 DEF RecordsState
  <2> QED BY <2>3, <2>4
<1>4. CASE ~ReinitDelegation
  <2>1. Done("delegations", AfterDelegations, d)
    <3>1. CASE UNCHANGED work
      BY <3>1, StutterDone
    <3>2. CASE ~(UNCHANGED work)
      BY <1>1, <1>2, <1>4, <3>2, TurnOfLoop
    <3> QED BY <3>1, <3>2
  <2>2. records' = records
    <3>1. pc # "rewards" /\ ~ReinitValidator
      BY <2>1 DEF Done, Reached, AfterDelegations, ReinitValidator
    <3> QED BY <1>4, <3>1 DEF Writes
  <2> QED BY <2>1, <2>2 DEF StartsAnew
<1> QED BY <1>3, <1>4

LEMMA GenesisStep ==
    ASSUME IInv, IInv', StakingInv, GenesisInv, [Next]_vars
    PROVE  GenesisInv'
<1>1. Flow /\ Writes
  BY StepFlow
<1>2. LedgerStep
  BY NextStep
<1> QED BY <1>1, <1>2, AllDonatedStep, NoSlashesLeftStep, LedgerKeptBalanced, PeriodsAnewStep,
           StartsAnewStep DEF GenesisInv

----------------------------------------------------------------------------
(* The theorems.                                                           *)

FullInv == IInv /\ StakingInv /\ HeightsInv /\ GenesisInv

LEMMA Inductive == Spec => []FullInv
<1>1. Init => FullInv
  BY InitIInv, InitStakingInv, InitHeightsInv, InitGenesisInv DEF FullInv
<1>2. FullInv /\ [Next]_vars => FullInv'
  BY NextStep, StakingStep, HeightsStep, GenesisStep DEF FullInv
<1> QED BY <1>1, <1>2, PTL DEF Spec

(* The stores that export.go rewrites keep their shape through the export. *)
THEOREM TypeCorrect == Spec => []TypeOK
<1>1. FullInv /\ failed \in BOOLEAN => TypeOK
  BY DEF FullInv, IInv, TypeOK
<1>2. Init => failed \in BOOLEAN
  BY DEF Init, InitControl
<1>3. failed \in BOOLEAN /\ [Next]_vars => (failed \in BOOLEAN)'
  BY DEF Next, Step, Stopped, PanicOnError, vars, Alive, Goto, Turn, Start,
         NextLoop, EndOfLoop, WithdrawCommission, WithdrawRewards, ClearRecords,
         ReinitValidator, ReinitDelegation, RestoreHeight, ResetRedelegation,
         ResetUnbonding, ResetBondHeight, CloseIterator, ApplyValidatorSetUpdates,
         ResetSigningInfo, Export
<1> QED BY <1>1, <1>2, <1>3, Inductive, PTL DEF Spec

(* prepForZeroHeightGenesis never makes the distribution keeper panic on a *)
(* reference count, whichever withdrawals fail on the way.                 *)
THEOREM NoKeeperPanic == Spec => []NoFault
<1>1. FullInv => NoFault
  BY DEF FullInv, IInv, RecordsHeld, NoFault
<1> QED BY <1>1, Inductive, PTL

(* No two delegations initialised so far start in the same period of their *)
(* validator: export.go:158 ends a period for each of them.                *)
THEOREM StartsStayDistinct == Spec => []StartsDistinct
<1>1. FullInv => StartsDistinct
  <2> SUFFICES ASSUME IInv, NEW d \in Live, NEW e \in Live, ValOf[d] = ValOf[e],
                      records.start[d] = records.start[e]
               PROVE  d = e
    BY DEF FullInv, StartsDistinct, StartsApart
  <2>1. ValOf[d] \in Vals
    BY DEF Live
  <2>2. HasRecords(ValOf[d])
    BY DEF Live, IsLive, HasRecords
  <2>3. Held(records, Live, ValOf[d])
    BY <2>1, <2>2 DEF IInv, RecordsHeld
  <2> QED BY <2>3 DEF Held
<1> QED BY <1>1, Inductive, PTL

(* A record of distribution history is referenced exactly by its holders:  *)
(* the current period, delegations that start there, and slash events.     *)
THEOREM RefCountsStayMatched == Spec => []RefCountsMatch
<1>1. FullInv => RefCountsMatch
  <2> SUFFICES ASSUME IInv, NEW v \in Vals, NEW p \in Periods
               PROVE  records.refs[v][p] = IF HasRecords(v) THEN Holders(v, p) ELSE 0
    BY DEF FullInv, RefCountsMatch
  <2> DEFINE starting == {d \in Live : ValOf[d] = v /\ records.start[d] = p}
  <2>1. CASE ~HasRecords(v)
    BY <2>1 DEF IInv, RecordsHeld
  <2>2. CASE HasRecords(v)
    <3>1. Held(records, Live, v)
      BY <2>2 DEF IInv, RecordsHeld
    <3>2. records.refs[v][p] = ReferencesTo(records, Live, v, p)
      BY <3>1 DEF Held
    <3>3. Cardinality(starting) =
              IF \E d \in Live : ValOf[d] = v /\ records.start[d] = p THEN 1 ELSE 0
      <4>1. CASE \E d \in Live : ValOf[d] = v /\ records.start[d] = p
        <5>1. PICK d \in Live : ValOf[d] = v /\ records.start[d] = p
          BY <4>1
        <5>2. starting = {d}
          BY <3>1, <5>1 DEF Held
        <5> HIDE DEF starting
        <5> QED BY <4>1, <5>2, FS_Singleton
      <4>2. CASE ~ \E d \in Live : ValOf[d] = v /\ records.start[d] = p
        <5>1. starting = {}
          BY <4>2
        <5> HIDE DEF starting
        <5> QED BY <4>2, <5>1, FS_EmptySet
      <4> QED BY <4>1, <4>2
    <3>4. Holders(v, p) = Cardinality(starting)
              + (IF p \in records.slashes[v] THEN 1 ELSE 0)
              + (IF p = records.period[v] - 1 THEN 1 ELSE 0)
      BY DEF Holders
    <3> HIDE DEF starting
    <3> QED BY <2>2, <3>2, <3>3, <3>4 DEF ReferencesTo
  <2> QED BY <2>1, <2>2
<1> QED BY <1>1, Inductive, PTL

(* What a step of the export takes from a validator's rewards it pays,     *)
(* pools or, the bank having refused, writes off: nothing else is lost.    *)
THEOREM BooksStayBalanced == Spec => StepsBalanceBooks
<1>1. FullInv /\ [Next]_vars => [LedgerStep]_vars
  BY NextStep DEF FullInv
<1> QED BY <1>1, Inductive, PTL DEF Spec, StepsBalanceBooks

(* Apart from calls that fail, a zero height export dies only of its allow *)
(* list, and it never returns, preparation complete, with a list that      *)
(* omits a validator that the power index offers.                          *)
THEOREM ListDecides == Spec => []ListDecidesExport
<1>1. FullInv => ListDecidesExport
  BY DEF FullInv, StakingInv, PanicExplained, Survived, ListParsed, ListDecidesExport
<1> QED BY <1>1, Inductive, PTL

(* Whoever is returned as a validator of the new chain, beside an error or *)
(* not, is bonded, and jailed only by the list, in a preparation that was  *)
(* cut short.                                                              *)
THEOREM ValidatorsCanSign == Spec => []ExportedCanSign
<1>1. FullInv => ExportedCanSign
  <2> SUFFICES ASSUME IInv, StakingInv, pc = "returned",
                      NEW v \in result.validators
               PROVE  status[v] = "bonded" /\ (jailed[v] => skipped /\ IsJailedByList(v))
    BY DEF FullInv, ExportedCanSign
  <2>1. v \in lastVals /\ v \in Vals
    BY DEF StakingInv, IInv, WorkOK
  <2>2. v \in Visited(powerIndex) /\ v \in powerIndex
    BY <2>1 DEF StakingInv, SetElected, Electable, Visited
  <2>3. jailed[v] <=> forZero /\ IsJailedByList(v)
    BY <2>2 DEF StakingInv, ListApplied, Judged, Reached
  <2>4. forZero /\ ~skipped => ~ListKillsExport
    BY DEF StakingInv, PanicExplained, Survived
  <2>5. jailed[v] => skipped /\ IsJailedByList(v)
    BY <2>2, <2>3, <2>4 DEF ListKillsExport, IsJailedByList
  <2> QED BY <2>1, <2>5 DEF StakingInv, SetElected
<1> QED BY <1>1, Inductive, PTL

(* Computing the set again elects the validators that were bonded.         *)
THEOREM SetStaysElected == Spec => ValidatorSetKept
<1>1. FullInv /\ [Next]_vars => [lastVals' = lastVals /\ status' = status]_vars
  BY NextStep, SetKeptStep DEF FullInv
<1> QED BY <1>1, Inductive, PTL DEF Spec, ValidatorSetKept

(* Delegations, entries and validators of a genesis at height zero all     *)
(* begin at zero, also if the preparation was cut short, and of the        *)
(* signing infos all that were reached and could be written.               *)
THEOREM HeightsStartAtZero == Spec => []HeightsReset
<1>1. FullInv => HeightsReset
  <2> SUFFICES ASSUME HeightsInv, pc \in {"export", "returned"}, forZero
               PROVE  HeightsReset
    BY DEF FullInv, HeightsReset
  <2>1. \A later : Reached(later)
    BY DEF Reached
  <2>2. /\ \A d \in Dels : records.height[d] = 0
        /\ \A v \in Vals : unbondHeight[v] = 0
        /\ \A r \in 1 .. NReds, e \in Entries : redHeights[r][e] = 0
        /\ \A u \in 1 .. NUbds, e \in Entries : ubdHeights[u][e] = 0
    BY <2>1 DEF HeightsInv, DelegationsAtZero, RedelegationsAtZero, UnbondingsAtZero,
                ValidatorsAtZero, Done, Judged
  <2>3. \A v \in Vals : signStart[v] = 0 \/ skipped \/ v \in unwritten
    BY DEF HeightsInv, SigningAtZero, SigningReset
  <2> QED BY <2>2, <2>3 DEF HeightsReset
<1> QED BY <1>1, Inductive, PTL

(* The coins of the distribution module are the outstanding rewards of all *)
(* validators, the community pool and the commission written off.          *)
THEOREM LedgerStaysBalanced == Spec => []LedgerBalanced
<1>1. FullInv => LedgerBalanced
  BY DEF FullInv, GenesisInv
<1> QED BY <1>1, Inductive, PTL

(* The exported distribution store has no slash events and no outstanding  *)
(* rewards, and its periods and starts are a function of the delegations:  *)
(* the n-th to a validator starts in its recorded period n.                *)
THEOREM DistrGenesisStaysValid == Spec => []DistrGenesisValid
<1>1. FullInv => DistrGenesisValid
  <2> SUFFICES ASSUME IInv, GenesisInv, pc \in {"export", "returned"}, forZero
               PROVE  /\ \A v \in Vals : records.slashes[v] = {} /\ books.outstanding[v] = 0
                      /\ \A v \in Vals :
                            records.period[v] = Cardinality(DelegationsTo(v)) + 1
                      /\ Unit * books.balance = books.pool + Unit * books.unsent
                      /\ \A d \in Dels :
                            /\ records.start[d]
                                   = Cardinality({e \in DelegationsTo(ValOf[d]) : e =< d})
                            /\ records.refs[ValOf[d]][records.start[d]] > 0
    BY DEF FullInv, DistrGenesisValid
  <2>1. \A later : Reached(later)
    BY DEF Reached
  <2>2. \A v \in Vals : records.slashes[v] = {} /\ books.outstanding[v] = 0
    BY <2>1 DEF GenesisInv, AllDonated, NoSlashesLeft, Done
  <2>3. books \in BooksState /\ records \in RecordsState
    BY DEF IInv, WorkOK
  <2>4. Unit * books.balance = books.pool + Unit * books.unsent
    <3> DEFINE f == books.outstanding
               uu == Unit * books.unsent
    <3>1. f \in [Vals -> Nat] /\ books.pool \in Nat /\ uu \in Int /\ \A w \in Vals : f[w] = 0
      BY <2>2, <2>3 DEF BooksState
    <3>2. Unit * books.balance = SumFunction(f) + books.pool + uu
      BY DEF GenesisInv, LedgerBalanced
    <3> HIDE DEF f, uu
    <3>3. SumFunction(f) = 0
      BY <3>1, TotalOfNone
    <3>4. Unit * books.balance = books.pool + uu
      BY <3>1, <3>2, <3>3
    <3> QED BY <3>4 DEF uu
  <2>5. ASSUME NEW d \in Dels
        PROVE  records.refs[ValOf[d]][records.start[d]] > 0
    <3>1. ValOf[d] \in Vals /\ records.start[d] \in Periods
      BY <2>3 DEF RecordsState
    <3>2. Live = Dels /\ HasRecords(ValOf[d])
      BY <3>1, LiveAll
    <3>3. Held(records, Dels, ValOf[d])
      BY <3>1, <3>2 DEF IInv, RecordsHeld
    <3>4. records.refs[ValOf[d]][records.start[d]]
              = ReferencesTo(records, Dels, ValOf[d], records.start[d])
      BY <3>1, <3>3 DEF Held
    <3>5. records.start[d] < records.period[ValOf[d]]
      BY <3>3 DEF Held
    <3> QED BY <3>4, <3>5 DEF ReferencesTo
  <2>6. \A d \in Dels :
            records.start[d] = Cardinality({e \in DelegationsTo(ValOf[d]) : e =< d})
    BY <2>1 DEF GenesisInv, StartsAnew, Done
  <2>7. ASSUME NEW v \in Vals
        PROVE  records.period[v] = Cardinality(DelegationsTo(v)) + 1
    <3>1. Live = Dels
      BY LiveAll
    <3>2. records.period[v] = Cardinality({d \in Live : ValOf[d] = v}) + 1
      BY <2>1 DEF GenesisInv, PeriodsAnew, Done
    <3> QED BY <3>1, <3>2 DEF DelegationsTo
  <2> QED BY <2>2, <2>4, <2>5, <2>6, <2>7
<1> QED BY <1>1, Inductive, PTL
=============================================================================
