------------------------ MODULE InPlaceTestnetProofs ------------------------
(***************************************************************************)
(* Theorems about InPlaceTestnet, for any validators, delegations, keys,   *)
(* powers and lists of accounts, and any number of runs.                   *)
(***************************************************************************)
EXTENDS InPlaceTestnet, SdkDistributionProofs, FiniteSetTheorems

USE NValsAssumption, NDelsAssumption, ValOfAssumption, PeriodCapAssumption,
    NewPowerAssumption, PowersBelowAssumption, MaxRunsAssumption

----------------------------------------------------------------------------
(* The inductive invariant: where the command stands, and how far the      *)
(* working version has come from the committed one.                        *)
Emptying == {"power", "last", "validators", "queue", "add"}
Filling == {"records", "signing", "fund", "block"}

(* What is on disk agrees, and no reward period is below the first.        *)
OnDisk ==
    /\ IndexesAgree(committed)
    /\ PeriodsPositive(committed.records) /\ PeriodsPositive(store.records)

(* Nothing is in the working version yet, or no longer.                    *)
AtRest == pc \in {"idle", "exited", "failed", "power", "running"} => store = committed

(* The loops have deleted what the statements up to here delete; powers    *)
(* and funds are those on disk.                                            *)
Deleted ==
    pc \in Emptying =>
        /\ store.power = committed.power
        /\ pc # "power" => store.powerIndex = {}
        /\ pc \notin {"power", "last"} => store.lastVals = {}
        /\ pc \in {"queue", "add"} => store.validators = {} /\ store.jailed = {}
        /\ pc = "add" => store.queue = {}

(* The new validator is the only one that the stores know.                 *)
Alone ==
    pc \in Filling =>
        /\ store.validators = {op} /\ store.jailed = {}
        /\ store.power = [committed.power EXCEPT ![op] = NewPower]
        /\ store.powerIndex = {<<NewPower, op>>}
        /\ store.lastVals = {op} /\ store.queue = {}
        /\ store.byCons[key] = op

Signs == pc \in {"fund", "block"} => key \in store.signing \/ cause = "ignored"

(* The accounts that the loop has passed are funded, the others not.       *)
TimesBefore(n, a) == Cardinality({m \in 1 .. n - 1 : accounts[m] = a})

Funded ==
    /\ store.minted = committed.minted
    /\ pc \notin {"fund", "block"} => store.funded = committed.funded
    /\ pc = "fund" =>
        /\ k =< Len(accounts) + 1
        /\ \A m \in 1 .. k - 1 : accounts[m] \in Accounts
        /\ store.funded = [a \in Accounts |-> committed.funded[a] + Fund * TimesBefore(k, a)]
    /\ pc = "block" =>
        /\ \A m \in 1 .. Len(accounts) : accounts[m] \in Accounts
        /\ store.funded = [a \in Accounts |->
                committed.funded[a] + Fund * TimesBefore(Len(accounts) + 1, a)]

IInv ==
    /\ TypeOK /\ accounts \in Seq(Accounts \cup {EmptyString})
    /\ pc \in Emptying \cup Filling => accounts \in AccountLists
    /\ OnDisk /\ AtRest /\ Deleted /\ Alone /\ Signs /\ Funded
    /\ FirstBlockSucceeds

----------------------------------------------------------------------------
(* Stores and records before the command.                                  *)
LEMMA RecordsBeforeType ==
    ASSUME NEW period \in [Vals -> 1 .. PeriodCap], NEW start \in StartsBefore(period)
    PROVE  /\ RecordsBefore(period, start) \in RecordsState
           /\ PeriodsPositive(RecordsBefore(period, start))
<1> DEFINE refs == [v \in Vals |-> [p \in Periods |->
                      Cardinality({d \in Dels : ValOf[d] = v /\ start[d] = p})
                      + (IF p = period[v] - 1 THEN 1 ELSE 0)]]
<1>1. start \in [Dels -> Periods]
  BY DEF StartsBefore, Periods
<1>2. refs \in [Vals -> [Periods -> Int]]
  <2>1. ASSUME NEW v \in Vals, NEW p \in Periods
        PROVE  Cardinality({d \in Dels : ValOf[d] = v /\ start[d] = p}) \in Nat
    <3>1. IsFiniteSet(Dels)
      BY FS_Interval DEF Dels
    <3> QED BY <3>1, FS_Subset, FS_CardinalityType
  <2> QED BY <2>1
<1>3. period \in [Vals -> Nat] /\ \A v \in Vals : period[v] > 0
  OBVIOUS
<1>4. RecordsBefore(period, start) =
        [period |-> period, start |-> start, slashes |-> [v \in Vals |-> {}],
         refs |-> refs, height |-> [d \in Dels |-> 0], fault |-> FALSE]
  BY DEF RecordsBefore
<1> HIDE DEF refs
<1> QED BY <1>1, <1>2, <1>3, <1>4 DEF RecordsState, PeriodsPositive

LEMMA InitIInv == Init => IInv
<1> SUFFICES ASSUME Init PROVE IInv
  OBVIOUS
<1>1. PICK validators, jailed, lastVals, queue \in SUBSET Vals :
        /\ jailed \subseteq validators
        /\ lastVals # {} /\ lastVals \subseteq validators \ jailed
        /\ queue \subseteq validators \ lastVals
        /\ \E power \in [Vals -> Powers], period \in [Vals -> 1 .. PeriodCap] :
           \E start \in StartsBefore(period) :
              store = StoreBefore(validators, jailed, power, lastVals, queue,
                                  RecordsBefore(period, start))
  BY DEF Init, InitStore
<1>11. PICK power \in [Vals -> Powers], period \in [Vals -> 1 .. PeriodCap] :
           \E start \in StartsBefore(period) :
              store = StoreBefore(validators, jailed, power, lastVals, queue,
                                  RecordsBefore(period, start))
  BY <1>1
<1>12. PICK start \in StartsBefore(period) :
              store = StoreBefore(validators, jailed, power, lastVals, queue,
                                  RecordsBefore(period, start))
  BY <1>11
<1> DEFINE R == RecordsBefore(period, start)
<1>13. R \in RecordsState /\ PeriodsPositive(R)
  BY RecordsBeforeType
<1> HIDE DEF R
<1>14. store = StoreBefore(validators, jailed, power, lastVals, queue, R)
  BY <1>12 DEF R
<1>2. power \in [Vals -> Nat]
  OBVIOUS
<1>3. store.byCons \in [Keys -> Vals \cup {NoVal}]
  BY <1>14 DEF StoreBefore
<1>4. \A v \in validators : KeyOf[v] \in Keys /\ store.byCons[KeyOf[v]] = v
  BY <1>14, KeyOfAssumption DEF StoreBefore
<1>5. store \in Stores
  BY <1>1, <1>2, <1>3, <1>4, <1>13, <1>14 DEF Stores, StoreBefore
<1>6. IndexesAgree(store)
  <2>1. /\ store.validators = validators /\ store.jailed = jailed /\ store.power = power
        /\ store.powerIndex = {<<power[v], v>> : v \in validators \ jailed}
        /\ store.lastVals = lastVals /\ store.queue = queue
        /\ store.signing = {KeyOf[v] : v \in validators}
    BY <1>14 DEF StoreBefore
  <2>2. \A v \in lastVals : \E c \in store.signing : store.byCons[c] = v
    BY <1>1, <1>4, <2>1
  <2>3. store.powerIndex = {<<store.power[v], v>> : v \in store.validators \ store.jailed}
    BY <2>1
  <2>4. /\ store.lastVals \subseteq store.validators \ store.jailed
        /\ store.queue \subseteq store.validators \ store.lastVals
        /\ \A v \in store.lastVals : \E c \in store.signing : store.byCons[c] = v
    BY <1>1, <2>1, <2>2
  <2> QED BY <2>3, <2>4 DEF IndexesAgree
<1>7. PeriodsPositive(store.records)
  BY <1>13, <1>14 DEF StoreBefore
<1>8. 1 \in Vals /\ KeyOf[1] \in Keys
  <2>1. PICK v \in Vals : v \in lastVals
    BY <1>1
  <2>2. 1 \in Vals
    BY <2>1 DEF Vals
  <2> QED BY <2>2, KeyOfAssumption
<1>9. /\ pc = "idle" /\ k = 1 /\ op = 1 /\ key = KeyOf[1] /\ accounts = <<>>
      /\ committed = store /\ runs = 0 /\ cause = "none" /\ txPanic = FALSE
  BY DEF Init
<1>10. TypeOK
  <2>1. runs \in 0 .. MaxRuns /\ k \in Nat \ {0}
    BY <1>9
  <2>2. op \in Vals /\ key \in Keys /\ store \in Stores /\ committed \in Stores
    BY <1>5, <1>8, <1>9
  <2> QED BY <1>9, <2>1, <2>2 DEF TypeOK, Statements
<1> QED BY <1>6, <1>7, <1>9, <1>10 DEF IInv, OnDisk, AtRest, Deleted, Alone, Signs,
             Funded, FirstBlockSucceeds, Emptying, Filling

----------------------------------------------------------------------------
(* An error takes everything back that is not on disk.                     *)
LEMMA ExitKept ==
    ASSUME IInv, OnlyStoreOrExit, NEW why \in {"fault", "address"}, Exit(why)
    PROVE  IInv'
<1>1. /\ pc' = "exited" /\ k' = 1 /\ store' = committed /\ cause' = why
      /\ UNCHANGED <<op, key, accounts, committed, runs, txPanic>>
  BY DEF Exit, Goto, OnlyStoreOrExit, flags
<1>2. TypeOK'
  BY <1>1 DEF IInv, TypeOK, Statements
<1>3. OnDisk'
  BY <1>1 DEF IInv, OnDisk, IndexesAgree
<1> QED BY <1>1, <1>2, <1>3 DEF IInv, AtRest, Deleted, Alone, Signs, Funded,
             FirstBlockSucceeds, Emptying, Filling

(* The four loops.                                                         *)
LEMMA DeletePowerIndexStep == IInv /\ DeletePowerIndex => IInv'
<1> SUFFICES ASSUME IInv, DeletePowerIndex PROVE IInv'
  OBVIOUS
<1>1. CASE Fails
  BY <1>1, ExitKept DEF DeletePowerIndex, Fails
<1>2. CASE Continue("last") /\ store' = [store EXCEPT !.powerIndex = PowerIndexDeleted]
  <2>1. /\ pc = "power" /\ pc' = "last" /\ k' = 1
        /\ store' = [store EXCEPT !.powerIndex = {}]
        /\ UNCHANGED <<op, key, accounts, committed, runs, cause, txPanic>>
    BY <1>2 DEF DeletePowerIndex, Continue, Goto, OnlyStoreOrExit, flags, PowerIndexDeleted
  <2>2. store' \in Stores
    BY <2>1 DEF IInv, TypeOK, Stores
  <2>3. TypeOK'
    BY <2>1, <2>2 DEF IInv, TypeOK, Statements
  <2>4. /\ store'.records = store.records /\ store'.power = store.power
        /\ store'.minted = store.minted /\ store'.funded = store.funded
        /\ store'.powerIndex = {}
    BY <2>1 DEF IInv, TypeOK, Stores
  <2>5. OnDisk'
    BY <2>1, <2>4 DEF IInv, OnDisk, IndexesAgree, PeriodsPositive
  <2> QED BY <2>1, <2>3, <2>4, <2>5 DEF IInv, AtRest, Deleted, Alone, Signs, Funded,
               FirstBlockSucceeds, Emptying, Filling
<1> QED BY <1>1, <1>2 DEF DeletePowerIndex

LEMMA DeleteLastValidatorsStep == IInv /\ DeleteLastValidators => IInv'
<1> SUFFICES ASSUME IInv, DeleteLastValidators PROVE IInv'
  OBVIOUS
<1>1. CASE Fails
  BY <1>1, ExitKept DEF DeleteLastValidators, Fails
<1>2. CASE Continue("validators") /\ store' = [store EXCEPT !.lastVals = {}]
  <2>1. /\ pc = "last" /\ pc' = "validators" /\ k' = 1
        /\ store' = [store EXCEPT !.lastVals = {}]
        /\ UNCHANGED <<op, key, accounts, committed, runs, cause, txPanic>>
    BY <1>2 DEF DeleteLastValidators, Continue, Goto, OnlyStoreOrExit, flags
  <2>2. store' \in Stores
    BY <2>1 DEF IInv, TypeOK, Stores
  <2>3. TypeOK'
    BY <2>1, <2>2 DEF IInv, TypeOK, Statements
  <2>4. /\ store'.records = store.records /\ store'.power = store.power
        /\ store'.minted = store.minted /\ store'.funded = store.funded
        /\ store'.powerIndex = store.powerIndex /\ store'.lastVals = {}
    BY <2>1 DEF IInv, TypeOK, Stores
  <2>5. OnDisk'
    BY <2>1, <2>4 DEF IInv, OnDisk, IndexesAgree, PeriodsPositive
  <2> QED BY <2>1, <2>3, <2>4, <2>5 DEF IInv, AtRest, Deleted, Alone, Signs, Funded,
               FirstBlockSucceeds, Emptying, Filling
<1> QED BY <1>1, <1>2 DEF DeleteLastValidators

LEMMA DeleteValidatorsStep == IInv /\ DeleteValidators => IInv'
<1> SUFFICES ASSUME IInv, DeleteValidators PROVE IInv'
  OBVIOUS
<1>1. /\ pc = "validators" /\ pc' = "queue" /\ k' = 1
      /\ store' = [store EXCEPT !.validators = {}, !.jailed = {}]
      /\ UNCHANGED <<op, key, accounts, committed, runs, cause, txPanic>>
  BY DEF DeleteValidators, Goto, OnlyStore, OnlyStoreOrExit, flags
<1>2. store' \in Stores
  BY <1>1 DEF IInv, TypeOK, Stores
<1>3. TypeOK'
  BY <1>1, <1>2 DEF IInv, TypeOK, Statements
<1>4. /\ store'.records = store.records /\ store'.power = store.power
      /\ store'.minted = store.minted /\ store'.funded = store.funded
      /\ store'.powerIndex = store.powerIndex /\ store'.lastVals = store.lastVals
      /\ store'.validators = {} /\ store'.jailed = {}
  BY <1>1 DEF IInv, TypeOK, Stores
<1>5. OnDisk'
  BY <1>1, <1>4 DEF IInv, OnDisk, IndexesAgree, PeriodsPositive
<1> QED BY <1>1, <1>3, <1>4, <1>5 DEF IInv, AtRest, Deleted, Alone, Signs, Funded,
             FirstBlockSucceeds, Emptying, Filling

LEMMA DeleteUnbondingQueueStep == IInv /\ DeleteUnbondingQueue => IInv'
<1> SUFFICES ASSUME IInv, DeleteUnbondingQueue PROVE IInv'
  OBVIOUS
<1>1. /\ pc = "queue" /\ pc' = "add" /\ k' = 1
      /\ store' = [store EXCEPT !.queue = {}]
      /\ UNCHANGED <<op, key, accounts, committed, runs, cause, txPanic>>
  BY DEF DeleteUnbondingQueue, Goto, OnlyStore, OnlyStoreOrExit, flags, QueueDeleted
<1>2. store' \in Stores
  BY <1>1 DEF IInv, TypeOK, Stores
<1>3. TypeOK'
  BY <1>1, <1>2 DEF IInv, TypeOK, Statements
<1>4. /\ store'.records = store.records /\ store'.power = store.power
      /\ store'.minted = store.minted /\ store'.funded = store.funded
      /\ store'.powerIndex = store.powerIndex /\ store'.lastVals = store.lastVals
      /\ store'.validators = store.validators /\ store'.jailed = store.jailed
      /\ store'.queue = {}
  BY <1>1 DEF IInv, TypeOK, Stores
<1>5. OnDisk'
  BY <1>1, <1>4 DEF IInv, OnDisk, IndexesAgree, PeriodsPositive
<1> QED BY <1>1, <1>3, <1>4, <1>5 DEF IInv, AtRest, Deleted, Alone, Signs, Funded,
             FirstBlockSucceeds, Emptying, Filling

----------------------------------------------------------------------------
(* A process starts and ends.                                              *)
LEMMA InvokeStep == IInv /\ Invoke => IInv'
<1> SUFFICES ASSUME IInv, Invoke PROVE IInv'
  OBVIOUS
<1>1. /\ k' = 1 /\ store' = committed /\ runs < MaxRuns /\ runs' = runs + 1
      /\ \/ pc' = "power" /\ cause' = "none"
         \/ pc' = "exited" /\ cause' = "fault"
      /\ op' \in Vals /\ key' \in Keys /\ accounts' \in AccountLists
      /\ UNCHANGED <<committed, txPanic>>
  BY DEF Invoke, Goto, CommandArgs
<1>2. runs' \in 0 .. MaxRuns
  BY <1>1 DEF IInv, TypeOK
<1>3. TypeOK'
  BY <1>1, <1>2 DEF IInv, TypeOK, Statements
<1>4. accounts' \in Seq(Accounts \cup {EmptyString})
  BY <1>1, ListsAssumption
<1>5. OnDisk'
  BY <1>1 DEF IInv, OnDisk, IndexesAgree
<1> QED BY <1>1, <1>3, <1>4, <1>5 DEF IInv, AtRest, Deleted, Alone, Signs, Funded,
             FirstBlockSucceeds, Emptying, Filling

LEMMA KillStep == IInv /\ Kill => IInv'
<1> SUFFICES ASSUME IInv, Kill PROVE IInv'
  OBVIOUS
<1>1. /\ pc' = "idle" /\ k' = 1 /\ store' = committed
      /\ UNCHANGED <<op, key, accounts, committed, runs, cause, txPanic>>
  BY DEF Kill, Goto, OnlyStore, flags
<1>2. TypeOK'
  BY <1>1 DEF IInv, TypeOK, Statements
<1>3. OnDisk'
  BY <1>1 DEF IInv, OnDisk, IndexesAgree
<1> QED BY <1>1, <1>2, <1>3 DEF IInv, AtRest, Deleted, Alone, Signs, Funded,
             FirstBlockSucceeds, Emptying, Filling

----------------------------------------------------------------------------
(* The new validator.                                                      *)
LEMMA AddValidatorStep == IInv /\ AddValidator => IInv'
<1> SUFFICES ASSUME IInv, AddValidator PROVE IInv'
  OBVIOUS
<1>1. CASE Fails
  BY <1>1, ExitKept DEF AddValidator, Fails
<1>2. CASE /\ Continue("records")
           /\ store' = [Added(store) EXCEPT !.records = CreateRecords(@, op)]
  <2> DEFINE R == CreateRecords(store.records, op)
             validators == store.validators \cup {op}
             power == [store.power EXCEPT ![op] = NewPower]
             byCons == [store.byCons EXCEPT ![key] = op]
             powerIndex == store.powerIndex \cup {<<NewPower, op>>}
             lastVals == store.lastVals \cup {op}
  <2>1. /\ pc = "add" /\ pc' = "records" /\ k' = 1
        /\ UNCHANGED <<op, key, accounts, committed, runs, cause, txPanic>>
    BY <1>2 DEF AddValidator, Continue, Goto, OnlyStoreOrExit, flags
  <2>2. op \in Vals /\ key \in Keys /\ store \in Stores /\ store.records \in RecordsState
    BY DEF IInv, TypeOK, Stores
  <2>3. R \in RecordsState /\ PeriodsPositive(R)
    BY <2>2, CreateRecordsType, CreateRecordsPositive DEF IInv, OnDisk
  <2>4. /\ validators \in SUBSET Vals /\ power \in [Vals -> Nat]
        /\ byCons \in [Keys -> Vals \cup {NoVal}]
        /\ powerIndex \in SUBSET (Nat \X Vals) /\ lastVals \in SUBSET Vals
    BY <2>2 DEF Stores
  <2>5. byCons[key] = op
    BY <2>2 DEF Stores
  <2>6. store' = [store EXCEPT !.validators = validators, !.power = power, !.byCons = byCons,
                               !.powerIndex = powerIndex, !.lastVals = lastVals,
                               !.records = R]
    BY <1>2, <2>2 DEF Added, VotingPower, Stores
  <2>7. validators = {op} /\ powerIndex = {<<NewPower, op>>} /\ lastVals = {op}
        /\ power = [committed.power EXCEPT ![op] = NewPower]
    BY <2>1 DEF IInv, Deleted, Emptying
  <2> HIDE DEF R, validators, power, byCons, powerIndex, lastVals
  <2>8. /\ store' \in Stores
        /\ store'.validators = validators /\ store'.power = power
        /\ store'.byCons = byCons /\ store'.powerIndex = powerIndex
        /\ store'.lastVals = lastVals /\ store'.records = R
        /\ store'.jailed = store.jailed /\ store'.queue = store.queue
        /\ store'.minted = store.minted /\ store'.funded = store.funded
    BY <2>2, <2>3, <2>4, <2>6 DEF Stores
  <2>9. TypeOK'
    BY <2>1, <2>8 DEF IInv, TypeOK, Statements
  <2>10. OnDisk'
    BY <2>1, <2>3, <2>8 DEF IInv, OnDisk, IndexesAgree
  <2>11. Alone'
    BY <2>1, <2>5, <2>7, <2>8 DEF IInv, Alone, Deleted, Emptying
  <2> QED BY <2>1, <2>8, <2>9, <2>10, <2>11 DEF IInv, AtRest, Deleted, Signs, Funded,
               FirstBlockSucceeds, Emptying, Filling
<1> QED BY <1>1, <1>2 DEF AddValidator

LEMMA InitializeRecordsStep == IInv /\ InitializeRecords => IInv'
<1> SUFFICES ASSUME IInv, InitializeRecords PROVE IInv'
  OBVIOUS
<1>1. CASE Fails
  BY <1>1, ExitKept DEF InitializeRecords, Fails
<1>2. CASE Continue("signing") /\ store' = [store EXCEPT !.records = CreateRecords(@, op)]
  <2> DEFINE R == CreateRecords(store.records, op)
  <2>1. /\ pc = "records" /\ pc' = "signing" /\ k' = 1
        /\ UNCHANGED <<op, key, accounts, committed, runs, cause, txPanic>>
    BY <1>2 DEF InitializeRecords, Continue, Goto, OnlyStoreOrExit, flags
  <2>2. op \in Vals /\ store \in Stores /\ store.records \in RecordsState
    BY DEF IInv, TypeOK, Stores
  <2>3. R \in RecordsState /\ PeriodsPositive(R)
    BY <2>2, CreateRecordsType, CreateRecordsPositive DEF IInv, OnDisk
  <2>4. store' = [store EXCEPT !.records = R]
    BY <1>2, <2>2 DEF Stores
  <2> HIDE DEF R
  <2>5. /\ store' \in Stores /\ store'.records = R
        /\ store'.validators = store.validators /\ store'.power = store.power
        /\ store'.byCons = store.byCons /\ store'.powerIndex = store.powerIndex
        /\ store'.lastVals = store.lastVals
        /\ store'.jailed = store.jailed /\ store'.queue = store.queue
        /\ store'.minted = store.minted /\ store'.funded = store.funded
    BY <2>2, <2>3, <2>4 DEF Stores
  <2>6. TypeOK'
    BY <2>1, <2>5 DEF IInv, TypeOK, Statements
  <2>7. OnDisk'
    BY <2>1, <2>3, <2>5 DEF IInv, OnDisk, IndexesAgree
  <2>8. Alone'
    BY <2>1, <2>5 DEF IInv, Alone, Filling
  <2> QED BY <2>1, <2>5, <2>6, <2>7, <2>8 DEF IInv, AtRest, Deleted, Signs, Funded,
               FirstBlockSucceeds, Emptying, Filling
<1> QED BY <1>1, <1>2 DEF InitializeRecords

LEMMA SetSigningInfoStep == IInv /\ SetSigningInfo => IInv'
<1> SUFFICES ASSUME IInv, SetSigningInfo PROVE IInv'
  OBVIOUS
<1>1. /\ pc = "signing" /\ pc' = "fund" /\ k' = 1
      /\ \/ store' = [store EXCEPT !.signing = @ \cup {key}] /\ cause' = cause
         \/ cause' = "ignored" /\ store' = store
      /\ UNCHANGED <<op, key, accounts, committed, runs, txPanic>>
  BY DEF SetSigningInfo, Goto, OnlyStoreOrExit, flags
<1>2. /\ store' \in Stores
      /\ key \in store'.signing \/ cause' = "ignored"
      /\ store'.records = store.records
      /\ store'.validators = store.validators /\ store'.power = store.power
      /\ store'.byCons = store.byCons /\ store'.powerIndex = store.powerIndex
      /\ store'.lastVals = store.lastVals
      /\ store'.jailed = store.jailed /\ store'.queue = store.queue
      /\ store'.minted = store.minted /\ store'.funded = store.funded
  <2>1. CASE store' = [store EXCEPT !.signing = @ \cup {key}]
    BY <2>1 DEF IInv, TypeOK, Stores
  <2>2. CASE cause' = "ignored" /\ store' = store
    BY <2>2 DEF IInv, TypeOK
  <2> QED BY <1>1, <2>1, <2>2
<1>3. TypeOK'
  BY <1>1, <1>2 DEF IInv, TypeOK, Statements
<1>4. OnDisk'
  BY <1>1, <1>2 DEF IInv, OnDisk, IndexesAgree
<1>5. Alone'
  BY <1>1, <1>2 DEF IInv, Alone, Filling
<1>6. \A a \in Accounts : TimesBefore(1, a) = 0
  BY FS_EmptySet DEF TimesBefore
<1>7. store.funded \in [Accounts -> Nat] /\ store.funded = committed.funded
  BY <1>1 DEF IInv, TypeOK, Stores, Funded
<1>8. Funded'
  <2>1. committed.funded = [a \in Accounts |-> committed.funded[a] + Fund * TimesBefore(1, a)]
    BY <1>6, <1>7 DEF Fund
  <2>2. Len(accounts) \in Nat
    BY DEF IInv
  <2> QED BY <1>1, <1>2, <1>7, <2>1, <2>2 DEF IInv, Funded, TimesBefore
<1> QED BY <1>1, <1>2, <1>3, <1>4, <1>5, <1>8 DEF IInv, AtRest, Deleted, Signs,
             FirstBlockSucceeds, Emptying, Filling

----------------------------------------------------------------------------
(* Funds.                                                                  *)

(* One more turn counts one more of the account it funds.                  *)
LEMMA OneMoreTime ==
    ASSUME NEW n \in Nat \ {0}, NEW a
    PROVE  /\ TimesBefore(n, a) \in Nat
           /\ TimesBefore(n + 1, a) = TimesBefore(n, a) + (IF accounts[n] = a THEN 1 ELSE 0)
<1> DEFINE S == {m \in 1 .. n - 1 : accounts[m] = a}
           T == {m \in 1 .. n + 1 - 1 : accounts[m] = a}
<1>1. IsFiniteSet(S)
  <2>1. IsFiniteSet(1 .. n - 1)
    BY FS_Interval
  <2> QED BY <2>1, FS_Subset
<1>2. Cardinality(S) \in Nat
  BY <1>1, FS_CardinalityType
<1>3. CASE accounts[n] = a
  <2>1. n \notin S /\ T = S \cup {n}
    BY <1>3
  <2>2. Cardinality(T) = Cardinality(S) + 1
    BY <1>1, <2>1, FS_AddElement
  <2> QED BY <1>2, <1>3, <2>2 DEF TimesBefore
<1>4. CASE accounts[n] # a
  <2>1. T = S
    BY <1>4
  <2> QED BY <1>2, <1>4, <2>1 DEF TimesBefore
<1> QED BY <1>3, <1>4

LEMMA FundAccountStep == IInv /\ FundAccount => IInv'
<1> SUFFICES ASSUME IInv, FundAccount PROVE IInv'
  OBVIOUS
<1>1. CASE Fails \/ Exit("address")
  BY <1>1, ExitKept DEF FundAccount, Fails
<1>2. CASE /\ accounts[k] \in Accounts /\ NextAccount
           /\ store' = [store EXCEPT !.funded[accounts[k]] = @ + Fund]
  <2> DEFINE funded == [store.funded EXCEPT ![accounts[k]] = @ + Fund]
  <2>1. /\ pc = "fund" /\ pc' = "fund" /\ k' = k + 1 /\ k =< Len(accounts)
        /\ UNCHANGED <<op, key, accounts, committed, runs, cause, txPanic>>
    BY <1>2 DEF FundAccount, NextAccount, OnlyStoreOrExit, flags
  <2>2. k \in Nat \ {0} /\ Len(accounts) \in Nat /\ store \in Stores
        /\ store.funded \in [Accounts -> Nat]
    BY DEF IInv, TypeOK, Stores
  <2>3. funded \in [Accounts -> Nat]
    BY <1>2, <2>2 DEF Fund
  <2>4. store' = [store EXCEPT !.funded = funded]
    BY <1>2, <2>2 DEF Stores
  <2>5. /\ store.minted = committed.minted
        /\ \A m \in 1 .. k - 1 : accounts[m] \in Accounts
        /\ store.funded = [a \in Accounts |-> committed.funded[a] + Fund * TimesBefore(k, a)]
    BY <2>1 DEF IInv, Funded
  <2>6. committed.funded \in [Accounts -> Nat]
    BY DEF IInv, TypeOK, Stores
  <2>7. funded = [a \in Accounts |-> committed.funded[a] + Fund * TimesBefore(k + 1, a)]
    <3>1. ASSUME NEW a \in Accounts
          PROVE  funded[a] = committed.funded[a] + Fund * TimesBefore(k + 1, a)
      <4>1. /\ TimesBefore(k, a) \in Nat
            /\ TimesBefore(k + 1, a) = TimesBefore(k, a) + (IF accounts[k] = a THEN 1 ELSE 0)
        BY <2>2, OneMoreTime
      <4>2. store.funded[a] = committed.funded[a] + Fund * TimesBefore(k, a)
            /\ committed.funded[a] \in Nat
        BY <2>5, <2>6
      <4>3. funded[a] = store.funded[a] + (IF accounts[k] = a THEN 1 ELSE 0)
        BY <1>2, <2>2 DEF Fund
      <4> QED BY <4>1, <4>2, <4>3 DEF Fund
    <3> QED BY <2>3, <3>1
  <2> HIDE DEF funded
  <2>8. /\ store' \in Stores /\ store'.funded = funded
        /\ store'.records = store.records /\ store'.signing = store.signing
        /\ store'.validators = store.validators /\ store'.power = store.power
        /\ store'.byCons = store.byCons /\ store'.powerIndex = store.powerIndex
        /\ store'.lastVals = store.lastVals
        /\ store'.jailed = store.jailed /\ store'.queue = store.queue
        /\ store'.minted = store.minted
    BY <2>2, <2>3, <2>4 DEF Stores
  <2>9. TypeOK'
    BY <2>1, <2>2, <2>8 DEF IInv, TypeOK
  <2>10. OnDisk'
    BY <2>1, <2>8 DEF IInv, OnDisk, IndexesAgree
  <2>11. Alone'
    BY <2>1, <2>8 DEF IInv, Alone, Filling
  <2>12. Funded'
    <3>1. \A m \in 1 .. k + 1 - 1 : accounts[m] \in Accounts
      BY <1>2, <2>2, <2>5
    <3>2. k + 1 =< Len(accounts) + 1
      BY <2>1, <2>2
    <3>3. \A a \in Accounts : TimesBefore(k, a)' = TimesBefore(k + 1, a)
      BY <2>1 DEF TimesBefore
    <3>4. store'.funded = [a \in Accounts |-> committed'.funded[a] + Fund * TimesBefore(k, a)']
      BY <2>1, <2>7, <2>8, <3>3
    <3>5. /\ k' =< Len(accounts') + 1
          /\ \A m \in 1 .. k' - 1 : accounts'[m] \in Accounts
      <4>1. k' = k + 1 /\ accounts' = accounts
        BY <2>1
      <4>2. k' =< Len(accounts') + 1
        BY <3>2, <4>1
      <4>3. ASSUME NEW m \in 1 .. k' - 1 PROVE accounts'[m] \in Accounts
        <5>1. m \in 1 .. k + 1 - 1
          BY <2>2, <4>1
        <5> QED BY <3>1, <4>1, <5>1
      <4> QED BY <4>2, <4>3
    <3>6. store'.minted = committed'.minted
      BY <2>1, <2>5, <2>8 DEF IInv, Funded
    <3>7. pc' = "fund"
      BY <2>1
    <3> QED BY <3>4, <3>5, <3>6, <3>7 DEF Funded
  <2> QED BY <2>1, <2>8, <2>9, <2>10, <2>11, <2>12 DEF IInv, AtRest, Deleted, Signs,
               FirstBlockSucceeds, Emptying, Filling
<1> QED BY <1>1, <1>2 DEF FundAccount

LEMMA StartNodeStep == IInv /\ StartNode => IInv'
<1> SUFFICES ASSUME IInv, StartNode PROVE IInv'
  OBVIOUS
<1>1. /\ pc = "fund" /\ pc' = "block" /\ k' = 1 /\ k > Len(accounts)
      /\ UNCHANGED <<store, op, key, accounts, committed, runs, cause, txPanic>>
  BY DEF StartNode, AllFunded, Goto, OnlyStore, flags
<1>2. Len(accounts) \in Nat /\ k \in Nat
  BY DEF IInv, TypeOK
<1>3. k = Len(accounts) + 1
  BY <1>1, <1>2 DEF IInv, Funded
<1>4. TypeOK'
  BY <1>1 DEF IInv, TypeOK, Statements
<1>5. OnDisk'
  BY <1>1 DEF IInv, OnDisk, IndexesAgree
<1>6. Alone'
  BY <1>1 DEF IInv, Alone, Filling
<1>7. Funded'
  BY <1>1, <1>2, <1>3 DEF IInv, Funded, TimesBefore
<1> QED BY <1>1, <1>4, <1>5, <1>6, <1>7 DEF IInv, AtRest, Deleted, Signs,
             FirstBlockSucceeds, Emptying, Filling

----------------------------------------------------------------------------
(* The node with its new validator.                                        *)

----------------------------------------------------------------------------
(* The node with its new validator: the first block finds everything that  *)
(* the indexes name, and what it commits is the replaced chain.            *)
LEMMA FirstBlockStep == IInv /\ FirstBlock => IInv' /\ [Swap!Replace]_(Swap!chain)
<1> SUFFICES ASSUME IInv, FirstBlock PROVE IInv' /\ [Swap!Replace]_(Swap!chain)
  OBVIOUS
<1>1. /\ pc = "block" /\ k' = 1
      /\ UNCHANGED <<op, key, accounts, runs, cause, txPanic>>
  BY DEF FirstBlock, Goto, flags
<1>2. /\ store.validators = {op} /\ store.jailed = {}
      /\ store.power = [committed.power EXCEPT ![op] = NewPower]
      /\ store.powerIndex = {<<NewPower, op>>}
      /\ store.lastVals = {op} /\ store.queue = {} /\ store.byCons[key] = op
  BY <1>1 DEF IInv, Alone, Filling
<1>3. CASE BlockFails(store)
  <2>1. pc' = "failed" /\ store' = committed /\ committed' = committed
    BY <1>3 DEF FirstBlock, Goto
  <2>2. key \notin store.signing
    BY <1>2, <1>3 DEF BlockFails
  <2>3. cause = "ignored"
    BY <1>1, <2>2 DEF IInv, Signs
  <2>4. TypeOK'
    BY <1>1, <2>1 DEF IInv, TypeOK, Statements
  <2>5. OnDisk'
    BY <2>1 DEF IInv, OnDisk, IndexesAgree
  <2>6. IInv'
    BY <1>1, <2>1, <2>3, <2>4, <2>5 DEF IInv, AtRest, Deleted, Alone, Signs, Funded,
       FirstBlockSucceeds, Emptying, Filling
  <2> QED BY <2>1, <2>6 DEF Swap!chain
<1>4. CASE ~BlockFails(store)
  <2>1. /\ pc' = "running" /\ committed' = store'
        /\ store' = [store EXCEPT !.lastVals = Elected(store)]
    BY <1>4 DEF FirstBlock, Goto
  <2>2. Elected(store) = {op}
    BY <1>2 DEF Elected
  <2>3. store \in Stores /\ op \in Vals /\ key \in Keys
    BY DEF IInv, TypeOK
  <2>4. /\ store' \in Stores /\ store'.funded = store.funded
        /\ store'.records = store.records /\ store'.signing = store.signing
        /\ store'.validators = {op} /\ store'.power = store.power
        /\ store'.byCons = store.byCons /\ store'.powerIndex = store.powerIndex
        /\ store'.lastVals = {op} /\ store'.jailed = {} /\ store'.queue = {}
        /\ store'.minted = store.minted
    BY <1>2, <2>1, <2>2, <2>3 DEF Stores
  <2>5. key \in store.signing
    BY <1>4 DEF BlockFails
  <2>6. committed.power \in [Vals -> Nat]
    BY DEF IInv, TypeOK, Stores
  <2>7. store.power[op] = NewPower
    BY <1>2, <2>3, <2>6
  <2>8. IndexesAgree(store')
    <3>1. store'.powerIndex = {<<store'.power[v], v>> : v \in store'.validators \ store'.jailed}
      BY <1>2, <2>4, <2>7
    <3>2. \A v \in store'.lastVals : \E c \in store'.signing : store'.byCons[c] = v
      BY <1>2, <2>4, <2>5
    <3> QED BY <2>4, <3>1, <3>2 DEF IndexesAgree
  <2>9. TypeOK'
    BY <1>1, <2>1, <2>4 DEF IInv, TypeOK, Statements
  <2>10. OnDisk'
    BY <2>1, <2>4, <2>8 DEF IInv, OnDisk
  <2>11. IInv'
    BY <1>1, <2>1, <2>9, <2>10 DEF IInv, AtRest, Deleted, Alone, Signs, Funded,
       FirstBlockSucceeds, Emptying, Filling
  <2>12. Swap!Replace
    <3>1. accounts \in AccountLists /\ accounts \in Seq(Accounts \cup {EmptyString})
      BY <1>1 DEF IInv, Filling
    <3>2. /\ \A m \in 1 .. Len(accounts) : accounts[m] \in Accounts
          /\ store.minted = committed.minted
          /\ store.funded = [a \in Accounts |->
                  committed.funded[a] + Fund * TimesBefore(Len(accounts) + 1, a)]
      BY <1>1 DEF IInv, Funded
    <3>3. \A a \in Accounts : TimesBefore(Len(accounts) + 1, a) = Swap!Times(accounts, a)
      <4>1. Len(accounts) + 1 - 1 = Len(accounts)
        BY <3>1
      <4>2. ASSUME NEW S PROVE Swap!Cardinality(S) = Cardinality(S)
        BY DEF Swap!Cardinality, Cardinality
      <4>3. ASSUME NEW a \in Accounts
            PROVE  TimesBefore(Len(accounts) + 1, a) = Swap!Times(accounts, a)
        <5> DEFINE S == {m \in 1 .. Len(accounts) : accounts[m] = a}
        <5>1. TimesBefore(Len(accounts) + 1, a) = Cardinality(S)
          BY <4>1 DEF TimesBefore
        <5>2. Swap!Times(accounts, a) = Swap!Cardinality(S)
          BY DEF Swap!Times
        <5> HIDE DEF S
        <5> QED BY <4>2, <5>1, <5>2
      <4> QED BY <4>3
    <3>4. op \in {store'.byCons[c] : c \in store'.signing}
      BY <1>2, <2>4, <2>5
    <3>5. committed'.funded =
              [a \in Accounts |-> committed.funded[a] + Fund * Swap!Times(accounts, a)]
      BY <2>1, <2>4, <3>2, <3>3
    <3>6. /\ committed'.validators = {op} /\ committed'.lastVals = {op}
          /\ committed'.power = [committed.power EXCEPT ![op] = NewPower]
          /\ op \in {committed'.byCons[c] : c \in committed'.signing}
          /\ committed'.minted = committed.minted
      BY <1>2, <2>1, <2>4, <3>2, <3>4
    <3> QED BY <2>3, <3>1, <3>2, <3>5, <3>6 DEF Swap!Replace
  <2> QED BY <2>11, <2>12
<1> QED BY <1>3, <1>4

(* A withdrawal touches reward records only.                               *)
LEMMA WithdrawStep == IInv /\ Withdraw => IInv' /\ UNCHANGED Swap!chain
<1> SUFFICES ASSUME IInv, Withdraw PROVE IInv' /\ UNCHANGED Swap!chain
  OBVIOUS
<1>1. pc = "running" /\ UNCHANGED <<pc, k, op, key, accounts, runs, cause>>
  BY DEF Withdraw, flags
<1>2. store = committed /\ store \in Stores /\ store.records \in RecordsState
      /\ PeriodsPositive(store.records)
  BY <1>1 DEF IInv, AtRest, TypeOK, Stores, OnDisk
<1>3. CASE txPanic' = TRUE /\ UNCHANGED <<store, committed>>
  <2>1. TypeOK'
    BY <1>1, <1>3 DEF IInv, TypeOK
  <2>2. OnDisk'
    BY <1>3 DEF IInv, OnDisk, IndexesAgree
  <2>3. IInv'
    BY <1>1, <1>3, <2>1, <2>2 DEF IInv, AtRest, Deleted, Alone, Signs, Funded,
       FirstBlockSucceeds, Emptying, Filling
  <2> QED BY <1>3, <2>3 DEF Swap!chain
<1>4. CASE ~(txPanic' = TRUE /\ UNCHANGED <<store, committed>>)
  <2>1. PICK d \in Dels :
          /\ ValOf[d] = op
          /\ store.records.period[op] < PeriodCap + NDels
          /\ store' = [store EXCEPT !.records =
                RestartDelegation(EndPeriod(store.records, op), d, TRUE, 0)]
          /\ committed' = store' /\ UNCHANGED txPanic
    BY <1>4 DEF Withdraw
  <2> DEFINE E == EndPeriod(store.records, op)
             D == DecrementReferenceCount(E, ValOf[d], E.start[d])
             R == InitializeDelegation(D, d, 0)
  <2>2. op \in Vals /\ op = ValOf[d]
    BY <2>1
  <2>3. /\ store.records.period[op] \in Periods /\ store.records.period[op] > 0
        /\ store.records.period[op] \in Nat
    BY <1>2, <2>1, <2>2 DEF Periods, RecordsState, PeriodsPositive
  <2>4. E \in RecordsState
    BY <1>2, <2>2, <2>3, EndPeriodType
  <2>5. /\ E.period = [store.records.period EXCEPT ![op] = @ + 1]
        /\ PeriodsPositive(E)
    BY <1>2, <2>2, EndPeriodPositive
  <2>6. E.period[op] - 1 \in Periods
    BY <1>2, <2>2, <2>3, <2>5 DEF RecordsState
  <2> HIDE DEF E
  <2>7. D \in RecordsState /\ D.period = E.period
    <3>1. E.start[d] \in Periods
      BY <2>4 DEF RecordsState
    <3>2. D \in RecordsState
      BY <2>4, <3>1, DecrementType
    <3> QED BY <2>4, <3>2 DEF DecrementReferenceCount, RecordsState
  <2> HIDE DEF D
  <2>8. R \in RecordsState
    BY <2>2, <2>6, <2>7, InitializeType
  <2>9. PeriodsPositive(R)
    BY <2>5, <2>7 DEF InitializeDelegation, IncrementReferenceCount, SetStartingInfo,
       RecordsState, PeriodsPositive
  <2>10. store' = [store EXCEPT !.records = R]
    BY <2>1 DEF RestartDelegation, D, E
  <2> HIDE DEF R
  <2>11. /\ store' \in Stores /\ store'.records = R
         /\ store'.funded = store.funded /\ store'.signing = store.signing
         /\ store'.validators = store.validators /\ store'.power = store.power
         /\ store'.byCons = store.byCons /\ store'.powerIndex = store.powerIndex
         /\ store'.lastVals = store.lastVals /\ store'.jailed = store.jailed
         /\ store'.queue = store.queue /\ store'.minted = store.minted
    BY <1>2, <2>8, <2>10 DEF Stores
  <2>12. TypeOK'
    BY <1>1, <2>1, <2>11 DEF IInv, TypeOK
  <2>13. OnDisk'
    <3>1. IndexesAgree(store')
      BY <1>2, <2>11 DEF IInv, OnDisk, IndexesAgree
    <3>2. PeriodsPositive(store'.records)
      BY <2>9, <2>11
    <3> QED BY <2>1, <3>1, <3>2 DEF OnDisk
  <2>14. IInv'
    BY <1>1, <2>1, <2>12, <2>13 DEF IInv, AtRest, Deleted, Alone, Signs, Funded,
       FirstBlockSucceeds, Emptying, Filling
  <2>15. UNCHANGED Swap!chain
    BY <1>2, <2>1, <2>11 DEF Swap!chain
  <2> QED BY <2>14, <2>15
<1> QED BY <1>3, <1>4

LEMMA StutterStep == IInv /\ UNCHANGED vars => IInv'
<1> SUFFICES ASSUME IInv, UNCHANGED vars PROVE IInv'
  OBVIOUS
<1>1. UNCHANGED <<pc, k, op, key, accounts, store, committed, runs, cause, txPanic>>
  BY DEF vars, flags
<1>2. TypeOK' /\ OnDisk'
  BY <1>1 DEF IInv, TypeOK, OnDisk, IndexesAgree
<1>3. Funded'
  BY <1>1 DEF IInv, Funded, TimesBefore
<1> QED BY <1>1, <1>2, <1>3 DEF IInv, AtRest, Deleted, Alone, Signs,
             FirstBlockSucceeds, Emptying, Filling

LEMMA NextStep == IInv /\ [Next]_vars => IInv' /\ [Swap!Replace]_(Swap!chain)
<1> SUFFICES ASSUME IInv, [Next]_vars PROVE IInv' /\ [Swap!Replace]_(Swap!chain)
  OBVIOUS
<1>1. CASE FirstBlock
  BY <1>1, FirstBlockStep
<1>2. CASE Withdraw
  BY <1>2, WithdrawStep
<1>3. CASE Stopped \/ UNCHANGED vars
  <2>1. UNCHANGED vars
    BY <1>3 DEF Stopped
  <2>2. UNCHANGED Swap!chain
    BY <2>1 DEF vars, Swap!chain
  <2> QED BY <2>1, <2>2, StutterStep
<1>4. CASE Invoke \/ Kill \/ (Command /\ ~FirstBlock)
  <2>1. IInv'
    BY <1>4, InvokeStep, KillStep, DeletePowerIndexStep, DeleteLastValidatorsStep,
       DeleteValidatorsStep, DeleteUnbondingQueueStep, AddValidatorStep,
       InitializeRecordsStep, SetSigningInfoStep, FundAccountStep, StartNodeStep DEF Command
  <2>2. committed' = committed
    BY <1>4 DEF Command, Invoke, Kill, DeletePowerIndex, DeleteLastValidators,
       DeleteValidators, DeleteUnbondingQueue, AddValidator, InitializeRecords,
       SetSigningInfo, FundAccount, StartNode, OnlyStore, OnlyStoreOrExit
  <2> QED BY <2>1, <2>2 DEF Swap!chain
<1> QED BY <1>1, <1>2, <1>3, <1>4 DEF Next, Command

LEMMA Inductive == Spec => []IInv
<1>1. Init => IInv
  BY InitIInv
<1>2. IInv /\ [Next]_vars => IInv'
  BY NextStep
<1> QED BY <1>1, <1>2, PTL DEF Spec

----------------------------------------------------------------------------
(* Every reachable state of the command and the node has its type.         *)
THEOREM TypeCorrect == Spec => []TypeOK
<1>1. IInv => TypeOK
  BY DEF IInv
<1> QED BY <1>1, Inductive, PTL

(* However the command ends and however often it is run, the indexes that  *)
(* a node finds on disk agree with each other.                             *)
THEOREM DiskAgrees == Spec => []CommittedAgrees
<1>1. IInv => CommittedAgrees
  BY DEF IInv, OnDisk, CommittedAgrees
<1> QED BY <1>1, Inductive, PTL

(* The first block fails only if the error of testnet.go:175 was ignored.  *)
THEOREM FirstBlockWorks == Spec => []FirstBlockSucceeds
<1>1. IInv => FirstBlockSucceeds
  BY DEF IInv
<1> QED BY <1>1, Inductive, PTL

(* The command is all or nothing: what is on disk is a chain of TestnetSwap. *)
THEOREM SwapImplemented == Spec => ImplementsSwap
<1>1. Init => Swap!Working
  <2> SUFFICES ASSUME Init PROVE Swap!Working
    OBVIOUS
  <2>1. IInv /\ committed = store
    BY InitIInv DEF Init
  <2>2. committed.power \in [Vals -> Nat] /\ IndexesAgree(committed)
    BY <2>1 DEF IInv, TypeOK, Stores, OnDisk
  <2>3. /\ committed.lastVals # {}
        /\ committed.funded = [a \in Accounts |-> 0] /\ committed.minted = 0
    BY <2>1 DEF Init, InitStore, StoreBefore
  <2>4. /\ committed.lastVals \subseteq committed.validators
        /\ committed.lastVals \subseteq {committed.byCons[c] : c \in committed.signing}
    BY <2>2 DEF IndexesAgree
  <2> QED BY <2>2, <2>3, <2>4 DEF Swap!Working
<1>2. IInv /\ [Next]_vars => [Swap!Replace]_(Swap!chain)
  BY NextStep
<1> QED BY <1>1, <1>2, Inductive, PTL DEF Spec, ImplementsSwap, Swap!SwapSpec
=============================================================================
