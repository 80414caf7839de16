-------------------------- MODULE SdkDistribution --------------------------
(***************************************************************************)
(* The part of the Cosmos SDK's x/distribution keeper (an imported         *)
(* library, not under src/) that app/export.go drives: F1 reward           *)
(* distribution records (R) and the books of the module account behind     *)
(* them (B).  Every operator maps the store to the store after a call.     *)
(*                                                                         *)
(* Amounts of one denomination are counted in decimal units, Unit of them  *)
(* to a whole coin; only whole coins can leave the module account.  What a *)
(* delegation has earned is not computed: the caller of the model chooses  *)
(* any amount that the keeper would pay, which is at most the outstanding  *)
(* rewards of the validator (the keeper intersects with them).             *)
(***************************************************************************)
EXTENDS Integers

CONSTANTS
    NVals,      \* validators, numbered in the order of their store keys
    NDels,      \* delegations, numbered in the order of their store keys
    ValOf,      \* ValOf[d] is the validator of delegation d
    Unit,       \* decimal units in one whole coin (10^18 in the SDK)
    PeriodCap   \* bound on a validator's reward period before the export

Vals == 1 .. NVals
Dels == 1 .. NDels
Periods == 0 .. (PeriodCap + NDels)

ASSUME NValsAssumption == NVals \in Nat
ASSUME NDelsAssumption == NDels \in Nat
ASSUME ValOfAssumption == ValOf \in [Dels -> Vals]
ASSUME UnitAssumption == Unit \in Nat \ {0}
ASSUME PeriodCapAssumption == PeriodCap \in Nat \ {0}

(* The amounts, and the periods that the amounts are accounted in.         *)
BooksState ==
    [outstanding : [Vals -> Nat],     \* ValidatorOutstandingRewards
     commission  : [Vals -> Nat],     \* ValidatorAccumulatedCommission
     current     : [Vals -> Nat],     \* ValidatorCurrentRewards.Rewards
     pool        : Nat,               \* FeePool.CommunityPool
     balance     : Int,               \* whole coins in the module account
     unsent      : Nat]               \* whole coins written off but never sent

RecordsState ==
    [period  : [Vals -> Nat],                \* ValidatorCurrentRewards.Period
     refs    : [Vals -> [Periods -> Int]],   \* historical reference counts; 0: no record
     slashes : [Vals -> SUBSET Periods],     \* periods ended by slash events
     start   : [Dels -> Periods],            \* DelegatorStartingInfo.PreviousPeriod
     height  : [Dels -> Nat],                \* DelegatorStartingInfo.Height
     fault   : BOOLEAN]                      \* a reference count made the keeper panic

----------------------------------------------------------------------------
(* decrementReferenceCount panics on a count of zero and                   *)
(* incrementReferenceCount on a count already above two.                   *)
DecrementReferenceCount(R, v, p) ==
    [R EXCEPT !.refs = [R.refs EXCEPT ![v][p] = @ - 1],
              !.fault = IF R.refs[v][p] = 0 THEN TRUE ELSE @]

IncrementReferenceCount(R, v, p) ==
    [R EXCEPT !.refs = [R.refs EXCEPT ![v][p] = @ + 1],
              !.fault = IF R.refs[v][p] > 2 THEN TRUE ELSE @]

(* IncrementValidatorPeriod ends the current period p of v: the record of  *)
(* p begins with one reference, the one to p - 1 is gone.                  *)
SetHistoricalRewards(R, v, p) == [R EXCEPT !.refs = [R.refs EXCEPT ![v][p] = 1]]

EndPeriod(R, v) ==
    LET p == R.period[v]
    IN  [SetHistoricalRewards(DecrementReferenceCount(R, v, p - 1), v, p)
            EXCEPT !.period = [R.period EXCEPT ![v] = p + 1]]

(* It moves the current rewards into the ratio of the record; a validator  *)
(* without tokens has no ratio and loses them to the community pool.       *)
EndPeriodBooks(B, v, noTokens) ==
    LET donated == IF noTokens THEN B.current[v] ELSE 0
    IN  [B EXCEPT !.outstanding = [B.outstanding EXCEPT ![v] = @ - donated],
                  !.pool = @ + donated,
                  !.current = [B.current EXCEPT ![v] = 0]]

(* initializeDelegation writes the starting info at the last ended period. *)
SetStartingInfo(R, d, p, h) ==
    [R EXCEPT !.start = [R.start EXCEPT ![d] = p], !.height = [R.height EXCEPT ![d] = h]]

InitializeDelegation(R, d, h) ==
    LET v == ValOf[d]
        p == R.period[v] - 1
    IN  SetStartingInfo(IncrementReferenceCount(R, v, p), d, p, h)

----------------------------------------------------------------------------
(* WithdrawValidatorCommission pays the whole coins in v's commission and  *)
(* keeps the rest.  It writes the books before the coins are sent, so an   *)
(* error of the bank leaves the coins written off.                         *)
PayCommission(B, v, coins, rest, sent) ==
    [B EXCEPT !.commission = [B.commission EXCEPT ![v] = rest],
              !.outstanding = [B.outstanding EXCEPT ![v] = @ - Unit * coins],
              !.balance = IF sent THEN @ - coins ELSE @,
              !.unsent = IF sent THEN @ ELSE @ + coins]

(* WithdrawDelegationRewards ends the period, pays the whole coins earned, *)
(* gives the rest to the community pool and starts the delegation again.   *)
(* An error of the bank leaves the period ended and nothing else done.     *)
PayRewards(B, v, coins, rest, sent) ==
    IF sent
    THEN [B EXCEPT !.outstanding = [B.outstanding EXCEPT ![v] = @ - (Unit * coins + rest)],
                   !.pool = @ + rest,
                   !.balance = @ - coins]
    ELSE B

RestartDelegation(R, d, sent, h) ==
    IF sent
    THEN InitializeDelegation(DecrementReferenceCount(R, ValOf[d], R.start[d]), d, h)
    ELSE R

----------------------------------------------------------------------------
(* Deletions of all records of one kind.                                   *)
DeleteAllValidatorSlashEvents(R) == [R EXCEPT !.slashes = [v \in Vals |-> {}]]

DeleteAllValidatorHistoricalRewards(R) ==
    [R EXCEPT !.refs = [v \in Vals |-> [p \in Periods |-> 0]]]

(* Hooks().AfterValidatorCreated: fresh records for v, all amounts zero.   *)
CreateRecords(R, v) ==
    [R EXCEPT !.refs = [R.refs EXCEPT ![v][0] = 1], !.period = [R.period EXCEPT ![v] = 1]]

CreateBooks(B, v) ==
    [B EXCEPT !.current = [B.current EXCEPT ![v] = 0],
              !.commission = [B.commission EXCEPT ![v] = 0],
              !.outstanding = [B.outstanding EXCEPT ![v] = 0]]
============================================================================
