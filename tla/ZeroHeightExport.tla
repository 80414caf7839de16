-------------------------- MODULE ZeroHeightExport --------------------------
(***************************************************************************)
(* app/export.go: ExportAppStateAndValidators and the procedure it runs    *)
(* first when the genesis is to start at height zero.  The procedure       *)
(* rewrites the distribution, staking and slashing stores in the check     *)
(* state, one loop after another; every loop body is an action, because    *)
(* each of them can fail, panic or leave a half done store behind.  The    *)
(* position in the procedure is pc, and i counts the turns of its loop.    *)
(***************************************************************************)
EXTENDS SdkDistribution, FiniteSets, Functions

CONSTANTS
    MaxVals,     \* the staking parameter MaxValidators
    LastHeight,  \* app.LastBlockHeight()
    OldHeights,  \* heights at which validators, entries and signing infos began
    NReds,       \* redelegations
    NUbds,       \* unbonding delegations
    NEntries,    \* entries of one redelegation or unbonding delegation
    AllowLists,  \* the jailAllowedAddrs an operator may pass
    Stranger,    \* a well-formed address that no validator has
    BadAddr,     \* a string that is not a validator address
    Powers,      \* consensus powers of validators; 0: slashed to no tokens
    MaxAmount    \* bound on the amounts, in decimal units, before the export

ASSUME LastHeightAssumption == LastHeight \in Nat
ASSUME OldHeightsAssumption == OldHeights \subseteq 0 .. LastHeight
ASSUME MaxValsAssumption == MaxVals \in Nat
ASSUME CountsAssumption == NReds \in Nat /\ NUbds \in Nat /\ NEntries \in Nat
ASSUME AllowListsAssumption == AllowLists \subseteq SUBSET (Vals \cup {Stranger, BadAddr})
ASSUME StrangersAssumption == Stranger \notin Vals /\ BadAddr \notin Vals
ASSUME PowersAssumption == Powers \subseteq Nat
ASSUME MaxAmountAssumption == MaxAmount \in Nat

VARIABLES
    pc,          \* the statement of export.go that runs next
    i,           \* turn of the current loop, from 1
    forZero,     \* the argument forZeroHeight
    allow,       \* the argument jailAllowedAddrs
    ctxHeight,   \* ctx.BlockHeight()
    books,       \* x/distribution: amounts, and the module account
    records,     \* x/distribution: periods, references, starting infos
    power,       \* Tokens of each validator, as consensus power
    jailed,      \* Validator.Jailed
    status,      \* Validator.Status
    unbondHeight,\* Validator.UnbondingHeight
    powerIndex,  \* validators in the power index
    lastVals,    \* validators with a LastValidatorPower
    redHeights,  \* creation heights of the entries of each redelegation
    ubdHeights,  \* creation heights of the entries of each unbonding delegation
    signStart,   \* StartHeight of each validator's signing info
    skipped,     \* history: the preparation returned before its last loops
    unwritten,   \* history: validators whose new signing info was not written
    failed,      \* the process died of the error of the call at pc
    result       \* what ExportAppStateAndValidators returns

staking == <<jailed, status, unbondHeight, powerIndex, lastVals>>
unbondings == <<redHeights, ubdHeights>>
distr == <<books, records>>
args == <<forZero, allow, power>>
history == <<skipped, unwritten>>
work == <<pc, i, args, ctxHeight, distr, staking, unbondings, signStart, history, result>>
vars == <<work, failed>>

Heights == 0 .. LastHeight
Entries == 1 .. NEntries
Phases == {"start", "commission", "rewards", "validators", "delegations",
           "redelegations", "unbondings", "bondheights", "valset", "signing",
           "export", "returned", "panicked"}

NoResult == [err |-> FALSE, height |-> -1, validators |-> {}]

----------------------------------------------------------------------------
(* x/staking's choice of the validator set (external).  The power index is *)
(* walked by falling power, lower addresses first among equals, for at     *)
(* most MaxVals turns and up to the first validator without power.         *)
Outranks(u, v) == power[u] > power[v] \/ (power[u] = power[v] /\ u < v)

Above(v, idx) == {u \in idx : Outranks(u, v)}

Visited(idx) == {v \in idx : /\ Cardinality(Above(v, idx)) < MaxVals
                             /\ \A u \in Above(v, idx) : power[u] > 0}

Electable(idx) == {v \in Visited(idx) : power[v] > 0}

----------------------------------------------------------------------------
(* Initial states: a chain whose last block is committed.  Amounts,        *)
(* powers and jailed flags are arbitrary within the bounds; the indexes    *)
(* agree with them as the SDK's EndBlock leaves them, and every reward     *)
(* record is referenced exactly by the current period, one delegation or   *)
(* one slash event.                                                        *)
ReferencesTo(r, live, v, p) ==
    (IF p = r.period[v] - 1 THEN 1 ELSE 0)
    + (IF \E d \in live : ValOf[d] = v /\ r.start[d] = p THEN 1 ELSE 0)
    + (IF p \in r.slashes[v] THEN 1 ELSE 0)

StartsApart(r, live) ==
    \A d, e \in live : ValOf[d] = ValOf[e] /\ r.start[d] = r.start[e] => d = e

SlashesApart(r, live) == \A d \in live : r.start[d] \notin r.slashes[ValOf[d]]

Records ==
    {r \in [period : [Vals -> 1 .. PeriodCap],
            start : [Dels -> 0 .. PeriodCap - 1],
            slashes : [Vals -> SUBSET (1 .. PeriodCap - 1)]] :
        /\ \A d \in Dels : r.start[d] < r.period[ValOf[d]]
        /\ \A v \in Vals : r.slashes[v] \subseteq 0 .. r.period[v] - 1
        /\ StartsApart(r, Dels)
        /\ SlashesApart(r, Dels)}

InitBooks ==
    /\ books \in [outstanding : [Vals -> 0 .. MaxAmount],
                  commission : [Vals -> 0 .. MaxAmount],
                  current : [Vals -> 0 .. MaxAmount],
                  pool : 0 .. MaxAmount,
                  balance : 0 .. (NVals + 1) * MaxAmount,
                  unsent : {0}]
    /\ \A v \in Vals : books.commission[v] + books.current[v] =< books.outstanding[v]
    /\ Unit * books.balance = SumFunction(books.outstanding) + books.pool

InitRecords ==
    \E r \in Records, height \in [Dels -> Heights] :
        records = [period |-> r.period, start |-> r.start, slashes |-> r.slashes,
                   refs |-> [v \in Vals |-> [p \in Periods |->
                       ReferencesTo(r, Dels, v, p)]],
                   height |-> height, fault |-> FALSE]

InitStaking ==
    /\ power \in [Vals -> Powers]
    /\ jailed \in [Vals -> BOOLEAN]
    /\ powerIndex = {v \in Vals : ~jailed[v]}
    /\ lastVals = Electable(powerIndex)
    /\ status \in [Vals -> {"bonded", "unbonding", "unbonded"}]
    /\ \A v \in Vals : status[v] = "bonded" <=> v \in lastVals
    /\ unbondHeight \in [Vals -> OldHeights]
    /\ redHeights \in [1 .. NReds -> [Entries -> OldHeights]]
    /\ ubdHeights \in [1 .. NUbds -> [Entries -> OldHeights]]
    /\ signStart \in [Vals -> OldHeights]

InitControl ==
    /\ pc = "start" /\ i = 1
    /\ forZero \in BOOLEAN
    /\ allow \in AllowLists
    /\ ctxHeight = LastHeight
    /\ skipped = FALSE /\ unwritten = {} /\ failed = FALSE
    /\ result = NoResult

Init == InitControl /\ InitBooks /\ InitRecords /\ InitStaking
----------------------------------------------------------------------------
(* Flow of control, in a process that has not died of a failed call.       *)
Alive == ~failed /\ UNCHANGED failed

Goto(phase) == Alive /\ pc' = phase /\ i' = 1

OnlyControl == UNCHANGED <<args, ctxHeight, distr, staking, unbondings,
                           signStart, history, result>>
OnlyDistr == UNCHANGED <<args, ctxHeight, staking, unbondings, signStart, history, result>>

(* One more turn of the loop, unless the keeper panicked in this one.      *)
Turn ==
    /\ Alive
    /\ pc' = (IF records'.fault THEN "panicked" ELSE pc)
    /\ i' = i + 1

NoTokens(v) == power[v] = 0

(* Amounts split into whole coins and what truncation leaves.              *)
Truncations(amount) ==
    {t \in [coins : 0 .. amount, rest : 0 .. Unit - 1] :
        amount = Unit * t.coins + t.rest}

----------------------------------------------------------------------------
(* ExportAppStateAndValidators: the export at a height skips the           *)
(* preparation.  prepForZeroHeightGenesis first parses the allow list.     *)
Start ==
    /\ pc = "start"
    /\ Goto(IF ~forZero THEN "export"
            ELSE IF BadAddr \in allow THEN "panicked" ELSE "commission")
    /\ OnlyControl

(* Loop over the validators: withdraw the commission, whatever happens.    *)
(* The bank may refuse to send (the withdraw address may be blocked).      *)
WithdrawCommission ==
    /\ pc = "commission" /\ i =< NVals
    /\ \E paid \in Truncations(books.commission[i]), sent \in BOOLEAN :
          /\ paid.coins = 0 => sent
          /\ books' = PayCommission(books, i, paid.coins, paid.rest, sent)
    /\ UNCHANGED records
    /\ Turn
    /\ OnlyDistr

(* Loop over the delegations: withdraw the rewards, whatever happens.  A   *)
(* delegation that started at this height has earned nothing.              *)
Earned(B, d) ==
    IF records.height[d] = ctxHeight THEN {0} ELSE 0 .. B.outstanding[ValOf[d]]

WithdrawRewards ==
    /\ pc = "rewards" /\ i =< NDels
    /\ LET v == ValOf[i]
           ended == EndPeriodBooks(books, v, NoTokens(v))
       IN \E earned \in Earned(ended, i), sent \in BOOLEAN :
          \E paid \in Truncations(earned) :
            /\ paid.coins = 0 => sent
            /\ books' = PayRewards(ended, v, paid.coins, paid.rest, sent)
            /\ records' = RestartDelegation(EndPeriod(records, v), i, sent, ctxHeight)
    /\ Turn
    /\ OnlyDistr

\* Mutants: one of the two deletions is missing.
MutKeepHistory(R) == DeleteAllValidatorSlashEvents(R)
MutKeepSlashes(R) == DeleteAllValidatorHistoricalRewards(R)

(* Slash events and historical rewards go, and the context to height zero. *)
Cleared(R) == DeleteAllValidatorHistoricalRewards(DeleteAllValidatorSlashEvents(R))

ClearRecords ==
    /\ pc = "rewards" /\ i > NDels
    /\ records' = Cleared(records)
    /\ ctxHeight' = 0
    /\ Goto("validators")
    /\ UNCHANGED <<args, books, staking, unbondings, signStart, history, result>>

\* Mutants: no donation; a donation of what was just reset.
MutDonateNothing(B, v) == CreateBooks(B, v)
MutDonateAfterReset(B, v) ==
    LET reset == CreateBooks(B, v) IN [reset EXCEPT !.pool = @ + reset.outstanding[v]]

(* Loop over the validators: the outstanding rewards that nobody could     *)
(* withdraw go to the community pool, and the records begin anew.          *)
DonatedAndReset(B, v) == CreateBooks([B EXCEPT !.pool = @ + B.outstanding[v]], v)

\* Mutant: AfterValidatorCreated is not called.
MutNoNewRecords(R, v) == R

RecordsReset(R, v) == CreateRecords(R, v)

ReinitValidator ==
    /\ pc = "validators" /\ i =< NVals
    /\ books' = DonatedAndReset(books, i)
    /\ records' = RecordsReset(records, i)
    /\ Turn
    /\ OnlyDistr

\* Mutant: BeforeDelegationCreated is not called, no period ends.
MutNoNewPeriod(R, d) == InitializeDelegation(R, d, ctxHeight)

(* Loop over the delegations: BeforeDelegationCreated ends a period,       *)
(* AfterDelegationModified starts the delegation there.                    *)
DelegationReset(R, d) == InitializeDelegation(EndPeriod(R, ValOf[d]), d, ctxHeight)

ReinitDelegation ==
    /\ pc = "delegations" /\ i =< NDels
    /\ books' = EndPeriodBooks(books, ValOf[i], NoTokens(ValOf[i]))
    /\ records' = DelegationReset(records, i)
    /\ Turn
    /\ OnlyDistr

\* Mutant: the height restored is the one the export returns.
MutNextHeight == LastHeight + 1

HeightBefore == LastHeight

RestoreHeight ==
    /\ pc = "delegations" /\ i > NDels
    /\ ctxHeight' = HeightBefore
    /\ Goto("redelegations")
    /\ UNCHANGED <<args, distr, staking, unbondings, signStart, history, result>>

----------------------------------------------------------------------------
(* Staking: creation heights of all entries, then the validators.          *)
\* Mutant: only the first entry is reset.
MutFirstEntryOnly(heights) == [heights EXCEPT ![1] = 0]

EntriesReset(heights) == [e \in Entries |-> 0]

ResetRedelegation ==
    /\ pc = "redelegations" /\ i =< NReds
    /\ redHeights' = [redHeights EXCEPT ![i] = EntriesReset(@)]
    /\ UNCHANGED <<args, ctxHeight, distr, staking, ubdHeights, signStart, history, result>>
    /\ Turn

ResetUnbonding ==
    /\ pc = "unbondings" /\ i =< NUbds
    /\ ubdHeights' = [ubdHeights EXCEPT ![i] = EntriesReset(@)]
    /\ UNCHANGED <<args, ctxHeight, distr, staking, redHeights, signStart, history, result>>
    /\ Turn

(* The reverse iterator runs over the validators by falling address.  Only *)
(* the record is written: the power index keeps an entry for the jailed.   *)
Iterated == NVals + 1 - i

\* Mutant: applyAllowedAddrs is not consulted.
MutEmptyListJails(v) == v \notin allow

\* Mutant: the lookup in allowedAddrsMap is not negated.
MutListedAreJailed(v) == allow # {} /\ v \in allow

IsJailedByList(v) == allow # {} /\ v \notin allow

\* Mutant: a jailed validator also leaves the power index.
MutJailLeavesIndex ==
    /\ pc = "bondheights" /\ i =< NVals
    /\ unbondHeight' = [unbondHeight EXCEPT ![Iterated] = 0]
    /\ jailed' = [jailed EXCEPT ![Iterated] = @ \/ IsJailedByList(Iterated)]
    /\ powerIndex' = IF jailed'[Iterated] THEN powerIndex \ {Iterated} ELSE powerIndex
    /\ UNCHANGED <<args, ctxHeight, distr, status, lastVals,
                   unbondings, signStart, history, result>>
    /\ Turn

ResetBondHeight ==
    /\ pc = "bondheights" /\ i =< NVals
    /\ unbondHeight' = [unbondHeight EXCEPT ![Iterated] = 0]
    /\ jailed' = [jailed EXCEPT ![Iterated] = @ \/ IsJailedByList(Iterated)]
    /\ UNCHANGED <<args, ctxHeight, distr, status, powerIndex, lastVals,
                   unbondings, signStart, history, result>>
    /\ Turn

\* Mutant: the validator set is not computed again.
MutNoValidatorSetUpdates ==
    /\ pc = "bondheights" /\ i > NVals
    /\ \/ Goto("signing") /\ UNCHANGED skipped
       \/ Goto("export") /\ skipped' = TRUE
    /\ UNCHANGED <<args, ctxHeight, distr, staking, unbondings, signStart,
                   unwritten, result>>

(* Closing the iterator may fail: the error is logged and the rest of the  *)
(* preparation is skipped.                                                 *)
CloseIterator ==
    /\ pc = "bondheights" /\ i > NVals
    /\ \/ Goto("valset") /\ UNCHANGED skipped
       \/ Goto("export") /\ skipped' = TRUE
    /\ UNCHANGED <<args, ctxHeight, distr, staking, unbondings, signStart,
                   unwritten, result>>

(* ApplyAndReturnValidatorSetUpdates: it panics on a jailed validator that *)
(* it meets in the power index.                                            *)
ApplyValidatorSetUpdates ==
    /\ pc = "valset"
    /\ UNCHANGED <<args, ctxHeight, distr, jailed, powerIndex, unbondings, signStart, history, result>>
    /\ IF \E v \in Visited(powerIndex) : jailed[v]
       THEN Goto("panicked") /\ UNCHANGED <<status, unbondHeight, lastVals>>
       ELSE LET bonded == Electable(powerIndex)
                leaving == lastVals \ bonded
            IN  /\ lastVals' = bonded
                /\ status' = [v \in Vals |-> IF v \in bonded THEN "bonded"
                                 ELSE IF v \in leaving THEN "unbonding" ELSE status[v]]
                /\ unbondHeight' = [v \in Vals |->
                        IF v \in leaving THEN ctxHeight ELSE unbondHeight[v]]
                /\ Goto("signing")

(* SetValidatorSigningInfo may fail; its error is ignored (export.go:249).  *)
ResetSigningInfo ==
    /\ pc = "signing" /\ i =< NVals
    /\ \/ signStart' = [signStart EXCEPT ![i] = 0] /\ UNCHANGED unwritten
       \/ unwritten' = unwritten \cup {i} /\ UNCHANGED signStart
    /\ UNCHANGED <<args, ctxHeight, distr, staking, unbondings, skipped, result>>
    /\ Turn

(* The loops that are followed by another loop, or by the export.          *)
EndOfLoop(phase, turns, next) ==
    /\ pc = phase /\ i > turns
    /\ Goto(next)
    /\ OnlyControl

NextLoop ==
    \/ EndOfLoop("commission", NVals, "rewards")
    \/ EndOfLoop("validators", NVals, "delegations")
    \/ EndOfLoop("redelegations", NReds, "unbondings")
    \/ EndOfLoop("unbondings", NUbds, "bondheights")
    \/ EndOfLoop("signing", NVals, "export")

----------------------------------------------------------------------------
(* WriteValidators goes through the last validators by address; an error   *)
(* ends it at one of them, with the list made so far, or before the first. *)
ListedBeforeError == {{}} \cup {{v \in lastVals : v < n} : n \in lastVals}

(* Exporting the modules fails or not; listing the validators may fail     *)
(* too, and then the record is returned together with the error.           *)
Export ==
    /\ pc = "export"
    /\ Goto("returned")
    /\ \/ result' = [err |-> TRUE, height |-> 0, validators |-> {}]
       \/ \E err \in BOOLEAN :
          \E listed \in IF err THEN ListedBeforeError ELSE {lastVals} :
             result' = [err |-> err,
                        height |-> IF forZero THEN 0 ELSE LastHeight + 1,
                        validators |-> listed]
    /\ UNCHANGED <<args, ctxHeight, distr, staking, unbondings, signStart, history>>

(* The call has returned, or the process has died of a panic.              *)
Stopped == (failed \/ pc \in {"returned", "panicked"}) /\ UNCHANGED vars

Step ==
    \/ Start \/ NextLoop
    \/ WithdrawCommission \/ WithdrawRewards \/ ClearRecords
    \/ ReinitValidator \/ ReinitDelegation \/ RestoreHeight
    \/ ResetRedelegation \/ ResetUnbonding
    \/ ResetBondHeight \/ CloseIterator
    \/ ApplyValidatorSetUpdates \/ ResetSigningInfo
    \/ Export

(* Where an error is checked and ends in a panic: of an iteration, an      *)
(* address codec, a read or a write of a store, a hook or the computation  *)
(* of the set (export.go:79-253), or of a module that cannot be exported   *)
(* (:32, as in x/chainrice's module.go:114).  The withdrawals, the         *)
(* deletions and the writes of signing infos are not checked.              *)
Checked ==
    \/ pc \in {"commission", "validators", "redelegations", "unbondings",
              "valset", "signing", "export"}
    \/ pc \in {"rewards", "delegations"} /\ i =< NDels
    \/ pc = "bondheights" /\ i =< NVals

(* The turn at pc fails and the process dies of it.  What the turn had     *)
(* written before is lost with the rest of the check state, so the stores  *)
(* are left as they were when it began.                                    *)
PanicOnError == ~failed /\ Checked /\ failed' = TRUE /\ UNCHANGED work

Next == Step \/ PanicOnError \/ Stopped

(* The procedure is one goroutine that runs until it returns or panics; no *)
(* call is obliged to fail.                                                *)
Spec == Init /\ [][Next]_vars /\ WF_vars(Step)
----------------------------------------------------------------------------
(* Properties.                                                             *)

WorkOK ==
    /\ pc \in Phases /\ i \in Nat \ {0}
    /\ forZero \in BOOLEAN /\ allow \in AllowLists
    /\ ctxHeight \in Heights
    /\ books \in BooksState /\ records \in RecordsState
    /\ power \in [Vals -> Nat]
    /\ jailed \in [Vals -> BOOLEAN]
    /\ status \in [Vals -> {"bonded", "unbonding", "unbonded"}]
    /\ unbondHeight \in [Vals -> Heights]
    /\ powerIndex \subseteq Vals /\ lastVals \subseteq Vals
    /\ redHeights \in [1 .. NReds -> [Entries -> Heights]]
    /\ ubdHeights \in [1 .. NUbds -> [Entries -> Heights]]
    /\ signStart \in [Vals -> Heights]
    /\ skipped \in BOOLEAN /\ unwritten \subseteq Vals
    /\ result \in [err : BOOLEAN, height : Int, validators : SUBSET Vals]

TypeOK == WorkOK /\ failed \in BOOLEAN

(* The books of the distribution module balance at every statement of the  *)
(* preparation, whichever withdrawals fail: its coins are the outstanding  *)
(* rewards, the community pool and, counted apart, the commission that     *)
(* export.go:82 wrote off while it ignored that the bank refused to send.  *)
LedgerBalanced ==
    Unit * books.balance =
        SumFunction(books.outstanding) + books.pool + Unit * books.unsent

(* The same for one step: a step moves the rewards of one validator only,  *)
(* and what leaves them is paid, pooled or written off.                    *)
RestOfBooks(B, v) == Unit * B.balance - B.outstanding[v] - B.pool - Unit * B.unsent

MovesOnly(B, C, v) ==
    /\ RestOfBooks(C, v) = RestOfBooks(B, v)
    /\ \A w \in Vals \ {v} : C.outstanding[w] = B.outstanding[w]

LedgerStep == books' # books => \E v \in Vals : MovesOnly(books, books', v)

StepsBalanceBooks == [][LedgerStep]_vars

(* Every historical record of a validator is held by exactly those that    *)
(* need it: its current period, one delegation that starts there, or one   *)
(* slash event.  From the deletion of the records (export.go:113) on only  *)
(* the validators and delegations initialised again hold any.              *)
HasRecords(v) == pc = "validators" => v < i

IsLive(d) == pc # "validators" /\ (pc = "delegations" => d < i)

Live == {d \in Dels : IsLive(d)}

Holders(v, p) ==
    Cardinality({d \in Live : ValOf[d] = v /\ records.start[d] = p})
    + (IF p \in records.slashes[v] THEN 1 ELSE 0)
    + (IF p = records.period[v] - 1 THEN 1 ELSE 0)

RefCountsMatch ==
    \A v \in Vals, p \in Periods :
        records.refs[v][p] = IF HasRecords(v) THEN Holders(v, p) ELSE 0

(* The distribution keeper never panics on a reference count: export.go    *)
(* withdraws, deletes and initialises again in an order that keeps them    *)
(* between zero and two.                                                   *)
NoFault == ~records.fault

(* Two delegations to one validator never share a starting period.         *)
StartsDistinct == StartsApart(records, Live)

(* Apart from calls that fail (export.go:79-253), a zero height export     *)
(* dies just of its allow list: because that holds a malformed address     *)
(* (:68) or omits a validator that the power index still offers for the    *)
(* set (:223 jails it, :237 then panics).  With such a list it never       *)
(* returns.                                                                *)
ListKillsExport ==
    \/ BadAddr \in allow
    \/ allow # {} /\ ~(Visited(powerIndex) \subseteq allow)

ListDecidesExport ==
    /\ pc = "panicked" => forZero /\ ListKillsExport
    /\ pc = "returned" /\ forZero /\ ~skipped => ~ListKillsExport

(* A genesis at height zero carries no height of the old chain, however    *)
(* the preparation went: delegations, entries and validators all start at  *)
(* zero.  Only a signing info may keep its height, if the loop over them   *)
(* was never reached (export.go:232) or this write of it failed (:249).    *)
HeightsReset ==
    pc \in {"export", "returned"} /\ forZero =>
        /\ \A d \in Dels : records.height[d] = 0
        /\ \A v \in Vals : unbondHeight[v] = 0
        /\ \A r \in 1 .. NReds, e \in Entries : redHeights[r][e] = 0
        /\ \A u \in 1 .. NUbds, e \in Entries : ubdHeights[u][e] = 0
        /\ \A v \in Vals : signStart[v] = 0 \/ skipped \/ v \in unwritten

DelegationsTo(v) == {d \in Dels : ValOf[d] = v}

(* The distribution genesis is one that can be imported, with no slash     *)
(* events, nothing outstanding and the coins all in the community pool.    *)
(* It knows nothing of the chain's history: every delegation starts in a   *)
(* recorded period, the n-th one to a validator in its period n, however   *)
(* many periods, slashes and failed withdrawals there were before.         *)
DistrGenesisValid ==
    pc \in {"export", "returned"} /\ forZero =>
        /\ \A v \in Vals : /\ records.slashes[v] = {} /\ books.outstanding[v] = 0
                           /\ records.period[v] = Cardinality(DelegationsTo(v)) + 1
        /\ Unit * books.balance = books.pool + Unit * books.unsent
        /\ \A d \in Dels :
              /\ records.start[d] = Cardinality({e \in DelegationsTo(ValOf[d]) : e =< d})
              /\ records.refs[ValOf[d]][records.start[d]] > 0

(* Computing the set again (export.go:237) on a committed state elects the *)
(* validators that were already bonded, jailed by the list or not.         *)
ValidatorSetKept == [][lastVals' = lastVals /\ status' = status]_vars

(* The validators returned beside the genesis, or beside the error of      *)
(* listing them (export.go:42-49), are bonded, and none of them is jailed  *)
(* so that it could not sign the first block, unless it is the list that   *)
(* jailed it and the set was not computed again (:223, :232).              *)
ExportedCanSign ==
    pc = "returned" =>
        \A v \in result.validators :
            status[v] = "bonded" /\ (jailed[v] => skipped /\ IsJailedByList(v))

(* Without an allow list an export returns, unless a call fails.           *)
ExportReturns == [](allow = {} => <>(pc = "returned" \/ failed))

(* export.go:52 "prepForZeroHeightGenesis prepares for fresh start at zero *)
(* height": with well-formed addresses in the list it does not die, unless *)
(* a call fails.                                                           *)
PrepCompletes == BadAddr \notin allow => pc # "panicked"
=============================================================================
