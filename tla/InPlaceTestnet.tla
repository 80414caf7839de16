--------------------------- MODULE InPlaceTestnet ---------------------------
(***************************************************************************)
(* cmd/chain-riced/cmd/testnet.go: the command in-place-testnet, that      *)
(* turns the stores of a stopped node into a chain with one validator of   *)
(* its own.  Its writes go to an uncached context, that is to the working  *)
(* version of the stores: they last only if the node then commits a block. *)
(* An error exits the process; a process may also be killed, and the       *)
(* command run again, with other flags, on what was committed.             *)
(***************************************************************************)
EXTENDS SdkDistribution, Sequences, FiniteSets

CONSTANTS
    Keys,         \* consensus keys; KeyOf[v] is the one of validator v
    KeyOf,
    Powers,       \* consensus powers of the validators before
    NewPower,     \* valVotingPower, as consensus power
    Accounts,     \* well-formed account addresses
    EmptyString,  \* strings.Split("", ",") has this one element
    AccountLists, \* values of --accounts-to-fund, split at the commas
    MaxRuns       \* bound on the runs of the command

ASSUME KeyOfAssumption ==
    /\ KeyOf \in [Vals -> Keys]
    /\ \A u, v \in Vals : KeyOf[u] = KeyOf[v] => u = v
ASSUME NewPowerAssumption == NewPower \in Nat \ {0}
ASSUME PowersBelowAssumption == Powers \subseteq Nat \ {0}
ASSUME AccountsAssumption == EmptyString \notin Accounts
ASSUME ListsAssumption == AccountLists \subseteq Seq(Accounts \cup {EmptyString})
ASSUME MaxRunsAssumption == MaxRuns \in Nat

VARIABLES
    pc,        \* the statement of testnet.go that runs next
    k,         \* turn of the loop that funds accounts
    op,        \* newOperatorAddress
    key,       \* newValPubKey and newValAddr
    accounts,  \* accountsToFund
    store,     \* the working version of the stores
    committed, \* the version of the last block
    runs,      \* runs of the command so far
    cause,     \* history: why the command exited, or an error it ignored
    txPanic    \* history: a withdrawal of rewards panicked

flags == <<op, key, accounts>>
vars == <<pc, k, flags, store, committed, runs, cause, txPanic>>

NoVal == 0      \* the validator of a key that signs for nobody
Fund == 1       \* the defaultCoins of one funding, as a unit

Statements == {"idle", "power", "last", "validators", "queue", "add", "records",
               "signing", "fund", "block", "running", "exited", "failed"}

Stores ==
    [validators : SUBSET Vals,           \* validators with a record
     jailed     : SUBSET Vals,
     power      : [Vals -> Nat],         \* Tokens, as consensus power
     powerIndex : SUBSET (Nat \X Vals),  \* keys of the power index
     lastVals   : SUBSET Vals,           \* validators with a LastValidatorPower
     queue      : SUBSET Vals,           \* validators in the unbonding queue
     byCons     : [Keys -> Vals \cup {NoVal}],
     signing    : SUBSET Keys,           \* keys with a signing info
     records    : RecordsState,          \* x/distribution
     minted     : Nat,                   \* balance of the mint module account
     funded     : [Accounts -> Nat]]     \* what the command sent to accounts

----------------------------------------------------------------------------
(* Stores that agree, as the SDK's modules leave them after a block.       *)
IndexesAgree(s) ==
    /\ s.powerIndex = {<<s.power[v], v>> : v \in s.validators \ s.jailed}
    /\ s.lastVals \subseteq s.validators \ s.jailed
    /\ s.queue \subseteq s.validators \ s.lastVals
    /\ \A v \in s.lastVals : \E c \in s.signing : s.byCons[c] = v

(* Reward records before the command: every delegation starts in an ended  *)
(* period of its own, and every reference has its holder.                  *)
StartsBefore(period) ==
    {start \in [Dels -> 0 .. PeriodCap - 1] :
        /\ \A d \in Dels : start[d] < period[ValOf[d]]
        /\ \A d, e \in Dels : ValOf[d] = ValOf[e] /\ start[d] = start[e] => d = e}

RecordsBefore(period, start) ==
    [period |-> period, start |-> start, slashes |-> [v \in Vals |-> {}],
     refs |-> [v \in Vals |-> [p \in Periods |->
        Cardinality({d \in Dels : ValOf[d] = v /\ start[d] = p})
        + (IF p = period[v] - 1 THEN 1 ELSE 0)]],
     height |-> [d \in Dels |-> 0], fault |-> FALSE]

StoreBefore(validators, jailed, power, lastVals, queue, R) ==
    [validators |-> validators, jailed |-> jailed, power |-> power,
     powerIndex |-> {<<power[v], v>> : v \in validators \ jailed},
     lastVals |-> lastVals, queue |-> queue,
     byCons |-> [c \in Keys |->
        IF \E v \in validators : KeyOf[v] = c
        THEN CHOOSE v \in validators : KeyOf[v] = c ELSE NoVal],
     signing |-> {KeyOf[v] : v \in validators},
     records |-> R, minted |-> 0, funded |-> [a \in Accounts |-> 0]]

(* Initial states: the stores of a chain with a validator set, stopped.    *)
InitStore ==
    \E validators, jailed, lastVals, queue \in SUBSET Vals :
        /\ jailed \subseteq validators /\ \A d \in Dels : ValOf[d] \in validators
        /\ lastVals # {} /\ lastVals \subseteq validators \ jailed
        /\ queue \subseteq validators \ lastVals
        /\ \E power \in [Vals -> Powers], period \in [Vals -> 1 .. PeriodCap] :
           \E start \in StartsBefore(period) :
              store = StoreBefore(validators, jailed, power, lastVals, queue,
                                  RecordsBefore(period, start))

Init ==
    /\ pc = "idle" /\ k = 1
    /\ op = 1 /\ key = KeyOf[1] /\ accounts = <<>>
    /\ InitStore
    /\ committed = store
    /\ runs = 0 /\ cause = "none" /\ txPanic = FALSE

----------------------------------------------------------------------------
Goto(statement) == pc' = statement /\ k' = 1

OnlyStore == UNCHANGED <<flags, committed, runs, cause, txPanic>>
OnlyStoreOrExit == UNCHANGED <<flags, committed, runs, txPanic>>

Continue(statement) == Goto(statement) /\ UNCHANGED cause

(* handleErr exits; what was written is lost with the process.             *)
Exit(why) == Goto("exited") /\ store' = committed /\ cause' = why

Fails == Exit("fault")   \* the store or a keeper returned an error

(* getCommandArgs: the validator's operator and key, and the account list, *)
(* a string split at its commas.                                           *)
CommandArgs == op' \in Vals /\ key' \in Keys /\ accounts' \in AccountLists

(* Start of the process: the flags are parsed, the stores loaded.  Flags   *)
(* of the wrong type or an address that is malformed end it at once.       *)
Invoke ==
    /\ pc \in {"idle", "exited", "failed"} /\ runs < MaxRuns
    /\ \/ Goto("power") /\ cause' = "none"
       \/ Goto("exited") /\ cause' = "fault"
    /\ CommandArgs
    /\ runs' = runs + 1
    /\ store' = committed
    /\ UNCHANGED <<committed, txPanic>>

(* Four loops delete the keys of one index each.                           *)
\* Mutant: a loop that deletes nothing.
MutPowerIndexDeleted == store.powerIndex
PowerIndexDeleted == {}

DeletePowerIndex ==
    /\ pc = "power"
    /\ \/ Continue("last") /\ store' = [store EXCEPT !.powerIndex = PowerIndexDeleted]
       \/ Fails
    /\ OnlyStoreOrExit

DeleteLastValidators ==
    /\ pc = "last"
    /\ \/ Continue("validators") /\ store' = [store EXCEPT !.lastVals = {}]
       \/ Fails
    /\ OnlyStoreOrExit

DeleteValidators ==
    /\ pc = "validators"
    /\ Goto("queue")
    /\ store' = [store EXCEPT !.validators = {}, !.jailed = {}]
    /\ OnlyStore

\* Mutant: the unbonding queue is kept.
MutQueueDeleted == store.queue
QueueDeleted == {}

DeleteUnbondingQueue ==
    /\ pc = "queue"
    /\ Goto("add")
    /\ store' = [store EXCEPT !.queue = QueueDeleted]
    /\ OnlyStore

\* Mutant: the tokens overflow.
MutVotingPower == -NewPower
VotingPower == NewPower

(* SetValidator, SetValidatorByConsAddr, SetValidatorByPowerIndex,         *)
(* SetLastValidatorPower, and the hook that creates reward records.        *)
Added(s) ==
    [s EXCEPT !.validators = @ \cup {op}, !.power[op] = VotingPower,
              !.byCons[key] = op,
              !.powerIndex = @ \cup {<<VotingPower, op>>}, !.lastVals = @ \cup {op}]

AddValidator ==
    /\ pc = "add"
    /\ \/ Continue("records")
          /\ store' = [Added(store) EXCEPT !.records = CreateRecords(@, op)]
       \/ Fails
    /\ OnlyStoreOrExit

(* The same four reward records once more.                                 *)
InitializeRecords ==
    /\ pc = "records"
    /\ \/ Continue("signing") /\ store' = [store EXCEPT !.records = CreateRecords(@, op)]
       \/ Fails
    /\ OnlyStoreOrExit

(* An error is not handled here: the command goes on without the info.     *)
SetSigningInfo ==
    /\ pc = "signing"
    /\ Goto("fund")
    /\ \/ store' = [store EXCEPT !.signing = @ \cup {key}] /\ UNCHANGED cause
       \/ cause' = "ignored" /\ UNCHANGED store
    /\ OnlyStoreOrExit

NextAccount == pc' = "fund" /\ k' = k + 1 /\ UNCHANGED cause

\* Mutant: an account that cannot be funded is passed over.
MutFundAccount ==
    /\ pc = "fund" /\ k =< Len(accounts)
    /\ NextAccount
    /\ store' = IF accounts[k] \in Accounts
                THEN [store EXCEPT !.funded[accounts[k]] = @ + Fund]
                ELSE [store EXCEPT !.minted = @ + Fund]
    /\ OnlyStoreOrExit

(* Loop over the accounts: coins are minted, then the address is parsed,   *)
(* then they are sent.                                                     *)
FundAccount ==
    /\ pc = "fund" /\ k =< Len(accounts)
    /\ \/ /\ accounts[k] \in Accounts
          /\ NextAccount
          /\ store' = [store EXCEPT !.funded[accounts[k]] = @ + Fund]
       \/ accounts[k] \notin Accounts /\ Exit("address")
       \/ Fails
    /\ OnlyStoreOrExit

AllFunded == k > Len(accounts)

StartNode ==
    /\ pc = "fund" /\ AllFunded
    /\ Goto("block")
    /\ UNCHANGED store
    /\ OnlyStore

----------------------------------------------------------------------------
(* The first block (external).  BeginBlock looks up the validator that     *)
(* signed and its signing info; EndBlock looks up every validator in the   *)
(* power index, every one that leaves the set and every one whose          *)
(* unbonding is over.                                                      *)
BlockFails(s) ==
    \/ s.byCons[key] \notin s.validators
    \/ key \notin s.signing
    \/ \E e \in s.powerIndex : e[2] \notin s.validators \/ e[2] \in s.jailed
    \/ ~(s.lastVals \subseteq s.validators)
    \/ ~(s.queue \subseteq s.validators)

Elected(s) == {e[2] : e \in s.powerIndex}

FirstBlock ==
    /\ pc = "block"
    /\ IF BlockFails(store)
       THEN Goto("failed") /\ store' = committed /\ UNCHANGED committed
       ELSE /\ store' = [store EXCEPT !.lastVals = Elected(store)]
            /\ committed' = store'
            /\ Goto("running")
    /\ UNCHANGED <<flags, runs, cause, txPanic>>

(* A delegation to the validator withdraws its rewards, in a transaction:  *)
(* it panics if a reference count is wrong or if the delegation starts     *)
(* after the last ended period, and then changes nothing.                  *)
Withdraw ==
    /\ pc = "running"
    /\ \E d \in Dels :
          /\ ValOf[d] = op
          /\ LET ended == EndPeriod(store.records, op)
                 after == RestartDelegation(ended, d, TRUE, 0)
             IN IF after.fault \/ store.records.start[d] > ended.period[op] - 1
                THEN txPanic' = TRUE /\ UNCHANGED <<store, committed>>
                ELSE /\ store.records.period[op] < PeriodCap + NDels
                     /\ store' = [store EXCEPT !.records = after]
                     /\ committed' = store'
                     /\ UNCHANGED txPanic
    /\ UNCHANGED <<pc, k, flags, runs, cause>>

(* The node is stopped, or the process killed at any statement.            *)
Kill ==
    /\ pc \notin {"idle", "exited", "failed"}
    /\ Goto("idle")
    /\ store' = committed
    /\ OnlyStore

Stopped == pc \in {"idle", "exited", "failed"} /\ UNCHANGED vars

Command ==
    \/ DeletePowerIndex \/ DeleteLastValidators \/ DeleteValidators
    \/ DeleteUnbondingQueue \/ AddValidator \/ InitializeRecords
    \/ SetSigningInfo \/ FundAccount \/ StartNode \/ FirstBlock

Next == Invoke \/ Command \/ Withdraw \/ Kill \/ Stopped

Spec == Init /\ [][Next]_vars
----------------------------------------------------------------------------
(* Properties.                                                             *)

TypeOK ==
    /\ pc \in Statements /\ k \in Nat \ {0}
    /\ op \in Vals /\ key \in Keys
    /\ store \in Stores /\ committed \in Stores
    /\ runs \in 0 .. MaxRuns /\ txPanic \in BOOLEAN
    /\ cause \in {"none", "fault", "address", "ignored"}

(* Whatever ends the command, and however often it is run, the stores      *)
(* that a node finds on disk agree with each other.                        *)
CommittedAgrees == IndexesAgree(committed)

(* The first block after the command succeeds: its keepers find everything *)
(* that the indexes name, unless an error was ignored at testnet.go:175.   *)
FirstBlockSucceeds == pc = "failed" => cause = "ignored"

(* What the command leaves on disk, whatever stops it and however often it *)
(* runs, is the chain of before or one whose only validator is the new one *)
(* (testnet.go:118-151), elected with all the power and with a key that    *)
(* signs, and in which every account has been sent one unit for every time *)
(* that the list names it, all that was minted (testnet.go:183-192).       *)
Swap == INSTANCE TestnetSwap WITH
    Validators <- Vals,
    Lists <- AccountLists,
    validators <- committed.validators,
    elected <- committed.lastVals,
    power <- committed.power,
    signers <- {committed.byCons[c] : c \in committed.signing},
    funded <- committed.funded,
    unsent <- committed.minted

ImplementsSwap == Swap!SwapSpec

(* testnet.go:56 "Comma-separated list of account addresses that will be   *)
(* funded for testing purposes": a command that names none is not refused  *)
(* because of an address.                                                  *)
StartsWithoutAccounts == accounts = <<EmptyString>> => cause # "address"

(* testnet.go:159 "Initialize records for this validator across all        *)
(* distribution stores".                                                   *)
WithdrawalsWork == ~txPanic
=============================================================================
