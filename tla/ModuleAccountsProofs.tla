------------------------ MODULE ModuleAccountsProofs ------------------------
(***************************************************************************)
(* Theorems about ModuleAccounts, for any amounts of coins, any modules    *)
(* that exports leave out, and every bound.                                *)
(***************************************************************************)
EXTENDS ModuleAccounts, TLAPS

USE CoinsAssumption, NewTokensAssumption, CapsAssumption

----------------------------------------------------------------------------
(* The inductive invariant.                                                *)

(* The module of this account has read its part of the genesis.            *)
Imported(a) ==
    \/ pc # "genesis"
    \/ a = "distribution" /\ k > 4
    \/ a \in {Bonded, NotBonded} /\ k > 5
    \/ a = "gov" /\ k > 7

PendingIsZero == \A a \in Holders : ~Imported(a) => claims[a] = 0

(* From the bank's turn to that of the genesis transactions no coin moves. *)
Loaded ==
    pc = "genesis" /\ k \in 4 .. 9 /\ "bank" \in modules => bank = genesis.bank

(* What a genesis says adds up, but for what was done to its chain.        *)
Excused(a) ==
    \/ a = "gov" /\ "gov" \in odd
    \/ a # "gov" /\ "testnet" \in odd
    \/ a = "distribution" /\ "unsent" \in odd

GenesisAddsUp ==
    pc = "genesis" =>
        /\ genesis.gentxs =< genesis.bank[Users]
        /\ genesis.gentxs > 0 => modules = Modules
        /\ \A a \in Holders : genesis.bank[a] = genesis.claims[a] \/ Excused(a)

(* What PoolsBacked says, for the modules that have read their part.       *)
BackedSoFar ==
    \A a \in Holders :
        Imported(a) /\ Owner[a] \in modules /\ ~Backed(a) =>
            /\ pc # "genesis"
            /\ IF a = "gov" THEN "gov" \in odd ELSE "testnet" \in odd

(* Tokens that are unbonding are held, even on a testnet.                  *)
UnbondingHeld == claims[NotBonded] =< bank[NotBonded]

(* Without the staking module there is no validator, and no chain.         *)
NeedsStaking == "staking" \notin modules => pc = "genesis" /\ claims[Bonded] = 0

FeesShared ==
    pc = "begin" /\ k = 3 /\ height > 0 /\ "distribution" \in modules =>
        bank["fee_collector"] = 0

IInv ==
    /\ TypeOK /\ PendingIsZero /\ Loaded /\ GenesisAddsUp /\ BackedSoFar
    /\ UnbondingHeld /\ NeedsStaking /\ FeesShared /\ FailuresExplained

----------------------------------------------------------------------------
(* The orders of the modules, and which account is which.                  *)
LEMMA OrderLengths ==
    Len(InitGenesis) = 22 /\ Len(BeginBlockers) = 9 /\ Len(EndBlockers) = 5
BY DEF InitGenesis, BeginBlockers, EndBlockers

LEMMA GenesisOrder ==
    ASSUME NEW n \in 1 .. 22
    PROVE  /\ InitGenesis[n] = "bank" <=> n = 3
           /\ InitGenesis[n] = "distribution" <=> n = 4
           /\ InitGenesis[n] = "staking" <=> n = 5
           /\ InitGenesis[n] = "gov" <=> n = 7
           /\ InitGenesis[n] = "genutil" <=> n = 9
BY DEF InitGenesis

LEMMA BeginOrder ==
    ASSUME NEW n \in 1 .. 9
    PROVE  /\ BeginBlockers[n] = "mint" <=> n = 1
           /\ BeginBlockers[n] = "distribution" <=> n = 2
           /\ BeginBlockers[n] = "slashing" <=> n = 3
           /\ BeginBlockers[n] = "evidence" <=> n = 4
BY DEF BeginBlockers

LEMMA EndOrder ==
    ASSUME NEW n \in 1 .. 5
    PROVE  /\ EndBlockers[n] = "gov" <=> n = 1
           /\ EndBlockers[n] = "staking" <=> n = 2
BY DEF EndBlockers

LEMMA NamedModules ==
    {"bank", "distribution", "staking", "gov", "genutil"} \subseteq Modules
<1>1. \A n \in 1 .. 22 : InitGenesis[n] \in Modules
    BY OrderLengths DEF Modules, Range, InitGenesis
<1> QED  BY <1>1, GenesisOrder

LEMMA Names ==
    /\ Holders = {"distribution", "gov", "bonded_tokens_pool", "not_bonded_tokens_pool"}
    /\ Holders \subseteq Accounts
    /\ {"users", "fee_collector"} \subseteq Accounts
    /\ (Accounts \cap Holders) \ BlockedAddresses = {"gov"}
BY DEF Holders, Owner, Accounts, ModuleAccPerms, Users, BlockedAddresses, BlockAccAddrs

LEMMA Owners ==
    /\ Owner["distribution"] = "distribution" /\ Owner["gov"] = "gov"
    /\ Owner[Bonded] = "staking" /\ Owner[NotBonded] = "staking"
BY DEF Owner, Bonded, NotBonded

LEMMA Permissions ==
    /\ May("mint", "minter") /\ May("gov", "burner")
    /\ May(Bonded, "burner") /\ May(NotBonded, "burner") /\ May(NotBonded, "staking")
BY DEF May, ModuleAccPerms, Bonded, NotBonded

\* What moving coins does to balances, or to claims.
LEMMA MovedCoins ==
    ASSUME NEW A, NEW b \in [A -> Nat], NEW from \in A, NEW to \in A, from # to,
           NEW x \in Nat, x =< b[from]
    PROVE  /\ Moved(b, from, to, x) \in [A -> Nat]
           /\ Moved(b, from, to, x)[from] = b[from] - x
           /\ Moved(b, from, to, x)[to] = b[to] + x
           /\ \A a \in A \ {from, to} : Moved(b, from, to, x)[a] = b[a]
BY DEF Moved

LEMMA AddedCoins ==
    ASSUME NEW A, NEW b \in [A -> Nat], NEW to \in A, NEW x \in Nat
    PROVE  /\ [b EXCEPT ![to] = @ + x] \in [A -> Nat]
           /\ [b EXCEPT ![to] = @ + x][to] = b[to] + x
           /\ \A a \in A \ {to} : [b EXCEPT ![to] = @ + x][a] = b[a]
OBVIOUS

LEMMA SpentCoins ==
    ASSUME NEW A, NEW b \in [A -> Nat], NEW from \in A, NEW x \in Nat, x =< b[from]
    PROVE  /\ [b EXCEPT ![from] = @ - x] \in [A -> Nat]
           /\ [b EXCEPT ![from] = @ - x][from] = b[from] - x
           /\ \A a \in A \ {from} : [b EXCEPT ![from] = @ - x][a] = b[a]
OBVIOUS

----------------------------------------------------------------------------
(* The initial state.                                                      *)
LEMMA InitHolds ==
    ASSUME Init
    PROVE  IInv
<1>1. /\ pc = "genesis" /\ k = 1 /\ failed = FALSE /\ height = 0 /\ modules = Modules
      /\ odd = {} /\ bank = NoCoins /\ claims = NoClaims
    BY DEF Init
<1>2. PICK stake \in 1 .. Coins :
        genesis = [NoGenesis EXCEPT !.bank[Users] = Coins, !.gentxs = stake]
    BY DEF Init
<1>3. genesis = [bank |-> [NoCoins EXCEPT ![Users] = Coins], claims |-> NoClaims,
                 gentxs |-> stake, height |-> 0]
    BY <1>2 DEF NoGenesis
<1>4. NoCoins \in [Accounts -> Nat] /\ NoClaims \in [Holders -> Nat]
    BY DEF NoCoins, NoClaims
<1>5. TypeOK
    <2>1. genesis \in [bank : [Accounts -> Nat], claims : [Holders -> Nat],
                       gentxs : Nat, height : 0 .. HeightCap]
        <3>1. [NoCoins EXCEPT ![Users] = Coins] \in [Accounts -> Nat]
            BY <1>4
        <3>2. stake \in Nat /\ 0 \in 0 .. HeightCap
            OBVIOUS
        <3> QED  BY <1>3, <1>4, <3>1, <3>2
    <2>2. failed \in BOOLEAN
        BY <1>1
    <2>3. pc \in Phases /\ k \in 1 .. Len(InitGenesis) + 1 /\ height \in 0 .. HeightCap
        BY <1>1, OrderLengths DEF Phases
    <2>4. modules \subseteq Modules /\ odd \subseteq Oddities
        BY <1>1
    <2> QED  BY <1>1, <1>4, <2>1, <2>2, <2>3, <2>4 DEF TypeOK
<1>6. GenesisAddsUp
    BY <1>1, <1>3, Names DEF GenesisAddsUp, Users, NoCoins, NoClaims
<1>7. PendingIsZero /\ Loaded /\ UnbondingHeld /\ FeesShared /\ FailuresExplained
    BY <1>1, Names
    DEF PendingIsZero, Loaded, UnbondingHeld, FeesShared, FailuresExplained, NotBonded,
        NoCoins, NoClaims
<1>8. BackedSoFar /\ NeedsStaking
    BY <1>1, NamedModules, Names DEF BackedSoFar, NeedsStaking, Imported, Backed, NoCoins, NoClaims
<1> QED  BY <1>5, <1>6, <1>7, <1>8 DEF IInv

----------------------------------------------------------------------------
(* The modules start the chain.                                            *)

\* A module that fails leaves everything as it is, and has an excuse.
LEMMA FailsHolds ==
    ASSUME IInv, Fails, OnlyCoins,
           IF pc = "genesis" THEN RefusalExplained ELSE BlockFailureExplained
    PROVE  IInv'
<1> USE DEF Fails, OnlyCoins
<1>1. TypeOK'
    BY DEF IInv, TypeOK
<1>2. PendingIsZero' /\ BackedSoFar'
    BY DEF IInv, PendingIsZero, BackedSoFar, Imported, Backed
<1>3. GenesisAddsUp' /\ Loaded' /\ UnbondingHeld' /\ NeedsStaking' /\ FeesShared'
    BY DEF IInv, GenesisAddsUp, Excused, Loaded, UnbondingHeld, NeedsStaking, FeesShared
<1>4. FailuresExplained'
    BY DEF FailuresExplained, RefusalExplained, BlockFailureExplained
<1> QED  BY <1>1, <1>2, <1>3, <1>4 DEF IInv

\* A module without coins of its own has its turn.
LEMMA GenesisTurnHolds ==
    ASSUME IInv, pc = "genesis", ~failed, k \in 1 .. 22, Turn, OnlyCoins,
           UNCHANGED <<bank, claims, odd>>,
           k \in {4, 5, 7} => InitGenesis[k] \notin modules,
           k = 3 => "bank" \notin modules
    PROVE  IInv'
<1> USE DEF Turn, OnlyCoins
<1>1. TypeOK'
    BY OrderLengths DEF IInv, TypeOK
<1>2. PendingIsZero'
    BY DEF IInv, PendingIsZero, Imported
<1>3. BackedSoFar'
    BY GenesisOrder, Names, Owners DEF IInv, BackedSoFar, Imported, Backed, Bonded, NotBonded
<1>4. GenesisAddsUp' /\ Loaded' /\ UnbondingHeld' /\ NeedsStaking' /\ FeesShared'
    BY DEF IInv, GenesisAddsUp, Excused, Loaded, UnbondingHeld, NeedsStaking, FeesShared
<1>5. FailuresExplained'
    BY DEF FailuresExplained
<1> QED  BY <1>1, <1>2, <1>3, <1>4, <1>5 DEF IInv

LEMMA ImportHolds ==
    ASSUME IInv, pc = "genesis", ~failed, k \in {4, 5, 7}, OnlyCoins,
           InitGenesis[k] \in modules, Import(InitGenesis[k])
    PROVE  IInv'
<1> DEFINE own == {a \in Holders : Owner[a] = InitGenesis[k]}
<1>a. /\ k = 4 => own = {"distribution"} /\ InitGenesis[k] = "distribution"
      /\ k = 5 => own = {Bonded, NotBonded} /\ InitGenesis[k] = "staking"
      /\ k = 7 => own = {"gov"} /\ InitGenesis[k] = "gov"
    BY GenesisOrder, Names, Owners DEF Bonded, NotBonded
<1>b. genesis.claims \in [Holders -> Nat]
    BY DEF IInv, TypeOK
<1>1. CASE /\ \A a \in own : bank[a] = genesis.claims[a]
           /\ claims' = [a \in Holders |-> IF a \in own THEN genesis.claims[a] ELSE claims[a]]
           /\ Turn /\ UNCHANGED <<bank, odd>>
    <2> USE <1>1 DEF Turn, OnlyCoins
    <2>1. TypeOK'
        BY <1>b, OrderLengths DEF IInv, TypeOK
    <2>2. PendingIsZero'
        BY <1>a, Names DEF IInv, PendingIsZero, Imported, Bonded, NotBonded
    <2>3. BackedSoFar'
        BY <1>a, Names DEF IInv, BackedSoFar, Imported, Backed, Bonded, NotBonded
    <2>4. GenesisAddsUp' /\ Loaded' /\ FeesShared'
        BY DEF IInv, GenesisAddsUp, Excused, Loaded, FeesShared
    <2>5. UnbondingHeld' /\ NeedsStaking'
        BY <1>a, <1>b, Names DEF IInv, UnbondingHeld, NeedsStaking, Bonded, NotBonded
    <2>6. FailuresExplained'
        BY DEF FailuresExplained
    <2> QED  BY <2>1, <2>2, <2>3, <2>4, <2>5, <2>6 DEF IInv
<1>2. CASE (\E a \in own : bank[a] # genesis.claims[a]) /\ Fails
    <2>1. PICK a \in own : bank[a] # genesis.claims[a]
        BY <1>2
    <2>2. "bank" \in modules => Excused(a)
        BY <2>1, Names DEF IInv, Loaded, GenesisAddsUp
    <2>3. RefusalExplained
        BY <2>1, <2>2, <1>a DEF RefusalExplained, Excused, Bonded, NotBonded
    <2> QED  BY <1>2, <2>3, FailsHolds
<1> QED  BY <1>1, <1>2 DEF Import

LEMMA BalancesHolds ==
    ASSUME IInv, pc = "genesis", ~failed, k = 3, OnlyCoins, ImportBalances
    PROVE  IInv'
<1> USE DEF Turn, OnlyCoins, ImportBalances
<1>1. TypeOK'
    BY OrderLengths DEF IInv, TypeOK
<1>2. PendingIsZero' /\ BackedSoFar'
    BY Names DEF IInv, PendingIsZero, BackedSoFar, Imported, Bonded, NotBonded
<1>3. GenesisAddsUp' /\ Loaded' /\ NeedsStaking' /\ FeesShared' /\ FailuresExplained'
    BY DEF IInv, GenesisAddsUp, Excused, Loaded, NeedsStaking, FeesShared, FailuresExplained
<1>4. UnbondingHeld'
    <2>1. claims'[NotBonded] = 0
        BY Names DEF IInv, PendingIsZero, Imported, NotBonded
    <2>2. bank'[NotBonded] \in Nat
        BY <1>1, Names DEF TypeOK, NotBonded
    <2> QED  BY <2>1, <2>2 DEF UnbondingHeld
<1> QED  BY <1>1, <1>2, <1>3, <1>4 DEF IInv

\* Coins that move into a pool are claimed from it.
LEMMA GenTxsHolds ==
    ASSUME IInv, pc = "genesis", ~failed, k = 9, OnlyCoins,
           "genutil" \in modules, DeliverGenTxs
    PROVE  IInv'
<1> DEFINE x == genesis.gentxs
<1>a. x \in Nat /\ bank[Users] \in Nat /\ claims[Bonded] \in Nat
    BY Names DEF IInv, TypeOK, Users, Bonded
<1>1. CASE /\ x =< bank[Users]
           /\ bank' = Moved(bank, Users, Bonded, x)
           /\ claims' = [claims EXCEPT ![Bonded] = @ + x]
           /\ Turn /\ UNCHANGED odd
    <2> USE <1>1, <1>a DEF Turn, OnlyCoins
    <2>a. bank \in [Accounts -> Nat] /\ claims \in [Holders -> Nat]
        BY DEF IInv, TypeOK
    <2>b. Users \in Accounts /\ Bonded \in Accounts /\ Bonded \in Holders /\ Users # Bonded
        BY Names DEF Users, Bonded
    <2>1. /\ bank' \in [Accounts -> Nat] /\ bank'[Bonded] = bank[Bonded] + x
          /\ \A a \in Accounts \ {Users, Bonded} : bank'[a] = bank[a]
        BY <2>a, <2>b, MovedCoins
    <2>c. /\ claims' \in [Holders -> Nat] /\ claims'[Bonded] = claims[Bonded] + x
          /\ \A a \in Holders \ {Bonded} : claims'[a] = claims[a]
        BY <2>a, <2>b, AddedCoins
    <2>2. TypeOK'
        BY <2>1, <2>c, OrderLengths DEF IInv, TypeOK
    <2>3. PendingIsZero' /\ Loaded' /\ GenesisAddsUp' /\ FeesShared' /\ FailuresExplained'
        BY <2>c, Names
        DEF IInv, PendingIsZero, Imported, Loaded, GenesisAddsUp, Excused, FeesShared,
            FailuresExplained, Bonded, NotBonded
    <2>4. BackedSoFar'
        <3> SUFFICES ASSUME NEW a \in Holders, Owner[a] \in modules
                     PROVE  bank'[a] = claims'[a]
            BY DEF BackedSoFar, Backed
        <3>1. bank[a] = claims[a]
            BY Names DEF IInv, BackedSoFar, Imported, Backed, Bonded, NotBonded
        <3> QED  BY <2>1, <2>c, <3>1, Names DEF Users, Bonded
    <2>5. UnbondingHeld'
        BY <2>1, <2>c, Names DEF IInv, UnbondingHeld, Users, Bonded, NotBonded
    <2>6. NeedsStaking'
        <3>1. "staking" \notin modules => x = 0 /\ claims[Bonded] = 0
            BY NamedModules DEF IInv, NeedsStaking, GenesisAddsUp
        <3> QED  BY <2>c, <3>1 DEF NeedsStaking
    <2> QED  BY <2>2, <2>3, <2>4, <2>5, <2>6 DEF IInv
<1>2. CASE ~(x =< bank[Users]) /\ Fails
    <2>1. RefusalExplained
        BY <1>2, <1>a DEF RefusalExplained, IInv, Loaded, GenesisAddsUp
    <2> QED  BY <1>2, <2>1, FailsHolds
<1> QED  BY <1>1, <1>2, Permissions DEF DeliverGenTxs

LEMMA InitModuleHolds ==
    ASSUME IInv, InitModule
    PROVE  IInv'
<1>a. pc = "genesis" /\ ~failed /\ k \in 1 .. 22 /\ OnlyCoins
    BY OrderLengths DEF InitModule, IInv, TypeOK
<1> DEFINE module == InitGenesis[k]
<1>1. CASE module = "bank" /\ ImportBalances
    BY <1>1, <1>a, GenesisOrder, BalancesHolds
<1>2. CASE module \in modules /\ module \in Bookkeepers /\ Import(module)
    BY <1>2, <1>a, GenesisOrder, ImportHolds DEF Bookkeepers
<1>3. CASE module \in modules /\ module = "genutil" /\ DeliverGenTxs
    BY <1>3, <1>a, GenesisOrder, GenTxsHolds
<1>4. CASE /\ module \notin modules \cap (Bookkeepers \cup {"bank", "genutil"})
           /\ Turn /\ UNCHANGED <<bank, claims, odd>>
    BY <1>4, <1>a, GenesisOrder, GenesisTurnHolds DEF Bookkeepers
<1> QED  BY <1>1, <1>2, <1>3, <1>4 DEF InitModule

LEMMA StartedHolds ==
    ASSUME IInv, Started
    PROVE  IInv'
<1>a. pc = "genesis" /\ ~failed /\ k > 22
    BY OrderLengths DEF Started
<1>1. CASE /\ claims[Bonded] > 0
           /\ pc' = "started" /\ k' = 1
           /\ height' = genesis.height /\ genesis' = NoGenesis /\ odd' = {}
           /\ UNCHANGED <<failed, modules, bank, claims>>
    <2> USE <1>1, <1>a
    <2>1. genesis' \in [bank : [Accounts -> Nat], claims : [Holders -> Nat],
                        gentxs : Nat, height : 0 .. HeightCap]
        BY DEF NoGenesis, NoCoins, NoClaims
    <2>2. genesis.height \in 0 .. HeightCap
        BY DEF IInv, TypeOK
    <2>3. TypeOK'
        BY <2>1, <2>2, OrderLengths DEF IInv, TypeOK, Phases
    <2>4. PendingIsZero' /\ Loaded' /\ GenesisAddsUp' /\ UnbondingHeld' /\ FeesShared'
        BY DEF IInv, PendingIsZero, Imported, Loaded, GenesisAddsUp, UnbondingHeld, FeesShared
    <2>5. BackedSoFar'
        <3>1. \A a \in Holders : Imported(a)
            BY OrderLengths, Names DEF IInv, TypeOK, Imported, Bonded, NotBonded
        <3> QED  BY <3>1 DEF IInv, BackedSoFar, Backed
    <2>6. NeedsStaking' /\ FailuresExplained'
        BY DEF IInv, TypeOK, NeedsStaking, FailuresExplained
    <2> QED  BY <2>3, <2>4, <2>5, <2>6 DEF IInv
<1>2. CASE Fails /\ OnlyCoins
    BY <1>2, <1>a, OrderLengths, FailsHolds DEF RefusalExplained
<1> QED  BY <1>1, <1>2 DEF Started

----------------------------------------------------------------------------
(* The chain runs.                                                         *)

\* A step of a chain that does not fail, whatever it does to the coins.
Running ==
    /\ pc # "genesis" /\ pc' \in Phases \ {"genesis"} /\ failed' = FALSE
    /\ k' \in 1 .. 23 /\ height' \in 0 .. HeightCap /\ UNCHANGED <<modules, genesis>>
    /\ odd' \subseteq Oddities /\ odd \subseteq odd'

\* What is left to show of it.
LEMMA ChainHolds ==
    ASSUME IInv, Running,
           bank' \in [Accounts -> Nat], claims' \in [Holders -> Nat],
           \A a \in Holders :
               \/ bank[a] = claims[a] => bank'[a] = claims'[a]
               \/ IF a = "gov" THEN "gov" \in odd' ELSE "testnet" \in odd',
           UnbondingHeld', FeesShared'
    PROVE  IInv'
<1>1. TypeOK'
    <2>1. failed' \in BOOLEAN
        BY DEF Running
    <2>2. pc' \in Phases /\ k' \in 1 .. Len(InitGenesis) + 1
        BY OrderLengths DEF Running
    <2> QED  BY <2>1, <2>2 DEF IInv, TypeOK, Running
<1>2. PendingIsZero' /\ Loaded' /\ GenesisAddsUp' /\ NeedsStaking' /\ FailuresExplained'
    BY DEF IInv, PendingIsZero, Imported, Loaded, GenesisAddsUp, NeedsStaking,
           FailuresExplained, Running
<1>3. BackedSoFar'
    BY DEF IInv, BackedSoFar, Imported, Backed, Running
<1> QED  BY <1>1, <1>2, <1>3 DEF IInv

\* A step that moves no coins.
LEMMA QuietHolds ==
    ASSUME IInv, Running, UNCHANGED <<bank, claims, odd>>, FeesShared'
    PROVE  IInv'
<1>1. /\ bank' \in [Accounts -> Nat] /\ claims' \in [Holders -> Nat] /\ UnbondingHeld'
    BY DEF IInv, TypeOK, UnbondingHeld
<1> QED  BY <1>1, ChainHolds

\* A module that has had its turn.
LEMMA TurnRuns ==
    ASSUME IInv, pc # "genesis", ~failed, k \in 1 .. 22, Turn, OnlyCoins, UNCHANGED odd
    PROVE  Running
BY DEF IInv, TypeOK, Running, Turn, OnlyCoins

LEMMA FinalizeBlockHolds ==
    ASSUME IInv, FinalizeBlock
    PROVE  IInv'
<1>1. failed = FALSE
    BY DEF IInv, TypeOK, FinalizeBlock, FailuresExplained, BlockFailureExplained
<1>2. Running
    BY <1>1 DEF FinalizeBlock, OnlyCoins, IInv, TypeOK, Running, Phases
<1>3. FeesShared' /\ UNCHANGED <<bank, claims, odd>>
    BY DEF FinalizeBlock, FeesShared
<1> QED  BY <1>2, <1>3, QuietHolds

LEMMA MintHolds ==
    ASSUME IInv, pc = "begin", ~failed, k = 1, OnlyCoins, MintProvision
    PROVE  IInv'
<1> DEFINE fees == "fee_collector"
<1>a. /\ bank \in [Accounts -> Nat] /\ claims \in [Holders -> Nat]
      /\ fees \in Accounts /\ fees \notin Holders
    BY Names DEF IInv, TypeOK
<1>1. PICK x \in 0 .. 1 :
        /\ bank' = [bank EXCEPT ![fees] = @ + x]
        /\ Turn /\ UNCHANGED <<claims, odd>>
    BY Permissions DEF MintProvision
<1>2. bank' \in [Accounts -> Nat] /\ \A a \in Accounts \ {fees} : bank'[a] = bank[a]
    BY <1>a, <1>1, AddedCoins
<1>3. UnbondingHeld' /\ FeesShared'
    BY <1>1, <1>2, Names DEF IInv, UnbondingHeld, FeesShared, Turn, NotBonded
<1>4. \A a \in Holders : bank'[a] = bank[a] /\ claims'[a] = claims[a]
    BY <1>a, <1>1, <1>2, Names
<1>5. Running
    BY <1>1, TurnRuns
<1> QED  BY <1>a, <1>1, <1>2, <1>3, <1>4, <1>5, ChainHolds

LEMMA AllocateHolds ==
    ASSUME IInv, pc = "begin", ~failed, k = 2, OnlyCoins, AllocateTokens
    PROVE  IInv'
<1> DEFINE fees == "fee_collector"
           pool == "distribution"
<1>a. /\ bank \in [Accounts -> Nat] /\ claims \in [Holders -> Nat] /\ height \in Nat
      /\ fees \in Accounts /\ fees \notin Holders /\ pool \in Holders /\ pool \in Accounts
    BY Names DEF IInv, TypeOK
<1>b. Turn /\ UNCHANGED odd /\ Running
    BY TurnRuns DEF AllocateTokens
<1>1. CASE height > 0
    <2>1. /\ bank' = Moved(bank, fees, pool, bank[fees])
          /\ claims' = [claims EXCEPT ![pool] = @ + bank[fees]]
        BY <1>1 DEF AllocateTokens
    <2>a. bank[fees] \in Nat /\ bank[fees] =< bank[fees] /\ fees # pool
        BY <1>a
    <2>2. /\ bank' \in [Accounts -> Nat] /\ bank'[fees] = bank[fees] - bank[fees]
          /\ bank'[pool] = bank[pool] + bank[fees]
          /\ \A a \in Accounts \ {fees, pool} : bank'[a] = bank[a]
        BY <1>a, <2>a, <2>1, MovedCoins
    <2>3. /\ claims' \in [Holders -> Nat] /\ claims'[pool] = claims[pool] + bank[fees]
          /\ \A a \in Holders \ {pool} : claims'[a] = claims[a]
        BY <1>a, <2>a, <2>1, AddedCoins
    <2>4. UnbondingHeld' /\ FeesShared'
        BY <2>a, <2>2, <2>3, Names DEF IInv, UnbondingHeld, FeesShared, NotBonded
    <2>5. \A a \in Holders : bank[a] = claims[a] => bank'[a] = claims'[a]
        BY <1>a, <2>2, <2>3, Names
    <2> QED  BY <1>b, <2>2, <2>3, <2>4, <2>5, ChainHolds
<1>2. CASE ~(height > 0)
    <2>1. UNCHANGED <<bank, claims, odd>>
        BY <1>2, <1>b DEF AllocateTokens
    <2>2. FeesShared'
        BY <1>2 DEF FeesShared, OnlyCoins
    <2> QED  BY <1>b, <2>1, <2>2, QuietHolds
<1> QED  BY <1>1, <1>2

LEMMA SlashHolds ==
    ASSUME IInv, pc = "begin", ~failed, k \in {3, 4}, OnlyCoins, Slash,
           BeginBlockers[k] \in {"slashing", "evidence"}
    PROVE  IInv'
<1>a. /\ bank \in [Accounts -> Nat] /\ claims \in [Holders -> Nat]
      /\ {Bonded, NotBonded} \subseteq Holders \cap Accounts /\ Bonded # NotBonded
      /\ claims[NotBonded] =< bank[NotBonded] /\ Holders \subseteq Accounts
    BY Names DEF IInv, TypeOK, UnbondingHeld, Bonded, NotBonded
<1> PICK x \in 0 .. claims[Bonded], y \in 0 .. claims[NotBonded] :
        \/ /\ CanBurn(x, y)
           /\ bank' = [bank EXCEPT ![Bonded] = @ - x, ![NotBonded] = @ - y]
           /\ claims' = [claims EXCEPT ![Bonded] = @ - x, ![NotBonded] = @ - y]
           /\ Turn /\ UNCHANGED odd
        \/ ~CanBurn(x, y) /\ Fails
    BY DEF Slash
<1>b. x \in Nat /\ y \in Nat /\ x =< claims[Bonded] /\ y =< claims[NotBonded]
    BY <1>a
<1>1. CASE /\ CanBurn(x, y)
           /\ bank' = [bank EXCEPT ![Bonded] = @ - x, ![NotBonded] = @ - y]
           /\ claims' = [claims EXCEPT ![Bonded] = @ - x, ![NotBonded] = @ - y]
           /\ Turn /\ UNCHANGED odd
    <2>1. x =< bank[Bonded] /\ y =< bank[NotBonded]
        BY <1>1 DEF CanBurn
    <2>2. /\ bank' \in [Accounts -> Nat]
          /\ bank'[Bonded] = bank[Bonded] - x /\ bank'[NotBonded] = bank[NotBonded] - y
          /\ \A a \in Accounts \ {Bonded, NotBonded} : bank'[a] = bank[a]
        BY <1>1, <1>a, <1>b, <2>1
    <2>3. /\ claims' \in [Holders -> Nat]
          /\ claims'[Bonded] = claims[Bonded] - x /\ claims'[NotBonded] = claims[NotBonded] - y
          /\ \A a \in Holders \ {Bonded, NotBonded} : claims'[a] = claims[a]
        BY <1>1, <1>a, <1>b
    <2>4. UnbondingHeld' /\ FeesShared'
        BY <1>1, <1>a, <1>b, <2>2, <2>3 DEF UnbondingHeld, FeesShared, Turn
    <2>5. \A a \in Holders : bank[a] = claims[a] => bank'[a] = claims'[a]
        BY <1>a, <2>2, <2>3
    <2>6. Running
        BY <1>1, TurnRuns
    <2> QED  BY <2>2, <2>3, <2>4, <2>5, <2>6, ChainHolds
<1>2. CASE ~CanBurn(x, y) /\ Fails
    <2>1. bank[Bonded] # claims[Bonded]
        BY <1>2, <1>a, <1>b, Permissions DEF CanBurn
    <2>2. "staking" \in modules
        BY DEF IInv, NeedsStaking
    <2>3. "testnet" \in odd
        BY <1>a, <2>1, <2>2, Owners DEF IInv, BackedSoFar, Imported, Backed, Bonded
    <2> QED  BY <1>2, <2>3, FailsHolds DEF BlockFailureExplained
<1> QED  BY <1>1, <1>2

LEMMA BeginModuleHolds ==
    ASSUME IInv, BeginModule
    PROVE  IInv'
<1>a. pc = "begin" /\ ~failed /\ k \in 1 .. 9 /\ OnlyCoins
    BY OrderLengths DEF BeginModule, IInv, TypeOK
<1> DEFINE module == BeginBlockers[k]
<1>1. CASE module = "mint" /\ MintProvision
    BY <1>1, <1>a, BeginOrder, MintHolds
<1>2. CASE module = "distribution" /\ AllocateTokens
    BY <1>2, <1>a, BeginOrder, AllocateHolds
<1>3. CASE module \in {"slashing", "evidence"} /\ Slash
    BY <1>3, <1>a, BeginOrder, SlashHolds
<1>4. CASE /\ module \notin modules \cap {"mint", "distribution", "slashing", "evidence"}
           /\ Turn /\ UNCHANGED <<bank, claims, odd>>
    <2>1. Running
        BY <1>4, <1>a, TurnRuns
    <2>2. FeesShared'
        BY <1>4, <1>a, BeginOrder DEF FeesShared, Turn, OnlyCoins
    <2> QED  BY <1>4, <2>1, <2>2, QuietHolds
<1>5. CASE module \notin modules /\ Fails
    BY <1>5, <1>a, FailsHolds DEF BlockFailureExplained
<1> QED  BY <1>1, <1>2, <1>3, <1>4, <1>5 DEF BeginModule

LEMMA EndOfBeginHolds ==
    ASSUME IInv, EndOfBegin
    PROVE  IInv'
<1>1. Running
    BY DEF EndOfBegin, OnlyCoins, IInv, TypeOK, Running, Phases
<1>2. FeesShared' /\ UNCHANGED <<bank, claims, odd>>
    BY DEF EndOfBegin, FeesShared
<1> QED  BY <1>1, <1>2, QuietHolds

----------------------------------------------------------------------------
(* Transactions.                                                           *)
LEMMA DeliveringRuns ==
    ASSUME IInv, Delivering, odd' \subseteq Oddities, odd \subseteq odd'
    PROVE  Running /\ FeesShared'
<1>1. failed = FALSE
    BY DEF IInv, TypeOK, Delivering, FailuresExplained, BlockFailureExplained
<1>2. k \in 1 .. 23
    BY OrderLengths DEF IInv, TypeOK
<1> QED
    BY <1>1, <1>2 DEF Delivering, OnlyCoins, IInv, TypeOK, Running, Phases, FeesShared

LEMMA SendHolds ==
    ASSUME IInv, Send
    PROVE  IInv'
<1> PICK to \in Accounts \ (BlockedAddresses \cup {Users}), x \in 1 .. bank[Users] :
        /\ Delivering
        /\ bank' = Moved(bank, Users, to, x)
        /\ odd' = IF to = "gov" THEN odd \cup {"gov"} ELSE odd
        /\ UNCHANGED claims
    BY DEF Send
<1>a. /\ bank \in [Accounts -> Nat] /\ claims \in [Holders -> Nat] /\ odd \subseteq Oddities
      /\ Users \in Accounts /\ to \in Accounts /\ Users # to
    BY Names DEF IInv, TypeOK, Users
<1>b. x \in Nat /\ x =< bank[Users]
    BY <1>a
<1>1. /\ bank' \in [Accounts -> Nat]
      /\ \A a \in Accounts \ {Users, to} : bank'[a] = bank[a]
    BY <1>a, <1>b, MovedCoins
<1>2. \A a \in Holders \ {"gov"} : a \notin {Users, to}
    BY Names DEF Users
<1>3. \A a \in Holders \ {"gov"} : bank'[a] = bank[a]
    BY <1>1, <1>2, Names
<1>4. to # "gov" => bank'["gov"] = bank["gov"]
    BY <1>1, Names DEF Users
<1>5. UnbondingHeld'
    BY <1>3, Names DEF IInv, UnbondingHeld, NotBonded
<1>6. Running /\ FeesShared'
    BY <1>a, DeliveringRuns DEF Oddities
<1>7. \A a \in Holders :
        \/ bank[a] = claims[a] => bank'[a] = claims'[a]
        \/ IF a = "gov" THEN "gov" \in odd' ELSE "testnet" \in odd'
    BY <1>3, <1>4
<1> QED  BY <1>a, <1>1, <1>5, <1>6, <1>7, ChainHolds

LEMMA PayFeesHolds ==
    ASSUME IInv, PayFees
    PROVE  IInv'
<1> DEFINE fees == "fee_collector"
<1> PICK x \in 1 .. bank[Users] :
        Delivering /\ bank' = Moved(bank, Users, fees, x) /\ UNCHANGED <<claims, odd>>
    BY DEF PayFees
<1>a. /\ bank \in [Accounts -> Nat] /\ claims \in [Holders -> Nat] /\ odd \subseteq Oddities
      /\ Users \in Accounts /\ fees \in Accounts /\ Users # fees
    BY Names DEF IInv, TypeOK, Users
<1>b. x \in Nat /\ x =< bank[Users]
    BY <1>a
<1>1. /\ bank' \in [Accounts -> Nat]
      /\ \A a \in Accounts \ {Users, fees} : bank'[a] = bank[a]
    BY <1>a, <1>b, MovedCoins
<1>2. \A a \in Holders : bank'[a] = bank[a]
    BY <1>1, Names DEF Users
<1>3. UnbondingHeld'
    BY <1>2, Names DEF IInv, UnbondingHeld, NotBonded
<1>4. Running /\ FeesShared'
    BY <1>a, DeliveringRuns
<1> QED  BY <1>a, <1>1, <1>2, <1>3, <1>4, ChainHolds

LEMMA PayInHolds ==
    ASSUME IInv, PayIn
    PROVE  IInv'
<1> PICK h \in Holders, x \in 1 .. bank[Users] :
        /\ Delivering
        /\ bank' = Moved(bank, Users, h, x)
        /\ claims' = [claims EXCEPT ![h] = @ + x]
        /\ UNCHANGED odd
    BY DEF PayIn
<1>a. /\ bank \in [Accounts -> Nat] /\ claims \in [Holders -> Nat] /\ odd \subseteq Oddities
      /\ Users \in Accounts /\ Users \notin Holders /\ h \in Accounts /\ Users # h
    BY Names DEF IInv, TypeOK, Users
<1>b. x \in Nat /\ x =< bank[Users]
    BY <1>a
<1>1. /\ bank' \in [Accounts -> Nat] /\ bank'[h] = bank[h] + x
      /\ \A a \in Accounts \ {Users, h} : bank'[a] = bank[a]
    BY <1>a, <1>b, MovedCoins
<1>2. /\ claims' \in [Holders -> Nat] /\ claims'[h] = claims[h] + x
      /\ \A a \in Holders \ {h} : claims'[a] = claims[a]
    BY <1>a, <1>b, AddedCoins
<1>3. \A a \in Holders \ {h} : bank'[a] = bank[a]
    BY <1>a, <1>1, Names
<1>4. UnbondingHeld'
    BY <1>a, <1>b, <1>1, <1>2, <1>3, Names DEF IInv, UnbondingHeld, NotBonded
<1>5. \A a \in Holders : bank[a] = claims[a] => bank'[a] = claims'[a]
    BY <1>1, <1>2, <1>3
<1>6. Running /\ FeesShared'
    BY <1>a, DeliveringRuns
<1> QED  BY <1>1, <1>2, <1>4, <1>5, <1>6, ChainHolds

LEMMA WithdrawRewardsHolds ==
    ASSUME IInv, WithdrawRewards
    PROVE  IInv'
<1> DEFINE pool == "distribution"
<1> PICK x \in 1 .. claims[pool] :
        /\ Delivering /\ x =< bank[pool]
        /\ bank' = Moved(bank, pool, Users, x)
        /\ claims' = [claims EXCEPT ![pool] = @ - x]
        /\ UNCHANGED odd
    BY DEF WithdrawRewards
<1>a. /\ bank \in [Accounts -> Nat] /\ claims \in [Holders -> Nat] /\ odd \subseteq Oddities
      /\ Users \in Accounts /\ Users \notin Holders /\ pool \in Accounts /\ pool \in Holders
    BY Names DEF IInv, TypeOK, Users
<1>b. x \in Nat /\ x =< bank[pool] /\ x =< claims[pool]
    BY <1>a
<1>1. /\ bank' \in [Accounts -> Nat] /\ bank'[pool] = bank[pool] - x
      /\ \A a \in Accounts \ {Users, pool} : bank'[a] = bank[a]
    BY <1>a, <1>b, MovedCoins
<1>2. /\ claims' \in [Holders -> Nat] /\ claims'[pool] = claims[pool] - x
      /\ \A a \in Holders \ {pool} : claims'[a] = claims[a]
    BY <1>a, <1>b, SpentCoins
<1>3. \A a \in Holders \ {pool} : bank'[a] = bank[a]
    BY <1>a, <1>1, Names
<1>4. UnbondingHeld'
    BY <1>2, <1>3, Names DEF IInv, UnbondingHeld, NotBonded
<1>5. \A a \in Holders : bank[a] = claims[a] => bank'[a] = claims'[a]
    BY <1>1, <1>2, <1>3
<1>6. Running /\ FeesShared'
    BY <1>a, DeliveringRuns
<1> QED  BY <1>1, <1>2, <1>4, <1>5, <1>6, ChainHolds

LEMMA UndelegateHolds ==
    ASSUME IInv, Undelegate
    PROVE  IInv'
<1> PICK x \in 1 .. claims[Bonded] :
        /\ Delivering /\ x =< bank[Bonded]
        /\ bank' = Moved(bank, Bonded, NotBonded, x)
        /\ claims' = Moved(claims, Bonded, NotBonded, x)
        /\ UNCHANGED odd
    BY DEF Undelegate
<1>a. /\ bank \in [Accounts -> Nat] /\ claims \in [Holders -> Nat] /\ odd \subseteq Oddities
      /\ {Bonded, NotBonded} \subseteq Holders \cap Accounts /\ Bonded # NotBonded
    BY Names DEF IInv, TypeOK, Bonded, NotBonded
<1>b. x \in Nat /\ x =< bank[Bonded] /\ x =< claims[Bonded]
    BY <1>a
<1>1. /\ bank' \in [Accounts -> Nat] /\ bank'[Bonded] = bank[Bonded] - x
      /\ bank'[NotBonded] = bank[NotBonded] + x
      /\ \A a \in Accounts \ {Bonded, NotBonded} : bank'[a] = bank[a]
    BY <1>a, <1>b, MovedCoins
<1>2. /\ claims' \in [Holders -> Nat] /\ claims'[Bonded] = claims[Bonded] - x
      /\ claims'[NotBonded] = claims[NotBonded] + x
      /\ \A a \in Holders \ {Bonded, NotBonded} : claims'[a] = claims[a]
    BY <1>a, <1>b, MovedCoins
<1>3. UnbondingHeld'
    BY <1>a, <1>b, <1>1, <1>2 DEF IInv, UnbondingHeld
<1>4. \A a \in Holders : bank[a] = claims[a] => bank'[a] = claims'[a]
    BY <1>a, <1>1, <1>2, Names
<1>5. Running /\ FeesShared'
    BY <1>a, DeliveringRuns
<1> QED  BY <1>1, <1>2, <1>3, <1>4, <1>5, ChainHolds

LEMMA EndOfDeliverHolds ==
    ASSUME IInv, EndOfDeliver
    PROVE  IInv'
<1>1. failed = FALSE
    BY DEF IInv, TypeOK, EndOfDeliver, FailuresExplained, BlockFailureExplained
<1>2. Running
    BY <1>1, OrderLengths DEF EndOfDeliver, OnlyCoins, IInv, TypeOK, Running, Phases
<1>3. FeesShared' /\ UNCHANGED <<bank, claims, odd>>
    BY DEF EndOfDeliver, FeesShared
<1> QED  BY <1>2, <1>3, QuietHolds

----------------------------------------------------------------------------
(* The end of a block.                                                     *)
LEMMA EndProposalsHolds ==
    ASSUME IInv, pc = "end", ~failed, k = 1, OnlyCoins, "gov" \in modules, EndProposals
    PROVE  IInv'
<1> PICK refund \in 0 .. claims["gov"], burn \in 0 .. claims["gov"] :
        /\ refund + burn =< claims["gov"]
        /\ IF refund + burn =< bank["gov"] /\ (burn > 0 => May("gov", "burner"))
           THEN \E spend \in 0 .. bank["gov"] - refund - burn :
                   /\ bank' = [bank EXCEPT !["gov"] = @ - refund - burn - spend,
                                           ![Users] = @ + refund + spend]
                   /\ claims' = [claims EXCEPT !["gov"] = @ - refund - burn]
                   /\ odd' = IF spend > 0 THEN odd \cup {"gov"} ELSE odd
                   /\ Turn
           ELSE Fails
    BY DEF EndProposals
<1>a. /\ bank \in [Accounts -> Nat] /\ claims \in [Holders -> Nat] /\ odd \subseteq Oddities
      /\ Users \in Accounts /\ Users \notin Holders /\ "gov" \in Holders \cap Accounts
    BY Names DEF IInv, TypeOK, Users
<1>b. refund \in Nat /\ burn \in Nat /\ refund + burn =< claims["gov"]
    BY <1>a
<1>1. CASE refund + burn =< bank["gov"]
    <2> PICK spend \in 0 .. bank["gov"] - refund - burn :
            /\ bank' = [bank EXCEPT !["gov"] = @ - refund - burn - spend,
                                    ![Users] = @ + refund + spend]
            /\ claims' = [claims EXCEPT !["gov"] = @ - refund - burn]
            /\ odd' = IF spend > 0 THEN odd \cup {"gov"} ELSE odd
            /\ Turn
        BY <1>1, Permissions
    <2>a. bank["gov"] \in Nat /\ claims["gov"] \in Nat /\ bank[Users] \in Nat /\ "gov" # Users
        BY <1>a
    <2>b. spend \in Nat /\ spend + refund + burn =< bank["gov"]
        BY <1>b, <2>a
    <2>1. /\ bank' \in [Accounts -> Nat]
          /\ bank'["gov"] = bank["gov"] - refund - burn - spend
          /\ \A a \in Accounts \ {"gov", Users} : bank'[a] = bank[a]
        <3>1. bank["gov"] - refund - burn - spend \in Nat /\ bank[Users] + refund + spend \in Nat
            BY <1>b, <2>a, <2>b
        <3> QED  BY <1>a, <2>a, <3>1
    <2>2. /\ claims' \in [Holders -> Nat] /\ claims'["gov"] = claims["gov"] - refund - burn
          /\ \A a \in Holders \ {"gov"} : claims'[a] = claims[a]
        BY <1>a, <1>b, <2>a
    <2>3. \A a \in Holders \ {"gov"} : bank'[a] = bank[a]
        BY <1>a, <2>1, Names
    <2>4. UnbondingHeld' /\ FeesShared'
        BY <2>2, <2>3, Names DEF IInv, UnbondingHeld, NotBonded, FeesShared, Turn
    <2>5. spend = 0 => bank'["gov"] = bank["gov"] - refund - burn
        BY <1>b, <2>a, <2>1
    <2>6. \A a \in Holders :
            \/ bank[a] = claims[a] => bank'[a] = claims'[a]
            \/ IF a = "gov" THEN "gov" \in odd' ELSE "testnet" \in odd'
        <3>1. \/ "gov" \in odd'
              \/ bank["gov"] = claims["gov"] => bank'["gov"] = claims'["gov"]
            BY <2>b, <2>2, <2>5
        <3>2. \A a \in Holders \ {"gov"} : bank[a] = claims[a] => bank'[a] = claims'[a]
            BY <2>2, <2>3
        <3> QED  BY <3>1, <3>2
    <2>7. Running
        <3>1. odd' \subseteq Oddities /\ odd \subseteq odd'
            BY <1>a DEF Oddities
        <3>2. pc' = "end" /\ k' = 2 /\ failed' = failed /\ OnlyCoins
            BY DEF Turn
        <3>3. failed = FALSE /\ height \in 0 .. HeightCap
            BY DEF IInv, TypeOK
        <3> QED  BY <3>1, <3>2, <3>3 DEF Running, OnlyCoins, Phases
    <2> QED  BY <2>1, <2>2, <2>4, <2>6, <2>7, ChainHolds
<1>2. CASE ~(refund + burn =< bank["gov"])
    <2>1. bank["gov"] # claims["gov"]
        BY <1>2, <1>a, <1>b
    <2>2. "gov" \in odd
        BY <1>a, <2>1, Owners DEF IInv, BackedSoFar, Imported, Backed
    <2> QED  BY <1>2, <2>2, EndOrder, FailsHolds DEF BlockFailureExplained
<1> QED  BY <1>1, <1>2

LEMMA UpdateValidatorsHolds ==
    ASSUME IInv, pc = "end", ~failed, k = 2, OnlyCoins, "staking" \in modules,
           UpdateValidators
    PROVE  IInv'
<1> PICK x \in -claims[NotBonded] .. claims[Bonded] :
        \/ /\ x =< bank[Bonded]
           /\ \E mature \in 0 .. claims[NotBonded] + x :
                /\ bank' = [bank EXCEPT ![Bonded] = @ - x, ![NotBonded] = @ + x - mature,
                                        ![Users] = @ + mature]
                /\ claims' = [claims EXCEPT ![Bonded] = @ - x, ![NotBonded] = @ + x - mature]
           /\ Turn /\ UNCHANGED odd
        \/ x > bank[Bonded] /\ Fails
    BY DEF UpdateValidators
<1>a. /\ bank \in [Accounts -> Nat] /\ claims \in [Holders -> Nat] /\ odd \subseteq Oddities
      /\ Bonded \in Holders /\ NotBonded \in Holders /\ Bonded # NotBonded
      /\ Bonded \in Accounts /\ NotBonded \in Accounts /\ Holders \subseteq Accounts
      /\ Users \in Accounts /\ Users # Bonded /\ Users # NotBonded /\ Users \notin Holders
    BY Names DEF IInv, TypeOK, Users, Bonded, NotBonded
<1>b. /\ bank[Bonded] \in Nat /\ bank[NotBonded] \in Nat /\ bank[Users] \in Nat
      /\ claims[Bonded] \in Nat /\ claims[NotBonded] \in Nat
      /\ claims[NotBonded] =< bank[NotBonded]
    BY <1>a DEF IInv, UnbondingHeld
<1>c. x \in Int /\ x =< claims[Bonded] /\ 0 =< claims[NotBonded] + x
    BY <1>b
<1>1. CASE /\ x =< bank[Bonded]
           /\ \E mature \in 0 .. claims[NotBonded] + x :
                /\ bank' = [bank EXCEPT ![Bonded] = @ - x, ![NotBonded] = @ + x - mature,
                                        ![Users] = @ + mature]
                /\ claims' = [claims EXCEPT ![Bonded] = @ - x, ![NotBonded] = @ + x - mature]
           /\ Turn /\ UNCHANGED odd
    <2> PICK mature \in 0 .. claims[NotBonded] + x :
            /\ bank' = [bank EXCEPT ![Bonded] = @ - x, ![NotBonded] = @ + x - mature,
                                    ![Users] = @ + mature]
            /\ claims' = [claims EXCEPT ![Bonded] = @ - x, ![NotBonded] = @ + x - mature]
        BY <1>1
    <2>a. mature \in Nat /\ mature =< claims[NotBonded] + x
        BY <1>b, <1>c
    <2>b. /\ bank[Bonded] - x \in Nat /\ bank[NotBonded] + x - mature \in Nat
          /\ bank[Users] + mature \in Nat
          /\ claims[Bonded] - x \in Nat /\ claims[NotBonded] + x - mature \in Nat
        BY <1>b, <1>c, <1>1, <2>a
    <2>1. /\ bank' \in [Accounts -> Nat] /\ bank'[Bonded] = bank[Bonded] - x
          /\ bank'[NotBonded] = bank[NotBonded] + x - mature
          /\ \A a \in Accounts \ {Bonded, NotBonded, Users} : bank'[a] = bank[a]
        BY <1>a, <2>b
    <2>2. /\ claims' \in [Holders -> Nat] /\ claims'[Bonded] = claims[Bonded] - x
          /\ claims'[NotBonded] = claims[NotBonded] + x - mature
          /\ \A a \in Holders \ {Bonded, NotBonded} : claims'[a] = claims[a]
        BY <1>a, <2>b
    <2>3. UnbondingHeld' /\ FeesShared'
        BY <1>1, <1>b, <1>c, <2>a, <2>1, <2>2 DEF UnbondingHeld, FeesShared, Turn
    <2>4. \A a \in Holders : bank[a] = claims[a] => bank'[a] = claims'[a]
        BY <1>a, <2>1, <2>2
    <2>5. Running
        BY <1>1, TurnRuns
    <2> QED  BY <2>1, <2>2, <2>3, <2>4, <2>5, ChainHolds
<1>2. CASE x > bank[Bonded] /\ Fails
    <2>1. bank[Bonded] # claims[Bonded]
        BY <1>2, <1>b, <1>c
    <2>2. "testnet" \in odd
        BY <1>a, <2>1, Owners DEF IInv, BackedSoFar, Imported, Backed, Bonded
    <2> QED  BY <1>2, <2>2, EndOrder, FailsHolds DEF BlockFailureExplained
<1> QED  BY <1>1, <1>2

LEMMA EndModuleHolds ==
    ASSUME IInv, EndModule
    PROVE  IInv'
<1>a. pc = "end" /\ ~failed /\ k \in 1 .. 5 /\ OnlyCoins
    BY OrderLengths DEF EndModule, IInv, TypeOK
<1> DEFINE module == EndBlockers[k]
<1>1. CASE module \in modules /\ module = "gov" /\ EndProposals
    BY <1>1, <1>a, EndOrder, EndProposalsHolds
<1>2. CASE module \in modules /\ module = "staking" /\ UpdateValidators
    BY <1>2, <1>a, EndOrder, UpdateValidatorsHolds
<1>3. CASE Turn /\ UNCHANGED <<bank, claims, odd>>
    <2>1. Running
        BY <1>3, <1>a, TurnRuns
    <2>2. FeesShared'
        BY <1>3, <1>a DEF FeesShared, Turn
    <2> QED  BY <1>3, <2>1, <2>2, QuietHolds
<1> QED  BY <1>1, <1>2, <1>3 DEF EndModule

LEMMA CommitHolds ==
    ASSUME IInv, Commit
    PROVE  IInv'
<1>a. pc = "end" /\ ~failed /\ k > Len(EndBlockers)
    BY DEF Commit
<1>1. CASE /\ pc' = "committed" /\ k' = 1
           /\ height' = IF height < HeightCap THEN height + 1 ELSE height
           /\ UNCHANGED <<failed, modules, genesis, bank, claims, odd>>
    <2>1. Running
        BY <1>1, <1>a DEF IInv, TypeOK, Running, Phases
    <2>2. FeesShared' /\ UNCHANGED <<bank, claims, odd>>
        BY <1>1 DEF FeesShared
    <2> QED  BY <2>1, <2>2, QuietHolds
<1>2. CASE Fails /\ OnlyCoins
    BY <1>2, <1>a, FailsHolds DEF BlockFailureExplained
<1> QED  BY <1>1, <1>2 DEF Commit

----------------------------------------------------------------------------
(* The commands on a stopped chain.                                        *)
LEMMA InPlaceTestnetHolds ==
    ASSUME IInv, InPlaceTestnet
    PROVE  IInv'
<1> PICK left \in 0 .. claims["distribution"], idle \in 0 .. claims[NotBonded] :
        claims' = [claims EXCEPT ![Bonded] = NewTokens,
                                 !["distribution"] = left, ![NotBonded] = idle]
    BY DEF InPlaceTestnet
<1> PICK to \in Accounts \ BlockedAddresses :
        /\ bank' = [bank EXCEPT ![to] = @ + Fund]
        /\ odd' = odd \cup {"testnet"} \cup (IF to = "gov" THEN {"gov"} ELSE {})
    BY DEF InPlaceTestnet
<1>a. /\ bank \in [Accounts -> Nat] /\ claims \in [Holders -> Nat] /\ odd \subseteq Oddities
      /\ claims["distribution"] \in Nat /\ claims[NotBonded] \in Nat
      /\ failed = FALSE
    BY Names DEF IInv, TypeOK, NotBonded, InPlaceTestnet, FailuresExplained,
       BlockFailureExplained
<1>b. left \in Nat /\ idle \in Nat /\ idle =< claims[NotBonded]
    BY <1>a
<1>1. /\ bank' \in [Accounts -> Nat]
      /\ \A a \in Accounts \ {to} : bank'[a] = bank[a]
    BY <1>a, AddedCoins
<1>2. /\ claims' \in [Holders -> Nat] /\ claims'["gov"] = claims["gov"]
      /\ claims'[NotBonded] = idle
    BY <1>a, <1>b, Names DEF Bonded, NotBonded
<1>3. UnbondingHeld'
    <2>1. NotBonded \in Accounts \ {to}
        BY Names DEF NotBonded
    <2> QED  BY <1>1, <1>2, <1>b, <2>1 DEF IInv, TypeOK, UnbondingHeld
<1>4. \A a \in Holders :
        \/ bank[a] = claims[a] => bank'[a] = claims'[a]
        \/ IF a = "gov" THEN "gov" \in odd' ELSE "testnet" \in odd'
    BY <1>1, <1>2, Names
<1>5. Running /\ FeesShared'
    <2>1. pc = "committed" /\ OnlyCoins /\ UNCHANGED <<pc, k, failed>>
        BY DEF InPlaceTestnet
    <2>2. k \in 1 .. 23 /\ height \in 0 .. HeightCap
        BY OrderLengths DEF IInv, TypeOK
    <2>3. odd' \subseteq Oddities /\ odd \subseteq odd'
        BY <1>a DEF Oddities
    <2> QED  BY <1>a, <2>1, <2>2, <2>3 DEF OnlyCoins, Running, FeesShared, Phases
<1> QED  BY <1>1, <1>2, <1>3, <1>4, <1>5, ChainHolds

\* The genesis that is exported adds up if the books of the chain did.
LEMMA ExportHolds ==
    ASSUME IInv, Export
    PROVE  IInv'
<1> DEFINE pool == "distribution"
<1> PICK zero \in BOOLEAN, left \in LeftOuts \cup {{}},
         paid \in 0 .. claims[pool], unsent \in 0 .. claims[pool] :
        /\ paid + unsent =< claims[pool] /\ paid =< bank[pool]
        /\ ExportTo(zero, paid, unsent, Modules \ left)
    BY DEF Export
<1> USE DEF ExportTo
<1>a. /\ bank \in [Accounts -> Nat] /\ claims \in [Holders -> Nat] /\ odd \subseteq Oddities
      /\ height \in 0 .. HeightCap /\ pc = "committed" /\ modules = Modules
      /\ pool \in Holders \cap Accounts /\ Users \in Accounts /\ Users \notin Holders
      /\ pool # Users
    BY Names DEF IInv, TypeOK, Users, Export
<1>b. paid \in Nat /\ unsent \in Nat /\ paid =< bank[pool] /\ paid + unsent =< claims[pool]
    BY <1>a
<1>1. /\ genesis'.bank \in [Accounts -> Nat] /\ genesis'.bank[pool] = bank[pool] - paid
      /\ \A a \in Accounts \ {Users, pool} : genesis'.bank[a] = bank[a]
    BY <1>a, <1>b, MovedCoins
<1>2. /\ genesis'.claims \in [Holders -> Nat]
      /\ genesis'.claims[pool] = claims[pool] - paid - unsent
      /\ \A a \in Holders \ {pool} : genesis'.claims[a] = claims[a]
    BY <1>a, <1>b
<1>3. /\ genesis'.gentxs = 0 /\ genesis'.height \in 0 .. HeightCap
      /\ genesis' \in [bank : [Accounts -> Nat], claims : [Holders -> Nat],
                       gentxs : Nat, height : 0 .. HeightCap]
    BY <1>a, <1>1, <1>2
<1>4. /\ bank' = NoCoins /\ claims' = NoClaims /\ height' = 0 /\ pc' = "genesis" /\ k' = 1
      /\ failed' = FALSE /\ modules' \subseteq Modules /\ odd \subseteq odd'
      /\ odd' \subseteq Oddities
    BY <1>a DEF Oddities
<1>5. TypeOK'
    <2>1. bank' \in [Accounts -> Nat] /\ claims' \in [Holders -> Nat]
        BY <1>4 DEF NoCoins, NoClaims
    <2>2. pc' \in Phases /\ k' \in 1 .. Len(InitGenesis) + 1
        BY <1>4, OrderLengths DEF Phases
    <2>3. failed' \in BOOLEAN
        BY <1>4
    <2>4. height' \in 0 .. HeightCap
        BY <1>4
    <2> QED  BY <1>3, <1>4, <2>1, <2>2, <2>3, <2>4 DEF TypeOK
<1>6. GenesisAddsUp'
    <2>1. genesis'.bank[Users] \in Nat
        BY <1>a, <1>1
    <2>2. \A a \in Holders : bank[a] = claims[a] \/ Excused(a)
        BY <1>a, Names, NamedModules, Owners
        DEF IInv, BackedSoFar, Imported, Backed, Excused, Bonded, NotBonded
    <2>3. \A a \in Holders : genesis'.bank[a] = genesis'.claims[a] \/ Excused(a)'
        <3> SUFFICES ASSUME NEW a \in Holders, bank[a] = claims[a]
                     PROVE  genesis'.bank[a] = genesis'.claims[a] \/ Excused(a)'
            BY <1>4, <2>2 DEF Excused
        <3>1. CASE a = pool /\ unsent = 0
            BY <3>1, <1>a, <1>b, <1>1, <1>2
        <3>2. CASE a = pool /\ unsent # 0
            BY <3>2, <1>b DEF Excused
        <3>3. CASE a # pool
            BY <3>3, <1>a, <1>1, <1>2, Names
        <3> QED  BY <3>1, <3>2, <3>3
    <2> QED  BY <1>3, <2>1, <2>3 DEF GenesisAddsUp
<1>7. PendingIsZero' /\ Loaded' /\ UnbondingHeld' /\ FeesShared' /\ FailuresExplained'
    BY <1>4, Names
    DEF PendingIsZero, Loaded, UnbondingHeld, FeesShared, FailuresExplained, NotBonded,
        NoCoins, NoClaims
<1>8. BackedSoFar' /\ NeedsStaking'
    BY <1>4, Names DEF BackedSoFar, NeedsStaking, Imported, NoClaims, Bonded
<1> QED  BY <1>5, <1>6, <1>7, <1>8 DEF IInv

LEMMA StutterHolds ==
    ASSUME IInv, UNCHANGED vars
    PROVE  IInv'
<1> USE DEF vars, IInv
<1>1. TypeOK' /\ PendingIsZero' /\ BackedSoFar' /\ GenesisAddsUp'
    BY DEF TypeOK, PendingIsZero, Imported, BackedSoFar, Backed, GenesisAddsUp, Excused
<1>2. Loaded' /\ UnbondingHeld' /\ NeedsStaking' /\ FeesShared' /\ FailuresExplained'
    BY DEF Loaded, UnbondingHeld, NeedsStaking, FeesShared, FailuresExplained,
           RefusalExplained, BlockFailureExplained
<1> QED  BY <1>1, <1>2

LEMMA NextHolds ==
    ASSUME IInv, [Next]_vars
    PROVE  IInv'
<1>1. CASE Chain
    BY <1>1, InitModuleHolds, StartedHolds, BeginModuleHolds, EndOfBeginHolds,
       EndOfDeliverHolds, EndModuleHolds, CommitHolds DEF Chain
<1>2. CASE FinalizeBlock \/ InPlaceTestnet \/ Export
    BY <1>2, FinalizeBlockHolds, InPlaceTestnetHolds, ExportHolds
<1>3. CASE Tx
    BY <1>3, SendHolds, PayFeesHolds, PayInHolds, WithdrawRewardsHolds, UndelegateHolds DEF Tx
<1>4. CASE Stopped \/ UNCHANGED vars
    BY <1>4, StutterHolds DEF Stopped
<1> QED  BY <1>1, <1>2, <1>3, <1>4 DEF Next

LEMMA AlwaysIInv == Spec => []IInv
BY InitHolds, NextHolds, PTL DEF Spec

----------------------------------------------------------------------------
(* Balances and claims are amounts: no account is overdrawn, and no record *)
(* written below zero (app_config.go:89-110).                              *)
THEOREM TypeCorrect == Spec => []TypeOK
BY AlwaysIInv, PTL DEF IInv

(* An account holds what the records of its module say, whatever users and *)
(* the modules do, but for the governance account's own use and an         *)
(* in-place testnet (app_config.go:97, testnet.go:97).                     *)
THEOREM AccountsBacked == Spec => []PoolsBacked
<1>1. IInv => PoolsBacked
    BY DEF IInv, BackedSoFar, Imported, PoolsBacked
<1> QED  BY <1>1, AlwaysIInv, PTL

(* A genesis is refused, or a block fails, only for a reason on the list:  *)
(* the orders of app_config.go:113-190 are none of them.                   *)
THEOREM FailuresHaveReasons == Spec => []FailuresExplained
BY AlwaysIInv, PTL DEF IInv

(* When slashing begins a block, the fees of the last one are shared       *)
(* (app_config.go:114-118).                                                *)
THEOREM FeesSharedFirst == Spec => []FeesBeforeSlashing
<1>1. IInv => FeesBeforeSlashing
    <2> SUFFICES ASSUME IInv, At("begin", "slashing"), height > 0, "distribution" \in modules
                 PROVE  bank["fee_collector"] = 0
        BY DEF FeesBeforeSlashing
    <2>1. pc = "begin" /\ k \in 1 .. 9 /\ BeginBlockers[k] = "slashing"
        <3>1. pc = "begin" /\ Order = BeginBlockers
            BY DEF At, Order
        <3>2. k =< Len(Order) /\ Order[k] = "slashing" /\ k \in Nat \ {0}
            BY OrderLengths DEF At, IInv, TypeOK
        <3> QED  BY <3>1, <3>2, OrderLengths
    <2> QED  BY <2>1, BeginOrder DEF IInv, FeesShared
<1> QED  BY <1>1, AlwaysIInv, PTL
=============================================================================
