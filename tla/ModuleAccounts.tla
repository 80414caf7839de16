--------------------------- MODULE ModuleAccounts ---------------------------
(***************************************************************************)
(* app/app_config.go: how the modules of the application are wired.  Some  *)
(* of them hold coins in an account of their own and keep records that say *)
(* what the account owes (claims); the wiring decides which accounts may   *)
(* mint, burn and be sent coins, and in which order the modules start a    *)
(* chain, begin a block and end it.  The modules are libraries: of each    *)
(* only its calls on the bank are here, with the checks that make it fail. *)
(* app/export.go and the command in-place-testnet act on whole chains.     *)
(***************************************************************************)
EXTENDS Integers, Sequences, Functions

CONSTANTS
    Coins,      \* of the users when the first chain starts
    NewTokens,  \* valVotingPower of the in-place testnet
    Fund,       \* what the in-place testnet mints for one account
    LeftOuts,   \* sets of modules that an export may leave out
    SupplyCap,  \* bound on the coins of a chain to which more are minted
    ClaimCap,   \* bound on what is paid into an account that was emptied
    HeightCap   \* heights above it are all the same to the modules

ASSUME CoinsAssumption == Coins \in Nat \ {0}
ASSUME NewTokensAssumption == NewTokens \in Nat \ {0} /\ Fund \in Nat
ASSUME CapsAssumption == SupplyCap \in Nat /\ HeightCap \in Nat \ {0}

(* moduleAccPerms: the module accounts and what each may do.               *)
\* Mutant: the bonded pool may not burn.
MutModuleAccPerms ==
    [fee_collector |-> {}, distribution |-> {}, mint |-> {"minter"},
     bonded_tokens_pool |-> {"staking"},
     not_bonded_tokens_pool |-> {"burner", "staking"},
     gov |-> {"burner"}, nft |-> {}, transfer |-> {"minter", "burner"},
     interchainaccounts |-> {}]
ModuleAccPerms ==
    [fee_collector |-> {}, distribution |-> {}, mint |-> {"minter"},
     bonded_tokens_pool |-> {"burner", "staking"},
     not_bonded_tokens_pool |-> {"burner", "staking"},
     gov |-> {"burner"}, nft |-> {}, transfer |-> {"minter", "burner"},
     interchainaccounts |-> {}]

(* blockAccAddrs, the accounts that nobody may send coins to.              *)
\* Mutant: the account of the distribution module is forgotten.
MutBlockAccAddrs == {"fee_collector", "mint", "bonded_tokens_pool",
                     "not_bonded_tokens_pool", "nft"}
BlockAccAddrs == {"fee_collector", "distribution", "mint", "bonded_tokens_pool",
                  "not_bonded_tokens_pool", "nft"}

BlockedAddresses ==
    IF BlockAccAddrs # {} THEN BlockAccAddrs ELSE DOMAIN ModuleAccPerms

(* The orders in which the modules start a chain, begin and end a block.   *)
Bookkeepers == {"distribution", "staking", "gov"}

\* Mutant: the distribution module before the bank.
MutInitGenesis == <<"consensus", "auth", "distribution", "bank", "staking", "slashing",
    "gov", "mint", "genutil", "evidence", "authz", "feegrant", "vesting", "nft",
    "group", "upgrade", "circuit", "epochs", "ibc", "transfer",
    "interchainaccounts", "chainrice">>
InitGenesis == <<"consensus", "auth", "bank", "distribution", "staking", "slashing",
    "gov", "mint", "genutil", "evidence", "authz", "feegrant", "vesting", "nft",
    "group", "upgrade", "circuit", "epochs", "ibc", "transfer",
    "interchainaccounts", "chainrice">>

\* Mutant: slashing before distribution.
MutBeginBlockers == <<"mint", "slashing", "distribution", "evidence", "staking", "authz",
    "epochs", "ibc", "chainrice">>
BeginBlockers == <<"mint", "distribution", "slashing", "evidence", "staking", "authz",
    "epochs", "ibc", "chainrice">>

EndBlockers == <<"gov", "staking", "feegrant", "group", "chainrice">>

Modules == Range(InitGenesis)

Users == "users"    \* the accounts of all users, taken together
Accounts == DOMAIN ModuleAccPerms \cup {Users}

(* The accounts that records claim coins of, and whose records they are.   *)
Owner == [distribution |-> "distribution", gov |-> "gov",
          bonded_tokens_pool |-> "staking", not_bonded_tokens_pool |-> "staking"]
Holders == DOMAIN Owner
Bonded == "bonded_tokens_pool"
NotBonded == "not_bonded_tokens_pool"

VARIABLES
    pc,        \* what the application executes
    k,         \* position in the order of the modules
    failed,    \* the execution failed there
    height,    \* of the last block
    modules,   \* those that the genesis of the chain has a state of
    genesis,   \* what it says, while the chain starts
    bank,      \* balances
    claims,    \* what the records of the modules say their accounts hold
    odd        \* history: what was done to the coins outside the modules' care

vars == <<pc, k, failed, height, modules, genesis, bank, claims, odd>>

Phases == {"genesis", "started", "committed", "begin", "deliver", "end"}
Oddities == {"testnet",   \* the in-place testnet replaced the validators
             "gov",       \* the governance account got or spent coins of its own
             "unsent"}    \* an export wrote off rewards that it could not send

NoCoins == [a \in Accounts |-> 0]
NoClaims == [a \in Holders |-> 0]
NoGenesis == [bank |-> NoCoins, claims |-> NoClaims, gentxs |-> 0, height |-> 0]

Init ==
    /\ pc = "genesis" /\ k = 1 /\ failed = FALSE
    /\ height = 0 /\ modules = Modules /\ odd = {}
    /\ bank = NoCoins /\ claims = NoClaims
    /\ \E stake \in 1 .. Coins :
        genesis = [NoGenesis EXCEPT !.bank[Users] = Coins, !.gentxs = stake]

----------------------------------------------------------------------------
(* x/bank (external): coins move, appear and disappear.                    *)
Moved(b, from, to, x) == [b EXCEPT ![from] = @ - x, ![to] = @ + x]

May(a, permission) == permission \in ModuleAccPerms[a]

Supply == SumFunction(bank)

Order == CASE pc = "genesis" -> InitGenesis
           [] pc = "begin" -> BeginBlockers
           [] pc = "end" -> EndBlockers

At(phase, module) ==
    pc = phase /\ ~failed /\ k =< Len(Order) /\ Order[k] = module

Turn == k' = k + 1 /\ UNCHANGED <<pc, failed>>
Fails == failed' = TRUE /\ UNCHANGED <<pc, k, bank, claims, odd>>
OnlyCoins == UNCHANGED <<height, modules, genesis>>

----------------------------------------------------------------------------
(* InitChain: the modules read their part of the genesis (external).  Those *)
(* with records compare them with the balance of their account.            *)
Import(module) ==
    LET own == {a \in Holders : Owner[a] = module} IN
    \/ /\ \A a \in own : bank[a] = genesis.claims[a]
       /\ claims' = [a \in Holders |-> IF a \in own THEN genesis.claims[a] ELSE claims[a]]
       /\ Turn /\ UNCHANGED <<bank, odd>>
    \/ /\ \E a \in own : bank[a] # genesis.claims[a]
       /\ Fails

ImportBalances == bank' = genesis.bank /\ Turn /\ UNCHANGED <<claims, odd>>

(* genutil delivers the genesis transactions, each a self delegation.      *)
DeliverGenTxs ==
    IF genesis.gentxs =< bank[Users] /\ May(NotBonded, "staking")
    THEN /\ bank' = Moved(bank, Users, Bonded, genesis.gentxs)
         /\ claims' = [claims EXCEPT ![Bonded] = @ + genesis.gentxs]
         /\ Turn /\ UNCHANGED odd
    ELSE Fails

InitModule ==
    /\ pc = "genesis" /\ ~failed /\ k =< Len(InitGenesis)
    /\ LET module == InitGenesis[k] IN
       \/ module \in modules /\ module = "bank" /\ ImportBalances
       \/ module \in modules /\ module \in Bookkeepers /\ Import(module)
       \/ module \in modules /\ module = "genutil" /\ DeliverGenTxs
       \/ /\ module \notin modules \cap (Bookkeepers \cup {"bank", "genutil"})
          /\ Turn /\ UNCHANGED <<bank, claims, odd>>
    /\ OnlyCoins

(* A chain without validators does not start.                              *)
Started ==
    /\ pc = "genesis" /\ ~failed /\ k > Len(InitGenesis)
    /\ \/ /\ claims[Bonded] > 0
          /\ pc' = "started" /\ k' = 1
          /\ height' = genesis.height /\ genesis' = NoGenesis /\ odd' = {}
          /\ UNCHANGED <<failed, modules, bank, claims>>
       \/ /\ claims[Bonded] = 0
          /\ Fails /\ OnlyCoins

----------------------------------------------------------------------------
(* BeginBlock (external, but for the order).  A module that the genesis    *)
(* left out finds no parameters when it looks for them.                    *)
MintProvision ==
    IF May("mint", "minter")
    THEN \E x \in 0 .. 1 :
            /\ Supply + x =< SupplyCap
            /\ bank' = [bank EXCEPT !["fee_collector"] = @ + x]
            /\ Turn /\ UNCHANGED <<claims, odd>>
    ELSE Fails

AllocateTokens ==
    LET fees == bank["fee_collector"] IN
    /\ IF height > 0
       THEN /\ bank' = Moved(bank, "fee_collector", "distribution", fees)
            /\ claims' = [claims EXCEPT !["distribution"] = @ + fees]
       ELSE UNCHANGED <<bank, claims>>
    /\ Turn /\ UNCHANGED odd

(* What a slashed validator and those who leave it lose is burned.         *)
\* Mutant: the pools burn without looking.
MutCanBurn(x, y) == May(Bonded, "burner") /\ May(NotBonded, "burner")
CanBurn(x, y) ==
    /\ x =< bank[Bonded] /\ y =< bank[NotBonded]
    /\ x > 0 => May(Bonded, "burner")
    /\ y > 0 => May(NotBonded, "burner")

Slash ==
    \E x \in 0 .. claims[Bonded], y \in 0 .. claims[NotBonded] :
        \/ /\ CanBurn(x, y)
           /\ bank' = [bank EXCEPT ![Bonded] = @ - x, ![NotBonded] = @ - y]
           /\ claims' = [claims EXCEPT ![Bonded] = @ - x, ![NotBonded] = @ - y]
           /\ Turn /\ UNCHANGED odd
        \/ ~CanBurn(x, y) /\ Fails

FinalizeBlock ==
    /\ pc \in {"started", "committed"}
    /\ pc' = "begin" /\ k' = 1
    /\ OnlyCoins /\ UNCHANGED <<failed, bank, claims, odd>>

BeginModule ==
    /\ pc = "begin" /\ ~failed /\ k =< Len(BeginBlockers)
    /\ LET module == BeginBlockers[k] IN
       \/ module \in modules /\ module = "mint" /\ MintProvision
       \/ module \in modules /\ module = "distribution" /\ AllocateTokens
       \/ module \in modules /\ module \in {"slashing", "evidence"} /\ Slash
       \/ /\ module \notin modules \cap {"mint", "distribution", "slashing", "evidence"}
          /\ Turn /\ UNCHANGED <<bank, claims, odd>>
       \/ module \notin modules /\ Fails
    /\ OnlyCoins

EndOfBegin ==
    /\ pc = "begin" /\ ~failed /\ k > Len(BeginBlockers)
    /\ pc' = "deliver" /\ k' = 1
    /\ OnlyCoins /\ UNCHANGED <<failed, bank, claims, odd>>

----------------------------------------------------------------------------
(* Transactions (external, but for the blocked addresses).  One that fails *)
(* changes nothing.                                                        *)
Delivering == pc = "deliver" /\ OnlyCoins /\ UNCHANGED <<pc, k, failed>>

Send ==
    \E to \in Accounts \ (BlockedAddresses \cup {Users}), x \in 1 .. bank[Users] :
        /\ Delivering
        /\ bank' = Moved(bank, Users, to, x)
        /\ odd' = IF to = "gov" THEN odd \cup {"gov"} ELSE odd
        /\ UNCHANGED claims

PayFees ==
    \E x \in 1 .. bank[Users] :
        /\ Delivering
        /\ bank' = Moved(bank, Users, "fee_collector", x)
        /\ UNCHANGED <<claims, odd>>

(* Delegations, deposits and gifts to the community pool.                  *)
PayIn ==
    \E a \in Holders, x \in 1 .. bank[Users] :
        /\ Delivering
        /\ claims[a] + x =< ClaimCap
        /\ Owner[a] \in modules
        /\ Owner[a] = "staking" => May(a, "staking")
        /\ bank' = Moved(bank, Users, a, x)
        /\ claims' = [claims EXCEPT ![a] = @ + x]
        /\ UNCHANGED odd

WithdrawRewards ==
    \E x \in 1 .. claims["distribution"] :
        /\ Delivering
        /\ x =< bank["distribution"]
        /\ bank' = Moved(bank, "distribution", Users, x)
        /\ claims' = [claims EXCEPT !["distribution"] = @ - x]
        /\ UNCHANGED odd

Undelegate ==
    \E x \in 1 .. claims[Bonded] :
        /\ Delivering
        /\ x =< bank[Bonded]
        /\ bank' = Moved(bank, Bonded, NotBonded, x)
        /\ claims' = Moved(claims, Bonded, NotBonded, x)
        /\ UNCHANGED odd

EndOfDeliver ==
    /\ pc = "deliver" /\ pc' = "end"
    /\ OnlyCoins /\ UNCHANGED <<k, failed, bank, claims, odd>>

----------------------------------------------------------------------------
(* EndBlock (external, but for the order).  Deposits of a proposal that    *)
(* ends are refunded or burned, and one that passes may spend what the     *)
(* governance account has.                                                 *)
EndProposals ==
    \E refund, burn \in 0 .. claims["gov"] :
        /\ refund + burn =< claims["gov"]
        /\ IF refund + burn =< bank["gov"] /\ (burn > 0 => May("gov", "burner"))
           THEN \E spend \in 0 .. bank["gov"] - refund - burn :
                   /\ bank' = [bank EXCEPT !["gov"] = @ - refund - burn - spend,
                                           ![Users] = @ + refund + spend]
                   /\ claims' = [claims EXCEPT !["gov"] = @ - refund - burn]
                   /\ odd' = IF spend > 0 THEN odd \cup {"gov"} ELSE odd
                   /\ Turn
           ELSE Fails

(* The tokens of validators that leave the set change pools with them, and *)
(* unbondings that are mature are paid.                                    *)
UpdateValidators ==
    \E x \in -claims[NotBonded] .. claims[Bonded] :
        \/ /\ x =< bank[Bonded]
           /\ \E mature \in 0 .. claims[NotBonded] + x :
                /\ bank' = [bank EXCEPT ![Bonded] = @ - x, ![NotBonded] = @ + x - mature,
                                        ![Users] = @ + mature]
                /\ claims' = [claims EXCEPT ![Bonded] = @ - x, ![NotBonded] = @ + x - mature]
           /\ Turn /\ UNCHANGED odd
        \/ x > bank[Bonded] /\ Fails

EndModule ==
    /\ pc = "end" /\ ~failed /\ k =< Len(EndBlockers)
    /\ LET module == EndBlockers[k] IN
       \/ module \in modules /\ module = "gov" /\ EndProposals
       \/ module \in modules /\ module = "staking" /\ UpdateValidators
       \/ /\ module \notin modules \cap {"gov", "staking"}
          /\ Turn /\ UNCHANGED <<bank, claims, odd>>
    /\ OnlyCoins

(* A block that leaves no validator is the last.                           *)
Commit ==
    /\ pc = "end" /\ ~failed /\ k > Len(EndBlockers)
    /\ \/ /\ claims[Bonded] > 0
          /\ pc' = "committed" /\ k' = 1
          /\ height' = IF height < HeightCap THEN height + 1 ELSE height
          /\ UNCHANGED <<failed, modules, genesis, bank, claims, odd>>
       \/ /\ claims[Bonded] = 0
          /\ Fails /\ OnlyCoins

----------------------------------------------------------------------------
(* testnet.go on the stopped chain: one validator with tokens that no pool *)
(* holds, records of rewards that were overwritten, tokens of validators   *)
(* that were deleted, and coins for an account that may get them.          *)
InPlaceTestnet ==
    /\ pc = "committed" /\ "testnet" \notin odd /\ May("mint", "minter")
    /\ Supply + Fund =< SupplyCap
    /\ \E left \in 0 .. claims["distribution"], idle \in 0 .. claims[NotBonded] :
        claims' = [claims EXCEPT ![Bonded] = NewTokens,
                                 !["distribution"] = left, ![NotBonded] = idle]
    /\ \E to \in Accounts \ BlockedAddresses :
        /\ bank' = [bank EXCEPT ![to] = @ + Fund]
        /\ odd' = odd \cup {"testnet"} \cup (IF to = "gov" THEN {"gov"} ELSE {})
    /\ OnlyCoins /\ UNCHANGED <<pc, k, failed>>

(* export.go: the state of the chain is the genesis of the next.  Before a *)
(* genesis at height zero all rewards are withdrawn; what then cannot be   *)
(* sent is nevertheless written off.  Modules that started without genesis *)
(* have nothing to export, so only a complete chain is exported.           *)
ExportTo(zero, paid, unsent, exported) ==
    /\ genesis' = [bank |-> Moved(bank, "distribution", Users, paid),
                   claims |-> [claims EXCEPT !["distribution"] = @ - paid - unsent],
                   gentxs |-> 0,
                   height |-> IF zero THEN 0 ELSE height]
    /\ modules' = exported
    /\ odd' = IF unsent > 0 THEN odd \cup {"unsent"} ELSE odd
    /\ pc' = "genesis" /\ k' = 1 /\ failed' = FALSE
    /\ bank' = NoCoins /\ claims' = NoClaims /\ height' = 0

Export ==
    /\ pc = "committed" /\ modules = Modules
    /\ \E zero \in BOOLEAN, left \in LeftOuts \cup {{}} :
       \E paid, unsent \in 0 .. claims["distribution"] :
        /\ paid + unsent =< claims["distribution"] /\ paid =< bank["distribution"]
        /\ ~zero => paid = 0 /\ unsent = 0
        /\ ExportTo(zero, paid, unsent, Modules \ left)

Stopped == failed /\ UNCHANGED vars

Chain == InitModule \/ Started \/ BeginModule \/ EndOfBegin \/ EndOfDeliver \/ EndModule \/ Commit
Tx == Send \/ PayFees \/ PayIn \/ WithdrawRewards \/ Undelegate
Next == Chain \/ FinalizeBlock \/ Tx \/ InPlaceTestnet \/ Export \/ Stopped

Spec == Init /\ [][Next]_vars /\ WF_vars(Chain)

----------------------------------------------------------------------------
(* The balances and claims are amounts, and the position is in the order.  *)
TypeOK ==
    /\ pc \in Phases /\ k \in 1 .. Len(InitGenesis) + 1 /\ failed \in BOOLEAN
    /\ height \in 0 .. HeightCap /\ modules \subseteq Modules /\ odd \subseteq Oddities
    /\ bank \in [Accounts -> Nat] /\ claims \in [Holders -> Nat]
    /\ genesis \in [bank : [Accounts -> Nat], claims : [Holders -> Nat],
                    gentxs : Nat, height : 0 .. HeightCap]

(* Whatever is sent, delegated, slashed, withdrawn and refunded, an account *)
(* holds what the records of its module say, unless the governance account  *)
(* was used otherwise (app_config.go:97) or the chain was made a testnet,   *)
(* whose validator has tokens of nobody (testnet.go:97).                    *)
Backed(a) == bank[a] = claims[a]

PoolsBacked ==
    pc # "genesis" =>
        \A a \in Holders :
            Owner[a] \in modules /\ ~Backed(a) =>
                IF a = "gov" THEN "gov" \in odd ELSE "testnet" \in odd

(* A genesis is refused and a block fails for these reasons only: modules  *)
(* that an export left out, rewards it wrote off, a testnet that no pool   *)
(* backs, the use of the governance account, and no validators at all.     *)
RefusalExplained ==
    \/ k > Len(InitGenesis)
    \/ "bank" \notin modules
    \/ InitGenesis[k] = "distribution" /\ odd \cap {"testnet", "unsent"} # {}
    \/ InitGenesis[k] = "staking" /\ "testnet" \in odd
    \/ InitGenesis[k] = "gov" /\ "gov" \in odd

BlockFailureExplained ==
    \/ pc = "begin" /\ BeginBlockers[k] \notin modules
    \/ pc = "begin" /\ BeginBlockers[k] \in {"slashing", "evidence"} /\ "testnet" \in odd
    \/ pc = "end" /\ k > Len(EndBlockers)
    \/ pc = "end" /\ EndBlockers[k] = "staking" /\ "testnet" \in odd
    \/ pc = "end" /\ EndBlockers[k] = "gov" /\ "gov" \in odd

FailuresExplained ==
    failed => IF pc = "genesis" THEN RefusalExplained ELSE BlockFailureExplained

(* app_config.go:114 "slashing happens after distr.BeginBlocker so that    *)
(* there is nothing left over in the validator fee pool".                  *)
FeesBeforeSlashing ==
    At("begin", "slashing") /\ height > 0 /\ "distribution" \in modules =>
        bank["fee_collector"] = 0

(* A complete genesis with a validator and balances that no one meddled    *)
(* with becomes a chain.                                                   *)
Sound ==
    /\ pc = "genesis" /\ k = 1 /\ modules = Modules /\ odd = {}
    /\ genesis.gentxs + genesis.claims[Bonded] > 0

StartsWhenSound == Sound ~> pc = "started"

(* export.go:17 "exports the state of the application for a genesis file"; *)
(* sim_test.go:230 allows for one refusal of it, an empty validator set.   *)
ExportsStart ==
    failed /\ pc = "genesis" =>
        \/ k > Len(InitGenesis)
        \/ modules # Modules \/ odd \cap {"testnet", "unsent"} # {}
=============================================================================
