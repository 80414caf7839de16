----------------------------- MODULE TestnetSwap -----------------------------
(***************************************************************************)
(* What the command in-place-testnet promises of a chain on disk, without  *)
(* processes, faults and statements: it is the chain of before until, in   *)
(* one step, it is the chain of the new validator alone, with the accounts *)
(* that were listed funded.                                                *)
(***************************************************************************)
EXTENDS Integers, Sequences, FiniteSets

CONSTANTS
    Validators,   \* operator addresses
    Accounts,     \* account addresses
    Lists,        \* of the accounts to fund
    NewPower,     \* of the new validator
    Fund          \* of one funding

VARIABLES
    validators,   \* with a record
    elected,      \* with a power in the last block
    power,        \* of each validator
    signers,      \* validators for which some key signs
    funded,       \* what each account was sent
    unsent        \* what was minted and not sent

chain == <<validators, elected, power, signers, funded, unsent>>

Times(list, a) == Cardinality({n \in 1 .. Len(list) : list[n] = a})

Working ==
    /\ elected # {} /\ elected \subseteq validators /\ elected \subseteq signers
    /\ power \in [Validators -> Nat]
    /\ funded = [a \in Accounts |-> 0] /\ unsent = 0

Replace ==
    \E v \in Validators, list \in Lists :
        /\ \A n \in 1 .. Len(list) : list[n] \in Accounts
        /\ validators' = {v} /\ elected' = {v}
        /\ power' = [power EXCEPT ![v] = NewPower]
        /\ v \in signers'
        /\ funded' = [a \in Accounts |-> funded[a] + Fund * Times(list, a)]
        /\ UNCHANGED unsent

SwapSpec == Working /\ [][Replace]_chain
=============================================================================
