---------------------------- MODULE ParamsLedger ----------------------------
(***************************************************************************)
(* What the chain promises about the parameters of x/chainrice, without    *)
(* nodes: a history of values, one for each block that was executed, once  *)
(* and in order.  What a block leaves is what the last of its batches left *)
(* of those that name governance in all their messages.  A new chain       *)
(* begins where an export of an earlier height left off, with or without   *)
(* the parameters.                                                         *)
(***************************************************************************)
EXTENDS Integers, Sequences

CONSTANTS
    Entries,    \* what the genesis of the first chain may say of them
    Absent,     \* no parameters
    Blocks,     \* sequences of sequences of messages [authority, params]
    Addresses,  \* of the authorities that messages name
    Governance  \* the address of the governance module

VARIABLES
    base,     \* height of the chain's genesis, one below its first block
    history,  \* the parameters after its genesis and after each block
    blocks    \* the blocks

ledger == <<base, history, blocks>>

Lawful(batch) ==
    batch # <<>> /\ \A i \in DOMAIN batch : Addresses[batch[i].authority] = Governance

(* The last lawful batch of a block, if it has one.                        *)
Decisive(b) ==
    {n \in DOMAIN b : Lawful(b[n]) /\ \A m \in DOMAIN b : m > n => ~Lawful(b[m])}

Outcome(p, b) ==
    IF Decisive(b) = {} THEN p
    ELSE LET batch == b[CHOOSE n \in Decisive(b) : TRUE] IN batch[Len(batch)].params

Genesis ==
    /\ base = 0 /\ blocks = <<>>
    /\ \E p \in Entries : history = <<p>>

ExecuteBlock ==
    \E b \in Blocks :
        /\ blocks' = Append(blocks, b)
        /\ history' = Append(history, Outcome(history[Len(history)], b))
        /\ UNCHANGED base

(* The new chain goes on at the next height, or starts again from zero.    *)
NewChain ==
    \E k \in 2 .. Len(history) :
        /\ base' \in {0, base + k - 1}
        /\ history' \in {<<history[k]>>, <<Absent>>}
        /\ blocks' = <<>>

LedgerSpec == Genesis /\ [][ExecuteBlock \/ NewChain]_ledger
=============================================================================
