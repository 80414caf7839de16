--------------------------- MODULE ChainAppProofs ---------------------------
(***************************************************************************)
(* Theorems about ChainApp, for any parameters, blocks, addresses and      *)
(* bounds: the node keeps the ledger of its chain.                         *)
(***************************************************************************)
EXTENDS ChainApp, TLAPS, SequenceTheorems, WellFoundedInduction

USE DefaultAssumption, SentinelAssumption, BlocksAssumption,
    AddressAssumption, BoundsAssumption

(* The parameters after the genesis of the chain, and the last committed.  *)
First == IF entry = LeftOut THEN Absent ELSE entry
Last == IF versions = <<>> THEN First ELSE Committed

(* A node that does not run has nothing pending.                           *)
DownIsEmpty == ~up => work = None /\ ~executed /\ oe = None

(* Before the first block the pending store is the genesis's.              *)
GenesisPending ==
    /\ versions = <<>> => oe = None
    /\ versions = <<>> /\ ~executed => work \in {None, First}

(* Once the block is executed, the pending store is what it makes of the   *)
(* last committed one.                                                     *)
ExecutedRight ==
    executed =>
        /\ Len(versions) < Len(decided)
        /\ work = Execute(Last, NextDecided)
        /\ oe # None => oe.done

(* A finished optimistic execution, too, if it is of the next height.      *)
OptimismRight ==
    oe # None =>
        /\ oe.height <= Height + 1
        /\ oe.done /\ oe.height = Height + 1 => work = Execute(Committed, oe.block)

(* A genesis that was exported names a committed height of this chain and  *)
(* its parameters, unless it leaves them out.                              *)
ExportRight ==
    export # None /\ export.entry # Failed =>
        \E k \in 1 .. Len(versions) :
            /\ export.height \in {0, base + k + 1}
            /\ export.entry = LeftOut \/ export.entry = versions[k]

(* Parameters are absent only as long as governance has not set any.       *)
AbsentExplained ==
    \A k \in 1 .. Len(versions) :
        versions[k] = Absent <=>
            entry = LeftOut /\ \A i \in 1 .. k : Ledger!Decisive(decided[i]) = {}

(* A chain whose genesis is not in order has no blocks.                    *)
NoBlocks == entry = Malformed => decided = <<>>

IInv ==
    /\ TypeOK /\ DownIsEmpty /\ GenesisPending /\ ExecutedRight
    /\ OptimismRight /\ ExportRight /\ AbsentExplained /\ NoBlocks

----------------------------------------------------------------------------
(* Blocks.                                                                 *)

(* Induction over the numbers, from the least number of a set.             *)
LEMMA LeastNumber ==
    ASSUME NEW T, T \subseteq Nat, T # {}
    PROVE  \E n \in T : \A m \in T : n =< m
<1> DEFINE R == {ss \in Nat \X Nat : ss[1] < ss[2]}
<1>1. R = OpToRel(<, Nat)
  BY Zenon DEF OpToRel
<1>2. IsWellFoundedOn(R, Nat)
  BY <1>1, NatLessThanWellFounded, Zenon
<1>3. PICK n \in T : \A m \in T : ~ (<<m, n>> \in R)
  <2> HIDE DEF R
  <2> QED BY <1>2, WFMin, Zenon
<1>4. \A m \in T : ~ (m < n)
  BY <1>3
<1> QED BY <1>4

LEMMA Induct ==
    ASSUME NEW T, 0 \in T, \A n \in Nat : n \in T => n + 1 \in T
    PROVE  Nat \subseteq T
<1> SUFFICES ASSUME Nat \ T # {} PROVE FALSE
  OBVIOUS
<1>1. PICK n \in Nat \ T : \A m \in Nat \ T : n =< m
  BY LeastNumber
<1>2. n # 0 /\ n - 1 \in Nat /\ n - 1 \notin Nat \ T
  BY <1>1
<1> QED BY <1>1, <1>2

(* What a batch that is accepted sets.                                     *)
Sets(batch) == batch[Len(batch)].params

LEMMA BatchType ==
    ASSUME NEW b \in Blocks
    PROVE  /\ Len(b) \in Nat /\ DOMAIN b = 1 .. Len(b)
           /\ \A n \in 1 .. Len(b) : b[n] # <<>> => Sets(b[n]) \in ParamValues
<1> DEFINE M == [authority : DOMAIN Addresses, params : ParamValues]
<1>1. b \in Seq(Seq(M))
  OBVIOUS
<1>2. \A batch \in Seq(M) : batch # <<>> => batch[Len(batch)] \in M
  <2> HIDE DEF M
  <2> QED BY EmptySeq
<1>3. \A batch \in Seq(M) : batch # <<>> => Sets(batch) \in ParamValues
  BY <1>2 DEF Sets
<1>4. Len(b) \in Nat /\ DOMAIN b = 1 .. Len(b) /\ \A n \in 1 .. Len(b) : b[n] \in Seq(M)
  <2> HIDE DEF M
  <2> QED BY <1>1
<1> QED BY <1>3, <1>4

(* UpdateParams accepts just the messages that name governance.            *)
LEMMA DeliverIs ==
    ASSUME NEW batch, NEW stored
    PROVE  Deliver(stored, batch) = IF Ledger!Lawful(batch) THEN Sets(batch) ELSE stored
<1>1. \A i \in DOMAIN batch :
        UpdateParams(batch[i]) <=> Addresses[batch[i].authority] = GovAddress
  BY DEF UpdateParams, Authority, Validate
<1>2. Ledger!Lawful(batch) <=> ~(batch = <<>> \/ \E i \in DOMAIN batch : ~UpdateParams(batch[i]))
  BY <1>1 DEF Ledger!Lawful
<1> QED BY <1>2 DEF Deliver, Sets

(* The last lawful of the first n batches, and what the block set by then. *)
LastLawful(b, n) ==
    {m \in 1 .. n : Ledger!Lawful(b[m]) /\ \A j \in m + 1 .. n : ~Ledger!Lawful(b[j])}
SetBy(stored, b, n) ==
    IF LastLawful(b, n) = {} THEN stored ELSE Sets(b[CHOOSE m \in LastLawful(b, n) : TRUE])

LEMMA SetByNext ==
    ASSUME NEW stored, NEW b, NEW n \in Nat, n # 0
    PROVE  SetBy(stored, b, n) = Deliver(SetBy(stored, b, n - 1), b[n])
<1>1. CASE Ledger!Lawful(b[n])
  <2>1. n \in LastLawful(b, n)
    BY <1>1 DEF LastLawful
  <2>2. \A m \in LastLawful(b, n) : m = n
    <3> SUFFICES ASSUME NEW m \in LastLawful(b, n), m # n PROVE FALSE
      OBVIOUS
    <3>1. m \in 1 .. n /\ n \in m + 1 .. n
      BY DEF LastLawful
    <3> QED BY <1>1, <3>1 DEF LastLawful
  <2>3. (CHOOSE m \in LastLawful(b, n) : TRUE) = n
    BY <2>1, <2>2
  <2> QED BY <1>1, <2>1, <2>3, DeliverIs DEF SetBy
<1>2. CASE ~Ledger!Lawful(b[n])
  <2>1. ASSUME NEW m PROVE m \in LastLawful(b, n) <=> m \in LastLawful(b, n - 1)
    <3>1. ASSUME m \in LastLawful(b, n) PROVE m \in LastLawful(b, n - 1)
      <4>1. m \in 1 .. n /\ m # n /\ Ledger!Lawful(b[m])
            /\ \A j \in m + 1 .. n : ~Ledger!Lawful(b[j])
        BY <1>2, <3>1 DEF LastLawful
      <4>2. m \in 1 .. n - 1 /\ \A j \in m + 1 .. n - 1 : j \in m + 1 .. n
        BY <4>1
      <4> QED BY <4>1, <4>2 DEF LastLawful
    <3>2. ASSUME m \in LastLawful(b, n - 1) PROVE m \in LastLawful(b, n)
      <4>1. m \in 1 .. n - 1 /\ Ledger!Lawful(b[m])
            /\ \A j \in m + 1 .. n - 1 : ~Ledger!Lawful(b[j])
        BY <3>2 DEF LastLawful
      <4>2. m \in 1 .. n /\ \A j \in m + 1 .. n : j = n \/ j \in m + 1 .. n - 1
        BY <4>1
      <4> QED BY <1>2, <4>1, <4>2 DEF LastLawful
    <3> QED BY <3>1, <3>2
  <2>2. LastLawful(b, n) = LastLawful(b, n - 1)
    BY <2>1
  <2> QED BY <1>2, <2>2, DeliverIs DEF SetBy
<1> QED BY <1>1, <1>2

(* A block is executed as the ledger has it.                               *)
Runs(stored, b, f) ==
    f = [n \in 0 .. Len(b) |-> IF n = 0 THEN stored ELSE Deliver(f[n - 1], b[n])]

LEMMA ExecuteIsOutcome ==
    ASSUME NEW b \in Blocks, NEW stored
    PROVE  /\ Execute(stored, b) = Ledger!Outcome(stored, b)
           /\ Ledger!Decisive(b) # {} => Execute(stored, b) \in ParamValues
           /\ Ledger!Decisive(b) = {} => Execute(stored, b) = stored
<1> DEFINE F == CHOOSE f : Runs(stored, b, f)
<1>1. Len(b) \in Nat /\ DOMAIN b = 1 .. Len(b)
  BY BatchType
<1>2. SetBy(stored, b, 0) = stored
  <2>1. LastLawful(b, 0) = {}
    BY DEF LastLawful
  <2> QED BY <2>1 DEF SetBy
<1>3. Runs(stored, b, F)
  <2>1. PICK g : g = [n \in 0 .. Len(b) |-> SetBy(stored, b, n)]
    OBVIOUS
  <2>2. DOMAIN g = 0 .. Len(b) /\ g = [n \in DOMAIN g |-> g[n]]
        /\ \A n \in 0 .. Len(b) : g[n] = SetBy(stored, b, n)
    BY <2>1
  <2>3. ASSUME NEW n \in 0 .. Len(b), n # 0
        PROVE  g[n] = Deliver(g[n - 1], b[n])
    <3>1. n \in Nat /\ n - 1 \in 0 .. Len(b)
      BY <1>1, <2>3
    <3>2. g[n] = SetBy(stored, b, n) /\ g[n - 1] = SetBy(stored, b, n - 1)
      BY <2>2, <3>1
    <3> QED BY <2>3, <3>1, <3>2, SetByNext
  <2>4. \A n \in 0 .. Len(b) : g[n] = IF n = 0 THEN stored ELSE Deliver(g[n - 1], b[n])
    <3>1. 0 \in 0 .. Len(b)
      BY <1>1
    <3> QED BY <1>2, <2>2, <2>3, <3>1
  <2>5. Runs(stored, b, g)
    BY <2>2, <2>4 DEF Runs
  <2> QED BY <2>5
<1>4. Execute(stored, b) = F[Len(b)]
  BY DEF Execute, Runs
<1> HIDE DEF F
<1>5. \A n \in 0 .. Len(b) : F[n] = SetBy(stored, b, n)
  <2> DEFINE T == {n \in Nat : n \in 0 .. Len(b) => F[n] = SetBy(stored, b, n)}
  <2>1. /\ F[0] = stored
        /\ \A n \in 0 .. Len(b) : n # 0 => F[n] = Deliver(F[n - 1], b[n])
    <3>1. PICK h : h = [n \in 0 .. Len(b) |-> IF n = 0 THEN stored ELSE Deliver(F[n - 1], b[n])]
      OBVIOUS
    <3>2. \A n \in 0 .. Len(b) : h[n] = IF n = 0 THEN stored ELSE Deliver(F[n - 1], b[n])
      BY <3>1
    <3>3. F = h
      BY <1>3, <3>1, Zenon DEF Runs
    <3>4. 0 \in 0 .. Len(b)
      BY <1>1
    <3> QED BY <3>2, <3>3, <3>4
  <2>3. ASSUME NEW n \in Nat, n \in T PROVE n + 1 \in T
    <3> SUFFICES ASSUME n + 1 \in 0 .. Len(b)
                 PROVE  F[n + 1] = SetBy(stored, b, n + 1)
      OBVIOUS
    <3>1. n \in 0 .. Len(b) /\ n + 1 # 0 /\ (n + 1) - 1 = n
      BY <1>1
    <3>2. F[n] = SetBy(stored, b, n)
      BY <2>3, <3>1
    <3>3. F[n + 1] = Deliver(F[n], b[n + 1])
      BY <2>1, <3>1
    <3>4. SetBy(stored, b, n + 1) = Deliver(SetBy(stored, b, n), b[n + 1])
      BY <3>1, SetByNext
    <3> QED BY <3>2, <3>3, <3>4
  <2>4. 0 \in T
    BY <1>2, <2>1
  <2>5. Nat \subseteq T
    <3> HIDE DEF T
    <3> QED BY <2>3, <2>4, Induct
  <2> QED BY <1>1, <2>5
<1>6. Execute(stored, b) = SetBy(stored, b, Len(b))
  BY <1>1, <1>4, <1>5
<1>7. LastLawful(b, Len(b)) = Ledger!Decisive(b)
  <2>1. ASSUME NEW m \in 1 .. Len(b)
        PROVE  (\A j \in m + 1 .. Len(b) : ~Ledger!Lawful(b[j]))
                 <=> \A j \in 1 .. Len(b) : j > m => ~Ledger!Lawful(b[j])
    <3>1. \A j : j \in m + 1 .. Len(b) <=> j \in 1 .. Len(b) /\ j > m
      BY <1>1
    <3> QED BY <3>1
  <2> QED BY <1>1, <2>1 DEF LastLawful, Ledger!Decisive
<1>8. Execute(stored, b) = Ledger!Outcome(stored, b)
  BY <1>6, <1>7 DEF SetBy, Sets, Ledger!Outcome
<1>9. ASSUME Ledger!Decisive(b) # {} PROVE Execute(stored, b) \in ParamValues
  <2> DEFINE d == CHOOSE m \in LastLawful(b, Len(b)) : TRUE
  <2>1. d \in LastLawful(b, Len(b))
    BY <1>7, <1>9
  <2>2. d \in 1 .. Len(b) /\ b[d] # <<>>
    BY <2>1 DEF LastLawful, Ledger!Lawful
  <2>3. Execute(stored, b) = Sets(b[d])
    BY <1>6, <1>7, <1>9 DEF SetBy
  <2> HIDE DEF d
  <2>4. Sets(b[d]) \in ParamValues
    BY <2>2, BatchType
  <2> QED BY <2>3, <2>4
<1>10. Ledger!Decisive(b) = {} => Execute(stored, b) = stored
  BY <1>6, <1>7 DEF SetBy
<1> QED BY <1>8, <1>9, <1>10

LEMMA ExecuteType ==
    ASSUME NEW b \in Blocks, NEW stored \in Stored
    PROVE  Execute(stored, b) \in Stored
BY ExecuteIsOutcome DEF Stored

(* The last committed parameters, once consensus has decided a block.      *)
LEMMA LastType ==
    ASSUME IInv, decided # <<>>
    PROVE  Last \in Stored
<1>1. CASE versions = <<>>
  BY <1>1 DEF Last, First, IInv, NoBlocks, TypeOK, Entries, Stored
<1>2. CASE versions # <<>>
  <2>1. Len(versions) \in 1 .. Len(versions)
    BY <1>2 DEF IInv, TypeOK
  <2> QED BY <1>2, <2>1 DEF Last, Committed, IInv, TypeOK
<1> QED BY <1>1, <1>2

(* The block that is next to be executed.                                  *)
LEMMA NextType ==
    ASSUME IInv, Len(versions) < Len(decided)
    PROVE  /\ NextDecided \in Blocks
           /\ decided # <<>>
<1>1. Len(versions) + 1 \in 1 .. Len(decided)
  BY DEF IInv, TypeOK
<1> QED BY <1>1 DEF NextDecided, IInv, TypeOK

----------------------------------------------------------------------------
(* The invariant is inductive.                                             *)

LEMMA InitInv == Init => IInv
<1> SUFFICES ASSUME Init PROVE IInv
  OBVIOUS
<1>1. /\ decided \in Seq(Blocks) /\ Len(decided) = 0
      /\ versions \in Seq(Stored) /\ Len(versions) = 0
  BY DEF Init
<1>2. entry \in Entries /\ base \in Nat /\ pruned = 0
  BY DEF Init, Entries
<1>3. TypeOK
  <2>1. Len(decided) <= MaxBlocks /\ Len(versions) <= Len(decided)
    BY <1>1
  <2>2. crashes \in 0 .. MaxCrashes /\ chains \in 0 .. MaxChains
    BY DEF Init
  <2>3. /\ up \in BOOLEAN /\ executed \in BOOLEAN
        /\ work \in Stored \cup {None}
        /\ oe \in Executions \cup {None} /\ export \in Exports \cup {None}
    BY DEF Init
  <2> QED BY <1>1, <1>2, <2>1, <2>2, <2>3 DEF TypeOK
<1>4. DownIsEmpty /\ GenesisPending /\ ExecutedRight /\ OptimismRight /\ NoBlocks
  BY DEF Init, DownIsEmpty, GenesisPending, ExecutedRight, OptimismRight, NoBlocks
<1>5. ExportRight /\ AbsentExplained
  BY DEF Init, ExportRight, AbsentExplained
<1> QED BY <1>3, <1>4, <1>5 DEF IInv

LEMMA StartInv == IInv /\ Start => IInv'
<1> SUFFICES ASSUME IInv, Start PROVE IInv'
  OBVIOUS
<1> USE DEF IInv, Start, consensus
<1>1. TypeOK'
  BY DEF TypeOK, Executions, Exports
<1>2. DownIsEmpty'
  BY DEF DownIsEmpty
<1>3. GenesisPending'
  BY DEF GenesisPending, First
<1>4. ExecutedRight'
  BY DEF ExecutedRight, Last, First, Committed, NextDecided
<1>5. OptimismRight'
  BY DEF OptimismRight, Height, Committed
<1>6. ExportRight' /\ NoBlocks'
  BY DEF ExportRight, NoBlocks
<1>7. AbsentExplained'
  BY DEF AbsentExplained
<1> QED BY <1>1, <1>2, <1>3, <1>4, <1>5, <1>6, <1>7

LEMMA InitChainInv == IInv /\ InitChain => IInv'
<1> SUFFICES ASSUME IInv, InitChain PROVE IInv'
  OBVIOUS
<1> USE DEF IInv, InitChain, consensus
<1>1. ~executed
  <2> SUFFICES ASSUME executed PROVE FALSE
    OBVIOUS
  <2>1. Len(versions) < Len(decided) /\ work = Execute(Last, NextDecided)
    BY DEF ExecutedRight
  <2>2. Execute(Last, NextDecided) \in Stored
    BY <2>1, NextType, LastType, ExecuteType
  <2> QED BY <2>1, <2>2
<1>2. CanInit(entry) => First \in Stored
  BY DEF CanInit, First, TypeOK, Entries, Stored
<1>3. CanInit(entry) => work' = First
  BY DEF First, InitGenesis
<1>4. TypeOK'
  BY <1>2, <1>3 DEF TypeOK
<1>5. DownIsEmpty' /\ GenesisPending'
  BY <1>1, <1>3 DEF DownIsEmpty, GenesisPending, First
<1>6. ExecutedRight' /\ OptimismRight'
  BY <1>1 DEF ExecutedRight, OptimismRight, GenesisPending
<1>7. ExportRight' /\ NoBlocks' /\ AbsentExplained'
  BY DEF ExportRight, NoBlocks, AbsentExplained
<1> QED BY <1>4, <1>5, <1>6, <1>7

LEMMA ProposalInv == IInv /\ ProcessProposal => IInv'
<1> SUFFICES ASSUME IInv, ProcessProposal PROVE IInv'
  OBVIOUS
<1> USE DEF IInv, ProcessProposal, consensus
<1>1. PICK b \in Blocks : oe' = [height |-> Height + 1, block |-> b, done |-> FALSE]
  OBVIOUS
<1>2. Height + 1 \in Nat
  BY DEF TypeOK, Height
<1>3. TypeOK'
  BY <1>1, <1>2 DEF TypeOK, Executions
<1>4. DownIsEmpty' /\ GenesisPending' /\ ExecutedRight'
  BY DEF DownIsEmpty, GenesisPending, ExecutedRight
<1>5. OptimismRight'
  BY <1>1, <1>2 DEF OptimismRight, Height
<1>6. ExportRight' /\ NoBlocks' /\ AbsentExplained'
  BY DEF ExportRight, NoBlocks, AbsentExplained
<1> QED BY <1>3, <1>4, <1>5, <1>6

LEMMA OptimismInv == IInv /\ OptimisticExecution => IInv'
<1> SUFFICES ASSUME IInv, OptimisticExecution PROVE IInv'
  OBVIOUS
<1> USE DEF IInv, OptimisticExecution, consensus
<1>1. oe \in Executions /\ oe' \in Executions
  BY DEF TypeOK, Executions
<1>2. versions # <<>> /\ ~executed
  BY DEF GenesisPending, ExecutedRight
<1>3. Committed \in Stored
  <2>1. Len(versions) \in 1 .. Len(versions)
    BY <1>2 DEF TypeOK
  <2> QED BY <2>1 DEF TypeOK, Committed
<1>4. work' \in Stored
  BY <1>1, <1>3, ExecuteType DEF Executions
<1>5. TypeOK'
  BY <1>1, <1>4 DEF TypeOK
<1>6. DownIsEmpty' /\ GenesisPending' /\ ExecutedRight'
  BY <1>2 DEF DownIsEmpty, GenesisPending, ExecutedRight
<1>7. OptimismRight'
  BY <1>1 DEF OptimismRight, Height, Committed, Executions
<1>8. ExportRight' /\ NoBlocks' /\ AbsentExplained'
  BY DEF ExportRight, NoBlocks, AbsentExplained
<1> QED BY <1>5, <1>6, <1>7, <1>8

LEMMA DecideInv == IInv /\ Decide => IInv'
<1> SUFFICES ASSUME IInv, Decide PROVE IInv'
  OBVIOUS
<1> USE DEF IInv, Decide
<1>1. PICK b \in Blocks : decided' = Append(decided, b)
  OBVIOUS
<1>2. decided \in Seq(Blocks) /\ versions \in Seq(Stored) /\ Len(versions) <= Len(decided)
  BY DEF TypeOK
<1>3. /\ decided' \in Seq(Blocks)
      /\ Len(decided') = Len(decided) + 1
      /\ \A i \in 1 .. Len(decided) : decided'[i] = decided[i]
  BY <1>1, <1>2
<1>4. TypeOK'
  BY <1>2, <1>3 DEF TypeOK
<1>5. DownIsEmpty' /\ GenesisPending'
  BY DEF DownIsEmpty, GenesisPending, First
<1>6. ExecutedRight'
  <2> SUFFICES ASSUME executed' PROVE ExecutedRight'
    BY DEF ExecutedRight
  <2>1. Len(versions) < Len(decided) /\ work = Execute(Last, NextDecided)
        /\ (oe # None => oe.done)
    BY DEF ExecutedRight
  <2>2. NextDecided' = NextDecided
    BY <1>2, <1>3, <2>1 DEF NextDecided
  <2>3. Last' = Last
    BY DEF Last, First, Committed
  <2>4. work' = Execute(Last', NextDecided')
    BY <2>1, <2>2, <2>3
  <2> QED BY <1>2, <1>3, <2>1, <2>4 DEF ExecutedRight
<1>7. OptimismRight'
  BY DEF OptimismRight, Height, Committed
<1>8. ExportRight' /\ NoBlocks'
  BY DEF ExportRight, NoBlocks
<1>9. AbsentExplained'
  <2> SUFFICES ASSUME NEW k \in 1 .. Len(versions)
               PROVE  versions[k] = Absent <=>
                         entry = LeftOut /\ \A i \in 1 .. k : Ledger!Decisive(decided'[i]) = {}
    BY DEF AbsentExplained
  <2>1. \A i \in 1 .. k : decided'[i] = decided[i]
    BY <1>2, <1>3
  <2>2. \A i \in 1 .. k : Ledger!Decisive(decided'[i]) = Ledger!Decisive(decided[i])
    BY <2>1
  <2> QED BY <2>2 DEF AbsentExplained
<1> QED BY <1>4, <1>5, <1>6, <1>7, <1>8, <1>9

LEMMA FinalizeInv == IInv /\ FinalizeBlock => IInv'
<1> SUFFICES ASSUME IInv, FinalizeBlock PROVE IInv'
  OBVIOUS
<1> USE DEF IInv, FinalizeBlock, consensus
<1>1. Len(versions) < Len(decided) /\ NextDecided \in Blocks /\ Last \in Stored
  BY NextType, LastType DEF TypeOK
<1>2. work' = Execute(Last, NextDecided) /\ (oe' # None => oe'.done)
  <2>1. CASE IsDecided(oe) /\ oe.done /\ UNCHANGED <<work, oe>>
    BY <2>1 DEF IsDecided, OptimismRight, GenesisPending, Last
  <2>2. CASE /\ work' = Execute(IF versions = <<>> THEN work ELSE Committed, NextDecided)
             /\ oe' = None
    <3>1. Last = IF versions = <<>> THEN work ELSE Committed
      BY DEF Last, GenesisPending
    <3> QED BY <2>2, <3>1
  <2> QED BY <2>1, <2>2
<1>3. TypeOK'
  BY <1>1, <1>2, ExecuteType DEF TypeOK
<1>4. DownIsEmpty' /\ GenesisPending'
  BY DEF DownIsEmpty, GenesisPending
<1>5. ExecutedRight'
  <2>1. Last' = Last /\ NextDecided' = NextDecided
    BY DEF Last, First, Committed, NextDecided
  <2>2. work' = Execute(Last', NextDecided')
    BY <1>2, <2>1
  <2> QED BY <1>1, <1>2, <2>2 DEF ExecutedRight
<1>6. OptimismRight'
  <2>1. CASE UNCHANGED <<work, oe>>
    BY <2>1 DEF OptimismRight, Height, Committed
  <2>2. CASE oe' = None
    BY <2>2 DEF OptimismRight
  <2> QED BY <2>1, <2>2
<1>7. ExportRight' /\ NoBlocks'
  BY DEF ExportRight, NoBlocks
<1>8. AbsentExplained'
  BY DEF AbsentExplained
<1> QED BY <1>3, <1>4, <1>5, <1>6, <1>7, <1>8

(* What Commit appends, and that it goes on to satisfy AbsentExplained.    *)
LEMMA CommitAppends ==
    ASSUME IInv, Commit
    PROVE  /\ NextDecided \in Blocks /\ Last \in Stored
           /\ Len(versions) < Len(decided)
           /\ work = Execute(Last, NextDecided) /\ work \in Stored
           /\ versions' \in Seq(Stored)
           /\ Len(versions') = Len(versions) + 1
           /\ \A k \in 1 .. Len(versions) : versions'[k] = versions[k]
           /\ versions'[Len(versions) + 1] = work
<1> USE DEF IInv, Commit
<1>1. Len(versions) < Len(decided) /\ work = Execute(Last, NextDecided)
  BY DEF ExecutedRight
<1>2. NextDecided \in Blocks /\ Last \in Stored
  BY <1>1, NextType, LastType
<1>3. work \in Stored
  BY <1>1, <1>2, ExecuteType
<1>4. versions \in Seq(Stored) /\ versions' = Append(versions, work)
  BY DEF TypeOK
<1> QED BY <1>1, <1>2, <1>3, <1>4

LEMMA CommitInv == IInv /\ Commit => IInv'
<1> SUFFICES ASSUME IInv, Commit PROVE IInv'
  OBVIOUS
<1> DEFINE n == Len(versions) + 1
<1>1. versions \in Seq(Stored) /\ Len(versions) \in Nat
  BY DEF IInv, TypeOK
<1>2. TypeOK'
  <2>1. /\ versions' \in Seq(Stored) /\ Len(versions') <= Len(decided')
        /\ pruned' \in Nat /\ (pruned' = 0 \/ pruned' < Len(versions'))
    <3>1. decided' = decided /\ decided \in Seq(Blocks)
      BY DEF IInv, TypeOK, Commit, consensus
    <3>2. Len(decided) \in Nat /\ Len(versions) < Len(decided) /\ Len(versions') = n
      BY <3>1, CommitAppends
    <3>3. versions' \in Seq(Stored)
      BY CommitAppends
    <3>4. pruned' \in Nat /\ (pruned' = 0 \/ pruned' < n)
      BY <1>1 DEF IInv, TypeOK, Commit
    <3> QED BY <1>1, <3>1, <3>2, <3>3, <3>4
  <2> QED BY <2>1 DEF IInv, TypeOK, Commit, consensus
<1>3. DownIsEmpty' /\ ExecutedRight' /\ NoBlocks'
  BY DEF IInv, Commit, consensus, DownIsEmpty, ExecutedRight, NoBlocks
<1>4. versions' # <<>>
  BY <1>1, CommitAppends
<1>5. GenesisPending'
  BY <1>4 DEF GenesisPending
<1>6. OptimismRight'
  <2> SUFFICES ASSUME oe # None PROVE OptimismRight'
    BY DEF Commit, OptimismRight
  <2>1. oe \in Executions /\ oe.height <= Height + 1
    BY DEF IInv, TypeOK, OptimismRight
  <2>2. Height' = Height + 1 /\ Height \in Nat /\ oe.height \in Nat /\ oe' = oe
    BY <1>1, <2>1, CommitAppends DEF IInv, TypeOK, Height, Commit, consensus, Executions
  <2> QED BY <2>1, <2>2 DEF OptimismRight
<1>7. ExportRight'
  BY <1>1, CommitAppends DEF IInv, ExportRight, Commit, consensus
<1>8. AbsentExplained'
  <2> SUFFICES ASSUME NEW k \in 1 .. n
               PROVE  versions'[k] = Absent <=>
                         entry = LeftOut /\ \A i \in 1 .. k : Ledger!Decisive(decided[i]) = {}
    <3>1. Len(versions') = n /\ entry' = entry /\ decided' = decided
      BY CommitAppends DEF Commit, consensus
    <3>2. AbsentExplained' <=> \A k \in 1 .. n :
            versions'[k] = Absent <=>
                entry = LeftOut /\ \A i \in 1 .. k : Ledger!Decisive(decided[i]) = {}
      BY <3>1 DEF AbsentExplained
    <3> QED BY <3>2
  <2>1. CASE k \in 1 .. Len(versions)
    BY <2>1, CommitAppends DEF IInv, AbsentExplained
  <2>2. CASE k = n
    <3>1. Last = Absent <=>
            entry = LeftOut /\ \A i \in 1 .. Len(versions) : Ledger!Decisive(decided[i]) = {}
      <4>1. CASE versions = <<>>
        <5>1. Len(versions) = 0
          BY <4>1
        <5>2. entry # Absent
          BY DEF IInv, TypeOK
        <5> QED BY <4>1, <5>1, <5>2 DEF Last, First
      <4>2. CASE versions # <<>>
        <5>1. Len(versions) \in 1 .. Len(versions)
          BY <1>1, <4>2
        <5> QED BY <4>2, <5>1 DEF Last, Committed, IInv, AbsentExplained
      <4> QED BY <4>1, <4>2
    <3>2. NextDecided = decided[n] /\ versions'[n] = Execute(Last, decided[n])
          /\ decided[n] \in Blocks
      BY CommitAppends DEF NextDecided
    <3>3. CASE Ledger!Decisive(decided[n]) # {}
      <4>1. versions'[n] \in ParamValues
        BY <3>2, <3>3, ExecuteIsOutcome
      <4>2. versions'[n] # Absent
        BY <4>1 DEF Entries
      <4> QED BY <1>1, <2>2, <3>3, <4>2
    <3>4. CASE Ledger!Decisive(decided[n]) = {}
      <4>1. versions'[n] = Last
        BY <3>2, <3>4, ExecuteIsOutcome
      <4>2. (\A i \in 1 .. n : Ledger!Decisive(decided[i]) = {}) <=>
                \A i \in 1 .. Len(versions) : Ledger!Decisive(decided[i]) = {}
        <5>1. \A i \in 1 .. n : i = n \/ i \in 1 .. Len(versions)
          BY <1>1
        <5>2. 1 .. Len(versions) \subseteq 1 .. n
          BY <1>1
        <5> QED BY <3>4, <5>1, <5>2
      <4> QED BY <2>2, <3>1, <4>1, <4>2
    <3> QED BY <3>3, <3>4
  <2>3. k \in 1 .. Len(versions) \/ k = n
    BY <1>1
  <2> QED BY <2>1, <2>2, <2>3
<1> QED BY <1>2, <1>3, <1>5, <1>6, <1>7, <1>8 DEF IInv

LEMMA CrashInv == IInv /\ Crash => IInv'
<1> SUFFICES ASSUME IInv, Crash PROVE IInv'
  OBVIOUS
<1> USE DEF IInv, Crash, consensus
<1>1. TypeOK'
  <2>1. crashes' \in 0 .. MaxCrashes
    BY DEF TypeOK
  <2> QED BY <2>1 DEF TypeOK
<1>2. DownIsEmpty' /\ GenesisPending' /\ ExecutedRight' /\ OptimismRight'
  BY DEF DownIsEmpty, GenesisPending, ExecutedRight, OptimismRight
<1>3. ExportRight' /\ NoBlocks'
  BY DEF ExportRight, NoBlocks
<1>4. AbsentExplained'
  BY DEF AbsentExplained
<1> QED BY <1>1, <1>2, <1>3, <1>4

LEMMA PruneInv == IInv /\ Prune => IInv'
<1> SUFFICES ASSUME IInv, Prune PROVE IInv'
  OBVIOUS
<1> USE DEF IInv, Prune, consensus
<1>1. pruned' \in Nat /\ pruned' < Len(versions)
  BY DEF TypeOK
<1>2. TypeOK'
  BY <1>1 DEF TypeOK
<1>3. DownIsEmpty' /\ GenesisPending'
  BY DEF DownIsEmpty, GenesisPending, First
<1>4. ExecutedRight' /\ OptimismRight'
  BY DEF ExecutedRight, OptimismRight, Last, First, Committed, NextDecided, Height
<1>5. ExportRight' /\ NoBlocks' /\ AbsentExplained'
  BY DEF ExportRight, NoBlocks, AbsentExplained
<1> QED BY <1>2, <1>3, <1>4, <1>5

(* What an export that succeeds loads, and what it takes from there.       *)
LEMMA ExportLoads ==
    ASSUME TypeOK, NEW request \in Requests, NEW obstacle,
           Exported(request, obstacle) # Failed
    PROVE  LET k == Wanted(request) - base
           IN  /\ k \in 1 .. Len(versions)
               /\ \/ Exported(request, obstacle) = LeftOut
                  \/ Exported(request, obstacle) = versions[k]
               /\ Exported(request, obstacle) \in ParamValues \cup {LeftOut}
<1>1. /\ base \in Nat /\ pruned \in Nat /\ Len(versions) \in Nat
      /\ versions \in Seq(Stored)
  BY DEF TypeOK
<1>2. Wanted(request) \in base + pruned + 1 .. base + Len(versions)
  BY DEF Exported, Loads, Height
<1>3. Wanted(request) - base \in 1 .. Len(versions)
  BY <1>1, <1>2
<1>4. versions[Wanted(request) - base] \in Stored
  BY <1>1, <1>3
<1> QED BY <1>3, <1>4 DEF Exported, ExportGenesis, Stored

LEMMA AppExportInv ==
    ASSUME NEW request \in Requests, NEW obstacle \in Obstacles
    PROVE  IInv /\ AppExport(request, obstacle) => IInv'
<1> SUFFICES ASSUME IInv, AppExport(request, obstacle) PROVE IInv'
  OBVIOUS
<1> USE DEF IInv, consensus
<1> DEFINE of == Wanted(request)
           e == Exported(request, obstacle)
<1>1. export' = [entry |-> e, height |-> IF request.zero \/ e = Failed THEN 0 ELSE of + 1]
  BY DEF AppExport
<1>2. Height \in Nat /\ of \in Nat /\ base \in Nat
  <2>1. Height \in Nat /\ base \in Nat
    BY DEF TypeOK, Height
  <2> QED BY <2>1 DEF Requests, Wanted, Latest
<1>3. ASSUME e # Failed
      PROVE  /\ of - base \in 1 .. Len(versions)
             /\ e = LeftOut \/ e = versions[of - base]
             /\ e \in ParamValues \cup {LeftOut}
  BY <1>3, ExportLoads
<1> HIDE DEF e, of
<1>4. TypeOK'
  <2>1. export' \in Exports
    BY <1>1, <1>2, <1>3 DEF Exports
  <2> QED BY <2>1 DEF AppExport, TypeOK
<1>5. DownIsEmpty' /\ GenesisPending' /\ NoBlocks'
  BY DEF AppExport, DownIsEmpty, GenesisPending, First, NoBlocks
<1>6. ExecutedRight' /\ OptimismRight'
  BY DEF AppExport, DownIsEmpty, ExecutedRight, OptimismRight
<1>7. ExportRight'
  <2> SUFFICES ASSUME e # Failed
               PROVE  ExportRight'
    BY <1>1 DEF ExportRight
  <2>1. export'.height \in {0, base + (of - base) + 1}
    BY <1>1, <1>2
  <2>2. export'.entry = LeftOut \/ export'.entry = versions[of - base]
    BY <1>1, <1>3
  <2> QED BY <1>3, <2>1, <2>2 DEF AppExport, ExportRight
<1>8. AbsentExplained'
  BY DEF AppExport, AbsentExplained
<1> QED BY <1>4, <1>5, <1>6, <1>7, <1>8

LEMMA NewChainInv == IInv /\ NewChain => IInv'
<1> SUFFICES ASSUME IInv, NewChain PROVE IInv'
  OBVIOUS
<1> USE DEF IInv, NewChain
<1>1. Len(decided') = 0 /\ Len(versions') = 0
  OBVIOUS
<1>2. TypeOK'
  <2>1. export \in Exports
    BY DEF TypeOK
  <2>2. entry' \in Entries
    BY <2>1 DEF Exports, Entries
  <2>3. base' \in Nat /\ pruned' = 0
    BY <2>1 DEF Exports
  <2>4. decided' \in Seq(Blocks) /\ versions' \in Seq(Stored)
    OBVIOUS
  <2>5. Len(decided') <= MaxBlocks /\ Len(versions') <= Len(decided')
    BY <1>1
  <2>6. crashes' \in 0 .. MaxCrashes /\ chains' \in 0 .. MaxChains
    BY DEF TypeOK
  <2> QED BY <2>2, <2>3, <2>4, <2>5, <2>6 DEF TypeOK
<1>3. DownIsEmpty' /\ GenesisPending' /\ ExecutedRight' /\ OptimismRight'
  BY DEF DownIsEmpty, GenesisPending, ExecutedRight, OptimismRight
<1>4. ExportRight' /\ NoBlocks' /\ AbsentExplained'
  BY <1>1 DEF ExportRight, NoBlocks, AbsentExplained
<1> QED BY <1>2, <1>3, <1>4

LEMMA StutterInv == IInv /\ UNCHANGED vars => IInv'
<1> SUFFICES ASSUME IInv, UNCHANGED vars PROVE IInv'
  OBVIOUS
<1> USE DEF IInv, vars
<1>1. TypeOK'
  BY DEF TypeOK
<1>2. DownIsEmpty' /\ GenesisPending'
  BY DEF DownIsEmpty, GenesisPending, First
<1>3. ExecutedRight' /\ OptimismRight'
  BY DEF ExecutedRight, OptimismRight, Last, First, Committed, NextDecided, Height
<1>4. ExportRight' /\ NoBlocks'
  BY DEF ExportRight, NoBlocks
<1>5. AbsentExplained'
  BY DEF AbsentExplained
<1> QED BY <1>1, <1>2, <1>3, <1>4, <1>5

LEMMA StepInv == IInv /\ [Next]_vars => IInv'
BY StartInv, InitChainInv, ProposalInv, OptimismInv, DecideInv, FinalizeInv,
   CommitInv, PruneInv, CrashInv, AppExportInv, NewChainInv, StutterInv DEF Next, Node

LEMMA Invariance == Spec => []IInv
BY InitInv, StepInv, PTL DEF Spec

----------------------------------------------------------------------------
(* Every state of the node has its type (TypeOK): no export passes absent  *)
(* parameters on, and the node never overtakes its consensus.              *)
THEOREM TypeCorrect == Spec => []TypeOK
<1>1. IInv => TypeOK
  BY DEF IInv
<1> QED BY <1>1, Invariance, PTL

(* An export that no option and no other part stops fails just for a       *)
(* height that was not committed or was pruned, and for parameters that    *)
(* were never set (ExportsExplained; ExportGenesis in keeper/genesis.go,   *)
(* appExport in commands.go).                                              *)
THEOREM ExportFailures == Spec => ExportsExplained
<1> DEFINE Explained ==
        export' # export =>
            \A request \in Requests, obstacle \in Obstacles :
                AppExport(request, obstacle) =>
                    (export'.entry = Failed <=>
                        \/ obstacle # "none"
                        \/ Wanted(request) \notin base + pruned + 1 .. base + Len(versions)
                        \/ request.all /\ NeverSet(Wanted(request)))
<1>1. IInv => Explained
  <2> SUFFICES ASSUME IInv, NEW request \in Requests, NEW obstacle \in Obstacles,
                      AppExport(request, obstacle)
               PROVE  export'.entry = Failed <=>
                        \/ obstacle # "none"
                        \/ Wanted(request) \notin base + pruned + 1 .. base + Len(versions)
                        \/ request.all /\ NeverSet(Wanted(request))
    OBVIOUS
  <2> DEFINE k == Wanted(request) - base
  <2>1. export'.entry = Exported(request, obstacle)
    BY DEF AppExport
  <2>2. Loads(request) <=> Wanted(request) \in base + pruned + 1 .. base + Len(versions)
    BY DEF Loads, Height
  <2>3. Failed # LeftOut /\ Failed \notin Stored
    BY DEF Entries, Stored
  <2>4. CASE obstacle # "none" \/ ~Loads(request)
    BY <2>1, <2>2, <2>4 DEF Exported
  <2>5. CASE obstacle = "none" /\ Loads(request)
    <3>1. /\ base \in Nat /\ pruned \in Nat /\ Len(versions) \in Nat
          /\ versions \in Seq(Stored)
      BY DEF IInv, TypeOK
    <3>2. Wanted(request) \in base + pruned + 1 .. base + Len(versions)
      BY <2>2, <2>5
    <3>3. k \in 1 .. Len(versions)
      BY <3>1, <3>2
    <3>4. versions[k] \in Stored
      BY <3>1, <3>3
    <3>5. Exported(request, obstacle) = Failed <=> request.all /\ versions[k] = Absent
      BY <2>3, <2>5, <3>4 DEF Exported, ExportGenesis
    <3>6. versions[k] = Absent <=> NeverSet(Wanted(request))
      BY <3>3 DEF IInv, AbsentExplained, NeverSet
    <3> QED BY <2>1, <2>5, <3>2, <3>5, <3>6
  <2> QED BY <2>4, <2>5
<1> QED BY <1>1, Invariance, PTL DEF ExportsExplained

----------------------------------------------------------------------------
(* The refinement.                                                         *)

LEMMA Prefixed ==
    ASSUME NEW S, NEW x \in S, NEW s \in Seq(S)
    PROVE  /\ <<x>> \o s \in Seq(S)
           /\ Len(<<x>> \o s) = Len(s) + 1
           /\ (<<x>> \o s)[1] = x
           /\ \A k \in 1 .. Len(s) : (<<x>> \o s)[k + 1] = s[k]
<1>1. <<x>> \in Seq(S) /\ Len(<<x>>) = 1 /\ <<x>>[1] = x /\ Len(s) \in Nat
  OBVIOUS
<1> QED BY <1>1, ConcatProperties

LEMMA PrefixedAppend ==
    ASSUME NEW S, NEW x \in S, NEW s \in Seq(S), NEW e \in S
    PROVE  <<x>> \o Append(s, e) = Append(<<x>> \o s, e)
<1> DEFINE l == <<x>> \o Append(s, e)
           r == Append(<<x>> \o s, e)
<1>1. /\ Len(s) \in Nat /\ Append(s, e) \in Seq(S)
      /\ Len(Append(s, e)) = Len(s) + 1
      /\ \A k \in 1 .. Len(s) : Append(s, e)[k] = s[k]
      /\ Append(s, e)[Len(s) + 1] = e
  OBVIOUS
<1>2. /\ <<x>> \o s \in Seq(S) /\ Len(<<x>> \o s) = Len(s) + 1
      /\ (<<x>> \o s)[1] = x
      /\ \A k \in 1 .. Len(s) : (<<x>> \o s)[k + 1] = s[k]
  BY Prefixed
<1>3. /\ l \in Seq(S) /\ Len(l) = Len(s) + 2
      /\ l[1] = x
      /\ \A k \in 1 .. Len(s) + 1 : l[k + 1] = Append(s, e)[k]
  BY <1>1, Prefixed
<1>4. /\ r \in Seq(S) /\ Len(r) = Len(s) + 2
      /\ \A k \in 1 .. Len(s) + 1 : r[k] = (<<x>> \o s)[k]
      /\ r[Len(s) + 2] = e
  BY <1>1, <1>2
<1> HIDE DEF l, r
<1>5. ASSUME NEW i \in 1 .. Len(l) PROVE l[i] = r[i]
  <2>1. CASE i = 1
    BY <1>1, <1>2, <1>3, <1>4, <2>1
  <2>2. CASE i = Len(s) + 2
    BY <1>1, <1>3, <1>4, <2>2
  <2>3. CASE i - 1 \in 1 .. Len(s)
    <3>1. i = (i - 1) + 1 /\ i - 1 \in 1 .. Len(s) + 1 /\ i \in 1 .. Len(s) + 1
      BY <1>1, <2>3
    <3> QED BY <1>1, <1>2, <1>3, <1>4, <2>3, <3>1
  <2> QED BY <1>1, <1>3, <2>1, <2>2, <2>3
<1>6. l = r
  BY <1>3, <1>4, <1>5, SeqEqual
<1> QED BY <1>6 DEF l, r

(* A prefix of a sequence does not change when the sequence grows.         *)
LEMMA PrefixOfAppend ==
    ASSUME NEW S, NEW s \in Seq(S), NEW e \in S, NEW n \in 0 .. Len(s)
    PROVE  SubSeq(Append(s, e), 1, n) = SubSeq(s, 1, n)
<1>1. /\ Len(s) \in Nat
      /\ \A i \in 1 .. n : s[i] \in S /\ Append(s, e)[i] = s[i]
  OBVIOUS
<1>2. /\ SubSeq(s, 1, n) \in Seq(S) /\ Len(SubSeq(s, 1, n)) = n
      /\ \A i \in 1 .. n : SubSeq(s, 1, n)[i] = s[i]
  BY <1>1
<1>3. /\ SubSeq(Append(s, e), 1, n) \in Seq(S) /\ Len(SubSeq(Append(s, e), 1, n)) = n
      /\ \A i \in 1 .. n : SubSeq(Append(s, e), 1, n)[i] = s[i]
  BY <1>1
<1> QED BY <1>2, <1>3, SeqEqual

LEMMA NextPrefix ==
    ASSUME NEW S, NEW s \in Seq(S), NEW n \in Nat, n < Len(s)
    PROVE  SubSeq(s, 1, n + 1) = Append(SubSeq(s, 1, n), s[n + 1])
<1> DEFINE p == SubSeq(s, 1, n)
           q == SubSeq(s, 1, n + 1)
           r == Append(p, s[n + 1])
<1>1. \A i \in 1 .. n + 1 : s[i] \in S
  OBVIOUS
<1>2. p \in Seq(S) /\ Len(p) = n /\ \A i \in 1 .. n : p[i] = s[i]
  BY <1>1
<1>3. q \in Seq(S) /\ Len(q) = n + 1 /\ \A i \in 1 .. n + 1 : q[i] = s[i]
  BY <1>1
<1> HIDE DEF p, q
<1>4. /\ r \in Seq(S) /\ Len(r) = n + 1
      /\ \A i \in 1 .. n : r[i] = p[i]
      /\ r[n + 1] = s[n + 1]
  BY <1>1, <1>2
<1> HIDE DEF r
<1>5. \A i \in 1 .. n + 1 : q[i] = r[i]
  BY <1>2, <1>3, <1>4
<1>6. q = r
  BY <1>3, <1>4, <1>5, SeqEqual
<1> QED BY <1>6 DEF p, q, r

(* The ledger of the node, and what it holds.                              *)
History == <<First>> \o versions
Executed == SubSeq(decided, 1, Len(versions))
Values == Stored \cup Entries

LEMMA HistoryIs ==
    ASSUME TypeOK
    PROVE  /\ First \in Values /\ versions \in Seq(Values)
           /\ Len(versions) \in Nat
           /\ Len(History) = Len(versions) + 1
           /\ \A k \in 1 .. Len(versions) : History[k + 1] = versions[k]
           /\ History[Len(History)] = Last
<1>1. First \in Values
  BY DEF TypeOK, First, Values, Stored, Entries
<1>2. versions \in Seq(Values) /\ Len(versions) \in Nat
  <2>1. Stored \subseteq Values
    BY DEF Values
  <2> QED BY <2>1, SeqMonotonic DEF TypeOK
<1>3. /\ Len(History) = Len(versions) + 1 /\ History[1] = First
      /\ \A k \in 1 .. Len(versions) : History[k + 1] = versions[k]
  BY <1>1, <1>2, Prefixed DEF History
<1>4. History[Len(History)] = Last
  <2>1. CASE versions = <<>>
    BY <1>3, <2>1 DEF Last
  <2>2. CASE versions # <<>>
    <3>1. Len(versions) \in 1 .. Len(versions)
      BY <1>2, <2>2
    <3> QED BY <1>2, <1>3, <2>2, <3>1 DEF Last, Committed
  <2> QED BY <2>1, <2>2
<1> QED BY <1>1, <1>2, <1>3, <1>4

LEMMA InitMaps == Init => Ledger!Genesis
<1> SUFFICES ASSUME Init PROVE Ledger!Genesis
  OBVIOUS
<1>1. entry \in Entries /\ entry # LeftOut
  BY DEF Init, Entries
<1>2. <<entry>> \o <<>> = <<entry>>
  <2>1. <<entry>> \in Seq(Entries)
    BY <1>1
  <2> QED BY <2>1, ConcatEmptySeq
<1>3. SubSeq(decided, 1, Len(versions)) = <<>>
  <2>1. Len(versions) = 0
    BY DEF Init
  <2> QED BY <2>1, SubSeqEmpty
<1> QED BY <1>1, <1>2, <1>3 DEF Init, Ledger!Genesis

(* Commit executes the next block of the ledger.                           *)
LEMMA CommitMaps == IInv /\ Commit => Ledger!ExecuteBlock
<1> SUFFICES ASSUME IInv, Commit PROVE Ledger!ExecuteBlock
  OBVIOUS
<1> DEFINE n == Len(versions)
<1>1. TypeOK
  BY DEF IInv
<1>2. n \in Nat /\ n < Len(decided) /\ decided \in Seq(Blocks) /\ Len(versions') = n + 1
  BY <1>1, HistoryIs, CommitAppends DEF TypeOK
<1>3. Executed' = Append(Executed, NextDecided)
  <2>1. decided' = decided
    BY DEF Commit, consensus
  <2> QED BY <1>2, <2>1, NextPrefix DEF Executed, NextDecided
<1>4. History' = Append(History, Ledger!Outcome(History[Len(History)], NextDecided))
  <2>1. work \in Values /\ First' = First /\ versions' = Append(versions, work)
    BY CommitAppends DEF Commit, consensus, Values, First
  <2>2. History' = Append(History, work)
    BY <1>1, <2>1, HistoryIs, PrefixedAppend DEF History
  <2>3. work = Ledger!Outcome(Last, NextDecided)
    BY CommitAppends, ExecuteIsOutcome
  <2> QED BY <1>1, <2>2, <2>3, HistoryIs
<1>5. base' = base /\ NextDecided \in Blocks
  BY CommitAppends DEF Commit, consensus
<1> QED BY <1>3, <1>4, <1>5 DEF Ledger!ExecuteBlock, History, Executed, First

(* A chain from an export goes on from the height that was exported.       *)
LEMMA NewChainMaps == IInv /\ NewChain => Ledger!NewChain
<1> SUFFICES ASSUME IInv, NewChain PROVE Ledger!NewChain
  OBVIOUS
<1>1. TypeOK
  BY DEF IInv
<1>2. PICK k \in 1 .. Len(versions) :
        /\ export.height \in {0, base + k + 1}
        /\ export.entry = LeftOut \/ export.entry = versions[k]
  BY DEF NewChain, IInv, ExportRight
<1>3. k + 1 \in 2 .. Len(History) /\ History[k + 1] = versions[k]
  BY <1>1, HistoryIs
<1>4. base' \in {0, base + (k + 1) - 1}
  BY <1>1, <1>2 DEF NewChain, TypeOK
<1>5. First' \in {History[k + 1], Absent}
  BY <1>2, <1>3 DEF NewChain, First
<1>6. History' = <<First'>> /\ Executed' = <<>>
  <2>1. versions' = <<>> /\ Len(versions') = 0
    BY DEF NewChain
  <2>2. <<First'>> \in Seq({First'})
    OBVIOUS
  <2>3. <<First'>> \o <<>> = <<First'>>
    BY <2>2, ConcatEmptySeq
  <2> QED BY <2>1, <2>3, SubSeqEmpty DEF History, Executed
<1> QED BY <1>3, <1>4, <1>5, <1>6 DEF Ledger!NewChain, History, Executed, First

(* Decide does not reach the blocks that are executed.                     *)
LEMMA DecideMaps == IInv /\ Decide => UNCHANGED Ledger!ledger
<1> SUFFICES ASSUME IInv, Decide PROVE UNCHANGED Ledger!ledger
  OBVIOUS
<1>1. PICK b \in Blocks : decided' = Append(decided, b)
  BY DEF Decide
<1>2. decided \in Seq(Blocks) /\ Len(versions) \in 0 .. Len(decided)
  BY DEF IInv, TypeOK
<1>3. SubSeq(decided', 1, Len(versions)) = SubSeq(decided, 1, Len(versions))
  BY <1>1, <1>2, PrefixOfAppend
<1> QED BY <1>3 DEF Decide, Ledger!ledger

LEMMA StepMaps == IInv /\ [Next]_vars =>
                    [Ledger!ExecuteBlock \/ Ledger!NewChain]_(Ledger!ledger)
<1> SUFFICES ASSUME IInv, [Next]_vars
             PROVE  [Ledger!ExecuteBlock \/ Ledger!NewChain]_(Ledger!ledger)
  OBVIOUS
<1>1. ASSUME UNCHANGED <<entry, base, decided, versions>>
      PROVE  UNCHANGED Ledger!ledger
  BY <1>1 DEF Ledger!ledger
<1>2. \/ UNCHANGED <<entry, base, decided, versions>>
      \/ Commit \/ NewChain \/ Decide
  BY DEF Next, Node, vars, consensus, Start, InitChain, OptimisticExecution,
         FinalizeBlock, ProcessProposal, Prune, Crash, AppExport
<1> QED BY <1>1, <1>2, CommitMaps, NewChainMaps, DecideMaps

(* The node keeps the ledger of its chain (ImplementsLedger), whatever it  *)
(* executes before it is decided (app.go:188), wherever it crashes and     *)
(* from whichever export its chain began.                                  *)
THEOREM LedgerKept == Spec => ImplementsLedger
BY InitMaps, StepMaps, Invariance, PTL DEF Spec, ImplementsLedger, Ledger!LedgerSpec
=============================================================================
