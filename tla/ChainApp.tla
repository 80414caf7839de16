------------------------------ MODULE ChainApp ------------------------------
(***************************************************************************)
(* A node of the chain, as app/app.go builds it, with the one item that    *)
(* x/chainrice keeps in the store: its parameters.  The handlers and the   *)
(* genesis of the module, the application's start, InitChain, optimistic   *)
(* execution, which app.go:188 turns on, commits, crashes, the export      *)
(* command at any height, and new chains from what was exported.           *)
(*                                                                         *)
(* Params has no field yet.  The handlers pass it on as one value, so it   *)
(* is a member of a constant set here.                                     *)
(***************************************************************************)
EXTENDS Integers, Sequences

CONSTANTS
    ParamValues,          \* types.Params
    Default,              \* types.DefaultParams()
    Absent,               \* no item in the store
    LeftOut, Malformed,   \* entries of a genesis: none, or one not in order
    Failed,               \* in place of the entry of an export that failed
    None,                 \* no store, no execution, no export
    Addresses,            \* addresses.StringToBytes: of each string, its address
    NoAddress,            \* ... or an error
    GovAddress,           \* of the governance module
    Blocks,               \* sequences of batches, which are sequences of messages
    MaxBlocks, MaxCrashes, MaxChains

Stored == ParamValues \cup {Absent}
Entries == ParamValues \cup {LeftOut, Malformed}

ASSUME DefaultAssumption == Default \in ParamValues
ASSUME SentinelAssumption ==
    /\ Absent \notin Entries /\ Failed \notin Entries /\ None \notin Stored
    /\ Absent # Failed /\ LeftOut # Malformed
    /\ LeftOut \notin ParamValues /\ Malformed \notin ParamValues
ASSUME BlocksAssumption ==
    Blocks \subseteq Seq(Seq([authority : DOMAIN Addresses, params : ParamValues]))
ASSUME AddressAssumption == GovAddress # NoAddress
ASSUME BoundsAssumption == MaxBlocks \in Nat /\ MaxCrashes \in Nat /\ MaxChains \in Nat

VARIABLES
    entry,     \* the module's entry in the genesis of the chain
    base,      \* the height below its first block
    decided,   \* the blocks that consensus decided, first to last
    versions,  \* the committed versions of the store, first to last
    pruned,    \* how many of these, from the first, are no longer there
    up,        \* the node runs
    work,      \* the store of the block being executed
    executed,  \* the decided block is executed in work
    oe,        \* the last optimistic execution since the start
    export,    \* the last export from this chain
    crashes,   \* in this chain
    chains     \* that were started from exports

consensus == <<entry, base, decided>>
vars == <<entry, base, decided, versions, pruned, up, work, executed, oe, export, crashes, chains>>

Height == base + Len(versions)
Committed == versions[Len(versions)]
NextDecided == decided[Len(versions) + 1]

----------------------------------------------------------------------------
(* The keeper.  No authority is configured: it is the governance module.   *)
Authority == GovAddress

\* Mutant: the sender is not compared with the authority.
MutUpdateParams(msg) == Addresses[msg.authority] # NoAddress

Validate(params) == TRUE  \* there is no field to look at

(* Whether UpdateParams accepts a message; then it stores the parameters,  *)
(* which fails for no value that decodes into types.Params.                *)
(* A message that fails for another reason, of another module or because   *)
(* the gas is used up, is one with no address here; messages that succeed  *)
(* and do not touch the parameters are left out.                           *)
UpdateParams(msg) ==
    /\ Addresses[msg.authority] # NoAddress
    /\ Addresses[msg.authority] = Authority
    /\ Validate(msg.params)

(* The messages of a transaction, or of a governance proposal, run on a    *)
(* branch of the store, which is dropped with the first that is refused.   *)
Deliver(stored, batch) ==
    IF batch = <<>> \/ \E i \in DOMAIN batch : ~UpdateParams(batch[i])
    THEN stored
    ELSE batch[Len(batch)].params

(* The batches of a block follow each other on the store of the block.     *)
Execute(stored, block) ==
    LET After[n \in 0 .. Len(block)] ==
            IF n = 0 THEN stored ELSE Deliver(After[n - 1], block[n])
    IN  After[Len(block)]

InitGenesis(params) == params

\* Mutant: the error is ignored.
MutExportGenesis(stored) == stored

(* The value of the item; the module panics if there is none.              *)
ExportGenesis(stored) == IF stored = Absent THEN Failed ELSE stored

----------------------------------------------------------------------------
Init ==
    /\ entry \in {Default, Malformed}  \* of DefaultGenesis, or edited
    /\ base = 0 /\ decided = <<>> /\ versions = <<>> /\ pruned = 0
    /\ up = FALSE /\ work = None /\ executed = FALSE /\ oe = None
    /\ export = None
    /\ crashes = 0 /\ chains = 0

(* New loads the last version.                                             *)
Start ==
    /\ ~up /\ up' = TRUE
    /\ UNCHANGED <<consensus, versions, pruned, work, executed, oe, export, crashes, chains>>

\* Mutant: an entry that is left out is taken for one that is malformed.
MutCanInit(e) == e \in ParamValues
CanInit(e) == e # Malformed

(* The module manager passes over modules that the genesis leaves out, and *)
(* InitGenesis panics on an entry that does not decode.                    *)
InitChain ==
    /\ up /\ versions = <<>> /\ work = None
    /\ \/ /\ CanInit(entry)
          /\ work' = IF entry = LeftOut THEN Absent ELSE InitGenesis(entry)
          /\ UNCHANGED up
       \/ ~CanInit(entry) /\ up' = FALSE /\ UNCHANGED work
    /\ UNCHANGED <<consensus, versions, pruned, executed, oe, export, crashes, chains>>

(* After the first block a proposal is executed in the background at once, *)
(* and an earlier one that still runs is cancelled and waited for.         *)
ProcessProposal ==
    /\ up /\ versions # <<>> /\ ~executed
    /\ Len(decided) = Len(versions)
    /\ \E b \in Blocks : oe' = [height |-> Height + 1, block |-> b, done |-> FALSE]
    /\ work' = None
    /\ UNCHANGED <<consensus, versions, pruned, up, executed, export, crashes, chains>>

OptimisticExecution ==
    /\ up /\ oe # None /\ ~oe.done
    /\ oe' = [oe EXCEPT !.done = TRUE]
    /\ work' = Execute(Committed, oe.block)
    /\ UNCHANGED <<consensus, versions, pruned, up, executed, export, crashes, chains>>

(* Consensus may decide a proposal, or a block this node has never seen,   *)
(* and go on without this node.                                            *)
Decide ==
    /\ entry # Malformed /\ Len(decided) < MaxBlocks
    /\ \E b \in Blocks : decided' = Append(decided, b)
    /\ UNCHANGED <<entry, base, versions, pruned, up, work, executed, oe, export, crashes, chains>>

IsDecided(e) ==
    e # None /\ e.height = Height + 1 /\ e.block = NextDecided

(* FinalizeBlock takes the optimistic execution of the block that was      *)
(* decided when it is done; any other is cancelled, and its store dropped. *)
FinalizeBlock ==
    /\ up /\ Len(decided) > Len(versions) /\ ~executed
    /\ versions = <<>> => work # None
    /\ executed' = TRUE
    /\ \/ IsDecided(oe) /\ oe.done /\ UNCHANGED <<work, oe>>
       \/ /\ ~IsDecided(oe)
          /\ work' = Execute(IF versions = <<>> THEN work ELSE Committed, NextDecided)
          /\ oe' = None
    /\ UNCHANGED <<consensus, versions, pruned, up, export, crashes, chains>>

Commit ==
    /\ up /\ executed
    /\ versions' = Append(versions, work)
    /\ work' = None /\ executed' = FALSE
    /\ UNCHANGED <<consensus, pruned, up, oe, export, crashes, chains>>

(* Old versions are pruned after a commit, or by the prune command; the    *)
(* last one never is.                                                      *)
Prune ==
    /\ \E n \in pruned + 1 .. Len(versions) - 1 : pruned' = n
    /\ UNCHANGED <<consensus, versions, up, work, executed, oe, export, crashes, chains>>

(* Whatever is not committed is lost.                                      *)
Crash ==
    /\ up /\ crashes < MaxCrashes
    /\ crashes' = crashes + 1
    /\ up' = FALSE /\ work' = None /\ executed' = FALSE /\ oe' = None
    /\ UNCHANGED <<consensus, versions, pruned, export, chains>>

----------------------------------------------------------------------------
(* The export command, of a node that does not run and has a store: at the *)
(* last height or a positive one, for height zero or not, of all modules   *)
(* or without this one.  The command refuses options without a home or     *)
(* that are no viper.Viper ("options").  The preparation for height zero   *)
(* may die, as ZeroHeightExport shows; another module, an encoder or the   *)
(* list of the validators may fail ("others").                             *)
Latest == -1
Obstacles == {"none", "options", "others"}
Requests == [height : {Latest} \cup 1 .. Height + 1, zero : BOOLEAN, all : BOOLEAN]

Wanted(request) == IF request.height = Latest THEN Height ELSE request.height

\* Mutant: the height of the context, one too many, is loaded.
MutLoads(request) == Wanted(request) + 1 \in base + pruned + 1 .. Height

(* Only versions that were committed and not pruned can be loaded.         *)
Loads(request) == Wanted(request) \in base + pruned + 1 .. Height

(* The module's entry in the exported genesis.                             *)
Exported(request, obstacle) ==
    IF obstacle # "none" \/ ~Loads(request) THEN Failed
    ELSE IF request.all THEN ExportGenesis(versions[Wanted(request) - base])
    ELSE LeftOut

(* A genesis for height zero does not go on at the height after.           *)
AppExport(request, obstacle) ==
    /\ ~up /\ versions # <<>>
    /\ LET e == Exported(request, obstacle)
       IN  export' = [entry |-> e,
                      height |-> IF request.zero \/ e = Failed THEN 0
                                 ELSE Wanted(request) + 1]
    /\ UNCHANGED <<consensus, versions, pruned, up, work, executed, oe, crashes, chains>>

(* A new chain, and this node in it, starts from the exported genesis.     *)
NewChain ==
    /\ ~up /\ chains < MaxChains /\ chains' = chains + 1
    /\ export # None /\ export.entry # Failed
    /\ entry' = export.entry
    /\ base' = IF export.height = 0 THEN 0 ELSE export.height - 1
    /\ decided' = <<>> /\ versions' = <<>> /\ pruned' = 0
    /\ export' = None /\ crashes' = 0
    /\ UNCHANGED <<up, work, executed, oe>>

----------------------------------------------------------------------------
Node == Start \/ InitChain \/ OptimisticExecution \/ FinalizeBlock \/ Commit

Next ==
    \/ Node
    \/ ProcessProposal \/ Decide
    \/ Prune \/ Crash \/ NewChain
    \/ \E request \in Requests, obstacle \in Obstacles : AppExport(request, obstacle)

Spec == Init /\ [][Next]_vars /\ WF_vars(Node)

----------------------------------------------------------------------------
Executions == [height : Nat, block : Blocks, done : BOOLEAN]
Exports == [entry : ParamValues \cup {LeftOut, Failed}, height : Nat]

(* Types: only committed and pending stores may lack the parameters, no    *)
(* exported genesis does without saying so (keeper/genesis.go:19-22); and  *)
(* a node executes and commits no further than consensus.                  *)
TypeOK ==
    /\ entry \in Entries
    /\ base \in Nat
    /\ decided \in Seq(Blocks) /\ Len(decided) <= MaxBlocks
    /\ versions \in Seq(Stored) /\ Len(versions) <= Len(decided)
    /\ pruned \in Nat /\ (pruned = 0 \/ pruned < Len(versions))
    /\ up \in BOOLEAN /\ executed \in BOOLEAN
    /\ work \in Stored \cup {None}
    /\ oe \in Executions \cup {None}
    /\ export \in Exports \cup {None}
    /\ crashes \in 0 .. MaxCrashes /\ chains \in 0 .. MaxChains

(* What the node committed is the ledger of its chain.                     *)
Ledger == INSTANCE ParamsLedger WITH
    Entries <- Entries,
    Governance <- GovAddress,
    history <- <<IF entry = LeftOut THEN Absent ELSE entry>> \o versions,
    blocks <- SubSeq(decided, 1, Len(versions))

(* Every decided block is executed once, in order, from what the block     *)
(* before it committed, whatever was executed optimistically or lost in a  *)
(* crash (app.go:188, 212); only governance changes the parameters         *)
(* (msg_update_params.go:17); and a new chain goes on from the committed   *)
(* parameters of the height that was exported (commands.go:153).           *)
ImplementsLedger == Ledger!LedgerSpec

(* An export that nothing else stops fails just for a height that was not  *)
(* committed yet, or whose version was pruned, and for all modules of a    *)
(* chain whose genesis left this one out as long as governance has set no  *)
(* parameters since (keeper/genesis.go:19); queries answer there all the   *)
(* same (query_params.go:22).                                              *)
NeverSet(height) ==
    /\ entry = LeftOut
    /\ \A k \in 1 .. height - base : Ledger!Decisive(decided[k]) = {}

ExportsExplained ==
    [][export' # export =>
        \A request \in Requests, obstacle \in Obstacles :
            AppExport(request, obstacle) =>
                (export'.entry = Failed <=>
                    \/ obstacle # "none"
                    \/ Wanted(request) \notin base + pruned + 1 .. base + Len(versions)
                    \/ request.all /\ NeverSet(Wanted(request)))]_vars

(* A node that runs behind its consensus catches up with it, again and     *)
(* again: it does not wait for ever for an execution (app.go:188), and no  *)
(* genesis that the chain started from keeps it from starting.             *)
CatchesUp == []<>(Len(versions) = Len(decided))
=============================================================================
