----------------------- MODULE MultiNodeTestnetProofs -----------------------
(***************************************************************************)
(* Theorems about MultiNodeTestnet, for any number of runs, any flags and  *)
(* any number of nodes (of the ports: up to the number at which they       *)
(* collide).                                                               *)
(***************************************************************************)
EXTENDS MultiNodeTestnet, TLAPS

USE MaxNodesAssumption, MaxRunsAssumption, CountsAssumption, StakeListsAssumption,
    MalformedAssumption, PortListsAssumption, DefaultGasAssumption, RemaindersAssumption,
    AmountsAssumption

----------------------------------------------------------------------------
(* The inductive invariant: what the files are, loop by loop.              *)
FirstLoop == {"mkdir", "key", "gentx", "apptoml"}
LastLoop == {"collect", "config", "canonical"}

(* What one run leaves for node k.                                         *)
Tx(k) == [run |-> run, stake |-> Stake(k)]
AllTxs == {<<k, run>> : k \in Ours}

Keyed(k) == keyring[k] = run /\ seed[k] = run
Served(k) == appToml[k].grpc = GrpcPort(k)
Signed(k) == gentxs[k][k] = Tx(k)
Configured(k) ==
    /\ configToml[k].p2p = P2PPort(k) /\ configToml[k].rpc = RpcPort(k)
    /\ configToml[k].prom = PrometheusPort(k) /\ configToml[k].peers = PersistentPeers

(* Its gentxs were accepted.                                               *)
Clean(k) == k \notin orphans /\ Present(k) \subseteq Ours /\ \A m \in Ours : Stake(m) =< Balance
Whole(k) == genesis[k] = [run |-> run, txs |-> AllTxs, canonical |-> TRUE]
            /\ Configured(k) /\ Clean(k)

(* No file is of a later run; in a run the loops stay below n, and no node *)
(* beyond n has a gentx of this run.                                       *)
NotLater ==
    /\ \A d \in Nodes : genesis[d].run =< run
    /\ \A d, k \in Nodes : gentxs[d][k].run =< run

InRun ==
    pc # "idle" =>
        /\ outcome = "none" /\ run > 0 /\ args.n \in 0 .. MaxNodes
        /\ faulted => pc \in {"copy", "collect"} /\ args.n > 0 /\ (pc = "collect" => i = 0)
        /\ pc \notin {"mkdir", "genfiles", "copy", "collect"} => i < args.n
        /\ \A d, k \in Nodes : gentxs[d][k].run = run => k \in Ours

InFirstLoop ==
    pc \in FirstLoop =>
        /\ \A d \in Nodes : genesis[d].run < run
        /\ \A k \in 0 .. i - 1 : Keyed(k) /\ Signed(k) /\ Served(k)
        /\ pc \in {"gentx", "apptoml"} => Keyed(i)
        /\ pc = "apptoml" => Signed(i)

AfterFirstLoop ==
    pc \in {"genfiles", "copy"} \cup LastLoop =>
        \A k \in Ours : Keyed(k) /\ Signed(k) /\ Served(k)

InGenFiles ==
    pc = "genfiles" =>
        /\ \A d \in Nodes : genesis[d].run = run => genesis[d] = InitialGenesis(d)
        /\ \A d \in 0 .. i - 1 : genesis[d].run = run

InCopy ==
    pc = "copy" /\ ~faulted =>
        /\ \A d \in Ours : genesis[d] = InitialGenesis(d)
        /\ \A d \in 0 .. i - 1, k \in Ours : gentxs[d][k] = Tx(k)
        /\ HasNode(i) => \A k \in 0 .. j - 1 : gentxs[i][k] = Tx(k)

InLastLoop ==
    pc \in LastLoop /\ ~faulted =>
        /\ \A d, k \in Ours : gentxs[d][k] = Tx(k)
        /\ \A d \in 0 .. i - 1 : Whole(d)
        /\ \A d \in i + 1 .. args.n - 1 : genesis[d] = InitialGenesis(d)
        /\ pc = "collect" /\ HasNode(i) => genesis[i] = InitialGenesis(i)
        /\ pc \in {"config", "canonical"} =>
            genesis[i] = [run |-> run, txs |-> AllTxs, canonical |-> FALSE] /\ Clean(i)
        /\ pc = "canonical" => Configured(i)

(* What a success leaves, and what any run leaves.                         *)
Succeeded == outcome = "ok" => \A d \in Ours : Whole(d) /\ Keyed(d) /\ Served(d)

CanonicalIsWhole ==
    \A d \in Ours : genesis[d].canonical /\ genesis[d].run = run => genesis[d].txs = AllTxs

ErrorExplained == outcome = "error" /\ ~faulted => Overstaked \/ Leftover

IInv ==
    /\ TypeOK /\ NotLater /\ InRun
    /\ InFirstLoop /\ AfterFirstLoop /\ InGenFiles /\ InCopy /\ InLastLoop
    /\ Succeeded /\ OneChain /\ CanonicalIsWhole /\ ErrorExplained

----------------------------------------------------------------------------
(* Types.                                                                  *)
FilesOK ==
    /\ keyring \in [Nodes -> Runs] /\ seed \in [Nodes -> Runs] /\ orphans \in SUBSET Nodes
    /\ gentxs \in [Nodes -> [Nodes -> [run : Runs, stake : Int]]]
    /\ appToml \in [Nodes -> [run : Runs, grpc : Int, minGas : GasPrices]]
    /\ genesis \in [Nodes -> [run : Runs, txs : SUBSET (Nodes \X Runs), canonical : BOOLEAN]]
    /\ configToml \in [Nodes -> Configs]

ControlOK ==
    /\ pc \in Phases /\ run \in 0 .. MaxRuns
    /\ pc # "idle" => i \in 0 .. args.n /\ j \in 0 .. args.n
    /\ args \in [n : Counts \cup {0}, stakes : StakeLists \cup {<<>>},
                 ports : PortLists \cup {<<>>}, minGas : GasPrices]
    /\ outcome \in {"none", "ok", "error", "died"} /\ faulted \in BOOLEAN

LEMMA TypeParts == TypeOK <=> ControlOK /\ FilesOK /\ nodeConfig \in Configs
BY DEF TypeOK, ControlOK, FilesOK

LEMMA RunIsRun ==
    ASSUME IInv
    PROVE  run \in Runs /\ Torn \in Runs /\ 0 \in Runs /\ run \in Nat
BY DEF IInv, TypeOK, Runs, Torn

\* The nodes of a run are nodes.
LEMMA OursAreNodes ==
    ASSUME IInv, pc # "idle"
    PROVE  /\ Ours \subseteq Nodes /\ args.n \in Nat /\ i \in Nat /\ j \in Nat
           /\ i =< args.n /\ j =< args.n
           /\ i < args.n => i \in Ours /\ i \in Nodes
           /\ j < args.n => j \in Ours /\ j \in Nodes
<1>1. args.n \in 0 .. MaxNodes
    BY DEF IInv, InRun
<1>2. i \in 0 .. args.n /\ j \in 0 .. args.n
    BY DEF IInv, TypeOK
<1> QED  BY <1>1, <1>2 DEF Ours, Nodes

LEMMA EntryType ==
    ASSUME NEW S, NEW s \in Seq(S), NEW m \in DOMAIN s
    PROVE  s[m] \in S
OBVIOUS

LEMMA StakeType ==
    ASSUME IInv, NEW k
    PROVE  Stake(k) \in Int
<1> DEFINE own == {m \in Parsing(args.stakes) : Top(args.stakes, m) = k}
<1>1. CASE own = {}
    BY <1>1 DEF Stake
<1>2. CASE own # {}
    <2>1. PICK m \in own : Stake(k) = args.stakes[m]
        BY <1>2 DEF Stake
    <2>2. m \in DOMAIN args.stakes /\ args.stakes[m] # Malformed
        BY <2>1 DEF Parsing
    <2>3. args.stakes \in StakeLists \cup {<<>>}
        BY DEF IInv, TypeOK
    <2>4. args.stakes \in Seq(Int \cup {Malformed})
        BY <2>2, <2>3
    <2>5. args.stakes[m] \in Int \cup {Malformed}
        BY <2>2, <2>4, EntryType
    <2> QED  BY <2>1, <2>2, <2>5
<1> QED  BY <1>1, <1>2

LEMMA RpcPortType ==
    ASSUME IInv, NEW k \in Nat
    PROVE  RpcPort(k) \in Int
<1>1. args.ports # <<>> => args.ports \in Seq(Nat \ {0})
    BY DEF IInv, TypeOK
<1> QED  BY <1>1 DEF RpcPort, NoPort

LEMMA MemoType ==
    ASSUME NEW S \in SUBSET Nodes
    PROVE  {Memo(k) : k \in S} \in SUBSET Addresses
<1>1. \A k \in Nodes : Memo(k) \in Addresses
    BY DEF Memo, Addresses, Nodes
<1> QED  BY <1>1

\* A file that was not or not wholly written.
LEMMA SpoiltFields ==
    ASSUME NEW file, NEW spoilt \in Spoilt(file)
    PROVE  spoilt = file \/ spoilt = [file EXCEPT !.run = Torn]
BY DEF Spoilt

----------------------------------------------------------------------------
(* The initial state.                                                      *)
LEMMA InitHolds ==
    ASSUME Init
    PROVE  IInv
<1> USE DEF Init, NoTx, NoApp, NoGenesis
<1>1. 0 \in Runs /\ -1 \in Nodes \cup {-1}
    BY DEF Runs, Torn
<1>2. FilesOK
    BY <1>1 DEF FilesOK, Configs, DefaultConfig
<1>3. pc \in Phases /\ run \in 0 .. MaxRuns /\ pc = "idle"
    BY DEF Phases
<1>4. args \in [n : Counts \cup {0}, stakes : StakeLists \cup {<<>>},
                 ports : PortLists \cup {<<>>}, minGas : GasPrices]
    OBVIOUS
<1>5. faulted \in BOOLEAN
    OBVIOUS
<1>6. nodeConfig \in Configs
    BY <1>1 DEF Configs, DefaultConfig
<1>7. TypeOK
    BY <1>2, <1>3, <1>4, <1>5, <1>6, TypeParts DEF ControlOK
<1>8. Ours = {}
    BY DEF Ours
<1>9. NotLater /\ InRun /\ InFirstLoop /\ AfterFirstLoop /\ InGenFiles /\ InCopy /\ InLastLoop
    BY DEF NotLater, InRun, InFirstLoop, AfterFirstLoop, InGenFiles, InCopy, InLastLoop,
           FirstLoop, LastLoop
<1>10. Succeeded /\ OneChain /\ CanonicalIsWhole /\ ErrorExplained
    BY <1>8 DEF Succeeded, OneChain, CanonicalIsWhole, ErrorExplained
<1> QED  BY <1>7, <1>9, <1>10 DEF IInv

----------------------------------------------------------------------------
(* What the steps have in common.                                          *)
TxFile == [run : Runs, stake : Int]
AppFile == [run : Runs, grpc : Int, minGas : GasPrices]
GenesisFile == [run : Runs, txs : SUBSET (Nodes \X Runs), canonical : BOOLEAN]

LEMMA SpoiltTypes ==
    ASSUME Torn \in Runs
    PROVE  /\ \A file \in TxFile : Spoilt(file) \subseteq TxFile
           /\ \A file \in AppFile : Spoilt(file) \subseteq AppFile
           /\ \A file \in GenesisFile : Spoilt(file) \subseteq GenesisFile
           /\ \A file \in Configs : Spoilt(file) \subseteq Configs
<1>1. \A file \in TxFile : Spoilt(file) \subseteq TxFile
    BY DEF Spoilt, TxFile
<1>2. \A file \in AppFile : Spoilt(file) \subseteq AppFile
    BY DEF Spoilt, AppFile
<1>3. \A file \in GenesisFile : Spoilt(file) \subseteq GenesisFile
    BY DEF Spoilt, GenesisFile
<1>4. \A file \in Configs : Spoilt(file) \subseteq Configs
    BY DEF Spoilt, Configs
<1> QED  BY <1>1, <1>2, <1>3, <1>4

\* What depends on the run and its flags only.
LEMMA SameRun ==
    ASSUME UNCHANGED <<args, run>>
    PROVE  /\ Ours' = Ours /\ AllTxs' = AllTxs /\ PersistentPeers' = PersistentPeers
           /\ \A k : Stake(k)' = Stake(k) /\ RpcPort(k)' = RpcPort(k) /\ Tx(k)' = Tx(k)
<1>1. Ours' = Ours /\ AllTxs' = AllTxs /\ PersistentPeers' = PersistentPeers
    BY DEF Ours, AllTxs, PersistentPeers
<1>2. \A k : Stake(k)' = Stake(k) /\ RpcPort(k)' = RpcPort(k)
    BY DEF Stake, Top, Parsing, RpcPort
<1> QED  BY <1>1, <1>2 DEF Tx

\* The control of a run that ends, and of one that goes on.
LEMMA EndControl ==
    ASSUME IInv, NEW how \in {"ok", "error", "died"}, NEW fault \in BOOLEAN, End(how, fault)
    PROVE  ControlOK'
<1>1. faulted' \in BOOLEAN
    BY DEF End
<1> QED  BY <1>1 DEF IInv, TypeOK, ControlOK, End, Phases

LEMMA MoveControl ==
    ASSUME IInv, pc # "idle", pc' \in Phases, i' \in 0 .. args.n, j' \in 0 .. args.n,
           UNCHANGED <<args, run, outcome, faulted>>
    PROVE  ControlOK'
<1>1. faulted' \in BOOLEAN
    BY DEF IInv, TypeOK
<1> QED  BY <1>1 DEF IInv, TypeOK, ControlOK

\* A run that ends other than by a success.
LEMMA EndHolds ==
    ASSUME IInv, NEW how \in {"error", "died"}, End(how, TRUE),
           FilesOK', nodeConfig' \in Configs, NotLater', OneChain', CanonicalIsWhole'
    PROVE  IInv'
<1>1. TypeOK'
    BY EndControl, TypeParts DEF TypeOK, ControlOK, FilesOK
<1>2. pc' = "idle" /\ outcome' # "ok" /\ faulted' = TRUE
    BY DEF End
<1>3. InRun' /\ InFirstLoop' /\ AfterFirstLoop' /\ InGenFiles' /\ InCopy' /\ InLastLoop'
    BY <1>2 DEF InRun, InFirstLoop, AfterFirstLoop, InGenFiles, InCopy, InLastLoop,
                FirstLoop, LastLoop
<1>4. Succeeded' /\ ErrorExplained'
    BY <1>2 DEF Succeeded, ErrorExplained
<1> QED  BY <1>1, <1>3, <1>4 DEF IInv

\* What a run may do to the genesis files when it fails.
LEMMA GenesisSpoilt ==
    ASSUME IInv, pc # "idle", UNCHANGED <<args, run>>,
           \A d \in Nodes : \/ genesis'[d] \in Spoilt(genesis[d])
                            \/ pc \in FirstLoop /\ genesis'[d] = NoGenesis
    PROVE  /\ genesis \in [Nodes -> GenesisFile]
           /\ \A d \in Nodes : genesis'[d] \in GenesisFile
           /\ \A d \in Nodes : genesis'[d].run =< run
           /\ OneChain' /\ CanonicalIsWhole'
<1>1. genesis \in [Nodes -> GenesisFile] /\ run \in Nat /\ run > 0 /\ Torn \in Runs
    BY RunIsRun DEF IInv, TypeOK, GenesisFile, InRun
<1>2. NoGenesis \in GenesisFile /\ NoGenesis.run = 0
    BY DEF NoGenesis, GenesisFile, Runs, Torn
<1>3. \A d \in Nodes : genesis[d].run =< run
    BY DEF IInv, NotLater
<1>4. \A d \in Nodes : genesis'[d] \in GenesisFile
    BY <1>1, <1>2, SpoiltTypes
<1>5. \A d \in Nodes : \A spoilt \in Spoilt(genesis[d]) :
            spoilt = genesis[d] \/ spoilt.run = Torn
    BY <1>1 DEF Spoilt, GenesisFile
<1>6. \A d \in Nodes : genesis'[d].run =< run
    BY <1>1, <1>2, <1>3, <1>5 DEF Torn
<1>7. \A d \in Nodes : genesis'[d].run = run => genesis'[d] = genesis[d]
    BY <1>1, <1>2, <1>5 DEF Torn
<1>8. Ours \subseteq Nodes /\ Ours' = Ours /\ AllTxs' = AllTxs
    BY OursAreNodes, SameRun
<1>9. ASSUME NEW d \in Nodes, NEW e \in Nodes, genesis'[d].run = run,
             genesis[e].run \in {run, Torn}
      PROVE  genesis'[e].run \in {run, Torn}
    <2>1. genesis[d].run = run
        BY <1>7, <1>9
    <2>2. pc \notin FirstLoop
        BY <2>1, <1>1 DEF IInv, InFirstLoop
    <2> QED  BY <2>2, <1>5, <1>9
<1>10. OneChain'
    BY <1>7, <1>8, <1>9 DEF OneChain, IInv
<1>11. CanonicalIsWhole'
    BY <1>7, <1>8 DEF CanonicalIsWhole, IInv
<1> QED  BY <1>1, <1>4, <1>6, <1>10, <1>11

\* A failure that leaves every file as it was.
LEMMA StopHolds ==
    ASSUME IInv, pc # "idle", NEW how \in {"error", "died"}, End(how, TRUE),
           nodeConfig' \in Configs, UNCHANGED tree
    PROVE  IInv'
<1>1. FilesOK'
    BY DEF IInv, TypeOK, FilesOK, tree
<1>2. UNCHANGED <<args, run, genesis, gentxs, orphans>>
    BY DEF End, tree
<1>3. \A d \in Nodes : genesis'[d] \in Spoilt(genesis[d])
    BY <1>2 DEF Spoilt
<1>4. OneChain' /\ CanonicalIsWhole'
    BY <1>2, <1>3, GenesisSpoilt
<1>5. NotLater'
    BY <1>2 DEF NotLater, IInv
<1> QED  BY <1>1, <1>4, <1>5, EndHolds
\* A run that goes on.
LEMMA MoveHolds ==
    ASSUME IInv, pc # "idle", pc \in {"copy", "collect"} => ~faulted, pc' \in Phases \ {"idle"}, i' \in 0 .. args.n, j' \in 0 .. args.n,
           pc' \notin {"mkdir", "genfiles", "copy", "collect"} => i' < args.n,
           UNCHANGED <<args, run, outcome, faulted>>,
           FilesOK', nodeConfig' \in Configs, NotLater', OneChain', CanonicalIsWhole',
           \A d, k \in Nodes : gentxs'[d][k].run = run => k \in Ours,
           InFirstLoop', AfterFirstLoop', InGenFiles', InCopy', InLastLoop'
    PROVE  IInv'
<1>1. TypeOK'
    BY MoveControl, TypeParts DEF TypeOK, ControlOK, FilesOK
<1>2. outcome = "none" /\ ~faulted /\ run > 0 /\ args.n \in 0 .. MaxNodes
    BY DEF IInv, InRun
<1>3. InRun'
    BY <1>2, SameRun DEF InRun
<1>4. Succeeded' /\ ErrorExplained'
    BY <1>2 DEF Succeeded, ErrorExplained
<1> QED  BY <1>1, <1>3, <1>4 DEF IInv

\* A run goes on that lost its working directory in the copy loop.
LEMMA LostHolds ==
    ASSUME IInv, pc = "copy", pc' \in {"copy", "collect"}, i' \in 0 .. args.n, j' \in 0 .. args.n,
           faulted' = TRUE, args.n > 0, pc' = "collect" => i' = 0,
           UNCHANGED <<args, run, outcome, nodeConfig, tree>>
    PROVE  IInv'
<1>1. UNCHANGED <<keyring, seed, gentxs, appToml, genesis, configToml, orphans>>
    BY DEF tree
<1>2. FilesOK' /\ NotLater' /\ nodeConfig' \in Configs
    BY <1>1 DEF IInv, TypeOK, FilesOK, NotLater
<1>3. ControlOK'
    <2>1. (faulted \in BOOLEAN)'
        OBVIOUS
    <2> QED  BY <2>1 DEF IInv, TypeOK, ControlOK, Phases
<1>4. TypeOK'
    BY <1>2, <1>3, TypeParts DEF TypeOK, ControlOK, FilesOK
<1>5. OneChain' /\ CanonicalIsWhole'
    BY <1>1, SameRun DEF IInv, OneChain, CanonicalIsWhole
<1>6. outcome = "none" /\ run > 0 /\ args.n \in 0 .. MaxNodes
      /\ \A d, k \in Nodes : gentxs[d][k].run = run => k \in Ours
    BY DEF IInv, InRun
<1>7. InRun'
    BY <1>1, <1>6, SameRun DEF InRun
<1>8. AfterFirstLoop'
    BY <1>1, SameRun DEF IInv, AfterFirstLoop, Keyed, Signed, Served
<1>9. InFirstLoop' /\ InGenFiles' /\ InCopy' /\ InLastLoop'
    BY DEF InFirstLoop, InGenFiles, InCopy, InLastLoop, FirstLoop
<1>10. Succeeded' /\ ErrorExplained'
    BY <1>6 DEF Succeeded, ErrorExplained
<1> QED  BY <1>2, <1>4, <1>5, <1>7, <1>8, <1>9, <1>10 DEF IInv

\* The genesis files of a step that does not write them.
LEMMA GenesisKept ==
    ASSUME IInv, pc # "idle", UNCHANGED <<args, run, genesis>>
    PROVE  OneChain' /\ CanonicalIsWhole'
<1>1. \A d \in Nodes : genesis'[d] \in Spoilt(genesis[d])
    BY DEF Spoilt
<1> QED  BY <1>1, GenesisSpoilt

\* A gentx file that is written, or not or not wholly written.
LEMMA GentxWritten ==
    ASSUME IInv, pc # "idle", UNCHANGED run, NEW d \in Nodes, NEW k \in Nodes,
           NEW file \in TxFile, file.run =< run, file.run = run => k \in Ours,
           gentxs' = [gentxs EXCEPT ![d][k] = file]
    PROVE  /\ gentxs' \in [Nodes -> [Nodes -> TxFile]]
           /\ \A e, m \in Nodes :
                 gentxs'[e][m] = IF e = d /\ m = k THEN file ELSE gentxs[e][m]
           /\ \A e, m \in Nodes : gentxs'[e][m].run =< run
           /\ \A e, m \in Nodes : gentxs'[e][m].run = run => m \in Ours
<1>1. gentxs \in [Nodes -> [Nodes -> TxFile]]
    BY DEF IInv, TypeOK, TxFile
<1>2. \A e, m \in Nodes : gentxs'[e][m] = IF e = d /\ m = k THEN file ELSE gentxs[e][m]
    BY <1>1
<1>3. gentxs' \in [Nodes -> [Nodes -> TxFile]]
    BY <1>1
<1> QED  BY <1>2, <1>3 DEF IInv, NotLater, InRun

LEMMA GentxSpoilt ==
    ASSUME IInv, pc # "idle", NEW d \in Nodes, NEW k \in Nodes, NEW file \in Spoilt(gentxs[d][k])
    PROVE  file \in TxFile /\ file.run =< run /\ (file.run = run => k \in Ours)
<1>1. gentxs[d][k] \in TxFile /\ run \in Nat /\ run > 0 /\ Torn \in Runs
    BY RunIsRun DEF IInv, TypeOK, TxFile, InRun
<1>2. file \in TxFile
    BY <1>1, SpoiltTypes
<1>3. file = gentxs[d][k] \/ file.run = Torn
    BY <1>1 DEF Spoilt, TxFile
<1> QED  BY <1>1, <1>2, <1>3 DEF IInv, NotLater, InRun, Torn

----------------------------------------------------------------------------
(* The first loop.                                                         *)
LEMMA RemoveAllHolds ==
    ASSUME IInv, pc \in FirstLoop, NEW keys \in [Nodes -> Runs], Fault, RemoveAll(keys),
           nodeConfig' \in Configs
    PROVE  IInv'
<1>1. PICK left \in Remainders :
        /\ keyring' = [d \in Nodes |-> IF <<d, "keyring", d>> \in left THEN keys[d] ELSE 0]
        /\ seed' = [d \in Nodes |-> IF <<d, "seed", d>> \in left THEN seed[d] ELSE 0]
        /\ gentxs' = [d \in Nodes |-> [k \in Nodes |->
                         IF {<<d, "gentx", k>>, <<k, "id", k>>} \subseteq left
                         THEN gentxs[d][k] ELSE NoTx]]
        /\ orphans' = {d \in Nodes : Orphaned(left, d)}
        /\ appToml' = [d \in Nodes |-> IF <<d, "app", d>> \in left THEN appToml[d] ELSE NoApp]
        /\ genesis' = [d \in Nodes |-> IF <<d, "genesis", d>> \in left THEN genesis[d] ELSE NoGenesis]
        /\ configToml' = [d \in Nodes |-> IF <<d, "config", d>> \in left THEN configToml[d]
                                           ELSE DefaultConfig]
    BY DEF RemoveAll, Remaining
<1>2. pc # "idle" /\ UNCHANGED <<args, run>> /\ End("error", TRUE)
    BY DEF FirstLoop, Fault, End
<1>3. FilesOK /\ 0 \in Runs /\ run \in Nat
    BY RunIsRun, TypeParts DEF IInv
<1>4. \A d \in Nodes : \/ genesis'[d] \in Spoilt(genesis[d])
                       \/ pc \in FirstLoop /\ genesis'[d] = NoGenesis
    BY <1>1 DEF Spoilt
<1>5. /\ genesis \in [Nodes -> GenesisFile]
      /\ \A d \in Nodes : genesis'[d] \in GenesisFile
      /\ \A d \in Nodes : genesis'[d].run =< run
      /\ OneChain' /\ CanonicalIsWhole'
    BY <1>2, <1>4, GenesisSpoilt
<1>6. genesis' \in [Nodes -> GenesisFile]
    BY <1>1, <1>5
<1>7. keyring' \in [Nodes -> Runs] /\ seed' \in [Nodes -> Runs] /\ orphans' \in SUBSET Nodes
    BY <1>1, <1>3 DEF FilesOK
<1>8. gentxs' \in [Nodes -> [Nodes -> TxFile]]
    BY <1>1, <1>3 DEF FilesOK, TxFile, NoTx
<1>9. appToml' \in [Nodes -> AppFile]
    BY <1>1, <1>3 DEF FilesOK, AppFile, NoApp
<1>10. configToml' \in [Nodes -> Configs]
    <2>1. DefaultConfig \in Configs
        BY <1>3 DEF DefaultConfig, Configs
    <2> QED  BY <1>1, <1>3, <2>1 DEF FilesOK
<1>11. FilesOK'
    BY <1>6, <1>7, <1>8, <1>9, <1>10 DEF FilesOK, TxFile, AppFile, GenesisFile
<1>12. NotLater'
    BY <1>1, <1>2, <1>3, <1>5 DEF NotLater, IInv, NoTx
<1> QED  BY <1>2, <1>5, <1>11, <1>12, EndHolds

LEMMA MakeNodeDirHolds ==
    ASSUME IInv, MakeNodeDir
    PROVE  IInv'
<1>1. pc = "mkdir" /\ pc # "idle" /\ pc \in FirstLoop /\ i < args.n
    BY DEF MakeNodeDir, HasNode, FirstLoop
<1>2. i \in Nodes /\ i \in Nat /\ i \in 0 .. args.n /\ j \in 0 .. args.n
    BY <1>1, OursAreNodes DEF IInv, TypeOK
<1>3. nodeConfig' \in Configs
    <2>1. RpcPort(i) \in Int /\ nodeConfig \in Configs
        BY <1>2, RpcPortType DEF IInv, TypeOK
    <2> QED  BY <1>2, <2>1 DEF MakeNodeDir, Configs
<1>4. CASE Goto("key") /\ UNCHANGED tree
    <2>1. /\ pc' = "key" /\ UNCHANGED <<i, j, args, run, outcome, faulted>>
          /\ UNCHANGED <<keyring, seed, gentxs, appToml, genesis, orphans>>
        BY <1>4 DEF Goto, tree
    <2>2. OneChain' /\ CanonicalIsWhole'
        BY <1>1, <2>1, GenesisKept
    <2>3. FilesOK' /\ NotLater'
        BY <1>4 DEF IInv, TypeOK, FilesOK, NotLater, tree, Goto
    <2>4. InFirstLoop'
        BY <1>1, <2>1, SameRun DEF IInv, InFirstLoop, Keyed, Signed, Served
    <2>5. AfterFirstLoop' /\ InGenFiles' /\ InCopy' /\ InLastLoop'
        BY <2>1 DEF AfterFirstLoop, InGenFiles, InCopy, InLastLoop, LastLoop
    <2>6. \A d, k \in Nodes : gentxs'[d][k].run = run => k \in Ours
        BY <1>1, <2>1 DEF IInv, InRun
    <2> QED  BY <1>1, <1>2, <1>3, <2>1, <2>2, <2>3, <2>4, <2>5, <2>6, MoveHolds DEF Phases
<1>5. CASE Fault /\ RemoveAll(keyring)
    BY <1>1, <1>3, <1>5, RemoveAllHolds DEF IInv, TypeOK
<1> QED  BY <1>4, <1>5 DEF MakeNodeDir
LEMMA SaveKeyHolds ==
    ASSUME IInv, SaveKey
    PROVE  IInv'
<1>1. pc = "key" /\ pc # "idle" /\ pc \in FirstLoop /\ UNCHANGED nodeConfig
    BY DEF SaveKey, FirstLoop
<1>2. i < args.n /\ i \in Nodes /\ i \in Nat /\ i \in 0 .. args.n /\ j \in 0 .. args.n
    BY <1>1, OursAreNodes DEF IInv, InRun, TypeOK
<1>3. nodeConfig' \in Configs /\ run \in Runs /\ 0 \in Runs /\ Torn \in Runs
    BY <1>1, RunIsRun DEF IInv, TypeOK
<1>4. keyring \in [Nodes -> Runs] /\ seed \in [Nodes -> Runs] /\ FilesOK
    BY DEF IInv, TypeOK, FilesOK
<1>5. CASE /\ Goto("gentx")
           /\ keyring' = [keyring EXCEPT ![i] = run]
           /\ seed' = SeedWritten
           /\ UNCHANGED <<gentxs, appToml, genesis, configToml, orphans>>
    <2>1. /\ pc' = "gentx" /\ UNCHANGED <<i, j, args, run, outcome, faulted>>
          /\ UNCHANGED <<gentxs, appToml, genesis, configToml, orphans>>
        BY <1>5 DEF Goto
    <2>2. OneChain' /\ CanonicalIsWhole'
        BY <1>1, <2>1, GenesisKept
    <2>3. FilesOK' /\ NotLater'
        BY <1>3, <1>4, <1>5, <2>1 DEF IInv, FilesOK, NotLater, SeedWritten
    <2>4. Keyed(i)' /\ \A k \in Nodes : k # i => Keyed(k)' = Keyed(k)
        BY <1>2, <1>4, <1>5, <2>1 DEF Keyed, SeedWritten
    <2>5. \A k \in 0 .. i - 1 : Keyed(k)' /\ Signed(k)' /\ Served(k)'
        <3>1. \A k \in 0 .. i - 1 : Keyed(k) /\ Signed(k) /\ Served(k) /\ k \in Nodes /\ k # i
            BY <1>1, <1>2 DEF IInv, InFirstLoop, Nodes
        <3> QED  BY <2>1, <2>4, <3>1, SameRun DEF Signed, Served
    <2>6. InFirstLoop'
        BY <1>1, <2>1, <2>4, <2>5 DEF IInv, InFirstLoop
    <2>7. AfterFirstLoop' /\ InGenFiles' /\ InCopy' /\ InLastLoop'
        BY <2>1 DEF AfterFirstLoop, InGenFiles, InCopy, InLastLoop, LastLoop
    <2>8. \A d, k \in Nodes : gentxs'[d][k].run = run => k \in Ours
        BY <1>1, <2>1 DEF IInv, InRun
    <2> QED  BY <1>1, <1>2, <1>3, <2>1, <2>2, <2>3, <2>6, <2>7, <2>8, MoveHolds DEF Phases
<1>6. CASE Fault /\ UNCHANGED tree
    BY <1>1, <1>3, <1>6, StopHolds DEF Fault
<1>7. CASE Fault /\ RemoveAll(keyring)
    BY <1>1, <1>3, <1>4, <1>7, RemoveAllHolds
<1>8. CASE Fault /\ RemoveAll([keyring EXCEPT ![i] = 0])
    <2>1. [keyring EXCEPT ![i] = 0] \in [Nodes -> Runs]
        BY <1>3, <1>4
    <2> QED  BY <1>1, <1>3, <1>8, <2>1, RemoveAllHolds
<1>9. CASE /\ Fault
           /\ keyring' = [keyring EXCEPT ![i] = run]
           /\ seed' \in {seed, [seed EXCEPT ![i] = Torn]}
           /\ UNCHANGED <<gentxs, appToml, genesis, configToml, orphans>>
    <2>1. End("error", TRUE) /\ UNCHANGED <<args, run, genesis, gentxs, orphans>>
        BY <1>9 DEF Fault, End
    <2>2. OneChain' /\ CanonicalIsWhole'
        BY <1>1, <2>1, GenesisKept
    <2>3. seed' \in [Nodes -> Runs] /\ keyring' \in [Nodes -> Runs]
        BY <1>3, <1>4, <1>9
    <2>4. FilesOK' /\ NotLater'
        BY <1>4, <1>9, <2>1, <2>3 DEF IInv, FilesOK, NotLater
    <2> QED  BY <1>3, <2>1, <2>2, <2>4, EndHolds
<1> QED  BY <1>5, <1>6, <1>7, <1>8, <1>9 DEF SaveKey

\* The types of the other files, and what a run keeps of them.
LEMMA FilesKept ==
    ASSUME IInv
    PROVE  /\ keyring \in [Nodes -> Runs] /\ seed \in [Nodes -> Runs] /\ orphans \in SUBSET Nodes
           /\ gentxs \in [Nodes -> [Nodes -> TxFile]]
           /\ appToml \in [Nodes -> AppFile]
           /\ genesis \in [Nodes -> GenesisFile]
           /\ configToml \in [Nodes -> Configs]
BY DEF IInv, TypeOK, TxFile, AppFile, GenesisFile

LEMMA WriteGentxHolds ==
    ASSUME IInv, WriteGentx
    PROVE  IInv'
<1>1. pc = "gentx" /\ pc # "idle" /\ pc \in FirstLoop
      /\ UNCHANGED <<nodeConfig, keyring, seed, appToml, genesis, configToml, orphans>>
    BY DEF WriteGentx, FirstLoop
<1>2. i < args.n /\ i \in Nodes /\ i \in Ours /\ i \in Nat /\ i \in 0 .. args.n /\ j \in 0 .. args.n
    BY <1>1, OursAreNodes DEF IInv, InRun, TypeOK
<1>3. nodeConfig' \in Configs /\ run \in Runs /\ run \in Nat /\ Tx(i) \in TxFile
    BY <1>1, RunIsRun, StakeType DEF IInv, TypeOK, TxFile, Tx
<1>4. ASSUME gentxs' \in [Nodes -> [Nodes -> TxFile]]
      PROVE  FilesOK'
    BY <1>1, <1>4, FilesKept DEF FilesOK, TxFile, AppFile, GenesisFile
<1>5. CASE Goto("apptoml") /\ gentxs' = [gentxs EXCEPT ![i][i] = [run |-> run, stake |-> Stake(i)]]
    <2>1. pc' = "apptoml" /\ UNCHANGED <<i, j, args, run, outcome, faulted>>
        BY <1>5 DEF Goto
    <2>2. OneChain' /\ CanonicalIsWhole'
        BY <1>1, <2>1, GenesisKept
    <2>3. /\ gentxs' = [gentxs EXCEPT ![i][i] = Tx(i)]
          /\ Tx(i).run =< run /\ (Tx(i).run = run => i \in Ours)
        BY <1>2, <1>3, <1>5 DEF Tx
    <2>4. /\ gentxs' \in [Nodes -> [Nodes -> TxFile]]
          /\ \A e, m \in Nodes : gentxs'[e][m] = IF e = i /\ m = i THEN Tx(i) ELSE gentxs[e][m]
          /\ \A e, m \in Nodes : gentxs'[e][m].run =< run
          /\ \A e, m \in Nodes : gentxs'[e][m].run = run => m \in Ours
        BY <1>1, <1>2, <1>3, <2>1, <2>3, GentxWritten
    <2>5. FilesOK' /\ NotLater'
        BY <1>1, <1>4, <2>1, <2>4 DEF IInv, NotLater
    <2>6. Signed(i)' /\ \A k \in Nodes : k # i => Signed(k)' = Signed(k)
        BY <1>2, <2>1, <2>4, SameRun DEF Signed
    <2>7. \A k \in 0 .. i - 1 : Keyed(k) /\ Signed(k) /\ Served(k) /\ k \in Nodes /\ k # i
        BY <1>1, <1>2 DEF IInv, InFirstLoop, Nodes
    <2>8. Keyed(i) /\ \A d \in Nodes : genesis[d].run < run
        BY <1>1 DEF IInv, InFirstLoop
    <2>9. InFirstLoop'
        BY <1>1, <2>1, <2>6, <2>7, <2>8 DEF InFirstLoop, Keyed, Served
    <2>10. AfterFirstLoop' /\ InGenFiles' /\ InCopy' /\ InLastLoop'
        BY <2>1 DEF AfterFirstLoop, InGenFiles, InCopy, InLastLoop, LastLoop
    <2> QED  BY <1>1, <1>2, <1>3, <2>1, <2>2, <2>4, <2>5, <2>9, <2>10, MoveHolds DEF Phases
<1>6. CASE Fault /\ \E file \in Spoilt(gentxs[i][i]) : gentxs' = [gentxs EXCEPT ![i][i] = file]
    <2>1. End("error", TRUE) /\ UNCHANGED <<args, run>>
        BY <1>6 DEF Fault, End
    <2>2. OneChain' /\ CanonicalIsWhole'
        BY <1>1, <2>1, GenesisKept
    <2>3. PICK file \in Spoilt(gentxs[i][i]) : gentxs' = [gentxs EXCEPT ![i][i] = file]
        BY <1>6
    <2>4. file \in TxFile /\ file.run =< run /\ (file.run = run => i \in Ours)
        BY <1>1, <1>2, GentxSpoilt
    <2>5. /\ gentxs' \in [Nodes -> [Nodes -> TxFile]]
          /\ \A e, m \in Nodes : gentxs'[e][m].run =< run
        BY <1>1, <1>2, <2>1, <2>3, <2>4, GentxWritten
    <2>6. FilesOK' /\ NotLater'
        BY <1>1, <1>4, <2>1, <2>5 DEF IInv, NotLater
    <2> QED  BY <1>3, <2>1, <2>2, <2>6, EndHolds
<1> QED  BY <1>5, <1>6 DEF WriteGentx

LEMMA WriteAppTomlHolds ==
    ASSUME IInv, WriteAppToml
    PROVE  IInv'
<1>1. /\ pc = "apptoml" /\ pc # "idle" /\ pc \in FirstLoop
      /\ UNCHANGED <<nodeConfig, keyring, seed, gentxs, genesis, configToml, orphans>>
    BY DEF WriteAppToml, FirstLoop
<1>2. i < args.n /\ i \in Nodes /\ i \in Nat /\ args.n \in Nat /\ i + 1 \in 0 .. args.n
    BY <1>1, OursAreNodes DEF IInv, InRun
<1>3. nodeConfig' \in Configs /\ run \in Runs /\ appToml \in [Nodes -> AppFile]
    BY <1>1, RunIsRun, FilesKept DEF IInv, TypeOK
<1>4. ASSUME appToml' \in [Nodes -> AppFile]
      PROVE  FilesOK'
    BY <1>1, <1>4, FilesKept DEF FilesOK, TxFile, AppFile, GenesisFile
<1>5. CASE NextNode("mkdir") /\ appToml' = [appToml EXCEPT ![i] = AppConfig(i)]
    <2>1. pc' = "mkdir" /\ i' = i + 1 /\ j' = 0 /\ UNCHANGED <<args, run, outcome, faulted>>
        BY <1>5 DEF NextNode
    <2>2. OneChain' /\ CanonicalIsWhole'
        BY <1>1, <2>1, GenesisKept
    <2>3. AppConfig(i) \in AppFile
        BY <1>2, <1>3 DEF AppConfig, AppFile, GrpcPort
    <2>4. FilesOK' /\ NotLater'
        BY <1>1, <1>3, <1>4, <1>5, <2>1, <2>3 DEF IInv, NotLater
    <2>5. \A k \in Nodes : Served(k)' <=> (k = i \/ Served(k))
        <3>1. \A k \in Nodes : k = i => appToml'[k].grpc = GrpcPort(k)
            BY <1>2, <1>3, <1>5 DEF AppConfig
        <3>2. \A k \in Nodes : k # i => appToml'[k] = appToml[k]
            BY <1>3, <1>5
        <3> QED  BY <3>1, <3>2 DEF Served
    <2>6. \A k \in 0 .. i - 1 : Keyed(k) /\ Signed(k) /\ Served(k) /\ k \in Nodes /\ k # i
        BY <1>1, <1>2 DEF IInv, InFirstLoop, Nodes
    <2>7. Keyed(i) /\ Signed(i) /\ \A d \in Nodes : genesis[d].run < run
        BY <1>1 DEF IInv, InFirstLoop
    <2>8. \A k : Keyed(k)' = Keyed(k) /\ Signed(k)' = Signed(k)
        BY <1>1, <2>1, SameRun DEF Keyed, Signed
    <2>9. \A k \in 0 .. i' - 1 : k = i \/ k \in 0 .. i - 1
        BY <1>2, <2>1
    <2>10. InFirstLoop'
        <3>1. \A k \in 0 .. i' - 1 : Keyed(k)' /\ Signed(k)' /\ Served(k)'
            BY <1>2, <2>5, <2>6, <2>7, <2>8, <2>9
        <3> QED  BY <1>1, <2>1, <2>7, <3>1 DEF InFirstLoop
    <2>11. AfterFirstLoop' /\ InGenFiles' /\ InCopy' /\ InLastLoop'
        BY <2>1 DEF AfterFirstLoop, InGenFiles, InCopy, InLastLoop, LastLoop
    <2>12. \A d, k \in Nodes : gentxs'[d][k].run = run => k \in Ours
        BY <1>1 DEF IInv, InRun
    <2> QED  BY <1>1, <1>2, <1>3, <2>1, <2>2, <2>4, <2>10, <2>11, <2>12, MoveHolds DEF Phases
<1>6. CASE End("died", TRUE)
           /\ \E file \in Spoilt(appToml[i]) : appToml' = [appToml EXCEPT ![i] = file]
    <2>1. UNCHANGED <<args, run>>
        BY <1>6 DEF End
    <2>2. OneChain' /\ CanonicalIsWhole'
        BY <1>1, <2>1, GenesisKept
    <2>3. PICK file \in Spoilt(appToml[i]) : appToml' = [appToml EXCEPT ![i] = file]
        BY <1>6
    <2>4. file \in AppFile
        BY <1>2, <1>3, RunIsRun, SpoiltTypes
    <2>5. FilesOK' /\ NotLater'
        BY <1>1, <1>3, <1>4, <2>1, <2>3, <2>4 DEF IInv, NotLater
    <2> QED  BY <1>3, <1>6, <2>1, <2>2, <2>5, EndHolds
<1> QED  BY <1>5, <1>6 DEF WriteAppToml
----------------------------------------------------------------------------
(* The second and third loops.                                             *)

\* A fault while a genesis file is written.
LEMMA GenesisFaultHolds ==
    ASSUME IInv, pc # "idle", Fault, NEW d \in Nodes, NEW file \in Spoilt(genesis[d]),
           genesis' = [genesis EXCEPT ![d] = file], UNCHANGED <<keyring, seed, gentxs, appToml, orphans>>,
           configToml' \in [Nodes -> Configs], nodeConfig' \in Configs
    PROVE  IInv'
<1>1. End("error", TRUE) /\ UNCHANGED <<args, run>>
    BY DEF Fault, End
<1>2. genesis \in [Nodes -> GenesisFile]
    BY FilesKept
<1>3. \A e \in Nodes : genesis'[e] \in Spoilt(genesis[e])
    BY <1>2 DEF Spoilt
<1>4. /\ \A e \in Nodes : genesis'[e] \in GenesisFile
      /\ \A e \in Nodes : genesis'[e].run =< run
      /\ OneChain' /\ CanonicalIsWhole'
    BY <1>1, <1>3, GenesisSpoilt
<1>5. genesis' \in [Nodes -> GenesisFile]
    BY <1>2, <1>4
<1>6. FilesOK'
    BY <1>5, FilesKept DEF FilesOK, TxFile, AppFile, GenesisFile
<1>7. NotLater'
    BY <1>1, <1>4 DEF NotLater, IInv
<1> QED  BY <1>1, <1>4, <1>6, <1>7, EndHolds

\* A genesis file is its fields.
LEMMA GenesisFields ==
    ASSUME NEW g \in GenesisFile
    PROVE  g = [run |-> g.run, txs |-> g.txs, canonical |-> g.canonical]
BY DEF GenesisFile

LEMMA FreshGenesis ==
    ASSUME NEW r \in Runs
    PROVE  [NoGenesis EXCEPT !.run = r] = [run |-> r, txs |-> {}, canonical |-> FALSE]
<1> DEFINE g == [NoGenesis EXCEPT !.run = r]
<1>1. g \in GenesisFile
    BY DEF NoGenesis, GenesisFile
<1>2. g.run = r /\ g.txs = {} /\ g.canonical = FALSE
    BY DEF NoGenesis
<1> HIDE DEF g
<1>3. g = [run |-> g.run, txs |-> g.txs, canonical |-> g.canonical]
    BY <1>1, GenesisFields
<1>4. g = [run |-> r, txs |-> {}, canonical |-> FALSE]
    BY <1>2, <1>3
<1> QED  BY <1>4 DEF g

LEMMA CollectedGenesis ==
    ASSUME NEW file \in GenesisFile, NEW txs \in SUBSET (Nodes \X Runs)
    PROVE  [file EXCEPT !.txs = txs] = [run |-> file.run, txs |-> txs, canonical |-> file.canonical]
<1> DEFINE g == [file EXCEPT !.txs = txs]
<1>1. g \in GenesisFile
    BY DEF GenesisFile
<1>2. g.run = file.run /\ g.txs = txs /\ g.canonical = file.canonical
    BY DEF GenesisFile
<1> HIDE DEF g
<1>3. g = [run |-> file.run, txs |-> txs, canonical |-> file.canonical]
    BY <1>1, <1>2, GenesisFields
<1> QED  BY <1>3 DEF g

\* All nodes have a genesis of this run, whole if it is canonical.
LEMMA GenesisOfRun ==
    ASSUME UNCHANGED <<args, run>>,
           \A d \in Ours : genesis'[d].run = run /\ (genesis'[d].canonical => genesis'[d].txs = AllTxs)
    PROVE  OneChain' /\ CanonicalIsWhole'
BY SameRun DEF OneChain, CanonicalIsWhole

LEMMA InitGenFileHolds ==
    ASSUME IInv, InitGenFile
    PROVE  IInv'
<1>1. /\ pc = "genfiles" /\ pc # "idle" /\ i < args.n
      /\ UNCHANGED <<nodeConfig, keyring, seed, gentxs, appToml, configToml, orphans>>
    BY DEF InitGenFile, HasNode
<1>2. i \in Nodes /\ i \in Nat /\ args.n \in Nat /\ i + 1 \in 0 .. args.n /\ Ours \subseteq Nodes
    BY <1>1, OursAreNodes
<1>3. /\ nodeConfig' \in Configs /\ run \in Runs /\ run \in Nat
      /\ genesis \in [Nodes -> GenesisFile]
    BY <1>1, RunIsRun, FilesKept DEF IInv, TypeOK
<1>4. CASE NextNode("genfiles") /\ genesis' = [genesis EXCEPT ![i] = InitialGenesis(i)]
    <2>1. pc' = "genfiles" /\ i' = i + 1 /\ j' = 0 /\ UNCHANGED <<args, run, outcome, faulted>>
        BY <1>4 DEF NextNode
    <2>2. \A d : /\ InitialGenesis(d) = [run |-> run, txs |-> {}, canonical |-> FALSE]
                 /\ InitialGenesis(d)' = InitialGenesis(d)
        <3>1. [NoGenesis EXCEPT !.run = run] = [run |-> run, txs |-> {}, canonical |-> FALSE]
            BY <1>3, FreshGenesis
        <3>2. \A d : InitialGenesis(d)' = InitialGenesis(d)
            BY <2>1 DEF InitialGenesis
        <3> QED  BY <3>1, <3>2 DEF InitialGenesis
    <2>3. \A d \in Nodes : genesis'[d] = IF d = i THEN InitialGenesis(d) ELSE genesis[d]
        BY <1>3, <1>4
    <2>4. InitialGenesis(i) \in GenesisFile
        BY <1>3, <2>2 DEF GenesisFile
    <2>5. genesis' \in [Nodes -> GenesisFile]
        BY <1>3, <1>4, <2>4
    <2>6. FilesOK'
        BY <1>1, <2>5, FilesKept DEF FilesOK, TxFile, AppFile, GenesisFile
    <2>7. NotLater'
        BY <1>1, <1>3, <2>1, <2>2, <2>3 DEF IInv, NotLater
    <2>8. \A d \in Nodes : genesis'[d].run = run => genesis'[d] = InitialGenesis(d)
        BY <1>1, <2>3 DEF IInv, InGenFiles
    <2>9. OneChain' /\ CanonicalIsWhole'
        <3>1. \A d : InitialGenesis(d).canonical = FALSE /\ InitialGenesis(d).txs = {}
            BY <2>2
        <3>2. \A d \in Ours : genesis'[d].run = run => ~genesis'[d].canonical /\ genesis'[d].txs = {}
            BY <1>2, <2>8, <3>1
        <3> QED  BY <2>1, <3>2, SameRun DEF OneChain, CanonicalIsWhole
    <2>10. \A d \in 0 .. i' - 1 : genesis'[d].run = run
        <3>1. \A d \in 0 .. i' - 1 : d \in Nodes /\ (d = i \/ d \in 0 .. i - 1)
            BY <1>2, <2>1 DEF Nodes
        <3>2. \A d \in 0 .. i - 1 : genesis[d].run = run
            BY <1>1 DEF IInv, InGenFiles
        <3> QED  BY <2>2, <2>3, <3>1, <3>2
    <2>11. InGenFiles'
        BY <2>1, <2>2, <2>8, <2>10 DEF InGenFiles
    <2>12. AfterFirstLoop'
        BY <1>1, <2>1, SameRun DEF AfterFirstLoop, IInv, Keyed, Signed, Served
    <2>13. InFirstLoop' /\ InCopy' /\ InLastLoop'
        BY <2>1 DEF InFirstLoop, InCopy, InLastLoop, LastLoop, FirstLoop
    <2>14. \A d, k \in Nodes : gentxs'[d][k].run = run => k \in Ours
        BY <1>1 DEF IInv, InRun
    <2> QED  BY <1>1, <1>2, <1>3, <2>1, <2>6, <2>7, <2>9, <2>11, <2>12, <2>13, <2>14, MoveHolds
             DEF Phases
<1>5. CASE Fault /\ \E file \in Spoilt(genesis[i]) : genesis' = [genesis EXCEPT ![i] = file]
    BY <1>1, <1>2, <1>3, <1>5, GenesisFaultHolds, FilesKept
<1> QED  BY <1>4, <1>5 DEF InitGenFile

\* The gentx files of a step to the next file of the copy.
LEMMA NextFileHolds ==
    ASSUME IInv, pc = "copy", ~faulted, i < args.n, j < args.n, NextFile,
           gentxs' \in [Nodes -> [Nodes -> TxFile]],
           \A d, k \in Nodes : gentxs'[d][k] = IF d = i /\ k = j THEN Tx(k) ELSE gentxs[d][k],
           UNCHANGED <<nodeConfig, keyring, seed, appToml, genesis, configToml, orphans>>
    PROVE  IInv'
<1>1. pc' = "copy" /\ j' = j + 1 /\ UNCHANGED <<i, args, run, outcome, faulted>> /\ pc # "idle"
    BY DEF NextFile
<1>2. /\ i \in Nodes /\ j \in Nodes /\ i \in Nat /\ j \in Nat /\ args.n \in Nat /\ j \in Ours
      /\ i \in 0 .. args.n /\ j + 1 \in 0 .. args.n /\ Ours \subseteq Nodes
    BY <1>1, OursAreNodes
<1>3. nodeConfig' \in Configs /\ run \in Nat
    BY RunIsRun DEF IInv, TypeOK
<1>4. FilesOK'
    BY FilesKept DEF FilesOK, TxFile, AppFile, GenesisFile
<1>5. OneChain' /\ CanonicalIsWhole'
    BY <1>1, GenesisKept
<1>6. \A k : Tx(k).run = run
    BY DEF Tx
<1>7. NotLater' /\ \A d, k \in Nodes : gentxs'[d][k].run = run => k \in Ours
    <2>1. \A d, k \in Nodes : gentxs'[d][k].run =< run
        BY <1>3, <1>6 DEF IInv, NotLater
    <2>2. \A d, k \in Nodes : gentxs'[d][k].run = run => k \in Ours
        BY <1>1, <1>2 DEF IInv, InRun
    <2> QED  BY <1>1, <2>1, <2>2 DEF IInv, NotLater
<1>8. AfterFirstLoop'
    <2>1. \A k \in Ours : Keyed(k) /\ Signed(k) /\ Served(k) /\ k \in Nodes
        BY <1>2 DEF IInv, AfterFirstLoop
    <2>2. \A k \in Ours : gentxs'[k][k] = Tx(k)
        BY <2>1 DEF Signed
    <2> QED  BY <1>1, <2>1, <2>2, SameRun DEF AfterFirstLoop, Keyed, Signed, Served
<1>9. InCopy'
    <2>1. \A d \in Ours : genesis[d] = InitialGenesis(d)
        BY DEF IInv, InCopy
    <2>2. \A d : InitialGenesis(d)' = InitialGenesis(d)
        BY <1>1 DEF InitialGenesis
    <2>3. \A d \in 0 .. i - 1, k \in Ours : gentxs'[d][k] = Tx(k)
        <3>1. \A d \in 0 .. i - 1 : d \in Nodes /\ d # i
            BY <1>2 DEF Nodes
        <3> QED  BY <1>2, <3>1 DEF IInv, InCopy
    <2>4. \A k \in 0 .. j' - 1 : gentxs'[i][k] = Tx(k)
        <3>1. \A k \in 0 .. j' - 1 : k \in Nodes /\ (k = j \/ k \in 0 .. j - 1)
            <4>1. j' = j + 1 /\ j \in Nat
                BY <1>1, <1>2
            <4>2. j \in Nodes
                BY <1>2
            <4>3. \A k \in 0 .. j' - 1 : k \in Nat /\ k =< j /\ (k = j \/ k \in 0 .. j - 1)
                BY <4>1
            <4> QED  BY <4>1, <4>2, <4>3 DEF Nodes
        <3>2. \A k \in 0 .. j - 1 : gentxs[i][k] = Tx(k)
            BY DEF IInv, InCopy, HasNode
        <3> QED  BY <1>2, <3>1, <3>2
    <2> QED  BY <1>1, <2>1, <2>2, <2>3, <2>4, SameRun DEF InCopy
<1>10. InFirstLoop' /\ InGenFiles' /\ InLastLoop'
    BY <1>1 DEF InFirstLoop, InGenFiles, InLastLoop, LastLoop, FirstLoop
<1> QED  BY <1>1, <1>2, <1>3, <1>4, <1>5, <1>7, <1>8, <1>9, <1>10, MoveHolds DEF Phases

LEMMA CopyGentxHolds ==
    ASSUME IInv, CopyGentx
    PROVE  IInv'
<1>1. /\ pc = "copy" /\ ~faulted /\ pc # "idle" /\ i < args.n /\ j < args.n
      /\ UNCHANGED <<nodeConfig, keyring, seed, appToml, genesis, configToml, orphans>>
    BY DEF CopyGentx, HasNode
<1>2. i \in Nodes /\ j \in Nodes /\ i \in Ours /\ j \in Ours
    BY <1>1, OursAreNodes
<1>3. nodeConfig' \in Configs /\ gentxs \in [Nodes -> [Nodes -> TxFile]]
    BY <1>1, FilesKept DEF IInv, TypeOK
<1>4. gentxs[i][i] = Tx(i) /\ gentxs[j][j] = Tx(j)
    BY <1>1, <1>2 DEF IInv, AfterFirstLoop, Signed
<1>5. CASE IsSubDir(j, i) /\ NextFile /\ UNCHANGED gentxs
    <2>1. \A d, k \in Nodes : gentxs'[d][k] = IF d = i /\ k = j THEN Tx(k) ELSE gentxs[d][k]
        BY <1>4, <1>5 DEF IsSubDir
    <2>2. gentxs' \in [Nodes -> [Nodes -> TxFile]] /\ NextFile
        BY <1>3, <1>5
    <2> QED  BY <1>1, <2>1, <2>2, NextFileHolds
<1>6. CASE ~IsSubDir(j, i) /\ NextFile /\ gentxs' = [gentxs EXCEPT ![i][j] = gentxs[j][j]]
    <2>1. \A d, k \in Nodes : gentxs'[d][k] = IF d = i /\ k = j THEN Tx(k) ELSE gentxs[d][k]
        BY <1>2, <1>3, <1>4, <1>6
    <2>2. gentxs' \in [Nodes -> [Nodes -> TxFile]] /\ NextFile
        BY <1>2, <1>3, <1>6
    <2> QED  BY <1>1, <2>1, <2>2, NextFileHolds
<1>7. CASE Fault /\ \E file \in Spoilt(gentxs[i][j]) : gentxs' = [gentxs EXCEPT ![i][j] = file]
    <2>1. End("error", TRUE) /\ UNCHANGED <<args, run>>
        BY <1>7 DEF Fault, End
    <2>2. OneChain' /\ CanonicalIsWhole'
        BY <1>1, <2>1, GenesisKept
    <2>3. PICK file \in Spoilt(gentxs[i][j]) : gentxs' = [gentxs EXCEPT ![i][j] = file]
        BY <1>7
    <2>4. file \in TxFile /\ file.run =< run /\ (file.run = run => j \in Ours)
        BY <1>1, <1>2, GentxSpoilt
    <2>5. /\ gentxs' \in [Nodes -> [Nodes -> TxFile]]
          /\ \A e, m \in Nodes : gentxs'[e][m].run =< run
        BY <1>1, <1>2, <2>1, <2>3, <2>4, GentxWritten
    <2>6. FilesOK' /\ NotLater'
        BY <1>1, <2>1, <2>5, FilesKept DEF IInv, NotLater, FilesOK, TxFile, AppFile, GenesisFile
    <2> QED  BY <1>3, <2>1, <2>2, <2>6, EndHolds
<1> QED  BY <1>5, <1>6, <1>7 DEF CopyGentx

LEMMA SkipGentxHolds ==
    ASSUME IInv, SkipGentx
    PROVE  IInv'
<1>1. pc # "idle" /\ i < args.n /\ j < args.n
    BY DEF SkipGentx, HasNode
<1>2. args.n \in Nat /\ i \in 0 .. args.n /\ j + 1 \in 0 .. args.n /\ args.n > 0
    BY <1>1, OursAreNodes
<1> QED  BY <1>2, LostHolds DEF SkipGentx
----------------------------------------------------------------------------
(* The last loop: the genesis files are collected and made canonical.      *)
Gathered == [run |-> run, txs |-> AllTxs, canonical |-> FALSE]
Canonical == [run |-> run, txs |-> AllTxs, canonical |-> TRUE]

\* Where the last loop is.
LEMMA InLastLoopFacts ==
    ASSUME IInv, pc \in LastLoop, ~faulted, i < args.n
    PROVE  /\ pc # "idle" /\ i \in Nodes /\ i \in Nat /\ i \in Ours /\ i \in 0 .. args.n
           /\ args.n \in Nat /\ Ours \subseteq Nodes /\ j \in 0 .. args.n
           /\ run \in Nat /\ run > 0 /\ run \in Runs /\ nodeConfig \in Configs
           /\ \A d, k \in Ours : gentxs[d][k] = Tx(k)
           /\ \A d, k \in Nodes : gentxs[d][k].run = run => k \in Ours
           /\ \A d \in 0 .. i - 1 : Whole(d) /\ d \in Ours /\ d # i
           /\ \A d \in i + 1 .. args.n - 1 : genesis[d] = InitialGenesis(d) /\ d \in Ours /\ d # i
           /\ \A d \in Ours : d = i \/ d \in 0 .. i - 1 \/ d \in i + 1 .. args.n - 1
           /\ \A k \in Ours : Keyed(k) /\ Signed(k) /\ Served(k)
<1>1. pc # "idle" /\ pc \in {"genfiles", "copy"} \cup LastLoop
    BY DEF LastLoop
<1>2. /\ i \in Nodes /\ i \in Nat /\ i \in Ours /\ i \in 0 .. args.n
      /\ args.n \in Nat /\ Ours \subseteq Nodes /\ j \in 0 .. args.n
    BY <1>1, OursAreNodes DEF IInv, TypeOK
<1>3. run \in Nat /\ run > 0 /\ run \in Runs /\ nodeConfig \in Configs
    BY <1>1, RunIsRun DEF IInv, InRun, TypeOK
<1>4. \A d, k \in Nodes : gentxs[d][k].run = run => k \in Ours
    BY <1>1 DEF IInv, InRun
<1>5. \A k \in Ours : Keyed(k) /\ Signed(k) /\ Served(k)
    BY <1>1 DEF IInv, AfterFirstLoop
<1>6. /\ \A d \in 0 .. i - 1 : d \in Ours /\ d # i
      /\ \A d \in i + 1 .. args.n - 1 : d \in Ours /\ d # i
      /\ \A d \in Ours : d = i \/ d \in 0 .. i - 1 \/ d \in i + 1 .. args.n - 1
    BY <1>2 DEF Ours
<1>7. /\ \A d, k \in Ours : gentxs[d][k] = Tx(k)
      /\ \A d \in 0 .. i - 1 : Whole(d)
      /\ \A d \in i + 1 .. args.n - 1 : genesis[d] = InitialGenesis(d)
    BY DEF IInv, InLastLoop
<1> QED  BY <1>1, <1>2, <1>3, <1>4, <1>5, <1>6, <1>7

\* GenAppStateFromConfig collects all gentxs of the run and nothing else, or
\* refuses for a reason.
LEMMA CollectedIsAll ==
    ASSUME IInv, pc = "collect", ~faulted, i < args.n, Accepted(i)
    PROVE  Present(i) = Ours /\ Clean(i) /\ Transactions(i) = AllTxs
<1>1. pc \in LastLoop /\ pc # "idle"
    BY DEF LastLoop
<1>2. genesis[i].run = run
    <2>1. InLastLoop /\ HasNode(i) /\ run \in Runs
        BY <1>1, InLastLoopFacts DEF IInv, HasNode
    <2>2. genesis[i] = InitialGenesis(i)
        BY <1>1, <2>1 DEF InLastLoop
    <2> QED  BY <2>1, <2>2, FreshGenesis DEF InitialGenesis
<1>3. \A k \in Present(i) : gentxs[i][k].run = run /\ gentxs[i][k].stake =< Balance
    BY <1>2 DEF Accepted
<1>4. \A k \in Present(i) : k \in Ours
    <2>1. i \in Nodes
        BY <1>1, InLastLoopFacts
    <2>2. \A d, k \in Nodes : gentxs[d][k].run = run => k \in Ours
        BY <1>1, InLastLoopFacts
    <2>3. \A k \in Present(i) : k \in Nodes
        BY DEF Present
    <2> QED  BY <1>3, <2>1, <2>2, <2>3
<1>5. \A k \in Ours : gentxs[i][k] = Tx(k) /\ gentxs[i][k] # NoTx /\ k \in Nodes
    <2>1. \A k \in Ours : gentxs[i][k] = Tx(k) /\ k \in Nodes
        BY <1>1, InLastLoopFacts
    <2>2. run # 0
        BY <1>1, InLastLoopFacts
    <2>3. \A k : Tx(k).run = run /\ NoTx.run = 0
        BY DEF Tx, NoTx
    <2> QED  BY <2>1, <2>2, <2>3
<1>6. Present(i) = Ours
    BY <1>4, <1>5 DEF Present
<1>7. \A k \in Ours : Stake(k) =< Balance
    <2>1. \A k \in Ours : gentxs[i][k].stake =< Balance /\ gentxs[i][k] = Tx(k)
        BY <1>3, <1>5, <1>6
    <2>2. \A k : Tx(k).stake = Stake(k)
        BY DEF Tx
    <2> QED  BY <2>1, <2>2
<1>8. Transactions(i) = AllTxs
    BY <1>3, <1>6 DEF Transactions, AllTxs
<1>9. i \notin orphans
    BY DEF Accepted
<1> QED  BY <1>6, <1>7, <1>8, <1>9 DEF Clean

LEMMA RefusalExplained ==
    ASSUME IInv, pc = "collect", ~faulted, i < args.n, ~Accepted(i)
    PROVE  Overstaked \/ Leftover
<1>1. pc \in LastLoop /\ pc # "idle"
    BY DEF LastLoop
<1>2. genesis[i].run = run
    <2>1. InLastLoop /\ HasNode(i) /\ run \in Runs
        BY <1>1, InLastLoopFacts DEF IInv, HasNode
    <2>2. genesis[i] = InitialGenesis(i)
        BY <1>1, <2>1 DEF InLastLoop
    <2> QED  BY <2>1, <2>2, FreshGenesis DEF InitialGenesis
<1>3. i \in Nodes /\ i \in Ours /\ run # 0 /\ gentxs[i][i] = Tx(i)
    <2>1. i \in Nodes /\ i \in Ours /\ run \in Nat /\ run > 0
        BY <1>1, InLastLoopFacts
    <2>2. \A d, k \in Ours : gentxs[d][k] = Tx(k)
        BY <1>1, InLastLoopFacts
    <2> QED  BY <2>1, <2>2
<1>4. i \in Present(i)
    BY <1>3 DEF Present, Tx, NoTx
<1>5. CASE i \in orphans
    BY <1>3, <1>5 DEF Leftover
<1> SUFFICES ASSUME i \notin orphans PROVE Overstaked \/ Leftover
    BY <1>5
<1>6. PICK k \in Present(i) : gentxs[i][k].run # run \/ ~(gentxs[i][k].stake =< Balance)
    BY <1>2, <1>4 DEF Accepted
<1>7. k \in Nodes /\ gentxs[i][k] # NoTx
    BY <1>6 DEF Present
<1>8. CASE k \in Ours
    <2>1. gentxs[i][k] = Tx(k)
        BY <1>1, <1>3, <1>8, InLastLoopFacts
    <2>2. ~(Stake(k) =< Balance) /\ Stake(k) \in Int
        BY <1>6, <2>1, StakeType DEF Tx
    <2> QED  BY <1>8, <2>2 DEF Overstaked
<1>9. CASE k \notin Ours
    BY <1>3, <1>7, <1>9 DEF Leftover
<1> QED  BY <1>8, <1>9

\* What the last loop leaves alone.
LEMMA LastLoopKept ==
    ASSUME IInv, pc \in LastLoop, ~faulted, i < args.n, UNCHANGED <<args, run, outcome, faulted>>,
           UNCHANGED <<keyring, seed, gentxs, appToml, orphans>>, pc' \in LastLoop,
           genesis' \in [Nodes -> GenesisFile], configToml' \in [Nodes -> Configs],
           \A d \in Nodes : d # i => genesis'[d] = genesis[d] /\ configToml'[d] = configToml[d]
    PROVE  /\ FilesOK' /\ AfterFirstLoop'
           /\ (\A d, k \in Ours : gentxs'[d][k] = Tx(k))
           /\ (\A d, k \in Nodes : gentxs'[d][k].run = run => k \in Ours)
           /\ \A d : InitialGenesis(d)' = InitialGenesis(d)
           /\ \A d : Clean(d)' <=> Clean(d)
           /\ \A d \in 0 .. i - 1 : Whole(d)'
           /\ InFirstLoop' /\ InGenFiles' /\ InCopy'
<1>1. FilesOK'
    BY FilesKept DEF FilesOK, TxFile, AppFile, GenesisFile
<1>2. AfterFirstLoop'
    BY InLastLoopFacts, SameRun DEF AfterFirstLoop, Keyed, Signed, Served
<1>3. /\ \A d, k \in Ours : gentxs'[d][k] = Tx(k)
      /\ \A d, k \in Nodes : gentxs'[d][k].run = run => k \in Ours
    BY InLastLoopFacts
<1>4. \A d : InitialGenesis(d)' = InitialGenesis(d)
    BY DEF InitialGenesis
<1>5. \A d : Clean(d)' <=> Clean(d)
    BY SameRun DEF Clean, Present
<1>6. \A d \in 0 .. i - 1 : Whole(d)'
    <2>1. \A d \in 0 .. i - 1 : Whole(d) /\ d \in Nodes /\ d # i
        BY InLastLoopFacts
    <2>2. \A d \in 0 .. i - 1 : genesis'[d] = genesis[d] /\ configToml'[d] = configToml[d]
        BY <2>1
    <2>3. \A d \in 0 .. i - 1 : Configured(d)'
        BY <2>1, <2>2, SameRun DEF Whole, Configured
    <2> QED  BY <1>5, <2>1, <2>2, <2>3, SameRun DEF Whole
<1>7. InFirstLoop' /\ InGenFiles' /\ InCopy'
    BY DEF InFirstLoop, InGenFiles, InCopy, LastLoop, FirstLoop
<1> QED  BY <1>1, <1>2, <1>3, <1>4, <1>5, <1>6, <1>7
LEMMA CollectHolds ==
    ASSUME IInv, Collect
    PROVE  IInv'
<1>1. pc = "collect" /\ ~faulted /\ i < args.n /\ pc \in LastLoop /\ UNCHANGED <<keyring, seed, gentxs, appToml, orphans>>
    BY DEF Collect, HasNode, LastLoop
<1>2. /\ pc # "idle" /\ i \in Nodes /\ i \in Nat /\ i \in Ours /\ i \in 0 .. args.n
      /\ j \in 0 .. args.n /\ run \in Runs /\ Ours \subseteq Nodes /\ nodeConfig \in Configs
    BY <1>1, InLastLoopFacts
<1>3. genesis[i] = InitialGenesis(i) /\ genesis[i] = [run |-> run, txs |-> {}, canonical |-> FALSE]
    BY <1>1, <1>2, FreshGenesis DEF IInv, InLastLoop, HasNode, InitialGenesis
<1>4. CASE /\ ~Accepted(i) /\ End("error", FALSE)
           /\ nodeConfig' = [nodeConfig EXCEPT !.moniker = i]
           /\ UNCHANGED <<configToml, genesis, orphans>>
    <2>1. pc' = "idle" /\ outcome' = "error" /\ UNCHANGED <<args, run>>
        BY <1>4 DEF End
    <2>2. OneChain' /\ CanonicalIsWhole'
        BY <1>1, <1>2, <1>4, <2>1, GenesisKept
    <2>3. FilesOK' /\ NotLater' /\ nodeConfig' \in Configs
        <3>1. nodeConfig' \in Configs
            BY <1>2, <1>4 DEF Configs
        <3> QED  BY <1>1, <1>4, <2>1, <3>1, FilesKept DEF IInv, NotLater, FilesOK, TxFile, AppFile, GenesisFile
    <2>4. TypeOK'
        BY <1>4, <2>3, EndControl, TypeParts DEF TypeOK, ControlOK, FilesOK
    <2>5. ErrorExplained'
        <3>1. Overstaked \/ Leftover
            BY <1>1, <1>4, RefusalExplained
        <3>2. Overstaked' \/ Leftover'
            BY <1>1, <2>1, <3>1, SameRun DEF Overstaked, Leftover
        <3> QED  BY <3>2 DEF ErrorExplained
    <2>6. InRun' /\ InFirstLoop' /\ AfterFirstLoop' /\ InGenFiles' /\ InCopy' /\ InLastLoop' /\ Succeeded'
        BY <2>1 DEF InRun, InFirstLoop, AfterFirstLoop, InGenFiles, InCopy, InLastLoop,
                    FirstLoop, LastLoop, Succeeded
    <2> QED  BY <2>2, <2>3, <2>4, <2>5, <2>6 DEF IInv
<1>5. CASE /\ Accepted(i)
           /\ nodeConfig' = [nodeConfig EXCEPT !.moniker = i, !.peers = OtherPeers(i)]
           /\ configToml' = [configToml EXCEPT ![i] = [nodeConfig' EXCEPT !.run = run]]
           /\ \/ Goto("config") /\ genesis' = [genesis EXCEPT ![i] = Collected(i)]
              \/ Fault /\ \E file \in Spoilt(genesis[i]) : genesis' = [genesis EXCEPT ![i] = file]
    <2>1. Present(i) = Ours /\ Clean(i) /\ Transactions(i) = AllTxs
        BY <1>1, <1>5, CollectedIsAll
    <2>2. nodeConfig' \in Configs
        <3>1. OtherPeers(i) \in SUBSET Addresses
            <4>1. Present(i) \ {i} \in SUBSET Nodes
                BY DEF Present
            <4> QED  BY <4>1, MemoType DEF OtherPeers
        <3> QED  BY <1>2, <1>5, <3>1 DEF Configs
    <2>3. [nodeConfig' EXCEPT !.run = run] \in Configs
        BY <1>2, <2>2 DEF Configs
    <2>4. /\ configToml' \in [Nodes -> Configs]
          /\ \A d \in Nodes : d # i => configToml'[d] = configToml[d]
        BY <1>2, <1>5, <2>3, FilesKept
    <2>5. CASE Goto("config") /\ genesis' = [genesis EXCEPT ![i] = Collected(i)]
        <3>1. pc' = "config" /\ pc' \in LastLoop /\ UNCHANGED <<i, j, args, run, outcome, faulted>>
            BY <2>5 DEF Goto, LastLoop
        <3>2. Collected(i) = Gathered
            <4>1. genesis[i] \in GenesisFile /\ AllTxs \in SUBSET (Nodes \X Runs)
                <5>1. genesis[i] \in GenesisFile
                    BY <1>2, FilesKept
                <5>2. AllTxs \in SUBSET (Nodes \X Runs)
                    BY <1>2 DEF AllTxs
                <5> QED  BY <5>1, <5>2
            <4>2. genesis[i].run = run /\ genesis[i].canonical = FALSE
                BY <1>3
            <4>3. [genesis[i] EXCEPT !.txs = AllTxs]
                    = [run |-> genesis[i].run, txs |-> AllTxs, canonical |-> genesis[i].canonical]
                BY <4>1, CollectedGenesis
            <4> QED  BY <2>1, <4>2, <4>3 DEF Collected, Gathered
        <3>3. Gathered \in GenesisFile
            BY <1>2 DEF Gathered, GenesisFile, AllTxs
        <3>4. /\ genesis' \in [Nodes -> GenesisFile] /\ genesis'[i] = Gathered
              /\ \A d \in Nodes : d # i => genesis'[d] = genesis[d]
            BY <1>2, <2>5, <3>2, <3>3, FilesKept
        <3>5. /\ FilesOK' /\ AfterFirstLoop'
              /\ (\A d, k \in Ours : gentxs'[d][k] = Tx(k))
              /\ (\A d, k \in Nodes : gentxs'[d][k].run = run => k \in Ours)
              /\ \A d : InitialGenesis(d)' = InitialGenesis(d)
              /\ \A d : Clean(d)' <=> Clean(d)
              /\ \A d \in 0 .. i - 1 : Whole(d)'
              /\ InFirstLoop' /\ InGenFiles' /\ InCopy'
            BY <1>1, <2>4, <3>1, <3>4, LastLoopKept
        <3>6. /\ \A d \in 0 .. i - 1 : genesis'[d].run = run /\ genesis'[d].txs = AllTxs
              /\ genesis'[i].run = run /\ ~genesis'[i].canonical
              /\ \A d \in i + 1 .. args.n - 1 : /\ genesis'[d] = InitialGenesis(d)
                                                /\ genesis'[d].run = run /\ ~genesis'[d].canonical
            <4>1. \A d \in 0 .. i - 1 : genesis'[d].run = run /\ genesis'[d].txs = AllTxs
                BY <3>1, <3>5, SameRun DEF Whole
            <4>2. genesis'[i].run = run /\ ~genesis'[i].canonical
                BY <3>4 DEF Gathered
            <4>3. \A d \in i + 1 .. args.n - 1 : genesis'[d] = InitialGenesis(d)
                BY <1>1, <1>2, <3>4, InLastLoopFacts
            <4>4. \A d : InitialGenesis(d).run = run /\ ~InitialGenesis(d).canonical
                BY <1>2, FreshGenesis DEF InitialGenesis
            <4> QED  BY <4>1, <4>2, <4>3, <4>4
        <3>7. OneChain' /\ CanonicalIsWhole'
            <4>1. \A d \in Ours : genesis'[d].run = run /\ (genesis'[d].canonical => genesis'[d].txs = AllTxs)
                BY <1>1, <3>6, InLastLoopFacts
            <4> QED  BY <3>1, <4>1, GenesisOfRun
        <3>8. InLastLoop'
            BY <2>1, <3>1, <3>4, <3>5, <3>6, SameRun DEF InLastLoop, Gathered
        <3>9. NotLater'
            <4>1. \A d \in Nodes : genesis'[d].run =< run
                BY <1>2, <3>4, RunIsRun DEF IInv, NotLater, Gathered
            <4> QED  BY <1>1, <3>1, <4>1 DEF IInv, NotLater
        <3> QED  BY <1>1, <1>2, <2>2, <3>1, <3>5, <3>7, <3>8, <3>9, MoveHolds DEF Phases
    <2>6. CASE Fault /\ \E file \in Spoilt(genesis[i]) : genesis' = [genesis EXCEPT ![i] = file]
        BY <1>1, <1>2, <2>2, <2>4, <2>6, GenesisFaultHolds
    <2> QED  BY <1>5, <2>5, <2>6
<1> QED  BY <1>4, <1>5 DEF Collect
LEMMA WriteConfigTomlHolds ==
    ASSUME IInv, WriteConfigToml
    PROVE  IInv'
<1>1. /\ pc = "config" /\ ~faulted /\ i < args.n /\ pc \in LastLoop
      /\ UNCHANGED <<keyring, seed, gentxs, appToml, genesis, orphans>>
    BY DEF WriteConfigToml, IInv, InRun, LastLoop
<1>2. /\ pc # "idle" /\ i \in Nodes /\ i \in Nat /\ i \in Ours /\ i \in 0 .. args.n
      /\ j \in 0 .. args.n /\ run \in Runs /\ Ours \subseteq Nodes /\ nodeConfig \in Configs
    BY <1>1, InLastLoopFacts
<1>3. NodeAddresses(i) \in Configs /\ nodeConfig' = NodeAddresses(i)
    <2>1. RpcPort(i) \in Int /\ PersistentPeers \in SUBSET Addresses
        BY <1>2, RpcPortType, MemoType DEF PersistentPeers
    <2>2. P2PPort(i) \in Int /\ PrometheusPort(i) \in Int
        BY <1>2 DEF P2PPort, PrometheusPort
    <2> QED  BY <1>2, <2>1, <2>2 DEF WriteConfigToml, NodeAddresses, Configs
<1>4. CASE /\ Goto("canonical")
           /\ configToml' = [configToml EXCEPT ![i] = [NodeAddresses(i) EXCEPT !.run = run]]
    <2>1. pc' = "canonical" /\ pc' \in LastLoop /\ UNCHANGED <<i, j, args, run, outcome, faulted>>
        BY <1>4 DEF Goto, LastLoop
    <2>2. [NodeAddresses(i) EXCEPT !.run = run] \in Configs
        BY <1>2, <1>3 DEF Configs
    <2>3. /\ configToml' \in [Nodes -> Configs]
          /\ configToml'[i] = [NodeAddresses(i) EXCEPT !.run = run]
          /\ \A d \in Nodes : d # i => configToml'[d] = configToml[d]
        BY <1>2, <1>4, <2>2, FilesKept
    <2>4. /\ FilesOK' /\ AfterFirstLoop'
          /\ (\A d, k \in Ours : gentxs'[d][k] = Tx(k))
          /\ (\A d, k \in Nodes : gentxs'[d][k].run = run => k \in Ours)
          /\ \A d : InitialGenesis(d)' = InitialGenesis(d)
          /\ \A d : Clean(d)' <=> Clean(d)
          /\ \A d \in 0 .. i - 1 : Whole(d)'
          /\ InFirstLoop' /\ InGenFiles' /\ InCopy'
        BY <1>1, <2>1, <2>3, LastLoopKept, FilesKept
    <2>5. Configured(i)'
        <3>1. /\ configToml'[i].p2p = P2PPort(i) /\ configToml'[i].rpc = RpcPort(i)
              /\ configToml'[i].prom = PrometheusPort(i) /\ configToml'[i].peers = PersistentPeers
            BY <1>2, <2>3 DEF NodeAddresses, Configs
        <3>2. P2PPort(i)' = P2PPort(i) /\ PrometheusPort(i)' = PrometheusPort(i)
            BY <2>1 DEF P2PPort, PrometheusPort
        <3>3. RpcPort(i)' = RpcPort(i) /\ PersistentPeers' = PersistentPeers
            BY <2>1 DEF RpcPort, PersistentPeers, Ours
        <3> QED  BY <2>1, <3>1, <3>2, <3>3 DEF Configured
    <2>6. /\ genesis[i] = [run |-> run, txs |-> AllTxs, canonical |-> FALSE] /\ Clean(i)
          /\ \A d \in i + 1 .. args.n - 1 : genesis[d] = InitialGenesis(d)
        BY <1>1 DEF IInv, InLastLoop
    <2>7. InLastLoop'
        <3>1. Clean(i)'
            BY <2>1, <2>6, SameRun, <1>1 DEF Clean, Present
        <3> QED  BY <1>1, <2>1, <2>4, <2>5, <2>6, <3>1, SameRun DEF InLastLoop
    <2>8. OneChain' /\ CanonicalIsWhole' /\ NotLater'
        <3>1. OneChain' /\ CanonicalIsWhole'
            BY <1>1, <1>2, <2>1, GenesisKept
        <3> QED  BY <1>1, <2>1, <3>1 DEF IInv, NotLater
    <2> QED  BY <1>1, <1>2, <1>3, <2>1, <2>4, <2>7, <2>8, MoveHolds DEF Phases
<1>5. CASE /\ End("died", TRUE)
           /\ \E file \in Spoilt(configToml[i]) : configToml' = [configToml EXCEPT ![i] = file]
    <2>1. UNCHANGED <<args, run>>
        BY <1>5 DEF End
    <2>2. OneChain' /\ CanonicalIsWhole'
        BY <1>1, <1>2, <2>1, GenesisKept
    <2>3. PICK file \in Spoilt(configToml[i]) : configToml' = [configToml EXCEPT ![i] = file]
        BY <1>5
    <2>4. file \in Configs
        BY <1>2, RunIsRun, FilesKept, SpoiltTypes
    <2>5. configToml' \in [Nodes -> Configs]
        BY <2>3, <2>4, FilesKept
    <2>6. FilesOK' /\ NotLater'
        BY <1>1, <2>1, <2>5, FilesKept DEF IInv, NotLater, FilesOK, TxFile, AppFile, GenesisFile
    <2> QED  BY <1>3, <1>5, <2>2, <2>6, EndHolds
<1> QED  BY <1>4, <1>5 DEF WriteConfigToml

LEMMA ExportCanonicalHolds ==
    ASSUME IInv, ExportCanonical
    PROVE  IInv'
<1>1. /\ pc = "canonical" /\ ~faulted /\ i < args.n /\ pc \in LastLoop
      /\ UNCHANGED <<nodeConfig, keyring, seed, gentxs, appToml, configToml, orphans>>
    BY DEF ExportCanonical, IInv, InRun, LastLoop
<1>2. /\ pc # "idle" /\ i \in Nodes /\ i \in Nat /\ i \in Ours /\ i + 1 \in 0 .. args.n /\ i + 1 \in Nat
      /\ 0 \in 0 .. args.n /\ run \in Runs /\ Ours \subseteq Nodes /\ nodeConfig' \in Configs
    BY <1>1, InLastLoopFacts
<1>3. /\ genesis[i] = [run |-> run, txs |-> AllTxs, canonical |-> FALSE] /\ Clean(i) /\ Configured(i)
      /\ \A d \in i + 1 .. args.n - 1 : genesis[d] = InitialGenesis(d)
    BY <1>1 DEF IInv, InLastLoop
<1>4. CASE NextNode("collect") /\ genesis' = [genesis EXCEPT ![i] = CanonicalGenesis]
    <2>1. /\ pc' = "collect" /\ pc' \in LastLoop /\ i' = i + 1 /\ j' = 0
          /\ UNCHANGED <<args, run, outcome, faulted>>
        BY <1>4 DEF NextNode, LastLoop
    <2>2. CanonicalGenesis = Canonical
        <3>1. genesis[0].txs = AllTxs
            <4>1. CASE i = 0
                BY <1>3, <4>1
            <4>2. CASE i # 0
                <5>1. 0 \in 0 .. i - 1
                    BY <1>2, <4>2
                <5> QED  BY <1>1, <5>1 DEF IInv, InLastLoop, Whole
            <4> QED  BY <4>1, <4>2
        <3> QED  BY <3>1 DEF CanonicalGenesis, Canonical
    <2>3. Canonical \in GenesisFile
        BY <1>2 DEF Canonical, GenesisFile, AllTxs
    <2>4. /\ genesis' \in [Nodes -> GenesisFile] /\ genesis'[i] = Canonical
          /\ \A d \in Nodes : d # i => genesis'[d] = genesis[d]
        BY <1>2, <1>4, <2>2, <2>3, FilesKept
    <2>5. /\ FilesOK' /\ AfterFirstLoop'
          /\ (\A d, k \in Ours : gentxs'[d][k] = Tx(k))
          /\ (\A d, k \in Nodes : gentxs'[d][k].run = run => k \in Ours)
          /\ \A d : InitialGenesis(d)' = InitialGenesis(d)
          /\ \A d : Clean(d)' <=> Clean(d)
          /\ \A d \in 0 .. i - 1 : Whole(d)'
          /\ InFirstLoop' /\ InGenFiles' /\ InCopy'
        BY <1>1, <2>1, <2>4, LastLoopKept, FilesKept
    <2>6. \A d \in Nodes : d = i => Whole(d)'
        <3>1. \A d \in Nodes : d = i => genesis'[d] = Canonical /\ Clean(d)'
            BY <1>3, <2>4, <2>5
        <3>2. \A d \in Nodes : d = i => Configured(d)'
            BY <1>1, <1>3, <2>1, SameRun DEF Configured
        <3> QED  BY <2>1, <3>1, <3>2, SameRun DEF Whole, Canonical
    <2>7. \A d \in 0 .. i' - 1 : Whole(d)'
        <3>1. \A d \in 0 .. i' - 1 : d \in Nodes /\ (d = i \/ d \in 0 .. i - 1)
            BY <1>2, <2>1 DEF Nodes
        <3> QED  BY <2>5, <2>6, <3>1
    <2>8. \A d \in i + 1 .. args.n - 1 : genesis'[d] = InitialGenesis(d)
        BY <1>1, <1>2, <1>3, <2>4, InLastLoopFacts
    <2>9. InLastLoop'
        <3>1. \A d \in i' + 1 .. args'.n - 1 : genesis'[d] = InitialGenesis(d)'
            BY <1>2, <2>1, <2>5, <2>8
        <3>2. i' < args.n => \A d \in {i'} : genesis'[d] = InitialGenesis(d)'
            <4>1. i' < args.n => i' \in i + 1 .. args.n - 1
                BY <1>1, <1>2, <2>1, InLastLoopFacts
            <4> QED  BY <2>5, <2>8, <4>1
        <3> QED  BY <2>1, <2>5, <2>7, <3>1, <3>2, SameRun DEF InLastLoop, HasNode, InitialGenesis
    <2>10. \A d \in Ours : genesis'[d].run = run /\ (genesis'[d].canonical => genesis'[d].txs = AllTxs)
        <3>1. \A d \in 0 .. i - 1 : genesis'[d].run = run /\ genesis'[d].txs = AllTxs
            BY <2>1, <2>5, SameRun DEF Whole
        <3>2. genesis'[i].run = run /\ genesis'[i].txs = AllTxs
            BY <2>4 DEF Canonical
        <3>3. \A d : InitialGenesis(d).run = run /\ ~InitialGenesis(d).canonical
            BY <1>2, FreshGenesis DEF InitialGenesis
        <3>4. \A d \in i + 1 .. args.n - 1 : genesis'[d].run = run /\ ~genesis'[d].canonical
            BY <2>8, <3>3
        <3> QED  BY <1>1, <3>1, <3>2, <3>4, InLastLoopFacts
    <2>11. OneChain' /\ CanonicalIsWhole'
        BY <2>1, <2>10, GenesisOfRun
    <2>12. NotLater'
        <3>1. \A d \in Nodes : genesis'[d].run =< run
            <4>1. Canonical.run = run /\ run =< run
                BY RunIsRun DEF Canonical
            <4> QED  BY <2>4, <4>1 DEF IInv, NotLater
        <3> QED  BY <1>1, <2>1, <3>1 DEF IInv, NotLater
    <2> QED  BY <1>1, <1>2, <2>1, <2>5, <2>9, <2>11, <2>12, MoveHolds DEF Phases
<1>5. CASE Fault /\ \E file \in Spoilt(genesis[i]) : genesis' = [genesis EXCEPT ![i] = file]
    BY <1>1, <1>2, <1>5, GenesisFaultHolds, FilesKept
<1> QED  BY <1>4, <1>5 DEF ExportCanonical
----------------------------------------------------------------------------
(* Ends of the loops, and of runs.                                         *)
LEMMA EndOfLoopHolds ==
    ASSUME IInv, EndOfLoop
    PROVE  IInv'
<1>1. UNCHANGED <<nodeConfig, keyring, seed, gentxs, appToml, genesis, configToml, orphans>>
    BY DEF EndOfLoop, tree
<1>2. pc # "idle"
    BY DEF EndOfLoop
<1>3. /\ args.n \in Nat /\ i \in Nat /\ j \in Nat /\ i =< args.n /\ j =< args.n
      /\ Ours \subseteq Nodes /\ run \in Nat /\ nodeConfig' \in Configs
    BY <1>1, <1>2, OursAreNodes, RunIsRun DEF IInv, TypeOK
<1>4. ASSUME UNCHANGED <<args, run>>
      PROVE  FilesOK' /\ NotLater' /\ OneChain' /\ CanonicalIsWhole'
    <2>1. OneChain' /\ CanonicalIsWhole'
        BY <1>1, <1>2, <1>4, GenesisKept
    <2>2. NotLater'
        BY <1>1, <1>4 DEF IInv, NotLater
    <2>3. FilesOK'
        BY <1>1, FilesKept DEF FilesOK, TxFile, AppFile, GenesisFile
    <2> QED  BY <2>1, <2>2, <2>3
<1>5. ASSUME UNCHANGED <<args, run>>
      PROVE  /\ \A k : /\ Keyed(k)' = Keyed(k) /\ Signed(k)' = Signed(k) /\ Served(k)' = Served(k)
                       /\ InitialGenesis(k)' = InitialGenesis(k)
             /\ Ours' = Ours
    BY <1>1, <1>5, SameRun DEF Keyed, Signed, Served, InitialGenesis
<1>6. \A d, k \in Nodes : gentxs'[d][k].run = run => k \in Ours
    BY <1>1, <1>2 DEF IInv, InRun
<1>7. /\ \A m : m \in 0 .. args.n - 1 <=> m \in Ours
      /\ 0 \in 0 .. args.n /\ \A m : m \notin 0 .. 0 - 1
    BY <1>3 DEF Ours
<1>8. CASE pc = "mkdir" /\ ~HasNode(i) /\ Loop("genfiles")
    <2>1. pc' = "genfiles" /\ i' = 0 /\ j' = 0 /\ UNCHANGED <<args, run, outcome, faulted>>
        BY <1>8 DEF Loop
    <2>2. i = args.n
        BY <1>3, <1>8 DEF HasNode
    <2>3. /\ \A k \in 0 .. args.n - 1 : Keyed(k) /\ Signed(k) /\ Served(k)
          /\ \A d \in Nodes : genesis[d].run < run
        BY <1>8, <2>2 DEF IInv, InFirstLoop, FirstLoop
    <2>4. AfterFirstLoop'
        BY <1>5, <1>7, <2>1, <2>3 DEF AfterFirstLoop
    <2>5. InGenFiles'
        <3>1. \A d \in Nodes : genesis'[d].run # run
            <4>1. \A d \in Nodes : genesis[d].run \in Int
                BY FilesKept DEF GenesisFile, Runs, Torn
            <4> QED  BY <1>1, <1>3, <2>3, <4>1
        <3> QED  BY <1>7, <2>1, <3>1 DEF InGenFiles
    <2>6. InFirstLoop' /\ InCopy' /\ InLastLoop'
        BY <2>1 DEF InFirstLoop, InCopy, InLastLoop, FirstLoop, LastLoop
    <2> QED  BY <1>2, <1>3, <1>4, <1>6, <1>7, <1>8, <2>1, <2>4, <2>5, <2>6, MoveHolds DEF Phases
<1>9. CASE pc = "genfiles" /\ ~HasNode(i) /\ Loop("copy")
    <2>1. pc' = "copy" /\ i' = 0 /\ j' = 0 /\ UNCHANGED <<args, run, outcome, faulted>>
        BY <1>9 DEF Loop
    <2>2. i = args.n
        BY <1>3, <1>9 DEF HasNode
    <2>3. \A k \in Ours : Keyed(k) /\ Signed(k) /\ Served(k)
        BY <1>9 DEF IInv, AfterFirstLoop
    <2>4. AfterFirstLoop'
        BY <1>5, <2>1, <2>3 DEF AfterFirstLoop
    <2>5. \A d \in Ours : genesis[d] = InitialGenesis(d)
        BY <1>3, <1>7, <1>9, <2>2 DEF IInv, InGenFiles
    <2>6. InCopy'
        BY <1>1, <1>5, <1>7, <2>1, <2>5 DEF InCopy
    <2>7. InFirstLoop' /\ InGenFiles' /\ InLastLoop'
        BY <2>1 DEF InFirstLoop, InGenFiles, InLastLoop, FirstLoop, LastLoop
    <2> QED  BY <1>2, <1>3, <1>4, <1>6, <1>7, <1>9, <2>1, <2>4, <2>6, <2>7, MoveHolds DEF Phases
<1>10. CASE ~faulted /\ pc = "copy" /\ HasNode(i) /\ ~HasNode(j) /\ NextNode("copy")
    <2>1. pc' = "copy" /\ i' = i + 1 /\ j' = 0 /\ UNCHANGED <<args, run, outcome, faulted>>
        BY <1>10 DEF NextNode
    <2>2. j = args.n /\ i + 1 \in 0 .. args.n
        BY <1>3, <1>10 DEF HasNode
    <2>3. \A k \in Ours : Keyed(k) /\ Signed(k) /\ Served(k)
        BY <1>10 DEF IInv, AfterFirstLoop
    <2>4. AfterFirstLoop'
        BY <1>5, <2>1, <2>3 DEF AfterFirstLoop
    <2>5. /\ \A d \in Ours : genesis[d] = InitialGenesis(d)
          /\ \A d \in 0 .. i - 1, k \in Ours : gentxs[d][k] = Tx(k)
          /\ \A k \in Ours : gentxs[i][k] = Tx(k)
        BY <1>7, <1>10, <2>2 DEF IInv, InCopy
    <2>6. \A d \in 0 .. i' - 1, k \in Ours : gentxs'[d][k] = Tx(k)
        <3>1. \A d \in 0 .. i' - 1 : d = i \/ d \in 0 .. i - 1
            BY <1>3, <2>1
        <3> QED  BY <1>1, <2>5, <3>1
    <2>7. InCopy'
        BY <1>1, <1>5, <1>7, <2>1, <2>5, <2>6, SameRun DEF InCopy
    <2>8. InFirstLoop' /\ InGenFiles' /\ InLastLoop'
        BY <2>1 DEF InFirstLoop, InGenFiles, InLastLoop, FirstLoop, LastLoop
    <2> QED  BY <1>2, <1>3, <1>4, <1>6, <1>7, <1>10, <2>1, <2>2, <2>4, <2>7, <2>8, MoveHolds DEF Phases
<1>11. CASE ~faulted /\ pc = "copy" /\ ~HasNode(i) /\ Loop("collect")
    <2>1. pc' = "collect" /\ i' = 0 /\ j' = 0 /\ UNCHANGED <<args, run, outcome, faulted>>
        BY <1>11 DEF Loop
    <2>2. i = args.n
        BY <1>3, <1>11 DEF HasNode
    <2>3. \A k \in Ours : Keyed(k) /\ Signed(k) /\ Served(k)
        BY <1>11 DEF IInv, AfterFirstLoop
    <2>4. AfterFirstLoop'
        BY <1>5, <2>1, <2>3 DEF AfterFirstLoop
    <2>5. /\ \A d \in Ours : genesis[d] = InitialGenesis(d)
          /\ \A d, k \in Ours : gentxs[d][k] = Tx(k)
        BY <1>7, <1>11, <2>2 DEF IInv, InCopy
    <2>6. InLastLoop'
        <3>1. \A d \in 0 + 1 .. args.n - 1 : d \in Ours
            BY <1>3 DEF Ours
        <3>2. 0 < args.n => 0 \in Ours
            BY <1>3 DEF Ours
        <3>3. \A d \in Ours : genesis'[d] = InitialGenesis(d)'
            BY <1>1, <1>5, <2>1, <2>5
        <3>4. \A d, k \in Ours' : gentxs'[d][k] = Tx(k)'
            BY <1>1, <2>1, <2>5, SameRun
        <3>5. HasNode(i)' => genesis'[i'] = InitialGenesis(i)'
            BY <2>1, <3>2, <3>3 DEF HasNode, InitialGenesis
        <3> QED  BY <1>7, <2>1, <3>1, <3>3, <3>4, <3>5 DEF InLastLoop
    <2>7. InFirstLoop' /\ InGenFiles' /\ InCopy'
        BY <2>1 DEF InFirstLoop, InGenFiles, InCopy, FirstLoop, LastLoop
    <2> QED  BY <1>2, <1>3, <1>4, <1>6, <1>7, <1>11, <2>1, <2>4, <2>6, <2>7, MoveHolds DEF Phases
<1>12. CASE ~faulted /\ pc = "collect" /\ ~HasNode(i) /\ End("ok", FALSE)
    <2>1. pc' = "idle" /\ outcome' = "ok" /\ UNCHANGED <<args, run>>
        BY <1>12 DEF End
    <2>2. FilesOK' /\ NotLater' /\ OneChain' /\ CanonicalIsWhole'
        BY <1>4, <2>1
    <2>3. TypeOK'
        BY <1>3, <1>12, <2>2, EndControl, TypeParts DEF TypeOK, ControlOK, FilesOK
    <2>4. i = args.n
        BY <1>3, <1>12 DEF HasNode
    <2>5. \A d \in Ours : Whole(d) /\ Keyed(d) /\ Served(d)
        BY <1>7, <1>12, <2>4 DEF IInv, InLastLoop, AfterFirstLoop, LastLoop
    <2>6. Succeeded'
        <3>1. \A d \in Ours : Configured(d)' = Configured(d) /\ Clean(d)' = Clean(d)
            BY <1>1, <2>1, SameRun DEF Configured, Clean, Present
        <3>2. \A d \in Ours : Whole(d)'
            BY <1>1, <2>1, <2>5, <3>1, SameRun DEF Whole
        <3> QED  BY <1>5, <2>1, <2>5, <3>2 DEF Succeeded
    <2>7. /\ InRun' /\ InFirstLoop' /\ AfterFirstLoop' /\ InGenFiles' /\ InCopy' /\ InLastLoop'
          /\ ErrorExplained'
        BY <2>1 DEF InRun, InFirstLoop, AfterFirstLoop, InGenFiles, InCopy, InLastLoop,
                    FirstLoop, LastLoop, ErrorExplained
    <2> QED  BY <2>2, <2>3, <2>6, <2>7 DEF IInv
<1>13. CASE faulted /\ pc = "copy"
    <2>1. args.n > 0 /\ faulted = TRUE
        BY <1>13 DEF IInv, InRun, TypeOK
    <2>2. CASE HasNode(i) /\ NextNode("copy")
        <3>1. i + 1 \in 0 .. args.n
            BY <1>3, <2>2 DEF HasNode
        <3> QED  BY <1>1, <1>7, <1>13, <2>1, <2>2, <3>1, LostHolds DEF NextNode, tree
    <2>3. CASE Loop("collect")
        BY <1>1, <1>7, <1>13, <2>1, <2>3, LostHolds DEF Loop, tree
    <2> QED  BY <1>13, <2>2, <2>3 DEF EndOfLoop
<1>14. pc = "collect" /\ ~HasNode(i) => ~faulted
    BY DEF IInv, InRun, HasNode
<1> QED  BY <1>8, <1>9, <1>10, <1>11, <1>12, <1>13, <1>14 DEF EndOfLoop
LEMMA InvokeHolds ==
    ASSUME IInv, Invoke
    PROVE  IInv'
<1>1. /\ run' = run + 1 /\ run < MaxRuns /\ i' = 0 /\ j' = 0 /\ faulted' = FALSE
      /\ nodeConfig' = DefaultConfig
      /\ UNCHANGED <<keyring, seed, gentxs, appToml, genesis, configToml, orphans>>
    BY DEF Invoke, tree
<1>2. PICK n \in Counts, stakes \in StakeLists, ports \in PortLists, minGas \in GasPrices :
          args' = [n |-> n, stakes |-> stakes, ports |-> ports, minGas |-> minGas]
    BY DEF Invoke
<1>3. /\ \/ pc' = "idle" /\ outcome' = "died" /\ Dies(args')
         \/ pc' = "mkdir" /\ outcome' = "none" /\ ~Dies(args')
    BY DEF Invoke
<1>4. run \in Nat /\ run' \in Nat /\ run' > run /\ run' > 0 /\ run' \in 0 .. MaxRuns
    BY <1>1, RunIsRun DEF IInv, TypeOK
<1>5. FilesOK'
    BY <1>1, FilesKept DEF FilesOK, TxFile, AppFile, GenesisFile
<1>6. /\ \A d \in Nodes : genesis'[d].run \in Int /\ genesis'[d].run < run'
      /\ \A d, k \in Nodes : gentxs'[d][k].run \in Int /\ gentxs'[d][k].run < run'
    <2>1. /\ \A d \in Nodes : genesis[d].run \in Int /\ genesis[d].run =< run
          /\ \A d, k \in Nodes : gentxs[d][k].run \in Int /\ gentxs[d][k].run =< run
        BY FilesKept DEF IInv, NotLater, GenesisFile, TxFile, Runs, Torn
    <2> QED  BY <1>1, <1>4, <2>1
<1>7. args'.n \in Int /\ args'.n =< MaxNodes
    BY <1>2
<1>8. TypeOK'
    <2>1. args' \in [n : Counts \cup {0}, stakes : StakeLists \cup {<<>>},
                     ports : PortLists \cup {<<>>}, minGas : GasPrices]
        BY <1>2
    <2>2. pc' # "idle" => i' \in 0 .. args'.n /\ j' \in 0 .. args'.n
        BY <1>1, <1>3, <1>7 DEF Dies
    <2>3. pc' \in Phases /\ outcome' \in {"none", "ok", "error", "died"}
        BY <1>3 DEF Phases
    <2>4. nodeConfig' \in Configs
        BY <1>1, RunIsRun DEF DefaultConfig, Configs
    <2>5. faulted' \in BOOLEAN
        BY <1>1
    <2> QED  BY <1>4, <1>5, <2>1, <2>2, <2>3, <2>4, <2>5, TypeParts DEF TypeOK, ControlOK, FilesOK
<1>9. NotLater'
    BY <1>4, <1>6 DEF NotLater
<1>10. InRun'
    <2>1. pc' # "idle" => args'.n \in 0 .. MaxNodes
        BY <1>3, <1>7 DEF Dies
    <2>2. pc' # "idle" => pc' = "mkdir" /\ outcome' = "none" /\ ~faulted'
        BY <1>1, <1>3
    <2>3. \A d, k \in Nodes : gentxs'[d][k].run # run'
        BY <1>4, <1>6
    <2> QED  BY <1>4, <2>1, <2>2, <2>3 DEF InRun
<1>11. InFirstLoop'
    BY <1>1, <1>3, <1>6 DEF InFirstLoop, FirstLoop
<1>12. AfterFirstLoop' /\ InGenFiles' /\ InCopy' /\ InLastLoop' /\ Succeeded' /\ ErrorExplained'
    BY <1>3 DEF AfterFirstLoop, InGenFiles, InCopy, InLastLoop, LastLoop, Succeeded, ErrorExplained
<1>13. OneChain' /\ CanonicalIsWhole'
    <2>1. \A d \in Ours' : d \in Nodes
        BY <1>7 DEF Ours, Nodes
    <2>2. \A d \in Ours' : genesis'[d].run # run'
        BY <1>4, <1>6, <2>1
    <2> QED  BY <2>2 DEF OneChain, CanonicalIsWhole
<1> QED  BY <1>8, <1>9, <1>10, <1>11, <1>12, <1>13 DEF IInv

LEMMA StutterHolds ==
    ASSUME IInv, UNCHANGED vars
    PROVE  IInv'
<1>1. UNCHANGED <<pc, i, j, args, run, outcome, faulted, nodeConfig, keyring, seed, gentxs, appToml,
                  genesis, configToml, orphans>>
    BY DEF vars, control, tree
<1>2. TypeOK' /\ NotLater' /\ InRun'
    BY <1>1, SameRun DEF IInv, TypeOK, NotLater, InRun
<1>3. \A k : /\ Keyed(k)' = Keyed(k) /\ Signed(k)' = Signed(k) /\ Served(k)' = Served(k)
             /\ InitialGenesis(k)' = InitialGenesis(k) /\ HasNode(k)' = HasNode(k)
    BY <1>1, SameRun DEF Keyed, Signed, Served, InitialGenesis, HasNode
<1>4. \A k : Configured(k)' = Configured(k) /\ Clean(k)' = Clean(k)
    BY <1>1, SameRun DEF Configured, Clean, Present
<1>5. \A k : Whole(k)' = Whole(k)
    BY <1>1, <1>4, SameRun DEF Whole
<1>6. InFirstLoop' /\ AfterFirstLoop' /\ InGenFiles'
    BY <1>1, <1>3, SameRun DEF IInv, InFirstLoop, AfterFirstLoop, InGenFiles
<1>7. InCopy' /\ InLastLoop'
    BY <1>1, <1>3, <1>4, <1>5, SameRun DEF IInv, InCopy, InLastLoop, HasNode, InitialGenesis, Configured,
                                           Clean, Present
<1>8. Succeeded' /\ OneChain' /\ CanonicalIsWhole'
    BY <1>1, <1>3, <1>5, SameRun DEF IInv, Succeeded, OneChain, CanonicalIsWhole
<1>9. ErrorExplained'
    BY <1>1, SameRun DEF IInv, ErrorExplained, Overstaked, Leftover
<1> QED  BY <1>2, <1>6, <1>7, <1>8, <1>9 DEF IInv

LEMMA NextHolds ==
    ASSUME IInv, [Next]_vars
    PROVE  IInv'
<1>1. nodeConfig \in Configs
    BY DEF IInv, TypeOK
<1>2. CASE Invoke
    BY <1>2, InvokeHolds
<1>3. CASE MakeNodeDir
    BY <1>3, MakeNodeDirHolds
<1>4. CASE SaveKey
    BY <1>4, SaveKeyHolds
<1>5. CASE WriteGentx
    BY <1>5, WriteGentxHolds
<1>6. CASE WriteAppToml
    BY <1>6, WriteAppTomlHolds
<1>7. CASE InitGenFile
    BY <1>7, InitGenFileHolds
<1>8. CASE CopyGentx
    BY <1>8, CopyGentxHolds
<1>16. CASE SkipGentx
    BY <1>16, SkipGentxHolds
<1>9. CASE Collect
    BY <1>9, CollectHolds
<1>10. CASE CollectFails
    BY <1>1, <1>10, StopHolds DEF CollectFails, Fault
<1>11. CASE WriteConfigToml
    BY <1>11, WriteConfigTomlHolds
<1>12. CASE ExportCanonical
    BY <1>12, ExportCanonicalHolds
<1>13. CASE EndOfLoop
    BY <1>13, EndOfLoopHolds
<1>14. CASE Kill
    BY <1>1, <1>14, StopHolds DEF Kill
<1>15. CASE UNCHANGED vars
    BY <1>15, StutterHolds
<1> QED  BY <1>2, <1>3, <1>4, <1>5, <1>6, <1>7, <1>8, <1>9, <1>10, <1>11, <1>12, <1>13, <1>14, <1>15, <1>16
         DEF Next, Step, NoMoreRuns

\* The inductive invariant holds in every reachable state.
LEMMA Invariance == Spec => []IInv
<1>1. Init => IInv
    BY InitHolds
<1>2. IInv /\ [Next]_vars => IInv'
    BY NextHolds
<1> QED  BY <1>1, <1>2, PTL DEF Spec
----------------------------------------------------------------------------
(* The theorems.                                                           *)

(* The files of all nodes are what the command writes, whatever runs came  *)
(* before and wherever they were cut short, and no loop passes its node.   *)
THEOREM TypeCorrect == Spec => []TypeOK
<1>1. IInv => TypeOK
    BY DEF IInv
<1> QED  BY <1>1, Invariance, PTL

(* Two nodes of a run never have genesis files of different runs that both *)
(* have validators (initGenFiles before collectGenFiles, :342-352).        *)
THEOREM NoTwoChains == Spec => []OneChain
<1>1. IInv => OneChain
    BY DEF IInv
<1> QED  BY <1>1, Invariance, PTL

(* A canonical genesis holds the gentx of every node of the run, and after *)
(* a success every node has it (:514-554).                                 *)
THEOREM CanonicalIsComplete == Spec => []GenesisComplete
<1>1. IInv => GenesisComplete
    <2> SUFFICES ASSUME IInv, NEW d \in Ours
                 PROVE  /\ genesis[d].canonical /\ genesis[d].run = run => genesis[d].txs = AllTxs
                        /\ outcome = "ok" => genesis[d].canonical /\ genesis[d].run = run
        BY DEF GenesisComplete, AllTxs
    <2> QED  BY DEF IInv, CanonicalIsWhole, Succeeded, Whole
<1> QED  BY <1>1, Invariance, PTL

(* The keys of the validators of a finished testnet are in the keyrings of *)
(* their nodes and restored by their key_seed.json (:232-252).             *)
THEOREM ValidatorsHaveKeys == Spec => []OperatorsHaveKeys
<1>1. IInv => OperatorsHaveKeys
    <2> SUFFICES ASSUME IInv, outcome = "ok", NEW d \in Ours, NEW tx \in genesis[d].txs
                 PROVE  keyring[tx[1]] = tx[2] /\ seed[tx[1]] = tx[2]
        BY DEF OperatorsHaveKeys
    <2>1. genesis[d].txs = AllTxs /\ \A k \in Ours : Keyed(k)
        BY DEF IInv, Succeeded, Whole
    <2>2. PICK k \in Ours : tx = <<k, run>>
        BY <2>1 DEF AllTxs
    <2> QED  BY <2>1, <2>2 DEF Keyed
<1> QED  BY <1>1, Invariance, PTL

(* A run that meets no fault fails for an overstaked validator or a gentx  *)
(* left in a directory, and for nothing else; one that met either never    *)
(* succeeds.                                                               *)
THEOREM ErrorsExplained == Spec => []SuccessExplained
<1>1. IInv => SuccessExplained
    <2> SUFFICES ASSUME IInv, outcome = "ok"
                 PROVE  ~Overstaked /\ ~Leftover
        BY DEF SuccessExplained, IInv, ErrorExplained
    <2>1. \A d \in Ours : Clean(d)
        BY DEF IInv, Succeeded, Whole
    <2>2. ~Overstaked
        <3>1. \A k \in Ours : Stake(k) =< Balance
            BY <2>1 DEF Clean
        <3>2. \A k \in Ours : Stake(k) \in Int
            BY StakeType
        <3> QED  BY <3>1, <3>2 DEF Overstaked
    <2>3. ~Leftover
        BY <2>1 DEF Leftover, Clean, Present
    <2> QED  BY <2>2, <2>3
<1> QED  BY <1>1, Invariance, PTL

(* After a success every node is told of every node of the run at the port *)
(* where that one listens (:254, :449).                                    *)
THEOREM AllPeersReachable == Spec => []PeersReachable
<1>1. IInv => PeersReachable
    <2> SUFFICES ASSUME IInv, outcome = "ok", NEW d \in Ours, NEW e \in Ours
                 PROVE  \E p \in configToml[d].peers : p.node = e /\ p.port = configToml[e].p2p
        BY DEF PeersReachable
    <2>1. configToml[d].peers = PersistentPeers /\ configToml[e].p2p = P2PPort(e)
        BY DEF IInv, Succeeded, Whole, Configured
    <2>2. Memo(e) \in configToml[d].peers
        BY <2>1 DEF PersistentPeers
    <2>3. Memo(e).node = e /\ Memo(e).port = P2PPort(e)
        BY DEF Memo, P2PPort
    <2> QED  BY <2>1, <2>2, <2>3
<1> QED  BY <1>1, Invariance, PTL

\* The number of nodes is bounded in every state.
LEMMA FewNodes ==
    ASSUME IInv
    PROVE  args.n \in Int /\ args.n =< MaxNodes
<1>1. \A n \in Counts \cup {0} : n \in Int /\ n =< MaxNodes
    OBVIOUS
<1>2. args.n \in Counts \cup {0}
    BY DEF IInv, TypeOK
<1> QED  BY <1>1, <1>2

\* With one node more, the P2P port of node 5856 is the gRPC port of node 1.
LEMMA PortsCollide == P2PPort(5856) = GrpcPort(1)
BY DEF P2PPort, GrpcPort

(* No two listeners of a testnet of up to 5856 nodes share a port.         *)
THEOREM PortsApart ==
    ASSUME MaxNodes =< 5856
    PROVE  Spec => []ListenersApart
<1>1. IInv => ListenersApart
    <2> SUFFICES ASSUME IInv, outcome = "ok", args.ports = <<>>, NEW d \in Ours, NEW e \in Ours,
                        NEW a \in DOMAIN Listener(d), NEW b \in DOMAIN Listener(d),
                        Listener(d)[a] = Listener(e)[b]
                 PROVE  d = e /\ a = b
        BY DEF ListenersApart
    <2>1. d \in Nat /\ e \in Nat /\ d < 5856 /\ e < 5856
        BY FewNodes DEF Ours
    <2>2. \A k \in Ours : Listener(k) = [p2p |-> 26656 - 3 * k, rpc |-> 26657 - 3 * k,
                                         prom |-> 26660 + k, grpc |-> 9090 - 2 * k]
        BY DEF IInv, Succeeded, Whole, Configured, Served, Listener, P2PPort, RpcPort,
               PrometheusPort, GrpcPort
    <2>3. a \in {"p2p", "rpc", "prom", "grpc"} /\ b \in {"p2p", "rpc", "prom", "grpc"}
        BY DEF Listener
    <2>4. CASE a = "p2p"
        BY <2>1, <2>2, <2>3, <2>4
    <2>5. CASE a = "rpc"
        BY <2>1, <2>2, <2>3, <2>5
    <2>6. CASE a = "prom"
        BY <2>1, <2>2, <2>3, <2>6
    <2>7. CASE a = "grpc"
        BY <2>1, <2>2, <2>3, <2>7
    <2> QED  BY <2>3, <2>4, <2>5, <2>6, <2>7
<1> QED  BY <1>1, Invariance, PTL
=============================================================================
