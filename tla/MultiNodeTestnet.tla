-------------------------- MODULE MultiNodeTestnet --------------------------
(***************************************************************************)
(* cmd/chain-riced/cmd/testnet_multi_node.go: the command multi-node, that *)
(* writes the directories of a testnet's nodes.  It is run again and again *)
(* on one output directory, with other flags, and every file operation can *)
(* fail, so a run meets what earlier runs, whole or cut short, left there. *)
(*                                                                         *)
(* Nodes are numbered from 0 and stand for their directory, their node ID  *)
(* (p2p.LoadOrGenNodeKey keeps it as long as node_key.json exists) and the *)
(* gentx file named after that ID.  The account that a run generates for   *)
(* node j is the pair of j and the run, as is the random chain ID; a file  *)
(* is described by the run that wrote it.  Run 0 has written no file.      *)
(***************************************************************************)
EXTENDS Integers, Sequences, FiniteSets

CONSTANTS
    MaxNodes,     \* bound on the nodes of a testnet
    MaxRuns,      \* bound on the runs of the command
    Counts,       \* values given to --v
    StakeLists,   \* values given to --validators-stake-amount, split at commas
    PortLists,    \* values given to --list-ports, split; <<>> if not given
    GasPrices,    \* values given to --minimum-gas-prices
    DefaultGas,   \* "0.0001stake"
    Malformed,    \* an entry of a stake list that is no integer
    Remainders,   \* what may be left of the files by a removal that fails
    Balance,      \* stake in a generated account: 500 * DefaultPowerReduction
    DefaultStake  \* 100 * DefaultPowerReduction

ASSUME MaxNodesAssumption == MaxNodes \in Nat
ASSUME MaxRunsAssumption == MaxRuns \in Nat
ASSUME CountsAssumption == Counts \subseteq Int /\ \A n \in Counts : n =< MaxNodes
ASSUME StakeListsAssumption == StakeLists \subseteq Seq(Int \cup {Malformed})
ASSUME MalformedAssumption == Malformed \notin Int
ASSUME PortListsAssumption == PortLists \subseteq Seq(Nat \ {0})
ASSUME DefaultGasAssumption == DefaultGas \in GasPrices
ASSUME RemaindersAssumption == {} \in Remainders
ASSUME AmountsAssumption == Balance \in Nat /\ DefaultStake \in Nat

VARIABLES
    pc,          \* the statement that runs next; "idle": no run
    i,           \* node of the current loop
    j,           \* node whose gentx file is copied next
    args,        \* initArgs: n, stakes, ports, minGas
    run,         \* runs so far
    outcome,     \* how the last run ended: "ok", "error", "died"
    faulted,     \* history: an operation of this run failed
    nodeConfig,  \* the CometBFT configuration, one object for all nodes
    keyring,     \* run that generated the operator key in a node's keyring
    seed,        \* run that wrote key_seed.json
    gentxs,      \* gentxs[d][k]: the gentx file of node k in directory d
    orphans,     \* directories with a gentx file of a node ID that is gone
    appToml,     \* config/app.toml
    genesis,     \* config/genesis.json
    configToml   \* config/config.toml

control == <<pc, i, j, args, run, outcome, faulted>>
tree == <<keyring, seed, gentxs, appToml, genesis, configToml, orphans>>
vars == <<control, nodeConfig, tree>>

Nodes == 0 .. MaxNodes - 1
Ours == 0 .. args.n - 1
Phases == {"idle", "mkdir", "key", "gentx", "apptoml", "genfiles", "copy",
           "collect", "config", "canonical"}

(* What may be in a file.  A write that fails halfway leaves it torn.      *)
Torn == -1
Runs == Torn .. MaxRuns

NoTx == [run |-> 0, stake |-> 0]
NoApp == [run |-> 0, grpc |-> 0, minGas |-> DefaultGas]
NoGenesis == [run |-> 0, txs |-> {}, canonical |-> FALSE]
DefaultConfig == [run |-> 0, moniker |-> -1, rpc |-> 26657, p2p |-> 26656,
                  prom |-> 26660, peers |-> {}]

Spoilt(file) == {file, [file EXCEPT !.run = Torn]}

----------------------------------------------------------------------------
(* Parsing of the flags.                                                   *)
Parsing(list) == {m \in DOMAIN list : list[m] # Malformed}

(* What top is at an entry: how many before it have parsed.                *)
Top(list, m) == Cardinality({x \in Parsing(list) : x < m})

(* Stake of the validator of node k.                                       *)
Stake(k) ==
    LET own == {m \in Parsing(args.stakes) : Top(args.stakes, m) = k}
    IN  IF own = {} THEN DefaultStake ELSE args.stakes[CHOOSE m \in own : TRUE]

NoPort == 0  \* the empty string: a list too short for the nodes

RpcPort(k) ==
    IF args.ports = <<>> THEN 26657 - 3 * k
    ELSE IF k < Len(args.ports) THEN args.ports[k + 1] ELSE NoPort

\* Mutant: the step of the P2P ports is two.
MutP2PPort(k) == 26656 - 2 * k
P2PPort(k) == 26656 - 3 * k

PrometheusPort(k) == 26660 + k
GrpcPort(k) == 9090 - 2 * k

\* Mutant: the advertised ports go up.
MutMemo(k) == [node |-> k, port |-> 26656 + 3 * k]

(* The memo of a gentx is the node's address for its peers; the host is    *)
(* --starting-ip-address for every node.                                   *)
Memo(k) == [node |-> k, port |-> 26656 - 3 * k]

PersistentPeers == {Memo(k) : k \in Ours}

----------------------------------------------------------------------------
(* Initial states: an empty output directory, the command not yet run.     *)
Init ==
    /\ pc = "idle" /\ i = 0 /\ j = 0
    /\ args = [n |-> 0, stakes |-> <<>>, ports |-> <<>>, minGas |-> DefaultGas]
    /\ run = 0 /\ outcome = "ok" /\ faulted = FALSE
    /\ nodeConfig = DefaultConfig
    /\ keyring = [d \in Nodes |-> 0]
    /\ seed = [d \in Nodes |-> 0]
    /\ gentxs = [d \in Nodes |-> [k \in Nodes |-> NoTx]]
    /\ orphans = {}
    /\ appToml = [d \in Nodes |-> NoApp]
    /\ genesis = [d \in Nodes |-> NoGenesis]
    /\ configToml = [d \in Nodes |-> DefaultConfig]
----------------------------------------------------------------------------
(* Flow of control.                                                        *)
Goto(phase) == pc' = phase /\ UNCHANGED <<i, j, args, run, outcome, faulted>>

Loop(phase) == pc' = phase /\ i' = 0 /\ j' = 0 /\ UNCHANGED <<args, run, outcome, faulted>>

NextNode(phase) ==
    pc' = phase /\ i' = i + 1 /\ j' = 0 /\ UNCHANGED <<args, run, outcome, faulted>>

(* The run ends; only a fault ends it by an error that others do not meet. *)
End(how, fault) ==
    /\ pc' = "idle" /\ outcome' = how /\ faulted' = fault
    /\ i' = 0 /\ j' = 0 /\ UNCHANGED <<args, run>>

Fault == End("error", TRUE)

\* Mutant: the loops over the nodes take one turn too many.
MutHasNode(k) == k =< args.n
HasNode(k) == k < args.n

(* os.RemoveAll(outputDir), its own error ignored: it removes what it can, *)
(* of earlier runs too, and leaves the files of left, each the triple of   *)
(* its directory, its kind and the node it is about.  The keys are the     *)
(* ones there were.  A node without its node_key.json gets another ID, and *)
(* the gentx files named after the old one are never written again.        *)
Remaining(left, kind, files, none) ==
    [d \in Nodes |-> IF <<d, kind, d>> \in left THEN files[d] ELSE none]

Orphaned(left, d) ==
    \/ d \in orphans /\ <<d, "orphan", d>> \in left
    \/ \E k \in Nodes : gentxs[d][k] # NoTx /\ <<d, "gentx", k>> \in left /\ <<k, "id", k>> \notin left

RemoveAll(keys) ==
    \E left \in Remainders :
        /\ keyring' = Remaining(left, "keyring", keys, 0)
        /\ seed' = Remaining(left, "seed", seed, 0)
        /\ gentxs' = [d \in Nodes |-> [k \in Nodes |->
                         IF {<<d, "gentx", k>>, <<k, "id", k>>} \subseteq left
                         THEN gentxs[d][k] ELSE NoTx]]
        /\ orphans' = {d \in Nodes : Orphaned(left, d)}
        /\ appToml' = Remaining(left, "app", appToml, NoApp)
        /\ genesis' = Remaining(left, "genesis", genesis, NoGenesis)
        /\ configToml' = Remaining(left, "config", configToml, DefaultConfig)

----------------------------------------------------------------------------
(* RunE: a negative stake panics in sdk.NewCoin, a negative number of      *)
(* nodes in make, both before anything is written.                         *)
Dies(a) == a.n < 0 \/ \E m \in Parsing(a.stakes) : a.stakes[m] < 0

Invoke ==
    /\ pc = "idle" /\ run < MaxRuns
    /\ \E n \in Counts, stakes \in StakeLists, ports \in PortLists, minGas \in GasPrices :
          args' = [n |-> n, stakes |-> stakes, ports |-> ports, minGas |-> minGas]
    /\ run' = run + 1
    /\ i' = 0 /\ j' = 0 /\ faulted' = FALSE
    /\ IF Dies(args') THEN pc' = "idle" /\ outcome' = "died"
                      ELSE pc' = "mkdir" /\ outcome' = "none"
    /\ nodeConfig' = DefaultConfig
    /\ UNCHANGED tree

(* First loop: the directory and the node's keys, or everything removed.   *)
MakeNodeDir ==
    /\ pc = "mkdir" /\ HasNode(i)
    /\ nodeConfig' = [nodeConfig EXCEPT !.moniker = i, !.rpc = RpcPort(i)]
    /\ \/ Goto("key") /\ UNCHANGED tree
       \/ Fault /\ RemoveAll(keyring)

\* Mutant: an existing key_seed.json is kept.
MutSeedWritten == [seed EXCEPT ![i] = IF @ = 0 THEN run ELSE @]
SeedWritten == [seed EXCEPT ![i] = run]

(* A new operator key replaces the old one in the keyring, and its seed    *)
(* words are saved.                                                        *)
SaveKey ==
    /\ pc = "key"
    /\ \/ /\ Goto("gentx")                       \* all done
          /\ keyring' = [keyring EXCEPT ![i] = run]
          /\ seed' = SeedWritten
          /\ UNCHANGED <<gentxs, appToml, genesis, configToml, orphans>>
       \/ Fault /\ UNCHANGED tree                \* no keyring, or no such algorithm
       \/ Fault /\ RemoveAll(keyring)            \* no key, the old one in place
       \/ Fault /\ RemoveAll([keyring EXCEPT ![i] = 0])  \* ... or deleted
       \/ /\ Fault                               \* no seed file
          /\ keyring' = [keyring EXCEPT ![i] = run]
          /\ seed' \in {seed, [seed EXCEPT ![i] = Torn]}
          /\ UNCHANGED <<gentxs, appToml, genesis, configToml, orphans>>
    /\ UNCHANGED nodeConfig

(* The gentx that creates the validator, signed and written.               *)
WriteGentx ==
    /\ pc = "gentx"
    /\ \/ /\ Goto("apptoml")
          /\ gentxs' = [gentxs EXCEPT ![i][i] = [run |-> run, stake |-> Stake(i)]]
       \/ /\ Fault
          /\ \E file \in Spoilt(gentxs[i][i]) : gentxs' = [gentxs EXCEPT ![i][i] = file]
    /\ UNCHANGED <<nodeConfig, keyring, seed, appToml, genesis, configToml, orphans>>

(* MinGasPrices is first set from the flag, then to the default, and       *)
(* BaseConfig.MinGasPrices is the same field.                              *)
AppConfig(k) == [run |-> run, grpc |-> GrpcPort(k), minGas |-> DefaultGas]

(* WriteConfigFile panics when it cannot write.                            *)
WriteAppToml ==
    /\ pc = "apptoml"
    /\ \/ /\ NextNode("mkdir")
          /\ appToml' = [appToml EXCEPT ![i] = AppConfig(i)]
       \/ /\ End("died", TRUE)
          /\ \E file \in Spoilt(appToml[i]) : appToml' = [appToml EXCEPT ![i] = file]
    /\ UNCHANGED <<nodeConfig, keyring, seed, gentxs, genesis, configToml, orphans>>

----------------------------------------------------------------------------
\* Mutants: only the first node's file is replaced; an existing one is kept.
MutFirstGenesisOnly(d) == IF d = 0 THEN [NoGenesis EXCEPT !.run = run] ELSE genesis[d]
MutKeepGenesis(d) == IF genesis[d] = NoGenesis THEN [NoGenesis EXCEPT !.run = run] ELSE genesis[d]

(* initGenFiles: the accounts of this run, no gentx yet.                   *)
InitialGenesis(d) == [NoGenesis EXCEPT !.run = run]

InitGenFile ==
    /\ pc = "genfiles" /\ HasNode(i)
    /\ \/ NextNode("genfiles") /\ genesis' = [genesis EXCEPT ![i] = InitialGenesis(i)]
       \/ /\ Fault
          /\ \E file \in Spoilt(genesis[i]) : genesis' = [genesis EXCEPT ![i] = file]
    /\ UNCHANGED <<nodeConfig, keyring, seed, gentxs, appToml, configToml, orphans>>

NextFile == pc' = "copy" /\ j' = j + 1 /\ UNCHANGED <<i, args, run, outcome, faulted>>

\* Mutant: the sense of isSubDir is inverted.
MutIsSubDir(k, d) == k # d

(* isSubDir: is the file that node k wrote below the directory of d?       *)
IsSubDir(k, d) == k = d

CopyGentx ==
    /\ pc = "copy" /\ HasNode(i) /\ HasNode(j) /\ ~faulted
    /\ \/ IsSubDir(j, i) /\ NextFile /\ UNCHANGED gentxs
       \/ ~IsSubDir(j, i) /\ NextFile /\ gentxs' = [gentxs EXCEPT ![i][j] = gentxs[j][j]]
       \/ /\ ~IsSubDir(j, i) /\ Fault
          /\ \E file \in Spoilt(gentxs[i][j]) : gentxs' = [gentxs EXCEPT ![i][j] = file]
    /\ UNCHANGED <<nodeConfig, keyring, seed, appToml, genesis, configToml, orphans>>

(* isSubDir fails when the working directory is gone: the file is skipped, *)
(* without an error, and so are those after it, as the directory does not  *)
(* come back.                                                              *)
SkipGentx ==
    /\ pc = "copy" /\ HasNode(i) /\ HasNode(j)
    /\ pc' = "copy" /\ j' = j + 1 /\ faulted' = TRUE
    /\ UNCHANGED <<i, args, run, outcome, nodeConfig, tree>>

----------------------------------------------------------------------------
(* genutil.GenAppStateFromConfig (external): every file in the directory   *)
(* must be a gentx of an account that the genesis gives enough stake; one  *)
(* of an ID that is gone is of an account of an earlier run.  It           *)
(* writes config.toml with the peers in the other nodes' gentxs, then the  *)
(* genesis.                                                                *)
Present(d) == {k \in Nodes : gentxs[d][k] # NoTx}

Accepted(d) ==
    /\ Present(d) # {} /\ d \notin orphans
    /\ \A k \in Present(d) : gentxs[d][k].run = genesis[d].run /\ gentxs[d][k].stake =< Balance

Transactions(d) == {<<k, gentxs[d][k].run>> : k \in Present(d)}

Collected(d) == [genesis[d] EXCEPT !.txs = Transactions(d)]

OtherPeers(d) == {Memo(k) : k \in Present(d) \ {d}}

(* collectGenFiles, for one node, up to GenAppStateFromConfig.             *)
Collect ==
    /\ pc = "collect" /\ HasNode(i) /\ ~faulted
    /\ IF ~Accepted(i)
       THEN End("error", FALSE) /\ nodeConfig' = [nodeConfig EXCEPT !.moniker = i]
                                /\ UNCHANGED <<configToml, genesis>>
       ELSE /\ nodeConfig' = [nodeConfig EXCEPT !.moniker = i, !.peers = OtherPeers(i)]
            /\ configToml' = [configToml EXCEPT ![i] = [nodeConfig' EXCEPT !.run = run]]
            /\ \/ Goto("config") /\ genesis' = [genesis EXCEPT ![i] = Collected(i)]
               \/ /\ Fault
                  /\ \E file \in Spoilt(genesis[i]) : genesis' = [genesis EXCEPT ![i] = file]
    /\ UNCHANGED <<keyring, seed, gentxs, appToml, orphans>>

(* Collect may also fail before it has written anything; it does, at its   *)
(* first file, when the working directory is gone.                         *)
CollectFails == pc = "collect" /\ HasNode(i) /\ Fault /\ UNCHANGED <<nodeConfig, tree>>

(* The node's own addresses, and all peers, over the shared configuration. *)
NodeAddresses(k) ==
    [nodeConfig EXCEPT !.peers = PersistentPeers, !.p2p = P2PPort(k),
                       !.rpc = RpcPort(k), !.prom = PrometheusPort(k)]

WriteConfigToml ==
    /\ pc = "config"
    /\ nodeConfig' = NodeAddresses(i)
    /\ \/ /\ Goto("canonical")
          /\ configToml' = [configToml EXCEPT ![i] = [NodeAddresses(i) EXCEPT !.run = run]]
       \/ /\ End("died", TRUE)
          /\ \E file \in Spoilt(configToml[i]) : configToml' = [configToml EXCEPT ![i] = file]
    /\ UNCHANGED <<keyring, seed, gentxs, appToml, genesis, orphans>>

(* The canonical genesis: the application state of the first node, which   *)
(* is in its file by then, and one genesis time for all.                   *)
CanonicalGenesis == [run |-> run, txs |-> genesis[0].txs, canonical |-> TRUE]

ExportCanonical ==
    /\ pc = "canonical"
    /\ \/ NextNode("collect") /\ genesis' = [genesis EXCEPT ![i] = CanonicalGenesis]
       \/ /\ Fault
          /\ \E file \in Spoilt(genesis[i]) : genesis' = [genesis EXCEPT ![i] = file]
    /\ UNCHANGED <<nodeConfig, keyring, seed, gentxs, appToml, configToml, orphans>>

----------------------------------------------------------------------------
(* Ends of the loops.                                                      *)
EndOfLoop ==
    /\ \/ pc = "mkdir" /\ ~HasNode(i) /\ Loop("genfiles")
       \/ pc = "genfiles" /\ ~HasNode(i) /\ Loop("copy")
       \/ pc = "copy" /\ HasNode(i) /\ ~HasNode(j) /\ NextNode("copy")
       \/ pc = "copy" /\ ~HasNode(i) /\ Loop("collect")
       \/ pc = "collect" /\ ~HasNode(i) /\ End("ok", FALSE)
    /\ UNCHANGED <<nodeConfig, tree>>

(* The process can be killed between any two steps.                        *)
Kill == pc # "idle" /\ End("died", TRUE) /\ UNCHANGED <<nodeConfig, tree>>

NoMoreRuns == pc = "idle" /\ run = MaxRuns /\ UNCHANGED vars

Step ==
    \/ MakeNodeDir \/ SaveKey \/ WriteGentx \/ WriteAppToml
    \/ InitGenFile \/ CopyGentx \/ SkipGentx \/ Collect \/ CollectFails
    \/ WriteConfigToml \/ ExportCanonical \/ EndOfLoop

Next == Invoke \/ Step \/ Kill \/ NoMoreRuns

Spec == Init /\ [][Next]_vars
----------------------------------------------------------------------------
(* Properties.                                                             *)

Addresses == [node : Nodes, port : Int]

Configs == [run : Runs, moniker : Nodes \cup {-1}, rpc : Int, p2p : Int, prom : Int,
            peers : SUBSET Addresses]

(* The files are what the command writes, and no loop passes its last node.*)
TypeOK ==
    /\ pc \in Phases /\ run \in 0 .. MaxRuns
    /\ pc # "idle" => i \in 0 .. args.n /\ j \in 0 .. args.n
    /\ args \in [n : Counts \cup {0}, stakes : StakeLists \cup {<<>>},
                 ports : PortLists \cup {<<>>}, minGas : GasPrices]
    /\ outcome \in {"none", "ok", "error", "died"} /\ faulted \in BOOLEAN
    /\ nodeConfig \in Configs
    /\ keyring \in [Nodes -> Runs] /\ seed \in [Nodes -> Runs]
    /\ gentxs \in [Nodes -> [Nodes -> [run : Runs, stake : Int]]]
    /\ orphans \in SUBSET Nodes
    /\ appToml \in [Nodes -> [run : Runs, grpc : Int, minGas : GasPrices]]
    /\ genesis \in [Nodes -> [run : Runs, txs : SUBSET (Nodes \X Runs), canonical : BOOLEAN]]
    /\ configToml \in [Nodes -> Configs]

(* No node of a run has a genesis with validators while another node of    *)
(* the run still has a readable genesis of an earlier run, so two nodes    *)
(* never start different chains that both have validators.                 *)
OneChain ==
    \A d, e \in Ours :
        genesis[d].run = run /\ genesis[d].txs # {} => genesis[e].run \in {run, Torn}

(* A canonical genesis of this run has exactly this run's gentxs, and      *)
(* after a success every node has it, whatever earlier runs left behind.   *)
GenesisComplete ==
    \A d \in Ours :
        /\ genesis[d].canonical /\ genesis[d].run = run =>
              genesis[d].txs = {<<k, run>> : k \in Ours}
        /\ outcome = "ok" => genesis[d].canonical /\ genesis[d].run = run

(* After a success the operator key of every genesis validator is the one  *)
(* in its node's keyring and the one that its seed words restore.          *)
OperatorsHaveKeys ==
    outcome = "ok" =>
        \A d \in Ours : \A tx \in genesis[d].txs : keyring[tx[1]] = tx[2] /\ seed[tx[1]] = tx[2]

(* A run without faults succeeds unless a stake is more than an account    *)
(* has, or a directory still has the gentx of a node that it does not set  *)
(* up: fewer validators than before need a fresh output directory, and so  *)
(* does a removal that left a gentx and not the key of its node.           *)
Overstaked == \E k \in Ours : Stake(k) > Balance

Leftover == \E d \in Ours : d \in orphans \/ \E k \in Nodes \ Ours : gentxs[d][k] # NoTx

SuccessExplained ==
    /\ outcome = "ok" => ~Overstaked /\ ~Leftover
    /\ outcome = "error" /\ ~faulted => Overstaked \/ Leftover

(* The nodes of a testnet with default ports can run on one host: no two   *)
(* of the listeners that the command configures (:201, :310, :449-452)     *)
(* share a port.                                                           *)
Listener(d) == [p2p |-> configToml[d].p2p, rpc |-> configToml[d].rpc,
                prom |-> configToml[d].prom, grpc |-> appToml[d].grpc]

ListenersApart ==
    outcome = "ok" /\ args.ports = <<>> =>
        \A d, e \in Ours : \A a, b \in DOMAIN Listener(d) :
            Listener(d)[a] = Listener(e)[b] => d = e /\ a = b

(* Every node is told of every other at a port where that one listens.     *)
PeersReachable ==
    outcome = "ok" =>
        \A d, e \in Ours : \E p \in configToml[d].peers :
            p.node = e /\ p.port = configToml[e].p2p

(* testnet_multi_node.go:104 "If the flag string is invalid, the amount    *)
(* will default to 100000000."                                             *)
InvalidStakeDefaults ==
    \A d \in Ours :
        gentxs[d][d].run = run /\ d < Len(args.stakes) /\ args.stakes[d + 1] = Malformed
            => gentxs[d][d].stake = DefaultStake

(* testnet_multi_node.go:149 "Minimum gas prices to accept for             *)
(* transactions".                                                          *)
MinGasPricesKept == outcome = "ok" => \A d \in Ours : appToml[d].minGas = args.minGas
=============================================================================
