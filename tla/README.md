# Verification of chain-rice

chain-rice is a Cosmos SDK v0.53 application (Go, scaffolded with Ignite): one
binary, `chain-riced`, that wires the SDK's modules, the IBC modules and one
module of its own, `x/chainrice`. Most of its behaviour lives in imported
libraries. What the repository itself programs is the export of a genesis
(`app/export.go`), two commands that make testnets (`cmd/chain-riced/cmd`), the
`chainrice` module with its generated codec, and the wiring. This directory
models that code in TLA+, checks it with TLC and proves theorems about it with
TLAPS.

## 1. The system

| Component | State it keeps | Operations | What is hard about it |
|---|---|---|---|
| Genesis export, `app/export.go` | none of its own; rewrites the distribution, staking and slashing stores in the check state | `ExportAppStateAndValidators`, `prepForZeroHeightGenesis` | nine loops in one order; errors that end the process beside errors that are ignored; reference counts that panic; jailing a validator without its index; an early return |
| In-place testnet, `cmd/testnet.go` | none; rewrites the working stores of a stopped node | `newTestnetApp`, `initAppForTestnet`, `getCommandArgs` | four indexes cleared in turn; uncached writes; exits and kills between statements; reuse of an operator address |
| Multi-node testnet, `cmd/testnet_multi_node.go` | a tree of files: keys, gentxs, genesis, two configurations per node | `initTestnetFiles`, `initGenFiles`, `collectGenFiles`, `copyFile`, `isSubDir` | one configuration object for all nodes; reruns over what earlier runs left; faults at every file; ports by formula |
| chainrice module, `x/chainrice` | `Params`, one item of its store; the authority, fixed at start | `InitGenesis`, `ExportGenesis`, `UpdateParams`, `Params` query | a store that may have no parameters yet; authority given as a string |
| Generated codec, `x/chainrice/types/*.pb.go` | none | `Size`, `Marshal`, `MarshalToSizedBuffer`, `Unmarshal`, `skip...` | a message is written backwards into a buffer of a computed size; lengths from untrusted bytes, signed overflow, nesting depth |
| Application wiring, `app/app.go`, `app_config.go`, `ibc.go` | the module accounts and their permissions, the blocked addresses, the module manager's orders, stores, routes | `New`, `BlockedAddresses`, `registerIBCModules`, the `InitChainer` | orders that later modules rely on; accounts whose balance a module compares with its records |
| Daemon and commands, `main.go`, `commands.go`, `root.go`, `config.go` | none | flags, `newApp`, `appExport` | export at a height loads another version |
| Genesis accounts, `app/genesis_account.go` | none | `Validate` | – |

How they interact: `appExport` builds the application (`app.New`) at the latest
or at a given height and calls the export, which drives the staking,
distribution and slashing keepers. `in-place-testnet` builds the application,
rewrites its stores and hands it to the SDK's server, which starts the node.
`multi-node` needs no application; it writes the files that nodes start from,
with the SDK's `genutil`. The `chainrice` module is called by the module manager
(genesis, blocks), by the message router (`UpdateParams`, sent by governance)
and by queries. Nothing in the repository starts a goroutine of its own; what
interleaves is one procedure with faults of the libraries it calls, with kills
of its process, and with earlier and later runs of itself on the same stores or
files.

`PROJECT.json` lists the hazards, each at its line, and the properties that
would catch it going wrong.

## 2. Plan

In order of importance; the abstract statements come with the module they are
about.

1. **`ZeroHeightExport`** over `SdkDistribution` — the export. The books balance,
   references are exact, keepers do not panic, what is reset when it returns.
   *Built, checked; its safety is proved.*
2. **`MultiNodeTestnet`** — the files of a testnet under faults and reruns.
   *Built, checked; its safety is proved.*
3. **`InPlaceTestnet`** over `SdkDistribution` — the in-place command under
   exits, kills and reruns, as an implementation of the abstract `TestnetSwap`.
   *Built, checked; its safety and the refinement are proved.*
4. **`ProtoMarshal`** and **`ProtoWire`** — the generated encoders and decoders,
   byte by byte, the latter against the grammar of `WireGrammar`. *Built, checked;
   that `Size` is exact, that nothing panics, that what is encoded is what is
   decoded and that the decoders accept the grammar is proved.*
5. **`ChainApp`** — the parameters of the chainrice module in the life of a node:
   `InitChain`, optimistic execution, commits, crashes, export and new chains, as
   an implementation of the abstract `ParamsLedger`. *Built, checked; the
   refinement is proved.*
6. **`ModuleAccounts`** — the wiring: who may hold, mint and be sent coins, and in
   which order the modules start a chain and run a block; it composes the export
   and the in-place command with the chains that follow them. *Built, checked; its
   safety is proved.*
7. An abstract export, one atomic map of stores. What it would promise, a genesis
   that knows nothing of the old chain's history, is stated instead of the state
   when the export returns: `DistrGenesisValid`, `HeightsReset` and
   `ExportedCanSign`. *Built, checked; proved.*

## 3. Modules

### `SdkDistribution` (external)

The distribution keeper's reward records and the books behind them, as far as
the export and the in-place command use them: what `IncrementValidatorPeriod`,
`initializeDelegation`, the two withdrawals, the two deletions and the hook
`AfterValidatorCreated` do to the store. Records (`R`) hold periods, reference
counts, slash periods and starting infos; books (`B`) hold amounts in decimal
units, `Unit` to a whole coin, because only whole coins leave the module account
and the remainders are what is easily lost. Reward arithmetic is abstracted: a
withdrawal pays any amount up to the outstanding rewards, which is the bound the
keeper enforces. A reference count that would make the keeper panic sets `fault`.

### `ZeroHeightExport`

`pc` is the statement of `export.go` that runs next and `i` the turn of its
loop. Every loop body is one action with everything it calls:

| Action | `export.go` |
|---|---|
| `Start` | 26–29, 57–72: the height and the allow list; a malformed address panics |
| `WithdrawCommission`, `WithdrawRewards` | 76–107, errors ignored: the bank may refuse to send |
| `ClearRecords` | 109–117, and the context moves to height zero |
| `ReinitValidator`, `ReinitDelegation` | 119–168, donation to the community pool and the hooks |
| `RestoreHeight` | 170–171 |
| `ResetRedelegation`, `ResetUnbonding` | 175–203 |
| `ResetBondHeight`, `CloseIterator` | 205–235, jailing and the early return |
| `ApplyValidatorSetUpdates` | 237–240, panics on a jailed validator in the power index |
| `ResetSigningInfo` | 242–254; the error of the write is ignored and the old height stays (`unwritten`) |
| `Export` | 32–49: an error of the modules' export, or one of `WriteValidators`, which is returned with the record and the list made so far |
| `PanicOnError` | 79–253 and 32: wherever an error is checked, the call may fail and the process dies (`failed`); the stores are left as before the turn, since nothing reads the check state after that |
| `NextLoop` | the ends of the loops |

The initial states are those of a chain whose last block is committed: any
amounts that balance, any periods and slash events whose references match, any
powers and jailed flags, and the power index and last validators that the SDK's
`EndBlock` leaves for them.

### `MultiNodeTestnet`

A node's number stands for its directory, its node ID and the name of its
gentx. A file is described by the run that wrote it and by what the properties
distinguish: stake, ports, minimum gas prices, peers, the gentxs in a genesis. A
failed write leaves the file as it was, or torn. `Invoke` starts a run with any
flags; one action per file operation follows in the order of the code, each with
the ways it can fail; `Kill` ends the process at any of them. The shared
configuration object is `nodeConfig`.

Two failures are of a kind of their own. `isSubDir` fails only when the working
directory is gone; the code then skips the file without an error (326), and
those after it too, and the run goes on until the collection cannot open its
first file (`SkipGentx`). `RemoveAll`, by which the first loop cleans up, may
itself stop anywhere, and leaves any of the sets of files in `Remainders`. When
it has removed a directory's `node_key.json` but not its gentx, the next run
makes a new node ID and no longer overwrites that file: the directory is in
`orphans`, and the stray gentx makes `genutil` refuse the collection there.

### `InPlaceTestnet`

`store` is the working version of the stores and `committed` the version of the
last block. Each statement of `initAppForTestnet` that writes is an action; an
error exits (`handleErr`) and the working version is lost, a kill likewise. The
first block and later withdrawals are external: the lookups that `BeginBlock`
and `EndBlock` make in the indexes, and the distribution keeper's withdrawal.

`store` and `committed` together refine **`TestnetSwap`**, which knows no
process, no fault and no statement: a chain on disk is what it was until, in one
step, it is the chain of one validator with the listed accounts funded and
nothing minted that was not sent. The mapping takes every variable from
`committed`.

### `ProtoMarshal` and `ProtoWire`

The five generated files hold one template: the functions differ in their fields
and the skip functions in their names. The state machine is that template for a
message with its fields in `Schema`; a byte that is written or read, or a branch
that is taken, is an action. `pc` names the place (lines of `tx.pb.go`):

| Module | `pc` | Generated code | Actions |
|---|---|---|---|
| `ProtoMarshal` | `size`, `write`, `putVarint`, `putTag`, `returned` | `Marshal` and `MarshalTo`, `MarshalToSizedBuffer` from the last field to the first, `encodeVarintTx`, `sovTx`, `Size`, 247–347 | `MakeBuffer`, `OmitField`, `PutContent`, `PutVarintByte`, `PutLastByte`, `PutTag`, `Return` |
| `ProtoWire` | `field`, `tag`, `switch` | the loop over fields, 353–383 | `BeginField`, `ReadByte`, `RejectTag`, `ReadLength`, `StartSkip` |
| | `length`, `content` | a string or a message with its length, 384–444 | `RejectLength`, `SetAuthority`, `EnterParams`, `LeaveParams` |
| | `skip...` | the skip function, 516–593 | `SkipTx`, `SkipParams`, `SkipGenesis`, `SkipQuery`, `SkipModule` |
| | `accepted`, `rejected`, `panicked` | the returns, and an index or slice out of bounds | `EndOfMessage` and the above |

A behaviour either encodes a message, into a buffer of exactly `Size` bytes or a
longer one (`MarshalTo`), and decodes what was written, or decodes an input.
The steps of the decoder are the same for the five files; `UnmarshalTx`,
`UnmarshalParams`, `UnmarshalGenesis`, `UnmarshalQuery` and `UnmarshalModule`
are those of the functions in each of them. Integers have a width: sums of positions and lengths become negative at
`IntLimit`, words wrap at twice that, field numbers at `FieldLimit`. A byte has
`2 * Cont` values. A slice of the input that is decoded by itself (the field
`Params`) is an interval of the same data.

### `WireGrammar`

What the decoders should accept, without loops, sums that overflow, or depths: a
grammar over intervals of the input, with the value of the authority that a
message means. It is the reference for `DecodesByGrammar`. Its recursion, over the
length of an interval (`Chains`) and the bytes of a varint (`Numbers`), is that of
functions, so that it can be reasoned about.

### `ChainApp`

One node with the one item that `x/chainrice` keeps. `versions` is the sequence
of committed values, of which the first `pruned` are gone, `work` the store of the
block being executed, `oe` the
optimistic execution, `decided` the blocks of consensus, which may be ahead of
the node.

| Action | Code |
|---|---|
| `Start` | `app.New`, `app.go:134–224`, which loads the last version |
| `InitChain` | the `InitChainer`, `app.go:212–217`, with the module's `InitGenesis` (`module.go:100–111`, `keeper/genesis.go:10–12`); panics on an entry that does not decode, and is not called for one that is left out |
| `ProcessProposal`, `OptimisticExecution`, `FinalizeBlock`, `Commit` | baseapp, with the optimistic execution of `app.go:188`; a block is a sequence of batches, transactions or governance proposals, whose messages run `UpdateParams` (`msg_update_params.go:12–32`); each batch has a branch of its own, which a failing message drops and with it nothing of the other batches. `Params.Validate` never refuses (`Validate`), and an error of `Params.Set`, a write to the store, is a refusal like any other |
| `Prune` | the SDK's pruning, after a commit or by the `prune` command (`commands.go:41`); the last version stays |
| `Decide` | CometBFT |
| `Crash` | any moment; what is not committed is lost, and `InitChain` runs again if nothing is |
| `AppExport` | `commands.go:128–163` with `ExportGenesis` (`module.go:114–126`, `keeper/genesis.go:14–25`), at the last or another height, for height zero or not, with or without the module. It fails for a version that was never committed or is pruned (153–157), for options without a home or of another type (142–150, `"options"`), and when another part of the export does, such as the preparation for height zero that panics (`"others"`) |
| `NewChain` | a chain from the exported genesis and height (`export.go:26–49`) |

Addresses are what text decodes to, so one account has several spellings and
some text is no address. `Params` has no fields yet; the code passes it on as one
value, and the model takes the values from a set.

### `ParamsLedger`

The abstract specification: a history with one value for each executed block,
changed only by the batches of a block in which every message names governance,
the last of them deciding, and continued
by a new chain from an earlier height. It knows no node, no crash and no
optimistic execution. `ChainApp` implements it under the mapping
`history <- <<genesis>> \o versions`, `blocks <-` the decided blocks that are
committed.

### `ModuleAccounts`

`bank` holds the balances of the module accounts and of all users together,
`claims` what the records of the distribution, staking and governance modules say
their accounts owe. `InitGenesis`, `BeginBlockers`, `EndBlockers`,
`ModuleAccPerms` and `BlockAccAddrs` are the lists of `app_config.go` as they
stand; `k` is the position in the list that is being worked off.

| Action | Code |
|---|---|
| `InitModule`, `Started` | the modules read the genesis in the order of `app_config.go:151–181`; those with records compare them with their balance (external) |
| `BeginModule`, `EndModule` | the begin and end blockers in the order of 118–143: minting, sharing fees, slashing; proposals that end, validators that leave (external but for the order and the permissions) |
| `Send`, `PayFees`, `PayIn`, `WithdrawRewards`, `Undelegate` | transactions; a user's send is refused for `BlockedAddresses` (`app.go:297–310`) |
| `InPlaceTestnet` | `testnet.go` on the stopped chain: a validator with tokens that no pool holds, rewards overwritten, an account funded |
| `Export` | `export.go`: the state becomes the genesis of the next chain, at its height or at zero, with the withdrawals of 71–107 and the modules left out that were asked for |
| `FinalizeBlock`, `EndOfBegin`, `EndOfDeliver`, `Commit` | the phases of a block |

An SDK module here is only its calls on the bank and the checks that make it
fail; all of them are marked external. `odd` is a history variable: what was done
to the coins behind the modules' back since the chain started.

## 4. Runs

| Run | Question | Bounds |
|---|---|---|
| `export_stores` | Do the books balance whatever withdrawals fail, are references exact, which allow lists kill an export, what is reset, who can sign, wherever a checked call fails and whichever signing infos are not written? | 3 validators, 3 delegations of which two share a validator, 2 seats, so one validator is left out. The three kinds of stores do not influence one another at the start, so `MCInit` varies one at a time: amounts up to 3 units of half a coin (every mix of whole coins and remainders) with and without tokens; periods up to 2 and any slash events (every way a period can be held); powers 0 and 1, lists that are empty, complete, partial, of strangers, malformed, a redelegation and an unbonding with two entries each |
| `export_jail_panics` | (violation) line 52 against lines 223–237 | 2 validators |
| `multi_node_reruns` | What do two runs on one directory leave, and why does one fail? | up to 3 nodes, 2 runs, negative and zero counts, stakes that do not parse, are negative or more than the account has, port lists that are too short, removals that leave any set of directories, whole but for one file more or less |
| `multi_node_stake_default`, `multi_node_gas_prices` | (violations) lines 104 and 149 | 2 nodes, 1 run |
| `in_place_command` | Is the replacement all or nothing, and does the first block succeed? | 2 validators, a fresh key, 2 runs, lists with a repeated and with an empty account |
| `in_place_no_accounts`, `in_place_withdrawals` | (violations) lines 56 and 159 | 1 run |
| `wire_codec` | Is the buffer of `Size` filled exactly, is what is encoded decoded, and do the decoders accept just the language of the wire format? | all seven messages; strings of 0, 1, 2, 31 and 32 bytes, around the length at which a length takes a second byte; buffers as long as `Size` and 3 longer. All inputs of up to 3 of 11 bytes and of 4 of 7 bytes, each byte with a role (known and unknown tags of every wire type, continuations, ends), and 21 longer ones with nested groups, fixed-width items and lengths that overflow; bytes of 6 bits and words of 11 |
| `chain_node` | Does a node keep the ledger of its chain, catch up, and export what it should? | 3 blocks of 3 kinds (an accepted batch and one refused by authority; a batch that only its second message, by its text, spoils; a refused batch before an accepted one of two spellings), 2 values, one crash in each chain, one new chain; any prefix of the versions pruned; every request for an export with every obstacle |
| `module_accounts` | Do module accounts hold what their records say, and why is a genesis refused or a block failed? | 2 coins at the start, up to 3 with minting and the funding of a testnet; claims up to 2, 3 after the in-place command; each of six modules left out of an export; any number of blocks and of exports one after the other, with heights told apart only as zero and later (`HeightCap`) |
| `module_accounts_export` | (violation) `app_config.go:97` against `export.go:17` | the same |

Why the bounds are enough. In `wire_codec` a varint has up to three bytes, the
last with one bit to carry, as the tenth byte has in the code; every comparison
with a limit is met on both sides. In `chain_node` optimistic execution begins
with the second block, and the third is the first that can meet a stale
execution of the block before; the new chain is exported again, which is how the
module is found missing. In `module_accounts` nothing in the code depends on an
amount but comparisons of a balance with a claim and with zero; with two coins
each account can be empty, exact, short by one or over by one while another has
coins too. `SupplyCap` bounds minting, `ClaimCap` what is paid in after an
in-place testnet forgot claims; only a chain with all its modules is exported,
since a module that started without a genesis has nothing to export. The export
treats validators and delegations one by
one and couples them only through the community pool, the module account and
the seats of the validator set; two of each, with three validators where seats
matter, show every coupling. The theorems of section 6 remove the bounds for the
properties they state. In the multi-node command a run relates to earlier ones
only through the files they left; one earlier run, cut short at any point, with
more, as many or fewer nodes, gives every combination of old and new files in one
directory, and three nodes tell "the other node" from "the other nodes". In the
in-place command the second run starts from what the first committed.

Every property has a mutant, a plausible slip in a mapped definition under which
TLC finds the property violated; they are defined beside what they change.

### Findings

| Run | The repository says | The code does |
|---|---|---|
| `export_jail_panics` | `export.go:52` "prepares for fresh start at zero height" | jails a validator (224) and leaves it in the power index; line 237 panics on it |
| `multi_node_stake_default` | `testnet_multi_node.go:104` an invalid amount "will default to 100000000" | the invalid entry is dropped and later entries shift by one node |
| `multi_node_gas_prices` | `:149` "Minimum gas prices to accept" | line 180 overwrites the value of the flag |
| `in_place_no_accounts` | `testnet.go:56` the list of accounts is optional, "" by default | `strings.Split("", ",")` has one empty element, which is refused, and the command exits |
| `in_place_withdrawals` | `testnet.go:159` "Initialize records for this validator across all distribution stores" | starting infos and historical records of a reused operator address stay; their delegations' withdrawals panic |
| `module_accounts_export` | `export.go:17` "exports the state of the application for a genesis" file; `sim_test.go:230` knows one refusal of it | anyone may send coins to the governance account (`app_config.go:97`); its module then refuses the exported genesis |

Two more differences were read and are not run: the comment at `export.go:205`
promises an iteration by falling power where the code iterates by falling
address (the loop's effect does not depend on it), and the flag text at
`testnet_multi_node.go:139` promises peers on consecutive hosts with one port
where line 215 gives one host with falling ports.

## 5. Fairness

`ZeroHeightExport` assumes weak fairness of its own steps: it is one goroutine
that does not block on another (`WF_vars(Step)`). `PanicOnError` is not in
`Step`: no call is obliged to fail. `MultiNodeTestnet` and `InPlaceTestnet`
state no fairness, for only safety is claimed of them: their loops are Go's loops
over ranges, which end whatever the model says. Keeper operations are assumed to
return, with or without an error.

The codec is one function after the other that runs until it returns
(`WF_vars(Encode \/ Decode)`). In `ModuleAccounts` fairness covers the steps a node takes
within a genesis or a block (`WF_vars(Chain)`); transactions, new blocks, exports
and the in-place command are never obliged, and a chain that failed stutters. In
`ChainApp` fairness covers what a node does of itself: start (a supervisor
restarts it), `InitChain`, finish an execution, finalize and commit a decided
block. Proposals, decisions, crashes, exports and new chains are never obliged;
crashes are bounded, since a node that always crashes never catches up. Its
deadlock check is off because consensus ends at `MaxBlocks`.

## 6. Proofs

`ChainAppProofs` proves, for any parameters, blocks, addresses and bounds:

| Theorem | States |
|---|---|
| `LedgerKept` | `Spec => ImplementsLedger`, the refinement of `ParamsLedger` |
| `ExportFailures` | `Spec => ExportsExplained` |
| `TypeCorrect` | `Spec => []TypeOK` |

The assumptions say that the sentinels (`Absent`, `LeftOut`, `Malformed`,
`Failed`, `None`) are apart from the values and from each other where they
meet, that blocks are sequences of batches of messages, that the governance address is an
address, and that the bounds are natural numbers. The refinement needs to know,
when a block is committed, that the pending store is what the *decided* block
makes of the *last committed* parameters. That is `ExecutedRight`; it holds
because a finished optimistic execution of the next height is one of the last
committed parameters (`OptimismRight`, which must also say that executions are
of no later height, or a commit would make one current), because before the
first block the pending store is the genesis's (`GenesisPending`), and because a
node that is down has nothing pending (`DownIsEmpty`). `ExportRight` ties an
export to a height of the history until a new chain uses it, `AbsentExplained`
absent parameters to the genesis and the blocks since, and `NoBlocks` keeps a
chain that cannot start from having blocks. `IInv` is their conjunction with the
types; TLC agreed to it before it was proved. The lemmas on sequences at the end
say how the mapped history and blocks grow. That the fold over the batches by
which a node executes a block gives what the ledger, which looks for the last
batch that counts, says of it, is shown by induction on the batches
(`SetByNext`, `ExecuteIsOutcome`).

`ProtoWireProofs` proves, for every size of bytes, ints and field numbers, every
set of strings to encode and every set of inputs shorter than the greatest int:

| Theorem | States |
|---|---|
| `SizeIsExact` | `Spec => []FillsBuffer` |
| `CodecNeverPanics` | `Spec => []NeverPanics` |
| `RoundTripHolds` | `Spec => []RoundTrip` |
| `DecodersFollowGrammar` | `Spec => []DecodesByGrammar` |
| `CodecMovesOn` | `Spec => [][MovesOn]_vars`, a measure that falls at every step |
| `TypeCorrect` | `Spec => []TypeOK` |

The encoder's invariant (`MInv`) says that the room before the position `i` is
exactly what `Size` adds up for the fields still to be written, and, while a
varint is written, that the bytes left for it are as many as `Sov` of what is
left of the number; that dividing a number by the base lowers `Sov` by one
(`WireFormatProofs`, over the recursive function of powers) carries it through
the loop. The library's induction theorems take an operator, which no installed
prover can instantiate; where a fact about all numbers is needed
(`LeastNumber`, `Induct`) it is proved for a *set* of numbers from the
well-foundedness of `<`. The decoder's invariant is
`TypeOK /\ NeverPanics /\ FieldInSlice`: an index is in bounds because the slice
lies in the data, the position in the slice, and, inside a skip, the position not
before the place where the skip began (`FieldInSlice`). The lemmas on words say
that the sum of two ints from 0 on is right or negative, so a check for a
negative sum is a check for overflow.

The round trip relates two loops that run over the same bytes in opposite
directions. `Encoded` says of the encoder that the bytes of every field behind
`todo` are the ones its layout asks for, a byte of a varint being a remainder of
what is left of the number after so many divisions (`Rest`); each step has to
show that it leaves them alone (`FieldKept`, `FieldsKept`).
`Decoding` says of the decoder, which reads those bytes, at which field it is and
what it has gained from those before; inside a length,
`wire + weight * Rest(v, j) = v`, which also shows that no intermediate value is
lost to the width of a word and that the loop ends at the byte where the encoder
ended (`VarintTurn`, `LengthRecovers`).

That the decoders follow the grammar is a statement about the whole input, while
the decoder knows only what it has passed. `FollowsGrammar` says, at each `pc`, that
what lies before it is what the grammar allows there (`DecodedTo`: a chain of
fields up to `pos`, with the last authority they name), and the step that rejects
has to show that no reading of the rest makes the whole a message. That needs the
grammar to be unambiguous, which `WireFormatProofs` proves: from one place at most
one item can be read, and two chains that begin at the same place are one the
beginning of the other, so the places where items begin are those the decoder has
passed. Inside a varint the invariant is the sum of the bytes so far modulo the
word; inside a skip it is that the input is a message only if from here `depth`
groups are closed. Both are facts about recursive functions, proved by induction
on the length of an interval.

`CodecMovesOn` is the part of `CodecEnds` that is a safety property. `MovesOn` compares
four natural numbers by weight: the part of the work (encoding, the call's return,
decoding), the fields to be written or the bytes behind the beginning of the field
being read, what is left to do with this field, and the bytes of it ahead. The
hard case is `skip`, which adds lengths from the input to its position: that the
next field begins behind this one, whatever sum overflowed, is `Advanced`. With it
`CodecEnds` needs only that a call which has not ended has a next step.

The assumptions are that the known tags fit in one byte, that the known field
numbers, 1 and 2, fit in a field number (`FieldLimit > 2`; without it the decoder
would refuse them as negative), and that an input or an encoded message leaves
room for one fixed-width step below the greatest int.

`InPlaceTestnetProofs` proves, for any validators, delegations, keys, powers and
lists of accounts, and any number of runs:

| Theorem | States |
|---|---|
| `SwapImplemented` | `Spec => ImplementsSwap`, the refinement of `TestnetSwap` |
| `DiskAgrees` | `Spec => []CommittedAgrees` |
| `FirstBlockWorks` | `Spec => []FirstBlockSucceeds` |
| `TypeCorrect` | `Spec => []TypeOK` |

The invariant follows the command: up to which loop the stores are emptied
(`Deleted`), that the new validator is the only one the stores know (`Alone`),
that signing info is there unless its error was ignored (`Signs`), that the
accounts which the loop has passed are funded and no others (`Funded`), and that
with no command running the working version is the committed one (`AtRest`). The
step that refines `Replace` is the commit of the first block; everything else
stutters, which is the "all or nothing" of the command. `Funded` counts how often
an account is listed, so one lemma (`OneMoreTime`) is about the cardinality of the
positions of an account in a list. What the distribution keeper's operators do to
types and to single fields is shared by both users in `SdkDistributionProofs`.

`MultiNodeTestnetProofs` proves, for any flags, any number of nodes and any
number of runs on one output directory:

| Theorem | States |
|---|---|
| `CanonicalIsComplete` | `Spec => []GenesisComplete` |
| `NoTwoChains` | `Spec => []OneChain` |
| `ValidatorsHaveKeys` | `Spec => []OperatorsHaveKeys` |
| `ErrorsExplained` | `Spec => []SuccessExplained` |
| `AllPeersReachable` | `Spec => []PeersReachable` |
| `PortsApart` | `Spec => []ListenersApart`, for at most 5856 nodes |
| `TypeCorrect` | `Spec => []TypeOK` |

The invariant says, loop by loop, what this run has already replaced
(`InFirstLoop` to `InLastLoop`) and, of what it has not, only that it is of no
later run (`NotLater`), which is why nothing about earlier runs has to be known.
The steps that can hurt are those that end a run early: `GenesisSpoilt` shows
once for all of them that a torn or removed genesis takes nothing from `OneChain`.
`CollectedIsAll` and `RefusalExplained` are the two sides of `genutil`'s check; the
latter counts `orphans` among what earlier runs left.
The bound of `PortsApart` is exact: P2P ports fall by three from 26656 and gRPC
ports by two from 9090, and at 5857 nodes the P2P port of the last is the gRPC
port of the second (`PortsCollide`).

`ModuleAccountsProofs` proves, for any amounts of coins, any sets of modules that
exports leave out, and every bound:

| Theorem | States |
|---|---|
| `AccountsBacked` | `Spec => []PoolsBacked` |
| `FailuresHaveReasons` | `Spec => []FailuresExplained` |
| `FeesSharedFirst` | `Spec => []FeesBeforeSlashing` |
| `TypeCorrect` | `Spec => []TypeOK` |

`PoolsBacked` is not inductive: while a chain starts, balances are there before
the claims. `BackedSoFar` states it for the modules that have read their part
(the position of each module in `InitGenesis` enters here), `PendingIsZero` that
the others claim nothing, `Loaded` that no coin moves between the bank's turn and
the genesis transactions, and `GenesisAddsUp` carries what was true of the
exported chain, with its excuses, into the next one. Two facts were found only in
proving: the tokens that are unbonding stay covered even on an in-place testnet
(`UnbondingHeld`; without it a validator that leaves could overdraw the pool),
and a chain whose genesis leaves staking out never starts (`NeedsStaking`).

`ZeroHeightExportProofs` proves, for every value of the constants that satisfies
the ASSUMEs of `SdkDistribution` and `ZeroHeightExport`:

| Theorem | States |
|---|---|
| `TypeCorrect` | `Spec => []TypeOK` |
| `NoKeeperPanic` | `Spec => []NoFault` |
| `StartsStayDistinct` | `Spec => []StartsDistinct` |
| `RefCountsStayMatched` | `Spec => []RefCountsMatch` |
| `BooksStayBalanced` | `Spec => StepsBalanceBooks` |
| `LedgerStaysBalanced` | `Spec => []LedgerBalanced` |
| `DistrGenesisStaysValid` | `Spec => []DistrGenesisValid` |
| `ListDecides` | `Spec => []ListDecidesExport` |
| `ValidatorsCanSign` | `Spec => []ExportedCanSign` |
| `SetStaysElected` | `Spec => []ValidatorSetKept` |
| `HeightsStartAtZero` | `Spec => []HeightsReset` |

The assumptions say that the numbers of validators, delegations and entries are
natural numbers, that a delegation has a validator, that a coin has at least one
unit, and that the powers and heights are natural numbers of the given sets.

The argument is one inductive invariant,
`IInv == TypeOK /\ PeriodsBounded /\ RecordsHeld /\ SlashesGone /\ BooksCovered`.
The properties are not inductive alone: that a period has room in its record's
domain needs a bound on periods (`PeriodsBounded`: each delegation still to come
ends at most one more); that a reference count is right after a delegation moves
needs to know that its old start had a reference and that the new one had none
(`RecordsHeld`, the counts as a sum over holders that are live at this statement
of the procedure, with the starts distinct); that no slash period clashes with a
new start after the deletion needs the slash events to be gone (`SlashesGone`);
and that amounts stay natural numbers needs commission and current rewards to be
covered by the outstanding ones (`BooksCovered`). There is one lemma per action
and `NextStep` joins them; `BooksStayBalanced` uses the same invariant for the
ranges of the amounts that a step moves.

What is true of an export that has returned follows the whole of the procedure,
and three more invariants carry it there (`FullInv` joins them with `IInv`).
`StakingInv` says that the bonded validators are the ones which the power index
elects, that of the indexed validators just those are jailed which the loop has
passed and the list omits, and that a panic other than that of a failed call, like
its absence, has a reason in the
list; from it follow which lists let an export return, who can sign, and that the
set stays the elected one. `HeightsInv` says of each of the four
loops over heights that the part behind `i` is reset and what was reset before
stays so; of the signing infos, all but those whose write failed, unless their loop
was skipped. The panic of a failed call changes nothing but `failed`, so each
invariant survives it at once. `GenesisInv` says that the validators which the first reset has passed
have donated their rewards, that no slash is left, that periods are counted anew
(`PeriodsAnew`, `StartsAnew`: a validator's period and a delegation's start are
cardinalities of sets of delegations to a validator), and that the ledger balances:
`LedgerBalanced` is a sum over all validators, and the lemmas on sums in
`SdkDistributionProofs` (`SumChanges`: a sum changes by what one of its terms
changes, by induction on the set) reduce it to what `StepsBalanceBooks` says of one step.

Every safety invariant and action property of the passing runs is stated by one of
these theorems. Liveness (`ExportReturns`, `CodecEnds`, `CatchesUp`,
`StartsWhenSound`) is only model-checked: it rests on fairness, hence on
ENABLED, which TLAPS does not handle here.

## 7. Not modelled

Reward and slashing arithmetic, consensus and IBC are in imported libraries;
from them only what the modelled code uses is stated, in definitions marked
external. The new validator's description and rates, log texts, the addresses
of disabled services, and the command-line framework are left out.

Components without a module, and why:

- `app/ibc.go` calls constructors of imported keepers and registers them, once,
  in a straight line; it keeps no state and its only conditions are errors of the
  registration, which end the start. What it decides, the places of the IBC
  modules in the orders and the permissions of their accounts, is in
  `ModuleAccounts`.
- `app/genesis_account.go` is one check without state over imported types, for
  simulated vesting accounts.
- `query.pb.gw.go`, the types and client files of `x/chainrice`, `docs` and
  `testutil` forward, declare or register, and keep nothing.

Of the application's wiring the pre-blockers (`upgrade`, `auth`), the accessors of
`app.go` and the client registrations are left out: no upgrade handler is
registered. Of the daemon, the registration of flags and commands.

In `ModuleAccounts` users are one account, a module's claims one number, and
amounts of one denomination. Modules that hold no coins of this chain's records
(transfer, interchain accounts, nft) only have their places and permissions; IBC
escrow is not there. After the in-place command validators that were deleted
keep their tokens only as coins nobody claims. A chain that was started with
modules left out runs until they are missed and is not exported again.

Of the generated files, `Equal`, `Reset`, registration, reflection and the gRPC
and REST stubs are left out; they keep no state. So is `Size` of a nil receiver,
which is 0. What a panicking export had written in the turn that failed is not told
apart: the check state dies with the process. In `ChainApp` other modules'
stores are left out: an export for height zero is there only a change of the
height and one of the `"others"` that may fail, and its work is
`ZeroHeightExport`'s. Heights asked for in exports are positive, a store without
a version is not exported, and a node's proposals end when its consensus has decided the height.
