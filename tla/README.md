# Nexelra: a verification project

Nexelra is a Cosmos SDK chain (SDK v0.50.10, CometBFT v0.38.12, ibc-go v8.5.1)
with one module of its own, `x/identity`, and one idea: only addresses that have
registered an identity may send transactions, and only registered addresses may
be paid. This directory holds TLA+ models of the parts of the repository that
carry this idea, the TLC configurations that check them, and proofs for TLAPS.

1. [The system](#1-the-system): inventory of the components
2. [The modules](#2-the-modules): which module models which part, and how
3. [The runs](#3-the-runs): what each run checks, bounds, fairness
4. [The proofs](#4-the-proofs)
5. [Where code and documentation disagree](#5-where-code-and-documentation-disagree)
6. [What is left out, and assumptions about libraries](#6-what-is-left-out-and-assumptions-about-libraries)
7. [Plan](#7-plan)

## 1. The system

| component | state | operations | what makes it correct |
|---|---|---|---|
| `x/identity` keeper, messages, genesis (`x/identity/keeper`, `types`, `module/genesis.go`) | store `Identity/value/<address>/` of records (address, SHA-256 of the citizen card number, time of creation); parameters without fields | `CreateIdentity`, `UpdateParams`, `InitGenesis`, `ExportGenesis`; `RemoveIdentity` has no caller | a record is written once and never replaced or removed, whatever fails around it; every replica writes the same record |
| its queries (`keeper/query_*.go`) | none | `Identity`, `IdentityAll`, `IdentityByCccdId`, `Params` | reading page by page is exact although blocks go on registering |
| identity gate (`app/ante/ante.go`) | none; reads the identity store | `AnteHandle`, last decorator of the ante chain | nobody without an identity pays more than a fee he agreed to; nobody without one is paid by a bank message; a verdict given at admission still holds later |
| application (`app/app.go`, `app/app_config.go`, `module/module.go`) | committed, block and check states; mempool | `InitChain`, `FinalizeBlock`, `Commit`, `CheckTx`, recheck; restart | money is conserved; a failed transaction leaves its fee and sequence numbers and nothing else; genesis identities survive |
| interchain-accounts host (`app/ibc.go`) | packet receipts | `MsgRecvPacket` runs the packet's message without the ante chain | each packet takes effect at most once; only interchain accounts gain by the detour |
| optimistic execution (`app/app.go:257`) | an execution in progress per node | start at `ProcessProposal`, abort, reuse at `FinalizeBlock` | what is committed is what the decided blocks produce; a decided block is never held up |
| `multi-node` (`cmd/Nexelrad/cmd/testnet_multi_node.go`) | one directory per validator, kept between runs | four loops: keys and genesis transactions, genesis files, copies, collection | the directories of a run end with one genesis file; success means ready |
| message codecs (`api/nexelra/identity/*.pulsar.go`, `x/identity/types/*.pb.go`) | none | two generated sets of size, marshal and unmarshal for the same messages | what one writes the other reads as the same message; bytes from outside are an error at worst; both agree on any bytes |
| export (`app/export.go`) | works on a scratch state | export, zero-height reset | nothing is lost; the result can be imported |
| in-place testnet (`cmd/Nexelrad/cmd/testnet.go`) | staking, slashing, distribution stores | rewrites the validator set in an uncommitted store, the server rewrites CometBFT's; `start` afterwards | CometBFT and `x/staking` have the same validators, and no record of a removed validator stops a block |
| snapshot commands (`cmd/Nexelrad/cmd/commands.go`) | `data/snapshots`, shared with a running node | info, list, create, restore, delete (create and restore only print) | naming a directory never harms a snapshot the node offers; info does not show an older one as the latest |
| command-line root, configuration, simulation drivers, gRPC stubs, docs | none of their own | | |

How they interact. CometBFT calls the application over separate connections:
one executes blocks, another checks transactions for the mempool against a state
of its own that `Commit` replaces. Each transaction runs through the ante chain
(`NewAnteHandler`) on a branch of the state and then through its messages on
another; the identity gate is the last decorator, so that it decides after the
fee was deducted and the sequence number incremented, and its refusal has to
undo both. The gate reads the same store that `CreateIdentity` writes. IBC
packets carry messages that reach the handlers through the message router, past
the ante chain. With optimistic execution a node runs the messages of a block
before the block is decided. At genesis, `genutil` executes transactions before
`x/identity` has loaded its list (`genesisModuleOrder`). A message is decoded
twice: its signers are taken from the pulsar form, the gate and the handlers act
on the gogo form. The commands of `cmd/Nexelrad` share directories with earlier
runs of themselves, with CometBFT or with a running node.

What is hard: rollbacks at two levels; a mempool that judges by yesterday's
state; executions that are abandoned half-way; crashes before and after the
first commit; replicas with clocks of their own; two decoders that must not
disagree; commands that work on what an earlier run, another chain or a node at
work has left behind. `PROJECT.json` lists the hazards line by line.

## 2. The modules

```
DataInduction                  proofs only: induction over numbers and finite sets, recursion, sums
Registry                       abstract: a write-once map
Identity                       x/identity: store, message server, genesis
 +- Spellings                  one account, two strings    <- MCSpellings
 +- Queries                    its list queries            <- MCQueries
 +- IdentityGate               the ante decorator
     +- Ledger                 ante chain and handlers on one state record
         +- Node               one node                    <- MCNode
         |   +- NodeProofs     operator lemmas, the safety properties; export and
         |                     genesis are inverse
         +- Replicas           several nodes               <- MCReplicas
             +- ReplicasProofs
Wire                           the loops of both generators
 +- GogoCodec, PulsarCodec     the messages of each
     +- Codec                  both on the same bytes      <- MCCodec
 +- WireProofs                 the loops on buffers of any length
     +- CodecProofs            every message (extends Codec too)
TestnetFiles                   multi-node                  <- MCTestnetFiles
Export                         zero-height export          <- MCExport
 +- ExportProofs
InPlaceTestnet                 in-place-testnet            <- MCInPlaceTestnet
 +- InPlaceTestnetProofs
Snapshots                      snapshots info, delete      <- MCSnapshots
ClientsProofs                  Queries, TestnetFiles and Snapshots: what clients and commands
                               may rely on
```

**Identity** has the store as a function from addresses to records, with
`NoIdentity` for a missing key, and one operator per keeper function. A hash is
an injective tagging (`Sha256Hex`), never equal to its input. `now` is an
argument of `CreateIdentity` because the code calls `time.Now()`.

**IdentityGate** is `ante.go`. The decorator learns a message's signers from
`GetSigners()`, from two bank cases, and by reflection from the fields `Creator`,
`Signer` and `FromAddress`; messages are classified by what this finds: `create`,
`params` (authority: not found), `send`, `multi`, `vest` (has `FromAddress` but is
no bank message), `recv` (an IBC packet, `Signer`), `grant` and `revoke` (fee
allowances) and `other` (their signer is in a field the decorator does not read,
so they are always rejected). The exempt type
URLs are taken literally, misspelling included.

**Ledger** is the state one transaction works on (identities, accounts, sequence
numbers, balances, collected fees, fee allowances, packet receipts), the ante
chain in the order of `NewAnteHandler` as a verdict (`AnteCode`) and an effect
(`AfterAnte`), and each handler as a guard and an effect. A transaction may name
a fee payer, who then signs as well, and a fee granter (`FeePayer`, `Charged`);
neither is among the addresses the gate looks up.

**Node** has one action per step of a node: `InitChain`, `InitIdentities`,
`BeginBlock`, then per transaction `RejectTx`, or `BeginTx`, `ExecMsg` for each
message and `EndTx` or `FailTx`; `Commit`; `CheckTx` and `RecheckTx` on the
mempool connection, interleaved with the block; `Crash` anywhere. `deliver` is
the block's state, `running.branch` the branch of the transaction under way,
`check` the mempool's state, and `checkHeight` the height in its context, which
after a start is 0 until the next commit. `genesis` is a document: initial accounts, genesis
transactions, identities, initial height. A genesis transaction that fails halts
the node (InitChain panics).

**Replicas** executes whole transactions (`DeliverTx`: `RunMsgs` runs the messages
one after another, `RunMsg` is one of them) on several nodes. Consensus is what the application sees of it: a proposal
carries the application hash (here: the state) of its proposer, a node accepts
only a proposal with its own, two thirds of the power decide. `exec[r]` is node
r's execution in progress, optimistic or not.

**TestnetFiles** is `initTestnetFiles`: one action per round of each loop, an
error action where the code returns, `CopyFails` where it ignores an error,
`Interrupt`. The last loop writes each genesis file twice: `CollectNode` is
genutil's own export, `OverwriteNode` the command's. The disk survives from run to run. Node keys are kept by the
command, so a directory names its validator; account keys are made anew, so an
account is a directory and a run. The chain id is the user's, so that two runs
may share it.

**Export** is `prepForZeroHeightGenesis` stage by stage (`WithdrawAll`,
`ClearHistory`, `ReinitValidators`, `ReinitDelegations`, `ResetStakingHeights`,
`JailUnlisted`, `ApplyValidatorSetUpdates`, `ResetSigningInfos`), on a record `s`
of what it touches: stakes, the power index, signing infos and the books of
distribution with its periods, historical records and their reference counts.
The same operators run the chain before the export and the new chain after it,
because what an export gets wrong shows when the new chain pays or slashes.

**Queries** is a client that reads `IdentityAll` or `IdentityByCccdId` page by
page, by key or by offset, while blocks register identities. Addresses are
numbers here, because the store iterates in key order.

**Spellings** instantiates Identity's addresses with strings: each account has a
small and a capital one. The gate looks an identity up under the small one, the
handler under the one the message carries.

**Wire** writes each unrolled loop of the generated code once (`ReadVarint`, the
length checks with their wrap-around, `Skip`, the field switch, the backwards
writing into a buffer of the size computed first). The widths of a word, of a
field number and of the fixed types are constants. **GogoCodec** and
**PulsarCodec** have `Size`, `Marshal`, `Unmarshal` of every message in terms of
these loops, PulsarCodec also which fields `Range` and `Has` report. They differ
as the code does: the gogo forms drop unknown fields, hold some messages by value
and always write those; the pulsar forms have pointers and keep unknown bytes.
**Codec** puts both on one buffer, which was written by either for a message or
came from outside piece by piece.

**InPlaceTestnet** has `initAppForTestnet` on a record of the staking and
slashing stores (validators, power index, last powers, unbonding queue, index by
consensus key, signing infos, pool), and CometBFT's three validator sets. `Start`
runs the command: the application's state is rewritten in memory, CometBFT's on
disk (`half` until the next commit). `PlainStart` and `Crash` come anywhere.
`Block` is what a block runs of the two modules: the signers of the last block,
jailing, one transaction, the election and its updates, the unbonding queue.
The old chain is any well-formed one: validators have keys of their own, and the
power of the new validator, 9 * 10^14, is more than anybody stakes ("in-place"
below says where that is needed). Its shares are 10^7 only: `ShareRate` is what one of
them is worth in tokens, `unit` how many parts of a share a validator gives for a
token, and `stake` is counted in these parts, so that a delegation keeps its shares
when the command replaces the validator they are of. `kept` remembers that the
command was given an operator address with such delegations (`Backed`).

**Snapshots** has the steps of the node (`Commit`, `MakeHeightDir`, `WriteChunks`,
`Forget`, `Wipe`, `RemoveDirs`, `Stop`, `StartNode`), which are the SDK's, and those of
the commands between which the node may act: status, count and latest of `info`;
looking, asking and removing of `delete`, which is given a height or a chunk of one
(`RemoveChunk`). `damaged` remembers the heights of which a chunk was deleted.

**Registry** is the promise of `x/identity`: entries are added, never replaced.
`Node` implements it with `reg <- committed.ids` (`RegistryWriteOnce`).

## 3. The runs

Passing runs (state counts on the configurations given):

| run | states | question |
|---|---|---|
| deliver | 857 000 | blocks executed message by message with every kind of message, alone or with a second that fails, succeeds or has another signer, with fee payers and granters: conservation of money at every level, write-once identities, the unregistered pay agreed fees only, packets pay once, who is paid, who is registered |
| mempool | 419 000 | what admission is worth: blocks proposed by others, commits, rechecks, crashes, from five genesis documents: plain, one address twice, good and bad genesis transactions, a chain that starts at height 2 |
| replicas | 100 000 | optimistic execution, abandoned rounds, a crash: the committed state is the replay of the decided blocks, clock readings set aside, and a replica that is behind catches up (liveness) |
| files | 2 814 000 | two runs of `multi-node` over one directory tree, with one chain id or two, stopping or failing anywhere |
| export | 359 000 | a chain with rewards, slashes and jailing is exported to height zero and goes on: money, reference counts, heights; when the export fails |
| pages | 64 000 | exact reading by key, complete reading by offset, and its end (liveness) |
| wire | 37 000 | all messages of both generated sets written and read, and bytes from outside: round trips, agreement of the decoders, no panic, unknown fields, populated fields |
| inplace | 1 184 000 | `in-place-testnet` run twice on any old chain, with crashes, plain restarts, validators that join and leave and delegations that come and go: when blocks go on, and that both sides have the same validators |
| snapshots | 6 348 000 | `info` and `delete`, of a height or a chunk, against a node that makes and prunes snapshots and is killed |

Runs in which TLC finds a violation (section 5): *exempt*, *time*, *spelling*.

Bounds and why they are enough.
*Node*: five addresses (two registered users, one unregistered, an interchain
account, an address without an account), two heights, two transactions per
block, sequence numbers 0 and 1, a fee of 1, on one's own account, on that of an
unregistered payer or on that of a granter with or without an allowance, with balances of 1 to 3 so that
funds run out. Two transactions per block are enough for every pair of effects
within a block, the second height for every effect of a commit; messages come
in pairs because a rollback needs one that was executed and one that fails. The
mempool run has two mempool slots, the smallest number that can compete, no fees,
one transaction per block, sequence numbers up to 2 and three heights, so that
a node commits before and after a restart.
*Replicas*: three validators, two of which can decide without the third, two
heights (optimistic execution starts at the second), two rounds per height, one crash.
*TestnetFiles*: three validators, two runs, stakes from a list with an entry
that does not parse and one above the balance.
*Export*: two validators whose operators may stake with each other, two blocks before
the export and two after, three operations: enough for a delegation, a slash and
a withdrawal around the export, or a slash on either side of it. Amounts (14 and
9 eighths of a coin, stakes of 4) leave fractions whenever they are shared.
*Queries*: four addresses, two card numbers, pages of one or two.
*Codec*: a word of 15 bits is two groups of seven bits and one bit more, as 64
bits are nine groups and one, so that the longest integer, the overflow of an
index and a negative length take three bytes instead of ten; field numbers of 6 bits
for 32; fixed types of one and two bytes for four and eight. Strings are empty,
of one byte, or of 128, where the length prefix grows. Three pieces from outside
suffice for a field, its repetition and a field that lies, truncated anywhere.
*InPlaceTestnet*: two operators and three keys, one of them the node's, which an
old validator may have had; tokens up to 3 on the old chain, 4 for the new
validator, 8 in CometBFT's state, in the order the code's constants have, and
shares of 2 tokens, enough for an old delegation to take more out of the pool than
was paid in; the command runs at most twice, the blocks are unbounded.
*Snapshots*: fifteen heights and an interval of five, none, or not set: three
snapshots, of which one is kept, and names whose order is not that of the heights.
Chunks of one snapshot at most are deleted (`OneDamaged`), which leaves others to
be affected by it.

`CHECK_DEADLOCK FALSE` appears where the system may stop: a node whose genesis
transaction failed, replicas at the last block of the bound or apart after a
clock difference, the generator after its last run, a chain whose operations are used up, a client that has read all
pages, accounts of which each string is registered.

Fairness. `Replicas!FairSpec` asks of each node that the work on a decided block
(`FinalizeBlock`, executing a transaction, `Commit`) goes on: CometBFT calls the
application without waiting for other nodes, and the application never blocks.
Each node's execution is one thread of work, so the condition is weak fairness
of these steps together, per node. Nothing is assumed of proposing, accepting,
deciding or restarting. `Queries!FairSpec`
asks that a client which has begun asks for the next page.

Each property has a mutant in its module (a definition with a suffix, such as
`CreateIdentityOk_NoLookup`) that a plausible mistake in the code would amount to,
and that the property refutes.

## 4. The proofs

Each `...Proofs` module proves its properties from one inductive invariant `IInv`,
which TLC checked on the run of the module first, by `Init => IInv`,
`IInv /\ [Next]_vars => IInv'` and `IInv => property`. They hold for every value of
the constants that satisfies the modules' assumptions: any finite number of
addresses, validators or clients, any messages, any bounds.

**Induction over data.** `DataInduction` has what several proofs need and the
provers cannot do by themselves: facts about recursive functions and about sums
over finite sets. A lemma with an operator as its parameter could not be applied,
so it is stated of functions and sets: a set of numbers that is closed under
steps has all of them (`Induction`), because a least one outside would follow one
inside; a function with the step's recursion exists (`IterationExists`) and stays
where the steps stay (`IterationType`). `MapThenSumSet` recurses over subsets, in an
order that `CHOOSE` picks; `SumFollows` solves the recursion, `AnyOrder` shows that
the order does not matter, and `SumAdd`, `SumRemove`, `SumUpdate`, `SumOfSums`,
`SumAtMost`, `SumOutside`, `SumScaled`, `SumRenamed` are the arithmetic of sums that
the other proofs use. `FoldSet` is the community modules' fold, whose order `CHOOSE` picks
as well; `FoldFound` gives its stages, one for each subset, and `FoldKeeps` says that
what every step keeps holds of all stages. The kept property is a family of sets
indexed by the elements done, so that it may say how far a loop has come.

**One node.** `NodeProofs` has lemmas on the operators of a transaction (which
record each returns, that balances stay natural numbers because the ante chain
and the handlers look at them first) and **GenesisRoundTrip**: what `ExportGenesis`
returns passes `Validate`, and `InitGenesis` builds from it the store it was taken
from, for every order of the list. A list as long as the store has records, and
with all of them, has none twice; so the last entry for an address is the only
one. It has **TypeCorrect**, and proves the safety properties from
`IInv == TypeOK /\ ChainInv /\ BranchInv /\ PoolInv /\ MoneyInv`. The properties
themselves are not inductive, because they speak of whole transactions and
committed states:

- *ChainInv* relates the three states: what is committed is kept by the block's
  state, and both keep the genesis identities.
- *BranchInv* says what the messages executed so far have done to the branch of
  a running transaction: every unregistered ordinary address has at least what
  it had once the fee was taken and is still unregistered, and a transaction of
  bank messages has credited registered addresses only; and that the gate had
  accepted all of its messages. It is what makes `EndTx`, which merges the branch, a safe step.
- *PoolInv* says that the check state has the committed identities, that, once
  the check height is above 0, the gate accepts what has been checked or rechecked
  on the committed identities (a verdict is monotone in the store:
  `VerifiedMonotone`), and that a rechecked transaction's sequence numbers are
  below those of the check state.
- *MoneyInv* says of each copy of the state that it is worth what genesis handed
  out. It has the branch in it, because a transaction may still fail and a
  multi-send is several transfers.

| theorem | property | in words |
|---|---|---|
| RegistryRefinement | RegistryWriteOnce | a node implements the write-once registry |
| UnregisteredPaysOnlyAgreedFees | UnregisteredPaysAgreedFees | interchain accounts aside, blocks take nothing from an unregistered address but the fee of a transaction it signed as payer or allowed its payer to charge to it |
| BankRecipientsRegistered | BankCreditsAreChecked | bank messages pay registered addresses only |
| ClosedMembership | OnlyPacketsRegister | after genesis only interchain accounts are registered |
| AdmittedTxsPassGate | AdmittedPassGate | from the first commit after a start on, the gate's verdict at admission or recheck is final |
| AdmittedNoncesDiffer | NoCompetingNonces | admitted transactions do not compete for sequence numbers |
| GenesisIdentitiesSurvive | GenesisSurvives | crashes and duplicates do not change what genesis registers |
| GenesisNotGated | GenesisGateOpen | at initial height 1 the gate lets genesis transactions pass |
| MoneyConserved | SupplyConserved | no coin is made or lost in any copy of the state |

Assumptions: `NoIdentity` and `NoTx` are no records, the empty card number is
one, messages and documents are of their types.

**Several nodes.** `ReplicasProofs` has **TypeCorrect** and

| theorem | property | in words |
|---|---|---|
| ReplayedOnly | CommittedIsReplay | what a replica has committed is the replay of the decided blocks, creation times apart |

*ProgressInv* says that an execution in progress, optimistic or not, has reached
what the block's first transactions make of the replica's state; *ReplayInv* is
the property. Both compare states up to creation times (`Alike`), and the step is
a lemma on the operators of `Ledger` (the type lemmas are those of `NodeProofs`,
stated again because the two modules have no variables in common): no verdict and no effect of a transaction depends on a
creation time, so that states that are alike stay alike by any clock
(`DeliverTx` runs two recursions, over messages and over transactions, which is
where `Induction` is used). An abandoned execution needs no invariant of its own: it
does not touch `app`, and the next one starts from it.

**Queries.** `ClientsProofs` has the proofs of the three modules whose actors read what
others write. The part about Queries is about one client at a time, with `IInv` saying for each:
*StartInv*, the records it began with are still there; *KeyInv*, behind its key
everything was given once and from the key on nothing; *OffsetInv*, every record
whose rank is below its offset was given. `NoGaps` is the heart of it: if nothing
lies beyond a page, all records lie before its end, because a position counts
the records before it, so that the positions below one that is taken are taken.

| theorem | property | in words |
|---|---|---|
| KeyReadingIsExact | KeyPagesAreExact | reading by key gives each identity of the beginning once, none twice |
| OffsetReadingIsComplete | OffsetPagesMissNothing | reading by offset misses none of them |

They hold for every number of clients, addresses and cards and every positive
limit. The number of times an address was given is capped at two in the model.

**multi-node.** The part about TestnetFiles proves the invariants of the generator over any
number of validators and runs. `FilesInv` says stage by stage what the loops have achieved:
*OwnInv* (the first loop's genesis transactions are in place), *GenesisInv* (the
second loop's genesis files are of this run), *CopyInv* (the first directory has
everything that was not lost), *CanonInv* (the canonical application state is of
this run, funded, not empty), *FinishedInv* (a finished genesis file of this run has
it and the common time, or is the one between its two writes), *CollectInv* and *AllInv* (the fourth loop has written it, and
it is complete), and *ChainInv* and *OwnerInv* about what earlier runs have left.

| theorem | property | in words |
|---|---|---|
| GenesisAgrees | SameRunSameGenesis | finished genesis files of one run are equal, but for at most the one directory the run was stopped at between the two writes of its file; after success all are |
| SuccessIsReady | SuccessMeansReady | success means a complete network in every directory |
| NobodyIsMissing | NoValidatorMissing | all validators of the run are in it unless a copy into the first directory failed |

**Snapshot commands.** The part about Snapshots (`SnapshotInv`) shows, for every set of settings,
number of snapshots kept and height, what the commands may rely on. *PruneInv* says that files are removed
only after the metadata, *NewestInv* that what is pruned is never the newest, and
*CountInv* that a command that has counted saw the snapshots that were there.
All of them speak of snapshots that `delete` was not told to remove a chunk of.

| theorem | property | in words |
|---|---|---|
| WholeUnlessChunkNamed | OfferedAreWhole | a snapshot that the node offers keeps its files unless `delete` was given the path of one of its chunks |
| InfoIsCurrent | LatestIsNewest | as long as no chunk was deleted, the latest snapshot shown is no older than one that was complete at counting |
| SnapshotTypeCorrect | SnapshotTypeOK | among others: no snapshot is claimed beyond the chain, the bar fits its frame |

**In-place testnet.** `InPlaceTestnetProofs` has **TypeCorrect** and

| theorem | property | in words |
|---|---|---|
| BlocksGoOn | ChainGoesOn | no block of the new network fails, except after the plain restart or with the operator address named in section 5 |
| SetsStayEqual | SetsAgree | CometBFT's next validators are those `x/staking` last elected |

The invariant has one part for each reason a block could fail, and holds of the
running application's records and of those on disk: *KeysFound*, every validator
is found under its consensus key; *Indexed*, the power index has exactly the
validators that are not jailed, with the tokens they have; *Recorded*, the last
powers are those of the bonded validators, the unbonding queue has the unbonding
ones, and bonded ones have signing infos; *UserStays*, the command's validator
keeps more tokens than its operator staked, so that it is never removed, nor jailed
while it is bonded (this is where the assumption is used that nobody stakes 9 * 10^14,
the tokens the command invents);
*Covered*, the bonded pool has what bonded validators will take out of it when they
leave, in which the command's validator counts with what was staked only, because
its tokens are in no pool. Both hold as long as the shares delegated to that
validator are worth what was paid for them, hence not once the command was given an
operator with delegations of the old chain (`kept`). *Followed* says that every key in CometBFT's three sets
still has a validator and a signing info: it is what the key's age in those sets and
the length of the unbonding period are about, and what a plain restart
destroys. *Heard* says how CometBFT's next set and the last powers correspond. An
election moves several validators at once; it is taken apart into changes of one
validator each (`OneChain`), and the sums over those that come and go need
`DataInduction`.

Type correctness is a theorem in all these modules.

**Export.** `ExportProofs` has **TypeCorrect** and

| theorem | property | in words |
|---|---|---|
| RewardsBacked | Backed | the distribution account holds pool and outstanding rewards, and these cover all claims |
| ReferencesCounted | References | a historical record is kept exactly as long as it is referred to, and the counts add up |
| NothingPanics | ChainGoesOn | no operation fails, on the old chain or on one started from an export |
| HeightsArePast | NoFutureHeights | an exported state has no height that the new chain has yet to reach |
| FailuresExplained | FailsForUnlistedOnly | the export fails only for a list that leaves out a validator of the power index |
| ExportPaysDue | DuePaid | an export for height zero pays what was owed before it, to the coin |

They hold for any finite sets of validators and delegators, any operators, and all
amounts, fractions and bounds. None of the properties is inductive: whether a
payment panics, or is covered, depends on what the history says of periods long
past. `IInv` therefore says of each state between two operations that it is
*InOrder*. Its main part looks at the *Book* of one validator at a time, with the set of
delegations it carries, and calls it *Sound*:

- *Referred*: the periods that delegations started in and that slashes ended
  are distinct, none of them lies ahead, the history has exactly these and the
  last one, and each record's count is the number of those who refer to it;
- *Growing*: later records have higher ratios, so that no reward is negative;
- *InTime*: starts and slashes are not in the future, and a slash of a later period
  than a delegation's start has no lower height, so that
  `CalculateDelegationRewards`, which asks for slashes by height, gets those it needs;
- *Whole*: counting through the slashes, each delegation ends with the stake that
  `x/staking` has for it, which is where the code would panic;
- *Solvent*: outstanding rewards cover the commission, the rewards of the current
  period and the claims of all delegations.

Besides there are *Balanced* (coins of the account, in fractions, are pool and
outstanding rewards), *Indexed*, *Belongs* and *Past*. The proof has one lemma for each
operation of x/distribution on one book: the end of a period raises the claims by
the ratio times the stakes, which is at most the rewards it hands out because the
ratio is rounded down (`ShareFits`, `ClosedClaims`); a payment takes one claim
out; a slash halves what a delegation earns by from then on and leaves what it
earned (`SlashedEarning`). `OneBook` carries these over to the state. The
loops of `prepForZeroHeightGenesis` run over states that are not in order, because
after `ClearHistory` no delegation has a record that its books know:
`Books(st, live)` says what is carried when only the delegations in `live` have been
started again, and `Clean(st, T)` that the validators in `T` have been, so that
`FoldKeeps` applies to each of the loops, in any order of the store.

`DuePaid` equates a sum over payments that are all computed from the state before the
export with the effect of payments made one after another, each of which ends a
period of its validator. `Promise(st, v, d)` is what a delegation would be paid now:
its claim on the history and its share of the current period, or nothing if it
started at this height. A period's end moves the share of the others into their
claims (`NewPeriodSettles`), later ends of an empty period add nothing, and dropping a
record that nobody refers to is not seen by them (`StaysSettled`, `PromiseStays`):
so a payment leaves the other promises as they were (`OthersPromised`). The invariant of
the two loops then says, of the elements still to come, that their dues are
those of the start, and of the balance, that it is the initial one less the dues
of the elements done; `OwedIs` turns the definition of `Owed` into the same sums.
The recursion over periods in the calculation of rewards is solved by
`EarnedIs`; that two calculations agree which read the same ratios is
`EarnedSame`. Assumptions: the sets are finite, an operator is a delegator, `Unit` and
`Stake` are positive, the other amounts and the bounds are natural numbers, and
`NoStart` is no record.

**Generated messages.** `WireProofs` and `CodecProofs` prove every invariant of Codec, for all
buffers an int can index, all field values, lists of any length and words of any
width.

| theorem | property | in words |
|---|---|---|
| WrittenIsRead | RoundTrip | what either marshaller writes, both unmarshallers read as the message sent |
| OneMeaning | DecodersAgree | over any bytes, both forms are read or neither, and they say the same |
| BytesNeverPanic | NoPanic | no bytes make an unmarshaller reach outside the buffer |
| NothingLostRewriting | Rewriting (no run checks it) | read, written and read again is the same message |
| ReflectedIsWritten | PopulatedIsWritten | `Range` reports the fields that `Marshal` writes |
| TypeCorrect | TypeOK | the bytes are bytes |

The state is simple, and so is `IInv`: the variables have their types, and if a message
was sent it is a well-formed one (`WellFormed`, what the pulsar form can hold) and `wire`
is what one of the marshallers writes for it (`Sent`). The substance is in the loops. Each is
a recursive function, so first that it has a solution: every step goes on to a
larger index (`FieldType`, `SkipOneType`), and `DataInduction`'s facts about recursion apply.
Then what holds of a step holds of the loop, in three lines of lemmas:

- *Reading.* A number read is in range, wraps around as a Go int does, and ends
  inside the buffer or is an error (`ReadVarintType`, `ReadBytesIs`, `SkipIs`); no step
  looks at bytes behind the one it ends at (`ReadVarintMatches`, `FieldMatches`). So
  a scan finds well-formed values and unknown fields, or fails (`ScanFinds`), and the
  unknown fields it keeps scan once more as the same unknown fields (`ScanKeeps`);
- *Counting.* `SovIs`: the formula with bit lengths in `Size` gives the number of bytes
  that the loop of `encodeVarint` writes (`EncodeVarintIs`), so that marshallers, which
  fill a buffer of the size computed first from its end, meet its beginning exactly (`PutsAgree`, `FillIs`);
- *Writing.* What `encodeVarint` wrote is read back (`ReadVarintBack`), and bytes that a
  marshaller puts in front of others make a scan find one value more
  (`ScanPrepends`, `NumberWrites`, `DelimitedWrites`, `WritesFound`).

`CodecProofs` then has for each message what both forms read (`X_Reads`), what a scan finds
in the bytes of each form (`X_Found`, `X_PlainFound`) and that it is the message
(`X_Back`, `X_PlainBack`); a message that is a field, or a list of messages, uses the
lemmas about that message.

Two assumptions: `WireAssumption`, that a field number has fewer bits than a word by
three (the tag of 3 + 32 bits is a `uint64`) and the fixed types are one to eight bytes;
`CodecAssumption`, that values sent are ones a field can hold, a word is wide enough
for 128, and unknown fields are unknown to the type they are sent with. A message
that would fill more than an int can count is not sent, and `Rewriting` says nothing of it,
as the code would not be able to allocate it.

**Model-checked only.** The liveness properties `CatchesUp` and `ReadingEnds`, with
fairness and ENABLED, are beyond this prover. `PacketsPayOnce`, a sum over the
packets that a step is the first to deliver, is checked by TLC and has no theorem yet.
Every other property of the passing runs is stated by a theorem.

What the properties do not tell. A branch that was kept after a failed message would
conserve money and keep the registry write-once, so that `SupplyConserved` and
`RegistryWriteOnce` do not show that rollbacks happen; `ExecMsg`, `FailTx` and
`EndTx` say it themselves. `CommittedIsReplay` replays blocks with the same
`Receive`, and would not notice a second delivery; `PacketsPayOnce` is about that.
`NoValidatorMissing` takes the stakes as `Parsed` shifts them. `Rewriting` compares
each form with itself, not the pulsar form with the gogo form, which drops unknown
fields.

## 5. Where code and documentation disagree

Each is a run in which TLC finds a behaviour of the model that the quoted line
of the repository rules out; `PROJECT.json` has the quotations.

- *exempt*: the exemption of identity messages is misspelled
  (`/Nexelra.identity...` for `/nexelra.identity...`). Its consequence is
  `OnlyPacketsRegister`: the set of members is closed at genesis.
- *time*: `CreateIdentity` stores the local clock; replicas diverge.
- *spelling*: bech32 accepts an address in capital letters; the same account
  registers a second identity under it.

Observations that the models make visible and that have no run of their own:

- of "all recipients in every type of transaction" (`ante.go:162`) two message types
  are looked at (`ante.go:192`): creating a vesting account pays an unregistered
  address (`IdentityGate!GateRecipients`);
- fees are not deducted "from the first signer" (`ante.go:22`) if the transaction
  names a payer or a granter (`ante.go:43`, `app.go:434`), and the gate looks up
  neither: a registered signer may act at the expense of an address without an
  identity, if that address signs as the payer or has given the payer an allowance
  (`Node!UnregisteredPaysAgreedFees` says that it pays in no other way);
- after a restart the check state has height 0 until the next commit, which the gate
  takes for genesis (`ante.go:74`): `CheckTx` admits transactions that no block will
  execute, until the recheck after that commit turns them out
  (`Node!AdmittedPassGate` holds from then on);
- `copyFile` may fail unnoticed (`testnet_multi_node.go:329`), so that node
  application states that "should not differ" (`:453`) do; the fourth loop's use of
  the first one everywhere is what makes `SameRunSameGenesis` hold. Each directory
  has a finished genesis file of its own in between, from genutil (`:438`), which is
  what an interrupt leaves in one of them; and two runs that are given one
  `--chain-id` leave different genesis files of one chain;
- `IdentityByCccdId` filters after the page was cut
  (`query_identity_by_cccd_id.go:32`): without a page request it looks at the first
  hundred identities of the list, and one registered behind them is not found;
- an entry of `--validators-stake-amount` that does not parse does not default, it
  is skipped and the later entries move up (`TestnetFiles!Parsed`, `Stake`);
- a run of `multi-node` with fewer validators than an earlier one over the same
  directory fails each time, because the gentx directories still hold
  transactions of accounts it does not fund (`TestnetFiles!Collectable`);
- on a chain whose initial height is above 1, genesis transactions are executed at
  that height, find no identities and halt the node (`Node!GenesisGateOpen` has the
  condition);
- a zero-height export with `--jail-allowed-addrs` panics if the list leaves out
  a validator that is not jailed yet and is among the first `MaxValidators` of the
  power index: the flag is set, the index keeps it
  (`Export!FailsForUnlistedOnly` says that it fails for no other reason);
- a node that ran `in-place-testnet`, stopped before the first block was committed
  and was then started with `start` stands still, or, if its key belonged to a
  bonded validator of the old chain, goes on with a CometBFT set that `x/staking`
  does not have (`InPlaceTestnet!ChainGoesOn` and `SetsAgree` have the condition);
- the command keeps delegations to the validators it removes, and the new
  validator's tokens are in no pool. With 9 * 10^14 tokens for 10^7 shares
  (`testnet.go:103`) a delegation kept at the operator address it is given is worth
  9 * 10^7 times what was paid: undelegating it takes the coins of those who joined out
  of the bonded pool, and the block in which one of them leaves the set fails
  (`InPlaceTestnet!ChainGoesOn` excepts it, as `kept`; without the exception TLC finds
  it in six steps). The command is safe with an operator address that has no
  delegations. The crisis invariants fail in any case, if anybody checks them;
- `snapshots delete` can never delete a snapshot by its height, for a snapshot is a
  directory with files and `os.Remove` refuses it; an empty directory is what it can
  remove. What a crash leaves half made stays and is counted forever. But the path it
  is given is joined unchecked (`commands.go:488`): `5/3/0` is a chunk of a snapshot,
  which it removes and the node goes on offering (`Snapshots!OfferedAreWhole` excepts
  `damaged`), and so are the files of the node's metadata, and with `..` files outside;
- `snapshots list` prints what is not a directory (`commands.go:436`), hence no
  snapshot; create and restore only print;
- without a setting `info` shows an interval of 100, while the node takes none.

## 6. What is left out, and assumptions about libraries

Libraries are modelled from how the code uses them: the SDK's ante decorators
and bank, vesting and IBC handlers in `Ledger`; baseapp and CometBFT in `Node`
and `Replicas`; staking, slashing and distribution in `Export` and `InPlaceTestnet`;
`genutil` in `TestnetFiles`; `query.Paginate` in `Queries`; the snapshot manager in
`Snapshots`; the page messages and the pulsar runtime in the codecs.
In particular: writes of a failed ante chain or of failed messages are dropped;
the context of InitChain has height 0 unless the initial height is above 1;
optimistic execution is not used at the initial height, and accepting another
proposal aborts the execution in progress; `Commit` removes a block's
transactions from the mempool and has the others rechecked, before new ones are
checked; a packet with a receipt is not executed again; `genutil` rejects a
genesis transaction whose account has no sufficient balance in the genesis file;
a snapshot's metadata is written after its chunks and removed before them, and
directories are removed only when empty; a validator unbonds for longer than its
key stays in CometBFT's sets.

Abstractions: amounts are in one unit and every transfer moves one; a packet
carries one message; fee and gas limits, limits and expiry of fee allowances, and
simulation are left out, and signatures are taken as valid (a simulated transaction leaves no trace, and `RecheckTx` runs the same
decorators apart from the signature itself); the mempool is a set, so that a
block may take its transactions in any order, and any others; messages inside
others (`MsgExec` of x/authz, group proposals) do not occur, in packets or in genesis
transactions either (in an ordinary transaction the gate, which does not know their
signers' fields, rejects them), and no module account is in `Address`, so that
escrows of transfers between chains are left out; outside
`Spellings`, an address is an address and not a string for one. Rejected `CheckTx` calls
change nothing and are not actions. In `TestnetFiles`, port numbers and TOML
files are left out, amounts are positive, and writing one file is one step
except in the copies. In `Export`, there are no more validators than
`MaxValidators`, to which the SDK limits what it looks at of the power index, a slash halves the stake, a delegation has one
amount, a payment never fails, the crisis invariants asserted first are
properties instead of a guard, and the lists name validators only. In
`InPlaceTestnet` delegations to one validator, the operator's own included, are a
single sum, nothing is slashed, the operator of the command's validator leaves what he
staked with himself, and the distribution records of the validators
and the coins minted for accounts are left out: they decide only whether single
transactions fail, as undelegating from a removed validator may, which the model lets
succeed. In `Snapshots`, what `delete` is asked to remove is a height or a chunk; files of
the node's metadata and paths outside the directory are left out, and a height's
directory is `empty` with or without its empty subdirectory. In `Codec`, a message field that occurs twice in bytes
from outside is read as the concatenation of its occurrences (`Merged`); for the
pulsar forms this is what the external runtime does with an existing message.
Bytes from outside are offered to `MsgCreateIdentity`, `MsgUpdateParams` and
`Identity`, the messages of transactions and of the store; the others are
instances of the same loops.

Not modelled: command-line root, configuration and `main` (wiring of cobra, viper
and depinject, without state); the simulation drivers (the one operation is a
stub that reports a no-op); gRPC gateway and service stubs, descriptors,
the single-field reflection accessors of the pulsar messages, protobuf
definitions and documentation pages; `RemoveIdentity`, which nothing calls; the
begin and end blockers of other modules except where `Export` and
`InPlaceTestnet` need them; the other IBC applications.

## 7. Plan

The order in which the project was built: Identity, IdentityGate, Ledger, Node
with Registry and its proofs; Replicas; TestnetFiles; Queries; Export; Codec;
InPlaceTestnet; Snapshots; Spellings; the proofs of Snapshots, Queries,
TestnetFiles and of the genesis round trip; induction over data, and with it
conservation of money, replay, the in-place testnet, the export and the codecs; fee
payers and allowances, the check height after a restart, the two writes of a genesis
file, the share rate of the in-place testnet, and chunks in `snapshots delete`.

What would come next: a proof of `PacketsPayOnce`, and the parts that section 6 lists as
not modelled.
