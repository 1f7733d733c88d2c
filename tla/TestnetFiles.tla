---------------------------- MODULE TestnetFiles ----------------------------
(***************************************************************************)
(* "nexelrad multi-node": the files of a local network of n validators,    *)
(* laid out in one directory per validator.  The command works on a disk   *)
(* that earlier runs, complete or not, have left behind: node keys are     *)
(* kept (so a directory names its validator), account keys are made anew.  *)
(***************************************************************************)
EXTENDS Integers, FiniteSets, Sequences

CONSTANTS
  MaxValidators,  \* bound: validators of a run
  MaxRuns,        \* bound: runs of the command
  ChainIds,       \* values of --chain-id, or made up at random
  StakeLists,     \* values of --validators-stake-amount, split at the commas
  NotANumber,     \* an entry that does not parse
  DefaultStake,   \* tokens a validator stakes when there is no entry for it
  Tokens,         \* tokens every account starts with
  None,           \* no such file
  Broken          \* a file cut off while it was written

ASSUME StakeAssumption ==
  /\ StakeLists \subseteq Seq(Nat \cup {NotANumber})
  /\ NotANumber \notin Nat
  /\ Tokens \in Nat /\ DefaultStake \in 0 .. Tokens

ASSUME BoundsAssumption == MaxValidators \in Nat /\ MaxRuns \in Nat

Dir == 0 .. MaxValidators - 1

Account == [owner : Dir, run : 1 .. MaxRuns]

GenTx == [account : Account, stake : Nat]

AppState == [accounts : SUBSET Account, gentxs : SUBSET GenTx]

(* A genesis file: the run that made it (its accounts tell), and its time: *)
(* none yet, the moment its own directory was collected, or the one        *)
(* genTime of collectGenFiles.                                             *)
GenDoc ==
  [run : 1 .. MaxRuns, chain : ChainIds, time : {"none", "own", "common"},
   accounts : SUBSET Account, gentxs : SUBSET GenTx]

ASSUME FilesAssumption ==
  /\ None \notin GenTx \cup GenDoc \cup AppState \cup ChainIds
  /\ Broken \notin GenTx /\ None # Broken

(* A directory: the files in config/gentx, one per validator it has heard  *)
(* of, and the genesis file.                                               *)
Files == [gentx : [Dir -> GenTx \cup {None, Broken}], genesis : GenDoc \cup {None}]

NoFiles == [gentx |-> [d \in Dir |-> None], genesis |-> None]

VARIABLES
  phase,     \* "idle", "init", "genesis", "copy", "collect", "overwrite", "done", "failed"
  run,       \* runs so far
  chain,     \* chain id of this run
  n,         \* validators of this run
  entries,   \* its list of stakes
  i,         \* counter of the loop the command is in
  accounts,  \* genAccounts
  appState,  \* the canonical application state, or None
  disk,      \* the directories
  lost       \* history: copies of this run that failed, as <<from, to>>

filesVars == <<phase, run, chain, n, entries, i, accounts, appState, disk, lost>>

FilesInit ==
  /\ phase = "idle" /\ run = 0 /\ chain = None /\ n = 0 /\ entries = <<>> /\ i = 0
  /\ accounts = {} /\ appState = None
  /\ disk = [d \in Dir |-> NoFiles] /\ lost = {}

-----------------------------------------------------------------------------
(* Entries that do not parse are skipped, so that later ones move up: an   *)
(* entry is stored under the number of those before it that did parse.     *)
Parsed(list) == {k \in DOMAIN list : list[k] # NotANumber}

Top(list, k) == Cardinality({j \in Parsed(list) : j < k})

Stake(list, d) ==
  LET at == {k \in Parsed(list) : Top(list, k) = d}
  IN  IF at = {} THEN DefaultStake ELSE list[CHOOSE k \in at : TRUE]

(* A genesis file of this run.                                             *)
Exported(time, state) ==
  [run |-> run, chain |-> chain, time |-> time,
   accounts |-> state.accounts, gentxs |-> state.gentxs]

Me(d) == [owner |-> d, run |-> run]

OwnGenTx(d) == [account |-> Me(d), stake |-> Stake(entries, d)]

(* Mutant: genAccounts survives from one run to the next.                  *)
Start_KeepsAccounts(k, list, id) ==
  /\ phase \in {"idle", "done", "failed"} /\ run < MaxRuns
  /\ run' = run + 1 /\ chain' = id /\ n' = k /\ entries' = list /\ i' = 0
  /\ phase' = "init" /\ appState' = None /\ lost' = {}
  /\ UNCHANGED <<accounts, disk>>

Start(k, list, id) ==
  /\ phase \in {"idle", "done", "failed"} /\ run < MaxRuns
  /\ run' = run + 1 /\ chain' = id /\ n' = k /\ entries' = list /\ i' = 0
  /\ phase' = "init" /\ accounts' = {} /\ appState' = None
  /\ lost' = {}
  /\ UNCHANGED disk

(* initTestnetFiles, one round of its first loop: keys, the account, the   *)
(* signed genesis transaction.                                             *)
InitNode ==
  /\ phase = "init" /\ i < n /\ i' = i + 1
  /\ accounts' = accounts \cup {Me(i)}
  /\ disk' = [disk EXCEPT ![i].gentx[i] = OwnGenTx(i)]
  /\ UNCHANGED <<phase, run, chain, n, entries, appState, lost>>

(* Three of the errors of that loop remove the whole output directory, the *)
(* others leave it as it is.                                               *)
InitError ==
  /\ phase = "init" /\ i < n /\ phase' = "failed"
  /\ disk' \in {disk, [d \in Dir |-> NoFiles]}
  /\ UNCHANGED <<run, chain, n, entries, i, accounts, appState, lost>>

InitDone ==
  /\ phase = "init" /\ i = n /\ phase' = "genesis" /\ i' = 0
  /\ UNCHANGED <<run, chain, n, entries, accounts, appState, disk, lost>>

(* initGenFiles: a genesis file without genesis transactions.              *)
WriteGenesis ==
  /\ phase = "genesis" /\ i < n /\ i' = i + 1
  /\ disk' = [disk EXCEPT ![i].genesis =
                Exported("none", [accounts |-> accounts, gentxs |-> {}])]
  /\ UNCHANGED <<phase, run, chain, n, entries, accounts, appState, lost>>

GenesisDone ==
  /\ phase = "genesis" /\ i = n /\ phase' = "copy" /\ i' = 0
  /\ UNCHANGED <<run, chain, n, entries, accounts, appState, disk, lost>>

(* Every genesis transaction of this run goes to every other directory.    *)
Source == i % n

Target == i \div n

CopyGenTx ==
  /\ phase = "copy" /\ i < n * n /\ i' = i + 1
  /\ disk' = [disk EXCEPT ![Target].gentx[Source] = disk[Source].gentx[Source]]
  /\ UNCHANGED <<phase, run, chain, n, entries, accounts, appState, lost>>

(* Nobody looks at what copyFile returns: it may have left the target as   *)
(* it was, or truncated.                                                   *)
CopyFails ==
  /\ phase = "copy" /\ i < n * n /\ Source # Target /\ i' = i + 1
  /\ lost' = lost \cup {<<Source, Target>>}
  /\ \E left \in {disk[Target].gentx[Source], Broken} :
       disk' = [disk EXCEPT ![Target].gentx[Source] = left]
  /\ UNCHANGED <<phase, run, chain, n, entries, accounts, appState>>

(* Mutant: the first directory misses the last file.                       *)
CopyDone_Early ==
  /\ phase = "copy" /\ i = n - 1 /\ phase' = "collect" /\ i' = 0
  /\ UNCHANGED <<run, chain, n, entries, accounts, appState, disk, lost>>

CopyDone ==
  /\ phase = "copy" /\ i = n * n /\ phase' = "collect" /\ i' = 0
  /\ UNCHANGED <<run, chain, n, entries, accounts, appState, disk, lost>>

(* collectGenFiles.  genutil takes every file of the directory, those of   *)
(* earlier runs included, and refuses the lot for one that does not parse, *)
(* whose account is not in the genesis file or stakes more than it has.    *)
Collected(d) == {disk[d].gentx[s] : s \in {s \in Dir : disk[d].gentx[s] # None}}

Collectable(d) ==
  /\ Broken \notin Collected(d)
  /\ \A tx \in Collected(d) :
       tx.account \in disk[d].genesis.accounts /\ tx.stake <= Tokens

AppStateOf(d) == [accounts |-> disk[d].genesis.accounts, gentxs |-> Collected(d)]

(* Mutant: each node keeps the application state it came up with.          *)
Canonical_Own == AppStateOf(i)

Canonical == IF appState = None THEN AppStateOf(i) ELSE appState

(* genutil.GenAppStateFromConfig itself writes a finished genesis file:    *)
(* what this directory has collected, at the time it is.                   *)
CollectNode ==
  /\ phase = "collect" /\ i < n /\ Collectable(i) /\ phase' = "overwrite"
  /\ appState' = Canonical
  /\ disk' = [disk EXCEPT ![i].genesis =
                [@ EXCEPT !.time = "own", !.gentxs = Collected(i)]]
  /\ UNCHANGED <<run, chain, n, entries, i, accounts, lost>>

(* It is then overwritten with the first application state and one time.   *)
OverwriteNode ==
  /\ phase = "overwrite" /\ phase' = "collect" /\ i' = i + 1
  /\ disk' = [disk EXCEPT ![i].genesis = Exported("common", appState)]
  /\ UNCHANGED <<run, chain, n, entries, accounts, appState, lost>>

(* Mutant: the loop goes on after an error.                                *)
CollectError_Continues ==
  /\ phase = "collect" /\ i < n /\ ~Collectable(i) /\ i' = i + 1
  /\ UNCHANGED <<phase, run, chain, n, entries, accounts, appState, disk, lost>>

CollectError ==
  /\ phase = "collect" /\ i < n /\ ~Collectable(i) /\ phase' = "failed"
  /\ UNCHANGED <<run, chain, n, entries, i, accounts, appState, disk, lost>>

Finish ==
  /\ phase = "collect" /\ i = n /\ phase' = "done"
  /\ UNCHANGED <<run, chain, n, entries, i, accounts, appState, disk, lost>>

(* The command is interrupted, or fails for a reason of its environment.   *)
Interrupt ==
  /\ phase \in {"genesis", "copy", "collect", "overwrite"} /\ phase' = "failed"
  /\ UNCHANGED <<run, chain, n, entries, i, accounts, appState, disk, lost>>

FilesNext ==
  \/ \E k \in 1 .. MaxValidators, list \in StakeLists, id \in ChainIds : Start(k, list, id)
  \/ InitNode \/ InitError \/ InitDone \/ WriteGenesis \/ GenesisDone
  \/ CopyGenTx \/ CopyFails \/ CopyDone
  \/ CollectNode \/ OverwriteNode \/ CollectError \/ Finish \/ Interrupt

FilesSpec == FilesInit /\ [][FilesNext]_filesVars

-----------------------------------------------------------------------------
(* Properties.                                                             *)

(* The variables hold what the command keeps in them, and its accounts are *)
(* those of this run: initArgs and genAccounts start empty.                *)
FilesTypeOK ==
  /\ phase \in {"idle", "init", "genesis", "copy", "collect", "overwrite", "done", "failed"}
  /\ run \in 0 .. MaxRuns /\ chain \in ChainIds \cup {None} /\ n \in 0 .. MaxValidators
  /\ entries \in StakeLists \cup {<<>>}
  /\ i \in 0 .. n * n
  /\ accounts \subseteq {Me(d) : d \in 0 .. n - 1}
  /\ appState \in AppState \cup {None}
  /\ disk \in [Dir -> Files]
  /\ lost \subseteq Dir \X Dir

Complete(d) == disk[d].genesis # None /\ disk[d].genesis.gentxs # {}

(* The finished genesis files of one run are the same, time and all,       *)
(* whatever copies failed, whatever came before and wherever the run       *)
(* stopped, but for at most one directory: the one that collectGenFiles    *)
(* was at, between genutil's own file and the common one.  A run that      *)
(* succeeds leaves no such directory: validators started from files that   *)
(* differ could not agree on the first block.                              *)
SameRunSameGenesis ==
  /\ \A r \in 1 .. MaxRuns : \E odd \in Dir \cup {None} : \A d, e \in Dir \ {odd} :
       Complete(d) /\ Complete(e) /\ disk[d].genesis.run = r /\ disk[e].genesis.run = r
         => disk[d].genesis = disk[e].genesis /\ disk[d].genesis.time = "common"
  /\ phase = "done" =>
       \A d, e \in 0 .. n - 1 : disk[d].genesis = disk[e].genesis

(* When the command reports success, each of its directories has a genesis *)
(* file of this run that InitChain accepts: its validators are funded, and *)
(* no genesis transaction of an earlier run is among them.                 *)
SuccessMeansReady ==
  phase = "done" =>
    \A d \in 0 .. n - 1 :
      /\ Complete(d) /\ disk[d].genesis.run = run /\ disk[d].genesis.chain = chain
      /\ \A tx \in disk[d].genesis.gentxs :
           tx.account \in disk[d].genesis.accounts /\ tx.stake <= Tokens

(* And it has all validators, each with its own stake, as long as no copy  *)
(* into the first directory failed: the other copies do not matter.        *)
NoValidatorMissing ==
  phase = "done" /\ (\A p \in lost : p[2] # 0) =>
    disk[0].genesis.gentxs = {OwnGenTx(d) : d \in 0 .. n - 1}

=============================================================================
