----------------------------- MODULE Snapshots -----------------------------
(***************************************************************************)
(* The snapshot commands look at data/snapshots while the node, if it      *)
(* runs, makes and prunes snapshots in it.  A snapshot at height h is a    *)
(* directory h with the chunks in it and an entry in the node's metadata;  *)
(* the node itself is external and modelled step by step, because each     *)
(* command reads the directory in the middle of what the node does.        *)
(***************************************************************************)
EXTENDS Integers, FiniteSets, FiniteSetsExt

CONSTANTS
  Settings,     \* values of snapshot-interval in app.toml; NotSet among them
  NotSet,
  KeepRecent,   \* snapshot-keep-recent, not 0
  MaxHeight,    \* bound on the height of the chain
  Width         \* of the progress bar

ASSUME SnapshotsAssumption ==
  /\ KeepRecent \in Nat \ {0} /\ MaxHeight \in Nat /\ Width \in Nat
  /\ NotSet \notin Int /\ Settings \subseteq Nat \cup {NotSet}

Height == 0..MaxHeight

(* none; a directory without chunks; some chunks; all of them.             *)
Content == {"none", "empty", "part", "full"}

VARIABLES
  setting,   \* snapshot-interval in app.toml
  up,        \* the node runs
  height,    \* of the last committed block
  dir,       \* [Height -> Content]: data/snapshots
  meta,      \* heights in the node's metadata: the snapshots it offers
  op,        \* what the node is doing with snapshots
  cli,       \* what a command is doing
  shown,     \* what snapshots info printed last
  damaged    \* history: heights that delete removed a chunk of

snapshotVars == <<setting, up, height, dir, meta, op, cli, shown, damaged>>
node == <<up, height, meta, op>>

IdleOp == [step |-> "idle", h |-> 0, todo |-> {}, bare |-> {}]
Making(h) == [step |-> "mkdir", h |-> h, todo |-> {}, bare |-> {}]
Ready == [step |-> "ready", h |-> 0, chunk |-> FALSE, count |-> 0, newest |-> 0]

SnapshotTypeOK ==
  /\ setting \in Settings /\ up \in BOOLEAN /\ height \in Height
  /\ dir \in [Height -> Content] /\ meta \subseteq Height
  /\ op.step \in {"idle", "mkdir", "write", "prune", "wipe"}
  /\ op.h \in Height /\ op.todo \subseteq Height /\ op.bare \subseteq Height
  /\ cli.step \in {"ready", "status", "counted", "confirm"}
  /\ cli.h \in Height /\ cli.chunk \in BOOLEAN /\ cli.newest \in Height
  /\ cli.count \in 0..Cardinality(Height)
  /\ shown.latest \in Height /\ damaged \subseteq Height
  /\ shown.last <= shown.height /\ shown.bar \in 0..Width

MaxOr0(S) == IF S = {} THEN 0 ELSE Max(S)

-----------------------------------------------------------------------------
(* The node.  Its own default, without a setting, is to take no snapshots. *)
NodeInterval == IF setting = NotSet THEN 0 ELSE setting
Due(h) == NodeInterval > 0 /\ h % NodeInterval = 0

(* A block is committed; if a snapshot is due and none is being made or    *)
(* pruned, a goroutine sets out to make it.                                *)
Commit ==
  /\ up /\ height < MaxHeight
  /\ height' = height + 1
  /\ op' = IF Due(height + 1) /\ op = IdleOp
           THEN Making(height + 1) ELSE op
  /\ UNCHANGED <<setting, up, dir, meta, cli, shown, damaged>>

(* MkdirAll makes the directory of the height and then that of the format, *)
(* and fails if the first is gone by then.                                 *)
MakeHeightDir ==
  /\ op.step = "mkdir" /\ dir[op.h] = "none"
  /\ dir' = [dir EXCEPT ![op.h] = "empty"]
  /\ op' = [op EXCEPT !.step = "write"]
  /\ UNCHANGED <<setting, up, height, meta, cli, shown, damaged>>

(* All but the latest KeepRecent.                                          *)
TooMany(M) == {h \in M : Cardinality({k \in M : k > h}) >= KeepRecent}

WriteChunks ==
  /\ op.step = "write"
  /\ IF dir[op.h] = "none"
     THEN op' = IdleOp /\ UNCHANGED <<dir, meta>>
     ELSE \/ /\ dir[op.h] = "empty"
             /\ dir' = [dir EXCEPT ![op.h] = "part"]
             /\ UNCHANGED <<meta, op>>
          \/ /\ dir[op.h] = "empty"  \* the directory within it was removed
             /\ op' = IdleOp /\ UNCHANGED <<dir, meta>>
          \/ /\ dir[op.h] = "part"
             /\ dir' = [dir EXCEPT ![op.h] = IF op.h \in damaged THEN "part" ELSE "full"]
             /\ meta' = meta \cup {op.h}
             /\ op' = [op EXCEPT !.step = "prune", !.h = 0, !.todo = TooMany(meta')]
  /\ UNCHANGED <<setting, up, height, cli, shown, damaged>>

(* Prune: of each snapshot too many the metadata, then the files; when all *)
(* are gone their directories, until one cannot be removed.                *)
Forget ==
  /\ op.step = "prune" /\ op.todo # {}
  /\ \E h \in op.todo :
       /\ meta' = meta \ {h}
       /\ op' = [op EXCEPT !.step = "wipe", !.h = h, !.todo = @ \ {h}]
  /\ UNCHANGED <<setting, up, height, dir, cli, shown, damaged>>

Wipe ==
  /\ op.step = "wipe"
  /\ dir' = [dir EXCEPT ![op.h] = IF @ = "none" THEN "none" ELSE "empty"]
  /\ op' = [op EXCEPT !.step = "prune", !.h = 0, !.bare = @ \cup {op.h}]
  /\ UNCHANGED <<setting, up, height, meta, cli, shown, damaged>>

RemoveDirs ==
  /\ op.step = "prune" /\ op.todo = {}
  /\ IF op.bare = {}
     THEN op' = IdleOp /\ UNCHANGED dir
     ELSE \E h \in op.bare :
            /\ dir' = [dir EXCEPT ![h] = "none"]
            /\ op' = IF dir[h] = "none" THEN IdleOp ELSE [op EXCEPT !.bare = @ \ {h}]
  /\ UNCHANGED <<setting, up, height, meta, cli, shown, damaged>>

Stop ==
  /\ up
  /\ up' = FALSE /\ op' = IdleOp
  /\ UNCHANGED <<setting, height, dir, meta, cli, shown, damaged>>

StartNode ==
  /\ ~up
  /\ up' = TRUE
  /\ UNCHANGED <<setting, height, dir, meta, op, cli, shown, damaged>>

-----------------------------------------------------------------------------
(* snapshots info.                                                         *)

(* A setting that is not found is shown as 100.                            *)
parseConfigValueInt == IF setting = NotSet THEN 100 ELSE setting

(* The height by RPC; 0 when the node is down or does not answer in time.  *)
getRealBlockchainStatus ==
  /\ cli.step = "ready"
  /\ \E h \in {0} \cup (IF up THEN {height} ELSE {}) :
       cli' = [cli EXCEPT !.step = "status", !.h = h]
  /\ UNCHANGED <<setting, node, dir, shown, damaged>>

SnapshotDirs == {h \in Height \ {0} : dir[h] # "none"}

(* Two readings of the directory, one for the count, one for the latest.   *)
countSnapshotFiles ==
  /\ cli.step = "status"
  /\ cli' = [cli EXCEPT !.step = "counted", !.count = Cardinality(SnapshotDirs),
                        !.newest = MaxOr0(meta)]
  /\ UNCHANGED <<setting, node, dir, shown, damaged>>

(* Mutant: the last entry of the directory, which is sorted by name.       *)
FirstDigit(h) == IF h < 10 THEN h ELSE h \div 10
getLatestSnapshotHeight_LastName ==
  IF SnapshotDirs = {} THEN 0
  ELSE CHOOSE h \in SnapshotDirs : \A k \in SnapshotDirs : FirstDigit(k) <= FirstDigit(h)

getLatestSnapshotHeight == MaxOr0(SnapshotDirs)

createProgressBar(current, total) ==
  IF total = 0 THEN 0 ELSE Min({(current * Width) \div total, Width})

(* Mutant: rounded up.                                                     *)
LastSnapshot_RoundsUp(h, interval) == ((h + interval - 1) \div interval) * interval

LastSnapshot(h, interval) == (h \div interval) * interval

runSnapshotInfo ==
  /\ cli.step = "counted"
  /\ LET interval == parseConfigValueInt
         last     == IF interval = 0 THEN 0 ELSE LastSnapshot(cli.h, interval)
     IN  shown' = [height |-> cli.h, last |-> last, next |-> last + interval,
                   bar    |-> createProgressBar(cli.h - last, interval),
                   count  |-> cli.count, newest |-> cli.newest,
                   latest |-> IF cli.count > 0 THEN getLatestSnapshotHeight ELSE 0]
  /\ cli' = Ready
  /\ UNCHANGED <<setting, node, dir, damaged>>

(* snapshots delete: look, ask, remove.  Any path may be named, a height   *)
(* as well as a chunk within it.  A directory that is not empty is not     *)
(* removed, nor is what has gone in the meantime.                          *)
AskToDelete ==
  /\ cli.step = "ready"
  /\ \E h \in SnapshotDirs, chunk \in BOOLEAN :
       /\ chunk => dir[h] \in {"part", "full"}
       /\ cli' = [cli EXCEPT !.step = "confirm", !.h = h, !.chunk = chunk]
  /\ UNCHANGED <<setting, node, dir, shown, damaged>>

(* Mutant: the directory is removed with what is in it.                    *)
AfterRemove_All(h) == [dir EXCEPT ![h] = "none"]

AfterRemove(h) == IF dir[h] = "empty" THEN [dir EXCEPT ![h] = "none"] ELSE dir

RemoveChunk(h) ==
  /\ dir[h] \in {"part", "full"}
  /\ dir' \in {[dir EXCEPT ![h] = c] : c \in {"empty", "part"}}
  /\ damaged' = damaged \cup {h}

runSnapshotDelete ==
  /\ cli.step = "confirm"
  /\ \/ dir' = dir /\ UNCHANGED damaged  \* the answer is no, or it has gone
     \/ ~cli.chunk /\ dir' = AfterRemove(cli.h) /\ UNCHANGED damaged
     \/ cli.chunk /\ RemoveChunk(cli.h)
  /\ cli' = Ready
  /\ UNCHANGED <<setting, node, shown>>

-----------------------------------------------------------------------------
(* A node that was stopped, with the snapshots it had; one more than it    *)
(* keeps if its setting was lowered.                                       *)
SnapshotInit ==
  /\ setting \in Settings /\ up = FALSE
  /\ height \in Height
  /\ meta \in {M \in SUBSET {h \in 1..height : Due(h)} : Cardinality(M) <= KeepRecent + 1}
  /\ dir = [h \in Height |-> IF h \in meta THEN "full" ELSE "none"]
  /\ op = IdleOp /\ cli = Ready /\ damaged = {}
  /\ shown = [height |-> 0, last |-> 0, next |-> 0, bar |-> 0,
              count |-> 0, newest |-> 0, latest |-> 0]

SnapshotNext ==
  \/ Commit \/ MakeHeightDir \/ WriteChunks \/ Forget \/ Wipe \/ RemoveDirs
  \/ Stop \/ StartNode
  \/ getRealBlockchainStatus \/ countSnapshotFiles \/ runSnapshotInfo
  \/ AskToDelete \/ runSnapshotDelete

SnapshotSpec == SnapshotInit /\ [][SnapshotNext]_snapshotVars

-----------------------------------------------------------------------------
(* Every snapshot the node offers has its files, unless delete was told to *)
(* remove a chunk of it: a height that is named when it is empty, and is   *)
(* filled before the answer, stays.  Naming a chunk is another matter:     *)
(* nothing keeps delete from removing it, or the node from offering what   *)
(* is left.                                                                *)
OfferedAreWhole == \A h \in meta \ damaged : dir[h] = "full"

(* What info prints as the latest is not older than a snapshot that was    *)
(* complete when it counted: what is pruned in between is older, and the   *)
(* directory is read to the end, for its order is that of the names.  Once *)
(* a chunk was deleted, the newest may be one that has no directory left.  *)
LatestIsNewest == damaged = {} => shown.latest >= shown.newest

=============================================================================
