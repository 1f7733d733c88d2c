------------------------------ MODULE Replicas ------------------------------
(***************************************************************************)
(* Several nodes executing one chain of blocks, each with a clock of its   *)
(* own.  app.New turns on optimistic execution: a node starts executing a  *)
(* block when it accepts the proposal, before the block is decided, and    *)
(* has to start over when another block is.  Consensus is reduced to what  *)
(* the application sees of it: a proposal carries the app hash of its      *)
(* proposer, a node accepts only a proposal with its own app hash, and a   *)
(* block is decided when more than two thirds of the power accepted it.    *)
(***************************************************************************)
EXTENDS Ledger, FiniteSetsExt

CONSTANTS
  Replica,     \* the validators
  Power,       \* their voting power
  Payloads,    \* the lists of transactions a block may hold
  GenesisApp,  \* the state after InitChain
  NoExec,      \* no block is being executed; no block is proposed
  MaxHeight,   \* bound: the last block
  MaxRounds,   \* bound: rounds of one height
  MaxCrashes   \* bound: crashes of all nodes together

ASSUME ReplicaAssumption == IsFiniteSet(Replica) /\ Power \in [Replica -> Nat \ {0}]

ASSUME GenesisAppAssumption == GenesisApp \in AppState

ASSUME PayloadsAssumption == Payloads \subseteq Seq(Tx)

ASSUME TimeAssumption == Time # {}

ASSUME BoundsAssumption == MaxHeight \in Nat /\ MaxRounds \in Nat /\ MaxCrashes \in Nat

Block == [txs : Payloads, round : 0 .. MaxRounds, appHash : AppState]

(* A block under execution: its next transaction, and the state so far.    *)
Execution == [block : Block, next : Nat \ {0}, state : AppState]

ASSUME NoExecAssumption == NoExec \notin Block /\ NoExec \notin Execution

VARIABLES
  chain,     \* the decided blocks
  round,     \* the round of the height being decided
  proposal,  \* the block proposed in it, or NoExec
  accepted,  \* the nodes that accepted it
  app,       \* each node's committed state
  height,    \* each node's last committed height
  exec,      \* each node's execution in progress
  crashes    \* crashes so far

vars == <<chain, round, proposal, accepted, app, height, exec, crashes>>

-----------------------------------------------------------------------------
(* DeliverTx as a whole; Node has it message by message.                   *)

RunMsg(acc, m, now) ==
  IF acc.ok /\ HandlerOk(acc.state, m)
  THEN [ok |-> TRUE, state |-> AfterHandler(acc.state, m, now)]
  ELSE [acc EXCEPT !.ok = FALSE]

RunMsgs(s, msgs, now) ==
  LET run[i \in 0 .. Len(msgs)] ==
        IF i = 0 THEN [ok |-> TRUE, state |-> s] ELSE RunMsg(run[i - 1], msgs[i], now)
  IN  run[Len(msgs)]

DeliverTx(s, tx, h, now) ==
  IF AnteCode(s, tx, h) # "ok" THEN s
  ELSE LET run == RunMsgs(AfterAnte(s, tx), tx.msgs, now)
       IN  IF run.ok THEN run.state ELSE AfterAnte(s, tx)

Fresh(r, b) == [block |-> b, next |-> 1, state |-> app[r]]

-----------------------------------------------------------------------------

Init ==
  /\ chain = <<>> /\ round = 0 /\ proposal = NoExec /\ accepted = {}
  /\ app = [r \in Replica |-> GenesisApp]
  /\ height = [r \in Replica |-> 0]
  /\ exec = [r \in Replica |-> NoExec]
  /\ crashes = 0

Propose(r, txs) ==
  /\ proposal = NoExec /\ Len(chain) < MaxHeight /\ height[r] = Len(chain)
  /\ proposal' = [txs |-> txs, round |-> round, appHash |-> app[r]]
  /\ UNCHANGED <<chain, round, accepted, app, height, exec, crashes>>

(* ProcessProposal.  From the second block on, an execution in progress is *)
(* aborted and one of the proposal is started.                             *)
Accept(r) ==
  /\ proposal # NoExec /\ r \notin accepted
  /\ height[r] = Len(chain) /\ app[r] = proposal.appHash
  /\ accepted' = accepted \cup {r}
  /\ exec' = [exec EXCEPT ![r] = IF Len(chain) > 0 THEN Fresh(r, proposal) ELSE @]
  /\ UNCHANGED <<chain, round, proposal, app, height, crashes>>

(* The proposal is not decided in its round.  Executions of it go on.      *)
NextRound ==
  /\ proposal # NoExec /\ round < MaxRounds
  /\ round' = round + 1 /\ proposal' = NoExec /\ accepted' = {}
  /\ UNCHANGED <<chain, app, height, exec, crashes>>

PowerOf(R) == MapThenSumSet(LAMBDA r : Power[r], R)

Decide ==
  /\ proposal # NoExec /\ 3 * PowerOf(accepted) > 2 * PowerOf(Replica)
  /\ chain' = Append(chain, proposal)
  /\ round' = 0 /\ proposal' = NoExec /\ accepted' = {}
  /\ UNCHANGED <<app, height, exec, crashes>>

Decided(r) == chain[height[r] + 1]

Executing(r, b) == exec[r] # NoExec /\ exec[r].block = b

(* Mutant: a decided block has to wait for an execution in progress.       *)
FinalizeBlock_NoAbort(r) ==
  /\ height[r] < Len(chain) /\ app[r] = Decided(r).appHash
  /\ exec[r] = NoExec
  /\ exec' = [exec EXCEPT ![r] = Fresh(r, Decided(r))]
  /\ UNCHANGED <<chain, round, proposal, accepted, app, height, crashes>>

(* FinalizeBlock: the decided block is executed unless that is under way   *)
(* already.  A node whose state is not the block's app hash stops for good.*)
FinalizeBlock(r) ==
  /\ height[r] < Len(chain) /\ app[r] = Decided(r).appHash
  /\ ~Executing(r, Decided(r))
  /\ exec' = [exec EXCEPT ![r] = Fresh(r, Decided(r))]
  /\ UNCHANGED <<chain, round, proposal, accepted, app, height, crashes>>

ExecTx(r) ==
  /\ exec[r] # NoExec /\ exec[r].next <= Len(exec[r].block.txs)
  /\ \E now \in Time :
       exec' = [exec EXCEPT ![r] =
                  [block |-> @.block, next |-> @.next + 1,
                   state |-> DeliverTx(@.state, @.block.txs[@.next], height[r] + 1, now)]]
  /\ UNCHANGED <<chain, round, proposal, accepted, app, height, crashes>>

(* Mutants: whatever optimistic execution has finished is committed, as    *)
(* soon as some block is decided; or without any decision.                 *)
Commit_AnyBlock(r) ==
  /\ height[r] < Len(chain) /\ exec[r] # NoExec
  /\ exec[r].next > Len(exec[r].block.txs)
  /\ app' = [app EXCEPT ![r] = exec[r].state]
  /\ height' = [height EXCEPT ![r] = @ + 1]
  /\ exec' = [exec EXCEPT ![r] = NoExec]
  /\ UNCHANGED <<chain, round, proposal, accepted, crashes>>

Commit_Undecided(r) ==
  /\ exec[r] # NoExec
  /\ exec[r].next > Len(exec[r].block.txs)
  /\ app' = [app EXCEPT ![r] = exec[r].state]
  /\ height' = [height EXCEPT ![r] = @ + 1]
  /\ exec' = [exec EXCEPT ![r] = NoExec]
  /\ UNCHANGED <<chain, round, proposal, accepted, crashes>>

Commit(r) ==
  /\ height[r] < Len(chain) /\ Executing(r, Decided(r))
  /\ exec[r].next > Len(exec[r].block.txs)
  /\ app' = [app EXCEPT ![r] = exec[r].state]
  /\ height' = [height EXCEPT ![r] = @ + 1]
  /\ exec' = [exec EXCEPT ![r] = NoExec]
  /\ UNCHANGED <<chain, round, proposal, accepted, crashes>>

(* A crash loses the execution; CometBFT replays the block afterwards.     *)
Crash(r) ==
  /\ crashes < MaxCrashes /\ exec[r] # NoExec
  /\ crashes' = crashes + 1
  /\ exec' = [exec EXCEPT ![r] = NoExec]
  /\ UNCHANGED <<chain, round, proposal, accepted, app, height>>

Next ==
  \/ NextRound \/ Decide
  \/ \E r \in Replica :
       \/ \E txs \in Payloads : Propose(r, txs)
       \/ Accept(r) \/ FinalizeBlock(r) \/ ExecTx(r) \/ Commit(r) \/ Crash(r)

Spec == Init /\ [][Next]_vars

(* A node that has a decided block works on it: CometBFT calls             *)
(* FinalizeBlock and Commit without waiting for anybody else.              *)
Fairness ==
  \A r \in Replica : WF_(exec[r])(FinalizeBlock(r) \/ ExecTx(r) \/ Commit(r))

FairSpec == Spec /\ Fairness

-----------------------------------------------------------------------------
(* Properties.                                                             *)

TypeOK ==
  /\ chain \in Seq(Block)
  /\ round \in 0 .. MaxRounds /\ crashes \in 0 .. MaxCrashes
  /\ proposal \in Block \cup {NoExec}
  /\ accepted \subseteq Replica
  /\ app \in [Replica -> AppState]
  /\ height \in [Replica -> 0 .. Len(chain)]
  /\ exec \in [Replica -> Execution \cup {NoExec}]
  /\ \A r \in Replica :
       exec[r] # NoExec => exec[r].next <= Len(exec[r].block.txs) + 1

(* The state without the part that the local clock wrote.                  *)
WithoutTime(s) ==
  [s EXCEPT !.ids = [a \in Registered(@) |-> @[a].idHash]]

(* The states a block goes through, by any clock.                          *)
Effects(s, b, h) ==
  LET now == CHOOSE t \in Time : TRUE
      after[i \in 0 .. Len(b.txs)] ==
        IF i = 0 THEN s ELSE DeliverTx(after[i - 1], b.txs[i], h, now)
  IN  after

BlockEffect(s, b, h) == Effects(s, b, h)[Len(b.txs)]

(* The first h blocks of a chain, executed one after another from genesis. *)
Replayed(blocks, h) ==
  LET state[i \in 0 .. h] ==
        IF i = 0 THEN GenesisApp ELSE BlockEffect(state[i - 1], blocks[i], i)
  IN  state[h]

(* Every node holds what the decided blocks, executed in order from        *)
(* genesis, produce, times of creation set aside: no transaction of an     *)
(* abandoned proposal is left in the state, none is lost in a crash or     *)
(* executed twice.                                                         *)
CommittedIsReplay ==
  \A r \in Replica : WithoutTime(app[r]) = WithoutTime(Replayed(chain, height[r]))

(* TestAppStateDeterminism says that executing the same blocks twice       *)
(* yields the same app hash.  CreateIdentity stores time.Now(), so it does *)
(* not.                                                                    *)
SameBlocksSameState ==
  \A r, s \in Replica : height[r] = height[s] => app[r] = app[s]

(* A node that is behind catches up, unless it cannot because its state    *)
(* has departed from the app hash in the next block: optimistic execution  *)
(* of another proposal, or a crash, only delays it.                        *)
CatchesUp ==
  \A r \in Replica :
    height[r] < Len(chain)
      ~> (height[r] = Len(chain) \/ app[r] # Decided(r).appHash)

=============================================================================
