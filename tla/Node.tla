-------------------------------- MODULE Node --------------------------------
(***************************************************************************)
(* One Nexelra node under CometBFT: InitChain with its genesis             *)
(* transactions, the blocks with their transactions executed message by    *)
(* message, Commit, the mempool that checks and rechecks transactions      *)
(* against a state of its own, and a crash at any moment.                  *)
(***************************************************************************)
EXTENDS Ledger, FiniteSetsExt

CONSTANTS
  NoTx,          \* no transaction is being executed; no result yet
  Bodies,        \* what transactions say, apart from their sequence numbers
  MaxNonce,      \* bound: the largest sequence number signed over
  GenesisDocs,   \* the genesis documents a chain may start from
  MaxHeight,     \* bound: the last block
  MaxBlockTxs,   \* bound: transactions in a block
  MaxMempool     \* bound: transactions in the mempool

ASSUME BodiesAssumption ==
  \A b \in Bodies :
    /\ b.msgs \in Seq(Msg) /\ b.msgs # <<>> /\ b.fee \in Nat
    /\ b.payer \in Address \cup {NoAddress} /\ b.granter \in Address \cup {NoAddress}

ASSUME BoundsAssumption ==
  MaxNonce \in Nat /\ MaxHeight \in Nat /\ MaxBlockTxs \in Nat /\ MaxMempool \in Nat

ASSUME GenesisAssumption ==
  \A g \in GenesisDocs :
    /\ g.app \in AppState
    /\ g.app.ids = EmptyStore
    /\ g.identities \in Seq(IdentityRecord)
    /\ g.gentxs \in Seq(Tx)
    /\ g.initialHeight \in Nat \ {0}

(* A transaction under execution: the next message to run, on a branch.    *)
Running == [tx : Tx, next : Nat \ {0}, branch : AppState]

Code == {"ok", "basic", "fee", "sequence", "identity", "failed"}

Results == [tx : Tx, code : Code]

ASSUME NoTxAssumption == NoTx \notin Running /\ NoTx \notin Results

VARIABLES
  phase,      \* "new", "gentx", "idle", "block" or "halted"
  genesis,    \* the genesis document in use
  height,     \* the last committed height, 0 before the first
  committed,  \* the state on disk
  deliver,    \* the state of the block being executed
  running,    \* the transaction being executed, on a branch of deliver
  block,      \* the transactions the current block has executed
  check,      \* the state CheckTx works on
  checkHeight,\* the height in the context CheckTx works with
  mempool,    \* admitted transactions
  stale,      \* those of them not rechecked since the last commit
  resp        \* result of the last transaction of a block

chainVars == <<phase, genesis, height, committed, deliver, running, block, resp>>
poolVars  == <<check, checkHeight, mempool, stale>>
vars      == <<phase, genesis, height, committed, deliver, running, block,
               check, checkHeight, mempool, stale, resp>>

NoncesFor(b) ==
  {n \in [Address -> 0 .. MaxNonce] : \A a \in Address \ TxSigners(b) : n[a] = 0}

Signed(b, n) ==
  [msgs |-> b.msgs, fee |-> b.fee, payer |-> b.payer, granter |-> b.granter, nonce |-> n]

Txs == UNION {{Signed(b, n) : n \in NoncesFor(b)} : b \in Bodies}

Result(tx, code) == [tx |-> tx, code |-> code]

Init ==
  /\ phase = "new" /\ genesis \in GenesisDocs /\ height = 0
  /\ committed = NoState /\ deliver = NoState /\ check = NoState
  /\ running = NoTx /\ block = <<>>
  /\ checkHeight = 0 /\ mempool = {} /\ stale = {}
  /\ resp = NoTx

(* The context of InitChain has height 0 unless the chain starts above 1.  *)
GenesisHeight == IF genesis.initialHeight > 1 THEN genesis.initialHeight ELSE 0

BlockHeight == IF height = 0 THEN genesis.initialHeight ELSE height + 1

DeliverHeight == IF phase = "gentx" THEN GenesisHeight ELSE BlockHeight

-----------------------------------------------------------------------------
(* InitChain runs the modules' InitGenesis in genesisModuleOrder: auth and *)
(* bank, then genutil, which executes the genesis transactions, and        *)
(* x/identity at the very end.                                             *)

InitChain ==
  /\ phase = "new"
  /\ phase' = "gentx" /\ deliver' = genesis.app /\ block' = <<>>
  /\ checkHeight' = GenesisHeight
  /\ UNCHANGED <<genesis, height, committed, running, resp, check, mempool, stale>>

InitIdentities ==
  /\ phase = "gentx" /\ running = NoTx /\ Len(block) = Len(genesis.gentxs)
  /\ phase' = "idle" /\ block' = <<>>
  /\ deliver' = [deliver EXCEPT !.ids = ImportInto(@, genesis.identities)]
  /\ UNCHANGED <<genesis, height, committed, running, resp, poolVars>>

-----------------------------------------------------------------------------
(* FinalizeBlock and Commit.                                               *)

BeginBlock ==
  /\ phase = "idle" /\ BlockHeight <= MaxHeight
  /\ phase' = "block" /\ block' = <<>>
  /\ UNCHANGED <<genesis, height, committed, deliver, running, resp, poolVars>>

NextTx(tx) ==
  /\ running = NoTx
  /\ \/ phase = "block" /\ Len(block) < MaxBlockTxs /\ tx \in Txs
     \/ /\ phase = "gentx" /\ Len(block) < Len(genesis.gentxs)
        /\ tx = genesis.gentxs[Len(block) + 1]

(* A genesis transaction that fails makes InitChain, and the node, panic.  *)
PhaseAfterFailure == IF phase = "gentx" THEN "halted" ELSE phase

(* The ante chain objects: nothing it wrote is kept.                       *)
RejectTx(tx) ==
  /\ NextTx(tx) /\ AnteCode(deliver, tx, DeliverHeight) # "ok"
  /\ resp' = Result(tx, AnteCode(deliver, tx, DeliverHeight))
  /\ block' = Append(block, tx) /\ phase' = PhaseAfterFailure
  /\ UNCHANGED <<genesis, height, committed, deliver, running, poolVars>>

(* The ante chain agrees: fee and sequence numbers are kept whatever the   *)
(* messages do, which run on a branch.                                     *)
BeginTx(tx) ==
  /\ NextTx(tx) /\ AnteCode(deliver, tx, DeliverHeight) = "ok"
  /\ deliver' = AfterAnte(deliver, tx)
  /\ running' = [tx |-> tx, next |-> 1, branch |-> AfterAnte(deliver, tx)]
  /\ UNCHANGED <<phase, genesis, height, committed, block, resp, poolVars>>

ExecMsg ==
  /\ running # NoTx /\ running.next <= Len(running.tx.msgs)
  /\ LET m == running.tx.msgs[running.next]
     IN  /\ HandlerOk(running.branch, m)
         /\ \E now \in Time :
              running' = [running EXCEPT !.next = @ + 1,
                                         !.branch = AfterHandler(@, m, now)]
  /\ UNCHANGED <<phase, genesis, height, committed, deliver, block, resp, poolVars>>

FailTx ==
  /\ running # NoTx /\ running.next <= Len(running.tx.msgs)
  /\ ~HandlerOk(running.branch, running.tx.msgs[running.next])
  /\ running' = NoTx /\ resp' = Result(running.tx, "failed")
  /\ block' = Append(block, running.tx) /\ phase' = PhaseAfterFailure
  /\ UNCHANGED <<genesis, height, committed, deliver, poolVars>>

EndTx ==
  /\ running # NoTx /\ running.next > Len(running.tx.msgs)
  /\ deliver' = running.branch
  /\ running' = NoTx /\ resp' = Result(running.tx, "ok")
  /\ block' = Append(block, running.tx)
  /\ UNCHANGED <<phase, genesis, height, committed, poolVars>>

(* Mutant: what is left in the mempool is not rechecked.                   *)
Commit_NoRecheck ==
  /\ phase = "block" /\ running = NoTx
  /\ phase' = "idle" /\ height' = BlockHeight /\ block' = <<>>
  /\ committed' = deliver /\ check' = deliver /\ checkHeight' = BlockHeight
  /\ mempool' = mempool \ {block[i] : i \in DOMAIN block}
  /\ stale' = {}
  /\ UNCHANGED <<genesis, deliver, running, resp>>

(* Commit also replaces the check state and drops the block's transactions *)
(* from the mempool; what is left has to be rechecked.                     *)
Commit ==
  /\ phase = "block" /\ running = NoTx
  /\ phase' = "idle" /\ height' = BlockHeight /\ block' = <<>>
  /\ committed' = deliver /\ check' = deliver /\ checkHeight' = BlockHeight
  /\ mempool' = mempool \ {block[i] : i \in DOMAIN block}
  /\ stale' = mempool'
  /\ UNCHANGED <<genesis, deliver, running, resp>>

-----------------------------------------------------------------------------
(* The mempool connection: one request at a time, rechecks before others.  *)

CheckTx(tx) ==
  /\ phase \in {"idle", "block"} /\ stale = {}
  /\ tx \in Txs \ mempool /\ Cardinality(mempool) < MaxMempool
  /\ AnteCode(check, tx, checkHeight) = "ok"
  /\ mempool' = mempool \cup {tx} /\ check' = AfterAnte(check, tx)
  /\ UNCHANGED <<checkHeight, stale, chainVars>>

RecheckTx(tx) ==
  /\ phase \in {"idle", "block"} /\ tx \in stale /\ stale' = stale \ {tx}
  /\ IF AnteCode(check, tx, checkHeight) = "ok"
     THEN check' = AfterAnte(check, tx) /\ mempool' = mempool
     ELSE check' = check /\ mempool' = mempool \ {tx}
  /\ UNCHANGED <<checkHeight, chainVars>>

(* Mutant: a node that has committed nothing skips InitChain.              *)
Crash_SkipsInitChain ==
  /\ phase \in {"gentx", "idle", "block"}
  /\ phase' = "idle"
  /\ deliver' = committed /\ check' = committed /\ checkHeight' = 0
  /\ running' = NoTx /\ block' = <<>> /\ mempool' = {} /\ stale' = {}
  /\ UNCHANGED <<genesis, height, committed, resp>>

(* The process dies and is started again.  Before the first commit the     *)
(* restarted node has to run InitChain again.  The check state of a node   *)
(* that was started has height 0 until the next commit, which the identity *)
(* gate takes for genesis.                                                 *)
Crash ==
  /\ phase \in {"gentx", "idle", "block"}
  /\ phase' = IF height = 0 THEN "new" ELSE "idle"
  /\ deliver' = committed /\ check' = committed /\ checkHeight' = 0
  /\ running' = NoTx /\ block' = <<>> /\ mempool' = {} /\ stale' = {}
  /\ UNCHANGED <<genesis, height, committed, resp>>

Next ==
  \/ InitChain \/ InitIdentities \/ BeginBlock
  \/ \E tx \in Txs \cup {genesis.gentxs[i] : i \in DOMAIN genesis.gentxs} :
       RejectTx(tx) \/ BeginTx(tx)
  \/ ExecMsg \/ FailTx \/ EndTx \/ Commit
  \/ \E tx \in Txs : CheckTx(tx)
  \/ \E tx \in stale : RecheckTx(tx)
  \/ Crash

Spec == Init /\ [][Next]_vars

-----------------------------------------------------------------------------
(* Properties.                                                             *)

(* Every variable holds what the code keeps there: states are well formed  *)
(* (records under the key of their own address), the mempool holds         *)
(* transactions and the rechecks outstanding are for some of them.         *)
TypeOK ==
  /\ phase \in {"new", "gentx", "idle", "block", "halted"}
  /\ genesis \in GenesisDocs
  /\ height \in Nat /\ checkHeight \in Nat
  /\ committed \in AppState /\ deliver \in AppState /\ check \in AppState
  /\ running \in Running \cup {NoTx}
  /\ block \in Seq(Tx)
  /\ mempool \subseteq Tx /\ stale \subseteq mempool
  /\ resp \in Results \cup {NoTx}

(* The committed identities are a write-once map: no block replaces or     *)
(* removes a record, however its messages are ordered, fail and are rolled *)
(* back (CreateIdentity refuses an address that has an identity).          *)
WriteOnce ==
  INSTANCE Registry WITH Record <- IdentityRecord, None <- NoIdentity,
                         reg <- committed.ids

RegistryWriteOnce == WriteOnce!Spec

InterchainAccounts == {PacketFrom[p] : p \in Packet}

WithinBlock == phase = "block" /\ phase' = "block"

(* In a block, an address without an identity pays in one way only: it is  *)
(* charged the fee of a transaction that it has signed as the payer, or    *)
(* whose payer it has given an allowance.  The identity gate looks at      *)
(* neither.  No message takes money from it, and no transaction charges it *)
(* unasked, although fees are deducted before the gate is.  Interchain     *)
(* accounts are the exception: their messages never pass the gate.         *)
UnregisteredPaysAgreedFees ==
  [][WithinBlock =>
       \A a \in Address \ InterchainAccounts :
         deliver'.bal[a] < deliver.bal[a] /\ ~Found(deliver.ids, a) =>
           /\ running = NoTx /\ running' # NoTx
           /\ a = Charged(running'.tx)
           /\ deliver'.bal[a] = deliver.bal[a] - running'.tx.fee
           /\ \/ a = running'.tx.payer
              \/ <<a, FeePayer(running'.tx)>> \in deliver.grants]_vars

Cost(m) ==
  CASE m.kind \in {"send", "vest"} -> 1
    [] m.kind = "multi"            -> Cardinality(m.tos)
    [] OTHER                       -> 0

(* A transaction takes from an interchain account no more than the packets *)
(* cost that it is the first to deliver: a second delivery, in the same    *)
(* transaction or a later one, does not make the host execute the packet's *)
(* message again.                                                          *)
PacketsPayOnce ==
  [][WithinBlock /\ running # NoTx =>
       \A a \in InterchainAccounts :
         deliver.bal[a] - deliver'.bal[a] <=
           MapThenSumSet(LAMBDA p : IF PacketFrom[p] = a THEN Cost(PacketMsg[p]) ELSE 0,
                         deliver'.received \ deliver.received)]_vars

(* In a block, whoever receives money has an identity, provided the        *)
(* transaction holds bank messages only (extractRecipients knows no other  *)
(* message, and a packet is executed outside the gate).                    *)
BankCreditsAreChecked ==
  [][(WithinBlock /\ running # NoTx
      /\ \A i \in DOMAIN running.tx.msgs :
           running.tx.msgs[i].kind \notin {"vest", "recv"})
       => \A a \in Address :
            deliver'.bal[a] > deliver.bal[a] => Found(deliver.ids, a)]_vars

(* A transaction that was admitted or rechecked since the first commit     *)
(* after a start will pass the gate of the next block: identities are      *)
(* never removed, and the recheck after that commit turns out whatever a   *)
(* restarted node admitted while its check state had height 0.             *)
AdmittedPassGate ==
  checkHeight > 0 =>
    \A tx \in mempool \ stale : IdentityVerified(deliver.ids, tx.msgs, BlockHeight)

(* Two admitted transactions never compete for one sequence number: the    *)
(* ante chain writes the increment to the check state before the gate.     *)
NoCompetingNonces ==
  \A t, u \in mempool \ stale :
    \A a \in TxSigners(t) \cap TxSigners(u) :
      t.nonce[a] = u.nonce[a] => t = u

(* Once blocks are being produced the set of registered addresses grows    *)
(* only by interchain accounts: no transaction of an ordinary address ever *)
(* registers it, because the gate wants an identity to create one.         *)
OnlyPacketsRegister ==
  [][WithinBlock =>
       Registered(deliver'.ids) \ Registered(deliver.ids)
         \subseteq InterchainAccounts]_vars

Wealth(s) == MapThenSumSet(LAMBDA a : s.bal[a], Address) + s.fees

(* No money is made or lost: balances and collected fees add up to what    *)
(* genesis handed out, on disk, in the block, in the check state and on    *)
(* the branch of a transaction that may still fail.                        *)
SupplyConserved ==
  phase # "new" =>
    /\ Wealth(deliver) = Wealth(genesis.app)
    /\ height > 0 => Wealth(committed) = Wealth(deliver)
    /\ check # NoState => Wealth(check) = Wealth(deliver)
    /\ running # NoTx => Wealth(running.branch) = Wealth(deliver)

(* Genesis transactions run before any identity exists.  On a chain that   *)
(* starts at height 1 the gate lets all of them pass, so that it is never  *)
(* the reason why the chain cannot start.                                  *)
GenesisGateOpen ==
  phase = "halted" /\ resp.code = "identity" => genesis.initialHeight > 1

(* Whatever happens before the first commit (a crash makes the node run    *)
(* InitChain again), every committed state still has the identities of the *)
(* genesis document, the later of two for one address.                     *)
GenesisSurvives ==
  height > 0 =>
    \A a \in Address :
      Found(InitGenesis(genesis.identities), a)
        => committed.ids[a] = InitGenesis(genesis.identities)[a]

(* ante.go says of identity messages "ALLOWING IDENTITY MODULE MESSAGE": a *)
(* transaction made of them alone is not turned away for lack of an        *)
(* identity.  The table of exempt names is misspelled, so it is.           *)
IdentityMsgsAllowed ==
  resp # NoTx =>
    ~ /\ resp.code = "identity"
      /\ \A i \in DOMAIN resp.tx.msgs : resp.tx.msgs[i].kind \in {"create", "params"}

=============================================================================
