------------------------------- MODULE Export -------------------------------
(***************************************************************************)
(* "nexelrad export", and what it makes of the chain's state when it is to *)
(* start again at height zero.  The state is the part of staking, slashing *)
(* and distribution that prepForZeroHeightGenesis touches; a chain runs,   *)
(* is exported, and a new chain goes on from the result.                   *)
(*                                                                         *)
(* Distribution pays delegators by periods: a period of a validator ends   *)
(* whenever its stake changes, and a historical record per period has the  *)
(* rewards per token so far, kept while a delegation, a slash or the       *)
(* current period refers to it.  Amounts are in fractions of a coin, Unit  *)
(* of which make one; payments are in whole coins.                         *)
(***************************************************************************)
EXTENDS Integers, FiniteSetsExt, Functions

CONSTANTS
  Validator, Delegator,
  Operator,    \* the delegator that runs a validator
  Unit,        \* fractions of a coin
  Stake,       \* tokens of a new delegation
  Shared,      \* what a block allocates to a validator's delegators
  Commission,  \* and to the validator itself
  NoStart,     \* no distribution record of a delegation
  MaxHeight,   \* bound: height of either chain
  MaxOps       \* bound: operations of both chains

ASSUME ExportAssumption ==
  /\ IsFiniteSet(Validator) /\ IsFiniteSet(Delegator)
  /\ Operator \in [Validator -> Delegator]
  /\ {Unit, Stake} \subseteq Nat \ {0}
  /\ {Shared, Commission, MaxHeight, MaxOps} \subseteq Nat

Delegation == Delegator \X Validator

ASSUME NoStartAssumption == NoStart \notin [period : Nat, stake : Nat, height : Nat]

VARIABLES
  s,      \* the state: heights, stakes, distribution, slashing
  phase,  \* "old" chain, "new" chain, or "failed": the export panicked
  list,   \* the --jail-allowed-addrs of an export that failed
  ops     \* operations so far

vars == <<s, phase, list, ops>>

-----------------------------------------------------------------------------
(* Distribution.                                                           *)

At(hist, p) == IF p \in DOMAIN hist THEN hist[p] ELSE [ref |-> 0, ratio |-> 0]

Record(st, v, p) == At(st.hist[v], p)

Tokens(st, v) == SumFunction([d \in Delegator |-> st.stake[<<d, v>>]])

Delegations(st) == {x \in Delegation : st.stake[x] > 0}

With(hist, p, r) == [q \in DOMAIN hist \cup {p} |-> IF q = p THEN r ELSE hist[q]]

SetRecord(st, v, p, r) == [st EXCEPT !.hist[v] = With(@, p, r)]

AddReference(st, v, p) ==
  LET r == Record(st, v, p)
  IN  IF r.ref > 2 THEN [st EXCEPT !.panic = TRUE]
      ELSE SetRecord(st, v, p, [r EXCEPT !.ref = @ + 1])

DropReference(st, v, p) ==
  LET r == Record(st, v, p)
  IN  CASE r.ref = 0 -> [st EXCEPT !.panic = TRUE]
        [] r.ref = 1 -> [st EXCEPT !.hist[v] = RestrictDomain(@, LAMBDA q : q # p)]
        [] OTHER     -> SetRecord(st, v, p, [r EXCEPT !.ref = @ - 1])

(* IncrementValidatorPeriod.  Rewards of a validator nobody is bonded to   *)
(* go to the community pool.                                               *)
NewPeriod(st, v) ==
  LET c == st.cur[v]
      t == Tokens(st, v)
      given == IF t = 0 THEN [st EXCEPT !.pool = @ + c.rewards, !.out[v] = @ - c.rewards]
               ELSE st
      ratio == Record(st, v, c.period - 1).ratio + (IF t = 0 THEN 0 ELSE c.rewards \div t)
  IN  [SetRecord(DropReference(given, v, c.period - 1), v, c.period,
                 [ref |-> 1, ratio |-> ratio])
         EXCEPT !.cur[v] = [period |-> c.period + 1, rewards |-> 0]]

Ended(st, v) == st.cur[v].period - 1

InitializeDelegation(st, x) ==
  [AddReference(st, x[2], Ended(st, x[2])) EXCEPT
     !.start[x] = [period |-> Ended(st, x[2]), stake |-> st.stake[x], height |-> st.height]]

(* What a delegation is known to have earned is counted up to a period, at *)
(* first its own; up to the next, it earns by its stake what a token did.  *)
Upto(hist, acc, p) ==
  LET gain == acc.stake * (At(hist, p).ratio - At(hist, acc.period).ratio)
  IN  [amount |-> acc.amount + gain, period |-> p, stake |-> acc.stake,
       bad |-> acc.bad \/ gain < 0 \/ p < acc.period]

Nothing(from) == [amount |-> 0, period |-> from.period, stake |-> from.stake, bad |-> FALSE]

(* One period further; a slash that ended the period halves the stake.     *)
Further(hist, from, slashed, acc, p) ==
  IF p <= from.period THEN Nothing(from)
  ELSE IF p \in slashed THEN [Upto(hist, acc, p) EXCEPT !.stake = @ \div 2]
  ELSE acc

Earned(hist, from, slashed, last) ==
  LET acc[p \in 0 .. last] ==
        IF p = 0 THEN Nothing(from) ELSE Further(hist, from, slashed, acc[p - 1], p)
  IN  acc

(* The rewards of a delegation up to the period just ended; each slash     *)
(* ends a period of its own.  The code panics if rewards are negative or   *)
(* asked for up to an earlier period, or if more stake is left over than   *)
(* the delegation has.                                                     *)
Rewards(st, x) ==
  LET v == x[2]
      from == st.start[x]
      slashed == {e.period : e \in {f \in st.events[v] : f.height \in from.height .. st.height}}
      last == Max({Ended(st, v)} \cup slashed)
      earned == Earned(st.hist[v], from, slashed, last)[last]
      total == Upto(st.hist[v], earned, Ended(st, v))
  IN  IF from.height = st.height THEN Nothing(from)
      ELSE [total EXCEPT !.bad = @ \/ total.stake > st.stake[x]]

(* withdrawDelegationRewards, which leaves no record of the delegation.    *)
PayOut(st, x) ==
  LET v == x[2]
      n == NewPeriod(st, v)
      r == Rewards(n, x)
      amount == IF r.amount < n.out[v] THEN r.amount ELSE n.out[v]
  IN  DropReference(
        [n EXCEPT !.panic = @ \/ r.bad,
                  !.bal = @ - amount \div Unit, !.out[v] = @ - amount,
                  !.pool = @ + (amount % Unit), !.start[x] = NoStart],
        v, st.start[x].period)

WithdrawDelegationRewards(st, x) == InitializeDelegation(PayOut(st, x), x)

WithdrawValidatorCommission(st, v) ==
  LET coins == st.comm[v] \div Unit
  IN  [st EXCEPT !.bal = @ - coins, !.out[v] = @ - coins * Unit,
                 !.comm[v] = @ - coins * Unit]

(* The hook AfterValidatorCreated.                                         *)
InitializeValidator(st, v) ==
  [SetRecord(st, v, 0, [ref |-> 1, ratio |-> 0]) EXCEPT
     !.cur[v] = [period |-> 1, rewards |-> 0], !.comm[v] = 0, !.out[v] = 0]

(* The hooks of a delegation that is new.                                  *)
CreateDelegation(st, x) == InitializeDelegation(NewPeriod(st, x[2]), x)

JailValidator(st, v) ==
  [st EXCEPT !.jailed[v] = TRUE, !.index = @ \ {v}, !.unbondedAt[v] = st.height]

-----------------------------------------------------------------------------
(* prepForZeroHeightGenesis, stage by stage.                               *)

(* Mutant: the loop skips delegations to validators that are jailed.       *)
WithdrawAll_Unjailed(st) ==
  LET commissions == FoldSet(LAMBDA v, acc : WithdrawValidatorCommission(acc, v), st, Validator)
  IN  FoldSet(LAMBDA x, acc : WithdrawDelegationRewards(acc, x), commissions,
              {x \in Delegations(st) : ~st.jailed[x[2]]})

WithdrawAll(st) ==
  LET commissions == FoldSet(LAMBDA v, acc : WithdrawValidatorCommission(acc, v), st, Validator)
  IN  FoldSet(LAMBDA x, acc : WithdrawDelegationRewards(acc, x), commissions, Delegations(st))

(* Mutants: one of the two deletions is missing.                           *)
ClearHistory_KeepsSlashes(st) == [st EXCEPT !.hist = [v \in Validator |-> <<>>]]

ClearHistory_KeepsRecords(st) == [st EXCEPT !.events = [v \in Validator |-> {}]]

ClearHistory(st) ==
  [st EXCEPT !.events = [v \in Validator |-> {}], !.hist = [v \in Validator |-> <<>>]]

(* Mutant: what could not be withdrawn is forgotten.                       *)
ReinitValidators_NoDonation(st) ==
  FoldSet(LAMBDA v, acc : InitializeValidator(acc, v), st, Validator)

ReinitValidators(st) ==
  FoldSet(LAMBDA v, acc : InitializeValidator([acc EXCEPT !.pool = @ + acc.out[v]], v),
          st, Validator)

(* Mutant: the context keeps the height of the old chain.                  *)
ReinitDelegations_OldHeight(st) ==
  FoldSet(LAMBDA x, acc : CreateDelegation(acc, x), st, Delegations(st))

(* At context height zero, which is set back afterwards.                   *)
ReinitDelegations(st) ==
  [FoldSet(LAMBDA x, acc : CreateDelegation(acc, x), [st EXCEPT !.height = 0], Delegations(st))
     EXCEPT !.height = st.height]

ResetStakingHeights(st) ==
  [st EXCEPT !.leaving = {[e EXCEPT !.height = 0] : e \in @},
             !.unbondedAt = [v \in Validator |-> 0]]

(* Mutant: an empty list is taken for a list of nobody.                    *)
JailUnlisted_EmptyList(st, allowed) ==
  [st EXCEPT !.jailed = [v \in Validator |-> @[v] \/ v \notin allowed]]

(* The flag is set in the validator's record and nowhere else.             *)
JailUnlisted(st, allowed) ==
  [st EXCEPT !.jailed = [v \in Validator |-> @[v] \/ (allowed # {} /\ v \notin allowed)]]

(* Mutant: the validator set is not looked at again.                       *)
ApplyValidatorSetUpdates_Skipped(st) == st

(* It panics at a jailed validator in the power index, and has otherwise   *)
(* nothing to do between two blocks.  Validator is no larger than          *)
(* MaxValidators, at which the iteration over the index ends: of a larger  *)
(* set those below it may be jailed without a panic.                       *)
ApplyValidatorSetUpdates(st) ==
  [st EXCEPT !.panic = @ \/ \E v \in st.index : st.jailed[v]]

ResetSigningInfos(st) == [st EXCEPT !.signing = [v \in Validator |-> 0]]

PrepForZeroHeight(st, allowed) ==
  LET distribution == ReinitDelegations(ReinitValidators(ClearHistory(WithdrawAll(st))))
      staking == JailUnlisted(ResetStakingHeights(distribution), allowed)
  IN  ResetSigningInfos(ApplyValidatorSetUpdates(staking))

-----------------------------------------------------------------------------
(* The chain, which operates on the state before and after.                *)

Zero == [v \in Validator |-> 0]

Founders == {<<Operator[v], v>> : v \in Validator}

Genesis ==
  LET empty ==
        [height |-> 0, panic |-> FALSE, pool |-> 0, bal |-> 0,
         stake |-> [x \in Delegation |-> IF x \in Founders THEN Stake ELSE 0],
         hist |-> [v \in Validator |-> <<>>],
         cur |-> [v \in Validator |-> [period |-> 1, rewards |-> 0]],
         out |-> Zero, comm |-> Zero, events |-> [v \in Validator |-> {}],
         start |-> [x \in Delegation |-> NoStart],
         jailed |-> [v \in Validator |-> FALSE], index |-> Validator,
         unbondedAt |-> Zero, signing |-> Zero, leaving |-> {}]
  IN  FoldSet(LAMBDA x, acc : CreateDelegation(acc, x), ReinitValidators(empty), Founders)

Init ==
  /\ s = Genesis /\ phase = "old" /\ list = {} /\ ops = 0

Running == phase \in {"old", "new"} /\ s.height > 0 /\ ops < MaxOps

Step(st) == s' = st /\ ops' = ops + 1 /\ UNCHANGED <<phase, list>>

Allocate(st, v) ==
  LET coins == (Shared + Commission + Unit - 1) \div Unit
  IN  [st EXCEPT !.cur[v].rewards = @ + Shared, !.comm[v] = @ + Commission,
                 !.out[v] = @ + Shared + Commission, !.bal = @ + coins,
                 !.pool = @ + coins * Unit - Shared - Commission]

(* Half of a validator's tokens are burnt, and it is jailed.               *)
SlashValidator(st, v) ==
  LET n == NewPeriod(st, v)
      burnt == [AddReference(n, v, Ended(n, v)) EXCEPT
                  !.events[v] = @ \cup {[height |-> n.height, period |-> Ended(n, v)]},
                  !.stake = [x \in Delegation |-> IF x[2] = v THEN @[x] \div 2 ELSE @[x]]]
  IN  IF st.jailed[v] THEN burnt ELSE JailValidator(burnt, v)

(* The begin blockers: fees are distributed, then misbehaviour is punished.*)
NextBlock(paid, slashed) ==
  /\ phase \in {"old", "new"} /\ s.height < MaxHeight
  /\ \A v \in slashed :
       Tokens(s, v) > 0 /\ \A d \in Delegator : s.stake[<<d, v>>] % 2 = 0
  /\ ops + Cardinality(slashed) <= MaxOps /\ ops' = ops + Cardinality(slashed)
  /\ LET begun == [s EXCEPT !.height = @ + 1]
         funded == FoldSet(LAMBDA v, acc : Allocate(acc, v), begun, paid)
     IN  s' = FoldSet(LAMBDA v, acc : SlashValidator(acc, v), funded, slashed)
  /\ UNCHANGED <<phase, list>>

Withdraw(x) == Running /\ s.stake[x] > 0 /\ Step(WithdrawDelegationRewards(s, x))

WithdrawCommission(v) == Running /\ s.comm[v] > 0 /\ Step(WithdrawValidatorCommission(s, v))

Joined(st, x) ==
  InitializeDelegation([NewPeriod(st, x[2]) EXCEPT !.stake[x] = Stake], x)

Delegate(x) == Running /\ s.stake[x] = 0 /\ Step(Joined(s, x))

(* A validator whose operator has left is jailed.                          *)
Left(st, x) ==
  LET rest == [PayOut(st, x) EXCEPT !.stake[x] = 0]
  IN  IF x \in Founders /\ ~st.jailed[x[2]] THEN JailValidator(rest, x[2]) ELSE rest

Leaving(st, kind, v) ==
  [st EXCEPT !.leaving = @ \cup {[kind |-> kind, validator |-> v, height |-> st.height]}]

Undelegate(x) ==
  Running /\ s.stake[x] > 0 /\ Step(Leaving(Left(s, x), "unbonding", x[2]))

Redelegate(x, w) ==
  /\ Running /\ s.stake[x] = Stake /\ s.stake[<<x[1], w>>] = 0
  /\ Step(Leaving(Joined(Left(s, x), <<x[1], w>>), "redelegation", x[2]))

Unjail(v) ==
  /\ Running /\ s.jailed[v] /\ s.stake[<<Operator[v], v>>] > 0
  /\ Step([s EXCEPT !.jailed[v] = FALSE, !.index = @ \cup {v}, !.signing[v] = s.height])

(* ExportAppStateAndValidators, and the import of what it returns.  The    *)
(* crisis invariants asserted first are among the properties below.        *)
ExportZeroHeight(allowed) ==
  /\ phase = "old" /\ s.height > 0
  /\ LET st == PrepForZeroHeight(s, allowed)
     IN  IF st.panic THEN phase' = "failed" /\ list' = allowed /\ s' = s
         ELSE phase' = "new" /\ s' = [st EXCEPT !.height = 0] /\ UNCHANGED list
  /\ UNCHANGED ops

ExportAtHeight ==
  phase = "old" /\ s.height > 0 /\ phase' = "new" /\ UNCHANGED <<s, list, ops>>

Next ==
  \/ \E paid, slashed \in SUBSET Validator : NextBlock(paid, slashed)
  \/ \E v \in Validator : WithdrawCommission(v) \/ Unjail(v)
  \/ \E x \in Delegation :
       \/ Withdraw(x) \/ Delegate(x) \/ Undelegate(x)
       \/ \E w \in Validator : Redelegate(x, w)
  \/ \E allowed \in SUBSET Validator : ExportZeroHeight(allowed)
  \/ ExportAtHeight

Spec == Init /\ [][Next]_vars

-----------------------------------------------------------------------------
(* Properties.                                                             *)

(* Amounts are not negative, delegations and their distribution records    *)
(* belong together, and the power index has the validators that are not    *)
(* jailed, also in an exported state.                                      *)
TypeOK ==
  /\ phase \in {"old", "new", "failed"} /\ list \subseteq Validator /\ ops \in 0 .. MaxOps
  /\ s.height \in 0 .. MaxHeight
  /\ s.pool \in Nat /\ s.bal \in Nat
  /\ \A f \in {s.out, s.comm, s.unbondedAt, s.signing} : f \in [Validator -> Nat]
  /\ s.stake \in [Delegation -> 0 .. Stake]
  /\ \A x \in Delegation : s.start[x] = NoStart <=> s.stake[x] = 0
  /\ s.index = {v \in Validator : ~s.jailed[v]}

(* The account of the distribution module holds what the community pool    *)
(* and the validators' outstanding rewards add up to, and those cover      *)
(* every claim: no step of the export loses a fraction of a coin or pays   *)
(* one twice.  InitGenesis of a state that breaks it panics.               *)
Backed ==
  /\ s.bal * Unit = s.pool + SumFunction(s.out)
  /\ \A v \in Validator :
       LET n == NewPeriod(s, v)
           due == [x \in {y \in Delegations(n) : y[2] = v} |-> Rewards(n, x).amount]
       IN  n.out[v] >= n.comm[v] + SumFunction(due)

(* Every historical record is kept exactly as long as something refers to  *)
(* it: the current period, a delegation or a slash.  It is the invariant   *)
(* "reference-count" that the crisis module asserts at the next genesis.   *)
References ==
  \A v \in Validator :
    SumFunction([p \in DOMAIN s.hist[v] |-> s.hist[v][p].ref])
      = 1 + Cardinality({x \in Delegations(s) : x[2] = v}) + Cardinality(s.events[v])

(* No operation of either chain panics.  After an export the records of    *)
(* the old chain must not reach into rewards of the new one, whose heights *)
(* and periods are the same numbers again.                                 *)
ChainGoesOn == ~s.panic

(* Nothing in the state carries a height the chain has yet to reach: a new *)
(* chain would not release, or would slash, or would not judge, what the   *)
(* old one left to it.                                                     *)
NoFutureHeights ==
  /\ \A x \in Delegations(s) : s.start[x].height <= s.height
  /\ \A v \in Validator : /\ s.unbondedAt[v] <= s.height /\ s.signing[v] <= s.height
                         /\ \A e \in s.events[v] : e.height <= s.height
  /\ \A e \in s.leaving : e.height <= s.height

(* The whole coins that delegators and validators have earned.             *)
Owed(st) ==
  SumFunction([x \in Delegations(st) |-> st.bal - PayOut(st, x).bal])
    + SumFunction([v \in Validator |-> st.comm[v] \div Unit])

(* An export to height zero pays what is owed, before it resets the        *)
(* records that this is computed from.                                     *)
DuePaid ==
  [][phase = "old" /\ phase' = "new" /\ s'.height = 0 => s'.bal = s.bal - Owed(s)]_vars

(* The export succeeds, as TestAppSimulationAfterImport has it, without a  *)
(* list of addresses.  With one it fails only if the list leaves out a     *)
(* validator of the power index, and leaving some out is what the list is  *)
(* for.                                                                    *)
FailsForUnlistedOnly ==
  phase = "failed" => list # {} /\ \E v \in s.index : v \notin list

=============================================================================
