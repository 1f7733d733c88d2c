--------------------------- MODULE InPlaceTestnet ---------------------------
(***************************************************************************)
(* in-place-testnet turns a copy of a chain into a network of one          *)
(* validator.  initAppForTestnet rewrites the staking records of the       *)
(* loaded application without committing them; the server that called it   *)
(* replaces CometBFT's validator sets on disk by the node's own key.  The  *)
(* blocks that follow run x/staking and x/slashing over what is left of    *)
(* the old chain.  Nothing is slashed, so that a token is one share at     *)
(* every validator but the command's, which has fewer shares than tokens.  *)
(***************************************************************************)
EXTENDS Integers, FiniteSets, FiniteSetsExt

CONSTANTS
  Operator,       \* operator addresses, old and new
  Cons,           \* consensus keys
  Keys,           \* [Operator -> SUBSET Cons]: the keys an operator has
  UserKey,        \* the key of the node the command runs on
  None,
  valVotingPower, \* tokens of the new validator: nobody staked them
  ShareRate,      \* tokens that a share of the new validator is worth
  CometPower,     \* the power CometBFT's state gives the node's key
  MaxTokens,      \* bound: what others stake with one validator
  MaxRuns         \* bound: how often the command is run

ASSUME InPlaceAssumption ==
  /\ IsFiniteSet(Operator)
  /\ UserKey \in Cons /\ Keys \in [Operator -> SUBSET Cons]
  /\ None \notin Operator \cup Cons
  /\ MaxTokens \in Nat \ {0} /\ MaxRuns \in Nat
  /\ valVotingPower \in Nat /\ CometPower \in Nat
  /\ ShareRate \in Nat \ {0, 1}  \* 9 * 10^14 tokens, 10^7 shares
  /\ MaxTokens < valVotingPower  \* 9 * 10^14, more than others stake
  /\ valVotingPower + MaxTokens < CometPower

VARIABLES
  app,    \* staking and slashing records, as the running application has them
  disk,   \* the same, as last committed
  comet,  \* CometBFT's sets: last signed the last block, next follows cur
  mode,   \* "down", or how the node was started: "command" or "plain"
  halted, \* a block failed, and with it consensus
  half,   \* CometBFT's state is rewritten, the application's is not committed
  runs    \* how often the command was run

vars == <<app, disk, comet, mode, halted, half, runs>>

Status == {"bonded", "unbonding", "unbonded"}
Tokens == 0..(valVotingPower + MaxTokens)

(* Shares are counted in the smallest part that is paid out: a token of    *)
(* the command's validator is one, a token of any other ShareRate of them. *)
Validator == [cons : Cons, status : Status, jailed : BOOLEAN, tokens : Tokens,
              unit : {1, ShareRate}]
Shares == 0..(MaxTokens * ShareRate)
Powers(K) == UNION {[S -> 0..CometPower] : S \in SUBSET K}

App == [validators : [Operator -> Validator \cup {None}],
        index      : SUBSET (Operator \X Tokens),  \* by power, jailed ones not
        last       : Powers(Operator),             \* powers CometBFT was told
        queue      : SUBSET Operator,              \* unbonding validators
        byCons     : [Cons -> Operator \cup {None}],
        info       : SUBSET Cons,                  \* signing infos
        stake      : [Operator -> Shares],         \* delegations, the operator's too
        pool       : Nat,                          \* coins of the bonded pool
        kept       : BOOLEAN]  \* history: a delegation was kept, see Backed

ASSUME NoneAssumption == None \notin Validator

(* A well-formed record of each type; the sets above are too large to list. *)
TypeOK ==
  /\ \A a \in {app, disk} :
       /\ DOMAIN a.validators = Operator
       /\ \A o \in Operator : a.validators[o] \in Validator \cup {None}
       /\ a.index \subseteq Operator \X Tokens
       /\ DOMAIN a.last \subseteq Operator
       /\ a.queue \subseteq Operator
       /\ a.byCons \in [Cons -> Operator \cup {None}]
       /\ a.info \subseteq Cons
       /\ a.stake \in [Operator -> Shares]
       /\ a.pool \in Nat /\ a.kept \in BOOLEAN
  /\ \A S \in {comet.last, comet.cur, comet.next} :
       DOMAIN S \subseteq Cons /\ \A c \in DOMAIN S : S[c] \in 1..CometPower
  /\ mode \in {"down", "command", "plain"}
  /\ halted \in BOOLEAN /\ half \in BOOLEAN /\ runs \in 0..MaxRuns

Nobody == [c \in {} |-> 0]  \* CometBFT's sets while they are the old chain's

(* The tokens of the validators S of vs, together.                         *)
TokensOf(vs, S) ==
  LET tokens == [o \in S |-> vs[o].tokens]
  IN  MapThenSumSet(LAMBDA o : tokens[o], S)

Exists(a, o)  == a.validators[o] # None
Resolves(a, c) == a.byCons[c] # None /\ Exists(a, a.byCons[c])
Entry(v, o)   == IF v.jailed THEN {} ELSE {<<o, v.tokens>>}

(* Change a validator together with its place in the power index.          *)
SetValidator(a, o, v) ==
  [a EXCEPT !.validators[o] = v,
            !.index = {e \in @ : e[1] # o} \cup Entry(v, o)]

RemoveValidator(a, o) ==
  [a EXCEPT !.validators[o] = None,
            !.index = {e \in @ : e[1] # o},
            !.byCons[a.validators[o].cons] = None]

-----------------------------------------------------------------------------
(* The command.                                                            *)

(* The new validator, at once bonded and in the set of powers CometBFT was *)
(* told, with power 0 so that the first block tells it.                    *)
(* Mutant: tokens are given as the power CometBFT's state has.             *)
NewValidator_CometPower == [cons |-> UserKey, status |-> "bonded", jailed |-> FALSE,
                            tokens |-> CometPower, unit |-> 1]

NewValidator == [cons |-> UserKey, status |-> "bonded", jailed |-> FALSE,
                 tokens |-> valVotingPower, unit |-> 1]

(* The operator given has no delegations, or they were made to what an     *)
(* earlier run of the command wrote, which is bonded.  Any other kept      *)
(* delegation is now worth tokens that nobody paid into the bonded pool.   *)
Backed(a, o) ==
  a.stake[o] > 0 => /\ Exists(a, o) /\ a.validators[o].unit = 1
                    /\ a.validators[o].cons = UserKey
                    /\ a.validators[o].status = "bonded"

(* Mutant: the queue of unbonding validators stays.                        *)
initAppForTestnet_KeepsQueue(a, o) ==
  [a EXCEPT !.validators = [p \in Operator |-> IF p = o THEN NewValidator ELSE None],
            !.index = {<<o, valVotingPower>>},
            !.last = [p \in {o} |-> 0],
            !.byCons[UserKey] = o,
            !.info = @ \cup {UserKey},
            !.kept = @ \/ ~Backed(a, o)]

(* Mutant: the last power is the one the validator has.                    *)
initAppForTestnet_LastPower(a, o) ==
  [a EXCEPT !.validators = [p \in Operator |-> IF p = o THEN NewValidator ELSE None],
            !.index = {<<o, valVotingPower>>},
            !.last = [p \in {o} |-> valVotingPower],
            !.queue = {},
            !.byCons[UserKey] = o,
            !.info = @ \cup {UserKey},
            !.kept = @ \/ ~Backed(a, o)]

initAppForTestnet(a, o) ==
  [a EXCEPT !.validators = [p \in Operator |-> IF p = o THEN NewValidator ELSE None],
            !.index = {<<o, valVotingPower>>},
            !.last = [p \in {o} |-> 0],
            !.queue = {},
            !.byCons[UserKey] = o,
            !.info = @ \cup {UserKey},
            !.kept = @ \/ ~Backed(a, o)]

(* newTestnetApp loads the last commit and rewrites it; only then does the *)
(* server save CometBFT's state, so that a crash before leaves no trace.   *)
Start(o) ==
  /\ mode = "down" /\ runs < MaxRuns
  /\ app' = initAppForTestnet(disk, o)
  /\ LET own == [c \in {UserKey} |-> CometPower]
     IN  comet' = [last |-> own, cur |-> own, next |-> own]
  /\ mode' = "command" /\ half' = TRUE /\ runs' = runs + 1
  /\ UNCHANGED <<disk, halted>>

(* start, on a node whose CometBFT state was rewritten.                    *)
PlainStart ==
  /\ mode = "down"
  /\ comet.cur # Nobody
  /\ app' = disk
  /\ mode' = "plain"
  /\ UNCHANGED <<disk, comet, halted, half, runs>>

Crash ==
  /\ mode # "down"
  /\ mode' = "down" /\ halted' = FALSE
  /\ app' = disk
  /\ UNCHANGED <<disk, comet, half, runs>>

-----------------------------------------------------------------------------
(* What a block runs of x/slashing and x/staking.                          *)

(* x/distribution and x/slashing look up whoever signed the last block.    *)
BeginBlockOk(a) ==
  \A c \in DOMAIN comet.last : Resolves(a, c) /\ c \in a.info

(* Someone else's validator was offline for too long.                      *)
Jail(a, o) ==
  SetValidator(a, o, [a.validators[o] EXCEPT !.jailed = TRUE])
MayJail(a, o) ==
  /\ Exists(a, o) /\ a.validators[o].status = "bonded" /\ ~a.validators[o].jailed
  /\ a.validators[o].cons \in DOMAIN comet.last \ {UserKey}

CreateValidator(a, o, c) ==
  [SetValidator(a, o, [cons |-> c, status |-> "unbonded", jailed |-> FALSE, tokens |-> 1,
                      unit |-> ShareRate])
     EXCEPT !.byCons[c] = o, !.stake[o] = @ + ShareRate]

(* What a token is of v's shares: the first delegation sets the rate anew. *)
UnitOf(v) == IF v.tokens = 0 THEN ShareRate ELSE v.unit

(* Add n tokens to what is staked with o.                                  *)
Restake(a, o, n) ==
  LET v == a.validators[o]
      b == SetValidator(a, o, [v EXCEPT !.tokens = @ + n, !.unit = UnitOf(v)])
  IN  [b EXCEPT !.stake[o] = @ + n * UnitOf(v),
                !.pool = IF v.status = "bonded" THEN @ + n ELSE @]

Undelegate(a, o) ==
  LET b == Restake(a, o, -1)
  IN  IF b.validators[o].tokens = 0 /\ b.validators[o].status = "unbonded"
      THEN RemoveValidator(b, o) ELSE b

(* Who undelegates what the operator staked has the validator jailed.      *)
UndelegateOwn(a, o) == Undelegate(Jail(a, o), o)

Unjail(a, o) ==
  SetValidator(a, o, [a.validators[o] EXCEPT !.jailed = FALSE])

MayUndelegate(a, o) ==
  /\ Exists(a, o) /\ a.validators[o].tokens > 0
  /\ a.stake[o] >= a.validators[o].unit
  /\ a.validators[o].status = "bonded" => a.pool > 0

(* The states a block's transactions may lead to: none, or one that the    *)
(* modules accept.  The operator of the node's own validator leaves what   *)
(* he staked with himself: nobody else is left to sign.                    *)
Delivered(a) ==
  {a}
  \cup {CreateValidator(a, x[1], x[2]) :
          x \in {y \in Operator \X Cons : /\ y[2] \in Keys[y[1]]
                                         /\ ~Exists(a, y[1]) /\ ~Resolves(a, y[2])
                                         /\ a.stake[y[1]] <= (MaxTokens - 1) * ShareRate}}
  \cup {Restake(a, o, 1) :
          o \in {p \in Operator : /\ Exists(a, p)
                                  /\ a.stake[p] <= (MaxTokens - 1) * UnitOf(a.validators[p])
                                  /\ a.validators[p].tokens < valVotingPower + MaxTokens}}
  \cup {Undelegate(a, o) : o \in {p \in Operator : MayUndelegate(a, p)}}
  \cup {UndelegateOwn(a, o) :
          o \in {p \in Operator : /\ MayUndelegate(a, p) /\ ~a.validators[p].jailed
                                  /\ a.validators[p].cons # UserKey}}
  \cup {Unjail(a, o) :
          o \in {p \in Operator : Exists(a, p) /\ a.validators[p].jailed}}

(* ApplyAndReturnValidatorSetUpdates: who has power is in the set, who was *)
(* in the last set and has none leaves it.                                 *)
Elected(a) == {e[1] : e \in {f \in a.index : f[2] > 0}}
Leaving(a) == DOMAIN a.last \ Elected(a)
Entering(a) == {o \in Elected(a) : a.validators[o].status # "bonded"}

ElectionOk(a) ==
  /\ \A o \in Elected(a) : Exists(a, o) /\ ~a.validators[o].jailed
  /\ \A o \in Leaving(a) : Exists(a, o) /\ a.validators[o].status = "bonded"
  /\ TokensOf(a.validators, Leaving(a)) <= a.pool + TokensOf(a.validators, Entering(a))

WithStatus(a, o) ==
  CASE o \in Elected(a) -> [a.validators[o] EXCEPT !.status = "bonded"]
    [] o \in Leaving(a) -> [a.validators[o] EXCEPT !.status = "unbonding"]
    [] OTHER -> a.validators[o]

Election(a) ==
  [a EXCEPT !.validators = [o \in Operator |-> WithStatus(a, o)],
            !.last = [o \in Elected(a) |-> a.validators[o].tokens],
            !.queue = (@ \ Elected(a)) \cup Leaving(a),
            !.info = @ \cup {a.validators[o].cons : o \in Entering(a)},
            !.pool = @ + TokensOf(a.validators, Entering(a)) - TokensOf(a.validators, Leaving(a))]

(* The powers CometBFT is told: those that differ from the last it heard.  *)
Told(a) == {o \in Elected(a) :
              o \in DOMAIN a.last => a.last[o] # a.validators[o].tokens}
Updated(S, a) ==
  LET ConsOf(T) == {a.validators[o].cons : o \in T}
  IN  [c \in (DOMAIN S \cup ConsOf(Told(a))) \ ConsOf(Leaving(a)) |->
         IF c \in ConsOf(Told(a)) THEN a.validators[a.byCons[c]].tokens ELSE S[c]]

(* UnbondAllMatureValidators.  The unbonding time is long: a key that is   *)
(* still in one of CometBFT's sets has not matured.                        *)
Mature(a) == {o \in a.queue : Exists(a, o) =>
                a.validators[o].cons \notin
                  DOMAIN comet.last \cup DOMAIN comet.cur \cup DOMAIN comet.next}
Unbonded(a, o) ==
  LET b == [SetValidator(a, o, [a.validators[o] EXCEPT !.status = "unbonded"])
              EXCEPT !.queue = @ \ {o}]
  IN  IF b.validators[o].tokens = 0 THEN RemoveValidator(b, o) ELSE b

-----------------------------------------------------------------------------
Halt == halted' = TRUE /\ UNCHANGED <<app, disk, comet, mode, half, runs>>

(* The rest of a block whose transactions have led to b: the election, the *)
(* queue of those that unbond (o matures, or nobody does) and the commit.  *)
EndBlock(b) ==
  IF ~ElectionOk(b) \/ Updated(comet.next, b) = Nobody
  THEN Halt
  ELSE \E o \in {None} \cup Mature(Election(b)) :
         IF o # None /\ ~Exists(b, o)
         THEN Halt
         ELSE /\ app' = IF o = None THEN Election(b) ELSE Unbonded(Election(b), o)
              /\ disk' = app'
              /\ comet' = [last |-> comet.cur, cur |-> comet.next,
                           next |-> Updated(comet.next, b)]
              /\ half' = (half /\ mode = "plain")
              /\ UNCHANGED <<mode, halted, runs>>

Block ==
  /\ mode # "down" /\ ~halted
  /\ IF ~BeginBlockOk(app) THEN Halt
     ELSE \E a \in {app} \cup {Jail(app, o) : o \in {p \in Operator : MayJail(app, p)}} :
          \E b \in Delivered(a) : EndBlock(b)

(* The old chain, as its last commit left it: validators with a key of     *)
(* their own, those not bonded are jailed.                                 *)
OldChain ==
  {[validators |-> vs,
    index  |-> {<<o, vs[o].tokens>> : o \in {p \in Operator : vs[p] # None /\ ~vs[p].jailed}},
    last   |-> [o \in {p \in Operator : vs[p] # None /\ vs[p].status = "bonded"} |-> vs[o].tokens],
    queue  |-> {o \in Operator : vs[o] # None /\ vs[o].status = "unbonding"},
    byCons |-> [c \in Cons |->
                  IF \E o \in Operator : vs[o] # None /\ vs[o].cons = c
                  THEN CHOOSE o \in Operator : vs[o] # None /\ vs[o].cons = c
                  ELSE None],
    info   |-> {vs[o].cons : o \in {p \in Operator : vs[p] # None}},
    stake  |-> [o \in Operator |-> IF vs[o] = None THEN 0 ELSE vs[o].tokens * ShareRate],
    pool   |-> TokensOf(vs, {o \in Operator : vs[o] # None /\ vs[o].status = "bonded"}),
    kept   |-> FALSE] :
   vs \in {f \in [Operator -> {v \in Validator : v.tokens \in 1..MaxTokens} \cup {None}] :
            /\ \E o \in Operator : f[o] # None /\ f[o].status = "bonded"
            /\ \A o \in Operator : f[o] # None =>
                 /\ f[o].cons \in Keys[o] /\ f[o].unit = ShareRate
                 /\ f[o].jailed = (f[o].status # "bonded")
                 /\ \A p \in Operator : f[p] # None /\ f[p].cons = f[o].cons => p = o}}

Init ==
  /\ disk \in OldChain /\ app = disk
  /\ comet = [last |-> Nobody, cur |-> Nobody, next |-> Nobody]
  /\ mode = "down" /\ halted = FALSE /\ half = FALSE /\ runs = 0

Next == (\E o \in Operator : Start(o)) \/ PlainStart \/ Crash \/ Block

Spec == Init /\ [][Next]_vars

-----------------------------------------------------------------------------
(* The network of one validator goes on, whatever the old chain was and    *)
(* whoever joins or leaves it, with two exceptions.  A node that is        *)
(* started with start before the command's first block stands still:       *)
(* CometBFT follows a key the application has never been told of, and the  *)
(* command has to be run again.  And an operator address that the old      *)
(* chain knows delegations to is a bad choice: their shares are now worth  *)
(* ShareRate times what was paid, in coins of those who join.              *)
ChainGoesOn == halted => (mode = "plain" /\ half) \/ app.kept

(* From the command's first block on, CometBFT's set is the one x/staking  *)
(* believes it has told it: the same keys, with the same powers.           *)
SetsAgree ==
  comet.cur # Nobody /\ ~half =>
    comet.next = [c \in {disk.validators[o].cons : o \in DOMAIN disk.last} |->
                    disk.last[disk.byCons[c]]]

=============================================================================
