------------------------ MODULE InPlaceTestnetProofs ------------------------
(***************************************************************************)
(* Proofs about InPlaceTestnet: the blocks that follow in-place-testnet do *)
(* not fail, for every old chain, every set of operators that join and     *)
(* every number of runs.                                                   *)
(***************************************************************************)
EXTENDS InPlaceTestnet, DataInduction

-----------------------------------------------------------------------------
(* What the records of a chain have to do with each other.                 *)

WithStatusOf(a, s) == {o \in Operator : Exists(a, o) /\ a.validators[o].status = s}
Bonded(a) == WithStatusOf(a, "bonded")

(* What the bonded pool owes for a validator.  Nobody paid the tokens of   *)
(* the one the command wrote, only what was delegated to it since.         *)
Owed(a) ==
  [o \in Operator |->
     IF o \notin Bonded(a) THEN 0
     ELSE IF a.validators[o].unit = 1 THEN a.stake[o]
     ELSE a.validators[o].tokens]

KeysFound(a) == \A o \in Operator : Exists(a, o) => a.byCons[a.validators[o].cons] = o
Indexed(a) ==
  a.index = UNION {Entry(a.validators[o], o) : o \in {p \in Operator : Exists(a, p)}}
Recorded(a) ==
  /\ DOMAIN a.last = Bonded(a)
  /\ a.queue = WithStatusOf(a, "unbonding")
  /\ \A o \in Bonded(a) : a.validators[o].cons \in a.info

(* The last two hold unless the command was given an operator's address    *)
(* with delegations.                                                       *)
Stays(v, n) ==
  v.unit = 1 => /\ v.cons = UserKey
                /\ n < v.tokens /\ n <= MaxTokens
                /\ v.status = "bonded" => ~v.jailed
UserStays(a) ==
  a.kept \/ \A o \in Operator : Exists(a, o) => Stays(a.validators[o], a.stake[o])
Covered(a) == a.kept \/ SumOver(Owed(a), Operator) <= a.pool

(* The validator that the command wrote is still there.                    *)
Standing(a) == a.kept \/ \E o \in Bonded(a) : a.validators[o].unit = 1

Chain(a) ==
  /\ a \in App
  /\ KeysFound(a) /\ Indexed(a) /\ Recorded(a) /\ UserStays(a) /\ Covered(a)

(* What they have to do with the sets of CometBFT.                         *)

(* Keys that have a validator and signing infos, and keep them.            *)
Alive(a) ==
  {c \in a.info : \E o \in Operator :
     Exists(a, o) /\ a.validators[o].cons = c /\ a.validators[o].status # "unbonded"}

Sets == {comet.last, comet.cur, comet.next}
ConsOf(a, S) == {a.validators[o].cons : o \in S}

IsPowers(S) == DOMAIN S \subseteq Cons /\ S \in [DOMAIN S -> 1..CometPower]
CometType == \A S \in Sets : IsPowers(S)
Rewritten == \A S \in Sets : S # Nobody
NotYet == mode = "down" /\ ~half /\ \A S \in Sets : S = Nobody

(* The application that runs, or that would after a plain start, is the    *)
(* one that CometBFT's state was written for.                              *)
Paired == comet.cur # Nobody /\ (half => mode = "command")
Followed == \A S \in Sets : DOMAIN S \subseteq Alive(app)

(* Before the first block, x/staking has told CometBFT nothing; after it,  *)
(* every power it has.                                                     *)
Heard ==
  /\ DOMAIN comet.next = ConsOf(app, DOMAIN app.last)
  /\ half => \A o \in DOMAIN app.last : app.last[o] = 0
  /\ ~half => \A o \in DOMAIN app.last :
                comet.next[app.validators[o].cons] = app.last[o]

IInv ==
  /\ Chain(app) /\ Chain(disk)
  /\ CometType /\ (NotYet \/ Rewritten)
  /\ mode \in {"down", "command", "plain"}
  /\ halted \in BOOLEAN /\ half \in BOOLEAN /\ runs \in 0..MaxRuns
  /\ app = disk \/ (mode = "command" /\ half)
  /\ Paired => Followed /\ Heard /\ Standing(app)
  /\ halted => mode # "down" /\ ((mode = "plain" /\ half) \/ app.kept)

-----------------------------------------------------------------------------
(* What the operations leave of each record.                               *)

(* The fields of the staking state.                                        *)
LEMMA AppFields ==
  ASSUME NEW a \in App
  PROVE  /\ a.validators \in [Operator -> Validator \cup {None}]
         /\ a.index \subseteq Operator \X Tokens
         /\ a.last \in Powers(Operator) /\ DOMAIN a.last \subseteq Operator
         /\ a.queue \subseteq Operator
         /\ a.byCons \in [Cons -> Operator \cup {None}]
         /\ a.info \subseteq Cons
         /\ a.stake \in [Operator -> Shares]
         /\ a.pool \in Nat /\ a.kept \in BOOLEAN
BY DEF App, Powers

(* The fields of a validator.                                              *)
LEMMA ValidatorFields ==
  ASSUME NEW v \in Validator
  PROVE  /\ v # None
         /\ v.cons \in Cons /\ v.status \in Status /\ v.jailed \in BOOLEAN
         /\ v.tokens \in Tokens /\ v.tokens \in Nat
         /\ v.unit \in {1, ShareRate} /\ v.unit \in Nat \ {0}
BY InPlaceAssumption, NoneAssumption DEF Validator, Tokens

(* A token is one share or ShareRate of their parts.                       *)
LEMMA UnitIs ==
  ASSUME NEW v \in Validator
  PROVE  /\ UnitOf(v) \in {1, ShareRate} /\ UnitOf(v) \in Nat \ {0}
         /\ v.tokens > 0 => UnitOf(v) = v.unit
BY ValidatorFields, InPlaceAssumption DEF UnitOf

(* What is staked is a number of such parts.                               *)
LEMMA SharesAre ==
  /\ Shares \subseteq Nat
  /\ \A n \in Shares : \A u \in {1, ShareRate} :
       /\ n <= (MaxTokens - 1) * u => n + u \in Shares
       /\ n >= u => n + (-1) * u \in Shares
<1> DEFINE r == ShareRate
           m == MaxTokens
<1>1. r \in Nat \ {0, 1} /\ m \in Nat \ {0}
  BY InPlaceAssumption
<1>2. Shares = 0..(m * r)
  BY DEF Shares
<1> HIDE DEF r, m
<1>3. m * r \in Nat /\ m <= m * r
  BY <1>1
<1>4. Shares \subseteq Nat
  BY <1>2, <1>3
<1>5. ASSUME NEW n \in Shares, NEW u \in {1, ShareRate}
      PROVE  /\ n <= (MaxTokens - 1) * u => n + u \in Shares
             /\ n >= u => n + (-1) * u \in Shares
  <2>1. n \in Nat /\ n <= m * r /\ u \in Nat
    BY <1>1, <1>2, <1>3, <1>4 DEF r
  <2>2. (m - 1) * u + u = m * u
    BY <1>1, <2>1
  <2>3. m * u <= m * r /\ m * u \in Nat /\ (m - 1) * u \in Int
    BY <1>1, <1>3, <2>1 DEF r
  <2>4. n <= (m - 1) * u => n + u \in 0..(m * r)
    BY <1>3, <2>1, <2>2, <2>3
  <2>5. (-1) * u = -u
    BY <2>1
  <2>6. n >= u => n + (-1) * u \in 0..(m * r)
    BY <1>3, <2>1, <2>5
  <2> QED
    BY <1>2, <2>4, <2>6 DEF m
<1> QED
  BY <1>4, <1>5

(* The validators there are.                                               *)
LEMMA TheValidator ==
  ASSUME NEW a \in App, NEW o \in Operator, Exists(a, o)
  PROVE  a.validators[o] \in Validator
BY AppFields DEF Exists

(* Entries of the power index are pairs.                                   *)
LEMMA EntryType ==
  ASSUME NEW o \in Operator, NEW v \in Validator
  PROVE  Entry(v, o) \subseteq Operator \X Tokens
BY ValidatorFields DEF Entry

(* One validator changes, comes or goes, and the delegation to it.         *)
OneChanges(a, b, o, w) ==
  /\ b \in App
  /\ b.validators = [a.validators EXCEPT ![o] = w]
  /\ b.index = {e \in a.index : e[1] # o} \cup (IF w = None THEN {} ELSE Entry(w, o))
  /\ b.last = a.last
  /\ b.info = a.info /\ b.kept = a.kept
  /\ \A p \in Operator \ {o} : b.stake[p] = a.stake[p]

(* Writing a validator changes its records only.                           *)
LEMMA SetValidatorIs ==
  ASSUME NEW a \in App, NEW o \in Operator, NEW v \in Validator
  PROVE  LET b == SetValidator(a, o, v)
         IN  /\ OneChanges(a, b, o, v)
             /\ b.queue = a.queue /\ b.byCons = a.byCons
             /\ b.stake = a.stake /\ b.pool = a.pool
<1> DEFINE i == {e \in a.index : e[1] # o} \cup Entry(v, o)
           b == SetValidator(a, o, v)
<1>1. i \in SUBSET (Operator \X Tokens) /\ v # None /\ v \in Validator \cup {None}
  BY EntryType, AppFields, ValidatorFields
<1>2. b = [a EXCEPT !.validators[o] = v, !.index = i]
  BY DEF SetValidator
<1> HIDE DEF i, b
<1>3. b \in App
  BY <1>1, <1>2 DEF App
<1>4. /\ b.validators = [a.validators EXCEPT ![o] = v] /\ b.index = i
      /\ b.last = a.last /\ b.queue = a.queue /\ b.byCons = a.byCons
      /\ b.info = a.info /\ b.stake = a.stake /\ b.pool = a.pool
      /\ b.kept = a.kept
  BY <1>2 DEF App
<1> QED
  BY <1>1, <1>3, <1>4 DEF OneChanges, i, b

(* So does removing one, with its consensus key.                           *)
LEMMA RemoveValidatorIs ==
  ASSUME NEW a \in App, NEW o \in Operator, Exists(a, o)
  PROVE  LET b == RemoveValidator(a, o)
         IN  /\ OneChanges(a, b, o, None)
             /\ b.byCons = [a.byCons EXCEPT ![a.validators[o].cons] = None]
             /\ b.queue = a.queue /\ b.stake = a.stake /\ b.pool = a.pool
<1> DEFINE i == {e \in a.index : e[1] # o}
           c == a.validators[o].cons
           b == RemoveValidator(a, o)
<1>1. i \in SUBSET (Operator \X Tokens) /\ c \in Cons
  BY AppFields, TheValidator, ValidatorFields
<1>2. b = [a EXCEPT !.validators[o] = None, !.index = i, !.byCons[c] = None]
  BY DEF RemoveValidator
<1> HIDE DEF i, c, b
<1>3. b \in App
  BY <1>1, <1>2 DEF App
<1>4. /\ b.validators = [a.validators EXCEPT ![o] = None] /\ b.index = i
      /\ b.last = a.last /\ b.queue = a.queue
      /\ b.byCons = [a.byCons EXCEPT ![c] = None]
      /\ b.info = a.info /\ b.stake = a.stake /\ b.pool = a.pool
      /\ b.kept = a.kept
  BY <1>2 DEF App
<1> QED
  BY <1>3, <1>4 DEF OneChanges, i, c, b

(* So does creating one.                                                   *)
LEMMA CreateValidatorIs ==
  ASSUME NEW a \in App, NEW o \in Operator, NEW c \in Cons,
         a.stake[o] <= (MaxTokens - 1) * ShareRate
  PROVE  LET b == CreateValidator(a, o, c)
             v == [cons |-> c, status |-> "unbonded", jailed |-> FALSE, tokens |-> 1,
                   unit |-> ShareRate]
         IN  /\ v \in Validator
             /\ OneChanges(a, b, o, v)
             /\ b.byCons = [a.byCons EXCEPT ![c] = o]
             /\ b.queue = a.queue /\ b.pool = a.pool
<1> DEFINE v == [cons |-> c, status |-> "unbonded", jailed |-> FALSE, tokens |-> 1,
                 unit |-> ShareRate]
           d == SetValidator(a, o, v)
           b == CreateValidator(a, o, c)
<1>1. v \in Validator
  BY InPlaceAssumption DEF Validator, Status, Tokens
<1>2. b = [d EXCEPT !.byCons[c] = o, !.stake[o] = @ + ShareRate]
  BY DEF CreateValidator
<1> HIDE DEF v, b, d
<1>3. /\ OneChanges(a, d, o, v)
      /\ d.queue = a.queue /\ d.byCons = a.byCons
      /\ d.stake = a.stake /\ d.pool = a.pool
  BY <1>1, SetValidatorIs DEF d
<1>4. d \in App
  BY <1>3 DEF OneChanges
<1>5. d.stake[o] + ShareRate \in Shares
  BY <1>3, SharesAre, AppFields
<1>6. b \in App
  BY <1>2, <1>4, <1>5 DEF App
<1>7. /\ b.validators = d.validators /\ b.index = d.index
      /\ b.last = d.last /\ b.queue = d.queue
      /\ b.byCons = [d.byCons EXCEPT ![c] = o]
      /\ b.info = d.info /\ b.pool = d.pool /\ b.kept = d.kept
      /\ b.stake = [d.stake EXCEPT ![o] = @ + ShareRate]
  BY <1>2, <1>4 DEF App
<1>8. \A p \in Operator \ {o} : b.stake[p] = a.stake[p]
  BY <1>3, <1>7, AppFields
<1>9. OneChanges(a, b, o, v)
  BY <1>3, <1>6, <1>7, <1>8 DEF OneChanges
<1> QED
  BY <1>1, <1>3, <1>7, <1>9 DEF v, b, d

(* So does a change of stake, pool included.                               *)
LEMMA RestakeIs ==
  ASSUME NEW a \in App, NEW o \in Operator, Exists(a, o), NEW n \in Int,
         a.stake[o] + n * UnitOf(a.validators[o]) \in Shares,
         a.validators[o].tokens + n \in Tokens,
         a.validators[o].status = "bonded" => a.pool + n \in Nat
  PROVE  LET b == Restake(a, o, n)
             v == a.validators[o]
             w == [v EXCEPT !.tokens = @ + n, !.unit = UnitOf(v)]
         IN  /\ w \in Validator
             /\ OneChanges(a, b, o, w)
             /\ b.queue = a.queue /\ b.byCons = a.byCons
             /\ b.stake[o] = a.stake[o] + n * UnitOf(v)
             /\ b.pool = IF v.status = "bonded" THEN a.pool + n ELSE a.pool
<1> DEFINE v == a.validators[o]
           u == UnitOf(v)
           m == n * u
           w == [v EXCEPT !.tokens = @ + n, !.unit = u]
           d == SetValidator(a, o, w)
           b == Restake(a, o, n)
           q == IF v.status = "bonded" THEN a.pool + n ELSE a.pool
<1>0. v \in Validator /\ u \in {1, ShareRate}
  BY TheValidator, UnitIs
<1>1. w \in Validator
  BY <1>0 DEF Validator
<1>2. b = [d EXCEPT !.stake[o] = @ + m,
                    !.pool = IF v.status = "bonded" THEN @ + n ELSE @]
  BY DEF Restake
<1>3. q \in Nat /\ q = IF v.status = "bonded" THEN a.pool + n ELSE a.pool
  BY AppFields
<1>4. a.stake[o] + m \in Shares
  OBVIOUS
<1> HIDE DEF v, u, m, w, d, b, q
<1>5. /\ OneChanges(a, d, o, w)
      /\ d.queue = a.queue /\ d.byCons = a.byCons
      /\ d.stake = a.stake /\ d.pool = a.pool
  BY <1>1, SetValidatorIs DEF d
<1>6. d \in App
  BY <1>5 DEF OneChanges
<1>7. b = [d EXCEPT !.stake[o] = @ + m, !.pool = q]
  BY <1>2, <1>3, <1>5, <1>6 DEF App
<1>8. d.stake[o] + m \in Shares
  BY <1>4, <1>5
<1>9. b \in App
  BY <1>3, <1>6, <1>7, <1>8 DEF App
<1>10. /\ b.validators = d.validators /\ b.index = d.index
       /\ b.last = d.last /\ b.queue = d.queue /\ b.byCons = d.byCons
       /\ b.info = d.info /\ b.kept = d.kept
       /\ b.stake = [d.stake EXCEPT ![o] = @ + m] /\ b.pool = q
  BY <1>6, <1>7 DEF App
<1>11. b.stake[o] = a.stake[o] + m /\ \A p \in Operator \ {o} : b.stake[p] = a.stake[p]
  BY <1>5, <1>10, AppFields
<1>12. OneChanges(a, b, o, w)
  BY <1>5, <1>9, <1>10, <1>11 DEF OneChanges
<1> QED
  BY <1>1, <1>3, <1>5, <1>10, <1>11, <1>12 DEF v, u, m, w, d, b

-----------------------------------------------------------------------------
(* A change of one validator that keeps it in order keeps the chain so.    *)

(* A change of one validator keeps the power index in step.                *)
LEMMA OneIndexed ==
  ASSUME NEW a \in App, Indexed(a), NEW o \in Operator, NEW w \in Validator \cup {None},
         NEW b, OneChanges(a, b, o, w)
  PROVE  Indexed(b)
<1> DEFINE All(c) == UNION {Entry(c.validators[p], p) : p \in {q \in Operator : Exists(c, q)}}
<1>1. /\ \A p \in Operator \ {o} : b.validators[p] = a.validators[p]
      /\ b.validators[o] = w
  BY AppFields DEF OneChanges
<1>2. \A e \in b.index : e \in All(b)
  <2> TAKE e \in b.index
  <2>1. CASE e \in a.index /\ e[1] # o
    <3>1. PICK p \in Operator : Exists(a, p) /\ e \in Entry(a.validators[p], p)
      BY <2>1 DEF Indexed
    <3>2. p # o
      BY <2>1, <3>1 DEF Entry
    <3>3. Exists(b, p) /\ e \in Entry(b.validators[p], p)
      BY <1>1, <3>1, <3>2 DEF Exists
    <3> QED
      BY <3>3
  <2>2. CASE w # None /\ e \in Entry(w, o)
    <3>1. Exists(b, o) /\ e \in Entry(b.validators[o], o)
      BY <1>1, <2>2 DEF Exists
    <3> QED
      BY <3>1
  <2> QED
    BY <2>1, <2>2 DEF OneChanges
<1>3. \A e \in All(b) : e \in b.index
  <2> TAKE e \in All(b)
  <2>1. PICK p \in Operator : Exists(b, p) /\ e \in Entry(b.validators[p], p)
    OBVIOUS
  <2>2. e[1] = p
    BY <2>1 DEF Entry
  <2>3. CASE p = o
    BY <1>1, <2>1, <2>3 DEF OneChanges, Exists
  <2>4. CASE p # o
    <3>1. Exists(a, p) /\ e \in Entry(a.validators[p], p)
      BY <1>1, <2>1, <2>4 DEF Exists
    <3>2. e \in a.index
      BY <3>1 DEF Indexed
    <3> QED
      BY <2>2, <2>4, <3>2 DEF OneChanges
  <2> QED
    BY <2>3, <2>4
<1> QED
  BY <1>2, <1>3 DEF Indexed

(* What is owed is not negative.                                           *)
LEMMA OwedType ==
  ASSUME NEW a \in App
  PROVE  \A o \in Operator : Owed(a)[o] \in Nat
<1> TAKE o \in Operator
<1>1. a.stake[o] \in Nat
  BY AppFields, SharesAre
<1>2. o \in Bonded(a) => a.validators[o].tokens \in Nat
  BY TheValidator, ValidatorFields DEF Bonded, WithStatusOf
<1> QED
  BY <1>1, <1>2 DEF Owed

IsBonded(w) == w # None /\ w.status = "bonded"
IsUnbonding(w) == w # None /\ w.status = "unbonding"

(* And, with these conditions on the new record, the whole state in order. *)
LEMMA OneChain ==
  ASSUME NEW a, Chain(a), NEW o \in Operator, NEW w \in Validator \cup {None},
         NEW b, OneChanges(a, b, o, w), KeysFound(b),
         IsBonded(w) <=> o \in Bonded(a),
         IsBonded(w) => w.cons = a.validators[o].cons,
         b.queue = (a.queue \ {o}) \cup (IF IsUnbonding(w) THEN {o} ELSE {}),
         a.kept \/ (w # None => Stays(w, b.stake[o])),
         a.kept \/ b.pool - Owed(b)[o] >= a.pool - Owed(a)[o]
  PROVE  Chain(b)
<1>1. a \in App /\ b \in App
  BY DEF Chain, OneChanges
<1>2. /\ \A p \in Operator \ {o} : b.validators[p] = a.validators[p]
      /\ b.validators[o] = w
  BY <1>1, AppFields DEF OneChanges
<1>3. Bonded(b) = Bonded(a)
  BY <1>2 DEF Bonded, WithStatusOf, Exists, IsBonded
<1>4. Indexed(b)
  BY <1>1, OneIndexed DEF Chain
<1>5. Recorded(b)
  <2>1. DOMAIN b.last = Bonded(b)
    BY <1>3 DEF Chain, Recorded, OneChanges
  <2>2. b.queue = WithStatusOf(b, "unbonding")
    BY <1>2 DEF Chain, Recorded, WithStatusOf, Exists, IsUnbonding
  <2>3. \A p \in Bonded(b) : b.validators[p].cons \in b.info
    BY <1>2, <1>3 DEF Chain, Recorded, OneChanges
  <2> QED
    BY <2>1, <2>2, <2>3 DEF Recorded
<1>6. b.kept = a.kept
  BY DEF OneChanges
<1>7. ASSUME ~a.kept
      PROVE  UserStays(b)
  <2> SUFFICES ASSUME NEW p \in Operator, Exists(b, p)
               PROVE  Stays(b.validators[p], b.stake[p])
    BY DEF UserStays
  <2>1. CASE p = o
    BY <1>2, <1>7, <2>1 DEF Exists
  <2>2. CASE p # o
    <3>1. /\ Exists(a, p) /\ b.validators[p] = a.validators[p]
          /\ b.stake[p] = a.stake[p]
      BY <1>2, <2>2 DEF Exists, OneChanges
    <3> QED
      BY <1>7, <3>1 DEF Chain, UserStays
  <2> QED
    BY <2>1, <2>2
<1>8. ASSUME ~a.kept
      PROVE  Covered(b)
  <2>1. \A p \in Operator \ {o} : Owed(b)[p] = Owed(a)[p]
    BY <1>2, <1>3 DEF Owed, OneChanges
  <2>2. \A p \in Operator : Owed(a)[p] \in Int /\ Owed(b)[p] \in Int
    BY <1>1, OwedType
  <2>3. SumOver(Owed(b), Operator) = SumOver(Owed(a), Operator) - Owed(a)[o] + Owed(b)[o]
    BY <2>1, <2>2, SumUpdate, InPlaceAssumption
  <2>4. SumOver(Owed(a), Operator) \in Int /\ SumOver(Owed(a), Operator) <= a.pool
    BY <1>8, <2>2, SumType, InPlaceAssumption DEF Chain, Covered
  <2>5. a.pool \in Int /\ b.pool \in Int
    BY <1>1, AppFields
  <2>6. b.pool - Owed(b)[o] >= a.pool - Owed(a)[o]
    BY <1>8
  <2>7. SumOver(Owed(b), Operator) <= b.pool
    BY <2>2, <2>3, <2>4, <2>5, <2>6
  <2> QED
    BY <2>7 DEF Covered
<1>9. UserStays(b) /\ Covered(b)
  BY <1>6, <1>7, <1>8 DEF UserStays, Covered
<1> QED
  BY <1>1, <1>4, <1>5, <1>9 DEF Chain

(* Its key is still found: it keeps the key it had, or goes.               *)
LEMMA KeyKept ==
  ASSUME NEW a \in App, KeysFound(a), NEW o \in Operator, NEW w \in Validator,
         NEW b, OneChanges(a, b, o, w), b.byCons = a.byCons,
         Exists(a, o), w.cons = a.validators[o].cons
  PROVE  KeysFound(b)
<1>1. /\ \A p \in Operator \ {o} : b.validators[p] = a.validators[p]
      /\ b.validators[o] = w
  BY AppFields DEF OneChanges
<1> QED
  BY <1>1 DEF KeysFound, Exists

(* After a removal no other validator loses its key.                       *)
LEMMA KeyGone ==
  ASSUME NEW a \in App, KeysFound(a), NEW o \in Operator, Exists(a, o),
         NEW b, OneChanges(a, b, o, None),
         b.byCons = [a.byCons EXCEPT ![a.validators[o].cons] = None]
  PROVE  KeysFound(b)
<1>1. /\ \A p \in Operator \ {o} : b.validators[p] = a.validators[p]
      /\ b.validators[o] = None
  BY AppFields DEF OneChanges
<1> SUFFICES ASSUME NEW p \in Operator, Exists(b, p)
             PROVE  b.byCons[b.validators[p].cons] = p
  BY DEF KeysFound
<1>2. p # o /\ Exists(a, p) /\ b.validators[p] = a.validators[p]
  BY <1>1 DEF Exists
<1>3. a.byCons[a.validators[p].cons] = p /\ a.byCons[a.validators[o].cons] = o
  BY <1>2 DEF KeysFound
<1>4. a.validators[p].cons \in Cons
  BY <1>2, TheValidator, ValidatorFields
<1> QED
  BY <1>2, <1>3, <1>4, AppFields

-----------------------------------------------------------------------------
(* What a block does before the election: the chain stays in order, and    *)
(* nobody in the last set changes the key or ceases to be alive.           *)
BeforeElection(a, b) ==
  /\ Chain(b)
  /\ Alive(a) \subseteq Alive(b)
  /\ b.last = a.last /\ b.kept = a.kept
  /\ \A o \in DOMAIN a.last : b.validators[o].cons = a.validators[o].cons
  /\ Standing(a) => Standing(b)

(* What a change of one validator has to be for that.                      *)
LEMMA OneBefore ==
  ASSUME NEW a, Chain(a), NEW o \in Operator, NEW w \in Validator \cup {None},
         NEW b, OneChanges(a, b, o, w), Chain(b),
         Exists(a, o) /\ a.validators[o].status # "unbonded" =>
           /\ w # None /\ w.status = a.validators[o].status
           /\ w.cons = a.validators[o].cons
           /\ ~a.kept /\ a.validators[o].unit = 1 => w.unit = 1
  PROVE  BeforeElection(a, b)
<1>1. a \in App
  BY DEF Chain
<1>2. /\ \A p \in Operator \ {o} : b.validators[p] = a.validators[p]
      /\ b.validators[o] = w
  BY <1>1, AppFields DEF OneChanges
<1>3. Alive(a) \subseteq Alive(b)
  <2> SUFFICES ASSUME NEW c \in Alive(a)
               PROVE  c \in Alive(b)
    OBVIOUS
  <2>1. PICK p \in Operator :
          Exists(a, p) /\ a.validators[p].cons = c /\ a.validators[p].status # "unbonded"
    BY DEF Alive
  <2>2. Exists(b, p) /\ b.validators[p].cons = c /\ b.validators[p].status # "unbonded"
    BY <1>2, <2>1 DEF Exists
  <2>3. c \in b.info
    BY DEF Alive, OneChanges
  <2> QED
    BY <2>2, <2>3 DEF Alive
<1>4. \A p \in DOMAIN a.last : b.validators[p].cons = a.validators[p].cons
  <2>1. DOMAIN a.last = Bonded(a)
    BY DEF Chain, Recorded
  <2> QED
    BY <1>2, <2>1 DEF Bonded, WithStatusOf
<1>5. ASSUME Standing(a)
      PROVE  Standing(b)
  <2>1. CASE a.kept
    BY <2>1 DEF Standing, OneChanges
  <2>2. CASE ~a.kept
    <3>1. PICK p \in Bonded(a) : a.validators[p].unit = 1
      BY <1>5, <2>2 DEF Standing
    <3>2. p \in Operator /\ Exists(a, p) /\ a.validators[p].status = "bonded"
      BY DEF Bonded, WithStatusOf
    <3>3. Exists(b, p) /\ b.validators[p].status = "bonded" /\ b.validators[p].unit = 1
      BY <1>2, <2>2, <3>1, <3>2 DEF Exists
    <3> QED
      BY <3>2, <3>3 DEF Standing, Bonded, WithStatusOf
  <2> QED
    BY <2>1, <2>2
<1> QED
  BY <1>3, <1>4, <1>5 DEF BeforeElection, OneChanges

(* A block may change nothing before its election.                         *)
LEMMA Unchanged ==
  ASSUME NEW a, Chain(a)
  PROVE  BeforeElection(a, a)
BY DEF BeforeElection

(* Changes before an election add up.                                      *)
LEMMA BeforeTwice ==
  ASSUME NEW a, NEW b, NEW c, BeforeElection(a, b), BeforeElection(b, c)
  PROVE  BeforeElection(a, c)
BY DEF BeforeElection

(* What is owed for a validator, by its kind.                              *)
LEMMA OwedFor ==
  ASSUME NEW a \in App, NEW o \in Operator, NEW w \in Validator \cup {None},
         a.validators[o] = w
  PROVE  Owed(a)[o] = IF ~IsBonded(w) THEN 0
                      ELSE IF w.unit = 1 THEN a.stake[o] ELSE w.tokens
BY DEF Owed, Bonded, WithStatusOf, Exists, IsBonded

(* Jailing someone else's validator is such a change.                      *)
LEMMA JailBefore ==
  ASSUME NEW a, Chain(a), NEW o \in Operator, Exists(a, o),
         a.validators[o].cons # UserKey
  PROVE  LET b == Jail(a, o)
         IN  /\ BeforeElection(a, b)
             /\ Exists(b, o)
             /\ b.validators[o] = [a.validators[o] EXCEPT !.jailed = TRUE]
             /\ b.stake = a.stake /\ b.pool = a.pool
<1> DEFINE v == a.validators[o]
           w == [v EXCEPT !.jailed = TRUE]
           b == Jail(a, o)
<1>0. a \in App /\ Exists(a, o) /\ v.cons # UserKey
  BY DEF Chain
<1>1. v \in Validator
  BY <1>0, TheValidator
<1>2. /\ w \in Validator /\ w.cons = v.cons /\ w.status = v.status
      /\ w.tokens = v.tokens /\ w.unit = v.unit /\ w # None /\ v # None
  BY <1>1, NoneAssumption DEF Validator
<1>3. b = SetValidator(a, o, w)
  BY DEF Jail
<1>4. w = [a.validators[o] EXCEPT !.jailed = TRUE]
  OBVIOUS
<1> HIDE DEF w, b
<1>5. /\ OneChanges(a, b, o, w)
      /\ b.queue = a.queue /\ b.byCons = a.byCons
      /\ b.stake = a.stake /\ b.pool = a.pool
  BY <1>0, <1>2, <1>3, SetValidatorIs
<1>6. KeysFound(b)
  BY <1>0, <1>2, <1>5, KeyKept DEF Chain
<1>7. b \in App /\ b.validators[o] = w
  BY <1>0, <1>5, AppFields DEF OneChanges
<1>8. Owed(b)[o] = Owed(a)[o]
  BY <1>0, <1>1, <1>2, <1>5, <1>7, OwedFor DEF IsBonded
<1>9. IsBonded(w) <=> o \in Bonded(a)
  BY <1>2 DEF Bonded, WithStatusOf, Exists, IsBonded
<1>10. b.queue = (a.queue \ {o}) \cup (IF IsUnbonding(w) THEN {o} ELSE {})
  BY <1>2, <1>5 DEF Chain, Recorded, WithStatusOf, Exists, IsUnbonding
<1>11. b.pool - Owed(b)[o] >= a.pool - Owed(a)[o]
  BY <1>0, <1>5, <1>8, AppFields, OwedType
<1>12. a.kept \/ (w # None => Stays(w, b.stake[o]))
  BY <1>0, <1>2 DEF Chain, UserStays, Stays
<1>13. Chain(b)
  BY <1>0, <1>2, <1>5, <1>6, <1>9, <1>10, <1>11, <1>12, OneChain
<1>14. BeforeElection(a, b)
  BY <1>0, <1>2, <1>5, <1>13, OneBefore
<1>15. Exists(b, o)
  BY <1>2, <1>7 DEF Exists
<1> QED
  BY <1>4, <1>5, <1>7, <1>14, <1>15 DEF b

(* So is creating a validator,                                             *)
LEMMA CreateBefore ==
  ASSUME NEW a, Chain(a), NEW o \in Operator, NEW c \in Cons,
         ~Exists(a, o), ~Resolves(a, c), a.stake[o] <= (MaxTokens - 1) * ShareRate
  PROVE  BeforeElection(a, CreateValidator(a, o, c))
<1> DEFINE w == [cons |-> c, status |-> "unbonded", jailed |-> FALSE, tokens |-> 1,
                 unit |-> ShareRate]
           b == CreateValidator(a, o, c)
<1>0. a \in App
  BY DEF Chain
<1>1. /\ w \in Validator
      /\ OneChanges(a, b, o, w)
      /\ b.byCons = [a.byCons EXCEPT ![c] = o]
      /\ b.queue = a.queue /\ b.pool = a.pool
  BY <1>0, CreateValidatorIs
<1>2. /\ w # None /\ w.cons = c /\ ~IsBonded(w) /\ ~IsUnbonding(w)
      /\ w.unit # 1
  BY <1>1, NoneAssumption, InPlaceAssumption DEF IsBonded, IsUnbonding
<1> HIDE DEF w, b
<1>3. /\ \A p \in Operator \ {o} : b.validators[p] = a.validators[p]
      /\ b.validators[o] = w /\ b \in App
  BY <1>0, <1>1, AppFields DEF OneChanges
<1>4. KeysFound(b)
  <2> SUFFICES ASSUME NEW p \in Operator, Exists(b, p)
               PROVE  b.byCons[b.validators[p].cons] = p
    BY DEF KeysFound
  <2>1. CASE p = o
    BY <1>0, <1>1, <1>2, <1>3, <2>1, AppFields
  <2>2. CASE p # o
    <3>1. Exists(a, p) /\ b.validators[p] = a.validators[p]
      BY <1>3, <2>2 DEF Exists
    <3>2. a.byCons[a.validators[p].cons] = p
      BY <3>1 DEF Chain, KeysFound
    <3>3. p # None
      BY InPlaceAssumption
    <3>4. a.validators[p].cons # c
      BY <3>1, <3>2, <3>3 DEF Resolves
    <3>5. a.validators[p].cons \in Cons
      BY <1>0, <3>1, TheValidator, ValidatorFields
    <3> QED
      BY <1>0, <1>1, <3>1, <3>2, <3>4, <3>5, AppFields
  <2> QED
    BY <2>1, <2>2
<1>5. o \notin Bonded(a) /\ o \notin a.queue
  BY DEF Bonded, WithStatusOf, Chain, Recorded
<1>6. Owed(a)[o] = 0 /\ Owed(b)[o] = 0
  BY <1>0, <1>1, <1>2, <1>3, <1>5, OwedFor DEF Owed
<1>7. b.queue = (a.queue \ {o}) \cup (IF IsUnbonding(w) THEN {o} ELSE {})
  BY <1>1, <1>2, <1>5
<1>8. b.pool - Owed(b)[o] >= a.pool - Owed(a)[o]
  BY <1>0, <1>1, <1>6, AppFields
<1>9. Stays(w, b.stake[o])
  BY <1>2 DEF Stays
<1>10. Chain(b)
  BY <1>0, <1>1, <1>2, <1>4, <1>5, <1>7, <1>8, <1>9, OneChain
<1>11. BeforeElection(a, b)
  BY <1>0, <1>1, <1>10, OneBefore
<1> QED
  BY <1>11 DEF b

(* Delegate, and undelegate as long as the validator stays.  Only a token  *)
(* or two of a kind change hands.                                          *)
LEMMA RestakeBefore ==
  ASSUME NEW a, Chain(a), NEW o \in Operator, Exists(a, o), NEW n \in {1, -1},
         a.stake[o] + n * UnitOf(a.validators[o]) \in Shares,
         a.validators[o].tokens + n \in Tokens,
         a.validators[o].status = "bonded" => a.pool + n \in Nat,
         n = 1 => a.stake[o] <= (MaxTokens - 1) * UnitOf(a.validators[o])
  PROVE  /\ BeforeElection(a, Restake(a, o, n))
         /\ Exists(Restake(a, o, n), o)
         /\ Restake(a, o, n).validators[o].status = a.validators[o].status
         /\ Restake(a, o, n).validators[o].cons = a.validators[o].cons
<1> DEFINE v == a.validators[o]
           u == UnitOf(v)
           w == [v EXCEPT !.tokens = @ + n, !.unit = u]
           b == Restake(a, o, n)
<1>0. a \in App /\ n \in Int
  BY DEF Chain
<1>1. v \in Validator
  BY <1>0, TheValidator
<1>2. /\ w.cons = v.cons /\ w.status = v.status /\ w.jailed = v.jailed
      /\ w.tokens = v.tokens + n /\ w.unit = u /\ v # None
  BY <1>1, NoneAssumption DEF Validator
<1>3. /\ w \in Validator
      /\ OneChanges(a, b, o, w)
      /\ b.queue = a.queue /\ b.byCons = a.byCons
      /\ b.stake[o] = a.stake[o] + n * u
      /\ b.pool = IF v.status = "bonded" THEN a.pool + n ELSE a.pool
  BY <1>0, RestakeIs
<1>4. w # None
  BY <1>3, NoneAssumption
<1>5. /\ u \in {1, ShareRate} /\ u \in Nat \ {0}
      /\ v.tokens > 0 => u = v.unit
  BY <1>1, UnitIs
<1>6. n = 1 => a.stake[o] <= (MaxTokens - 1) * u
  OBVIOUS
<1> HIDE DEF v, u, w, b
<1>7. KeysFound(b)
  BY <1>0, <1>2, <1>3, KeyKept DEF Chain, v
<1>8. b \in App /\ b.validators[o] = w /\ a.validators[o] = v
  BY <1>0, <1>3, AppFields DEF OneChanges, v
<1>9. IsBonded(w) <=> o \in Bonded(a)
  BY <1>2, <1>4, <1>8 DEF Bonded, WithStatusOf, Exists, IsBonded
<1>10. b.queue = (a.queue \ {o}) \cup (IF IsUnbonding(w) THEN {o} ELSE {})
  BY <1>0, <1>2, <1>3, <1>4, <1>8 DEF Chain, Recorded, WithStatusOf, IsUnbonding, Exists
<1>11. /\ a.pool \in Int /\ a.stake[o] \in Nat /\ v.tokens \in Nat
       /\ MaxTokens \in Int
  <2>1. a.pool \in Nat /\ a.stake \in [Operator -> Shares]
    BY <1>0, AppFields
  <2>2. a.stake[o] \in Nat
    BY <2>1, SharesAre
  <2>3. v.tokens \in Nat
    BY <1>1, ValidatorFields
  <2> QED
    BY <2>1, <2>2, <2>3, InPlaceAssumption
<1>12. ASSUME ~a.kept, v.unit = 1
       PROVE  u = 1 /\ Stays(v, a.stake[o])
  <2>1. Stays(v, a.stake[o])
    BY <1>8, <1>12 DEF Chain, UserStays
  <2> QED
    BY <1>5, <1>11, <1>12, <2>1 DEF Stays
<1>13. ASSUME ~a.kept, u = 1
       PROVE  v.unit = 1
  BY <1>5, <1>13, InPlaceAssumption DEF u, UnitOf
<1>14. ASSUME ~a.kept
       PROVE  b.pool - Owed(b)[o] >= a.pool - Owed(a)[o]
  <2>1. /\ Owed(a)[o] = IF ~IsBonded(v) THEN 0
                        ELSE IF v.unit = 1 THEN a.stake[o] ELSE v.tokens
        /\ Owed(b)[o] = IF ~IsBonded(w) THEN 0
                        ELSE IF w.unit = 1 THEN b.stake[o] ELSE w.tokens
    BY <1>0, <1>1, <1>3, <1>8, OwedFor
  <2>2. IsBonded(v) <=> v.status = "bonded"
    BY <1>2 DEF IsBonded
  <2>3. IsBonded(w) <=> v.status = "bonded"
    BY <1>2, <1>4 DEF IsBonded
  <2>4. CASE v.unit = 1
    <3>1. w.unit = 1 /\ b.stake[o] = a.stake[o] + n
      BY <1>0, <1>2, <1>3, <1>12, <1>14, <2>4
    <3> QED
      BY <1>0, <1>2, <1>3, <1>11, <2>1, <2>2, <2>3, <2>4, <3>1
  <2>5. CASE v.unit # 1
    <3>1. w.unit # 1
      BY <1>2, <1>13, <1>14, <2>5
    <3> QED
      BY <1>0, <1>2, <1>3, <1>11, <2>1, <2>2, <2>3, <2>5, <3>1
  <2> QED
    BY <2>4, <2>5
<1>15. ASSUME ~a.kept
       PROVE  Stays(w, b.stake[o])
  <2>1. CASE w.unit = 1
    <3>1. u = 1 /\ Stays(v, a.stake[o]) /\ v.unit = 1
      BY <1>2, <1>12, <1>13, <1>15, <2>1
    <3>2. b.stake[o] = a.stake[o] + n /\ (n = 1 => a.stake[o] <= MaxTokens - 1)
      BY <1>0, <1>3, <1>6, <1>11, <3>1
    <3> QED
      BY <1>0, <1>2, <1>11, <2>1, <3>1, <3>2 DEF Stays
  <2>2. CASE w.unit # 1
    BY <2>2 DEF Stays
  <2> QED
    BY <2>1, <2>2
<1>16. Chain(b)
  BY <1>2, <1>3, <1>7, <1>8, <1>9, <1>10, <1>14, <1>15, OneChain
<1>17. BeforeElection(a, b)
  BY <1>2, <1>3, <1>4, <1>8, <1>12, <1>16, OneBefore
<1> QED
  BY <1>2, <1>4, <1>8, <1>17 DEF b, v, Exists

(* A validator without tokens that unbonds no longer goes.                 *)
LEMMA RemoveBefore ==
  ASSUME NEW a, Chain(a), NEW o \in Operator, Exists(a, o),
         a.validators[o].status = "unbonded"
  PROVE  BeforeElection(a, RemoveValidator(a, o))
<1> DEFINE b == RemoveValidator(a, o)
<1>0. a \in App
  BY DEF Chain
<1>1. /\ OneChanges(a, b, o, None)
      /\ b.byCons = [a.byCons EXCEPT ![a.validators[o].cons] = None]
      /\ b.queue = a.queue /\ b.stake = a.stake /\ b.pool = a.pool
  BY <1>0, RemoveValidatorIs
<1> HIDE DEF b
<1>2. KeysFound(b)
  BY <1>0, <1>1, KeyGone DEF Chain
<1>3. b \in App /\ b.validators[o] = None
  BY <1>0, <1>1, AppFields DEF OneChanges
<1>4. o \notin Bonded(a) /\ ~IsBonded(None) /\ ~IsUnbonding(None)
  BY DEF Bonded, WithStatusOf, IsBonded, IsUnbonding
<1>5. Owed(a)[o] = 0 /\ Owed(b)[o] = 0
  BY <1>3, <1>4, OwedFor DEF Owed
<1>6. b.queue = (a.queue \ {o}) \cup (IF IsUnbonding(None) THEN {o} ELSE {})
  BY <1>1, <1>4 DEF Chain, Recorded, WithStatusOf
<1>7. b.pool - Owed(b)[o] >= a.pool - Owed(a)[o]
  BY <1>0, <1>1, <1>5, AppFields
<1>8. Chain(b)
  BY <1>1, <1>2, <1>4, <1>6, <1>7, OneChain
<1>9. BeforeElection(a, b)
  BY <1>1, <1>8, OneBefore
<1> QED
  BY <1>9 DEF b

(* undelegating,                                                           *)
LEMMA UndelegateBefore ==
  ASSUME NEW a, Chain(a), NEW o \in Operator, MayUndelegate(a, o)
  PROVE  BeforeElection(a, Undelegate(a, o))
<1> DEFINE b == Restake(a, o, -1)
           u == UnitOf(a.validators[o])
<1>1. a \in App /\ Exists(a, o)
  BY DEF Chain, MayUndelegate
<1>2. /\ a.stake[o] \in Shares /\ a.pool \in Nat
      /\ a.validators[o] \in Validator
      /\ a.validators[o].tokens \in Tokens /\ a.validators[o].tokens \in Nat
  BY <1>1, AppFields, TheValidator, ValidatorFields
<1>3. u \in {1, ShareRate} /\ a.stake[o] >= u
  BY <1>2, UnitIs DEF MayUndelegate
<1>4. /\ -1 \in {1, -1} /\ -1 # 1
      /\ a.stake[o] + (-1) * u \in Shares
      /\ a.validators[o].tokens + (-1) \in Tokens
      /\ a.validators[o].status = "bonded" => a.pool + (-1) \in Nat
  <2>1. a.stake[o] + (-1) * u \in Shares
    BY <1>2, <1>3, SharesAre
  <2>2. a.validators[o].tokens + (-1) \in Tokens
    BY <1>2, InPlaceAssumption DEF Tokens, MayUndelegate
  <2>3. a.validators[o].status = "bonded" => a.pool + (-1) \in Nat
    BY <1>2 DEF MayUndelegate
  <2> QED
    BY <2>1, <2>2, <2>3
<1>5. BeforeElection(a, b) /\ Exists(b, o)
  BY <1>1, <1>4, RestakeBefore
<1>6. Undelegate(a, o) = IF b.validators[o].tokens = 0 /\ b.validators[o].status = "unbonded"
                         THEN RemoveValidator(b, o) ELSE b
  BY DEF Undelegate
<1> HIDE DEF b
<1>7. Chain(b)
  BY <1>5 DEF BeforeElection
<1>8. b.validators[o].status = "unbonded" => BeforeElection(a, RemoveValidator(b, o))
  BY <1>5, <1>7, RemoveBefore, BeforeTwice
<1> QED
  BY <1>5, <1>6, <1>8

(* also by someone else's operator, who is jailed for it,                  *)
LEMMA UndelegateOwnBefore ==
  ASSUME NEW a, Chain(a), NEW o \in Operator, MayUndelegate(a, o),
         a.validators[o].cons # UserKey
  PROVE  BeforeElection(a, UndelegateOwn(a, o))
<1> DEFINE b == Jail(a, o)
           v == a.validators[o]
<1>1. a \in App /\ Exists(a, o)
  BY DEF Chain, MayUndelegate
<1>2. /\ BeforeElection(a, b) /\ Exists(b, o)
      /\ b.validators[o] = [v EXCEPT !.jailed = TRUE]
      /\ b.stake = a.stake /\ b.pool = a.pool
  BY <1>1, JailBefore
<1>3. v \in Validator
  BY <1>1, TheValidator
<1> HIDE DEF b
<1>4. /\ b.validators[o].tokens = v.tokens /\ b.validators[o].unit = v.unit
      /\ b.validators[o].status = v.status
  BY <1>2, <1>3 DEF Validator
<1>5. MayUndelegate(b, o)
  BY <1>2, <1>4 DEF MayUndelegate
<1>6. Chain(b)
  BY <1>2 DEF BeforeElection
<1>7. BeforeElection(b, Undelegate(b, o))
  BY <1>5, <1>6, UndelegateBefore
<1>8. UndelegateOwn(a, o) = Undelegate(b, o)
  BY DEF UndelegateOwn, b
<1> QED
  BY <1>2, <1>7, <1>8, BeforeTwice

(* and unjailing.                                                          *)
LEMMA UnjailBefore ==
  ASSUME NEW a, Chain(a), NEW o \in Operator, Exists(a, o), a.validators[o].jailed
  PROVE  BeforeElection(a, Unjail(a, o))
<1> DEFINE v == a.validators[o]
           w == [v EXCEPT !.jailed = FALSE]
           b == Unjail(a, o)
<1>0. a \in App
  BY DEF Chain
<1>1. v \in Validator
  BY <1>0, TheValidator
<1>2. /\ w \in Validator /\ w.cons = v.cons /\ w.status = v.status /\ ~w.jailed
      /\ w.tokens = v.tokens /\ w.unit = v.unit /\ w # None /\ v # None
  BY <1>1, NoneAssumption DEF Validator
<1>3. b = SetValidator(a, o, w)
  BY DEF Unjail
<1> HIDE DEF w, b
<1>4. /\ OneChanges(a, b, o, w)
      /\ b.queue = a.queue /\ b.byCons = a.byCons
      /\ b.stake = a.stake /\ b.pool = a.pool
  BY <1>0, <1>2, <1>3, SetValidatorIs
<1>5. KeysFound(b)
  BY <1>0, <1>2, <1>4, KeyKept DEF Chain
<1>6. b \in App /\ b.validators[o] = w
  BY <1>0, <1>4, AppFields DEF OneChanges
<1>7. Owed(b)[o] = Owed(a)[o]
  BY <1>0, <1>1, <1>2, <1>4, <1>6, OwedFor DEF IsBonded
<1>8. IsBonded(w) <=> o \in Bonded(a)
  BY <1>2 DEF Bonded, WithStatusOf, Exists, IsBonded
<1>9. b.queue = (a.queue \ {o}) \cup (IF IsUnbonding(w) THEN {o} ELSE {})
  BY <1>2, <1>4 DEF Chain, Recorded, WithStatusOf, Exists, IsUnbonding
<1>10. b.pool - Owed(b)[o] >= a.pool - Owed(a)[o]
  BY <1>0, <1>4, <1>7, AppFields, OwedType
<1>11. a.kept \/ (w # None => Stays(w, b.stake[o]))
  BY <1>0, <1>2, <1>4 DEF Chain, UserStays, Stays
<1>12. Chain(b)
  BY <1>0, <1>2, <1>4, <1>5, <1>8, <1>9, <1>10, <1>11, OneChain
<1>13. BeforeElection(a, b)
  BY <1>0, <1>2, <1>4, <1>12, OneBefore
<1> QED
  BY <1>13 DEF b

(* Whatever a block's transactions do.                                     *)
LEMMA DeliveredBefore ==
  ASSUME NEW a, Chain(a), NEW b \in Delivered(a)
  PROVE  BeforeElection(a, b)
<1>0. a \in App
  BY DEF Chain
<1>1. CASE b = a
  BY <1>1, Unchanged
<1>2. ASSUME NEW o \in Operator, NEW c \in Cons, ~Exists(a, o), ~Resolves(a, c),
             a.stake[o] <= (MaxTokens - 1) * ShareRate, b = CreateValidator(a, o, c)
      PROVE  BeforeElection(a, b)
  BY <1>2, CreateBefore
<1>3. ASSUME NEW o \in Operator, Exists(a, o),
             a.stake[o] <= (MaxTokens - 1) * UnitOf(a.validators[o]),
             a.validators[o].tokens < valVotingPower + MaxTokens, b = Restake(a, o, 1)
      PROVE  BeforeElection(a, b)
  <2> DEFINE u == UnitOf(a.validators[o])
  <2>1. /\ a.stake[o] \in Shares /\ a.stake[o] \in Nat /\ a.pool \in Nat
        /\ a.validators[o].tokens \in Tokens
        /\ u \in {1, ShareRate} /\ u \in Nat
    BY <1>0, <1>3, AppFields, TheValidator, ValidatorFields, UnitIs, SharesAre
  <2>2. a.stake[o] + u \in Shares
    BY <1>3, <2>1, SharesAre
  <2>3. /\ 1 \in {1, -1}
        /\ a.stake[o] + 1 * u \in Shares
        /\ a.validators[o].tokens + 1 \in Tokens
        /\ a.validators[o].status = "bonded" => a.pool + 1 \in Nat
    <3>1. a.stake[o] + 1 * u \in Shares
      <4> HIDE DEF u
      <4> QED
        BY <2>1, <2>2
    <3> QED
      BY <1>3, <2>1, <3>1, InPlaceAssumption DEF Tokens
  <2> QED
    BY <1>3, <2>3, RestakeBefore
<1>4. ASSUME NEW o \in Operator, MayUndelegate(a, o), b = Undelegate(a, o)
      PROVE  BeforeElection(a, b)
  BY <1>4, UndelegateBefore
<1>5. ASSUME NEW o \in Operator, MayUndelegate(a, o), a.validators[o].cons # UserKey,
             b = UndelegateOwn(a, o)
      PROVE  BeforeElection(a, b)
  BY <1>5, UndelegateOwnBefore
<1>6. ASSUME NEW o \in Operator, Exists(a, o), a.validators[o].jailed, b = Unjail(a, o)
      PROVE  BeforeElection(a, b)
  BY <1>6, UnjailBefore
<1>7. \A o \in Operator : \A c \in Keys[o] : c \in Cons
  BY InPlaceAssumption
<1> QED
  BY <1>1, <1>2, <1>3, <1>4, <1>5, <1>6, <1>7 DEF Delivered

-----------------------------------------------------------------------------
(* The election.                                                           *)

(* Whoever is elected is not jailed and has tokens.                        *)
LEMMA ElectedAre ==
  ASSUME NEW a, Chain(a)
  PROVE  /\ Elected(a) = {o \in Operator : /\ Exists(a, o) /\ ~a.validators[o].jailed
                                           /\ a.validators[o].tokens > 0}
         /\ Elected(a) \subseteq Operator
         /\ Entering(a) = Elected(a) \ Bonded(a)
         /\ Leaving(a) = Bonded(a) \ Elected(a)
<1>1. \A o \in Elected(a) : /\ o \in Operator /\ Exists(a, o) /\ ~a.validators[o].jailed
                            /\ a.validators[o].tokens > 0
  <2> TAKE o \in Elected(a)
  <2>1. PICK e \in a.index : e[2] > 0 /\ e[1] = o
    BY DEF Elected
  <2>2. PICK p \in Operator : Exists(a, p) /\ e \in Entry(a.validators[p], p)
    BY DEF Chain, Indexed
  <2> QED
    BY <2>1, <2>2 DEF Entry
<1>2. ASSUME NEW o \in Operator, Exists(a, o), ~a.validators[o].jailed,
             a.validators[o].tokens > 0
      PROVE  o \in Elected(a)
  <2>1. <<o, a.validators[o].tokens>> \in a.index
    BY <1>2 DEF Chain, Indexed, Entry
  <2> QED
    BY <1>2, <2>1 DEF Elected
<1>3. Entering(a) = Elected(a) \ Bonded(a)
  BY <1>1 DEF Entering, Bonded, WithStatusOf
<1>4. Leaving(a) = Bonded(a) \ Elected(a)
  BY DEF Leaving, Chain, Recorded
<1> QED
  BY <1>1, <1>2, <1>3, <1>4

(* The tokens of some validators are a sum over all operators.             *)
Known(a) == {o \in Operator : Exists(a, o)}
TokensIn(a, S) == [o \in Operator |-> IF o \in S THEN a.validators[o].tokens ELSE 0]

(* The tokens of a set of validators are a sum over all operators.         *)
LEMMA TokensOfIs ==
  ASSUME NEW a \in App, NEW S \in SUBSET Known(a)
  PROVE  /\ TokensOf(a.validators, S) = SumOver(TokensIn(a, S), Operator)
         /\ TokensOf(a.validators, S) \in Nat
         /\ \A o \in Operator : TokensIn(a, S)[o] \in Nat
<1> DEFINE f == TokensIn(a, S)
           g == [o \in S |-> a.validators[o].tokens]
<1>1. TokensOf(a.validators, S) = SumOver(g, S)
  BY DEF TokensOf, SumOver
<1>2. \A o \in S : g[o] \in Nat /\ f[o] = g[o]
  BY TheValidator, ValidatorFields DEF Known, TokensIn
<1>3. \A o \in Operator : f[o] \in Nat
  BY <1>2 DEF TokensIn
<1>4. S \subseteq Operator /\ \A o \in Operator \ S : f[o] = 0
  BY DEF Known, TokensIn
<1> HIDE DEF f, g
<1>5. IsFiniteSet(Operator) /\ IsFiniteSet(S)
  BY <1>4, InPlaceAssumption, FS_Subset
<1>6. \A o \in S : g[o] \in Int
  BY <1>2
<1>7. SumOver(f, S) = SumOver(g, S)
  BY <1>2, <1>5, <1>6, SumSame
<1>8. \A o \in Operator : f[o] \in Int
  BY <1>3
<1>9. SumOver(f, Operator) = SumOver(f, S)
  BY <1>4, <1>5, <1>8, SumOutside
<1>10. SumOver(f, Operator) \in Nat
  BY <1>3, <1>5, SumNat
<1> QED
  BY <1>1, <1>3, <1>7, <1>9, <1>10 DEF f

(* Who leaves is not the command's validator, so the pool owes it all of   *)
(* its tokens.                                                             *)
LEMMA OthersLeave ==
  ASSUME NEW a, Chain(a), NEW o \in Leaving(a)
  PROVE  /\ o \in Operator /\ Exists(a, o)
         /\ a.validators[o].status = "bonded"
         /\ ~a.kept => /\ a.validators[o].unit # 1
                       /\ Owed(a)[o] = a.validators[o].tokens
<1>1. o \in Bonded(a) /\ o \notin Elected(a)
  BY ElectedAre
<1>2. /\ o \in Operator /\ Exists(a, o) /\ a.validators[o].status = "bonded"
      /\ a \in App
  BY <1>1 DEF Bonded, WithStatusOf, Chain
<1>3. ~a.kept => a.validators[o].unit # 1
  <2> SUFFICES ASSUME ~a.kept, a.validators[o].unit = 1
               PROVE  FALSE
    OBVIOUS
  <2>1. a.stake[o] < a.validators[o].tokens /\ ~a.validators[o].jailed
    BY <1>1, <1>2 DEF Chain, UserStays, Stays
  <2>2. a.stake[o] \in Nat /\ a.validators[o].tokens \in Nat
    BY <1>2, AppFields, TheValidator, ValidatorFields, SharesAre
  <2>3. o \in Elected(a)
    BY <1>2, <2>1, <2>2, ElectedAre
  <2> QED
    BY <1>1, <2>3
<1> QED
  BY <1>1, <1>2, <1>3 DEF Owed

(* The pool has what leaves it, and keeps what it owes for the rest.       *)
LEMMA PoolSuffices ==
  ASSUME NEW a, Chain(a), ~a.kept,
         NEW g, \A o \in Operator :
                  g[o] = IF o \notin Elected(a) THEN 0
                         ELSE IF a.validators[o].unit = 1 THEN a.stake[o]
                         ELSE a.validators[o].tokens
  PROVE  LET in  == TokensOf(a.validators, Entering(a))
             out == TokensOf(a.validators, Leaving(a))
         IN  /\ in \in Nat /\ out \in Nat
             /\ out <= a.pool
             /\ SumOver(g, Operator) \in Nat
             /\ SumOver(g, Operator) <= a.pool + in - out
<1> DEFINE f == Owed(a)
           e == TokensIn(a, Entering(a))
           l == TokensIn(a, Leaving(a))
           gl == [o \in Operator |-> g[o] + l[o]]
           fe == [o \in Operator |-> f[o] + e[o]]
           in == TokensOf(a.validators, Entering(a))
           out == TokensOf(a.validators, Leaving(a))
<1>0. a \in App /\ IsFiniteSet(Operator)
  BY InPlaceAssumption DEF Chain
<1>1. /\ Entering(a) \in SUBSET Known(a)
      /\ Leaving(a) \in SUBSET Known(a)
  BY ElectedAre, OthersLeave DEF Known
<1>2. /\ in = SumOver(e, Operator) /\ in \in Nat
      /\ \A o \in Operator : e[o] \in Nat
  BY <1>0, <1>1, TokensOfIs
<1>3. /\ out = SumOver(l, Operator) /\ out \in Nat
      /\ \A o \in Operator : l[o] \in Nat
  BY <1>0, <1>1, TokensOfIs
<1>4. \A o \in Operator : f[o] \in Nat
  BY <1>0, OwedType
<1>5. \A o \in Operator : a.stake[o] \in Nat /\ (Exists(a, o) => a.validators[o].tokens \in Nat)
  BY <1>0, AppFields, TheValidator, ValidatorFields, SharesAre
<1>6. \A o \in Operator : g[o] \in Nat
  BY <1>5, ElectedAre
<1>7. \A o \in Operator : l[o] <= f[o]
  <2> TAKE o \in Operator
  <2>1. CASE o \in Leaving(a)
    BY <1>3, <2>1, OthersLeave DEF TokensIn
  <2>2. CASE o \notin Leaving(a)
    BY <1>4, <2>2 DEF TokensIn
  <2> QED
    BY <2>1, <2>2
<1>8. \A o \in Operator : g[o] + l[o] <= f[o] + e[o]
  <2> TAKE o \in Operator
  <2>1. CASE o \in Leaving(a)
    <3>1. g[o] = 0 /\ e[o] \in Nat /\ l[o] \in Nat /\ f[o] \in Nat /\ l[o] <= f[o]
      BY <1>2, <1>3, <1>4, <1>7, <2>1, ElectedAre DEF TokensIn
    <3> HIDE DEF e, l, f
    <3> QED
      BY <3>1
  <2>2. CASE o \in Entering(a)
    <3>1. /\ l[o] = 0 /\ e[o] = a.validators[o].tokens
          /\ f[o] \in Nat /\ g[o] \in Nat /\ e[o] \in Nat
      <4>1. o \notin Leaving(a)
        BY <2>2, ElectedAre
      <4>2. l[o] = 0 /\ e[o] = a.validators[o].tokens
        BY <2>2, <4>1 DEF TokensIn
      <4> QED
        BY <1>2, <1>4, <1>6, <4>2
    <3>2. Exists(a, o)
      BY <1>1, <2>2 DEF Known
    <3>3. g[o] <= a.validators[o].tokens
      <4>1. a.validators[o].unit = 1 => a.stake[o] < a.validators[o].tokens
        BY <3>2 DEF Chain, UserStays, Stays
      <4> QED
        BY <1>5, <3>2, <4>1, ElectedAre
    <3> HIDE DEF e, l, f
    <3> QED
      BY <3>1, <3>3
  <2>3. CASE o \notin Leaving(a) /\ o \notin Entering(a)
    <3>1. l[o] = 0 /\ e[o] = 0
      BY <2>3 DEF TokensIn
    <3>2. g[o] = f[o]
      BY <2>3, ElectedAre DEF Owed
    <3> HIDE DEF e, l, f
    <3> QED
      BY <1>4, <3>1, <3>2
  <2> QED
    BY <2>1, <2>2, <2>3
<1>9. /\ \A o \in Operator : g[o] \in Int /\ l[o] \in Int /\ gl[o] = g[o] + l[o]
      /\ \A o \in Operator : f[o] \in Int /\ e[o] \in Int /\ fe[o] = f[o] + e[o]
      /\ \A o \in Operator : gl[o] \in Int /\ fe[o] \in Int /\ gl[o] <= fe[o]
      /\ \A o \in Operator : l[o] \in Int /\ f[o] \in Int /\ l[o] <= f[o]
  <2> HIDE DEF e, l, f
  <2> QED
    BY <1>2, <1>3, <1>4, <1>6, <1>7, <1>8
<1> HIDE DEF f, e, l, gl, fe, in, out
<1>10. SumOver(gl, Operator) = SumOver(g, Operator) + SumOver(l, Operator)
  BY <1>0, <1>9, SumOfSums
<1>11. SumOver(fe, Operator) = SumOver(f, Operator) + SumOver(e, Operator)
  BY <1>0, <1>9, SumOfSums
<1>12. SumOver(gl, Operator) <= SumOver(fe, Operator)
  BY <1>0, <1>9, SumAtMost
<1>13. SumOver(l, Operator) <= SumOver(f, Operator)
  BY <1>0, <1>9, SumAtMost
<1>14. SumOver(g, Operator) \in Nat /\ SumOver(f, Operator) \in Nat
  BY <1>0, <1>4, <1>6, SumNat
<1>15. SumOver(f, Operator) <= a.pool /\ a.pool \in Nat
  BY <1>0, AppFields DEF Chain, Covered, f
<1>16. /\ in \in Nat /\ out \in Nat /\ out <= a.pool
       /\ SumOver(g, Operator) <= a.pool + in - out
  BY <1>2, <1>3, <1>10, <1>11, <1>12, <1>13, <1>14, <1>15
<1> QED
  BY <1>14, <1>16 DEF in, out

(* ApplyAndReturnValidatorSetUpdates does not panic and overdraws no pool. *)
LEMMA ElectionSucceeds ==
  ASSUME NEW a, Chain(a), ~a.kept
  PROVE  ElectionOk(a)
<1> DEFINE g == [o \in Operator |-> IF o \notin Elected(a) THEN 0
                                    ELSE IF a.validators[o].unit = 1 THEN a.stake[o]
                                    ELSE a.validators[o].tokens]
<1>1. \A o \in Operator : g[o] = IF o \notin Elected(a) THEN 0
                                 ELSE IF a.validators[o].unit = 1 THEN a.stake[o]
                                 ELSE a.validators[o].tokens
  OBVIOUS
<1> HIDE DEF g
<1>2. /\ TokensOf(a.validators, Entering(a)) \in Nat
      /\ TokensOf(a.validators, Leaving(a)) \in Nat
      /\ TokensOf(a.validators, Leaving(a)) <= a.pool
  BY <1>1, PoolSuffices
<1>3. a.pool \in Nat
  BY AppFields DEF Chain
<1>4. TokensOf(a.validators, Leaving(a)) <= a.pool + TokensOf(a.validators, Entering(a))
  BY <1>2, <1>3
<1>5. \A o \in Elected(a) : Exists(a, o) /\ ~a.validators[o].jailed
  BY ElectedAre
<1>6. \A o \in Leaving(a) : Exists(a, o) /\ a.validators[o].status = "bonded"
  BY OthersLeave
<1> QED
  BY <1>4, <1>5, <1>6 DEF ElectionOk

(* What the election does to each validator.                               *)
LEMMA StatusOnly ==
  ASSUME NEW a, Chain(a), NEW o \in Operator
  PROVE  LET v == a.validators[o]
             w == WithStatus(a, o)
         IN  /\ w \in Validator \cup {None}
             /\ w = None <=> v = None
             /\ Exists(a, o) => /\ w.cons = v.cons /\ w.jailed = v.jailed
                                /\ w.tokens = v.tokens /\ w.unit = v.unit
             /\ Exists(a, o) => w.status = IF o \in Elected(a) THEN "bonded"
                                           ELSE IF o \in Bonded(a) THEN "unbonding"
                                           ELSE v.status
<1> DEFINE v == a.validators[o]
           w == WithStatus(a, o)
<1>0. a \in App
  BY DEF Chain
<1>1. CASE ~Exists(a, o)
  <2>1. o \notin Elected(a) /\ o \notin Leaving(a)
    BY <1>1, ElectedAre, OthersLeave
  <2>2. w = v /\ v = None
    BY <1>1, <2>1 DEF WithStatus, Exists
  <2> QED
    BY <1>1, <2>2
<1>2. CASE Exists(a, o)
  <2>1. v \in Validator /\ v # None
    BY <1>0, <1>2, TheValidator DEF Exists
  <2>2. CASE o \in Elected(a)
    <3>0. o \notin Leaving(a)
      BY <2>2, ElectedAre
    <3>1. w = [v EXCEPT !.status = "bonded"]
      BY <2>2, <3>0 DEF WithStatus
    <3>2. /\ w \in Validator /\ w.cons = v.cons /\ w.jailed = v.jailed
          /\ w.tokens = v.tokens /\ w.unit = v.unit
      BY <2>1, <3>1 DEF Validator, Status
    <3>3. w.status = "bonded"
      BY <2>1, <3>1 DEF Validator
    <3> QED
      BY <2>1, <2>2, <3>2, <3>3, NoneAssumption
  <2>3. CASE o \notin Elected(a) /\ o \in Bonded(a)
    <3>0. o \in Leaving(a)
      BY <2>3, ElectedAre
    <3>1. w = [v EXCEPT !.status = "unbonding"]
      BY <2>3, <3>0 DEF WithStatus
    <3>2. /\ w \in Validator /\ w.cons = v.cons /\ w.jailed = v.jailed
          /\ w.tokens = v.tokens /\ w.unit = v.unit
      BY <2>1, <3>1 DEF Validator, Status
    <3>3. w.status = "unbonding"
      BY <2>1, <3>1 DEF Validator
    <3> QED
      BY <2>1, <2>3, <3>2, <3>3, NoneAssumption
  <2>4. CASE o \notin Elected(a) /\ o \notin Bonded(a)
    <3>0. o \notin Leaving(a)
      BY <2>4, ElectedAre
    <3>1. w = v
      BY <2>4, <3>0 DEF WithStatus
    <3> QED
      BY <2>1, <2>4, <3>1
  <2> QED
    BY <2>2, <2>3, <2>4
<1> QED
  BY <1>1, <1>2

(* What the election leaves in every field.                                *)
LEMMA ElectionIs ==
  ASSUME NEW a, Chain(a), ElectionOk(a)
  PROVE  LET b == Election(a)
         IN  /\ b \in App
             /\ b.validators = [o \in Operator |-> WithStatus(a, o)]
             /\ b.index = a.index /\ b.byCons = a.byCons /\ b.stake = a.stake
             /\ b.kept = a.kept
             /\ b.last = [o \in Elected(a) |-> a.validators[o].tokens]
             /\ b.queue = (a.queue \ Elected(a)) \cup Leaving(a)
             /\ b.info = a.info \cup ConsOf(a, Entering(a))
             /\ b.pool = a.pool + TokensOf(a.validators, Entering(a))
                                - TokensOf(a.validators, Leaving(a))
<1> DEFINE vs == [o \in Operator |-> WithStatus(a, o)]
           la == [o \in Elected(a) |-> a.validators[o].tokens]
           qu == (a.queue \ Elected(a)) \cup Leaving(a)
           in == a.info \cup ConsOf(a, Entering(a))
           po == a.pool + TokensOf(a.validators, Entering(a))
                        - TokensOf(a.validators, Leaving(a))
           b == Election(a)
<1>0. a \in App
  BY DEF Chain
<1>1. vs \in [Operator -> Validator \cup {None}]
  BY StatusOnly
<1>2. la \in Powers(Operator)
  <2>1. \A o \in Elected(a) : a.validators[o].tokens \in 0..CometPower
    BY <1>0, ElectedAre, TheValidator, ValidatorFields, InPlaceAssumption DEF Tokens
  <2>2. la \in [Elected(a) -> 0..CometPower]
    BY <2>1
  <2> QED
    BY <2>2, ElectedAre DEF Powers
<1>3. qu \in SUBSET Operator
  BY <1>0, AppFields, OthersLeave
<1>4. in \in SUBSET Cons
  <2>1. \A o \in Entering(a) : a.validators[o].cons \in Cons
    BY <1>0, ElectedAre, TheValidator, ValidatorFields
  <2> QED
    BY <1>0, <2>1, AppFields DEF ConsOf
<1>5. po \in Nat
  <2>1. /\ Entering(a) \in SUBSET Known(a)
        /\ Leaving(a) \in SUBSET Known(a)
    BY ElectedAre, OthersLeave DEF Known
  <2>2. /\ TokensOf(a.validators, Entering(a)) \in Nat
        /\ TokensOf(a.validators, Leaving(a)) \in Nat
    BY <1>0, <2>1, TokensOfIs
  <2>3. TokensOf(a.validators, Leaving(a)) <= a.pool + TokensOf(a.validators, Entering(a))
    BY DEF ElectionOk
  <2> QED
    BY <1>0, <2>2, <2>3, AppFields
<1>6. b = [a EXCEPT !.validators = vs, !.last = la, !.queue = qu, !.info = in, !.pool = po]
  BY <1>0 DEF Election, App, ConsOf
<1> HIDE DEF vs, la, qu, in, po, b
<1>7. b \in App
  BY <1>0, <1>1, <1>2, <1>3, <1>4, <1>5, <1>6 DEF App
<1>8. /\ b.validators = vs /\ b.index = a.index /\ b.byCons = a.byCons
      /\ b.stake = a.stake /\ b.last = la /\ b.queue = qu /\ b.info = in /\ b.pool = po
      /\ b.kept = a.kept
  BY <1>0, <1>6 DEF App
<1> QED
  BY <1>7, <1>8 DEF vs, la, qu, in, po, b

(* It leaves a state in order, in which all keys it elected resolve.       *)
LEMMA ElectionKeepsOrder ==
  ASSUME NEW a, Chain(a), ElectionOk(a)
  PROVE  LET b == Election(a)
         IN  /\ Chain(b)
             /\ Alive(a) \subseteq Alive(b)
             /\ ConsOf(a, Elected(a)) \subseteq Alive(b)
             /\ \A o \in Operator : /\ Exists(b, o) <=> Exists(a, o)
                                    /\ Exists(a, o) =>
                                         b.validators[o].cons = a.validators[o].cons
             /\ Standing(a) => Standing(b)
<1> DEFINE b == Election(a)
<1>0. a \in App
  BY DEF Chain
<1>1. /\ b \in App
      /\ b.validators = [o \in Operator |-> WithStatus(a, o)]
      /\ b.index = a.index /\ b.byCons = a.byCons /\ b.stake = a.stake
      /\ b.kept = a.kept
      /\ b.last = [o \in Elected(a) |-> a.validators[o].tokens]
      /\ b.queue = (a.queue \ Elected(a)) \cup Leaving(a)
      /\ b.info = a.info \cup ConsOf(a, Entering(a))
      /\ b.pool = a.pool + TokensOf(a.validators, Entering(a))
                         - TokensOf(a.validators, Leaving(a))
  BY ElectionIs
<1> HIDE DEF b
<1>2. \A o \in Operator :
        /\ Exists(b, o) <=> Exists(a, o)
        /\ Exists(a, o) => /\ b.validators[o].cons = a.validators[o].cons
                           /\ b.validators[o].jailed = a.validators[o].jailed
                           /\ b.validators[o].tokens = a.validators[o].tokens
                           /\ b.validators[o].unit = a.validators[o].unit
                           /\ b.validators[o].status =
                                IF o \in Elected(a) THEN "bonded"
                                ELSE IF o \in Bonded(a) THEN "unbonding"
                                ELSE a.validators[o].status
  BY <1>1, StatusOnly DEF Exists
<1>3. /\ Elected(a) \subseteq Operator /\ \A o \in Elected(a) : Exists(a, o)
      /\ Entering(a) = Elected(a) \ Bonded(a) /\ Leaving(a) = Bonded(a) \ Elected(a)
  BY ElectedAre
<1>4. Bonded(b) = Elected(a)
  BY <1>2, <1>3 DEF Bonded, WithStatusOf
<1>5. WithStatusOf(b, "unbonding") = b.queue
  <2>1. a.queue = WithStatusOf(a, "unbonding")
    BY DEF Chain, Recorded
  <2> QED
    BY <1>1, <1>2, <1>3, <2>1 DEF Bonded, WithStatusOf
<1>6. KeysFound(b)
  BY <1>1, <1>2 DEF KeysFound, Chain
<1>7. Indexed(b)
  <2>1. \A o \in Operator : Exists(a, o) => Entry(b.validators[o], o) = Entry(a.validators[o], o)
    BY <1>2 DEF Entry
  <2>2. {o \in Operator : Exists(b, o)} = {o \in Operator : Exists(a, o)}
    BY <1>2
  <2>3. a.index = UNION {Entry(a.validators[o], o) : o \in {p \in Operator : Exists(a, p)}}
    BY DEF Chain, Indexed
  <2>4. {Entry(a.validators[o], o) : o \in {p \in Operator : Exists(a, p)}}
        = {Entry(b.validators[o], o) : o \in {p \in Operator : Exists(b, p)}}
    BY <2>1, <2>2
  <2> QED
    BY <1>1, <2>3, <2>4 DEF Indexed
<1>8. \A o \in Elected(a) : b.validators[o].cons \in b.info
  <2> TAKE o \in Elected(a)
  <2>1. CASE o \in Bonded(a)
    BY <1>1, <1>2, <1>3, <2>1 DEF Chain, Recorded
  <2>2. CASE o \in Entering(a)
    BY <1>1, <1>2, <1>3, <2>2 DEF ConsOf
  <2> QED
    BY <1>3, <2>1, <2>2
<1>9. Recorded(b)
  BY <1>1, <1>4, <1>5, <1>8 DEF Recorded
<1>10. UserStays(b)
  <2> SUFFICES ASSUME ~a.kept, NEW o \in Operator, Exists(b, o)
               PROVE  Stays(b.validators[o], b.stake[o])
    BY <1>1 DEF UserStays
  <2>1. Exists(a, o) /\ Stays(a.validators[o], a.stake[o])
    BY <1>2 DEF Chain, UserStays
  <2>2. b.validators[o].status = "bonded" => o \in Elected(a)
    BY <1>4 DEF Bonded, WithStatusOf
  <2>3. o \in Elected(a) => ~a.validators[o].jailed
    BY ElectedAre
  <2> QED
    BY <1>1, <1>2, <2>1, <2>2, <2>3 DEF Stays
<1>11. ASSUME ~a.kept
       PROVE  Covered(b)
  <2>1. \A o \in Operator :
          Owed(b)[o] = IF o \notin Elected(a) THEN 0
                       ELSE IF a.validators[o].unit = 1 THEN a.stake[o]
                       ELSE a.validators[o].tokens
    BY <1>1, <1>2, <1>3, <1>4 DEF Owed
  <2>2. SumOver(Owed(b), Operator) <=
          a.pool + TokensOf(a.validators, Entering(a)) - TokensOf(a.validators, Leaving(a))
    BY <1>11, <2>1, PoolSuffices
  <2> QED
    BY <1>1, <2>2 DEF Covered
<1>12. Chain(b)
  BY <1>1, <1>6, <1>7, <1>9, <1>10, <1>11 DEF Chain, Covered
<1>13. Alive(a) \subseteq Alive(b)
  <2> SUFFICES ASSUME NEW c \in Alive(a)
               PROVE  c \in Alive(b)
    OBVIOUS
  <2>1. PICK o \in Operator :
          Exists(a, o) /\ a.validators[o].cons = c /\ a.validators[o].status # "unbonded"
    BY DEF Alive
  <2>2. Exists(b, o) /\ b.validators[o].cons = c /\ b.validators[o].status # "unbonded"
    BY <1>2, <2>1
  <2>3. c \in b.info
    BY <1>1 DEF Alive
  <2> QED
    BY <2>2, <2>3 DEF Alive
<1>14. ConsOf(a, Elected(a)) \subseteq Alive(b)
  BY <1>2, <1>3, <1>8 DEF ConsOf, Alive
<1>15. ASSUME Standing(a), ~a.kept
       PROVE  Standing(b)
  <2>1. PICK o \in Bonded(a) : a.validators[o].unit = 1
    BY <1>15 DEF Standing
  <2>2. o \in Operator /\ Exists(a, o) /\ o \notin Leaving(a)
    BY <1>15, <2>1, OthersLeave DEF Bonded, WithStatusOf
  <2>3. o \in Bonded(b) /\ b.validators[o].unit = 1
    BY <1>2, <1>3, <1>4, <2>1, <2>2
  <2> QED
    BY <2>3 DEF Standing
<1>16. Standing(a) => Standing(b)
  BY <1>1, <1>15 DEF Standing
<1> QED
  BY <1>2, <1>12, <1>13, <1>14, <1>16 DEF b

(* A validator that has unbonded keeps the chain in order.                 *)
LEMMA UnbondedKeepsOrder ==
  ASSUME NEW a, Chain(a), NEW o \in a.queue
  PROVE  LET b == Unbonded(a, o)
         IN  /\ Chain(b)
             /\ Alive(a) \ {a.validators[o].cons} \subseteq Alive(b)
             /\ b.last = a.last
             /\ \A p \in DOMAIN a.last : b.validators[p].cons = a.validators[p].cons
             /\ Standing(a) => Standing(b)
<1> DEFINE v == a.validators[o]
           w == [v EXCEPT !.status = "unbonded"]
           d == SetValidator(a, o, w)
           b == [d EXCEPT !.queue = @ \ {o}]
<1>0. a \in App
  BY DEF Chain
<1>1. o \in Operator /\ Exists(a, o) /\ v.status = "unbonding"
  BY DEF Chain, Recorded, WithStatusOf
<1>2. v \in Validator
  BY <1>0, <1>1, TheValidator
<1>3. /\ w \in Validator /\ w.cons = v.cons /\ w.status = "unbonded"
      /\ w.jailed = v.jailed /\ w.tokens = v.tokens /\ w.unit = v.unit /\ w # None
  BY <1>2, NoneAssumption DEF Validator, Status
<1>4. Unbonded(a, o) = IF b.validators[o].tokens = 0 THEN RemoveValidator(b, o) ELSE b
  BY DEF Unbonded
<1> HIDE DEF v, w, d, b
<1>5. /\ OneChanges(a, d, o, w)
      /\ d.queue = a.queue /\ d.byCons = a.byCons
      /\ d.stake = a.stake /\ d.pool = a.pool
  BY <1>0, <1>1, <1>3, SetValidatorIs DEF d
<1>6. d \in App
  BY <1>5 DEF OneChanges
<1>7. d.queue \ {o} \in SUBSET Operator
  BY <1>6, AppFields
<1>8. b \in App
  BY <1>6, <1>7 DEF App, b
<1>9. /\ b.validators = d.validators /\ b.index = d.index /\ b.last = d.last
      /\ b.queue = d.queue \ {o} /\ b.byCons = d.byCons /\ b.info = d.info
      /\ b.stake = d.stake /\ b.pool = d.pool /\ b.kept = d.kept
  BY <1>6 DEF App, b
<1>10. OneChanges(a, b, o, w)
  BY <1>5, <1>8, <1>9 DEF OneChanges
<1>11. /\ \A p \in Operator \ {o} : b.validators[p] = a.validators[p]
       /\ b.validators[o] = w
  BY <1>0, <1>1, <1>10, AppFields DEF OneChanges
<1>12. KeysFound(b)
  BY <1>0, <1>1, <1>3, <1>5, <1>9, <1>10, KeyKept DEF Chain, v
<1>13. o \notin Bonded(a) /\ ~IsBonded(w) /\ ~IsUnbonding(w)
  BY <1>1, <1>3 DEF Bonded, WithStatusOf, IsBonded, IsUnbonding, v
<1>14. Owed(a)[o] = 0 /\ Owed(b)[o] = 0
  BY <1>1, <1>3, <1>8, <1>11, <1>13, OwedFor DEF Owed
<1>15. b.pool - Owed(b)[o] >= a.pool - Owed(a)[o]
  BY <1>0, <1>5, <1>9, <1>14, AppFields
<1>16. a.kept \/ (w # None => Stays(w, b.stake[o]))
  BY <1>1, <1>3, <1>5, <1>9 DEF Chain, UserStays, Stays, v
<1>17. b.queue = (a.queue \ {o}) \cup (IF IsUnbonding(w) THEN {o} ELSE {})
  BY <1>5, <1>9, <1>13
<1>18. Chain(b)
  BY <1>1, <1>3, <1>10, <1>12, <1>13, <1>15, <1>16, <1>17, OneChain
<1>19. Alive(a) \ {v.cons} \subseteq Alive(b)
  <2> SUFFICES ASSUME NEW c \in Alive(a), c # v.cons
               PROVE  c \in Alive(b)
    OBVIOUS
  <2>1. PICK p \in Operator :
          Exists(a, p) /\ a.validators[p].cons = c /\ a.validators[p].status # "unbonded"
    BY DEF Alive
  <2>2. p # o
    BY <2>1 DEF v
  <2>3. Exists(b, p) /\ b.validators[p].cons = c /\ b.validators[p].status # "unbonded"
    BY <1>11, <2>1, <2>2 DEF Exists
  <2>4. c \in b.info
    BY <1>10 DEF Alive, OneChanges
  <2> QED
    BY <2>3, <2>4 DEF Alive
<1>20. DOMAIN a.last = Bonded(a) /\ b.last = a.last
  BY <1>10 DEF OneChanges, Chain, Recorded
<1>21. \A p \in DOMAIN a.last : b.validators[p].cons = a.validators[p].cons
  BY <1>11, <1>13, <1>20 DEF Bonded, WithStatusOf
<1>22. Exists(b, o) /\ b.validators[o].status = "unbonded"
  BY <1>3, <1>11 DEF Exists
<1>23. Standing(a) => Standing(b)
  <2>1. \A p \in Bonded(a) : p \in Bonded(b) /\ b.validators[p].unit = a.validators[p].unit
    BY <1>11, <1>13 DEF Bonded, WithStatusOf, Exists
  <2> QED
    BY <1>10, <2>1 DEF Standing, OneChanges
<1>24. BeforeElection(b, RemoveValidator(b, o))
  BY <1>1, <1>18, <1>22, RemoveBefore
<1>25. CASE b.validators[o].tokens = 0
  <2>1. Unbonded(a, o) = RemoveValidator(b, o)
    BY <1>4, <1>25
  <2> QED
    BY <1>19, <1>20, <1>21, <1>23, <1>24, <2>1 DEF BeforeElection, v
<1>26. CASE b.validators[o].tokens # 0
  <2>1. Unbonded(a, o) = b
    BY <1>4, <1>26
  <2> QED
    BY <1>18, <1>19, <1>20, <1>21, <1>23, <2>1 DEF v
<1> QED
  BY <1>25, <1>26

-----------------------------------------------------------------------------
(* What CometBFT is told.                                                  *)

(* No two validators share a consensus key.                                *)
LEMMA DifferentKeys ==
  ASSUME NEW a, Chain(a), NEW o \in Operator, NEW p \in Operator,
         Exists(a, o), Exists(a, p), a.validators[o].cons = a.validators[p].cons
  PROVE  o = p
BY DEF Chain, KeysFound

(* What CometBFT makes of the updates of an election.                      *)
LEMMA UpdatedIs ==
  ASSUME NEW a, Chain(a), NEW S, IsPowers(S)
  PROVE  LET U == Updated(S, a)
         IN  /\ IsPowers(U)
             /\ DOMAIN U = (DOMAIN S \cup ConsOf(a, Told(a))) \ ConsOf(a, Leaving(a))
             /\ DOMAIN U \subseteq DOMAIN S \cup ConsOf(a, Elected(a))
<1> DEFINE D == (DOMAIN S \cup ConsOf(a, Told(a))) \ ConsOf(a, Leaving(a))
           u(c) == IF c \in ConsOf(a, Told(a)) THEN a.validators[a.byCons[c]].tokens ELSE S[c]
           U == Updated(S, a)
<1>0. a \in App
  BY DEF Chain
<1>1. U = [c \in D |-> u(c)]
  BY DEF Updated, ConsOf
<1>2. Told(a) \subseteq Elected(a)
  BY DEF Told
<1>3. \A o \in Told(a) : /\ o \in Operator /\ Exists(a, o)
                         /\ a.validators[o].cons \in Cons
                         /\ a.byCons[a.validators[o].cons] = o
                         /\ a.validators[o].tokens \in 1..CometPower
  <2> TAKE o \in Told(a)
  <2>1. o \in Operator /\ Exists(a, o) /\ a.validators[o].tokens > 0
    BY <1>2, ElectedAre
  <2>2. a.validators[o].cons \in Cons /\ a.validators[o].tokens \in Tokens
    BY <1>0, <2>1, TheValidator, ValidatorFields
  <2>3. a.validators[o].tokens \in 1..CometPower
    BY <2>1, <2>2, InPlaceAssumption DEF Tokens
  <2> QED
    BY <2>1, <2>2, <2>3 DEF Chain, KeysFound
<1>4. \A c \in D : c \in Cons /\ u(c) \in 1..CometPower
  <2> TAKE c \in D
  <2>1. CASE c \in ConsOf(a, Told(a))
    BY <1>3, <2>1 DEF ConsOf
  <2>2. CASE c \notin ConsOf(a, Told(a))
    <3>1. c \in DOMAIN S
      BY <2>2
    <3> QED
      BY <2>2, <3>1 DEF IsPowers
  <2> QED
    BY <2>1, <2>2
<1> HIDE DEF D, u, U
<1>5. DOMAIN U = D /\ IsPowers(U) /\ \A c \in D : U[c] = u(c)
  BY <1>1, <1>4 DEF IsPowers
<1>6. D \subseteq DOMAIN S \cup ConsOf(a, Elected(a))
  BY <1>2 DEF D, ConsOf
<1> QED
  BY <1>5, <1>6 DEF U, D

(* A key that is told has the validator's tokens, any other what it had.   *)
LEMMA UpdatedAt ==
  ASSUME NEW a, Chain(a), NEW S, IsPowers(S), NEW c \in DOMAIN Updated(S, a)
  PROVE  /\ \A o \in Told(a) : a.validators[o].cons = c =>
              Updated(S, a)[c] = a.validators[o].tokens
         /\ c \notin ConsOf(a, Told(a)) => Updated(S, a)[c] = S[c]
<1>1. Updated(S, a)[c] =
        IF c \in ConsOf(a, Told(a)) THEN a.validators[a.byCons[c]].tokens ELSE S[c]
  BY DEF Updated, ConsOf
<1>2. ASSUME NEW o \in Told(a), a.validators[o].cons = c
      PROVE  Updated(S, a)[c] = a.validators[o].tokens
  <2>1. o \in Operator /\ Exists(a, o)
    BY <1>2, ElectedAre DEF Told
  <2>2. a.byCons[c] = o
    BY <1>2, <2>1 DEF Chain, KeysFound
  <2>3. c \in ConsOf(a, Told(a))
    BY <1>2 DEF ConsOf
  <2> QED
    BY <1>1, <2>2, <2>3
<1> QED
  BY <1>1, <1>2

(* If CometBFT had what x/staking told it, it has so again.                *)
LEMMA UpdatedAgrees ==
  ASSUME NEW a, Chain(a), NEW S, IsPowers(S),
         DOMAIN S = ConsOf(a, DOMAIN a.last),
         \A o \in DOMAIN a.last : a.last[o] = 0 \/ S[a.validators[o].cons] = a.last[o]
  PROVE  LET U == Updated(S, a)
         IN  /\ DOMAIN U = ConsOf(a, Elected(a))
             /\ \A o \in Elected(a) : U[a.validators[o].cons] = a.validators[o].tokens
<1> DEFINE U == Updated(S, a)
<1>0. /\ DOMAIN a.last = Bonded(a)
      /\ \A o \in Bonded(a) : o \in Operator /\ Exists(a, o)
      /\ \A o \in Elected(a) : o \in Operator /\ Exists(a, o) /\ a.validators[o].tokens > 0
      /\ Leaving(a) = Bonded(a) \ Elected(a)
  BY ElectedAre DEF Chain, Recorded, Bonded, WithStatusOf
<1>1. /\ DOMAIN U = (DOMAIN S \cup ConsOf(a, Told(a))) \ ConsOf(a, Leaving(a))
      /\ \A o \in Told(a) : a.validators[o].cons \in DOMAIN U =>
           U[a.validators[o].cons] = a.validators[o].tokens
      /\ \A c \in DOMAIN U : c \notin ConsOf(a, Told(a)) => U[c] = S[c]
  <2>1. DOMAIN U = (DOMAIN S \cup ConsOf(a, Told(a))) \ ConsOf(a, Leaving(a))
    BY UpdatedIs
  <2>2. \A o \in Told(a) : a.validators[o].cons \in DOMAIN U =>
           U[a.validators[o].cons] = a.validators[o].tokens
    <3> SUFFICES ASSUME NEW o \in Told(a), a.validators[o].cons \in DOMAIN U
                 PROVE  U[a.validators[o].cons] = a.validators[o].tokens
      OBVIOUS
    <3> QED
      BY UpdatedAt
  <2>3. \A c \in DOMAIN U : c \notin ConsOf(a, Told(a)) => U[c] = S[c]
    BY UpdatedAt
  <2> QED
    BY <2>1, <2>2, <2>3
<1> HIDE DEF U
<1>2. \A o \in Elected(a) : a.validators[o].cons \notin ConsOf(a, Leaving(a))
  BY <1>0, DifferentKeys DEF ConsOf
<1>3. \A o \in Elected(a) : o \notin Told(a) =>
        o \in DOMAIN a.last /\ a.last[o] = a.validators[o].tokens
  BY DEF Told
<1>4. \A o \in Elected(a) : a.validators[o].cons \in DOMAIN U
  BY <1>1, <1>2, <1>3 DEF ConsOf
<1>5. \A c \in DOMAIN U : c \in ConsOf(a, Elected(a))
  <2> TAKE c \in DOMAIN U
  <2>1. CASE c \in ConsOf(a, Told(a))
    BY <2>1 DEF ConsOf, Told
  <2>2. CASE c \in ConsOf(a, Bonded(a))
    BY <1>0, <1>1, <2>2 DEF ConsOf
  <2> QED
    BY <1>0, <1>1, <2>1, <2>2
<1>6. DOMAIN U = ConsOf(a, Elected(a))
  BY <1>4, <1>5 DEF ConsOf
<1>7. ASSUME NEW o \in Elected(a)
      PROVE  U[a.validators[o].cons] = a.validators[o].tokens
  <2>1. CASE o \in Told(a)
    BY <1>1, <1>4, <2>1
  <2>2. CASE o \notin Told(a)
    <3>1. o \in DOMAIN a.last /\ a.last[o] = a.validators[o].tokens
      BY <1>3, <2>2
    <3>2. a.last[o] # 0
      BY <1>0, <3>1
    <3>3. S[a.validators[o].cons] = a.validators[o].tokens
      BY <3>1, <3>2
    <3>4. a.validators[o].cons \notin ConsOf(a, Told(a))
      <4> SUFFICES ASSUME NEW p \in Told(a), a.validators[p].cons = a.validators[o].cons
                   PROVE  FALSE
        BY DEF ConsOf
      <4>1. p \in Elected(a)
        BY DEF Told
      <4>2. p = o
        BY <1>0, <4>1, DifferentKeys
      <4> QED
        BY <2>2, <4>2
    <3> QED
      BY <1>1, <1>4, <3>3, <3>4
  <2> QED
    BY <2>1, <2>2
<1> QED
  BY <1>6, <1>7 DEF U

-----------------------------------------------------------------------------
(* The old chain, and what the command makes of a chain.                   *)

(* Every old chain from which the command may start is in order.           *)
LEMMA OldChainInOrder ==
  ASSUME NEW a \in OldChain
  PROVE  Chain(a)
<1> DEFINE There(vs) == {o \in Operator : vs[o] # None}
           Bonds(vs) == {o \in Operator : vs[o] # None /\ vs[o].status = "bonded"}
<1>1. PICK vs \in [Operator -> {v \in Validator : v.tokens \in 1..MaxTokens} \cup {None}] :
        /\ \A o \in Operator : vs[o] # None =>
             /\ vs[o].unit = ShareRate
             /\ vs[o].jailed = (vs[o].status # "bonded")
             /\ \A p \in Operator : vs[p] # None /\ vs[p].cons = vs[o].cons => p = o
        /\ a = [validators |-> vs,
                index  |-> {<<o, vs[o].tokens>> :
                              o \in {p \in Operator : vs[p] # None /\ ~vs[p].jailed}},
                last   |-> [o \in Bonds(vs) |-> vs[o].tokens],
                queue  |-> {o \in Operator : vs[o] # None /\ vs[o].status = "unbonding"},
                byCons |-> [c \in Cons |->
                              IF \E o \in Operator : vs[o] # None /\ vs[o].cons = c
                              THEN CHOOSE o \in Operator : vs[o] # None /\ vs[o].cons = c
                              ELSE None],
                info   |-> {vs[o].cons : o \in There(vs)},
                stake  |-> [o \in Operator |->
                              IF vs[o] = None THEN 0 ELSE vs[o].tokens * ShareRate],
                pool   |-> TokensOf(vs, Bonds(vs)),
                kept   |-> FALSE]
  BY DEF OldChain
<1> DEFINE in == {<<o, vs[o].tokens>> : o \in {p \in Operator : vs[p] # None /\ ~vs[p].jailed}}
           la == [o \in Bonds(vs) |-> vs[o].tokens]
           qu == {o \in Operator : vs[o] # None /\ vs[o].status = "unbonding"}
           by == [c \in Cons |-> IF \E o \in Operator : vs[o] # None /\ vs[o].cons = c
                                 THEN CHOOSE o \in Operator : vs[o] # None /\ vs[o].cons = c
                                 ELSE None]
           nf == {vs[o].cons : o \in There(vs)}
           st == [o \in Operator |-> IF vs[o] = None THEN 0 ELSE vs[o].tokens * ShareRate]
           po == TokensOf(vs, Bonds(vs))
<1>2. a = [validators |-> vs, index |-> in, last |-> la, queue |-> qu, byCons |-> by,
           info |-> nf, stake |-> st, pool |-> po, kept |-> FALSE]
  BY <1>1
<1>3. \A o \in There(vs) : /\ vs[o] \in Validator /\ vs[o].tokens \in 1..MaxTokens
                           /\ vs[o].tokens \in Tokens /\ vs[o].cons \in Cons
  BY <1>1, ValidatorFields
<1>4. vs \in [Operator -> Validator \cup {None}]
  BY <1>1
<1>5. in \in SUBSET (Operator \X Tokens)
  BY <1>3
<1>6. la \in Powers(Operator)
  <2>1. la \in [Bonds(vs) -> 0..CometPower]
    BY <1>3, InPlaceAssumption
  <2> QED
    BY <2>1 DEF Powers
<1>7. qu \in SUBSET Operator /\ nf \in SUBSET Cons
  BY <1>3
<1>8. by \in [Cons -> Operator \cup {None}]
  OBVIOUS
<1>9. st \in [Operator -> Shares]
  <2> DEFINE r == ShareRate
  <2>1. r \in Nat /\ MaxTokens \in Nat
    BY InPlaceAssumption
  <2>2. Shares = 0..(MaxTokens * r)
    BY DEF Shares
  <2> HIDE DEF r
  <2>3. \A n \in 0..MaxTokens : n * r \in Shares
    BY <2>1, <2>2
  <2>4. \A o \in There(vs) : vs[o].tokens \in 0..MaxTokens
    BY <1>3
  <2>5. 0 \in Shares
    BY <2>1, <2>2
  <2> QED
    BY <2>3, <2>4, <2>5 DEF r
<1>10. po \in Nat
  <2> DEFINE g == [o \in Bonds(vs) |-> vs[o].tokens]
  <2>1. po = SumOver(g, Bonds(vs))
    BY DEF TokensOf, SumOver
  <2>2. \A o \in Bonds(vs) : g[o] \in Nat
    BY <1>3
  <2>3. IsFiniteSet(Bonds(vs))
    BY InPlaceAssumption, FS_Subset
  <2> HIDE DEF g, Bonds, po
  <2> QED
    BY <2>1, <2>2, <2>3, SumNat
<1>11. /\ a.validators = vs /\ a.index = in /\ a.last = la /\ a.queue = qu
       /\ a.byCons = by /\ a.info = nf /\ a.stake = st /\ a.pool = po
       /\ a.kept = FALSE
  BY <1>2
<1>12. a \in App
  <2> HIDE DEF in, la, qu, by, nf, st, po
  <2> QED
    BY <1>2, <1>4, <1>5, <1>6, <1>7, <1>8, <1>9, <1>10 DEF App
<1>13. /\ Bonded(a) = Bonds(vs) /\ Known(a) = There(vs)
       /\ WithStatusOf(a, "unbonding") = qu
  BY <1>11 DEF Bonded, WithStatusOf, Exists, Known
<1>14. KeysFound(a)
  <2> SUFFICES ASSUME NEW o \in Operator, vs[o] # None
               PROVE  by[vs[o].cons] = o
    BY <1>11 DEF KeysFound, Exists
  <2>1. vs[o].cons \in Cons
    BY <1>3
  <2>2. \A p \in Operator : vs[p] # None /\ vs[p].cons = vs[o].cons => p = o
    BY <1>1
  <2> QED
    BY <2>1, <2>2
<1>15. Indexed(a)
  <2>1. \A e : e \in in <=> \E o \in Operator : vs[o] # None /\ e \in Entry(vs[o], o)
    BY DEF Entry
  <2> HIDE DEF in
  <2> QED
    BY <1>11, <2>1 DEF Indexed, Exists
<1>16. Recorded(a)
  BY <1>11, <1>13 DEF Recorded
<1>17. \A o \in Operator : Exists(a, o) => a.validators[o].unit # 1
  BY <1>1, <1>11, InPlaceAssumption DEF Exists
<1>18. UserStays(a)
  BY <1>17 DEF UserStays, Stays
<1>19. Covered(a)
  <2>1. Bonded(a) \in SUBSET Known(a)
    BY <1>13
  <2>2. /\ po = SumOver(TokensIn(a, Bonded(a)), Operator)
        /\ \A o \in Operator : TokensIn(a, Bonded(a))[o] \in Nat
    BY <1>11, <1>12, <1>13, <2>1, TokensOfIs
  <2>3. \A o \in Operator : Owed(a)[o] \in Nat
    BY <1>12, OwedType
  <2>4. \A o \in Operator : Owed(a)[o] = TokensIn(a, Bonded(a))[o]
    BY <1>17 DEF Owed, TokensIn, Bonded, WithStatusOf
  <2>5. \A o \in Operator : /\ Owed(a)[o] \in Int /\ TokensIn(a, Bonded(a))[o] \in Int
                            /\ Owed(a)[o] <= TokensIn(a, Bonded(a))[o]
    BY <2>2, <2>3, <2>4
  <2>6. SumOver(Owed(a), Operator) <= SumOver(TokensIn(a, Bonded(a)), Operator)
    BY <2>5, SumAtMost, InPlaceAssumption
  <2> QED
    BY <1>11, <2>2, <2>6 DEF Covered
<1> QED
  BY <1>12, <1>14, <1>15, <1>16, <1>18, <1>19 DEF Chain

(* initAppForTestnet leaves a state in order in which only the operator's  *)
(* new key resolves.                                                       *)
LEMMA CommandKeepsOrder ==
  ASSUME NEW a, Chain(a), NEW o \in Operator
  PROVE  LET b == initAppForTestnet(a, o)
         IN  /\ Chain(b)
             /\ Alive(b) = {UserKey}
             /\ b.last = [p \in {o} |-> 0]
             /\ b.validators[o].cons = UserKey
             /\ Standing(b)
<1> DEFINE vs == [p \in Operator |-> IF p = o THEN NewValidator ELSE None]
           in == {<<o, valVotingPower>>}
           la == [p \in {o} |-> 0]
           nf == a.info \cup {UserKey}
           ke == a.kept \/ ~Backed(a, o)
           b == initAppForTestnet(a, o)
<1>0. a \in App
  BY DEF Chain
<1>1. /\ NewValidator \in Validator /\ NewValidator # None
      /\ NewValidator.cons = UserKey /\ NewValidator.status = "bonded"
      /\ NewValidator.jailed = FALSE /\ NewValidator.tokens = valVotingPower
      /\ NewValidator.unit = 1
      /\ valVotingPower \in Tokens
  <2>1. valVotingPower \in Tokens
    BY InPlaceAssumption DEF Tokens
  <2>2. NewValidator \in Validator
    BY <2>1, InPlaceAssumption DEF NewValidator, Validator, Status
  <2> QED
    BY <2>1, <2>2, NoneAssumption DEF NewValidator
<1>2. vs \in [Operator -> Validator \cup {None}]
  BY <1>1
<1>3. in \in SUBSET (Operator \X Tokens)
  BY <1>1
<1>4. la \in Powers(Operator)
  <2>1. la \in [{o} -> 0..CometPower]
    BY InPlaceAssumption
  <2> QED
    BY <2>1 DEF Powers
<1>5. nf \in SUBSET Cons
  BY <1>0, AppFields, InPlaceAssumption
<1>6. b = [a EXCEPT !.validators = vs, !.index = in, !.last = la, !.queue = {},
                    !.byCons[UserKey] = o, !.info = nf, !.kept = ke]
  BY <1>0 DEF initAppForTestnet, App
<1> HIDE DEF vs, in, la, nf, ke, b
<1>7. b \in App
  <2>1. ke \in BOOLEAN
    BY DEF ke
  <2> QED
    BY <1>0, <1>2, <1>3, <1>4, <1>5, <1>6, <2>1 DEF App
<1>8. /\ b.validators = vs /\ b.index = in /\ b.last = la /\ b.queue = {}
      /\ b.byCons = [a.byCons EXCEPT ![UserKey] = o] /\ b.info = nf
      /\ b.stake = a.stake /\ b.pool = a.pool /\ b.kept = ke
  BY <1>0, <1>6 DEF App
<1>9. /\ b.validators[o] = NewValidator
      /\ \A p \in Operator : Exists(b, p) <=> p = o
  BY <1>1, <1>8 DEF Exists, vs
<1>10. Bonded(b) = {o} /\ WithStatusOf(b, "unbonding") = {}
  BY <1>1, <1>9 DEF Bonded, WithStatusOf
<1>11. KeysFound(b)
  <2>1. b.byCons[UserKey] = o
    BY <1>0, <1>8, AppFields, InPlaceAssumption
  <2> QED
    BY <1>1, <1>9, <2>1 DEF KeysFound
<1>12. Indexed(b)
  <2>1. Entry(NewValidator, o) = in
    BY <1>1 DEF Entry, in
  <2>2. {p \in Operator : Exists(b, p)} = {o}
    BY <1>9
  <2> QED
    BY <1>8, <1>9, <2>1, <2>2 DEF Indexed
<1>13. Recorded(b)
  BY <1>1, <1>8, <1>9, <1>10 DEF Recorded, la, nf
<1>14. a.stake[o] \in Nat
  BY <1>0, AppFields, SharesAre
<1>15. ASSUME ~b.kept
       PROVE  /\ ~a.kept /\ a.stake[o] <= MaxTokens
              /\ a.stake[o] # 0 => o \in Bonded(a) /\ a.validators[o].unit = 1
  <2>1. ~a.kept /\ Backed(a, o)
    BY <1>8, <1>15 DEF ke
  <2>2. CASE a.stake[o] = 0
    BY <2>1, <2>2, InPlaceAssumption
  <2>3. CASE a.stake[o] # 0
    <3>1. /\ Exists(a, o) /\ a.validators[o].unit = 1
          /\ a.validators[o].status = "bonded"
      BY <1>14, <2>1, <2>3 DEF Backed
    <3>2. Stays(a.validators[o], a.stake[o])
      BY <2>1, <3>1 DEF Chain, UserStays
    <3> QED
      BY <2>1, <3>1, <3>2 DEF Stays, Bonded, WithStatusOf
  <2> QED
    BY <2>2, <2>3
<1>16. UserStays(b)
  <2>1. ~b.kept => Stays(NewValidator, b.stake[o])
    BY <1>1, <1>8, <1>14, <1>15, InPlaceAssumption DEF Stays
  <2> QED
    BY <1>9, <2>1 DEF UserStays
<1>17. Covered(b)
  <2> SUFFICES ASSUME ~b.kept
               PROVE  SumOver(Owed(b), Operator) <= b.pool
    BY DEF Covered
  <2>1. \A p \in Operator : Owed(a)[p] \in Nat /\ Owed(b)[p] \in Nat
    BY <1>0, <1>7, OwedType
  <2>2. \A p \in Operator : Owed(b)[p] <= Owed(a)[p]
    <3> TAKE p \in Operator
    <3>1. CASE p # o
      BY <1>10, <2>1, <3>1 DEF Owed
    <3>2. CASE p = o /\ a.stake[o] = 0
      BY <1>1, <1>8, <1>9, <1>10, <2>1, <3>2 DEF Owed
    <3>3. CASE p = o /\ a.stake[o] # 0
      BY <1>1, <1>8, <1>9, <1>10, <1>14, <1>15, <3>3 DEF Owed
    <3> QED
      BY <3>1, <3>2, <3>3
  <2>3. \A p \in Operator : /\ Owed(b)[p] \in Int /\ Owed(a)[p] \in Int
                            /\ Owed(b)[p] <= Owed(a)[p]
    BY <2>1, <2>2
  <2>4. SumOver(Owed(b), Operator) <= SumOver(Owed(a), Operator)
    BY <2>3, SumAtMost, InPlaceAssumption
  <2>5. SumOver(Owed(b), Operator) \in Nat /\ SumOver(Owed(a), Operator) \in Nat
    BY <2>1, SumNat, InPlaceAssumption
  <2>6. SumOver(Owed(a), Operator) <= a.pool /\ a.pool \in Nat
    BY <1>0, <1>15, AppFields DEF Chain, Covered
  <2> QED
    BY <1>8, <2>4, <2>5, <2>6
<1>18. Chain(b)
  BY <1>7, <1>11, <1>12, <1>13, <1>16, <1>17 DEF Chain
<1>19. Alive(b) = {UserKey}
  BY <1>1, <1>8, <1>9 DEF Alive, nf
<1>20. Standing(b)
  BY <1>1, <1>9, <1>10 DEF Standing
<1> QED
  BY <1>1, <1>8, <1>9, <1>18, <1>19, <1>20 DEF b, la

-----------------------------------------------------------------------------
(* The invariant.                                                          *)

(* The invariant holds before the first run,                               *)
LEMMA Initially == Init => IInv
<1> SUFFICES ASSUME Init
             PROVE  IInv
  OBVIOUS
<1>1. Chain(disk) /\ app = disk
  BY OldChainInOrder DEF Init
<1>2. CometType /\ NotYet /\ ~Paired
  <2>1. \A S \in Sets : S = Nobody
    BY DEF Init, Sets
  <2>2. IsPowers(Nobody)
    BY DEF IsPowers, Nobody
  <2> QED
    BY <2>1, <2>2 DEF Init, CometType, NotYet, Paired, Sets
<1>3. /\ mode \in {"down", "command", "plain"}
      /\ halted \in BOOLEAN /\ half \in BOOLEAN /\ ~halted
  BY DEF Init
<1>4. runs \in 0..MaxRuns
  BY InPlaceAssumption DEF Init
<1> QED
  BY <1>1, <1>2, <1>3, <1>4 DEF IInv

(* after a start with the command,                                         *)
LEMMA StartKeeps ==
  ASSUME IInv, NEW o \in Operator, Start(o)
  PROVE  IInv'
<1> DEFINE own == [c \in {UserKey} |-> CometPower]
           b == initAppForTestnet(disk, o)
<1>1. Chain(disk)
  BY DEF IInv
<1>2. /\ Chain(b) /\ Alive(b) = {UserKey}
      /\ b.last = [p \in {o} |-> 0] /\ b.validators[o].cons = UserKey
      /\ Standing(b)
  BY <1>1, CommandKeepsOrder
<1>3. /\ app' = b /\ disk' = disk /\ comet' = [last |-> own, cur |-> own, next |-> own]
      /\ mode' = "command" /\ half' = TRUE /\ halted' = halted /\ halted = FALSE
      /\ runs' = runs + 1 /\ runs < MaxRuns
  BY DEF Start, IInv
<1>4. IsPowers(own) /\ DOMAIN own = {UserKey} /\ own # Nobody
  <2>1. DOMAIN own # DOMAIN Nobody
    BY DEF Nobody
  <2> QED
    BY <2>1, InPlaceAssumption DEF IsPowers
<1> HIDE DEF own, b
<1>5. Sets' = {own} /\ comet'.next = own
  BY <1>3 DEF Sets
<1>6. CometType' /\ Rewritten'
  BY <1>4, <1>5 DEF CometType, Rewritten
<1>7. Followed' /\ Standing(app)'
  BY <1>2, <1>3, <1>4, <1>5 DEF Followed
<1>8. Heard'
  BY <1>2, <1>3, <1>4, <1>5 DEF Heard, ConsOf
<1>9. runs' \in 0..MaxRuns
  BY <1>3, InPlaceAssumption DEF IInv
<1> QED
  BY <1>1, <1>2, <1>3, <1>6, <1>7, <1>8, <1>9 DEF IInv

(* after a plain start,                                                    *)
LEMMA PlainStartKeeps ==
  ASSUME IInv, PlainStart
  PROVE  IInv'
<1>1. /\ app' = disk /\ app = disk /\ mode' = "plain" /\ mode = "down"
      /\ disk' = disk /\ comet' = comet /\ halted' = halted /\ half' = half /\ runs' = runs
      /\ comet.cur # Nobody /\ halted = FALSE
  BY DEF PlainStart, IInv
<1>2. Sets' = Sets /\ CometType'
  BY <1>1 DEF Sets, CometType, IInv
<1>3. Rewritten'
  BY <1>1, <1>2 DEF IInv, NotYet, Rewritten, Sets
<1>4. Paired' => Paired
  BY <1>1 DEF Paired
<1>5. Paired' => Followed' /\ Heard' /\ Standing(app)'
  BY <1>1, <1>2, <1>4 DEF IInv, Followed, Heard
<1> QED
  BY <1>1, <1>2, <1>3, <1>5 DEF IInv

(* and after a crash.                                                      *)
LEMMA CrashKeeps ==
  ASSUME IInv, Crash
  PROVE  IInv'
<1>1. /\ app' = disk /\ mode' = "down" /\ mode # "down"
      /\ disk' = disk /\ comet' = comet /\ halted' = FALSE /\ half' = half /\ runs' = runs
  BY DEF Crash
<1>2. Sets' = Sets /\ CometType'
  BY <1>1 DEF Sets, CometType, IInv
<1>3. Rewritten'
  BY <1>1, <1>2 DEF IInv, NotYet, Rewritten, Sets
<1>4. Paired' => Paired /\ app = disk
  BY <1>1 DEF Paired, IInv
<1>5. Paired' => Followed' /\ Heard' /\ Standing(app)'
  BY <1>1, <1>2, <1>4 DEF IInv, Followed, Heard
<1> QED
  BY <1>1, <1>2, <1>3, <1>5 DEF IInv

(* A paired application begins every block.                                *)
LEMMA BlockBegins ==
  ASSUME IInv, Paired
  PROVE  BeginBlockOk(app)
<1> SUFFICES ASSUME NEW c \in DOMAIN comet.last
             PROVE  Resolves(app, c) /\ c \in app.info
  BY DEF BeginBlockOk
<1>1. c \in Alive(app)
  BY DEF IInv, Followed, Sets
<1>2. PICK o \in Operator : Exists(app, o) /\ app.validators[o].cons = c
  BY <1>1 DEF Alive
<1>3. app.byCons[c] = o /\ o # None
  BY <1>2, InPlaceAssumption DEF IInv, Chain, KeysFound
<1> QED
  BY <1>1, <1>2, <1>3 DEF Resolves, Alive

(* What the election and a validator that has unbonded make of the chain.  *)
SameKeys(a, b, S) == \A o \in S : a.validators[o].cons = b.validators[o].cons

(* The end of a block: the election, and an unbonding validator that may   *)
(* be done.                                                                *)
LEMMA EndOfBlock ==
  ASSUME NEW a, Chain(a), NEW b, BeforeElection(a, b), ElectionOk(b),
         NEW o \in {None} \cup Election(b).queue,
         NEW x, x = IF o = None THEN Election(b) ELSE Unbonded(Election(b), o)
  PROVE  /\ Chain(x)
         /\ \A c \in Alive(a) \cup ConsOf(b, Elected(b)) :
              (o # None => c # Election(b).validators[o].cons) => c \in Alive(x)
         /\ x.last = [p \in Elected(b) |-> b.validators[p].tokens]
         /\ SameKeys(x, b, Elected(b))
         /\ Standing(a) => Standing(x)
<1> DEFINE e == Election(b)
<1>1. Chain(b) /\ Alive(a) \subseteq Alive(b) /\ (Standing(a) => Standing(b))
  BY DEF BeforeElection
<1>2. /\ Chain(e) /\ Alive(b) \subseteq Alive(e) /\ ConsOf(b, Elected(b)) \subseteq Alive(e)
      /\ \A p \in Operator : Exists(b, p) => e.validators[p].cons = b.validators[p].cons
      /\ Standing(b) => Standing(e)
  BY <1>1, ElectionKeepsOrder
<1>3. e.last = [p \in Elected(b) |-> b.validators[p].tokens]
  BY <1>1, ElectionIs
<1>4. \A p \in Elected(b) : e.validators[p].cons = b.validators[p].cons
  BY <1>1, <1>2, ElectedAre
<1> HIDE DEF e
<1>5. CASE o = None
  <2>1. x = e
    BY <1>5 DEF e
  <2> QED
    BY <1>1, <1>2, <1>3, <1>4, <1>5, <2>1 DEF SameKeys
<1>6. CASE o # None
  <2>1. x = Unbonded(e, o) /\ o \in e.queue
    BY <1>6 DEF e
  <2>2. /\ Chain(x) /\ Alive(e) \ {e.validators[o].cons} \subseteq Alive(x)
        /\ x.last = e.last
        /\ \A p \in DOMAIN e.last : x.validators[p].cons = e.validators[p].cons
        /\ Standing(e) => Standing(x)
    BY <1>2, <2>1, UnbondedKeepsOrder
  <2>3. \A c \in Alive(a) \cup ConsOf(b, Elected(b)) :
          c # e.validators[o].cons => c \in Alive(x)
    BY <1>1, <1>2, <2>2
  <2>4. DOMAIN e.last = Elected(b)
    BY <1>3
  <2> QED
    BY <1>1, <1>2, <1>3, <1>4, <1>6, <2>2, <2>3, <2>4 DEF SameKeys, e
<1> QED
  BY <1>5, <1>6

(* A halt keeps the invariant where a block may fail.                      *)
LEMMA HaltKeeps ==
  ASSUME IInv, Halt, mode # "down", (mode = "plain" /\ half) \/ app.kept
  PROVE  IInv'
<1>1. /\ halted' = TRUE /\ app' = app /\ disk' = disk /\ comet' = comet
      /\ mode' = mode /\ half' = half /\ runs' = runs
  BY DEF Halt
<1>2. Sets' = Sets
  BY <1>1 DEF Sets
<1> QED
  BY <1>1, <1>2 DEF IInv, CometType, NotYet, Rewritten, Paired, Followed, Heard

(* The transactions of a block on a paired application, whose command was  *)
(* not given an operator with delegations, lead to an election that        *)
(* succeeds and leaves somebody to sign.                                   *)
LEMMA BlockEnds ==
  ASSUME IInv, Paired, ~app.kept, NEW b, BeforeElection(app, b)
  PROVE  ElectionOk(b) /\ Updated(comet.next, b) # Nobody
<1> DEFINE U == Updated(comet.next, b)
<1>1. Chain(b) /\ ~b.kept /\ Standing(b) /\ b.last = app.last
  BY DEF BeforeElection, IInv
<1>2. ElectionOk(b)
  BY <1>1, ElectionSucceeds
<1>3. IsPowers(comet.next)
  BY DEF IInv, CometType, Sets
<1>4. /\ DOMAIN comet.next = ConsOf(b, DOMAIN b.last)
      /\ \A p \in DOMAIN b.last :
           b.last[p] = 0 \/ comet.next[b.validators[p].cons] = b.last[p]
  BY DEF IInv, Heard, BeforeElection, ConsOf
<1>5. DOMAIN U = ConsOf(b, Elected(b))
  BY <1>1, <1>3, <1>4, UpdatedAgrees
<1>6. PICK o \in Bonded(b) : b.validators[o].unit = 1
  BY <1>1 DEF Standing
<1>7. o \in Elected(b)
  BY <1>1, <1>6, OthersLeave, ElectedAre
<1> HIDE DEF U
<1>8. DOMAIN U # {} /\ DOMAIN Nobody = {}
  BY <1>5, <1>7 DEF ConsOf, Nobody
<1>9. U # Nobody
  BY <1>8
<1> QED
  BY <1>2, <1>9 DEF U

(* A block keeps the invariant.                                            *)
LEMMA BlockKeeps ==
  ASSUME IInv, Block
  PROVE  IInv'
<1>0. /\ Chain(app) /\ CometType /\ mode # "down" /\ Rewritten /\ ~halted
      /\ \A S \in Sets : IsPowers(S)
  BY DEF IInv, Block, NotYet, CometType
<1>1. comet.cur # Nobody
  BY <1>0 DEF Rewritten, Sets
<1>2. ~Paired => mode = "plain" /\ half
  BY <1>0, <1>1 DEF Paired, IInv
<1>3. CASE ~BeginBlockOk(app)
  <2>1. Halt /\ ~Paired
    BY <1>3, BlockBegins DEF Block
  <2> QED
    BY <1>0, <1>2, <2>1, HaltKeeps
<1>4. CASE BeginBlockOk(app)
  <2>1. PICK a \in {app} \cup {Jail(app, o) : o \in {p \in Operator : MayJail(app, p)}} :
          \E b \in Delivered(a) : EndBlock(b)
    BY <1>4 DEF Block
  <2>2. PICK b \in Delivered(a) : EndBlock(b)
    BY <2>1
  <2>3. BeforeElection(app, a)
    <3>1. CASE a = app
      BY <1>0, <3>1, Unchanged
    <3>2. ASSUME NEW o \in Operator, MayJail(app, o), a = Jail(app, o)
          PROVE  BeforeElection(app, a)
      <4>1. Exists(app, o) /\ app.validators[o].cons # UserKey
        BY <3>2 DEF MayJail
      <4> QED
        BY <1>0, <3>2, <4>1, JailBefore
    <3> QED
      BY <2>1, <3>1, <3>2
  <2>4. Chain(a)
    BY <2>3 DEF BeforeElection
  <2>5. BeforeElection(app, b)
    BY <2>3, <2>4, DeliveredBefore, BeforeTwice
  <2> DEFINE U == Updated(comet.next, b)
             e == Election(b)
  <2>6. Chain(b)
    BY <2>5 DEF BeforeElection
  <2>7. /\ IsPowers(U)
        /\ DOMAIN U \subseteq DOMAIN comet.next \cup ConsOf(b, Elected(b))
    <3>1. IsPowers(comet.next)
      BY <1>0 DEF Sets
    <3> QED
      BY <2>6, <3>1, UpdatedIs
  <2> SUFFICES ASSUME ElectionOk(b), U # Nobody
               PROVE  IInv'
    <3>1. CASE ~(ElectionOk(b) /\ U # Nobody)
      <4>1. Halt
        BY <2>2, <3>1 DEF EndBlock
      <4>2. ~Paired \/ app.kept
        BY <2>5, <3>1, BlockEnds
      <4> QED
        BY <1>0, <1>2, <4>1, <4>2, HaltKeeps
    <3> QED
      BY <3>1
  <2>8. U # Nobody /\ ElectionOk(b)
    OBVIOUS
  <2>9. PICK o \in {None} \cup Mature(e) :
          IF o # None /\ ~Exists(b, o)
          THEN Halt
          ELSE /\ app' = IF o = None THEN e ELSE Unbonded(e, o)
               /\ disk' = app'
               /\ comet' = [last |-> comet.cur, cur |-> comet.next, next |-> U]
               /\ half' = (half /\ mode = "plain")
               /\ UNCHANGED <<mode, halted, runs>>
    BY <2>2, <2>8 DEF EndBlock
  <2> HIDE DEF U, e
  <2>10. /\ Chain(e) /\ e.queue \subseteq Operator
         /\ \A p \in Operator : Exists(e, p) <=> Exists(b, p)
         /\ \A p \in Operator : Exists(e, p) => e.validators[p].cons = b.validators[p].cons
         /\ e.queue = WithStatusOf(e, "unbonding") /\ Bonded(e) = Elected(b)
    <3>1. /\ Chain(e)
          /\ \A p \in Operator : /\ Exists(e, p) <=> Exists(b, p)
                                 /\ Exists(b, p) => e.validators[p].cons = b.validators[p].cons
      BY <2>6, <2>8, ElectionKeepsOrder DEF e
    <3>2. /\ e.queue = WithStatusOf(e, "unbonding") /\ DOMAIN e.last = Bonded(e)
      BY <3>1 DEF Chain, Recorded
    <3>3. e.last = [p \in Elected(b) |-> b.validators[p].tokens]
      BY <2>6, <2>8, ElectionIs DEF e
    <3> QED
      BY <3>1, <3>2, <3>3 DEF WithStatusOf
  <2>11. o # None => o \in e.queue /\ Exists(e, o) /\ Exists(b, o) /\ o \in Operator
    BY <2>9, <2>10 DEF Mature, WithStatusOf
  <2>12. /\ app' = IF o = None THEN e ELSE Unbonded(e, o)
         /\ disk' = app'
         /\ comet' = [last |-> comet.cur, cur |-> comet.next, next |-> U]
         /\ half' = (half /\ mode = "plain")
         /\ mode' = mode /\ halted' = halted /\ runs' = runs
    BY <2>9, <2>11
  <2>13. Sets' = {comet.cur, comet.next, U} /\ comet'.next = U /\ comet'.cur = comet.next
    BY <2>12 DEF Sets
  <2>14. CometType' /\ Rewritten'
    BY <1>0, <2>7, <2>8, <2>13 DEF CometType, Rewritten, Sets
  <2>15. /\ Chain(app')
         /\ \A c \in Alive(app) \cup ConsOf(b, Elected(b)) :
              (o # None => c # e.validators[o].cons) => c \in Alive(app')
         /\ app'.last = [p \in Elected(b) |-> b.validators[p].tokens]
         /\ \A p \in Elected(b) : app'.validators[p].cons = b.validators[p].cons
         /\ Standing(app) => Standing(app')
    <3>1. o \in {None} \cup e.queue
      BY <2>11
    <3>2. app' = IF o = None THEN Election(b) ELSE Unbonded(Election(b), o)
      BY <2>12 DEF e
    <3> DEFINE x == app'
    <3>3. /\ o \in {None} \cup Election(b).queue
          /\ x = IF o = None THEN Election(b) ELSE Unbonded(Election(b), o)
      BY <3>1, <3>2 DEF e
    <3> HIDE DEF x
    <3>4. Chain(x)
      BY <1>0, <2>5, <2>8, <3>3, EndOfBlock
    <3>5. \A c \in Alive(app) \cup ConsOf(b, Elected(b)) :
            (o # None => c # Election(b).validators[o].cons) => c \in Alive(x)
      BY <1>0, <2>5, <2>8, <3>3, EndOfBlock
    <3>6. x.last = [p \in Elected(b) |-> b.validators[p].tokens]
      BY <1>0, <2>5, <2>8, <3>3, EndOfBlock
    <3>7. SameKeys(x, b, Elected(b))
      BY <1>0, <2>5, <2>8, <3>3, EndOfBlock
    <3>8. Standing(app) => Standing(x)
      BY <1>0, <2>5, <2>8, <3>3, EndOfBlock
    <3> QED
      BY <3>4, <3>5, <3>6, <3>7, <3>8 DEF SameKeys, x, e
  <2>16. Paired' => Paired /\ ~half'
    <3>1. half \in BOOLEAN /\ mode \in {"command", "plain"}
      BY <1>0 DEF IInv
    <3>2. CASE half /\ mode = "plain"
      BY <2>12, <3>2 DEF Paired
    <3>3. CASE half /\ mode = "command"
      BY <1>1, <2>12, <3>3 DEF Paired
    <3>4. CASE ~half
      BY <1>1, <2>12, <3>4 DEF Paired
    <3> QED
      BY <3>1, <3>2, <3>3, <3>4
  <2>17. ASSUME Paired
         PROVE  Followed' /\ Standing(app)'
    <3>1. /\ DOMAIN comet.cur \subseteq Alive(app)
          /\ DOMAIN comet.next \subseteq Alive(app)
      BY <2>17 DEF IInv, Followed, Sets
    <3>2. o # None => /\ e.validators[o].cons \notin DOMAIN comet.cur \cup DOMAIN comet.next
                      /\ e.validators[o].cons \notin ConsOf(b, Elected(b))
      <4> SUFFICES ASSUME o # None
                   PROVE  /\ e.validators[o].cons \notin DOMAIN comet.cur \cup DOMAIN comet.next
                          /\ e.validators[o].cons \notin ConsOf(b, Elected(b))
        OBVIOUS
      <4>1. e.validators[o].cons \notin DOMAIN comet.cur \cup DOMAIN comet.next
        BY <2>9, <2>11 DEF Mature
      <4>2. o \notin Elected(b)
        BY <2>10, <2>11 DEF Bonded, WithStatusOf
      <4>3. ASSUME NEW p \in Elected(b), e.validators[o].cons = b.validators[p].cons
            PROVE  FALSE
        <5>1. p \in Operator /\ Exists(e, p) /\ e.validators[p].cons = e.validators[o].cons
          BY <2>10, <4>3 DEF Bonded, WithStatusOf
        <5> QED
          BY <2>10, <2>11, <4>2, <4>3, <5>1, DifferentKeys
      <4> QED
        BY <4>1, <4>3 DEF ConsOf
    <3>3. \A S \in {comet.cur, comet.next, U} : DOMAIN S \subseteq Alive(app')
      BY <2>7, <2>15, <3>1, <3>2
    <3>4. Standing(app')
      BY <2>15, <2>17 DEF IInv
    <3> QED
      BY <2>13, <3>3, <3>4 DEF Followed
  <2>18. ASSUME Paired, ~half'
         PROVE  Heard'
    <3>1. /\ DOMAIN comet.next = ConsOf(app, DOMAIN app.last)
          /\ \A p \in DOMAIN app.last :
               app.last[p] = 0 \/ comet.next[app.validators[p].cons] = app.last[p]
      BY <2>18 DEF IInv, Heard
    <3>2. /\ b.last = app.last
          /\ \A p \in DOMAIN app.last : b.validators[p].cons = app.validators[p].cons
      BY <2>5 DEF BeforeElection
    <3>3. /\ DOMAIN comet.next = ConsOf(b, DOMAIN b.last)
          /\ \A p \in DOMAIN b.last :
               b.last[p] = 0 \/ comet.next[b.validators[p].cons] = b.last[p]
      BY <3>1, <3>2 DEF ConsOf
    <3>4. IsPowers(comet.next)
      BY <1>0 DEF Sets
    <3>5. /\ DOMAIN U = ConsOf(b, Elected(b))
          /\ \A p \in Elected(b) : U[b.validators[p].cons] = b.validators[p].tokens
      BY <2>6, <3>3, <3>4, UpdatedAgrees DEF U
    <3>6. DOMAIN app'.last = Elected(b)
      BY <2>15
    <3>7. ConsOf(app', DOMAIN app'.last) = ConsOf(b, Elected(b))
      BY <2>15, <3>6 DEF ConsOf
    <3>8. \A p \in DOMAIN app'.last : U[app'.validators[p].cons] = app'.last[p]
      BY <2>15, <3>5, <3>6
    <3> QED
      BY <2>13, <2>18, <3>5, <3>7, <3>8 DEF Heard
  <2>19. /\ mode' \in {"down", "command", "plain"} /\ halted' = FALSE /\ halted' \in BOOLEAN
         /\ half' \in BOOLEAN /\ runs' \in 0..MaxRuns
    BY <1>0, <2>12 DEF IInv
  <2> QED
    BY <2>12, <2>14, <2>15, <2>16, <2>17, <2>18, <2>19 DEF IInv
<1> QED
  BY <1>3, <1>4

(* So it holds in every reachable state.                                   *)
LEMMA Invariant == Spec => []IInv
<1>1. Init => IInv
  BY Initially
<1>2. IInv /\ [Next]_vars => IInv'
  <2> SUFFICES ASSUME IInv, [Next]_vars
               PROVE  IInv'
    OBVIOUS
  <2>1. CASE Next
    BY <2>1, StartKeeps, PlainStartKeeps, CrashKeeps, BlockKeeps DEF Next
  <2>2. CASE UNCHANGED vars
    <3>1. /\ app' = app /\ disk' = disk /\ comet' = comet /\ mode' = mode
          /\ halted' = halted /\ half' = half /\ runs' = runs
      BY <2>2 DEF vars
    <3>2. Sets' = Sets
      BY <3>1 DEF Sets
    <3> QED
      BY <3>1, <3>2 DEF IInv, CometType, NotYet, Rewritten, Paired, Followed, Heard
  <2> QED
    BY <2>1, <2>2
<1> QED
  BY <1>1, <1>2, PTL DEF Spec

-----------------------------------------------------------------------------
(* The records stay well formed: no block gives a validator or CometBFT a  *)
(* power outside the bounds, or the bonded pool less than nothing.         *)
THEOREM TypeCorrect == Spec => []TypeOK
<1>1. IInv => TypeOK
  <2> SUFFICES ASSUME IInv
               PROVE  TypeOK
    OBVIOUS
  <2>1. app \in App /\ disk \in App
    BY DEF IInv, Chain
  <2>2. \A a \in {app, disk} :
          /\ DOMAIN a.validators = Operator
          /\ \A o \in Operator : a.validators[o] \in Validator \cup {None}
          /\ a.index \subseteq Operator \X Tokens
          /\ DOMAIN a.last \subseteq Operator
          /\ a.queue \subseteq Operator
          /\ a.byCons \in [Cons -> Operator \cup {None}]
          /\ a.info \subseteq Cons
          /\ a.stake \in [Operator -> Shares]
          /\ a.pool \in Nat /\ a.kept \in BOOLEAN
    <3> SUFFICES ASSUME NEW a \in App
                 PROVE  /\ DOMAIN a.validators = Operator
                        /\ \A o \in Operator : a.validators[o] \in Validator \cup {None}
                        /\ a.index \subseteq Operator \X Tokens
                        /\ DOMAIN a.last \subseteq Operator
                        /\ a.queue \subseteq Operator
                        /\ a.byCons \in [Cons -> Operator \cup {None}]
                        /\ a.info \subseteq Cons
                        /\ a.stake \in [Operator -> Shares]
                        /\ a.pool \in Nat /\ a.kept \in BOOLEAN
      BY <2>1
    <3>1. a.validators \in [Operator -> Validator \cup {None}]
      BY AppFields
    <3>2. DOMAIN a.validators = Operator
          /\ \A o \in Operator : a.validators[o] \in Validator \cup {None}
      BY <3>1
    <3> QED
      BY <3>2, AppFields
  <2>3. \A S \in {comet.last, comet.cur, comet.next} :
          DOMAIN S \subseteq Cons /\ \A c \in DOMAIN S : S[c] \in 1..CometPower
    BY DEF IInv, CometType, IsPowers, Sets
  <2> QED
    BY <2>2, <2>3 DEF TypeOK, IInv
<1> QED
  BY <1>1, Invariant, PTL

(* The chain goes on: no block of the network that in-place-testnet makes  *)
(* ever fails, whoever the old validators were, whoever joins, is jailed,  *)
(* unbonds or leaves, wherever the node crashes and however often the      *)
(* command is run, unless it was given an operator's address whose kept    *)
(* delegations it revalued, or the node was started without the command    *)
(* before its first block.                                                 *)
THEOREM BlocksGoOn == Spec => []ChainGoesOn
<1>1. IInv => ChainGoesOn
  BY DEF IInv, ChainGoesOn
<1> QED
  BY <1>1, Invariant, PTL

(* From its first committed block on, CometBFT's next validator set is the *)
(* set x/staking last elected, with the same powers.                       *)
THEOREM SetsStayEqual == Spec => []SetsAgree
<1>1. IInv => SetsAgree
  <2> SUFFICES ASSUME IInv, comet.cur # Nobody, ~half
               PROVE  comet.next = [c \in {disk.validators[o].cons : o \in DOMAIN disk.last} |->
                                      disk.last[disk.byCons[c]]]
    BY DEF SetsAgree
  <2>1. app = disk /\ Heard /\ Chain(disk)
    BY DEF IInv, Paired
  <2>2. /\ DOMAIN comet.next = ConsOf(disk, DOMAIN disk.last)
        /\ \A o \in DOMAIN disk.last :
             comet.next[disk.validators[o].cons] = disk.last[o]
    BY <2>1 DEF Heard
  <2>3. \A o \in DOMAIN disk.last : disk.byCons[disk.validators[o].cons] = o
    BY <2>1 DEF Chain, KeysFound, Recorded, Bonded, WithStatusOf
  <2>4. comet.next \in [DOMAIN comet.next -> 1..CometPower]
    BY DEF IInv, CometType, IsPowers, Sets
  <2>5. \A c \in DOMAIN comet.next : comet.next[c] = disk.last[disk.byCons[c]]
    BY <2>2, <2>3 DEF ConsOf
  <2> QED
    BY <2>2, <2>4, <2>5 DEF ConsOf
<1> QED
  BY <1>1, Invariant, PTL

=============================================================================
