---------------------------- MODULE ExportProofs ----------------------------
(***************************************************************************)
(* Theorems about Export, for every set of validators and delegators, and  *)
(* all amounts and bounds. The books of one validator (Book) are looked at *)
(* by themselves: an operation changes those of one validator, or of one   *)
(* after another, and leaves the others alone. Books are Sound when every  *)
(* period that somebody refers to is in the history with its exact count,  *)
(* ratios never fall, starts and slashes are in the order of their         *)
(* heights, each delegation earns by the stake it has, and the outstanding *)
(* rewards cover all claims. A loop over a store, in whatever order, is a  *)
(* fold that keeps an invariant indexed by the elements done (FoldKeeps):  *)
(* so are the loops of the export, which run through states where only     *)
(* some delegations are in the books (the second argument of Books).       *)
(***************************************************************************)
EXTENDS Export, DataInduction

-----------------------------------------------------------------------------
(* The invariant.                                                          *)

HistoryRecord == [ref : Nat, ratio : Nat]
Start == [period : Nat, stake : Nat, height : Nat]
Event == [height : Nat, period : Nat]

(* The books of one validator.                                             *)
Book(st, v) ==
  [hist |-> st.hist[v], cur |-> st.cur[v], out |-> st.out[v], comm |-> st.comm[v],
   events |-> st.events[v],
   start |-> [d \in Delegator |-> st.start[<<d, v>>]],
   stake |-> [d \in Delegator |-> st.stake[<<d, v>>]]]

Last(b) == b.cur.period - 1
Slashes(b) == {e.period : e \in b.events}
Starts(b, L) == {b.start[d].period : d \in L}
Kept(b, L) == Starts(b, L) \cup Slashes(b)

Earning(b, d) == Earned(b.hist, b.start[d], Slashes(b), Last(b))[Last(b)]
Claim(b, d) == Upto(b.hist, Earning(b, d), Last(b)).amount
Claims(b, L) == SumOver([d \in L |-> Claim(b, d)], L)

BookType(b, L) ==
  /\ DOMAIN b.hist \subseteq Nat /\ b.hist \in [DOMAIN b.hist -> HistoryRecord]
  /\ b.cur \in [period : Nat \ {0}, rewards : Nat]
  /\ b.out \in Nat /\ b.comm \in Nat
  /\ b.events \subseteq Event /\ IsFiniteSet(b.events)
  /\ L \subseteq Delegator /\ \A d \in L : b.start[d] \in Start
  /\ b.stake \in [Delegator -> Nat]

(* Who refers to a period has it to himself, and its record is kept for    *)
(* him and for the current period.                                         *)
Referred(b, L) ==
  /\ Kept(b, L) \subseteq 0 .. Last(b)
  /\ \A d \in L : b.start[d].period \notin Slashes(b)
  /\ \A d, k \in L : b.start[d].period = b.start[k].period => d = k
  /\ \A e, f \in b.events : e.period = f.period => e = f
  /\ DOMAIN b.hist = Kept(b, L) \cup {Last(b)}
  /\ \A p \in DOMAIN b.hist :
       b.hist[p].ref = (IF p = Last(b) THEN 1 ELSE 0) + (IF p \in Kept(b, L) THEN 1 ELSE 0)

Growing(h) == \A p, q \in DOMAIN h : p <= q => h[p].ratio <= h[q].ratio

InTime(b, L, h) ==
  /\ \A d \in L : b.start[d].height <= h
  /\ \A e \in b.events : e.height <= h
  /\ \A d \in L, e \in b.events :
       e.period > b.start[d].period => b.start[d].height <= e.height

Whole(b, L) == \A d \in L : Earning(b, d).stake = b.stake[d]

Solvent(b, L) == b.out >= b.comm + b.cur.rewards + Claims(b, L)

Sound(b, L, h) ==
  BookType(b, L) /\ Referred(b, L) /\ Growing(b.hist) /\ InTime(b, L, h) /\ Whole(b, L)
    /\ Solvent(b, L)

(* The state, with the delegations live[v] that validator v's books carry: *)
(* those that have a record of their start, but in the middle of an export *)
(* those that have one again.                                              *)
Fields ==
  {"height", "panic", "pool", "bal", "stake", "hist", "cur", "out", "comm", "events",
   "start", "jailed", "index", "unbondedAt", "signing", "leaving"}

Exit == [kind : {"unbonding", "redelegation"}, validator : Validator, height : Nat]

Maps(st) ==
  /\ st = [f \in Fields |-> st[f]]
  /\ st.hist = [v \in Validator |-> st.hist[v]] /\ st.cur = [v \in Validator |-> st.cur[v]]
  /\ st.out = [v \in Validator |-> st.out[v]] /\ st.comm = [v \in Validator |-> st.comm[v]]
  /\ st.events = [v \in Validator |-> st.events[v]]
  /\ st.stake \in [Delegation -> 0 .. Stake]
  /\ st.start \in [Delegation -> Start \cup {NoStart}]

Elsewhere(st) ==
  /\ st.height \in Nat
  /\ st.jailed \in [Validator -> BOOLEAN] /\ st.index \subseteq Validator
  /\ st.unbondedAt \in [Validator -> Nat] /\ st.signing \in [Validator -> Nat]
  /\ st.leaving \subseteq Exit

Balanced(st) ==
  /\ st.pool \in Nat /\ st.bal \in Int
  /\ st.bal * Unit = st.pool + SumOver(st.out, Validator)

AllSound(st, live) == \A v \in Validator : Sound(Book(st, v), live[v], st.height)

Books(st, live) ==
  Maps(st) /\ Elsewhere(st) /\ st.panic = FALSE /\ Balanced(st) /\ AllSound(st, live)

Live(st) == [v \in Validator |-> {d \in Delegator : st.start[<<d, v>>] # NoStart}]

Indexed(st) == st.index = {v \in Validator : ~st.jailed[v]}
Belongs(st) == \A x \in Delegation : st.start[x] = NoStart <=> st.stake[x] = 0
Past(st) ==
  /\ \A v \in Validator : st.unbondedAt[v] <= st.height /\ st.signing[v] <= st.height
  /\ \A e \in st.leaving : e.height <= st.height

InOrder(st) == Books(st, Live(st)) /\ Indexed(st) /\ Belongs(st) /\ Past(st)

IInv ==
  /\ phase \in {"old", "new", "failed"} /\ list \subseteq Validator /\ ops \in 0 .. MaxOps
  /\ s.height <= MaxHeight /\ InOrder(s)
  /\ FailsForUnlistedOnly

-----------------------------------------------------------------------------
(* What a delegation earns.                                                *)

IsHistory(h) == DOMAIN h \subseteq Nat /\ h \in [DOMAIN h -> HistoryRecord]
Account == [amount : Int, period : Nat, stake : Nat, bad : BOOLEAN]

(* A record read at any period is well formed: a missing one counts as     *)
(* zero.                                                                   *)
LEMMA AtType ==
  ASSUME NEW h, IsHistory(h), NEW p
  PROVE  /\ At(h, p) \in HistoryRecord
         /\ At(h, p).ratio \in Nat /\ At(h, p).ref \in Nat
BY DEF IsHistory, At, HistoryRecord

(* Counting a delegation's rewards up to a period                          *)
(* (CalculateDelegationRewards' calculation between two periods).          *)
LEMMA UptoType ==
  ASSUME NEW h, IsHistory(h), NEW acc \in Account, NEW p \in Nat
  PROVE  /\ Upto(h, acc, p) \in Account
         /\ Upto(h, acc, p).amount =
              acc.amount + acc.stake * (At(h, p).ratio - At(h, acc.period).ratio)
         /\ Upto(h, acc, p).period = p
         /\ Upto(h, acc, p).stake = acc.stake
<1> DEFINE q == At(h, p).ratio
           r == At(h, acc.period).ratio
           gain == acc.stake * (q - r)
           bad == acc.bad \/ gain < 0 \/ p < acc.period
<1>1. q \in Nat /\ r \in Nat
  BY AtType
<1>2. acc.stake \in Nat /\ acc.amount \in Int /\ acc.period \in Nat
  BY DEF Account
<1>3. gain \in Int
  BY <1>1, <1>2
<1>4. bad \in BOOLEAN
  BY Zenon
<1>5. Upto(h, acc, p) = [amount |-> acc.amount + gain, period |-> p, stake |-> acc.stake,
                         bad |-> bad]
  BY DEF Upto
<1> HIDE DEF gain, bad
<1>6. acc.amount + gain \in Int
  BY <1>2, <1>3
<1>7. Upto(h, acc, p) \in Account
  BY <1>2, <1>4, <1>5, <1>6 DEF Account
<1> QED
  BY <1>5, <1>7 DEF gain

(* A delegation has earned nothing at its start.                           *)
LEMMA NothingType ==
  ASSUME NEW from \in Start
  PROVE  Nothing(from) \in Account
BY DEF Nothing, Account, Start

(* The stake that a slash leaves.                                          *)
LEMMA HalfType ==
  ASSUME NEW acc \in Account
  PROVE  [acc EXCEPT !.stake = @ \div 2] \in Account
<1>1. acc.stake \div 2 \in Nat
  BY DEF Account
<1> QED
  BY <1>1 DEF Account

(* One period further.                                                     *)
LEMMA FurtherType ==
  ASSUME NEW h, IsHistory(h), NEW from \in Start, NEW slashed, NEW acc \in Account,
         NEW i \in Nat
  PROVE  Further(h, from, slashed, acc, i) \in Account
BY UptoType, NothingType, HalfType DEF Further

(* The recursion of Earned.                                                *)
LEMMA EarnedIs ==
  ASSUME NEW h, IsHistory(h), NEW from \in Start, NEW slashed, NEW n \in Nat
  PROVE  LET w == Earned(h, from, slashed, n)
         IN  /\ w[0] = Nothing(from)
             /\ \A i \in 1 .. n : w[i] = Further(h, from, slashed, w[i - 1], i)
             /\ \A i \in 0 .. n : w[i] \in Account
<1> DEFINE base == Nothing(from)
           step == [x \in Account \X (1 .. n) |-> Further(h, from, slashed, x[1], x[2])]
           Rec(g) == [i \in 0 .. n |-> IF i = 0 THEN base
                                       ELSE Further(h, from, slashed, g[i - 1], i)]
           w == CHOOSE g : g = Rec(g)
<1>1. base \in Account /\ from.period \in Nat
  BY NothingType DEF Start
<1>2. step \in [Account \X (1 .. n) -> Account]
  BY FurtherType
<1>3. PICK f \in [0 .. n -> Account] : Iterates(f, base, step, n)
  <2> HIDE DEF base, step
  <2> QED
    BY <1>1, <1>2, IterationExists
<1>4. f[0] = base /\ \A i \in 1 .. n : f[i] = Further(h, from, slashed, f[i - 1], i)
  <2>1. \A i \in 1 .. n : f[i - 1] \in Account /\ <<f[i - 1], i>> \in Account \X (1 .. n)
    <3> HIDE DEF base, step, Rec, w
    <3>1. \A i \in 1 .. n : i - 1 \in 0 .. n
      OBVIOUS
    <3> QED
      BY <1>3, <3>1
  <2>2. \A i \in 1 .. n : f[i] = step[<<f[i - 1], i>>]
    BY <1>3 DEF Iterates
  <2>3. f[0] = base
    BY <1>3 DEF Iterates
  <2> QED
    BY <2>1, <2>2, <2>3
<1>5. f = Rec(f)
  <2>1. \A i \in 0 .. n : f[i] = Rec(f)[i]
    BY <1>4
  <2>2. f = [i \in 0 .. n |-> f[i]]
    BY <1>3
  <2> QED
    BY <2>1, <2>2
<1>6. w = Rec(w)
  BY <1>5
<1>7. Earned(h, from, slashed, n) = w
  BY DEF Earned
<1> HIDE DEF w
<1>8. w[0] = base
  BY <1>1, <1>6
<1>9. \A i \in 1 .. n : w[i] = Further(h, from, slashed, w[i - 1], i)
  BY <1>6
<1>10. \A i \in 0 .. n : w[i] \in Account
  <2>1. \A i \in 1 .. n : w[i - 1] \in Account => w[i] = step[<<w[i - 1], i>>]
    BY <1>9
  <2> HIDE DEF step, base
  <2> QED
    BY <1>1, <1>2, <1>8, <2>1, IterationType
<1> QED
  BY <1>7, <1>8, <1>9, <1>10

(* Counting up to a later period of a growing record loses nothing.        *)
LEMMA UptoGrows ==
  ASSUME NEW h, IsHistory(h), Growing(h), NEW acc \in Account, NEW p \in DOMAIN h,
         acc.period \in DOMAIN h, acc.period <= p, acc.bad = FALSE
  PROVE  Upto(h, acc, p).amount >= acc.amount /\ Upto(h, acc, p).bad = FALSE
<1> DEFINE q == At(h, p).ratio
           r == At(h, acc.period).ratio
           gain == acc.stake * (q - r)
<1>1. q \in Nat /\ r \in Nat /\ r <= q
  <2>1. q \in Nat /\ r \in Nat
    BY AtType
  <2>2. r <= q
    BY DEF At, Growing
  <2> QED
    BY <2>1, <2>2
<1>2. acc.stake \in Nat /\ acc.amount \in Int /\ acc.period \in Nat /\ p \in Nat
  BY DEF Account, IsHistory
<1>3. gain \in Int /\ gain >= 0
  <2> HIDE DEF q, r
  <2>1. q - r \in Nat
    BY <1>1
  <2> QED
    BY <1>2, <2>1
<1>4. Upto(h, acc, p).amount = acc.amount + gain
  BY DEF Upto
<1>5. Upto(h, acc, p).bad = (acc.bad \/ gain < 0 \/ p < acc.period)
  BY Zenon DEF Upto
<1> HIDE DEF gain
<1>6. ~(gain < 0) /\ ~(p < acc.period)
  BY <1>2, <1>3
<1>7. (acc.bad \/ gain < 0 \/ p < acc.period) = FALSE
  BY <1>6, Zenon
<1>8. Upto(h, acc, p).bad = FALSE
  BY <1>5, <1>7, Zenon
<1>9. Upto(h, acc, p).amount >= acc.amount
  BY <1>2, <1>3, <1>4
<1> QED
  BY <1>8, <1>9

(* The periods at which an account may stand.                              *)
Reached(from, slashed, p, i) ==
  p = from.period \/ (p \in slashed /\ from.period < p /\ p <= i)

Fits(h, from, slashed, n) ==
  /\ from.period \in DOMAIN h
  /\ \A p \in slashed : from.period < p /\ p <= n => p \in DOMAIN h

Stands(h, from, slashed, a, i) ==
  /\ a.amount >= 0 /\ a.bad = FALSE
  /\ a.period \in DOMAIN h
  /\ Reached(from, slashed, a.period, i)

(* At its start, a delegation stands at its own period.                    *)
LEMMA NothingStands ==
  ASSUME NEW h, NEW from \in Start, NEW slashed, NEW n, Fits(h, from, slashed, n), NEW i
  PROVE  Stands(h, from, slashed, Nothing(from), i)
BY DEF Stands, Nothing, Reached, Fits

(* And one period further it stands at one that the history still holds.   *)
LEMMA FurtherStands ==
  ASSUME NEW h, IsHistory(h), Growing(h), NEW from \in Start, NEW slashed, NEW n \in Nat,
         Fits(h, from, slashed, n), NEW i \in 1 .. n, NEW a \in Account,
         Stands(h, from, slashed, a, i - 1)
  PROVE  Stands(h, from, slashed, Further(h, from, slashed, a, i), i)
<1> DEFINE f == Further(h, from, slashed, a, i)
<1>0. i \in Nat /\ i <= n /\ from.period \in Nat /\ a.period \in Nat
  BY DEF Start, Account
<1>1. CASE i <= from.period
  BY <1>1, NothingStands DEF Further
<1>2. CASE ~(i <= from.period) /\ i \in slashed
  <2> DEFINE u == Upto(h, a, i)
  <2>1. i \in DOMAIN h
    BY <1>0, <1>2 DEF Fits
  <2>2. a.period <= i
    BY <1>0, <1>2 DEF Reached, Stands
  <2>3. u.amount >= a.amount /\ u.bad = FALSE
    BY <2>1, <2>2, UptoGrows DEF Stands
  <2>4. u \in Account /\ u.period = i
    BY <1>0, UptoType
  <2>5. f = [u EXCEPT !.stake = @ \div 2]
    BY <1>2 DEF Further
  <2> HIDE DEF u, f
  <2>6. f.amount = u.amount /\ f.bad = u.bad /\ f.period = u.period
    BY <2>4, <2>5 DEF Account
  <2>7. f.amount >= 0
    <3>1. u.amount \in Int /\ a.amount \in Int /\ a.amount >= 0
      BY <2>4 DEF Account, Stands
    <3> QED
      BY <2>3, <2>6, <3>1
  <2>8. f.bad = FALSE
    BY <2>3, <2>6
  <2>9. Reached(from, slashed, f.period, i)
    BY <1>0, <1>2, <2>4, <2>6 DEF Reached
  <2>10. f.period \in DOMAIN h
    BY <2>1, <2>4, <2>6
  <2>11. Stands(h, from, slashed, f, i)
    BY <2>7, <2>8, <2>9, <2>10 DEF Stands
  <2> QED
    BY <2>11 DEF f
<1>3. CASE ~(i <= from.period) /\ ~(i \in slashed)
  <2>1. f = a
    BY <1>3 DEF Further
  <2>2. Reached(from, slashed, a.period, i)
    BY <1>0 DEF Stands, Reached
  <2>3. Stands(h, from, slashed, a, i)
    BY <2>2 DEF Stands
  <2> QED
    BY <2>1, <2>3
<1> QED
  BY <1>1, <1>2, <1>3

(* Through all periods: rewards are never negative and the calculation     *)
(* never panics.                                                           *)
LEMMA EarnedKeeps ==
  ASSUME NEW h, IsHistory(h), Growing(h), NEW from \in Start, NEW slashed, NEW n \in Nat,
         Fits(h, from, slashed, n)
  PROVE  \A i \in 0 .. n : Stands(h, from, slashed, Earned(h, from, slashed, n)[i], i)
<1> DEFINE w == Earned(h, from, slashed, n)
           P == {i \in 0 .. n : Stands(h, from, slashed, w[i], i)}
<1>1. /\ w[0] = Nothing(from)
      /\ \A i \in 0 .. n : w[i] \in Account
  BY EarnedIs
<1>2. \A i \in 1 .. n : w[i] = Further(h, from, slashed, w[i - 1], i)
  BY EarnedIs
<1> HIDE DEF w
<1>3. 0 \in P
  BY <1>1, NothingStands
<1>4. ASSUME NEW i \in 1 .. n, i - 1 \in P
      PROVE  i \in P
  <2>1. i - 1 \in 0 .. n /\ i \in 0 .. n
    OBVIOUS
  <2>2. w[i - 1] \in Account
    BY <1>1, <2>1
  <2>3. Stands(h, from, slashed, w[i - 1], i - 1)
    BY <1>4
  <2>4. Stands(h, from, slashed, Further(h, from, slashed, w[i - 1], i), i)
    BY <2>2, <2>3, FurtherStands
  <2> QED
    BY <1>2, <2>1, <2>4
<1>5. \A i \in 0 .. n : i \in P
  <2> HIDE DEF P
  <2> QED
    BY <1>3, <1>4, Induction
<1> QED
  BY <1>5 DEF w

(* Only the records that somebody refers to matter, and only slashes after *)
(* the start.                                                              *)
Alike(g, h, from, slashed, n) ==
  \A p \in DOMAIN h : Reached(from, slashed, p, n) => At(g, p).ratio = At(h, p).ratio

SameSlashes(from, slashed, more, n) ==
  \A p \in 0 .. n : from.period < p => (p \in slashed <=> p \in more)

(* Two calculations that read the same ratios and halve at the same        *)
(* slashes agree, period by period,                                        *)
LEMMA FurtherSame ==
  ASSUME NEW h, IsHistory(h), NEW g, NEW from \in Start, NEW slashed, NEW more, NEW n \in Nat,
         Fits(h, from, slashed, n), Alike(g, h, from, slashed, n),
         SameSlashes(from, slashed, more, n), NEW i \in 1 .. n, NEW a \in Account,
         Stands(h, from, slashed, a, i - 1)
  PROVE  Further(g, from, more, a, i) = Further(h, from, slashed, a, i)
<1>0. i \in Nat /\ i <= n /\ from.period \in Nat /\ a.period \in Nat /\ i \in 0 .. n
  BY DEF Start, Account
<1>1. CASE i <= from.period
  BY <1>1 DEF Further
<1>2. CASE ~(i <= from.period) /\ i \in slashed
  <2>1. i \in DOMAIN h /\ i \in more /\ Reached(from, slashed, i, n)
    BY <1>0, <1>2 DEF Fits, SameSlashes, Reached
  <2>2. At(g, i).ratio = At(h, i).ratio
    BY <2>1 DEF Alike
  <2>3. a.period \in DOMAIN h /\ Reached(from, slashed, a.period, n)
    BY <1>0 DEF Stands, Reached
  <2>4. At(g, a.period).ratio = At(h, a.period).ratio
    BY <2>3 DEF Alike
  <2>5. Upto(g, a, i) = Upto(h, a, i)
    BY <2>2, <2>4 DEF Upto
  <2> QED
    BY <1>2, <2>1, <2>5 DEF Further
<1>3. CASE ~(i <= from.period) /\ ~(i \in slashed)
  <2>1. ~(i \in more)
    BY <1>0, <1>3 DEF SameSlashes
  <2> QED
    BY <1>3, <2>1 DEF Further
<1> QED
  BY <1>1, <1>2, <1>3

(* and so do their results, when nothing happened in the periods that only *)
(* one of them has.                                                        *)
LEMMA EarnedSame ==
  ASSUME NEW h, IsHistory(h), NEW g, IsHistory(g), Growing(h), NEW from \in Start,
         NEW slashed, NEW more, NEW n \in Nat, NEW m \in Nat, n <= m,
         Fits(h, from, slashed, n), Alike(g, h, from, slashed, n),
         SameSlashes(from, slashed, more, n)
  PROVE  Earned(g, from, more, m)[n] = Earned(h, from, slashed, n)[n]
<1> DEFINE w == Earned(h, from, slashed, n)
           u == Earned(g, from, more, m)
           P == {i \in 0 .. n : u[i] = w[i]}
<1>1. /\ w[0] = Nothing(from) /\ u[0] = Nothing(from)
      /\ \A i \in 0 .. n : w[i] \in Account
  BY EarnedIs
<1>2. \A i \in 1 .. n : w[i] = Further(h, from, slashed, w[i - 1], i)
  BY EarnedIs
<1>3. \A i \in 1 .. n : u[i] = Further(g, from, more, u[i - 1], i)
  <2>1. \A i \in 1 .. m : u[i] = Further(g, from, more, u[i - 1], i)
    BY EarnedIs
  <2> QED
    BY <2>1
<1>4. \A i \in 0 .. n : Stands(h, from, slashed, w[i], i)
  BY EarnedKeeps
<1> HIDE DEF w, u
<1>5. 0 \in P
  BY <1>1
<1>6. ASSUME NEW i \in 1 .. n, i - 1 \in P
      PROVE  i \in P
  <2>0. i - 1 \in 0 .. n /\ i \in 0 .. n /\ u[i - 1] = w[i - 1]
    BY <1>6
  <2>1. w[i - 1] \in Account /\ Stands(h, from, slashed, w[i - 1], i - 1)
    BY <1>1, <1>4, <2>0
  <2>2. Further(g, from, more, w[i - 1], i) = Further(h, from, slashed, w[i - 1], i)
    BY <2>1, FurtherSame
  <2> QED
    BY <1>2, <1>3, <2>0, <2>2
<1>7. \A i \in 0 .. n : i \in P
  <2> HIDE DEF P
  <2> QED
    BY <1>5, <1>6, Induction
<1>8. n \in 0 .. n
  OBVIOUS
<1> QED
  BY <1>7, <1>8 DEF w, u

-----------------------------------------------------------------------------
(* The books of a validator.                                               *)

Accounts(b, L) == BookType(b, L) /\ Referred(b, L) /\ Growing(b.hist)

(* Whatever a delegation or a slash refers to is in the history.           *)
LEMMA BookFacts ==
  ASSUME NEW b, NEW L, BookType(b, L), Referred(b, L)
  PROVE  /\ IsHistory(b.hist)
         /\ Last(b) \in Nat /\ Last(b) \in DOMAIN b.hist
         /\ Slashes(b) \subseteq Nat
         /\ \A d \in L : /\ b.start[d] \in Start
                         /\ b.start[d].period \in Nat /\ b.start[d].period <= Last(b)
                         /\ b.start[d].period \in DOMAIN b.hist
                         /\ Fits(b.hist, b.start[d], Slashes(b), Last(b))
<1>1. IsHistory(b.hist)
  BY DEF BookType, IsHistory
<1>2. Last(b) \in Nat
  BY DEF BookType, Last
<1>3. DOMAIN b.hist = Kept(b, L) \cup {Last(b)} /\ Kept(b, L) \subseteq 0 .. Last(b)
  BY DEF Referred
<1>4. Slashes(b) \subseteq Kept(b, L)
  BY DEF Kept
<1>5. ASSUME NEW d \in L
      PROVE  /\ b.start[d] \in Start
             /\ b.start[d].period \in Nat /\ b.start[d].period <= Last(b)
             /\ b.start[d].period \in DOMAIN b.hist
             /\ Fits(b.hist, b.start[d], Slashes(b), Last(b))
  <2>1. b.start[d] \in Start
    BY DEF BookType
  <2>2. b.start[d].period \in Kept(b, L)
    BY DEF Kept, Starts
  <2>3. b.start[d].period \in 0 .. Last(b) /\ b.start[d].period \in DOMAIN b.hist
    BY <1>3, <2>2
  <2>4. Fits(b.hist, b.start[d], Slashes(b), Last(b))
    BY <1>3, <1>4, <2>3 DEF Fits
  <2> QED
    BY <2>1, <2>3, <2>4
<1> QED
  BY <1>1, <1>2, <1>3, <1>4, <1>5

(* A claim is a number, and what the code would panic at does not occur.   *)
LEMMA ClaimType ==
  ASSUME NEW b, NEW L, Accounts(b, L), NEW d \in L
  PROVE  /\ Earning(b, d) \in Account
         /\ Stands(b.hist, b.start[d], Slashes(b), Earning(b, d), Last(b))
         /\ Claim(b, d) \in Nat
         /\ Upto(b.hist, Earning(b, d), Last(b)).bad = FALSE
<1> DEFINE n == Last(b)
           from == b.start[d]
           a == Earned(b.hist, from, Slashes(b), n)[n]
<1>1. /\ IsHistory(b.hist) /\ n \in Nat /\ n \in DOMAIN b.hist /\ from \in Start
      /\ from.period \in Nat /\ from.period <= n /\ Fits(b.hist, from, Slashes(b), n)
  BY BookFacts DEF Accounts
<1>2. Growing(b.hist)
  BY DEF Accounts
<1> HIDE DEF n, from
<1>3. n \in 0 .. n
  BY <1>1
<1>4. a \in Account
  BY <1>1, <1>3, EarnedIs
<1>5. Stands(b.hist, from, Slashes(b), a, n)
  BY <1>1, <1>2, <1>3, EarnedKeeps
<1> HIDE DEF a
<1>6. a.period \in DOMAIN b.hist /\ a.bad = FALSE /\ a.amount >= 0 /\ a.period <= n
  BY <1>1, <1>5 DEF Stands, Reached
<1>7. Upto(b.hist, a, n).amount >= a.amount /\ Upto(b.hist, a, n).bad = FALSE
  BY <1>1, <1>2, <1>4, <1>6, UptoGrows
<1>8. Upto(b.hist, a, n).amount \in Int /\ a.amount \in Int
  BY <1>1, <1>4, UptoType DEF Account
<1>9. Upto(b.hist, a, n).amount \in Nat
  BY <1>6, <1>7, <1>8
<1>10. Earning(b, d) = a
  BY DEF Earning, a, n, from
<1> QED
  BY <1>4, <1>5, <1>7, <1>9, <1>10 DEF Claim, n, from

(* Other books, where the same periods that the delegation refers to are   *)
(* kept, and the same slashes.                                             *)
LEMMA SameEarning ==
  ASSUME NEW b, NEW L, Accounts(b, L), NEW d \in L, NEW c, IsHistory(c.hist),
         c.start[d] = b.start[d], Last(c) = Last(b),
         Alike(c.hist, b.hist, b.start[d], Slashes(b), Last(b)),
         SameSlashes(b.start[d], Slashes(b), Slashes(c), Last(b))
  PROVE  Earning(c, d) = Earning(b, d)
<1> DEFINE n == Last(b)
           from == b.start[d]
<1>1. /\ IsHistory(b.hist) /\ n \in Nat /\ from \in Start /\ Growing(b.hist)
      /\ Fits(b.hist, from, Slashes(b), n)
  BY BookFacts DEF Accounts
<1>2. n <= n
  BY <1>1
<1>3. Earned(c.hist, from, Slashes(c), n)[n] = Earned(b.hist, from, Slashes(b), n)[n]
  BY <1>1, <1>2, EarnedSame
<1> QED
  BY <1>3 DEF Earning

(* And in the next period, unless a slash ended the last one.              *)
LEMMA NextEarning ==
  ASSUME NEW b, NEW L, Accounts(b, L), NEW d \in L, NEW c, IsHistory(c.hist),
         c.start[d] = b.start[d], Last(c) = Last(b) + 1, Last(c) \notin Slashes(c),
         Alike(c.hist, b.hist, b.start[d], Slashes(b), Last(b)),
         SameSlashes(b.start[d], Slashes(b), Slashes(c), Last(b))
  PROVE  Earning(c, d) = Earning(b, d)
<1> DEFINE n == Last(b)
           from == b.start[d]
           w == Earned(c.hist, from, Slashes(c), n + 1)
<1>1. /\ IsHistory(b.hist) /\ n \in Nat /\ from \in Start /\ Growing(b.hist)
      /\ Fits(b.hist, from, Slashes(b), n) /\ from.period \in Nat /\ from.period <= n
  BY BookFacts DEF Accounts
<1> HIDE DEF n, from
<1>2. n <= n + 1 /\ n + 1 \in Nat /\ n + 1 \in 1 .. (n + 1) /\ (n + 1) - 1 = n
  BY <1>1
<1>3. w[n] = Earned(b.hist, from, Slashes(b), n)[n]
  BY <1>1, <1>2, EarnedSame DEF n, from
<1>4. \A i \in 1 .. (n + 1) : w[i] = Further(c.hist, from, Slashes(c), w[i - 1], i)
  BY <1>1, <1>2, EarnedIs
<1> HIDE DEF w
<1>5. w[n + 1] = Further(c.hist, from, Slashes(c), w[n], n + 1)
  BY <1>2, <1>4
<1>6. ~(n + 1 <= from.period) /\ n + 1 \notin Slashes(c)
  BY <1>1 DEF n
<1>7. w[n + 1] = w[n]
  BY <1>5, <1>6 DEF Further
<1>8. Earning(c, d) = w[n + 1]
  BY DEF Earning, w, n, from
<1>9. Earning(b, d) = Earned(b.hist, from, Slashes(b), n)[n]
  BY DEF Earning, n, from
<1> QED
  BY <1>3, <1>7, <1>8, <1>9

-----------------------------------------------------------------------------
(* Records of the history.                                                 *)

Dropped(h, p) ==
  IF h[p].ref = 1 THEN RestrictDomain(h, LAMBDA q : q # p)
  ELSE With(h, p, [h[p] EXCEPT !.ref = @ - 1])

Added(h, p) == With(h, p, [h[p] EXCEPT !.ref = @ + 1])

(* Writing one record (SetValidatorHistoricalRewards).                     *)
LEMMA ExtendedIs ==
  ASSUME NEW h, IsHistory(h), NEW p \in Nat, NEW r \in HistoryRecord
  PROVE  LET g == With(h, p, r)
         IN  /\ IsHistory(g) /\ DOMAIN g = DOMAIN h \cup {p}
             /\ g[p] = r
             /\ \A q \in DOMAIN h \ {p} : g[q] = h[q]
<1> DEFINE g == With(h, p, r)
<1>1. g = [q \in DOMAIN h \cup {p} |-> IF q = p THEN r ELSE h[q]]
  BY DEF With
<1> HIDE DEF g
<1>2. DOMAIN g = DOMAIN h \cup {p} /\ g[p] = r /\ \A q \in DOMAIN h \ {p} : g[q] = h[q]
  BY <1>1
<1>3. \A q \in DOMAIN g : g[q] \in HistoryRecord
  BY <1>2 DEF IsHistory
<1>4. DOMAIN g \subseteq Nat
  BY <1>2 DEF IsHistory
<1>5. g = [q \in DOMAIN g |-> g[q]]
  BY <1>1
<1>6. g \in [DOMAIN g -> HistoryRecord]
  BY <1>3, <1>5
<1> QED
  BY <1>2, <1>4, <1>6 DEF IsHistory, g

IsDropped(g, h, p) ==
  /\ IsHistory(g)
  /\ DOMAIN g = (IF h[p].ref = 1 THEN DOMAIN h \ {p} ELSE DOMAIN h)
  /\ \A q \in DOMAIN g : /\ g[q].ratio = h[q].ratio
                         /\ g[q].ref = h[q].ref - (IF q = p THEN 1 ELSE 0)

IsAdded(g, h, p) ==
  /\ IsHistory(g) /\ DOMAIN g = DOMAIN h
  /\ \A q \in DOMAIN g : /\ g[q].ratio = h[q].ratio
                         /\ g[q].ref = h[q].ref + (IF q = p THEN 1 ELSE 0)

(* One reference less (decrementReferenceCount): the last one deletes the  *)
(* record.                                                                 *)
LEMMA DroppedIs ==
  ASSUME NEW h, IsHistory(h), NEW p \in DOMAIN h, h[p].ref >= 1
  PROVE  IsDropped(Dropped(h, p), h, p)
<1> DEFINE g == Dropped(h, p)
<1>0. \A q \in DOMAIN h : h[q].ref \in Nat /\ h[q] \in HistoryRecord
  BY DEF IsHistory, HistoryRecord
<1>1. CASE h[p].ref = 1
  <2>1. g = [q \in DOMAIN h \ {p} |-> h[q]]
    <3>1. {q \in DOMAIN h : q # p} = DOMAIN h \ {p}
      OBVIOUS
    <3> QED
      BY <1>1, <3>1 DEF Dropped, RestrictDomain, Restrict
  <2> HIDE DEF g
  <2>2. DOMAIN g = DOMAIN h \ {p} /\ \A q \in DOMAIN g : q # p /\ g[q] = h[q]
    BY <2>1
  <2>3. IsHistory(g)
    BY <2>1 DEF IsHistory
  <2>4. \A q \in DOMAIN g : g[q].ref = h[q].ref - (IF q = p THEN 1 ELSE 0)
    BY <1>0, <2>2
  <2> QED
    BY <1>1, <2>2, <2>3, <2>4 DEF g, IsDropped
<1>2. CASE h[p].ref # 1
  <2> DEFINE r == [h[p] EXCEPT !.ref = @ - 1]
  <2>1. g = With(h, p, r)
    BY <1>2 DEF Dropped
  <2>2. h[p].ref - 1 \in Nat
    BY <1>0
  <2>3. r \in HistoryRecord /\ r.ratio = h[p].ratio /\ r.ref = h[p].ref - 1
    BY <1>0, <2>2 DEF HistoryRecord
  <2>4. p \in Nat
    BY DEF IsHistory
  <2> HIDE DEF r, g
  <2>5. /\ IsHistory(g) /\ DOMAIN g = DOMAIN h \cup {p} /\ g[p] = r
        /\ \A q \in DOMAIN h \ {p} : g[q] = h[q]
    BY <2>1, <2>3, <2>4, ExtendedIs
  <2>6. DOMAIN g = DOMAIN h
    BY <2>5
  <2>7. \A q \in DOMAIN g : g[q].ratio = h[q].ratio
    BY <2>3, <2>5, <2>6
  <2>8. \A q \in DOMAIN g : g[q].ref = h[q].ref - (IF q = p THEN 1 ELSE 0)
    BY <1>0, <2>3, <2>5, <2>6
  <2> QED
    BY <1>2, <2>5, <2>6, <2>7, <2>8 DEF g, IsDropped
<1> QED
  BY <1>1, <1>2

(* One reference more (incrementReferenceCount).                           *)
LEMMA AddedIs ==
  ASSUME NEW h, IsHistory(h), NEW p \in DOMAIN h
  PROVE  IsAdded(Added(h, p), h, p)
<1> DEFINE g == Added(h, p)
           r == [h[p] EXCEPT !.ref = @ + 1]
<1>0. \A q \in DOMAIN h : h[q].ref \in Nat /\ h[q] \in HistoryRecord
  BY DEF IsHistory, HistoryRecord
<1>1. g = With(h, p, r)
  BY DEF Added
<1>2. r \in HistoryRecord /\ r.ratio = h[p].ratio /\ r.ref = h[p].ref + 1
  BY <1>0 DEF HistoryRecord
<1>3. p \in Nat
  BY DEF IsHistory
<1> HIDE DEF r
<1>4. /\ IsHistory(g) /\ DOMAIN g = DOMAIN h \cup {p} /\ g[p] = r
      /\ \A q \in DOMAIN h \ {p} : g[q] = h[q]
  BY <1>1, <1>2, <1>3, ExtendedIs
<1> HIDE DEF g
<1>5. DOMAIN g = DOMAIN h
  BY <1>4
<1>6. \A q \in DOMAIN g : g[q].ratio = h[q].ratio
  BY <1>2, <1>4, <1>5
<1>7. \A q \in DOMAIN g : g[q].ref = h[q].ref + (IF q = p THEN 1 ELSE 0)
  BY <1>0, <1>2, <1>4, <1>5
<1> QED
  BY <1>4, <1>5, <1>6, <1>7 DEF g, IsAdded

(* Of a closed period the record is kept if somebody refers to it, and     *)
(* then by one reference.                                                  *)
ClosedHistory(b, q) ==
  With(Dropped(b.hist, Last(b)), Last(b) + 1,
       [ref |-> 1, ratio |-> At(b.hist, Last(b)).ratio + q])

IsClosed(g, b, L, q) ==
  /\ IsHistory(g) /\ DOMAIN g = Kept(b, L) \cup {Last(b) + 1}
  /\ Kept(b, L) \subseteq DOMAIN b.hist
  /\ Last(b) + 1 \notin Kept(b, L)
  /\ \A p \in Kept(b, L) : g[p].ref = 1 /\ g[p].ratio = b.hist[p].ratio
  /\ g[Last(b) + 1].ref = 1
  /\ g[Last(b) + 1].ratio = b.hist[Last(b)].ratio + q

(* The history after a period ended.                                       *)
LEMMA ClosedHistoryIs ==
  ASSUME NEW b, NEW L, Accounts(b, L), NEW q \in Nat
  PROVE  IsClosed(ClosedHistory(b, q), b, L, q)
<1> DEFINE g == ClosedHistory(b, q)
           n == Last(b)
           h == b.hist
           k == Dropped(h, n)
           r == [ref |-> 1, ratio |-> At(h, n).ratio + q]
           K == Kept(b, L)
<1>1. /\ IsHistory(h) /\ n \in Nat /\ n \in DOMAIN h
      /\ DOMAIN h = K \cup {n} /\ K \subseteq 0 .. n
  BY BookFacts DEF Accounts, Referred
<1>2. \A p \in DOMAIN h : h[p].ref = (IF p = n THEN 1 ELSE 0) + (IF p \in K THEN 1 ELSE 0)
  BY DEF Accounts, Referred
<1>3. g = With(k, n + 1, r)
  BY DEF ClosedHistory
<1>4. h[n].ratio \in Nat /\ At(h, n) = h[n]
  BY <1>1 DEF At, IsHistory, HistoryRecord
<1>5. r \in HistoryRecord /\ r.ref = 1 /\ r.ratio = h[n].ratio + q
  BY <1>4 DEF HistoryRecord
<1> HIDE DEF n, h, k, r, K, g
<1>6. h[n].ref >= 1 /\ (h[n].ref = 1 <=> n \notin K)
  BY <1>1, <1>2
<1>7. /\ IsHistory(k)
      /\ DOMAIN k = (IF h[n].ref = 1 THEN DOMAIN h \ {n} ELSE DOMAIN h)
      /\ \A p \in DOMAIN k : /\ k[p].ratio = h[p].ratio
                             /\ k[p].ref = h[p].ref - (IF p = n THEN 1 ELSE 0)
  BY <1>1, <1>6, DroppedIs DEF k, IsDropped
<1>8. DOMAIN k = K
  BY <1>1, <1>6, <1>7
<1> DEFINE m == n + 1
<1>9. m \in Nat /\ m \notin K /\ g = With(k, m, r)
  BY <1>1, <1>3
<1> HIDE DEF m
<1>10. /\ IsHistory(g) /\ DOMAIN g = DOMAIN k \cup {m} /\ g[m] = r
       /\ \A p \in DOMAIN k \ {m} : g[p] = k[p]
  <2>1. IsHistory(k) /\ r \in HistoryRecord
    BY <1>5, <1>7
  <2>2. /\ IsHistory(With(k, m, r)) /\ DOMAIN With(k, m, r) = DOMAIN k \cup {m}
        /\ With(k, m, r)[m] = r /\ \A p \in DOMAIN k \ {m} : With(k, m, r)[p] = k[p]
    BY <1>9, <2>1, ExtendedIs
  <2> QED
    BY <1>9, <2>2
<1>11. \A p \in K : k[p].ref = 1
  BY <1>1, <1>2, <1>7, <1>8
<1>12. \A p \in K : g[p] = k[p]
  BY <1>8, <1>9, <1>10
<1>13. \A p \in K : g[p].ref = 1 /\ g[p].ratio = h[p].ratio
  BY <1>7, <1>8, <1>11, <1>12
<1>14. K \subseteq DOMAIN h
  BY <1>1
<1> QED
  BY <1>5, <1>8, <1>9, <1>10, <1>13, <1>14 DEF m, n, h, K, g, IsClosed

-----------------------------------------------------------------------------
(* A period ends.                                                          *)

(* A calculation only reads periods that somebody refers to.               *)
LEMMA ReachedKept ==
  ASSUME NEW b, NEW L, NEW d \in L, NEW p, NEW n, Reached(b.start[d], Slashes(b), p, n)
  PROVE  p \in Kept(b, L)
BY DEF Reached, Kept, Starts

Closes(b, c, q) ==
  /\ c.hist = ClosedHistory(b, q)
  /\ c.cur = [period |-> b.cur.period + 1, rewards |-> 0]
  /\ c.comm = b.comm /\ c.events = b.events /\ c.start = b.start /\ c.stake = b.stake

(* The end of a period changes no reference but the validator's own.       *)
LEMMA ClosesKept ==
  ASSUME NEW b, NEW L, BookType(b, L), NEW c, NEW q, Closes(b, c, q)
  PROVE  /\ Kept(c, L) = Kept(b, L) /\ Slashes(c) = Slashes(b)
         /\ Last(c) = Last(b) + 1
<1>1. b.cur.period \in Nat
  BY DEF BookType
<1>2. Last(c) = Last(b) + 1
  BY <1>1 DEF Last, Closes
<1> QED
  BY <1>2 DEF Closes, Kept, Slashes, Starts

(* The books after the end of a period, except for the money.              *)
LEMMA ClosedAccounts ==
  ASSUME NEW b, NEW L, Accounts(b, L), NEW c, NEW q \in Nat, Closes(b, c, q), c.out \in Nat
  PROVE  Accounts(c, L) /\ Last(c) \notin Kept(c, L)
<1> DEFINE m == Last(b) + 1
           K == Kept(b, L)
           g == c.hist
           h == b.hist
<1>0. BookType(b, L) /\ Referred(b, L) /\ Growing(h)
  BY DEF Accounts
<1>1. /\ IsHistory(g) /\ DOMAIN g = K \cup {m} /\ K \subseteq DOMAIN h /\ m \notin K
      /\ \A p \in K : g[p].ref = 1 /\ g[p].ratio = h[p].ratio
      /\ g[m].ref = 1
      /\ g[m].ratio = h[Last(b)].ratio + q
  <2>1. g = ClosedHistory(b, q)
    BY DEF Closes
  <2>2. IsClosed(g, b, L, q)
    BY <2>1, ClosedHistoryIs
  <2> QED
    BY <2>2 DEF IsClosed
<1>2. Kept(c, L) = K /\ Slashes(c) = Slashes(b) /\ Last(c) = m
  BY <1>0, ClosesKept
<1>3. K \subseteq 0 .. Last(b) /\ Last(b) \in Nat /\ Last(b) \in DOMAIN h /\ IsHistory(h)
  BY <1>0, BookFacts DEF Referred
<1>4. c.start = b.start /\ c.events = b.events /\ c.stake = b.stake /\ c.comm = b.comm
  BY DEF Closes
<1>5. BookType(c, L)
  <2>1. c.cur \in [period : Nat \ {0}, rewards : Nat]
    <3>1. b.cur.period \in Nat
      BY <1>0 DEF BookType
    <3>2. b.cur.period + 1 \in Nat \ {0}
      BY <3>1
    <3> QED
      BY <3>2 DEF Closes
  <2>2. c.hist \in [DOMAIN c.hist -> HistoryRecord] /\ DOMAIN c.hist \subseteq Nat
    BY <1>1 DEF IsHistory
  <2>3. c.comm \in Nat /\ c.events \subseteq Event /\ IsFiniteSet(c.events)
    BY <1>0, <1>4 DEF BookType
  <2>4. /\ L \subseteq Delegator /\ c.stake \in [Delegator -> Nat]
        /\ \A d \in L : c.start[d] \in Start
    BY <1>0, <1>4 DEF BookType
  <2> HIDE DEF g
  <2> QED
    BY <2>1, <2>2, <2>3, <2>4 DEF BookType
<1>6. Referred(c, L)
  <2>1. Kept(c, L) \subseteq 0 .. Last(c)
    <3> HIDE DEF K, m
    <3>1. \A p \in 0 .. Last(b) : p \in 0 .. m
      BY <1>3 DEF m
    <3> QED
      BY <1>2, <1>3, <3>1
  <2>2. \A p \in DOMAIN g :
          g[p].ref = (IF p = m THEN 1 ELSE 0) + (IF p \in K THEN 1 ELSE 0)
    <3> HIDE DEF K, m, g, h
    <3> QED
      BY <1>1
  <2>3. /\ \A d \in L : c.start[d].period \notin Slashes(c)
        /\ \A d, k \in L : c.start[d].period = c.start[k].period => d = k
        /\ \A e, f \in c.events : e.period = f.period => e = f
    BY <1>0, <1>2, <1>4 DEF Referred
  <2> HIDE DEF K, m
  <2> QED
    BY <1>1, <1>2, <2>1, <2>2, <2>3 DEF Referred
<1>7. Growing(g)
  <2> SUFFICES ASSUME NEW p \in DOMAIN g, NEW r \in DOMAIN g, p <= r
               PROVE  g[p].ratio <= g[r].ratio
    BY DEF Growing
  <2>0. \A k \in DOMAIN h : h[k].ratio \in Nat
    BY <1>3 DEF IsHistory, HistoryRecord
  <2> HIDE DEF K, g, h
  <2>1. CASE r = m /\ p # m
    <3>1. p \in K
      BY <1>1, <2>1
    <3>2. p \in DOMAIN h /\ p <= Last(b) /\ g[p].ratio = h[p].ratio
      BY <1>1, <1>3, <3>1
    <3>3. h[p].ratio <= h[Last(b)].ratio
      BY <1>0, <1>3, <3>2 DEF Growing
    <3>4. g[r].ratio = h[Last(b)].ratio + q
      BY <1>1, <2>1
    <3> HIDE DEF m
    <3> QED
      BY <1>3, <2>0, <3>2, <3>3, <3>4
  <2>2. CASE r = m /\ p = m
    <3>1. g[m].ratio \in Nat
      BY <1>1, <1>3, <2>0
    <3> QED
      BY <2>2, <3>1
  <2>3. CASE r # m
    <3>1. r \in K /\ r \in 0 .. Last(b)
      BY <1>1, <1>3, <2>3
    <3>2. p # m /\ p \in K
      BY <1>1, <1>3, <3>1
    <3> HIDE DEF m
    <3> QED
      BY <1>0, <1>1, <3>1, <3>2 DEF Growing
  <2> QED
    BY <2>1, <2>2, <2>3
<1> QED
  BY <1>1, <1>2, <1>5, <1>6, <1>7 DEF Accounts

(* By the end of the period a delegation has earned by its stake.          *)
LEMMA ClosedClaim ==
  ASSUME NEW b, NEW L, Accounts(b, L), Whole(b, L),
         NEW c, NEW q \in Nat, Closes(b, c, q), c.out \in Nat, NEW d \in L
  PROVE  /\ Earning(c, d) = Earning(b, d)
         /\ b.stake[d] \in Nat
         /\ Claim(c, d) = Claim(b, d) + b.stake[d] * q
<1> DEFINE n == Last(b)
           m == n + 1
           K == Kept(b, L)
           g == c.hist
           h == b.hist
           a == Earning(b, d)
<1>0. BookType(b, L) /\ Referred(b, L) /\ Accounts(c, L)
  BY ClosedAccounts DEF Accounts
<1>1. /\ IsHistory(g) /\ DOMAIN g = K \cup {m} /\ K \subseteq DOMAIN h /\ m \notin K
      /\ \A p \in K : g[p].ref = 1 /\ g[p].ratio = h[p].ratio
      /\ g[m].ratio = h[n].ratio + q
  <2>1. g = ClosedHistory(b, q)
    BY DEF Closes
  <2>2. IsClosed(g, b, L, q)
    BY <2>1, ClosedHistoryIs
  <2> QED
    BY <2>2 DEF IsClosed
<1>2. Slashes(c) = Slashes(b) /\ Last(c) = m /\ c.start[d] = b.start[d]
  BY <1>0, ClosesKept DEF Closes
<1>3. n \in Nat /\ n \in DOMAIN h /\ IsHistory(h)
  BY <1>0, BookFacts
<1>4. Slashes(b) \subseteq K
  BY DEF Kept
<1>5. ASSUME NEW p \in K
      PROVE  At(g, p).ratio = At(h, p).ratio
  <2> HIDE DEF K, g, h
  <2> QED
    BY <1>1 DEF At
<1>6. Alike(g, h, b.start[d], Slashes(b), n)
  <2> SUFFICES ASSUME NEW p \in DOMAIN h, Reached(b.start[d], Slashes(b), p, n)
               PROVE  At(g, p).ratio = At(h, p).ratio
    BY DEF Alike
  <2> QED
    BY <1>5, ReachedKept
<1>7. SameSlashes(b.start[d], Slashes(b), Slashes(c), n)
  BY <1>2 DEF SameSlashes
<1>8. m \notin Slashes(c)
  BY <1>1, <1>2, <1>4
<1>9. Earning(c, d) = a
  <2>1. Last(c) \notin Slashes(c) /\ Last(c) = Last(b) + 1
    BY <1>2, <1>8
  <2>2. IsHistory(c.hist) /\ c.start[d] = b.start[d]
    BY <1>1, <1>2
  <2>3. /\ Alike(c.hist, b.hist, b.start[d], Slashes(b), Last(b))
        /\ SameSlashes(b.start[d], Slashes(b), Slashes(c), Last(b))
    BY <1>6, <1>7
  <2> QED
    BY <2>1, <2>2, <2>3, NextEarning
<1>10. a \in Account /\ Stands(h, b.start[d], Slashes(b), a, n)
  BY ClaimType
<1>11. a.period \in K
  <2>1. Reached(b.start[d], Slashes(b), a.period, n)
    BY <1>10 DEF Stands
  <2> QED
    BY <2>1, ReachedKept
<1>12. At(g, a.period).ratio = At(h, a.period).ratio /\ At(h, a.period).ratio \in Nat
  BY <1>3, <1>5, <1>11, AtType
<1>13. At(g, m).ratio = At(h, n).ratio + q /\ At(h, n).ratio \in Nat /\ At(g, m).ratio \in Nat
  <2>1. m \in DOMAIN g
    BY <1>1
  <2>2. At(g, m) = g[m] /\ At(h, n) = h[n]
    BY <1>3, <2>1 DEF At
  <2>3. At(h, n).ratio \in Nat /\ At(g, m).ratio \in Nat
    BY <1>1, <1>3, AtType
  <2> HIDE DEF g, h, m, n
  <2> QED
    BY <1>1, <2>2, <2>3
<1>14. Claim(b, d) = a.amount + a.stake * (At(h, n).ratio - At(h, a.period).ratio)
  BY <1>3, <1>10, UptoType DEF Claim
<1>15. Claim(c, d) = a.amount + a.stake * (At(g, m).ratio - At(g, a.period).ratio)
  <2>1. m \in Nat
    BY <1>3
  <2>2. Claim(c, d) = Upto(g, a, m).amount
    BY <1>2, <1>9 DEF Claim
  <2> HIDE DEF m, g, a
  <2> QED
    BY <1>1, <1>10, <2>1, <2>2, UptoType
<1>16. a.stake = b.stake[d] /\ a.stake \in Nat /\ a.amount \in Int
  BY <1>10 DEF Whole, Account
<1>17. Claim(c, d) = Claim(b, d) + b.stake[d] * q
  <2> DEFINE x == At(h, n).ratio
             y == At(h, a.period).ratio
             z == At(g, m).ratio
             k == a.stake
             o == a.amount
  <2>1. z = x + q /\ x \in Nat /\ y \in Nat /\ k \in Nat /\ o \in Int
    BY <1>12, <1>13, <1>16
  <2>2. Claim(b, d) = o + k * (x - y) /\ Claim(c, d) = o + k * (z - y)
    BY <1>12, <1>14, <1>15
  <2> HIDE DEF x, y, z, k, o
  <2>3. k * (z - y) = k * (x - y) + k * q
    BY <2>1
  <2>4. k * (x - y) \in Int /\ k * q \in Int
    BY <2>1
  <2>5. Claim(c, d) = Claim(b, d) + k * q
    BY <2>1, <2>2, <2>3, <2>4
  <2> QED
    BY <1>16, <2>5 DEF k
<1> QED
  BY <1>9, <1>16, <1>17

(* What all delegations together may claim is a number.                    *)
LEMMA ClaimsType ==
  ASSUME NEW b, NEW L, Accounts(b, L)
  PROVE  IsFiniteSet(L) /\ Claims(b, L) \in Nat
<1> DEFINE x == [d \in L |-> Claim(b, d)]
<1>1. IsFiniteSet(L)
  <2>1. L \subseteq Delegator /\ IsFiniteSet(Delegator)
    BY ExportAssumption DEF Accounts, BookType
  <2> QED
    BY <2>1, FS_Subset
<1>2. \A d \in L : x[d] \in Nat
  BY ClaimType
<1> HIDE DEF x
<1>3. SumOver(x, L) \in Nat
  BY <1>1, <1>2, SumNat
<1> QED
  BY <1>1, <1>3 DEF Claims, x

(* No claim alone is more than the outstanding rewards.                    *)
LEMMA ClaimFits ==
  ASSUME NEW b, NEW L, NEW h, Sound(b, L, h), NEW d \in L
  PROVE  Claim(b, d) \in Nat /\ Claim(b, d) <= b.out
<1> DEFINE x == [k \in L |-> Claim(b, k)]
<1>1. Accounts(b, L) /\ BookType(b, L) /\ Solvent(b, L)
  BY DEF Sound, Accounts
<1>2. IsFiniteSet(L)
  BY <1>1, ClaimsType
<1>3. (\A k \in L : x[k] \in Nat) /\ x[d] = Claim(b, d)
  BY <1>1, ClaimType
<1>4. SumOver(x, L) = Claims(b, L)
  BY DEF Claims
<1> HIDE DEF x
<1>5. \A k \in L : x[k] \in Int
  BY <1>3
<1>6. SumOver(x, L) = x[d] + SumOver(x, L \ {d})
  BY <1>2, <1>5, SumRemove
<1>7. SumOver(x, L \ {d}) \in Nat
  <2> DEFINE M == L \ {d}
  <2>1. IsFiniteSet(M) /\ \A k \in M : x[k] \in Nat
    BY <1>2, <1>3, FS_Subset
  <2> HIDE DEF M
  <2>2. SumOver(x, M) \in Nat
    BY <2>1, SumNat
  <2> QED
    BY <2>2 DEF M
<1>8. b.out >= b.comm + b.cur.rewards + Claims(b, L)
  BY <1>1 DEF Solvent
<1>9. b.out \in Nat /\ b.comm \in Nat /\ b.cur.rewards \in Nat /\ x[d] \in Nat
  BY <1>1, <1>3 DEF BookType
<1> QED
  BY <1>3, <1>4, <1>6, <1>7, <1>8, <1>9

(* The end of a period raises the claims by the ratio times the stake.     *)
LEMMA ClosedClaims ==
  ASSUME NEW b, NEW L, Accounts(b, L), Whole(b, L),
         NEW c, NEW q \in Nat, Closes(b, c, q), c.out \in Nat
  PROVE  /\ SumOver(b.stake, L) \in Nat
         /\ Claims(c, L) = Claims(b, L) + q * SumOver(b.stake, L)
<1> DEFINE x == [d \in L |-> Claim(b, d)]
           y == [d \in L |-> q * b.stake[d]]
           z == [d \in L |-> Claim(c, d)]
           k == b.stake
<1>1. IsFiniteSet(L) /\ Accounts(c, L)
  BY ClaimsType, ClosedAccounts
<1>2. \A d \in L : k[d] \in Nat
  BY ClosedClaim
<1>3. \A d \in L : Claim(b, d) \in Int
  <2>1. \A d \in L : Claim(b, d) \in Nat
    BY ClaimType
  <2> QED
    BY <2>1
<1>4. \A d \in L : Claim(c, d) = Claim(b, d) + k[d] * q
  BY ClosedClaim
<1> HIDE DEF k
<1>5. \A d \in L : k[d] \in Int /\ y[d] = q * k[d]
  BY <1>2 DEF k
<1>6. \A d \in L : x[d] \in Int /\ y[d] \in Int /\ z[d] = x[d] + y[d]
  <2> TAKE d \in L
  <2>1. k[d] \in Int /\ Claim(b, d) \in Int /\ k[d] * q = q * k[d] /\ q * k[d] \in Int
    BY <1>2, <1>3
  <2> QED
    BY <1>4, <1>5, <2>1
<1> HIDE DEF x, y, z
<1>7. SumOver(y, L) = q * SumOver(k, L)
  BY <1>1, <1>5, SumScaled
<1>8. SumOver(z, L) = SumOver(x, L) + SumOver(y, L)
  BY <1>1, <1>6, SumOfSums
<1>9. SumOver(k, L) \in Nat
  BY <1>1, <1>2, SumNat
<1>10. SumOver(z, L) = SumOver(x, L) + q * SumOver(k, L)
  BY <1>7, <1>8
<1> QED
  BY <1>9, <1>10 DEF Claims, x, z, k

(* Nobody's claim outgrows what there is, as long as the rewards are       *)
(* shared out rounded down.                                                *)
LEMMA ClosedSound ==
  ASSUME NEW b, NEW L, NEW h, Sound(b, L, h),
         NEW c, NEW q \in Nat, Closes(b, c, q),
         NEW given \in Nat, c.out = b.out - given,
         given + q * SumOver(b.stake, L) <= b.cur.rewards
  PROVE  Sound(c, L, h) /\ Last(c) \notin Kept(c, L)
<1> DEFINE k == SumOver(b.stake, L)
           r == b.cur.rewards
<1>0. /\ Accounts(b, L) /\ BookType(b, L) /\ Whole(b, L) /\ Solvent(b, L)
      /\ InTime(b, L, h)
  BY DEF Sound, Accounts
<1>1. Claims(b, L) \in Nat /\ IsFiniteSet(L)
  BY <1>0, ClaimsType
<1>2. r \in Nat /\ b.comm \in Nat /\ b.out \in Nat
  BY <1>0 DEF BookType
<1>3. k \in Nat
  <2>1. L \subseteq Delegator /\ b.stake \in [Delegator -> Nat]
    BY <1>0 DEF BookType
  <2>2. \A d \in L : b.stake[d] \in Nat
    BY <2>1
  <2> QED
    BY <1>1, <2>2, SumNat
<1>4. q * k \in Nat
  <2> HIDE DEF k
  <2>1. \A u, w \in Nat : u * w \in Nat
    OBVIOUS
  <2> QED
    BY <1>3, <2>1
<1>5. b.out >= b.comm + r + Claims(b, L)
  BY <1>0 DEF Solvent
<1> HIDE DEF r, k
<1>6. given + q * k <= r
  BY DEF r, k
<1>7. c.out >= b.comm + Claims(b, L) + q * k
  BY <1>1, <1>2, <1>4, <1>5, <1>6
<1>8. c.out \in Nat
  BY <1>1, <1>2, <1>4, <1>7
<1>9. Accounts(c, L) /\ Last(c) \notin Kept(c, L)
  BY <1>0, <1>8, ClosedAccounts
<1>10. Claims(c, L) = Claims(b, L) + q * k
  BY <1>0, <1>8, ClosedClaims DEF k
<1>11. c.comm = b.comm /\ c.cur.rewards = 0
  BY DEF Closes
<1>12. Solvent(c, L)
  BY <1>1, <1>2, <1>4, <1>7, <1>10, <1>11 DEF Solvent
<1>13. Whole(c, L)
  <2>1. \A d \in L : Earning(c, d) = Earning(b, d)
    BY <1>0, <1>8, ClosedClaim
  <2>2. c.stake = b.stake
    BY DEF Closes
  <2> QED
    BY <1>0, <2>1, <2>2 DEF Whole
<1>14. InTime(c, L, h)
  <2>1. c.start = b.start /\ c.events = b.events
    BY DEF Closes
  <2> QED
    BY <1>0, <2>1 DEF InTime
<1> QED
  BY <1>9, <1>12, <1>13, <1>14 DEF Sound, Accounts

-----------------------------------------------------------------------------
(* Rewards, claims and slashes in the books of one validator.              *)

(* What a delegation earns is the same in other books.                     *)
LEMMA SameClaim ==
  ASSUME NEW b, NEW L, Accounts(b, L), NEW d \in L, NEW c, IsHistory(c.hist),
         c.start[d] = b.start[d], Last(c) = Last(b), Slashes(c) = Slashes(b),
         At(c.hist, b.start[d].period).ratio = At(b.hist, b.start[d].period).ratio,
         At(c.hist, Last(b)).ratio = At(b.hist, Last(b)).ratio,
         \A p \in Slashes(b) : At(c.hist, p).ratio = At(b.hist, p).ratio
  PROVE  Earning(c, d) = Earning(b, d) /\ Claim(c, d) = Claim(b, d)
<1> DEFINE n == Last(b)
           from == b.start[d]
           a == Earning(b, d)
<1>1. \A p : Reached(from, Slashes(b), p, n) => At(c.hist, p).ratio = At(b.hist, p).ratio
  BY DEF Reached
<1>2. Alike(c.hist, b.hist, from, Slashes(b), n)
  BY <1>1 DEF Alike
<1>3. SameSlashes(from, Slashes(b), Slashes(c), n)
  BY DEF SameSlashes
<1>4. Earning(c, d) = a
  BY <1>2, <1>3, SameEarning
<1>5. Reached(from, Slashes(b), a.period, n)
  BY ClaimType DEF Stands
<1> HIDE DEF a
<1>6. Upto(c.hist, a, n) = Upto(b.hist, a, n)
  BY <1>1, <1>5 DEF Upto
<1> QED
  BY <1>4, <1>6 DEF Claim, a

(* A delegation is paid out and forgotten.                                 *)
SameDelegations(b, c, L) == \A k \in L : c.start[k] = b.start[k] /\ c.stake[k] = b.stake[k]

IsPaid(b, c, L, d, paid) ==
  /\ c.hist = Dropped(b.hist, b.start[d].period)
  /\ c.cur = b.cur /\ c.comm = b.comm /\ c.events = b.events /\ c.out = b.out - paid
  /\ SameDelegations(b, c, L \ {d}) /\ c.stake \in [Delegator -> Nat]

(* The books without a delegation that was paid at most what it claimed.   *)
LEMMA RemovedSound ==
  ASSUME NEW b, NEW L, NEW h, Sound(b, L, h), Last(b) \notin Kept(b, L), NEW d \in L,
         NEW paid \in Nat, paid <= Claim(b, d), NEW c, IsPaid(b, c, L, d, paid)
  PROVE  /\ Sound(c, L \ {d}, h) /\ Last(c) \notin Kept(c, L \ {d})
         /\ \A k \in L \ {d} : Claim(c, k) = Claim(b, k)
<1>c. /\ c.hist = Dropped(b.hist, b.start[d].period)
      /\ c.cur = b.cur /\ c.comm = b.comm /\ c.events = b.events /\ c.out = b.out - paid
      /\ SameDelegations(b, c, L \ {d}) /\ c.stake \in [Delegator -> Nat]
  BY DEF IsPaid
<1> USE <1>c
<1> DEFINE p == b.start[d].period
           M == L \ {d}
           n == Last(b)
           g == c.hist
           f == b.hist
<1>0. /\ Accounts(b, L) /\ BookType(b, L) /\ Referred(b, L) /\ Growing(f)
      /\ Whole(b, L) /\ Solvent(b, L) /\ InTime(b, L, h)
  BY DEF Sound, Accounts
<1>a. \A k \in M : c.start[k] = b.start[k] /\ c.stake[k] = b.stake[k]
  BY DEF SameDelegations
<1> USE <1>a
<1>1. /\ IsHistory(f) /\ n \in Nat /\ n \in DOMAIN f /\ p \in Nat
      /\ p \in DOMAIN f /\ DOMAIN f = Kept(b, L) \cup {n} /\ Kept(b, L) \subseteq 0 .. n
      /\ \A r \in DOMAIN f : f[r].ref = (IF r = n THEN 1 ELSE 0)
                                          + (IF r \in Kept(b, L) THEN 1 ELSE 0)
  BY <1>0, BookFacts DEF Referred
<1>2. p \in Kept(b, L) /\ p # n /\ p \notin Slashes(b)
  BY <1>0 DEF Kept, Starts, Referred
<1>3. f[p].ref = 1
  BY <1>1, <1>2
<1>4. /\ IsHistory(g) /\ DOMAIN g = DOMAIN f \ {p}
      /\ \A r \in DOMAIN g : /\ g[r].ratio = f[r].ratio
                             /\ g[r].ref = f[r].ref - (IF r = p THEN 1 ELSE 0)
  <2>1. f[p].ref >= 1 /\ g = Dropped(f, p)
    BY <1>3
  <2> HIDE DEF g, f, p
  <2>2. IsDropped(g, f, p)
    BY <1>1, <2>1, DroppedIs
  <2> QED
    BY <1>3, <2>2 DEF IsDropped
<1>5. Last(c) = n /\ Slashes(c) = Slashes(b)
  BY DEF Last, Slashes
<1>6. Kept(c, M) = Kept(b, L) \ {p}
  <2>1. \A k \in M : c.start[k].period = b.start[k].period /\ b.start[k].period # p
    BY <1>0 DEF Referred
  <2>2. Starts(c, M) = Starts(b, L) \ {p}
    BY <2>1 DEF Starts
  <2> QED
    BY <1>2, <1>5, <2>2 DEF Kept
<1>7. Last(c) \notin Kept(c, M)
  BY <1>5, <1>6
<1>8. ASSUME NEW k \in M
      PROVE  Earning(c, k) = Earning(b, k) /\ Claim(c, k) = Claim(b, k)
  <2>1. ASSUME NEW r \in DOMAIN g
        PROVE  At(g, r).ratio = At(f, r).ratio
    <3> HIDE DEF g, f
    <3> QED
      BY <1>4 DEF At
  <2>2. b.start[k].period \in Kept(c, M)
    BY DEF Kept, Starts
  <2>3. DOMAIN g = Kept(c, M) \cup {n}
    BY <1>1, <1>2, <1>4, <1>6
  <2>4. /\ At(g, b.start[k].period).ratio = At(f, b.start[k].period).ratio
        /\ At(g, n).ratio = At(f, n).ratio
    BY <2>1, <2>2, <2>3
  <2>5. \A r \in Slashes(b) : At(g, r).ratio = At(f, r).ratio
    <3>1. Slashes(b) \subseteq Kept(c, M)
      BY <1>5 DEF Kept
    <3> QED
      BY <2>1, <2>3, <3>1
  <2>6. k \in L /\ c.start[k] = b.start[k]
    OBVIOUS
  <2> QED
    BY <1>0, <1>4, <1>5, <2>4, <2>5, <2>6, SameClaim
<1>9. Claims(b, L) = Claims(c, M) + Claim(b, d) /\ Claims(c, M) \in Int
  <2> DEFINE x == [k \in L |-> Claim(b, k)]
             y == [k \in M |-> Claim(c, k)]
  <2>1. IsFiniteSet(L)
    BY <1>0, ClaimsType
  <2>2. \A k \in L : x[k] \in Nat
    BY <1>0, ClaimType
  <2>3. \A k \in L : x[k] \in Int
    BY <2>2
  <2>4. \A k \in M : y[k] = x[k]
    BY <1>8
  <2>5. IsFiniteSet(M)
    BY <2>1, FS_Subset
  <2>6. x[d] = Claim(b, d)
    OBVIOUS
  <2> HIDE DEF x, y
  <2>7. SumOver(x, L) = x[d] + SumOver(x, M) /\ SumOver(x, M) \in Int
    BY <2>1, <2>3, SumRemove
  <2>8. SumOver(y, M) = SumOver(x, M)
    <3>1. \A k \in M : x[k] \in Int
      BY <2>3
    <3> HIDE DEF M
    <3> QED
      BY <2>4, <2>5, <3>1, SumSame
  <2>9. x[d] \in Int
    BY <2>3
  <2>10. SumOver(x, L) = SumOver(y, M) + x[d] /\ SumOver(y, M) \in Int
    BY <2>7, <2>8, <2>9
  <2> QED
    BY <2>6, <2>10 DEF Claims, x, y
<1>10. Claim(b, d) \in Nat
  BY <1>0, ClaimType
<1>11. /\ c.comm \in Nat /\ c.cur.rewards \in Nat /\ b.out \in Nat
       /\ c.comm = b.comm /\ c.cur.rewards = b.cur.rewards
  BY <1>0 DEF BookType
<1>12. c.out >= c.comm + c.cur.rewards + Claims(c, M)
  <2>1. b.out >= b.comm + b.cur.rewards + Claims(b, L)
    BY <1>0 DEF Solvent
  <2> QED
    BY <1>9, <1>10, <1>11, <2>1
<1>13. c.out \in Int
  BY <1>11
<1>14. ASSUME c.out \in Nat
       PROVE  Sound(c, M, h)
  <2>1. BookType(c, M)
    <3>1. c.hist \in [DOMAIN c.hist -> HistoryRecord] /\ DOMAIN c.hist \subseteq Nat
      BY <1>4 DEF IsHistory
    <3>2. c.cur \in [period : Nat \ {0}, rewards : Nat]
      BY <1>0 DEF BookType
    <3>3. c.events \subseteq Event /\ IsFiniteSet(c.events)
      BY <1>0 DEF BookType
    <3>4. M \subseteq Delegator /\ \A k \in M : c.start[k] \in Start
      BY <1>0 DEF BookType
    <3> HIDE DEF M
    <3> QED
      BY <1>11, <1>14, <3>1, <3>2, <3>3, <3>4 DEF BookType
  <2>2. Referred(c, M)
    <3>1. Kept(c, M) \subseteq 0 .. Last(c)
      BY <1>1, <1>5, <1>6
    <3>2. \A r \in DOMAIN g :
            g[r].ref = (IF r = n THEN 1 ELSE 0) + (IF r \in Kept(c, M) THEN 1 ELSE 0)
      <4> HIDE DEF p, M, n, g, f
      <4>1. \A r \in DOMAIN g : r # p /\ r \in DOMAIN f /\ f[r].ref \in Nat
        BY <1>1, <1>4 DEF IsHistory, HistoryRecord
      <4>2. \A r \in DOMAIN g : g[r].ref = f[r].ref
        BY <1>4, <4>1
      <4>3. \A r \in DOMAIN g : r \in Kept(c, M) <=> r \in Kept(b, L)
        BY <1>6, <4>1
      <4> QED
        BY <1>1, <4>1, <4>2, <4>3
    <3>3. /\ \A k \in M : c.start[k].period \notin Slashes(c)
          /\ \A k, i \in M : c.start[k].period = c.start[i].period => k = i
          /\ \A e, i \in c.events : e.period = i.period => e = i
      BY <1>0, <1>5 DEF Referred
    <3>4. DOMAIN g = Kept(c, M) \cup {Last(c)}
      BY <1>1, <1>2, <1>4, <1>5, <1>6
    <3> HIDE DEF M, n
    <3> QED
      BY <1>5, <3>1, <3>2, <3>3, <3>4 DEF Referred
  <2>3. Growing(g)
    <3> HIDE DEF g, f, p
    <3> QED
      BY <1>0, <1>4 DEF Growing
  <2>4. InTime(c, M, h)
    BY <1>0 DEF InTime
  <2>5. Whole(c, M)
    BY <1>0, <1>8 DEF Whole
  <2>6. Solvent(c, M)
    BY <1>12 DEF Solvent
  <2> QED
    BY <2>1, <2>2, <2>3, <2>4, <2>5, <2>6 DEF Sound
<1>15. Claims(c, M) >= 0
  <2> DEFINE y == [k \in M |-> Claim(c, k)]
  <2>1. IsFiniteSet(M)
    <3>1. IsFiniteSet(L)
      BY <1>0, ClaimsType
    <3> QED
      BY <3>1, FS_Subset
  <2>2. \A k \in M : y[k] \in Nat
    <3>1. \A k \in L : Claim(b, k) \in Nat
      BY <1>0, ClaimType
    <3> QED
      BY <1>8, <3>1
  <2> HIDE DEF M, y
  <2>3. SumOver(y, M) \in Nat
    BY <2>1, <2>2, SumNat
  <2>4. Claims(c, M) = SumOver(y, M)
    BY DEF Claims, y
  <2> QED
    BY <2>3, <2>4
<1>16. c.out \in Nat
  BY <1>9, <1>11, <1>12, <1>13, <1>15
<1> QED
  BY <1>7, <1>8, <1>14, <1>16

(* A delegation that starts has earned nothing.                            *)
LEMMA NewClaim ==
  ASSUME NEW c, IsHistory(c.hist), NEW d, c.start[d] \in Start,
         c.start[d].period = Last(c), Last(c) \in Nat
  PROVE  Earning(c, d) = Nothing(c.start[d]) /\ Claim(c, d) = 0
<1> DEFINE n == Last(c)
           from == c.start[d]
           w == Earned(c.hist, from, Slashes(c), n)
           a == Nothing(from)
<1>1. w[0] = a /\ \A i \in 1 .. n : w[i] = Further(c.hist, from, Slashes(c), w[i - 1], i)
  BY EarnedIs
<1> HIDE DEF w
<1>2. w[n] = a
  <2>1. CASE n = 0
    BY <1>1, <2>1
  <2>2. CASE n # 0
    <3>1. n \in 1 .. n /\ n <= from.period
      BY <2>2
    <3>2. w[n] = Further(c.hist, from, Slashes(c), w[n - 1], n)
      BY <1>1, <3>1
    <3> QED
      BY <3>1, <3>2 DEF Further
  <2> QED
    BY <2>1, <2>2
<1>3. Earning(c, d) = a
  BY <1>2 DEF Earning, w
<1>4. a \in Account /\ a.amount = 0 /\ a.period = n
  BY NothingType DEF Nothing
<1> HIDE DEF a
<1>5. Upto(c.hist, a, n).amount
        = a.amount + a.stake * (At(c.hist, n).ratio - At(c.hist, a.period).ratio)
  BY <1>4, UptoType
<1>6. At(c.hist, n).ratio \in Nat /\ a.stake \in Nat
  BY <1>4, AtType DEF Account
<1>7. a.stake * (At(c.hist, n).ratio - At(c.hist, a.period).ratio) = 0
  BY <1>4, <1>6
<1>8. Claim(c, d) = 0
  BY <1>3, <1>4, <1>5, <1>7 DEF Claim
<1> QED
  BY <1>3, <1>8 DEF a

(* A reference more to the period just closed, of a new delegation or of a *)
(* slash; the records keep what they say.                                  *)
HasReference(g, b, L) ==
  /\ IsHistory(g) /\ DOMAIN g = Kept(b, L) \cup {Last(b)} /\ Growing(g)
  /\ \A p : At(g, p).ratio = At(b.hist, p).ratio
  /\ \A p \in DOMAIN g : g[p].ref = (IF p = Last(b) THEN 1 ELSE 0) + 1

(* The history after the current period got its second reference.          *)
LEMMA AddedFacts ==
  ASSUME NEW b, NEW L, Accounts(b, L), Last(b) \notin Kept(b, L)
  PROVE  HasReference(Added(b.hist, Last(b)), b, L)
<1> DEFINE n == Last(b)
           f == b.hist
           K == Kept(b, L)
           g == Added(f, n)
<1>1. /\ IsHistory(f) /\ n \in Nat /\ n \in DOMAIN f
      /\ DOMAIN f = K \cup {n} /\ Growing(f)
      /\ \A r \in DOMAIN f : f[r].ref = (IF r = n THEN 1 ELSE 0) + (IF r \in K THEN 1 ELSE 0)
  BY BookFacts DEF Accounts, Referred
<1> HIDE DEF n, f, K
<1>2. IsAdded(g, f, n)
  BY <1>1, AddedIs
<1> HIDE DEF g
<1>3. IsHistory(g) /\ DOMAIN g = K \cup {n}
  BY <1>1, <1>2 DEF IsAdded
<1>4. Growing(g)
  BY <1>1, <1>2 DEF IsAdded, Growing
<1>5. \A p : At(g, p).ratio = At(f, p).ratio
  BY <1>2 DEF IsAdded, At
<1>6. n \notin K
  BY DEF n, K
<1>7. ASSUME NEW p \in DOMAIN g
      PROVE  g[p].ref = (IF p = n THEN 1 ELSE 0) + 1
  <2>1. g[p].ref = f[p].ref + (IF p = n THEN 1 ELSE 0) /\ p \in DOMAIN f
    BY <1>2 DEF IsAdded
  <2>2. CASE p = n
    <3>1. f[p].ref = 1
      BY <1>1, <1>6, <2>1, <2>2
    <3> QED
      BY <2>1, <2>2, <3>1
  <2>3. CASE p # n
    <3>1. f[p].ref = 1
      BY <1>1, <2>1, <2>3
    <3> QED
      BY <2>1, <2>3, <3>1
  <2> QED
    BY <2>2, <2>3
<1> QED
  BY <1>3, <1>4, <1>5, <1>7 DEF n, f, K, g, HasReference

(* A delegation starts in the period after the one just closed.            *)
LEMMA JoinedSound ==
  ASSUME NEW b, NEW L, NEW h \in Nat, Sound(b, L, h), Last(b) \notin Kept(b, L),
         NEW d \in Delegator \ L, NEW c,
         c.hist = Added(b.hist, Last(b)),
         c.cur = b.cur, c.comm = b.comm, c.events = b.events, c.out = b.out,
         SameDelegations(b, c, L),
         c.stake \in [Delegator -> Nat],
         c.start[d] = [period |-> Last(b), stake |-> c.stake[d], height |-> h]
  PROVE  Sound(c, L \cup {d}, h) /\ \A k \in L : Claim(c, k) = Claim(b, k)
<1> DEFINE M == L \cup {d}
           n == Last(b)
           g == c.hist
           K == Kept(b, L)
<1>0. /\ Accounts(b, L) /\ BookType(b, L) /\ Referred(b, L)
      /\ Whole(b, L) /\ Solvent(b, L) /\ InTime(b, L, h)
  BY DEF Sound, Accounts
<1>a. \A k \in L : c.start[k] = b.start[k] /\ c.stake[k] = b.stake[k]
  BY DEF SameDelegations
<1> USE <1>a
<1>1. /\ IsHistory(g) /\ DOMAIN g = K \cup {n} /\ Growing(g)
      /\ \A p : At(g, p).ratio = At(b.hist, p).ratio
      /\ \A p \in DOMAIN g : g[p].ref = (IF p = n THEN 1 ELSE 0) + 1
  <2>1. HasReference(g, b, L)
    BY <1>0, AddedFacts
  <2> HIDE DEF g
  <2> QED
    BY <2>1 DEF HasReference
<1>2. n \in Nat /\ K \subseteq 0 .. n /\ Slashes(b) \subseteq K
  BY <1>0, BookFacts DEF Referred, Kept
<1>3. Last(c) = n /\ Slashes(c) = Slashes(b)
  BY DEF Last, Slashes
<1>4. c.start[d].period = n /\ c.start[d] \in Start /\ c.start[d].stake = c.stake[d]
  <2>1. c.stake[d] \in Nat
    OBVIOUS
  <2> QED
    BY <1>2, <2>1 DEF Start
<1>5. \A k \in L : b.start[k].period \in K
  BY DEF Kept, Starts
<1>6. Kept(c, M) = K \cup {n}
  <2>1. Starts(c, M) = Starts(b, L) \cup {n}
    <3> HIDE DEF n
    <3> QED
      BY <1>4 DEF Starts
  <2> QED
    BY <1>3, <2>1 DEF Kept
<1>7. ASSUME NEW k \in L
      PROVE  Earning(c, k) = Earning(b, k) /\ Claim(c, k) = Claim(b, k)
  BY <1>0, <1>1, <1>3, SameClaim
<1>8. Earning(c, d) = Nothing(c.start[d]) /\ Claim(c, d) = 0
  BY <1>1, <1>2, <1>3, <1>4, NewClaim
<1>9. Claims(c, M) = Claims(b, L)
  <2> DEFINE x == [k \in L |-> Claim(b, k)]
             y == [k \in M |-> Claim(c, k)]
  <2>1. IsFiniteSet(L) /\ d \notin L
    BY <1>0, ClaimsType
  <2>2. \A k \in L : x[k] \in Nat
    BY <1>0, ClaimType
  <2>3. \A k \in L : x[k] \in Int
    BY <2>2
  <2>4. \A k \in L : y[k] = x[k]
    BY <1>7
  <2>5. y[d] = 0
    BY <1>8
  <2> HIDE DEF x, y
  <2>6. \A k \in L \cup {d} : y[k] \in Int
    BY <2>3, <2>4, <2>5
  <2>7. SumOver(y, L \cup {d}) = y[d] + SumOver(y, L)
    BY <2>1, <2>6, SumAdd
  <2>8. SumOver(y, L) = SumOver(x, L)
    BY <2>1, <2>3, <2>4, SumSame
  <2>9. SumOver(x, L) \in Int
    BY <2>1, <2>3, SumType
  <2>10. SumOver(y, M) = SumOver(x, L)
    BY <2>5, <2>7, <2>8, <2>9
  <2> QED
    BY <2>10 DEF Claims, x, y
<1>10. BookType(c, M)
  <2>1. c.hist \in [DOMAIN c.hist -> HistoryRecord] /\ DOMAIN c.hist \subseteq Nat
    BY <1>1 DEF IsHistory
  <2>2. c.cur \in [period : Nat \ {0}, rewards : Nat] /\ c.out \in Nat /\ c.comm \in Nat
    BY <1>0 DEF BookType
  <2>3. c.events \subseteq Event /\ IsFiniteSet(c.events)
    BY <1>0 DEF BookType
  <2>4. M \subseteq Delegator /\ \A k \in M : c.start[k] \in Start
    BY <1>0, <1>4 DEF BookType
  <2>5. c.stake \in [Delegator -> Nat]
    OBVIOUS
  <2> HIDE DEF M, n, g, K
  <2> QED
    BY <2>1, <2>2, <2>3, <2>4, <2>5 DEF BookType
<1>11. Referred(c, M)
  <2>1. Kept(c, M) \subseteq 0 .. Last(c)
    <3>1. n \in 0 .. n
      BY <1>2
    <3> HIDE DEF K, M, n
    <3> QED
      BY <1>2, <1>3, <1>6, <3>1
  <2>2. \A p \in DOMAIN g :
          g[p].ref = (IF p = n THEN 1 ELSE 0) + (IF p \in Kept(c, M) THEN 1 ELSE 0)
    <3> HIDE DEF n, K, g, M
    <3>1. \A p \in DOMAIN g : p \in Kept(c, M)
      BY <1>1, <1>6
    <3> QED
      BY <1>1, <3>1
  <2>3. \A k \in M : c.start[k].period \notin Slashes(c)
    <3>1. n \notin Slashes(b)
      BY <1>2
    <3> QED
      BY <1>0, <1>3, <1>4, <3>1 DEF Referred
  <2>4. \A k, i \in M : c.start[k].period = c.start[i].period => k = i
    <3>1. \A k \in L : c.start[k].period # n
      BY <1>5
    <3>2. \A k, i \in L : c.start[k].period = c.start[i].period => k = i
      BY <1>0 DEF Referred
    <3> HIDE DEF n
    <3> QED
      BY <1>4, <3>1, <3>2
  <2>5. \A e, i \in c.events : e.period = i.period => e = i
    BY <1>0 DEF Referred
  <2>6. DOMAIN g = Kept(c, M) \cup {Last(c)}
    BY <1>1, <1>3, <1>6
  <2> HIDE DEF M, n
  <2> QED
    BY <1>3, <2>1, <2>2, <2>3, <2>4, <2>5, <2>6 DEF Referred
<1>12. InTime(c, M, h)
  <2>1. \A k \in M : c.start[k].height <= h
    <3>1. c.start[d].height = h
      OBVIOUS
    <3> QED
      BY <1>0, <3>1 DEF InTime
  <2>2. \A e \in c.events : e.height <= h
    BY <1>0 DEF InTime
  <2>3. ASSUME NEW k \in M, NEW e \in c.events, e.period > c.start[k].period
        PROVE  c.start[k].height <= e.height
    <3>1. CASE k \in L
      BY <1>0, <2>3, <3>1 DEF InTime
    <3>2. CASE k = d
      <4>1. e.period \in Slashes(b)
        BY DEF Slashes
      <4>2. e.period \in 0 .. n
        BY <1>2, <4>1
      <4> HIDE DEF n
      <4> QED
        BY <1>2, <1>4, <2>3, <3>2, <4>2
    <3> QED
      BY <3>1, <3>2
  <2> HIDE DEF M
  <2> QED
    BY <2>1, <2>2, <2>3 DEF InTime
<1>13. Whole(c, M)
  <2>1. \A k \in L : Earning(c, k).stake = c.stake[k]
    BY <1>0, <1>7 DEF Whole
  <2>2. Earning(c, d).stake = c.stake[d]
    BY <1>4, <1>8 DEF Nothing
  <2> QED
    BY <2>1, <2>2 DEF Whole
<1>14. Solvent(c, M)
  BY <1>0, <1>9 DEF Solvent
<1> QED
  BY <1>1, <1>7, <1>10, <1>11, <1>12, <1>13, <1>14 DEF Sound

(* A slash ends the period: what was earned stays, the stake is halved.    *)
IsSlash(b, c, h) ==
  /\ c.hist = Added(b.hist, Last(b))
  /\ c.cur = b.cur /\ c.comm = b.comm /\ c.out = b.out /\ c.start = b.start
  /\ c.events = b.events \cup {[height |-> h, period |-> Last(b)]}
  /\ c.stake \in [Delegator -> Nat]

(* A slash halves what a delegation earns by from now on, not what it has  *)
(* earned.                                                                 *)
LEMMA SlashedEarning ==
  ASSUME NEW b, NEW L, Accounts(b, L), Last(b) \notin Kept(b, L), NEW h,
         NEW c, IsSlash(b, c, h), NEW d \in L
  PROVE  /\ Earning(c, d).stake = Earning(b, d).stake \div 2
         /\ Claim(c, d) = Claim(b, d)
<1> DEFINE n == Last(b)
           m == n - 1
           from == b.start[d]
           f == b.hist
           g == c.hist
           S == Slashes(b)
           T == Slashes(c)
           a == Earning(b, d)
           w == Earned(f, from, S, n)
           u == Earned(g, from, T, n)
           v == Earned(f, from, S, m)
<1>0. BookType(b, L) /\ Referred(b, L) /\ Growing(f)
  BY DEF Accounts
<1>1. /\ IsHistory(g) /\ Growing(g) /\ \A p : At(g, p).ratio = At(f, p).ratio
  <2>1. HasReference(g, b, L)
    BY AddedFacts DEF IsSlash
  <2> QED
    BY <2>1 DEF HasReference
<1>2. /\ IsHistory(f) /\ n \in Nat /\ from \in Start /\ from.period \in Nat
      /\ from.period <= n /\ Fits(f, from, S, n)
  BY <1>0, BookFacts
<1>3. from.period \in Kept(b, L) /\ S \subseteq Kept(b, L)
  BY DEF Kept, Starts
<1>4. from.period # n /\ n \notin S /\ from.period < n /\ n \in 1 .. n /\ m \in Nat /\ m <= n
  BY <1>2, <1>3
<1>5. Last(c) = n /\ T = S \cup {n} /\ c.start[d] = from
  <2>1. c.events = b.events \cup {[height |-> h, period |-> n]}
    BY DEF IsSlash
  <2>2. Last(c) = n /\ c.start[d] = from
    BY DEF IsSlash, Last
  <2> HIDE DEF n
  <2>3. Slashes(c) = Slashes(b) \cup {n}
    <3>1. [height |-> h, period |-> n].period = n
      OBVIOUS
    <3> DEFINE e0 == [height |-> h, period |-> n]
    <3> HIDE DEF e0
    <3>2. c.events = b.events \cup {e0} /\ e0.period = n
      BY <2>1 DEF e0
    <3> QED
      BY <3>2 DEF Slashes
  <2> QED
    BY <2>2, <2>3
<1>6. Fits(f, from, S, m)
  <2>1. \A p \in Nat : p <= m => p <= n
    BY <1>2
  <2>2. \A p \in S : p \in Nat
    BY <1>0, BookFacts
  <2> HIDE DEF n, m, from, f, S
  <2> QED
    BY <1>2, <2>1, <2>2 DEF Fits
<1>7. SameSlashes(from, S, T, m) /\ SameSlashes(from, S, S, m)
  <2>1. \A p \in 0 .. m : p # n
    BY <1>2
  <2> HIDE DEF n, from, S, T, m
  <2> QED
    BY <1>5, <2>1 DEF SameSlashes
<1>8. Alike(g, f, from, S, m) /\ Alike(f, f, from, S, m)
  BY <1>1 DEF Alike
<1> HIDE DEF m, n, from, f, g, S, T
<1>9. u[m] = v[m]
  BY <1>0, <1>1, <1>2, <1>4, <1>6, <1>7, <1>8, EarnedSame
<1>10. w[m] = v[m]
  BY <1>0, <1>2, <1>4, <1>6, <1>7, <1>8, EarnedSame
<1>11. u[n] = Further(g, from, T, u[m], n)
  <2>1. \A i \in 1 .. n : u[i] = Further(g, from, T, u[i - 1], i)
    BY <1>1, <1>2, EarnedIs
  <2> QED
    BY <1>4, <2>1 DEF m
<1>12. w[n] = Further(f, from, S, w[m], n)
  <2>1. \A i \in 1 .. n : w[i] = Further(f, from, S, w[i - 1], i)
    BY <1>2, EarnedIs
  <2> QED
    BY <1>4, <2>1 DEF m
<1>13. w[n] = w[m]
  <2> HIDE DEF w
  <2> QED
    BY <1>2, <1>4, <1>12 DEF Further
<1>14. a = w[n] /\ Earning(c, d) = u[n]
  BY <1>5 DEF Earning, a, w, u, n, from, f, g, S, T
<1>15. a \in Account
  BY ClaimType
<1> HIDE DEF u, w, v, a
<1>16. u[n] = [Upto(g, a, n) EXCEPT !.stake = @ \div 2]
  <2>1. u[m] = a
    BY <1>9, <1>10, <1>13, <1>14
  <2>2. ~(n <= from.period) /\ n \in T
    BY <1>2, <1>4, <1>5
  <2> QED
    BY <1>11, <2>1, <2>2 DEF Further
<1> DEFINE x == Upto(g, a, n)
           y == [x EXCEPT !.stake = @ \div 2]
<1>17. /\ x \in Account /\ x.stake = a.stake /\ x.period = n
       /\ x.amount = a.amount + a.stake * (At(g, n).ratio - At(g, a.period).ratio)
  BY <1>1, <1>2, <1>15, UptoType
<1>18. Claim(b, d) = x.amount
  <2>1. Claim(b, d) = Upto(f, a, n).amount
    BY DEF Claim, a, n, f
  <2>2. Upto(f, a, n).amount
          = a.amount + a.stake * (At(f, n).ratio - At(f, a.period).ratio)
    BY <1>2, <1>15, UptoType
  <2> HIDE DEF x
  <2> QED
    BY <1>1, <1>17, <2>1, <2>2
<1>19. Earning(c, d) = y
  BY <1>14, <1>16
<1>20. y \in Account
  <2> HIDE DEF x
  <2> QED
    BY <1>17, HalfType
<1> HIDE DEF x
<1>21. y.amount = x.amount /\ y.period = x.period /\ y.stake = x.stake \div 2
  BY <1>17 DEF Account
<1> HIDE DEF y
<1>22. Claim(c, d) = Upto(g, y, n).amount
  BY <1>5, <1>19 DEF Claim, g
<1>23. Upto(g, y, n).amount = y.amount + y.stake * (At(g, n).ratio - At(g, y.period).ratio)
  BY <1>1, <1>2, <1>20, UptoType
<1>24. y.stake * (At(g, n).ratio - At(g, y.period).ratio) = 0 /\ y.amount \in Int
  <2>1. At(g, n).ratio \in Nat /\ y.stake \in Nat /\ y.amount \in Int
    BY <1>1, <1>20, AtType DEF Account
  <2> QED
    BY <1>17, <1>21, <2>1
<1>25. Claim(c, d) = y.amount
  BY <1>22, <1>23, <1>24
<1> QED
  BY <1>17, <1>18, <1>19, <1>21, <1>25 DEF a

(* The books after a slash.                                                *)
LEMMA SlashedSound ==
  ASSUME NEW b, NEW L, NEW h \in Nat, Sound(b, L, h), Last(b) \notin Kept(b, L),
         NEW c, IsSlash(b, c, h), \A d \in L : c.stake[d] = b.stake[d] \div 2
  PROVE  Sound(c, L, h)
<1> DEFINE n == Last(b)
           g == c.hist
           K == Kept(b, L)
           e0 == [height |-> h, period |-> n]
<1>0. /\ Accounts(b, L) /\ BookType(b, L) /\ Referred(b, L)
      /\ Whole(b, L) /\ Solvent(b, L) /\ InTime(b, L, h)
  BY DEF Sound, Accounts
<1>1. /\ IsHistory(g) /\ DOMAIN g = K \cup {n} /\ Growing(g)
      /\ \A p \in DOMAIN g : g[p].ref = (IF p = n THEN 1 ELSE 0) + 1
  <2>1. HasReference(g, b, L)
    BY <1>0, AddedFacts DEF IsSlash
  <2> HIDE DEF g
  <2> QED
    BY <2>1 DEF HasReference
<1>2. n \in Nat /\ K \subseteq 0 .. n /\ Slashes(b) \subseteq K
  BY <1>0, BookFacts DEF Referred, Kept
<1>3. Last(c) = n /\ Slashes(c) = Slashes(b) \cup {n} /\ c.events = b.events \cup {e0}
  <2>1. c.events = b.events \cup {e0} /\ Last(c) = n
    BY DEF IsSlash, Last
  <2>2. e0.period = n
    OBVIOUS
  <2> HIDE DEF e0, n
  <2>3. Slashes(c) = Slashes(b) \cup {n}
    BY <2>1, <2>2 DEF Slashes
  <2> QED
    BY <2>1, <2>3
<1>4. Starts(c, L) = Starts(b, L) /\ c.start = b.start
  BY DEF Starts, IsSlash
<1>5. Kept(c, L) = K \cup {n}
  BY <1>3, <1>4 DEF Kept
<1>6. BookType(c, L)
  <2>1. c.hist \in [DOMAIN c.hist -> HistoryRecord] /\ DOMAIN c.hist \subseteq Nat
    BY <1>1 DEF IsHistory
  <2>2. c.cur \in [period : Nat \ {0}, rewards : Nat] /\ c.out \in Nat /\ c.comm \in Nat
    BY <1>0 DEF BookType, IsSlash
  <2>3. c.events \subseteq Event
    <3>1. e0 \in Event
      BY <1>2 DEF Event
    <3> QED
      BY <1>0, <1>3, <3>1 DEF BookType
  <2>4. IsFiniteSet(c.events)
    <3>1. IsFiniteSet(b.events)
      BY <1>0 DEF BookType
    <3> HIDE DEF e0
    <3>2. IsFiniteSet(b.events \cup {e0})
      BY <3>1, FS_AddElement
    <3> QED
      BY <1>3, <3>2
  <2>5. L \subseteq Delegator /\ \A k \in L : c.start[k] \in Start
    BY <1>0, <1>4 DEF BookType
  <2>6. c.stake \in [Delegator -> Nat]
    BY DEF IsSlash
  <2> HIDE DEF n, g, K, e0
  <2> QED
    BY <2>1, <2>2, <2>3, <2>4, <2>5, <2>6 DEF BookType
<1>7. Referred(c, L)
  <2>1. Kept(c, L) \subseteq 0 .. Last(c)
    <3>1. n \in 0 .. n
      BY <1>2
    <3> HIDE DEF K, n
    <3> QED
      BY <1>2, <1>3, <1>5, <3>1
  <2>2. \A p \in DOMAIN g :
          g[p].ref = (IF p = n THEN 1 ELSE 0) + (IF p \in Kept(c, L) THEN 1 ELSE 0)
    <3> HIDE DEF n, K, g
    <3>1. \A p \in DOMAIN g : p \in Kept(c, L)
      BY <1>1, <1>5
    <3> QED
      BY <1>1, <3>1
  <2>3. \A k \in L : c.start[k].period \notin Slashes(c)
    <3>1. \A k \in L : b.start[k].period \in K
      BY DEF Kept, Starts
    <3>2. \A k \in L : b.start[k].period \notin Slashes(b)
      BY <1>0 DEF Referred
    <3> QED
      BY <1>3, <1>4, <3>1, <3>2
  <2>4. \A k, i \in L : c.start[k].period = c.start[i].period => k = i
    BY <1>0, <1>4 DEF Referred
  <2>5. \A e, i \in c.events : e.period = i.period => e = i
    <3>1. \A e, i \in b.events : e.period = i.period => e = i
      BY <1>0 DEF Referred
    <3>2. \A e \in b.events : e.period # n
      <4>1. \A e \in b.events : e.period \in Slashes(b)
        BY DEF Slashes
      <4>2. n \notin Slashes(b)
        BY <1>2
      <4> QED
        BY <4>1, <4>2
    <3>3. e0.period = n
      OBVIOUS
    <3> HIDE DEF n, e0
    <3> QED
      BY <1>3, <3>1, <3>2, <3>3
  <2>6. DOMAIN g = Kept(c, L) \cup {Last(c)}
    BY <1>1, <1>3, <1>5
  <2> HIDE DEF n, K
  <2> QED
    BY <1>3, <2>1, <2>2, <2>3, <2>4, <2>5, <2>6 DEF Referred
<1>8. InTime(c, L, h)
  <2>1. \A k \in L : c.start[k].height <= h
    BY <1>0, <1>4 DEF InTime
  <2>2. e0.height = h /\ h <= h
    OBVIOUS
  <2>3. \A e \in c.events : e.height <= h
    <3>1. \A e \in b.events : e.height <= h
      BY <1>0 DEF InTime
    <3> HIDE DEF e0
    <3> QED
      BY <1>3, <2>2, <3>1
  <2>4. ASSUME NEW k \in L, NEW e \in c.events, e.period > c.start[k].period
        PROVE  c.start[k].height <= e.height
    <3>1. CASE e \in b.events
      BY <1>0, <1>4, <2>4, <3>1 DEF InTime
    <3>2. CASE e = e0
      BY <2>1, <2>2, <3>2
    <3> HIDE DEF e0
    <3> QED
      BY <1>3, <3>1, <3>2
  <2> QED
    BY <2>1, <2>3, <2>4 DEF InTime
<1>9. \A d \in L : Earning(c, d).stake = Earning(b, d).stake \div 2 /\ Claim(c, d) = Claim(b, d)
  BY <1>0, SlashedEarning
<1>10. Whole(c, L)
  BY <1>0, <1>9 DEF Whole
<1>11. Claims(c, L) = Claims(b, L)
  <2>1. [d \in L |-> Claim(c, d)] = [d \in L |-> Claim(b, d)]
    BY <1>9
  <2> QED
    BY <2>1 DEF Claims
<1>12. Solvent(c, L)
  BY <1>0, <1>11 DEF Solvent, IsSlash
<1> QED
  BY <1>1, <1>6, <1>7, <1>8, <1>10, <1>12 DEF Sound

(* The books of a validator that is new.                                   *)
LEMMA NewSound ==
  ASSUME NEW b, NEW h, b.hist = With(<<>>, 0, [ref |-> 1, ratio |-> 0]),
         b.cur = [period |-> 1, rewards |-> 0], b.out = 0, b.comm = 0, b.events = {},
         b.stake \in [Delegator -> Nat]
  PROVE  Sound(b, {}, h)
<1> DEFINE r == [ref |-> 1, ratio |-> 0]
<1>1. b.hist = [q \in {0} |-> r]
  <2>1. DOMAIN <<>> = {}
    OBVIOUS
  <2> QED
    BY <2>1 DEF With
<1>2. r \in HistoryRecord /\ r.ref = 1
  BY DEF HistoryRecord
<1> HIDE DEF r
<1>3. DOMAIN b.hist = {0} /\ b.hist \in [DOMAIN b.hist -> HistoryRecord] /\ b.hist[0] = r
  BY <1>1, <1>2
<1>4. Last(b) = 0 /\ Slashes(b) = {} /\ Kept(b, {}) = {}
  BY DEF Last, Slashes, Kept, Starts
<1>5. BookType(b, {})
  <2>1. IsFiniteSet(b.events)
    BY FS_EmptySet
  <2>2. b.cur \in [period : Nat \ {0}, rewards : Nat]
    OBVIOUS
  <2> QED
    BY <1>3, <2>1, <2>2 DEF BookType
<1>6. Referred(b, {})
  <2>1. \A p \in DOMAIN b.hist :
          b.hist[p].ref = (IF p = 0 THEN 1 ELSE 0) + (IF p \in {} THEN 1 ELSE 0)
    BY <1>2, <1>3
  <2> QED
    BY <1>3, <1>4, <2>1 DEF Referred
<1>7. Growing(b.hist)
  <2>1. b.hist[0].ratio <= b.hist[0].ratio
    BY <1>1 DEF r
  <2> QED
    BY <1>3, <2>1 DEF Growing
<1>8. InTime(b, {}, h) /\ Whole(b, {})
  BY DEF InTime, Whole
<1>9. Claims(b, {}) = 0
  BY SumEmpty DEF Claims
<1>10. Solvent(b, {})
  BY <1>9 DEF Solvent
<1> QED
  BY <1>5, <1>6, <1>7, <1>8, <1>10 DEF Sound

(* Books stay sound when the height grows.                                 *)
LEMMA SoundLater ==
  ASSUME NEW b, NEW L, NEW h \in Nat, NEW k \in Nat, h <= k, Sound(b, L, h)
  PROVE  Sound(b, L, k)
<1>1. InTime(b, L, h) /\ BookType(b, L)
  BY DEF Sound
<1>2. \A d \in L : b.start[d].height \in Nat
  BY <1>1 DEF BookType, Start
<1>3. \A e \in b.events : e.height \in Nat
  BY <1>1 DEF BookType, Event
<1>4. \A d \in L : b.start[d].height <= k
  BY <1>1, <1>2 DEF InTime
<1>5. \A e \in b.events : e.height <= k
  BY <1>1, <1>3 DEF InTime
<1>6. InTime(b, L, k)
  BY <1>1, <1>4, <1>5 DEF InTime
<1> QED
  BY <1>6 DEF Sound

-----------------------------------------------------------------------------
(* The state.                                                              *)

(* The model's sum of a function is the one that the lemmas on data are    *)
(* about.                                                                  *)
LEMMA SumFunctionIs ==
  ASSUME NEW f
  PROVE  SumFunction(f) = SumOver(f, DOMAIN f)
BY DEF SumFunction, SumFunctionOnSet, FoldFunctionOnSet, SumOver, MapThenSumSet

(* The functions that Maps has written out.                                *)
LEMMA MapsFacts ==
  ASSUME NEW st, Maps(st)
  PROVE  /\ DOMAIN st = Fields
         /\ DOMAIN st.hist = Validator /\ DOMAIN st.cur = Validator /\ DOMAIN st.out = Validator
         /\ DOMAIN st.comm = Validator /\ DOMAIN st.events = Validator
         /\ DOMAIN st.stake = Delegation /\ DOMAIN st.start = Delegation
<1> DEFINE Of(x) == [v \in Validator |-> x[v]]
<1>1. \A x : DOMAIN Of(x) = Validator
  OBVIOUS
<1>2. /\ st.hist = Of(st.hist) /\ st.cur = Of(st.cur) /\ st.out = Of(st.out)
      /\ st.comm = Of(st.comm) /\ st.events = Of(st.events)
  BY DEF Maps
<1> HIDE DEF Of
<1>3. /\ DOMAIN st.hist = Validator /\ DOMAIN st.cur = Validator /\ DOMAIN st.out = Validator
      /\ DOMAIN st.comm = Validator /\ DOMAIN st.events = Validator
  BY <1>1, <1>2
<1>4. DOMAIN st.stake = Delegation /\ DOMAIN st.start = Delegation
  BY DEF Maps
<1>5. DOMAIN st = Fields
  <2> DEFINE r == [f \in Fields |-> st[f]]
  <2>1. DOMAIN r = Fields /\ st = r
    BY DEF Maps
  <2> HIDE DEF r
  <2> QED
    BY <2>1
<1> QED
  BY <1>3, <1>4, <1>5

(* The fields of a book.                                                   *)
LEMMA BookIs ==
  ASSUME NEW st, NEW v
  PROVE  /\ Book(st, v).hist = st.hist[v] /\ Book(st, v).cur = st.cur[v]
         /\ Book(st, v).out = st.out[v] /\ Book(st, v).comm = st.comm[v]
         /\ Book(st, v).events = st.events[v]
BY DEF Book

(* Books that an operation does not touch.                                 *)
SameBook(st, n, v) ==
  /\ n.hist[v] = st.hist[v] /\ n.cur[v] = st.cur[v] /\ n.out[v] = st.out[v]
  /\ n.comm[v] = st.comm[v] /\ n.events[v] = st.events[v]
  /\ \A d \in Delegator : /\ n.start[<<d, v>>] = st.start[<<d, v>>]
                          /\ n.stake[<<d, v>>] = st.stake[<<d, v>>]

(* A validator whose fields did not change has the same book.              *)
LEMMA SameBookIs ==
  ASSUME NEW st, NEW n, NEW v, SameBook(st, n, v)
  PROVE  Book(n, v) = Book(st, v)
<1>1. [d \in Delegator |-> n.start[<<d, v>>]] = [d \in Delegator |-> st.start[<<d, v>>]]
  BY DEF SameBook
<1>2. [d \in Delegator |-> n.stake[<<d, v>>]] = [d \in Delegator |-> st.stake[<<d, v>>]]
  BY DEF SameBook
<1> QED
  BY <1>1, <1>2 DEF SameBook, Book

(* What the operations of distribution leave alone.                        *)
SameElsewhere(st, n) ==
  /\ n.height = st.height /\ n.jailed = st.jailed /\ n.index = st.index
  /\ n.unbondedAt = st.unbondedAt /\ n.signing = st.signing /\ n.leaving = st.leaving

(* What the books do not hold stays well formed when it does not change.   *)
LEMMA ElsewhereStays ==
  ASSUME NEW st, NEW n, Elsewhere(st), SameElsewhere(st, n)
  PROVE  Elsewhere(n)
BY DEF Elsewhere, SameElsewhere

(* An operation on the books of one validator.                             *)
OtherBooks(st, live, n, now, v) ==
  \A w \in Validator \ {v} : SameBook(st, n, w) /\ now[w] = live[w]

(* An operation on one validator leaves all books in order if it leaves    *)
(* that validator's in order.                                              *)
LEMMA OneBook ==
  ASSUME NEW st, NEW live, Books(st, live), NEW v \in Validator, NEW n, NEW now,
         Maps(n), SameElsewhere(st, n), n.panic = FALSE, Balanced(n),
         OtherBooks(st, live, n, now, v), Sound(Book(n, v), now[v], n.height)
  PROVE  Books(n, now)
<1>1. Elsewhere(n) /\ n.height = st.height
  BY ElsewhereStays DEF Books, SameElsewhere
<1>2. AllSound(n, now)
  <2> SUFFICES ASSUME NEW w \in Validator
               PROVE  Sound(Book(n, w), now[w], n.height)
    BY DEF AllSound
  <2>1. CASE w = v
    BY <2>1
  <2>2. CASE w # v
    <3>1. Book(n, w) = Book(st, w) /\ now[w] = live[w]
      BY <2>2, SameBookIs DEF OtherBooks
    <3>2. Sound(Book(st, w), live[w], st.height)
      BY DEF Books, AllSound
    <3> QED
      BY <1>1, <3>1, <3>2
  <2> QED
    BY <2>1, <2>2
<1> QED
  BY <1>1, <1>2 DEF Books

(* References of a record.                                                 *)
LEMMA DropReferenceIs ==
  ASSUME NEW st, NEW v, NEW p, IsHistory(st.hist[v]), p \in DOMAIN st.hist[v],
         st.hist[v][p].ref >= 1
  PROVE  DropReference(st, v, p) = [st EXCEPT !.hist[v] = Dropped(@, p)]
<1>1. Record(st, v, p) = st.hist[v][p]
  BY DEF Record, At
<1>2. st.hist[v][p].ref \in Nat
  BY DEF IsHistory, HistoryRecord
<1> DEFINE r == st.hist[v][p]
<1>3. CASE r.ref = 1
  <2>1. r.ref # 0
    BY <1>3
  <2> QED
    BY <1>1, <1>3, <2>1 DEF DropReference, Dropped
<1>4. CASE r.ref # 1
  <2>1. r.ref # 0
    BY <1>2
  <2> QED
    BY <1>1, <1>4, <2>1 DEF DropReference, Dropped, SetRecord
<1> QED
  BY <1>3, <1>4

(* The model's reference count does not panic below two references.        *)
LEMMA AddReferenceIs ==
  ASSUME NEW st, NEW v, NEW p, p \in DOMAIN st.hist[v], st.hist[v][p].ref = 1
  PROVE  AddReference(st, v, p) = [st EXCEPT !.hist[v] = Added(@, p)]
<1>1. Record(st, v, p) = st.hist[v][p]
  BY DEF Record, At
<1> QED
  BY <1>1 DEF AddReference, Added, SetRecord

(* A validator's period ends.                                              *)
PeriodEnds(st, n, v, q, given) ==
  /\ n = [f \in Fields |-> n[f]]
  /\ n.hist = [st.hist EXCEPT ![v] = ClosedHistory(Book(st, v), q)]
  /\ n.cur = [st.cur EXCEPT ![v] = [period |-> st.cur[v].period + 1, rewards |-> 0]]
  /\ n.out = [st.out EXCEPT ![v] = @ - given] /\ n.pool = st.pool + given
  /\ n.bal = st.bal /\ n.comm = st.comm /\ n.events = st.events /\ n.stake = st.stake
  /\ n.start = st.start /\ n.panic = st.panic /\ SameElsewhere(st, n)

(* What sound books say of one validator.                                  *)
LEMMA BooksFacts ==
  ASSUME NEW st, NEW live, Books(st, live), NEW v \in Validator
  PROVE  /\ Sound(Book(st, v), live[v], st.height)
         /\ Accounts(Book(st, v), live[v])
         /\ IsHistory(st.hist[v]) /\ st.cur[v].period \in Nat /\ st.cur[v].rewards \in Nat
         /\ Last(Book(st, v)) = st.cur[v].period - 1 /\ Last(Book(st, v)) \in Nat
         /\ Last(Book(st, v)) \in DOMAIN st.hist[v]
         /\ st.out[v] \in Nat /\ st.comm[v] \in Nat
         /\ Book(st, v).stake \in [Delegator -> Nat] /\ live[v] \subseteq Delegator
         /\ st.height \in Nat
<1> DEFINE b == Book(st, v)
           L == live[v]
<1>1. Sound(b, L, st.height) /\ st.height \in Nat
  BY DEF Books, AllSound, Elsewhere
<1>2. Accounts(b, L) /\ BookType(b, L) /\ Referred(b, L)
  BY <1>1 DEF Sound, Accounts
<1>3. /\ b.hist = st.hist[v] /\ b.cur = st.cur[v] /\ b.out = st.out[v] /\ b.comm = st.comm[v]
  BY BookIs
<1> HIDE DEF b, L
<1>4. IsHistory(b.hist) /\ Last(b) \in Nat /\ Last(b) \in DOMAIN b.hist
  BY <1>2, BookFacts
<1>5. b.cur.period \in Nat /\ b.cur.rewards \in Nat /\ b.out \in Nat /\ b.comm \in Nat
  BY <1>2 DEF BookType
<1>6. b.stake \in [Delegator -> Nat] /\ L \subseteq Delegator
  BY <1>2 DEF BookType
<1>7. Last(b) = b.cur.period - 1
  BY DEF Last
<1> QED
  BY <1>1, <1>2, <1>3, <1>4, <1>5, <1>6, <1>7 DEF b, L

(* The tokens of a validator are at least what its delegations carry.      *)
LEMMA TokensIs ==
  ASSUME NEW st, NEW live, Books(st, live), NEW v \in Validator
  PROVE  /\ Tokens(st, v) = SumOver(Book(st, v).stake, Delegator)
         /\ Tokens(st, v) \in Nat
         /\ SumOver(Book(st, v).stake, live[v]) \in Nat
         /\ SumOver(Book(st, v).stake, live[v]) <= Tokens(st, v)
<1> DEFINE k == Book(st, v).stake
           L == live[v]
           t == Tokens(st, v)
           g == [d \in Delegator |-> IF d \in L THEN k[d] ELSE 0]
<1>1. k \in [Delegator -> Nat] /\ L \subseteq Delegator
  BY BooksFacts
<1>2. k = [d \in Delegator |-> st.stake[<<d, v>>]]
  BY DEF Book
<1>3. t = SumOver(k, Delegator)
  <2>1. t = SumFunction(k)
    BY <1>2 DEF Tokens
  <2>2. DOMAIN k = Delegator
    BY <1>1
  <2> HIDE DEF k, t
  <2> QED
    BY <2>1, <2>2, SumFunctionIs
<1>4. IsFiniteSet(Delegator) /\ IsFiniteSet(L)
  BY <1>1, ExportAssumption, FS_Subset
<1> HIDE DEF k, L, t
<1>5. SumOver(k, Delegator) \in Nat
  <2>1. \A d \in Delegator : k[d] \in Nat
    BY <1>1
  <2> QED
    BY <1>4, <2>1, SumNat
<1>6. SumOver(k, L) \in Nat
  <2>1. \A d \in L : k[d] \in Nat
    BY <1>1
  <2> QED
    BY <1>4, <2>1, SumNat
<1>7. SumOver(g, Delegator) = SumOver(g, L)
  <2>1. /\ \A d \in Delegator : g[d] \in Int
        /\ \A d \in Delegator \ L : g[d] = 0
    BY <1>1
  <2> HIDE DEF g
  <2> QED
    BY <1>1, <1>4, <2>1, SumOutside
<1>8. SumOver(g, L) = SumOver(k, L)
  <2>1. /\ \A d \in L : k[d] \in Int
        /\ \A d \in L : g[d] = k[d]
    BY <1>1
  <2> HIDE DEF g
  <2> QED
    BY <1>4, <2>1, SumSame
<1>9. SumOver(g, Delegator) <= SumOver(k, Delegator)
  <2>1. \A d \in Delegator : g[d] \in Int /\ k[d] \in Int /\ g[d] <= k[d]
    BY <1>1
  <2> HIDE DEF g
  <2> QED
    BY <1>4, <2>1, SumAtMost
<1>10. SumOver(k, L) <= SumOver(k, Delegator)
  BY <1>7, <1>8, <1>9
<1> QED
  BY <1>3, <1>5, <1>6, <1>10 DEF k, L, t

Share(st, v) == IF Tokens(st, v) = 0 THEN 0 ELSE st.cur[v].rewards \div Tokens(st, v)
Given(st, v) == IF Tokens(st, v) = 0 THEN st.cur[v].rewards ELSE 0

(* What a delegation would be paid now, in fractions of a coin: its claim  *)
(* once the period has ended, nothing at the height that it starts at.     *)
Promise(st, v, d) ==
  IF st.start[<<d, v>>].height = st.height THEN 0
  ELSE Claim(Book(st, v), d) + st.stake[<<d, v>>] * Share(st, v)

(* The period of validator v has ended, and the delegations in L have kept *)
(* what was promised to them.                                              *)
Settled(st, n, v, L) ==
  /\ n.cur[v].rewards = 0
  /\ \A w \in Validator \ {v} : SameBook(st, n, w)
  /\ \A k \in L :
       Claim(Book(n, v), k) = Claim(Book(st, v), k) + st.stake[<<k, v>>] * Share(st, v)

(* A reference more or less changes no claim of the delegations in L.      *)
Carry(st, n, v, L) ==
  /\ n.cur = st.cur
  /\ \A w \in Validator \ {v} : SameBook(st, n, w)
  /\ \A k \in L : Claim(Book(n, v), k) = Claim(Book(st, v), k)

(* One after the other.                                                    *)
LEMMA StaysSettled ==
  ASSUME NEW st, NEW m, NEW n, NEW v, NEW L, NEW M, Settled(st, m, v, L), Carry(m, n, v, M),
         M \subseteq L
  PROVE  Settled(st, n, v, M)
<1>1. n.cur[v].rewards = 0
  BY DEF Settled, Carry
<1>2. \A w \in Validator \ {v} : SameBook(st, n, w)
  BY DEF Settled, Carry, SameBook
<1>3. \A k \in M :
        Claim(Book(n, v), k) = Claim(Book(st, v), k) + st.stake[<<k, v>>] * Share(st, v)
  BY DEF Settled, Carry
<1> QED
  BY <1>1, <1>2, <1>3 DEF Settled

(* What IncrementValidatorPeriod does to the fields.                       *)
LEMMA NewPeriodIs ==
  ASSUME NEW st, NEW live, Books(st, live), NEW v \in Validator
  PROVE  PeriodEnds(st, NewPeriod(st, v), v, Share(st, v), Given(st, v))
<1> DEFINE t == Tokens(st, v)
           c == st.cur[v]
           last == c.period - 1
           q == Share(st, v)
           given == Given(st, v)
           b == Book(st, v)
           G == IF t = 0 THEN [st EXCEPT !.pool = @ + c.rewards, !.out[v] = @ - c.rewards]
                ELSE st
           r == [ref |-> 1, ratio |-> Record(st, v, last).ratio + q]
           D == DropReference(G, v, last)
           R == SetRecord(D, v, c.period, r)
           N == [R EXCEPT !.cur[v] = [period |-> c.period + 1, rewards |-> 0]]
           n == NewPeriod(st, v)
<1>0. Maps(st) /\ Balanced(st)
  BY DEF Books
<1>1. /\ IsHistory(st.hist[v]) /\ c.period \in Nat /\ c.rewards \in Nat
      /\ Last(b) = last /\ last \in DOMAIN st.hist[v] /\ Accounts(b, live[v])
      /\ last \in Nat /\ st.out[v] \in Nat
  BY BooksFacts
<1>2. /\ DOMAIN st = Fields /\ DOMAIN st.hist = Validator /\ DOMAIN st.out = Validator
      /\ DOMAIN st.cur = Validator
  BY <1>0, MapsFacts
<1>3. n = N
  BY DEF NewPeriod, Share
<1> DEFINE Same(m) ==
      /\ m.bal = st.bal /\ m.comm = st.comm /\ m.events = st.events /\ m.stake = st.stake
      /\ m.start = st.start /\ m.panic = st.panic /\ SameElsewhere(st, m)
           G1 == [st EXCEPT !.pool = @ + c.rewards, !.out[v] = @ - c.rewards]
<1>4. /\ DOMAIN G = Fields /\ G = [f \in Fields |-> G[f]] /\ Same(G)
      /\ G.hist = st.hist /\ G.cur = st.cur
      /\ G.out = [st.out EXCEPT ![v] = @ - given] /\ G.pool = st.pool + given
  <2>1. CASE t = 0
    <3>1. G = G1 /\ given = c.rewards
      BY <2>1 DEF Given
    <3>2. /\ DOMAIN G1 = Fields /\ Same(G1)
          /\ G1.hist = st.hist /\ G1.cur = st.cur
          /\ G1.out = [st.out EXCEPT ![v] = @ - c.rewards] /\ G1.pool = st.pool + c.rewards
      BY <1>2 DEF Fields, SameElsewhere
    <3>3. G1 = [f \in Fields |-> G1[f]]
      BY <1>2 DEF Fields
    <3> HIDE DEF G, given, G1
    <3> QED
      BY <3>1, <3>2, <3>3
  <2>2. CASE t # 0
    <3>1. G = st /\ given = 0
      BY <2>2 DEF Given
    <3>2. st = [f \in Fields |-> st[f]] /\ st.pool \in Nat
      BY <1>0 DEF Maps, Balanced
    <3>3. st.out = [st.out EXCEPT ![v] = @ - 0]
      <4>1. st.out[v] - 0 = st.out[v]
        BY <1>1
      <4>2. st.out = [w \in Validator |-> st.out[w]]
        BY <1>0 DEF Maps
      <4> QED
        BY <4>1, <4>2
    <3>4. Same(st)
      BY DEF SameElsewhere
    <3>5. st.pool = st.pool + 0
      BY <3>2
    <3> HIDE DEF G, given, Same
    <3> QED
      BY <1>2, <3>1, <3>2, <3>3, <3>4, <3>5
  <2> QED
    BY <2>1, <2>2
<1>5. st.hist[v][last].ref >= 1
  <2>1. b.hist = st.hist[v] /\ Last(b) \in DOMAIN b.hist
    BY <1>1, BookIs
  <2>2. b.hist[Last(b)].ref
          = (IF Last(b) = Last(b) THEN 1 ELSE 0) + (IF Last(b) \in Kept(b, live[v]) THEN 1 ELSE 0)
    BY <1>1, <2>1 DEF Accounts, Referred
  <2>3. b.hist[Last(b)].ref >= 1
    BY <2>2
  <2> QED
    BY <1>1, <2>1, <2>3
<1> HIDE DEF G
<1>6. D = [G EXCEPT !.hist[v] = Dropped(@, last)]
  <2>1. IsHistory(G.hist[v]) /\ last \in DOMAIN G.hist[v] /\ G.hist[v][last].ref >= 1
    BY <1>1, <1>4, <1>5
  <2> HIDE DEF last
  <2> QED
    BY <2>1, DropReferenceIs
<1> HIDE DEF D
<1>7. /\ DOMAIN D = Fields /\ D = [f \in Fields |-> D[f]] /\ Same(D)
      /\ D.hist = [st.hist EXCEPT ![v] = Dropped(@, last)] /\ D.cur = st.cur
      /\ D.out = G.out /\ D.pool = G.pool
  BY <1>4, <1>6 DEF Fields, SameElsewhere
<1>8. R = [D EXCEPT !.hist[v] = With(@, c.period, r)]
  BY DEF SetRecord
<1> HIDE DEF R, r
<1>9. /\ DOMAIN R = Fields /\ R = [f \in Fields |-> R[f]] /\ Same(R)
      /\ R.hist = [D.hist EXCEPT ![v] = With(@, c.period, r)] /\ R.cur = st.cur
      /\ R.out = G.out /\ R.pool = G.pool
  BY <1>7, <1>8 DEF Fields, SameElsewhere
<1>10. /\ N = [f \in Fields |-> N[f]] /\ Same(N)
       /\ N.hist = R.hist
       /\ N.cur = [st.cur EXCEPT ![v] = [period |-> c.period + 1, rewards |-> 0]]
       /\ N.out = G.out /\ N.pool = G.pool
  BY <1>9 DEF Fields, SameElsewhere
<1>11. N.hist = [st.hist EXCEPT ![v] = ClosedHistory(b, q)]
  <2>1. ClosedHistory(b, q) = With(Dropped(st.hist[v], last), c.period, r)
    <3>1. b.hist = st.hist[v] /\ Last(b) + 1 = c.period
      BY <1>1, BookIs
    <3>2. Record(st, v, last) = At(st.hist[v], last)
      BY DEF Record
    <3> HIDE DEF b, q
    <3> QED
      BY <1>1, <3>1, <3>2 DEF ClosedHistory, r
  <2>2. D.hist[v] = Dropped(st.hist[v], last)
    BY <1>2, <1>7
  <2>3. R.hist = [D.hist EXCEPT ![v] = ClosedHistory(b, q)]
    BY <1>9, <2>1, <2>2
  <2> HIDE DEF b, q
  <2>4. [D.hist EXCEPT ![v] = ClosedHistory(b, q)] = [st.hist EXCEPT ![v] = ClosedHistory(b, q)]
    BY <1>2, <1>7
  <2> QED
    BY <1>10, <2>3, <2>4
<1> HIDE DEF N, n, q, given
<1>12. N.out = [st.out EXCEPT ![v] = @ - given] /\ N.pool = st.pool + given
  BY <1>4, <1>10
<1>13. PeriodEnds(st, N, v, q, given)
  BY <1>10, <1>11, <1>12 DEF PeriodEnds, b
<1> QED
  BY <1>3, <1>13 DEF n, q, given

(* The account of the module covers what a validator's rewards become.     *)
LEMMA BalancedUpdate ==
  ASSUME NEW st, Maps(st), Balanced(st), \A w \in Validator : st.out[w] \in Nat,
         NEW v \in Validator, NEW n, NEW x \in Int,
         n.out = [st.out EXCEPT ![v] = x], n.pool \in Nat, n.bal \in Int,
         n.bal * Unit - n.pool - x = st.bal * Unit - st.pool - st.out[v]
  PROVE  Balanced(n)
<1>2. IsFiniteSet(Validator) /\ Unit \in Nat
  BY ExportAssumption
<1>3. \A w \in Validator : st.out[w] \in Int
  OBVIOUS
<1>4. n.out[v] = x /\ \A w \in Validator \ {v} : n.out[w] = st.out[w]
  <2>1. DOMAIN st.out = Validator
    BY MapsFacts
  <2> QED
    BY <2>1
<1>5. SumOver(n.out, Validator) = SumOver(st.out, Validator) - st.out[v] + n.out[v]
  <2> DEFINE f == st.out
             g == n.out
  <2>1. /\ \A w \in Validator : f[w] \in Int
        /\ g[v] \in Int /\ \A w \in Validator \ {v} : g[w] = f[w]
    BY <1>3, <1>4
  <2> HIDE DEF f, g
  <2>2. SumOver(g, Validator) = SumOver(f, Validator) - f[v] + g[v]
    BY <1>2, <2>1, SumUpdate
  <2> QED
    BY <2>2 DEF f, g
<1>6. SumOver(st.out, Validator) \in Int
  BY <1>2, <1>3, SumType
<1>7. st.bal \in Int /\ st.pool \in Nat /\ st.bal * Unit = st.pool + SumOver(st.out, Validator)
  BY DEF Balanced
<1>8. st.bal * Unit \in Int /\ n.bal * Unit \in Int
  BY <1>2, <1>7
<1>9. n.bal * Unit = n.pool + SumOver(n.out, Validator)
  BY <1>3, <1>4, <1>5, <1>6, <1>7, <1>8
<1> QED
  BY <1>9 DEF Balanced

(* The account stays balanced when coins, pool and outstanding rewards     *)
(* move together.                                                          *)
LEMMA BalancedStays ==
  ASSUME NEW st, NEW live, Books(st, live), NEW v \in Validator, NEW n, NEW x \in Int,
         n.out = [st.out EXCEPT ![v] = x], n.pool \in Nat, n.bal \in Int,
         n.bal * Unit - n.pool - x = st.bal * Unit - st.pool - st.out[v]
  PROVE  Balanced(n)
<1>1. Maps(st) /\ Balanced(st)
  BY DEF Books
<1>2. \A w \in Validator : st.out[w] \in Nat
  BY BooksFacts
<1> QED
  BY <1>1, <1>2, BalancedUpdate

(* The ratio per token, rounded down, times the tokens, and what goes to   *)
(* the pool for want of tokens, is no more than the rewards of the period. *)
LEMMA ShareFits ==
  ASSUME NEW st, NEW live, Books(st, live), NEW v \in Validator
  PROVE  /\ Share(st, v) \in Nat /\ Given(st, v) \in Nat
         /\ Given(st, v) + Share(st, v) * SumOver(Book(st, v).stake, live[v])
              <= st.cur[v].rewards
<1> DEFINE t == Tokens(st, v)
           k == SumOver(Book(st, v).stake, live[v])
           r == st.cur[v].rewards
           q == Share(st, v)
           g == Given(st, v)
<1>1. t \in Nat /\ k \in Nat /\ k <= t
  BY TokensIs
<1>2. r \in Nat
  BY BooksFacts
<1>3. CASE t = 0
  <2>1. q = 0 /\ g = r
    BY <1>3 DEF Share, Given
  <2> HIDE DEF k, r, q, g, t
  <2>2. q * k = 0
    BY <1>1, <2>1
  <2>3. g + q * k <= r
    BY <1>2, <2>1, <2>2
  <2> QED
    BY <1>2, <2>1, <2>3 DEF k, r, q, g
<1>4. CASE t # 0
  <2>1. q = r \div t /\ g = 0
    BY <1>4 DEF Share, Given
  <2> HIDE DEF k, r, q, g, t
  <2>2. q \in Nat /\ q * t <= r
    BY <1>1, <1>2, <1>4, <2>1
  <2>3. q * k <= q * t /\ q * k \in Nat /\ q * t \in Nat
    <3>1. t - k \in Nat
      BY <1>1
    <3>2. q * t = q * k + q * (t - k) /\ q * (t - k) \in Nat /\ q * k \in Nat
      BY <1>1, <2>2, <3>1
    <3> QED
      BY <3>2
  <2>4. g + q * k <= r
    BY <1>2, <2>1, <2>2, <2>3
  <2> QED
    BY <2>1, <2>2, <2>4 DEF k, r, q, g
<1> QED
  BY <1>3, <1>4

(* IncrementValidatorPeriod keeps the books in order, and nobody refers to *)
(* the new period yet.                                                     *)
LEMMA NewPeriodBooks ==
  ASSUME NEW st, NEW live, Books(st, live), NEW v \in Validator, NEW n, n = NewPeriod(st, v)
  PROVE  /\ Books(n, live)
         /\ Last(Book(n, v)) \notin Kept(Book(n, v), live[v])
         /\ Closes(Book(st, v), Book(n, v), Share(st, v))
         /\ n.start = st.start /\ n.stake = st.stake /\ n.bal = st.bal /\ n.comm = st.comm
         /\ n.events = st.events
         /\ SameElsewhere(st, n) /\ \A w \in Validator \ {v} : SameBook(st, n, w)
<1> DEFINE q == Share(st, v)
           g == Given(st, v)
           b == Book(st, v)
           c == Book(n, v)
           L == live[v]
<1>0. Maps(st) /\ Balanced(st) /\ st.panic = FALSE
  BY DEF Books
<1>1. PeriodEnds(st, n, v, q, g)
  BY NewPeriodIs
<1>2. /\ DOMAIN st.hist = Validator /\ DOMAIN st.out = Validator /\ DOMAIN st.cur = Validator
  BY <1>0, MapsFacts
<1>3. q \in Nat /\ g \in Nat /\ g + q * SumOver(b.stake, L) <= st.cur[v].rewards
  BY ShareFits
<1>4. /\ Sound(b, L, st.height) /\ st.out[v] \in Nat
  BY BooksFacts
<1> HIDE DEF q, g
<1>5. /\ n.hist[v] = ClosedHistory(b, q)
      /\ n.cur[v] = [period |-> st.cur[v].period + 1, rewards |-> 0]
      /\ n.out[v] = st.out[v] - g
      /\ n.comm = st.comm /\ n.events = st.events /\ n.stake = st.stake
      /\ n.start = st.start
  <2> HIDE DEF b
  <2> QED
    BY <1>1, <1>2 DEF PeriodEnds, b
<1>6. Closes(b, c, q)
  <2>1. /\ c.hist = n.hist[v] /\ c.cur = n.cur[v] /\ c.comm = n.comm[v]
        /\ c.events = n.events[v]
        /\ b.cur = st.cur[v] /\ b.comm = st.comm[v] /\ b.events = st.events[v]
    BY BookIs
  <2>2. c.start = b.start /\ c.stake = b.stake
    BY <1>5 DEF Book
  <2> HIDE DEF b, c
  <2> QED
    BY <1>5, <2>1, <2>2 DEF Closes
<1>7. c.out = b.out - g /\ b.cur.rewards = st.cur[v].rewards
  <2>1. c.out = n.out[v] /\ b.out = st.out[v] /\ b.cur = st.cur[v]
    BY BookIs
  <2> QED
    BY <1>5, <2>1
<1>8. Sound(c, L, st.height) /\ Last(c) \notin Kept(c, L)
  <2> HIDE DEF b, c, L
  <2> QED
    BY <1>3, <1>4, <1>6, <1>7, ClosedSound DEF b, L
<1>9. Balanced(n)
  <2>1. n.out = [st.out EXCEPT ![v] = st.out[v] - g]
    BY <1>1 DEF PeriodEnds
  <2>2. n.pool = st.pool + g /\ n.bal = st.bal /\ st.pool \in Nat /\ st.bal \in Int
    BY <1>0, <1>1 DEF PeriodEnds, Balanced
  <2>3. st.bal * Unit \in Int
    BY <2>2, ExportAssumption
  <2>4. st.out[v] - g \in Int
    BY <1>3, <1>4
  <2>5. n.bal * Unit - n.pool - (st.out[v] - g) = st.bal * Unit - st.pool - st.out[v]
    BY <1>3, <1>4, <2>2, <2>3
  <2>6. n.pool \in Nat /\ n.bal \in Int
    BY <1>3, <2>2
  <2> QED
    BY <2>1, <2>4, <2>5, <2>6, BalancedStays
<1>10. Maps(n)
  <2>1. n = [f \in Fields |-> n[f]]
    BY <1>1 DEF PeriodEnds
  <2>2. n.hist = [w \in Validator |-> n.hist[w]]
    BY <1>1, <1>2 DEF PeriodEnds
  <2>3. n.cur = [w \in Validator |-> n.cur[w]]
    BY <1>1, <1>2 DEF PeriodEnds
  <2>4. n.out = [w \in Validator |-> n.out[w]]
    BY <1>1, <1>2 DEF PeriodEnds
  <2>5. /\ n.comm = [w \in Validator |-> n.comm[w]] /\ n.events = [w \in Validator |-> n.events[w]]
        /\ n.stake \in [Delegation -> 0 .. Stake]
        /\ n.start \in [Delegation -> Start \cup {NoStart}]
    BY <1>0, <1>5 DEF Maps
  <2> QED
    BY <2>1, <2>2, <2>3, <2>4, <2>5 DEF Maps
<1>11. \A w \in Validator \ {v} : SameBook(st, n, w)
  <2>1. \A w \in Validator \ {v} : n.hist[w] = st.hist[w] /\ n.cur[w] = st.cur[w] /\ n.out[w] = st.out[w]
    BY <1>1, <1>2 DEF PeriodEnds
  <2> QED
    BY <1>5, <2>1 DEF SameBook
<1>12. SameElsewhere(st, n) /\ n.panic = FALSE /\ n.bal = st.bal
  BY <1>0, <1>1 DEF PeriodEnds
<1>13. Books(n, live)
  <2>1. Sound(c, L, n.height)
    BY <1>8, <1>12 DEF SameElsewhere
  <2>2. OtherBooks(st, live, n, live, v)
    BY <1>11 DEF OtherBooks
  <2> QED
    BY <1>9, <1>10, <1>12, <2>1, <2>2, OneBook
<1> QED
  BY <1>5, <1>6, <1>8, <1>11, <1>12, <1>13 DEF q

(* A delegation in the books of its validator.                             *)
LEMMA BookAt ==
  ASSUME NEW st, NEW v, NEW d \in Delegator
  PROVE  /\ Book(st, v).start[d] = st.start[<<d, v>>]
         /\ Book(st, v).stake[d] = st.stake[<<d, v>>]
BY DEF Book

(* The end of a period turns promises into claims.                         *)
LEMMA NewPeriodSettles ==
  ASSUME NEW st, NEW live, Books(st, live), NEW v \in Validator, NEW n, n = NewPeriod(st, v)
  PROVE  Settled(st, n, v, live[v])
<1> DEFINE b == Book(st, v)
           c == Book(n, v)
           L == live[v]
           q == Share(st, v)
<1>1. Books(n, live) /\ Closes(b, c, q)
  BY NewPeriodBooks
<1>2. \A w \in Validator \ {v} : SameBook(st, n, w)
  BY NewPeriodBooks
<1>3. n.cur[v].rewards = 0
  <2>1. c.cur = n.cur[v]
    BY BookIs
  <2> HIDE DEF b, c
  <2> QED
    BY <1>1, <2>1 DEF Closes
<1>4. Accounts(b, L) /\ Whole(b, L) /\ L \subseteq Delegator
  BY BooksFacts DEF Sound
<1>5. c.out \in Nat
  BY <1>1, BookIs, BooksFacts
<1>6. q \in Nat
  BY ShareFits
<1>7. ASSUME NEW k \in L
      PROVE  Claim(c, k) = Claim(b, k) + st.stake[<<k, v>>] * q
  <2>1. b.stake[k] = st.stake[<<k, v>>]
    BY <1>4, BookAt
  <2> HIDE DEF b, c, q, L
  <2>2. Claim(c, k) = Claim(b, k) + b.stake[k] * q
    BY <1>1, <1>4, <1>5, <1>6, ClosedClaim
  <2> QED
    BY <2>1, <2>2
<1> QED
  BY <1>2, <1>3, <1>7 DEF Settled

(* A promise is a number.                                                  *)
LEMMA PromiseType ==
  ASSUME NEW st, NEW live, Books(st, live), NEW v \in Validator, NEW d \in live[v]
  PROVE  /\ st.stake[<<d, v>>] \in Nat /\ Claim(Book(st, v), d) \in Nat
         /\ Share(st, v) \in Nat /\ Promise(st, v, d) \in Nat
<1>1. /\ live[v] \subseteq Delegator /\ Book(st, v).stake \in [Delegator -> Nat]
      /\ Accounts(Book(st, v), live[v])
  BY BooksFacts
<1>2. Book(st, v).stake[d] = st.stake[<<d, v>>] /\ d \in Delegator
  BY <1>1, BookAt
<1>3. Claim(Book(st, v), d) \in Nat
  BY <1>1, ClaimType
<1>4. Share(st, v) \in Nat
  BY ShareFits
<1>5. st.stake[<<d, v>>] \in Nat
  BY <1>1, <1>2
<1> DEFINE i == st.stake[<<d, v>>]
           c == Claim(Book(st, v), d)
           q == Share(st, v)
<1>6. Promise(st, v, d) = IF st.start[<<d, v>>].height = st.height THEN 0 ELSE c + i * q
  BY DEF Promise
<1>7. i \in Nat /\ c \in Nat /\ q \in Nat
  BY <1>3, <1>4, <1>5
<1> HIDE DEF i, c, q
<1>8. i * q \in Nat
  BY <1>7
<1> QED
  BY <1>3, <1>4, <1>5, <1>6, <1>7, <1>8

(* What the others have been promised stays so.                            *)
LEMMA PromiseStays ==
  ASSUME NEW st, NEW live, Books(st, live), NEW v \in Validator,
         NEW n, NEW L, Settled(st, n, v, L), SameElsewhere(st, n), n.stake = st.stake,
         NEW w \in Validator, NEW k \in live[w], w = v => k \in L,
         n.start[<<k, w>>] = st.start[<<k, w>>]
  PROVE  Promise(n, w, k) = Promise(st, w, k)
<1>1. n.height = st.height
  BY DEF SameElsewhere
<1>2. Tokens(n, w) = Tokens(st, w)
  BY DEF Tokens
<1>3. st.stake[<<k, w>>] \in Nat /\ Claim(Book(st, w), k) \in Nat /\ Share(st, w) \in Nat
  BY PromiseType
<1>4. CASE w = v
  <2>1. Claim(Book(n, w), k) = Claim(Book(st, w), k) + st.stake[<<k, w>>] * Share(st, w)
    BY <1>4 DEF Settled
  <2>2. Share(n, w) = 0
    <3>1. Tokens(st, w) \in Nat /\ n.cur[w].rewards = 0
      BY <1>4, TokensIs DEF Settled
    <3> QED
      BY <1>2, <3>1 DEF Share
  <2>3. Claim(Book(n, w), k) + n.stake[<<k, w>>] * Share(n, w)
          = Claim(Book(st, w), k) + st.stake[<<k, w>>] * Share(st, w)
    <3> DEFINE i == st.stake[<<k, w>>]
               c == Claim(Book(st, w), k)
               q == Share(st, w)
    <3>1. i \in Nat /\ c \in Nat /\ q \in Nat /\ n.stake[<<k, w>>] = i
      BY <1>3
    <3>2. Claim(Book(n, w), k) = c + i * q
      BY <2>1
    <3> HIDE DEF i, c, q
    <3>3. i * q \in Nat /\ i * 0 = 0
      BY <3>1
    <3>4. Claim(Book(n, w), k) + n.stake[<<k, w>>] * Share(n, w) = c + i * q
      BY <2>2, <3>1, <3>2, <3>3
    <3> QED
      BY <3>4 DEF i, c, q
  <2> QED
    BY <1>1, <2>3 DEF Promise
<1>5. CASE w # v
  <2>1. SameBook(st, n, w)
    BY <1>5 DEF Settled
  <2>2. Book(n, w) = Book(st, w)
    BY <2>1, SameBookIs
  <2>3. Share(n, w) = Share(st, w)
    BY <1>2, <2>1 DEF Share, SameBook
  <2> QED
    BY <1>1, <2>2, <2>3 DEF Promise
<1> QED
  BY <1>4, <1>5

(* A delegation starts.                                                    *)
Extends(now, live, v, d) ==
  now[v] = live[v] \cup {d} /\ \A w \in Validator \ {v} : now[w] = live[w]

StartsAt(st, n, x, start) ==
  /\ n.start = [st.start EXCEPT ![x] = start]
  /\ n.stake = st.stake /\ n.bal = st.bal /\ SameElsewhere(st, n)

(* initializeDelegation takes the reference on the period just ended.      *)
LEMMA InitializeDelegationBooks ==
  ASSUME NEW st, NEW live, Books(st, live), NEW v \in Validator, NEW d \in Delegator,
         d \notin live[v], Last(Book(st, v)) \notin Kept(Book(st, v), live[v]),
         NEW n, n = InitializeDelegation(st, <<d, v>>),
         NEW now, Extends(now, live, v, d)
  PROVE  /\ Books(n, now)
         /\ n.start[<<d, v>>] \in Start
         /\ StartsAt(st, n, <<d, v>>, n.start[<<d, v>>])
         /\ Carry(st, n, v, live[v])
<1> DEFINE x == <<d, v>>
           b == Book(st, v)
           c == Book(n, v)
           L == live[v]
           last == st.cur[v].period - 1
           A == AddReference(st, v, last)
           from == [period |-> last, stake |-> st.stake[x], height |-> st.height]
           N == [A EXCEPT !.start[x] = from]
<1>0. Maps(st) /\ Balanced(st) /\ st.panic = FALSE
  BY DEF Books
<1>1. /\ Sound(b, L, st.height) /\ Accounts(b, L) /\ IsHistory(st.hist[v])
      /\ Last(b) = last /\ last \in Nat /\ last \in DOMAIN st.hist[v] /\ st.height \in Nat
      /\ b.stake \in [Delegator -> Nat]
  BY BooksFacts
<1>2. /\ DOMAIN st = Fields /\ DOMAIN st.hist = Validator /\ DOMAIN st.start = Delegation
  BY <1>0, MapsFacts
<1>3. x \in Delegation /\ x[1] = d /\ x[2] = v
  BY DEF Delegation
<1>4. n = N
  BY <1>3 DEF InitializeDelegation, Ended
<1>5. st.hist[v][last].ref = 1
  <2>1. b.hist = st.hist[v] /\ Last(b) \in DOMAIN b.hist
    BY <1>1, BookIs
  <2>2. b.hist[Last(b)].ref
          = (IF Last(b) = Last(b) THEN 1 ELSE 0) + (IF Last(b) \in Kept(b, L) THEN 1 ELSE 0)
    BY <1>1, <2>1 DEF Accounts, Referred
  <2>3. b.hist[Last(b)].ref = 1
    BY <2>2
  <2> QED
    BY <1>1, <2>1, <2>3
<1>6. A = [st EXCEPT !.hist[v] = Added(@, last)]
  <2> HIDE DEF last
  <2> QED
    BY <1>1, <1>5, AddReferenceIs
<1> DEFINE Same(m) ==
      /\ m.cur = st.cur /\ m.out = st.out /\ m.pool = st.pool
      /\ m.bal = st.bal /\ m.comm = st.comm /\ m.events = st.events /\ m.stake = st.stake
      /\ m.panic = st.panic /\ SameElsewhere(st, m)
<1> HIDE DEF A, from, last, x
<1>7. /\ DOMAIN A = Fields /\ A = [f \in Fields |-> A[f]] /\ Same(A)
      /\ A.hist = [st.hist EXCEPT ![v] = Added(@, last)] /\ A.start = st.start
  BY <1>2, <1>6 DEF Fields, SameElsewhere
<1>8. /\ N = [f \in Fields |-> N[f]] /\ Same(N)
      /\ N.hist = A.hist /\ N.start = [st.start EXCEPT ![x] = from]
  BY <1>7 DEF Fields, SameElsewhere
<1> HIDE DEF N
<1>9. n.start[x] = from
  BY <1>2, <1>3, <1>4, <1>8
<1>10. from \in Start
  <2>1. st.stake[x] \in Nat
    <3>1. st.stake[x] = b.stake[d]
      BY BookAt DEF x
    <3> HIDE DEF b
    <3> QED
      BY <1>1, <3>1
  <2> QED
    BY <1>1, <2>1 DEF from, Start
<1>11. Sound(c, L \cup {d}, st.height) /\ \A k \in L : Claim(c, k) = Claim(b, k)
  <2>1. /\ c.hist = n.hist[v] /\ c.cur = n.cur[v] /\ c.out = n.out[v] /\ c.comm = n.comm[v]
        /\ c.events = n.events[v]
        /\ b.hist = st.hist[v] /\ b.cur = st.cur[v] /\ b.out = st.out[v]
        /\ b.comm = st.comm[v] /\ b.events = st.events[v]
    BY BookIs
  <2>2. c.hist = Added(b.hist, Last(b))
    <3>1. n.hist[v] = Added(st.hist[v], last)
      BY <1>2, <1>4, <1>7, <1>8
    <3> HIDE DEF b, c
    <3> QED
      BY <1>1, <2>1, <3>1
  <2>3. c.cur = b.cur /\ c.comm = b.comm /\ c.events = b.events /\ c.out = b.out
    <3> HIDE DEF b, c
    <3> QED
      BY <1>4, <1>8, <2>1
  <2>4. c.stake = b.stake
    <3>1. n.stake = st.stake
      BY <1>4, <1>8
    <3> QED
      BY <3>1 DEF Book
  <2>5. ASSUME NEW k \in L
        PROVE  c.start[k] = b.start[k] /\ c.stake[k] = b.stake[k]
    <3>1. k \in Delegator /\ k # d
      BY <1>1 DEF Accounts, BookType
    <3>2. <<k, v>> \in Delegation /\ <<k, v>> # x
      BY <3>1 DEF Delegation, x
    <3>3. n.start[<<k, v>>] = st.start[<<k, v>>]
      BY <1>2, <1>4, <1>8, <3>2
    <3>4. c.start[k] = n.start[<<k, v>>] /\ b.start[k] = st.start[<<k, v>>]
      BY <3>1, BookAt
    <3> QED
      BY <2>4, <3>3, <3>4
  <2>6. c.start[d] = [period |-> Last(b), stake |-> c.stake[d], height |-> st.height]
    <3>1. c.start[d] = n.start[x] /\ b.stake[d] = st.stake[x]
      BY BookAt DEF x
    <3> HIDE DEF b, c
    <3> QED
      BY <1>1, <1>9, <2>4, <3>1 DEF from
  <2>7. c.stake \in [Delegator -> Nat]
    BY <1>1, <2>4
  <2>8. d \in Delegator \ L
    OBVIOUS
  <2>9. Last(b) \notin Kept(b, L)
    OBVIOUS
  <2>10. SameDelegations(b, c, L)
    BY <2>5 DEF SameDelegations
  <2> HIDE DEF b, c, L
  <2>11. Sound(b, L, st.height) /\ st.height \in Nat
    BY <1>1
  <2> QED
    BY <2>2, <2>3, <2>6, <2>7, <2>8, <2>9, <2>10, <2>11, JoinedSound
<1>12. SameElsewhere(st, n) /\ n.panic = FALSE /\ n.bal = st.bal /\ n.stake = st.stake
  BY <1>0, <1>4, <1>8
<1>13. Balanced(n)
  BY <1>0, <1>4, <1>8 DEF Balanced
<1>14. Maps(n)
  <2>1. n = [f \in Fields |-> n[f]]
    BY <1>4, <1>8
  <2>2. n.hist = [w \in Validator |-> n.hist[w]]
    BY <1>2, <1>4, <1>7, <1>8
  <2>3. n.start \in [Delegation -> Start \cup {NoStart}]
    <3>1. st.start \in [Delegation -> Start \cup {NoStart}]
      BY <1>0 DEF Maps
    <3> QED
      BY <1>3, <1>4, <1>8, <1>10, <3>1
  <2>4. /\ n.comm = [w \in Validator |-> n.comm[w]] /\ n.events = [w \in Validator |-> n.events[w]]
        /\ n.cur = [w \in Validator |-> n.cur[w]] /\ n.out = [w \in Validator |-> n.out[w]]
        /\ n.stake \in [Delegation -> 0 .. Stake]
    BY <1>0, <1>4, <1>8 DEF Maps
  <2> QED
    BY <2>1, <2>2, <2>3, <2>4 DEF Maps
<1>15. ASSUME NEW w \in Validator \ {v}
       PROVE  SameBook(st, n, w)
  <2>1. n.hist[w] = st.hist[w]
    BY <1>2, <1>4, <1>7, <1>8
  <2>2. \A k \in Delegator : n.start[<<k, w>>] = st.start[<<k, w>>]
    <3>1. \A k \in Delegator : <<k, w>> \in Delegation /\ <<k, w>> # x
      BY DEF Delegation, x
    <3> QED
      BY <1>2, <1>4, <1>8, <3>1
  <2> QED
    BY <1>4, <1>8, <2>1, <2>2 DEF SameBook
<1>16. Books(n, now)
  <2>1. Sound(c, now[v], n.height)
    BY <1>11, <1>12 DEF SameElsewhere, Extends
  <2>2. OtherBooks(st, live, n, now, v)
    BY <1>15 DEF Extends, OtherBooks
  <2> QED
    BY <1>12, <1>13, <1>14, <2>1, <2>2, OneBook
<1>17. n.start = [st.start EXCEPT ![x] = n.start[x]]
  BY <1>4, <1>8, <1>9
<1>18. Carry(st, n, v, L)
  <2>1. n.cur = st.cur
    BY <1>4, <1>8
  <2> QED
    BY <1>11, <1>15, <2>1 DEF Carry
<1> QED
  BY <1>9, <1>10, <1>12, <1>16, <1>17, <1>18 DEF StartsAt, x

(* No slash ended a later period than the last one.                        *)
LEMMA LastIsMax ==
  ASSUME NEW n \in Nat, NEW T, T \subseteq 0 .. n
  PROVE  Max({n} \cup T) = n
<1>1. n \in {n} \cup T /\ \A y \in {n} \cup T : n >= y
  OBVIOUS
<1>2. \A x \in {n} \cup T : x >= n => x = n
  OBVIOUS
<1> QED
  BY <1>1, <1>2 DEF Max

(* The rewards that the code computes are the claim, or nothing to a       *)
(* delegation that starts at this height, and it does not panic.           *)
LEMMA RewardsIs ==
  ASSUME NEW st, NEW live, Books(st, live), NEW v \in Validator, NEW d \in live[v]
  PROVE  /\ Rewards(st, <<d, v>>).bad = FALSE
         /\ Rewards(st, <<d, v>>).amount \in Nat
         /\ Rewards(st, <<d, v>>).amount <= Claim(Book(st, v), d)
         /\ st.start[<<d, v>>].height = st.height => Rewards(st, <<d, v>>).amount = 0
         /\ st.start[<<d, v>>].height # st.height
              => Rewards(st, <<d, v>>).amount = Claim(Book(st, v), d)
<1> DEFINE x == <<d, v>>
           b == Book(st, v)
           L == live[v]
           h == st.hist[v]
           from == st.start[x]
           n == Last(b)
           S == Slashes(b)
           T == {e.period : e \in {f \in st.events[v] : f.height \in from.height .. st.height}}
           a == Earned(h, from, T, n)[n]
           total == Upto(h, a, n)
           R == Rewards(st, x)
<1>1. /\ Sound(b, L, st.height) /\ Accounts(b, L) /\ IsHistory(h) /\ n \in Nat
      /\ Last(b) = st.cur[v].period - 1 /\ st.height \in Nat /\ L \subseteq Delegator
  BY BooksFacts
<1>2. BookType(b, L) /\ Referred(b, L) /\ InTime(b, L, st.height) /\ Whole(b, L) /\ Growing(h)
  <2>1. b.hist = h
    BY BookIs
  <2> QED
    BY <1>1, <2>1 DEF Sound
<1>3. d \in Delegator /\ x[2] = v /\ x[1] = d
  BY <1>1
<1>4. b.start[d] = from /\ b.stake[d] = st.stake[x] /\ b.hist = h /\ b.events = st.events[v]
  BY <1>3, BookAt, BookIs
<1>5. Ended(st, v) = n
  BY <1>1 DEF Ended
<1>6. R = IF from.height = st.height THEN Nothing(from)
          ELSE [total EXCEPT !.bad = @ \/ total.stake > st.stake[x]]
  <2>1. S \subseteq 0 .. n
    BY <1>2 DEF Referred, Kept
  <2>2. T \subseteq S
    BY <1>4 DEF Slashes
  <2>3. T \subseteq 0 .. n
    BY <2>1, <2>2
  <2> HIDE DEF n, T
  <2>4. Max({n} \cup T) = n
    BY <1>1, <2>3, LastIsMax
  <2> QED
    BY <1>3, <1>5, <2>4 DEF Rewards, T
<1> HIDE DEF b, h, from, n, S, x, L
<1>7. /\ from \in Start /\ from.period \in Nat /\ Fits(h, from, S, n)
  BY <1>1, <1>2, <1>4, BookFacts DEF S, n, L
<1>8. SameSlashes(from, S, T, n)
  <2> SUFFICES ASSUME NEW p \in 0 .. n, from.period < p
               PROVE  p \in S <=> p \in T
    BY DEF SameSlashes
  <2>1. ASSUME p \in T
        PROVE  p \in S
    BY <1>4, <2>1 DEF S, Slashes
  <2>2. ASSUME p \in S
        PROVE  p \in T
    <3>1. PICK e \in b.events : e.period = p
      BY <2>2 DEF S, Slashes
    <3>2. e.height \in Nat /\ from.height \in Nat
      BY <1>2, <1>7, <3>1 DEF BookType, Event, Start
    <3>3. from.height <= e.height
      <4>1. e.period > b.start[d].period
        BY <1>4, <1>7, <3>1
      <4>2. b.start[d].height <= e.height
        BY <1>2, <3>1, <4>1 DEF InTime, L
      <4> QED
        BY <1>4, <4>2
    <3>4. e.height <= st.height
      BY <1>2, <3>1 DEF InTime
    <3>5. e.height \in from.height .. st.height
      BY <1>1, <3>2, <3>3, <3>4
    <3> QED
      BY <1>4, <3>1, <3>5
  <2> QED
    BY <2>1, <2>2
<1>9. a = Earning(b, d)
  <2>1. Alike(h, h, from, S, n) /\ n <= n
    BY <1>1 DEF Alike
  <2> HIDE DEF T
  <2>2. a = Earned(h, from, S, n)[n]
    BY <1>1, <1>2, <1>7, <1>8, <2>1, EarnedSame
  <2> QED
    BY <1>4, <2>2 DEF Earning, S, n
<1>10. /\ a \in Account /\ Claim(b, d) \in Nat /\ Claim(b, d) = total.amount
       /\ total.bad = FALSE
  <2>1. /\ Earning(b, d) \in Account /\ Claim(b, d) \in Nat
        /\ Upto(b.hist, Earning(b, d), Last(b)).bad = FALSE
    BY <1>1, ClaimType DEF L
  <2> HIDE DEF a
  <2> QED
    BY <1>4, <1>9, <2>1 DEF Claim, n
<1> HIDE DEF a
<1>11. total \in Account /\ total.stake = a.stake
  BY <1>1, <1>10, UptoType
<1>12. total.stake = st.stake[x] /\ total.stake \in Nat
  <2>1. Earning(b, d).stake = b.stake[d]
    BY <1>2 DEF Whole, L
  <2> QED
    BY <1>4, <1>9, <1>10, <1>11, <2>1 DEF Account
<1> HIDE DEF total, R
<1>13. CASE from.height = st.height
  <2>1. R = Nothing(from)
    BY <1>6, <1>13
  <2> QED
    BY <1>10, <1>13, <2>1 DEF Nothing, R, x, b, from
<1>14. CASE from.height # st.height
  <2>1. R = [total EXCEPT !.bad = @ \/ total.stake > st.stake[x]]
    BY <1>6, <1>14
  <2>2. R.amount = total.amount
    BY <1>11, <2>1 DEF Account
  <2>3. ~(total.stake > st.stake[x])
    BY <1>12
  <2>4. R.bad = (total.bad \/ total.stake > st.stake[x])
    BY <1>11, <2>1 DEF Account
  <2>5. R.bad = FALSE
    BY <1>10, <2>3, <2>4
  <2>6. R.amount \in Nat /\ R.amount <= Claim(b, d) /\ R.amount = Claim(b, d)
    BY <1>10, <2>2
  <2> QED
    BY <1>14, <2>5, <2>6 DEF R, x, b, from
<1> QED
  BY <1>13, <1>14

(* A delegation is paid out.                                               *)
Leaves(now, live, v, d) ==
  now[v] = live[v] \ {d} /\ \A w \in Validator \ {v} : now[w] = live[w]

(* What is paid leaves the account in whole coins, the rest is given to    *)
(* the pool.                                                               *)
LEMMA WholeCoins ==
  ASSUME NEW amount \in Nat
  PROVE  /\ amount \div Unit \in Nat /\ amount % Unit \in Nat
         /\ (amount \div Unit) * Unit + (amount % Unit) = amount
<1>1. Unit \in Nat /\ Unit > 0
  BY ExportAssumption
<1> QED
  BY <1>1

(* The account pays k coins.                                               *)
Pays(st, n, k) == n.bal = st.bal - k

(* withdrawDelegationRewards pays whole coins, leaves the rest in the      *)
(* pool, and takes the delegation out of the books.                        *)
LEMMA PayOutBooks ==
  ASSUME NEW st, NEW live, Books(st, live), NEW v \in Validator, NEW d \in live[v],
         NEW n, n = PayOut(st, <<d, v>>), NEW now, Leaves(now, live, v, d)
  PROVE  /\ Books(n, now)
         /\ Last(Book(n, v)) \notin Kept(Book(n, v), now[v])
         /\ n.start = [st.start EXCEPT ![<<d, v>>] = NoStart]
         /\ n.stake = st.stake /\ SameElsewhere(st, n)
         /\ Settled(st, n, v, now[v])
         /\ Pays(st, n, Promise(st, v, d) \div Unit)
<1> DEFINE x == <<d, v>>
           L == live[v]
           m == NewPeriod(st, v)
           b == Book(m, v)
           c == Book(n, v)
           r == Rewards(m, x)
           amount == IF r.amount < m.out[v] THEN r.amount ELSE m.out[v]
           p == st.start[x].period
           P == [m EXCEPT !.panic = @ \/ r.bad,
                          !.bal = @ - amount \div Unit, !.out[v] = @ - amount,
                          !.pool = @ + (amount % Unit), !.start[x] = NoStart]
           D == DropReference(P, v, p)
<1>0. /\ Books(m, live)
      /\ Last(b) \notin Kept(b, L)
      /\ m.start = st.start /\ m.stake = st.stake
      /\ SameElsewhere(st, m) /\ m.bal = st.bal
  BY NewPeriodBooks
<1>b. Settled(st, m, v, L)
  BY NewPeriodSettles
<1>1. /\ Sound(b, L, m.height) /\ Accounts(b, L) /\ IsHistory(m.hist[v])
      /\ m.out[v] \in Nat /\ L \subseteq Delegator /\ b.stake \in [Delegator -> Nat]
      /\ m.height \in Nat
  <2> HIDE DEF m
  <2> QED
    BY <1>0, BooksFacts
<1>2. d \in Delegator /\ x \in Delegation /\ x[2] = v /\ x[1] = d
  BY <1>1 DEF Delegation
<1>3. n = D
  BY <1>2 DEF PayOut
<1>4. /\ r.bad = FALSE /\ r.amount \in Nat /\ r.amount <= Claim(b, d)
      /\ m.start[x].height = m.height => r.amount = 0
      /\ m.start[x].height # m.height => r.amount = Claim(b, d)
  <2>1. Books(m, live)
    BY <1>0
  <2> HIDE DEF m
  <2>2. /\ Rewards(m, <<d, v>>).bad = FALSE
        /\ Rewards(m, <<d, v>>).amount \in Nat
        /\ Rewards(m, <<d, v>>).amount <= Claim(Book(m, v), d)
        /\ m.start[<<d, v>>].height = m.height => Rewards(m, <<d, v>>).amount = 0
        /\ m.start[<<d, v>>].height # m.height
             => Rewards(m, <<d, v>>).amount = Claim(Book(m, v), d)
    BY <2>1, RewardsIs
  <2> QED
    BY <2>2
<1>5. Maps(m) /\ Balanced(m) /\ m.panic = FALSE
  BY <1>0 DEF Books
<1> HIDE DEF m
<1>6. /\ DOMAIN m = Fields /\ DOMAIN m.hist = Validator /\ DOMAIN m.start = Delegation
      /\ DOMAIN m.out = Validator
  BY <1>5, MapsFacts
<1>7. amount \in Nat /\ amount <= Claim(b, d)
  <2>1. Claim(b, d) \in Nat
    BY <1>1, ClaimType
  <2> HIDE DEF r, b
  <2> QED
    BY <1>1, <1>4, <2>1
<1>8. /\ b.hist = m.hist[v] /\ b.cur = m.cur[v] /\ b.out = m.out[v] /\ b.comm = m.comm[v]
      /\ b.events = m.events[v] /\ b.start[d] = m.start[x]
  BY <1>2, BookIs, BookAt
<1>9. p \in DOMAIN m.hist[v] /\ m.hist[v][p].ref = 1 /\ p = b.start[d].period
  <2>1. p = b.start[d].period
    BY <1>0, <1>8
  <2>2. p \in Kept(b, L)
    BY <2>1 DEF Kept, Starts
  <2> HIDE DEF b, p, L
  <2>3. p \in DOMAIN b.hist /\ p # Last(b)
    BY <1>0, <1>1, <2>2 DEF Accounts, Referred
  <2>4. b.hist[p].ref = (IF p = Last(b) THEN 1 ELSE 0) + (IF p \in Kept(b, L) THEN 1 ELSE 0)
    BY <1>1, <2>3 DEF Accounts, Referred
  <2>5. b.hist[p].ref = 1
    BY <2>2, <2>3, <2>4
  <2> QED
    BY <1>8, <2>1, <2>3, <2>5
<1>c. amount = r.amount
  <2>1. Claim(b, d) <= b.out
    BY <1>1, ClaimFits
  <2> HIDE DEF r, b
  <2>2. r.amount <= m.out[v]
    BY <1>1, <1>4, <1>8, <2>1
  <2> QED
    BY <1>1, <1>4, <2>2
<1>d. amount = Promise(st, v, d)
  <2>1. m.start = st.start /\ m.height = st.height
    BY <1>0 DEF SameElsewhere
  <2>2. Claim(b, d) = Claim(Book(st, v), d) + st.stake[x] * Share(st, v)
    BY <1>b DEF Settled
  <2> HIDE DEF r, b, amount
  <2> QED
    BY <1>4, <1>c, <2>1, <2>2 DEF Promise
<1> DEFINE Same(k) == /\ k.cur = m.cur /\ k.comm = m.comm /\ k.events = m.events
                      /\ k.stake = m.stake /\ SameElsewhere(m, k)
                      /\ k.out = [m.out EXCEPT ![v] = @ - amount]
                      /\ k.bal = m.bal - amount \div Unit
                      /\ k.pool = m.pool + (amount % Unit)
                      /\ k.start = [m.start EXCEPT ![x] = NoStart]
<1> HIDE DEF amount, r, x, p
<1>10. /\ DOMAIN P = Fields /\ P = [f \in Fields |-> P[f]] /\ Same(P) /\ P.hist = m.hist
  BY <1>6 DEF Fields, SameElsewhere
<1>11. P.panic = FALSE
  <2>1. P.panic = (m.panic \/ r.bad)
    BY <1>6 DEF Fields
  <2> QED
    BY <1>4, <1>5, <2>1
<1> HIDE DEF P
<1>12. D = [P EXCEPT !.hist[v] = Dropped(@, p)]
  <2>1. IsHistory(P.hist[v]) /\ p \in DOMAIN P.hist[v] /\ P.hist[v][p].ref >= 1
    BY <1>1, <1>9, <1>10
  <2> QED
    BY <2>1, DropReferenceIs
<1> HIDE DEF D
<1>13. /\ n = [f \in Fields |-> n[f]] /\ Same(n) /\ n.panic = FALSE
       /\ n.hist = [m.hist EXCEPT ![v] = Dropped(@, p)]
  <2> HIDE DEF b, c
  <2> QED
    BY <1>3, <1>10, <1>11, <1>12 DEF Fields, SameElsewhere
<1>14. /\ Sound(c, L \ {d}, m.height) /\ Last(c) \notin Kept(c, L \ {d})
       /\ \A k \in L \ {d} : Claim(c, k) = Claim(b, k)
  <2>1. /\ c.hist = n.hist[v] /\ c.cur = n.cur[v] /\ c.out = n.out[v] /\ c.comm = n.comm[v]
        /\ c.events = n.events[v]
    BY BookIs
  <2>2. c.hist = Dropped(b.hist, b.start[d].period)
    <3>1. n.hist[v] = Dropped(m.hist[v], p)
      BY <1>6, <1>13
    <3> HIDE DEF b, c
    <3> QED
      BY <1>8, <1>9, <2>1, <3>1
  <2>3. c.cur = b.cur /\ c.comm = b.comm /\ c.events = b.events /\ c.out = b.out - amount
    <3>1. n.out[v] = m.out[v] - amount
      BY <1>6, <1>13
    <3>2. n.cur = m.cur /\ n.comm = m.comm /\ n.events = m.events
      BY <1>13
    <3> HIDE DEF b, c, Same
    <3> QED
      BY <1>8, <2>1, <3>1, <3>2
  <2>4. c.stake = b.stake
    <3>1. n.stake = m.stake
      BY <1>13
    <3> QED
      BY <3>1 DEF Book
  <2>5. ASSUME NEW k \in L \ {d}
        PROVE  c.start[k] = b.start[k] /\ c.stake[k] = b.stake[k]
    <3>1. k \in Delegator /\ k # d
      BY <1>1
    <3>2. <<k, v>> \in Delegation /\ <<k, v>> # x
      BY <3>1 DEF Delegation, x
    <3>3. n.start[<<k, v>>] = m.start[<<k, v>>]
      BY <1>6, <1>13, <3>2
    <3>4. c.start[k] = n.start[<<k, v>>] /\ b.start[k] = m.start[<<k, v>>]
      BY <3>1, BookAt
    <3> QED
      BY <2>4, <3>3, <3>4
  <2>6. SameDelegations(b, c, L \ {d})
    BY <2>5 DEF SameDelegations
  <2>7. c.stake \in [Delegator -> Nat]
    BY <1>1, <2>4
  <2>8. IsPaid(b, c, L, d, amount) /\ d \in L
    BY <2>2, <2>3, <2>6, <2>7 DEF IsPaid
  <2>9. /\ Sound(b, L, m.height) /\ Last(b) \notin Kept(b, L)
        /\ amount \in Nat /\ amount <= Claim(b, d)
    BY <1>0, <1>1, <1>7
  <2> HIDE DEF b, c, L
  <2> QED
    BY <2>8, <2>9, RemovedSound
<1>15. Balanced(n)
  <2> DEFINE coins == amount \div Unit
             rest == amount % Unit
             y == m.out[v] - amount
  <2>1. coins \in Nat /\ rest \in Nat /\ coins * Unit + rest = amount
    BY <1>7, WholeCoins
  <2>2. /\ n.bal = m.bal - coins /\ n.pool = m.pool + rest
        /\ n.out = [m.out EXCEPT ![v] = y]
    BY <1>13
  <2> HIDE DEF coins, rest
  <2>3. m.bal \in Int /\ m.pool \in Nat /\ Unit \in Nat
    BY <1>5, ExportAssumption DEF Balanced
  <2>4. n.bal \in Int /\ n.pool \in Nat /\ y \in Int
    BY <1>1, <1>7, <2>1, <2>2, <2>3
  <2>5. n.bal * Unit = m.bal * Unit - coins * Unit
    <3>1. (m.bal - coins) * Unit = m.bal * Unit - coins * Unit
      BY <2>1, <2>3
    <3> QED
      BY <2>2, <3>1
  <2>6. m.bal * Unit \in Int /\ coins * Unit \in Int
    BY <2>1, <2>3
  <2>7. n.bal * Unit - n.pool - y = m.bal * Unit - m.pool - m.out[v]
    <3> DEFINE u == m.bal * Unit
               w == coins * Unit
               o == m.out[v]
    <3>1. u \in Int /\ w \in Int /\ o \in Int /\ rest \in Int /\ m.pool \in Int
      BY <1>1, <2>1, <2>3, <2>6
    <3>2. n.bal * Unit = u - w /\ n.pool = m.pool + rest /\ amount = w + rest /\ y = o - amount
      BY <2>1, <2>2, <2>5
    <3> HIDE DEF u, w, o, y
    <3>3. n.bal * Unit - n.pool - y = u - m.pool - o
      BY <3>1, <3>2
    <3> QED
      BY <3>3 DEF u, o
  <2> HIDE DEF y
  <2> QED
    BY <1>0, <2>2, <2>4, <2>7, BalancedStays
<1>16. Maps(n)
  <2>1. n = [f \in Fields |-> n[f]]
    BY <1>13
  <2>2. n.hist = [w \in Validator |-> n.hist[w]] /\ n.out = [w \in Validator |-> n.out[w]]
    BY <1>6, <1>13
  <2>3. n.start \in [Delegation -> Start \cup {NoStart}]
    <3>1. m.start \in [Delegation -> Start \cup {NoStart}]
      BY <1>5 DEF Maps
    <3> QED
      BY <1>2, <1>13, <3>1
  <2>4. /\ n.comm = [w \in Validator |-> n.comm[w]] /\ n.events = [w \in Validator |-> n.events[w]]
        /\ n.cur = [w \in Validator |-> n.cur[w]]
        /\ n.stake \in [Delegation -> 0 .. Stake]
    BY <1>5, <1>13 DEF Maps
  <2> QED
    BY <2>1, <2>2, <2>3, <2>4 DEF Maps
<1>17. ASSUME NEW w \in Validator \ {v}
       PROVE  SameBook(m, n, w)
  <2>1. n.hist[w] = m.hist[w] /\ n.out[w] = m.out[w]
    BY <1>6, <1>13
  <2>2. \A k \in Delegator : n.start[<<k, w>>] = m.start[<<k, w>>]
    <3>1. \A k \in Delegator : <<k, w>> \in Delegation /\ <<k, w>> # x
      BY DEF Delegation, x
    <3> QED
      BY <1>6, <1>13, <3>1
  <2> QED
    BY <1>13, <2>1, <2>2 DEF SameBook
<1>18. now[v] = L \ {d}
  BY DEF Leaves
<1>19. Books(n, now)
  <2>1. Sound(c, now[v], n.height)
    BY <1>13, <1>14, <1>18 DEF SameElsewhere
  <2>2. OtherBooks(m, live, n, now, v)
    BY <1>17 DEF Leaves, OtherBooks
  <2>3. SameElsewhere(m, n) /\ n.panic = FALSE
    BY <1>13
  <2> QED
    BY <1>0, <1>15, <1>16, <2>1, <2>2, <2>3, OneBook
<1>20. SameElsewhere(st, n)
  BY <1>0, <1>13 DEF SameElsewhere
<1>21. n.start = [st.start EXCEPT ![x] = NoStart] /\ n.stake = st.stake
  BY <1>0, <1>13
<1>22. Settled(st, n, v, L \ {d})
  <2>1. Carry(m, n, v, L \ {d})
    BY <1>13, <1>14, <1>17 DEF Carry
  <2> QED
    BY <1>b, <2>1, StaysSettled
<1>23. Pays(st, n, amount \div Unit)
  BY <1>0, <1>13 DEF Pays
<1> QED
  BY <1>14, <1>18, <1>19, <1>20, <1>21, <1>22, <1>23, <1>d DEF x

(* Rewards come in, commission goes out, and delegations that the books do *)
(* not carry change their stakes.                                          *)
Earns(b, c, L) ==
  /\ c.hist = b.hist /\ c.events = b.events
  /\ SameDelegations(b, c, L) /\ c.stake \in [Delegator -> Nat]
  /\ c.cur \in [period : Nat \ {0}, rewards : Nat] /\ c.cur.period = b.cur.period
  /\ c.comm \in Nat /\ c.out \in Int
  /\ c.out - c.comm - c.cur.rewards = b.out - b.comm - b.cur.rewards

(* More money for a validator keeps its books sound.                       *)
LEMMA EarnsSound ==
  ASSUME NEW b, NEW L, NEW h, Sound(b, L, h), NEW c, Earns(b, c, L)
  PROVE  Sound(c, L, h) /\ Last(c) = Last(b) /\ Kept(c, L) = Kept(b, L)
<1>0. /\ Accounts(b, L) /\ BookType(b, L) /\ Referred(b, L) /\ Growing(b.hist)
      /\ Whole(b, L) /\ Solvent(b, L) /\ InTime(b, L, h)
  BY DEF Sound, Accounts
<1>a. \A d \in L : c.start[d] = b.start[d] /\ c.stake[d] = b.stake[d]
  BY DEF Earns, SameDelegations
<1>1. Last(c) = Last(b) /\ Slashes(c) = Slashes(b) /\ Kept(c, L) = Kept(b, L)
  <2>1. Last(c) = Last(b) /\ Slashes(c) = Slashes(b)
    BY DEF Earns, Last, Slashes
  <2>2. Starts(c, L) = Starts(b, L)
    BY <1>a DEF Starts
  <2> QED
    BY <2>1, <2>2 DEF Kept
<1>2. \A d \in L : Earning(c, d) = Earning(b, d) /\ Claim(c, d) = Claim(b, d)
  BY <1>a, <1>1 DEF Earning, Claim, Earns
<1>3. Claims(c, L) = Claims(b, L)
  <2>1. [d \in L |-> Claim(c, d)] = [d \in L |-> Claim(b, d)]
    BY <1>2
  <2> QED
    BY <2>1 DEF Claims
<1>4. Claims(b, L) \in Nat
  BY <1>0, ClaimsType
<1>5. /\ b.out \in Nat /\ b.comm \in Nat /\ b.cur.rewards \in Nat /\ c.cur.rewards \in Nat
      /\ c.comm \in Nat /\ c.out \in Int
      /\ c.out - c.comm - c.cur.rewards = b.out - b.comm - b.cur.rewards
  BY <1>0 DEF BookType, Earns
<1>6. b.out >= b.comm + b.cur.rewards + Claims(b, L)
  BY <1>0 DEF Solvent
<1>7. c.out >= c.comm + c.cur.rewards + Claims(c, L)
  BY <1>3, <1>4, <1>5, <1>6
<1>8. c.out \in Nat
  BY <1>3, <1>4, <1>5, <1>7
<1>9. BookType(c, L)
  BY <1>0, <1>a, <1>8 DEF BookType, Earns
<1>10. Referred(c, L)
  BY <1>0, <1>a, <1>1 DEF Referred, Earns
<1>11. InTime(c, L, h)
  BY <1>0, <1>a DEF InTime, Earns
<1>12. Whole(c, L)
  BY <1>0, <1>a, <1>2 DEF Whole
<1>13. Solvent(c, L)
  BY <1>7 DEF Solvent
<1> QED
  BY <1>0, <1>1, <1>9, <1>10, <1>11, <1>12, <1>13 DEF Sound, Earns

AllEarn(st, n, live) == \A v \in Validator : Earns(Book(st, v), Book(n, v), live[v])

StillOpen(st, n, live) ==
  \A v \in Validator : /\ Last(Book(n, v)) = Last(Book(st, v))
                       /\ Kept(Book(n, v), live[v]) = Kept(Book(st, v), live[v])

(* A change of money that takes from no claim keeps all books in order.    *)
LEMMA BooksStay ==
  ASSUME NEW st, NEW live, Books(st, live), NEW n, Maps(n), Elsewhere(n),
         st.height <= n.height, n.panic = FALSE, Balanced(n), AllEarn(st, n, live)
  PROVE  Books(n, live) /\ StillOpen(st, n, live)
<1>1. st.height \in Nat /\ n.height \in Nat
  BY DEF Books, Elsewhere
<1>2. ASSUME NEW v \in Validator
      PROVE  /\ Sound(Book(n, v), live[v], n.height)
             /\ Last(Book(n, v)) = Last(Book(st, v))
             /\ Kept(Book(n, v), live[v]) = Kept(Book(st, v), live[v])
  <2> DEFINE b == Book(st, v)
             c == Book(n, v)
             L == live[v]
  <2>1. Sound(b, L, st.height) /\ Earns(b, c, L)
    BY DEF Books, AllSound, AllEarn
  <2> HIDE DEF b, c, L
  <2>2. Sound(c, L, st.height) /\ Last(c) = Last(b) /\ Kept(c, L) = Kept(b, L)
    BY <2>1, EarnsSound
  <2>3. Sound(c, L, n.height)
    BY <1>1, <2>2, SoundLater
  <2> QED
    BY <2>2, <2>3 DEF b, c, L
<1> QED
  BY <1>2 DEF Books, AllSound, StillOpen

(* An operation on the rest of the state: heights, jail, exits, and stakes *)
(* of delegations that the books do not carry.                             *)
SameMoney(st, n) ==
  /\ n = [f \in Fields |-> n[f]]
  /\ n.hist = st.hist /\ n.cur = st.cur /\ n.out = st.out /\ n.comm = st.comm
  /\ n.events = st.events /\ n.start = st.start /\ n.pool = st.pool /\ n.bal = st.bal
  /\ n.panic = st.panic

SameStakes(st, n, live) ==
  /\ n.stake \in [Delegation -> 0 .. Stake]
  /\ \A v \in Validator : \A d \in live[v] : n.stake[<<d, v>>] = st.stake[<<d, v>>]

(* So does a change of jailing, index, unbondings and heights only.        *)
LEMMA RestChanges ==
  ASSUME NEW st, NEW live, Books(st, live), NEW n, SameMoney(st, n), SameStakes(st, n, live),
         Elsewhere(n), st.height <= n.height
  PROVE  Books(n, live) /\ StillOpen(st, n, live)
<1>1. Maps(n)
  BY DEF Maps, Books, SameMoney, SameStakes
<1>2. Balanced(n) /\ n.panic = FALSE
  BY DEF Balanced, Books, SameMoney
<1>3. ASSUME NEW v \in Validator
      PROVE  Earns(Book(st, v), Book(n, v), live[v])
  <2> DEFINE b == Book(st, v)
             c == Book(n, v)
             L == live[v]
  <2>1. BookType(b, L)
    BY DEF Books, AllSound, Sound
  <2>2. /\ c.hist = b.hist /\ c.cur = b.cur /\ c.out = b.out /\ c.comm = b.comm
        /\ c.events = b.events /\ c.start = b.start
    BY DEF SameMoney, Book
  <2>3. c.stake \in [Delegator -> Nat]
    <3>1. \A d \in Delegator : n.stake[<<d, v>>] \in Nat
      <4>1. \A d \in Delegator : <<d, v>> \in Delegation
        BY DEF Delegation
      <4>2. 0 .. Stake \subseteq Nat
        BY ExportAssumption
      <4> QED
        BY <4>1, <4>2 DEF SameStakes
    <3> QED
      BY <3>1 DEF Book
  <2>4. SameDelegations(b, c, L)
    <3> SUFFICES ASSUME NEW k \in L
                 PROVE  c.start[k] = b.start[k] /\ c.stake[k] = b.stake[k]
      BY DEF SameDelegations
    <3>1. k \in Delegator
      BY <2>1 DEF BookType
    <3>2. c.stake[k] = n.stake[<<k, v>>] /\ b.stake[k] = st.stake[<<k, v>>]
      BY <3>1, BookAt
    <3> QED
      BY <2>2, <3>2 DEF SameStakes
  <2> HIDE DEF b, c, L
  <2>5. /\ b.cur \in [period : Nat \ {0}, rewards : Nat] /\ b.comm \in Nat /\ b.out \in Int
    BY <2>1 DEF BookType
  <2>6. Earns(b, c, L)
    BY <2>2, <2>3, <2>4, <2>5 DEF Earns
  <2> QED
    BY <2>6 DEF b, c, L
<1>4. AllEarn(st, n, live)
  BY <1>3 DEF AllEarn
<1> QED
  BY <1>1, <1>2, <1>4, BooksStay

(* What an operation leaves of a delegation's record, if any.              *)
Restarts(st, n, x) ==
  /\ n.start[x] \in Start /\ n.start = [st.start EXCEPT ![x] = n.start[x]]
  /\ n.stake = st.stake /\ SameElsewhere(st, n)

(* What was promised to everybody else is promised still.                  *)
OthersPromised(st, n, live, x) ==
  \A w \in Validator : \A k \in live[w] :
    <<k, w>> # x => Promise(n, w, k) = Promise(st, w, k)

(* WithdrawDelegationRewards: out of the books and into them again.        *)
LEMMA WithdrawBooks ==
  ASSUME NEW st, NEW live, Books(st, live), NEW v \in Validator, NEW d \in live[v],
         NEW n, n = WithdrawDelegationRewards(st, <<d, v>>)
  PROVE  /\ Books(n, live) /\ Restarts(st, n, <<d, v>>)
         /\ n.bal = st.bal - Promise(st, v, d) \div Unit
         /\ OthersPromised(st, n, live, <<d, v>>)
<1> DEFINE x == <<d, v>>
           m == PayOut(st, x)
           gone == [w \in Validator |-> IF w = v THEN live[w] \ {d} ELSE live[w]]
<1>1. Leaves(gone, live, v, d) /\ Extends(live, gone, v, d) /\ d \notin gone[v]
  BY DEF Leaves, Extends
<1>2. d \in Delegator /\ x \in Delegation
  <2>1. live[v] \subseteq Delegator
    BY BooksFacts
  <2> QED
    BY <2>1 DEF Delegation
<1>3. /\ Books(m, gone) /\ Last(Book(m, v)) \notin Kept(Book(m, v), gone[v])
      /\ m.start = [st.start EXCEPT ![x] = NoStart] /\ m.stake = st.stake
      /\ SameElsewhere(st, m) /\ Settled(st, m, v, gone[v])
      /\ Pays(st, m, Promise(st, v, d) \div Unit)
  <2> HIDE DEF gone
  <2> QED
    BY <1>1, PayOutBooks
<1>4. n = InitializeDelegation(m, x)
  BY DEF WithdrawDelegationRewards
<1> HIDE DEF m, gone
<1>5. /\ Books(n, live) /\ n.start[x] \in Start /\ StartsAt(m, n, x, n.start[x])
      /\ Carry(m, n, v, gone[v])
  BY <1>1, <1>2, <1>3, <1>4, InitializeDelegationBooks
<1>6. DOMAIN st.start = Delegation
  BY MapsFacts DEF Books
<1>7. n.start = [st.start EXCEPT ![x] = n.start[x]]
  BY <1>2, <1>3, <1>5, <1>6 DEF StartsAt
<1>8. n.stake = st.stake /\ SameElsewhere(st, n)
  BY <1>3, <1>5 DEF StartsAt, SameElsewhere
<1>9. Settled(st, n, v, gone[v])
  BY <1>3, <1>5, StaysSettled
<1>10. ASSUME NEW w \in Validator, NEW k \in live[w], <<k, w>> # x
       PROVE  Promise(n, w, k) = Promise(st, w, k)
  <2>1. <<k, w>> \in Delegation
    <3>1. live[w] \subseteq Delegator
      BY BooksFacts
    <3> QED
      BY <3>1 DEF Delegation
  <2>2. n.start[<<k, w>>] = st.start[<<k, w>>]
    BY <1>6, <1>7, <1>10, <2>1
  <2>3. w = v => k \in gone[v]
    BY <1>10 DEF gone
  <2> QED
    BY <1>8, <1>9, <2>2, <2>3, PromiseStays
<1>11. n.bal = st.bal - Promise(st, v, d) \div Unit
  BY <1>3, <1>5 DEF StartsAt, Pays
<1> QED
  BY <1>5, <1>7, <1>8, <1>10, <1>11 DEF Restarts, OthersPromised

(* No coin leaves the account.                                             *)
SameBalance(st, n) == n.bal = st.bal

(* The hooks that start a delegation (CreateDelegation of the export).     *)
LEMMA CreateBooks ==
  ASSUME NEW st, NEW live, Books(st, live), NEW v \in Validator, NEW d \in Delegator,
         d \notin live[v], NEW now, Extends(now, live, v, d),
         NEW n, n = CreateDelegation(st, <<d, v>>)
  PROVE  Books(n, now) /\ Restarts(st, n, <<d, v>>) /\ SameBalance(st, n)
<1> DEFINE x == <<d, v>>
           m == NewPeriod(st, v)
<1>1. /\ Books(m, live) /\ Last(Book(m, v)) \notin Kept(Book(m, v), live[v])
      /\ m.start = st.start /\ m.stake = st.stake /\ SameElsewhere(st, m) /\ m.bal = st.bal
  BY NewPeriodBooks
<1>2. n = InitializeDelegation(m, x)
  <2>1. x[2] = v
    OBVIOUS
  <2> QED
    BY <2>1 DEF CreateDelegation
<1> HIDE DEF m
<1>3. Books(n, now) /\ n.start[x] \in Start /\ StartsAt(m, n, x, n.start[x])
  BY <1>1, <1>2, InitializeDelegationBooks
<1>4. /\ n.stake = st.stake /\ SameElsewhere(st, n) /\ n.bal = st.bal
      /\ n.start = [st.start EXCEPT ![x] = n.start[x]]
  BY <1>1, <1>3 DEF StartsAt, SameElsewhere
<1> QED
  BY <1>3, <1>4 DEF Restarts, SameBalance

(* Money comes in for a validator, or goes out to it.                      *)
Moves(st, n, v) ==
  /\ n = [f \in Fields |-> n[f]]
  /\ n.hist = st.hist /\ n.events = st.events /\ n.start = st.start /\ n.stake = st.stake
  /\ n.panic = st.panic /\ SameElsewhere(st, n)
  /\ n.out = [st.out EXCEPT ![v] = n.out[v]]
  /\ n.comm = [st.comm EXCEPT ![v] = n.comm[v]]
  /\ n.cur = [st.cur EXCEPT ![v] = n.cur[v]]

Fairly(st, n, v) ==
  /\ n.out[v] \in Int /\ n.comm[v] \in Nat /\ n.pool \in Nat /\ n.bal \in Int
  /\ n.cur[v] \in [period : Nat \ {0}, rewards : Nat] /\ n.cur[v].period = st.cur[v].period
  /\ n.out[v] - n.comm[v] - n.cur[v].rewards = st.out[v] - st.comm[v] - st.cur[v].rewards
  /\ n.bal * Unit - n.pool - n.out[v] = st.bal * Unit - st.pool - st.out[v]

(* Coins that leave outstanding rewards and commission together.           *)
LEMMA MovesBooks ==
  ASSUME NEW st, NEW live, Books(st, live), NEW v \in Validator, NEW n, Moves(st, n, v),
         Fairly(st, n, v)
  PROVE  Books(n, live)
<1>0. Maps(st) /\ Balanced(st) /\ Elsewhere(st) /\ st.height \in Nat
  BY DEF Books, Elsewhere
<1>1. /\ DOMAIN st.out = Validator /\ DOMAIN st.comm = Validator /\ DOMAIN st.cur = Validator
  BY <1>0, MapsFacts
<1>2. Balanced(n)
  <2> DEFINE y == n.out[v]
  <2>1. /\ y \in Int /\ n.out = [st.out EXCEPT ![v] = y] /\ n.pool \in Nat /\ n.bal \in Int
        /\ n.bal * Unit - n.pool - y = st.bal * Unit - st.pool - st.out[v]
    BY DEF Fairly, Moves
  <2> HIDE DEF y
  <2> QED
    BY <2>1, BalancedStays
<1>3. Maps(n)
  <2>1. n.out = [w \in Validator |-> n.out[w]]
    BY <1>1 DEF Moves
  <2>2. n.comm = [w \in Validator |-> n.comm[w]]
    BY <1>1 DEF Moves
  <2>3. n.cur = [w \in Validator |-> n.cur[w]]
    BY <1>1 DEF Moves
  <2>4. /\ n = [f \in Fields |-> n[f]]
        /\ n.hist = [w \in Validator |-> n.hist[w]]
        /\ n.events = [w \in Validator |-> n.events[w]]
        /\ n.stake \in [Delegation -> 0 .. Stake]
        /\ n.start \in [Delegation -> Start \cup {NoStart}]
    BY <1>0 DEF Moves, Maps
  <2> QED
    BY <2>1, <2>2, <2>3, <2>4 DEF Maps
<1>4. Elsewhere(n) /\ n.height = st.height /\ n.panic = FALSE
  BY <1>0, ElsewhereStays DEF Moves, SameElsewhere, Books
<1>5. ASSUME NEW w \in Validator
      PROVE  Earns(Book(st, w), Book(n, w), live[w])
  <2> DEFINE b == Book(st, w)
             c == Book(n, w)
             L == live[w]
  <2>1. BookType(b, L)
    BY DEF Books, AllSound, Sound
  <2>2. /\ b.cur = st.cur[w] /\ b.comm = st.comm[w] /\ b.out = st.out[w]
        /\ c.cur = n.cur[w] /\ c.comm = n.comm[w] /\ c.out = n.out[w]
    BY BookIs
  <2>3. c.hist = b.hist /\ c.events = b.events /\ c.start = b.start /\ c.stake = b.stake
    BY DEF Book, Moves
  <2> HIDE DEF b, c, L
  <2>4. /\ b.cur \in [period : Nat \ {0}, rewards : Nat] /\ b.comm \in Nat /\ b.out \in Int
        /\ b.stake \in [Delegator -> Nat]
    BY <2>1 DEF BookType
  <2>5. SameDelegations(b, c, L)
    BY <2>3 DEF SameDelegations
  <2>6. CASE w = v
    <3>1. /\ c.out \in Int /\ c.comm \in Nat
          /\ c.cur \in [period : Nat \ {0}, rewards : Nat] /\ c.cur.period = b.cur.period
          /\ c.out - c.comm - c.cur.rewards = b.out - b.comm - b.cur.rewards
      BY <2>2, <2>6 DEF Fairly
    <3>2. Earns(b, c, L)
      BY <2>3, <2>4, <2>5, <3>1 DEF Earns
    <3> QED
      BY <3>2 DEF b, c, L
  <2>7. CASE w # v
    <3>1. n.out[w] = st.out[w]
      BY <1>1, <2>7 DEF Moves
    <3>2. n.comm[w] = st.comm[w]
      BY <1>1, <2>7 DEF Moves
    <3>3. n.cur[w] = st.cur[w]
      BY <1>1, <2>7 DEF Moves
    <3>4. Earns(b, c, L)
      BY <2>2, <2>3, <2>4, <2>5, <3>1, <3>2, <3>3 DEF Earns
    <3> QED
      BY <3>4 DEF b, c, L
  <2> QED
    BY <2>6, <2>7
<1>6. AllEarn(st, n, live)
  BY <1>5 DEF AllEarn
<1>7. st.height <= n.height
  BY <1>0, <1>4
<1> QED
  BY <1>2, <1>3, <1>4, <1>6, <1>7, BooksStay

Untouched(st, n) == n.start = st.start /\ n.stake = st.stake /\ SameElsewhere(st, n)

(* To nobody less, or more, is promised.                                   *)
AllPromised(st, n, live) ==
  \A w \in Validator : \A k \in live[w] : Promise(n, w, k) = Promise(st, w, k)

(* A change of commission changes no promise.                              *)
LEMMA PromiseSame ==
  ASSUME NEW st, NEW n, NEW live, Untouched(st, n), n.hist = st.hist, n.cur = st.cur,
         n.events = st.events
  PROVE  AllPromised(st, n, live)
<1> SUFFICES ASSUME NEW w \in Validator, NEW k \in live[w]
             PROVE  Promise(n, w, k) = Promise(st, w, k)
  BY DEF AllPromised
<1> DEFINE b == Book(st, w)
           c == Book(n, w)
<1>1. /\ c.hist = b.hist /\ c.cur = b.cur /\ c.events = b.events /\ c.start = b.start
  BY DEF Book, Untouched
<1> HIDE DEF b, c
<1>2. Claim(c, k) = Claim(b, k)
  BY <1>1 DEF Claim, Earning, Last, Slashes
<1>3. Share(n, w) = Share(st, w)
  BY DEF Share, Tokens, Untouched
<1>4. n.start = st.start /\ n.stake = st.stake /\ n.height = st.height
  BY DEF Untouched, SameElsewhere
<1> QED
  BY <1>2, <1>3, <1>4 DEF Promise, b, c

(* Whole coins of commission.                                              *)
Coins(st) == [v \in Validator |-> st.comm[v] \div Unit]

(* They are a number, and leave the account when they are withdrawn.       *)
LEMMA CoinsType ==
  ASSUME NEW st, NEW live, Books(st, live), NEW v \in Validator
  PROVE  Coins(st)[v] \in Nat
<1>1. st.comm[v] \in Nat
  BY BooksFacts
<1> DEFINE a == st.comm[v]
<1> HIDE DEF a
<1>2. a \div Unit \in Nat
  BY <1>1, WholeCoins DEF a
<1> QED
  BY <1>2 DEF Coins, a

Draws(st, n, v) ==
  /\ n.bal = st.bal - Coins(st)[v]
  /\ \A w \in Validator \ {v} : n.comm[w] = st.comm[w]

(* WithdrawValidatorCommission pays whole coins of the commission.         *)
LEMMA CommissionBooks ==
  ASSUME NEW st, NEW live, Books(st, live), NEW v \in Validator,
         NEW n, n = WithdrawValidatorCommission(st, v)
  PROVE  /\ Books(n, live) /\ Untouched(st, n) /\ AllPromised(st, n, live)
         /\ Draws(st, n, v)
<1> DEFINE coins == st.comm[v] \div Unit
           paid == coins * Unit
<1>0. Maps(st) /\ Balanced(st)
  BY DEF Books
<1>1. /\ DOMAIN st = Fields /\ DOMAIN st.out = Validator /\ DOMAIN st.comm = Validator
      /\ DOMAIN st.cur = Validator
  BY <1>0, MapsFacts
<1>2. /\ st.out[v] \in Nat /\ st.comm[v] \in Nat /\ st.cur[v].rewards \in Nat
      /\ st.cur[v] \in [period : Nat \ {0}, rewards : Nat]
  <2>1. Sound(Book(st, v), live[v], st.height) /\ Book(st, v).cur = st.cur[v]
    BY BooksFacts, BookIs
  <2>2. st.cur[v] \in [period : Nat \ {0}, rewards : Nat]
    BY <2>1 DEF Sound, BookType
  <2> QED
    BY <2>2, BooksFacts
<1>3. coins \in Nat /\ paid \in Nat /\ paid <= st.comm[v]
  <2> DEFINE a == st.comm[v]
  <2>1. a \in Nat
    BY <1>2
  <2> HIDE DEF a
  <2>2. a \div Unit \in Nat /\ a % Unit \in Nat /\ (a \div Unit) * Unit + (a % Unit) = a
    BY <2>1, WholeCoins
  <2>3. Unit \in Nat
    BY ExportAssumption
  <2>4. (a \div Unit) * Unit \in Nat
    BY <2>2, <2>3
  <2>5. (a \div Unit) * Unit <= a
    BY <2>1, <2>2, <2>4
  <2> QED
    BY <2>2, <2>4, <2>5 DEF a
<1>4. n = [st EXCEPT !.bal = @ - coins, !.out[v] = @ - paid, !.comm[v] = @ - paid]
  BY DEF WithdrawValidatorCommission
<1>5. st.bal \in Int /\ st.pool \in Nat
  BY <1>0 DEF Balanced
<1> DEFINE c == coins
           p == paid
<1>a. c * Unit = p
  OBVIOUS
<1> HIDE DEF coins, c, p
<1>6. /\ n = [f \in Fields |-> n[f]]
      /\ n.hist = st.hist /\ n.events = st.events /\ n.start = st.start /\ n.stake = st.stake
      /\ n.panic = st.panic /\ SameElsewhere(st, n)
  BY <1>1, <1>4 DEF Fields, SameElsewhere
<1>7. /\ n.out = [st.out EXCEPT ![v] = @ - p] /\ n.comm = [st.comm EXCEPT ![v] = @ - p]
      /\ n.cur = st.cur /\ n.bal = st.bal - c /\ n.pool = st.pool
  BY <1>1, <1>4 DEF Fields, c, p
<1>8. n.out[v] = st.out[v] - p /\ n.comm[v] = st.comm[v] - p
  BY <1>1, <1>7
<1>9. c \in Nat /\ p \in Nat /\ p <= st.comm[v]
  BY <1>3 DEF c, p
<1>10. Moves(st, n, v)
  <2>1. st.cur = [st.cur EXCEPT ![v] = st.cur[v]]
    BY <1>0 DEF Maps
  <2> QED
    BY <1>6, <1>7, <1>8, <2>1 DEF Moves
<1>11. Fairly(st, n, v)
  <2>1. n.out[v] \in Int /\ n.comm[v] \in Nat /\ n.pool \in Nat /\ n.bal \in Int
    BY <1>2, <1>5, <1>7, <1>8, <1>9
  <2>2. n.out[v] - n.comm[v] - n.cur[v].rewards = st.out[v] - st.comm[v] - st.cur[v].rewards
    BY <1>2, <1>7, <1>8, <1>9
  <2>3. n.bal * Unit = st.bal * Unit - p
    <3>1. Unit \in Nat
      BY ExportAssumption
    <3>2. (st.bal - c) * Unit = st.bal * Unit - c * Unit
      BY <1>5, <1>9, <3>1
    <3> QED
      BY <1>a, <1>7, <3>2
  <2>4. st.bal * Unit \in Int
    BY <1>5, ExportAssumption
  <2>5. n.bal * Unit - n.pool - n.out[v] = st.bal * Unit - st.pool - st.out[v]
    BY <1>2, <1>5, <1>7, <1>8, <1>9, <2>3, <2>4
  <2> QED
    BY <1>2, <1>7, <2>1, <2>2, <2>5 DEF Fairly
<1>12. Books(n, live)
  BY <1>10, <1>11, MovesBooks
<1>13. AllPromised(st, n, live)
  BY <1>6, <1>7, PromiseSame DEF Untouched
<1>14. Coins(st)[v] = c
  BY DEF Coins, c, coins
<1>15. \A w \in Validator \ {v} : n.comm[w] = st.comm[w]
  BY <1>1, <1>7
<1> QED
  BY <1>6, <1>7, <1>12, <1>13, <1>14, <1>15 DEF Untouched, Draws

(* Fees come in whole coins, and what is over is given to the pool.        *)
LEMMA RoundedUp ==
  ASSUME NEW a \in Nat
  PROVE  (a + Unit - 1) \div Unit \in Nat /\ ((a + Unit - 1) \div Unit) * Unit - a \in Nat
<1> DEFINE z == a + Unit - 1
           c == z \div Unit
           r == z % Unit
<1>1. Unit \in Nat /\ Unit > 0
  BY ExportAssumption
<1>2. z \in Nat /\ z = a + Unit - 1
  BY <1>1
<1> HIDE DEF z
<1>3. c \in Nat /\ r \in Nat /\ r < Unit /\ z = c * Unit + r
  BY <1>1, <1>2
<1> HIDE DEF c, r
<1>4. c * Unit \in Nat
  BY <1>1, <1>3
<1>5. c * Unit - a \in Nat
  BY <1>1, <1>2, <1>3, <1>4
<1> QED
  BY <1>3, <1>5 DEF c, z

(* AllocateTokens puts in what a block's fees give a validator.            *)
LEMMA AllocateBooks ==
  ASSUME NEW st, NEW live, Books(st, live), NEW v \in Validator, NEW n, n = Allocate(st, v)
  PROVE  Books(n, live) /\ Untouched(st, n)
<1> DEFINE a == Shared + Commission
           c == (Shared + Commission + Unit - 1) \div Unit
           more == c * Unit - Shared - Commission
<1>0. Maps(st) /\ Balanced(st)
  BY DEF Books
<1>1. /\ DOMAIN st = Fields /\ DOMAIN st.out = Validator /\ DOMAIN st.comm = Validator
      /\ DOMAIN st.cur = Validator
  BY <1>0, MapsFacts
<1>2. /\ st.out[v] \in Nat /\ st.comm[v] \in Nat /\ st.cur[v].rewards \in Nat
      /\ st.cur[v] \in [period : Nat \ {0}, rewards : Nat]
  <2>1. Sound(Book(st, v), live[v], st.height) /\ Book(st, v).cur = st.cur[v]
    BY BooksFacts, BookIs
  <2>2. st.cur[v] \in [period : Nat \ {0}, rewards : Nat]
    BY <2>1 DEF Sound, BookType
  <2> QED
    BY <2>2, BooksFacts
<1>3. Shared \in Nat /\ Commission \in Nat /\ Unit \in Nat
  BY ExportAssumption
<1>4. c \in Nat /\ more \in Nat
  <2>1. a \in Nat /\ a + Unit - 1 = Shared + Commission + Unit - 1
    BY <1>3
  <2>2. c \in Nat /\ c * Unit - a \in Nat
    BY <2>1, RoundedUp
  <2>3. c * Unit \in Nat
    BY <1>3, <2>2
  <2> HIDE DEF c
  <2>4. c * Unit - a = c * Unit - Shared - Commission
    BY <1>3, <2>3
  <2> QED
    BY <2>2, <2>4
<1>5. st.bal \in Int /\ st.pool \in Nat
  BY <1>0 DEF Balanced
<1>6. n = [st EXCEPT !.cur[v].rewards = @ + Shared, !.comm[v] = @ + Commission,
                     !.out[v] = @ + Shared + Commission, !.bal = @ + c,
                     !.pool = @ + c * Unit - Shared - Commission]
  BY DEF Allocate
<1> HIDE DEF a, c, more
<1>7. /\ n = [f \in Fields |-> n[f]]
      /\ n.hist = st.hist /\ n.events = st.events /\ n.start = st.start /\ n.stake = st.stake
      /\ n.panic = st.panic /\ SameElsewhere(st, n)
  BY <1>1, <1>6 DEF Fields, SameElsewhere
<1>8. /\ n.out = [st.out EXCEPT ![v] = @ + Shared + Commission]
      /\ n.comm = [st.comm EXCEPT ![v] = @ + Commission]
      /\ n.cur = [st.cur EXCEPT ![v].rewards = @ + Shared] /\ n.bal = st.bal + c
      /\ n.pool = st.pool + c * Unit - Shared - Commission
  BY <1>1, <1>6 DEF Fields
<1>9. /\ n.out[v] = st.out[v] + Shared + Commission /\ n.comm[v] = st.comm[v] + Commission
      /\ n.cur[v] = [st.cur[v] EXCEPT !.rewards = @ + Shared]
  BY <1>1, <1>8
<1>10. /\ n.cur[v] \in [period : Nat \ {0}, rewards : Nat]
       /\ n.cur[v].period = st.cur[v].period
       /\ n.cur[v].rewards = st.cur[v].rewards + Shared
  <2> DEFINE k == st.cur[v]
  <2>1. k \in [period : Nat \ {0}, rewards : Nat] /\ n.cur[v] = [k EXCEPT !.rewards = @ + Shared]
    BY <1>2, <1>9
  <2> HIDE DEF k
  <2> QED
    BY <1>3, <2>1 DEF k
<1>11. Moves(st, n, v)
  <2>1. n.out = [st.out EXCEPT ![v] = n.out[v]]
    BY <1>8, <1>9
  <2>2. n.comm = [st.comm EXCEPT ![v] = n.comm[v]]
    BY <1>8, <1>9
  <2>3. n.cur = [st.cur EXCEPT ![v] = n.cur[v]]
    BY <1>8, <1>9
  <2> QED
    BY <1>7, <2>1, <2>2, <2>3 DEF Moves
<1>12. Fairly(st, n, v)
  <2>1. n.out[v] \in Int /\ n.comm[v] \in Nat /\ n.bal \in Int
    BY <1>2, <1>3, <1>4, <1>5, <1>8, <1>9
  <2>2. n.out[v] - n.comm[v] - n.cur[v].rewards = st.out[v] - st.comm[v] - st.cur[v].rewards
    BY <1>2, <1>3, <1>9, <1>10
  <2> DEFINE u == c * Unit
  <2>3. u \in Int /\ st.bal * Unit \in Int
    BY <1>3, <1>4, <1>5
  <2>4. n.bal * Unit = st.bal * Unit + u
    <3>1. (st.bal + c) * Unit = st.bal * Unit + c * Unit
      BY <1>3, <1>4, <1>5
    <3> QED
      BY <1>8, <3>1
  <2>5. n.pool = st.pool + u - Shared - Commission
    BY <1>8
  <2>6. u - Shared - Commission \in Nat
    BY <1>4 DEF more
  <2> HIDE DEF u
  <2>7. n.pool \in Nat
    <3>1. n.pool = st.pool + (u - Shared - Commission)
      BY <1>3, <1>5, <2>3, <2>5
    <3> QED
      BY <1>5, <2>6, <3>1
  <2>8. n.bal * Unit - n.pool - n.out[v] = st.bal * Unit - st.pool - st.out[v]
    BY <1>2, <1>3, <1>5, <1>9, <2>3, <2>4, <2>5
  <2> QED
    BY <1>10, <2>1, <2>2, <2>7, <2>8 DEF Fairly
<1> QED
  BY <1>7, <1>11, <1>12, MovesBooks DEF Untouched

(* Tokens of a validator are burnt.                                        *)
Halved(stake, v) ==
  [x \in Delegation |-> IF x[2] = v THEN stake[x] \div 2 ELSE stake[x]]

Burnt(st, v) ==
  LET n == NewPeriod(st, v)
  IN  [AddReference(n, v, Ended(n, v)) EXCEPT
         !.events[v] = @ \cup {[height |-> n.height, period |-> Ended(n, v)]},
         !.stake = Halved(@, v)]

(* Half a stake is a stake.                                                *)
LEMMA HalfStake ==
  ASSUME NEW k \in 0 .. Stake
  PROVE  k \div 2 \in 0 .. Stake
<1>1. Stake \in Nat
  BY ExportAssumption
<1> QED
  BY <1>1

(* A slash: the period ends, an event refers to it, all stakes of the      *)
(* validator are halved.                                                   *)
LEMMA BurntBooks ==
  ASSUME NEW st, NEW live, Books(st, live), NEW v \in Validator, NEW n, n = Burnt(st, v)
  PROVE  /\ Books(n, live)
         /\ n.start = st.start /\ n.stake = Halved(st.stake, v) /\ SameElsewhere(st, n)
<1> DEFINE L == live[v]
           m == NewPeriod(st, v)
           b == Book(m, v)
           c == Book(n, v)
           last == Ended(m, v)
           A == AddReference(m, v, last)
           e == [height |-> m.height, period |-> last]
           N == [A EXCEPT !.events[v] = @ \cup {e}, !.stake = Halved(@, v)]
<1>0. /\ Books(m, live)
      /\ Last(b) \notin Kept(b, L)
      /\ m.start = st.start /\ m.stake = st.stake
      /\ SameElsewhere(st, m)
  BY NewPeriodBooks
<1>a. n = N
  BY DEF Burnt
<1> HIDE DEF m
<1>1. /\ Sound(b, L, m.height) /\ Accounts(b, L) /\ IsHistory(m.hist[v])
      /\ L \subseteq Delegator /\ b.stake \in [Delegator -> Nat]
      /\ m.height \in Nat /\ Last(b) = m.cur[v].period - 1 /\ Last(b) \in DOMAIN m.hist[v]
  BY <1>0, BooksFacts
<1>b. Last(b) = last
  BY <1>1 DEF Ended
<1>2. Maps(m) /\ Balanced(m) /\ m.panic = FALSE
  BY <1>0 DEF Books
<1>3. /\ DOMAIN m = Fields /\ DOMAIN m.hist = Validator /\ DOMAIN m.events = Validator
      /\ DOMAIN m.stake = Delegation
  BY <1>2, MapsFacts
<1>4. m.hist[v][last].ref = 1 /\ last \in DOMAIN m.hist[v]
  <2>1. b.hist = m.hist[v] /\ Last(b) \in DOMAIN b.hist
    BY <1>1, BookIs
  <2>2. b.hist[Last(b)].ref
          = (IF Last(b) = Last(b) THEN 1 ELSE 0) + (IF Last(b) \in Kept(b, L) THEN 1 ELSE 0)
    BY <1>1, <2>1 DEF Accounts, Referred
  <2>3. b.hist[Last(b)].ref = 1
    BY <1>0, <2>2
  <2> QED
    BY <1>1, <1>b, <2>1, <2>3
<1> HIDE DEF last
<1>5. A = [m EXCEPT !.hist[v] = Added(@, last)]
  BY <1>4, AddReferenceIs
<1> DEFINE Same(k) ==
      /\ k.cur = m.cur /\ k.out = m.out /\ k.pool = m.pool /\ k.start = m.start
      /\ k.bal = m.bal /\ k.comm = m.comm /\ k.panic = m.panic /\ SameElsewhere(m, k)
<1> HIDE DEF A, e
<1>6. /\ DOMAIN A = Fields /\ A = [f \in Fields |-> A[f]] /\ Same(A)
      /\ A.hist = [m.hist EXCEPT ![v] = Added(@, last)] /\ A.events = m.events
      /\ A.stake = m.stake
  BY <1>3, <1>5 DEF Fields, SameElsewhere
<1>7. /\ n = [f \in Fields |-> n[f]] /\ Same(n) /\ n.hist = A.hist
      /\ n.events = [m.events EXCEPT ![v] = @ \cup {e}] /\ n.stake = Halved(m.stake, v)
  <2> DEFINE slashes == [A.events EXCEPT ![v] = @ \cup {e}]
             half == Halved(A.stake, v)
  <2>1. n = [A EXCEPT !.events = slashes, !.stake = half]
    BY <1>a
  <2>2. slashes = [m.events EXCEPT ![v] = @ \cup {e}] /\ half = Halved(m.stake, v)
    BY <1>6
  <2> HIDE DEF slashes, half, N
  <2>3. /\ n = [f \in Fields |-> n[f]] /\ n.events = slashes /\ n.stake = half
        /\ n.hist = A.hist
    BY <1>6, <2>1 DEF Fields
  <2>4. Same(n)
    BY <1>6, <2>1 DEF Fields, SameElsewhere
  <2> QED
    BY <2>2, <2>3, <2>4
<1>8. /\ n.hist[v] = Added(m.hist[v], last) /\ n.events[v] = m.events[v] \cup {e}
  <2>1. n.hist = [m.hist EXCEPT ![v] = Added(@, last)]
    BY <1>6, <1>7
  <2>2. n.events = [m.events EXCEPT ![v] = @ \cup {e}]
    BY <1>7
  <2> HIDE DEF Same
  <2> QED
    BY <1>3, <2>1, <2>2
<1>9. \A x \in Delegation : m.stake[x] \in 0 .. Stake
  BY <1>2 DEF Maps
<1>10. n.stake \in [Delegation -> 0 .. Stake]
  BY <1>7, <1>9, HalfStake DEF Halved
<1>11. Sound(c, L, m.height)
  <2>1. /\ c.hist = n.hist[v] /\ c.cur = n.cur[v] /\ c.out = n.out[v] /\ c.comm = n.comm[v]
        /\ c.events = n.events[v]
        /\ b.hist = m.hist[v] /\ b.cur = m.cur[v] /\ b.out = m.out[v] /\ b.comm = m.comm[v]
        /\ b.events = m.events[v]
    BY BookIs
  <2>2. c.start = b.start
    BY <1>7 DEF Book
  <2>3. ASSUME NEW k \in Delegator
        PROVE  c.stake[k] = b.stake[k] \div 2 /\ c.stake[k] \in Nat
    <3>1. c.stake[k] = n.stake[<<k, v>>] /\ b.stake[k] = m.stake[<<k, v>>]
      BY BookAt
    <3>2. <<k, v>> \in Delegation /\ <<k, v>>[2] = v
      BY DEF Delegation
    <3>3. n.stake[<<k, v>>] = m.stake[<<k, v>>] \div 2
      BY <1>7, <3>2 DEF Halved
    <3>4. 0 .. Stake \subseteq Nat /\ n.stake[<<k, v>>] \in 0 .. Stake
      BY <1>10, <3>2, ExportAssumption
    <3> QED
      BY <3>1, <3>3, <3>4
  <2>4. c.stake \in [Delegator -> Nat]
    <3>1. c.stake = [k \in Delegator |-> n.stake[<<k, v>>]]
      BY DEF Book
    <3>2. \A k \in Delegator : c.stake[k] \in Nat
      BY <2>3
    <3> HIDE DEF c
    <3> QED
      BY <3>1, <3>2
  <2>5. \A k \in L : c.stake[k] = b.stake[k] \div 2
    BY <1>1, <2>3
  <2> HIDE DEF b, c
  <2>6. IsSlash(b, c, m.height)
    <3>1. c.hist = Added(b.hist, Last(b))
      BY <1>8, <1>b, <2>1
    <3>2. c.cur = b.cur /\ c.comm = b.comm /\ c.out = b.out
      BY <1>7, <2>1
    <3>3. c.events = b.events \cup {[height |-> m.height, period |-> Last(b)]}
      BY <1>8, <1>b, <2>1 DEF e
    <3> QED
      BY <2>2, <2>4, <3>1, <3>2, <3>3 DEF IsSlash
  <2> HIDE DEF L
  <2> QED
    BY <1>0, <1>1, <2>5, <2>6, SlashedSound
<1>12. Maps(n)
  <2>1. n.hist = [w \in Validator |-> n.hist[w]]
    BY <1>3, <1>6, <1>7
  <2>2. n.events = [w \in Validator |-> n.events[w]]
    BY <1>3, <1>7
  <2>3. /\ n = [f \in Fields |-> n[f]]
        /\ n.cur = [w \in Validator |-> n.cur[w]] /\ n.out = [w \in Validator |-> n.out[w]]
        /\ n.comm = [w \in Validator |-> n.comm[w]]
        /\ n.start \in [Delegation -> Start \cup {NoStart}]
    BY <1>2, <1>7 DEF Maps
  <2> QED
    BY <1>10, <2>1, <2>2, <2>3 DEF Maps
<1>13. Balanced(n) /\ n.panic = FALSE /\ SameElsewhere(m, n)
  BY <1>2, <1>7 DEF Balanced
<1>14. ASSUME NEW w \in Validator \ {v}
       PROVE  SameBook(m, n, w)
  <2>1. n.hist[w] = m.hist[w] /\ n.events[w] = m.events[w]
    BY <1>3, <1>6, <1>7
  <2>2. \A k \in Delegator : n.stake[<<k, w>>] = m.stake[<<k, w>>]
    <3>1. \A k \in Delegator : <<k, w>> \in Delegation /\ <<k, w>>[2] # v
      BY DEF Delegation
    <3> QED
      BY <1>7, <3>1 DEF Halved
  <2> QED
    BY <1>7, <2>1, <2>2 DEF SameBook
<1>15. Books(n, live)
  <2>1. Sound(c, live[v], n.height)
    BY <1>11, <1>13 DEF SameElsewhere
  <2>2. OtherBooks(m, live, n, live, v)
    BY <1>14 DEF OtherBooks
  <2> QED
    BY <1>0, <1>12, <1>13, <2>1, <2>2, OneBook
<1>16. SameElsewhere(st, n)
  BY <1>0, <1>13 DEF SameElsewhere
<1> QED
  BY <1>0, <1>7, <1>15, <1>16

History == UNION {[D -> HistoryRecord] : D \in SUBSET Nat}

State ==
  [height : Nat, panic : {FALSE}, pool : Nat, bal : Int, stake : [Delegation -> 0 .. Stake],
   hist : [Validator -> History], cur : [Validator -> [period : Nat \ {0}, rewards : Nat]],
   out : [Validator -> Nat], comm : [Validator -> Nat], events : [Validator -> SUBSET Event],
   start : [Delegation -> Start \cup {NoStart}], jailed : [Validator -> BOOLEAN],
   index : SUBSET Validator, unbondedAt : [Validator -> Nat], signing : [Validator -> Nat],
   leaving : SUBSET Exit]

Typed(st, v) ==
  /\ IsHistory(st.hist[v]) /\ st.cur[v] \in [period : Nat \ {0}, rewards : Nat]
  /\ st.out[v] \in Nat /\ st.comm[v] \in Nat /\ st.events[v] \subseteq Event

(* A state whose parts are well formed is one of the set over which the    *)
(* export's loops range.                                                   *)
LEMMA StateIs ==
  ASSUME NEW st, Maps(st), Elsewhere(st), st.panic = FALSE, Balanced(st),
         \A v \in Validator : Typed(st, v)
  PROVE  st \in State
<1>1. \A v \in Validator : st.hist[v] \in History
  BY DEF Typed, IsHistory, History
<1>2. st.hist \in [Validator -> History]
  BY <1>1 DEF Maps
<1>3. st.cur \in [Validator -> [period : Nat \ {0}, rewards : Nat]]
  BY DEF Maps, Typed
<1>4. st.out \in [Validator -> Nat] /\ st.comm \in [Validator -> Nat]
  BY DEF Maps, Typed
<1>5. st.events \in [Validator -> SUBSET Event]
  BY DEF Maps, Typed
<1>6. /\ st.stake \in [Delegation -> 0 .. Stake]
      /\ st.start \in [Delegation -> Start \cup {NoStart}] /\ st = [f \in Fields |-> st[f]]
  BY DEF Maps
<1>7. st.pool \in Nat /\ st.bal \in Int
  BY DEF Balanced
<1>8. st = [height |-> st.height, panic |-> st.panic, pool |-> st.pool, bal |-> st.bal,
            stake |-> st.stake, hist |-> st.hist, cur |-> st.cur, out |-> st.out,
            comm |-> st.comm, events |-> st.events, start |-> st.start, jailed |-> st.jailed,
            index |-> st.index, unbondedAt |-> st.unbondedAt, signing |-> st.signing,
            leaving |-> st.leaving]
  BY <1>6 DEF Fields
<1>9. st.panic \in {FALSE}
  OBVIOUS
<1>10. /\ st.height \in Nat
      /\ st.jailed \in [Validator -> BOOLEAN] /\ st.index \in SUBSET Validator
      /\ st.unbondedAt \in [Validator -> Nat] /\ st.signing \in [Validator -> Nat]
      /\ st.leaving \in SUBSET Exit
  BY DEF Elsewhere
<1> QED
  BY <1>2, <1>3, <1>4, <1>5, <1>6, <1>7, <1>8, <1>9, <1>10 DEF State

(* Sound books are well formed.                                            *)
LEMMA BooksTyped ==
  ASSUME NEW st, NEW live, Books(st, live), NEW v \in Validator
  PROVE  Typed(st, v)
<1> DEFINE b == Book(st, v)
<1>1. BookType(b, live[v])
  BY DEF Books, AllSound, Sound
<1>2. /\ b.hist = st.hist[v] /\ b.cur = st.cur[v] /\ b.out = st.out[v] /\ b.comm = st.comm[v]
      /\ b.events = st.events[v]
  BY BookIs
<1> HIDE DEF b
<1> QED
  BY <1>1, <1>2 DEF BookType, Typed, IsHistory

(* And a state with sound books is one of that set.                        *)
LEMMA BooksState ==
  ASSUME NEW st, NEW live, Books(st, live)
  PROVE  st \in State
BY BooksTyped, StateIs DEF Books

(* What is paid out is taken off the balance.                              *)
LEMMA Spending ==
  /\ \A i \in Int : i = i - 0
  /\ \A i, j, k \in Int : (i - k) - j = i - (j + k)
  /\ \A i, j \in Int : i - (i - j) = j
OBVIOUS

LEMMA NatIsInt == \A i \in Nat : i \in Int
OBVIOUS

(* The commissions of all validators are paid.                             *)
LEMMA CommissionsBooks ==
  ASSUME NEW st, NEW live, Books(st, live),
         NEW n, n = FoldSet(LAMBDA v, acc : WithdrawValidatorCommission(acc, v), st, Validator)
  PROVE  /\ Books(n, live) /\ Untouched(st, n) /\ AllPromised(st, n, live)
         /\ n.bal = st.bal - SumOver(Coins(st), Validator)
<1> DEFINE Paid(m, T) == /\ AllPromised(st, m, live) /\ m.bal = st.bal - SumOver(Coins(st), T)
                         /\ \A w \in Validator \ T : m.comm[w] = st.comm[w]
           J == [T \in SUBSET Validator |->
                   {m \in State : Books(m, live) /\ Untouched(st, m) /\ Paid(m, T)}]
           step == [z \in Validator \X State |-> WithdrawValidatorCommission(z[2], z[1])]
           Rec(it) == [T \in SUBSET Validator |->
                         IF T = {} THEN st
                         ELSE LET v == CHOOSE v \in T : TRUE
                              IN  WithdrawValidatorCommission(it[T \ {v}], v)]
           iter == CHOOSE it : it = Rec(it)
<1>1. IsFiniteSet(Validator)
  BY ExportAssumption
<1>a. \A v \in Validator : Coins(st)[v] \in Int
  <2>1. \A v \in Validator : Coins(st)[v] \in Nat
    BY CoinsType
  <2> HIDE DEF Paid, J, step, Rec, iter
  <2> QED
    BY <2>1, NatIsInt, Zenon
<1>2. st \in J[{}]
  <2>1. Paid(st, {})
    <3>1. SumOver(Coins(st), {}) = 0
      BY SumEmpty
    <3>2. st.bal = st.bal - 0
      <4>1. Balanced(st)
        BY DEF Books
      <4>2. st.bal \in Int
        BY <4>1 DEF Balanced
      <4> QED
        BY <4>2, Spending, Zenon
    <3> QED
      BY <3>1, <3>2 DEF AllPromised
  <2>2. Untouched(st, st) /\ st \in State
    BY BooksState DEF Untouched, SameElsewhere
  <2> HIDE DEF Paid
  <2> QED
    BY <2>1, <2>2
<1>3. ASSUME NEW T \in SUBSET Validator, T # {}, NEW a \in J[T \ {Chosen(T)}]
      PROVE  /\ step[<<Chosen(T), a>>] = WithdrawValidatorCommission(a, Chosen(T))
             /\ step[<<Chosen(T), a>>] \in J[T]
  <2> DEFINE v == Chosen(T)
             m == WithdrawValidatorCommission(a, v)
  <2>1. v \in Validator /\ v \in T
    BY <1>3, ChosenIn
  <2> HIDE DEF Paid
  <2>2. a \in State /\ Books(a, live) /\ Untouched(st, a) /\ Paid(a, T \ {v})
    OBVIOUS
  <2> HIDE DEF v
  <2>3. step[<<v, a>>] = m
    BY <2>1, <2>2
  <2> HIDE DEF J, Rec, iter, step
  <2>4. /\ Books(m, live) /\ Untouched(a, m) /\ AllPromised(a, m, live)
        /\ Draws(a, m, v)
    <3>1. m = WithdrawValidatorCommission(a, v)
      OBVIOUS
    <3> HIDE DEF m
    <3> QED
      BY <2>1, <2>2, <3>1, CommissionBooks
  <2> HIDE DEF m
  <2>a. Paid(m, T)
    <3>1. AllPromised(st, m, live)
      BY <2>2, <2>4 DEF Paid, AllPromised
    <3>2. \A w \in Validator \ T : m.comm[w] = st.comm[w]
      BY <2>1, <2>2, <2>4 DEF Paid, Draws
    <3>3. Coins(a)[v] = Coins(st)[v]
      BY <2>1, <2>2 DEF Paid, Coins
    <3>4. SumOver(Coins(st), T) = Coins(st)[v] + SumOver(Coins(st), T \ {v})
          /\ SumOver(Coins(st), T \ {v}) \in Int
      <4> DEFINE f == Coins(st)
      <4>1. IsFiniteSet(T) /\ \A y \in T : f[y] \in Int
        BY <1>1, <1>a, FS_Subset
      <4> HIDE DEF f
      <4>2. SumOver(f, T) = f[v] + SumOver(f, T \ {v}) /\ SumOver(f, T \ {v}) \in Int
        BY <2>1, <4>1, SumRemove
      <4> QED
        BY <4>2 DEF f
    <3>5. a.bal = st.bal - SumOver(Coins(st), T \ {v}) /\ st.bal \in Int
      <4>1. Balanced(st)
        BY DEF Books
      <4>2. st.bal \in Int
        BY <4>1 DEF Balanced
      <4> QED
        BY <2>2, <4>2 DEF Paid
    <3>6. m.bal = st.bal - SumOver(Coins(st), T)
      <4>1. m.bal = a.bal - Coins(st)[v] /\ Coins(st)[v] \in Int
        BY <1>a, <2>1, <2>4, <3>3 DEF Draws
      <4>2. (st.bal - SumOver(Coins(st), T \ {v})) - Coins(st)[v]
            = st.bal - (Coins(st)[v] + SumOver(Coins(st), T \ {v}))
        BY <3>4, <3>5, <4>1, Spending, Zenon
      <4> QED
        BY <3>4, <3>5, <4>1, <4>2, Zenon
    <3> QED
      BY <3>1, <3>2, <3>6 DEF Paid
  <2>b. Untouched(st, m)
    BY <2>2, <2>4 DEF Untouched, SameElsewhere
  <2>5. m \in J[T]
    BY <2>4, <2>a, <2>b, BooksState DEF J
  <2> QED
    BY <2>3, <2>5 DEF m, v
<1> HIDE DEF J, step
<1>4. StepKeeps(Validator, step, J)
  BY <1>3 DEF StepKeeps
<1>5. PICK it : Folded(it, st, step, Validator)
  BY <1>1, FoldFound
<1>6. \A T \in SUBSET Validator : it[T] \in J[T]
  BY <1>1, <1>2, <1>4, <1>5, FoldKeeps
<1>7. it = Rec(it)
  <2>1. ASSUME NEW T \in SUBSET Validator
        PROVE  it[T] = Rec(it)[T]
    <3>1. it[T] = IF T = {} THEN st ELSE step[<<Chosen(T), it[T \ {Chosen(T)}]>>]
      BY <1>5 DEF Folded
    <3>2. T \ {Chosen(T)} \in SUBSET Validator
      OBVIOUS
    <3>3. CASE T = {}
      BY <3>1, <3>3
    <3>4. CASE T # {}
      <4>1. it[T \ {Chosen(T)}] \in J[T \ {Chosen(T)}]
        BY <1>6, <3>2
      <4>2. it[T] = WithdrawValidatorCommission(it[T \ {Chosen(T)}], Chosen(T))
        BY <1>3, <3>1, <3>4, <4>1
      <4> QED
        BY <3>4, <4>2 DEF Chosen
    <3> QED
      BY <3>3, <3>4
  <2>2. it = [T \in SUBSET Validator |-> it[T]]
    BY <1>5 DEF Folded
  <2> QED
    BY <2>1, <2>2
<1>8. iter = Rec(iter)
  BY <1>7
<1>9. n = iter[Validator]
  BY DEF FoldSet, MapThenFoldSet
<1> HIDE DEF iter
<1>10. iter[{}] = st /\ \A T \in SUBSET Validator : T # {} =>
         iter[T] = WithdrawValidatorCommission(iter[T \ {Chosen(T)}], Chosen(T))
  BY <1>8 DEF Chosen
<1>11. ASSUME NEW T \in SUBSET Validator, T # {}, iter[T \ {Chosen(T)}] \in J[T \ {Chosen(T)}]
       PROVE  iter[T] \in J[T]
  BY <1>3, <1>10, <1>11
<1>12. iter[Validator] \in J[Validator]
  BY <1>1, <1>2, <1>10, <1>11, FoldStays
<1> QED
  BY <1>9, <1>12 DEF J

(* A delegation is a pair.                                                 *)
LEMMA DelegationIs ==
  ASSUME NEW x \in Delegation
  PROVE  x[1] \in Delegator /\ x[2] \in Validator /\ x = <<x[1], x[2]>>
BY DEF Delegation

(* Every delegation of a set is paid out and starts again.                 *)
Redone(st, n) ==
  /\ n.stake = st.stake /\ SameElsewhere(st, n)
  /\ \A x \in Delegation : n.start[x] = NoStart <=> st.start[x] = NoStart

Carries(live, X) == \A x \in X : x[1] \in live[x[2]]

(* Whole coins of rewards.                                                 *)
Dues(st) == [x \in Delegation |-> Promise(st, x[2], x[1]) \div Unit]

(* The export's loop over all delegations that withdraws their rewards, in *)
(* any order.                                                              *)
LEMMA WithdrawalsBooks ==
  ASSUME NEW st, NEW live, Books(st, live), NEW X, X \subseteq Delegation, Carries(live, X),
         NEW n, n = FoldSet(LAMBDA x, acc : WithdrawDelegationRewards(acc, x), st, X)
  PROVE  /\ Books(n, live) /\ Redone(st, n)
         /\ n.bal = st.bal - SumOver(Dues(st), X)
<1> DEFINE Paid(m, T) ==
             /\ m.bal = st.bal - SumOver(Dues(st), T)
             /\ \A x \in X \ T : Promise(m, x[2], x[1]) = Promise(st, x[2], x[1])
           J == [T \in SUBSET X |->
                   {m \in State : Books(m, live) /\ Redone(st, m) /\ Paid(m, T)}]
           step == [z \in X \X State |-> WithdrawDelegationRewards(z[2], z[1])]
           Rec(it) == [T \in SUBSET X |->
                         IF T = {} THEN st
                         ELSE LET x == CHOOSE x \in T : TRUE
                              IN  WithdrawDelegationRewards(it[T \ {x}], x)]
           iter == CHOOSE it : it = Rec(it)
<1>1. IsFiniteSet(X)
  <2>1. IsFiniteSet(Delegation)
    BY ExportAssumption, FS_Product DEF Delegation
  <2> QED
    BY <2>1, FS_Subset
<1>a. \A x \in X : Dues(st)[x] \in Int
  <2> SUFFICES ASSUME NEW x \in X
               PROVE  Dues(st)[x] \in Int
    OBVIOUS
  <2>1. x \in Delegation /\ x[2] \in Validator /\ x[1] \in live[x[2]]
    BY DelegationIs DEF Carries
  <2> DEFINE p == Promise(st, x[2], x[1])
  <2>2. Dues(st)[x] = p \div Unit
    BY <2>1 DEF Dues
  <2>3. p \in Nat
    BY <2>1, PromiseType
  <2> HIDE DEF p
  <2>4. p \div Unit \in Nat
    BY <2>3, WholeCoins
  <2> QED
    BY <2>2, <2>4, NatIsInt, Zenon
<1>2. st \in J[{}]
  <2>1. Paid(st, {})
    <3>1. SumOver(Dues(st), {}) = 0
      BY SumEmpty
    <3>2. st.bal = st.bal - 0
      <4>1. Balanced(st)
        BY DEF Books
      <4>2. st.bal \in Int
        BY <4>1 DEF Balanced
      <4> QED
        BY <4>2, Spending, Zenon
    <3> QED
      BY <3>1, <3>2
  <2>2. Redone(st, st) /\ st \in State
    BY BooksState DEF Redone, SameElsewhere
  <2> HIDE DEF Paid
  <2> QED
    BY <2>1, <2>2
<1>3. ASSUME NEW T \in SUBSET X, T # {}, NEW a \in J[T \ {Chosen(T)}]
      PROVE  /\ step[<<Chosen(T), a>>] = WithdrawDelegationRewards(a, Chosen(T))
             /\ step[<<Chosen(T), a>>] \in J[T]
  <2> DEFINE x == Chosen(T)
             m == WithdrawDelegationRewards(a, x)
  <2>1. x \in X /\ x \in T
    BY <1>3, ChosenIn
  <2> HIDE DEF Paid
  <2>2. a \in State /\ Books(a, live) /\ Redone(st, a) /\ Paid(a, T \ {x})
    OBVIOUS
  <2> HIDE DEF x, J, Rec, iter
  <2>3. step[<<x, a>>] = m
    BY <2>1, <2>2
  <2> HIDE DEF m, step
  <2>4. PICK v \in Validator, d \in Delegator : x = <<d, v>> /\ d \in live[v]
    <3>1. x[1] \in Delegator /\ x[2] \in Validator /\ x = <<x[1], x[2]>>
      BY <2>1, DelegationIs
    <3>2. x[1] \in live[x[2]]
      BY <2>1 DEF Carries
    <3> QED
      BY <3>1, <3>2
  <2>5. /\ Books(m, live) /\ Restarts(a, m, x)
        /\ m.bal = a.bal - Promise(a, v, d) \div Unit
        /\ OthersPromised(a, m, live, x)
    <3>1. m = WithdrawDelegationRewards(a, <<d, v>>)
      BY <2>4 DEF m
    <3> QED
      BY <2>2, <2>4, <3>1, WithdrawBooks
  <2>6. Redone(st, m)
    <3>1. x \in Delegation
      BY <2>1
    <3>2. a.start[x] \in Start /\ m.start[x] \in Start /\ NoStart \notin Start
      <4>1. live[v] \subseteq Delegator /\ Sound(Book(a, v), live[v], a.height)
        BY <2>2, BooksFacts
      <4>2. Book(a, v).start[d] = a.start[x]
        BY <2>4, <4>1, BookAt
      <4>3. a.start[x] \in Start
        <5>1. BookType(Book(a, v), live[v])
          BY <4>1 DEF Sound
        <5>2. Book(a, v).start[d] \in Start
          BY <2>4, <5>1 DEF BookType
        <5> QED
          BY <4>2, <5>2
      <4> QED
        BY <2>5, <4>3, NoStartAssumption DEF Restarts, Start
    <3>3. \A y \in Delegation : m.start[y] = NoStart <=> a.start[y] = NoStart
      <4>1. DOMAIN a.start = Delegation
        BY <2>2, MapsFacts DEF Books
      <4>2. \A y \in Delegation \ {x} : m.start[y] = a.start[y]
        BY <2>5, <4>1 DEF Restarts
      <4> QED
        BY <3>2, <4>2
    <3> QED
      BY <2>2, <2>5, <3>3 DEF Redone, Restarts, SameElsewhere
  <2>a. Paid(m, T)
    <3>1. x[1] = d /\ x[2] = v
      BY <2>4
    <3>2. Promise(a, v, d) = Promise(st, v, d)
      BY <2>1, <2>2, <3>1 DEF Paid
    <3>3. Dues(st)[x] = Promise(st, v, d) \div Unit
      BY <2>1, <3>1 DEF Dues
    <3>4. SumOver(Dues(st), T) = Dues(st)[x] + SumOver(Dues(st), T \ {x})
          /\ SumOver(Dues(st), T \ {x}) \in Int
      <4> DEFINE f == Dues(st)
      <4>1. IsFiniteSet(T) /\ \A y \in T : f[y] \in Int
        BY <1>1, <1>a, FS_Subset
      <4> HIDE DEF f
      <4>2. SumOver(f, T) = f[x] + SumOver(f, T \ {x}) /\ SumOver(f, T \ {x}) \in Int
        BY <2>1, <4>1, SumRemove
      <4> QED
        BY <4>2 DEF f
    <3>5. a.bal = st.bal - SumOver(Dues(st), T \ {x}) /\ st.bal \in Int
      <4>1. Balanced(st)
        BY DEF Books
      <4>2. st.bal \in Int
        BY <4>1 DEF Balanced
      <4> QED
        BY <2>2, <4>2 DEF Paid
    <3>6. Dues(st)[x] \in Int
      BY <1>a, <2>1
    <3>7. m.bal = st.bal - SumOver(Dues(st), T)
      <4>1. (st.bal - SumOver(Dues(st), T \ {x})) - Dues(st)[x]
            = st.bal - (Dues(st)[x] + SumOver(Dues(st), T \ {x}))
        BY <3>4, <3>5, <3>6, Spending, Zenon
      <4>2. m.bal = a.bal - Dues(st)[x]
        BY <2>5, <3>2, <3>3, Zenon
      <4> QED
        BY <3>4, <3>5, <4>1, <4>2, Zenon
    <3>8. ASSUME NEW y \in X \ T
          PROVE  Promise(m, y[2], y[1]) = Promise(st, y[2], y[1])
      <4>1. y[2] \in Validator /\ y[1] \in live[y[2]] /\ <<y[1], y[2]>> # x
        BY <2>1, DelegationIs DEF Carries
      <4>2. Promise(m, y[2], y[1]) = Promise(a, y[2], y[1])
        BY <2>5, <4>1 DEF OthersPromised
      <4> QED
        BY <2>2, <4>2 DEF Paid
    <3> QED
      BY <3>7, <3>8 DEF Paid
  <2>7. m \in J[T]
    BY <2>5, <2>6, <2>a, BooksState DEF J
  <2> QED
    BY <2>3, <2>7 DEF m, x
<1> HIDE DEF J, step
<1>4. StepKeeps(X, step, J)
  BY <1>3 DEF StepKeeps
<1>5. PICK it : Folded(it, st, step, X)
  BY <1>1, FoldFound
<1>6. \A T \in SUBSET X : it[T] \in J[T]
  BY <1>1, <1>2, <1>4, <1>5, FoldKeeps
<1>7. it = Rec(it)
  <2>1. ASSUME NEW T \in SUBSET X
        PROVE  it[T] = Rec(it)[T]
    <3>1. it[T] = IF T = {} THEN st ELSE step[<<Chosen(T), it[T \ {Chosen(T)}]>>]
      BY <1>5 DEF Folded
    <3>2. CASE T = {}
      BY <3>1, <3>2
    <3>3. CASE T # {}
      <4>1. it[T \ {Chosen(T)}] \in J[T \ {Chosen(T)}]
        BY <1>6
      <4>2. it[T] = WithdrawDelegationRewards(it[T \ {Chosen(T)}], Chosen(T))
        BY <1>3, <3>1, <3>3, <4>1
      <4> QED
        BY <3>3, <4>2 DEF Chosen
    <3> QED
      BY <3>2, <3>3
  <2>2. it = [T \in SUBSET X |-> it[T]]
    BY <1>5 DEF Folded
  <2> QED
    BY <2>1, <2>2
<1>8. iter = Rec(iter)
  BY <1>7
<1>9. n = iter[X]
  BY DEF FoldSet, MapThenFoldSet
<1> HIDE DEF iter
<1>10. iter[{}] = st /\ \A T \in SUBSET X : T # {} =>
         iter[T] = WithdrawDelegationRewards(iter[T \ {Chosen(T)}], Chosen(T))
  BY <1>8 DEF Chosen
<1>11. ASSUME NEW T \in SUBSET X, T # {}, iter[T \ {Chosen(T)}] \in J[T \ {Chosen(T)}]
       PROVE  iter[T] \in J[T]
  BY <1>3, <1>10, <1>11
<1>12. iter[X] \in J[X]
  BY <1>1, <1>2, <1>10, <1>11, FoldStays
<1> QED
  BY <1>9, <1>12 DEF J

(* Every delegation of a set starts.                                       *)
Carried(X) == [v \in Validator |-> {d \in Delegator : <<d, v>> \in X}]

Started(st, n, X) ==
  /\ n.stake = st.stake /\ n.bal = st.bal /\ SameElsewhere(st, n)
  /\ \A x \in Delegation \ X : n.start[x] = st.start[x]

(* Its loop over all delegations that starts them again, in any order.     *)
LEMMA CreationsBooks ==
  ASSUME NEW st, Books(st, Carried({})), NEW X, X \subseteq Delegation,
         NEW n, n = FoldSet(LAMBDA x, acc : CreateDelegation(acc, x), st, X)
  PROVE  Books(n, Carried(X)) /\ Started(st, n, X)
<1> DEFINE J == [T \in SUBSET X |-> {m \in State : Books(m, Carried(T)) /\ Started(st, m, T)}]
           step == [z \in X \X State |-> CreateDelegation(z[2], z[1])]
           Rec(it) == [T \in SUBSET X |->
                         IF T = {} THEN st
                         ELSE LET x == CHOOSE x \in T : TRUE
                              IN  CreateDelegation(it[T \ {x}], x)]
           iter == CHOOSE it : it = Rec(it)
<1>1. IsFiniteSet(X)
  <2>1. IsFiniteSet(Delegation)
    BY ExportAssumption, FS_Product DEF Delegation
  <2> QED
    BY <2>1, FS_Subset
<1>2. st \in J[{}]
  BY BooksState DEF Started, SameElsewhere
<1>3. ASSUME NEW T \in SUBSET X, T # {}, NEW a \in J[T \ {Chosen(T)}]
      PROVE  /\ step[<<Chosen(T), a>>] = CreateDelegation(a, Chosen(T))
             /\ step[<<Chosen(T), a>>] \in J[T]
  <2> DEFINE x == Chosen(T)
             U == T \ {x}
             m == CreateDelegation(a, x)
  <2>1. x \in X /\ x \in T
    BY <1>3, ChosenIn
  <2>2. a \in State /\ Books(a, Carried(U)) /\ Started(st, a, U)
    OBVIOUS
  <2> HIDE DEF x, J, Rec, iter
  <2>3. step[<<x, a>>] = m
    BY <2>1, <2>2
  <2> HIDE DEF m, step
  <2>4. PICK v \in Validator, d \in Delegator : x = <<d, v>>
    <3>1. x[1] \in Delegator /\ x[2] \in Validator /\ x = <<x[1], x[2]>>
      BY <2>1, DelegationIs
    <3> QED
      BY <3>1
  <2>5. d \notin Carried(U)[v] /\ Extends(Carried(T), Carried(U), v, d)
    BY <2>1, <2>4 DEF Carried, Extends
  <2> HIDE DEF U
  <2>6. Books(m, Carried(T)) /\ Restarts(a, m, x) /\ m.bal = a.bal
    <3>1. m = CreateDelegation(a, <<d, v>>)
      BY <2>4 DEF m
    <3> DEFINE now == Carried(T)
               live == Carried(U)
    <3>2. d \notin live[v] /\ Extends(now, live, v, d) /\ Books(a, live)
      BY <2>2, <2>5
    <3> HIDE DEF now, live
    <3>3. Books(m, now) /\ Restarts(a, m, <<d, v>>) /\ SameBalance(a, m)
      BY <3>1, <3>2, CreateBooks
    <3> QED
      BY <2>4, <3>3 DEF now, SameBalance
  <2>7. Started(st, m, T)
    <3>1. DOMAIN a.start = Delegation
      BY <2>2, MapsFacts DEF Books
    <3>2. \A y \in Delegation \ T : m.start[y] = a.start[y] /\ y \notin U
      BY <2>1, <2>6, <3>1 DEF Restarts, U
    <3>3. \A y \in Delegation \ T : m.start[y] = st.start[y]
      BY <2>2, <3>2 DEF Started
    <3> QED
      BY <2>2, <2>6, <3>3 DEF Started, Restarts, SameElsewhere
  <2>8. m \in J[T]
    BY <2>6, <2>7, BooksState DEF J
  <2> QED
    BY <2>3, <2>8 DEF m, x
<1> HIDE DEF J, step
<1>4. StepKeeps(X, step, J)
  BY <1>3 DEF StepKeeps
<1>5. PICK it : Folded(it, st, step, X)
  BY <1>1, FoldFound
<1>6. \A T \in SUBSET X : it[T] \in J[T]
  BY <1>1, <1>2, <1>4, <1>5, FoldKeeps
<1>7. it = Rec(it)
  <2>1. ASSUME NEW T \in SUBSET X
        PROVE  it[T] = Rec(it)[T]
    <3>1. it[T] = IF T = {} THEN st ELSE step[<<Chosen(T), it[T \ {Chosen(T)}]>>]
      BY <1>5 DEF Folded
    <3>2. CASE T = {}
      BY <3>1, <3>2
    <3>3. CASE T # {}
      <4>1. it[T \ {Chosen(T)}] \in J[T \ {Chosen(T)}]
        BY <1>6
      <4>2. it[T] = CreateDelegation(it[T \ {Chosen(T)}], Chosen(T))
        BY <1>3, <3>1, <3>3, <4>1
      <4> QED
        BY <3>3, <4>2 DEF Chosen
    <3> QED
      BY <3>2, <3>3
  <2>2. it = [T \in SUBSET X |-> it[T]]
    BY <1>5 DEF Folded
  <2> QED
    BY <2>1, <2>2
<1>8. iter = Rec(iter)
  BY <1>7
<1>9. n = iter[X]
  BY DEF FoldSet, MapThenFoldSet
<1> HIDE DEF iter
<1>10. iter[{}] = st /\ \A T \in SUBSET X : T # {} =>
         iter[T] = CreateDelegation(iter[T \ {Chosen(T)}], Chosen(T))
  BY <1>8 DEF Chosen
<1>11. ASSUME NEW T \in SUBSET X, T # {}, iter[T \ {Chosen(T)}] \in J[T \ {Chosen(T)}]
       PROVE  iter[T] \in J[T]
  BY <1>3, <1>10, <1>11
<1>12. iter[X] \in J[X]
  BY <1>1, <1>2, <1>10, <1>11, FoldStays
<1> QED
  BY <1>9, <1>12 DEF J

NoSlashes(st) == \A v \in Validator : st.events[v] = {}

(* The books of validators are opened again, of those in T so far.         *)
Clean(st, T) ==
  /\ Maps(st) /\ Elsewhere(st) /\ st.panic = FALSE /\ Balanced(st)
  /\ \A v \in Validator : Typed(st, v)
  /\ \A v \in T : Sound(Book(st, v), {}, st.height)
  /\ \A v \in Validator \ T : st.hist[v] = <<>>
  /\ NoSlashes(st)

Reset(st, v) == InitializeValidator([st EXCEPT !.pool = @ + st.out[v]], v)

(* One validator's turn in the loop that reinitialises validators.         *)
LEMMA ResetClean ==
  ASSUME NEW st, NEW T \in SUBSET Validator, Clean(st, T), NEW v \in Validator \ T,
         NEW n, n = Reset(st, v)
  PROVE  Clean(n, T \cup {v}) /\ Untouched(st, n) /\ n.bal = st.bal
<1> DEFINE r == [ref |-> 1, ratio |-> 0]
           first == [period |-> 1, rewards |-> 0]
           o == st.out[v]
           P == [st EXCEPT !.pool = @ + o]
           R == [P EXCEPT !.hist[v] = With(@, 0, r)]
           N == [R EXCEPT !.cur[v] = first, !.comm[v] = 0, !.out[v] = 0]
           b == Book(n, v)
<1>1. /\ Maps(st) /\ Elsewhere(st) /\ st.panic = FALSE /\ Balanced(st)
      /\ \A w \in Validator : Typed(st, w)
      /\ st.hist[v] = <<>> /\ st.events[v] = {} /\ NoSlashes(st)
  BY DEF Clean, NoSlashes
<1>2. /\ DOMAIN st = Fields /\ DOMAIN st.hist = Validator /\ DOMAIN st.cur = Validator
      /\ DOMAIN st.comm = Validator /\ DOMAIN st.out = Validator
  BY <1>1, MapsFacts
<1>3. n = N
  BY DEF Reset, InitializeValidator, SetRecord
<1> HIDE DEF r, first, o
<1>4. /\ DOMAIN P = Fields /\ P = [f \in Fields |-> P[f]] /\ Untouched(st, P)
      /\ P.hist = st.hist /\ P.cur = st.cur /\ P.comm = st.comm /\ P.out = st.out
      /\ P.bal = st.bal /\ P.pool = st.pool + o /\ P.events = st.events /\ P.panic = st.panic
  BY <1>2 DEF Fields, Untouched, SameElsewhere
<1> HIDE DEF P
<1>5. /\ DOMAIN R = Fields /\ R = [f \in Fields |-> R[f]] /\ Untouched(st, R)
      /\ R.hist = [st.hist EXCEPT ![v] = With(@, 0, r)]
      /\ R.cur = st.cur /\ R.comm = st.comm /\ R.out = st.out
      /\ R.bal = st.bal /\ R.pool = st.pool + o /\ R.events = st.events /\ R.panic = st.panic
  BY <1>4 DEF Fields, Untouched, SameElsewhere
<1> HIDE DEF R
<1>a. /\ N = [f \in Fields |-> N[f]] /\ Untouched(st, N)
      /\ N.hist = R.hist
      /\ N.cur = [st.cur EXCEPT ![v] = first] /\ N.comm = [st.comm EXCEPT ![v] = 0]
      /\ N.out = [st.out EXCEPT ![v] = 0]
      /\ N.bal = st.bal /\ N.pool = st.pool + o /\ N.events = st.events /\ N.panic = st.panic
  BY <1>5 DEF Fields, Untouched, SameElsewhere
<1> HIDE DEF N
<1>6. /\ n = [f \in Fields |-> n[f]] /\ Untouched(st, n)
      /\ n.hist = [st.hist EXCEPT ![v] = With(@, 0, r)]
      /\ n.cur = [st.cur EXCEPT ![v] = first] /\ n.comm = [st.comm EXCEPT ![v] = 0]
      /\ n.out = [st.out EXCEPT ![v] = 0]
      /\ n.bal = st.bal /\ n.pool = st.pool + o /\ n.events = st.events /\ n.panic = st.panic
  BY <1>3, <1>5, <1>a
<1>7. /\ n.hist[v] = With(<<>>, 0, r) /\ n.cur[v] = first /\ n.comm[v] = 0 /\ n.out[v] = 0
      /\ n.events[v] = {}
  BY <1>1, <1>2, <1>6
<1>8. ASSUME NEW w \in Validator \ {v}
      PROVE  SameBook(st, n, w)
  <2>1. n.hist[w] = st.hist[w] /\ n.cur[w] = st.cur[w]
    BY <1>2, <1>6
  <2>2. n.comm[w] = st.comm[w] /\ n.out[w] = st.out[w]
    BY <1>2, <1>6
  <2> QED
    BY <1>6, <2>1, <2>2 DEF SameBook, Untouched
<1>9. Maps(n)
  <2>1. n.hist = [w \in Validator |-> n.hist[w]] /\ n.cur = [w \in Validator |-> n.cur[w]]
    BY <1>2, <1>6
  <2>2. n.comm = [w \in Validator |-> n.comm[w]] /\ n.out = [w \in Validator |-> n.out[w]]
    BY <1>2, <1>6
  <2>3. /\ n.events = [w \in Validator |-> n.events[w]] /\ n = [f \in Fields |-> n[f]]
        /\ n.stake \in [Delegation -> 0 .. Stake]
        /\ n.start \in [Delegation -> Start \cup {NoStart}]
    BY <1>1, <1>6 DEF Maps, Untouched
  <2> QED
    BY <2>1, <2>2, <2>3 DEF Maps
<1>10. Elsewhere(n) /\ n.height = st.height
  BY <1>1, <1>6, ElsewhereStays DEF Untouched, SameElsewhere
<1>11. Balanced(n)
  <2>1. \A w \in Validator : st.out[w] \in Nat
    BY <1>1 DEF Typed
  <2>2. o \in Nat /\ st.pool \in Nat /\ st.bal \in Int /\ st.out[v] = o
    BY <1>1, <2>1 DEF Balanced, o
  <2>3. n.pool \in Nat /\ n.bal \in Int
    BY <1>6, <2>2
  <2>4. n.bal * Unit - n.pool - 0 = st.bal * Unit - st.pool - st.out[v]
    <3>1. st.bal * Unit \in Int
      BY <2>2, ExportAssumption
    <3> QED
      BY <1>6, <2>2, <3>1
  <2>5. v \in Validator /\ 0 \in Int /\ n.out = [st.out EXCEPT ![v] = 0]
    BY <1>6
  <2> DEFINE z == 0
  <2>6. z \in Int /\ n.out = [st.out EXCEPT ![v] = z]
    BY <2>5
  <2>7. n.bal * Unit - n.pool - z = st.bal * Unit - st.pool - st.out[v]
    BY <2>4
  <2> HIDE DEF z
  <2> QED
    BY <1>1, <2>1, <2>3, <2>5, <2>6, <2>7, BalancedUpdate
<1>12. Sound(b, {}, st.height)
  <2>1. /\ b.hist = With(<<>>, 0, [ref |-> 1, ratio |-> 0])
        /\ b.cur = [period |-> 1, rewards |-> 0] /\ b.out = 0 /\ b.comm = 0 /\ b.events = {}
    <3>1. /\ b.hist = n.hist[v] /\ b.cur = n.cur[v] /\ b.out = n.out[v] /\ b.comm = n.comm[v]
          /\ b.events = n.events[v]
      BY BookIs
    <3> HIDE DEF b
    <3> QED
      BY <1>7, <3>1 DEF r, first
  <2>2. b.stake \in [Delegator -> Nat]
    <3>1. \A d \in Delegator : n.stake[<<d, v>>] \in Nat
      <4>1. \A d \in Delegator : <<d, v>> \in Delegation
        BY DEF Delegation
      <4>2. 0 .. Stake \subseteq Nat
        BY ExportAssumption
      <4>3. n.stake \in [Delegation -> 0 .. Stake]
        BY <1>9 DEF Maps
      <4> QED
        BY <4>1, <4>2, <4>3
    <3> QED
      BY <3>1 DEF Book
  <2> HIDE DEF b
  <2> QED
    BY <2>1, <2>2, NewSound
<1>13. ASSUME NEW w \in Validator
       PROVE  Typed(n, w)
  <2>1. CASE w # v
    BY <1>1, <1>8, <2>1 DEF SameBook, Typed
  <2>2. CASE w = v
    <3>1. BookType(b, {})
      BY <1>12 DEF Sound
    <3>2. /\ b.hist = n.hist[v] /\ b.cur = n.cur[v] /\ b.out = n.out[v]
          /\ b.comm = n.comm[v] /\ b.events = n.events[v]
      BY BookIs
    <3> HIDE DEF b
    <3> QED
      BY <2>2, <3>1, <3>2 DEF BookType, Typed, IsHistory
  <2> QED
    BY <2>1, <2>2
<1>14. ASSUME NEW w \in T
       PROVE  Sound(Book(n, w), {}, n.height)
  <2>1. w # v /\ w \in Validator
    OBVIOUS
  <2>2. Book(n, w) = Book(st, w)
    BY <1>8, <2>1, SameBookIs
  <2> QED
    BY <1>10, <2>2 DEF Clean
<1>15. ASSUME NEW w \in Validator \ (T \cup {v})
        PROVE  n.hist[w] = <<>>
  BY <1>8 DEF Clean, SameBook
<1>16. \A w \in T \cup {v} : Sound(Book(n, w), {}, n.height)
  <2>1. Sound(Book(n, v), {}, n.height)
    BY <1>10, <1>12
  <2> QED
    BY <1>14, <2>1
<1>17. Clean(n, T \cup {v})
  <2>1. n.panic = FALSE /\ NoSlashes(n)
    BY <1>1, <1>6 DEF NoSlashes
  <2> HIDE DEF b
  <2> QED
    BY <1>9, <1>10, <1>11, <1>13, <1>15, <1>16, <2>1 DEF Clean
<1> QED
  BY <1>6, <1>17

(* And the whole loop: every book is opened, with no delegation in it.     *)
LEMMA ReinitBooks ==
  ASSUME NEW st, Clean(st, {}), NEW n, n = ReinitValidators(st)
  PROVE  Books(n, Carried({})) /\ NoSlashes(n) /\ Untouched(st, n) /\ n.bal = st.bal
<1> DEFINE J == [T \in SUBSET Validator |->
                   {m \in State : Clean(m, T) /\ Untouched(st, m) /\ m.bal = st.bal}]
           step == [z \in Validator \X State |-> Reset(z[2], z[1])]
           Rec(it) == [T \in SUBSET Validator |->
                         IF T = {} THEN st
                         ELSE LET v == CHOOSE v \in T : TRUE
                              IN  Reset(it[T \ {v}], v)]
           iter == CHOOSE it : it = Rec(it)
<1>0. \A m, T : Clean(m, T) => m \in State
  BY StateIs DEF Clean
<1>1. IsFiniteSet(Validator)
  BY ExportAssumption
<1>2. st \in J[{}]
  BY <1>0 DEF Untouched, SameElsewhere
<1>3. ASSUME NEW T \in SUBSET Validator, T # {}, NEW a \in J[T \ {Chosen(T)}]
      PROVE  /\ step[<<Chosen(T), a>>] = Reset(a, Chosen(T))
             /\ step[<<Chosen(T), a>>] \in J[T]
  <2> DEFINE v == Chosen(T)
             U == T \ {v}
             m == Reset(a, v)
  <2>1. v \in Validator /\ v \in T
    BY <1>3, ChosenIn
  <2>2. a \in State /\ Clean(a, U) /\ Untouched(st, a) /\ a.bal = st.bal
    OBVIOUS
  <2> HIDE DEF v, J, Rec, iter
  <2>3. step[<<v, a>>] = m
    BY <2>1, <2>2
  <2>4. U \in SUBSET Validator /\ v \in Validator \ U /\ U \cup {v} = T
    BY <2>1
  <2> HIDE DEF m, step, U
  <2>5. Clean(m, U \cup {v}) /\ Untouched(a, m) /\ m.bal = a.bal
    BY <2>2, <2>4, ResetClean DEF m
  <2>6. m \in J[T]
    BY <1>0, <2>2, <2>4, <2>5 DEF J, Untouched, SameElsewhere
  <2> QED
    BY <2>3, <2>6 DEF m, v
<1> HIDE DEF J, step
<1>4. StepKeeps(Validator, step, J)
  BY <1>3 DEF StepKeeps
<1>5. PICK it : Folded(it, st, step, Validator)
  BY <1>1, FoldFound
<1>6. \A T \in SUBSET Validator : it[T] \in J[T]
  BY <1>1, <1>2, <1>4, <1>5, FoldKeeps
<1>7. it = Rec(it)
  <2>1. ASSUME NEW T \in SUBSET Validator
        PROVE  it[T] = Rec(it)[T]
    <3>1. it[T] = IF T = {} THEN st ELSE step[<<Chosen(T), it[T \ {Chosen(T)}]>>]
      BY <1>5 DEF Folded
    <3>2. CASE T = {}
      BY <3>1, <3>2
    <3>3. CASE T # {}
      <4>1. it[T \ {Chosen(T)}] \in J[T \ {Chosen(T)}]
        BY <1>6
      <4>2. it[T] = Reset(it[T \ {Chosen(T)}], Chosen(T))
        BY <1>3, <3>1, <3>3, <4>1
      <4> QED
        BY <3>3, <4>2 DEF Chosen
    <3> QED
      BY <3>2, <3>3
  <2>2. it = [T \in SUBSET Validator |-> it[T]]
    BY <1>5 DEF Folded
  <2> QED
    BY <2>1, <2>2
<1>8. iter = Rec(iter)
  BY <1>7
<1>9. n = iter[Validator]
  BY DEF ReinitValidators, FoldSet, MapThenFoldSet, Reset
<1> HIDE DEF iter
<1>10. iter[{}] = st /\ \A T \in SUBSET Validator : T # {} =>
         iter[T] = Reset(iter[T \ {Chosen(T)}], Chosen(T))
  BY <1>8 DEF Chosen
<1>11. ASSUME NEW T \in SUBSET Validator, T # {}, iter[T \ {Chosen(T)}] \in J[T \ {Chosen(T)}]
       PROVE  iter[T] \in J[T]
  BY <1>3, <1>10, <1>11
<1>12. iter[Validator] \in J[Validator]
  BY <1>1, <1>2, <1>10, <1>11, FoldStays
<1>13. Clean(n, Validator) /\ Untouched(st, n) /\ n.bal = st.bal
  BY <1>9, <1>12 DEF J
<1>14. AllSound(n, Carried({}))
  <2>1. \A v \in Validator : Carried({})[v] = {}
    BY DEF Carried
  <2> QED
    BY <1>13, <2>1 DEF AllSound, Clean
<1> QED
  BY <1>13, <1>14 DEF Clean, Books

(* Fees are given to the validators of a set.                              *)
LEMMA AllocationsBooks ==
  ASSUME NEW st, NEW live, Books(st, live), NEW X, X \subseteq Validator,
         NEW n, n = FoldSet(LAMBDA v, acc : Allocate(acc, v), st, X)
  PROVE  Books(n, live) /\ Untouched(st, n)
<1> DEFINE J == [T \in SUBSET X |-> {m \in State : Books(m, live) /\ Untouched(st, m)}]
           step == [z \in X \X State |-> Allocate(z[2], z[1])]
           Rec(it) == [T \in SUBSET X |->
                         IF T = {} THEN st
                         ELSE LET v == CHOOSE v \in T : TRUE
                              IN  Allocate(it[T \ {v}], v)]
           iter == CHOOSE it : it = Rec(it)
<1>1. IsFiniteSet(X)
  BY ExportAssumption, FS_Subset
<1>2. st \in J[{}]
  BY BooksState DEF Untouched, SameElsewhere
<1>3. ASSUME NEW T \in SUBSET X, T # {}, NEW a \in J[T \ {Chosen(T)}]
      PROVE  /\ step[<<Chosen(T), a>>] = Allocate(a, Chosen(T))
             /\ step[<<Chosen(T), a>>] \in J[T]
  <2> DEFINE v == Chosen(T)
             m == Allocate(a, v)
  <2>1. v \in X /\ v \in Validator
    BY <1>3, ChosenIn
  <2>2. a \in State /\ Books(a, live) /\ Untouched(st, a)
    OBVIOUS
  <2> HIDE DEF v, J, Rec, iter
  <2>3. step[<<v, a>>] = m
    BY <2>1, <2>2
  <2>4. Books(m, live) /\ Untouched(a, m)
    BY <2>1, <2>2, AllocateBooks
  <2> HIDE DEF m, step
  <2>5. m \in J[T]
    BY <2>2, <2>4, BooksState DEF J, Untouched, SameElsewhere
  <2> QED
    BY <2>3, <2>5 DEF m, v
<1> HIDE DEF J, step
<1>4. StepKeeps(X, step, J)
  BY <1>3 DEF StepKeeps
<1>5. PICK it : Folded(it, st, step, X)
  BY <1>1, FoldFound
<1>6. \A T \in SUBSET X : it[T] \in J[T]
  BY <1>1, <1>2, <1>4, <1>5, FoldKeeps
<1>7. it = Rec(it)
  <2>1. ASSUME NEW T \in SUBSET X
        PROVE  it[T] = Rec(it)[T]
    <3>1. it[T] = IF T = {} THEN st ELSE step[<<Chosen(T), it[T \ {Chosen(T)}]>>]
      BY <1>5 DEF Folded
    <3>2. CASE T = {}
      BY <3>1, <3>2
    <3>3. CASE T # {}
      <4>1. it[T \ {Chosen(T)}] \in J[T \ {Chosen(T)}]
        BY <1>6
      <4>2. it[T] = Allocate(it[T \ {Chosen(T)}], Chosen(T))
        BY <1>3, <3>1, <3>3, <4>1
      <4> QED
        BY <3>3, <4>2 DEF Chosen
    <3> QED
      BY <3>2, <3>3
  <2>2. it = [T \in SUBSET X |-> it[T]]
    BY <1>5 DEF Folded
  <2> QED
    BY <2>1, <2>2
<1>8. iter = Rec(iter)
  BY <1>7
<1>9. n = iter[X]
  BY DEF FoldSet, MapThenFoldSet
<1> HIDE DEF iter
<1>10. iter[{}] = st /\ \A T \in SUBSET X : T # {} =>
         iter[T] = Allocate(iter[T \ {Chosen(T)}], Chosen(T))
  BY <1>8 DEF Chosen
<1>11. ASSUME NEW T \in SUBSET X, T # {}, iter[T \ {Chosen(T)}] \in J[T \ {Chosen(T)}]
       PROVE  iter[T] \in J[T]
  BY <1>3, <1>10, <1>11
<1>12. iter[X] \in J[X]
  BY <1>1, <1>2, <1>10, <1>11, FoldStays
<1> QED
  BY <1>9, <1>12 DEF J

-----------------------------------------------------------------------------
(* Operations on a state that is in order.                                 *)

(* Only what is said of validators matters.                                *)
LEMMA BooksLive ==
  ASSUME NEW st, NEW live, Books(st, live), NEW now, \A v \in Validator : now[v] = live[v]
  PROVE  Books(st, now)
BY DEF Books, AllSound

(* The delegations with a record of their start.                           *)
LEMMA LiveIs ==
  ASSUME NEW st, NEW x \in Delegation
  PROVE  x[1] \in Live(st)[x[2]] <=> st.start[x] # NoStart
<1>1. x[1] \in Delegator /\ x[2] \in Validator /\ x = <<x[1], x[2]>>
  BY DelegationIs
<1> QED
  BY <1>1 DEF Live

(* They are the same while those records are.                              *)
LEMMA SameLive ==
  ASSUME NEW st, NEW n, n.start = st.start
  PROVE  Live(n) = Live(st)
BY DEF Live

(* What a state in order is known to be.                                   *)
LEMMA InOrderFacts ==
  ASSUME NEW st, InOrder(st)
  PROVE  /\ Books(st, Live(st)) /\ Indexed(st) /\ Belongs(st) /\ Past(st)
         /\ Maps(st) /\ Elsewhere(st) /\ DOMAIN st = Fields /\ st = [f \in Fields |-> st[f]]
         /\ st.height \in Nat /\ DOMAIN st.jailed = Validator
         /\ DOMAIN st.unbondedAt = Validator /\ DOMAIN st.signing = Validator
         /\ DOMAIN st.stake = Delegation /\ DOMAIN st.start = Delegation
         /\ \A x \in Delegation : st.stake[x] \in 0 .. Stake /\ st.stake[x] \in Nat
<1>1. Books(st, Live(st)) /\ Indexed(st) /\ Belongs(st) /\ Past(st) /\ Maps(st) /\ Elsewhere(st)
  BY DEF InOrder, Books
<1>2. DOMAIN st = Fields /\ DOMAIN st.stake = Delegation /\ DOMAIN st.start = Delegation
  BY <1>1, MapsFacts
<1>3. st = [f \in Fields |-> st[f]]
  BY <1>1 DEF Maps
<1>4. \A x \in Delegation : st.stake[x] \in 0 .. Stake
  BY <1>1 DEF Maps
<1>5. 0 .. Stake \subseteq Nat
  BY ExportAssumption
<1>6. /\ st.height \in Nat /\ DOMAIN st.jailed = Validator
      /\ DOMAIN st.unbondedAt = Validator /\ DOMAIN st.signing = Validator
  BY <1>1 DEF Elsewhere
<1>7. \A x \in Delegation : st.stake[x] \in 0 .. Stake /\ st.stake[x] \in Nat
  BY <1>4, <1>5
<1> QED
  BY <1>1, <1>2, <1>3, <1>6, <1>7

(* An operation on the rest of the state that leaves it in order.          *)
LEMMA RestInOrder ==
  ASSUME NEW st, InOrder(st), NEW n, SameMoney(st, n), n.stake = st.stake,
         Elsewhere(n), st.height <= n.height, Indexed(n), Past(n)
  PROVE  InOrder(n)
<1>1. Books(st, Live(st)) /\ Belongs(st) /\ Maps(st)
  BY InOrderFacts
<1>2. n.start = st.start
  BY DEF SameMoney
<1>3. Live(n) = Live(st)
  BY <1>2, SameLive
<1>4. SameStakes(st, n, Live(st))
  BY <1>1 DEF SameStakes, Maps
<1>5. Books(n, Live(st))
  BY <1>1, <1>4, RestChanges
<1>6. Belongs(n)
  BY <1>1, <1>2 DEF Belongs
<1> QED
  BY <1>3, <1>5, <1>6 DEF InOrder

(* jailValidator takes the validator from the power index.                 *)
LEMMA JailInOrder ==
  ASSUME NEW st, InOrder(st), NEW v \in Validator, NEW n, n = JailValidator(st, v)
  PROVE  InOrder(n) /\ n.height = st.height /\ n.start = st.start /\ n.stake = st.stake
<1>1. /\ Books(st, Live(st)) /\ Indexed(st) /\ Belongs(st) /\ Past(st)
      /\ Elsewhere(st) /\ DOMAIN st = Fields /\ st = [f \in Fields |-> st[f]]
      /\ st.height \in Nat /\ DOMAIN st.jailed = Validator
      /\ DOMAIN st.unbondedAt = Validator
  BY InOrderFacts
<1>2. n = [st EXCEPT !.jailed[v] = TRUE, !.index = @ \ {v}, !.unbondedAt[v] = st.height]
  BY DEF JailValidator
<1>3. /\ SameMoney(st, n) /\ n.height = st.height /\ n.stake = st.stake /\ n.start = st.start
      /\ n.signing = st.signing /\ n.leaving = st.leaving
  BY <1>1, <1>2 DEF Fields, SameMoney
<1>4. /\ n.jailed = [st.jailed EXCEPT ![v] = TRUE] /\ n.index = st.index \ {v}
      /\ n.unbondedAt = [st.unbondedAt EXCEPT ![v] = st.height]
  BY <1>1, <1>2 DEF Fields
<1>5. Elsewhere(n)
  <2>0. /\ st.jailed \in [Validator -> BOOLEAN] /\ st.index \subseteq Validator
        /\ st.unbondedAt \in [Validator -> Nat] /\ st.height \in Nat
    BY <1>1 DEF Elsewhere
  <2>1. n.index \subseteq Validator
    BY <1>4, <2>0
  <2>2. n.unbondedAt \in [Validator -> Nat]
    <3>1. n.unbondedAt = [st.unbondedAt EXCEPT ![v] = st.height]
      BY <1>4
    <3> QED
      BY <2>0, <3>1
  <2>3. n.jailed \in [Validator -> BOOLEAN]
    <3>1. n.jailed = [st.jailed EXCEPT ![v] = TRUE]
      BY <1>4
    <3> QED
      BY <2>0, <3>1
  <2> QED
    BY <1>1, <1>3, <2>1, <2>2, <2>3 DEF Elsewhere
<1>6. Indexed(n)
  <2>1. \A w \in Validator : n.jailed[w] = IF w = v THEN TRUE ELSE st.jailed[w]
    BY <1>1, <1>4
  <2> QED
    BY <1>1, <1>4, <2>1 DEF Indexed
<1>7. Past(n)
  <2>1. \A w \in Validator : n.unbondedAt[w] = IF w = v THEN st.height ELSE st.unbondedAt[w]
    BY <1>1, <1>4
  <2>2. \A w \in Validator : n.unbondedAt[w] <= n.height
    BY <1>1, <1>3, <2>1 DEF Past
  <2> QED
    BY <1>1, <1>3, <2>2 DEF Past
<1>8. st.height <= n.height
  BY <1>1, <1>3
<1> QED
  BY <1>3, <1>5, <1>6, <1>7, <1>8, RestInOrder

(* The distribution of a state in order is changed, and nothing else.      *)
LEMMA UntouchedInOrder ==
  ASSUME NEW st, InOrder(st), NEW n, Books(n, Live(st)), Untouched(st, n)
  PROVE  InOrder(n) /\ n.height = st.height
<1>1. Indexed(st) /\ Belongs(st) /\ Past(st)
  BY DEF InOrder
<1>2. n.start = st.start /\ n.stake = st.stake /\ SameElsewhere(st, n)
  BY DEF Untouched
<1>3. Live(n) = Live(st)
  BY <1>2, SameLive
<1>4. Indexed(n) /\ Belongs(n) /\ Past(n) /\ n.height = st.height
  BY <1>1, <1>2 DEF Indexed, Belongs, Past, SameElsewhere
<1> QED
  BY <1>3, <1>4 DEF InOrder

(* A block punishes a validator.                                           *)
Even(st, v) == \A d \in Delegator : st.stake[<<d, v>>] % 2 = 0

(* A slash with jailing keeps a state in order.                            *)
LEMMA SlashInOrder ==
  ASSUME NEW st, InOrder(st), NEW v \in Validator, Even(st, v),
         NEW n, n = SlashValidator(st, v)
  PROVE  InOrder(n) /\ n.height = st.height /\ n.stake = Halved(st.stake, v)
<1> DEFINE m == Burnt(st, v)
<1>1. /\ Books(st, Live(st)) /\ Indexed(st) /\ Belongs(st) /\ Past(st)
      /\ \A x \in Delegation : st.stake[x] \in Nat
  BY InOrderFacts
<1>2. /\ Books(m, Live(st))
      /\ m.start = st.start /\ m.stake = Halved(st.stake, v) /\ SameElsewhere(st, m)
  BY <1>1, BurntBooks
<1>3. n = IF st.jailed[v] THEN m ELSE JailValidator(m, v)
  BY DEF SlashValidator, Burnt, Halved
<1> HIDE DEF m
<1>4. Indexed(m) /\ Past(m) /\ m.height = st.height
  BY <1>1, <1>2 DEF Indexed, Past, SameElsewhere
<1>5. Belongs(m)
  <2> SUFFICES ASSUME NEW x \in Delegation
               PROVE  m.start[x] = NoStart <=> m.stake[x] = 0
    BY DEF Belongs
  <2>1. m.stake[x] = IF x[2] = v THEN st.stake[x] \div 2 ELSE st.stake[x]
    BY <1>2 DEF Halved
  <2>2. m.stake[x] = 0 <=> st.stake[x] = 0
    <3>1. CASE x[2] = v
      <4> DEFINE k == st.stake[x]
      <4>1. k \in Nat /\ k % 2 = 0
        <5>1. x[1] \in Delegator /\ x = <<x[1], v>>
          BY <3>1, DelegationIs
        <5> QED
          BY <1>1, <5>1 DEF Even
      <4>2. m.stake[x] = k \div 2
        BY <2>1, <3>1
      <4> HIDE DEF k
      <4>3. k \div 2 = 0 <=> k = 0
        BY <4>1
      <4> QED
        BY <4>2, <4>3 DEF k
    <3>2. CASE x[2] # v
      BY <2>1, <3>2
    <3> QED
      BY <3>1, <3>2
  <2>3. m.start[x] = NoStart <=> st.stake[x] = 0
    BY <1>1, <1>2 DEF Belongs
  <2> QED
    BY <2>2, <2>3
<1>6. InOrder(m)
  <2>1. Live(m) = Live(st)
    BY <1>2, SameLive
  <2> QED
    BY <1>2, <1>4, <1>5, <2>1 DEF InOrder
<1>7. CASE st.jailed[v]
  BY <1>2, <1>3, <1>4, <1>6, <1>7
<1>8. CASE ~st.jailed[v]
  <2>1. n = JailValidator(m, v)
    BY <1>3, <1>8
  <2>2. InOrder(n) /\ n.height = m.height /\ n.stake = m.stake
    BY <1>6, <2>1, JailInOrder
  <2> QED
    BY <1>2, <1>4, <2>2
<1> QED
  BY <1>7, <1>8

(* A state in order is one of the set over which loops range.              *)
LEMMA InOrderState ==
  ASSUME NEW st, InOrder(st)
  PROVE  st \in State
BY InOrderFacts, BooksState

(* Validators are punished one after another, which leaves the stakes of   *)
(* the others alone.                                                       *)
Punished(st, n, T) ==
  /\ n.height = st.height
  /\ \A x \in Delegation : x[2] \notin T => n.stake[x] = st.stake[x]

(* All slashes of a block, in any order.                                   *)
LEMMA SlashesInOrder ==
  ASSUME NEW st, InOrder(st), NEW X, X \subseteq Validator, \A v \in X : Even(st, v),
         NEW n, n = FoldSet(LAMBDA v, acc : SlashValidator(acc, v), st, X)
  PROVE  InOrder(n) /\ n.height = st.height
<1> DEFINE J == [T \in SUBSET X |-> {m \in State : InOrder(m) /\ Punished(st, m, T)}]
           step == [z \in X \X State |-> SlashValidator(z[2], z[1])]
           Rec(it) == [T \in SUBSET X |->
                         IF T = {} THEN st
                         ELSE LET v == CHOOSE v \in T : TRUE
                              IN  SlashValidator(it[T \ {v}], v)]
           iter == CHOOSE it : it = Rec(it)
<1>1. IsFiniteSet(X)
  BY ExportAssumption, FS_Subset
<1>2. st \in J[{}]
  BY InOrderState DEF Punished
<1>3. ASSUME NEW T \in SUBSET X, T # {}, NEW a \in J[T \ {Chosen(T)}]
      PROVE  /\ step[<<Chosen(T), a>>] = SlashValidator(a, Chosen(T))
             /\ step[<<Chosen(T), a>>] \in J[T]
  <2> DEFINE v == Chosen(T)
             m == SlashValidator(a, v)
  <2>1. v \in T /\ v \in X /\ v \in Validator
    BY <1>3, ChosenIn
  <2>2. a \in State /\ InOrder(a) /\ Punished(st, a, T \ {v})
    OBVIOUS
  <2> HIDE DEF v, J, Rec, iter
  <2>3. step[<<v, a>>] = m
    BY <2>1, <2>2
  <2>4. Even(a, v)
    <3>1. \A d \in Delegator : a.stake[<<d, v>>] = st.stake[<<d, v>>]
      <4>1. \A d \in Delegator : <<d, v>> \in Delegation /\ <<d, v>>[2] \notin T \ {v}
        BY <2>1 DEF Delegation
      <4> QED
        BY <2>2, <4>1 DEF Punished
    <3> QED
      BY <2>1, <3>1 DEF Even
  <2>5. InOrder(m) /\ m.height = a.height /\ m.stake = Halved(a.stake, v)
    BY <2>1, <2>2, <2>4, SlashInOrder
  <2> HIDE DEF m, step
  <2>6. Punished(st, m, T)
    <3>1. \A x \in Delegation : x[2] \notin T => m.stake[x] = a.stake[x] /\ x[2] \notin T \ {v}
      BY <2>1, <2>5 DEF Halved
    <3> QED
      BY <2>2, <2>5, <3>1 DEF Punished
  <2>7. m \in J[T]
    BY <2>5, <2>6, InOrderState DEF J
  <2> QED
    BY <2>3, <2>7 DEF m, v
<1> HIDE DEF J, step
<1>4. StepKeeps(X, step, J)
  BY <1>3 DEF StepKeeps
<1>5. PICK it : Folded(it, st, step, X)
  BY <1>1, FoldFound
<1>6. \A T \in SUBSET X : it[T] \in J[T]
  BY <1>1, <1>2, <1>4, <1>5, FoldKeeps
<1>7. it = Rec(it)
  <2>1. ASSUME NEW T \in SUBSET X
        PROVE  it[T] = Rec(it)[T]
    <3>1. it[T] = IF T = {} THEN st ELSE step[<<Chosen(T), it[T \ {Chosen(T)}]>>]
      BY <1>5 DEF Folded
    <3>2. CASE T = {}
      BY <3>1, <3>2
    <3>3. CASE T # {}
      <4>1. it[T \ {Chosen(T)}] \in J[T \ {Chosen(T)}]
        BY <1>6
      <4>2. it[T] = SlashValidator(it[T \ {Chosen(T)}], Chosen(T))
        BY <1>3, <3>1, <3>3, <4>1
      <4> QED
        BY <3>3, <4>2 DEF Chosen
    <3> QED
      BY <3>2, <3>3
  <2>2. it = [T \in SUBSET X |-> it[T]]
    BY <1>5 DEF Folded
  <2> QED
    BY <2>1, <2>2
<1>8. iter = Rec(iter)
  BY <1>7
<1>9. n = iter[X]
  BY DEF FoldSet, MapThenFoldSet
<1> HIDE DEF iter
<1>10. iter[{}] = st /\ \A T \in SUBSET X : T # {} =>
         iter[T] = SlashValidator(iter[T \ {Chosen(T)}], Chosen(T))
  BY <1>8 DEF Chosen
<1>11. ASSUME NEW T \in SUBSET X, T # {}, iter[T \ {Chosen(T)}] \in J[T \ {Chosen(T)}]
       PROVE  iter[T] \in J[T]
  BY <1>3, <1>10, <1>11
<1>12. iter[X] \in J[X]
  BY <1>1, <1>2, <1>10, <1>11, FoldStays
<1> QED
  BY <1>9, <1>12 DEF J, Punished

(* A delegation's rewards are paid.                                        *)
LEMMA WithdrawInOrder ==
  ASSUME NEW st, InOrder(st), NEW x \in Delegation, st.stake[x] > 0,
         NEW n, n = WithdrawDelegationRewards(st, x)
  PROVE  InOrder(n) /\ n.height = st.height
<1>1. /\ Books(st, Live(st)) /\ Indexed(st) /\ Belongs(st) /\ Past(st)
      /\ DOMAIN st.start = Delegation
  BY InOrderFacts
<1>2. x[1] \in Live(st)[x[2]] /\ st.start[x] # NoStart
  <2>1. st.start[x] # NoStart
    BY <1>1 DEF Belongs
  <2> QED
    BY <2>1, LiveIs
<1>3. x[2] \in Validator /\ x = <<x[1], x[2]>>
  BY DelegationIs
<1>4. Books(n, Live(st)) /\ Restarts(st, n, x)
  <2> DEFINE d == x[1]
             v == x[2]
  <2>1. v \in Validator /\ d \in Live(st)[v] /\ x = <<d, v>>
    BY <1>2, <1>3
  <2> HIDE DEF d, v
  <2>2. n = WithdrawDelegationRewards(st, <<d, v>>)
    BY <2>1
  <2> QED
    BY <1>1, <2>1, <2>2, WithdrawBooks
<1>5. \A y \in Delegation : n.start[y] = NoStart <=> st.start[y] = NoStart
  <2>1. n.start[x] # NoStart
    BY <1>4, NoStartAssumption DEF Restarts, Start
  <2>2. \A y \in Delegation \ {x} : n.start[y] = st.start[y]
    BY <1>1, <1>4 DEF Restarts
  <2> QED
    BY <1>2, <2>1, <2>2
<1>6. \A v \in Validator : Live(n)[v] = Live(st)[v]
  <2>1. \A v \in Validator, d \in Delegator : <<d, v>> \in Delegation
    BY DEF Delegation
  <2> QED
    BY <1>5, <2>1 DEF Live
<1>7. Books(n, Live(n))
  BY <1>4, <1>6, BooksLive
<1>8. n.stake = st.stake /\ SameElsewhere(st, n)
  BY <1>4 DEF Restarts
<1>9. Indexed(n) /\ Belongs(n) /\ Past(n) /\ n.height = st.height
  BY <1>1, <1>5, <1>8 DEF Indexed, Belongs, Past, SameElsewhere
<1> QED
  BY <1>7, <1>9 DEF InOrder

(* A withdrawal of commission keeps a state in order.                      *)
LEMMA CommissionInOrder ==
  ASSUME NEW st, InOrder(st), NEW v \in Validator, NEW n, n = WithdrawValidatorCommission(st, v)
  PROVE  InOrder(n) /\ n.height = st.height
BY InOrderFacts, CommissionBooks, UntouchedInOrder

(* The stake of a delegation that has none, or is paid out.                *)
SetsStake(st, n, x, k) ==
  /\ n.stake = [st.stake EXCEPT ![x] = k] /\ n.start = st.start /\ SameElsewhere(st, n)

(* The stake of a delegation that has no record of its start may be set to *)
(* any amount.                                                             *)
LEMMA StakeBooks ==
  ASSUME NEW st, NEW live, Books(st, live), NEW d \in Delegator, NEW v \in Validator,
         d \notin live[v], NEW k \in 0 .. Stake, NEW n, n = [st EXCEPT !.stake[<<d, v>>] = k]
  PROVE  Books(n, live) /\ StillOpen(st, n, live) /\ SetsStake(st, n, <<d, v>>, k)
<1> DEFINE x == <<d, v>>
<1>1. Maps(st) /\ Elsewhere(st) /\ st.height \in Nat
  BY DEF Books, Elsewhere
<1>2. DOMAIN st = Fields /\ DOMAIN st.stake = Delegation /\ st.stake \in [Delegation -> 0 .. Stake]
  BY <1>1, MapsFacts DEF Maps
<1>3. x \in Delegation
  BY DEF Delegation
<1> HIDE DEF x
<1>a. n = [st EXCEPT !.stake[x] = k]
  BY DEF x
<1>4. SameMoney(st, n) /\ SameElsewhere(st, n) /\ n.stake = [st.stake EXCEPT ![x] = k]
  BY <1>2, <1>a DEF Fields, SameMoney, SameElsewhere
<1>5. SameStakes(st, n, live)
  <2>1. n.stake \in [Delegation -> 0 .. Stake]
    BY <1>2, <1>3, <1>4
  <2>2. ASSUME NEW w \in Validator, NEW e \in live[w]
        PROVE  n.stake[<<e, w>>] = st.stake[<<e, w>>]
    <3>1. live[w] \subseteq Delegator
      BY BooksFacts
    <3>2. <<e, w>> \in Delegation /\ <<e, w>> # x
      BY <3>1 DEF Delegation, x
    <3> QED
      BY <1>2, <1>4, <3>2
  <2> QED
    BY <2>1, <2>2 DEF SameStakes
<1>6. Elsewhere(n) /\ st.height <= n.height
  <2>1. Elsewhere(n)
    BY <1>1, <1>4, ElsewhereStays
  <2>2. n.height = st.height
    BY <1>4 DEF SameElsewhere
  <2> QED
    BY <1>1, <2>1, <2>2
<1>7. Books(n, live) /\ StillOpen(st, n, live)
  BY <1>4, <1>5, <1>6, RestChanges
<1> QED
  BY <1>4, <1>7 DEF SameMoney, SetsStake, x

(* A delegation begins.                                                    *)
LEMMA JoinedInOrder ==
  ASSUME NEW st, InOrder(st), NEW x \in Delegation, st.stake[x] = 0, NEW n, n = Joined(st, x)
  PROVE  InOrder(n) /\ n.height = st.height
<1> DEFINE d == x[1]
           v == x[2]
           L == Live(st)
           m == NewPeriod(st, v)
           k == [m EXCEPT !.stake[x] = Stake]
           now == [w \in Validator |-> IF w = v THEN L[w] \cup {d} ELSE L[w]]
<1>1. /\ Books(st, L) /\ Indexed(st) /\ Belongs(st) /\ Past(st)
      /\ DOMAIN st.start = Delegation /\ DOMAIN st.stake = Delegation
  BY InOrderFacts
<1>2. d \in Delegator /\ v \in Validator /\ x = <<d, v>>
  BY DelegationIs
<1>3. d \notin L[v] /\ st.start[x] = NoStart
  BY <1>1, LiveIs DEF Belongs
<1> HIDE DEF d, v, L
<1>4. /\ Books(m, L) /\ Last(Book(m, v)) \notin Kept(Book(m, v), L[v])
      /\ m.start = st.start /\ m.stake = st.stake /\ SameElsewhere(st, m)
  BY <1>1, <1>2, NewPeriodBooks
<1>5. n = InitializeDelegation(k, x)
  BY DEF Joined, v
<1> HIDE DEF m
<1>6. /\ Books(k, L) /\ StillOpen(m, k, L) /\ k.start = m.start
      /\ k.stake = [m.stake EXCEPT ![x] = Stake] /\ SameElsewhere(m, k)
  <2>1. Stake \in 0 .. Stake
    BY ExportAssumption
  <2>2. k = [m EXCEPT !.stake[<<d, v>>] = Stake]
    BY <1>2
  <2> HIDE DEF k
  <2>3. Books(k, L) /\ StillOpen(m, k, L) /\ SetsStake(m, k, <<d, v>>, Stake)
    BY <1>2, <1>3, <1>4, <2>1, <2>2, StakeBooks
  <2> QED
    BY <1>2, <2>3 DEF SetsStake
<1> HIDE DEF k
<1>7. Last(Book(k, v)) \notin Kept(Book(k, v), L[v])
  BY <1>2, <1>4, <1>6 DEF StillOpen
<1>8. Extends(now, L, v, d)
  BY <1>2 DEF Extends
<1>a. n = InitializeDelegation(k, <<d, v>>)
  BY <1>2, <1>5
<1>9. Books(n, now) /\ n.start[x] \in Start /\ StartsAt(k, n, x, n.start[x])
  <2> HIDE DEF now
  <2> QED
    BY <1>2, <1>3, <1>6, <1>7, <1>8, <1>a, InitializeDelegationBooks
<1>10. /\ n.start = [st.start EXCEPT ![x] = n.start[x]] /\ n.stake = [st.stake EXCEPT ![x] = Stake]
       /\ SameElsewhere(st, n)
  BY <1>4, <1>6, <1>9 DEF StartsAt, SameElsewhere
<1>11. n.start[x] # NoStart /\ n.stake[x] = Stake /\ Stake # 0
  BY <1>1, <1>9, <1>10, NoStartAssumption, ExportAssumption DEF Start
<1>12. \A y \in Delegation \ {x} : n.start[y] = st.start[y] /\ n.stake[y] = st.stake[y]
  BY <1>1, <1>10
<1>13. Belongs(n)
  BY <1>1, <1>11, <1>12 DEF Belongs
<1>14. Books(n, Live(n))
  <2>1. ASSUME NEW w \in Validator
        PROVE  Live(n)[w] = now[w]
    <3>1. L[w] = {e \in Delegator : st.start[<<e, w>>] # NoStart}
      BY DEF Live, L
    <3>2. Live(n)[w] = {e \in Delegator : n.start[<<e, w>>] # NoStart}
      BY DEF Live
    <3>3. CASE w = v
      <4>1. \A e \in Delegator \ {d} : <<e, w>> \in Delegation \ {x}
        BY <1>2 DEF Delegation
      <4>2. \A e \in Delegator \ {d} : n.start[<<e, w>>] = st.start[<<e, w>>]
        BY <1>12, <4>1
      <4>3. n.start[<<d, w>>] # NoStart
        BY <1>2, <1>11, <3>3
      <4>4. Live(n)[w] = L[w] \cup {d}
        BY <1>2, <3>1, <3>2, <4>2, <4>3
      <4> QED
        BY <3>3, <4>4
    <3>4. CASE w # v
      <4>1. \A e \in Delegator : <<e, w>> \in Delegation \ {x}
        BY <1>2, <3>4 DEF Delegation
      <4>2. \A e \in Delegator : n.start[<<e, w>>] = st.start[<<e, w>>]
        BY <1>12, <4>1
      <4> QED
        BY <3>1, <3>2, <3>4, <4>2
    <3> QED
      BY <3>3, <3>4
  <2> HIDE DEF now
  <2> QED
    BY <1>9, <2>1, BooksLive
<1>15. Indexed(n) /\ Past(n) /\ n.height = st.height
  BY <1>1, <1>10 DEF Indexed, Past, SameElsewhere
<1> QED
  BY <1>13, <1>14, <1>15 DEF InOrder

(* A delegation ends.                                                      *)
LEMMA LeftInOrder ==
  ASSUME NEW st, InOrder(st), NEW x \in Delegation, st.stake[x] > 0, NEW n, n = Left(st, x)
  PROVE  InOrder(n) /\ n.height = st.height /\ n.stake = [st.stake EXCEPT ![x] = 0]
<1> DEFINE d == x[1]
           v == x[2]
           L == Live(st)
           m == PayOut(st, x)
           k == [m EXCEPT !.stake[x] = 0]
           gone == [w \in Validator |-> IF w = v THEN L[w] \ {d} ELSE L[w]]
<1>1. /\ Books(st, L) /\ Indexed(st) /\ Belongs(st) /\ Past(st)
      /\ DOMAIN st.start = Delegation /\ DOMAIN st.stake = Delegation
      /\ \A w \in Delegation : st.stake[w] \in Nat
  BY InOrderFacts
<1>2. d \in Delegator /\ v \in Validator /\ x = <<d, v>>
  BY DelegationIs
<1>3. d \in L[v] /\ st.start[x] # NoStart
  <2>1. st.start[x] # NoStart
    BY <1>1 DEF Belongs
  <2> QED
    BY <2>1, LiveIs
<1> HIDE DEF d, v, L
<1>4. Leaves(gone, L, v, d) /\ d \notin gone[v]
  BY <1>2 DEF Leaves
<1>a. m = PayOut(st, <<d, v>>)
  BY <1>2
<1> HIDE DEF m
<1>5. /\ Books(m, gone) /\ m.start = [st.start EXCEPT ![x] = NoStart]
      /\ m.stake = st.stake /\ SameElsewhere(st, m)
  <2> HIDE DEF gone
  <2> QED
    BY <1>1, <1>2, <1>3, <1>4, <1>a, PayOutBooks
<1>6. /\ Books(k, gone) /\ k.start = m.start
      /\ k.stake = [m.stake EXCEPT ![x] = 0] /\ SameElsewhere(m, k)
  <2> DEFINE z == 0
  <2>1. z \in 0 .. Stake
    BY ExportAssumption
  <2>2. k = [m EXCEPT !.stake[<<d, v>>] = z]
    BY <1>2
  <2>3. z = 0
    OBVIOUS
  <2> HIDE DEF k, z, gone
  <2>4. Books(k, gone) /\ SetsStake(m, k, <<d, v>>, z)
    BY <1>2, <1>4, <1>5, <2>1, <2>2, StakeBooks
  <2> QED
    BY <1>2, <2>3, <2>4 DEF SetsStake
<1>b. n = IF x \in Founders /\ ~st.jailed[v] THEN JailValidator(k, v) ELSE k
  BY DEF Left, v, m
<1> HIDE DEF k
<1>7. /\ k.start = [st.start EXCEPT ![x] = NoStart] /\ k.stake = [st.stake EXCEPT ![x] = 0]
      /\ SameElsewhere(st, k)
  BY <1>5, <1>6 DEF SameElsewhere
<1>8. k.start[x] = NoStart /\ k.stake[x] = 0
  BY <1>1, <1>7
<1>9. \A y \in Delegation \ {x} : k.start[y] = st.start[y] /\ k.stake[y] = st.stake[y]
  BY <1>1, <1>7
<1>10. Belongs(k)
  BY <1>1, <1>8, <1>9 DEF Belongs
<1>11. Books(k, Live(k))
  <2>1. ASSUME NEW w \in Validator
        PROVE  Live(k)[w] = gone[w]
    <3>1. L[w] = {e \in Delegator : st.start[<<e, w>>] # NoStart}
      BY DEF Live, L
    <3>2. Live(k)[w] = {e \in Delegator : k.start[<<e, w>>] # NoStart}
      BY DEF Live
    <3>3. CASE w = v
      <4>1. \A e \in Delegator \ {d} : <<e, w>> \in Delegation \ {x}
        BY <1>2 DEF Delegation
      <4>2. \A e \in Delegator \ {d} : k.start[<<e, w>>] = st.start[<<e, w>>]
        BY <1>9, <4>1
      <4> QED
        BY <1>2, <1>8, <3>1, <3>2, <3>3, <4>2
    <3>4. CASE w # v
      <4>1. \A e \in Delegator : <<e, w>> \in Delegation \ {x}
        BY <1>2, <3>4 DEF Delegation
      <4>2. \A e \in Delegator : k.start[<<e, w>>] = st.start[<<e, w>>]
        BY <1>9, <4>1
      <4> QED
        BY <3>1, <3>2, <3>4, <4>2
    <3> QED
      BY <3>3, <3>4
  <2> HIDE DEF gone
  <2> QED
    BY <1>6, <2>1, BooksLive
<1>12. Indexed(k) /\ Past(k) /\ k.height = st.height
  BY <1>1, <1>7 DEF Indexed, Past, SameElsewhere
<1>13. InOrder(k)
  BY <1>10, <1>11, <1>12 DEF InOrder
<1>14. CASE x \in Founders /\ ~st.jailed[v]
  <2>1. n = JailValidator(k, v)
    BY <1>14, <1>b
  <2>2. InOrder(n) /\ n.height = k.height /\ n.stake = k.stake
    BY <1>2, <1>13, <2>1, JailInOrder
  <2> QED
    BY <1>7, <1>12, <2>2
<1>15. CASE ~(x \in Founders /\ ~st.jailed[v])
  BY <1>7, <1>12, <1>13, <1>15, <1>b
<1> QED
  BY <1>14, <1>15

(* Somebody's tokens are on their way out.                                 *)
LEMMA LeavingInOrder ==
  ASSUME NEW st, InOrder(st), NEW kind \in {"unbonding", "redelegation"}, NEW v \in Validator,
         NEW n, n = Leaving(st, kind, v)
  PROVE  InOrder(n) /\ n.height = st.height
<1> DEFINE e == [kind |-> kind, validator |-> v, height |-> st.height]
<1>1. /\ Indexed(st) /\ Past(st) /\ Elsewhere(st) /\ DOMAIN st = Fields
      /\ st = [f \in Fields |-> st[f]] /\ st.height \in Nat
  BY InOrderFacts
<1>2. n = [st EXCEPT !.leaving = @ \cup {e}]
  BY DEF Leaving
<1>3. e \in Exit /\ e.height = st.height
  BY <1>1 DEF Exit
<1> HIDE DEF e
<1>4. /\ SameMoney(st, n) /\ n.height = st.height /\ n.stake = st.stake
      /\ n.jailed = st.jailed /\ n.index = st.index /\ n.unbondedAt = st.unbondedAt
      /\ n.signing = st.signing /\ n.leaving = st.leaving \cup {e}
  BY <1>1, <1>2 DEF Fields, SameMoney
<1>5. Elsewhere(n)
  BY <1>1, <1>3, <1>4 DEF Elsewhere
<1>6. Indexed(n)
  BY <1>1, <1>4 DEF Indexed
<1>7. Past(n)
  BY <1>1, <1>3, <1>4 DEF Past
<1>8. st.height <= n.height
  BY <1>1, <1>4
<1> QED
  BY <1>4, <1>5, <1>6, <1>7, <1>8, RestInOrder

(* A validator comes back from jail.                                       *)
LEMMA UnjailInOrder ==
  ASSUME NEW st, InOrder(st), NEW v \in Validator, NEW n,
         n = [st EXCEPT !.jailed[v] = FALSE, !.index = @ \cup {v}, !.signing[v] = st.height]
  PROVE  InOrder(n) /\ n.height = st.height
<1>1. /\ Indexed(st) /\ Past(st) /\ Elsewhere(st) /\ DOMAIN st = Fields
      /\ st = [f \in Fields |-> st[f]] /\ st.height \in Nat
      /\ DOMAIN st.jailed = Validator /\ DOMAIN st.signing = Validator
  BY InOrderFacts
<1>2. /\ SameMoney(st, n) /\ n.height = st.height /\ n.stake = st.stake
      /\ n.unbondedAt = st.unbondedAt /\ n.leaving = st.leaving
  BY <1>1 DEF Fields, SameMoney
<1>3. /\ n.jailed = [st.jailed EXCEPT ![v] = FALSE] /\ n.index = st.index \cup {v}
      /\ n.signing = [st.signing EXCEPT ![v] = st.height]
  BY <1>1 DEF Fields
<1>4. Elsewhere(n)
  <2>1. n.jailed \in [Validator -> BOOLEAN] /\ n.index \subseteq Validator
    BY <1>1, <1>3 DEF Elsewhere
  <2>2. n.signing \in [Validator -> Nat]
    BY <1>1, <1>3 DEF Elsewhere
  <2> QED
    BY <1>1, <1>2, <2>1, <2>2 DEF Elsewhere
<1>5. Indexed(n)
  <2>1. ~n.jailed[v]
    BY <1>1, <1>3
  <2>2. \A w \in Validator \ {v} : n.jailed[w] = st.jailed[w]
    BY <1>1, <1>3
  <2> QED
    BY <1>1, <1>3, <2>1, <2>2 DEF Indexed
<1>6. Past(n)
  <2>1. \A w \in Validator : n.signing[w] = IF w = v THEN st.height ELSE st.signing[w]
    BY <1>1, <1>3
  <2>2. \A w \in Validator : n.signing[w] <= n.height
    BY <1>1, <1>2, <2>1 DEF Past
  <2> QED
    BY <1>1, <1>2, <2>2 DEF Past
<1>7. st.height <= n.height
  BY <1>1, <1>2
<1> QED
  BY <1>2, <1>4, <1>5, <1>6, <1>7, RestInOrder

(* A block begins.                                                         *)
LEMMA BegunInOrder ==
  ASSUME NEW st, InOrder(st), NEW n, n = [st EXCEPT !.height = @ + 1]
  PROVE  InOrder(n) /\ n.height = st.height + 1 /\ n.stake = st.stake
<1>1. /\ Indexed(st) /\ Past(st) /\ Elsewhere(st) /\ DOMAIN st = Fields
      /\ st = [f \in Fields |-> st[f]] /\ st.height \in Nat
  BY InOrderFacts
<1>2. /\ SameMoney(st, n) /\ n.height = st.height + 1 /\ n.stake = st.stake
      /\ n.jailed = st.jailed /\ n.index = st.index /\ n.unbondedAt = st.unbondedAt
      /\ n.signing = st.signing /\ n.leaving = st.leaving
  BY <1>1 DEF Fields, SameMoney
<1>3. Elsewhere(n) /\ Indexed(n)
  <2>1. n.height \in Nat
    BY <1>1, <1>2
  <2> QED
    BY <1>1, <1>2, <2>1 DEF Elsewhere, Indexed
<1>4. Past(n)
  <2>1. \A w \in Validator : st.unbondedAt[w] \in Nat /\ st.signing[w] \in Nat
    BY <1>1 DEF Elsewhere
  <2>2. \A e \in st.leaving : e.height \in Nat
    BY <1>1 DEF Elsewhere, Exit
  <2>3. \A w \in Validator : n.unbondedAt[w] <= n.height /\ n.signing[w] <= n.height
    BY <1>1, <1>2, <2>1 DEF Past
  <2>4. \A e \in n.leaving : e.height <= n.height
    BY <1>1, <1>2, <2>2 DEF Past
  <2> QED
    BY <2>3, <2>4 DEF Past
<1>5. st.height <= n.height
  BY <1>1, <1>2
<1> QED
  BY <1>2, <1>3, <1>4, <1>5, RestInOrder

(* A block: rewards for some validators, slashes for others.               *)
LEMMA NextBlockInOrder ==
  ASSUME InOrder(s), NEW paid \in SUBSET Validator, NEW slashed \in SUBSET Validator,
         NextBlock(paid, slashed)
  PROVE  InOrder(s') /\ s'.height = s.height + 1
<1> DEFINE begun == [s EXCEPT !.height = @ + 1]
           funded == FoldSet(LAMBDA v, acc : Allocate(acc, v), begun, paid)
<1>1. s' = FoldSet(LAMBDA v, acc : SlashValidator(acc, v), funded, slashed)
  BY DEF NextBlock
<1>2. InOrder(begun) /\ begun.height = s.height + 1 /\ begun.stake = s.stake
  BY BegunInOrder
<1> HIDE DEF begun
<1>3. Books(begun, Live(begun))
  BY <1>2, InOrderFacts
<1>4. Books(funded, Live(begun)) /\ Untouched(begun, funded)
  BY <1>3, AllocationsBooks
<1> HIDE DEF funded
<1>5. InOrder(funded) /\ funded.height = begun.height
  BY <1>2, <1>4, UntouchedInOrder
<1>6. \A v \in slashed : Even(funded, v)
  <2>1. funded.stake = s.stake
    BY <1>2, <1>4 DEF Untouched
  <2> QED
    BY <2>1 DEF NextBlock, Even
<1>7. InOrder(s') /\ s'.height = funded.height
  BY <1>1, <1>5, <1>6, SlashesInOrder
<1> QED
  BY <1>2, <1>5, <1>7

-----------------------------------------------------------------------------
(* The export for height zero.                                             *)

(* What the export owes, from the promises and the commissions.            *)
LEMMA OwedIs ==
  ASSUME NEW st, InOrder(st)
  PROVE  /\ Owed(st) = SumOver(Dues(st), Delegations(st)) + SumOver(Coins(st), Validator)
         /\ SumOver(Dues(st), Delegations(st)) \in Int /\ SumOver(Coins(st), Validator) \in Int
         /\ \A x \in Delegations(st) : Dues(st)[x] \in Int
<1> DEFINE live == Live(st)
           X == Delegations(st)
           f == [x \in X |-> st.bal - PayOut(st, x).bal]
           g == Dues(st)
           h == Coins(st)
           i == st.bal
<1>1. Books(st, live) /\ Belongs(st)
  BY InOrderFacts
<1>2. i \in Int
  <2>1. Balanced(st)
    BY <1>1 DEF Books
  <2> QED
    BY <2>1 DEF Balanced
<1>3. IsFiniteSet(X) /\ X \subseteq Delegation
  <2>1. IsFiniteSet(Delegation)
    BY ExportAssumption, FS_Product DEF Delegation
  <2> QED
    BY <2>1, FS_Subset DEF Delegations
<1>4. IsFiniteSet(Validator) /\ \A v \in Validator : h[v] \in Nat
  BY <1>1, ExportAssumption, CoinsType
<1>5. ASSUME NEW x \in X
      PROVE  f[x] = g[x] /\ g[x] \in Nat
  <2> DEFINE v == x[2]
             d == x[1]
             n == PayOut(st, x)
             now == [w \in Validator |-> IF w = v THEN live[v] \ {d} ELSE live[w]]
             p == Promise(st, v, d)
  <2>1. v \in Validator /\ x = <<d, v>> /\ x \in Delegation
    BY <1>3, DelegationIs
  <2>2. d \in live[v]
    <3>1. x \in Delegation /\ st.stake[x] > 0
      BY DEF Delegations
    <3>2. st.start[x] # NoStart
      BY <1>1, <3>1 DEF Belongs
    <3> QED
      BY <3>1, <3>2, LiveIs
  <2>3. g[x] = p \div Unit
    BY <2>1 DEF Dues
  <2>4. p \in Nat
    BY <1>1, <2>1, <2>2, PromiseType
  <2>5. Leaves(now, live, v, d)
    BY <2>1 DEF Leaves
  <2>6. f[x] = st.bal - n.bal
    OBVIOUS
  <2>7. n = PayOut(st, <<d, v>>)
    BY <2>1
  <2> HIDE DEF n, now, live, f, g, h, X, v, d
  <2>8. n.bal = st.bal - p \div Unit
    <3>1. Books(st, live) /\ v \in Validator /\ d \in live[v] /\ Leaves(now, live, v, d)
      BY <1>1, <2>1, <2>2, <2>5
    <3> HIDE DEF i, p
    <3>2. Pays(st, n, Promise(st, v, d) \div Unit)
      BY <2>7, <3>1, PayOutBooks
    <3> QED
      BY <3>2 DEF p, Pays
  <2> HIDE DEF p
  <2>9. p \div Unit \in Nat
    BY <2>4, WholeCoins
  <2> DEFINE k == p \div Unit
  <2>10. k \in Nat /\ n.bal = i - k /\ f[x] = i - n.bal /\ g[x] = k
    BY <2>3, <2>6, <2>8, <2>9
  <2> HIDE DEF k, i
  <2>11. k \in Int
    BY <2>10, NatIsInt, Zenon
  <2>12. i - (i - k) = k
    BY <1>2, <2>11, Spending, Zenon
  <2> QED
    BY <2>10, <2>12, Zenon
<1>6. Owed(st) = SumFunction(f) + SumFunction(h)
  BY DEF Owed, Coins
<1>7. DOMAIN f = X /\ DOMAIN h = Validator
  BY DEF Coins
<1> HIDE DEF f, g, h, X, live, i
<1>8. \A x \in X : g[x] \in Int /\ f[x] = g[x]
  BY <1>5, NatIsInt, Zenon
<1>9. \A v \in Validator : h[v] \in Int
  BY <1>4, NatIsInt, Zenon
<1>10. SumOver(f, X) = SumOver(g, X) /\ SumOver(g, X) \in Int
  BY <1>3, <1>8, SumSame, SumType
<1>11. SumOver(h, Validator) \in Int
  BY <1>4, <1>9, SumType
<1>12. SumFunction(f) = SumOver(f, X) /\ SumFunction(h) = SumOver(h, Validator)
  BY <1>7, SumFunctionIs
<1>13. Owed(st) = SumOver(g, X) + SumOver(h, Validator)
  BY <1>6, <1>10, <1>12
<1> QED
  BY <1>8, <1>10, <1>11, <1>13 DEF g, h, X

(* The export withdraws all commission and rewards.                        *)
LEMMA WithdrawAllBooks ==
  ASSUME NEW st, InOrder(st), NEW n, n = WithdrawAll(st)
  PROVE  Books(n, Live(st)) /\ Redone(st, n) /\ n.bal = st.bal - Owed(st)
<1> DEFINE m == FoldSet(LAMBDA v, acc : WithdrawValidatorCommission(acc, v), st, Validator)
<1>1. Books(st, Live(st)) /\ Belongs(st)
  BY InOrderFacts
<1>2. n = FoldSet(LAMBDA x, acc : WithdrawDelegationRewards(acc, x), m, Delegations(st))
  BY DEF WithdrawAll
<1>3. /\ Books(m, Live(st)) /\ Untouched(st, m) /\ AllPromised(st, m, Live(st))
      /\ m.bal = st.bal - SumOver(Coins(st), Validator)
  BY <1>1, CommissionsBooks
<1> HIDE DEF m
<1>4. Delegations(st) \subseteq Delegation
  BY DEF Delegations
<1>5. Carries(Live(st), Delegations(st))
  <2> SUFFICES ASSUME NEW x \in Delegations(st)
               PROVE  x[1] \in Live(st)[x[2]]
    BY DEF Carries
  <2>1. x \in Delegation /\ st.stake[x] > 0
    BY DEF Delegations
  <2>2. st.start[x] # NoStart
    BY <1>1, <2>1 DEF Belongs
  <2> QED
    BY <2>1, <2>2, LiveIs
<1>6. /\ Books(n, Live(st)) /\ Redone(m, n)
      /\ n.bal = m.bal - SumOver(Dues(m), Delegations(st))
  <2> DEFINE X == Delegations(st)
  <2>1. X \subseteq Delegation /\ Carries(Live(st), X)
    BY <1>4, <1>5
  <2>2. n = FoldSet(LAMBDA x, acc : WithdrawDelegationRewards(acc, x), m, X)
    BY <1>2
  <2> HIDE DEF X
  <2> QED
    BY <1>3, <2>1, <2>2, WithdrawalsBooks DEF X
<1>7. Redone(st, n)
  BY <1>3, <1>6 DEF Redone, Untouched, SameElsewhere
<1>8. n.bal = st.bal - Owed(st)
  <2> DEFINE X == Delegations(st)
             f == Dues(m)
             g == Dues(st)
             h == Coins(st)
             D == SumOver(g, X)
             C == SumOver(h, Validator)
             i == st.bal
  <2>1. ASSUME NEW x \in X
        PROVE  f[x] = g[x]
    <3>1. x \in Delegation /\ x[2] \in Validator /\ x[1] \in Live(st)[x[2]]
      BY <1>4, <1>5, DelegationIs DEF Carries
    <3>2. Promise(m, x[2], x[1]) = Promise(st, x[2], x[1])
      BY <1>3, <3>1 DEF AllPromised
    <3> QED
      BY <3>1, <3>2 DEF Dues
  <2>2. Owed(st) = D + C /\ D \in Int /\ C \in Int /\ \A x \in X : g[x] \in Int
    BY OwedIs
  <2>3. IsFiniteSet(X)
    <3>1. IsFiniteSet(Delegation)
      BY ExportAssumption, FS_Product DEF Delegation
    <3> QED
      BY <1>4, <3>1, FS_Subset
  <2>4. Balanced(st)
    BY <1>1 DEF Books
  <2>5. i \in Int
    BY <2>4 DEF Balanced
  <2>6. n.bal = m.bal - SumOver(f, X) /\ m.bal = i - C
    BY <1>3, <1>6
  <2> HIDE DEF f, g, X
  <2>7. SumOver(f, X) = D
    BY <2>1, <2>2, <2>3, SumSame
  <2> HIDE DEF D, C, i
  <2>8. (i - C) - D = i - (D + C)
    BY <2>2, <2>5, Spending, Zenon
  <2>9. n.bal = i - Owed(st)
    BY <2>2, <2>6, <2>7, <2>8, Zenon
  <2> QED
    BY <2>9 DEF i
<1> QED
  BY <1>6, <1>7, <1>8

(* It deletes the slashes and the historical records.                      *)
LEMMA ClearedClean ==
  ASSUME NEW st, NEW live, Books(st, live), NEW n, n = ClearHistory(st)
  PROVE  Clean(n, {}) /\ Untouched(st, n) /\ n.bal = st.bal
<1>1. Maps(st) /\ Elsewhere(st) /\ st.panic = FALSE /\ Balanced(st)
  BY DEF Books
<1>2. DOMAIN st = Fields
  BY <1>1, MapsFacts
<1> DEFINE none == [v \in Validator |-> {}]
           empty == [v \in Validator |-> <<>>]
<1>3. n = [st EXCEPT !.events = none, !.hist = empty]
  BY DEF ClearHistory
<1>4. /\ none = [v \in Validator |-> none[v]] /\ empty = [v \in Validator |-> empty[v]]
      /\ \A v \in Validator : none[v] = {} /\ empty[v] = <<>>
  OBVIOUS
<1> HIDE DEF none, empty
<1>5. /\ n = [f \in Fields |-> n[f]] /\ n.events = none /\ n.hist = empty
      /\ n.cur = st.cur /\ n.out = st.out /\ n.comm = st.comm
      /\ n.pool = st.pool /\ n.bal = st.bal /\ n.panic = st.panic /\ Untouched(st, n)
  BY <1>2, <1>3 DEF Fields, Untouched, SameElsewhere
<1>6. Maps(n)
  BY <1>1, <1>4, <1>5 DEF Maps, Untouched
<1>7. Balanced(n) /\ n.panic = FALSE
  BY <1>1, <1>5 DEF Balanced
<1>8. Elsewhere(n)
  BY <1>1, <1>5, ElsewhereStays DEF Untouched
<1>9. IsHistory(<<>>)
  <2>1. DOMAIN <<>> = {}
    OBVIOUS
  <2>2. <<>> = [i \in {} |-> <<>>[i]]
    OBVIOUS
  <2> QED
    BY <2>1, <2>2 DEF IsHistory
<1>10. ASSUME NEW v \in Validator
       PROVE  Typed(n, v)
  <2>1. Typed(st, v)
    BY BooksTyped
  <2>2. n.hist[v] = <<>> /\ n.events[v] = {}
    BY <1>4, <1>5
  <2> QED
    BY <1>5, <1>9, <2>1, <2>2 DEF Typed
<1>11. \A v \in Validator : n.hist[v] = <<>> /\ n.events[v] = {}
  BY <1>4, <1>5
<1>12. Clean(n, {})
  BY <1>6, <1>7, <1>8, <1>10, <1>11 DEF Clean, NoSlashes
<1> QED
  BY <1>5, <1>12

(* The chain is set back to height zero while nobody has delegated.        *)
LEMMA ZeroBooks ==
  ASSUME NEW st, Books(st, Carried({})), NoSlashes(st), NEW n, n = [st EXCEPT !.height = 0]
  PROVE  /\ Books(n, Carried({})) /\ n.height = 0
         /\ n.start = st.start /\ n.stake = st.stake /\ n.bal = st.bal
<1>1. /\ Maps(st) /\ Elsewhere(st) /\ st.panic = FALSE /\ Balanced(st)
      /\ AllSound(st, Carried({}))
  BY DEF Books
<1>2. DOMAIN st = Fields /\ st = [f \in Fields |-> st[f]]
  BY <1>1, MapsFacts DEF Maps
<1>3. /\ SameMoney(st, n) /\ n.height = 0 /\ n.stake = st.stake
      /\ n.jailed = st.jailed /\ n.index = st.index /\ n.unbondedAt = st.unbondedAt
      /\ n.signing = st.signing /\ n.leaving = st.leaving
  BY <1>2 DEF Fields, SameMoney
<1>4. Maps(n) /\ Elsewhere(n) /\ n.panic = FALSE /\ Balanced(n)
  <2>1. Maps(n)
    BY <1>1, <1>3 DEF Maps, SameMoney
  <2>2. Elsewhere(n)
    BY <1>1, <1>3 DEF Elsewhere
  <2>3. n.panic = FALSE /\ Balanced(n)
    BY <1>1, <1>3 DEF Balanced, SameMoney
  <2> QED
    BY <2>1, <2>2, <2>3
<1>5. ASSUME NEW v \in Validator
      PROVE  Sound(Book(n, v), Carried({})[v], n.height)
  <2> DEFINE b == Book(st, v)
             L == Carried({})[v]
  <2>1. L = {}
    BY DEF Carried
  <2>2. Sound(b, L, st.height)
    BY <1>1 DEF AllSound
  <2>3. b.events = {}
    <3>1. b.events = st.events[v]
      BY BookIs
    <3> QED
      BY <3>1 DEF NoSlashes
  <2>4. Book(n, v) = b
    BY <1>3 DEF SameMoney, Book
  <2> HIDE DEF b, L
  <2>5. InTime(b, L, n.height)
    BY <2>1, <2>3 DEF InTime
  <2> QED
    BY <2>2, <2>4, <2>5 DEF Sound, L
<1>6. AllSound(n, Carried({}))
  BY <1>5 DEF AllSound
<1> QED
  BY <1>3, <1>4, <1>6 DEF Books, SameMoney

(* The distribution that the new chain starts from, at its height.         *)
Distributed(st, n) ==
  /\ Books(n, Carried(Delegations(st))) /\ n.height = 0
  /\ n.stake = st.stake /\ n.jailed = st.jailed /\ n.index = st.index
  /\ n.bal = st.bal - Owed(st)
  /\ \A x \in Delegation \ Delegations(st) : n.start[x] = NoStart

(* The distribution part of the export: afterwards every delegation starts *)
(* at height zero in fresh books.                                          *)
LEMMA DistributionBooks ==
  ASSUME NEW st, InOrder(st), NEW n,
         n = ReinitDelegations(ReinitValidators(ClearHistory(WithdrawAll(st))))
  PROVE  \E m : Distributed(st, m) /\ n = [m EXCEPT !.height = st.height]
<1> DEFINE w == WithdrawAll(st)
           c == ClearHistory(w)
           r == ReinitValidators(c)
           z == [r EXCEPT !.height = 0]
           X == Delegations(st)
           m == FoldSet(LAMBDA x, acc : CreateDelegation(acc, x), z, X)
<1>1. Books(w, Live(st)) /\ Redone(st, w) /\ w.bal = st.bal - Owed(st)
  BY WithdrawAllBooks
<1> HIDE DEF w
<1>2. Clean(c, {}) /\ Untouched(w, c) /\ c.bal = w.bal
  BY <1>1, ClearedClean
<1> HIDE DEF c
<1>3. Books(r, Carried({})) /\ NoSlashes(r) /\ Untouched(c, r) /\ r.bal = c.bal
  BY <1>2, ReinitBooks
<1>a. n = ReinitDelegations(r)
  BY DEF r, c, w
<1> HIDE DEF r
<1>4. /\ Books(z, Carried({})) /\ z.height = 0 /\ z.start = r.start /\ z.stake = r.stake
      /\ z.bal = r.bal
  BY <1>3, ZeroBooks
<1>5. r.stake = st.stake /\ SameElsewhere(st, r) /\ r.start = w.start
  BY <1>1, <1>2, <1>3 DEF Redone, Untouched, SameElsewhere
<1>6. X \subseteq Delegation /\ Delegations(r) = X
  BY <1>5 DEF Delegations
<1>7. n = [m EXCEPT !.height = st.height]
  BY <1>a, <1>5, <1>6 DEF ReinitDelegations, SameElsewhere
<1>8. z.jailed = st.jailed /\ z.index = st.index
  <2>1. DOMAIN r = Fields
    BY <1>3, MapsFacts DEF Books
  <2>2. z.jailed = r.jailed /\ z.index = r.index
    BY <2>1 DEF Fields
  <2> QED
    BY <1>5, <2>2 DEF SameElsewhere
<1> HIDE DEF z, X
<1>9. Books(m, Carried(X)) /\ Started(z, m, X)
  BY <1>4, <1>6, CreationsBooks
<1> HIDE DEF m
<1>10. \A x \in Delegation \ X : m.start[x] = NoStart
  <2> SUFFICES ASSUME NEW x \in Delegation \ X
               PROVE  m.start[x] = NoStart
    OBVIOUS
  <2>1. m.start[x] = w.start[x]
    BY <1>4, <1>5, <1>9 DEF Started
  <2>2. st.start[x] = NoStart
    <3>1. st.stake[x] \in Nat /\ ~(st.stake[x] > 0)
      BY InOrderFacts DEF X, Delegations
    <3>2. st.stake[x] = 0
      BY <3>1
    <3> QED
      BY <3>2 DEF InOrder, Belongs
  <2> QED
    BY <1>1, <2>1, <2>2 DEF Redone
<1>11. m.height = 0 /\ m.stake = st.stake /\ m.jailed = st.jailed /\ m.index = st.index
  BY <1>4, <1>5, <1>8, <1>9 DEF Started, SameElsewhere
<1>b. m.bal = st.bal - Owed(st)
  <2>1. m.bal = z.bal
    BY <1>9 DEF Started
  <2> QED
    BY <1>1, <1>2, <1>3, <1>4, <2>1
<1>12. Distributed(st, m)
  BY <1>9, <1>10, <1>11, <1>b DEF Distributed, X
<1> QED
  BY <1>7, <1>12

(* Who is not on the list is jailed.                                       *)
Listed(st, allowed) == [v \in Validator |-> st.jailed[v] \/ (allowed # {} /\ v \notin allowed)]

(* Somebody in the power index has been.                                   *)
Unlisted(st, allowed) == \E v \in st.index : Listed(st, allowed)[v]

(* The new chain, whose distribution is that of m.                         *)
Restarted(st, m, allowed, n) ==
  /\ Distributed(st, m) /\ SameMoney(m, n)
  /\ n.height = 0 /\ n.stake = st.stake /\ n.index = st.index
  /\ n.jailed = Listed(st, allowed) /\ n.unbondedAt = Zero /\ n.signing = Zero
  /\ n.leaving = {[e EXCEPT !.height = 0] : e \in m.leaving}

(* The whole of prepForZeroHeightGenesis: it panics exactly for an         *)
(* unlisted validator of the power index, or else leaves a fresh state.    *)
LEMMA PrepForZeroHeightIs ==
  ASSUME NEW st, InOrder(st), NEW allowed, NEW n, n = PrepForZeroHeight(st, allowed)
  PROVE  /\ n.panic <=> Unlisted(st, allowed)
         /\ ~n.panic => \E m : Restarted(st, m, allowed, [n EXCEPT !.height = 0])
<1> DEFINE d == ReinitDelegations(ReinitValidators(ClearHistory(WithdrawAll(st))))
           r == ResetStakingHeights(d)
           j == JailUnlisted(r, allowed)
           u == ApplyValidatorSetUpdates(j)
           F == [n EXCEPT !.height = 0]
           J == Listed(st, allowed)
           no == {[e EXCEPT !.height = 0] : e \in d.leaving}
<1>1. PICK m : Distributed(st, m) /\ d = [m EXCEPT !.height = st.height]
  BY DistributionBooks
<1>2. n = ResetSigningInfos(u)
  BY DEF PrepForZeroHeight
<1>3. /\ DOMAIN m = Fields /\ m = [f \in Fields |-> m[f]] /\ m.height = 0 /\ m.panic = FALSE
      /\ m.stake = st.stake /\ m.jailed = st.jailed /\ m.index = st.index
  BY <1>1, MapsFacts DEF Distributed, Books, Maps
<1> HIDE DEF d
<1>4. /\ DOMAIN d = Fields /\ d = [f \in Fields |-> d[f]]
      /\ d.hist = m.hist /\ d.cur = m.cur /\ d.out = m.out /\ d.comm = m.comm
      /\ d.events = m.events /\ d.start = m.start /\ d.pool = m.pool /\ d.bal = m.bal
      /\ d.panic = FALSE /\ d.stake = st.stake /\ d.jailed = st.jailed /\ d.index = st.index
      /\ d.leaving = m.leaving
  BY <1>1, <1>3 DEF Fields
<1>5. r = [d EXCEPT !.leaving = no, !.unbondedAt = Zero]
  BY DEF ResetStakingHeights, Zero
<1> HIDE DEF r, no
<1>6. /\ DOMAIN r = Fields /\ r = [f \in Fields |-> r[f]]
      /\ r.hist = m.hist /\ r.cur = m.cur /\ r.out = m.out /\ r.comm = m.comm
      /\ r.events = m.events /\ r.start = m.start /\ r.pool = m.pool /\ r.bal = m.bal
      /\ r.panic = FALSE /\ r.stake = st.stake /\ r.jailed = st.jailed /\ r.index = st.index
      /\ r.leaving = no /\ r.unbondedAt = Zero
  BY <1>4, <1>5 DEF Fields
<1>7. j = [r EXCEPT !.jailed = J]
  BY <1>6 DEF JailUnlisted, Listed
<1> HIDE DEF j, J
<1>8. /\ DOMAIN j = Fields /\ j = [f \in Fields |-> j[f]]
      /\ j.hist = m.hist /\ j.cur = m.cur /\ j.out = m.out /\ j.comm = m.comm
      /\ j.events = m.events /\ j.start = m.start /\ j.pool = m.pool /\ j.bal = m.bal
      /\ j.panic = FALSE /\ j.stake = st.stake /\ j.jailed = J /\ j.index = st.index
      /\ j.leaving = no /\ j.unbondedAt = Zero
  BY <1>6, <1>7 DEF Fields
<1>9. u = [j EXCEPT !.panic = Unlisted(st, allowed)]
  BY <1>8 DEF ApplyValidatorSetUpdates, Unlisted, J
<1> HIDE DEF u
<1>10. /\ DOMAIN u = Fields /\ u = [f \in Fields |-> u[f]]
      /\ u.hist = m.hist /\ u.cur = m.cur /\ u.out = m.out /\ u.comm = m.comm
      /\ u.events = m.events /\ u.start = m.start /\ u.pool = m.pool /\ u.bal = m.bal
      /\ u.stake = st.stake /\ u.jailed = J /\ u.index = st.index
      /\ u.leaving = no /\ u.unbondedAt = Zero
  BY <1>8, <1>9 DEF Fields
<1>11. u.panic <=> Unlisted(st, allowed)
  BY <1>8, <1>9 DEF Fields
<1>12. n = [u EXCEPT !.signing = Zero]
  BY <1>2 DEF ResetSigningInfos, Zero
<1>13. /\ DOMAIN n = Fields /\ n = [f \in Fields |-> n[f]]
      /\ n.hist = m.hist /\ n.cur = m.cur /\ n.out = m.out /\ n.comm = m.comm
      /\ n.events = m.events /\ n.start = m.start /\ n.pool = m.pool /\ n.bal = m.bal
      /\ n.stake = st.stake /\ n.jailed = J /\ n.index = st.index
      /\ n.leaving = no /\ n.unbondedAt = Zero /\ n.signing = Zero /\ n.panic = u.panic
  BY <1>10, <1>12 DEF Fields
<1>14. /\ F = [f \in Fields |-> F[f]]
      /\ F.hist = m.hist /\ F.cur = m.cur /\ F.out = m.out /\ F.comm = m.comm
      /\ F.events = m.events /\ F.start = m.start /\ F.pool = m.pool /\ F.bal = m.bal
      /\ F.stake = st.stake /\ F.jailed = J /\ F.index = st.index
      /\ F.leaving = no /\ F.unbondedAt = Zero /\ F.signing = Zero /\ F.panic = n.panic
      /\ F.height = 0
  BY <1>13 DEF Fields
<1> HIDE DEF F
<1>15. n.panic <=> Unlisted(st, allowed)
  BY <1>11, <1>13
<1>16. no = {[e EXCEPT !.height = 0] : e \in m.leaving}
  BY <1>4 DEF no
<1>17. ASSUME ~n.panic
       PROVE  Restarted(st, m, allowed, F)
  <2>1. F.panic = m.panic
    <3>1. u.panic = FALSE
      BY <1>9, <1>8, <1>15, <1>17 DEF Fields
    <3> QED
      BY <1>3, <1>13, <1>14, <3>1
  <2> QED
    BY <1>1, <1>14, <1>16, <2>1 DEF Restarted, SameMoney, J
<1> QED
  BY <1>15, <1>17 DEF F

(* The delegations of a set are those that have started.                   *)
LEMMA CarriedStart ==
  ASSUME NEW X, X \subseteq Delegation, NEW n, Books(n, Carried(X)), NEW x \in X
  PROVE  n.start[x] # NoStart
<1> DEFINE live == Carried(X)
<1>1. x[1] \in Delegator /\ x[2] \in Validator /\ x = <<x[1], x[2]>>
  BY DelegationIs
<1>2. x[1] \in live[x[2]]
  BY <1>1 DEF Carried
<1>3. BookType(Book(n, x[2]), live[x[2]])
  BY <1>1 DEF Books, AllSound, Sound
<1>4. Book(n, x[2]).start[x[1]] \in Start
  BY <1>2, <1>3 DEF BookType
<1>5. Book(n, x[2]).start[x[1]] = n.start[x]
  BY <1>1, BookAt
<1> QED
  BY <1>4, <1>5, NoStartAssumption DEF Start

(* Once all delegations with a record are started again, the books carry   *)
(* exactly them.                                                           *)
LEMMA CarriedLive ==
  ASSUME NEW X, X \subseteq Delegation, NEW n, Books(n, Carried(X)),
         \A x \in Delegation \ X : n.start[x] = NoStart
  PROVE  Books(n, Live(n))
<1>1. \A x \in X : n.start[x] # NoStart
  BY CarriedStart
<1>2. ASSUME NEW v \in Validator
      PROVE  Live(n)[v] = Carried(X)[v]
  <2> SUFFICES ASSUME NEW d \in Delegator
               PROVE  n.start[<<d, v>>] # NoStart <=> <<d, v>> \in X
    BY DEF Live, Carried
  <2>1. <<d, v>> \in Delegation
    BY DEF Delegation
  <2> QED
    BY <1>1, <2>1
<1> QED
  BY <1>2, BooksLive

(* The new chain starts in order.                                          *)
LEMMA RestartedInOrder ==
  ASSUME NEW st, InOrder(st), NEW m, NEW allowed, NEW n, Restarted(st, m, allowed, n),
         ~Unlisted(st, allowed)
  PROVE  InOrder(n) /\ n.height = 0
<1> DEFINE X == Delegations(st)
           live == Carried(X)
           J == Listed(st, allowed)
<1>1. /\ Indexed(st) /\ Belongs(st) /\ Elsewhere(st)
      /\ \A x \in Delegation : st.stake[x] \in Nat
  BY InOrderFacts
<1>2. /\ Books(m, live) /\ m.height = 0 /\ m.stake = st.stake
      /\ \A x \in Delegation \ X : m.start[x] = NoStart
  BY DEF Restarted, Distributed
<1>3. /\ SameMoney(m, n) /\ n.height = 0 /\ n.stake = st.stake /\ n.index = st.index
      /\ n.jailed = J /\ n.unbondedAt = Zero /\ n.signing = Zero
      /\ n.leaving = {[e EXCEPT !.height = 0] : e \in m.leaving}
  BY DEF Restarted
<1>4. \A v \in Validator : J[v] \in BOOLEAN
  BY DEF Listed
<1>5. J \in [Validator -> BOOLEAN]
  BY DEF Listed
<1>6. Zero \in [Validator -> Nat] /\ \A v \in Validator : Zero[v] = 0
  BY DEF Zero
<1>7. n.leaving \subseteq Exit /\ \A e \in n.leaving : e.height = 0
  <2> SUFFICES ASSUME NEW e \in m.leaving
               PROVE  [e EXCEPT !.height = 0] \in Exit /\ [e EXCEPT !.height = 0].height = 0
    BY <1>3
  <2>1. e \in Exit
    BY <1>2 DEF Books, Elsewhere
  <2> QED
    BY <2>1 DEF Exit
<1> HIDE DEF J, live
<1>8. Elsewhere(n)
  BY <1>1, <1>3, <1>5, <1>6, <1>7 DEF Elsewhere
<1>9. SameStakes(m, n, live)
  BY <1>2, <1>3 DEF SameStakes, Books, Maps
<1>10. m.height <= n.height
  BY <1>2, <1>3
<1>11. Books(n, live)
  BY <1>2, <1>3, <1>8, <1>9, <1>10, RestChanges
<1>12. ASSUME NEW x \in Delegation
       PROVE  n.start[x] = NoStart <=> x \notin X
  <2>1. CASE x \notin X
    BY <1>2, <1>3, <2>1 DEF SameMoney
  <2>2. CASE x \in X
    <3>1. X \subseteq Delegation
      BY DEF X, Delegations
    <3> QED
      BY <1>11, <2>2, <3>1, CarriedStart DEF live
  <2> QED
    BY <2>1, <2>2
<1>13. Belongs(n)
  <2> SUFFICES ASSUME NEW x \in Delegation
               PROVE  n.start[x] = NoStart <=> n.stake[x] = 0
    BY DEF Belongs
  <2>1. x \notin X <=> st.stake[x] = 0
    BY <1>1 DEF X, Delegations
  <2> QED
    BY <1>3, <1>12, <2>1
<1>14. Books(n, Live(n))
  <2>1. X \subseteq Delegation /\ \A x \in Delegation \ X : n.start[x] = NoStart
    BY <1>12 DEF X, Delegations
  <2> HIDE DEF X
  <2> QED
    BY <1>11, <2>1, CarriedLive DEF live
<1>15. Indexed(n)
  <2>1. \A v \in Validator : n.jailed[v] <=> st.jailed[v] \/ (allowed # {} /\ v \notin allowed)
    BY <1>3 DEF J, Listed
  <2>2. \A v \in st.index : ~n.jailed[v]
    BY <1>3 DEF Unlisted, J
  <2> QED
    BY <1>1, <1>3, <2>1, <2>2 DEF Indexed
<1>16. Past(n)
  <2>1. \A v \in Validator : n.unbondedAt[v] <= n.height /\ n.signing[v] <= n.height
    BY <1>3, <1>6
  <2>2. \A e \in n.leaving : e.height <= n.height
    BY <1>3, <1>7
  <2> QED
    BY <2>1, <2>2 DEF Past
<1> QED
  BY <1>3, <1>13, <1>14, <1>15, <1>16 DEF InOrder

(* The export panics for somebody in the power index who is not listed.    *)
LEMMA UnlistedIs ==
  ASSUME NEW st, InOrder(st), NEW allowed, Unlisted(st, allowed)
  PROVE  allowed # {} /\ \E v \in st.index : v \notin allowed
<1>1. PICK v \in st.index : Listed(st, allowed)[v]
  BY DEF Unlisted
<1>2. v \in Validator /\ ~st.jailed[v]
  BY InOrderFacts DEF Indexed
<1>3. Listed(st, allowed)[v] <=> st.jailed[v] \/ (allowed # {} /\ v \notin allowed)
  BY <1>2 DEF Listed
<1> QED
  BY <1>1, <1>2, <1>3

-----------------------------------------------------------------------------
(* The invariant holds.                                                    *)

(* The genesis state is in order.                                          *)
LEMMA GenesisInOrder == InOrder(Genesis) /\ Genesis.height = 0
<1> DEFINE stake == [x \in Delegation |-> IF x \in Founders THEN Stake ELSE 0]
           first == [v \in Validator |-> [period |-> 1, rewards |-> 0]]
           start == [x \in Delegation |-> NoStart]
           free == [v \in Validator |-> FALSE]
           none == [v \in Validator |-> {}]
           blank == [v \in Validator |-> <<>>]
           empty == [height |-> 0, panic |-> FALSE, pool |-> 0, bal |-> 0, stake |-> stake,
                     hist |-> blank, cur |-> first, out |-> Zero, comm |-> Zero,
                     events |-> none, start |-> start, jailed |-> free, index |-> Validator,
                     unbondedAt |-> Zero, signing |-> Zero, leaving |-> {}]
           r == ReinitValidators(empty)
           g == FoldSet(LAMBDA x, acc : CreateDelegation(acc, x), r, Founders)
<1>1. Genesis = g
  BY DEF Genesis
<1>2. Founders \subseteq Delegation
  BY ExportAssumption DEF Founders, Delegation
<1>3. /\ stake \in [Delegation -> 0 .. Stake] /\ start \in [Delegation -> Start \cup {NoStart}]
      /\ free \in [Validator -> BOOLEAN] /\ Zero \in [Validator -> Nat]
  BY ExportAssumption DEF Zero
<1>4. /\ \A x \in Delegation : start[x] = NoStart
      /\ \A x \in Delegation : stake[x] = 0 <=> x \notin Founders
      /\ \A v \in Validator : /\ Zero[v] = 0 /\ ~free[v] /\ none[v] = {} /\ blank[v] = <<>>
                              /\ first[v] = [period |-> 1, rewards |-> 0]
  BY ExportAssumption DEF Zero
<1>5. /\ blank = [v \in Validator |-> blank[v]] /\ first = [v \in Validator |-> first[v]]
      /\ none = [v \in Validator |-> none[v]] /\ Zero = [v \in Validator |-> Zero[v]]
  BY DEF Zero
<1> HIDE DEF stake, first, start, free, none, blank
<1>6. /\ empty = [f \in Fields |-> empty[f]]
      /\ empty.height = 0 /\ empty.panic = FALSE /\ empty.pool = 0 /\ empty.bal = 0
      /\ empty.stake = stake /\ empty.hist = blank /\ empty.cur = first /\ empty.out = Zero
      /\ empty.comm = Zero /\ empty.events = none /\ empty.start = start
      /\ empty.jailed = free /\ empty.index = Validator /\ empty.unbondedAt = Zero
      /\ empty.signing = Zero /\ empty.leaving = {}
  BY DEF Fields
<1> HIDE DEF empty
<1>7. Clean(empty, {})
  <2>1. Maps(empty)
    BY <1>3, <1>5, <1>6 DEF Maps
  <2>2. Elsewhere(empty)
    BY <1>3, <1>6 DEF Elsewhere
  <2>3. Balanced(empty)
    <3>1. SumOver(Zero, Validator) = 0
      <4> DEFINE T == {}
      <4>1. IsFiniteSet(Validator) /\ T \subseteq Validator
        BY ExportAssumption
      <4>2. \A v \in Validator : Zero[v] \in Int
        BY <1>4
      <4>3. \A v \in Validator \ T : Zero[v] = 0
        BY <1>4
      <4>4. SumOver(Zero, T) = 0
        BY SumEmpty
      <4> HIDE DEF T
      <4> QED
        BY <4>1, <4>2, <4>3, <4>4, SumOutside
    <3>2. 0 * Unit = 0
      BY ExportAssumption
    <3> QED
      BY <1>6, <3>1, <3>2 DEF Balanced
  <2>4. ASSUME NEW v \in Validator
        PROVE  Typed(empty, v)
    <3>1. IsHistory(<<>>)
      <4>1. DOMAIN <<>> = {}
        OBVIOUS
      <4>2. <<>> = [i \in {} |-> <<>>[i]]
        OBVIOUS
      <4> QED
        BY <4>1, <4>2 DEF IsHistory
    <3>2. first[v] \in [period : Nat \ {0}, rewards : Nat]
      BY <1>4
    <3> QED
      BY <1>4, <1>6, <3>1, <3>2 DEF Typed
  <2>5. NoSlashes(empty) /\ \A v \in Validator : empty.hist[v] = <<>>
    BY <1>4, <1>6 DEF NoSlashes
  <2>6. empty.panic = FALSE
    BY <1>6
  <2> QED
    BY <2>1, <2>2, <2>3, <2>4, <2>5, <2>6 DEF Clean
<1>8. Books(r, Carried({})) /\ Untouched(empty, r)
  BY <1>7, ReinitBooks
<1> HIDE DEF r
<1>9. Books(g, Carried(Founders)) /\ Started(r, g, Founders)
  BY <1>2, <1>8, CreationsBooks
<1> HIDE DEF g
<1>10. /\ g.stake = stake /\ g.height = 0 /\ g.jailed = free /\ g.index = Validator
       /\ g.unbondedAt = Zero /\ g.signing = Zero /\ g.leaving = {}
  BY <1>6, <1>8, <1>9 DEF Started, Untouched, SameElsewhere
<1>11. \A x \in Delegation \ Founders : g.start[x] = NoStart
  BY <1>4, <1>6, <1>8, <1>9 DEF Started, Untouched
<1>12. ASSUME NEW x \in Founders
       PROVE  g.start[x] # NoStart
  BY <1>2, <1>9, CarriedStart
<1>13. Belongs(g)
  BY <1>4, <1>10, <1>11, <1>12 DEF Belongs
<1>14. Books(g, Live(g))
  BY <1>2, <1>9, <1>11, CarriedLive
<1>15. Indexed(g) /\ Past(g)
  BY <1>4, <1>10 DEF Indexed, Past
<1> QED
  BY <1>1, <1>10, <1>13, <1>14, <1>15 DEF InOrder

(* From the genesis on, through blocks, messages and exports               *)
(* (prepForZeroHeightGenesis), the books of every validator are in order   *)
(* whenever an operation has ended.                                        *)
THEOREM Inductive == Spec => []IInv
<1>1. Init => IInv
  <2> SUFFICES ASSUME Init
               PROVE  IInv
    OBVIOUS
  <2>1. InOrder(s) /\ s.height = 0
    BY GenesisInOrder DEF Init
  <2>2. s.height <= MaxHeight /\ ops \in 0 .. MaxOps
    BY <2>1, ExportAssumption DEF Init
  <2> QED
    BY <2>1, <2>2 DEF Init, IInv, FailsForUnlistedOnly
<1>2. IInv /\ [Next]_vars => IInv'
  <2> SUFFICES ASSUME IInv, [Next]_vars
               PROVE  IInv'
    OBVIOUS
  <2>1. /\ phase \in {"old", "new", "failed"} /\ list \subseteq Validator /\ ops \in 0 .. MaxOps
        /\ s.height <= MaxHeight /\ InOrder(s) /\ FailsForUnlistedOnly
    BY DEF IInv
  <2>2. s.height \in Nat /\ \A x \in Delegation : s.stake[x] \in Nat
    BY <2>1, InOrderFacts
  <2>3. ASSUME NEW st, Running, Step(st), InOrder(st), st.height = s.height
        PROVE  IInv'
    <3>1. ops + 1 \in 0 .. MaxOps
      BY <2>1, <2>3, ExportAssumption DEF Running
    <3>2. /\ phase' = phase /\ list' = list /\ ops' \in 0 .. MaxOps /\ phase' # "failed"
          /\ s' = st
      BY <2>3, <3>1 DEF Step, Running
    <3>3. FailsForUnlistedOnly'
      BY <3>2 DEF FailsForUnlistedOnly
    <3> QED
      BY <2>1, <2>3, <3>2, <3>3 DEF IInv
  <2>4. ASSUME NEW paid \in SUBSET Validator, NEW slashed \in SUBSET Validator,
               NextBlock(paid, slashed)
        PROVE  IInv'
    <3>1. InOrder(s') /\ s'.height = s.height + 1
      BY <2>1, <2>4, NextBlockInOrder
    <3>a. /\ s.height < MaxHeight
          /\ ops + Cardinality(slashed) <= MaxOps /\ ops' = ops + Cardinality(slashed)
      BY <2>4 DEF NextBlock
    <3>2. s'.height <= MaxHeight
      <4>1. MaxHeight \in Nat
        BY ExportAssumption
      <4> QED
        BY <2>2, <3>1, <3>a, <4>1
    <3>3. ops' \in 0 .. MaxOps
      <4>1. Cardinality(slashed) \in Nat
        BY ExportAssumption, FS_Subset, FS_CardinalityType
      <4>2. MaxOps \in Nat
        BY ExportAssumption
      <4> QED
        BY <2>1, <3>a, <4>1, <4>2
    <3>4. phase' = phase /\ list' = list /\ phase' # "failed"
      BY <2>4 DEF NextBlock
    <3> QED
      BY <2>1, <3>1, <3>2, <3>3, <3>4 DEF IInv, FailsForUnlistedOnly
  <2>5. ASSUME NEW v \in Validator, WithdrawCommission(v)
        PROVE  IInv'
    <3> DEFINE st == WithdrawValidatorCommission(s, v)
    <3>1. InOrder(st) /\ st.height = s.height
      BY <2>1, CommissionInOrder
    <3> HIDE DEF st
    <3>2. Running /\ Step(st)
      BY <2>5 DEF WithdrawCommission, st
    <3> QED
      BY <2>3, <3>1, <3>2
  <2>6. ASSUME NEW v \in Validator, Unjail(v)
        PROVE  IInv'
    <3> DEFINE st == [s EXCEPT !.jailed[v] = FALSE, !.index = @ \cup {v}, !.signing[v] = s.height]
    <3>1. InOrder(st) /\ st.height = s.height
      BY <2>1, UnjailInOrder
    <3> HIDE DEF st
    <3>2. Running /\ Step(st)
      BY <2>6 DEF Unjail, st
    <3> QED
      BY <2>3, <3>1, <3>2
  <2>7. ASSUME NEW x \in Delegation, Withdraw(x)
        PROVE  IInv'
    <3> DEFINE st == WithdrawDelegationRewards(s, x)
    <3>1. s.stake[x] > 0 /\ Running /\ Step(st)
      BY <2>7 DEF Withdraw
    <3>2. InOrder(st) /\ st.height = s.height
      BY <2>1, <3>1, WithdrawInOrder
    <3> HIDE DEF st
    <3> QED
      BY <2>3, <3>1, <3>2
  <2>8. ASSUME NEW x \in Delegation, Delegate(x)
        PROVE  IInv'
    <3> DEFINE st == Joined(s, x)
    <3>1. s.stake[x] = 0 /\ Running /\ Step(st)
      BY <2>8 DEF Delegate
    <3>2. InOrder(st) /\ st.height = s.height
      BY <2>1, <3>1, JoinedInOrder
    <3> HIDE DEF st
    <3> QED
      BY <2>3, <3>1, <3>2
  <2>9. ASSUME NEW x \in Delegation, Undelegate(x)
        PROVE  IInv'
    <3> DEFINE left == Left(s, x)
               kind == "unbonding"
               st == Leaving(left, kind, x[2])
    <3>1. s.stake[x] > 0 /\ Running /\ Step(st)
      BY <2>9 DEF Undelegate
    <3>2. InOrder(left) /\ left.height = s.height
      BY <2>1, <3>1, LeftInOrder
    <3> HIDE DEF left
    <3>3. x[2] \in Validator /\ kind \in {"unbonding", "redelegation"}
      BY DelegationIs
    <3> HIDE DEF kind
    <3>4. InOrder(st) /\ st.height = left.height
      BY <3>2, <3>3, LeavingInOrder
    <3> HIDE DEF st
    <3> QED
      BY <2>3, <3>1, <3>2, <3>4
  <2>10. ASSUME NEW x \in Delegation, NEW w \in Validator, Redelegate(x, w)
         PROVE  IInv'
    <3> DEFINE left == Left(s, x)
               y == <<x[1], w>>
               joined == Joined(left, y)
               kind == "redelegation"
               st == Leaving(joined, kind, x[2])
    <3>1. s.stake[x] = Stake /\ s.stake[y] = 0 /\ Running /\ Step(st)
      BY <2>10 DEF Redelegate
    <3>2. s.stake[x] > 0 /\ y # x
      BY <3>1, ExportAssumption
    <3>3. InOrder(left) /\ left.height = s.height /\ left.stake = [s.stake EXCEPT ![x] = 0]
      BY <2>1, <3>2, LeftInOrder
    <3> HIDE DEF left
    <3>4. x[2] \in Validator /\ kind \in {"unbonding", "redelegation"} /\ y \in Delegation
      BY DelegationIs DEF Delegation
    <3> HIDE DEF kind, y
    <3>5. left.stake[y] = 0
      <4>1. DOMAIN s.stake = Delegation
        BY <2>1, InOrderFacts
      <4> QED
        BY <3>1, <3>2, <3>3, <3>4, <4>1
    <3>6. InOrder(joined) /\ joined.height = left.height
      BY <3>3, <3>4, <3>5, JoinedInOrder
    <3> HIDE DEF joined
    <3> DEFINE v == x[2]
    <3>a. v \in Validator /\ st = Leaving(joined, kind, v)
      BY <3>4
    <3> HIDE DEF st, v
    <3>7. InOrder(st) /\ st.height = joined.height
      BY <3>4, <3>6, <3>a, LeavingInOrder
    <3> QED
      BY <2>3, <3>1, <3>3, <3>6, <3>7
  <2>11. ASSUME NEW allowed \in SUBSET Validator, ExportZeroHeight(allowed)
         PROVE  IInv'
    <3> DEFINE st == PrepForZeroHeight(s, allowed)
               new == [st EXCEPT !.height = 0]
    <3>1. /\ st.panic <=> Unlisted(s, allowed)
          /\ ~st.panic => \E m : Restarted(s, m, allowed, new)
      BY <2>1, PrepForZeroHeightIs
    <3>2. /\ IF st.panic THEN phase' = "failed" /\ list' = allowed /\ s' = s
             ELSE phase' = "new" /\ s' = new /\ UNCHANGED list
          /\ ops' = ops
      BY <2>11 DEF ExportZeroHeight
    <3> HIDE DEF st, new
    <3>3. CASE st.panic
      <4>1. allowed # {} /\ \E v \in s.index : v \notin allowed
        BY <2>1, <3>1, <3>3, UnlistedIs
      <4>2. FailsForUnlistedOnly'
        BY <3>2, <3>3, <4>1 DEF FailsForUnlistedOnly
      <4> QED
        BY <2>1, <3>2, <3>3, <4>2 DEF IInv
    <3>4. CASE ~st.panic
      <4>1. PICK m : Restarted(s, m, allowed, new)
        BY <3>1, <3>4
      <4>2. InOrder(new) /\ new.height = 0
        BY <2>1, <3>1, <3>4, <4>1, RestartedInOrder
      <4>3. s'.height <= MaxHeight
        BY <3>2, <3>4, <4>2, ExportAssumption
      <4>4. FailsForUnlistedOnly'
        BY <3>2, <3>4 DEF FailsForUnlistedOnly
      <4> QED
        BY <2>1, <3>2, <3>4, <4>2, <4>3, <4>4 DEF IInv
    <3> QED
      BY <3>3, <3>4
  <2>12. CASE ExportAtHeight
    <3>1. s' = s /\ list' = list /\ ops' = ops /\ phase' = "new"
      BY <2>12 DEF ExportAtHeight
    <3> QED
      BY <2>1, <3>1 DEF IInv, FailsForUnlistedOnly
  <2>13. CASE UNCHANGED vars
    BY <2>1, <2>13 DEF vars, IInv, FailsForUnlistedOnly
  <2>14. CASE Next
    BY <2>4, <2>5, <2>6, <2>7, <2>8, <2>9, <2>10, <2>11, <2>12, <2>14 DEF Next
  <2> QED
    BY <2>13, <2>14
<1> QED
  BY <1>1, <1>2, PTL DEF Spec

-----------------------------------------------------------------------------
(* What it implies.                                                        *)

(* What the invariant says of types.                                       *)
LEMMA TypeFollows ==
  ASSUME IInv
  PROVE  TypeOK
<1>1. /\ Books(s, Live(s)) /\ Indexed(s) /\ Belongs(s) /\ Maps(s) /\ Elsewhere(s)
      /\ s.height \in Nat
  BY InOrderFacts DEF IInv
<1>2. Balanced(s) /\ \A v \in Validator : Typed(s, v)
  BY <1>1, BooksTyped DEF Books
<1>3. /\ DOMAIN s.out = Validator /\ DOMAIN s.comm = Validator
      /\ s.out = [v \in Validator |-> s.out[v]] /\ s.comm = [v \in Validator |-> s.comm[v]]
  BY <1>1, MapsFacts DEF Maps
<1>4. s.out \in [Validator -> Nat] /\ s.comm \in [Validator -> Nat]
  BY <1>2, <1>3 DEF Typed
<1>5. s.unbondedAt \in [Validator -> Nat] /\ s.signing \in [Validator -> Nat]
  BY <1>1 DEF Elsewhere
<1>6. s.bal \in Nat
  <2> DEFINE sum == SumOver(s.out, Validator)
  <2>1. sum \in Nat
    BY <1>4, ExportAssumption, SumNat
  <2>2. s.pool \in Nat /\ s.bal \in Int /\ s.bal * Unit = s.pool + sum
    BY <1>2 DEF Balanced
  <2>3. Unit \in Nat /\ Unit > 0
    BY ExportAssumption
  <2> HIDE DEF sum
  <2>4. s.bal * Unit >= 0
    BY <2>1, <2>2
  <2>5. ASSUME NEW i \in Int, NEW u \in Nat, u > 0, i * u >= 0
        PROVE  i >= 0
    BY <2>5
  <2> QED
    BY <2>2, <2>3, <2>4, <2>5
<1>7. s.height \in 0 .. MaxHeight
  BY <1>1, ExportAssumption DEF IInv
<1>8. s.stake \in [Delegation -> 0 .. Stake]
  BY <1>1 DEF Maps
<1>9. s.pool \in Nat
  BY <1>2 DEF Balanced
<1> QED
  BY <1>1, <1>4, <1>5, <1>6, <1>7, <1>8, <1>9 DEF TypeOK, IInv, Indexed, Belongs

(* The delegations of a validator, by their delegators.                    *)
LEMMA DelegationsOf ==
  ASSUME NEW st, InOrder(st), NEW v \in Validator
  PROVE  /\ {x \in Delegations(st) : x[2] = v} = {<<d, v>> : d \in Live(st)[v]}
         /\ Live(st)[v] \subseteq Delegator /\ IsFiniteSet(Live(st)[v])
<1>1. Belongs(st) /\ \A x \in Delegation : st.stake[x] \in Nat
  BY InOrderFacts
<1>2. Live(st)[v] = {d \in Delegator : st.start[<<d, v>>] # NoStart}
  BY DEF Live
<1>3. \A d \in Delegator : d \in Live(st)[v] <=> <<d, v>> \in Delegations(st)
  <2> SUFFICES ASSUME NEW d \in Delegator
               PROVE  d \in Live(st)[v] <=> <<d, v>> \in Delegations(st)
    OBVIOUS
  <2>1. <<d, v>> \in Delegation
    BY DEF Delegation
  <2>2. st.start[<<d, v>>] # NoStart <=> st.stake[<<d, v>>] > 0
    BY <1>1, <2>1 DEF Belongs
  <2> QED
    BY <1>2, <2>1, <2>2 DEF Delegations
<1>4. \A x \in Delegations(st) : x[2] = v => x[1] \in Delegator /\ x = <<x[1], v>>
  BY DelegationIs DEF Delegations
<1>5. Live(st)[v] \subseteq Delegator
  BY <1>2
<1>6. IsFiniteSet(Live(st)[v])
  BY <1>5, ExportAssumption, FS_Subset
<1> QED
  BY <1>3, <1>4, <1>5, <1>6

(* What it says of money: paying all claims in whole coins asks no more of *)
(* the outstanding rewards than the claims do.                             *)
LEMMA BackedFollows ==
  ASSUME InOrder(s)
  PROVE  Backed
<1>1. Books(s, Live(s)) /\ Maps(s) /\ Balanced(s)
  BY InOrderFacts DEF Books
<1>2. s.bal * Unit = s.pool + SumFunction(s.out)
  <2>1. DOMAIN s.out = Validator
    BY <1>1, MapsFacts
  <2>2. SumFunction(s.out) = SumOver(s.out, Validator)
    BY <2>1, SumFunctionIs
  <2> QED
    BY <1>1, <2>2 DEF Balanced
<1>3. ASSUME NEW v \in Validator, NEW n, n = NewPeriod(s, v),
             NEW due, due = [x \in {y \in Delegations(n) : y[2] = v} |-> Rewards(n, x).amount]
      PROVE  n.out[v] >= n.comm[v] + SumFunction(due)
  <2> DEFINE L == Live(s)
             b == Book(n, v)
             m == [d \in L[v] |-> <<d, v>>]
             paid == [d \in L[v] |-> Rewards(n, <<d, v>>).amount]
             claim == [d \in L[v] |-> Claim(b, d)]
             X == {m[d] : d \in L[v]}
  <2>1. Books(n, L) /\ n.stake = s.stake
    BY <1>1, <1>3, NewPeriodBooks
  <2>2. {y \in Delegations(n) : y[2] = v} = {<<d, v>> : d \in L[v]} /\ IsFiniteSet(L[v])
    <3>1. Delegations(n) = Delegations(s)
      BY <2>1 DEF Delegations
    <3> QED
      BY <3>1, DelegationsOf
  <2>3. \A d \in L[v] : /\ paid[d] \in Nat /\ claim[d] \in Nat /\ paid[d] <= claim[d]
    <3> SUFFICES ASSUME NEW d \in L[v]
                 PROVE  paid[d] \in Nat /\ claim[d] \in Nat /\ paid[d] <= claim[d]
      OBVIOUS
    <3>1. Accounts(b, L[v])
      BY <2>1, BooksFacts
    <3>2. Claim(b, d) \in Nat
      BY <3>1, ClaimType
    <3>3. Rewards(n, <<d, v>>).amount \in Nat /\ Rewards(n, <<d, v>>).amount <= Claim(b, d)
      BY <2>1, RewardsIs
    <3> QED
      BY <3>2, <3>3
  <2>4. DOMAIN due = X
    BY <1>3, <2>2
  <2>5. \A d \in L[v] : due[m[d]] = paid[d]
    BY <1>3, <2>2
  <2>6. \A d, k \in L[v] : m[d] = m[k] => d = k
    OBVIOUS
  <2>7. SumOver(claim, L[v]) = Claims(b, L[v])
    BY DEF Claims
  <2> HIDE DEF paid, claim, m
  <2>8. SumOver(due, X) = SumOver(paid, L[v])
    <3>1. \A d \in L[v] : due[m[d]] \in Int /\ paid[d] = due[m[d]]
      BY <2>3, <2>5
    <3> DEFINE T == L[v]
    <3> HIDE DEF T
    <3>2. SumOver(due, {m[d] : d \in T}) = SumOver(paid, T)
      BY <2>2, <2>6, <3>1, SumRenamed DEF T
    <3> QED
      BY <3>2 DEF T
  <2>9. SumOver(paid, L[v]) \in Nat /\ SumOver(paid, L[v]) <= SumOver(claim, L[v])
    <3>1. \A d \in L[v] : paid[d] \in Int /\ claim[d] \in Int /\ paid[d] <= claim[d]
      BY <2>3
    <3>2. SumOver(paid, L[v]) <= SumOver(claim, L[v])
      BY <2>2, <3>1, SumAtMost
    <3>3. SumOver(paid, L[v]) \in Nat
      BY <2>2, <2>3, SumNat
    <3> QED
      BY <3>2, <3>3
  <2>10. SumFunction(due) = SumOver(due, X)
    BY <2>4, SumFunctionIs
  <2>11. b.out >= b.comm + b.cur.rewards + Claims(b, L[v])
    <3>1. Sound(b, L[v], n.height)
      BY <2>1, BooksFacts
    <3> QED
      BY <3>1 DEF Sound, Solvent
  <2>12. /\ b.out = n.out[v] /\ b.comm = n.comm[v] /\ b.cur = n.cur[v]
         /\ n.cur[v].rewards \in Nat /\ n.out[v] \in Nat /\ n.comm[v] \in Nat
    BY <2>1, BookIs, BooksFacts
  <2>13. Claims(b, L[v]) \in Nat
    <3>1. Accounts(b, L[v])
      BY <2>1, BooksFacts
    <3> QED
      BY <3>1, ClaimsType
  <2> HIDE DEF b, L, X
  <2> QED
    BY <2>7, <2>8, <2>9, <2>10, <2>11, <2>12, <2>13
<1>4. \A v \in Validator :
        LET n == NewPeriod(s, v)
            due == [x \in {y \in Delegations(n) : y[2] = v} |-> Rewards(n, x).amount]
        IN  n.out[v] >= n.comm[v] + SumFunction(due)
  BY <1>3
<1> QED
  BY <1>2, <1>4 DEF Backed

(* What it says of reference counts: one for the current period, and one   *)
(* for each delegation and slash.                                          *)
LEMMA ReferencesFollow ==
  ASSUME InOrder(s)
  PROVE  References
<1> SUFFICES ASSUME NEW v \in Validator
             PROVE  SumFunction([p \in DOMAIN s.hist[v] |-> s.hist[v][p].ref])
                      = 1 + Cardinality({x \in Delegations(s) : x[2] = v})
                          + Cardinality(s.events[v])
  BY DEF References
<1> DEFINE L == Live(s)[v]
           b == Book(s, v)
           h == s.hist[v]
           l == Last(b)
           K == Kept(b, L)
           D == DOMAIN h
           ref == [p \in D |-> h[p].ref]
           current == [p \in D |-> IF p \in {l} THEN 1 ELSE 0]
           others == [p \in D |-> IF p \in K THEN 1 ELSE 0]
           m == [d \in L |-> <<d, v>>]
           since == [d \in L |-> b.start[d].period]
           ended == [e \in b.events |-> e.period]
<1>1. Books(s, Live(s))
  BY InOrderFacts
<1>2. /\ b.hist = h /\ b.events = s.events[v] /\ BookType(b, L) /\ Referred(b, L) /\ l \in Nat
  BY <1>1, BookIs, BooksFacts DEF Sound
<1>3. {x \in Delegations(s) : x[2] = v} = {m[d] : d \in L} /\ IsFiniteSet(L)
  <2>1. /\ {x \in Delegations(s) : x[2] = v} = {<<d, v>> : d \in L} /\ IsFiniteSet(L)
    BY DelegationsOf
  <2>2. {m[d] : d \in L} = {<<d, v>> : d \in L}
    OBVIOUS
  <2> QED
    BY <2>1, <2>2
<1> HIDE DEF L, b, h
<1>4. IsFiniteSet(b.events)
  BY <1>2 DEF BookType
<1>5. Cardinality({m[d] : d \in L}) = Cardinality(L)
  <2>1. \A d, k \in L : m[d] = m[k] => d = k
    OBVIOUS
  <2> HIDE DEF m
  <2> QED
    BY <1>3, <2>1, ImageFinite
<1>6. IsFiniteSet(Starts(b, L)) /\ Cardinality(Starts(b, L)) = Cardinality(L)
  <2>1. \A d, k \in L : since[d] = since[k] => d = k
    BY <1>2 DEF Referred
  <2>2. Starts(b, L) = {since[d] : d \in L}
    BY DEF Starts
  <2> HIDE DEF since
  <2>3. /\ IsFiniteSet({since[d] : d \in L})
        /\ Cardinality({since[d] : d \in L}) = Cardinality(L)
    BY <1>3, <2>1, ImageFinite
  <2> QED
    BY <2>2, <2>3
<1>7. IsFiniteSet(Slashes(b)) /\ Cardinality(Slashes(b)) = Cardinality(b.events)
  <2>1. \A e, f \in b.events : ended[e] = ended[f] => e = f
    BY <1>2 DEF Referred
  <2>2. Slashes(b) = {ended[e] : e \in b.events}
    BY DEF Slashes
  <2> DEFINE E == b.events
  <2> HIDE DEF ended, E
  <2>3. /\ IsFiniteSet({ended[e] : e \in E})
        /\ Cardinality({ended[e] : e \in E}) = Cardinality(E)
    BY <1>4, <2>1, ImageFinite DEF E
  <2> QED
    BY <2>2, <2>3 DEF E
<1>8. Cardinality(K) = Cardinality(L) + Cardinality(b.events) /\ IsFiniteSet(K)
  <2>1. Starts(b, L) \cap Slashes(b) = {}
    BY <1>2 DEF Referred, Starts
  <2>2. K = Starts(b, L) \cup Slashes(b)
    BY DEF Kept
  <2>3. Cardinality(Starts(b, L) \cap Slashes(b)) = 0
    BY <2>1, FS_EmptySet
  <2>4. /\ IsFiniteSet(K)
        /\ Cardinality(K) = Cardinality(Starts(b, L)) + Cardinality(Slashes(b))
                              - Cardinality(Starts(b, L) \cap Slashes(b))
    BY <1>6, <1>7, <2>2, FS_Union
  <2>5. Cardinality(L) \in Nat /\ Cardinality(b.events) \in Nat
    BY <1>3, <1>4, FS_CardinalityType
  <2> QED
    BY <1>6, <1>7, <2>3, <2>4, <2>5
<1>9. D = K \cup {l}
  BY <1>2 DEF Referred
<1>10. \A p \in D : h[p].ref = (IF p \in {l} THEN 1 ELSE 0) + (IF p \in K THEN 1 ELSE 0)
  BY <1>2 DEF Referred
<1>11. \A p \in D : /\ current[p] \in Int /\ others[p] \in Int /\ ref[p] = current[p] + others[p]
  BY <1>10
<1>12. IsFiniteSet(D) /\ {l} \subseteq D /\ K \subseteq D /\ IsFiniteSet({l})
  <2>1. IsFiniteSet({l}) /\ IsFiniteSet(K \cup {l})
    BY <1>8, FS_AddElement, FS_Singleton
  <2> QED
    BY <1>9, <2>1
<1>13. /\ \A p \in D : current[p] = IF p \in {l} THEN 1 ELSE 0
       /\ \A p \in D : others[p] = IF p \in K THEN 1 ELSE 0
       /\ DOMAIN ref = D
  OBVIOUS
<1>14. SumFunction(ref) = SumOver(ref, D)
  BY <1>13, SumFunctionIs
<1> HIDE DEF ref, current, others, D, K, l, m
<1>15. SumOver(ref, D) = SumOver(current, D) + SumOver(others, D)
  BY <1>11, <1>12, SumOfSums
<1>16. SumOver(others, D) = Cardinality(K)
  BY <1>12, <1>13, SumCounts
<1>17. SumOver(current, D) = 1
  <2> DEFINE T == {l}
  <2>1. Cardinality(T) = 1
    BY FS_Singleton
  <2>2. T \subseteq D /\ \A p \in D : current[p] = IF p \in T THEN 1 ELSE 0
    BY <1>12, <1>13
  <2> HIDE DEF T
  <2>3. SumOver(current, D) = Cardinality(T)
    BY <1>12, <2>2, SumCounts
  <2> QED
    BY <2>1, <2>3
<1>18. Cardinality(L) \in Nat /\ Cardinality(b.events) \in Nat
  BY <1>3, <1>4, FS_CardinalityType
<1>19. SumFunction(ref) = 1 + Cardinality(L) + Cardinality(b.events)
  BY <1>8, <1>14, <1>15, <1>16, <1>17, <1>18
<1> QED
  BY <1>2, <1>3, <1>5, <1>19 DEF ref, D, h

(* What it says of heights.                                                *)
LEMMA HeightsFollow ==
  ASSUME InOrder(s)
  PROVE  NoFutureHeights
<1>1. Books(s, Live(s)) /\ Past(s)
  BY InOrderFacts
<1>2. ASSUME NEW x \in Delegations(s)
      PROVE  s.start[x].height <= s.height
  <2>1. x \in Delegation /\ x[2] \in Validator /\ x[1] \in Delegator /\ x = <<x[1], x[2]>>
    BY DelegationIs DEF Delegations
  <2>2. x[1] \in Live(s)[x[2]]
    <3>1. s.stake[x] > 0 /\ s.stake[x] \in Nat
      BY <2>1, InOrderFacts DEF Delegations
    <3>2. s.start[x] # NoStart
      BY <2>1, <3>1 DEF InOrder, Belongs
    <3> QED
      BY <2>1, <3>2, LiveIs
  <2>3. InTime(Book(s, x[2]), Live(s)[x[2]], s.height)
    BY <1>1, <2>1, BooksFacts DEF Sound
  <2>4. Book(s, x[2]).start[x[1]].height <= s.height
    BY <2>2, <2>3 DEF InTime
  <2>5. Book(s, x[2]).start[x[1]] = s.start[x]
    BY <2>1, BookAt
  <2> QED
    BY <2>4, <2>5
<1>3. ASSUME NEW v \in Validator, NEW e \in s.events[v]
      PROVE  e.height <= s.height
  <2>1. InTime(Book(s, v), Live(s)[v], s.height) /\ Book(s, v).events = s.events[v]
    BY <1>1, BookIs, BooksFacts DEF Sound
  <2> QED
    BY <2>1 DEF InTime
<1>4. /\ \A v \in Validator : s.unbondedAt[v] <= s.height /\ s.signing[v] <= s.height
      /\ \A e \in s.leaving : e.height <= s.height
  BY <1>1 DEF Past
<1> QED
  BY <1>2, <1>3, <1>4 DEF NoFutureHeights

(* Amounts stay numbers, a delegation has a distribution record exactly as *)
(* long as it has stake, and the power index has exactly the validators    *)
(* that are not jailed, through blocks, withdrawals, slashes and exports   *)
(* (prepForZeroHeightGenesis).                                             *)
THEOREM TypeCorrect == Spec => []TypeOK
<1>1. IInv => TypeOK
  BY TypeFollows
<1> QED
  BY <1>1, Inductive, PTL

(* The account of the distribution module always holds what the community  *)
(* pool and the outstanding rewards add up to, and a validator's           *)
(* outstanding rewards cover its commission and all its delegations would  *)
(* be paid: the export loses no fraction of a coin and pays none twice.    *)
THEOREM RewardsBacked == Spec => []Backed
<1>1. IInv => Backed
  BY BackedFollows DEF IInv
<1> QED
  BY <1>1, Inductive, PTL

(* A historical record is kept exactly as long as the current period, a    *)
(* delegation or a slash refers to it, what the invariant                  *)
(* "reference-count" asserts at the genesis made from an export.           *)
THEOREM ReferencesCounted == Spec => []References
<1>1. IInv => References
  BY ReferencesFollow DEF IInv
<1> QED
  BY <1>1, Inductive, PTL

(* No operation panics, neither of the old chain nor of one that starts    *)
(* from what WithdrawAll, ClearHistory and the hooks of the export leave.  *)
THEOREM NothingPanics == Spec => []ChainGoesOn
<1>1. IInv => ChainGoesOn
  BY InOrderFacts DEF IInv, Books, ChainGoesOn
<1> QED
  BY <1>1, Inductive, PTL

(* An exported state has no height that the new chain has yet to reach, in *)
(* its starts of delegations, slashes, unbondings and signing infos.       *)
THEOREM HeightsArePast == Spec => []NoFutureHeights
<1>1. IInv => NoFutureHeights
  BY HeightsFollow DEF IInv
<1> QED
  BY <1>1, Inductive, PTL

(* An export for height zero fails only with a list that leaves out a      *)
(* validator of the power index: nothing else that it does panics.         *)
THEOREM FailuresExplained == Spec => []FailsForUnlistedOnly
<1>1. IInv => FailsForUnlistedOnly
  BY DEF IInv
<1> QED
  BY <1>1, Inductive, PTL

(* An export for height zero (prepForZeroHeightGenesis) takes from the     *)
(* distribution account exactly the whole coins of every commission and of *)
(* every reward as they stood before it: no withdrawal of its loops, nor   *)
(* the resets after them, changes what another delegator is paid.          *)
THEOREM ExportPaysDue == Spec => DuePaid
<1>1. IInv /\ [Next]_vars =>
        (phase = "old" /\ phase' = "new" /\ s'.height = 0 => s'.bal = s.bal - Owed(s))
  <2> SUFFICES ASSUME IInv, [Next]_vars, phase = "old", phase' = "new", s'.height = 0
               PROVE  s'.bal = s.bal - Owed(s)
    OBVIOUS
  <2>1. InOrder(s)
    BY DEF IInv
  <2>2. phase' # phase
    OBVIOUS
  <2>3. CASE \E allowed \in SUBSET Validator : ExportZeroHeight(allowed)
    <3>1. PICK allowed \in SUBSET Validator : ExportZeroHeight(allowed)
      BY <2>3
    <3> DEFINE st == PrepForZeroHeight(s, allowed)
               new == [st EXCEPT !.height = 0]
    <3>2. ~st.panic => \E m : Restarted(s, m, allowed, new)
      BY <2>1, PrepForZeroHeightIs
    <3>3. IF st.panic THEN phase' = "failed" ELSE s' = new
      BY <3>1 DEF ExportZeroHeight
    <3> HIDE DEF st, new
    <3>4. ~st.panic /\ s' = new
      BY <3>3
    <3>5. PICK m : Restarted(s, m, allowed, new)
      BY <3>2, <3>4
    <3>6. new.bal = m.bal /\ m.bal = s.bal - Owed(s)
      BY <3>5 DEF Restarted, Distributed, SameMoney
    <3> QED
      BY <3>4, <3>6
  <2>4. CASE ExportAtHeight
    <3>1. s' = s /\ s.height > 0
      BY <2>4 DEF ExportAtHeight
    <3> QED
      BY <3>1
  <2>5. ~UNCHANGED vars
    BY <2>2 DEF vars
  <2>6. \A paid, slashed \in SUBSET Validator : ~NextBlock(paid, slashed)
    BY <2>2 DEF NextBlock
  <2>7. \A v \in Validator : ~WithdrawCommission(v) /\ ~Unjail(v)
    BY <2>2 DEF WithdrawCommission, Unjail, Step
  <2>8. \A x \in Delegation :
          /\ ~Withdraw(x) /\ ~Delegate(x) /\ ~Undelegate(x)
          /\ \A w \in Validator : ~Redelegate(x, w)
    BY <2>2 DEF Withdraw, Delegate, Undelegate, Redelegate, Step
  <2>9. Next
    BY <2>5
  <2> QED
    BY <2>3, <2>4, <2>6, <2>7, <2>8, <2>9 DEF Next
<1> QED
  BY <1>1, Inductive, PTL DEF Spec, DuePaid

=============================================================================
