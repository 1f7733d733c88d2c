---------------------------- MODULE WireProofs ----------------------------
(***************************************************************************)
(* What the generated readers and writers of Wire do on every buffer, not  *)
(* only on the short ones of a run.  Each loop of theirs is a recursive    *)
(* function: it has a solution because every step goes on to a larger      *)
(* index (DataInduction), and what holds of one step then holds of the     *)
(* whole loop.                                                             *)
(*                                                                         *)
(* Reading.  Every reader ends, inside the buffer or with an error, and    *)
(* depends on the bytes up to where it ends and on nothing else; so the    *)
(* unknown fields that a scan keeps are again bytes that scan as nothing   *)
(* but unknown fields (ScanFinds, ScanPrepends).                           *)
(*                                                                         *)
(* Writing.  A number takes the bytes that Sov counts and is read back;    *)
(* a marshaller writes the fields one after another, and a scan of them    *)
(* finds each with the values that were written (Writes, WritesFound).     *)
(***************************************************************************)
EXTENDS Wire, DataInduction

Byte == 0 .. 255
Bytes == Seq(Byte)
Half == Pow2[WordBits - 1]
Full == Pow2[WordBits]

-----------------------------------------------------------------------------
(* Words.                                                                  *)

(* The table of powers of two is one.                                      *)
LEMMA Powers ==
  /\ Pow2[0] = 1
  /\ \A k \in 1 .. WordBits : Pow2[k] = 2 * Pow2[k - 1]
  /\ \A k \in 0 .. WordBits : Pow2[k] \in Nat
<1> DEFINE n == WordBits
           base == 1
           step == [x \in Nat \X (1 .. n) |-> 2 * x[1]]
           Rec(g) == [k \in 0 .. n |-> IF k = 0 THEN 1 ELSE 2 * g[k - 1]]
           w == CHOOSE g : g = Rec(g)
<1>1. n \in Nat
  BY WireAssumption
<1>2. PICK f \in [0 .. n -> Nat] : Iterates(f, base, step, n)
  <2>1. step \in [Nat \X (1 .. n) -> Nat] /\ base \in Nat
    OBVIOUS
  <2> HIDE DEF base, step, n
  <2> QED
    BY <1>1, <2>1, IterationExists
<1>3. f[0] = 1 /\ \A k \in 1 .. n : f[k] = 2 * f[k - 1]
  <2>1. \A k \in 1 .. n : f[k - 1] \in Nat /\ <<f[k - 1], k>> \in Nat \X (1 .. n)
    <3> HIDE DEF step, base, Rec, w, n
    <3>1. \A k \in 1 .. n : k - 1 \in 0 .. n
      BY <1>1
    <3> QED
      BY <1>2, <3>1
  <2>2. \A k \in 1 .. n : f[k] = step[<<f[k - 1], k>>]
    BY <1>2 DEF Iterates
  <2> QED
    BY <1>2, <2>1, <2>2 DEF Iterates
<1>4. f = Rec(f)
  <2>1. \A k \in 0 .. n : f[k] = Rec(f)[k]
    BY <1>3
  <2> QED
    BY <1>2, <2>1
<1>5. w = Rec(w)
  BY <1>4
<1>6. Pow2 = [k \in 0 .. n |-> w[k]]
  BY DEF Pow2
<1> HIDE DEF w
<1>7. w[0] = 1 /\ \A k \in 1 .. n : w[k] = 2 * w[k - 1]
  BY <1>1, <1>5
<1>8. \A k \in 0 .. n : Pow2[k] = w[k]
  BY <1>6
<1>9. Pow2[0] = 1 /\ \A k \in 1 .. n : Pow2[k] = 2 * Pow2[k - 1]
  <2>1. 0 \in 0 .. n /\ \A k \in 1 .. n : k \in 0 .. n /\ k - 1 \in 0 .. n
    BY <1>1
  <2> HIDE DEF n
  <2> QED
    BY <1>7, <1>8, <2>1
<1>10. \A k \in 0 .. n : Pow2[k] \in Nat
  <2> DEFINE P == {k \in 0 .. n : Pow2[k] \in Nat}
  <2>1. 0 \in P
    BY <1>1, <1>9
  <2>2. ASSUME NEW k \in 1 .. n, k - 1 \in P
        PROVE  k \in P
    BY <1>9, <2>2
  <2>3. \A k \in 0 .. n : k \in P
    <3> HIDE DEF P, n
    <3> QED
      BY <1>1, <2>1, <2>2, Induction
  <2> QED
    BY <2>3
<1> QED
  BY <1>9, <1>10

(* A power of two is at least any smaller one.                             *)
LEMMA PowersGrow ==
  ASSUME NEW l \in 0 .. WordBits, NEW k \in 0 .. l
  PROVE  Pow2[k] <= Pow2[l] /\ Pow2[k] > 0
<1> DEFINE n == WordBits
           P == {m \in 0 .. n : Pow2[m] > 0 /\ \A j \in 0 .. m : Pow2[j] <= Pow2[m]}
<1>1. n \in Nat
  BY WireAssumption
<1>2. 0 \in P
  BY <1>1, Powers
<1>3. ASSUME NEW m \in 1 .. n, m - 1 \in P
      PROVE  m \in P
  <2>1. Pow2[m] = 2 * Pow2[m - 1] /\ Pow2[m - 1] \in Nat /\ Pow2[m - 1] > 0
    BY <1>3, Powers
  <2>2. \A j \in 0 .. m - 1 : Pow2[j] <= Pow2[m - 1] /\ Pow2[j] \in Nat
    <3>1. \A j \in 0 .. m - 1 : Pow2[j] <= Pow2[m - 1]
      BY <1>3
    <3>2. \A j \in 0 .. m - 1 : j \in 0 .. WordBits
      BY <1>1
    <3> QED
      BY <3>1, <3>2, Powers
  <2>3. \A j \in 0 .. m : j \in 0 .. m - 1 \/ j = m
    OBVIOUS
  <2>4. \A j \in 0 .. m : Pow2[j] <= Pow2[m]
    BY <2>1, <2>2, <2>3
  <2> QED
    BY <2>1, <2>4
<1>4. \A m \in 0 .. n : m \in P
  <2> HIDE DEF P, n
  <2> QED
    BY <1>1, <1>2, <1>3, Induction
<1> QED
  BY <1>1, <1>4, Powers

(* The numbers that a word holds, with a sign and without one.             *)
LEMMA Words ==
  /\ Half \in Nat /\ Full \in Nat /\ Full = 2 * Half /\ Half >= 64
  /\ Pow2[NumBits] \in Nat /\ Pow2[NumBits - 1] \in Nat /\ Pow2[NumBits - 1] >= 8
  /\ Pow2[NumBits] = 2 * Pow2[NumBits - 1]
<1>1. WordBits \in Nat /\ NumBits \in Nat /\ NumBits >= 4 /\ WordBits >= 7 /\ NumBits < WordBits
  BY WireAssumption
<1>2. /\ Pow2[0] = 1 /\ Pow2[1] = 2 /\ Pow2[2] = 4 /\ Pow2[3] = 8
      /\ Pow2[4] = 16 /\ Pow2[5] = 32 /\ Pow2[6] = 64
  <2>1. \A k \in 1 .. WordBits : Pow2[k] = 2 * Pow2[k - 1]
    BY Powers
  <2>2. Pow2[0] = 1
    BY Powers
  <2>3. Pow2[1] = 2 * Pow2[1 - 1] /\ Pow2[2] = 2 * Pow2[2 - 1] /\ Pow2[3] = 2 * Pow2[3 - 1]
    BY <1>1, <2>1
  <2>4. Pow2[4] = 2 * Pow2[4 - 1] /\ Pow2[5] = 2 * Pow2[5 - 1] /\ Pow2[6] = 2 * Pow2[6 - 1]
    BY <1>1, <2>1
  <2> QED
    BY <2>2, <2>3, <2>4
<1>3. Pow2[6] <= Pow2[WordBits - 1]
  BY <1>1, PowersGrow
<1>4. Pow2[3] <= Pow2[NumBits - 1]
  BY <1>1, PowersGrow
<1>5. /\ Pow2[WordBits] = 2 * Pow2[WordBits - 1] /\ Pow2[NumBits] = 2 * Pow2[NumBits - 1]
      /\ Pow2[WordBits] \in Nat /\ Pow2[WordBits - 1] \in Nat
      /\ Pow2[NumBits] \in Nat /\ Pow2[NumBits - 1] \in Nat
  BY <1>1, Powers
<1> QED
  BY <1>2, <1>3, <1>4, <1>5 DEF Half, Full

(* What a word is as an int.                                               *)
LEMMA GoIntIs ==
  ASSUME NEW v \in Nat
  PROVE  /\ GoInt(v) \in -Half .. Half - 1
         /\ v < Half => GoInt(v) = v
         /\ v >= Half /\ v < Full => GoInt(v) = v - Full
<1>1. Half \in Nat /\ Full \in Nat /\ Full = 2 * Half /\ Half >= 64
  BY Words
<1>2. GoInt(v) = IF v % Full < Half THEN v % Full ELSE (v % Full) - Full
  BY DEF GoInt, Signed, Half, Full
<1>3. v % Full \in 0 .. Full - 1 /\ (v < Full => v % Full = v)
  <2> HIDE DEF Half, Full
  <2> QED
    BY <1>1
<1> HIDE DEF Half, Full
<1> QED
  BY <1>1, <1>2, <1>3

(* An int of either sign is itself again after its word.                   *)
LEMMA GoIntBack ==
  ASSUME NEW x \in -Half .. Half - 1
  PROVE  x % Full \in 0 .. Full - 1 /\ GoInt(x % Full) = x
<1>1. Half \in Nat /\ Full \in Nat /\ Full = 2 * Half /\ Half >= 64
  BY Words
<1> HIDE DEF Half, Full
<1>2. x % Full = IF x >= 0 THEN x ELSE x + Full
  BY <1>1
<1> QED
  BY <1>1, <1>2, GoIntIs

(* The sum of two ints that are not negative is one, or negative.          *)
LEMMA GoIntSum ==
  ASSUME NEW a \in 0 .. Half - 1, NEW b \in 0 .. Half - 1
  PROVE  GoInt(a + b) = (IF a + b < Half THEN a + b ELSE a + b - Full) /\ a + b - Full < 0
<1>1. Half \in Nat /\ Full \in Nat /\ Full = 2 * Half /\ Half >= 64
  BY Words
<1> HIDE DEF Half, Full
<1>2. a + b \in Nat
  BY <1>1
<1> QED
  BY <1>1, <1>2, GoIntIs

-----------------------------------------------------------------------------
(* Reading a number.                                                       *)

(* What the readers return: an error, or a value and an index.             *)
Result(V, low, high) == {Failed} \cup [st : {"ok"}, v : V, at : low .. high]

(* The steps of ReadVarint: a group, and the number behind it.             *)
Group(bs, j, more) ==
  IF j >= Len(bs) THEN Failed
  ELSE IF bs[j + 1] < 128 THEN Ok(bs[j + 1], j + 1)
  ELSE IF more.st = "ok" THEN Ok((bs[j + 1] % 128) + 128 * more.v, more.at) ELSE more
GroupsOf(read, bs, i) ==
  /\ read[0] = Failed
  /\ \A left \in 1 .. Groups : read[left] = Group(bs, i + Groups - left, read[left - 1])
Whole(r) == IF r.st = "ok" THEN Ok(r.v % Full, r.at) ELSE r

(* A byte is one.                                                          *)
LEMMA ByteAt ==
  ASSUME NEW bs \in Bytes, NEW j \in Nat, j < Len(bs)
  PROVE  bs[j + 1] \in 0 .. 255
<1>1. Len(bs) \in Nat
  BY DEF Bytes
<1>2. j + 1 \in 1 .. Len(bs)
  BY <1>1
<1>3. \A k \in 1 .. Len(bs) : bs[k] \in Byte
  BY DEF Bytes
<1> QED
  BY <1>2, <1>3 DEF Byte

(* There are groups.                                                       *)
LEMMA SomeGroups == Groups \in Nat /\ Groups >= 1
<1>1. WordBits \in Nat /\ WordBits + 6 >= 7
  BY WireAssumption
<1> QED
  BY <1>1 DEF Groups

(* The recursion of ReadVarint has a solution, and ReadVarint runs it.     *)
LEMMA ReadVarintRuns ==
  ASSUME NEW bs \in Bytes, NEW i \in Nat
  PROVE  \E read : GroupsOf(read, bs, i) /\ ReadVarint(bs, i) = Whole(read[Groups])
<1> DEFINE n == Groups
           S == Result(Nat, 0, i + n + Len(bs))
           Rec(g) == [left \in 0 .. n |->
                        LET j == i + Groups - left
                        IN  IF left = 0 \/ j >= Len(bs) THEN Failed
                            ELSE IF bs[j + 1] < 128 THEN Ok(bs[j + 1], j + 1)
                            ELSE IF g[left - 1].st = "ok"
                                 THEN Ok((bs[j + 1] % 128) + 128 * g[left - 1].v, g[left - 1].at)
                                 ELSE g[left - 1]]
           w == CHOOSE g : g = Rec(g)
           step == [x \in S \X (1 .. n) |-> Group(bs, i + n - x[2], x[1])]
<1>1. n \in Nat /\ Len(bs) \in Nat
  BY SomeGroups DEF Bytes
<1>2. Failed \in S
  BY DEF Result
<1>3. ASSUME NEW more \in S, NEW left \in 1 .. n
      PROVE  Group(bs, i + n - left, more) \in S
  <2> DEFINE j == i + n - left
  <2>1. j \in Nat /\ j + 1 <= i + n
    BY <1>1
  <2>2. j < Len(bs) => bs[j + 1] \in 0 .. 255
    BY <2>1, ByteAt
  <2> HIDE DEF j, n
  <2>3. CASE j < Len(bs) /\ ~(bs[j + 1] < 128) /\ more.st = "ok"
    <3>1. more.v \in Nat /\ more.at \in 0 .. i + n + Len(bs)
      BY <2>3 DEF Result, Failed
    <3>2. (bs[j + 1] % 128) + 128 * more.v \in Nat
      <4>1. \A b \in 0 .. 255 : \A m \in Nat : (b % 128) + 128 * m \in Nat
        OBVIOUS
      <4> QED
        BY <2>2, <2>3, <3>1, <4>1
    <3>3. Group(bs, j, more) = Ok((bs[j + 1] % 128) + 128 * more.v, more.at)
      BY <1>1, <2>1, <2>3 DEF Group
    <3> QED
      BY <3>1, <3>2, <3>3 DEF Result, Ok, j
  <2>4. CASE ~(j < Len(bs) /\ ~(bs[j + 1] < 128) /\ more.st = "ok")
    <3>1. CASE j >= Len(bs)
      BY <3>1, <1>2 DEF Group, j
    <3>2. CASE j < Len(bs) /\ bs[j + 1] < 128
      <4>1. Group(bs, j, more) = Ok(bs[j + 1], j + 1)
        BY <3>2, <1>1, <2>1 DEF Group
      <4>2. j + 1 \in 0 .. i + n + Len(bs)
        BY <1>1, <2>1
      <4>3. bs[j + 1] \in Nat
        <5>1. bs[j + 1] \in 0 .. 255
          BY <2>2, <3>2
        <5>2. \A b \in 0 .. 255 : b \in Nat
          OBVIOUS
        <5> QED
          BY <5>1, <5>2
      <4>4. Ok(bs[j + 1], j + 1) \in S
        BY <4>2, <4>3 DEF Result, Ok
      <4> QED
        BY <4>1, <4>4 DEF j
    <3>3. CASE j < Len(bs) /\ ~(bs[j + 1] < 128)
      <4>1. Group(bs, j, more) = more
        BY <2>4, <3>3, <1>1, <2>1 DEF Group
      <4> QED
        BY <4>1 DEF j
    <3> QED
      BY <3>1, <3>2, <3>3, <1>1, <2>1
  <2> QED
    BY <2>3, <2>4
<1>4. PICK f \in [0 .. n -> S] : Iterates(f, Failed, step, n)
  <2>1. step \in [S \X (1 .. n) -> S]
    <3> HIDE DEF S, n
    <3> QED
      BY <1>3
  <2> HIDE DEF step, S, n
  <2> QED
    BY <1>1, <1>2, <2>1, IterationExists
<1>5. f[0] = Failed /\ \A left \in 1 .. n : f[left] = Group(bs, i + n - left, f[left - 1])
  <2> HIDE DEF S, n
  <2>1. \A left \in 1 .. n : left - 1 \in 0 .. n
    BY <1>1
  <2>2. \A left \in 1 .. n : <<f[left - 1], left>> \in S \X (1 .. n)
    BY <1>4, <2>1
  <2>3. \A left \in 1 .. n : f[left] = step[<<f[left - 1], left>>]
    BY <1>4 DEF Iterates
  <2> QED
    BY <1>4, <2>2, <2>3 DEF Iterates
<1>6. \A g : \A left \in 1 .. n : Rec(g)[left] = Group(bs, i + n - left, g[left - 1])
  BY <1>1 DEF Group
<1>7. \A g : Rec(g)[0] = Failed
  BY <1>1
<1>8. f = Rec(f)
  <2>1. \A left \in 0 .. n : left = 0 \/ left \in 1 .. n
    BY <1>1
  <2>2. Rec(f) = [left \in 0 .. n |-> Rec(f)[left]]
    OBVIOUS
  <2> HIDE DEF Rec, S, n
  <2>3. \A left \in 0 .. n : f[left] = Rec(f)[left]
    BY <1>5, <1>6, <1>7, <2>1
  <2> QED
    BY <1>4, <2>2, <2>3
<1>9. w = Rec(w)
  BY <1>8
<1>10. ReadVarint(bs, i) = Whole(w[n])
  BY DEF ReadVarint, Then, Whole, Full
<1> HIDE DEF w, Rec
<1>11. GroupsOf(w, bs, i)
  BY <1>6, <1>7, <1>9 DEF GroupsOf
<1> QED
  BY <1>10, <1>11

(* What a group gives when it is read.                                     *)
LEMMA GroupRead ==
  ASSUME NEW bs \in Bytes, NEW j \in Nat, NEW more, Group(bs, j, more).st = "ok"
  PROVE  /\ j < Len(bs) /\ bs[j + 1] \in Nat /\ bs[j + 1] <= 255
         /\ bs[j + 1] < 128 => Group(bs, j, more) = Ok(bs[j + 1], j + 1)
         /\ bs[j + 1] >= 128 =>
              /\ more.st = "ok"
              /\ Group(bs, j, more) = Ok((bs[j + 1] % 128) + 128 * more.v, more.at)
<1>1. Len(bs) \in Nat
  BY DEF Bytes
<1>2. j < Len(bs)
  BY <1>1 DEF Group, Failed
<1>3. \A b \in 0 .. 255 : b \in Nat /\ b <= 255
  OBVIOUS
<1>4. bs[j + 1] \in 0 .. 255
  BY <1>2, ByteAt
<1>5. bs[j + 1] \in Nat /\ bs[j + 1] <= 255
  BY <1>3, <1>4
<1>6. bs[j + 1] < 128 => Group(bs, j, more) = Ok(bs[j + 1], j + 1)
  BY <1>1, <1>2 DEF Group
<1>7. ASSUME bs[j + 1] >= 128
      PROVE  /\ more.st = "ok"
             /\ Group(bs, j, more) = Ok((bs[j + 1] % 128) + 128 * more.v, more.at)
  <2>1. ~(j >= Len(bs)) /\ ~(bs[j + 1] < 128)
    BY <1>1, <1>2, <1>5, <1>7
  <2>2. more.st = "ok"
    BY <2>1 DEF Group
  <2> QED
    BY <2>1, <2>2 DEF Group
<1> QED
  BY <1>2, <1>5, <1>6, <1>7

(* Each step reads a number that ends in the buffer, or fails.             *)
LEMMA GroupsType ==
  ASSUME NEW bs \in Bytes, NEW i \in Nat, NEW read, GroupsOf(read, bs, i),
         NEW left \in 0 .. Groups
  PROVE  \/ read[left] = Failed
         \/ /\ read[left].st = "ok" /\ read[left].v \in Nat
            /\ read[left].at \in i + Groups - left + 1 .. Len(bs)
            /\ read[left] = Ok(read[left].v, read[left].at)
<1> DEFINE Fine(l) == /\ read[l].st = "ok" /\ read[l].v \in Nat
                      /\ read[l].at \in i + Groups - l + 1 .. Len(bs)
                      /\ read[l] = Ok(read[l].v, read[l].at)
           P == {l \in 0 .. Groups : read[l] = Failed \/ Fine(l)}
<1>0. Len(bs) \in Nat
  BY DEF Bytes
<1>1. 0 \in P
  BY SomeGroups DEF GroupsOf
<1>2. ASSUME NEW l \in 1 .. Groups, l - 1 \in P
      PROVE  l \in P
  <2> DEFINE j == i + Groups - l
             more == read[l - 1]
  <2>1. j \in Nat /\ l \in 0 .. Groups /\ i + Groups - (l - 1) = j + 1
    BY SomeGroups
  <2>2. read[l] = Group(bs, j, more)
    BY DEF GroupsOf
  <2>3. more = Failed \/ Fine(l - 1)
    BY <1>2
  <2>4. CASE Group(bs, j, more).st = "ok"
    <3> HIDE DEF j
    <3>1. /\ j < Len(bs) /\ bs[j + 1] \in Nat /\ bs[j + 1] <= 255
          /\ bs[j + 1] < 128 => Group(bs, j, more) = Ok(bs[j + 1], j + 1)
          /\ bs[j + 1] >= 128 =>
               /\ more.st = "ok"
               /\ Group(bs, j, more) = Ok((bs[j + 1] % 128) + 128 * more.v, more.at)
      BY <2>1, <2>4, GroupRead
    <3>2. CASE bs[j + 1] < 128
      <4>1. read[l] = Ok(bs[j + 1], j + 1)
        BY <2>2, <3>1, <3>2
      <4>2. j + 1 \in j + 1 .. Len(bs)
        BY <1>0, <2>1, <3>1
      <4>3. Fine(l)
        BY <3>1, <4>1, <4>2 DEF Ok, j
      <4> QED
        BY <2>1, <4>3
    <3>3. CASE bs[j + 1] >= 128
      <4>1. more.st = "ok" /\ more # Failed
        BY <3>1, <3>3 DEF Failed
      <4>2. more.v \in Nat /\ more.at \in j + 1 + 1 .. Len(bs)
        BY <2>1, <2>3, <4>1
      <4>3. read[l] = Ok((bs[j + 1] % 128) + 128 * more.v, more.at)
        BY <2>2, <3>1, <3>3
      <4>4. (bs[j + 1] % 128) + 128 * more.v \in Nat
        <5>1. \A b, m \in Nat : (b % 128) + 128 * m \in Nat
          OBVIOUS
        <5> QED
          BY <3>1, <4>2, <5>1
      <4>5. more.at \in j + 1 .. Len(bs)
        BY <2>1, <4>2
      <4>6. Fine(l)
        BY <4>3, <4>4, <4>5 DEF Ok, j
      <4> QED
        BY <2>1, <4>6
    <3> QED
      BY <3>1, <3>2, <3>3
  <2>5. CASE Group(bs, j, more).st # "ok"
    <3>1. Group(bs, j, more) = Failed
      <4>1. CASE j >= Len(bs)
        BY <4>1 DEF Group
      <4>2. CASE ~(j >= Len(bs)) /\ bs[j + 1] < 128
        BY <2>5, <4>2 DEF Group, Ok
      <4>3. CASE ~(j >= Len(bs)) /\ ~(bs[j + 1] < 128)
        <5>1. more.st # "ok"
          BY <2>5, <4>3 DEF Group, Ok
        <5>2. Group(bs, j, more) = more
          BY <4>3, <5>1 DEF Group
        <5> QED
          BY <2>3, <5>1, <5>2
      <4> QED
        BY <4>1, <4>2, <4>3
    <3> QED
      BY <2>1, <2>2, <3>1
  <2> QED
    BY <2>4, <2>5
<1>3. \A l \in 0 .. Groups : l \in P
  <2> HIDE DEF P
  <2> QED
    BY <1>1, <1>2, SomeGroups, Induction
<1> QED
  BY <1>3

(* A number that is read fits in a word, and ends in the buffer.           *)
LEMMA ReadVarintType ==
  ASSUME NEW bs \in Bytes, NEW i \in Nat
  PROVE  \/ ReadVarint(bs, i) = Failed
         \/ /\ ReadVarint(bs, i).st = "ok"
            /\ ReadVarint(bs, i).v \in 0 .. Full - 1
            /\ ReadVarint(bs, i).at \in i + 1 .. Len(bs)
            /\ ReadVarint(bs, i) = Ok(ReadVarint(bs, i).v, ReadVarint(bs, i).at)
<1>1. PICK read : GroupsOf(read, bs, i) /\ ReadVarint(bs, i) = Whole(read[Groups])
  BY ReadVarintRuns
<1>2. Groups \in 0 .. Groups /\ i + Groups - Groups = i
  BY SomeGroups
<1> DEFINE r == read[Groups]
<1>3. \/ r = Failed
      \/ r.st = "ok" /\ r.v \in Nat /\ r.at \in i + Groups - Groups + 1 .. Len(bs)
  BY <1>1, <1>2, GroupsType
<1>4. CASE r = Failed
  BY <1>1, <1>4 DEF Whole, Failed
<1>5. CASE r.st = "ok" /\ r.v \in Nat /\ r.at \in i + 1 .. Len(bs)
  <2>1. Full \in Nat /\ Full > 0
    BY Words
  <2>2. \A v, w \in Nat : w > 0 => v % w \in 0 .. w - 1
    OBVIOUS
  <2>3. r.v % Full \in 0 .. Full - 1
    BY <1>5, <2>1, <2>2
  <2>4. ReadVarint(bs, i) = Ok(r.v % Full, r.at)
    BY <1>1, <1>5 DEF Whole
  <2> QED
    BY <1>5, <2>3, <2>4 DEF Ok
<1> QED
  BY <1>2, <1>3, <1>4, <1>5

-----------------------------------------------------------------------------
(* The same bytes elsewhere are read the same.                             *)

(* n bytes of a from index i on are those of c from index k on.            *)
Matches(a, i, c, k, n) ==
  /\ i + n <= Len(a) /\ k + n <= Len(c)
  /\ \A j \in 1 .. n : a[i + j] = c[k + j]

(* A number that ends within the bytes two buffers share is in both.       *)
LEMMA ReadVarintMatches ==
  ASSUME NEW a \in Bytes, NEW c \in Bytes, NEW i \in Nat, NEW k \in Nat, NEW n \in Nat,
         Matches(a, i, c, k, n),
         ReadVarint(a, i).st = "ok", ReadVarint(a, i).at <= i + n
  PROVE  ReadVarint(c, k) = Ok(ReadVarint(a, i).v, ReadVarint(a, i).at - i + k)
<1>0. Len(a) \in Nat /\ Len(c) \in Nat
  BY DEF Bytes
<1>1. PICK ra : GroupsOf(ra, a, i) /\ ReadVarint(a, i) = Whole(ra[Groups])
  BY ReadVarintRuns
<1>2. PICK rc : GroupsOf(rc, c, k) /\ ReadVarint(c, k) = Whole(rc[Groups])
  BY ReadVarintRuns
<1> DEFINE Same2(l) == (ra[l].st = "ok" /\ ra[l].at <= i + n)
                         => rc[l] = Ok(ra[l].v, ra[l].at - i + k)
           P == {l \in 0 .. Groups : Same2(l)}
<1>3. 0 \in P
  BY <1>1, SomeGroups DEF GroupsOf, Failed
<1>4. ASSUME NEW l \in 1 .. Groups, l - 1 \in P
      PROVE  l \in P
  <2> DEFINE o == Groups - l
             more == ra[l - 1]
             next == rc[l - 1]
  <2>1. /\ o \in Nat /\ i + Groups - l = i + o /\ k + Groups - l = k + o
        /\ i + o \in Nat /\ k + o \in Nat /\ l \in 0 .. Groups /\ l - 1 \in 0 .. Groups
        /\ i + Groups - (l - 1) = i + o + 1
    BY SomeGroups
  <2>2. ra[l] = Group(a, i + o, more) /\ rc[l] = Group(c, k + o, next)
    BY <1>1, <1>2, <2>1 DEF GroupsOf
  <2>3. SUFFICES ASSUME ra[l].st = "ok", ra[l].at <= i + n
                 PROVE  rc[l] = Ok(ra[l].v, ra[l].at - i + k)
    BY <2>1
  <2> HIDE DEF o
  <2>4. /\ i + o < Len(a) /\ a[i + o + 1] \in Nat /\ a[i + o + 1] <= 255
        /\ a[i + o + 1] < 128 => ra[l] = Ok(a[i + o + 1], i + o + 1)
        /\ a[i + o + 1] >= 128 =>
             /\ more.st = "ok"
             /\ ra[l] = Ok((a[i + o + 1] % 128) + 128 * more.v, more.at)
    <3> DEFINE j == i + o
    <3>1. j \in Nat /\ ra[l] = Group(a, j, more) /\ Group(a, j, more).st = "ok"
      BY <2>1, <2>2, <2>3
    <3> HIDE DEF j, more
    <3>2. /\ j < Len(a) /\ a[j + 1] \in Nat /\ a[j + 1] <= 255
          /\ a[j + 1] < 128 => Group(a, j, more) = Ok(a[j + 1], j + 1)
          /\ a[j + 1] >= 128 =>
               /\ more.st = "ok"
               /\ Group(a, j, more) = Ok((a[j + 1] % 128) + 128 * more.v, more.at)
      BY <3>1, GroupRead
    <3> QED
      BY <3>1, <3>2 DEF j
  <2>5. ra[l].at \in i + o + 1 .. Len(a)
    <3>1. \/ ra[l] = Failed
          \/ ra[l].at \in i + Groups - l + 1 .. Len(a)
      BY <1>1, <2>1, GroupsType
    <3>2. ra[l] # Failed
      BY <2>3 DEF Failed
    <3> QED
      BY <2>1, <3>1, <3>2
  <2>6. o + 1 \in 1 .. n
    <3>1. ra[l].at >= i + o + 1 /\ ra[l].at <= i + n /\ ra[l].at \in Int
      BY <1>0, <2>1, <2>3, <2>5
    <3> QED
      BY <2>1, <3>1
  <2>7. a[i + o + 1] = c[k + o + 1] /\ k + o < Len(c) /\ ~(k + o >= Len(c))
    <3>1. a[i + (o + 1)] = c[k + (o + 1)] /\ k + n <= Len(c)
      BY <2>6 DEF Matches
    <3>2. i + (o + 1) = i + o + 1 /\ k + (o + 1) = k + o + 1
      BY <2>1
    <3> QED
      BY <1>0, <2>1, <2>6, <3>1, <3>2
  <2>8. CASE a[i + o + 1] < 128
    <3>1. ra[l] = Ok(a[i + o + 1], i + o + 1)
      BY <2>4, <2>8
    <3>2. rc[l] = Ok(a[i + o + 1], k + o + 1)
      BY <2>2, <2>7, <2>8 DEF Group
    <3>3. ra[l].v = a[i + o + 1] /\ ra[l].at = i + o + 1
      BY <3>1 DEF Ok
    <3>4. ra[l].at - i + k = k + o + 1
      BY <3>3, <2>1
    <3> QED
      BY <3>2, <3>3, <3>4
  <2>9. CASE a[i + o + 1] >= 128
    <3>1. more.st = "ok" /\ ra[l] = Ok((a[i + o + 1] % 128) + 128 * more.v, more.at)
      BY <2>4, <2>9
    <3>2. ra[l].v = (a[i + o + 1] % 128) + 128 * more.v /\ ra[l].at = more.at
      BY <3>1 DEF Ok
    <3>3. next = Ok(more.v, more.at - i + k)
      BY <1>4, <2>3, <3>1, <3>2
    <3>4. next.st = "ok" /\ next.v = more.v /\ next.at = more.at - i + k
      BY <3>3 DEF Ok
    <3>5. ~(a[i + o + 1] < 128)
      BY <2>4, <2>9
    <3>6. rc[l] = Ok((a[i + o + 1] % 128) + 128 * next.v, next.at)
      BY <2>2, <2>7, <3>4, <3>5 DEF Group
    <3> QED
      BY <3>2, <3>4, <3>6
  <2> QED
    BY <2>4, <2>8, <2>9
<1>5. \A l \in 0 .. Groups : l \in P
  <2> HIDE DEF P
  <2> QED
    BY <1>3, <1>4, SomeGroups, Induction
<1>6. Groups \in 0 .. Groups
  BY SomeGroups
<1> DEFINE r == ra[Groups]
<1>7. r.st = "ok" /\ ReadVarint(a, i) = Ok(r.v % Full, r.at)
  BY <1>1 DEF Whole
<1>8. ReadVarint(a, i).v = r.v % Full /\ ReadVarint(a, i).at = r.at
  BY <1>7 DEF Ok
<1>9. rc[Groups] = Ok(r.v, r.at - i + k)
  BY <1>5, <1>6, <1>7, <1>8
<1>10. Whole(rc[Groups]) = Ok(r.v % Full, r.at - i + k)
  BY <1>9 DEF Whole, Ok
<1> QED
  BY <1>2, <1>8, <1>10

-----------------------------------------------------------------------------
(* Reading bytes and skipping a field.                                     *)

(* Bytes are read when their length is an int and they end in the buffer.  *)
LEMMA ReadBytesIs ==
  ASSUME NEW bs \in Bytes, Fits(bs), NEW i \in Nat, NEW n, n = ReadVarint(bs, i)
  PROVE  \/ /\ ReadBytes(bs, i) = Failed
            /\ n.st = "ok" => GoInt(n.v) < 0 \/ n.at + GoInt(n.v) > Len(bs)
         \/ /\ n.st = "ok" /\ n.at \in i + 1 .. Len(bs) /\ GoInt(n.v) \in Nat
            /\ n.at + GoInt(n.v) <= Len(bs)
            /\ ReadBytes(bs, i) = Ok(SubSeq(bs, n.at + 1, n.at + GoInt(n.v)), n.at + GoInt(n.v))
<1> DEFINE l == GoInt(n.v)
           post == GoInt(n.at + l)
<1>1. Len(bs) \in Nat /\ Len(bs) < Half
  BY DEF Bytes, Fits, Half
<1>2. Half \in Nat /\ Full \in Nat /\ Full = 2 * Half
  BY Words
<1>3. CASE n = Failed
  <2>1. ReadBytes(bs, i) = Failed
    BY <1>3 DEF ReadBytes, Then, Failed
  <2> QED
    BY <1>3, <2>1 DEF Failed
<1>4. CASE n.st = "ok" /\ n.v \in 0 .. Full - 1 /\ n.at \in i + 1 .. Len(bs)
  <2>1. ReadBytes(bs, i) = IF l < 0 \/ post < 0 \/ post > Len(bs) THEN Failed
                           ELSE Slice(bs, n.at, post)
    BY <1>4 DEF ReadBytes, Then
  <2>2. n.v \in Nat
    BY <1>2, <1>4
  <2>3. l \in -Half .. Half - 1
    BY <2>2, GoIntIs
  <2> HIDE DEF l
  <2>4. n.at \in 0 .. Half - 1
    BY <1>1, <1>2, <1>4
  <2>5. l >= 0 => post = (IF n.at + l < Half THEN n.at + l ELSE n.at + l - Full)
                  /\ n.at + l - Full < 0
    <3>1. l >= 0 => l \in 0 .. Half - 1
      BY <1>2, <2>3
    <3> QED
      BY <2>4, <3>1, GoIntSum
  <2> HIDE DEF post
  <2>6. CASE l < 0
    BY <2>1, <2>6 DEF l
  <2>7. CASE l >= 0 /\ n.at + l > Len(bs)
    <3>1. post < 0 \/ post > Len(bs)
      BY <1>1, <1>2, <2>3, <2>4, <2>5, <2>7
    <3>2. ReadBytes(bs, i) = Failed
      BY <2>1, <3>1
    <3> QED
      BY <2>7, <3>2 DEF l
  <2>8. CASE l >= 0 /\ n.at + l <= Len(bs)
    <3>1. post = n.at + l /\ ~(post < 0) /\ ~(post > Len(bs)) /\ ~(l < 0) /\ n.at <= post
      BY <1>1, <1>2, <2>3, <2>4, <2>5, <2>8
    <3>2. ReadBytes(bs, i) = Slice(bs, n.at, post)
      BY <2>1, <3>1
    <3>3. Slice(bs, n.at, post) = Ok(SubSeq(bs, n.at + 1, post), post)
      BY <1>1, <2>4, <3>1 DEF Slice
    <3>4. l \in Nat
      BY <2>3, <2>8, <1>2
    <3> QED
      BY <1>4, <2>8, <3>1, <3>2, <3>3, <3>4 DEF l
  <2> QED
    BY <1>1, <1>2, <2>3, <2>4, <2>6, <2>7, <2>8
<1> QED
  BY <1>3, <1>4, ReadVarintType

(* A step of skipping goes forward, or wraps around to a negative index;   *)
(* the depth stays a natural number.                                       *)
LEMMA SkipOneType ==
  ASSUME NEW bs \in Bytes, Fits(bs), NEW i \in Nat, NEW depth \in Nat
  PROVE  LET s == SkipOne(bs, i, depth)
         IN  \/ s = Failed
             \/ /\ s.st = "ok" /\ s = Ok(s.v, s.at) /\ s.v \in {-1, 0, 1} /\ depth + s.v \in Nat
                /\ s.at \in Int /\ s.at < Half /\ (s.at < 0 \/ s.at > i)
                /\ ReadVarint(bs, i).st = "ok"
                /\ s.at < 0 \/ s.at >= ReadVarint(bs, i).at
<1> DEFINE tag == ReadVarint(bs, i)
           s == SkipOne(bs, i, depth)
           t == tag.v % 8
<1>1. Len(bs) \in Nat /\ Len(bs) < Half
  BY DEF Bytes, Fits, Half
<1>2. Half \in Nat /\ Full \in Nat /\ Full = 2 * Half /\ Half >= 64
  BY Words
<1>3. CASE tag = Failed
  BY <1>3 DEF SkipOne, Then, Failed
<1>4. CASE tag.st = "ok" /\ tag.v \in 0 .. Full - 1 /\ tag.at \in i + 1 .. Len(bs)
  <2>1. s = SkipValue(bs, tag, depth)
    BY <1>4 DEF SkipOne, Then
  <2>2. tag.at \in 0 .. Half - 1 /\ tag.at \in Nat /\ tag.at > i
    BY <1>1, <1>2, <1>4
  <2>3. t \in 0 .. 7
    BY <1>2, <1>4
  <2> DEFINE Good(r) == /\ r.st = "ok" /\ r = Ok(r.v, r.at) /\ r.v \in {-1, 0, 1}
                        /\ depth + r.v \in Nat
                        /\ r.at \in Int /\ r.at < Half /\ (r.at < 0 \/ r.at >= tag.at)
  <2>4. ASSUME NEW b \in 0 .. Half - 1, NEW p \in tag.at .. Half - 1
        PROVE  Good(Ok(0, GoInt(p + b)))
    <3>1. p \in 0 .. Half - 1
      BY <2>2
    <3>2. GoInt(p + b) = (IF p + b < Half THEN p + b ELSE p + b - Full) /\ p + b - Full < 0
      BY <3>1, GoIntSum
    <3>3. GoInt(p + b) \in Int /\ GoInt(p + b) < Half
        /\ (GoInt(p + b) < 0 \/ GoInt(p + b) >= tag.at)
      BY <1>2, <2>2, <3>1, <3>2
    <3> QED
      BY <3>3 DEF Ok
  <2>. SUFFICES s = Failed \/ Good(s)
    BY <1>4, <2>2
  <2> HIDE DEF tag, t, s
  <2>5. CASE t = 0
    <3> DEFINE n == ReadVarint(bs, tag.at)
    <3>1. s = IF n.st = "ok" THEN Ok(0, n.at) ELSE n
      BY <2>1, <2>5 DEF SkipValue, Then, t
    <3>2. n = Failed \/ (n.st = "ok" /\ n.at \in tag.at + 1 .. Len(bs))
      BY <2>2, ReadVarintType
    <3> HIDE DEF n
    <3>3. CASE n = Failed
      BY <3>1, <3>3 DEF Failed
    <3>4. CASE n.st = "ok" /\ n.at \in tag.at + 1 .. Len(bs)
      <4>1. s = Ok(0, n.at) /\ n.at \in Int /\ n.at < Half /\ n.at >= tag.at
        BY <1>1, <1>2, <2>2, <3>1, <3>4
      <4> QED
        BY <4>1 DEF Ok
    <3> QED
      BY <3>2, <3>3, <3>4
  <2>6. CASE t = 1
    <3>1. s = Ok(0, GoInt(tag.at + Fixed64Bytes))
      BY <2>1, <2>6 DEF SkipValue, t
    <3>2. Fixed64Bytes \in 0 .. Half - 1 /\ tag.at \in tag.at .. Half - 1
      BY <1>2, <2>2, WireAssumption
    <3> QED
      BY <2>4, <3>1, <3>2
  <2>7. CASE t = 5
    <3>1. s = Ok(0, GoInt(tag.at + Fixed32Bytes))
      BY <2>1, <2>7 DEF SkipValue, t
    <3>2. Fixed32Bytes \in 0 .. Half - 1 /\ tag.at \in tag.at .. Half - 1
      BY <1>2, <2>2, WireAssumption
    <3> QED
      BY <2>4, <3>1, <3>2
  <2>8. CASE t = 2
    <3> DEFINE n == ReadVarint(bs, tag.at)
    <3>1. s = IF n.st = "ok" THEN IF GoInt(n.v) < 0 THEN Failed
                                  ELSE Ok(0, GoInt(n.at + GoInt(n.v))) ELSE n
      BY <2>1, <2>8 DEF SkipValue, Then, t
    <3>2. n = Failed \/ (n.st = "ok" /\ n.v \in 0 .. Full - 1 /\ n.at \in tag.at + 1 .. Len(bs))
      BY <2>2, ReadVarintType
    <3> HIDE DEF n
    <3>3. CASE n = Failed
      BY <3>1, <3>3 DEF Failed
    <3>4. CASE n.st = "ok" /\ n.v \in 0 .. Full - 1 /\ n.at \in tag.at + 1 .. Len(bs)
      <4>1. n.v \in Nat /\ n.at \in tag.at .. Half - 1
        BY <1>1, <1>2, <2>2, <3>4
      <4>2. GoInt(n.v) \in -Half .. Half - 1
        BY <4>1, GoIntIs
      <4>3. CASE GoInt(n.v) < 0
        BY <3>1, <3>4, <4>3
      <4>4. CASE ~(GoInt(n.v) < 0)
        <5>1. GoInt(n.v) \in 0 .. Half - 1
          BY <1>2, <4>2, <4>4
        <5>2. s = Ok(0, GoInt(n.at + GoInt(n.v)))
          BY <3>1, <3>4, <4>4
        <5> QED
          BY <2>4, <4>1, <5>1, <5>2
      <4> QED
        BY <4>3, <4>4
    <3> QED
      BY <3>2, <3>3, <3>4
  <2>9. CASE t = 3
    <3>1. s = Ok(1, tag.at)
      BY <2>1, <2>9 DEF SkipValue, t
    <3> QED
      BY <2>2, <1>2, <3>1 DEF Ok
  <2>10. CASE t = 4 /\ depth > 0
    <3>1. s = Ok(-1, tag.at)
      BY <2>1, <2>10 DEF SkipValue, t
    <3> QED
      BY <2>2, <2>10, <1>2, <3>1 DEF Ok
  <2>11. CASE t \in {6, 7} \/ (t = 4 /\ ~(depth > 0))
    BY <2>1, <2>11 DEF SkipValue, t
  <2>12. t = 0 \/ t = 1 \/ t = 2 \/ t = 3 \/ t = 4 \/ t = 5 \/ t \in {6, 7}
    BY <2>3
  <2> HIDE DEF Good
  <2> QED
    BY <2>5, <2>6, <2>7, <2>8, <2>9, <2>10, <2>11, <2>12
<1> QED
  BY <1>3, <1>4, ReadVarintType

(* What is behind the first of the bytes that are the same.                *)
LEMMA MatchesBehind ==
  ASSUME NEW a, NEW c, NEW i \in Nat, NEW k \in Nat, NEW n \in Nat, Matches(a, i, c, k, n),
         NEW j \in 0 .. n
  PROVE  Matches(a, i + j, c, k + j, n - j)
<1>1. i + n <= Len(a) /\ k + n <= Len(c) /\ \A m \in 1 .. n : a[i + m] = c[k + m]
  BY DEF Matches
<1>2. (i + j) + (n - j) = i + n /\ (k + j) + (n - j) = k + n
  OBVIOUS
<1>3. ASSUME NEW m \in 1 .. n - j
      PROVE  a[(i + j) + m] = c[(k + j) + m]
  <2>1. j + m \in 1 .. n /\ (i + j) + m = i + (j + m) /\ (k + j) + m = k + (j + m)
    OBVIOUS
  <2> QED
    BY <1>1, <2>1
<1> QED
  BY <1>1, <1>2, <1>3 DEF Matches

(* A number is read the same at an index of the part in common.            *)
LEMMA ReadVarintSame ==
  ASSUME NEW a \in Bytes, NEW c \in Bytes, NEW n \in Nat, Matches(a, 0, c, 0, n),
         NEW i \in Nat, ReadVarint(a, i).st = "ok", ReadVarint(a, i).at <= n
  PROVE  ReadVarint(c, i) = ReadVarint(a, i)
<1> DEFINE r == ReadVarint(a, i)
           z == 0
<1>0. z = 0 /\ z \in Nat
  OBVIOUS
<1>1. /\ r.at \in i + 1 .. Len(a) /\ r = Ok(r.v, r.at) /\ Len(a) \in Nat
      /\ r.at <= n
  BY ReadVarintType DEF Failed, Bytes
<1> HIDE DEF r
<1>2. i \in 0 .. n /\ i + (n - i) = n /\ n - i \in Nat
  BY <1>1
<1> HIDE DEF z
<1>3. Matches(a, z + i, c, z + i, n - i)
  BY <1>0, <1>2, MatchesBehind
<1>4. Matches(a, i, c, i, n - i)
  <2>1. z + i = i
    BY <1>0
  <2> QED
    BY <1>3, <2>1
<1>5. ReadVarint(c, i) = Ok(r.v, r.at - i + i)
  <2>1. r.st = "ok" /\ r.at <= i + (n - i)
    BY <1>1, <1>2 DEF r
  <2>2. n - i \in Nat
    BY <1>2
  <2> DEFINE m == n - i
  <2>3. m \in Nat /\ Matches(a, i, c, i, m) /\ r.at <= i + m
    BY <1>4, <2>1, <2>2
  <2> HIDE DEF m
  <2> QED
    BY <2>1, <2>3, ReadVarintMatches DEF r
<1>6. r.at - i + i = r.at
  BY <1>1
<1>7. ReadVarint(c, i) = r
  BY <1>1, <1>5, <1>6
<1> QED
  BY <1>7 DEF r

(* So is a step of skipping.                                               *)
LEMMA SkipOneSame ==
  ASSUME NEW a \in Bytes, Fits(a), NEW c \in Bytes, NEW n \in Nat, Matches(a, 0, c, 0, n),
         NEW i \in Nat, NEW depth \in Nat, NEW s, s = SkipOne(a, i, depth),
         s.st = "ok", s.at >= 0, s.at <= n
  PROVE  SkipOne(c, i, depth) = s
<1> DEFINE tag == ReadVarint(a, i)
           t == tag.v % 8
<1>0. Half \in Nat /\ Full \in Nat /\ Full = 2 * Half /\ Half >= 64
  BY Words
<1>1. s.at \in Int /\ tag.st = "ok" /\ s.at >= tag.at
  BY SkipOneType DEF Failed
<1>2. tag.v \in 0 .. Full - 1 /\ tag.at \in i + 1 .. Len(a) /\ Len(a) \in Nat
  BY <1>1, ReadVarintType DEF Failed, Bytes
<1>3. tag.at \in Nat /\ tag.at <= n
  BY <1>1, <1>2
<1>4. ReadVarint(c, i) = tag
  BY <1>1, <1>3, ReadVarintSame
<1>5. s = SkipValue(a, tag, depth) /\ SkipOne(c, i, depth) = SkipValue(c, tag, depth)
  BY <1>1, <1>4 DEF SkipOne, Then
<1> DEFINE n1 == ReadVarint(a, tag.at)
           n2 == ReadVarint(c, tag.at)
<1>6. n1.st = "ok" => n1.v \in 0 .. Full - 1 /\ n1.at \in tag.at + 1 .. Len(a)
  BY <1>3, ReadVarintType DEF Failed
<1>7. n1.st = "ok" /\ n1.at <= n => n2 = n1
  BY <1>3, ReadVarintSame
<1> HIDE DEF tag, t
<1>8. CASE t = 0
  <2>1. s = (IF n1.st = "ok" THEN Ok(0, n1.at) ELSE n1)
    BY <1>5, <1>8 DEF SkipValue, Then, t
  <2>2. n1.st = "ok" /\ s.at = n1.at
    BY <2>1 DEF Ok
  <2>3. n2 = n1
    BY <1>7, <2>2
  <2>4. SkipValue(c, tag, depth) = (IF n2.st = "ok" THEN Ok(0, n2.at) ELSE n2)
    BY <1>8 DEF SkipValue, Then, t
  <2> HIDE DEF n1, n2
  <2> QED
    BY <1>5, <2>1, <2>3, <2>4
<1>9. CASE t = 2
  <2>1. s = IF n1.st = "ok" THEN IF GoInt(n1.v) < 0 THEN Failed
                                 ELSE Ok(0, GoInt(n1.at + GoInt(n1.v))) ELSE n1
    BY <1>5, <1>9 DEF SkipValue, Then, t
  <2>2. SkipValue(c, tag, depth) =
          IF n2.st = "ok" THEN IF GoInt(n2.v) < 0 THEN Failed
                               ELSE Ok(0, GoInt(n2.at + GoInt(n2.v))) ELSE n2
    BY <1>9 DEF SkipValue, Then, t
  <2> HIDE DEF n1, n2
  <2>3. n1.st = "ok" /\ ~(GoInt(n1.v) < 0) /\ s.at = GoInt(n1.at + GoInt(n1.v))
    BY <2>1 DEF Ok, Failed
  <2>4. n1.at <= s.at
    <3>1. n1.v \in Nat /\ n1.at \in 0 .. Half - 1
      <4>1. Len(a) < Half
        BY DEF Fits, Half
      <4> QED
        BY <1>0, <1>2, <1>3, <1>6, <2>3, <4>1
    <3>2. GoInt(n1.v) \in -Half .. Half - 1
      BY <3>1, GoIntIs
    <3> DEFINE l == GoInt(n1.v)
    <3>3. l \in 0 .. Half - 1
      BY <1>0, <2>3, <3>2
    <3> HIDE DEF l
    <3>4. GoInt(n1.at + l) = (IF n1.at + l < Half THEN n1.at + l ELSE n1.at + l - Full)
          /\ n1.at + l - Full < 0
      BY <3>1, <3>3, GoIntSum
    <3>5. s.at = GoInt(n1.at + l)
      BY <2>3 DEF l
    <3> QED
      BY <1>0, <3>1, <3>3, <3>4, <3>5
  <2>5. n2 = n1
    <3>1. n1.at \in Int
      BY <1>3, <1>6, <2>3
    <3> QED
      BY <1>1, <1>7, <2>3, <2>4, <3>1
  <2> QED
    BY <1>5, <2>1, <2>2, <2>5
<1>10. CASE t # 0 /\ t # 2
  <2>1. SkipValue(c, tag, depth) = SkipValue(a, tag, depth)
    BY <1>10 DEF SkipValue, t
  <2> QED
    BY <1>5, <2>1
<1> QED
  BY <1>8, <1>9, <1>10

(* The recursion of Skip.                                                  *)
SkipFrom(bs, skip, i, depth) ==
  LET s == SkipOne(bs, i, depth)
  IN  IF i = Len(bs) THEN Failed
      ELSE IF s.st # "ok" THEN s
      ELSE IF s.at < 0 THEN Failed
      ELSE IF depth + s.v = 0 THEN Ok(s.at, s.at)
      ELSE IF s.at > Len(bs) THEN Failed
      ELSE skip[s.at][depth + s.v]
Skips(skip, bs) ==
  \A i \in 0 .. Len(bs) : \A depth \in Nat : skip[i][depth] = SkipFrom(bs, skip, i, depth)

(* It has a solution, and Skip runs it.                                    *)
LEMMA SkipRuns ==
  ASSUME NEW bs \in Bytes, Fits(bs)
  PROVE  \E skip : Skips(skip, bs) /\ Skip(bs) = skip[0][0]
<1> DEFINE n == Len(bs)
           R == Result(Nat, 0, Half)
           S == [Nat -> R]
           F == [0 .. n -> S]
           Rec(g) == [i \in 0 .. n |-> [depth \in Nat |-> SkipFrom(bs, g, i, depth)]]
           step == [g \in F |-> Rec(g)]
           w == CHOOSE g : g = Rec(g)
<1>1. n \in Nat
  BY DEF Bytes
<1>2. Half \in Nat
  BY Words
<1>3. ASSUME NEW g \in F, NEW i \in 0 .. n, NEW depth \in Nat
      PROVE  SkipFrom(bs, g, i, depth) \in R
  <2> DEFINE s == SkipOne(bs, i, depth)
  <2>1. i \in Nat
    BY <1>1
  <2>2. \/ s = Failed
        \/ s.st = "ok" /\ depth + s.v \in Nat /\ s.at \in Int /\ s.at < Half
    BY <2>1, SkipOneType
  <2> HIDE DEF s
  <2>3. SkipFrom(bs, g, i, depth) =
          IF i = Len(bs) THEN Failed
          ELSE IF s.st # "ok" THEN s
          ELSE IF s.at < 0 THEN Failed
          ELSE IF depth + s.v = 0 THEN Ok(s.at, s.at)
          ELSE IF s.at > Len(bs) THEN Failed
          ELSE g[s.at][depth + s.v]
    BY DEF SkipFrom, s
  <2>4. Failed \in R
    BY DEF Result
  <2>5. CASE i = Len(bs) \/ s = Failed
    BY <2>3, <2>4, <2>5 DEF Failed
  <2>6. CASE i # Len(bs) /\ s.st = "ok" /\ depth + s.v \in Nat /\ s.at \in Int /\ s.at < Half
    <3>1. s.at >= 0 => Ok(s.at, s.at) \in R
      BY <1>2, <2>6 DEF Result, Ok
    <3>2. s.at >= 0 /\ ~(s.at > Len(bs)) => g[s.at][depth + s.v] \in R
      <4>1. s.at >= 0 /\ ~(s.at > Len(bs)) => s.at \in 0 .. n
        BY <1>1, <2>6
      <4> QED
        BY <2>6, <4>1
    <3> HIDE DEF R
    <3> QED
      BY <2>3, <2>4, <2>6, <3>1, <3>2
  <2> QED
    BY <2>2, <2>5, <2>6
<1>4. step \in [F -> F]
  <2> HIDE DEF R, n
  <2> QED
    BY <1>3
<1>5. LooksUp(step, S, n)
  <2> SUFFICES ASSUME NEW f \in F, NEW g \in F, NEW i \in 0 .. n,
                      \A j \in i + 1 .. n : f[j] = g[j]
               PROVE  step[f][i] = step[g][i]
    BY DEF LooksUp
  <2>1. ASSUME NEW depth \in Nat
        PROVE  SkipFrom(bs, f, i, depth) = SkipFrom(bs, g, i, depth)
    <3> DEFINE s == SkipOne(bs, i, depth)
    <3>1. \/ s = Failed
          \/ s.at \in Int /\ (s.at < 0 \/ s.at > i)
      BY <1>1, SkipOneType
    <3>2. s.st = "ok" /\ ~(s.at < 0) /\ ~(s.at > Len(bs)) => s.at \in i + 1 .. n
      BY <1>1, <3>1 DEF Failed
    <3> HIDE DEF s, n
    <3>3. s.st = "ok" /\ ~(s.at < 0) /\ ~(s.at > Len(bs)) => f[s.at] = g[s.at]
      BY <3>2
    <3> QED
      BY <3>3 DEF SkipFrom, s
  <2>2. step[f][i] = [depth \in Nat |-> SkipFrom(bs, f, i, depth)]
    <3> HIDE DEF F, n
    <3> QED
      OBVIOUS
  <2>3. step[g][i] = [depth \in Nat |-> SkipFrom(bs, g, i, depth)]
    <3> HIDE DEF F, n
    <3> QED
      OBVIOUS
  <2> QED
    BY <2>1, <2>2, <2>3
<1>6. PICK f \in F : f = step[f]
  <2>1. S # {}
    <3>1. [d \in Nat |-> Failed] \in S
      BY DEF Result
    <3> QED
      BY <3>1
  <2> HIDE DEF S, n, step
  <2> QED
    BY <1>1, <1>4, <1>5, <2>1, RecursionDown
<1>7. f = Rec(f)
  <2> HIDE DEF F
  <2> QED
    BY <1>6
<1>8. w = Rec(w)
  BY <1>7
<1>9. Skip(bs) = w[0][0]
  BY DEF Skip, Then, SkipFrom
<1> HIDE DEF w
<1>10. Skips(w, bs)
  <2>1. ASSUME NEW i \in 0 .. n, NEW depth \in Nat
        PROVE  Rec(w)[i][depth] = SkipFrom(bs, w, i, depth)
    <3> HIDE DEF n
    <3> QED
      OBVIOUS
  <2> HIDE DEF Rec
  <2> QED
    BY <1>8, <2>1 DEF Skips
<1> QED
  BY <1>9, <1>10

(* Skipping from an index ends behind it.                                  *)
LEMMA SkipsForward ==
  ASSUME NEW bs \in Bytes, Fits(bs), NEW skip, Skips(skip, bs)
  PROVE  \A i \in 0 .. Len(bs) : \A depth \in Nat :
           \/ skip[i][depth] = Failed
           \/ \E m \in i + 1 .. Half - 1 : skip[i][depth] = Ok(m, m)
<1> DEFINE n == Len(bs)
           Fine(i, depth) == \/ skip[i][depth] = Failed
                             \/ \E m \in i + 1 .. Half - 1 : skip[i][depth] = Ok(m, m)
           P == {i \in 0 .. n : \A depth \in Nat : Fine(i, depth)}
<1>1. n \in Nat
  BY DEF Bytes
<1>2. Half \in Nat
  BY Words
<1>3. ASSUME NEW i \in 0 .. n, \A j \in i + 1 .. n : j \in P
      PROVE  i \in P
  <2> SUFFICES ASSUME NEW depth \in Nat
               PROVE  Fine(i, depth)
    OBVIOUS
  <2> DEFINE s == SkipOne(bs, i, depth)
             r == skip[i][depth]
  <2>1. \/ s = Failed
        \/ /\ s.st = "ok" /\ depth + s.v \in Nat /\ s.at \in Int /\ s.at < Half
           /\ s.at < 0 \/ s.at > i
    BY <1>1, SkipOneType
  <2>2. r = SkipFrom(bs, skip, i, depth)
    BY DEF Skips
  <2>3. r = IF i = n THEN Failed
            ELSE IF s.st # "ok" THEN s
            ELSE IF s.at < 0 THEN Failed
            ELSE IF depth + s.v = 0 THEN Ok(s.at, s.at)
            ELSE IF s.at > n THEN Failed
            ELSE skip[s.at][depth + s.v]
    BY <2>2 DEF SkipFrom
  <2> HIDE DEF s, n, P
  <2>4. CASE s = Failed \/ i = n
    BY <2>3, <2>4 DEF Failed
  <2>5. CASE /\ i # n /\ s.st = "ok" /\ depth + s.v \in Nat /\ s.at \in Int /\ s.at < Half
             /\ s.at < 0 \/ s.at > i
    <3>1. CASE s.at < 0
      BY <2>3, <2>5, <3>1
    <3>2. CASE ~(s.at < 0) /\ depth + s.v = 0
      <4>1. s.at \in i + 1 .. Half - 1
        BY <1>1, <1>2, <2>5, <3>2
      <4> QED
        BY <2>3, <2>5, <3>2, <4>1
    <3>3. CASE ~(s.at < 0) /\ depth + s.v # 0 /\ s.at > n
      BY <2>3, <2>5, <3>3
    <3>4. CASE ~(s.at < 0) /\ depth + s.v # 0 /\ ~(s.at > n)
      <4>1. s.at \in i + 1 .. n
        BY <1>1, <2>5, <3>4
      <4>2. Fine(s.at, depth + s.v)
        BY <1>3, <2>5, <4>1 DEF P
      <4>3. r = skip[s.at][depth + s.v]
        BY <2>3, <2>5, <3>4
      <4>4. \A m \in s.at + 1 .. Half - 1 : m \in i + 1 .. Half - 1
        BY <1>1, <1>2, <4>1
      <4> QED
        BY <4>2, <4>3, <4>4
    <3> QED
      BY <3>1, <3>2, <3>3, <3>4
  <2> QED
    BY <2>1, <2>4, <2>5
<1>4. \A i \in 0 .. n : i \in P
  <2> HIDE DEF P, n
  <2>1. Descends(P, n)
    BY <1>3 DEF Descends
  <2> QED
    BY <1>1, <2>1, InductionDown
<1> QED
  BY <1>4

(* A field that ends within the bytes two buffers share is in both.        *)
LEMMA SkipsSame ==
  ASSUME NEW a \in Bytes, Fits(a), NEW c \in Bytes, Fits(c),
         NEW n \in Nat, Matches(a, 0, c, 0, n),
         NEW sa, Skips(sa, a), NEW sc, Skips(sc, c)
  PROVE  \A i \in 0 .. Len(a) : \A depth \in Nat :
           sa[i][depth].st = "ok" /\ sa[i][depth].at <= n => sc[i][depth] = sa[i][depth]
<1> DEFINE l == Len(a)
           Fine(i, depth) == sa[i][depth].st = "ok" /\ sa[i][depth].at <= n
                               => sc[i][depth] = sa[i][depth]
           P == {i \in 0 .. l : \A depth \in Nat : Fine(i, depth)}
<1>1. l \in Nat /\ Len(c) \in Nat /\ n <= l /\ n <= Len(c)
  BY DEF Bytes, Matches
<1>2. Half \in Nat
  BY Words
<1>3. ASSUME NEW i \in 0 .. l, \A j \in i + 1 .. l : j \in P
      PROVE  i \in P
  <2> SUFFICES ASSUME NEW depth \in Nat, sa[i][depth].st = "ok", sa[i][depth].at <= n
               PROVE  sc[i][depth] = sa[i][depth]
    OBVIOUS
  <2> DEFINE s == SkipOne(a, i, depth)
             r == sa[i][depth]
  <2>1. \/ s = Failed
        \/ /\ s.st = "ok" /\ depth + s.v \in Nat /\ s.at \in Int /\ s.at < Half
           /\ s.at < 0 \/ s.at > i
    BY <1>1, SkipOneType
  <2>2. r = SkipFrom(a, sa, i, depth)
    BY DEF Skips
  <2>3. PICK m \in i + 1 .. Half - 1 : r = Ok(m, m)
    BY SkipsForward DEF Failed
  <2>4. r.at = m /\ m <= n /\ i < n /\ i # l /\ i # Len(c) /\ i \in 0 .. Len(c) /\ i \in Nat
    <3>1. r.at = m
      BY <2>3 DEF Ok
    <3> HIDE DEF r
    <3> QED
      BY <1>1, <1>2, <2>3, <3>1 DEF r
  <2>5. sc[i][depth] = SkipFrom(c, sc, i, depth)
    BY <2>4 DEF Skips
  <2>6. /\ s.st = "ok" /\ ~(s.at < 0) /\ s.at \in Int /\ s.at > i
        /\ depth + s.v \in Nat
        /\ r = IF depth + s.v = 0 THEN Ok(s.at, s.at)
               ELSE IF s.at > l THEN Failed ELSE sa[s.at][depth + s.v]
    <3>1. r = IF i = l THEN Failed
              ELSE IF s.st # "ok" THEN s
              ELSE IF s.at < 0 THEN Failed
              ELSE IF depth + s.v = 0 THEN Ok(s.at, s.at)
              ELSE IF s.at > l THEN Failed
              ELSE sa[s.at][depth + s.v]
      BY <2>2 DEF SkipFrom
    <3> HIDE DEF s, l, r
    <3>2. r.st = "ok"
      BY <2>3 DEF Ok
    <3>3. i # l /\ s # Failed /\ s.st = "ok" /\ ~(s.at < 0)
      BY <2>1, <2>4, <3>1, <3>2 DEF Failed
    <3> QED
      BY <2>1, <3>1, <3>3
  <2>7. SkipOne(c, i, depth) = s /\ s.at <= n
    <3>1. s.at <= n
      <4>1. CASE depth + s.v = 0
        BY <2>4, <2>6, <4>1 DEF Ok
      <4>2. CASE depth + s.v # 0
        <5>1. ~(s.at > l) /\ r = sa[s.at][depth + s.v]
          BY <2>3, <2>6, <4>2 DEF Ok, Failed
        <5>2. s.at \in 0 .. l
          BY <1>1, <2>4, <2>6, <5>1
        <5>3. PICK k \in s.at + 1 .. Half - 1 : r = Ok(k, k)
          <6>1. r # Failed
            BY <2>3 DEF Ok, Failed
          <6> DEFINE x == s.at
                     d == depth + s.v
          <6>2. x \in 0 .. Len(a) /\ d \in Nat /\ r = sa[x][d]
            BY <2>6, <5>1, <5>2
          <6> HIDE DEF x, d, r
          <6>3. r = Failed \/ \E k \in x + 1 .. Half - 1 : r = Ok(k, k)
            BY <6>2, SkipsForward
          <6> QED
            BY <6>1, <6>3 DEF x
        <5>4. k = m
          BY <2>3, <5>3 DEF Ok
        <5> QED
          BY <1>1, <1>2, <2>4, <2>6, <5>2, <5>3, <5>4
      <4> QED
        BY <4>1, <4>2
    <3>2. s.at >= 0
      BY <2>6
    <3> QED
      BY <2>4, <2>6, <3>1, <3>2, SkipOneSame
  <2>8. sc[i][depth] = IF depth + s.v = 0 THEN Ok(s.at, s.at)
                       ELSE IF s.at > Len(c) THEN Failed ELSE sc[s.at][depth + s.v]
    <3> HIDE DEF s
    <3> QED
      BY <2>4, <2>5, <2>6, <2>7 DEF SkipFrom
  <2>9. CASE depth + s.v = 0
    BY <2>6, <2>8, <2>9
  <2>10. CASE depth + s.v # 0
    <3>1. ~(s.at > l) /\ r = sa[s.at][depth + s.v]
      BY <2>3, <2>6, <2>10 DEF Ok, Failed
    <3>2. s.at \in i + 1 .. l /\ ~(s.at > Len(c))
      BY <1>1, <2>4, <2>6, <2>7, <3>1
    <3>3. Fine(s.at, depth + s.v)
      <4> HIDE DEF Fine, s, l
      <4> QED
        BY <1>3, <2>6, <3>2
    <3>4. sc[s.at][depth + s.v] = r
      BY <2>3, <2>4, <3>1, <3>3
    <3> QED
      BY <2>8, <2>10, <3>2, <3>4
  <2> QED
    BY <2>9, <2>10
<1>4. \A i \in 0 .. l : i \in P
  <2> HIDE DEF P, l
  <2>1. Descends(P, l)
    BY <1>3 DEF Descends
  <2> QED
    BY <1>1, <2>1, InductionDown
<1> QED
  BY <1>4

(* What Skip returns.                                                      *)
LEMMA SkipIs ==
  ASSUME NEW bs \in Bytes, Fits(bs)
  PROVE  Skip(bs) = Failed \/ \E m \in 1 .. Half - 1 : Skip(bs) = Ok(m, m)
<1>1. PICK skip : Skips(skip, bs) /\ Skip(bs) = skip[0][0]
  BY SkipRuns
<1> DEFINE z == 0
<1>2. z \in 0 .. Len(bs) /\ z \in Nat /\ z = 0
  BY DEF Bytes
<1>3. \/ skip[z][z] = Failed
      \/ \E m \in z + 1 .. Half - 1 : skip[z][z] = Ok(m, m)
  <2> HIDE DEF z
  <2> QED
    BY <1>1, <1>2, SkipsForward
<1> QED
  BY <1>1, <1>3

(* Skip does the same on buffers that start the same.                      *)
LEMMA SkipSame ==
  ASSUME NEW a \in Bytes, Fits(a), NEW c \in Bytes, Fits(c),
         NEW n \in Nat, Matches(a, 0, c, 0, n), Skip(a).st = "ok", Skip(a).at <= n
  PROVE  Skip(c) = Skip(a)
<1>1. PICK sa : Skips(sa, a) /\ Skip(a) = sa[0][0]
  BY SkipRuns
<1>2. PICK sc : Skips(sc, c) /\ Skip(c) = sc[0][0]
  BY SkipRuns
<1> DEFINE z == 0
<1>3. z \in 0 .. Len(a) /\ z \in Nat /\ z = 0
  BY DEF Bytes
<1>4. sa[z][z].st = "ok" /\ sa[z][z].at <= n
  BY <1>1
<1>5. sc[z][z] = sa[z][z]
  <2> HIDE DEF z
  <2>1. \A i \in 0 .. Len(a) : \A depth \in Nat :
          sa[i][depth].st = "ok" /\ sa[i][depth].at <= n => sc[i][depth] = sa[i][depth]
    BY <1>1, <1>2, SkipsSame
  <2> QED
    BY <1>3, <1>4, <2>1
<1> QED
  BY <1>1, <1>2, <1>5

-----------------------------------------------------------------------------
(* Fields.                                                                 *)

(* Part of a buffer.                                                       *)
LEMMA PartIs ==
  ASSUME NEW bs \in Bytes, NEW i \in Nat, NEW j \in Nat, i <= j, j <= Len(bs)
  PROVE  /\ SubSeq(bs, i + 1, j) \in Bytes /\ Len(SubSeq(bs, i + 1, j)) = j - i
         /\ \A k \in 1 .. j - i : SubSeq(bs, i + 1, j)[k] = bs[i + k]
<1>1. Len(bs) \in Nat /\ \A k \in 1 .. Len(bs) : bs[k] \in Byte
  BY DEF Bytes
<1>2. i + 1 \in Int /\ j \in Int
  OBVIOUS
<1> DEFINE part == SubSeq(bs, i + 1, j)
<1>3. Len(part) = j - i
  BY <1>1 DEF Bytes
<1>4. \A k \in 1 .. j - i : part[k] = bs[i + k]
  BY <1>1 DEF Bytes
<1>5. part \in Bytes
  BY <1>1 DEF Bytes
<1> QED
  BY <1>3, <1>4, <1>5

(* A shorter buffer fits if a longer one does.                             *)
LEMMA ShorterFits ==
  ASSUME NEW a, Len(a) \in Nat, NEW b, Len(b) \in Nat, Fits(b), Len(a) <= Len(b)
  PROVE  Fits(a)
<1>1. Half \in Nat
  BY Words
<1> QED
  BY <1>1 DEF Fits, Half

(* The wire types of a message's fields.                                   *)
IsTable(wt) == DOMAIN wt \subseteq Nat \ {0} /\ \A n \in DOMAIN wt : wt[n] \in {0, 2}
ValueSet(w) == IF w = 0 THEN 0 .. Full - 1 ELSE Bytes

(* A field that is not known is kept whole.                                *)
LEMMA UnknownIs ==
  ASSUME NEW bs \in Bytes, Fits(bs), NEW i \in Nat, i <= Len(bs)
  PROVE  \/ Unknown(bs, i) = Failed
         \/ \E m \in 1 .. Half - 1 :
              /\ Skip(SubSeq(bs, i + 1, Len(bs))) = Ok(m, m) /\ i + m <= Len(bs)
              /\ Unknown(bs, i) = Ok(SubSeq(bs, i + 1, i + m), i + m)
<1> DEFINE rest == SubSeq(bs, i + 1, Len(bs))
           n == Len(bs)
<1>1. n \in Nat /\ n < Half /\ Half \in Nat /\ Full = 2 * Half
  BY Words DEF Bytes, Fits, Half
<1>2. rest \in Bytes /\ Len(rest) = n - i
  BY <1>1, PartIs
<1>3. Fits(rest)
  <2>1. Len(rest) \in Nat /\ Len(bs) \in Nat /\ Len(rest) <= Len(bs)
    BY <1>1, <1>2
  <2> HIDE DEF rest, n
  <2> QED
    BY <2>1, ShorterFits
<1>4. Skip(rest) = Failed \/ \E m \in 1 .. Half - 1 : Skip(rest) = Ok(m, m)
  BY <1>2, <1>3, SkipIs
<1>5. CASE Skip(rest) = Failed
  BY <1>5 DEF Unknown, Then, Failed
<1>6. ASSUME NEW m \in 1 .. Half - 1, Skip(rest) = Ok(m, m)
      PROVE  \/ Unknown(bs, i) = Failed
             \/ i + m <= n /\ Unknown(bs, i) = Ok(SubSeq(bs, i + 1, i + m), i + m)
  <2>1. Unknown(bs, i) = IF GoInt(i + m) \notin 0 .. n THEN Failed ELSE Slice(bs, i, i + m)
    BY <1>6 DEF Unknown, Then, Ok
  <2>2. i \in 0 .. Half - 1 /\ m \in 0 .. Half - 1
    BY <1>1
  <2>3. GoInt(i + m) = (IF i + m < Half THEN i + m ELSE i + m - Full) /\ i + m - Full < 0
    BY <2>2, GoIntSum
  <2> HIDE DEF n, rest
  <2>4. CASE i + m > n
    <3>1. GoInt(i + m) \notin 0 .. n
      BY <1>1, <2>2, <2>3, <2>4
    <3> QED
      BY <2>1, <3>1
  <2>5. CASE i + m <= n
    <3>1. GoInt(i + m) = i + m /\ i + m \in 0 .. n /\ i <= i + m
      BY <1>1, <2>2, <2>3, <2>5
    <3>2. Slice(bs, i, i + m) = Ok(SubSeq(bs, i + 1, i + m), i + m)
      BY <1>1, <2>2, <2>5, <3>1 DEF Slice, n
    <3> QED
      BY <2>1, <2>5, <3>1, <3>2
  <2> QED
    BY <1>1, <2>2, <2>4, <2>5
<1> QED
  BY <1>4, <1>5, <1>6

(* What a field is when it is read.                                        *)
FieldRead(wt, bs, i, f) ==
  /\ f = [st |-> "ok", num |-> f.num, v |-> f.v, at |-> f.at]
  /\ f.num \in Nat \ {0} /\ f.at \in i + 1 .. Len(bs)
  /\ f.num \in DOMAIN wt => f.v \in ValueSet(wt[f.num])
  /\ f.num \in DOMAIN wt /\ wt[f.num] = 2 => Len(f.v) < f.at - i
  /\ f.num \notin DOMAIN wt => f.v = SubSeq(bs, i + 1, f.at)

FieldNum(tag) == Signed((tag.v \div 8) % Pow2[NumBits], NumBits)

(* The number of a field is an integer.                                    *)
LEMMA FieldNumType ==
  ASSUME NEW tag, tag.v \in Nat
  PROVE  FieldNum(tag) \in Int
<1> DEFINE w == Pow2[NumBits]
           h == Pow2[NumBits - 1]
<1>1. w \in Nat /\ h \in Nat /\ w > 0
  BY Words
<1>2. \A v, p \in Nat : p > 0 => (v \div 8) % p \in Nat
  OBVIOUS
<1>3. (tag.v \div 8) % w \in Nat
  BY <1>1, <1>2
<1>4. FieldNum(tag) = IF (tag.v \div 8) % w < h THEN (tag.v \div 8) % w
    ELSE ((tag.v \div 8) % w) - w
  BY DEF FieldNum, Signed
<1> HIDE DEF w, h
<1> QED
  BY <1>1, <1>3, <1>4

(* A field is read, inside the buffer, or it is an error.                  *)
LEMMA FieldType ==
  ASSUME NEW wt, IsTable(wt), NEW bs \in Bytes, Fits(bs), NEW i \in Nat, i <= Len(bs)
  PROVE  Field(wt, bs, i) = Failed \/ FieldRead(wt, bs, i, Field(wt, bs, i))
<1> DEFINE tag == ReadVarint(bs, i)
           num == FieldNum(tag)
           f == Field(wt, bs, i)
<1>1. Len(bs) \in Nat
  BY DEF Bytes
<1>2. CASE tag = Failed
  BY <1>2 DEF Field, Then, Failed
<1>3. CASE tag.st = "ok" /\ tag.v \in 0 .. Full - 1 /\ tag.at \in i + 1 .. Len(bs)
  <2>1. tag.v \in Nat /\ tag.at \in Nat
    BY <1>1, <1>3, Words
  <2> DEFINE r == IF num \in DOMAIN wt THEN Known(bs, tag, wt[num]) ELSE Unknown(bs, i)
  <2>2. f = IF tag.v % 8 = 4 \/ num <= 0 THEN Failed
            ELSE IF r.st = "ok" THEN [st |-> "ok", num |-> num, v |-> r.v, at |-> r.at] ELSE r
    BY <1>3 DEF Field, Then, FieldNum
  <2>3. num \in Int
    BY <2>1, FieldNumType
  <2> HIDE DEF num, r
  <2>4. CASE tag.v % 8 = 4 \/ num <= 0
    BY <2>2, <2>4
  <2>5. CASE ~(tag.v % 8 = 4 \/ num <= 0) /\ num \in DOMAIN wt
    <3>1. num \in Nat \ {0} /\ wt[num] \in {0, 2}
      BY <2>3, <2>5 DEF IsTable
    <3>2. r = Known(bs, tag, wt[num])
      BY <2>5 DEF r
    <3>3. CASE wt[num] = 0
      <4> DEFINE n == ReadVarint(bs, tag.at)
      <4>1. r = Failed \/ r = n
        BY <3>2, <3>3 DEF Known
      <4>2. n = Failed \/ (n.st = "ok" /\ n.v \in 0 .. Full - 1 /\ n.at \in tag.at + 1 .. Len(bs))
        BY <2>1, ReadVarintType
      <4> HIDE DEF n, f
      <4>3. CASE r = Failed
        BY <2>2, <4>3 DEF Failed, f
      <4>4. CASE r.st = "ok" /\ r.v \in 0 .. Full - 1 /\ r.at \in tag.at + 1 .. Len(bs)
        <5>1. f = [st |-> "ok", num |-> num, v |-> r.v, at |-> r.at]
          BY <2>2, <2>5, <4>4
        <5>2. r.at \in i + 1 .. Len(bs)
          BY <1>1, <1>3, <4>4
        <5>3. r.v \in ValueSet(wt[num]) /\ wt[num] # 2
          BY <3>3, <4>4 DEF ValueSet
        <5>4. FieldRead(wt, bs, i, f)
          BY <2>5, <3>1, <5>1, <5>2, <5>3 DEF FieldRead
        <5> QED
          BY <5>4 DEF f
      <4> QED
        BY <4>1, <4>2, <4>3, <4>4
    <3>4. CASE wt[num] = 2
      <4> DEFINE n == ReadVarint(bs, tag.at)
                 l == GoInt(n.v)
      <4>1. r = Failed \/ r = ReadBytes(bs, tag.at)
        BY <3>2, <3>4 DEF Known
      <4>2. \/ ReadBytes(bs, tag.at) = Failed
            \/ /\ n.st = "ok" /\ n.at \in tag.at + 1 .. Len(bs) /\ l \in Nat
               /\ n.at + l <= Len(bs)
               /\ ReadBytes(bs, tag.at) = Ok(SubSeq(bs, n.at + 1, n.at + l), n.at + l)
        BY <2>1, ReadBytesIs
      <4> HIDE DEF n, f, l
      <4>3. CASE r = Failed
        BY <2>2, <4>3 DEF Failed, f
      <4>4. CASE /\ n.at \in tag.at + 1 .. Len(bs) /\ l \in Nat
                 /\ n.at + l <= Len(bs)
                 /\ r = Ok(SubSeq(bs, n.at + 1, n.at + l), n.at + l)
        <5> DEFINE p == n.at
                   q == n.at + l
        <5>1. p \in Nat /\ q \in Nat /\ p <= q /\ q <= Len(bs) /\ q - p = l
          BY <1>1, <2>1, <4>4
        <5>2. SubSeq(bs, p + 1, q) \in Bytes /\ Len(SubSeq(bs, p + 1, q)) = q - p
          <6> HIDE DEF p, q
          <6> QED
            BY <5>1, PartIs
        <5>3. r.st = "ok" /\ r.v = SubSeq(bs, p + 1, q) /\ r.at = q
          BY <4>4 DEF Ok
        <5>4. f = [st |-> "ok", num |-> num, v |-> r.v, at |-> r.at]
          BY <2>2, <2>5, <5>3
        <5>5. r.at \in i + 1 .. Len(bs) /\ Len(r.v) < r.at - i
          <6>1. i < tag.at /\ tag.at < p /\ tag.at \in Nat
            BY <1>1, <1>3, <2>1, <4>4
          <6>2. Len(r.v) = q - p /\ r.at = q
            BY <5>2, <5>3
          <6> HIDE DEF p, q, tag
          <6> QED
            BY <1>1, <5>1, <6>1, <6>2
        <5>6. r.v \in ValueSet(wt[num])
          BY <3>4, <5>2, <5>3 DEF ValueSet
        <5>7. FieldRead(wt, bs, i, f)
          BY <2>5, <3>1, <5>4, <5>5, <5>6 DEF FieldRead
        <5> QED
          BY <5>7 DEF f
      <4> QED
        BY <4>1, <4>2, <4>3, <4>4
    <3> QED
      BY <3>1, <3>3, <3>4
  <2>6. CASE ~(tag.v % 8 = 4 \/ num <= 0) /\ num \notin DOMAIN wt
    <3>1. r = Unknown(bs, i) /\ num \in Nat \ {0}
      BY <2>3, <2>6 DEF r
    <3>2. \/ r = Failed
          \/ \E m \in 1 .. Half - 1 : i + m <= Len(bs) /\ r = Ok(SubSeq(bs, i + 1, i + m), i + m)
      BY <3>1, UnknownIs
    <3> HIDE DEF f
    <3>3. CASE r = Failed
      BY <2>2, <3>3 DEF Failed, f
    <3>4. ASSUME NEW m \in 1 .. Half - 1, i + m <= Len(bs), r = Ok(SubSeq(bs, i + 1, i + m), i + m)
          PROVE  FieldRead(wt, bs, i, f)
      <4>1. i + m \in i + 1 .. Len(bs)
        BY <1>1, <3>4, Words
      <4>2. f = [st |-> "ok", num |-> num, v |-> SubSeq(bs, i + 1, i + m), at |-> i + m]
        BY <2>2, <2>6, <3>4 DEF Ok
      <4> QED
        BY <2>6, <3>1, <4>1, <4>2 DEF FieldRead
    <3> QED
      BY <3>2, <3>3, <3>4 DEF f
  <2> QED
    BY <2>4, <2>5, <2>6
<1> QED
  BY <1>2, <1>3, ReadVarintType

(* The tag of a field that is skipped is inside the bytes skipped.         *)
LEMMA SkipBehindTag ==
  ASSUME NEW bs \in Bytes, Fits(bs), NEW m \in 1 .. Half - 1, Skip(bs) = Ok(m, m)
  PROVE  ReadVarint(bs, 0).st = "ok" /\ ReadVarint(bs, 0).at <= m
<1> DEFINE z == 0
           n == Len(bs)
           s == SkipOne(bs, z, z)
           tag == ReadVarint(bs, z)
<1>0. z \in Nat /\ z \in 0 .. n /\ z = 0 /\ n \in Nat /\ Half \in Nat
  BY Words DEF Bytes
<1>1. PICK skip : Skips(skip, bs) /\ Skip(bs) = skip[z][z]
  BY SkipRuns
<1> DEFINE r == skip[z][z]
<1>2. r = Ok(m, m)
  BY <1>1
<1>3. r = SkipFrom(bs, skip, z, z)
  <2> HIDE DEF z
  <2> QED
    BY <1>0, <1>1 DEF Skips
<1>4. r = IF z = n THEN Failed
          ELSE IF s.st # "ok" THEN s
          ELSE IF s.at < 0 THEN Failed
          ELSE IF z + s.v = 0 THEN Ok(s.at, s.at)
          ELSE IF s.at > n THEN Failed
          ELSE skip[s.at][z + s.v]
  <2> HIDE DEF z
  <2> QED
    BY <1>3 DEF SkipFrom
<1>5. \/ s = Failed
      \/ /\ s.st = "ok" /\ z + s.v \in Nat /\ s.at \in Int
         /\ s.at < 0 \/ s.at > z
         /\ tag.st = "ok"
         /\ s.at < 0 \/ s.at >= tag.at
  <2> HIDE DEF z
  <2> QED
    BY <1>0, SkipOneType
<1> HIDE DEF z, n, s, r
<1>6. r.st = "ok" /\ r.at = m
  BY <1>2 DEF Ok
<1>7. s.st = "ok" /\ ~(s.at < 0) /\ z # n /\ s # Failed
  BY <1>4, <1>5, <1>6 DEF Failed
<1>8. tag.st = "ok" /\ s.at >= tag.at /\ s.at \in Int /\ z + s.v \in Nat /\ s.at > z
  BY <1>5, <1>7
<1>9. s.at <= m
  <2>1. CASE z + s.v = 0
    BY <1>4, <1>6, <1>7, <2>1 DEF Ok
  <2>2. CASE z + s.v # 0
    <3>1. ~(s.at > n) /\ r = skip[s.at][z + s.v]
      BY <1>4, <1>6, <1>7, <2>2 DEF Failed
    <3> DEFINE x == s.at
               d == z + s.v
    <3>2. x \in 0 .. Len(bs) /\ d \in Nat
      BY <1>0, <1>8, <3>1 DEF n
    <3> HIDE DEF x, d
    <3>3. skip[x][d] = Failed \/ \E k \in x + 1 .. Half - 1 : skip[x][d] = Ok(k, k)
      BY <1>1, <3>2, SkipsForward
    <3>4. r = skip[x][d]
      BY <3>1 DEF x, d
    <3>5. PICK k \in x + 1 .. Half - 1 : r = Ok(k, k)
      BY <1>6, <3>3, <3>4 DEF Failed
    <3>6. k = m
      BY <1>6, <3>5 DEF Ok
    <3> QED
      BY <1>0, <3>2, <3>5, <3>6 DEF x
  <2> QED
    BY <2>1, <2>2
<1>10. tag.at \in Int
  <2>1. z \in Nat /\ tag = ReadVarint(bs, z)
    BY <1>0
  <2>2. tag.at \in z + 1 .. Len(bs)
    BY <1>8, <2>1, ReadVarintType DEF Failed
  <2> QED
    BY <1>0, <2>2
<1> QED
  BY <1>8, <1>9, <1>10 DEF z

(* What is in common.                                                      *)
Part(bs, i, n) == SubSeq(bs, i + 1, i + n)

(* Bytes that are the same are the same part.                              *)
LEMMA PartMatches ==
  ASSUME NEW a \in Bytes, NEW c \in Bytes, NEW i \in Nat, NEW k \in Nat, NEW n \in Nat,
         Matches(a, i, c, k, n)
  PROVE  Part(a, i, n) = Part(c, k, n)
<1> DEFINE p == SubSeq(a, i + 1, i + n)
           q == SubSeq(c, k + 1, k + n)
<1>1. i + n <= Len(a) /\ k + n <= Len(c) /\ \A j \in 1 .. n : a[i + j] = c[k + j]
  BY DEF Matches
<1>2. i + n \in Nat /\ k + n \in Nat /\ i <= i + n /\ k <= k + n
      /\ (i + n) - i = n /\ (k + n) - k = n
  OBVIOUS
<1>3. p \in Bytes /\ Len(p) = n /\ \A j \in 1 .. n : p[j] = a[i + j]
  <2> DEFINE e == i + n
  <2>1. e \in Nat /\ i <= e /\ e <= Len(a) /\ e - i = n
    BY <1>1, <1>2
  <2>2. SubSeq(a, i + 1, e) \in Bytes /\ Len(SubSeq(a, i + 1, e)) = e - i
        /\ \A j \in 1 .. e - i : SubSeq(a, i + 1, e)[j] = a[i + j]
    <3> HIDE DEF e
    <3> QED
      BY <2>1, PartIs
  <2> QED
    BY <2>1, <2>2
<1>4. q \in Bytes /\ Len(q) = n /\ \A j \in 1 .. n : q[j] = c[k + j]
  <2> DEFINE e == k + n
  <2>1. e \in Nat /\ k <= e /\ e <= Len(c) /\ e - k = n
    BY <1>1, <1>2
  <2>2. SubSeq(c, k + 1, e) \in Bytes /\ Len(SubSeq(c, k + 1, e)) = e - k
        /\ \A j \in 1 .. e - k : SubSeq(c, k + 1, e)[j] = c[k + j]
    <3> HIDE DEF e
    <3> QED
      BY <2>1, PartIs
  <2> QED
    BY <2>1, <2>2
<1> HIDE DEF p, q
<1>5. \A j \in 1 .. n : p[j] = q[j]
  BY <1>1, <1>3, <1>4
<1>6. p \in Seq(Byte) /\ q \in Seq(Byte) /\ Len(p) = Len(q) /\ \A j \in 1 .. Len(p) : p[j] = q[j]
  BY <1>3, <1>4, <1>5 DEF Bytes
<1>7. p = q
  BY <1>6
<1> QED
  BY <1>7 DEF p, q, Part

(* What is behind the tag.                                                 *)
LEMMA FieldIs ==
  ASSUME NEW wt, NEW bs, NEW i, NEW tag, tag = ReadVarint(bs, i), tag.st = "ok",
         NEW r, r = IF FieldNum(tag) \in DOMAIN wt THEN Known(bs, tag, wt[FieldNum(tag)])
                    ELSE Unknown(bs, i)
  PROVE  Field(wt, bs, i) =
           IF tag.v % 8 = 4 \/ FieldNum(tag) <= 0 THEN Failed
           ELSE IF r.st = "ok" THEN [st |-> "ok", num |-> FieldNum(tag), v |-> r.v, at |-> r.at]
           ELSE r
BY DEF Field, Then, FieldNum

(* The parts of a result.                                                  *)
LEMMA OkParts ==
  ASSUME NEW v, NEW at, NEW r, r = Ok(v, at)
  PROVE  r.st = "ok" /\ r.v = v /\ r.at = at
BY DEF Ok

(* An unknown field that ends inside the buffer.                           *)
LEMMA UnknownKept ==
  ASSUME NEW bs \in Bytes, Fits(bs), NEW i \in Nat, NEW m \in 1 .. Half - 1,
         i + m <= Len(bs), Skip(SubSeq(bs, i + 1, Len(bs))) = Ok(m, m)
  PROVE  Unknown(bs, i) = Ok(SubSeq(bs, i + 1, i + m), i + m)
<1> DEFINE n == Len(bs)
           rest == SubSeq(bs, i + 1, n)
<1>1. n \in Nat /\ n < Half /\ Half \in Nat /\ Full = 2 * Half
  BY Words DEF Bytes, Fits, Half
<1>2. Unknown(bs, i) = IF GoInt(i + m) \notin 0 .. n THEN Failed ELSE Slice(bs, i, i + m)
  <2> DEFINE o == Ok(m, m)
  <2>1. o.st = "ok" /\ o.v = m
    BY OkParts
  <2> HIDE DEF o
  <2>2. Unknown(bs, i) = IF GoInt(i + o.v) \notin 0 .. n THEN Failed ELSE Slice(bs, i, i + o.v)
    BY <2>1 DEF Unknown, Then, o
  <2> QED
    BY <2>1, <2>2
<1>3. i \in 0 .. Half - 1 /\ m \in 0 .. Half - 1
  BY <1>1
<1>4. GoInt(i + m) = (IF i + m < Half THEN i + m ELSE i + m - Full)
  BY <1>3, GoIntSum
<1>5. GoInt(i + m) = i + m /\ i + m \in 0 .. n /\ i <= i + m
  <2>1. i + m < Half
    BY <1>1, <1>3
  <2> QED
    BY <1>1, <1>3, <1>4, <2>1
<1>6. Slice(bs, i, i + m) = Ok(SubSeq(bs, i + 1, i + m), i + m)
  BY <1>1, <1>3, <1>5 DEF Slice
<1> QED
  BY <1>2, <1>5, <1>6

(* The bytes behind an index.                                              *)
Rest(bs, i) == SubSeq(bs, i + 1, Len(bs))

(* They are bytes, as many as there are behind the index.                  *)
LEMMA RestIs ==
  ASSUME NEW bs \in Bytes, Fits(bs), NEW i \in Nat, i <= Len(bs),
         NEW rest, rest = Rest(bs, i)
  PROVE  /\ rest \in Bytes /\ Fits(rest) /\ Len(rest) = Len(bs) - i
         /\ \A k \in 1 .. Len(bs) - i : rest[k] = bs[i + k]
<1>1. Len(bs) \in Nat /\ Len(bs) <= Len(bs)
  BY DEF Bytes
<1>2. rest \in Bytes /\ Len(rest) = Len(bs) - i
      /\ \A k \in 1 .. Len(bs) - i : rest[k] = bs[i + k]
  BY <1>1, PartIs DEF Rest
<1>3. Len(rest) \in Nat /\ Len(rest) <= Len(bs)
  BY <1>1, <1>2
<1>4. Fits(rest)
  BY <1>1, <1>3, ShorterFits
<1> QED
  BY <1>2, <1>4

(* What two buffers share from an index each is shared by what is behind.  *)
LEMMA RestMatches ==
  ASSUME NEW a \in Bytes, Fits(a), NEW c \in Bytes, Fits(c),
         NEW i \in Nat, NEW k \in Nat, NEW n \in Nat, Matches(a, i, c, k, n),
         NEW ra, ra = Rest(a, i), NEW rc, rc = Rest(c, k)
  PROVE  /\ ra \in Bytes /\ Fits(ra) /\ rc \in Bytes /\ Fits(rc)
         /\ Matches(ra, 0, rc, 0, n) /\ Matches(a, i, ra, 0, n)
<1>1. i + n <= Len(a) /\ k + n <= Len(c) /\ \A j \in 1 .. n : a[i + j] = c[k + j]
  BY DEF Matches
<1>2. Len(a) \in Nat /\ Len(c) \in Nat
  BY DEF Bytes
<1>3. i <= Len(a) /\ k <= Len(c) /\ n <= Len(a) - i /\ n <= Len(c) - k
  BY <1>1, <1>2
<1>4. ra \in Bytes /\ Fits(ra) /\ Len(ra) = Len(a) - i
      /\ \A j \in 1 .. Len(a) - i : ra[j] = a[i + j]
  BY <1>3, RestIs
<1>5. rc \in Bytes /\ Fits(rc) /\ Len(rc) = Len(c) - k
      /\ \A j \in 1 .. Len(c) - k : rc[j] = c[k + j]
  BY <1>3, RestIs
<1>6. \A j \in 1 .. n : 0 + j = j /\ ra[j] = a[i + j] /\ rc[j] = c[k + j]
  <2>1. \A j \in 1 .. n : 0 + j = j /\ j \in 1 .. Len(a) - i /\ j \in 1 .. Len(c) - k
    BY <1>2, <1>3
  <2> QED
    BY <1>4, <1>5, <2>1
<1>7. 0 + n <= Len(ra) /\ 0 + n <= Len(rc)
  BY <1>2, <1>3, <1>4, <1>5
<1>8. Matches(ra, 0, rc, 0, n)
  BY <1>1, <1>6, <1>7 DEF Matches
<1>9. Matches(a, i, ra, 0, n)
  BY <1>1, <1>6, <1>7 DEF Matches
<1> QED
  BY <1>4, <1>5, <1>8, <1>9

(* The same value behind the tag, in both buffers.                         *)
LEMMA KnownMatches ==
  ASSUME NEW a \in Bytes, Fits(a), NEW c \in Bytes, Fits(c),
         NEW ta \in [v : Nat, at : Nat], NEW tc \in [v : Nat, at : Nat], ta.v = tc.v,
         NEW n \in Nat, Matches(a, ta.at, c, tc.at, n), NEW w \in {0, 2},
         NEW r, r = Known(a, ta, w), r.st = "ok", r.at <= ta.at + n,
         NEW e, e = r.at - ta.at + tc.at
  PROVE  Known(c, tc, w) = Ok(r.v, e) /\ r.at \in ta.at + 1 .. Len(a)
<1> DEFINE i == ta.at
           k == tc.at
<1>0. i \in Nat /\ k \in Nat /\ Len(a) \in Nat /\ Len(c) \in Nat
      /\ i + n <= Len(a) /\ k + n <= Len(c)
  BY DEF Bytes, Matches
<1>1. ta.v % 8 = w /\ tc.v % 8 = w
  BY DEF Known, Failed
<1>2. CASE w = 0
  <2>1. r = ReadVarint(a, i) /\ Known(c, tc, w) = ReadVarint(c, k)
    BY <1>1, <1>2 DEF Known
  <2> HIDE DEF i, k
  <2>2. r.at \in i + 1 .. Len(a)
    BY <1>0, <2>1, ReadVarintType DEF Failed
  <2>3. ReadVarint(c, k) = Ok(r.v, r.at - i + k)
    BY <1>0, <2>1, ReadVarintMatches DEF i, k
  <2> QED
    BY <2>1, <2>2, <2>3 DEF i, k
<1>3. CASE w = 2
  <2> DEFINE na == ReadVarint(a, i)
             nc == ReadVarint(c, k)
             l == GoInt(na.v)
  <2>1. r = ReadBytes(a, i) /\ Known(c, tc, w) = ReadBytes(c, k)
    BY <1>1, <1>3 DEF Known
  <2> HIDE DEF i, k, l
  <2>2. /\ na.st = "ok" /\ na.at \in i + 1 .. Len(a) /\ l \in Nat /\ na.at + l <= Len(a)
        /\ r = Ok(SubSeq(a, na.at + 1, na.at + l), na.at + l)
    <3> DEFINE nn == ReadVarint(a, i)
    <3>0. nn = ReadVarint(a, i)
      OBVIOUS
    <3> HIDE DEF nn
    <3>1. \/ ReadBytes(a, i) = Failed
          \/ /\ nn.st = "ok" /\ nn.at \in i + 1 .. Len(a) /\ GoInt(nn.v) \in Nat
             /\ nn.at + GoInt(nn.v) <= Len(a)
             /\ ReadBytes(a, i) = Ok(SubSeq(a, nn.at + 1, nn.at + GoInt(nn.v)),
                                     nn.at + GoInt(nn.v))
      BY <1>0, <3>0, ReadBytesIs
    <3> QED
      BY <2>1, <3>0, <3>1 DEF Failed, l
  <2>3. r.at = na.at + l /\ r.v = SubSeq(a, na.at + 1, na.at + l)
    <3> DEFINE part == SubSeq(a, na.at + 1, na.at + l)
               far == na.at + l
    <3>1. r = Ok(part, far)
      BY <2>2
    <3> HIDE DEF part, far
    <3>2. r.at = far /\ r.v = part
      BY <3>1, OkParts
    <3> QED
      BY <3>2 DEF part, far
  <2>4. na.at <= i + n
    <3>1. na.at + l <= i + n /\ na.at \in Nat /\ l \in Nat
      BY <1>0, <2>2, <2>3 DEF i
    <3> HIDE DEF na
    <3> QED
      BY <1>0, <3>1
  <2>5. nc = Ok(na.v, na.at - i + k)
    <3>1. Matches(a, i, c, k, n)
      BY DEF i, k
    <3> QED
      BY <1>0, <2>2, <2>4, <3>1, ReadVarintMatches
  <2> DEFINE p == na.at
             q == p - i + k
             j == p - i
  <2>6. p \in Nat /\ j \in 0 .. n /\ q \in Nat /\ p = i + j /\ q = k + j
    <3>1. \A x \in i + 1 .. Len(a) : x <= i + n =>
            /\ x \in Nat /\ x - i \in 0 .. n /\ x - i + k \in Nat
            /\ x = i + (x - i) /\ x - i + k = k + (x - i)
      BY <1>0
    <3> QED
      BY <2>2, <2>4, <3>1, Zenon
  <2>7. nc.st = "ok" /\ nc.v = na.v /\ nc.at = q
    BY <2>5 DEF Ok
  <2>8. r.at = p + l /\ j + l <= n
    <3>1. r.at = p + l /\ r.at <= i + n
      BY <2>3 DEF i
    <3> HIDE DEF p, j, na
    <3> QED
      BY <1>0, <2>2, <2>6, <3>1
  <2> HIDE DEF na, nc, p, q, j
  <2>9. Matches(a, p, c, q, n - j)
    BY <1>0, <2>6, MatchesBehind DEF i, k
  <2>10. Matches(a, p, c, q, l)
    <3>1. l \in Nat /\ n - j \in Nat /\ l <= n - j
      BY <2>2, <2>6, <2>8
    <3>2. p + l <= Len(a) /\ q + l <= Len(c)
      BY <1>0, <2>6, <3>1
    <3>3. \A x \in 1 .. l : x \in 1 .. n - j
      BY <3>1
    <3> QED
      BY <2>9, <3>2, <3>3 DEF Matches
  <2>11. SubSeq(a, p + 1, p + l) = SubSeq(c, q + 1, q + l)
    <3>1. l \in Nat /\ p \in Nat /\ q \in Nat
      BY <2>2, <2>6
    <3>2. Part(a, p, l) = Part(c, q, l)
      BY <2>10, <3>1, PartMatches
    <3> QED
      BY <3>2 DEF Part
  <2>12. \/ /\ ReadBytes(c, k) = Failed
            /\ nc.st = "ok" => GoInt(nc.v) < 0 \/ nc.at + GoInt(nc.v) > Len(c)
         \/ ReadBytes(c, k) = Ok(SubSeq(c, nc.at + 1, nc.at + GoInt(nc.v)),
                                 nc.at + GoInt(nc.v))
    <3>1. nc = ReadVarint(c, k)
      BY DEF nc
    <3> QED
      BY <1>0, <3>1, ReadBytesIs
  <2>13. GoInt(nc.v) = l
    BY <2>7 DEF l
  <2>14. ~(GoInt(nc.v) < 0 \/ nc.at + GoInt(nc.v) > Len(c))
    BY <1>0, <2>2, <2>6, <2>7, <2>8, <2>13
  <2>15. ReadBytes(c, k) = Ok(SubSeq(c, q + 1, q + l), q + l)
    BY <2>7, <2>12, <2>13, <2>14
  <2>16. r.at - i + k = q + l /\ r.at \in i + 1 .. Len(a)
    <3>1. p + l <= Len(a) /\ p \in i + 1 .. Len(a) /\ l \in Nat
      BY <2>2 DEF p
    <3>2. r.at = p + l
      BY <2>8
    <3> QED
      BY <1>0, <2>6, <3>1, <3>2
  <2>17. r.v = SubSeq(a, p + 1, p + l)
    BY <2>3 DEF p
  <2> QED
    BY <2>1, <2>11, <2>15, <2>16, <2>17 DEF i, k
<1> QED
  BY <1>2, <1>3

(* A field that ends within the bytes two buffers share is in both.        *)
LEMMA FieldMatches ==
  ASSUME NEW wt, IsTable(wt), NEW a \in Bytes, Fits(a), NEW c \in Bytes, Fits(c),
         NEW i \in Nat, NEW k \in Nat, NEW n \in Nat, Matches(a, i, c, k, n),
         NEW f, f = Field(wt, a, i), f.st = "ok", f.at <= i + n,
         NEW e, e = f.at - i + k
  PROVE  Field(wt, c, k) = [st |-> "ok", num |-> f.num, v |-> f.v, at |-> e]
<1> DEFINE ta == ReadVarint(a, i)
           tc == ReadVarint(c, k)
           num == FieldNum(ta)
           j == ta.at - i
           ra == IF num \in DOMAIN wt THEN Known(a, ta, wt[num]) ELSE Unknown(a, i)
           rc == IF num \in DOMAIN wt THEN Known(c, tc, wt[num]) ELSE Unknown(c, k)
<1>0. Len(a) \in Nat /\ Len(c) \in Nat /\ i + n <= Len(a) /\ k + n <= Len(c)
      /\ Half \in Nat /\ Full \in Nat
  BY Words DEF Bytes, Matches
<1>1. ta.st = "ok" /\ ta.v \in 0 .. Full - 1 /\ ta.at \in i + 1 .. Len(a)
  <2>1. CASE ta = Failed
    BY <2>1 DEF Field, Then, Failed
  <2> QED
    BY <2>1, ReadVarintType
<1>2. f = IF ta.v % 8 = 4 \/ num <= 0 THEN Failed
          ELSE IF ra.st = "ok" THEN [st |-> "ok", num |-> num, v |-> ra.v, at |-> ra.at] ELSE ra
  BY <1>1, FieldIs
<1> HIDE DEF ra
<1>3. /\ ~(ta.v % 8 = 4 \/ num <= 0) /\ ra.st = "ok"
      /\ f.num = num /\ f.v = ra.v /\ f.at = ra.at
  BY <1>2 DEF Failed
<1>4. ASSUME ta.at <= i + n
      PROVE  tc.st = "ok" /\ tc.v = ta.v /\ tc.at = j + k /\ tc.at \in Nat
             /\ FieldNum(tc) = num /\ j \in 0 .. n
  <2>1. tc = Ok(ta.v, ta.at - i + k)
    BY <1>1, <1>4, ReadVarintMatches
  <2>2. tc.st = "ok" /\ tc.v = ta.v /\ tc.at = ta.at - i + k
    BY <2>1, OkParts
  <2>3. ta.at - i + k = j + k /\ j + k \in Nat /\ j \in 0 .. n
    <3> DEFINE s == ta.at
    <3>1. s \in Nat /\ s >= i + 1 /\ s <= i + n
      BY <1>0, <1>1, <1>4
    <3> HIDE DEF s
    <3>2. s - i + k \in Nat /\ s - i \in 0 .. n
      BY <3>1
    <3> QED
      BY <3>2 DEF s
  <2> QED
    BY <2>2, <2>3 DEF FieldNum
<1>5. CASE num \in DOMAIN wt
  <2>1. ra = Known(a, ta, wt[num]) /\ wt[num] \in {0, 2}
    BY <1>5 DEF ra, IsTable
  <2>2. ra.at >= ta.at /\ ra.at \in Int
    <3>1. ta.at \in Nat /\ Len(a) \in Nat
      BY <1>0, <1>1
    <3>2. ra = ReadVarint(a, ta.at) \/ ra = ReadBytes(a, ta.at)
      BY <1>3, <2>1 DEF Known, Failed
    <3>3. CASE ra = ReadVarint(a, ta.at)
      <4> DEFINE p == ta.at
      <4>1. p \in Nat /\ ra = ReadVarint(a, p)
        BY <3>1, <3>3
      <4> HIDE DEF p
      <4>2. ra.at \in p + 1 .. Len(a)
        BY <1>3, <4>1, ReadVarintType DEF Failed
      <4> QED
        BY <3>1, <4>1, <4>2 DEF p
    <3>4. CASE ra = ReadBytes(a, ta.at)
      <4> DEFINE p == ta.at
                 na == ReadVarint(a, p)
                 l == GoInt(na.v)
                 far == na.at + l
      <4>0. p \in Nat /\ na = ReadVarint(a, p) /\ ra = ReadBytes(a, p)
        BY <3>1, <3>4
      <4> HIDE DEF p, na
      <4>1. \/ ReadBytes(a, p) = Failed
            \/ /\ na.st = "ok" /\ na.at \in p + 1 .. Len(a) /\ GoInt(na.v) \in Nat
               /\ na.at + GoInt(na.v) <= Len(a)
               /\ ReadBytes(a, p) = Ok(SubSeq(a, na.at + 1, na.at + GoInt(na.v)),
                                       na.at + GoInt(na.v))
        BY <4>0, ReadBytesIs
      <4>2. na.at \in p + 1 .. Len(a) /\ l \in Nat /\ ra = Ok(SubSeq(a, na.at + 1, far), far)
        BY <1>3, <4>0, <4>1 DEF Failed
      <4>3. ra.at = far
        <5> HIDE DEF far
        <5> QED
          BY <4>2, OkParts
      <4> HIDE DEF l
      <4> QED
        BY <3>1, <4>0, <4>2, <4>3 DEF p
    <3> QED
      BY <3>2, <3>3, <3>4
  <2>3. ta.at <= i + n
    <3>1. ra.at <= i + n /\ ta.at \in Int
      BY <1>0, <1>1, <1>3
    <3> HIDE DEF ta
    <3> QED
      BY <1>0, <2>2, <3>1
  <2>4. /\ tc.st = "ok" /\ tc.v = ta.v /\ tc.at = j + k /\ tc.at \in Nat
        /\ FieldNum(tc) = num /\ j \in 0 .. n
    BY <1>4, <2>3
  <2> DEFINE x == [v |-> ta.v, at |-> ta.at]
             y == [v |-> tc.v, at |-> tc.at]
             m == n - j
             w == wt[num]
             g == ra.at - x.at + y.at
  <2>5. x \in [v : Nat, at : Nat] /\ y \in [v : Nat, at : Nat] /\ x.v = y.v
        /\ x.at = ta.at /\ y.at = tc.at /\ m \in Nat
    <3>1. ta.v \in Nat /\ ta.at \in Nat /\ tc.v = ta.v /\ tc.at \in Nat
      BY <1>0, <1>1, <2>4
    <3>2. m \in Nat
      <4> HIDE DEF j
      <4> QED
        BY <2>4
    <3> HIDE DEF ta, tc, m
    <3> QED
      BY <3>1, <3>2
  <2>5a. ta.at \in Nat /\ j = ta.at - i
    BY <1>0, <1>1
  <2>6. Known(a, x, w) = Known(a, ta, w) /\ Known(c, y, w) = Known(c, tc, w)
    BY DEF Known
  <2>7. Matches(a, x.at, c, y.at, m)
    <3> DEFINE jj == j
    <3>1. Matches(a, i + jj, c, k + jj, n - jj) /\ jj = j
      <4>1. jj \in 0 .. n /\ jj = j
        BY <2>4
      <4> HIDE DEF jj
      <4> QED
        BY <4>1, MatchesBehind
    <3>2. i + jj = x.at /\ k + jj = y.at /\ n - jj = m
      <4> HIDE DEF ta, tc
      <4> QED
        BY <2>4, <2>5, <2>5a
    <3> HIDE DEF jj, x, y, m
    <3> QED
      BY <3>1, <3>2
  <2>8. ra.at <= x.at + m /\ x.at + m = i + n
    <3>1. /\ x.at = ta.at /\ m = n - (ta.at - i)
          /\ ra.at \in Int /\ ra.at <= i + n /\ ta.at \in Nat
      BY <1>0, <1>3, <2>2, <2>5, <2>5a
    <3> HIDE DEF ta, tc, ra, x, m
    <3> QED
      BY <3>1
  <2>9. ra = Known(a, x, w) /\ w \in {0, 2}
    BY <2>1, <2>6
  <2>9a. g = ra.at - x.at + y.at
    OBVIOUS
  <2> HIDE DEF x, y, m, w, g
  <2>10. Known(c, y, w) = Ok(ra.v, g)
    <3>1. x \in [v : Nat, at : Nat] /\ y \in [v : Nat, at : Nat] /\ x.v = y.v /\ m \in Nat
          /\ ra.st = "ok" /\ ra.at <= x.at + m
      BY <1>3, <2>5, <2>8
    <3> HIDE DEF ta, tc, num, j
    <3> QED
      BY <2>7, <2>9, <2>9a, <3>1, KnownMatches
  <2>11. rc = Ok(ra.v, g)
    BY <1>5, <2>6, <2>10 DEF w
  <2>12. g = f.at - i + k
    <3>1. f.at = ra.at /\ ra.at \in Int
      BY <1>3, <2>2
    <3>2. x.at = ta.at /\ y.at = j + k /\ j = ta.at - i /\ ta.at \in Nat
      BY <2>4, <2>5, <2>5a
    <3> HIDE DEF ta, tc, j, num
    <3> QED
      BY <2>9a, <3>1, <3>2
  <2>13. rc.st = "ok" /\ rc.v = f.v /\ rc.at = f.at - i + k
    BY <1>3, <2>11, <2>12, OkParts
  <2>14. Field(wt, c, k) = IF tc.v % 8 = 4 \/ FieldNum(tc) <= 0 THEN Failed
           ELSE IF rc.st = "ok"
           THEN [st |-> "ok", num |-> FieldNum(tc), v |-> rc.v, at |-> rc.at] ELSE rc
    BY <2>4, FieldIs
  <2> QED
    BY <1>3, <2>4, <2>13, <2>14
<1>6. CASE num \notin DOMAIN wt
  <2> DEFINE xa == Rest(a, i)
             xc == Rest(c, k)
  <2>1. ra = Unknown(a, i)
    BY <1>6 DEF ra
  <2>2. PICK m \in 1 .. Half - 1 : Skip(xa) = Ok(m, m)
                                   /\ ra = Ok(SubSeq(a, i + 1, i + m), i + m)
    <3>1. i <= Len(a)
      BY <1>0
    <3> QED
      BY <1>3, <2>1, <3>1, UnknownIs DEF Failed, Rest
  <2>3. ra.at = i + m /\ ra.v = SubSeq(a, i + 1, i + m) /\ m \in Nat /\ m <= n
    <3> DEFINE part == SubSeq(a, i + 1, i + m)
               far == i + m
    <3>1. ra = Ok(part, far)
      BY <2>2
    <3>2. ra.at = far /\ ra.v = part
      <4> HIDE DEF part, far
      <4> QED
        BY <3>1, OkParts
    <3>3. far <= i + n /\ m \in Nat
      BY <1>0, <1>3, <3>2
    <3> QED
      BY <1>0, <3>2, <3>3
  <2>4. /\ xa \in Bytes /\ Fits(xa) /\ xc \in Bytes /\ Fits(xc)
        /\ Matches(xa, 0, xc, 0, n) /\ Matches(a, i, xa, 0, n)
    BY RestMatches
  <2> HIDE DEF xa, xc
  <2>5. Skip(xa).st = "ok" /\ Skip(xa).at = m /\ Skip(xa).at <= n
    BY <2>2, <2>3, OkParts
  <2>6. Skip(xc) = Ok(m, m)
    BY <2>2, <2>4, <2>5, SkipSame
  <2>7. ta.at <= i + n
    <3>1. ReadVarint(xa, 0).st = "ok" /\ ReadVarint(xa, 0).at <= m
      BY <2>2, <2>4, SkipBehindTag
    <3> DEFINE z == 0
               tx == ReadVarint(xa, z)
    <3>2. z \in Nat /\ tx.st = "ok" /\ tx.at <= z + n /\ tx.at \in Nat
      <4>1. tx.st = "ok" /\ tx.at <= m
        BY <3>1
      <4>2. tx.at \in Nat
        <5>1. z \in Nat /\ z = 0 /\ Len(xa) \in Nat
          BY <2>4 DEF Bytes
        <5>2. tx.at \in z + 1 .. Len(xa)
          <6> HIDE DEF z
          <6> QED
            BY <2>4, <4>1, <5>1, ReadVarintType DEF Failed
        <5> HIDE DEF tx
        <5> QED
          BY <5>1, <5>2
      <4> HIDE DEF tx
      <4> QED
        BY <2>3, <4>1, <4>2
    <3>3. Matches(xa, z, a, i, n)
      <4>1. Matches(a, i, xa, z, n)
        BY <2>4
      <4> HIDE DEF z
      <4> QED
        BY <4>1 DEF Matches
    <3> HIDE DEF z
    <3>4. ta = Ok(tx.v, tx.at - z + i)
      BY <2>4, <3>2, <3>3, ReadVarintMatches
    <3>5. ta.at = tx.at - z + i
      BY <3>4, OkParts
    <3> QED
      BY <3>2, <3>5
  <2>8. tc.st = "ok" /\ tc.v = ta.v /\ FieldNum(tc) = num
    BY <1>4, <2>7
  <2>9. rc = Ok(SubSeq(c, k + 1, k + m), k + m)
    <3>1. Unknown(c, k) = Ok(SubSeq(c, k + 1, k + m), k + m)
      <4>1. k + m <= Len(c)
        BY <1>0, <2>3
      <4>2. Skip(SubSeq(c, k + 1, Len(c))) = Ok(m, m)
        BY <2>6 DEF xc, Rest
      <4> QED
        BY <4>1, <4>2, UnknownKept
    <3> QED
      BY <1>6, <3>1
  <2>10. Part(a, i, m) = Part(c, k, m)
    <3>1. Matches(a, i, c, k, m)
      <4>1. \A x \in 1 .. m : x \in 1 .. n
        BY <2>3
      <4>2. i + m <= Len(a) /\ k + m <= Len(c)
        BY <1>0, <2>3
      <4> QED
        BY <4>1, <4>2 DEF Matches
    <3> QED
      BY <2>3, <3>1, PartMatches
  <2>11. rc.st = "ok" /\ rc.v = f.v /\ rc.at = f.at - i + k
    <3>1. rc = Ok(f.v, k + m)
      BY <1>3, <2>3, <2>9, <2>10 DEF Part
    <3>2. k + m = f.at - i + k
      BY <1>3, <2>3
    <3> QED
      BY <3>1, <3>2, OkParts
  <2>12. Field(wt, c, k) = IF tc.v % 8 = 4 \/ FieldNum(tc) <= 0 THEN Failed
           ELSE IF rc.st = "ok"
           THEN [st |-> "ok", num |-> FieldNum(tc), v |-> rc.v, at |-> rc.at] ELSE rc
    BY <2>8, FieldIs
  <2> QED
    BY <1>3, <2>8, <2>11, <2>12
<1> QED
  BY <1>5, <1>6

-----------------------------------------------------------------------------
(* The loop of Unmarshal.                                                  *)

Found(fields, unknown) == [st |-> "ok", fields |-> fields, unknown |-> unknown]
NoValues(wt) == [n \in DOMAIN wt |-> <<>>]
FieldMaps(wt) ==
  {g \in [DOMAIN wt -> Seq(Bytes) \cup Seq(0 .. Full - 1)] :
     \A n \in DOMAIN wt : g[n] \in Seq(ValueSet(wt[n]))}
ScanResults(wt) == {Failed} \cup [st : {"ok"}, fields : FieldMaps(wt), unknown : Bytes]

(* The fields with one value more in front.                                *)
Consed(g, f) == [n \in DOMAIN g |-> IF n = f.num THEN <<f.v>> \o g[n] ELSE g[n]]

(* Bytes in a row.                                                         *)
Joined(a, b, ab) ==
  /\ \A k \in 1 .. Len(a) : ab[k] = a[k]
  /\ \A k \in 1 .. Len(b) : ab[Len(a) + k] = b[k]

(* Bytes and more bytes are bytes.                                         *)
LEMMA BytesJoin ==
  ASSUME NEW a \in Bytes, NEW b \in Bytes
  PROVE  a \o b \in Bytes /\ Len(a \o b) = Len(a) + Len(b) /\ Joined(a, b, a \o b)
BY DEF Bytes, Joined

(* What is read so far, with one field in front.                           *)
LEMMA PutIs ==
  ASSUME NEW wt, IsTable(wt), NEW bs, NEW i, NEW f, FieldRead(wt, bs, i, f),
         f.num \notin DOMAIN wt => f.v \in Bytes,
         NEW g \in FieldMaps(wt), NEW u \in Bytes
  PROVE  /\ Put(f, Found(g, u)) = Found(Consed(g, f), IF f.num \in DOMAIN wt THEN u ELSE f.v \o u)
         /\ Put(f, Found(g, u)) \in ScanResults(wt)
<1> DEFINE s == Found(g, u)
           h == Consed(g, f)
           x == IF f.num \in DOMAIN wt THEN u ELSE f.v \o u
           V == Seq(Bytes) \cup Seq(0 .. Full - 1)
<1>1. s.fields = g /\ s.unknown = u /\ DOMAIN g = DOMAIN wt
      /\ \A n \in DOMAIN wt : g[n] \in Seq(ValueSet(wt[n]))
  BY DEF Found, FieldMaps
<1>2. ASSUME f.num \in DOMAIN wt
      PROVE  Put(f, s) = Found(h, x)
  <2>1. Put(f, s) = [s EXCEPT !.fields = [g EXCEPT ![f.num] = <<f.v>> \o g[f.num]]]
    BY <1>1, <1>2 DEF Put
  <2>2. [g EXCEPT ![f.num] = <<f.v>> \o g[f.num]] = h
    <3>1. [g EXCEPT ![f.num] = <<f.v>> \o g[f.num]]
            = [n \in DOMAIN g |-> IF n = f.num THEN <<f.v>> \o g[f.num] ELSE g[n]]
      BY <1>1, <1>2 DEF FieldMaps
    <3> QED
      BY <3>1 DEF Consed
  <2>3. Put(f, s) = Found(h, u)
    <3> HIDE DEF h
    <3> QED
      BY <2>1, <2>2 DEF Found
  <2> QED
    BY <1>2, <2>3
<1>3. ASSUME f.num \notin DOMAIN wt
      PROVE  Put(f, s) = Found(h, x)
  <2>1. Put(f, s) = [s EXCEPT !.unknown = f.v \o u]
    BY <1>1, <1>3 DEF Put
  <2>2. h = g
    <3>1. h = [n \in DOMAIN g |-> g[n]]
      BY <1>1, <1>3 DEF Consed
    <3> QED
      BY <3>1 DEF FieldMaps
  <2>3. Put(f, s) = Found(g, f.v \o u)
    BY <2>1 DEF Found
  <2> QED
    BY <1>3, <2>2, <2>3
<1>4. Put(f, s) = Found(h, x)
  BY <1>2, <1>3
<1>5. x \in Bytes
  <2>1. f.num \notin DOMAIN wt => f.v \o u \in Bytes
    BY BytesJoin
  <2> QED
    BY <2>1
<1>6. h \in FieldMaps(wt)
  <2>1. ASSUME NEW n \in DOMAIN wt
        PROVE  h[n] \in Seq(ValueSet(wt[n])) /\ h[n] \in V
    <3>1. g[n] \in Seq(ValueSet(wt[n])) /\ h[n] = IF n = f.num THEN <<f.v>> \o g[n] ELSE g[n]
      BY <1>1 DEF Consed
    <3>2. n = f.num => f.v \in ValueSet(wt[n])
      BY DEF FieldRead
    <3> HIDE DEF h
    <3>3. h[n] \in Seq(ValueSet(wt[n]))
      <4>1. CASE n = f.num
        <5>1. \A S : \A q \in Seq(S) : \A e \in S : <<e>> \o q \in Seq(S)
          OBVIOUS
        <5> QED
          BY <3>1, <3>2, <4>1, <5>1
      <4> QED
        BY <3>1, <4>1
    <3>4. ValueSet(wt[n]) = Bytes \/ ValueSet(wt[n]) = 0 .. Full - 1
      BY DEF ValueSet
    <3> QED
      BY <3>3, <3>4
  <2>2. DOMAIN h = DOMAIN wt /\ h = [n \in DOMAIN wt |-> h[n]]
    BY <1>1 DEF Consed
  <2> HIDE DEF h, V
  <2>3. h \in [DOMAIN wt -> V]
    BY <2>1, <2>2
  <2> QED
    BY <2>1, <2>3 DEF FieldMaps, V
<1>7. Found(h, x) \in ScanResults(wt)
  <2> HIDE DEF h, x
  <2> QED
    BY <1>5, <1>6 DEF Found, ScanResults
<1> QED
  BY <1>4, <1>7

(* The recursion of Scan.                                                  *)
ScanFrom(wt, bs, scan, i) ==
  LET f == Field(wt, bs, i)
  IN  IF i = Len(bs) THEN Found(NoValues(wt), <<>>)
      ELSE IF f.st # "ok" THEN f
      ELSE IF scan[f.at].st # "ok" THEN scan[f.at] ELSE Put(f, scan[f.at])
Scans(scan, wt, bs) == \A i \in 0 .. Len(bs) : scan[i] = ScanFrom(wt, bs, scan, i)

(* A field that is read: an unknown one is bytes.                          *)
LEMMA UnknownBytes ==
  ASSUME NEW wt, NEW bs \in Bytes, NEW i \in Nat, i <= Len(bs), NEW f, FieldRead(wt, bs, i, f),
         f.num \notin DOMAIN wt
  PROVE  f.v \in Bytes /\ Len(f.v) = f.at - i
<1>1. f.at \in i + 1 .. Len(bs) /\ f.v = SubSeq(bs, i + 1, f.at) /\ Len(bs) \in Nat
  BY DEF FieldRead, Bytes
<1> DEFINE j == f.at
<1>2. j \in Nat /\ i <= j /\ j <= Len(bs)
  BY <1>1
<1> HIDE DEF j
<1>3. SubSeq(bs, i + 1, j) \in Bytes /\ Len(SubSeq(bs, i + 1, j)) = j - i
  BY <1>2, PartIs
<1> QED
  BY <1>1, <1>3 DEF j

(* Nothing is found at the end.                                            *)
LEMMA NothingFound ==
  ASSUME NEW wt, IsTable(wt)
  PROVE  /\ NoValues(wt) \in FieldMaps(wt) /\ <<>> \in Bytes
         /\ Found(NoValues(wt), <<>>) \in ScanResults(wt)
<1>1. \A n \in DOMAIN wt : NoValues(wt)[n] = <<>>
  BY DEF NoValues
<1>2. \A S : <<>> \in Seq(S)
  OBVIOUS
<1>3. NoValues(wt) \in FieldMaps(wt)
  BY <1>1, <1>2 DEF NoValues, FieldMaps
<1>4. <<>> \in Bytes
  BY <1>2 DEF Bytes
<1> QED
  BY <1>3, <1>4 DEF Found, ScanResults

(* A step of it.                                                           *)
LEMMA ScanStep ==
  ASSUME NEW wt, IsTable(wt), NEW bs \in Bytes, Fits(bs), NEW i \in 0 .. Len(bs), NEW scan,
         \A j \in i + 1 .. Len(bs) : scan[j] \in ScanResults(wt)
  PROVE  ScanFrom(wt, bs, scan, i) \in ScanResults(wt)
<1> DEFINE f == Field(wt, bs, i)
           S == ScanResults(wt)
<1>1. i \in Nat /\ i <= Len(bs) /\ Failed \in S
  BY DEF Bytes, ScanResults
<1>2. f = Failed \/ FieldRead(wt, bs, i, f)
  BY <1>1, FieldType
<1>3. ScanFrom(wt, bs, scan, i) =
        IF i = Len(bs) THEN Found(NoValues(wt), <<>>)
        ELSE IF f.st # "ok" THEN f
        ELSE IF scan[f.at].st # "ok" THEN scan[f.at] ELSE Put(f, scan[f.at])
  BY DEF ScanFrom
<1> HIDE DEF f, S
<1>4. CASE i = Len(bs)
  BY <1>3, <1>4, NothingFound DEF S
<1>5. CASE i # Len(bs) /\ f = Failed
  BY <1>1, <1>3, <1>5 DEF Failed, S
<1>6. CASE i # Len(bs) /\ FieldRead(wt, bs, i, f)
  <2> DEFINE t == scan[f.at]
  <2>1. f.st = "ok" /\ f.at \in i + 1 .. Len(bs)
    BY <1>6 DEF FieldRead
  <2>2. t \in S
    BY <2>1 DEF S
  <2> HIDE DEF t
  <2>3. CASE t.st # "ok"
    BY <1>3, <1>6, <2>1, <2>2, <2>3 DEF t, S
  <2>4. CASE t.st = "ok"
    <3>1. t \in [st : {"ok"}, fields : FieldMaps(wt), unknown : Bytes]
      BY <2>2, <2>4 DEF S, ScanResults, Failed
    <3> DEFINE g == t.fields
               u == t.unknown
    <3>2. t = Found(g, u) /\ g \in FieldMaps(wt) /\ u \in Bytes
      BY <3>1 DEF Found
    <3>3. f.num \notin DOMAIN wt => f.v \in Bytes
      BY <1>1, <1>6, UnknownBytes
    <3> HIDE DEF g, u
    <3>4. Put(f, t) \in S
      BY <1>6, <3>2, <3>3, PutIs DEF S
    <3> QED
      BY <1>3, <1>6, <2>1, <2>4, <3>4 DEF t, S
  <2> QED
    BY <2>3, <2>4
<1> QED
  BY <1>2, <1>4, <1>5, <1>6

(* The recursion has a solution, and Scan runs it.                         *)
LEMMA ScanRuns ==
  ASSUME NEW wt, IsTable(wt), NEW bs \in Bytes, Fits(bs)
  PROVE  \E scan : Scans(scan, wt, bs) /\ Scan(wt, bs) = scan[0]
<1> DEFINE n == Len(bs)
           S == ScanResults(wt)
           F == [0 .. n -> S]
           Rec(g) == [i \in 0 .. n |-> ScanFrom(wt, bs, g, i)]
           step == [g \in F |-> Rec(g)]
           w == CHOOSE g : g = Rec(g)
<1>1. n \in Nat
  BY DEF Bytes
<1>2. ASSUME NEW g \in F, NEW i \in 0 .. n
      PROVE  ScanFrom(wt, bs, g, i) \in S
  <2>1. \A j \in i + 1 .. n : g[j] \in S
    BY <1>1
  <2> QED
    BY <2>1, ScanStep
<1>3. step \in [F -> F]
  <2> HIDE DEF S, n
  <2> QED
    BY <1>2
<1>4. LooksUp(step, S, n)
  <2> SUFFICES ASSUME NEW f \in F, NEW g \in F, NEW i \in 0 .. n,
                      \A j \in i + 1 .. n : f[j] = g[j]
               PROVE  step[f][i] = step[g][i]
    BY DEF LooksUp
  <2>1. ScanFrom(wt, bs, f, i) = ScanFrom(wt, bs, g, i)
    <3> DEFINE x == Field(wt, bs, i)
    <3>1. x = Failed \/ x.at \in i + 1 .. n
      <4>1. i \in Nat /\ i <= Len(bs)
        BY <1>1
      <4> QED
        BY <4>1, FieldType DEF FieldRead
    <3>2. x.st = "ok" => f[x.at] = g[x.at]
      <4> HIDE DEF x, n
      <4> QED
        BY <3>1 DEF Failed
    <3> HIDE DEF x
    <3> QED
      BY <3>2 DEF ScanFrom, x
  <2>2. step[f][i] = ScanFrom(wt, bs, f, i) /\ step[g][i] = ScanFrom(wt, bs, g, i)
    <3> HIDE DEF F, n
    <3> QED
      OBVIOUS
  <2> QED
    BY <2>1, <2>2
<1>5. PICK f \in F : f = step[f]
  <2>1. S # {}
    BY DEF ScanResults
  <2> HIDE DEF S, n, step
  <2> QED
    BY <1>1, <1>3, <1>4, <2>1, RecursionDown
<1>6. f = Rec(f)
  <2> HIDE DEF F
  <2> QED
    BY <1>5
<1>7. w = Rec(w)
  BY <1>6
<1>8. Scan(wt, bs) = w[0]
  BY DEF Scan, Then, ScanFrom, Found, NoValues
<1> HIDE DEF w
<1>9. Scans(w, wt, bs)
  <2>1. ASSUME NEW i \in 0 .. n
        PROVE  Rec(w)[i] = ScanFrom(wt, bs, w, i)
    <3> HIDE DEF n
    <3> QED
      OBVIOUS
  <2> HIDE DEF Rec
  <2> QED
    BY <1>7, <2>1 DEF Scans
<1> QED
  BY <1>8, <1>9

(* What it finds from any index.                                           *)
LEMMA ScansType ==
  ASSUME NEW wt, IsTable(wt), NEW bs \in Bytes, Fits(bs), NEW scan, Scans(scan, wt, bs)
  PROVE  \A i \in 0 .. Len(bs) : scan[i] \in ScanResults(wt)
<1> DEFINE n == Len(bs)
           P == {i \in 0 .. n : scan[i] \in ScanResults(wt)}
<1>1. n \in Nat
  BY DEF Bytes
<1>2. Descends(P, n)
  <2> SUFFICES ASSUME NEW i \in 0 .. n, \A j \in i + 1 .. n : j \in P
               PROVE  i \in P
    BY DEF Descends
  <2>1. ScanFrom(wt, bs, scan, i) \in ScanResults(wt)
    BY ScanStep
  <2> QED
    BY <2>1 DEF Scans
<1>3. \A i \in 0 .. n : i \in P
  <2> HIDE DEF P, n
  <2> QED
    BY <1>1, <1>2, InductionDown
<1> QED
  BY <1>3

(* The values of the fields read, and the unknown bytes.                   *)
LEMMA FoundParts ==
  ASSUME NEW wt, NEW s \in ScanResults(wt), s.st = "ok"
  PROVE  s = Found(s.fields, s.unknown) /\ s.fields \in FieldMaps(wt) /\ s.unknown \in Bytes
<1>1. s \in [st : {"ok"}, fields : FieldMaps(wt), unknown : Bytes]
  BY DEF ScanResults, Failed
<1> QED
  BY <1>1 DEF Found

(* A step of the scan that finds something.                                *)
LEMMA ScanGoesOn ==
  ASSUME NEW wt, IsTable(wt), NEW bs \in Bytes, Fits(bs), NEW scan, Scans(scan, wt, bs),
         NEW i \in 0 .. Len(bs), scan[i].st = "ok", i # Len(bs),
         NEW f, f = Field(wt, bs, i), NEW t, t = scan[f.at]
  PROVE  /\ FieldRead(wt, bs, i, f) /\ f.st = "ok" /\ f.at \in i + 1 .. Len(bs)
         /\ f.num \notin DOMAIN wt => f.v \in Bytes
         /\ t = Found(t.fields, t.unknown) /\ t.fields \in FieldMaps(wt) /\ t.unknown \in Bytes
         /\ t.st = "ok"
         /\ scan[i] = Found(Consed(t.fields, f),
                            IF f.num \in DOMAIN wt THEN t.unknown ELSE f.v \o t.unknown)
<1>1. i \in Nat /\ i <= Len(bs)
  BY DEF Bytes
<1>2. f = Failed \/ FieldRead(wt, bs, i, f)
  BY <1>1, FieldType
<1>3. scan[i] = IF f.st # "ok" THEN f ELSE IF t.st # "ok" THEN t ELSE Put(f, t)
  BY DEF Scans, ScanFrom
<1>4. f.st = "ok" /\ t.st = "ok" /\ scan[i] = Put(f, t)
  BY <1>3
<1>5. FieldRead(wt, bs, i, f)
  BY <1>2, <1>4 DEF Failed
<1>6. f.at \in i + 1 .. Len(bs)
  BY <1>5 DEF FieldRead
<1>7. f.num \notin DOMAIN wt => f.v \in Bytes
  BY <1>1, <1>5, UnknownBytes
<1>8. t \in ScanResults(wt)
  <2>1. f.at \in 0 .. Len(bs)
    BY <1>1, <1>6
  <2> QED
    BY <2>1, ScansType
<1>9. t = Found(t.fields, t.unknown) /\ t.fields \in FieldMaps(wt) /\ t.unknown \in Bytes
  BY <1>4, <1>8, FoundParts
<1> DEFINE g == t.fields
           u == t.unknown
<1>10. scan[i] = Found(Consed(g, f), IF f.num \in DOMAIN wt THEN u ELSE f.v \o u)
  <2>1. t = Found(g, u) /\ g \in FieldMaps(wt) /\ u \in Bytes
    BY <1>9
  <2> HIDE DEF g, u
  <2> QED
    BY <1>4, <1>5, <1>7, <2>1, PutIs
<1> QED
  BY <1>4, <1>5, <1>6, <1>7, <1>9, <1>10

(* What Scan returns.                                                      *)
LEMMA ScanType ==
  ASSUME NEW wt, IsTable(wt), NEW bs \in Bytes, Fits(bs)
  PROVE  Scan(wt, bs) \in ScanResults(wt)
<1>1. PICK scan : Scans(scan, wt, bs) /\ Scan(wt, bs) = scan[0]
  BY ScanRuns
<1> DEFINE z == 0
<1>2. z \in 0 .. Len(bs) /\ scan[z] = scan[0]
  BY DEF Bytes
<1> HIDE DEF z
<1> QED
  BY <1>1, <1>2, ScansType

-----------------------------------------------------------------------------
(* Bytes put together.                                                     *)

(* Bytes are the same if they are the same one by one.                     *)
LEMMA BytesSame ==
  ASSUME NEW a \in Bytes, NEW b \in Bytes, Len(a) = Len(b), \A k \in 1 .. Len(a) : a[k] = b[k]
  PROVE  a = b
BY DEF Bytes

(* Putting together is associative.                                        *)
LEMMA ListsJoin ==
  ASSUME NEW V, NEW a \in Seq(V), NEW b \in Seq(V)
  PROVE  a \o b \in Seq(V) /\ Len(a \o b) = Len(a) + Len(b) /\ Joined(a, b, a \o b)
BY DEF Joined

(* Lists are the same if they are the same one by one.                     *)
LEMMA ListsSame ==
  ASSUME NEW V, NEW a \in Seq(V), NEW b \in Seq(V), Len(a) = Len(b),
         \A k \in 1 .. Len(a) : a[k] = b[k]
  PROVE  a = b
OBVIOUS

(* The order in which lists are put together does not matter.               *)
LEMMA ListsAssociate ==
  ASSUME NEW V, NEW a \in Seq(V), NEW b \in Seq(V), NEW c \in Seq(V)
  PROVE  (a \o b) \o c = a \o (b \o c)
<1> DEFINE x == (a \o b) \o c
           y == a \o (b \o c)
           ab == a \o b
           bc == b \o c
<1>1. Len(a) \in Nat /\ Len(b) \in Nat /\ Len(c) \in Nat
  OBVIOUS
<1>2. ab \in Seq(V) /\ Len(ab) = Len(a) + Len(b)
      /\ (\A k \in 1 .. Len(a) : ab[k] = a[k]) /\ (\A k \in 1 .. Len(b) : ab[Len(a) + k] = b[k])
  BY ListsJoin DEF Joined
<1>3. bc \in Seq(V) /\ Len(bc) = Len(b) + Len(c)
      /\ (\A k \in 1 .. Len(b) : bc[k] = b[k]) /\ (\A k \in 1 .. Len(c) : bc[Len(b) + k] = c[k])
  BY ListsJoin DEF Joined
<1>4. x \in Seq(V) /\ Len(x) = Len(ab) + Len(c)
      /\ (\A k \in 1 .. Len(ab) : x[k] = ab[k]) /\ (\A k \in 1 .. Len(c) : x[Len(ab) + k] = c[k])
  <2>1. ab \in Seq(V) /\ x = ab \o c
    BY <1>2
  <2> HIDE DEF ab, x
  <2> QED
    BY <2>1, ListsJoin DEF Joined
<1>5. y \in Seq(V) /\ Len(y) = Len(a) + Len(bc)
      /\ (\A k \in 1 .. Len(a) : y[k] = a[k]) /\ (\A k \in 1 .. Len(bc) : y[Len(a) + k] = bc[k])
  <2>1. bc \in Seq(V) /\ y = a \o bc
    BY <1>3
  <2> HIDE DEF bc, y
  <2> QED
    BY <2>1, ListsJoin DEF Joined
<1> HIDE DEF x, y, ab, bc
<1>6. Len(x) = Len(y) /\ Len(x) = Len(a) + Len(b) + Len(c)
  BY <1>1, <1>2, <1>3, <1>4, <1>5
<1>7. ASSUME NEW k \in 1 .. Len(x)
      PROVE  x[k] = y[k]
  <2>1. CASE k <= Len(a)
    <3>1. k \in 1 .. Len(a) /\ k \in 1 .. Len(ab)
      BY <1>1, <1>2, <2>1
    <3> QED
      BY <1>2, <1>4, <1>5, <3>1
  <2>2. CASE k > Len(a) /\ k <= Len(a) + Len(b)
    <3> DEFINE j == k - Len(a)
    <3>1. j \in 1 .. Len(b) /\ j \in 1 .. Len(bc) /\ k \in 1 .. Len(ab) /\ k = Len(a) + j
      BY <1>1, <1>2, <1>3, <2>2
    <3> HIDE DEF j
    <3> QED
      BY <1>2, <1>3, <1>4, <1>5, <3>1
  <2>3. CASE k > Len(a) + Len(b)
    <3> DEFINE j == k - Len(ab)
               i == Len(b) + j
    <3>1. j \in 1 .. Len(c) /\ i \in 1 .. Len(bc) /\ k = Len(ab) + j /\ k = Len(a) + i
          /\ i = Len(b) + j
      BY <1>1, <1>2, <1>3, <1>6, <2>3
    <3> HIDE DEF j, i
    <3>2. x[k] = c[j]
      BY <1>4, <3>1
    <3>3. y[k] = bc[i]
      BY <1>5, <3>1
    <3>4. bc[i] = c[j]
      BY <1>3, <3>1
    <3> QED
      BY <3>2, <3>3, <3>4
  <2> QED
    BY <1>1, <1>6, <2>1, <2>2, <2>3
<1>8. x = y
  BY <1>4, <1>5, <1>6, <1>7, ListsSame
<1> QED
  BY <1>8 DEF x, y

(* The same of bytes; and nothing adds nothing.                            *)
LEMMA JoinAssociates ==
  ASSUME NEW a \in Bytes, NEW b \in Bytes, NEW c \in Bytes
  PROVE  (a \o b) \o c = a \o (b \o c)
BY ListsAssociate DEF Bytes

(* Nothing adds nothing.                                                   *)
LEMMA JoinNothing ==
  ASSUME NEW a \in Bytes
  PROVE  a \o <<>> = a /\ <<>> \o a = a
BY DEF Bytes

(* No bytes are bytes.                                                     *)
LEMMA NoBytes == <<>> \in Bytes /\ Len(<<>>) = 0
BY DEF Bytes

(* What Concatenated puts together, step by step.                          *)
Firsts(first, ss) ==
  /\ first[0] = <<>>
  /\ \A k \in 1 .. Len(ss) : first[k - 1] \in Bytes => first[k] = first[k - 1] \o ss[k]

(* Every step is bytes.                                                    *)
LEMMA FirstsBytes ==
  ASSUME NEW ss \in Seq(Bytes), NEW first, Firsts(first, ss)
  PROVE  /\ \A k \in 0 .. Len(ss) : first[k] \in Bytes
         /\ \A k \in 1 .. Len(ss) : first[k] = first[k - 1] \o ss[k]
<1> DEFINE n == Len(ss)
           P == {k \in 0 .. n : first[k] \in Bytes}
<1>1. n \in Nat
  OBVIOUS
<1>0. 0 \in 0 .. n /\ <<>> \in Bytes
  BY <1>1, NoBytes
<1>2. 0 \in P
  BY <1>0 DEF Firsts
<1>3. ASSUME NEW k \in 1 .. n, k - 1 \in P
      PROVE  k \in P
  <2>1. first[k - 1] \in Bytes /\ ss[k] \in Bytes
    BY <1>3
  <2>2. first[k] = first[k - 1] \o ss[k]
    BY <2>1 DEF Firsts
  <2>3. first[k - 1] \o ss[k] \in Bytes
    <3> DEFINE x == first[k - 1]
               y == ss[k]
    <3> HIDE DEF x, y
    <3>1. x \in Bytes /\ y \in Bytes => x \o y \in Bytes
      BY BytesJoin
    <3> QED
      BY <2>1, <3>1 DEF x, y
  <2>4. k \in 0 .. n
    BY <1>1
  <2> QED
    BY <2>2, <2>3, <2>4
<1>4. \A k \in 0 .. n : k \in P
  <2> HIDE DEF P, n
  <2> QED
    BY <1>1, <1>2, <1>3, Induction
<1>5. \A k \in 1 .. n : k - 1 \in 0 .. n
  BY <1>1
<1> QED
  BY <1>4, <1>5 DEF Firsts

(* Concatenated takes these steps.                                         *)
LEMMA ConcatenatedRuns ==
  ASSUME NEW ss \in Seq(Bytes)
  PROVE  \E first : Firsts(first, ss) /\ Concatenated(ss) = first[Len(ss)]
<1> DEFINE n == Len(ss)
           Rec(g) == [k \in 0 .. n |-> IF k = 0 THEN <<>> ELSE g[k - 1] \o ss[k]]
           w == CHOOSE g : g = Rec(g)
           S == Bytes
           base == <<>>
           step == [p \in S \X (1 .. n) |-> p[1] \o ss[p[2]]]
<1>1. n \in Nat /\ base \in S
  BY NoBytes
<1>2. step \in [S \X (1 .. n) -> S]
  <2>1. ASSUME NEW p \in S \X (1 .. n)
        PROVE  p[1] \o ss[p[2]] \in S
    <3>1. p[1] \in Bytes /\ ss[p[2]] \in Bytes
      OBVIOUS
    <3> QED
      BY <3>1, BytesJoin
  <2> HIDE DEF S, n
  <2> QED
    BY <2>1
<1>3. PICK f \in [0 .. n -> S] : Iterates(f, base, step, n)
  <2> HIDE DEF S, n, step, base
  <2> QED
    BY <1>1, <1>2, IterationExists
<1>4. f[0] = <<>> /\ \A k \in 1 .. n : f[k] = f[k - 1] \o ss[k]
  <2>1. f[0] = base /\ \A k \in 1 .. n : f[k] = step[<<f[k - 1], k>>]
    BY <1>3 DEF Iterates
  <2>2. ASSUME NEW k \in 1 .. n
        PROVE  f[k] = f[k - 1] \o ss[k]
    <3>1. f[k - 1] \in S
      BY <1>1
    <3>2. <<f[k - 1], k>> \in S \X (1 .. n)
      BY <3>1
    <3>3. step[<<f[k - 1], k>>] = f[k - 1] \o ss[k]
      <4> HIDE DEF S, n
      <4> QED
        BY <3>2
    <3> QED
      BY <2>1, <3>3
  <2> QED
    BY <2>1, <2>2
<1>5. f = Rec(f)
  <2>1. \A k \in 0 .. n : f[k] = Rec(f)[k]
    <3>1. \A k \in 0 .. n : k = 0 \/ k \in 1 .. n
      BY <1>1
    <3> HIDE DEF n
    <3> QED
      BY <1>4, <3>1
  <2> HIDE DEF S
  <2> QED
    BY <2>1
<1>6. w = Rec(w)
  BY <1>5
<1>7. Concatenated(ss) = w[n]
  BY DEF Concatenated
<1>8. w[0] = <<>> /\ \A k \in 1 .. n : w[k] = w[k - 1] \o ss[k]
  <2>1. \A k \in 0 .. n : Rec(w)[k] = IF k = 0 THEN <<>> ELSE w[k - 1] \o ss[k]
    <3> HIDE DEF w, n
    <3> QED
      OBVIOUS
  <2> HIDE DEF w
  <2>2. \A k \in 0 .. n : w[k] = IF k = 0 THEN <<>> ELSE w[k - 1] \o ss[k]
    <3> HIDE DEF Rec
    <3> QED
      BY <1>6, <2>1
  <2>3. 0 \in 0 .. n /\ \A k \in 1 .. n : k \in 0 .. n /\ k # 0
    BY <1>1
  <2> HIDE DEF n
  <2> QED
    BY <2>2, <2>3
<1>9. Firsts(w, ss)
  <2> HIDE DEF w
  <2> QED
    BY <1>8 DEF Firsts
<1> HIDE DEF w
<1> QED
  BY <1>7, <1>9

(* Any such steps lead there.                                              *)
LEMMA ConcatenatedIs ==
  ASSUME NEW ss \in Seq(Bytes), NEW first, Firsts(first, ss)
  PROVE  Concatenated(ss) = first[Len(ss)] /\ Concatenated(ss) \in Bytes
<1>1. PICK w : Firsts(w, ss) /\ Concatenated(ss) = w[Len(ss)]
  BY ConcatenatedRuns
<1> DEFINE n == Len(ss)
           P == {k \in 0 .. n : first[k] = w[k]}
<1>2. n \in Nat
  OBVIOUS
<1>3. /\ \A k \in 0 .. n : first[k] \in Bytes
      /\ \A k \in 1 .. n : first[k] = first[k - 1] \o ss[k]
      /\ \A k \in 1 .. n : w[k] = w[k - 1] \o ss[k]
  BY <1>1, FirstsBytes
<1>4. 0 \in P
  BY <1>1, <1>2 DEF Firsts
<1>5. ASSUME NEW k \in 1 .. n, k - 1 \in P
      PROVE  k \in P
  <2>1. first[k - 1] = w[k - 1]
    BY <1>5
  <2>2. first[k] = first[k - 1] \o ss[k] /\ w[k] = w[k - 1] \o ss[k]
    BY <1>3
  <2>3. k \in 0 .. n
    BY <1>2
  <2> QED
    BY <2>1, <2>2, <2>3
<1>6. \A k \in 0 .. n : k \in P
  <2> HIDE DEF P, n
  <2> QED
    BY <1>2, <1>4, <1>5, Induction
<1>7. n \in 0 .. n
  BY <1>2
<1> QED
  BY <1>1, <1>3, <1>6, <1>7

(* One more in front.                                                      *)
LEMMA ConcatenatedCons ==
  ASSUME NEW ss \in Seq(Bytes), NEW v \in Bytes
  PROVE  /\ Concatenated(<<v>> \o ss) = v \o Concatenated(ss)
         /\ Concatenated(ss) \in Bytes
<1> DEFINE n == Len(ss)
           t == <<v>> \o ss
<1>1. PICK w : Firsts(w, ss) /\ Concatenated(ss) = w[Len(ss)]
  BY ConcatenatedRuns
<1>2. n \in Nat /\ t \in Seq(Bytes) /\ Len(t) = n + 1 /\ t[1] = v
      /\ \A k \in 1 .. n : t[k + 1] = ss[k]
  OBVIOUS
<1>3. /\ \A k \in 0 .. n : w[k] \in Bytes
      /\ \A k \in 1 .. n : w[k] = w[k - 1] \o ss[k]
      /\ w[0] = <<>>
  BY <1>1, FirstsBytes DEF Firsts
<1> DEFINE f == [k \in 0 .. n + 1 |-> IF k = 0 THEN <<>> ELSE v \o w[k - 1]]
<1>4. f[0] = <<>> /\ f[n + 1] = v \o w[n]
  BY <1>2
<1>5. ASSUME NEW k \in 1 .. Len(t)
      PROVE  f[k] = f[k - 1] \o t[k]
  <2>1. CASE k = 1
    <3>1. f[k] = v \o w[0] /\ f[k - 1] = <<>> /\ t[k] = v
      BY <1>2, <2>1
    <3> QED
      BY <1>3, <3>1, JoinNothing
  <2>2. CASE k # 1
    <3> DEFINE j == k - 1
    <3>1. j \in 1 .. n /\ k = j + 1 /\ j - 1 \in 0 .. n
      BY <1>2, <2>2
    <3>2. f[k] = v \o w[j] /\ f[j] = v \o w[j - 1] /\ t[k] = ss[j]
      <4>1. k \in 0 .. n + 1 /\ j \in 0 .. n + 1 /\ k # 0 /\ j # 0 /\ k - 1 = j
        BY <1>2, <3>1
      <4> HIDE DEF n, t, j
      <4> QED
        BY <1>2, <3>1, <4>1
    <3>3. w[j] = w[j - 1] \o ss[j] /\ w[j - 1] \in Bytes /\ ss[j] \in Bytes
      <4>1. ss[j] \in Bytes
        BY <3>1
      <4> HIDE DEF j, n
      <4>2. w[j] = w[j - 1] \o ss[j] /\ w[j - 1] \in Bytes
        BY <1>3, <3>1
      <4> QED
        BY <4>1, <4>2
    <3>4. v \o (w[j - 1] \o ss[j]) = (v \o w[j - 1]) \o ss[j]
      BY <3>3, JoinAssociates
    <3> QED
      BY <3>2, <3>3, <3>4
  <2> QED
    BY <2>1, <2>2
<1> HIDE DEF f, t, n
<1>6. Firsts(f, t)
  BY <1>4, <1>5 DEF Firsts
<1>7. Concatenated(t) = f[n + 1]
  BY <1>2, <1>6, ConcatenatedIs
<1>8. Concatenated(ss) \in Bytes
  BY <1>1, ConcatenatedIs
<1> QED
  BY <1>1, <1>4, <1>7, <1>8 DEF t, n

-----------------------------------------------------------------------------
(* What is found takes no more room than what is read.                     *)

Roomy(wt, g, room) ==
  \A n \in DOMAIN wt : wt[n] = 2 =>
    /\ g[n] \in Seq(Bytes) /\ Len(Concatenated(g[n])) <= room
    /\ \A k \in 1 .. Len(g[n]) : Len(g[n][k]) <= room

(* Nothing needs no room.                                                  *)
LEMMA NoRoom ==
  ASSUME NEW wt
  PROVE  Roomy(wt, NoValues(wt), 0)
<1> DEFINE e == <<>>
           first == [k \in 0 .. 0 |-> e]
<1>1. e \in Seq(Bytes) /\ Len(e) = 0 /\ first[0] = e
  OBVIOUS
<1>2. Firsts(first, e)
  BY DEF Firsts
<1>3. Concatenated(e) = e
  <2> HIDE DEF e, first
  <2> QED
    BY <1>1, <1>2, ConcatenatedIs
<1> QED
  BY <1>1, <1>3 DEF Roomy, NoValues

(* A field read takes the room it had in the buffer.                       *)
LEMMA RoomForOne ==
  ASSUME NEW wt, IsTable(wt), NEW bs \in Bytes, NEW i \in Nat, i <= Len(bs),
         NEW f, FieldRead(wt, bs, i, f),
         NEW g \in FieldMaps(wt), Roomy(wt, g, Len(bs) - f.at)
  PROVE  Roomy(wt, Consed(g, f), Len(bs) - i)
<1>1. f.at \in i + 1 .. Len(bs) /\ Len(bs) \in Nat
  BY DEF FieldRead, Bytes
<1> SUFFICES ASSUME NEW n \in DOMAIN wt, wt[n] = 2
             PROVE  /\ Consed(g, f)[n] \in Seq(Bytes)
                    /\ Len(Concatenated(Consed(g, f)[n])) <= Len(bs) - i
                    /\ \A k \in 1 .. Len(Consed(g, f)[n]) : Len(Consed(g, f)[n][k]) <= Len(bs) - i
  BY DEF Roomy
<1> DEFINE q == g[n]
           h == Consed(g, f)[n]
           room == Len(bs) - f.at
           more == Len(bs) - i
<1>2. q \in Seq(Bytes) /\ Len(Concatenated(q)) <= room /\ \A k \in 1 .. Len(q) : Len(q[k]) <= room
  BY DEF Roomy
<1>3. h = IF n = f.num THEN <<f.v>> \o q ELSE q
  BY DEF Consed, FieldMaps
<1>4. room \in Nat /\ more \in Nat /\ room < more
  BY <1>1
<1>5. Concatenated(q) \in Bytes
  BY <1>2, ConcatenatedRuns, ConcatenatedIs
<1>6. CASE n # f.num
  <2>1. h = q
    BY <1>3, <1>6
  <2>2. Len(Concatenated(q)) \in Nat /\ \A k \in 1 .. Len(q) : Len(q[k]) \in Nat
    BY <1>2, <1>5 DEF Bytes
  <2> HIDE DEF h, q, room, more
  <2>3. h \in Seq(Bytes) /\ Len(Concatenated(h)) <= more
    BY <1>2, <1>4, <2>1, <2>2
  <2>4. \A k \in 1 .. Len(h) : Len(h[k]) <= more
    BY <1>2, <1>4, <2>1, <2>2
  <2> QED
    BY <2>3, <2>4 DEF h, more
<1>7. CASE n = f.num
  <2> DEFINE v == f.v
  <2>1. v \in Bytes /\ Len(v) < f.at - i
    BY <1>7 DEF FieldRead, ValueSet
  <2>2. h = <<v>> \o q /\ Len(v) \in Nat /\ Len(v) + room < more
    <3>1. Len(v) \in Nat
      BY <2>1 DEF Bytes
    <3> HIDE DEF v
    <3> QED
      BY <1>1, <1>3, <1>7, <2>1, <3>1 DEF v
  <2> HIDE DEF h, q, room, more, v
  <2>3. Concatenated(h) = v \o Concatenated(q)
    BY <1>2, <2>1, <2>2, ConcatenatedCons
  <2>4. Len(Concatenated(h)) = Len(v) + Len(Concatenated(q)) /\ Len(Concatenated(q)) \in Nat
    <3>1. Len(v \o Concatenated(q)) = Len(v) + Len(Concatenated(q))
      BY <1>5, <2>1, BytesJoin
    <3> QED
      BY <1>5, <2>3, <3>1 DEF Bytes
  <2>5. Len(Concatenated(h)) <= more
    <3> DEFINE x == Len(Concatenated(q))
               y == Len(v)
    <3>1. x \in Nat /\ y \in Nat /\ x <= room /\ y + room < more /\ Len(Concatenated(h)) = y + x
      BY <1>2, <2>2, <2>4
    <3> HIDE DEF x, y
    <3> QED
      BY <1>4, <3>1
  <2>6. h \in Seq(Bytes) /\ Len(h) = Len(q) + 1 /\ h[1] = v
        /\ \A k \in 1 .. Len(q) : h[k + 1] = q[k]
    BY <1>2, <2>1, <2>2
  <2>7. ASSUME NEW k \in 1 .. Len(h)
        PROVE  Len(h[k]) <= more
    <3>1. CASE k = 1
      BY <1>4, <2>2, <2>6, <3>1
    <3>2. CASE k # 1
      <4> DEFINE j == k - 1
      <4>1. j \in 1 .. Len(q) /\ k = j + 1
        BY <1>2, <2>6, <3>2
      <4> HIDE DEF j
      <4>2. h[k] = q[j] /\ Len(q[j]) <= room /\ q[j] \in Bytes
        BY <1>2, <2>6, <4>1
      <4>3. Len(h[k]) \in Nat /\ Len(h[k]) <= room
        BY <4>2 DEF Bytes
      <4> DEFINE l == Len(h[k])
      <4> HIDE DEF l
      <4>4. l <= more
        BY <1>4, <4>3 DEF l
      <4> QED
        BY <4>4 DEF l
    <3> QED
      BY <3>1, <3>2
  <2> QED
    BY <2>5, <2>6, <2>7 DEF h, more
<1> QED
  BY <1>6, <1>7

(* So whatever a scan finds fits where it was found.                       *)
LEMMA ScansRoom ==
  ASSUME NEW wt, IsTable(wt), NEW bs \in Bytes, Fits(bs), NEW scan, Scans(scan, wt, bs)
  PROVE  \A i \in 0 .. Len(bs) : scan[i].st = "ok" => Roomy(wt, scan[i].fields, Len(bs) - i)
<1> DEFINE n == Len(bs)
           Fine(i) == scan[i].st = "ok" => Roomy(wt, scan[i].fields, n - i)
           P == {i \in 0 .. n : Fine(i)}
<1>1. n \in Nat
  BY DEF Bytes
<1>2. Descends(P, n)
  <2> SUFFICES ASSUME NEW i \in 0 .. n, \A j \in i + 1 .. n : j \in P, scan[i].st = "ok"
               PROVE  Roomy(wt, scan[i].fields, n - i)
    BY DEF Descends
  <2>1. CASE i = n
    <3>1. scan[i] = Found(NoValues(wt), <<>>) /\ n - i = 0
      BY <1>1, <2>1 DEF Scans, ScanFrom
    <3>2. scan[i].fields = NoValues(wt)
      BY <3>1 DEF Found
    <3> QED
      BY <3>1, <3>2, NoRoom
  <2>2. CASE i # n
    <3> DEFINE f == Field(wt, bs, i)
               t == scan[f.at]
               g == t.fields
               h == Consed(g, f)
    <3>1. /\ FieldRead(wt, bs, i, f) /\ f.at \in i + 1 .. n
          /\ g \in FieldMaps(wt) /\ t.st = "ok"
          /\ \E u : scan[i] = Found(h, u)
      <4>1. f = Field(wt, bs, i) /\ t = scan[f.at]
        OBVIOUS
      <4> HIDE DEF f, t
      <4>2. /\ FieldRead(wt, bs, i, f) /\ f.at \in i + 1 .. Len(bs)
            /\ t.fields \in FieldMaps(wt) /\ t.st = "ok"
            /\ scan[i] = Found(Consed(t.fields, f),
                               IF f.num \in DOMAIN wt THEN t.unknown ELSE f.v \o t.unknown)
        BY <2>2, <4>1, ScanGoesOn
      <4> QED
        BY <4>2
    <3>2. scan[i].fields = h
      <4> HIDE DEF h
      <4> QED
        BY <3>1 DEF Found
    <3>3. Roomy(wt, g, n - f.at)
      <4>1. f.at \in P
        BY <3>1
      <4> QED
        BY <3>1, <4>1
    <3>4. i \in Nat /\ i <= Len(bs)
      BY <1>1
    <3> HIDE DEF f, g
    <3>5. Roomy(wt, h, n - i)
      BY <3>1, <3>3, <3>4, RoomForOne
    <3> QED
      BY <3>2, <3>5
  <2> QED
    BY <2>1, <2>2
<1>3. \A i \in 0 .. n : i \in P
  <2> HIDE DEF P, n
  <2> QED
    BY <1>1, <1>2, InductionDown
<1> QED
  BY <1>3

(* The same of the whole buffer.                                           *)
LEMMA ScanRoom ==
  ASSUME NEW wt, IsTable(wt), NEW bs \in Bytes, Fits(bs), NEW s, s = Scan(wt, bs), s.st = "ok"
  PROVE  Roomy(wt, s.fields, Len(bs))
<1>1. PICK scan : Scans(scan, wt, bs) /\ Scan(wt, bs) = scan[0]
  BY ScanRuns
<1> DEFINE z == 0
<1>2. z \in 0 .. Len(bs) /\ scan[z] = s /\ Len(bs) - z = Len(bs)
  BY <1>1 DEF Bytes
<1> HIDE DEF z
<1>3. Roomy(wt, scan[z].fields, Len(bs) - z)
  BY <1>1, <1>2, ScansRoom
<1> QED
  BY <1>2, <1>3

-----------------------------------------------------------------------------
(* A scan is a scan of the first field and of what is behind.              *)

(* What is found in a buffer is found at its end.                          *)
LEMMA ScanBehind ==
  ASSUME NEW wt, IsTable(wt), NEW b \in Bytes, Fits(b), NEW c \in Bytes, Fits(c),
         NEW k \in Nat, Len(c) = k + Len(b), Matches(b, 0, c, k, Len(b)),
         Scan(wt, b).st = "ok", NEW sc, Scans(sc, wt, c)
  PROVE  sc[k] = Scan(wt, b)
<1>1. PICK sb : Scans(sb, wt, b) /\ Scan(wt, b) = sb[0]
  BY ScanRuns
<1> DEFINE n == Len(b)
           Fine(i) == sb[i].st = "ok" => sc[k + i] = sb[i]
           P == {i \in 0 .. n : Fine(i)}
<1>2. n \in Nat /\ Len(c) = k + n
  BY DEF Bytes
<1>3. Descends(P, n)
  <2> SUFFICES ASSUME NEW i \in 0 .. n, \A j \in i + 1 .. n : j \in P, sb[i].st = "ok"
               PROVE  sc[k + i] = sb[i]
    BY DEF Descends
  <2>0. k + i \in 0 .. Len(c) /\ k + i \in Nat /\ i \in Nat /\ (k + i = Len(c) <=> i = n)
    BY <1>2
  <2>1. sc[k + i] = ScanFrom(wt, c, sc, k + i) /\ sb[i] = ScanFrom(wt, b, sb, i)
    BY <1>1, <2>0 DEF Scans
  <2>2. CASE i = n
    BY <2>0, <2>1, <2>2 DEF ScanFrom
  <2>3. CASE i # n
    <3> DEFINE f == Field(wt, b, i)
               t == sb[f.at]
               ki == k + i
               m == n - i
               e == f.at - i + ki
    <3>1. FieldRead(wt, b, i, f) /\ f.st = "ok" /\ f.at \in i + 1 .. n /\ t.st = "ok"
      BY <1>1, <2>3, ScanGoesOn
    <3>2. Matches(b, i, c, ki, m)
      <4> DEFINE z == 0
      <4>1. z \in Nat /\ Matches(b, z, c, k, n) /\ i \in 0 .. n
        OBVIOUS
      <4> HIDE DEF z, n
      <4>2. Matches(b, z + i, c, k + i, n - i)
        BY <1>2, <4>1, MatchesBehind
      <4>3. z + i = i
        BY <2>0 DEF z
      <4> QED
        BY <4>2, <4>3
    <3>3. m \in Nat /\ ki \in Nat /\ f.at <= i + m /\ e = k + f.at /\ f.at \in 0 .. n
      BY <1>2, <2>0, <3>1
    <3>4. f = Field(wt, b, i) /\ e = f.at - i + ki
      OBVIOUS
    <3> HIDE DEF f, m, ki, e
    <3>4a. f.st = "ok" /\ f.at <= i + m /\ i \in Nat /\ ki \in Nat /\ m \in Nat
      BY <2>0, <3>1, <3>3
    <3>5. Field(wt, c, ki) = [st |-> "ok", num |-> f.num, v |-> f.v, at |-> e]
      BY <3>2, <3>4, <3>4a, FieldMatches
    <3> DEFINE x == Field(wt, c, ki)
    <3>6. x.st = "ok" /\ x.num = f.num /\ x.v = f.v /\ x.at = k + f.at
      BY <3>3, <3>5
    <3>7. sc[x.at] = t
      <4>1. f.at \in P
        BY <3>1
      <4> QED
        BY <3>1, <3>6, <4>1
    <3> HIDE DEF x, t, n
    <3>8. sc[k + i] = Put(x, t)
      BY <2>0, <2>1, <2>3, <3>1, <3>6, <3>7 DEF ScanFrom, ki, x
    <3>9. sb[i] = Put(f, t)
      BY <2>1, <2>3, <3>1, <3>4 DEF ScanFrom, n, t
    <3>10. Put(x, t) = Put(f, t)
      BY <3>6 DEF Put
    <3> QED
      BY <3>8, <3>9, <3>10
  <2> QED
    BY <2>2, <2>3
<1>4. \A i \in 0 .. n : i \in P
  <2> HIDE DEF P, n
  <2> QED
    BY <1>2, <1>3, InductionDown
<1>5. 0 \in P /\ k + 0 = k
  BY <1>2, <1>4
<1> QED
  BY <1>1, <1>5

(* The two halves of bytes put together.                                   *)
LEMMA JoinMatches ==
  ASSUME NEW a \in Bytes, NEW b \in Bytes, NEW ab, ab = a \o b, Fits(ab)
  PROVE  /\ ab \in Bytes /\ Len(ab) = Len(a) + Len(b) /\ Len(a) \in Nat /\ Len(b) \in Nat
         /\ Fits(a) /\ Fits(b)
         /\ Matches(a, 0, ab, 0, Len(a)) /\ Matches(b, 0, ab, Len(a), Len(b))
         /\ Rest(ab, Len(a)) = b
<1>1. ab \in Bytes /\ Len(ab) = Len(a) + Len(b) /\ Len(a) \in Nat /\ Len(b) \in Nat
      /\ Len(ab) \in Nat
  BY BytesJoin DEF Bytes
<1>2. /\ \A k \in 1 .. Len(a) : ab[k] = a[k]
      /\ \A k \in 1 .. Len(b) : ab[Len(a) + k] = b[k]
  BY BytesJoin DEF Joined
<1>3. Fits(a) /\ Fits(b)
  <2>1. Len(a) <= Len(ab) /\ Len(b) <= Len(ab)
    BY <1>1
  <2>2. Len(a) \in Nat /\ Len(b) \in Nat /\ Len(ab) \in Nat
    BY <1>1
  <2> QED
    BY <2>1, <2>2, ShorterFits
<1>4. Matches(a, 0, ab, 0, Len(a))
  BY <1>1, <1>2 DEF Matches
<1>5. Matches(b, 0, ab, Len(a), Len(b))
  BY <1>1, <1>2 DEF Matches
<1>6. Rest(ab, Len(a)) = b
  <2> DEFINE r == Rest(ab, Len(a))
             n == Len(a)
  <2>1. n \in Nat /\ n <= Len(ab) /\ Len(ab) - n = Len(b)
    BY <1>1
  <2>2. r \in Bytes /\ Len(r) = Len(ab) - n
        /\ \A k \in 1 .. Len(ab) - n : r[k] = ab[n + k]
    <3>1. r = Rest(ab, n) /\ n \in Nat /\ n <= Len(ab) /\ ab \in Bytes
      BY <1>1, <2>1
    <3> HIDE DEF r, n
    <3> QED
      BY <3>1, RestIs
  <2>3. Len(r) = Len(b) /\ \A k \in 1 .. Len(r) : r[k] = b[k]
    <3> HIDE DEF r
    <3> QED
      BY <1>2, <2>1, <2>2
  <2> HIDE DEF r
  <2>4. r = b
    BY <2>2, <2>3, BytesSame
  <2> QED
    BY <2>4 DEF r
<1> QED
  BY <1>1, <1>3, <1>4, <1>5, <1>6

(* A field in front of what is scanned.                                    *)
LEMMA ScanPrepends ==
  ASSUME NEW wt, IsTable(wt), NEW a \in Bytes, NEW b \in Bytes, Fits(a \o b), Len(a) >= 1,
         NEW f, f = Field(wt, a \o b, 0), f.st = "ok", f.at = Len(a),
         NEW g, NEW u, Scan(wt, b) = Found(g, u)
  PROVE  Scan(wt, a \o b) =
           Found(Consed(g, f), IF f.num \in DOMAIN wt THEN u ELSE f.v \o u)
<1> DEFINE ab == a \o b
           z == 0
<1>1. /\ ab \in Bytes /\ Len(ab) = Len(a) + Len(b) /\ Len(a) \in Nat /\ Len(b) \in Nat
      /\ Fits(b) /\ Fits(ab) /\ Matches(b, 0, ab, Len(a), Len(b))
  BY JoinMatches
<1>2. f = Field(wt, ab, z) /\ z \in 0 .. Len(ab) /\ z # Len(ab)
  BY <1>1
<1> HIDE DEF ab
<1>3. PICK scan : Scans(scan, wt, ab) /\ Scan(wt, ab) = scan[z]
  BY <1>1, ScanRuns
<1> HIDE DEF z
<1>4. scan[Len(a)] = Found(g, u)
  <2> DEFINE k == Len(a)
  <2>1. k \in Nat /\ Len(ab) = k + Len(b) /\ Matches(b, 0, ab, k, Len(b))
    BY <1>1
  <2>2. Scan(wt, b).st = "ok"
    BY DEF Found
  <2> HIDE DEF k
  <2>3. scan[k] = Scan(wt, b)
    BY <1>1, <1>3, <2>1, <2>2, ScanBehind
  <2> QED
    BY <2>3 DEF k
<1>5. scan[z] = ScanFrom(wt, ab, scan, z)
  BY <1>2, <1>3 DEF Scans
<1>6. scan[z] = Put(f, Found(g, u))
  BY <1>2, <1>4, <1>5 DEF ScanFrom, Found
<1>7. scan[z].st = "ok"
  BY <1>6 DEF Put, Found
<1> DEFINE t == scan[f.at]
<1>8. t = Found(g, u)
  BY <1>4
<1>9. t.fields = g /\ t.unknown = u
  BY <1>8 DEF Found
<1> HIDE DEF t
<1>10. scan[z] = Found(Consed(t.fields, f),
                       IF f.num \in DOMAIN wt THEN t.unknown ELSE f.v \o t.unknown)
  BY <1>1, <1>2, <1>3, <1>7, ScanGoesOn DEF t
<1> QED
  BY <1>3, <1>9, <1>10 DEF ab

(* Nothing is found in nothing.                                            *)
LEMMA ScanNothing ==
  ASSUME NEW wt, IsTable(wt)
  PROVE  Scan(wt, <<>>) = Found(NoValues(wt), <<>>) /\ Fits(<<>>)
<1> DEFINE e == <<>>
           z == 0
<1>1. e \in Bytes /\ Len(e) = z /\ z \in 0 .. Len(e)
  BY NoBytes
<1>2. Fits(e)
  BY <1>1, Words DEF Fits, Half
<1>3. PICK scan : Scans(scan, wt, e) /\ Scan(wt, e) = scan[z]
  <2> HIDE DEF e
  <2> QED
    BY <1>1, <1>2, ScanRuns
<1> HIDE DEF z
<1>4. scan[z] = Found(NoValues(wt), <<>>)
  BY <1>1, <1>3 DEF Scans, ScanFrom
<1> QED
  BY <1>2, <1>3, <1>4

(* A field that is not known changes no value.                             *)
LEMMA ConsedNothing ==
  ASSUME NEW wt, NEW f, f.num \notin DOMAIN wt
  PROVE  Consed(NoValues(wt), f) = NoValues(wt)
BY DEF Consed, NoValues

(* The bytes of unknown fields: scanned alone, they are found again.       *)
Kept(wt) == {u \in Bytes : Scan(wt, u) = Found(NoValues(wt), u)}

(* One more unknown field in front of unknown fields.                      *)
LEMMA KeptMore ==
  ASSUME NEW wt, IsTable(wt), NEW bs \in Bytes, Fits(bs), NEW i \in Nat, i <= Len(bs),
         NEW f, f = Field(wt, bs, i), f.st = "ok", FieldRead(wt, bs, i, f), f.num \notin DOMAIN wt,
         NEW u \in Kept(wt), Len(u) <= Len(bs) - f.at
  PROVE  f.v \o u \in Kept(wt) /\ Len(f.v \o u) <= Len(bs) - i
<1> DEFINE a == f.v
           m == f.at - i
           ab == a \o u
           z == 0
<1>1. a \in Bytes /\ Len(a) = m /\ u \in Bytes /\ Scan(wt, u) = Found(NoValues(wt), u)
  BY UnknownBytes DEF Kept
<1>2. m \in Nat /\ m >= 1 /\ i + m = f.at /\ f.at \in i + 1 .. Len(bs) /\ Len(bs) \in Nat
      /\ Len(u) \in Nat
  <2>1. f.at \in i + 1 .. Len(bs)
    BY DEF FieldRead
  <2>2. Len(bs) \in Nat /\ Len(u) \in Nat
    BY <1>1 DEF Bytes
  <2>3. \A x \in i + 1 .. Len(bs) :
          x - i \in Nat /\ x - i >= 1 /\ i + (x - i) = x
    BY <2>2
  <2> QED
    BY <2>1, <2>2, <2>3
<1>3. a = SubSeq(bs, i + 1, f.at) /\ f.at \in Nat /\ i <= f.at
  BY <1>2 DEF FieldRead
<1>4. \A k \in 1 .. m : a[k] = bs[i + k]
  <2> DEFINE j == f.at
  <2>1. j \in Nat /\ i <= j /\ j <= Len(bs) /\ a = SubSeq(bs, i + 1, j) /\ m = j - i
    BY <1>2, <1>3
  <2> HIDE DEF j, a, m
  <2>2. \A k \in 1 .. j - i : SubSeq(bs, i + 1, j)[k] = bs[i + k]
    BY <2>1, PartIs
  <2> QED
    BY <2>1, <2>2
<1> HIDE DEF a, m
<1>5. ab \in Bytes /\ Len(ab) = m + Len(u) /\ Len(ab) <= Len(bs) - i /\ Len(ab) <= Len(bs)
      /\ Len(ab) \in Nat
  <2>1. ab \in Bytes /\ Len(ab) = Len(a) + Len(u)
    BY <1>1, BytesJoin
  <2> HIDE DEF ab
  <2> QED
    BY <1>1, <1>2, <2>1 DEF m
<1>6. \A k \in 1 .. m : ab[k] = a[k]
  BY <1>1, BytesJoin DEF Joined
<1>7. Fits(ab)
  <2> HIDE DEF ab
  <2> QED
    BY <1>2, <1>5, ShorterFits
<1> HIDE DEF ab
<1>8. Matches(bs, i, ab, z, m)
  BY <1>2, <1>4, <1>5, <1>6 DEF Matches
<1>9. z \in Nat /\ m = f.at - i + z /\ f.at <= i + m /\ z = 0
  BY <1>2 DEF m
<1> HIDE DEF z
<1>10. Field(wt, ab, z) = [st |-> "ok", num |-> f.num, v |-> f.v, at |-> m]
  <2>1. z \in Nat /\ m \in Nat /\ f.at <= i + m /\ m = f.at - i + z
    BY <1>2, <1>9
  <2>2. ab \in Bytes
    BY <1>5
  <2> QED
    BY <1>7, <1>8, <2>1, <2>2, FieldMatches
<1> DEFINE x == Field(wt, ab, z)
<1>11. x.st = "ok" /\ x.num = f.num /\ x.v = a /\ x.at = m
  BY <1>10 DEF a
<1> HIDE DEF x
<1>12. x = Field(wt, a \o u, 0) /\ Fits(a \o u) /\ x.at = Len(a) /\ Len(a) >= 1
  BY <1>1, <1>2, <1>7, <1>9, <1>11 DEF x, ab
<1>13. Scan(wt, a \o u) = Found(Consed(NoValues(wt), x),
                                IF x.num \in DOMAIN wt THEN u ELSE x.v \o u)
  BY <1>1, <1>11, <1>12, ScanPrepends
<1>14. Scan(wt, ab) = Found(NoValues(wt), ab)
  BY <1>11, <1>13, ConsedNothing DEF ab
<1> QED
  BY <1>5, <1>14 DEF Kept, a, ab

(* The unknown bytes that a scan finds are such bytes.                     *)
LEMMA ScansKeep ==
  ASSUME NEW wt, IsTable(wt), NEW bs \in Bytes, Fits(bs), NEW scan, Scans(scan, wt, bs)
  PROVE  \A i \in 0 .. Len(bs) : scan[i].st = "ok" =>
           scan[i].unknown \in Kept(wt) /\ Len(scan[i].unknown) <= Len(bs) - i
<1> DEFINE n == Len(bs)
           Fine(i) == scan[i].st = "ok" =>
                        scan[i].unknown \in Kept(wt) /\ Len(scan[i].unknown) <= n - i
           P == {i \in 0 .. n : Fine(i)}
<1>1. n \in Nat
  BY DEF Bytes
<1>2. Descends(P, n)
  <2> SUFFICES ASSUME NEW i \in 0 .. n, \A j \in i + 1 .. n : j \in P, scan[i].st = "ok"
               PROVE  scan[i].unknown \in Kept(wt) /\ Len(scan[i].unknown) <= n - i
    BY DEF Descends
  <2>1. CASE i = n
    <3>1. scan[i] = Found(NoValues(wt), <<>>) /\ n - i = 0
      BY <1>1, <2>1 DEF Scans, ScanFrom
    <3>2. scan[i].unknown = <<>>
      BY <3>1 DEF Found
    <3>3. <<>> \in Kept(wt)
      BY ScanNothing, NoBytes DEF Kept
    <3> QED
      BY <3>1, <3>2, <3>3, NoBytes
  <2>2. CASE i # n
    <3> DEFINE f == Field(wt, bs, i)
               t == scan[f.at]
               u == t.unknown
               x == IF f.num \in DOMAIN wt THEN u ELSE f.v \o u
    <3>1. /\ FieldRead(wt, bs, i, f) /\ f.st = "ok" /\ f.at \in i + 1 .. n
          /\ t.st = "ok" /\ u \in Bytes
          /\ \E h : scan[i] = Found(h, x)
      BY <2>2, ScanGoesOn
    <3>2. scan[i].unknown = x
      <4> HIDE DEF x
      <4> QED
        BY <3>1 DEF Found
    <3>3. u \in Kept(wt) /\ Len(u) <= n - f.at /\ Len(u) \in Nat
      <4>1. f.at \in P
        BY <3>1
      <4> QED
        BY <3>1, <4>1 DEF Bytes
    <3>4. i \in Nat /\ i <= Len(bs) /\ f = Field(wt, bs, i)
      BY <1>1
    <3> HIDE DEF f, u
    <3>5. CASE f.num \in DOMAIN wt
      <4>1. Len(u) <= n - i
        BY <1>1, <3>1, <3>3
      <4> QED
        BY <3>2, <3>3, <3>5, <4>1
    <3>6. CASE f.num \notin DOMAIN wt
      <4>1. f.v \o u \in Kept(wt) /\ Len(f.v \o u) <= n - i
        BY <3>1, <3>3, <3>4, <3>6, KeptMore
      <4> QED
        BY <3>2, <3>6, <4>1
    <3> QED
      BY <3>5, <3>6
  <2> QED
    BY <2>1, <2>2
<1>3. \A i \in 0 .. n : i \in P
  <2> HIDE DEF P, n
  <2> QED
    BY <1>1, <1>2, InductionDown
<1> QED
  BY <1>3

(* What Scan keeps is nothing but unknown fields.                          *)
LEMMA ScanKeeps ==
  ASSUME NEW wt, IsTable(wt), NEW bs \in Bytes, Fits(bs), NEW s, s = Scan(wt, bs), s.st = "ok"
  PROVE  s.unknown \in Kept(wt)
<1>1. PICK scan : Scans(scan, wt, bs) /\ Scan(wt, bs) = scan[0]
  BY ScanRuns
<1> DEFINE z == 0
<1>2. z \in 0 .. Len(bs) /\ scan[z] = s
  BY <1>1 DEF Bytes
<1> HIDE DEF z
<1> QED
  BY <1>1, <1>2, ScansKeep

-----------------------------------------------------------------------------
(* Values of fields.                                                       *)

Buffers == {bs \in Bytes : Fits(bs)}
Word  == 0 .. Full - 1
Int64 == -Half .. Half - 1

(* What a scan of a buffer finds.                                          *)
LEMMA ScanFinds ==
  ASSUME NEW wt, IsTable(wt), NEW bs \in Buffers, NEW s, s = Scan(wt, bs)
  PROVE  \/ s = Failed
         \/ /\ s.st = "ok" /\ s = Found(s.fields, s.unknown)
            /\ s.fields \in FieldMaps(wt) /\ s.unknown \in Kept(wt)
            /\ Roomy(wt, s.fields, Len(bs))
<1>1. bs \in Bytes /\ Fits(bs)
  BY DEF Buffers
<1>2. s \in ScanResults(wt)
  BY <1>1, ScanType
<1>3. s = Failed \/ s.st = "ok"
  BY <1>2 DEF ScanResults
<1>4. CASE s.st = "ok"
  BY <1>1, <1>2, <1>4, FoundParts, ScanKeeps, ScanRoom
<1> QED
  BY <1>3, <1>4

(* The last value of a field.                                              *)
LEMMA LastOfType ==
  ASSUME NEW s, NEW n, NEW V, s.fields[n] \in Seq(V), NEW zero \in V
  PROVE  LastOf(s, n, zero) \in V
<1> DEFINE vs == s.fields[n]
<1>1. vs \in Seq(V)
  OBVIOUS
<1> HIDE DEF vs
<1>2. vs # <<>> => vs[Len(vs)] \in V
  BY <1>1
<1> QED
  BY <1>2 DEF LastOf, Values, vs

(* A string field is bytes.                                                *)
LEMMA StringType ==
  ASSUME NEW wt, NEW s, s.fields \in FieldMaps(wt), NEW n \in DOMAIN wt, wt[n] = 2
  PROVE  StringOf(s, n) \in Bytes
<1>1. s.fields[n] \in Seq(Bytes) /\ <<>> \in Bytes
  BY NoBytes DEF FieldMaps, ValueSet
<1> QED
  BY <1>1, LastOfType DEF StringOf

(* A number field is a word, an int or a Boolean.                          *)
LEMMA NumberType ==
  ASSUME NEW wt, NEW s, s.fields \in FieldMaps(wt), NEW n \in DOMAIN wt, wt[n] = 0
  PROVE  LastOf(s, n, 0) \in Word /\ Int64Of(s, n) \in Int64 /\ BoolOf(s, n) \in BOOLEAN
<1>1. s.fields[n] \in Seq(Word)
  BY DEF FieldMaps, ValueSet, Word
<1>2. 0 \in Word
  BY Words DEF Word
<1>3. LastOf(s, n, 0) \in Word
  BY <1>1, <1>2, LastOfType
<1>4. Int64Of(s, n) \in Int64
  <2> DEFINE v == LastOf(s, n, 0)
  <2>1. v \in 0 .. Full - 1
    BY <1>3 DEF Word
  <2> HIDE DEF v
  <2>2. GoInt(v) \in -Half .. Half - 1
    BY <2>1, GoIntIs, Words
  <2> QED
    BY <2>2 DEF Int64Of, Int64, v
<1> QED
  BY <1>3, <1>4 DEF BoolOf

(* The values of a field that is a message can be unmarshalled.            *)
Readable(vs) == vs \in Seq(Buffers) /\ Concatenated(vs) \in Buffers

(* The values of a field that holds messages can be read themselves.       *)
LEMMA ValuesReadable ==
  ASSUME NEW wt, NEW bs \in Buffers, NEW s, Roomy(wt, s.fields, Len(bs)),
         NEW n \in DOMAIN wt, wt[n] = 2
  PROVE  Readable(Values(s, n))
<1> DEFINE vs == s.fields[n]
<1>1. /\ vs \in Seq(Bytes) /\ Len(Concatenated(vs)) <= Len(bs)
      /\ \A k \in 1 .. Len(vs) : Len(vs[k]) <= Len(bs)
  BY DEF Roomy
<1>2. bs \in Bytes /\ Fits(bs) /\ Len(bs) \in Nat
  BY DEF Buffers, Bytes
<1> HIDE DEF vs
<1>3. Concatenated(vs) \in Bytes
  BY <1>1, ConcatenatedRuns, ConcatenatedIs
<1>4. Concatenated(vs) \in Buffers
  <2>1. Len(Concatenated(vs)) \in Nat
    BY <1>3 DEF Bytes
  <2>2. Fits(Concatenated(vs))
    BY <1>1, <1>2, <2>1, ShorterFits
  <2> QED
    BY <1>3, <2>2 DEF Buffers
<1>5. ASSUME NEW k \in 1 .. Len(vs)
      PROVE  vs[k] \in Buffers
  <2>1. vs[k] \in Bytes
    BY <1>1
  <2>2. Len(vs[k]) \in Nat /\ Len(vs[k]) <= Len(bs)
    BY <1>1, <2>1 DEF Bytes
  <2>3. Fits(vs[k])
    BY <1>2, <2>2, ShorterFits
  <2> QED
    BY <2>1, <2>3 DEF Buffers
<1>6. vs \in Seq(Buffers)
  BY <1>1, <1>5
<1> QED
  BY <1>4, <1>6 DEF Readable, Values, vs

(* All of a list of results.                                               *)
LEMMA AllIs ==
  ASSUME NEW n \in Nat, NEW r, DOMAIN r = 1 .. n,
         \A k \in 1 .. n : r[k] = Failed \/ r[k].st = "ok"
  PROVE  \/ All(r) = Failed /\ \E k \in 1 .. n : r[k] = Failed
         \/ All(r) = Ok([k \in 1 .. n |-> r[k].v], 0) /\ \A k \in 1 .. n : r[k].st = "ok"
<1> DEFINE bad == {k \in DOMAIN r : r[k].st # "ok"}
<1>1. CASE bad # {}
  <2>1. bad \subseteq Nat
    OBVIOUS
  <2>2. \E d \in bad : \A e \in bad : d <= e
    <3> HIDE DEF bad
    <3> QED
      BY <1>1, <2>1, MinimumExists
  <2>3. Min(bad) \in bad
    <3> HIDE DEF bad
    <3> QED
      BY <2>2 DEF Min
  <2>4. All(r) = r[Min(bad)]
    BY <1>1 DEF All
  <2> QED
    BY <2>3, <2>4
<1>2. CASE bad = {}
  BY <1>2 DEF All
<1> QED
  BY <1>1, <1>2

-----------------------------------------------------------------------------
(* Two unmarshallers of a message that is a field.                         *)

(* Both fail, or they read the message of S and what plain makes of it.    *)
Agreeing(p, g, S, plain) ==
  \/ p = Failed /\ g = Failed
  \/ \E m \in S : p = Ok(m, 0) /\ g = Ok(plain[m], 0)
ReadAlike(up, ug, S, plain) == \A bs \in Buffers : Agreeing(up[bs], ug[bs], S, plain)

EachOf(u, vs) == All([k \in DOMAIN vs |-> u[vs[k]]])
MergedOf(u, vs) == IF EachOf(u, vs).st = "ok" THEN u[Concatenated(vs)] ELSE EachOf(u, vs)
OptionalOf(u, vs) ==
  IF vs = <<>> THEN Ok(<<>>, 0)
  ELSE IF MergedOf(u, vs).st = "ok" THEN Ok(<<MergedOf(u, vs).v>>, 0) ELSE MergedOf(u, vs)
PlainList(plain, ms) == [k \in DOMAIN ms |-> plain[ms[k]]]

(* A list of them.                                                         *)
LEMMA EachAgrees ==
  ASSUME NEW up, NEW ug, NEW S, NEW plain, ReadAlike(up, ug, S, plain),
         NEW vs \in Seq(Buffers)
  PROVE  \/ EachOf(up, vs) = Failed /\ EachOf(ug, vs) = Failed
         \/ \E ms \in Seq(S) : EachOf(up, vs) = Ok(ms, 0)
                               /\ EachOf(ug, vs) = Ok(PlainList(plain, ms), 0)
<1> DEFINE n == Len(vs)
           p == [k \in DOMAIN vs |-> up[vs[k]]]
           g == [k \in DOMAIN vs |-> ug[vs[k]]]
<1>1. n \in Nat /\ DOMAIN vs = 1 .. n /\ \A k \in 1 .. n : vs[k] \in Buffers
  OBVIOUS
<1>2. DOMAIN p = 1 .. n /\ DOMAIN g = 1 .. n
      /\ \A k \in 1 .. n : p[k] = up[vs[k]] /\ g[k] = ug[vs[k]]
  BY <1>1
<1>3. EachOf(up, vs) = All(p) /\ EachOf(ug, vs) = All(g)
  BY DEF EachOf
<1> HIDE DEF p, g, n
<1>4. \A k \in 1 .. n : Agreeing(p[k], g[k], S, plain)
  BY <1>1, <1>2 DEF ReadAlike
<1>5. \A k \in 1 .. n : \/ p[k] = Failed /\ g[k] = Failed
                        \/ p[k].st = "ok" /\ g[k].st = "ok" /\ p[k].v \in S
                           /\ g[k].v = plain[p[k].v]
  <2> SUFFICES ASSUME NEW k \in 1 .. n
               PROVE  \/ p[k] = Failed /\ g[k] = Failed
                      \/ p[k].st = "ok" /\ g[k].st = "ok" /\ p[k].v \in S
                         /\ g[k].v = plain[p[k].v]
    OBVIOUS
  <2> DEFINE x == p[k]
             y == g[k]
  <2>1. Agreeing(x, y, S, plain)
    BY <1>4
  <2> HIDE DEF x, y
  <2>2. (x = Failed /\ y = Failed) \/ \E m \in S : x = Ok(m, 0) /\ y = Ok(plain[m], 0)
    BY <2>1 DEF Agreeing
  <2>3. ASSUME NEW m \in S, x = Ok(m, 0), y = Ok(plain[m], 0)
        PROVE  x.st = "ok" /\ y.st = "ok" /\ x.v \in S /\ y.v = plain[x.v]
    <3>1. x.st = "ok" /\ y.st = "ok" /\ x.v = m /\ y.v = plain[m]
      BY <2>3, OkParts
    <3> QED
      BY <3>1
  <2>4. \/ x = Failed /\ y = Failed
        \/ x.st = "ok" /\ y.st = "ok" /\ x.v \in S /\ y.v = plain[x.v]
    BY <2>2, <2>3
  <2> QED
    BY <2>4 DEF x, y
<1>6. \/ All(p) = Failed /\ \E k \in 1 .. n : p[k] = Failed
      \/ All(p) = Ok([k \in 1 .. n |-> p[k].v], 0) /\ \A k \in 1 .. n : p[k].st = "ok"
  BY <1>1, <1>2, <1>5, AllIs
<1>7. \/ All(g) = Failed /\ \E k \in 1 .. n : g[k] = Failed
      \/ All(g) = Ok([k \in 1 .. n |-> g[k].v], 0) /\ \A k \in 1 .. n : g[k].st = "ok"
  BY <1>1, <1>2, <1>5, AllIs
<1>8. CASE \E k \in 1 .. n : p[k] = Failed \/ g[k] = Failed
  <2>1. PICK k \in 1 .. n : p[k] = Failed \/ g[k] = Failed
    BY <1>8
  <2>2. p[k] = Failed /\ g[k] = Failed
    BY <1>5, <2>1 DEF Failed
  <2>3. All(p) = Failed /\ All(g) = Failed
    BY <1>6, <1>7, <2>2 DEF Failed
  <2> QED
    BY <1>3, <2>3
<1>9. CASE \A k \in 1 .. n : p[k] # Failed /\ g[k] # Failed
  <2> DEFINE ms == [k \in 1 .. n |-> p[k].v]
             gs == [k \in 1 .. n |-> g[k].v]
  <2>1. \A k \in 1 .. n : p[k].v \in S /\ g[k].v = plain[p[k].v]
    BY <1>5, <1>9
  <2>2. ms \in Seq(S) /\ DOMAIN ms = 1 .. n
    BY <1>1, <2>1
  <2>3. gs = PlainList(plain, ms)
    BY <2>1 DEF PlainList
  <2>4. All(p) = Ok(ms, 0) /\ All(g) = Ok(gs, 0)
    BY <1>6, <1>7, <1>9
  <2> HIDE DEF ms, gs
  <2> QED
    BY <1>3, <2>2, <2>3, <2>4
<1> QED
  BY <1>8, <1>9

(* All occurrences in one message.                                         *)
LEMMA MergedAgrees ==
  ASSUME NEW up, NEW ug, NEW S, NEW plain, ReadAlike(up, ug, S, plain),
         NEW vs, Readable(vs)
  PROVE  Agreeing(MergedOf(up, vs), MergedOf(ug, vs), S, plain)
<1>1. vs \in Seq(Buffers) /\ Concatenated(vs) \in Buffers
  BY DEF Readable
<1>2. Agreeing(up[Concatenated(vs)], ug[Concatenated(vs)], S, plain)
  BY <1>1 DEF ReadAlike
<1>3. \/ EachOf(up, vs) = Failed /\ EachOf(ug, vs) = Failed
      \/ EachOf(up, vs).st = "ok" /\ EachOf(ug, vs).st = "ok"
  BY <1>1, EachAgrees DEF Ok
<1>4. CASE EachOf(up, vs) = Failed /\ EachOf(ug, vs) = Failed
  <2>1. MergedOf(up, vs) = Failed /\ MergedOf(ug, vs) = Failed
    BY <1>4 DEF MergedOf, Failed
  <2> QED
    BY <2>1 DEF Agreeing
<1>5. CASE EachOf(up, vs).st = "ok" /\ EachOf(ug, vs).st = "ok"
  BY <1>2, <1>5 DEF MergedOf
<1> QED
  BY <1>3, <1>4, <1>5

(* The same into a pointer.                                                *)
LEMMA OptionalAgrees ==
  ASSUME NEW up, NEW ug, NEW S, NEW plain, ReadAlike(up, ug, S, plain),
         NEW vs, Readable(vs)
  PROVE  \/ OptionalOf(up, vs) = Failed /\ OptionalOf(ug, vs) = Failed
            /\ MergedOf(ug, vs) = Failed /\ vs # <<>>
         \/ /\ vs = <<>> /\ OptionalOf(up, vs) = Ok(<<>>, 0) /\ OptionalOf(ug, vs) = Ok(<<>>, 0)
         \/ \E m \in S : /\ vs # <<>> /\ OptionalOf(up, vs) = Ok(<<m>>, 0)
                         /\ OptionalOf(ug, vs) = Ok(<<plain[m]>>, 0)
                         /\ MergedOf(ug, vs) = Ok(plain[m], 0)
<1> DEFINE p == MergedOf(up, vs)
           g == MergedOf(ug, vs)
<1>1. Agreeing(p, g, S, plain)
  BY MergedAgrees
<1>2. vs # <<>> => /\ OptionalOf(up, vs) = IF p.st = "ok" THEN Ok(<<p.v>>, 0) ELSE p
                   /\ OptionalOf(ug, vs) = IF g.st = "ok" THEN Ok(<<g.v>>, 0) ELSE g
  BY DEF OptionalOf
<1>3. vs = <<>> => OptionalOf(up, vs) = Ok(<<>>, 0) /\ OptionalOf(ug, vs) = Ok(<<>>, 0)
  BY DEF OptionalOf
<1> HIDE DEF p, g
<1>4. CASE p = Failed /\ g = Failed
  <2>1. vs # <<>> => OptionalOf(up, vs) = Failed /\ OptionalOf(ug, vs) = Failed
    BY <1>2, <1>4 DEF Failed
  <2> QED
    BY <1>3, <1>4, <2>1 DEF g
<1>5. ASSUME NEW m \in S, p = Ok(m, 0), g = Ok(plain[m], 0)
      PROVE  vs # <<>> => /\ OptionalOf(up, vs) = Ok(<<m>>, 0)
                          /\ OptionalOf(ug, vs) = Ok(<<plain[m]>>, 0)
                          /\ MergedOf(ug, vs) = Ok(plain[m], 0)
  <2>1. p.st = "ok" /\ p.v = m /\ g.st = "ok" /\ g.v = plain[m]
    BY <1>5, OkParts
  <2> QED
    BY <1>2, <1>5, <2>1 DEF g
<1> QED
  BY <1>1, <1>3, <1>4, <1>5 DEF Agreeing

(* The tables of wire types.                                               *)
LEMMA Tables ==
  /\ IsTable(<<>>) /\ IsTable(<<2>>) /\ IsTable(<<2, 0>>) /\ IsTable(<<2, 2>>)
  /\ IsTable(<<2, 2, 0>>) /\ IsTable(<<2, 0, 0, 0, 0>>)
BY DEF IsTable

(* A pointer to a message of S.                                            *)
Pointer(S) == {<<>>} \cup {<<m>> : m \in S}

(* Nothing put together.                                                   *)
LEMMA ConcatenatedNothing ==
  Concatenated(<<>>) = <<>>
<1> DEFINE e == <<>>
           z == 0
<1>1. e \in Seq(Bytes) /\ Len(e) = z
  OBVIOUS
<1> HIDE DEF e
<1>2. PICK w : Firsts(w, e) /\ Concatenated(e) = w[Len(e)]
  BY <1>1, ConcatenatedRuns
<1> QED
  BY <1>1, <1>2 DEF Firsts, e, z

(* What is merged out of nothing.                                          *)
LEMMA MergedNothing ==
  ASSUME NEW u, u[<<>>].st = "ok"
  PROVE  MergedOf(u, <<>>) = u[<<>>]
<1>1. EachOf(u, <<>>).st = "ok"
  <2> DEFINE r == [k \in DOMAIN <<>> |-> u[<<>>[k]]]
  <2>1. EachOf(u, <<>>) = All(r)
    BY DEF EachOf
  <2>2. {k \in DOMAIN r : r[k].st # "ok"} = {}
    OBVIOUS
  <2>3. All(r) = Ok([k \in DOMAIN r |-> r[k].v], 0)
    <3> HIDE DEF r
    <3> QED
      BY <2>2 DEF All
  <2> HIDE DEF r
  <2> QED
    BY <2>1, <2>3, OkParts
<1> QED
  BY <1>1, ConcatenatedNothing DEF MergedOf

-----------------------------------------------------------------------------
(* Writing a number.                                                       *)

(* Seven bits less.                                                        *)
LEMMA Shifted ==
  ASSUME NEW v \in Nat, v >= 128
  PROVE  v \div 128 \in 1 .. v - 1 /\ v % 128 \in 0 .. 127 /\ v = (v % 128) + 128 * (v \div 128)
OBVIOUS

(* The steps of EncodeVarint.                                              *)
PutFrom(put, v) == IF v < 128 THEN <<v>> ELSE <<(v % 128) + 128>> \o put[v \div 128]
Puts(put, x) == \A v \in 0 .. x : put[v] = PutFrom(put, v)

(* A step of it puts bytes.                                                *)
LEMMA PutStep ==
  ASSUME NEW v \in Nat, NEW put, v >= 128 => put[v \div 128] \in Bytes
  PROVE  PutFrom(put, v) \in Bytes
<1>1. CASE v < 128
  <2>1. v \in Byte
    BY <1>1 DEF Byte
  <2>2. <<v>> \in Bytes
    BY <2>1 DEF Bytes
  <2> QED
    BY <1>1, <2>2 DEF PutFrom
<1>2. CASE v >= 128
  <2> DEFINE b == (v % 128) + 128
             r == put[v \div 128]
  <2>1. b \in Byte
    BY Shifted, <1>2 DEF Byte
  <2>2. r \in Bytes
    BY <1>2
  <2>3. PutFrom(put, v) = <<b>> \o r
    BY <1>2 DEF PutFrom
  <2> HIDE DEF b, r
  <2>4. <<b>> \in Bytes
    BY <2>1 DEF Bytes
  <2> QED
    BY <2>2, <2>3, <2>4, BytesJoin
<1> QED
  BY <1>1, <1>2

(* What they put is bytes.                                                 *)
LEMMA PutsBytes ==
  ASSUME NEW x \in Nat, NEW put, Puts(put, x)
  PROVE  \A v \in 0 .. x : put[v] \in Bytes
<1> DEFINE P == {v \in 0 .. x : put[v] \in Bytes}
<1>1. ASSUME NEW i \in 0 .. x, \A j \in 0 .. i - 1 : j \in P
      PROVE  i \in P
  <2>1. i >= 128 => put[i \div 128] \in Bytes
    <3> SUFFICES ASSUME i >= 128
                 PROVE  put[i \div 128] \in Bytes
      OBVIOUS
    <3>1. i \div 128 \in 0 .. i - 1
      BY Shifted
    <3> QED
      BY <1>1, <3>1
  <2>2. put[i] = PutFrom(put, i)
    BY DEF Puts
  <2>3. PutFrom(put, i) \in Bytes
    <3>1. i \in Nat
      OBVIOUS
    <3> QED
      BY <2>1, <3>1, PutStep
  <2> QED
    BY <2>2, <2>3
<1>2. Ascends(P, x)
  BY <1>1 DEF Ascends
<1>3. \A v \in 0 .. x : v \in P
  <2> HIDE DEF P
  <2> QED
    BY <1>2, InductionUp
<1> QED
  BY <1>3

(* They lead to the same bytes for every larger bound.                     *)
LEMMA PutsAgree ==
  ASSUME NEW x \in Nat, NEW y \in Nat, x <= y, NEW p, Puts(p, x), NEW q, Puts(q, y)
  PROVE  \A v \in 0 .. x : p[v] = q[v]
<1> DEFINE P == {v \in 0 .. x : p[v] = q[v]}
<1>1. ASSUME NEW i \in 0 .. x, \A j \in 0 .. i - 1 : j \in P
      PROVE  i \in P
  <2>1. i >= 128 => p[i \div 128] = q[i \div 128]
    <3> SUFFICES ASSUME i >= 128
                 PROVE  p[i \div 128] = q[i \div 128]
      OBVIOUS
    <3>1. i \div 128 \in 0 .. i - 1
      BY Shifted
    <3> QED
      BY <1>1, <3>1
  <2>2. p[i] = PutFrom(p, i) /\ q[i] = PutFrom(q, i)
    BY DEF Puts
  <2>3. PutFrom(p, i) = PutFrom(q, i)
    BY <2>1 DEF PutFrom
  <2> QED
    BY <2>2, <2>3
<1>2. Ascends(P, x)
  BY <1>1 DEF Ascends
<1>3. \A v \in 0 .. x : v \in P
  <2> HIDE DEF P
  <2> QED
    BY <1>2, InductionUp
<1> QED
  BY <1>3

(* EncodeVarint takes these steps.                                         *)
LEMMA EncodeVarintRuns ==
  ASSUME NEW x \in Nat
  PROVE  \E put : Puts(put, x) /\ EncodeVarint(x) = put[x]
<1> DEFINE S == Bytes
           F == [0 .. x -> S]
           Rec(g) == [v \in 0 .. x |-> IF v < 128 THEN <<v>>
                                       ELSE <<(v % 128) + 128>> \o g[v \div 128]]
           step == [g \in F |-> Rec(g)]
           w == CHOOSE g : g = Rec(g)
<1>1. ASSUME NEW g \in F, NEW v \in 0 .. x
      PROVE  Rec(g)[v] = PutFrom(g, v) /\ PutFrom(g, v) \in S
  <2>1. Rec(g)[v] = PutFrom(g, v)
    BY DEF PutFrom
  <2>2. v >= 128 => g[v \div 128] \in Bytes
    <3> SUFFICES ASSUME v >= 128
                 PROVE  g[v \div 128] \in Bytes
      OBVIOUS
    <3>1. v \div 128 \in 0 .. x
      <4>1. v \in Nat /\ v <= x /\ v \div 128 \in 1 .. v - 1
        BY Shifted
      <4> QED
        BY <4>1
    <3> QED
      BY <3>1
  <2>3. v \in Nat
    OBVIOUS
  <2>4. PutFrom(g, v) \in Bytes
    <3> HIDE DEF F
    <3> QED
      BY <2>2, <2>3, PutStep
  <2> QED
    BY <2>1, <2>4
<1>2. step \in [F -> F]
  <2>1. \A g \in F : Rec(g) \in F
    <3> SUFFICES ASSUME NEW g \in F
                 PROVE  Rec(g) \in F
      OBVIOUS
    <3>1. DOMAIN Rec(g) = 0 .. x /\ Rec(g) = [v \in DOMAIN Rec(g) |-> Rec(g)[v]]
      OBVIOUS
    <3>2. \A v \in 0 .. x : Rec(g)[v] \in S
      <4> HIDE DEF F, S, Rec
      <4> QED
        BY <1>1
    <3> HIDE DEF Rec, S
    <3> QED
      BY <3>1, <3>2
  <2> HIDE DEF F, Rec
  <2> QED
    BY <2>1
<1>3. LooksDown(step, S, x)
  <2> SUFFICES ASSUME NEW f \in F, NEW g \in F, NEW i \in 0 .. x,
                      \A j \in 0 .. i - 1 : f[j] = g[j]
               PROVE  step[f][i] = step[g][i]
    BY DEF LooksDown
  <2>1. PutFrom(f, i) = PutFrom(g, i)
    <3>1. i >= 128 => i \div 128 \in 0 .. i - 1
      BY Shifted
    <3>2. i >= 128 => f[i \div 128] = g[i \div 128]
      BY <3>1
    <3> QED
      BY <3>2 DEF PutFrom
  <2>2. step[f] = Rec(f) /\ step[g] = Rec(g)
    <3> HIDE DEF F, Rec
    <3> QED
      OBVIOUS
  <2> HIDE DEF Rec, step, F, S
  <2> QED
    BY <1>1, <2>1, <2>2
<1>4. PICK f \in F : f = step[f]
  <2>1. S # {}
    BY NoBytes
  <2> HIDE DEF S, step
  <2> QED
    BY <1>2, <1>3, <2>1, RecursionUp
<1>5. f = Rec(f)
  <2> HIDE DEF F, Rec
  <2> QED
    BY <1>4
<1>6. w = Rec(w)
  BY <1>5
<1>7. EncodeVarint(x) = w[x]
  BY DEF EncodeVarint
<1> HIDE DEF w
<1>8. Puts(w, x)
  <2>1. ASSUME NEW v \in 0 .. x
        PROVE  Rec(w)[v] = PutFrom(w, v)
    BY DEF PutFrom
  <2> HIDE DEF Rec
  <2> QED
    BY <1>6, <2>1 DEF Puts
<1> QED
  BY <1>7, <1>8

(* One group, and the others behind it.                                    *)
LEMMA EncodeVarintIs ==
  ASSUME NEW x \in Nat
  PROVE  /\ EncodeVarint(x) \in Bytes
         /\ x < 128 => EncodeVarint(x) = <<x>>
         /\ x >= 128 => EncodeVarint(x) = <<(x % 128) + 128>> \o EncodeVarint(x \div 128)
<1>1. PICK put : Puts(put, x) /\ EncodeVarint(x) = put[x]
  BY EncodeVarintRuns
<1>2. x \in 0 .. x
  OBVIOUS
<1>3. put[x] \in Bytes /\ put[x] = PutFrom(put, x)
  BY <1>1, <1>2, PutsBytes DEF Puts
<1>4. x < 128 => EncodeVarint(x) = <<x>>
  BY <1>1, <1>3 DEF PutFrom
<1>5. ASSUME x >= 128
      PROVE  EncodeVarint(x) = <<(x % 128) + 128>> \o EncodeVarint(x \div 128)
  <2> DEFINE y == x \div 128
  <2>1. y \in Nat /\ y <= x /\ y \in 0 .. y
    <3>1. y \in 1 .. x - 1
      BY <1>5, Shifted
    <3> HIDE DEF y
    <3> QED
      BY <3>1
  <2> HIDE DEF y
  <2>2. PICK q : Puts(q, y) /\ EncodeVarint(y) = q[y]
    BY <2>1, EncodeVarintRuns
  <2>3. q[y] = put[y]
    BY <1>1, <2>1, <2>2, PutsAgree
  <2>4. put[x] = <<(x % 128) + 128>> \o put[y]
    BY <1>3, <1>5 DEF PutFrom, y
  <2> QED
    BY <1>1, <2>2, <2>3, <2>4 DEF y
<1> QED
  BY <1>1, <1>3, <1>4, <1>5

-----------------------------------------------------------------------------
(* The length of a number.                                                 *)

(* One bit less.                                                           *)
LEMMA Halved ==
  ASSUME NEW v \in Nat, v >= 2
  PROVE  v \div 2 \in 1 .. v - 1
OBVIOUS

(* The steps of BitLen.                                                    *)
LenFrom(len, v) == IF v = 1 THEN 1 ELSE 1 + len[v \div 2]
Lens(len, x) == \A v \in 1 .. x : len[v] = LenFrom(len, v)

(* What they count is a number.                                            *)
LEMMA LensType ==
  ASSUME NEW x \in Nat, NEW len, Lens(len, x)
  PROVE  \A v \in 1 .. x : len[v] \in Nat \ {0}
<1> DEFINE P == {v \in 0 .. x : v = 0 \/ len[v] \in Nat \ {0}}
<1>1. ASSUME NEW i \in 0 .. x, \A j \in 0 .. i - 1 : j \in P
      PROVE  i \in P
  <2>1. CASE i >= 2
    <3>1. i \div 2 \in 0 .. i - 1 /\ i \div 2 # 0
      BY <2>1, Halved
    <3>2. len[i \div 2] \in Nat \ {0}
      BY <1>1, <3>1
    <3>3. len[i] = 1 + len[i \div 2]
      <4>1. i \in 1 .. x /\ i # 1
        BY <2>1
      <4> QED
        BY <4>1 DEF Lens, LenFrom
    <3> QED
      BY <3>2, <3>3
  <2>2. CASE i = 1
    <3>1. i \in 1 .. x
      BY <2>2
    <3> QED
      BY <2>2, <3>1 DEF Lens, LenFrom
  <2>3. CASE i = 0
    BY <2>3
  <2> QED
    BY <2>1, <2>2, <2>3
<1>2. Ascends(P, x)
  BY <1>1 DEF Ascends
<1>3. \A v \in 0 .. x : v \in P
  <2> HIDE DEF P
  <2> QED
    BY <1>2, InductionUp
<1> QED
  BY <1>3

(* They lead to the same number for every larger bound.                    *)
LEMMA LensAgree ==
  ASSUME NEW x \in Nat, NEW y \in Nat, x <= y, NEW p, Lens(p, x), NEW q, Lens(q, y)
  PROVE  \A v \in 1 .. x : p[v] = q[v]
<1> DEFINE P == {v \in 0 .. x : v = 0 \/ p[v] = q[v]}
<1>1. ASSUME NEW i \in 0 .. x, \A j \in 0 .. i - 1 : j \in P
      PROVE  i \in P
  <2>1. i >= 2 => p[i \div 2] = q[i \div 2]
    <3> SUFFICES ASSUME i >= 2
                 PROVE  p[i \div 2] = q[i \div 2]
      OBVIOUS
    <3>1. i \div 2 \in 0 .. i - 1 /\ i \div 2 # 0
      BY Halved
    <3> QED
      BY <1>1, <3>1
  <2>2. i >= 1 => p[i] = LenFrom(p, i) /\ q[i] = LenFrom(q, i)
    BY DEF Lens
  <2>3. i >= 1 => LenFrom(p, i) = LenFrom(q, i)
    BY <2>1 DEF LenFrom
  <2> QED
    BY <2>2, <2>3
<1>2. Ascends(P, x)
  BY <1>1 DEF Ascends
<1>3. \A v \in 0 .. x : v \in P
  <2> HIDE DEF P
  <2> QED
    BY <1>2, InductionUp
<1> QED
  BY <1>3

(* BitLen takes these steps.                                               *)
LEMMA BitLenRuns ==
  ASSUME NEW x \in Nat
  PROVE  \E len : Lens(len, x) /\ BitLen(x) = len[x]
<1> DEFINE F == [0 .. x -> Nat]
           From(g) == [v \in 0 .. x |-> IF v = 0 THEN 1 ELSE LenFrom(g, v)]
           step == [g \in F |-> From(g)]
           Rec(g) == [v \in 1 .. x |-> IF v = 1 THEN 1 ELSE 1 + g[v \div 2]]
           w == CHOOSE g : g = Rec(g)
<1>1. ASSUME NEW v \in 0 .. x, v >= 2
      PROVE  v \div 2 \in 0 .. x /\ v \div 2 \in 1 .. x /\ v \div 2 \in 0 .. v - 1
  <2>1. v \div 2 \in 1 .. v - 1
    BY <1>1, Halved
  <2> QED
    BY <2>1
<1>2. step \in [F -> F]
  <2>1. ASSUME NEW g \in F, NEW v \in 0 .. x
        PROVE  (IF v = 0 THEN 1 ELSE LenFrom(g, v)) \in Nat
    <3>1. v >= 2 => g[v \div 2] \in Nat
      BY <1>1
    <3> QED
      BY <3>1 DEF LenFrom
  <2> QED
    BY <2>1
<1>3. LooksDown(step, Nat, x)
  <2> SUFFICES ASSUME NEW f \in F, NEW g \in F, NEW i \in 0 .. x,
                      \A j \in 0 .. i - 1 : f[j] = g[j]
               PROVE  step[f][i] = step[g][i]
    BY DEF LooksDown
  <2>1. i >= 2 => f[i \div 2] = g[i \div 2]
    BY <1>1
  <2>2. i # 0 => LenFrom(f, i) = LenFrom(g, i)
    BY <2>1 DEF LenFrom
  <2> QED
    BY <2>2
<1>4. PICK f \in F : f = step[f]
  <2> HIDE DEF step
  <2> QED
    BY <1>2, <1>3, RecursionUp
<1> DEFINE h == [v \in 1 .. x |-> f[v]]
<1>5. h = Rec(h)
  <2>1. ASSUME NEW v \in 1 .. x
        PROVE  f[v] = Rec(h)[v]
    <3>1. f[v] = From(f)[v]
      BY <1>4
    <3>2. f[v] = LenFrom(f, v)
      BY <3>1
    <3>3. v >= 2 => h[v \div 2] = f[v \div 2]
      BY <1>1
    <3> QED
      BY <3>2, <3>3 DEF LenFrom
  <2> QED
    BY <2>1
<1>6. w = Rec(w)
  <2> HIDE DEF h
  <2> QED
    BY <1>5
<1>7. BitLen(x) = w[x]
  BY DEF BitLen
<1> HIDE DEF w
<1>8. Lens(w, x)
  <2>1. ASSUME NEW v \in 1 .. x
        PROVE  Rec(w)[v] = LenFrom(w, v)
    BY DEF LenFrom
  <2> HIDE DEF Rec
  <2> QED
    BY <1>6, <2>1 DEF Lens
<1> QED
  BY <1>7, <1>8

(* One bit, and the others.                                                *)
LEMMA BitLenIs ==
  ASSUME NEW x \in Nat, x # 0
  PROVE  /\ BitLen(x) \in Nat /\ BitLen(x) >= 1
         /\ x = 1 => BitLen(x) = 1
         /\ x >= 2 => BitLen(x) = 1 + BitLen(x \div 2)
<1>1. PICK len : Lens(len, x) /\ BitLen(x) = len[x]
  BY BitLenRuns
<1>2. x \in 1 .. x
  OBVIOUS
<1>3. len[x] \in Nat \ {0} /\ len[x] = LenFrom(len, x)
  BY <1>1, <1>2, LensType DEF Lens
<1>4. x = 1 => BitLen(x) = 1
  BY <1>1, <1>3 DEF LenFrom
<1>5. ASSUME x >= 2
      PROVE  BitLen(x) = 1 + BitLen(x \div 2)
  <2> DEFINE y == x \div 2
  <2>1. y \in Nat /\ y <= x /\ y \in 1 .. y
    <3>1. y \in 1 .. x - 1
      BY <1>5, Halved
    <3> HIDE DEF y
    <3> QED
      BY <3>1
  <2> HIDE DEF y
  <2>2. PICK q : Lens(q, y) /\ BitLen(y) = q[y]
    BY <2>1, BitLenRuns
  <2>3. q[y] = len[y]
    BY <1>1, <2>1, <2>2, LensAgree
  <2>4. len[x] = 1 + len[y]
    BY <1>3, <1>5 DEF LenFrom, y
  <2> QED
    BY <1>1, <2>2, <2>3, <2>4 DEF y
<1> QED
  BY <1>1, <1>3, <1>4, <1>5

(* Seven bits, and the others.                                             *)
LEMMA BitLenShifted ==
  ASSUME NEW x \in Nat, x # 0
  PROVE  /\ x < 128 => BitLen(x) <= 7
         /\ x >= 128 => BitLen(x) = 7 + BitLen(x \div 128)
<1> DEFINE a == x \div 2
           b == a \div 2
           c == b \div 2
           d == c \div 2
           e == d \div 2
           f == e \div 2
           g == f \div 2
<1>1. ASSUME NEW v \in Nat, v # 0
      PROVE  BitLen(v) \in Nat /\ BitLen(v) >= 1
             /\ (v = 1 => BitLen(v) = 1) /\ (v >= 2 => BitLen(v) = 1 + BitLen(v \div 2))
  BY <1>1, BitLenIs
<1>2. a \in Nat /\ b \in Nat /\ c \in Nat /\ d \in Nat /\ e \in Nat /\ f \in Nat /\ g \in Nat
  OBVIOUS
<1>3. /\ x >= 2 * a /\ x <= 2 * a + 1 /\ a >= 2 * b /\ a <= 2 * b + 1
      /\ b >= 2 * c /\ b <= 2 * c + 1 /\ c >= 2 * d /\ c <= 2 * d + 1
      /\ d >= 2 * e /\ d <= 2 * e + 1 /\ e >= 2 * f /\ e <= 2 * f + 1
      /\ f >= 2 * g /\ f <= 2 * g + 1
  <2>1. \A v \in Nat : v >= 2 * (v \div 2) /\ v <= 2 * (v \div 2) + 1
    OBVIOUS
  <2> QED
    BY <1>2, <2>1
<1>4. g = x \div 128
  <2>1. \A k \in Nat : 128 * k <= x /\ x <= 128 * k + 127 => k = x \div 128
    OBVIOUS
  <2> HIDE DEF a, b, c, d, e, f, g
  <2>2. 128 * g <= x /\ x <= 128 * g + 127
    BY <1>2, <1>3
  <2> QED
    BY <1>2, <2>1, <2>2
<1>5. /\ x >= 2 => BitLen(x) = 1 + BitLen(a)
      /\ a >= 2 => BitLen(a) = 1 + BitLen(b)
      /\ b >= 2 => BitLen(b) = 1 + BitLen(c)
      /\ c >= 2 => BitLen(c) = 1 + BitLen(d)
      /\ d >= 2 => BitLen(d) = 1 + BitLen(e)
      /\ e >= 2 => BitLen(e) = 1 + BitLen(f)
      /\ f >= 2 => BitLen(f) = 1 + BitLen(g)
  <2>1. \A v \in Nat : v >= 2 => BitLen(v) = 1 + BitLen(v \div 2)
    BY <1>1
  <2> QED
    BY <1>2, <2>1
<1>6. /\ x = 1 => BitLen(x) = 1
      /\ a = 1 => BitLen(a) = 1
      /\ b = 1 => BitLen(b) = 1
      /\ c = 1 => BitLen(c) = 1
      /\ d = 1 => BitLen(d) = 1
      /\ e = 1 => BitLen(e) = 1
      /\ f = 1 => BitLen(f) = 1
      /\ g # 0 => BitLen(g) \in Nat
  <2>1. BitLen(1) = 1
    BY <1>1
  <2> QED
    BY <1>1, <1>2, <2>1
<1> HIDE DEF a, b, c, d, e, f, g
<1>7. CASE x >= 128
  <2>1. x >= 2 /\ a >= 2 /\ b >= 2 /\ c >= 2 /\ d >= 2 /\ e >= 2 /\ f >= 2 /\ g # 0
    BY <1>2, <1>3, <1>7
  <2> QED
    BY <1>4, <1>5, <1>6, <1>7, <2>1
<1>8. CASE x < 128
  <2>1. g = 0 /\ f <= 1 /\ e <= 3 /\ d <= 7 /\ c <= 15 /\ b <= 31 /\ a <= 63
    BY <1>2, <1>3, <1>8
  <2>2. f = 1 => BitLen(x) = 7
    <3> SUFFICES ASSUME f = 1
                 PROVE  BitLen(x) = 7
      OBVIOUS
    <3>1. x >= 2 /\ a >= 2 /\ b >= 2 /\ c >= 2 /\ d >= 2 /\ e >= 2
      BY <1>2, <1>3
    <3> QED
      BY <1>5, <1>6, <3>1
  <2>3. e = 1 => BitLen(x) = 6
    <3> SUFFICES ASSUME e = 1
                 PROVE  BitLen(x) = 6
      OBVIOUS
    <3>1. x >= 2 /\ a >= 2 /\ b >= 2 /\ c >= 2 /\ d >= 2
      BY <1>2, <1>3
    <3> QED
      BY <1>5, <1>6, <3>1
  <2>4. d = 1 => BitLen(x) = 5
    <3> SUFFICES ASSUME d = 1
                 PROVE  BitLen(x) = 5
      OBVIOUS
    <3>1. x >= 2 /\ a >= 2 /\ b >= 2 /\ c >= 2
      BY <1>2, <1>3
    <3> QED
      BY <1>5, <1>6, <3>1
  <2>5. c = 1 => BitLen(x) = 4
    <3> SUFFICES ASSUME c = 1
                 PROVE  BitLen(x) = 4
      OBVIOUS
    <3>1. x >= 2 /\ a >= 2 /\ b >= 2
      BY <1>2, <1>3
    <3> QED
      BY <1>5, <1>6, <3>1
  <2>6. b = 1 => BitLen(x) = 3
    BY <1>2, <1>3, <1>5, <1>6
  <2>7. a = 1 => BitLen(x) = 2
    BY <1>2, <1>3, <1>5, <1>6
  <2>8. x = 1 \/ a = 1 \/ b = 1 \/ c = 1 \/ d = 1 \/ e = 1 \/ f = 1
    BY <1>2, <1>3, <2>1
  <2> QED
    BY <1>6, <1>8, <2>2, <2>3, <2>4, <2>5, <2>6, <2>7, <2>8
<1> QED
  BY <1>7, <1>8

-----------------------------------------------------------------------------
(* A number that is written is read back.                                  *)

(* Sov counts what EncodeVarint writes: one byte more for seven bits more. *)
LEMMA SovStep ==
  ASSUME NEW x \in Nat
  PROVE  /\ Sov(x) \in Nat
         /\ x < 128 => Sov(x) = 1
         /\ x >= 128 => Sov(x) = 1 + Sov(x \div 128)
<1>1. \A n \in Nat : (n + 6) \div 7 \in Nat
  OBVIOUS
<1>2. ASSUME NEW v \in Nat, v # 0
      PROVE  Sov(v) = (BitLen(v) + 6) \div 7 /\ BitLen(v) \in Nat /\ BitLen(v) >= 1
  BY <1>2, BitLenIs DEF Sov
<1>3. Sov(x) \in Nat
  <2>1. CASE x = 0
    <3>1. BitLen(1) \in Nat
      BY BitLenIs
    <3>2. Sov(x) = (BitLen(1) + 6) \div 7
      BY <2>1 DEF Sov
    <3> QED
      BY <1>1, <3>1, <3>2
  <2>2. CASE x # 0
    BY <1>1, <1>2, <2>2
  <2> QED
    BY <2>1, <2>2
<1>4. ASSUME x < 128
      PROVE  Sov(x) = 1
  <2>1. CASE x = 0
    <3>1. BitLen(1) = 1
      BY BitLenIs
    <3>2. Sov(x) = (BitLen(1) + 6) \div 7
      BY <2>1 DEF Sov
    <3> QED
      BY <3>1, <3>2
  <2>2. CASE x # 0
    <3>1. BitLen(x) <= 7 /\ BitLen(x) \in Nat /\ BitLen(x) >= 1
      BY <1>2, <1>4, <2>2, BitLenShifted
    <3>2. \A n \in 1 .. 7 : (n + 6) \div 7 = 1
      OBVIOUS
    <3> QED
      BY <1>2, <2>2, <3>1, <3>2
  <2> QED
    BY <2>1, <2>2
<1>5. ASSUME x >= 128
      PROVE  Sov(x) = 1 + Sov(x \div 128)
  <2> DEFINE y == x \div 128
  <2>1. y \in Nat /\ y # 0
    BY <1>5, Shifted
  <2>2. BitLen(x) = 7 + BitLen(y)
    BY <1>5, BitLenShifted
  <2> HIDE DEF y
  <2>3. Sov(y) = (BitLen(y) + 6) \div 7 /\ BitLen(y) \in Nat
    BY <1>2, <2>1
  <2>4. Sov(x) = (BitLen(x) + 6) \div 7
    BY <1>2, <1>5
  <2>5. \A n \in Nat : (7 + n + 6) \div 7 = 1 + ((n + 6) \div 7)
    OBVIOUS
  <2> QED
    BY <2>2, <2>3, <2>4, <2>5 DEF y
<1> QED
  BY <1>3, <1>4, <1>5

(* Sov counts the bytes that EncodeVarint puts.                            *)
LEMMA SovIs ==
  ASSUME NEW x \in Nat
  PROVE  Sov(x) = Len(EncodeVarint(x)) /\ Sov(x) \in Nat /\ Sov(x) >= 1
<1> DEFINE P == {v \in 0 .. x : Sov(v) = Len(EncodeVarint(v)) /\ Sov(v) >= 1}
<1>1. ASSUME NEW i \in 0 .. x, \A j \in 0 .. i - 1 : j \in P
      PROVE  i \in P
  <2>0. i \in Nat
    OBVIOUS
  <2>1. CASE i < 128
    <3>1. EncodeVarint(i) = <<i>> /\ Sov(i) = 1
      BY <2>0, <2>1, EncodeVarintIs, SovStep
    <3> QED
      BY <3>1
  <2>2. CASE i >= 128
    <3> DEFINE y == i \div 128
               b == (i % 128) + 128
    <3>1. y \in 0 .. i - 1 /\ y \in Nat /\ b \in Byte
      BY <2>0, <2>2, Shifted DEF Byte
    <3>2. y \in P
      BY <1>1, <3>1
    <3>3. EncodeVarint(i) = <<b>> \o EncodeVarint(y) /\ Sov(i) = 1 + Sov(y)
      BY <2>0, <2>2, EncodeVarintIs, SovStep
    <3> HIDE DEF y, b
    <3>4. EncodeVarint(y) \in Bytes /\ <<b>> \in Bytes /\ Len(<<b>>) = 1 /\ Sov(y) \in Nat
      <4>1. <<b>> \in Bytes
        BY <3>1 DEF Bytes
      <4>2. EncodeVarint(y) \in Bytes
        BY <3>1, EncodeVarintIs
      <4>3. Sov(y) \in Nat
        BY <3>1, SovStep
      <4> QED
        BY <4>1, <4>2, <4>3
    <3>5. Len(<<b>> \o EncodeVarint(y)) = 1 + Len(EncodeVarint(y))
      BY <3>4, BytesJoin
    <3> QED
      BY <3>2, <3>3, <3>4, <3>5
  <2> QED
    BY <2>0, <2>1, <2>2
<1>2. Ascends(P, x)
  BY <1>1 DEF Ascends
<1>3. \A v \in 0 .. x : v \in P
  <2> HIDE DEF P
  <2> QED
    BY <1>2, InductionUp
<1>4. x \in P
  BY <1>3
<1> QED
  BY <1>4, SovStep

(* A number of k bits has no more.                                         *)
LEMMA BitLenAtMost ==
  \A k \in 0 .. WordBits : \A x \in 1 .. Pow2[k] - 1 : BitLen(x) <= k
<1> DEFINE n == WordBits
           P == {k \in 0 .. n : \A x \in 1 .. Pow2[k] - 1 : BitLen(x) <= k}
<1>1. n \in Nat
  BY WireAssumption
<1>2. 0 \in P
  BY <1>1, Powers
<1>3. ASSUME NEW k \in 1 .. n, k - 1 \in P
      PROVE  k \in P
  <2>1. k \in Nat /\ k - 1 \in 0 .. n /\ k \in 0 .. n
    BY <1>1
  <2>2. Pow2[k] = 2 * Pow2[k - 1] /\ Pow2[k - 1] \in Nat
    BY <2>1, Powers
  <2>3. ASSUME NEW x \in 1 .. Pow2[k] - 1
        PROVE  BitLen(x) <= k
    <3>0. x \in Nat /\ x # 0 /\ x < 2 * Pow2[k - 1]
      BY <2>2
    <3>1. CASE x = 1
      BY <2>1, <3>0, <3>1, BitLenIs
    <3>2. CASE x >= 2
      <4> DEFINE y == x \div 2
      <4>1. y \in 1 .. Pow2[k - 1] - 1
        <5>1. \A p \in Nat : x < 2 * p => y \in 1 .. p - 1
          BY <3>0, <3>2
        <5> HIDE DEF y
        <5> QED
          BY <2>2, <3>0, <5>1
      <4>2. BitLen(x) = 1 + BitLen(y)
        BY <3>0, <3>2, BitLenIs
      <4> HIDE DEF y
      <4>3. y \in Nat /\ y # 0
        BY <2>2, <4>1
      <4>4. BitLen(y) \in Nat
        BY <4>3, BitLenIs
      <4>5. BitLen(y) <= k - 1
        BY <1>3, <4>1
      <4> QED
        BY <2>1, <4>2, <4>4, <4>5
    <3> QED
      BY <3>0, <3>1, <3>2
  <2> QED
    BY <2>1, <2>3
<1>4. \A k \in 0 .. n : k \in P
  <2> HIDE DEF P, n
  <2> QED
    BY <1>1, <1>2, <1>3, Induction
<1> QED
  BY <1>4

(* A word has no more groups than ReadVarint reads.                        *)
LEMMA SovAtMost ==
  ASSUME NEW x \in Word
  PROVE  Sov(x) <= Groups
<1>1. Full \in Nat /\ WordBits \in Nat /\ WordBits >= 1
  BY Words, WireAssumption
<1>2. x \in Nat /\ x < Full
  BY <1>1 DEF Word
<1> DEFINE y == IF x = 0 THEN 1 ELSE x
<1>3. Sov(x) = (BitLen(y) + 6) \div 7
  BY DEF Sov
<1>4. BitLen(y) \in Nat /\ BitLen(y) <= WordBits
  <2>1. CASE x = 0
    <3>1. BitLen(1) = 1
      BY BitLenIs
    <3> QED
      BY <1>1, <2>1, <3>1
  <2>2. CASE x # 0
    <3>1. BitLen(x) \in Nat
      BY <1>2, <2>2, BitLenIs
    <3>2. x \in 1 .. Pow2[WordBits] - 1 /\ WordBits \in 0 .. WordBits
      BY <1>1, <1>2, <2>2 DEF Full
    <3>3. BitLen(x) <= WordBits
      BY <3>2, BitLenAtMost
    <3> QED
      BY <2>2, <3>1, <3>3
  <2> QED
    BY <2>1, <2>2
<1> HIDE DEF y
<1>5. \A a, b \in Nat : a <= b => (a + 6) \div 7 <= (b + 6) \div 7
  OBVIOUS
<1> QED
  BY <1>1, <1>3, <1>4, <1>5 DEF Groups

(* Behind the first group of a number come the others.                     *)
LEMMA GroupMatches ==
  ASSUME NEW x \in Nat, x >= 128, NEW bs \in Bytes, NEW j \in Nat,
         Matches(EncodeVarint(x), 0, bs, j, Sov(x)), NEW y, y = x \div 128
  PROVE  /\ bs[j + 1] = (x % 128) + 128
         /\ Sov(x) = 1 + Sov(y) /\ y \in Nat
         /\ Matches(EncodeVarint(y), 0, bs, j + 1, Sov(y))
<1> DEFINE e == EncodeVarint(x)
           r == EncodeVarint(y)
           b == (x % 128) + 128
           n == Sov(y)
<1>1. y \in Nat /\ b \in Byte
  BY Shifted DEF Byte
<1>2. e = <<b>> \o r
  BY EncodeVarintIs
<1>3. r \in Bytes /\ Len(r) = n /\ n \in Nat /\ n >= 1
  BY <1>1, EncodeVarintIs, SovIs
<1>4. Sov(x) = 1 + n
  BY SovStep
<1>5. j + (1 + n) <= Len(bs) /\ \A k \in 1 .. 1 + n : e[0 + k] = bs[j + k]
  BY <1>4 DEF Matches
<1> HIDE DEF e, r, b, n
<1>6. <<b>> \in Bytes /\ Len(<<b>>) = 1
  BY <1>1 DEF Bytes
<1>7. Joined(<<b>>, r, e)
  BY <1>2, <1>3, <1>6, BytesJoin
<1>8. e[1] = b /\ \A k \in 1 .. n : e[1 + k] = r[k]
  BY <1>3, <1>6, <1>7 DEF Joined
<1>9. bs[j + 1] = b
  <2>1. 1 \in 1 .. 1 + n
    BY <1>3
  <2>2. e[0 + 1] = bs[j + 1]
    BY <1>5, <2>1
  <2> QED
    BY <1>8, <2>2
<1>10. \A k \in 1 .. n : r[0 + k] = bs[j + 1 + k]
  <2> SUFFICES ASSUME NEW k \in 1 .. n
               PROVE  r[0 + k] = bs[j + 1 + k]
    OBVIOUS
  <2> DEFINE q == 1 + k
  <2>1. q \in 1 .. 1 + n /\ 0 + q = q /\ j + q = j + 1 + k /\ 0 + k = k
    BY <1>3
  <2>2. e[0 + q] = bs[j + q]
    <3> HIDE DEF q
    <3> QED
      BY <1>5, <2>1
  <2> QED
    BY <1>8, <2>1, <2>2
<1>11. Matches(r, 0, bs, j + 1, n)
  BY <1>3, <1>5, <1>10 DEF Matches
<1> QED
  BY <1>1, <1>4, <1>9, <1>11 DEF r, b, n

(* What EncodeVarint wrote is read.                                        *)
LEMMA ReadVarintBack ==
  ASSUME NEW x \in Word, NEW bs \in Bytes, NEW i \in Nat,
         Matches(EncodeVarint(x), 0, bs, i, Sov(x))
  PROVE  ReadVarint(bs, i) = Ok(x, i + Sov(x))
<1>1. PICK read : GroupsOf(read, bs, i) /\ ReadVarint(bs, i) = Whole(read[Groups])
  BY ReadVarintRuns
<1> DEFINE n == Groups
           Fine(left) == \A y \in Nat :
              /\ Matches(EncodeVarint(y), 0, bs, i + n - left, Sov(y)) /\ Sov(y) <= left
              => read[left] = Ok(y, i + n - left + Sov(y))
           P == {left \in 0 .. n : Fine(left)}
<1>2. n \in Nat /\ n >= 1 /\ Len(bs) \in Nat
  BY SomeGroups DEF Bytes
<1>3. 0 \in P
  <2>1. ASSUME NEW y \in Nat
        PROVE  ~(Sov(y) <= 0)
    BY SovIs
  <2> QED
    BY <1>2, <2>1
<1>4. ASSUME NEW left \in 1 .. n, left - 1 \in P
      PROVE  left \in P
  <2> DEFINE j == i + n - left
             more == read[left - 1]
  <2>1. read[left] = Group(bs, j, more)
    BY <1>1 DEF GroupsOf
  <2>2. j \in Nat /\ i + n - (left - 1) = j + 1 /\ left \in 0 .. n
    BY <1>2
  <2> SUFFICES ASSUME NEW y \in Nat, Matches(EncodeVarint(y), 0, bs, j, Sov(y)),
                      Sov(y) <= left
               PROVE  read[left] = Ok(y, j + Sov(y))
    BY <2>2
  <2>3. Fine(left - 1)
    BY <1>4
  <2> HIDE DEF j, n
  <2>4. Sov(y) \in Nat /\ Sov(y) >= 1 /\ j < Len(bs)
    <3>1. Sov(y) \in Nat /\ Sov(y) >= 1
      BY SovIs
    <3>2. j + Sov(y) <= Len(bs)
      BY DEF Matches
    <3> QED
      BY <1>2, <2>2, <3>1, <3>2
  <2>5. CASE y < 128
    <3>1. EncodeVarint(y) = <<y>> /\ Sov(y) = 1
      BY <2>5, EncodeVarintIs, SovStep
    <3>2. bs[j + 1] = y
      <4> DEFINE e == EncodeVarint(y)
      <4>1. \A k \in 1 .. 1 : e[0 + k] = bs[j + k]
        BY <3>1 DEF Matches
      <4> HIDE DEF e
      <4>2. e[1] = bs[j + 1]
        BY <4>1
      <4> QED
        BY <3>1, <4>2 DEF e
    <3> QED
      BY <1>2, <2>1, <2>2, <2>4, <2>5, <3>1, <3>2 DEF Group
  <2>6. CASE y >= 128
    <3> DEFINE z == y \div 128
    <3>1. z = y \div 128 /\ y = (y % 128) + 128 * z /\ y % 128 \in 0 .. 127
      BY <2>6, Shifted
    <3> HIDE DEF z
    <3>2. /\ bs[j + 1] = (y % 128) + 128 /\ Sov(y) = 1 + Sov(z) /\ z \in Nat
          /\ Matches(EncodeVarint(z), 0, bs, j + 1, Sov(z))
      BY <2>2, <2>6, <3>1, GroupMatches
    <3>3. Sov(z) \in Nat
      BY <3>2, SovIs
    <3>4. Sov(z) <= left - 1
      BY <3>2, <3>3
    <3>5. more = Ok(z, j + 1 + Sov(z))
      <4>1. Matches(EncodeVarint(z), 0, bs, i + n - (left - 1), Sov(z))
            => more = Ok(z, i + n - (left - 1) + Sov(z))
        BY <2>3, <3>2, <3>4
      <4> QED
        BY <2>2, <3>2, <4>1
    <3>6. more.st = "ok" /\ more.v = z /\ more.at = j + 1 + Sov(z)
      BY <3>5, OkParts
    <3> HIDE DEF more
    <3>7. (((y % 128) + 128) % 128) + 128 * z = y
      <4> DEFINE m == y % 128
      <4>1. m \in 0 .. 127 /\ y = m + 128 * z
        BY <3>1
      <4> HIDE DEF m
      <4>2. (m + 128) % 128 = m
        BY <4>1
      <4> QED
        BY <4>1, <4>2 DEF m
    <3>8. ~(j >= Len(bs)) /\ ~(bs[j + 1] < 128)
      BY <1>2, <2>2, <2>4, <3>1, <3>2
    <3>9. read[left] = Ok(((bs[j + 1]) % 128) + 128 * more.v, more.at)
      BY <2>1, <3>6, <3>8 DEF Group
    <3>10. j + 1 + Sov(z) = j + Sov(y)
      BY <2>2, <3>2, <3>3
    <3> QED
      BY <3>2, <3>6, <3>7, <3>9, <3>10
  <2> QED
    BY <2>5, <2>6
<1>5. \A left \in 0 .. n : left \in P
  <2> HIDE DEF P, n
  <2> QED
    BY <1>2, <1>3, <1>4, Induction
<1>6. Fine(n) /\ i + n - n = i
  BY <1>2, <1>5
<1>7. x \in Nat /\ x % Full = x /\ Sov(x) <= n
  <2>1. Full \in Nat /\ x \in 0 .. Full - 1
    BY Words DEF Word
  <2>2. \A p \in Nat : \A v \in 0 .. p - 1 : v \in Nat /\ v % p = v
    OBVIOUS
  <2>3. Sov(x) <= n
    BY SovAtMost
  <2> HIDE DEF n
  <2> QED
    BY <2>1, <2>2, <2>3
<1>8. read[n] = Ok(x, i + Sov(x))
  BY <1>6, <1>7
<1> QED
  BY <1>1, <1>7, <1>8 DEF Whole, Ok

-----------------------------------------------------------------------------
(* Fields that are written are found again.                                *)

(* The fields found in two buffers, one behind the other.                  *)
Appended(g, h) == [n \in DOMAIN g |-> g[n] \o h[n]]
With(g, n, vs) == [k \in DOMAIN g |-> IF k = n THEN vs ELSE g[k]]
Only(wt, n, vs) == With(NoValues(wt), n, vs)

(* Bytes of this size in which a scan finds the fields g, whatever follows. *)
Adds(wt, a, g) ==
  \A b \in Bytes : \A h \in FieldMaps(wt) : \A u \in Bytes :
    Fits(a \o b) /\ Scan(wt, b) = Found(h, u) => Scan(wt, a \o b) = Found(Appended(g, h), u)
Writes(wt, a, size, g) ==
  a \in Bytes /\ Len(a) = size /\ g \in FieldMaps(wt) /\ Adds(wt, a, g)

(* The values of a field are a list.                                       *)
LEMMA FieldLists ==
  ASSUME NEW wt, NEW g \in FieldMaps(wt)
  PROVE  /\ DOMAIN g = DOMAIN wt
         /\ \A n \in DOMAIN wt : g[n] \in Seq(ValueSet(wt[n]))
BY DEF FieldMaps

(* Lists of values by field number.                                        *)
LEMMA MapsOfLists ==
  ASSUME NEW wt, IsTable(wt), NEW g, g = [n \in DOMAIN wt |-> g[n]],
         \A n \in DOMAIN wt : g[n] \in Seq(ValueSet(wt[n]))
  PROVE  g \in FieldMaps(wt)
<1>1. \A n \in DOMAIN wt : wt[n] \in {0, 2}
  BY DEF IsTable
<1>2. \A n \in DOMAIN wt : g[n] \in Seq(Bytes) \cup Seq(0 .. Full - 1)
  BY <1>1 DEF ValueSet
<1>3. g \in [DOMAIN wt -> Seq(Bytes) \cup Seq(0 .. Full - 1)]
  BY <1>2
<1> QED
  BY <1>3 DEF FieldMaps

(* One field set to a list of values.                                      *)
LEMMA WithType ==
  ASSUME NEW wt, IsTable(wt), NEW g \in FieldMaps(wt), NEW n \in DOMAIN wt,
         NEW vs \in Seq(ValueSet(wt[n]))
  PROVE  With(g, n, vs) \in FieldMaps(wt)
<1> DEFINE w == With(g, n, vs)
<1>1. DOMAIN g = DOMAIN wt /\ \A k \in DOMAIN wt : g[k] \in Seq(ValueSet(wt[k]))
  BY FieldLists
<1>2. w = [k \in DOMAIN wt |-> w[k]] /\ \A k \in DOMAIN wt : w[k] \in Seq(ValueSet(wt[k]))
  BY <1>1 DEF With
<1> HIDE DEF w
<1>3. w \in FieldMaps(wt)
  BY <1>2, MapsOfLists
<1> QED
  BY <1>3 DEF w

(* No field at all is a map of empty lists.                                *)
LEMMA NoValuesType ==
  ASSUME NEW wt, IsTable(wt)
  PROVE  NoValues(wt) \in FieldMaps(wt) /\ DOMAIN NoValues(wt) = DOMAIN wt
         /\ \A n \in DOMAIN wt : NoValues(wt)[n] = <<>>
<1> DEFINE g == NoValues(wt)
<1>1. g = [n \in DOMAIN wt |-> g[n]] /\ \A n \in DOMAIN wt : g[n] = <<>>
  BY DEF NoValues
<1>2. \A n \in DOMAIN wt : g[n] \in Seq(ValueSet(wt[n]))
  <2>1. \A V : <<>> \in Seq(V)
    OBVIOUS
  <2> HIDE DEF g
  <2> QED
    BY <1>1, <2>1
<1> HIDE DEF g
<1>3. g \in FieldMaps(wt) /\ DOMAIN g = DOMAIN wt
  BY <1>1, <1>2, MapsOfLists
<1> QED
  BY <1>1, <1>3 DEF g

(* What is found behind more of a field.                                   *)
LEMMA AppendedTwice ==
  ASSUME NEW wt, IsTable(wt), NEW g \in FieldMaps(wt), NEW h \in FieldMaps(wt),
         NEW n \in DOMAIN wt, NEW vs \in Seq(ValueSet(wt[n]))
  PROVE  /\ Appended(Only(wt, n, vs), h) \in FieldMaps(wt)
         /\ Appended(g, Appended(Only(wt, n, vs), h)) = Appended(With(g, n, g[n] \o vs), h)
<1> DEFINE o == Only(wt, n, vs)
           oh == Appended(o, h)
           x == Appended(g, oh)
           gn == With(g, n, g[n] \o vs)
           y == Appended(gn, h)
<1>1. DOMAIN g = DOMAIN wt /\ (\A k \in DOMAIN wt : g[k] \in Seq(ValueSet(wt[k])))
      /\ DOMAIN h = DOMAIN wt /\ (\A k \in DOMAIN wt : h[k] \in Seq(ValueSet(wt[k])))
  BY FieldLists
<1>2. o = [k \in DOMAIN wt |-> IF k = n THEN vs ELSE <<>>]
  BY NoValuesType DEF Only, With
<1>3. oh = [k \in DOMAIN wt |-> oh[k]]
      /\ \A k \in DOMAIN wt : oh[k] = (IF k = n THEN vs ELSE <<>>) \o h[k]
  BY <1>2 DEF Appended
<1>4. ASSUME NEW k \in DOMAIN wt
      PROVE  oh[k] \in Seq(ValueSet(wt[k])) /\ (k # n => oh[k] = h[k])
             /\ (k = n => oh[k] = vs \o h[k])
  <2> DEFINE V == ValueSet(wt[k])
             hk == h[k]
  <2>1. hk \in Seq(V)
    BY <1>1
  <2> HIDE DEF V, hk
  <2>2. <<>> \o hk = hk
    BY <2>1
  <2>3. CASE k = n
    <3>1. vs \in Seq(V)
      BY <2>3 DEF V
    <3>2. vs \o hk \in Seq(V)
      BY <2>1, <3>1
    <3> QED
      BY <1>3, <2>3, <3>2 DEF V, hk
  <2>4. CASE k # n
    BY <1>3, <2>1, <2>2, <2>4 DEF V, hk
  <2> QED
    BY <2>3, <2>4
<1> HIDE DEF o, oh
<1>5. oh \in FieldMaps(wt)
  BY <1>3, <1>4, MapsOfLists
<1>6. gn = [k \in DOMAIN wt |-> IF k = n THEN g[n] \o vs ELSE g[k]]
  BY <1>1 DEF With
<1>7. DOMAIN x = DOMAIN wt /\ DOMAIN y = DOMAIN wt
  BY <1>1, <1>6 DEF Appended
<1>8. ASSUME NEW k \in DOMAIN wt
      PROVE  x[k] = y[k]
  <2>1. x[k] = g[k] \o oh[k]
    BY <1>1 DEF Appended
  <2>2. y[k] = gn[k] \o h[k]
    BY <1>6 DEF Appended
  <2>3. CASE k = n
    <3>1. (g[n] \o vs) \o h[n] = g[n] \o (vs \o h[n])
      <4> DEFINE V == ValueSet(wt[n])
                 a == g[n]
                 c == h[n]
      <4>1. a \in Seq(V) /\ vs \in Seq(V) /\ c \in Seq(V)
        BY <1>1
      <4> HIDE DEF V, a, c
      <4>2. (a \o vs) \o c = a \o (vs \o c)
        BY <4>1, ListsAssociate
      <4> QED
        BY <4>2 DEF a, c
    <3>2. gn[n] = g[n] \o vs
      BY <1>6
    <3> QED
      BY <1>4, <2>1, <2>2, <2>3, <3>1, <3>2
  <2>4. CASE k # n
    BY <1>4, <1>6, <2>1, <2>2, <2>4
  <2> QED
    BY <2>3, <2>4
<1>9. x = y
  <2>1. x = [k \in DOMAIN wt |-> x[k]] /\ y = [k \in DOMAIN wt |-> y[k]]
    BY <1>7 DEF Appended
  <2> HIDE DEF x, y
  <2> QED
    BY <1>8, <2>1
<1> QED
  BY <1>5, <1>9 DEF x, y, oh, o, gn

(* Nothing adds nothing.                                                   *)
LEMMA WritesNothing ==
  ASSUME NEW wt, IsTable(wt)
  PROVE  Writes(wt, <<>>, 0, NoValues(wt))
<1>1. ASSUME NEW b \in Bytes, NEW h \in FieldMaps(wt)
      PROVE  <<>> \o b = b /\ Appended(NoValues(wt), h) = h
  <2>1. DOMAIN h = DOMAIN wt /\ (\A k \in DOMAIN wt : h[k] \in Seq(ValueSet(wt[k])))
        /\ h = [k \in DOMAIN wt |-> h[k]]
    BY DEF FieldMaps
  <2>2. \A k \in DOMAIN wt : <<>> \o h[k] = h[k]
    BY <2>1
  <2>3. Appended(NoValues(wt), h) = [k \in DOMAIN wt |-> <<>> \o h[k]]
    BY DEF Appended, NoValues
  <2>4. Appended(NoValues(wt), h) = h
    BY <2>1, <2>2, <2>3
  <2> QED
    BY <2>4, JoinNothing
<1>2. Adds(wt, <<>>, NoValues(wt))
  BY <1>1 DEF Adds
<1> QED
  BY <1>2, NoBytes, NoValuesType DEF Writes

(* More of a field behind other fields.                                    *)
LEMMA WritesMore ==
  ASSUME NEW wt, IsTable(wt), NEW a, NEW s, NEW g, Writes(wt, a, s, g),
         NEW n \in DOMAIN wt, NEW vs \in Seq(ValueSet(wt[n])),
         NEW b, NEW t, Writes(wt, b, t, Only(wt, n, vs)), NEW st, st = s + t
  PROVE  Writes(wt, a \o b, st, With(g, n, g[n] \o vs))
<1> DEFINE o == Only(wt, n, vs)
           gn == With(g, n, g[n] \o vs)
           ab == a \o b
<1>1. a \in Bytes /\ b \in Bytes /\ Len(a) = s /\ Len(b) = t /\ g \in FieldMaps(wt)
  BY DEF Writes
<1>2. ab \in Bytes /\ Len(ab) = st
  BY <1>1, BytesJoin
<1>3. gn \in FieldMaps(wt)
  <2> DEFINE V == ValueSet(wt[n])
             x == g[n]
             y == x \o vs
  <2>1. x \in Seq(V)
    BY <1>1, FieldLists
  <2>2. y \in Seq(V)
    <3> HIDE DEF V, x
    <3> QED
      BY <2>1, ListsJoin DEF V
  <2> HIDE DEF y
  <2>3. With(g, n, y) \in FieldMaps(wt)
    BY <1>1, <2>2, WithType
  <2> QED
    BY <2>3 DEF y
<1>4. ASSUME NEW c \in Bytes, NEW h \in FieldMaps(wt), NEW u \in Bytes,
             Fits(ab \o c), Scan(wt, c) = Found(h, u)
      PROVE  Scan(wt, ab \o c) = Found(Appended(gn, h), u)
  <2> DEFINE bc == b \o c
             oh == Appended(o, h)
  <2>1. ab \o c = a \o bc
    BY <1>1, JoinAssociates
  <2>2. bc \in Bytes /\ Fits(bc) /\ Fits(a \o bc)
    <3>1. bc \in Bytes
      BY <1>1, BytesJoin
    <3>2. Fits(a \o bc)
      BY <1>4, <2>1
    <3> HIDE DEF bc
    <3>3. Fits(bc)
      <4> DEFINE abc == a \o bc
      <4>1. abc = a \o bc /\ Fits(abc)
        BY <3>2
      <4> HIDE DEF abc
      <4> QED
        BY <1>1, <3>1, <4>1, JoinMatches
    <3> QED
      BY <3>1, <3>2, <3>3
  <2>3. Scan(wt, bc) = Found(oh, u)
    BY <1>4, <2>2 DEF Writes, Adds
  <2>4. oh \in FieldMaps(wt) /\ Appended(g, oh) = Appended(gn, h)
    BY <1>1, AppendedTwice
  <2> HIDE DEF bc, oh, gn
  <2>5. Scan(wt, a \o bc) = Found(Appended(g, oh), u)
    BY <2>2, <2>3, <2>4 DEF Writes, Adds
  <2> QED
    BY <2>1, <2>4, <2>5
<1>5. Adds(wt, ab, gn)
  <2> HIDE DEF ab, gn
  <2> QED
    BY <1>4 DEF Adds
<1> QED
  BY <1>2, <1>3, <1>5 DEF Writes

(* A field that is read as one adds one value.                             *)
ReadsAs(wt, a, n, v) ==
  \A b \in Bytes : Fits(a \o b) =>
    Field(wt, a \o b, 0) = [st |-> "ok", num |-> n, v |-> v, at |-> Len(a)]

(* A field that reads as its value is found, and nothing else.             *)
LEMMA FieldWrites ==
  ASSUME NEW wt, IsTable(wt), NEW n \in DOMAIN wt, NEW a \in Bytes, Len(a) >= 1,
         NEW v \in ValueSet(wt[n]), ReadsAs(wt, a, n, v)
  PROVE  Writes(wt, a, Len(a), Only(wt, n, <<v>>))
<1> DEFINE o == Only(wt, n, <<v>>)
<1>1. <<v>> \in Seq(ValueSet(wt[n]))
  OBVIOUS
<1>2. o \in FieldMaps(wt)
  BY <1>1, NoValuesType, WithType DEF Only
<1>3. ASSUME NEW b \in Bytes, NEW h \in FieldMaps(wt), NEW u \in Bytes,
             Fits(a \o b), Scan(wt, b) = Found(h, u)
      PROVE  Scan(wt, a \o b) = Found(Appended(o, h), u)
  <2> DEFINE f == Field(wt, a \o b, 0)
  <2>1. f = [st |-> "ok", num |-> n, v |-> v, at |-> Len(a)]
    BY <1>3 DEF ReadsAs
  <2>2. f = Field(wt, a \o b, 0) /\ f.st = "ok" /\ f.at = Len(a) /\ f.num = n /\ f.v = v
    BY <2>1
  <2> HIDE DEF f
  <2>3. Scan(wt, a \o b) =
          Found(Consed(h, f), IF f.num \in DOMAIN wt THEN u ELSE f.v \o u)
    BY <1>3, <2>2, ScanPrepends
  <2>4. Consed(h, f) = Appended(o, h)
    <3>1. DOMAIN h = DOMAIN wt /\ \A k \in DOMAIN wt : h[k] \in Seq(ValueSet(wt[k]))
      BY FieldLists
    <3>2. o = [k \in DOMAIN wt |-> IF k = n THEN <<v>> ELSE <<>>]
      BY NoValuesType DEF Only, With
    <3>3. \A k \in DOMAIN wt : <<>> \o h[k] = h[k]
      BY <3>1
    <3> HIDE DEF o
    <3>4. Consed(h, f) = [k \in DOMAIN wt |-> IF k = n THEN <<v>> \o h[k] ELSE h[k]]
      BY <2>2, <3>1 DEF Consed
    <3>5. Appended(o, h) = [k \in DOMAIN wt |-> o[k] \o h[k]]
      BY <3>2 DEF Appended
    <3>6. \A k \in DOMAIN wt : o[k] \o h[k] = IF k = n THEN <<v>> \o h[k] ELSE h[k]
      BY <3>2, <3>3
    <3> QED
      BY <3>4, <3>5, <3>6
  <2> QED
    BY <2>2, <2>3, <2>4
<1>4. Adds(wt, a, o)
  <2> HIDE DEF o
  <2> QED
    BY <1>3 DEF Adds
<1> QED
  BY <1>2, <1>4 DEF Writes

(* Bytes that begin with the one-byte tag of field n and wire type w.      *)
BeginsWith(bs, n, w) ==
  /\ n \in 1 .. 7 /\ w \in {0, 2} /\ bs \in Bytes
  /\ Len(bs) >= 1 /\ bs[1] = 8 * n + w

(* The tag in front of a field.                                            *)
LEMMA TagRead ==
  ASSUME NEW bs, NEW n, NEW w, BeginsWith(bs, n, w), NEW tag, tag = ReadVarint(bs, 0)
  PROVE  /\ tag = Ok(8 * n + w, 1) /\ tag.st = "ok" /\ tag.at = 1
         /\ tag.v % 8 = w /\ FieldNum(tag) = n
<1> DEFINE x == 8 * n + w
           z == 0
<1>0. /\ n \in 1 .. 7 /\ w \in {0, 2} /\ bs \in Bytes
      /\ Len(bs) >= 1 /\ bs[1] = x
  BY DEF BeginsWith
<1>1. x \in Word /\ x \in Nat /\ x < 128
  <2>1. x \in Nat /\ x < 64
    BY <1>0
  <2>2. Full \in Nat /\ Full >= 128
    BY Words
  <2> HIDE DEF x
  <2> QED
    BY <2>1, <2>2 DEF Word
<1>2. x \div 8 = n /\ x % 8 = w
  BY <1>0
<1> HIDE DEF x
<1>3. EncodeVarint(x) = <<x>> /\ Sov(x) = 1
  BY <1>1, EncodeVarintIs, SovStep
<1>4. Matches(EncodeVarint(x), 0, bs, z, Sov(x))
  <2>1. \A k \in 1 .. 1 : <<x>>[0 + k] = bs[z + k]
    BY <1>0
  <2>2. Len(<<x>>) = 1
    OBVIOUS
  <2> QED
    BY <1>0, <1>3, <2>1, <2>2 DEF Matches
<1>5. z \in Nat
  OBVIOUS
<1> HIDE DEF z
<1>6. ReadVarint(bs, z) = Ok(x, z + Sov(x))
  BY <1>0, <1>1, <1>4, <1>5, ReadVarintBack
<1>7. tag = Ok(x, 1)
  BY <1>3, <1>6 DEF z
<1>8. tag.st = "ok" /\ tag.v = x /\ tag.at = 1
  BY <1>7, OkParts
<1>9. FieldNum(tag) = n
  <2> DEFINE p == Pow2[NumBits]
             h == Pow2[NumBits - 1]
  <2>1. p \in Nat /\ h \in Nat /\ h >= 8 /\ p = 2 * h
    BY Words
  <2>2. FieldNum(tag) = IF n % p < h THEN n % p ELSE (n % p) - p
    BY <1>2, <1>8 DEF FieldNum, Signed
  <2> HIDE DEF p, h
  <2>3. n % p = n
    BY <1>0, <2>1
  <2> QED
    BY <1>0, <2>1, <2>2, <2>3
<1> QED
  BY <1>2, <1>7, <1>8, <1>9 DEF x

(* What is written in front of anything is where it was written.           *)
LEMMA Within ==
  ASSUME NEW a \in Bytes, NEW b \in Bytes
  PROVE  /\ a \o b \in Bytes /\ Len(a \o b) = Len(a) + Len(b)
         /\ Len(a) \in Nat /\ Len(b) \in Nat
         /\ \A k \in 1 .. Len(a) : (a \o b)[k] = a[k]
         /\ \A k \in 1 .. Len(b) : (a \o b)[Len(a) + k] = b[k]
BY BytesJoin DEF Joined, Bytes

(* A tag and a number.                                                     *)
Tagged(n, w, x, te) ==
  /\ te \in Bytes /\ Len(te) = 1 + Sov(x) /\ Sov(x) \in Nat /\ te[1] = 8 * n + w
  /\ \A k \in 1 .. Sov(x) : te[1 + k] = EncodeVarint(x)[k]

(* They are as long as Sov says, and the number follows the tag.           *)
LEMMA TaggedNumber ==
  ASSUME NEW n \in 1 .. 7, NEW w \in {0, 2}, NEW x \in Nat
  PROVE  Tagged(n, w, x, Tag(n, w) \o EncodeVarint(x))
<1> DEFINE t == Tag(n, w)
           e == EncodeVarint(x)
<1>1. t \in Bytes /\ Len(t) = 1 /\ t[1] = 8 * n + w
  <2>1. 8 * n + w \in 0 .. 255
    OBVIOUS
  <2>2. t \in Seq(0 .. 255)
    BY <2>1 DEF Tag
  <2> QED
    BY <2>2 DEF Tag, Bytes, Byte
<1>2. e \in Bytes /\ Len(e) = Sov(x) /\ Sov(x) \in Nat
  BY EncodeVarintIs, SovIs
<1> DEFINE te == t \o e
<1> HIDE DEF t, e
<1>3. /\ te \in Bytes /\ Len(te) = Len(t) + Len(e)
      /\ \A k \in 1 .. Len(t) : te[k] = t[k]
      /\ \A k \in 1 .. Len(e) : te[Len(t) + k] = e[k]
  BY <1>1, <1>2, Within
<1> HIDE DEF te
<1>4. te[1] = 8 * n + w
  <2>1. 1 \in 1 .. Len(t)
    BY <1>1
  <2> QED
    BY <1>1, <1>3, <2>1
<1>5. te \in Bytes /\ Len(te) = 1 + Sov(x) /\ \A k \in 1 .. Sov(x) : te[1 + k] = e[k]
  BY <1>1, <1>2, <1>3
<1> QED
  BY <1>2, <1>4, <1>5 DEF te, t, e, Tagged

(* A field with a number.                                                  *)
LEMMA NumberReads ==
  ASSUME NEW wt, NEW n \in 1 .. 7, n \in DOMAIN wt, wt[n] = 0, NEW x \in Word
  PROVE  ReadsAs(wt, Tag(n, 0) \o EncodeVarint(x), n, x)
<1> DEFINE a == Tag(n, 0) \o EncodeVarint(x)
           e == EncodeVarint(x)
<1>1. x \in Nat
  BY Words DEF Word
<1>2. /\ a \in Bytes /\ Len(a) = 1 + Sov(x) /\ Sov(x) \in Nat /\ a[1] = 8 * n + 0
      /\ \A k \in 1 .. Sov(x) : a[1 + k] = e[k]
  <2> DEFINE z == 0
  <2>1. z \in {0, 2}
    OBVIOUS
  <2> HIDE DEF z
  <2>2. Tagged(n, z, x, Tag(n, z) \o EncodeVarint(x))
    BY <1>1, <2>1, TaggedNumber
  <2>3. Tagged(n, 0, x, a)
    BY <2>2 DEF z
  <2> HIDE DEF a
  <2> QED
    BY <2>3 DEF Tagged
<1>3. e \in Bytes /\ Len(e) = Sov(x) /\ Sov(x) >= 1
  BY <1>1, EncodeVarintIs, SovIs
<1> HIDE DEF a, e
<1>4. ASSUME NEW b \in Bytes, Fits(a \o b)
      PROVE  Field(wt, a \o b, 0) = [st |-> "ok", num |-> n, v |-> x, at |-> Len(a)]
  <2> DEFINE ab == a \o b
             tag == ReadVarint(ab, 0)
             r == ReadVarint(ab, 1)
  <2>1. /\ ab \in Bytes /\ Len(ab) = Len(a) + Len(b) /\ Len(b) \in Nat
        /\ \A k \in 1 .. Len(a) : ab[k] = a[k]
    BY <1>2, Within
  <2> HIDE DEF ab
  <2>2. Len(ab) >= 1 /\ ab[1] = 8 * n + 0 /\ 1 + Sov(x) <= Len(ab)
    <3>1. 1 \in 1 .. Len(a)
      BY <1>2
    <3> QED
      BY <1>2, <2>1, <3>1
  <2>3. tag = Ok(8 * n + 0, 1) /\ tag.st = "ok" /\ tag.at = 1 /\ tag.v % 8 = 0 /\ FieldNum(tag) = n
    <3>1. BeginsWith(ab, n, 0)
      BY <2>1, <2>2 DEF BeginsWith
    <3> QED
      BY <3>1, TagRead
  <2>4. Matches(e, 0, ab, 1, Sov(x))
    <3>1. \A k \in 1 .. Sov(x) : 1 + k \in 1 .. Len(a) /\ 0 + k = k
      BY <1>2
    <3>2. \A k \in 1 .. Sov(x) : e[0 + k] = ab[1 + k]
      BY <1>2, <2>1, <3>1
    <3> QED
      BY <1>2, <1>3, <2>2, <3>2 DEF Matches
  <2>5. r = Ok(x, 1 + Sov(x))
    <3> DEFINE one == 1
    <3>1. Matches(EncodeVarint(x), 0, ab, one, Sov(x)) /\ one \in Nat
      BY <2>4 DEF e
    <3> HIDE DEF one
    <3>2. ReadVarint(ab, one) = Ok(x, one + Sov(x))
      BY <2>1, <3>1, ReadVarintBack
    <3> QED
      BY <3>2 DEF one
  <2> HIDE DEF tag, r
  <2>6. r.st = "ok" /\ r.v = x /\ r.at = Len(a)
    BY <1>2, <2>5, OkParts
  <2>7. Known(ab, tag, wt[n]) = r
    BY <2>3 DEF Known, r
  <2> DEFINE q == IF FieldNum(tag) \in DOMAIN wt THEN Known(ab, tag, wt[FieldNum(tag)])
                  ELSE Unknown(ab, 0)
  <2>8. q = r
    BY <2>3, <2>7
  <2>9. tag = ReadVarint(ab, 0) /\ tag.st = "ok"
    BY <2>3 DEF tag
  <2>10. Field(wt, ab, 0) =
           IF tag.v % 8 = 4 \/ FieldNum(tag) <= 0 THEN Failed
           ELSE IF q.st = "ok" THEN [st |-> "ok", num |-> FieldNum(tag), v |-> q.v, at |-> q.at]
           ELSE q
    BY <2>9, FieldIs
  <2> HIDE DEF q
  <2> QED
    BY <2>3, <2>6, <2>8, <2>10 DEF ab
<1> QED
  BY <1>4 DEF ReadsAs, a

(* A field with bytes.                                                     *)
LEMMA DelimitedBytes ==
  ASSUME NEW n \in 1 .. 7, NEW s \in Bytes
  PROVE  /\ Delimited(n, s) \in Bytes /\ Len(Delimited(n, s)) = DelimitedSize(Len(s))
         /\ DelimitedSize(Len(s)) = 1 + Sov(Len(s)) + Len(s) /\ Sov(Len(s)) \in Nat
         /\ Len(s) \in Nat /\ Sov(Len(s)) >= 1
         /\ Delimited(n, s)[1] = 8 * n + 2
         /\ \A k \in 1 .. Sov(Len(s)) : Delimited(n, s)[1 + k] = EncodeVarint(Len(s))[k]
         /\ \A k \in 1 .. Len(s) : Delimited(n, s)[1 + Sov(Len(s)) + k] = s[k]
<1> DEFINE l == Len(s)
           te == Tag(n, 2) \o EncodeVarint(l)
           a == te \o s
           e == EncodeVarint(l)
<1>1. l \in Nat
  BY DEF Bytes
<1>2. l \in Nat /\ Sov(l) \in Nat /\ Sov(l) >= 1
  BY <1>1, SovIs
<1>3. /\ te \in Bytes /\ Len(te) = 1 + Sov(l) /\ te[1] = 8 * n + 2
      /\ \A k \in 1 .. Sov(l) : te[1 + k] = e[k]
  <2> DEFINE w == 2
  <2>1. w \in {0, 2}
    OBVIOUS
  <2> HIDE DEF w, l
  <2>2. Tagged(n, w, l, Tag(n, w) \o EncodeVarint(l))
    BY <1>1, <2>1, TaggedNumber
  <2>3. Tagged(n, 2, l, te)
    BY <2>2 DEF w
  <2> HIDE DEF te
  <2> QED
    BY <2>3 DEF Tagged
<1> HIDE DEF te, e
<1>4. /\ a \in Bytes /\ Len(a) = Len(te) + l
      /\ \A k \in 1 .. Len(te) : a[k] = te[k]
      /\ \A k \in 1 .. l : a[Len(te) + k] = s[k]
  BY <1>3, Within
<1> HIDE DEF a, l
<1>5. a[1] = 8 * n + 2
  <2>1. 1 \in 1 .. Len(te)
    BY <1>2, <1>3
  <2> QED
    BY <1>3, <1>4, <2>1
<1>6. \A k \in 1 .. Sov(l) : a[1 + k] = e[k]
  <2>1. \A k \in 1 .. Sov(l) : 1 + k \in 1 .. Len(te)
    BY <1>2, <1>3
  <2> QED
    BY <1>3, <1>4, <2>1
<1>7. \A k \in 1 .. l : a[1 + Sov(l) + k] = s[k]
  BY <1>3, <1>4
<1>8. Delimited(n, s) = a
  BY DEF Delimited, a, te, l
<1>9. DelimitedSize(l) = 1 + Sov(l) + l
  BY <1>2 DEF DelimitedSize
<1>10. Len(a) = 1 + Sov(l) + l
  BY <1>2, <1>3, <1>4
<1>11. /\ a \in Bytes /\ Len(a) = DelimitedSize(l) /\ DelimitedSize(l) = 1 + Sov(l) + l
       /\ Sov(l) \in Nat /\ l \in Nat /\ Sov(l) >= 1 /\ a[1] = 8 * n + 2
       /\ (\A k \in 1 .. Sov(l) : a[1 + k] = e[k])
       /\ \A k \in 1 .. l : a[1 + Sov(l) + k] = s[k]
  BY <1>2, <1>4, <1>5, <1>6, <1>7, <1>9, <1>10
<1> HIDE DEF a
<1> QED
  BY <1>8, <1>11 DEF l, e

(* Bytes with their length in front read as those bytes.                   *)
LEMMA DelimitedReads ==
  ASSUME NEW wt, NEW n \in 1 .. 7, n \in DOMAIN wt, wt[n] = 2, NEW s \in Bytes
  PROVE  ReadsAs(wt, Delimited(n, s), n, s)
<1> DEFINE a == Delimited(n, s)
           l == Len(s)
           e == EncodeVarint(l)
           v == Sov(l)
<1>1. /\ a \in Bytes /\ Len(a) = 1 + v + l /\ v \in Nat /\ l \in Nat /\ v >= 1
      /\ a[1] = 8 * n + 2 /\ (\A k \in 1 .. v : a[1 + k] = e[k])
      /\ \A k \in 1 .. l : a[1 + v + k] = s[k]
  BY DelimitedBytes
<1>2. e \in Bytes /\ Len(e) = v
  BY <1>1, EncodeVarintIs, SovIs
<1> HIDE DEF a, e, v, l
<1>3. ASSUME NEW b \in Bytes, Fits(a \o b)
      PROVE  Field(wt, a \o b, 0) = [st |-> "ok", num |-> n, v |-> s, at |-> Len(a)]
  <2> DEFINE ab == a \o b
             tag == ReadVarint(ab, 0)
             m == ReadVarint(ab, 1)
             r == ReadBytes(ab, 1)
  <2>1. /\ ab \in Bytes /\ Len(ab) = Len(a) + Len(b) /\ Len(b) \in Nat
        /\ \A k \in 1 .. Len(a) : ab[k] = a[k]
    BY <1>1, Within
  <2>0. Fits(ab)
    BY <1>3
  <2> HIDE DEF ab
  <2>2. Len(ab) >= 1 /\ ab[1] = 8 * n + 2 /\ 1 + v + l <= Len(ab)
    <3>1. 1 \in 1 .. Len(a)
      BY <1>1
    <3> QED
      BY <1>1, <2>1, <3>1
  <2>3. tag.st = "ok" /\ tag.at = 1 /\ tag.v % 8 = 2 /\ FieldNum(tag) = n
    <3>1. BeginsWith(ab, n, 2)
      BY <2>1, <2>2 DEF BeginsWith
    <3> QED
      BY <3>1, TagRead
  <2>4. Matches(e, 0, ab, 1, v)
    <3>1. \A k \in 1 .. v : 1 + k \in 1 .. Len(a) /\ 0 + k = k
      BY <1>1
    <3>2. \A k \in 1 .. v : e[0 + k] = ab[1 + k]
      BY <1>1, <2>1, <3>1
    <3> QED
      BY <1>1, <1>2, <2>2, <3>2 DEF Matches
  <2>5. l < Half /\ l \in Word /\ GoInt(l) = l
    <3>1. Len(ab) < Half /\ Len(ab) \in Nat /\ Half \in Nat /\ Full = 2 * Half
      BY <2>0, <2>1, Words DEF Fits, Half, Bytes
    <3>2. l < Half /\ l \in Word
      BY <1>1, <2>2, <3>1 DEF Word
    <3> QED
      BY <1>1, <3>2, GoIntIs
  <2>6. m = Ok(l, 1 + v)
    <3> DEFINE one == 1
    <3>1. Matches(EncodeVarint(l), 0, ab, one, Sov(l)) /\ one \in Nat
      BY <2>4 DEF e, v
    <3> HIDE DEF one
    <3>2. ReadVarint(ab, one) = Ok(l, one + Sov(l))
      BY <2>1, <2>5, <3>1, ReadVarintBack
    <3> QED
      BY <3>2 DEF one, v
  <2>7. m.st = "ok" /\ m.v = l /\ m.at = 1 + v
    BY <2>6, OkParts
  <2>8. r = Ok(SubSeq(ab, 1 + v + 1, 1 + v + l), 1 + v + l)
    <3> DEFINE one == 1
    <3>1. m = ReadVarint(ab, one) /\ one \in Nat /\ r = ReadBytes(ab, one)
      OBVIOUS
    <3> HIDE DEF one, m, r
    <3>2. \/ /\ ReadBytes(ab, one) = Failed
             /\ m.st = "ok" => GoInt(m.v) < 0 \/ m.at + GoInt(m.v) > Len(ab)
          \/ /\ m.st = "ok" /\ m.at \in one + 1 .. Len(ab) /\ GoInt(m.v) \in Nat
             /\ m.at + GoInt(m.v) <= Len(ab)
             /\ ReadBytes(ab, one) = Ok(SubSeq(ab, m.at + 1, m.at + GoInt(m.v)), m.at + GoInt(m.v))
      BY <2>0, <2>1, <3>1, ReadBytesIs
    <3>3. GoInt(m.v) = l /\ m.at + GoInt(m.v) = 1 + v + l /\ ~(l < 0) /\ ~(1 + v + l > Len(ab))
      BY <1>1, <2>1, <2>2, <2>5, <2>7 DEF Bytes
    <3> QED
      BY <2>7, <3>1, <3>2, <3>3
  <2> HIDE DEF m
  <2>9. SubSeq(ab, 1 + v + 1, 1 + v + l) = s
    <3> DEFINE i == 1 + v
               j == 1 + v + l
               part == SubSeq(ab, i + 1, j)
    <3>1. i \in Nat /\ j \in Nat /\ i <= j /\ j <= Len(ab) /\ j - i = l
      BY <1>1, <2>2
    <3>2. \A k \in 1 .. l : ab[i + k] = s[k]
      <4>1. \A k \in 1 .. l : 1 + v + k \in 1 .. Len(a)
        BY <1>1
      <4> QED
        BY <1>1, <2>1, <4>1
    <3> HIDE DEF i, j
    <3>3. part \in Bytes /\ Len(part) = j - i /\ \A k \in 1 .. j - i : part[k] = ab[i + k]
      BY <2>1, <3>1, PartIs
    <3> HIDE DEF part
    <3>4. Len(part) = Len(s) /\ \A k \in 1 .. Len(part) : part[k] = s[k]
      BY <3>1, <3>2, <3>3 DEF l
    <3>5. part = s
      BY <3>3, <3>4, BytesSame
    <3> QED
      BY <3>5 DEF part, i, j
  <2>10. r.st = "ok" /\ r.v = s /\ r.at = Len(a)
    <3> DEFINE at == 1 + v + l
    <3>1. r = Ok(s, at) /\ at = Len(a)
      BY <1>1, <2>8, <2>9
    <3> HIDE DEF r, at
    <3> QED
      BY <3>1, OkParts
  <2> HIDE DEF tag, r
  <2>11. Known(ab, tag, wt[n]) = r
    BY <2>3 DEF Known, r
  <2> DEFINE q == IF FieldNum(tag) \in DOMAIN wt THEN Known(ab, tag, wt[FieldNum(tag)])
                  ELSE Unknown(ab, 0)
  <2>12. q = r
    BY <2>3, <2>11
  <2>13. tag = ReadVarint(ab, 0) /\ tag.st = "ok"
    BY <2>3 DEF tag
  <2>14. Field(wt, ab, 0) =
           IF tag.v % 8 = 4 \/ FieldNum(tag) <= 0 THEN Failed
           ELSE IF q.st = "ok" THEN [st |-> "ok", num |-> FieldNum(tag), v |-> q.v, at |-> q.at]
           ELSE q
    BY <2>13, FieldIs
  <2> HIDE DEF q
  <2> QED
    BY <2>3, <2>10, <2>12, <2>14 DEF ab
<1> QED
  BY <1>3 DEF ReadsAs, a

(* What a string field holds in a scan, and a number field.                *)
StringValues(s) == IF s = <<>> THEN <<>> ELSE <<s>>
NumberValues(x) == IF x = 0 THEN <<>> ELSE <<x % Full>>

(* No value is no field.                                                   *)
LEMMA OnlyNothing ==
  ASSUME NEW wt, NEW n
  PROVE  Only(wt, n, <<>>) = NoValues(wt)
BY DEF Only, With, NoValues

(* Bytes that are written are found, and nothing else.                     *)
LEMMA DelimitedWrites ==
  ASSUME NEW wt, IsTable(wt), NEW n \in 1 .. 7, n \in DOMAIN wt, wt[n] = 2, NEW s \in Bytes
  PROVE  /\ Writes(wt, Delimited(n, s), DelimitedSize(Len(s)), Only(wt, n, <<s>>))
         /\ DelimitedSize(Len(s)) \in Nat
<1> DEFINE a == Delimited(n, s)
<1>1. a \in Bytes /\ Len(a) = DelimitedSize(Len(s)) /\ Len(a) >= 1 /\ Len(a) \in Nat
  <2> DEFINE l == Len(s)
             v == Sov(l)
  <2>1. /\ a \in Bytes /\ Len(a) = DelimitedSize(l) /\ DelimitedSize(l) = 1 + v + l
        /\ v \in Nat /\ l \in Nat
    BY DelimitedBytes
  <2> HIDE DEF a, l, v
  <2>2. Len(a) >= 1 /\ Len(a) \in Nat
    BY <2>1
  <2> QED
    BY <2>1, <2>2 DEF l
<1>2. ReadsAs(wt, a, n, s)
  BY DelimitedReads
<1>3. s \in ValueSet(wt[n])
  BY DEF ValueSet
<1> HIDE DEF a
<1>4. Writes(wt, a, Len(a), Only(wt, n, <<s>>))
  BY <1>1, <1>2, <1>3, FieldWrites
<1> QED
  BY <1>1, <1>4 DEF a

(* A string field, which is left out when it is empty.                     *)
LEMMA StringWrites ==
  ASSUME NEW wt, IsTable(wt), NEW n \in 1 .. 7, n \in DOMAIN wt, wt[n] = 2, NEW s \in Bytes
  PROVE  Writes(wt, StringField(n, s), StringSize(s), Only(wt, n, StringValues(s)))
<1>1. CASE s = <<>>
  <2>1. Only(wt, n, <<>>) = NoValues(wt)
    BY OnlyNothing
  <2> QED
    BY <1>1, <2>1, WritesNothing DEF StringField, StringSize, StringValues
<1>2. CASE s # <<>>
  <2>1. Writes(wt, Delimited(n, s), DelimitedSize(Len(s)), Only(wt, n, <<s>>))
    BY DelimitedWrites
  <2> QED
    BY <1>2, <2>1 DEF StringField, StringSize, StringValues
<1> QED
  BY <1>1, <1>2

(* A number that is not zero, and nothing else.                            *)
LEMMA NumberWrites ==
  ASSUME NEW wt, IsTable(wt), NEW n \in 1 .. 7, n \in DOMAIN wt, wt[n] = 0, NEW x \in Int
  PROVE  Writes(wt, VarintField(n, x), VarintSize(x), Only(wt, n, NumberValues(x)))
<1>1. CASE x = 0
  <2>1. Only(wt, n, <<>>) = NoValues(wt)
    BY OnlyNothing
  <2> QED
    BY <1>1, <2>1, WritesNothing DEF VarintField, VarintSize, NumberValues
<1>2. CASE x # 0
  <2> DEFINE y == x % Full
             a == Tag(n, 0) \o EncodeVarint(y)
  <2>1. y \in Word
    <3>1. Full \in Nat /\ Full >= 1
      BY Words
    <3>2. \A f \in Nat : f >= 1 => x % f \in 0 .. f - 1
      OBVIOUS
    <3> HIDE DEF Full
    <3> QED
      BY <3>1, <3>2 DEF Word
  <2>2. VarintField(n, x) = a /\ VarintSize(x) = 1 + Sov(y) /\ NumberValues(x) = <<y>>
    BY <1>2 DEF VarintField, VarintSize, NumberValues, Full
  <2> HIDE DEF y
  <2>3. y \in Nat
    BY <2>1, Words DEF Word
  <2>4. a \in Bytes /\ Len(a) = 1 + Sov(y) /\ Sov(y) \in Nat /\ Sov(y) >= 1
    <3> DEFINE z == 0
    <3>1. z \in {0, 2}
      OBVIOUS
    <3> HIDE DEF z
    <3>2. Tagged(n, z, y, Tag(n, z) \o EncodeVarint(y))
      BY <2>3, <3>1, TaggedNumber
    <3>4. Tagged(n, 0, y, a)
      BY <3>2 DEF z
    <3>3. Sov(y) >= 1
      BY <2>3, SovIs
    <3> HIDE DEF a
    <3> QED
      BY <3>3, <3>4 DEF Tagged
  <2>5. ReadsAs(wt, a, n, y)
    BY <2>1, NumberReads
  <2>6. y \in ValueSet(wt[n])
    BY <2>1 DEF ValueSet, Word
  <2> HIDE DEF a
  <2>7. Len(a) >= 1
    BY <2>4
  <2>8. Writes(wt, a, Len(a), Only(wt, n, <<y>>))
    BY <2>4, <2>5, <2>6, <2>7, FieldWrites
  <2> QED
    BY <2>2, <2>4, <2>8
<1> QED
  BY <1>1, <1>2

(* What is read of them.                                                   *)
LEMMA StringBack ==
  ASSUME NEW s, NEW n, NEW x, s.fields[n] = StringValues(x)
  PROVE  StringOf(s, n) = x
<1> DEFINE vs == s.fields[n]
<1>1. StringOf(s, n) = IF vs = <<>> THEN <<>> ELSE vs[Len(vs)]
  BY DEF StringOf, LastOf, Values
<1>2. vs = IF x = <<>> THEN <<>> ELSE <<x>>
  BY DEF StringValues
<1> HIDE DEF vs
<1>3. <<x>> # <<>> /\ <<x>>[Len(<<x>>)] = x
  OBVIOUS
<1> QED
  BY <1>1, <1>2, <1>3

(* A number that is read is the one written.                               *)
LEMMA NumberBack ==
  ASSUME NEW s, NEW n, NEW x, s.fields[n] = NumberValues(x), x \in Word
  PROVE  LastOf(s, n, 0) = x
<1> DEFINE vs == s.fields[n]
<1>1. LastOf(s, n, 0) = IF vs = <<>> THEN 0 ELSE vs[Len(vs)]
  BY DEF LastOf, Values
<1>2. x % Full = x
  <2>1. Full \in Nat
    BY Words
  <2>2. \A f \in Nat : x \in 0 .. f - 1 => x % f = x
    OBVIOUS
  <2> HIDE DEF Full
  <2> QED
    BY <2>1, <2>2 DEF Word
<1>3. vs = IF x = 0 THEN <<>> ELSE <<x>>
  BY <1>2 DEF NumberValues
<1> HIDE DEF vs
<1>4. <<x>> # <<>> /\ <<x>>[Len(<<x>>)] = x
  OBVIOUS
<1> QED
  BY <1>1, <1>3, <1>4

(* So is a number with a sign.                                             *)
LEMMA Int64Back ==
  ASSUME NEW s, NEW n, NEW x \in Int64, s.fields[n] = NumberValues(x)
  PROVE  Int64Of(s, n) = x
<1> DEFINE vs == s.fields[n]
           y == x % Full
<1>1. Int64Of(s, n) = GoInt(IF vs = <<>> THEN 0 ELSE vs[Len(vs)])
  BY DEF Int64Of, LastOf, Values
<1>2. GoInt(y) = x
  BY GoIntBack DEF Int64
<1>3. GoInt(0) = 0
  <2> DEFINE z == 0
  <2>1. z \in Nat /\ z < Half
    BY Words
  <2> HIDE DEF z
  <2>2. GoInt(z) = z
    BY <2>1, GoIntIs
  <2> QED
    BY <2>2 DEF z
<1>4. vs = IF x = 0 THEN <<>> ELSE <<y>>
  BY DEF NumberValues
<1> HIDE DEF vs, y
<1>5. <<y>> # <<>> /\ <<y>>[Len(<<y>>)] = y
  OBVIOUS
<1> QED
  BY <1>1, <1>2, <1>3, <1>4, <1>5

(* So is a Boolean.                                                        *)
LEMMA BoolBack ==
  ASSUME NEW s, NEW n, NEW b \in BOOLEAN, s.fields[n] = NumberValues(IF b THEN 1 ELSE 0)
  PROVE  BoolOf(s, n) = b
<1> DEFINE x == IF b THEN 1 ELSE 0
<1>1. x \in Word
  <2>1. x \in 0 .. 1
    OBVIOUS
  <2> HIDE DEF x
  <2> QED
    BY <2>1, Words DEF Word
<1>2. s.fields[n] = NumberValues(x)
  OBVIOUS
<1> HIDE DEF x
<1>3. LastOf(s, n, 0) = x
  BY <1>1, <1>2, NumberBack
<1> QED
  BY <1>3 DEF BoolOf, x

(* One field of a table.                                                   *)
LEMMA OnlyIs ==
  ASSUME NEW wt, NEW n, NEW vs
  PROVE  /\ DOMAIN Only(wt, n, vs) = DOMAIN wt
         /\ n \in DOMAIN wt => Only(wt, n, vs)[n] = vs
         /\ \A k \in DOMAIN wt : k # n => Only(wt, n, vs)[k] = <<>>
         /\ \A ws : With(Only(wt, n, vs), n, ws) = Only(wt, n, ws)
BY DEF Only, With, NoValues

(* A list and the list with one element more.                              *)
LEMMA FirstOnes ==
  ASSUME NEW V, NEW d \in Seq(V), NEW k \in 1 .. Len(d)
  PROVE  /\ SubSeq(d, 1, k - 1) \in Seq(V) /\ SubSeq(d, 1, k) = SubSeq(d, 1, k - 1) \o <<d[k]>>
         /\ SubSeq(d, 1, 0) = <<>> /\ SubSeq(d, 1, Len(d)) = d /\ d[k] \in V
<1> DEFINE x == SubSeq(d, 1, k)
           b == SubSeq(d, 1, k - 1)
           y == b \o <<d[k]>>
<1>1. k \in Nat /\ k >= 1 /\ k - 1 \in Nat /\ Len(d) \in Nat /\ k <= Len(d) /\ d[k] \in V
  OBVIOUS
<1>2. x \in Seq(V) /\ Len(x) = k /\ \A i \in 1 .. k : x[i] = d[i]
  BY <1>1
<1>3. b \in Seq(V) /\ Len(b) = k - 1 /\ \A i \in 1 .. k - 1 : b[i] = d[i]
  BY <1>1
<1>4. <<d[k]>> \in Seq(V) /\ Len(<<d[k]>>) = 1 /\ <<d[k]>>[1] = d[k]
  BY <1>1
<1> HIDE DEF b
<1>5. y \in Seq(V) /\ Len(y) = k /\ (\A i \in 1 .. k - 1 : y[i] = b[i]) /\ y[k] = d[k]
  BY <1>1, <1>3, <1>4
<1> HIDE DEF x, y
<1>6. \A i \in 1 .. Len(x) : x[i] = y[i]
  BY <1>1, <1>2, <1>3, <1>5
<1>7. x = y
  BY <1>2, <1>5, <1>6, ListsSame
<1>8. SubSeq(d, 1, 0) = <<>> /\ SubSeq(d, 1, Len(d)) = d
  OBVIOUS
<1> QED
  BY <1>1, <1>3, <1>7, <1>8 DEF x, y, b

(* Messages that are written are found, one after the other.               *)
DelimitedAll(n, d) == [k \in DOMAIN d |-> Delimited(n, d[k])]
SizesOf(d) == [k \in DOMAIN d |-> DelimitedSize(Len(d[k]))]

(* A list of messages is one field for each.                               *)
LEMMA MessagesWrite ==
  ASSUME NEW wt, IsTable(wt), NEW n \in 1 .. 7, n \in DOMAIN wt, wt[n] = 2,
         NEW d \in Seq(Bytes)
  PROVE  Writes(wt, Concatenated(DelimitedAll(n, d)), SumOver(SizesOf(d), DOMAIN d),
                Only(wt, n, d))
<1> DEFINE t == DelimitedAll(n, d)
           f == SizesOf(d)
           q == Len(d)
<1>1. q \in Nat /\ DOMAIN d = 1 .. q
  OBVIOUS
<1>2. ASSUME NEW k \in 1 .. q
      PROVE  /\ d[k] \in Bytes /\ t[k] = Delimited(n, d[k]) /\ t[k] \in Bytes
             /\ f[k] = DelimitedSize(Len(d[k])) /\ f[k] \in Nat
             /\ Writes(wt, t[k], f[k], Only(wt, n, <<d[k]>>))
  <2> DEFINE s == d[k]
  <2>1. s \in Bytes /\ t[k] = Delimited(n, s) /\ f[k] = DelimitedSize(Len(s))
    BY <1>1 DEF DelimitedAll, SizesOf
  <2> HIDE DEF s, t, f
  <2>2. Writes(wt, Delimited(n, s), DelimitedSize(Len(s)), Only(wt, n, <<s>>))
        /\ DelimitedSize(Len(s)) \in Nat
    BY <2>1, DelimitedWrites
  <2>3. t[k] \in Bytes
    BY <2>1, <2>2 DEF Writes
  <2> QED
    BY <2>1, <2>2, <2>3 DEF s
<1>3. t \in Seq(Bytes) /\ Len(t) = q
  <2>1. t = [k \in 1 .. q |-> t[k]]
    BY <1>1 DEF DelimitedAll
  <2>2. \A k \in 1 .. q : t[k] \in Bytes
    BY <1>2
  <2> HIDE DEF t, q
  <2> QED
    BY <1>1, <2>1, <2>2
<1>0. \A k \in 1 .. q : f[k] \in Int
  <2>1. \A k \in 1 .. q : f[k] \in Nat
    BY <1>2
  <2> HIDE DEF f, q
  <2> QED
    BY <2>1
<1> HIDE DEF t, f
<1>4. PICK w : Firsts(w, t) /\ Concatenated(t) = w[Len(t)]
  BY <1>3, ConcatenatedRuns
<1> DEFINE Ds(k) == SubSeq(d, 1, k)
           Fine(k) == Writes(wt, w[k], SumOver(f, 1 .. k), Only(wt, n, Ds(k)))
           P == {k \in 0 .. q : Fine(k)}
<1>5. w[0] = <<>> /\ \A k \in 1 .. q : w[k] = w[k - 1] \o t[k]
  BY <1>3, <1>4, FirstsBytes DEF Firsts
<1>6. 0 \in P
  <2>1. 1 .. 0 = {} /\ 0 \in 0 .. q /\ Ds(0) = <<>>
    BY <1>1
  <2>2. SumOver(f, {}) = 0
    BY SumEmpty
  <2>3. Only(wt, n, <<>>) = NoValues(wt)
    BY OnlyNothing
  <2>4. Writes(wt, <<>>, 0, NoValues(wt))
    BY WritesNothing
  <2> QED
    BY <1>5, <2>1, <2>2, <2>3, <2>4
<1>7. ASSUME NEW k \in 1 .. q, k - 1 \in P
      PROVE  k \in P
  <2> DEFINE vs == <<d[k]>>
             prev == Ds(k - 1)
             g == Only(wt, n, prev)
             s == SumOver(f, 1 .. k - 1)
  <2>1. Writes(wt, w[k - 1], s, g)
    BY <1>7
  <2>2. Writes(wt, t[k], f[k], Only(wt, n, vs)) /\ d[k] \in Bytes
    BY <1>2
  <2>3. prev \in Seq(Bytes) /\ Ds(k) = prev \o vs
    BY FirstOnes
  <2>4. SumOver(f, 1 .. k) = s + f[k]
    <3> DEFINE S == 1 .. k - 1
    <3>0. k \in Nat /\ k >= 1 /\ k <= q
      BY <1>1
    <3>1. k \notin S /\ S \cup {k} = 1 .. k
      <4> HIDE DEF q
      <4> QED
        BY <1>1, <3>0
    <3>6. IsFiniteSet(S)
      <4>1. k - 1 \in Int /\ 1 \in Int
        BY <3>0
      <4> QED
        BY <4>1, FS_Interval
    <3>2. \A x \in S \cup {k} : f[x] \in Int
      <4>1. \A x \in S \cup {k} : x \in 1 .. q
        <5> HIDE DEF q
        <5> QED
          BY <1>1, <3>0
      <4> HIDE DEF S, q
      <4> QED
        BY <1>0, <4>1
    <3>3. SumOver(f, S \cup {k}) = f[k] + SumOver(f, S)
      <4> HIDE DEF S
      <4> QED
        BY <3>1, <3>2, <3>6, SumAdd
    <3>4. SumOver(f, S) \in Int
      <4>1. \A x \in S : f[x] \in Int
        BY <3>2
      <4> HIDE DEF S
      <4> QED
        BY <3>6, <4>1, SumType
    <3>5. f[k] \in Int
      BY <1>0
    <3> HIDE DEF S
    <3>7. SumOver(f, 1 .. k) = f[k] + SumOver(f, S)
      BY <3>1, <3>3
    <3>8. SumOver(f, 1 .. k) = SumOver(f, S) + f[k]
      BY <3>4, <3>5, <3>7
    <3> QED
      BY <3>8 DEF S
  <2>5. vs \in Seq(ValueSet(wt[n]))
    BY <2>2 DEF ValueSet
  <2> DEFINE wk == w[k - 1]
             tk == t[k]
             fk == f[k]
             sk == SumOver(f, 1 .. k)
  <2>6. Writes(wt, wk \o tk, sk, With(g, n, g[n] \o vs))
    <3>1. Writes(wt, wk, s, g) /\ Writes(wt, tk, fk, Only(wt, n, vs)) /\ sk = s + fk
      BY <2>1, <2>2, <2>4
    <3> HIDE DEF wk, tk, fk, sk, s, g, vs
    <3> QED
      BY <2>5, <3>1, WritesMore
  <2>7. g[n] = prev /\ With(g, n, prev \o vs) = Only(wt, n, prev \o vs)
    <3> HIDE DEF prev, vs
    <3> QED
      BY OnlyIs
  <2>8. k \in 0 .. q
    BY <1>1
  <2> QED
    BY <1>5, <2>3, <2>6, <2>7, <2>8
<1>8. \A k \in 0 .. q : k \in P
  <2> HIDE DEF P, q
  <2> QED
    BY <1>1, <1>6, <1>7, Induction
<1>9. Fine(q) /\ Ds(q) = d
  BY <1>1, <1>8
<1> QED
  BY <1>1, <1>3, <1>4, <1>9 DEF t, f

-----------------------------------------------------------------------------
(* Whole messages.                                                         *)

(* The next field of a message.                                            *)
LEMMA AlsoWrites ==
  ASSUME NEW wt, IsTable(wt), NEW a, NEW s, NEW g, Writes(wt, a, s, g),
         NEW n \in DOMAIN wt, g[n] = <<>>, NEW vs,
         NEW b, NEW t, Writes(wt, b, t, Only(wt, n, vs)), NEW st, st = s + t
  PROVE  Writes(wt, a \o b, st, With(g, n, vs))
<1>1. Only(wt, n, vs) \in FieldMaps(wt) /\ Only(wt, n, vs)[n] = vs
  BY OnlyIs DEF Writes
<1>2. vs \in Seq(ValueSet(wt[n]))
  <2> DEFINE o == Only(wt, n, vs)
  <2>1. o \in FieldMaps(wt) /\ o[n] = vs
    BY <1>1
  <2> HIDE DEF o
  <2>2. o[n] \in Seq(ValueSet(wt[n]))
    BY <2>1, FieldLists
  <2> QED
    BY <2>1, <2>2
<1>3. Writes(wt, a \o b, st, With(g, n, g[n] \o vs))
  BY <1>2, WritesMore
<1>4. g[n] \o vs = vs
  <2> DEFINE V == ValueSet(wt[n])
  <2>1. vs \in Seq(V)
    BY <1>2
  <2> HIDE DEF V
  <2>2. <<>> \o vs = vs
    BY <2>1
  <2> QED
    BY <2>2
<1> QED
  BY <1>3, <1>4

(* What is found in the fields and behind them.                            *)
LEMMA WritesFound ==
  ASSUME NEW wt, IsTable(wt), NEW a, NEW s, NEW g, Writes(wt, a, s, g), NEW u \in Kept(wt),
         Fits(a \o u)
  PROVE  Scan(wt, a \o u) = Found(g, u)
<1>1. u \in Bytes /\ Scan(wt, u) = Found(NoValues(wt), u) /\ NoValues(wt) \in FieldMaps(wt)
  BY NoValuesType DEF Kept
<1>2. Scan(wt, a \o u) = Found(Appended(g, NoValues(wt)), u)
  BY <1>1 DEF Writes, Adds
<1>3. Appended(g, NoValues(wt)) = g
  <2>1. g \in FieldMaps(wt)
    BY DEF Writes
  <2>2. DOMAIN g = DOMAIN wt /\ (\A k \in DOMAIN wt : g[k] \in Seq(ValueSet(wt[k])))
        /\ g = [k \in DOMAIN wt |-> g[k]]
    BY <2>1 DEF FieldMaps
  <2>3. \A k \in DOMAIN wt : g[k] \o <<>> = g[k]
    <3>1. \A V : \A x \in Seq(V) : x \o <<>> = x
      OBVIOUS
    <3> QED
      BY <2>2, <3>1
  <2>4. Appended(g, NoValues(wt)) = [k \in DOMAIN wt |-> g[k] \o <<>>]
    BY <2>2 DEF Appended, NoValues
  <2> QED
    BY <2>2, <2>3, <2>4
<1> QED
  BY <1>2, <1>3

(* The fields in a row.                                                    *)
LEMMA NoFieldWrites ==
  Writes(<<>>, <<>>, 0, <<>>)
<1>1. NoValues(<<>>) = <<>>
  BY DEF NoValues
<1> QED
  BY <1>1, Tables, WritesNothing

(* One field, a string or a message.                                       *)
LEMMA OneFieldWrites ==
  ASSUME NEW a, NEW s, NEW v, Writes(<< 2 >>, a, s, Only(<< 2 >>, 1, v))
  PROVE  Writes(<< 2 >>, a, s, <<v>>)
<1>1. Only(<< 2 >>, 1, v) = <<v>>
  BY DEF Only, With, NoValues
<1> QED
  BY <1>1

(* A string or a message, and a field of either kind.                      *)
LEMMA TwoFieldsWrite ==
  ASSUME NEW x \in {0, 2}, NEW a, NEW s, NEW v, Writes(<<2, x>>, a, s, Only(<<2, x>>, 1, v)),
         NEW b, NEW t, NEW w, Writes(<<2, x>>, b, t, Only(<<2, x>>, 2, w)),
         NEW st, st = s + t
  PROVE  Writes(<<2, x>>, a \o b, st, <<v, w>>)
<1> DEFINE wt == <<2, x>>
           g == <<v, <<>>>>
           two == 2
<1>1. IsTable(wt)
  BY DEF IsTable
<1>2. Only(wt, 1, v) = g
  BY DEF Only, With, NoValues
<1>3. two \in DOMAIN wt /\ g[two] = <<>>
  OBVIOUS
<1>4. With(g, two, w) = <<v, w>>
  BY DEF With
<1>5. Writes(wt, a, s, g) /\ Writes(wt, b, t, Only(wt, two, w))
  BY <1>2
<1> HIDE DEF wt, g, two
<1>6. Writes(wt, a \o b, st, With(g, two, w))
  BY <1>1, <1>3, <1>5, AlsoWrites
<1> QED
  BY <1>4, <1>6 DEF wt

(* The three fields of an identity.                                        *)
LEMMA ThreeFieldsWrite ==
  ASSUME NEW a, NEW s, NEW v, Writes(<<2, 2, 0>>, a, s, Only(<<2, 2, 0>>, 1, v)),
         NEW b, NEW t, NEW w, Writes(<<2, 2, 0>>, b, t, Only(<<2, 2, 0>>, 2, w)),
         NEW c, NEW r, NEW x, Writes(<<2, 2, 0>>, c, r, Only(<<2, 2, 0>>, 3, x)),
         NEW st, st = s + t, NEW str, str = st + r
  PROVE  Writes(<<2, 2, 0>>, (a \o b) \o c, str, <<v, w, x>>)
<1> DEFINE wt == <<2, 2, 0>>
           g1 == <<v, <<>>, <<>>>>
           g2 == <<v, w, <<>>>>
           ab == a \o b
           two == 2
           three == 3
<1>1. IsTable(wt)
  BY Tables
<1>2. Only(wt, 1, v) = g1
  BY DEF Only, With, NoValues
<1>3. two \in DOMAIN wt /\ g1[two] = <<>> /\ three \in DOMAIN wt /\ g2[three] = <<>>
  OBVIOUS
<1>4. With(g1, two, w) = g2 /\ With(g2, three, x) = <<v, w, x>>
  BY DEF With
<1>5. /\ Writes(wt, a, s, g1) /\ Writes(wt, b, t, Only(wt, two, w))
      /\ Writes(wt, c, r, Only(wt, three, x))
  BY <1>2
<1> HIDE DEF wt, g1, two, three
<1>6. Writes(wt, a \o b, st, With(g1, two, w))
  BY <1>1, <1>3, <1>5, AlsoWrites
<1>7. Writes(wt, ab, st, g2)
  BY <1>4, <1>6
<1> HIDE DEF ab, g2
<1>8. Writes(wt, ab \o c, str, With(g2, three, x))
  BY <1>1, <1>3, <1>5, <1>7, AlsoWrites
<1> QED
  BY <1>4, <1>8 DEF wt, ab

(* The five fields of what asks for a page.                                *)
LEMMA FiveFieldsWrite ==
  ASSUME NEW wt, wt = <<2, 0, 0, 0, 0>>,
         NEW a, NEW s, NEW v, Writes(wt, a, s, Only(wt, 1, v)),
         NEW b, NEW t, NEW w, Writes(wt, b, t, Only(wt, 2, w)),
         NEW c, NEW r, NEW x, Writes(wt, c, r, Only(wt, 3, x)),
         NEW d, NEW q, NEW y, Writes(wt, d, q, Only(wt, 4, y)),
         NEW e, NEW p, NEW z, Writes(wt, e, p, Only(wt, 5, z)),
         NEW st, st = s + t, NEW str, str = st + r, NEW strq, strq = str + q,
         NEW all, all = strq + p
  PROVE  Writes(wt, (((a \o b) \o c) \o d) \o e, all, <<v, w, x, y, z>>)
<1> DEFINE g1 == <<v, <<>>, <<>>, <<>>, <<>>>>
           g2 == <<v, w, <<>>, <<>>, <<>>>>
           g3 == <<v, w, x, <<>>, <<>>>>
           g4 == <<v, w, x, y, <<>>>>
           ab == a \o b
           abc == ab \o c
           abcd == abc \o d
           two == 2
           three == 3
           four == 4
           five == 5
<1>1. IsTable(wt)
  BY Tables
<1>2. Only(wt, 1, v) = g1
  BY DEF Only, With, NoValues
<1>3. two \in DOMAIN wt /\ three \in DOMAIN wt /\ four \in DOMAIN wt /\ five \in DOMAIN wt
  OBVIOUS
<1>4. g1[two] = <<>> /\ g2[three] = <<>> /\ g3[four] = <<>> /\ g4[five] = <<>>
  OBVIOUS
<1>5. With(g1, two, w) = g2 /\ With(g2, three, x) = g3
  BY DEF With
<1>6. With(g3, four, y) = g4 /\ With(g4, five, z) = <<v, w, x, y, z>>
  BY DEF With
<1>7. /\ Writes(wt, a, s, g1) /\ Writes(wt, b, t, Only(wt, two, w))
      /\ Writes(wt, c, r, Only(wt, three, x)) /\ Writes(wt, d, q, Only(wt, four, y))
      /\ Writes(wt, e, p, Only(wt, five, z))
  BY <1>2
<1> HIDE DEF g1, two, three, four, five
<1>8. Writes(wt, a \o b, st, With(g1, two, w))
  BY <1>1, <1>3, <1>4, <1>7, AlsoWrites
<1>9. Writes(wt, ab, st, g2)
  BY <1>5, <1>8
<1> HIDE DEF ab, g2
<1>10. Writes(wt, ab \o c, str, With(g2, three, x))
  BY <1>1, <1>3, <1>4, <1>7, <1>9, AlsoWrites
<1>11. Writes(wt, abc, str, g3)
  BY <1>5, <1>10
<1> HIDE DEF abc, g3
<1>12. Writes(wt, abc \o d, strq, With(g3, four, y))
  BY <1>1, <1>3, <1>4, <1>7, <1>11, AlsoWrites
<1>13. Writes(wt, abcd, strq, g4)
  BY <1>6, <1>12
<1> HIDE DEF abcd, g4
<1>14. Writes(wt, abcd \o e, all, With(g4, five, z))
  BY <1>1, <1>3, <1>4, <1>7, <1>13, AlsoWrites
<1> QED
  BY <1>6, <1>14 DEF ab, abc, abcd

-----------------------------------------------------------------------------
(* Lists of messages, read as they were written.                           *)

(* A list of results that are what was written.                            *)
LEMMA EachBack ==
  ASSUME NEW u, NEW d, NEW ms, DOMAIN d = DOMAIN ms, ms = [k \in DOMAIN ms |-> ms[k]],
         \A k \in DOMAIN ms : u[d[k]] = Ok(ms[k], 0)
  PROVE  EachOf(u, d) = Ok(ms, 0)
<1> DEFINE r == [k \in DOMAIN d |-> u[d[k]]]
<1>1. EachOf(u, d) = All(r)
  BY DEF EachOf
<1>2. DOMAIN r = DOMAIN ms /\ \A k \in DOMAIN ms : r[k].st = "ok" /\ r[k].v = ms[k]
  BY OkParts
<1> HIDE DEF r
<1>3. {k \in DOMAIN r : r[k].st # "ok"} = {}
  BY <1>2
<1>4. All(r) = Ok([k \in DOMAIN r |-> r[k].v], 0)
  BY <1>3 DEF All
<1>5. [k \in DOMAIN r |-> r[k].v] = ms
  BY <1>2
<1> QED
  BY <1>1, <1>4, <1>5

(* One value is what is put together.                                      *)
LEMMA ConcatenatedOne ==
  ASSUME NEW x \in Bytes
  PROVE  Concatenated(<<x>>) = x
<1> DEFINE e == <<>>
<1>1. e \in Seq(Bytes) /\ <<x>> \o e = <<x>>
  OBVIOUS
<1> HIDE DEF e
<1>2. Concatenated(<<x>> \o e) = x \o Concatenated(e)
  BY <1>1, ConcatenatedCons
<1>3. Concatenated(e) = <<>>
  BY ConcatenatedNothing DEF e
<1> QED
  BY <1>1, <1>2, <1>3, JoinNothing

(* One message, by value or into a pointer; and none.                      *)
LEMMA OneBack ==
  ASSUME NEW u, NEW x \in Bytes, NEW m, u[x] = Ok(m, 0)
  PROVE  MergedOf(u, <<x>>) = Ok(m, 0) /\ OptionalOf(u, <<x>>) = Ok(<<m>>, 0)
<1> DEFINE d == <<x>>
           ms == <<m>>
<1>1. DOMAIN d = DOMAIN ms /\ ms = [k \in DOMAIN ms |-> ms[k]] /\ d # <<>>
  OBVIOUS
<1>2. \A k \in DOMAIN ms : u[d[k]] = Ok(ms[k], 0)
  OBVIOUS
<1>3. Concatenated(d) = x
  BY ConcatenatedOne
<1> HIDE DEF d, ms
<1>4. EachOf(u, d) = Ok(ms, 0)
  BY <1>1, <1>2, EachBack
<1>5. EachOf(u, d).st = "ok"
  BY <1>4, OkParts
<1>6. MergedOf(u, d) = Ok(m, 0)
  BY <1>3, <1>5 DEF MergedOf
<1>7. MergedOf(u, d).st = "ok" /\ MergedOf(u, d).v = m
  BY <1>6, OkParts
<1>8. OptionalOf(u, d) = Ok(<<m>>, 0)
  BY <1>1, <1>7 DEF OptionalOf
<1> QED
  BY <1>6, <1>8 DEF d

(* No message is no message.                                               *)
LEMMA NoneBack ==
  ASSUME NEW u
  PROVE  OptionalOf(u, <<>>) = Ok(<<>>, 0)
BY DEF OptionalOf

(* A pointer is a list.                                                    *)
LEMMA PointerList ==
  ASSUME NEW S, NEW ms \in Pointer(S)
  PROVE  ms \in Seq(S) /\ (ms = <<>> \/ \E m \in S : ms = <<m>>)
<1>1. <<>> \in Seq(S)
  OBVIOUS
<1>2. \A m \in S : <<m>> \in Seq(S)
  OBVIOUS
<1>3. ms = <<>> \/ \E m \in S : ms = <<m>>
  BY DEF Pointer
<1> QED
  BY <1>1, <1>2, <1>3

(* The buffers of a readable list.                                         *)
LEMMA ReadableOnes ==
  ASSUME NEW d, Readable(d)
  PROVE  d \in Seq(Buffers) /\ Concatenated(d) \in Buffers
         /\ \A k \in DOMAIN d : d[k] \in Buffers /\ d[k] \in Bytes /\ Fits(d[k])
BY DEF Readable, Buffers
=============================================================================
