-------------------------------- MODULE Wire --------------------------------
(***************************************************************************)
(* The protobuf wire format as the generated code of this repository reads *)
(* and writes it.  Two generators were run over the same .proto files:     *)
(* protoc-gen-gogo (x/identity/types/ *.pb.go, module GogoCodec) and       *)
(* protoc-gen-go-pulsar (api/nexelra/identity/ *.pulsar.go, module         *)
(* PulsarCodec).  They unroll the same loops into every message; the loops *)
(* are written once here, and a message is what its fields do with them.   *)
(*                                                                         *)
(* A buffer is a sequence of bytes 0..255.  Indexes are the code's: they   *)
(* start at 0, and an index or a length is a Go int that wraps around.     *)
(* The machine's widths are parameters, so that the places where the code  *)
(* checks for overflow are within reach of short buffers.                  *)
(***************************************************************************)
EXTENDS Integers, Sequences, FiniteSetsExt

CONSTANTS
    WordBits,      \* bits of an int, an int64 and a uint64 (64)
    NumBits,       \* bits of a field number after the conversion to int32 (32)
    Fixed32Bytes,  \* bytes that wire type 5 takes (4)
    Fixed64Bytes   \* bytes that wire type 1 takes (8)

ASSUME WireAssumption ==
    /\ WordBits \in Nat /\ NumBits \in 4..(WordBits - 3)
    /\ Fixed32Bytes \in 1..8 /\ Fixed64Bytes \in 1..8

\* The powers of two, as a table.
Pow2 == LET power[k \in 0..WordBits] == IF k = 0 THEN 1 ELSE 2 * power[k - 1]
        IN  [k \in 0..WordBits |-> power[k]]

Signed(v, bits) == IF v < Pow2[bits - 1] THEN v ELSE v - Pow2[bits]
GoInt(v) == Signed(v % Pow2[WordBits], WordBits)

\* The length of a buffer is an int.
Fits(bs) == Len(bs) < Pow2[WordBits - 1]

-----------------------------------------------------------------------------
(* Results: a value and the index behind it, an error the code returns, or  *)
(* the run-time panic of an access outside the buffer.                      *)

Ok(v, at) == [st |-> "ok", v |-> v, at |-> at]
Failed == [st |-> "error"]
Panic  == [st |-> "panic"]

\* if err != nil { return err }
Then(result, Rest(_)) == IF result.st = "ok" THEN Rest(result) ELSE result

Slice(bs, i, j) ==
    IF 0 <= i /\ i <= j /\ j <= Len(bs) THEN Ok(SubSeq(bs, i + 1, j), j) ELSE Panic

-----------------------------------------------------------------------------
(* Reading.  for shift := uint(0); ; shift += 7 { ... }: overflow once the  *)
(* shift reaches the width of a word, unexpected EOF behind the buffer; the *)
(* bits of the last group that do not fit are lost.                         *)
Groups == (WordBits + 6) \div 7
ReadVarint(bs, i) ==
    LET read[left \in 0..Groups] ==
            LET j == i + Groups - left
            IN  IF left = 0 \/ j >= Len(bs) THEN Failed
                ELSE IF bs[j + 1] < 128 THEN Ok(bs[j + 1], j + 1)
                ELSE Then(read[left - 1], LAMBDA more :
                         Ok((bs[j + 1] % 128) + 128 * more.v, more.at))
    IN  Then(read[Groups], LAMBDA n : Ok(n.v % Pow2[WordBits], n.at))

\* Mutant: the index behind the bytes is not checked for having wrapped around.
ReadBytes_NoPostCheck(bs, i) ==
    Then(ReadVarint(bs, i), LAMBDA n :
        LET postIndex == GoInt(n.at + GoInt(n.v))
        IN  IF GoInt(n.v) < 0 \/ postIndex > Len(bs) THEN Failed
            ELSE Slice(bs, n.at, postIndex))

\* A length and as many bytes.
ReadBytes(bs, i) ==
    Then(ReadVarint(bs, i), LAMBDA n :
        LET len == GoInt(n.v)
            postIndex == GoInt(n.at + len)
        IN  IF len < 0 \/ postIndex < 0 \/ postIndex > Len(bs) THEN Failed
            ELSE Slice(bs, n.at, postIndex))

\* skipTx and its copies, runtime.Skip.  What is behind a tag that was read;
\* the value is the change of depth.
SkipValue(bs, tag, depth) ==
    LET wireType == tag.v % 8
    IN  CASE wireType = 0 -> Then(ReadVarint(bs, tag.at), LAMBDA n : Ok(0, n.at))
          [] wireType = 1 -> Ok(0, GoInt(tag.at + Fixed64Bytes))
          [] wireType = 2 ->
                Then(ReadVarint(bs, tag.at), LAMBDA n :
                    IF GoInt(n.v) < 0 THEN Failed ELSE Ok(0, GoInt(n.at + GoInt(n.v))))
          [] wireType = 5 -> Ok(0, GoInt(tag.at + Fixed32Bytes))
          [] wireType = 3 -> Ok(1, tag.at)
          [] wireType = 4 /\ depth > 0 -> Ok(-1, tag.at)
          [] OTHER -> Failed

\* The length of the field at the start of bs, a group with all that is in it.
SkipOne(bs, i, depth) ==
    Then(ReadVarint(bs, i), LAMBDA tag : SkipValue(bs, tag, depth))
Skip(bs) ==
    LET skip[i \in 0..Len(bs)] == [depth \in Nat |->
            IF i = Len(bs) THEN Failed
            ELSE Then(SkipOne(bs, i, depth), LAMBDA step :
                     IF step.at < 0 THEN Failed
                     ELSE IF depth + step.v = 0 THEN Ok(step.at, step.at)
                     ELSE IF step.at > Len(bs) THEN Failed
                     ELSE skip[step.at][depth + step.v])]
    IN  skip[0][0]

\* What is behind the tag of the field at index i: its value, or all the bytes
\* of the field if it is not known.
Known(bs, tag, wireType) ==
    IF tag.v % 8 # wireType THEN Failed
    ELSE IF wireType = 0 THEN ReadVarint(bs, tag.at) ELSE ReadBytes(bs, tag.at)
Unknown(bs, i) ==
    Then(Skip(SubSeq(bs, i + 1, Len(bs))), LAMBDA skippy :
        IF GoInt(i + skippy.v) \notin 0..Len(bs) THEN Failed
        ELSE Slice(bs, i, i + skippy.v))
Field(wireTypes, bs, i) ==
    Then(ReadVarint(bs, i), LAMBDA tag :
        LET fieldNum == Signed((tag.v \div 8) % Pow2[NumBits], NumBits)
        IN  IF tag.v % 8 = 4 \/ fieldNum <= 0 THEN Failed
            ELSE Then(IF fieldNum \in DOMAIN wireTypes
                      THEN Known(bs, tag, wireTypes[fieldNum]) ELSE Unknown(bs, i),
                      LAMBDA field : [st |-> "ok", num |-> fieldNum,
                                      v |-> field.v, at |-> field.at]))

(***************************************************************************)
(* The loop of Unmarshal: for each known field the values in the order     *)
(* they occur, and the bytes of the others.  wireTypes[n] is the wire type *)
(* the code accepts for field n.                                           *)
(***************************************************************************)
Put(field, rest) ==
    IF field.num \in DOMAIN rest.fields
    THEN [rest EXCEPT !.fields[field.num] = <<field.v>> \o @]
    ELSE [rest EXCEPT !.unknown = field.v \o @]
Scan(wireTypes, bs) ==
    LET scan[i \in 0..Len(bs)] ==
            IF i = Len(bs)
            THEN [st |-> "ok", fields |-> [n \in DOMAIN wireTypes |-> <<>>], unknown |-> <<>>]
            ELSE Then(Field(wireTypes, bs, i), LAMBDA field :
                 Then(scan[field.at], LAMBDA rest : Put(field, rest)))
    IN  scan[0]

\* The values a scanned field took, in order, and the one that stays.
Values(scanned, n) == scanned.fields[n]
LastOf(scanned, n, zero) ==
    LET vs == Values(scanned, n) IN IF vs = <<>> THEN zero ELSE vs[Len(vs)]

StringOf(scanned, n) == LastOf(scanned, n, <<>>)
Int64Of(scanned, n)  == GoInt(LastOf(scanned, n, 0))
BoolOf(scanned, n)   == LastOf(scanned, n, 0) # 0

Concatenated(ss) ==
    LET first[k \in 0..Len(ss)] == IF k = 0 THEN <<>> ELSE first[k - 1] \o ss[k]
    IN  first[Len(ss)]

\* Fields that are messages: every occurrence is unmarshalled, into a new
\* element of a list or, one after the other, into the same message, which is
\* what unmarshalling their concatenation gives.
All(results) ==
    LET bad == {k \in DOMAIN results : results[k].st # "ok"}
    IN  IF bad # {} THEN results[Min(bad)]
        ELSE Ok([k \in DOMAIN results |-> results[k].v], 0)
Each(Unmarshal(_), vs) == All([k \in DOMAIN vs |-> Unmarshal(vs[k])])
Merged(Unmarshal(_), vs) ==
    Then(Each(Unmarshal, vs), LAMBDA all : Unmarshal(Concatenated(vs)))
\* The same into a pointer: nothing when the field does not occur.
Optional(Unmarshal(_), vs) ==
    IF vs = <<>> THEN Ok(<<>>, 0)
    ELSE Then(Merged(Unmarshal, vs), LAMBDA merged : Ok(<<merged.v>>, 0))

-----------------------------------------------------------------------------
(* Writing. *)

\* bits.Len64 of a number that is not 0.
BitLen(x) ==
    LET length[v \in 1..x] == IF v = 1 THEN 1 ELSE 1 + length[v \div 2] IN length[x]

\* Mutant: one group too many for a length of a whole number of groups.
Sov_RoundsUp(x) == (BitLen(IF x = 0 THEN 1 ELSE x) + 7) \div 7

\* sovTx and its copies, runtime.Sov: (bits.Len64(x|1) + 6) / 7.
Sov(x) == (BitLen(IF x = 0 THEN 1 ELSE x) + 6) \div 7

\* encodeVarintTx and its copies, runtime.EncodeVarint.
EncodeVarint(x) ==
    LET put[v \in 0..x] == IF v < 128 THEN <<v>> ELSE <<(v % 128) + 128>> \o put[v \div 128]
    IN  put[x]

Tag(n, wireType) == <<8 * n + wireType>>
Delimited(n, bs) == Tag(n, 2) \o EncodeVarint(Len(bs)) \o bs
DelimitedSize(l) == 1 + l + Sov(l)

\* Mutant: the length prefix is not counted.
StringSize_NoPrefix(s) == IF s = <<>> THEN 0 ELSE 1 + Len(s)

\* A string that is empty and a number that is zero are not written.
StringField(n, s) == IF s = <<>> THEN <<>> ELSE Delimited(n, s)
StringSize(s)     == IF s = <<>> THEN 0 ELSE DelimitedSize(Len(s))
VarintField(n, x) == IF x = 0 THEN <<>> ELSE Tag(n, 0) \o EncodeVarint(x % Pow2[WordBits])
VarintSize(x)     == IF x = 0 THEN 0 ELSE 1 + Sov(x % Pow2[WordBits])

\* Messages: a list, a pointer as a list of at most one, or <<m>> for a message
\* held by value, which is written even when it is empty.
MessagesField(n, Marshal(_), ms) ==
    Concatenated([k \in DOMAIN ms |-> Delimited(n, Marshal(ms[k]))])
MessagesSize(Size(_), ms) ==
    LET sizes == [k \in DOMAIN ms |-> DelimitedSize(Size(ms[k]))]
    IN  MapThenSumSet(LAMBDA k : sizes[k], DOMAIN ms)

\* The message is written from the end of a buffer of Size() bytes to its
\* front.  Too large a size leaves zeroes in front; too small a one panics,
\* which stands here as a byte that is none.
Fill(size, body) ==
    IF size < Len(body) THEN <<256>> ELSE [k \in 1..(size - Len(body)) |-> 0] \o body
=============================================================================
