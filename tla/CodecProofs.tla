---------------------------- MODULE CodecProofs ----------------------------
(***************************************************************************)
(* Every invariant of Codec, for buffers of any length, messages with any  *)
(* field values and lists of any length.                                   *)
(*                                                                         *)
(* One lemma per message says what both unmarshallers read (X_Reads: they  *)
(* fail both, or read a well-formed message and what it says), one what a  *)
(* scan finds in what each marshaller wrote (X_Found, X_PlainFound), one   *)
(* that the message is read back from it (X_Back, X_PlainBack).  Lemmas    *)
(* AllReadAlike, PulsarReads and GogoReads put them together by the name   *)
(* of the type; the theorems follow from those and the inductive IInv.     *)
(***************************************************************************)
EXTENDS Codec, WireProofs

(* Well-formed pulsar messages: what unmarshal returns.                    *)
ParamsSet == [unknown : Kept(<<>>)]
IdentitySet == [address : Bytes, idHash : Bytes, createdAt : Int64, unknown : Kept(<<2, 2, 0>>)]
PageRequestSet == [key : Bytes, offset : Word, limit : Word, countTotal : BOOLEAN,
                   reverse : BOOLEAN, unknown : Kept(<<2, 0, 0, 0, 0>>)]
PageResponseSet == [nextKey : Bytes, total : Word, unknown : Kept(<<2, 0>>)]

(* What is left of them in the gogo form.                                  *)
PlainParams == [m \in ParamsSet |-> NoFields]
PlainIdentity == [m \in IdentitySet |->
  [address |-> m.address, idHash |-> m.idHash, createdAt |-> m.createdAt]]
PlainPageRequest == [m \in PageRequestSet |->
  [key |-> m.key, offset |-> m.offset, limit |-> m.limit, countTotal |-> m.countTotal,
   reverse |-> m.reverse]]
PlainPageResponse == [m \in PageResponseSet |-> [nextKey |-> m.nextKey, total |-> m.total]]

(* Both forms of a message that is a field are read alike.                 *)
LEMMA Params_Reads ==
  ASSUME NEW bs \in Buffers
  PROVE  Agreeing(Params_unmarshal(bs), Params_Unmarshal(bs), ParamsSet, PlainParams)
<1> DEFINE s == Scan(<<>>, bs)
<1>1. s = Failed \/ (s.st = "ok" /\ s.unknown \in Kept(<<>>))
  BY Tables, ScanFinds
<1> HIDE DEF s
<1>2. Params_unmarshal(bs) = IF s.st = "ok" THEN Ok([unknown |-> s.unknown], 0) ELSE s
  BY DEF Params_unmarshal, Then, s
<1>3. Params_Unmarshal(bs) = IF s.st = "ok" THEN Ok(NoFields, 0) ELSE s
  BY DEF Params_Unmarshal, Then, s
<1>4. CASE s = Failed
  BY <1>2, <1>3, <1>4 DEF Agreeing, Failed
<1>5. CASE s.st = "ok" /\ s.unknown \in Kept(<<>>)
  <2> DEFINE m == [unknown |-> s.unknown]
  <2>1. m \in ParamsSet /\ PlainParams[m] = NoFields
    BY <1>5 DEF ParamsSet, PlainParams
  <2>2. Params_unmarshal(bs) = Ok(m, 0) /\ Params_Unmarshal(bs) = Ok(PlainParams[m], 0)
    BY <1>2, <1>3, <1>5, <2>1
  <2> HIDE DEF m
  <2> QED
    BY <2>1, <2>2 DEF Agreeing
<1> QED
  BY <1>1, <1>4, <1>5

(* An identity.                                                            *)
LEMMA Identity_Reads ==
  ASSUME NEW bs \in Buffers
  PROVE  Agreeing(Identity_unmarshal(bs), Identity_Unmarshal(bs), IdentitySet, PlainIdentity)
<1> DEFINE wt == <<2, 2, 0>>
           s == Scan(wt, bs)
<1>0. IsTable(wt) /\ 1 \in DOMAIN wt /\ 2 \in DOMAIN wt /\ 3 \in DOMAIN wt
      /\ wt[1] = 2 /\ wt[2] = 2 /\ wt[3] = 0
  BY Tables
<1>1. s = Failed \/ (s.st = "ok" /\ s.fields \in FieldMaps(wt) /\ s.unknown \in Kept(wt))
  BY Tables, ScanFinds
<1> DEFINE m == [address |-> StringOf(s, 1), idHash |-> StringOf(s, 2),
                 createdAt |-> Int64Of(s, 3), unknown |-> s.unknown]
           q == [address |-> StringOf(s, 1), idHash |-> StringOf(s, 2),
                 createdAt |-> Int64Of(s, 3)]
<1>2. Identity_unmarshal(bs) = IF s.st = "ok" THEN Ok(m, 0) ELSE s
  BY DEF Identity_unmarshal, Then
<1>3. Identity_Unmarshal(bs) = IF s.st = "ok" THEN Ok(q, 0) ELSE s
  BY DEF Identity_Unmarshal, Then
<1>4. CASE s = Failed
  BY <1>2, <1>3, <1>4 DEF Agreeing, Failed
<1>5. CASE s.st = "ok" /\ s.fields \in FieldMaps(wt) /\ s.unknown \in Kept(wt)
  <2>1. StringOf(s, 1) \in Bytes /\ StringOf(s, 2) \in Bytes /\ Int64Of(s, 3) \in Int64
    <3> HIDE DEF s, wt
    <3> QED
      BY <1>0, <1>5, StringType, NumberType
  <2> HIDE DEF s
  <2>2. m \in IdentitySet /\ q = PlainIdentity[m]
    BY <1>5, <2>1 DEF IdentitySet, PlainIdentity
  <2>3. Identity_unmarshal(bs) = Ok(m, 0) /\ Identity_Unmarshal(bs) = Ok(q, 0)
    BY <1>2, <1>3, <1>5
  <2> HIDE DEF m, q
  <2> QED
    BY <2>2, <2>3 DEF Agreeing
<1> QED
  BY <1>1, <1>4, <1>5

(* What asks for a page.                                                   *)
LEMMA PageRequest_Reads ==
  ASSUME NEW bs \in Buffers
  PROVE  Agreeing(PageRequest_unmarshal(bs), PageRequest_Unmarshal(bs),
                  PageRequestSet, PlainPageRequest)
<1> DEFINE wt == <<2, 0, 0, 0, 0>>
           s == Scan(wt, bs)
<1>0. IsTable(wt) /\ (\A n \in 1 .. 5 : n \in DOMAIN wt) /\ wt[1] = 2
      /\ \A n \in 2 .. 5 : wt[n] = 0
  BY Tables
<1>1. s = Failed \/ (s.st = "ok" /\ s.fields \in FieldMaps(wt) /\ s.unknown \in Kept(wt))
  BY Tables, ScanFinds
<1> DEFINE m == [key |-> StringOf(s, 1), offset |-> LastOf(s, 2, 0), limit |-> LastOf(s, 3, 0),
                 countTotal |-> BoolOf(s, 4), reverse |-> BoolOf(s, 5), unknown |-> s.unknown]
           q == [key |-> StringOf(s, 1), offset |-> LastOf(s, 2, 0), limit |-> LastOf(s, 3, 0),
                 countTotal |-> BoolOf(s, 4), reverse |-> BoolOf(s, 5)]
<1>2. PageRequest_unmarshal(bs) = IF s.st = "ok" THEN Ok(m, 0) ELSE s
  BY DEF PageRequest_unmarshal, Then
<1>3. PageRequest_Unmarshal(bs) = IF s.st = "ok" THEN Ok(q, 0) ELSE s
  BY DEF PageRequest_Unmarshal, Then
<1>4. CASE s = Failed
  BY <1>2, <1>3, <1>4 DEF Agreeing, Failed
<1>5. CASE s.st = "ok" /\ s.fields \in FieldMaps(wt) /\ s.unknown \in Kept(wt)
  <2>1. StringOf(s, 1) \in Bytes
        /\ \A n \in 2 .. 5 : LastOf(s, n, 0) \in Word /\ BoolOf(s, n) \in BOOLEAN
    <3> HIDE DEF s, wt
    <3> QED
      BY <1>0, <1>5, StringType, NumberType
  <2> HIDE DEF s
  <2>2. m \in PageRequestSet /\ q = PlainPageRequest[m]
    BY <1>5, <2>1 DEF PageRequestSet, PlainPageRequest
  <2>3. PageRequest_unmarshal(bs) = Ok(m, 0) /\ PageRequest_Unmarshal(bs) = Ok(q, 0)
    BY <1>2, <1>3, <1>5
  <2> HIDE DEF m, q
  <2> QED
    BY <2>2, <2>3 DEF Agreeing
<1> QED
  BY <1>1, <1>4, <1>5

(* What says where the next page is.                                       *)
LEMMA PageResponse_Reads ==
  ASSUME NEW bs \in Buffers
  PROVE  Agreeing(PageResponse_unmarshal(bs), PageResponse_Unmarshal(bs),
                  PageResponseSet, PlainPageResponse)
<1> DEFINE wt == <<2, 0>>
           s == Scan(wt, bs)
<1>0. IsTable(wt) /\ 1 \in DOMAIN wt /\ 2 \in DOMAIN wt /\ wt[1] = 2 /\ wt[2] = 0
  BY Tables
<1>1. s = Failed \/ (s.st = "ok" /\ s.fields \in FieldMaps(wt) /\ s.unknown \in Kept(wt))
  BY Tables, ScanFinds
<1> DEFINE m == [nextKey |-> StringOf(s, 1), total |-> LastOf(s, 2, 0), unknown |-> s.unknown]
           q == [nextKey |-> StringOf(s, 1), total |-> LastOf(s, 2, 0)]
<1>2. PageResponse_unmarshal(bs) = IF s.st = "ok" THEN Ok(m, 0) ELSE s
  BY DEF PageResponse_unmarshal, Then
<1>3. PageResponse_Unmarshal(bs) = IF s.st = "ok" THEN Ok(q, 0) ELSE s
  BY DEF PageResponse_Unmarshal, Then
<1>4. CASE s = Failed
  BY <1>2, <1>3, <1>4 DEF Agreeing, Failed
<1>5. CASE s.st = "ok" /\ s.fields \in FieldMaps(wt) /\ s.unknown \in Kept(wt)
  <2>1. StringOf(s, 1) \in Bytes /\ LastOf(s, 2, 0) \in Word
    <3> HIDE DEF s, wt
    <3> QED
      BY <1>0, <1>5, StringType, NumberType
  <2> HIDE DEF s
  <2>2. m \in PageResponseSet /\ q = PlainPageResponse[m]
    BY <1>5, <2>1 DEF PageResponseSet, PlainPageResponse
  <2>3. PageResponse_unmarshal(bs) = Ok(m, 0) /\ PageResponse_Unmarshal(bs) = Ok(q, 0)
    BY <1>2, <1>3, <1>5
  <2> HIDE DEF m, q
  <2> QED
    BY <2>2, <2>3 DEF Agreeing
<1> QED
  BY <1>1, <1>4, <1>5

-----------------------------------------------------------------------------
(* Fields that are messages, by the name of their message.                 *)

Identities_unmarshal(vs) == Each(Identity_unmarshal, vs)
Identities_Unmarshal(vs) == Each(Identity_Unmarshal, vs)
Paging_unmarshal(vs) == Optional(PageRequest_unmarshal, vs)
Paging_Unmarshal(vs) == Optional(PageRequest_Unmarshal, vs)
Paged_unmarshal(vs) == Optional(PageResponse_unmarshal, vs)
Paged_Unmarshal(vs) == Optional(PageResponse_Unmarshal, vs)
TheParams_unmarshal(vs) == Optional(Params_unmarshal, vs)
TheParams_Unmarshal(vs) == Merged(Params_Unmarshal, vs)
TheIdentity_unmarshal(vs) == Optional(Identity_unmarshal, vs)
TheIdentity_Unmarshal(vs) == Merged(Identity_Unmarshal, vs)

(* Both forms of a field are read alike.                                   *)
ListPlain(S) == [ms \in S |-> EachWithout(ms)]
NoParams == [ms \in Pointer(ParamsSet) |-> NoFields]
SomeIdentity == [ms \in Pointer(IdentitySet) |->
                  IF ms = <<>> THEN NoIdentity ELSE Without(ms[1])]

(* Without the unknown fields they are the same.                           *)
LEMMA PlainWithout ==
  /\ \A m \in IdentitySet : PlainIdentity[m] = Without(m)
  /\ \A m \in PageRequestSet : PlainPageRequest[m] = Without(m)
  /\ \A m \in PageResponseSet : PlainPageResponse[m] = Without(m)
<1>1. ASSUME NEW m \in IdentitySet
      PROVE  PlainIdentity[m] = Without(m)
  BY <1>1 DEF PlainIdentity, IdentitySet, Without
<1>2. ASSUME NEW m \in PageRequestSet
      PROVE  PlainPageRequest[m] = Without(m)
  BY <1>2 DEF PlainPageRequest, PageRequestSet, Without
<1>3. ASSUME NEW m \in PageResponseSet
      PROVE  PlainPageResponse[m] = Without(m)
  BY <1>3 DEF PlainPageResponse, PageResponseSet, Without
<1> QED
  BY <1>1, <1>2, <1>3

(* A list of identities.                                                   *)
LEMMA IdentitiesRead ==
  ASSUME NEW vs, Readable(vs)
  PROVE  Agreeing(Identities_unmarshal(vs), Identities_Unmarshal(vs),
                  Seq(IdentitySet), ListPlain(Seq(IdentitySet)))
<1> DEFINE up == [bs \in Buffers |-> Identity_unmarshal(bs)]
           ug == [bs \in Buffers |-> Identity_Unmarshal(bs)]
<1>1. ReadAlike(up, ug, IdentitySet, PlainIdentity)
  BY Identity_Reads DEF ReadAlike
<1>2. vs \in Seq(Buffers)
  BY DEF Readable
<1>3. \A k \in DOMAIN vs : up[vs[k]] = Identity_unmarshal(vs[k])
                           /\ ug[vs[k]] = Identity_Unmarshal(vs[k])
  BY <1>2
<1> HIDE DEF up, ug
<1>4. Identities_unmarshal(vs) = EachOf(up, vs) /\ Identities_Unmarshal(vs) = EachOf(ug, vs)
  BY <1>3 DEF Identities_unmarshal, Identities_Unmarshal, Each, EachOf
<1>5. \/ EachOf(up, vs) = Failed /\ EachOf(ug, vs) = Failed
      \/ \E ms \in Seq(IdentitySet) : EachOf(up, vs) = Ok(ms, 0)
                               /\ EachOf(ug, vs) = Ok(PlainList(PlainIdentity, ms), 0)
  BY <1>1, <1>2, EachAgrees
<1>6. ASSUME NEW ms \in Seq(IdentitySet)
      PROVE  PlainList(PlainIdentity, ms) = ListPlain(Seq(IdentitySet))[ms]
  <2>1. \A k \in DOMAIN ms : PlainIdentity[ms[k]] = Without(ms[k])
    BY PlainWithout
  <2> QED
    BY <2>1 DEF PlainList, ListPlain, EachWithout
<1> QED
  BY <1>4, <1>5, <1>6 DEF Agreeing

(* A pointer to the parameters of a page.                                  *)
LEMMA PagingRead ==
  ASSUME NEW vs, Readable(vs)
  PROVE  Agreeing(Paging_unmarshal(vs), Paging_Unmarshal(vs),
                  Pointer(PageRequestSet), ListPlain(Pointer(PageRequestSet)))
<1> DEFINE up == [bs \in Buffers |-> PageRequest_unmarshal(bs)]
           ug == [bs \in Buffers |-> PageRequest_Unmarshal(bs)]
<1>1. ReadAlike(up, ug, PageRequestSet, PlainPageRequest)
  BY PageRequest_Reads DEF ReadAlike
<1>2. vs \in Seq(Buffers) /\ Concatenated(vs) \in Buffers
  BY DEF Readable
<1>3. /\ \A k \in DOMAIN vs : up[vs[k]] = PageRequest_unmarshal(vs[k])
                              /\ ug[vs[k]] = PageRequest_Unmarshal(vs[k])
      /\ up[Concatenated(vs)] = PageRequest_unmarshal(Concatenated(vs))
      /\ ug[Concatenated(vs)] = PageRequest_Unmarshal(Concatenated(vs))
  BY <1>2
<1> HIDE DEF up, ug
<1>4. Paging_unmarshal(vs) = OptionalOf(up, vs) /\ Paging_Unmarshal(vs) = OptionalOf(ug, vs)
  BY <1>3 DEF Paging_unmarshal, Paging_Unmarshal, Optional, Merged, Each, Then,
              EachOf, MergedOf, OptionalOf
<1>5. \/ OptionalOf(up, vs) = Failed /\ OptionalOf(ug, vs) = Failed
      \/ OptionalOf(up, vs) = Ok(<<>>, 0) /\ OptionalOf(ug, vs) = Ok(<<>>, 0)
      \/ \E m \in PageRequestSet : OptionalOf(up, vs) = Ok(<<m>>, 0)
                                   /\ OptionalOf(ug, vs) = Ok(<<PlainPageRequest[m]>>, 0)
  BY <1>1, OptionalAgrees
<1>6. ListPlain(Pointer(PageRequestSet))[<<>>] = <<>> /\ <<>> \in Pointer(PageRequestSet)
  BY DEF ListPlain, Pointer, EachWithout
<1>7. ASSUME NEW m \in PageRequestSet
      PROVE  /\ <<m>> \in Pointer(PageRequestSet)
             /\ <<PlainPageRequest[m]>> = ListPlain(Pointer(PageRequestSet))[<<m>>]
  <2>1. PlainPageRequest[m] = Without(m) /\ <<m>> \in Pointer(PageRequestSet)
    BY PlainWithout DEF Pointer
  <2>2. EachWithout(<<m>>) = <<Without(m)>>
    BY DEF EachWithout
  <2> QED
    BY <2>1, <2>2 DEF ListPlain
<1> QED
  BY <1>4, <1>5, <1>6, <1>7 DEF Agreeing

(* A pointer to what a page says of the next.                              *)
LEMMA PagedRead ==
  ASSUME NEW vs, Readable(vs)
  PROVE  Agreeing(Paged_unmarshal(vs), Paged_Unmarshal(vs),
                  Pointer(PageResponseSet), ListPlain(Pointer(PageResponseSet)))
<1> DEFINE up == [bs \in Buffers |-> PageResponse_unmarshal(bs)]
           ug == [bs \in Buffers |-> PageResponse_Unmarshal(bs)]
<1>1. ReadAlike(up, ug, PageResponseSet, PlainPageResponse)
  BY PageResponse_Reads DEF ReadAlike
<1>2. vs \in Seq(Buffers) /\ Concatenated(vs) \in Buffers
  BY DEF Readable
<1>3. /\ \A k \in DOMAIN vs : up[vs[k]] = PageResponse_unmarshal(vs[k])
                              /\ ug[vs[k]] = PageResponse_Unmarshal(vs[k])
      /\ up[Concatenated(vs)] = PageResponse_unmarshal(Concatenated(vs))
      /\ ug[Concatenated(vs)] = PageResponse_Unmarshal(Concatenated(vs))
  BY <1>2
<1> HIDE DEF up, ug
<1>4. Paged_unmarshal(vs) = OptionalOf(up, vs) /\ Paged_Unmarshal(vs) = OptionalOf(ug, vs)
  BY <1>3 DEF Paged_unmarshal, Paged_Unmarshal, Optional, Merged, Each, Then,
              EachOf, MergedOf, OptionalOf
<1>5. \/ OptionalOf(up, vs) = Failed /\ OptionalOf(ug, vs) = Failed
      \/ OptionalOf(up, vs) = Ok(<<>>, 0) /\ OptionalOf(ug, vs) = Ok(<<>>, 0)
      \/ \E m \in PageResponseSet : OptionalOf(up, vs) = Ok(<<m>>, 0)
                                   /\ OptionalOf(ug, vs) = Ok(<<PlainPageResponse[m]>>, 0)
  BY <1>1, OptionalAgrees
<1>6. ListPlain(Pointer(PageResponseSet))[<<>>] = <<>> /\ <<>> \in Pointer(PageResponseSet)
  BY DEF ListPlain, Pointer, EachWithout
<1>7. ASSUME NEW m \in PageResponseSet
      PROVE  /\ <<m>> \in Pointer(PageResponseSet)
             /\ <<PlainPageResponse[m]>> = ListPlain(Pointer(PageResponseSet))[<<m>>]
  <2>1. PlainPageResponse[m] = Without(m) /\ <<m>> \in Pointer(PageResponseSet)
    BY PlainWithout DEF Pointer
  <2>2. EachWithout(<<m>>) = <<Without(m)>>
    BY DEF EachWithout
  <2> QED
    BY <2>1, <2>2 DEF ListPlain
<1> QED
  BY <1>4, <1>5, <1>6, <1>7 DEF Agreeing

(* A message held by value is the empty one when there is none.            *)
LEMMA NothingRead ==
  /\ Params_Unmarshal(<<>>) = Ok(NoFields, 0)
  /\ Identity_Unmarshal(<<>>) = Ok(NoIdentity, 0)
<1>1. Params_Unmarshal(<<>>) = Ok(NoFields, 0)
  <2> DEFINE s == Scan(<<>>, <<>>)
  <2>1. s = Found(NoValues(<<>>), <<>>)
    BY Tables, ScanNothing
  <2> HIDE DEF s
  <2>2. s.st = "ok"
    BY <2>1 DEF Found
  <2> QED
    BY <2>2 DEF Params_Unmarshal, Then, s
<1>2. Identity_Unmarshal(<<>>) = Ok(NoIdentity, 0)
  <2> DEFINE wt == <<2, 2, 0>>
             s == Scan(wt, <<>>)
  <2>1. s = Found(NoValues(wt), <<>>)
    BY Tables, ScanNothing
  <2>2. 1 \in DOMAIN wt /\ 2 \in DOMAIN wt /\ 3 \in DOMAIN wt
    OBVIOUS
  <2>3. Identity_Unmarshal(<<>>) =
          IF s.st = "ok" THEN Ok([address |-> StringOf(s, 1), idHash |-> StringOf(s, 2),
                                  createdAt |-> Int64Of(s, 3)], 0)
          ELSE s
    BY DEF Identity_Unmarshal, Then
  <2> HIDE DEF s, wt
  <2>4. s.st = "ok" /\ s.fields[1] = <<>> /\ s.fields[2] = <<>> /\ s.fields[3] = <<>>
    BY <2>1, <2>2 DEF Found, NoValues
  <2>5. StringOf(s, 1) = <<>> /\ StringOf(s, 2) = <<>> /\ Int64Of(s, 3) = GoInt(0)
    BY <2>4 DEF StringOf, Int64Of, LastOf, Values
  <2>6. GoInt(0) = 0
    <3> DEFINE z == 0
    <3>1. z \in 0 .. Half - 1
      BY Words
    <3> HIDE DEF z
    <3>2. GoInt(z) = z
      BY <3>1, GoIntIs, Words
    <3> QED
      BY <3>2 DEF z
  <2> QED
    BY <2>3, <2>4, <2>5, <2>6 DEF NoIdentity
<1> QED
  BY <1>1, <1>2

(* Parameters: a pointer to them, or the only value they have.             *)
LEMMA TheParamsRead ==
  ASSUME NEW vs, Readable(vs)
  PROVE  Agreeing(TheParams_unmarshal(vs), TheParams_Unmarshal(vs), Pointer(ParamsSet), NoParams)
<1> DEFINE up == [bs \in Buffers |-> Params_unmarshal(bs)]
           ug == [bs \in Buffers |-> Params_Unmarshal(bs)]
<1>1. ReadAlike(up, ug, ParamsSet, PlainParams)
  BY Params_Reads DEF ReadAlike
<1>2. vs \in Seq(Buffers) /\ Concatenated(vs) \in Buffers
  BY DEF Readable
<1>3. /\ \A k \in DOMAIN vs : up[vs[k]] = Params_unmarshal(vs[k])
                              /\ ug[vs[k]] = Params_Unmarshal(vs[k])
      /\ up[Concatenated(vs)] = Params_unmarshal(Concatenated(vs))
      /\ ug[Concatenated(vs)] = Params_Unmarshal(Concatenated(vs))
  BY <1>2
<1>4. vs = <<>> => ug[vs] = Ok(NoFields, 0)
  <2>1. vs = <<>> => vs \in Buffers
    BY <1>2, ConcatenatedNothing
  <2> QED
    BY <2>1, NothingRead
<1> HIDE DEF up, ug
<1>5. TheParams_unmarshal(vs) = OptionalOf(up, vs) /\ TheParams_Unmarshal(vs) = MergedOf(ug, vs)
  BY <1>3 DEF TheParams_unmarshal, TheParams_Unmarshal, Optional, Merged, Each, Then,
              EachOf, MergedOf, OptionalOf
<1>6. CASE vs = <<>>
  <2>1. ug[<<>>] = Ok(NoFields, 0) /\ ug[<<>>].st = "ok"
    BY <1>4, <1>6, OkParts
  <2>2. MergedOf(ug, vs) = Ok(NoFields, 0)
    BY <1>6, <2>1, MergedNothing
  <2>3. OptionalOf(up, vs) = Ok(<<>>, 0)
    BY <1>6 DEF OptionalOf
  <2>4. <<>> \in Pointer(ParamsSet) /\ NoParams[<<>>] = NoFields
    BY DEF Pointer, NoParams
  <2> QED
    BY <1>5, <2>2, <2>3, <2>4 DEF Agreeing
<1>7. CASE vs # <<>>
  <2>1. \/ OptionalOf(up, vs) = Failed /\ MergedOf(ug, vs) = Failed
        \/ \E m \in ParamsSet : OptionalOf(up, vs) = Ok(<<m>>, 0)
                             /\ MergedOf(ug, vs) = Ok(PlainParams[m], 0)
    <3>1. \/ OptionalOf(up, vs) = Failed /\ OptionalOf(ug, vs) = Failed
             /\ MergedOf(ug, vs) = Failed /\ vs # <<>>
          \/ /\ vs = <<>> /\ OptionalOf(up, vs) = Ok(<<>>, 0)
             /\ OptionalOf(ug, vs) = Ok(<<>>, 0)
          \/ \E m \in ParamsSet : /\ vs # <<>> /\ OptionalOf(up, vs) = Ok(<<m>>, 0)
                             /\ OptionalOf(ug, vs) = Ok(<<PlainParams[m]>>, 0)
                             /\ MergedOf(ug, vs) = Ok(PlainParams[m], 0)
      BY <1>1, OptionalAgrees
    <3> QED
      BY <1>7, <3>1
  <2>2. ASSUME NEW m \in ParamsSet
        PROVE  <<m>> \in Pointer(ParamsSet) /\ NoParams[<<m>>] = PlainParams[m]
    <3>1. <<m>> \in Pointer(ParamsSet) /\ <<m>> # <<>> /\ <<m>>[1] = m
      BY DEF Pointer
    <3> QED
      BY <3>1 DEF NoParams, PlainParams
  <2> QED
    BY <1>5, <2>1, <2>2 DEF Agreeing
<1> QED
  BY <1>6, <1>7

(* An identity: a pointer to it, or the identity itself.                   *)
LEMMA TheIdentityRead ==
  ASSUME NEW vs, Readable(vs)
  PROVE  Agreeing(TheIdentity_unmarshal(vs), TheIdentity_Unmarshal(vs), Pointer(IdentitySet),
         SomeIdentity)
<1> DEFINE up == [bs \in Buffers |-> Identity_unmarshal(bs)]
           ug == [bs \in Buffers |-> Identity_Unmarshal(bs)]
<1>1. ReadAlike(up, ug, IdentitySet, PlainIdentity)
  BY Identity_Reads DEF ReadAlike
<1>2. vs \in Seq(Buffers) /\ Concatenated(vs) \in Buffers
  BY DEF Readable
<1>3. /\ \A k \in DOMAIN vs : up[vs[k]] = Identity_unmarshal(vs[k])
                              /\ ug[vs[k]] = Identity_Unmarshal(vs[k])
      /\ up[Concatenated(vs)] = Identity_unmarshal(Concatenated(vs))
      /\ ug[Concatenated(vs)] = Identity_Unmarshal(Concatenated(vs))
  BY <1>2
<1>4. vs = <<>> => ug[vs] = Ok(NoIdentity, 0)
  <2>1. vs = <<>> => vs \in Buffers
    BY <1>2, ConcatenatedNothing
  <2> QED
    BY <2>1, NothingRead
<1> HIDE DEF up, ug
<1>5. TheIdentity_unmarshal(vs) = OptionalOf(up, vs) /\ TheIdentity_Unmarshal(vs) = MergedOf(ug, vs)
  BY <1>3 DEF TheIdentity_unmarshal, TheIdentity_Unmarshal, Optional, Merged, Each, Then,
              EachOf, MergedOf, OptionalOf
<1>6. CASE vs = <<>>
  <2>1. ug[<<>>] = Ok(NoIdentity, 0) /\ ug[<<>>].st = "ok"
    BY <1>4, <1>6, OkParts
  <2>2. MergedOf(ug, vs) = Ok(NoIdentity, 0)
    BY <1>6, <2>1, MergedNothing
  <2>3. OptionalOf(up, vs) = Ok(<<>>, 0)
    BY <1>6 DEF OptionalOf
  <2>4. <<>> \in Pointer(IdentitySet) /\ SomeIdentity[<<>>] = NoIdentity
    BY DEF Pointer, SomeIdentity
  <2> QED
    BY <1>5, <2>2, <2>3, <2>4 DEF Agreeing
<1>7. CASE vs # <<>>
  <2>1. \/ OptionalOf(up, vs) = Failed /\ MergedOf(ug, vs) = Failed
        \/ \E m \in IdentitySet : OptionalOf(up, vs) = Ok(<<m>>, 0)
                             /\ MergedOf(ug, vs) = Ok(PlainIdentity[m], 0)
    <3>1. \/ OptionalOf(up, vs) = Failed /\ OptionalOf(ug, vs) = Failed
             /\ MergedOf(ug, vs) = Failed /\ vs # <<>>
          \/ /\ vs = <<>> /\ OptionalOf(up, vs) = Ok(<<>>, 0)
             /\ OptionalOf(ug, vs) = Ok(<<>>, 0)
          \/ \E m \in IdentitySet : /\ vs # <<>> /\ OptionalOf(up, vs) = Ok(<<m>>, 0)
                             /\ OptionalOf(ug, vs) = Ok(<<PlainIdentity[m]>>, 0)
                             /\ MergedOf(ug, vs) = Ok(PlainIdentity[m], 0)
      BY <1>1, OptionalAgrees
    <3> QED
      BY <1>7, <3>1
  <2>2. ASSUME NEW m \in IdentitySet
        PROVE  <<m>> \in Pointer(IdentitySet) /\ SomeIdentity[<<m>>] = PlainIdentity[m]
    <3>1. <<m>> \in Pointer(IdentitySet) /\ <<m>> # <<>> /\ <<m>>[1] = m
      BY DEF Pointer
    <3> QED
      BY <3>1, PlainWithout DEF SomeIdentity
  <2> QED
    BY <1>5, <2>1, <2>2 DEF Agreeing
<1> QED
  BY <1>6, <1>7

-----------------------------------------------------------------------------
(* All the messages.                                                       *)

(* The pulsar messages that unmarshal returns, and what they say.          *)
GenesisStateSet ==
  [params : Pointer(ParamsSet), identityList : Seq(IdentitySet), unknown : Kept(<<2, 2>>)]
MsgUpdateParamsSet ==
  [authority : Bytes, params : Pointer(ParamsSet), unknown : Kept(<<2, 2>>)]
MsgUpdateParamsResponseSet ==
  [unknown : Kept(<<>>)]
MsgCreateIdentitySet ==
  [creator : Bytes, cccdId : Bytes, unknown : Kept(<<2, 2>>)]
MsgCreateIdentityResponseSet ==
  [unknown : Kept(<<>>)]
QueryParamsRequestSet ==
  [unknown : Kept(<<>>)]
QueryParamsResponseSet ==
  [params : Pointer(ParamsSet), unknown : Kept(<<2>>)]
QueryGetIdentityRequestSet ==
  [address : Bytes, unknown : Kept(<<2>>)]
QueryGetIdentityResponseSet ==
  [identity : Pointer(IdentitySet), unknown : Kept(<<2>>)]
QueryAllIdentityRequestSet ==
  [pagination : Pointer(PageRequestSet), unknown : Kept(<<2>>)]
QueryAllIdentityResponseSet ==
  [identity : Seq(IdentitySet), pagination : Pointer(PageResponseSet), unknown : Kept(<<2, 2>>)]
QueryIdentityByCccdIdRequestSet ==
  [idHash : Bytes, pagination : Pointer(PageRequestSet), unknown : Kept(<<2, 2>>)]
QueryIdentityByCccdIdResponseSet ==
  [identity : Seq(IdentitySet), pagination : Pointer(PageResponseSet), unknown : Kept(<<2, 2>>)]
ModuleSet ==
  [authority : Bytes, unknown : Kept(<<2>>)]
SameAs(t, S) == [m \in S |-> Same(t, m)]

(* Both forms of the message are read alike.                               *)
LEMMA GenesisState_Reads ==
  ASSUME NEW bs \in Buffers
  PROVE  Agreeing(GenesisState_unmarshal(bs),
                  GenesisState_Unmarshal(bs),
                  GenesisStateSet,
                  SameAs("GenesisState", GenesisStateSet))
<1> DEFINE wt == <<2, 2>>
           s == Scan(wt, bs)
           p1 == TheParams_unmarshal(Values(s, 1))
           g1 == TheParams_Unmarshal(Values(s, 1))
           p2 == Identities_unmarshal(Values(s, 2))
           g2 == Identities_Unmarshal(Values(s, 2))
           Alike == Agreeing(GenesisState_unmarshal(bs),
                             GenesisState_Unmarshal(bs),
                             GenesisStateSet,
                             SameAs("GenesisState", GenesisStateSet))
<1>1. IsTable(wt) /\ 1 \in DOMAIN wt /\ wt[1] = 2 /\ 2 \in DOMAIN wt /\ wt[2] = 2
  BY Tables
<1>2. \/ s = Failed
      \/ /\ s.st = "ok" /\ s.fields \in FieldMaps(wt) /\ s.unknown \in Kept(wt)
         /\ Roomy(wt, s.fields, Len(bs))
  BY Tables, ScanFinds
<1>3. GenesisState_unmarshal(bs) =
        IF s.st # "ok" THEN s ELSE
        IF p1.st # "ok" THEN p1 ELSE
        IF p2.st # "ok" THEN p2 ELSE
        Ok([params |-> p1.v, identityList |-> p2.v, unknown |-> s.unknown], 0)
  BY DEF GenesisState_unmarshal, Then, Identities_unmarshal, TheParams_unmarshal
<1>4. GenesisState_Unmarshal(bs) =
        IF s.st # "ok" THEN s ELSE
        IF g1.st # "ok" THEN g1 ELSE
        IF g2.st # "ok" THEN g2 ELSE
        Ok([params |-> g1.v, identityList |-> g2.v], 0)
  BY DEF GenesisState_Unmarshal, Then, Identities_Unmarshal, TheParams_Unmarshal
<1>5. CASE s = Failed
  BY <1>3, <1>4, <1>5 DEF Agreeing, Failed
<1>6. CASE /\ s.st = "ok" /\ s.fields \in FieldMaps(wt) /\ s.unknown \in Kept(wt)
           /\ Roomy(wt, s.fields, Len(bs))
  <2>1. Agreeing(p1, g1, Pointer(ParamsSet), NoParams)
    <3>1. Readable(Values(s, 1))
      <4> HIDE DEF s, wt
      <4> QED
        BY <1>1, <1>6, ValuesReadable
    <3> HIDE DEF s
    <3> QED
      BY <3>1, TheParamsRead
  <2>2. Agreeing(p2, g2, Seq(IdentitySet), ListPlain(Seq(IdentitySet)))
    <3>1. Readable(Values(s, 2))
      <4> HIDE DEF s, wt
      <4> QED
        BY <1>1, <1>6, ValuesReadable
    <3> HIDE DEF s
    <3> QED
      BY <3>1, IdentitiesRead
  <2> HIDE DEF s, p1, g1, p2, g2
  <2>3. CASE p1 = Failed /\ g1 = Failed
    BY <1>3, <1>4, <1>6, <2>3 DEF Agreeing, Failed
  <2>4. ASSUME NEW a1 \in Pointer(ParamsSet), p1 = Ok(a1, 0),
               g1 = Ok(NoParams[a1], 0)
        PROVE  Alike
    <3>1. CASE p2 = Failed /\ g2 = Failed
      <4>1. p1.st = "ok" /\ g1.st = "ok"
        BY <2>4, OkParts
      <4> QED
        BY <1>3, <1>4, <1>6, <3>1, <4>1 DEF Agreeing, Failed
    <3>2. ASSUME NEW a2 \in Seq(IdentitySet), p2 = Ok(a2, 0),
                 g2 = Ok(ListPlain(Seq(IdentitySet))[a2], 0)
          PROVE  Alike
      <4> DEFINE m == [params |-> a1, identityList |-> a2, unknown |-> s.unknown]
                 q == [params |-> NoParams[a1], identityList |-> ListPlain(Seq(IdentitySet))[a2]]
      <4>1. m \in GenesisStateSet
        BY <1>6, <2>1, <2>2 DEF GenesisStateSet
      <4>2. Same("GenesisState", m) = q
        <5>1. Without(m) = [params |-> a1, identityList |-> a2]
          BY DEF Without
        <5>2. m.params = a1 /\ m.identityList = a2
          OBVIOUS
        <5> HIDE DEF m
        <5> QED
          BY <5>1, <5>2 DEF Same, ListPlain, NoParams
      <4>3. /\ p1.st = "ok" /\ p1.v = a1 /\ g1.st = "ok" /\ g1.v = NoParams[a1]
            /\ p2.st = "ok" /\ p2.v = a2 /\ g2.st = "ok" /\ g2.v = ListPlain(Seq(IdentitySet))[a2]
        BY <2>4, <3>2, OkParts
      <4>4. /\ GenesisState_unmarshal(bs) = Ok(m, 0)
           /\ GenesisState_Unmarshal(bs) = Ok(q, 0)
        BY <1>3, <1>4, <1>6, <4>3
      <4> HIDE DEF m, q
      <4> QED
        BY <4>1, <4>2, <4>4 DEF Agreeing, SameAs
    <3> QED
      BY <2>2, <3>1, <3>2 DEF Agreeing
  <2> QED
    BY <2>1, <2>3, <2>4 DEF Agreeing
<1> QED
  BY <1>2, <1>5, <1>6

(* Both forms of the message are read alike.                               *)
LEMMA MsgUpdateParams_Reads ==
  ASSUME NEW bs \in Buffers
  PROVE  Agreeing(MsgUpdateParams_unmarshal(bs),
                  MsgUpdateParams_Unmarshal(bs),
                  MsgUpdateParamsSet,
                  SameAs("MsgUpdateParams", MsgUpdateParamsSet))
<1> DEFINE wt == <<2, 2>>
           s == Scan(wt, bs)
           p2 == TheParams_unmarshal(Values(s, 2))
           g2 == TheParams_Unmarshal(Values(s, 2))
           Alike == Agreeing(MsgUpdateParams_unmarshal(bs),
                             MsgUpdateParams_Unmarshal(bs),
                             MsgUpdateParamsSet,
                             SameAs("MsgUpdateParams", MsgUpdateParamsSet))
<1>1. IsTable(wt) /\ 1 \in DOMAIN wt /\ wt[1] = 2 /\ 2 \in DOMAIN wt /\ wt[2] = 2
  BY Tables
<1>2. \/ s = Failed
      \/ /\ s.st = "ok" /\ s.fields \in FieldMaps(wt) /\ s.unknown \in Kept(wt)
         /\ Roomy(wt, s.fields, Len(bs))
  BY Tables, ScanFinds
<1>3. MsgUpdateParams_unmarshal(bs) =
        IF s.st # "ok" THEN s ELSE
        IF p2.st # "ok" THEN p2 ELSE
        Ok([authority |-> StringOf(s, 1), params |-> p2.v,
             unknown |-> s.unknown], 0)
  BY DEF MsgUpdateParams_unmarshal, Then, TheParams_unmarshal
<1>4. MsgUpdateParams_Unmarshal(bs) =
        IF s.st # "ok" THEN s ELSE
        IF g2.st # "ok" THEN g2 ELSE
        Ok([authority |-> StringOf(s, 1), params |-> g2.v], 0)
  BY DEF MsgUpdateParams_Unmarshal, Then, TheParams_Unmarshal
<1>5. CASE s = Failed
  BY <1>3, <1>4, <1>5 DEF Agreeing, Failed
<1>6. CASE /\ s.st = "ok" /\ s.fields \in FieldMaps(wt) /\ s.unknown \in Kept(wt)
           /\ Roomy(wt, s.fields, Len(bs))
  <2>1. StringOf(s, 1) \in Bytes
    <3> HIDE DEF s, wt
    <3> QED
      BY <1>1, <1>6, StringType
  <2>2. Agreeing(p2, g2, Pointer(ParamsSet), NoParams)
    <3>1. Readable(Values(s, 2))
      <4> HIDE DEF s, wt
      <4> QED
        BY <1>1, <1>6, ValuesReadable
    <3> HIDE DEF s
    <3> QED
      BY <3>1, TheParamsRead
  <2> HIDE DEF s, p2, g2
  <2>3. CASE p2 = Failed /\ g2 = Failed
    BY <1>3, <1>4, <1>6, <2>3 DEF Agreeing, Failed
  <2>4. ASSUME NEW a2 \in Pointer(ParamsSet), p2 = Ok(a2, 0),
               g2 = Ok(NoParams[a2], 0)
        PROVE  Alike
    <3> DEFINE m == [authority |-> StringOf(s, 1), params |-> a2, unknown |-> s.unknown]
               q == [authority |-> StringOf(s, 1), params |-> NoParams[a2]]
    <3>1. m \in MsgUpdateParamsSet
      BY <1>6, <2>1, <2>2 DEF MsgUpdateParamsSet
    <3>2. Same("MsgUpdateParams", m) = q
      <4>1. Without(m) = [authority |-> StringOf(s, 1), params |-> a2]
        BY DEF Without
      <4> HIDE DEF m
      <4> QED
        BY <4>1 DEF Same, NoParams
    <3>3. /\ p2.st = "ok" /\ p2.v = a2 /\ g2.st = "ok" /\ g2.v = NoParams[a2]
      BY <2>4, OkParts
    <3>4. /\ MsgUpdateParams_unmarshal(bs) = Ok(m, 0)
         /\ MsgUpdateParams_Unmarshal(bs) = Ok(q, 0)
      BY <1>3, <1>4, <1>6, <3>3
    <3> HIDE DEF m, q
    <3> QED
      BY <3>1, <3>2, <3>4 DEF Agreeing, SameAs
  <2> QED
    BY <2>2, <2>3, <2>4 DEF Agreeing
<1> QED
  BY <1>2, <1>5, <1>6

(* Both forms of the message are read alike.                               *)
LEMMA MsgUpdateParamsResponse_Reads ==
  ASSUME NEW bs \in Buffers
  PROVE  Agreeing(MsgUpdateParamsResponse_unmarshal(bs),
                  MsgUpdateParamsResponse_Unmarshal(bs),
                  MsgUpdateParamsResponseSet,
                  SameAs("MsgUpdateParamsResponse", MsgUpdateParamsResponseSet))
<1> DEFINE wt == <<>>
           s == Scan(wt, bs)
           Alike == Agreeing(MsgUpdateParamsResponse_unmarshal(bs),
                             MsgUpdateParamsResponse_Unmarshal(bs),
                             MsgUpdateParamsResponseSet,
                             SameAs("MsgUpdateParamsResponse", MsgUpdateParamsResponseSet))
<1>1. IsTable(wt)
  BY Tables
<1>2. \/ s = Failed
      \/ /\ s.st = "ok" /\ s.fields \in FieldMaps(wt) /\ s.unknown \in Kept(wt)
         /\ Roomy(wt, s.fields, Len(bs))
  BY Tables, ScanFinds
<1>3. MsgUpdateParamsResponse_unmarshal(bs) =
        IF s.st # "ok" THEN s ELSE
        Ok([unknown |-> s.unknown], 0)
  BY DEF MsgUpdateParamsResponse_unmarshal, Then
<1>4. MsgUpdateParamsResponse_Unmarshal(bs) =
        IF s.st # "ok" THEN s ELSE
        Ok(NoFields, 0)
  BY DEF MsgUpdateParamsResponse_Unmarshal, Then
<1>5. CASE s = Failed
  BY <1>3, <1>4, <1>5 DEF Agreeing, Failed
<1>6. CASE /\ s.st = "ok" /\ s.fields \in FieldMaps(wt) /\ s.unknown \in Kept(wt)
           /\ Roomy(wt, s.fields, Len(bs))
  <2> HIDE DEF s
  <2> DEFINE m == [unknown |-> s.unknown]
             q == NoFields
  <2>1. m \in MsgUpdateParamsResponseSet
    BY <1>6 DEF MsgUpdateParamsResponseSet
  <2>2. Same("MsgUpdateParamsResponse", m) = q
    <3>1. Without(m) = [f \in {} |-> m[f]]
      BY DEF Without
    <3> HIDE DEF m
    <3> QED
      BY <3>1 DEF Same
  <2>4. /\ MsgUpdateParamsResponse_unmarshal(bs) = Ok(m, 0)
       /\ MsgUpdateParamsResponse_Unmarshal(bs) = Ok(q, 0)
    BY <1>3, <1>4, <1>6
  <2> HIDE DEF m, q
  <2> QED
    BY <2>1, <2>2, <2>4 DEF Agreeing, SameAs
<1> QED
  BY <1>2, <1>5, <1>6

(* Both forms of the message are read alike.                               *)
LEMMA MsgCreateIdentity_Reads ==
  ASSUME NEW bs \in Buffers
  PROVE  Agreeing(MsgCreateIdentity_unmarshal(bs),
                  MsgCreateIdentity_Unmarshal(bs),
                  MsgCreateIdentitySet,
                  SameAs("MsgCreateIdentity", MsgCreateIdentitySet))
<1> DEFINE wt == <<2, 2>>
           s == Scan(wt, bs)
           Alike == Agreeing(MsgCreateIdentity_unmarshal(bs),
                             MsgCreateIdentity_Unmarshal(bs),
                             MsgCreateIdentitySet,
                             SameAs("MsgCreateIdentity", MsgCreateIdentitySet))
<1>1. IsTable(wt) /\ 1 \in DOMAIN wt /\ wt[1] = 2 /\ 2 \in DOMAIN wt /\ wt[2] = 2
  BY Tables
<1>2. \/ s = Failed
      \/ /\ s.st = "ok" /\ s.fields \in FieldMaps(wt) /\ s.unknown \in Kept(wt)
         /\ Roomy(wt, s.fields, Len(bs))
  BY Tables, ScanFinds
<1>3. MsgCreateIdentity_unmarshal(bs) =
        IF s.st # "ok" THEN s ELSE
        Ok([creator |-> StringOf(s, 1), cccdId |-> StringOf(s, 2),
             unknown |-> s.unknown], 0)
  BY DEF MsgCreateIdentity_unmarshal, Then
<1>4. MsgCreateIdentity_Unmarshal(bs) =
        IF s.st # "ok" THEN s ELSE
        Ok([creator |-> StringOf(s, 1), cccdId |-> StringOf(s, 2)], 0)
  BY DEF MsgCreateIdentity_Unmarshal, Then
<1>5. CASE s = Failed
  BY <1>3, <1>4, <1>5 DEF Agreeing, Failed
<1>6. CASE /\ s.st = "ok" /\ s.fields \in FieldMaps(wt) /\ s.unknown \in Kept(wt)
           /\ Roomy(wt, s.fields, Len(bs))
  <2>1. StringOf(s, 1) \in Bytes /\ StringOf(s, 2) \in Bytes
    <3> HIDE DEF s, wt
    <3> QED
      BY <1>1, <1>6, StringType
  <2> HIDE DEF s
  <2> DEFINE m == [creator |-> StringOf(s, 1), cccdId |-> StringOf(s, 2), unknown |-> s.unknown]
             q == [creator |-> StringOf(s, 1), cccdId |-> StringOf(s, 2)]
  <2>2. m \in MsgCreateIdentitySet
    BY <1>6, <2>1 DEF MsgCreateIdentitySet
  <2>3. Same("MsgCreateIdentity", m) = q
    <3>1. Without(m) = [creator |-> StringOf(s, 1), cccdId |-> StringOf(s, 2)]
      BY DEF Without
    <3> HIDE DEF m
    <3> QED
      BY <3>1 DEF Same
  <2>5. /\ MsgCreateIdentity_unmarshal(bs) = Ok(m, 0)
       /\ MsgCreateIdentity_Unmarshal(bs) = Ok(q, 0)
    BY <1>3, <1>4, <1>6
  <2> HIDE DEF m, q
  <2> QED
    BY <2>2, <2>3, <2>5 DEF Agreeing, SameAs
<1> QED
  BY <1>2, <1>5, <1>6

(* Both forms of the message are read alike.                               *)
LEMMA MsgCreateIdentityResponse_Reads ==
  ASSUME NEW bs \in Buffers
  PROVE  Agreeing(MsgCreateIdentityResponse_unmarshal(bs),
                  MsgCreateIdentityResponse_Unmarshal(bs),
                  MsgCreateIdentityResponseSet,
                  SameAs("MsgCreateIdentityResponse", MsgCreateIdentityResponseSet))
<1> DEFINE wt == <<>>
           s == Scan(wt, bs)
           Alike == Agreeing(MsgCreateIdentityResponse_unmarshal(bs),
                             MsgCreateIdentityResponse_Unmarshal(bs),
                             MsgCreateIdentityResponseSet,
                             SameAs("MsgCreateIdentityResponse", MsgCreateIdentityResponseSet))
<1>1. IsTable(wt)
  BY Tables
<1>2. \/ s = Failed
      \/ /\ s.st = "ok" /\ s.fields \in FieldMaps(wt) /\ s.unknown \in Kept(wt)
         /\ Roomy(wt, s.fields, Len(bs))
  BY Tables, ScanFinds
<1>3. MsgCreateIdentityResponse_unmarshal(bs) =
        IF s.st # "ok" THEN s ELSE
        Ok([unknown |-> s.unknown], 0)
  BY DEF MsgCreateIdentityResponse_unmarshal, Then
<1>4. MsgCreateIdentityResponse_Unmarshal(bs) =
        IF s.st # "ok" THEN s ELSE
        Ok(NoFields, 0)
  BY DEF MsgCreateIdentityResponse_Unmarshal, Then
<1>5. CASE s = Failed
  BY <1>3, <1>4, <1>5 DEF Agreeing, Failed
<1>6. CASE /\ s.st = "ok" /\ s.fields \in FieldMaps(wt) /\ s.unknown \in Kept(wt)
           /\ Roomy(wt, s.fields, Len(bs))
  <2> HIDE DEF s
  <2> DEFINE m == [unknown |-> s.unknown]
             q == NoFields
  <2>1. m \in MsgCreateIdentityResponseSet
    BY <1>6 DEF MsgCreateIdentityResponseSet
  <2>2. Same("MsgCreateIdentityResponse", m) = q
    <3>1. Without(m) = [f \in {} |-> m[f]]
      BY DEF Without
    <3> HIDE DEF m
    <3> QED
      BY <3>1 DEF Same
  <2>4. /\ MsgCreateIdentityResponse_unmarshal(bs) = Ok(m, 0)
       /\ MsgCreateIdentityResponse_Unmarshal(bs) = Ok(q, 0)
    BY <1>3, <1>4, <1>6
  <2> HIDE DEF m, q
  <2> QED
    BY <2>1, <2>2, <2>4 DEF Agreeing, SameAs
<1> QED
  BY <1>2, <1>5, <1>6

(* Both forms of the message are read alike.                               *)
LEMMA QueryParamsRequest_Reads ==
  ASSUME NEW bs \in Buffers
  PROVE  Agreeing(QueryParamsRequest_unmarshal(bs),
                  QueryParamsRequest_Unmarshal(bs),
                  QueryParamsRequestSet,
                  SameAs("QueryParamsRequest", QueryParamsRequestSet))
<1> DEFINE wt == <<>>
           s == Scan(wt, bs)
           Alike == Agreeing(QueryParamsRequest_unmarshal(bs),
                             QueryParamsRequest_Unmarshal(bs),
                             QueryParamsRequestSet,
                             SameAs("QueryParamsRequest", QueryParamsRequestSet))
<1>1. IsTable(wt)
  BY Tables
<1>2. \/ s = Failed
      \/ /\ s.st = "ok" /\ s.fields \in FieldMaps(wt) /\ s.unknown \in Kept(wt)
         /\ Roomy(wt, s.fields, Len(bs))
  BY Tables, ScanFinds
<1>3. QueryParamsRequest_unmarshal(bs) =
        IF s.st # "ok" THEN s ELSE
        Ok([unknown |-> s.unknown], 0)
  BY DEF QueryParamsRequest_unmarshal, Then
<1>4. QueryParamsRequest_Unmarshal(bs) =
        IF s.st # "ok" THEN s ELSE
        Ok(NoFields, 0)
  BY DEF QueryParamsRequest_Unmarshal, Then
<1>5. CASE s = Failed
  BY <1>3, <1>4, <1>5 DEF Agreeing, Failed
<1>6. CASE /\ s.st = "ok" /\ s.fields \in FieldMaps(wt) /\ s.unknown \in Kept(wt)
           /\ Roomy(wt, s.fields, Len(bs))
  <2> HIDE DEF s
  <2> DEFINE m == [unknown |-> s.unknown]
             q == NoFields
  <2>1. m \in QueryParamsRequestSet
    BY <1>6 DEF QueryParamsRequestSet
  <2>2. Same("QueryParamsRequest", m) = q
    <3>1. Without(m) = [f \in {} |-> m[f]]
      BY DEF Without
    <3> HIDE DEF m
    <3> QED
      BY <3>1 DEF Same
  <2>4. /\ QueryParamsRequest_unmarshal(bs) = Ok(m, 0)
       /\ QueryParamsRequest_Unmarshal(bs) = Ok(q, 0)
    BY <1>3, <1>4, <1>6
  <2> HIDE DEF m, q
  <2> QED
    BY <2>1, <2>2, <2>4 DEF Agreeing, SameAs
<1> QED
  BY <1>2, <1>5, <1>6

(* Both forms of the message are read alike.                               *)
LEMMA QueryParamsResponse_Reads ==
  ASSUME NEW bs \in Buffers
  PROVE  Agreeing(QueryParamsResponse_unmarshal(bs),
                  QueryParamsResponse_Unmarshal(bs),
                  QueryParamsResponseSet,
                  SameAs("QueryParamsResponse", QueryParamsResponseSet))
<1> DEFINE wt == <<2>>
           s == Scan(wt, bs)
           p1 == TheParams_unmarshal(Values(s, 1))
           g1 == TheParams_Unmarshal(Values(s, 1))
           Alike == Agreeing(QueryParamsResponse_unmarshal(bs),
                             QueryParamsResponse_Unmarshal(bs),
                             QueryParamsResponseSet,
                             SameAs("QueryParamsResponse", QueryParamsResponseSet))
<1>1. IsTable(wt) /\ 1 \in DOMAIN wt /\ wt[1] = 2
  BY Tables
<1>2. \/ s = Failed
      \/ /\ s.st = "ok" /\ s.fields \in FieldMaps(wt) /\ s.unknown \in Kept(wt)
         /\ Roomy(wt, s.fields, Len(bs))
  BY Tables, ScanFinds
<1>3. QueryParamsResponse_unmarshal(bs) =
        IF s.st # "ok" THEN s ELSE
        IF p1.st # "ok" THEN p1 ELSE
        Ok([params |-> p1.v, unknown |-> s.unknown], 0)
  BY DEF QueryParamsResponse_unmarshal, Then, TheParams_unmarshal
<1>4. QueryParamsResponse_Unmarshal(bs) =
        IF s.st # "ok" THEN s ELSE
        IF g1.st # "ok" THEN g1 ELSE
        Ok([params |-> g1.v], 0)
  BY DEF QueryParamsResponse_Unmarshal, Then, TheParams_Unmarshal
<1>5. CASE s = Failed
  BY <1>3, <1>4, <1>5 DEF Agreeing, Failed
<1>6. CASE /\ s.st = "ok" /\ s.fields \in FieldMaps(wt) /\ s.unknown \in Kept(wt)
           /\ Roomy(wt, s.fields, Len(bs))
  <2>1. Agreeing(p1, g1, Pointer(ParamsSet), NoParams)
    <3>1. Readable(Values(s, 1))
      <4> HIDE DEF s, wt
      <4> QED
        BY <1>1, <1>6, ValuesReadable
    <3> HIDE DEF s
    <3> QED
      BY <3>1, TheParamsRead
  <2> HIDE DEF s, p1, g1
  <2>2. CASE p1 = Failed /\ g1 = Failed
    BY <1>3, <1>4, <1>6, <2>2 DEF Agreeing, Failed
  <2>3. ASSUME NEW a1 \in Pointer(ParamsSet), p1 = Ok(a1, 0),
               g1 = Ok(NoParams[a1], 0)
        PROVE  Alike
    <3> DEFINE m == [params |-> a1, unknown |-> s.unknown]
               q == [params |-> NoParams[a1]]
    <3>1. m \in QueryParamsResponseSet
      BY <1>6, <2>1 DEF QueryParamsResponseSet
    <3>2. Same("QueryParamsResponse", m) = q
      <4>1. Without(m) = [params |-> a1]
        BY DEF Without
      <4> HIDE DEF m
      <4> QED
        BY <4>1 DEF Same, NoParams
    <3>3. /\ p1.st = "ok" /\ p1.v = a1 /\ g1.st = "ok" /\ g1.v = NoParams[a1]
      BY <2>3, OkParts
    <3>4. /\ QueryParamsResponse_unmarshal(bs) = Ok(m, 0)
         /\ QueryParamsResponse_Unmarshal(bs) = Ok(q, 0)
      BY <1>3, <1>4, <1>6, <3>3
    <3> HIDE DEF m, q
    <3> QED
      BY <3>1, <3>2, <3>4 DEF Agreeing, SameAs
  <2> QED
    BY <2>1, <2>2, <2>3 DEF Agreeing
<1> QED
  BY <1>2, <1>5, <1>6

(* Both forms of the message are read alike.                               *)
LEMMA QueryGetIdentityRequest_Reads ==
  ASSUME NEW bs \in Buffers
  PROVE  Agreeing(QueryGetIdentityRequest_unmarshal(bs),
                  QueryGetIdentityRequest_Unmarshal(bs),
                  QueryGetIdentityRequestSet,
                  SameAs("QueryGetIdentityRequest", QueryGetIdentityRequestSet))
<1> DEFINE wt == <<2>>
           s == Scan(wt, bs)
           Alike == Agreeing(QueryGetIdentityRequest_unmarshal(bs),
                             QueryGetIdentityRequest_Unmarshal(bs),
                             QueryGetIdentityRequestSet,
                             SameAs("QueryGetIdentityRequest", QueryGetIdentityRequestSet))
<1>1. IsTable(wt) /\ 1 \in DOMAIN wt /\ wt[1] = 2
  BY Tables
<1>2. \/ s = Failed
      \/ /\ s.st = "ok" /\ s.fields \in FieldMaps(wt) /\ s.unknown \in Kept(wt)
         /\ Roomy(wt, s.fields, Len(bs))
  BY Tables, ScanFinds
<1>3. QueryGetIdentityRequest_unmarshal(bs) =
        IF s.st # "ok" THEN s ELSE
        Ok([address |-> StringOf(s, 1), unknown |-> s.unknown], 0)
  BY DEF QueryGetIdentityRequest_unmarshal, Then
<1>4. QueryGetIdentityRequest_Unmarshal(bs) =
        IF s.st # "ok" THEN s ELSE
        Ok([address |-> StringOf(s, 1)], 0)
  BY DEF QueryGetIdentityRequest_Unmarshal, Then
<1>5. CASE s = Failed
  BY <1>3, <1>4, <1>5 DEF Agreeing, Failed
<1>6. CASE /\ s.st = "ok" /\ s.fields \in FieldMaps(wt) /\ s.unknown \in Kept(wt)
           /\ Roomy(wt, s.fields, Len(bs))
  <2>1. StringOf(s, 1) \in Bytes
    <3> HIDE DEF s, wt
    <3> QED
      BY <1>1, <1>6, StringType
  <2> HIDE DEF s
  <2> DEFINE m == [address |-> StringOf(s, 1), unknown |-> s.unknown]
             q == [address |-> StringOf(s, 1)]
  <2>2. m \in QueryGetIdentityRequestSet
    BY <1>6, <2>1 DEF QueryGetIdentityRequestSet
  <2>3. Same("QueryGetIdentityRequest", m) = q
    <3>1. Without(m) = [address |-> StringOf(s, 1)]
      BY DEF Without
    <3> HIDE DEF m
    <3> QED
      BY <3>1 DEF Same
  <2>5. /\ QueryGetIdentityRequest_unmarshal(bs) = Ok(m, 0)
       /\ QueryGetIdentityRequest_Unmarshal(bs) = Ok(q, 0)
    BY <1>3, <1>4, <1>6
  <2> HIDE DEF m, q
  <2> QED
    BY <2>2, <2>3, <2>5 DEF Agreeing, SameAs
<1> QED
  BY <1>2, <1>5, <1>6

(* Both forms of the message are read alike.                               *)
LEMMA QueryGetIdentityResponse_Reads ==
  ASSUME NEW bs \in Buffers
  PROVE  Agreeing(QueryGetIdentityResponse_unmarshal(bs),
                  QueryGetIdentityResponse_Unmarshal(bs),
                  QueryGetIdentityResponseSet,
                  SameAs("QueryGetIdentityResponse", QueryGetIdentityResponseSet))
<1> DEFINE wt == <<2>>
           s == Scan(wt, bs)
           p1 == TheIdentity_unmarshal(Values(s, 1))
           g1 == TheIdentity_Unmarshal(Values(s, 1))
           Alike == Agreeing(QueryGetIdentityResponse_unmarshal(bs),
                             QueryGetIdentityResponse_Unmarshal(bs),
                             QueryGetIdentityResponseSet,
                             SameAs("QueryGetIdentityResponse", QueryGetIdentityResponseSet))
<1>1. IsTable(wt) /\ 1 \in DOMAIN wt /\ wt[1] = 2
  BY Tables
<1>2. \/ s = Failed
      \/ /\ s.st = "ok" /\ s.fields \in FieldMaps(wt) /\ s.unknown \in Kept(wt)
         /\ Roomy(wt, s.fields, Len(bs))
  BY Tables, ScanFinds
<1>3. QueryGetIdentityResponse_unmarshal(bs) =
        IF s.st # "ok" THEN s ELSE
        IF p1.st # "ok" THEN p1 ELSE
        Ok([identity |-> p1.v, unknown |-> s.unknown], 0)
  BY DEF QueryGetIdentityResponse_unmarshal, Then, TheIdentity_unmarshal
<1>4. QueryGetIdentityResponse_Unmarshal(bs) =
        IF s.st # "ok" THEN s ELSE
        IF g1.st # "ok" THEN g1 ELSE
        Ok([identity |-> g1.v], 0)
  BY DEF QueryGetIdentityResponse_Unmarshal, Then, TheIdentity_Unmarshal
<1>5. CASE s = Failed
  BY <1>3, <1>4, <1>5 DEF Agreeing, Failed
<1>6. CASE /\ s.st = "ok" /\ s.fields \in FieldMaps(wt) /\ s.unknown \in Kept(wt)
           /\ Roomy(wt, s.fields, Len(bs))
  <2>1. Agreeing(p1, g1, Pointer(IdentitySet), SomeIdentity)
    <3>1. Readable(Values(s, 1))
      <4> HIDE DEF s, wt
      <4> QED
        BY <1>1, <1>6, ValuesReadable
    <3> HIDE DEF s
    <3> QED
      BY <3>1, TheIdentityRead
  <2> HIDE DEF s, p1, g1
  <2>2. CASE p1 = Failed /\ g1 = Failed
    BY <1>3, <1>4, <1>6, <2>2 DEF Agreeing, Failed
  <2>3. ASSUME NEW a1 \in Pointer(IdentitySet), p1 = Ok(a1, 0),
               g1 = Ok(SomeIdentity[a1], 0)
        PROVE  Alike
    <3> DEFINE m == [identity |-> a1, unknown |-> s.unknown]
               q == [identity |-> SomeIdentity[a1]]
    <3>1. m \in QueryGetIdentityResponseSet
      BY <1>6, <2>1 DEF QueryGetIdentityResponseSet
    <3>2. Same("QueryGetIdentityResponse", m) = q
      <4>1. Without(m) = [identity |-> a1]
        BY DEF Without
      <4> HIDE DEF m
      <4> QED
        BY <4>1 DEF Same, SomeIdentity
    <3>3. /\ p1.st = "ok" /\ p1.v = a1 /\ g1.st = "ok" /\ g1.v = SomeIdentity[a1]
      BY <2>3, OkParts
    <3>4. /\ QueryGetIdentityResponse_unmarshal(bs) = Ok(m, 0)
         /\ QueryGetIdentityResponse_Unmarshal(bs) = Ok(q, 0)
      BY <1>3, <1>4, <1>6, <3>3
    <3> HIDE DEF m, q
    <3> QED
      BY <3>1, <3>2, <3>4 DEF Agreeing, SameAs
  <2> QED
    BY <2>1, <2>2, <2>3 DEF Agreeing
<1> QED
  BY <1>2, <1>5, <1>6

(* Both forms of the message are read alike.                               *)
LEMMA QueryAllIdentityRequest_Reads ==
  ASSUME NEW bs \in Buffers
  PROVE  Agreeing(QueryAllIdentityRequest_unmarshal(bs),
                  QueryAllIdentityRequest_Unmarshal(bs),
                  QueryAllIdentityRequestSet,
                  SameAs("QueryAllIdentityRequest", QueryAllIdentityRequestSet))
<1> DEFINE wt == <<2>>
           s == Scan(wt, bs)
           p1 == Paging_unmarshal(Values(s, 1))
           g1 == Paging_Unmarshal(Values(s, 1))
           Alike == Agreeing(QueryAllIdentityRequest_unmarshal(bs),
                             QueryAllIdentityRequest_Unmarshal(bs),
                             QueryAllIdentityRequestSet,
                             SameAs("QueryAllIdentityRequest", QueryAllIdentityRequestSet))
<1>1. IsTable(wt) /\ 1 \in DOMAIN wt /\ wt[1] = 2
  BY Tables
<1>2. \/ s = Failed
      \/ /\ s.st = "ok" /\ s.fields \in FieldMaps(wt) /\ s.unknown \in Kept(wt)
         /\ Roomy(wt, s.fields, Len(bs))
  BY Tables, ScanFinds
<1>3. QueryAllIdentityRequest_unmarshal(bs) =
        IF s.st # "ok" THEN s ELSE
        IF p1.st # "ok" THEN p1 ELSE
        Ok([pagination |-> p1.v, unknown |-> s.unknown], 0)
  BY DEF QueryAllIdentityRequest_unmarshal, Then, Paging_unmarshal
<1>4. QueryAllIdentityRequest_Unmarshal(bs) =
        IF s.st # "ok" THEN s ELSE
        IF g1.st # "ok" THEN g1 ELSE
        Ok([pagination |-> g1.v], 0)
  BY DEF QueryAllIdentityRequest_Unmarshal, Then, Paging_Unmarshal
<1>5. CASE s = Failed
  BY <1>3, <1>4, <1>5 DEF Agreeing, Failed
<1>6. CASE /\ s.st = "ok" /\ s.fields \in FieldMaps(wt) /\ s.unknown \in Kept(wt)
           /\ Roomy(wt, s.fields, Len(bs))
  <2>1. Agreeing(p1, g1, Pointer(PageRequestSet), ListPlain(Pointer(PageRequestSet)))
    <3>1. Readable(Values(s, 1))
      <4> HIDE DEF s, wt
      <4> QED
        BY <1>1, <1>6, ValuesReadable
    <3> HIDE DEF s
    <3> QED
      BY <3>1, PagingRead
  <2> HIDE DEF s, p1, g1
  <2>2. CASE p1 = Failed /\ g1 = Failed
    BY <1>3, <1>4, <1>6, <2>2 DEF Agreeing, Failed
  <2>3. ASSUME NEW a1 \in Pointer(PageRequestSet), p1 = Ok(a1, 0),
               g1 = Ok(ListPlain(Pointer(PageRequestSet))[a1], 0)
        PROVE  Alike
    <3> DEFINE m == [pagination |-> a1, unknown |-> s.unknown]
               q == [pagination |-> ListPlain(Pointer(PageRequestSet))[a1]]
    <3>1. m \in QueryAllIdentityRequestSet
      BY <1>6, <2>1 DEF QueryAllIdentityRequestSet
    <3>2. Same("QueryAllIdentityRequest", m) = q
      <4>1. Without(m) = [pagination |-> a1]
        BY DEF Without
      <4> HIDE DEF m
      <4> QED
        BY <4>1 DEF Same, ListPlain
    <3>3. /\ p1.st = "ok" /\ p1.v = a1 /\ g1.st = "ok"
          /\ g1.v = ListPlain(Pointer(PageRequestSet))[a1]
      BY <2>3, OkParts
    <3>4. /\ QueryAllIdentityRequest_unmarshal(bs) = Ok(m, 0)
         /\ QueryAllIdentityRequest_Unmarshal(bs) = Ok(q, 0)
      BY <1>3, <1>4, <1>6, <3>3
    <3> HIDE DEF m, q
    <3> QED
      BY <3>1, <3>2, <3>4 DEF Agreeing, SameAs
  <2> QED
    BY <2>1, <2>2, <2>3 DEF Agreeing
<1> QED
  BY <1>2, <1>5, <1>6

(* Both forms of the message are read alike.                               *)
LEMMA QueryAllIdentityResponse_Reads ==
  ASSUME NEW bs \in Buffers
  PROVE  Agreeing(QueryAllIdentityResponse_unmarshal(bs),
                  QueryAllIdentityResponse_Unmarshal(bs),
                  QueryAllIdentityResponseSet,
                  SameAs("QueryAllIdentityResponse", QueryAllIdentityResponseSet))
<1> DEFINE wt == <<2, 2>>
           s == Scan(wt, bs)
           p1 == Identities_unmarshal(Values(s, 1))
           g1 == Identities_Unmarshal(Values(s, 1))
           p2 == Paged_unmarshal(Values(s, 2))
           g2 == Paged_Unmarshal(Values(s, 2))
           Alike == Agreeing(QueryAllIdentityResponse_unmarshal(bs),
                             QueryAllIdentityResponse_Unmarshal(bs),
                             QueryAllIdentityResponseSet,
                             SameAs("QueryAllIdentityResponse", QueryAllIdentityResponseSet))
<1>1. IsTable(wt) /\ 1 \in DOMAIN wt /\ wt[1] = 2 /\ 2 \in DOMAIN wt /\ wt[2] = 2
  BY Tables
<1>2. \/ s = Failed
      \/ /\ s.st = "ok" /\ s.fields \in FieldMaps(wt) /\ s.unknown \in Kept(wt)
         /\ Roomy(wt, s.fields, Len(bs))
  BY Tables, ScanFinds
<1>3. QueryAllIdentityResponse_unmarshal(bs) =
        IF s.st # "ok" THEN s ELSE
        IF p1.st # "ok" THEN p1 ELSE
        IF p2.st # "ok" THEN p2 ELSE
        Ok([identity |-> p1.v, pagination |-> p2.v, unknown |-> s.unknown], 0)
  BY DEF QueryAllIdentityResponse_unmarshal, Then, Identities_unmarshal, Paged_unmarshal
<1>4. QueryAllIdentityResponse_Unmarshal(bs) =
        IF s.st # "ok" THEN s ELSE
        IF g1.st # "ok" THEN g1 ELSE
        IF g2.st # "ok" THEN g2 ELSE
        Ok([identity |-> g1.v, pagination |-> g2.v], 0)
  BY DEF QueryAllIdentityResponse_Unmarshal, Then, Identities_Unmarshal, Paged_Unmarshal
<1>5. CASE s = Failed
  BY <1>3, <1>4, <1>5 DEF Agreeing, Failed
<1>6. CASE /\ s.st = "ok" /\ s.fields \in FieldMaps(wt) /\ s.unknown \in Kept(wt)
           /\ Roomy(wt, s.fields, Len(bs))
  <2>1. Agreeing(p1, g1, Seq(IdentitySet), ListPlain(Seq(IdentitySet)))
    <3>1. Readable(Values(s, 1))
      <4> HIDE DEF s, wt
      <4> QED
        BY <1>1, <1>6, ValuesReadable
    <3> HIDE DEF s
    <3> QED
      BY <3>1, IdentitiesRead
  <2>2. Agreeing(p2, g2, Pointer(PageResponseSet), ListPlain(Pointer(PageResponseSet)))
    <3>1. Readable(Values(s, 2))
      <4> HIDE DEF s, wt
      <4> QED
        BY <1>1, <1>6, ValuesReadable
    <3> HIDE DEF s
    <3> QED
      BY <3>1, PagedRead
  <2> HIDE DEF s, p1, g1, p2, g2
  <2>3. CASE p1 = Failed /\ g1 = Failed
    BY <1>3, <1>4, <1>6, <2>3 DEF Agreeing, Failed
  <2>4. ASSUME NEW a1 \in Seq(IdentitySet), p1 = Ok(a1, 0),
               g1 = Ok(ListPlain(Seq(IdentitySet))[a1], 0)
        PROVE  Alike
    <3>1. CASE p2 = Failed /\ g2 = Failed
      <4>1. p1.st = "ok" /\ g1.st = "ok"
        BY <2>4, OkParts
      <4> QED
        BY <1>3, <1>4, <1>6, <3>1, <4>1 DEF Agreeing, Failed
    <3>2. ASSUME NEW a2 \in Pointer(PageResponseSet), p2 = Ok(a2, 0),
                 g2 = Ok(ListPlain(Pointer(PageResponseSet))[a2], 0)
          PROVE  Alike
      <4> DEFINE m == [identity |-> a1, pagination |-> a2, unknown |-> s.unknown]
                 q == [identity |-> ListPlain(Seq(IdentitySet))[a1],
                   pagination |-> ListPlain(Pointer(PageResponseSet))[a2]]
      <4>1. m \in QueryAllIdentityResponseSet
        BY <1>6, <2>1, <2>2 DEF QueryAllIdentityResponseSet
      <4>2. Same("QueryAllIdentityResponse", m) = q
        <5>1. Without(m) = [identity |-> a1, pagination |-> a2]
          BY DEF Without
        <5>2. m.identity = a1 /\ m.pagination = a2
          OBVIOUS
        <5> HIDE DEF m
        <5> QED
          BY <5>1, <5>2 DEF Same, ListPlain
      <4>3. /\ p1.st = "ok" /\ p1.v = a1 /\ g1.st = "ok" /\ g1.v = ListPlain(Seq(IdentitySet))[a1]
            /\ p2.st = "ok" /\ p2.v = a2 /\ g2.st = "ok"
            /\ g2.v = ListPlain(Pointer(PageResponseSet))[a2]
        BY <2>4, <3>2, OkParts
      <4>4. /\ QueryAllIdentityResponse_unmarshal(bs) = Ok(m, 0)
           /\ QueryAllIdentityResponse_Unmarshal(bs) = Ok(q, 0)
        BY <1>3, <1>4, <1>6, <4>3
      <4> HIDE DEF m, q
      <4> QED
        BY <4>1, <4>2, <4>4 DEF Agreeing, SameAs
    <3> QED
      BY <2>2, <3>1, <3>2 DEF Agreeing
  <2> QED
    BY <2>1, <2>3, <2>4 DEF Agreeing
<1> QED
  BY <1>2, <1>5, <1>6

(* Both forms of the message are read alike.                               *)
LEMMA QueryIdentityByCccdIdRequest_Reads ==
  ASSUME NEW bs \in Buffers
  PROVE  Agreeing(QueryIdentityByCccdIdRequest_unmarshal(bs),
                  QueryIdentityByCccdIdRequest_Unmarshal(bs),
                  QueryIdentityByCccdIdRequestSet,
                  SameAs("QueryIdentityByCccdIdRequest", QueryIdentityByCccdIdRequestSet))
<1> DEFINE wt == <<2, 2>>
           s == Scan(wt, bs)
           p2 == Paging_unmarshal(Values(s, 2))
           g2 == Paging_Unmarshal(Values(s, 2))
           Alike == Agreeing(QueryIdentityByCccdIdRequest_unmarshal(bs),
                             QueryIdentityByCccdIdRequest_Unmarshal(bs),
                             QueryIdentityByCccdIdRequestSet,
                             SameAs("QueryIdentityByCccdIdRequest",
                               QueryIdentityByCccdIdRequestSet))
<1>1. IsTable(wt) /\ 1 \in DOMAIN wt /\ wt[1] = 2 /\ 2 \in DOMAIN wt /\ wt[2] = 2
  BY Tables
<1>2. \/ s = Failed
      \/ /\ s.st = "ok" /\ s.fields \in FieldMaps(wt) /\ s.unknown \in Kept(wt)
         /\ Roomy(wt, s.fields, Len(bs))
  BY Tables, ScanFinds
<1>3. QueryIdentityByCccdIdRequest_unmarshal(bs) =
        IF s.st # "ok" THEN s ELSE
        IF p2.st # "ok" THEN p2 ELSE
        Ok([idHash |-> StringOf(s, 1), pagination |-> p2.v,
             unknown |-> s.unknown], 0)
  BY DEF QueryIdentityByCccdIdRequest_unmarshal, Then, Paging_unmarshal
<1>4. QueryIdentityByCccdIdRequest_Unmarshal(bs) =
        IF s.st # "ok" THEN s ELSE
        IF g2.st # "ok" THEN g2 ELSE
        Ok([idHash |-> StringOf(s, 1), pagination |-> g2.v], 0)
  BY DEF QueryIdentityByCccdIdRequest_Unmarshal, Then, Paging_Unmarshal
<1>5. CASE s = Failed
  BY <1>3, <1>4, <1>5 DEF Agreeing, Failed
<1>6. CASE /\ s.st = "ok" /\ s.fields \in FieldMaps(wt) /\ s.unknown \in Kept(wt)
           /\ Roomy(wt, s.fields, Len(bs))
  <2>1. StringOf(s, 1) \in Bytes
    <3> HIDE DEF s, wt
    <3> QED
      BY <1>1, <1>6, StringType
  <2>2. Agreeing(p2, g2, Pointer(PageRequestSet), ListPlain(Pointer(PageRequestSet)))
    <3>1. Readable(Values(s, 2))
      <4> HIDE DEF s, wt
      <4> QED
        BY <1>1, <1>6, ValuesReadable
    <3> HIDE DEF s
    <3> QED
      BY <3>1, PagingRead
  <2> HIDE DEF s, p2, g2
  <2>3. CASE p2 = Failed /\ g2 = Failed
    BY <1>3, <1>4, <1>6, <2>3 DEF Agreeing, Failed
  <2>4. ASSUME NEW a2 \in Pointer(PageRequestSet), p2 = Ok(a2, 0),
               g2 = Ok(ListPlain(Pointer(PageRequestSet))[a2], 0)
        PROVE  Alike
    <3> DEFINE m == [idHash |-> StringOf(s, 1), pagination |-> a2, unknown |-> s.unknown]
               q == [idHash |-> StringOf(s, 1),
                 pagination |-> ListPlain(Pointer(PageRequestSet))[a2]]
    <3>1. m \in QueryIdentityByCccdIdRequestSet
      BY <1>6, <2>1, <2>2 DEF QueryIdentityByCccdIdRequestSet
    <3>2. Same("QueryIdentityByCccdIdRequest", m) = q
      <4>1. Without(m) = [idHash |-> StringOf(s, 1), pagination |-> a2]
        BY DEF Without
      <4> HIDE DEF m
      <4> QED
        BY <4>1 DEF Same, ListPlain
    <3>3. /\ p2.st = "ok" /\ p2.v = a2 /\ g2.st = "ok"
          /\ g2.v = ListPlain(Pointer(PageRequestSet))[a2]
      BY <2>4, OkParts
    <3>4. /\ QueryIdentityByCccdIdRequest_unmarshal(bs) = Ok(m, 0)
         /\ QueryIdentityByCccdIdRequest_Unmarshal(bs) = Ok(q, 0)
      BY <1>3, <1>4, <1>6, <3>3
    <3> HIDE DEF m, q
    <3> QED
      BY <3>1, <3>2, <3>4 DEF Agreeing, SameAs
  <2> QED
    BY <2>2, <2>3, <2>4 DEF Agreeing
<1> QED
  BY <1>2, <1>5, <1>6

(* Both forms of the message are read alike.                               *)
LEMMA QueryIdentityByCccdIdResponse_Reads ==
  ASSUME NEW bs \in Buffers
  PROVE  Agreeing(QueryIdentityByCccdIdResponse_unmarshal(bs),
                  QueryIdentityByCccdIdResponse_Unmarshal(bs),
                  QueryIdentityByCccdIdResponseSet,
                  SameAs("QueryIdentityByCccdIdResponse", QueryIdentityByCccdIdResponseSet))
<1> DEFINE wt == <<2, 2>>
           s == Scan(wt, bs)
           p1 == Identities_unmarshal(Values(s, 1))
           g1 == Identities_Unmarshal(Values(s, 1))
           p2 == Paged_unmarshal(Values(s, 2))
           g2 == Paged_Unmarshal(Values(s, 2))
           Alike == Agreeing(QueryIdentityByCccdIdResponse_unmarshal(bs),
                             QueryIdentityByCccdIdResponse_Unmarshal(bs),
                             QueryIdentityByCccdIdResponseSet,
                             SameAs("QueryIdentityByCccdIdResponse",
                               QueryIdentityByCccdIdResponseSet))
<1>1. IsTable(wt) /\ 1 \in DOMAIN wt /\ wt[1] = 2 /\ 2 \in DOMAIN wt /\ wt[2] = 2
  BY Tables
<1>2. \/ s = Failed
      \/ /\ s.st = "ok" /\ s.fields \in FieldMaps(wt) /\ s.unknown \in Kept(wt)
         /\ Roomy(wt, s.fields, Len(bs))
  BY Tables, ScanFinds
<1>3. QueryIdentityByCccdIdResponse_unmarshal(bs) =
        IF s.st # "ok" THEN s ELSE
        IF p1.st # "ok" THEN p1 ELSE
        IF p2.st # "ok" THEN p2 ELSE
        Ok([identity |-> p1.v, pagination |-> p2.v, unknown |-> s.unknown], 0)
  BY DEF QueryIdentityByCccdIdResponse_unmarshal, Then, Identities_unmarshal, Paged_unmarshal
<1>4. QueryIdentityByCccdIdResponse_Unmarshal(bs) =
        IF s.st # "ok" THEN s ELSE
        IF g1.st # "ok" THEN g1 ELSE
        IF g2.st # "ok" THEN g2 ELSE
        Ok([identity |-> g1.v, pagination |-> g2.v], 0)
  BY DEF QueryIdentityByCccdIdResponse_Unmarshal, Then, Identities_Unmarshal, Paged_Unmarshal
<1>5. CASE s = Failed
  BY <1>3, <1>4, <1>5 DEF Agreeing, Failed
<1>6. CASE /\ s.st = "ok" /\ s.fields \in FieldMaps(wt) /\ s.unknown \in Kept(wt)
           /\ Roomy(wt, s.fields, Len(bs))
  <2>1. Agreeing(p1, g1, Seq(IdentitySet), ListPlain(Seq(IdentitySet)))
    <3>1. Readable(Values(s, 1))
      <4> HIDE DEF s, wt
      <4> QED
        BY <1>1, <1>6, ValuesReadable
    <3> HIDE DEF s
    <3> QED
      BY <3>1, IdentitiesRead
  <2>2. Agreeing(p2, g2, Pointer(PageResponseSet), ListPlain(Pointer(PageResponseSet)))
    <3>1. Readable(Values(s, 2))
      <4> HIDE DEF s, wt
      <4> QED
        BY <1>1, <1>6, ValuesReadable
    <3> HIDE DEF s
    <3> QED
      BY <3>1, PagedRead
  <2> HIDE DEF s, p1, g1, p2, g2
  <2>3. CASE p1 = Failed /\ g1 = Failed
    BY <1>3, <1>4, <1>6, <2>3 DEF Agreeing, Failed
  <2>4. ASSUME NEW a1 \in Seq(IdentitySet), p1 = Ok(a1, 0),
               g1 = Ok(ListPlain(Seq(IdentitySet))[a1], 0)
        PROVE  Alike
    <3>1. CASE p2 = Failed /\ g2 = Failed
      <4>1. p1.st = "ok" /\ g1.st = "ok"
        BY <2>4, OkParts
      <4> QED
        BY <1>3, <1>4, <1>6, <3>1, <4>1 DEF Agreeing, Failed
    <3>2. ASSUME NEW a2 \in Pointer(PageResponseSet), p2 = Ok(a2, 0),
                 g2 = Ok(ListPlain(Pointer(PageResponseSet))[a2], 0)
          PROVE  Alike
      <4> DEFINE m == [identity |-> a1, pagination |-> a2, unknown |-> s.unknown]
                 q == [identity |-> ListPlain(Seq(IdentitySet))[a1],
                   pagination |-> ListPlain(Pointer(PageResponseSet))[a2]]
      <4>1. m \in QueryIdentityByCccdIdResponseSet
        BY <1>6, <2>1, <2>2 DEF QueryIdentityByCccdIdResponseSet
      <4>2. Same("QueryIdentityByCccdIdResponse", m) = q
        <5>1. Without(m) = [identity |-> a1, pagination |-> a2]
          BY DEF Without
        <5>2. m.identity = a1 /\ m.pagination = a2
          OBVIOUS
        <5> HIDE DEF m
        <5> QED
          BY <5>1, <5>2 DEF Same, ListPlain
      <4>3. /\ p1.st = "ok" /\ p1.v = a1 /\ g1.st = "ok" /\ g1.v = ListPlain(Seq(IdentitySet))[a1]
            /\ p2.st = "ok" /\ p2.v = a2 /\ g2.st = "ok"
            /\ g2.v = ListPlain(Pointer(PageResponseSet))[a2]
        BY <2>4, <3>2, OkParts
      <4>4. /\ QueryIdentityByCccdIdResponse_unmarshal(bs) = Ok(m, 0)
           /\ QueryIdentityByCccdIdResponse_Unmarshal(bs) = Ok(q, 0)
        BY <1>3, <1>4, <1>6, <4>3
      <4> HIDE DEF m, q
      <4> QED
        BY <4>1, <4>2, <4>4 DEF Agreeing, SameAs
    <3> QED
      BY <2>2, <3>1, <3>2 DEF Agreeing
  <2> QED
    BY <2>1, <2>3, <2>4 DEF Agreeing
<1> QED
  BY <1>2, <1>5, <1>6

(* What unmarshal returns, by the name of the type.                         *)
WellFormed(t) ==
  CASE t = "Params" -> ParamsSet
    [] t = "Identity" -> IdentitySet
    [] t = "GenesisState" -> GenesisStateSet
    [] t = "MsgUpdateParams" -> MsgUpdateParamsSet
    [] t = "MsgUpdateParamsResponse" -> MsgUpdateParamsResponseSet
    [] t = "MsgCreateIdentity" -> MsgCreateIdentitySet
    [] t = "MsgCreateIdentityResponse" -> MsgCreateIdentityResponseSet
    [] t = "QueryParamsRequest" -> QueryParamsRequestSet
    [] t = "QueryParamsResponse" -> QueryParamsResponseSet
    [] t = "QueryGetIdentityRequest" -> QueryGetIdentityRequestSet
    [] t = "QueryGetIdentityResponse" -> QueryGetIdentityResponseSet
    [] t = "QueryAllIdentityRequest" -> QueryAllIdentityRequestSet
    [] t = "QueryAllIdentityResponse" -> QueryAllIdentityResponseSet
    [] t = "QueryIdentityByCccdIdRequest" -> QueryIdentityByCccdIdRequestSet
    [] t = "QueryIdentityByCccdIdResponse" -> QueryIdentityByCccdIdResponseSet
    [] t = "Module" -> ModuleSet

(* The same of the two messages that are fields themselves.                *)
LEMMA FieldsAlike ==
  SameAs("Params", ParamsSet) = PlainParams /\ SameAs("Identity", IdentitySet) = PlainIdentity
<1>1. ASSUME NEW m \in ParamsSet
      PROVE  Same("Params", m) = NoFields
  <2>1. DOMAIN m = {"unknown"}
    BY DEF ParamsSet
  <2>2. DOMAIN Without(m) = {}
    BY <2>1 DEF Without
  <2> QED
    BY <2>2 DEF Same
<1>2. ASSUME NEW m \in IdentitySet
      PROVE  Same("Identity", m) = PlainIdentity[m]
  <2>1. DOMAIN m = {"address", "idHash", "createdAt", "unknown"}
    BY DEF IdentitySet
  <2>2. DOMAIN Without(m) = {"address", "idHash", "createdAt"}
    BY <2>1 DEF Without
  <2>3. DOMAIN Without(m) # {}
    BY <2>2
  <2>4. Same("Identity", m) = Without(m)
    BY <2>3 DEF Same
  <2> QED
    BY <2>4, PlainWithout
<1> QED
  BY <1>1, <1>2 DEF SameAs, PlainParams, PlainIdentity

(* Every message is read alike by its two forms.                           *)
LEMMA AllReadAlike ==
  ASSUME NEW t \in GogoTypes, NEW bs \in Buffers
  PROVE  Agreeing(unmarshal(t, bs), Unmarshal(t, bs), WellFormed(t), SameAs(t, WellFormed(t)))
<1>1. CASE t = "Params"
  <2>1. /\ unmarshal(t, bs) = Params_unmarshal(bs) /\ Unmarshal(t, bs) = Params_Unmarshal(bs)
        /\ WellFormed(t) = ParamsSet
    BY <1>1 DEF unmarshal, Unmarshal, WellFormed
  <2> QED
    BY <1>1, <2>1, Params_Reads, FieldsAlike
<1>2. CASE t = "Identity"
  <2>1. /\ unmarshal(t, bs) = Identity_unmarshal(bs) /\ Unmarshal(t, bs) = Identity_Unmarshal(bs)
        /\ WellFormed(t) = IdentitySet
    BY <1>2 DEF unmarshal, Unmarshal, WellFormed
  <2> QED
    BY <1>2, <2>1, Identity_Reads, FieldsAlike
<1>3. CASE t = "GenesisState"
  <2>1. /\ unmarshal(t, bs) = GenesisState_unmarshal(bs)
        /\ Unmarshal(t, bs) = GenesisState_Unmarshal(bs)
        /\ WellFormed(t) = GenesisStateSet
    BY <1>3 DEF unmarshal, Unmarshal, WellFormed
  <2> QED
    BY <1>3, <2>1, GenesisState_Reads
<1>4. CASE t = "MsgUpdateParams"
  <2>1. /\ unmarshal(t, bs) = MsgUpdateParams_unmarshal(bs)
        /\ Unmarshal(t, bs) = MsgUpdateParams_Unmarshal(bs)
        /\ WellFormed(t) = MsgUpdateParamsSet
    BY <1>4 DEF unmarshal, Unmarshal, WellFormed
  <2> QED
    BY <1>4, <2>1, MsgUpdateParams_Reads
<1>5. CASE t = "MsgUpdateParamsResponse"
  <2>1. /\ unmarshal(t, bs) = MsgUpdateParamsResponse_unmarshal(bs)
        /\ Unmarshal(t, bs) = MsgUpdateParamsResponse_Unmarshal(bs)
        /\ WellFormed(t) = MsgUpdateParamsResponseSet
    BY <1>5 DEF unmarshal, Unmarshal, WellFormed
  <2> QED
    BY <1>5, <2>1, MsgUpdateParamsResponse_Reads
<1>6. CASE t = "MsgCreateIdentity"
  <2>1. /\ unmarshal(t, bs) = MsgCreateIdentity_unmarshal(bs)
        /\ Unmarshal(t, bs) = MsgCreateIdentity_Unmarshal(bs)
        /\ WellFormed(t) = MsgCreateIdentitySet
    BY <1>6 DEF unmarshal, Unmarshal, WellFormed
  <2> QED
    BY <1>6, <2>1, MsgCreateIdentity_Reads
<1>7. CASE t = "MsgCreateIdentityResponse"
  <2>1. /\ unmarshal(t, bs) = MsgCreateIdentityResponse_unmarshal(bs)
        /\ Unmarshal(t, bs) = MsgCreateIdentityResponse_Unmarshal(bs)
        /\ WellFormed(t) = MsgCreateIdentityResponseSet
    BY <1>7 DEF unmarshal, Unmarshal, WellFormed
  <2> QED
    BY <1>7, <2>1, MsgCreateIdentityResponse_Reads
<1>8. CASE t = "QueryParamsRequest"
  <2>1. /\ unmarshal(t, bs) = QueryParamsRequest_unmarshal(bs)
        /\ Unmarshal(t, bs) = QueryParamsRequest_Unmarshal(bs)
        /\ WellFormed(t) = QueryParamsRequestSet
    BY <1>8 DEF unmarshal, Unmarshal, WellFormed
  <2> QED
    BY <1>8, <2>1, QueryParamsRequest_Reads
<1>9. CASE t = "QueryParamsResponse"
  <2>1. /\ unmarshal(t, bs) = QueryParamsResponse_unmarshal(bs)
        /\ Unmarshal(t, bs) = QueryParamsResponse_Unmarshal(bs)
        /\ WellFormed(t) = QueryParamsResponseSet
    BY <1>9 DEF unmarshal, Unmarshal, WellFormed
  <2> QED
    BY <1>9, <2>1, QueryParamsResponse_Reads
<1>10. CASE t = "QueryGetIdentityRequest"
  <2>1. /\ unmarshal(t, bs) = QueryGetIdentityRequest_unmarshal(bs)
        /\ Unmarshal(t, bs) = QueryGetIdentityRequest_Unmarshal(bs)
        /\ WellFormed(t) = QueryGetIdentityRequestSet
    BY <1>10 DEF unmarshal, Unmarshal, WellFormed
  <2> QED
    BY <1>10, <2>1, QueryGetIdentityRequest_Reads
<1>11. CASE t = "QueryGetIdentityResponse"
  <2>1. /\ unmarshal(t, bs) = QueryGetIdentityResponse_unmarshal(bs)
        /\ Unmarshal(t, bs) = QueryGetIdentityResponse_Unmarshal(bs)
        /\ WellFormed(t) = QueryGetIdentityResponseSet
    BY <1>11 DEF unmarshal, Unmarshal, WellFormed
  <2> QED
    BY <1>11, <2>1, QueryGetIdentityResponse_Reads
<1>12. CASE t = "QueryAllIdentityRequest"
  <2>1. /\ unmarshal(t, bs) = QueryAllIdentityRequest_unmarshal(bs)
        /\ Unmarshal(t, bs) = QueryAllIdentityRequest_Unmarshal(bs)
        /\ WellFormed(t) = QueryAllIdentityRequestSet
    BY <1>12 DEF unmarshal, Unmarshal, WellFormed
  <2> QED
    BY <1>12, <2>1, QueryAllIdentityRequest_Reads
<1>13. CASE t = "QueryAllIdentityResponse"
  <2>1. /\ unmarshal(t, bs) = QueryAllIdentityResponse_unmarshal(bs)
        /\ Unmarshal(t, bs) = QueryAllIdentityResponse_Unmarshal(bs)
        /\ WellFormed(t) = QueryAllIdentityResponseSet
    BY <1>13 DEF unmarshal, Unmarshal, WellFormed
  <2> QED
    BY <1>13, <2>1, QueryAllIdentityResponse_Reads
<1>14. CASE t = "QueryIdentityByCccdIdRequest"
  <2>1. /\ unmarshal(t, bs) = QueryIdentityByCccdIdRequest_unmarshal(bs)
        /\ Unmarshal(t, bs) = QueryIdentityByCccdIdRequest_Unmarshal(bs)
        /\ WellFormed(t) = QueryIdentityByCccdIdRequestSet
    BY <1>14 DEF unmarshal, Unmarshal, WellFormed
  <2> QED
    BY <1>14, <2>1, QueryIdentityByCccdIdRequest_Reads
<1>15. CASE t = "QueryIdentityByCccdIdResponse"
  <2>1. /\ unmarshal(t, bs) = QueryIdentityByCccdIdResponse_unmarshal(bs)
        /\ Unmarshal(t, bs) = QueryIdentityByCccdIdResponse_Unmarshal(bs)
        /\ WellFormed(t) = QueryIdentityByCccdIdResponseSet
    BY <1>15 DEF unmarshal, Unmarshal, WellFormed
  <2> QED
    BY <1>15, <2>1, QueryIdentityByCccdIdResponse_Reads
<1> QED
  BY <1>1, <1>2, <1>3, <1>4, <1>5, <1>6, <1>7, <1>8, <1>9, <1>10, <1>11, <1>12, <1>13, <1>14,
     <1>15 DEF GogoTypes

(* The module configuration exists in the pulsar form only.                *)
LEMMA Module_Reads ==
  ASSUME NEW bs \in Buffers
  PROVE  Module_unmarshal(bs) = Failed \/ \E m \in ModuleSet : Module_unmarshal(bs) = Ok(m, 0)
<1> DEFINE wt == <<2>>
           s == Scan(wt, bs)
           m == [authority |-> StringOf(s, 1), unknown |-> s.unknown]
<1>1. IsTable(wt) /\ 1 \in DOMAIN wt /\ wt[1] = 2
  BY Tables
<1>2. s = Failed \/ (s.st = "ok" /\ s.fields \in FieldMaps(wt) /\ s.unknown \in Kept(wt))
  BY Tables, ScanFinds
<1>3. Module_unmarshal(bs) = IF s.st # "ok" THEN s ELSE Ok(m, 0)
  BY DEF Module_unmarshal, Then
<1>4. CASE s = Failed
  BY <1>3, <1>4 DEF Failed
<1>5. CASE s.st = "ok" /\ s.fields \in FieldMaps(wt) /\ s.unknown \in Kept(wt)
  <2>1. StringOf(s, 1) \in Bytes
    <3> HIDE DEF s, wt
    <3> QED
      BY <1>1, <1>5, StringType
  <2> HIDE DEF s
  <2>2. m \in ModuleSet
    BY <1>5, <2>1 DEF ModuleSet
  <2> QED
    BY <1>3, <1>5, <2>2
<1> QED
  BY <1>2, <1>4, <1>5

-----------------------------------------------------------------------------
(* Whole messages.                                                         *)

(* A buffer of the size of what is written holds that and nothing else.    *)
LEMMA FillIs ==
  ASSUME NEW a \in Bytes, NEW size, size = Len(a)
  PROVE  Fill(size, a) = a /\ Front(size, a) = a
<1>1. Len(a) \in Nat
  BY DEF Bytes
<1>2. Fill(size, a) = a
  <2> DEFINE z == [k \in 1 .. (size - Len(a)) |-> 0]
  <2>1. 1 .. (size - Len(a)) = {}
    BY <1>1
  <2>2. z = <<>>
    BY <2>1
  <2>3. Fill(size, a) = z \o a
    BY <1>1 DEF Fill
  <2> HIDE DEF z
  <2>4. Fill(size, a) = <<>> \o a
    BY <2>2, <2>3
  <2> QED
    BY <2>4, JoinNothing
<1>3. SubSeq(a, 1, Len(a)) = a
  BY DEF Bytes
<1>4. Front(size, a) = a
  BY <1>1, <1>2, <1>3 DEF Front
<1> QED
  BY <1>2, <1>4

(* A pulsar message: its fields, and the unknown ones.                     *)
LEMMA MessageFound ==
  ASSUME NEW wt, IsTable(wt), NEW a, NEW s, NEW g, Writes(wt, a, s, g), NEW u \in Kept(wt),
         NEW bs, bs = Fill(s + Len(u), a \o u)
  PROVE  /\ bs \in Bytes /\ Len(bs) = s + Len(u)
         /\ Fits(bs) => Scan(wt, bs) = Found(g, u)
<1>1. a \in Bytes /\ Len(a) = s /\ u \in Bytes
  BY DEF Writes, Kept
<1> DEFINE au == a \o u
           size == s + Len(u)
<1>2. au \in Bytes /\ Len(au) = size
  BY <1>1, BytesJoin
<1> HIDE DEF au, size
<1>3. Fill(size, au) = au
  BY <1>2, FillIs
<1>4. bs = a \o u
  BY <1>3 DEF au, size
<1>5. ASSUME Fits(bs) PROVE Scan(wt, bs) = Found(g, u)
  <2>1. Fits(a \o u)
    BY <1>4, <1>5, Zenon
  <2>2. Scan(wt, a \o u) = Found(g, u)
    BY <2>1, WritesFound, Zenon
  <2> QED
    BY <1>4, <2>2, Zenon
<1> QED
  BY <1>2, <1>4, <1>5 DEF au, size

(* A gogo message: its fields.                                             *)
LEMMA PlainFound ==
  ASSUME NEW wt, IsTable(wt), NEW a, NEW s, NEW g, Writes(wt, a, s, g)
  PROVE  /\ a \in Bytes /\ Len(a) = s /\ Front(s, a) = a
         /\ Fits(a) => Scan(wt, a) = Found(g, <<>>)
<1>1. a \in Bytes /\ Len(a) = s
  BY DEF Writes
<1>2. Front(s, a) = a
  BY <1>1, FillIs
<1>3. <<>> \in Kept(wt)
  BY ScanNothing, NoBytes DEF Kept
<1>4. a \o <<>> = a
  BY <1>1, JoinNothing
<1>5. ASSUME Fits(a)
      PROVE  Scan(wt, a) = Found(g, <<>>)
  <2> DEFINE e == <<>>
             ae == a \o e
  <2>1. e \in Kept(wt) /\ ae = a /\ Fits(ae)
    BY <1>3, <1>4, <1>5
  <2> HIDE DEF e
  <2>2. Scan(wt, a \o e) = Found(g, e)
    BY <2>1, WritesFound
  <2> QED
    BY <2>1, <2>2 DEF e
<1> QED
  BY <1>1, <1>2, <1>5

(* Identities, and what a scan of one finds.                               *)
Identity_Row(m) == <<StringValues(m.address), StringValues(m.idHash), NumberValues(m.createdAt)>>

(* A scan finds them.                                                      *)
LEMMA Identity_Writes ==
  ASSUME NEW m, m.address \in Bytes, m.idHash \in Bytes, m.createdAt \in Int64
  PROVE  Writes(<<2, 2, 0>>, Identity_MarshalToSizedBuffer(m), Identity_Size(m), Identity_Row(m))
<1> DEFINE wt == <<2, 2, 0>>
           x1 == m.address
           x2 == m.idHash
           x3 == m.createdAt
           s1 == StringSize(x1)
           s2 == StringSize(x2)
           s3 == VarintSize(x3)
<1>1. IsTable(wt) /\ 1 \in DOMAIN wt /\ 2 \in DOMAIN wt /\ 3 \in DOMAIN wt
      /\ wt[1] = 2 /\ wt[2] = 2 /\ wt[3] = 0
  BY Tables
<1>2. x1 \in Bytes /\ x2 \in Bytes /\ x3 \in Int
  BY Words DEF Int64
<1>3. 1 \in 1 .. 7 /\ 2 \in 1 .. 7 /\ 3 \in 1 .. 7
  OBVIOUS
<1> HIDE DEF wt, x1, x2, x3
<1>4. Writes(wt, StringField(1, x1), s1, Only(wt, 1, StringValues(x1)))
  BY <1>1, <1>2, <1>3, StringWrites
<1>5. Writes(wt, StringField(2, x2), s2, Only(wt, 2, StringValues(x2)))
  BY <1>1, <1>2, <1>3, StringWrites
<1>6. Writes(wt, VarintField(3, x3), s3, Only(wt, 3, NumberValues(x3)))
  BY <1>1, <1>2, <1>3, NumberWrites
<1> DEFINE b1 == StringField(1, x1)
           b2 == StringField(2, x2)
           b3 == VarintField(3, x3)
           v1 == StringValues(x1)
           v2 == StringValues(x2)
           v3 == NumberValues(x3)
           st == s1 + s2
           str == st + s3
<1>7. /\ Writes(<<2, 2, 0>>, b1, s1, Only(<<2, 2, 0>>, 1, v1))
      /\ Writes(<<2, 2, 0>>, b2, s2, Only(<<2, 2, 0>>, 2, v2))
      /\ Writes(<<2, 2, 0>>, b3, s3, Only(<<2, 2, 0>>, 3, v3))
  BY <1>4, <1>5, <1>6 DEF wt
<1>8. st = s1 + s2 /\ str = st + s3
  OBVIOUS
<1> HIDE DEF b1, b2, b3, v1, v2, v3, s1, s2, s3, st, str
<1>9. Writes(<<2, 2, 0>>, (b1 \o b2) \o b3, str, <<v1, v2, v3>>)
  BY <1>7, <1>8, ThreeFieldsWrite
<1>10. /\ Identity_MarshalToSizedBuffer(m) = (b1 \o b2) \o b3 /\ Identity_Size(m) = str
       /\ Identity_Row(m) = <<v1, v2, v3>>
  BY DEF Identity_MarshalToSizedBuffer, Identity_Size, Identity_Row, b1, b2, b3, v1, v2, v3,
         s1, s2, s3, st, str, x1, x2, x3
<1> QED
  BY <1>9, <1>10

(* The parameters of a page.                                               *)
Bit(b) == IF b THEN 1 ELSE 0
PageRequest_Row(m) ==
  <<StringValues(m.key), NumberValues(m.offset), NumberValues(m.limit),
    NumberValues(Bit(m.countTotal)), NumberValues(Bit(m.reverse))>>

(* A scan finds them.                                                      *)
LEMMA PageRequest_Writes ==
  ASSUME NEW m, m.key \in Bytes, m.offset \in Word, m.limit \in Word,
         m.countTotal \in BOOLEAN, m.reverse \in BOOLEAN
  PROVE  Writes(<<2, 0, 0, 0, 0>>, PageRequest_MarshalToSizedBuffer(m), PageRequest_Size(m),
                PageRequest_Row(m))
<1> DEFINE wt == <<2, 0, 0, 0, 0>>
           x1 == m.key
           x2 == m.offset
           x3 == m.limit
           x4 == Bit(m.countTotal)
           x5 == Bit(m.reverse)
           s1 == StringSize(x1)
           s2 == VarintSize(x2)
           s3 == VarintSize(x3)
           s4 == VarintSize(x4)
           s5 == VarintSize(x5)
<1>1. IsTable(wt) /\ (\A n \in 1 .. 5 : n \in DOMAIN wt) /\ wt[1] = 2
      /\ \A n \in 2 .. 5 : wt[n] = 0
  BY Tables
<1>2. x1 \in Bytes /\ x2 \in Int /\ x3 \in Int /\ x4 \in Int /\ x5 \in Int
  BY Words DEF Word, Bit
<1>3. /\ 1 \in 1 .. 7 /\ 2 \in 1 .. 7 /\ 3 \in 1 .. 7 /\ 4 \in 1 .. 7 /\ 5 \in 1 .. 7
      /\ 1 \in 1 .. 5 /\ 2 \in 2 .. 5 /\ 3 \in 2 .. 5 /\ 4 \in 2 .. 5 /\ 5 \in 2 .. 5
      /\ 2 \in 1 .. 5 /\ 3 \in 1 .. 5 /\ 4 \in 1 .. 5 /\ 5 \in 1 .. 5
  OBVIOUS
<1> HIDE DEF wt, x1, x2, x3, x4, x5
<1>4. Writes(wt, StringField(1, x1), s1, Only(wt, 1, StringValues(x1)))
  BY <1>1, <1>2, <1>3, StringWrites
<1>5. Writes(wt, VarintField(2, x2), s2, Only(wt, 2, NumberValues(x2)))
  BY <1>1, <1>2, <1>3, NumberWrites
<1>6. Writes(wt, VarintField(3, x3), s3, Only(wt, 3, NumberValues(x3)))
  BY <1>1, <1>2, <1>3, NumberWrites
<1>7. Writes(wt, VarintField(4, x4), s4, Only(wt, 4, NumberValues(x4)))
  BY <1>1, <1>2, <1>3, NumberWrites
<1>8. Writes(wt, VarintField(5, x5), s5, Only(wt, 5, NumberValues(x5)))
  BY <1>1, <1>2, <1>3, NumberWrites
<1> DEFINE b1 == StringField(1, x1)
           b2 == VarintField(2, x2)
           b3 == VarintField(3, x3)
           b4 == VarintField(4, x4)
           b5 == VarintField(5, x5)
           v1 == StringValues(x1)
           v2 == NumberValues(x2)
           v3 == NumberValues(x3)
           v4 == NumberValues(x4)
           v5 == NumberValues(x5)
           t2 == s1 + s2
           t3 == t2 + s3
           t4 == t3 + s4
           t5 == t4 + s5
<1>9. /\ Writes(wt, b1, s1, Only(wt, 1, v1)) /\ Writes(wt, b2, s2, Only(wt, 2, v2))
      /\ Writes(wt, b3, s3, Only(wt, 3, v3)) /\ Writes(wt, b4, s4, Only(wt, 4, v4))
      /\ Writes(wt, b5, s5, Only(wt, 5, v5))
  BY <1>4, <1>5, <1>6, <1>7, <1>8
<1>10. /\ t2 = s1 + s2 /\ t3 = t2 + s3 /\ t4 = t3 + s4 /\ t5 = t4 + s5
       /\ wt = <<2, 0, 0, 0, 0>>
  BY DEF wt
<1> HIDE DEF b1, b2, b3, b4, b5, v1, v2, v3, v4, v5, s1, s2, s3, s4, s5, t2, t3, t4, t5
<1>11. Writes(wt, (((b1 \o b2) \o b3) \o b4) \o b5, t5, <<v1, v2, v3, v4, v5>>)
  BY <1>9, <1>10, FiveFieldsWrite
<1>12. PageRequest_MarshalToSizedBuffer(m) = (((b1 \o b2) \o b3) \o b4) \o b5
  BY DEF PageRequest_MarshalToSizedBuffer, b1, b2, b3, b4, b5, x1, x2, x3, x4, x5, Bit
<1>13. PageRequest_Size(m) = t5
  BY DEF PageRequest_Size, s1, s2, s3, s4, s5, t2, t3, t4, t5, x1, x2, x3, x4, x5, Bit
<1>14. PageRequest_Row(m) = <<v1, v2, v3, v4, v5>>
  BY DEF PageRequest_Row, v1, v2, v3, v4, v5, x1, x2, x3, x4, x5
<1> QED
  BY <1>11, <1>12, <1>13, <1>14 DEF wt

(* What is said of a page.                                                 *)
PageResponse_Row(m) == <<StringValues(m.nextKey), NumberValues(m.total)>>

(* A scan finds them.                                                      *)
LEMMA PageResponse_Writes ==
  ASSUME NEW m, m.nextKey \in Bytes, m.total \in Word
  PROVE  Writes(<<2, 0>>, PageResponse_MarshalToSizedBuffer(m), PageResponse_Size(m),
                PageResponse_Row(m))
<1> DEFINE wt == <<2, 0>>
           x1 == m.nextKey
           x2 == m.total
           s1 == StringSize(x1)
           s2 == VarintSize(x2)
<1>1. IsTable(wt) /\ 1 \in DOMAIN wt /\ 2 \in DOMAIN wt /\ wt[1] = 2 /\ wt[2] = 0
  BY Tables
<1>2. x1 \in Bytes /\ x2 \in Int
  BY Words DEF Word
<1>3. 1 \in 1 .. 7 /\ 2 \in 1 .. 7
  OBVIOUS
<1> HIDE DEF wt, x1, x2
<1>4. Writes(wt, StringField(1, x1), s1, Only(wt, 1, StringValues(x1)))
  BY <1>1, <1>2, <1>3, StringWrites
<1>5. Writes(wt, VarintField(2, x2), s2, Only(wt, 2, NumberValues(x2)))
  BY <1>1, <1>2, <1>3, NumberWrites
<1> DEFINE b1 == StringField(1, x1)
           b2 == VarintField(2, x2)
           v1 == StringValues(x1)
           v2 == NumberValues(x2)
           st == s1 + s2
           x == 0
<1>6. /\ Writes(<<2, x>>, b1, s1, Only(<<2, x>>, 1, v1))
      /\ Writes(<<2, x>>, b2, s2, Only(<<2, x>>, 2, v2))
  BY <1>4, <1>5 DEF wt
<1>7. st = s1 + s2 /\ x \in {0, 2}
  OBVIOUS
<1> HIDE DEF b1, b2, v1, v2, s1, s2, st, x
<1>8. Writes(<<2, x>>, b1 \o b2, st, <<v1, v2>>)
  BY <1>6, <1>7, TwoFieldsWrite
<1>9. /\ PageResponse_MarshalToSizedBuffer(m) = b1 \o b2 /\ PageResponse_Size(m) = st
      /\ PageResponse_Row(m) = <<v1, v2>>
  BY DEF PageResponse_MarshalToSizedBuffer, PageResponse_Size, PageResponse_Row,
         b1, b2, v1, v2, s1, s2, st, x1, x2
<1> QED
  BY <1>8, <1>9 DEF x

-----------------------------------------------------------------------------
(* The messages that are fields are read as they were written.             *)

Params_Row(m) == <<>>
PlainParamsSet == {NoFields}
PlainIdentitySet == [address : Bytes, idHash : Bytes, createdAt : Int64]
PlainPageRequestSet == [key : Bytes, offset : Word, limit : Word, countTotal : BOOLEAN,
  reverse : BOOLEAN]
PlainPageResponseSet == [nextKey : Bytes, total : Word]

(* What a scan finds in the pulsar form.                                   *)
LEMMA Params_Found ==
  ASSUME NEW m \in ParamsSet
  PROVE  /\ Params_marshal(m) \in Bytes /\ Len(Params_marshal(m)) = Params_size(m)
         /\ Fits(Params_marshal(m)) =>
              Scan(<<>>, Params_marshal(m)) = Found(Params_Row(m), m.unknown)
<1> DEFINE wt == <<>>
           a == Params_MarshalToSizedBuffer(m)
           z == Params_Size(m)
           g == Params_Row(m)
           bs == Params_marshal(m)
           u == m.unknown
<1>1. Writes(wt, a, z, g)
  BY NoFieldWrites DEF Params_MarshalToSizedBuffer, Params_Size, Params_Row
<1>2. IsTable(wt) /\ u \in Kept(wt)
  BY Tables DEF ParamsSet
<1>3. bs = Fill(z + Len(u), a \o u)
  <2>1. <<>> \o u = u /\ 0 + Len(u) = Len(u)
    <3>1. u \in Bytes
      BY <1>2 DEF Kept
    <3> HIDE DEF u
    <3>2. <<>> \o u = u
      BY <3>1, JoinNothing
    <3> QED
      BY <3>1, <3>2 DEF Bytes
  <2> QED
    BY <2>1 DEF Params_marshal, Params_size, Params_MarshalToSizedBuffer, Params_Size
<1>4. Params_size(m) = z + Len(u)
  <2>1. u \in Bytes
    BY <1>2 DEF Kept
  <2> HIDE DEF u
  <2>2. 0 + Len(u) = Len(u)
    BY <2>1 DEF Bytes
  <2> QED
    BY <2>2 DEF Params_size, Params_Size, u
<1> HIDE DEF wt, a, z, g, bs, u
<1>5. bs \in Bytes /\ Len(bs) = z + Len(u) /\ (Fits(bs) => Scan(wt, bs) = Found(g, u))
  BY <1>1, <1>2, <1>3, MessageFound
<1> QED
  BY <1>3, <1>4, <1>5 DEF bs, g, wt, u

(* The pulsar form of it.                                                  *)
LEMMA Params_Back ==
  ASSUME NEW m \in ParamsSet
  PROVE  /\ Params_marshal(m) \in Bytes /\ Len(Params_marshal(m)) = Params_size(m)
         /\ Fits(Params_marshal(m)) => Params_unmarshal(Params_marshal(m)) = Ok(m, 0)
<1> DEFINE wt == <<>>
           g == Params_Row(m)
           bs == Params_marshal(m)
<1>1. bs \in Bytes /\ Len(bs) = Params_size(m) /\ (Fits(bs) => Scan(wt, bs) = Found(g, m.unknown))
  BY Params_Found
<1> HIDE DEF wt, g, bs
<1>2. ASSUME Fits(bs)
      PROVE  Params_unmarshal(bs) = Ok(m, 0)
  <2> DEFINE s == Scan(wt, bs)
  <2>1. s = Found(g, m.unknown)
    BY <1>1, <1>2
  <2>2. s.st = "ok" /\ s.fields = g /\ s.unknown = m.unknown
    BY <2>1 DEF Found
  <2>3. Params_unmarshal(bs) = IF s.st = "ok" THEN
          Ok([unknown |-> s.unknown], 0) ELSE s
    BY DEF Params_unmarshal, Then, wt
  <2> HIDE DEF s
  <2>4. m = [unknown |-> m.unknown]
    BY DEF ParamsSet
  <2> QED
    BY <2>2, <2>3, <2>4
<1> QED
  BY <1>1, <1>2 DEF bs

(* What a scan finds in the gogo form.                                     *)
LEMMA Params_PlainFound ==
  ASSUME NEW m \in PlainParamsSet
  PROVE  /\ Params_MarshalToSizedBuffer(m) \in Bytes
         /\ Len(Params_MarshalToSizedBuffer(m)) = Params_Size(m)
         /\ Fits(Params_MarshalToSizedBuffer(m)) =>
              Scan(<<>>, Params_MarshalToSizedBuffer(m)) = Found(Params_Row(m), <<>>)
<1> DEFINE wt == <<>>
           a == Params_MarshalToSizedBuffer(m)
           z == Params_Size(m)
           g == Params_Row(m)
           bs == Params_MarshalToSizedBuffer(m)
<1>1. Writes(wt, a, z, g)
  BY NoFieldWrites DEF Params_MarshalToSizedBuffer, Params_Size, Params_Row
<1>2. IsTable(wt)
  BY Tables
<1>3. bs = a
  OBVIOUS
<1> HIDE DEF wt, a, z, g, bs
<1>5. a \in Bytes /\ Len(a) = z /\ (Fits(a) => Scan(wt, a) = Found(g, <<>>))
  BY <1>1, <1>2, PlainFound
<1> QED
  BY <1>3, <1>5 DEF bs, g, wt, z

(* The gogo form of it.                                                    *)
LEMMA Params_PlainBack ==
  ASSUME NEW m \in PlainParamsSet
  PROVE  /\ Params_MarshalToSizedBuffer(m) \in Bytes
         /\ Len(Params_MarshalToSizedBuffer(m)) = Params_Size(m)
         /\ Fits(Params_MarshalToSizedBuffer(m))
            => Params_Unmarshal(Params_MarshalToSizedBuffer(m)) = Ok(m, 0)
<1> DEFINE wt == <<>>
           g == Params_Row(m)
           bs == Params_MarshalToSizedBuffer(m)
<1>1. bs \in Bytes /\ Len(bs) = Params_Size(m) /\ (Fits(bs) => Scan(wt, bs) = Found(g, <<>>))
  BY Params_PlainFound
<1> HIDE DEF wt, g, bs
<1>2. ASSUME Fits(bs)
      PROVE  Params_Unmarshal(bs) = Ok(m, 0)
  <2> DEFINE s == Scan(wt, bs)
  <2>1. s = Found(g, <<>>)
    BY <1>1, <1>2
  <2>2. s.st = "ok" /\ s.fields = g /\ s.unknown = <<>>
    BY <2>1 DEF Found
  <2>3. Params_Unmarshal(bs) = IF s.st = "ok" THEN
          Ok(NoFields, 0) ELSE s
    BY DEF Params_Unmarshal, Then, wt
  <2> HIDE DEF s
  <2>4. m = NoFields
    BY DEF PlainParamsSet
  <2> QED
    BY <2>2, <2>3, <2>4
<1> QED
  BY <1>1, <1>2 DEF bs

(* What a scan finds in the pulsar form.                                   *)
LEMMA Identity_Found ==
  ASSUME NEW m \in IdentitySet
  PROVE  /\ Identity_marshal(m) \in Bytes /\ Len(Identity_marshal(m)) = Identity_size(m)
         /\ Fits(Identity_marshal(m)) =>
              Scan(<<2, 2, 0>>, Identity_marshal(m)) = Found(Identity_Row(m), m.unknown)
<1> DEFINE wt == <<2, 2, 0>>
           a == Identity_MarshalToSizedBuffer(m)
           z == Identity_Size(m)
           g == Identity_Row(m)
           bs == Identity_marshal(m)
           u == m.unknown
<1>1. Writes(wt, a, z, g)
  <2>1. m.address \in Bytes /\ m.idHash \in Bytes /\ m.createdAt \in Int64
    BY DEF IdentitySet
  <2> QED
    BY <2>1, Identity_Writes
<1>2. IsTable(wt) /\ u \in Kept(wt)
  BY Tables DEF IdentitySet
<1>3. bs = Fill(z + Len(u), a \o u)
  BY DEF Identity_marshal, Identity_size, Identity_MarshalToSizedBuffer, Identity_Size
<1>4. Identity_size(m) = z + Len(u)
  BY DEF Identity_size, Identity_Size
<1> HIDE DEF wt, a, z, g, bs, u
<1>5. bs \in Bytes /\ Len(bs) = z + Len(u) /\ (Fits(bs) => Scan(wt, bs) = Found(g, u))
  BY <1>1, <1>2, <1>3, MessageFound
<1> QED
  BY <1>3, <1>4, <1>5 DEF bs, g, wt, u

(* The pulsar form of it.                                                  *)
LEMMA Identity_Back ==
  ASSUME NEW m \in IdentitySet
  PROVE  /\ Identity_marshal(m) \in Bytes /\ Len(Identity_marshal(m)) = Identity_size(m)
         /\ Fits(Identity_marshal(m)) => Identity_unmarshal(Identity_marshal(m)) = Ok(m, 0)
<1> DEFINE wt == <<2, 2, 0>>
           g == Identity_Row(m)
           bs == Identity_marshal(m)
<1>1. bs \in Bytes /\ Len(bs) = Identity_size(m) /\ (Fits(bs) => Scan(wt, bs) = Found(g, m.unknown))
  BY Identity_Found
<1> HIDE DEF wt, g, bs
<1>2. ASSUME Fits(bs)
      PROVE  Identity_unmarshal(bs) = Ok(m, 0)
  <2> DEFINE s == Scan(wt, bs)
  <2>1. s = Found(g, m.unknown)
    BY <1>1, <1>2
  <2>2. s.st = "ok" /\ s.fields = g /\ s.unknown = m.unknown
    BY <2>1 DEF Found
  <2>3. Identity_unmarshal(bs) = IF s.st = "ok" THEN
          Ok([address |-> StringOf(s, 1), idHash |-> StringOf(s, 2), createdAt |-> Int64Of(s, 3),
            unknown |-> s.unknown], 0) ELSE s
    BY DEF Identity_unmarshal, Then, wt
  <2> HIDE DEF s
  <2>4. StringOf(s, 1) = m.address
    <3>1. s.fields[1] = StringValues(m.address) /\ m.address \in Bytes
      BY <2>2 DEF g, Identity_Row, IdentitySet
    <3> QED
      BY <3>1, StringBack
  <2>5. StringOf(s, 2) = m.idHash
    <3>1. s.fields[2] = StringValues(m.idHash) /\ m.idHash \in Bytes
      BY <2>2 DEF g, Identity_Row, IdentitySet
    <3> QED
      BY <3>1, StringBack
  <2>6. Int64Of(s, 3) = m.createdAt
    <3>1. s.fields[3] = NumberValues(m.createdAt) /\ m.createdAt \in Int64
      BY <2>2 DEF g, Identity_Row, IdentitySet
    <3> QED
      BY <3>1, Int64Back
  <2>7. m = [address |-> m.address, idHash |-> m.idHash, createdAt |-> m.createdAt,
      unknown |-> m.unknown]
    BY DEF IdentitySet
  <2> QED
    BY <2>2, <2>3, <2>4, <2>5, <2>6, <2>7
<1> QED
  BY <1>1, <1>2 DEF bs

(* What a scan finds in the gogo form.                                     *)
LEMMA Identity_PlainFound ==
  ASSUME NEW m \in PlainIdentitySet
  PROVE  /\ Identity_MarshalToSizedBuffer(m) \in Bytes
         /\ Len(Identity_MarshalToSizedBuffer(m)) = Identity_Size(m)
         /\ Fits(Identity_MarshalToSizedBuffer(m)) =>
              Scan(<<2, 2, 0>>, Identity_MarshalToSizedBuffer(m)) = Found(Identity_Row(m), <<>>)
<1> DEFINE wt == <<2, 2, 0>>
           a == Identity_MarshalToSizedBuffer(m)
           z == Identity_Size(m)
           g == Identity_Row(m)
           bs == Identity_MarshalToSizedBuffer(m)
<1>1. Writes(wt, a, z, g)
  <2>1. m.address \in Bytes /\ m.idHash \in Bytes /\ m.createdAt \in Int64
    BY DEF PlainIdentitySet
  <2> QED
    BY <2>1, Identity_Writes
<1>2. IsTable(wt)
  BY Tables
<1>3. bs = a
  OBVIOUS
<1> HIDE DEF wt, a, z, g, bs
<1>5. a \in Bytes /\ Len(a) = z /\ (Fits(a) => Scan(wt, a) = Found(g, <<>>))
  BY <1>1, <1>2, PlainFound
<1> QED
  BY <1>3, <1>5 DEF bs, g, wt, z

(* The gogo form of it.                                                    *)
LEMMA Identity_PlainBack ==
  ASSUME NEW m \in PlainIdentitySet
  PROVE  /\ Identity_MarshalToSizedBuffer(m) \in Bytes
         /\ Len(Identity_MarshalToSizedBuffer(m)) = Identity_Size(m)
         /\ Fits(Identity_MarshalToSizedBuffer(m))
            => Identity_Unmarshal(Identity_MarshalToSizedBuffer(m)) = Ok(m, 0)
<1> DEFINE wt == <<2, 2, 0>>
           g == Identity_Row(m)
           bs == Identity_MarshalToSizedBuffer(m)
<1>1. bs \in Bytes /\ Len(bs) = Identity_Size(m) /\ (Fits(bs) => Scan(wt, bs) = Found(g, <<>>))
  BY Identity_PlainFound
<1> HIDE DEF wt, g, bs
<1>2. ASSUME Fits(bs)
      PROVE  Identity_Unmarshal(bs) = Ok(m, 0)
  <2> DEFINE s == Scan(wt, bs)
  <2>1. s = Found(g, <<>>)
    BY <1>1, <1>2
  <2>2. s.st = "ok" /\ s.fields = g /\ s.unknown = <<>>
    BY <2>1 DEF Found
  <2>3. Identity_Unmarshal(bs) = IF s.st = "ok" THEN
          Ok([address |-> StringOf(s, 1), idHash |-> StringOf(s, 2), createdAt |-> Int64Of(s, 3)],
            0) ELSE s
    BY DEF Identity_Unmarshal, Then, wt
  <2> HIDE DEF s
  <2>4. StringOf(s, 1) = m.address
    <3>1. s.fields[1] = StringValues(m.address) /\ m.address \in Bytes
      BY <2>2 DEF g, Identity_Row, PlainIdentitySet
    <3> QED
      BY <3>1, StringBack
  <2>5. StringOf(s, 2) = m.idHash
    <3>1. s.fields[2] = StringValues(m.idHash) /\ m.idHash \in Bytes
      BY <2>2 DEF g, Identity_Row, PlainIdentitySet
    <3> QED
      BY <3>1, StringBack
  <2>6. Int64Of(s, 3) = m.createdAt
    <3>1. s.fields[3] = NumberValues(m.createdAt) /\ m.createdAt \in Int64
      BY <2>2 DEF g, Identity_Row, PlainIdentitySet
    <3> QED
      BY <3>1, Int64Back
  <2>7. m = [address |-> m.address, idHash |-> m.idHash, createdAt |-> m.createdAt]
    BY DEF PlainIdentitySet
  <2> QED
    BY <2>2, <2>3, <2>4, <2>5, <2>6, <2>7
<1> QED
  BY <1>1, <1>2 DEF bs

(* What a scan finds in the pulsar form.                                   *)
LEMMA PageRequest_Found ==
  ASSUME NEW m \in PageRequestSet
  PROVE  /\ PageRequest_marshal(m) \in Bytes /\ Len(PageRequest_marshal(m)) = PageRequest_size(m)
         /\ Fits(PageRequest_marshal(m)) =>
              Scan(<<2, 0, 0, 0, 0>>, PageRequest_marshal(m)) = Found(PageRequest_Row(m), m.unknown)
<1> DEFINE wt == <<2, 0, 0, 0, 0>>
           a == PageRequest_MarshalToSizedBuffer(m)
           z == PageRequest_Size(m)
           g == PageRequest_Row(m)
           bs == PageRequest_marshal(m)
           u == m.unknown
<1>1. Writes(wt, a, z, g)
  <2>1. m.key \in Bytes /\ m.offset \in Word /\ m.limit \in Word /\ m.countTotal \in BOOLEAN
      /\ m.reverse \in BOOLEAN
    BY DEF PageRequestSet
  <2> QED
    BY <2>1, PageRequest_Writes
<1>2. IsTable(wt) /\ u \in Kept(wt)
  BY Tables DEF PageRequestSet
<1>3. bs = Fill(z + Len(u), a \o u)
  BY DEF PageRequest_marshal, PageRequest_size, PageRequest_MarshalToSizedBuffer, PageRequest_Size
<1>4. PageRequest_size(m) = z + Len(u)
  BY DEF PageRequest_size, PageRequest_Size
<1> HIDE DEF wt, a, z, g, bs, u
<1>5. bs \in Bytes /\ Len(bs) = z + Len(u) /\ (Fits(bs) => Scan(wt, bs) = Found(g, u))
  BY <1>1, <1>2, <1>3, MessageFound
<1> QED
  BY <1>3, <1>4, <1>5 DEF bs, g, wt, u

(* The pulsar form of it.                                                  *)
LEMMA PageRequest_Back ==
  ASSUME NEW m \in PageRequestSet
  PROVE  /\ PageRequest_marshal(m) \in Bytes /\ Len(PageRequest_marshal(m)) = PageRequest_size(m)
         /\ Fits(PageRequest_marshal(m)) => PageRequest_unmarshal(PageRequest_marshal(m)) = Ok(m, 0)
<1> DEFINE wt == <<2, 0, 0, 0, 0>>
           g == PageRequest_Row(m)
           bs == PageRequest_marshal(m)
<1>1. bs \in Bytes /\ Len(bs) = PageRequest_size(m)
    /\ (Fits(bs) => Scan(wt, bs) = Found(g, m.unknown))
  BY PageRequest_Found
<1> HIDE DEF wt, g, bs
<1>2. ASSUME Fits(bs)
      PROVE  PageRequest_unmarshal(bs) = Ok(m, 0)
  <2> DEFINE s == Scan(wt, bs)
  <2>1. s = Found(g, m.unknown)
    BY <1>1, <1>2
  <2>2. s.st = "ok" /\ s.fields = g /\ s.unknown = m.unknown
    BY <2>1 DEF Found
  <2>3. PageRequest_unmarshal(bs) = IF s.st = "ok" THEN
          Ok([key |-> StringOf(s, 1), offset |-> LastOf(s, 2, 0), limit |-> LastOf(s, 3, 0),
            countTotal |-> BoolOf(s, 4), reverse |-> BoolOf(s, 5), unknown |-> s.unknown], 0) ELSE s
    BY DEF PageRequest_unmarshal, Then, wt
  <2> HIDE DEF s
  <2>4. StringOf(s, 1) = m.key
    <3>1. s.fields[1] = StringValues(m.key) /\ m.key \in Bytes
      BY <2>2 DEF g, PageRequest_Row, PageRequestSet
    <3> QED
      BY <3>1, StringBack
  <2>5. LastOf(s, 2, 0) = m.offset
    <3>1. s.fields[2] = NumberValues(m.offset) /\ m.offset \in Word
      BY <2>2 DEF g, PageRequest_Row, PageRequestSet
    <3> QED
      BY <3>1, NumberBack
  <2>6. LastOf(s, 3, 0) = m.limit
    <3>1. s.fields[3] = NumberValues(m.limit) /\ m.limit \in Word
      BY <2>2 DEF g, PageRequest_Row, PageRequestSet
    <3> QED
      BY <3>1, NumberBack
  <2>7. BoolOf(s, 4) = m.countTotal
    <3>1. s.fields[4] = NumberValues(IF m.countTotal THEN 1 ELSE 0) /\ m.countTotal \in BOOLEAN
      BY <2>2 DEF g, PageRequest_Row, PageRequestSet, Bit
    <3> QED
      BY <3>1, BoolBack
  <2>8. BoolOf(s, 5) = m.reverse
    <3>1. s.fields[5] = NumberValues(IF m.reverse THEN 1 ELSE 0) /\ m.reverse \in BOOLEAN
      BY <2>2 DEF g, PageRequest_Row, PageRequestSet, Bit
    <3> QED
      BY <3>1, BoolBack
  <2>9. m = [key |-> m.key, offset |-> m.offset, limit |-> m.limit, countTotal |-> m.countTotal,
      reverse |-> m.reverse, unknown |-> m.unknown]
    BY DEF PageRequestSet
  <2> QED
    BY <2>2, <2>3, <2>4, <2>5, <2>6, <2>7, <2>8, <2>9
<1> QED
  BY <1>1, <1>2 DEF bs

(* What a scan finds in the gogo form.                                     *)
LEMMA PageRequest_PlainFound ==
  ASSUME NEW m \in PlainPageRequestSet
  PROVE  /\ PageRequest_MarshalToSizedBuffer(m) \in Bytes
         /\ Len(PageRequest_MarshalToSizedBuffer(m)) = PageRequest_Size(m)
         /\ Fits(PageRequest_MarshalToSizedBuffer(m)) =>
              Scan(<<2, 0, 0, 0, 0>>, PageRequest_MarshalToSizedBuffer(m)) =
                Found(PageRequest_Row(m), <<>>)
<1> DEFINE wt == <<2, 0, 0, 0, 0>>
           a == PageRequest_MarshalToSizedBuffer(m)
           z == PageRequest_Size(m)
           g == PageRequest_Row(m)
           bs == PageRequest_MarshalToSizedBuffer(m)
<1>1. Writes(wt, a, z, g)
  <2>1. m.key \in Bytes /\ m.offset \in Word /\ m.limit \in Word /\ m.countTotal \in BOOLEAN
      /\ m.reverse \in BOOLEAN
    BY DEF PlainPageRequestSet
  <2> QED
    BY <2>1, PageRequest_Writes
<1>2. IsTable(wt)
  BY Tables
<1>3. bs = a
  OBVIOUS
<1> HIDE DEF wt, a, z, g, bs
<1>5. a \in Bytes /\ Len(a) = z /\ (Fits(a) => Scan(wt, a) = Found(g, <<>>))
  BY <1>1, <1>2, PlainFound
<1> QED
  BY <1>3, <1>5 DEF bs, g, wt, z

(* The gogo form of it.                                                    *)
LEMMA PageRequest_PlainBack ==
  ASSUME NEW m \in PlainPageRequestSet
  PROVE  /\ PageRequest_MarshalToSizedBuffer(m) \in Bytes
         /\ Len(PageRequest_MarshalToSizedBuffer(m)) = PageRequest_Size(m)
         /\ Fits(PageRequest_MarshalToSizedBuffer(m))
            => PageRequest_Unmarshal(PageRequest_MarshalToSizedBuffer(m)) = Ok(m, 0)
<1> DEFINE wt == <<2, 0, 0, 0, 0>>
           g == PageRequest_Row(m)
           bs == PageRequest_MarshalToSizedBuffer(m)
<1>1. bs \in Bytes /\ Len(bs) = PageRequest_Size(m) /\ (Fits(bs) => Scan(wt, bs) = Found(g, <<>>))
  BY PageRequest_PlainFound
<1> HIDE DEF wt, g, bs
<1>2. ASSUME Fits(bs)
      PROVE  PageRequest_Unmarshal(bs) = Ok(m, 0)
  <2> DEFINE s == Scan(wt, bs)
  <2>1. s = Found(g, <<>>)
    BY <1>1, <1>2
  <2>2. s.st = "ok" /\ s.fields = g /\ s.unknown = <<>>
    BY <2>1 DEF Found
  <2>3. PageRequest_Unmarshal(bs) = IF s.st = "ok" THEN
          Ok([key |-> StringOf(s, 1), offset |-> LastOf(s, 2, 0), limit |-> LastOf(s, 3, 0),
            countTotal |-> BoolOf(s, 4), reverse |-> BoolOf(s, 5)], 0) ELSE s
    BY DEF PageRequest_Unmarshal, Then, wt
  <2> HIDE DEF s
  <2>4. StringOf(s, 1) = m.key
    <3>1. s.fields[1] = StringValues(m.key) /\ m.key \in Bytes
      BY <2>2 DEF g, PageRequest_Row, PlainPageRequestSet
    <3> QED
      BY <3>1, StringBack
  <2>5. LastOf(s, 2, 0) = m.offset
    <3>1. s.fields[2] = NumberValues(m.offset) /\ m.offset \in Word
      BY <2>2 DEF g, PageRequest_Row, PlainPageRequestSet
    <3> QED
      BY <3>1, NumberBack
  <2>6. LastOf(s, 3, 0) = m.limit
    <3>1. s.fields[3] = NumberValues(m.limit) /\ m.limit \in Word
      BY <2>2 DEF g, PageRequest_Row, PlainPageRequestSet
    <3> QED
      BY <3>1, NumberBack
  <2>7. BoolOf(s, 4) = m.countTotal
    <3>1. s.fields[4] = NumberValues(IF m.countTotal THEN 1 ELSE 0) /\ m.countTotal \in BOOLEAN
      BY <2>2 DEF g, PageRequest_Row, PlainPageRequestSet, Bit
    <3> QED
      BY <3>1, BoolBack
  <2>8. BoolOf(s, 5) = m.reverse
    <3>1. s.fields[5] = NumberValues(IF m.reverse THEN 1 ELSE 0) /\ m.reverse \in BOOLEAN
      BY <2>2 DEF g, PageRequest_Row, PlainPageRequestSet, Bit
    <3> QED
      BY <3>1, BoolBack
  <2>9. m = [key |-> m.key, offset |-> m.offset, limit |-> m.limit, countTotal |-> m.countTotal,
      reverse |-> m.reverse]
    BY DEF PlainPageRequestSet
  <2> QED
    BY <2>2, <2>3, <2>4, <2>5, <2>6, <2>7, <2>8, <2>9
<1> QED
  BY <1>1, <1>2 DEF bs

(* What a scan finds in the pulsar form.                                   *)
LEMMA PageResponse_Found ==
  ASSUME NEW m \in PageResponseSet
  PROVE  /\ PageResponse_marshal(m) \in Bytes /\ Len(PageResponse_marshal(m)) = PageResponse_size(m)
         /\ Fits(PageResponse_marshal(m)) =>
              Scan(<<2, 0>>, PageResponse_marshal(m)) = Found(PageResponse_Row(m), m.unknown)
<1> DEFINE wt == <<2, 0>>
           a == PageResponse_MarshalToSizedBuffer(m)
           z == PageResponse_Size(m)
           g == PageResponse_Row(m)
           bs == PageResponse_marshal(m)
           u == m.unknown
<1>1. Writes(wt, a, z, g)
  <2>1. m.nextKey \in Bytes /\ m.total \in Word
    BY DEF PageResponseSet
  <2> QED
    BY <2>1, PageResponse_Writes
<1>2. IsTable(wt) /\ u \in Kept(wt)
  BY Tables DEF PageResponseSet
<1>3. bs = Fill(z + Len(u), a \o u)
  BY DEF PageResponse_marshal, PageResponse_size, PageResponse_MarshalToSizedBuffer,
     PageResponse_Size
<1>4. PageResponse_size(m) = z + Len(u)
  BY DEF PageResponse_size, PageResponse_Size
<1> HIDE DEF wt, a, z, g, bs, u
<1>5. bs \in Bytes /\ Len(bs) = z + Len(u) /\ (Fits(bs) => Scan(wt, bs) = Found(g, u))
  BY <1>1, <1>2, <1>3, MessageFound
<1> QED
  BY <1>3, <1>4, <1>5 DEF bs, g, wt, u

(* The pulsar form of it.                                                  *)
LEMMA PageResponse_Back ==
  ASSUME NEW m \in PageResponseSet
  PROVE  /\ PageResponse_marshal(m) \in Bytes /\ Len(PageResponse_marshal(m)) = PageResponse_size(m)
         /\ Fits(PageResponse_marshal(m))
            => PageResponse_unmarshal(PageResponse_marshal(m)) = Ok(m, 0)
<1> DEFINE wt == <<2, 0>>
           g == PageResponse_Row(m)
           bs == PageResponse_marshal(m)
<1>1. bs \in Bytes /\ Len(bs) = PageResponse_size(m)
    /\ (Fits(bs) => Scan(wt, bs) = Found(g, m.unknown))
  BY PageResponse_Found
<1> HIDE DEF wt, g, bs
<1>2. ASSUME Fits(bs)
      PROVE  PageResponse_unmarshal(bs) = Ok(m, 0)
  <2> DEFINE s == Scan(wt, bs)
  <2>1. s = Found(g, m.unknown)
    BY <1>1, <1>2
  <2>2. s.st = "ok" /\ s.fields = g /\ s.unknown = m.unknown
    BY <2>1 DEF Found
  <2>3. PageResponse_unmarshal(bs) = IF s.st = "ok" THEN
          Ok([nextKey |-> StringOf(s, 1), total |-> LastOf(s, 2, 0), unknown |-> s.unknown], 0)
            ELSE s
    BY DEF PageResponse_unmarshal, Then, wt
  <2> HIDE DEF s
  <2>4. StringOf(s, 1) = m.nextKey
    <3>1. s.fields[1] = StringValues(m.nextKey) /\ m.nextKey \in Bytes
      BY <2>2 DEF g, PageResponse_Row, PageResponseSet
    <3> QED
      BY <3>1, StringBack
  <2>5. LastOf(s, 2, 0) = m.total
    <3>1. s.fields[2] = NumberValues(m.total) /\ m.total \in Word
      BY <2>2 DEF g, PageResponse_Row, PageResponseSet
    <3> QED
      BY <3>1, NumberBack
  <2>6. m = [nextKey |-> m.nextKey, total |-> m.total, unknown |-> m.unknown]
    BY DEF PageResponseSet
  <2> QED
    BY <2>2, <2>3, <2>4, <2>5, <2>6
<1> QED
  BY <1>1, <1>2 DEF bs

(* What a scan finds in the gogo form.                                     *)
LEMMA PageResponse_PlainFound ==
  ASSUME NEW m \in PlainPageResponseSet
  PROVE  /\ PageResponse_MarshalToSizedBuffer(m) \in Bytes
         /\ Len(PageResponse_MarshalToSizedBuffer(m)) = PageResponse_Size(m)
         /\ Fits(PageResponse_MarshalToSizedBuffer(m)) =>
              Scan(<<2, 0>>, PageResponse_MarshalToSizedBuffer(m)) =
                Found(PageResponse_Row(m), <<>>)
<1> DEFINE wt == <<2, 0>>
           a == PageResponse_MarshalToSizedBuffer(m)
           z == PageResponse_Size(m)
           g == PageResponse_Row(m)
           bs == PageResponse_MarshalToSizedBuffer(m)
<1>1. Writes(wt, a, z, g)
  <2>1. m.nextKey \in Bytes /\ m.total \in Word
    BY DEF PlainPageResponseSet
  <2> QED
    BY <2>1, PageResponse_Writes
<1>2. IsTable(wt)
  BY Tables
<1>3. bs = a
  OBVIOUS
<1> HIDE DEF wt, a, z, g, bs
<1>5. a \in Bytes /\ Len(a) = z /\ (Fits(a) => Scan(wt, a) = Found(g, <<>>))
  BY <1>1, <1>2, PlainFound
<1> QED
  BY <1>3, <1>5 DEF bs, g, wt, z

(* The gogo form of it.                                                    *)
LEMMA PageResponse_PlainBack ==
  ASSUME NEW m \in PlainPageResponseSet
  PROVE  /\ PageResponse_MarshalToSizedBuffer(m) \in Bytes
         /\ Len(PageResponse_MarshalToSizedBuffer(m)) = PageResponse_Size(m)
         /\ Fits(PageResponse_MarshalToSizedBuffer(m))
            => PageResponse_Unmarshal(PageResponse_MarshalToSizedBuffer(m)) = Ok(m, 0)
<1> DEFINE wt == <<2, 0>>
           g == PageResponse_Row(m)
           bs == PageResponse_MarshalToSizedBuffer(m)
<1>1. bs \in Bytes /\ Len(bs) = PageResponse_Size(m) /\ (Fits(bs) => Scan(wt, bs) = Found(g, <<>>))
  BY PageResponse_PlainFound
<1> HIDE DEF wt, g, bs
<1>2. ASSUME Fits(bs)
      PROVE  PageResponse_Unmarshal(bs) = Ok(m, 0)
  <2> DEFINE s == Scan(wt, bs)
  <2>1. s = Found(g, <<>>)
    BY <1>1, <1>2
  <2>2. s.st = "ok" /\ s.fields = g /\ s.unknown = <<>>
    BY <2>1 DEF Found
  <2>3. PageResponse_Unmarshal(bs) = IF s.st = "ok" THEN
          Ok([nextKey |-> StringOf(s, 1), total |-> LastOf(s, 2, 0)], 0) ELSE s
    BY DEF PageResponse_Unmarshal, Then, wt
  <2> HIDE DEF s
  <2>4. StringOf(s, 1) = m.nextKey
    <3>1. s.fields[1] = StringValues(m.nextKey) /\ m.nextKey \in Bytes
      BY <2>2 DEF g, PageResponse_Row, PlainPageResponseSet
    <3> QED
      BY <3>1, StringBack
  <2>5. LastOf(s, 2, 0) = m.total
    <3>1. s.fields[2] = NumberValues(m.total) /\ m.total \in Word
      BY <2>2 DEF g, PageResponse_Row, PlainPageResponseSet
    <3> QED
      BY <3>1, NumberBack
  <2>6. m = [nextKey |-> m.nextKey, total |-> m.total]
    BY DEF PlainPageResponseSet
  <2> QED
    BY <2>2, <2>3, <2>4, <2>5, <2>6
<1> QED
  BY <1>1, <1>2 DEF bs

-----------------------------------------------------------------------------
(* Fields that are messages are read as they were written.                 *)
(* A list of them in the pulsar form.                                      *)
Params_Encoded(ms) == [k \in DOMAIN ms |-> Params_marshal(ms[k])]

(* What the pulsar marshaller writes of them is found.                     *)
LEMMA Params_ListWrites ==
  ASSUME NEW wt, IsTable(wt), NEW n \in 1 .. 7, n \in DOMAIN wt, wt[n] = 2,
         NEW ms \in Seq(ParamsSet)
  PROVE  Writes(wt, MessagesField(n, Params_marshal, ms), MessagesSize(Params_size, ms),
                Only(wt, n, Params_Encoded(ms)))
<1> DEFINE d == Params_Encoded(ms)
           sizes == [k \in DOMAIN ms |-> DelimitedSize(Params_size(ms[k]))]
           parts == [k \in DOMAIN ms |-> Delimited(n, Params_marshal(ms[k]))]
           dom == DOMAIN ms
<1>1. DOMAIN d = DOMAIN ms /\ \A k \in DOMAIN ms : d[k] = Params_marshal(ms[k])
  BY DEF Params_Encoded
<1>2. \A k \in DOMAIN ms : Params_marshal(ms[k]) \in Bytes
    /\ Len(Params_marshal(ms[k])) = Params_size(ms[k])
  <2>1. \A k \in DOMAIN ms : ms[k] \in ParamsSet
    OBVIOUS
  <2> QED
    BY <2>1, Params_Back
<1>3. d \in Seq(Bytes)
  <2>1. \A k \in DOMAIN ms : d[k] \in Bytes
    BY <1>1, <1>2
  <2>2. DOMAIN ms = 1 .. Len(ms) /\ Len(ms) \in Nat
    OBVIOUS
  <2>3. d = [k \in DOMAIN ms |-> d[k]]
    BY DEF Params_Encoded
  <2> HIDE DEF d
  <2> QED
    BY <2>1, <2>2, <2>3
<1>4. MessagesField(n, Params_marshal, ms) = Concatenated(parts)
  BY DEF MessagesField
<1>5. parts = DelimitedAll(n, d)
  BY <1>1 DEF DelimitedAll
<1>6. sizes = SizesOf(d)
  BY <1>1, <1>2 DEF SizesOf
<1>7. MessagesSize(Params_size, ms) = SumOver(sizes, dom)
  BY DEF MessagesSize, SumOver, MapThenSumSet, MapThenFoldSet
<1> HIDE DEF d, sizes, parts, dom
<1>8. Writes(wt, Concatenated(DelimitedAll(n, d)), SumOver(SizesOf(d), DOMAIN d),
             Only(wt, n, d))
  BY <1>3, MessagesWrite
<1>9. SumOver(sizes, dom) = SumOver(SizesOf(d), DOMAIN d)
  BY <1>1, <1>6 DEF dom
<1> QED
  BY <1>4, <1>5, <1>7, <1>8, <1>9 DEF d

(* A list of them in the gogo form.                                        *)
Params_PlainEncoded(ms) == [k \in DOMAIN ms |-> Params_MarshalToSizedBuffer(ms[k])]

(* What the gogo marshaller writes of them is found.                       *)
LEMMA Params_PlainListWrites ==
  ASSUME NEW wt, IsTable(wt), NEW n \in 1 .. 7, n \in DOMAIN wt, wt[n] = 2,
         NEW ms \in Seq(PlainParamsSet)
  PROVE  Writes(wt, MessagesField(n, Params_MarshalToSizedBuffer, ms), MessagesSize(Params_Size,
         ms),
                Only(wt, n, Params_PlainEncoded(ms)))
<1> DEFINE d == Params_PlainEncoded(ms)
           sizes == [k \in DOMAIN ms |-> DelimitedSize(Params_Size(ms[k]))]
           parts == [k \in DOMAIN ms |-> Delimited(n, Params_MarshalToSizedBuffer(ms[k]))]
           dom == DOMAIN ms
<1>1. DOMAIN d = DOMAIN ms /\ \A k \in DOMAIN ms : d[k] = Params_MarshalToSizedBuffer(ms[k])
  BY DEF Params_PlainEncoded
<1>2. \A k \in DOMAIN ms : Params_MarshalToSizedBuffer(ms[k]) \in Bytes
    /\ Len(Params_MarshalToSizedBuffer(ms[k])) = Params_Size(ms[k])
  <2>1. \A k \in DOMAIN ms : ms[k] \in PlainParamsSet
    OBVIOUS
  <2> QED
    BY <2>1, Params_PlainBack
<1>3. d \in Seq(Bytes)
  <2>1. \A k \in DOMAIN ms : d[k] \in Bytes
    BY <1>1, <1>2
  <2>2. DOMAIN ms = 1 .. Len(ms) /\ Len(ms) \in Nat
    OBVIOUS
  <2>3. d = [k \in DOMAIN ms |-> d[k]]
    BY DEF Params_PlainEncoded
  <2> HIDE DEF d
  <2> QED
    BY <2>1, <2>2, <2>3
<1>4. MessagesField(n, Params_MarshalToSizedBuffer, ms) = Concatenated(parts)
  BY DEF MessagesField
<1>5. parts = DelimitedAll(n, d)
  BY <1>1 DEF DelimitedAll
<1>6. sizes = SizesOf(d)
  BY <1>1, <1>2 DEF SizesOf
<1>7. MessagesSize(Params_Size, ms) = SumOver(sizes, dom)
  BY DEF MessagesSize, SumOver, MapThenSumSet, MapThenFoldSet
<1> HIDE DEF d, sizes, parts, dom
<1>8. Writes(wt, Concatenated(DelimitedAll(n, d)), SumOver(SizesOf(d), DOMAIN d),
             Only(wt, n, d))
  BY <1>3, MessagesWrite
<1>9. SumOver(sizes, dom) = SumOver(SizesOf(d), DOMAIN d)
  BY <1>1, <1>6 DEF dom
<1> QED
  BY <1>4, <1>5, <1>7, <1>8, <1>9 DEF d

(* A list of them in the pulsar form.                                      *)
Identity_Encoded(ms) == [k \in DOMAIN ms |-> Identity_marshal(ms[k])]

(* What the pulsar marshaller writes of them is found.                     *)
LEMMA Identity_ListWrites ==
  ASSUME NEW wt, IsTable(wt), NEW n \in 1 .. 7, n \in DOMAIN wt, wt[n] = 2,
         NEW ms \in Seq(IdentitySet)
  PROVE  Writes(wt, MessagesField(n, Identity_marshal, ms), MessagesSize(Identity_size, ms),
                Only(wt, n, Identity_Encoded(ms)))
<1> DEFINE d == Identity_Encoded(ms)
           sizes == [k \in DOMAIN ms |-> DelimitedSize(Identity_size(ms[k]))]
           parts == [k \in DOMAIN ms |-> Delimited(n, Identity_marshal(ms[k]))]
           dom == DOMAIN ms
<1>1. DOMAIN d = DOMAIN ms /\ \A k \in DOMAIN ms : d[k] = Identity_marshal(ms[k])
  BY DEF Identity_Encoded
<1>2. \A k \in DOMAIN ms : Identity_marshal(ms[k]) \in Bytes
    /\ Len(Identity_marshal(ms[k])) = Identity_size(ms[k])
  <2>1. \A k \in DOMAIN ms : ms[k] \in IdentitySet
    OBVIOUS
  <2> QED
    BY <2>1, Identity_Back
<1>3. d \in Seq(Bytes)
  <2>1. \A k \in DOMAIN ms : d[k] \in Bytes
    BY <1>1, <1>2
  <2>2. DOMAIN ms = 1 .. Len(ms) /\ Len(ms) \in Nat
    OBVIOUS
  <2>3. d = [k \in DOMAIN ms |-> d[k]]
    BY DEF Identity_Encoded
  <2> HIDE DEF d
  <2> QED
    BY <2>1, <2>2, <2>3
<1>4. MessagesField(n, Identity_marshal, ms) = Concatenated(parts)
  BY DEF MessagesField
<1>5. parts = DelimitedAll(n, d)
  BY <1>1 DEF DelimitedAll
<1>6. sizes = SizesOf(d)
  BY <1>1, <1>2 DEF SizesOf
<1>7. MessagesSize(Identity_size, ms) = SumOver(sizes, dom)
  BY DEF MessagesSize, SumOver, MapThenSumSet, MapThenFoldSet
<1> HIDE DEF d, sizes, parts, dom
<1>8. Writes(wt, Concatenated(DelimitedAll(n, d)), SumOver(SizesOf(d), DOMAIN d),
             Only(wt, n, d))
  BY <1>3, MessagesWrite
<1>9. SumOver(sizes, dom) = SumOver(SizesOf(d), DOMAIN d)
  BY <1>1, <1>6 DEF dom
<1> QED
  BY <1>4, <1>5, <1>7, <1>8, <1>9 DEF d

(* A list of them in the gogo form.                                        *)
Identity_PlainEncoded(ms) == [k \in DOMAIN ms |-> Identity_MarshalToSizedBuffer(ms[k])]

(* What the gogo marshaller writes of them is found.                       *)
LEMMA Identity_PlainListWrites ==
  ASSUME NEW wt, IsTable(wt), NEW n \in 1 .. 7, n \in DOMAIN wt, wt[n] = 2,
         NEW ms \in Seq(PlainIdentitySet)
  PROVE  Writes(wt, MessagesField(n, Identity_MarshalToSizedBuffer, ms),
         MessagesSize(Identity_Size, ms),
                Only(wt, n, Identity_PlainEncoded(ms)))
<1> DEFINE d == Identity_PlainEncoded(ms)
           sizes == [k \in DOMAIN ms |-> DelimitedSize(Identity_Size(ms[k]))]
           parts == [k \in DOMAIN ms |-> Delimited(n, Identity_MarshalToSizedBuffer(ms[k]))]
           dom == DOMAIN ms
<1>1. DOMAIN d = DOMAIN ms /\ \A k \in DOMAIN ms : d[k] = Identity_MarshalToSizedBuffer(ms[k])
  BY DEF Identity_PlainEncoded
<1>2. \A k \in DOMAIN ms : Identity_MarshalToSizedBuffer(ms[k]) \in Bytes
    /\ Len(Identity_MarshalToSizedBuffer(ms[k])) = Identity_Size(ms[k])
  <2>1. \A k \in DOMAIN ms : ms[k] \in PlainIdentitySet
    OBVIOUS
  <2> QED
    BY <2>1, Identity_PlainBack
<1>3. d \in Seq(Bytes)
  <2>1. \A k \in DOMAIN ms : d[k] \in Bytes
    BY <1>1, <1>2
  <2>2. DOMAIN ms = 1 .. Len(ms) /\ Len(ms) \in Nat
    OBVIOUS
  <2>3. d = [k \in DOMAIN ms |-> d[k]]
    BY DEF Identity_PlainEncoded
  <2> HIDE DEF d
  <2> QED
    BY <2>1, <2>2, <2>3
<1>4. MessagesField(n, Identity_MarshalToSizedBuffer, ms) = Concatenated(parts)
  BY DEF MessagesField
<1>5. parts = DelimitedAll(n, d)
  BY <1>1 DEF DelimitedAll
<1>6. sizes = SizesOf(d)
  BY <1>1, <1>2 DEF SizesOf
<1>7. MessagesSize(Identity_Size, ms) = SumOver(sizes, dom)
  BY DEF MessagesSize, SumOver, MapThenSumSet, MapThenFoldSet
<1> HIDE DEF d, sizes, parts, dom
<1>8. Writes(wt, Concatenated(DelimitedAll(n, d)), SumOver(SizesOf(d), DOMAIN d),
             Only(wt, n, d))
  BY <1>3, MessagesWrite
<1>9. SumOver(sizes, dom) = SumOver(SizesOf(d), DOMAIN d)
  BY <1>1, <1>6 DEF dom
<1> QED
  BY <1>4, <1>5, <1>7, <1>8, <1>9 DEF d

(* A list of them in the pulsar form.                                      *)
PageRequest_Encoded(ms) == [k \in DOMAIN ms |-> PageRequest_marshal(ms[k])]

(* What the pulsar marshaller writes of them is found.                     *)
LEMMA PageRequest_ListWrites ==
  ASSUME NEW wt, IsTable(wt), NEW n \in 1 .. 7, n \in DOMAIN wt, wt[n] = 2,
         NEW ms \in Seq(PageRequestSet)
  PROVE  Writes(wt, MessagesField(n, PageRequest_marshal, ms), MessagesSize(PageRequest_size, ms),
                Only(wt, n, PageRequest_Encoded(ms)))
<1> DEFINE d == PageRequest_Encoded(ms)
           sizes == [k \in DOMAIN ms |-> DelimitedSize(PageRequest_size(ms[k]))]
           parts == [k \in DOMAIN ms |-> Delimited(n, PageRequest_marshal(ms[k]))]
           dom == DOMAIN ms
<1>1. DOMAIN d = DOMAIN ms /\ \A k \in DOMAIN ms : d[k] = PageRequest_marshal(ms[k])
  BY DEF PageRequest_Encoded
<1>2. \A k \in DOMAIN ms : PageRequest_marshal(ms[k]) \in Bytes
    /\ Len(PageRequest_marshal(ms[k])) = PageRequest_size(ms[k])
  <2>1. \A k \in DOMAIN ms : ms[k] \in PageRequestSet
    OBVIOUS
  <2> QED
    BY <2>1, PageRequest_Back
<1>3. d \in Seq(Bytes)
  <2>1. \A k \in DOMAIN ms : d[k] \in Bytes
    BY <1>1, <1>2
  <2>2. DOMAIN ms = 1 .. Len(ms) /\ Len(ms) \in Nat
    OBVIOUS
  <2>3. d = [k \in DOMAIN ms |-> d[k]]
    BY DEF PageRequest_Encoded
  <2> HIDE DEF d
  <2> QED
    BY <2>1, <2>2, <2>3
<1>4. MessagesField(n, PageRequest_marshal, ms) = Concatenated(parts)
  BY DEF MessagesField
<1>5. parts = DelimitedAll(n, d)
  BY <1>1 DEF DelimitedAll
<1>6. sizes = SizesOf(d)
  BY <1>1, <1>2 DEF SizesOf
<1>7. MessagesSize(PageRequest_size, ms) = SumOver(sizes, dom)
  BY DEF MessagesSize, SumOver, MapThenSumSet, MapThenFoldSet
<1> HIDE DEF d, sizes, parts, dom
<1>8. Writes(wt, Concatenated(DelimitedAll(n, d)), SumOver(SizesOf(d), DOMAIN d),
             Only(wt, n, d))
  BY <1>3, MessagesWrite
<1>9. SumOver(sizes, dom) = SumOver(SizesOf(d), DOMAIN d)
  BY <1>1, <1>6 DEF dom
<1> QED
  BY <1>4, <1>5, <1>7, <1>8, <1>9 DEF d

(* A list of them in the gogo form.                                        *)
PageRequest_PlainEncoded(ms) == [k \in DOMAIN ms |-> PageRequest_MarshalToSizedBuffer(ms[k])]

(* What the gogo marshaller writes of them is found.                       *)
LEMMA PageRequest_PlainListWrites ==
  ASSUME NEW wt, IsTable(wt), NEW n \in 1 .. 7, n \in DOMAIN wt, wt[n] = 2,
         NEW ms \in Seq(PlainPageRequestSet)
  PROVE  Writes(wt, MessagesField(n, PageRequest_MarshalToSizedBuffer, ms),
         MessagesSize(PageRequest_Size, ms),
                Only(wt, n, PageRequest_PlainEncoded(ms)))
<1> DEFINE d == PageRequest_PlainEncoded(ms)
           sizes == [k \in DOMAIN ms |-> DelimitedSize(PageRequest_Size(ms[k]))]
           parts == [k \in DOMAIN ms |-> Delimited(n, PageRequest_MarshalToSizedBuffer(ms[k]))]
           dom == DOMAIN ms
<1>1. DOMAIN d = DOMAIN ms /\ \A k \in DOMAIN ms : d[k] = PageRequest_MarshalToSizedBuffer(ms[k])
  BY DEF PageRequest_PlainEncoded
<1>2. \A k \in DOMAIN ms : PageRequest_MarshalToSizedBuffer(ms[k]) \in Bytes
    /\ Len(PageRequest_MarshalToSizedBuffer(ms[k])) = PageRequest_Size(ms[k])
  <2>1. \A k \in DOMAIN ms : ms[k] \in PlainPageRequestSet
    OBVIOUS
  <2> QED
    BY <2>1, PageRequest_PlainBack
<1>3. d \in Seq(Bytes)
  <2>1. \A k \in DOMAIN ms : d[k] \in Bytes
    BY <1>1, <1>2
  <2>2. DOMAIN ms = 1 .. Len(ms) /\ Len(ms) \in Nat
    OBVIOUS
  <2>3. d = [k \in DOMAIN ms |-> d[k]]
    BY DEF PageRequest_PlainEncoded
  <2> HIDE DEF d
  <2> QED
    BY <2>1, <2>2, <2>3
<1>4. MessagesField(n, PageRequest_MarshalToSizedBuffer, ms) = Concatenated(parts)
  BY DEF MessagesField
<1>5. parts = DelimitedAll(n, d)
  BY <1>1 DEF DelimitedAll
<1>6. sizes = SizesOf(d)
  BY <1>1, <1>2 DEF SizesOf
<1>7. MessagesSize(PageRequest_Size, ms) = SumOver(sizes, dom)
  BY DEF MessagesSize, SumOver, MapThenSumSet, MapThenFoldSet
<1> HIDE DEF d, sizes, parts, dom
<1>8. Writes(wt, Concatenated(DelimitedAll(n, d)), SumOver(SizesOf(d), DOMAIN d),
             Only(wt, n, d))
  BY <1>3, MessagesWrite
<1>9. SumOver(sizes, dom) = SumOver(SizesOf(d), DOMAIN d)
  BY <1>1, <1>6 DEF dom
<1> QED
  BY <1>4, <1>5, <1>7, <1>8, <1>9 DEF d

(* A list of them in the pulsar form.                                      *)
PageResponse_Encoded(ms) == [k \in DOMAIN ms |-> PageResponse_marshal(ms[k])]

(* What the pulsar marshaller writes of them is found.                     *)
LEMMA PageResponse_ListWrites ==
  ASSUME NEW wt, IsTable(wt), NEW n \in 1 .. 7, n \in DOMAIN wt, wt[n] = 2,
         NEW ms \in Seq(PageResponseSet)
  PROVE  Writes(wt, MessagesField(n, PageResponse_marshal, ms), MessagesSize(PageResponse_size, ms),
                Only(wt, n, PageResponse_Encoded(ms)))
<1> DEFINE d == PageResponse_Encoded(ms)
           sizes == [k \in DOMAIN ms |-> DelimitedSize(PageResponse_size(ms[k]))]
           parts == [k \in DOMAIN ms |-> Delimited(n, PageResponse_marshal(ms[k]))]
           dom == DOMAIN ms
<1>1. DOMAIN d = DOMAIN ms /\ \A k \in DOMAIN ms : d[k] = PageResponse_marshal(ms[k])
  BY DEF PageResponse_Encoded
<1>2. \A k \in DOMAIN ms : PageResponse_marshal(ms[k]) \in Bytes
    /\ Len(PageResponse_marshal(ms[k])) = PageResponse_size(ms[k])
  <2>1. \A k \in DOMAIN ms : ms[k] \in PageResponseSet
    OBVIOUS
  <2> QED
    BY <2>1, PageResponse_Back
<1>3. d \in Seq(Bytes)
  <2>1. \A k \in DOMAIN ms : d[k] \in Bytes
    BY <1>1, <1>2
  <2>2. DOMAIN ms = 1 .. Len(ms) /\ Len(ms) \in Nat
    OBVIOUS
  <2>3. d = [k \in DOMAIN ms |-> d[k]]
    BY DEF PageResponse_Encoded
  <2> HIDE DEF d
  <2> QED
    BY <2>1, <2>2, <2>3
<1>4. MessagesField(n, PageResponse_marshal, ms) = Concatenated(parts)
  BY DEF MessagesField
<1>5. parts = DelimitedAll(n, d)
  BY <1>1 DEF DelimitedAll
<1>6. sizes = SizesOf(d)
  BY <1>1, <1>2 DEF SizesOf
<1>7. MessagesSize(PageResponse_size, ms) = SumOver(sizes, dom)
  BY DEF MessagesSize, SumOver, MapThenSumSet, MapThenFoldSet
<1> HIDE DEF d, sizes, parts, dom
<1>8. Writes(wt, Concatenated(DelimitedAll(n, d)), SumOver(SizesOf(d), DOMAIN d),
             Only(wt, n, d))
  BY <1>3, MessagesWrite
<1>9. SumOver(sizes, dom) = SumOver(SizesOf(d), DOMAIN d)
  BY <1>1, <1>6 DEF dom
<1> QED
  BY <1>4, <1>5, <1>7, <1>8, <1>9 DEF d

(* A list of them in the gogo form.                                        *)
PageResponse_PlainEncoded(ms) == [k \in DOMAIN ms |-> PageResponse_MarshalToSizedBuffer(ms[k])]

(* What the gogo marshaller writes of them is found.                       *)
LEMMA PageResponse_PlainListWrites ==
  ASSUME NEW wt, IsTable(wt), NEW n \in 1 .. 7, n \in DOMAIN wt, wt[n] = 2,
         NEW ms \in Seq(PlainPageResponseSet)
  PROVE  Writes(wt, MessagesField(n, PageResponse_MarshalToSizedBuffer, ms),
         MessagesSize(PageResponse_Size, ms),
                Only(wt, n, PageResponse_PlainEncoded(ms)))
<1> DEFINE d == PageResponse_PlainEncoded(ms)
           sizes == [k \in DOMAIN ms |-> DelimitedSize(PageResponse_Size(ms[k]))]
           parts == [k \in DOMAIN ms |-> Delimited(n, PageResponse_MarshalToSizedBuffer(ms[k]))]
           dom == DOMAIN ms
<1>1. DOMAIN d = DOMAIN ms /\ \A k \in DOMAIN ms : d[k] = PageResponse_MarshalToSizedBuffer(ms[k])
  BY DEF PageResponse_PlainEncoded
<1>2. \A k \in DOMAIN ms : PageResponse_MarshalToSizedBuffer(ms[k]) \in Bytes
    /\ Len(PageResponse_MarshalToSizedBuffer(ms[k])) = PageResponse_Size(ms[k])
  <2>1. \A k \in DOMAIN ms : ms[k] \in PlainPageResponseSet
    OBVIOUS
  <2> QED
    BY <2>1, PageResponse_PlainBack
<1>3. d \in Seq(Bytes)
  <2>1. \A k \in DOMAIN ms : d[k] \in Bytes
    BY <1>1, <1>2
  <2>2. DOMAIN ms = 1 .. Len(ms) /\ Len(ms) \in Nat
    OBVIOUS
  <2>3. d = [k \in DOMAIN ms |-> d[k]]
    BY DEF PageResponse_PlainEncoded
  <2> HIDE DEF d
  <2> QED
    BY <2>1, <2>2, <2>3
<1>4. MessagesField(n, PageResponse_MarshalToSizedBuffer, ms) = Concatenated(parts)
  BY DEF MessagesField
<1>5. parts = DelimitedAll(n, d)
  BY <1>1 DEF DelimitedAll
<1>6. sizes = SizesOf(d)
  BY <1>1, <1>2 DEF SizesOf
<1>7. MessagesSize(PageResponse_Size, ms) = SumOver(sizes, dom)
  BY DEF MessagesSize, SumOver, MapThenSumSet, MapThenFoldSet
<1> HIDE DEF d, sizes, parts, dom
<1>8. Writes(wt, Concatenated(DelimitedAll(n, d)), SumOver(SizesOf(d), DOMAIN d),
             Only(wt, n, d))
  BY <1>3, MessagesWrite
<1>9. SumOver(sizes, dom) = SumOver(SizesOf(d), DOMAIN d)
  BY <1>1, <1>6 DEF dom
<1> QED
  BY <1>4, <1>5, <1>7, <1>8, <1>9 DEF d

(* A pointer to a message is read back.                                    *)
LEMMA TheParamsBack ==
  ASSUME NEW ms \in Pointer(ParamsSet), Readable(Params_Encoded(ms))
  PROVE  TheParams_unmarshal(Params_Encoded(ms)) = Ok(ms, 0)
<1> DEFINE u == [bs \in Buffers |-> Params_unmarshal(bs)]
           d == Params_Encoded(ms)
<1>1. DOMAIN d = DOMAIN ms /\ \A k \in DOMAIN ms : d[k] = Params_marshal(ms[k])
  BY DEF Params_Encoded
<1>2. ms \in Seq(ParamsSet) /\ Readable(d)
  BY PointerList
<1> HIDE DEF d
<1>3. d \in Seq(Buffers) /\ Concatenated(d) \in Buffers
      /\ \A k \in DOMAIN d : d[k] \in Buffers /\ d[k] \in Bytes /\ Fits(d[k])
  BY <1>2, ReadableOnes
<1>4. ASSUME NEW k \in DOMAIN ms
      PROVE  u[d[k]] = Ok(ms[k], 0)
  <2> DEFINE mk == ms[k]
             bk == Params_marshal(mk)
  <2>1. mk \in ParamsSet /\ d[k] = bk /\ bk \in Buffers /\ Fits(bk)
    BY <1>1, <1>2, <1>3
  <2>2. u[d[k]] = Params_unmarshal(bk)
    BY <2>1
  <2> HIDE DEF mk
  <2>3. Params_unmarshal(bk) = Ok(mk, 0)
    BY <2>1, Params_Back
  <2> QED
    BY <2>2, <2>3 DEF mk
<1>5. /\ \A k \in DOMAIN d : u[d[k]] = Params_unmarshal(d[k])
      /\ u[Concatenated(d)] = Params_unmarshal(Concatenated(d))
  BY <1>3
<1> HIDE DEF u
<1>6. TheParams_unmarshal(d) = OptionalOf(u, d)
  BY <1>5 DEF TheParams_unmarshal, Optional, Merged, Each, Then,
         EachOf, MergedOf, OptionalOf
<1>7. CASE ms = <<>>
  <2>1. d = <<>>
    BY <1>7 DEF d, Params_Encoded
  <2>2. OptionalOf(u, <<>>) = Ok(<<>>, 0)
    BY NoneBack
  <2> QED
    BY <1>6, <1>7, <2>1, <2>2 DEF d
<1>8. ASSUME NEW m \in ParamsSet, ms = <<m>>
      PROVE  TheParams_unmarshal(Params_Encoded(ms)) = Ok(ms, 0)
  <2> DEFINE x == d[1]
  <2>1. d = <<x>> /\ 1 \in DOMAIN ms /\ ms[1] = m
    BY <1>8 DEF d, Params_Encoded
  <2>2. x \in Bytes /\ u[x] = Ok(m, 0)
    BY <1>1, <1>3, <1>4, <2>1
  <2> HIDE DEF x
  <2>3. OptionalOf(u, <<x>>) = Ok(<<m>>, 0)
    BY <2>2, OneBack
  <2>4. OptionalOf(u, d) = Ok(ms, 0)
    BY <1>8, <2>1, <2>3
  <2> QED
    BY <1>6, <2>4 DEF d
<1>9. ms = <<>> \/ \E m \in ParamsSet : ms = <<m>>
  BY PointerList
<1> QED
  BY <1>7, <1>8, <1>9

(* A message held by value is read back.                                   *)
LEMMA TheParamsPlainBack ==
  ASSUME NEW m \in PlainParamsSet, Readable(Params_PlainEncoded(<<m>>))
  PROVE  TheParams_Unmarshal(Params_PlainEncoded(<<m>>)) = Ok(m, 0)
<1> DEFINE ms == <<m>>
           u == [bs \in Buffers |-> Params_Unmarshal(bs)]
           d == Params_PlainEncoded(ms)
<1>1. DOMAIN d = DOMAIN ms /\ \A k \in DOMAIN ms : d[k] = Params_MarshalToSizedBuffer(ms[k])
  BY DEF Params_PlainEncoded
<1>2. ms \in Seq(PlainParamsSet) /\ Readable(d)
  OBVIOUS
<1> HIDE DEF d
<1>3. d \in Seq(Buffers) /\ Concatenated(d) \in Buffers
      /\ \A k \in DOMAIN d : d[k] \in Buffers /\ d[k] \in Bytes /\ Fits(d[k])
  BY <1>2, ReadableOnes
<1>4. ASSUME NEW k \in DOMAIN ms
      PROVE  u[d[k]] = Ok(ms[k], 0)
  <2> DEFINE mk == ms[k]
             bk == Params_MarshalToSizedBuffer(mk)
  <2>1. mk \in PlainParamsSet /\ d[k] = bk /\ bk \in Buffers /\ Fits(bk)
    BY <1>1, <1>2, <1>3
  <2>2. u[d[k]] = Params_Unmarshal(bk)
    BY <2>1
  <2> HIDE DEF mk
  <2>3. Params_Unmarshal(bk) = Ok(mk, 0)
    BY <2>1, Params_PlainBack
  <2> QED
    BY <2>2, <2>3 DEF mk
<1>5. /\ \A k \in DOMAIN d : u[d[k]] = Params_Unmarshal(d[k])
      /\ u[Concatenated(d)] = Params_Unmarshal(Concatenated(d))
  BY <1>3
<1> HIDE DEF u
<1>6. TheParams_Unmarshal(d) = MergedOf(u, d)
  BY <1>5 DEF TheParams_Unmarshal, Merged, Each, Then, EachOf, MergedOf
<1>7. d = <<d[1]>> /\ d[1] \in Bytes /\ u[d[1]] = Ok(m, 0)
  <2>1. d = <<d[1]>> /\ 1 \in DOMAIN ms /\ ms[1] = m
    BY DEF d, Params_PlainEncoded
  <2>2. d[1] \in Bytes /\ u[d[1]] = Ok(ms[1], 0)
    BY <1>1, <1>3, <1>4, <2>1
  <2> QED
    BY <2>1, <2>2
<1>8. MergedOf(u, d) = Ok(m, 0)
  <2> DEFINE x == d[1]
  <2>1. x \in Bytes /\ u[x] = Ok(m, 0) /\ d = <<x>>
    BY <1>7
  <2> HIDE DEF x
  <2>2. MergedOf(u, <<x>>) = Ok(m, 0)
    BY <2>1, OneBack
  <2> QED
    BY <2>1, <2>2
<1> QED
  BY <1>6, <1>8 DEF d

(* A pointer to a message is read back.                                    *)
LEMMA TheIdentityBack ==
  ASSUME NEW ms \in Pointer(IdentitySet), Readable(Identity_Encoded(ms))
  PROVE  TheIdentity_unmarshal(Identity_Encoded(ms)) = Ok(ms, 0)
<1> DEFINE u == [bs \in Buffers |-> Identity_unmarshal(bs)]
           d == Identity_Encoded(ms)
<1>1. DOMAIN d = DOMAIN ms /\ \A k \in DOMAIN ms : d[k] = Identity_marshal(ms[k])
  BY DEF Identity_Encoded
<1>2. ms \in Seq(IdentitySet) /\ Readable(d)
  BY PointerList
<1> HIDE DEF d
<1>3. d \in Seq(Buffers) /\ Concatenated(d) \in Buffers
      /\ \A k \in DOMAIN d : d[k] \in Buffers /\ d[k] \in Bytes /\ Fits(d[k])
  BY <1>2, ReadableOnes
<1>4. ASSUME NEW k \in DOMAIN ms
      PROVE  u[d[k]] = Ok(ms[k], 0)
  <2> DEFINE mk == ms[k]
             bk == Identity_marshal(mk)
  <2>1. mk \in IdentitySet /\ d[k] = bk /\ bk \in Buffers /\ Fits(bk)
    BY <1>1, <1>2, <1>3
  <2>2. u[d[k]] = Identity_unmarshal(bk)
    BY <2>1
  <2> HIDE DEF mk
  <2>3. Identity_unmarshal(bk) = Ok(mk, 0)
    BY <2>1, Identity_Back
  <2> QED
    BY <2>2, <2>3 DEF mk
<1>5. /\ \A k \in DOMAIN d : u[d[k]] = Identity_unmarshal(d[k])
      /\ u[Concatenated(d)] = Identity_unmarshal(Concatenated(d))
  BY <1>3
<1> HIDE DEF u
<1>6. TheIdentity_unmarshal(d) = OptionalOf(u, d)
  BY <1>5 DEF TheIdentity_unmarshal, Optional, Merged, Each, Then,
         EachOf, MergedOf, OptionalOf
<1>7. CASE ms = <<>>
  <2>1. d = <<>>
    BY <1>7 DEF d, Identity_Encoded
  <2>2. OptionalOf(u, <<>>) = Ok(<<>>, 0)
    BY NoneBack
  <2> QED
    BY <1>6, <1>7, <2>1, <2>2 DEF d
<1>8. ASSUME NEW m \in IdentitySet, ms = <<m>>
      PROVE  TheIdentity_unmarshal(Identity_Encoded(ms)) = Ok(ms, 0)
  <2> DEFINE x == d[1]
  <2>1. d = <<x>> /\ 1 \in DOMAIN ms /\ ms[1] = m
    BY <1>8 DEF d, Identity_Encoded
  <2>2. x \in Bytes /\ u[x] = Ok(m, 0)
    BY <1>1, <1>3, <1>4, <2>1
  <2> HIDE DEF x
  <2>3. OptionalOf(u, <<x>>) = Ok(<<m>>, 0)
    BY <2>2, OneBack
  <2>4. OptionalOf(u, d) = Ok(ms, 0)
    BY <1>8, <2>1, <2>3
  <2> QED
    BY <1>6, <2>4 DEF d
<1>9. ms = <<>> \/ \E m \in IdentitySet : ms = <<m>>
  BY PointerList
<1> QED
  BY <1>7, <1>8, <1>9

(* A message held by value is read back.                                   *)
LEMMA TheIdentityPlainBack ==
  ASSUME NEW m \in PlainIdentitySet, Readable(Identity_PlainEncoded(<<m>>))
  PROVE  TheIdentity_Unmarshal(Identity_PlainEncoded(<<m>>)) = Ok(m, 0)
<1> DEFINE ms == <<m>>
           u == [bs \in Buffers |-> Identity_Unmarshal(bs)]
           d == Identity_PlainEncoded(ms)
<1>1. DOMAIN d = DOMAIN ms /\ \A k \in DOMAIN ms : d[k] = Identity_MarshalToSizedBuffer(ms[k])
  BY DEF Identity_PlainEncoded
<1>2. ms \in Seq(PlainIdentitySet) /\ Readable(d)
  OBVIOUS
<1> HIDE DEF d
<1>3. d \in Seq(Buffers) /\ Concatenated(d) \in Buffers
      /\ \A k \in DOMAIN d : d[k] \in Buffers /\ d[k] \in Bytes /\ Fits(d[k])
  BY <1>2, ReadableOnes
<1>4. ASSUME NEW k \in DOMAIN ms
      PROVE  u[d[k]] = Ok(ms[k], 0)
  <2> DEFINE mk == ms[k]
             bk == Identity_MarshalToSizedBuffer(mk)
  <2>1. mk \in PlainIdentitySet /\ d[k] = bk /\ bk \in Buffers /\ Fits(bk)
    BY <1>1, <1>2, <1>3
  <2>2. u[d[k]] = Identity_Unmarshal(bk)
    BY <2>1
  <2> HIDE DEF mk
  <2>3. Identity_Unmarshal(bk) = Ok(mk, 0)
    BY <2>1, Identity_PlainBack
  <2> QED
    BY <2>2, <2>3 DEF mk
<1>5. /\ \A k \in DOMAIN d : u[d[k]] = Identity_Unmarshal(d[k])
      /\ u[Concatenated(d)] = Identity_Unmarshal(Concatenated(d))
  BY <1>3
<1> HIDE DEF u
<1>6. TheIdentity_Unmarshal(d) = MergedOf(u, d)
  BY <1>5 DEF TheIdentity_Unmarshal, Merged, Each, Then, EachOf, MergedOf
<1>7. d = <<d[1]>> /\ d[1] \in Bytes /\ u[d[1]] = Ok(m, 0)
  <2>1. d = <<d[1]>> /\ 1 \in DOMAIN ms /\ ms[1] = m
    BY DEF d, Identity_PlainEncoded
  <2>2. d[1] \in Bytes /\ u[d[1]] = Ok(ms[1], 0)
    BY <1>1, <1>3, <1>4, <2>1
  <2> QED
    BY <2>1, <2>2
<1>8. MergedOf(u, d) = Ok(m, 0)
  <2> DEFINE x == d[1]
  <2>1. x \in Bytes /\ u[x] = Ok(m, 0) /\ d = <<x>>
    BY <1>7
  <2> HIDE DEF x
  <2>2. MergedOf(u, <<x>>) = Ok(m, 0)
    BY <2>1, OneBack
  <2> QED
    BY <2>1, <2>2
<1> QED
  BY <1>6, <1>8 DEF d

(* A list of identities is read back.                                      *)
LEMMA IdentitiesBack ==
  ASSUME NEW ms \in Seq(IdentitySet), Readable(Identity_Encoded(ms))
  PROVE  Identities_unmarshal(Identity_Encoded(ms)) = Ok(ms, 0)
<1> DEFINE u == [bs \in Buffers |-> Identity_unmarshal(bs)]
           d == Identity_Encoded(ms)
<1>1. DOMAIN d = DOMAIN ms /\ \A k \in DOMAIN ms : d[k] = Identity_marshal(ms[k])
  BY DEF Identity_Encoded
<1>2. ms \in Seq(IdentitySet) /\ Readable(d)
  OBVIOUS
<1> HIDE DEF d
<1>3. d \in Seq(Buffers) /\ Concatenated(d) \in Buffers
      /\ \A k \in DOMAIN d : d[k] \in Buffers /\ d[k] \in Bytes /\ Fits(d[k])
  BY <1>2, ReadableOnes
<1>4. ASSUME NEW k \in DOMAIN ms
      PROVE  u[d[k]] = Ok(ms[k], 0)
  <2> DEFINE mk == ms[k]
             bk == Identity_marshal(mk)
  <2>1. mk \in IdentitySet /\ d[k] = bk /\ bk \in Buffers /\ Fits(bk)
    BY <1>1, <1>2, <1>3
  <2>2. u[d[k]] = Identity_unmarshal(bk)
    BY <2>1
  <2> HIDE DEF mk
  <2>3. Identity_unmarshal(bk) = Ok(mk, 0)
    BY <2>1, Identity_Back
  <2> QED
    BY <2>2, <2>3 DEF mk
<1>5. /\ \A k \in DOMAIN d : u[d[k]] = Identity_unmarshal(d[k])
      /\ u[Concatenated(d)] = Identity_unmarshal(Concatenated(d))
  BY <1>3
<1> HIDE DEF u
<1>6. Identities_unmarshal(d) = EachOf(u, d)
  BY <1>5 DEF Identities_unmarshal, Each, EachOf
<1>7. ms = [k \in DOMAIN ms |-> ms[k]]
  OBVIOUS
<1>8. EachOf(u, d) = Ok(ms, 0)
  BY <1>1, <1>4, <1>7, EachBack
<1> QED
  BY <1>6, <1>8 DEF d

(* A list of identities is read back.                                      *)
LEMMA IdentitiesPlainBack ==
  ASSUME NEW ms \in Seq(PlainIdentitySet), Readable(Identity_PlainEncoded(ms))
  PROVE  Identities_Unmarshal(Identity_PlainEncoded(ms)) = Ok(ms, 0)
<1> DEFINE u == [bs \in Buffers |-> Identity_Unmarshal(bs)]
           d == Identity_PlainEncoded(ms)
<1>1. DOMAIN d = DOMAIN ms /\ \A k \in DOMAIN ms : d[k] = Identity_MarshalToSizedBuffer(ms[k])
  BY DEF Identity_PlainEncoded
<1>2. ms \in Seq(PlainIdentitySet) /\ Readable(d)
  OBVIOUS
<1> HIDE DEF d
<1>3. d \in Seq(Buffers) /\ Concatenated(d) \in Buffers
      /\ \A k \in DOMAIN d : d[k] \in Buffers /\ d[k] \in Bytes /\ Fits(d[k])
  BY <1>2, ReadableOnes
<1>4. ASSUME NEW k \in DOMAIN ms
      PROVE  u[d[k]] = Ok(ms[k], 0)
  <2> DEFINE mk == ms[k]
             bk == Identity_MarshalToSizedBuffer(mk)
  <2>1. mk \in PlainIdentitySet /\ d[k] = bk /\ bk \in Buffers /\ Fits(bk)
    BY <1>1, <1>2, <1>3
  <2>2. u[d[k]] = Identity_Unmarshal(bk)
    BY <2>1
  <2> HIDE DEF mk
  <2>3. Identity_Unmarshal(bk) = Ok(mk, 0)
    BY <2>1, Identity_PlainBack
  <2> QED
    BY <2>2, <2>3 DEF mk
<1>5. /\ \A k \in DOMAIN d : u[d[k]] = Identity_Unmarshal(d[k])
      /\ u[Concatenated(d)] = Identity_Unmarshal(Concatenated(d))
  BY <1>3
<1> HIDE DEF u
<1>6. Identities_Unmarshal(d) = EachOf(u, d)
  BY <1>5 DEF Identities_Unmarshal, Each, EachOf
<1>7. ms = [k \in DOMAIN ms |-> ms[k]]
  OBVIOUS
<1>8. EachOf(u, d) = Ok(ms, 0)
  BY <1>1, <1>4, <1>7, EachBack
<1> QED
  BY <1>6, <1>8 DEF d

(* A pointer to a message is read back.                                    *)
LEMMA PagingBack ==
  ASSUME NEW ms \in Pointer(PageRequestSet), Readable(PageRequest_Encoded(ms))
  PROVE  Paging_unmarshal(PageRequest_Encoded(ms)) = Ok(ms, 0)
<1> DEFINE u == [bs \in Buffers |-> PageRequest_unmarshal(bs)]
           d == PageRequest_Encoded(ms)
<1>1. DOMAIN d = DOMAIN ms /\ \A k \in DOMAIN ms : d[k] = PageRequest_marshal(ms[k])
  BY DEF PageRequest_Encoded
<1>2. ms \in Seq(PageRequestSet) /\ Readable(d)
  BY PointerList
<1> HIDE DEF d
<1>3. d \in Seq(Buffers) /\ Concatenated(d) \in Buffers
      /\ \A k \in DOMAIN d : d[k] \in Buffers /\ d[k] \in Bytes /\ Fits(d[k])
  BY <1>2, ReadableOnes
<1>4. ASSUME NEW k \in DOMAIN ms
      PROVE  u[d[k]] = Ok(ms[k], 0)
  <2> DEFINE mk == ms[k]
             bk == PageRequest_marshal(mk)
  <2>1. mk \in PageRequestSet /\ d[k] = bk /\ bk \in Buffers /\ Fits(bk)
    BY <1>1, <1>2, <1>3
  <2>2. u[d[k]] = PageRequest_unmarshal(bk)
    BY <2>1
  <2> HIDE DEF mk
  <2>3. PageRequest_unmarshal(bk) = Ok(mk, 0)
    BY <2>1, PageRequest_Back
  <2> QED
    BY <2>2, <2>3 DEF mk
<1>5. /\ \A k \in DOMAIN d : u[d[k]] = PageRequest_unmarshal(d[k])
      /\ u[Concatenated(d)] = PageRequest_unmarshal(Concatenated(d))
  BY <1>3
<1> HIDE DEF u
<1>6. Paging_unmarshal(d) = OptionalOf(u, d)
  BY <1>5 DEF Paging_unmarshal, Optional, Merged, Each, Then,
         EachOf, MergedOf, OptionalOf
<1>7. CASE ms = <<>>
  <2>1. d = <<>>
    BY <1>7 DEF d, PageRequest_Encoded
  <2>2. OptionalOf(u, <<>>) = Ok(<<>>, 0)
    BY NoneBack
  <2> QED
    BY <1>6, <1>7, <2>1, <2>2 DEF d
<1>8. ASSUME NEW m \in PageRequestSet, ms = <<m>>
      PROVE  Paging_unmarshal(PageRequest_Encoded(ms)) = Ok(ms, 0)
  <2> DEFINE x == d[1]
  <2>1. d = <<x>> /\ 1 \in DOMAIN ms /\ ms[1] = m
    BY <1>8 DEF d, PageRequest_Encoded
  <2>2. x \in Bytes /\ u[x] = Ok(m, 0)
    BY <1>1, <1>3, <1>4, <2>1
  <2> HIDE DEF x
  <2>3. OptionalOf(u, <<x>>) = Ok(<<m>>, 0)
    BY <2>2, OneBack
  <2>4. OptionalOf(u, d) = Ok(ms, 0)
    BY <1>8, <2>1, <2>3
  <2> QED
    BY <1>6, <2>4 DEF d
<1>9. ms = <<>> \/ \E m \in PageRequestSet : ms = <<m>>
  BY PointerList
<1> QED
  BY <1>7, <1>8, <1>9

(* A pointer to a message is read back.                                    *)
LEMMA PagingPlainBack ==
  ASSUME NEW ms \in Pointer(PlainPageRequestSet), Readable(PageRequest_PlainEncoded(ms))
  PROVE  Paging_Unmarshal(PageRequest_PlainEncoded(ms)) = Ok(ms, 0)
<1> DEFINE u == [bs \in Buffers |-> PageRequest_Unmarshal(bs)]
           d == PageRequest_PlainEncoded(ms)
<1>1. DOMAIN d = DOMAIN ms /\ \A k \in DOMAIN ms : d[k] = PageRequest_MarshalToSizedBuffer(ms[k])
  BY DEF PageRequest_PlainEncoded
<1>2. ms \in Seq(PlainPageRequestSet) /\ Readable(d)
  BY PointerList
<1> HIDE DEF d
<1>3. d \in Seq(Buffers) /\ Concatenated(d) \in Buffers
      /\ \A k \in DOMAIN d : d[k] \in Buffers /\ d[k] \in Bytes /\ Fits(d[k])
  BY <1>2, ReadableOnes
<1>4. ASSUME NEW k \in DOMAIN ms
      PROVE  u[d[k]] = Ok(ms[k], 0)
  <2> DEFINE mk == ms[k]
             bk == PageRequest_MarshalToSizedBuffer(mk)
  <2>1. mk \in PlainPageRequestSet /\ d[k] = bk /\ bk \in Buffers /\ Fits(bk)
    BY <1>1, <1>2, <1>3
  <2>2. u[d[k]] = PageRequest_Unmarshal(bk)
    BY <2>1
  <2> HIDE DEF mk
  <2>3. PageRequest_Unmarshal(bk) = Ok(mk, 0)
    BY <2>1, PageRequest_PlainBack
  <2> QED
    BY <2>2, <2>3 DEF mk
<1>5. /\ \A k \in DOMAIN d : u[d[k]] = PageRequest_Unmarshal(d[k])
      /\ u[Concatenated(d)] = PageRequest_Unmarshal(Concatenated(d))
  BY <1>3
<1> HIDE DEF u
<1>6. Paging_Unmarshal(d) = OptionalOf(u, d)
  BY <1>5 DEF Paging_Unmarshal, Optional, Merged, Each, Then,
         EachOf, MergedOf, OptionalOf
<1>7. CASE ms = <<>>
  <2>1. d = <<>>
    BY <1>7 DEF d, PageRequest_PlainEncoded
  <2>2. OptionalOf(u, <<>>) = Ok(<<>>, 0)
    BY NoneBack
  <2> QED
    BY <1>6, <1>7, <2>1, <2>2 DEF d
<1>8. ASSUME NEW m \in PlainPageRequestSet, ms = <<m>>
      PROVE  Paging_Unmarshal(PageRequest_PlainEncoded(ms)) = Ok(ms, 0)
  <2> DEFINE x == d[1]
  <2>1. d = <<x>> /\ 1 \in DOMAIN ms /\ ms[1] = m
    BY <1>8 DEF d, PageRequest_PlainEncoded
  <2>2. x \in Bytes /\ u[x] = Ok(m, 0)
    BY <1>1, <1>3, <1>4, <2>1
  <2> HIDE DEF x
  <2>3. OptionalOf(u, <<x>>) = Ok(<<m>>, 0)
    BY <2>2, OneBack
  <2>4. OptionalOf(u, d) = Ok(ms, 0)
    BY <1>8, <2>1, <2>3
  <2> QED
    BY <1>6, <2>4 DEF d
<1>9. ms = <<>> \/ \E m \in PlainPageRequestSet : ms = <<m>>
  BY PointerList
<1> QED
  BY <1>7, <1>8, <1>9

(* A pointer to a message is read back.                                    *)
LEMMA PagedBack ==
  ASSUME NEW ms \in Pointer(PageResponseSet), Readable(PageResponse_Encoded(ms))
  PROVE  Paged_unmarshal(PageResponse_Encoded(ms)) = Ok(ms, 0)
<1> DEFINE u == [bs \in Buffers |-> PageResponse_unmarshal(bs)]
           d == PageResponse_Encoded(ms)
<1>1. DOMAIN d = DOMAIN ms /\ \A k \in DOMAIN ms : d[k] = PageResponse_marshal(ms[k])
  BY DEF PageResponse_Encoded
<1>2. ms \in Seq(PageResponseSet) /\ Readable(d)
  BY PointerList
<1> HIDE DEF d
<1>3. d \in Seq(Buffers) /\ Concatenated(d) \in Buffers
      /\ \A k \in DOMAIN d : d[k] \in Buffers /\ d[k] \in Bytes /\ Fits(d[k])
  BY <1>2, ReadableOnes
<1>4. ASSUME NEW k \in DOMAIN ms
      PROVE  u[d[k]] = Ok(ms[k], 0)
  <2> DEFINE mk == ms[k]
             bk == PageResponse_marshal(mk)
  <2>1. mk \in PageResponseSet /\ d[k] = bk /\ bk \in Buffers /\ Fits(bk)
    BY <1>1, <1>2, <1>3
  <2>2. u[d[k]] = PageResponse_unmarshal(bk)
    BY <2>1
  <2> HIDE DEF mk
  <2>3. PageResponse_unmarshal(bk) = Ok(mk, 0)
    BY <2>1, PageResponse_Back
  <2> QED
    BY <2>2, <2>3 DEF mk
<1>5. /\ \A k \in DOMAIN d : u[d[k]] = PageResponse_unmarshal(d[k])
      /\ u[Concatenated(d)] = PageResponse_unmarshal(Concatenated(d))
  BY <1>3
<1> HIDE DEF u
<1>6. Paged_unmarshal(d) = OptionalOf(u, d)
  BY <1>5 DEF Paged_unmarshal, Optional, Merged, Each, Then,
         EachOf, MergedOf, OptionalOf
<1>7. CASE ms = <<>>
  <2>1. d = <<>>
    BY <1>7 DEF d, PageResponse_Encoded
  <2>2. OptionalOf(u, <<>>) = Ok(<<>>, 0)
    BY NoneBack
  <2> QED
    BY <1>6, <1>7, <2>1, <2>2 DEF d
<1>8. ASSUME NEW m \in PageResponseSet, ms = <<m>>
      PROVE  Paged_unmarshal(PageResponse_Encoded(ms)) = Ok(ms, 0)
  <2> DEFINE x == d[1]
  <2>1. d = <<x>> /\ 1 \in DOMAIN ms /\ ms[1] = m
    BY <1>8 DEF d, PageResponse_Encoded
  <2>2. x \in Bytes /\ u[x] = Ok(m, 0)
    BY <1>1, <1>3, <1>4, <2>1
  <2> HIDE DEF x
  <2>3. OptionalOf(u, <<x>>) = Ok(<<m>>, 0)
    BY <2>2, OneBack
  <2>4. OptionalOf(u, d) = Ok(ms, 0)
    BY <1>8, <2>1, <2>3
  <2> QED
    BY <1>6, <2>4 DEF d
<1>9. ms = <<>> \/ \E m \in PageResponseSet : ms = <<m>>
  BY PointerList
<1> QED
  BY <1>7, <1>8, <1>9

(* A pointer to a message is read back.                                    *)
LEMMA PagedPlainBack ==
  ASSUME NEW ms \in Pointer(PlainPageResponseSet), Readable(PageResponse_PlainEncoded(ms))
  PROVE  Paged_Unmarshal(PageResponse_PlainEncoded(ms)) = Ok(ms, 0)
<1> DEFINE u == [bs \in Buffers |-> PageResponse_Unmarshal(bs)]
           d == PageResponse_PlainEncoded(ms)
<1>1. DOMAIN d = DOMAIN ms /\ \A k \in DOMAIN ms : d[k] = PageResponse_MarshalToSizedBuffer(ms[k])
  BY DEF PageResponse_PlainEncoded
<1>2. ms \in Seq(PlainPageResponseSet) /\ Readable(d)
  BY PointerList
<1> HIDE DEF d
<1>3. d \in Seq(Buffers) /\ Concatenated(d) \in Buffers
      /\ \A k \in DOMAIN d : d[k] \in Buffers /\ d[k] \in Bytes /\ Fits(d[k])
  BY <1>2, ReadableOnes
<1>4. ASSUME NEW k \in DOMAIN ms
      PROVE  u[d[k]] = Ok(ms[k], 0)
  <2> DEFINE mk == ms[k]
             bk == PageResponse_MarshalToSizedBuffer(mk)
  <2>1. mk \in PlainPageResponseSet /\ d[k] = bk /\ bk \in Buffers /\ Fits(bk)
    BY <1>1, <1>2, <1>3
  <2>2. u[d[k]] = PageResponse_Unmarshal(bk)
    BY <2>1
  <2> HIDE DEF mk
  <2>3. PageResponse_Unmarshal(bk) = Ok(mk, 0)
    BY <2>1, PageResponse_PlainBack
  <2> QED
    BY <2>2, <2>3 DEF mk
<1>5. /\ \A k \in DOMAIN d : u[d[k]] = PageResponse_Unmarshal(d[k])
      /\ u[Concatenated(d)] = PageResponse_Unmarshal(Concatenated(d))
  BY <1>3
<1> HIDE DEF u
<1>6. Paged_Unmarshal(d) = OptionalOf(u, d)
  BY <1>5 DEF Paged_Unmarshal, Optional, Merged, Each, Then,
         EachOf, MergedOf, OptionalOf
<1>7. CASE ms = <<>>
  <2>1. d = <<>>
    BY <1>7 DEF d, PageResponse_PlainEncoded
  <2>2. OptionalOf(u, <<>>) = Ok(<<>>, 0)
    BY NoneBack
  <2> QED
    BY <1>6, <1>7, <2>1, <2>2 DEF d
<1>8. ASSUME NEW m \in PlainPageResponseSet, ms = <<m>>
      PROVE  Paged_Unmarshal(PageResponse_PlainEncoded(ms)) = Ok(ms, 0)
  <2> DEFINE x == d[1]
  <2>1. d = <<x>> /\ 1 \in DOMAIN ms /\ ms[1] = m
    BY <1>8 DEF d, PageResponse_PlainEncoded
  <2>2. x \in Bytes /\ u[x] = Ok(m, 0)
    BY <1>1, <1>3, <1>4, <2>1
  <2> HIDE DEF x
  <2>3. OptionalOf(u, <<x>>) = Ok(<<m>>, 0)
    BY <2>2, OneBack
  <2>4. OptionalOf(u, d) = Ok(ms, 0)
    BY <1>8, <2>1, <2>3
  <2> QED
    BY <1>6, <2>4 DEF d
<1>9. ms = <<>> \/ \E m \in PlainPageResponseSet : ms = <<m>>
  BY PointerList
<1> QED
  BY <1>7, <1>8, <1>9

-----------------------------------------------------------------------------
(* All the messages are read as they were written.                        *)

(* The gogo messages.                                                      *)
PlainGenesisStateSet ==
  [params : PlainParamsSet, identityList : Seq(PlainIdentitySet)]
PlainMsgUpdateParamsSet ==
  [authority : Bytes, params : PlainParamsSet]
PlainMsgUpdateParamsResponseSet == {NoFields}
PlainMsgCreateIdentitySet ==
  [creator : Bytes, cccdId : Bytes]
PlainMsgCreateIdentityResponseSet == {NoFields}
PlainQueryParamsRequestSet == {NoFields}
PlainQueryParamsResponseSet ==
  [params : PlainParamsSet]
PlainQueryGetIdentityRequestSet ==
  [address : Bytes]
PlainQueryGetIdentityResponseSet ==
  [identity : PlainIdentitySet]
PlainQueryAllIdentityRequestSet ==
  [pagination : Pointer(PlainPageRequestSet)]
PlainQueryAllIdentityResponseSet ==
  [identity : Seq(PlainIdentitySet), pagination : Pointer(PlainPageResponseSet)]
PlainQueryIdentityByCccdIdRequestSet ==
  [idHash : Bytes, pagination : Pointer(PlainPageRequestSet)]
PlainQueryIdentityByCccdIdResponseSet ==
  [identity : Seq(PlainIdentitySet), pagination : Pointer(PlainPageResponseSet)]

GenesisState_Row(m) == <<Params_Encoded(m.params), Identity_Encoded(m.identityList)>>

(* What a scan finds in the pulsar form.                                   *)
LEMMA GenesisState_Found ==
  ASSUME NEW m \in GenesisStateSet, NEW bs, bs = GenesisState_marshal(m)
  PROVE  /\ bs \in Bytes
         /\ Fits(bs) => Scan(<<2, 2>>, bs) = Found(GenesisState_Row(m), m.unknown)
<1> DEFINE wt == <<2, 2>>
           a1 == MessagesField(1, Params_marshal, m.params)
           z1 == MessagesSize(Params_size, m.params)
           v1 == Params_Encoded(m.params)
           a2 == MessagesField(2, Identity_marshal, m.identityList)
           z2 == MessagesSize(Identity_size, m.identityList)
           v2 == Identity_Encoded(m.identityList)
           a == a1 \o a2
           z == z1 + z2
           g == GenesisState_Row(m)
           u == m.unknown
<1>1. IsTable(wt) /\ 1 \in DOMAIN wt /\ wt[1] = 2 /\ 2 \in DOMAIN wt /\ wt[2] = 2
  BY Tables
<1>2. Writes(wt, a1, z1, Only(wt, 1, v1))
  <2>1. m.params \in Seq(ParamsSet)
    <3>1. m.params \in Pointer(ParamsSet)
      BY DEF GenesisStateSet
    <3> QED
      BY <3>1, PointerList
  <2>2. 1 \in 1 .. 7
    OBVIOUS
  <2> HIDE DEF wt
  <2> QED
    BY <1>1, <2>1, <2>2, Params_ListWrites
<1>3. Writes(wt, a2, z2, Only(wt, 2, v2))
  <2>1. m.identityList \in Seq(IdentitySet)
    BY DEF GenesisStateSet
  <2>2. 2 \in 1 .. 7
    OBVIOUS
  <2> HIDE DEF wt
  <2> QED
    BY <1>1, <2>1, <2>2, Identity_ListWrites
<1>4. g = <<v1, v2>>
  BY DEF GenesisState_Row
<1>5. Writes(wt, a, z, g)
  <2> DEFINE x == 2
  <2>1. x \in {0, 2} /\ wt = <<2, x>> /\ z = z1 + z2
    OBVIOUS
  <2> HIDE DEF a1, z1, v1, a2, z2, v2, g, x, wt, z
  <2>2. Writes(<<2, x>>, a1, z1, Only(<<2, x>>, 1, v1))
    BY <1>2, <2>1
  <2>3. Writes(<<2, x>>, a2, z2, Only(<<2, x>>, 2, v2))
    BY <1>3, <2>1
  <2>4. Writes(<<2, x>>, a1 \o a2, z, <<v1, v2>>)
    BY <2>1, <2>2, <2>3, TwoFieldsWrite
  <2> QED
    BY <1>4, <2>1, <2>4
<1>6. u \in Kept(wt)
  BY DEF GenesisStateSet
<1>7. bs = Fill(z + Len(u), a \o u)
  BY DEF GenesisState_marshal, GenesisState_size
<1> HIDE DEF wt, a, z, g, u
<1>8. bs \in Bytes /\ (Fits(bs) => Scan(wt, bs) = Found(g, u))
  BY <1>1, <1>5, <1>6, <1>7, MessageFound
<1> QED
  BY <1>8 DEF wt, g, u

(* The pulsar form is read as it was written.                              *)
LEMMA GenesisState_Back ==
  ASSUME NEW m \in GenesisStateSet, NEW bs, bs = GenesisState_marshal(m)
  PROVE  bs \in Bytes /\ (Fits(bs) => GenesisState_unmarshal(bs) = Ok(m, 0))
<1> DEFINE wt == <<2, 2>>
           g == GenesisState_Row(m)
<1>1. bs \in Bytes /\ (Fits(bs) => Scan(wt, bs) = Found(g, m.unknown))
  BY GenesisState_Found
<1>2. IsTable(wt) /\ 1 \in DOMAIN wt /\ wt[1] = 2 /\ 2 \in DOMAIN wt /\ wt[2] = 2
  BY Tables
<1> SUFFICES ASSUME Fits(bs)
             PROVE  GenesisState_unmarshal(bs) = Ok(m, 0)
  BY <1>1
<1> DEFINE s == Scan(wt, bs)
           p1 == TheParams_unmarshal(Values(s, 1))
           p2 == Identities_unmarshal(Values(s, 2))
<1>3. GenesisState_unmarshal(bs) =
        IF s.st # "ok" THEN s ELSE
        IF p1.st # "ok" THEN p1 ELSE
        IF p2.st # "ok" THEN p2 ELSE
        Ok([params |-> p1.v, identityList |-> p2.v, unknown |-> s.unknown], 0)
  BY DEF GenesisState_unmarshal, Then, Identities_unmarshal, TheParams_unmarshal
<1>4. s = Found(g, m.unknown) /\ s.st = "ok" /\ s.fields = g /\ s.unknown = m.unknown
  <2>1. s = Found(g, m.unknown)
    BY <1>1
  <2> HIDE DEF s, g
  <2> QED
    BY <2>1 DEF Found
<1>5. Roomy(wt, s.fields, Len(bs)) /\ bs \in Buffers
  <2>1. bs \in Buffers /\ s = Scan(wt, bs) /\ s # Failed
    <3>1. bs \in Buffers /\ s = Scan(wt, bs)
      BY <1>1 DEF Buffers
    <3> HIDE DEF s
    <3> QED
      BY <1>4, <3>1 DEF Failed
  <2> HIDE DEF s, wt
  <2> QED
    BY <1>2, <2>1, ScanFinds
<1>6. p1 = Ok(m.params, 0)
  <2>1. Values(s, 1) = Params_Encoded(m.params)
    BY <1>4 DEF GenesisState_Row, Values
  <2>2. Readable(Values(s, 1))
    <3> HIDE DEF s, wt
    <3> QED
      BY <1>2, <1>5, ValuesReadable
  <2>3. m.params \in Pointer(ParamsSet)
    BY DEF GenesisStateSet
  <2> HIDE DEF s
  <2>4. TheParams_unmarshal(Params_Encoded(m.params)) = Ok(m.params, 0)
    BY <2>1, <2>2, <2>3, TheParamsBack
  <2> QED
    BY <2>1, <2>4
<1>7. p1.st = "ok" /\ p1.v = m.params
  <2> HIDE DEF p1
  <2> QED
    BY <1>6, OkParts
<1>8. p2 = Ok(m.identityList, 0)
  <2>1. Values(s, 2) = Identity_Encoded(m.identityList)
    BY <1>4 DEF GenesisState_Row, Values
  <2>2. Readable(Values(s, 2))
    <3> HIDE DEF s, wt
    <3> QED
      BY <1>2, <1>5, ValuesReadable
  <2>3. m.identityList \in Seq(IdentitySet)
    BY DEF GenesisStateSet
  <2> HIDE DEF s
  <2>4. Identities_unmarshal(Identity_Encoded(m.identityList)) = Ok(m.identityList, 0)
    BY <2>1, <2>2, <2>3, IdentitiesBack
  <2> QED
    BY <2>1, <2>4
<1>9. p2.st = "ok" /\ p2.v = m.identityList
  <2> HIDE DEF p2
  <2> QED
    BY <1>8, OkParts
<1>10. m = [params |-> m.params, identityList |-> m.identityList, unknown |-> m.unknown]
  BY DEF GenesisStateSet
<1> HIDE DEF s, p1, p2
<1> QED
  BY <1>3, <1>4, <1>7, <1>9, <1>10

GenesisState_PlainRow(m) == <<Params_PlainEncoded(<<m.params>>),
  Identity_PlainEncoded(m.identityList)>>

(* What a scan finds in the gogo form.                                     *)
LEMMA GenesisState_PlainFound ==
  ASSUME NEW m \in PlainGenesisStateSet, NEW bs, bs = GenesisState_Marshal(m)
  PROVE  /\ bs \in Bytes
         /\ Fits(bs) => Scan(<<2, 2>>, bs) = Found(GenesisState_PlainRow(m), <<>>)
<1> DEFINE wt == <<2, 2>>
           a1 == MessagesField(1, Params_MarshalToSizedBuffer, <<m.params>>)
           z1 == MessagesSize(Params_Size, <<m.params>>)
           v1 == Params_PlainEncoded(<<m.params>>)
           a2 == MessagesField(2, Identity_MarshalToSizedBuffer, m.identityList)
           z2 == MessagesSize(Identity_Size, m.identityList)
           v2 == Identity_PlainEncoded(m.identityList)
           a == a1 \o a2
           z == z1 + z2
           g == GenesisState_PlainRow(m)
<1>1. IsTable(wt) /\ 1 \in DOMAIN wt /\ wt[1] = 2 /\ 2 \in DOMAIN wt /\ wt[2] = 2
  BY Tables
<1>2. Writes(wt, a1, z1, Only(wt, 1, v1))
  <2>1. <<m.params>> \in Seq(PlainParamsSet)
    BY DEF PlainGenesisStateSet
  <2>2. 1 \in 1 .. 7
    OBVIOUS
  <2> HIDE DEF wt
  <2> QED
    BY <1>1, <2>1, <2>2, Params_PlainListWrites
<1>3. Writes(wt, a2, z2, Only(wt, 2, v2))
  <2>1. m.identityList \in Seq(PlainIdentitySet)
    BY DEF PlainGenesisStateSet
  <2>2. 2 \in 1 .. 7
    OBVIOUS
  <2> HIDE DEF wt
  <2> QED
    BY <1>1, <2>1, <2>2, Identity_PlainListWrites
<1>4. g = <<v1, v2>>
  BY DEF GenesisState_PlainRow
<1>5. Writes(wt, a, z, g)
  <2> DEFINE x == 2
  <2>1. x \in {0, 2} /\ wt = <<2, x>> /\ z = z1 + z2
    OBVIOUS
  <2> HIDE DEF a1, z1, v1, a2, z2, v2, g, x, wt, z
  <2>2. Writes(<<2, x>>, a1, z1, Only(<<2, x>>, 1, v1))
    BY <1>2, <2>1
  <2>3. Writes(<<2, x>>, a2, z2, Only(<<2, x>>, 2, v2))
    BY <1>3, <2>1
  <2>4. Writes(<<2, x>>, a1 \o a2, z, <<v1, v2>>)
    BY <2>1, <2>2, <2>3, TwoFieldsWrite
  <2> QED
    BY <1>4, <2>1, <2>4
<1>6. bs = Front(z, a)
  BY DEF GenesisState_Marshal, GenesisState_Size
<1> HIDE DEF wt, a, z, g
<1>7. a \in Bytes /\ Front(z, a) = a /\ (Fits(a) => Scan(wt, a) = Found(g, <<>>))
  BY <1>1, <1>5, PlainFound
<1>8. bs \in Bytes /\ (Fits(bs) => Scan(wt, bs) = Found(g, <<>>))
  BY <1>6, <1>7
<1> QED
  BY <1>8 DEF wt, g

(* The gogo form is read as it was written.                                *)
LEMMA GenesisState_PlainBack ==
  ASSUME NEW m \in PlainGenesisStateSet, NEW bs, bs = GenesisState_Marshal(m)
  PROVE  bs \in Bytes /\ (Fits(bs) => GenesisState_Unmarshal(bs) = Ok(m, 0))
<1> DEFINE wt == <<2, 2>>
           g == GenesisState_PlainRow(m)
<1>1. bs \in Bytes /\ (Fits(bs) => Scan(wt, bs) = Found(g, <<>>))
  BY GenesisState_PlainFound
<1>2. IsTable(wt) /\ 1 \in DOMAIN wt /\ wt[1] = 2 /\ 2 \in DOMAIN wt /\ wt[2] = 2
  BY Tables
<1> SUFFICES ASSUME Fits(bs)
             PROVE  GenesisState_Unmarshal(bs) = Ok(m, 0)
  BY <1>1
<1> DEFINE s == Scan(wt, bs)
           p1 == TheParams_Unmarshal(Values(s, 1))
           p2 == Identities_Unmarshal(Values(s, 2))
<1>3. GenesisState_Unmarshal(bs) =
        IF s.st # "ok" THEN s ELSE
        IF p1.st # "ok" THEN p1 ELSE
        IF p2.st # "ok" THEN p2 ELSE
        Ok([params |-> p1.v, identityList |-> p2.v], 0)
  BY DEF GenesisState_Unmarshal, Then, Identities_Unmarshal, TheParams_Unmarshal
<1>4. s = Found(g, <<>>) /\ s.st = "ok" /\ s.fields = g /\ s.unknown = <<>>
  <2>1. s = Found(g, <<>>)
    BY <1>1
  <2> HIDE DEF s, g
  <2> QED
    BY <2>1 DEF Found
<1>5. Roomy(wt, s.fields, Len(bs)) /\ bs \in Buffers
  <2>1. bs \in Buffers /\ s = Scan(wt, bs) /\ s # Failed
    <3>1. bs \in Buffers /\ s = Scan(wt, bs)
      BY <1>1 DEF Buffers
    <3> HIDE DEF s
    <3> QED
      BY <1>4, <3>1 DEF Failed
  <2> HIDE DEF s, wt
  <2> QED
    BY <1>2, <2>1, ScanFinds
<1>6. p1 = Ok(m.params, 0)
  <2>1. Values(s, 1) = Params_PlainEncoded(<<m.params>>)
    BY <1>4 DEF GenesisState_PlainRow, Values
  <2>2. Readable(Values(s, 1))
    <3> HIDE DEF s, wt
    <3> QED
      BY <1>2, <1>5, ValuesReadable
  <2>3. m.params \in PlainParamsSet
    BY DEF PlainGenesisStateSet
  <2> HIDE DEF s
  <2>4. TheParams_Unmarshal(Params_PlainEncoded(<<m.params>>)) = Ok(m.params, 0)
    BY <2>1, <2>2, <2>3, TheParamsPlainBack
  <2> QED
    BY <2>1, <2>4
<1>7. p1.st = "ok" /\ p1.v = m.params
  <2> HIDE DEF p1
  <2> QED
    BY <1>6, OkParts
<1>8. p2 = Ok(m.identityList, 0)
  <2>1. Values(s, 2) = Identity_PlainEncoded(m.identityList)
    BY <1>4 DEF GenesisState_PlainRow, Values
  <2>2. Readable(Values(s, 2))
    <3> HIDE DEF s, wt
    <3> QED
      BY <1>2, <1>5, ValuesReadable
  <2>3. m.identityList \in Seq(PlainIdentitySet)
    BY DEF PlainGenesisStateSet
  <2> HIDE DEF s
  <2>4. Identities_Unmarshal(Identity_PlainEncoded(m.identityList)) = Ok(m.identityList, 0)
    BY <2>1, <2>2, <2>3, IdentitiesPlainBack
  <2> QED
    BY <2>1, <2>4
<1>9. p2.st = "ok" /\ p2.v = m.identityList
  <2> HIDE DEF p2
  <2> QED
    BY <1>8, OkParts
<1>10. m = [params |-> m.params, identityList |-> m.identityList]
  BY DEF PlainGenesisStateSet
<1> HIDE DEF s, p1, p2
<1> QED
  BY <1>3, <1>4, <1>7, <1>9, <1>10

MsgUpdateParams_Row(m) == <<StringValues(m.authority), Params_Encoded(m.params)>>

(* What a scan finds in the pulsar form.                                   *)
LEMMA MsgUpdateParams_Found ==
  ASSUME NEW m \in MsgUpdateParamsSet, NEW bs, bs = MsgUpdateParams_marshal(m)
  PROVE  /\ bs \in Bytes
         /\ Fits(bs) => Scan(<<2, 2>>, bs) = Found(MsgUpdateParams_Row(m), m.unknown)
<1> DEFINE wt == <<2, 2>>
           a1 == StringField(1, m.authority)
           z1 == StringSize(m.authority)
           v1 == StringValues(m.authority)
           a2 == MessagesField(2, Params_marshal, m.params)
           z2 == MessagesSize(Params_size, m.params)
           v2 == Params_Encoded(m.params)
           a == a1 \o a2
           z == z1 + z2
           g == MsgUpdateParams_Row(m)
           u == m.unknown
<1>1. IsTable(wt) /\ 1 \in DOMAIN wt /\ wt[1] = 2 /\ 2 \in DOMAIN wt /\ wt[2] = 2
  BY Tables
<1>2. Writes(wt, a1, z1, Only(wt, 1, v1))
  <2>1. m.authority \in Bytes
    BY DEF MsgUpdateParamsSet
  <2>2. 1 \in 1 .. 7
    OBVIOUS
  <2> HIDE DEF wt
  <2> QED
    BY <1>1, <2>1, <2>2, StringWrites
<1>3. Writes(wt, a2, z2, Only(wt, 2, v2))
  <2>1. m.params \in Seq(ParamsSet)
    <3>1. m.params \in Pointer(ParamsSet)
      BY DEF MsgUpdateParamsSet
    <3> QED
      BY <3>1, PointerList
  <2>2. 2 \in 1 .. 7
    OBVIOUS
  <2> HIDE DEF wt
  <2> QED
    BY <1>1, <2>1, <2>2, Params_ListWrites
<1>4. g = <<v1, v2>>
  BY DEF MsgUpdateParams_Row
<1>5. Writes(wt, a, z, g)
  <2> DEFINE x == 2
  <2>1. x \in {0, 2} /\ wt = <<2, x>> /\ z = z1 + z2
    OBVIOUS
  <2> HIDE DEF a1, z1, v1, a2, z2, v2, g, x, wt, z
  <2>2. Writes(<<2, x>>, a1, z1, Only(<<2, x>>, 1, v1))
    BY <1>2, <2>1
  <2>3. Writes(<<2, x>>, a2, z2, Only(<<2, x>>, 2, v2))
    BY <1>3, <2>1
  <2>4. Writes(<<2, x>>, a1 \o a2, z, <<v1, v2>>)
    BY <2>1, <2>2, <2>3, TwoFieldsWrite
  <2> QED
    BY <1>4, <2>1, <2>4
<1>6. u \in Kept(wt)
  BY DEF MsgUpdateParamsSet
<1>7. bs = Fill(z + Len(u), a \o u)
  BY DEF MsgUpdateParams_marshal, MsgUpdateParams_size
<1> HIDE DEF wt, a, z, g, u
<1>8. bs \in Bytes /\ (Fits(bs) => Scan(wt, bs) = Found(g, u))
  BY <1>1, <1>5, <1>6, <1>7, MessageFound
<1> QED
  BY <1>8 DEF wt, g, u

(* The pulsar form is read as it was written.                              *)
LEMMA MsgUpdateParams_Back ==
  ASSUME NEW m \in MsgUpdateParamsSet, NEW bs, bs = MsgUpdateParams_marshal(m)
  PROVE  bs \in Bytes /\ (Fits(bs) => MsgUpdateParams_unmarshal(bs) = Ok(m, 0))
<1> DEFINE wt == <<2, 2>>
           g == MsgUpdateParams_Row(m)
<1>1. bs \in Bytes /\ (Fits(bs) => Scan(wt, bs) = Found(g, m.unknown))
  BY MsgUpdateParams_Found
<1>2. IsTable(wt) /\ 1 \in DOMAIN wt /\ wt[1] = 2 /\ 2 \in DOMAIN wt /\ wt[2] = 2
  BY Tables
<1> SUFFICES ASSUME Fits(bs)
             PROVE  MsgUpdateParams_unmarshal(bs) = Ok(m, 0)
  BY <1>1
<1> DEFINE s == Scan(wt, bs)
           p2 == TheParams_unmarshal(Values(s, 2))
<1>3. MsgUpdateParams_unmarshal(bs) =
        IF s.st # "ok" THEN s ELSE
        IF p2.st # "ok" THEN p2 ELSE
        Ok([authority |-> StringOf(s, 1), params |-> p2.v, unknown |-> s.unknown], 0)
  BY DEF MsgUpdateParams_unmarshal, Then, TheParams_unmarshal
<1>4. s = Found(g, m.unknown) /\ s.st = "ok" /\ s.fields = g /\ s.unknown = m.unknown
  <2>1. s = Found(g, m.unknown)
    BY <1>1
  <2> HIDE DEF s, g
  <2> QED
    BY <2>1 DEF Found
<1>5. Roomy(wt, s.fields, Len(bs)) /\ bs \in Buffers
  <2>1. bs \in Buffers /\ s = Scan(wt, bs) /\ s # Failed
    <3>1. bs \in Buffers /\ s = Scan(wt, bs)
      BY <1>1 DEF Buffers
    <3> HIDE DEF s
    <3> QED
      BY <1>4, <3>1 DEF Failed
  <2> HIDE DEF s, wt
  <2> QED
    BY <1>2, <2>1, ScanFinds
<1>6. StringOf(s, 1) = m.authority
  <2>1. s.fields[1] = StringValues(m.authority)
    BY <1>4 DEF MsgUpdateParams_Row
  <2> HIDE DEF s
  <2> QED
    BY <2>1, StringBack
<1>7. p2 = Ok(m.params, 0)
  <2>1. Values(s, 2) = Params_Encoded(m.params)
    BY <1>4 DEF MsgUpdateParams_Row, Values
  <2>2. Readable(Values(s, 2))
    <3> HIDE DEF s, wt
    <3> QED
      BY <1>2, <1>5, ValuesReadable
  <2>3. m.params \in Pointer(ParamsSet)
    BY DEF MsgUpdateParamsSet
  <2> HIDE DEF s
  <2>4. TheParams_unmarshal(Params_Encoded(m.params)) = Ok(m.params, 0)
    BY <2>1, <2>2, <2>3, TheParamsBack
  <2> QED
    BY <2>1, <2>4
<1>8. p2.st = "ok" /\ p2.v = m.params
  <2> HIDE DEF p2
  <2> QED
    BY <1>7, OkParts
<1>9. m = [authority |-> m.authority, params |-> m.params, unknown |-> m.unknown]
  BY DEF MsgUpdateParamsSet
<1> HIDE DEF s, p2
<1> QED
  BY <1>3, <1>4, <1>6, <1>8, <1>9

MsgUpdateParams_PlainRow(m) == <<StringValues(m.authority), Params_PlainEncoded(<<m.params>>)>>

(* What a scan finds in the gogo form.                                     *)
LEMMA MsgUpdateParams_PlainFound ==
  ASSUME NEW m \in PlainMsgUpdateParamsSet, NEW bs, bs = MsgUpdateParams_Marshal(m)
  PROVE  /\ bs \in Bytes
         /\ Fits(bs) => Scan(<<2, 2>>, bs) = Found(MsgUpdateParams_PlainRow(m), <<>>)
<1> DEFINE wt == <<2, 2>>
           a1 == StringField(1, m.authority)
           z1 == StringSize(m.authority)
           v1 == StringValues(m.authority)
           a2 == MessagesField(2, Params_MarshalToSizedBuffer, <<m.params>>)
           z2 == MessagesSize(Params_Size, <<m.params>>)
           v2 == Params_PlainEncoded(<<m.params>>)
           a == a1 \o a2
           z == z1 + z2
           g == MsgUpdateParams_PlainRow(m)
<1>1. IsTable(wt) /\ 1 \in DOMAIN wt /\ wt[1] = 2 /\ 2 \in DOMAIN wt /\ wt[2] = 2
  BY Tables
<1>2. Writes(wt, a1, z1, Only(wt, 1, v1))
  <2>1. m.authority \in Bytes
    BY DEF PlainMsgUpdateParamsSet
  <2>2. 1 \in 1 .. 7
    OBVIOUS
  <2> HIDE DEF wt
  <2> QED
    BY <1>1, <2>1, <2>2, StringWrites
<1>3. Writes(wt, a2, z2, Only(wt, 2, v2))
  <2>1. <<m.params>> \in Seq(PlainParamsSet)
    BY DEF PlainMsgUpdateParamsSet
  <2>2. 2 \in 1 .. 7
    OBVIOUS
  <2> HIDE DEF wt
  <2> QED
    BY <1>1, <2>1, <2>2, Params_PlainListWrites
<1>4. g = <<v1, v2>>
  BY DEF MsgUpdateParams_PlainRow
<1>5. Writes(wt, a, z, g)
  <2> DEFINE x == 2
  <2>1. x \in {0, 2} /\ wt = <<2, x>> /\ z = z1 + z2
    OBVIOUS
  <2> HIDE DEF a1, z1, v1, a2, z2, v2, g, x, wt, z
  <2>2. Writes(<<2, x>>, a1, z1, Only(<<2, x>>, 1, v1))
    BY <1>2, <2>1
  <2>3. Writes(<<2, x>>, a2, z2, Only(<<2, x>>, 2, v2))
    BY <1>3, <2>1
  <2>4. Writes(<<2, x>>, a1 \o a2, z, <<v1, v2>>)
    BY <2>1, <2>2, <2>3, TwoFieldsWrite
  <2> QED
    BY <1>4, <2>1, <2>4
<1>6. bs = Front(z, a)
  BY DEF MsgUpdateParams_Marshal, MsgUpdateParams_Size
<1> HIDE DEF wt, a, z, g
<1>7. a \in Bytes /\ Front(z, a) = a /\ (Fits(a) => Scan(wt, a) = Found(g, <<>>))
  BY <1>1, <1>5, PlainFound
<1>8. bs \in Bytes /\ (Fits(bs) => Scan(wt, bs) = Found(g, <<>>))
  BY <1>6, <1>7
<1> QED
  BY <1>8 DEF wt, g

(* The gogo form is read as it was written.                                *)
LEMMA MsgUpdateParams_PlainBack ==
  ASSUME NEW m \in PlainMsgUpdateParamsSet, NEW bs, bs = MsgUpdateParams_Marshal(m)
  PROVE  bs \in Bytes /\ (Fits(bs) => MsgUpdateParams_Unmarshal(bs) = Ok(m, 0))
<1> DEFINE wt == <<2, 2>>
           g == MsgUpdateParams_PlainRow(m)
<1>1. bs \in Bytes /\ (Fits(bs) => Scan(wt, bs) = Found(g, <<>>))
  BY MsgUpdateParams_PlainFound
<1>2. IsTable(wt) /\ 1 \in DOMAIN wt /\ wt[1] = 2 /\ 2 \in DOMAIN wt /\ wt[2] = 2
  BY Tables
<1> SUFFICES ASSUME Fits(bs)
             PROVE  MsgUpdateParams_Unmarshal(bs) = Ok(m, 0)
  BY <1>1
<1> DEFINE s == Scan(wt, bs)
           p2 == TheParams_Unmarshal(Values(s, 2))
<1>3. MsgUpdateParams_Unmarshal(bs) =
        IF s.st # "ok" THEN s ELSE
        IF p2.st # "ok" THEN p2 ELSE
        Ok([authority |-> StringOf(s, 1), params |-> p2.v], 0)
  BY DEF MsgUpdateParams_Unmarshal, Then, TheParams_Unmarshal
<1>4. s = Found(g, <<>>) /\ s.st = "ok" /\ s.fields = g /\ s.unknown = <<>>
  <2>1. s = Found(g, <<>>)
    BY <1>1
  <2> HIDE DEF s, g
  <2> QED
    BY <2>1 DEF Found
<1>5. Roomy(wt, s.fields, Len(bs)) /\ bs \in Buffers
  <2>1. bs \in Buffers /\ s = Scan(wt, bs) /\ s # Failed
    <3>1. bs \in Buffers /\ s = Scan(wt, bs)
      BY <1>1 DEF Buffers
    <3> HIDE DEF s
    <3> QED
      BY <1>4, <3>1 DEF Failed
  <2> HIDE DEF s, wt
  <2> QED
    BY <1>2, <2>1, ScanFinds
<1>6. StringOf(s, 1) = m.authority
  <2>1. s.fields[1] = StringValues(m.authority)
    BY <1>4 DEF MsgUpdateParams_PlainRow
  <2> HIDE DEF s
  <2> QED
    BY <2>1, StringBack
<1>7. p2 = Ok(m.params, 0)
  <2>1. Values(s, 2) = Params_PlainEncoded(<<m.params>>)
    BY <1>4 DEF MsgUpdateParams_PlainRow, Values
  <2>2. Readable(Values(s, 2))
    <3> HIDE DEF s, wt
    <3> QED
      BY <1>2, <1>5, ValuesReadable
  <2>3. m.params \in PlainParamsSet
    BY DEF PlainMsgUpdateParamsSet
  <2> HIDE DEF s
  <2>4. TheParams_Unmarshal(Params_PlainEncoded(<<m.params>>)) = Ok(m.params, 0)
    BY <2>1, <2>2, <2>3, TheParamsPlainBack
  <2> QED
    BY <2>1, <2>4
<1>8. p2.st = "ok" /\ p2.v = m.params
  <2> HIDE DEF p2
  <2> QED
    BY <1>7, OkParts
<1>9. m = [authority |-> m.authority, params |-> m.params]
  BY DEF PlainMsgUpdateParamsSet
<1> HIDE DEF s, p2
<1> QED
  BY <1>3, <1>4, <1>6, <1>8, <1>9

MsgUpdateParamsResponse_Row(m) == <<>>

(* What a scan finds in the pulsar form.                                   *)
LEMMA MsgUpdateParamsResponse_Found ==
  ASSUME NEW m \in MsgUpdateParamsResponseSet, NEW bs, bs = MsgUpdateParamsResponse_marshal(m)
  PROVE  /\ bs \in Bytes
         /\ Fits(bs) => Scan(<<>>, bs) = Found(MsgUpdateParamsResponse_Row(m), m.unknown)
<1> DEFINE wt == <<>>
           a == <<>>
           z == 0
           g == MsgUpdateParamsResponse_Row(m)
           u == m.unknown
<1>1. IsTable(wt)
  BY Tables
<1>3. Writes(wt, a, z, g)
  BY NoFieldWrites DEF MsgUpdateParamsResponse_Row
<1>4. u \in Kept(wt)
  BY DEF MsgUpdateParamsResponseSet
<1>5. bs = Fill(z + Len(u), a \o u)
  <2>1. <<>> \o u = u /\ 0 + Len(u) = Len(u)
    <3>1. u \in Bytes
      BY <1>4 DEF Kept
    <3> HIDE DEF u
    <3>2. <<>> \o u = u
      BY <3>1, JoinNothing
    <3> QED
      BY <3>1, <3>2 DEF Bytes
  <2> QED
    BY <2>1 DEF MsgUpdateParamsResponse_marshal, MsgUpdateParamsResponse_size
<1> HIDE DEF wt, a, z, g, u
<1>6. bs \in Bytes /\ (Fits(bs) => Scan(wt, bs) = Found(g, u))
  BY <1>1, <1>3, <1>4, <1>5, MessageFound
<1> QED
  BY <1>6 DEF wt, g, u

(* The pulsar form is read as it was written.                              *)
LEMMA MsgUpdateParamsResponse_Back ==
  ASSUME NEW m \in MsgUpdateParamsResponseSet, NEW bs, bs = MsgUpdateParamsResponse_marshal(m)
  PROVE  bs \in Bytes /\ (Fits(bs) => MsgUpdateParamsResponse_unmarshal(bs) = Ok(m, 0))
<1> DEFINE wt == <<>>
           g == MsgUpdateParamsResponse_Row(m)
<1>1. bs \in Bytes /\ (Fits(bs) => Scan(wt, bs) = Found(g, m.unknown))
  BY MsgUpdateParamsResponse_Found
<1>2. IsTable(wt)
  BY Tables
<1> SUFFICES ASSUME Fits(bs)
             PROVE  MsgUpdateParamsResponse_unmarshal(bs) = Ok(m, 0)
  BY <1>1
<1> DEFINE s == Scan(wt, bs)
<1>3. MsgUpdateParamsResponse_unmarshal(bs) =
        IF s.st # "ok" THEN s ELSE
        Ok([unknown |-> s.unknown], 0)
  BY DEF MsgUpdateParamsResponse_unmarshal, Then
<1>4. s = Found(g, m.unknown) /\ s.st = "ok" /\ s.fields = g /\ s.unknown = m.unknown
  <2>1. s = Found(g, m.unknown)
    BY <1>1
  <2> HIDE DEF s, g
  <2> QED
    BY <2>1 DEF Found
<1>6. m = [unknown |-> m.unknown]
  BY DEF MsgUpdateParamsResponseSet
<1> HIDE DEF s
<1> QED
  BY <1>3, <1>4, <1>6

MsgUpdateParamsResponse_PlainRow(m) == <<>>

(* What a scan finds in the gogo form.                                     *)
LEMMA MsgUpdateParamsResponse_PlainFound ==
  ASSUME NEW m \in PlainMsgUpdateParamsResponseSet, NEW bs, bs = MsgUpdateParamsResponse_Marshal(m)
  PROVE  /\ bs \in Bytes
         /\ Fits(bs) => Scan(<<>>, bs) = Found(MsgUpdateParamsResponse_PlainRow(m), <<>>)
<1> DEFINE wt == <<>>
           a == <<>>
           z == 0
           g == MsgUpdateParamsResponse_PlainRow(m)
<1>1. IsTable(wt)
  BY Tables
<1>3. Writes(wt, a, z, g)
  BY NoFieldWrites DEF MsgUpdateParamsResponse_PlainRow
<1>4. bs = Front(z, a)
  BY DEF MsgUpdateParamsResponse_Marshal, MsgUpdateParamsResponse_Size
<1> HIDE DEF wt, a, z, g
<1>5. a \in Bytes /\ Front(z, a) = a /\ (Fits(a) => Scan(wt, a) = Found(g, <<>>))
  BY <1>1, <1>3, PlainFound
<1>6. bs \in Bytes /\ (Fits(bs) => Scan(wt, bs) = Found(g, <<>>))
  BY <1>4, <1>5
<1> QED
  BY <1>6 DEF wt, g

(* The gogo form is read as it was written.                                *)
LEMMA MsgUpdateParamsResponse_PlainBack ==
  ASSUME NEW m \in PlainMsgUpdateParamsResponseSet, NEW bs, bs = MsgUpdateParamsResponse_Marshal(m)
  PROVE  bs \in Bytes /\ (Fits(bs) => MsgUpdateParamsResponse_Unmarshal(bs) = Ok(m, 0))
<1> DEFINE wt == <<>>
           g == MsgUpdateParamsResponse_PlainRow(m)
<1>1. bs \in Bytes /\ (Fits(bs) => Scan(wt, bs) = Found(g, <<>>))
  BY MsgUpdateParamsResponse_PlainFound
<1>2. IsTable(wt)
  BY Tables
<1> SUFFICES ASSUME Fits(bs)
             PROVE  MsgUpdateParamsResponse_Unmarshal(bs) = Ok(m, 0)
  BY <1>1
<1> DEFINE s == Scan(wt, bs)
<1>3. MsgUpdateParamsResponse_Unmarshal(bs) =
        IF s.st # "ok" THEN s ELSE
        Ok(NoFields, 0)
  BY DEF MsgUpdateParamsResponse_Unmarshal, Then
<1>4. s = Found(g, <<>>) /\ s.st = "ok" /\ s.fields = g /\ s.unknown = <<>>
  <2>1. s = Found(g, <<>>)
    BY <1>1
  <2> HIDE DEF s, g
  <2> QED
    BY <2>1 DEF Found
<1>6. m = NoFields
  BY DEF PlainMsgUpdateParamsResponseSet
<1> HIDE DEF s
<1> QED
  BY <1>3, <1>4, <1>6

MsgCreateIdentity_Row(m) == <<StringValues(m.creator), StringValues(m.cccdId)>>

(* What a scan finds in the pulsar form.                                   *)
LEMMA MsgCreateIdentity_Found ==
  ASSUME NEW m \in MsgCreateIdentitySet, NEW bs, bs = MsgCreateIdentity_marshal(m)
  PROVE  /\ bs \in Bytes
         /\ Fits(bs) => Scan(<<2, 2>>, bs) = Found(MsgCreateIdentity_Row(m), m.unknown)
<1> DEFINE wt == <<2, 2>>
           a1 == StringField(1, m.creator)
           z1 == StringSize(m.creator)
           v1 == StringValues(m.creator)
           a2 == StringField(2, m.cccdId)
           z2 == StringSize(m.cccdId)
           v2 == StringValues(m.cccdId)
           a == a1 \o a2
           z == z1 + z2
           g == MsgCreateIdentity_Row(m)
           u == m.unknown
<1>1. IsTable(wt) /\ 1 \in DOMAIN wt /\ wt[1] = 2 /\ 2 \in DOMAIN wt /\ wt[2] = 2
  BY Tables
<1>2. Writes(wt, a1, z1, Only(wt, 1, v1))
  <2>1. m.creator \in Bytes
    BY DEF MsgCreateIdentitySet
  <2>2. 1 \in 1 .. 7
    OBVIOUS
  <2> HIDE DEF wt
  <2> QED
    BY <1>1, <2>1, <2>2, StringWrites
<1>3. Writes(wt, a2, z2, Only(wt, 2, v2))
  <2>1. m.cccdId \in Bytes
    BY DEF MsgCreateIdentitySet
  <2>2. 2 \in 1 .. 7
    OBVIOUS
  <2> HIDE DEF wt
  <2> QED
    BY <1>1, <2>1, <2>2, StringWrites
<1>4. g = <<v1, v2>>
  BY DEF MsgCreateIdentity_Row
<1>5. Writes(wt, a, z, g)
  <2> DEFINE x == 2
  <2>1. x \in {0, 2} /\ wt = <<2, x>> /\ z = z1 + z2
    OBVIOUS
  <2> HIDE DEF a1, z1, v1, a2, z2, v2, g, x, wt, z
  <2>2. Writes(<<2, x>>, a1, z1, Only(<<2, x>>, 1, v1))
    BY <1>2, <2>1
  <2>3. Writes(<<2, x>>, a2, z2, Only(<<2, x>>, 2, v2))
    BY <1>3, <2>1
  <2>4. Writes(<<2, x>>, a1 \o a2, z, <<v1, v2>>)
    BY <2>1, <2>2, <2>3, TwoFieldsWrite
  <2> QED
    BY <1>4, <2>1, <2>4
<1>6. u \in Kept(wt)
  BY DEF MsgCreateIdentitySet
<1>7. bs = Fill(z + Len(u), a \o u)
  BY DEF MsgCreateIdentity_marshal, MsgCreateIdentity_size
<1> HIDE DEF wt, a, z, g, u
<1>8. bs \in Bytes /\ (Fits(bs) => Scan(wt, bs) = Found(g, u))
  BY <1>1, <1>5, <1>6, <1>7, MessageFound
<1> QED
  BY <1>8 DEF wt, g, u

(* The pulsar form is read as it was written.                              *)
LEMMA MsgCreateIdentity_Back ==
  ASSUME NEW m \in MsgCreateIdentitySet, NEW bs, bs = MsgCreateIdentity_marshal(m)
  PROVE  bs \in Bytes /\ (Fits(bs) => MsgCreateIdentity_unmarshal(bs) = Ok(m, 0))
<1> DEFINE wt == <<2, 2>>
           g == MsgCreateIdentity_Row(m)
<1>1. bs \in Bytes /\ (Fits(bs) => Scan(wt, bs) = Found(g, m.unknown))
  BY MsgCreateIdentity_Found
<1>2. IsTable(wt) /\ 1 \in DOMAIN wt /\ wt[1] = 2 /\ 2 \in DOMAIN wt /\ wt[2] = 2
  BY Tables
<1> SUFFICES ASSUME Fits(bs)
             PROVE  MsgCreateIdentity_unmarshal(bs) = Ok(m, 0)
  BY <1>1
<1> DEFINE s == Scan(wt, bs)
<1>3. MsgCreateIdentity_unmarshal(bs) =
        IF s.st # "ok" THEN s ELSE
        Ok([creator |-> StringOf(s, 1), cccdId |-> StringOf(s, 2), unknown |-> s.unknown], 0)
  BY DEF MsgCreateIdentity_unmarshal, Then
<1>4. s = Found(g, m.unknown) /\ s.st = "ok" /\ s.fields = g /\ s.unknown = m.unknown
  <2>1. s = Found(g, m.unknown)
    BY <1>1
  <2> HIDE DEF s, g
  <2> QED
    BY <2>1 DEF Found
<1>6. StringOf(s, 1) = m.creator
  <2>1. s.fields[1] = StringValues(m.creator)
    BY <1>4 DEF MsgCreateIdentity_Row
  <2> HIDE DEF s
  <2> QED
    BY <2>1, StringBack
<1>7. StringOf(s, 2) = m.cccdId
  <2>1. s.fields[2] = StringValues(m.cccdId)
    BY <1>4 DEF MsgCreateIdentity_Row
  <2> HIDE DEF s
  <2> QED
    BY <2>1, StringBack
<1>8. m = [creator |-> m.creator, cccdId |-> m.cccdId, unknown |-> m.unknown]
  BY DEF MsgCreateIdentitySet
<1> HIDE DEF s
<1> QED
  BY <1>3, <1>4, <1>6, <1>7, <1>8

MsgCreateIdentity_PlainRow(m) == <<StringValues(m.creator), StringValues(m.cccdId)>>

(* What a scan finds in the gogo form.                                     *)
LEMMA MsgCreateIdentity_PlainFound ==
  ASSUME NEW m \in PlainMsgCreateIdentitySet, NEW bs, bs = MsgCreateIdentity_Marshal(m)
  PROVE  /\ bs \in Bytes
         /\ Fits(bs) => Scan(<<2, 2>>, bs) = Found(MsgCreateIdentity_PlainRow(m), <<>>)
<1> DEFINE wt == <<2, 2>>
           a1 == StringField(1, m.creator)
           z1 == StringSize(m.creator)
           v1 == StringValues(m.creator)
           a2 == StringField(2, m.cccdId)
           z2 == StringSize(m.cccdId)
           v2 == StringValues(m.cccdId)
           a == a1 \o a2
           z == z1 + z2
           g == MsgCreateIdentity_PlainRow(m)
<1>1. IsTable(wt) /\ 1 \in DOMAIN wt /\ wt[1] = 2 /\ 2 \in DOMAIN wt /\ wt[2] = 2
  BY Tables
<1>2. Writes(wt, a1, z1, Only(wt, 1, v1))
  <2>1. m.creator \in Bytes
    BY DEF PlainMsgCreateIdentitySet
  <2>2. 1 \in 1 .. 7
    OBVIOUS
  <2> HIDE DEF wt
  <2> QED
    BY <1>1, <2>1, <2>2, StringWrites
<1>3. Writes(wt, a2, z2, Only(wt, 2, v2))
  <2>1. m.cccdId \in Bytes
    BY DEF PlainMsgCreateIdentitySet
  <2>2. 2 \in 1 .. 7
    OBVIOUS
  <2> HIDE DEF wt
  <2> QED
    BY <1>1, <2>1, <2>2, StringWrites
<1>4. g = <<v1, v2>>
  BY DEF MsgCreateIdentity_PlainRow
<1>5. Writes(wt, a, z, g)
  <2> DEFINE x == 2
  <2>1. x \in {0, 2} /\ wt = <<2, x>> /\ z = z1 + z2
    OBVIOUS
  <2> HIDE DEF a1, z1, v1, a2, z2, v2, g, x, wt, z
  <2>2. Writes(<<2, x>>, a1, z1, Only(<<2, x>>, 1, v1))
    BY <1>2, <2>1
  <2>3. Writes(<<2, x>>, a2, z2, Only(<<2, x>>, 2, v2))
    BY <1>3, <2>1
  <2>4. Writes(<<2, x>>, a1 \o a2, z, <<v1, v2>>)
    BY <2>1, <2>2, <2>3, TwoFieldsWrite
  <2> QED
    BY <1>4, <2>1, <2>4
<1>6. bs = Front(z, a)
  BY DEF MsgCreateIdentity_Marshal, MsgCreateIdentity_Size
<1> HIDE DEF wt, a, z, g
<1>7. a \in Bytes /\ Front(z, a) = a /\ (Fits(a) => Scan(wt, a) = Found(g, <<>>))
  BY <1>1, <1>5, PlainFound
<1>8. bs \in Bytes /\ (Fits(bs) => Scan(wt, bs) = Found(g, <<>>))
  BY <1>6, <1>7
<1> QED
  BY <1>8 DEF wt, g

(* The gogo form is read as it was written.                                *)
LEMMA MsgCreateIdentity_PlainBack ==
  ASSUME NEW m \in PlainMsgCreateIdentitySet, NEW bs, bs = MsgCreateIdentity_Marshal(m)
  PROVE  bs \in Bytes /\ (Fits(bs) => MsgCreateIdentity_Unmarshal(bs) = Ok(m, 0))
<1> DEFINE wt == <<2, 2>>
           g == MsgCreateIdentity_PlainRow(m)
<1>1. bs \in Bytes /\ (Fits(bs) => Scan(wt, bs) = Found(g, <<>>))
  BY MsgCreateIdentity_PlainFound
<1>2. IsTable(wt) /\ 1 \in DOMAIN wt /\ wt[1] = 2 /\ 2 \in DOMAIN wt /\ wt[2] = 2
  BY Tables
<1> SUFFICES ASSUME Fits(bs)
             PROVE  MsgCreateIdentity_Unmarshal(bs) = Ok(m, 0)
  BY <1>1
<1> DEFINE s == Scan(wt, bs)
<1>3. MsgCreateIdentity_Unmarshal(bs) =
        IF s.st # "ok" THEN s ELSE
        Ok([creator |-> StringOf(s, 1), cccdId |-> StringOf(s, 2)], 0)
  BY DEF MsgCreateIdentity_Unmarshal, Then
<1>4. s = Found(g, <<>>) /\ s.st = "ok" /\ s.fields = g /\ s.unknown = <<>>
  <2>1. s = Found(g, <<>>)
    BY <1>1
  <2> HIDE DEF s, g
  <2> QED
    BY <2>1 DEF Found
<1>6. StringOf(s, 1) = m.creator
  <2>1. s.fields[1] = StringValues(m.creator)
    BY <1>4 DEF MsgCreateIdentity_PlainRow
  <2> HIDE DEF s
  <2> QED
    BY <2>1, StringBack
<1>7. StringOf(s, 2) = m.cccdId
  <2>1. s.fields[2] = StringValues(m.cccdId)
    BY <1>4 DEF MsgCreateIdentity_PlainRow
  <2> HIDE DEF s
  <2> QED
    BY <2>1, StringBack
<1>8. m = [creator |-> m.creator, cccdId |-> m.cccdId]
  BY DEF PlainMsgCreateIdentitySet
<1> HIDE DEF s
<1> QED
  BY <1>3, <1>4, <1>6, <1>7, <1>8

MsgCreateIdentityResponse_Row(m) == <<>>

(* What a scan finds in the pulsar form.                                   *)
LEMMA MsgCreateIdentityResponse_Found ==
  ASSUME NEW m \in MsgCreateIdentityResponseSet, NEW bs, bs = MsgCreateIdentityResponse_marshal(m)
  PROVE  /\ bs \in Bytes
         /\ Fits(bs) => Scan(<<>>, bs) = Found(MsgCreateIdentityResponse_Row(m), m.unknown)
<1> DEFINE wt == <<>>
           a == <<>>
           z == 0
           g == MsgCreateIdentityResponse_Row(m)
           u == m.unknown
<1>1. IsTable(wt)
  BY Tables
<1>3. Writes(wt, a, z, g)
  BY NoFieldWrites DEF MsgCreateIdentityResponse_Row
<1>4. u \in Kept(wt)
  BY DEF MsgCreateIdentityResponseSet
<1>5. bs = Fill(z + Len(u), a \o u)
  <2>1. <<>> \o u = u /\ 0 + Len(u) = Len(u)
    <3>1. u \in Bytes
      BY <1>4 DEF Kept
    <3> HIDE DEF u
    <3>2. <<>> \o u = u
      BY <3>1, JoinNothing
    <3> QED
      BY <3>1, <3>2 DEF Bytes
  <2> QED
    BY <2>1 DEF MsgCreateIdentityResponse_marshal, MsgCreateIdentityResponse_size
<1> HIDE DEF wt, a, z, g, u
<1>6. bs \in Bytes /\ (Fits(bs) => Scan(wt, bs) = Found(g, u))
  BY <1>1, <1>3, <1>4, <1>5, MessageFound
<1> QED
  BY <1>6 DEF wt, g, u

(* The pulsar form is read as it was written.                              *)
LEMMA MsgCreateIdentityResponse_Back ==
  ASSUME NEW m \in MsgCreateIdentityResponseSet, NEW bs, bs = MsgCreateIdentityResponse_marshal(m)
  PROVE  bs \in Bytes /\ (Fits(bs) => MsgCreateIdentityResponse_unmarshal(bs) = Ok(m, 0))
<1> DEFINE wt == <<>>
           g == MsgCreateIdentityResponse_Row(m)
<1>1. bs \in Bytes /\ (Fits(bs) => Scan(wt, bs) = Found(g, m.unknown))
  BY MsgCreateIdentityResponse_Found
<1>2. IsTable(wt)
  BY Tables
<1> SUFFICES ASSUME Fits(bs)
             PROVE  MsgCreateIdentityResponse_unmarshal(bs) = Ok(m, 0)
  BY <1>1
<1> DEFINE s == Scan(wt, bs)
<1>3. MsgCreateIdentityResponse_unmarshal(bs) =
        IF s.st # "ok" THEN s ELSE
        Ok([unknown |-> s.unknown], 0)
  BY DEF MsgCreateIdentityResponse_unmarshal, Then
<1>4. s = Found(g, m.unknown) /\ s.st = "ok" /\ s.fields = g /\ s.unknown = m.unknown
  <2>1. s = Found(g, m.unknown)
    BY <1>1
  <2> HIDE DEF s, g
  <2> QED
    BY <2>1 DEF Found
<1>6. m = [unknown |-> m.unknown]
  BY DEF MsgCreateIdentityResponseSet
<1> HIDE DEF s
<1> QED
  BY <1>3, <1>4, <1>6

MsgCreateIdentityResponse_PlainRow(m) == <<>>

(* What a scan finds in the gogo form.                                     *)
LEMMA MsgCreateIdentityResponse_PlainFound ==
  ASSUME NEW m \in PlainMsgCreateIdentityResponseSet, NEW bs, bs =
         MsgCreateIdentityResponse_Marshal(m)
  PROVE  /\ bs \in Bytes
         /\ Fits(bs) => Scan(<<>>, bs) = Found(MsgCreateIdentityResponse_PlainRow(m), <<>>)
<1> DEFINE wt == <<>>
           a == <<>>
           z == 0
           g == MsgCreateIdentityResponse_PlainRow(m)
<1>1. IsTable(wt)
  BY Tables
<1>3. Writes(wt, a, z, g)
  BY NoFieldWrites DEF MsgCreateIdentityResponse_PlainRow
<1>4. bs = Front(z, a)
  BY DEF MsgCreateIdentityResponse_Marshal, MsgCreateIdentityResponse_Size
<1> HIDE DEF wt, a, z, g
<1>5. a \in Bytes /\ Front(z, a) = a /\ (Fits(a) => Scan(wt, a) = Found(g, <<>>))
  BY <1>1, <1>3, PlainFound
<1>6. bs \in Bytes /\ (Fits(bs) => Scan(wt, bs) = Found(g, <<>>))
  BY <1>4, <1>5
<1> QED
  BY <1>6 DEF wt, g

(* The gogo form is read as it was written.                                *)
LEMMA MsgCreateIdentityResponse_PlainBack ==
  ASSUME NEW m \in PlainMsgCreateIdentityResponseSet, NEW bs, bs =
         MsgCreateIdentityResponse_Marshal(m)
  PROVE  bs \in Bytes /\ (Fits(bs) => MsgCreateIdentityResponse_Unmarshal(bs) = Ok(m, 0))
<1> DEFINE wt == <<>>
           g == MsgCreateIdentityResponse_PlainRow(m)
<1>1. bs \in Bytes /\ (Fits(bs) => Scan(wt, bs) = Found(g, <<>>))
  BY MsgCreateIdentityResponse_PlainFound
<1>2. IsTable(wt)
  BY Tables
<1> SUFFICES ASSUME Fits(bs)
             PROVE  MsgCreateIdentityResponse_Unmarshal(bs) = Ok(m, 0)
  BY <1>1
<1> DEFINE s == Scan(wt, bs)
<1>3. MsgCreateIdentityResponse_Unmarshal(bs) =
        IF s.st # "ok" THEN s ELSE
        Ok(NoFields, 0)
  BY DEF MsgCreateIdentityResponse_Unmarshal, Then
<1>4. s = Found(g, <<>>) /\ s.st = "ok" /\ s.fields = g /\ s.unknown = <<>>
  <2>1. s = Found(g, <<>>)
    BY <1>1
  <2> HIDE DEF s, g
  <2> QED
    BY <2>1 DEF Found
<1>6. m = NoFields
  BY DEF PlainMsgCreateIdentityResponseSet
<1> HIDE DEF s
<1> QED
  BY <1>3, <1>4, <1>6

QueryParamsRequest_Row(m) == <<>>

(* What a scan finds in the pulsar form.                                   *)
LEMMA QueryParamsRequest_Found ==
  ASSUME NEW m \in QueryParamsRequestSet, NEW bs, bs = QueryParamsRequest_marshal(m)
  PROVE  /\ bs \in Bytes
         /\ Fits(bs) => Scan(<<>>, bs) = Found(QueryParamsRequest_Row(m), m.unknown)
<1> DEFINE wt == <<>>
           a == <<>>
           z == 0
           g == QueryParamsRequest_Row(m)
           u == m.unknown
<1>1. IsTable(wt)
  BY Tables
<1>3. Writes(wt, a, z, g)
  BY NoFieldWrites DEF QueryParamsRequest_Row
<1>4. u \in Kept(wt)
  BY DEF QueryParamsRequestSet
<1>5. bs = Fill(z + Len(u), a \o u)
  <2>1. <<>> \o u = u /\ 0 + Len(u) = Len(u)
    <3>1. u \in Bytes
      BY <1>4 DEF Kept
    <3> HIDE DEF u
    <3>2. <<>> \o u = u
      BY <3>1, JoinNothing
    <3> QED
      BY <3>1, <3>2 DEF Bytes
  <2> QED
    BY <2>1 DEF QueryParamsRequest_marshal, QueryParamsRequest_size
<1> HIDE DEF wt, a, z, g, u
<1>6. bs \in Bytes /\ (Fits(bs) => Scan(wt, bs) = Found(g, u))
  BY <1>1, <1>3, <1>4, <1>5, MessageFound
<1> QED
  BY <1>6 DEF wt, g, u

(* The pulsar form is read as it was written.                              *)
LEMMA QueryParamsRequest_Back ==
  ASSUME NEW m \in QueryParamsRequestSet, NEW bs, bs = QueryParamsRequest_marshal(m)
  PROVE  bs \in Bytes /\ (Fits(bs) => QueryParamsRequest_unmarshal(bs) = Ok(m, 0))
<1> DEFINE wt == <<>>
           g == QueryParamsRequest_Row(m)
<1>1. bs \in Bytes /\ (Fits(bs) => Scan(wt, bs) = Found(g, m.unknown))
  BY QueryParamsRequest_Found
<1>2. IsTable(wt)
  BY Tables
<1> SUFFICES ASSUME Fits(bs)
             PROVE  QueryParamsRequest_unmarshal(bs) = Ok(m, 0)
  BY <1>1
<1> DEFINE s == Scan(wt, bs)
<1>3. QueryParamsRequest_unmarshal(bs) =
        IF s.st # "ok" THEN s ELSE
        Ok([unknown |-> s.unknown], 0)
  BY DEF QueryParamsRequest_unmarshal, Then
<1>4. s = Found(g, m.unknown) /\ s.st = "ok" /\ s.fields = g /\ s.unknown = m.unknown
  <2>1. s = Found(g, m.unknown)
    BY <1>1
  <2> HIDE DEF s, g
  <2> QED
    BY <2>1 DEF Found
<1>6. m = [unknown |-> m.unknown]
  BY DEF QueryParamsRequestSet
<1> HIDE DEF s
<1> QED
  BY <1>3, <1>4, <1>6

QueryParamsRequest_PlainRow(m) == <<>>

(* What a scan finds in the gogo form.                                     *)
LEMMA QueryParamsRequest_PlainFound ==
  ASSUME NEW m \in PlainQueryParamsRequestSet, NEW bs, bs = QueryParamsRequest_Marshal(m)
  PROVE  /\ bs \in Bytes
         /\ Fits(bs) => Scan(<<>>, bs) = Found(QueryParamsRequest_PlainRow(m), <<>>)
<1> DEFINE wt == <<>>
           a == <<>>
           z == 0
           g == QueryParamsRequest_PlainRow(m)
<1>1. IsTable(wt)
  BY Tables
<1>3. Writes(wt, a, z, g)
  BY NoFieldWrites DEF QueryParamsRequest_PlainRow
<1>4. bs = Front(z, a)
  BY DEF QueryParamsRequest_Marshal, QueryParamsRequest_Size
<1> HIDE DEF wt, a, z, g
<1>5. a \in Bytes /\ Front(z, a) = a /\ (Fits(a) => Scan(wt, a) = Found(g, <<>>))
  BY <1>1, <1>3, PlainFound
<1>6. bs \in Bytes /\ (Fits(bs) => Scan(wt, bs) = Found(g, <<>>))
  BY <1>4, <1>5
<1> QED
  BY <1>6 DEF wt, g

(* The gogo form is read as it was written.                                *)
LEMMA QueryParamsRequest_PlainBack ==
  ASSUME NEW m \in PlainQueryParamsRequestSet, NEW bs, bs = QueryParamsRequest_Marshal(m)
  PROVE  bs \in Bytes /\ (Fits(bs) => QueryParamsRequest_Unmarshal(bs) = Ok(m, 0))
<1> DEFINE wt == <<>>
           g == QueryParamsRequest_PlainRow(m)
<1>1. bs \in Bytes /\ (Fits(bs) => Scan(wt, bs) = Found(g, <<>>))
  BY QueryParamsRequest_PlainFound
<1>2. IsTable(wt)
  BY Tables
<1> SUFFICES ASSUME Fits(bs)
             PROVE  QueryParamsRequest_Unmarshal(bs) = Ok(m, 0)
  BY <1>1
<1> DEFINE s == Scan(wt, bs)
<1>3. QueryParamsRequest_Unmarshal(bs) =
        IF s.st # "ok" THEN s ELSE
        Ok(NoFields, 0)
  BY DEF QueryParamsRequest_Unmarshal, Then
<1>4. s = Found(g, <<>>) /\ s.st = "ok" /\ s.fields = g /\ s.unknown = <<>>
  <2>1. s = Found(g, <<>>)
    BY <1>1
  <2> HIDE DEF s, g
  <2> QED
    BY <2>1 DEF Found
<1>6. m = NoFields
  BY DEF PlainQueryParamsRequestSet
<1> HIDE DEF s
<1> QED
  BY <1>3, <1>4, <1>6

QueryParamsResponse_Row(m) == <<Params_Encoded(m.params)>>

(* What a scan finds in the pulsar form.                                   *)
LEMMA QueryParamsResponse_Found ==
  ASSUME NEW m \in QueryParamsResponseSet, NEW bs, bs = QueryParamsResponse_marshal(m)
  PROVE  /\ bs \in Bytes
         /\ Fits(bs) => Scan(<<2>>, bs) = Found(QueryParamsResponse_Row(m), m.unknown)
<1> DEFINE wt == <<2>>
           a1 == MessagesField(1, Params_marshal, m.params)
           z1 == MessagesSize(Params_size, m.params)
           v1 == Params_Encoded(m.params)
           a == a1
           z == z1
           g == QueryParamsResponse_Row(m)
           u == m.unknown
<1>1. IsTable(wt) /\ 1 \in DOMAIN wt /\ wt[1] = 2
  BY Tables
<1>2. Writes(wt, a1, z1, Only(wt, 1, v1))
  <2>1. m.params \in Seq(ParamsSet)
    <3>1. m.params \in Pointer(ParamsSet)
      BY DEF QueryParamsResponseSet
    <3> QED
      BY <3>1, PointerList
  <2>2. 1 \in 1 .. 7
    OBVIOUS
  <2> HIDE DEF wt
  <2> QED
    BY <1>1, <2>1, <2>2, Params_ListWrites
<1>3. g = <<v1>>
  BY DEF QueryParamsResponse_Row
<1>4. Writes(wt, a, z, g)
  <2> HIDE DEF a1, z1, v1, g
  <2>1. Writes(<<2>>, a1, z1, <<v1>>)
    BY <1>2, OneFieldWrites
  <2> QED
    BY <1>3, <2>1
<1>5. u \in Kept(wt)
  BY DEF QueryParamsResponseSet
<1>6. bs = Fill(z + Len(u), a \o u)
  BY DEF QueryParamsResponse_marshal, QueryParamsResponse_size
<1> HIDE DEF wt, a, z, g, u
<1>7. bs \in Bytes /\ (Fits(bs) => Scan(wt, bs) = Found(g, u))
  BY <1>1, <1>4, <1>5, <1>6, MessageFound
<1> QED
  BY <1>7 DEF wt, g, u

(* The pulsar form is read as it was written.                              *)
LEMMA QueryParamsResponse_Back ==
  ASSUME NEW m \in QueryParamsResponseSet, NEW bs, bs = QueryParamsResponse_marshal(m)
  PROVE  bs \in Bytes /\ (Fits(bs) => QueryParamsResponse_unmarshal(bs) = Ok(m, 0))
<1> DEFINE wt == <<2>>
           g == QueryParamsResponse_Row(m)
<1>1. bs \in Bytes /\ (Fits(bs) => Scan(wt, bs) = Found(g, m.unknown))
  BY QueryParamsResponse_Found
<1>2. IsTable(wt) /\ 1 \in DOMAIN wt /\ wt[1] = 2
  BY Tables
<1> SUFFICES ASSUME Fits(bs)
             PROVE  QueryParamsResponse_unmarshal(bs) = Ok(m, 0)
  BY <1>1
<1> DEFINE s == Scan(wt, bs)
           p1 == TheParams_unmarshal(Values(s, 1))
<1>3. QueryParamsResponse_unmarshal(bs) =
        IF s.st # "ok" THEN s ELSE
        IF p1.st # "ok" THEN p1 ELSE
        Ok([params |-> p1.v, unknown |-> s.unknown], 0)
  BY DEF QueryParamsResponse_unmarshal, Then, TheParams_unmarshal
<1>4. s = Found(g, m.unknown) /\ s.st = "ok" /\ s.fields = g /\ s.unknown = m.unknown
  <2>1. s = Found(g, m.unknown)
    BY <1>1
  <2> HIDE DEF s, g
  <2> QED
    BY <2>1 DEF Found
<1>5. Roomy(wt, s.fields, Len(bs)) /\ bs \in Buffers
  <2>1. bs \in Buffers /\ s = Scan(wt, bs) /\ s # Failed
    <3>1. bs \in Buffers /\ s = Scan(wt, bs)
      BY <1>1 DEF Buffers
    <3> HIDE DEF s
    <3> QED
      BY <1>4, <3>1 DEF Failed
  <2> HIDE DEF s, wt
  <2> QED
    BY <1>2, <2>1, ScanFinds
<1>6. p1 = Ok(m.params, 0)
  <2>1. Values(s, 1) = Params_Encoded(m.params)
    BY <1>4 DEF QueryParamsResponse_Row, Values
  <2>2. Readable(Values(s, 1))
    <3> HIDE DEF s, wt
    <3> QED
      BY <1>2, <1>5, ValuesReadable
  <2>3. m.params \in Pointer(ParamsSet)
    BY DEF QueryParamsResponseSet
  <2> HIDE DEF s
  <2>4. TheParams_unmarshal(Params_Encoded(m.params)) = Ok(m.params, 0)
    BY <2>1, <2>2, <2>3, TheParamsBack
  <2> QED
    BY <2>1, <2>4
<1>7. p1.st = "ok" /\ p1.v = m.params
  <2> HIDE DEF p1
  <2> QED
    BY <1>6, OkParts
<1>8. m = [params |-> m.params, unknown |-> m.unknown]
  BY DEF QueryParamsResponseSet
<1> HIDE DEF s, p1
<1> QED
  BY <1>3, <1>4, <1>7, <1>8

QueryParamsResponse_PlainRow(m) == <<Params_PlainEncoded(<<m.params>>)>>

(* What a scan finds in the gogo form.                                     *)
LEMMA QueryParamsResponse_PlainFound ==
  ASSUME NEW m \in PlainQueryParamsResponseSet, NEW bs, bs = QueryParamsResponse_Marshal(m)
  PROVE  /\ bs \in Bytes
         /\ Fits(bs) => Scan(<<2>>, bs) = Found(QueryParamsResponse_PlainRow(m), <<>>)
<1> DEFINE wt == <<2>>
           a1 == MessagesField(1, Params_MarshalToSizedBuffer, <<m.params>>)
           z1 == MessagesSize(Params_Size, <<m.params>>)
           v1 == Params_PlainEncoded(<<m.params>>)
           a == a1
           z == z1
           g == QueryParamsResponse_PlainRow(m)
<1>1. IsTable(wt) /\ 1 \in DOMAIN wt /\ wt[1] = 2
  BY Tables
<1>2. Writes(wt, a1, z1, Only(wt, 1, v1))
  <2>1. <<m.params>> \in Seq(PlainParamsSet)
    BY DEF PlainQueryParamsResponseSet
  <2>2. 1 \in 1 .. 7
    OBVIOUS
  <2> HIDE DEF wt
  <2> QED
    BY <1>1, <2>1, <2>2, Params_PlainListWrites
<1>3. g = <<v1>>
  BY DEF QueryParamsResponse_PlainRow
<1>4. Writes(wt, a, z, g)
  <2> HIDE DEF a1, z1, v1, g
  <2>1. Writes(<<2>>, a1, z1, <<v1>>)
    BY <1>2, OneFieldWrites
  <2> QED
    BY <1>3, <2>1
<1>5. bs = Front(z, a)
  BY DEF QueryParamsResponse_Marshal, QueryParamsResponse_Size
<1> HIDE DEF wt, a, z, g
<1>6. a \in Bytes /\ Front(z, a) = a /\ (Fits(a) => Scan(wt, a) = Found(g, <<>>))
  BY <1>1, <1>4, PlainFound
<1>7. bs \in Bytes /\ (Fits(bs) => Scan(wt, bs) = Found(g, <<>>))
  BY <1>5, <1>6
<1> QED
  BY <1>7 DEF wt, g

(* The gogo form is read as it was written.                                *)
LEMMA QueryParamsResponse_PlainBack ==
  ASSUME NEW m \in PlainQueryParamsResponseSet, NEW bs, bs = QueryParamsResponse_Marshal(m)
  PROVE  bs \in Bytes /\ (Fits(bs) => QueryParamsResponse_Unmarshal(bs) = Ok(m, 0))
<1> DEFINE wt == <<2>>
           g == QueryParamsResponse_PlainRow(m)
<1>1. bs \in Bytes /\ (Fits(bs) => Scan(wt, bs) = Found(g, <<>>))
  BY QueryParamsResponse_PlainFound
<1>2. IsTable(wt) /\ 1 \in DOMAIN wt /\ wt[1] = 2
  BY Tables
<1> SUFFICES ASSUME Fits(bs)
             PROVE  QueryParamsResponse_Unmarshal(bs) = Ok(m, 0)
  BY <1>1
<1> DEFINE s == Scan(wt, bs)
           p1 == TheParams_Unmarshal(Values(s, 1))
<1>3. QueryParamsResponse_Unmarshal(bs) =
        IF s.st # "ok" THEN s ELSE
        IF p1.st # "ok" THEN p1 ELSE
        Ok([params |-> p1.v], 0)
  BY DEF QueryParamsResponse_Unmarshal, Then, TheParams_Unmarshal
<1>4. s = Found(g, <<>>) /\ s.st = "ok" /\ s.fields = g /\ s.unknown = <<>>
  <2>1. s = Found(g, <<>>)
    BY <1>1
  <2> HIDE DEF s, g
  <2> QED
    BY <2>1 DEF Found
<1>5. Roomy(wt, s.fields, Len(bs)) /\ bs \in Buffers
  <2>1. bs \in Buffers /\ s = Scan(wt, bs) /\ s # Failed
    <3>1. bs \in Buffers /\ s = Scan(wt, bs)
      BY <1>1 DEF Buffers
    <3> HIDE DEF s
    <3> QED
      BY <1>4, <3>1 DEF Failed
  <2> HIDE DEF s, wt
  <2> QED
    BY <1>2, <2>1, ScanFinds
<1>6. p1 = Ok(m.params, 0)
  <2>1. Values(s, 1) = Params_PlainEncoded(<<m.params>>)
    BY <1>4 DEF QueryParamsResponse_PlainRow, Values
  <2>2. Readable(Values(s, 1))
    <3> HIDE DEF s, wt
    <3> QED
      BY <1>2, <1>5, ValuesReadable
  <2>3. m.params \in PlainParamsSet
    BY DEF PlainQueryParamsResponseSet
  <2> HIDE DEF s
  <2>4. TheParams_Unmarshal(Params_PlainEncoded(<<m.params>>)) = Ok(m.params, 0)
    BY <2>1, <2>2, <2>3, TheParamsPlainBack
  <2> QED
    BY <2>1, <2>4
<1>7. p1.st = "ok" /\ p1.v = m.params
  <2> HIDE DEF p1
  <2> QED
    BY <1>6, OkParts
<1>8. m = [params |-> m.params]
  BY DEF PlainQueryParamsResponseSet
<1> HIDE DEF s, p1
<1> QED
  BY <1>3, <1>4, <1>7, <1>8

QueryGetIdentityRequest_Row(m) == <<StringValues(m.address)>>

(* What a scan finds in the pulsar form.                                   *)
LEMMA QueryGetIdentityRequest_Found ==
  ASSUME NEW m \in QueryGetIdentityRequestSet, NEW bs, bs = QueryGetIdentityRequest_marshal(m)
  PROVE  /\ bs \in Bytes
         /\ Fits(bs) => Scan(<<2>>, bs) = Found(QueryGetIdentityRequest_Row(m), m.unknown)
<1> DEFINE wt == <<2>>
           a1 == StringField(1, m.address)
           z1 == StringSize(m.address)
           v1 == StringValues(m.address)
           a == a1
           z == z1
           g == QueryGetIdentityRequest_Row(m)
           u == m.unknown
<1>1. IsTable(wt) /\ 1 \in DOMAIN wt /\ wt[1] = 2
  BY Tables
<1>2. Writes(wt, a1, z1, Only(wt, 1, v1))
  <2>1. m.address \in Bytes
    BY DEF QueryGetIdentityRequestSet
  <2>2. 1 \in 1 .. 7
    OBVIOUS
  <2> HIDE DEF wt
  <2> QED
    BY <1>1, <2>1, <2>2, StringWrites
<1>3. g = <<v1>>
  BY DEF QueryGetIdentityRequest_Row
<1>4. Writes(wt, a, z, g)
  <2> HIDE DEF a1, z1, v1, g
  <2>1. Writes(<<2>>, a1, z1, <<v1>>)
    BY <1>2, OneFieldWrites
  <2> QED
    BY <1>3, <2>1
<1>5. u \in Kept(wt)
  BY DEF QueryGetIdentityRequestSet
<1>6. bs = Fill(z + Len(u), a \o u)
  BY DEF QueryGetIdentityRequest_marshal, QueryGetIdentityRequest_size
<1> HIDE DEF wt, a, z, g, u
<1>7. bs \in Bytes /\ (Fits(bs) => Scan(wt, bs) = Found(g, u))
  BY <1>1, <1>4, <1>5, <1>6, MessageFound
<1> QED
  BY <1>7 DEF wt, g, u

(* The pulsar form is read as it was written.                              *)
LEMMA QueryGetIdentityRequest_Back ==
  ASSUME NEW m \in QueryGetIdentityRequestSet, NEW bs, bs = QueryGetIdentityRequest_marshal(m)
  PROVE  bs \in Bytes /\ (Fits(bs) => QueryGetIdentityRequest_unmarshal(bs) = Ok(m, 0))
<1> DEFINE wt == <<2>>
           g == QueryGetIdentityRequest_Row(m)
<1>1. bs \in Bytes /\ (Fits(bs) => Scan(wt, bs) = Found(g, m.unknown))
  BY QueryGetIdentityRequest_Found
<1>2. IsTable(wt) /\ 1 \in DOMAIN wt /\ wt[1] = 2
  BY Tables
<1> SUFFICES ASSUME Fits(bs)
             PROVE  QueryGetIdentityRequest_unmarshal(bs) = Ok(m, 0)
  BY <1>1
<1> DEFINE s == Scan(wt, bs)
<1>3. QueryGetIdentityRequest_unmarshal(bs) =
        IF s.st # "ok" THEN s ELSE
        Ok([address |-> StringOf(s, 1), unknown |-> s.unknown], 0)
  BY DEF QueryGetIdentityRequest_unmarshal, Then
<1>4. s = Found(g, m.unknown) /\ s.st = "ok" /\ s.fields = g /\ s.unknown = m.unknown
  <2>1. s = Found(g, m.unknown)
    BY <1>1
  <2> HIDE DEF s, g
  <2> QED
    BY <2>1 DEF Found
<1>6. StringOf(s, 1) = m.address
  <2>1. s.fields[1] = StringValues(m.address)
    BY <1>4 DEF QueryGetIdentityRequest_Row
  <2> HIDE DEF s
  <2> QED
    BY <2>1, StringBack
<1>7. m = [address |-> m.address, unknown |-> m.unknown]
  BY DEF QueryGetIdentityRequestSet
<1> HIDE DEF s
<1> QED
  BY <1>3, <1>4, <1>6, <1>7

QueryGetIdentityRequest_PlainRow(m) == <<StringValues(m.address)>>

(* What a scan finds in the gogo form.                                     *)
LEMMA QueryGetIdentityRequest_PlainFound ==
  ASSUME NEW m \in PlainQueryGetIdentityRequestSet, NEW bs, bs = QueryGetIdentityRequest_Marshal(m)
  PROVE  /\ bs \in Bytes
         /\ Fits(bs) => Scan(<<2>>, bs) = Found(QueryGetIdentityRequest_PlainRow(m), <<>>)
<1> DEFINE wt == <<2>>
           a1 == StringField(1, m.address)
           z1 == StringSize(m.address)
           v1 == StringValues(m.address)
           a == a1
           z == z1
           g == QueryGetIdentityRequest_PlainRow(m)
<1>1. IsTable(wt) /\ 1 \in DOMAIN wt /\ wt[1] = 2
  BY Tables
<1>2. Writes(wt, a1, z1, Only(wt, 1, v1))
  <2>1. m.address \in Bytes
    BY DEF PlainQueryGetIdentityRequestSet
  <2>2. 1 \in 1 .. 7
    OBVIOUS
  <2> HIDE DEF wt
  <2> QED
    BY <1>1, <2>1, <2>2, StringWrites
<1>3. g = <<v1>>
  BY DEF QueryGetIdentityRequest_PlainRow
<1>4. Writes(wt, a, z, g)
  <2> HIDE DEF a1, z1, v1, g
  <2>1. Writes(<<2>>, a1, z1, <<v1>>)
    BY <1>2, OneFieldWrites
  <2> QED
    BY <1>3, <2>1
<1>5. bs = Front(z, a)
  BY DEF QueryGetIdentityRequest_Marshal, QueryGetIdentityRequest_Size
<1> HIDE DEF wt, a, z, g
<1>6. a \in Bytes /\ Front(z, a) = a /\ (Fits(a) => Scan(wt, a) = Found(g, <<>>))
  BY <1>1, <1>4, PlainFound
<1>7. bs \in Bytes /\ (Fits(bs) => Scan(wt, bs) = Found(g, <<>>))
  BY <1>5, <1>6
<1> QED
  BY <1>7 DEF wt, g

(* The gogo form is read as it was written.                                *)
LEMMA QueryGetIdentityRequest_PlainBack ==
  ASSUME NEW m \in PlainQueryGetIdentityRequestSet, NEW bs, bs = QueryGetIdentityRequest_Marshal(m)
  PROVE  bs \in Bytes /\ (Fits(bs) => QueryGetIdentityRequest_Unmarshal(bs) = Ok(m, 0))
<1> DEFINE wt == <<2>>
           g == QueryGetIdentityRequest_PlainRow(m)
<1>1. bs \in Bytes /\ (Fits(bs) => Scan(wt, bs) = Found(g, <<>>))
  BY QueryGetIdentityRequest_PlainFound
<1>2. IsTable(wt) /\ 1 \in DOMAIN wt /\ wt[1] = 2
  BY Tables
<1> SUFFICES ASSUME Fits(bs)
             PROVE  QueryGetIdentityRequest_Unmarshal(bs) = Ok(m, 0)
  BY <1>1
<1> DEFINE s == Scan(wt, bs)
<1>3. QueryGetIdentityRequest_Unmarshal(bs) =
        IF s.st # "ok" THEN s ELSE
        Ok([address |-> StringOf(s, 1)], 0)
  BY DEF QueryGetIdentityRequest_Unmarshal, Then
<1>4. s = Found(g, <<>>) /\ s.st = "ok" /\ s.fields = g /\ s.unknown = <<>>
  <2>1. s = Found(g, <<>>)
    BY <1>1
  <2> HIDE DEF s, g
  <2> QED
    BY <2>1 DEF Found
<1>6. StringOf(s, 1) = m.address
  <2>1. s.fields[1] = StringValues(m.address)
    BY <1>4 DEF QueryGetIdentityRequest_PlainRow
  <2> HIDE DEF s
  <2> QED
    BY <2>1, StringBack
<1>7. m = [address |-> m.address]
  BY DEF PlainQueryGetIdentityRequestSet
<1> HIDE DEF s
<1> QED
  BY <1>3, <1>4, <1>6, <1>7

QueryGetIdentityResponse_Row(m) == <<Identity_Encoded(m.identity)>>

(* What a scan finds in the pulsar form.                                   *)
LEMMA QueryGetIdentityResponse_Found ==
  ASSUME NEW m \in QueryGetIdentityResponseSet, NEW bs, bs = QueryGetIdentityResponse_marshal(m)
  PROVE  /\ bs \in Bytes
         /\ Fits(bs) => Scan(<<2>>, bs) = Found(QueryGetIdentityResponse_Row(m), m.unknown)
<1> DEFINE wt == <<2>>
           a1 == MessagesField(1, Identity_marshal, m.identity)
           z1 == MessagesSize(Identity_size, m.identity)
           v1 == Identity_Encoded(m.identity)
           a == a1
           z == z1
           g == QueryGetIdentityResponse_Row(m)
           u == m.unknown
<1>1. IsTable(wt) /\ 1 \in DOMAIN wt /\ wt[1] = 2
  BY Tables
<1>2. Writes(wt, a1, z1, Only(wt, 1, v1))
  <2>1. m.identity \in Seq(IdentitySet)
    <3>1. m.identity \in Pointer(IdentitySet)
      BY DEF QueryGetIdentityResponseSet
    <3> QED
      BY <3>1, PointerList
  <2>2. 1 \in 1 .. 7
    OBVIOUS
  <2> HIDE DEF wt
  <2> QED
    BY <1>1, <2>1, <2>2, Identity_ListWrites
<1>3. g = <<v1>>
  BY DEF QueryGetIdentityResponse_Row
<1>4. Writes(wt, a, z, g)
  <2> HIDE DEF a1, z1, v1, g
  <2>1. Writes(<<2>>, a1, z1, <<v1>>)
    BY <1>2, OneFieldWrites
  <2> QED
    BY <1>3, <2>1
<1>5. u \in Kept(wt)
  BY DEF QueryGetIdentityResponseSet
<1>6. bs = Fill(z + Len(u), a \o u)
  BY DEF QueryGetIdentityResponse_marshal, QueryGetIdentityResponse_size
<1> HIDE DEF wt, a, z, g, u
<1>7. bs \in Bytes /\ (Fits(bs) => Scan(wt, bs) = Found(g, u))
  BY <1>1, <1>4, <1>5, <1>6, MessageFound
<1> QED
  BY <1>7 DEF wt, g, u

(* The pulsar form is read as it was written.                              *)
LEMMA QueryGetIdentityResponse_Back ==
  ASSUME NEW m \in QueryGetIdentityResponseSet, NEW bs, bs = QueryGetIdentityResponse_marshal(m)
  PROVE  bs \in Bytes /\ (Fits(bs) => QueryGetIdentityResponse_unmarshal(bs) = Ok(m, 0))
<1> DEFINE wt == <<2>>
           g == QueryGetIdentityResponse_Row(m)
<1>1. bs \in Bytes /\ (Fits(bs) => Scan(wt, bs) = Found(g, m.unknown))
  BY QueryGetIdentityResponse_Found
<1>2. IsTable(wt) /\ 1 \in DOMAIN wt /\ wt[1] = 2
  BY Tables
<1> SUFFICES ASSUME Fits(bs)
             PROVE  QueryGetIdentityResponse_unmarshal(bs) = Ok(m, 0)
  BY <1>1
<1> DEFINE s == Scan(wt, bs)
           p1 == TheIdentity_unmarshal(Values(s, 1))
<1>3. QueryGetIdentityResponse_unmarshal(bs) =
        IF s.st # "ok" THEN s ELSE
        IF p1.st # "ok" THEN p1 ELSE
        Ok([identity |-> p1.v, unknown |-> s.unknown], 0)
  BY DEF QueryGetIdentityResponse_unmarshal, Then, TheIdentity_unmarshal
<1>4. s = Found(g, m.unknown) /\ s.st = "ok" /\ s.fields = g /\ s.unknown = m.unknown
  <2>1. s = Found(g, m.unknown)
    BY <1>1
  <2> HIDE DEF s, g
  <2> QED
    BY <2>1 DEF Found
<1>5. Roomy(wt, s.fields, Len(bs)) /\ bs \in Buffers
  <2>1. bs \in Buffers /\ s = Scan(wt, bs) /\ s # Failed
    <3>1. bs \in Buffers /\ s = Scan(wt, bs)
      BY <1>1 DEF Buffers
    <3> HIDE DEF s
    <3> QED
      BY <1>4, <3>1 DEF Failed
  <2> HIDE DEF s, wt
  <2> QED
    BY <1>2, <2>1, ScanFinds
<1>6. p1 = Ok(m.identity, 0)
  <2>1. Values(s, 1) = Identity_Encoded(m.identity)
    BY <1>4 DEF QueryGetIdentityResponse_Row, Values
  <2>2. Readable(Values(s, 1))
    <3> HIDE DEF s, wt
    <3> QED
      BY <1>2, <1>5, ValuesReadable
  <2>3. m.identity \in Pointer(IdentitySet)
    BY DEF QueryGetIdentityResponseSet
  <2> HIDE DEF s
  <2>4. TheIdentity_unmarshal(Identity_Encoded(m.identity)) = Ok(m.identity, 0)
    BY <2>1, <2>2, <2>3, TheIdentityBack
  <2> QED
    BY <2>1, <2>4
<1>7. p1.st = "ok" /\ p1.v = m.identity
  <2> HIDE DEF p1
  <2> QED
    BY <1>6, OkParts
<1>8. m = [identity |-> m.identity, unknown |-> m.unknown]
  BY DEF QueryGetIdentityResponseSet
<1> HIDE DEF s, p1
<1> QED
  BY <1>3, <1>4, <1>7, <1>8

QueryGetIdentityResponse_PlainRow(m) == <<Identity_PlainEncoded(<<m.identity>>)>>

(* What a scan finds in the gogo form.                                     *)
LEMMA QueryGetIdentityResponse_PlainFound ==
  ASSUME NEW m \in PlainQueryGetIdentityResponseSet, NEW bs, bs =
         QueryGetIdentityResponse_Marshal(m)
  PROVE  /\ bs \in Bytes
         /\ Fits(bs) => Scan(<<2>>, bs) = Found(QueryGetIdentityResponse_PlainRow(m), <<>>)
<1> DEFINE wt == <<2>>
           a1 == MessagesField(1, Identity_MarshalToSizedBuffer, <<m.identity>>)
           z1 == MessagesSize(Identity_Size, <<m.identity>>)
           v1 == Identity_PlainEncoded(<<m.identity>>)
           a == a1
           z == z1
           g == QueryGetIdentityResponse_PlainRow(m)
<1>1. IsTable(wt) /\ 1 \in DOMAIN wt /\ wt[1] = 2
  BY Tables
<1>2. Writes(wt, a1, z1, Only(wt, 1, v1))
  <2>1. <<m.identity>> \in Seq(PlainIdentitySet)
    BY DEF PlainQueryGetIdentityResponseSet
  <2>2. 1 \in 1 .. 7
    OBVIOUS
  <2> HIDE DEF wt
  <2> QED
    BY <1>1, <2>1, <2>2, Identity_PlainListWrites
<1>3. g = <<v1>>
  BY DEF QueryGetIdentityResponse_PlainRow
<1>4. Writes(wt, a, z, g)
  <2> HIDE DEF a1, z1, v1, g
  <2>1. Writes(<<2>>, a1, z1, <<v1>>)
    BY <1>2, OneFieldWrites
  <2> QED
    BY <1>3, <2>1
<1>5. bs = Front(z, a)
  BY DEF QueryGetIdentityResponse_Marshal, QueryGetIdentityResponse_Size
<1> HIDE DEF wt, a, z, g
<1>6. a \in Bytes /\ Front(z, a) = a /\ (Fits(a) => Scan(wt, a) = Found(g, <<>>))
  BY <1>1, <1>4, PlainFound
<1>7. bs \in Bytes /\ (Fits(bs) => Scan(wt, bs) = Found(g, <<>>))
  BY <1>5, <1>6
<1> QED
  BY <1>7 DEF wt, g

(* The gogo form is read as it was written.                                *)
LEMMA QueryGetIdentityResponse_PlainBack ==
  ASSUME NEW m \in PlainQueryGetIdentityResponseSet, NEW bs, bs =
         QueryGetIdentityResponse_Marshal(m)
  PROVE  bs \in Bytes /\ (Fits(bs) => QueryGetIdentityResponse_Unmarshal(bs) = Ok(m, 0))
<1> DEFINE wt == <<2>>
           g == QueryGetIdentityResponse_PlainRow(m)
<1>1. bs \in Bytes /\ (Fits(bs) => Scan(wt, bs) = Found(g, <<>>))
  BY QueryGetIdentityResponse_PlainFound
<1>2. IsTable(wt) /\ 1 \in DOMAIN wt /\ wt[1] = 2
  BY Tables
<1> SUFFICES ASSUME Fits(bs)
             PROVE  QueryGetIdentityResponse_Unmarshal(bs) = Ok(m, 0)
  BY <1>1
<1> DEFINE s == Scan(wt, bs)
           p1 == TheIdentity_Unmarshal(Values(s, 1))
<1>3. QueryGetIdentityResponse_Unmarshal(bs) =
        IF s.st # "ok" THEN s ELSE
        IF p1.st # "ok" THEN p1 ELSE
        Ok([identity |-> p1.v], 0)
  BY DEF QueryGetIdentityResponse_Unmarshal, Then, TheIdentity_Unmarshal
<1>4. s = Found(g, <<>>) /\ s.st = "ok" /\ s.fields = g /\ s.unknown = <<>>
  <2>1. s = Found(g, <<>>)
    BY <1>1
  <2> HIDE DEF s, g
  <2> QED
    BY <2>1 DEF Found
<1>5. Roomy(wt, s.fields, Len(bs)) /\ bs \in Buffers
  <2>1. bs \in Buffers /\ s = Scan(wt, bs) /\ s # Failed
    <3>1. bs \in Buffers /\ s = Scan(wt, bs)
      BY <1>1 DEF Buffers
    <3> HIDE DEF s
    <3> QED
      BY <1>4, <3>1 DEF Failed
  <2> HIDE DEF s, wt
  <2> QED
    BY <1>2, <2>1, ScanFinds
<1>6. p1 = Ok(m.identity, 0)
  <2>1. Values(s, 1) = Identity_PlainEncoded(<<m.identity>>)
    BY <1>4 DEF QueryGetIdentityResponse_PlainRow, Values
  <2>2. Readable(Values(s, 1))
    <3> HIDE DEF s, wt
    <3> QED
      BY <1>2, <1>5, ValuesReadable
  <2>3. m.identity \in PlainIdentitySet
    BY DEF PlainQueryGetIdentityResponseSet
  <2> HIDE DEF s
  <2>4. TheIdentity_Unmarshal(Identity_PlainEncoded(<<m.identity>>)) = Ok(m.identity, 0)
    BY <2>1, <2>2, <2>3, TheIdentityPlainBack
  <2> QED
    BY <2>1, <2>4
<1>7. p1.st = "ok" /\ p1.v = m.identity
  <2> HIDE DEF p1
  <2> QED
    BY <1>6, OkParts
<1>8. m = [identity |-> m.identity]
  BY DEF PlainQueryGetIdentityResponseSet
<1> HIDE DEF s, p1
<1> QED
  BY <1>3, <1>4, <1>7, <1>8

QueryAllIdentityRequest_Row(m) == <<PageRequest_Encoded(m.pagination)>>

(* What a scan finds in the pulsar form.                                   *)
LEMMA QueryAllIdentityRequest_Found ==
  ASSUME NEW m \in QueryAllIdentityRequestSet, NEW bs, bs = QueryAllIdentityRequest_marshal(m)
  PROVE  /\ bs \in Bytes
         /\ Fits(bs) => Scan(<<2>>, bs) = Found(QueryAllIdentityRequest_Row(m), m.unknown)
<1> DEFINE wt == <<2>>
           a1 == MessagesField(1, PageRequest_marshal, m.pagination)
           z1 == MessagesSize(PageRequest_size, m.pagination)
           v1 == PageRequest_Encoded(m.pagination)
           a == a1
           z == z1
           g == QueryAllIdentityRequest_Row(m)
           u == m.unknown
<1>1. IsTable(wt) /\ 1 \in DOMAIN wt /\ wt[1] = 2
  BY Tables
<1>2. Writes(wt, a1, z1, Only(wt, 1, v1))
  <2>1. m.pagination \in Seq(PageRequestSet)
    <3>1. m.pagination \in Pointer(PageRequestSet)
      BY DEF QueryAllIdentityRequestSet
    <3> QED
      BY <3>1, PointerList
  <2>2. 1 \in 1 .. 7
    OBVIOUS
  <2> HIDE DEF wt
  <2> QED
    BY <1>1, <2>1, <2>2, PageRequest_ListWrites
<1>3. g = <<v1>>
  BY DEF QueryAllIdentityRequest_Row
<1>4. Writes(wt, a, z, g)
  <2> HIDE DEF a1, z1, v1, g
  <2>1. Writes(<<2>>, a1, z1, <<v1>>)
    BY <1>2, OneFieldWrites
  <2> QED
    BY <1>3, <2>1
<1>5. u \in Kept(wt)
  BY DEF QueryAllIdentityRequestSet
<1>6. bs = Fill(z + Len(u), a \o u)
  BY DEF QueryAllIdentityRequest_marshal, QueryAllIdentityRequest_size
<1> HIDE DEF wt, a, z, g, u
<1>7. bs \in Bytes /\ (Fits(bs) => Scan(wt, bs) = Found(g, u))
  BY <1>1, <1>4, <1>5, <1>6, MessageFound
<1> QED
  BY <1>7 DEF wt, g, u

(* The pulsar form is read as it was written.                              *)
LEMMA QueryAllIdentityRequest_Back ==
  ASSUME NEW m \in QueryAllIdentityRequestSet, NEW bs, bs = QueryAllIdentityRequest_marshal(m)
  PROVE  bs \in Bytes /\ (Fits(bs) => QueryAllIdentityRequest_unmarshal(bs) = Ok(m, 0))
<1> DEFINE wt == <<2>>
           g == QueryAllIdentityRequest_Row(m)
<1>1. bs \in Bytes /\ (Fits(bs) => Scan(wt, bs) = Found(g, m.unknown))
  BY QueryAllIdentityRequest_Found
<1>2. IsTable(wt) /\ 1 \in DOMAIN wt /\ wt[1] = 2
  BY Tables
<1> SUFFICES ASSUME Fits(bs)
             PROVE  QueryAllIdentityRequest_unmarshal(bs) = Ok(m, 0)
  BY <1>1
<1> DEFINE s == Scan(wt, bs)
           p1 == Paging_unmarshal(Values(s, 1))
<1>3. QueryAllIdentityRequest_unmarshal(bs) =
        IF s.st # "ok" THEN s ELSE
        IF p1.st # "ok" THEN p1 ELSE
        Ok([pagination |-> p1.v, unknown |-> s.unknown], 0)
  BY DEF QueryAllIdentityRequest_unmarshal, Then, Paging_unmarshal
<1>4. s = Found(g, m.unknown) /\ s.st = "ok" /\ s.fields = g /\ s.unknown = m.unknown
  <2>1. s = Found(g, m.unknown)
    BY <1>1
  <2> HIDE DEF s, g
  <2> QED
    BY <2>1 DEF Found
<1>5. Roomy(wt, s.fields, Len(bs)) /\ bs \in Buffers
  <2>1. bs \in Buffers /\ s = Scan(wt, bs) /\ s # Failed
    <3>1. bs \in Buffers /\ s = Scan(wt, bs)
      BY <1>1 DEF Buffers
    <3> HIDE DEF s
    <3> QED
      BY <1>4, <3>1 DEF Failed
  <2> HIDE DEF s, wt
  <2> QED
    BY <1>2, <2>1, ScanFinds
<1>6. p1 = Ok(m.pagination, 0)
  <2>1. Values(s, 1) = PageRequest_Encoded(m.pagination)
    BY <1>4 DEF QueryAllIdentityRequest_Row, Values
  <2>2. Readable(Values(s, 1))
    <3> HIDE DEF s, wt
    <3> QED
      BY <1>2, <1>5, ValuesReadable
  <2>3. m.pagination \in Pointer(PageRequestSet)
    BY DEF QueryAllIdentityRequestSet
  <2> HIDE DEF s
  <2>4. Paging_unmarshal(PageRequest_Encoded(m.pagination)) = Ok(m.pagination, 0)
    BY <2>1, <2>2, <2>3, PagingBack
  <2> QED
    BY <2>1, <2>4
<1>7. p1.st = "ok" /\ p1.v = m.pagination
  <2> HIDE DEF p1
  <2> QED
    BY <1>6, OkParts
<1>8. m = [pagination |-> m.pagination, unknown |-> m.unknown]
  BY DEF QueryAllIdentityRequestSet
<1> HIDE DEF s, p1
<1> QED
  BY <1>3, <1>4, <1>7, <1>8

QueryAllIdentityRequest_PlainRow(m) == <<PageRequest_PlainEncoded(m.pagination)>>

(* What a scan finds in the gogo form.                                     *)
LEMMA QueryAllIdentityRequest_PlainFound ==
  ASSUME NEW m \in PlainQueryAllIdentityRequestSet, NEW bs, bs = QueryAllIdentityRequest_Marshal(m)
  PROVE  /\ bs \in Bytes
         /\ Fits(bs) => Scan(<<2>>, bs) = Found(QueryAllIdentityRequest_PlainRow(m), <<>>)
<1> DEFINE wt == <<2>>
           a1 == MessagesField(1, PageRequest_MarshalToSizedBuffer, m.pagination)
           z1 == MessagesSize(PageRequest_Size, m.pagination)
           v1 == PageRequest_PlainEncoded(m.pagination)
           a == a1
           z == z1
           g == QueryAllIdentityRequest_PlainRow(m)
<1>1. IsTable(wt) /\ 1 \in DOMAIN wt /\ wt[1] = 2
  BY Tables
<1>2. Writes(wt, a1, z1, Only(wt, 1, v1))
  <2>1. m.pagination \in Seq(PlainPageRequestSet)
    <3>1. m.pagination \in Pointer(PlainPageRequestSet)
      BY DEF PlainQueryAllIdentityRequestSet
    <3> QED
      BY <3>1, PointerList
  <2>2. 1 \in 1 .. 7
    OBVIOUS
  <2> HIDE DEF wt
  <2> QED
    BY <1>1, <2>1, <2>2, PageRequest_PlainListWrites
<1>3. g = <<v1>>
  BY DEF QueryAllIdentityRequest_PlainRow
<1>4. Writes(wt, a, z, g)
  <2> HIDE DEF a1, z1, v1, g
  <2>1. Writes(<<2>>, a1, z1, <<v1>>)
    BY <1>2, OneFieldWrites
  <2> QED
    BY <1>3, <2>1
<1>5. bs = Front(z, a)
  BY DEF QueryAllIdentityRequest_Marshal, QueryAllIdentityRequest_Size
<1> HIDE DEF wt, a, z, g
<1>6. a \in Bytes /\ Front(z, a) = a /\ (Fits(a) => Scan(wt, a) = Found(g, <<>>))
  BY <1>1, <1>4, PlainFound
<1>7. bs \in Bytes /\ (Fits(bs) => Scan(wt, bs) = Found(g, <<>>))
  BY <1>5, <1>6
<1> QED
  BY <1>7 DEF wt, g

(* The gogo form is read as it was written.                                *)
LEMMA QueryAllIdentityRequest_PlainBack ==
  ASSUME NEW m \in PlainQueryAllIdentityRequestSet, NEW bs, bs = QueryAllIdentityRequest_Marshal(m)
  PROVE  bs \in Bytes /\ (Fits(bs) => QueryAllIdentityRequest_Unmarshal(bs) = Ok(m, 0))
<1> DEFINE wt == <<2>>
           g == QueryAllIdentityRequest_PlainRow(m)
<1>1. bs \in Bytes /\ (Fits(bs) => Scan(wt, bs) = Found(g, <<>>))
  BY QueryAllIdentityRequest_PlainFound
<1>2. IsTable(wt) /\ 1 \in DOMAIN wt /\ wt[1] = 2
  BY Tables
<1> SUFFICES ASSUME Fits(bs)
             PROVE  QueryAllIdentityRequest_Unmarshal(bs) = Ok(m, 0)
  BY <1>1
<1> DEFINE s == Scan(wt, bs)
           p1 == Paging_Unmarshal(Values(s, 1))
<1>3. QueryAllIdentityRequest_Unmarshal(bs) =
        IF s.st # "ok" THEN s ELSE
        IF p1.st # "ok" THEN p1 ELSE
        Ok([pagination |-> p1.v], 0)
  BY DEF QueryAllIdentityRequest_Unmarshal, Then, Paging_Unmarshal
<1>4. s = Found(g, <<>>) /\ s.st = "ok" /\ s.fields = g /\ s.unknown = <<>>
  <2>1. s = Found(g, <<>>)
    BY <1>1
  <2> HIDE DEF s, g
  <2> QED
    BY <2>1 DEF Found
<1>5. Roomy(wt, s.fields, Len(bs)) /\ bs \in Buffers
  <2>1. bs \in Buffers /\ s = Scan(wt, bs) /\ s # Failed
    <3>1. bs \in Buffers /\ s = Scan(wt, bs)
      BY <1>1 DEF Buffers
    <3> HIDE DEF s
    <3> QED
      BY <1>4, <3>1 DEF Failed
  <2> HIDE DEF s, wt
  <2> QED
    BY <1>2, <2>1, ScanFinds
<1>6. p1 = Ok(m.pagination, 0)
  <2>1. Values(s, 1) = PageRequest_PlainEncoded(m.pagination)
    BY <1>4 DEF QueryAllIdentityRequest_PlainRow, Values
  <2>2. Readable(Values(s, 1))
    <3> HIDE DEF s, wt
    <3> QED
      BY <1>2, <1>5, ValuesReadable
  <2>3. m.pagination \in Pointer(PlainPageRequestSet)
    BY DEF PlainQueryAllIdentityRequestSet
  <2> HIDE DEF s
  <2>4. Paging_Unmarshal(PageRequest_PlainEncoded(m.pagination)) = Ok(m.pagination, 0)
    BY <2>1, <2>2, <2>3, PagingPlainBack
  <2> QED
    BY <2>1, <2>4
<1>7. p1.st = "ok" /\ p1.v = m.pagination
  <2> HIDE DEF p1
  <2> QED
    BY <1>6, OkParts
<1>8. m = [pagination |-> m.pagination]
  BY DEF PlainQueryAllIdentityRequestSet
<1> HIDE DEF s, p1
<1> QED
  BY <1>3, <1>4, <1>7, <1>8

QueryAllIdentityResponse_Row(m) == <<Identity_Encoded(m.identity),
  PageResponse_Encoded(m.pagination)>>

(* What a scan finds in the pulsar form.                                   *)
LEMMA QueryAllIdentityResponse_Found ==
  ASSUME NEW m \in QueryAllIdentityResponseSet, NEW bs, bs = QueryAllIdentityResponse_marshal(m)
  PROVE  /\ bs \in Bytes
         /\ Fits(bs) => Scan(<<2, 2>>, bs) = Found(QueryAllIdentityResponse_Row(m), m.unknown)
<1> DEFINE wt == <<2, 2>>
           a1 == MessagesField(1, Identity_marshal, m.identity)
           z1 == MessagesSize(Identity_size, m.identity)
           v1 == Identity_Encoded(m.identity)
           a2 == MessagesField(2, PageResponse_marshal, m.pagination)
           z2 == MessagesSize(PageResponse_size, m.pagination)
           v2 == PageResponse_Encoded(m.pagination)
           a == a1 \o a2
           z == z1 + z2
           g == QueryAllIdentityResponse_Row(m)
           u == m.unknown
<1>1. IsTable(wt) /\ 1 \in DOMAIN wt /\ wt[1] = 2 /\ 2 \in DOMAIN wt /\ wt[2] = 2
  BY Tables
<1>2. Writes(wt, a1, z1, Only(wt, 1, v1))
  <2>1. m.identity \in Seq(IdentitySet)
    BY DEF QueryAllIdentityResponseSet
  <2>2. 1 \in 1 .. 7
    OBVIOUS
  <2> HIDE DEF wt
  <2> QED
    BY <1>1, <2>1, <2>2, Identity_ListWrites
<1>3. Writes(wt, a2, z2, Only(wt, 2, v2))
  <2>1. m.pagination \in Seq(PageResponseSet)
    <3>1. m.pagination \in Pointer(PageResponseSet)
      BY DEF QueryAllIdentityResponseSet
    <3> QED
      BY <3>1, PointerList
  <2>2. 2 \in 1 .. 7
    OBVIOUS
  <2> HIDE DEF wt
  <2> QED
    BY <1>1, <2>1, <2>2, PageResponse_ListWrites
<1>4. g = <<v1, v2>>
  BY DEF QueryAllIdentityResponse_Row
<1>5. Writes(wt, a, z, g)
  <2> DEFINE x == 2
  <2>1. x \in {0, 2} /\ wt = <<2, x>> /\ z = z1 + z2
    OBVIOUS
  <2> HIDE DEF a1, z1, v1, a2, z2, v2, g, x, wt, z
  <2>2. Writes(<<2, x>>, a1, z1, Only(<<2, x>>, 1, v1))
    BY <1>2, <2>1
  <2>3. Writes(<<2, x>>, a2, z2, Only(<<2, x>>, 2, v2))
    BY <1>3, <2>1
  <2>4. Writes(<<2, x>>, a1 \o a2, z, <<v1, v2>>)
    BY <2>1, <2>2, <2>3, TwoFieldsWrite
  <2> QED
    BY <1>4, <2>1, <2>4
<1>6. u \in Kept(wt)
  BY DEF QueryAllIdentityResponseSet
<1>7. bs = Fill(z + Len(u), a \o u)
  BY DEF QueryAllIdentityResponse_marshal, QueryAllIdentityResponse_size
<1> HIDE DEF wt, a, z, g, u
<1>8. bs \in Bytes /\ (Fits(bs) => Scan(wt, bs) = Found(g, u))
  BY <1>1, <1>5, <1>6, <1>7, MessageFound
<1> QED
  BY <1>8 DEF wt, g, u

(* The pulsar form is read as it was written.                              *)
LEMMA QueryAllIdentityResponse_Back ==
  ASSUME NEW m \in QueryAllIdentityResponseSet, NEW bs, bs = QueryAllIdentityResponse_marshal(m)
  PROVE  bs \in Bytes /\ (Fits(bs) => QueryAllIdentityResponse_unmarshal(bs) = Ok(m, 0))
<1> DEFINE wt == <<2, 2>>
           g == QueryAllIdentityResponse_Row(m)
<1>1. bs \in Bytes /\ (Fits(bs) => Scan(wt, bs) = Found(g, m.unknown))
  BY QueryAllIdentityResponse_Found
<1>2. IsTable(wt) /\ 1 \in DOMAIN wt /\ wt[1] = 2 /\ 2 \in DOMAIN wt /\ wt[2] = 2
  BY Tables
<1> SUFFICES ASSUME Fits(bs)
             PROVE  QueryAllIdentityResponse_unmarshal(bs) = Ok(m, 0)
  BY <1>1
<1> DEFINE s == Scan(wt, bs)
           p1 == Identities_unmarshal(Values(s, 1))
           p2 == Paged_unmarshal(Values(s, 2))
<1>3. QueryAllIdentityResponse_unmarshal(bs) =
        IF s.st # "ok" THEN s ELSE
        IF p1.st # "ok" THEN p1 ELSE
        IF p2.st # "ok" THEN p2 ELSE
        Ok([identity |-> p1.v, pagination |-> p2.v, unknown |-> s.unknown], 0)
  BY DEF QueryAllIdentityResponse_unmarshal, Then, Identities_unmarshal, Paged_unmarshal
<1>4. s = Found(g, m.unknown) /\ s.st = "ok" /\ s.fields = g /\ s.unknown = m.unknown
  <2>1. s = Found(g, m.unknown)
    BY <1>1
  <2> HIDE DEF s, g
  <2> QED
    BY <2>1 DEF Found
<1>5. Roomy(wt, s.fields, Len(bs)) /\ bs \in Buffers
  <2>1. bs \in Buffers /\ s = Scan(wt, bs) /\ s # Failed
    <3>1. bs \in Buffers /\ s = Scan(wt, bs)
      BY <1>1 DEF Buffers
    <3> HIDE DEF s
    <3> QED
      BY <1>4, <3>1 DEF Failed
  <2> HIDE DEF s, wt
  <2> QED
    BY <1>2, <2>1, ScanFinds
<1>6. p1 = Ok(m.identity, 0)
  <2>1. Values(s, 1) = Identity_Encoded(m.identity)
    BY <1>4 DEF QueryAllIdentityResponse_Row, Values
  <2>2. Readable(Values(s, 1))
    <3> HIDE DEF s, wt
    <3> QED
      BY <1>2, <1>5, ValuesReadable
  <2>3. m.identity \in Seq(IdentitySet)
    BY DEF QueryAllIdentityResponseSet
  <2> HIDE DEF s
  <2>4. Identities_unmarshal(Identity_Encoded(m.identity)) = Ok(m.identity, 0)
    BY <2>1, <2>2, <2>3, IdentitiesBack
  <2> QED
    BY <2>1, <2>4
<1>7. p1.st = "ok" /\ p1.v = m.identity
  <2> HIDE DEF p1
  <2> QED
    BY <1>6, OkParts
<1>8. p2 = Ok(m.pagination, 0)
  <2>1. Values(s, 2) = PageResponse_Encoded(m.pagination)
    BY <1>4 DEF QueryAllIdentityResponse_Row, Values
  <2>2. Readable(Values(s, 2))
    <3> HIDE DEF s, wt
    <3> QED
      BY <1>2, <1>5, ValuesReadable
  <2>3. m.pagination \in Pointer(PageResponseSet)
    BY DEF QueryAllIdentityResponseSet
  <2> HIDE DEF s
  <2>4. Paged_unmarshal(PageResponse_Encoded(m.pagination)) = Ok(m.pagination, 0)
    BY <2>1, <2>2, <2>3, PagedBack
  <2> QED
    BY <2>1, <2>4
<1>9. p2.st = "ok" /\ p2.v = m.pagination
  <2> HIDE DEF p2
  <2> QED
    BY <1>8, OkParts
<1>10. m = [identity |-> m.identity, pagination |-> m.pagination, unknown |-> m.unknown]
  BY DEF QueryAllIdentityResponseSet
<1> HIDE DEF s, p1, p2
<1> QED
  BY <1>3, <1>4, <1>7, <1>9, <1>10

QueryAllIdentityResponse_PlainRow(m) == <<Identity_PlainEncoded(m.identity),
  PageResponse_PlainEncoded(m.pagination)>>

(* What a scan finds in the gogo form.                                     *)
LEMMA QueryAllIdentityResponse_PlainFound ==
  ASSUME NEW m \in PlainQueryAllIdentityResponseSet, NEW bs, bs =
         QueryAllIdentityResponse_Marshal(m)
  PROVE  /\ bs \in Bytes
         /\ Fits(bs) => Scan(<<2, 2>>, bs) = Found(QueryAllIdentityResponse_PlainRow(m), <<>>)
<1> DEFINE wt == <<2, 2>>
           a1 == MessagesField(1, Identity_MarshalToSizedBuffer, m.identity)
           z1 == MessagesSize(Identity_Size, m.identity)
           v1 == Identity_PlainEncoded(m.identity)
           a2 == MessagesField(2, PageResponse_MarshalToSizedBuffer, m.pagination)
           z2 == MessagesSize(PageResponse_Size, m.pagination)
           v2 == PageResponse_PlainEncoded(m.pagination)
           a == a1 \o a2
           z == z1 + z2
           g == QueryAllIdentityResponse_PlainRow(m)
<1>1. IsTable(wt) /\ 1 \in DOMAIN wt /\ wt[1] = 2 /\ 2 \in DOMAIN wt /\ wt[2] = 2
  BY Tables
<1>2. Writes(wt, a1, z1, Only(wt, 1, v1))
  <2>1. m.identity \in Seq(PlainIdentitySet)
    BY DEF PlainQueryAllIdentityResponseSet
  <2>2. 1 \in 1 .. 7
    OBVIOUS
  <2> HIDE DEF wt
  <2> QED
    BY <1>1, <2>1, <2>2, Identity_PlainListWrites
<1>3. Writes(wt, a2, z2, Only(wt, 2, v2))
  <2>1. m.pagination \in Seq(PlainPageResponseSet)
    <3>1. m.pagination \in Pointer(PlainPageResponseSet)
      BY DEF PlainQueryAllIdentityResponseSet
    <3> QED
      BY <3>1, PointerList
  <2>2. 2 \in 1 .. 7
    OBVIOUS
  <2> HIDE DEF wt
  <2> QED
    BY <1>1, <2>1, <2>2, PageResponse_PlainListWrites
<1>4. g = <<v1, v2>>
  BY DEF QueryAllIdentityResponse_PlainRow
<1>5. Writes(wt, a, z, g)
  <2> DEFINE x == 2
  <2>1. x \in {0, 2} /\ wt = <<2, x>> /\ z = z1 + z2
    OBVIOUS
  <2> HIDE DEF a1, z1, v1, a2, z2, v2, g, x, wt, z
  <2>2. Writes(<<2, x>>, a1, z1, Only(<<2, x>>, 1, v1))
    BY <1>2, <2>1
  <2>3. Writes(<<2, x>>, a2, z2, Only(<<2, x>>, 2, v2))
    BY <1>3, <2>1
  <2>4. Writes(<<2, x>>, a1 \o a2, z, <<v1, v2>>)
    BY <2>1, <2>2, <2>3, TwoFieldsWrite
  <2> QED
    BY <1>4, <2>1, <2>4
<1>6. bs = Front(z, a)
  BY DEF QueryAllIdentityResponse_Marshal, QueryAllIdentityResponse_Size
<1> HIDE DEF wt, a, z, g
<1>7. a \in Bytes /\ Front(z, a) = a /\ (Fits(a) => Scan(wt, a) = Found(g, <<>>))
  BY <1>1, <1>5, PlainFound
<1>8. bs \in Bytes /\ (Fits(bs) => Scan(wt, bs) = Found(g, <<>>))
  BY <1>6, <1>7
<1> QED
  BY <1>8 DEF wt, g

(* The gogo form is read as it was written.                                *)
LEMMA QueryAllIdentityResponse_PlainBack ==
  ASSUME NEW m \in PlainQueryAllIdentityResponseSet, NEW bs, bs =
         QueryAllIdentityResponse_Marshal(m)
  PROVE  bs \in Bytes /\ (Fits(bs) => QueryAllIdentityResponse_Unmarshal(bs) = Ok(m, 0))
<1> DEFINE wt == <<2, 2>>
           g == QueryAllIdentityResponse_PlainRow(m)
<1>1. bs \in Bytes /\ (Fits(bs) => Scan(wt, bs) = Found(g, <<>>))
  BY QueryAllIdentityResponse_PlainFound
<1>2. IsTable(wt) /\ 1 \in DOMAIN wt /\ wt[1] = 2 /\ 2 \in DOMAIN wt /\ wt[2] = 2
  BY Tables
<1> SUFFICES ASSUME Fits(bs)
             PROVE  QueryAllIdentityResponse_Unmarshal(bs) = Ok(m, 0)
  BY <1>1
<1> DEFINE s == Scan(wt, bs)
           p1 == Identities_Unmarshal(Values(s, 1))
           p2 == Paged_Unmarshal(Values(s, 2))
<1>3. QueryAllIdentityResponse_Unmarshal(bs) =
        IF s.st # "ok" THEN s ELSE
        IF p1.st # "ok" THEN p1 ELSE
        IF p2.st # "ok" THEN p2 ELSE
        Ok([identity |-> p1.v, pagination |-> p2.v], 0)
  BY DEF QueryAllIdentityResponse_Unmarshal, Then, Identities_Unmarshal, Paged_Unmarshal
<1>4. s = Found(g, <<>>) /\ s.st = "ok" /\ s.fields = g /\ s.unknown = <<>>
  <2>1. s = Found(g, <<>>)
    BY <1>1
  <2> HIDE DEF s, g
  <2> QED
    BY <2>1 DEF Found
<1>5. Roomy(wt, s.fields, Len(bs)) /\ bs \in Buffers
  <2>1. bs \in Buffers /\ s = Scan(wt, bs) /\ s # Failed
    <3>1. bs \in Buffers /\ s = Scan(wt, bs)
      BY <1>1 DEF Buffers
    <3> HIDE DEF s
    <3> QED
      BY <1>4, <3>1 DEF Failed
  <2> HIDE DEF s, wt
  <2> QED
    BY <1>2, <2>1, ScanFinds
<1>6. p1 = Ok(m.identity, 0)
  <2>1. Values(s, 1) = Identity_PlainEncoded(m.identity)
    BY <1>4 DEF QueryAllIdentityResponse_PlainRow, Values
  <2>2. Readable(Values(s, 1))
    <3> HIDE DEF s, wt
    <3> QED
      BY <1>2, <1>5, ValuesReadable
  <2>3. m.identity \in Seq(PlainIdentitySet)
    BY DEF PlainQueryAllIdentityResponseSet
  <2> HIDE DEF s
  <2>4. Identities_Unmarshal(Identity_PlainEncoded(m.identity)) = Ok(m.identity, 0)
    BY <2>1, <2>2, <2>3, IdentitiesPlainBack
  <2> QED
    BY <2>1, <2>4
<1>7. p1.st = "ok" /\ p1.v = m.identity
  <2> HIDE DEF p1
  <2> QED
    BY <1>6, OkParts
<1>8. p2 = Ok(m.pagination, 0)
  <2>1. Values(s, 2) = PageResponse_PlainEncoded(m.pagination)
    BY <1>4 DEF QueryAllIdentityResponse_PlainRow, Values
  <2>2. Readable(Values(s, 2))
    <3> HIDE DEF s, wt
    <3> QED
      BY <1>2, <1>5, ValuesReadable
  <2>3. m.pagination \in Pointer(PlainPageResponseSet)
    BY DEF PlainQueryAllIdentityResponseSet
  <2> HIDE DEF s
  <2>4. Paged_Unmarshal(PageResponse_PlainEncoded(m.pagination)) = Ok(m.pagination, 0)
    BY <2>1, <2>2, <2>3, PagedPlainBack
  <2> QED
    BY <2>1, <2>4
<1>9. p2.st = "ok" /\ p2.v = m.pagination
  <2> HIDE DEF p2
  <2> QED
    BY <1>8, OkParts
<1>10. m = [identity |-> m.identity, pagination |-> m.pagination]
  BY DEF PlainQueryAllIdentityResponseSet
<1> HIDE DEF s, p1, p2
<1> QED
  BY <1>3, <1>4, <1>7, <1>9, <1>10

QueryIdentityByCccdIdRequest_Row(m) == <<StringValues(m.idHash), PageRequest_Encoded(m.pagination)>>

(* What a scan finds in the pulsar form.                                   *)
LEMMA QueryIdentityByCccdIdRequest_Found ==
  ASSUME NEW m \in QueryIdentityByCccdIdRequestSet, NEW bs, bs =
         QueryIdentityByCccdIdRequest_marshal(m)
  PROVE  /\ bs \in Bytes
         /\ Fits(bs) => Scan(<<2, 2>>, bs) = Found(QueryIdentityByCccdIdRequest_Row(m), m.unknown)
<1> DEFINE wt == <<2, 2>>
           a1 == StringField(1, m.idHash)
           z1 == StringSize(m.idHash)
           v1 == StringValues(m.idHash)
           a2 == MessagesField(2, PageRequest_marshal, m.pagination)
           z2 == MessagesSize(PageRequest_size, m.pagination)
           v2 == PageRequest_Encoded(m.pagination)
           a == a1 \o a2
           z == z1 + z2
           g == QueryIdentityByCccdIdRequest_Row(m)
           u == m.unknown
<1>1. IsTable(wt) /\ 1 \in DOMAIN wt /\ wt[1] = 2 /\ 2 \in DOMAIN wt /\ wt[2] = 2
  BY Tables
<1>2. Writes(wt, a1, z1, Only(wt, 1, v1))
  <2>1. m.idHash \in Bytes
    BY DEF QueryIdentityByCccdIdRequestSet
  <2>2. 1 \in 1 .. 7
    OBVIOUS
  <2> HIDE DEF wt
  <2> QED
    BY <1>1, <2>1, <2>2, StringWrites
<1>3. Writes(wt, a2, z2, Only(wt, 2, v2))
  <2>1. m.pagination \in Seq(PageRequestSet)
    <3>1. m.pagination \in Pointer(PageRequestSet)
      BY DEF QueryIdentityByCccdIdRequestSet
    <3> QED
      BY <3>1, PointerList
  <2>2. 2 \in 1 .. 7
    OBVIOUS
  <2> HIDE DEF wt
  <2> QED
    BY <1>1, <2>1, <2>2, PageRequest_ListWrites
<1>4. g = <<v1, v2>>
  BY DEF QueryIdentityByCccdIdRequest_Row
<1>5. Writes(wt, a, z, g)
  <2> DEFINE x == 2
  <2>1. x \in {0, 2} /\ wt = <<2, x>> /\ z = z1 + z2
    OBVIOUS
  <2> HIDE DEF a1, z1, v1, a2, z2, v2, g, x, wt, z
  <2>2. Writes(<<2, x>>, a1, z1, Only(<<2, x>>, 1, v1))
    BY <1>2, <2>1
  <2>3. Writes(<<2, x>>, a2, z2, Only(<<2, x>>, 2, v2))
    BY <1>3, <2>1
  <2>4. Writes(<<2, x>>, a1 \o a2, z, <<v1, v2>>)
    BY <2>1, <2>2, <2>3, TwoFieldsWrite
  <2> QED
    BY <1>4, <2>1, <2>4
<1>6. u \in Kept(wt)
  BY DEF QueryIdentityByCccdIdRequestSet
<1>7. bs = Fill(z + Len(u), a \o u)
  BY DEF QueryIdentityByCccdIdRequest_marshal, QueryIdentityByCccdIdRequest_size
<1> HIDE DEF wt, a, z, g, u
<1>8. bs \in Bytes /\ (Fits(bs) => Scan(wt, bs) = Found(g, u))
  BY <1>1, <1>5, <1>6, <1>7, MessageFound
<1> QED
  BY <1>8 DEF wt, g, u

(* The pulsar form is read as it was written.                              *)
LEMMA QueryIdentityByCccdIdRequest_Back ==
  ASSUME NEW m \in QueryIdentityByCccdIdRequestSet, NEW bs, bs =
         QueryIdentityByCccdIdRequest_marshal(m)
  PROVE  bs \in Bytes /\ (Fits(bs) => QueryIdentityByCccdIdRequest_unmarshal(bs) = Ok(m, 0))
<1> DEFINE wt == <<2, 2>>
           g == QueryIdentityByCccdIdRequest_Row(m)
<1>1. bs \in Bytes /\ (Fits(bs) => Scan(wt, bs) = Found(g, m.unknown))
  BY QueryIdentityByCccdIdRequest_Found
<1>2. IsTable(wt) /\ 1 \in DOMAIN wt /\ wt[1] = 2 /\ 2 \in DOMAIN wt /\ wt[2] = 2
  BY Tables
<1> SUFFICES ASSUME Fits(bs)
             PROVE  QueryIdentityByCccdIdRequest_unmarshal(bs) = Ok(m, 0)
  BY <1>1
<1> DEFINE s == Scan(wt, bs)
           p2 == Paging_unmarshal(Values(s, 2))
<1>3. QueryIdentityByCccdIdRequest_unmarshal(bs) =
        IF s.st # "ok" THEN s ELSE
        IF p2.st # "ok" THEN p2 ELSE
        Ok([idHash |-> StringOf(s, 1), pagination |-> p2.v, unknown |-> s.unknown], 0)
  BY DEF QueryIdentityByCccdIdRequest_unmarshal, Then, Paging_unmarshal
<1>4. s = Found(g, m.unknown) /\ s.st = "ok" /\ s.fields = g /\ s.unknown = m.unknown
  <2>1. s = Found(g, m.unknown)
    BY <1>1
  <2> HIDE DEF s, g
  <2> QED
    BY <2>1 DEF Found
<1>5. Roomy(wt, s.fields, Len(bs)) /\ bs \in Buffers
  <2>1. bs \in Buffers /\ s = Scan(wt, bs) /\ s # Failed
    <3>1. bs \in Buffers /\ s = Scan(wt, bs)
      BY <1>1 DEF Buffers
    <3> HIDE DEF s
    <3> QED
      BY <1>4, <3>1 DEF Failed
  <2> HIDE DEF s, wt
  <2> QED
    BY <1>2, <2>1, ScanFinds
<1>6. StringOf(s, 1) = m.idHash
  <2>1. s.fields[1] = StringValues(m.idHash)
    BY <1>4 DEF QueryIdentityByCccdIdRequest_Row
  <2> HIDE DEF s
  <2> QED
    BY <2>1, StringBack
<1>7. p2 = Ok(m.pagination, 0)
  <2>1. Values(s, 2) = PageRequest_Encoded(m.pagination)
    BY <1>4 DEF QueryIdentityByCccdIdRequest_Row, Values
  <2>2. Readable(Values(s, 2))
    <3> HIDE DEF s, wt
    <3> QED
      BY <1>2, <1>5, ValuesReadable
  <2>3. m.pagination \in Pointer(PageRequestSet)
    BY DEF QueryIdentityByCccdIdRequestSet
  <2> HIDE DEF s
  <2>4. Paging_unmarshal(PageRequest_Encoded(m.pagination)) = Ok(m.pagination, 0)
    BY <2>1, <2>2, <2>3, PagingBack
  <2> QED
    BY <2>1, <2>4
<1>8. p2.st = "ok" /\ p2.v = m.pagination
  <2> HIDE DEF p2
  <2> QED
    BY <1>7, OkParts
<1>9. m = [idHash |-> m.idHash, pagination |-> m.pagination, unknown |-> m.unknown]
  BY DEF QueryIdentityByCccdIdRequestSet
<1> HIDE DEF s, p2
<1> QED
  BY <1>3, <1>4, <1>6, <1>8, <1>9

QueryIdentityByCccdIdRequest_PlainRow(m) == <<StringValues(m.idHash),
  PageRequest_PlainEncoded(m.pagination)>>

(* What a scan finds in the gogo form.                                     *)
LEMMA QueryIdentityByCccdIdRequest_PlainFound ==
  ASSUME NEW m \in PlainQueryIdentityByCccdIdRequestSet, NEW bs, bs =
         QueryIdentityByCccdIdRequest_Marshal(m)
  PROVE  /\ bs \in Bytes
         /\ Fits(bs) => Scan(<<2, 2>>, bs) = Found(QueryIdentityByCccdIdRequest_PlainRow(m), <<>>)
<1> DEFINE wt == <<2, 2>>
           a1 == StringField(1, m.idHash)
           z1 == StringSize(m.idHash)
           v1 == StringValues(m.idHash)
           a2 == MessagesField(2, PageRequest_MarshalToSizedBuffer, m.pagination)
           z2 == MessagesSize(PageRequest_Size, m.pagination)
           v2 == PageRequest_PlainEncoded(m.pagination)
           a == a1 \o a2
           z == z1 + z2
           g == QueryIdentityByCccdIdRequest_PlainRow(m)
<1>1. IsTable(wt) /\ 1 \in DOMAIN wt /\ wt[1] = 2 /\ 2 \in DOMAIN wt /\ wt[2] = 2
  BY Tables
<1>2. Writes(wt, a1, z1, Only(wt, 1, v1))
  <2>1. m.idHash \in Bytes
    BY DEF PlainQueryIdentityByCccdIdRequestSet
  <2>2. 1 \in 1 .. 7
    OBVIOUS
  <2> HIDE DEF wt
  <2> QED
    BY <1>1, <2>1, <2>2, StringWrites
<1>3. Writes(wt, a2, z2, Only(wt, 2, v2))
  <2>1. m.pagination \in Seq(PlainPageRequestSet)
    <3>1. m.pagination \in Pointer(PlainPageRequestSet)
      BY DEF PlainQueryIdentityByCccdIdRequestSet
    <3> QED
      BY <3>1, PointerList
  <2>2. 2 \in 1 .. 7
    OBVIOUS
  <2> HIDE DEF wt
  <2> QED
    BY <1>1, <2>1, <2>2, PageRequest_PlainListWrites
<1>4. g = <<v1, v2>>
  BY DEF QueryIdentityByCccdIdRequest_PlainRow
<1>5. Writes(wt, a, z, g)
  <2> DEFINE x == 2
  <2>1. x \in {0, 2} /\ wt = <<2, x>> /\ z = z1 + z2
    OBVIOUS
  <2> HIDE DEF a1, z1, v1, a2, z2, v2, g, x, wt, z
  <2>2. Writes(<<2, x>>, a1, z1, Only(<<2, x>>, 1, v1))
    BY <1>2, <2>1
  <2>3. Writes(<<2, x>>, a2, z2, Only(<<2, x>>, 2, v2))
    BY <1>3, <2>1
  <2>4. Writes(<<2, x>>, a1 \o a2, z, <<v1, v2>>)
    BY <2>1, <2>2, <2>3, TwoFieldsWrite
  <2> QED
    BY <1>4, <2>1, <2>4
<1>6. bs = Front(z, a)
  BY DEF QueryIdentityByCccdIdRequest_Marshal, QueryIdentityByCccdIdRequest_Size
<1> HIDE DEF wt, a, z, g
<1>7. a \in Bytes /\ Front(z, a) = a /\ (Fits(a) => Scan(wt, a) = Found(g, <<>>))
  BY <1>1, <1>5, PlainFound
<1>8. bs \in Bytes /\ (Fits(bs) => Scan(wt, bs) = Found(g, <<>>))
  BY <1>6, <1>7
<1> QED
  BY <1>8 DEF wt, g

(* The gogo form is read as it was written.                                *)
LEMMA QueryIdentityByCccdIdRequest_PlainBack ==
  ASSUME NEW m \in PlainQueryIdentityByCccdIdRequestSet, NEW bs, bs =
         QueryIdentityByCccdIdRequest_Marshal(m)
  PROVE  bs \in Bytes /\ (Fits(bs) => QueryIdentityByCccdIdRequest_Unmarshal(bs) = Ok(m, 0))
<1> DEFINE wt == <<2, 2>>
           g == QueryIdentityByCccdIdRequest_PlainRow(m)
<1>1. bs \in Bytes /\ (Fits(bs) => Scan(wt, bs) = Found(g, <<>>))
  BY QueryIdentityByCccdIdRequest_PlainFound
<1>2. IsTable(wt) /\ 1 \in DOMAIN wt /\ wt[1] = 2 /\ 2 \in DOMAIN wt /\ wt[2] = 2
  BY Tables
<1> SUFFICES ASSUME Fits(bs)
             PROVE  QueryIdentityByCccdIdRequest_Unmarshal(bs) = Ok(m, 0)
  BY <1>1
<1> DEFINE s == Scan(wt, bs)
           p2 == Paging_Unmarshal(Values(s, 2))
<1>3. QueryIdentityByCccdIdRequest_Unmarshal(bs) =
        IF s.st # "ok" THEN s ELSE
        IF p2.st # "ok" THEN p2 ELSE
        Ok([idHash |-> StringOf(s, 1), pagination |-> p2.v], 0)
  BY DEF QueryIdentityByCccdIdRequest_Unmarshal, Then, Paging_Unmarshal
<1>4. s = Found(g, <<>>) /\ s.st = "ok" /\ s.fields = g /\ s.unknown = <<>>
  <2>1. s = Found(g, <<>>)
    BY <1>1
  <2> HIDE DEF s, g
  <2> QED
    BY <2>1 DEF Found
<1>5. Roomy(wt, s.fields, Len(bs)) /\ bs \in Buffers
  <2>1. bs \in Buffers /\ s = Scan(wt, bs) /\ s # Failed
    <3>1. bs \in Buffers /\ s = Scan(wt, bs)
      BY <1>1 DEF Buffers
    <3> HIDE DEF s
    <3> QED
      BY <1>4, <3>1 DEF Failed
  <2> HIDE DEF s, wt
  <2> QED
    BY <1>2, <2>1, ScanFinds
<1>6. StringOf(s, 1) = m.idHash
  <2>1. s.fields[1] = StringValues(m.idHash)
    BY <1>4 DEF QueryIdentityByCccdIdRequest_PlainRow
  <2> HIDE DEF s
  <2> QED
    BY <2>1, StringBack
<1>7. p2 = Ok(m.pagination, 0)
  <2>1. Values(s, 2) = PageRequest_PlainEncoded(m.pagination)
    BY <1>4 DEF QueryIdentityByCccdIdRequest_PlainRow, Values
  <2>2. Readable(Values(s, 2))
    <3> HIDE DEF s, wt
    <3> QED
      BY <1>2, <1>5, ValuesReadable
  <2>3. m.pagination \in Pointer(PlainPageRequestSet)
    BY DEF PlainQueryIdentityByCccdIdRequestSet
  <2> HIDE DEF s
  <2>4. Paging_Unmarshal(PageRequest_PlainEncoded(m.pagination)) = Ok(m.pagination, 0)
    BY <2>1, <2>2, <2>3, PagingPlainBack
  <2> QED
    BY <2>1, <2>4
<1>8. p2.st = "ok" /\ p2.v = m.pagination
  <2> HIDE DEF p2
  <2> QED
    BY <1>7, OkParts
<1>9. m = [idHash |-> m.idHash, pagination |-> m.pagination]
  BY DEF PlainQueryIdentityByCccdIdRequestSet
<1> HIDE DEF s, p2
<1> QED
  BY <1>3, <1>4, <1>6, <1>8, <1>9

QueryIdentityByCccdIdResponse_Row(m) == <<Identity_Encoded(m.identity),
  PageResponse_Encoded(m.pagination)>>

(* What a scan finds in the pulsar form.                                   *)
LEMMA QueryIdentityByCccdIdResponse_Found ==
  ASSUME NEW m \in QueryIdentityByCccdIdResponseSet, NEW bs, bs =
         QueryIdentityByCccdIdResponse_marshal(m)
  PROVE  /\ bs \in Bytes
         /\ Fits(bs) => Scan(<<2, 2>>, bs) = Found(QueryIdentityByCccdIdResponse_Row(m), m.unknown)
<1> DEFINE wt == <<2, 2>>
           a1 == MessagesField(1, Identity_marshal, m.identity)
           z1 == MessagesSize(Identity_size, m.identity)
           v1 == Identity_Encoded(m.identity)
           a2 == MessagesField(2, PageResponse_marshal, m.pagination)
           z2 == MessagesSize(PageResponse_size, m.pagination)
           v2 == PageResponse_Encoded(m.pagination)
           a == a1 \o a2
           z == z1 + z2
           g == QueryIdentityByCccdIdResponse_Row(m)
           u == m.unknown
<1>1. IsTable(wt) /\ 1 \in DOMAIN wt /\ wt[1] = 2 /\ 2 \in DOMAIN wt /\ wt[2] = 2
  BY Tables
<1>2. Writes(wt, a1, z1, Only(wt, 1, v1))
  <2>1. m.identity \in Seq(IdentitySet)
    BY DEF QueryIdentityByCccdIdResponseSet
  <2>2. 1 \in 1 .. 7
    OBVIOUS
  <2> HIDE DEF wt
  <2> QED
    BY <1>1, <2>1, <2>2, Identity_ListWrites
<1>3. Writes(wt, a2, z2, Only(wt, 2, v2))
  <2>1. m.pagination \in Seq(PageResponseSet)
    <3>1. m.pagination \in Pointer(PageResponseSet)
      BY DEF QueryIdentityByCccdIdResponseSet
    <3> QED
      BY <3>1, PointerList
  <2>2. 2 \in 1 .. 7
    OBVIOUS
  <2> HIDE DEF wt
  <2> QED
    BY <1>1, <2>1, <2>2, PageResponse_ListWrites
<1>4. g = <<v1, v2>>
  BY DEF QueryIdentityByCccdIdResponse_Row
<1>5. Writes(wt, a, z, g)
  <2> DEFINE x == 2
  <2>1. x \in {0, 2} /\ wt = <<2, x>> /\ z = z1 + z2
    OBVIOUS
  <2> HIDE DEF a1, z1, v1, a2, z2, v2, g, x, wt, z
  <2>2. Writes(<<2, x>>, a1, z1, Only(<<2, x>>, 1, v1))
    BY <1>2, <2>1
  <2>3. Writes(<<2, x>>, a2, z2, Only(<<2, x>>, 2, v2))
    BY <1>3, <2>1
  <2>4. Writes(<<2, x>>, a1 \o a2, z, <<v1, v2>>)
    BY <2>1, <2>2, <2>3, TwoFieldsWrite
  <2> QED
    BY <1>4, <2>1, <2>4
<1>6. u \in Kept(wt)
  BY DEF QueryIdentityByCccdIdResponseSet
<1>7. bs = Fill(z + Len(u), a \o u)
  BY DEF QueryIdentityByCccdIdResponse_marshal, QueryIdentityByCccdIdResponse_size
<1> HIDE DEF wt, a, z, g, u
<1>8. bs \in Bytes /\ (Fits(bs) => Scan(wt, bs) = Found(g, u))
  BY <1>1, <1>5, <1>6, <1>7, MessageFound
<1> QED
  BY <1>8 DEF wt, g, u

(* The pulsar form is read as it was written.                              *)
LEMMA QueryIdentityByCccdIdResponse_Back ==
  ASSUME NEW m \in QueryIdentityByCccdIdResponseSet, NEW bs, bs =
         QueryIdentityByCccdIdResponse_marshal(m)
  PROVE  bs \in Bytes /\ (Fits(bs) => QueryIdentityByCccdIdResponse_unmarshal(bs) = Ok(m, 0))
<1> DEFINE wt == <<2, 2>>
           g == QueryIdentityByCccdIdResponse_Row(m)
<1>1. bs \in Bytes /\ (Fits(bs) => Scan(wt, bs) = Found(g, m.unknown))
  BY QueryIdentityByCccdIdResponse_Found
<1>2. IsTable(wt) /\ 1 \in DOMAIN wt /\ wt[1] = 2 /\ 2 \in DOMAIN wt /\ wt[2] = 2
  BY Tables
<1> SUFFICES ASSUME Fits(bs)
             PROVE  QueryIdentityByCccdIdResponse_unmarshal(bs) = Ok(m, 0)
  BY <1>1
<1> DEFINE s == Scan(wt, bs)
           p1 == Identities_unmarshal(Values(s, 1))
           p2 == Paged_unmarshal(Values(s, 2))
<1>3. QueryIdentityByCccdIdResponse_unmarshal(bs) =
        IF s.st # "ok" THEN s ELSE
        IF p1.st # "ok" THEN p1 ELSE
        IF p2.st # "ok" THEN p2 ELSE
        Ok([identity |-> p1.v, pagination |-> p2.v, unknown |-> s.unknown], 0)
  BY DEF QueryIdentityByCccdIdResponse_unmarshal, Then, Identities_unmarshal, Paged_unmarshal
<1>4. s = Found(g, m.unknown) /\ s.st = "ok" /\ s.fields = g /\ s.unknown = m.unknown
  <2>1. s = Found(g, m.unknown)
    BY <1>1
  <2> HIDE DEF s, g
  <2> QED
    BY <2>1 DEF Found
<1>5. Roomy(wt, s.fields, Len(bs)) /\ bs \in Buffers
  <2>1. bs \in Buffers /\ s = Scan(wt, bs) /\ s # Failed
    <3>1. bs \in Buffers /\ s = Scan(wt, bs)
      BY <1>1 DEF Buffers
    <3> HIDE DEF s
    <3> QED
      BY <1>4, <3>1 DEF Failed
  <2> HIDE DEF s, wt
  <2> QED
    BY <1>2, <2>1, ScanFinds
<1>6. p1 = Ok(m.identity, 0)
  <2>1. Values(s, 1) = Identity_Encoded(m.identity)
    BY <1>4 DEF QueryIdentityByCccdIdResponse_Row, Values
  <2>2. Readable(Values(s, 1))
    <3> HIDE DEF s, wt
    <3> QED
      BY <1>2, <1>5, ValuesReadable
  <2>3. m.identity \in Seq(IdentitySet)
    BY DEF QueryIdentityByCccdIdResponseSet
  <2> HIDE DEF s
  <2>4. Identities_unmarshal(Identity_Encoded(m.identity)) = Ok(m.identity, 0)
    BY <2>1, <2>2, <2>3, IdentitiesBack
  <2> QED
    BY <2>1, <2>4
<1>7. p1.st = "ok" /\ p1.v = m.identity
  <2> HIDE DEF p1
  <2> QED
    BY <1>6, OkParts
<1>8. p2 = Ok(m.pagination, 0)
  <2>1. Values(s, 2) = PageResponse_Encoded(m.pagination)
    BY <1>4 DEF QueryIdentityByCccdIdResponse_Row, Values
  <2>2. Readable(Values(s, 2))
    <3> HIDE DEF s, wt
    <3> QED
      BY <1>2, <1>5, ValuesReadable
  <2>3. m.pagination \in Pointer(PageResponseSet)
    BY DEF QueryIdentityByCccdIdResponseSet
  <2> HIDE DEF s
  <2>4. Paged_unmarshal(PageResponse_Encoded(m.pagination)) = Ok(m.pagination, 0)
    BY <2>1, <2>2, <2>3, PagedBack
  <2> QED
    BY <2>1, <2>4
<1>9. p2.st = "ok" /\ p2.v = m.pagination
  <2> HIDE DEF p2
  <2> QED
    BY <1>8, OkParts
<1>10. m = [identity |-> m.identity, pagination |-> m.pagination, unknown |-> m.unknown]
  BY DEF QueryIdentityByCccdIdResponseSet
<1> HIDE DEF s, p1, p2
<1> QED
  BY <1>3, <1>4, <1>7, <1>9, <1>10

QueryIdentityByCccdIdResponse_PlainRow(m) == <<Identity_PlainEncoded(m.identity),
  PageResponse_PlainEncoded(m.pagination)>>

(* What a scan finds in the gogo form.                                     *)
LEMMA QueryIdentityByCccdIdResponse_PlainFound ==
  ASSUME NEW m \in PlainQueryIdentityByCccdIdResponseSet, NEW bs, bs =
         QueryIdentityByCccdIdResponse_Marshal(m)
  PROVE  /\ bs \in Bytes
         /\ Fits(bs) => Scan(<<2, 2>>, bs) = Found(QueryIdentityByCccdIdResponse_PlainRow(m), <<>>)
<1> DEFINE wt == <<2, 2>>
           a1 == MessagesField(1, Identity_MarshalToSizedBuffer, m.identity)
           z1 == MessagesSize(Identity_Size, m.identity)
           v1 == Identity_PlainEncoded(m.identity)
           a2 == MessagesField(2, PageResponse_MarshalToSizedBuffer, m.pagination)
           z2 == MessagesSize(PageResponse_Size, m.pagination)
           v2 == PageResponse_PlainEncoded(m.pagination)
           a == a1 \o a2
           z == z1 + z2
           g == QueryIdentityByCccdIdResponse_PlainRow(m)
<1>1. IsTable(wt) /\ 1 \in DOMAIN wt /\ wt[1] = 2 /\ 2 \in DOMAIN wt /\ wt[2] = 2
  BY Tables
<1>2. Writes(wt, a1, z1, Only(wt, 1, v1))
  <2>1. m.identity \in Seq(PlainIdentitySet)
    BY DEF PlainQueryIdentityByCccdIdResponseSet
  <2>2. 1 \in 1 .. 7
    OBVIOUS
  <2> HIDE DEF wt
  <2> QED
    BY <1>1, <2>1, <2>2, Identity_PlainListWrites
<1>3. Writes(wt, a2, z2, Only(wt, 2, v2))
  <2>1. m.pagination \in Seq(PlainPageResponseSet)
    <3>1. m.pagination \in Pointer(PlainPageResponseSet)
      BY DEF PlainQueryIdentityByCccdIdResponseSet
    <3> QED
      BY <3>1, PointerList
  <2>2. 2 \in 1 .. 7
    OBVIOUS
  <2> HIDE DEF wt
  <2> QED
    BY <1>1, <2>1, <2>2, PageResponse_PlainListWrites
<1>4. g = <<v1, v2>>
  BY DEF QueryIdentityByCccdIdResponse_PlainRow
<1>5. Writes(wt, a, z, g)
  <2> DEFINE x == 2
  <2>1. x \in {0, 2} /\ wt = <<2, x>> /\ z = z1 + z2
    OBVIOUS
  <2> HIDE DEF a1, z1, v1, a2, z2, v2, g, x, wt, z
  <2>2. Writes(<<2, x>>, a1, z1, Only(<<2, x>>, 1, v1))
    BY <1>2, <2>1
  <2>3. Writes(<<2, x>>, a2, z2, Only(<<2, x>>, 2, v2))
    BY <1>3, <2>1
  <2>4. Writes(<<2, x>>, a1 \o a2, z, <<v1, v2>>)
    BY <2>1, <2>2, <2>3, TwoFieldsWrite
  <2> QED
    BY <1>4, <2>1, <2>4
<1>6. bs = Front(z, a)
  BY DEF QueryIdentityByCccdIdResponse_Marshal, QueryIdentityByCccdIdResponse_Size
<1> HIDE DEF wt, a, z, g
<1>7. a \in Bytes /\ Front(z, a) = a /\ (Fits(a) => Scan(wt, a) = Found(g, <<>>))
  BY <1>1, <1>5, PlainFound
<1>8. bs \in Bytes /\ (Fits(bs) => Scan(wt, bs) = Found(g, <<>>))
  BY <1>6, <1>7
<1> QED
  BY <1>8 DEF wt, g

(* The gogo form is read as it was written.                                *)
LEMMA QueryIdentityByCccdIdResponse_PlainBack ==
  ASSUME NEW m \in PlainQueryIdentityByCccdIdResponseSet, NEW bs, bs =
         QueryIdentityByCccdIdResponse_Marshal(m)
  PROVE  bs \in Bytes /\ (Fits(bs) => QueryIdentityByCccdIdResponse_Unmarshal(bs) = Ok(m, 0))
<1> DEFINE wt == <<2, 2>>
           g == QueryIdentityByCccdIdResponse_PlainRow(m)
<1>1. bs \in Bytes /\ (Fits(bs) => Scan(wt, bs) = Found(g, <<>>))
  BY QueryIdentityByCccdIdResponse_PlainFound
<1>2. IsTable(wt) /\ 1 \in DOMAIN wt /\ wt[1] = 2 /\ 2 \in DOMAIN wt /\ wt[2] = 2
  BY Tables
<1> SUFFICES ASSUME Fits(bs)
             PROVE  QueryIdentityByCccdIdResponse_Unmarshal(bs) = Ok(m, 0)
  BY <1>1
<1> DEFINE s == Scan(wt, bs)
           p1 == Identities_Unmarshal(Values(s, 1))
           p2 == Paged_Unmarshal(Values(s, 2))
<1>3. QueryIdentityByCccdIdResponse_Unmarshal(bs) =
        IF s.st # "ok" THEN s ELSE
        IF p1.st # "ok" THEN p1 ELSE
        IF p2.st # "ok" THEN p2 ELSE
        Ok([identity |-> p1.v, pagination |-> p2.v], 0)
  BY DEF QueryIdentityByCccdIdResponse_Unmarshal, Then, Identities_Unmarshal, Paged_Unmarshal
<1>4. s = Found(g, <<>>) /\ s.st = "ok" /\ s.fields = g /\ s.unknown = <<>>
  <2>1. s = Found(g, <<>>)
    BY <1>1
  <2> HIDE DEF s, g
  <2> QED
    BY <2>1 DEF Found
<1>5. Roomy(wt, s.fields, Len(bs)) /\ bs \in Buffers
  <2>1. bs \in Buffers /\ s = Scan(wt, bs) /\ s # Failed
    <3>1. bs \in Buffers /\ s = Scan(wt, bs)
      BY <1>1 DEF Buffers
    <3> HIDE DEF s
    <3> QED
      BY <1>4, <3>1 DEF Failed
  <2> HIDE DEF s, wt
  <2> QED
    BY <1>2, <2>1, ScanFinds
<1>6. p1 = Ok(m.identity, 0)
  <2>1. Values(s, 1) = Identity_PlainEncoded(m.identity)
    BY <1>4 DEF QueryIdentityByCccdIdResponse_PlainRow, Values
  <2>2. Readable(Values(s, 1))
    <3> HIDE DEF s, wt
    <3> QED
      BY <1>2, <1>5, ValuesReadable
  <2>3. m.identity \in Seq(PlainIdentitySet)
    BY DEF PlainQueryIdentityByCccdIdResponseSet
  <2> HIDE DEF s
  <2>4. Identities_Unmarshal(Identity_PlainEncoded(m.identity)) = Ok(m.identity, 0)
    BY <2>1, <2>2, <2>3, IdentitiesPlainBack
  <2> QED
    BY <2>1, <2>4
<1>7. p1.st = "ok" /\ p1.v = m.identity
  <2> HIDE DEF p1
  <2> QED
    BY <1>6, OkParts
<1>8. p2 = Ok(m.pagination, 0)
  <2>1. Values(s, 2) = PageResponse_PlainEncoded(m.pagination)
    BY <1>4 DEF QueryIdentityByCccdIdResponse_PlainRow, Values
  <2>2. Readable(Values(s, 2))
    <3> HIDE DEF s, wt
    <3> QED
      BY <1>2, <1>5, ValuesReadable
  <2>3. m.pagination \in Pointer(PlainPageResponseSet)
    BY DEF PlainQueryIdentityByCccdIdResponseSet
  <2> HIDE DEF s
  <2>4. Paged_Unmarshal(PageResponse_PlainEncoded(m.pagination)) = Ok(m.pagination, 0)
    BY <2>1, <2>2, <2>3, PagedPlainBack
  <2> QED
    BY <2>1, <2>4
<1>9. p2.st = "ok" /\ p2.v = m.pagination
  <2> HIDE DEF p2
  <2> QED
    BY <1>8, OkParts
<1>10. m = [identity |-> m.identity, pagination |-> m.pagination]
  BY DEF PlainQueryIdentityByCccdIdResponseSet
<1> HIDE DEF s, p1, p2
<1> QED
  BY <1>3, <1>4, <1>7, <1>9, <1>10

Module_Row(m) == <<StringValues(m.authority)>>

(* What a scan finds in the pulsar form.                                   *)
LEMMA Module_Found ==
  ASSUME NEW m \in ModuleSet, NEW bs, bs = Module_marshal(m)
  PROVE  /\ bs \in Bytes
         /\ Fits(bs) => Scan(<<2>>, bs) = Found(Module_Row(m), m.unknown)
<1> DEFINE wt == <<2>>
           a1 == StringField(1, m.authority)
           z1 == StringSize(m.authority)
           v1 == StringValues(m.authority)
           a == a1
           z == z1
           g == Module_Row(m)
           u == m.unknown
<1>1. IsTable(wt) /\ 1 \in DOMAIN wt /\ wt[1] = 2
  BY Tables
<1>2. Writes(wt, a1, z1, Only(wt, 1, v1))
  <2>1. m.authority \in Bytes
    BY DEF ModuleSet
  <2>2. 1 \in 1 .. 7
    OBVIOUS
  <2> HIDE DEF wt
  <2> QED
    BY <1>1, <2>1, <2>2, StringWrites
<1>3. g = <<v1>>
  BY DEF Module_Row
<1>4. Writes(wt, a, z, g)
  <2> HIDE DEF a1, z1, v1, g
  <2>1. Writes(<<2>>, a1, z1, <<v1>>)
    BY <1>2, OneFieldWrites
  <2> QED
    BY <1>3, <2>1
<1>5. u \in Kept(wt)
  BY DEF ModuleSet
<1>6. bs = Fill(z + Len(u), a \o u)
  BY DEF Module_marshal, Module_size
<1> HIDE DEF wt, a, z, g, u
<1>7. bs \in Bytes /\ (Fits(bs) => Scan(wt, bs) = Found(g, u))
  BY <1>1, <1>4, <1>5, <1>6, MessageFound
<1> QED
  BY <1>7 DEF wt, g, u

(* The pulsar form is read as it was written.                              *)
LEMMA Module_Back ==
  ASSUME NEW m \in ModuleSet, NEW bs, bs = Module_marshal(m)
  PROVE  bs \in Bytes /\ (Fits(bs) => Module_unmarshal(bs) = Ok(m, 0))
<1> DEFINE wt == <<2>>
           g == Module_Row(m)
<1>1. bs \in Bytes /\ (Fits(bs) => Scan(wt, bs) = Found(g, m.unknown))
  BY Module_Found
<1>2. IsTable(wt) /\ 1 \in DOMAIN wt /\ wt[1] = 2
  BY Tables
<1> SUFFICES ASSUME Fits(bs)
             PROVE  Module_unmarshal(bs) = Ok(m, 0)
  BY <1>1
<1> DEFINE s == Scan(wt, bs)
<1>3. Module_unmarshal(bs) =
        IF s.st # "ok" THEN s ELSE
        Ok([authority |-> StringOf(s, 1), unknown |-> s.unknown], 0)
  BY DEF Module_unmarshal, Then
<1>4. s = Found(g, m.unknown) /\ s.st = "ok" /\ s.fields = g /\ s.unknown = m.unknown
  <2>1. s = Found(g, m.unknown)
    BY <1>1
  <2> HIDE DEF s, g
  <2> QED
    BY <2>1 DEF Found
<1>6. StringOf(s, 1) = m.authority
  <2>1. s.fields[1] = StringValues(m.authority)
    BY <1>4 DEF Module_Row
  <2> HIDE DEF s
  <2> QED
    BY <2>1, StringBack
<1>7. m = [authority |-> m.authority, unknown |-> m.unknown]
  BY DEF ModuleSet
<1> HIDE DEF s
<1> QED
  BY <1>3, <1>4, <1>6, <1>7

-----------------------------------------------------------------------------
(* What the gogo form of a message is.                                     *)

(* The gogo form of an identity, of a page request, of its answer.         *)
LEMMA WithoutFormed ==
  /\ \A m \in IdentitySet : Without(m) \in PlainIdentitySet
  /\ \A m \in PageRequestSet : Without(m) \in PlainPageRequestSet
  /\ \A m \in PageResponseSet : Without(m) \in PlainPageResponseSet
<1>1. ASSUME NEW m \in IdentitySet
      PROVE  Without(m) \in PlainIdentitySet
  BY DEF Without, IdentitySet, PlainIdentitySet
<1>2. ASSUME NEW m \in PageRequestSet
      PROVE  Without(m) \in PlainPageRequestSet
  BY DEF Without, PageRequestSet, PlainPageRequestSet
<1>3. ASSUME NEW m \in PageResponseSet
      PROVE  Without(m) \in PlainPageResponseSet
  BY DEF Without, PageResponseSet, PlainPageResponseSet
<1> QED
  BY <1>1, <1>2, <1>3

(* Of a list of messages.                                                  *)
LEMMA EachFormed ==
  ASSUME NEW S, NEW R, \A m \in S : Without(m) \in R, NEW ms \in Seq(S)
  PROVE  EachWithout(ms) \in Seq(R)
<1>1. DOMAIN ms = 1 .. Len(ms) /\ Len(ms) \in Nat /\ \A k \in 1 .. Len(ms) : ms[k] \in S
  OBVIOUS
<1>2. \A k \in 1 .. Len(ms) : Without(ms[k]) \in R
  BY <1>1
<1>3. EachWithout(ms) = [k \in 1 .. Len(ms) |-> Without(ms[k])]
  BY <1>1 DEF EachWithout
<1>4. ASSUME NEW n \in Nat, NEW f, f = [k \in 1 .. n |-> Without(ms[k])],
             \A k \in 1 .. n : Without(ms[k]) \in R
      PROVE  f \in Seq(R)
  BY <1>4
<1> QED
  BY <1>1, <1>2, <1>3, <1>4

(* Of a pointer to one.                                                    *)
LEMMA PointerFormed ==
  ASSUME NEW S, NEW R, \A m \in S : Without(m) \in R, NEW ms \in Pointer(S)
  PROVE  EachWithout(ms) \in Pointer(R)
<1>1. CASE ms = <<>>
  BY <1>1 DEF EachWithout, Pointer
<1>2. ASSUME NEW m \in S, ms = <<m>>
      PROVE  EachWithout(ms) \in Pointer(R)
  <2>1. EachWithout(ms) = <<Without(m)>>
    BY <1>2 DEF EachWithout
  <2> QED
    BY <2>1 DEF Pointer
<1> QED
  BY <1>1, <1>2, PointerList

(* An identity that is not there.                                          *)
LEMMA NoIdentityFormed == NoIdentity \in PlainIdentitySet
<1>1. 0 \in Int64
  BY Words DEF Int64
<1> QED
  BY <1>1, NoBytes DEF NoIdentity, PlainIdentitySet

(* The gogo form of the message.                                           *)
LEMMA Params_Same ==
  ASSUME NEW m \in ParamsSet
  PROVE  Same("Params", m) \in PlainParamsSet
<1>1. DOMAIN m = {"unknown"}
  BY DEF ParamsSet
<1>2. DOMAIN Without(m) = {}
  BY <1>1 DEF Without
<1> QED
  BY <1>2 DEF Same, PlainParamsSet

(* The gogo form of the message.                                           *)
LEMMA Identity_Same ==
  ASSUME NEW m \in IdentitySet
  PROVE  Same("Identity", m) \in PlainIdentitySet
<1> DEFINE q == [address |-> m.address,
                 idHash |-> m.idHash,
                 createdAt |-> m.createdAt]
<1>1. Without(m) = [address |-> m.address, idHash |-> m.idHash, createdAt |-> m.createdAt]
  BY DEF Without, IdentitySet
<1>2. Same("Identity", m) = q
  <2>1. DOMAIN Without(m) # {}
    BY <1>1
  <2> QED
    BY <1>1, <2>1 DEF Same
<1>3. q.address \in Bytes
  BY DEF IdentitySet
<1>4. q.idHash \in Bytes
  BY DEF IdentitySet
<1>5. q.createdAt \in Int64
  BY DEF IdentitySet
<1> QED
  BY <1>2, <1>3, <1>4, <1>5 DEF PlainIdentitySet

(* The gogo form of the message.                                           *)
LEMMA GenesisState_Same ==
  ASSUME NEW m \in GenesisStateSet
  PROVE  Same("GenesisState", m) \in PlainGenesisStateSet
<1> DEFINE q == [params |-> NoFields,
                 identityList |-> EachWithout(m.identityList)]
<1>1. Without(m) = [params |-> m.params, identityList |-> m.identityList]
  BY DEF Without, GenesisStateSet
<1>2. Same("GenesisState", m) = q
  BY <1>1 DEF Same
<1>3. NoFields \in PlainParamsSet
  BY DEF PlainParamsSet
<1>4. q.identityList \in Seq(PlainIdentitySet)
  <2>1. m.identityList \in Seq(IdentitySet)
    BY DEF GenesisStateSet
  <2>2. \A x \in IdentitySet : Without(x) \in PlainIdentitySet
    BY WithoutFormed
  <2>3. EachWithout(m.identityList) \in Seq(PlainIdentitySet)
    BY <2>1, <2>2, EachFormed
  <2> QED
    BY <2>3
<1> QED
  BY <1>2, <1>3, <1>4 DEF PlainGenesisStateSet

(* The gogo form of the message.                                           *)
LEMMA MsgUpdateParams_Same ==
  ASSUME NEW m \in MsgUpdateParamsSet
  PROVE  Same("MsgUpdateParams", m) \in PlainMsgUpdateParamsSet
<1> DEFINE q == [authority |-> m.authority,
                 params |-> NoFields]
<1>1. Without(m) = [authority |-> m.authority, params |-> m.params]
  BY DEF Without, MsgUpdateParamsSet
<1>2. Same("MsgUpdateParams", m) = q
  BY <1>1 DEF Same
<1>3. q.authority \in Bytes
  BY DEF MsgUpdateParamsSet
<1>4. NoFields \in PlainParamsSet
  BY DEF PlainParamsSet
<1> QED
  BY <1>2, <1>3, <1>4 DEF PlainMsgUpdateParamsSet

(* The gogo form of the message.                                           *)
LEMMA MsgUpdateParamsResponse_Same ==
  ASSUME NEW m \in MsgUpdateParamsResponseSet
  PROVE  Same("MsgUpdateParamsResponse", m) \in PlainMsgUpdateParamsResponseSet
<1>1. DOMAIN m = {"unknown"}
  BY DEF MsgUpdateParamsResponseSet
<1>2. DOMAIN Without(m) = {}
  BY <1>1 DEF Without
<1> QED
  BY <1>2 DEF Same, PlainMsgUpdateParamsResponseSet

(* The gogo form of the message.                                           *)
LEMMA MsgCreateIdentity_Same ==
  ASSUME NEW m \in MsgCreateIdentitySet
  PROVE  Same("MsgCreateIdentity", m) \in PlainMsgCreateIdentitySet
<1> DEFINE q == [creator |-> m.creator,
                 cccdId |-> m.cccdId]
<1>1. Without(m) = [creator |-> m.creator, cccdId |-> m.cccdId]
  BY DEF Without, MsgCreateIdentitySet
<1>2. Same("MsgCreateIdentity", m) = q
  <2>1. DOMAIN Without(m) # {}
    BY <1>1
  <2> QED
    BY <1>1, <2>1 DEF Same
<1>3. q.creator \in Bytes
  BY DEF MsgCreateIdentitySet
<1>4. q.cccdId \in Bytes
  BY DEF MsgCreateIdentitySet
<1> QED
  BY <1>2, <1>3, <1>4 DEF PlainMsgCreateIdentitySet

(* The gogo form of the message.                                           *)
LEMMA MsgCreateIdentityResponse_Same ==
  ASSUME NEW m \in MsgCreateIdentityResponseSet
  PROVE  Same("MsgCreateIdentityResponse", m) \in PlainMsgCreateIdentityResponseSet
<1>1. DOMAIN m = {"unknown"}
  BY DEF MsgCreateIdentityResponseSet
<1>2. DOMAIN Without(m) = {}
  BY <1>1 DEF Without
<1> QED
  BY <1>2 DEF Same, PlainMsgCreateIdentityResponseSet

(* The gogo form of the message.                                           *)
LEMMA QueryParamsRequest_Same ==
  ASSUME NEW m \in QueryParamsRequestSet
  PROVE  Same("QueryParamsRequest", m) \in PlainQueryParamsRequestSet
<1>1. DOMAIN m = {"unknown"}
  BY DEF QueryParamsRequestSet
<1>2. DOMAIN Without(m) = {}
  BY <1>1 DEF Without
<1> QED
  BY <1>2 DEF Same, PlainQueryParamsRequestSet

(* The gogo form of the message.                                           *)
LEMMA QueryParamsResponse_Same ==
  ASSUME NEW m \in QueryParamsResponseSet
  PROVE  Same("QueryParamsResponse", m) \in PlainQueryParamsResponseSet
<1> DEFINE q == [params |-> NoFields]
<1>1. Without(m) = [params |-> m.params]
  BY DEF Without, QueryParamsResponseSet
<1>2. Same("QueryParamsResponse", m) = q
  BY <1>1 DEF Same
<1>3. NoFields \in PlainParamsSet
  BY DEF PlainParamsSet
<1> QED
  BY <1>2, <1>3 DEF PlainQueryParamsResponseSet

(* The gogo form of the message.                                           *)
LEMMA QueryGetIdentityRequest_Same ==
  ASSUME NEW m \in QueryGetIdentityRequestSet
  PROVE  Same("QueryGetIdentityRequest", m) \in PlainQueryGetIdentityRequestSet
<1> DEFINE q == [address |-> m.address]
<1>1. Without(m) = [address |-> m.address]
  BY DEF Without, QueryGetIdentityRequestSet
<1>2. Same("QueryGetIdentityRequest", m) = q
  <2>1. DOMAIN Without(m) # {}
    BY <1>1
  <2> QED
    BY <1>1, <2>1 DEF Same
<1>3. q.address \in Bytes
  BY DEF QueryGetIdentityRequestSet
<1> QED
  BY <1>2, <1>3 DEF PlainQueryGetIdentityRequestSet

(* The gogo form of the message.                                           *)
LEMMA QueryGetIdentityResponse_Same ==
  ASSUME NEW m \in QueryGetIdentityResponseSet
  PROVE  Same("QueryGetIdentityResponse", m) \in PlainQueryGetIdentityResponseSet
<1> DEFINE q == [identity |-> IF m.identity = <<>> THEN NoIdentity ELSE Without(m.identity[1])]
<1>1. Without(m) = [identity |-> m.identity]
  BY DEF Without, QueryGetIdentityResponseSet
<1>2. Same("QueryGetIdentityResponse", m) = q
  BY <1>1 DEF Same
<1>3. q.identity \in PlainIdentitySet
  <2>1. m.identity \in Pointer(IdentitySet)
    BY DEF QueryGetIdentityResponseSet
  <2>2. m.identity = <<>> \/ m.identity[1] \in IdentitySet
    BY <2>1, PointerList
  <2> QED
    BY <2>2, WithoutFormed, NoIdentityFormed
<1> QED
  BY <1>2, <1>3 DEF PlainQueryGetIdentityResponseSet

(* The gogo form of the message.                                           *)
LEMMA QueryAllIdentityRequest_Same ==
  ASSUME NEW m \in QueryAllIdentityRequestSet
  PROVE  Same("QueryAllIdentityRequest", m) \in PlainQueryAllIdentityRequestSet
<1> DEFINE q == [pagination |-> EachWithout(m.pagination)]
<1>1. Without(m) = [pagination |-> m.pagination]
  BY DEF Without, QueryAllIdentityRequestSet
<1>2. Same("QueryAllIdentityRequest", m) = q
  BY <1>1 DEF Same
<1>3. q.pagination \in Pointer(PlainPageRequestSet)
  <2>1. m.pagination \in Pointer(PageRequestSet)
    BY DEF QueryAllIdentityRequestSet
  <2>2. \A x \in PageRequestSet : Without(x) \in PlainPageRequestSet
    BY WithoutFormed
  <2>3. EachWithout(m.pagination) \in Pointer(PlainPageRequestSet)
    BY <2>1, <2>2, PointerFormed
  <2> QED
    BY <2>3
<1> QED
  BY <1>2, <1>3 DEF PlainQueryAllIdentityRequestSet

(* The gogo form of the message.                                           *)
LEMMA QueryAllIdentityResponse_Same ==
  ASSUME NEW m \in QueryAllIdentityResponseSet
  PROVE  Same("QueryAllIdentityResponse", m) \in PlainQueryAllIdentityResponseSet
<1> DEFINE q == [identity |-> EachWithout(m.identity),
                 pagination |-> EachWithout(m.pagination)]
<1>1. Without(m) = [identity |-> m.identity, pagination |-> m.pagination]
  BY DEF Without, QueryAllIdentityResponseSet
<1>2. Same("QueryAllIdentityResponse", m) = q
  BY <1>1 DEF Same
<1>3. q.identity \in Seq(PlainIdentitySet)
  <2>1. m.identity \in Seq(IdentitySet)
    BY DEF QueryAllIdentityResponseSet
  <2>2. \A x \in IdentitySet : Without(x) \in PlainIdentitySet
    BY WithoutFormed
  <2>3. EachWithout(m.identity) \in Seq(PlainIdentitySet)
    BY <2>1, <2>2, EachFormed
  <2> QED
    BY <2>3
<1>4. q.pagination \in Pointer(PlainPageResponseSet)
  <2>1. m.pagination \in Pointer(PageResponseSet)
    BY DEF QueryAllIdentityResponseSet
  <2>2. \A x \in PageResponseSet : Without(x) \in PlainPageResponseSet
    BY WithoutFormed
  <2>3. EachWithout(m.pagination) \in Pointer(PlainPageResponseSet)
    BY <2>1, <2>2, PointerFormed
  <2> QED
    BY <2>3
<1> QED
  BY <1>2, <1>3, <1>4 DEF PlainQueryAllIdentityResponseSet

(* The gogo form of the message.                                           *)
LEMMA QueryIdentityByCccdIdRequest_Same ==
  ASSUME NEW m \in QueryIdentityByCccdIdRequestSet
  PROVE  Same("QueryIdentityByCccdIdRequest", m) \in PlainQueryIdentityByCccdIdRequestSet
<1> DEFINE q == [idHash |-> m.idHash,
                 pagination |-> EachWithout(m.pagination)]
<1>1. Without(m) = [idHash |-> m.idHash, pagination |-> m.pagination]
  BY DEF Without, QueryIdentityByCccdIdRequestSet
<1>2. Same("QueryIdentityByCccdIdRequest", m) = q
  BY <1>1 DEF Same
<1>3. q.idHash \in Bytes
  BY DEF QueryIdentityByCccdIdRequestSet
<1>4. q.pagination \in Pointer(PlainPageRequestSet)
  <2>1. m.pagination \in Pointer(PageRequestSet)
    BY DEF QueryIdentityByCccdIdRequestSet
  <2>2. \A x \in PageRequestSet : Without(x) \in PlainPageRequestSet
    BY WithoutFormed
  <2>3. EachWithout(m.pagination) \in Pointer(PlainPageRequestSet)
    BY <2>1, <2>2, PointerFormed
  <2> QED
    BY <2>3
<1> QED
  BY <1>2, <1>3, <1>4 DEF PlainQueryIdentityByCccdIdRequestSet

(* The gogo form of the message.                                           *)
LEMMA QueryIdentityByCccdIdResponse_Same ==
  ASSUME NEW m \in QueryIdentityByCccdIdResponseSet
  PROVE  Same("QueryIdentityByCccdIdResponse", m) \in PlainQueryIdentityByCccdIdResponseSet
<1> DEFINE q == [identity |-> EachWithout(m.identity),
                 pagination |-> EachWithout(m.pagination)]
<1>1. Without(m) = [identity |-> m.identity, pagination |-> m.pagination]
  BY DEF Without, QueryIdentityByCccdIdResponseSet
<1>2. Same("QueryIdentityByCccdIdResponse", m) = q
  BY <1>1 DEF Same
<1>3. q.identity \in Seq(PlainIdentitySet)
  <2>1. m.identity \in Seq(IdentitySet)
    BY DEF QueryIdentityByCccdIdResponseSet
  <2>2. \A x \in IdentitySet : Without(x) \in PlainIdentitySet
    BY WithoutFormed
  <2>3. EachWithout(m.identity) \in Seq(PlainIdentitySet)
    BY <2>1, <2>2, EachFormed
  <2> QED
    BY <2>3
<1>4. q.pagination \in Pointer(PlainPageResponseSet)
  <2>1. m.pagination \in Pointer(PageResponseSet)
    BY DEF QueryIdentityByCccdIdResponseSet
  <2>2. \A x \in PageResponseSet : Without(x) \in PlainPageResponseSet
    BY WithoutFormed
  <2>3. EachWithout(m.pagination) \in Pointer(PlainPageResponseSet)
    BY <2>1, <2>2, PointerFormed
  <2> QED
    BY <2>3
<1> QED
  BY <1>2, <1>3, <1>4 DEF PlainQueryIdentityByCccdIdResponseSet


-----------------------------------------------------------------------------
(* The fields that are populated are the ones that are written.            *)

(* Not to know of any fields is to keep none.                              *)
LEMMA NothingKept ==
  ASSUME NEW wt, IsTable(wt)
  PROVE  <<>> \in Kept(wt)
BY ScanNothing, NoBytes DEF Kept

(* A field that is there.                                                  *)
LEMMA SomeValues ==
  /\ \A s : (StringValues(s) # <<>>) <=> (s # <<>>)
  /\ \A x : (NumberValues(x) # <<>>) <=> (x # 0)
BY DEF StringValues, NumberValues

(* Messages that are there.                                                *)
LEMMA SomeMessages ==
  ASSUME NEW S, NEW ms \in Seq(S), NEW f, DOMAIN f = DOMAIN ms, NEW e, e =
         [k \in DOMAIN ms |-> f[k]]
  PROVE  (e # <<>>) <=> (ms # <<>>)
<1>1. DOMAIN ms = 1 .. Len(ms) /\ Len(ms) \in Nat
  OBVIOUS
<1>2. DOMAIN e = 1 .. Len(ms)
  BY <1>1
<1>3. CASE ms = <<>>
  <2>1. Len(ms) = 0
    BY <1>3
  <2> QED
    BY <1>1, <1>3, <2>1
<1>4. CASE ms # <<>>
  <2>1. Len(ms) # 0
    BY <1>1, <1>4
  <2>2. 1 \in DOMAIN e
    BY <1>1, <1>2, <2>1
  <2> QED
    BY <1>4, <2>2
<1> QED
  BY <1>3, <1>4


(* The populated fields of the message are the ones that are written.      *)
LEMMA Params_RangeWritten ==
  ASSUME NEW m \in ParamsSet, NEW k, k = [m EXCEPT !.unknown = <<>>],
         NEW bs, bs = Params_marshal(k), Fits(bs), NEW s, s = Scan(<<>>, bs)
  PROVE  Params_Range(m) = {n \in DOMAIN s.fields : Values(s, n) # <<>>}
<1> DEFINE wt == <<>>
           g == Params_Row(k)
<1>1. <<>> \in Kept(wt)
  BY Tables, NothingKept
<1>2. k \in ParamsSet /\ k.unknown = <<>>
  BY <1>1 DEF ParamsSet
<1>4. s = Found(g, <<>>)
  <2>1. Scan(wt, bs) = Found(g, k.unknown)
    BY <1>2, Params_Found
  <2> QED
    BY <1>2, <2>1
<1>5. s.fields = g
  <2> HIDE DEF g
  <2> QED
    BY <1>4 DEF Found
<1>6. DOMAIN g = {}
  BY DEF Params_Row
<1> HIDE DEF g
<1> QED
  BY <1>5, <1>6 DEF Params_Range, Values

(* The populated fields of the message are the ones that are written.      *)
LEMMA Identity_RangeWritten ==
  ASSUME NEW m \in IdentitySet, NEW k, k = [m EXCEPT !.unknown = <<>>],
         NEW bs, bs = Identity_marshal(k), Fits(bs), NEW s, s = Scan(<<2, 2, 0>>, bs)
  PROVE  Identity_Range(m) = {n \in DOMAIN s.fields : Values(s, n) # <<>>}
<1> DEFINE wt == <<2, 2, 0>>
           g == Identity_Row(k)
<1>1. <<>> \in Kept(wt)
  BY Tables, NothingKept
<1>2. k \in IdentitySet /\ k.unknown = <<>>
  BY <1>1 DEF IdentitySet
<1>3. k.address = m.address /\ k.idHash = m.idHash /\ k.createdAt = m.createdAt
  BY DEF IdentitySet
<1>4. s = Found(g, <<>>)
  <2>1. Scan(wt, bs) = Found(g, k.unknown)
    BY <1>2, Identity_Found
  <2> QED
    BY <1>2, <2>1
<1>5. s.fields = g
  <2> HIDE DEF g
  <2> QED
    BY <1>4 DEF Found
<1>6. (g[1] # <<>>) <=> (m.address # <<>>)
  BY <1>3, SomeValues DEF Identity_Row
<1>7. (g[2] # <<>>) <=> (m.idHash # <<>>)
  BY <1>3, SomeValues DEF Identity_Row
<1>8. (g[3] # <<>>) <=> (m.createdAt # 0)
  BY <1>3, SomeValues DEF Identity_Row
<1>9. DOMAIN g = {1, 2, 3}
  BY DEF Identity_Row
<1> HIDE DEF g
<1> QED
  BY <1>5, <1>6, <1>7, <1>8, <1>9 DEF Identity_Range, Values, Populated

(* The populated fields of the message are the ones that are written.      *)
LEMMA GenesisState_RangeWritten ==
  ASSUME NEW m \in GenesisStateSet, NEW k, k = [m EXCEPT !.unknown = <<>>],
         NEW bs, bs = GenesisState_marshal(k), Fits(bs), NEW s, s = Scan(<<2, 2>>, bs)
  PROVE  GenesisState_Range(m) = {n \in DOMAIN s.fields : Values(s, n) # <<>>}
<1> DEFINE wt == <<2, 2>>
           g == GenesisState_Row(k)
<1>1. <<>> \in Kept(wt)
  BY Tables, NothingKept
<1>2. k \in GenesisStateSet /\ k.unknown = <<>>
  BY <1>1 DEF GenesisStateSet
<1>3. k.params = m.params /\ k.identityList = m.identityList
  BY DEF GenesisStateSet
<1>4. s = Found(g, <<>>)
  <2>1. Scan(wt, bs) = Found(g, k.unknown)
    BY <1>2, GenesisState_Found
  <2> QED
    BY <1>2, <2>1
<1>5. s.fields = g
  <2> HIDE DEF g
  <2> QED
    BY <1>4 DEF Found
<1>6. (g[1] # <<>>) <=> (m.params # <<>>)
  <2> DEFINE e == Params_Encoded(m.params)
  <2>1. g[1] = e
    BY <1>3 DEF GenesisState_Row
  <2>2. m.params \in Seq(ParamsSet)
    <3>1. m.params \in Pointer(ParamsSet)
      BY DEF GenesisStateSet
    <3> QED
      BY <3>1, PointerList
  <2>3. DOMAIN e = DOMAIN m.params /\ e = [i \in DOMAIN m.params |-> e[i]]
    BY DEF Params_Encoded
  <2> HIDE DEF e, g
  <2>4. (e # <<>>) <=> (m.params # <<>>)
    BY <2>2, <2>3, SomeMessages
  <2> QED
    BY <2>1, <2>4
<1>7. (g[2] # <<>>) <=> (m.identityList # <<>>)
  <2> DEFINE e == Identity_Encoded(m.identityList)
  <2>1. g[2] = e
    BY <1>3 DEF GenesisState_Row
  <2>2. m.identityList \in Seq(IdentitySet)
    BY DEF GenesisStateSet
  <2>3. DOMAIN e = DOMAIN m.identityList /\ e = [i \in DOMAIN m.identityList |-> e[i]]
    BY DEF Identity_Encoded
  <2> HIDE DEF e, g
  <2>4. (e # <<>>) <=> (m.identityList # <<>>)
    BY <2>2, <2>3, SomeMessages
  <2> QED
    BY <2>1, <2>4
<1>8. DOMAIN g = {1, 2}
  BY DEF GenesisState_Row
<1> HIDE DEF g
<1> QED
  BY <1>5, <1>6, <1>7, <1>8 DEF GenesisState_Range, Values, Populated

(* The populated fields of the message are the ones that are written.      *)
LEMMA MsgUpdateParams_RangeWritten ==
  ASSUME NEW m \in MsgUpdateParamsSet, NEW k, k = [m EXCEPT !.unknown = <<>>],
         NEW bs, bs = MsgUpdateParams_marshal(k), Fits(bs), NEW s, s = Scan(<<2, 2>>, bs)
  PROVE  MsgUpdateParams_Range(m) = {n \in DOMAIN s.fields : Values(s, n) # <<>>}
<1> DEFINE wt == <<2, 2>>
           g == MsgUpdateParams_Row(k)
<1>1. <<>> \in Kept(wt)
  BY Tables, NothingKept
<1>2. k \in MsgUpdateParamsSet /\ k.unknown = <<>>
  BY <1>1 DEF MsgUpdateParamsSet
<1>3. k.authority = m.authority /\ k.params = m.params
  BY DEF MsgUpdateParamsSet
<1>4. s = Found(g, <<>>)
  <2>1. Scan(wt, bs) = Found(g, k.unknown)
    BY <1>2, MsgUpdateParams_Found
  <2> QED
    BY <1>2, <2>1
<1>5. s.fields = g
  <2> HIDE DEF g
  <2> QED
    BY <1>4 DEF Found
<1>6. (g[1] # <<>>) <=> (m.authority # <<>>)
  BY <1>3, SomeValues DEF MsgUpdateParams_Row
<1>7. (g[2] # <<>>) <=> (m.params # <<>>)
  <2> DEFINE e == Params_Encoded(m.params)
  <2>1. g[2] = e
    BY <1>3 DEF MsgUpdateParams_Row
  <2>2. m.params \in Seq(ParamsSet)
    <3>1. m.params \in Pointer(ParamsSet)
      BY DEF MsgUpdateParamsSet
    <3> QED
      BY <3>1, PointerList
  <2>3. DOMAIN e = DOMAIN m.params /\ e = [i \in DOMAIN m.params |-> e[i]]
    BY DEF Params_Encoded
  <2> HIDE DEF e, g
  <2>4. (e # <<>>) <=> (m.params # <<>>)
    BY <2>2, <2>3, SomeMessages
  <2> QED
    BY <2>1, <2>4
<1>8. DOMAIN g = {1, 2}
  BY DEF MsgUpdateParams_Row
<1> HIDE DEF g
<1> QED
  BY <1>5, <1>6, <1>7, <1>8 DEF MsgUpdateParams_Range, Values, Populated

(* The populated fields of the message are the ones that are written.      *)
LEMMA MsgUpdateParamsResponse_RangeWritten ==
  ASSUME NEW m \in MsgUpdateParamsResponseSet, NEW k, k = [m EXCEPT !.unknown = <<>>],
         NEW bs, bs = MsgUpdateParamsResponse_marshal(k), Fits(bs), NEW s, s = Scan(<<>>, bs)
  PROVE  MsgUpdateParamsResponse_Range(m) = {n \in DOMAIN s.fields : Values(s, n) # <<>>}
<1> DEFINE wt == <<>>
           g == MsgUpdateParamsResponse_Row(k)
<1>1. <<>> \in Kept(wt)
  BY Tables, NothingKept
<1>2. k \in MsgUpdateParamsResponseSet /\ k.unknown = <<>>
  BY <1>1 DEF MsgUpdateParamsResponseSet
<1>4. s = Found(g, <<>>)
  <2>1. Scan(wt, bs) = Found(g, k.unknown)
    BY <1>2, MsgUpdateParamsResponse_Found
  <2> QED
    BY <1>2, <2>1
<1>5. s.fields = g
  <2> HIDE DEF g
  <2> QED
    BY <1>4 DEF Found
<1>6. DOMAIN g = {}
  BY DEF MsgUpdateParamsResponse_Row
<1> HIDE DEF g
<1> QED
  BY <1>5, <1>6 DEF MsgUpdateParamsResponse_Range, Values

(* The populated fields of the message are the ones that are written.      *)
LEMMA MsgCreateIdentity_RangeWritten ==
  ASSUME NEW m \in MsgCreateIdentitySet, NEW k, k = [m EXCEPT !.unknown = <<>>],
         NEW bs, bs = MsgCreateIdentity_marshal(k), Fits(bs), NEW s, s = Scan(<<2, 2>>, bs)
  PROVE  MsgCreateIdentity_Range(m) = {n \in DOMAIN s.fields : Values(s, n) # <<>>}
<1> DEFINE wt == <<2, 2>>
           g == MsgCreateIdentity_Row(k)
<1>1. <<>> \in Kept(wt)
  BY Tables, NothingKept
<1>2. k \in MsgCreateIdentitySet /\ k.unknown = <<>>
  BY <1>1 DEF MsgCreateIdentitySet
<1>3. k.creator = m.creator /\ k.cccdId = m.cccdId
  BY DEF MsgCreateIdentitySet
<1>4. s = Found(g, <<>>)
  <2>1. Scan(wt, bs) = Found(g, k.unknown)
    BY <1>2, MsgCreateIdentity_Found
  <2> QED
    BY <1>2, <2>1
<1>5. s.fields = g
  <2> HIDE DEF g
  <2> QED
    BY <1>4 DEF Found
<1>6. (g[1] # <<>>) <=> (m.creator # <<>>)
  BY <1>3, SomeValues DEF MsgCreateIdentity_Row
<1>7. (g[2] # <<>>) <=> (m.cccdId # <<>>)
  BY <1>3, SomeValues DEF MsgCreateIdentity_Row
<1>8. DOMAIN g = {1, 2}
  BY DEF MsgCreateIdentity_Row
<1> HIDE DEF g
<1> QED
  BY <1>5, <1>6, <1>7, <1>8 DEF MsgCreateIdentity_Range, Values, Populated

(* The populated fields of the message are the ones that are written.      *)
LEMMA MsgCreateIdentityResponse_RangeWritten ==
  ASSUME NEW m \in MsgCreateIdentityResponseSet, NEW k, k = [m EXCEPT !.unknown = <<>>],
         NEW bs, bs = MsgCreateIdentityResponse_marshal(k), Fits(bs), NEW s, s = Scan(<<>>, bs)
  PROVE  MsgCreateIdentityResponse_Range(m) = {n \in DOMAIN s.fields : Values(s, n) # <<>>}
<1> DEFINE wt == <<>>
           g == MsgCreateIdentityResponse_Row(k)
<1>1. <<>> \in Kept(wt)
  BY Tables, NothingKept
<1>2. k \in MsgCreateIdentityResponseSet /\ k.unknown = <<>>
  BY <1>1 DEF MsgCreateIdentityResponseSet
<1>4. s = Found(g, <<>>)
  <2>1. Scan(wt, bs) = Found(g, k.unknown)
    BY <1>2, MsgCreateIdentityResponse_Found
  <2> QED
    BY <1>2, <2>1
<1>5. s.fields = g
  <2> HIDE DEF g
  <2> QED
    BY <1>4 DEF Found
<1>6. DOMAIN g = {}
  BY DEF MsgCreateIdentityResponse_Row
<1> HIDE DEF g
<1> QED
  BY <1>5, <1>6 DEF MsgCreateIdentityResponse_Range, Values

(* The populated fields of the message are the ones that are written.      *)
LEMMA QueryParamsRequest_RangeWritten ==
  ASSUME NEW m \in QueryParamsRequestSet, NEW k, k = [m EXCEPT !.unknown = <<>>],
         NEW bs, bs = QueryParamsRequest_marshal(k), Fits(bs), NEW s, s = Scan(<<>>, bs)
  PROVE  QueryParamsRequest_Range(m) = {n \in DOMAIN s.fields : Values(s, n) # <<>>}
<1> DEFINE wt == <<>>
           g == QueryParamsRequest_Row(k)
<1>1. <<>> \in Kept(wt)
  BY Tables, NothingKept
<1>2. k \in QueryParamsRequestSet /\ k.unknown = <<>>
  BY <1>1 DEF QueryParamsRequestSet
<1>4. s = Found(g, <<>>)
  <2>1. Scan(wt, bs) = Found(g, k.unknown)
    BY <1>2, QueryParamsRequest_Found
  <2> QED
    BY <1>2, <2>1
<1>5. s.fields = g
  <2> HIDE DEF g
  <2> QED
    BY <1>4 DEF Found
<1>6. DOMAIN g = {}
  BY DEF QueryParamsRequest_Row
<1> HIDE DEF g
<1> QED
  BY <1>5, <1>6 DEF QueryParamsRequest_Range, Values

(* The populated fields of the message are the ones that are written.      *)
LEMMA QueryParamsResponse_RangeWritten ==
  ASSUME NEW m \in QueryParamsResponseSet, NEW k, k = [m EXCEPT !.unknown = <<>>],
         NEW bs, bs = QueryParamsResponse_marshal(k), Fits(bs), NEW s, s = Scan(<< 2 >>, bs)
  PROVE  QueryParamsResponse_Range(m) = {n \in DOMAIN s.fields : Values(s, n) # <<>>}
<1> DEFINE wt == <<2>>
           g == QueryParamsResponse_Row(k)
<1>1. <<>> \in Kept(wt)
  BY Tables, NothingKept
<1>2. k \in QueryParamsResponseSet /\ k.unknown = <<>>
  BY <1>1 DEF QueryParamsResponseSet
<1>3. k.params = m.params
  BY DEF QueryParamsResponseSet
<1>4. s = Found(g, <<>>)
  <2>1. Scan(wt, bs) = Found(g, k.unknown)
    BY <1>2, QueryParamsResponse_Found
  <2> QED
    BY <1>2, <2>1
<1>5. s.fields = g
  <2> HIDE DEF g
  <2> QED
    BY <1>4 DEF Found
<1>6. (g[1] # <<>>) <=> (m.params # <<>>)
  <2> DEFINE e == Params_Encoded(m.params)
  <2>1. g[1] = e
    BY <1>3 DEF QueryParamsResponse_Row
  <2>2. m.params \in Seq(ParamsSet)
    <3>1. m.params \in Pointer(ParamsSet)
      BY DEF QueryParamsResponseSet
    <3> QED
      BY <3>1, PointerList
  <2>3. DOMAIN e = DOMAIN m.params /\ e = [i \in DOMAIN m.params |-> e[i]]
    BY DEF Params_Encoded
  <2> HIDE DEF e, g
  <2>4. (e # <<>>) <=> (m.params # <<>>)
    BY <2>2, <2>3, SomeMessages
  <2> QED
    BY <2>1, <2>4
<1>7. DOMAIN g = {1}
  BY DEF QueryParamsResponse_Row
<1> HIDE DEF g
<1> QED
  BY <1>5, <1>6, <1>7 DEF QueryParamsResponse_Range, Values, Populated

(* The populated fields of the message are the ones that are written.      *)
LEMMA QueryGetIdentityRequest_RangeWritten ==
  ASSUME NEW m \in QueryGetIdentityRequestSet, NEW k, k = [m EXCEPT !.unknown = <<>>],
         NEW bs, bs = QueryGetIdentityRequest_marshal(k), Fits(bs), NEW s, s = Scan(<< 2 >>, bs)
  PROVE  QueryGetIdentityRequest_Range(m) = {n \in DOMAIN s.fields : Values(s, n) # <<>>}
<1> DEFINE wt == <<2>>
           g == QueryGetIdentityRequest_Row(k)
<1>1. <<>> \in Kept(wt)
  BY Tables, NothingKept
<1>2. k \in QueryGetIdentityRequestSet /\ k.unknown = <<>>
  BY <1>1 DEF QueryGetIdentityRequestSet
<1>3. k.address = m.address
  BY DEF QueryGetIdentityRequestSet
<1>4. s = Found(g, <<>>)
  <2>1. Scan(wt, bs) = Found(g, k.unknown)
    BY <1>2, QueryGetIdentityRequest_Found
  <2> QED
    BY <1>2, <2>1
<1>5. s.fields = g
  <2> HIDE DEF g
  <2> QED
    BY <1>4 DEF Found
<1>6. (g[1] # <<>>) <=> (m.address # <<>>)
  BY <1>3, SomeValues DEF QueryGetIdentityRequest_Row
<1>7. DOMAIN g = {1}
  BY DEF QueryGetIdentityRequest_Row
<1> HIDE DEF g
<1> QED
  BY <1>5, <1>6, <1>7 DEF QueryGetIdentityRequest_Range, Values, Populated

(* The populated fields of the message are the ones that are written.      *)
LEMMA QueryGetIdentityResponse_RangeWritten ==
  ASSUME NEW m \in QueryGetIdentityResponseSet, NEW k, k = [m EXCEPT !.unknown = <<>>],
         NEW bs, bs = QueryGetIdentityResponse_marshal(k), Fits(bs), NEW s, s = Scan(<< 2 >>, bs)
  PROVE  QueryGetIdentityResponse_Range(m) = {n \in DOMAIN s.fields : Values(s, n) # <<>>}
<1> DEFINE wt == <<2>>
           g == QueryGetIdentityResponse_Row(k)
<1>1. <<>> \in Kept(wt)
  BY Tables, NothingKept
<1>2. k \in QueryGetIdentityResponseSet /\ k.unknown = <<>>
  BY <1>1 DEF QueryGetIdentityResponseSet
<1>3. k.identity = m.identity
  BY DEF QueryGetIdentityResponseSet
<1>4. s = Found(g, <<>>)
  <2>1. Scan(wt, bs) = Found(g, k.unknown)
    BY <1>2, QueryGetIdentityResponse_Found
  <2> QED
    BY <1>2, <2>1
<1>5. s.fields = g
  <2> HIDE DEF g
  <2> QED
    BY <1>4 DEF Found
<1>6. (g[1] # <<>>) <=> (m.identity # <<>>)
  <2> DEFINE e == Identity_Encoded(m.identity)
  <2>1. g[1] = e
    BY <1>3 DEF QueryGetIdentityResponse_Row
  <2>2. m.identity \in Seq(IdentitySet)
    <3>1. m.identity \in Pointer(IdentitySet)
      BY DEF QueryGetIdentityResponseSet
    <3> QED
      BY <3>1, PointerList
  <2>3. DOMAIN e = DOMAIN m.identity /\ e = [i \in DOMAIN m.identity |-> e[i]]
    BY DEF Identity_Encoded
  <2> HIDE DEF e, g
  <2>4. (e # <<>>) <=> (m.identity # <<>>)
    BY <2>2, <2>3, SomeMessages
  <2> QED
    BY <2>1, <2>4
<1>7. DOMAIN g = {1}
  BY DEF QueryGetIdentityResponse_Row
<1> HIDE DEF g
<1> QED
  BY <1>5, <1>6, <1>7 DEF QueryGetIdentityResponse_Range, Values, Populated

(* The populated fields of the message are the ones that are written.      *)
LEMMA QueryAllIdentityRequest_RangeWritten ==
  ASSUME NEW m \in QueryAllIdentityRequestSet, NEW k, k = [m EXCEPT !.unknown = <<>>],
         NEW bs, bs = QueryAllIdentityRequest_marshal(k), Fits(bs), NEW s, s = Scan(<< 2 >>, bs)
  PROVE  QueryAllIdentityRequest_Range(m) = {n \in DOMAIN s.fields : Values(s, n) # <<>>}
<1> DEFINE wt == <<2>>
           g == QueryAllIdentityRequest_Row(k)
<1>1. <<>> \in Kept(wt)
  BY Tables, NothingKept
<1>2. k \in QueryAllIdentityRequestSet /\ k.unknown = <<>>
  BY <1>1 DEF QueryAllIdentityRequestSet
<1>3. k.pagination = m.pagination
  BY DEF QueryAllIdentityRequestSet
<1>4. s = Found(g, <<>>)
  <2>1. Scan(wt, bs) = Found(g, k.unknown)
    BY <1>2, QueryAllIdentityRequest_Found
  <2> QED
    BY <1>2, <2>1
<1>5. s.fields = g
  <2> HIDE DEF g
  <2> QED
    BY <1>4 DEF Found
<1>6. (g[1] # <<>>) <=> (m.pagination # <<>>)
  <2> DEFINE e == PageRequest_Encoded(m.pagination)
  <2>1. g[1] = e
    BY <1>3 DEF QueryAllIdentityRequest_Row
  <2>2. m.pagination \in Seq(PageRequestSet)
    <3>1. m.pagination \in Pointer(PageRequestSet)
      BY DEF QueryAllIdentityRequestSet
    <3> QED
      BY <3>1, PointerList
  <2>3. DOMAIN e = DOMAIN m.pagination /\ e = [i \in DOMAIN m.pagination |-> e[i]]
    BY DEF PageRequest_Encoded
  <2> HIDE DEF e, g
  <2>4. (e # <<>>) <=> (m.pagination # <<>>)
    BY <2>2, <2>3, SomeMessages
  <2> QED
    BY <2>1, <2>4
<1>7. DOMAIN g = {1}
  BY DEF QueryAllIdentityRequest_Row
<1> HIDE DEF g
<1> QED
  BY <1>5, <1>6, <1>7 DEF QueryAllIdentityRequest_Range, Values, Populated

(* The populated fields of the message are the ones that are written.      *)
LEMMA QueryAllIdentityResponse_RangeWritten ==
  ASSUME NEW m \in QueryAllIdentityResponseSet, NEW k, k = [m EXCEPT !.unknown = <<>>],
         NEW bs, bs = QueryAllIdentityResponse_marshal(k), Fits(bs), NEW s, s = Scan(<<2, 2>>, bs)
  PROVE  QueryAllIdentityResponse_Range(m) = {n \in DOMAIN s.fields : Values(s, n) # <<>>}
<1> DEFINE wt == <<2, 2>>
           g == QueryAllIdentityResponse_Row(k)
<1>1. <<>> \in Kept(wt)
  BY Tables, NothingKept
<1>2. k \in QueryAllIdentityResponseSet /\ k.unknown = <<>>
  BY <1>1 DEF QueryAllIdentityResponseSet
<1>3. k.identity = m.identity /\ k.pagination = m.pagination
  BY DEF QueryAllIdentityResponseSet
<1>4. s = Found(g, <<>>)
  <2>1. Scan(wt, bs) = Found(g, k.unknown)
    BY <1>2, QueryAllIdentityResponse_Found
  <2> QED
    BY <1>2, <2>1
<1>5. s.fields = g
  <2> HIDE DEF g
  <2> QED
    BY <1>4 DEF Found
<1>6. (g[1] # <<>>) <=> (m.identity # <<>>)
  <2> DEFINE e == Identity_Encoded(m.identity)
  <2>1. g[1] = e
    BY <1>3 DEF QueryAllIdentityResponse_Row
  <2>2. m.identity \in Seq(IdentitySet)
    BY DEF QueryAllIdentityResponseSet
  <2>3. DOMAIN e = DOMAIN m.identity /\ e = [i \in DOMAIN m.identity |-> e[i]]
    BY DEF Identity_Encoded
  <2> HIDE DEF e, g
  <2>4. (e # <<>>) <=> (m.identity # <<>>)
    BY <2>2, <2>3, SomeMessages
  <2> QED
    BY <2>1, <2>4
<1>7. (g[2] # <<>>) <=> (m.pagination # <<>>)
  <2> DEFINE e == PageResponse_Encoded(m.pagination)
  <2>1. g[2] = e
    BY <1>3 DEF QueryAllIdentityResponse_Row
  <2>2. m.pagination \in Seq(PageResponseSet)
    <3>1. m.pagination \in Pointer(PageResponseSet)
      BY DEF QueryAllIdentityResponseSet
    <3> QED
      BY <3>1, PointerList
  <2>3. DOMAIN e = DOMAIN m.pagination /\ e = [i \in DOMAIN m.pagination |-> e[i]]
    BY DEF PageResponse_Encoded
  <2> HIDE DEF e, g
  <2>4. (e # <<>>) <=> (m.pagination # <<>>)
    BY <2>2, <2>3, SomeMessages
  <2> QED
    BY <2>1, <2>4
<1>8. DOMAIN g = {1, 2}
  BY DEF QueryAllIdentityResponse_Row
<1> HIDE DEF g
<1> QED
  BY <1>5, <1>6, <1>7, <1>8 DEF QueryAllIdentityResponse_Range, Values, Populated

(* The populated fields of the message are the ones that are written.      *)
LEMMA QueryIdentityByCccdIdRequest_RangeWritten ==
  ASSUME NEW m \in QueryIdentityByCccdIdRequestSet, NEW k, k = [m EXCEPT !.unknown = <<>>],
         NEW bs, bs = QueryIdentityByCccdIdRequest_marshal(k), Fits(bs), NEW s, s =
           Scan(<<2, 2>>, bs)
  PROVE  QueryIdentityByCccdIdRequest_Range(m) = {n \in DOMAIN s.fields : Values(s, n) # <<>>}
<1> DEFINE wt == <<2, 2>>
           g == QueryIdentityByCccdIdRequest_Row(k)
<1>1. <<>> \in Kept(wt)
  BY Tables, NothingKept
<1>2. k \in QueryIdentityByCccdIdRequestSet /\ k.unknown = <<>>
  BY <1>1 DEF QueryIdentityByCccdIdRequestSet
<1>3. k.idHash = m.idHash /\ k.pagination = m.pagination
  BY DEF QueryIdentityByCccdIdRequestSet
<1>4. s = Found(g, <<>>)
  <2>1. Scan(wt, bs) = Found(g, k.unknown)
    BY <1>2, QueryIdentityByCccdIdRequest_Found
  <2> QED
    BY <1>2, <2>1
<1>5. s.fields = g
  <2> HIDE DEF g
  <2> QED
    BY <1>4 DEF Found
<1>6. (g[1] # <<>>) <=> (m.idHash # <<>>)
  BY <1>3, SomeValues DEF QueryIdentityByCccdIdRequest_Row
<1>7. (g[2] # <<>>) <=> (m.pagination # <<>>)
  <2> DEFINE e == PageRequest_Encoded(m.pagination)
  <2>1. g[2] = e
    BY <1>3 DEF QueryIdentityByCccdIdRequest_Row
  <2>2. m.pagination \in Seq(PageRequestSet)
    <3>1. m.pagination \in Pointer(PageRequestSet)
      BY DEF QueryIdentityByCccdIdRequestSet
    <3> QED
      BY <3>1, PointerList
  <2>3. DOMAIN e = DOMAIN m.pagination /\ e = [i \in DOMAIN m.pagination |-> e[i]]
    BY DEF PageRequest_Encoded
  <2> HIDE DEF e, g
  <2>4. (e # <<>>) <=> (m.pagination # <<>>)
    BY <2>2, <2>3, SomeMessages
  <2> QED
    BY <2>1, <2>4
<1>8. DOMAIN g = {1, 2}
  BY DEF QueryIdentityByCccdIdRequest_Row
<1> HIDE DEF g
<1> QED
  BY <1>5, <1>6, <1>7, <1>8 DEF QueryIdentityByCccdIdRequest_Range, Values, Populated

(* The populated fields of the message are the ones that are written.      *)
LEMMA QueryIdentityByCccdIdResponse_RangeWritten ==
  ASSUME NEW m \in QueryIdentityByCccdIdResponseSet, NEW k, k = [m EXCEPT !.unknown = <<>>],
         NEW bs, bs = QueryIdentityByCccdIdResponse_marshal(k), Fits(bs), NEW s, s =
           Scan(<<2, 2>>, bs)
  PROVE  QueryIdentityByCccdIdResponse_Range(m) = {n \in DOMAIN s.fields : Values(s, n) # <<>>}
<1> DEFINE wt == <<2, 2>>
           g == QueryIdentityByCccdIdResponse_Row(k)
<1>1. <<>> \in Kept(wt)
  BY Tables, NothingKept
<1>2. k \in QueryIdentityByCccdIdResponseSet /\ k.unknown = <<>>
  BY <1>1 DEF QueryIdentityByCccdIdResponseSet
<1>3. k.identity = m.identity /\ k.pagination = m.pagination
  BY DEF QueryIdentityByCccdIdResponseSet
<1>4. s = Found(g, <<>>)
  <2>1. Scan(wt, bs) = Found(g, k.unknown)
    BY <1>2, QueryIdentityByCccdIdResponse_Found
  <2> QED
    BY <1>2, <2>1
<1>5. s.fields = g
  <2> HIDE DEF g
  <2> QED
    BY <1>4 DEF Found
<1>6. (g[1] # <<>>) <=> (m.identity # <<>>)
  <2> DEFINE e == Identity_Encoded(m.identity)
  <2>1. g[1] = e
    BY <1>3 DEF QueryIdentityByCccdIdResponse_Row
  <2>2. m.identity \in Seq(IdentitySet)
    BY DEF QueryIdentityByCccdIdResponseSet
  <2>3. DOMAIN e = DOMAIN m.identity /\ e = [i \in DOMAIN m.identity |-> e[i]]
    BY DEF Identity_Encoded
  <2> HIDE DEF e, g
  <2>4. (e # <<>>) <=> (m.identity # <<>>)
    BY <2>2, <2>3, SomeMessages
  <2> QED
    BY <2>1, <2>4
<1>7. (g[2] # <<>>) <=> (m.pagination # <<>>)
  <2> DEFINE e == PageResponse_Encoded(m.pagination)
  <2>1. g[2] = e
    BY <1>3 DEF QueryIdentityByCccdIdResponse_Row
  <2>2. m.pagination \in Seq(PageResponseSet)
    <3>1. m.pagination \in Pointer(PageResponseSet)
      BY DEF QueryIdentityByCccdIdResponseSet
    <3> QED
      BY <3>1, PointerList
  <2>3. DOMAIN e = DOMAIN m.pagination /\ e = [i \in DOMAIN m.pagination |-> e[i]]
    BY DEF PageResponse_Encoded
  <2> HIDE DEF e, g
  <2>4. (e # <<>>) <=> (m.pagination # <<>>)
    BY <2>2, <2>3, SomeMessages
  <2> QED
    BY <2>1, <2>4
<1>8. DOMAIN g = {1, 2}
  BY DEF QueryIdentityByCccdIdResponse_Row
<1> HIDE DEF g
<1> QED
  BY <1>5, <1>6, <1>7, <1>8 DEF QueryIdentityByCccdIdResponse_Range, Values, Populated

(* The populated fields of the message are the ones that are written.      *)
LEMMA Module_RangeWritten ==
  ASSUME NEW m \in ModuleSet, NEW k, k = [m EXCEPT !.unknown = <<>>],
         NEW bs, bs = Module_marshal(k), Fits(bs), NEW s, s = Scan(<< 2 >>, bs)
  PROVE  Module_Range(m) = {n \in DOMAIN s.fields : Values(s, n) # <<>>}
<1> DEFINE wt == <<2>>
           g == Module_Row(k)
<1>1. <<>> \in Kept(wt)
  BY Tables, NothingKept
<1>2. k \in ModuleSet /\ k.unknown = <<>>
  BY <1>1 DEF ModuleSet
<1>3. k.authority = m.authority
  BY DEF ModuleSet
<1>4. s = Found(g, <<>>)
  <2>1. Scan(wt, bs) = Found(g, k.unknown)
    BY <1>2, Module_Found
  <2> QED
    BY <1>2, <2>1
<1>5. s.fields = g
  <2> HIDE DEF g
  <2> QED
    BY <1>4 DEF Found
<1>6. (g[1] # <<>>) <=> (m.authority # <<>>)
  BY <1>3, SomeValues DEF Module_Row
<1>7. DOMAIN g = {1}
  BY DEF Module_Row
<1> HIDE DEF g
<1> QED
  BY <1>5, <1>6, <1>7 DEF Module_Range, Values, Populated

-----------------------------------------------------------------------------
(* By the name of the type.                                                *)

(* What Unmarshal returns.                                                 *)
PlainFormed(t) ==
  CASE t = "Params" -> PlainParamsSet
    [] t = "Identity" -> PlainIdentitySet
    [] t = "GenesisState" -> PlainGenesisStateSet
    [] t = "MsgUpdateParams" -> PlainMsgUpdateParamsSet
    [] t = "MsgUpdateParamsResponse" -> PlainMsgUpdateParamsResponseSet
    [] t = "MsgCreateIdentity" -> PlainMsgCreateIdentitySet
    [] t = "MsgCreateIdentityResponse" -> PlainMsgCreateIdentityResponseSet
    [] t = "QueryParamsRequest" -> PlainQueryParamsRequestSet
    [] t = "QueryParamsResponse" -> PlainQueryParamsResponseSet
    [] t = "QueryGetIdentityRequest" -> PlainQueryGetIdentityRequestSet
    [] t = "QueryGetIdentityResponse" -> PlainQueryGetIdentityResponseSet
    [] t = "QueryAllIdentityRequest" -> PlainQueryAllIdentityRequestSet
    [] t = "QueryAllIdentityResponse" -> PlainQueryAllIdentityResponseSet
    [] t = "QueryIdentityByCccdIdRequest" -> PlainQueryIdentityByCccdIdRequestSet
    [] t = "QueryIdentityByCccdIdResponse" -> PlainQueryIdentityByCccdIdResponseSet

(* A message of its own, it is read as it was written.                     *)
LEMMA Params_TopBack ==
  ASSUME NEW m \in PlainParamsSet, NEW bs, bs = Params_Marshal(m)
  PROVE  bs \in Bytes /\ (Fits(bs) => Params_Unmarshal(bs) = Ok(m, 0))
<1> DEFINE a == Params_MarshalToSizedBuffer(m)
           z == Params_Size(m)
<1>1. a \in Bytes /\ Len(a) = z /\ (Fits(a) => Params_Unmarshal(a) = Ok(m, 0))
  BY Params_PlainBack
<1>2. bs = Front(z, a)
  BY DEF Params_Marshal
<1> HIDE DEF a, z
<1>3. Front(z, a) = a
  BY <1>1, FillIs
<1> QED
  BY <1>1, <1>2, <1>3

(* A message of its own, it is read as it was written.                     *)
LEMMA Identity_TopBack ==
  ASSUME NEW m \in PlainIdentitySet, NEW bs, bs = Identity_Marshal(m)
  PROVE  bs \in Bytes /\ (Fits(bs) => Identity_Unmarshal(bs) = Ok(m, 0))
<1> DEFINE a == Identity_MarshalToSizedBuffer(m)
           z == Identity_Size(m)
<1>1. a \in Bytes /\ Len(a) = z /\ (Fits(a) => Identity_Unmarshal(a) = Ok(m, 0))
  BY Identity_PlainBack
<1>2. bs = Front(z, a)
  BY DEF Identity_Marshal
<1> HIDE DEF a, z
<1>3. Front(z, a) = a
  BY <1>1, FillIs
<1> QED
  BY <1>1, <1>2, <1>3

(* The pulsar form of every message is read as it was written.             *)
LEMMA PulsarBack ==
  ASSUME NEW t \in Types, NEW m \in WellFormed(t), NEW bs, bs = marshal(t, m)
  PROVE  bs \in Bytes /\ (Fits(bs) => unmarshal(t, bs) = Ok(m, 0))
<1>1. CASE t = "Params"
  <2>1. m \in ParamsSet /\ bs = Params_marshal(m) /\ unmarshal(t, bs) = Params_unmarshal(bs)
    BY <1>1 DEF marshal, unmarshal, WellFormed
  <2> QED
    BY <1>1, <2>1, Params_Back
<1>2. CASE t = "Identity"
  <2>1. m \in IdentitySet /\ bs = Identity_marshal(m) /\ unmarshal(t, bs) = Identity_unmarshal(bs)
    BY <1>2 DEF marshal, unmarshal, WellFormed
  <2> QED
    BY <1>2, <2>1, Identity_Back
<1>3. CASE t = "GenesisState"
  <2>1. m \in GenesisStateSet /\ bs = GenesisState_marshal(m)
      /\ unmarshal(t, bs) = GenesisState_unmarshal(bs)
    BY <1>3 DEF marshal, unmarshal, WellFormed
  <2> QED
    BY <1>3, <2>1, GenesisState_Back
<1>4. CASE t = "MsgUpdateParams"
  <2>1. m \in MsgUpdateParamsSet /\ bs = MsgUpdateParams_marshal(m)
      /\ unmarshal(t, bs) = MsgUpdateParams_unmarshal(bs)
    BY <1>4 DEF marshal, unmarshal, WellFormed
  <2> QED
    BY <1>4, <2>1, MsgUpdateParams_Back
<1>5. CASE t = "MsgUpdateParamsResponse"
  <2>1. m \in MsgUpdateParamsResponseSet /\ bs = MsgUpdateParamsResponse_marshal(m)
      /\ unmarshal(t, bs) = MsgUpdateParamsResponse_unmarshal(bs)
    BY <1>5 DEF marshal, unmarshal, WellFormed
  <2> QED
    BY <1>5, <2>1, MsgUpdateParamsResponse_Back
<1>6. CASE t = "MsgCreateIdentity"
  <2>1. m \in MsgCreateIdentitySet /\ bs = MsgCreateIdentity_marshal(m)
      /\ unmarshal(t, bs) = MsgCreateIdentity_unmarshal(bs)
    BY <1>6 DEF marshal, unmarshal, WellFormed
  <2> QED
    BY <1>6, <2>1, MsgCreateIdentity_Back
<1>7. CASE t = "MsgCreateIdentityResponse"
  <2>1. m \in MsgCreateIdentityResponseSet /\ bs = MsgCreateIdentityResponse_marshal(m)
      /\ unmarshal(t, bs) = MsgCreateIdentityResponse_unmarshal(bs)
    BY <1>7 DEF marshal, unmarshal, WellFormed
  <2> QED
    BY <1>7, <2>1, MsgCreateIdentityResponse_Back
<1>8. CASE t = "QueryParamsRequest"
  <2>1. m \in QueryParamsRequestSet /\ bs = QueryParamsRequest_marshal(m)
      /\ unmarshal(t, bs) = QueryParamsRequest_unmarshal(bs)
    BY <1>8 DEF marshal, unmarshal, WellFormed
  <2> QED
    BY <1>8, <2>1, QueryParamsRequest_Back
<1>9. CASE t = "QueryParamsResponse"
  <2>1. m \in QueryParamsResponseSet /\ bs = QueryParamsResponse_marshal(m)
      /\ unmarshal(t, bs) = QueryParamsResponse_unmarshal(bs)
    BY <1>9 DEF marshal, unmarshal, WellFormed
  <2> QED
    BY <1>9, <2>1, QueryParamsResponse_Back
<1>10. CASE t = "QueryGetIdentityRequest"
  <2>1. m \in QueryGetIdentityRequestSet /\ bs = QueryGetIdentityRequest_marshal(m)
      /\ unmarshal(t, bs) = QueryGetIdentityRequest_unmarshal(bs)
    BY <1>10 DEF marshal, unmarshal, WellFormed
  <2> QED
    BY <1>10, <2>1, QueryGetIdentityRequest_Back
<1>11. CASE t = "QueryGetIdentityResponse"
  <2>1. m \in QueryGetIdentityResponseSet /\ bs = QueryGetIdentityResponse_marshal(m)
      /\ unmarshal(t, bs) = QueryGetIdentityResponse_unmarshal(bs)
    BY <1>11 DEF marshal, unmarshal, WellFormed
  <2> QED
    BY <1>11, <2>1, QueryGetIdentityResponse_Back
<1>12. CASE t = "QueryAllIdentityRequest"
  <2>1. m \in QueryAllIdentityRequestSet /\ bs = QueryAllIdentityRequest_marshal(m)
      /\ unmarshal(t, bs) = QueryAllIdentityRequest_unmarshal(bs)
    BY <1>12 DEF marshal, unmarshal, WellFormed
  <2> QED
    BY <1>12, <2>1, QueryAllIdentityRequest_Back
<1>13. CASE t = "QueryAllIdentityResponse"
  <2>1. m \in QueryAllIdentityResponseSet /\ bs = QueryAllIdentityResponse_marshal(m)
      /\ unmarshal(t, bs) = QueryAllIdentityResponse_unmarshal(bs)
    BY <1>13 DEF marshal, unmarshal, WellFormed
  <2> QED
    BY <1>13, <2>1, QueryAllIdentityResponse_Back
<1>14. CASE t = "QueryIdentityByCccdIdRequest"
  <2>1. m \in QueryIdentityByCccdIdRequestSet /\ bs = QueryIdentityByCccdIdRequest_marshal(m)
      /\ unmarshal(t, bs) = QueryIdentityByCccdIdRequest_unmarshal(bs)
    BY <1>14 DEF marshal, unmarshal, WellFormed
  <2> QED
    BY <1>14, <2>1, QueryIdentityByCccdIdRequest_Back
<1>15. CASE t = "QueryIdentityByCccdIdResponse"
  <2>1. m \in QueryIdentityByCccdIdResponseSet /\ bs = QueryIdentityByCccdIdResponse_marshal(m)
      /\ unmarshal(t, bs) = QueryIdentityByCccdIdResponse_unmarshal(bs)
    BY <1>15 DEF marshal, unmarshal, WellFormed
  <2> QED
    BY <1>15, <2>1, QueryIdentityByCccdIdResponse_Back
<1>16. CASE t = "Module"
  <2>1. m \in ModuleSet /\ bs = Module_marshal(m) /\ unmarshal(t, bs) = Module_unmarshal(bs)
    BY <1>16 DEF marshal, unmarshal, WellFormed
  <2> QED
    BY <1>16, <2>1, Module_Back
<1> QED
  BY <1>1, <1>2, <1>3, <1>4, <1>5, <1>6, <1>7, <1>8, <1>9, <1>10, <1>11, <1>12, <1>13, <1>14,
     <1>15, <1>16 DEF Types, GogoTypes

(* The gogo form of every message is read as it was written.               *)
LEMMA GogoBack ==
  ASSUME NEW t \in GogoTypes, NEW m \in PlainFormed(t), NEW bs, bs = Marshal(t, m)
  PROVE  bs \in Bytes /\ (Fits(bs) => Unmarshal(t, bs) = Ok(m, 0))
<1>1. CASE t = "Params"
  <2>1. m \in PlainParamsSet /\ bs = Params_Marshal(m) /\ Unmarshal(t, bs) = Params_Unmarshal(bs)
    BY <1>1 DEF Marshal, Unmarshal, PlainFormed
  <2> QED
    BY <1>1, <2>1, Params_TopBack
<1>2. CASE t = "Identity"
  <2>1. m \in PlainIdentitySet /\ bs = Identity_Marshal(m)
      /\ Unmarshal(t, bs) = Identity_Unmarshal(bs)
    BY <1>2 DEF Marshal, Unmarshal, PlainFormed
  <2> QED
    BY <1>2, <2>1, Identity_TopBack
<1>3. CASE t = "GenesisState"
  <2>1. m \in PlainGenesisStateSet /\ bs = GenesisState_Marshal(m)
      /\ Unmarshal(t, bs) = GenesisState_Unmarshal(bs)
    BY <1>3 DEF Marshal, Unmarshal, PlainFormed
  <2> QED
    BY <1>3, <2>1, GenesisState_PlainBack
<1>4. CASE t = "MsgUpdateParams"
  <2>1. m \in PlainMsgUpdateParamsSet /\ bs = MsgUpdateParams_Marshal(m)
      /\ Unmarshal(t, bs) = MsgUpdateParams_Unmarshal(bs)
    BY <1>4 DEF Marshal, Unmarshal, PlainFormed
  <2> QED
    BY <1>4, <2>1, MsgUpdateParams_PlainBack
<1>5. CASE t = "MsgUpdateParamsResponse"
  <2>1. m \in PlainMsgUpdateParamsResponseSet /\ bs = MsgUpdateParamsResponse_Marshal(m)
      /\ Unmarshal(t, bs) = MsgUpdateParamsResponse_Unmarshal(bs)
    BY <1>5 DEF Marshal, Unmarshal, PlainFormed
  <2> QED
    BY <1>5, <2>1, MsgUpdateParamsResponse_PlainBack
<1>6. CASE t = "MsgCreateIdentity"
  <2>1. m \in PlainMsgCreateIdentitySet /\ bs = MsgCreateIdentity_Marshal(m)
      /\ Unmarshal(t, bs) = MsgCreateIdentity_Unmarshal(bs)
    BY <1>6 DEF Marshal, Unmarshal, PlainFormed
  <2> QED
    BY <1>6, <2>1, MsgCreateIdentity_PlainBack
<1>7. CASE t = "MsgCreateIdentityResponse"
  <2>1. m \in PlainMsgCreateIdentityResponseSet /\ bs = MsgCreateIdentityResponse_Marshal(m)
      /\ Unmarshal(t, bs) = MsgCreateIdentityResponse_Unmarshal(bs)
    BY <1>7 DEF Marshal, Unmarshal, PlainFormed
  <2> QED
    BY <1>7, <2>1, MsgCreateIdentityResponse_PlainBack
<1>8. CASE t = "QueryParamsRequest"
  <2>1. m \in PlainQueryParamsRequestSet /\ bs = QueryParamsRequest_Marshal(m)
      /\ Unmarshal(t, bs) = QueryParamsRequest_Unmarshal(bs)
    BY <1>8 DEF Marshal, Unmarshal, PlainFormed
  <2> QED
    BY <1>8, <2>1, QueryParamsRequest_PlainBack
<1>9. CASE t = "QueryParamsResponse"
  <2>1. m \in PlainQueryParamsResponseSet /\ bs = QueryParamsResponse_Marshal(m)
      /\ Unmarshal(t, bs) = QueryParamsResponse_Unmarshal(bs)
    BY <1>9 DEF Marshal, Unmarshal, PlainFormed
  <2> QED
    BY <1>9, <2>1, QueryParamsResponse_PlainBack
<1>10. CASE t = "QueryGetIdentityRequest"
  <2>1. m \in PlainQueryGetIdentityRequestSet /\ bs = QueryGetIdentityRequest_Marshal(m)
      /\ Unmarshal(t, bs) = QueryGetIdentityRequest_Unmarshal(bs)
    BY <1>10 DEF Marshal, Unmarshal, PlainFormed
  <2> QED
    BY <1>10, <2>1, QueryGetIdentityRequest_PlainBack
<1>11. CASE t = "QueryGetIdentityResponse"
  <2>1. m \in PlainQueryGetIdentityResponseSet /\ bs = QueryGetIdentityResponse_Marshal(m)
      /\ Unmarshal(t, bs) = QueryGetIdentityResponse_Unmarshal(bs)
    BY <1>11 DEF Marshal, Unmarshal, PlainFormed
  <2> QED
    BY <1>11, <2>1, QueryGetIdentityResponse_PlainBack
<1>12. CASE t = "QueryAllIdentityRequest"
  <2>1. m \in PlainQueryAllIdentityRequestSet /\ bs = QueryAllIdentityRequest_Marshal(m)
      /\ Unmarshal(t, bs) = QueryAllIdentityRequest_Unmarshal(bs)
    BY <1>12 DEF Marshal, Unmarshal, PlainFormed
  <2> QED
    BY <1>12, <2>1, QueryAllIdentityRequest_PlainBack
<1>13. CASE t = "QueryAllIdentityResponse"
  <2>1. m \in PlainQueryAllIdentityResponseSet /\ bs = QueryAllIdentityResponse_Marshal(m)
      /\ Unmarshal(t, bs) = QueryAllIdentityResponse_Unmarshal(bs)
    BY <1>13 DEF Marshal, Unmarshal, PlainFormed
  <2> QED
    BY <1>13, <2>1, QueryAllIdentityResponse_PlainBack
<1>14. CASE t = "QueryIdentityByCccdIdRequest"
  <2>1. m \in PlainQueryIdentityByCccdIdRequestSet /\ bs = QueryIdentityByCccdIdRequest_Marshal(m)
      /\ Unmarshal(t, bs) = QueryIdentityByCccdIdRequest_Unmarshal(bs)
    BY <1>14 DEF Marshal, Unmarshal, PlainFormed
  <2> QED
    BY <1>14, <2>1, QueryIdentityByCccdIdRequest_PlainBack
<1>15. CASE t = "QueryIdentityByCccdIdResponse"
  <2>1. m \in PlainQueryIdentityByCccdIdResponseSet
      /\ bs = QueryIdentityByCccdIdResponse_Marshal(m)
      /\ Unmarshal(t, bs) = QueryIdentityByCccdIdResponse_Unmarshal(bs)
    BY <1>15 DEF Marshal, Unmarshal, PlainFormed
  <2> QED
    BY <1>15, <2>1, QueryIdentityByCccdIdResponse_PlainBack
<1> QED
  BY <1>1, <1>2, <1>3, <1>4, <1>5, <1>6, <1>7, <1>8, <1>9, <1>10, <1>11, <1>12, <1>13, <1>14,
     <1>15 DEF GogoTypes

(* What the gogo form of a message is, the gogo form can hold.             *)
LEMMA SameFormed ==
  ASSUME NEW t \in GogoTypes, NEW m \in WellFormed(t)
  PROVE  Same(t, m) \in PlainFormed(t)
<1>1. CASE t = "Params"
  <2>1. m \in ParamsSet /\ PlainFormed(t) = PlainParamsSet
    BY <1>1 DEF WellFormed, PlainFormed
  <2> QED
    BY <1>1, <2>1, Params_Same
<1>2. CASE t = "Identity"
  <2>1. m \in IdentitySet /\ PlainFormed(t) = PlainIdentitySet
    BY <1>2 DEF WellFormed, PlainFormed
  <2> QED
    BY <1>2, <2>1, Identity_Same
<1>3. CASE t = "GenesisState"
  <2>1. m \in GenesisStateSet /\ PlainFormed(t) = PlainGenesisStateSet
    BY <1>3 DEF WellFormed, PlainFormed
  <2> QED
    BY <1>3, <2>1, GenesisState_Same
<1>4. CASE t = "MsgUpdateParams"
  <2>1. m \in MsgUpdateParamsSet /\ PlainFormed(t) = PlainMsgUpdateParamsSet
    BY <1>4 DEF WellFormed, PlainFormed
  <2> QED
    BY <1>4, <2>1, MsgUpdateParams_Same
<1>5. CASE t = "MsgUpdateParamsResponse"
  <2>1. m \in MsgUpdateParamsResponseSet /\ PlainFormed(t) = PlainMsgUpdateParamsResponseSet
    BY <1>5 DEF WellFormed, PlainFormed
  <2> QED
    BY <1>5, <2>1, MsgUpdateParamsResponse_Same
<1>6. CASE t = "MsgCreateIdentity"
  <2>1. m \in MsgCreateIdentitySet /\ PlainFormed(t) = PlainMsgCreateIdentitySet
    BY <1>6 DEF WellFormed, PlainFormed
  <2> QED
    BY <1>6, <2>1, MsgCreateIdentity_Same
<1>7. CASE t = "MsgCreateIdentityResponse"
  <2>1. m \in MsgCreateIdentityResponseSet /\ PlainFormed(t) = PlainMsgCreateIdentityResponseSet
    BY <1>7 DEF WellFormed, PlainFormed
  <2> QED
    BY <1>7, <2>1, MsgCreateIdentityResponse_Same
<1>8. CASE t = "QueryParamsRequest"
  <2>1. m \in QueryParamsRequestSet /\ PlainFormed(t) = PlainQueryParamsRequestSet
    BY <1>8 DEF WellFormed, PlainFormed
  <2> QED
    BY <1>8, <2>1, QueryParamsRequest_Same
<1>9. CASE t = "QueryParamsResponse"
  <2>1. m \in QueryParamsResponseSet /\ PlainFormed(t) = PlainQueryParamsResponseSet
    BY <1>9 DEF WellFormed, PlainFormed
  <2> QED
    BY <1>9, <2>1, QueryParamsResponse_Same
<1>10. CASE t = "QueryGetIdentityRequest"
  <2>1. m \in QueryGetIdentityRequestSet /\ PlainFormed(t) = PlainQueryGetIdentityRequestSet
    BY <1>10 DEF WellFormed, PlainFormed
  <2> QED
    BY <1>10, <2>1, QueryGetIdentityRequest_Same
<1>11. CASE t = "QueryGetIdentityResponse"
  <2>1. m \in QueryGetIdentityResponseSet /\ PlainFormed(t) = PlainQueryGetIdentityResponseSet
    BY <1>11 DEF WellFormed, PlainFormed
  <2> QED
    BY <1>11, <2>1, QueryGetIdentityResponse_Same
<1>12. CASE t = "QueryAllIdentityRequest"
  <2>1. m \in QueryAllIdentityRequestSet /\ PlainFormed(t) = PlainQueryAllIdentityRequestSet
    BY <1>12 DEF WellFormed, PlainFormed
  <2> QED
    BY <1>12, <2>1, QueryAllIdentityRequest_Same
<1>13. CASE t = "QueryAllIdentityResponse"
  <2>1. m \in QueryAllIdentityResponseSet /\ PlainFormed(t) = PlainQueryAllIdentityResponseSet
    BY <1>13 DEF WellFormed, PlainFormed
  <2> QED
    BY <1>13, <2>1, QueryAllIdentityResponse_Same
<1>14. CASE t = "QueryIdentityByCccdIdRequest"
  <2>1. m \in QueryIdentityByCccdIdRequestSet
      /\ PlainFormed(t) = PlainQueryIdentityByCccdIdRequestSet
    BY <1>14 DEF WellFormed, PlainFormed
  <2> QED
    BY <1>14, <2>1, QueryIdentityByCccdIdRequest_Same
<1>15. CASE t = "QueryIdentityByCccdIdResponse"
  <2>1. m \in QueryIdentityByCccdIdResponseSet
      /\ PlainFormed(t) = PlainQueryIdentityByCccdIdResponseSet
    BY <1>15 DEF WellFormed, PlainFormed
  <2> QED
    BY <1>15, <2>1, QueryIdentityByCccdIdResponse_Same
<1> QED
  BY <1>1, <1>2, <1>3, <1>4, <1>5, <1>6, <1>7, <1>8, <1>9, <1>10, <1>11, <1>12, <1>13, <1>14,
     <1>15 DEF GogoTypes

(* The populated fields of every message are the ones that are written.    *)
LEMMA RangeWritten ==
  ASSUME NEW t \in Types, NEW m \in WellFormed(t), NEW k, k = [m EXCEPT !.unknown = <<>>],
         NEW bs, bs = marshal(t, k), Fits(bs), NEW s, s = Scan(WireTypes(t), bs)
  PROVE  RangeOf(t, m) = {n \in DOMAIN s.fields : Values(s, n) # <<>>}
<1>1. CASE t = "Params"
  <2>1. /\ m \in ParamsSet /\ bs = Params_marshal(k) /\ s = Scan(<<>>, bs)
        /\ RangeOf(t, m) = Params_Range(m)
    BY <1>1 DEF marshal, RangeOf, WellFormed, WireTypes
  <2> QED
    BY <1>1, <2>1, Params_RangeWritten
<1>2. CASE t = "Identity"
  <2>1. /\ m \in IdentitySet /\ bs = Identity_marshal(k) /\ s = Scan(<<2, 2, 0>>, bs)
        /\ RangeOf(t, m) = Identity_Range(m)
    BY <1>2 DEF marshal, RangeOf, WellFormed, WireTypes
  <2> QED
    BY <1>2, <2>1, Identity_RangeWritten
<1>3. CASE t = "GenesisState"
  <2>1. /\ m \in GenesisStateSet /\ bs = GenesisState_marshal(k) /\ s = Scan(<<2, 2>>, bs)
        /\ RangeOf(t, m) = GenesisState_Range(m)
    BY <1>3 DEF marshal, RangeOf, WellFormed, WireTypes
  <2> QED
    BY <1>3, <2>1, GenesisState_RangeWritten
<1>4. CASE t = "MsgUpdateParams"
  <2>1. /\ m \in MsgUpdateParamsSet /\ bs = MsgUpdateParams_marshal(k) /\ s = Scan(<<2, 2>>, bs)
        /\ RangeOf(t, m) = MsgUpdateParams_Range(m)
    BY <1>4 DEF marshal, RangeOf, WellFormed, WireTypes
  <2> QED
    BY <1>4, <2>1, MsgUpdateParams_RangeWritten
<1>5. CASE t = "MsgUpdateParamsResponse"
  <2>1. /\ m \in MsgUpdateParamsResponseSet /\ bs = MsgUpdateParamsResponse_marshal(k)
        /\ s = Scan(<<>>, bs)
        /\ RangeOf(t, m) = MsgUpdateParamsResponse_Range(m)
    BY <1>5 DEF marshal, RangeOf, WellFormed, WireTypes
  <2> QED
    BY <1>5, <2>1, MsgUpdateParamsResponse_RangeWritten
<1>6. CASE t = "MsgCreateIdentity"
  <2>1. /\ m \in MsgCreateIdentitySet /\ bs = MsgCreateIdentity_marshal(k) /\ s = Scan(<<2, 2>>, bs)
        /\ RangeOf(t, m) = MsgCreateIdentity_Range(m)
    BY <1>6 DEF marshal, RangeOf, WellFormed, WireTypes
  <2> QED
    BY <1>6, <2>1, MsgCreateIdentity_RangeWritten
<1>7. CASE t = "MsgCreateIdentityResponse"
  <2>1. /\ m \in MsgCreateIdentityResponseSet /\ bs = MsgCreateIdentityResponse_marshal(k)
        /\ s = Scan(<<>>, bs)
        /\ RangeOf(t, m) = MsgCreateIdentityResponse_Range(m)
    BY <1>7 DEF marshal, RangeOf, WellFormed, WireTypes
  <2> QED
    BY <1>7, <2>1, MsgCreateIdentityResponse_RangeWritten
<1>8. CASE t = "QueryParamsRequest"
  <2>1. /\ m \in QueryParamsRequestSet /\ bs = QueryParamsRequest_marshal(k) /\ s = Scan(<<>>, bs)
        /\ RangeOf(t, m) = QueryParamsRequest_Range(m)
    BY <1>8 DEF marshal, RangeOf, WellFormed, WireTypes
  <2> QED
    BY <1>8, <2>1, QueryParamsRequest_RangeWritten
<1>9. CASE t = "QueryParamsResponse"
  <2>1. /\ m \in QueryParamsResponseSet /\ bs = QueryParamsResponse_marshal(k)
        /\ s = Scan(<<2>>, bs)
        /\ RangeOf(t, m) = QueryParamsResponse_Range(m)
    BY <1>9 DEF marshal, RangeOf, WellFormed, WireTypes
  <2> QED
    BY <1>9, <2>1, QueryParamsResponse_RangeWritten
<1>10. CASE t = "QueryGetIdentityRequest"
  <2>1. /\ m \in QueryGetIdentityRequestSet /\ bs = QueryGetIdentityRequest_marshal(k)
        /\ s = Scan(<<2>>, bs)
        /\ RangeOf(t, m) = QueryGetIdentityRequest_Range(m)
    BY <1>10 DEF marshal, RangeOf, WellFormed, WireTypes
  <2> QED
    BY <1>10, <2>1, QueryGetIdentityRequest_RangeWritten
<1>11. CASE t = "QueryGetIdentityResponse"
  <2>1. /\ m \in QueryGetIdentityResponseSet /\ bs = QueryGetIdentityResponse_marshal(k)
        /\ s = Scan(<<2>>, bs)
        /\ RangeOf(t, m) = QueryGetIdentityResponse_Range(m)
    BY <1>11 DEF marshal, RangeOf, WellFormed, WireTypes
  <2> QED
    BY <1>11, <2>1, QueryGetIdentityResponse_RangeWritten
<1>12. CASE t = "QueryAllIdentityRequest"
  <2>1. /\ m \in QueryAllIdentityRequestSet /\ bs = QueryAllIdentityRequest_marshal(k)
        /\ s = Scan(<<2>>, bs)
        /\ RangeOf(t, m) = QueryAllIdentityRequest_Range(m)
    BY <1>12 DEF marshal, RangeOf, WellFormed, WireTypes
  <2> QED
    BY <1>12, <2>1, QueryAllIdentityRequest_RangeWritten
<1>13. CASE t = "QueryAllIdentityResponse"
  <2>1. /\ m \in QueryAllIdentityResponseSet /\ bs = QueryAllIdentityResponse_marshal(k)
        /\ s = Scan(<<2, 2>>, bs)
        /\ RangeOf(t, m) = QueryAllIdentityResponse_Range(m)
    BY <1>13 DEF marshal, RangeOf, WellFormed, WireTypes
  <2> QED
    BY <1>13, <2>1, QueryAllIdentityResponse_RangeWritten
<1>14. CASE t = "QueryIdentityByCccdIdRequest"
  <2>1. /\ m \in QueryIdentityByCccdIdRequestSet /\ bs = QueryIdentityByCccdIdRequest_marshal(k)
        /\ s = Scan(<<2, 2>>, bs)
        /\ RangeOf(t, m) = QueryIdentityByCccdIdRequest_Range(m)
    BY <1>14 DEF marshal, RangeOf, WellFormed, WireTypes
  <2> QED
    BY <1>14, <2>1, QueryIdentityByCccdIdRequest_RangeWritten
<1>15. CASE t = "QueryIdentityByCccdIdResponse"
  <2>1. /\ m \in QueryIdentityByCccdIdResponseSet /\ bs = QueryIdentityByCccdIdResponse_marshal(k)
        /\ s = Scan(<<2, 2>>, bs)
        /\ RangeOf(t, m) = QueryIdentityByCccdIdResponse_Range(m)
    BY <1>15 DEF marshal, RangeOf, WellFormed, WireTypes
  <2> QED
    BY <1>15, <2>1, QueryIdentityByCccdIdResponse_RangeWritten
<1>16. CASE t = "Module"
  <2>1. /\ m \in ModuleSet /\ bs = Module_marshal(k) /\ s = Scan(<<2>>, bs)
        /\ RangeOf(t, m) = Module_Range(m)
    BY <1>16 DEF marshal, RangeOf, WellFormed, WireTypes
  <2> QED
    BY <1>16, <2>1, Module_RangeWritten
<1> QED
  BY <1>1, <1>2, <1>3, <1>4, <1>5, <1>6, <1>7, <1>8, <1>9, <1>10, <1>11, <1>12, <1>13, <1>14,
     <1>15, <1>16 DEF Types, GogoTypes

-----------------------------------------------------------------------------
(* What is sent.                                                           *)

(* A list of at most one message is a pointer, one of at most two a list.  *)
LEMMA ListsFormed ==
  ASSUME NEW S, NEW R, S \subseteq R
  PROVE  AtMostOne(S) \subseteq Pointer(R) /\ Lists(S) \subseteq Seq(R)
<1>1. AtMostOne(S) \subseteq Pointer(R)
  BY DEF AtMostOne, Pointer
<1>2. Pointer(R) \subseteq Seq(R)
  BY PointerList
<1>3. ASSUME NEW a \in R, NEW b \in R
      PROVE  <<a, b>> \in Seq(R)
  <2> DEFINE f == <<a>>
  <2>1. f \in Seq(R) /\ <<a, b>> = Append(f, b)
    OBVIOUS
  <2> HIDE DEF f
  <2>2. Append(f, b) \in Seq(R)
    BY <2>1
  <2> QED
    BY <2>1, <2>2
<1>4. S \X S \subseteq Seq(R)
  <2> SUFFICES ASSUME NEW x \in S \X S
               PROVE  x \in Seq(R)
    OBVIOUS
  <2>1. x = <<x[1], x[2]>> /\ x[1] \in R /\ x[2] \in R
    OBVIOUS
  <2> QED
    BY <1>3, <2>1
<1> QED
  BY <1>1, <1>2, <1>4 DEF Lists

(* The numbers that are sent are words.                                    *)
LEMMA SentWords ==
  /\ {0, 1} \subseteq Word /\ {0, Full - 1} \subseteq Word /\ {0, 128} \subseteq Word
<1>1. Pow2[8] <= Pow2[WordBits] /\ WordBits \in Nat /\ WordBits >= 8
  <2>1. WordBits \in Nat /\ WordBits >= 8
    BY WireAssumption, CodecAssumption
  <2> QED
    BY <2>1, PowersGrow
<1>2. Pow2[8] = 256
  <2>1. \A k \in 1 .. WordBits : Pow2[k] = 2 * Pow2[k - 1]
    BY Powers
  <2>2. Pow2[0] = 1
    BY Powers
  <2>3. Pow2[1] = 2 * Pow2[1 - 1] /\ Pow2[2] = 2 * Pow2[2 - 1] /\ Pow2[3] = 2 * Pow2[3 - 1]
    BY <1>1, <2>1
  <2>4. Pow2[4] = 2 * Pow2[4 - 1] /\ Pow2[5] = 2 * Pow2[5 - 1] /\ Pow2[6] = 2 * Pow2[6 - 1]
    BY <1>1, <2>1
  <2>5. Pow2[7] = 2 * Pow2[7 - 1] /\ Pow2[8] = 2 * Pow2[8 - 1]
    BY <1>1, <2>1
  <2>6. Pow2[6] = 64
    BY <2>2, <2>3, <2>4
  <2>7. Pow2[7] = 128
    BY <2>5, <2>6
  <2> QED
    BY <2>5, <2>7
<1>3. Full >= 256 /\ Full \in Nat
  BY <1>1, <1>2, Words DEF Full
<1> QED
  BY <1>3 DEF Word

(* The messages that are fields.                                           *)
LEMMA FieldsFormed ==
  /\ NoMessage \subseteq ParamsSet
  /\ Identities \subseteq IdentitySet /\ Listed \subseteq IdentitySet
  /\ PageRequests \subseteq PageRequestSet
  /\ PageResponses \subseteq PageResponseSet
<1>1. /\ {<<>>} \subseteq Kept(<<>>) /\ {<<>>} \subseteq Kept(<<2, 2, 0>>)
      /\ {<<>>} \subseteq Kept(<<2, 0, 0, 0, 0>>) /\ {<<>>} \subseteq Kept(<<2, 0>>)
  <2>1. <<>> \in Kept(<<>>)
    BY Tables, NothingKept
  <2>2. <<>> \in Kept(<<2, 2, 0>>)
    BY Tables, NothingKept
  <2>3. <<>> \in Kept(<<2, 0, 0, 0, 0>>)
    BY Tables, NothingKept
  <2>4. <<>> \in Kept(<<2, 0>>)
    BY Tables, NothingKept
  <2> QED
    BY <2>1, <2>2, <2>3, <2>4
<1>2. Texts \subseteq Bytes /\ Numbers \subseteq Int64
  BY CodecAssumption DEF Bytes, Byte, Int64, Half
<1>3. NoMessage \subseteq ParamsSet
  BY <1>1 DEF NoMessage, ParamsSet
<1>4. Identities \subseteq IdentitySet
  BY <1>1, <1>2 DEF Identities, IdentitySet
<1>5. Listed \subseteq IdentitySet
  BY <1>4 DEF Listed
<1>6. PageRequests \subseteq PageRequestSet
  BY <1>1, <1>2, SentWords DEF PageRequests, PageRequestSet, Full
<1>7. PageResponses \subseteq PageResponseSet
  BY <1>1, <1>2, SentWords DEF PageResponses, PageResponseSet
<1> QED
  BY <1>3, <1>4, <1>5, <1>6, <1>7

(* The unknown fields of a message are what a reader would keep.           *)
LEMMA UnknownsKept ==
  ASSUME NEW t \in Types, NEW wt, wt = WireTypes(t)
  PROVE  Unknowns \subseteq Kept(wt)
<1> SUFFICES ASSUME NEW u \in Unknowns
             PROVE  u \in Kept(wt)
  OBVIOUS
<1>1. u \in Bytes
  BY CodecAssumption DEF Bytes, Byte
<1>2. Scan(WireTypes(t), u) =
        [st |-> "ok", fields |-> [n \in DOMAIN WireTypes(t) |-> <<>>], unknown |-> u]
  BY CodecAssumption
<1>3. Scan(wt, u) = Found(NoValues(wt), u)
  BY <1>2 DEF Found, NoValues
<1> QED
  BY <1>1, <1>3 DEF Kept

(* Every message that is sent is one that its type can hold.               *)
LEMMA MessagesFormed ==
  ASSUME NEW t \in Types
  PROVE  Messages(t) \subseteq WellFormed(t)
<1>1. Texts \subseteq Bytes /\ Numbers \subseteq Int64
  BY CodecAssumption DEF Bytes, Byte, Int64, Half
<1>2. /\ AtMostOne(NoMessage) \subseteq Pointer(ParamsSet)
      /\ AtMostOne(Identities) \subseteq Pointer(IdentitySet)
      /\ Lists(Listed) \subseteq Seq(IdentitySet)
      /\ AtMostOne(PageRequests) \subseteq Pointer(PageRequestSet)
      /\ AtMostOne(PageResponses) \subseteq Pointer(PageResponseSet)
  BY FieldsFormed, ListsFormed
<1>3. CASE t = "Params"
  <2>1. Unknowns \subseteq Kept(<<>>)
    <3>1. WireTypes(t) = <<>>
      BY <1>3 DEF WireTypes
    <3> QED
      BY <3>1, UnknownsKept
  <2>2. /\ Messages(t) = [unknown : Unknowns]
        /\ WellFormed(t) = ParamsSet
    BY <1>3 DEF Messages, WellFormed
  <2> QED
    BY <1>1, <1>2, <2>1, <2>2 DEF ParamsSet
<1>4. CASE t = "Identity"
  <2>1. Unknowns \subseteq Kept(<<2, 2, 0>>)
    <3>1. WireTypes(t) = <<2, 2, 0>>
      BY <1>4 DEF WireTypes
    <3> QED
      BY <3>1, UnknownsKept
  <2>2. /\ Messages(t) = [address : Texts, idHash : Texts, createdAt : Numbers, unknown : Unknowns]
        /\ WellFormed(t) = IdentitySet
    BY <1>4 DEF Messages, WellFormed
  <2> QED
    BY <1>1, <1>2, <2>1, <2>2 DEF IdentitySet
<1>5. CASE t = "GenesisState"
  <2>1. Unknowns \subseteq Kept(<<2, 2>>)
    <3>1. WireTypes(t) = <<2, 2>>
      BY <1>5 DEF WireTypes
    <3> QED
      BY <3>1, UnknownsKept
  <2>2. /\ Messages(t) =
           [params : AtMostOne(NoMessage), identityList : Lists(Listed), unknown : Unknowns]
        /\ WellFormed(t) = GenesisStateSet
    BY <1>5 DEF Messages, WellFormed
  <2> QED
    BY <1>1, <1>2, <2>1, <2>2 DEF GenesisStateSet
<1>6. CASE t = "MsgUpdateParams"
  <2>1. Unknowns \subseteq Kept(<<2, 2>>)
    <3>1. WireTypes(t) = <<2, 2>>
      BY <1>6 DEF WireTypes
    <3> QED
      BY <3>1, UnknownsKept
  <2>2. /\ Messages(t) = [authority : Texts, params : AtMostOne(NoMessage), unknown : Unknowns]
        /\ WellFormed(t) = MsgUpdateParamsSet
    BY <1>6 DEF Messages, WellFormed
  <2> QED
    BY <1>1, <1>2, <2>1, <2>2 DEF MsgUpdateParamsSet
<1>7. CASE t = "MsgUpdateParamsResponse"
  <2>1. Unknowns \subseteq Kept(<<>>)
    <3>1. WireTypes(t) = <<>>
      BY <1>7 DEF WireTypes
    <3> QED
      BY <3>1, UnknownsKept
  <2>2. /\ Messages(t) = [unknown : Unknowns]
        /\ WellFormed(t) = MsgUpdateParamsResponseSet
    BY <1>7 DEF Messages, WellFormed
  <2> QED
    BY <1>1, <1>2, <2>1, <2>2 DEF MsgUpdateParamsResponseSet
<1>8. CASE t = "MsgCreateIdentity"
  <2>1. Unknowns \subseteq Kept(<<2, 2>>)
    <3>1. WireTypes(t) = <<2, 2>>
      BY <1>8 DEF WireTypes
    <3> QED
      BY <3>1, UnknownsKept
  <2>2. /\ Messages(t) = [creator : Texts, cccdId : Texts, unknown : Unknowns]
        /\ WellFormed(t) = MsgCreateIdentitySet
    BY <1>8 DEF Messages, WellFormed
  <2> QED
    BY <1>1, <1>2, <2>1, <2>2 DEF MsgCreateIdentitySet
<1>9. CASE t = "MsgCreateIdentityResponse"
  <2>1. Unknowns \subseteq Kept(<<>>)
    <3>1. WireTypes(t) = <<>>
      BY <1>9 DEF WireTypes
    <3> QED
      BY <3>1, UnknownsKept
  <2>2. /\ Messages(t) = [unknown : Unknowns]
        /\ WellFormed(t) = MsgCreateIdentityResponseSet
    BY <1>9 DEF Messages, WellFormed
  <2> QED
    BY <1>1, <1>2, <2>1, <2>2 DEF MsgCreateIdentityResponseSet
<1>10. CASE t = "QueryParamsRequest"
  <2>1. Unknowns \subseteq Kept(<<>>)
    <3>1. WireTypes(t) = <<>>
      BY <1>10 DEF WireTypes
    <3> QED
      BY <3>1, UnknownsKept
  <2>2. /\ Messages(t) = [unknown : Unknowns]
        /\ WellFormed(t) = QueryParamsRequestSet
    BY <1>10 DEF Messages, WellFormed
  <2> QED
    BY <1>1, <1>2, <2>1, <2>2 DEF QueryParamsRequestSet
<1>11. CASE t = "QueryParamsResponse"
  <2>1. Unknowns \subseteq Kept(<<2>>)
    <3>1. WireTypes(t) = <<2>>
      BY <1>11 DEF WireTypes
    <3> QED
      BY <3>1, UnknownsKept
  <2>2. /\ Messages(t) = [params : AtMostOne(NoMessage), unknown : Unknowns]
        /\ WellFormed(t) = QueryParamsResponseSet
    BY <1>11 DEF Messages, WellFormed
  <2> QED
    BY <1>1, <1>2, <2>1, <2>2 DEF QueryParamsResponseSet
<1>12. CASE t = "QueryGetIdentityRequest"
  <2>1. Unknowns \subseteq Kept(<<2>>)
    <3>1. WireTypes(t) = <<2>>
      BY <1>12 DEF WireTypes
    <3> QED
      BY <3>1, UnknownsKept
  <2>2. /\ Messages(t) = [address : Texts, unknown : Unknowns]
        /\ WellFormed(t) = QueryGetIdentityRequestSet
    BY <1>12 DEF Messages, WellFormed
  <2> QED
    BY <1>1, <1>2, <2>1, <2>2 DEF QueryGetIdentityRequestSet
<1>13. CASE t = "QueryGetIdentityResponse"
  <2>1. Unknowns \subseteq Kept(<<2>>)
    <3>1. WireTypes(t) = <<2>>
      BY <1>13 DEF WireTypes
    <3> QED
      BY <3>1, UnknownsKept
  <2>2. /\ Messages(t) = [identity : AtMostOne(Identities), unknown : Unknowns]
        /\ WellFormed(t) = QueryGetIdentityResponseSet
    BY <1>13 DEF Messages, WellFormed
  <2> QED
    BY <1>1, <1>2, <2>1, <2>2 DEF QueryGetIdentityResponseSet
<1>14. CASE t = "QueryAllIdentityRequest"
  <2>1. Unknowns \subseteq Kept(<<2>>)
    <3>1. WireTypes(t) = <<2>>
      BY <1>14 DEF WireTypes
    <3> QED
      BY <3>1, UnknownsKept
  <2>2. /\ Messages(t) = [pagination : AtMostOne(PageRequests), unknown : Unknowns]
        /\ WellFormed(t) = QueryAllIdentityRequestSet
    BY <1>14 DEF Messages, WellFormed
  <2> QED
    BY <1>1, <1>2, <2>1, <2>2 DEF QueryAllIdentityRequestSet
<1>15. CASE t = "QueryAllIdentityResponse"
  <2>1. Unknowns \subseteq Kept(<<2, 2>>)
    <3>1. WireTypes(t) = <<2, 2>>
      BY <1>15 DEF WireTypes
    <3> QED
      BY <3>1, UnknownsKept
  <2>2. /\ Messages(t) =
           [identity : Lists(Listed), pagination : AtMostOne(PageResponses), unknown : Unknowns]
        /\ WellFormed(t) = QueryAllIdentityResponseSet
    BY <1>15 DEF Messages, WellFormed
  <2> QED
    BY <1>1, <1>2, <2>1, <2>2 DEF QueryAllIdentityResponseSet
<1>16. CASE t = "QueryIdentityByCccdIdRequest"
  <2>1. Unknowns \subseteq Kept(<<2, 2>>)
    <3>1. WireTypes(t) = <<2, 2>>
      BY <1>16 DEF WireTypes
    <3> QED
      BY <3>1, UnknownsKept
  <2>2. /\ Messages(t) = [idHash : Texts, pagination : AtMostOne(PageRequests), unknown : Unknowns]
        /\ WellFormed(t) = QueryIdentityByCccdIdRequestSet
    BY <1>16 DEF Messages, WellFormed
  <2> QED
    BY <1>1, <1>2, <2>1, <2>2 DEF QueryIdentityByCccdIdRequestSet
<1>17. CASE t = "QueryIdentityByCccdIdResponse"
  <2>1. Unknowns \subseteq Kept(<<2, 2>>)
    <3>1. WireTypes(t) = <<2, 2>>
      BY <1>17 DEF WireTypes
    <3> QED
      BY <3>1, UnknownsKept
  <2>2. /\ Messages(t) =
           [identity : Lists(Listed), pagination : AtMostOne(PageResponses), unknown : Unknowns]
        /\ WellFormed(t) = QueryIdentityByCccdIdResponseSet
    BY <1>17 DEF Messages, WellFormed
  <2> QED
    BY <1>1, <1>2, <2>1, <2>2 DEF QueryIdentityByCccdIdResponseSet
<1>18. CASE t = "Module"
  <2>1. Unknowns \subseteq Kept(<<2>>)
    <3>1. WireTypes(t) = <<2>>
      BY <1>18 DEF WireTypes
    <3> QED
      BY <3>1, UnknownsKept
  <2>2. /\ Messages(t) = [authority : Texts, unknown : Unknowns]
        /\ WellFormed(t) = ModuleSet
    BY <1>18 DEF Messages, WellFormed
  <2> QED
    BY <1>1, <1>2, <2>1, <2>2 DEF ModuleSet
<1> QED
  BY <1>3, <1>4, <1>5, <1>6, <1>7, <1>8, <1>9, <1>10, <1>11, <1>12, <1>13, <1>14, <1>15, <1>16,
     <1>17, <1>18 DEF Types, GogoTypes

(* Any bytes are an error for the pulsar form of a type, or a message.     *)
LEMMA PulsarReads ==
  ASSUME NEW t \in Types, NEW bs \in Buffers
  PROVE  unmarshal(t, bs) = Failed \/ \E m \in WellFormed(t) : unmarshal(t, bs) = Ok(m, 0)
<1>1. CASE t \in GogoTypes
  BY <1>1, AllReadAlike DEF Agreeing
<1>2. CASE t = "Module"
  <2>1. unmarshal(t, bs) = Module_unmarshal(bs) /\ WellFormed(t) = ModuleSet
    BY <1>2 DEF unmarshal, WellFormed
  <2> QED
    BY <2>1, Module_Reads
<1> QED
  BY <1>1, <1>2 DEF Types

(* For its gogo form they are, and it says the same.                       *)
LEMMA GogoReads ==
  ASSUME NEW t \in GogoTypes, NEW bs \in Buffers
  PROVE  \/ unmarshal(t, bs) = Failed /\ Unmarshal(t, bs) = Failed
         \/ \E m \in WellFormed(t) :
              unmarshal(t, bs) = Ok(m, 0) /\ Unmarshal(t, bs) = Ok(Same(t, m), 0)
BY AllReadAlike DEF Agreeing, SameAs

(* Every type but the module configuration has a gogo form.                *)
LEMMA HasGogoForm ==
  ASSUME NEW t \in Types, t # "Module"
  PROVE  t \in GogoTypes
BY DEF Types

-----------------------------------------------------------------------------
(***************************************************************************)
(* The inductive invariant.  What is on the wire is a buffer, and if it    *)
(* was marshalled it is what the sender's marshaller made of a message     *)
(* that the type can hold.                                                 *)
(***************************************************************************)
Sent(m) ==
  /\ sent = <<m>>
  /\ \/ by = "pulsar" /\ wire = marshal(type, m)
     \/ by = "gogo" /\ type # "Module" /\ wire = Marshal(type, Same(type, m))

IInv ==
  /\ type \in Types /\ by \in {"nobody", "gogo", "pulsar"} /\ pieces \in 0 .. MaxPieces
  /\ wire \in Buffers
  /\ sent = <<>> \/ \E m \in WellFormed(type) : Sent(m)

(* A message from either marshaller keeps the invariant.                   *)
LEMMA SendKeeps ==
  ASSUME IInv, NEW m \in Messages(type), SendPulsar(m) \/ SendGogo(m)
  PROVE  IInv'
<1>1. type \in Types /\ pieces \in 0 .. MaxPieces
  BY DEF IInv
<1>2. m \in WellFormed(type)
  BY <1>1, MessagesFormed
<1>3. type' = type /\ pieces' = pieces /\ sent' = <<m>>
  BY DEF SendPulsar, SendGogo, Send
<1>4. CASE SendPulsar(m)
  <2>1. by' = "pulsar" /\ wire' = marshal(type, m) /\ Fits(wire')
    BY <1>4 DEF SendPulsar
  <2>2. wire' \in Bytes
    BY <1>1, <1>2, <2>1, PulsarBack
  <2> QED
    BY <1>1, <1>2, <1>3, <2>1, <2>2 DEF IInv, Sent, Buffers
<1>5. CASE SendGogo(m)
  <2>1. /\ by' = "gogo" /\ type # "Module" /\ Fits(wire')
        /\ wire' = Marshal(type, Same(type, m))
    BY <1>5 DEF SendGogo
  <2>2. wire' \in Bytes
    <3>1. type \in GogoTypes
      BY <1>1, <2>1, HasGogoForm
    <3>2. Same(type, m) \in PlainFormed(type)
      BY <1>2, <3>1, SameFormed
    <3> QED
      BY <2>1, <3>1, <3>2, GogoBack
  <2> QED
    BY <1>1, <1>2, <1>3, <2>1, <2>2 DEF IInv, Sent, Buffers
<1> QED
  BY <1>4, <1>5

(* The invariant holds of every reachable state: every step puts a buffer  *)
(* on the wire, and none but a marshaller claims to have sent it.          *)
THEOREM Inductive == Spec => []IInv
<1>1. <<>> \in Buffers
  <2>1. Fits(<<>>)
    BY Tables, ScanNothing
  <2> QED
    BY <2>1, NoBytes DEF Buffers
<1>2. Init => IInv
  BY <1>1, CodecAssumption DEF Init, IInv
<1>3. IInv /\ [Next]_vars => IInv'
  <2> SUFFICES ASSUME IInv, [Next]_vars
               PROVE  IInv'
    OBVIOUS
  <2>1. ASSUME NEW m \in Messages(type), SendPulsar(m) \/ SendGogo(m)
        PROVE  IInv'
    BY <2>1, SendKeeps
  <2>2. ASSUME NEW piece \in Pieces, Receive(piece)
        PROVE  IInv'
    <3>1. /\ sent = <<>> /\ wire' = wire \o piece /\ Fits(wire') /\ pieces < MaxPieces
          /\ pieces' = pieces + 1 /\ type' = type /\ sent' = sent /\ by' = by
      BY <2>2 DEF Receive
    <3>2. piece \in Bytes /\ wire \in Bytes
      BY CodecAssumption DEF Bytes, Byte, IInv, Buffers
    <3>3. wire' \in Buffers
      <4>1. wire \o piece \in Bytes
        BY <3>2, BytesJoin
      <4> QED
        BY <3>1, <4>1 DEF Buffers
    <3> QED
      BY <3>1, <3>3, CodecAssumption DEF IInv
  <2>3. CASE Reuse
    BY <1>1, <2>3, CodecAssumption DEF Reuse, IInv
  <2>4. CASE UNCHANGED vars
    BY <2>4 DEF vars, IInv, Sent
  <2> QED
    BY <2>1, <2>2, <2>3, <2>4 DEF Next
<1> QED
  BY <1>2, <1>3, PTL DEF Spec

(* Types are the declared ones, and the wire carries bytes.                *)
THEOREM TypeCorrect == Spec => []TypeOK
<1>1. ASSUME IInv
      PROVE  TypeOK
  <2>1. wire \in Bytes
    BY <1>1 DEF IInv, Buffers
  <2>2. \A k \in DOMAIN wire : wire[k] \in Byte
    BY <2>1 DEF Bytes
  <2> QED
    BY <1>1, <2>2 DEF IInv, TypeOK, Byte
<1> QED
  BY <1>1, Inductive, PTL

(* No bytes of any length crash either unmarshaller of any type: the       *)
(* checks on lengths and indexes come before every access.                 *)
THEOREM BytesNeverPanic == Spec => []NoPanic
<1>1. ASSUME IInv
      PROVE  NoPanic
  <2>1. type \in Types /\ wire \in Buffers
    BY <1>1 DEF IInv
  <2>2. unmarshal(type, wire).st # "panic"
    BY <2>1, PulsarReads DEF Failed, Ok
  <2>3. ASSUME type # "Module"
        PROVE  Unmarshal(type, wire).st # "panic"
    <3>1. type \in GogoTypes
      BY <2>1, <2>3, HasGogoForm
    <3> QED
      BY <2>1, <3>1, GogoReads DEF Failed, Ok
  <2> QED
    BY <2>2, <2>3 DEF NoPanic
<1> QED
  BY <1>1, Inductive, PTL

(* The signers' message and the handler's message, read from the same      *)
(* bytes, say the same, or neither is read.                                *)
THEOREM OneMeaning == Spec => []DecodersAgree
<1>1. ASSUME IInv
      PROVE  DecodersAgree
  <2> SUFFICES ASSUME type # "Module"
               PROVE  Agree(Unmarshal(type, wire), unmarshal(type, wire))
    BY DEF DecodersAgree
  <2>1. type \in Types /\ wire \in Buffers
    BY <1>1 DEF IInv
  <2>2. type \in GogoTypes
    BY <2>1, HasGogoForm
  <2>3. \/ unmarshal(type, wire) = Failed /\ Unmarshal(type, wire) = Failed
        \/ \E m \in WellFormed(type) :
             /\ unmarshal(type, wire) = Ok(m, 0)
             /\ Unmarshal(type, wire) = Ok(Same(type, m), 0)
    BY <2>1, <2>2, GogoReads
  <2> QED
    BY <2>3 DEF Agree, Failed, Ok
<1> QED
  BY <1>1, Inductive, PTL

(* What either marshaller wrote, both unmarshallers read back.             *)
LEMMA SentIsRead ==
  ASSUME type \in Types, wire \in Buffers, NEW m \in WellFormed(type), Sent(m)
  PROVE  RoundTrip
<1> DEFINE p == unmarshal(type, wire)
           g == Unmarshal(type, wire)
           v == Same(type, m)
<1>1. sent[1] = m /\ Fits(wire)
  BY DEF Sent, Buffers
<1>2. CASE by = "pulsar" /\ wire = marshal(type, m)
  <2>1. p = Ok(m, 0)
    BY <1>1, <1>2, PulsarBack
  <2>2. p.st = "ok" /\ p.v = m
    <3> HIDE DEF p
    <3> QED
      BY <2>1, OkParts
  <2>3. ASSUME type # "Module"
        PROVE  g = Ok(v, 0)
    <3>1. type \in GogoTypes
      BY <2>3, HasGogoForm
    <3>2. \/ p = Failed /\ g = Failed
          \/ \E n \in WellFormed(type) : p = Ok(n, 0) /\ g = Ok(Same(type, n), 0)
      BY <3>1, GogoReads
    <3> HIDE DEF p, g
    <3>3. p # Failed
      BY <2>2 DEF Failed
    <3>4. PICK n \in WellFormed(type) : p = Ok(n, 0) /\ g = Ok(Same(type, n), 0)
      BY <3>2, <3>3
    <3>5. n = m
      BY <2>2, <3>4, OkParts
    <3> QED
      BY <3>4, <3>5
  <2> HIDE DEF p, g
  <2>4. ReadBack(p)
    BY <1>1, <2>2 DEF ReadBack
  <2> QED
    BY <1>1, <2>3, <2>4 DEF RoundTrip, Ok, p, g
<1>3. CASE by = "gogo" /\ type # "Module" /\ wire = Marshal(type, v)
  <2>1. type \in GogoTypes
    BY <1>3, HasGogoForm
  <2>2. v \in PlainFormed(type)
    BY <2>1, SameFormed
  <2>3. g = Ok(v, 0)
    <3> HIDE DEF v
    <3> QED
      BY <1>1, <1>3, <2>1, <2>2, GogoBack
  <2>4. \/ p = Failed /\ g = Failed
        \/ \E n \in WellFormed(type) : p = Ok(n, 0) /\ g = Ok(Same(type, n), 0)
    BY <2>1, GogoReads
  <2> HIDE DEF p, g
  <2>5. g.st = "ok" /\ g.v = v
    BY <2>3, OkParts
  <2>6. g # Failed
    BY <2>5 DEF Failed
  <2>7. PICK n \in WellFormed(type) : p = Ok(n, 0) /\ g = Ok(Same(type, n), 0)
    BY <2>4, <2>6
  <2>8. p.st = "ok" /\ p.v = n
    BY <2>7, OkParts
  <2>9. g.v = Same(type, n)
    BY <2>7, OkParts
  <2>10. Same(type, p.v) = Same(type, m)
    BY <2>5, <2>8, <2>9
  <2>11. ReadBack(p)
    BY <1>1, <1>3, <2>8, <2>10 DEF ReadBack
  <2> QED
    BY <1>1, <2>3, <2>11 DEF RoundTrip, Ok, p, g
<1> QED
  BY <1>2, <1>3 DEF Sent

(* Whichever form marshalled the message, both forms read the message that *)
(* was sent: Size, Marshal and Unmarshal count the same bytes.             *)
THEOREM WrittenIsRead == Spec => []RoundTrip
<1>1. ASSUME IInv
      PROVE  RoundTrip
  <2>1. type \in Types /\ wire \in Buffers
    BY <1>1 DEF IInv
  <2>2. CASE sent = <<>>
    BY <2>2 DEF RoundTrip
  <2>3. ASSUME NEW m \in WellFormed(type), Sent(m)
        PROVE  RoundTrip
    BY <2>1, <2>3, SentIsRead
  <2> QED
    BY <1>1, <2>2, <2>3 DEF IInv
<1> QED
  BY <1>1, Inductive, PTL

(* Bytes from anywhere that are read, written again and read again give    *)
(* the same message in either form: the pulsar form with the fields it     *)
(* does not know, the gogo form as it is stored.                           *)
THEOREM NothingLostRewriting == Spec => []Rewriting
<1>1. ASSUME IInv
      PROVE  Rewriting
  <2> DEFINE p == unmarshal(type, wire)
             g == Unmarshal(type, wire)
  <2>1. type \in Types /\ wire \in Buffers
    BY <1>1 DEF IInv
  <2>2. PulsarKeeps(p)
    <3> SUFFICES ASSUME p.st = "ok", Fits(marshal(type, p.v))
                 PROVE  unmarshal(type, marshal(type, p.v)) = p
      BY DEF PulsarKeeps
    <3>1. p = Failed \/ \E m \in WellFormed(type) : p = Ok(m, 0)
      BY <2>1, PulsarReads
    <3>2. PICK m \in WellFormed(type) : p = Ok(m, 0)
      BY <3>1 DEF Failed
    <3>3. p.v = m
      <4> HIDE DEF p
      <4> QED
        BY <3>2, OkParts
    <3>4. unmarshal(type, marshal(type, m)) = Ok(m, 0)
      <4> DEFINE bs == marshal(type, m)
      <4>1. bs = marshal(type, m) /\ Fits(bs)
        BY <3>3
      <4> HIDE DEF bs
      <4>2. unmarshal(type, bs) = Ok(m, 0)
        BY <2>1, <4>1, PulsarBack
      <4> QED
        BY <4>1, <4>2
    <3> QED
      BY <3>2, <3>3, <3>4
  <2>3. ASSUME type # "Module"
        PROVE  GogoKeeps(g)
    <3> SUFFICES ASSUME g.st = "ok", Fits(Marshal(type, g.v))
                 PROVE  Unmarshal(type, Marshal(type, g.v)) = g
      BY DEF GogoKeeps
    <3>1. type \in GogoTypes
      BY <2>1, <2>3, HasGogoForm
    <3>2. \/ p = Failed /\ g = Failed
          \/ \E m \in WellFormed(type) : p = Ok(m, 0) /\ g = Ok(Same(type, m), 0)
      BY <2>1, <3>1, GogoReads
    <3>3. PICK m \in WellFormed(type) : g = Ok(Same(type, m), 0)
      BY <3>2 DEF Failed
    <3> DEFINE v == Same(type, m)
    <3>4. v \in PlainFormed(type)
      BY <3>1, SameFormed
    <3>5. g.v = v
      <4> HIDE DEF g, v
      <4>1. g = Ok(v, 0)
        BY <3>3 DEF v
      <4> QED
        BY <4>1, OkParts
    <3>6. Unmarshal(type, Marshal(type, v)) = Ok(v, 0)
      <4> DEFINE bs == Marshal(type, v)
      <4>1. bs = Marshal(type, v) /\ Fits(bs)
        BY <3>5
      <4> HIDE DEF bs, v
      <4>2. Unmarshal(type, bs) = Ok(v, 0)
        BY <3>1, <3>4, <4>1, GogoBack
      <4> QED
        BY <4>1, <4>2
    <3> QED
      BY <3>3, <3>5, <3>6
  <2> QED
    BY <2>2, <2>3 DEF Rewriting
<1> QED
  BY <1>1, Inductive, PTL

(* Reflection calls a field populated exactly when marshal writes it, for  *)
(* every message that any bytes are read as.                               *)
THEOREM ReflectedIsWritten == Spec => []PopulatedIsWritten
<1>1. ASSUME IInv
      PROVE  PopulatedIsWritten
  <2> DEFINE p == unmarshal(type, wire)
             k == [p.v EXCEPT !.unknown = <<>>]
             bs == marshal(type, k)
             s == Scan(WireTypes(type), bs)
  <2>1. type \in Types /\ wire \in Buffers
    BY <1>1 DEF IInv
  <2> SUFFICES ASSUME p.st = "ok", Fits(bs)
               PROVE  RangeOf(type, p.v) = {n \in DOMAIN s.fields : Values(s, n) # <<>>}
    BY DEF PopulatedIsWritten, PopulatedIn, Written
  <2>2. p = Failed \/ \E m \in WellFormed(type) : p = Ok(m, 0)
    BY <2>1, PulsarReads
  <2>3. PICK m \in WellFormed(type) : p = Ok(m, 0)
    BY <2>2 DEF Failed
  <2>4. p.v = m
    <3> HIDE DEF p
    <3> QED
      BY <2>3, OkParts
  <2>5. k = [m EXCEPT !.unknown = <<>>]
    BY <2>4
  <2>6. bs = marshal(type, k) /\ s = Scan(WireTypes(type), bs) /\ Fits(bs)
    OBVIOUS
  <2> HIDE DEF p, k, bs, s
  <2>7. RangeOf(type, m) = {n \in DOMAIN s.fields : Values(s, n) # <<>>}
    BY <2>1, <2>5, <2>6, RangeWritten
  <2> QED
    BY <2>4, <2>7
<1> QED
  BY <1>1, Inductive, PTL
=============================================================================
