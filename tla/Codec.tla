-------------------------------- MODULE Codec --------------------------------
(***************************************************************************)
(* The two sets of generated messages on the two ends of the same bytes.   *)
(* A transaction's messages are decoded twice: the pulsar form decides who *)
(* has to sign, the gogo form is what the gate and the handlers act on.  A *)
(* query's answer is written by the gogo form and read by the pulsar one.  *)
(*                                                                         *)
(* The buffer is either what one of the marshallers wrote for a message or *)
(* what came from outside, piece by piece: well-formed fields, single      *)
(* bytes, lengths that lie.                                                *)
(***************************************************************************)
EXTENDS GogoCodec, PulsarCodec

CONSTANTS
    Texts, Numbers, Unknowns,  \* field values; raw fields of a newer schema
    ForeignTypes, Pieces, MaxPieces  \* what comes from outside

Types == GogoTypes \cup {"Module"}

VARIABLES
    type,     \* the message type the bytes are read as
    sent,     \* the message marshalled, <<>> when the bytes came from outside
    by,       \* who marshalled it
    wire,     \* the bytes
    pieces    \* pieces received, at most MaxPieces

vars == <<type, sent, by, wire, pieces>>

-----------------------------------------------------------------------------
(* The messages that are sent, in the pulsar form. *)

AtMostOne(S) == {<<>>} \cup {<<x>> : x \in S}
Lists(S) == AtMostOne(S) \cup (S \X S)

NoMessage  == [unknown : {<<>>}]
Identities == [address : Texts, idHash : Texts, createdAt : Numbers, unknown : {<<>>}]
Listed     == {i \in Identities : i.address = i.idHash /\ i.createdAt \in {0, -1}}
PageRequests == [key : Texts, offset : {0, 1}, limit : {0, Pow2[WordBits] - 1},
                 countTotal : BOOLEAN, reverse : {FALSE}, unknown : {<<>>}]
PageResponses == [nextKey : Texts, total : {0, 128}, unknown : {<<>>}]

Messages(t) ==
    CASE t = "Identity"        -> [address : Texts, idHash : Texts, createdAt : Numbers,
                                   unknown : Unknowns]
      [] t = "GenesisState"    -> [params : AtMostOne(NoMessage), identityList : Lists(Listed),
                                   unknown : Unknowns]
      [] t = "MsgUpdateParams" -> [authority : Texts, params : AtMostOne(NoMessage),
                                   unknown : Unknowns]
      [] t = "MsgCreateIdentity"   -> [creator : Texts, cccdId : Texts, unknown : Unknowns]
      [] t = "QueryParamsResponse" -> [params : AtMostOne(NoMessage), unknown : Unknowns]
      [] t = "QueryGetIdentityRequest"  -> [address : Texts, unknown : Unknowns]
      [] t = "QueryGetIdentityResponse" -> [identity : AtMostOne(Identities),
                                            unknown : Unknowns]
      [] t = "QueryAllIdentityRequest"  -> [pagination : AtMostOne(PageRequests),
                                            unknown : Unknowns]
      [] t = "QueryIdentityByCccdIdRequest" -> [idHash : Texts,
                                                pagination : AtMostOne(PageRequests),
                                                unknown : Unknowns]
      [] t \in {"QueryAllIdentityResponse", "QueryIdentityByCccdIdResponse"} ->
            [identity : Lists(Listed), pagination : AtMostOne(PageResponses),
             unknown : Unknowns]
      [] t = "Module" -> [authority : Texts, unknown : Unknowns]
      [] OTHER -> [unknown : Unknowns]

\* The wire types of their fields.
WireTypes(t) ==
    CASE t = "Identity" -> <<2, 2, 0>>
      [] t \in {"GenesisState", "MsgUpdateParams", "MsgCreateIdentity",
                "QueryAllIdentityResponse", "QueryIdentityByCccdIdRequest",
                "QueryIdentityByCccdIdResponse"} -> <<2, 2>>
      [] t \in {"QueryParamsResponse", "QueryGetIdentityRequest",
                "QueryGetIdentityResponse", "QueryAllIdentityRequest", "Module"} -> <<2>>
      [] OTHER -> <<>>

(***************************************************************************)
(* Values are ones the fields hold; 128, the first length of two groups,   *)
(* is a number.  Unknown fields are what a reader of the type would keep:  *)
(* they scan, and none of them is a field that the type knows.             *)
(***************************************************************************)
ASSUME CodecAssumption ==
    /\ WordBits >= 8 /\ MaxPieces \in Nat
    /\ Texts \subseteq Seq(0..255) /\ Pieces \subseteq Seq(0..255)
    /\ Numbers \subseteq -Pow2[WordBits - 1]..Pow2[WordBits - 1] - 1
    /\ \A u \in Unknowns :
          /\ u \in Seq(0..255)
          /\ \A t \in Types : Scan(WireTypes(t), u) =
                [st |-> "ok", fields |-> [n \in DOMAIN WireTypes(t) |-> <<>>], unknown |-> u]

(***************************************************************************)
(* The gogo message that says the same as pulsar message p: a message held *)
(* by value is there even when the field is not, and unknown fields have   *)
(* no place.                                                               *)
(***************************************************************************)
Without(p) == [f \in DOMAIN p \ {"unknown"} |-> p[f]]
EachWithout(ps) == [k \in DOMAIN ps |-> Without(ps[k])]
NoIdentity == [address |-> <<>>, idHash |-> <<>>, createdAt |-> 0]

Same(t, p) ==
    LET q == Without(p)
    IN  CASE t \in {"MsgUpdateParams", "QueryParamsResponse"} ->
                [q EXCEPT !.params = NoFields]
          [] t = "GenesisState" ->
                [params |-> NoFields, identityList |-> EachWithout(p.identityList)]
          [] t = "QueryGetIdentityResponse" ->
                [q EXCEPT !.identity = IF @ = <<>> THEN NoIdentity ELSE Without(@[1])]
          [] t \in {"QueryAllIdentityRequest", "QueryIdentityByCccdIdRequest"} ->
                [q EXCEPT !.pagination = EachWithout(@)]
          [] t \in {"QueryAllIdentityResponse", "QueryIdentityByCccdIdResponse"} ->
                [identity |-> EachWithout(p.identity), pagination |-> EachWithout(p.pagination)]
          [] DOMAIN q = {} -> NoFields
          [] OTHER -> q

-----------------------------------------------------------------------------
Init ==
    /\ type \in Types
    /\ sent = <<>> /\ by = "nobody" /\ wire = <<>> /\ pieces = 0

Send(m) ==
    /\ wire = <<>> /\ sent = <<>>
    /\ sent' = <<m>>
    /\ UNCHANGED <<type, pieces>>
SendPulsar(m) == Send(m) /\ by' = "pulsar" /\ wire' = marshal(type, m)
                 /\ Fits(wire')
SendGogo(m)   == Send(m) /\ type # "Module" /\ by' = "gogo"
                 /\ wire' = Marshal(type, Same(type, m)) /\ Fits(wire')

Receive(piece) ==
    /\ sent = <<>> /\ pieces < MaxPieces
    /\ type \in ForeignTypes
    /\ wire' = wire \o piece /\ Fits(wire')
    /\ pieces' = pieces + 1
    /\ UNCHANGED <<type, sent, by>>

\* The next message.
Reuse == (wire # <<>> \/ sent # <<>>) /\ type' \in Types /\ sent' = <<>> /\ by' = "nobody"
         /\ wire' = <<>> /\ pieces' = 0

Next ==
    \/ \E m \in Messages(type) : SendPulsar(m) \/ SendGogo(m)
    \/ \E piece \in Pieces : Receive(piece)
    \/ Reuse

Spec == Init /\ [][Next]_vars

-----------------------------------------------------------------------------
TypeOK ==
    /\ type \in Types
    /\ by \in {"nobody", "gogo", "pulsar"}
    /\ \A k \in DOMAIN wire : wire[k] \in 0..255
    /\ pieces \in 0..MaxPieces

ReadBack(p) ==
    /\ p.st = "ok"
    /\ by = "pulsar" => p.v = sent[1]
    /\ type # "Module" => Same(type, p.v) = Same(type, sent[1])

(***************************************************************************)
(* What either marshaller writes, both unmarshallers read back as the same *)
(* message: every field, the length prefixes on both sides of 127 bytes,   *)
(* negative numbers in full width, nothing shifted because Size and        *)
(* Marshal count differently.                                              *)
(***************************************************************************)
RoundTrip ==
    sent # <<>> =>
        /\ ReadBack(unmarshal(type, wire))
        /\ type # "Module" =>
            Unmarshal(type, wire) = [st |-> "ok", v |-> Same(type, sent[1]), at |-> 0]

Agree(g, p) == g.st = p.st /\ (g.st = "ok" => g.v = Same(type, p.v))

(***************************************************************************)
(* The signers are taken from the pulsar message and the handler acts on   *)
(* the gogo one: over the same bytes, both are read or neither is, and     *)
(* they say the same, down to repeated fields, field numbers beyond 32     *)
(* bits and over-long integers.                                            *)
(***************************************************************************)
DecodersAgree ==
    type # "Module" => Agree(Unmarshal(type, wire), unmarshal(type, wire))

\* Bytes that no marshaller wrote are an error at worst: the checks on
\* lengths and indexes come before every access, whatever wraps around.
NoPanic ==
    /\ unmarshal(type, wire).st # "panic"
    /\ type # "Module" => Unmarshal(type, wire).st # "panic"

PulsarKeeps(p) ==
    p.st = "ok" /\ Fits(marshal(type, p.v)) => unmarshal(type, marshal(type, p.v)) = p
GogoKeeps(g) ==
    g.st = "ok" /\ Fits(Marshal(type, g.v)) => Unmarshal(type, Marshal(type, g.v)) = g

(***************************************************************************)
(* Reading and writing again loses nothing that the form holds: the pulsar *)
(* form keeps unknown fields, so that a relay built on it passes on a      *)
(* newer client's message; the gogo form, which is what is stored, reads   *)
(* its own output back.                                                    *)
(***************************************************************************)
Rewriting ==
    /\ PulsarKeeps(unmarshal(type, wire))
    /\ type # "Module" => GogoKeeps(Unmarshal(type, wire))

\* The field numbers in well-formed bytes.
Written(bs) ==
    LET s == Scan(WireTypes(type), bs) IN {n \in DOMAIN s.fields : Values(s, n) # <<>>}

PopulatedIn(p) ==
    LET known == [p.v EXCEPT !.unknown = <<>>]
    IN  p.st = "ok" /\ Fits(marshal(type, known))
            => RangeOf(type, p.v) = Written(marshal(type, known))

\* Reflection, which the sign bytes are made with, reports a field populated
\* exactly when it goes over the wire.
PopulatedIsWritten == PopulatedIn(unmarshal(type, wire))
=============================================================================
