----------------------------- MODULE PulsarCodec -----------------------------
(***************************************************************************)
(* The messages of api/nexelra/identity/ *.pulsar.go: the size, marshal    *)
(* and unmarshal closures of ProtoMethods, and Range and Has of the fast   *)
(* reflection.  The signers of a transaction, its amino and textual sign   *)
(* bytes and the command line's queries are computed from these.           *)
(*                                                                         *)
(* A message field is a pointer here, so that it can be absent, and the    *)
(* bytes of unknown fields are kept and written again.                     *)
(***************************************************************************)
EXTENDS Wire

\* Range calls f for, and Has is true of, a populated field.
Populated(n, condition) == IF condition THEN {n} ELSE {}

-----------------------------------------------------------------------------
(* the SDK (cosmos.base.query.v1beta1): external *)

PageRequest_size(m) ==
    StringSize(m.key) + VarintSize(m.offset) + VarintSize(m.limit)
    + VarintSize(IF m.countTotal THEN 1 ELSE 0)
    + VarintSize(IF m.reverse THEN 1 ELSE 0) + Len(m.unknown)
PageRequest_marshal(m) ==
    Fill(PageRequest_size(m),
         StringField(1, m.key) \o VarintField(2, m.offset) \o VarintField(3, m.limit)
         \o VarintField(4, IF m.countTotal THEN 1 ELSE 0)
         \o VarintField(5, IF m.reverse THEN 1 ELSE 0) \o m.unknown)
PageRequest_unmarshal(bs) ==
    Then(Scan(<<2, 0, 0, 0, 0>>, bs), LAMBDA s :
    Ok([key |-> StringOf(s, 1),
        offset |-> LastOf(s, 2, 0),
        limit |-> LastOf(s, 3, 0),
        countTotal |-> BoolOf(s, 4),
        reverse |-> BoolOf(s, 5),
        unknown |-> s.unknown], 0))

PageResponse_size(m) == StringSize(m.nextKey) + VarintSize(m.total) + Len(m.unknown)
PageResponse_marshal(m) ==
    Fill(PageResponse_size(m),
         StringField(1, m.nextKey) \o VarintField(2, m.total) \o m.unknown)
PageResponse_unmarshal(bs) ==
    Then(Scan(<<2, 0>>, bs), LAMBDA s :
    Ok([nextKey |-> StringOf(s, 1),
        total |-> LastOf(s, 2, 0),
        unknown |-> s.unknown], 0))

-----------------------------------------------------------------------------
(* params.pulsar.go *)

Params_size(m) == Len(m.unknown)
Params_marshal(m) ==
    Fill(Params_size(m), m.unknown)
Params_unmarshal(bs) ==
    Then(Scan(<<>>, bs), LAMBDA s :
    Ok([unknown |-> s.unknown], 0))
Params_Range(m) == {}

-----------------------------------------------------------------------------
(* identity.pulsar.go *)

Identity_size(m) ==
    StringSize(m.address) + StringSize(m.idHash) + VarintSize(m.createdAt)
    + Len(m.unknown)
Identity_marshal(m) ==
    Fill(Identity_size(m),
         StringField(1, m.address) \o StringField(2, m.idHash)
         \o VarintField(3, m.createdAt) \o m.unknown)
Identity_unmarshal(bs) ==
    Then(Scan(<<2, 2, 0>>, bs), LAMBDA s :
    Ok([address |-> StringOf(s, 1),
        idHash |-> StringOf(s, 2),
        createdAt |-> Int64Of(s, 3),
        unknown |-> s.unknown], 0))
\* Mutant: a negative time counts as none.
Identity_Range_Positive(m) ==
    Populated(1, m.address # <<>>) \cup Populated(2, m.idHash # <<>>)
    \cup Populated(3, m.createdAt > 0)
Identity_Range(m) ==
    Populated(1, m.address # <<>>) \cup Populated(2, m.idHash # <<>>)
    \cup Populated(3, m.createdAt # 0)

-----------------------------------------------------------------------------
(* genesis.pulsar.go *)

GenesisState_size(m) ==
    MessagesSize(Params_size, m.params)
    + MessagesSize(Identity_size, m.identityList) + Len(m.unknown)
GenesisState_marshal(m) ==
    Fill(GenesisState_size(m),
         MessagesField(1, Params_marshal, m.params)
         \o MessagesField(2, Identity_marshal, m.identityList) \o m.unknown)
GenesisState_unmarshal(bs) ==
    Then(Scan(<<2, 2>>, bs), LAMBDA s :
    Then(Optional(Params_unmarshal, Values(s, 1)), LAMBDA params :
    Then(Each(Identity_unmarshal, Values(s, 2)), LAMBDA identityList :
    Ok([params |-> params.v,
        identityList |-> identityList.v,
        unknown |-> s.unknown], 0))))
GenesisState_Range(m) ==
    Populated(1, m.params # <<>>) \cup Populated(2, m.identityList # <<>>)

-----------------------------------------------------------------------------
(* tx.pulsar.go *)

MsgUpdateParams_size(m) ==
    StringSize(m.authority) + MessagesSize(Params_size, m.params) + Len(m.unknown)
MsgUpdateParams_marshal(m) ==
    Fill(MsgUpdateParams_size(m),
         StringField(1, m.authority) \o MessagesField(2, Params_marshal, m.params)
         \o m.unknown)
MsgUpdateParams_unmarshal(bs) ==
    Then(Scan(<<2, 2>>, bs), LAMBDA s :
    Then(Optional(Params_unmarshal, Values(s, 2)), LAMBDA params :
    Ok([authority |-> StringOf(s, 1),
        params |-> params.v,
        unknown |-> s.unknown], 0)))
MsgUpdateParams_Range(m) ==
    Populated(1, m.authority # <<>>) \cup Populated(2, m.params # <<>>)

MsgUpdateParamsResponse_size(m) == Len(m.unknown)
MsgUpdateParamsResponse_marshal(m) ==
    Fill(MsgUpdateParamsResponse_size(m), m.unknown)
MsgUpdateParamsResponse_unmarshal(bs) ==
    Then(Scan(<<>>, bs), LAMBDA s :
    Ok([unknown |-> s.unknown], 0))
MsgUpdateParamsResponse_Range(m) == {}

MsgCreateIdentity_size(m) ==
    StringSize(m.creator) + StringSize(m.cccdId) + Len(m.unknown)
MsgCreateIdentity_marshal(m) ==
    Fill(MsgCreateIdentity_size(m),
         StringField(1, m.creator) \o StringField(2, m.cccdId) \o m.unknown)
\* Mutant: generated from a .proto in which the fields have changed places.
MsgCreateIdentity_unmarshal_Renumbered(bs) ==
    Then(Scan(<<2, 2>>, bs), LAMBDA s :
    Ok([creator |-> StringOf(s, 2),
        cccdId |-> StringOf(s, 1),
        unknown |-> s.unknown], 0))
MsgCreateIdentity_unmarshal(bs) ==
    Then(Scan(<<2, 2>>, bs), LAMBDA s :
    Ok([creator |-> StringOf(s, 1),
        cccdId |-> StringOf(s, 2),
        unknown |-> s.unknown], 0))
MsgCreateIdentity_Range(m) ==
    Populated(1, m.creator # <<>>) \cup Populated(2, m.cccdId # <<>>)

MsgCreateIdentityResponse_size(m) == Len(m.unknown)
MsgCreateIdentityResponse_marshal(m) ==
    Fill(MsgCreateIdentityResponse_size(m), m.unknown)
MsgCreateIdentityResponse_unmarshal(bs) ==
    Then(Scan(<<>>, bs), LAMBDA s :
    Ok([unknown |-> s.unknown], 0))
MsgCreateIdentityResponse_Range(m) == {}

-----------------------------------------------------------------------------
(* query.pulsar.go *)

QueryParamsRequest_size(m) == Len(m.unknown)
QueryParamsRequest_marshal(m) ==
    Fill(QueryParamsRequest_size(m), m.unknown)
QueryParamsRequest_unmarshal(bs) ==
    Then(Scan(<<>>, bs), LAMBDA s :
    Ok([unknown |-> s.unknown], 0))
QueryParamsRequest_Range(m) == {}

QueryParamsResponse_size(m) == MessagesSize(Params_size, m.params) + Len(m.unknown)
QueryParamsResponse_marshal(m) ==
    Fill(QueryParamsResponse_size(m),
         MessagesField(1, Params_marshal, m.params) \o m.unknown)
QueryParamsResponse_unmarshal(bs) ==
    Then(Scan(<<2>>, bs), LAMBDA s :
    Then(Optional(Params_unmarshal, Values(s, 1)), LAMBDA params :
    Ok([params |-> params.v, unknown |-> s.unknown], 0)))
QueryParamsResponse_Range(m) == Populated(1, m.params # <<>>)

QueryGetIdentityRequest_size(m) == StringSize(m.address) + Len(m.unknown)
QueryGetIdentityRequest_marshal(m) ==
    Fill(QueryGetIdentityRequest_size(m), StringField(1, m.address) \o m.unknown)
QueryGetIdentityRequest_unmarshal(bs) ==
    Then(Scan(<<2>>, bs), LAMBDA s :
    Ok([address |-> StringOf(s, 1), unknown |-> s.unknown], 0))
QueryGetIdentityRequest_Range(m) == Populated(1, m.address # <<>>)

QueryGetIdentityResponse_size(m) ==
    MessagesSize(Identity_size, m.identity) + Len(m.unknown)
QueryGetIdentityResponse_marshal(m) ==
    Fill(QueryGetIdentityResponse_size(m),
         MessagesField(1, Identity_marshal, m.identity) \o m.unknown)
QueryGetIdentityResponse_unmarshal(bs) ==
    Then(Scan(<<2>>, bs), LAMBDA s :
    Then(Optional(Identity_unmarshal, Values(s, 1)), LAMBDA identity :
    Ok([identity |-> identity.v, unknown |-> s.unknown], 0)))
QueryGetIdentityResponse_Range(m) == Populated(1, m.identity # <<>>)

QueryAllIdentityRequest_size(m) ==
    MessagesSize(PageRequest_size, m.pagination) + Len(m.unknown)
QueryAllIdentityRequest_marshal(m) ==
    Fill(QueryAllIdentityRequest_size(m),
         MessagesField(1, PageRequest_marshal, m.pagination) \o m.unknown)
QueryAllIdentityRequest_unmarshal(bs) ==
    Then(Scan(<<2>>, bs), LAMBDA s :
    Then(Optional(PageRequest_unmarshal, Values(s, 1)), LAMBDA pagination :
    Ok([pagination |-> pagination.v, unknown |-> s.unknown], 0)))
QueryAllIdentityRequest_Range(m) == Populated(1, m.pagination # <<>>)

QueryAllIdentityResponse_size(m) ==
    MessagesSize(Identity_size, m.identity)
    + MessagesSize(PageResponse_size, m.pagination) + Len(m.unknown)
QueryAllIdentityResponse_marshal(m) ==
    Fill(QueryAllIdentityResponse_size(m),
         MessagesField(1, Identity_marshal, m.identity)
         \o MessagesField(2, PageResponse_marshal, m.pagination) \o m.unknown)
QueryAllIdentityResponse_unmarshal(bs) ==
    Then(Scan(<<2, 2>>, bs), LAMBDA s :
    Then(Each(Identity_unmarshal, Values(s, 1)), LAMBDA identity :
    Then(Optional(PageResponse_unmarshal, Values(s, 2)), LAMBDA pagination :
    Ok([identity |-> identity.v,
        pagination |-> pagination.v,
        unknown |-> s.unknown], 0))))
QueryAllIdentityResponse_Range(m) ==
    Populated(1, m.identity # <<>>) \cup Populated(2, m.pagination # <<>>)

QueryIdentityByCccdIdRequest_size(m) ==
    StringSize(m.idHash) + MessagesSize(PageRequest_size, m.pagination)
    + Len(m.unknown)
QueryIdentityByCccdIdRequest_marshal(m) ==
    Fill(QueryIdentityByCccdIdRequest_size(m),
         StringField(1, m.idHash)
         \o MessagesField(2, PageRequest_marshal, m.pagination) \o m.unknown)
QueryIdentityByCccdIdRequest_unmarshal(bs) ==
    Then(Scan(<<2, 2>>, bs), LAMBDA s :
    Then(Optional(PageRequest_unmarshal, Values(s, 2)), LAMBDA pagination :
    Ok([idHash |-> StringOf(s, 1),
        pagination |-> pagination.v,
        unknown |-> s.unknown], 0)))
QueryIdentityByCccdIdRequest_Range(m) ==
    Populated(1, m.idHash # <<>>) \cup Populated(2, m.pagination # <<>>)

QueryIdentityByCccdIdResponse_size(m) ==
    MessagesSize(Identity_size, m.identity)
    + MessagesSize(PageResponse_size, m.pagination) + Len(m.unknown)
QueryIdentityByCccdIdResponse_marshal(m) ==
    Fill(QueryIdentityByCccdIdResponse_size(m),
         MessagesField(1, Identity_marshal, m.identity)
         \o MessagesField(2, PageResponse_marshal, m.pagination) \o m.unknown)
QueryIdentityByCccdIdResponse_unmarshal(bs) ==
    Then(Scan(<<2, 2>>, bs), LAMBDA s :
    Then(Each(Identity_unmarshal, Values(s, 1)), LAMBDA identity :
    Then(Optional(PageResponse_unmarshal, Values(s, 2)), LAMBDA pagination :
    Ok([identity |-> identity.v,
        pagination |-> pagination.v,
        unknown |-> s.unknown], 0))))
QueryIdentityByCccdIdResponse_Range(m) ==
    Populated(1, m.identity # <<>>) \cup Populated(2, m.pagination # <<>>)

-----------------------------------------------------------------------------
(* module/module.pulsar.go *)

Module_size(m) == StringSize(m.authority) + Len(m.unknown)
Module_marshal(m) ==
    Fill(Module_size(m), StringField(1, m.authority) \o m.unknown)
Module_unmarshal(bs) ==
    Then(Scan(<<2>>, bs), LAMBDA s :
    Ok([authority |-> StringOf(s, 1), unknown |-> s.unknown], 0))
Module_Range(m) == Populated(1, m.authority # <<>>)

-----------------------------------------------------------------------------
(* The methods by the name a type is registered under. *)

marshal(t, m) ==
    CASE t = "Params"                        -> Params_marshal(m)
      [] t = "Identity"                      -> Identity_marshal(m)
      [] t = "GenesisState"                  -> GenesisState_marshal(m)
      [] t = "MsgUpdateParams"               -> MsgUpdateParams_marshal(m)
      [] t = "MsgUpdateParamsResponse"       -> MsgUpdateParamsResponse_marshal(m)
      [] t = "MsgCreateIdentity"             -> MsgCreateIdentity_marshal(m)
      [] t = "MsgCreateIdentityResponse"     -> MsgCreateIdentityResponse_marshal(m)
      [] t = "QueryParamsRequest"            -> QueryParamsRequest_marshal(m)
      [] t = "QueryParamsResponse"           -> QueryParamsResponse_marshal(m)
      [] t = "QueryGetIdentityRequest"       -> QueryGetIdentityRequest_marshal(m)
      [] t = "QueryGetIdentityResponse"      -> QueryGetIdentityResponse_marshal(m)
      [] t = "QueryAllIdentityRequest"       -> QueryAllIdentityRequest_marshal(m)
      [] t = "QueryAllIdentityResponse"      -> QueryAllIdentityResponse_marshal(m)
      [] t = "QueryIdentityByCccdIdRequest"  -> QueryIdentityByCccdIdRequest_marshal(m)
      [] t = "QueryIdentityByCccdIdResponse" -> QueryIdentityByCccdIdResponse_marshal(m)
      [] t = "Module"                        -> Module_marshal(m)

unmarshal(t, bs) ==
    CASE t = "Params"                        -> Params_unmarshal(bs)
      [] t = "Identity"                      -> Identity_unmarshal(bs)
      [] t = "GenesisState"                  -> GenesisState_unmarshal(bs)
      [] t = "MsgUpdateParams"               -> MsgUpdateParams_unmarshal(bs)
      [] t = "MsgUpdateParamsResponse"       -> MsgUpdateParamsResponse_unmarshal(bs)
      [] t = "MsgCreateIdentity"             -> MsgCreateIdentity_unmarshal(bs)
      [] t = "MsgCreateIdentityResponse"     -> MsgCreateIdentityResponse_unmarshal(bs)
      [] t = "QueryParamsRequest"            -> QueryParamsRequest_unmarshal(bs)
      [] t = "QueryParamsResponse"           -> QueryParamsResponse_unmarshal(bs)
      [] t = "QueryGetIdentityRequest"       -> QueryGetIdentityRequest_unmarshal(bs)
      [] t = "QueryGetIdentityResponse"      -> QueryGetIdentityResponse_unmarshal(bs)
      [] t = "QueryAllIdentityRequest"       -> QueryAllIdentityRequest_unmarshal(bs)
      [] t = "QueryAllIdentityResponse"      -> QueryAllIdentityResponse_unmarshal(bs)
      [] t = "QueryIdentityByCccdIdRequest"  -> QueryIdentityByCccdIdRequest_unmarshal(bs)
      [] t = "QueryIdentityByCccdIdResponse" -> QueryIdentityByCccdIdResponse_unmarshal(bs)
      [] t = "Module"                        -> Module_unmarshal(bs)

RangeOf(t, m) ==
    CASE t = "Params"                        -> Params_Range(m)
      [] t = "Identity"                      -> Identity_Range(m)
      [] t = "GenesisState"                  -> GenesisState_Range(m)
      [] t = "MsgUpdateParams"               -> MsgUpdateParams_Range(m)
      [] t = "MsgUpdateParamsResponse"       -> MsgUpdateParamsResponse_Range(m)
      [] t = "MsgCreateIdentity"             -> MsgCreateIdentity_Range(m)
      [] t = "MsgCreateIdentityResponse"     -> MsgCreateIdentityResponse_Range(m)
      [] t = "QueryParamsRequest"            -> QueryParamsRequest_Range(m)
      [] t = "QueryParamsResponse"           -> QueryParamsResponse_Range(m)
      [] t = "QueryGetIdentityRequest"       -> QueryGetIdentityRequest_Range(m)
      [] t = "QueryGetIdentityResponse"      -> QueryGetIdentityResponse_Range(m)
      [] t = "QueryAllIdentityRequest"       -> QueryAllIdentityRequest_Range(m)
      [] t = "QueryAllIdentityResponse"      -> QueryAllIdentityResponse_Range(m)
      [] t = "QueryIdentityByCccdIdRequest"  -> QueryIdentityByCccdIdRequest_Range(m)
      [] t = "QueryIdentityByCccdIdResponse" -> QueryIdentityByCccdIdResponse_Range(m)
      [] t = "Module"                        -> Module_Range(m)
=============================================================================
