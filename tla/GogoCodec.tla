------------------------------ MODULE GogoCodec ------------------------------
(***************************************************************************)
(* The messages of x/identity/types/ *.pb.go: what Size, Marshal and       *)
(* Unmarshal do with the fields of each.  The stored records, the handlers *)
(* and the query server work on these structs.                             *)
(*                                                                         *)
(* A message is a record of its fields: a string is a sequence of bytes, a *)
(* number its value, a pointer a list of at most one message.  What a      *)
(* struct does not know is skipped and gone.                               *)
(***************************************************************************)
EXTENDS Wire

NoFields == <<>>

\* Marshal allocates Size() bytes and returns the first n of them, n being
\* what MarshalToSizedBuffer wrote.
Front(size, body) ==
    LET dAtA == Fill(size, body)
    IN  IF Len(body) <= Len(dAtA) THEN SubSeq(dAtA, 1, Len(body)) ELSE dAtA

-----------------------------------------------------------------------------
(* the SDK (cosmos.base.query.v1beta1): external *)

PageRequest_Size(m) ==
    StringSize(m.key) + VarintSize(m.offset) + VarintSize(m.limit)
    + VarintSize(IF m.countTotal THEN 1 ELSE 0)
    + VarintSize(IF m.reverse THEN 1 ELSE 0)
PageRequest_MarshalToSizedBuffer(m) ==
    StringField(1, m.key) \o VarintField(2, m.offset) \o VarintField(3, m.limit)
    \o VarintField(4, IF m.countTotal THEN 1 ELSE 0)
    \o VarintField(5, IF m.reverse THEN 1 ELSE 0)
PageRequest_Unmarshal(bs) ==
    Then(Scan(<<2, 0, 0, 0, 0>>, bs), LAMBDA s :
    Ok([key |-> StringOf(s, 1),
        offset |-> LastOf(s, 2, 0),
        limit |-> LastOf(s, 3, 0),
        countTotal |-> BoolOf(s, 4),
        reverse |-> BoolOf(s, 5)], 0))

PageResponse_Size(m) == StringSize(m.nextKey) + VarintSize(m.total)
PageResponse_MarshalToSizedBuffer(m) ==
    StringField(1, m.nextKey) \o VarintField(2, m.total)
PageResponse_Unmarshal(bs) ==
    Then(Scan(<<2, 0>>, bs), LAMBDA s :
    Ok([nextKey |-> StringOf(s, 1), total |-> LastOf(s, 2, 0)], 0))

-----------------------------------------------------------------------------
(* params.pb.go *)

Params_Size(m) == 0
Params_MarshalToSizedBuffer(m) == <<>>
Params_Marshal(m) == Front(Params_Size(m), Params_MarshalToSizedBuffer(m))
Params_Unmarshal(bs) ==
    Then(Scan(<<>>, bs), LAMBDA s :
    Ok(NoFields, 0))

-----------------------------------------------------------------------------
(* identity.pb.go *)

Identity_Size(m) ==
    StringSize(m.address) + StringSize(m.idHash) + VarintSize(m.createdAt)
Identity_MarshalToSizedBuffer(m) ==
    StringField(1, m.address) \o StringField(2, m.idHash)
    \o VarintField(3, m.createdAt)
Identity_Marshal(m) == Front(Identity_Size(m), Identity_MarshalToSizedBuffer(m))
Identity_Unmarshal(bs) ==
    Then(Scan(<<2, 2, 0>>, bs), LAMBDA s :
    Ok([address |-> StringOf(s, 1),
        idHash |-> StringOf(s, 2),
        createdAt |-> Int64Of(s, 3)], 0))

-----------------------------------------------------------------------------
(* genesis.pb.go *)

GenesisState_Size(m) ==
    MessagesSize(Params_Size, <<m.params>>)
    + MessagesSize(Identity_Size, m.identityList)
GenesisState_Marshal(m) ==
    Front(GenesisState_Size(m),
          MessagesField(1, Params_MarshalToSizedBuffer, <<m.params>>)
          \o MessagesField(2, Identity_MarshalToSizedBuffer, m.identityList))
GenesisState_Unmarshal(bs) ==
    Then(Scan(<<2, 2>>, bs), LAMBDA s :
    Then(Merged(Params_Unmarshal, Values(s, 1)), LAMBDA params :
    Then(Each(Identity_Unmarshal, Values(s, 2)), LAMBDA identityList :
    Ok([params |-> params.v, identityList |-> identityList.v], 0))))

-----------------------------------------------------------------------------
(* tx.pb.go *)

MsgUpdateParams_Size(m) ==
    StringSize(m.authority) + MessagesSize(Params_Size, <<m.params>>)
MsgUpdateParams_Marshal(m) ==
    Front(MsgUpdateParams_Size(m),
          StringField(1, m.authority)
          \o MessagesField(2, Params_MarshalToSizedBuffer, <<m.params>>))
MsgUpdateParams_Unmarshal(bs) ==
    Then(Scan(<<2, 2>>, bs), LAMBDA s :
    Then(Merged(Params_Unmarshal, Values(s, 2)), LAMBDA params :
    Ok([authority |-> StringOf(s, 1), params |-> params.v], 0)))

MsgUpdateParamsResponse_Size(m) == 0
MsgUpdateParamsResponse_Marshal(m) ==
    Front(MsgUpdateParamsResponse_Size(m), <<>>)
MsgUpdateParamsResponse_Unmarshal(bs) ==
    Then(Scan(<<>>, bs), LAMBDA s :
    Ok(NoFields, 0))

MsgCreateIdentity_Size(m) == StringSize(m.creator) + StringSize(m.cccdId)
MsgCreateIdentity_Marshal(m) ==
    Front(MsgCreateIdentity_Size(m),
          StringField(1, m.creator) \o StringField(2, m.cccdId))
MsgCreateIdentity_Unmarshal(bs) ==
    Then(Scan(<<2, 2>>, bs), LAMBDA s :
    Ok([creator |-> StringOf(s, 1), cccdId |-> StringOf(s, 2)], 0))

MsgCreateIdentityResponse_Size(m) == 0
MsgCreateIdentityResponse_Marshal(m) ==
    Front(MsgCreateIdentityResponse_Size(m), <<>>)
MsgCreateIdentityResponse_Unmarshal(bs) ==
    Then(Scan(<<>>, bs), LAMBDA s :
    Ok(NoFields, 0))

-----------------------------------------------------------------------------
(* query.pb.go *)

QueryParamsRequest_Size(m) == 0
QueryParamsRequest_Marshal(m) ==
    Front(QueryParamsRequest_Size(m), <<>>)
QueryParamsRequest_Unmarshal(bs) ==
    Then(Scan(<<>>, bs), LAMBDA s :
    Ok(NoFields, 0))

QueryParamsResponse_Size(m) == MessagesSize(Params_Size, <<m.params>>)
QueryParamsResponse_Marshal(m) ==
    Front(QueryParamsResponse_Size(m),
          MessagesField(1, Params_MarshalToSizedBuffer, <<m.params>>))
QueryParamsResponse_Unmarshal(bs) ==
    Then(Scan(<<2>>, bs), LAMBDA s :
    Then(Merged(Params_Unmarshal, Values(s, 1)), LAMBDA params :
    Ok([params |-> params.v], 0)))

QueryGetIdentityRequest_Size(m) == StringSize(m.address)
QueryGetIdentityRequest_Marshal(m) ==
    Front(QueryGetIdentityRequest_Size(m), StringField(1, m.address))
QueryGetIdentityRequest_Unmarshal(bs) ==
    Then(Scan(<<2>>, bs), LAMBDA s :
    Ok([address |-> StringOf(s, 1)], 0))

QueryGetIdentityResponse_Size(m) == MessagesSize(Identity_Size, <<m.identity>>)
QueryGetIdentityResponse_Marshal(m) ==
    Front(QueryGetIdentityResponse_Size(m),
          MessagesField(1, Identity_MarshalToSizedBuffer, <<m.identity>>))
QueryGetIdentityResponse_Unmarshal(bs) ==
    Then(Scan(<<2>>, bs), LAMBDA s :
    Then(Merged(Identity_Unmarshal, Values(s, 1)), LAMBDA identity :
    Ok([identity |-> identity.v], 0)))

QueryAllIdentityRequest_Size(m) == MessagesSize(PageRequest_Size, m.pagination)
QueryAllIdentityRequest_Marshal(m) ==
    Front(QueryAllIdentityRequest_Size(m),
          MessagesField(1, PageRequest_MarshalToSizedBuffer, m.pagination))
QueryAllIdentityRequest_Unmarshal(bs) ==
    Then(Scan(<<2>>, bs), LAMBDA s :
    Then(Optional(PageRequest_Unmarshal, Values(s, 1)), LAMBDA pagination :
    Ok([pagination |-> pagination.v], 0)))

QueryAllIdentityResponse_Size(m) ==
    MessagesSize(Identity_Size, m.identity)
    + MessagesSize(PageResponse_Size, m.pagination)
QueryAllIdentityResponse_Marshal(m) ==
    Front(QueryAllIdentityResponse_Size(m),
          MessagesField(1, Identity_MarshalToSizedBuffer, m.identity)
          \o MessagesField(2, PageResponse_MarshalToSizedBuffer, m.pagination))
QueryAllIdentityResponse_Unmarshal(bs) ==
    Then(Scan(<<2, 2>>, bs), LAMBDA s :
    Then(Each(Identity_Unmarshal, Values(s, 1)), LAMBDA identity :
    Then(Optional(PageResponse_Unmarshal, Values(s, 2)), LAMBDA pagination :
    Ok([identity |-> identity.v, pagination |-> pagination.v], 0))))

QueryIdentityByCccdIdRequest_Size(m) ==
    StringSize(m.idHash) + MessagesSize(PageRequest_Size, m.pagination)
QueryIdentityByCccdIdRequest_Marshal(m) ==
    Front(QueryIdentityByCccdIdRequest_Size(m),
          StringField(1, m.idHash)
          \o MessagesField(2, PageRequest_MarshalToSizedBuffer, m.pagination))
QueryIdentityByCccdIdRequest_Unmarshal(bs) ==
    Then(Scan(<<2, 2>>, bs), LAMBDA s :
    Then(Optional(PageRequest_Unmarshal, Values(s, 2)), LAMBDA pagination :
    Ok([idHash |-> StringOf(s, 1), pagination |-> pagination.v], 0)))

QueryIdentityByCccdIdResponse_Size(m) ==
    MessagesSize(Identity_Size, m.identity)
    + MessagesSize(PageResponse_Size, m.pagination)
QueryIdentityByCccdIdResponse_Marshal(m) ==
    Front(QueryIdentityByCccdIdResponse_Size(m),
          MessagesField(1, Identity_MarshalToSizedBuffer, m.identity)
          \o MessagesField(2, PageResponse_MarshalToSizedBuffer, m.pagination))
QueryIdentityByCccdIdResponse_Unmarshal(bs) ==
    Then(Scan(<<2, 2>>, bs), LAMBDA s :
    Then(Each(Identity_Unmarshal, Values(s, 1)), LAMBDA identity :
    Then(Optional(PageResponse_Unmarshal, Values(s, 2)), LAMBDA pagination :
    Ok([identity |-> identity.v, pagination |-> pagination.v], 0))))

-----------------------------------------------------------------------------
(* The methods by the name a type is registered under. *)

GogoTypes == {"Params",
              "Identity",
              "GenesisState",
              "MsgUpdateParams",
              "MsgUpdateParamsResponse",
              "MsgCreateIdentity",
              "MsgCreateIdentityResponse",
              "QueryParamsRequest",
              "QueryParamsResponse",
              "QueryGetIdentityRequest",
              "QueryGetIdentityResponse",
              "QueryAllIdentityRequest",
              "QueryAllIdentityResponse",
              "QueryIdentityByCccdIdRequest",
              "QueryIdentityByCccdIdResponse"}

Marshal(t, m) ==
    CASE t = "Params"                        -> Params_Marshal(m)
      [] t = "Identity"                      -> Identity_Marshal(m)
      [] t = "GenesisState"                  -> GenesisState_Marshal(m)
      [] t = "MsgUpdateParams"               -> MsgUpdateParams_Marshal(m)
      [] t = "MsgUpdateParamsResponse"       -> MsgUpdateParamsResponse_Marshal(m)
      [] t = "MsgCreateIdentity"             -> MsgCreateIdentity_Marshal(m)
      [] t = "MsgCreateIdentityResponse"     -> MsgCreateIdentityResponse_Marshal(m)
      [] t = "QueryParamsRequest"            -> QueryParamsRequest_Marshal(m)
      [] t = "QueryParamsResponse"           -> QueryParamsResponse_Marshal(m)
      [] t = "QueryGetIdentityRequest"       -> QueryGetIdentityRequest_Marshal(m)
      [] t = "QueryGetIdentityResponse"      -> QueryGetIdentityResponse_Marshal(m)
      [] t = "QueryAllIdentityRequest"       -> QueryAllIdentityRequest_Marshal(m)
      [] t = "QueryAllIdentityResponse"      -> QueryAllIdentityResponse_Marshal(m)
      [] t = "QueryIdentityByCccdIdRequest"  -> QueryIdentityByCccdIdRequest_Marshal(m)
      [] t = "QueryIdentityByCccdIdResponse" -> QueryIdentityByCccdIdResponse_Marshal(m)

Unmarshal(t, bs) ==
    CASE t = "Params"                        -> Params_Unmarshal(bs)
      [] t = "Identity"                      -> Identity_Unmarshal(bs)
      [] t = "GenesisState"                  -> GenesisState_Unmarshal(bs)
      [] t = "MsgUpdateParams"               -> MsgUpdateParams_Unmarshal(bs)
      [] t = "MsgUpdateParamsResponse"       -> MsgUpdateParamsResponse_Unmarshal(bs)
      [] t = "MsgCreateIdentity"             -> MsgCreateIdentity_Unmarshal(bs)
      [] t = "MsgCreateIdentityResponse"     -> MsgCreateIdentityResponse_Unmarshal(bs)
      [] t = "QueryParamsRequest"            -> QueryParamsRequest_Unmarshal(bs)
      [] t = "QueryParamsResponse"           -> QueryParamsResponse_Unmarshal(bs)
      [] t = "QueryGetIdentityRequest"       -> QueryGetIdentityRequest_Unmarshal(bs)
      [] t = "QueryGetIdentityResponse"      -> QueryGetIdentityResponse_Unmarshal(bs)
      [] t = "QueryAllIdentityRequest"       -> QueryAllIdentityRequest_Unmarshal(bs)
      [] t = "QueryAllIdentityResponse"      -> QueryAllIdentityResponse_Unmarshal(bs)
      [] t = "QueryIdentityByCccdIdRequest"  -> QueryIdentityByCccdIdRequest_Unmarshal(bs)
      [] t = "QueryIdentityByCccdIdResponse" -> QueryIdentityByCccdIdResponse_Unmarshal(bs)
=============================================================================
