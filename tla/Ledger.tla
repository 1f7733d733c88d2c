------------------------------- MODULE Ledger -------------------------------
(***************************************************************************)
(* The state a transaction can read and write, and what the two stages of  *)
(* its execution do to it: the ante chain assembled by NewAnteHandler, and *)
(* the message handlers.  Auth, bank, vesting, feegrant and IBC come from  *)
(* libraries and are modelled by what this application relies on.  Amounts *)
(* are counted in one unit; every transfer moves one unit per recipient.   *)
(***************************************************************************)
EXTENDS IdentityGate

CONSTANTS
  NoAddress,  \* an address field of a transaction that is left empty
  PacketMsg,  \* the message an interchain-accounts packet carries
  PacketFrom  \* the interchain account on whose behalf it is executed

ASSUME NoAddressAssumption == NoAddress \notin Address

ASSUME PacketAssumption ==
  /\ PacketMsg \in [Packet -> PlainMsg]
  /\ PacketFrom \in [Packet -> Address]

AppState ==
  [ids      : Store,             \* x/identity
   accts    : SUBSET Address,    \* x/auth: the accounts that exist
   seq      : [Address -> Nat],  \* x/auth: their sequence numbers
   bal      : [Address -> Nat],  \* x/bank
   fees     : Nat,               \* x/bank: balance of the fee collector
   grants   : SUBSET (Address \X Address),  \* x/feegrant: allowances, <<granter, grantee>>
   received : SUBSET Packet]     \* IBC: packets with a receipt

NoState ==
  [ids |-> EmptyStore, accts |-> {}, seq |-> [a \in Address |-> 0],
   bal |-> [a \in Address |-> 0], fees |-> 0, grants |-> {}, received |-> {}]

(* The signer that the message's proto annotation names.                   *)
SignerOf(m) ==
  CASE m.kind = "create"                    -> m.creator
    [] m.kind = "params"                    -> m.authority
    [] m.kind = "recv"                      -> m.signer
    [] m.kind \in {"send", "multi", "vest"} -> m.from
    [] m.kind \in {"grant", "revoke"}       -> m.granter
    [] OTHER                                -> m.actor

(* A transaction: its messages, its fee, the fee payer and the fee granter *)
(* it may name, and for each signer the sequence number signed over (0 for *)
(* the others).                                                            *)
Tx == [msgs : Seq(Msg) \ {<<>>}, fee : Nat, payer : Address \cup {NoAddress},
       granter : Address \cup {NoAddress}, nonce : [Address -> Nat]]

(* A payer that is named has to sign as well.                              *)
TxSigners(tx) ==
  {SignerOf(tx.msgs[i]) : i \in DOMAIN tx.msgs} \cup ({tx.payer} \ {NoAddress})

FeePayer(tx) == IF tx.payer = NoAddress THEN SignerOf(tx.msgs[1]) ELSE tx.payer

(* The account the fee is taken from.                                      *)
Charged(tx) == IF tx.granter = NoAddress THEN FeePayer(tx) ELSE tx.granter

(* Somebody else's account is charged only if he has allowed it.           *)
MayCharge(s, tx) ==
  Charged(tx) = FeePayer(tx) \/ <<Charged(tx), FeePayer(tx)>> \in s.grants

-----------------------------------------------------------------------------
(* The decorators in the order of NewAnteHandler; the first that objects   *)
(* decides, and the branch they wrote to is then dropped.                  *)

ValidateBasic(tx) ==
  \A i \in DOMAIN tx.msgs : tx.msgs[i].kind = "create" => ValidCreate(tx.msgs[i])

(* Mutant: the balance is not looked at.                                   *)
CanPayFee_AnyBalance(s, tx) == MayCharge(s, tx) /\ Charged(tx) \in s.accts

CanPayFee(s, tx) ==
  MayCharge(s, tx) /\ Charged(tx) \in s.accts /\ s.bal[Charged(tx)] >= tx.fee

SequencesMatch(s, tx) ==
  \A a \in TxSigners(tx) : a \in s.accts /\ tx.nonce[a] = s.seq[a]

DeductFee(s, tx) ==
  [s EXCEPT !.bal[Charged(tx)] = @ - tx.fee, !.fees = @ + tx.fee]

IncrementSequence(s, tx) ==
  [s EXCEPT !.seq = [a \in Address |->
                       IF a \in TxSigners(tx) THEN @[a] + 1 ELSE @[a]]]

AnteCode(s, tx, height) ==
  CASE ~ValidateBasic(tx)                          -> "basic"
    [] ValidateBasic(tx) /\ ~CanPayFee(s, tx)      -> "fee"
    [] /\ ValidateBasic(tx) /\ CanPayFee(s, tx)
       /\ ~SequencesMatch(s, tx)                   -> "sequence"
    [] /\ ValidateBasic(tx) /\ CanPayFee(s, tx)
       /\ SequencesMatch(s, tx)
       /\ ~IdentityVerified(s.ids, tx.msgs, height) -> "identity"
    [] OTHER                                       -> "ok"

(* Mutant: the sequence number is not written back.                        *)
AfterAnte_SameSequence(s, tx) == DeductFee(s, tx)

AfterAnte(s, tx) == IncrementSequence(DeductFee(s, tx), tx)

-----------------------------------------------------------------------------
(* Message handlers, as a guard and a next state.  now is the local clock. *)

(* Mutant: the sender's own output is lost.                                *)
Transfer_LosesSelf(s, from, tos) ==
  [s EXCEPT
     !.bal = [a \in Address |->
                IF a = from THEN @[a] - Cardinality(tos)
                ELSE @[a] + (IF a \in tos THEN 1 ELSE 0)],
     !.accts = @ \cup tos]

Transfer(s, from, tos) ==
  [s EXCEPT
     !.bal = [a \in Address |->
                IF a = from
                THEN @[a] - Cardinality(tos) + (IF a \in tos THEN 1 ELSE 0)
                ELSE @[a] + (IF a \in tos THEN 1 ELSE 0)],
     !.accts = @ \cup tos]

MsgOk(s, m) ==
  CASE m.kind = "create" -> CreateIdentityOk(s.ids, m)
    [] m.kind = "params" -> UpdateParamsOk(m)
    [] m.kind = "send"   -> s.bal[m.from] >= 1
    [] m.kind = "multi"  -> m.tos # {} /\ s.bal[m.from] >= Cardinality(m.tos)
    [] m.kind = "vest"   -> m.to \notin s.accts /\ s.bal[m.from] >= 1
    [] m.kind = "grant"  -> m.granter # m.grantee /\ <<m.granter, m.grantee>> \notin s.grants
    [] m.kind = "revoke" -> m.granter # m.grantee /\ <<m.granter, m.grantee>> \in s.grants
    [] OTHER             -> TRUE

AfterMsg(s, m, now) ==
  CASE m.kind = "create"           -> [s EXCEPT !.ids = CreateIdentity(@, m, now)]
    [] m.kind \in {"send", "vest"} -> Transfer(s, m.from, {m.to})
    [] m.kind = "multi"            -> Transfer(s, m.from, m.tos)
    [] m.kind = "grant"  -> [s EXCEPT !.grants = @ \cup {<<m.granter, m.grantee>>},
                                      !.accts = @ \cup {m.grantee}]
    [] m.kind = "revoke" -> [s EXCEPT !.grants = @ \ {<<m.granter, m.grantee>>}]
    [] OTHER             -> s

(* MsgRecvPacket: a packet that has a receipt is a no-op; otherwise the    *)
(* host runs the message it carries through the message router, where no   *)
(* ante handler stands, and drops its effects if it fails.                 *)
PacketAccepted(s, p) ==
  LET m == PacketMsg[p]
  IN  /\ SignerOf(m) = PacketFrom[p]
      /\ m.kind = "create" => ValidCreate(m)
      /\ MsgOk(s, m)

(* Mutant: the receipt is written and never looked for.                    *)
Receive_NoReceipt(s, p, now) ==
  LET t == [s EXCEPT !.received = @ \cup {p}]
  IN  IF PacketAccepted(s, p) THEN AfterMsg(t, PacketMsg[p], now) ELSE t

Receive(s, p, now) ==
  LET t == [s EXCEPT !.received = @ \cup {p}]
  IN  CASE p \in s.received                          -> s
        [] p \notin s.received /\ PacketAccepted(s, p) ->
             AfterMsg(t, PacketMsg[p], now)
        [] OTHER                                     -> t

HandlerOk(s, m) == m.kind = "recv" \/ MsgOk(s, m)

AfterHandler(s, m, now) ==
  IF m.kind = "recv" THEN Receive(s, m.packet, now) ELSE AfterMsg(s, m, now)

=============================================================================
