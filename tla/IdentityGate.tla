---------------------------- MODULE IdentityGate ----------------------------
(***************************************************************************)
(* app/ante/ante.go: the decorator that lets a transaction through only    *)
(* when the parties of its messages have an identity.  A message is        *)
(* classified by what the decorator can find out about it: how it extracts *)
(* the signers, and whether it knows a recipient.                          *)
(***************************************************************************)
EXTENDS Identity

CONSTANT Packet  \* packets relayed to the interchain-accounts host

SendMsg == [kind : {"send"}, from : Address, to : Address]

MultiSendMsg == [kind : {"multi"}, from : Address, tos : SUBSET Address]

(* A message with a FromAddress field that is no bank message.             *)
VestMsg == [kind : {"vest"}, from : Address, to : Address]

(* A message whose signer sits in a field the decorator does not look at:  *)
(* DelegatorAddress, Voter, Proposer, Sender, ...                          *)
OtherMsg == [kind : {"other"}, actor : Address]

(* x/feegrant: the granter allows the grantee to have its fees charged to  *)
(* him, or takes that back.  The signer sits in Granter.                   *)
AllowanceMsg == [kind : {"grant", "revoke"}, granter : Address, grantee : Address]

(* MsgRecvPacket: a relayer, in Signer, hands over a packet.               *)
RecvMsg == [kind : {"recv"}, signer : Address, packet : Packet]

IdentityMsg == CreateIdentityMsg \cup ParamsMsg

PlainMsg ==
  IdentityMsg \cup SendMsg \cup MultiSendMsg \cup VestMsg \cup OtherMsg
              \cup AllowanceMsg

Msg == PlainMsg \cup RecvMsg

-----------------------------------------------------------------------------
(* Names under which the message types are registered: the proto package   *)
(* of the identity module is "nexelra.identity".                           *)
MsgTypeURL(m) ==
  CASE m.kind = "create" -> "/nexelra.identity.MsgCreateIdentity"
    [] m.kind = "params" -> "/nexelra.identity.MsgUpdateParams"
    [] m.kind = "send"   -> "/cosmos.bank.v1beta1.MsgSend"
    [] m.kind = "multi"  -> "/cosmos.bank.v1beta1.MsgMultiSend"
    [] m.kind = "vest"   -> "/cosmos.vesting.v1beta1.MsgCreateVestingAccount"
    [] m.kind = "recv"   -> "/ibc.core.channel.v1.MsgRecvPacket"
    [] OTHER             -> "other"

(* The table of isIdentityModuleMsg; lookups are case sensitive.           *)
(* Mutant: the names as they are registered.                               *)
IdentityMsgTypes_Registered ==
  {"/nexelra.identity.MsgCreateIdentity", "/nexelra.identity.MsgUpdateParams"}

IdentityMsgTypes ==
  {"/Nexelra.identity.MsgCreateIdentity", "/Nexelra.identity.MsgUpdateParams"}

IsIdentityModuleMsg(m) == MsgTypeURL(m) \in IdentityMsgTypes

(* GetSigners(), the two bank cases, then the fields Creator, Signer and   *)
(* FromAddress by reflection; {} when all of that finds nothing.           *)
GateSigners(m) ==
  CASE m.kind = "create"                    -> {m.creator}
    [] m.kind = "recv"                      -> {m.signer}
    [] m.kind \in {"send", "multi", "vest"} -> {m.from}
    [] OTHER                                -> {}

(* Mutant: the outputs of a multi-send are forgotten.                      *)
GateRecipients_SendOnly(m) == IF m.kind = "send" THEN {m.to} ELSE {}

(* extractRecipients: only the two bank messages have any.                 *)
GateRecipients(m) ==
  CASE m.kind = "send"  -> {m.to}
    [] m.kind = "multi" -> m.tos
    [] OTHER            -> {}

MsgVerified(st, m) ==
  \/ IsIdentityModuleMsg(m)
  \/ /\ GateSigners(m) # {}
     /\ GateSigners(m) \cup GateRecipients(m) \subseteq Registered(st)

(* Mutants: the loop returns after its first message; genesis is no        *)
(* exception.                                                              *)
IdentityVerified_FirstMsg(st, msgs, height) ==
  height = 0 \/ MsgVerified(st, msgs[1])

IdentityVerified_Always(st, msgs, height) ==
  \A i \in DOMAIN msgs : MsgVerified(st, msgs[i])

(* AnteHandle: every message is judged against the same store, the one     *)
(* before the transaction.  Nothing is asked at height 0.                  *)
IdentityVerified(st, msgs, height) ==
  height = 0 \/ \A i \in DOMAIN msgs : MsgVerified(st, msgs[i])

=============================================================================
