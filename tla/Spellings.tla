------------------------------ MODULE Spellings ------------------------------
(***************************************************************************)
(* One account has more than one bech32 string: all letters small, or all  *)
(* of them capital.  A signature is checked for the account, and the gate  *)
(* looks its identity up under signer.String(), the small spelling;        *)
(* CreateIdentity reads and writes the store under the string the message  *)
(* carries.  Here Identity's Address is the set of strings.                *)
(***************************************************************************)
EXTENDS Identity

CONSTANTS
  Account,
  Small, Capital  \* [Account -> Address]: the two strings of an account;
                  \* together they are Address, and no two are equal

VARIABLE store  \* identity records by string

AccountOf(address) == CHOOSE a \in Account : address \in {Small[a], Capital[a]}

(* The gate on the signer of a message.                                    *)
SenderVerified(address) == Found(store, Small[AccountOf(address)])

(* The genesis document, with small strings as tools write them.           *)
Init ==
  store \in {InitGenesis(list) :
               list \in {<<>>} \cup {<<NewIdentity(m, now)>> :
                           m \in {c \in CreateIdentityMsg : \E a \in Account : c.creator = Small[a]},
                           now \in Time}}

(* A transaction with one MsgCreateIdentity.                               *)
CreateIdentityTx(m, now) ==
  /\ ValidCreate(m)
  /\ SenderVerified(m.creator)
  /\ CreateIdentityOk(store, m)
  /\ store' = CreateIdentity(store, m, now)

Next == \E m \in CreateIdentityMsg, now \in Time : CreateIdentityTx(m, now)

Spec == Init /\ [][Next]_store

-----------------------------------------------------------------------------
(* "1 địa chỉ = 1 định danh": an account holds one identity.  The lookup   *)
(* in CreateIdentity compares strings, so that a registered account        *)
(* registers again in capitals, with another card number if it likes.      *)
OneIdentityPerAddress ==
  \A a, b \in Registered(store) : AccountOf(a) = AccountOf(b) => a = b

=============================================================================
