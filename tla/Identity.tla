------------------------------ MODULE Identity ------------------------------
(***************************************************************************)
(* The x/identity module: the key-value store under "Identity/value/", the *)
(* message server and the genesis functions.  The store is a function from *)
(* addresses to identity records, NoIdentity standing for a missing key.   *)
(* Everything here is an operator on such a store; the modules that        *)
(* execute blocks decide when the operators run.                           *)
(***************************************************************************)
EXTENDS Naturals, Sequences, FiniteSets

CONSTANTS
  Address,      \* bech32 addresses
  Cccd,         \* citizen card numbers that a message may carry
  EmptyCccd,    \* the empty string, one of them
  Time,         \* readings of the local clock, in seconds
  NoIdentity,   \* result of a lookup that finds nothing
  GovAuthority  \* the authority the keeper was built with

ASSUME AddressAssumption == IsFiniteSet(Address)

ASSUME EmptyCccdAssumption == EmptyCccd \in Cccd

(* hex(sha256(cccd)): equal only for equal inputs, never the input itself. *)
Sha256Hex(cccd) == <<"sha256", cccd>>

IdHash == {Sha256Hex(c) : c \in Cccd}

IdentityRecord == [address : Address, idHash : IdHash, createdAt : Time]

ASSUME NoIdentityAssumption == NoIdentity \notin IdentityRecord

(* Every record sits under the key made from its own address.              *)
Store ==
  {st \in [Address -> IdentityRecord \cup {NoIdentity}] :
     \A a \in Address : st[a] # NoIdentity => st[a].address = a}

EmptyStore == [a \in Address |-> NoIdentity]

-----------------------------------------------------------------------------
(* Keeper.                                                                 *)

SetIdentity(st, identity) == [st EXCEPT ![identity.address] = identity]

Found(st, a) == st[a] # NoIdentity

Registered(st) == {a \in Address : Found(st, a)}

-----------------------------------------------------------------------------
(* Message server.  now is what time.Now().Unix() returned on this node.   *)

CreateIdentityMsg == [kind : {"create"}, creator : Address, cccd : Cccd]

ParamsMsg == [kind : {"params"}, authority : Address]

(* MsgCreateIdentity.ValidateBasic                                         *)
ValidCreate(m) == m.cccd # EmptyCccd

(* Mutant: the card number itself is stored.                               *)
NewIdentity_PlainCccd(m, now) ==
  [address |-> m.creator, idHash |-> m.cccd, createdAt |-> now]

NewIdentity(m, now) ==
  [address |-> m.creator, idHash |-> Sha256Hex(m.cccd), createdAt |-> now]

(* Mutant: the lookup before the write is missing.                         *)
CreateIdentityOk_NoLookup(st, m) == TRUE

CreateIdentityOk(st, m) == ~Found(st, m.creator)

CreateIdentity(st, m, now) == SetIdentity(st, NewIdentity(m, now))

(* The parameter set has no fields: a successful update changes nothing.   *)
UpdateParamsOk(m) == m.authority = GovAuthority

-----------------------------------------------------------------------------
(* Genesis.                                                                *)

(* GenesisState.Validate: no address twice.  Only the CLI calls it.        *)
ValidGenesis(list) ==
  \A i, j \in DOMAIN list : list[i].address = list[j].address => i = j

(* The loop of InitGenesis: one SetIdentity per element, so that of two    *)
(* elements with one address the later one stays.                          *)
InitGenesis(list) ==
  [a \in Address |->
     LET at == {i \in DOMAIN list : list[i].address = a}
     IN  IF at = {} THEN NoIdentity
         ELSE list[CHOOSE i \in at : \A j \in at : j <= i]]

(* InitGenesis on a store that is not empty any more.                      *)
ImportInto(st, list) ==
  LET new == InitGenesis(list)
  IN  [a \in Address |-> IF Found(new, a) THEN new[a] ELSE st[a]]

(* GetAllIdentity as a list: every record once, in the order of the keys,  *)
(* of which nothing is said here.                                          *)
ExportGenesis(st) ==
  LET S == Registered(st)
  IN  CHOOSE list \in [1 .. Cardinality(S) -> {st[a] : a \in S}] :
        \A a \in S : \E i \in DOMAIN list : list[i] = st[a]

=============================================================================
