----------------------------- MODULE NodeProofs -----------------------------
(***************************************************************************)
(* Theorems about Node, for every set of addresses, messages and genesis   *)
(* documents and every bound, with the lemmas on the operators of Ledger   *)
(* that they need: what the stages of a transaction do to a state. The     *)
(* properties speak of committed states and of whole transactions; the     *)
(* inductive invariant adds what holds in between: of the branch on which  *)
(* messages run (BranchInv), of the check state (PoolInv), and of what     *)
(* every copy of the state is worth (MoneyInv).                            *)
(***************************************************************************)
EXTENDS Node, DataInduction

-----------------------------------------------------------------------------
(* What the stages of a transaction do to a well-formed state.             *)

(* A message has a signer, and the fields of its kind.                     *)
LEMMA MsgFields ==
  ASSUME NEW m \in Msg
  PROVE  /\ m.kind = "create" => m.creator \in Address /\ m.cccd \in Cccd
         /\ m.kind \in {"send", "vest"} => m.from \in Address /\ m.to \in Address
         /\ m.kind = "multi" => m.from \in Address /\ m.tos \in SUBSET Address
         /\ m.kind \in {"grant", "revoke"} => m.granter \in Address /\ m.grantee \in Address
         /\ m.kind = "recv" => m.signer \in Address /\ m.packet \in Packet
         /\ m.kind # "recv" => m \in PlainMsg
         /\ SignerOf(m) \in Address
  BY DEF Msg, PlainMsg, IdentityMsg, CreateIdentityMsg, ParamsMsg, SendMsg,
         MultiSendMsg, VestMsg, OtherMsg, AllowanceMsg, RecvMsg, SignerOf

(* The first message exists, so somebody pays the fee, and has signed.     *)
LEMMA TxFields ==
  ASSUME NEW tx \in Tx
  PROVE  /\ tx.msgs \in Seq(Msg) /\ Len(tx.msgs) \in Nat \ {0}
         /\ \A i \in 1 .. Len(tx.msgs) : tx.msgs[i] \in Msg
         /\ FeePayer(tx) \in Address /\ Charged(tx) \in Address
         /\ FeePayer(tx) \in TxSigners(tx)
         /\ TxSigners(tx) \subseteq Address
         /\ tx.fee \in Nat
<1>1. /\ tx.msgs \in Seq(Msg) /\ tx.msgs # <<>> /\ tx.fee \in Nat
      /\ tx.payer \in Address \cup {NoAddress} /\ tx.granter \in Address \cup {NoAddress}
  BY DEF Tx
<1>2. Len(tx.msgs) \in Nat \ {0}
  BY <1>1
<1>3. \A i \in 1 .. Len(tx.msgs) : tx.msgs[i] \in Msg
  BY <1>1
<1>4. DOMAIN tx.msgs = 1 .. Len(tx.msgs)
  BY <1>1
<1>5. \A i \in DOMAIN tx.msgs : SignerOf(tx.msgs[i]) \in Address
  BY <1>3, <1>4, MsgFields
<1>6. 1 \in DOMAIN tx.msgs
  BY <1>2, <1>4
<1>7. FeePayer(tx) \in Address /\ FeePayer(tx) \in TxSigners(tx)
  BY <1>1, <1>5, <1>6 DEF FeePayer, TxSigners
<1> QED
  BY <1>1, <1>2, <1>3, <1>5, <1>7 DEF Charged, TxSigners

(* The ante chain keeps a state well formed when whoever pays has the fee. *)
LEMMA AfterAnteType ==
  ASSUME NEW s \in AppState, NEW tx \in Tx, CanPayFee(s, tx)
  PROVE  /\ AfterAnte(s, tx) \in AppState
         /\ AfterAnte(s, tx).ids = s.ids
<1>1. Charged(tx) \in Address /\ tx.fee \in Nat
  BY TxFields
<1>2. s.bal \in [Address -> Nat] /\ s.fees \in Nat /\ s.seq \in [Address -> Nat]
  BY DEF AppState
<1>3. s.bal[Charged(tx)] - tx.fee \in Nat
  BY <1>1, <1>2 DEF CanPayFee
<1>4. [s.bal EXCEPT ![Charged(tx)] = @ - tx.fee] \in [Address -> Nat]
  BY <1>1, <1>2, <1>3
<1>5. [a \in Address |-> IF a \in TxSigners(tx) THEN s.seq[a] + 1 ELSE s.seq[a]]
        \in [Address -> Nat]
  BY <1>2
<1> DEFINE d == DeductFee(s, tx)
<1> DEFINE b == [s.bal EXCEPT ![Charged(tx)] = @ - tx.fee]
<1>6. d \in AppState /\ d.ids = s.ids /\ d.seq = s.seq
  <2>1. d = [s EXCEPT !.bal = b, !.fees = s.fees + tx.fee]
    BY DEF DeductFee
  <2>2. b \in [Address -> Nat] /\ s.fees + tx.fee \in Nat
    BY <1>1, <1>2, <1>4
  <2> HIDE DEF b, d
  <2> QED
    BY <2>1, <2>2 DEF AppState
<1>7. AfterAnte(s, tx) =
        [d EXCEPT !.seq = [a \in Address |-> IF a \in TxSigners(tx)
                                             THEN d.seq[a] + 1 ELSE d.seq[a]]]
  BY DEF AfterAnte, IncrementSequence
<1> HIDE DEF d
<1> QED
  BY <1>5, <1>6, <1>7 DEF AppState

(* A transfer that the sender can afford keeps a state well formed.        *)
LEMMA TransferType ==
  ASSUME NEW s \in AppState, NEW from \in Address, NEW tos \in SUBSET Address,
         s.bal[from] >= Cardinality(tos)
  PROVE  /\ Transfer(s, from, tos) \in AppState
         /\ Transfer(s, from, tos).ids = s.ids
<1>1. Cardinality(tos) \in Nat
  BY AddressAssumption, FS_Subset, FS_CardinalityType
<1>2. s.bal \in [Address -> Nat] /\ s.accts \in SUBSET Address
  BY DEF AppState
<1>3. \A a \in Address :
        (IF a = from
         THEN s.bal[a] - Cardinality(tos) + (IF a \in tos THEN 1 ELSE 0)
         ELSE s.bal[a] + (IF a \in tos THEN 1 ELSE 0)) \in Nat
  BY <1>1, <1>2
<1> QED
  BY <1>2, <1>3 DEF Transfer, AppState

(* The money a message needs is the number of its recipients.              *)
LEMMA SingleRecipient ==
  ASSUME NEW a
  PROVE  Cardinality({a}) = 1
  BY FS_Singleton

(* Filling in an address keeps every record under its own address.         *)
LEMMA CreateType ==
  ASSUME NEW st \in Store, NEW m, m.creator \in Address, m.cccd \in Cccd,
         NEW now \in Time
  PROVE  CreateIdentity(st, m, now) \in Store
  BY DEF CreateIdentity, SetIdentity, NewIdentity, Store, IdentityRecord,
         Sha256Hex, IdHash

(* A message handler that succeeds keeps a state well formed.              *)
LEMMA AfterMsgType ==
  ASSUME NEW s \in AppState, NEW m \in PlainMsg, NEW now \in Time, MsgOk(s, m)
  PROVE  AfterMsg(s, m, now) \in AppState
<1>0. m \in Msg
  BY DEF Msg
<1>1. CASE m.kind = "create"
  <2>1. CreateIdentity(s.ids, m, now) \in Store
    BY <1>0, <1>1, MsgFields, CreateType DEF AppState
  <2>2. AfterMsg(s, m, now) = [s EXCEPT !.ids = CreateIdentity(s.ids, m, now)]
    BY <1>1 DEF AfterMsg
  <2> QED
    BY <2>1, <2>2 DEF AppState
<1>2. CASE m.kind \in {"send", "vest"}
  <2>1. AfterMsg(s, m, now) = Transfer(s, m.from, {m.to})
    BY <1>2 DEF AfterMsg
  <2>2. s.bal[m.from] >= Cardinality({m.to})
    BY <1>2, SingleRecipient DEF MsgOk
  <2> QED
    BY <1>0, <1>2, <2>1, <2>2, MsgFields, TransferType
<1>3. CASE m.kind = "multi"
  <2>1. AfterMsg(s, m, now) = Transfer(s, m.from, m.tos)
    BY <1>3 DEF AfterMsg
  <2>2. s.bal[m.from] >= Cardinality(m.tos)
    BY <1>3 DEF MsgOk
  <2> QED
    BY <1>0, <1>3, <2>1, <2>2, MsgFields, TransferType
<1>4. CASE m.kind \in {"grant", "revoke"}
  <2> DEFINE g == <<m.granter, m.grantee>>
  <2>1. g \in Address \X Address /\ m.grantee \in Address
    BY <1>0, <1>4, MsgFields
  <2>2. \E G \in SUBSET (Address \X Address) : \E A \in SUBSET Address :
          AfterMsg(s, m, now) = [s EXCEPT !.grants = G, !.accts = A]
    <3>1. s.grants \in SUBSET (Address \X Address) /\ s.accts \in SUBSET Address
      BY DEF AppState
    <3>2. CASE m.kind = "grant"
      <4>1. AfterMsg(s, m, now) =
              [s EXCEPT !.grants = s.grants \cup {g}, !.accts = s.accts \cup {m.grantee}]
        BY <3>2 DEF AfterMsg
      <4>2. /\ s.grants \cup {g} \in SUBSET (Address \X Address)
            /\ s.accts \cup {m.grantee} \in SUBSET Address
        BY <2>1, <3>1
      <4> QED
        BY <4>1, <4>2
    <3>3. CASE m.kind = "revoke"
      <4>1. AfterMsg(s, m, now) = [s EXCEPT !.grants = s.grants \ {g}]
        BY <3>3 DEF AfterMsg
      <4>2. [s EXCEPT !.grants = s.grants \ {g}]
              = [s EXCEPT !.grants = s.grants \ {g}, !.accts = s.accts]
        BY DEF AppState
      <4>3. s.grants \ {g} \in SUBSET (Address \X Address)
        BY <3>1
      <4> QED
        BY <3>1, <4>1, <4>2, <4>3
    <3> QED
      BY <1>4, <3>2, <3>3
  <2> QED
    BY <2>2 DEF AppState
<1>5. CASE m.kind \notin {"create", "send", "vest", "multi", "grant", "revoke"}
  BY <1>5 DEF AfterMsg
<1> QED
  BY <1>1, <1>2, <1>3, <1>4, <1>5

(* So does the reception of a packet, whatever becomes of its message.     *)
LEMMA ReceiveType ==
  ASSUME NEW s \in AppState, NEW p \in Packet, NEW now \in Time
  PROVE  Receive(s, p, now) \in AppState
<1> DEFINE t == [s EXCEPT !.received = @ \cup {p}]
<1>1. t \in AppState
  BY DEF AppState
<1>2. PacketMsg[p] \in PlainMsg
  BY PacketAssumption
<1>3. CASE p \in s.received
  BY <1>3 DEF Receive
<1>4. CASE p \notin s.received /\ PacketAccepted(s, p)
  <2>1. MsgOk(t, PacketMsg[p])
    BY <1>4 DEF PacketAccepted, MsgOk, AppState
  <2>2. Receive(s, p, now) = AfterMsg(t, PacketMsg[p], now)
    BY <1>4 DEF Receive
  <2> QED
    BY <1>1, <1>2, <2>1, <2>2, AfterMsgType
<1>5. CASE p \notin s.received /\ ~PacketAccepted(s, p)
  BY <1>1, <1>5 DEF Receive
<1> QED
  BY <1>3, <1>4, <1>5

(* A handler that succeeds leaves a well-formed state.                     *)
LEMMA AfterHandlerType ==
  ASSUME NEW s \in AppState, NEW m \in Msg, NEW now \in Time, HandlerOk(s, m)
  PROVE  AfterHandler(s, m, now) \in AppState
<1>1. CASE m.kind = "recv"
  BY <1>1, MsgFields, ReceiveType DEF AfterHandler
<1>2. CASE m.kind # "recv"
  BY <1>2, MsgFields, AfterMsgType DEF AfterHandler, HandlerOk
<1> QED
  BY <1>1, <1>2

-----------------------------------------------------------------------------
(* The verdict of the ante chain.                                          *)

(* Only a transaction that passed every decorator is answered "ok".        *)
LEMMA AnteOk ==
  ASSUME NEW s, NEW tx, NEW h, AnteCode(s, tx, h) = "ok"
  PROVE  /\ ValidateBasic(tx) /\ CanPayFee(s, tx) /\ SequencesMatch(s, tx)
         /\ IdentityVerified(s.ids, tx.msgs, h)
  BY DEF AnteCode

(* Also the state before the genesis is one.                               *)
LEMMA NoStateType == NoState \in AppState
  BY DEF NoState, AppState, Store, EmptyStore

-----------------------------------------------------------------------------
(* What a state is worth: its balances and the collected fees.             *)

Worth(s) == SumOver(s.bal, Address) + s.fees

(* What a state is worth is a number.                                      *)
LEMMA WorthType ==
  ASSUME NEW s \in AppState
  PROVE  /\ Worth(s) \in Int /\ SumOver(s.bal, Address) \in Int /\ s.fees \in Int
         /\ \A a \in Address : s.bal[a] \in Int
<1>1. s.fees \in Nat /\ \A a \in Address : s.bal[a] \in Int
  BY DEF AppState
<1>2. SumOver(s.bal, Address) \in Int
  BY <1>1, AddressAssumption, SumType
<1> QED
  BY <1>1, <1>2 DEF Worth

(* A transfer takes from the sender what it gives to the recipients, the   *)
(* sender being one of them or not.                                        *)
LEMMA TransferKeepsWorth ==
  ASSUME NEW s \in AppState, NEW from \in Address, NEW tos \in SUBSET Address
  PROVE  Worth(Transfer(s, from, tos)) = Worth(s)
<1> DEFINE n == Cardinality(tos)
           gift == [a \in Address |-> IF a \in tos THEN 1 ELSE 0]
           given == [a \in Address |-> s.bal[a] + gift[a]]
           b == [a \in Address |-> IF a = from THEN s.bal[a] - n + gift[a]
                                   ELSE s.bal[a] + gift[a]]
<1>1. n \in Nat
  BY AddressAssumption, FS_Subset, FS_CardinalityType
<1>2. \A a \in Address : s.bal[a] \in Int /\ gift[a] \in Int
  BY WorthType
<1>3. Transfer(s, from, tos).bal = b /\ Transfer(s, from, tos).fees = s.fees
  BY DEF Transfer, AppState
<1>4. SumOver(gift, Address) = n
  <2>1. \A a \in Address : gift[a] = IF a \in tos THEN 1 ELSE 0
    OBVIOUS
  <2> HIDE DEF gift
  <2> QED
    BY <2>1, AddressAssumption, SumCounts
<1>5. SumOver(given, Address) = SumOver(s.bal, Address) + n
  <2>1. \A a \in Address : s.bal[a] \in Int /\ gift[a] \in Int /\ given[a] = s.bal[a] + gift[a]
    BY <1>2
  <2> HIDE DEF gift, given
  <2> QED
    BY <1>4, <2>1, AddressAssumption, SumOfSums
<1>6. SumOver(b, Address) = SumOver(given, Address) - given[from] + b[from]
  <2>1. /\ \A a \in Address : given[a] \in Int
        /\ b[from] \in Int
        /\ \A a \in Address \ {from} : b[a] = given[a]
    BY <1>1, <1>2
  <2> HIDE DEF gift, given, b
  <2> QED
    BY <2>1, AddressAssumption, SumUpdate
<1>7. /\ given[from] = s.bal[from] + gift[from] /\ b[from] = s.bal[from] - n + gift[from]
      /\ s.bal[from] \in Int /\ gift[from] \in Int
      /\ SumOver(s.bal, Address) \in Int
  BY <1>2, WorthType
<1> HIDE DEF gift, given, b, n
<1>8. SumOver(b, Address) = SumOver(s.bal, Address)
  BY <1>1, <1>5, <1>6, <1>7
<1> QED
  BY <1>3, <1>8 DEF Worth

(* The fee goes to the collector.                                          *)
LEMMA AfterAnteKeepsWorth ==
  ASSUME NEW s \in AppState, NEW tx \in Tx
  PROVE  Worth(AfterAnte(s, tx)) = Worth(s)
<1> DEFINE p == Charged(tx)
           b == [s.bal EXCEPT ![p] = @ - tx.fee]
<1>1. p \in Address /\ tx.fee \in Nat /\ s.bal \in [Address -> Nat]
  BY TxFields DEF AppState
<1>2. AfterAnte(s, tx).bal = b /\ AfterAnte(s, tx).fees = s.fees + tx.fee
  BY DEF AfterAnte, IncrementSequence, DeductFee, AppState
<1>3. SumOver(b, Address) = SumOver(s.bal, Address) - s.bal[p] + b[p]
  <2>1. /\ \A a \in Address : s.bal[a] \in Int
        /\ b[p] \in Int
        /\ \A a \in Address \ {p} : b[a] = s.bal[a]
    BY <1>1
  <2> HIDE DEF b, p
  <2> QED
    BY <1>1, <2>1, AddressAssumption, SumUpdate
<1>4. b[p] = s.bal[p] - tx.fee /\ s.bal[p] \in Int
  BY <1>1
<1> HIDE DEF b, p
<1> QED
  BY <1>1, <1>2, <1>3, <1>4, WorthType DEF Worth

(* No message makes or loses money.                                        *)
LEMMA AfterMsgKeepsWorth ==
  ASSUME NEW s \in AppState, NEW m \in PlainMsg, NEW now
  PROVE  Worth(AfterMsg(s, m, now)) = Worth(s)
<1>0. m \in Msg
  BY DEF Msg
<1>1. CASE m.kind \in {"send", "vest"}
  <2>1. m.from \in Address /\ {m.to} \in SUBSET Address
    BY <1>0, <1>1, MsgFields
  <2>2. AfterMsg(s, m, now) = Transfer(s, m.from, {m.to})
    BY <1>1 DEF AfterMsg
  <2> QED
    BY <2>1, <2>2, TransferKeepsWorth
<1>2. CASE m.kind = "multi"
  <2>1. m.from \in Address /\ m.tos \in SUBSET Address
    BY <1>0, <1>2, MsgFields
  <2>2. AfterMsg(s, m, now) = Transfer(s, m.from, m.tos)
    BY <1>2 DEF AfterMsg
  <2> QED
    BY <2>1, <2>2, TransferKeepsWorth
<1>3. CASE m.kind \notin {"send", "vest", "multi"}
  <2>1. AfterMsg(s, m, now).bal = s.bal /\ AfterMsg(s, m, now).fees = s.fees
    BY <1>3 DEF AfterMsg, AppState
  <2> QED
    BY <2>1 DEF Worth
<1> QED
  BY <1>1, <1>2, <1>3

(* A handler moves coins and makes none.                                   *)
LEMMA AfterHandlerKeepsWorth ==
  ASSUME NEW s \in AppState, NEW m \in Msg, NEW now
  PROVE  Worth(AfterHandler(s, m, now)) = Worth(s)
<1>1. CASE m.kind # "recv"
  BY <1>1, MsgFields, AfterMsgKeepsWorth DEF AfterHandler
<1>2. CASE m.kind = "recv"
  <2> DEFINE p == m.packet
             t == [s EXCEPT !.received = @ \cup {p}]
  <2>1. p \in Packet /\ PacketMsg[p] \in PlainMsg
    BY <1>2, MsgFields, PacketAssumption
  <2>2. t \in AppState /\ Worth(t) = Worth(s)
    BY <2>1 DEF AppState, Worth
  <2>3. Worth(AfterMsg(t, PacketMsg[p], now)) = Worth(t)
    BY <2>1, <2>2, AfterMsgKeepsWorth
  <2>4. AfterHandler(s, m, now) \in {s, t, AfterMsg(t, PacketMsg[p], now)}
    BY <1>2 DEF AfterHandler, Receive
  <2> QED
    BY <2>2, <2>3, <2>4
<1> QED
  BY <1>1, <1>2

-----------------------------------------------------------------------------
(* Genesis.                                                                *)

(* A nonempty set of positions in a list has a largest one.                *)
LEMMA MaximumExists ==
  ASSUME NEW S, S # {}, NEW n \in Nat, S \subseteq 1 .. n
  PROVE  \E i \in S : \A j \in S : j <= i
<1> DEFINE D == {n - i : i \in S}
<1>1. \A i \in S : n - i \in D /\ n - i \in Nat
  OBVIOUS
<1>2. D # {} /\ D \subseteq Nat
  BY <1>1
<1>3. \A d \in D : \E i \in S : d = n - i
  OBVIOUS
<1> HIDE DEF D
<1>4. PICK d \in D : \A e \in D : d <= e
  BY <1>2, MinimumExists
<1>5. PICK i \in S : d = n - i
  BY <1>3
<1>6. \A j \in S : n - i <= n - j
  BY <1>1, <1>4, <1>5
<1> QED
  BY <1>6

(* The genesis loop of x/identity builds a well-formed store.              *)
LEMMA InitGenesisType ==
  ASSUME NEW list \in Seq(IdentityRecord)
  PROVE  InitGenesis(list) \in Store
<1> DEFINE at(a) == {i \in DOMAIN list : list[i].address = a}
           last(a) == CHOOSE i \in at(a) : \A j \in at(a) : j <= i
<1>1. \A i \in DOMAIN list : list[i] \in IdentityRecord
  OBVIOUS
<1>2. ASSUME NEW a \in Address, at(a) # {}
      PROVE  last(a) \in at(a)
  <2>1. at(a) \subseteq 1 .. Len(list) /\ Len(list) \in Nat
    OBVIOUS
  <2>2. \E i \in at(a) : \A j \in at(a) : j <= i
    BY <1>2, <2>1, MaximumExists
  <2> QED
    BY <2>2
<1>3. ASSUME NEW a \in Address, at(a) # {}
      PROVE  list[last(a)] \in IdentityRecord /\ list[last(a)].address = a
  BY <1>1, <1>2, <1>3
<1> HIDE DEF last
<1>4. InitGenesis(list) =
        [a \in Address |-> IF at(a) = {} THEN NoIdentity ELSE list[last(a)]]
  BY DEF InitGenesis, last
<1> HIDE DEF at
<1> QED
  BY <1>3, <1>4 DEF Store

(* So does the same loop over a store that holds records already: the      *)
(* list's records are in it, and no address has lost its record.           *)
LEMMA ImportType ==
  ASSUME NEW st \in Store, NEW list \in Seq(IdentityRecord)
  PROVE  ImportInto(st, list) \in Store
  BY InitGenesisType DEF ImportInto, Store, Found

(* A record of the store has the address it is filed under.                *)
LEMMA OwnAddress ==
  ASSUME NEW st \in Store, NEW a \in Registered(st)
  PROVE  a \in Address /\ st[a].address = a
BY DEF Store, Registered, Found

(* GetAllIdentity returns a list, with every record of the store.          *)
LEMMA ExportedList ==
  ASSUME NEW st
  PROVE  LET S == Registered(st)
             list == ExportGenesis(st)
         IN  /\ IsFiniteSet(S) /\ Cardinality(S) \in Nat
             /\ list \in [1 .. Cardinality(S) -> {st[a] : a \in S}]
             /\ \A a \in S : \E i \in DOMAIN list : list[i] = st[a]
<1> DEFINE S == Registered(st)
           N == Cardinality(S)
           Good(l) == \A a \in S : \E i \in DOMAIN l : l[i] = st[a]
<1>1. IsFiniteSet(S)
  <2>1. S \in SUBSET Address
    BY DEF Registered
  <2> QED
    BY <2>1, AddressAssumption, FS_Subset
<1>2. N \in Nat
  BY <1>1, FS_CardinalityType
<1>3. PICK f \in Bijection(1 .. N, S) : TRUE
  <2> HIDE DEF S
  <2> QED
    BY <1>1, FS_CardinalityType DEF ExistsBijection
<1>4. f \in [1 .. N -> S] /\ \A a \in S : \E i \in 1 .. N : f[i] = a
  BY <1>3 DEF Bijection, Injection, Surjection
<1> DEFINE l == [i \in 1 .. N |-> st[f[i]]]
<1>5. l \in [1 .. N -> {st[a] : a \in S}] /\ Good(l)
  BY <1>4
<1>6. \E k \in [1 .. N -> {st[a] : a \in S}] : Good(k)
  BY <1>5
<1> QED
  BY <1>1, <1>2, <1>6 DEF ExportGenesis

(* What is exported passes the validation that the command line offers:    *)
(* no address is in the list twice.                                        *)
LEMMA ExportIsValid ==
  ASSUME NEW st \in Store
  PROVE  ValidGenesis(ExportGenesis(st))
<1> DEFINE S == Registered(st)
           N == Cardinality(S)
           list == ExportGenesis(st)
           g == [i \in 1 .. N |-> list[i].address]
<1>1. /\ IsFiniteSet(S) /\ N \in Nat
      /\ list \in [1 .. N -> {st[a] : a \in S}]
      /\ \A a \in S : \E i \in DOMAIN list : list[i] = st[a]
  BY ExportedList
<1>2. \A i \in 1 .. N : \E a \in S : list[i] = st[a] /\ list[i].address = a
  BY <1>1, OwnAddress
<1>3. g \in [1 .. N -> S]
  BY <1>2
<1>4. \A a \in S : \E i \in 1 .. N : g[i] = a
  BY <1>1, OwnAddress
<1>5. g \in Surjection(1 .. N, S)
  BY <1>3, <1>4 DEF Surjection
<1>6. IsFiniteSet(1 .. N) /\ Cardinality(1 .. N) = N
  <2> HIDE DEF N, S, list, g
  <2>1. N \in Int /\ 1 \in Int
    BY <1>1
  <2>2. IsFiniteSet(1 .. N)
    BY <2>1, FS_Interval, Zenon
  <2>3. Cardinality(1 .. N) = IF 1 > N THEN 0 ELSE N - 1 + 1
    BY <2>1, FS_Interval, Zenon
  <2> QED
    BY <1>1, <2>2, <2>3
<1>7. g \in Injection(1 .. N, S)
  <2> HIDE DEF g, S
  <2> QED
    BY <1>5, <1>6, FS_SurjSameCardinalityImpliesInj
<1>8. \A i, j \in 1 .. N : list[i].address = list[j].address => i = j
  BY <1>7 DEF Injection, IsInjective
<1> QED
  BY <1>1, <1>8 DEF ValidGenesis

(* The second half of an export is the first half of a genesis: the store  *)
(* that InitGenesis builds from what ExportGenesis returned is the store   *)
(* it was made from, whatever order the iterator gave the records in, and  *)
(* the document passes Validate.                                           *)
THEOREM GenesisRoundTrip ==
  ASSUME NEW st \in Store
  PROVE  /\ ValidGenesis(ExportGenesis(st))
         /\ InitGenesis(ExportGenesis(st)) = st
<1> DEFINE S == Registered(st)
           N == Cardinality(S)
           list == ExportGenesis(st)
           at(a) == {i \in DOMAIN list : list[i].address = a}
           last(a) == CHOOSE i \in at(a) : \A j \in at(a) : j <= i
<1>1. /\ N \in Nat /\ list \in [1 .. N -> {st[a] : a \in S}]
      /\ \A a \in S : \E i \in DOMAIN list : list[i] = st[a]
  BY ExportedList
<1>2. \A i \in DOMAIN list : \E a \in S : list[i] = st[a] /\ list[i].address = a
  BY <1>1, OwnAddress
<1>3. ASSUME NEW a \in S
      PROVE  at(a) # {} /\ list[last(a)] = st[a]
  <2>1. PICK i \in DOMAIN list : list[i] = st[a] /\ list[i].address = a
    BY <1>1, OwnAddress
  <2>2. at(a) = {i}
    BY <2>1, ExportIsValid DEF ValidGenesis
  <2>3. i <= i
    BY <1>1
  <2>4. last(a) = i
    BY <2>2, <2>3
  <2> QED
    BY <2>1, <2>2, <2>4
<1>4. ASSUME NEW a \in Address, a \notin S
      PROVE  at(a) = {} /\ st[a] = NoIdentity
  BY <1>2, <1>4 DEF Registered, Found
<1>5. InitGenesis(list) =
        [a \in Address |-> IF at(a) = {} THEN NoIdentity ELSE list[last(a)]]
  BY DEF InitGenesis
<1> HIDE DEF last, at, list
<1>6. \A a \in Address : InitGenesis(list)[a] = st[a]
  BY <1>3, <1>4, <1>5
<1>7. st = [a \in Address |-> st[a]]
  BY DEF Store
<1>8. InitGenesis(list) = st
  BY <1>5, <1>6, <1>7
<1> QED
  BY <1>8, ExportIsValid DEF list

-----------------------------------------------------------------------------
(* Inputs of the node.                                                     *)

(* The transactions the node is sent are well formed.                      *)
LEMMA TxsType == Txs \subseteq Tx
<1> SUFFICES ASSUME NEW b \in Bodies, NEW n \in NoncesFor(b)
             PROVE  Signed(b, n) \in Tx
  BY DEF Txs
<1>1. n \in [Address -> Nat]
  <2>1. n \in [Address -> 0 .. MaxNonce]
    BY DEF NoncesFor
  <2> QED
    BY <2>1, BoundsAssumption
<1> QED
  BY <1>1, BodiesAssumption DEF Signed, Tx

(* So are those of a genesis document.                                     *)
LEMMA GenTxType ==
  ASSUME NEW g \in GenesisDocs, NEW i \in DOMAIN g.gentxs
  PROVE  g.gentxs[i] \in Tx
  BY GenesisAssumption

(* The ante chain answers with one of its codes.                           *)
LEMMA AnteCodeType ==
  ASSUME NEW s, NEW tx, NEW h
  PROVE  AnteCode(s, tx, h) \in Code
  BY DEF AnteCode, Code

-----------------------------------------------------------------------------
(* Type correctness.                                                       *)

(* The next transaction of a block is well formed.                         *)
LEMMA NextTxType ==
  ASSUME TypeOK, NEW tx, NextTx(tx)
  PROVE  tx \in Tx
<1>1. CASE tx \in Txs
  BY <1>1, TxsType
<1>2. CASE /\ Len(block) < Len(genesis.gentxs)
           /\ tx = genesis.gentxs[Len(block) + 1]
  <2>1. genesis.gentxs \in Seq(Tx) /\ block \in Seq(Tx)
    BY GenesisAssumption DEF TypeOK
  <2> QED
    BY <1>2, <2>1
<1> QED
  BY <1>1, <1>2 DEF NextTx

(* The message about to be executed is one.                                *)
LEMMA NextMsgType ==
  ASSUME TypeOK, running # NoTx, running.next <= Len(running.tx.msgs)
  PROVE  /\ running \in Running
         /\ running.next \in DOMAIN running.tx.msgs
         /\ running.tx.msgs[running.next] \in Msg
<1>1. running \in Running
  BY DEF TypeOK
<1>2. running.tx \in Tx /\ running.next \in Nat \ {0}
  BY <1>1 DEF Running
<1>3. running.tx.msgs \in Seq(Msg) /\ Len(running.tx.msgs) \in Nat
  BY <1>2, TxFields
<1>4. DOMAIN running.tx.msgs = 1 .. Len(running.tx.msgs)
  BY <1>3
<1>5. running.next \in 1 .. Len(running.tx.msgs)
  BY <1>2, <1>3
<1> QED
  BY <1>1, <1>3, <1>4, <1>5

(* The initial state is well formed.                                       *)
LEMMA TypeInit == Init => TypeOK
<1> SUFFICES ASSUME Init PROVE TypeOK
  OBVIOUS
<1>1. block = <<>> /\ <<>> \in Seq(Tx)
  BY DEF Init
<1> QED
  BY <1>1, NoStateType DEF Init, TypeOK

(* Every step leaves a well-formed state.                                  *)
LEMMA TypeNext == TypeOK /\ [Next]_vars => TypeOK'
<1> SUFFICES ASSUME TypeOK, [Next]_vars PROVE TypeOK'
  OBVIOUS
<1> USE DEF TypeOK
<1>0. genesis \in GenesisDocs /\ genesis.app \in AppState
      /\ genesis.initialHeight \in Nat
      /\ genesis.identities \in Seq(IdentityRecord)
  BY GenesisAssumption
<1>1. CASE InitChain
  BY <1>0, <1>1 DEF InitChain, GenesisHeight
<1>2. CASE InitIdentities
  <2>1. ImportInto(deliver.ids, genesis.identities) \in Store
    BY <1>0, ImportType DEF AppState
  <2>2. [deliver EXCEPT !.ids = ImportInto(deliver.ids, genesis.identities)] \in AppState
    BY <2>1 DEF AppState
  <2>3. <<>> \in Seq(Tx)
    OBVIOUS
  <2> QED
    BY <1>2, <2>2, <2>3 DEF InitIdentities, poolVars
<1>3. CASE BeginBlock
  BY <1>3 DEF BeginBlock, poolVars
<1>4. ASSUME NEW tx, RejectTx(tx)
      PROVE  TypeOK'
  <2>1. tx \in Tx /\ AnteCode(deliver, tx, DeliverHeight) \in Code
    BY <1>4, NextTxType, AnteCodeType DEF RejectTx
  <2>2. resp' \in Results
    BY <1>4, <2>1 DEF RejectTx, Result, Results
  <2>3. block' \in Seq(Tx)
    BY <1>4, <2>1 DEF RejectTx
  <2>4. phase' \in {"new", "gentx", "idle", "block", "halted"}
    BY <1>4 DEF RejectTx, PhaseAfterFailure
  <2> QED
    BY <1>4, <2>2, <2>3, <2>4 DEF RejectTx, poolVars
<1>5. ASSUME NEW tx, BeginTx(tx)
      PROVE  TypeOK'
  <2>1. tx \in Tx /\ CanPayFee(deliver, tx)
    BY <1>5, NextTxType, AnteOk DEF BeginTx
  <2>2. AfterAnte(deliver, tx) \in AppState
    BY <2>1, AfterAnteType
  <2>3. running' \in Running
    BY <1>5, <2>1, <2>2 DEF BeginTx, Running
  <2> QED
    BY <1>5, <2>2, <2>3 DEF BeginTx, poolVars
<1>6. CASE ExecMsg
  <2> DEFINE m == running.tx.msgs[running.next]
  <2>1. running \in Running /\ m \in Msg
    BY <1>6, NextMsgType DEF ExecMsg
  <2>2. HandlerOk(running.branch, m)
    BY <1>6 DEF ExecMsg
  <2>3. PICK now \in Time :
          running' = [running EXCEPT !.next = running.next + 1,
                        !.branch = AfterHandler(running.branch, m, now)]
    BY <1>6 DEF ExecMsg
  <2>4. AfterHandler(running.branch, m, now) \in AppState
    BY <2>1, <2>2, AfterHandlerType DEF Running
  <2> HIDE DEF m
  <2>5. ASSUME NEW n \in Nat \ {0}, NEW b \in AppState
        PROVE  [running EXCEPT !.next = n, !.branch = b] \in Running
    BY <2>1 DEF Running
  <2>6. running.next + 1 \in Nat \ {0}
    BY <2>1 DEF Running
  <2>7. running' \in Running
    BY <2>3, <2>4, <2>5, <2>6
  <2> QED
    BY <1>6, <2>7 DEF ExecMsg, poolVars
<1>7. CASE FailTx
  <2>1. running \in Running
    BY <1>7, NextMsgType DEF FailTx
  <2>2. resp' \in Results /\ block' \in Seq(Tx)
    BY <1>7, <2>1 DEF FailTx, Result, Results, Code, Running
  <2>3. phase' \in {"new", "gentx", "idle", "block", "halted"}
    BY <1>7 DEF FailTx, PhaseAfterFailure
  <2> QED
    BY <1>7, <2>2, <2>3 DEF FailTx, poolVars
<1>8. CASE EndTx
  <2>1. running \in Running
    BY <1>8 DEF EndTx
  <2>2. resp' \in Results /\ block' \in Seq(Tx) /\ deliver' \in AppState
    BY <1>8, <2>1 DEF EndTx, Result, Results, Code, Running
  <2> QED
    BY <1>8, <2>2 DEF EndTx, poolVars
<1>9. CASE Commit
  <2>1. height' \in Nat /\ checkHeight' \in Nat
    BY <1>0, <1>9 DEF Commit, BlockHeight
  <2>2. block' \in Seq(Tx)
    BY <1>9 DEF Commit
  <2> QED
    BY <1>9, <2>1, <2>2 DEF Commit
<1>10. ASSUME NEW tx \in Txs, CheckTx(tx)
       PROVE  TypeOK'
  <2>1. tx \in Tx
    BY TxsType
  <2>2. CanPayFee(check, tx)
    BY <1>10, AnteOk DEF CheckTx
  <2>3. check' \in AppState
    BY <1>10, <2>1, <2>2, AfterAnteType DEF CheckTx
  <2> QED
    BY <1>10, <2>1, <2>3 DEF CheckTx, chainVars
<1>11. ASSUME NEW tx \in stale, RecheckTx(tx)
       PROVE  TypeOK'
  <2>1. tx \in Tx
    OBVIOUS
  <2>2. check' \in AppState
    BY <1>11, <2>1, AnteOk, AfterAnteType DEF RecheckTx
  <2>3. mempool' \subseteq Tx /\ stale' \subseteq mempool'
    BY <1>11 DEF RecheckTx
  <2> QED
    BY <1>11, <2>2, <2>3 DEF RecheckTx, chainVars
<1>12. CASE Crash
  <2>1. block' \in Seq(Tx)
    BY <1>12 DEF Crash
  <2> QED
    BY <1>12, <2>1 DEF Crash
<1>13. CASE UNCHANGED vars
  BY <1>13 DEF vars
<1> QED
  BY <1>1, <1>2, <1>3, <1>4, <1>5, <1>6, <1>7, <1>8, <1>9, <1>10, <1>11,
     <1>12, <1>13 DEF Next

(* Every reachable state is well formed, whatever the messages: in         *)
(* particular no balance goes below zero, neither by fees deducted before  *)
(* the identity gate nor by transfers on a branch.                         *)
THEOREM TypeCorrect == Spec => []TypeOK
  BY TypeInit, TypeNext, PTL DEF Spec

-----------------------------------------------------------------------------
(* t has every identity of st, unchanged.                                  *)
Keeps(st, t) == \A a \in Address : Found(st, a) => t[a] = st[a]

ChainInv ==
  /\ phase \in {"new", "gentx", "halted"} => height = 0
  /\ height = 0 => committed = NoState
  /\ Keeps(committed.ids, deliver.ids)
  /\ phase \in {"idle", "block"} => Keeps(InitGenesis(genesis.identities), deliver.ids)
  /\ height > 0 => Keeps(InitGenesis(genesis.identities), committed.ids)

BankOnly(tx) == \A i \in DOMAIN tx.msgs : tx.msgs[i].kind \notin {"vest", "recv"}

(* What the messages executed so far have done to the branch b of s.       *)
BranchOk(s, tx, b) ==
  /\ \A a \in Address \ InterchainAccounts :
       ~Found(s.ids, a) => b.bal[a] >= s.bal[a] /\ ~Found(b.ids, a)
  /\ BankOnly(tx) =>
       \A a \in Address : b.bal[a] > s.bal[a] => Found(s.ids, a)

AllVerified(st, tx) == \A i \in DOMAIN tx.msgs : MsgVerified(st, tx.msgs[i])

BranchInv ==
  running # NoTx =>
    /\ phase \in {"gentx", "block"}
    /\ Keeps(deliver.ids, running.branch.ids)
    /\ phase = "block" =>
         /\ AllVerified(deliver.ids, running.tx)
         /\ BranchOk(deliver, running.tx, running.branch)

PoolInv ==
  /\ height = 0 => check.accts = {} /\ mempool = {}
  /\ height > 0 => check.ids = committed.ids
  /\ checkHeight > 0 => \A tx \in mempool \ stale : AllVerified(committed.ids, tx)
  /\ \A tx \in mempool \ stale : \A a \in TxSigners(tx) : tx.nonce[a] < check.seq[a]
  /\ NoCompetingNonces

(* Every copy of the state is worth what genesis handed out.               *)
MoneyInv ==
  LET total == Worth(genesis.app)
  IN  /\ phase # "new" => Worth(deliver) = total
      /\ height > 0 => Worth(committed) = total
      /\ check # NoState => Worth(check) = total
      /\ running # NoTx => Worth(running.branch) = total

IInv == TypeOK /\ ChainInv /\ BranchInv /\ PoolInv /\ MoneyInv

-----------------------------------------------------------------------------
(* Stores that keep what another one has.                                  *)

(* What keeps identities twice keeps them.                                 *)
LEMMA KeepsTransitive ==
  ASSUME NEW s, NEW t, NEW u, Keeps(s, t), Keeps(t, u)
  PROVE  Keeps(s, u)
  BY DEF Keeps, Found

(* An identity that is kept is found.                                      *)
LEMMA KeepsFound ==
  ASSUME NEW s, NEW t, Keeps(s, t), NEW a \in Address, Found(s, a)
  PROVE  Found(t, a)
  BY DEF Keeps, Found

(* The empty store has nothing to keep.                                    *)
LEMMA EmptyKeeps ==
  ASSUME NEW t
  PROVE  Keeps(NoState.ids, t)
  BY DEF Keeps, Found, NoState, EmptyStore

(* What the gate accepts on one store it accepts on a larger one.          *)
LEMMA VerifiedMonotone ==
  ASSUME NEW s, NEW t, Keeps(s, t), NEW tx \in Tx, AllVerified(s, tx)
  PROVE  AllVerified(t, tx)
<1>1. Registered(s) \subseteq Registered(t)
  BY KeepsFound DEF Registered
<1> QED
  BY <1>1 DEF AllVerified, MsgVerified

(* No message is exempt: the names in the table are not those of any type. *)
(* Hence the signer of an accepted message has an identity, and so has     *)
(* everybody the gate takes for a recipient.                               *)
LEMMA VerifiedParties ==
  ASSUME NEW st, NEW m \in Msg, MsgVerified(st, m)
  PROVE  Found(st, SignerOf(m)) /\ GateRecipients(m) \subseteq Registered(st)
<1>1. ~IsIdentityModuleMsg(m)
  BY DEF IsIdentityModuleMsg, MsgTypeURL, IdentityMsgTypes
<1>2. /\ GateSigners(m) # {}
      /\ GateSigners(m) \cup GateRecipients(m) \subseteq Registered(st)
  BY <1>1 DEF MsgVerified
<1>3. GateSigners(m) = {SignerOf(m)}
  BY <1>2 DEF GateSigners, SignerOf, Msg, PlainMsg, IdentityMsg, CreateIdentityMsg,
         ParamsMsg, SendMsg, MultiSendMsg, VestMsg, OtherMsg, AllowanceMsg, RecvMsg
<1> QED
  BY <1>2, <1>3 DEF Registered

-----------------------------------------------------------------------------
(* Who is touched by a message.                                            *)

(* A transfer takes only from the sender and gives only to recipients.     *)
LEMMA TransferEffect ==
  ASSUME NEW s \in AppState, NEW from \in Address, NEW tos \in SUBSET Address,
         NEW a \in Address
  PROVE  /\ a # from => Transfer(s, from, tos).bal[a] >= s.bal[a]
         /\ a \notin tos => Transfer(s, from, tos).bal[a] <= s.bal[a]
<1>1. Cardinality(tos) \in Nat
  BY AddressAssumption, FS_Subset, FS_CardinalityType
<1>2. s.bal \in [Address -> Nat]
  BY DEF AppState
<1>3. Transfer(s, from, tos).bal[a] =
        IF a = from THEN s.bal[a] - Cardinality(tos) + (IF a \in tos THEN 1 ELSE 0)
        ELSE s.bal[a] + (IF a \in tos THEN 1 ELSE 0)
  BY DEF Transfer, AppState
<1> QED
  BY <1>1, <1>2, <1>3

(* CreateIdentity fills in the creator's record and no other, and only if  *)
(* there was none.                                                         *)
LEMMA CreateEffect ==
  ASSUME NEW st \in Store, NEW m, m.creator \in Address, NEW now,
         CreateIdentityOk(st, m)
  PROVE  /\ Keeps(st, CreateIdentity(st, m, now))
         /\ \A a \in Address : a # m.creator => CreateIdentity(st, m, now)[a] = st[a]
  BY DEF Keeps, Found, CreateIdentityOk, CreateIdentity, SetIdentity, NewIdentity, Store

(* A message keeps all identities, takes coins from its signer only, and   *)
(* gives coins to recipients the gate sees, but for a vesting account.     *)
LEMMA AfterMsgEffect ==
  ASSUME NEW s \in AppState, NEW m \in PlainMsg, NEW now, MsgOk(s, m)
  PROVE  /\ Keeps(s.ids, AfterMsg(s, m, now).ids)
         /\ \A a \in Address :
              /\ a # SignerOf(m) =>
                   /\ AfterMsg(s, m, now).bal[a] >= s.bal[a]
                   /\ ~Found(s.ids, a) => ~Found(AfterMsg(s, m, now).ids, a)
              /\ m.kind # "vest" /\ a \notin GateRecipients(m) =>
                   AfterMsg(s, m, now).bal[a] <= s.bal[a]
<1>0. m \in Msg /\ s.ids \in Store /\ s.bal \in [Address -> Nat]
  BY DEF Msg, AppState
<1> DEFINE t == AfterMsg(s, m, now)
<1>1. CASE m.kind = "create"
  <2>1. t.ids = CreateIdentity(s.ids, m, now) /\ t.bal = s.bal
    BY <1>1 DEF AfterMsg, AppState
  <2>2. CreateIdentityOk(s.ids, m) /\ m.creator \in Address /\ SignerOf(m) = m.creator
    BY <1>0, <1>1, MsgFields DEF MsgOk, SignerOf
  <2>3. /\ Keeps(s.ids, t.ids)
        /\ \A a \in Address : a # SignerOf(m) => t.ids[a] = s.ids[a]
    BY <1>0, <2>1, <2>2, CreateEffect
  <2> HIDE DEF t
  <2>4. \A a \in Address : t.bal[a] >= s.bal[a] /\ t.bal[a] <= s.bal[a]
    BY <1>0, <2>1
  <2> QED
    BY <2>3, <2>4 DEF Found, t
<1>2. ASSUME NEW from \in Address, NEW tos \in SUBSET Address,
             SignerOf(m) = from, m.kind # "vest" => GateRecipients(m) = tos,
             t = Transfer(s, from, tos)
      PROVE  /\ Keeps(s.ids, t.ids)
             /\ \A a \in Address :
                  /\ a # SignerOf(m) =>
                       t.bal[a] >= s.bal[a] /\ (~Found(s.ids, a) => ~Found(t.ids, a))
                  /\ m.kind # "vest" /\ a \notin GateRecipients(m) => t.bal[a] <= s.bal[a]
  <2>1. t.ids = s.ids
    BY <1>2 DEF Transfer, AppState
  <2>2. \A a \in Address : /\ a # from => t.bal[a] >= s.bal[a]
                           /\ a \notin tos => t.bal[a] <= s.bal[a]
    BY <1>2, TransferEffect
  <2> HIDE DEF t
  <2> QED
    BY <1>2, <2>1, <2>2 DEF Keeps
<1>3. CASE m.kind \in {"send", "vest"}
  <2>1. t = Transfer(s, m.from, {m.to}) /\ SignerOf(m) = m.from
    BY <1>3 DEF AfterMsg, SignerOf
  <2>2. m.kind # "vest" => GateRecipients(m) = {m.to}
    BY <1>3 DEF GateRecipients
  <2>3. m.from \in Address /\ {m.to} \in SUBSET Address
    BY <1>0, <1>3, MsgFields
  <2> HIDE DEF t
  <2>4. /\ Keeps(s.ids, t.ids)
        /\ \A a \in Address :
             /\ a # SignerOf(m) =>
                  t.bal[a] >= s.bal[a] /\ (~Found(s.ids, a) => ~Found(t.ids, a))
             /\ m.kind # "vest" /\ a \notin GateRecipients(m) => t.bal[a] <= s.bal[a]
    BY <1>2, <2>1, <2>2, <2>3
  <2> QED
    BY <2>4 DEF t
<1>4. CASE m.kind = "multi"
  <2>1. t = Transfer(s, m.from, m.tos) /\ SignerOf(m) = m.from /\ GateRecipients(m) = m.tos
    BY <1>4 DEF AfterMsg, SignerOf, GateRecipients
  <2>2. m.from \in Address /\ m.tos \in SUBSET Address
    BY <1>0, <1>4, MsgFields
  <2> HIDE DEF t
  <2>3. /\ Keeps(s.ids, t.ids)
        /\ \A a \in Address :
             /\ a # SignerOf(m) =>
                  t.bal[a] >= s.bal[a] /\ (~Found(s.ids, a) => ~Found(t.ids, a))
             /\ m.kind # "vest" /\ a \notin GateRecipients(m) => t.bal[a] <= s.bal[a]
    BY <1>2, <2>1, <2>2
  <2> QED
    BY <2>3 DEF t
<1>5. CASE m.kind \notin {"create", "send", "vest", "multi"}
  <2>1. t.ids = s.ids /\ t.bal = s.bal
    BY <1>5 DEF AfterMsg, AppState
  <2> HIDE DEF t
  <2>2. \A a \in Address : t.bal[a] >= s.bal[a] /\ t.bal[a] <= s.bal[a]
    BY <1>0, <2>1
  <2> QED
    BY <2>1, <2>2 DEF Keeps, t
<1> QED
  BY <1>1, <1>3, <1>4, <1>5

(* A packet touches interchain accounts only, recipients aside.            *)
LEMMA ReceiveEffect ==
  ASSUME NEW s \in AppState, NEW p \in Packet, NEW now
  PROVE  /\ Keeps(s.ids, Receive(s, p, now).ids)
         /\ \A a \in Address \ InterchainAccounts :
              /\ Receive(s, p, now).bal[a] >= s.bal[a]
              /\ ~Found(s.ids, a) => ~Found(Receive(s, p, now).ids, a)
<1> DEFINE t == [s EXCEPT !.received = @ \cup {p}]
           m == PacketMsg[p]
<1>1. t \in AppState /\ t.ids = s.ids /\ t.bal = s.bal /\ t.accts = s.accts
  BY DEF AppState
<1>2. m \in PlainMsg
  BY PacketAssumption
<1>3. s.bal \in [Address -> Nat]
  BY DEF AppState
<1>4. CASE p \notin s.received /\ PacketAccepted(s, p)
  <2>1. MsgOk(t, m) /\ SignerOf(m) = PacketFrom[p]
    BY <1>1, <1>4 DEF PacketAccepted, MsgOk
  <2>2. Receive(s, p, now) = AfterMsg(t, m, now)
    BY <1>4 DEF Receive
  <2>3. SignerOf(m) \in InterchainAccounts
    BY <2>1 DEF InterchainAccounts
  <2> HIDE DEF t, m
  <2> QED
    BY <1>1, <1>2, <2>1, <2>2, <2>3, AfterMsgEffect
<1>5. CASE p \in s.received \/ ~PacketAccepted(s, p)
  <2>1. Receive(s, p, now) \in {s, t}
    BY <1>5 DEF Receive
  <2>2. /\ Receive(s, p, now).ids = s.ids
        /\ Receive(s, p, now).bal = s.bal
    BY <1>1, <2>1
  <2>3. \A a \in Address : s.bal[a] >= s.bal[a]
    BY <1>3
  <2> QED
    BY <2>2, <2>3 DEF Keeps
<1> QED
  BY <1>4, <1>5

(* One more message of a verified transaction keeps the branch as it       *)
(* should be with respect to the state before the transaction.             *)
LEMMA BranchStep ==
  ASSUME deliver \in AppState, NEW tx \in Tx, NEW b \in AppState, NEW now \in Time,
         NEW i \in DOMAIN tx.msgs, tx.msgs[i] \in Msg,
         MsgVerified(deliver.ids, tx.msgs[i]), HandlerOk(b, tx.msgs[i]),
         Keeps(deliver.ids, b.ids), BranchOk(deliver, tx, b)
  PROVE  BranchOk(deliver, tx, AfterHandler(b, tx.msgs[i], now))
<1> DEFINE m == tx.msgs[i]
           c == AfterHandler(b, m, now)
<1>0. m \in Msg /\ HandlerOk(b, m)
  OBVIOUS
<1>1. /\ Found(deliver.ids, SignerOf(m))
      /\ GateRecipients(m) \subseteq Registered(deliver.ids)
  BY VerifiedParties
<1>2. /\ b.bal \in [Address -> Nat] /\ deliver.bal \in [Address -> Nat]
      /\ c \in AppState /\ c.bal \in [Address -> Nat]
  BY AfterHandlerType DEF AppState
<1>3. BankOnly(tx) => m.kind \notin {"vest", "recv"}
  BY DEF BankOnly
<1>4. CASE m.kind = "recv"
  <2>1. c = Receive(b, m.packet, now) /\ m.packet \in Packet
    BY <1>4, MsgFields DEF AfterHandler
  <2>2. \A a \in Address \ InterchainAccounts :
          c.bal[a] >= b.bal[a] /\ (~Found(b.ids, a) => ~Found(c.ids, a))
    BY <2>1, ReceiveEffect
  <2> HIDE DEF m, c
  <2>3. \A a \in Address \ InterchainAccounts :
          ~Found(deliver.ids, a) => c.bal[a] >= deliver.bal[a] /\ ~Found(c.ids, a)
    BY <1>2, <2>2 DEF BranchOk
  <2> QED
    BY <1>3, <1>4, <2>3 DEF BranchOk, c, m
<1>5. CASE m.kind # "recv"
  <2>1. c = AfterMsg(b, m, now) /\ m \in PlainMsg /\ MsgOk(b, m)
    BY <1>0, <1>5, MsgFields DEF AfterHandler, HandlerOk
  <2>2. \A a \in Address :
          /\ a # SignerOf(m) =>
               c.bal[a] >= b.bal[a] /\ (~Found(b.ids, a) => ~Found(c.ids, a))
          /\ m.kind # "vest" /\ a \notin GateRecipients(m) => c.bal[a] <= b.bal[a]
    BY <2>1, AfterMsgEffect
  <2> HIDE DEF m, c
  <2>3. \A a \in Address \ InterchainAccounts :
          ~Found(deliver.ids, a) => c.bal[a] >= deliver.bal[a] /\ ~Found(c.ids, a)
    BY <1>1, <1>2, <2>2 DEF BranchOk
  <2>4. ASSUME BankOnly(tx), NEW a \in Address, ~Found(deliver.ids, a)
        PROVE  ~(c.bal[a] > deliver.bal[a])
    <3>1. m.kind # "vest" /\ a \notin GateRecipients(m)
      BY <1>1, <1>3, <2>4 DEF Registered
    <3>2. c.bal[a] <= b.bal[a] /\ ~(b.bal[a] > deliver.bal[a])
      BY <2>2, <2>4, <3>1 DEF BranchOk
    <3> QED
      BY <1>2, <3>2
  <2> QED
    BY <2>3, <2>4 DEF BranchOk, c, m
<1> QED
  BY <1>4, <1>5

(* A handler keeps all identities.                                         *)
LEMMA HandlerKeeps ==
  ASSUME NEW s \in AppState, NEW m \in Msg, NEW now, HandlerOk(s, m)
  PROVE  Keeps(s.ids, AfterHandler(s, m, now).ids)
<1>1. CASE m.kind = "recv"
  BY <1>1, MsgFields, ReceiveEffect DEF AfterHandler
<1>2. CASE m.kind # "recv"
  BY <1>2, MsgFields, AfterMsgEffect DEF AfterHandler, HandlerOk
<1> QED
  BY <1>1, <1>2

(* The ante chain changes neither identities nor, but for the one charged, *)
(* balances; sequence numbers only grow, those of the signers by one.      *)
LEMMA AfterAnteEffect ==
  ASSUME NEW s \in AppState, NEW tx \in Tx
  PROVE  /\ AfterAnte(s, tx).ids = s.ids
         /\ \A a \in Address :
              /\ a # Charged(tx) => AfterAnte(s, tx).bal[a] = s.bal[a]
              /\ AfterAnte(s, tx).seq[a] =
                   IF a \in TxSigners(tx) THEN s.seq[a] + 1 ELSE s.seq[a]
<1> DEFINE d == DeductFee(s, tx)
           q == [a \in Address |-> IF a \in TxSigners(tx) THEN d.seq[a] + 1 ELSE d.seq[a]]
           b == [s.bal EXCEPT ![Charged(tx)] = s.bal[Charged(tx)] - tx.fee]
<1>1. d = [s EXCEPT !.bal = b, !.fees = s.fees + tx.fee]
  BY DEF DeductFee
<1>2. AfterAnte(s, tx) = [d EXCEPT !.seq = q]
  BY DEF AfterAnte, IncrementSequence
<1>3. \A a \in Address : a # Charged(tx) => b[a] = s.bal[a]
  BY DEF AppState
<1> HIDE DEF b
<1>4. d.ids = s.ids /\ d.seq = s.seq /\ d.bal = b
      /\ DOMAIN d = {"ids", "accts", "seq", "bal", "fees", "grants", "received"}
  BY <1>1 DEF AppState
<1>5. \A a \in Address : q[a] = IF a \in TxSigners(tx) THEN s.seq[a] + 1 ELSE s.seq[a]
  BY <1>4
<1> HIDE DEF d, q
<1>6. /\ AfterAnte(s, tx).ids = d.ids /\ AfterAnte(s, tx).bal = d.bal
      /\ AfterAnte(s, tx).seq = q
  BY <1>2, <1>4
<1> QED
  BY <1>3, <1>4, <1>5, <1>6

(* Whoever is charged pays the fee.                                        *)
LEMMA FeeDeducted ==
  ASSUME NEW s \in AppState, NEW tx \in Tx
  PROVE  AfterAnte(s, tx).bal[Charged(tx)] = s.bal[Charged(tx)] - tx.fee
<1> DEFINE c == Charged(tx)
           b == [s.bal EXCEPT ![c] = s.bal[c] - tx.fee]
<1>1. c \in Address /\ s.bal \in [Address -> Nat]
  BY TxFields DEF AppState
<1>2. AfterAnte(s, tx).bal = b
  BY DEF AfterAnte, IncrementSequence, DeductFee, AppState
<1>3. b[c] = s.bal[c] - tx.fee
  BY <1>1
<1> QED
  BY <1>2, <1>3

-----------------------------------------------------------------------------
(* The invariant.                                                          *)

(* The invariant holds at first.                                           *)
LEMMA IInvInit == Init => IInv
<1> SUFFICES ASSUME Init PROVE IInv
  OBVIOUS
<1>1. TypeOK
  BY TypeInit
<1>2. Keeps(committed.ids, deliver.ids)
  BY DEF Init, Keeps
<1> QED
  BY <1>1, <1>2 DEF Init, IInv, ChainInv, BranchInv, PoolInv, MoneyInv, NoCompetingNonces, NoState

(* What holds of committed states and blocks.                              *)
LEMMA ChainNext == IInv /\ [Next]_vars => ChainInv'
<1> SUFFICES ASSUME IInv, [Next]_vars PROVE ChainInv'
  OBVIOUS
<1> DEFINE I == InitGenesis(genesis.identities)
<1>0. TypeOK /\ ChainInv /\ BranchInv
  BY DEF IInv
<1>1. CASE InitChain
  <2>1. committed.ids = NoState.ids
    BY <1>0, <1>1 DEF InitChain, ChainInv
  <2> QED
    BY <1>0, <1>1, <2>1, EmptyKeeps DEF InitChain, ChainInv
<1>2. CASE InitIdentities
  <2>1. committed.ids = NoState.ids
    BY <1>0, <1>2 DEF InitIdentities, ChainInv
  <2>2. deliver'.ids = ImportInto(deliver.ids, genesis.identities)
    BY <1>0, <1>2 DEF InitIdentities, TypeOK, AppState
  <2>3. Keeps(I, deliver'.ids)
    BY <2>2 DEF Keeps, ImportInto
  <2> HIDE DEF I
  <2> QED
    BY <1>0, <1>2, <2>1, <2>3, EmptyKeeps DEF InitIdentities, ChainInv, I
<1>3. CASE BeginBlock
  BY <1>0, <1>3 DEF BeginBlock, ChainInv
<1>4. ASSUME NEW tx, RejectTx(tx)
      PROVE  ChainInv'
  BY <1>0, <1>4 DEF RejectTx, PhaseAfterFailure, ChainInv
<1>5. ASSUME NEW tx, BeginTx(tx)
      PROVE  ChainInv'
  <2>1. tx \in Tx
    BY <1>0, <1>5, NextTxType DEF BeginTx
  <2>2. deliver'.ids = deliver.ids
    BY <1>0, <1>5, <2>1, AfterAnteEffect DEF BeginTx, TypeOK
  <2> QED
    BY <1>0, <1>5, <2>2 DEF BeginTx, ChainInv
<1>6. CASE ExecMsg
  BY <1>0, <1>6 DEF ExecMsg, ChainInv
<1>7. CASE FailTx
  BY <1>0, <1>7 DEF FailTx, PhaseAfterFailure, ChainInv
<1>8. CASE EndTx
  <2>1. Keeps(deliver.ids, deliver'.ids)
    BY <1>0, <1>8 DEF EndTx, BranchInv
  <2>2. Keeps(committed.ids, deliver'.ids)
    BY <1>0, <2>1, KeepsTransitive DEF ChainInv
  <2>3. phase \in {"idle", "block"} => Keeps(I, deliver'.ids)
    BY <1>0, <2>1, KeepsTransitive DEF ChainInv
  <2> QED
    BY <1>0, <1>8, <2>2, <2>3 DEF EndTx, ChainInv
<1>9. CASE Commit
  <2>1. height' > 0
    BY <1>0, <1>9, GenesisAssumption DEF Commit, BlockHeight, TypeOK
  <2>2. Keeps(deliver.ids, deliver.ids)
    BY DEF Keeps
  <2>3. height' # 0
    BY <2>1
  <2> QED
    BY <1>0, <1>9, <2>1, <2>2, <2>3 DEF Commit, ChainInv
<1>10. ASSUME NEW tx, CheckTx(tx)
       PROVE  ChainInv'
  BY <1>0, <1>10 DEF CheckTx, chainVars, ChainInv
<1>11. ASSUME NEW tx, RecheckTx(tx)
       PROVE  ChainInv'
  BY <1>0, <1>11 DEF RecheckTx, chainVars, ChainInv
<1>12. CASE Crash
  <2>1. Keeps(committed.ids, committed.ids)
    BY DEF Keeps
  <2>2. height = 0 \/ height > 0
    BY <1>0 DEF TypeOK
  <2> QED
    BY <1>0, <1>12, <2>1, <2>2 DEF Crash, ChainInv
<1>13. CASE UNCHANGED vars
  BY <1>0, <1>13 DEF vars, ChainInv
<1> QED
  BY <1>1, <1>2, <1>3, <1>4, <1>5, <1>6, <1>7, <1>8, <1>9, <1>10, <1>11,
     <1>12, <1>13 DEF Next

(* Blocks are never executed at height 0, so their gate is never open.     *)
LEMMA BlockGate ==
  ASSUME TypeOK, NEW st, NEW tx, IdentityVerified(st, tx.msgs, BlockHeight)
  PROVE  AllVerified(st, tx)
<1>1. BlockHeight # 0
  BY GenesisAssumption DEF BlockHeight, TypeOK
<1> QED
  BY <1>1 DEF IdentityVerified, AllVerified

(* What holds of the branch on which messages run.                         *)
LEMMA BranchNext == IInv /\ [Next]_vars => BranchInv'
<1> SUFFICES ASSUME IInv, [Next]_vars PROVE BranchInv'
  OBVIOUS
<1>0. TypeOK /\ BranchInv
  BY DEF IInv
<1>2. CASE InitChain \/ InitIdentities \/ BeginBlock \/ Commit
  <2>1. running' = NoTx
    BY <1>0, <1>2 DEF InitChain, InitIdentities, BeginBlock, Commit, BranchInv
  <2> QED
    BY <2>1 DEF BranchInv
<1>3. ASSUME NEW tx, RejectTx(tx)
      PROVE  BranchInv'
  BY <1>3 DEF RejectTx, NextTx, BranchInv
<1>4. ASSUME NEW tx, BeginTx(tx)
      PROVE  BranchInv'
  <2>1. tx \in Tx /\ deliver \in AppState
    BY <1>0, <1>4, NextTxType DEF BeginTx, TypeOK
  <2>2. deliver' = AfterAnte(deliver, tx) /\ deliver'.ids = deliver.ids
    BY <1>4, <2>1, AfterAnteEffect DEF BeginTx
  <2>3. deliver' \in AppState
    BY <1>0, <1>4, TypeNext DEF TypeOK
  <2>4. /\ running'.tx = tx /\ running'.branch = deliver'
        /\ phase' = phase /\ phase \in {"gentx", "block"}
    BY <1>4 DEF BeginTx, NextTx
  <2>5. Keeps(deliver'.ids, running'.branch.ids)
    BY <2>4 DEF Keeps
  <2>6. phase = "block" => AllVerified(deliver'.ids, tx)
    <3>1. IdentityVerified(deliver.ids, tx.msgs, DeliverHeight)
      BY <1>4, AnteOk DEF BeginTx
    <3> QED
      BY <1>0, <2>2, <3>1, BlockGate DEF DeliverHeight
  <2>7. BranchOk(deliver', tx, running'.branch)
    <3>1. \A a \in Address : /\ deliver'.bal[a] >= deliver'.bal[a]
                             /\ ~(deliver'.bal[a] > deliver'.bal[a])
      BY <2>3 DEF AppState
    <3> QED
      BY <2>4, <3>1 DEF BranchOk
  <2> QED
    BY <2>4, <2>5, <2>6, <2>7 DEF BranchInv
<1>5. CASE ExecMsg
  <2> DEFINE m == running.tx.msgs[running.next]
  <2>1. running \in Running /\ m \in Msg /\ running.next \in DOMAIN running.tx.msgs
    BY <1>0, <1>5, NextMsgType DEF ExecMsg
  <2>2. HandlerOk(running.branch, m) /\ phase' = phase /\ deliver' = deliver
        /\ running # NoTx
    BY <1>5 DEF ExecMsg
  <2>3. PICK now \in Time :
          running' = [running EXCEPT !.next = running.next + 1,
                        !.branch = AfterHandler(running.branch, m, now)]
    BY <1>5 DEF ExecMsg
  <2>4. /\ running.branch \in AppState /\ running.tx \in Tx
        /\ running'.tx = running.tx
        /\ running'.branch = AfterHandler(running.branch, m, now)
    BY <2>1, <2>3 DEF Running
  <2>5. /\ Keeps(deliver.ids, running.branch.ids) /\ phase \in {"gentx", "block"}
        /\ phase = "block" =>
             /\ AllVerified(deliver.ids, running.tx)
         /\ BranchOk(deliver, running.tx, running.branch)
    BY <1>0, <2>2 DEF BranchInv
  <2>6. Keeps(deliver.ids, running'.branch.ids)
    <3>1. Keeps(running.branch.ids, running'.branch.ids)
      BY <2>1, <2>2, <2>4, HandlerKeeps
    <3> QED
      BY <2>5, <3>1, KeepsTransitive
  <2>7. phase = "block" => BranchOk(deliver, running.tx, running'.branch)
    <3> SUFFICES ASSUME phase = "block" PROVE BranchOk(deliver, running.tx, running'.branch)
      OBVIOUS
    <3>1. MsgVerified(deliver.ids, m)
      BY <2>1, <2>5 DEF AllVerified
    <3>2. deliver \in AppState
      BY <1>0 DEF TypeOK
    <3> QED
      BY <2>1, <2>2, <2>4, <2>5, <3>1, <3>2, BranchStep
  <2> HIDE DEF m
  <2> QED
    BY <2>2, <2>4, <2>5, <2>6, <2>7 DEF BranchInv
<1>6. CASE FailTx \/ EndTx \/ Crash
  BY <1>6 DEF FailTx, EndTx, Crash, BranchInv
<1>7. CASE UNCHANGED chainVars
  BY <1>0, <1>7 DEF chainVars, BranchInv, BranchOk
<1> QED
  BY <1>2, <1>3, <1>4, <1>5, <1>6, <1>7 DEF Next, CheckTx, RecheckTx, vars, chainVars

(* A transaction that the check state admits has its sequence numbers, and *)
(* is verified on the committed identities unless the check state has the  *)
(* height of genesis.                                                      *)
LEMMA Admitted ==
  ASSUME IInv, NEW tx \in Tx, AnteCode(check, tx, checkHeight) = "ok"
  PROVE  /\ height > 0
         /\ checkHeight > 0 => AllVerified(committed.ids, tx)
         /\ \A a \in TxSigners(tx) : tx.nonce[a] = check.seq[a]
<1>1. CanPayFee(check, tx) /\ SequencesMatch(check, tx)
      /\ IdentityVerified(check.ids, tx.msgs, checkHeight)
  BY AnteOk
<1>2. height # 0
  BY <1>1 DEF IInv, PoolInv, CanPayFee
<1>3. height > 0
  BY <1>2 DEF IInv, TypeOK
<1>4. check.ids = committed.ids
  BY <1>3 DEF IInv, PoolInv
<1>5. checkHeight > 0 => AllVerified(committed.ids, tx)
  BY <1>1, <1>4 DEF IdentityVerified, AllVerified
<1>6. \A a \in TxSigners(tx) : tx.nonce[a] = check.seq[a]
  BY <1>1 DEF SequencesMatch
<1> QED
  BY <1>3, <1>5, <1>6

(* Writing the increments for one admitted transaction to the check state  *)
(* keeps the rechecked ones apart from each other.                         *)
LEMMA NoncesApart ==
  ASSUME TypeOK, NEW R \in SUBSET Tx, NEW tx \in Tx,
         \A t \in R : \A a \in TxSigners(t) : t.nonce[a] < check.seq[a],
         \A t, u \in R : \A a \in TxSigners(t) \cap TxSigners(u) :
           t.nonce[a] = u.nonce[a] => t = u,
         \A a \in TxSigners(tx) : tx.nonce[a] = check.seq[a]
  PROVE  /\ \A t \in R \cup {tx} : \A a \in TxSigners(t) :
              t.nonce[a] < AfterAnte(check, tx).seq[a]
         /\ \A t, u \in R \cup {tx} : \A a \in TxSigners(t) \cap TxSigners(u) :
              t.nonce[a] = u.nonce[a] => t = u
<1>1. check \in AppState /\ check.seq \in [Address -> Nat]
  BY DEF TypeOK, AppState
<1>2. \A t \in R \cup {tx} : /\ TxSigners(t) \subseteq Address
                           /\ t.nonce \in [Address -> Nat]
  BY TxFields DEF Tx
<1>3. \A a \in Address :
        AfterAnte(check, tx).seq[a] =
          IF a \in TxSigners(tx) THEN check.seq[a] + 1 ELSE check.seq[a]
  BY <1>1, AfterAnteEffect
<1>4. ASSUME NEW t \in R \cup {tx}, NEW a \in TxSigners(t)
      PROVE  t.nonce[a] < AfterAnte(check, tx).seq[a]
  <2>1. a \in Address /\ t.nonce[a] \in Nat /\ check.seq[a] \in Nat
    BY <1>1, <1>2, <1>4
  <2>2. t.nonce[a] < check.seq[a] \/ (t = tx /\ t.nonce[a] = check.seq[a])
    BY <1>4
  <2>3. CASE a \in TxSigners(tx)
    BY <1>3, <2>1, <2>2, <2>3
  <2>4. CASE a \notin TxSigners(tx)
    BY <1>3, <1>4, <2>1, <2>2, <2>4
  <2> QED
    BY <2>3, <2>4
<1>5. ASSUME NEW t \in R \cup {tx}, NEW u \in R \cup {tx},
             NEW a \in TxSigners(t) \cap TxSigners(u),
             t.nonce[a] = u.nonce[a]
      PROVE  t = u
  <2>1. a \in Address /\ check.seq[a] \in Nat /\ t.nonce[a] \in Nat /\ u.nonce[a] \in Nat
    BY <1>1, <1>2, <1>5
  <2>2. CASE t \in R /\ u \in R
    BY <1>5, <2>2
  <2>3. CASE t = tx /\ u = tx
    BY <2>3
  <2>4. CASE t \in R /\ u = tx
    BY <1>5, <2>1, <2>4
  <2>5. CASE t = tx /\ u \in R
    BY <1>5, <2>1, <2>5
  <2> QED
    BY <2>2, <2>3, <2>4, <2>5
<1> QED
  BY <1>4, <1>5

(* After a recheck no two transactions of the pool share a signer and      *)
(* nonce.                                                                  *)
LEMMA RecheckedApart ==
  ASSUME TypeOK, PoolInv, NEW tx \in Tx,
         \A a \in TxSigners(tx) : tx.nonce[a] = check.seq[a]
  PROVE  LET R == (mempool \ stale) \cup {tx}
         IN  /\ \A t \in R : \A a \in TxSigners(t) :
                  t.nonce[a] < AfterAnte(check, tx).seq[a]
             /\ \A t, u \in R : \A a \in TxSigners(t) \cap TxSigners(u) :
                  t.nonce[a] = u.nonce[a] => t = u
<1> DEFINE R == mempool \ stale
<1>1. R \in SUBSET Tx
  BY DEF TypeOK
<1>2. /\ \A t \in R : \A a \in TxSigners(t) : t.nonce[a] < check.seq[a]
      /\ \A t, u \in R : \A a \in TxSigners(t) \cap TxSigners(u) :
           t.nonce[a] = u.nonce[a] => t = u
  BY DEF PoolInv, NoCompetingNonces
<1> HIDE DEF R
<1> QED
  BY <1>1, <1>2, NoncesApart DEF R

(* What holds of the check state and the pool.                             *)
LEMMA PoolNext == IInv /\ [Next]_vars => PoolInv'
<1> SUFFICES ASSUME IInv, [Next]_vars PROVE PoolInv'
  OBVIOUS
<1>0. TypeOK /\ ChainInv /\ PoolInv /\ mempool \subseteq Tx /\ stale \subseteq mempool
  BY DEF IInv, TypeOK
<1>1. CASE UNCHANGED <<height, committed, check, mempool, stale>> /\ height = 0
  BY <1>0, <1>1 DEF PoolInv, NoCompetingNonces
<1>a. CASE UNCHANGED <<height, committed, poolVars>>
  BY <1>0, <1>a DEF poolVars, PoolInv, NoCompetingNonces
<1>2. CASE Commit
  <2>1. height' > 0 /\ height' # 0
    BY <1>0, <1>2, GenesisAssumption DEF Commit, BlockHeight, TypeOK
  <2>2. check' = deliver /\ committed' = deliver /\ mempool' \subseteq mempool
        /\ stale' = mempool'
    BY <1>2 DEF Commit
  <2>3. mempool' \ stale' = {}
    BY <2>2
  <2> QED
    BY <2>1, <2>2, <2>3 DEF PoolInv, NoCompetingNonces
<1>3. ASSUME NEW tx \in Txs, CheckTx(tx)
      PROVE  PoolInv'
  <2>1. tx \in Tx
    BY TxsType
  <2>2. /\ stale = {} /\ stale' = {} /\ mempool' = mempool \cup {tx}
        /\ check' = AfterAnte(check, tx)
        /\ height' = height /\ committed' = committed /\ checkHeight' = checkHeight
        /\ AnteCode(check, tx, checkHeight) = "ok"
    BY <1>3 DEF CheckTx, chainVars
  <2>3. /\ height > 0 /\ (checkHeight > 0 => AllVerified(committed.ids, tx))
        /\ \A a \in TxSigners(tx) : tx.nonce[a] = check.seq[a]
    BY <2>1, <2>2, Admitted
  <2>4. check'.ids = committed'.ids
    BY <1>0, <2>1, <2>2, <2>3, AfterAnteEffect DEF TypeOK, PoolInv
  <2>5. height' # 0
    BY <1>0, <2>2, <2>3 DEF TypeOK
  <2>6. /\ \A t \in mempool' \ stale' : \A a \in TxSigners(t) :
             t.nonce[a] < check'.seq[a]
        /\ NoCompetingNonces'
    <3>1. mempool' \ stale' = (mempool \ stale) \cup {tx}
      BY <2>2
    <3> QED
      BY <1>0, <2>1, <2>2, <2>3, <3>1, RecheckedApart DEF NoCompetingNonces
  <2> QED
    BY <1>0, <2>2, <2>3, <2>4, <2>5, <2>6 DEF PoolInv
<1>4. ASSUME NEW tx \in stale, RecheckTx(tx)
      PROVE  PoolInv'
  <2>1. tx \in Tx /\ tx \in mempool /\ height # 0
    BY <1>0 DEF PoolInv
  <2>2. /\ height' = height /\ committed' = committed /\ stale' = stale \ {tx}
        /\ checkHeight' = checkHeight
    BY <1>4 DEF RecheckTx, chainVars
  <2>3. CASE AnteCode(check, tx, checkHeight) = "ok"
    <3>1. check' = AfterAnte(check, tx) /\ mempool' = mempool
      BY <1>4, <2>3 DEF RecheckTx
    <3>2. /\ height > 0 /\ (checkHeight > 0 => AllVerified(committed.ids, tx))
          /\ \A a \in TxSigners(tx) : tx.nonce[a] = check.seq[a]
      BY <2>1, <2>3, Admitted
    <3>3. check'.ids = committed'.ids
      BY <1>0, <2>1, <2>2, <3>1, <3>2, AfterAnteEffect DEF TypeOK, PoolInv
    <3>4. mempool' \ stale' = (mempool \ stale) \cup {tx}
      BY <1>0, <2>1, <2>2, <3>1
    <3>5. /\ \A t \in mempool' \ stale' : \A a \in TxSigners(t) :
               t.nonce[a] < check'.seq[a]
          /\ NoCompetingNonces'
      BY <1>0, <2>1, <3>1, <3>2, <3>4, RecheckedApart DEF NoCompetingNonces
    <3> QED
      BY <1>0, <2>1, <2>2, <3>1, <3>2, <3>3, <3>4, <3>5 DEF PoolInv
  <2>4. CASE AnteCode(check, tx, checkHeight) # "ok"
    <3>1. check' = check /\ mempool' = mempool \ {tx}
      BY <1>4, <2>4 DEF RecheckTx
    <3>2. mempool' \ stale' = mempool \ stale
      BY <2>2, <3>1
    <3> QED
      BY <1>0, <2>2, <3>1, <3>2 DEF PoolInv, NoCompetingNonces
  <2> QED
    BY <2>3, <2>4
<1>5. CASE Crash
  <2>1. /\ mempool' = {} /\ check' = committed /\ committed' = committed
        /\ height' = height
    BY <1>5 DEF Crash
  <2>2. height = 0 => committed.accts = {}
    BY <1>0 DEF ChainInv, NoState
  <2> QED
    BY <2>1, <2>2 DEF PoolInv, NoCompetingNonces
<1>6. \/ UNCHANGED <<height, committed, poolVars>>
      \/ UNCHANGED <<height, committed, check, mempool, stale>> /\ height = 0
      \/ Commit
      \/ Crash
      \/ \E tx \in Txs : CheckTx(tx)
      \/ \E tx \in stale : RecheckTx(tx)
  <2>0. InitChain => UNCHANGED <<height, committed, check, mempool, stale>> /\ height = 0
    BY <1>0 DEF InitChain, ChainInv
  <2>1. InitIdentities \/ BeginBlock \/ ExecMsg \/ FailTx \/ EndTx
          => UNCHANGED <<height, committed, poolVars>>
    BY DEF poolVars, InitIdentities, BeginBlock, ExecMsg, FailTx, EndTx
  <2>2. \A tx : RejectTx(tx) \/ BeginTx(tx) => UNCHANGED <<height, committed, poolVars>>
    BY DEF poolVars, RejectTx, BeginTx
  <2>3. UNCHANGED vars => UNCHANGED <<height, committed, poolVars>>
    BY DEF vars, poolVars
  <2> QED
    BY <2>0, <2>1, <2>2, <2>3 DEF Next
<1> QED
  BY <1>1, <1>a, <1>2, <1>3, <1>4, <1>5, <1>6

(* The stages of a transaction keep what a state is worth; the others copy *)
(* states.  CheckTx cannot work on the empty state: it has no account.     *)
LEMMA MoneyNext == IInv /\ [Next]_vars => MoneyInv'
<1> SUFFICES ASSUME IInv, [Next]_vars PROVE MoneyInv'
  OBVIOUS
<1>0. TypeOK /\ ChainInv /\ BranchInv /\ MoneyInv
  BY DEF IInv
<1>a. deliver \in AppState /\ check \in AppState
  BY <1>0 DEF TypeOK
<1>1. CASE InitChain
  BY <1>0, <1>1 DEF InitChain, MoneyInv
<1>2. CASE InitIdentities
  <2>1. /\ [deliver EXCEPT !.ids = ImportInto(@, genesis.identities)].bal = deliver.bal
        /\ [deliver EXCEPT !.ids = ImportInto(@, genesis.identities)].fees = deliver.fees
    BY <1>a DEF AppState
  <2>2. Worth(deliver') = Worth(deliver)
    BY <1>2, <2>1 DEF InitIdentities, Worth
  <2> QED
    BY <1>0, <1>2, <2>2 DEF InitIdentities, poolVars, MoneyInv
<1>3. CASE BeginBlock
  BY <1>0, <1>3 DEF BeginBlock, poolVars, MoneyInv
<1>4. ASSUME NEW tx, RejectTx(tx)
      PROVE  MoneyInv'
  BY <1>0, <1>4 DEF RejectTx, NextTx, PhaseAfterFailure, poolVars, MoneyInv
<1>5. ASSUME NEW tx, BeginTx(tx)
      PROVE  MoneyInv'
  <2>1. tx \in Tx
    BY <1>0, <1>5, NextTxType DEF BeginTx
  <2>2. Worth(AfterAnte(deliver, tx)) = Worth(deliver)
    BY <1>a, <2>1, AfterAnteKeepsWorth
  <2>3. phase # "new"
    BY <1>5 DEF BeginTx, NextTx
  <2>4. deliver' = AfterAnte(deliver, tx) /\ running'.branch = AfterAnte(deliver, tx)
    BY <1>5 DEF BeginTx
  <2> QED
    BY <1>0, <1>5, <2>2, <2>3, <2>4 DEF BeginTx, poolVars, MoneyInv
<1>6. CASE ExecMsg
  <2> DEFINE m == running.tx.msgs[running.next]
  <2>1. running \in Running /\ m \in Msg
    BY <1>0, <1>6, NextMsgType DEF ExecMsg
  <2>2. PICK now \in Time :
          running' = [running EXCEPT !.next = running.next + 1,
                        !.branch = AfterHandler(running.branch, m, now)]
    BY <1>6 DEF ExecMsg
  <2>3. Worth(AfterHandler(running.branch, m, now)) = Worth(running.branch)
    BY <2>1, AfterHandlerKeepsWorth DEF Running
  <2>4. running'.branch = AfterHandler(running.branch, m, now)
    BY <2>1, <2>2 DEF Running
  <2> HIDE DEF m
  <2> QED
    BY <1>0, <1>6, <2>3, <2>4 DEF ExecMsg, poolVars, MoneyInv
<1>7. CASE FailTx
  BY <1>0, <1>7 DEF FailTx, PhaseAfterFailure, BranchInv, poolVars, MoneyInv
<1>8. CASE EndTx
  BY <1>0, <1>8 DEF EndTx, BranchInv, poolVars, MoneyInv
<1>9. CASE Commit
  BY <1>0, <1>9 DEF Commit, MoneyInv
<1>10. ASSUME NEW tx \in Tx, check' = AfterAnte(check, tx), CanPayFee(check, tx),
              UNCHANGED chainVars
       PROVE  MoneyInv'
  <2>1. check # NoState
    BY <1>10 DEF CanPayFee, NoState
  <2>2. Worth(check') = Worth(check)
    BY <1>a, <1>10, AfterAnteKeepsWorth
  <2> QED
    BY <1>0, <1>10, <2>1, <2>2 DEF chainVars, MoneyInv
<1>11. ASSUME NEW tx \in Txs, CheckTx(tx)
       PROVE  MoneyInv'
  <2>1. CanPayFee(check, tx)
    BY <1>11, AnteOk DEF CheckTx
  <2> QED
    BY <1>10, <1>11, <2>1, TxsType DEF CheckTx
<1>12. ASSUME NEW tx \in stale, RecheckTx(tx)
       PROVE  MoneyInv'
  <2>1. tx \in Tx
    BY <1>0 DEF TypeOK
  <2>2. CASE AnteCode(check, tx, checkHeight) = "ok"
    <3>1. CanPayFee(check, tx)
      BY <2>2, AnteOk
    <3> QED
      BY <1>10, <1>12, <2>1, <2>2, <3>1 DEF RecheckTx
  <2>3. CASE AnteCode(check, tx, checkHeight) # "ok"
    BY <1>0, <1>12, <2>3 DEF RecheckTx, chainVars, MoneyInv
  <2> QED
    BY <2>2, <2>3
<1>13. CASE Crash
  <2>1. height = 0 \/ height > 0
    BY <1>0 DEF TypeOK
  <2> QED
    BY <1>0, <1>13, <2>1 DEF Crash, ChainInv, MoneyInv
<1>14. CASE UNCHANGED vars
  BY <1>0, <1>14 DEF vars, MoneyInv
<1> QED
  BY <1>1, <1>2, <1>3, <1>4, <1>5, <1>6, <1>7, <1>8, <1>9, <1>11, <1>12,
     <1>13, <1>14 DEF Next

(* Every step keeps the invariant.                                         *)
LEMMA IInvNext == IInv /\ [Next]_vars => IInv'
  BY TypeNext, ChainNext, BranchNext, PoolNext, MoneyNext DEF IInv

(* The inductive invariant holds in every reachable state.                 *)
LEMMA Invariance == Spec => []IInv
  BY IInvInit, IInvNext, PTL DEF Spec

-----------------------------------------------------------------------------
(* Theorems.                                                               *)

(* Once a started node has committed a block, whatever is in its mempool   *)
(* and not waiting for a recheck passes the gate of the next block: what   *)
(* it admitted with the gate open is turned out by the recheck, and the    *)
(* verdict on the rest never goes stale, since no identity is removed.     *)
THEOREM AdmittedTxsPassGate == Spec => []AdmittedPassGate
<1>1. IInv => AdmittedPassGate
  <2> SUFFICES ASSUME IInv, checkHeight > 0, NEW tx \in mempool \ stale
               PROVE  IdentityVerified(deliver.ids, tx.msgs, BlockHeight)
    BY DEF AdmittedPassGate
  <2>1. tx \in Tx /\ AllVerified(committed.ids, tx) /\ Keeps(committed.ids, deliver.ids)
    BY DEF IInv, TypeOK, PoolInv, ChainInv
  <2>2. AllVerified(deliver.ids, tx)
    BY <2>1, VerifiedMonotone
  <2> QED
    BY <2>2 DEF AllVerified, IdentityVerified
<1> QED
  BY <1>1, Invariance, PTL

(* Two admitted and rechecked transactions never carry the same sequence   *)
(* number of one signer.                                                   *)
THEOREM AdmittedNoncesDiffer == Spec => []NoCompetingNonces
<1>1. IInv => NoCompetingNonces
  BY DEF IInv, PoolInv
<1> QED
  BY <1>1, Invariance, PTL

(* Every committed state has the identities of the genesis document.       *)
THEOREM GenesisIdentitiesSurvive == Spec => []GenesisSurvives
<1>1. IInv => GenesisSurvives
  BY DEF IInv, ChainInv, Keeps, GenesisSurvives
<1> QED
  BY <1>1, Invariance, PTL

(* The committed identities implement a write-once map, across blocks,     *)
(* rolled-back transactions and crashes.                                   *)
THEOREM RegistryRefinement == Spec => RegistryWriteOnce
<1>1. Init => WriteOnce!Init
  BY DEF Init, WriteOnce!Init, NoState, EmptyStore
<1>2. IInv /\ IInv' /\ [Next]_vars => [WriteOnce!Next]_(committed.ids)
  <2> SUFFICES ASSUME IInv, IInv', [Next]_vars, committed'.ids # committed.ids
               PROVE  WriteOnce!Register
    BY DEF WriteOnce!Next
  <2>1. committed'.ids \in [Address -> IdentityRecord \cup {NoIdentity}]
    BY DEF IInv, TypeOK, AppState, Store
  <2>2. committed' = deliver
    <3>1. InitChain \/ InitIdentities \/ BeginBlock \/ ExecMsg \/ FailTx \/ EndTx \/ Crash
            => committed' = committed
      BY DEF InitChain, InitIdentities, BeginBlock, ExecMsg, FailTx, EndTx, Crash
    <3>2. \A tx : RejectTx(tx) \/ BeginTx(tx) \/ CheckTx(tx) \/ RecheckTx(tx)
                   => committed' = committed
      BY DEF RejectTx, BeginTx, CheckTx, RecheckTx, chainVars
    <3>3. Commit => committed' = deliver
      BY DEF Commit
    <3> QED
      BY <3>1, <3>2, <3>3 DEF Next, vars
  <2>3. Keeps(committed.ids, deliver.ids)
    BY DEF IInv, ChainInv
  <2> QED
    BY <2>1, <2>2, <2>3 DEF WriteOnce!Register, Keeps, Found
<1> QED
  BY <1>1, <1>2, Invariance, PTL DEF Spec, RegistryWriteOnce, WriteOnce!Spec

-----------------------------------------------------------------------------
(* Within a block, the state that transactions see changes in two ways.    *)
LEMMA BlockStep ==
  ASSUME [Next]_vars, WithinBlock, deliver' # deliver
  PROVE  EndTx \/ \E tx : BeginTx(tx)
<1>1. InitChain \/ InitIdentities \/ BeginBlock \/ ExecMsg \/ FailTx \/ Commit \/ Crash
        => ~WithinBlock \/ deliver' = deliver
  BY DEF InitChain, InitIdentities, BeginBlock, ExecMsg, FailTx, Commit, Crash, WithinBlock
<1>2. \A tx : RejectTx(tx) \/ CheckTx(tx) \/ RecheckTx(tx) => deliver' = deliver
  BY DEF RejectTx, CheckTx, RecheckTx, chainVars
<1> QED
  BY <1>1, <1>2 DEF Next, vars

(* The ante chain in DeliverTx: all messages verified, and only the one    *)
(* charged pays.                                                           *)
LEMMA BeginTxEffect ==
  ASSUME IInv, WithinBlock, NEW tx, BeginTx(tx)
  PROVE  /\ tx \in Tx /\ AllVerified(deliver.ids, tx)
         /\ deliver'.ids = deliver.ids
         /\ \A a \in Address : a # Charged(tx) => deliver'.bal[a] = deliver.bal[a]
<1>0. TypeOK /\ deliver \in AppState
  BY DEF IInv, TypeOK
<1>1. tx \in Tx
  BY <1>0, NextTxType DEF BeginTx
<1>2. IdentityVerified(deliver.ids, tx.msgs, BlockHeight)
  BY AnteOk DEF BeginTx, DeliverHeight, WithinBlock
<1> QED
  BY <1>0, <1>1, <1>2, BlockGate, AfterAnteEffect DEF BeginTx

(* The end of a transaction keeps its branch or drops it.                  *)
LEMMA EndTxEffect ==
  ASSUME IInv, WithinBlock, EndTx
  PROVE  BranchOk(deliver, running.tx, deliver')
  BY DEF IInv, BranchInv, EndTx, WithinBlock

(* An address without an identity loses nothing in a block but the fees it *)
(* has agreed to pay, interchain accounts excepted: the first signer of a  *)
(* transaction that passes the gate has an identity, so an unregistered    *)
(* address that is charged was named as the payer, and is then one of      *)
(* those who signed, or was named as the granter, and then it has an       *)
(* allowance for the payer in the state the fee is deducted from.          *)
THEOREM UnregisteredPaysOnlyAgreedFees == Spec => UnregisteredPaysAgreedFees
<1> DEFINE Agreed(a) ==
             /\ running = NoTx /\ running' # NoTx
             /\ a = Charged(running'.tx)
             /\ deliver'.bal[a] = deliver.bal[a] - running'.tx.fee
             /\ \/ a = running'.tx.payer
                \/ <<a, FeePayer(running'.tx)>> \in deliver.grants
<1>1. IInv /\ [Next]_vars =>
        (WithinBlock =>
           \A a \in Address \ InterchainAccounts :
             deliver'.bal[a] < deliver.bal[a] /\ ~Found(deliver.ids, a) => Agreed(a))
  <2> SUFFICES ASSUME IInv, [Next]_vars, WithinBlock,
                      NEW a \in Address \ InterchainAccounts,
                      deliver'.bal[a] < deliver.bal[a], ~Found(deliver.ids, a)
               PROVE  Agreed(a)
    OBVIOUS
  <2>0. deliver.bal \in [Address -> Nat] /\ deliver \in AppState
    BY DEF IInv, TypeOK, AppState
  <2>1. deliver' # deliver
    BY <2>0
  <2>2. CASE EndTx
    <3>1. deliver'.bal[a] >= deliver.bal[a]
      BY <2>2, EndTxEffect DEF BranchOk
    <3>2. deliver'.bal[a] \in Nat
      BY <2>2, IInvNext DEF IInv, TypeOK, AppState
    <3> QED
      BY <2>0, <3>1, <3>2
  <2>3. ASSUME NEW tx, BeginTx(tx)
        PROVE  Agreed(a)
    <3>1. tx \in Tx /\ AllVerified(deliver.ids, tx) /\ a = Charged(tx)
      BY <2>0, <2>3, BeginTxEffect
    <3>2. running = NoTx /\ running'.tx = tx /\ running' # NoTx
      <4>1. running' \in Running
        <5>1. TypeOK' /\ running' = [tx |-> tx, next |-> 1, branch |-> AfterAnte(deliver, tx)]
          BY <2>3, IInvNext DEF IInv, BeginTx
        <5>2. CanPayFee(deliver, tx)
          BY <2>3, AnteOk DEF BeginTx
        <5> QED
          BY <2>0, <3>1, <5>1, <5>2, AfterAnteType DEF Running
      <4> QED
        BY <2>3, <4>1, NoTxAssumption DEF BeginTx, NextTx
    <3>3. deliver'.bal[a] = deliver.bal[a] - tx.fee
      <4>1. deliver' = AfterAnte(deliver, tx)
        BY <2>3 DEF BeginTx
      <4> QED
        BY <2>0, <3>1, <4>1, FeeDeducted
    <3>4. SignerOf(tx.msgs[1]) # a
      <4>1. 1 \in DOMAIN tx.msgs /\ tx.msgs[1] \in Msg
        BY <3>1, TxFields
      <4> QED
        BY <3>1, <4>1, VerifiedParties DEF AllVerified
    <3>5. MayCharge(deliver, tx)
      BY <2>3, AnteOk DEF BeginTx, CanPayFee
    <3>6. a = tx.payer \/ <<a, FeePayer(tx)>> \in deliver.grants
      BY <3>1, <3>4, <3>5 DEF MayCharge, FeePayer
    <3> QED
      BY <3>1, <3>2, <3>3, <3>6
  <2> QED
    BY <2>1, <2>2, <2>3, BlockStep
<1> QED
  BY <1>1, Invariance, PTL DEF Spec, UnregisteredPaysAgreedFees

(* A transaction of bank messages credits registered addresses only.       *)
THEOREM BankRecipientsRegistered == Spec => BankCreditsAreChecked
<1> DEFINE Quiet == /\ WithinBlock /\ running # NoTx
                    /\ \A i \in DOMAIN running.tx.msgs :
                         running.tx.msgs[i].kind \notin {"vest", "recv"}
<1>1. IInv /\ [Next]_vars =>
        (Quiet => \A a \in Address :
                    deliver'.bal[a] > deliver.bal[a] => Found(deliver.ids, a))
  <2> SUFFICES ASSUME IInv, [Next]_vars, Quiet, NEW a \in Address,
                      deliver'.bal[a] > deliver.bal[a]
               PROVE  Found(deliver.ids, a)
    OBVIOUS
  <2>1. deliver.bal[a] \in Nat /\ BankOnly(running.tx)
    BY DEF IInv, TypeOK, AppState, BankOnly
  <2>2. deliver' # deliver
    BY <2>1
  <2>3. EndTx
    BY <2>2, BlockStep DEF BeginTx, NextTx
  <2> QED
    BY <2>1, <2>3, EndTxEffect DEF BranchOk
<1> QED
  BY <1>1, Invariance, PTL DEF Spec, BankCreditsAreChecked

(* In a block only interchain accounts become registered.                  *)
THEOREM ClosedMembership == Spec => OnlyPacketsRegister
<1>1. IInv /\ [Next]_vars =>
        (WithinBlock => Registered(deliver'.ids) \ Registered(deliver.ids)
                          \subseteq InterchainAccounts)
  <2> SUFFICES ASSUME IInv, [Next]_vars, WithinBlock, NEW a \in Address,
                      Found(deliver'.ids, a), ~Found(deliver.ids, a)
               PROVE  a \in InterchainAccounts
    BY DEF Registered
  <2>1. deliver' # deliver
    OBVIOUS
  <2>2. CASE EndTx
    BY <2>2, EndTxEffect DEF BranchOk
  <2>3. ASSUME NEW tx, BeginTx(tx)
        PROVE  FALSE
    BY <2>3, BeginTxEffect
  <2> QED
    BY <2>1, <2>2, <2>3, BlockStep
<1> QED
  BY <1>1, Invariance, PTL DEF Spec, OnlyPacketsRegister

(* A chain that starts at height 1 is never stopped by the identity gate.  *)
THEOREM GenesisNotGated == Spec => []GenesisGateOpen
<1>1. Init => GenesisGateOpen
  BY DEF Init, GenesisGateOpen
<1>2. GenesisGateOpen /\ [Next]_vars => GenesisGateOpen'
  <2> SUFFICES ASSUME GenesisGateOpen, [Next]_vars,
                      phase' = "halted", resp'.code = "identity"
               PROVE  genesis'.initialHeight > 1
    BY DEF GenesisGateOpen
  <2>1. CASE phase' = phase /\ resp' = resp /\ genesis' = genesis
    BY <2>1 DEF GenesisGateOpen
  <2>2. ASSUME NEW tx, RejectTx(tx)
        PROVE  genesis'.initialHeight > 1
    <3>1. CASE phase = "gentx"
      <4>1. AnteCode(deliver, tx, GenesisHeight) = "identity"
        BY <2>2, <3>1 DEF RejectTx, Result, DeliverHeight
      <4>2. ~IdentityVerified(deliver.ids, tx.msgs, GenesisHeight)
        BY <4>1 DEF AnteCode
      <4> QED
        BY <2>2, <4>2 DEF RejectTx, IdentityVerified, GenesisHeight
    <3>2. CASE phase # "gentx"
      BY <2>2, <3>2 DEF RejectTx, PhaseAfterFailure, NextTx
    <3> QED
      BY <3>1, <3>2
  <2>3. CASE FailTx
    BY <2>3 DEF FailTx, Result
  <2>4. ~InitChain /\ ~InitIdentities /\ ~BeginBlock /\ ~Commit /\ ~Crash
    BY DEF InitChain, InitIdentities, BeginBlock, Commit, Crash
  <2>5. \A tx : BeginTx(tx) \/ CheckTx(tx) \/ RecheckTx(tx)
                 => phase' = phase /\ resp' = resp /\ genesis' = genesis
    BY DEF BeginTx, CheckTx, RecheckTx, chainVars
  <2>6. ExecMsg => phase' = phase /\ resp' = resp /\ genesis' = genesis
    BY DEF ExecMsg
  <2>7. EndTx => genesis' = genesis /\ phase' = phase /\ resp'.code = "ok"
    BY DEF EndTx, Result
  <2> QED
    BY <2>1, <2>2, <2>3, <2>4, <2>5, <2>6, <2>7 DEF Next, vars
<1> QED
  BY <1>1, <1>2, PTL DEF Spec

(* No money is made or lost, on disk, in the block, in the check state or  *)
(* on the branch of a transaction that may still fail: fees that stay when *)
(* messages are rolled back are with the collector, and a multi-send takes *)
(* from its sender what all its outputs receive.                           *)
THEOREM MoneyConserved == Spec => []SupplyConserved
<1>1. \A s : Wealth(s) = Worth(s)
  BY DEF Wealth, Worth, SumOver
<1>2. IInv => SupplyConserved
  BY <1>1 DEF IInv, MoneyInv, SupplyConserved
<1> QED
  BY <1>2, Invariance, PTL

=============================================================================
