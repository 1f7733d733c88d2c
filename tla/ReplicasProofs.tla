--------------------------- MODULE ReplicasProofs ---------------------------
(***************************************************************************)
(* Theorems about Replicas.  Executing a block is a function of the state  *)
(* as far as it does not hold readings of a clock: states that are alike   *)
(* but for the times of creation stay alike under every transaction,       *)
(* whatever the clocks say.  With that, an execution in progress is what   *)
(* the first transactions of its block make of the committed state         *)
(* (ProgressInv), and a committed state is what the decided blocks make of *)
(* the genesis state.                                                      *)
(***************************************************************************)
EXTENDS Replicas, DataInduction

(* Equal but for the times of creation.                                    *)
Alike(s, t) ==
  /\ s.accts = t.accts /\ s.seq = t.seq /\ s.bal = t.bal
  /\ s.fees = t.fees /\ s.grants = t.grants /\ s.received = t.received
  /\ Registered(s.ids) = Registered(t.ids)
  /\ \A a \in Registered(s.ids) : s.ids[a].idHash = t.ids[a].idHash

Progress == [ok : BOOLEAN, state : AppState]

Now == CHOOSE t \in Time : TRUE

ProgressInv ==
  \A r \in Replica :
    exec[r] # NoExec =>
      Alike(exec[r].state,
            Effects(app[r], exec[r].block, height[r] + 1)[exec[r].next - 1])

ReplayInv == \A r \in Replica : Alike(app[r], Replayed(chain, height[r]))

IInv == TypeOK /\ ProgressInv /\ ReplayInv

-----------------------------------------------------------------------------
(* What the stages of a transaction do to a well-formed state.             *)

(* A message has a signer, and the fields of its kind.                     *)
LEMMA MsgFields ==
  ASSUME NEW m \in Msg
  PROVE  /\ m.kind = "create" => m.creator \in Address /\ m.cccd \in Cccd
         /\ m.kind \in {"send", "vest"} => m.from \in Address /\ m.to \in Address
         /\ m.kind = "multi" => m.from \in Address /\ m.tos \in SUBSET Address
         /\ m.kind \in {"grant", "revoke"} => m.granter \in Address /\ m.grantee \in Address
         /\ m.kind = "recv" => m.signer \in Address /\ m.packet \in Packet
         /\ m.kind # "recv" => m \in PlainMsg
         /\ SignerOf(m) \in Address
  BY DEF Msg, PlainMsg, IdentityMsg, CreateIdentityMsg, ParamsMsg, SendMsg,
         MultiSendMsg, VestMsg, OtherMsg, AllowanceMsg, RecvMsg, SignerOf

(* The first message exists, so somebody pays the fee, and has signed.     *)
LEMMA TxFields ==
  ASSUME NEW tx \in Tx
  PROVE  /\ tx.msgs \in Seq(Msg) /\ Len(tx.msgs) \in Nat \ {0}
         /\ \A i \in 1 .. Len(tx.msgs) : tx.msgs[i] \in Msg
         /\ FeePayer(tx) \in Address /\ Charged(tx) \in Address
         /\ FeePayer(tx) \in TxSigners(tx)
         /\ TxSigners(tx) \subseteq Address
         /\ tx.fee \in Nat
<1>1. /\ tx.msgs \in Seq(Msg) /\ tx.msgs # <<>> /\ tx.fee \in Nat
      /\ tx.payer \in Address \cup {NoAddress} /\ tx.granter \in Address \cup {NoAddress}
  BY DEF Tx
<1>2. Len(tx.msgs) \in Nat \ {0}
  BY <1>1
<1>3. \A i \in 1 .. Len(tx.msgs) : tx.msgs[i] \in Msg
  BY <1>1
<1>4. DOMAIN tx.msgs = 1 .. Len(tx.msgs)
  BY <1>1
<1>5. \A i \in DOMAIN tx.msgs : SignerOf(tx.msgs[i]) \in Address
  BY <1>3, <1>4, MsgFields
<1>6. 1 \in DOMAIN tx.msgs
  BY <1>2, <1>4
<1>7. FeePayer(tx) \in Address /\ FeePayer(tx) \in TxSigners(tx)
  BY <1>1, <1>5, <1>6 DEF FeePayer, TxSigners
<1> QED
  BY <1>1, <1>2, <1>3, <1>5, <1>7 DEF Charged, TxSigners

(* The ante chain keeps a state well formed when whoever pays has the fee. *)
LEMMA AfterAnteType ==
  ASSUME NEW s \in AppState, NEW tx \in Tx, CanPayFee(s, tx)
  PROVE  /\ AfterAnte(s, tx) \in AppState
         /\ AfterAnte(s, tx).ids = s.ids
<1>1. Charged(tx) \in Address /\ tx.fee \in Nat
  BY TxFields
<1>2. s.bal \in [Address -> Nat] /\ s.fees \in Nat /\ s.seq \in [Address -> Nat]
  BY DEF AppState
<1>3. s.bal[Charged(tx)] - tx.fee \in Nat
  BY <1>1, <1>2 DEF CanPayFee
<1>4. [s.bal EXCEPT ![Charged(tx)] = @ - tx.fee] \in [Address -> Nat]
  BY <1>1, <1>2, <1>3
<1>5. [a \in Address |-> IF a \in TxSigners(tx) THEN s.seq[a] + 1 ELSE s.seq[a]]
        \in [Address -> Nat]
  BY <1>2
<1> DEFINE d == DeductFee(s, tx)
<1> DEFINE b == [s.bal EXCEPT ![Charged(tx)] = @ - tx.fee]
<1>6. d \in AppState /\ d.ids = s.ids /\ d.seq = s.seq
  <2>1. d = [s EXCEPT !.bal = b, !.fees = s.fees + tx.fee]
    BY DEF DeductFee
  <2>2. b \in [Address -> Nat] /\ s.fees + tx.fee \in Nat
    BY <1>1, <1>2, <1>4
  <2> HIDE DEF b, d
  <2> QED
    BY <2>1, <2>2 DEF AppState
<1>7. AfterAnte(s, tx) =
        [d EXCEPT !.seq = [a \in Address |-> IF a \in TxSigners(tx)
                                             THEN d.seq[a] + 1 ELSE d.seq[a]]]
  BY DEF AfterAnte, IncrementSequence
<1> HIDE DEF d
<1> QED
  BY <1>5, <1>6, <1>7 DEF AppState

(* A transfer that the sender can afford keeps a state well formed.        *)
LEMMA TransferType ==
  ASSUME NEW s \in AppState, NEW from \in Address, NEW tos \in SUBSET Address,
         s.bal[from] >= Cardinality(tos)
  PROVE  /\ Transfer(s, from, tos) \in AppState
         /\ Transfer(s, from, tos).ids = s.ids
<1>1. Cardinality(tos) \in Nat
  BY AddressAssumption, FS_Subset, FS_CardinalityType
<1>2. s.bal \in [Address -> Nat] /\ s.accts \in SUBSET Address
  BY DEF AppState
<1>3. \A a \in Address :
        (IF a = from
         THEN s.bal[a] - Cardinality(tos) + (IF a \in tos THEN 1 ELSE 0)
         ELSE s.bal[a] + (IF a \in tos THEN 1 ELSE 0)) \in Nat
  BY <1>1, <1>2
<1> QED
  BY <1>2, <1>3 DEF Transfer, AppState

(* The money a message needs is the number of its recipients.              *)
LEMMA SingleRecipient ==
  ASSUME NEW a
  PROVE  Cardinality({a}) = 1
  BY FS_Singleton

(* Filling in an address keeps every record under its own address.         *)
LEMMA CreateType ==
  ASSUME NEW st \in Store, NEW m, m.creator \in Address, m.cccd \in Cccd,
         NEW now \in Time
  PROVE  CreateIdentity(st, m, now) \in Store
  BY DEF CreateIdentity, SetIdentity, NewIdentity, Store, IdentityRecord,
         Sha256Hex, IdHash

(* A message handler that succeeds keeps a state well formed.              *)
LEMMA AfterMsgType ==
  ASSUME NEW s \in AppState, NEW m \in PlainMsg, NEW now \in Time, MsgOk(s, m)
  PROVE  AfterMsg(s, m, now) \in AppState
<1>0. m \in Msg
  BY DEF Msg
<1>1. CASE m.kind = "create"
  <2>1. CreateIdentity(s.ids, m, now) \in Store
    BY <1>0, <1>1, MsgFields, CreateType DEF AppState
  <2>2. AfterMsg(s, m, now) = [s EXCEPT !.ids = CreateIdentity(s.ids, m, now)]
    BY <1>1 DEF AfterMsg
  <2> QED
    BY <2>1, <2>2 DEF AppState
<1>2. CASE m.kind \in {"send", "vest"}
  <2>1. AfterMsg(s, m, now) = Transfer(s, m.from, {m.to})
    BY <1>2 DEF AfterMsg
  <2>2. s.bal[m.from] >= Cardinality({m.to})
    BY <1>2, SingleRecipient DEF MsgOk
  <2> QED
    BY <1>0, <1>2, <2>1, <2>2, MsgFields, TransferType
<1>3. CASE m.kind = "multi"
  <2>1. AfterMsg(s, m, now) = Transfer(s, m.from, m.tos)
    BY <1>3 DEF AfterMsg
  <2>2. s.bal[m.from] >= Cardinality(m.tos)
    BY <1>3 DEF MsgOk
  <2> QED
    BY <1>0, <1>3, <2>1, <2>2, MsgFields, TransferType
<1>4. CASE m.kind \in {"grant", "revoke"}
  <2> DEFINE g == <<m.granter, m.grantee>>
  <2>1. g \in Address \X Address /\ m.grantee \in Address
    BY <1>0, <1>4, MsgFields
  <2>2. \E G \in SUBSET (Address \X Address) : \E A \in SUBSET Address :
          AfterMsg(s, m, now) = [s EXCEPT !.grants = G, !.accts = A]
    <3>1. s.grants \in SUBSET (Address \X Address) /\ s.accts \in SUBSET Address
      BY DEF AppState
    <3>2. CASE m.kind = "grant"
      <4>1. AfterMsg(s, m, now) =
              [s EXCEPT !.grants = s.grants \cup {g}, !.accts = s.accts \cup {m.grantee}]
        BY <3>2 DEF AfterMsg
      <4>2. /\ s.grants \cup {g} \in SUBSET (Address \X Address)
            /\ s.accts \cup {m.grantee} \in SUBSET Address
        BY <2>1, <3>1
      <4> QED
        BY <4>1, <4>2
    <3>3. CASE m.kind = "revoke"
      <4>1. AfterMsg(s, m, now) = [s EXCEPT !.grants = s.grants \ {g}]
        BY <3>3 DEF AfterMsg
      <4>2. [s EXCEPT !.grants = s.grants \ {g}]
              = [s EXCEPT !.grants = s.grants \ {g}, !.accts = s.accts]
        BY DEF AppState
      <4>3. s.grants \ {g} \in SUBSET (Address \X Address)
        BY <3>1
      <4> QED
        BY <3>1, <4>1, <4>2, <4>3
    <3> QED
      BY <1>4, <3>2, <3>3
  <2> QED
    BY <2>2 DEF AppState
<1>5. CASE m.kind \notin {"create", "send", "vest", "multi", "grant", "revoke"}
  BY <1>5 DEF AfterMsg
<1> QED
  BY <1>1, <1>2, <1>3, <1>4, <1>5

(* So does the reception of a packet, whatever becomes of its message.     *)
LEMMA ReceiveType ==
  ASSUME NEW s \in AppState, NEW p \in Packet, NEW now \in Time
  PROVE  Receive(s, p, now) \in AppState
<1> DEFINE t == [s EXCEPT !.received = @ \cup {p}]
<1>1. t \in AppState
  BY DEF AppState
<1>2. PacketMsg[p] \in PlainMsg
  BY PacketAssumption
<1>3. CASE p \in s.received
  BY <1>3 DEF Receive
<1>4. CASE p \notin s.received /\ PacketAccepted(s, p)
  <2>1. MsgOk(t, PacketMsg[p])
    BY <1>4 DEF PacketAccepted, MsgOk, AppState
  <2>2. Receive(s, p, now) = AfterMsg(t, PacketMsg[p], now)
    BY <1>4 DEF Receive
  <2> QED
    BY <1>1, <1>2, <2>1, <2>2, AfterMsgType
<1>5. CASE p \notin s.received /\ ~PacketAccepted(s, p)
  BY <1>1, <1>5 DEF Receive
<1> QED
  BY <1>3, <1>4, <1>5

(* A handler that succeeds leaves a well-formed state.                     *)
LEMMA AfterHandlerType ==
  ASSUME NEW s \in AppState, NEW m \in Msg, NEW now \in Time, HandlerOk(s, m)
  PROVE  AfterHandler(s, m, now) \in AppState
<1>1. CASE m.kind = "recv"
  BY <1>1, MsgFields, ReceiveType DEF AfterHandler
<1>2. CASE m.kind # "recv"
  BY <1>2, MsgFields, AfterMsgType DEF AfterHandler, HandlerOk
<1> QED
  BY <1>1, <1>2

-----------------------------------------------------------------------------
(* The verdict of the ante chain.                                          *)

(* Only a transaction that passed every decorator is answered "ok".        *)
LEMMA AnteOk ==
  ASSUME NEW s, NEW tx, NEW h, AnteCode(s, tx, h) = "ok"
  PROVE  /\ ValidateBasic(tx) /\ CanPayFee(s, tx) /\ SequencesMatch(s, tx)
         /\ IdentityVerified(s.ids, tx.msgs, h)
  BY DEF AnteCode

-----------------------------------------------------------------------------
(* States that are alike stay alike.                                       *)

(* Being alike is being equal without the times.                           *)
LEMMA AlikeIs ==
  ASSUME NEW s \in AppState, NEW t \in AppState
  PROVE  Alike(s, t) <=> WithoutTime(s) = WithoutTime(t)
<1> DEFINE h(u) == [a \in Registered(u.ids) |-> u.ids[a].idHash]
           w(u) == [u EXCEPT !.ids = h(u)]
<1>1. \A u : WithoutTime(u) = w(u)
  BY DEF WithoutTime
<1>2. Alike(s, t) <=>
        /\ s.accts = t.accts /\ s.seq = t.seq /\ s.bal = t.bal
        /\ s.fees = t.fees /\ s.grants = t.grants /\ s.received = t.received
        /\ h(s) = h(t)
  BY DEF Alike
<1> HIDE DEF h
<1>3. ASSUME NEW u \in AppState
      PROVE  w(u) = [ids |-> h(u), accts |-> u.accts, seq |-> u.seq, bal |-> u.bal,
                     fees |-> u.fees, grants |-> u.grants, received |-> u.received]
  BY DEF AppState
<1> HIDE DEF w
<1> QED
  BY <1>1, <1>2, <1>3

(* And so goes from one state to the next.                                 *)
LEMMA AlikeTransitive ==
  ASSUME NEW s, NEW t, NEW u, Alike(s, t), Alike(t, u)
  PROVE  Alike(s, u)
BY DEF Alike

(* The ante chain does not look at times.                                  *)
LEMMA AnteAlike ==
  ASSUME NEW s \in AppState, NEW t \in AppState, Alike(s, t), NEW tx \in Tx, NEW h
  PROVE  /\ AnteCode(s, tx, h) = AnteCode(t, tx, h)
         /\ Alike(AfterAnte(s, tx), AfterAnte(t, tx))
<1>1. CanPayFee(s, tx) = CanPayFee(t, tx) /\ SequencesMatch(s, tx) = SequencesMatch(t, tx)
  BY DEF Alike, CanPayFee, MayCharge, SequencesMatch
<1>2. \A m : MsgVerified(s.ids, m) = MsgVerified(t.ids, m)
  BY DEF Alike, MsgVerified
<1>3. IdentityVerified(s.ids, tx.msgs, h) = IdentityVerified(t.ids, tx.msgs, h)
  BY <1>2 DEF IdentityVerified
<1>4. AnteCode(s, tx, h) = AnteCode(t, tx, h)
  BY <1>1, <1>3 DEF AnteCode
<1> DEFINE B(b) == [b EXCEPT ![Charged(tx)] = @ - tx.fee]
           Q(q) == [a \in Address |-> IF a \in TxSigners(tx) THEN q[a] + 1 ELSE q[a]]
<1>5. ASSUME NEW u \in AppState
      PROVE  LET v == AfterAnte(u, tx)
             IN  /\ v.ids = u.ids /\ v.accts = u.accts /\ v.grants = u.grants /\ v.received = u.received
                 /\ v.seq = Q(u.seq) /\ v.bal = B(u.bal) /\ v.fees = u.fees + tx.fee
  <2> DEFINE d == DeductFee(u, tx)
  <2>1. d = [u EXCEPT !.bal = B(u.bal), !.fees = u.fees + tx.fee]
    BY DEF DeductFee
  <2> HIDE DEF B, d
  <2>2. /\ d.ids = u.ids /\ d.accts = u.accts /\ d.grants = u.grants /\ d.received = u.received
        /\ d.seq = u.seq /\ d.bal = B(u.bal) /\ d.fees = u.fees + tx.fee
        /\ DOMAIN d = {"ids", "accts", "seq", "bal", "fees", "grants", "received"}
    BY <2>1 DEF AppState
  <2>3. AfterAnte(u, tx) = [d EXCEPT !.seq = Q(u.seq)]
    BY <2>2 DEF AfterAnte, IncrementSequence, d
  <2> HIDE DEF Q
  <2> QED
    BY <2>2, <2>3
<1>6. Alike(AfterAnte(s, tx), AfterAnte(t, tx))
  <2> DEFINE x == AfterAnte(s, tx)
             y == AfterAnte(t, tx)
  <2> HIDE DEF B, Q
  <2>1. /\ x.ids = s.ids /\ x.accts = s.accts /\ x.grants = s.grants /\ x.received = s.received
        /\ x.seq = Q(s.seq) /\ x.bal = B(s.bal) /\ x.fees = s.fees + tx.fee
    BY <1>5
  <2>2. /\ y.ids = t.ids /\ y.accts = t.accts /\ y.grants = t.grants /\ y.received = t.received
        /\ y.seq = Q(t.seq) /\ y.bal = B(t.bal) /\ y.fees = t.fees + tx.fee
    BY <1>5
  <2> HIDE DEF x, y
  <2>3. Alike(x, y)
    BY <2>1, <2>2 DEF Alike
  <2> QED
    BY <2>3 DEF x, y
<1> QED
  BY <1>4, <1>6

(* Nor do the messages.  What CreateIdentity writes differs in its time.   *)
LEMMA CreateAlike ==
  ASSUME NEW s \in AppState, NEW t \in AppState, Alike(s, t),
         NEW m, m.creator \in Address, m.cccd \in Cccd, NEW now \in Time, NEW then \in Time
  PROVE  LET a == CreateIdentity(s.ids, m, now)
             b == CreateIdentity(t.ids, m, then)
         IN  /\ Registered(a) = Registered(b)
             /\ \A x \in Registered(a) : a[x].idHash = b[x].idHash
<1> DEFINE a == CreateIdentity(s.ids, m, now)
           b == CreateIdentity(t.ids, m, then)
           c == m.creator
<1>1. \A x \in Address : /\ a[x] = IF x = c THEN NewIdentity(m, now) ELSE s.ids[x]
                         /\ b[x] = IF x = c THEN NewIdentity(m, then) ELSE t.ids[x]
  BY DEF CreateIdentity, SetIdentity, NewIdentity, AppState, Store
<1>2. NewIdentity(m, now).idHash = NewIdentity(m, then).idHash
  BY DEF NewIdentity
<1>3. \A x \in Address : (s.ids[x] # NoIdentity) = (t.ids[x] # NoIdentity)
  BY DEF Alike, Registered, Found
<1>4. \A x \in Address : s.ids[x] # NoIdentity => s.ids[x].idHash = t.ids[x].idHash
  BY DEF Alike, Registered, Found
<1>5. NewIdentity(m, now) # NoIdentity /\ NewIdentity(m, then) # NoIdentity
  BY NoIdentityAssumption DEF NewIdentity, IdentityRecord, IdHash
<1> HIDE DEF a, b
<1> QED
  BY <1>1, <1>2, <1>3, <1>4, <1>5 DEF Registered, Found, a, b

(* A message succeeds in both of two alike states or in none, and leaves   *)
(* them alike.                                                             *)
LEMMA MsgAlike ==
  ASSUME NEW s \in AppState, NEW t \in AppState, Alike(s, t),
         NEW m \in PlainMsg, NEW now \in Time, NEW then \in Time
  PROVE  /\ MsgOk(s, m) = MsgOk(t, m)
         /\ Alike(AfterMsg(s, m, now), AfterMsg(t, m, then))
<1>0. m \in Msg
  BY DEF Msg
<1>1. \A a \in Address : Found(s.ids, a) = Found(t.ids, a)
  BY DEF Alike, Registered, Found
<1>2. MsgOk(s, m) = MsgOk(t, m)
  <2>1. m.kind = "create" => CreateIdentityOk(s.ids, m) = CreateIdentityOk(t.ids, m)
    BY <1>0, <1>1, MsgFields DEF CreateIdentityOk
  <2>2. s.accts = t.accts /\ s.bal = t.bal /\ s.grants = t.grants
    BY DEF Alike
  <2> QED
    BY <2>1, <2>2 DEF MsgOk
<1> DEFINE a == AfterMsg(s, m, now)
           b == AfterMsg(t, m, then)
<1>3. CASE m.kind = "create"
  <2> DEFINE x == CreateIdentity(s.ids, m, now)
             y == CreateIdentity(t.ids, m, then)
  <2>1. /\ Registered(x) = Registered(y)
        /\ \A c \in Registered(x) : x[c].idHash = y[c].idHash
    BY <1>0, <1>3, MsgFields, CreateAlike
  <2>2. a = [s EXCEPT !.ids = x] /\ b = [t EXCEPT !.ids = y]
    BY <1>3 DEF AfterMsg
  <2> HIDE DEF x, y, a, b
  <2>3. /\ a.ids = x /\ a.accts = s.accts /\ a.seq = s.seq /\ a.bal = s.bal
        /\ a.fees = s.fees /\ a.grants = s.grants /\ a.received = s.received
        /\ b.ids = y /\ b.accts = t.accts /\ b.seq = t.seq /\ b.bal = t.bal
        /\ b.fees = t.fees /\ b.grants = t.grants /\ b.received = t.received
    BY <2>2 DEF AppState
  <2>4. Alike(a, b)
    BY <2>1, <2>3 DEF Alike
  <2> QED
    BY <1>2, <2>4 DEF a, b
<1>4. ASSUME NEW from, NEW tos
      PROVE  Alike(Transfer(s, from, tos), Transfer(t, from, tos))
  <2> DEFINE B(u) == [c \in Address |->
                        IF c = from
                        THEN u[c] - Cardinality(tos) + (IF c \in tos THEN 1 ELSE 0)
                        ELSE u[c] + (IF c \in tos THEN 1 ELSE 0)]
  <2>1. ASSUME NEW u \in AppState
        PROVE  LET v == Transfer(u, from, tos)
               IN  /\ v.ids = u.ids /\ v.accts = u.accts \cup tos /\ v.seq = u.seq
                   /\ v.bal = B(u.bal) /\ v.fees = u.fees /\ v.grants = u.grants /\ v.received = u.received
    <3>1. Transfer(u, from, tos) = [u EXCEPT !.bal = B(u.bal), !.accts = u.accts \cup tos]
      BY DEF Transfer
    <3> HIDE DEF B
    <3> QED
      BY <3>1 DEF AppState
  <2> HIDE DEF B
  <2> DEFINE x == Transfer(s, from, tos)
             y == Transfer(t, from, tos)
  <2>2. /\ x.ids = s.ids /\ x.accts = s.accts \cup tos /\ x.seq = s.seq
        /\ x.bal = B(s.bal) /\ x.fees = s.fees /\ x.grants = s.grants /\ x.received = s.received
    BY <2>1
  <2>3. /\ y.ids = t.ids /\ y.accts = t.accts \cup tos /\ y.seq = t.seq
        /\ y.bal = B(t.bal) /\ y.fees = t.fees /\ y.grants = t.grants /\ y.received = t.received
    BY <2>1
  <2> HIDE DEF x, y
  <2>4. Alike(x, y)
    BY <2>2, <2>3 DEF Alike
  <2> QED
    BY <2>4 DEF x, y
<1>5. CASE m.kind \in {"send", "vest"}
  BY <1>2, <1>4, <1>5 DEF AfterMsg
<1>6. CASE m.kind = "multi"
  BY <1>2, <1>4, <1>6 DEF AfterMsg
<1>7. CASE m.kind \in {"grant", "revoke"}
  <2>1. PICK g : g = <<m.granter, m.grantee>>
    OBVIOUS
  <2>2. ASSUME NEW G, NEW A, NEW x, NEW y,
               x = [s EXCEPT !.grants = G, !.accts = A],
               y = [t EXCEPT !.grants = G, !.accts = A]
        PROVE  Alike(x, y)
    <3>1. /\ x.ids = s.ids /\ x.seq = s.seq /\ x.bal = s.bal /\ x.fees = s.fees
          /\ x.received = s.received /\ x.grants = G /\ x.accts = A
      BY <2>2 DEF AppState
    <3>2. /\ y.ids = t.ids /\ y.seq = t.seq /\ y.bal = t.bal /\ y.fees = t.fees
          /\ y.received = t.received /\ y.grants = G /\ y.accts = A
      BY <2>2 DEF AppState
    <3> QED
      BY <3>1, <3>2 DEF Alike
  <2>3. s.grants = t.grants /\ s.accts = t.accts
    BY DEF Alike
  <2>4. CASE m.kind = "grant"
    <3>1. /\ a = [s EXCEPT !.grants = s.grants \cup {g}, !.accts = s.accts \cup {m.grantee}]
          /\ b = [t EXCEPT !.grants = t.grants \cup {g}, !.accts = t.accts \cup {m.grantee}]
      BY <2>1, <2>4 DEF AfterMsg
    <3> HIDE DEF a, b
    <3>2. Alike(a, b)
      BY <2>2, <2>3, <3>1
    <3> QED
      BY <1>2, <3>2 DEF a, b
  <2>5. CASE m.kind = "revoke"
    <3>1. a = [s EXCEPT !.grants = s.grants \ {g}] /\ b = [t EXCEPT !.grants = t.grants \ {g}]
      BY <2>1, <2>5 DEF AfterMsg
    <3>2. /\ a = [s EXCEPT !.grants = s.grants \ {g}, !.accts = s.accts]
          /\ b = [t EXCEPT !.grants = t.grants \ {g}, !.accts = t.accts]
      BY <3>1 DEF AppState
    <3> HIDE DEF a, b
    <3>3. Alike(a, b)
      BY <2>2, <2>3, <3>2
    <3> QED
      BY <1>2, <3>3 DEF a, b
  <2> QED
    BY <1>7, <2>4, <2>5
<1>8. CASE m.kind \notin {"create", "send", "vest", "multi", "grant", "revoke"}
  BY <1>2, <1>8 DEF AfterMsg
<1> QED
  BY <1>3, <1>5, <1>6, <1>7, <1>8

(* So does a packet from another chain.                                    *)
LEMMA ReceiveAlike ==
  ASSUME NEW s \in AppState, NEW t \in AppState, Alike(s, t),
         NEW p \in Packet, NEW now \in Time, NEW then \in Time
  PROVE  Alike(Receive(s, p, now), Receive(t, p, then))
<1> DEFINE a == [s EXCEPT !.received = @ \cup {p}]
           b == [t EXCEPT !.received = @ \cup {p}]
           m == PacketMsg[p]
<1>1. a \in AppState /\ b \in AppState /\ m \in PlainMsg
  BY PacketAssumption DEF AppState
<1>2. Alike(a, b)
  <2>1. /\ a.ids = s.ids /\ a.accts = s.accts /\ a.seq = s.seq /\ a.bal = s.bal
        /\ a.fees = s.fees /\ a.grants = s.grants /\ a.received = s.received \cup {p}
        /\ b.ids = t.ids /\ b.accts = t.accts /\ b.seq = t.seq /\ b.bal = t.bal
        /\ b.fees = t.fees /\ b.grants = t.grants /\ b.received = t.received \cup {p}
    BY DEF AppState
  <2> HIDE DEF a, b
  <2> QED
    BY <2>1 DEF Alike
<1>3. MsgOk(s, m) = MsgOk(t, m)
  BY <1>1, MsgAlike
<1>4. PacketAccepted(s, p) = PacketAccepted(t, p) /\ s.received = t.received
  BY <1>3 DEF PacketAccepted, Alike
<1>5. Alike(AfterMsg(a, m, now), AfterMsg(b, m, then))
  <2> HIDE DEF a, b, m
  <2> QED
    BY <1>1, <1>2, MsgAlike
<1> QED
  BY <1>2, <1>4, <1>5 DEF Receive

(* So does every handler.                                                  *)
LEMMA HandlerAlike ==
  ASSUME NEW s \in AppState, NEW t \in AppState, Alike(s, t),
         NEW m \in Msg, NEW now \in Time, NEW then \in Time
  PROVE  /\ HandlerOk(s, m) = HandlerOk(t, m)
         /\ Alike(AfterHandler(s, m, now), AfterHandler(t, m, then))
<1>1. CASE m.kind = "recv"
  BY <1>1, MsgFields, ReceiveAlike DEF HandlerOk, AfterHandler
<1>2. CASE m.kind # "recv"
  <2>1. m \in PlainMsg
    BY <1>2, MsgFields
  <2>2. /\ MsgOk(s, m) = MsgOk(t, m)
        /\ Alike(AfterMsg(s, m, now), AfterMsg(t, m, then))
    BY <2>1, MsgAlike
  <2> QED
    BY <1>2, <2>2 DEF HandlerOk, AfterHandler
<1> QED
  BY <1>1, <1>2

-----------------------------------------------------------------------------
(* Whole transactions and blocks.                                          *)

(* The representative reading of a clock is one.                           *)
LEMMA NowIn == Now \in Time
BY TimeAssumption DEF Now

(* Running one message leaves a well-formed result.                        *)
LEMMA RunMsgType ==
  ASSUME NEW x \in Progress, NEW m \in Msg, NEW now \in Time
  PROVE  RunMsg(x, m, now) \in Progress
<1>1. x.ok \in BOOLEAN /\ x.state \in AppState
  BY DEF Progress
<1>2. HandlerOk(x.state, m) => AfterHandler(x.state, m, now) \in AppState
  BY <1>1, AfterHandlerType
<1> QED
  BY <1>1, <1>2 DEF RunMsg, Progress

(* The recursion over the messages has a solution, made of states.         *)
LEMMA RunIs ==
  ASSUME NEW s \in AppState, NEW msgs \in Seq(Msg), NEW now \in Time
  PROVE  \E run \in [0 .. Len(msgs) -> Progress] :
           /\ run[0] = [ok |-> TRUE, state |-> s]
           /\ \A i \in 1 .. Len(msgs) : run[i] = RunMsg(run[i - 1], msgs[i], now)
           /\ RunMsgs(s, msgs, now) = run[Len(msgs)]
<1> DEFINE n == Len(msgs)
           base == [ok |-> TRUE, state |-> s]
           step == [x \in Progress \X (1 .. n) |-> RunMsg(x[1], msgs[x[2]], now)]
           Rec(g) == [i \in 0 .. n |-> IF i = 0 THEN base
                                       ELSE RunMsg(g[i - 1], msgs[i], now)]
           run == CHOOSE g : g = Rec(g)
<1>1. n \in Nat /\ base \in Progress /\ \A i \in 1 .. n : msgs[i] \in Msg
  BY DEF Progress
<1>2. step \in [Progress \X (1 .. n) -> Progress]
  BY <1>1, RunMsgType
<1>3. PICK f \in [0 .. n -> Progress] : Iterates(f, base, step, n)
  <2> HIDE DEF base, step, n
  <2> QED
    BY <1>1, <1>2, IterationExists
<1>4. f[0] = base /\ \A i \in 1 .. n : f[i] = RunMsg(f[i - 1], msgs[i], now)
  <2>1. \A i \in 1 .. n : f[i - 1] \in Progress /\ <<f[i - 1], i>> \in Progress \X (1 .. n)
    <3> HIDE DEF base, step, n, Rec, run
    <3>1. \A i \in 1 .. n : i - 1 \in 0 .. n
      BY <1>1
    <3>2. \A j \in 0 .. n : f[j] \in Progress
      BY <1>3
    <3> QED
      BY <3>1, <3>2
  <2>2. \A i \in 1 .. n : f[i] = step[<<f[i - 1], i>>]
    BY <1>3 DEF Iterates
  <2>3. f[0] = base
    BY <1>3 DEF Iterates
  <2> QED
    BY <2>1, <2>2, <2>3
<1>5. f = Rec(f)
  BY <1>1, <1>3, <1>4
<1>6. run = Rec(run)
  BY <1>5
<1>7. RunMsgs(s, msgs, now) = run[n]
  BY DEF RunMsgs
<1> HIDE DEF run
<1>8. run[0] = base
  BY <1>1, <1>6
<1>9. ASSUME NEW i \in 1 .. n
      PROVE  run[i] = RunMsg(run[i - 1], msgs[i], now)
  <2>1. i \in 0 .. n /\ i # 0
    BY <1>1
  <2> QED
    BY <1>6, <2>1
<1>10. \A i \in 0 .. n : run[i] \in Progress
  <2>1. ASSUME NEW i \in 1 .. n, run[i - 1] \in Progress
        PROVE  run[i] = step[<<run[i - 1], i>>]
    <3>1. <<run[i - 1], i>> \in Progress \X (1 .. n)
      BY <2>1
    <3>2. step[<<run[i - 1], i>>] = RunMsg(run[i - 1], msgs[i], now)
      BY <3>1
    <3> QED
      BY <1>9, <3>2
  <2> HIDE DEF step, base, n
  <2> QED
    BY <1>1, <1>2, <1>8, <2>1, IterationType
<1>11. run \in [0 .. n -> Progress]
  <2>1. run = [i \in 0 .. n |-> run[i]]
    BY <1>6
  <2> HIDE DEF n
  <2> QED
    BY <1>10, <2>1
<1> QED
  BY <1>7, <1>8, <1>9, <1>11

(* And so do all messages of a transaction, whatever the clocks say.       *)
LEMMA RunAlike ==
  ASSUME NEW s \in AppState, NEW t \in AppState, Alike(s, t),
         NEW msgs \in Seq(Msg), NEW now \in Time, NEW then \in Time
  PROVE  LET x == RunMsgs(s, msgs, now)
             y == RunMsgs(t, msgs, then)
         IN  x \in Progress /\ y \in Progress /\ x.ok = y.ok /\ Alike(x.state, y.state)
<1> DEFINE n == Len(msgs)
<1>1. n \in Nat /\ \A i \in 1 .. n : msgs[i] \in Msg
  OBVIOUS
<1>2. PICK f \in [0 .. n -> Progress] :
        /\ f[0] = [ok |-> TRUE, state |-> s]
        /\ \A i \in 1 .. n : f[i] = RunMsg(f[i - 1], msgs[i], now)
        /\ RunMsgs(s, msgs, now) = f[n]
  BY RunIs
<1>3. PICK g \in [0 .. n -> Progress] :
        /\ g[0] = [ok |-> TRUE, state |-> t]
        /\ \A i \in 1 .. n : g[i] = RunMsg(g[i - 1], msgs[i], then)
        /\ RunMsgs(t, msgs, then) = g[n]
  BY RunIs
<1> DEFINE P == {i \in 0 .. n : f[i].ok = g[i].ok /\ Alike(f[i].state, g[i].state)}
<1>4. 0 \in P
  <2>1. f[0].ok = g[0].ok /\ f[0].state = s /\ g[0].state = t
    BY <1>2, <1>3
  <2> QED
    BY <1>1, <2>1
<1>5. ASSUME NEW i \in 1 .. n, i - 1 \in P
      PROVE  i \in P
  <2> DEFINE x == f[i - 1]
             y == g[i - 1]
             m == msgs[i]
  <2>1. /\ x \in Progress /\ y \in Progress /\ x.ok = y.ok /\ Alike(x.state, y.state)
        /\ m \in Msg
    BY <1>1, <1>2, <1>3, <1>5
  <2>2. x.state \in AppState /\ y.state \in AppState
    BY <2>1 DEF Progress
  <2>3. f[i] = RunMsg(x, m, now) /\ g[i] = RunMsg(y, m, then)
    BY <1>2, <1>3
  <2> HIDE DEF x, y, m
  <2>4. /\ HandlerOk(x.state, m) = HandlerOk(y.state, m)
        /\ Alike(AfterHandler(x.state, m, now), AfterHandler(y.state, m, then))
    BY <2>1, <2>2, HandlerAlike
  <2>5. f[i].ok = g[i].ok /\ Alike(f[i].state, g[i].state)
    <3>1. CASE x.ok /\ HandlerOk(x.state, m)
      BY <2>1, <2>3, <2>4, <3>1 DEF RunMsg
    <3>2. CASE ~(x.ok /\ HandlerOk(x.state, m))
      <4>1. f[i] = [x EXCEPT !.ok = FALSE] /\ g[i] = [y EXCEPT !.ok = FALSE]
        BY <2>1, <2>3, <2>4, <3>2 DEF RunMsg
      <4> QED
        BY <2>1, <4>1 DEF Progress
    <3> QED
      BY <3>1, <3>2
  <2> QED
    BY <2>5
<1> HIDE DEF P, n
<1>6. \A i \in 0 .. n : i \in P
  BY <1>1, <1>4, <1>5, Induction
<1>7. n \in 0 .. n
  BY <1>1
<1>8. f[n] \in Progress /\ g[n] \in Progress
  BY <1>2, <1>3, <1>7
<1> QED
  BY <1>2, <1>3, <1>6, <1>7, <1>8 DEF P

(* A transaction as a whole: whether its messages are kept does not depend *)
(* on the clock, and neither does the rest of what it leaves.              *)
LEMMA DeliverAlike ==
  ASSUME NEW s \in AppState, NEW t \in AppState, Alike(s, t),
         NEW tx \in Tx, NEW h, NEW now \in Time, NEW then \in Time
  PROVE  /\ DeliverTx(s, tx, h, now) \in AppState
         /\ DeliverTx(t, tx, h, then) \in AppState
         /\ Alike(DeliverTx(s, tx, h, now), DeliverTx(t, tx, h, then))
<1>1. AnteCode(s, tx, h) = AnteCode(t, tx, h) /\ Alike(AfterAnte(s, tx), AfterAnte(t, tx))
  BY AnteAlike
<1>2. CASE AnteCode(s, tx, h) # "ok"
  BY <1>1, <1>2 DEF DeliverTx
<1>3. CASE AnteCode(s, tx, h) = "ok"
  <2> DEFINE a == AfterAnte(s, tx)
             b == AfterAnte(t, tx)
             x == RunMsgs(a, tx.msgs, now)
             y == RunMsgs(b, tx.msgs, then)
  <2>1. a \in AppState /\ b \in AppState
    BY <1>1, <1>3, AnteOk, AfterAnteType
  <2>2. tx.msgs \in Seq(Msg)
    BY TxFields
  <2>3. x \in Progress /\ y \in Progress /\ x.ok = y.ok /\ Alike(x.state, y.state)
    <3> HIDE DEF a, b
    <3> QED
      BY <1>1, <2>1, <2>2, RunAlike DEF a, b
  <2>4. x.state \in AppState /\ y.state \in AppState
    BY <2>3 DEF Progress
  <2>5. /\ DeliverTx(s, tx, h, now) = IF x.ok THEN x.state ELSE a
        /\ DeliverTx(t, tx, h, then) = IF y.ok THEN y.state ELSE b
    BY <1>1, <1>3 DEF DeliverTx
  <2> HIDE DEF x, y, a, b
  <2>6. Alike(a, b)
    BY <1>1 DEF a, b
  <2> QED
    BY <2>1, <2>3, <2>4, <2>5, <2>6
<1> QED
  BY <1>2, <1>3

(* Delivering a transaction leaves a well-formed state.                    *)
LEMMA DeliverType ==
  ASSUME NEW s \in AppState, NEW tx \in Tx, NEW h, NEW now \in Time
  PROVE  DeliverTx(s, tx, h, now) \in AppState
<1>1. Alike(s, s)
  BY DEF Alike
<1> QED
  BY <1>1, DeliverAlike

(* The states a block goes through.                                        *)
LEMMA EffectsAre ==
  ASSUME NEW s \in AppState, NEW b, b.txs \in Seq(Tx), NEW h
  PROVE  LET e == Effects(s, b, h)
         IN  /\ e[0] = s
             /\ \A i \in 1 .. Len(b.txs) : e[i] = DeliverTx(e[i - 1], b.txs[i], h, Now)
             /\ \A i \in 0 .. Len(b.txs) : e[i] \in AppState
<1> DEFINE txs == b.txs
           n == Len(txs)
           step == [x \in AppState \X (1 .. n) |-> DeliverTx(x[1], txs[x[2]], h, Now)]
           Rec(g) == [i \in 0 .. n |-> IF i = 0 THEN s ELSE DeliverTx(g[i - 1], txs[i], h, Now)]
           e == CHOOSE g : g = Rec(g)
<1>1. n \in Nat /\ \A i \in 1 .. n : txs[i] \in Tx
  OBVIOUS
<1>2. step \in [AppState \X (1 .. n) -> AppState]
  BY <1>1, DeliverType, NowIn
<1>3. PICK f \in [0 .. n -> AppState] : Iterates(f, s, step, n)
  <2> HIDE DEF step, n
  <2> QED
    BY <1>1, <1>2, IterationExists
<1>4. f[0] = s /\ \A i \in 1 .. n : f[i] = DeliverTx(f[i - 1], txs[i], h, Now)
  <2>1. \A i \in 1 .. n : f[i - 1] \in AppState /\ <<f[i - 1], i>> \in AppState \X (1 .. n)
    <3> HIDE DEF step, n, Rec, e
    <3>1. \A i \in 1 .. n : i - 1 \in 0 .. n
      BY <1>1
    <3>2. \A j \in 0 .. n : f[j] \in AppState
      BY <1>3
    <3> QED
      BY <3>1, <3>2
  <2>2. \A i \in 1 .. n : f[i] = step[<<f[i - 1], i>>]
    BY <1>3 DEF Iterates
  <2>3. f[0] = s
    BY <1>3 DEF Iterates
  <2> QED
    BY <2>1, <2>2, <2>3
<1>5. f = Rec(f)
  BY <1>1, <1>3, <1>4
<1>6. e = Rec(e)
  BY <1>5
<1>7. Effects(s, b, h) = e
  BY DEF Effects, Now
<1> HIDE DEF e
<1>8. e[0] = s
  BY <1>1, <1>6
<1>9. ASSUME NEW i \in 1 .. n
      PROVE  e[i] = DeliverTx(e[i - 1], txs[i], h, Now)
  <2>1. i \in 0 .. n /\ i # 0
    BY <1>1
  <2> QED
    BY <1>6, <2>1
<1>10. \A i \in 0 .. n : e[i] \in AppState
  <2>1. ASSUME NEW i \in 1 .. n, e[i - 1] \in AppState
        PROVE  e[i] = step[<<e[i - 1], i>>]
    <3>1. <<e[i - 1], i>> \in AppState \X (1 .. n)
      BY <2>1
    <3>2. step[<<e[i - 1], i>>] = DeliverTx(e[i - 1], txs[i], h, Now)
      BY <3>1
    <3> QED
      BY <1>9, <3>2
  <2> HIDE DEF step, n
  <2> QED
    BY <1>1, <1>2, <1>8, <2>1, IterationType
<1> QED
  BY <1>7, <1>8, <1>9, <1>10

(* A block takes alike states to alike states,                             *)
LEMMA BlockAlike ==
  ASSUME NEW s \in AppState, NEW t \in AppState, Alike(s, t),
         NEW b, b.txs \in Seq(Tx), NEW h
  PROVE  /\ BlockEffect(s, b, h) \in AppState /\ BlockEffect(t, b, h) \in AppState
         /\ Alike(BlockEffect(s, b, h), BlockEffect(t, b, h))
<1> DEFINE n == Len(b.txs)
           f == Effects(s, b, h)
           g == Effects(t, b, h)
           P == {i \in 0 .. n : Alike(f[i], g[i])}
<1>1. n \in Nat /\ n \in 0 .. n /\ \A i \in 1 .. n : b.txs[i] \in Tx
  OBVIOUS
<1>2. /\ f[0] = s
      /\ \A i \in 1 .. n : f[i] = DeliverTx(f[i - 1], b.txs[i], h, Now)
      /\ \A i \in 0 .. n : f[i] \in AppState
  BY EffectsAre
<1>3. /\ g[0] = t
      /\ \A i \in 1 .. n : g[i] = DeliverTx(g[i - 1], b.txs[i], h, Now)
      /\ \A i \in 0 .. n : g[i] \in AppState
  BY EffectsAre
<1>4. BlockEffect(s, b, h) = f[n] /\ BlockEffect(t, b, h) = g[n]
  BY DEF BlockEffect
<1> HIDE DEF f, g
<1>5. 0 \in P
  BY <1>1, <1>2, <1>3
<1>6. ASSUME NEW i \in 1 .. n, i - 1 \in P
      PROVE  i \in P
  <2>1. /\ f[i - 1] \in AppState /\ g[i - 1] \in AppState
        /\ Alike(f[i - 1], g[i - 1]) /\ b.txs[i] \in Tx
    BY <1>1, <1>2, <1>3, <1>6
  <2>2. Alike(f[i], g[i])
    BY <1>2, <1>3, <2>1, NowIn, DeliverAlike
  <2> QED
    BY <2>2
<1> HIDE DEF P, n
<1>7. \A i \in 0 .. n : i \in P
  BY <1>1, <1>5, <1>6, Induction
<1> QED
  BY <1>1, <1>2, <1>3, <1>4, <1>7 DEF P

(* which are well formed.                                                  *)
LEMMA BlockType ==
  ASSUME NEW s \in AppState, NEW b, b.txs \in Seq(Tx), NEW h
  PROVE  BlockEffect(s, b, h) \in AppState
<1>1. Alike(s, s)
  BY DEF Alike
<1> QED
  BY <1>1, BlockAlike

(* The states a chain goes through.                                        *)
Passes(g, blocks, h) ==
  /\ g[0] = GenesisApp
  /\ \A i \in 1 .. h : g[i] = BlockEffect(g[i - 1], blocks[i], i)

(* Replaying blocks passes through well-formed states.                     *)
LEMMA ReplayedAre ==
  ASSUME NEW blocks, NEW h \in Nat, \A i \in 1 .. h : blocks[i].txs \in Seq(Tx)
  PROVE  \E g : /\ Passes(g, blocks, h)
                /\ \A i \in 0 .. h : g[i] \in AppState
                /\ Replayed(blocks, h) = g[h]
<1> DEFINE step == [x \in AppState \X (1 .. h) |-> BlockEffect(x[1], blocks[x[2]], x[2])]
           Rec(g) == [i \in 0 .. h |-> IF i = 0 THEN GenesisApp
                                       ELSE BlockEffect(g[i - 1], blocks[i], i)]
           e == CHOOSE g : g = Rec(g)
<1>1. step \in [AppState \X (1 .. h) -> AppState]
  BY BlockType
<1>2. PICK f \in [0 .. h -> AppState] : Iterates(f, GenesisApp, step, h)
  <2> HIDE DEF step
  <2> QED
    BY <1>1, GenesisAppAssumption, IterationExists
<1>3. f[0] = GenesisApp /\ \A i \in 1 .. h : f[i] = BlockEffect(f[i - 1], blocks[i], i)
  <2>1. \A i \in 1 .. h : f[i - 1] \in AppState /\ <<f[i - 1], i>> \in AppState \X (1 .. h)
    BY <1>2
  <2> QED
    BY <1>2, <2>1 DEF Iterates
<1>4. f = Rec(f)
  BY <1>2, <1>3
<1>5. e = Rec(e)
  BY <1>4
<1>6. Replayed(blocks, h) = e[h]
  BY DEF Replayed
<1> HIDE DEF e
<1>7. e[0] = GenesisApp
  BY <1>5
<1>8. ASSUME NEW i \in 1 .. h
      PROVE  e[i] = BlockEffect(e[i - 1], blocks[i], i)
  <2>1. i \in 0 .. h /\ i # 0
    OBVIOUS
  <2> QED
    BY <1>5, <2>1
<1>9. \A i \in 0 .. h : e[i] \in AppState
  <2>1. ASSUME NEW i \in 1 .. h, e[i - 1] \in AppState
        PROVE  e[i] = step[<<e[i - 1], i>>]
    <3>1. <<e[i - 1], i>> \in AppState \X (1 .. h)
      BY <2>1
    <3>2. step[<<e[i - 1], i>>] = BlockEffect(e[i - 1], blocks[i], i)
      BY <3>1
    <3> QED
      BY <1>8, <3>2
  <2> HIDE DEF step
  <2> QED
    BY <1>1, <1>7, <2>1, GenesisAppAssumption, IterationType
<1> QED
  BY <1>6, <1>7, <1>8, <1>9 DEF Passes

(* And through no others: the replayed state is the last of any such       *)
(* passage.                                                                *)
LEMMA ReplayedIs ==
  ASSUME NEW blocks, NEW h \in Nat, \A i \in 1 .. h : blocks[i].txs \in Seq(Tx),
         NEW f, Passes(f, blocks, h)
  PROVE  Replayed(blocks, h) = f[h]
<1>1. PICK g : Passes(g, blocks, h) /\ Replayed(blocks, h) = g[h]
  BY ReplayedAre
<1> DEFINE P == {i \in 0 .. h : f[i] = g[i]}
<1>2. 0 \in P
  BY <1>1 DEF Passes
<1>3. \A i \in 1 .. h : i - 1 \in P => i \in P
  BY <1>1 DEF Passes
<1> HIDE DEF P
<1>4. \A i \in 0 .. h : i \in P
  BY <1>2, <1>3, Induction
<1>5. h \in 0 .. h
  OBVIOUS
<1> QED
  BY <1>1, <1>4, <1>5 DEF P

(* One more block.                                                         *)
LEMMA ReplayedStep ==
  ASSUME NEW blocks, NEW h \in Nat, \A i \in 1 .. h + 1 : blocks[i].txs \in Seq(Tx)
  PROVE  /\ Replayed(blocks, h) \in AppState
         /\ Replayed(blocks, h + 1) = BlockEffect(Replayed(blocks, h), blocks[h + 1], h + 1)
<1>1. h + 1 \in Nat /\ 1 .. h \subseteq 1 .. h + 1 /\ h \in 0 .. h + 1 /\ h + 1 \in 1 .. h + 1
  OBVIOUS
<1>2. PICK g : /\ Passes(g, blocks, h + 1)
               /\ \A i \in 0 .. h + 1 : g[i] \in AppState
               /\ Replayed(blocks, h + 1) = g[h + 1]
  BY <1>1, ReplayedAre
<1>3. Passes(g, blocks, h)
  BY <1>1, <1>2 DEF Passes
<1>4. \A i \in 1 .. h : blocks[i].txs \in Seq(Tx)
  BY <1>1
<1>5. Replayed(blocks, h) = g[h]
  BY <1>3, <1>4, ReplayedIs
<1>6. g[h + 1] = BlockEffect(g[h], blocks[h + 1], h + 1)
  BY <1>1, <1>2 DEF Passes
<1> QED
  BY <1>1, <1>2, <1>5, <1>6

(* Later blocks make no difference.                                        *)
LEMMA ReplayedPrefix ==
  ASSUME NEW c, NEW d, NEW h \in Nat, \A i \in 1 .. h : c[i].txs \in Seq(Tx),
         \A i \in 1 .. h : d[i] = c[i]
  PROVE  Replayed(d, h) = Replayed(c, h)
<1>1. PICK g : Passes(g, c, h) /\ Replayed(c, h) = g[h]
  BY ReplayedAre
<1>2. Passes(g, d, h)
  BY <1>1 DEF Passes
<1>3. \A i \in 1 .. h : d[i].txs \in Seq(Tx)
  OBVIOUS
<1> QED
  BY <1>1, <1>2, <1>3, ReplayedIs

-----------------------------------------------------------------------------
(* Type correctness.                                                       *)

(* The transactions of a block are well formed.                            *)
LEMMA BlockTxs ==
  ASSUME NEW b \in Block
  PROVE  /\ b.txs \in Seq(Tx) /\ Len(b.txs) \in Nat
         /\ \A i \in 1 .. Len(b.txs) : b.txs[i] \in Tx
<1>1. b.txs \in Seq(Tx)
  BY PayloadsAssumption DEF Block
<1> QED
  BY <1>1

(* An execution that begins is well formed.                                *)
LEMMA NewExecution ==
  ASSUME TypeOK, NEW r \in Replica, NEW b \in Block
  PROVE  /\ Fresh(r, b) \in Execution
         /\ Fresh(r, b).block = b /\ Fresh(r, b).next = 1 /\ Fresh(r, b).state = app[r]
         /\ 1 <= Len(b.txs) + 1
BY BlockTxs DEF Fresh, Execution, TypeOK

(* What the chain holds at a height is a block.                            *)
LEMMA DecidedType ==
  ASSUME TypeOK, NEW r \in Replica, height[r] < Len(chain)
  PROVE  Decided(r) \in Block /\ height[r] + 1 \in 0 .. Len(chain)
<1>1. height[r] \in 0 .. Len(chain) /\ chain \in Seq(Block) /\ Len(chain) \in Nat
  BY DEF TypeOK
<1>2. height[r] + 1 \in 1 .. Len(chain)
  BY <1>1
<1> QED
  BY <1>1, <1>2 DEF Decided

(* One execution changes: the others keep their bounds.                    *)
LEMMA ExecType ==
  ASSUME TypeOK, NEW r \in Replica, NEW e \in Execution \cup {NoExec},
         e # NoExec => e.next <= Len(e.block.txs) + 1,
         exec' = [exec EXCEPT ![r] = e]
  PROVE  /\ exec' \in [Replica -> Execution \cup {NoExec}]
         /\ \A q \in Replica : exec'[q] # NoExec => exec'[q].next <= Len(exec'[q].block.txs) + 1
<1>1. exec' \in [Replica -> Execution \cup {NoExec}]
  BY DEF TypeOK
<1>2. \A q \in Replica : exec'[q] = IF q = r THEN e ELSE exec[q]
  BY DEF TypeOK
<1> QED
  BY <1>1, <1>2 DEF TypeOK

(* The initial state is well formed.                                       *)
LEMMA TypeInit == Init => TypeOK
<1> SUFFICES ASSUME Init PROVE TypeOK
  OBVIOUS
<1>1. <<>> \in Seq(Block) /\ Len(<<>>) = 0
  OBVIOUS
<1> QED
  BY <1>1, GenesisAppAssumption, BoundsAssumption DEF Init, TypeOK

(* Every step leaves a well-formed state.                                  *)
LEMMA TypeStep == TypeOK /\ [Next]_vars => TypeOK'
<1> SUFFICES ASSUME TypeOK, [Next]_vars PROVE TypeOK'
  OBVIOUS
<1>1. ASSUME NEW r \in Replica, NEW txs \in Payloads, Propose(r, txs)
      PROVE  TypeOK'
  <2>1. proposal' \in Block
    BY <1>1 DEF Propose, Block, TypeOK
  <2> QED
    BY <1>1, <2>1 DEF Propose, TypeOK
<1>2. ASSUME NEW r \in Replica, Accept(r)
      PROVE  TypeOK'
  <2>1. proposal \in Block
    BY <1>2 DEF Accept, TypeOK
  <2> DEFINE e == IF Len(chain) > 0 THEN Fresh(r, proposal) ELSE exec[r]
  <2>2. e \in Execution \cup {NoExec} /\ (e # NoExec => e.next <= Len(e.block.txs) + 1)
    BY <2>1, NewExecution DEF TypeOK
  <2>3. exec' = [exec EXCEPT ![r] = e]
    BY <1>2 DEF Accept
  <2> HIDE DEF e
  <2>4. /\ exec' \in [Replica -> Execution \cup {NoExec}]
        /\ \A q \in Replica : exec'[q] # NoExec => exec'[q].next <= Len(exec'[q].block.txs) + 1
    BY <2>2, <2>3, ExecType
  <2> QED
    BY <1>2, <2>4 DEF Accept, TypeOK
<1>3. CASE NextRound
  <2>1. round' \in 0 .. MaxRounds
    BY <1>3, BoundsAssumption DEF NextRound, TypeOK
  <2> QED
    BY <1>3, <2>1 DEF NextRound, TypeOK
<1>4. CASE Decide
  <2>1. chain' \in Seq(Block) /\ Len(chain') = Len(chain) + 1 /\ Len(chain) \in Nat
    BY <1>4 DEF Decide, TypeOK
  <2>2. height' \in [Replica -> 0 .. Len(chain')]
    <3>1. 0 .. Len(chain) \subseteq 0 .. Len(chain')
      BY <2>1
    <3>2. height \in [Replica -> 0 .. Len(chain)] /\ height' = height
      BY <1>4 DEF Decide, TypeOK
    <3> QED
      BY <3>1, <3>2
  <2>3. 0 \in 0 .. MaxRounds
    BY BoundsAssumption
  <2> QED
    BY <1>4, <2>1, <2>2, <2>3 DEF Decide, TypeOK
<1>5. ASSUME NEW r \in Replica, FinalizeBlock(r)
      PROVE  TypeOK'
  <2> DEFINE e == Fresh(r, Decided(r))
  <2>1. e \in Execution \cup {NoExec} /\ (e # NoExec => e.next <= Len(e.block.txs) + 1)
    BY <1>5, DecidedType, NewExecution DEF FinalizeBlock
  <2>2. exec' = [exec EXCEPT ![r] = e]
    BY <1>5 DEF FinalizeBlock
  <2> HIDE DEF e
  <2>3. /\ exec' \in [Replica -> Execution \cup {NoExec}]
        /\ \A q \in Replica : exec'[q] # NoExec => exec'[q].next <= Len(exec'[q].block.txs) + 1
    BY <2>1, <2>2, ExecType
  <2> QED
    BY <1>5, <2>3 DEF FinalizeBlock, TypeOK
<1>6. ASSUME NEW r \in Replica, ExecTx(r)
      PROVE  TypeOK'
  <2> DEFINE x == exec[r]
  <2>1. x \in Execution /\ x.next <= Len(x.block.txs)
    BY <1>6 DEF ExecTx, TypeOK
  <2>2. /\ x.block \in Block /\ x.next \in Nat \ {0} /\ x.state \in AppState
        /\ x.block.txs[x.next] \in Tx /\ Len(x.block.txs) \in Nat
    <3>1. x.block \in Block /\ x.next \in Nat \ {0} /\ x.state \in AppState
      BY <2>1 DEF Execution
    <3>2. x.next \in 1 .. Len(x.block.txs)
      BY <2>1, <3>1, BlockTxs
    <3> QED
      BY <3>1, <3>2, BlockTxs
  <2>3. PICK now \in Time :
          exec' = [exec EXCEPT ![r] =
                     [block |-> @.block, next |-> @.next + 1,
                      state |-> DeliverTx(@.state, @.block.txs[@.next], height[r] + 1, now)]]
    BY <1>6 DEF ExecTx
  <2> DEFINE t == DeliverTx(x.state, x.block.txs[x.next], height[r] + 1, now)
             e == [block |-> x.block, next |-> x.next + 1, state |-> t]
  <2>4. t \in AppState
    BY <2>2, DeliverType
  <2>5. exec' = [exec EXCEPT ![r] = e]
    BY <2>3 DEF TypeOK
  <2> HIDE DEF t, x
  <2>6. e \in Execution /\ e.next = x.next + 1 /\ e.block = x.block
    <3>1. x.next + 1 \in Nat \ {0}
      BY <2>2
    <3> QED
      BY <2>2, <2>4, <3>1 DEF Execution
  <2>7. e.next <= Len(e.block.txs) + 1
    BY <2>1, <2>2, <2>6
  <2> HIDE DEF e
  <2>8. /\ exec' \in [Replica -> Execution \cup {NoExec}]
        /\ \A q \in Replica : exec'[q] # NoExec => exec'[q].next <= Len(exec'[q].block.txs) + 1
    BY <2>5, <2>6, <2>7, ExecType
  <2> QED
    BY <1>6, <2>8 DEF ExecTx, TypeOK
<1>7. ASSUME NEW r \in Replica, Commit(r)
      PROVE  TypeOK'
  <2>1. exec[r] \in Execution /\ height[r] + 1 \in 0 .. Len(chain)
    BY <1>7, DecidedType DEF Commit, Executing, TypeOK
  <2>2. exec[r].state \in AppState
    BY <2>1 DEF Execution
  <2>3. /\ app' \in [Replica -> AppState]
        /\ height' \in [Replica -> 0 .. Len(chain)]
    BY <1>7, <2>1, <2>2 DEF Commit, TypeOK
  <2>4. /\ exec' \in [Replica -> Execution \cup {NoExec}]
        /\ \A q \in Replica : exec'[q] # NoExec => exec'[q].next <= Len(exec'[q].block.txs) + 1
    BY <1>7, ExecType DEF Commit
  <2> QED
    BY <1>7, <2>3, <2>4 DEF Commit, TypeOK
<1>8. ASSUME NEW r \in Replica, Crash(r)
      PROVE  TypeOK'
  <2>1. /\ exec' \in [Replica -> Execution \cup {NoExec}]
        /\ \A q \in Replica : exec'[q] # NoExec => exec'[q].next <= Len(exec'[q].block.txs) + 1
    BY <1>8, ExecType DEF Crash
  <2>2. crashes' \in 0 .. MaxCrashes
    BY <1>8, BoundsAssumption DEF Crash, TypeOK
  <2> QED
    BY <1>8, <2>1, <2>2 DEF Crash, TypeOK
<1>9. CASE UNCHANGED vars
  BY <1>9 DEF vars, TypeOK
<1> QED
  BY <1>1, <1>2, <1>3, <1>4, <1>5, <1>6, <1>7, <1>8, <1>9 DEF Next

-----------------------------------------------------------------------------
(* Executions, and what is committed.                                      *)

(* An execution that begins has executed nothing.                          *)
LEMMA FreshProgress ==
  ASSUME TypeOK, NEW r \in Replica, NEW b \in Block
  PROVE  Alike(Fresh(r, b).state, Effects(app[r], b, height[r] + 1)[Fresh(r, b).next - 1])
<1>1. Effects(app[r], b, height[r] + 1)[0] = app[r]
  BY BlockTxs, EffectsAre DEF TypeOK
<1>2. Fresh(r, b).state = app[r] /\ Fresh(r, b).next - 1 = 0
  BY DEF Fresh
<1> QED
  BY <1>1, <1>2 DEF Alike

(* The execution of one node changes, what is committed does not.          *)
LEMMA OneExecution ==
  ASSUME TypeOK, ProgressInv, NEW r \in Replica, NEW e,
         exec' = [exec EXCEPT ![r] = e], UNCHANGED <<app, height>>,
         e # NoExec => Alike(e.state, Effects(app[r], e.block, height[r] + 1)[e.next - 1])
  PROVE  ProgressInv'
<1>1. \A q \in Replica : exec'[q] = IF q = r THEN e ELSE exec[q]
  BY DEF TypeOK
<1>2. ASSUME NEW q \in Replica, exec'[q] # NoExec
      PROVE  Alike(exec'[q].state,
                   Effects(app[q], exec'[q].block, height[q] + 1)[exec'[q].next - 1])
  BY <1>1, <1>2 DEF ProgressInv
<1> QED
  BY <1>2 DEF ProgressInv

(* An execution ahead of a decision goes on as the block does.             *)
LEMMA ProgressStep == TypeOK /\ ProgressInv /\ [Next]_vars => ProgressInv'
<1> SUFFICES ASSUME TypeOK, ProgressInv, [Next]_vars PROVE ProgressInv'
  OBVIOUS
<1>1. ASSUME NEW r \in Replica, NEW txs \in Payloads, Propose(r, txs)
      PROVE  ProgressInv'
  BY <1>1 DEF Propose, ProgressInv
<1>2. ASSUME NEW r \in Replica, Accept(r)
      PROVE  ProgressInv'
  <2> DEFINE e == IF Len(chain) > 0 THEN Fresh(r, proposal) ELSE exec[r]
  <2>1. proposal \in Block
    BY <1>2 DEF Accept, TypeOK
  <2>2. e # NoExec => Alike(e.state, Effects(app[r], e.block, height[r] + 1)[e.next - 1])
    <3>1. CASE Len(chain) > 0
      BY <2>1, <3>1, FreshProgress, NewExecution
    <3>2. CASE ~(Len(chain) > 0)
      BY <3>2 DEF ProgressInv
    <3> QED
      BY <3>1, <3>2
  <2>3. exec' = [exec EXCEPT ![r] = e]
    BY <1>2 DEF Accept
  <2> HIDE DEF e
  <2> QED
    BY <1>2, <2>2, <2>3, OneExecution DEF Accept
<1>3. CASE NextRound
  BY <1>3 DEF NextRound, ProgressInv
<1>4. CASE Decide
  BY <1>4 DEF Decide, ProgressInv
<1>5. ASSUME NEW r \in Replica, FinalizeBlock(r)
      PROVE  ProgressInv'
  <2> DEFINE e == Fresh(r, Decided(r))
  <2>1. Decided(r) \in Block
    BY <1>5, DecidedType DEF FinalizeBlock
  <2>2. Alike(e.state, Effects(app[r], e.block, height[r] + 1)[e.next - 1])
    BY <2>1, FreshProgress, NewExecution
  <2>3. exec' = [exec EXCEPT ![r] = e]
    BY <1>5 DEF FinalizeBlock
  <2> HIDE DEF e
  <2> QED
    BY <1>5, <2>2, <2>3, OneExecution DEF FinalizeBlock
<1>6. ASSUME NEW r \in Replica, ExecTx(r)
      PROVE  ProgressInv'
  <2> DEFINE x == exec[r]
             b == x.block
             f == Effects(app[r], b, height[r] + 1)
  <2>1. x \in Execution /\ x.next <= Len(b.txs)
    BY <1>6 DEF ExecTx, TypeOK
  <2>2. /\ b \in Block /\ x.state \in AppState /\ b.txs \in Seq(Tx) /\ Len(b.txs) \in Nat
        /\ x.next \in 1 .. Len(b.txs) /\ x.next - 1 \in 0 .. Len(b.txs)
        /\ b.txs[x.next] \in Tx
    <3>1. b \in Block /\ x.state \in AppState /\ x.next \in Nat \ {0}
      BY <2>1 DEF Execution
    <3> HIDE DEF x, b
    <3> QED
      BY <2>1, <3>1, BlockTxs
  <2>3. /\ f[x.next] = DeliverTx(f[x.next - 1], b.txs[x.next], height[r] + 1, Now)
        /\ f[x.next - 1] \in AppState
    <3>1. app[r] \in AppState
      BY DEF TypeOK
    <3> HIDE DEF x, b
    <3> QED
      BY <2>2, <3>1, EffectsAre
  <2>4. Alike(x.state, f[x.next - 1])
    BY <1>6 DEF ExecTx, ProgressInv
  <2>5. PICK now \in Time :
          exec' = [exec EXCEPT ![r] =
                     [block |-> @.block, next |-> @.next + 1,
                      state |-> DeliverTx(@.state, @.block.txs[@.next], height[r] + 1, now)]]
    BY <1>6 DEF ExecTx
  <2> DEFINE t == DeliverTx(x.state, b.txs[x.next], height[r] + 1, now)
             e == [block |-> x.block, next |-> x.next + 1, state |-> t]
  <2>6. exec' = [exec EXCEPT ![r] = e]
    BY <2>5 DEF TypeOK
  <2> HIDE DEF x, b, f
  <2>7. Alike(t, f[x.next])
    BY <2>2, <2>3, <2>4, NowIn, DeliverAlike
  <2> HIDE DEF t
  <2>8. e.block = b /\ e.next - 1 = x.next /\ e.state = t
    <3>1. e.block = b /\ e.next = x.next + 1 /\ e.state = t
      BY DEF b
    <3> HIDE DEF e
    <3> QED
      BY <2>2, <3>1
  <2> HIDE DEF e
  <2>9. Alike(e.state, Effects(app[r], e.block, height[r] + 1)[e.next - 1])
    BY <2>7, <2>8 DEF f
  <2> QED
    BY <1>6, <2>6, <2>9, OneExecution DEF ExecTx
<1>7. ASSUME NEW r \in Replica, Commit(r)
      PROVE  ProgressInv'
  <2>1. \A q \in Replica : q # r => exec'[q] = exec[q] /\ app'[q] = app[q] /\ height'[q] = height[q]
    BY <1>7 DEF Commit, TypeOK
  <2>2. exec'[r] = NoExec
    BY <1>7 DEF Commit, TypeOK
  <2> QED
    BY <2>1, <2>2 DEF ProgressInv
<1>8. ASSUME NEW r \in Replica, Crash(r)
      PROVE  ProgressInv'
  BY <1>8, OneExecution DEF Crash
<1>9. CASE UNCHANGED vars
  BY <1>9 DEF vars, ProgressInv
<1> QED
  BY <1>1, <1>2, <1>3, <1>4, <1>5, <1>6, <1>7, <1>8, <1>9 DEF Next

(* The blocks up to a node's height do not change any more.                *)
LEMMA ChainTxs ==
  ASSUME TypeOK, NEW h \in 0 .. Len(chain)
  PROVE  \A i \in 1 .. h : chain[i].txs \in Seq(Tx)
<1>1. chain \in Seq(Block) /\ Len(chain) \in Nat
  BY DEF TypeOK
<1>2. \A i \in 1 .. h : chain[i] \in Block
  BY <1>1
<1> QED
  BY <1>2, BlockTxs

(* A commit appends one block to what is replayed.                         *)
LEMMA ReplayStep == IInv /\ [Next]_vars => ReplayInv'
<1> SUFFICES ASSUME IInv, [Next]_vars PROVE ReplayInv'
  OBVIOUS
<1>0. TypeOK /\ ProgressInv /\ ReplayInv
  BY DEF IInv
<1>1. CASE UNCHANGED <<chain, app, height>>
  BY <1>0, <1>1 DEF ReplayInv
<1>2. CASE Decide
  <2>1. ASSUME NEW r \in Replica
        PROVE  Replayed(chain', height[r]) = Replayed(chain, height[r])
    <3>1. /\ chain \in Seq(Block) /\ chain' = Append(chain, proposal)
          /\ height[r] \in 0 .. Len(chain) /\ height[r] \in Nat /\ Len(chain) \in Nat
      BY <1>0, <1>2 DEF Decide, TypeOK
    <3>2. \A i \in 1 .. height[r] : chain'[i] = chain[i]
      BY <3>1
    <3> QED
      BY <1>0, <3>1, <3>2, ChainTxs, ReplayedPrefix
  <2> QED
    BY <1>0, <1>2, <2>1 DEF Decide, ReplayInv
<1>3. ASSUME NEW r \in Replica, Commit(r)
      PROVE  ReplayInv'
  <2> DEFINE x == exec[r]
             b == Decided(r)
             h == height[r] + 1
             before == Replayed(chain, height[r])
  <2>1. /\ x \in Execution /\ x.block = b /\ b \in Block
        /\ x.next > Len(b.txs) /\ x.next <= Len(b.txs) + 1
        /\ height[r] \in Nat /\ height[r] \in 0 .. Len(chain) /\ h \in 0 .. Len(chain)
    <3>1. height[r] \in 0 .. Len(chain)
      BY <1>0 DEF TypeOK
    <3> QED
      BY <1>0, <1>3, <3>1, DecidedType DEF Commit, Executing, TypeOK
  <2>2. x.next - 1 = Len(b.txs) /\ b.txs \in Seq(Tx)
    <3>1. x.next \in Nat /\ Len(b.txs) \in Nat /\ b.txs \in Seq(Tx)
      BY <2>1, BlockTxs DEF Execution
    <3> HIDE DEF x, b
    <3> QED
      BY <2>1, <3>1
  <2>3. Alike(x.state, BlockEffect(app[r], b, h))
    <3>1. x # NoExec
      BY <1>3 DEF Commit, Executing
    <3>2. Alike(x.state, Effects(app[r], x.block, h)[x.next - 1])
      BY <1>0, <3>1 DEF ProgressInv
    <3> HIDE DEF x, b, h
    <3> QED
      BY <2>1, <2>2, <3>2 DEF BlockEffect
  <2>4. /\ before \in AppState
        /\ Replayed(chain, h) = BlockEffect(before, b, h)
    <3>1. \A i \in 1 .. height[r] + 1 : chain[i].txs \in Seq(Tx)
      BY <1>0, <2>1, ChainTxs
    <3> QED
      BY <2>1, <3>1, ReplayedStep DEF Decided
  <2>5. app[r] \in AppState /\ Alike(app[r], before)
    BY <1>0 DEF TypeOK, ReplayInv
  <2> HIDE DEF before, b, x, h
  <2>6. Alike(BlockEffect(app[r], b, h), BlockEffect(before, b, h))
    BY <2>2, <2>4, <2>5, BlockAlike
  <2>7. Alike(x.state, Replayed(chain, h))
    BY <2>3, <2>4, <2>6, AlikeTransitive
  <2>8. /\ app'[r] = x.state /\ height'[r] = h /\ chain' = chain
        /\ \A q \in Replica : q # r => app'[q] = app[q] /\ height'[q] = height[q]
    BY <1>0, <1>3 DEF Commit, TypeOK, x, h
  <2> QED
    BY <1>0, <2>7, <2>8 DEF ReplayInv
<1>4. \/ UNCHANGED <<chain, app, height>> \/ Decide
      \/ \E r \in Replica : Commit(r)
  BY DEF Next, vars, Propose, Accept, NextRound, FinalizeBlock, ExecTx, Crash
<1> QED
  BY <1>1, <1>2, <1>3, <1>4

(* The invariant holds at first.                                           *)
LEMMA IInvInit == Init => IInv
<1> SUFFICES ASSUME Init PROVE IInv
  OBVIOUS
<1>1. TypeOK
  BY TypeInit
<1>2. ProgressInv
  BY DEF Init, ProgressInv
<1>3. Replayed(chain, 0) = GenesisApp
  <2>1. PICK g : Passes(g, chain, 0) /\ Replayed(chain, 0) = g[0]
    BY ReplayedAre
  <2> QED
    BY <2>1 DEF Passes
<1>4. ReplayInv
  BY <1>3 DEF Init, ReplayInv, Alike
<1> QED
  BY <1>1, <1>2, <1>4 DEF IInv

(* The inductive invariant holds in every reachable state.                 *)
LEMMA Invariance == Spec => []IInv
<1>1. IInv /\ [Next]_vars => IInv'
  BY TypeStep, ProgressStep, ReplayStep DEF IInv
<1> QED
  BY <1>1, IInvInit, PTL DEF Spec

-----------------------------------------------------------------------------
(* Theorems.                                                               *)

(* No node is ahead of the chain or past the end of the block it executes, *)
(* and no execution, of a decided block or of a proposal that will never   *)
(* be one, leaves a state that is not well formed.                         *)
THEOREM TypeCorrect == Spec => []TypeOK
  BY Invariance, PTL DEF IInv

(* Whatever was executed of abandoned proposals, aborted, lost in a crash  *)
(* or done twice, every node holds what the decided blocks, executed in    *)
(* order from genesis, produce, but for the times of creation.             *)
THEOREM ReplayedOnly == Spec => []CommittedIsReplay
<1>1. IInv => CommittedIsReplay
  <2> SUFFICES ASSUME IInv, NEW r \in Replica
               PROVE  WithoutTime(app[r]) = WithoutTime(Replayed(chain, height[r]))
    BY DEF CommittedIsReplay
  <2>1. /\ app[r] \in AppState /\ height[r] \in Nat /\ height[r] \in 0 .. Len(chain)
        /\ Alike(app[r], Replayed(chain, height[r]))
    BY DEF IInv, TypeOK, ReplayInv
  <2>2. Replayed(chain, height[r]) \in AppState
    <3>1. \A i \in 1 .. height[r] : chain[i].txs \in Seq(Tx)
      BY <2>1, ChainTxs DEF IInv
    <3>2. PICK g : /\ \A i \in 0 .. height[r] : g[i] \in AppState
                   /\ Replayed(chain, height[r]) = g[height[r]]
      BY <2>1, <3>1, ReplayedAre
    <3> QED
      BY <2>1, <3>2
  <2> QED
    BY <2>1, <2>2, AlikeIs
<1> QED
  BY <1>1, Invariance, PTL

=============================================================================
