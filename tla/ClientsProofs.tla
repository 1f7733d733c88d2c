---------------------------- MODULE ClientsProofs ----------------------------
(***************************************************************************)
(* Theorems about the three components that look at what others write:     *)
(* clients of the list queries (Queries), the snapshot commands beside a   *)
(* running node (Snapshots), and multi-node over the files of earlier runs *)
(* (TestnetFiles).  They share no state; each part is about the            *)
(* specification of its own module.                                        *)
(***************************************************************************)
EXTENDS Queries, Snapshots, TestnetFiles, FiniteSetTheorems, WellFoundedInduction, TLAPS

-----------------------------------------------------------------------------
(***************************************************************************)
(* Queries.  What a client that reads a list page by page may rely on, for *)
(* every number of clients, addresses and cards, every limit, and          *)
(* registrations between any two pages.                                    *)
(***************************************************************************)

AnyRequest == [key : Address \cup {NoKey}, offset : Nat, limit : Nat \ {0}]

-----------------------------------------------------------------------------
(* One page.                                                               *)

(* What Paginate counts is a number: the store holds finitely many keys.   *)
LEMMA PositionType ==
  ASSUME NEW st, NEW req, NEW a
  PROVE  /\ IsFiniteSet({b \in FromKey(st, req.key) : b < a})
         /\ Position(st, req, a) \in Nat
<1>1. {b \in FromKey(st, req.key) : b < a} \in SUBSET Address
  BY DEF FromKey, Registered
<1>2. IsFiniteSet({b \in FromKey(st, req.key) : b < a})
  BY <1>1, AddressAssumption, FS_Subset
<1> QED
  BY <1>2, FS_CardinalityType DEF Position

(* Paginate reads the store in the order of its keys.                      *)
LEMMA PositionsGrow ==
  ASSUME NEW st, NEW req, NEW a \in FromKey(st, req.key),
         NEW b \in FromKey(st, req.key), a < b
  PROVE  Position(st, req, a) < Position(st, req, b)
<1> DEFINE A == {c \in FromKey(st, req.key) : c < a}
           B == {c \in FromKey(st, req.key) : c < b}
<1>1. FromKey(st, req.key) \subseteq Nat
  BY AddressOrder DEF FromKey, Registered
<1>2. A \in SUBSET B /\ a \in B /\ a \notin A
  BY <1>1
<1>3. IsFiniteSet(A) /\ IsFiniteSet(B)
  BY PositionType
<1>4. Cardinality(A) <= Cardinality(B) /\ Cardinality(A) # Cardinality(B)
  <2> HIDE DEF A, B
  <2> QED
    BY <1>2, <1>3, FS_Subset
<1>5. Cardinality(A) \in Nat /\ Cardinality(B) \in Nat
  BY <1>3, FS_CardinalityType
<1> QED
  BY <1>4, <1>5 DEF Position

(* Positions have no gaps: when no element is at the end of the page, none *)
(* is beyond it.                                                           *)
LEMMA NoGaps ==
  ASSUME NEW st, NEW req \in AnyRequest, Beyond(st, req) = {}
  PROVE  \A a \in FromKey(st, req.key) :
           Position(st, req, a) < req.offset + req.limit
<1> DEFINE F == FromKey(st, req.key)
           k == req.offset + req.limit
           Far == {a \in F : ~(Position(st, req, a) < k)}
           less == OpToRel(<, Nat)
<1>1. F \subseteq Nat /\ k \in Nat \ {0}
  <2>1. F \subseteq Nat
    BY AddressOrder DEF FromKey, Registered
  <2>2. req.offset \in Nat /\ req.limit \in Nat \ {0}
    BY DEF AnyRequest
  <2> QED
    BY <2>1, <2>2
<1>2. SUFFICES ASSUME Far # {} PROVE FALSE
  OBVIOUS
<1>3. PICK m \in Far : \A a \in Far : <<a, m>> \notin less
  <2>1. Far \subseteq Nat /\ IsWellFoundedOn(less, Nat)
    BY <1>1, NatLessThanWellFounded
  <2> HIDE DEF Far, less
  <2> QED
    BY <1>2, <2>1, WFMin, Zenon
<1> DEFINE S == {b \in F : b < m}
           f == [b \in S |-> Position(st, req, b)]
<1>4. \A b \in S : Position(st, req, b) \in 0 .. k - 1
  <2> SUFFICES ASSUME NEW b \in S PROVE Position(st, req, b) \in 0 .. k - 1
    OBVIOUS
  <2>1. b \in Nat /\ m \in Nat /\ b < m
    BY <1>1
  <2>2. <<b, m>> \in less
    BY <2>1 DEF OpToRel
  <2>3. b \notin Far
    BY <1>3, <2>2
  <2>4. Position(st, req, b) < k
    BY <2>3
  <2>5. Position(st, req, b) \in Nat
    BY PositionType
  <2> QED
    <3> HIDE DEF k
    <3> QED
      BY <1>1, <2>4, <2>5
<1>5. \A b, c \in S : b # c => Position(st, req, b) # Position(st, req, c)
  <2> SUFFICES ASSUME NEW b \in S, NEW c \in S, b # c
               PROVE  Position(st, req, b) # Position(st, req, c)
    OBVIOUS
  <2>1. b < c \/ c < b
    BY <1>1
  <2>2. Position(st, req, b) \in Nat /\ Position(st, req, c) \in Nat
    BY PositionType
  <2> QED
    BY <2>1, <2>2, PositionsGrow
<1>6. f \in Injection(S, 0 .. k - 1)
  <2> HIDE DEF S, k
  <2> QED
    BY <1>4, <1>5 DEF Injection, IsInjective
<1>7. IsFiniteSet(0 .. k - 1) /\ Cardinality(0 .. k - 1) = k
  <2>1. 0 \in Int /\ k - 1 \in Int /\ ~(0 > k - 1)
    BY <1>1
  <2> QED
    BY <1>1, <2>1, FS_Interval
<1>8. Cardinality(S) <= k
  <2> HIDE DEF S, k, f
  <2> QED
    BY <1>6, <1>7, FS_Injection
<1>9. Position(st, req, m) = Cardinality(S) /\ Position(st, req, m) \in Nat
  BY PositionType DEF Position
<1>10. ~(Position(st, req, m) < k) /\ Position(st, req, m) # k
  BY DEF Beyond
<1> QED
  <2> HIDE DEF k, S
  <2> QED
    BY <1>1, <1>8, <1>9, <1>10

(* What is before the element at the end of the page is not further than   *)
(* the page, what is not before it is not in the page.                     *)
LEMMA BeforeBeyond ==
  ASSUME NEW st, NEW req \in AnyRequest, NEW x \in Beyond(st, req),
         NEW a \in FromKey(st, req.key)
  PROVE  Position(st, req, a) < req.offset + req.limit <=> a < x
<1>1. x \in FromKey(st, req.key) /\ Position(st, req, x) = req.offset + req.limit
  BY DEF Beyond
<1>2. a \in Nat /\ x \in Nat
  BY <1>1, AddressOrder DEF FromKey, Registered
<1>3. Position(st, req, a) \in Nat /\ Position(st, req, x) \in Nat
  BY PositionType
<1>4. CASE a < x
  BY <1>1, <1>4, PositionsGrow
<1>5. CASE a = x
  BY <1>1, <1>2, <1>3, <1>5
<1>6. CASE x < a
  <2>1. Position(st, req, x) < Position(st, req, a)
    BY <1>1, <1>6, PositionsGrow
  <2> QED
    BY <1>1, <1>2, <1>3, <1>6, <2>1
<1> QED
  BY <1>2, <1>4, <1>5, <1>6

(* The next key is that of the element at the end of the page.             *)
LEMMA NextKeyType ==
  ASSUME NEW st, NEW req
  PROVE  /\ NextKey(st, req) \in Registered(st) \cup {NoKey}
         /\ NextKey(st, req) = NoKey <=> Beyond(st, req) = {}
         /\ NextKey(st, req) # NoKey => NextKey(st, req) \in Beyond(st, req)
<1>1. Beyond(st, req) \subseteq Registered(st) /\ NoKey \notin Beyond(st, req)
  BY LimitAssumption DEF Beyond, FromKey, Registered
<1>2. CASE Beyond(st, req) = {}
  BY <1>2 DEF NextKey
<1>3. CASE Beyond(st, req) # {}
  <2>1. NextKey(st, req) \in Beyond(st, req)
    BY <1>3 DEF NextKey
  <2> QED
    BY <1>1, <1>3, <2>1
<1> QED
  BY <1>2, <1>3

(* A page by key holds what lies between its key and the next.             *)
LEMMA KeyPage ==
  ASSUME NEW st, NEW req \in AnyRequest, req.offset = 0,
         NEW a \in FromKey(st, req.key)
  PROVE  a \in Page(st, req) <=>
           NextKey(st, req) = NoKey \/ a < NextKey(st, req)
<1>1. a \in Page(st, req) <=> Position(st, req, a) < req.offset + req.limit
  <2>1. req.limit \in Nat \ {0}
    BY DEF AnyRequest
  <2>2. Position(st, req, a) \in Nat
    BY PositionType
  <2> QED
    BY <2>1, <2>2 DEF Page
<1> QED
  BY <1>1, NextKeyType, NoGaps, BeforeBeyond

-----------------------------------------------------------------------------
(* One client.                                                             *)

(* What Paginate skips before it reads an element of the whole list.       *)
Rank(st, a) == Position(st, Request(NoKey, 0, 1), a)

(* Pages by key have left a behind.                                        *)
Passed(s, a) == s.key # NoKey /\ a < s.key

SessionInv(s) ==
  /\ s \in Session /\ s.key \in Registered(ids) \cup {NoKey}
  /\ s.start \in Store

(* Records stay as they were when the client began.                        *)
StartInv(s) == \A a \in Registered(s.start) : ids[a] = s.start[a]

IdleInv(s) ==
  s.mode = "idle" =>
    ~s.open /\ s.key = NoKey /\ s.offset = 0 /\ \A a \in Address : s.got[a] = 0

(* Behind the key everything was given once, from there on nothing.        *)
KeyInv(s) ==
  s.mode = "key" =>
    \A a \in Address :
      /\ s.got[a] <= 1
      /\ s.open /\ ~Passed(s, a) => s.got[a] = 0
      /\ (~s.open \/ Passed(s, a)) /\ a \in Wanted(s) => s.got[a] = 1

(* Nothing wanted that the offset has passed was missed.                   *)
OffsetInv(s) ==
  s.mode = "offset" =>
    \A a \in Wanted(s) :
      ~s.open \/ Rank(ids, a) < s.offset => s.got[a] >= 1

ClientInv(s) ==
  SessionInv(s) /\ StartInv(s) /\ IdleInv(s) /\ KeyInv(s) /\ OffsetInv(s)

IInv ==
  /\ ids \in Store
  /\ client \in [Client -> Session]
  /\ \A c \in Client : ClientInv(client[c])

(* A session is the record of what a client keeps between two pages.       *)
LEMMA SessionFields ==
  ASSUME NEW s \in Session
  PROVE  /\ s.mode \in {"idle", "key", "offset"}
         /\ s.hash \in IdHash \cup {AnyHash} /\ s.limit \in Limits
         /\ s.limit \in Nat \ {0} /\ s.key \in Address \cup {NoKey}
         /\ s.offset \in Nat /\ s.open \in BOOLEAN
         /\ s.got \in [Address -> 0 .. 2] /\ s.start \in Store
  BY LimitAssumption DEF Session

(* A new identity moves the others to the same or to later positions.      *)
LEMMA RanksGrow ==
  ASSUME ids \in Store, NEW st \in Store, NEW a,
         Registered(ids) \subseteq Registered(st)
  PROVE  Rank(ids, a) <= Rank(st, a)
<1> DEFINE A == {b \in FromKey(ids, NoKey) : b < a}
           B == {b \in FromKey(st, NoKey) : b < a}
<1>1. A \in SUBSET B
  BY DEF FromKey
<1>2. Request(NoKey, 0, 1).key = NoKey
  BY DEF Request
<1>3. IsFiniteSet(A) /\ IsFiniteSet(B)
  BY <1>2, PositionType
<1>4. Rank(ids, a) = Cardinality(A) /\ Rank(st, a) = Cardinality(B)
  BY <1>2 DEF Rank, Position
<1> QED
  <2> HIDE DEF A, B
  <2> QED
    BY <1>1, <1>3, <1>4, FS_Subset

(* A client that has not begun has got nothing.                            *)
LEMMA ClientInit ==
  ASSUME Init
  PROVE  IInv
<1>1. EmptyStore \in Store /\ Registered(EmptyStore) = {}
  BY DEF EmptyStore, Store, Registered, Found
<1>2. Idle \in Session
  <2>1. (CHOOSE l \in Limits : TRUE) \in Limits
    BY LimitAssumption
  <2>2. [a \in Address |-> 0] \in [Address -> 0 .. 2]
    OBVIOUS
  <2> QED
    BY <1>1, <2>1, <2>2 DEF Idle, Session
<1>3. ClientInv(Idle)
  BY <1>1, <1>2 DEF ClientInv, SessionInv, StartInv, IdleInv, KeyInv, OffsetInv, Idle
<1>4. ids = EmptyStore /\ client = [c \in Client |-> Idle]
  BY DEF Init
<1> QED
  BY <1>1, <1>2, <1>3, <1>4 DEF IInv

(* MsgCreateIdentity adds an identity and leaves the others alone.         *)
LEMMA RegisterAdds ==
  ASSUME ids \in Store, NEW m \in CreateIdentityMsg, NEW now \in Time,
         Register(m, now)
  PROVE  /\ ids' \in Store
         /\ \A a \in Registered(ids) : a \in Registered(ids') /\ ids'[a] = ids[a]
<1>1. m.creator \in Address /\ m.cccd \in Cccd
  BY DEF CreateIdentityMsg
<1>2. NewIdentity(m, now) \in IdentityRecord /\ NewIdentity(m, now).address = m.creator
  BY <1>1 DEF NewIdentity, IdentityRecord, IdHash
<1>3. ids' = [ids EXCEPT ![m.creator] = NewIdentity(m, now)]
  BY <1>2 DEF Register, CreateIdentity, SetIdentity
<1>4. ids[m.creator] = NoIdentity
  BY DEF Register, CreateIdentityOk, Found
<1>5. ids \in [Address -> IdentityRecord \cup {NoIdentity}]
  BY DEF Store
<1> QED
  BY <1>1, <1>2, <1>3, <1>4, <1>5 DEF Store, Registered, Found

(* What clients have got is worth as much after a registration.            *)
LEMMA RegisterStep ==
  ASSUME IInv, NEW m \in CreateIdentityMsg, NEW now \in Time, Register(m, now)
  PROVE  IInv'
<1>1. ids \in Store /\ client \in [Client -> Session] /\ client' = client
  BY DEF IInv, Register
<1>2. /\ ids' \in Store /\ Registered(ids) \subseteq Registered(ids')
      /\ \A a \in Registered(ids) : ids'[a] = ids[a]
  BY <1>1, RegisterAdds
<1>3. ASSUME NEW c \in Client PROVE ClientInv(client[c])'
  <2> DEFINE s == client[c]
  <2>1. ClientInv(s) /\ client'[c] = s
    BY <1>1 DEF IInv
  <2>2. SessionInv(s)'
    BY <1>1, <1>2, <2>1 DEF ClientInv, SessionInv
  <2>3. StartInv(s)'
    <3>1. Registered(s.start) \subseteq Registered(ids)
      BY <2>1 DEF ClientInv, StartInv, Registered, Found
    <3> QED
      BY <1>1, <1>2, <2>1, <3>1 DEF ClientInv, StartInv
  <2>4. IdleInv(s)' /\ KeyInv(s)'
    BY <1>1, <2>1 DEF ClientInv, IdleInv, KeyInv, Passed, Wanted
  <2>5. OffsetInv(s)'
    <3>1. \A a \in Address : Rank(ids, a) <= Rank(ids', a)
      BY <1>1, <1>2, RanksGrow
    <3>2. \A a \in Address : Rank(ids, a) \in Nat /\ Rank(ids', a) \in Nat
      BY PositionType DEF Rank
    <3>3. s.offset \in Nat /\ Wanted(s) \subseteq Address
      BY <1>1, SessionFields DEF Wanted, Registered
    <3>4. ASSUME NEW a \in Address, Rank(ids', a) < s.offset
          PROVE  Rank(ids, a) < s.offset
      BY <3>1, <3>2, <3>3, <3>4
    <3>5. s' = s
      BY <1>1
    <3> HIDE DEF s
    <3> QED
      BY <2>1, <3>3, <3>4, <3>5 DEF ClientInv, OffsetInv, Wanted
  <2> QED
    BY <2>2, <2>3, <2>4, <2>5 DEF ClientInv
<1> QED
  BY <1>1, <1>2, <1>3 DEF IInv
(* A client begins with nothing and the identities that are there.         *)
LEMMA BeginStep ==
  ASSUME IInv, NEW c \in Client, NEW mode \in {"key", "offset"},
         NEW hash \in IdHash \cup {AnyHash}, NEW limit \in Limits,
         Begin(c, mode, hash, limit)
  PROVE  IInv'
<1> DEFINE s == client[c]
           t == Begun(s, mode, hash, limit)
<1>1. s \in Session /\ ClientInv(s) /\ s.mode = "idle"
  BY DEF IInv, Begin
<1>2. /\ ids' = ids /\ ids \in Store /\ client \in [Client -> Session]
      /\ client' = [client EXCEPT ![c] = t]
  BY DEF IInv, Begin
<1>3. /\ s.key = NoKey /\ s.offset = 0 /\ s.got \in [Address -> 0 .. 2]
      /\ \A a \in Address : s.got[a] = 0
  BY <1>1, SessionFields DEF ClientInv, IdleInv
<1>4. /\ t.mode = mode /\ t.hash = hash /\ t.limit = limit /\ t.open = TRUE
      /\ t.start = ids /\ t.key = NoKey /\ t.offset = 0 /\ t.got = s.got
  BY <1>1, <1>3 DEF Begun, Session
<1>5. t \in Session
  BY <1>1, <1>2 DEF Begun, Session
<1>6. ClientInv(t)
  <2>1. SessionInv(t) /\ StartInv(t) /\ IdleInv(t)
    BY <1>2, <1>4, <1>5 DEF SessionInv, StartInv, IdleInv
  <2>2. KeyInv(t)
    BY <1>3, <1>4 DEF KeyInv, Passed
  <2>3. OffsetInv(t)
    <3>1. ASSUME NEW a PROVE ~(Rank(ids, a) < 0)
      <4>1. Rank(ids, a) \in Nat
        BY PositionType DEF Rank
      <4> QED
        BY <4>1
    <3> HIDE DEF t
    <3> QED
      BY <1>4, <3>1 DEF OffsetInv
  <2> QED
    BY <2>1, <2>2, <2>3 DEF ClientInv
<1>7. ASSUME NEW d \in Client PROVE ClientInv(client[d])'
  <2>1. ClientInv(client'[d])
    BY <1>2, <1>6 DEF IInv
  <2>2. \A u : SessionInv(u) <=> SessionInv(u)'
    BY <1>2 DEF SessionInv
  <2> QED
    BY <1>2, <2>1 DEF ClientInv, SessionInv, StartInv, IdleInv, KeyInv, OffsetInv,
       Passed, Wanted
<1> QED
  BY <1>2, <1>5, <1>7 DEF IInv

(* What a page adds to what a client has got.                              *)
LEMMA CountedType ==
  ASSUME NEW got \in [Address -> 0 .. 2], NEW more
  PROVE  /\ Counted(got, more) \in [Address -> 0 .. 2]
         /\ \A a \in Address :
              /\ a \notin more => Counted(got, more)[a] = got[a]
              /\ a \in more => Counted(got, more)[a] >= 1
              /\ a \in more /\ got[a] = 0 => Counted(got, more)[a] = 1
              /\ Counted(got, more)[a] >= got[a]
  BY DEF Counted

(* What reading a page leaves of a session.                                *)
LEMMA AfterPageFields ==
  ASSUME NEW s \in Session
  PROVE  /\ AfterPage(s).mode = s.mode /\ AfterPage(s).hash = s.hash
         /\ AfterPage(s).limit = s.limit /\ AfterPage(s).start = s.start
         /\ AfterPage(s).got = Counted(s.got, Returned(ids, s.hash, RequestOf(s)))
         /\ AfterPage(s).key = NextKey(ids, RequestOf(s))
         /\ AfterPage(s).offset = IF s.mode = "offset" THEN s.offset + s.limit ELSE s.offset
         /\ AfterPage(s).open = (NextKey(ids, RequestOf(s)) # NoKey)
  BY DEF AfterPage, Session

(* The request for the next page has a key or an offset.                   *)
LEMMA RequestOfType ==
  ASSUME NEW s \in Session
  PROVE  /\ RequestOf(s) \in AnyRequest /\ RequestOf(s).limit = s.limit
         /\ s.mode = "key" => RequestOf(s).key = s.key /\ RequestOf(s).offset = 0
         /\ s.mode # "key" =>
              RequestOf(s).key = NoKey /\ RequestOf(s).offset = s.offset
  BY SessionFields DEF RequestOf, Request, AnyRequest

(* What was there when the client began is in the store it reads, with the *)
(* same card.                                                              *)
LEMMA WantedIsThere ==
  ASSUME NEW s \in Session, StartInv(s), NEW a \in Wanted(s)
  PROVE  a \in Registered(ids) /\ Matches(ids, s.hash, a)
<1>1. a \in Registered(s.start) /\ Matches(s.start, s.hash, a)
  BY DEF Wanted
<1>2. ids[a] = s.start[a]
  BY <1>1 DEF StartInv
<1> QED
  BY <1>1, <1>2 DEF Registered, Found, Matches

(* The key of a client splits the store into what it has passed and what   *)
(* Paginate iterates over.                                                 *)
LEMMA KeySplits ==
  ASSUME NEW s, s.key \in Address \cup {NoKey}
  PROVE  /\ \A a \in FromKey(ids, s.key) : a \in Address /\ ~Passed(s, a)
         /\ \A a \in Registered(ids) : ~Passed(s, a) => a \in FromKey(ids, s.key)
<1>1. CASE s.key = NoKey
  BY <1>1 DEF FromKey, Registered, Passed
<1>2. CASE s.key \in Nat /\ s.key # NoKey
  <2>1. \A a \in Registered(ids) : a \in Address /\ a \in Nat
    BY AddressOrder DEF Registered
  <2> QED
    BY <1>2, <2>1 DEF FromKey, Passed
<1> QED
  BY <1>1, <1>2, AddressOrder

(* What comes after an element that was not passed was not passed either.  *)
LEMMA PassedBefore ==
  ASSUME NEW s, s.key \in Address \cup {NoKey}, NEW a \in Address,
         NEW b \in Address, ~(a < b), ~Passed(s, b)
  PROVE  ~Passed(s, a)
<1>1. CASE s.key = NoKey
  BY <1>1 DEF Passed
<1>2. CASE s.key \in Nat /\ s.key # NoKey
  <2>1. a \in Nat /\ b \in Nat
    BY AddressOrder
  <2> QED
    BY <1>2, <2>1 DEF Passed
<1> QED
  BY <1>1, <1>2, AddressOrder

(* A page by key continues where the last one ended.                       *)
LEMMA KeyStep ==
  ASSUME ids \in Store, NEW s \in Session, ClientInv(s), s.open, s.mode = "key"
  PROVE  KeyInv(AfterPage(s))
<1> DEFINE req == RequestOf(s)
           next == NextKey(ids, req)
           more == Returned(ids, s.hash, req)
           t == AfterPage(s)
<1>1. /\ t.mode = s.mode /\ t.hash = s.hash /\ t.start = s.start
      /\ t.got = Counted(s.got, more) /\ t.key = next /\ t.open = (next # NoKey)
  BY AfterPageFields
<1>2. req \in AnyRequest /\ req.key = s.key /\ req.offset = 0
  BY RequestOfType
<1>3. s.got \in [Address -> 0 .. 2] /\ s.key \in Address \cup {NoKey}
  BY SessionFields
<1>4. next = NoKey \/ next \in FromKey(ids, s.key)
  BY <1>2, NextKeyType DEF Beyond
<1>5. Address \subseteq Nat /\ NoKey \notin Address
  BY AddressOrder, LimitAssumption
<1>6. more \subseteq Page(ids, req) /\ Page(ids, req) \subseteq FromKey(ids, s.key)
  BY <1>2 DEF Returned, Page
<1>7. \A a \in FromKey(ids, s.key) : a \in Page(ids, req) <=> next = NoKey \/ a < next
  BY <1>2, KeyPage
<1>8. \A a \in FromKey(ids, s.key) : a \in Address /\ ~Passed(s, a)
  BY <1>3, KeySplits
<1>9. Wanted(t) = Wanted(s)
  BY <1>1 DEF Wanted
<1>10. ASSUME NEW a \in Address
       PROVE  /\ s.got[a] <= 1 /\ (~Passed(s, a) => s.got[a] = 0)
              /\ Passed(s, a) /\ a \in Wanted(s) => s.got[a] = 1
  BY DEF ClientInv, KeyInv
<1> HIDE DEF req, next, more, t
<1>11. ASSUME NEW a \in Address PROVE t.got[a] <= 1
  <2>1. CASE a \in more
    BY <1>1, <1>3, <1>6, <1>8, <1>10, <2>1, CountedType
  <2>2. CASE a \notin more
    BY <1>1, <1>3, <1>10, <2>2, CountedType
  <2> QED
    BY <2>1, <2>2
<1>12. ASSUME NEW a \in Address, next # NoKey, ~(a < next)
       PROVE  t.got[a] = 0
  <2>1. a \notin more
    BY <1>6, <1>7, <1>12
  <2>2. ~Passed(s, a)
    <3>1. next \in Address /\ ~Passed(s, next)
      BY <1>4, <1>8, <1>12
    <3> QED
      BY <1>3, <1>5, <1>12, <3>1, PassedBefore
  <2> QED
    BY <1>1, <1>3, <1>10, <2>1, <2>2, CountedType
<1>13. ASSUME NEW a \in Address, a \in Wanted(s), next = NoKey \/ a < next
       PROVE  t.got[a] = 1
  <2>1. CASE Passed(s, a)
    BY <1>1, <1>3, <1>6, <1>8, <1>10, <1>13, <2>1, CountedType
  <2>2. CASE ~Passed(s, a)
    <3>1. a \in Registered(ids) /\ Matches(ids, s.hash, a)
      BY <1>13, WantedIsThere DEF ClientInv
    <3>2. a \in FromKey(ids, s.key)
      BY <1>3, <2>2, <3>1, KeySplits
    <3>3. a \in more
      BY <1>7, <1>13, <3>1, <3>2 DEF more, Returned
    <3> QED
      BY <1>1, <1>3, <1>10, <2>2, <3>3, CountedType
  <2> QED
    BY <2>1, <2>2
<1> QED
  BY <1>1, <1>9, <1>11, <1>12, <1>13 DEF KeyInv, Passed, t

(* A page by offset continues after what has been counted.                 *)
LEMMA OffsetStep ==
  ASSUME ids \in Store, NEW s \in Session, ClientInv(s), s.open, s.mode = "offset"
  PROVE  OffsetInv(AfterPage(s))
<1> DEFINE req == RequestOf(s)
           next == NextKey(ids, req)
           more == Returned(ids, s.hash, req)
           t == AfterPage(s)
<1>1. /\ t.mode = s.mode /\ t.hash = s.hash /\ t.start = s.start
      /\ t.got = Counted(s.got, more) /\ t.open = (next # NoKey)
      /\ t.offset = s.offset + s.limit
  BY AfterPageFields
<1>2. req \in AnyRequest /\ req.key = NoKey /\ req.offset = s.offset /\ req.limit = s.limit
  BY RequestOfType
<1>3. /\ s.got \in [Address -> 0 .. 2] /\ s.offset \in Nat /\ s.limit \in Nat
      /\ \A a \in Address : s.got[a] \in Nat
  BY SessionFields
<1>4. \A a : Position(ids, req, a) = Rank(ids, a) /\ Rank(ids, a) \in Nat
  <2>1. Request(NoKey, 0, 1).key = NoKey
    BY DEF Request
  <2> QED
    BY <1>2, <2>1, PositionType DEF Rank, Position
<1>5. Wanted(t) = Wanted(s) /\ Wanted(s) \subseteq Address
  BY <1>1 DEF Wanted, Registered
<1>6. next = NoKey => \A a \in FromKey(ids, NoKey) : Rank(ids, a) < s.offset + s.limit
  BY <1>2, <1>4, NextKeyType, NoGaps
<1>7. \A a \in Wanted(s) : Rank(ids, a) < s.offset => s.got[a] >= 1
  BY DEF ClientInv, OffsetInv
<1>8. \A a \in FromKey(ids, NoKey) :
        a \in Page(ids, req) <=> Rank(ids, a) \in s.offset .. s.offset + s.limit - 1
  BY <1>2, <1>4 DEF Page
<1> HIDE DEF req, next, more, t
<1>9. ASSUME NEW a \in Wanted(s), ~t.open \/ Rank(ids, a) < t.offset
      PROVE  t.got[a] >= 1
  <2>1. a \in Registered(ids) /\ Matches(ids, s.hash, a)
    BY WantedIsThere DEF ClientInv
  <2>2. a \in FromKey(ids, NoKey)
    BY <2>1 DEF FromKey
  <2>3. Rank(ids, a) < s.offset + s.limit
    BY <1>1, <1>6, <1>9, <2>2
  <2>4. CASE Rank(ids, a) < s.offset
    <3>1. Counted(s.got, more)[a] >= s.got[a] /\ Counted(s.got, more)[a] \in 0 .. 2
      BY <1>3, <1>5, CountedType
    <3> QED
      BY <1>1, <1>3, <1>5, <1>7, <2>4, <3>1
  <2>5. CASE ~(Rank(ids, a) < s.offset)
    <3>1. Rank(ids, a) \in s.offset .. s.offset + s.limit - 1
      BY <1>3, <1>4, <2>3, <2>5
    <3>2. a \in more
      BY <1>8, <2>1, <2>2, <3>1 DEF more, Returned
    <3> QED
      BY <1>1, <1>3, <1>5, <3>2, CountedType
  <2> QED
    BY <2>4, <2>5
<1> QED
  BY <1>5, <1>9 DEF OffsetInv, t

(* Reading a page keeps what a client may rely on.                         *)
LEMMA ReadStep ==
  ASSUME IInv, NEW c \in Client, ReadPage(c)
  PROVE  IInv'
<1> DEFINE s == client[c]
           t == AfterPage(s)
<1>1. s \in Session /\ ClientInv(s) /\ s.open
  BY DEF IInv, ReadPage
<1>2. /\ ids' = ids /\ ids \in Store /\ client \in [Client -> Session]
      /\ client' = [client EXCEPT ![c] = t]
  BY DEF IInv, ReadPage
<1>3. s.mode \in {"key", "offset"}
  BY <1>1, SessionFields DEF ClientInv, IdleInv
<1>4. t.mode = s.mode /\ t.start = s.start /\ t.key \in Registered(ids) \cup {NoKey}
  BY <1>1, AfterPageFields, NextKeyType
<1>5. t \in Session
  <2>1. NextKey(ids, RequestOf(s)) \in Address \cup {NoKey}
    BY NextKeyType DEF Registered
  <2>2. Counted(s.got, Returned(ids, s.hash, RequestOf(s))) \in [Address -> 0 .. 2]
    BY <1>1, SessionFields, CountedType
  <2>3. (IF s.mode = "offset" THEN s.offset + s.limit ELSE s.offset) \in Nat
    BY <1>1, SessionFields
  <2> QED
    BY <1>1, <2>1, <2>2, <2>3 DEF AfterPage, Session
<1>6. ClientInv(t)
  <2>1. SessionInv(t) /\ StartInv(t) /\ IdleInv(t)
    BY <1>1, <1>3, <1>4, <1>5 DEF ClientInv, SessionInv, StartInv, IdleInv
  <2>2. KeyInv(t)
    BY <1>1, <1>2, <1>4, KeyStep DEF KeyInv
  <2>3. OffsetInv(t)
    BY <1>1, <1>2, <1>4, OffsetStep DEF OffsetInv
  <2> QED
    BY <2>1, <2>2, <2>3 DEF ClientInv
<1>7. ASSUME NEW d \in Client PROVE ClientInv(client[d])'
  <2>1. ClientInv(client'[d])
    BY <1>2, <1>6 DEF IInv
  <2> QED
    BY <1>2, <2>1 DEF ClientInv, SessionInv, StartInv, IdleInv, KeyInv, OffsetInv,
       Passed, Wanted
<1> QED
  BY <1>2, <1>5, <1>7 DEF IInv

(* The invariant holds in every state.                                     *)
LEMMA Invariance == Spec => []IInv
<1>1. IInv /\ [Next]_vars => IInv'
  <2> SUFFICES ASSUME IInv, [Next]_vars PROVE IInv'
    OBVIOUS
  <2>1. CASE UNCHANGED vars
    BY <2>1 DEF vars, IInv, ClientInv, SessionInv, StartInv, IdleInv, KeyInv,
       OffsetInv, Passed, Wanted
  <2> QED
    BY <2>1, RegisterStep, BeginStep, ReadStep DEF Next
<1> QED
  BY <1>1, ClientInit, PTL DEF Spec

-----------------------------------------------------------------------------
(* What the gRPC handlers of the list queries keep, between two pages.     *)
THEOREM TypeCorrect == Spec => []TypeOK
<1>1. IInv => TypeOK
  BY DEF IInv, ClientInv, SessionInv, TypeOK
<1> QED
  BY <1>1, Invariance, PTL

(* IdentityAll and IdentityByCccdId read by key: every identity that was   *)
(* there at the beginning comes once, none comes twice.                    *)
THEOREM KeyReadingIsExact == Spec => []KeyPagesAreExact
<1>1. IInv => KeyPagesAreExact
  BY DEF IInv, ClientInv, KeyInv, KeyPagesAreExact, Finished, Wanted, Registered
<1> QED
  BY <1>1, Invariance, PTL

(* Read by offset, nothing that was there at the beginning is left out.    *)
THEOREM OffsetReadingIsComplete == Spec => []OffsetPagesMissNothing
<1>1. IInv => OffsetPagesMissNothing
  BY DEF IInv, ClientInv, OffsetInv, OffsetPagesMissNothing, Finished
<1> QED
  BY <1>1, Invariance, PTL

-----------------------------------------------------------------------------
(***************************************************************************)
(* Snapshots.  What the snapshot commands may rely on, for every interval, *)
(* number of snapshots kept and height of the chain.                       *)
(***************************************************************************)

-----------------------------------------------------------------------------
(* The largest of some heights.                                            *)

(* The bound on heights is itself a height.                                *)
LEMMA MaxHeightNat == MaxHeight \in Nat /\ 0 \in Height
<1>1. MaxHeight \in Nat
  BY SnapshotsAssumption
<1> QED
  BY <1>1 DEF Height

(* The largest of a set of heights is one of them and no other is larger.  *)
LEMMA MaxHeightOf ==
  ASSUME NEW S \in SUBSET Height, S # {}
  PROVE  MaxOr0(S) \in S /\ \A h \in S : h <= MaxOr0(S)
<1> DEFINE T == {MaxHeight - h : h \in S}
           less == OpToRel(<, Nat)
<1>1. MaxHeight \in Nat /\ \A h \in S : h \in 0 .. MaxHeight
  BY MaxHeightNat DEF Height
<1>2. T \subseteq Nat /\ T # {}
  BY <1>1
<1>3. \A x, y \in Nat : <<y, x>> \notin less => x <= y
  BY DEF OpToRel
<1>4. IsWellFoundedOn(less, Nat)
  BY NatLessThanWellFounded
<1>5. PICK t \in T : \A u \in T : t <= u
  <2> HIDE DEF less, T
  <2>1. PICK t \in T : \A u \in T : <<u, t>> \notin less
    BY <1>2, <1>4, WFMin, Zenon
  <2> QED
    BY <1>2, <1>3, <2>1
<1>6. PICK x \in S : t = MaxHeight - x
  OBVIOUS
<1>7. \A y \in S : MaxHeight - y \in T
  OBVIOUS
<1>8. \A y \in S : x >= y
  <2> HIDE DEF T
  <2>1. \A y \in S : MaxHeight - x <= MaxHeight - y
    BY <1>5, <1>6, <1>7
  <2> QED
    BY <1>1, <2>1
<1>9. MaxOr0(S) = CHOOSE m \in S : \A y \in S : m >= y
  BY DEF MaxOr0, Max
<1>10. MaxOr0(S) \in S /\ \A y \in S : MaxOr0(S) >= y
  BY <1>8, <1>9, Zenon
<1> QED
  BY <1>1, <1>10

(* The latest height that getLatestSnapshotHeight returns is a height.     *)
LEMMA MaxOr0Type ==
  ASSUME NEW S \in SUBSET Height
  PROVE  MaxOr0(S) \in Height
BY MaxHeightOf, MaxHeightNat DEF MaxOr0, Height

(* More heights, a larger maximum.                                         *)
LEMMA MaxMonotone ==
  ASSUME NEW S \in SUBSET Height, NEW T \in SUBSET Height,
         \A h \in S : \E k \in T : h <= k
  PROVE  MaxOr0(S) <= MaxOr0(T)
<1>1. CASE S = {}
  BY <1>1, MaxOr0Type, MaxHeightNat DEF MaxOr0, Height
<1>2. CASE S # {}
  <2>1. MaxOr0(S) \in S
    BY <1>2, MaxHeightOf
  <2>2. PICK k \in T : MaxOr0(S) <= k
    BY <2>1
  <2>3. k <= MaxOr0(T)
    BY <2>2, MaxHeightOf
  <2> QED
    BY <2>1, <2>2, <2>3, MaxOr0Type, MaxHeightNat DEF Height
<1> QED
  BY <1>1, <1>2

-----------------------------------------------------------------------------
(* The inductive invariant.                                                *)

(* The variables hold what they should, apart from what is only shown.     *)
SnapshotTypeInv ==
  /\ setting \in Settings /\ up \in BOOLEAN /\ height \in Height
  /\ dir \in [Height -> Content] /\ meta \in SUBSET Height
  /\ op \in [step : {"idle", "mkdir", "write", "prune", "wipe"}, h : Height,
             todo : SUBSET Height, bare : SUBSET Height]
  /\ cli \in [step : {"ready", "status", "counted", "confirm"}, h : Height,
              chunk : BOOLEAN, count : Nat, newest : Height]
  /\ damaged \in SUBSET Height

(* While the node prunes, a snapshot leaves its metadata before its files  *)
(* go, and until a new one is complete nothing is left over from pruning.  *)
PruneInv ==
  /\ op.step = "wipe" => op.h \notin meta
  /\ op.bare \cap meta = {}
  /\ op.step \in {"idle", "mkdir", "write"} => op.bare = {} /\ op.todo = {}

(* What is pruned is never the newest.                                     *)
NewestInv ==
  /\ 0 \notin meta
  /\ op.step \in {"mkdir", "write"} => op.h # 0
  /\ \A h \in op.todo : \E k \in meta \ op.todo : h < k

(* A command that has counted saw the snapshots that were there, as long   *)
(* as no chunk was deleted.                                                *)
CountInv ==
  cli.step = "counted" /\ damaged = {} =>
    /\ cli.newest <= MaxOr0(meta)
    /\ cli.count = 0 => cli.newest = 0

SnapshotInv == SnapshotTypeInv /\ PruneInv /\ OfferedAreWhole /\ NewestInv /\ CountInv

(* A snapshot that the node offers is a directory that info sees.          *)
LEMMA OfferedAreSeen ==
  ASSUME SnapshotInv
  PROVE  /\ damaged = {} => meta \subseteq SnapshotDirs
         /\ SnapshotDirs \in SUBSET Height /\ IsFiniteSet(SnapshotDirs)
<1>1. damaged = {} => meta \subseteq SnapshotDirs
  BY DEF SnapshotInv, OfferedAreWhole, NewestInv, SnapshotTypeInv, SnapshotDirs
<1>2. SnapshotDirs \in SUBSET Height
  BY DEF SnapshotDirs
<1>3. IsFiniteSet(Height)
  BY FS_Interval, MaxHeightNat DEF Height
<1> QED
  BY <1>1, <1>2, <1>3, FS_Subset

-----------------------------------------------------------------------------
(* A node that starts with an empty directory satisfies the invariant.     *)
LEMMA SnapshotInvInit == SnapshotInit => SnapshotInv
<1> SUFFICES ASSUME SnapshotInit PROVE SnapshotInv
  OBVIOUS
<1>1. meta \in SUBSET (1 .. height) /\ height \in Height
  BY DEF SnapshotInit
<1>2. meta \in SUBSET Height /\ 0 \notin meta /\ 0 \in Height
  BY <1>1, MaxHeightNat DEF Height
<1>3. SnapshotTypeInv
  BY <1>1, <1>2 DEF SnapshotInit, SnapshotTypeInv, Content, IdleOp, Ready
<1>4. PruneInv /\ OfferedAreWhole /\ NewestInv /\ CountInv
  BY <1>2 DEF SnapshotInit, PruneInv, OfferedAreWhole, NewestInv, CountInv, IdleOp, Ready
<1> QED
  BY <1>3, <1>4 DEF SnapshotInv

-----------------------------------------------------------------------------
(* Each conjunct is disturbed by few actions.                              *)

(* Only delete damages a snapshot, and what is damaged stays so.           *)
LEMMA DamageStays == [SnapshotNext]_snapshotVars => damaged \subseteq damaged'
<1> SUFFICES ASSUME [SnapshotNext]_snapshotVars PROVE damaged \subseteq damaged'
  OBVIOUS
<1>1. CASE runSnapshotDelete
  BY <1>1 DEF runSnapshotDelete, RemoveChunk
<1> QED
  BY <1>1, Zenon DEF SnapshotNext, Commit, MakeHeightDir, WriteChunks, Forget, Wipe,
     RemoveDirs, Stop, StartNode, getRealBlockchainStatus, countSnapshotFiles,
     runSnapshotInfo, AskToDelete, snapshotVars

(* What leaves the node, the directory and what was damaged alone.         *)
LEMMA Others ==
  ASSUME StartNode \/ getRealBlockchainStatus \/ countSnapshotFiles \/ runSnapshotInfo
           \/ AskToDelete \/ UNCHANGED snapshotVars
  PROVE  UNCHANGED <<op, meta, dir, damaged>>
BY Zenon DEF StartNode, getRealBlockchainStatus, countSnapshotFiles, runSnapshotInfo,
             AskToDelete, node, snapshotVars

(* Every step of the node and of the two commands keeps the types.         *)
LEMMA SnapshotTypeStep == SnapshotTypeInv /\ [SnapshotNext]_snapshotVars => SnapshotTypeInv'
<1> SUFFICES ASSUME SnapshotTypeInv, [SnapshotNext]_snapshotVars PROVE SnapshotTypeInv'
  OBVIOUS
<1> USE DEF SnapshotTypeInv
<1>1. CASE Commit
  <2>1. height + 1 \in Height
    BY <1>1, MaxHeightNat DEF Commit, Height
  <2> QED
    BY <1>1, <2>1 DEF Commit, Making
<1>2. CASE MakeHeightDir
  BY <1>2 DEF MakeHeightDir, Content
<1>3. CASE WriteChunks
  <2>1. CASE dir[op.h] = "none"
    BY <1>3, <2>1, MaxHeightNat DEF WriteChunks, IdleOp
  <2>2. CASE dir[op.h] = "empty"
    BY <1>3, <2>2, MaxHeightNat DEF WriteChunks, Content, IdleOp
  <2>3. CASE dir[op.h] = "part"
    <3>1. /\ meta' = meta \cup {op.h}
          /\ dir' = [dir EXCEPT ![op.h] = IF op.h \in damaged THEN "part" ELSE "full"]
      BY <1>3, <2>3 DEF WriteChunks
    <3>2. TooMany(meta') \in SUBSET Height
      BY <3>1 DEF TooMany
    <3>3. op' = [op EXCEPT !.step = "prune", !.h = 0, !.todo = TooMany(meta')]
      BY <1>3, <2>3 DEF WriteChunks
    <3>4. op' = [step |-> "prune", h |-> 0, todo |-> TooMany(meta'), bare |-> op.bare]
      BY <3>3
    <3>5. op' \in [step : {"idle", "mkdir", "write", "prune", "wipe"}, h : Height,
                   todo : SUBSET Height, bare : SUBSET Height]
      BY <3>2, <3>4, MaxHeightNat
    <3> QED
      BY <1>3, <3>1, <3>5 DEF WriteChunks, Content
  <2>4. CASE dir[op.h] = "full"
    BY <1>3, <2>4 DEF WriteChunks
  <2>5. dir[op.h] \in Content
    OBVIOUS
  <2> HIDE DEF SnapshotTypeInv
  <2> QED
    BY <2>1, <2>2, <2>3, <2>4, <2>5 DEF Content
<1>4. CASE Forget
  <2>1. PICK h \in op.todo : /\ meta' = meta \ {h}
                             /\ op' = [op EXCEPT !.step = "wipe", !.h = h, !.todo = @ \ {h}]
    BY <1>4 DEF Forget
  <2>2. op' = [step |-> "wipe", h |-> h, todo |-> op.todo \ {h}, bare |-> op.bare]
    BY <2>1
  <2>3. op' \in [step : {"idle", "mkdir", "write", "prune", "wipe"}, h : Height,
                 todo : SUBSET Height, bare : SUBSET Height]
    BY <2>2
  <2> QED
    BY <1>4, <2>1, <2>3 DEF Forget
<1>5. CASE Wipe
  BY <1>5, MaxHeightNat DEF Wipe, Content
<1>6. CASE RemoveDirs
  BY <1>6, MaxHeightNat DEF RemoveDirs, Content, IdleOp
<1>7. CASE Stop \/ StartNode
  <2>1. up' \in BOOLEAN
    BY <1>7, Zenon DEF Stop, StartNode
  <2>2. op' = IdleOp \/ op' = op
    BY <1>7 DEF Stop, StartNode
  <2>3. UNCHANGED <<setting, height, dir, meta, cli, damaged>>
    BY <1>7, Zenon DEF Stop, StartNode
  <2> QED
    BY <2>1, <2>2, <2>3, MaxHeightNat DEF IdleOp
<1>8. CASE getRealBlockchainStatus
  BY <1>8, MaxHeightNat DEF getRealBlockchainStatus, node
<1>9. CASE countSnapshotFiles
  <2>1. SnapshotDirs \in SUBSET Height /\ IsFiniteSet(Height)
    BY FS_Interval, MaxHeightNat DEF SnapshotDirs, Height
  <2>2. Cardinality(SnapshotDirs) \in Nat
    BY <2>1, FS_Subset, FS_CardinalityType
  <2> QED
    BY <1>9, <2>2, MaxOr0Type DEF countSnapshotFiles, node
<1>10. CASE runSnapshotInfo
  BY <1>10, MaxHeightNat DEF runSnapshotInfo, node, Ready
<1>11. CASE AskToDelete
  BY <1>11 DEF AskToDelete, node, SnapshotDirs
<1>12. CASE runSnapshotDelete
  <2>1. AfterRemove(cli.h) \in [Height -> Content]
    BY DEF AfterRemove, Content
  <2>2. dir' \in [Height -> Content] /\ damaged' \in SUBSET Height
    BY <1>12, <2>1 DEF runSnapshotDelete, RemoveChunk, Content
  <2> QED
    BY <1>12, <2>2, MaxHeightNat DEF runSnapshotDelete, node, Ready
<1>13. CASE UNCHANGED snapshotVars
  BY <1>13 DEF snapshotVars
<1> QED
  BY <1>1, <1>2, <1>3, <1>4, <1>5, <1>6, <1>7, <1>8, <1>9, <1>10, <1>11, <1>12,
     <1>13 DEF SnapshotNext

(* What Prune still has to remove is in no list that the node offers.      *)
LEMMA PruneStep == SnapshotTypeInv /\ PruneInv /\ [SnapshotNext]_snapshotVars => PruneInv'
<1> SUFFICES ASSUME SnapshotTypeInv, PruneInv, [SnapshotNext]_snapshotVars PROVE PruneInv'
  OBVIOUS
<1> USE DEF SnapshotTypeInv, PruneInv
<1>1. CASE Commit
  BY <1>1 DEF Commit, Making
<1>2. CASE MakeHeightDir
  BY <1>2 DEF MakeHeightDir
<1>3. CASE WriteChunks
  <2>1. CASE op' = IdleOp /\ meta' = meta
    BY <2>1 DEF IdleOp
  <2>2. CASE op' = op /\ meta' = meta
    BY <2>2
  <2>3. CASE op' = [op EXCEPT !.step = "prune", !.h = 0, !.todo = TooMany(meta')]
    <3>1. op'.step = "prune" /\ op'.bare = op.bare
      BY <2>3
    <3>2. op.bare = {}
      BY <1>3 DEF WriteChunks
    <3> QED
      BY <3>1, <3>2
  <2> QED
    BY <1>3, <2>1, <2>2, <2>3 DEF WriteChunks
<1>4. CASE Forget
  BY <1>4 DEF Forget
<1>5. CASE Wipe
  BY <1>5 DEF Wipe
<1>6. CASE RemoveDirs
  BY <1>6 DEF RemoveDirs, IdleOp
<1>7. CASE Stop
  BY <1>7 DEF Stop, IdleOp
<1>8. CASE UNCHANGED <<op, meta>>
  BY <1>8
<1>9. CASE runSnapshotDelete
  BY <1>8, <1>9, Zenon DEF runSnapshotDelete, node
<1> QED
  BY <1>9, <1>1, <1>2, <1>3, <1>4, <1>5, <1>6, <1>7, <1>8, Others DEF SnapshotNext

(* Every step leaves the offered snapshots whole that delete was not told  *)
(* to damage: of a directory os.Remove takes it only when it is empty, and *)
(* Prune forgets a snapshot before it wipes it.                            *)
LEMMA OfferedStep ==
  SnapshotTypeInv /\ PruneInv /\ OfferedAreWhole /\ [SnapshotNext]_snapshotVars => OfferedAreWhole'
<1> SUFFICES ASSUME SnapshotTypeInv, PruneInv, OfferedAreWhole, [SnapshotNext]_snapshotVars
             PROVE  OfferedAreWhole'
  OBVIOUS
<1> USE DEF SnapshotTypeInv, PruneInv, OfferedAreWhole
<1>1. CASE MakeHeightDir
  BY <1>1 DEF MakeHeightDir
<1>2. CASE WriteChunks
  BY <1>2 DEF WriteChunks
<1>3. CASE Forget
  BY <1>3 DEF Forget
<1>4. CASE Wipe
  BY <1>4 DEF Wipe
<1>5. CASE RemoveDirs
  BY <1>5 DEF RemoveDirs
<1>6. CASE runSnapshotDelete
  <2>1. meta' = meta
    BY <1>6, Zenon DEF runSnapshotDelete, node
  <2>2. CASE dir' = dir /\ damaged' = damaged
    BY <2>1, <2>2
  <2>3. CASE dir' = AfterRemove(cli.h) /\ damaged' = damaged
    BY <2>1, <2>3 DEF AfterRemove
  <2>4. CASE RemoveChunk(cli.h)
    BY <2>1, <2>4 DEF RemoveChunk
  <2> QED
    BY <1>6, <2>2, <2>3, <2>4, Zenon DEF runSnapshotDelete
<1>7. CASE UNCHANGED <<meta, dir, damaged>>
  BY <1>7
<1>8. CASE Commit \/ Stop
  BY <1>7, <1>8, Zenon DEF Commit, Stop
<1> QED
  BY <1>1, <1>2, <1>3, <1>4, <1>5, <1>6, <1>7, <1>8, Others DEF SnapshotNext

(* However many snapshots are kept, the newest is one of them.             *)
LEMMA NewestIsKept ==
  ASSUME NEW M \in SUBSET Height, NEW h \in TooMany(M)
  PROVE  \E k \in M \ TooMany(M) : h < k
<1> DEFINE top == MaxOr0(M)
<1>1. h \in M /\ M # {}
  BY DEF TooMany
<1>2. top \in M /\ \A k \in M : k <= top
  BY <1>1, MaxHeightOf
<1> HIDE DEF top
<1>3. {k \in M : k > top} = {}
  <2>1. \A k \in M : k \in Int
    BY MaxHeightNat DEF Height
  <2>2. \A k \in M : ~ (k > top)
    BY <1>2, <2>1
  <2> QED
    BY <2>2, Zenon
<1>4. KeepRecent \in Nat \ {0}
  BY SnapshotsAssumption
<1>5. top \notin TooMany(M)
  BY <1>3, <1>4, FS_EmptySet DEF TooMany
<1>6. h # top
  BY <1>5
<1>7. h < top
  BY <1>1, <1>2, <1>6, MaxHeightNat DEF Height
<1> QED
  BY <1>2, <1>5, <1>7

(* Every step keeps the newest snapshot that was ever complete in the list. *)
LEMMA NewestStep ==
  SnapshotTypeInv /\ PruneInv /\ NewestInv /\ [SnapshotNext]_snapshotVars => NewestInv'
<1> SUFFICES ASSUME SnapshotTypeInv, PruneInv, NewestInv, [SnapshotNext]_snapshotVars PROVE NewestInv'
  OBVIOUS
<1> USE DEF SnapshotTypeInv, PruneInv, NewestInv
<1>1. CASE Commit
  <2>1. height + 1 # 0
    BY MaxHeightNat DEF Height
  <2> QED
    BY <1>1, <2>1 DEF Commit, Making
<1>2. CASE MakeHeightDir
  BY <1>2 DEF MakeHeightDir
<1>3. CASE WriteChunks
  <2>1. CASE op' = IdleOp /\ meta' = meta
    BY <2>1 DEF IdleOp
  <2>2. CASE op' = op /\ meta' = meta
    BY <2>2
  <2>3. CASE /\ op' = [op EXCEPT !.step = "prune", !.h = 0, !.todo = TooMany(meta')]
             /\ meta' = meta \cup {op.h}
    <3>1. op'.step = "prune" /\ op'.todo = TooMany(meta')
      BY <2>3
    <3>2. meta' \in SUBSET Height /\ 0 \notin meta'
      BY <1>3, <2>3 DEF WriteChunks
    <3>3. \A h \in TooMany(meta') : \E k \in meta' \ TooMany(meta') : h < k
      BY <3>2, NewestIsKept
    <3> QED
      BY <3>1, <3>2, <3>3
  <2> QED
    BY <1>3, <2>1, <2>2, <2>3 DEF WriteChunks
<1>4. CASE Forget
  <2>1. PICK h \in op.todo :
          /\ meta' = meta \ {h}
          /\ op' = [op EXCEPT !.step = "wipe", !.h = h, !.todo = @ \ {h}]
    BY <1>4 DEF Forget
  <2>2. op'.step = "wipe" /\ op'.todo = op.todo \ {h}
    BY <2>1
  <2>3. meta' \ op'.todo = meta \ op.todo
    BY <2>1, <2>2
  <2> QED
    BY <2>1, <2>2, <2>3
<1>5. CASE Wipe
  BY <1>5 DEF Wipe
<1>6. CASE RemoveDirs
  BY <1>6 DEF RemoveDirs, IdleOp
<1>7. CASE Stop
  BY <1>7 DEF Stop, IdleOp
<1>8. CASE UNCHANGED <<op, meta>>
  BY <1>8
<1>9. CASE runSnapshotDelete
  BY <1>8, <1>9, Zenon DEF runSnapshotDelete, node
<1> QED
  BY <1>1, <1>2, <1>3, <1>4, <1>5, <1>6, <1>7, <1>8, <1>9, Others DEF SnapshotNext

-----------------------------------------------------------------------------
(* The newest snapshot never gets older.                                   *)
LEMMA NewestGrows ==
  ASSUME SnapshotInv, [SnapshotNext]_snapshotVars
  PROVE  MaxOr0(meta) <= MaxOr0(meta')
<1> USE DEF SnapshotInv
<1>1. meta \in SUBSET Height /\ meta' \in SUBSET Height
  BY SnapshotTypeStep DEF SnapshotTypeInv
<1>2. \A h \in meta : \E k \in meta' : h <= k
  <2>1. CASE Forget
    <3>1. PICK h \in op.todo : meta' = meta \ {h}
      BY <2>1 DEF Forget
    <3>2. PICK k \in meta \ op.todo : h < k
      BY <3>1 DEF NewestInv
    <3> QED
      BY <1>1, <3>1, <3>2, MaxHeightNat DEF Height
  <2>2. CASE meta \subseteq meta'
    BY <1>1, <2>2, MaxHeightNat DEF Height
  <2>3. CASE Commit \/ MakeHeightDir \/ Wipe \/ RemoveDirs \/ Stop \/ runSnapshotDelete
    BY <2>2, <2>3, Zenon DEF Commit, MakeHeightDir, Wipe, RemoveDirs, Stop,
                             runSnapshotDelete, node
  <2>4. CASE WriteChunks
    BY <2>2, <2>4 DEF WriteChunks
  <2> QED
    BY <2>1, <2>2, <2>3, <2>4, Others DEF SnapshotNext
<1> QED
  BY <1>1, <1>2, MaxMonotone

(* What countSnapshotFiles has read so far stays below what the node keeps. *)
LEMMA CountStep == SnapshotInv /\ [SnapshotNext]_snapshotVars => CountInv'
<1> SUFFICES ASSUME SnapshotInv, [SnapshotNext]_snapshotVars PROVE CountInv'
  OBVIOUS
<1>1. CASE countSnapshotFiles
  <2>1. cli'.newest = MaxOr0(meta) /\ cli'.count = Cardinality(SnapshotDirs)
    BY <1>1 DEF countSnapshotFiles, SnapshotInv, SnapshotTypeInv
  <2>2. meta' = meta
    BY <1>1, Zenon DEF countSnapshotFiles, node
  <2>3. MaxOr0(meta) \in Height
    BY MaxOr0Type DEF SnapshotInv, SnapshotTypeInv
  <2>4. damaged = {} /\ Cardinality(SnapshotDirs) = 0 => meta = {}
    BY OfferedAreSeen, FS_EmptySet
  <2>5. meta = {} => MaxOr0(meta) = 0
    BY DEF MaxOr0
  <2>6. damaged' = {} => damaged = {}
    BY DamageStays
  <2> QED
    BY <2>1, <2>2, <2>3, <2>4, <2>5, <2>6, MaxHeightNat DEF CountInv, Height
<1>2. CASE cli' = cli
  <2>1. MaxOr0(meta) <= MaxOr0(meta')
    BY NewestGrows
  <2>2. MaxOr0(meta) \in Height /\ MaxOr0(meta') \in Height /\ cli.newest \in Height
    BY MaxOr0Type, SnapshotTypeStep DEF SnapshotInv, SnapshotTypeInv
  <2>3. damaged' = {} => damaged = {}
    BY DamageStays
  <2> QED
    BY <1>2, <2>1, <2>2, <2>3, MaxHeightNat DEF CountInv, Height, SnapshotInv
<1>3. CASE getRealBlockchainStatus \/ runSnapshotInfo \/ AskToDelete \/ runSnapshotDelete
  <2>1. cli'.step \in {"status", "ready", "confirm"}
    <3>1. CASE getRealBlockchainStatus
      BY <3>1 DEF getRealBlockchainStatus, SnapshotInv, SnapshotTypeInv
    <3>2. CASE runSnapshotInfo \/ runSnapshotDelete
      <4>1. cli' = Ready
        BY <3>2, Zenon DEF runSnapshotInfo, runSnapshotDelete
      <4> QED
        BY <4>1 DEF Ready
    <3>3. CASE AskToDelete
      BY <3>3 DEF AskToDelete, SnapshotInv, SnapshotTypeInv
    <3> QED
      BY <1>3, <3>1, <3>2, <3>3
  <2> QED
    BY <2>1 DEF CountInv
<1>4. CASE Commit \/ MakeHeightDir \/ WriteChunks \/ Forget \/ Wipe \/ RemoveDirs
           \/ Stop \/ StartNode \/ UNCHANGED snapshotVars
  <2>1. cli' = cli
    BY <1>4 DEF Commit, MakeHeightDir, WriteChunks, Forget, Wipe, RemoveDirs,
                Stop, StartNode, snapshotVars
  <2> QED
    BY <1>2, <2>1
<1> QED
  BY <1>1, <1>3, <1>4 DEF SnapshotNext

(* The invariant is inductive: its five parts together.                    *)
LEMMA SnapshotInvStep == SnapshotInv /\ [SnapshotNext]_snapshotVars => SnapshotInv'
BY SnapshotTypeStep, PruneStep, OfferedStep, NewestStep, CountStep DEF SnapshotInv

(* The line that runSnapshotInfo prints is covered by what it has counted. *)
LEMMA LatestStep == SnapshotInv /\ LatestIsNewest /\ [SnapshotNext]_snapshotVars => LatestIsNewest'
<1> SUFFICES ASSUME SnapshotInv, LatestIsNewest, [SnapshotNext]_snapshotVars,
                    damaged' = {}
             PROVE  (shown.latest >= shown.newest)'
  BY DEF LatestIsNewest
<1>0. damaged = {}
  BY DamageStays
<1>1. CASE runSnapshotInfo
  <2>1. shown'.newest = cli.newest
    BY <1>1 DEF runSnapshotInfo
  <2>2. shown'.latest = IF cli.count > 0 THEN MaxOr0(SnapshotDirs) ELSE 0
    BY <1>1 DEF runSnapshotInfo, getLatestSnapshotHeight
  <2>3. cli.step = "counted"
    BY <1>1 DEF runSnapshotInfo
  <2>4. cli.newest <= MaxOr0(meta) /\ (cli.count = 0 => cli.newest = 0)
    BY <1>0, <2>3 DEF SnapshotInv, CountInv
  <2>5. MaxOr0(meta) <= MaxOr0(SnapshotDirs)
    <3>1. meta \in SUBSET Height /\ SnapshotDirs \in SUBSET Height
      BY OfferedAreSeen DEF SnapshotInv, SnapshotTypeInv
    <3>2. \A h \in meta : \E k \in SnapshotDirs : h <= k
      BY <1>0, <3>1, OfferedAreSeen, MaxHeightNat DEF Height
    <3> QED
      BY <3>1, <3>2, MaxMonotone
  <2>6. cli.count \in Nat /\ cli.newest \in Height /\ MaxOr0(meta) \in Height
        /\ MaxOr0(SnapshotDirs) \in Height
    BY MaxOr0Type, OfferedAreSeen DEF SnapshotInv, SnapshotTypeInv
  <2> QED
    BY <2>1, <2>2, <2>4, <2>5, <2>6, MaxHeightNat DEF LatestIsNewest, Height
<1>2. CASE shown' = shown
  BY <1>0, <1>2 DEF LatestIsNewest
<1> QED
  BY <1>1, <1>2, Zenon DEF SnapshotNext, Commit, MakeHeightDir, WriteChunks, Forget, Wipe,
     RemoveDirs, Stop, StartNode, getRealBlockchainStatus, countSnapshotFiles,
     AskToDelete, runSnapshotDelete, snapshotVars

-----------------------------------------------------------------------------
(* The theorems.                                                           *)

(* While the node makes and prunes snapshots, those it offers are whole,   *)
(* unless runSnapshotDelete was given the path of a chunk: a directory is  *)
(* removed by os.Remove only when it is empty by then, and pruning forgets *)
(* a snapshot before it wipes it.  Once a chunk was named nothing is said  *)
(* of that snapshot, which the node may go on offering without it.         *)
THEOREM WholeUnlessChunkNamed == SnapshotSpec => []OfferedAreWhole
<1>1. SnapshotInv => OfferedAreWhole
  BY DEF SnapshotInv
<1> QED
  BY <1>1, SnapshotInvInit, SnapshotInvStep, PTL DEF SnapshotSpec

(* What runSnapshotInfo prints as the latest snapshot is at least as new   *)
(* as any that was complete when countSnapshotFiles read the directory,    *)
(* as long as delete has not removed a chunk of any.                       *)
THEOREM InfoIsCurrent == SnapshotSpec => []LatestIsNewest
<1>1. SnapshotInit => LatestIsNewest
  BY DEF SnapshotInit, LatestIsNewest
<1> QED
  BY <1>1, SnapshotInvInit, SnapshotInvStep, LatestStep, PTL DEF SnapshotSpec

-----------------------------------------------------------------------------
(* What info prints is well formed too.                                    *)

(* The numbers printed by runSnapshotInfo are in range: no snapshot is     *)
(* claimed beyond the chain, and the bar is never longer than its frame.   *)
ShownInv ==
  /\ cli.count \in 0 .. Cardinality(Height)
  /\ shown.latest \in Height
  /\ shown.last <= shown.height
  /\ shown.bar \in 0 .. Width

(* Rounding down to a multiple does not exceed the number.                 *)
LEMMA RoundsDown ==
  ASSUME NEW h \in Nat, NEW k \in Nat \ {0}
  PROVE  LastSnapshot(h, k) \in Nat /\ LastSnapshot(h, k) <= h
<1> DEFINE q == h \div k
<1>1. q \in Nat /\ h % k \in Nat
  OBVIOUS
<1>2. h = k * q + (h % k)
  BY SMT
<1>3. q * k = k * q /\ k * q \in Nat
  BY <1>1, SMT
<1> QED
  BY <1>1, <1>2, <1>3 DEF LastSnapshot

(* The bar is cut at the width of its frame.                               *)
LEMMA BarFits ==
  ASSUME NEW c \in Nat, NEW t \in Nat
  PROVE  createProgressBar(c, t) \in 0 .. Width
<1>1. Width \in Nat
  BY SnapshotsAssumption
<1>2. CASE t = 0
  BY <1>1, <1>2 DEF createProgressBar
<1>3. CASE t # 0
  <2> DEFINE q == (c * Width) \div t
  <2>1. c * Width \in Nat
    BY <1>1
  <2>2. q \in Nat
    BY <2>1, <1>3
  <2>3. createProgressBar(c, t) = Min({q, Width})
    BY <1>3 DEF createProgressBar
  <2> HIDE DEF q
  <2>4. \E x \in {q, Width} : \A y \in {q, Width} : x <= y
    BY <1>1, <2>2
  <2>5. Min({q, Width}) \in {q, Width} /\ Min({q, Width}) <= Width
    BY <2>4 DEF Min
  <2> QED
    BY <1>1, <2>2, <2>3, <2>5
<1> QED
  BY <1>2, <1>3

(* Nothing is shown at first.                                              *)
LEMMA ShownInit == SnapshotInit => ShownInv
<1> SUFFICES ASSUME SnapshotInit PROVE ShownInv
  OBVIOUS
<1>1. Width \in Nat /\ 0 \in Height
  BY SnapshotsAssumption, MaxHeightNat
<1>2. Cardinality(Height) \in Nat
  BY FS_Interval, FS_CardinalityType, MaxHeightNat DEF Height
<1> QED
  BY <1>1, <1>2 DEF SnapshotInit, Ready, ShownInv

(* What info shows follows what it counted, step by step.                  *)
LEMMA ShownStep == SnapshotTypeInv /\ ShownInv /\ [SnapshotNext]_snapshotVars => ShownInv'
<1> SUFFICES ASSUME SnapshotTypeInv, ShownInv, [SnapshotNext]_snapshotVars PROVE ShownInv'
  OBVIOUS
<1>1. IsFiniteSet(Height) /\ Cardinality(Height) \in Nat
  BY FS_Interval, FS_CardinalityType, MaxHeightNat DEF Height
<1>2. SnapshotDirs \in SUBSET Height
  BY DEF SnapshotDirs
<1>3. CASE countSnapshotFiles
  <2>1. Cardinality(SnapshotDirs) \in 0 .. Cardinality(Height)
    BY <1>1, <1>2, FS_Subset, FS_CardinalityType
  <2>2. cli'.count = Cardinality(SnapshotDirs) /\ shown' = shown
    BY <1>3 DEF countSnapshotFiles, SnapshotTypeInv
  <2> QED
    BY <2>1, <2>2 DEF ShownInv
<1>4. CASE runSnapshotInfo
  <2> DEFINE interval == parseConfigValueInt
             last == IF interval = 0 THEN 0 ELSE LastSnapshot(cli.h, interval)
  <2>1. interval \in Nat /\ cli.h \in Nat
    BY SnapshotsAssumption, MaxHeightNat DEF parseConfigValueInt, SnapshotTypeInv, Height
  <2>2. last \in Nat /\ last <= cli.h
    BY <2>1, RoundsDown
  <2>3. cli.h - last \in Nat
    BY <2>1, <2>2
  <2>4. createProgressBar(cli.h - last, interval) \in 0 .. Width
    BY <2>1, <2>3, BarFits
  <2>5. getLatestSnapshotHeight \in Height
    BY <1>2, MaxOr0Type DEF getLatestSnapshotHeight
  <2>6. /\ shown'.height = cli.h
        /\ shown'.last = last
        /\ shown'.bar = createProgressBar(cli.h - last, interval)
        /\ shown'.latest = IF cli.count > 0 THEN getLatestSnapshotHeight ELSE 0
    BY <1>4 DEF runSnapshotInfo
  <2>7. cli'.count = 0
    BY <1>4 DEF runSnapshotInfo, Ready
  <2> HIDE DEF last, interval
  <2>8. shown'.latest \in Height
    BY <2>5, <2>6, MaxHeightNat
  <2> QED
    BY <1>1, <2>2, <2>4, <2>6, <2>7, <2>8 DEF ShownInv
<1>5. CASE runSnapshotDelete
  <2>1. cli'.count = 0 /\ shown' = shown
    BY <1>5 DEF runSnapshotDelete, Ready
  <2> QED
    BY <1>1, <2>1 DEF ShownInv
<1>6. CASE getRealBlockchainStatus \/ AskToDelete
  <2>1. cli'.count = cli.count /\ shown' = shown
    BY <1>6 DEF getRealBlockchainStatus, AskToDelete, SnapshotTypeInv
  <2> QED
    BY <2>1 DEF ShownInv
<1>7. CASE UNCHANGED <<cli, shown>>
  BY <1>7 DEF ShownInv
<1>8. Commit \/ MakeHeightDir \/ WriteChunks \/ Forget \/ Wipe \/ RemoveDirs
      \/ Stop \/ StartNode \/ UNCHANGED snapshotVars => UNCHANGED <<cli, shown>>
  BY Zenon DEF Commit, MakeHeightDir, WriteChunks, Forget, Wipe, RemoveDirs,
               Stop, StartNode, snapshotVars
<1> QED
  BY <1>3, <1>4, <1>5, <1>6, <1>7, <1>8 DEF SnapshotNext

(* Whatever the node and the commands do, in whatever order, their         *)
(* variables stay well formed, the numbers that info prints included.      *)
THEOREM SnapshotTypeCorrect == SnapshotSpec => []SnapshotTypeOK
<1>1. SnapshotInit => SnapshotTypeInv /\ ShownInv
  BY SnapshotInvInit, ShownInit DEF SnapshotInv
<1>2. SnapshotTypeInv /\ ShownInv /\ [SnapshotNext]_snapshotVars => SnapshotTypeInv' /\ ShownInv'
  BY SnapshotTypeStep, ShownStep
<1>3. SnapshotTypeInv /\ ShownInv => SnapshotTypeOK
  BY DEF SnapshotTypeInv, ShownInv, SnapshotTypeOK
<1> QED
  BY <1>1, <1>2, <1>3, PTL DEF SnapshotSpec

-----------------------------------------------------------------------------
(***************************************************************************)
(* TestnetFiles.  What "nexelrad multi-node" leaves on the disk, for every *)
(* number of validators, runs and lists of stakes.                         *)
(***************************************************************************)

(* Accounts of this run.                                                   *)
Mine == {Me(d) : d \in 0 .. n - 1}

Funded(g) ==
  \A tx \in g.gentxs : tx.account \in g.accounts /\ tx.stake <= Tokens

-----------------------------------------------------------------------------
(* The inductive invariant.                                                *)

(* How far the loops have come.                                            *)
RunInv ==
  /\ phase # "idle" =>
       /\ run \in 1 .. MaxRuns /\ chain \in ChainIds
       /\ n \in 1 .. MaxValidators /\ entries \in StakeLists
  /\ phase \in {"init", "genesis", "collect"} => i <= n
  /\ phase = "overwrite" => i < n /\ appState # None
  /\ phase \in {"idle", "init", "genesis", "copy"} => appState = None

(* A genesis transaction lies under the name of its validator, whatever    *)
(* run has made it.                                                        *)
OwnerInv ==
  \A d, s \in Dir :
    disk[d].gentx[s] \notin {None, Broken} => disk[d].gentx[s].account.owner = s

(* The first loop has left every directory its own genesis transaction.    *)
OwnInv ==
  phase \in {"init", "genesis", "copy", "collect", "overwrite", "done"} =>
    \A d \in 0 .. n - 1 :
      (phase = "init" => d < i) => disk[d].gentx[d] = OwnGenTx(d)

(* Until genesis files are written, there are only those of other runs.    *)
ChainInv ==
  \A d \in Dir : disk[d].genesis # None =>
    /\ disk[d].genesis.run <= run
    /\ phase = "init" => disk[d].genesis.run < run

(* The second loop has left every directory a genesis file of this run.    *)
GenesisInv ==
  phase \in {"genesis", "copy", "collect", "overwrite", "done"} =>
    \A d \in 0 .. n - 1 : (phase = "genesis" => d < i) =>
      /\ disk[d].genesis # None /\ disk[d].genesis.run = run
      /\ disk[d].genesis.accounts \subseteq Mine

(* The third has brought the first directory all genesis transactions.     *)
CopyInv ==
  phase \in {"copy", "collect", "overwrite", "done"} =>
    \A s \in 0 .. n - 1 : (phase = "copy" => s < i) =>
      disk[0].gentx[s] = OwnGenTx(s) \/ <<s, 0>> \in lost

(* The canonical application state is one that InitChain accepts.          *)
CanonInv ==
  appState # None =>
    appState.gentxs # {} /\ Funded(appState) /\ appState.accounts \subseteq Mine

(* The genesis files that the second loop writes, that genutil writes and  *)
(* that the fourth loop puts in its place.                                 *)
EmptyDoc == Exported("none", [accounts |-> accounts, gentxs |-> {}])

OwnDoc == [disk[i].genesis EXCEPT !.time = "own", !.gentxs = Collected(i)]

CommonDoc == Exported("common", appState)

(* The directory at which the fourth loop is, or has stopped.              *)
Halfway(d) == d = i /\ phase \in {"overwrite", "failed"}

(* No other finished genesis file of this run differs from the common one. *)
FinishedInv ==
  \A d \in Dir :
    Complete(d) /\ disk[d].genesis.run = run =>
      appState # None /\ (disk[d].genesis = CommonDoc \/ Halfway(d))

(* The fourth loop has written it to the directories before that.          *)
CollectInv ==
  phase \in {"collect", "overwrite", "done"} =>
    \A d \in 0 .. n - 1 : (phase # "done" => d < i) =>
      appState # None /\ disk[d].genesis = CommonDoc

(* It has every validator, and no other.                                   *)
AllInv ==
  phase \in {"collect", "overwrite", "done"} /\ appState # None /\ (\A p \in lost : p[2] # 0) =>
    appState.gentxs = {OwnGenTx(d) : d \in 0 .. n - 1}

FilesInv ==
  /\ FilesTypeOK /\ RunInv /\ OwnerInv /\ OwnInv /\ ChainInv /\ GenesisInv /\ CopyInv
  /\ CanonInv /\ FinishedInv /\ CollectInv /\ AllInv /\ SameRunSameGenesis

-----------------------------------------------------------------------------
(* Types.                                                                  *)

(* A stake is a number: what does not parse is not stored.                 *)
LEMMA StakeType ==
  ASSUME NEW list \in StakeLists \cup {<<>>}, NEW d
  PROVE  Stake(list, d) \in Nat
<1> DEFINE at == {k \in Parsed(list) : Top(list, k) = d}
<1>1. list \in Seq(Nat \cup {NotANumber})
  <2>1. CASE list \in StakeLists
    BY <2>1, StakeAssumption
  <2>2. CASE list = <<>>
    BY <2>2
  <2> QED
    BY <2>1, <2>2
<1>2. \A k \in Parsed(list) : list[k] \in Nat
  BY <1>1 DEF Parsed
<1>3. CASE at = {}
  BY <1>3, StakeAssumption DEF Stake
<1>4. CASE at # {}
  <2>1. (CHOOSE k \in at : TRUE) \in at
    BY <1>4
  <2>2. Stake(list, d) = list[CHOOSE k \in at : TRUE]
    BY <1>4 DEF Stake
  <2> QED
    BY <1>2, <2>1, <2>2
<1> QED
  BY <1>3, <1>4

(* The directories of a run, its accounts and genesis transactions.        *)
LEMMA OwnTypes ==
  ASSUME FilesTypeOK, RunInv, phase # "idle", NEW d \in 0 .. n - 1
  PROVE  d \in Dir /\ Me(d) \in Account /\ OwnGenTx(d) \in GenTx
<1>1. n \in 1 .. MaxValidators /\ run \in 1 .. MaxRuns
  BY DEF RunInv
<1>2. d \in Dir
  BY <1>1, BoundsAssumption DEF Dir
<1>3. Stake(entries, d) \in Nat
  BY StakeType DEF FilesTypeOK
<1> QED
  BY <1>1, <1>2, <1>3 DEF Me, OwnGenTx, Account, GenTx

(* Where the third loop is.                                                *)
LEMMA CopyIndex ==
  ASSUME FilesTypeOK, RunInv, phase = "copy", i < n * n
  PROVE  /\ Source \in 0 .. n - 1 /\ Target \in 0 .. n - 1
         /\ Source \in Dir /\ Target \in Dir
         /\ i < n => Source = i /\ Target = 0
         /\ ~(i < n) => Target # 0
<1>1. n \in Nat \ {0} /\ i \in Nat /\ n <= MaxValidators
  BY BoundsAssumption DEF RunInv, FilesTypeOK
<1>2. Source \in 0 .. n - 1
  BY <1>1 DEF Source
<1>3. Target \in 0 .. n - 1
  BY <1>1 DEF Target
<1>4. i < n => Source = i /\ Target = 0
  BY <1>1 DEF Source, Target
<1>5. ~(i < n) => Target # 0
  BY <1>1 DEF Target
<1>6. 0 .. n - 1 \subseteq Dir
  BY <1>1, BoundsAssumption DEF Dir
<1> QED
  BY <1>2, <1>3, <1>4, <1>5, <1>6

(* A genesis transaction is written.                                       *)
LEMMA PutGenTx ==
  ASSUME FilesTypeOK, NEW d \in Dir, NEW s \in Dir, NEW tx,
         disk' = [disk EXCEPT ![d].gentx[s] = tx]
  PROVE  /\ \A e \in Dir : disk'[e].genesis = disk[e].genesis
         /\ tx \in GenTx \cup {None, Broken} => disk' \in [Dir -> Files]
<1>1. disk \in [Dir -> Files]
  BY DEF FilesTypeOK
<1> QED
  BY <1>1 DEF Files

(* A genesis file is written.                                              *)
LEMMA PutGenesis ==
  ASSUME FilesTypeOK, NEW d \in Dir, NEW g, disk' = [disk EXCEPT ![d].genesis = g]
  PROVE  /\ \A e \in Dir : disk'[e].gentx = disk[e].gentx
         /\ disk'[d].genesis = g
         /\ \A e \in Dir : e # d => disk'[e].genesis = disk[e].genesis
         /\ g \in GenDoc \cup {None} => disk' \in [Dir -> Files]
<1>1. disk \in [Dir -> Files]
  BY DEF FilesTypeOK
<1> QED
  BY <1>1 DEF Files

(* The output directory is removed.                                        *)
LEMMA Removed ==
  ASSUME disk' = [d \in Dir |-> NoFiles]
  PROVE  /\ disk' \in [Dir -> Files]
         /\ \A d \in Dir : disk'[d].genesis = None /\ \A s \in Dir : disk'[d].gentx[s] = None
  BY DEF Files, NoFiles

(* What genutil collects from a directory it accepts are whole genesis     *)
(* transactions.                                                           *)
LEMMA CollectedType ==
  ASSUME FilesTypeOK, NEW d \in Dir, Collectable(d)
  PROVE  Collected(d) \subseteq GenTx
<1>1. \A s \in Dir : disk[d].gentx[s] \in GenTx \cup {None, Broken}
  BY DEF FilesTypeOK, Files
<1> QED
  BY <1>1 DEF Collectable, Collected

-----------------------------------------------------------------------------
(* The loops are short enough for their counter.                           *)
LEMMA Squares ==
  ASSUME NEW k \in Nat
  PROVE  k * k \in Nat /\ k <= k * k
<1>1. CASE k = 0
  BY <1>1
<1>2. CASE k >= 1
  BY <1>2
<1> QED
  BY <1>1, <1>2

-----------------------------------------------------------------------------
(* The steps of the command, one conjunct of the invariant at a time.      *)

(* What the canonical application state is when it is chosen, and the      *)
(* genesis file that genutil writes of its own.                            *)
LEMMA CanonicalIs ==
  ASSUME FilesTypeOK, RunInv, OwnInv, GenesisInv, CanonInv,
         phase = "collect", i < n, Collectable(i)
  PROVE  /\ Canonical \in AppState
         /\ Canonical.gentxs # {} /\ Funded(Canonical)
         /\ Canonical.accounts \subseteq Mine
         /\ appState # None => Canonical = appState
         /\ appState = None => Canonical.gentxs = Collected(i)
         /\ OwnDoc \in GenDoc /\ OwnDoc.run = run /\ OwnDoc.accounts \subseteq Mine
<1>1. i \in 0 .. n - 1 /\ phase # "idle"
  BY DEF FilesTypeOK, RunInv
<1>2. i \in Dir /\ OwnGenTx(i) \in GenTx
  BY <1>1, OwnTypes
<1>3. /\ disk[i].genesis \in GenDoc /\ disk[i].genesis.run = run
      /\ disk[i].genesis.accounts \subseteq Mine
  BY <1>1, <1>2 DEF GenesisInv, FilesTypeOK, Files
<1>4. Collected(i) \subseteq GenTx
  BY <1>2, CollectedType
<1>5. OwnDoc \in GenDoc /\ OwnDoc.run = run /\ OwnDoc.accounts \subseteq Mine
  BY <1>3, <1>4 DEF OwnDoc, GenDoc
<1>6. CASE appState # None
  BY <1>5, <1>6 DEF Canonical, CanonInv, FilesTypeOK
<1>7. CASE appState = None
  <2>1. OwnGenTx(i) \in Collected(i)
    <3>1. disk[i].gentx[i] = OwnGenTx(i)
      BY <1>1 DEF OwnInv
    <3>2. disk[i].gentx[i] # None
      BY <1>2, <3>1, FilesAssumption
    <3> QED
      BY <1>2, <3>1, <3>2 DEF Collected
  <2>2. Canonical = [accounts |-> disk[i].genesis.accounts, gentxs |-> Collected(i)]
    BY <1>7 DEF Canonical, AppStateOf
  <2>3. disk[i].genesis.accounts \in SUBSET Account
    BY <1>3 DEF GenDoc
  <2>4. /\ Canonical.gentxs = Collected(i) /\ Canonical.accounts = disk[i].genesis.accounts
        /\ Canonical \in AppState
    BY <1>4, <2>2, <2>3 DEF AppState
  <2>5. Funded(Canonical)
    BY <2>4 DEF Funded, Collectable
  <2> QED
    BY <1>3, <1>5, <1>7, <2>1, <2>4, <2>5
<1> QED
  BY <1>6, <1>7

(* The genesis files that the second and the fourth loop write.            *)
LEMMA DocsAre ==
  ASSUME FilesTypeOK, RunInv, CanonInv, phase \in {"genesis", "overwrite"}, i < n
  PROVE  /\ i \in Dir
         /\ phase = "genesis" =>
              /\ EmptyDoc \in GenDoc /\ EmptyDoc.run = run /\ EmptyDoc.gentxs = {}
              /\ EmptyDoc.accounts \subseteq Mine
         /\ phase = "overwrite" =>
              /\ CommonDoc \in GenDoc /\ CommonDoc.run = run
              /\ CommonDoc.accounts \subseteq Mine
<1>1. i \in 0 .. n - 1 /\ phase # "idle"
  BY BoundsAssumption DEF FilesTypeOK, RunInv
<1>2. i \in Dir /\ run \in 1 .. MaxRuns /\ chain \in ChainIds
  BY <1>1, OwnTypes DEF RunInv
<1>3. accounts \subseteq Account /\ accounts \subseteq Mine
  BY <1>1, OwnTypes DEF FilesTypeOK, Mine
<1>4. /\ EmptyDoc \in GenDoc /\ EmptyDoc.run = run /\ EmptyDoc.gentxs = {}
      /\ EmptyDoc.accounts \subseteq Mine
  BY <1>2, <1>3 DEF EmptyDoc, Exported, GenDoc
<1>5. ASSUME phase = "overwrite"
      PROVE  /\ CommonDoc \in GenDoc /\ CommonDoc.run = run
             /\ CommonDoc.accounts \subseteq Mine
  <2>1. appState \in AppState /\ appState.accounts \subseteq Mine
    BY <1>5 DEF RunInv, CanonInv, FilesTypeOK
  <2>2. appState.accounts \subseteq Account /\ appState.gentxs \subseteq GenTx
    BY <2>1 DEF AppState
  <2> QED
    BY <1>2, <2>1, <2>2 DEF CommonDoc, Exported, GenDoc
<1> QED
  BY <1>2, <1>4, <1>5

(* Every step keeps the types.                                             *)
LEMMA FilesTypeStep ==
  ASSUME FilesInv, FilesNext
  PROVE  FilesTypeOK'
<1>1. /\ FilesTypeOK /\ RunInv /\ OwnInv /\ GenesisInv /\ CanonInv
      /\ n \in Nat /\ i \in Nat /\ n * n \in Nat /\ n <= n * n
  BY Squares, BoundsAssumption DEF FilesInv, FilesTypeOK
<1>2. ASSUME NEW k \in 1 .. MaxValidators, NEW list \in StakeLists, NEW id \in ChainIds,
             Start(k, list, id)
      PROVE  FilesTypeOK'
  <2>1. k * k \in Nat
    BY BoundsAssumption, Squares
  <2> QED
    BY <1>1, <1>2, <2>1, BoundsAssumption DEF FilesTypeOK, Start
<1>3. CASE InitNode
  <2>1. i \in 0 .. n - 1 /\ phase # "idle"
    BY <1>1, <1>3 DEF InitNode
  <2>2. i \in Dir /\ OwnGenTx(i) \in GenTx
    BY <1>1, <2>1, OwnTypes
  <2>3. disk' \in [Dir -> Files]
    BY <1>1, <1>3, <2>2, PutGenTx DEF InitNode
  <2>4. accounts' \subseteq {Me(d) : d \in 0 .. n - 1}
    BY <1>1, <1>3, <2>1 DEF InitNode, FilesTypeOK
  <2> QED
    BY <1>1, <1>3, <2>3, <2>4 DEF InitNode, FilesTypeOK, Me
<1>4. CASE InitError
  <2>1. disk' \in [Dir -> Files]
    BY <1>1, <1>4, Removed DEF InitError, FilesTypeOK
  <2> QED
    BY <1>1, <1>4, <2>1 DEF InitError, FilesTypeOK, Me
<1>5. CASE InitDone \/ GenesisDone \/ CopyDone \/ CollectError \/ Finish \/ Interrupt
  BY <1>1, <1>5 DEF InitDone, GenesisDone, CopyDone, CollectError, Finish, Interrupt,
     FilesTypeOK, Me
<1>6. CASE WriteGenesis \/ OverwriteNode
  <2>1. i < n /\ phase \in {"genesis", "overwrite"}
    BY <1>1, <1>6 DEF WriteGenesis, OverwriteNode, RunInv
  <2>2. PICK g \in GenDoc : disk' = [disk EXCEPT ![i].genesis = g]
    BY <1>1, <1>6, <2>1, DocsAre DEF WriteGenesis, OverwriteNode, EmptyDoc, CommonDoc
  <2>3. disk' \in [Dir -> Files]
    BY <1>1, <2>1, <2>2, DocsAre, PutGenesis
  <2> QED
    BY <1>1, <1>6, <2>1, <2>3 DEF WriteGenesis, OverwriteNode, FilesTypeOK, Me
<1>7. CASE CopyGenTx
  <2>1. Source \in Dir /\ Target \in Dir
    BY <1>1, <1>7, CopyIndex DEF CopyGenTx
  <2>2. disk[Source].gentx[Source] \in GenTx \cup {None, Broken}
    BY <1>1, <2>1 DEF FilesTypeOK, Files
  <2>3. disk' \in [Dir -> Files]
    BY <1>1, <1>7, <2>1, <2>2, PutGenTx DEF CopyGenTx
  <2> QED
    BY <1>1, <1>7, <2>3 DEF CopyGenTx, FilesTypeOK, Me
<1>8. CASE CopyFails
  <2>1. Source \in Dir /\ Target \in Dir
    BY <1>1, <1>8, CopyIndex DEF CopyFails
  <2>2. PICK left \in {disk[Target].gentx[Source], Broken} :
          disk' = [disk EXCEPT ![Target].gentx[Source] = left]
    BY <1>8 DEF CopyFails
  <2>3. left \in GenTx \cup {None, Broken}
    BY <1>1, <2>1, <2>2 DEF FilesTypeOK, Files
  <2>4. disk' \in [Dir -> Files]
    BY <1>1, <2>1, <2>2, <2>3, PutGenTx
  <2>5. lost' \subseteq Dir \X Dir
    BY <1>1, <1>8, <2>1 DEF CopyFails, FilesTypeOK
  <2> QED
    BY <1>1, <1>8, <2>4, <2>5 DEF CopyFails, FilesTypeOK, Me
<1>9. CASE CollectNode
  <2>1. i \in 0 .. n - 1 /\ phase # "idle"
    BY <1>1, <1>9 DEF CollectNode
  <2>2. i \in Dir
    BY <1>1, <2>1, OwnTypes
  <2>3. Canonical \in AppState /\ OwnDoc \in GenDoc
    BY <1>1, <1>9, CanonicalIs DEF CollectNode
  <2>4. disk' = [disk EXCEPT ![i].genesis = OwnDoc]
    BY <1>9 DEF CollectNode, OwnDoc
  <2>5. disk' \in [Dir -> Files]
    BY <1>1, <2>2, <2>3, <2>4, PutGenesis
  <2> QED
    BY <1>1, <1>9, <2>3, <2>5 DEF CollectNode, FilesTypeOK, Me
<1> QED
  BY <1>2, <1>3, <1>4, <1>5, <1>6, <1>7, <1>8, <1>9 DEF FilesNext

(* The loops go as far as there are validators.                            *)
LEMMA RunStep ==
  ASSUME FilesInv, FilesNext
  PROVE  RunInv'
<1>1. FilesTypeOK /\ RunInv
  BY DEF FilesInv
<1>0. n \in Nat /\ i \in Nat /\ run \in Nat /\ MaxRuns \in Nat /\ MaxValidators \in Nat
  BY <1>1, BoundsAssumption DEF FilesTypeOK
<1>2. CASE \E k \in 1 .. MaxValidators, list \in StakeLists, id \in ChainIds : Start(k, list, id)
  BY <1>0, <1>1, <1>2 DEF Start, RunInv
<1>3. CASE InitNode \/ InitError \/ InitDone
  BY <1>0, <1>1, <1>3 DEF InitNode, InitError, InitDone, RunInv
<1>4. CASE WriteGenesis \/ GenesisDone
  BY <1>0, <1>1, <1>4 DEF WriteGenesis, GenesisDone, RunInv
<1>5. CASE CopyGenTx \/ CopyFails \/ CopyDone
  BY <1>0, <1>1, <1>5 DEF CopyGenTx, CopyFails, CopyDone, RunInv
<1>6. CASE OverwriteNode \/ CollectError \/ Finish \/ Interrupt
  BY <1>0, <1>1, <1>6 DEF OverwriteNode, CollectError, Finish, Interrupt, RunInv
<1>7. CASE CollectNode
  <2>1. Canonical # None
    BY <1>7, CanonicalIs, FilesAssumption DEF CollectNode, FilesInv
  <2> QED
    BY <1>0, <1>1, <1>7, <2>1 DEF CollectNode, RunInv
<1> QED
  BY <1>2, <1>3, <1>4, <1>5, <1>6, <1>7 DEF FilesNext

(* One step on the genesis transactions.                                   *)
LEMMA GenTxSteps ==
  ASSUME FilesInv, FilesNext
  PROVE  \/ /\ InitNode /\ i \in Dir /\ OwnGenTx(i) \in GenTx
            /\ \A e, s \in Dir :
                 disk'[e].gentx[s] = IF e = i /\ s = i THEN OwnGenTx(i)
                                     ELSE disk[e].gentx[s]
         \/ /\ InitError
            /\ \A e, s \in Dir : disk'[e].gentx[s] \in {disk[e].gentx[s], None}
         \/ /\ CopyGenTx
            /\ \A e, s \in Dir :
                 disk'[e].gentx[s] = IF e = Target /\ s = Source
                                     THEN disk[Source].gentx[Source]
                                     ELSE disk[e].gentx[s]
         \/ /\ CopyFails
            /\ \A e, s \in Dir :
                 \/ disk'[e].gentx[s] = disk[e].gentx[s]
                 \/ e = Target /\ s = Source /\ disk'[e].gentx[s] = Broken
         \/ /\ ~InitNode /\ ~InitError /\ ~CopyGenTx /\ ~CopyFails
            /\ \A e, s \in Dir : disk'[e].gentx[s] = disk[e].gentx[s]
<1>1. FilesTypeOK /\ RunInv /\ n \in Nat /\ i \in Nat
  BY BoundsAssumption DEF FilesInv, FilesTypeOK
<1>7. disk \in [Dir -> Files]
  BY <1>1 DEF FilesTypeOK
<1>2. CASE InitNode
  <2>1. i \in 0 .. n - 1 /\ phase # "idle"
    BY <1>1, <1>2 DEF InitNode
  <2>2. i \in Dir /\ OwnGenTx(i) \in GenTx
    BY <1>1, <2>1, OwnTypes
  <2>3. disk' = [disk EXCEPT ![i].gentx[i] = OwnGenTx(i)]
    BY <1>2 DEF InitNode
  <2>4. \A e, r \in Dir :
          disk'[e].gentx[r] = IF e = i /\ r = i THEN OwnGenTx(i)
                              ELSE disk[e].gentx[r]
    BY <1>7, <2>2, <2>3 DEF Files
  <2> QED
    BY <1>2, <2>2, <2>4
<1>3. CASE InitError
  <2>1. disk' = disk \/ disk' = [d \in Dir |-> NoFiles]
    BY <1>3 DEF InitError
  <2> QED
    BY <1>3, <2>1, Removed
<1>4. CASE CopyGenTx
  <2>1. Source \in Dir /\ Target \in Dir
    BY <1>1, <1>4, CopyIndex DEF CopyGenTx
  <2>2. disk' = [disk EXCEPT ![Target].gentx[Source] = disk[Source].gentx[Source]]
    BY <1>4 DEF CopyGenTx
  <2>3. \A e, r \in Dir :
          disk'[e].gentx[r] = IF e = Target /\ r = Source
                              THEN disk[Source].gentx[Source]
                              ELSE disk[e].gentx[r]
    BY <1>7, <2>1, <2>2 DEF Files
  <2> QED
    BY <1>4, <2>3
<1>5. CASE CopyFails
  <2>1. Source \in Dir /\ Target \in Dir
    BY <1>1, <1>5, CopyIndex DEF CopyFails
  <2>2. PICK left \in {disk[Target].gentx[Source], Broken} :
          disk' = [disk EXCEPT ![Target].gentx[Source] = left]
    BY <1>5 DEF CopyFails
  <2>3. \A e, s \in Dir :
          disk'[e].gentx[s] = IF e = Target /\ s = Source THEN left
                              ELSE disk[e].gentx[s]
    BY <1>7, <2>1, <2>2 DEF Files
  <2> QED
    BY <1>5, <2>3
<1>6. CASE ~InitNode /\ ~InitError /\ ~CopyGenTx /\ ~CopyFails
  <2>1. CASE WriteGenesis \/ CollectNode \/ OverwriteNode
    <3>1. i \in 0 .. n - 1 /\ phase # "idle"
      BY <1>1, <2>1 DEF WriteGenesis, CollectNode, OverwriteNode, RunInv
    <3>2. i \in Dir
      BY <1>1, <3>1, OwnTypes
    <3>3. PICK g : disk' = [disk EXCEPT ![i].genesis = g]
      BY <2>1 DEF WriteGenesis, CollectNode, OverwriteNode
    <3>4. \A e \in Dir : disk'[e].gentx = disk[e].gentx
      BY <1>1, <3>2, <3>3, PutGenesis
    <3> QED
      BY <1>6, <3>4
  <2>2. CASE ~WriteGenesis /\ ~CollectNode /\ ~OverwriteNode
    <3>1. disk' = disk
      BY <1>6, <2>2 DEF FilesNext, Start, InitDone, GenesisDone, CopyDone, CollectError,
         Finish, Interrupt
    <3> QED
      BY <1>6, <3>1
  <2> QED
    BY <2>1, <2>2
<1> QED
  BY <1>2, <1>3, <1>4, <1>5, <1>6, Zenon

(* One step on the genesis files.                                          *)
LEMMA GenesisSteps ==
  ASSUME FilesInv, FilesNext
  PROVE  \/ /\ WriteGenesis /\ i \in Dir /\ disk'[i].genesis = EmptyDoc
            /\ \A e \in Dir : e # i => disk'[e].genesis = disk[e].genesis
         \/ /\ CollectNode /\ i \in Dir /\ disk'[i].genesis = OwnDoc
            /\ \A e \in Dir : e # i => disk'[e].genesis = disk[e].genesis
         \/ /\ OverwriteNode /\ i \in Dir /\ disk'[i].genesis = CommonDoc
            /\ \A e \in Dir : e # i => disk'[e].genesis = disk[e].genesis
         \/ /\ InitError
            /\ \/ \A e \in Dir : disk'[e].genesis = disk[e].genesis
               \/ \A e \in Dir : disk'[e].genesis = None
         \/ /\ ~WriteGenesis /\ ~CollectNode /\ ~OverwriteNode /\ ~InitError
            /\ \A e \in Dir : disk'[e].genesis = disk[e].genesis
<1>1. FilesTypeOK /\ RunInv /\ n \in Nat /\ i \in Nat
  BY BoundsAssumption DEF FilesInv, FilesTypeOK
<1>2. CASE WriteGenesis \/ CollectNode \/ OverwriteNode
  <2>1. i \in 0 .. n - 1 /\ phase # "idle"
    BY <1>1, <1>2 DEF WriteGenesis, CollectNode, OverwriteNode, RunInv
  <2>2. i \in Dir
    BY <1>1, <2>1, OwnTypes
  <2>3. CASE WriteGenesis
    <3>1. disk' = [disk EXCEPT ![i].genesis = EmptyDoc]
      BY <2>3 DEF WriteGenesis, EmptyDoc
    <3> QED
      BY <1>1, <2>2, <2>3, <3>1, PutGenesis
  <2>4. CASE CollectNode
    <3>1. disk' = [disk EXCEPT ![i].genesis = OwnDoc]
      BY <2>4 DEF CollectNode, OwnDoc
    <3> QED
      BY <1>1, <2>2, <2>4, <3>1, PutGenesis
  <2>5. CASE OverwriteNode
    <3>1. disk' = [disk EXCEPT ![i].genesis = CommonDoc]
      BY <2>5 DEF OverwriteNode, CommonDoc
    <3> QED
      BY <1>1, <2>2, <2>5, <3>1, PutGenesis
  <2> QED
    BY <1>2, <2>3, <2>4, <2>5
<1>3. CASE InitError
  <2>1. disk' = disk \/ disk' = [d \in Dir |-> NoFiles]
    BY <1>3 DEF InitError
  <2> QED
    BY <1>3, <2>1, Removed
<1>4. CASE ~WriteGenesis /\ ~CollectNode /\ ~OverwriteNode /\ ~InitError
  <2>1. CASE InitNode
    <3>1. i \in 0 .. n - 1 /\ phase # "idle"
      BY <1>1, <2>1 DEF InitNode
    <3>2. i \in Dir
      BY <1>1, <3>1, OwnTypes
    <3>3. disk' = [disk EXCEPT ![i].gentx[i] = OwnGenTx(i)]
      BY <2>1 DEF InitNode
    <3> QED
      BY <1>1, <1>4, <3>2, <3>3, PutGenTx
  <2>2. CASE CopyGenTx \/ CopyFails
    <3>1. Source \in Dir /\ Target \in Dir
      BY <1>1, <2>2, CopyIndex DEF CopyGenTx, CopyFails
    <3>2. PICK tx : disk' = [disk EXCEPT ![Target].gentx[Source] = tx]
      BY <2>2 DEF CopyGenTx, CopyFails
    <3> QED
      BY <1>1, <1>4, <3>1, <3>2, PutGenTx
  <2>3. CASE ~InitNode /\ ~CopyGenTx /\ ~CopyFails
    <3>1. disk' = disk
      BY <1>4, <2>3 DEF FilesNext, Start, InitDone, GenesisDone, CopyDone, CollectError,
         Finish, Interrupt
    <3> QED
      BY <1>4, <3>1
  <2> QED
    BY <2>1, <2>2, <2>3
<1> QED
  BY <1>2, <1>3, <1>4, Zenon

(* A file keeps its validator: copies go from its own directory.           *)
LEMMA OwnerStep ==
  ASSUME FilesInv, FilesNext
  PROVE  OwnerInv'
<1>1. OwnerInv /\ FilesTypeOK /\ RunInv
  BY DEF FilesInv
<1> SUFFICES ASSUME NEW d \in Dir, NEW s \in Dir,
                    disk'[d].gentx[s] \notin {None, Broken}
             PROVE  disk'[d].gentx[s].account.owner = s
  BY DEF OwnerInv
<1>2. CASE disk'[d].gentx[s] = disk[d].gentx[s]
  BY <1>1, <1>2 DEF OwnerInv
<1>3. CASE InitNode /\ s = i /\ disk'[d].gentx[s] = OwnGenTx(i)
  BY <1>3 DEF OwnGenTx, Me
<1>4. CASE CopyGenTx /\ s = Source /\ disk'[d].gentx[s] = disk[Source].gentx[Source]
  BY <1>1, <1>4 DEF OwnerInv
<1> QED
  BY <1>2, <1>3, <1>4, GenTxSteps

(* Within a run, the accounts and genesis transactions it makes are fixed. *)
LEMMA SameRun ==
  ASSUME run' = run, n' = n, entries' = entries
  PROVE  \A d : Me(d)' = Me(d) /\ OwnGenTx(d)' = OwnGenTx(d) /\ Mine' = Mine
  BY DEF Me, OwnGenTx, Mine

(* Nothing but the first loop changes what a directory has of its own.     *)
LEMMA OwnStep ==
  ASSUME FilesInv, FilesNext
  PROVE  OwnInv'
<1>1. OwnInv /\ FilesTypeOK /\ RunInv /\ n \in Nat /\ i \in Nat
  BY BoundsAssumption DEF FilesInv, FilesTypeOK
<1>2. CASE \E k \in 1 .. MaxValidators, list \in StakeLists, id \in ChainIds : Start(k, list, id)
  BY <1>2, BoundsAssumption DEF Start, OwnInv
<1>3. CASE InitError \/ CollectError \/ Interrupt
  BY <1>3 DEF InitError, CollectError, Interrupt, OwnInv
<1>4. CASE InitNode
  <2>1. /\ run' = run /\ n' = n /\ entries' = entries /\ i' = i + 1
        /\ phase = "init" /\ phase' = "init" /\ i < n
    BY <1>4 DEF InitNode
  <2>2. ASSUME NEW d \in 0 .. n - 1, d < i + 1 PROVE disk'[d].gentx[d] = OwnGenTx(d)
    <3>1. d \in Dir
      BY <1>1, <2>1, OwnTypes
    <3>2. d = i \/ d < i
      BY <1>1, <2>2
    <3>3. disk'[d].gentx[d] = OwnGenTx(i) \/ disk'[d].gentx[d] = disk[d].gentx[d]
      BY <1>4, <3>1, GenTxSteps DEF InitNode, InitError, CopyGenTx, CopyFails
    <3>4. d = i => disk'[d].gentx[d] = OwnGenTx(i)
      BY <1>4, <3>1, GenTxSteps DEF InitNode, InitError, CopyGenTx, CopyFails
    <3>5. d < i => disk'[d].gentx[d] = disk[d].gentx[d]
      BY <1>1, <1>4, <3>1, GenTxSteps DEF InitNode, InitError, CopyGenTx, CopyFails
    <3> QED
      BY <1>1, <2>1, <2>2, <3>2, <3>4, <3>5 DEF OwnInv
  <2> QED
    BY <2>1, <2>2, SameRun DEF OwnInv
<1>5. CASE \/ InitDone \/ WriteGenesis \/ GenesisDone \/ CopyGenTx \/ CopyFails
           \/ CopyDone \/ CollectNode \/ OverwriteNode \/ Finish
  <2>1. /\ run' = run /\ n' = n /\ entries' = entries
        /\ phase' \in {"genesis", "copy", "collect", "overwrite", "done"}
        /\ \/ phase \in {"genesis", "copy", "collect", "overwrite"}
           \/ phase = "init" /\ i = n
    <3>1. CASE InitDone \/ GenesisDone \/ CopyDone \/ Finish
      BY <3>1 DEF InitDone, GenesisDone, CopyDone, Finish
    <3>2. CASE WriteGenesis \/ CollectNode \/ OverwriteNode
      BY <3>2 DEF WriteGenesis, CollectNode, OverwriteNode
    <3>3. CASE CopyGenTx \/ CopyFails
      BY <3>3 DEF CopyGenTx, CopyFails
    <3> QED
      BY <1>5, <3>1, <3>2, <3>3
  <2>2. ASSUME NEW d \in 0 .. n - 1 PROVE disk'[d].gentx[d] = OwnGenTx(d)
    <3>1. d \in Dir
      BY <1>1, <2>1, OwnTypes
    <3>2. disk[d].gentx[d] = OwnGenTx(d)
      BY <1>1, <2>1 DEF OwnInv
    <3>3. CopyFails => Source # Target
      BY DEF CopyFails
    <3>4. ~InitNode /\ ~InitError
      BY <1>1, <1>5, <2>1 DEF InitNode, InitError
    <3>5. disk'[d].gentx[d] = disk[d].gentx[d]
      BY <3>1, <3>3, <3>4, GenTxSteps
    <3> QED
      BY <3>2, <3>5
  <2> QED
    BY <2>1, <2>2, SameRun DEF OwnInv
<1> QED
  BY <1>2, <1>3, <1>4, <1>5 DEF FilesNext

(* The genesis files written are of this run and have no others' accounts. *)
LEMMA WrittenRuns ==
  ASSUME FilesInv
  PROVE  /\ WriteGenesis => /\ EmptyDoc \in GenDoc /\ EmptyDoc.run = run
                            /\ EmptyDoc.gentxs = {} /\ EmptyDoc.accounts \subseteq Mine
         /\ CollectNode => /\ OwnDoc \in GenDoc /\ OwnDoc.run = run
                           /\ OwnDoc.accounts \subseteq Mine
         /\ OverwriteNode => /\ CommonDoc \in GenDoc /\ CommonDoc.run = run
                             /\ CommonDoc.accounts \subseteq Mine
<1>1. FilesTypeOK /\ RunInv /\ OwnInv /\ GenesisInv /\ CanonInv
  BY DEF FilesInv
<1>2. ASSUME WriteGenesis
      PROVE  /\ EmptyDoc \in GenDoc /\ EmptyDoc.run = run
             /\ EmptyDoc.gentxs = {} /\ EmptyDoc.accounts \subseteq Mine
  BY <1>1, <1>2, DocsAre DEF WriteGenesis
<1>3. ASSUME CollectNode
      PROVE  OwnDoc \in GenDoc /\ OwnDoc.run = run /\ OwnDoc.accounts \subseteq Mine
  BY <1>1, <1>3, CanonicalIs DEF CollectNode
<1>4. ASSUME OverwriteNode
      PROVE  CommonDoc \in GenDoc /\ CommonDoc.run = run /\ CommonDoc.accounts \subseteq Mine
  <2>1. i < n
    BY <1>1, <1>4 DEF OverwriteNode, RunInv
  <2> QED
    BY <1>1, <1>4, <2>1, DocsAre DEF OverwriteNode
<1> QED
  BY <1>2, <1>3, <1>4

(* No genesis file of this run is there before the second loop.            *)
LEMMA ChainStep ==
  ASSUME FilesInv, FilesNext
  PROVE  ChainInv'
<1>1. ChainInv /\ FilesTypeOK /\ RunInv /\ run \in Nat
  BY BoundsAssumption DEF FilesInv, FilesTypeOK
<1>2. \A d \in Dir : disk[d].genesis # None => disk[d].genesis.run \in Nat
  BY BoundsAssumption DEF FilesInv, FilesTypeOK, Files, GenDoc
<1> SUFFICES ASSUME NEW d \in Dir, disk'[d].genesis # None
             PROVE  /\ disk'[d].genesis.run <= run'
                    /\ phase' = "init" => disk'[d].genesis.run < run'
  BY DEF ChainInv
<1>3. CASE disk'[d].genesis = disk[d].genesis
  <2>1. disk[d].genesis.run <= run /\ (phase = "init" => disk[d].genesis.run < run)
    BY <1>1, <1>3 DEF ChainInv
  <2>2. (run' = run /\ (phase' = "init" => phase = "init")) \/ run' = run + 1
    BY DEF FilesNext, Start, InitNode, InitError, InitDone, WriteGenesis, GenesisDone,
       CopyGenTx, CopyFails, CopyDone, CollectNode, OverwriteNode, CollectError, Finish,
       Interrupt
  <2> QED
    BY <1>1, <1>2, <1>3, <2>1, <2>2
<1>4. CASE disk'[d].genesis # disk[d].genesis
  <2>1. \/ WriteGenesis /\ disk'[d].genesis = EmptyDoc
        \/ CollectNode /\ disk'[d].genesis = OwnDoc
        \/ OverwriteNode /\ disk'[d].genesis = CommonDoc
    BY <1>4, GenesisSteps
  <2>2. disk'[d].genesis.run = run
    BY <1>1, <2>1, WrittenRuns
  <2>3. run' = run /\ phase' # "init"
    BY <2>1 DEF WriteGenesis, CollectNode, OverwriteNode
  <2> QED
    BY <1>1, <2>2, <2>3
<1> QED
  BY <1>3, <1>4

(* The second loop, and that the others keep what it has written.          *)
LEMMA GenesisStep ==
  ASSUME FilesInv, FilesNext
  PROVE  GenesisInv'
<1>1. GenesisInv /\ FilesTypeOK /\ RunInv /\ n \in Nat /\ i \in Nat
  BY BoundsAssumption DEF FilesInv, FilesTypeOK
<1>2. CASE \/ \E k \in 1 .. MaxValidators, list \in StakeLists, id \in ChainIds : Start(k, list, id)
           \/ InitNode \/ InitError \/ CollectError \/ Interrupt
  BY <1>2 DEF Start, InitNode, InitError, CollectError, Interrupt, GenesisInv
<1>3. CASE InitDone
  BY <1>1, <1>3 DEF InitDone, GenesisInv
<1>4. CASE WriteGenesis
  <2>1. /\ run' = run /\ n' = n /\ entries' = entries /\ i' = i + 1
        /\ phase' = "genesis" /\ phase = "genesis" /\ i < n
    BY <1>4 DEF WriteGenesis
  <2>2. /\ disk'[i].genesis = EmptyDoc /\ i \in Dir
        /\ \A e \in Dir : e # i => disk'[e].genesis = disk[e].genesis
    BY <1>4, <2>1, GenesisSteps DEF CollectNode, OverwriteNode, InitError
  <2>3. /\ disk'[i].genesis # None /\ disk'[i].genesis.run = run
        /\ disk'[i].genesis.accounts \subseteq Mine
    BY <1>4, <2>2, WrittenRuns, FilesAssumption
  <2>5. ASSUME NEW d \in 0 .. n - 1, d < i + 1
        PROVE  /\ disk'[d].genesis # None /\ disk'[d].genesis.run = run
               /\ disk'[d].genesis.accounts \subseteq Mine
    <3>1. CASE d = i
      BY <2>3, <3>1
    <3>2. CASE d # i
      <4>1. d < i /\ d \in Dir
        BY <1>1, <2>1, <2>5, <3>2, OwnTypes
      <4> QED
        BY <1>1, <2>1, <2>2, <3>2, <4>1 DEF GenesisInv
    <3> QED
      BY <3>1, <3>2
  <2> QED
    BY <2>1, <2>5, SameRun DEF GenesisInv
<1>5. CASE \/ GenesisDone \/ CopyGenTx \/ CopyFails \/ CopyDone
           \/ CollectNode \/ OverwriteNode \/ Finish
  <2>1. /\ run' = run /\ n' = n /\ entries' = entries
        /\ phase' \in {"copy", "collect", "overwrite", "done"}
        /\ phase \in {"copy", "collect", "overwrite"} \/ (phase = "genesis" /\ i = n)
    <3>1. CASE GenesisDone \/ CopyDone \/ Finish
      BY <3>1 DEF GenesisDone, CopyDone, Finish
    <3>2. CASE CollectNode \/ OverwriteNode
      BY <3>2 DEF CollectNode, OverwriteNode
    <3>3. CASE CopyGenTx \/ CopyFails
      BY <3>3 DEF CopyGenTx, CopyFails
    <3> QED
      BY <1>5, <3>1, <3>2, <3>3
  <2>2. ASSUME NEW d \in 0 .. n - 1
        PROVE  /\ disk'[d].genesis # None /\ disk'[d].genesis.run = run
               /\ disk'[d].genesis.accounts \subseteq Mine
    <3>1. d \in Dir
      BY <1>1, <2>1, OwnTypes
    <3>2. /\ disk[d].genesis # None /\ disk[d].genesis.run = run
          /\ disk[d].genesis.accounts \subseteq Mine
      BY <1>1, <2>1 DEF GenesisInv
    <3>3. ~WriteGenesis /\ ~InitError
      <4>1. phase # "init" /\ ~(phase = "genesis" /\ i < n)
        BY <1>1, <2>1
      <4> QED
        BY <4>1 DEF WriteGenesis, InitError
    <3>4. \/ disk'[d].genesis = disk[d].genesis
          \/ CollectNode /\ disk'[d].genesis = OwnDoc
          \/ OverwriteNode /\ disk'[d].genesis = CommonDoc
      BY <3>1, <3>3, GenesisSteps
    <3>5. disk'[d].genesis # disk[d].genesis =>
            /\ disk'[d].genesis # None /\ disk'[d].genesis.run = run
            /\ disk'[d].genesis.accounts \subseteq Mine
      BY <3>4, WrittenRuns, FilesAssumption
    <3> QED
      BY <3>2, <3>4, <3>5
  <2> QED
    BY <2>1, <2>2, SameRun DEF GenesisInv
<1> QED
  BY <1>2, <1>3, <1>4, <1>5 DEF FilesNext

(* The first n copies go to the first directory.                           *)
LEMMA CopyStep ==
  ASSUME FilesInv, FilesNext
  PROVE  CopyInv'
<1>1. /\ CopyInv /\ OwnInv /\ FilesTypeOK /\ RunInv /\ n \in Nat /\ i \in Nat
      /\ n * n \in Nat /\ n <= n * n
  BY Squares, BoundsAssumption DEF FilesInv, FilesTypeOK
<1>2. CASE \/ \E k \in 1 .. MaxValidators, list \in StakeLists, id \in ChainIds : Start(k, list, id)
           \/ InitNode \/ InitError \/ InitDone \/ WriteGenesis \/ CollectError
           \/ Interrupt
  BY <1>2 DEF Start, InitNode, InitError, InitDone, WriteGenesis, CollectError,
     Interrupt, CopyInv
<1>3. CASE GenesisDone
  BY <1>1, <1>3 DEF GenesisDone, CopyInv
<1>4. CASE CopyGenTx \/ CopyFails
  <2>1. /\ run' = run /\ n' = n /\ entries' = entries /\ i' = i + 1
        /\ phase' = "copy" /\ phase = "copy" /\ i < n * n /\ lost \subseteq lost'
        /\ (CopyFails => lost' = lost \cup {<<Source, Target>>})
    BY <1>4 DEF CopyGenTx, CopyFails
  <2>2. ASSUME NEW s \in 0 .. n - 1, s < i + 1
        PROVE  disk'[0].gentx[s] = OwnGenTx(s) \/ <<s, 0>> \in lost'
    <3>1. s \in Dir /\ 0 \in Dir
      <4>1. 0 \in 0 .. n - 1
        BY <1>1
      <4> QED
        BY <1>1, <2>1, <4>1, OwnTypes
    <3>2. /\ Source \in 0 .. n - 1 /\ Source \in Dir
          /\ i < n => Source = i /\ Target = 0
          /\ ~(i < n) => Target # 0
      BY <1>1, <2>1, CopyIndex
    <3>3. ~InitNode /\ ~InitError
      BY <2>1 DEF InitNode, InitError
    <3>4. CASE s < i
      <4>1. disk[0].gentx[s] = OwnGenTx(s) \/ <<s, 0>> \in lost
        BY <1>1, <2>1, <3>4 DEF CopyInv
      <4>2. Target # 0 \/ Source # s
        BY <1>1, <3>2, <3>4
      <4>3. disk'[0].gentx[s] = disk[0].gentx[s]
        BY <3>1, <3>3, <4>2, GenTxSteps
      <4> QED
        BY <2>1, <4>1, <4>3
    <3>5. CASE s = i
      <4>1. Source = s /\ Target = 0
        BY <1>1, <3>2, <3>5
      <4>2. CASE CopyFails
        BY <2>1, <4>1, <4>2
      <4>3. CASE ~CopyFails
        <5>1. disk'[0].gentx[s] = disk[s].gentx[s]
          BY <1>4, <3>1, <3>3, <4>1, <4>3, GenTxSteps
        <5>2. disk[s].gentx[s] = OwnGenTx(s)
          BY <1>1, <2>1 DEF OwnInv
        <5> QED
          BY <5>1, <5>2
      <4> QED
        BY <4>2, <4>3
    <3> QED
      BY <1>1, <2>2, <3>4, <3>5
  <2> QED
    BY <2>1, <2>2, SameRun DEF CopyInv
<1>5. CASE CopyDone \/ CollectNode \/ OverwriteNode \/ Finish
  <2>1. /\ run' = run /\ n' = n /\ entries' = entries /\ lost' = lost
        /\ phase' \in {"collect", "overwrite", "done"}
        /\ phase \in {"collect", "overwrite"} \/ (phase = "copy" /\ i = n * n)
        /\ ~InitNode /\ ~InitError /\ ~CopyGenTx /\ ~CopyFails
    <3>1. CASE CopyDone
      BY <1>1, <3>1 DEF CopyDone, InitNode, InitError, CopyGenTx, CopyFails
    <3>2. CASE CollectNode \/ OverwriteNode \/ Finish
      BY <3>2 DEF CollectNode, OverwriteNode, Finish, InitNode, InitError, CopyGenTx, CopyFails
    <3> QED
      BY <1>5, <3>1, <3>2
  <2>2. ASSUME NEW s \in 0 .. n - 1
        PROVE  disk'[0].gentx[s] = OwnGenTx(s) \/ <<s, 0>> \in lost
    <3>1. s \in Dir /\ 0 \in Dir
      <4>1. 0 \in 0 .. n - 1
        BY <1>1
      <4> QED
        BY <1>1, <2>1, <4>1, OwnTypes
    <3>2. disk'[0].gentx[s] = disk[0].gentx[s]
      BY <2>1, <3>1, GenTxSteps
    <3>3. phase = "copy" => s < i
      BY <1>1, <2>1
    <3> QED
      BY <1>1, <2>1, <3>2, <3>3 DEF CopyInv
  <2> QED
    BY <2>1, <2>2, SameRun DEF CopyInv
<1> QED
  BY <1>2, <1>3, <1>4, <1>5 DEF FilesNext
(* Who changes the canonical application state.                            *)
LEMMA CanonicalSteps ==
  ASSUME FilesInv, FilesNext
  PROVE  \/ \E k \in 1 .. MaxValidators, list \in StakeLists, id \in ChainIds : Start(k, list, id)
         \/ CollectNode /\ appState' = Canonical
         \/ /\ ~CollectNode
            /\ appState' = appState /\ run' = run /\ chain' = chain
            /\ n' = n /\ entries' = entries
<1>1. CASE InitNode \/ InitError \/ InitDone \/ WriteGenesis \/ GenesisDone
  BY <1>1 DEF InitNode, InitError, InitDone, WriteGenesis, GenesisDone, CollectNode
<1>2. CASE CopyGenTx \/ CopyFails \/ CopyDone
  BY <1>2 DEF CopyGenTx, CopyFails, CopyDone, CollectNode
<1>3. CASE CollectNode
  BY <1>3 DEF CollectNode
<1>4. CASE OverwriteNode \/ CollectError \/ Finish \/ Interrupt
  BY <1>4 DEF OverwriteNode, CollectError, Finish, Interrupt, CollectNode
<1> QED
  BY <1>1, <1>2, <1>3, <1>4 DEF FilesNext

(* It stays one that InitChain accepts.                                    *)
LEMMA CanonStep ==
  ASSUME FilesInv, FilesNext
  PROVE  CanonInv'
<1>1. CASE \E k \in 1 .. MaxValidators, list \in StakeLists, id \in ChainIds : Start(k, list, id)
  BY <1>1 DEF Start, CanonInv
<1>2. CASE CollectNode /\ appState' = Canonical
  <2>1. /\ Canonical.gentxs # {} /\ Funded(Canonical)
        /\ Canonical.accounts \subseteq Mine
    BY <1>2, CanonicalIs DEF FilesInv, CollectNode
  <2>2. run' = run /\ n' = n /\ entries' = entries
    BY <1>2 DEF CollectNode
  <2> QED
    BY <1>2, <2>1, <2>2, SameRun DEF CanonInv, Funded
<1>3. CASE appState' = appState /\ run' = run /\ n' = n /\ entries' = entries
  BY <1>3, SameRun DEF FilesInv, CanonInv, Funded
<1> QED
  BY <1>1, <1>2, <1>3, CanonicalSteps

(* A finished genesis file of this run is the common one, but for the      *)
(* directory the fourth loop is at.                                        *)
LEMMA FinishedStep ==
  ASSUME FilesInv, FilesNext
  PROVE  FinishedInv'
<1>1. /\ FinishedInv /\ ChainInv /\ FilesTypeOK /\ RunInv
      /\ run \in Nat /\ i \in Nat /\ n \in Nat
  BY BoundsAssumption DEF FilesInv, FilesTypeOK
<1> SUFFICES ASSUME NEW d \in Dir, Complete(d)', disk'[d].genesis.run = run'
             PROVE  appState' # None /\ (disk'[d].genesis = CommonDoc' \/ Halfway(d)')
  BY DEF FinishedInv
<1>2. disk'[d].genesis # None /\ disk'[d].genesis.gentxs # {}
  BY DEF Complete
<1>3. ASSUME appState' = appState, run' = run, chain' = chain PROVE CommonDoc' = CommonDoc
  BY <1>3 DEF CommonDoc, Exported
<1>4. CASE disk'[d].genesis = disk[d].genesis
  <2>1. Complete(d)
    BY <1>2, <1>4 DEF Complete
  <2>2. CASE \E k \in 1 .. MaxValidators, list \in StakeLists, id \in ChainIds : Start(k, list, id)
    <3>1. disk[d].genesis.run = run + 1
      BY <1>4, <2>2 DEF Start
    <3>2. disk[d].genesis.run <= run
      BY <1>1, <2>1 DEF ChainInv, Complete
    <3> QED
      BY <1>1, <3>1, <3>2
  <2>3. run' = run => appState # None /\ (disk[d].genesis = CommonDoc \/ Halfway(d))
    BY <1>1, <1>4, <2>1 DEF FinishedInv
  <2>4. CASE CollectNode
    <3>1. /\ run' = run /\ chain' = chain /\ phase' = "overwrite" /\ i' = i
          /\ phase = "collect" /\ appState' = Canonical
      BY <2>4 DEF CollectNode
    <3>2. appState' = appState
      BY <2>3, <3>1 DEF Canonical
    <3> QED
      BY <1>3, <1>4, <2>3, <3>1, <3>2 DEF Halfway
  <2>5. CASE OverwriteNode
    <3>1. run' = run /\ chain' = chain /\ appState' = appState
      BY <2>5 DEF OverwriteNode
    <3>2. Halfway(d) => disk'[d].genesis = CommonDoc
      BY <2>5, GenesisSteps DEF Halfway, OverwriteNode, WriteGenesis, CollectNode, InitError
    <3> QED
      BY <1>3, <1>4, <2>3, <3>1, <3>2
  <2>6. CASE Interrupt \/ CollectError
    <3>1. /\ run' = run /\ chain' = chain /\ appState' = appState
          /\ phase' = "failed" /\ i' = i
      BY <2>6 DEF Interrupt, CollectError
    <3> QED
      BY <1>3, <1>4, <2>3, <3>1 DEF Halfway
  <2>7. CASE /\ appState' = appState /\ run' = run /\ chain' = chain
             /\ phase \notin {"overwrite", "failed"}
    BY <1>3, <1>4, <2>3, <2>7 DEF Halfway
  <2>8. CASE \/ InitNode \/ InitError \/ InitDone \/ WriteGenesis \/ GenesisDone
             \/ CopyGenTx \/ CopyFails \/ CopyDone \/ Finish
    <3>1. CASE InitNode \/ InitError \/ InitDone
      BY <2>7, <3>1 DEF InitNode, InitError, InitDone
    <3>2. CASE WriteGenesis \/ GenesisDone \/ CopyGenTx
      BY <2>7, <3>2 DEF WriteGenesis, GenesisDone, CopyGenTx
    <3>3. CASE CopyFails \/ CopyDone \/ Finish
      BY <2>7, <3>3 DEF CopyFails, CopyDone, Finish
    <3> QED
      BY <2>8, <3>1, <3>2, <3>3
  <2> QED
    BY <2>2, <2>4, <2>5, <2>6, <2>8 DEF FilesNext
<1>5. CASE disk'[d].genesis # disk[d].genesis
  <2>1. ~WriteGenesis
    <3>1. WriteGenesis => disk'[d].genesis = EmptyDoc
      BY <1>5, GenesisSteps DEF WriteGenesis, CollectNode, OverwriteNode, InitError
    <3> QED
      BY <1>2, <3>1, WrittenRuns
  <2>2. \/ CollectNode /\ d = i
        \/ OverwriteNode /\ disk'[d].genesis = CommonDoc
    BY <1>2, <1>5, <2>1, GenesisSteps
  <2>3. CASE CollectNode /\ d = i
    <3>1. Canonical # None
      BY <2>3, CanonicalIs, FilesAssumption DEF FilesInv, CollectNode
    <3> QED
      BY <2>3, <3>1 DEF CollectNode, Halfway
  <2>4. CASE OverwriteNode /\ disk'[d].genesis = CommonDoc
    <3>1. run' = run /\ chain' = chain /\ appState' = appState /\ appState # None
      BY <1>1, <2>4 DEF OverwriteNode, RunInv
    <3> QED
      BY <1>3, <2>4, <3>1
  <2> QED
    BY <2>2, <2>3, <2>4
<1> QED
  BY <1>4, <1>5

(* The fourth loop writes the canonical state everywhere.                  *)
LEMMA CollectStep ==
  ASSUME FilesInv, FilesNext
  PROVE  CollectInv'
<1>1. CollectInv /\ FilesTypeOK /\ RunInv /\ n \in Nat /\ i \in Nat
  BY BoundsAssumption DEF FilesInv, FilesTypeOK
<1>2. CASE \/ \E k \in 1 .. MaxValidators, list \in StakeLists, id \in ChainIds : Start(k, list, id)
           \/ InitNode \/ InitError \/ InitDone \/ WriteGenesis \/ GenesisDone
  BY <1>2 DEF Start, InitNode, InitError, InitDone, WriteGenesis, GenesisDone, CollectInv
<1>3. CASE CopyGenTx \/ CopyFails \/ CollectError \/ Interrupt
  BY <1>3 DEF CopyGenTx, CopyFails, CollectError, Interrupt, CollectInv
<1>4. CASE CopyDone
  BY <1>1, <1>4 DEF CopyDone, CollectInv
<1>5. CASE CollectNode
  <2>1. /\ n' = n /\ i' = i /\ phase' = "overwrite" /\ phase = "collect" /\ i < n
        /\ run' = run /\ chain' = chain /\ appState' = Canonical
    BY <1>5 DEF CollectNode
  <2>2. Canonical # None /\ (appState # None => Canonical = appState)
    BY <1>5, CanonicalIs, FilesAssumption DEF FilesInv, CollectNode
  <2>3. \A e \in Dir : e # i => disk'[e].genesis = disk[e].genesis
    BY <1>5, <2>1, GenesisSteps DEF WriteGenesis, OverwriteNode, InitError
  <2>4. ASSUME NEW d \in 0 .. n - 1, d < i
        PROVE  appState' # None /\ disk'[d].genesis = CommonDoc'
    <3>1. d # i /\ d \in Dir
      BY <1>1, <2>1, <2>4, OwnTypes
    <3>2. appState # None /\ disk[d].genesis = CommonDoc
      BY <1>1, <2>1, <2>4 DEF CollectInv
    <3>3. CommonDoc' = CommonDoc
      BY <2>1, <2>2, <3>2 DEF CommonDoc, Exported
    <3> QED
      BY <2>1, <2>2, <2>3, <3>1, <3>2, <3>3
  <2> QED
    BY <2>1, <2>4 DEF CollectInv
<1>6. CASE OverwriteNode
  <2>1. /\ n' = n /\ i' = i + 1 /\ phase' = "collect" /\ phase = "overwrite"
        /\ run' = run /\ chain' = chain /\ appState' = appState
        /\ i < n /\ appState # None
    BY <1>1, <1>6 DEF OverwriteNode, RunInv
  <2>2. /\ i \in Dir /\ disk'[i].genesis = CommonDoc
        /\ \A e \in Dir : e # i => disk'[e].genesis = disk[e].genesis
    BY <1>6, <2>1, GenesisSteps DEF WriteGenesis, CollectNode, InitError
  <2>3. CommonDoc' = CommonDoc
    BY <2>1 DEF CommonDoc, Exported
  <2>4. ASSUME NEW d \in 0 .. n - 1, d < i + 1
        PROVE  disk'[d].genesis = CommonDoc
    <3>1. CASE d = i
      BY <2>2, <3>1
    <3>2. CASE d # i
      <4>1. d < i /\ d \in Dir
        BY <1>1, <2>1, <2>4, <3>2, OwnTypes
      <4> QED
        BY <1>1, <2>1, <2>2, <3>2, <4>1 DEF CollectInv
    <3> QED
      BY <3>1, <3>2
  <2> QED
    BY <2>1, <2>3, <2>4 DEF CollectInv
<1>7. CASE Finish
  <2>1. /\ n' = n /\ phase' = "done" /\ phase = "collect" /\ i = n
        /\ disk' = disk /\ appState' = appState /\ run' = run /\ chain' = chain
    BY <1>7 DEF Finish
  <2>2. CommonDoc' = CommonDoc
    BY <2>1 DEF CommonDoc, Exported
  <2> QED
    BY <1>1, <2>1, <2>2 DEF CollectInv
<1> QED
  BY <1>2, <1>3, <1>4, <1>5, <1>6, <1>7 DEF FilesNext

(* What the first directory collects is what this run has made, when all   *)
(* of it arrived.                                                          *)
LEMMA FirstCollects ==
  ASSUME FilesInv, phase = "collect", n > 0, Collectable(0), \A p \in lost : p[2] # 0
  PROVE  Collected(0) = {OwnGenTx(d) : d \in 0 .. n - 1}
<1>1. /\ FilesTypeOK /\ RunInv /\ OwnerInv /\ GenesisInv /\ CopyInv /\ n \in Nat
      /\ 0 \in 0 .. n - 1
  BY BoundsAssumption DEF FilesInv, FilesTypeOK
<1>2. 0 \in Dir
  BY <1>1, OwnTypes
<1>3. \A s \in 0 .. n - 1 : <<s, 0>> \notin lost
  BY <1>1
<1>4. ASSUME NEW s \in 0 .. n - 1
      PROVE  s \in Dir /\ disk[0].gentx[s] = OwnGenTx(s) /\ OwnGenTx(s) # None
  <2>1. s \in Dir /\ OwnGenTx(s) \in GenTx
    BY <1>1, OwnTypes
  <2> QED
    BY <1>1, <1>3, <2>1, FilesAssumption DEF CopyInv
<1>5. ASSUME NEW s \in Dir, disk[0].gentx[s] # None PROVE s \in 0 .. n - 1
  <2>1. disk[0].gentx[s] \in Collected(0)
    BY <1>5 DEF Collected
  <2>2. disk[0].gentx[s].account \in disk[0].genesis.accounts
    BY <2>1 DEF Collectable
  <2>3. disk[0].genesis.accounts \subseteq Mine
    BY <1>1 DEF GenesisInv
  <2>4. PICK d \in 0 .. n - 1 : disk[0].gentx[s].account = Me(d)
    BY <2>2, <2>3 DEF Mine
  <2>5. disk[0].gentx[s].account.owner = s
    BY <1>1, <1>2, <1>5, <2>1 DEF OwnerInv, Collectable
  <2> QED
    BY <2>4, <2>5 DEF Me
<1> QED
  BY <1>4, <1>5 DEF Collected

(* All validators are in the canonical state.                              *)
LEMMA AllStep ==
  ASSUME FilesInv, FilesNext
  PROVE  AllInv'
<1>1. AllInv /\ CollectInv /\ FilesTypeOK /\ RunInv /\ n \in Nat /\ i \in Nat
  BY BoundsAssumption DEF FilesInv, FilesTypeOK
<1>2. CASE \/ \E k \in 1 .. MaxValidators, list \in StakeLists, id \in ChainIds : Start(k, list, id)
           \/ InitNode \/ InitError \/ InitDone \/ WriteGenesis \/ GenesisDone
  BY <1>2 DEF Start, InitNode, InitError, InitDone, WriteGenesis, GenesisDone, AllInv
<1>3. CASE CopyGenTx \/ CopyFails \/ CollectError \/ Interrupt
  BY <1>3 DEF CopyGenTx, CopyFails, CollectError, Interrupt, AllInv
<1>4. CASE CopyDone
  BY <1>1, <1>4 DEF CopyDone, AllInv, RunInv
<1>5. CASE CollectNode
  <2>1. /\ run' = run /\ n' = n /\ entries' = entries /\ lost' = lost
        /\ phase = "collect" /\ i < n /\ Collectable(i) /\ appState' = Canonical
    BY <1>5 DEF CollectNode
  <2>2. CASE appState # None
    <3>1. Canonical = appState
      BY <2>2 DEF Canonical
    <3> QED
      BY <1>1, <2>1, <2>2, <3>1, SameRun DEF AllInv
  <2>3. CASE appState = None
    <3>1. i = 0
      BY <1>1, <2>1, <2>3 DEF CollectInv
    <3>2. Canonical.gentxs = Collected(0)
      BY <2>1, <2>3, <3>1, CanonicalIs DEF FilesInv
    <3>3. ASSUME \A p \in lost : p[2] # 0
          PROVE  Collected(0) = {OwnGenTx(d) : d \in 0 .. n - 1}
      BY <1>1, <2>1, <3>1, <3>3, FirstCollects
    <3> QED
      BY <2>1, <3>2, <3>3, SameRun DEF AllInv
  <2> QED
    BY <2>2, <2>3
<1>6. CASE OverwriteNode \/ Finish
  <2>1. /\ run' = run /\ n' = n /\ entries' = entries /\ lost' = lost
        /\ phase \in {"collect", "overwrite"} /\ appState' = appState
    BY <1>6 DEF OverwriteNode, Finish
  <2> QED
    BY <1>1, <2>1, SameRun DEF AllInv
<1> QED
  BY <1>2, <1>3, <1>4, <1>5, <1>6 DEF FilesNext

(* No step makes a second directory differ from the others of its run.     *)
AllButOne(r, odd) ==
  \A d, e \in Dir \ {odd} :
    Complete(d) /\ Complete(e) /\ disk[d].genesis.run = r /\ disk[e].genesis.run = r
      => disk[d].genesis = disk[e].genesis /\ disk[d].genesis.time = "common"

LEMMA SameStep ==
  ASSUME FilesInv, FilesNext
  PROVE  SameRunSameGenesis'
<1>1. /\ SameRunSameGenesis /\ FinishedInv' /\ CollectInv' /\ FilesTypeOK'
      /\ run \in Nat /\ n' \in Nat
  BY FinishedStep, CollectStep, FilesTypeStep, BoundsAssumption
  DEF FilesInv, FilesTypeOK
<1>2. ASSUME NEW r \in 1 .. MaxRuns
      PROVE  \E odd \in Dir \cup {None} : AllButOne(r, odd)'
  <2>1. CASE r = run'
    <3>1. PICK odd \in Dir \cup {None} : i' \in Dir => odd = i'
      OBVIOUS
    <3>2. ASSUME NEW d \in Dir \ {odd}, Complete(d)', disk'[d].genesis.run = r
          PROVE  disk'[d].genesis = CommonDoc'
      <4>1. ~Halfway(d)'
        BY <3>1 DEF Halfway
      <4> QED
        BY <1>1, <2>1, <3>2, <4>1 DEF FinishedInv
    <3>3. CommonDoc'.time = "common"
      BY DEF CommonDoc, Exported
    <3> QED
      BY <3>2, <3>3 DEF AllButOne
  <2>2. CASE r # run'
    <3>1. PICK odd \in Dir \cup {None} : AllButOne(r, odd)
      BY <1>1 DEF SameRunSameGenesis, AllButOne
    <3>2. ASSUME NEW d \in Dir, Complete(d)', disk'[d].genesis.run = r
          PROVE  disk'[d].genesis = disk[d].genesis /\ Complete(d)
      <4>1. disk'[d].genesis # None
        BY <3>2 DEF Complete
      <4>2. WriteGenesis \/ CollectNode \/ OverwriteNode => run' = run
        BY DEF WriteGenesis, CollectNode, OverwriteNode
      <4>3. disk'[d].genesis = disk[d].genesis
        BY <2>2, <3>2, <4>1, <4>2, GenesisSteps, WrittenRuns
      <4> QED
        BY <3>2, <4>3 DEF Complete
    <3>3. ASSUME NEW d \in Dir \ {odd}, NEW e \in Dir \ {odd}, Complete(d)', Complete(e)',
                 disk'[d].genesis.run = r, disk'[e].genesis.run = r
          PROVE  disk'[d].genesis = disk'[e].genesis /\ disk'[d].genesis.time = "common"
      <4>1. /\ disk'[d].genesis = disk[d].genesis /\ Complete(d)
            /\ disk'[e].genesis = disk[e].genesis /\ Complete(e)
        BY <3>2, <3>3
      <4> QED
        BY <3>1, <3>3, <4>1 DEF AllButOne
    <3>4. AllButOne(r, odd)'
      BY <3>3 DEF AllButOne
    <3> QED
      BY <3>4
  <2> QED
    BY <2>1, <2>2
<1>3. phase' = "done" =>
        \A d, e \in 0 .. n' - 1 : disk'[d].genesis = disk'[e].genesis
  BY <1>1 DEF CollectInv
<1> QED
  BY <1>2, <1>3 DEF SameRunSameGenesis, AllButOne

-----------------------------------------------------------------------------
(* The theorems.                                                           *)

(* An empty output directory satisfies the invariant.                      *)
LEMMA FilesInvInit == FilesInit => FilesInv
<1> SUFFICES ASSUME FilesInit PROVE FilesInv
  OBVIOUS
<1>1. disk = [d \in Dir |-> NoFiles] /\ disk \in [Dir -> Files]
  BY DEF FilesInit, NoFiles, Files
<1>2. FilesTypeOK
  BY <1>1, BoundsAssumption DEF FilesInit, FilesTypeOK
<1>3. RunInv /\ OwnInv /\ GenesisInv /\ CopyInv /\ CanonInv /\ CollectInv /\ AllInv
  BY DEF FilesInit, RunInv, OwnInv, GenesisInv, CopyInv, CanonInv, CollectInv, AllInv
<1>4. \A d \in Dir : disk[d].genesis = None /\ ~Complete(d)
  BY <1>1 DEF NoFiles, Complete
<1>5. OwnerInv /\ ChainInv /\ FinishedInv
  <2>1. \A d, s \in Dir : disk[d].gentx[s] = None
    BY <1>1 DEF NoFiles
  <2> QED
    BY <1>4, <2>1 DEF OwnerInv, ChainInv, FinishedInv
<1>6. SameRunSameGenesis
  <2>1. None \in Dir \cup {None} /\ phase # "done"
    BY DEF FilesInit
  <2> QED
    BY <1>4, <2>1 DEF SameRunSameGenesis
<1> QED
  BY <1>2, <1>3, <1>5, <1>6 DEF FilesInv

(* The invariant is inductive: its parts together.                         *)
LEMMA FilesInvStep == FilesInv /\ [FilesNext]_filesVars => FilesInv'
<1> SUFFICES ASSUME FilesInv, [FilesNext]_filesVars PROVE FilesInv'
  OBVIOUS
<1>1. CASE FilesNext
  BY <1>1, FilesTypeStep, RunStep, OwnerStep, OwnStep, ChainStep, GenesisStep, CopyStep,
     CanonStep, FinishedStep, CollectStep, AllStep, SameStep DEF FilesInv
<1>2. CASE UNCHANGED filesVars
  <2>1. /\ phase' = phase /\ run' = run /\ chain' = chain /\ n' = n /\ entries' = entries
        /\ i' = i /\ accounts' = accounts /\ appState' = appState /\ disk' = disk
        /\ lost' = lost
    BY <1>2 DEF filesVars
  <2>2. /\ FilesTypeOK' /\ RunInv' /\ OwnerInv' /\ ChainInv' /\ SameRunSameGenesis'
    <3>1. FilesTypeOK' = FilesTypeOK /\ RunInv' = RunInv
      BY <2>1 DEF FilesTypeOK, RunInv, Me
    <3>2. OwnerInv' = OwnerInv /\ ChainInv' = ChainInv
      BY <2>1 DEF OwnerInv, ChainInv
    <3>3. SameRunSameGenesis' = SameRunSameGenesis
      BY <2>1 DEF SameRunSameGenesis, Complete
    <3> QED
      BY <3>1, <3>2, <3>3 DEF FilesInv
  <2>3. /\ OwnInv' /\ GenesisInv' /\ CopyInv' /\ CanonInv' /\ FinishedInv'
        /\ CollectInv' /\ AllInv'
    BY <2>1 DEF FilesInv, OwnInv, GenesisInv, CopyInv, CanonInv, FinishedInv, CollectInv,
       AllInv, Complete, Funded, Mine, Me, OwnGenTx, CommonDoc, Exported, Halfway
  <2> QED
    BY <2>2, <2>3 DEF FilesInv
<1> QED
  BY <1>1, <1>2

(* The variables of the command hold what initTestnetFiles keeps in them.  *)
THEOREM FilesTypeCorrect == FilesSpec => []FilesTypeOK
BY FilesInvInit, FilesInvStep, PTL DEF FilesSpec, FilesInv

(* Validators started from two directories of one run never disagree on    *)
(* its genesis, unless the run stopped between the two genesis files that  *)
(* are written of a directory and one of the two is that directory.        *)
THEOREM GenesisAgrees == FilesSpec => []SameRunSameGenesis
BY FilesInvInit, FilesInvStep, PTL DEF FilesSpec, FilesInv

(* When initTestnetFiles returns without an error, InitChain will accept   *)
(* the genesis file of each of its directories.                            *)
THEOREM SuccessIsReady == FilesSpec => []SuccessMeansReady
<1>1. FilesInv => SuccessMeansReady
  <2> SUFFICES ASSUME FilesInv, phase = "done", NEW d \in 0 .. n - 1
               PROVE  /\ Complete(d) /\ disk[d].genesis.run = run
                      /\ disk[d].genesis.chain = chain
                      /\ \A tx \in disk[d].genesis.gentxs :
                           tx.account \in disk[d].genesis.accounts /\ tx.stake <= Tokens
    BY DEF SuccessMeansReady
  <2>1. appState # None /\ disk[d].genesis = CommonDoc
    BY DEF FilesInv, CollectInv
  <2>2. disk[d].genesis # None
    BY DEF FilesInv, GenesisInv
  <2> QED
    BY <2>1, <2>2 DEF FilesInv, CanonInv, Complete, Funded, CommonDoc, Exported
<1> QED
  BY <1>1, FilesInvInit, FilesInvStep, PTL DEF FilesSpec

(* And no validator of the run is missing from it, unless a copy into the  *)
(* first directory failed.                                                 *)
THEOREM NobodyIsMissing == FilesSpec => []NoValidatorMissing
<1>1. FilesInv => NoValidatorMissing
  <2> SUFFICES ASSUME FilesInv, phase = "done", \A p \in lost : p[2] # 0
               PROVE  disk[0].genesis.gentxs = {OwnGenTx(d) : d \in 0 .. n - 1}
    BY DEF NoValidatorMissing
  <2>1. 0 \in 0 .. n - 1
    BY BoundsAssumption DEF FilesInv, RunInv
  <2>2. appState # None /\ disk[0].genesis = CommonDoc
    BY <2>1 DEF FilesInv, CollectInv
  <2> QED
    BY <2>2 DEF FilesInv, AllInv, CommonDoc, Exported
<1> QED
  BY <1>1, FilesInvInit, FilesInvStep, PTL DEF FilesSpec
=============================================================================
