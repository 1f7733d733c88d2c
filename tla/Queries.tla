------------------------------- MODULE Queries -------------------------------
(***************************************************************************)
(* The list queries of x/identity, read page by page while blocks go on    *)
(* registering identities between two pages.  Each page reads the state    *)
(* of the last committed block.  The store iterates in the order of its    *)
(* keys; addresses are numbers here, in that order.                        *)
(***************************************************************************)
EXTENDS Identity

CONSTANTS
  Client,        \* clients reading a list
  AnyHash,       \* asked for by IdentityAll, which does not filter
  NoKey,         \* no next key
  Limits         \* limits clients ask for

ASSUME AddressOrder == Address \subseteq Nat

ASSUME LimitAssumption ==
  /\ Limits \subseteq Nat \ {0} /\ Limits # {}
  /\ NoKey \notin Address /\ AnyHash \notin IdHash

VARIABLES
  ids,     \* the committed identities
  client   \* each client: what it asks for, where it is, what it has got

vars == <<ids, client>>

Session ==
  [mode  : {"idle", "key", "offset"},
   hash  : IdHash \cup {AnyHash},
   limit : Limits,
   key   : Address \cup {NoKey},
   offset : Nat,
   open  : BOOLEAN,               \* the last answer had a next key
   got   : [Address -> 0 .. 2],   \* how often it was given each identity; 2 is
                                  \* twice or more
   start : Store]                 \* history: the store when it began

-----------------------------------------------------------------------------
(* query.Paginate.  A request has a key to start at, or an offset.         *)

Request(key, offset, limit) == [key |-> key, offset |-> offset, limit |-> limit]

FromKey(st, key) ==
  {a \in Registered(st) : key = NoKey \/ a >= key}

Position(st, req, a) == Cardinality({b \in FromKey(st, req.key) : b < a})

(* Mutant: the element at the offset is left out.                          *)
Page_SkipsOne(st, req) ==
  {a \in FromKey(st, req.key) :
     Position(st, req, a) \in req.offset + 1 .. req.offset + req.limit}

Page(st, req) ==
  {a \in FromKey(st, req.key) :
     Position(st, req, a) \in req.offset .. req.offset + req.limit - 1}

Beyond(st, req) ==
  {a \in FromKey(st, req.key) : Position(st, req, a) = req.offset + req.limit}

(* Mutant: the key of the last element of the page.                        *)
NextKey_Last(st, req) ==
  IF Beyond(st, req) = {} THEN NoKey
  ELSE CHOOSE a \in Page(st, req) : \A b \in Page(st, req) : b <= a

NextKey(st, req) ==
  IF Beyond(st, req) = {} THEN NoKey ELSE CHOOSE a \in Beyond(st, req) : TRUE

-----------------------------------------------------------------------------
(* IdentityAll and IdentityByCccdId: the callback that Paginate runs on    *)
(* the elements of the page appends all of them, or those with the hash.   *)

Matches(st, hash, a) == hash = AnyHash \/ st[a].idHash = hash

(* Mutant: the loop is left after a match.                                 *)
Returned_First(st, hash, req) ==
  {a \in Page(st, req) :
     /\ Matches(st, hash, a)
     /\ \A b \in Page(st, req) : b < a => ~Matches(st, hash, b)}

Returned(st, hash, req) == {a \in Page(st, req) : Matches(st, hash, a)}

-----------------------------------------------------------------------------
Idle ==
  [mode |-> "idle", hash |-> AnyHash, limit |-> CHOOSE l \in Limits : TRUE,
   key |-> NoKey, offset |-> 0, open |-> FALSE,
   got |-> [a \in Address |-> 0], start |-> EmptyStore]

Init == ids = EmptyStore /\ client = [c \in Client |-> Idle]

(* A block commits a MsgCreateIdentity.                                    *)
Register(m, now) ==
  /\ CreateIdentityOk(ids, m) /\ ValidCreate(m)
  /\ ids' = CreateIdentity(ids, m, now)
  /\ UNCHANGED client

Begun(s, mode, hash, limit) ==
  [s EXCEPT !.mode = mode, !.hash = hash, !.limit = limit, !.open = TRUE,
            !.start = ids]

Begin(c, mode, hash, limit) ==
  /\ client[c].mode = "idle"
  /\ client' = [client EXCEPT ![c] = Begun(@, mode, hash, limit)]
  /\ UNCHANGED ids

RequestOf(s) ==
  IF s.mode = "key" THEN Request(s.key, 0, s.limit)
  ELSE Request(NoKey, s.offset, s.limit)

Counted(got, more) ==
  [a \in Address |-> IF a \in more /\ got[a] < 2 THEN got[a] + 1 ELSE got[a]]

AfterPage(s) ==
  LET req == RequestOf(s)
  IN  [s EXCEPT !.got = Counted(@, Returned(ids, s.hash, req)),
                !.key = NextKey(ids, req),
                !.offset = IF s.mode = "offset" THEN @ + s.limit ELSE @,
                !.open = NextKey(ids, req) # NoKey]

ReadPage(c) ==
  /\ client[c].open
  /\ client' = [client EXCEPT ![c] = AfterPage(@)]
  /\ UNCHANGED ids

Next ==
  \/ \E m \in CreateIdentityMsg, now \in Time : Register(m, now)
  \/ \E c \in Client, mode \in {"key", "offset"}, hash \in IdHash \cup {AnyHash},
        limit \in Limits : Begin(c, mode, hash, limit)
  \/ \E c \in Client : ReadPage(c)

Spec == Init /\ [][Next]_vars

(* A client that has begun goes on until there is no next key.             *)
FairSpec == Spec /\ \A c \in Client : WF_vars(ReadPage(c))

-----------------------------------------------------------------------------
(* Properties.                                                             *)

(* Stores are well formed, and a client that goes on reading by key has    *)
(* the key of an identity.                                                 *)
TypeOK ==
  /\ ids \in Store
  /\ client \in [Client -> Session]
  /\ \A c \in Client : client[c].key \in Registered(ids) \cup {NoKey}

Finished(s, mode) == s.mode = mode /\ ~s.open

Wanted(s) == {a \in Registered(s.start) : Matches(s.start, s.hash, a)}

(* A client that has read all pages by key has every identity that was     *)
(* there when it began exactly once, and no other one twice, whatever was  *)
(* registered in between; pages of IdentityByCccdId that come back short   *)
(* or empty lose nothing.                                                  *)
KeyPagesAreExact ==
  \A c \in Client : Finished(client[c], "key") =>
    \A a \in Address :
      /\ a \in Wanted(client[c]) => client[c].got[a] = 1
      /\ client[c].got[a] <= 1

(* Read by offset, the list may show an identity twice after one with a    *)
(* smaller key was registered, but misses none: registration only moves    *)
(* identities to later pages.                                              *)
OffsetPagesMissNothing ==
  \A c \in Client : Finished(client[c], "offset") =>
    \A a \in Wanted(client[c]) : client[c].got[a] >= 1

(* Reading comes to an end: every page makes progress towards the last key.*)
ReadingEnds == \A c \in Client : client[c].open ~> ~client[c].open

=============================================================================
