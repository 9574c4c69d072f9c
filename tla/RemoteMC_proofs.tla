--------------------------- MODULE RemoteMC_proofs ---------------------------
(***************************************************************************)
(* What is proved of the modules about servers, stated of the behaviours   *)
(* of RemoteMC, each of which is one of a single module.                   *)
(***************************************************************************)
EXTENDS RemoteMC, FiniteSetTheorems, TLAPS

(***************************************************************************)
(* The POP mailbox of Pop, which RemoteMC extends: its theorems hold for   *)
(* any number of messages, any size of the cache and any number of         *)
(* sessions.                                                               *)
(***************************************************************************)

(***************************************************************************)
(* The numbers of a session.                                               *)
(***************************************************************************)
UpTo(box, u) == {v \in box : v <= u}

LEMMA Finite ==
  ASSUME NEW box \in SUBSET Uids
  PROVE  /\ IsFiniteSet(box) /\ Cardinality(box) \in 0 .. MaxMsgs
         /\ \A u \in box : IsFiniteSet(UpTo(box, u)) /\ UpTo(box, u) \in SUBSET box
<1>1. IsFiniteSet(Uids) /\ Cardinality(Uids) = MaxMsgs
  BY BoundsAssumption, FS_Interval DEF Uids
<1>2. IsFiniteSet(box) /\ Cardinality(box) <= Cardinality(Uids)
  BY <1>1, FS_Subset
<1>3. Cardinality(box) \in Nat
  BY <1>2, FS_CardinalityType
<1>4. \A u \in box : UpTo(box, u) \in SUBSET box
  BY DEF UpTo
<1>5. \A u \in box : IsFiniteSet(UpTo(box, u))
  BY <1>2, <1>4, FS_Subset
<1> QED BY <1>1, <1>2, <1>3, <1>4, <1>5, BoundsAssumption

\* A number is one of those of the session.
LEMMA NumberType ==
  ASSUME NEW box \in SUBSET Uids, NEW u \in box
  PROVE  /\ Number(box, u) \in 1 .. MaxMsgs
         /\ Number(box, u) <= Cardinality(box)
<1>1. IsFiniteSet(box) /\ UpTo(box, u) \in SUBSET box /\ Cardinality(box) \in 0 .. MaxMsgs
  BY Finite
<1>2. Cardinality(UpTo(box, u)) <= Cardinality(box) /\ IsFiniteSet(UpTo(box, u))
  BY <1>1, FS_Subset
<1>3. Cardinality(UpTo(box, u)) \in Nat
  BY <1>2, FS_CardinalityType
<1>4. u \in UpTo(box, u)
  BY DEF UpTo, Uids
<1>5. Cardinality(UpTo(box, u)) # 0
  BY <1>2, <1>4, FS_EmptySet
<1> QED BY <1>1, <1>2, <1>3, <1>5, BoundsAssumption DEF Number, UpTo

\* Later messages have higher numbers.
LEMMA NumberGrows ==
  ASSUME NEW box \in SUBSET Uids, NEW u \in box, NEW v \in box, u < v
  PROVE  Number(box, u) < Number(box, v)
<1>0. \A w \in box : w \in Int
  BY BoundsAssumption DEF Uids
<1>1. UpTo(box, u) \in SUBSET UpTo(box, v)
  <2>1. \A w \in UpTo(box, u) : w \in UpTo(box, v)
    BY <1>0 DEF UpTo
  <2> QED BY <2>1
<1>2. v \in UpTo(box, v) /\ v \notin UpTo(box, u)
  BY DEF UpTo, Uids
<1>3. IsFiniteSet(UpTo(box, v))
  BY Finite
<1>4. /\ Cardinality(UpTo(box, u)) <= Cardinality(UpTo(box, v))
      /\ Cardinality(UpTo(box, v)) = Cardinality(UpTo(box, u)) => UpTo(box, v) = UpTo(box, u)
  BY <1>1, <1>3, FS_Subset
<1>5. Number(box, u) \in Nat /\ Number(box, v) \in Nat
  BY NumberType
<1>6. Cardinality(UpTo(box, u)) # Cardinality(UpTo(box, v))
  BY <1>2, <1>4
<1> QED BY <1>4, <1>5, <1>6 DEF Number, UpTo

LEMMA NumberInjective ==
  ASSUME NEW box \in SUBSET Uids, NEW u \in box, NEW v \in box, Number(box, u) = Number(box, v)
  PROVE  u = v
<1>1. Number(box, u) \in Int
  BY NumberType
<1>2. ~(u < v) /\ ~(v < u)
  BY <1>1, NumberGrows
<1> QED BY <1>2 DEF Uids

\* The message with the number of u is u.
LEMMA MessageOfNumber ==
  ASSUME NEW box \in SUBSET Uids, NEW u \in box
  PROVE  Message(box, Number(box, u)) = u
<1>1. \A v \in box : Number(box, v) = Number(box, u) => v = u
  BY NumberInjective
<1>2. \E v \in box : Number(box, v) = Number(box, u)
  OBVIOUS
<1> QED BY <1>1, <1>2 DEF Message

\* Every number up to that of the messages is one's of them.
LEMMA MessageType ==
  ASSUME NEW box \in SUBSET Uids, NEW n \in 1 .. Cardinality(box)
  PROVE  Message(box, n) \in box /\ Number(box, Message(box, n)) = n
<1> DEFINE numbers == 1 .. Cardinality(box)
           number == [u \in box |-> Number(box, u)]
<1>1. IsFiniteSet(box) /\ Cardinality(box) \in Nat
  BY Finite
<1>2. IsFiniteSet(numbers) /\ Cardinality(numbers) = Cardinality(box)
  BY <1>1, FS_Interval
<1>3. \A u \in box : Number(box, u) \in numbers
  BY <1>1, NumberType
<1>4. number \in Injection(box, numbers)
  <2>1. \A u, v \in box : number[u] = number[v] => u = v
    BY NumberInjective
  <2> QED BY <1>3, <2>1 DEF Injection, IsInjective
<1>5. number \in Surjection(box, numbers)
  BY <1>1, <1>2, <1>4, FS_Injection
<1>6. \E u \in box : Number(box, u) = n
  BY <1>5 DEF Surjection
<1> QED BY <1>6 DEF Message

\* In a smaller maildrop the numbers are not higher.
LEMMA NumberShrinks ==
  ASSUME NEW box \in SUBSET Uids, NEW some \in SUBSET box, NEW u \in some
  PROVE  Number(some, u) <= Number(box, u)
<1>1. UpTo(some, u) \in SUBSET UpTo(box, u)
  BY DEF UpTo
<1>2. IsFiniteSet(UpTo(box, u))
  BY Finite
<1>3. Cardinality(UpTo(some, u)) <= Cardinality(UpTo(box, u))
  BY <1>1, <1>2, FS_Subset
<1> QED BY <1>3 DEF Number, UpTo

\* Newer messages do not change the numbers of the older ones.
LEMMA NumberStays ==
  ASSUME NEW box \in SUBSET Uids, NEW more \in SUBSET Uids, NEW u \in box,
         \A v \in more \ box : u < v, box \subseteq more
  PROVE  Number(more, u) = Number(box, u)
<1>0. \A w \in more : w \in Int
  BY BoundsAssumption DEF Uids
<1>1. UpTo(more, u) = UpTo(box, u)
  <2>1. \A w \in more : w <= u => w \in box
    BY <1>0
  <2> QED BY <2>1 DEF UpTo
<1> QED BY <1>1 DEF Number, UpTo

\* A listing that is complete has every message.
LEMMA FullLine ==
  ASSUME NEW box \in SUBSET Uids, NEW u
  PROVE  Line(box, u, Cardinality(box)) = IF u \in box THEN Number(box, u) ELSE -1
  BY NumberType DEF Line

LEMMA LineType ==
  ASSUME NEW box \in SUBSET Uids, NEW u, NEW k
  PROVE  Line(box, u, k) \in {-1} \cup (1 .. MaxMsgs)
  BY NumberType DEF Line

(***************************************************************************)
(* Type correctness.                                                       *)
(***************************************************************************)
MailOK == arrived \in 0 .. MaxMsgs /\ drop \in SUBSET (1 .. arrived)
ServerOK ==
  server \in [state : {"none", "authorization", "transaction"},
              box : SUBSET (1 .. arrived), dele : SUBSET Nat]
PopOK == pop \in [open : BOOLEAN, status : Statuses]
HeadersOK == Known \in SUBSET (1 .. arrived) /\ hdrs \in [Known -> Header]
CacheOK == cache \in [Slots -> [index : Nat, body : {NoBody} \cup (1 .. arrived)]]
BodiesOK == DOMAIN bcache \in SUBSET (1 .. arrived) /\ bcache \in [DOMAIN bcache -> 1 .. arrived]
GhostsOK == option \in SUBSET Options /\ {spool, marked, asked, taken} \subseteq SUBSET (1 .. arrived)
Place(known, last) ==
  [op : Ops, at : Places, i : Nat, done : SUBSET known, shown : SUBSET (1 .. last),
   headers : BOOLEAN, del : BOOLEAN]
PlaceOK == pc \in Place(Known, arrived)

LEMMA TypeParts ==
  TypeOK <=> /\ MailOK /\ ServerOK /\ PopOK /\ HeadersOK /\ CacheOK /\ BodiesOK
             /\ GhostsOK /\ PlaceOK
  BY DEF TypeOK, MailOK, ServerOK, PopOK, HeadersOK, CacheOK, BodiesOK, GhostsOK, PlaceOK, Place

LEMMA ArrivedUids ==
  ASSUME MailOK
  PROVE  arrived \in Nat /\ 1 .. arrived \in SUBSET Uids /\ drop \in SUBSET Uids
  BY BoundsAssumption DEF MailOK, Uids

\* Places.
LEMMA PlaceWider ==
  ASSUME NEW K, NEW L, K \in SUBSET L, NEW a \in Nat, NEW b \in Nat, a <= b,
         NEW p \in Place(K, a)
  PROVE  p \in Place(L, b)
<1>1. p.shown \in SUBSET (1 .. b) /\ p.done \in SUBSET L
  BY DEF Place
<1> QED BY <1>1 DEF Place

LEMMA IdlePlaces ==
  ASSUME NEW K, NEW a, NEW op \in Ops, NEW at \in Places
  PROVE  /\ Idle \in Place(K, a)
         /\ [Idle EXCEPT !.op = op, !.at = at] \in Place(K, a)
  BY DEF Place, Idle, Ops, Places

LEMMA FetchPlace ==
  ASSUME NEW K, NEW a, NEW u \in Nat, NEW headers \in BOOLEAN
  PROVE  [Idle EXCEPT !.op = "fetch", !.at = "reconnect", !.i = u, !.headers = headers] \in Place(K, a)
  BY DEF Place, Idle, Ops, Places

LEMMA ShowPlace ==
  ASSUME NEW K, NEW a, NEW u \in Nat, NEW body \in 1 .. a
  PROVE  [Idle EXCEPT !.i = u, !.shown = {body}] \in Place(K, a)
  BY DEF Place, Idle, Ops, Places

LEMMA GotoPlace ==
  ASSUME NEW K, NEW a, NEW p \in Place(K, a), NEW at \in Places
  PROVE  /\ [p EXCEPT !.at = at] \in Place(K, a)
         /\ \A i \in Nat : [p EXCEPT !.at = at, !.i = i] \in Place(K, a)
         /\ \A i \in Nat, del \in BOOLEAN : [p EXCEPT !.at = at, !.i = i, !.del = del] \in Place(K, a)
         /\ [p EXCEPT !.at = at, !.done = {}] \in Place(K, a)
         /\ \A u \in K : [p EXCEPT !.done = @ \cup {u}] \in Place(K, a)
  BY DEF Place

\* Headers.
LEMMA HeaderParts ==
  ASSUME NEW h \in Header
  PROVE  /\ h.refno \in {-1} \cup (1 .. MaxMsgs) /\ h.index \in Nat /\ h.deleted \in BOOLEAN
         /\ \A n \in {-1} \cup (1 .. MaxMsgs) : [h EXCEPT !.refno = n] \in Header
         /\ \A n \in {-1} \cup (1 .. MaxMsgs), i \in Nat : [h EXCEPT !.refno = n, !.index = i] \in Header
         /\ \A d \in BOOLEAN : [h EXCEPT !.deleted = d] \in Header
  BY DEF Header

\* What verifying and listing make of the headers.
LEMMA VerifiedType ==
  ASSUME MailOK, HeadersOK, NEW k
  PROVE  Verified(k) \in [Known -> Header]
<1>1. \A u \in Known : Line(drop, u, k) \in {-1} \cup (1 .. MaxMsgs)
  BY ArrivedUids, LineType
<1>2. \A u \in Known : hdrs[u] \in Header
  BY DEF HeadersOK
<1>3. \A u \in Known : [hdrs[u] EXCEPT !.refno = Line(drop, u, k)] \in Header
  BY <1>1, <1>2, HeaderParts
<1> QED BY <1>3 DEF Verified

\* What a listing of k lines says of u.
ListedHeader(u, k) ==
  [hdrs[u] EXCEPT !.refno = Line(server.box, u, k),
                  !.index = IF Line(server.box, u, k) = -1 THEN @ ELSE Line(server.box, u, k) - 1]

LEMMA ListedIs == ASSUME NEW k PROVE Listed(k) = [u \in Known |-> ListedHeader(u, k)]
  BY DEF Listed, ListedHeader

LEMMA BoxUids ==
  ASSUME MailOK, ServerOK
  PROVE  server.box \in SUBSET (1 .. arrived) /\ server.box \in SUBSET Uids
  BY ArrivedUids DEF ServerOK

LEMMA ListedHeaderType ==
  ASSUME MailOK, ServerOK, HeadersOK, NEW k, NEW u \in Known
  PROVE  /\ ListedHeader(u, k) \in Header
         /\ ListedHeader(u, k).refno = Line(server.box, u, k)
         /\ ListedHeader(u, k).deleted = hdrs[u].deleted
         /\ ListedHeader(u, k).index
              = IF Line(server.box, u, k) = -1 THEN hdrs[u].index ELSE Line(server.box, u, k) - 1
<1> DEFINE n == Line(server.box, u, k)
           i == IF n = -1 THEN hdrs[u].index ELSE n - 1
<1>1. n \in {-1} \cup (1 .. MaxMsgs)
  BY BoxUids, LineType
<1>2. hdrs[u] \in Header
  BY DEF HeadersOK
<1>3. i \in Nat
  <2>1. hdrs[u].index \in Nat
    BY <1>2, HeaderParts
  <2> HIDE DEF n
  <2> QED BY <1>1, <2>1, BoundsAssumption
<1>4. ListedHeader(u, k) = [hdrs[u] EXCEPT !.refno = n, !.index = i]
  BY DEF ListedHeader
<1> HIDE DEF n, i
<1>5. [hdrs[u] EXCEPT !.refno = n, !.index = i] \in Header
  BY <1>1, <1>2, <1>3, HeaderParts
<1>6. LET h == [hdrs[u] EXCEPT !.refno = n, !.index = i]
      IN h.refno = n /\ h.index = i /\ h.deleted = hdrs[u].deleted
  BY <1>2 DEF Header
<1> QED BY <1>4, <1>5, <1>6 DEF n, i

LEMMA ListedType ==
  ASSUME MailOK, ServerOK, HeadersOK, NEW k
  PROVE  Listed(k) \in [Known -> Header]
  BY ListedIs, ListedHeaderType

Typed == MailOK /\ ServerOK /\ PopOK /\ HeadersOK /\ CacheOK /\ BodiesOK /\ GhostsOK /\ PlaceOK

(***************************************************************************)
(* The inductive invariants.                                               *)
(***************************************************************************)
\* Where the operations are, and what they need there.
Control ==
  /\ pc.op = "none" <=> pc.at = "idle"
  /\ pc.at = "connect" => pc.op \in {"open", "check", "getmail"}
  /\ pc.at = "reconnect" => pc.op \in {"open", "fetch", "sync"}
  /\ pc.at = "headers" => pc.op \in {"open", "check"}
  /\ pc.at = "retr" => pc.op \in {"fetch", "getmail"}
  /\ pc.at = "dele" => pc.op \in {"sync", "getmail"}
  /\ pc.at = "logout" => pc.op \in {"close", "check"}
  /\ pc.at \in {"stat", "quit", "rset"} => pc.op = "getmail"
  /\ pc.op = "getmail" => ~pop.open
  /\ pc.op \notin {"none", "getmail"} => pop.open
  /\ pc.op = "fetch" => pc.i \in Known
  /\ pc.op = "sync" /\ pc.at = "reconnect" => pc.done = {}
  /\ pc.op = "getmail" /\ pc.at \in {"retr", "dele"} /\ Answering =>
       pc.i \in 1 .. Cardinality(server.box)

\* A mailbox that is not open, or is about to be opened, has no headers.
Closed == ~pop.open \/ At("open", "connect") => Known = {} /\ marked = {} /\ cache = EmptyCache

\* mutt has a connection where it uses one, and none where it is about to open one.
Status ==
  pop.open =>
    /\ pc.at = "connect" => pop.status # "CONNECTED"
    /\ pc.at \in {"headers", "retr", "dele"} => pop.status = "CONNECTED"

\* A session has the maildrop to itself: nothing leaves it, and what has arrived since
\* is newer than what it began with and what mutt knows.
Locked ==
  /\ Answering =>
       /\ server.box \subseteq drop
       /\ \A u \in drop \ server.box, v \in server.box \cup Known : v < u
  /\ ~Answering => server.box = {} /\ server.dele = {}

\* In a session whose listing mutt has verified, the headers have its numbers.
Agreed ==
  pop.open /\ pop.status = "CONNECTED" /\ Answering /\ pc.at \notin {"headers", "logout"} =>
    \A u \in Known :
      hdrs[u].refno = IF u \in server.box THEN Number(server.box, u) ELSE -1

\* A message that is marked deleted was marked by the user, or has left the maildrop,
\* and during a sync the user marks no more.
Deletions ==
  /\ \A u \in Known : hdrs[u].deleted => u \in marked \/ u \notin drop
  /\ pc.op = "sync" => marked \subseteq asked

\* What is to be removed when the session ends may be removed.
Doomed ==
  /\ \A u \in server.box : Number(server.box, u) \in server.dele => u \in spool \cup asked
  /\ At("getmail", "dele") =>
       \A u \in server.box : Number(server.box, u) = pc.i => u \in spool

\* What a sync has come past, the server has been told to delete.
Passed == At("sync", "dele") /\ Answering => \A u \in pc.done : hdrs[u].refno \in server.dele

\* A session in which mutt goes on with an open mailbox is one it has logged in to.
LoggedIn ==
  LoginRefused = FALSE =>
    (pop.open /\ pop.status = "CONNECTED" /\ pc.op \notin {"open", "close"} =>
       server.state # "authorization")

Base == Typed /\ Control /\ Closed /\ Status /\ Locked /\ Agreed /\ Deletions /\ Doomed
          /\ Passed /\ LoggedIn /\ NoMailLost

(***************************************************************************)
(* Each step leaves everything well typed.                                 *)
(***************************************************************************)
\* What most steps do: nothing arrives, no header goes.
LEMMA StaysTyped ==
  ASSUME Typed, arrived' = arrived, UNCHANGED <<option, taken>>
  PROVE  /\ UNCHANGED drop => MailOK'
         /\ \A gone : drop' = Without(gone) => MailOK'
         /\ server' \in {server, NoSession, Login, Session} => ServerOK'
         /\ \A n \in Nat : server' = [server EXCEPT !.dele = @ \cup {n}] => ServerOK'
         /\ server' = [server EXCEPT !.dele = {}] => ServerOK'
         /\ pop' \in {pop, NoData} => PopOK'
         /\ \A s \in Statuses : pop' = [pop EXCEPT !.status = s] => PopOK'
         /\ pop' = [NoData EXCEPT !.open = TRUE] => PopOK'
         /\ UNCHANGED hdrs => HeadersOK'
         /\ hdrs' \in [Known -> Header] => HeadersOK' /\ Known' = Known
         /\ cache' \in {cache, EmptyCache} => CacheOK'
         /\ bcache' = bcache => BodiesOK'
         /\ UNCHANGED <<spool, marked, asked>> => GhostsOK'
         /\ UNCHANGED <<spool, asked>> /\ marked' = {} => GhostsOK'
         /\ pc' \in Place(Known', arrived) => PlaceOK'
<1> USE DEF Typed
<1>1. UNCHANGED drop => MailOK'
  BY DEF MailOK
<1>2. ASSUME NEW gone, drop' = Without(gone) PROVE MailOK'
  BY <1>2 DEF MailOK, Without
<1>3. server' \in {server, NoSession, Login, Session} => ServerOK'
  BY DEF ServerOK, NoSession, Login, Session, MailOK
<1>4. ASSUME NEW n \in Nat, server' = [server EXCEPT !.dele = @ \cup {n}] PROVE ServerOK'
  BY <1>4 DEF ServerOK
<1>5. server' = [server EXCEPT !.dele = {}] => ServerOK'
  BY DEF ServerOK
<1>6. pop' \in {pop, NoData} => PopOK'
  <2>1. NoData \in [open : BOOLEAN, status : Statuses]
    BY DEF NoData, Statuses
  <2> QED BY <2>1 DEF PopOK
<1>7. ASSUME NEW s \in Statuses, pop' = [pop EXCEPT !.status = s] PROVE PopOK'
  BY <1>7 DEF PopOK
<1>8. pop' = [NoData EXCEPT !.open = TRUE] => PopOK'
  BY DEF PopOK, NoData, Statuses
<1>9. UNCHANGED hdrs => HeadersOK'
  BY DEF HeadersOK, Known
<1>10. hdrs' \in [Known -> Header] => HeadersOK' /\ Known' = Known
  BY DEF HeadersOK, Known
<1>11. cache' \in {cache, EmptyCache} => CacheOK'
  BY DEF CacheOK, EmptyCache
<1>12. bcache' = bcache => BodiesOK'
  BY DEF BodiesOK
<1>13. /\ UNCHANGED <<spool, marked, asked>> => GhostsOK'
       /\ UNCHANGED <<spool, asked>> /\ marked' = {} => GhostsOK'
  BY DEF GhostsOK
<1>14. pc' \in Place(Known', arrived) => PlaceOK'
  BY DEF PlaceOK
<1> QED BY <1>1, <1>2, <1>3, <1>4, <1>5, <1>6, <1>7, <1>8, <1>9, <1>10, <1>11, <1>12, <1>13, <1>14

LEMMA PlaceSteps ==
  ASSUME NEW K, NEW a, pc \in Place(K, a)
  PROVE  /\ Finish => pc' \in Place(K, a)
         /\ Fail => pc' \in Place(K, a)
         /\ UNCHANGED pc => pc' \in Place(K, a)
         /\ \A at \in Places : Goto(at) => pc' \in Place(K, a)
         /\ \A op \in Ops, at \in Places : Begin(op, at) => pc' \in Place(K, a)
<1>1. ASSUME NEW at \in Places, Goto(at) PROVE pc' \in Place(K, a)
  BY <1>1, GotoPlace DEF Goto
<1>2. ASSUME NEW op \in Ops, NEW at \in Places, Begin(op, at) PROVE pc' \in Place(K, a)
  BY <1>2, IdlePlaces DEF Begin
<1>3. Finish => pc' \in Place(K, a)
  BY IdlePlaces DEF Finish, Ops, Places
<1>4. Fail => pc' \in Place(K, a)
  BY <1>2, <1>3 DEF Fail, Ops, Places
<1> QED BY <1>1, <1>2, <1>3, <1>4

LEMMA CommonPlaces ==
  ASSUME Typed, Known' = Known
  PROVE  /\ pc \in Place(Known', arrived)
         /\ Finish => pc' \in Place(Known', arrived)
         /\ Fail => pc' \in Place(Known', arrived)
         /\ UNCHANGED pc => pc' \in Place(Known', arrived)
         /\ \A at \in Places : Goto(at) => pc' \in Place(Known', arrived)
         /\ \A op \in Ops, at \in Places : Begin(op, at) => pc' \in Place(Known', arrived)
<1>1. pc \in Place(Known', arrived)
  BY DEF Typed, PlaceOK
<1> QED BY <1>1, PlaceSteps

\* The numbers and names that occur.
LEMMA Names ==
  /\ \A at \in {"idle", "connect", "reconnect", "headers", "retr", "dele", "quit", "logout",
                "stat", "rset"} : at \in Places
  /\ \A op \in {"none", "open", "check", "fetch", "sync", "close", "getmail"} : op \in Ops
  /\ \A s \in {"NONE", "CONNECTED", "DISCONNECTED"} : s \in Statuses
  /\ Resume \in Places
  BY DEF Places, Ops, Statuses, Resume

LEMMA MailboxTyped ==
  ASSUME Typed, Mailbox
  PROVE  Typed'
<1> USE Names
<1>1. CASE OpenMailbox
  <2>1. UNCHANGED <<option, drop, arrived, server, hdrs, cache, bcache, spool, ghosts>> /\ PopOK'
    BY <1>1, StaysTyped DEF OpenMailbox, ghosts
  <2>2. pc' \in Place(Known', arrived)
    BY <1>1, <2>1, CommonPlaces DEF OpenMailbox, Known
  <2> QED BY <2>1, <2>2, StaysTyped DEF Typed, ghosts
<1>2. CASE CheckMailbox
  <2>1. UNCHANGED <<option, drop, arrived, server, hdrs, cache, bcache, spool, ghosts>> /\ PopOK'
    BY <1>2, StaysTyped DEF CheckMailbox, ghosts
  <2>2. pc' \in Place(Known', arrived)
    BY <1>2, <2>1, CommonPlaces DEF CheckMailbox, Known
  <2> QED BY <2>1, <2>2, StaysTyped DEF Typed, ghosts
<1>3. CASE CloseMailbox
  <2>1. UNCHANGED <<option, drop, arrived, server, hdrs, cache, bcache, spool, ghosts>> /\ PopOK'
    BY <1>3, StaysTyped DEF CloseMailbox, ghosts
  <2>2. pc' \in Place(Known', arrived)
    BY <1>3, <2>1, CommonPlaces DEF CloseMailbox, Known
  <2> QED BY <2>1, <2>2, StaysTyped DEF Typed, ghosts
<1>4. CASE Connect
  <2>1. UNCHANGED <<option, drop, arrived, hdrs, cache, bcache, spool, ghosts>>
    BY <1>4 DEF Connect
  <2>2. ServerOK' /\ PopOK'
    BY <1>4, <2>1, StaysTyped DEF Connect, Opens, OpenFails, ghosts
  <2>3. pc' \in Place(Known', arrived)
    BY <1>4, <2>1, CommonPlaces DEF Connect, Known
  <2> QED BY <2>1, <2>2, <2>3, StaysTyped DEF Typed, ghosts
<1>5. CASE Reconnected
  BY <1>5, StaysTyped, CommonPlaces DEF Reconnected, Typed, ghosts, Known
<1>6. CASE Reconnect
  <2>1. UNCHANGED <<option, drop, arrived, cache, bcache, spool, ghosts>>
    BY <1>6 DEF Reconnect
  <2>2. ServerOK' /\ PopOK'
    BY <1>6, <2>1, StaysTyped DEF Reconnect, Opens, ghosts
  <2>3. hdrs' \in [Known -> Header]
    BY <1>6, VerifiedType DEF Reconnect, Typed
  <2>4. pc' \in Place(Known', arrived)
    BY <1>6, <2>1, <2>3, StaysTyped, CommonPlaces DEF Reconnect, ghosts
  <2> QED BY <2>1, <2>2, <2>3, <2>4, StaysTyped DEF Typed, ghosts
<1>7. CASE ReconnectFails
  <2>1. UNCHANGED <<option, drop, arrived, cache, bcache, spool, ghosts>>
    BY <1>7 DEF ReconnectFails
  <2>2. ServerOK' /\ PopOK'
    BY <1>7, <2>1, StaysTyped DEF ReconnectFails, ghosts
  <2>3. hdrs' \in [Known -> Header]
    BY <1>7, VerifiedType DEF ReconnectFails, Typed, HeadersOK
  <2>4. pc' \in Place(Known', arrived)
    BY <1>7, <2>1, <2>3, StaysTyped, CommonPlaces DEF ReconnectFails, ghosts
  <2> QED BY <2>1, <2>2, <2>3, <2>4, StaysTyped DEF Typed, ghosts
<1>8. CASE Logout
  <2>1. UNCHANGED <<option, arrived, bcache, spool, asked, taken>> /\ MailOK' /\ ServerOK'
    BY <1>8, StaysTyped DEF Logout
  <2>2. CASE pc.op = "check"
    <3>1. UNCHANGED <<hdrs, cache, marked>> /\ PopOK' /\ pc' \in Place(Known', arrived)
      BY <1>8, <2>1, <2>2, StaysTyped, CommonPlaces DEF Logout, Known
    <3> QED BY <2>1, <3>1, StaysTyped DEF Typed
  <2>3. CASE pc.op # "check"
    <3>1. hdrs' = <<>> /\ cache' = EmptyCache /\ marked' = {} /\ pop' = NoData /\ pc' = Idle
      BY <1>8, <2>3 DEF Logout, Finish
    <3>2. HeadersOK'
      BY <3>1 DEF HeadersOK, Known
    <3>3. pc' \in Place(Known', arrived)
      BY <3>1, IdlePlaces
    <3> QED BY <2>1, <3>1, <3>2, <3>3, StaysTyped DEF Typed
  <2> QED BY <2>2, <2>3
<1>9. CASE ListingFails
  <2>1. UNCHANGED <<option, drop, arrived, bcache, spool, ghosts>>
    BY <1>9 DEF ListingFails
  <2>2. ServerOK' /\ PopOK' /\ CacheOK'
    BY <1>9, <2>1, StaysTyped DEF ListingFails, LosesLink, Cleared, ghosts
  <2>3. hdrs' \in [Known -> Header]
    BY <1>9, ListedType DEF ListingFails, Typed
  <2>4. pc' \in Place(Known', arrived)
    BY <1>9, <2>1, <2>3, StaysTyped, CommonPlaces DEF ListingFails, LosesLink, ghosts
  <2> QED BY <2>1, <2>2, <2>3, <2>4, StaysTyped DEF Typed, ghosts
<1>10. CASE FetchHeaders
  <2> DEFINE listed == Listed(Cardinality(server.box))
             header(u, read) == IF u \in read THEN NewHeader(Number(server.box, u))
                                ELSE [listed[u] EXCEPT !.deleted = @ \/ listed[u].refno = -1]
             clean(read) == [u \in DOMAIN bcache \cap (Known \cup read) |-> bcache[u]]
  <2>1. PICK read \in SUBSET New :
          /\ hdrs' = [u \in Known \cup read |-> header(u, read)]
          /\ cache' = Cleared(listed)
          /\ bcache' \in {bcache, clean(read)}
          /\ Finish \/ Fail \/ LosesLink
          /\ LosesLink \/ UNCHANGED <<server, pop>>
    BY <1>10 DEF FetchHeaders
  <2>2. UNCHANGED <<option, drop, arrived, spool, ghosts>>
    BY <1>10 DEF FetchHeaders
  <2>3. ServerOK' /\ PopOK' /\ CacheOK'
    BY <2>1, <2>2, StaysTyped DEF LosesLink, Cleared, ghosts
  <2>4. ASSUME NEW u \in Known \cup read PROVE header(u, read) \in Header
    <3>1. CASE u \in read
      <4>1. Number(server.box, u) \in 1 .. MaxMsgs
        BY <2>1, <3>1, BoxUids, NumberType DEF Typed, New
      <4> QED BY <3>1, <4>1, BoundsAssumption DEF NewHeader, Header
    <3>2. CASE u \notin read
      <4>1. listed[u] \in Header
        BY <3>2, ListedType DEF Typed
      <4> HIDE DEF listed
      <4>2. (listed[u].deleted \/ listed[u].refno = -1) \in BOOLEAN
        OBVIOUS
      <4>3. [listed[u] EXCEPT !.deleted = listed[u].deleted \/ listed[u].refno = -1] \in Header
        BY <4>1, <4>2, HeaderParts
      <4> QED BY <3>2, <4>3
    <3> QED BY <3>1, <3>2
  <2>5. HeadersOK' /\ Known' = Known \cup read
    <3>1. Known' = Known \cup read
      BY <2>1 DEF Known
    <3>2. Known \cup read \in SUBSET (1 .. arrived)
      BY <2>1, BoxUids DEF Typed, HeadersOK, New
    <3> HIDE DEF header
    <3>3. hdrs' \in [Known \cup read -> Header]
      BY <2>1, <2>4
    <3> QED BY <2>2, <3>1, <3>2, <3>3 DEF HeadersOK
  <2>6. BodiesOK'
    BY <2>1, <2>2 DEF Typed, BodiesOK
  <2>7. pc' \in Place(Known', arrived)
    <3>1. pc \in Place(Known', arrived)
      <4>1. Known \in SUBSET Known' /\ arrived \in Nat
        BY <2>5, ArrivedUids DEF Typed
      <4> QED BY <4>1, PlaceWider DEF Typed, PlaceOK
    <3>2. LosesLink => pc' \in Place(Known', arrived)
      BY <3>1, PlaceSteps DEF LosesLink
    <3>3. Finish \/ Fail => pc' \in Place(Known', arrived)
      BY <3>1, PlaceSteps
    <3> QED BY <2>1, <3>2, <3>3
  <2> QED BY <2>2, <2>3, <2>5, <2>6, <2>7, StaysTyped DEF Typed, ghosts
<1> QED BY <1>1, <1>2, <1>3, <1>4, <1>5, <1>6, <1>7, <1>8, <1>9, <1>10 DEF Mailbox

\* The slots of POP's own cache.
LEMMA SlotTypes ==
  ASSUME CacheOK, NEW h \in Header
  PROVE  /\ SlotOf(h) \in Slots
         /\ cache[SlotOf(h)] \in [index : Nat, body : {NoBody} \cup (1 .. arrived)]
         /\ EmptyCache[SlotOf(h)] = [index |-> 0, body |-> NoBody]
         /\ [cache EXCEPT ![SlotOf(h)] = EmptyCache[SlotOf(h)]]
              \in [Slots -> [index : Nat, body : {NoBody} \cup (1 .. arrived)]]
         /\ \A body \in 1 .. arrived :
              [cache EXCEPT ![SlotOf(h)] = [index |-> h.index, body |-> body]]
                \in [Slots -> [index : Nat, body : {NoBody} \cup (1 .. arrived)]]
<1>1. SlotOf(h) \in Slots
  <2>1. h.index \in Nat
    BY HeaderParts
  <2>2. h.index % CacheLen \in 0 .. CacheLen - 1
    BY <2>1, BoundsAssumption
  <2> QED BY <2>2 DEF SlotOf, Slots
<1>2. EmptyCache[SlotOf(h)] = [index |-> 0, body |-> NoBody]
  BY <1>1 DEF EmptyCache
<1>3. cache[SlotOf(h)] \in [index : Nat, body : {NoBody} \cup (1 .. arrived)]
  BY <1>1 DEF CacheOK
<1>4. \A c \in [index : Nat, body : {NoBody} \cup (1 .. arrived)] :
        [cache EXCEPT ![SlotOf(h)] = c] \in [Slots -> [index : Nat, body : {NoBody} \cup (1 .. arrived)]]
  BY <1>1 DEF CacheOK
<1>5. [index |-> 0, body |-> NoBody] \in [index : Nat, body : {NoBody} \cup (1 .. arrived)]
  OBVIOUS
<1>6. \A body \in 1 .. arrived : [index |-> h.index, body |-> body] \in [index : Nat, body : {NoBody} \cup (1 .. arrived)]
  BY HeaderParts
<1> QED BY <1>1, <1>2, <1>3, <1>4, <1>5, <1>6

\* What Retrieve reads is the message of the header.
LEMMA RetrievesIt ==
  ASSUME Typed, Control, Status, Agreed, At("fetch", "retr"), Answering, hdrs[pc.i].refno # -1
  PROVE  /\ pc.i \in Known /\ pc.i \in server.box
         /\ Message(server.box, hdrs[pc.i].refno) = pc.i
<1>1. pc.i \in Known /\ pop.open /\ pop.status = "CONNECTED" /\ pc.at \notin {"headers", "logout"}
  BY DEF Control, Status, At
<1>2. pc.i \in server.box /\ hdrs[pc.i].refno = Number(server.box, pc.i)
  BY <1>1 DEF Agreed
<1> QED BY <1>1, <1>2, BoxUids, MessageOfNumber DEF Typed

LEMMA ReadingTyped ==
  ASSUME Typed, Control, Status, Agreed, Reading
  PROVE  Typed'
<1> USE Names
<1>1. CASE FetchMessage
  <2>1. UNCHANGED <<option, drop, arrived, server, pop, hdrs, bcache, spool, ghosts>> /\ Known' = Known
    BY <1>1 DEF FetchMessage, Known
  <2>2. PICK u \in Known, headers \in BOOLEAN :
          \/ u \in DOMAIN bcache /\ Show(u, bcache[u]) /\ UNCHANGED cache
          \/ /\ Cached(cache[SlotOf(hdrs[u])], hdrs[u])
             /\ Show(u, cache[SlotOf(hdrs[u])].body) /\ UNCHANGED cache
          \/ /\ pc' = [Idle EXCEPT !.op = "fetch", !.at = "reconnect", !.i = u, !.headers = headers]
             /\ cache' = IF headers THEN cache
                         ELSE [cache EXCEPT ![SlotOf(hdrs[u])] = EmptyCache[SlotOf(hdrs[u])]]
    BY <1>1 DEF FetchMessage
  <2>3. hdrs[u] \in Header /\ u \in Nat
    BY <2>2, ArrivedUids, BoundsAssumption DEF Typed, HeadersOK, Uids
  <2>4. CacheOK'
    <3>1. CacheOK
      BY DEF Typed
    <3>2. cache' \in [Slots -> [index : Nat, body : {NoBody} \cup (1 .. arrived)]]
      BY <2>2, <2>3, <3>1, SlotTypes DEF CacheOK
    <3> QED BY <2>1, <3>2 DEF CacheOK
  <2>5. pc' \in Place(Known', arrived)
    <3>1. CASE u \in DOMAIN bcache /\ Show(u, bcache[u])
      BY <2>3, <3>1, ShowPlace DEF Show, Typed, BodiesOK
    <3>2. CASE Cached(cache[SlotOf(hdrs[u])], hdrs[u]) /\ Show(u, cache[SlotOf(hdrs[u])].body)
      <4>1. cache[SlotOf(hdrs[u])].body \in 1 .. arrived
        BY <2>3, <3>2, SlotTypes DEF Cached, Typed
      <4> QED BY <2>3, <3>2, <4>1, ShowPlace DEF Show
    <3>3. CASE pc' = [Idle EXCEPT !.op = "fetch", !.at = "reconnect", !.i = u, !.headers = headers]
      BY <2>3, <3>3, FetchPlace
    <3> QED BY <2>2, <3>1, <3>2, <3>3
  <2> QED BY <2>1, <2>4, <2>5, StaysTyped DEF Typed, ghosts
<1>2. CASE Retrieve
  <2>1. UNCHANGED <<option, drop, arrived, server, pop, hdrs, spool, ghosts>> /\ Known' = Known
    BY <1>2 DEF Retrieve, Known
  <2>2. pc.i \in Known /\ pc.i \in server.box /\ Message(server.box, hdrs[pc.i].refno) = pc.i
    BY <1>2, RetrievesIt DEF Retrieve
  <2>3. /\ pc' = [Idle EXCEPT !.i = pc.i, !.shown = {pc.i}]
        /\ \/ UNCHANGED cache
           \/ cache' = [cache EXCEPT ![SlotOf(hdrs[pc.i])] = [index |-> hdrs[pc.i].index, body |-> pc.i]]
        /\ \/ UNCHANGED bcache
           \/ bcache' = [u \in DOMAIN bcache \cup {pc.i} |-> IF u = pc.i THEN pc.i ELSE bcache[u]]
    BY <1>2, <2>2 DEF Retrieve, Show
  <2>4. hdrs[pc.i] \in Header /\ pc.i \in 1 .. arrived /\ pc.i \in Uids /\ pc.i \in Nat
    BY <2>2, BoxUids, ArrivedUids, BoundsAssumption DEF Typed, HeadersOK
  <2>5. CacheOK'
    <3>1. CacheOK
      BY DEF Typed
    <3>2. cache' \in [Slots -> [index : Nat, body : {NoBody} \cup (1 .. arrived)]]
      BY <2>3, <2>4, <3>1, SlotTypes DEF CacheOK
    <3> QED BY <2>1, <3>2 DEF CacheOK
  <2>6. BodiesOK'
    BY <2>1, <2>3, <2>4 DEF Typed, BodiesOK
  <2>7. pc' \in Place(Known', arrived)
    BY <2>3, <2>4, ShowPlace
  <2> QED BY <2>1, <2>5, <2>6, <2>7, StaysTyped DEF Typed, ghosts
<1>3. CASE RetrieveFails
  BY <1>3, StaysTyped, CommonPlaces DEF RetrieveFails, Typed, ghosts, Known
<1>4. CASE RetrieveLost
  <2>1. UNCHANGED <<option, drop, arrived, server, hdrs, cache, bcache, spool, ghosts>> /\ PopOK'
    BY <1>4, StaysTyped DEF RetrieveLost, Lost, ghosts
  <2>2. pc' \in Place(Known', arrived)
    BY <1>4, <2>1, CommonPlaces DEF RetrieveLost, Known
  <2> QED BY <2>1, <2>2, StaysTyped DEF Typed, ghosts
<1> QED BY <1>1, <1>2, <1>3, <1>4 DEF Reading

LEMMA SyncingTyped ==
  ASSUME Typed, Syncing
  PROVE  Typed'
<1> USE Names
<1>1. CASE Delete
  <2>1. UNCHANGED <<option, drop, arrived, server, pop, cache, bcache, spool, asked, taken, pc>>
    BY <1>1 DEF Delete
  <2>2. PICK u \in Known :
          /\ hdrs' = [hdrs EXCEPT ![u].deleted = ~@]
          /\ marked' \in {marked \ {u}, marked \cup {u}}
    BY <1>1 DEF Delete
  <2>3. [hdrs[u] EXCEPT !.deleted = ~hdrs[u].deleted] \in Header
    BY HeaderParts DEF Typed, HeadersOK
  <2>4. hdrs' = [hdrs EXCEPT ![u] = [hdrs[u] EXCEPT !.deleted = ~hdrs[u].deleted]]
    BY <2>2 DEF Typed, HeadersOK
  <2>5. hdrs' \in [Known -> Header]
    BY <2>3, <2>4 DEF Typed, HeadersOK
  <2>6. GhostsOK'
    BY <2>1, <2>2 DEF Typed, GhostsOK, HeadersOK
  <2>7. pc' \in Place(Known', arrived)
    BY <2>1, <2>5, StaysTyped, CommonPlaces
  <2> QED BY <2>1, <2>5, <2>6, <2>7, StaysTyped DEF Typed
<1>2. CASE Sync
  <2>1. UNCHANGED <<option, drop, arrived, server, pop, hdrs, cache, bcache, spool, marked, taken>>
    BY <1>2 DEF Sync
  <2>2. GhostsOK'
    BY <1>2, <2>1 DEF Sync, Typed, GhostsOK
  <2>3. pc' \in Place(Known', arrived)
    BY <1>2, IdlePlaces DEF Sync
  <2> QED BY <2>1, <2>2, <2>3, StaysTyped DEF Typed
<1>3. CASE SyncDele
  <2>1. UNCHANGED <<option, drop, arrived, pop, hdrs, cache, spool, ghosts>> /\ Known' = Known
    BY <1>3 DEF SyncDele, Known
  <2>2. PICK u \in ToDelete :
          /\ server' = [server EXCEPT !.dele = @ \cup {hdrs[u].refno}]
          /\ bcache' = [v \in DOMAIN bcache \ {u} |-> bcache[v]]
          /\ pc' = [pc EXCEPT !.done = @ \cup {u}]
    BY <1>3 DEF SyncDele
  <2>3. u \in Known /\ hdrs[u].refno \in Nat
    <3>1. u \in Known /\ hdrs[u].refno # -1
      BY <2>2 DEF ToDelete
    <3>2. hdrs[u].refno \in {-1} \cup (1 .. MaxMsgs)
      BY <3>1, HeaderParts DEF Typed, HeadersOK
    <3> QED BY <3>1, <3>2, BoundsAssumption
  <2>4. ServerOK'
    BY <2>1, <2>2, <2>3, StaysTyped DEF ghosts
  <2>5. BodiesOK'
    BY <2>1, <2>2 DEF Typed, BodiesOK
  <2>6. pc' \in Place(Known', arrived)
    BY <2>1, <2>2, <2>3, GotoPlace DEF Typed, PlaceOK
  <2> QED BY <2>1, <2>4, <2>5, <2>6, StaysTyped DEF Typed, ghosts
<1>4. CASE SyncRefused
  BY <1>4, StaysTyped, CommonPlaces DEF SyncRefused, Typed, ghosts, Known
<1>5. CASE SyncLost
  <2>1. UNCHANGED <<option, drop, arrived, server, hdrs, cache, bcache, spool, ghosts>> /\ PopOK'
    BY <1>5, StaysTyped DEF SyncLost, Lost, ghosts
  <2>2. pc' \in Place(Known', arrived)
    BY <1>5, <2>1, CommonPlaces, GotoPlace DEF SyncLost, Known
  <2> QED BY <2>1, <2>2, StaysTyped DEF Typed, ghosts
<1>6. CASE SyncQuit
  <2>1. UNCHANGED <<option, arrived, bcache, spool, asked, taken>> /\ MailOK' /\ ServerOK' /\ PopOK' /\ CacheOK'
    BY <1>6, StaysTyped DEF SyncQuit
  <2>2. GhostsOK'
    BY <1>6, <2>1, StaysTyped DEF SyncQuit
  <2>3. HeadersOK'
    BY <1>6, <2>1 DEF SyncQuit, Typed, HeadersOK, Known
  <2>4. pc' \in Place(Known', arrived)
    BY <1>6, IdlePlaces DEF SyncQuit, Finish
  <2> QED BY <2>1, <2>2, <2>3, <2>4, StaysTyped DEF Typed
<1>7. CASE SyncQuitLost
  <2>1. UNCHANGED <<option, arrived, hdrs, cache, bcache, spool, ghosts>> /\ MailOK' /\ ServerOK' /\ PopOK'
    BY <1>7, StaysTyped DEF SyncQuitLost, ghosts
  <2>2. pc' \in Place(Known', arrived)
    BY <1>7, <2>1, CommonPlaces, GotoPlace DEF SyncQuitLost, Known
  <2> QED BY <2>1, <2>2, StaysTyped DEF Typed, ghosts
<1>8. CASE SyncQuitRefused
  <2>1. UNCHANGED <<option, arrived, pop, hdrs, cache, bcache, spool, ghosts>> /\ MailOK' /\ ServerOK'
    BY <1>8, StaysTyped DEF SyncQuitRefused, ghosts
  <2>2. pc' \in Place(Known', arrived)
    BY <1>8, <2>1, CommonPlaces DEF SyncQuitRefused, Known
  <2> QED BY <2>1, <2>2, StaysTyped DEF Typed, ghosts
<1> QED BY <1>1, <1>2, <1>3, <1>4, <1>5, <1>6, <1>7, <1>8 DEF Syncing

LEMMA GetMailTyped ==
  ASSUME Typed, Control, GetMail
  PROVE  Typed'
<1> USE Names
<1>1. CASE FetchMail
  <2>1. UNCHANGED <<option, drop, arrived, server, pop, hdrs, cache, bcache, spool, ghosts>>
    BY <1>1 DEF FetchMail
  <2>2. pc' \in Place(Known', arrived)
    BY <1>1, IdlePlaces DEF FetchMail, Begin
  <2> QED BY <2>1, <2>2, StaysTyped DEF Typed, ghosts
<1>2. CASE Stat
  <2>1. UNCHANGED <<option, drop, arrived, server, pop, hdrs, cache, bcache, spool, ghosts>> /\ Known' = Known
    BY <1>2 DEF Stat, Known
  <2>2. pc' \in Place(Known', arrived)
    <3>1. CASE Goto("quit")
      BY <2>1, <3>1, CommonPlaces
    <3>2. CASE ~Goto("quit")
      <4>1. PICK i \in 1 .. Cardinality(server.box), del \in BOOLEAN :
              pc' = [pc EXCEPT !.at = "retr", !.i = i, !.del = del]
        BY <1>2, <3>2 DEF Stat
      <4>2. i \in Nat
        BY BoxUids, Finite, BoundsAssumption DEF Typed
      <4> QED BY <2>1, <4>1, <4>2, CommonPlaces, GotoPlace
    <3> QED BY <3>1, <3>2
  <2> QED BY <2>1, <2>2, StaysTyped DEF Typed, ghosts
<1>3. ASSUME GoOn, Known' = Known
      PROVE  pc' \in Place(Known', arrived)
  <2>1. CASE Goto("quit")
    BY <1>3, <2>1, CommonPlaces
  <2>2. CASE ~Goto("quit")
    <3>1. pc' = [pc EXCEPT !.at = "retr", !.i = pc.i + 1]
      BY <1>3, <2>2 DEF GoOn
    <3>2. pc.i + 1 \in Nat
      BY DEF Typed, PlaceOK, Place
    <3> QED BY <1>3, <3>1, <3>2, CommonPlaces, GotoPlace
  <2> QED BY <2>1, <2>2
<1>4. CASE GetMessage
  <2>1. UNCHANGED <<option, drop, arrived, server, pop, hdrs, cache, bcache, ghosts>> /\ Known' = Known
    BY <1>4 DEF GetMessage, Known
  <2>2. pc.i \in 1 .. Cardinality(server.box)
    BY <1>4 DEF GetMessage, Control, At
  <2>3. Message(server.box, pc.i) \in 1 .. arrived
    BY <2>2, BoxUids, MessageType DEF Typed
  <2>4. GhostsOK'
    BY <1>4, <2>1, <2>3 DEF GetMessage, Typed, GhostsOK, ghosts
  <2>5. pc' \in Place(Known', arrived)
    BY <1>3, <1>4, <2>1, CommonPlaces DEF GetMessage
  <2> QED BY <2>1, <2>4, <2>5, StaysTyped DEF Typed, ghosts
<1>5. CASE GetFails
  BY <1>5, StaysTyped, CommonPlaces DEF GetFails, Typed, ghosts, Known
<1>6. CASE GetDele
  <2>1. UNCHANGED <<option, drop, arrived, pop, hdrs, cache, bcache, spool, ghosts>> /\ Known' = Known
    BY <1>6 DEF GetDele, Known
  <2>2. pc.i \in Nat
    BY DEF Typed, PlaceOK, Place
  <2>3. ServerOK'
    BY <1>6, <2>1, <2>2, StaysTyped DEF GetDele, ghosts
  <2>4. pc' \in Place(Known', arrived)
    BY <1>3, <1>6, <2>1, CommonPlaces DEF GetDele
  <2> QED BY <2>1, <2>3, <2>4, StaysTyped DEF Typed, ghosts
<1>7. CASE GetRset
  <2>1. UNCHANGED <<option, drop, arrived, pop, hdrs, cache, bcache, spool, ghosts>> /\ Known' = Known
    BY <1>7 DEF GetRset, Known
  <2>2. ServerOK' /\ pc' \in Place(Known', arrived)
    BY <1>7, <2>1, StaysTyped, CommonPlaces DEF GetRset, ghosts
  <2> QED BY <2>1, <2>2, StaysTyped DEF Typed, ghosts
<1>8. CASE GetQuit
  <2>1. UNCHANGED <<option, arrived, hdrs, cache, bcache, spool, ghosts>> /\ Known' = Known
    BY <1>8 DEF GetQuit, Known
  <2>2. MailOK' /\ ServerOK' /\ PopOK' /\ pc' \in Place(Known', arrived)
    BY <1>8, <2>1, StaysTyped, CommonPlaces DEF GetQuit, ghosts
  <2> QED BY <2>1, <2>2, StaysTyped DEF Typed, ghosts
<1>9. CASE GetLost
  <2>1. UNCHANGED <<option, drop, arrived, server, hdrs, cache, bcache, spool, ghosts>> /\ Known' = Known
    BY <1>9 DEF GetLost, Known
  <2>2. PopOK' /\ pc' \in Place(Known', arrived)
    BY <1>9, <2>1, StaysTyped, CommonPlaces DEF GetLost, ghosts
  <2> QED BY <2>1, <2>2, StaysTyped DEF Typed, ghosts
<1> QED BY <1>1, <1>2, <1>4, <1>5, <1>6, <1>7, <1>8, <1>9 DEF GetMail

LEMMA OutsideTyped ==
  ASSUME Typed, Outside
  PROVE  Typed'
<1>1. CASE Arrive
  <2>1. /\ arrived' = arrived + 1 /\ arrived < MaxMsgs /\ drop' = drop \cup {arrived + 1}
        /\ UNCHANGED <<option, server, pop, hdrs, cache, bcache, spool, ghosts, pc>>
    BY <1>1 DEF Arrive
  <2>2. arrived \in Nat /\ arrived + 1 \in 0 .. MaxMsgs /\ 1 .. arrived \in SUBSET (1 .. arrived + 1)
    BY <2>1, BoundsAssumption DEF Typed, MailOK
  <2>3. MailOK'
    BY <2>1, <2>2 DEF Typed, MailOK
  <2>4. ServerOK' /\ PopOK'
    BY <2>1, <2>2 DEF Typed, ServerOK, PopOK
  <2>8. CacheOK'
    BY <2>1, <2>2 DEF Typed, CacheOK
  <2>5. HeadersOK' /\ BodiesOK' /\ Known' = Known
    BY <2>1, <2>2 DEF Typed, HeadersOK, BodiesOK, Known
  <2>6. GhostsOK'
    BY <2>1, <2>2 DEF Typed, GhostsOK, ghosts
  <2>7. PlaceOK'
    BY <2>1, <2>2, <2>5, PlaceWider DEF Typed, PlaceOK
  <2> QED BY <2>3, <2>4, <2>5, <2>6, <2>7, <2>8 DEF Typed
<1>2. CASE TakenElsewhere
  <2>1. UNCHANGED <<option, arrived, server, pop, hdrs, cache, bcache, spool, marked, asked, pc>>
    BY <1>2 DEF TakenElsewhere
  <2>2. MailOK' /\ GhostsOK'
    BY <1>2, <2>1 DEF TakenElsewhere, Typed, MailOK, GhostsOK
  <2> QED BY <2>1, <2>2 DEF Typed, ServerOK, PopOK, CacheOK, HeadersOK, BodiesOK, PlaceOK, Known
<1>3. CASE LoseLink
  <2>1. UNCHANGED <<option, drop, arrived, pop, hdrs, cache, bcache, spool, ghosts, pc>> /\ ServerOK'
    BY <1>3, StaysTyped DEF LoseLink, ghosts
  <2> QED BY <2>1 DEF Typed, MailOK, PopOK, CacheOK, HeadersOK, BodiesOK, GhostsOK, PlaceOK, Known, ghosts
<1> QED BY <1>1, <1>2, <1>3 DEF Outside

(***************************************************************************)
(* What the steps do, field by field.                                      *)
(***************************************************************************)
Leads(op, at) == pc'.op = op /\ pc'.at = at
LinkEnds == server'.state = "none" /\ server'.box = {} /\ server'.dele = {}
LinkBegins == server'.state = "transaction" /\ server'.box = drop /\ server'.dele = {}
FailLeads == IF pc.op = "open" THEN Leads("close", "logout") ELSE Leads("none", "idle")
Rest == pc'.i = pc.i /\ pc'.done = pc.done /\ pc'.shown = pc.shown
Fresh == pc'.i = 0 /\ pc'.done = {} /\ pc'.shown = {}

LEMMA FailDoes == ASSUME Fail PROVE FailLeads /\ Fresh
<1>1. CASE pc.op = "open"
  BY <1>1 DEF Fail, FailLeads, Leads, Fresh, Begin, Idle
<1>2. CASE pc.op # "open"
  BY <1>2 DEF Fail, FailLeads, Leads, Fresh, Finish, Idle
<1> QED BY <1>1, <1>2

LEMMA GotoDoes == ASSUME Typed, NEW at, Goto(at) PROVE Leads(pc.op, at) /\ Rest
  BY DEF Goto, Leads, Rest, Typed, PlaceOK, Place

LEMMA StatusDoes ==
  ASSUME Typed, NEW s, pop' = [pop EXCEPT !.status = s]
  PROVE  pop'.open = pop.open /\ pop'.status = s
  BY DEF Typed, PopOK

LEMMA SessionDoes ==
  /\ server' = NoSession => LinkEnds
  /\ server' = Session => LinkBegins
  /\ server' = Login => server'.state = "authorization" /\ server'.box = {} /\ server'.dele = {}
  BY DEF LinkEnds, LinkBegins, NoSession, Session, Login

LEMMA ConnectDoes ==
  ASSUME Typed, Connect
  PROVE  /\ pc.at = "connect" /\ pop'.open = pop.open
         /\ UNCHANGED <<option, drop, arrived, hdrs, cache, bcache, spool, ghosts>>
         /\ \/ /\ LinkBegins /\ pop'.status = "CONNECTED" /\ Rest
               /\ Leads(pc.op, CASE pc.op = "open" -> "reconnect" [] pc.op = "check" -> "headers"
                                 [] OTHER -> "stat")
            \/ /\ server'.state \in {"none", "authorization"} /\ server'.box = {} /\ server'.dele = {}
               /\ server'.state = "authorization" /\ pc.op = "check" => LoginRefused
               /\ FailLeads /\ Fresh
<1>1. pc.at = "connect" /\ UNCHANGED <<option, drop, arrived, hdrs, cache, bcache, spool, ghosts>>
  BY DEF Connect
<1>2. CASE /\ Opens
           /\ Goto(CASE pc.op = "open" -> "reconnect" [] pc.op = "check" -> "headers" [] OTHER -> "stat")
  BY <1>1, <1>2, StatusDoes, SessionDoes, GotoDoes DEF Opens
<1>3. CASE OpenFails /\ Fail
  BY <1>1, <1>3, StatusDoes, SessionDoes, FailDoes DEF OpenFails, LinkEnds
<1> QED BY <1>1, <1>2, <1>3 DEF Connect

\* Headers with the numbers of k lines of a listing of box.
Renumbered(box, k) ==
  /\ Known' = Known
  /\ \A u \in Known : /\ hdrs'[u].refno = Line(box, u, k) /\ hdrs'[u].index = hdrs[u].index
                      /\ hdrs'[u].deleted = hdrs[u].deleted

LEMMA VerifiedDoes ==
  ASSUME Typed, NEW k, hdrs' = Verified(k)
  PROVE  Renumbered(drop, k)
<1>1. Known' = Known /\ \A u \in Known : hdrs'[u] = [hdrs[u] EXCEPT !.refno = Line(drop, u, k)]
  BY DEF Verified, Known
<1>2. \A u \in Known : hdrs[u] \in Header
  BY DEF Typed, HeadersOK
<1>3. ASSUME NEW h \in Header, NEW n
      PROVE  LET g == [h EXCEPT !.refno = n]
             IN g.refno = n /\ g.index = h.index /\ g.deleted = h.deleted
  BY DEF Header
<1>4. ASSUME NEW u \in Known
      PROVE  /\ hdrs'[u].refno = Line(drop, u, k) /\ hdrs'[u].index = hdrs[u].index
             /\ hdrs'[u].deleted = hdrs[u].deleted
  <2> DEFINE n == Line(drop, u, k)
  <2>1. hdrs'[u] = [hdrs[u] EXCEPT !.refno = n] /\ hdrs[u] \in Header
    BY <1>1, <1>2
  <2> HIDE DEF n
  <2>2. hdrs'[u].refno = n /\ hdrs'[u].index = hdrs[u].index /\ hdrs'[u].deleted = hdrs[u].deleted
    BY <1>3, <2>1
  <2> QED BY <2>2 DEF n
<1> QED BY <1>1, <1>4 DEF Renumbered

LEMMA ReconnectDoes ==
  ASSUME Typed, Reconnect
  PROVE  /\ pc.at = "reconnect" /\ pop'.open = pop.open /\ pop'.status = "CONNECTED"
         /\ UNCHANGED <<option, drop, arrived, cache, bcache, spool, ghosts>>
         /\ LinkBegins /\ Leads(pc.op, Resume) /\ Rest
         /\ Renumbered(drop, Cardinality(drop))
  BY StatusDoes, SessionDoes, GotoDoes, VerifiedDoes DEF Reconnect, Opens

LEMMA ReconnectFailsDoes ==
  ASSUME Typed, ReconnectFails
  PROVE  /\ pc.at = "reconnect" /\ pop'.open = pop.open /\ pop'.status = "DISCONNECTED"
         /\ UNCHANGED <<option, drop, arrived, cache, bcache, spool, ghosts>>
         /\ LinkEnds
         /\ UNCHANGED hdrs \/ \E k \in 0 .. Cardinality(drop) : Renumbered(drop, k)
         /\ UNCHANGED pc \/ (FailLeads /\ Fresh)
<1>1. UNCHANGED hdrs \/ \E k \in 0 .. Cardinality(drop) : hdrs' = Verified(k)
  BY DEF ReconnectFails
<1>2. UNCHANGED hdrs \/ \E k \in 0 .. Cardinality(drop) : Renumbered(drop, k)
  BY <1>1, VerifiedDoes
<1>3. UNCHANGED pc \/ (FailLeads /\ Fresh)
  <2>1. UNCHANGED pc \/ Fail
    BY DEF ReconnectFails
  <2>2. Fail => FailLeads /\ Fresh
    BY FailDoes
  <2> QED BY <2>1, <2>2
<1>4. /\ pc.at = "reconnect" /\ LinkEnds
      /\ UNCHANGED <<option, drop, arrived, cache, bcache, spool, ghosts>>
  BY SessionDoes DEF ReconnectFails
<1>5. pop'.open = pop.open /\ pop'.status = "DISCONNECTED"
  BY StatusDoes DEF ReconnectFails
<1> QED BY <1>2, <1>3, <1>4, <1>5

\* What a listing of k lines makes of the headers mutt has.
Relisted(k) ==
  \A u \in Known :
    /\ hdrs'[u].refno = Line(server.box, u, k)
    /\ hdrs'[u].index
         = IF Line(server.box, u, k) = -1 THEN hdrs[u].index ELSE Line(server.box, u, k) - 1

\* The cache is emptied when a message has moved.
CacheFollows(k) ==
  \/ cache' = EmptyCache
  \/ /\ cache' = cache
     /\ pc.op = "check" => \A u \in Known : ListedHeader(u, k).index = hdrs[u].index

LEMMA ClearedDoes ==
  ASSUME Typed, NEW k, cache' = Cleared(Listed(k))
  PROVE  CacheFollows(k)
<1>1. \A u \in Known : Listed(k)[u] = ListedHeader(u, k)
  BY ListedIs
<1>2. CASE cache' = EmptyCache
  BY <1>2 DEF CacheFollows
<1>3. CASE cache' = cache /\ ~(pc.op = "check" /\ \E u \in Known : Listed(k)[u].index # hdrs[u].index)
  BY <1>1, <1>3 DEF CacheFollows
<1> QED BY <1>2, <1>3 DEF Cleared

LEMMA LosesLinkDoes ==
  ASSUME Typed, LosesLink
  PROVE  /\ LinkEnds /\ pop'.open = pop.open /\ pop'.status = "DISCONNECTED"
         /\ IF pc.op = "open" THEN Leads("open", "reconnect") /\ Rest ELSE Leads("none", "idle") /\ Fresh
  BY StatusDoes, SessionDoes, GotoDoes DEF LosesLink, Finish, Idle, Leads, Fresh

LEMMA ListingFailsDoes ==
  ASSUME Typed, ListingFails
  PROVE  /\ pc.at = "headers" /\ pop'.open = pop.open
         /\ UNCHANGED <<option, drop, arrived, bcache, spool, ghosts>>
         /\ Known' = Known
         /\ \A u \in Known : hdrs'[u].deleted = hdrs[u].deleted
         /\ \/ pc.op = "open" /\ Leads("close", "logout") /\ Fresh
               /\ UNCHANGED <<server, pop, cache>> /\ Relisted(0)
            \/ /\ LinkEnds /\ pop'.status = "DISCONNECTED"
               /\ IF pc.op = "open" THEN Leads("open", "reconnect") /\ Rest
                  ELSE Leads("none", "idle") /\ Fresh
               /\ \E k \in 0 .. Cardinality(server.box) : Relisted(k) /\ CacheFollows(k)
<1>1. pc.at = "headers" /\ UNCHANGED <<option, drop, arrived, bcache, spool, ghosts>>
  BY DEF ListingFails
<1>2. ASSUME NEW k, hdrs' = Listed(k)
      PROVE  Known' = Known /\ Relisted(k) /\ \A u \in Known : hdrs'[u].deleted = hdrs[u].deleted
  <2>1. Known' = Known /\ \A u \in Known : hdrs'[u] = ListedHeader(u, k)
    BY <1>2, ListedIs DEF Known
  <2> QED BY <2>1, ListedHeaderType DEF Relisted, Typed
<1>3. CASE pc.op = "open" /\ hdrs' = Listed(0) /\ Fail /\ UNCHANGED <<server, pop, cache>>
  BY <1>1, <1>2, <1>3, FailDoes DEF FailLeads
<1>4. CASE /\ LosesLink
           /\ \E k \in 0 .. Cardinality(server.box) : hdrs' = Listed(k) /\ cache' = Cleared(Listed(k))
  <2>1. PICK k \in 0 .. Cardinality(server.box) : hdrs' = Listed(k) /\ cache' = Cleared(Listed(k))
    BY <1>4
  <2>2. Relisted(k) /\ CacheFollows(k) /\ Known' = Known /\ \A u \in Known : hdrs'[u].deleted = hdrs[u].deleted
    BY <1>2, <2>1, ClearedDoes
  <2> QED BY <1>1, <1>4, <2>2, LosesLinkDoes
<1> QED BY <1>3, <1>4 DEF ListingFails

LEMMA FetchHeadersDoes ==
  ASSUME Typed, FetchHeaders
  PROVE  /\ pc.at = "headers" /\ Answering /\ pop'.open = pop.open
         /\ UNCHANGED <<option, drop, arrived, spool, ghosts>>
         /\ Known \in SUBSET Known' /\ Known' \in SUBSET (Known \cup server.box)
         /\ Relisted(Cardinality(server.box)) /\ CacheFollows(Cardinality(server.box))
         /\ \A u \in Known : hdrs'[u].deleted = (hdrs[u].deleted \/ hdrs'[u].refno = -1)
         /\ \A u \in Known' \ Known :
              /\ hdrs'[u].refno = Number(server.box, u) /\ hdrs'[u].index = Number(server.box, u) - 1
              /\ ~hdrs'[u].deleted
         /\ DOMAIN bcache' \in SUBSET DOMAIN bcache /\ \A u \in DOMAIN bcache' : bcache'[u] = bcache[u]
         /\ \/ LinkEnds /\ pop'.status = "DISCONNECTED"
               /\ IF pc.op = "open" THEN Leads("open", "reconnect") /\ Rest
                  ELSE Leads("none", "idle") /\ Fresh
            \/ UNCHANGED <<server, pop>> /\ (Leads("none", "idle") \/ FailLeads) /\ Fresh
<1> DEFINE listed == Listed(Cardinality(server.box))
           header(u, read) == IF u \in read THEN NewHeader(Number(server.box, u))
                              ELSE [listed[u] EXCEPT !.deleted = @ \/ listed[u].refno = -1]
           clean(read) == [u \in DOMAIN bcache \cap (Known \cup read) |-> bcache[u]]
<1>1. PICK read \in SUBSET New :
        /\ hdrs' = [u \in Known \cup read |-> header(u, read)]
        /\ cache' = Cleared(listed)
        /\ bcache' \in {bcache, clean(read)}
        /\ Finish \/ Fail \/ LosesLink
        /\ LosesLink \/ UNCHANGED <<server, pop>>
  BY DEF FetchHeaders
<1>2. pc.at = "headers" /\ Answering /\ UNCHANGED <<option, drop, arrived, spool, ghosts>>
  BY DEF FetchHeaders
<1>3. Known' = Known \cup read /\ read \in SUBSET (server.box \ Known)
  BY <1>1 DEF Known, New
<1>4. \A u \in Known : hdrs'[u] = [ListedHeader(u, Cardinality(server.box)) EXCEPT
                                     !.deleted = @ \/ ListedHeader(u, Cardinality(server.box)).refno = -1]
  <2>1. \A u \in Known : listed[u] = ListedHeader(u, Cardinality(server.box))
    BY ListedIs
  <2>2. \A u \in Known : u \in Known \cup read /\ u \notin read
    BY <1>3
  <2> HIDE DEF listed
  <2>3. ASSUME NEW u \in Known
        PROVE  hdrs'[u] = [listed[u] EXCEPT !.deleted = @ \/ listed[u].refno = -1]
    BY <1>1, <2>2
  <2> QED BY <2>1, <2>3
<1>5. ASSUME NEW h \in Header, NEW d
      PROVE  LET g == [h EXCEPT !.deleted = d]
             IN g.refno = h.refno /\ g.index = h.index /\ g.deleted = d
  BY DEF Header
<1>6. \A u \in Known : /\ hdrs'[u].refno = ListedHeader(u, Cardinality(server.box)).refno
                       /\ hdrs'[u].index = ListedHeader(u, Cardinality(server.box)).index
                       /\ hdrs'[u].deleted = (ListedHeader(u, Cardinality(server.box)).deleted
                                \/ ListedHeader(u, Cardinality(server.box)).refno = -1)
  <2> SUFFICES ASSUME NEW u \in Known
               PROVE  LET h == ListedHeader(u, Cardinality(server.box))
                      IN /\ hdrs'[u].refno = h.refno /\ hdrs'[u].index = h.index
                         /\ hdrs'[u].deleted = (h.deleted \/ h.refno = -1)
    OBVIOUS
  <2> DEFINE h == ListedHeader(u, Cardinality(server.box))
             d == h.deleted \/ h.refno = -1
  <2>1. h \in Header
    BY ListedHeaderType DEF Typed
  <2>2. hdrs'[u] = [h EXCEPT !.deleted = d]
    BY <1>4
  <2> HIDE DEF h, d
  <2>3. hdrs'[u].refno = h.refno /\ hdrs'[u].index = h.index /\ hdrs'[u].deleted = d
    BY <1>5, <2>1, <2>2
  <2> QED BY <2>3 DEF h, d
<1>7. /\ Relisted(Cardinality(server.box))
      /\ \A u \in Known : hdrs'[u].deleted = (hdrs[u].deleted \/ hdrs'[u].refno = -1)
  BY <1>6, ListedHeaderType DEF Typed, Relisted
<1>8. \A u \in Known' \ Known :
        /\ hdrs'[u].refno = Number(server.box, u) /\ hdrs'[u].index = Number(server.box, u) - 1
        /\ ~hdrs'[u].deleted
  <2>1. ASSUME NEW u \in Known' \ Known PROVE hdrs'[u] = NewHeader(Number(server.box, u))
    <3>1. u \in read /\ u \in Known \cup read
      BY <1>3
    <3>2. hdrs'[u] = header(u, read)
      BY <1>1, <3>1
    <3> QED BY <3>1, <3>2
  <2>2. ASSUME NEW n PROVE NewHeader(n).refno = n /\ NewHeader(n).index = n - 1 /\ NewHeader(n).deleted = FALSE
    BY DEF NewHeader
  <2> QED BY <2>1, <2>2
<1>9. CacheFollows(Cardinality(server.box))
  BY <1>1, ClearedDoes
<1>10. DOMAIN bcache' \in SUBSET DOMAIN bcache /\ \A u \in DOMAIN bcache' : bcache'[u] = bcache[u]
  BY <1>1
<1>11. \/ LinkEnds /\ pop'.open = pop.open /\ pop'.status = "DISCONNECTED"
          /\ IF pc.op = "open" THEN Leads("open", "reconnect") /\ Rest
             ELSE Leads("none", "idle") /\ Fresh
       \/ UNCHANGED <<server, pop>> /\ (Leads("none", "idle") \/ FailLeads) /\ Fresh
  <2>1. Finish => Leads("none", "idle") /\ Fresh
    BY DEF Finish, Idle, Leads, Fresh
  <2> QED BY <1>1, <2>1, LosesLinkDoes, FailDoes
<1> QED BY <1>2, <1>3, <1>7, <1>8, <1>9, <1>10, <1>11

LEMMA FetchMessageDoes ==
  ASSUME Typed, FetchMessage
  PROVE  /\ pc.op = "none" /\ pop.open /\ pc'.done = {} /\ pc'.i \in Known
         /\ UNCHANGED <<option, drop, arrived, server, pop, hdrs, bcache, spool, ghosts>>
         /\ \/ Leads("none", "idle") /\ UNCHANGED cache
               /\ pc'.i \in DOMAIN bcache /\ pc'.shown = {bcache[pc'.i]}
            \/ Leads("none", "idle") /\ UNCHANGED cache
               /\ LET slot == cache[SlotOf(hdrs[pc'.i])]
                  IN slot.body # NoBody /\ slot.index = hdrs[pc'.i].index /\ pc'.shown = {slot.body}
            \/ /\ Leads("fetch", "reconnect") /\ pc'.shown = {}
               /\ \/ UNCHANGED cache
                  \/ cache' = [cache EXCEPT ![SlotOf(hdrs[pc'.i])] = EmptyCache[SlotOf(hdrs[pc'.i])]]
<1>1. pc.op = "none" /\ pop.open
      /\ UNCHANGED <<option, drop, arrived, server, pop, hdrs, bcache, spool, ghosts>>
  BY DEF FetchMessage, Ready
<1>2. PICK u \in Known, headers \in BOOLEAN :
        \/ u \in DOMAIN bcache /\ Show(u, bcache[u]) /\ UNCHANGED cache
        \/ /\ Cached(cache[SlotOf(hdrs[u])], hdrs[u])
           /\ Show(u, cache[SlotOf(hdrs[u])].body) /\ UNCHANGED cache
        \/ /\ pc' = [Idle EXCEPT !.op = "fetch", !.at = "reconnect", !.i = u, !.headers = headers]
           /\ cache' = IF headers THEN cache
                       ELSE [cache EXCEPT ![SlotOf(hdrs[u])] = EmptyCache[SlotOf(hdrs[u])]]
  BY DEF FetchMessage
<1>3. ASSUME NEW v, NEW body, Show(v, body)
      PROVE  Leads("none", "idle") /\ pc'.i = v /\ pc'.done = {} /\ pc'.shown = {body}
  BY <1>3 DEF Show, Idle, Leads
<1>4. CASE u \in DOMAIN bcache /\ Show(u, bcache[u]) /\ UNCHANGED cache
  BY <1>1, <1>3, <1>4
<1>5. CASE /\ Cached(cache[SlotOf(hdrs[u])], hdrs[u])
           /\ Show(u, cache[SlotOf(hdrs[u])].body) /\ UNCHANGED cache
  BY <1>1, <1>3, <1>5 DEF Cached
<1>6. CASE /\ pc' = [Idle EXCEPT !.op = "fetch", !.at = "reconnect", !.i = u, !.headers = headers]
           /\ cache' = IF headers THEN cache
                       ELSE [cache EXCEPT ![SlotOf(hdrs[u])] = EmptyCache[SlotOf(hdrs[u])]]
  <2>1. Leads("fetch", "reconnect") /\ pc'.shown = {} /\ pc'.done = {} /\ pc'.i = u
    BY <1>6 DEF Idle, Leads
  <2> QED BY <1>1, <1>6, <2>1
<1> QED BY <1>2, <1>4, <1>5, <1>6

LEMMA RetrieveDoes ==
  ASSUME Typed, Control, Status, Agreed, Retrieve
  PROVE  /\ At("fetch", "retr") /\ pc.i \in Known /\ pc.i \in server.box
         /\ Leads("none", "idle") /\ pc'.i = pc.i /\ pc'.done = {} /\ pc'.shown = {pc.i}
         /\ UNCHANGED <<option, drop, arrived, server, pop, hdrs, spool, ghosts>>
         /\ \/ UNCHANGED cache
            \/ /\ ~On("message_cachedir") \/ StaleCache
               /\ cache' = [cache EXCEPT ![SlotOf(hdrs[pc.i])] = [index |-> hdrs[pc.i].index, body |-> pc.i]]
         /\ \/ UNCHANGED bcache
            \/ bcache' = [u \in DOMAIN bcache \cup {pc.i} |-> IF u = pc.i THEN pc.i ELSE bcache[u]]
<1>1. pc.i \in Known /\ pc.i \in server.box /\ Message(server.box, hdrs[pc.i].refno) = pc.i
  BY RetrievesIt DEF Retrieve
<1>2. Show(pc.i, pc.i)
  BY <1>1 DEF Retrieve
<1>3. Leads("none", "idle") /\ pc'.i = pc.i /\ pc'.done = {} /\ pc'.shown = {pc.i}
  BY <1>2 DEF Show, Idle, Leads
<1> QED BY <1>1, <1>3 DEF Retrieve

LEMMA SyncDeleDoes ==
  ASSUME Typed, SyncDele
  PROVE  /\ At("sync", "dele") /\ Answering
         /\ UNCHANGED <<option, drop, arrived, pop, hdrs, cache, spool, ghosts>>
         /\ Leads("sync", "dele") /\ pc'.i = pc.i /\ pc'.shown = pc.shown
         /\ server'.state = server.state /\ server'.box = server.box
         /\ \E u \in Known :
              /\ hdrs[u].deleted /\ hdrs[u].refno # -1
              /\ pc'.done = pc.done \cup {u} /\ server'.dele = server.dele \cup {hdrs[u].refno}
         /\ DOMAIN bcache' \in SUBSET DOMAIN bcache /\ \A u \in DOMAIN bcache' : bcache'[u] = bcache[u]
<1>1. PICK u \in ToDelete :
        /\ server' = [server EXCEPT !.dele = @ \cup {hdrs[u].refno}]
        /\ bcache' = [v \in DOMAIN bcache \ {u} |-> bcache[v]]
        /\ pc' = [pc EXCEPT !.done = @ \cup {u}]
  BY DEF SyncDele
<1>2. At("sync", "dele") /\ Answering /\ UNCHANGED <<option, drop, arrived, pop, hdrs, cache, spool, ghosts>>
  BY DEF SyncDele
<1>3. /\ pc'.op = pc.op /\ pc'.at = pc.at /\ pc'.i = pc.i /\ pc'.shown = pc.shown
      /\ pc'.done = pc.done \cup {u}
  BY <1>1 DEF Typed, PlaceOK, Place
<1>4. /\ server'.state = server.state /\ server'.box = server.box
      /\ server'.dele = server.dele \cup {hdrs[u].refno}
  BY <1>1 DEF Typed, ServerOK
<1>5. u \in Known /\ hdrs[u].deleted /\ hdrs[u].refno # -1
  BY <1>1 DEF ToDelete
<1>6. DOMAIN bcache' \in SUBSET DOMAIN bcache /\ \A v \in DOMAIN bcache' : bcache'[v] = bcache[v]
  BY <1>1
<1> QED BY <1>2, <1>3, <1>4, <1>5, <1>6 DEF At, Leads

LEMMA GoOnDoes ==
  ASSUME Typed, GoOn
  PROVE  /\ pc'.op = pc.op /\ pc'.done = pc.done /\ pc'.shown = pc.shown
         /\ \/ pc'.at = "quit"
            \/ pc.i # Cardinality(server.box) /\ pc'.at = "retr" /\ pc'.i = pc.i + 1
<1>1. CASE pc.i = Cardinality(server.box)
  BY <1>1, GotoDoes DEF GoOn, Leads, Rest
<1>2. CASE pc.i # Cardinality(server.box)
  BY <1>2 DEF GoOn, Typed, PlaceOK, Place
<1> QED BY <1>1, <1>2

LEMMA GetMessageDoes ==
  ASSUME Typed, GetMessage
  PROVE  /\ At("getmail", "retr") /\ Answering
         /\ UNCHANGED <<option, drop, arrived, server, pop, hdrs, cache, bcache, ghosts>>
         /\ spool' = spool \cup {Message(server.box, pc.i)}
         /\ pc'.op = pc.op /\ pc'.done = pc.done /\ pc'.shown = pc.shown
         /\ \/ pc'.at = "quit"
            \/ pc'.at = "dele" /\ pc'.i = pc.i
            \/ pc.i # Cardinality(server.box) /\ pc'.at = "retr" /\ pc'.i = pc.i + 1
<1>1. Goto("dele") \/ GoOn
  BY DEF GetMessage
<1>2. /\ pc'.op = pc.op /\ pc'.done = pc.done /\ pc'.shown = pc.shown
      /\ \/ pc'.at = "quit"
         \/ pc'.at = "dele" /\ pc'.i = pc.i
         \/ pc.i # Cardinality(server.box) /\ pc'.at = "retr" /\ pc'.i = pc.i + 1
  BY <1>1, GotoDoes, GoOnDoes DEF Leads, Rest
<1> QED BY <1>2 DEF GetMessage

LEMMA GetDeleDoes ==
  ASSUME Typed, GetDele
  PROVE  /\ At("getmail", "dele") /\ Answering
         /\ UNCHANGED <<option, drop, arrived, pop, hdrs, cache, bcache, spool, ghosts>>
         /\ server'.state = server.state /\ server'.box = server.box
         /\ server'.dele \in {server.dele, server.dele \cup {pc.i}}
         /\ pc'.op = pc.op /\ pc'.done = pc.done /\ pc'.shown = pc.shown
         /\ \/ pc'.at = "quit"
            \/ pc.i # Cardinality(server.box) /\ pc'.at = "retr" /\ pc'.i = pc.i + 1
<1>1. /\ At("getmail", "dele") /\ Answering
      /\ UNCHANGED <<option, drop, arrived, pop, hdrs, cache, bcache, spool, ghosts>>
  BY DEF GetDele
<1>2. CASE server' = [server EXCEPT !.dele = @ \cup {pc.i}] /\ GoOn
  <2>1. /\ server'.state = server.state /\ server'.box = server.box
        /\ server'.dele = server.dele \cup {pc.i}
    BY <1>2 DEF Typed, ServerOK
  <2> QED BY <1>1, <1>2, <2>1, GoOnDoes
<1>3. CASE UNCHANGED server /\ Goto("quit")
  <2>1. pc'.op = pc.op /\ pc'.done = pc.done /\ pc'.shown = pc.shown /\ pc'.at = "quit"
    BY <1>3, GotoDoes DEF Leads, Rest
  <2> QED BY <1>1, <1>3, <2>1
<1> QED BY <1>2, <1>3 DEF GetDele

LEMMA DeleteDoes ==
  ASSUME Typed, Delete
  PROVE  /\ Ready /\ Known' = Known
         /\ UNCHANGED <<option, drop, arrived, server, pop, cache, bcache, spool, asked, taken, pc>>
         /\ \E u \in Known :
              /\ marked' = IF hdrs[u].deleted THEN marked \ {u} ELSE marked \cup {u}
              /\ hdrs'[u].deleted = ~hdrs[u].deleted
              /\ \A v \in Known \ {u} : hdrs'[v] = hdrs[v]
         /\ \A u \in Known : hdrs'[u].refno = hdrs[u].refno /\ hdrs'[u].index = hdrs[u].index
<1>1. /\ Ready
      /\ UNCHANGED <<option, drop, arrived, server, pop, cache, bcache, spool, asked, taken, pc>>
  BY DEF Delete
<1>2. PICK u \in Known :
        /\ hdrs' = [hdrs EXCEPT ![u].deleted = ~@]
        /\ marked' = IF hdrs[u].deleted THEN marked \ {u} ELSE marked \cup {u}
  BY DEF Delete
<1>3. Known' = Known /\ \A v \in Known \ {u} : hdrs'[v] = hdrs[v]
  BY <1>2 DEF Known
<1>4. hdrs[u] \in Header /\ hdrs'[u] = [hdrs[u] EXCEPT !.deleted = ~hdrs[u].deleted]
  BY <1>2 DEF Typed, HeadersOK, Known
<1>5. /\ hdrs'[u].refno = hdrs[u].refno /\ hdrs'[u].index = hdrs[u].index
      /\ hdrs'[u].deleted = ~hdrs[u].deleted
  BY <1>4 DEF Header
<1> QED BY <1>1, <1>2, <1>3, <1>5
LEMMA ControlStays ==
  ASSUME Typed, Control, Status, Agreed, Next
  PROVE  Control'
<1> USE DEF Control, At, Ready, Goto, Begin, Finish, Idle, Show, NoData, NoSession, Login, Session, Typed, PlaceOK, Place, PopOK, ServerOK
<1>0. Cardinality(server.box) \in Nat
  BY BoxUids, Finite, BoundsAssumption
<1>1. CASE Mailbox
  <2>1. CASE OpenMailbox
    BY <2>1 DEF OpenMailbox, Known, Answering, OpenFails, Opens, Fail, LosesLink, Resume, Lost, GoOn
  <2>2. CASE CheckMailbox
    BY <2>2 DEF CheckMailbox, Known, Answering, OpenFails, Opens, Fail, LosesLink, Resume, Lost, GoOn
  <2>3. CASE CloseMailbox
    BY <2>3 DEF CloseMailbox, Known, Answering, OpenFails, Opens, Fail, LosesLink, Resume, Lost, GoOn
  <2>4. CASE Connect
    BY <2>4, ConnectDoes DEF Known, Answering, LinkBegins, FailLeads, Rest, Leads
  <2>5. CASE Reconnected
    BY <2>5 DEF Reconnected, Known, Answering, OpenFails, Opens, Fail, LosesLink, Resume, Lost, GoOn
  <2>6. CASE Reconnect
    BY <2>6, ReconnectDoes DEF Known, Answering, LinkBegins, Rest, Leads, Resume, Renumbered
  <2>7. CASE ReconnectFails
    BY <2>7, ReconnectFailsDoes DEF Known, Answering, LinkEnds, FailLeads, Leads, Renumbered
  <2>8. CASE Logout
    BY <2>8 DEF Logout, Known, Answering, OpenFails, Opens, Fail, LosesLink, Resume, Lost, GoOn
  <2>9. CASE ListingFails
    BY <2>9, ListingFailsDoes DEF Known, Answering, LinkEnds, Rest, Leads
  <2>10. CASE FetchHeaders
    BY <2>10, FetchHeadersDoes DEF Known, Answering, LinkEnds, FailLeads, Rest, Leads
  <2> QED BY <1>1, <2>1, <2>2, <2>3, <2>4, <2>5, <2>6, <2>7, <2>8, <2>9, <2>10 DEF Mailbox
<1>2. CASE Reading
  <2>1. CASE FetchMessage
    BY <2>1, FetchMessageDoes DEF Known, Answering, Leads
  <2>2. CASE Retrieve
    BY <2>2, RetrieveDoes DEF Known, Answering, Leads
  <2>3. CASE RetrieveFails
    BY <2>3 DEF RetrieveFails, Known, Answering, OpenFails, Opens, Fail, LosesLink, Resume, Lost, GoOn
  <2>4. CASE RetrieveLost
    BY <2>4 DEF RetrieveLost, Known, Answering, OpenFails, Opens, Fail, LosesLink, Resume, Lost, GoOn
  <2> QED BY <1>2, <2>1, <2>2, <2>3, <2>4 DEF Reading
<1>3. CASE Syncing
  <2>1. CASE Delete
    BY <2>1 DEF Delete, Known, Answering, OpenFails, Opens, Fail, LosesLink, Resume, Lost, GoOn
  <2>2. CASE Sync
    BY <2>2 DEF Sync, Known, Answering, OpenFails, Opens, Fail, LosesLink, Resume, Lost, GoOn
  <2>3. CASE SyncDele
    BY <2>3, SyncDeleDoes DEF Known, Answering, Leads
  <2>4. CASE SyncRefused
    BY <2>4 DEF SyncRefused, Known, Answering, OpenFails, Opens, Fail, LosesLink, Resume, Lost, GoOn
  <2>5. CASE SyncLost
    BY <2>5 DEF SyncLost, Known, Answering, OpenFails, Opens, Fail, LosesLink, Resume, Lost, GoOn
  <2>6. CASE SyncQuit
    BY <2>6 DEF SyncQuit, Known, Answering, OpenFails, Opens, Fail, LosesLink, Resume, Lost, GoOn
  <2>7. CASE SyncQuitLost
    BY <2>7 DEF SyncQuitLost, Known, Answering, OpenFails, Opens, Fail, LosesLink, Resume, Lost, GoOn
  <2>8. CASE SyncQuitRefused
    BY <2>8 DEF SyncQuitRefused, Known, Answering, OpenFails, Opens, Fail, LosesLink, Resume, Lost, GoOn
  <2> QED BY <1>3, <2>1, <2>2, <2>3, <2>4, <2>5, <2>6, <2>7, <2>8 DEF Syncing
<1>4. CASE GetMail
  <2>1. CASE FetchMail
    BY <2>1 DEF FetchMail, Known, Answering, OpenFails, Opens, Fail, LosesLink, Resume, Lost, GoOn
  <2>2. CASE Stat
    BY <2>2 DEF Stat, Known, Answering, OpenFails, Opens, Fail, LosesLink, Resume, Lost, GoOn
  <2>3. CASE GetMessage
    BY <2>3, GetMessageDoes, <1>0 DEF Known, Answering
  <2>4. CASE GetFails
    BY <2>4 DEF GetFails, Known, Answering, OpenFails, Opens, Fail, LosesLink, Resume, Lost, GoOn
  <2>5. CASE GetDele
    BY <2>5, GetDeleDoes, <1>0 DEF Known, Answering
  <2>6. CASE GetRset
    BY <2>6 DEF GetRset, Known, Answering, OpenFails, Opens, Fail, LosesLink, Resume, Lost, GoOn
  <2>7. CASE GetQuit
    BY <2>7 DEF GetQuit, Known, Answering, OpenFails, Opens, Fail, LosesLink, Resume, Lost, GoOn
  <2>8. CASE GetLost
    BY <2>8 DEF GetLost, Known, Answering, OpenFails, Opens, Fail, LosesLink, Resume, Lost, GoOn
  <2> QED BY <1>4, <2>1, <2>2, <2>3, <2>4, <2>5, <2>6, <2>7, <2>8 DEF GetMail
<1>5. CASE Outside
  <2>1. CASE Arrive
    BY <2>1 DEF Arrive, Known, Answering, OpenFails, Opens, Fail, LosesLink, Resume, Lost, GoOn
  <2>2. CASE TakenElsewhere
    BY <2>2 DEF TakenElsewhere, Known, Answering, OpenFails, Opens, Fail, LosesLink, Resume, Lost, GoOn
  <2>3. CASE LoseLink
    BY <2>3 DEF LoseLink, Known, Answering, OpenFails, Opens, Fail, LosesLink, Resume, Lost, GoOn
  <2> QED BY <1>5, <2>1, <2>2, <2>3 DEF Outside
<1> QED BY <1>1, <1>2, <1>3, <1>4, <1>5 DEF Next

LEMMA ClosedStays ==
  ASSUME Typed, Control, Status, Agreed, Closed, Next
  PROVE  Closed'
<1> USE DEF Closed, Control, At, Ready, Goto, Begin, Finish, Idle, Show, NoData, NoSession, Login, Session, Typed, PlaceOK, Place, PopOK, ServerOK
<1>1. CASE Mailbox
  <2>1. CASE OpenMailbox
    BY <2>1 DEF OpenMailbox, Known, Answering, ghosts
  <2>2. CASE CheckMailbox
    BY <2>2 DEF CheckMailbox, Known, Answering, ghosts
  <2>3. CASE CloseMailbox
    BY <2>3 DEF CloseMailbox, Known, Answering, ghosts
  <2>4. CASE Connect
    BY <2>4, ConnectDoes DEF Known, Answering, ghosts, LinkBegins, FailLeads, Rest, Fresh, Leads
  <2>5. CASE Reconnected
    BY <2>5 DEF Reconnected, Known, Answering, ghosts, Resume
  <2>6. CASE Reconnect
    BY <2>6, ReconnectDoes DEF Known, Answering, ghosts, LinkBegins, Rest, Leads, Resume, Renumbered
  <2>7. CASE ReconnectFails
    BY <2>7, ReconnectFailsDoes DEF Known, Answering, ghosts, LinkEnds, FailLeads, Leads, Rest, Fresh, Renumbered
  <2>8. CASE Logout
    BY <2>8 DEF Logout, Known, Answering, ghosts
  <2>9. CASE ListingFails
    BY <2>9, ListingFailsDoes DEF Known, Answering, ghosts, LinkEnds, Rest, Fresh, Leads
  <2>10. CASE FetchHeaders
    BY <2>10, FetchHeadersDoes DEF Known, Answering, ghosts, LinkEnds, FailLeads, Rest, Fresh, Leads
  <2> QED BY <1>1, <2>1, <2>2, <2>3, <2>4, <2>5, <2>6, <2>7, <2>8, <2>9, <2>10 DEF Mailbox
<1>2. CASE Reading
  <2>1. CASE FetchMessage
    BY <2>1, FetchMessageDoes DEF Known, Answering, ghosts, Leads
  <2>2. CASE Retrieve
    BY <2>2, RetrieveDoes DEF Known, Answering, ghosts, Leads
  <2>3. CASE RetrieveFails
    BY <2>3 DEF RetrieveFails, Known, Answering, ghosts
  <2>4. CASE RetrieveLost
    BY <2>4 DEF RetrieveLost, Known, Answering, ghosts, Lost
  <2> QED BY <1>2, <2>1, <2>2, <2>3, <2>4 DEF Reading
<1>3. CASE Syncing
  <2>1. CASE Delete
    BY <2>1 DEF Delete, Known, Answering, ghosts
  <2>2. CASE Sync
    BY <2>2 DEF Sync, Known, Answering, ghosts
  <2>3. CASE SyncDele
    BY <2>3, SyncDeleDoes DEF Known, Answering, ghosts, Leads
  <2>4. CASE SyncRefused
    BY <2>4 DEF SyncRefused, Known, Answering, ghosts
  <2>5. CASE SyncLost
    BY <2>5 DEF SyncLost, Known, Answering, ghosts, Lost
  <2>6. CASE SyncQuit
    BY <2>6 DEF SyncQuit, Known, Answering, ghosts
  <2>7. CASE SyncQuitLost
    BY <2>7 DEF SyncQuitLost, Known, Answering, ghosts
  <2>8. CASE SyncQuitRefused
    BY <2>8 DEF SyncQuitRefused, Known, Answering, ghosts
  <2> QED BY <1>3, <2>1, <2>2, <2>3, <2>4, <2>5, <2>6, <2>7, <2>8 DEF Syncing
<1>4. CASE GetMail
  <2>1. CASE FetchMail
    BY <2>1 DEF FetchMail, Known, Answering, ghosts
  <2>2. CASE Stat
    BY <2>2 DEF Stat, Known, Answering, ghosts
  <2>3. CASE GetMessage
    BY <2>3, GetMessageDoes DEF Known, Answering, ghosts
  <2>4. CASE GetFails
    BY <2>4 DEF GetFails, Known, Answering, ghosts
  <2>5. CASE GetDele
    BY <2>5, GetDeleDoes DEF Known, Answering, ghosts
  <2>6. CASE GetRset
    BY <2>6 DEF GetRset, Known, Answering, ghosts
  <2>7. CASE GetQuit
    BY <2>7 DEF GetQuit, Known, Answering, ghosts
  <2>8. CASE GetLost
    BY <2>8 DEF GetLost, Known, Answering, ghosts
  <2> QED BY <1>4, <2>1, <2>2, <2>3, <2>4, <2>5, <2>6, <2>7, <2>8 DEF GetMail
<1>5. CASE Outside
  <2>1. CASE Arrive
    BY <2>1 DEF Arrive, Known, Answering, ghosts
  <2>2. CASE TakenElsewhere
    BY <2>2 DEF TakenElsewhere, Known, Answering, ghosts
  <2>3. CASE LoseLink
    BY <2>3 DEF LoseLink, Known, Answering, ghosts
  <2> QED BY <1>5, <2>1, <2>2, <2>3 DEF Outside
<1> QED BY <1>1, <1>2, <1>3, <1>4, <1>5 DEF Next

LEMMA StatusStays ==
  ASSUME Typed, Control, Status, Agreed, Next
  PROVE  Status'
<1> USE DEF Status, Control, At, Ready, Goto, Begin, Finish, Idle, Show, NoData, NoSession, Login, Session, Typed, PlaceOK, Place, PopOK, ServerOK
<1>1. CASE Mailbox
  <2>1. CASE OpenMailbox
    BY <2>1 DEF OpenMailbox, Known, Answering, ghosts
  <2>2. CASE CheckMailbox
    BY <2>2 DEF CheckMailbox, Known, Answering, ghosts
  <2>3. CASE CloseMailbox
    BY <2>3 DEF CloseMailbox, Known, Answering, ghosts
  <2>4. CASE Connect
    BY <2>4, ConnectDoes DEF Known, Answering, ghosts, LinkBegins, FailLeads, Rest, Fresh, Leads
  <2>5. CASE Reconnected
    BY <2>5 DEF Reconnected, Known, Answering, ghosts, Resume
  <2>6. CASE Reconnect
    BY <2>6, ReconnectDoes DEF Known, Answering, ghosts, LinkBegins, Rest, Leads, Resume, Renumbered
  <2>7. CASE ReconnectFails
    BY <2>7, ReconnectFailsDoes DEF Known, Answering, ghosts, LinkEnds, FailLeads, Leads, Rest, Fresh, Renumbered
  <2>8. CASE Logout
    BY <2>8 DEF Logout, Known, Answering, ghosts
  <2>9. CASE ListingFails
    BY <2>9, ListingFailsDoes DEF Known, Answering, ghosts, LinkEnds, Rest, Fresh, Leads
  <2>10. CASE FetchHeaders
    BY <2>10, FetchHeadersDoes DEF Known, Answering, ghosts, LinkEnds, FailLeads, Rest, Fresh, Leads
  <2> QED BY <1>1, <2>1, <2>2, <2>3, <2>4, <2>5, <2>6, <2>7, <2>8, <2>9, <2>10 DEF Mailbox
<1>2. CASE Reading
  <2>1. CASE FetchMessage
    BY <2>1, FetchMessageDoes DEF Known, Answering, ghosts, Leads
  <2>2. CASE Retrieve
    BY <2>2, RetrieveDoes DEF Known, Answering, ghosts, Leads
  <2>3. CASE RetrieveFails
    BY <2>3 DEF RetrieveFails, Known, Answering, ghosts
  <2>4. CASE RetrieveLost
    BY <2>4 DEF RetrieveLost, Known, Answering, ghosts, Lost
  <2> QED BY <1>2, <2>1, <2>2, <2>3, <2>4 DEF Reading
<1>3. CASE Syncing
  <2>1. CASE Delete
    BY <2>1 DEF Delete, Known, Answering, ghosts
  <2>2. CASE Sync
    BY <2>2 DEF Sync, Known, Answering, ghosts
  <2>3. CASE SyncDele
    BY <2>3, SyncDeleDoes DEF Known, Answering, ghosts, Leads
  <2>4. CASE SyncRefused
    BY <2>4 DEF SyncRefused, Known, Answering, ghosts
  <2>5. CASE SyncLost
    BY <2>5 DEF SyncLost, Known, Answering, ghosts, Lost
  <2>6. CASE SyncQuit
    BY <2>6 DEF SyncQuit, Known, Answering, ghosts
  <2>7. CASE SyncQuitLost
    BY <2>7 DEF SyncQuitLost, Known, Answering, ghosts
  <2>8. CASE SyncQuitRefused
    BY <2>8 DEF SyncQuitRefused, Known, Answering, ghosts
  <2> QED BY <1>3, <2>1, <2>2, <2>3, <2>4, <2>5, <2>6, <2>7, <2>8 DEF Syncing
<1>4. CASE GetMail
  <2>1. CASE FetchMail
    BY <2>1 DEF FetchMail, Known, Answering, ghosts
  <2>2. CASE Stat
    BY <2>2 DEF Stat, Known, Answering, ghosts
  <2>3. CASE GetMessage
    BY <2>3, GetMessageDoes DEF Known, Answering, ghosts
  <2>4. CASE GetFails
    BY <2>4 DEF GetFails, Known, Answering, ghosts
  <2>5. CASE GetDele
    BY <2>5, GetDeleDoes DEF Known, Answering, ghosts
  <2>6. CASE GetRset
    BY <2>6 DEF GetRset, Known, Answering, ghosts
  <2>7. CASE GetQuit
    BY <2>7 DEF GetQuit, Known, Answering, ghosts
  <2>8. CASE GetLost
    BY <2>8 DEF GetLost, Known, Answering, ghosts
  <2> QED BY <1>4, <2>1, <2>2, <2>3, <2>4, <2>5, <2>6, <2>7, <2>8 DEF GetMail
<1>5. CASE Outside
  <2>1. CASE Arrive
    BY <2>1 DEF Arrive, Known, Answering, ghosts
  <2>2. CASE TakenElsewhere
    BY <2>2 DEF TakenElsewhere, Known, Answering, ghosts
  <2>3. CASE LoseLink
    BY <2>3 DEF LoseLink, Known, Answering, ghosts
  <2> QED BY <1>5, <2>1, <2>2, <2>3 DEF Outside
<1> QED BY <1>1, <1>2, <1>3, <1>4, <1>5 DEF Next

LEMMA LockedStays ==
  ASSUME Typed, Control, Status, Agreed, Locked, Next
  PROVE  Locked'
<1> USE DEF Locked, At, NoSession, Login, Session, ServerOK, Typed
<1>1. CASE Mailbox
  <2>1. CASE OpenMailbox
    BY <2>1 DEF OpenMailbox, Known, Answering, ghosts
  <2>2. CASE CheckMailbox
    BY <2>2 DEF CheckMailbox, Known, Answering, ghosts
  <2>3. CASE CloseMailbox
    BY <2>3 DEF CloseMailbox, Known, Answering, ghosts
  <2>4. CASE Connect
    <3>1. server'.box \in {drop, {}} /\ UNCHANGED <<drop, hdrs>>
      BY <2>4, ConnectDoes DEF LinkBegins
    <3> QED BY <2>4, <3>1, ConnectDoes DEF LinkBegins, Known, Answering
  <2>5. CASE Reconnected
    BY <2>5 DEF Reconnected, Known, Answering, ghosts, Resume
  <2>6. CASE Reconnect
    BY <2>6, ReconnectDoes DEF Known, Answering, ghosts, LinkBegins, Rest, Leads, Resume, Renumbered
  <2>7. CASE ReconnectFails
    BY <2>7, ReconnectFailsDoes DEF Known, Answering, ghosts, LinkEnds, FailLeads, Leads, Rest, Fresh, Renumbered
  <2>8. CASE Logout
    BY <2>8 DEF Logout, Known, Answering, ghosts
  <2>9. CASE ListingFails
    BY <2>9, ListingFailsDoes DEF Known, Answering, ghosts, LinkEnds, Rest, Fresh, Leads
  <2>10. CASE FetchHeaders
    BY <2>10, FetchHeadersDoes DEF Answering, LinkEnds
  <2> QED BY <1>1, <2>1, <2>2, <2>3, <2>4, <2>5, <2>6, <2>7, <2>8, <2>9, <2>10 DEF Mailbox
<1>2. CASE Reading
  <2>1. CASE FetchMessage
    BY <2>1, FetchMessageDoes DEF Known, Answering, ghosts, Leads
  <2>2. CASE Retrieve
    BY <2>2, RetrieveDoes DEF Known, Answering, ghosts, Leads
  <2>3. CASE RetrieveFails
    BY <2>3 DEF RetrieveFails, Known, Answering, ghosts
  <2>4. CASE RetrieveLost
    BY <2>4 DEF RetrieveLost, Known, Answering, ghosts, Lost
  <2> QED BY <1>2, <2>1, <2>2, <2>3, <2>4 DEF Reading
<1>3. CASE Syncing
  <2>1. CASE Delete
    BY <2>1 DEF Delete, Known, Answering, ghosts
  <2>2. CASE Sync
    BY <2>2 DEF Sync, Known, Answering, ghosts
  <2>3. CASE SyncDele
    BY <2>3, SyncDeleDoes DEF Known, Answering, ghosts, Leads
  <2>4. CASE SyncRefused
    BY <2>4 DEF SyncRefused, Known, Answering, ghosts
  <2>5. CASE SyncLost
    BY <2>5 DEF SyncLost, Known, Answering, ghosts, Lost
  <2>6. CASE SyncQuit
    BY <2>6 DEF SyncQuit, Known, Answering, ghosts
  <2>7. CASE SyncQuitLost
    BY <2>7 DEF SyncQuitLost, Known, Answering, ghosts
  <2>8. CASE SyncQuitRefused
    BY <2>8 DEF SyncQuitRefused, Known, Answering, ghosts
  <2> QED BY <1>3, <2>1, <2>2, <2>3, <2>4, <2>5, <2>6, <2>7, <2>8 DEF Syncing
<1>4. CASE GetMail
  <2>1. CASE FetchMail
    BY <2>1 DEF FetchMail, Known, Answering, ghosts
  <2>2. CASE Stat
    BY <2>2 DEF Stat, Known, Answering, ghosts
  <2>3. CASE GetMessage
    BY <2>3, GetMessageDoes DEF Known, Answering, ghosts
  <2>4. CASE GetFails
    BY <2>4 DEF GetFails, Known, Answering, ghosts
  <2>5. CASE GetDele
    BY <2>5, GetDeleDoes DEF Known, Answering, ghosts
  <2>6. CASE GetRset
    BY <2>6 DEF GetRset, Known, Answering, ghosts
  <2>7. CASE GetQuit
    BY <2>7 DEF GetQuit, Known, Answering, ghosts
  <2>8. CASE GetLost
    BY <2>8 DEF GetLost, Known, Answering, ghosts
  <2> QED BY <1>4, <2>1, <2>2, <2>3, <2>4, <2>5, <2>6, <2>7, <2>8 DEF GetMail
<1>5. CASE Outside
  <2>1. CASE Arrive
    <3>1. arrived \in Nat /\ server.box \in SUBSET (1 .. arrived) /\ Known \in SUBSET (1 .. arrived)
      BY ArrivedUids DEF HeadersOK
    <3>2. drop' = drop \cup {arrived + 1} /\ UNCHANGED <<server, hdrs>>
      BY <2>1 DEF Arrive
    <3>3. \A v \in server.box \cup Known : v < arrived + 1
      BY <3>1
    <3> QED BY <3>2, <3>3 DEF Known, Answering
  <2>2. CASE TakenElsewhere
    BY <2>2 DEF TakenElsewhere, Known, Answering, ghosts
  <2>3. CASE LoseLink
    BY <2>3 DEF LoseLink, Known, Answering, ghosts
  <2> QED BY <1>5, <2>1, <2>2, <2>3 DEF Outside
<1> QED BY <1>1, <1>2, <1>3, <1>4, <1>5 DEF Next

LEMMA AgreedStays ==
  ASSUME Typed, Control, Status, Closed, Agreed, Next
  PROVE  Agreed'
<1> USE DEF Agreed, Control, Status, Closed, At, Ready, Goto, Begin, Finish, Idle, Show, NoData, NoSession, Login, Session, Typed, PlaceOK, Place, PopOK, ServerOK
<1>0. server.box \in SUBSET Uids /\ drop \in SUBSET Uids
  BY BoxUids, ArrivedUids DEF Typed
<1>1. CASE Mailbox
  <2>1. CASE OpenMailbox
    BY <2>1 DEF OpenMailbox, Known, Answering, ghosts
  <2>2. CASE CheckMailbox
    BY <2>2 DEF CheckMailbox, Known, Answering, ghosts
  <2>3. CASE CloseMailbox
    BY <2>3 DEF CloseMailbox, Known, Answering, ghosts
  <2>4. CASE Connect
    BY <2>4, ConnectDoes DEF Known, Answering, ghosts, LinkBegins, FailLeads, Rest, Fresh, Leads
  <2>5. CASE Reconnected
    BY <2>5 DEF Reconnected, Known, Answering, ghosts, Resume
  <2>6. CASE Reconnect
    <3>1. \A u \in Known : Line(drop, u, Cardinality(drop)) = IF u \in drop THEN Number(drop, u) ELSE -1
      BY <1>0, FullLine
    <3>2. Known' = Known /\ \A u \in Known : hdrs'[u].refno = IF u \in drop THEN Number(drop, u) ELSE -1
      BY <2>6, <3>1, ReconnectDoes DEF Renumbered
    <3>3. server'.box = drop
      BY <2>6, ReconnectDoes DEF LinkBegins
    <3> HIDE DEF Typed
    <3> QED BY <3>2, <3>3
  <2>7. CASE ReconnectFails
    BY <2>7, ReconnectFailsDoes DEF Known, Answering, ghosts, LinkEnds, FailLeads, Leads, Rest, Fresh, Renumbered
  <2>8. CASE Logout
    BY <2>8 DEF Logout, Known, Answering, ghosts
  <2>9. CASE ListingFails
    BY <2>9, ListingFailsDoes DEF Known, Answering, ghosts, LinkEnds, Rest, Fresh, Leads
  <2>10. CASE FetchHeaders
    <3>1. \A u \in Known : Line(server.box, u, Cardinality(server.box))
                              = IF u \in server.box THEN Number(server.box, u) ELSE -1
      BY <1>0, FullLine
    <3>2. \A u \in Known' : hdrs'[u].refno = IF u \in server.box THEN Number(server.box, u) ELSE -1
      BY <2>10, <3>1, FetchHeadersDoes DEF Relisted
    <3> QED BY <2>10, <3>2, FetchHeadersDoes DEF LinkEnds, Answering
  <2> QED BY <1>1, <2>1, <2>2, <2>3, <2>4, <2>5, <2>6, <2>7, <2>8, <2>9, <2>10 DEF Mailbox
<1>2. CASE Reading
  <2>1. CASE FetchMessage
    BY <2>1, FetchMessageDoes DEF Known, Answering, ghosts, Leads
  <2>2. CASE Retrieve
    BY <2>2, RetrieveDoes DEF Known, Answering, ghosts, Leads
  <2>3. CASE RetrieveFails
    BY <2>3 DEF RetrieveFails, Known, Answering, ghosts
  <2>4. CASE RetrieveLost
    BY <2>4 DEF RetrieveLost, Known, Answering, ghosts, Lost
  <2> QED BY <1>2, <2>1, <2>2, <2>3, <2>4 DEF Reading
<1>3. CASE Syncing
  <2>1. CASE Delete
    <3>1. UNCHANGED <<pop, server, pc>> /\ Known' = Known /\ \A u \in Known : hdrs'[u].refno = hdrs[u].refno
      BY <2>1, DeleteDoes
    <3> QED BY <3>1 DEF Answering
  <2>2. CASE Sync
    BY <2>2 DEF Sync, Known, Answering, ghosts
  <2>3. CASE SyncDele
    BY <2>3, SyncDeleDoes DEF Known, Answering, ghosts, Leads
  <2>4. CASE SyncRefused
    BY <2>4 DEF SyncRefused, Known, Answering, ghosts
  <2>5. CASE SyncLost
    BY <2>5 DEF SyncLost, Known, Answering, ghosts, Lost
  <2>6. CASE SyncQuit
    BY <2>6 DEF SyncQuit, Known, Answering, ghosts
  <2>7. CASE SyncQuitLost
    BY <2>7 DEF SyncQuitLost, Known, Answering, ghosts
  <2>8. CASE SyncQuitRefused
    BY <2>8 DEF SyncQuitRefused, Known, Answering, ghosts
  <2> QED BY <1>3, <2>1, <2>2, <2>3, <2>4, <2>5, <2>6, <2>7, <2>8 DEF Syncing
<1>4. CASE GetMail
  <2>1. CASE FetchMail
    BY <2>1 DEF FetchMail, Known, Answering, ghosts
  <2>2. CASE Stat
    BY <2>2 DEF Stat, Known, Answering, ghosts
  <2>3. CASE GetMessage
    BY <2>3, GetMessageDoes DEF Known, Answering, ghosts
  <2>4. CASE GetFails
    BY <2>4 DEF GetFails, Known, Answering, ghosts
  <2>5. CASE GetDele
    BY <2>5, GetDeleDoes DEF Known, Answering, ghosts
  <2>6. CASE GetRset
    BY <2>6 DEF GetRset, Known, Answering, ghosts
  <2>7. CASE GetQuit
    BY <2>7 DEF GetQuit, Known, Answering, ghosts
  <2>8. CASE GetLost
    BY <2>8 DEF GetLost, Known, Answering, ghosts
  <2> QED BY <1>4, <2>1, <2>2, <2>3, <2>4, <2>5, <2>6, <2>7, <2>8 DEF GetMail
<1>5. CASE Outside
  <2>1. CASE Arrive
    BY <2>1 DEF Arrive, Known, Answering, ghosts
  <2>2. CASE TakenElsewhere
    BY <2>2 DEF TakenElsewhere, Known, Answering, ghosts
  <2>3. CASE LoseLink
    BY <2>3 DEF LoseLink, Known, Answering, ghosts
  <2> QED BY <1>5, <2>1, <2>2, <2>3 DEF Outside
<1> QED BY <1>1, <1>2, <1>3, <1>4, <1>5 DEF Next

LEMMA DeletionsStay ==
  ASSUME Typed, Control, Status, Agreed, Locked, Deletions, Next
  PROVE  Deletions'
<1> USE DEF Deletions, Control, At, Ready, Goto, Begin, Finish, Idle, Show, NoData, NoSession, Login, Session, Typed, PlaceOK, Place, PopOK, ServerOK, Without
<1>1. CASE Mailbox
  <2>1. CASE OpenMailbox
    BY <2>1 DEF OpenMailbox, Known, Answering, ghosts
  <2>2. CASE CheckMailbox
    BY <2>2 DEF CheckMailbox, Known, Answering, ghosts
  <2>3. CASE CloseMailbox
    BY <2>3 DEF CloseMailbox, Known, Answering, ghosts
  <2>4. CASE Connect
    BY <2>4, ConnectDoes DEF Known, Answering, ghosts, LinkBegins, FailLeads, Rest, Fresh, Leads
  <2>5. CASE Reconnected
    BY <2>5 DEF Reconnected, Known, Answering, ghosts, Resume
  <2>6. CASE Reconnect
    <3>1. UNCHANGED <<marked, asked, drop>> /\ Known' = Known /\ (\A u \in Known : hdrs'[u].deleted = hdrs[u].deleted)
      BY <2>6, ReconnectDoes DEF Renumbered, ghosts, Known
    <3> QED BY <2>6, <3>1, ReconnectDoes DEF LinkEnds, LinkBegins, FailLeads, Rest, Fresh, Leads, Resume
  <2>7. CASE ReconnectFails
    <3>1. UNCHANGED <<marked, asked, drop>> /\ Known' = Known /\ (\A u \in Known : hdrs'[u].deleted = hdrs[u].deleted)
      BY <2>7, ReconnectFailsDoes DEF Renumbered, ghosts, Known
    <3> QED BY <2>7, <3>1, ReconnectFailsDoes DEF LinkEnds, LinkBegins, FailLeads, Rest, Fresh, Leads, Resume
  <2>8. CASE Logout
    BY <2>8 DEF Logout, Known, Answering, ghosts
  <2>9. CASE ListingFails
    <3>1. UNCHANGED <<marked, asked, drop>> /\ Known' = Known /\ (\A u \in Known : hdrs'[u].deleted = hdrs[u].deleted)
      BY <2>9, ListingFailsDoes DEF Renumbered, ghosts, Known
    <3> QED BY <2>9, <3>1, ListingFailsDoes DEF LinkEnds, LinkBegins, FailLeads, Rest, Fresh, Leads, Resume
  <2>10. CASE FetchHeaders
    <3>1. server.box \in SUBSET Uids /\ Known \in SUBSET Uids
      BY BoxUids, ArrivedUids DEF HeadersOK
    <3>2. \A u \in Known : u \in Int
      BY <3>1, BoundsAssumption DEF Uids
    <3>3. ASSUME NEW u \in Known, hdrs'[u].refno = -1 PROVE u \notin drop
      <4>1. Line(server.box, u, Cardinality(server.box)) = -1
        BY <2>10, <3>3, FetchHeadersDoes DEF Relisted
      <4>2. u \notin server.box
        BY <3>1, <4>1, FullLine, NumberType
      <4>3. u \in drop => u < u
        BY <2>10, <4>2, FetchHeadersDoes DEF Locked, Answering
      <4> QED BY <3>2, <4>3
    <3>4. \A u \in Known' : hdrs'[u].deleted => u \in marked \/ u \notin drop
      BY <2>10, <3>3, FetchHeadersDoes
    <3>5. UNCHANGED <<marked, asked, drop>> /\ pc'.op \in {"none", "open", "close"}
      BY <2>10, FetchHeadersDoes DEF ghosts, Leads, FailLeads
    <3> HIDE DEF Typed, Control
    <3> QED BY <3>4, <3>5
  <2> QED BY <1>1, <2>1, <2>2, <2>3, <2>4, <2>5, <2>6, <2>7, <2>8, <2>9, <2>10 DEF Mailbox
<1>2. CASE Reading
  <2>1. CASE FetchMessage
    BY <2>1, FetchMessageDoes DEF Known, Answering, ghosts, Leads
  <2>2. CASE Retrieve
    BY <2>2, RetrieveDoes DEF Known, Answering, ghosts, Leads
  <2>3. CASE RetrieveFails
    BY <2>3 DEF RetrieveFails, Known, Answering, ghosts
  <2>4. CASE RetrieveLost
    BY <2>4 DEF RetrieveLost, Known, Answering, ghosts, Lost
  <2> QED BY <1>2, <2>1, <2>2, <2>3, <2>4 DEF Reading
<1>3. CASE Syncing
  <2>1. CASE Delete
    <3>1. UNCHANGED <<asked, drop, pc>> /\ pc.op = "none" /\ Known' = Known
      BY <2>1, DeleteDoes
    <3>2. PICK u \in Known :
            /\ marked' = IF hdrs[u].deleted THEN marked \ {u} ELSE marked \cup {u}
            /\ hdrs'[u].deleted = ~hdrs[u].deleted
            /\ \A v \in Known \ {u} : hdrs'[v] = hdrs[v]
      BY <2>1, DeleteDoes
    <3>3. hdrs'[u].deleted => u \in marked'
      BY <3>2
    <3>4. \A v \in Known \ {u} : hdrs'[v].deleted => v \in marked' \/ v \notin drop
      BY <3>2
    <3> QED BY <3>1, <3>3, <3>4
  <2>2. CASE Sync
    BY <2>2 DEF Sync, Known, Answering, ghosts
  <2>3. CASE SyncDele
    BY <2>3, SyncDeleDoes DEF Known, Answering, ghosts, Leads
  <2>4. CASE SyncRefused
    BY <2>4 DEF SyncRefused, Known, Answering, ghosts
  <2>5. CASE SyncLost
    BY <2>5 DEF SyncLost, Known, Answering, ghosts, Lost
  <2>6. CASE SyncQuit
    BY <2>6 DEF SyncQuit, Known, Answering, ghosts
  <2>7. CASE SyncQuitLost
    BY <2>7 DEF SyncQuitLost, Known, Answering, ghosts
  <2>8. CASE SyncQuitRefused
    BY <2>8 DEF SyncQuitRefused, Known, Answering, ghosts
  <2> QED BY <1>3, <2>1, <2>2, <2>3, <2>4, <2>5, <2>6, <2>7, <2>8 DEF Syncing
<1>4. CASE GetMail
  <2>1. CASE FetchMail
    BY <2>1 DEF FetchMail, Known, Answering, ghosts
  <2>2. CASE Stat
    BY <2>2 DEF Stat, Known, Answering, ghosts
  <2>3. CASE GetMessage
    BY <2>3, GetMessageDoes DEF Known, Answering, ghosts
  <2>4. CASE GetFails
    BY <2>4 DEF GetFails, Known, Answering, ghosts
  <2>5. CASE GetDele
    BY <2>5, GetDeleDoes DEF Known, Answering, ghosts
  <2>6. CASE GetRset
    BY <2>6 DEF GetRset, Known, Answering, ghosts
  <2>7. CASE GetQuit
    BY <2>7 DEF GetQuit, Known, Answering, ghosts
  <2>8. CASE GetLost
    BY <2>8 DEF GetLost, Known, Answering, ghosts
  <2> QED BY <1>4, <2>1, <2>2, <2>3, <2>4, <2>5, <2>6, <2>7, <2>8 DEF GetMail
<1>5. CASE Outside
  <2>1. CASE Arrive
    <3>1. UNCHANGED <<marked, asked, hdrs, pc>> /\ drop' = drop \cup {arrived + 1}
      BY <2>1 DEF Arrive, ghosts
    <3>2. arrived + 1 \notin Known
      BY ArrivedUids DEF HeadersOK
    <3> QED BY <3>1, <3>2 DEF Known
  <2>2. CASE TakenElsewhere
    BY <2>2 DEF TakenElsewhere, Known, Answering, ghosts
  <2>3. CASE LoseLink
    BY <2>3 DEF LoseLink, Known, Answering, ghosts
  <2> QED BY <1>5, <2>1, <2>2, <2>3 DEF Outside
<1> QED BY <1>1, <1>2, <1>3, <1>4, <1>5 DEF Next

LEMMA PassedStays ==
  ASSUME Typed, Control, Status, Agreed, Passed, Next
  PROVE  Passed'
<1> USE DEF Passed, Control, Status, At, Ready, Goto, Begin, Finish, Idle, Show, NoData, NoSession, Login, Session, Typed, PlaceOK, Place, PopOK, ServerOK
<1>1. CASE Mailbox
  <2>1. CASE OpenMailbox
    BY <2>1 DEF OpenMailbox, Known, Answering, ghosts
  <2>2. CASE CheckMailbox
    BY <2>2 DEF CheckMailbox, Known, Answering, ghosts
  <2>3. CASE CloseMailbox
    BY <2>3 DEF CloseMailbox, Known, Answering, ghosts
  <2>4. CASE Connect
    BY <2>4, ConnectDoes DEF Known, Answering, ghosts, LinkBegins, FailLeads, Rest, Fresh, Leads
  <2>5. CASE Reconnected
    BY <2>5 DEF Reconnected, Known, Answering, ghosts, Resume
  <2>6. CASE Reconnect
    BY <2>6, ReconnectDoes DEF Known, Answering, ghosts, LinkBegins, Rest, Leads, Resume, Renumbered
  <2>7. CASE ReconnectFails
    BY <2>7, ReconnectFailsDoes DEF Known, Answering, ghosts, LinkEnds, FailLeads, Leads, Rest, Fresh, Renumbered
  <2>8. CASE Logout
    BY <2>8 DEF Logout, Known, Answering, ghosts
  <2>9. CASE ListingFails
    BY <2>9, ListingFailsDoes DEF Known, Answering, ghosts, LinkEnds, Rest, Fresh, Leads
  <2>10. CASE FetchHeaders
    BY <2>10, FetchHeadersDoes DEF Known, Answering, ghosts, LinkEnds, FailLeads, Rest, Fresh, Leads
  <2> QED BY <1>1, <2>1, <2>2, <2>3, <2>4, <2>5, <2>6, <2>7, <2>8, <2>9, <2>10 DEF Mailbox
<1>2. CASE Reading
  <2>1. CASE FetchMessage
    BY <2>1, FetchMessageDoes DEF Known, Answering, ghosts, Leads
  <2>2. CASE Retrieve
    BY <2>2, RetrieveDoes DEF Known, Answering, ghosts, Leads
  <2>3. CASE RetrieveFails
    BY <2>3 DEF RetrieveFails, Known, Answering, ghosts
  <2>4. CASE RetrieveLost
    BY <2>4 DEF RetrieveLost, Known, Answering, ghosts, Lost
  <2> QED BY <1>2, <2>1, <2>2, <2>3, <2>4 DEF Reading
<1>3. CASE Syncing
  <2>1. CASE Delete
    BY <2>1, DeleteDoes
  <2>2. CASE Sync
    BY <2>2 DEF Sync, Known, Answering, ghosts
  <2>3. CASE SyncDele
    <3>1. \A u \in pc'.done : hdrs[u].refno \in server'.dele
      BY <2>3, SyncDeleDoes
    <3> QED BY <2>3, <3>1, SyncDeleDoes
  <2>4. CASE SyncRefused
    BY <2>4 DEF SyncRefused, Known, Answering, ghosts
  <2>5. CASE SyncLost
    BY <2>5 DEF SyncLost, Known, Answering, ghosts, Lost
  <2>6. CASE SyncQuit
    BY <2>6 DEF SyncQuit, Known, Answering, ghosts
  <2>7. CASE SyncQuitLost
    BY <2>7 DEF SyncQuitLost, Known, Answering, ghosts
  <2>8. CASE SyncQuitRefused
    BY <2>8 DEF SyncQuitRefused, Known, Answering, ghosts
  <2> QED BY <1>3, <2>1, <2>2, <2>3, <2>4, <2>5, <2>6, <2>7, <2>8 DEF Syncing
<1>4. CASE GetMail
  <2>1. CASE FetchMail
    BY <2>1 DEF FetchMail, Known, Answering, ghosts
  <2>2. CASE Stat
    BY <2>2 DEF Stat, Known, Answering, ghosts
  <2>3. CASE GetMessage
    BY <2>3, GetMessageDoes DEF Known, Answering, ghosts
  <2>4. CASE GetFails
    BY <2>4 DEF GetFails, Known, Answering, ghosts
  <2>5. CASE GetDele
    BY <2>5, GetDeleDoes DEF Known, Answering, ghosts
  <2>6. CASE GetRset
    BY <2>6 DEF GetRset, Known, Answering, ghosts
  <2>7. CASE GetQuit
    BY <2>7 DEF GetQuit, Known, Answering, ghosts
  <2>8. CASE GetLost
    BY <2>8 DEF GetLost, Known, Answering, ghosts
  <2> QED BY <1>4, <2>1, <2>2, <2>3, <2>4, <2>5, <2>6, <2>7, <2>8 DEF GetMail
<1>5. CASE Outside
  <2>1. CASE Arrive
    BY <2>1 DEF Arrive, Known, Answering, ghosts
  <2>2. CASE TakenElsewhere
    BY <2>2 DEF TakenElsewhere, Known, Answering, ghosts
  <2>3. CASE LoseLink
    BY <2>3 DEF LoseLink, Known, Answering, ghosts
  <2> QED BY <1>5, <2>1, <2>2, <2>3 DEF Outside
<1> QED BY <1>1, <1>2, <1>3, <1>4, <1>5 DEF Next

LEMMA LoggedInStays ==
  ASSUME Typed, Control, Status, Agreed, LoggedIn, Next
  PROVE  LoggedIn'
<1> USE DEF LoggedIn, Control, Status, At, Ready, Goto, Begin, Finish, Idle, Show, NoData, NoSession, Login, Session, Typed, PlaceOK, Place, PopOK, ServerOK
<1>1. CASE Mailbox
  <2>1. CASE OpenMailbox
    BY <2>1 DEF OpenMailbox, Known, Answering, ghosts
  <2>2. CASE CheckMailbox
    BY <2>2 DEF CheckMailbox, Known, Answering, ghosts
  <2>3. CASE CloseMailbox
    BY <2>3 DEF CloseMailbox, Known, Answering, ghosts
  <2>4. CASE Connect
    BY <2>4, ConnectDoes DEF Known, Answering, ghosts, LinkBegins, FailLeads, Rest, Fresh, Leads
  <2>5. CASE Reconnected
    BY <2>5 DEF Reconnected, Known, Answering, ghosts, Resume
  <2>6. CASE Reconnect
    BY <2>6, ReconnectDoes DEF Known, Answering, ghosts, LinkBegins, Rest, Leads, Resume, Renumbered
  <2>7. CASE ReconnectFails
    BY <2>7, ReconnectFailsDoes DEF Known, Answering, ghosts, LinkEnds, FailLeads, Leads, Rest, Fresh, Renumbered
  <2>8. CASE Logout
    BY <2>8 DEF Logout, Known, Answering, ghosts
  <2>9. CASE ListingFails
    BY <2>9, ListingFailsDoes DEF Known, Answering, ghosts, LinkEnds, Rest, Fresh, Leads
  <2>10. CASE FetchHeaders
    BY <2>10, FetchHeadersDoes DEF Known, Answering, ghosts, LinkEnds, FailLeads, Rest, Fresh, Leads
  <2> QED BY <1>1, <2>1, <2>2, <2>3, <2>4, <2>5, <2>6, <2>7, <2>8, <2>9, <2>10 DEF Mailbox
<1>2. CASE Reading
  <2>1. CASE FetchMessage
    BY <2>1, FetchMessageDoes DEF Known, Answering, ghosts, Leads
  <2>2. CASE Retrieve
    BY <2>2, RetrieveDoes DEF Known, Answering, ghosts, Leads
  <2>3. CASE RetrieveFails
    BY <2>3 DEF RetrieveFails, Known, Answering, ghosts
  <2>4. CASE RetrieveLost
    BY <2>4 DEF RetrieveLost, Known, Answering, ghosts, Lost
  <2> QED BY <1>2, <2>1, <2>2, <2>3, <2>4 DEF Reading
<1>3. CASE Syncing
  <2>1. CASE Delete
    BY <2>1, DeleteDoes
  <2>2. CASE Sync
    BY <2>2 DEF Sync, Known, Answering, ghosts
  <2>3. CASE SyncDele
    BY <2>3, SyncDeleDoes DEF Known, Answering, ghosts, Leads
  <2>4. CASE SyncRefused
    BY <2>4 DEF SyncRefused, Known, Answering, ghosts
  <2>5. CASE SyncLost
    BY <2>5 DEF SyncLost, Known, Answering, ghosts, Lost
  <2>6. CASE SyncQuit
    BY <2>6 DEF SyncQuit, Known, Answering, ghosts
  <2>7. CASE SyncQuitLost
    BY <2>7 DEF SyncQuitLost, Known, Answering, ghosts
  <2>8. CASE SyncQuitRefused
    BY <2>8 DEF SyncQuitRefused, Known, Answering, ghosts
  <2> QED BY <1>3, <2>1, <2>2, <2>3, <2>4, <2>5, <2>6, <2>7, <2>8 DEF Syncing
<1>4. CASE GetMail
  <2>1. CASE FetchMail
    BY <2>1 DEF FetchMail, Known, Answering, ghosts
  <2>2. CASE Stat
    BY <2>2 DEF Stat, Known, Answering, ghosts
  <2>3. CASE GetMessage
    BY <2>3, GetMessageDoes DEF Known, Answering, ghosts
  <2>4. CASE GetFails
    BY <2>4 DEF GetFails, Known, Answering, ghosts
  <2>5. CASE GetDele
    BY <2>5, GetDeleDoes DEF Known, Answering, ghosts
  <2>6. CASE GetRset
    BY <2>6 DEF GetRset, Known, Answering, ghosts
  <2>7. CASE GetQuit
    BY <2>7 DEF GetQuit, Known, Answering, ghosts
  <2>8. CASE GetLost
    BY <2>8 DEF GetLost, Known, Answering, ghosts
  <2> QED BY <1>4, <2>1, <2>2, <2>3, <2>4, <2>5, <2>6, <2>7, <2>8 DEF GetMail
<1>5. CASE Outside
  <2>1. CASE Arrive
    BY <2>1 DEF Arrive, Known, Answering, ghosts
  <2>2. CASE TakenElsewhere
    BY <2>2 DEF TakenElsewhere, Known, Answering, ghosts
  <2>3. CASE LoseLink
    BY <2>3 DEF LoseLink, Known, Answering, ghosts
  <2> QED BY <1>5, <2>1, <2>2, <2>3 DEF Outside
<1> QED BY <1>1, <1>2, <1>3, <1>4, <1>5 DEF Next

LEMMA DoomedStays ==
  ASSUME Typed, Control, Status, Agreed, Locked, Deletions, Doomed, Next
  PROVE  Doomed'
<1> USE DEF Doomed, Deletions, Control, At, Ready, Goto, Begin, Finish, Idle, Show, NoData, NoSession, Login, Session, Typed, PlaceOK, Place, PopOK, ServerOK, Without
<1>0. server.box \in SUBSET Uids
  BY BoxUids
<1>1. CASE Mailbox
  <2>1. CASE OpenMailbox
    BY <2>1 DEF OpenMailbox, Known, Answering, ghosts
  <2>2. CASE CheckMailbox
    BY <2>2 DEF CheckMailbox, Known, Answering, ghosts
  <2>3. CASE CloseMailbox
    BY <2>3 DEF CloseMailbox, Known, Answering, ghosts
  <2>4. CASE Connect
    <3>1. UNCHANGED <<spool, asked>> /\ server'.dele = {} /\ pc'.at # "dele"
      BY <2>4, ConnectDoes DEF ghosts, LinkBegins, Leads, FailLeads
    <3> QED BY <3>1
  <2>5. CASE Reconnected
    BY <2>5 DEF Reconnected, Known, Answering, ghosts, Resume
  <2>6. CASE Reconnect
    <3>1. UNCHANGED <<spool, asked>> /\ server'.dele = {} /\ pc'.op # "getmail"
      BY <2>6, ReconnectDoes DEF ghosts, LinkBegins, Leads
    <3> QED BY <3>1
  <2>7. CASE ReconnectFails
    <3>1. UNCHANGED <<spool, asked>> /\ server'.box = {}
      BY <2>7, ReconnectFailsDoes DEF ghosts, LinkEnds
    <3> QED BY <3>1
  <2>8. CASE Logout
    BY <2>8 DEF Logout, Known, Answering, ghosts
  <2>9. CASE ListingFails
    <3>1. UNCHANGED <<spool, asked>> /\ (UNCHANGED server \/ server'.box = {}) /\ pc'.op # "getmail"
      BY <2>9, ListingFailsDoes DEF ghosts, LinkEnds, Leads
    <3> QED BY <3>1
  <2>10. CASE FetchHeaders
    <3>1. UNCHANGED <<spool, asked>> /\ (UNCHANGED server \/ server'.box = {}) /\ pc'.op # "getmail"
      BY <2>10, FetchHeadersDoes DEF ghosts, LinkEnds, Leads, FailLeads
    <3> QED BY <3>1
  <2> QED BY <1>1, <2>1, <2>2, <2>3, <2>4, <2>5, <2>6, <2>7, <2>8, <2>9, <2>10 DEF Mailbox
<1>2. CASE Reading
  <2>1. CASE FetchMessage
    BY <2>1, FetchMessageDoes DEF Known, Answering, ghosts, Leads
  <2>2. CASE Retrieve
    BY <2>2, RetrieveDoes DEF Known, Answering, ghosts, Leads
  <2>3. CASE RetrieveFails
    BY <2>3 DEF RetrieveFails, Known, Answering, ghosts
  <2>4. CASE RetrieveLost
    BY <2>4 DEF RetrieveLost, Known, Answering, ghosts, Lost
  <2> QED BY <1>2, <2>1, <2>2, <2>3, <2>4 DEF Reading
<1>3. CASE Syncing
  <2>1. CASE Delete
    BY <2>1, DeleteDoes
  <2>2. CASE Sync
    BY <2>2 DEF Sync, Known, Answering, ghosts
  <2>3. CASE SyncDele
    <3>1. PICK w \in Known : hdrs[w].deleted /\ hdrs[w].refno # -1 /\ server'.dele = server.dele \cup {hdrs[w].refno}
      BY <2>3, SyncDeleDoes
    <3>2. w \in server.box /\ hdrs[w].refno = Number(server.box, w)
      BY <2>3, <3>1, SyncDeleDoes DEF Agreed, Status
    <3>3. w \in asked
      BY <2>3, <3>1, <3>2, SyncDeleDoes DEF Locked
    <3>4. \A u \in server.box : Number(server.box, u) = hdrs[w].refno => u = w
      BY <1>0, <3>2, NumberInjective
    <3>5. server'.box = server.box /\ UNCHANGED <<spool, asked>> /\ pc'.op = "sync"
      BY <2>3, SyncDeleDoes DEF ghosts, Leads
    <3> QED BY <3>1, <3>3, <3>4, <3>5
  <2>4. CASE SyncRefused
    BY <2>4 DEF SyncRefused, Known, Answering, ghosts
  <2>5. CASE SyncLost
    BY <2>5 DEF SyncLost, Known, Answering, ghosts, Lost
  <2>6. CASE SyncQuit
    BY <2>6 DEF SyncQuit, Known, Answering, ghosts
  <2>7. CASE SyncQuitLost
    BY <2>7 DEF SyncQuitLost, Known, Answering, ghosts
  <2>8. CASE SyncQuitRefused
    BY <2>8 DEF SyncQuitRefused, Known, Answering, ghosts
  <2> QED BY <1>3, <2>1, <2>2, <2>3, <2>4, <2>5, <2>6, <2>7, <2>8 DEF Syncing
<1>4. CASE GetMail
  <2>1. CASE FetchMail
    BY <2>1 DEF FetchMail, Known, Answering, ghosts
  <2>2. CASE Stat
    BY <2>2 DEF Stat, Known, Answering, ghosts
  <2>3. CASE GetMessage
    <3>1. \A u \in server.box : Number(server.box, u) = pc.i => u \in spool'
      BY <2>3, <1>0, MessageOfNumber, GetMessageDoes
    <3>2. spool \subseteq spool' /\ UNCHANGED <<server, asked>> /\ (pc'.at = "dele" => pc'.i = pc.i)
      BY <2>3, GetMessageDoes DEF ghosts
    <3> HIDE DEF Typed
    <3> QED BY <3>1, <3>2
  <2>4. CASE GetFails
    BY <2>4 DEF GetFails, Known, Answering, ghosts
  <2>5. CASE GetDele
    <3>1. server'.box = server.box /\ UNCHANGED <<spool, asked>> /\ pc'.at # "dele"
            /\ server'.dele \in {server.dele, server.dele \cup {pc.i}}
      BY <2>5, GetDeleDoes DEF ghosts
    <3>2. \A u \in server.box : Number(server.box, u) = pc.i => u \in spool
      BY <2>5, GetDeleDoes
    <3> HIDE DEF Typed
    <3> QED BY <3>1, <3>2
  <2>6. CASE GetRset
    BY <2>6 DEF GetRset, Known, Answering, ghosts
  <2>7. CASE GetQuit
    BY <2>7 DEF GetQuit, Known, Answering, ghosts
  <2>8. CASE GetLost
    BY <2>8 DEF GetLost, Known, Answering, ghosts
  <2> QED BY <1>4, <2>1, <2>2, <2>3, <2>4, <2>5, <2>6, <2>7, <2>8 DEF GetMail
<1>5. CASE Outside
  <2>1. CASE Arrive
    BY <2>1 DEF Arrive, Known, Answering, ghosts
  <2>2. CASE TakenElsewhere
    BY <2>2 DEF TakenElsewhere, Known, Answering, ghosts
  <2>3. CASE LoseLink
    BY <2>3 DEF LoseLink, Known, Answering, ghosts
  <2> QED BY <1>5, <2>1, <2>2, <2>3 DEF Outside
<1> QED BY <1>1, <1>2, <1>3, <1>4, <1>5 DEF Next

LEMMA NothingGoes ==
  ASSUME Typed, Control, Status, Agreed, Doomed, NoMailLost, Next
  PROVE  NoMailLost'
<1> USE DEF NoMailLost
<1>1. CASE Mailbox
  <2>1. CASE OpenMailbox
    BY <2>1 DEF OpenMailbox, Known, Answering, ghosts
  <2>2. CASE CheckMailbox
    BY <2>2 DEF CheckMailbox, Known, Answering, ghosts
  <2>3. CASE CloseMailbox
    BY <2>3 DEF CloseMailbox, Known, Answering, ghosts
  <2>4. CASE Connect
    <3>1. UNCHANGED <<drop, arrived, spool, asked, taken>>
      BY <2>4, ConnectDoes DEF ghosts
    <3> QED BY <3>1
  <2>5. CASE Reconnected
    BY <2>5 DEF Reconnected, Known, Answering, ghosts, Resume
  <2>6. CASE Reconnect
    <3>1. UNCHANGED <<drop, arrived, spool, asked, taken>>
      BY <2>6, ReconnectDoes DEF ghosts
    <3> QED BY <3>1
  <2>7. CASE ReconnectFails
    <3>1. UNCHANGED <<drop, arrived, spool, asked, taken>>
      BY <2>7, ReconnectFailsDoes DEF ghosts
    <3> QED BY <3>1
  <2>8. CASE Logout
    <3>1. /\ UNCHANGED <<arrived, spool, asked, taken>>
          /\ UNCHANGED drop \/ drop' = Without(server.dele)
      BY <2>8 DEF Logout, ghosts
    <3>2. \A u \in drop : u \in spool \cup asked \/ u \in Without(server.dele)
      BY DEF Without, Doomed
    <3> QED BY <3>1, <3>2
  <2>9. CASE ListingFails
    <3>1. UNCHANGED <<drop, arrived, spool, asked, taken>>
      BY <2>9, ListingFailsDoes DEF ghosts
    <3> QED BY <3>1
  <2>10. CASE FetchHeaders
    <3>1. UNCHANGED <<drop, arrived, spool, asked, taken>>
      BY <2>10, FetchHeadersDoes DEF ghosts
    <3> QED BY <3>1
  <2> QED BY <1>1, <2>1, <2>2, <2>3, <2>4, <2>5, <2>6, <2>7, <2>8, <2>9, <2>10 DEF Mailbox
<1>2. CASE Reading
  <2>1. CASE FetchMessage
    <3>1. UNCHANGED <<drop, arrived, spool, asked, taken>>
      BY <2>1, FetchMessageDoes DEF ghosts
    <3> QED BY <3>1
  <2>2. CASE Retrieve
    <3>1. UNCHANGED <<drop, arrived, spool, asked, taken>>
      BY <2>2, RetrieveDoes DEF ghosts
    <3> QED BY <3>1
  <2>3. CASE RetrieveFails
    BY <2>3 DEF RetrieveFails, Known, Answering, ghosts
  <2>4. CASE RetrieveLost
    BY <2>4 DEF RetrieveLost, Known, Answering, ghosts, Lost
  <2> QED BY <1>2, <2>1, <2>2, <2>3, <2>4 DEF Reading
<1>3. CASE Syncing
  <2>1. CASE Delete
    <3>1. UNCHANGED <<drop, arrived, spool, asked, taken>>
      BY <2>1, DeleteDoes DEF ghosts
    <3> QED BY <3>1
  <2>2. CASE Sync
    BY <2>2 DEF Sync, Known, Answering, ghosts
  <2>3. CASE SyncDele
    <3>1. UNCHANGED <<drop, arrived, spool, asked, taken>>
      BY <2>3, SyncDeleDoes DEF ghosts
    <3> QED BY <3>1
  <2>4. CASE SyncRefused
    BY <2>4 DEF SyncRefused, Known, Answering, ghosts
  <2>5. CASE SyncLost
    BY <2>5 DEF SyncLost, Known, Answering, ghosts, Lost
  <2>6. CASE SyncQuit
    <3>1. /\ UNCHANGED <<arrived, spool, asked, taken>>
          /\ UNCHANGED drop \/ drop' = Without(server.dele)
      BY <2>6 DEF SyncQuit, ghosts
    <3>2. \A u \in drop : u \in spool \cup asked \/ u \in Without(server.dele)
      BY DEF Without, Doomed
    <3> QED BY <3>1, <3>2
  <2>7. CASE SyncQuitLost
    <3>1. /\ UNCHANGED <<arrived, spool, asked, taken>>
          /\ UNCHANGED drop \/ drop' = Without(server.dele)
      BY <2>7 DEF SyncQuitLost, ghosts
    <3>2. \A u \in drop : u \in spool \cup asked \/ u \in Without(server.dele)
      BY DEF Without, Doomed
    <3> QED BY <3>1, <3>2
  <2>8. CASE SyncQuitRefused
    <3>1. PICK gone \in SUBSET server.dele : drop' = Without(gone)
      BY <2>8 DEF SyncQuitRefused
    <3>2. \A u \in drop : u \in spool \cup asked \/ u \in Without(gone)
      BY <3>1 DEF Without, Doomed
    <3> QED BY <2>8, <3>1, <3>2 DEF SyncQuitRefused, ghosts
  <2> QED BY <1>3, <2>1, <2>2, <2>3, <2>4, <2>5, <2>6, <2>7, <2>8 DEF Syncing
<1>4. CASE GetMail
  <2>1. CASE FetchMail
    BY <2>1 DEF FetchMail, Known, Answering, ghosts
  <2>2. CASE Stat
    BY <2>2 DEF Stat, Known, Answering, ghosts
  <2>3. CASE GetMessage
    <3>1. UNCHANGED <<drop, arrived, asked, taken>> /\ spool \subseteq spool'
      BY <2>3, GetMessageDoes DEF ghosts
    <3> QED BY <3>1
  <2>4. CASE GetFails
    BY <2>4 DEF GetFails, Known, Answering, ghosts
  <2>5. CASE GetDele
    <3>1. UNCHANGED <<drop, arrived, spool, asked, taken>>
      BY <2>5, GetDeleDoes DEF ghosts
    <3> QED BY <3>1
  <2>6. CASE GetRset
    BY <2>6 DEF GetRset, Known, Answering, ghosts
  <2>7. CASE GetQuit
    <3>1. /\ UNCHANGED <<arrived, spool, asked, taken>>
          /\ UNCHANGED drop \/ drop' = Without(server.dele)
      BY <2>7 DEF GetQuit, ghosts
    <3>2. \A u \in drop : u \in spool \cup asked \/ u \in Without(server.dele)
      BY DEF Without, Doomed
    <3> QED BY <3>1, <3>2
  <2>8. CASE GetLost
    BY <2>8 DEF GetLost, Known, Answering, ghosts
  <2> QED BY <1>4, <2>1, <2>2, <2>3, <2>4, <2>5, <2>6, <2>7, <2>8 DEF GetMail
<1>5. CASE Outside
  <2>1. CASE Arrive
    <3>1. arrived' = arrived + 1 /\ drop' = drop \cup {arrived + 1} /\ UNCHANGED <<spool, asked, taken>>
      BY <2>1 DEF Arrive, ghosts
    <3>2. 1 .. arrived + 1 = (1 .. arrived) \cup {arrived + 1}
      BY ArrivedUids DEF Typed
    <3> QED BY <3>1, <3>2
  <2>2. CASE TakenElsewhere
    BY <2>2 DEF TakenElsewhere, Known, Answering, ghosts
  <2>3. CASE LoseLink
    BY <2>3 DEF LoseLink, Known, Answering, ghosts
  <2> QED BY <1>5, <2>1, <2>2, <2>3 DEF Outside
<1> QED BY <1>1, <1>2, <1>3, <1>4, <1>5 DEF Next

(***************************************************************************)
(* The invariant, and what follows from it.                                *)
(***************************************************************************)
LEMMA BaseInit == Init => Base
<1> SUFFICES ASSUME Init PROVE Base
  OBVIOUS
<1> USE DEF Init, NoSession, NoData, Idle
<1>1. MailOK /\ PopOK /\ BodiesOK /\ CacheOK
  BY BoundsAssumption DEF MailOK, PopOK, BodiesOK, CacheOK, EmptyCache, Statuses
<1>2. ServerOK /\ PlaceOK
  BY DEF ServerOK, PlaceOK, Place, Ops, Places
<1>3. HeadersOK /\ GhostsOK
  BY DEF HeadersOK, Known, GhostsOK
<1>4. Control /\ Status /\ Locked /\ Agreed /\ Passed /\ LoggedIn
  BY DEF Control, Status, Locked, Agreed, Passed, LoggedIn, At, Answering
<1>5. Closed /\ Deletions /\ Doomed /\ NoMailLost
  BY DEF Closed, Deletions, Doomed, NoMailLost, Known, At
<1> QED BY <1>1, <1>2, <1>3, <1>4, <1>5 DEF Base, Typed

LEMMA BaseStep ==
  ASSUME Base, [Next]_vars
  PROVE  Base'
<1>1. CASE Next
  <2> USE DEF Base
  <2>1. Typed'
    BY <1>1, MailboxTyped, ReadingTyped, SyncingTyped, GetMailTyped, OutsideTyped DEF Next
  <2>2. Control' /\ Closed' /\ Status'
    BY <1>1, ControlStays, ClosedStays, StatusStays
  <2>3. Locked' /\ Agreed' /\ Deletions'
    BY <1>1, LockedStays, AgreedStays, DeletionsStay
  <2>4. Doomed' /\ Passed' /\ LoggedIn' /\ NoMailLost'
    BY <1>1, DoomedStays, PassedStays, LoggedInStays, NothingGoes
  <2> QED BY <2>1, <2>2, <2>3, <2>4
<1>2. CASE UNCHANGED vars
  <2> USE <1>2 DEF Base, vars
  <2>1. Typed'
    BY DEF Typed, MailOK, ServerOK, PopOK, HeadersOK, CacheOK, BodiesOK, GhostsOK, PlaceOK, Place, Known
  <2>2. Control' /\ Closed' /\ Status'
    BY DEF Control, Closed, Status, At, Answering, Known
  <2>3. Locked' /\ Agreed' /\ Deletions'
    BY DEF Locked, Agreed, Deletions, Number, Answering, Known
  <2>4. Doomed' /\ Passed' /\ LoggedIn' /\ NoMailLost'
    BY DEF Doomed, Passed, LoggedIn, NoMailLost, Number, At, Answering, Known
  <2> QED BY <2>1, <2>2, <2>3, <2>4
<1> QED BY <1>1, <1>2

\* The invariant of a POP mailbox: where each operation can be and what it relies on
\* there, the numbers of a session, and what may leave the maildrop when it ends.
THEOREM BaseCorrect == Spec => []Base
  BY BaseInit, BaseStep, PTL DEF Spec

\* The maildrop, the session, the headers and both caches keep their types, for any
\* number of messages and slots.
THEOREM TypeCorrect == Spec => []TypeOK
<1>1. Base => TypeOK
  BY TypeParts DEF Base, Typed
<1> QED BY <1>1, BaseCorrect, PTL

\* A session that is used has the numbers of its own listing, however often the link is
\* lost: h->refno never comes from an earlier session (pop_reconnect(), check_uidl()).
THEOREM NumbersCorrect == Spec => []RefnoIsRight
<1>1. Base => RefnoIsRight
  BY DEF Base, Agreed, RefnoIsRight
<1> QED BY <1>1, BaseCorrect, PTL

\* No message leaves the maildrop that the user did not want removed: a DELE that was
\* lost with its link is not answered with another message in its place, and
\* <fetch-mail> deletes what it has written to the spool file.
THEOREM NothingLost == Spec => []NoMailLost
<1>1. Base => NoMailLost
  BY DEF Base
<1> QED BY <1>1, BaseCorrect, PTL

LEMMA StepsRemove ==
  ASSUME Base, LoginRefused = FALSE, [Next]_vars
  PROVE  Removal
<1> SUFFICES ASSUME pop.open, pop'.open, NEW u \in Known, u \notin Known', u \in drop' PROVE FALSE
  BY DEF Removal
<1> USE DEF Base
<1>1. SyncQuit
  <2>1. Typed
    OBVIOUS
  <2>2. ASSUME Mailbox PROVE FALSE
    <3>1. CASE OpenMailbox \/ CheckMailbox \/ CloseMailbox \/ Reconnected
      BY <3>1 DEF OpenMailbox, CheckMailbox, CloseMailbox, Reconnected, Known
    <3>2. CASE Connect
      BY <3>2, ConnectDoes DEF Known
    <3>3. CASE Reconnect
      BY <3>3, ReconnectDoes DEF Renumbered
    <3>4. CASE ReconnectFails
      BY <3>4, ReconnectFailsDoes DEF Renumbered, Known
    <3>5. CASE Logout
      BY <3>5 DEF Logout, NoData, Known
    <3>6. CASE ListingFails
      BY <3>6, ListingFailsDoes
    <3>7. CASE FetchHeaders
      BY <3>7, FetchHeadersDoes
    <3> QED BY <2>2, <3>1, <3>2, <3>3, <3>4, <3>5, <3>6, <3>7 DEF Mailbox
  <2>3. ASSUME Reading PROVE FALSE
    BY <2>3 DEF Reading, FetchMessage, Retrieve, RetrieveFails, RetrieveLost, Known
  <2>4. ASSUME Syncing, ~SyncQuit PROVE FALSE
    <3>1. CASE Delete
      BY <3>1, DeleteDoes
    <3>2. CASE ~Delete
      BY <2>4, <3>2 DEF Syncing, Sync, SyncDele, SyncRefused, SyncLost, SyncQuitLost, SyncQuitRefused, Known
    <3> QED BY <3>1, <3>2
  <2>5. ASSUME GetMail PROVE FALSE
    BY <2>5 DEF GetMail, FetchMail, Stat, GetMessage, GetFails, GetDele, GetRset, GetQuit, GetLost, Known
  <2>6. ASSUME Outside PROVE FALSE
    BY <2>6 DEF Outside, Arrive, TakenElsewhere, LoseLink, Known
  <2>7. ~UNCHANGED vars
    BY DEF vars, Known
  <2> QED BY <2>2, <2>3, <2>4, <2>5, <2>6, <2>7 DEF Next
<1>2. At("sync", "dele") /\ ToDelete = {} /\ server.state # "none" /\ drop' = Without(server.dele)
  BY <1>1 DEF SyncQuit
<1>3. hdrs[u].deleted
  BY <1>1 DEF SyncQuit, Known
<1>4. u \in pc.done \/ hdrs[u].refno = -1
  BY <1>2, <1>3 DEF ToDelete
<1>5. pop.status = "CONNECTED" /\ Answering
  <2>1. pop.status = "CONNECTED"
    BY <1>2 DEF Status, At
  <2>2. server.state # "authorization"
    BY <1>2, <2>1 DEF LoggedIn, At
  <2> QED BY <1>2, <2>1, <2>2 DEF Typed, ServerOK, Answering
<1>6. hdrs[u].refno = IF u \in server.box THEN Number(server.box, u) ELSE -1
  BY <1>2, <1>5 DEF Agreed, At
<1>7. CASE u \in server.box
  <2>1. Number(server.box, u) # -1
    <3>1. server.box \in SUBSET Uids
      BY BoxUids DEF Typed
    <3>2. Number(server.box, u) \in 1 .. MaxMsgs
      BY <1>7, <3>1, NumberType
    <3> QED BY <3>2, BoundsAssumption
  <2>2. Number(server.box, u) \in server.dele
    BY <1>2, <1>4, <1>5, <1>6, <1>7, <2>1 DEF Passed
  <2> QED BY <1>2, <1>7, <2>2 DEF Without
<1>8. CASE u \notin server.box
  <2>1. u \in drop
    BY <1>2 DEF Without
  <2>2. u < u
    BY <1>5, <1>8, <2>1 DEF Locked
  <2>3. u \in Int
    BY DEF Typed, HeadersOK
  <2> QED BY <2>2, <2>3
<1> QED BY <1>7, <1>8

\* A message that leaves the index while the mailbox stays open has left the maildrop,
\* whatever was lost on the way: pop_sync_mailbox() starts again from its first
\* message.  (A check whose login is refused keeps the status POP_CONNECTED, and a sync
\* after it takes the session for one it may use.)
THEOREM IndexLeaves == LoginRefused = FALSE => (Spec => [][Removal]_vars)
<1> SUFFICES ASSUME LoginRefused = FALSE PROVE Spec => [][Removal]_vars
  OBVIOUS
<1>1. Base /\ [Next]_vars => [Removal]_vars
  BY StepsRemove
<1> QED BY <1>1, BaseCorrect, PTL DEF Spec

(***************************************************************************)
(* The two caches of messages.                                             *)
(***************************************************************************)
\* The files in $message_cachedir.
Bodies == \A u \in DOMAIN bcache : bcache[u] = u

\* Only a message that is shown at the prompt is shown.
Blank == pc.op # "none" => pc.shown = {}

\* While nothing but mutt removes messages, the index of a header is its position in
\* some listing, later messages stand later, and no message has moved up beyond its
\* header.
Positions ==
  /\ Known \subseteq drop
  /\ \A u, v \in Known : u < v => hdrs[u].index < hdrs[v].index
  /\ \A u \in Known : Number(drop, u) - 1 <= hdrs[u].index

\* A slot of POP's own cache holds the message whose header has its index.
Slotted ==
  \A s \in Slots :
    LET slot == cache[s]
    IN slot.body # NoBody => slot.body \in Known /\ hdrs[slot.body].index = slot.index

\* Only a sync and <fetch-mail> delete messages on the server, and a sync those only
\* that it has come past and that are marked.
Tidy ==
  /\ pc.op \notin {"sync", "getmail"} => server.dele = {}
  /\ pc.op = "sync" /\ pc.at # "dele" => server.dele = {}
  /\ pc.op = "sync" => \A u \in pc.done : hdrs[u].deleted
  /\ At("sync", "dele") /\ Answering => server.dele \subseteq {hdrs[u].refno : u \in pc.done}
  /\ pc.op = "open" => cache = EmptyCache

Caches ==
  /\ Bodies /\ Blank /\ ShownIsRight
  /\ IF On("message_cachedir") THEN cache = EmptyCache ELSE Positions /\ Slotted /\ Tidy

\* The steps that do something to the maildrop, the headers or the caches.
LEMMA OtherSteps ==
  ASSUME Typed, Next
  PROVE  /\ option' = option
         /\ \/ UNCHANGED <<drop, arrived, hdrs, cache, bcache>>
            \/ Reconnect \/ ReconnectFails \/ Logout \/ ListingFails \/ FetchHeaders
            \/ FetchMessage \/ Retrieve \/ Delete \/ SyncDele
            \/ SyncQuit \/ SyncQuitLost \/ SyncQuitRefused \/ GetQuit
            \/ Arrive \/ TakenElsewhere
<1>1. CASE Mailbox
  BY <1>1 DEF Mailbox, OpenMailbox, CheckMailbox, CloseMailbox, Connect, Reconnected, Reconnect,
    ReconnectFails, Logout, ListingFails, FetchHeaders
<1>2. CASE Reading
  BY <1>2 DEF Reading, FetchMessage, Retrieve, RetrieveFails, RetrieveLost
<1>3. CASE Syncing
  BY <1>3 DEF Syncing, Delete, Sync, SyncDele, SyncRefused, SyncLost, SyncQuit, SyncQuitLost,
    SyncQuitRefused
<1>4. CASE GetMail
  BY <1>4 DEF GetMail, FetchMail, Stat, GetMessage, GetFails, GetDele, GetRset, GetQuit, GetLost
<1>5. CASE Outside
  BY <1>5 DEF Outside, Arrive, TakenElsewhere, LoseLink
<1> QED BY <1>1, <1>2, <1>3, <1>4, <1>5 DEF Next

LEMMA KnownUids ==
  ASSUME Typed
  PROVE  /\ Known \in SUBSET Uids /\ server.box \in SUBSET Uids /\ drop \in SUBSET Uids
         /\ \A u \in Known : u \in Int /\ hdrs[u] \in Header /\ hdrs[u].index \in Nat
         /\ \A u \in Uids : u \in Int
<1>1. Known \in SUBSET Uids /\ server.box \in SUBSET Uids /\ drop \in SUBSET Uids
  BY ArrivedUids, BoxUids DEF Typed, HeadersOK
<1>2. \A u \in Known : hdrs[u] \in Header
  BY DEF Typed, HeadersOK
<1>3. \A u \in Known : hdrs[u].index \in Nat
  BY <1>2, HeaderParts
<1>4. \A u \in Uids : u \in Int
  BY BoundsAssumption DEF Uids
<1> QED BY <1>1, <1>2, <1>3, <1>4

\* In a session, the headers are those of messages of it, whose numbers are those of
\* the maildrop.
LEMMA KnownInBox ==
  ASSUME Typed, Locked, Positions, Answering, NEW u \in Known
  PROVE  /\ u \in server.box /\ Number(drop, u) = Number(server.box, u)
         /\ Number(server.box, u) \in 1 .. MaxMsgs
<1>1. u \in server.box
  <2>1. u \in drop /\ u \in Int
    BY KnownUids DEF Positions
  <2>2. u \notin server.box => u < u
    BY <2>1 DEF Locked
  <2> QED BY <2>1, <2>2
<1>2. server.box \subseteq drop /\ \A v \in drop \ server.box : u < v
  BY <1>1 DEF Locked
<1>3. Number(drop, u) = Number(server.box, u)
  BY <1>1, <1>2, KnownUids, NumberStays
<1>4. Number(server.box, u) \in 1 .. MaxMsgs
  BY <1>1, KnownUids, NumberType
<1> QED BY <1>1, <1>3, <1>4

\* A listing of which k lines arrive gives each header its position, or leaves it.
LEMMA ListedLine ==
  ASSUME Typed, Locked, Positions, NEW k \in Nat, NEW u \in Known
  PROVE  /\ Number(drop, u) \in 1 .. MaxMsgs
         /\ Line(server.box, u, k)
              = IF Answering /\ Number(drop, u) <= k THEN Number(drop, u) ELSE -1
<1>1. Number(drop, u) \in 1 .. MaxMsgs
  BY KnownUids, NumberType DEF Positions
<1>2. CASE Answering
  <2>1. u \in server.box /\ Number(server.box, u) = Number(drop, u)
    BY <1>2, KnownInBox
  <2> QED BY <1>1, <1>2, <2>1 DEF Line
<1>3. CASE ~Answering
  <2>1. server.box = {}
    BY <1>3 DEF Locked
  <2> QED BY <1>1, <1>3, <2>1 DEF Line
<1> QED BY <1>2, <1>3

LEMMA RelistedStays ==
  ASSUME Typed, Locked, Positions, NEW k \in Nat, Relisted(k), Known' = Known, drop' = drop
  PROVE  Positions'
<1> DEFINE n(u) == Number(drop, u)
           placed(u) == IF Answering /\ n(u) <= k THEN n(u) - 1 ELSE hdrs[u].index
<1>1. \A u \in Known : n(u) \in 1 .. MaxMsgs /\ hdrs[u].index \in Nat /\ n(u) - 1 <= hdrs[u].index
  BY ListedLine, KnownUids DEF Positions
<1>2. \A u \in Known : hdrs'[u].index = placed(u)
  <2> TAKE u \in Known
  <2>1. Line(server.box, u, k) = IF Answering /\ n(u) <= k THEN n(u) ELSE -1
    BY ListedLine
  <2>2. hdrs'[u].index = IF Line(server.box, u, k) = -1 THEN hdrs[u].index ELSE Line(server.box, u, k) - 1
    BY DEF Relisted
  <2>3. n(u) # -1
    BY <1>1, BoundsAssumption
  <2> QED BY <2>1, <2>2, <2>3
<1>3. ASSUME NEW u \in Known, NEW v \in Known, u < v PROVE placed(u) < placed(v)
  <2>1. n(u) < n(v)
    BY <1>3, KnownUids, NumberGrows DEF Positions
  <2>2. hdrs[u].index < hdrs[v].index
    BY <1>3 DEF Positions
  <2>3. n(u) \in Int /\ n(v) \in Int
    BY <1>1, BoundsAssumption
  <2>4. n(v) - 1 <= hdrs[v].index /\ n(u) - 1 <= hdrs[u].index
    BY <1>1
  <2>5. hdrs[u].index \in Int /\ hdrs[v].index \in Int
    BY <1>1
  <2> HIDE DEF n
  <2> QED BY <2>1, <2>2, <2>3, <2>4, <2>5
<1>4. ASSUME NEW u \in Known PROVE n(u) - 1 <= placed(u)
  <2>1. n(u) \in Int /\ n(u) - 1 <= hdrs[u].index
    BY <1>1, BoundsAssumption
  <2> HIDE DEF n
  <2> QED BY <2>1
<1>5. \A u \in Known : Number(drop', u) = n(u)
  OBVIOUS
<1>6. Known' \subseteq drop'
  BY DEF Positions
<1> HIDE DEF placed, n
<1>7. \A u, v \in Known' : u < v => hdrs'[u].index < hdrs'[v].index
  BY <1>2, <1>3
<1>8. \A u \in Known' : Number(drop', u) - 1 <= hdrs'[u].index
  BY <1>2, <1>4, <1>5
<1> QED BY <1>6, <1>7, <1>8 DEF Positions, Number

LEMMA FetchedStays ==
  ASSUME Typed, Locked, Positions, FetchHeaders
  PROVE  Positions'
<1>1. /\ Answering /\ drop' = drop /\ Known' \in SUBSET (Known \cup server.box)
      /\ Relisted(Cardinality(server.box))
      /\ \A u \in Known' \ Known : hdrs'[u].index = Number(server.box, u) - 1
  BY FetchHeadersDoes
<1>2. \A u \in Known' : u \in server.box
  BY <1>1, KnownInBox
<1>3. ASSUME NEW u \in Known'
      PROVE  hdrs'[u].index = Number(server.box, u) - 1
  <2>1. CASE u \in Known
    <3>1. Line(server.box, u, Cardinality(server.box)) = Number(server.box, u)
      BY <1>2, KnownUids, FullLine
    <3>2. Number(server.box, u) # -1
      BY <1>1, <2>1, KnownInBox, BoundsAssumption
    <3> QED BY <1>1, <2>1, <3>1, <3>2 DEF Relisted
  <2>2. CASE u \notin Known
    BY <1>1, <2>2
  <2> QED BY <2>1, <2>2
<1>4. ASSUME NEW u \in Known' PROVE Number(drop, u) = Number(server.box, u)
  <2>1. u \in server.box /\ server.box \subseteq drop /\ \A v \in drop \ server.box : u < v
    BY <1>1, <1>2 DEF Locked
  <2> QED BY <2>1, KnownUids, NumberStays
<1>5. Known' \subseteq drop'
  BY <1>1, <1>2 DEF Locked
<1>6. ASSUME NEW u \in Known', NEW v \in Known', u < v
      PROVE  hdrs'[u].index < hdrs'[v].index
  <2>1. u \in server.box /\ v \in server.box /\ server.box \in SUBSET Uids
    BY <1>2, KnownUids
  <2>2. Number(server.box, u) < Number(server.box, v)
    BY <1>6, <2>1, NumberGrows
  <2>3. Number(server.box, u) \in Int /\ Number(server.box, v) \in Int
    BY <2>1, NumberType
  <2> QED BY <1>3, <2>2, <2>3
<1>7. ASSUME NEW u \in Known' PROVE Number(drop', u) - 1 <= hdrs'[u].index
  <2>1. Number(server.box, u) \in Int
    <3>1. u \in server.box /\ server.box \in SUBSET Uids
      BY <1>2, KnownUids
    <3>2. Number(server.box, u) \in 1 .. MaxMsgs
      BY <3>1, NumberType
    <3> QED BY <3>2
  <2>2. Number(drop', u) = Number(server.box, u)
    BY <1>1, <1>4
  <2> QED BY <1>3, <2>1, <2>2
<1> QED BY <1>5, <1>6, <1>7 DEF Positions, Number

\* Headers go or stay, and so do messages; or one arrives.
LEMMA KeptStays ==
  ASSUME Typed, Typed', Positions, Known' \in SUBSET Known, Known' \in SUBSET drop',
         \A u \in Known' : hdrs'[u].index = hdrs[u].index,
         \/ drop' \in SUBSET drop
         \/ drop \subseteq drop' /\ \A u \in Known, v \in drop' \ drop : u < v
  PROVE  Positions'
<1>1. ASSUME NEW u \in Known'
      PROVE  Number(drop', u) \in Int /\ Number(drop, u) \in Int /\ Number(drop', u) <= Number(drop, u)
  <2>1. u \in drop /\ u \in drop' /\ drop \in SUBSET Uids /\ drop' \in SUBSET Uids
    <3>1. drop' \in SUBSET Uids
      <4>1. drop' \in SUBSET (1 .. arrived') /\ arrived' \in 0 .. MaxMsgs
        BY DEF Typed, MailOK
      <4> QED BY <4>1, BoundsAssumption DEF Uids
    <3>2. drop \in SUBSET Uids
      BY KnownUids
    <3> QED BY <3>1, <3>2 DEF Positions
  <2>2. Number(drop, u) \in Int /\ Number(drop', u) \in Int
    BY <2>1, NumberType
  <2>3. CASE drop' \in SUBSET drop
    BY <2>1, <2>2, <2>3, NumberShrinks
  <2>4. CASE drop \subseteq drop' /\ \A v \in drop' \ drop : u < v
    <3>1. Number(drop', u) = Number(drop, u)
      BY <2>1, <2>4, NumberStays
    <3> QED BY <2>2, <3>1
  <2> QED BY <2>2, <2>3, <2>4
<1>2. \A u, v \in Known' : u < v => hdrs'[u].index < hdrs'[v].index
  BY DEF Positions
<1>3. ASSUME NEW u \in Known' PROVE Number(drop', u) - 1 <= hdrs'[u].index
  <2>1. Number(drop, u) - 1 <= hdrs[u].index /\ hdrs'[u].index = hdrs[u].index
    BY DEF Positions
  <2>2. hdrs[u].index \in Int
    BY KnownUids
  <2> QED BY <1>1, <2>1, <2>2
<1> QED BY <1>2, <1>3 DEF Positions, Number

\* A sync removes what it has come past, which is marked.
LEMMA QuitKeeps ==
  ASSUME Base, Positions, Tidy, SyncQuit
  PROVE  /\ Known' = {u \in Known : ~hdrs[u].deleted} /\ \A u \in Known' : hdrs'[u] = hdrs[u]
         /\ drop' \in SUBSET drop /\ Known' \in SUBSET drop'
<1> USE DEF Base
<1>1. /\ Known' = {u \in Known : ~hdrs[u].deleted} /\ \A u \in Known' : hdrs'[u] = hdrs[u]
      /\ drop' = Without(server.dele) /\ At("sync", "dele")
  BY DEF SyncQuit, Known
<1>2. drop' \in SUBSET drop
  BY <1>1 DEF Without
<1>3. ASSUME NEW u \in Known', u \notin drop' PROVE FALSE
  <2>1. u \in Known /\ ~hdrs[u].deleted /\ u \in drop
    BY <1>1 DEF Positions
  <2>2. u \in server.box /\ Number(server.box, u) \in server.dele
    BY <1>1, <1>3, <2>1 DEF Without
  <2>3. Answering
    BY <2>2 DEF Locked
  <2>4. PICK v \in pc.done : hdrs[v].refno = Number(server.box, u)
    BY <1>1, <2>2, <2>3 DEF Tidy
  <2>5. v \in Known /\ hdrs[v].deleted
    BY <1>1, <2>4 DEF Tidy, At, Typed, PlaceOK, Place
  <2>6. hdrs[v].refno = Number(server.box, v)
    <3>1. pop.open /\ pop.status = "CONNECTED"
      BY <1>1 DEF Control, Status, At
    <3>2. v \in server.box
      BY <2>3, <2>5, KnownInBox
    <3> QED BY <1>1, <2>3, <2>5, <3>1, <3>2 DEF Agreed, At
  <2>7. u = v
    <3>1. v \in server.box /\ server.box \in SUBSET Uids
      BY <2>3, <2>5, KnownInBox, KnownUids
    <3>2. Number(server.box, u) = Number(server.box, v)
      BY <2>4, <2>6
    <3> QED BY <2>2, <3>1, <3>2, NumberInjective
  <2> QED BY <2>1, <2>5, <2>7
<1> QED BY <1>1, <1>2, <1>3

LEMMA NothingRemoved ==
  ASSUME server.dele = {} PROVE Without(server.dele) = drop
  BY DEF Without

LEMMA PositionsStay ==
  ASSUME Base, Base', ~Vanishing, Positions, Tidy, Next
  PROVE  Positions'
<1> USE DEF Base
<1> DEFINE Kept == Known' = Known /\ \A u \in Known : hdrs'[u].index = hdrs[u].index
<1>1. ASSUME Kept, UNCHANGED drop PROVE Positions'
  BY <1>1, KeptStays DEF Positions
<1>2. CASE UNCHANGED <<drop, arrived, hdrs, cache, bcache>>
  BY <1>1, <1>2 DEF Known
<1>3. CASE Reconnect
  BY <1>1, <1>3, ReconnectDoes DEF Renumbered
<1>4. CASE ReconnectFails
  <2>1. UNCHANGED drop /\ Kept
    BY <1>4, ReconnectFailsDoes DEF Renumbered, Known
  <2> QED BY <1>1, <2>1
<1>5. CASE Logout
  <2>1. CASE pc.op = "check"
    <3>1. server.dele = {} /\ UNCHANGED hdrs
      BY <1>5, <2>1 DEF Logout, Tidy
    <3>2. UNCHANGED drop
      BY <1>5, <3>1, NothingRemoved DEF Logout
    <3> QED BY <1>1, <3>1, <3>2 DEF Known
  <2>2. CASE pc.op # "check"
    <3>1. Known' = {}
      BY <1>5, <2>2 DEF Logout, Known
    <3> QED BY <3>1 DEF Positions
  <2> QED BY <2>1, <2>2
<1>6. CASE ListingFails
  <2>1. UNCHANGED drop /\ Known' = Known
    BY <1>6, ListingFailsDoes
  <2>2. PICK k \in Nat : Relisted(k)
    <3>1. Cardinality(server.box) \in Nat
      BY KnownUids, Finite
    <3>2. 0 \in Nat /\ \A k \in 0 .. Cardinality(server.box) : k \in Nat
      BY <3>1
    <3>3. Relisted(0) \/ \E k \in 0 .. Cardinality(server.box) : Relisted(k)
      BY <1>6, ListingFailsDoes
    <3> QED BY <3>2, <3>3
  <2> QED BY <2>1, <2>2, RelistedStays
<1>7. CASE FetchHeaders
  BY <1>7, FetchedStays
<1>8. CASE FetchMessage
  BY <1>1, <1>8, FetchMessageDoes DEF Known
<1>9. CASE Retrieve
  BY <1>1, <1>9 DEF Retrieve, Known
<1>10. CASE Delete
  BY <1>1, <1>10, DeleteDoes
<1>11. CASE SyncDele
  BY <1>1, <1>11, SyncDeleDoes DEF Known
<1>12. CASE SyncQuit
  <2>1. \A u \in Known' : hdrs'[u].index = hdrs[u].index
    BY <1>12, QuitKeeps
  <2> QED BY <1>12, <2>1, QuitKeeps, KeptStays
<1>13. CASE SyncQuitLost
  <2>1. UNCHANGED <<drop, hdrs>>
    BY <1>13, NothingRemoved DEF SyncQuitLost
  <2> QED BY <1>1, <2>1 DEF Known
<1>14. CASE SyncQuitRefused \/ TakenElsewhere
  BY <1>14 DEF SyncQuitRefused, TakenElsewhere
<1>15. CASE GetQuit
  <2>1. Known' = {}
    BY <1>15 DEF GetQuit, Control, Closed, Known
  <2> QED BY <2>1 DEF Positions
<1>16. CASE Arrive
  <2>1. Known' = Known /\ UNCHANGED hdrs /\ drop' = drop \cup {arrived + 1}
    BY <1>16 DEF Arrive, Known
  <2>2. \A u \in Known : u < arrived + 1
    BY DEF Typed, HeadersOK, MailOK
  <2> QED BY <2>1, <2>2, KeptStays DEF Positions
<1> QED BY <1>2, <1>3, <1>4, <1>5, <1>6, <1>7, <1>8, <1>9, <1>10, <1>11, <1>12, <1>13, <1>14, <1>15, <1>16,
  OtherSteps

\* Each slot still holds the message of its header, or is empty.
LEMMA SlotsKept ==
  ASSUME Slotted,
         \A s \in Slots : cache'[s] = cache[s] \/ cache'[s].body = NoBody,
         \A s \in Slots : cache[s].body # NoBody /\ cache'[s] = cache[s] =>
           cache[s].body \in Known' /\ hdrs'[cache[s].body].index = hdrs[cache[s].body].index
  PROVE  Slotted'
  BY DEF Slotted

LEMMA SlotsEmpty == cache' = EmptyCache => Slotted'
  BY DEF Slotted, EmptyCache

LEMMA SlottedStays ==
  ASSUME Base, ~Vanishing, Positions, Tidy, Slotted, Next
  PROVE  Slotted'
<1> USE DEF Base
<1> DEFINE Kept == Known' = Known /\ \A u \in Known : hdrs'[u].index = hdrs[u].index
<1>1. ASSUME Kept, UNCHANGED cache PROVE Slotted'
  <2>1. \A s \in Slots : cache[s].body # NoBody => cache[s].body \in Known
    BY DEF Slotted
  <2> QED BY <1>1, <2>1, SlotsKept
<1>2. CASE UNCHANGED <<drop, arrived, hdrs, cache, bcache>>
  BY <1>1, <1>2 DEF Known
<1>3. CASE Reconnect
  BY <1>1, <1>3, ReconnectDoes DEF Renumbered
<1>4. CASE ReconnectFails
  <2>1. UNCHANGED cache /\ Kept
    BY <1>4, ReconnectFailsDoes DEF Renumbered, Known
  <2> QED BY <1>1, <2>1
<1>5. CASE Logout
  <2>1. CASE pc.op = "check"
    BY <1>1, <1>5, <2>1 DEF Logout, Known
  <2>2. CASE pc.op # "check"
    BY <1>5, <2>2, SlotsEmpty DEF Logout
  <2> QED BY <2>1, <2>2
<1>6. ASSUME NEW k, CacheFollows(k), Relisted(k), Known \subseteq Known', pc.op = "check"
      PROVE  Slotted'
  <2>1. CASE cache' = EmptyCache
    BY <2>1, SlotsEmpty
  <2>2. CASE UNCHANGED cache /\ \A u \in Known : ListedHeader(u, k).index = hdrs[u].index
    <3>1. \A u \in Known : hdrs'[u].index = ListedHeader(u, k).index
      BY <1>6, ListedHeaderType DEF Typed, Relisted
    <3>2. \A s \in Slots : cache[s].body # NoBody => cache[s].body \in Known
      BY DEF Slotted
    <3> QED BY <1>6, <2>2, <3>1, <3>2, SlotsKept
  <2> QED BY <1>6, <2>1, <2>2 DEF CacheFollows
<1>7. ASSUME NEW k, CacheFollows(k) \/ UNCHANGED cache, pc.op = "open" PROVE Slotted'
  BY <1>7, SlotsEmpty DEF CacheFollows, Tidy
<1>8. CASE ListingFails
  <2>1. pc.op \in {"open", "check"}
    BY <1>8, ListingFailsDoes DEF Control
  <2>2. CASE pc.op = "open"
    BY <1>7, <1>8, <2>2, ListingFailsDoes
  <2>3. CASE pc.op = "check"
    <3>1. PICK k : Relisted(k) /\ CacheFollows(k)
      BY <1>8, <2>3, ListingFailsDoes
    <3> QED BY <1>6, <1>8, <2>3, <3>1, ListingFailsDoes
  <2> QED BY <2>1, <2>2, <2>3
<1>9. CASE FetchHeaders
  <2>1. pc.op \in {"open", "check"}
    BY <1>9, FetchHeadersDoes DEF Control
  <2>2. Relisted(Cardinality(server.box)) /\ CacheFollows(Cardinality(server.box)) /\ Known \subseteq Known'
    BY <1>9, FetchHeadersDoes
  <2> QED BY <1>6, <1>7, <2>1, <2>2
<1>10. CASE FetchMessage
  <2>1. UNCHANGED hdrs /\ pc'.i \in Known
    BY <1>10, FetchMessageDoes
  <2>2. CASE UNCHANGED cache
    BY <1>1, <2>1, <2>2 DEF Known
  <2>3. CASE cache' = [cache EXCEPT ![SlotOf(hdrs[pc'.i])] = EmptyCache[SlotOf(hdrs[pc'.i])]]
    <3> DEFINE place == SlotOf(hdrs[pc'.i])
    <3>1. place \in Slots /\ EmptyCache[place].body = NoBody
      BY <2>1, KnownUids, SlotTypes DEF Typed
    <3>2. \A s \in Slots : cache'[s] = IF s = place THEN EmptyCache[place] ELSE cache[s]
      BY <2>3, <3>1 DEF Typed, CacheOK
    <3>3. \A s \in Slots : cache[s].body # NoBody => cache[s].body \in Known'
      BY <2>1 DEF Slotted, Known
    <3> HIDE DEF place
    <3> QED BY <2>1, <3>1, <3>2, <3>3, SlotsKept
  <2> QED BY <1>10, <2>2, <2>3, FetchMessageDoes
<1>11. CASE Retrieve
  <2>1. UNCHANGED hdrs /\ pc.i \in Known
    BY <1>11, RetrieveDoes
  <2>2. CASE UNCHANGED cache
    BY <1>1, <2>1, <2>2 DEF Known
  <2>3. CASE cache' = [cache EXCEPT ![SlotOf(hdrs[pc.i])] = [index |-> hdrs[pc.i].index, body |-> pc.i]]
    <3> DEFINE place == SlotOf(hdrs[pc.i])
               kept == [index |-> hdrs[pc.i].index, body |-> pc.i]
    <3>1. \A s \in Slots : cache'[s] = IF s = place THEN kept ELSE cache[s]
      BY <2>3 DEF Typed, CacheOK
    <3>2. kept.body = pc.i /\ kept.index = hdrs[pc.i].index
      OBVIOUS
    <3> HIDE DEF place, kept
    <3> QED BY <2>1, <3>1, <3>2 DEF Slotted, Known
  <2> QED BY <1>11, <2>2, <2>3, RetrieveDoes
<1>12. CASE Delete
  BY <1>1, <1>12, DeleteDoes
<1>13. CASE SyncDele
  BY <1>1, <1>13, SyncDeleDoes DEF Known
<1>14. CASE SyncQuit
  BY <1>14, SlotsEmpty DEF SyncQuit
<1>15. CASE SyncQuitLost
  BY <1>1, <1>15 DEF SyncQuitLost, Known
<1>16. CASE SyncQuitRefused \/ TakenElsewhere
  BY <1>16 DEF SyncQuitRefused, TakenElsewhere
<1>17. CASE GetQuit
  BY <1>1, <1>17 DEF GetQuit, Known
<1>18. CASE Arrive
  BY <1>1, <1>18 DEF Arrive, Known
<1> QED BY <1>2, <1>3, <1>4, <1>5, <1>8, <1>9, <1>10, <1>11, <1>12, <1>13, <1>14, <1>15, <1>16, <1>17, <1>18,
  OtherSteps

LEMMA BodiesStay ==
  ASSUME Base, Bodies, Next
  PROVE  Bodies'
<1> USE DEF Base, Bodies
<1>1. CASE UNCHANGED bcache
  BY <1>1
<1>2. CASE DOMAIN bcache' \in SUBSET DOMAIN bcache /\ \A u \in DOMAIN bcache' : bcache'[u] = bcache[u]
  BY <1>2
<1>3. CASE bcache' = [u \in DOMAIN bcache \cup {pc.i} |-> IF u = pc.i THEN pc.i ELSE bcache[u]]
  BY <1>3
<1>4. CASE FetchHeaders
  BY <1>2, <1>4, FetchHeadersDoes
<1>5. CASE Retrieve
  BY <1>1, <1>3, <1>5, RetrieveDoes
<1>6. CASE SyncDele
  BY <1>2, <1>6, SyncDeleDoes
<1>7. CASE Logout \/ SyncQuit \/ SyncQuitLost \/ SyncQuitRefused \/ GetQuit \/ Arrive \/ TakenElsewhere
  BY <1>1, <1>7 DEF Logout, SyncQuit, SyncQuitLost, SyncQuitRefused, GetQuit, Arrive, TakenElsewhere
<1>8. CASE Reconnect \/ ReconnectFails \/ ListingFails \/ FetchMessage \/ Delete
  BY <1>1, <1>8 DEF Reconnect, ReconnectFails, ListingFails, FetchMessage, Delete
<1> QED BY <1>1, <1>4, <1>5, <1>6, <1>7, <1>8, OtherSteps

\* With $message_cachedir, POP's own cache is not used.
LEMMA EmptyStays ==
  ASSUME Base, StaleCache = FALSE, On("message_cachedir"), cache = EmptyCache, Next
  PROVE  cache' = EmptyCache
<1> USE DEF Base
<1>1. CASE ListingFails
  BY <1>1, ListingFailsDoes DEF CacheFollows
<1>2. CASE FetchHeaders
  BY <1>2, FetchHeadersDoes DEF CacheFollows
<1>3. CASE FetchMessage
  <2>1. CASE UNCHANGED cache
    BY <2>1
  <2>2. CASE cache' = [cache EXCEPT ![SlotOf(hdrs[pc'.i])] = EmptyCache[SlotOf(hdrs[pc'.i])]]
    BY <2>2 DEF EmptyCache
  <2> QED BY <1>3, <2>1, <2>2, FetchMessageDoes
<1>4. CASE Retrieve
  BY <1>4, RetrieveDoes
<1>5. CASE Logout \/ SyncQuit \/ SyncQuitLost \/ SyncQuitRefused \/ GetQuit \/ Arrive \/ TakenElsewhere
  BY <1>5 DEF Logout, SyncQuit, SyncQuitLost, SyncQuitRefused, GetQuit, Arrive, TakenElsewhere
<1>6. CASE Reconnect \/ ReconnectFails \/ Delete \/ SyncDele
  BY <1>6 DEF Reconnect, ReconnectFails, Delete, SyncDele
<1> QED BY <1>1, <1>2, <1>3, <1>4, <1>5, <1>6, OtherSteps

\* What mutt shows is the message, from whichever cache.
LEMMA ShowsIt ==
  ASSUME Base, Caches, FetchMessage
  PROVE  pc'.shown \subseteq {pc'.i}
<1> DEFINE slot == cache[SlotOf(hdrs[pc'.i])]
<1>1. Typed /\ pc'.i \in Known
  BY FetchMessageDoes DEF Base
<1>2. CASE pc'.i \in DOMAIN bcache /\ pc'.shown = {bcache[pc'.i]}
  BY <1>2 DEF Caches, Bodies
<1>3. CASE slot.body # NoBody /\ slot.index = hdrs[pc'.i].index /\ pc'.shown = {slot.body}
  <2>1. SlotOf(hdrs[pc'.i]) \in Slots /\ EmptyCache[SlotOf(hdrs[pc'.i])].body = NoBody
    BY <1>1, KnownUids, SlotTypes DEF Typed
  <2>2. Positions /\ Slotted
    BY <1>3, <2>1 DEF Caches
  <2>3. slot.body \in Known /\ hdrs[slot.body].index = hdrs[pc'.i].index
    BY <1>3, <2>1, <2>2 DEF Slotted
  <2> DEFINE body == slot.body
  <2>4. body \in Known /\ hdrs[body].index = hdrs[pc'.i].index /\ pc'.shown = {body}
    BY <1>3, <2>3
  <2> HIDE DEF slot, body
  <2>5. body \in Int /\ pc'.i \in Int /\ hdrs[body].index \in Int /\ hdrs[pc'.i].index \in Int
    BY <1>1, <2>4, KnownUids
  <2>6. ~(body < pc'.i) /\ ~(pc'.i < body)
    BY <1>1, <2>2, <2>4, <2>5 DEF Positions
  <2>7. body = pc'.i
    BY <2>5, <2>6
  <2> QED BY <2>4, <2>7
<1>4. CASE pc'.shown = {}
  BY <1>4
<1> QED BY <1>1, <1>2, <1>3, <1>4, FetchMessageDoes

LEMMA ShownStays ==
  ASSUME Base, Caches, Next
  PROVE  Blank' /\ ShownIsRight'
<1> USE DEF Blank, ShownIsRight, Control, At, Ready, Base, Goto, Begin, Finish, Idle, Show, NoData, NoSession, Login, Session, Typed, PlaceOK, Place, PopOK, ServerOK
<1>0. Blank /\ ShownIsRight
  BY DEF Caches
<1>1. CASE Mailbox
  <2>1. CASE OpenMailbox
    BY <1>0, <2>1 DEF OpenMailbox, Known, Answering, ghosts
  <2>2. CASE CheckMailbox
    BY <1>0, <2>2 DEF CheckMailbox, Known, Answering, ghosts
  <2>3. CASE CloseMailbox
    BY <1>0, <2>3 DEF CloseMailbox, Known, Answering, ghosts
  <2>4. CASE Connect
    BY <1>0, <2>4, ConnectDoes DEF Known, Answering, ghosts, LinkBegins, FailLeads, Rest, Fresh, Leads
  <2>5. CASE Reconnected
    BY <1>0, <2>5 DEF Reconnected, Known, Answering, ghosts, Resume
  <2>6. CASE Reconnect
    BY <1>0, <2>6, ReconnectDoes DEF Known, Answering, ghosts, LinkBegins, Rest, Leads, Resume, Renumbered
  <2>7. CASE ReconnectFails
    BY <1>0, <2>7, ReconnectFailsDoes DEF Known, Answering, ghosts, LinkEnds, FailLeads, Leads, Rest, Fresh, Renumbered
  <2>8. CASE Logout
    BY <1>0, <2>8 DEF Logout, Known, Answering, ghosts
  <2>9. CASE ListingFails
    BY <1>0, <2>9, ListingFailsDoes DEF Known, Answering, ghosts, LinkEnds, Rest, Fresh, Leads
  <2>10. CASE FetchHeaders
    BY <1>0, <2>10, FetchHeadersDoes DEF Known, Answering, ghosts, LinkEnds, FailLeads, Rest, Fresh, Leads
  <2> QED BY <1>1, <2>1, <2>2, <2>3, <2>4, <2>5, <2>6, <2>7, <2>8, <2>9, <2>10 DEF Mailbox
<1>2. CASE Reading
  <2>1. CASE FetchMessage
    <3>1. pc'.shown \subseteq {pc'.i}
      BY <2>1, ShowsIt
    <3>2. pc'.op # "none" => pc'.shown = {}
      BY <1>0, <2>1, FetchMessageDoes DEF Leads
    <3> QED BY <3>1, <3>2
  <2>2. CASE Retrieve
    <3>1. pc'.op = "none" /\ pc'.shown = {pc'.i}
      BY <1>0, <2>2, RetrieveDoes DEF Leads
    <3> QED BY <3>1
  <2>3. CASE RetrieveFails
    BY <1>0, <2>3 DEF RetrieveFails, Known, Answering, ghosts
  <2>4. CASE RetrieveLost
    BY <1>0, <2>4 DEF RetrieveLost, Known, Answering, ghosts, Lost
  <2> QED BY <1>2, <2>1, <2>2, <2>3, <2>4 DEF Reading
<1>3. CASE Syncing
  <2>1. CASE Delete
    BY <1>0, <2>1 DEF Delete, Known, Answering, ghosts
  <2>2. CASE Sync
    BY <1>0, <2>2 DEF Sync, Known, Answering, ghosts
  <2>3. CASE SyncDele
    BY <1>0, <2>3, SyncDeleDoes DEF Known, Answering, ghosts, Leads
  <2>4. CASE SyncRefused
    BY <1>0, <2>4 DEF SyncRefused, Known, Answering, ghosts
  <2>5. CASE SyncLost
    BY <1>0, <2>5 DEF SyncLost, Known, Answering, ghosts, Lost
  <2>6. CASE SyncQuit
    BY <1>0, <2>6 DEF SyncQuit, Known, Answering, ghosts
  <2>7. CASE SyncQuitLost
    BY <1>0, <2>7 DEF SyncQuitLost, Known, Answering, ghosts
  <2>8. CASE SyncQuitRefused
    BY <1>0, <2>8 DEF SyncQuitRefused, Known, Answering, ghosts
  <2> QED BY <1>3, <2>1, <2>2, <2>3, <2>4, <2>5, <2>6, <2>7, <2>8 DEF Syncing
<1>4. CASE GetMail
  <2>1. CASE FetchMail
    BY <1>0, <2>1 DEF FetchMail, Known, Answering, ghosts
  <2>2. CASE Stat
    BY <1>0, <2>2 DEF Stat, Known, Answering, ghosts
  <2>3. CASE GetMessage
    BY <1>0, <2>3, GetMessageDoes DEF Known, Answering, ghosts
  <2>4. CASE GetFails
    BY <1>0, <2>4 DEF GetFails, Known, Answering, ghosts
  <2>5. CASE GetDele
    BY <1>0, <2>5, GetDeleDoes DEF Known, Answering, ghosts
  <2>6. CASE GetRset
    BY <1>0, <2>6 DEF GetRset, Known, Answering, ghosts
  <2>7. CASE GetQuit
    BY <1>0, <2>7 DEF GetQuit, Known, Answering, ghosts
  <2>8. CASE GetLost
    BY <1>0, <2>8 DEF GetLost, Known, Answering, ghosts
  <2> QED BY <1>4, <2>1, <2>2, <2>3, <2>4, <2>5, <2>6, <2>7, <2>8 DEF GetMail
<1>5. CASE Outside
  <2>1. CASE Arrive
    BY <1>0, <2>1 DEF Arrive, Known, Answering, ghosts
  <2>2. CASE TakenElsewhere
    BY <1>0, <2>2 DEF TakenElsewhere, Known, Answering, ghosts
  <2>3. CASE LoseLink
    BY <1>0, <2>3 DEF LoseLink, Known, Answering, ghosts
  <2> QED BY <1>5, <2>1, <2>2, <2>3 DEF Outside
<1> QED BY <1>1, <1>2, <1>3, <1>4, <1>5 DEF Next

LEMMA TidyStays ==
  ASSUME Base, ~Vanishing, Tidy, Next
  PROVE  Tidy'
<1> USE DEF Tidy, Control, At, Ready, Base, Goto, Begin, Finish, Idle, Show, NoData, NoSession, Login, Session, Typed, PlaceOK, Place, PopOK, ServerOK
<1>0. ~Answering => server.dele = {}
  BY DEF Locked
<1>1. CASE Mailbox
  <2>1. CASE OpenMailbox
    <3>1. cache' = EmptyCache /\ server'.dele = {}
      BY <1>0, <2>1 DEF OpenMailbox, Closed
    <3> QED BY <1>0, <2>1, <3>1 DEF OpenMailbox
  <2>2. CASE CheckMailbox
    BY <1>0, <2>2 DEF CheckMailbox, Known, Answering, ghosts
  <2>3. CASE CloseMailbox
    BY <1>0, <2>3 DEF CloseMailbox, Known, Answering, ghosts
  <2>4. CASE Connect
    BY <1>0, <2>4, ConnectDoes DEF Known, Answering, ghosts, LinkBegins, FailLeads, Rest, Fresh, Leads
  <2>5. CASE Reconnected
    BY <1>0, <2>5 DEF Reconnected, Known, Answering, ghosts, Resume
  <2>6. CASE Reconnect
    <3>1. server'.dele = {} /\ pc'.op = pc.op /\ pc'.done = pc.done /\ UNCHANGED cache
      BY <1>0, <2>6, ReconnectDoes DEF LinkBegins, Rest, Leads
    <3>2. pc.op = "sync" => \A u \in pc.done : hdrs'[u].deleted
      BY <1>0, <2>6, ReconnectDoes DEF Renumbered
    <3> QED BY <3>1, <3>2
  <2>7. CASE ReconnectFails
    <3>1. server'.dele = {} /\ UNCHANGED cache
      BY <1>0, <2>7, ReconnectFailsDoes DEF LinkEnds
    <3>2. \A u \in pc.done : hdrs'[u].deleted = hdrs[u].deleted
      BY <1>0, <2>7, ReconnectFailsDoes DEF Renumbered
    <3>3. UNCHANGED pc \/ pc'.op \in {"close", "none"}
      BY <1>0, <2>7, ReconnectFailsDoes DEF FailLeads, Leads
    <3> QED BY <3>1, <3>2, <3>3
  <2>8. CASE Logout
    BY <1>0, <2>8 DEF Logout, Known, Answering, ghosts
  <2>9. CASE ListingFails
    <3>1. pc.op \in {"open", "check"}
      BY <1>0, <2>9, ListingFailsDoes
    <3>3. server'.dele = {} /\ (pc'.op = "open" => pc.op = "open") /\ pc'.op \in {"none", "open", "close"}
      BY <1>0, <2>9, <3>1, ListingFailsDoes DEF LinkEnds, FailLeads, Rest, Fresh, Leads
    <3>4. pc.op = "open" => cache' = EmptyCache
      BY <1>0, <2>9, ListingFailsDoes DEF CacheFollows
    <3> QED BY <3>3, <3>4
  <2>10. CASE FetchHeaders
    <3>1. pc.op \in {"open", "check"}
      BY <1>0, <2>10, FetchHeadersDoes
    <3>3. server'.dele = {} /\ (pc'.op = "open" => pc.op = "open") /\ pc'.op \in {"none", "open", "close"}
      BY <1>0, <2>10, <3>1, FetchHeadersDoes DEF LinkEnds, FailLeads, Rest, Fresh, Leads
    <3>4. pc.op = "open" => cache' = EmptyCache
      BY <1>0, <2>10, FetchHeadersDoes DEF CacheFollows
    <3> QED BY <3>3, <3>4
  <2> QED BY <1>1, <2>1, <2>2, <2>3, <2>4, <2>5, <2>6, <2>7, <2>8, <2>9, <2>10 DEF Mailbox
<1>2. CASE Reading
  <2>1. CASE FetchMessage
    <3>1. server'.dele = {} /\ pc'.op \in {"none", "fetch"} /\ pc'.done = {}
      BY <1>0, <2>1, FetchMessageDoes DEF Leads
    <3> QED BY <3>1
  <2>2. CASE Retrieve
    <3>1. server'.dele = {} /\ pc'.op = "none" /\ pc'.done = {}
      BY <1>0, <2>2, RetrieveDoes DEF Leads
    <3> QED BY <3>1
  <2>3. CASE RetrieveFails
    BY <1>0, <2>3 DEF RetrieveFails, Known, Answering, ghosts
  <2>4. CASE RetrieveLost
    BY <1>0, <2>4 DEF RetrieveLost, Known, Answering, ghosts, Lost
  <2> QED BY <1>2, <2>1, <2>2, <2>3, <2>4 DEF Reading
<1>3. CASE Syncing
  <2>1. CASE Delete
    <3>1. server'.dele = {} /\ pc'.op = "none"
      BY <1>0, <2>1, DeleteDoes
    <3> QED BY <3>1
  <2>2. CASE Sync
    BY <1>0, <2>2 DEF Sync, Known, Answering, ghosts
  <2>3. CASE SyncDele
    <3>1. PICK u \in Known :
            /\ hdrs[u].deleted /\ hdrs[u].refno # -1
            /\ pc'.done = pc.done \cup {u} /\ server'.dele = server.dele \cup {hdrs[u].refno}
      BY <1>0, <2>3, SyncDeleDoes
    <3>2. pc.op = "sync" /\ pc.at = "dele" /\ Answering /\ UNCHANGED <<hdrs, cache>> /\ Leads("sync", "dele")
      BY <1>0, <2>3, SyncDeleDoes
    <3>3. \A v \in pc'.done : hdrs'[v].deleted
      BY <3>1, <3>2
    <3>4. server'.dele \subseteq {hdrs'[v].refno : v \in pc'.done}
      BY <3>1, <3>2
    <3> QED BY <3>2, <3>3, <3>4 DEF Leads
  <2>4. CASE SyncRefused
    BY <1>0, <2>4 DEF SyncRefused
  <2>5. CASE SyncLost
    BY <1>0, <2>5 DEF SyncLost, Known, Answering, ghosts, Lost
  <2>6. CASE SyncQuit
    BY <1>0, <2>6 DEF SyncQuit, Known, Answering, ghosts
  <2>7. CASE SyncQuitLost
    BY <1>0, <2>7 DEF SyncQuitLost, Known, Answering, ghosts
  <2>8. CASE SyncQuitRefused
    BY <1>0, <2>8 DEF SyncQuitRefused
  <2> QED BY <1>3, <2>1, <2>2, <2>3, <2>4, <2>5, <2>6, <2>7, <2>8 DEF Syncing
<1>4. CASE GetMail
  <2>1. CASE FetchMail
    BY <1>0, <2>1 DEF FetchMail, Known, Answering, ghosts
  <2>2. CASE Stat
    BY <1>0, <2>2 DEF Stat, Known, Answering, ghosts
  <2>3. CASE GetMessage
    BY <1>0, <2>3, GetMessageDoes DEF Known, Answering, ghosts
  <2>4. CASE GetFails
    BY <1>0, <2>4 DEF GetFails, Known, Answering, ghosts
  <2>5. CASE GetDele
    BY <1>0, <2>5, GetDeleDoes DEF Known, Answering, ghosts
  <2>6. CASE GetRset
    BY <1>0, <2>6 DEF GetRset, Known, Answering, ghosts
  <2>7. CASE GetQuit
    BY <1>0, <2>7 DEF GetQuit, Known, Answering, ghosts
  <2>8. CASE GetLost
    BY <1>0, <2>8 DEF GetLost, Known, Answering, ghosts
  <2> QED BY <1>4, <2>1, <2>2, <2>3, <2>4, <2>5, <2>6, <2>7, <2>8 DEF GetMail
<1>5. CASE Outside
  <2>1. CASE Arrive
    BY <1>0, <2>1 DEF Arrive, Known, Answering, ghosts
  <2>2. CASE TakenElsewhere
    BY <1>0, <2>2 DEF TakenElsewhere
  <2>3. CASE LoseLink
    BY <1>0, <2>3 DEF LoseLink, Known, Answering, ghosts
  <2> QED BY <1>5, <2>1, <2>2, <2>3 DEF Outside
<1> QED BY <1>1, <1>2, <1>3, <1>4, <1>5 DEF Next

LEMMA CachesStep ==
  ASSUME Base, Base', Caches, StaleCache = FALSE, [Next]_vars
  PROVE  Caches'
<1>1. CASE Next
  <2>1. option' = option
    BY <1>1, OtherSteps DEF Base
  <2>2. Bodies' /\ Blank' /\ ShownIsRight'
    BY <1>1, BodiesStay, ShownStays DEF Caches
  <2>3. CASE On("message_cachedir")
    BY <1>1, <2>1, <2>2, <2>3, EmptyStays DEF Caches, On
  <2>4. CASE ~On("message_cachedir")
    <3>1. ~Vanishing /\ Positions /\ Slotted /\ Tidy
      BY <2>4 DEF Caches, Vanishing
    <3>2. Positions' /\ Slotted' /\ Tidy'
      BY <1>1, <3>1, PositionsStay, SlottedStays, TidyStays
    <3> QED BY <2>1, <2>2, <2>4, <3>2 DEF Caches, On
  <2> QED BY <2>3, <2>4
<1>2. CASE UNCHANGED vars
  BY <1>2 DEF vars, Caches, Bodies, Blank, ShownIsRight, On, Positions, Slotted, Tidy, Number,
    Known, At, Answering
<1> QED BY <1>1, <1>2

LEMMA CachesInit == Init => Caches
<1> SUFFICES ASSUME Init PROVE Caches
  OBVIOUS
<1> USE DEF Init, NoSession, NoData, Idle
<1>1. Known = {} /\ DOMAIN bcache = {}
  BY DEF Known
<1>2. Bodies /\ Blank /\ ShownIsRight /\ Positions
  BY <1>1 DEF Bodies, Blank, ShownIsRight, Positions
<1>3. Slotted /\ Tidy
  BY DEF Slotted, Tidy, EmptyCache, At
<1> QED BY <1>2, <1>3 DEF Caches

\* What is shown for a header is its message: POP's own cache, which knows a message by
\* its place in the listing, is right as long as no message can vanish from the
\* maildrop in another way than by a sync of mutt's, and the files of
\* $message_cachedir, which have its UIDL, always.
THEOREM ShowsTheMessage == StaleCache = FALSE => (Spec => []ShownIsRight)
<1> SUFFICES ASSUME StaleCache = FALSE PROVE Spec => []ShownIsRight
  OBVIOUS
<1>1. Base /\ Caches /\ [Next]_vars /\ Base' => Caches'
  BY CachesStep
<1>2. Caches => ShownIsRight
  BY DEF Caches
<1> QED BY <1>1, <1>2, CachesInit, BaseCorrect, PTL DEF Spec

(***************************************************************************)
(* The behaviours of RemoteMC that are those of Pop.                       *)
(***************************************************************************)
LEMMA OnePart ==
  ASSUME [RemoteNext]_allVars
  PROVE  part' = part
<1>1. CASE UNCHANGED allVars
  BY <1>1 DEF allVars
<1>2. CASE RemoteNext
  BY <1>2 DEF RemoteNext, PopSteps, ImapMailboxSteps, ImapFlagsSteps, ImapCacheSteps, ConnectionSteps
<1> QED BY <1>1, <1>2

LEMMA PopPart ==
  /\ RemoteInit /\ part = "Pop" => Init
  /\ [RemoteNext]_allVars /\ part = "Pop" => [Next]_vars
<1>1. RemoteInit /\ part = "Pop" => Init
  BY DEF RemoteInit, PopStarts, ImapMailboxStarts, ImapFlagsStarts, ImapCacheStarts, ConnectionStarts
<1>2. RemoteNext /\ part = "Pop" => Next
  BY DEF RemoteNext, PopSteps, ImapMailboxSteps, ImapFlagsSteps, ImapCacheSteps, ConnectionSteps
<1>3. UNCHANGED allVars => UNCHANGED vars
  BY DEF allVars, own, vars, ghosts
<1> QED BY <1>1, <1>2, <1>3

\* The invariant of Pop, where Pop is the part that runs.
PopBase == part = "Pop" => Base
PopCaches == part = "Pop" => Caches

LEMMA PopBaseCorrect == RemoteSpec => []PopBase
<1>1. RemoteInit => PopBase
  BY PopPart, BaseInit DEF PopBase
<1>2. PopBase /\ [RemoteNext]_allVars => PopBase'
  BY OnePart, PopPart, BaseStep DEF PopBase
<1> QED BY <1>1, <1>2, PTL DEF RemoteSpec

\* The numbers of a POP session are those of its listing, no message is removed that
\* the user wants, and what is shown is the message of the header, as long as messages
\* do not vanish from the maildrop while $message_cachedir is unset.
THEOREM PopIsFollowed == StaleCache = FALSE => (RemoteSpec => []PopFollowed)
<1> SUFFICES ASSUME StaleCache = FALSE PROVE RemoteSpec => []PopFollowed
  OBVIOUS
<1>1. RemoteInit => PopCaches
  BY PopPart, CachesInit DEF PopCaches
<1>2. PopBase /\ PopBase' /\ PopCaches /\ [RemoteNext]_allVars => PopCaches'
  BY OnePart, PopPart, CachesStep DEF PopBase, PopCaches
<1>3. PopBase /\ PopCaches => PopFollowed
  BY DEF PopBase, PopCaches, PopFollowed, Base, Caches, Agreed, RefnoIsRight
<1> QED BY <1>1, <1>2, <1>3, PopBaseCorrect, PTL DEF RemoteSpec

\* A message that leaves the index of a POP mailbox has left the maildrop, as long as no
\* login is refused during a check.
THEOREM PopIsSynced == LoginRefused = FALSE => (RemoteSpec => PopSynced)
<1> SUFFICES ASSUME LoginRefused = FALSE PROVE RemoteSpec => PopSynced
  OBVIOUS
<1>1. PopBase /\ [RemoteNext]_allVars => [part = "Pop" => Removal]_allVars
  BY PopPart, StepsRemove DEF PopBase
<1> QED BY <1>1, PopBaseCorrect, PTL DEF RemoteSpec, PopSynced

(***************************************************************************)
(* The connections.  Connection_proofs is about any number of them; here   *)
(* its theorem is taken for the instance that RemoteMC explores, whose     *)
(* definitions are the same.                                               *)
(***************************************************************************)
ConnP == INSTANCE Connection_proofs WITH
  MaxConns <- 3, setup <- x1, Connections <- x2, conn <- x3, Context <- x4, other <- x5

LEMMA SameConnections ==
  /\ Conn!Init = ConnP!Init
  /\ Conn!Next = ConnP!Next
  /\ Conn!vars = ConnP!vars
  /\ ConnP!ConnectionsRight => Conn!ConnectionsRight
<1>1. Conn!Init = ConnP!Init
  BY DEF Conn!Init, ConnP!Init, Conn!Ids, ConnP!Ids, Conn!NewConn, ConnP!NewConn,
         Conn!None, ConnP!None
<1>2. Conn!Next = ConnP!Next
  BY DEF Conn!Next, ConnP!Next, Conn!OpenMailbox, ConnP!OpenMailbox, Conn!CloseMailbox,
        ConnP!CloseMailbox, Conn!OpenOther, ConnP!OpenOther, Conn!CloseOther,
        ConnP!CloseOther, Conn!Ask, ConnP!Ask, Conn!MailboxLost, ConnP!MailboxLost,
        Conn!imap_reconnect, ConnP!imap_reconnect, Conn!Found, ConnP!Found,
        Conn!Select, ConnP!Select, Conn!Put, ConnP!Put, Conn!imap_close_mailbox,
        ConnP!imap_close_mailbox, Conn!Lost, ConnP!Lost, Conn!Fatal, ConnP!Fatal,
        Conn!Listed, ConnP!Listed, Conn!Chosen, ConnP!Chosen, Conn!Suits, ConnP!Suits,
        Conn!LoggedIn, ConnP!LoggedIn, Conn!Authenticated, ConnP!Authenticated,
        Conn!Opened, ConnP!Opened, Conn!ForcedOr, ConnP!ForcedOr, Conn!Starttls,
        ConnP!Starttls, Conn!mutt_socket_open, ConnP!mutt_socket_open,
        Conn!mutt_socket_close, ConnP!mutt_socket_close, Conn!imap_close_connection,
        ConnP!imap_close_connection, Conn!NewConn, ConnP!NewConn, Conn!AtLeast,
        ConnP!AtLeast, Conn!Level, ConnP!Level, Conn!None, ConnP!None, Conn!Ids,
        ConnP!Ids
<1>3. Conn!vars = ConnP!vars
  BY DEF Conn!vars, ConnP!vars
<1>4. Conn!ConnectionsRight = ConnP!ConnectionsRight
  BY DEF Conn!ConnectionsRight, ConnP!ConnectionsRight, Conn!OneMailboxEach,
         ConnP!OneMailboxEach, Conn!EncryptedWhenForced, ConnP!EncryptedWhenForced,
         Conn!OpenIfUsable, ConnP!OpenIfUsable, Conn!AtLeast, ConnP!AtLeast,
         Conn!Level, ConnP!Level, Conn!Ids, ConnP!Ids, Conn!None, ConnP!None
<1> QED BY <1>1, <1>2, <1>3, <1>4

LEMMA ConnectionPart ==
  /\ RemoteInit /\ part = "Connection" => ConnP!Init
  /\ [RemoteNext]_allVars /\ part = "Connection" => [ConnP!Next]_ConnP!vars
<1>1. RemoteInit /\ part = "Connection" => Conn!Init
  BY DEF RemoteInit, PopStarts, ImapMailboxStarts, ImapFlagsStarts, ImapCacheStarts, ConnectionStarts
<1>2. RemoteNext /\ part = "Connection" => Conn!Next
  BY DEF RemoteNext, PopSteps, ImapMailboxSteps, ImapFlagsSteps, ImapCacheSteps, ConnectionSteps
<1>3. UNCHANGED allVars => UNCHANGED ConnP!vars
  BY DEF allVars, ConnP!vars
<1> QED BY <1>1, <1>2, <1>3, SameConnections

\* The invariant of Connection, where Connection is the part that runs.
ConnectionSound == part = "Connection" => ConnP!Right

LEMMA ConnectionSoundAlways == RemoteSpec => []ConnectionSound
<1>0. 3 \in Nat
  OBVIOUS
<1>1. RemoteInit => ConnectionSound
  BY <1>0, ConnectionPart, ConnP!RightInit DEF ConnectionSound
<1>2. ConnectionSound /\ [RemoteNext]_allVars => ConnectionSound'
  BY <1>0, OnePart, ConnectionPart, ConnP!RightStep DEF ConnectionSound
<1> QED BY <1>1, <1>2, PTL DEF RemoteSpec

\* No connection has two mailboxes selected or stays selected for a mailbox that was
\* closed; with $ssl_force_tls none is logged in without encryption; none that did not
\* fail is taken for open when its socket is closed.
THEOREM ConnectionsAreRight == RemoteSpec => []ConnectionsRight
<1>0. 3 \in Nat
  OBVIOUS
<1>1. ConnectionSound => ConnectionsRight
  BY <1>0, SameConnections, ConnP!RightGives DEF ConnectionSound, ConnectionsRight
<1> QED BY <1>1, ConnectionSoundAlways, PTL

(***************************************************************************)
(* The flags of an IMAP message, likewise.                                 *)
(***************************************************************************)
FlagsP == INSTANCE ImapFlags_proofs WITH
  Refusals <- FALSE, MaxWire <- 1, MaxLosses <- 1,
  stored <- x1, owed <- x2, sent <- x3, wire <- x4, flags <- x5, recorded <- x6,
  changed <- x7, active <- x8, pending <- x9, news <- x10, pc <- x11, result <- x12,
  losses <- x13, want <- x14, touched <- x15, raced <- x16, refused <- x17

LEMMA SameFlags ==
  /\ Flags!Init = FlagsP!Init
  /\ Flags!Next = FlagsP!Next
  /\ Flags!FlagsConverge = FlagsP!FlagsConverge
<1>1. Flags!Init = FlagsP!Init
  BY DEF Flags!Init, FlagsP!Init, Flags!Flag, FlagsP!Flag
<1>2. Flags!Next = FlagsP!Next
  BY DEF Flags!Cardinality, FlagsP!Cardinality, Flags!server, FlagsP!server, Flags!header, FlagsP!header, Flags!session,
         FlagsP!session, Flags!ghosts, FlagsP!ghosts, Flags!vars, FlagsP!vars,
         Flags!Flag, FlagsP!Flag, Flags!Gone, FlagsP!Gone, Flags!Exists, FlagsP!Exists,
         Flags!Open, FlagsP!Open, Flags!Line, FlagsP!Line, Flags!Store, FlagsP!Store,
         Flags!Command, FlagsP!Command, Flags!Tagged, FlagsP!Tagged, Flags!waiting,
         FlagsP!waiting, Flags!With, FlagsP!With, Flags!Toggle, FlagsP!Toggle,
         Flags!OtherClientStores, FlagsP!OtherClientStores, Flags!Announce,
         FlagsP!Announce, Flags!AnnounceOther, FlagsP!AnnounceOther,
         Flags!ServerExecutes, FlagsP!ServerExecutes, Flags!mutt_set_flag,
         FlagsP!mutt_set_flag, Flags!imap_check_mailbox, FlagsP!imap_check_mailbox,
         Flags!imap_set_flags, FlagsP!imap_set_flags, Flags!cmd_parse_fetch,
         FlagsP!cmd_parse_fetch, Flags!ReadLine, FlagsP!ReadLine, Flags!imap_cmd_finish,
         FlagsP!imap_cmd_finish, Flags!CheckEnds, FlagsP!CheckEnds, Flags!SyncBegins,
         FlagsP!SyncBegins, Flags!sync_helper, FlagsP!sync_helper, Flags!QuickDelete,
         FlagsP!QuickDelete, Flags!StillActive, FlagsP!StillActive, Flags!LeftOut,
         FlagsP!LeftOut, Flags!QueueStores, FlagsP!QueueStores, Flags!Synced,
         FlagsP!Synced, Flags!FlushEnds, FlagsP!FlushEnds, Flags!ExpungeEnds,
         FlagsP!ExpungeEnds, Flags!Lose, FlagsP!Lose, Flags!OrphansExecute,
         FlagsP!OrphansExecute, Flags!Merged, FlagsP!Merged, Flags!imap_reconnect,
         FlagsP!imap_reconnect, Flags!Next, FlagsP!Next
<1>3. Flags!FlagsConverge = FlagsP!FlagsConverge
  BY DEF Flags!FlagsConverge, FlagsP!FlagsConverge, Flags!Quiet, FlagsP!Quiet,
         Flags!Exists, FlagsP!Exists, Flags!Gone, FlagsP!Gone
<1> QED BY <1>1, <1>2, <1>3

LEMMA FlagsPart ==
  /\ RemoteInit /\ part = "ImapFlags" => FlagsP!Init
  /\ [RemoteNext]_allVars /\ part = "ImapFlags" => [FlagsP!Next]_FlagsP!vars
<1>1. RemoteInit /\ part = "ImapFlags" => Flags!Init
  BY DEF RemoteInit, PopStarts, ImapMailboxStarts, ImapFlagsStarts, ImapCacheStarts, ConnectionStarts
<1>2. RemoteNext /\ part = "ImapFlags" => Flags!Next
  BY DEF RemoteNext, PopSteps, ImapMailboxSteps, ImapFlagsSteps, ImapCacheSteps, ConnectionSteps
<1>3. UNCHANGED allVars => UNCHANGED FlagsP!vars
  BY DEF allVars, FlagsP!vars, FlagsP!server, FlagsP!header, FlagsP!session, FlagsP!ghosts
<1> QED BY <1>1, <1>2, <1>3, SameFlags

\* The invariant of ImapFlags, where ImapFlags is the part that runs.
FlagsSound == part = "ImapFlags" => FlagsP!Converging

LEMMA FlagsSoundAlways == RemoteSpec => []FlagsSound
<1>1. RemoteInit => FlagsSound
  BY FlagsPart, FlagsP!InitConverges DEF FlagsSound
<1>2. FlagsSound /\ [RemoteNext]_allVars => FlagsSound'
  BY OnePart, FlagsPart, FlagsP!StepConverges DEF FlagsSound
<1> QED BY <1>1, <1>2, PTL DEF RemoteSpec

\* When nothing is on its way, mutt's record of the flags is what the server has, and what
\* the user set is kept unless another client set it since.
THEOREM ImapFlagsConverge == RemoteSpec => []FlagsConverge
<1>1. FlagsSound => FlagsConverge
  BY SameFlags, FlagsP!QuietAgrees DEF FlagsSound, FlagsConverge
<1> QED BY <1>1, FlagsSoundAlways, PTL

(***************************************************************************)
(* The numbers of an IMAP mailbox, likewise.                               *)
(***************************************************************************)
ImapP == INSTANCE ImapMailbox_proofs WITH
  MaxUid <- 4, MaxWire <- 1, FirstUids <- 2, ChunkSize <- 1,
  mbox <- x1, sess <- x2, nextUid <- x3, cur <- x4, sent <- x5, wire <- x6,
  index <- x7, msn <- x8, gone <- x9, reopen <- x10, newMailCount <- x11,
  idle <- x12, pc <- x13, range <- x14, qresync <- x15, raced <- x16, short <- x17

LEMMA SameNumbers ==
  /\ Imap!Init = ImapP!Init
  /\ Imap!Next = ImapP!Next
  /\ Imap!NumbersAgree = ImapP!NumbersAgree
  /\ Imap!FlagsHitTheirMessage = ImapP!FlagsHitTheirMessage
  /\ Imap!AnnouncedIsKnown = ImapP!AnnouncedIsKnown
<1>1. Imap!Init = ImapP!Init
  BY DEF Imap!Init, ImapP!Init, Imap!NoRange, ImapP!NoRange
<1>2. Imap!Next = ImapP!Next
  BY DEF Imap!serverVars, ImapP!serverVars, Imap!clientVars, ImapP!clientVars, Imap!ghosts,
         ImapP!ghosts, Imap!vars, ImapP!vars, Imap!Uids, ImapP!Uids, Imap!NULL,
         ImapP!NULL, Imap!max_msn, ImapP!max_msn, Imap!NoRange, ImapP!NoRange,
         Imap!Line, ImapP!Line, Imap!Command, ImapP!Command, Imap!MayExpunge,
         ImapP!MayExpunge, Imap!Room, ImapP!Room, Imap!Drop, ImapP!Drop, Imap!Ascending,
         ImapP!Ascending, Imap!Deliver, ImapP!Deliver, Imap!OtherClientExpunges,
         ImapP!OtherClientExpunges, Imap!SendExists, ImapP!SendExists,
         Imap!RepeatExists, ImapP!RepeatExists, Imap!SendExpunge, ImapP!SendExpunge,
         Imap!SendFlags, ImapP!SendFlags, Imap!ServerReads, ImapP!ServerReads,
         Imap!ServerCompletes, ImapP!ServerCompletes, Imap!Send, ImapP!Send,
         Imap!imap_cmd_idle, ImapP!imap_cmd_idle, Imap!PollIdle, ImapP!PollIdle,
         Imap!Exec, ImapP!Exec, Imap!HandleExists, ImapP!HandleExists, Imap!Renumber,
         ImapP!Renumber, Imap!cmd_parse_expunge_Deferred,
         ImapP!cmd_parse_expunge_Deferred, Imap!cmd_parse_expunge,
         ImapP!cmd_parse_expunge, Imap!cmd_parse_vanished, ImapP!cmd_parse_vanished,
         Imap!NewHeader, ImapP!NewHeader, Imap!HandleHeader, ImapP!HandleHeader,
         Imap!HandleUntagged, ImapP!HandleUntagged, Imap!ExpungePending,
         ImapP!ExpungePending, Imap!NewMailPending, ImapP!NewMailPending, Imap!Chunk,
         ImapP!Chunk, Imap!FetchChunk, ImapP!FetchChunk, Imap!DownloadFlags,
         ImapP!DownloadFlags, Imap!imap_cmd_finish, ImapP!imap_cmd_finish,
         Imap!EnterIdle, ImapP!EnterIdle, Imap!PollEnds, ImapP!PollEnds, Imap!ExecEnds,
         ImapP!ExecEnds, Imap!ChunkEnds, ImapP!ChunkEnds, Imap!DownloadFails,
         ImapP!DownloadFails, Imap!Next, ImapP!Next, Imap!Range, ImapP!Range,
         Imap!RemoveAt, ImapP!RemoveAt, Imap!Cardinality, ImapP!Cardinality
<1>3. Imap!NumbersAgree = ImapP!NumbersAgree
  BY DEF Imap!NumbersAgree, ImapP!NumbersAgree, Imap!Adrift, ImapP!Adrift, Imap!NULL, ImapP!NULL
<1>4. Imap!FlagsHitTheirMessage = ImapP!FlagsHitTheirMessage
  BY DEF Imap!FlagsHitTheirMessage, ImapP!FlagsHitTheirMessage, Imap!Adrift, ImapP!Adrift,
         Imap!NULL, ImapP!NULL
<1>5. Imap!AnnouncedIsKnown = ImapP!AnnouncedIsKnown
  BY DEF Imap!AnnouncedIsKnown, ImapP!AnnouncedIsKnown, Imap!Range, ImapP!Range
<1> QED BY <1>1, <1>2, <1>3, <1>4, <1>5

LEMMA ImapPart ==
  /\ RemoteInit /\ part = "ImapMailbox" => ImapP!Init
  /\ [RemoteNext]_allVars /\ part = "ImapMailbox" => [ImapP!Next]_ImapP!vars
<1>1. RemoteInit /\ part = "ImapMailbox" => Imap!Init
  BY DEF RemoteInit, PopStarts, ImapMailboxStarts, ImapFlagsStarts, ImapCacheStarts, ConnectionStarts
<1>2. RemoteNext /\ part = "ImapMailbox" => Imap!Next
  BY DEF RemoteNext, PopSteps, ImapMailboxSteps, ImapFlagsSteps, ImapCacheSteps, ConnectionSteps
<1>3. UNCHANGED allVars => UNCHANGED ImapP!vars
  BY DEF allVars, ImapP!vars
<1> QED BY <1>1, <1>2, <1>3, SameNumbers

\* The invariant of ImapMailbox, where ImapMailbox is the part that runs.
ImapSound == part = "ImapMailbox" => ImapP!Numbered

LEMMA ImapSoundAlways == RemoteSpec => []ImapSound
<1>0. ImapP!Bounds
  BY DEF ImapP!Bounds
<1>1. RemoteInit => ImapSound
  BY <1>0, ImapPart, ImapP!NumbersInit DEF ImapSound
<1>2. ImapSound /\ [RemoteNext]_allVars => ImapSound'
  BY <1>0, OnePart, ImapPart, ImapP!NumbersStep DEF ImapSound
<1> QED BY <1>1, <1>2, PTL DEF RemoteSpec

\* Once the lines are read the numbers mutt knows are the server's, flags sent without a
\* UID reach the message they are about, and what was announced is in the context after a
\* complete download.
THEOREM ImapIsFollowed == RemoteSpec => []ImapFollowed
<1>1. ImapSound => ImapFollowed
  BY SameNumbers, ImapP!NumbersMean DEF ImapSound, ImapFollowed
<1> QED BY <1>1, ImapSoundAlways, PTL

(***************************************************************************)
(* The header cache of an IMAP mailbox, likewise.                          *)
(***************************************************************************)
CacheP == INSTANCE ImapCache_proofs WITH
  MaxUid <- 3, MaxModseq <- 3, SyncLost <- TRUE,
  box <- x1, nextUid <- x2, modseq <- x3, flagOf <- x4, modOf <- x5, caps <- x6,
  hcache <- x7, hc <- x8, pc <- x9, sess <- x10, highest <- x11, method <- x12,
  index <- x13, flag <- x14, changed <- x15, unsynced <- x16

LEMMA SameOpening ==
  /\ Cache!Init = CacheP!Init
  /\ Cache!Next = CacheP!Next
  /\ Cache!OpenedRight = CacheP!OpenedRight
<1>1. Cache!Init = CacheP!Init
  BY DEF Cache!Init, CacheP!Init, Cache!NoCache, CacheP!NoCache
<1>2. Cache!Next = CacheP!Next
  BY DEF Cache!mailbox, CacheP!mailbox, Cache!cache, CacheP!cache, Cache!client, CacheP!client,
         Cache!vars, CacheP!vars, Cache!Uids, CacheP!Uids, Cache!NoCache, CacheP!NoCache,
         Cache!With, CacheP!With, Cache!Drop, CacheP!Drop, Cache!Known, CacheP!Known, Cache!Kept,
         CacheP!Kept, Cache!Forget, CacheP!Forget, Cache!Counts, CacheP!Counts, Cache!Deliver,
         CacheP!Deliver, Cache!Expunge, CacheP!Expunge, Cache!OtherClientExpunges,
         CacheP!OtherClientExpunges, Cache!OtherClientStores, CacheP!OtherClientStores,
         Cache!Select, CacheP!Select, Cache!read_headers_normal_eval_cache,
         CacheP!read_headers_normal_eval_cache, Cache!Compacted, CacheP!Compacted,
         Cache!read_headers_qresync_eval_cache, CacheP!read_headers_qresync_eval_cache,
         Cache!EvalCache, CacheP!EvalCache, Cache!Vanished, CacheP!Vanished,
         Cache!read_headers_condstore_qresync_updates,
         CacheP!read_headers_condstore_qresync_updates, Cache!read_headers_fetch_new,
         CacheP!read_headers_fetch_new, Cache!verify_qresync, CacheP!verify_qresync,
         Cache!VerifyAndStore, CacheP!VerifyAndStore, Cache!UserChanges, CacheP!UserChanges,
         Cache!SyncFlags, CacheP!SyncFlags, Cache!SyncDeleted, CacheP!SyncDeleted, Cache!NewMail,
         CacheP!NewMail, Cache!Close, CacheP!Close, Cache!Next, CacheP!Next, Cache!Range,
         CacheP!Range, Cache!Cardinality, CacheP!Cardinality
<1>3. Cache!OpenedRight = CacheP!OpenedRight
  BY DEF Cache!OpenedRight, CacheP!OpenedRight, Cache!Known, CacheP!Known, Cache!Range,
         CacheP!Range
<1> QED BY <1>1, <1>2, <1>3

LEMMA CachePart ==
  /\ RemoteInit /\ part = "ImapCache" => CacheP!Init
  /\ [RemoteNext]_allVars /\ part = "ImapCache" => [CacheP!Next]_CacheP!vars
<1>1. RemoteInit /\ part = "ImapCache" => Cache!Init
  BY DEF RemoteInit, PopStarts, ImapMailboxStarts, ImapFlagsStarts, ImapCacheStarts, ConnectionStarts
<1>2. RemoteNext /\ part = "ImapCache" => Cache!Next
  BY DEF RemoteNext, PopSteps, ImapMailboxSteps, ImapFlagsSteps, ImapCacheSteps, ConnectionSteps
<1>3. UNCHANGED allVars => UNCHANGED CacheP!vars
  BY DEF allVars, CacheP!vars, CacheP!mailbox, CacheP!cache, CacheP!client
<1> QED BY <1>1, <1>2, <1>3, SameOpening

\* The invariant of ImapCache, where ImapCache is the part that runs.
CacheSound == part = "ImapCache" => CacheP!Opening

LEMMA CacheSoundAlways == RemoteSpec => []CacheSound
<1>0. CacheP!Bounds
  BY DEF CacheP!Bounds
<1>1. RemoteInit => CacheSound
  BY <1>0, CachePart, CacheP!OpeningInit DEF CacheSound
<1>2. CacheSound /\ [RemoteNext]_allVars => CacheSound'
  BY <1>0, OnePart, CachePart, CacheP!OpeningStep DEF CacheSound
<1> QED BY <1>1, <1>2, PTL DEF RemoteSpec

\* A mailbox opened from the header cache has the server's messages under the server's
\* numbers, and its flags but where a sync that was cut off cached others.
THEOREM CachedIsOpenedRight == RemoteSpec => []OpenedRight
<1>0. CacheP!Bounds
  BY DEF CacheP!Bounds
<1>1. CacheSound => OpenedRight
  BY <1>0, SameOpening, CacheP!OpeningMeans DEF CacheSound, OpenedRight
<1> QED BY <1>1, CacheSoundAlways, PTL

(***************************************************************************)
(* The types of all the parts.                                             *)
(***************************************************************************)
LEMMA SameTypes ==
  /\ Imap!TypeOK = ImapP!TypeOK
  /\ Flags!TypeOK = FlagsP!TypeOK
  /\ Cache!TypeOK = CacheP!TypeOK
  /\ Conn!TypeOK = ConnP!TypeOK
<1>1. Imap!TypeOK = ImapP!TypeOK
  BY DEF Imap!TypeOK, ImapP!TypeOK, Imap!Uids, ImapP!Uids, Imap!NULL, ImapP!NULL,
         Imap!Range, ImapP!Range
<1>2. Flags!TypeOK = FlagsP!TypeOK
  BY DEF Flags!TypeOK, FlagsP!TypeOK, Flags!Flag, FlagsP!Flag, Flags!Gone, FlagsP!Gone
<1>3. Cache!TypeOK = CacheP!TypeOK
  BY DEF Cache!TypeOK, CacheP!TypeOK, Cache!Uids, CacheP!Uids, Cache!Known, CacheP!Known,
         Cache!Range, CacheP!Range
<1>4. Conn!TypeOK = ConnP!TypeOK
  BY DEF Conn!TypeOK, ConnP!TypeOK, Conn!Ids, ConnP!Ids, Conn!None, ConnP!None,
         Conn!Level, ConnP!Level
<1> QED BY <1>1, <1>2, <1>3, <1>4

\* The variables of the part that runs have their types, whatever part it is.
THEOREM RemoteTypes == RemoteSpec => []TypesOK
<1>0. ImapP!Bounds /\ CacheP!Bounds /\ 3 \in Nat
  BY DEF ImapP!Bounds, CacheP!Bounds
<1>1. PopBase /\ part = "Pop" => TypeOK
  BY TypeParts DEF PopBase, Base, Typed
<1>2. ImapSound /\ part = "ImapMailbox" => Imap!TypeOK
  BY SameTypes DEF ImapSound, ImapP!Numbered, ImapP!Typed
<1>3. FlagsSound /\ part = "ImapFlags" => Flags!TypeOK
  BY SameTypes DEF FlagsSound, FlagsP!Converging, FlagsP!Typed
<1>4. CacheSound /\ part = "ImapCache" => Cache!TypeOK
  BY <1>0, SameTypes, CacheP!OpeningMeans DEF CacheSound
<1>5. ConnectionSound /\ part = "Connection" => Conn!TypeOK
  BY <1>0, SameTypes, ConnP!RightGives DEF ConnectionSound
<1>6. PopBase /\ ImapSound /\ FlagsSound /\ CacheSound /\ ConnectionSound => TypesOK
  BY <1>1, <1>2, <1>3, <1>4, <1>5 DEF TypesOK
<1> QED BY <1>6, PopBaseCorrect, ImapSoundAlways, FlagsSoundAlways, CacheSoundAlways,
           ConnectionSoundAlways, PTL
==============================================================================
