-------------------------- MODULE Connection_proofs --------------------------
(***************************************************************************)
(* Proofs about the connections of an account, for any number of them.     *)
(***************************************************************************)
EXTENDS Connection, SequenceTheorems, WellFoundedInduction, TLAPS

States == {"disconnected", "connected", "authenticated", "selected"}
Conns == [fd : BOOLEAN, ssf : BOOLEAN, state : States, fatal : BOOLEAN]

\* What is true of each connection: it is encrypted if that is asked for, and open
\* unless it failed.
Sound(c) ==
  /\ setup.force /\ c.fd /\ c.state # "disconnected" => c.ssf
  /\ c.state # "disconnected" /\ ~c.fatal => c.fd

\* The list has the connections from the newest to the oldest.
Typed ==
  /\ setup \in [tunnel : BOOLEAN, secure : BOOLEAN, force : BOOLEAN, imaps : BOOLEAN]
  /\ Connections \in Seq(Ids) /\ Len(Connections) <= MaxConns
  /\ \A k \in DOMAIN Connections : Connections[k] <= Len(Connections)
  /\ conn \in [Ids -> Conns]
  /\ Context \in 0 .. Len(Connections) /\ other \in 0 .. Len(Connections)

\* A mailbox that is open is selected, and nobody else's; what is not in the list has
\* not been opened.
Owned ==
  /\ Context # None => Context # other /\ conn[Context].state = "selected"
  /\ other # None => conn[other].state = "selected"
  /\ \A i \in Ids : conn[i].state = "selected" /\ ~conn[i].fatal => i \in {Context, other}
  /\ \A i \in Ids : i > Len(Connections) => conn[i].state = "disconnected"

Right == Typed /\ Owned /\ \A i \in Ids : Sound(conn[i])

LEMMA Levels ==
  ASSUME NEW c \in Conns
  PROVE  /\ AtLeast(c, "connected") <=> c.state # "disconnected"
         /\ AtLeast(c, "authenticated") <=> c.state \in {"authenticated", "selected"}
         /\ AtLeast(c, "selected") <=> c.state = "selected"
  BY DEF AtLeast, Level, Conns, States

LEMMA ConnParts ==
  ASSUME NEW c \in Conns
  PROVE  /\ c.fd \in BOOLEAN /\ c.ssf \in BOOLEAN /\ c.state \in States /\ c.fatal \in BOOLEAN
         /\ \A b \in BOOLEAN : [c EXCEPT !.fatal = b] \in Conns
         /\ \A s \in States : [c EXCEPT !.state = s] \in Conns
  BY DEF Conns

\* Closing a connection.
LEMMA Closing ==
  ASSUME NEW c \in Conns
  PROVE  /\ mutt_socket_close(c) \in Conns /\ ~mutt_socket_close(c).fd
         /\ mutt_socket_close(c).state = c.state /\ mutt_socket_close(c).fatal = c.fatal
         /\ imap_close_connection(c) \in Conns
         /\ imap_close_connection(c).state = "disconnected" /\ ~imap_close_connection(c).fatal
<1>1. /\ mutt_socket_close(c) \in Conns /\ ~mutt_socket_close(c).fd
      /\ mutt_socket_close(c).state = c.state /\ mutt_socket_close(c).fatal = c.fatal
  BY DEF mutt_socket_close, Conns
<1>2. ASSUME NEW d \in Conns
      PROVE  /\ [d EXCEPT !.state = "disconnected", !.fatal = FALSE] \in Conns
             /\ [d EXCEPT !.state = "disconnected", !.fatal = FALSE].state = "disconnected"
             /\ ~[d EXCEPT !.state = "disconnected", !.fatal = FALSE].fatal
  BY DEF Conns, States
<1>3. CASE c.state = "disconnected"
  BY <1>1, <1>3 DEF imap_close_connection, Conns
<1>4. CASE c.state # "disconnected"
  BY <1>1, <1>2, <1>4 DEF imap_close_connection
<1> QED BY <1>1, <1>3, <1>4

\* What opening leaves is encrypted or closed.
LEMMA Opening ==
  ASSUME Typed, NEW c \in Conns, Sound(c), c.state = "disconnected", ~c.fatal, NEW d \in Opened(c)
  PROVE  d \in Conns /\ Sound(d) /\ ~d.fatal /\ d.state # "selected"
<1> DEFINE fresh == mutt_socket_open(c)
<1>1. fresh \in Conns /\ fresh.fd /\ fresh.state = "connected" /\ ~fresh.fatal
  BY DEF mutt_socket_open, Conns, States, Typed
<1> HIDE DEF fresh
<1>2. \A e \in Starttls(fresh) : e \in Conns /\ e.fd /\ e.state = "connected" /\ ~e.fatal
  BY <1>1 DEF Starttls, Conns
<1>3. LET e == [fresh EXCEPT !.state = "authenticated"]
      IN e \in Conns /\ e.fd /\ e.state = "authenticated" /\ ~e.fatal
  BY <1>1 DEF Conns, States
<1>4. CASE d \in Starttls(fresh) /\ ForcedOr(d)
  BY <1>2, <1>4 DEF ForcedOr, Sound, Typed
<1>5. CASE d = [fresh EXCEPT !.state = "authenticated"] /\ ForcedOr(d)
  BY <1>3, <1>5 DEF ForcedOr, Sound, Typed
<1>6. CASE d = c
  BY <1>6
<1>7. CASE d = imap_close_connection(fresh)
  BY <1>1, <1>7, Closing DEF Sound
<1> QED BY <1>4, <1>5, <1>6, <1>7 DEF Opened, fresh

\* So does logging in; a connection with a mailbox is left alone.
LEMMA LoggingIn ==
  ASSUME Typed, NEW c \in Conns, Sound(c), ~c.fatal, NEW d \in LoggedIn(c)
  PROVE  /\ d \in Conns /\ Sound(d) /\ ~d.fatal
         /\ d.state = "selected" => d = c
         /\ c.state = "selected" => d = c
<1>1. PICK e \in (IF c.state = "disconnected" THEN Opened(c) ELSE {c}) : d \in Authenticated(e)
  BY DEF LoggedIn
<1>2. /\ e \in Conns /\ Sound(e) /\ ~e.fatal
      /\ e.state = "selected" => e = c
      /\ c.state = "selected" => e = c
  BY <1>1, Opening
<1>3. CASE d = e
  BY <1>2, <1>3
<1>4. CASE e.state = "connected" /\ d = [e EXCEPT !.state = "authenticated"]
  <2>1. d \in Conns /\ d.state = "authenticated" /\ d.fd = e.fd /\ d.ssf = e.ssf /\ d.fatal = e.fatal
    BY <1>2, <1>4 DEF Conns, States
  <2> QED BY <1>2, <1>4, <2>1 DEF Sound
<1>5. CASE e.state = "connected" /\ d = imap_close_connection(e)
  BY <1>2, <1>5, Closing DEF Sound
<1> QED BY <1>1, <1>3, <1>4, <1>5 DEF Authenticated

\* A set of positions has a first one.
LEMMA FirstOne ==
  ASSUME NEW good \in SUBSET Nat, good # {}
  PROVE  (CHOOSE k \in good : \A l \in good : k <= l) \in good
<1>1. PICK k \in good : \A l \in good : ~(<<l, k>> \in OpToRel(<, Nat))
  BY NatLessThanWellFounded, WFMin
<1>2. ASSUME NEW l \in good, l < k PROVE FALSE
  <2>1. <<l, k>> \in Nat \X Nat /\ <<l, k>>[1] = l /\ <<l, k>>[2] = k
    OBVIOUS
  <2>2. <<l, k>> \in {ss \in Nat \X Nat : ss[1] < ss[2]}
    BY <1>2, <2>1
  <2> QED BY <1>1, <2>2 DEF OpToRel
<1>3. \A l \in good : k <= l
  BY <1>2
<1> QED BY <1>3

\* The connection that is chosen has not failed, and is not another mailbox's.
LEMMA Choosing ==
  ASSUME MaxConns \in Nat, Typed, NEW flag \in {"any", "nonew", "noselect"}, Chosen(flag) # None
  PROVE  LET i == Chosen(flag)
         IN  /\ i \in Ids
             /\ \/ i \in 1 .. Len(Connections) /\ Suits(conn[i], flag)
                \/ i = Len(Connections) + 1
<1> DEFINE good == {k \in DOMAIN Connections : Suits(conn[Connections[k]], flag)}
           first == CHOOSE k \in good : \A l \in good : k <= l
<1>1. Len(Connections) \in Nat /\ DOMAIN Connections = 1 .. Len(Connections)
      /\ \A k \in DOMAIN Connections : Connections[k] \in 1 .. Len(Connections) /\ Connections[k] \in Ids
  BY DEF Typed, Ids
<1>2. CASE good # {}
  <2>1. first \in good
    <3>1. good \in SUBSET Nat
      BY <1>1
    <3> HIDE DEF good
    <3> QED BY <1>2, <3>1, FirstOne
  <2>2. Chosen(flag) = Connections[first]
    BY <1>2 DEF Chosen
  <2> QED BY <1>1, <2>1, <2>2
<1>3. CASE good = {}
  <2>1. Chosen(flag) = Len(Connections) + 1 /\ Len(Connections) < MaxConns
    BY <1>3 DEF Chosen
  <2> QED BY <1>1, <2>1 DEF Ids
<1> QED BY <1>2, <1>3

LEMMA NewConnIs ==
  ASSUME Typed
  PROVE  NewConn \in Conns /\ NewConn.state = "disconnected" /\ ~NewConn.fatal /\ Sound(NewConn)
<1>1. NewConn \in Conns /\ NewConn.state = "disconnected" /\ ~NewConn.fatal
  BY DEF NewConn, Conns, States, Typed
<1> QED BY <1>1 DEF Sound

\* What imap_conn_find() returns.
Usable(f) ==
  /\ f.id \in Ids /\ f.id \in 1 .. Len(Connections) + 1
  /\ f.c \in Conns /\ Sound(f.c) /\ ~f.c.fatal
  /\ f.c.state = "selected" => f.id <= Len(Connections) /\ f.c = conn[f.id]

LEMMA Finding ==
  ASSUME MaxConns \in Nat, Right, NEW flag \in {"any", "nonew", "noselect"}, NEW f \in Found(flag)
  PROVE  /\ Usable(f)
         /\ flag = "noselect" => f.c.state # "selected" /\ f.id \notin {Context, other}
         /\ f.id \in {Context, other} => ~conn[f.id].fatal /\ f.c = conn[f.id]
<1> USE DEF Right
<1> DEFINE i == Chosen(flag)
           start == IF i > Len(Connections) THEN NewConn ELSE conn[i]
<1>1. i # None /\ \E c \in LoggedIn(start) : f = [id |-> i, c |-> c]
  BY DEF Found
<1>2. i \in Ids /\ Len(Connections) \in Nat
      /\ \/ i \in 1 .. Len(Connections) /\ Suits(conn[i], flag)
         \/ i = Len(Connections) + 1
  BY <1>1, Choosing DEF Typed
<1>3. f.id = i /\ f.c \in LoggedIn(start)
  BY <1>1
<1>4. /\ start \in Conns /\ Sound(start) /\ ~start.fatal
      /\ start.state = "selected" => i <= Len(Connections) /\ start = conn[i] /\ flag # "noselect"
      /\ i \in {Context, other} =>
           ~conn[i].fatal /\ flag # "noselect" /\ start = conn[i] /\ start.state = "selected"
  <2>1. CASE i = Len(Connections) + 1
    <3>1. start = NewConn
      BY <1>2, <2>1
    <3>2. i \notin {Context, other}
      BY <1>2, <2>1 DEF Typed
    <3> QED BY <3>1, <3>2, NewConnIs
  <2>2. CASE i \in 1 .. Len(Connections) /\ Suits(conn[i], flag)
    <3>1. start = conn[i] /\ i <= Len(Connections) /\ conn[i] \in Conns
      BY <1>2, <2>2 DEF Typed
    <3>2. ~conn[i].fatal /\ (flag = "noselect" => conn[i].state # "selected")
      BY <2>2, <3>1, Levels DEF Suits
    <3>3. i \in {Context, other} => conn[i].state = "selected"
      BY <1>1 DEF Owned
    <3> QED BY <1>2, <3>1, <3>2, <3>3
  <2> QED BY <1>2, <2>1, <2>2
<1> HIDE DEF start
<1>5. /\ f.c \in Conns /\ Sound(f.c) /\ ~f.c.fatal
      /\ f.c.state = "selected" => f.c = start
      /\ start.state = "selected" => f.c = start
  BY <1>3, <1>4, LoggingIn
<1> HIDE DEF i
<1>6. f.id \in 1 .. Len(Connections) + 1
  BY <1>2, <1>3
<1> QED BY <1>2, <1>3, <1>4, <1>5, <1>6 DEF Usable

\* The list after it.
LEMMA Listing ==
  ASSUME MaxConns \in Nat, Typed, NEW i \in Ids, i \in 1 .. Len(Connections) + 1
  PROVE  /\ Listed(i) \in Seq(Ids) /\ Len(Listed(i)) \in Nat /\ Len(Listed(i)) <= MaxConns
         /\ Len(Connections) <= Len(Listed(i)) /\ i <= Len(Listed(i))
         /\ \A k \in DOMAIN Listed(i) : Listed(i)[k] <= Len(Listed(i))
         /\ \A j \in Ids : j > Len(Listed(i)) => j > Len(Connections) /\ j # i
<1>1. Len(Connections) \in Nat /\ DOMAIN Connections = 1 .. Len(Connections) /\ i \in Nat /\ i <= MaxConns
  BY DEF Typed, Ids
<1>2. CASE i <= Len(Connections)
  <2>1. Listed(i) = Connections
    <3>1. ~(i > Len(Connections))
      BY <1>1, <1>2
    <3> QED BY <3>1, Zenon DEF Listed
  <2> QED BY <1>1, <1>2, <2>1 DEF Typed, Ids
<1>3. CASE i = Len(Connections) + 1
  <2>1. Listed(i) = <<i>> \o Connections
    BY <1>1, <1>3 DEF Listed
  <2>2. <<i>> \in Seq(Ids) /\ Len(<<i>>) = 1 /\ <<i>>[1] = i
    OBVIOUS
  <2>3. /\ Listed(i) \in Seq(Ids) /\ Len(Listed(i)) = 1 + Len(Connections)
        /\ \A k \in 1 .. 1 + Len(Connections) :
             Listed(i)[k] = IF k <= 1 THEN <<i>>[k] ELSE Connections[k - 1]
    BY <2>1, <2>2, ConcatProperties DEF Typed
  <2>4. DOMAIN Listed(i) = 1 .. Len(Listed(i))
    BY <2>3
  <2>5. ASSUME NEW k \in DOMAIN Listed(i) PROVE Listed(i)[k] <= Len(Listed(i))
    <3>1. CASE k = 1
      BY <1>1, <1>3, <2>2, <2>3, <3>1
    <3>2. CASE k # 1
      <4>1. k - 1 \in DOMAIN Connections /\ Listed(i)[k] = Connections[k - 1]
        BY <1>1, <2>3, <2>4, <3>2
      <4>2. Connections[k - 1] \in Nat /\ Connections[k - 1] <= Len(Connections)
        BY <4>1 DEF Typed, Ids
      <4> QED BY <1>1, <2>3, <4>1, <4>2
    <3> QED BY <3>1, <3>2
  <2> QED BY <1>1, <1>3, <2>3, <2>5 DEF Ids
<1> QED BY <1>1, <1>2, <1>3

\* A link that is lost: a connection with a mailbox is left for its owner, any other one
\* is closed.
LEMMA Losing ==
  ASSUME NEW i \in Ids, NEW c \in Conns
  PROVE  /\ Lost(i, c) \in Conns /\ Sound(Lost(i, c))
         /\ i = Context \/ c.state = "selected" => Lost(i, c).fatal /\ Lost(i, c).state = c.state
         /\ i # Context /\ c.state # "selected" => Lost(i, c).state = "disconnected"
<1> DEFINE d == mutt_socket_close(c)
<1>1. d \in Conns /\ ~d.fd /\ d.state = c.state
  BY Closing
<1> HIDE DEF d
<1>2. CASE i = Context \/ c.state = "selected"
  <2>1. Lost(i, c) = [d EXCEPT !.fatal = TRUE]
    BY <1>1, <1>2, Levels DEF Lost, Fatal, d
  <2> QED BY <1>1, <1>2, <2>1 DEF Conns, Sound
<1>3. CASE i # Context /\ c.state # "selected"
  <2>1. Lost(i, c) = imap_close_connection(d)
    BY <1>1, <1>3, Levels DEF Lost, Fatal, d
  <2> QED BY <1>1, <1>3, <2>1, Closing DEF Sound
<1> QED BY <1>2, <1>3

\* What SELECT leaves.
LEMMA Selecting ==
  ASSUME Typed, NEW f, Usable(f), f.c.state # "selected", f.id # Context, NEW c \in Select(f)
  PROVE  c \in Conns /\ Sound(c)
<1> DEFINE d == mutt_socket_close(f.c)
<1>1. d \in Conns /\ ~d.fd
  BY Closing DEF Usable
<1> HIDE DEF d
<1>2. CASE c = f.c
  BY <1>2 DEF Usable
<1>3. CASE AtLeast(f.c, "authenticated") /\ c = [f.c EXCEPT !.state = "selected", !.fatal = FALSE]
  <2>1. c \in Conns /\ c.fd = f.c.fd /\ c.ssf = f.c.ssf
    BY <1>3 DEF Usable, Conns, States
  <2>2. f.c.state # "disconnected"
    BY <1>3, Levels DEF Usable
  <2> QED BY <2>1, <2>2 DEF Sound, Usable
<1>4. CASE c = [f.c EXCEPT !.fatal = FALSE]
  BY <1>4 DEF Sound, Usable, Conns
<1>5. CASE c = Lost(f.id, f.c)
  BY <1>5, Losing DEF Usable
<1>6. CASE c = [d EXCEPT !.fatal = TRUE, !.state = "authenticated"]
  BY <1>1, <1>6 DEF Sound, Conns, States
<1> QED BY <1>2, <1>3, <1>4, <1>5, <1>6 DEF Select, d

\* CLOSE: the connection is free, or has failed.
LEMMA ClosingMailbox ==
  ASSUME NEW i \in Ids, conn[i] \in Conns, Sound(conn[i]), NEW c \in imap_close_mailbox(i)
  PROVE  c \in Conns /\ Sound(c) /\ (c.state = "selected" => c.fatal) /\ (conn[i].state = "disconnected" => c.state = "disconnected")
<1> DEFINE old == conn[i]
           done == [old EXCEPT !.state = "authenticated"]
           lost == mutt_socket_close(done)
<1>1. old.state = "selected" => AtLeast(old, "selected")
  BY Levels
<1>2. CASE c = old /\ (old.fatal \/ ~AtLeast(old, "selected"))
  BY <1>1, <1>2
<1>3. CASE ~old.fatal /\ AtLeast(old, "selected") /\ c \in {done, [lost EXCEPT !.fatal = TRUE]}
  <2>1. old.state = "selected"
    BY <1>3, Levels
  <2>2. done \in Conns /\ done.state = "authenticated" /\ done.fd = old.fd /\ done.ssf = old.ssf
        /\ done.fatal = old.fatal
    BY DEF Conns, States
  <2> HIDE DEF done
  <2>3. lost \in Conns /\ ~lost.fd /\ lost.state = "authenticated"
    BY <2>2, Closing
  <2> HIDE DEF lost
  <2>4. CASE c = done
    BY <1>3, <2>1, <2>2, <2>4 DEF Sound
  <2>5. CASE c = [lost EXCEPT !.fatal = TRUE]
    BY <1>3, <2>1, <2>3, <2>5 DEF Sound, Conns
  <2> QED BY <1>3, <2>4, <2>5
<1> QED BY <1>2, <1>3 DEF imap_close_mailbox

(***************************************************************************)
(* The steps.                                                              *)
(***************************************************************************)
LEMMA Open ==
  ASSUME MaxConns \in Nat, Typed
  PROVE  /\ Len(Connections) \in Nat /\ Len(Connections) <= MaxConns /\ None \notin Ids
         /\ \A i \in {Context, other} : i # None => i \in Ids /\ i <= Len(Connections) /\ conn[i] \in Conns
         /\ Context \in Ids \cup {None} /\ other \in Ids \cup {None}
<1>1. Len(Connections) \in Nat /\ Len(Connections) <= MaxConns
  BY DEF Typed
<1>2. ASSUME NEW i \in 0 .. Len(Connections), i # None
      PROVE  i \in Ids /\ i <= Len(Connections) /\ conn[i] \in Conns
  BY <1>1, <1>2 DEF Typed, Ids, None
<1>3. None \notin Ids
  BY DEF None, Ids
<1> QED BY <1>1, <1>2, <1>3 DEF Typed

\* A mailbox is opened over the connection that was found, and another connection may be
\* closed.
LEMMA Taking ==
  ASSUME MaxConns \in Nat, Right, NEW f, Usable(f), NEW c \in Conns, Sound(c),
         Connections' = Listed(f.id), conn' \in [Ids -> Conns], conn'[f.id] = c,
         \A i \in Ids \ {f.id} : \/ conn'[i] = conn[i]
                                 \/ conn'[i].state = "disconnected" /\ i \notin {Context', other'},
         UNCHANGED setup, f.id \notin {Context, other},
         Context' \in {Context, None, f.id}, other' \in {other, None, f.id},
         Context' # None => Context' # other',
         c.state = "selected" => f.id \in {Context', other'},
         f.id \in {Context', other'} => c.state = "selected",
         \A i \in Ids : i \in {Context, other} \ {Context', other'} =>
           conn'[i].state # "selected" \/ conn'[i].fatal
  PROVE  Right'
<1> USE DEF Right
<1>1. f.id \in Ids /\ f.id \in 1 .. Len(Connections) + 1 /\ f.id # None
  BY DEF Usable, Ids, None
<1>3. /\ Connections' \in Seq(Ids) /\ Len(Connections') \in Nat /\ Len(Connections') <= MaxConns
      /\ Len(Connections) <= Len(Connections') /\ f.id <= Len(Connections')
      /\ \A k \in DOMAIN Connections' : Connections'[k] <= Len(Connections')
      /\ \A j \in Ids : j > Len(Connections') => j > Len(Connections) /\ j # f.id
  BY <1>1, Listing
<1>5. Context' \in 0 .. Len(Connections') /\ other' \in 0 .. Len(Connections')
  <2>1. Len(Connections) \in Nat /\ f.id \in Nat
    BY <1>1 DEF Typed, Ids
  <2> QED BY <1>1, <1>3, <2>1 DEF Typed, None
<1>6. Typed'
  BY <1>1, <1>3, <1>5 DEF Typed
<1>7. Context \in Ids \cup {None} /\ other \in Ids \cup {None} /\ None \notin Ids
  BY Open
<1>8. Owned'
  <2>1. Context' # None => Context' # other' /\ conn'[Context'].state = "selected"
    BY <1>1, <1>7 DEF Owned
  <2>2. other' # None => conn'[other'].state = "selected"
    BY <1>1, <1>7 DEF Owned
  <2>3. ASSUME NEW i \in Ids, conn'[i].state = "selected", ~conn'[i].fatal PROVE i \in {Context', other'}
    BY <1>1, <2>3 DEF Owned
  <2>4. ASSUME NEW i \in Ids, i > Len(Connections') PROVE conn'[i].state = "disconnected"
    BY <1>1, <1>3, <2>4 DEF Owned
  <2> QED BY <2>1, <2>2, <2>3, <2>4 DEF Owned
<1>9. \A i \in Ids : Sound(conn'[i])
  BY <1>1 DEF Sound
<1> QED BY <1>6, <1>8, <1>9 DEF Sound

LEMMA OpenStays ==
  ASSUME MaxConns \in Nat, Right, OpenMailbox \/ OpenOther
  PROVE  Right'
<1> DEFINE opens(f, c) ==
             /\ Put(f, c) /\ UNCHANGED setup
             /\ \/ /\ Context = None /\ Context' = IF c.state = "selected" THEN f.id ELSE None
                   /\ UNCHANGED other
                \/ /\ other = None /\ other' = IF c.state = "selected" THEN f.id ELSE None
                   /\ UNCHANGED Context
<1>0. PICK f \in Found("noselect") : \E c \in Select(f) : opens(f, c)
  BY DEF OpenMailbox, OpenOther
<1>1. PICK c \in Select(f) : opens(f, c)
  BY <1>0
<1>2. Usable(f) /\ f.c.state # "selected" /\ f.id \notin {Context, other}
  BY <1>1, Finding
<1>3. c \in Conns /\ Sound(c)
  BY <1>1, <1>2, Selecting DEF Right
<1>8. /\ Connections' = Listed(f.id) /\ conn' \in [Ids -> Conns] /\ conn'[f.id] = c
      /\ \A i \in Ids \ {f.id} : conn'[i] = conn[i]
  BY <1>1, <1>2, <1>3 DEF Put, Usable, Right, Typed
<1> HIDE DEF opens
<1>4. f.id # None /\ None \notin Ids
  BY <1>2 DEF Usable, Ids, None
<1>5. Context # None => Context # other
  BY DEF Right, Owned
<1>9. UNCHANGED setup
  BY <1>1 DEF opens
<1>6. CASE /\ Context = None /\ Context' = IF c.state = "selected" THEN f.id ELSE None
           /\ UNCHANGED other
  BY <1>2, <1>3, <1>4, <1>6, <1>8, <1>9, Taking
<1>7. CASE /\ other = None /\ other' = IF c.state = "selected" THEN f.id ELSE None
           /\ UNCHANGED Context
  BY <1>2, <1>3, <1>4, <1>5, <1>7, <1>8, <1>9, Taking
<1> QED BY <1>1, <1>6, <1>7 DEF opens

\* A connection changes that is listed already.
LEMMA Changing ==
  ASSUME MaxConns \in Nat, Right, UNCHANGED <<setup, Connections>>, NEW i \in {Context, other}, i # None,
         NEW c \in Conns, Sound(c), conn' = [conn EXCEPT ![i] = c],
         Context' \in {Context, None}, other' \in {other, None},
         i \in {Context', other'} => c.state = "selected",
         c.state = "selected" /\ ~c.fatal => i \in {Context', other'},
         {Context, other} \ {Context', other'} \subseteq {i, None}
  PROVE  Right'
<1> USE DEF Right
<1>1. Len(Connections) \in Nat /\ i \in Ids /\ i <= Len(Connections)
      /\ Context \in Ids \cup {None} /\ other \in Ids \cup {None}
  BY Open
<1>2. \A j \in Ids : conn'[j] = IF j = i THEN c ELSE conn[j]
  BY <1>1 DEF Typed
<1>3. Typed'
  BY <1>1 DEF Typed, None
<1>4. None \notin Ids
  BY DEF None, Ids
<1>5. Owned'
  <2>1. Context' # None => Context' # other' /\ conn'[Context'].state = "selected"
    BY <1>1, <1>2, <1>4 DEF Owned
  <2>2. other' # None => conn'[other'].state = "selected"
    BY <1>1, <1>2, <1>4 DEF Owned
  <2>3. ASSUME NEW j \in Ids, conn'[j].state = "selected", ~conn'[j].fatal PROVE j \in {Context', other'}
    BY <1>2, <1>4, <2>3 DEF Owned
  <2>4. ASSUME NEW j \in Ids, j > Len(Connections') PROVE conn'[j].state = "disconnected"
    BY <1>1, <1>2, <2>4 DEF Owned
  <2> QED BY <2>1, <2>2, <2>3, <2>4 DEF Owned
<1>6. \A j \in Ids : Sound(conn'[j])
  BY <1>2
<1> QED BY <1>3, <1>5, <1>6 DEF Sound

LEMMA CloseStays ==
  ASSUME MaxConns \in Nat, Right, CloseMailbox \/ CloseOther
  PROVE  Right'
<1> DEFINE closes(i, c) ==
             /\ i # None /\ conn' = [conn EXCEPT ![i] = c] /\ UNCHANGED <<setup, Connections>>
             /\ \/ i = Context /\ Context' = None /\ UNCHANGED other
                \/ i = other /\ other' = None /\ UNCHANGED Context
<1>0. PICK i \in {Context, other} : \E c \in imap_close_mailbox(i) : closes(i, c)
  BY DEF CloseMailbox, CloseOther
<1>1. PICK c \in imap_close_mailbox(i) : closes(i, c)
  BY <1>0
<1>2. i \in Ids /\ conn[i] \in Conns /\ Sound(conn[i])
  BY <1>1, Open DEF Right
<1>3. c \in Conns /\ Sound(c) /\ (c.state = "selected" => c.fatal)
  BY <1>1, <1>2, ClosingMailbox
<1>4. i \notin {Context', other'}
  BY <1>1 DEF Right, Owned
<1> QED BY <1>1, <1>3, <1>4, Changing

LEMMA LostStays ==
  ASSUME MaxConns \in Nat, Right, MailboxLost
  PROVE  Right'
<1>1. Context \in Ids /\ Context # None /\ conn[Context] \in Conns
      /\ conn' = [conn EXCEPT ![Context] = Lost(Context, conn[Context])]
      /\ UNCHANGED <<setup, Connections, Context, other>>
  BY Open DEF MailboxLost, Right
<1>2. Lost(Context, conn[Context]) \in Conns /\ Sound(Lost(Context, conn[Context]))
      /\ Lost(Context, conn[Context]).state = conn[Context].state
  BY <1>1, Losing
<1>3. conn[Context].state = "selected"
  BY <1>1 DEF Right, Owned
<1> DEFINE c == Lost(Context, conn[Context])
<1>4. c \in Conns /\ Sound(c) /\ c.state = "selected" /\ conn' = [conn EXCEPT ![Context] = c]
  BY <1>1, <1>2, <1>3
<1> HIDE DEF c
<1> QED BY <1>1, <1>4, Changing

LEMMA AskStays ==
  ASSUME MaxConns \in Nat, Right, NEW flag \in {"any", "nonew"}, Ask(flag)
  PROVE  Right'
<1> DEFINE asks(f, c) == c \in {f.c, Lost(f.id, f.c)} /\ Put(f, c)
<1>0. PICK f \in Found(flag) : \E c : asks(f, c)
  BY DEF Ask
<1>1. PICK c : asks(f, c)
  BY <1>0
<1>2. UNCHANGED <<setup, Context, other>>
  BY DEF Ask
<1>3. Usable(f) /\ (f.id \in {Context, other} => ~conn[f.id].fatal /\ f.c = conn[f.id])
  BY Finding
<1>4. c = f.c \/ c = Lost(f.id, f.c)
  BY <1>1
<1>5. Connections' = Listed(f.id) /\ conn' = [conn EXCEPT ![f.id] = c]
  BY <1>1 DEF Put
<1> HIDE DEF asks
<1>6. /\ Lost(f.id, f.c) \in Conns /\ Sound(Lost(f.id, f.c))
      /\ f.c.state = "selected" => Lost(f.id, f.c).state = "selected"
      /\ f.id # Context /\ f.c.state # "selected" => Lost(f.id, f.c).state = "disconnected"
  BY <1>3, Losing DEF Usable
<1>7. c \in Conns /\ Sound(c) /\ f.id \in Ids /\ f.id # None
  BY <1>3, <1>4, <1>6 DEF Usable, Ids, None
<1>8. CASE f.id \in {Context, other}
  <2>1. f.c.state = "selected"
    BY <1>3, <1>7, <1>8 DEF Right, Owned
  <2>2. Connections' = Connections
    <3>1. f.id <= Len(Connections) /\ f.id \in Nat /\ Len(Connections) \in Nat
      BY <1>7, <1>8, Open DEF Right, Ids
    <3>2. ~(f.id > Len(Connections))
      BY <3>1
    <3> QED BY <1>5, <3>2, Zenon DEF Listed
  <2>3. c.state = "selected"
    BY <1>4, <1>6, <2>1
  <2> QED BY <1>2, <1>5, <1>7, <1>8, <2>2, <2>3, Changing
<1>9. CASE f.id \notin {Context, other}
  <2>1. f.c.state # "selected"
    BY <1>3, <1>7, <1>9 DEF Usable, Right, Owned
  <2>2. c.state # "selected"
    BY <1>4, <1>6, <1>9, <2>1
  <2>3. conn' \in [Ids -> Conns] /\ conn'[f.id] = c /\ \A i \in Ids \ {f.id} : conn'[i] = conn[i]
    BY <1>5, <1>7 DEF Right, Typed
  <2>4. Context # None => Context # other
    BY DEF Right, Owned
  <2> QED BY <1>2, <1>3, <1>5, <1>7, <1>9, <2>2, <2>3, <2>4, Taking
<1> QED BY <1>8, <1>9

LEMMA ReconnectStays ==
  ASSUME MaxConns \in Nat, Right, imap_reconnect
  PROVE  Right'
<1> DEFINE opens(f, c) ==
             /\ Connections' = Listed(f.id)
             /\ conn' = [conn EXCEPT ![f.id] = c, ![Context] = imap_close_connection(@)]
             /\ Context' = IF c.state = "selected" THEN f.id ELSE None
<1>0. PICK f \in Found("noselect") : \E c \in Select(f) : opens(f, c)
  BY DEF imap_reconnect
<1>1. PICK c \in Select(f) : opens(f, c)
  BY <1>0
<1>2. Usable(f) /\ f.c.state # "selected" /\ f.id \notin {Context, other}
  BY Finding
<1>3. c \in Conns /\ Sound(c)
  BY <1>1, <1>2, Selecting DEF Right
<1>4. Context \in Ids /\ Context # other /\ f.id \in Ids /\ f.id # None /\ None \notin Ids
      /\ UNCHANGED <<setup, other>>
  BY <1>2, Open DEF Right, Owned, Usable, imap_reconnect
<1>5. /\ Connections' = Listed(f.id)
      /\ Context' = IF c.state = "selected" THEN f.id ELSE None
  BY <1>1
<1>6. /\ conn' \in [Ids -> Conns] /\ conn'[f.id] = c
      /\ conn'[Context] = imap_close_connection(conn[Context])
      /\ \A i \in Ids \ {f.id, Context} : conn'[i] = conn[i]
  <2> DEFINE d == imap_close_connection(conn[Context])
  <2>1. d \in Conns
    BY <1>4, Closing DEF Right, Typed
  <2>2. conn' = [conn EXCEPT ![f.id] = c, ![Context] = d]
    BY <1>1, <1>2, <1>4 DEF Right, Typed
  <2> HIDE DEF d, opens
  <2>3. conn' \in [Ids -> Conns] /\ conn'[f.id] = c /\ conn'[Context] = d
        /\ \A i \in Ids \ {f.id, Context} : conn'[i] = conn[i]
    BY <1>2, <1>3, <1>4, <2>1, <2>2 DEF Right, Typed
  <2> QED BY <2>3 DEF d
<1> HIDE DEF opens
<1>7. conn'[Context].state = "disconnected" /\ Context \notin {Context', other'}
  <2>1. imap_close_connection(conn[Context]).state = "disconnected"
    BY <1>4, Closing DEF Right, Typed
  <2> QED BY <1>2, <1>4, <1>5, <1>6, <2>1
<1>8. \A i \in Ids \ {f.id} : \/ conn'[i] = conn[i]
                              \/ conn'[i].state = "disconnected" /\ i \notin {Context', other'}
  BY <1>6, <1>7
<1> QED BY <1>2, <1>3, <1>4, <1>5, <1>6, <1>7, <1>8, Taking

(***************************************************************************)
(* The theorem.                                                            *)
(***************************************************************************)
LEMMA RightInit ==
  ASSUME MaxConns \in Nat, Init
  PROVE  Right
<1>1. Typed
  <2>1. NewConn \in Conns
    BY DEF Init, NewConn, Conns, States
  <2>2. Connections \in Seq(Ids) /\ Len(Connections) = 0 /\ DOMAIN Connections = {}
    BY DEF Init
  <2> QED BY <2>1, <2>2 DEF Init, Typed, None
<1>2. \A i \in Ids : conn[i] = NewConn
  BY DEF Init
<1>3. Owned /\ \A i \in Ids : Sound(conn[i])
  BY <1>1, <1>2, NewConnIs DEF Init, Owned
<1> QED BY <1>1, <1>3 DEF Right

LEMMA RightStep ==
  ASSUME MaxConns \in Nat, Right, [Next]_vars
  PROVE  Right'
<1>1. CASE UNCHANGED vars
  BY <1>1 DEF vars, Right, Typed, Owned, Sound
<1>2. CASE Next
  <2>1. ASSUME NEW flag \in {"any", "nonew"}, Ask(flag) PROVE Right'
    BY <2>1, AskStays
  <2> QED BY <1>2, <2>1, OpenStays, CloseStays, LostStays, ReconnectStays DEF Next
<1> QED BY <1>1, <1>2

\* What the invariant says is what the run checks.
LEMMA RightGives ==
  ASSUME MaxConns \in Nat, Right
  PROVE  TypeOK /\ ConnectionsRight
<1>1. \A i \in Ids : conn[i] \in Conns
  BY DEF Right, Typed
<1>2. DOMAIN Level = States
  BY DEF Level, States
<1>3. OneMailboxEach
  BY DEF Right, Owned, OneMailboxEach
<1>4. EncryptedWhenForced /\ OpenIfUsable
  BY <1>1, Levels DEF Right, Sound, EncryptedWhenForced, OpenIfUsable
<1>5. Len(Connections) <= MaxConns
  BY DEF Right, Typed
<1>6. conn \in [Ids -> [fd : BOOLEAN, ssf : BOOLEAN, state : DOMAIN Level, fatal : BOOLEAN]]
  <2>1. conn \in [Ids -> Conns]
    BY DEF Right, Typed
  <2> QED BY <1>2, <2>1 DEF Conns
<1>7. Context \in Ids \cup {None} /\ other \in Ids \cup {None}
  BY Open DEF Right
<1>8. TypeOK
  BY <1>5, <1>6, <1>7 DEF TypeOK
<1> QED BY <1>3, <1>4, <1>8 DEF ConnectionsRight

(***************************************************************************)
(* However many connections the account may have, and whatever the user    *)
(* set: no connection has two mailboxes selected and none stays selected   *)
(* for a mailbox that was closed; with $ssl_force_tls none is logged in    *)
(* without encryption, however often it was closed and opened again; and   *)
(* none that did not fail is taken for open when its socket is closed      *)
(* (imap_conn_find(), imap_reconnect(), cmd_handle_fatal()).               *)
(***************************************************************************)
THEOREM ConnectionsCorrect ==
  ASSUME MaxConns \in Nat
  PROVE  Spec => [](TypeOK /\ ConnectionsRight)
<1>1. Init => Right
  BY RightInit
<1>2. Right /\ [Next]_vars => Right'
  BY RightStep
<1>3. Right => TypeOK /\ ConnectionsRight
  BY RightGives
<1> QED BY <1>1, <1>2, <1>3, PTL DEF Spec
==============================================================================
