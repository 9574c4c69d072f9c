----------------------------- MODULE Connection -----------------------------
(***************************************************************************)
(* The connections to an IMAP account: the list of mutt_socket.c, tunnels  *)
(* (mutt_tunnel.c), finding, opening and authenticating a connection       *)
(* (imap_conn_find(), imap_open_connection(), imap_authenticate()), and    *)
(* what a lost connection leaves behind (cmd_handle_fatal(),               *)
(* imap_reconnect()).                                                      *)
(*                                                                         *)
(* mutt has one open mailbox, Context, and may open another one for a      *)
(* moment (the folder of a postponed message, of an original that was      *)
(* answered).  Everything else it asks an IMAP server goes over whatever   *)
(* connection imap_conn_find() returns.                                    *)
(***************************************************************************)
EXTENDS Naturals, Sequences

CONSTANTS
    MaxConns       \* bound: connections of the account

VARIABLES
    setup,         \* $tunnel, $tunnel_is_secure, $ssl_force_tls, imaps: or imap:
    Connections,   \* the list, newest first
    conn,          \* CONNECTION and IMAP_DATA
    Context,       \* the connection of the open mailbox
    other          \* the connection of another one

vars == <<setup, Connections, conn, Context, other>>
------------------------------------------------------------------------------
Ids == 1 .. MaxConns
None == 0

Level == [disconnected |-> 0, connected |-> 1, authenticated |-> 2, selected |-> 3]
AtLeast(c, state) == Level[c.state] >= Level[state]

\* socket_new_conn(), and the setup of a tunnel, which takes the connection
\* for encrypted when $tunnel_is_secure.
NewConn == [fd |-> FALSE, ssf |-> setup.tunnel /\ setup.secure,
            state |-> "disconnected", fatal |-> FALSE]

Init ==
  /\ setup \in [tunnel : BOOLEAN, secure : BOOLEAN, force : BOOLEAN, imaps : BOOLEAN]
  /\ Connections = <<>>
  /\ conn = [i \in Ids |-> NewConn]
  /\ Context = None /\ other = None

\* mutt_socket_close(), also of a connection that is closed.
mutt_socket_close(c) == [c EXCEPT !.fd = FALSE, !.ssf = FALSE]

imap_close_connection(c) ==
  IF c.state = "disconnected" THEN [c EXCEPT !.fatal = FALSE]
  ELSE [mutt_socket_close(c) EXCEPT !.state = "disconnected", !.fatal = FALSE]

\* mutt_socket_open(): a tunnel leaves ssf alone, as a plain socket does; TLS
\* from the start sets it.
mutt_socket_open(c) ==
  [c EXCEPT !.fd = TRUE, !.ssf = @ \/ (setup.imaps /\ ~setup.tunnel), !.state = "connected"]

\* STARTTLS, if the server offers it (or in any case with $ssl_force_tls) and
\* the user agrees: it may be refused, or end the attempt.
Starttls(c) == IF c.ssf THEN {c} ELSE {c, [c EXCEPT !.ssf = TRUE]}

\* With $ssl_force_tls the connection is given up when it is not encrypted.
ForcedOr(c) == c.ssf \/ ~setup.force

\* imap_open_connection(): what it may leave.
Opened(c) ==
  LET fresh == mutt_socket_open(c)
      greeted == Starttls(fresh)
      preauth == {[fresh EXCEPT !.state = "authenticated"]}
  IN {d \in greeted \cup preauth : ForcedOr(d)} \cup {c, imap_close_connection(fresh)}

\* imap_authenticate() and what follows it: a failed login leaves the
\* connection as it is, a lost link closes it.
Authenticated(c) ==
  IF c.state # "connected" THEN {c}
  ELSE {[c EXCEPT !.state = "authenticated"], c, imap_close_connection(c)}

LoggedIn(c) ==
  UNION {Authenticated(d) : d \in IF c.state = "disconnected" THEN Opened(c) ELSE {c}}

\* Mutant: a connection with a mailbox open is returned for another one.
Suits_Selected(c, flag) ==
  /\ flag = "nonew" => AtLeast(c, "authenticated")
  /\ ~c.fatal

\* What the loop of imap_conn_find() does not pass over.
Suits(c, flag) ==
  /\ flag = "nonew" => AtLeast(c, "authenticated")
  /\ flag = "noselect" => ~AtLeast(c, "selected")
  /\ ~c.fatal

\* imap_conn_find(): the connection it takes, a new one at the head of the
\* list if none suits, and the states logging in may leave it in.
Chosen(flag) ==
  LET good == {k \in DOMAIN Connections : Suits(conn[Connections[k]], flag)}
  IN IF good # {} THEN Connections[CHOOSE k \in good : \A l \in good : k <= l]
     ELSE IF flag # "nonew" /\ Len(Connections) < MaxConns THEN Len(Connections) + 1
     ELSE None

Listed(i) == IF i > Len(Connections) THEN <<i>> \o Connections ELSE Connections

Found(flag) ==
  LET i == Chosen(flag)
      start == IF i > Len(Connections) THEN NewConn ELSE conn[i]
  IN {[id |-> i, c |-> c] : c \in IF i = None THEN {} ELSE LoggedIn(start)}

\* cmd_handle_fatal(): the open mailbox is left for imap_check_mailbox().
Fatal(i, c) ==
  IF i = Context THEN [c EXCEPT !.fatal = TRUE]
  ELSE IF AtLeast(c, "selected") THEN [c EXCEPT !.fatal = TRUE]
  ELSE imap_close_connection(c)

\* The link is lost under a command: the socket is closed, then fatal.
Lost(i, c) == Fatal(i, mutt_socket_close(c))
------------------------------------------------------------------------------
\* imap_open_mailbox(): SELECT succeeds, is refused, or the link is lost,
\* also while headers are read, which leaves an authenticated connection
\* that is never used again.
Select(f) ==
  IF ~AtLeast(f.c, "authenticated") THEN {f.c}
  ELSE {[f.c EXCEPT !.state = "selected", !.fatal = FALSE],
        [f.c EXCEPT !.fatal = FALSE],
        Lost(f.id, f.c),
        [mutt_socket_close(f.c) EXCEPT !.fatal = TRUE, !.state = "authenticated"]}

Put(f, c) ==
  /\ Connections' = Listed(f.id)
  /\ conn' = [conn EXCEPT ![f.id] = c]

OpenMailbox ==
  /\ Context = None
  /\ \E f \in Found("noselect") : \E c \in Select(f) :
       /\ Put(f, c)
       /\ Context' = IF c.state = "selected" THEN f.id ELSE None
  /\ UNCHANGED <<setup, other>>

OpenOther ==
  /\ other = None
  /\ \E f \in Found("noselect") : \E c \in Select(f) :
       /\ Put(f, c)
       /\ other' = IF c.state = "selected" THEN f.id ELSE None
  /\ UNCHANGED <<setup, Context>>

\* imap_close_mailbox(): CLOSE may be the command that finds the link lost.
imap_close_mailbox(i) ==
  IF conn[i].fatal \/ ~AtLeast(conn[i], "selected") THEN {conn[i]}
  ELSE LET done == [conn[i] EXCEPT !.state = "authenticated"]
       IN {done, [mutt_socket_close(done) EXCEPT !.fatal = TRUE]}

CloseMailbox ==
  /\ Context # None
  /\ \E c \in imap_close_mailbox(Context) : conn' = [conn EXCEPT ![Context] = c]
  /\ Context' = None
  /\ UNCHANGED <<setup, Connections, other>>

CloseOther ==
  /\ other # None
  /\ \E c \in imap_close_mailbox(other) : conn' = [conn EXCEPT ![other] = c]
  /\ other' = None
  /\ UNCHANGED <<setup, Connections, Context>>

\* imap_open_mailbox_append(), browsing, subscribing; with "nonew" polling,
\* completion and $imap_passive: a command, under which the link may be lost.
Ask(flag) ==
  /\ \E f \in Found(flag) :
       \E c \in IF AtLeast(f.c, "authenticated") THEN {f.c, Lost(f.id, f.c)} ELSE {f.c} :
         Put(f, c)
  /\ UNCHANGED <<setup, Context, other>>

\* A command of the open mailbox loses the link.
MailboxLost ==
  /\ Context # None
  /\ ~conn[Context].fatal
  /\ conn' = [conn EXCEPT ![Context] = Lost(Context, @)]
  /\ UNCHANGED <<setup, Connections, Context, other>>

\* imap_check_mailbox() of a fatal mailbox: imap_reconnect() opens it over
\* another connection and then closes the old one.
imap_reconnect ==
  /\ Context # None
  /\ conn[Context].fatal
  /\ \E f \in Found("noselect") : \E c \in Select(f) :
       /\ Connections' = Listed(f.id)
       /\ conn' = [conn EXCEPT ![f.id] = c, ![Context] = imap_close_connection(@)]
       /\ Context' = IF c.state = "selected" THEN f.id ELSE None
  /\ UNCHANGED <<setup, other>>

Next ==
  \/ OpenMailbox \/ CloseMailbox
  \/ OpenOther \/ CloseOther
  \/ \E flag \in {"any", "nonew"} : Ask(flag)
  \/ MailboxLost
  \/ imap_reconnect

Spec == Init /\ [][Next]_vars
------------------------------------------------------------------------------
TypeOK ==
  /\ Len(Connections) <= MaxConns
  /\ conn \in [Ids -> [fd : BOOLEAN, ssf : BOOLEAN, state : DOMAIN Level, fatal : BOOLEAN]]
  /\ Context \in Ids \cup {None} /\ other \in Ids \cup {None}

\* A connection has one mailbox selected: what is asked for another mailbox,
\* or what a reconnect opens, never takes the connection of an open one, and
\* no connection in use stays selected for a mailbox that was closed.
OneMailboxEach ==
  /\ Context # None => Context # other
  /\ \A i \in Ids : conn[i].state = "selected" /\ ~conn[i].fatal => i \in {Context, other}
  /\ Context # None => conn[Context].state = "selected"

\* With $ssl_force_tls no connection that is in use is logged in without
\* encryption, however often it was closed and opened again.
EncryptedWhenForced ==
  setup.force => \A i \in Ids : conn[i].fd /\ AtLeast(conn[i], "connected") => conn[i].ssf

\* Every connection that is taken for good is open: a command is never given
\* to a closed socket of a connection that did not fail.
OpenIfUsable ==
  \A i \in Ids : AtLeast(conn[i], "authenticated") /\ ~conn[i].fatal => conn[i].fd

ConnectionsRight == OneMailboxEach /\ EncryptedWhenForced /\ OpenIfUsable

\* The manual says of a tunnel that is secure that mutt behaves as if TLS had
\* been negotiated: also over a connection that is opened again.
TunnelIsSecure ==
  setup.tunnel /\ setup.secure => \A i \in Ids : conn[i].fd => conn[i].ssf
==============================================================================
