-------------------------------- MODULE Smtp --------------------------------
(***************************************************************************)
(* mutt_smtp_send() and what it calls in smtp.c: a session with a mail     *)
(* server, from the greeting to the answer to the final ".".  The message  *)
(* is copied through a buffer, a piece at a time, with the dots at the     *)
(* beginning of lines doubled and lines ended with CRLF.                   *)
(*                                                                         *)
(* The server answers each command, refuses it, or closes the link; after  *)
(* the final "." it has the message, whether its answer arrives or not.    *)
(***************************************************************************)
EXTENDS Naturals, Sequences, SequencesExt, FiniteSetsExt

CONSTANTS
    Buffer,        \* how many characters fgets() reads into buf
    MaxLength      \* bound: characters of a message

VARIABLES
    file,          \* the message: characters, "." and line ends are told apart
    rcpts,         \* the recipients of To, Cc and Bcc: addresses or group names
    pos,           \* characters of it read
    wire,          \* what was sent after DATA
    pc,            \* the next command
    Capabilities,  \* what the last EHLO announced
    encrypted,
    accepted,      \* recipients the server accepted
    delivered,     \* the server has taken the message
    ret            \* what mutt_smtp_send() returns: "busy" until then

vars == <<file, rcpts, pos, wire, pc, Capabilities, encrypted, accepted, delivered, ret>>
sendVars == <<file, rcpts, pos, wire, delivered>>
------------------------------------------------------------------------------
Chars == {"x", ".", "\n"}
Files == UNION {[1 .. n -> Chars] : n \in 0 .. MaxLength}
Extensions == {"STARTTLS", "AUTH", "8BITMIME"}

Init ==
  /\ file \in Files
  /\ rcpts \in {<<"a">>, <<"a", "group", "b">>}
  /\ pos = 0 /\ wire = <<>>
  /\ pc = "greeting"
  /\ Capabilities = {} /\ encrypted \in BOOLEAN
  /\ accepted = {} /\ delivered = FALSE
  /\ ret = "busy"

\* An error ends the session: the connection is closed.
Fails ==
  /\ ret' = "error"
  /\ pc' = "closed"

\* smtp_get_resp() of a command with no effect but the next one.
Goes(here, next) ==
  /\ pc = here
  /\ \/ pc' = next /\ UNCHANGED ret
     \/ Fails
  /\ UNCHANGED <<sendVars, Capabilities, encrypted, accepted>>

\* smtp_helo(): the capabilities are those of this answer only.
smtp_helo ==
  /\ pc \in {"EHLO", "EHLO again"}
  /\ \/ /\ \E caps \in SUBSET Extensions : Capabilities' = caps
        /\ pc' \in IF encrypted \/ pc = "EHLO again" THEN {"AUTH"} ELSE {"STARTTLS", "AUTH"}
        /\ UNCHANGED ret
     \/ Fails /\ Capabilities' = {}
  /\ UNCHANGED <<sendVars, encrypted, accepted>>

\* STARTTLS, and EHLO again for what the server offers then.
Starttls ==
  /\ pc = "STARTTLS"
  /\ \/ encrypted' = TRUE /\ pc' = "EHLO again" /\ UNCHANGED ret
     \/ Fails /\ UNCHANGED encrypted
  /\ UNCHANGED <<sendVars, Capabilities, accepted>>

\* smtp_auth(): only if there is a user and the server asks for it.
smtp_auth ==
  /\ pc = "AUTH"
  /\ \/ pc' = "MAIL" /\ UNCHANGED ret
     \/ "AUTH" \in Capabilities /\ Fails
  /\ UNCHANGED <<sendVars, Capabilities, encrypted, accepted>>

\* smtp_rcpt_to(): group names are left out; one refusal ends the session.
Recipients == {a \in ToSet(rcpts) : a # "group"}

smtp_rcpt_to ==
  /\ pc = "RCPT"
  /\ \/ /\ \E a \in Recipients \ accepted : accepted' = accepted \cup {a}
        /\ pc' = IF accepted' = Recipients THEN "DATA" ELSE "RCPT"
        /\ UNCHANGED ret
     \/ Fails /\ UNCHANGED accepted
  /\ UNCHANGED <<sendVars, Capabilities, encrypted>>
------------------------------------------------------------------------------
(* smtp_data()                                                             *)

Newlines(s) == {k \in 1 .. Len(s) : s[k] = "\n"}

\* fgets(): to the end of a line, or a buffer full.
Piece ==
  LET rest == SubSeq(file, pos + 1, Len(file))
      whole == IF Newlines(rest) = {} THEN Len(rest)
               ELSE CHOOSE k \in Newlines(rest) : \A l \in Newlines(rest) : k <= l
  IN SubSeq(rest, 1, IF whole <= Buffer THEN whole ELSE Buffer)

\* Mutant: only a dot that is alone on its line is doubled.
Stuffed_Alone(p) == IF p = <<".", "\n">> THEN <<".">> \o p ELSE p

\* A piece that begins with a dot gets another one.
Stuffed(p) == IF p[1] = "." THEN <<".">> \o p ELSE p

SendPiece ==
  /\ pc = "body"
  /\ pos < Len(file)
  /\ pos' = pos + Len(Piece)
  /\ \/ wire' = wire \o Stuffed(Piece) /\ UNCHANGED <<pc, ret>>
     \/ Fails /\ UNCHANGED wire
  /\ UNCHANGED <<file, rcpts, Capabilities, encrypted, accepted, delivered>>

\* A message that does not end with a line end gets one.
Ended(w) == IF file # <<>> /\ Last(file) # "\n" THEN Append(w, "\n") ELSE w

EndBody ==
  /\ pc = "body"
  /\ pos = Len(file)
  /\ wire' = Ended(wire) \o <<".", "\n">>
  /\ pc' = "answer"
  /\ UNCHANGED <<file, rcpts, pos, Capabilities, encrypted, accepted, delivered, ret>>

\* The lines the server has of what was sent, up to the line that is a dot.
Final(w) ==
  {k \in 2 .. Len(w) : w[k] = "\n" /\ w[k - 1] = "." /\ (k = 2 \/ w[k - 2] = "\n")}

\* The answer to the final ".": success, an error, or it is lost.
Answer ==
  /\ pc = "answer"
  /\ \/ delivered' = TRUE /\ ret' = "sent"
     \/ delivered' \in BOOLEAN /\ ret' = "error"
  /\ pc' = "closed"
  /\ UNCHANGED <<file, rcpts, pos, wire, Capabilities, encrypted, accepted>>

Next ==
  \/ Goes("greeting", "EHLO")
  \/ smtp_helo \/ Starttls \/ smtp_auth
  \/ Goes("MAIL", "RCPT")
  \/ smtp_rcpt_to
  \/ Goes("DATA", "body")
  \/ SendPiece \/ EndBody \/ Answer

Spec == Init /\ [][Next]_vars
------------------------------------------------------------------------------
TypeOK ==
  /\ file \in Seq(Chars) /\ pos \in 0 .. Len(file)
  /\ wire \in Seq(Chars)
  /\ accepted \subseteq Recipients
  /\ ret \in {"busy", "error", "sent"}

\* A dot that begins a piece in the middle of a line is doubled as well, and the
\* server does not remove it.
InLine(k) == k - Max({0} \cup {j \in 1 .. k - 1 : file[j] = "\n"}) - 1
Redoubled ==
  {k \in 1 .. Len(file) : file[k] = "." /\ InLine(k) > 0 /\ InLine(k) % Buffer = 0}
TextReceived ==
  FlattenSeq([k \in 1 .. Len(file) |-> IF k \in Redoubled THEN <<".", ".">> ELSE <<file[k]>>])

\* What the server makes of the text: the dot that begins a line is removed.
LineStart(w, k) == k = 1 \/ w[k - 1] = "\n"
Unstuffed(w) ==
  LET kept == {k \in 1 .. Len(w) : ~(LineStart(w, k) /\ w[k] = ".")}
  IN SelectSeq([k \in 1 .. Len(w) |-> [c |-> w[k], keep |-> k \in kept]], LAMBDA r : r.keep)

Text(s) == [k \in 1 .. Len(s) |-> s[k].c]

\* The end of the message is its own: no line of it ends DATA early, and the
\* server has the message as it is, but for the dots that begin a piece within a
\* line: those it has twice.
BodyArrives ==
  pc = "answer" =>
    /\ Final(wire) = {Len(wire)}
    /\ Text(Unstuffed(SubSeq(wire, 1, Len(wire) - 2))) = Ended(TextReceived)

\* A message that is called sent was taken by the server for every recipient;
\* one that was not may have been taken all the same, only when the answer to
\* the final dot was lost.
SentIsSent ==
  /\ ret = "sent" => delivered /\ accepted = Recipients
  /\ delivered => Final(wire) # {}

SessionRight == BodyArrives /\ SentIsSent
==============================================================================
