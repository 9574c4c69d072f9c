------------------------------ MODULE UserMC ------------------------------
(* What the user types, sees and sends. *)
EXTENDS Autocrypt


\* p and q announce keys: dated headers, one in mail older than what is known, one
\* dated in the future, a message without a header, and a third party's gossip.
Mail ==
  { [about |-> "p", date |-> 1, what |-> "header", key |-> "A", mutual |-> TRUE],
    [about |-> "p", date |-> 2, what |-> "header", key |-> "B", mutual |-> FALSE],
    [about |-> "p", date |-> 5, what |-> "plain", key |-> "-", mutual |-> FALSE],
    [about |-> "p", date |-> 3, what |-> "gossip", key |-> "A", mutual |-> FALSE],
    [about |-> "q", date |-> 1, what |-> "header", key |-> "D", mutual |-> TRUE],
    [about |-> "q", date |-> 9, what |-> "header", key |-> "E", mutual |-> TRUE] }

\* Options for PGP and S/MIME: opportunistic, automatic, with GPGME or without.
CryptOption(oppenc, autocrypt, gpgme, auto, smime, both) ==
  [oppenc |-> oppenc, autocrypt |-> autocrypt, gpgme |-> gpgme, autosign |-> auto,
   autoencrypt |-> auto, reply |-> ~auto, inline |-> auto, autopgp |-> ~smime \/ both,
   autosmime |-> smime \/ both, smime_default |-> smime, postpone_encrypt |-> both]
CryptOptions ==
  { CryptOption(TRUE, TRUE, TRUE, FALSE, FALSE, TRUE), CryptOption(TRUE, FALSE, FALSE, TRUE, TRUE, FALSE),
    CryptOption(FALSE, TRUE, FALSE, FALSE, FALSE, TRUE), CryptOption(TRUE, TRUE, FALSE, FALSE, TRUE, TRUE),
    CryptOption(FALSE, FALSE, TRUE, TRUE, TRUE, TRUE) }
Origs == { {}, {"PGP", "SIGN", "INLINE"}, {"SMIME", "ENCRYPT"}, {"PGP", "AUTOCRYPT"},
           {"PGP", "SMIME", "SIGN", "ENCRYPT"} }

\* A message with a message in it, alternatives, a message alone, an encrypted part.
MailPart(type, parent) == [type |-> type, parent |-> parent, inside |-> FALSE]
InPart(type, parent) == [type |-> type, parent |-> parent, inside |-> TRUE]
MailParts ==
  { << MailPart("multipart", 0), MailPart("text", 1), MailPart("message", 1),
       MailPart("multipart", 3), MailPart("text", 4), MailPart("image", 4), MailPart("image", 1) >>,
    << MailPart("multipart", 0), MailPart("alternative", 1), MailPart("text", 2),
       MailPart("image", 2), MailPart("text", 1) >>,
    << MailPart("message", 0), MailPart("text", 1) >>,
    << MailPart("multipart", 0), MailPart("text", 1), MailPart("encrypted", 1),
       MailPart("image", 3), InPart("multipart", 3), InPart("text", 5), InPart("image", 5) >> }

\* Menus with help and status lines in every place, with margins, and a dialog.
MenuOption(margin, status_on_top, move_off) ==
  [context |-> margin, help |-> ~status_on_top, status_on_top |-> status_on_top,
   scroll |-> status_on_top, move_off |-> move_off, wrap |-> ~move_off,
   auto_tag |-> move_off, resolve |-> ~status_on_top, dialog |-> FALSE]
MenuOptions ==
  {MenuOption(c, s, m) : c \in 0 .. 1, s \in BOOLEAN, m \in BOOLEAN}
    \cup {[MenuOption(0, FALSE, FALSE) EXCEPT !.dialog = TRUE]}

\* Key sequences that are the beginning of others, macros that call themselves and each
\* other, and a menu that hides the key for help.
Binding(menu, keys, op, macro) == [menu |-> menu, keys |-> keys, op |-> op, macro |-> macro]
Typed(k) == [ch |-> k, op |-> "null"]
Binds ==
  {Binding("index", s, "next", <<>>) : s \in UNION {[1 .. n -> {1, 2}] : n \in 1 .. 3}}
    \cup { Binding("index", <<1>>, "macro", <<Typed(2), [ch |-> 0, op |-> "next"]>>),
           Binding("index", <<3>>, "macro", <<Typed(2)>>),
           Binding("index", <<3, 2>>, "help", <<>>),
           Binding("generic", <<1>>, "macro", <<Typed(1)>>),
           Binding("generic", <<2>>, "next", <<>>),
           Binding("generic", <<3>>, "noop", <<>>),
           Binding("generic", <<1, 2>>, "help", <<>>) }

\* A behaviour is one of a single module.  The others, but for the one extended, are given
\* the same variables, so that a state has no more of them than the largest needs.
VARIABLES
    part,          \* the module that is checked
    x1, x2, x3, x4, x5, x6, x7, x8, x9, x10, x11, x12, x13, x14, x15

Compose == INSTANCE Send WITH
  Sessions <- {"s1", "s2"}, Security <- {"none", "sign", "encrypt"}, MaxTries <- 1,
  ses <- x1, active <- x2, shape <- x3, pc <- x4, editor <- x5, ProcessList <- x6,
  finished <- x7, SigChld <- x8, drafts <- x9, fcc <- x10, sent <- x11,
  given_up <- x12, orig <- x13
Dialogue == INSTANCE Smtp WITH
  MaxLength <- 4, Buffer <- 2,
  file <- x1, rcpts <- x2, pos <- x3, wire <- x4, pc <- x5, Capabilities <- x6,
  encrypted <- x7, accepted <- x8, delivered <- x9, ret <- x10
Menus == INSTANCE Menu WITH
  MaxEntries <- 4, MaxTagged <- 1, Heights <- {5, 6}, Settings <- MenuOptions,
  conf <- x1, lines <- x2, windows <- x3, menu <- x4, tags <- x5, screen <- x6,
  untold <- x7, depth <- x8, waiting <- x9
Editor == INSTANCE LineEditor WITH
  Width <- 4, MaxLength <- 3,
  wbuf <- x1, curpos <- x2, begin <- x3, first <- x4, redraw <- x5, result <- x6
Past == INSTANCE History WITH
  HistSize <- 3, SaveHist <- 2, Lines <- {"a", "b", "c", " "}, Blanked <- {" "},
  MaxFile <- 4,
  dups <- x1, hist <- x2, last <- x3, cur <- x4, file <- x5, uses <- x6, line <- x7,
  kept <- x8, typed <- x9
Keyboard == INSTANCE Keymap WITH
  Keys <- {1, 2, 3}, AtFirst <- {<<1, 1>>, <<1, 2>>, <<2, 1, 1>>, <<2, 1, 2>>},
  Bindings <- Binds, MaxBinds <- 2, MaxTyped <- 3, MaxLoop <- 2,
  Keymaps <- x1, UngetKeyEvents <- x2, MacroEvents <- x3, pc <- x4, call <- x5,
  probe <- x6, bound <- x7, todo <- x8, jumbled <- x9, typed <- x10, binds <- x11
Side == INSTANCE Sidebar WITH
  Boxes <- {1, 2, 3}, Whitelist <- {}, Rows <- {2}, Methods <- {"order", "unread"},
  Status <- {"none", "unread"},
  Incoming <- x1, Entries <- x2, hidden <- x3, TopIndex <- x4, OpnIndex <- x5,
  HilIndex <- x6, BotIndex <- x7, PreviousSort <- x8, status <- x9, open <- x10,
  sort <- x11, new_only <- x12, rows <- x13, drawn <- x14, chosen <- x15
Attach == INSTANCE Attachments WITH
  Files <- {1, 2, 3}, UserFiles <- {1}, MaxBodies <- 3, MaxTime <- 1,
  MaxOthers <- 1, MaxCommands <- 3,
  body <- x1, next <- x2, content <- x3, idx <- x4, files <- x5, now <- x6,
  mode <- x7, others <- x8, commands <- x9, kept <- x10, made <- x11
Flags == INSTANCE Security WITH
  People <- {"a", "b"}, PgpKeys <- {"a"}, SmimeKeys <- {"b"},
  AutocryptKeys <- {"a", "b"}, Prefer <- {"a"}, SignKeys <- {"k"},
  Settings <- CryptOptions, Originals <- Origs, MaxCommands <- 4,
  opt <- x1, to <- x2, security <- x3, sign_as <- x4, PgpSignAs <- x5, draft <- x6,
  out <- x7, pc <- x8, asked <- x9, stale <- x10, commands <- x11
Received == INSTANCE RecvAttach WITH
  Mails <- MailParts, MaxCommands <- 4,
  mail <- x1, readable <- x2, idx <- x3, collapsed <- x4, tagged <- x5,
  deleted <- x6, security <- x7, attach_del <- x8, sent <- x9, commands <- x10

own == <<db, history, keyring, revoked, account, msg, seen>>

AutocryptStarts ==
  /\ part = "Autocrypt" /\ Init
  /\ x1 = 0 /\ x2 = 0 /\ x3 = 0 /\ x4 = 0 /\ x5 = 0 /\ x6 = 0 /\ x7 = 0 /\ x8 = 0
  /\ x9 = 0 /\ x10 = 0 /\ x11 = 0 /\ x12 = 0 /\ x13 = 0 /\ x14 = 0 /\ x15 = 0
AutocryptSteps ==
  /\ part = "Autocrypt" /\ Next
  /\ UNCHANGED <<part, x1, x2, x3, x4, x5, x6, x7, x8, x9, x10, x11, x12, x13, x14,
                 x15>>
SendStarts ==
  /\ part = "Send" /\ Compose!Init
  /\ db = 0 /\ history = 0 /\ keyring = 0 /\ revoked = 0 /\ account = 0 /\ msg = 0 /\ seen = 0
  /\ x14 = 0 /\ x15 = 0
SendSteps ==
  /\ part = "Send" /\ Compose!Next
  /\ UNCHANGED <<part, own, x14, x15>>
SmtpStarts ==
  /\ part = "Smtp" /\ Dialogue!Init
  /\ db = 0 /\ history = 0 /\ keyring = 0 /\ revoked = 0 /\ account = 0 /\ msg = 0 /\ seen = 0
  /\ x11 = 0 /\ x12 = 0 /\ x13 = 0 /\ x14 = 0 /\ x15 = 0
SmtpSteps ==
  /\ part = "Smtp" /\ Dialogue!Next
  /\ UNCHANGED <<part, own, x11, x12, x13, x14, x15>>
MenuStarts ==
  /\ part = "Menu" /\ Menus!Init
  /\ db = 0 /\ history = 0 /\ keyring = 0 /\ revoked = 0 /\ account = 0 /\ msg = 0 /\ seen = 0
  /\ x10 = 0 /\ x11 = 0 /\ x12 = 0 /\ x13 = 0 /\ x14 = 0 /\ x15 = 0
MenuSteps ==
  /\ part = "Menu" /\ Menus!Next
  /\ UNCHANGED <<part, own, x10, x11, x12, x13, x14, x15>>
LineEditorStarts ==
  /\ part = "LineEditor" /\ Editor!Init
  /\ db = 0 /\ history = 0 /\ keyring = 0 /\ revoked = 0 /\ account = 0 /\ msg = 0 /\ seen = 0
  /\ x7 = 0 /\ x8 = 0 /\ x9 = 0 /\ x10 = 0 /\ x11 = 0 /\ x12 = 0 /\ x13 = 0
  /\ x14 = 0 /\ x15 = 0
LineEditorSteps ==
  /\ part = "LineEditor" /\ Editor!Next
  /\ UNCHANGED <<part, own, x7, x8, x9, x10, x11, x12, x13, x14, x15>>
HistoryStarts ==
  /\ part = "History" /\ Past!Init
  /\ db = 0 /\ history = 0 /\ keyring = 0 /\ revoked = 0 /\ account = 0 /\ msg = 0 /\ seen = 0
  /\ x10 = 0 /\ x11 = 0 /\ x12 = 0 /\ x13 = 0 /\ x14 = 0 /\ x15 = 0
HistorySteps ==
  /\ part = "History" /\ Past!Next
  /\ UNCHANGED <<part, own, x10, x11, x12, x13, x14, x15>>
KeymapStarts ==
  /\ part = "Keymap" /\ Keyboard!Init
  /\ db = 0 /\ history = 0 /\ keyring = 0 /\ revoked = 0 /\ account = 0 /\ msg = 0 /\ seen = 0
  /\ x12 = 0 /\ x13 = 0 /\ x14 = 0 /\ x15 = 0
KeymapSteps ==
  /\ part = "Keymap" /\ Keyboard!Next
  /\ UNCHANGED <<part, own, x12, x13, x14, x15>>
SidebarStarts ==
  /\ part = "Sidebar" /\ Side!Init
  /\ db = 0 /\ history = 0 /\ keyring = 0 /\ revoked = 0 /\ account = 0 /\ msg = 0 /\ seen = 0
SidebarSteps ==
  /\ part = "Sidebar" /\ Side!Next
  /\ UNCHANGED <<part, own>>
AttachmentsStarts ==
  /\ part = "Attachments" /\ Attach!Init
  /\ db = 0 /\ history = 0 /\ keyring = 0 /\ revoked = 0 /\ account = 0 /\ msg = 0 /\ seen = 0
  /\ x12 = 0 /\ x13 = 0 /\ x14 = 0 /\ x15 = 0
AttachmentsSteps ==
  /\ part = "Attachments" /\ Attach!Next
  /\ UNCHANGED <<part, own, x12, x13, x14, x15>>
SecurityStarts ==
  /\ part = "Security" /\ Flags!Init
  /\ db = 0 /\ history = 0 /\ keyring = 0 /\ revoked = 0 /\ account = 0 /\ msg = 0 /\ seen = 0
  /\ x12 = 0 /\ x13 = 0 /\ x14 = 0 /\ x15 = 0
SecuritySteps ==
  /\ part = "Security" /\ Flags!Next
  /\ UNCHANGED <<part, own, x12, x13, x14, x15>>
RecvAttachStarts ==
  /\ part = "RecvAttach" /\ Received!Init
  /\ db = 0 /\ history = 0 /\ keyring = 0 /\ revoked = 0 /\ account = 0 /\ msg = 0 /\ seen = 0
  /\ x11 = 0 /\ x12 = 0 /\ x13 = 0 /\ x14 = 0 /\ x15 = 0
RecvAttachSteps ==
  /\ part = "RecvAttach" /\ Received!Next
  /\ UNCHANGED <<part, own, x11, x12, x13, x14, x15>>

allVars == <<part, own, x1, x2, x3, x4, x5, x6, x7, x8, x9, x10, x11, x12, x13, x14,
             x15>>
UserInit ==
  \/ AutocryptStarts
  \/ SendStarts
  \/ SmtpStarts
  \/ MenuStarts
  \/ LineEditorStarts
  \/ HistoryStarts
  \/ KeymapStarts
  \/ SidebarStarts
  \/ AttachmentsStarts
  \/ SecurityStarts
  \/ RecvAttachStarts
UserNext ==
  \/ AutocryptSteps
  \/ SendSteps
  \/ SmtpSteps
  \/ MenuSteps
  \/ LineEditorSteps
  \/ HistorySteps
  \/ KeymapSteps
  \/ SidebarSteps
  \/ AttachmentsSteps
  \/ SecuritySteps
  \/ RecvAttachSteps
UserSpec == UserInit /\ [][UserNext]_allVars


\* The variables of the part that is explored have their types.
TypesOK ==
  /\ part = "Autocrypt" => TypeOK
  /\ part = "Send" => Compose!TypeOK
  /\ part = "Smtp" => Dialogue!TypeOK
  /\ part = "Menu" => Menus!TypeOK
  /\ part = "LineEditor" => Editor!TypeOK
  /\ part = "History" => Past!TypeOK
  /\ part = "Keymap" => Keyboard!TypeOK
  /\ part = "Sidebar" => Side!TypeOK
  /\ part = "Attachments" => Attach!TypeOK
  /\ part = "Security" => Flags!TypeOK
  /\ part = "RecvAttach" => Received!TypeOK

\* A message that could not be sent is edited again as the user wrote it.
ComposeIsClear == part = "Send" => Compose!ComposeIsClear

\* Every session ends once, and nothing of it is lost.
SessionsRight == part = "Send" => Compose!SessionsRight

\* The server gets the message and the recipients, and mutt says so.
SmtpRight == part = "Smtp" => Dialogue!SessionRight

\* Mail is encrypted by itself only to keys their owners announced, and it is encrypted
\* whenever the user wanted it to be.
KeysRight ==
  /\ part = "Autocrypt" => AutocryptRight
  /\ part = "Security" => Flags!SecurityRight

\* What a menu and the sidebar show is what is there.
ScreenRight ==
  /\ part = "Menu" => Menus!MenuRight
  /\ part = "Sidebar" => Side!SidebarRight

\* The attachments that are listed are those that are sent, deleted and forwarded.
PartsRight ==
  /\ part = "Attachments" => Attach!AttachmentsRight
  /\ part = "RecvAttach" => Received!RecvAttachRight

\* Keys do what they are bound to; what is typed is edited, and remembered, as meant.
InputRight ==
  /\ part = "Keymap" => Keyboard!KeymapRight
  /\ part = "LineEditor" => Editor!LineRight
  /\ part = "History" => Past!HistoryRight
==============================================================================
