------------------------------ MODULE Security -------------------------------
(***************************************************************************)
(* Which messages are signed and encrypted: hdr->security, the flags that  *)
(* send.c sets by the options and the message that is answered, that the   *)
(* menus of PGP, S/MIME and Autocrypt change (pgp.c, smime.c,              *)
(* crypt-gpgme.c, compose.c), that follow the recipients under             *)
(* $crypt_opportunistic_encrypt and $autocrypt, and that a postponed       *)
(* message keeps in a header (sendlib.c, postpone.c).  mutt_protect()      *)
(* does in the end what they say.                                          *)
(***************************************************************************)
EXTENDS Integers, FiniteSets

CONSTANTS
    People,        \* recipients
    PgpKeys, SmimeKeys,        \* those with a key mutt finds by itself
    AutocryptKeys, Prefer,     \* those with an Autocrypt key, and who prefer to use it
    SignKeys,      \* secret keys
    Settings,      \* options: records of BOOLEANs
    Originals,     \* hdr->security of messages that are answered
    MaxCommands    \* bound

VARIABLES
    opt,
    to,            \* the recipients
    security,      \* hdr->security
    sign_as,       \* sctx->pgp_sign_as, sctx->smime_sign_as; "" is NULL
    PgpSignAs,     \* the options $pgp_sign_as and $smime_sign_as
    draft,         \* the postponed message: a set of at most one
    out,           \* what was sent: a set of at most one [how, by]
    pc,            \* "edit", "compose", "index"
    asked,         \* the user, or an option, said "encrypt" last
    stale,         \* the built-in editor changed recipients since anything was looked up
    commands

vars == <<opt, to, security, sign_as, PgpSignAs, draft, out, pc, asked, stale, commands>>

Systems == {"PGP", "SMIME"}
Wanted == {"ENCRYPT", "SIGN", "AUTOCRYPT"}
Flags == Wanted \cup Systems \cup {"AUTOCRYPT_OVERRIDE", "OPPENCRYPT", "INLINE"}
------------------------------------------------------------------------------
\* crypt_get_keys(): every system that is selected has a key for every recipient.
HasKeys(s, people) ==
  /\ people # {} /\ s \cap Systems # {}
  /\ "PGP" \in s => people \subseteq PgpKeys
  /\ "SMIME" \in s => people \subseteq SmimeKeys

crypt_opportunistic_encrypt(s, people) ==
  IF ~opt.oppenc \/ "OPPENCRYPT" \notin s THEN s
  ELSE IF HasKeys(s, people) THEN s \cup {"ENCRYPT"} ELSE s \ {"ENCRYPT"}

\* mutt_autocrypt_ui_recommendation()
Recommended(s, people) ==
  "SMIME" \notin s /\ people # {} /\ people \subseteq AutocryptKeys \cap Prefer

\* update_crypt_info(), of compose.c.
AutocryptFollows(s, people) ==
  IF ~opt.autocrypt THEN s
  ELSE IF s \cap {"ENCRYPT", "SIGN", "SMIME"} # {} THEN s \ {"AUTOCRYPT", "AUTOCRYPT_OVERRIDE"}
  ELSE IF "AUTOCRYPT_OVERRIDE" \in s THEN s
  ELSE IF Recommended(s, people) THEN (s \cup {"AUTOCRYPT", "PGP"}) \ {"INLINE", "SMIME"}
  ELSE s \ {"AUTOCRYPT"}
update_crypt_info(s, people) ==
  AutocryptFollows(crypt_opportunistic_encrypt(s, people), people)
------------------------------------------------------------------------------
(* mutt_send_message(): the flags are set, unless a pgp: header did.        *)
If(condition, flags) == IF condition THEN flags ELSE {}

ByOption(cur) ==
  IF opt.autocrypt /\ "AUTOCRYPT" \in cur THEN {"AUTOCRYPT", "AUTOCRYPT_OVERRIDE", "PGP"}
  ELSE LET wanted == If(opt.autosign, {"SIGN"}) \cup If(opt.autoencrypt, {"ENCRYPT"})
                       \cup If(opt.reply, cur \cap {"SIGN", "ENCRYPT"})
                       \cup If(opt.reply /\ "ENCRYPT" \in cur, {"SIGN"})
       IN wanted \cup If((wanted # {} \/ opt.oppenc) /\ (opt.inline \/ (opt.reply /\ "INLINE" \in cur)),
                         {"INLINE"})

\* The system of the original, else the default.
System(s, cur) ==
  LET own == IF opt.autopgp /\ "PGP" \in cur THEN {"PGP"} ELSE cur \cap If(opt.autosmime, {"SMIME"})
  IN CASE s = {} /\ ~opt.oppenc -> {}
       [] (s \cup own) \cap Systems # {} -> own
       [] opt.autosmime /\ (opt.smime_default \/ ~opt.autopgp) -> {"SMIME"}
       [] opt.autopgp -> {"PGP"}
       [] OTHER -> {}

Decided(cur, people) ==
  LET chosen == ByOption(cur) \cup System(ByOption(cur), cur)
      opportunistic == IF opt.oppenc /\ chosen \cap {"ENCRYPT", "AUTOCRYPT"} = {}
                       THEN crypt_opportunistic_encrypt(chosen \cup {"OPPENCRYPT"}, people)
                       ELSE chosen
  IN IF opportunistic \cap Systems = {} THEN {} ELSE opportunistic

\* What a pgp: header says, in lower-case letters or not.
PgpHeader == {{"PGP"} \cup s : s \in {{"ENCRYPT"}, {"SIGN"}, {"ENCRYPT", "SIGN", "INLINE"}}}

Init ==
  /\ opt \in Settings
  /\ to \in SUBSET People
  /\ security = {} /\ sign_as = [s \in Systems |-> ""]
  /\ PgpSignAs = [s \in Systems |-> "default"]
  /\ draft = {} /\ out = {} /\ pc = "edit" /\ asked = FALSE /\ stale = FALSE
  /\ commands = 0

\* The compose menu begins with update_crypt_info().
Compose(s, people) ==
  /\ to' = people
  /\ security' = update_crypt_info(s, people)
  /\ pc' = "compose" /\ stale' = FALSE

Start ==
  /\ pc = "edit"
  /\ \/ \E cur \in Originals :
          /\ Compose(Decided(cur, to), to)
          /\ asked' = (ByOption(cur) \cap {"ENCRYPT", "AUTOCRYPT"} # {} /\ Decided(cur, to) # {})
     \/ \E s \in PgpHeader : Compose(s, to) /\ asked' = ("ENCRYPT" \in s)
  /\ UNCHANGED <<opt, sign_as, PgpSignAs, draft, out>>
------------------------------------------------------------------------------
(* The compose menu. *)
Composing == pc = "compose" /\ commands < MaxCommands /\ commands' = commands + 1

\* OP_COMPOSE_EDIT_TO and the like.
EditRecipients ==
  /\ Composing
  /\ \E people \in SUBSET People : Compose(security, people)
  /\ UNCHANGED <<opt, sign_as, PgpSignAs, draft, out, asked>>

\* OP_COMPOSE_EDIT_HEADERS: with a pgp: header, which replaces all flags, or without.
EditHeaders ==
  /\ Composing
  /\ \E people \in SUBSET People :
       \/ Compose(security, people) /\ UNCHANGED asked
       \/ \E s \in PgpHeader : Compose(s, people) /\ asked' = ("ENCRYPT" \in s)
  /\ UNCHANGED <<opt, sign_as, PgpSignAs, draft, out>>

\* mutt_builtin_editor(): ~t and the like change recipients; nothing is looked up.
BuiltinEditor ==
  /\ Composing
  /\ to' \in SUBSET People /\ stale' = TRUE
  /\ UNCHANGED <<opt, security, sign_as, PgpSignAs, draft, out, pc, asked>>

\* pgp_send_menu(), smime_send_menu(), gpgme_send_menu(): what each answer makes of the flags.
Opportunistic(s) == opt.oppenc /\ "OPPENCRYPT" \in s
Offered(s, system) ==
  (IF Opportunistic(s) THEN {"S", "C", "o"} ELSE {"e", "s", "b", "c"} \cup If(opt.oppenc, {"O"}))
    \cup {"a", "abort"}
    \cup If(opt.gpgme, {"m"})
    \cup If(~opt.gpgme /\ system = "PGP" /\ s \cap {"ENCRYPT", "SIGN"} # {}, {"i"})
    \cup If(~opt.gpgme /\ system = "SMIME", {"w"})
Answered(s, answer, system) ==
  CASE answer = "e" -> (s \cup {"ENCRYPT"}) \ {"SIGN"}
    [] answer = "w" -> s \cup {"ENCRYPT"}
    [] answer = "s" -> (s \cup {"SIGN"}) \ {"ENCRYPT"}
    [] answer \in {"S", "a"} -> s \cup {"SIGN"}
    [] answer = "b" -> s \cup {"SIGN", "ENCRYPT"}
    [] answer = "c" -> s \ {"SIGN", "ENCRYPT"}
    [] answer = "C" -> s \ {"SIGN"}
    [] answer = "O" -> crypt_opportunistic_encrypt(s \cup {"OPPENCRYPT"}, to)
    [] answer = "o" -> s \ {"OPPENCRYPT"}
    [] answer = "i" -> IF "INLINE" \in s THEN s \ {"INLINE"} ELSE s \cup {"INLINE"}
    [] answer = "m" -> crypt_opportunistic_encrypt((s \ {system}) \cup (Systems \ {system}), to)
    [] OTHER -> s
AutoInline(s, system) ==
  If(~opt.gpgme /\ system = "PGP" /\ opt.inline /\ ~({"PGP"} \subseteq s /\ s \cap {"SIGN", "ENCRYPT"} # {}),
     {"INLINE"})

\* OP_COMPOSE_PGP_MENU, OP_COMPOSE_SMIME_MENU: the other system is left first; what was
\* to be signed or encrypted with it is cleared, after a question.
Left(s, system) ==
  IF Systems \ {system} \subseteq s
  THEN update_crypt_info((s \ ({"SIGN", "ENCRYPT"} \cup Systems)) \cup {system}, to)
  ELSE s
\* The user's choice, for comparison: what an answer leaves of the wish to encrypt.  Under
\* opportunistic encryption, "w" is about the algorithm only.
StillAsked(before, answer) ==
  CASE answer \in {"e", "b"} -> TRUE
    [] answer = "w" -> asked \/ ~Opportunistic(before)
    [] answer \in {"s", "c", "O"} -> FALSE
    [] answer \in {"a", "S", "m"} -> asked /\ "AUTOCRYPT" \notin before
    [] OTHER -> asked
SendMenu(system) ==
  /\ Composing
  /\ LET before == Left(security, system)
         s == before \cup {system} \cup AutoInline(before, system)
         switched == Systems \ {system} \subseteq security
     IN \E answer \in Offered(s, system), key \in SignKeys :
          /\ answer = "a" \/ key = CHOOSE k \in SignKeys : TRUE
          /\ security' = update_crypt_info(Answered(s, answer, system), to)
          /\ sign_as' = IF answer = "a" THEN [sign_as EXCEPT ![system] = key] ELSE sign_as
          /\ asked' = StillAsked(before, answer) /\ ~(switched /\ answer \notin {"e", "b", "w"})
  /\ stale' = FALSE
  /\ UNCHANGED <<opt, to, PgpSignAs, draft, out, pc>>

\* OP_COMPOSE_AUTOCRYPT_MENU, autocrypt_compose_menu().
AutocryptMenu ==
  /\ Composing /\ opt.autocrypt
  /\ LET s == Left(security, "PGP") \cup {"PGP"}
     IN \/ /\ security' = update_crypt_info(
                (s \cup {"AUTOCRYPT", "AUTOCRYPT_OVERRIDE"}) \ {"ENCRYPT", "SIGN", "OPPENCRYPT", "INLINE"}, to)
           /\ asked' = TRUE
        \/ /\ security' = update_crypt_info((s \ {"AUTOCRYPT"}) \cup {"AUTOCRYPT_OVERRIDE"}, to)
           /\ asked' = FALSE
        \/ /\ security' = update_crypt_info(
                (s \ {"AUTOCRYPT_OVERRIDE"}) \cup If(opt.oppenc, {"OPPENCRYPT"}), to)
           /\ asked' = FALSE
  /\ stale' = FALSE
  /\ UNCHANGED <<opt, to, sign_as, PgpSignAs, draft, out, pc>>
------------------------------------------------------------------------------
\* mutt_protect(): the options for the key are replaced while it runs; what is left in them
\* and what the content is then.  The AUTOCRYPT flag stands for both, with keys of its own.
Replaced == [s \in Systems |-> IF sign_as[s] # "" THEN sign_as[s] ELSE PgpSignAs[s]]
Restored(replaced) == [s \in Systems |-> IF sign_as[s] # "" THEN PgpSignAs[s] ELSE replaced[s]]
Encrypts(s) ==
  IF s \cap {"ENCRYPT", "AUTOCRYPT"} = {} \/ s \cap Systems = {} THEN "none"
  ELSE IF "PGP" \in s THEN "PGP" ELSE "SMIME"
Signs(s) ==
  CASE "AUTOCRYPT" \in s -> "autocrypt"
    [] "SIGN" \in s /\ "PGP" \in s -> Replaced["PGP"]
    [] "SIGN" \in s /\ "SMIME" \in s -> Replaced["SMIME"]
    [] OTHER -> "none"
Protected(s) == [how |-> Encrypts(s), by |-> Signs(s)]
\* One of its many steps, or the search for keys, fails; the menu comes again.
Fails(s) ==
  /\ s \cap Wanted # {}
  /\ PgpSignAs' \in {PgpSignAs, Restored(Replaced)}
  /\ Compose(security, to)
  /\ UNCHANGED <<draft, out>>

Send ==
  /\ Composing
  /\ \/ Fails(security) /\ UNCHANGED sign_as
     \/ /\ "AUTOCRYPT" \in security => to \subseteq AutocryptKeys /\ "SMIME" \notin security
        /\ security \cap Wanted # {} => security \cap Systems # {}
        /\ out' = {Protected(security)}
        /\ PgpSignAs' = Restored(Replaced)
        /\ sign_as' = [s \in Systems |-> ""]
        /\ pc' = "index"
        /\ UNCHANGED <<to, security, draft, stale>>
  /\ UNCHANGED <<opt, asked>>

\* postpone_message(): encrypted to oneself, not signed; the flags go to headers, each
\* system's with its letters.
Letters(system, s) ==
  s \cap ({"ENCRYPT", "OPPENCRYPT", "SIGN", "INLINE", system}
            \cup If(system = "PGP", {"AUTOCRYPT", "AUTOCRYPT_OVERRIDE"}))
Headers(s) ==
  [system \in s \cap Systems |->
     [flags |-> Letters(system, s), sign_as |-> IF "SIGN" \in s THEN sign_as[system] ELSE ""]]
postpone_message ==
  /\ Composing
  /\ LET secret == opt.postpone_encrypt /\ security \cap {"ENCRYPT", "AUTOCRYPT"} # {}
     IN \/ secret /\ Fails(security) /\ UNCHANGED sign_as
        \/ /\ draft' = {[to |-> to, headers |-> Headers(security), was |-> security,
                         chosen |-> sign_as, asked |-> asked, stale |-> stale,
                         how |-> IF secret THEN Encrypts(security \ {"SIGN"}) ELSE "none"]}
           /\ PgpSignAs' = IF secret THEN Restored(Replaced) ELSE PgpSignAs
           /\ sign_as' = [s \in Systems |-> ""]
           /\ pc' = "index"
           /\ UNCHANGED <<to, security, out, stale>>
  /\ UNCHANGED <<opt, asked>>

\* mutt_get_postponed(): what the content shows, then what the headers say.
FromContent(how) == IF how = "none" THEN {} ELSE {how, "ENCRYPT"}
FromHeaders(h, how) ==
  CASE "SMIME" \in DOMAIN h -> h["SMIME"].flags
    [] "PGP" \in DOMAIN h -> h["PGP"].flags
    [] OTHER -> FromContent(how)
Recall ==
  /\ pc = "index" /\ \E d \in draft :
       /\ Compose(crypt_opportunistic_encrypt(FromHeaders(d.headers, d.how), d.to), d.to)
       /\ sign_as' = [s \in Systems |-> IF s \in DOMAIN d.headers THEN d.headers[s].sign_as ELSE ""]
       /\ asked' = d.asked
  /\ draft' = {} /\ out' = {}
  /\ UNCHANGED <<opt, PgpSignAs, commands>>

\* mutt_resend_message(), of what was sent: a signature inside the encryption is not seen.
Resend ==
  /\ pc = "index" /\ \E o \in out :
       LET seen == FromContent(o.how) \cup If(o.how = "none" /\ o.by # "none", {"SIGN", "PGP"})
           s == seen \cup If(seen \cap Systems = {}, {IF opt.smime_default THEN "SMIME" ELSE "PGP"})
       IN Compose(crypt_opportunistic_encrypt(s \cup If(opt.oppenc, {"OPPENCRYPT"}), to), to)
  /\ asked' = FALSE /\ out' = {}
  /\ UNCHANGED <<opt, sign_as, PgpSignAs, draft, commands>>

Next ==
  \/ Start /\ UNCHANGED commands
  \/ EditRecipients \/ EditHeaders \/ BuiltinEditor
  \/ \E system \in Systems : SendMenu(system)
  \/ AutocryptMenu \/ Send \/ postpone_message \/ Recall \/ Resend

Spec == Init /\ [][Next]_vars
------------------------------------------------------------------------------
TypeOK ==
  /\ opt \in Settings /\ to \subseteq People /\ security \subseteq Flags
  /\ sign_as \in [Systems -> SignKeys \cup {""}]
  /\ PgpSignAs \in [Systems -> SignKeys \cup {"default"}]
  /\ Cardinality(draft) <= 1 /\ Cardinality(out) <= 1
  /\ pc \in {"edit", "compose", "index"} /\ asked \in BOOLEAN /\ stale \in BOOLEAN
  /\ commands \in 0 .. MaxCommands

\* A message the user wanted encrypted, and did not change that, is not sent in the clear:
\* not by what recipients, menus, options, postponing or a failed attempt make of the flags.
AskedIsKept == \A o \in out : asked => o.how # "none"

\* With opportunistic encryption on, the message is encrypted if there are keys for all who
\* get it, and only then.
OppencIsCurrent ==
  pc = "compose" /\ ~stale /\ Opportunistic(security) =>
    ("ENCRYPT" \in security <=> HasKeys(security, to))

\* Flags that exclude each other: one system, and Autocrypt by itself.
FlagsAgree ==
  pc = "compose" /\ security \cap Wanted # {} =>
    /\ Cardinality(security \cap Systems) = 1
    /\ opt.autocrypt /\ "AUTOCRYPT" \in security => security \cap {"ENCRYPT", "SIGN", "SMIME"} = {}

\* The headers of a postponed message say all that will be needed to send it as it is; and
\* it is not kept in the clear if it will not be sent so.
DraftIsWhole ==
  \A d \in draft :
    LET s == FromHeaders(d.headers, d.how)
    IN /\ ~d.stale => update_crypt_info(crypt_opportunistic_encrypt(s, d.to), d.to) = d.was
       /\ \A system \in Systems :
            "SIGN" \in d.was /\ system \in d.was => d.headers[system].sign_as = d.chosen[system]
       /\ opt.postpone_encrypt /\ d.asked => d.how # "none"

\* The key for one message does not become the key for all.
OptionsRestored == PgpSignAs = [s \in Systems |-> "default"]

SecurityRight == AskedIsKept /\ OppencIsCurrent /\ FlagsAgree /\ DraftIsWhole /\ OptionsRestored
=============================================================================
