------------------------------ MODULE Autocrypt ------------------------------
(***************************************************************************)
(* What mutt learns of other people's keys from the mail it reads, in the  *)
(* order it happens to read it (autocrypt/autocrypt.c), and what it makes  *)
(* of it when a message is composed (compose.c, crypt_get_keys()).         *)
(*                                                                         *)
(* A key and its id are one value here; the database rows keep them in two *)
(* columns all the same.  Importing a key, and each write to the database, *)
(* may fail; what was written before stays.                                *)
(***************************************************************************)
EXTENDS Integers, FiniteSets, FiniteSetsExt

CONSTANTS
    Peers,         \* addresses mail comes from, and goes to
    Messages,      \* mail to read: [about, date, what, key, mutual], what is
                   \* "header", "gossip" (of about, by somebody else) or "plain"
    Future,        \* dates from here on are more than a week ahead
    MaxRevoked,    \* bound: keys revoked
    Stale          \* 35 days, in the unit of the dates

NoKey == "no key"

ASSUME AutocryptAssumption ==
  \A m \in Messages : m.about \in Peers /\ m.date \in Nat \ {0} /\ m.key # NoKey

VARIABLES
    db,            \* the peer table: [Peers -> set of at most one row]
    history,       \* the history tables: set of [peer, key]
    keyring,       \* keys GPG has imported
    revoked,       \* keys that are no longer valid
    account,       \* the account row: [enabled, prefer_encrypt]
    msg,           \* the message being composed: [recips, flags]
    seen           \* messages processed to the end

vars == <<db, history, keyring, revoked, account, msg, seen>>
------------------------------------------------------------------------------
Init ==
  /\ db = [p \in Peers |-> {}]
  /\ history = {} /\ keyring = {} /\ revoked = {} /\ seen = {}
  /\ account \in [enabled : {TRUE}, prefer_encrypt : BOOLEAN]
  /\ msg = [recips |-> {}, flags |-> {}]

Row(p) == CHOOSE r \in db[p] : TRUE
NewRow == [last_seen |-> 0, autocrypt_timestamp |-> 0, keyid |-> NoKey, keydata |-> NoKey,
           prefer_encrypt |-> FALSE,
           gossip_timestamp |-> 0, gossip_keyid |-> NoKey, gossip_keydata |-> NoKey]
------------------------------------------------------------------------------
(* A message is read: its header is parsed, or it is decrypted.            *)

\* Mutant: the row is inserted whether there is one or not.
PeerRows_Insert(m, row) == db[m.about] \cup {row}

PeerRows(m, row) == {row}

\* Import the key, write the row, note it in the history: up to the step that
\* fails.
Stored(m, row, import) ==
  \/ /\ db' = [db EXCEPT ![m.about] = PeerRows(m, row)]
     /\ keyring' = IF import THEN keyring \cup {m.key} ELSE keyring
     /\ \/ history' = (IF import THEN history \cup {[peer |-> m.about, key |-> m.key]}
                       ELSE history)
           /\ seen' = seen \cup {m}
        \/ import /\ UNCHANGED <<history, seen>>
  \/ UNCHANGED <<db, keyring, history, seen>>
  \/ import /\ keyring' = keyring \cup {m.key} /\ UNCHANGED <<db, history, seen>>

Outdated(m, row) == m.date <= row.autocrypt_timestamp

mutt_autocrypt_process_autocrypt_header(m) ==
  /\ m.what \in {"header", "plain"} /\ m.date < Future
  /\ IF db[m.about] = {} THEN
       IF m.what = "header"
       THEN Stored(m, [NewRow EXCEPT !.last_seen = m.date, !.autocrypt_timestamp = m.date,
                                     !.keyid = m.key, !.keydata = m.key,
                                     !.prefer_encrypt = m.mutual], TRUE)
       ELSE UNCHANGED <<db, keyring, history, seen>>
     ELSE IF Outdated(m, Row(m.about)) THEN seen' = seen \cup {m}
                                            /\ UNCHANGED <<db, keyring, history>>
     ELSE LET row == Row(m.about)
              later == IF m.date > row.last_seen THEN [row EXCEPT !.last_seen = m.date] ELSE row
              import == m.what = "header" /\ row.keydata # m.key
          IN IF m.what = "header"
             THEN Stored(m, [later EXCEPT !.autocrypt_timestamp = m.date,
                                          !.prefer_encrypt = m.mutual,
                                          !.keydata = m.key,
                                          !.keyid = IF import THEN m.key ELSE @], import)
             ELSE /\ \/ db' = [db EXCEPT ![m.about] = {later}] /\ seen' = seen \cup {m}
                     \/ UNCHANGED <<db, seen>>
                  /\ UNCHANGED <<keyring, history>>
  /\ UNCHANGED <<revoked, account, msg>>

\* Mutant: a key that comes by gossip is taken for the peer's own.
Gossiped_Own(m, row, import) ==
  [row EXCEPT !.gossip_timestamp = m.date, !.keydata = m.key, !.keyid = m.key]

Gossiped(m, row, import) ==
  [row EXCEPT !.gossip_timestamp = m.date,
              !.gossip_keydata = IF import THEN m.key ELSE @,
              !.gossip_keyid = IF import THEN m.key ELSE @]

\* The peer's own key is not kept as gossip too, if there is no gossip yet.
mutt_autocrypt_process_gossip_header(m) ==
  /\ m.what = "gossip" /\ m.date < Future
  /\ LET row == IF db[m.about] = {} THEN NewRow ELSE Row(m.about)
         old == IF row.gossip_keydata # NoKey THEN row.gossip_keydata ELSE row.keydata
     IN IF db[m.about] # {} /\ m.date <= row.gossip_timestamp
        THEN seen' = seen \cup {m} /\ UNCHANGED <<db, keyring, history>>
        ELSE Stored(m, Gossiped(m, row, old # m.key), old # m.key)
  /\ UNCHANGED <<revoked, account, msg>>

Revoke ==
  /\ Cardinality(revoked) < MaxRevoked
  /\ \E k \in keyring \ revoked : revoked' = revoked \cup {k}
  /\ UNCHANGED <<db, history, keyring, account, msg, seen>>
------------------------------------------------------------------------------
(* mutt_autocrypt_ui_recommendation()                                      *)

Valid(k) == k # NoKey /\ k \in keyring \ revoked

\* The key for a recipient, or NoKey.
KeyFor(p) ==
  IF db[p] = {} THEN NoKey
  ELSE IF Valid(Row(p).keyid) THEN Row(p).keyid
  ELSE IF Valid(Row(p).gossip_keyid) THEN Row(p).gossip_keyid ELSE NoKey

Discouraged(p) ==
  \/ ~Valid(Row(p).keyid)
  \/ Row(p).last_seen = 0 \/ Row(p).autocrypt_timestamp = 0
  \/ Row(p).last_seen - Row(p).autocrypt_timestamp > Stale

recommendation(recips) ==
  IF ~account.enabled THEN "off"
  ELSE IF recips = {} \/ \E p \in recips : KeyFor(p) = NoKey THEN "no"
  ELSE IF \A p \in recips : /\ ~Discouraged(p)
                            /\ account.prefer_encrypt /\ Row(p).prefer_encrypt THEN "yes"
  ELSE IF \E p \in recips : Discouraged(p) THEN "discourage" ELSE "available"
------------------------------------------------------------------------------
(* The compose menu.                                                       *)

\* update_crypt_info(): what the user has not decided follows the
\* recommendation, and any other encryption overrides it.
Updated(recips, flags) ==
  IF "encrypt" \in flags THEN flags \ {"autocrypt", "override"}
  ELSE IF "override" \in flags THEN flags
  ELSE IF recommendation(recips) = "yes" THEN flags \cup {"autocrypt"}
  ELSE flags \ {"autocrypt"}

EditRecipients ==
  /\ \E recips \in SUBSET Peers :
       msg' = [recips |-> recips, flags |-> Updated(recips, msg.flags)]
  /\ UNCHANGED <<db, history, keyring, revoked, account, seen>>

\* (e)ncrypt, (c)lear, (a)utomatic
autocrypt_compose_menu ==
  /\ \E flags \in {(msg.flags \cup {"autocrypt", "override"}) \ {"encrypt"},
                   (msg.flags \ {"autocrypt"}) \cup {"override"},
                   msg.flags \ {"override"}} :
       msg' = [msg EXCEPT !.flags = Updated(msg.recips, flags)]
  /\ UNCHANGED <<db, history, keyring, revoked, account, seen>>

\* The PGP menu: encrypt, or clear.
PgpMenu ==
  /\ \E flags \in {msg.flags \cup {"encrypt"}, msg.flags \ {"encrypt"}} :
       msg' = [msg EXCEPT !.flags = Updated(msg.recips, flags)]
  /\ UNCHANGED <<db, history, keyring, revoked, account, seen>>

\* toggle_active() and toggle_prefer_encrypt() of the account menu
ToggleAccount ==
  /\ \/ account' = [account EXCEPT !.enabled = ~@]
     \/ account' = [account EXCEPT !.prefer_encrypt = ~@]
  /\ UNCHANGED <<db, history, keyring, revoked, msg, seen>>

\* crypt_get_keys() asks for the recommendation again: without keys the user
\* is back in the menu.
Send ==
  /\ msg.recips # {}
  /\ "autocrypt" \in msg.flags => recommendation(msg.recips) \notin {"off", "no"}
  /\ msg' = [recips |-> {}, flags |-> {}]
  /\ UNCHANGED <<db, history, keyring, revoked, account, seen>>

Read ==
  \E m \in Messages : \/ mutt_autocrypt_process_autocrypt_header(m)
                      \/ mutt_autocrypt_process_gossip_header(m)

Next ==
  \/ Read \/ Revoke
  \/ EditRecipients \/ autocrypt_compose_menu \/ PgpMenu \/ ToggleAccount \/ Send

Spec == Init /\ [][Next]_vars
------------------------------------------------------------------------------
Keys == {m.key : m \in Messages}

TypeOK ==
  /\ \A p \in Peers : Cardinality(db[p]) <= 1
  /\ history \subseteq [peer : Peers, key : Keys]
  /\ revoked \subseteq keyring /\ keyring \subseteq Keys
  /\ msg.recips \subseteq Peers /\ msg.flags \subseteq {"autocrypt", "override", "encrypt"}
  /\ seen \subseteq Messages

Headers(p) == {m \in seen : m.about = p /\ m.what = "header"}
Gossip(p) == {m \in seen : m.about = p /\ m.what = "gossip"}

\* Whatever order the mail was read in, and however often: the key of a peer
\* is that of the newest header read, and the newest gossip is kept apart from
\* it; the row names no key that was not imported.
NewestWins ==
  \A p \in Peers :
    /\ Headers(p) # {} =>
         LET newest == Max({m.date : m \in Headers(p)})
         IN /\ Row(p).autocrypt_timestamp >= newest
            /\ Row(p).last_seen >= newest
            /\ Row(p).autocrypt_timestamp = newest =>
                 \E m \in Headers(p) : m.date = newest /\ m.key = Row(p).keydata
                                       /\ m.mutual = Row(p).prefer_encrypt
    /\ Gossip(p) # {} => Row(p).gossip_timestamp >= Max({m.date : m \in Gossip(p)})
    /\ db[p] # {} =>
         /\ Row(p).keyid = Row(p).keydata /\ Row(p).gossip_keyid = Row(p).gossip_keydata
         /\ {Row(p).keyid, Row(p).gossip_keyid} \subseteq keyring \cup {NoKey}

\* Nothing is encrypted on mutt's own account unless every recipient asked for
\* it: when the flag is there by recommendation, each one has written a header of
\* its own that says so, not dated in the future, whose key mutt has (from there or
\* by gossip).
OnlyByConsent ==
  "autocrypt" \in msg.flags /\ "override" \notin msg.flags =>
    \A p \in msg.recips :
      \E m \in Messages : /\ m.about = p /\ m.what = "header" /\ m.date < Future
                          /\ m.mutual /\ m.key \in keyring

\* The keys a message would be encrypted to belong to its recipients, and none comes
\* out of mail dated in the future.
KeysAreOwned ==
  \A p \in Peers : KeyFor(p) # NoKey =>
    \E m \in Messages : m.about = p /\ m.key = KeyFor(p) /\ m.date < Future

AutocryptRight == NewestWins /\ OnlyByConsent /\ KeysAreOwned
==============================================================================
