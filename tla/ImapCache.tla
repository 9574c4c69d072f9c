------------------------------ MODULE ImapCache ------------------------------
(***************************************************************************)
(* Opening an IMAP mailbox with a header cache: from imap_read_headers()   *)
(* and the functions it calls in imap/message.c, the part of               *)
(* imap_sync_mailbox() that writes to the cache, and the UID sequence set  *)
(* of imap/util.c.                                                         *)
(*                                                                         *)
(* Without extensions the cached headers are matched with the UIDs and     *)
(* flags of the server; with CONDSTORE only the flags that changed since   *)
(* the cached modification sequence are asked for; with QRESYNC the        *)
(* numbering comes from the cache too, and the server says what vanished.  *)
(* A message has one flag here.  UIDVALIDITY does not change.              *)
(***************************************************************************)
EXTENDS Integers, FiniteSets, SequencesExt

CONSTANTS
    MaxUid,      \* bound: UIDs are 1 .. MaxUid
    MaxModseq,   \* bound: changes the server counts
    SyncLost     \* the connection may be lost in the middle of a sync

VARIABLES
    box,         \* the mailbox: UIDs in order
    nextUid, modseq,
    flagOf,      \* flags on the server, by UID
    modOf,       \* when a flag was last changed, or the message expunged
    caps,        \* {}, {"CONDSTORE"} or {"CONDSTORE", "QRESYNC"}
    hcache,      \* cached headers: UID -> flag
    hc,          \* the entries /MODSEQ, /UIDNEXT and /UIDSEQSET; 0 and <<>> for none
    pc,          \* where imap_read_headers() is
    sess,        \* the server's numbering of the session
    highest,     \* HIGHESTMODSEQ of the session
    method,      \* what the cache is used for
    index,       \* idata->msn_index: UIDs by number, 0 for NULL
    flag,        \* h->read and so on, by UID
    changed,     \* UIDs with h->changed
    unsynced     \* headers cached with flags the server did not get

mailbox == <<box, nextUid, modseq, flagOf, modOf>>
cache == <<hcache, hc>>
client == <<sess, highest, method, index, flag, changed>>
vars == <<mailbox, caps, cache, pc, client, unsynced>>
------------------------------------------------------------------------------
Uids == 1 .. MaxUid
NoCache == [modseq |-> 0, uidnext |-> 0, seqset |-> <<>>]
With(f, u, x) == [v \in DOMAIN f \cup {u} |-> IF v = u THEN x ELSE f[v]]
Drop(f, S) == [v \in DOMAIN f \ S |-> f[v]]
Known == Range(index) \ {0}

\* What seq has of K, in order.
Kept(seq, K) ==
  LET P == {i \in DOMAIN seq : seq[i] \in K}
  IN [n \in 1 .. Cardinality(P) |-> seq[CHOOSE i \in P : Cardinality({j \in P : j <= i}) = n]]

\* imap_close_mailbox() forgets what the session knew.
Forget ==
  /\ pc' = "closed"
  /\ sess' = <<>> /\ highest' = 0 /\ method' = "none"
  /\ index' = <<>> /\ flag' = <<>> /\ changed' = {}

\* Room for a change on the server.
Counts == modseq < MaxModseq

Init ==
  /\ box = <<1, 2>> /\ nextUid = 3 /\ modseq = 1
  /\ flagOf = [u \in {1, 2} |-> FALSE] /\ modOf = [u \in {1, 2} |-> 1]
  /\ caps \in {{}, {"CONDSTORE"}, {"CONDSTORE", "QRESYNC"}}
  /\ hcache = <<>> /\ hc = NoCache
  /\ pc = "closed" /\ sess = <<>> /\ highest = 0 /\ method = "none"
  /\ index = <<>> /\ flag = <<>> /\ changed = {}
  /\ unsynced = {}
------------------------------------------------------------------------------
(* Other clients.  What they do to a mailbox that is open, or being opened, *)
(* is seen by ImapMailbox and ImapFlags.                                    *)

Deliver ==
  /\ pc = "closed" /\ nextUid \in Uids /\ Counts
  /\ box' = Append(box, nextUid)
  /\ flagOf' = With(flagOf, nextUid, FALSE)
  /\ modOf' = With(modOf, nextUid, modseq + 1)
  /\ nextUid' = nextUid + 1 /\ modseq' = modseq + 1
  /\ UNCHANGED <<caps, cache, pc, client, unsynced>>

Expunge(u) ==
  /\ u \in Range(box) /\ Counts
  /\ box' = Kept(box, Range(box) \ {u})
  /\ modOf' = With(modOf, u, modseq + 1)
  /\ modseq' = modseq + 1
  /\ UNCHANGED <<nextUid, flagOf>>

OtherClientExpunges(u) ==
  /\ pc = "closed"
  /\ Expunge(u)
  /\ UNCHANGED <<caps, cache, pc, client, unsynced>>

OtherClientStores(u) ==
  /\ pc = "closed" /\ u \in Range(box) /\ Counts
  /\ flagOf' = [flagOf EXCEPT ![u] = ~@]
  /\ modOf' = [modOf EXCEPT ![u] = modseq + 1]
  /\ modseq' = modseq + 1
  /\ UNCHANGED <<box, nextUid, caps, cache, pc, client, unsynced>>
------------------------------------------------------------------------------
(* imap_read_headers() at the opening of the mailbox.                      *)

Select ==
  /\ pc = "closed"
  /\ sess' = box /\ highest' = modseq
  /\ index' = <<>> /\ flag' = <<>> /\ changed' = {}
  /\ method' = IF hc.uidnext = 0 THEN "none"
               ELSE IF hc.modseq > 0 /\ "QRESYNC" \in caps /\ hc.seqset # <<>> THEN "qresync"
               ELSE IF hc.modseq > 0 /\ "CONDSTORE" \in caps THEN "condstore"
               ELSE "normal"
  /\ pc' = "cache"
  /\ UNCHANGED <<mailbox, caps, cache, unsynced>>

\* read_headers_normal_eval_cache(): UIDs, and flags unless CONDSTORE will
\* tell which have changed.
read_headers_normal_eval_cache ==
  LET hits == {i \in DOMAIN sess : sess[i] < hc.uidnext /\ sess[i] \in DOMAIN hcache}
      uids == {sess[i] : i \in hits}
  IN /\ index' = [i \in 1 .. Cardinality({j \in DOMAIN sess : \E k \in hits : j <= k}) |->
                    IF i \in hits THEN sess[i] ELSE 0]
     /\ flag' = [u \in uids |-> IF method = "condstore" THEN hcache[u] ELSE flagOf[u]]
     /\ hcache' = IF method = "normal" /\ caps # {}
                    THEN [u \in DOMAIN hcache |-> IF u \in uids THEN flagOf[u] ELSE hcache[u]]
                    ELSE hcache
     /\ unsynced' = IF method = "normal" /\ caps # {} THEN unsynced \ uids ELSE unsynced

\* A UID that is not in the cache is taken for one that was expunged.
Compacted(seqset) == Kept(seqset, {0} \cup DOMAIN hcache)

read_headers_qresync_eval_cache ==
  /\ index' = Compacted(hc.seqset)
  /\ flag' = [u \in Range(Compacted(hc.seqset)) \ {0} |-> hcache[u]]
  /\ UNCHANGED <<hcache, unsynced>>

EvalCache ==
  /\ pc = "cache"
  /\ \/ method = "none" /\ UNCHANGED <<index, flag, hcache, unsynced>>
     \/ method \in {"normal", "condstore"} /\ read_headers_normal_eval_cache
     \/ method = "qresync" /\ read_headers_qresync_eval_cache
  /\ pc' = IF method \in {"condstore", "qresync"} /\ hc.modseq # highest
             THEN "updates" ELSE "fetch"
  /\ UNCHANGED <<mailbox, caps, hc, sess, highest, method, changed>>

\* cmd_parse_vanished() of every UID the server reports: the UIDs above move
\* down, (EARLIER) or not.  imap_expunge_mailbox() forgets the header.
Vanished(seq, uids) == Kept(seq, Range(seq) \ uids)

\* VANISHED comes first, then the flags by number, with the UID.
read_headers_condstore_qresync_updates ==
  /\ pc = "updates"
  /\ LET vanished == IF method = "qresync"
                       THEN {u \in 1 .. hc.uidnext - 1 :
                               u \in DOMAIN modOf /\ modOf[u] > hc.modseq /\ u \notin Range(box)
                               /\ u \in Range(index)}
                       ELSE {}
         left == Vanished(index, vanished)
         told == {i \in DOMAIN sess : sess[i] < hc.uidnext /\ modOf[sess[i]] > hc.modseq}
         set == {sess[i] : i \in {j \in told : j \in DOMAIN left /\ left[j] = sess[j]}}
         put == {left[i] : i \in told \cap DOMAIN left} \ {0}
     IN /\ index' = left
        /\ flag' = [u \in DOMAIN flag \ vanished |-> IF u \in set THEN flagOf[u] ELSE flag[u]]
        /\ hcache' = [u \in (DOMAIN hcache \cup put) \ vanished |->
                        IF u \in put THEN flag'[u] ELSE hcache[u]]
        /\ unsynced' = unsynced \ (set \cup vanished)
  /\ pc' = "fetch"
  /\ UNCHANGED <<mailbox, caps, hc, sess, highest, method, changed>>

\* read_headers_fetch_new() for every number without a header.  A header the
\* cache has put under another number comes a second time.
read_headers_fetch_new ==
  /\ pc = "fetch"
  /\ LET new == {i \in DOMAIN sess : i \notin DOMAIN index \/ index[i] = 0}
         last == IF new = {} THEN Len(index)
                 ELSE CHOOSE n \in new \cup {Len(index)} : \A m \in new \cup {Len(index)} : m <= n
     IN /\ index' = [i \in 1 .. last |-> IF i \in new THEN sess[i]
                                         ELSE IF i \in DOMAIN index THEN index[i] ELSE 0]
        /\ flag' = [u \in DOMAIN flag \cup {sess[i] : i \in new} |->
                      IF u \in {sess[i] : i \in new} THEN flagOf[u] ELSE flag[u]]
        /\ hcache' = [u \in DOMAIN hcache \cup {sess[i] : i \in new} |->
                        IF u \in {sess[i] : i \in new} THEN flagOf[u] ELSE hcache[u]]
        /\ unsynced' = unsynced \ {sess[i] : i \in new}
  /\ pc' = "verify"
  /\ UNCHANGED <<mailbox, caps, hc, sess, highest, method, changed>>

\* Mutant: the numbering from the cache is never doubted.
verify_qresync_Trusts(seq) == TRUE

\* Every header is found under its number and under its UID.
verify_qresync(seq) == \A i, j \in DOMAIN seq : seq[i] = seq[j] /\ seq[i] # 0 => i = j

\* A jumbled numbering is thrown away and read again without CONDSTORE and
\* QRESYNC; a good one is stored.
VerifyAndStore ==
  /\ pc = "verify"
  /\ IF method = "qresync" /\ ~verify_qresync(index)
       THEN /\ index' = <<>> /\ flag' = <<>>
            /\ hc' = [hc EXCEPT !.modseq = 0, !.seqset = <<>>]
            /\ method' = "normal"
            /\ pc' = "cache"
       ELSE /\ hc' = [modseq |-> IF caps # {} THEN highest ELSE 0,
                      uidnext |-> nextUid,
                      seqset |-> IF "QRESYNC" \in caps THEN index ELSE <<>>]
            /\ pc' = "open"
            /\ UNCHANGED <<index, flag, method>>
  /\ UNCHANGED <<mailbox, caps, hcache, sess, highest, changed, unsynced>>
------------------------------------------------------------------------------
(* The open mailbox.                                                       *)

UserChanges(u) ==
  /\ pc = "open" /\ u \in Known
  /\ flag' = [flag EXCEPT ![u] = ~@]
  /\ changed' = changed \cup {u}
  /\ UNCHANGED <<mailbox, caps, cache, pc, sess, highest, method, index, unsynced>>

\* A sync of flags: changed headers are put into the cache first, then their
\* flags are stored, or the connection is lost.
SyncFlags(done) ==
  /\ pc = "open" /\ changed # {}
  /\ done \/ SyncLost
  /\ hcache' = [u \in DOMAIN hcache \cup changed |-> IF u \in changed THEN flag[u] ELSE hcache[u]]
  /\ LET stored == {u \in changed \cap Range(box) : flag[u] # flagOf[u]}
     IN IF done
          THEN /\ Counts
               /\ flagOf' = [u \in DOMAIN flagOf |-> IF u \in stored THEN flag[u] ELSE flagOf[u]]
               /\ modOf' = [u \in DOMAIN modOf |-> IF u \in stored THEN modseq + 1 ELSE modOf[u]]
               /\ modseq' = modseq + 1
               /\ changed' = {}
               /\ UNCHANGED <<pc, unsynced, sess, highest, method, index, flag>>
          ELSE /\ Forget
               /\ unsynced' = unsynced \cup stored
               /\ UNCHANGED <<flagOf, modOf, modseq>>
  /\ UNCHANGED <<box, nextUid, caps, hc>>

\* A sync of a deletion: the header leaves the cache first, then the message
\* is expunged, or the connection is lost.
SyncDeleted(u, done) ==
  /\ pc = "open" /\ changed = {} /\ u \in Known
  /\ hcache' = Drop(hcache, {u})
  /\ IF done
       THEN /\ Expunge(u)
            /\ index' = Vanished(index, {u}) /\ sess' = Vanished(sess, {u})
            /\ flag' = Drop(flag, {u})
            /\ UNCHANGED <<pc, highest, method, changed>>
       ELSE Forget /\ UNCHANGED mailbox
  /\ UNCHANGED <<caps, hc, unsynced>>

\* New mail is added to the cache, not to the sequence set or /MODSEQ.  EXISTS
\* tells of it when it is more than what mutt has numbered.
NewMail ==
  /\ pc = "open" /\ nextUid \in Uids /\ Counts
  /\ Len(index) = Len(sess)
  /\ box' = Append(box, nextUid) /\ sess' = Append(sess, nextUid)
  /\ index' = Append(index, nextUid)
  /\ flagOf' = With(flagOf, nextUid, FALSE) /\ flag' = With(flag, nextUid, FALSE)
  /\ modOf' = With(modOf, nextUid, modseq + 1)
  /\ hcache' = With(hcache, nextUid, FALSE)
  /\ hc' = [hc EXCEPT !.uidnext = nextUid + 1]
  /\ nextUid' = nextUid + 1 /\ modseq' = modseq + 1
  /\ UNCHANGED <<caps, pc, highest, method, changed, unsynced>>

Close ==
  /\ pc = "open"
  /\ Forget
  /\ UNCHANGED <<mailbox, caps, cache, unsynced>>

Next ==
  \/ Deliver
  \/ \E u \in Uids : \/ OtherClientExpunges(u) \/ OtherClientStores(u) \/ UserChanges(u)
                     \/ \E done \in BOOLEAN : SyncDeleted(u, done)
  \/ Select
  \/ EvalCache
  \/ read_headers_condstore_qresync_updates
  \/ read_headers_fetch_new
  \/ VerifyAndStore
  \/ \E done \in BOOLEAN : SyncFlags(done)
  \/ NewMail
  \/ Close

Spec == Init /\ [][Next]_vars
------------------------------------------------------------------------------
\* The variables hold what their comments say.
TypeOK ==
  /\ Range(box) \subseteq Uids /\ Range(sess) \subseteq Uids
  /\ DOMAIN flagOf \subseteq Uids /\ DOMAIN hcache \subseteq Uids
  /\ hc.modseq \in 0 .. MaxModseq /\ hc.uidnext \in 0 .. MaxUid + 1
  /\ pc \in {"closed", "cache", "updates", "fetch", "verify", "open"}
  /\ changed \subseteq Known /\ Known \subseteq DOMAIN flag

\* A mailbox opened from the cache has every message under the server's
\* number, whatever was cached, missing from the cache (after a sync that was
\* cut off) or expunged since: what the compaction of holes gets wrong,
\* verify_qresync() finds.  And the flags are the server's, but for headers
\* cached by a sync that did not get through.
OpenedRight ==
  pc = "open" =>
    /\ SubSeq(index, 1, Len(sess)) = sess
    /\ Known = Range(sess)
    /\ \A u \in Known \ (changed \cup unsynced) : u \in Range(box) => flag[u] = flagOf[u]

\* What imap_sync_mailbox() says of the cache: imap_read_headers() always
\* overwrites the flags that come from it.
CachedFlagsAreOverwritten ==
  pc = "open" => \A u \in Known \ changed : u \in Range(box) => flag[u] = flagOf[u]
==============================================================================
