------------------------------ MODULE ContextMC ------------------------------
(* The mailboxes and configurations TLC looks at in Context. *)
EXTENDS Context

\* One message, every flag command, every way a sync can end.
OneMessage ==
  [ magic |-> "MUTT_MBOX", msgs |-> 1,
    options |-> {"flag_safe", "keep_flagged", "move", "fail", "toggle_write", "mark_old",
                 "delete_no", "delete_untag", "limit", "SigInt"},
    commands |-> {"DELETE", "PURGE", "NEW", "OLD", "REPLIED", "FLAG", "TAG"},
    newmail |-> {{}, {"read", "old"}, {"old", "flagged"}} ]

\* Syncing and closing an mbox with $move and $trash, appends that fail, mail
\* that arrives.
Mbox ==
  [ magic |-> "MUTT_MBOX", msgs |-> 2,
    options |-> {"trash", "move", "fail"},
    commands |-> {"DELETE", "PURGE", "NEW"},
    newmail |-> {{}, {"read", "old"}} ]

\* A maildir with limits, sorting, scoring and deletion.
Maildir ==
  [ magic |-> "MUTT_MAILDIR", msgs |-> 2,
    options |-> {"trash", "fail", "limit", "sort", "score"},
    commands |-> {"DELETE"},
    newmail |-> {{}} ]

AllSettings == {OneMessage, Mbox, Maildir}
==============================================================================
