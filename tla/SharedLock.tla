------------------------------ MODULE SharedLock ------------------------------
(***************************************************************************)
(* What mx_lock_file() and mx_unlock_file() promise their callers in       *)
(* mbox.c: a process that was told it has the mailbox has it alone.  (They *)
(* distinguish readers from writers for fcntl(), but take the dotlock for  *)
(* both.)                                                                  *)
(***************************************************************************)
CONSTANT Procs
VARIABLE holders    \* the processes that have the mailbox

Init == holders = {}

Acquire(p) ==
  /\ holders = {}
  /\ holders' = {p}

Release(p) ==
  /\ p \in holders
  /\ holders' = holders \ {p}

Next == \E p \in Procs : Acquire(p) \/ Release(p)

Spec == Init /\ [][Next]_holders
==============================================================================
