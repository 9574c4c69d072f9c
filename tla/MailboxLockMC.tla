----------------------------- MODULE MailboxLockMC -----------------------------
(* Instances of MailboxLock for TLC: the mutts are interchangeable. *)
EXTENDS MailboxLock, TLC

Symmetry == Permutations(Procs)
==============================================================================
