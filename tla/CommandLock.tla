----------------------------- MODULE CommandLock ------------------------------
(***************************************************************************)
(* The locks of the commands (lib/cache.py): a key in memcached that add   *)
(* creates if it is not there, and that goes after 300 seconds, whatever   *)
(* has become of the command.                                              *)
(***************************************************************************)
CONSTANT Key        \* "dbclean", "quarantinereportsng", "pdfreportsng"

VARIABLE lock

LockInit == lock = [k \in Key |-> "free"]
LockTypeOK == lock \in [Key -> {"free", "held"}]

acquire_lock(k) == lock[k] = "free" /\ lock' = [lock EXCEPT ![k] = "held"]

(* Nobody looks whose lock it is.                                            *)
release_lock(k) == lock' = [lock EXCEPT ![k] = "free"]

(* replace: a lock that is there gets 300 seconds more, and one that is not  *)
(* there does not come back. The mutant forgets the cluster's other nodes.   *)
release_lock_after_now(k) == release_lock(k)
release_lock_after(k) == UNCHANGED lock

(* The 300 seconds are over, or memcached has been restarted.                *)
Expire(k) == lock[k] = "held" /\ lock' = [lock EXCEPT ![k] = "free"]
=============================================================================
