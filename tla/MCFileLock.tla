----------------------------- MODULE MCFileLock -----------------------------
(* Three instances: one that holds the lock, one that meets it, and one    *)
(* that comes while the other two are at it.                               *)
EXTENDS FileLock
=============================================================================
