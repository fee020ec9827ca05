------------------------------ MODULE FileLock ------------------------------
(***************************************************************************)
(* The file lock that emulator instances take on a writable disk image     *)
(* (android/utils/filelock.c, the branch for other hosts than Windows).    *)
(* filelock_lock writes its pid to a temporary file and links the lock's   *)
(* name to it; whose inode the name then leads to holds the lock.  An      *)
(* instance that finds another's file there reads the pid from it, asks    *)
(* with kill(pid, 0) whether that process lives, and removes the file if   *)
(* not.  Instances are processes of the host: they take turns at any       *)
(* system call, and may be killed between any two of them.                 *)
(*                                                                         *)
(* A process stands for its pid and for its temporary file: the file holds *)
(* the pid before it is linked.  Pids are not used again.                  *)
(***************************************************************************)
EXTENDS Integers

CONSTANTS
    Procs,      \* the emulator instances that ever run
    NoOne,      \* no file, no process
    Tries       \* attempts of the loop in filelock_lock

ASSUME FileLockAssumption == NoOne \notin Procs /\ Tries \in Nat \ {0}

VARIABLES
    lock,       \* whose file the lock's name leads to, or NoOne
    temps,      \* processes whose temporary file exists
    pc,         \* where a process is in filelock_create
    tries,      \* loop counter of filelock_lock
    judged,     \* whose pid was read from the lock file; NoOne: it was gone
    thefts      \* history: how files of living processes were removed

lockVars == <<lock, temps, pc, tries, judged, thefts>>

LockInit ==
    /\ lock = NoOne
    /\ temps = {}
    /\ pc = [p \in Procs |-> "start"]
    /\ tries = [p \in Procs |-> Tries]
    /\ judged = [p \in Procs |-> NoOne]
    /\ thefts = {}

Alive(p) == pc[p] \notin {"dead", "exited"}

Goto(p, l) == pc' = [pc EXCEPT ![p] = l]

\* p believes that it has the lock (lock->locked).
Locked(p) == pc[p] \in {"locked", "holding"}

\* p, about to unlink the lock's name, would take away another's file.
TakesAway(p) == lock \notin {NoOne, p} /\ Alive(lock)

-----------------------------------------------------------------------------
\* mkstemp, the write of the pid and lstat of the temporary file.  If one of
\* them fails, control goes to Fail.
Create(p) ==
    /\ pc[p] = "start"
    /\ temps' = temps \cup {p}
    /\ Goto(p, "link")
    /\ UNCHANGED <<lock, tries, judged, thefts>>

CreateFails(p) ==
    /\ pc[p] = "start"
    /\ \/ UNCHANGED temps
       \/ temps' = temps \cup {p}
    /\ Goto(p, "fail")
    /\ UNCHANGED <<lock, tries, judged, thefts>>

\* link(temp, lock) does nothing if the name is taken; its result is not
\* looked at.
Link(p) ==
    /\ pc[p] = "link"
    /\ lock' = IF lock = NoOne THEN p ELSE lock
    /\ Goto(p, "stat")
    /\ UNCHANGED <<temps, tries, judged, thefts>>

\* The end of a round without success: the loop counter decides.
NextTry(p) ==
    /\ tries' = [tries EXCEPT ![p] = @ - 1]
    /\ Goto(p, IF tries[p] = 1 THEN "fail" ELSE "link")

\* Mutant of IsOurs: that a lock file exists is taken for success.
IsAnyones(p) == lock # NoOne

\* The inode of the lock file is that of our temporary file.
IsOurs(p) == lock = p

\* lstat(lock).
Stat(p) ==
    /\ pc[p] = "stat"
    /\ CASE IsOurs(p) -> Goto(p, "locked") /\ UNCHANGED tries
         [] ~IsOurs(p) /\ lock = NoOne -> NextTry(p)
         [] OTHER -> Goto(p, "open") /\ UNCHANGED tries
    /\ UNCHANGED <<lock, temps, judged, thefts>>

\* open, read and close of the lock file.  If it is gone by now, there is no
\* pid and the age test compares against now - 120: it counts as stale.
Open(p) ==
    /\ pc[p] = "open"
    /\ judged' = [judged EXCEPT ![p] = lock]
    /\ Goto(p, IF lock = NoOne THEN "remove" ELSE "kill")
    /\ UNCHANGED <<lock, temps, tries, thefts>>

\* Mutants of Stale: no lock is, or every lock is.
NeverStale(p) == FALSE
AlwaysStale(p) == TRUE

\* kill(lockpid, 0) answers ESRCH.
Stale(p) == ~Alive(judged[p])

Kill(p) ==
    /\ pc[p] = "kill"
    /\ IF Stale(p) THEN Goto(p, "remove") /\ UNCHANGED tries ELSE NextTry(p)
    /\ UNCHANGED <<lock, temps, judged, thefts>>

\* The lock's name after unlink(lock->lock), whatever it led to.
AfterRemoval(p) == NoOne

\* A stale lock file is removed; the round does not count (tries++).
Remove(p) ==
    /\ pc[p] = "remove"
    /\ lock' = AfterRemoval(p)
    /\ thefts' = IF TakesAway(p) THEN thefts \cup {"mistaken"} ELSE thefts
    /\ Goto(p, "link")
    /\ UNCHANGED <<temps, tries, judged>>

\* Success: the temporary name is unlinked and filelock_create returns.
Return(p) ==
    /\ pc[p] = "locked"
    /\ temps' = temps \ {p}
    /\ Goto(p, "holding")
    /\ UNCHANGED <<lock, tries, judged, thefts>>

\* The label Fail, first and second unlink.
Fail(p) ==
    /\ pc[p] = "fail"
    /\ lock' = NoOne
    /\ thefts' = IF TakesAway(p) THEN thefts \cup {"gave up"} ELSE thefts
    /\ Goto(p, "failed")
    /\ UNCHANGED <<temps, tries, judged>>

FailReturn(p) ==
    /\ pc[p] = "failed"
    /\ temps' = temps \ {p}
    /\ Goto(p, "refused")
    /\ UNCHANGED <<lock, tries, judged, thefts>>

\* Mutant of AtExit: the atexit handler releases nothing.
AtExitForgets(p) == lock

\* The lock's name after filelock_release.
AtExit(p) == IF Locked(p) THEN NoOne ELSE lock

\* The instance exits: filelock_atexit releases what it holds.
Exit(p) ==
    /\ pc[p] \in {"holding", "refused"}
    /\ lock' = AtExit(p)
    /\ Goto(p, "exited")
    /\ UNCHANGED <<temps, tries, judged, thefts>>

\* The instance is killed (external).
Crash(p) ==
    /\ Alive(p)
    /\ Goto(p, "dead")
    /\ UNCHANGED <<lock, temps, tries, judged, thefts>>

Step(p) ==
    \/ Create(p)
    \/ CreateFails(p)
    \/ Link(p)
    \/ Stat(p)
    \/ Open(p)
    \/ Kill(p)
    \/ Remove(p)
    \/ Return(p)
    \/ Fail(p)
    \/ FailReturn(p)

LockNext == \E p \in Procs : Step(p) \/ Exit(p) \/ Crash(p)

\* The host runs every process that is ready.  An instance may start late,
\* run as long as it likes, or be killed.
LockSpec ==
    /\ LockInit /\ [][LockNext]_lockVars
    /\ \A p \in Procs : WF_lockVars(pc[p] # "start" /\ Step(p))

-----------------------------------------------------------------------------
\* What the header of filelock.c says a lock is for: two instances never use
\* the same file.
Exclusive == \A p, q \in Procs : Locked(p) /\ Locked(q) => p = q

\* Two instances have the lock only after the file of a living one was removed
\* by an instance that gave up, or by one that took it for the stale file it
\* had looked at before.  Releasing and cleaning up after crashes are safe.
ExclusiveUntilTheft == thefts = {} => Exclusive

\* A lock file is never that of a process that has given up or has exited, in
\* whatever order these unlink each other's files: it belongs to a process
\* that has or is about to have the lock, or to one that crashed.
NoLockLeftBehind ==
    lock # NoOne => Locked(lock) \/ pc[lock] \in {"stat", "dead"}

\* A file removed as stale from under a living process is never the file that
\* was judged (the lock was released or cleaned and taken anew meanwhile).
JudgedRightly ==
    [][\A p \in Procs :
        Remove(p) /\ TakesAway(p) => judged[p] # lock]_lockVars

\* An instance that starts after all others are gone gets the lock, whatever
\* they have left behind.
Done(p) == pc[p] \in {"refused", "exited", "dead"}
LastOneLocks ==
    \A p \in Procs :
        pc[p] = "link" /\ tries[p] = Tries /\ (\A q \in Procs \ {p} : Done(q))
            ~> pc[p] \in {"holding", "exited", "dead"}

=============================================================================
