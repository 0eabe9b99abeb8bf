------------------------------ MODULE PidLock ------------------------------
(***************************************************************************)
(* A lock made of a file that holds the PID of its owner: _path_lock of    *)
(* wire/__init__.py and _native_lock of control/opencode_lifecycle.py.     *)
(* The file is created exclusively and its PID written next; who finds it  *)
(* there looks whether the owner lives, and unlinks it when it does not.   *)
(* Between that look and that unlink the file may have become another's.   *)
(***************************************************************************)

CONSTANTS
    Contenders,   \* processes that take the lock
    NoOwner,      \* no file
    BlankIsStale  \* a file without a PID counts as left behind (_native_lock only)

VARIABLES
    lock,  \* the file: who created it, and whether the PID is in it
    at,    \* per process: where it stands with the lock
    alive  \* per process: is it there

Free == [by |-> NoOwner, signed |-> FALSE]

\* os.open with O_CREAT | O_EXCL
Opens(p) ==
    /\ at[p] = "waiting" /\ lock = Free
    /\ lock' = [by |-> p, signed |-> FALSE]
    /\ at' = [at EXCEPT ![p] = "opened"]

\* os.write goes to the file that was opened, also when that has been unlinked since.
Signs(p) ==
    /\ at[p] = "opened"
    /\ lock' = [lock EXCEPT !.signed = @ \/ lock.by = p]
    /\ at' = [at EXCEPT ![p] = "in"]

Refused(p) ==
    /\ at[p] = "waiting" /\ lock # Free
    /\ at' = [at EXCEPT ![p] = "refused"]
    /\ UNCHANGED lock

\* What a refused process reads: a file that has gone has no PID in it either.
LooksStale == IF lock.signed THEN ~alive[lock.by] ELSE BlankIsStale

Looks(p) ==
    /\ at[p] = "refused"
    /\ at' = [at EXCEPT ![p] = IF LooksStale THEN "stale" ELSE "waiting"]
    /\ UNCHANGED lock

Unlinks(p) ==
    /\ at[p] = "stale"
    /\ lock' = Free
    /\ at' = [at EXCEPT ![p] = "waiting"]

\* The deadline passed with a living owner.
GivesUp(p) ==
    /\ at[p] = "refused" /\ ~LooksStale
    /\ at' = [at EXCEPT ![p] = "out"]
    /\ UNCHANGED lock

\* The finally clause unlinks whatever file is there.
Leaves(p) ==
    /\ at[p] = "in"
    /\ lock' = Free
    /\ at' = [at EXCEPT ![p] = "out"]

Contends(p) == Opens(p) \/ Signs(p) \/ Refused(p) \/ Looks(p) \/ Unlinks(p)

Inside == {p \in Contenders : at[p] = "in"}
=============================================================================
