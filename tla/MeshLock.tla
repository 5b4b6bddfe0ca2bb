------------------------------ MODULE MeshLock ------------------------------
(***************************************************************************)
(* The lock directory that serialises every writer of the Fabric mesh      *)
(* (src/src/mesh/store.ts, #withLock and #clearStaleLock).                 *)
(*                                                                         *)
(* Processes that share a mesh root exclude each other with mkdir(".lock") *)
(* and write a file ".lock/owner" with a fresh token, their pid and the    *)
(* time.  Whoever finds the directory there looks at that file and may     *)
(* remove a lock it judges stale.  Every file-system call is one step here *)
(* and the steps of the processes interleave.  A directory is known by the *)
(* token of the call that made it, which the code cannot see.              *)
(***************************************************************************)
EXTENDS Naturals, FiniteSets

CONSTANTS
  Procs,      \* processes that use the mesh; a restarted one is a new element
  MaxCalls,   \* bound: calls of #withLock per process
  NoDir,      \* there is no lock directory
  NoFile,     \* the lock directory has no owner file
  Empty       \* the owner file is open for writing and still empty

Tokens == Procs \X (1..MaxCalls)

ASSUME CallsAssumption == MaxCalls \in Nat
ASSUME TokenAssumption ==
  /\ NoDir \notin Tokens /\ NoFile \notin Tokens /\ Empty \notin Tokens
  /\ NoFile # Empty

VARIABLES
  dir,      \* token of the call that made the lock directory, or NoDir
  owner,    \* content of its owner file: a token, Empty or NoFile
  aged,     \* the lock was last written more than staleLockMs ago
  pc,       \* where each process is in #withLock / #clearStaleLock
  calls,    \* calls of #withLock each process has made
  target,   \* the directory in which a process opened its owner file
  seen,     \* the directory and owner a process read before judging
  expired,  \* the deadline of the process's call has passed
  alive,    \* the processes that have not crashed
  usurped   \* history: a lock was removed while the call that made it ran

lockVars == <<dir, owner, aged, pc, calls, target, seen, expired, alive, usurped>>

PCs == {"idle", "mkdir", "open", "fill", "held", "unlock",
        "inspect", "recheck", "remove", "wait"}
Owners == Tokens \cup {NoFile, Empty}
Dirs == Tokens \cup {NoDir}

Token(p) == <<p, calls[p]>>

\* p made the directory of its current call and has not finished with it.
Active(p) == p \in alive /\ pc[p] \in {"open", "fill", "held", "unlock"}

\* p runs the operation it took the lock for.
InOperation(p) == p \in alive /\ pc[p] = "held"

Goto(p, l) == pc' = [pc EXCEPT ![p] = l]

NothingSeen == [dir |-> NoDir, owner |-> NoFile]

LockInit ==
  /\ dir = NoDir
  /\ owner = NoFile
  /\ aged = FALSE
  /\ pc = [p \in Procs |-> "idle"]
  /\ calls = [p \in Procs |-> 0]
  /\ target = [p \in Procs |-> NoDir]
  /\ seen = [p \in Procs |-> NothingSeen]
  /\ expired = [p \in Procs |-> FALSE]
  /\ alive = Procs
  /\ usurped = FALSE

-----------------------------------------------------------------------------
(* Acquisition *)

\* A fresh deadline and a fresh token.
Call(p) ==
  /\ p \in alive /\ pc[p] = "idle" /\ calls[p] < MaxCalls
  /\ calls' = [calls EXCEPT ![p] = @ + 1]
  /\ expired' = [expired EXCEPT ![p] = FALSE]
  /\ Goto(p, "mkdir")
  /\ UNCHANGED <<dir, owner, aged, target, seen, alive, usurped>>

\* mutant: mkdir with { recursive: true }, which succeeds on a directory
\* that is there already
MakeDirAnyway(p) ==
  /\ p \in alive /\ pc[p] = "mkdir"
  /\ dir' = Token(p)
  /\ owner' = NoFile
  /\ aged' = FALSE
  /\ Goto(p, "open")
  /\ UNCHANGED <<calls, target, seen, expired, alive, usurped>>

MakeDir(p) ==
  /\ p \in alive /\ pc[p] = "mkdir" /\ dir = NoDir
  /\ dir' = Token(p)
  /\ owner' = NoFile
  /\ aged' = FALSE
  /\ Goto(p, "open")
  /\ UNCHANGED <<calls, target, seen, expired, alive, usurped>>

\* mkdir fails with EEXIST.
Blocked(p) ==
  /\ p \in alive /\ pc[p] = "mkdir" /\ dir # NoDir
  /\ Goto(p, "inspect")
  /\ UNCHANGED <<dir, owner, aged, calls, target, seen, expired, alive, usurped>>

\* writeFileSync opens and truncates ".lock/owner" in whatever directory is
\* there.  When there is none it fails with ENOENT and the call throws.
OpenOwner(p) ==
  /\ p \in alive /\ pc[p] = "open"
  /\ \/ /\ dir = NoDir
        /\ Goto(p, "idle")
        /\ UNCHANGED <<owner, aged, target>>
     \/ /\ dir # NoDir
        /\ owner' = Empty
        /\ aged' = FALSE
        /\ target' = [target EXCEPT ![p] = dir]
        /\ Goto(p, "fill")
  /\ UNCHANGED <<dir, calls, seen, expired, alive, usurped>>

\* The content reaches the file that was opened; it shows only when the
\* directory of that file is still the lock directory.
FillOwner(p) ==
  /\ p \in alive /\ pc[p] = "fill"
  /\ owner' = IF dir = target[p] THEN Token(p) ELSE owner
  /\ aged' = IF dir = target[p] THEN FALSE ELSE aged
  /\ target' = [target EXCEPT ![p] = NoDir]
  /\ Goto(p, "held")
  /\ UNCHANGED <<dir, calls, seen, expired, alive, usurped>>

-----------------------------------------------------------------------------
(* Release: the finally block reads the owner file and, when it names the  *)
(* token of this call, removes the directory.                              *)

\* mutant: an owner mismatch is the only case in which release removes
OwnerCheckInverted(p) ==
  /\ p \in alive /\ pc[p] = "held"
  /\ Goto(p, IF owner = Token(p) THEN "idle" ELSE "unlock")
  /\ UNCHANGED <<dir, owner, aged, calls, target, seen, expired, alive, usurped>>

FinishOperation(p) ==
  /\ p \in alive /\ pc[p] = "held"
  /\ Goto(p, IF dir # NoDir /\ owner = Token(p) THEN "unlock" ELSE "idle")
  /\ UNCHANGED <<dir, owner, aged, calls, target, seen, expired, alive, usurped>>

\* The whole directory goes, whoever's it is by now.
RemoveLockDir(p) ==
  /\ dir' = NoDir
  /\ owner' = NoFile
  /\ aged' = FALSE
  /\ usurped' = (usurped \/ \E q \in Procs \ {p} : Active(q) /\ dir = Token(q))

Unlock(p) ==
  /\ p \in alive /\ pc[p] = "unlock"
  /\ RemoveLockDir(p)
  /\ Goto(p, "idle")
  /\ UNCHANGED <<calls, target, seen, expired, alive>>

-----------------------------------------------------------------------------
(* Recovery of a stale lock *)

\* An owner record is stale when it is old and its process is dead.  The age
\* test is skipped for a content without a creation time, and processAlive
\* is false for a content without a pid: an empty owner file is stale at
\* once.  Without an owner file the age of the directory alone decides.
Stale ==
  \/ owner \in Tokens /\ aged /\ owner[1] \notin alive
  \/ owner = Empty
  \/ owner = NoFile /\ aged

\* readFileSync(owner), or statSync(lock) when that fails, and the judgement.
Judge(p) ==
  /\ p \in alive /\ pc[p] = "inspect"
  /\ LET stale == dir # NoDir /\ Stale
     IN  /\ seen' = [seen EXCEPT ![p] =
                        IF stale THEN [dir |-> dir, owner |-> owner] ELSE @]
         /\ Goto(p, IF stale THEN "recheck" ELSE "wait")
  /\ UNCHANGED <<dir, owner, aged, calls, target, expired, alive, usurped>>

\* The second look compares the owner file's content, or the directory's
\* modification time when there was no owner file.
Recheck(p) ==
  /\ p \in alive /\ pc[p] = "recheck"
  /\ LET same == IF seen[p].owner = NoFile
                 THEN dir = seen[p].dir /\ owner = NoFile
                 ELSE dir # NoDir /\ owner = seen[p].owner
     IN  /\ Goto(p, IF same THEN "remove" ELSE "wait")
         /\ seen' = [seen EXCEPT ![p] = IF same THEN @ ELSE NothingSeen]
  /\ UNCHANGED <<dir, owner, aged, calls, target, expired, alive, usurped>>

\* clearStaleLock returns true and #withLock retries at once.
RemoveStale(p) ==
  /\ p \in alive /\ pc[p] = "remove"
  /\ RemoveLockDir(p)
  /\ seen' = [seen EXCEPT ![p] = NothingSeen]
  /\ Goto(p, "mkdir")
  /\ UNCHANGED <<calls, target, expired, alive>>

\* mutant: the deadline is not looked at
WaitForever(p) ==
  /\ p \in alive /\ pc[p] = "wait"
  /\ Goto(p, "mkdir")
  /\ UNCHANGED <<dir, owner, aged, calls, target, seen, expired, alive, usurped>>

\* Past the deadline the call throws, before it it sleeps and tries again.
Wait(p) ==
  /\ p \in alive /\ pc[p] = "wait"
  /\ Goto(p, IF expired[p] THEN "idle" ELSE "mkdir")
  /\ UNCHANGED <<dir, owner, aged, calls, target, seen, expired, alive, usurped>>

-----------------------------------------------------------------------------
(* The environment *)

Deadline(p) ==
  /\ p \in alive /\ pc[p] \in {"mkdir", "inspect", "recheck", "remove", "wait"}
  /\ ~expired[p]
  /\ expired' = [expired EXCEPT ![p] = TRUE]
  /\ UNCHANGED <<dir, owner, aged, pc, calls, target, seen, alive, usurped>>

\* More than staleLockMs passes without a write to the lock directory.
Age ==
  /\ dir # NoDir /\ ~aged
  /\ aged' = TRUE
  /\ UNCHANGED <<dir, owner, pc, calls, target, seen, expired, alive, usurped>>

\* A process dies anywhere in a call; one always survives to be looked at.
Crash(p) ==
  /\ p \in alive /\ pc[p] # "idle" /\ alive # {p}
  /\ alive' = alive \ {p}
  /\ Goto(p, "idle")
  /\ target' = [target EXCEPT ![p] = NoDir]
  /\ seen' = [seen EXCEPT ![p] = NothingSeen]
  /\ UNCHANGED <<dir, owner, aged, calls, expired, usurped>>

Step(p) ==
  \/ MakeDir(p) \/ Blocked(p) \/ OpenOwner(p) \/ FillOwner(p)
  \/ FinishOperation(p) \/ Unlock(p)
  \/ Judge(p) \/ Recheck(p) \/ RemoveStale(p) \/ Wait(p)

LockNext ==
  \/ \E p \in Procs : Call(p) \/ Step(p) \/ Deadline(p) \/ Crash(p)
  \/ Age

LockSpec == LockInit /\ [][LockNext]_lockVars

\* A live process keeps running and its clock keeps moving.  Nothing obliges
\* anybody to call, to crash, or to let a lock grow old.
LockFairSpec ==
  LockSpec /\ \A p \in Procs : WF_lockVars(Step(p)) /\ WF_lockVars(Deadline(p))

-----------------------------------------------------------------------------
(* Properties *)

\* The state is of the right shape.
LockTypeOK ==
  /\ dir \in Dirs
  /\ owner \in Owners
  /\ aged \in BOOLEAN
  /\ pc \in [Procs -> PCs]
  /\ calls \in [Procs -> 0..MaxCalls]
  /\ target \in [Procs -> Dirs]
  /\ seen \in [Procs -> [dir : Dirs, owner : Owners]]
  /\ expired \in [Procs -> BOOLEAN]
  /\ alive \subseteq Procs
  /\ usurped \in BOOLEAN

\* Mutual exclusion: as long as stale-lock recovery has removed no lock of a
\* call that was still running, at most one live process runs its operation
\* (the read-modify-write of the log or the state file in #withLock).
MutualExclusion ==
  \A p, q \in Procs :
    ~usurped /\ InOperation(p) /\ InOperation(q) => p = q

\* Recovery never acts on the owner record of a live process: whatever the
\* interleaving, the token judged stale in #clearStaleLock is a dead one's.
LiveOwnerNotJudgedStale ==
  \A p \in Procs : seen[p].owner \in Tokens => seen[p].owner[1] \notin alive

\* No lock is leaked: a lock directory that stands belongs to somebody's
\* unfinished call, or a process has crashed.
NoLeakedLock ==
  dir # NoDir => alive # Procs \/ \E p \in Procs : Active(p)

\* Every call of #withLock ends, in the operation's result or in an error,
\* whatever the other processes do: recovery and waiting cannot go on forever.
EveryCallEnds ==
  \A p \in Procs : pc[p] # "idle" ~> pc[p] = "idle"
=============================================================================
