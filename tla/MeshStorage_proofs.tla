------------------------ MODULE MeshStorage_proofs -------------------------
(***************************************************************************)
(* Proofs about the mesh's directory: first MeshLock, for every set of     *)
(* processes and every bound on their calls, then MeshLog, which its       *)
(* writers change under that lock, for every set of requests, consumers    *)
(* and readers and every bound.                                            *)
(***************************************************************************)
EXTENDS MeshLock, MeshLog, SequenceTheorems, FiniteSetTheorems,
        WellFoundedInduction, TLAPS

-----------------------------------------------------------------------------
(* The lock *)

\* A process inside #withLock has drawn a token of its own.
CallsCounted == \A p \in Procs : pc[p] # "idle" => calls[p] \in 1..MaxCalls

\* Unless a lock was usurped, the directory is that of the active call.
ActiveOwnsDir == ~usurped => \A p \in Procs : Active(p) => dir = Token(p)

\* Somebody is responsible for the lock directory in its present state.
Responsible(p) ==
  \/ owner = NoFile /\ pc[p] = "open"
  \/ owner = Empty /\ pc[p] = "fill" /\ target[p] = dir
  \/ owner = Token(p) /\ pc[p] \in {"held", "unlock"}

DirHasResponsible ==
  alive = Procs /\ dir # NoDir => \E p \in Procs : Responsible(p)

LockInv ==
  /\ LockTypeOK
  /\ CallsCounted
  /\ ActiveOwnsDir
  /\ LiveOwnerNotJudgedStale
  /\ DirHasResponsible

LEMMA InitLockInv == LockInit => LockInv
<1> SUFFICES ASSUME LockInit PROVE LockInv
  OBVIOUS
<1> USE CallsAssumption, TokenAssumption DEF LockInit
<1>1. LockTypeOK
  <2>1. NothingSeen \in [dir : Dirs, owner : Owners]
    BY DEF NothingSeen, Dirs, Owners
  <2>2. seen \in [Procs -> [dir : Dirs, owner : Owners]]
    BY <2>1
  <2>3. NoDir \in Dirs /\ NoFile \in Owners /\ "idle" \in PCs /\ 0 \in 0..MaxCalls
    BY DEF Dirs, Owners, PCs
  <2> QED
    BY <2>2, <2>3 DEF LockTypeOK
<1>2. CallsCounted
  BY DEF CallsCounted
<1>3. ActiveOwnsDir
  BY DEF ActiveOwnsDir, Active
<1>4. LiveOwnerNotJudgedStale
  BY DEF LiveOwnerNotJudgedStale, NothingSeen
<1>5. DirHasResponsible
  BY DEF DirHasResponsible
<1> QED
  BY <1>1, <1>2, <1>3, <1>4, <1>5 DEF LockInv

\* The token of a call in progress is a token.
LEMMA TokenInTokens ==
  ASSUME CallsCounted, NEW p \in Procs, pc[p] # "idle"
  PROVE  Token(p) \in Tokens
BY DEF CallsCounted, Token, Tokens

LEMMA LockTypePreserved == LockInv /\ [LockNext]_lockVars => LockTypeOK'
<1> SUFFICES ASSUME LockInv, [LockNext]_lockVars PROVE LockTypeOK'
  OBVIOUS
<1> USE CallsAssumption, TokenAssumption
        DEF LockInv, LockTypeOK, Dirs, Owners, PCs, NothingSeen, Goto
<1>1. ASSUME NEW p \in Procs, Call(p) PROVE LockTypeOK'
  BY <1>1 DEF Call
<1>2. ASSUME NEW p \in Procs, MakeDir(p) PROVE LockTypeOK'
  <2>1. Token(p) \in Tokens
    BY <1>2, TokenInTokens DEF MakeDir
  <2> HIDE DEF Dirs, Owners, PCs
  <2>2. dir' \in Dirs /\ owner' \in Owners
    BY <1>2, <2>1 DEF MakeDir, Dirs, Owners
  <2>3. pc' \in [Procs -> PCs]
    BY <1>2 DEF MakeDir, PCs
  <2> QED
    BY <1>2, <2>1, <2>2, <2>3 DEF MakeDir
<1>3. ASSUME NEW p \in Procs, Blocked(p) PROVE LockTypeOK'
  BY <1>3 DEF Blocked
<1>4. ASSUME NEW p \in Procs, OpenOwner(p) PROVE LockTypeOK'
  <2> HIDE DEF Dirs
  <2> QED
    BY <1>4 DEF OpenOwner
<1>5. ASSUME NEW p \in Procs, FillOwner(p) PROVE LockTypeOK'
  BY <1>5, TokenInTokens DEF FillOwner
<1>6. ASSUME NEW p \in Procs, FinishOperation(p) PROVE LockTypeOK'
  BY <1>6 DEF FinishOperation
<1>7. ASSUME NEW p \in Procs, Unlock(p) PROVE LockTypeOK'
  BY <1>7 DEF Unlock, RemoveLockDir
<1>8. ASSUME NEW p \in Procs, Judge(p) PROVE LockTypeOK'
  BY <1>8 DEF Judge
<1>9. ASSUME NEW p \in Procs, Recheck(p) PROVE LockTypeOK'
  BY <1>9 DEF Recheck
<1>10. ASSUME NEW p \in Procs, RemoveStale(p) PROVE LockTypeOK'
  BY <1>10 DEF RemoveStale, RemoveLockDir
<1>11. ASSUME NEW p \in Procs, Wait(p) PROVE LockTypeOK'
  BY <1>11 DEF Wait
<1>12. ASSUME NEW p \in Procs, Deadline(p) PROVE LockTypeOK'
  BY <1>12 DEF Deadline
<1>13. ASSUME NEW p \in Procs, Crash(p) PROVE LockTypeOK'
  BY <1>13 DEF Crash
<1>14. CASE Age
  BY <1>14 DEF Age
<1>15. CASE UNCHANGED lockVars
  BY <1>15 DEF lockVars
<1> QED
  BY <1>1, <1>2, <1>3, <1>4, <1>5, <1>6, <1>7, <1>8, <1>9, <1>10, <1>11,
     <1>12, <1>13, <1>14, <1>15 DEF LockNext, Step

LEMMA CallsCountedPreserved == LockInv /\ [LockNext]_lockVars => CallsCounted'
<1> SUFFICES ASSUME LockInv, [LockNext]_lockVars, NEW q \in Procs, pc'[q] # "idle"
             PROVE  calls'[q] \in 1..MaxCalls
  BY DEF CallsCounted
<1> USE CallsAssumption DEF LockInv, LockTypeOK, CallsCounted, Goto
<1>1. ASSUME NEW p \in Procs, Call(p) PROVE calls'[q] \in 1..MaxCalls
  BY <1>1 DEF Call
<1>2. CASE UNCHANGED calls /\ pc[q] # "idle"
  BY <1>2
<1>3. ASSUME NEW p \in Procs, Step(p) PROVE UNCHANGED calls /\ pc[q] # "idle"
  BY <1>3 DEF Step, MakeDir, Blocked, OpenOwner, FillOwner, FinishOperation,
              Unlock, Judge, Recheck, RemoveStale, Wait
<1>4. ASSUME NEW p \in Procs, Deadline(p) \/ Crash(p)
      PROVE  UNCHANGED calls /\ pc[q] # "idle"
  BY <1>4 DEF Deadline, Crash
<1>5. CASE Age \/ UNCHANGED lockVars
  BY <1>5, <1>2 DEF Age, lockVars
<1> QED
  BY <1>1, <1>2, <1>3, <1>4, <1>5 DEF LockNext

LEMMA ActiveOwnsDirPreserved == LockInv /\ [LockNext]_lockVars => ActiveOwnsDir'
<1> SUFFICES ASSUME LockInv, [LockNext]_lockVars, ~usurped', NEW q \in Procs, Active(q)'
             PROVE  dir' = Token(q)'
  BY DEF ActiveOwnsDir
<1> USE CallsAssumption, TokenAssumption DEF LockInv, LockTypeOK, Active, Goto
<1>0. ~usurped
  BY DEF LockNext, Step, Call, MakeDir, Blocked, OpenOwner, FillOwner,
         FinishOperation, Unlock, Judge, Recheck, RemoveStale, RemoveLockDir,
         Wait, Deadline, Crash, Age, lockVars
<1>a. Active(q) => dir = Token(q)
  BY <1>0 DEF ActiveOwnsDir
\* Most actions leave the directory and the tokens alone and make nobody
\* active who was not.
<1>b. CASE UNCHANGED <<dir, calls>> /\ Active(q)
  BY <1>a, <1>b DEF Token
<1>1. ASSUME NEW p \in Procs, Call(p) PROVE dir' = Token(q)'
  BY <1>1, <1>a DEF Call, Token
<1>2. ASSUME NEW p \in Procs, MakeDir(p) PROVE dir' = Token(q)'
  <2>1. ~Active(q)
    BY <1>2, <1>a, TokenInTokens DEF MakeDir
  <2>2. q = p
    BY <2>1, <1>2 DEF MakeDir
  <2> QED
    BY <2>2, <1>2 DEF MakeDir, Token
<1>3. ASSUME NEW p \in Procs,
             Blocked(p) \/ OpenOwner(p) \/ FillOwner(p) \/ FinishOperation(p)
      PROVE  UNCHANGED <<dir, calls>> /\ Active(q)
  BY <1>3 DEF Blocked, OpenOwner, FillOwner, FinishOperation
<1>4. ASSUME NEW p \in Procs, Unlock(p) PROVE dir' = Token(q)'
  <2>1. q # p /\ Active(q)
    BY <1>4 DEF Unlock, RemoveLockDir
  <2> QED
    BY <2>1, <1>a, <1>4 DEF Unlock, RemoveLockDir
<1>5. ASSUME NEW p \in Procs, RemoveStale(p) PROVE dir' = Token(q)'
  <2>1. q # p /\ Active(q)
    BY <1>5 DEF RemoveStale, RemoveLockDir
  <2> QED
    BY <2>1, <1>a, <1>5 DEF RemoveStale, RemoveLockDir
<1>6. ASSUME NEW p \in Procs, Judge(p) \/ Recheck(p) \/ Wait(p)
      PROVE  UNCHANGED <<dir, calls>> /\ Active(q)
  BY <1>6 DEF Judge, Recheck, Wait
<1>7. ASSUME NEW p \in Procs, Deadline(p) \/ Crash(p)
      PROVE  UNCHANGED <<dir, calls>> /\ Active(q)
  BY <1>7 DEF Deadline, Crash
<1>8. CASE Age \/ UNCHANGED lockVars
  BY <1>8, <1>b DEF Age, lockVars
<1> QED
  BY <1>b, <1>1, <1>2, <1>3, <1>4, <1>5, <1>6, <1>7, <1>8 DEF LockNext, Step

LEMMA LockJudgementPreserved ==
  LockInv /\ [LockNext]_lockVars => LiveOwnerNotJudgedStale'
<1> SUFFICES ASSUME LockInv, [LockNext]_lockVars, NEW q \in Procs,
                    seen'[q].owner \in Tokens
             PROVE  seen'[q].owner[1] \notin alive'
  BY DEF LiveOwnerNotJudgedStale
<1> USE TokenAssumption DEF LockInv, LockTypeOK, LiveOwnerNotJudgedStale, NothingSeen
<1>1. alive' \subseteq alive
  BY DEF LockNext, Step, Call, MakeDir, Blocked, OpenOwner, FillOwner,
         FinishOperation, Unlock, Judge, Recheck, RemoveStale, Wait,
         Deadline, Crash, Age, lockVars
<1>2. CASE seen'[q] = seen[q]
  BY <1>1, <1>2
<1>3. CASE seen'[q] = [dir |-> NoDir, owner |-> NoFile]
  BY <1>3
<1>4. ASSUME NEW p \in Procs, Judge(p)
      PROVE  seen'[q].owner[1] \notin alive'
  BY <1>2, <1>4 DEF Judge, Stale
<1>5. ASSUME NEW p \in Procs, Recheck(p) \/ RemoveStale(p) \/ Crash(p)
      PROVE  \/ seen'[q] = seen[q]
             \/ seen'[q] = [dir |-> NoDir, owner |-> NoFile]
  BY <1>5 DEF Recheck, RemoveStale, Crash
<1>6. CASE UNCHANGED seen
  BY <1>2, <1>6
<1> QED
  BY <1>2, <1>3, <1>4, <1>5, <1>6
     DEF LockNext, Step, Call, MakeDir, Blocked, OpenOwner, FillOwner,
         FinishOperation, Unlock, Wait, Deadline, Age, lockVars

LEMMA ResponsiblePreserved == LockInv /\ [LockNext]_lockVars => DirHasResponsible'
<1> SUFFICES ASSUME LockInv, [LockNext]_lockVars, alive' = Procs, dir' # NoDir
             PROVE  \E q \in Procs : Responsible(q)'
  BY DEF DirHasResponsible
<1> USE TokenAssumption DEF LockInv, LockTypeOK, Goto
<1>0. alive = Procs
  BY DEF LockNext, Step, Call, MakeDir, Blocked, OpenOwner, FillOwner,
         FinishOperation, Unlock, Judge, Recheck, RemoveStale, Wait,
         Deadline, Crash, Age, lockVars
<1>a. dir # NoDir => \E r \in Procs : Responsible(r)
  BY <1>0 DEF DirHasResponsible
<1>b. \A r \in Procs : Responsible(r) => pc[r] \in {"open", "fill", "held", "unlock"}
  BY DEF Responsible
\* A step of p that leaves the directory alone does not take the
\* responsibility of another process away.
<1>c. ASSUME NEW p \in Procs, UNCHANGED <<dir, owner>>, dir # NoDir,
             pc[p] \notin {"open", "fill", "held", "unlock"},
             \A r \in Procs \ {p} :
               pc'[r] = pc[r] /\ calls'[r] = calls[r] /\ target'[r] = target[r]
      PROVE  \E q \in Procs : Responsible(q)'
  BY <1>a, <1>b, <1>c DEF Responsible, Token
<1>1. ASSUME NEW p \in Procs,
             Call(p) \/ Blocked(p) \/ Judge(p) \/ Recheck(p) \/ Wait(p)
      PROVE  \E q \in Procs : Responsible(q)'
  BY <1>1, <1>c DEF Call, Blocked, Judge, Recheck, Wait
<1>2. ASSUME NEW p \in Procs, MakeDir(p)
      PROVE  \E q \in Procs : Responsible(q)'
  BY <1>2 DEF MakeDir, Responsible
<1>3. ASSUME NEW p \in Procs, OpenOwner(p)
      PROVE  \E q \in Procs : Responsible(q)'
  BY <1>3 DEF OpenOwner, Responsible
<1>4. ASSUME NEW p \in Procs, FillOwner(p)
      PROVE  \E q \in Procs : Responsible(q)'
  <2>1. CASE dir = target[p]
    BY <1>4, <2>1 DEF FillOwner, Responsible, Token
  <2>2. CASE dir # target[p]
    <3>1. PICK r \in Procs : Responsible(r)
      BY <1>a, <1>4 DEF FillOwner
    <3>2. r # p
      BY <3>1, <1>4, <2>2, <1>b, TokenInTokens DEF FillOwner, Responsible
    <3> QED
      BY <3>1, <3>2, <1>4, <2>2 DEF FillOwner, Responsible, Token
  <2> QED
    BY <2>1, <2>2
<1>5. ASSUME NEW p \in Procs, FinishOperation(p)
      PROVE  \E q \in Procs : Responsible(q)'
  <2>1. PICK r \in Procs : Responsible(r)
    BY <1>a, <1>5 DEF FinishOperation
  <2>2. CASE r = p
    <3>1. owner = Token(p) /\ dir # NoDir
      BY <2>1, <2>2, <1>5 DEF FinishOperation, Responsible
    <3> QED
      BY <3>1, <1>5 DEF FinishOperation, Responsible, Token
  <2>3. CASE r # p
    BY <2>1, <2>3, <1>5 DEF FinishOperation, Responsible, Token
  <2> QED
    BY <2>2, <2>3
<1>6. ASSUME NEW p \in Procs, Unlock(p) \/ RemoveStale(p) PROVE FALSE
  BY <1>6 DEF Unlock, RemoveStale, RemoveLockDir
<1>7. ASSUME NEW p \in Procs, Crash(p) PROVE FALSE
  BY <1>7 DEF Crash
<1>8. CASE UNCHANGED <<dir, owner, pc, calls, target>>
  BY <1>a, <1>8 DEF Responsible, Token
<1> QED
  BY <1>1, <1>2, <1>3, <1>4, <1>5, <1>6, <1>7, <1>8
     DEF LockNext, Step, Deadline, Age, lockVars

\* The invariant holds in every reachable state.
THEOREM LockInvariant == LockSpec => []LockInv
<1>1. LockInv /\ [LockNext]_lockVars => LockInv'
  BY LockTypePreserved, CallsCountedPreserved, ActiveOwnsDirPreserved,
     LockJudgementPreserved, ResponsiblePreserved DEF LockInv
<1> QED
  BY <1>1, InitLockInv, PTL DEF LockSpec

\* The variables keep their types.
THEOREM LockTypeCorrect == LockSpec => []LockTypeOK
<1>1. LockInv => LockTypeOK
  BY DEF LockInv
<1> QED
  BY <1>1, LockInvariant, PTL

\* Two live processes run their operations at once only after recovery has
\* removed the lock of a call that was still running.
THEOREM LockMutualExclusion == LockSpec => []MutualExclusion
<1>1. LockInv => MutualExclusion
  BY DEF LockInv, ActiveOwnsDir, MutualExclusion, InOperation, Active, Token
<1> QED
  BY <1>1, LockInvariant, PTL

\* Recovery never judges the owner record of a live process stale.
THEOREM LockLiveOwnerSafe == LockSpec => []LiveOwnerNotJudgedStale
<1>1. LockInv => LiveOwnerNotJudgedStale
  BY DEF LockInv
<1> QED
  BY <1>1, LockInvariant, PTL

\* Without a crash a standing lock belongs to somebody's unfinished call, even
\* after locks were removed from under their holders.
THEOREM LockNotLeaked == LockSpec => []NoLeakedLock
<1>1. LockInv => NoLeakedLock
  BY DEF LockInv, DirHasResponsible, Responsible, NoLeakedLock, Active
<1> QED
  BY <1>1, LockInvariant, PTL

-----------------------------------------------------------------------------
(* The event log *)

Increasing == \A i, j \in 1..Len(log) : i < j => log[i].seq < log[j].seq

\* The two numbers publish takes the larger of bound everything written.
NothingAbove ==
  /\ \A e \in written : e.seq <= counter \/ e.seq <= LastSequence
  /\ \A i \in 1..Len(log) : log[i] \in written

\* What the steps of a publish know of the number it was given.
WriterKnows ==
  /\ writer.at = "append" => writer.event.seq = NextSequence
  /\ writer.at = "counter" =>
       log # <<>> /\ writer.event.seq = LastSequence /\ counter <= LastSequence
  /\ writer.at = "compact" => log # <<>> /\ counter >= LastSequence
  /\ writer.at = "append" /\ writer.event.id # NoId =>
       \A i \in 1..Len(log) : log[i].id # writer.event.id

NumbersUnique == \A e, f \in written : e.seq = f.seq => e = f

WriteInv ==
  /\ TypeOK /\ Increasing /\ NothingAbove /\ WriterKnows
  /\ NumbersUnique /\ IdsRetainedOnce

\* A consumer's cursor and what it has handled.
TailKnows(c) ==
  /\ last[c] <= counter \/ last[c] <= LastSequence
  /\ cursor[c].file <= renames
  /\ ~aliased[c] => \A i \in 1..Len(log) : log[i].seq <= last[c] => log[i] \in got[c]
  /\ cursor[c].file = renames => cursor[c].off <= Len(log)
  /\ ~aliased[c] /\ cursor[c].file = renames =>
       \A i \in 1..cursor[c].off : log[i].seq <= last[c]

TailInv == \A c \in Tailers : TailKnows(c)

LogInv == WriteInv /\ TailInv

USE DEF writeVars, tailVars, readVars

LEMMA InitLogInv == Init => LogInv
<1> SUFFICES ASSUME Init PROVE LogInv
  OBVIOUS
<1> USE BoundAssumption DEF Init
<1>1. TypeOK
  <2>1. log \in Seq(Event) /\ Len(log) = 0
    BY EmptySeq
  <2>2. Start \in Cursor
    BY DEF Start, Cursor
  <2> QED
    BY <2>1, <2>2 DEF TypeOK
<1>2. Increasing /\ NothingAbove /\ WriterKnows /\ NumbersUnique /\ IdsRetainedOnce
  BY DEF Increasing, NothingAbove, WriterKnows, NumbersUnique, IdsRetainedOnce, Idle
<1>3. TailInv
  BY DEF TailInv, TailKnows, Start
<1> QED
  BY <1>1, <1>2, <1>3 DEF LogInv, WriteInv

\* A suffix of the log, as compaction makes one.
LEMMA SuffixFacts ==
  ASSUME NEW S, NEW s \in Seq(S), NEW d \in 1..Len(s)
  PROVE  /\ SubSeq(s, d + 1, Len(s)) \in Seq(S)
         /\ Len(SubSeq(s, d + 1, Len(s))) = Len(s) - d
         /\ \A i \in 1..(Len(s) - d) : SubSeq(s, d + 1, Len(s))[i] = s[i + d]
<1>1. Len(s) \in Nat
  BY LenProperties
<1>2. \A i \in (d + 1)..Len(s) : s[i] \in S
  BY <1>1, ElementOfSeq
<1> QED
  BY <1>1, <1>2, SubSeqProperties

LEMMA EventNumber == \A e \in Event : e.seq \in 1..MaxSeq /\ e.seq \in Nat
BY BoundAssumption DEF Event

LEMMA NextSequenceFacts ==
  ASSUME TypeOK
  PROVE  /\ LastSequence \in 0..MaxSeq
         /\ NextSequence \in Nat
         /\ NextSequence > counter /\ NextSequence > LastSequence
         /\ Len(log) \in Nat
         /\ \A i \in 1..Len(log) : log[i] \in Event /\ log[i].seq \in 1..MaxSeq
                                /\ log[i].seq \in Nat
<1>1. Len(log) \in Nat /\ \A i \in 1..Len(log) : log[i] \in Event
  BY LenProperties, ElementOfSeq DEF TypeOK
<1>2. log # <<>> => Len(log) \in 1..Len(log)
  BY <1>1, EmptySeq DEF TypeOK
<1>3. LastSequence \in 0..MaxSeq
  BY <1>1, <1>2, BoundAssumption DEF LastSequence, Event
<1> QED
  BY <1>1, <1>3, EventNumber, BoundAssumption DEF NextSequence, Larger, TypeOK

-----------------------------------------------------------------------------
(* The writer *)

LEMMA PublishPreserves ==
  ASSUME WriteInv, NEW r \in Requests, Publish(r) PROVE WriteInv'
<1> USE DEF WriteInv, Publish
<1>1. NextSequence \in Nat /\ NextSequence > 0
  BY NextSequenceFacts, BoundAssumption DEF TypeOK
<1>2. Published(r) \subseteq Event
  BY NextSequenceFacts DEF Published, Lines
<1>3. TypeOK'
  <2>1. CASE Published(r) # {}
    BY <2>1, <1>2 DEF TypeOK
  <2>2. CASE Published(r) = {}
    <3>1. [seq |-> NextSequence, id |-> r.id, val |-> r.val] \in Event
      BY <1>1, <2>2, BoundAssumption DEF Event
    <3> QED
      BY <2>2, <3>1 DEF TypeOK, Publishing
  <2> QED
    BY <2>1, <2>2
<1>4. Increasing' /\ NothingAbove' /\ NumbersUnique' /\ IdsRetainedOnce'
  BY DEF Increasing, NothingAbove, NumbersUnique, IdsRetainedOnce, LastSequence
<1>5. WriterKnows'
  <2>1. CASE Published(r) # {}
    BY <2>1 DEF WriterKnows, NextSequence, LastSequence
  <2>2. CASE Published(r) = {}
    <3>1. r.id # NoId => \A i \in 1..Len(log) : log[i].id # r.id
      BY <2>2 DEF Published, Lines
    <3> QED
      BY <2>2, <3>1 DEF WriterKnows, NextSequence, LastSequence
  <2> QED
    BY <2>1, <2>2
<1> QED
  BY <1>3, <1>4, <1>5

LEMMA AppendPreserves ==
  ASSUME WriteInv, AppendLine PROVE WriteInv'
<1> USE DEF WriteInv, AppendLine
<1>1. writer.event \in Event /\ writer.at = "append"
  BY DEF TypeOK, Idle, Publishing
<1>2. /\ log' \in Seq(Event) /\ Len(log') = Len(log) + 1 /\ log' # <<>>
      /\ \A i \in 1..Len(log) : log'[i] = log[i]
      /\ log'[Len(log) + 1] = writer.event
  BY <1>1, AppendProperties DEF TypeOK
<1>3. /\ Len(log) \in Nat /\ NextSequence \in Nat
      /\ \A i \in 1..Len(log) : log[i] \in Event
      /\ NextSequence > counter /\ NextSequence > LastSequence
      /\ LastSequence \in Nat
  BY NextSequenceFacts DEF TypeOK
<1>4. writer.event.seq = NextSequence
  BY <1>1 DEF WriterKnows
<1>5. \A e \in written : e.seq < writer.event.seq
  <2> SUFFICES ASSUME NEW e \in written PROVE e.seq < NextSequence
    BY <1>4
  <2>1. e.seq \in 1..MaxSeq /\ counter \in Nat
    BY DEF TypeOK, Event
  <2>2. e.seq <= counter \/ e.seq <= LastSequence
    BY DEF NothingAbove
  <2> QED
    BY <1>3, <2>1, <2>2, BoundAssumption
<1>6. TypeOK'
  <2>1. writer' \in Publishing
    BY <1>1 DEF TypeOK, Publishing, Idle
  <2> QED
    BY <1>1, <1>2, <2>1 DEF TypeOK
<1>7. Increasing'
  BY <1>2, <1>3, <1>5 DEF Increasing, NothingAbove
<1>8. LastSequence' = writer.event.seq
  BY <1>2 DEF LastSequence
<1>9. NothingAbove'
  <2>1. \A e \in written' : e.seq <= LastSequence'
    BY <1>1, <1>5, <1>8 DEF TypeOK, Event
  <2> QED
    BY <2>1, <1>2, <1>3 DEF NothingAbove
<1>10. WriterKnows'
  BY <1>1, <1>2, <1>3, <1>4, <1>8 DEF WriterKnows, TypeOK
<1>11. NumbersUnique'
  BY <1>5, <1>1 DEF NumbersUnique, TypeOK, Event
<1>12. IdsRetainedOnce'
  BY <1>1, <1>2, <1>3 DEF IdsRetainedOnce, WriterKnows
<1> QED
  BY <1>6, <1>7, <1>9, <1>10, <1>11, <1>12

LEMMA CounterPreserves ==
  ASSUME WriteInv, WriteCounter PROVE WriteInv'
<1> USE DEF WriteInv, WriteCounter
<1>1. writer.event \in Event /\ writer.at = "counter"
  BY DEF TypeOK, Idle, Publishing
<1>2. /\ log # <<>> /\ writer.event.seq = LastSequence
      /\ counter <= LastSequence /\ LastSequence' = LastSequence
  BY <1>1 DEF WriterKnows, LastSequence
<1>3. TypeOK'
  <2>1. writer' \in {Idle} \cup Publishing
    <3>1. writer \in Publishing
      BY <1>1 DEF TypeOK, Idle
    <3>2. [writer EXCEPT !.at = "compact"] \in Publishing
      BY <3>1 DEF Publishing
    <3> QED
      BY <3>2
  <2>2. counter' \in 0..MaxSeq
    BY <1>1, BoundAssumption DEF Event
  <2> QED
    BY <1>1, <2>1, <2>2 DEF TypeOK
<1>4. Increasing' /\ NumbersUnique' /\ IdsRetainedOnce'
  BY DEF Increasing, NumbersUnique, IdsRetainedOnce
<1>5. NothingAbove'
  BY <1>1, <1>2 DEF NothingAbove, TypeOK, Event
<1>6. WriterKnows'
  <2>1. CASE Len(log) > MaxLines
    <3>1. writer'.at = "compact"
      BY <1>1, <2>1 DEF TypeOK, Publishing, Idle
    <3> QED
      BY <3>1, <1>1, <1>2 DEF WriterKnows, Event
  <2>2. CASE ~(Len(log) > MaxLines)
    BY <2>2 DEF WriterKnows, Idle
  <2> QED
    BY <2>1, <2>2
<1> QED
  BY <1>3, <1>4, <1>5, <1>6

LEMMA CompactPreserves ==
  ASSUME WriteInv, Compact PROVE WriteInv'
<1>1. writer \in Publishing /\ writer.at = "compact"
  BY DEF TypeOK, Idle, WriteInv, Compact
<1>2. PICK d \in 1..Len(log) : log' = SubSeq(log, d + 1, Len(log))
  BY DEF Compact
<1>3. /\ log' \in Seq(Event) /\ Len(log') = Len(log) - d
      /\ \A i \in 1..(Len(log) - d) : log'[i] = log[i + d]
  BY <1>2, SuffixFacts DEF TypeOK, WriteInv
<1>4. /\ Len(log) \in Nat /\ LastSequence \in Nat
      /\ counter \in Nat /\ counter >= LastSequence
      /\ \A i \in 1..Len(log) : log[i] \in Event
      /\ counter' = counter /\ written' = written
  BY <1>1, NextSequenceFacts DEF TypeOK, WriterKnows, WriteInv, Compact
<1>5. TypeOK'
  <2>1. writer' \in Publishing
    BY <1>1 DEF Publishing, Compact
  <2>2. renames' \in Nat /\ counter' \in 0..MaxSeq
    BY DEF TypeOK, WriteInv, Compact
  <2>3. /\ torn' = torn /\ generation' = generation /\ written' = written
        /\ results' = results /\ UNCHANGED tailVars /\ UNCHANGED readVars
    BY DEF Compact
  <2>4. TypeOK
    BY DEF WriteInv
  <2> HIDE DEF Publishing, Event, Idle
  <2> QED
    BY <2>1, <2>2, <2>3, <2>4, <1>3 DEF TypeOK
<1>6. Increasing'
  <2> SUFFICES ASSUME NEW i \in 1..Len(log'), NEW j \in 1..Len(log'), i < j
               PROVE  log'[i].seq < log'[j].seq
    BY DEF Increasing
  <2>1. i + d \in 1..Len(log) /\ j + d \in 1..Len(log) /\ i + d < j + d
    BY <1>3, <1>4
  <2> QED
    BY <2>1, <1>3, <1>4 DEF Increasing, WriteInv
<1>7. \A e \in written : e.seq <= counter
  BY <1>4 DEF NothingAbove, TypeOK, Event, WriteInv
<1>8. NothingAbove'
  <2>1. \A i \in 1..Len(log') : log'[i] \in written
    <3> SUFFICES ASSUME NEW i \in 1..Len(log') PROVE log'[i] \in written
      OBVIOUS
    <3>1. i \in 1..(Len(log) - d)
      BY <1>3
    <3>2. log'[i] = log[i + d]
      BY <3>1, <1>3, <1>4
    <3>3. i + d \in 1..Len(log)
      BY <3>1, <1>3
    <3> QED
      BY <3>2, <3>3 DEF NothingAbove, WriteInv
  <2> QED
    BY <2>1, <1>4, <1>7 DEF NothingAbove
<1>9. WriterKnows'
  BY <1>1 DEF WriterKnows, Compact, Publishing
<1>10. IdsRetainedOnce'
  <2> SUFFICES ASSUME NEW i \in 1..Len(log'), NEW j \in 1..Len(log'),
                      log'[i].id # NoId, log'[i].id = log'[j].id
               PROVE  i = j
    BY DEF IdsRetainedOnce
  <2>1. /\ i + d \in 1..Len(log) /\ j + d \in 1..Len(log)
        /\ log'[i] = log[i + d] /\ log'[j] = log[j + d]
    BY <1>3, <1>4
  <2>2. i + d = j + d
    BY <2>1 DEF IdsRetainedOnce, WriteInv
  <2> QED
    BY <2>2, <1>3, <1>4
<1>11. NumbersUnique'
  BY <1>4 DEF NumbersUnique, WriteInv
<1> QED
  BY <1>5, <1>6, <1>8, <1>9, <1>10, <1>11 DEF WriteInv

LEMMA GenerationPreserves ==
  ASSUME WriteInv, WriteGeneration \/ CrashWriter PROVE WriteInv'
<1> USE DEF WriteInv, WriteGeneration, CrashWriter
<1>1. writer # Idle => writer.event \in Event
  BY DEF TypeOK, Publishing
<1>2. TypeOK'
  BY <1>1 DEF TypeOK, Idle
<1>3. Increasing' /\ NumbersUnique' /\ IdsRetainedOnce' /\ NothingAbove'
  BY DEF Increasing, NumbersUnique, IdsRetainedOnce, NothingAbove, LastSequence
<1>4. WriterKnows'
  BY DEF WriterKnows, Idle
<1> QED
  BY <1>2, <1>3, <1>4

-----------------------------------------------------------------------------
(* The readers *)

\* What the readers' steps leave of the writer's part.
LEMMA ReadersLeaveWrites ==
  ASSUME WriteInv, UNCHANGED writeVars,
         cursor' \in [Tailers -> Cursor],
         openGen' \in [Tailers -> Nat \cup {Nothing}],
         last' \in [Tailers -> 0..MaxSeq],
         got' \in [Tailers -> SUBSET Event],
         aliased' \in [Tailers -> BOOLEAN],
         restarts' \in [Tailers -> 0..MaxRestarts],
         after' \in [Readers -> 0..MaxSeq],
         saw' \in [Readers -> SUBSET Event]
  PROVE  WriteInv'
<1>1. TypeOK'
  BY DEF WriteInv, TypeOK
<1>2. Increasing' /\ NothingAbove' /\ NumbersUnique' /\ IdsRetainedOnce'
  BY DEF WriteInv, Increasing, NothingAbove, NumbersUnique, IdsRetainedOnce,
         LastSequence
<1>3. WriterKnows'
  BY DEF WriteInv, WriterKnows, NextSequence, LastSequence
<1> QED
  BY <1>1, <1>2, <1>3 DEF WriteInv

\* The events of one page that a consumer handles, and the number it ends at.
Fresh(c, from, to) == {log[i] : i \in {j \in (from + 1)..to : log[j].seq > last[c]}}
Handled(c, from, to) == IF Fresh(c, from, to) = {} THEN last[c] ELSE log[to].seq

PageMeans(c, from, to) ==
  /\ Fresh(c, from, to) \subseteq Event
  /\ Handled(c, from, to) \in 0..MaxSeq
  /\ Handled(c, from, to) <= counter \/ Handled(c, from, to) <= LastSequence
  /\ (\A i \in 1..from : log[i].seq <= last[c]) =>
       /\ \A i \in 1..to : log[i].seq <= Handled(c, from, to)
       /\ \A i \in 1..Len(log) :
            log[i].seq <= Handled(c, from, to) =>
              log[i].seq <= last[c] \/ log[i] \in Fresh(c, from, to)

\* What one page read from a position means for the consumer.
LEMMA PageFacts ==
  ASSUME WriteInv, TailInv, NEW c \in Tailers, NEW from \in 0..Len(log),
         NEW to \in from..Len(log)
  PROVE  PageMeans(c, from, to)
<1> DEFINE new == Fresh(c, from, to)
           next == Handled(c, from, to)
<1>a. \A e : e \in new <=> \E i \in (from + 1)..to : log[i].seq > last[c] /\ e = log[i]
  BY DEF Fresh
<1>b. (new = {} => next = last[c]) /\ (new # {} => next = log[to].seq)
  BY DEF Handled
<1> HIDE DEF new, next
<1> SUFFICES
      /\ new \subseteq Event
      /\ next \in 0..MaxSeq
      /\ next <= counter \/ next <= LastSequence
      /\ (\A i \in 1..from : log[i].seq <= last[c]) =>
           /\ \A i \in 1..to : log[i].seq <= next
           /\ \A i \in 1..Len(log) :
                log[i].seq <= next => log[i].seq <= last[c] \/ log[i] \in new
  BY DEF PageMeans, new, next
<1>1. /\ Len(log) \in Nat /\ last[c] \in 0..MaxSeq /\ MaxSeq \in Nat
      /\ counter \in Nat /\ LastSequence \in Nat
      /\ \A i \in 1..Len(log) : log[i] \in Event /\ log[i].seq \in 1..MaxSeq
                             /\ log[i].seq \in Nat
  BY NextSequenceFacts, BoundAssumption DEF WriteInv, TypeOK
<1>2. to \in from..Len(log) /\ to \in Nat
  BY <1>1
<1>3. new \subseteq Event
  BY <1>1, <1>2, <1>a
<1>4. \A i, j \in 1..Len(log) : i < j => log[i].seq < log[j].seq
  BY DEF WriteInv, Increasing
<1>5. CASE new = {}
  <2>1. next = last[c]
    BY <1>5, <1>b
  <2>2. ASSUME \A i \in 1..from : log[i].seq <= last[c],
               NEW i \in 1..to, log[i].seq > last[c]
        PROVE  FALSE
    <3>0. ~(i <= from)
      BY <2>2, <1>1, <1>2
    <3>1. i \in (from + 1)..to
      BY <1>1, <1>2, <3>0
    <3>2. log[i] \in new
      BY <3>1, <2>2, <1>a
    <3> QED
      BY <3>2, <1>5
  <2>3. last[c] <= counter \/ last[c] <= LastSequence
    BY DEF TailInv, TailKnows
  <2>4. ASSUME \A i \in 1..from : log[i].seq <= last[c]
        PROVE  \A i \in 1..to : log[i].seq <= last[c]
    <3> SUFFICES ASSUME NEW i \in 1..to PROVE log[i].seq <= last[c]
      OBVIOUS
    <3>1. i \in 1..Len(log)
      BY <1>1, <1>2
    <3> QED
      BY <2>2, <2>4, <3>1, <1>1
  <2> QED
    BY <1>1, <1>2, <1>3, <1>5, <2>1, <2>3, <2>4
<1>6. CASE new # {}
  <2>1. PICK k \in (from + 1)..to : log[k].seq > last[c]
    BY <1>6, <1>a
  <2>2. to \in 1..Len(log) /\ k \in 1..Len(log) /\ k <= to
    BY <1>1, <1>2, <2>1
  <2>3. next = log[to].seq /\ log[to].seq \in 1..MaxSeq
    BY <1>6, <2>2, <1>1, <1>b
  <2>4. \A i \in 1..to : log[i].seq <= next
    <3> SUFFICES ASSUME NEW i \in 1..to PROVE log[i].seq <= next
      OBVIOUS
    <3>1. i \in 1..Len(log) /\ (i < to \/ i = to)
      BY <1>1, <1>2
    <3>2. i < to => log[i].seq < log[to].seq
      BY <1>4, <2>2, <3>1
    <3> QED
      BY <1>1, <2>2, <2>3, <3>1, <3>2
  <2>5. next <= counter \/ next <= LastSequence
    BY <2>2, <2>3 DEF WriteInv, NothingAbove
  <2>6. ASSUME NEW i \in 1..Len(log), log[i].seq <= next PROVE i <= to
    <3> SUFFICES ASSUME to < i PROVE FALSE
      BY <2>2
    <3>1. log[to].seq < log[i].seq
      BY <1>4, <2>2
    <3> QED
      BY <1>1, <2>2, <2>3, <2>6, <3>1
  <2>7. ASSUME \A j \in 1..from : log[j].seq <= last[c],
               NEW i \in 1..Len(log), log[i].seq <= next
        PROVE  log[i].seq <= last[c] \/ log[i] \in new
    <3> SUFFICES ASSUME log[i].seq > last[c] PROVE log[i] \in new
      BY <1>1
    <3>1. i <= to
      BY <2>6, <2>7
    <3>2. ~(i <= from)
      BY <1>1, <2>7
    <3>3. i \in (from + 1)..to
      BY <1>1, <1>2, <3>1, <3>2
    <3> QED
      BY <3>3, <1>a
  <2>8. next \in 0..MaxSeq
    BY <2>3, <1>1
  <2> QED
    BY <1>2, <1>3, <2>4, <2>5, <2>7, <2>8
<1> QED
  BY <1>5, <1>6

LEMMA ReadTailPreserves ==
  ASSUME LogInv, NEW c \in Tailers, ReadTail(c) PROVE LogInv'
<1> USE DEF LogInv
<1>1. PICK from \in Resume(cursor[c], openGen[c], Len(log)) :
        LET to  == Smaller(from + Page, Len(log))
            new == {log[i] : i \in {j \in (from + 1)..to : log[j].seq > last[c]}}
        IN  /\ cursor' = [cursor EXCEPT ![c] =
                 [gen |-> openGen[c], off |-> to, file |-> renames]]
            /\ got' = [got EXCEPT ![c] = @ \cup new]
            /\ last' = [last EXCEPT ![c] = IF new = {} THEN @ ELSE log[to].seq]
            /\ aliased' = [aliased EXCEPT ![c] =
                  \/ @
                  \/ /\ from > 0 /\ cursor[c].gen = openGen[c]
                     /\ cursor[c].file # renames]
  BY DEF ReadTail, NextOffset
<1> DEFINE to   == Smaller(from + Page, Len(log))
           new  == Fresh(c, from, to)
           next == Handled(c, from, to)
<1>2. /\ cursor' = [cursor EXCEPT ![c] = [gen |-> openGen[c], off |-> to, file |-> renames]]
      /\ got' = [got EXCEPT ![c] = @ \cup new]
      /\ last' = [last EXCEPT ![c] = next]
      /\ aliased' = [aliased EXCEPT ![c] =
            \/ @
            \/ /\ from > 0 /\ cursor[c].gen = openGen[c]
               /\ cursor[c].file # renames]
  BY <1>1 DEF WriteInv, TypeOK, Fresh, Handled
<1>3. /\ openGen[c] \in Nat /\ openGen' = [openGen EXCEPT ![c] = Nothing]
      /\ UNCHANGED <<writeVars, restarts, readVars>>
  BY DEF ReadTail, WriteInv, TypeOK
<1>4. /\ cursor[c] \in Cursor /\ cursor[c].off \in Nat /\ Len(log) \in Nat
      /\ renames \in Nat
  BY NextSequenceFacts DEF WriteInv, TypeOK, Cursor
<1>5. from \in 0..Len(log)
  BY <1>1, <1>4 DEF Resume, Smaller
\* Reading resumes behind what was handled, or at the start, or is aliased.
<1>6. ASSUME ~aliased'[c] PROVE \A i \in 1..from : log[i].seq <= last[c]
  <2>0. ~aliased[c] /\ ~(from > 0 /\ cursor[c].gen = openGen[c] /\ cursor[c].file # renames)
    BY <1>2, <1>6 DEF WriteInv, TypeOK
  <2>1. CASE from = 0
    BY <2>1
  <2>2. CASE from # 0
    <3>1. cursor[c].gen = openGen[c] /\ from = Smaller(cursor[c].off, Len(log))
      BY <1>1, <2>2 DEF Resume
    <3>2. cursor[c].file = renames
      BY <2>0, <3>1, <2>2, <1>5
    <3>3. /\ cursor[c].off <= Len(log)
          /\ \A i \in 1..cursor[c].off : log[i].seq <= last[c]
      BY <2>0, <3>2 DEF TailInv, TailKnows
    <3> QED
      BY <3>1, <3>3, <1>4 DEF Smaller
  <2> QED
    BY <2>1, <2>2
<1>a. to \in from..Len(log)
  BY <1>4, <1>5, BoundAssumption DEF to, Smaller
<1> HIDE DEF to
<1>7. /\ to \in from..Len(log) /\ new \subseteq Event /\ next \in 0..MaxSeq
      /\ next <= counter \/ next <= LastSequence
      /\ (\A i \in 1..from : log[i].seq <= last[c]) =>
           /\ \A i \in 1..to : log[i].seq <= next
           /\ \A i \in 1..Len(log) :
                log[i].seq <= next => log[i].seq <= last[c] \/ log[i] \in new
  <2>1. WriteInv /\ TailInv
    OBVIOUS
  <2> QED
    BY <2>1, <1>5, <1>a, PageFacts DEF PageMeans
<1> HIDE DEF new, next
<1>8. WriteInv'
  <2>1. [gen |-> openGen[c], off |-> to, file |-> renames] \in Cursor
    <3>1. to \in Nat
      BY <1>4, <1>5, <1>a
    <3> QED
      BY <1>3, <1>4, <3>1 DEF Cursor
  <2>2. cursor' \in [Tailers -> Cursor]
    BY <1>2, <2>1 DEF WriteInv, TypeOK
  <2>3. /\ openGen' \in [Tailers -> Nat \cup {Nothing}]
        /\ last' \in [Tailers -> 0..MaxSeq]
        /\ got' \in [Tailers -> SUBSET Event]
    BY <1>2, <1>3, <1>7 DEF WriteInv, TypeOK
  <2>4. aliased' \in [Tailers -> BOOLEAN]
    BY <1>2 DEF WriteInv, TypeOK
  <2>5. /\ restarts' \in [Tailers -> 0..MaxRestarts]
        /\ after' \in [Readers -> 0..MaxSeq] /\ saw' \in [Readers -> SUBSET Event]
    BY <1>3 DEF WriteInv, TypeOK
  <2> QED
    BY <1>3, <2>2, <2>3, <2>4, <2>5, ReadersLeaveWrites
<1>9. ASSUME NEW d \in Tailers PROVE TailKnows(d)'
  <2>1. /\ log' = log /\ counter' = counter /\ renames' = renames
        /\ LastSequence' = LastSequence
    BY <1>3 DEF LastSequence
  <2>2. TailKnows(d)
    BY DEF TailInv
  <2>3. CASE d # c
    <3>1. /\ last'[d] = last[d] /\ cursor'[d] = cursor[d] /\ got'[d] = got[d]
          /\ aliased'[d] = aliased[d]
      BY <1>2, <2>3 DEF WriteInv, TypeOK
    <3> QED
      BY <2>1, <2>2, <3>1 DEF TailKnows
  <2>4. CASE d = c
    <3>1. /\ last'[c] = next /\ got'[c] = got[c] \cup new
          /\ cursor'[c] = [gen |-> openGen[c], off |-> to, file |-> renames]
      BY <1>2 DEF WriteInv, TypeOK
    <3>2. ~aliased'[c] => ~aliased[c]
      BY <1>2 DEF WriteInv, TypeOK
    <3>3. \A i \in 1..Len(log) :
            ~aliased[c] /\ log[i].seq <= last[c] => log[i] \in got[c]
      BY <2>2, <2>4 DEF TailKnows
    <3>4. cursor'[c].file = renames /\ cursor'[c].off = to
      BY <3>1
    <3>5. to <= Len(log)
      BY <1>7, <1>4, <1>5
    <3> QED
      BY <2>1, <2>4, <3>1, <3>2, <3>3, <3>4, <3>5, <1>4, <1>6, <1>7 DEF TailKnows
  <2> QED
    BY <2>3, <2>4
<1> QED
  BY <1>8, <1>9 DEF TailInv

LEMMA OtherReadersPreserve ==
  ASSUME LogInv, NEW c \in Tailers, OpenTail(c) \/ RestartTail(c) PROVE LogInv'
<1> USE BoundAssumption DEF LogInv
<1>1. UNCHANGED writeVars /\ UNCHANGED readVars
  BY DEF OpenTail, RestartTail
<1>2. WriteInv'
  <2>1. Start \in Cursor
    BY DEF Start, Cursor
  <2>2. /\ cursor' \in [Tailers -> Cursor]
        /\ openGen' \in [Tailers -> Nat \cup {Nothing}]
        /\ last' \in [Tailers -> 0..MaxSeq]
        /\ got' \in [Tailers -> SUBSET Event]
        /\ aliased' \in [Tailers -> BOOLEAN]
    <3>1. CASE OpenTail(c)
      BY <3>1 DEF OpenTail, WriteInv, TypeOK
    <3>2. CASE RestartTail(c)
      <4>1. 0 \in 0..MaxSeq /\ {} \in SUBSET Event
        OBVIOUS
      <4> QED
        BY <2>1, <3>2, <4>1 DEF RestartTail, WriteInv, TypeOK
    <3> QED
      BY <3>1, <3>2
  <2>3. restarts' \in [Tailers -> 0..MaxRestarts]
    <3>1. CASE OpenTail(c)
      BY <3>1 DEF OpenTail, WriteInv, TypeOK
    <3>2. CASE RestartTail(c)
      <4>1. restarts[c] + 1 \in 0..MaxRestarts
        BY <3>2 DEF RestartTail, WriteInv, TypeOK
      <4> QED
        BY <3>2, <4>1 DEF RestartTail, WriteInv, TypeOK
    <3> QED
      BY <3>1, <3>2
  <2>4. after' \in [Readers -> 0..MaxSeq] /\ saw' \in [Readers -> SUBSET Event]
    BY <1>1 DEF WriteInv, TypeOK
  <2> QED
    BY <1>1, <2>2, <2>3, <2>4, ReadersLeaveWrites
<1>3. ASSUME NEW d \in Tailers PROVE TailKnows(d)'
  <2>1. /\ log' = log /\ counter' = counter /\ renames' = renames
        /\ LastSequence' = LastSequence
    BY <1>1 DEF LastSequence
  <2>1a. /\ Len(log) \in Nat /\ counter \in Nat /\ renames \in Nat
         /\ \A i \in 1..Len(log) : log[i].seq \in 1..MaxSeq
    <3>1. TypeOK
      BY DEF WriteInv
    <3>2. counter \in Nat /\ renames \in Nat
      BY <3>1 DEF TypeOK
    <3> QED
      BY <3>1, <3>2, NextSequenceFacts
  <2>2. TailKnows(d)
    BY DEF TailInv
  <2>3. CASE /\ last'[d] = last[d] /\ cursor'[d] = cursor[d] /\ got'[d] = got[d]
             /\ aliased'[d] = aliased[d]
    BY <2>1, <2>2, <2>3 DEF TailKnows
  <2>4. CASE cursor'[d] = Start /\ last'[d] = 0
    BY <2>1, <2>1a, <2>4 DEF TailKnows, Start
  <2> QED
    BY <2>3, <2>4 DEF OpenTail, RestartTail, WriteInv, TypeOK
<1> QED
  BY <1>2, <1>3 DEF TailInv

\* The consumers during a step of the writer.
LEMMA WriterLeavesTails ==
  ASSUME LogInv, WriteInv', UNCHANGED tailVars,
         \/ \E r \in Requests : Publish(r)
         \/ WriterStep \/ CrashWriter
  PROVE  TailInv'
<1> SUFFICES ASSUME NEW c \in Tailers PROVE TailKnows(c)'
  BY DEF TailInv
<1> USE DEF LogInv
<1>1. /\ TailKnows(c) /\ Len(log) \in Nat /\ counter \in Nat /\ renames \in Nat
      /\ LastSequence \in Nat /\ last[c] \in Nat /\ cursor[c].off \in Nat
      /\ cursor[c].file \in Nat
      /\ \A i \in 1..Len(log) : log[i] \in Event /\ log[i].seq \in Nat
  <2>1. cursor[c] \in Cursor /\ last[c] \in 0..MaxSeq
    BY DEF WriteInv, TypeOK
  <2>2. cursor[c].off \in Nat /\ cursor[c].file \in Nat
    BY <2>1 DEF Cursor
  <2>3. TypeOK /\ TailKnows(c)
    BY DEF WriteInv, TailInv
  <2>4. counter \in Nat /\ renames \in Nat
    BY <2>3 DEF TypeOK
  <2> QED
    BY <2>1, <2>2, <2>3, <2>4, NextSequenceFacts, BoundAssumption
<1>2. CASE UNCHANGED <<log, counter, renames>>
  BY <1>1, <1>2 DEF TailKnows, LastSequence
<1>3. CASE AppendLine
  <2>1. writer.event \in Event /\ writer.at = "append"
    BY <1>3 DEF AppendLine, WriteInv, TypeOK, Idle, Publishing
  <2>2. /\ Len(log') = Len(log) + 1
        /\ \A i \in 1..Len(log) : log'[i] = log[i]
        /\ log'[Len(log) + 1] = writer.event
        /\ log' # <<>>
    <3>1. log \in Seq(Event) /\ log' = Append(log, writer.event)
      BY <1>3 DEF AppendLine, WriteInv, TypeOK
    <3> QED
      BY <2>1, <3>1, AppendProperties
  <2>3. /\ writer.event.seq > counter /\ writer.event.seq > LastSequence
        /\ writer.event.seq \in Nat
    BY <2>1, NextSequenceFacts DEF WriteInv, WriterKnows, TypeOK
  <2>4. last[c] < writer.event.seq
    BY <1>1, <2>3 DEF TailKnows
  <2>5. LastSequence' = writer.event.seq
    BY <2>2 DEF LastSequence
  <2>6. counter' = counter /\ renames' = renames
    BY <1>3 DEF AppendLine
  <2>7. ASSUME ~aliased[c], NEW i \in 1..Len(log'), log'[i].seq <= last[c]
        PROVE  log'[i] \in got[c]
    <3>1. i \in 1..Len(log)
      BY <1>1, <2>2, <2>3, <2>4, <2>7
    <3> QED
      BY <1>1, <2>2, <2>7, <3>1 DEF TailKnows
  <2>8. cursor[c].file = renames => cursor[c].off <= Len(log) /\ cursor[c].off <= Len(log')
    BY <1>1, <2>2 DEF TailKnows
  <2>9. ASSUME ~aliased[c], cursor[c].file = renames, NEW i \in 1..cursor[c].off
        PROVE  log'[i].seq <= last[c]
    <3>1. i \in 1..Len(log)
      BY <1>1, <2>8, <2>9
    <3> QED
      BY <1>1, <2>2, <2>9, <3>1 DEF TailKnows
  <2>10. last[c] <= LastSequence' /\ cursor[c].file <= renames
    BY <1>1, <2>3, <2>4, <2>5 DEF TailKnows
  <2> QED
    BY <2>6, <2>7, <2>8, <2>9, <2>10 DEF TailKnows
<1>4. CASE WriteCounter
  <2>1. /\ log' = log /\ renames' = renames /\ LastSequence' = LastSequence
        /\ counter <= LastSequence
    BY <1>4 DEF WriteCounter, LastSequence, WriteInv, WriterKnows
  <2>2. last[c] <= LastSequence
    BY <1>1, <2>1 DEF TailKnows
  <2> QED
    BY <1>1, <2>1, <2>2 DEF TailKnows
<1>5. CASE Compact
  <2>1. PICK d \in 1..Len(log) : log' = SubSeq(log, d + 1, Len(log))
    BY <1>5 DEF Compact
  <2>2. /\ Len(log') = Len(log) - d
        /\ \A i \in 1..(Len(log) - d) : log'[i] = log[i + d]
    BY <2>1, SuffixFacts DEF WriteInv, TypeOK
  <2>3. counter' = counter /\ renames' = renames + 1 /\ counter >= LastSequence
    BY <1>5 DEF Compact, WriteInv, WriterKnows
  <2>4. last[c] <= counter
    BY <1>1, <2>3 DEF TailKnows
  <2>5. ASSUME ~aliased[c], NEW i \in 1..Len(log'), log'[i].seq <= last[c]
        PROVE  log'[i] \in got[c]
    <3>1. i + d \in 1..Len(log) /\ log'[i] = log[i + d]
      BY <1>1, <2>2
    <3> QED
      BY <3>1, <2>5, <1>1 DEF TailKnows
  <2>6. cursor[c].file # renames'
    BY <1>1, <2>3 DEF TailKnows
  <2> QED
    BY <1>1, <2>3, <2>4, <2>5, <2>6 DEF TailKnows
<1> QED
  BY <1>2, <1>3, <1>4, <1>5 DEF Publish, WriterStep, WriteGeneration, CrashWriter

\* A non-empty set of numbers up to N has a largest one: of the intervals that
\* reach down from N to its members one is minimal.
LEMMA LargestNumber ==
  ASSUME NEW N \in Nat, NEW S \in SUBSET (0..N), S # {}
  PROVE  \E m \in S : \A k \in S : m >= k
<1> DEFINE R == StrictSubsetOrdering(Nat)
           T == {0..(N - k) : k \in S}
<1>1. T \subseteq FiniteSubsetsOf(Nat) /\ T # {}
  <2>1. \A k \in S : 0..(N - k) \subseteq Nat /\ IsFiniteSet(0..(N - k))
    BY FS_Interval
  <2> QED
    BY <2>1 DEF FiniteSubsetsOf
<1>2. IsWellFoundedOn(R, FiniteSubsetsOf(Nat))
  BY FS_StrictSubsetOrderingWellFounded
<1>3. PICK x \in T : \A y \in T : ~(<<y, x>> \in R)
  <2> HIDE DEF R, T
  <2> QED
    BY <1>1, <1>2, WFMin
<1>4. PICK m \in S : x = 0..(N - m)
  BY <1>3
<1>5. ASSUME NEW k \in S, k > m PROVE FALSE
  <2>1. 0..(N - k) \subseteq 0..(N - m) /\ (N - m) \in x /\ (N - m) \notin 0..(N - k)
    BY <1>4, <1>5
  <2>2. <<0..(N - k), x>> \in R
    BY <2>1, <1>4 DEF StrictSubsetOrdering
  <2> QED
    BY <1>3, <2>2
<1> QED
  BY <1>5

\* The events a scan returns, whether or not the torn tail is one of them.
LEMMA ScanFacts ==
  ASSUME TypeOK, NEW found \in SUBSET Event, NEW n
  PROVE  Scan(found, n) \subseteq Event
<1> DEFINE whole == IF torn \in Event THEN Append(log, torn) ELSE log
<1>1. whole \in Seq(Event)
  BY AppendProperties DEF TypeOK
<1>2. \A i \in 1..Len(whole) : whole[i] \in Event
  BY <1>1, ElementOfSeq, LenProperties
<1> HIDE DEF whole
<1>3. \A newer \in SUBSET (1..Len(whole)) : \A page \in SUBSET newer :
        found \cup {whole[i] : i \in page} \subseteq Event
  BY <1>2
<1> QED
  BY <1>3 DEF Scan, whole

LEMMA ReadPreserves ==
  ASSUME LogInv, NEW r \in Readers, Read(r) PROVE LogInv'
<1> USE DEF LogInv
<1>1. UNCHANGED writeVars /\ UNCHANGED tailVars
  BY DEF Read
<1>2. saw' \in [Readers -> SUBSET Event]
  <2>1. Scan(saw[r], after[r]) \subseteq Event
    BY ScanFacts DEF WriteInv, TypeOK
  <2> QED
    BY <2>1 DEF Read, WriteInv, TypeOK
<1>3. after' \in [Readers -> 0..MaxSeq]
  <2> DEFINE new == saw'[r] \ saw[r]
             newest == CHOOSE e \in new : \A f \in new : e.seq >= f.seq
  <2>1. new \subseteq Event
    BY <1>2
  <2>2. after' = [after EXCEPT ![r] = IF new = {} THEN @ ELSE newest.seq]
    BY DEF Read
  <2>3. ASSUME new # {} PROVE newest \in new
    <3> DEFINE numbers == {e.seq : e \in new}
    <3>1. numbers \in SUBSET (0..MaxSeq) /\ numbers # {}
      BY <2>1, <2>3, EventNumber
    <3>2. \E m \in numbers : \A k \in numbers : m >= k
      <4> HIDE DEF numbers
      <4> QED
        BY <3>1, BoundAssumption, LargestNumber
    <3>3. \E e \in new : \A f \in new : e.seq >= f.seq
      BY <3>2
    <3> QED
      BY <3>3
  <2>4. new # {} => newest.seq \in 0..MaxSeq
    BY <2>1, <2>3, EventNumber
  <2> HIDE DEF new, newest
  <2> QED
    BY <2>2, <2>4 DEF WriteInv, TypeOK
<1>4. WriteInv'
  <2>1. /\ cursor' \in [Tailers -> Cursor]
        /\ openGen' \in [Tailers -> Nat \cup {Nothing}]
        /\ last' \in [Tailers -> 0..MaxSeq]
        /\ got' \in [Tailers -> SUBSET Event]
        /\ aliased' \in [Tailers -> BOOLEAN]
        /\ restarts' \in [Tailers -> 0..MaxRestarts]
    BY <1>1 DEF WriteInv, TypeOK
  <2> QED
    BY <1>1, <1>2, <1>3, <2>1, ReadersLeaveWrites
<1> QED
  BY <1>1, <1>4 DEF TailInv, TailKnows, LastSequence

LEMMA NextLogInv == LogInv /\ [Next]_vars => LogInv'
<1> SUFFICES ASSUME LogInv, [Next]_vars PROVE LogInv'
  OBVIOUS
<1> USE DEF LogInv
<1>1. ASSUME NEW r \in Requests, Publish(r) PROVE LogInv'
  BY <1>1, PublishPreserves, WriterLeavesTails DEF Publish
<1>2. CASE AppendLine
  BY <1>2, AppendPreserves, WriterLeavesTails DEF AppendLine, WriterStep
<1>3. CASE WriteCounter
  BY <1>3, CounterPreserves, WriterLeavesTails DEF WriteCounter, WriterStep
<1>4. CASE Compact
  BY <1>4, CompactPreserves, WriterLeavesTails DEF Compact, WriterStep
<1>5. CASE WriteGeneration \/ CrashWriter
  BY <1>5, GenerationPreserves, WriterLeavesTails DEF WriteGeneration, CrashWriter, WriterStep
<1>6. ASSUME NEW c \in Tailers, OpenTail(c) \/ RestartTail(c) PROVE LogInv'
  BY <1>6, OtherReadersPreserve
<1>7. ASSUME NEW c \in Tailers, ReadTail(c) PROVE LogInv'
  BY <1>7, ReadTailPreserves
<1>8. ASSUME NEW r \in Readers, Read(r) PROVE LogInv'
  BY <1>8, ReadPreserves
<1>9. CASE UNCHANGED vars
  <2>1. UNCHANGED writeVars /\ UNCHANGED tailVars /\ UNCHANGED readVars
    BY <1>9 DEF vars
  <2>2. WriteInv'
    <3>1. /\ cursor' \in [Tailers -> Cursor]
          /\ openGen' \in [Tailers -> Nat \cup {Nothing}]
          /\ last' \in [Tailers -> 0..MaxSeq]
          /\ got' \in [Tailers -> SUBSET Event]
          /\ aliased' \in [Tailers -> BOOLEAN]
          /\ restarts' \in [Tailers -> 0..MaxRestarts]
          /\ after' \in [Readers -> 0..MaxSeq]
          /\ saw' \in [Readers -> SUBSET Event]
      BY <2>1 DEF WriteInv, TypeOK
    <3> QED
      BY <2>1, <3>1, ReadersLeaveWrites
  <2> QED
    BY <2>1, <2>2 DEF TailInv, TailKnows, LastSequence
<1> QED
  BY <1>1, <1>2, <1>3, <1>4, <1>5, <1>6, <1>7, <1>8, <1>9 DEF Next, WriterStep

-----------------------------------------------------------------------------
(* The readers of read({ after }) *)

\* What is left of an interrupted append carries the next number, if any.
TornKnows ==
  /\ torn # Nothing => writer = Idle
  /\ torn \in Event => torn.seq = NextSequence

\* A cursor is at most one past the log, and there only after a torn line.
ReaderKnows(r) ==
  /\ after[r] <= NextSequence
  /\ \A f \in saw[r] : f.seq <= after[r]
  /\ \A i \in 1..Len(log) :
       log[i].seq <= after[r] => \E f \in saw[r] : f.seq = log[i].seq
  /\ after[r] = NextSequence => \E f \in saw[r] : f.seq = NextSequence

ReadInv == TornKnows /\ \A r \in Readers : ReaderKnows(r)

LEMMA InitReadInv == Init => ReadInv
<1> SUFFICES ASSUME Init PROVE ReadInv
  OBVIOUS
<1>1. Len(log) = 0 /\ NextSequence = 1
  BY EmptySeq DEF Init, NextSequence, LastSequence, Larger
<1> QED
  BY <1>1, TornAssumption DEF Init, ReadInv, TornKnows, ReaderKnows

\* A step that keeps the lines, the next number and the readers keeps what
\* they know.
LEMMA SameLinesSameReaders ==
  ASSUME ReadInv, UNCHANGED log, NextSequence' = NextSequence, UNCHANGED readVars
  PROVE  \A r \in Readers : ReaderKnows(r)'
BY DEF ReadInv, ReaderKnows

LEMMA WriterKeepsReaders ==
  ASSUME WriteInv, ReadInv, WriterStep \/ CrashWriter \/ \E r \in Requests : Publish(r)
  PROVE  ReadInv'
<1>1. CASE \E r \in Requests : Publish(r)
  <2>1. UNCHANGED log /\ NextSequence' = NextSequence /\ UNCHANGED readVars
    BY <1>1 DEF Publish, NextSequence, LastSequence
  <2>2. torn' = Nothing
    BY <1>1 DEF Publish
  <2> QED
    BY <2>1, <2>2, SameLinesSameReaders, TornAssumption DEF ReadInv, TornKnows
<1>2. CASE AppendLine
  <2>1. /\ writer # Idle /\ writer.event \in Event
        /\ writer.event.seq = NextSequence
    BY <1>2 DEF AppendLine, WriteInv, WriterKnows, TypeOK, Idle, Publishing
  <2>2. /\ Len(log') = Len(log) + 1
        /\ \A i \in 1..Len(log) : log'[i] = log[i]
        /\ log'[Len(log) + 1] = writer.event
        /\ log' # <<>>
    BY <1>2, <2>1, AppendProperties DEF AppendLine, WriteInv, TypeOK
  <2>3. /\ Len(log) \in Nat /\ NextSequence \in Nat /\ counter < NextSequence
        /\ counter \in Nat /\ counter' = counter /\ UNCHANGED readVars
        /\ \A i \in 1..Len(log) : log[i] \in Event
    BY <1>2, NextSequenceFacts, BoundAssumption DEF AppendLine, WriteInv, TypeOK
  <2>4. NextSequence' = NextSequence + 1
    <3>1. LastSequence' = NextSequence
      BY <2>1, <2>2 DEF LastSequence
    <3> QED
      BY <3>1, <2>3 DEF NextSequence, Larger
  <2>5. ASSUME NEW r \in Readers PROVE ReaderKnows(r)'
    <3>1. after[r] \in Nat /\ after' = after /\ saw' = saw
      BY <2>3, BoundAssumption DEF WriteInv, TypeOK
    <3>2. ReaderKnows(r)
      BY DEF ReadInv
    <3>3. ASSUME NEW i \in 1..Len(log'), log'[i].seq <= after[r]
          PROVE  \E f \in saw[r] : f.seq = log'[i].seq
      <4>1. CASE i \in 1..Len(log)
        BY <4>1, <3>2, <3>3, <2>2 DEF ReaderKnows
      <4>2. CASE i = Len(log) + 1
        BY <4>2, <3>1, <3>2, <3>3, <2>1, <2>2, <2>3 DEF ReaderKnows
      <4> QED
        BY <4>1, <4>2, <2>2, <2>3
    <3> QED
      BY <3>1, <3>2, <3>3, <2>3, <2>4 DEF ReaderKnows
  <2>6. torn' = Nothing
    BY <1>2, <2>1 DEF AppendLine, ReadInv, TornKnows
  <2> QED
    BY <2>5, <2>6, TornAssumption DEF ReadInv, TornKnows
<1>3. CASE WriteCounter
  <2>1. UNCHANGED <<log, torn>> /\ UNCHANGED readVars /\ writer.at = "counter"
    BY <1>3 DEF WriteCounter
  <2>2. torn' = Nothing
    BY <2>1 DEF ReadInv, TornKnows, Idle
  <2>3. NextSequence' = NextSequence
    <3>1. /\ LastSequence' = LastSequence /\ counter' = LastSequence
          /\ counter <= LastSequence /\ LastSequence \in Nat /\ counter \in Nat
      BY <1>3, <2>1, NextSequenceFacts, BoundAssumption
         DEF WriteCounter, WriteInv, WriterKnows, LastSequence, TypeOK
    <3> QED
      BY <3>1 DEF NextSequence, Larger
  <2> QED
    BY <2>1, <2>2, <2>3, SameLinesSameReaders, TornAssumption DEF ReadInv, TornKnows
<1>4. CASE Compact
  <2>1. PICK d \in 1..Len(log) : log' = SubSeq(log, d + 1, Len(log))
    BY <1>4 DEF Compact
  <2>2. /\ log' \in Seq(Event) /\ Len(log') = Len(log) - d
        /\ \A i \in 1..(Len(log) - d) : log'[i] = log[i + d]
    BY <2>1, SuffixFacts DEF WriteInv, TypeOK
  <2>3. /\ counter' = counter /\ counter \in Nat /\ counter >= LastSequence
        /\ LastSequence \in Nat /\ Len(log) \in Nat
        /\ UNCHANGED torn /\ UNCHANGED readVars /\ writer.at = "compact"
    <3>1. /\ UNCHANGED <<counter, torn>> /\ UNCHANGED readVars
          /\ writer.at = "compact"
      BY <1>4 DEF Compact
    <3>2. counter >= LastSequence
      BY <3>1 DEF WriteInv, WriterKnows
    <3>3. counter \in Nat /\ LastSequence \in Nat /\ Len(log) \in Nat
      BY NextSequenceFacts, BoundAssumption DEF WriteInv, TypeOK
    <3> QED
      BY <3>1, <3>2, <3>3
  <2>4. LastSequence' = 0 \/ LastSequence' = LastSequence
    <3>1. CASE log' = <<>>
      BY <3>1 DEF LastSequence
    <3>2. CASE log' # <<>>
      <4>1. Len(log') \in 1..(Len(log) - d) /\ Len(log') + d = Len(log)
        BY <2>2, <2>3, <3>2, EmptySeq
      <4>2. log'[Len(log')] = log[Len(log)] /\ log # <<>>
        BY <2>2, <4>1, EmptySeq
      <4> QED
        BY <4>2, <3>2 DEF LastSequence
    <3> QED
      BY <3>1, <3>2
  <2>5. NextSequence' = NextSequence
    BY <2>3, <2>4 DEF NextSequence, Larger
  <2>6. ASSUME NEW r \in Readers PROVE ReaderKnows(r)'
    <3>1. ReaderKnows(r)
      BY DEF ReadInv
    <3>2. \A i \in 1..Len(log') : i + d \in 1..Len(log)
      BY <2>2, <2>3
    <3>3. \A i \in 1..Len(log') : log'[i] = log[i + d]
      BY <2>2
    <3> QED
      BY <3>1, <3>2, <3>3, <2>3, <2>5 DEF ReaderKnows
  <2>7. torn' = Nothing
    BY <2>3 DEF ReadInv, TornKnows, Idle
  <2> QED
    BY <2>6, <2>7, TornAssumption DEF ReadInv, TornKnows
<1>5. CASE WriteGeneration
  <2>1. UNCHANGED <<log, torn, counter>> /\ UNCHANGED readVars /\ writer.at = "generation"
    BY <1>5 DEF WriteGeneration
  <2>2. NextSequence' = NextSequence
    BY <2>1 DEF NextSequence, LastSequence
  <2>3. torn' = Nothing
    BY <2>1 DEF ReadInv, TornKnows, Idle
  <2> QED
    BY <2>1, <2>2, <2>3, SameLinesSameReaders, TornAssumption DEF ReadInv, TornKnows
<1>6. CASE CrashWriter
  <2>1. UNCHANGED <<log, counter>> /\ UNCHANGED readVars /\ writer' = Idle
    BY <1>6 DEF CrashWriter
  <2>2. NextSequence' = NextSequence
    BY <2>1 DEF NextSequence, LastSequence
  <2>3. torn' \in Event => torn'.seq = NextSequence
    <3>1. CASE writer.at = "append"
      BY <3>1, <1>6, TornAssumption DEF CrashWriter, WriteInv, WriterKnows
    <3>2. CASE writer.at # "append"
      BY <3>2, <1>6 DEF CrashWriter, ReadInv, TornKnows
    <3> QED
      BY <3>1, <3>2
  <2> QED
    BY <2>1, <2>2, <2>3, SameLinesSameReaders DEF ReadInv, TornKnows
<1> QED
  BY <1>1, <1>2, <1>3, <1>4, <1>5, <1>6 DEF WriterStep

\* The lines a scan reads, the torn one included: in increasing order, up to
\* the next number, and the log is where they start.
Whole == IF torn \in Event THEN Append(log, torn) ELSE log

LEMMA WholeFacts ==
  ASSUME WriteInv, TornKnows
  PROVE  /\ Whole \in Seq(Event) /\ Len(Whole) \in Nat
         /\ \A i \in 1..Len(Whole) : Whole[i] \in Event /\ Whole[i].seq <= NextSequence
         /\ \A i, j \in 1..Len(Whole) : i < j => Whole[i].seq < Whole[j].seq
         /\ \A i \in 1..Len(log) : i \in 1..Len(Whole) /\ Whole[i] = log[i]
<1>1. /\ Len(log) \in Nat /\ NextSequence \in Nat /\ LastSequence \in Nat
      /\ NextSequence > LastSequence /\ log \in Seq(Event)
      /\ \A i \in 1..Len(log) : log[i] \in Event /\ log[i].seq \in Nat
  BY NextSequenceFacts, BoundAssumption DEF WriteInv, TypeOK
<1>2. \A i \in 1..Len(log) : log[i].seq <= LastSequence
  <2> SUFFICES ASSUME NEW i \in 1..Len(log) PROVE log[i].seq <= LastSequence
    OBVIOUS
  <2>1. log # <<>> /\ Len(log) \in 1..Len(log)
    BY <1>1, EmptySeq
  <2>2. LastSequence = log[Len(log)].seq
    BY <2>1 DEF LastSequence
  <2> QED
    BY <1>1, <2>1, <2>2 DEF WriteInv, Increasing
<1>3. \A i, j \in 1..Len(log) : i < j => log[i].seq < log[j].seq
  BY DEF WriteInv, Increasing
<1>4. CASE torn \in Event
  <2>1. /\ Whole \in Seq(Event) /\ Len(Whole) = Len(log) + 1
        /\ \A i \in 1..Len(log) : Whole[i] = log[i]
        /\ Whole[Len(log) + 1] = torn
    BY <1>1, <1>4, AppendProperties DEF Whole
  <2>2. torn.seq = NextSequence
    BY <1>4 DEF TornKnows
  <2>3. \A i \in 1..Len(Whole) : i \in 1..Len(log) \/ i = Len(log) + 1
    BY <1>1, <2>1
  <2>4. \A i \in 1..Len(Whole) : Whole[i] \in Event /\ Whole[i].seq <= NextSequence
    BY <1>1, <1>2, <1>4, <2>1, <2>2, <2>3
  <2>5. ASSUME NEW i \in 1..Len(Whole), NEW j \in 1..Len(Whole), i < j
        PROVE  Whole[i].seq < Whole[j].seq
    <3>1. i \in 1..Len(log)
      BY <2>1, <2>5, <1>1
    <3>2. CASE j \in 1..Len(log)
      BY <3>1, <3>2, <2>1, <2>5, <1>3
    <3>3. CASE j = Len(log) + 1
      BY <3>1, <3>3, <2>1, <2>2, <1>1, <1>2
    <3> QED
      BY <3>2, <3>3, <2>3
  <2> QED
    BY <1>1, <2>1, <2>4, <2>5
<1>5. CASE torn \notin Event
  <2>1. Whole = log
    BY <1>5 DEF Whole
  <2> QED
    BY <1>1, <1>2, <1>3, <2>1
<1> QED
  BY <1>4, <1>5

\* The page a scan takes: an event before one of the page is on the page.
Newer(n) == {i \in 1..Len(Whole) : Whole[i].seq > n}
ScanPage(n) == {i \in Newer(n) : Cardinality({j \in Newer(n) : j <= i}) <= Page}

LEMMA PageHasNoGap ==
  ASSUME Len(Whole) \in Nat, NEW n, NEW i \in ScanPage(n), NEW k \in Newer(n), k <= i
  PROVE  k \in ScanPage(n)
<1> DEFINE Upto(m) == {j \in Newer(n) : j <= m}
<1>1. i \in 1..Len(Whole) /\ k \in 1..Len(Whole) /\ Newer(n) \subseteq 1..Len(Whole)
  BY DEF ScanPage, Newer
<1>2. Upto(k) \subseteq Upto(i) /\ Upto(i) \subseteq 1..Len(Whole)
  BY <1>1
<1>3. IsFiniteSet(Upto(i))
  <2>1. IsFiniteSet(1..Len(Whole))
    BY FS_Interval
  <2> QED
    BY <1>2, <2>1, FS_Subset
<1>4. /\ Cardinality(Upto(k)) \in Nat /\ Cardinality(Upto(i)) \in Nat
      /\ Cardinality(Upto(k)) <= Cardinality(Upto(i))
  <2> HIDE DEF Upto
  <2> QED
    BY <1>2, <1>3, FS_Subset, FS_CardinalityType
<1>5. Cardinality(Upto(i)) <= Page
  BY DEF ScanPage
<1> QED
  BY <1>4, <1>5, BoundAssumption DEF ScanPage

LEMMA ReadKeepsReader ==
  ASSUME WriteInv, ReadInv, NEW r \in Readers, Read(r) PROVE ReadInv'
<1> DEFINE new == {Whole[i] : i \in ScanPage(after[r])}
           fresh == saw'[r] \ saw[r]
           newest == CHOOSE e \in fresh : \A f \in fresh : e.seq >= f.seq
<1>1. /\ UNCHANGED <<log, torn, counter, writer>>
      /\ NextSequence' = NextSequence /\ NextSequence \in Nat
      /\ after \in [Readers -> 0..MaxSeq] /\ saw \in [Readers -> SUBSET Event]
      /\ after[r] \in Nat
  BY NextSequenceFacts, BoundAssumption DEF Read, WriteInv, TypeOK, NextSequence, LastSequence
<1>2. /\ Len(Whole) \in Nat
      /\ \A i \in 1..Len(Whole) : Whole[i] \in Event /\ Whole[i].seq <= NextSequence
      /\ \A i, j \in 1..Len(Whole) : i < j => Whole[i].seq < Whole[j].seq
      /\ \A i \in 1..Len(log) : i \in 1..Len(Whole) /\ Whole[i] = log[i]
  BY WholeFacts DEF ReadInv
<1>3. ReaderKnows(r)
  BY DEF ReadInv
<1>4. /\ new \subseteq Event
      /\ \A e \in new : e.seq > after[r] /\ e.seq <= NextSequence
  BY <1>2 DEF ScanPage, Newer
<1>5. Scan(saw[r], after[r]) = saw[r] \cup new
  BY DEF Scan, Whole, ScanPage, Newer
<1>6. saw' = [saw EXCEPT ![r] = saw[r] \cup new]
  <2> HIDE DEF new
  <2> QED
    BY <1>5 DEF Read
<1>7. fresh = new
  <2>1. \A e \in new : e \notin saw[r]
    <3> SUFFICES ASSUME NEW e \in new, e \in saw[r] PROVE FALSE
      OBVIOUS
    <3>1. e.seq > after[r] /\ e.seq \in Nat
      BY <1>4, EventNumber
    <3>2. e.seq <= after[r]
      BY <1>3 DEF ReaderKnows
    <3> QED
      BY <3>1, <3>2, <1>1
  <2> HIDE DEF new
  <2> QED
    BY <2>1, <1>1, <1>6
<1>8. after' = [after EXCEPT ![r] = IF fresh = {} THEN @ ELSE newest.seq]
  BY DEF Read
<1>9. ASSUME new # {} PROVE newest \in new /\ \A f \in new : newest.seq >= f.seq
  <2> DEFINE numbers == {e.seq : e \in new}
  <2> HIDE DEF new
  <2>1. numbers \in SUBSET (0..MaxSeq) /\ numbers # {}
    BY <1>4, <1>9, EventNumber
  <2>2. \E m \in numbers : \A k \in numbers : m >= k
    <3> HIDE DEF numbers
    <3> QED
      BY <2>1, BoundAssumption, LargestNumber
  <2>3. \E e \in fresh : \A f \in fresh : e.seq >= f.seq
    BY <1>7, <2>2
  <2>4. newest \in fresh /\ \A f \in fresh : newest.seq >= f.seq
    <3> HIDE DEF fresh
    <3> QED
      BY <2>3
  <2> HIDE DEF fresh, newest
  <2> QED
    BY <1>7, <2>4
<1>10. CASE new = {}
  <2>1. saw' = saw /\ after' = after
    <3> HIDE DEF new, fresh, newest
    <3> QED
      BY <1>1, <1>6, <1>7, <1>8, <1>10
  <2> QED
    BY <1>1, <2>1, SameLinesSameReaders DEF ReadInv, TornKnows
<1>11. CASE new # {}
  <2>1. PICK top \in ScanPage(after[r]) : newest = Whole[top]
    BY <1>9, <1>11
  <2>2. /\ newest \in new /\ newest.seq \in Nat /\ newest \in Event
        /\ newest.seq > after[r] /\ newest.seq <= NextSequence
    <3> HIDE DEF new, newest
    <3> QED
      BY <1>4, <1>9, <1>11, EventNumber
  <2>3. saw'[r] = saw[r] \cup new /\ after'[r] = newest.seq
    <3> HIDE DEF new, fresh, newest
    <3> QED
      BY <1>1, <1>6, <1>7, <1>8, <1>11
  <2>4. \A f \in saw'[r] : f.seq <= after'[r]
    <3> SUFFICES ASSUME NEW f \in saw[r] \cup new PROVE f.seq <= newest.seq
      BY <2>3
    <3>1. CASE f \in saw[r]
      <4>1. f.seq <= after[r] /\ f.seq \in Nat
        BY <3>1, <1>1, <1>3, EventNumber DEF ReaderKnows
      <4> HIDE DEF newest
      <4> QED
        BY <4>1, <2>2, <1>1
    <3>2. CASE f \in new
      <4>1. newest.seq >= f.seq /\ f.seq \in Nat
        BY <3>2, <1>4, <1>9, <1>11, EventNumber
      <4> HIDE DEF newest
      <4> QED
        BY <4>1, <2>2
    <3> QED
      BY <3>1, <3>2
  <2>5. ASSUME NEW k \in 1..Len(log), log[k].seq <= newest.seq
        PROVE  \E f \in saw[r] \cup new : f.seq = log[k].seq
    <3>1. k \in 1..Len(Whole) /\ Whole[k] = log[k] /\ log[k].seq \in Nat
      BY <1>2, EventNumber
    <3>2. CASE log[k].seq <= after[r]
      BY <3>2, <1>3 DEF ReaderKnows
    <3>3. CASE log[k].seq > after[r]
      <4>1. k \in Newer(after[r]) /\ top \in 1..Len(Whole)
        BY <3>1, <3>3, <2>1 DEF Newer, ScanPage
      <4>2. k <= top
        <5> SUFFICES ASSUME top < k PROVE FALSE
          BY <4>1, <3>1, <1>2
        <5>1. Whole[top].seq < Whole[k].seq
          BY <4>1, <3>1, <1>2
        <5>2. Whole[top].seq = newest.seq
          BY <2>1
        <5> HIDE DEF newest
        <5> QED
          BY <5>1, <5>2, <2>2, <2>5, <3>1
      <4>3. k \in ScanPage(after[r])
        BY <4>1, <4>2, <1>2, PageHasNoGap
      <4> QED
        BY <4>3, <3>1
    <3> QED
      BY <3>1, <3>2, <3>3, <1>1
  <2>6. ReaderKnows(r)'
    <3> HIDE DEF new, newest
    <3>1. \A k \in 1..Len(log') : log'[k].seq <= after'[r] =>
             \E f \in saw'[r] : f.seq = log'[k].seq
      BY <1>1, <2>3, <2>5
    <3>2. after'[r] = NextSequence => \E f \in saw'[r] : f.seq = NextSequence
      BY <2>2, <2>3
    <3> QED
      BY <1>1, <2>2, <2>3, <2>4, <3>1, <3>2 DEF ReaderKnows
  <2>7. ASSUME NEW q \in Readers, q # r PROVE ReaderKnows(q)'
    <3> HIDE DEF new, fresh, newest
    <3>1. saw'[q] = saw[q] /\ after'[q] = after[q]
      BY <2>7, <1>1, <1>6, <1>8
    <3> QED
      BY <3>1, <1>1 DEF ReadInv, ReaderKnows
  <2> QED
    BY <1>1, <2>6, <2>7 DEF ReadInv, TornKnows
<1> QED
  BY <1>10, <1>11

LEMMA NextReadInv == LogInv /\ ReadInv /\ [Next]_vars => ReadInv'
<1> SUFFICES ASSUME WriteInv, ReadInv, [Next]_vars PROVE ReadInv'
  BY DEF LogInv
<1>1. CASE WriterStep \/ CrashWriter \/ \E r \in Requests : Publish(r)
  BY <1>1, WriterKeepsReaders
<1>2. ASSUME NEW r \in Readers, Read(r) PROVE ReadInv'
  BY <1>2, ReadKeepsReader
<1>3. CASE UNCHANGED writeVars /\ UNCHANGED readVars
  <2>1. UNCHANGED <<log, torn, counter, writer>> /\ UNCHANGED readVars
    BY <1>3
  <2>2. NextSequence' = NextSequence
    BY <2>1 DEF NextSequence, LastSequence
  <2> QED
    BY <2>1, <2>2, SameLinesSameReaders DEF ReadInv, TornKnows
<1>4. ASSUME NEW c \in Tailers, OpenTail(c) \/ ReadTail(c) \/ RestartTail(c)
      PROVE  UNCHANGED writeVars /\ UNCHANGED readVars
  BY <1>4 DEF OpenTail, ReadTail, RestartTail
<1> QED
  BY <1>1, <1>2, <1>3, <1>4 DEF Next, vars

-----------------------------------------------------------------------------
(* The theorems *)

\* The inductive invariant: the writer's steps know the number they were
\* given, and a consumer's cursor knows what lies before it.
THEOREM LogInvariant == Spec => []LogInv
<1>1. Init => LogInv
  BY InitLogInv
<1>2. LogInv /\ [Next]_vars => LogInv'
  BY NextLogInv
<1> QED
  BY <1>1, <1>2, PTL DEF Spec

\* The log, its counter, the writer and every consumer keep their shape.
THEOREM LogTypeCorrect == Spec => []TypeOK
<1>1. LogInv => TypeOK
  BY DEF LogInv, WriteInv
<1> QED
  BY <1>1, LogInvariant, PTL

\* publish never gives a number out twice, across crashes and compactions.
THEOREM LogSequenceUnique == Spec => []SequenceNamesOneEvent
<1>1. LogInv => SequenceNamesOneEvent
  BY DEF LogInv, WriteInv, NumbersUnique, Increasing, SequenceNamesOneEvent
<1> QED
  BY <1>1, LogInvariant, PTL

\* A retry by id never leaves two retained events of that id.
THEOREM LogIdsOnce == Spec => []IdsRetainedOnce
<1>1. LogInv => IdsRetainedOnce
  BY DEF LogInv, WriteInv
<1> QED
  BY <1>1, LogInvariant, PTL

\* A consumer of tail() whose cursor was never taken for one of a newer file
\* has handled every retained event up to the last it handled.
THEOREM LogTailMissesNothing == Spec => []TailMissesNothing
<1>1. LogInv => TailMissesNothing
  BY DEF LogInv, TailInv, TailKnows, TailMissesNothing
<1> QED
  BY <1>1, LogInvariant, PTL

\* A consumer of read({ after }) has seen an event of every retained number up
\* to its cursor, although a scan may take a torn line for an event and the
\* number of that line is then given to another.
THEOREM LogReadSkipsNothing == Spec => []ReadSkipsNothing
<1>1. Init => ReadInv
  BY InitReadInv
<1>2. LogInv /\ ReadInv /\ [Next]_vars => ReadInv'
  BY NextReadInv
<1>3. ReadInv => ReadSkipsNothing
  BY DEF ReadInv, ReaderKnows, ReadSkipsNothing, Lines
<1> QED
  BY <1>1, <1>2, <1>3, LogInvariant, PTL DEF Spec
=============================================================================
