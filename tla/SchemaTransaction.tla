-------------------------- MODULE SchemaTransaction -------------------------
(***************************************************************************)
(* Schema transactions: src/src/schema/controller.ts.                      *)
(*                                                                         *)
(* A transaction goes from a hypothesis over a certificate to a commit     *)
(* that changes files of the workspace.  Its hypothesis, its certificate   *)
(* and the workspace record are entries of the mesh's shared state, which  *)
(* is used by its contract (conditional puts); its journal and the commit  *)
(* lock are files.  A host is one process: it may die at any time, and a   *)
(* process that starts recovers the journals that were left.  One action   *)
(* stands for what a process does between two awaits, split where another  *)
(* process can see, or a crash can leave, what is half done.               *)
(***************************************************************************)
EXTENDS Naturals, FiniteSets

CONSTANTS
  Hosts,            \* processes; each starts once and dies once
  Transactions,
  Files,
  Touches,          \* of each transaction, the files its operations name
  Original, Edited, \* contents that no transaction wrote
  None,
  MaxWithdrawals,   \* bound: calls of abort and ends of an invocation
  MaxEdits,         \* bound: edits from outside
  MaxFailedWrites,  \* bound: writes of a finished journal that fail and are ignored
  MaxFailedRestores \* bound: before images that cannot be written back

ASSUME ValueAssumption == {None, Original, Edited} \cap Transactions = {} /\ None \notin Hosts
ASSUME TouchesAssumption == Touches \in [Transactions -> (SUBSET Files) \ {{}}]
ASSUME BoundAssumption ==
  MaxWithdrawals \in Nat /\ MaxEdits \in Nat /\ MaxFailedWrites \in Nat /\ MaxFailedRestores \in Nat

VARIABLES
  host,       \* of each process: "off", "starting", "up" or "dead"
  recovery,   \* of each starting process, where #recoverJournals is
  file,       \* of each file of the workspace, its content
  record,     \* the workspace record: generation, last outcome and its transaction
  lock,       \* the commit lock: who created it, and whether the pid is in it
  journal,    \* of each transaction, the status and before images in its journal
  hypothesis, \* of each transaction, its status, and the generation and files it is bound to
  certificate,\* of each transaction, the status of its certificate
  invocation, \* of each transaction, its fabric_exec invocation: the process, and how far it has ended
  request,    \* of each transaction, the verify or abort under way
  call,       \* of each transaction, the commit under way
  commits,    \* history: the transactions whose put of the workspace record succeeded
  trespass,   \* history: whether somebody has entered where another was at work
  faults      \* how many of the bounded things there were

protocolVars == <<hypothesis, certificate, invocation, request>>
hostVars == <<host, recovery>>
vars == <<hostVars, file, record, lock, journal, protocolVars, call, commits, trespass, faults>>

(* State formulae *)

Running(t) == invocation[t].by # None /\ host[invocation[t].by] = "up"
Alive(h) == host[h] \in {"starting", "up"}
AtRest == {"none", "over"}
Committing == {t \in Transactions : call[t].at \notin AtRest}
Unfinished == {t \in Transactions : journal[t].status = "applying"}
HalfDone == Unfinished \ commits
RecoveryAt(h, where) == host[h] = "starting" /\ recovery[h].at = where
Restoring == {h \in Hosts : RecoveryAt(h, "restoring")}

\* What the code lets through though another is at work: the exception of the properties.
Trespass(when) == trespass' = (trespass \/ when)

Fault(kind, bound) == faults[kind] < bound /\ faults' = [faults EXCEPT ![kind] = @ + 1]

NoCall == [at |-> "none", todo |-> {}, clean |-> TRUE, saw |-> None]
NoRequest == [at |-> "none", read |-> "none"]
NoLock == [by |-> None, pid |-> FALSE]
Asleep == [at |-> "lock", saw |-> NoLock, left |-> {}, of |-> None, todo |-> {}, clean |-> TRUE]

Init ==
  /\ host = [h \in Hosts |-> "off"]
  /\ recovery = [h \in Hosts |-> Asleep]
  /\ file = [f \in Files |-> Original]
  /\ record = [generation |-> 0, outcome |-> "none", last |-> None]
  /\ lock = NoLock
  /\ journal = [t \in Transactions |-> [status |-> "none", before |-> <<>>]]
  /\ hypothesis = [t \in Transactions |-> [status |-> "none", generation |-> 0, files |-> <<>>]]
  /\ certificate = [t \in Transactions |-> "none"]
  /\ invocation = [t \in Transactions |-> [by |-> None, ended |-> "no"]]
  /\ request = [t \in Transactions |-> NoRequest]
  /\ call = [t \in Transactions |-> NoCall]
  /\ commits = {} /\ trespass = FALSE
  /\ faults = [withdrawal |-> 0, edit |-> 0, write |-> 0, restore |-> 0]

-----------------------------------------------------------------------------
(* Hypothesis, certificate, abort and the end of the invocation *)

InUse(t) == Running(t) /\ invocation[t].ended = "no"
Asks(t, what) == request' = [request EXCEPT ![t] = what]
Becomes(t, status) == hypothesis' = [hypothesis EXCEPT ![t].status = status]
Certifies(t, status) == certificate' = [certificate EXCEPT ![t] = status]

Hypothesize(t, h) ==
  /\ hypothesis[t].status = "none" /\ host[h] = "up"
  /\ hypothesis' = [hypothesis EXCEPT
       ![t] = [status |-> "active", generation |-> record.generation, files |-> file]]
  /\ invocation' = [invocation EXCEPT ![t].by = h]
  /\ UNCHANGED <<hostVars, file, record, lock, journal, certificate, request, call, commits, trespass, faults>>

\* Nothing has changed since the hypothesis was recorded.
StillBound(t) == record.generation = hypothesis[t].generation /\ file = hypothesis[t].files

\* verify, up to the await of the evidence
VerifyBegins(t) ==
  /\ InUse(t) /\ request[t] = NoRequest
  /\ hypothesis[t].status = "active" /\ StillBound(t)
  /\ Asks(t, [at |-> "evidence", read |-> "active"])
  /\ UNCHANGED <<hostVars, file, record, lock, journal, hypothesis, certificate, invocation, call, commits, trespass, faults>>

\* The evidence is confirmed, the files are the same, the certificate is stored.
VerifyIssues(t) ==
  /\ Running(t) /\ request[t].at = "evidence" /\ file = hypothesis[t].files
  /\ Certifies(t, "active")
  /\ Asks(t, [at |-> "issued", read |-> "active"])
  /\ UNCHANGED <<hostVars, file, record, lock, journal, hypothesis, invocation, call, commits, trespass, faults>>

VerifyFails(t) ==
  /\ Running(t) /\ request[t].at = "evidence"
  /\ Asks(t, NoRequest)
  /\ UNCHANGED <<hostVars, file, record, lock, journal, hypothesis, certificate, invocation, call, commits, trespass, faults>>

\* The put of the hypothesis with the version that verify read; if it fails, the
\* certificate is withdrawn.
VerifyEnds(t) ==
  /\ Running(t) /\ request[t].at = "issued"
  /\ \/ hypothesis[t].status = request[t].read /\ Becomes(t, "verified") /\ UNCHANGED certificate
     \/ hypothesis[t].status # request[t].read /\ Certifies(t, "aborted") /\ UNCHANGED hypothesis
  /\ Asks(t, NoRequest)
  /\ UNCHANGED <<hostVars, file, record, lock, journal, invocation, call, commits, trespass, faults>>

\* verify has answered with the certificate.
Issued(t) == certificate[t] # "none" /\ request[t].at # "issued"

\* abort, up to the put of the hypothesis: with the certificate, which must be
\* active, or without it
AbortBegins(t) ==
  /\ InUse(t) /\ request[t] = NoRequest /\ Fault("withdrawal", MaxWithdrawals)
  /\ hypothesis[t].status \notin {"none", "committed"}
  /\ \/ Issued(t) /\ certificate[t] = "active" /\ Certifies(t, "aborted")
     \/ UNCHANGED certificate
  /\ Asks(t, [at |-> "abort", read |-> hypothesis[t].status])
  /\ UNCHANGED <<hostVars, file, record, lock, journal, hypothesis, invocation, call, commits, trespass>>

AbortEnds(t) ==
  /\ Running(t) /\ request[t].at = "abort"
  /\ IF hypothesis[t].status = request[t].read THEN Becomes(t, "aborted") ELSE UNCHANGED hypothesis
  /\ Asks(t, NoRequest)
  /\ UNCHANGED <<hostVars, file, record, lock, journal, certificate, invocation, call, commits, trespass, faults>>

\* endInvocation: the certificate first, if verify has answered, ...
EndCertificate(t) ==
  /\ InUse(t) /\ Fault("withdrawal", MaxWithdrawals)
  /\ IF Issued(t) /\ certificate[t] = "active"
     THEN Certifies(t, "abandoned") ELSE UNCHANGED certificate
  /\ invocation' = [invocation EXCEPT ![t].ended = "certificate"]
  /\ UNCHANGED <<hostVars, file, record, lock, journal, hypothesis, request, call, commits, trespass>>

\* ... then the hypothesis.
EndHypothesis(t) ==
  /\ Running(t) /\ invocation[t].ended = "certificate"
  /\ IF hypothesis[t].status \in {"active", "verified"}
     THEN Becomes(t, "abandoned") ELSE UNCHANGED hypothesis
  /\ invocation' = [invocation EXCEPT ![t].ended = "yes"]
  /\ UNCHANGED <<hostVars, file, record, lock, journal, certificate, request, call, commits, trespass, faults>>

-----------------------------------------------------------------------------
(* Commit *)

At(t, where) == Running(t) /\ call[t].at = where
Goes(t, where) == call' = [call EXCEPT ![t].at = where]
Journals(t, status) == journal' = [journal EXCEPT ![t].status = status]
SetFile(f, content) == file' = [file EXCEPT ![f] = content]

\* openSync with "wx": the lock exists, its pid is not written yet.  There may be
\* files that a commit has left half done, and whose lock recovery has removed.
TakeLock(t) ==
  /\ InUse(t) /\ Issued(t) /\ call[t] = NoCall
  /\ lock = NoLock
  /\ lock' = [by |-> t, pid |-> FALSE]
  /\ Goes(t, "locked")
  /\ Trespass(HalfDone # {})
  /\ UNCHANGED <<hostVars, file, record, journal, protocolVars, commits, faults>>

\* The write goes to the file that was opened, whether or not it still is the lock.
WritePid(t) ==
  /\ At(t, "locked")
  /\ lock' = [lock EXCEPT !.pid = (lock.by = t) \/ @]
  /\ Goes(t, "checking")
  /\ UNCHANGED <<hostVars, file, record, journal, protocolVars, commits, trespass, faults>>

\* What commit checks before it changes anything, but for the certificate's time.
Certified(t) ==
  certificate[t] = "active" /\ hypothesis[t].status = "verified" /\ StillBound(t)

\* The checks, the before images and the journal.
Prepare(t) ==
  /\ At(t, "checking") /\ Certified(t)
  /\ journal' = [journal EXCEPT
       ![t] = [status |-> "prepared", before |-> [f \in Touches[t] |-> file[f]]]]
  /\ Goes(t, "prepared")
  /\ UNCHANGED <<hostVars, file, record, lock, protocolVars, commits, trespass, faults>>

\* A check fails, the certificate has expired, or the request is too large.
Refuse(t) ==
  /\ At(t, "checking")
  /\ Goes(t, "unlock")
  /\ UNCHANGED <<hostVars, file, record, lock, journal, protocolVars, commits, trespass, faults>>

\* mutant: the certificate is consumed whatever has become of it
AnyCertificate(t) == TRUE

\* The certificate's entry still has the version that commit read.
SameCertificate(t) == certificate[t] = "active"

Consume(t) ==
  /\ At(t, "prepared") /\ SameCertificate(t)
  /\ Certifies(t, "consumed")
  /\ Goes(t, "consumed")
  /\ UNCHANGED <<hostVars, file, record, lock, journal, hypothesis, invocation, request, commits, trespass, faults>>

\* The put of the consumed certificate fails.
NotConsumed(t) ==
  /\ At(t, "prepared")
  /\ Goes(t, "unlock")
  /\ UNCHANGED <<hostVars, file, record, lock, journal, protocolVars, commits, trespass, faults>>

Fallen(t) == [call[t] EXCEPT !.at = "restoring", !.todo = Touches[t], !.clean = TRUE, !.saw = None]

\* The journal says applying before the first file changes; the files are compared again.
StartApplying(t) ==
  /\ At(t, "consumed")
  /\ Journals(t, "applying")
  /\ call' = [call EXCEPT ![t] =
       IF file = hypothesis[t].files THEN [@ EXCEPT !.at = "applying", !.todo = Touches[t]] ELSE Fallen(t)]
  /\ UNCHANGED <<hostVars, file, record, lock, protocolVars, commits, trespass, faults>>

\* One operation: the file must be what the certificate's evidence saw.
Apply(t, f) ==
  /\ At(t, "applying") /\ f \in call[t].todo
  /\ file[f] = hypothesis[t].files[f]
  /\ SetFile(f, t)
  /\ call' = [call EXCEPT ![t].todo = @ \ {f}]
  /\ UNCHANGED <<hostVars, record, lock, journal, protocolVars, commits, trespass, faults>>

\* All operations are done and no other file has changed; then the postconditions
\* are awaited.
Applied(t) ==
  /\ At(t, "applying") /\ call[t].todo = {}
  /\ \A f \in Files \ Touches[t] : file[f] = hypothesis[t].files[f]
  /\ call' = [call EXCEPT ![t].at = "postconditions", ![t].saw = file]
  /\ UNCHANGED <<hostVars, file, record, lock, journal, protocolVars, commits, trespass, faults>>

\* The postconditions are confirmed and nothing has changed; the workspace record is read.
Confirm(t) ==
  /\ At(t, "postconditions") /\ file = call[t].saw
  /\ call' = [call EXCEPT ![t].at = "put", ![t].saw = record]
  /\ UNCHANGED <<hostVars, file, record, lock, journal, protocolVars, commits, trespass, faults>>

\* The record names the last outcome only: one that it named before is forgotten, even
\* if the journal of that transaction could not be marked.
Forgets(t) == \E u \in commits : u # t /\ u \in Unfinished

\* The conditional put of the workspace record: the transaction has committed.
PutCommitted(t) ==
  /\ At(t, "put") /\ record = call[t].saw
  /\ record' = [generation |-> hypothesis[t].generation + 1, outcome |-> "committed", last |-> t]
  /\ commits' = commits \cup {t}
  /\ call' = [call EXCEPT ![t].at = "committed", ![t].saw = None]
  /\ Trespass(Forgets(t))
  /\ UNCHANGED <<hostVars, file, lock, journal, protocolVars, faults>>

\* An operation, a drift check, a postcondition or a put fails after the certificate
\* was consumed.
Fails(t) ==
  /\ \E where \in {"consumed", "applying", "postconditions", "put"} : At(t, where)
  /\ call' = [call EXCEPT ![t] = Fallen(t)]
  /\ UNCHANGED <<hostVars, file, record, lock, journal, protocolVars, commits, trespass, faults>>

\* The journal gets its final status; a write that fails is ignored.
Concludes(t, status) ==
  \/ Journals(t, status) /\ UNCHANGED faults
  \/ Fault("write", MaxFailedWrites) /\ UNCHANGED journal

JournalCommitted(t) ==
  /\ At(t, "committed")
  /\ Concludes(t, "committed")
  /\ Goes(t, "hypothesis")
  /\ UNCHANGED <<hostVars, file, record, lock, protocolVars, commits, trespass>>

\* The hypothesis is marked, if nobody has written it since.
Finish(t) ==
  /\ At(t, "hypothesis")
  /\ IF hypothesis[t].status = "verified" THEN Becomes(t, "committed") ELSE UNCHANGED hypothesis
  /\ Goes(t, "unlock")
  /\ UNCHANGED <<hostVars, file, record, lock, journal, certificate, invocation, request, commits, trespass, faults>>

\* A before image is written back, or cannot be.
RestoreOne(t, f) ==
  /\ At(t, "restoring") /\ f \in call[t].todo
  /\ \/ /\ SetFile(f, journal[t].before[f])
        /\ call' = [call EXCEPT ![t].todo = @ \ {f}]
        /\ UNCHANGED faults
     \/ /\ Fault("restore", MaxFailedRestores)
        /\ call' = [call EXCEPT ![t].todo = @ \ {f}, ![t].clean = FALSE]
        /\ UNCHANGED file
  /\ UNCHANGED <<hostVars, record, lock, journal, protocolVars, commits, trespass>>

Outcome(clean) == IF clean THEN "rolled_back" ELSE "quarantined"

Restored(t) ==
  /\ At(t, "restoring") /\ call[t].todo = {}
  /\ Concludes(t, Outcome(call[t].clean))
  /\ Goes(t, "record")
  /\ UNCHANGED <<hostVars, file, record, lock, protocolVars, commits, trespass>>

\* #recordFailedOutcome: a put that fails is ignored.
RecordOutcome(t) ==
  /\ At(t, "record")
  /\ \/ /\ record' = [record EXCEPT !.outcome = Outcome(call[t].clean), !.last = t]
        /\ Trespass(Forgets(t))
     \/ UNCHANGED <<record, trespass>>
  /\ Goes(t, "unlock")
  /\ UNCHANGED <<hostVars, file, lock, journal, protocolVars, commits, faults>>

\* rmSync removes whatever lock there is.  A certificate that was not consumed may
\* be used again.
Unlock(t) ==
  /\ At(t, "unlock")
  /\ lock' = NoLock
  /\ call' = [call EXCEPT ![t] = IF certificate[t] = "consumed" THEN [NoCall EXCEPT !.at = "over"] ELSE NoCall]
  /\ UNCHANGED <<hostVars, file, record, journal, protocolVars, commits, trespass, faults>>

-----------------------------------------------------------------------------
(* Processes *)

Start(h) ==
  /\ host[h] = "off"
  /\ host' = [host EXCEPT ![h] = "starting"]
  /\ UNCHANGED <<recovery, file, record, lock, journal, protocolVars, call, commits, trespass, faults>>

Recovery(h, r) == recovery' = [recovery EXCEPT ![h] = r]

\* mutant: the pid in the lock is not looked at
NobodyAsked == FALSE

LockOwnerLives == lock.pid /\ Alive(invocation[lock.by].by)

\* The owner of the lock lives: nothing is recovered.  It is gone, or the lock has no
\* pid in it: the lock will be removed.
ReadLock(h) ==
  /\ RecoveryAt(h, "lock")
  /\ IF lock # NoLock /\ LockOwnerLives
     THEN host' = [host EXCEPT ![h] = "up"] /\ UNCHANGED recovery
     ELSE /\ Recovery(h, [recovery[h] EXCEPT
               !.at = IF lock = NoLock THEN "list" ELSE "unlock", !.saw = lock])
          /\ UNCHANGED host
  /\ UNCHANGED <<file, record, lock, journal, protocolVars, call, commits, trespass, faults>>

\* rmSync, on whatever lock there is by now: it may be the lock of a living commit, whose
\* pid was not in it yet or which was taken after the look.
RemoveLock(h) ==
  /\ RecoveryAt(h, "unlock")
  /\ lock' = NoLock
  /\ Trespass(lock.by \in Committing /\ ~(recovery[h].saw.by = lock.by /\ recovery[h].saw.pid))
  /\ Recovery(h, [recovery[h] EXCEPT !.at = "list"])
  /\ UNCHANGED <<host, file, record, journal, protocolVars, call, commits, faults>>

ListJournals(h) ==
  /\ RecoveryAt(h, "list")
  /\ Recovery(h, [recovery[h] EXCEPT !.at = "journals", !.left = {t \in Transactions : journal[t].status # "none"}])
  /\ UNCHANGED <<host, file, record, lock, journal, protocolVars, call, commits, trespass, faults>>

\* mutant: recovery does not look at the workspace record
NeverCommitted(t) == FALSE

RecordedAsCommitted(t) == record.outcome = "committed" /\ record.last = t

\* One journal: only one that says applying matters.  Nobody asks whether its commit
\* lives, or whether another process recovers it.
ReadJournal(h, t) ==
  /\ RecoveryAt(h, "journals") /\ t \in recovery[h].left
  /\ LET rest == [recovery[h] EXCEPT !.left = @ \ {t}] IN
     \/ /\ journal[t].status # "applying"
        /\ Recovery(h, rest) /\ UNCHANGED <<journal, trespass, faults>>
     \/ /\ journal[t].status = "applying" /\ RecordedAsCommitted(t)
        /\ Recovery(h, rest) /\ Concludes(t, "committed") /\ UNCHANGED trespass
     \/ /\ journal[t].status = "applying" /\ ~RecordedAsCommitted(t)
        /\ Recovery(h, [rest EXCEPT !.at = "restoring", !.of = t, !.todo = Touches[t], !.clean = TRUE])
        /\ Trespass(t \in Committing \/ \E g \in Restoring : recovery[g].of = t)
        /\ UNCHANGED <<journal, faults>>
  /\ UNCHANGED <<host, file, record, lock, protocolVars, call, commits>>

RecoverOne(h, f) ==
  /\ RecoveryAt(h, "restoring") /\ f \in recovery[h].todo
  /\ \/ /\ SetFile(f, journal[recovery[h].of].before[f])
        /\ Recovery(h, [recovery[h] EXCEPT !.todo = @ \ {f}])
        /\ UNCHANGED faults
     \/ /\ Fault("restore", MaxFailedRestores)
        /\ Recovery(h, [recovery[h] EXCEPT !.todo = @ \ {f}, !.clean = FALSE])
        /\ UNCHANGED file
  /\ UNCHANGED <<host, record, lock, journal, protocolVars, call, commits, trespass>>

\* A write that fails leaves the journal as it is.
Recovered(h) ==
  /\ RecoveryAt(h, "restoring") /\ recovery[h].todo = {}
  /\ Concludes(recovery[h].of, Outcome(recovery[h].clean))
  /\ Recovery(h, [recovery[h] EXCEPT !.at = "journals", !.of = None])
  /\ UNCHANGED <<host, file, record, lock, protocolVars, call, commits, trespass>>

Started(h) ==
  /\ RecoveryAt(h, "journals") /\ recovery[h].left = {}
  /\ host' = [host EXCEPT ![h] = "up"]
  /\ UNCHANGED <<recovery, file, record, lock, journal, protocolVars, call, commits, trespass, faults>>

\* The files, the lock and the shared state stay; what was under way is gone.
Crash(h) ==
  /\ Alive(h)
  /\ host' = [host EXCEPT ![h] = "dead"]
  /\ recovery' = [recovery EXCEPT ![h] = Asleep]
  /\ call' = [t \in Transactions |-> IF invocation[t].by = h THEN [NoCall EXCEPT !.at = "over"] ELSE call[t]]
  /\ request' = [t \in Transactions |-> IF invocation[t].by = h THEN NoRequest ELSE request[t]]
  /\ UNCHANGED <<file, record, lock, journal, hypothesis, certificate, invocation, commits, trespass, faults>>

\* Somebody outside edits a file that no transaction declares.
Edit(f) ==
  /\ \A t \in Transactions : f \notin Touches[t]
  /\ file[f] # Edited /\ Fault("edit", MaxEdits)
  /\ SetFile(f, Edited)
  /\ UNCHANGED <<hostVars, record, lock, journal, protocolVars, call, commits, trespass>>

-----------------------------------------------------------------------------
Protocol(t) ==
  \/ \E h \in Hosts : Hypothesize(t, h)
  \/ VerifyBegins(t) \/ VerifyIssues(t) \/ VerifyFails(t) \/ VerifyEnds(t)
  \/ AbortBegins(t) \/ AbortEnds(t) \/ EndCertificate(t) \/ EndHypothesis(t)

CommitStep(t) ==
  \/ WritePid(t) \/ Prepare(t) \/ Refuse(t) \/ Consume(t) \/ NotConsumed(t)
  \/ StartApplying(t) \/ (\E f \in Files : Apply(t, f) \/ RestoreOne(t, f))
  \/ Applied(t) \/ Confirm(t) \/ PutCommitted(t) \/ Fails(t)
  \/ JournalCommitted(t) \/ Finish(t) \/ Restored(t) \/ RecordOutcome(t) \/ Unlock(t)

RecoveryStep(h) ==
  \/ ReadLock(h) \/ RemoveLock(h) \/ ListJournals(h)
  \/ \E t \in Transactions : ReadJournal(h, t)
  \/ \E f \in Files : RecoverOne(h, f)
  \/ Recovered(h) \/ Started(h)

Next ==
  \/ \E t \in Transactions : Protocol(t) \/ TakeLock(t) \/ CommitStep(t)
  \/ \E h \in Hosts : Start(h) \/ RecoveryStep(h) \/ Crash(h)
  \/ \E f \in Files : Edit(f)

Spec == Init /\ [][Next]_vars

-----------------------------------------------------------------------------
(* Properties *)

TypeOK ==
  /\ host \in [Hosts -> {"off", "starting", "up", "dead"}]
  /\ file \in [Files -> Transactions \cup {Original, Edited}]
  /\ record \in [generation : Nat, outcome : {"none", "committed", "rolled_back", "quarantined"},
                 last : Transactions \cup {None}]
  /\ lock \in [by : Transactions \cup {None}, pid : BOOLEAN]
  /\ \A t \in Transactions :
       journal[t].status \in {"none", "prepared", "applying", "committed", "rolled_back", "quarantined"}
  /\ certificate \in [Transactions -> {"none", "active", "consumed", "aborted", "abandoned"}]
  /\ commits \subseteq Transactions /\ trespass \in BOOLEAN

\* A transaction whose certificate was withdrawn by abort or by the end of its
\* invocation changes nothing from then on, even if its commit had already been asked for.
WithdrawnChangesNothing ==
  [][\A t \in Transactions : certificate[t] \in {"aborted", "abandoned"} =>
       /\ certificate'[t] # "consumed" /\ t \notin commits'
       /\ journal'[t].status \in {"none", "prepared"}
       /\ \A f \in Files : file'[f] # t]_vars

\* At most one party changes the workspace: a commit under way, which then holds the lock,
\* or one process that recovers; whoever lives, starts and dies meanwhile, until somebody
\* has entered where another was at work.
OneAtATime ==
  ~trespass =>
    /\ \A t \in Committing : lock.by = t
    /\ \A g, h \in Restoring : g = h
    /\ Committing = {} \/ Restoring = {}

\* A transaction that has committed is never rolled back, by itself or by recovery, until
\* somebody has entered where another was at work.
CommittedStays ==
  [][trespass' \/ \A t \in commits : journal'[t].status \notin {"rolled_back", "quarantined"}]_vars

\* The files as a process that recovers would leave them: where a transaction that has
\* not committed is between applying and the end of its rollback, its before images.
View == [f \in Files |->
  LET undo == {t \in Unfinished : t \notin commits /\ f \in Touches[t]} IN
  IF undo = {} THEN file[f] ELSE journal[CHOOSE t \in undo : TRUE].before[f]]

Abstract == INSTANCE AtomicWorkspace WITH
  content <- View, generation <- record.generation, committed <- commits,
  quarantined <- {t \in Transactions : journal[t].status = "quarantined"}

\* Transactions change all of their files or none, as AtomicWorkspace says, whatever
\* fails and whenever processes start and die, until somebody has entered where another
\* was at work.
AllOrNothing == Abstract!Init /\ [][trespass' \/ Abstract!Next]_(Abstract!vars)
=============================================================================
