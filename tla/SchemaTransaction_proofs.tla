---------------------- MODULE SchemaTransaction_proofs ----------------------
(***************************************************************************)
(* Proofs about SchemaTransaction for any number of processes,             *)
(* transactions and files and every bound: processes start at any time,    *)
(* and writes of a finished journal may fail.                              *)
(***************************************************************************)
EXTENDS SchemaTransaction, TLAPS

Contents == Transactions \cup {Original, Edited}
Records == [generation : Nat, outcome : {"none", "committed", "rolled_back", "quarantined"},
            last : Transactions \cup {None}]
Statuses == {"none", "prepared", "applying", "committed", "rolled_back", "quarantined"}
Befores == {<<>>} \cup UNION {[Touches[t] -> Contents] : t \in Transactions}
HypothesisStatuses == {"none", "active", "verified", "committed", "aborted", "abandoned"}
CallPlaces ==
  {"none", "over", "locked", "checking", "prepared", "consumed", "applying", "postconditions",
   "put", "committed", "hypothesis", "restoring", "record", "unlock"}
RecoveryPlaces == {"lock", "unlock", "list", "journals", "restoring"}

LockType == [by : Transactions \cup {None}, pid : BOOLEAN]
RecoveryType == [at : RecoveryPlaces, saw : LockType, left : SUBSET Transactions,
                 of : Transactions \cup {None}, todo : SUBSET Files, clean : BOOLEAN]
JournalType == [status : Statuses, before : Befores]
HypothesisType == [status : HypothesisStatuses, generation : Nat,
                   files : {<<>>} \cup [Files -> Contents]]
InvocationType == [by : Hosts \cup {None}, ended : {"no", "certificate", "yes"}]
RequestType == [at : {"none", "evidence", "issued", "abort"}, read : HypothesisStatuses]
CallType == [at : CallPlaces, todo : SUBSET Files, clean : BOOLEAN,
             saw : {None} \cup [Files -> Contents] \cup Records]

Types ==
  /\ host \in [Hosts -> {"off", "starting", "up", "dead"}]
  /\ recovery \in [Hosts -> RecoveryType]
  /\ file \in [Files -> Contents]
  /\ record \in Records
  /\ lock \in LockType
  /\ journal \in [Transactions -> JournalType]
  /\ hypothesis \in [Transactions -> HypothesisType]
  /\ certificate \in [Transactions -> {"none", "active", "consumed", "aborted", "abandoned"}]
  /\ invocation \in [Transactions -> InvocationType]
  /\ request \in [Transactions -> RequestType]
  /\ call \in [Transactions -> CallType]
  /\ commits \subseteq Transactions
  /\ trespass \in BOOLEAN
  /\ faults \in [{"withdrawal", "edit", "write", "restore"} -> Nat]

\* The places of a commit that has prepared its journal, and has consumed its certificate.
AfterConsume ==
  {"consumed", "applying", "postconditions", "put", "committed", "hypothesis", "restoring", "record"}
AfterPrepare == AfterConsume \cup {"prepared"}

\* Whoever restores a file finds its before image.
BeforeKnown(t) ==
  /\ journal[t].status # "none" => journal[t].before \in [Touches[t] -> Contents]
  /\ call[t].at \in AfterPrepare => journal[t].status # "none"
  /\ call[t].at \in {"applying", "restoring"} => call[t].todo \subseteq Touches[t]

RestoreKnown(h) ==
  recovery[h].at = "restoring" =>
    /\ recovery[h].of \in Transactions
    /\ journal[recovery[h].of].status # "none"
    /\ recovery[h].todo \subseteq Touches[recovery[h].of]

BeforesKnown ==
  (\A t \in Transactions : BeforeKnown(t)) /\ (\A h \in Hosts : RestoreKnown(h))

\* An invocation belongs to a process that has been up.
InvocationsKnown ==
  \A t \in Transactions :
    /\ invocation[t].by = None <=> hypothesis[t].status = "none"
    /\ invocation[t].by # None => host[invocation[t].by] \in {"up", "dead"}

\* A certificate is issued once: while its answer is under way the hypothesis may still
\* be active, afterwards no verify can begin; no commit begins before the answer.
IssueKnown(t) ==
  /\ request[t].at = "evidence" => certificate[t] = "none"
  /\ request[t].at = "issued" => certificate[t] = "active"
  /\ request[t].at \in {"evidence", "issued"} => request[t].read = "active"
  /\ Running(t) /\ certificate[t] # "none" /\ request[t].at # "issued" =>
       hypothesis[t].status # "active"
  /\ hypothesis[t].status = "none" => certificate[t] = "none" /\ request[t].at = "none"
  /\ certificate[t] = "none" \/ request[t].at = "issued" => call[t].at \in AtRest

IssuedOnce == \A t \in Transactions : IssueKnown(t)

\* What a transaction may leave: in its journal, its commit, the files or a before image.
LeavesTrace(t) ==
  \/ journal[t].status \notin {"none", "prepared"}
  \/ call[t].at \in AfterConsume
  \/ t \in commits
  \/ \E f \in Files : file[f] = t
  \/ \E u \in Transactions :
       journal[u].status # "none" /\ \E f \in Touches[u] : journal[u].before[f] = t

\* Only a transaction whose certificate was consumed leaves a trace.
TracesConsumed ==
  /\ \A t \in Transactions : LeavesTrace(t) => certificate[t] = "consumed"
  /\ \A h \in Hosts : recovery[h].at = "restoring" => certificate[recovery[h].of] = "consumed"

ProtocolInv == Types /\ BeforesKnown /\ InvocationsKnown /\ IssuedOnce /\ TracesConsumed

-----------------------------------------------------------------------------
(* Who holds the lock, and what is known until the first trespass *)

\* A lock has an owner that has been up; a process that has found the owner dead is right
\* for good; a commit under way belongs to a process that is up.
LocksKnown ==
  /\ lock.pid => lock.by # None
  /\ lock.by # None => invocation[lock.by].by # None
  /\ \A h \in Hosts : RecoveryAt(h, "unlock") /\ recovery[h].saw.pid =>
       LET t == recovery[h].saw.by IN
       t # None /\ invocation[t].by # None /\ host[invocation[t].by] = "dead"
  /\ \A t \in Committing : Running(t)
  /\ \A h \in Hosts : host[h] = "off" => recovery[h].at = "lock"

\* A commit under way holds the lock; only the one whose transaction is half done may be
\* under way.
Exclusive ==
  /\ \A t \in Committing : lock.by = t
  /\ \A t \in HalfDone : \A u \in HalfDone \cup Committing : u = t

Has(t, statuses) == journal[t].status \in statuses
Before(t, f) == journal[t].before[f]

\* What each place of a commit knows of the journal, the files and the record.
CallKnows(t) ==
  /\ call[t].at \in {"none", "locked", "checking"} => Has(t, {"none", "prepared"}) /\ t \notin commits
  /\ call[t].at \in {"prepared", "consumed"} =>
       /\ Has(t, {"prepared"}) /\ t \notin commits
       /\ \A f \in Touches[t] : file[f] = Before(t, f)
  /\ call[t].at = "applying" =>
       /\ Has(t, {"applying"}) /\ t \notin commits
       /\ \A f \in Touches[t] : file[f] = IF f \in call[t].todo THEN Before(t, f) ELSE t
  /\ call[t].at \in {"postconditions", "put"} =>
       /\ Has(t, {"applying"}) /\ t \notin commits
       /\ \A f \in Touches[t] : file[f] = t
  /\ call[t].at \in {"prepared", "consumed", "applying", "postconditions", "put"} =>
       record.generation = hypothesis[t].generation
  /\ call[t].at = "committed" => t \in commits
  /\ call[t].at = "restoring" =>
       /\ Has(t, {"prepared", "applying"}) /\ t \notin commits
       /\ \A f \in Touches[t] :
            (call[t].clean /\ f \notin call[t].todo) \/ Has(t, {"prepared"}) => file[f] = Before(t, f)
  /\ call[t].at = "record" => t \notin commits

\* A process that recovers a transaction is the only one; what it has restored stays.
RecoveryKnows(h) ==
  h \in Restoring =>
    LET t == recovery[h].of IN
    /\ t \in HalfDone /\ t \notin Committing
    /\ \A g \in Restoring : recovery[g].of = t => g = h
    /\ recovery[h].clean => \A f \in Touches[t] \ recovery[h].todo : file[f] = Before(t, f)

\* What is left of a transaction in the files, the journals and the record.
Remains ==
  /\ \A t \in HalfDone : \A f \in Touches[t] : file[f] \in {t, Before(t, f)}
  /\ record.outcome = "committed" => record.last \in commits
  /\ \A t \in Unfinished : t \in commits => RecordedAsCommitted(t)
  /\ \A t \in commits : Has(t, {"applying", "committed"})

Undisturbed ==
  /\ Exclusive /\ Remains
  /\ \A t \in Transactions : CallKnows(t)
  /\ \A h \in Hosts : RecoveryKnows(h)

OrderInv == LocksKnown /\ (~trespass => Undisturbed)

-----------------------------------------------------------------------------
(* Types *)

USE DEF hostVars, protocolVars

\* A field of a commit's, a journal's or a recovery's record changes within its type.
LEMMA CallFields ==
  /\ NoCall \in CallType /\ [NoCall EXCEPT !.at = "over"] \in CallType
  /\ \A c \in CallType :
       /\ \A p \in CallPlaces : [c EXCEPT !.at = p] \in CallType
       /\ \A d \in SUBSET Files : [c EXCEPT !.todo = d] \in CallType
       /\ \A d \in SUBSET Files : [c EXCEPT !.todo = d, !.clean = FALSE] \in CallType
       /\ \A p \in CallPlaces : \A x \in {None} \cup [Files -> Contents] \cup Records :
            [c EXCEPT !.at = p, !.saw = x] \in CallType
       /\ \A p \in CallPlaces : \A d \in SUBSET Files : [c EXCEPT !.at = p, !.todo = d] \in CallType
       /\ \A d \in SUBSET Files :
            [c EXCEPT !.at = "restoring", !.todo = d, !.clean = TRUE, !.saw = None] \in CallType
<1>1. NoCall \in CallType /\ "over" \in CallPlaces /\ "restoring" \in CallPlaces
  BY DEF CallType, CallPlaces, NoCall
<1>2. \A c \in CallType : \A p \in CallPlaces :
        /\ [c EXCEPT !.at = p] \in CallType
        /\ \A d \in SUBSET Files : [c EXCEPT !.at = p, !.todo = d] \in CallType
  BY DEF CallType
<1>3. \A c \in CallType : \A d \in SUBSET Files :
        /\ [c EXCEPT !.todo = d] \in CallType
        /\ [c EXCEPT !.todo = d, !.clean = FALSE] \in CallType
  BY DEF CallType
<1>4. \A c \in CallType : \A p \in CallPlaces : \A x \in {None} \cup [Files -> Contents] \cup Records :
        [c EXCEPT !.at = p, !.saw = x] \in CallType
  BY DEF CallType
<1>5. \A c \in CallType : \A d \in SUBSET Files :
        [c EXCEPT !.at = "restoring", !.todo = d, !.clean = TRUE, !.saw = None] \in CallType
  BY <1>1 DEF CallType
<1> QED
  BY <1>1, <1>2, <1>3, <1>4, <1>5

LEMMA JournalFields ==
  \A j \in JournalType : \A s \in Statuses : [j EXCEPT !.status = s] \in JournalType
BY DEF JournalType

LEMMA RecoveryFields ==
  /\ Asleep \in RecoveryType
  /\ \A r \in RecoveryType :
       /\ \A p \in RecoveryPlaces : [r EXCEPT !.at = p] \in RecoveryType
       /\ \A x \in SUBSET Transactions : [r EXCEPT !.left = x] \in RecoveryType
       /\ \A p \in RecoveryPlaces : \A x \in SUBSET Transactions :
            [r EXCEPT !.at = p, !.left = x] \in RecoveryType
       /\ \A p \in RecoveryPlaces : \A x \in LockType : [r EXCEPT !.at = p, !.saw = x] \in RecoveryType
       /\ \A d \in SUBSET Files : [r EXCEPT !.todo = d] \in RecoveryType
       /\ \A d \in SUBSET Files : [r EXCEPT !.todo = d, !.clean = FALSE] \in RecoveryType
       /\ \A p \in RecoveryPlaces : \A t \in Transactions : \A d \in SUBSET Files :
            [r EXCEPT !.at = p, !.of = t, !.todo = d, !.clean = TRUE] \in RecoveryType
       /\ \A p \in RecoveryPlaces : [r EXCEPT !.at = p, !.of = None] \in RecoveryType
<1>1. Asleep \in RecoveryType
  BY DEF RecoveryType, RecoveryPlaces, Asleep, NoLock, LockType
<1>2. \A r \in RecoveryType : \A p \in RecoveryPlaces :
        /\ [r EXCEPT !.at = p] \in RecoveryType
        /\ [r EXCEPT !.at = p, !.of = None] \in RecoveryType
        /\ \A x \in SUBSET Transactions : [r EXCEPT !.at = p, !.left = x] \in RecoveryType
        /\ \A x \in LockType : [r EXCEPT !.at = p, !.saw = x] \in RecoveryType
  BY DEF RecoveryType
<1>3. \A r \in RecoveryType :
        /\ \A x \in SUBSET Transactions : [r EXCEPT !.left = x] \in RecoveryType
        /\ \A d \in SUBSET Files :
             /\ [r EXCEPT !.todo = d] \in RecoveryType
             /\ [r EXCEPT !.todo = d, !.clean = FALSE] \in RecoveryType
  BY DEF RecoveryType
<1>4. \A r \in RecoveryType : \A p \in RecoveryPlaces : \A t \in Transactions : \A d \in SUBSET Files :
        [r EXCEPT !.at = p, !.of = t, !.todo = d, !.clean = TRUE] \in RecoveryType
  BY DEF RecoveryType
<1> QED
  BY <1>1, <1>2, <1>3, <1>4

LEMMA InitTypes == Init => Types
<1> SUFFICES ASSUME Init PROVE Types
  OBVIOUS
<1> USE DEF Init
<1>1. recovery \in [Hosts -> RecoveryType]
  BY RecoveryFields
<1>2. journal \in [Transactions -> JournalType]
  BY DEF JournalType, Befores, Statuses
<1>3. hypothesis \in [Transactions -> HypothesisType]
  BY DEF HypothesisType, HypothesisStatuses
<1>4. /\ invocation \in [Transactions -> InvocationType]
      /\ request \in [Transactions -> RequestType]
  BY DEF InvocationType, RequestType, NoRequest, HypothesisStatuses
<1>5. call \in [Transactions -> CallType]
  BY DEF NoCall, CallType, CallPlaces
<1>6. /\ host \in [Hosts -> {"off", "starting", "up", "dead"}]
      /\ file \in [Files -> Contents] /\ record \in Records
      /\ lock \in LockType /\ trespass \in BOOLEAN
      /\ certificate \in [Transactions -> {"none", "active", "consumed", "aborted", "abandoned"}]
      /\ commits \subseteq Transactions
  BY DEF Contents, Records, NoLock, LockType
<1>7. faults \in [{"withdrawal", "edit", "write", "restore"} -> Nat]
  OBVIOUS
<1> QED
  BY <1>1, <1>2, <1>3, <1>4, <1>5, <1>6, <1>7 DEF Types

LEMMA ProtocolFields ==
  /\ \A y \in HypothesisType : \A s \in HypothesisStatuses : [y EXCEPT !.status = s] \in HypothesisType
  /\ \A i \in InvocationType :
       /\ \A h \in Hosts : [i EXCEPT !.by = h] \in InvocationType
       /\ \A e \in {"no", "certificate", "yes"} : [i EXCEPT !.ended = e] \in InvocationType
  /\ NoRequest \in RequestType
BY DEF HypothesisType, InvocationType, RequestType, NoRequest, HypothesisStatuses

LEMMA TrespassTyped ==
  ASSUME Types, NEW when, Trespass(when) PROVE trespass' \in BOOLEAN /\ (trespass => trespass')
BY DEF Types, Trespass

LEMMA FaultsTyped ==
  ASSUME Types, NEW kind \in {"withdrawal", "edit", "write", "restore"}, NEW bound, Fault(kind, bound)
  PROVE  faults' \in [{"withdrawal", "edit", "write", "restore"} -> Nat]
BY DEF Types, Fault

LEMMA ProtocolTypes ==
  ASSUME Types, NEW t \in Transactions, Protocol(t) PROVE Types'
<1> USE DEF Types
<1>1. ASSUME NEW h \in Hosts, Hypothesize(t, h) PROVE Types'
  <2>1. [status |-> "active", generation |-> record.generation, files |-> file] \in HypothesisType
    BY DEF HypothesisType, HypothesisStatuses, Records
  <2>2. [invocation[t] EXCEPT !.by = h] \in InvocationType
    BY ProtocolFields
  <2> QED
    BY <1>1, <2>1, <2>2 DEF Hypothesize
<1>a. \A r \in RequestType : [request EXCEPT ![t] = r] \in [Transactions -> RequestType]
  OBVIOUS
<1>b. \A s \in HypothesisStatuses :
        [hypothesis EXCEPT ![t].status = s] \in [Transactions -> HypothesisType]
  BY ProtocolFields
<1>c. \A c \in {"none", "active", "consumed", "aborted", "abandoned"} : [certificate EXCEPT ![t] = c]
        \in [Transactions -> {"none", "active", "consumed", "aborted", "abandoned"}]
  OBVIOUS
<1>d. NoRequest \in RequestType
  BY ProtocolFields
<1>2. CASE VerifyBegins(t) \/ VerifyIssues(t) \/ VerifyFails(t)
  <2>1. /\ [at |-> "evidence", read |-> "active"] \in RequestType
        /\ [at |-> "issued", read |-> "active"] \in RequestType
    BY DEF RequestType, HypothesisStatuses
  <2>2. CASE VerifyBegins(t)
    BY <2>2, <2>1, <1>a DEF VerifyBegins, Asks
  <2>3. CASE VerifyIssues(t)
    BY <2>3, <2>1, <1>a, <1>c DEF VerifyIssues, Asks, Certifies
  <2>4. CASE VerifyFails(t)
    BY <2>4, <1>a, <1>d DEF VerifyFails, Asks
  <2> QED
    BY <1>2, <2>2, <2>3, <2>4
<1>3. CASE VerifyEnds(t)
  <2>1. "verified" \in HypothesisStatuses
    BY DEF HypothesisStatuses
  <2>2. CASE Becomes(t, "verified") /\ UNCHANGED certificate
    BY <1>3, <2>1, <2>2, <1>a, <1>b, <1>d DEF VerifyEnds, Asks, Becomes
  <2>3. CASE Certifies(t, "aborted") /\ UNCHANGED hypothesis
    BY <1>3, <2>3, <1>a, <1>c, <1>d DEF VerifyEnds, Asks, Certifies
  <2> QED
    BY <1>3, <2>2, <2>3 DEF VerifyEnds
<1>4. CASE AbortBegins(t)
  <2>1. [at |-> "abort", read |-> hypothesis[t].status] \in RequestType
    BY DEF RequestType, HypothesisType
  <2>2. faults' \in [{"withdrawal", "edit", "write", "restore"} -> Nat]
    BY <1>4, FaultsTyped DEF AbortBegins
  <2> QED
    BY <1>4, <2>1, <2>2 DEF AbortBegins, Asks, Certifies
<1>5. CASE AbortEnds(t) \/ EndHypothesis(t)
  <2>1. "aborted" \in HypothesisStatuses /\ "abandoned" \in HypothesisStatuses
    BY DEF HypothesisStatuses
  <2>2. [invocation[t] EXCEPT !.ended = "yes"] \in InvocationType
    BY ProtocolFields
  <2>3. CASE AbortEnds(t)
    <3>1. hypothesis' \in [Transactions -> HypothesisType]
      BY <2>3, <2>1, <1>b DEF AbortEnds, Becomes
    <3>2. request' \in [Transactions -> RequestType]
      BY <2>3, <1>a, <1>d DEF AbortEnds, Asks
    <3> QED
      BY <2>3, <3>1, <3>2 DEF AbortEnds
  <2>4. CASE EndHypothesis(t)
    <3>1. hypothesis' \in [Transactions -> HypothesisType]
      BY <2>4, <2>1, <1>b DEF EndHypothesis, Becomes
    <3> QED
      BY <2>4, <3>1, <2>2 DEF EndHypothesis
  <2> QED
    BY <1>5, <2>3, <2>4
<1>6. CASE EndCertificate(t)
  <2>1. faults' \in [{"withdrawal", "edit", "write", "restore"} -> Nat]
    BY <1>6, FaultsTyped DEF EndCertificate
  <2>2. [invocation[t] EXCEPT !.ended = "certificate"] \in InvocationType
    BY ProtocolFields
  <2> QED
    BY <1>6, <2>1, <2>2 DEF EndCertificate, Certifies
<1> QED
  BY <1>1, <1>2, <1>3, <1>4, <1>5, <1>6 DEF Protocol

LEMMA ContentTypes ==
  ASSUME Types
  PROVE  /\ \A c \in Contents : \A f \in Files : [file EXCEPT ![f] = c] \in [Files -> Contents]
         /\ \A t \in Transactions : t \in Contents /\ Touches[t] \subseteq Files
BY TouchesAssumption DEF Types, Contents

\* The before image of a file that is restored is a content.
LEMMA BeforeTypes ==
  ASSUME Types, BeforesKnown, NEW t \in Transactions, journal[t].status # "none", NEW f \in Touches[t]
  PROVE  /\ journal[t].before[f] \in Contents
         /\ [file EXCEPT ![f] = journal[t].before[f]] \in [Files -> Contents]
<1>1. journal[t].before \in [Touches[t] -> Contents]
  BY DEF BeforesKnown, BeforeKnown
<1>2. journal[t].before[f] \in Contents
  BY <1>1
<1> QED
  BY <1>2, ContentTypes

LEMMA CommitTypes ==
  ASSUME Types, BeforesKnown, NEW t \in Transactions, TakeLock(t) \/ CommitStep(t) PROVE Types'
<1> USE DEF Types
<1>a. call[t] \in CallType /\ journal[t] \in JournalType /\ CallType # {}
  OBVIOUS
<1>b. \A c \in CallType : [call EXCEPT ![t] = c] \in [Transactions -> CallType]
  OBVIOUS
<1>c. \A s \in Statuses : [journal EXCEPT ![t] = [journal[t] EXCEPT !.status = s]]
                            \in [Transactions -> JournalType]
  BY JournalFields
<1>d. \A p \in CallPlaces : [call EXCEPT ![t] = [call[t] EXCEPT !.at = p]]
                              \in [Transactions -> CallType]
  BY <1>a, <1>b, CallFields
<1>e. Fallen(t) \in CallType
  BY CallFields, ContentTypes DEF Fallen
<1>1. CASE TakeLock(t) \/ WritePid(t) \/ Unlock(t)
  <2>1. /\ [by |-> t, pid |-> FALSE] \in LockType
        /\ [lock EXCEPT !.pid = (lock.by = t) \/ @] \in LockType
        /\ NoLock \in LockType
    BY DEF NoLock, LockType
  <2>2. "locked" \in CallPlaces /\ "checking" \in CallPlaces
    BY DEF CallPlaces
  <2>3. (IF certificate[t] = "consumed" THEN [NoCall EXCEPT !.at = "over"] ELSE NoCall) \in CallType
    BY CallFields
  <2>4. CASE TakeLock(t)
    BY <2>4, <2>1, <2>2, <1>d, TrespassTyped DEF TakeLock, Goes
  <2>5. CASE WritePid(t)
    BY <2>5, <2>1, <2>2, <1>d DEF WritePid, Goes
  <2>6. CASE Unlock(t)
    BY <2>6, <2>1, <2>3, <1>b DEF Unlock
  <2> QED
    BY <1>1, <2>4, <2>5, <2>6
<1>2. CASE Prepare(t)
  <2>1. [f \in Touches[t] |-> file[f]] \in [Touches[t] -> Contents]
    BY ContentTypes
  <2>2. [status |-> "prepared", before |-> [f \in Touches[t] |-> file[f]]] \in JournalType
    BY <2>1 DEF JournalType, Befores, Statuses
  <2> QED
    BY <1>2, <2>2, <1>d DEF Prepare, Goes, CallPlaces
<1>3. CASE Refuse(t) \/ NotConsumed(t) \/ Consume(t) \/ Finish(t)
  <2>1. "unlock" \in CallPlaces /\ "consumed" \in CallPlaces
    BY DEF CallPlaces
  <2>2. CASE Refuse(t) \/ NotConsumed(t)
    <3>1. call' \in [Transactions -> CallType]
      BY <2>2, <2>1, <1>d DEF Refuse, NotConsumed, Goes
    <3> QED
      BY <2>2, <3>1 DEF Refuse, NotConsumed
  <2>3. CASE Consume(t)
    <3>1. call' \in [Transactions -> CallType]
      BY <2>3, <2>1, <1>d DEF Consume, Goes
    <3> QED
      BY <2>3, <3>1 DEF Consume, Certifies
  <2>4. CASE Finish(t)
    <3>1. [hypothesis[t] EXCEPT !.status = "committed"] \in HypothesisType
      BY ProtocolFields DEF HypothesisStatuses
    <3>2. hypothesis' \in [Transactions -> HypothesisType]
      BY <2>4, <3>1 DEF Finish, Becomes
    <3>3. call' \in [Transactions -> CallType]
      BY <2>4, <2>1, <1>d DEF Finish, Goes
    <3> QED
      BY <2>4, <3>2, <3>3 DEF Finish
  <2> QED
    BY <1>3, <2>2, <2>3, <2>4
<1>4. CASE StartApplying(t)
  <2>1. [call[t] EXCEPT !.at = "applying", !.todo = Touches[t]] \in CallType
    BY <1>a, CallFields, ContentTypes DEF CallPlaces
  <2>2. "applying" \in Statuses
    BY DEF Statuses
  <2> QED
    BY <1>4, <2>1, <2>2, <1>b, <1>c, <1>e DEF StartApplying, Journals
<1>5. ASSUME NEW f \in Files, Apply(t, f) PROVE Types'
  <2>1. [call[t] EXCEPT !.todo = @ \ {f}] \in CallType
    <3>1. call[t].todo \ {f} \in SUBSET Files
      BY DEF CallType
    <3> QED
      BY <1>a, <3>1, CallFields
  <2> QED
    BY <1>5, <2>1, <1>b, ContentTypes DEF Apply, SetFile
<1>6. ASSUME NEW f \in Files, RestoreOne(t, f) PROVE Types'
  <2>1. call[t].todo \ {f} \in SUBSET Files
    BY DEF CallType
  <2>2. /\ [call[t] EXCEPT !.todo = @ \ {f}] \in CallType
        /\ [call[t] EXCEPT !.todo = @ \ {f}, !.clean = FALSE] \in CallType
    <3>1. \A d \in SUBSET Files :
            /\ [call[t] EXCEPT !.todo = d] \in CallType
            /\ [call[t] EXCEPT !.todo = d, !.clean = FALSE] \in CallType
      BY <1>a, CallFields
    <3> QED
      BY <2>1, <3>1
  <2>3. [file EXCEPT ![f] = journal[t].before[f]] \in [Files -> Contents]
    BY <1>6, BeforeTypes DEF RestoreOne, At, BeforesKnown, BeforeKnown, AfterPrepare, AfterConsume
  <2>4. Fault("restore", MaxFailedRestores) => faults' \in [{"withdrawal", "edit", "write", "restore"} -> Nat]
    BY FaultsTyped
  <2> QED
    BY <1>6, <2>2, <2>3, <2>4, <1>b DEF RestoreOne, SetFile
<1>7. CASE Applied(t) \/ Confirm(t) \/ Fails(t)
  <2>1. /\ [call[t] EXCEPT !.at = "postconditions", !.saw = file] \in CallType
        /\ [call[t] EXCEPT !.at = "put", !.saw = record] \in CallType
    BY <1>a, CallFields DEF CallPlaces
  <2>2. CASE Applied(t)
    <3>1. call' = [call EXCEPT ![t] = [call[t] EXCEPT !.at = "postconditions", !.saw = file]]
      BY <2>2 DEF Applied
    <3> QED
      BY <2>2, <3>1, <2>1, <1>b DEF Applied
  <2>3. CASE Confirm(t)
    <3>1. call' = [call EXCEPT ![t] = [call[t] EXCEPT !.at = "put", !.saw = record]]
      BY <2>3 DEF Confirm
    <3> QED
      BY <2>3, <3>1, <2>1, <1>b DEF Confirm
  <2>4. CASE Fails(t)
    BY <2>4, <1>b, <1>e DEF Fails
  <2> QED
    BY <1>7, <2>2, <2>3, <2>4
<1>8. CASE PutCommitted(t)
  <2>1. [call[t] EXCEPT !.at = "committed", !.saw = None] \in CallType
    BY <1>a, CallFields DEF CallPlaces
  <2>2. [generation |-> hypothesis[t].generation + 1, outcome |-> "committed", last |-> t] \in Records
    BY DEF Records, HypothesisType
  <2> QED
    BY <1>8, <2>1, <2>2, <1>b, TrespassTyped DEF PutCommitted
<1>9. CASE JournalCommitted(t) \/ Restored(t)
  <2>1. "committed" \in Statuses /\ Outcome(call[t].clean) \in Statuses
    BY DEF Statuses, Outcome
  <2>2. "hypothesis" \in CallPlaces /\ "record" \in CallPlaces
    BY DEF CallPlaces
  <2>3. Fault("write", MaxFailedWrites) => faults' \in [{"withdrawal", "edit", "write", "restore"} -> Nat]
    BY FaultsTyped
  <2> QED
    BY <1>9, <2>1, <2>2, <2>3, <1>c, <1>d DEF JournalCommitted, Restored, Concludes, Journals, Goes
<1>10. CASE RecordOutcome(t)
  <2>1. [record EXCEPT !.outcome = Outcome(call[t].clean), !.last = t] \in Records
    BY DEF Records, Outcome
  <2> QED
    BY <1>10, <2>1, <1>d, TrespassTyped DEF RecordOutcome, Goes, CallPlaces
<1> QED
  BY <1>1, <1>2, <1>3, <1>4, <1>5, <1>6, <1>7, <1>8, <1>9, <1>10 DEF CommitStep

LEMMA RecoveryTypes ==
  ASSUME Types, BeforesKnown, NEW h \in Hosts, Start(h) \/ RecoveryStep(h) PROVE Types'
<1> USE DEF Types
<1>a. recovery[h] \in RecoveryType
  OBVIOUS
<1>b. \A r \in RecoveryType : [recovery EXCEPT ![h] = r] \in [Hosts -> RecoveryType]
  OBVIOUS
<1>1. CASE Start(h) \/ Started(h)
  BY <1>1 DEF Start, Started
<1>2. CASE ReadLock(h) \/ RemoveLock(h)
  <2>1. /\ [recovery[h] EXCEPT !.at = IF lock = NoLock THEN "list" ELSE "unlock", !.saw = lock]
              \in RecoveryType
        /\ [recovery[h] EXCEPT !.at = "list"] \in RecoveryType
    BY <1>a, RecoveryFields DEF RecoveryPlaces
  <2>2. NoLock \in LockType
    BY DEF NoLock, LockType
  <2> QED
    BY <1>2, <2>1, <2>2, <1>b, TrespassTyped DEF ReadLock, RemoveLock, Recovery
<1>3. CASE ListJournals(h)
  <2>1. [recovery[h] EXCEPT !.at = "journals", !.left = {t \in Transactions : journal[t].status # "none"}]
          \in RecoveryType
    BY <1>a, RecoveryFields DEF RecoveryPlaces
  <2> QED
    BY <1>3, <2>1, <1>b DEF ListJournals, Recovery
<1>4. ASSUME NEW t \in Transactions, ReadJournal(h, t) PROVE Types'
  <2> DEFINE rest == [recovery[h] EXCEPT !.left = @ \ {t}]
  <2>1. rest \in RecoveryType
    <3>1. recovery[h].left \ {t} \in SUBSET Transactions
      BY DEF RecoveryType
    <3> QED
      BY <1>a, <3>1, RecoveryFields
  <2>2. [rest EXCEPT !.at = "restoring", !.of = t, !.todo = Touches[t], !.clean = TRUE] \in RecoveryType
    <3> HIDE DEF rest
    <3> QED
      BY <2>1, RecoveryFields, ContentTypes DEF RecoveryPlaces
  <2>3. [journal EXCEPT ![t].status = "committed"] \in [Transactions -> JournalType]
    BY JournalFields DEF Statuses
  <2>4. /\ recovery' = [recovery EXCEPT ![h] = rest]
           \/ recovery' = [recovery EXCEPT ![h] =
                [rest EXCEPT !.at = "restoring", !.of = t, !.todo = Touches[t], !.clean = TRUE]]
        /\ journal' = journal \/ journal' = [journal EXCEPT ![t].status = "committed"]
        /\ UNCHANGED <<host, file, record, lock, protocolVars, call, commits>>
    BY <1>4 DEF ReadJournal, Recovery, Concludes, Journals
  <2>5. faults' \in [{"withdrawal", "edit", "write", "restore"} -> Nat]
    BY <1>4, FaultsTyped DEF ReadJournal, Concludes
  <2>6. trespass' \in BOOLEAN
    BY <1>4, TrespassTyped DEF ReadJournal
  <2> HIDE DEF rest
  <2> QED
    BY <2>1, <2>2, <2>3, <2>4, <2>5, <2>6, <1>b
<1>5. ASSUME NEW f \in Files, RecoverOne(h, f) PROVE Types'
  <2>1. recovery[h].todo \ {f} \in SUBSET Files
    BY DEF RecoveryType
  <2>2. /\ [recovery[h] EXCEPT !.todo = @ \ {f}] \in RecoveryType
        /\ [recovery[h] EXCEPT !.todo = @ \ {f}, !.clean = FALSE] \in RecoveryType
    BY <1>a, <2>1, RecoveryFields
  <2>3. [file EXCEPT ![f] = journal[recovery[h].of].before[f]] \in [Files -> Contents]
    BY <1>5, BeforeTypes DEF RecoverOne, RecoveryAt, BeforesKnown, RestoreKnown
  <2>4. Fault("restore", MaxFailedRestores) => faults' \in [{"withdrawal", "edit", "write", "restore"} -> Nat]
    BY FaultsTyped
  <2>5. recovery' \in [Hosts -> RecoveryType]
    BY <1>5, <2>2, <1>b DEF RecoverOne, Recovery
  <2>6. file' \in [Files -> Contents] /\ faults' \in [{"withdrawal", "edit", "write", "restore"} -> Nat]
    BY <1>5, <2>3, <2>4 DEF RecoverOne, SetFile
  <2> QED
    BY <1>5, <2>5, <2>6 DEF RecoverOne
<1>6. CASE Recovered(h)
  <2>1. [recovery[h] EXCEPT !.at = "journals", !.of = None] \in RecoveryType
    BY <1>a, RecoveryFields DEF RecoveryPlaces
  <2>2. recovery[h].of \in Transactions
    BY <1>6 DEF Recovered, RecoveryAt, BeforesKnown, RestoreKnown
  <2>3. [journal EXCEPT ![recovery[h].of].status = Outcome(recovery[h].clean)]
          \in [Transactions -> JournalType]
    BY <2>2, JournalFields DEF Statuses, Outcome
  <2>4. Fault("write", MaxFailedWrites) => faults' \in [{"withdrawal", "edit", "write", "restore"} -> Nat]
    BY FaultsTyped
  <2> QED
    BY <1>6, <2>1, <2>3, <2>4, <1>b DEF Recovered, Concludes, Journals, Recovery
<1> QED
  BY <1>1, <1>2, <1>3, <1>4, <1>5, <1>6 DEF RecoveryStep

LEMMA OutsideTypes ==
  ASSUME Types, (\E h \in Hosts : Crash(h)) \/ (\E f \in Files : Edit(f)) PROVE Types'
<1> USE DEF Types
<1>1. ASSUME NEW h \in Hosts, Crash(h) PROVE Types'
  <2>1. recovery' \in [Hosts -> RecoveryType]
    BY <1>1, RecoveryFields DEF Crash
  <2>2. call' \in [Transactions -> CallType]
    BY <1>1, CallFields DEF Crash
  <2>3. request' \in [Transactions -> RequestType]
    BY <1>1, ProtocolFields DEF Crash
  <2> QED
    BY <1>1, <2>1, <2>2, <2>3 DEF Crash
<1>2. ASSUME NEW f \in Files, Edit(f) PROVE Types'
  <2>1. faults' \in [{"withdrawal", "edit", "write", "restore"} -> Nat]
    BY <1>2, FaultsTyped DEF Edit
  <2>2. Edited \in Contents
    BY DEF Contents
  <2> QED
    BY <1>2, <2>1, <2>2, ContentTypes DEF Edit, SetFile
<1> QED
  BY <1>1, <1>2

LEMMA NextTypes ==
  ASSUME Types, BeforesKnown, Next PROVE Types'
BY ProtocolTypes, CommitTypes, RecoveryTypes, OutsideTypes DEF Next

-----------------------------------------------------------------------------
(* What the steps leave alone, and how far the others go *)

LEMMA ProtocolLeaves ==
  ASSUME NEW t \in Transactions, Protocol(t)
  PROVE  UNCHANGED <<host, recovery, file, record, lock, journal, call, commits, trespass>>
BY DEF Protocol, Hypothesize, VerifyBegins, VerifyIssues, VerifyFails, VerifyEnds, AbortBegins,
       AbortEnds, EndCertificate, EndHypothesis

LEMMA CommitLeaves ==
  ASSUME NEW t \in Transactions, CommitStep(t)
  PROVE  /\ UNCHANGED <<host, recovery, invocation, request>>
         /\ Running(t) /\ call[t].at \notin AtRest
BY DEF CommitStep, WritePid, Prepare, Refuse, Consume, NotConsumed, StartApplying, Apply, RestoreOne,
       Applied, Confirm, PutCommitted, Fails, JournalCommitted, Finish, Restored, RecordOutcome, Unlock,
       At, AtRest

LEMMA RecoveryLeaves ==
  ASSUME NEW h \in Hosts, RecoveryStep(h)
  PROVE  /\ UNCHANGED <<record, hypothesis, certificate, invocation, request, call, commits>>
         /\ host[h] = "starting"
         /\ host' = host \/ (host' = [host EXCEPT ![h] = "up"] /\ UNCHANGED <<recovery, file, lock, journal>>)
         /\ \/ UNCHANGED recovery
            \/ \E r : recovery' = [recovery EXCEPT ![h] = r]
BY DEF RecoveryStep, ReadLock, RemoveLock, ListJournals, ReadJournal, RecoverOne, Recovered, Started,
       RecoveryAt, Recovery

\* How far a step of a commit goes: its own entries, one place at a time.
CommitGoes(t) ==
  /\ \A u \in Transactions \ {t} :
       /\ call'[u] = call[u] /\ journal'[u] = journal[u]
       /\ certificate'[u] = certificate[u] /\ hypothesis'[u] = hypothesis[u]
  /\ call'[t].at \in AfterPrepare => call[t].at \in AfterPrepare \/ Prepare(t)
  /\ call'[t].at \in AfterConsume => call[t].at \in AfterConsume \/ Consume(t)
  /\ call'[t].at \in {"applying", "restoring"} =>
       \/ call'[t].todo = Touches[t]
       \/ call[t].at = call'[t].at /\ call'[t].todo \subseteq call[t].todo

\* What it does to the shared state and to the files.
CommitWrites(t) ==
  /\ certificate' = certificate \/ Consume(t)
  /\ \/ hypothesis' = hypothesis
     \/ hypothesis[t].status = "verified" /\ hypothesis' = [hypothesis EXCEPT ![t].status = "committed"]
  /\ \/ journal' = journal \/ Prepare(t)
     \/ /\ call[t].at \in AfterConsume
        /\ \E s \in Statuses \ {"none"} : journal' = [journal EXCEPT ![t].status = s]
  /\ \/ file' = file
     \/ call[t].at = "applying" /\ \E f \in Files : file' = [file EXCEPT ![f] = t]
     \/ /\ call[t].at = "restoring"
        /\ \E f \in Files \cap call[t].todo : file' = [file EXCEPT ![f] = journal[t].before[f]]
  /\ commits' = commits \/ (call[t].at = "put" /\ commits' = commits \cup {t})

LEMMA CommitEffects ==
  ASSUME Types, NEW t \in Transactions, TakeLock(t) \/ CommitStep(t)
  PROVE  CommitGoes(t)
<1>0. /\ call \in [Transactions -> CallType] /\ journal \in [Transactions -> JournalType]
      /\ certificate \in [Transactions -> {"none", "active", "consumed", "aborted", "abandoned"}]
      /\ hypothesis \in [Transactions -> HypothesisType]
  BY DEF Types
<1> USE <1>0 DEF CommitGoes, CallType, AfterConsume, AfterPrepare, At
<1>1. CASE TakeLock(t)
  BY <1>1 DEF TakeLock, Goes
<1>2. CASE WritePid(t)
  BY <1>2 DEF WritePid, Goes
<1>3. CASE Prepare(t)
  BY <1>3 DEF Prepare, Goes
<1>4. CASE Refuse(t)
  BY <1>4 DEF Refuse, Goes
<1>5. CASE Consume(t)
  BY <1>5 DEF Consume, Goes, Certifies
<1>6. CASE NotConsumed(t)
  BY <1>6 DEF NotConsumed, Goes
<1>7. CASE StartApplying(t)
  BY <1>7 DEF StartApplying, Journals, Fallen
<1>8. CASE Applied(t)
  BY <1>8 DEF Applied
<1>9. CASE Confirm(t)
  BY <1>9 DEF Confirm
<1>10. CASE PutCommitted(t)
  BY <1>10 DEF PutCommitted
<1>11. CASE Fails(t)
  BY <1>11 DEF Fails, Fallen
<1>12. CASE JournalCommitted(t)
  BY <1>12 DEF JournalCommitted, Goes, Concludes, Journals
<1>13. CASE Finish(t)
  BY <1>13 DEF Finish, Goes, Becomes
<1>14. CASE Restored(t)
  BY <1>14 DEF Restored, Goes, Concludes, Journals, Outcome
<1>15. CASE RecordOutcome(t)
  BY <1>15 DEF RecordOutcome, Goes
<1>16. CASE Unlock(t)
  BY <1>16 DEF Unlock, NoCall
<1>17. ASSUME NEW f \in Files, Apply(t, f) PROVE CommitGoes(t)
  BY <1>17 DEF Apply
<1>18. ASSUME NEW f \in Files, RestoreOne(t, f) PROVE CommitGoes(t)
  BY <1>18 DEF RestoreOne
<1> QED
  BY <1>1, <1>2, <1>3, <1>4, <1>5, <1>6, <1>7, <1>8, <1>9, <1>10, <1>11, <1>12,
     <1>13, <1>14, <1>15, <1>16, <1>17, <1>18 DEF CommitStep

LEMMA CommitWritesOnly ==
  ASSUME NEW t \in Transactions, TakeLock(t) \/ CommitStep(t)
  PROVE  CommitWrites(t)
<1> USE DEF CommitWrites, At
<1>1. CASE TakeLock(t)
  BY <1>1 DEF TakeLock
<1>2. CASE WritePid(t)
  BY <1>2 DEF WritePid
<1>3. CASE Prepare(t)
  BY <1>3 DEF Prepare
<1>4. CASE Refuse(t)
  BY <1>4 DEF Refuse
<1>5. CASE Consume(t)
  BY <1>5 DEF Consume, Certifies
<1>6. CASE NotConsumed(t)
  BY <1>6 DEF NotConsumed
<1>7. CASE StartApplying(t)
  BY <1>7 DEF StartApplying, Journals, AfterConsume, Statuses
<1>8. CASE Applied(t)
  BY <1>8 DEF Applied
<1>9. CASE Confirm(t)
  BY <1>9 DEF Confirm
<1>10. CASE PutCommitted(t)
  BY <1>10 DEF PutCommitted
<1>11. CASE Fails(t)
  BY <1>11 DEF Fails
<1>12. CASE JournalCommitted(t)
  BY <1>12 DEF JournalCommitted, Concludes, Journals, AfterConsume, Statuses
<1>13. CASE Finish(t)
  BY <1>13 DEF Finish, Becomes
<1>14. CASE Restored(t)
  BY <1>14 DEF Restored, Concludes, Journals, Outcome, AfterConsume, Statuses
<1>15. CASE RecordOutcome(t)
  BY <1>15 DEF RecordOutcome
<1>16. CASE Unlock(t)
  BY <1>16 DEF Unlock
<1>17. ASSUME NEW f \in Files, Apply(t, f) PROVE CommitWrites(t)
  BY <1>17 DEF Apply, SetFile
<1>18. ASSUME NEW f \in Files, RestoreOne(t, f) PROVE CommitWrites(t)
  BY <1>18 DEF RestoreOne, SetFile
<1> QED
  BY <1>1, <1>2, <1>3, <1>4, <1>5, <1>6, <1>7, <1>8, <1>9, <1>10, <1>11, <1>12,
     <1>13, <1>14, <1>15, <1>16, <1>17, <1>18 DEF CommitStep

\* Where a step of a process that starts leads, and what it carries along.
LEMMA RecoveryMoves ==
  ASSUME Types, NEW h \in Hosts, RecoveryStep(h)
  PROVE  /\ \A g \in Hosts \ {h} : recovery'[g] = recovery[g]
         /\ ReadLock(h) =>
              \/ recovery' = recovery
              \/ recovery'[h].at = "unlock"
              \/ recovery'[h].at = "list" /\ lock = NoLock
         /\ RemoveLock(h) => recovery'[h].at = "list"
         /\ ListJournals(h) =>
              /\ recovery'[h].at = "journals"
              /\ recovery'[h].left = {t \in Transactions : journal[t].status # "none"}
         /\ \A t \in Transactions : ReadJournal(h, t) =>
              /\ recovery'[h].left = recovery[h].left \ {t}
              /\ \/ /\ (journal[t].status = "applying" => RecordedAsCommitted(t))
                    /\ recovery'[h].at = "journals"
                 \/ /\ journal[t].status = "applying" /\ ~RecordedAsCommitted(t)
                    /\ recovery'[h].at = "restoring" /\ recovery'[h].of = t
                    /\ recovery'[h].todo = Touches[t]
         /\ \A f \in Files : RecoverOne(h, f) =>
              /\ recovery'[h].at = recovery[h].at /\ recovery[h].at = "restoring"
              /\ recovery'[h].of = recovery[h].of /\ recovery'[h].left = recovery[h].left
              /\ recovery'[h].todo = recovery[h].todo \ {f}
              /\ \/ file' = [file EXCEPT ![f] = journal[recovery[h].of].before[f]]
                 \/ file' = file /\ ~recovery'[h].clean
              /\ recovery'[h].clean => recovery[h].clean
         /\ Recovered(h) =>
              /\ recovery[h].at = "restoring" /\ recovery'[h].at = "journals"
              /\ recovery'[h].left = recovery[h].left
<1>0. recovery \in [Hosts -> RecoveryType]
  BY DEF Types
<1>1. \A g \in Hosts \ {h} : recovery'[g] = recovery[g]
  BY <1>0, RecoveryLeaves
<1> USE <1>0 DEF RecoveryType, Recovery, RecoveryAt
<1>2. ReadLock(h) =>
        \/ recovery' = recovery
        \/ recovery'[h].at = "unlock"
        \/ recovery'[h].at = "list" /\ lock = NoLock
  BY DEF ReadLock
<1>3. /\ RemoveLock(h) => recovery'[h].at = "list"
      /\ ListJournals(h) =>
           /\ recovery'[h].at = "journals"
           /\ recovery'[h].left = {t \in Transactions : journal[t].status # "none"}
  <2>1. RemoveLock(h) => recovery'[h].at = "list"
    BY DEF RemoveLock
  <2>2. ListJournals(h) =>
          /\ recovery'[h].at = "journals"
          /\ recovery'[h].left = {t \in Transactions : journal[t].status # "none"}
    BY DEF ListJournals
  <2> QED
    BY <2>1, <2>2
<1>4. ASSUME NEW t \in Transactions, ReadJournal(h, t)
      PROVE  /\ recovery'[h].left = recovery[h].left \ {t}
             /\ \/ /\ (journal[t].status = "applying" => RecordedAsCommitted(t))
                   /\ recovery'[h].at = "journals"
                \/ /\ journal[t].status = "applying" /\ ~RecordedAsCommitted(t)
                   /\ recovery'[h].at = "restoring" /\ recovery'[h].of = t
                   /\ recovery'[h].todo = Touches[t]
  <2> DEFINE rest == [recovery[h] EXCEPT !.left = @ \ {t}]
  <2>1. /\ rest.left = recovery[h].left \ {t}
        /\ recovery[h].at = "journals" => rest.at = "journals"
        /\ LET r == [rest EXCEPT !.at = "restoring", !.of = t, !.todo = Touches[t], !.clean = TRUE] IN
           r.at = "restoring" /\ r.of = t /\ r.todo = Touches[t] /\ r.left = rest.left
    OBVIOUS
  <2>2. recovery[h].at = "journals"
    BY <1>4 DEF ReadJournal
  <2>3. \/ /\ journal[t].status = "applying" => RecordedAsCommitted(t)
           /\ recovery'[h] = rest
        \/ /\ journal[t].status = "applying" /\ ~RecordedAsCommitted(t)
           /\ recovery'[h] = [rest EXCEPT !.at = "restoring", !.of = t, !.todo = Touches[t], !.clean = TRUE]
    BY <1>4 DEF ReadJournal
  <2> QED
    BY <2>1, <2>2, <2>3
<1>5. ASSUME NEW f \in Files, RecoverOne(h, f)
      PROVE  /\ recovery'[h].at = recovery[h].at /\ recovery[h].at = "restoring"
             /\ recovery'[h].of = recovery[h].of /\ recovery'[h].left = recovery[h].left
             /\ recovery'[h].todo = recovery[h].todo \ {f}
             /\ \/ file' = [file EXCEPT ![f] = journal[recovery[h].of].before[f]]
                \/ file' = file /\ ~recovery'[h].clean
             /\ recovery'[h].clean => recovery[h].clean
  <2>1. CASE /\ SetFile(f, journal[recovery[h].of].before[f])
             /\ Recovery(h, [recovery[h] EXCEPT !.todo = @ \ {f}])
    BY <1>5, <2>1 DEF RecoverOne, SetFile
  <2>2. CASE /\ Recovery(h, [recovery[h] EXCEPT !.todo = @ \ {f}, !.clean = FALSE])
             /\ UNCHANGED file
    BY <1>5, <2>2 DEF RecoverOne
  <2> QED
    BY <1>5, <2>1, <2>2 DEF RecoverOne
<1>6. Recovered(h) =>
        /\ recovery[h].at = "restoring" /\ recovery'[h].at = "journals"
        /\ recovery'[h].left = recovery[h].left
  BY DEF Recovered
<1> QED
  BY <1>1, <1>2, <1>3, <1>4, <1>5, <1>6

\* A crash ends what its process had under way, and nothing else.
LEMMA CrashEffects ==
  ASSUME NEW h \in Hosts, Crash(h)
  PROVE  /\ UNCHANGED <<file, record, lock, journal, hypothesis, certificate, invocation, commits, trespass, faults>>
         /\ host' = [host EXCEPT ![h] = "dead"] /\ recovery' = [recovery EXCEPT ![h] = Asleep]
         /\ \A t \in Transactions :
              IF invocation[t].by = h
              THEN call'[t].at = "over" /\ request'[t] = NoRequest
              ELSE call'[t] = call[t] /\ request'[t] = request[t]
BY DEF Crash, NoCall

LEMMA EditEffects ==
  ASSUME NEW f \in Files, Edit(f)
  PROVE  /\ UNCHANGED <<host, recovery, record, lock, journal, protocolVars, call, commits, trespass>>
         /\ \A t \in Transactions : f \notin Touches[t]
         /\ file' = [file EXCEPT ![f] = Edited]
BY DEF Edit, SetFile

-----------------------------------------------------------------------------
(* The protocol's invariants *)

LEMMA BeforesKnownNext ==
  ASSUME Types, BeforesKnown, Next, Types' PROVE BeforesKnown'
<1>0. (\A t \in Transactions : BeforeKnown(t)) /\ (\A h \in Hosts : RestoreKnown(h))
  BY DEF BeforesKnown
<1>1. ASSUME NEW t \in Transactions, Protocol(t) PROVE BeforesKnown'
  BY <1>1, ProtocolLeaves DEF BeforesKnown, BeforeKnown, RestoreKnown
<1>2. ASSUME NEW t \in Transactions, TakeLock(t) \/ CommitStep(t) PROVE BeforesKnown'
  <2>1. recovery' = recovery
    BY <1>2, CommitLeaves DEF TakeLock
  <2>2. CommitGoes(t) /\ CommitWrites(t)
    BY <1>2, CommitEffects, CommitWritesOnly
  <2>3. \A u \in Transactions : journal[u].status # "none" => journal'[u].status # "none"
    <3>1. Prepare(t) => journal'[t].status = "prepared"
      BY DEF Prepare, Types
    <3> QED
      BY <2>2, <3>1 DEF CommitWrites, CommitGoes, Types, JournalType
  <2>4. ASSUME NEW u \in Transactions PROVE BeforeKnown(u)'
    <3>1. CASE u # t
      BY <3>1, <2>2, <1>0 DEF CommitGoes, BeforeKnown
    <3>2. CASE u = t /\ Prepare(t)
      <4>1. journal'[t] = [status |-> "prepared", before |-> [f \in Touches[t] |-> file[f]]]
        BY <3>2 DEF Prepare, Types
      <4>2. call'[t].at = "prepared"
        BY <3>2 DEF Prepare, Goes, Types, CallType
      <4>3. [f \in Touches[t] |-> file[f]] \in [Touches[t] -> Contents]
        BY ContentTypes DEF Types
      <4> QED
        BY <3>2, <4>1, <4>2, <4>3 DEF BeforeKnown
    <3>3. CASE u = t /\ ~Prepare(t)
      <4>1. call'[t].at \in AfterPrepare => journal'[t].status # "none"
        BY <3>3, <2>2, <2>3, <1>0 DEF CommitGoes, BeforeKnown
      <4>2. call'[t].at \in {"applying", "restoring"} => call'[t].todo \subseteq Touches[t]
        BY <3>3, <2>2, <1>0 DEF CommitGoes, BeforeKnown
      <4>3. journal'[t].status # "none" => journal'[t].before \in [Touches[t] -> Contents]
        <5>1. CASE journal' = journal
          BY <5>1, <1>0 DEF BeforeKnown
        <5>2. CASE call[t].at \in AfterConsume /\ \E s \in Statuses \ {"none"} : journal' = [journal EXCEPT ![t].status = s]
          <6>1. journal[t].status # "none"
            BY <5>2, <1>0 DEF BeforeKnown, AfterPrepare
          <6>2. journal'[t].before = journal[t].before
            BY <5>2 DEF Types, JournalType
          <6> QED
            BY <6>1, <6>2, <1>0 DEF BeforeKnown
        <5> QED
          BY <5>1, <5>2, <3>3, <2>2 DEF CommitWrites
      <4> QED
        BY <3>3, <4>1, <4>2, <4>3 DEF BeforeKnown
    <3> QED
      BY <3>1, <3>2, <3>3
  <2>5. ASSUME NEW h \in Hosts PROVE RestoreKnown(h)'
    BY <2>1, <2>3, <1>0 DEF RestoreKnown
  <2> QED
    BY <2>4, <2>5 DEF BeforesKnown
<1>3. ASSUME NEW h \in Hosts, Start(h) PROVE BeforesKnown'
  BY <1>3 DEF Start, BeforesKnown, BeforeKnown, RestoreKnown
<1>4. ASSUME NEW h \in Hosts, RecoveryStep(h) PROVE BeforesKnown'
  <2>0. call' = call
    BY <1>4, RecoveryLeaves
  <2>1. CASE ReadLock(h) \/ RemoveLock(h) \/ ListJournals(h) \/ Started(h)
    <3>1. journal' = journal
      BY <2>1 DEF ReadLock, RemoveLock, ListJournals, Started
    <3>2. \A g \in Hosts : recovery'[g] = recovery[g] \/ recovery'[g].at # "restoring"
      BY <2>1, <1>4, RecoveryMoves DEF Started
    <3> QED
      BY <2>0, <3>1, <3>2, <1>0 DEF BeforesKnown, BeforeKnown, RestoreKnown
  <2>2. ASSUME NEW t \in Transactions, ReadJournal(h, t) PROVE BeforesKnown'
    <3>1. \A u \in Transactions : /\ journal'[u].before = journal[u].before
                                  /\ journal'[u].status = "none" <=> journal[u].status = "none"
      BY <2>2 DEF ReadJournal, Concludes, Journals, Types, JournalType
    <3>2. \A g \in Hosts : \/ recovery'[g] = recovery[g] \/ recovery'[g].at # "restoring"
                           \/ /\ recovery'[g].of = t /\ recovery'[g].todo = Touches[t]
                              /\ journal[t].status = "applying"
      BY <2>2, <1>4, RecoveryMoves
    <3>3. \A u \in Transactions : BeforeKnown(u)'
      BY <2>0, <3>1, <1>0 DEF BeforeKnown
    <3>4. \A g \in Hosts : RestoreKnown(g)'
      BY <3>1, <3>2, <1>0 DEF RestoreKnown
    <3> QED
      BY <3>3, <3>4 DEF BeforesKnown
  <2>3. ASSUME NEW f \in Files, RecoverOne(h, f) PROVE BeforesKnown'
    <3>1. journal' = journal
      BY <2>3 DEF RecoverOne
    <3>2. \A g \in Hosts : \/ recovery'[g] = recovery[g]
                           \/ /\ recovery'[g].of = recovery[g].of /\ recovery[g].at = "restoring"
                              /\ recovery'[g].todo \subseteq recovery[g].todo
      BY <2>3, <1>4, RecoveryMoves
    <3> QED
      BY <2>0, <3>1, <3>2, <1>0 DEF BeforesKnown, BeforeKnown, RestoreKnown
  <2>4. CASE Recovered(h)
    <3>1. recovery[h].of \in Transactions /\ journal[recovery[h].of].status # "none"
      BY <2>4, <1>0 DEF Recovered, RecoveryAt, RestoreKnown
    <3>2. \A u \in Transactions : /\ journal'[u].before = journal[u].before
                                  /\ journal'[u].status = "none" <=> journal[u].status = "none"
      BY <2>4, <3>1 DEF Recovered, Concludes, Outcome, Journals, Types, JournalType
    <3>3. \A g \in Hosts : recovery'[g] = recovery[g] \/ recovery'[g].at # "restoring"
      BY <2>4, <1>4, RecoveryMoves
    <3>4. \A u \in Transactions : BeforeKnown(u)'
      BY <2>0, <3>2, <1>0 DEF BeforeKnown
    <3>5. \A g \in Hosts : RestoreKnown(g)'
      BY <3>2, <3>3, <1>0 DEF RestoreKnown
    <3> QED
      BY <3>4, <3>5 DEF BeforesKnown
  <2> QED
    BY <1>4, <2>1, <2>2, <2>3, <2>4 DEF RecoveryStep
<1>5. ASSUME NEW h \in Hosts, Crash(h) PROVE BeforesKnown'
  <2>1. \A t \in Transactions : call'[t] = call[t] \/ call'[t].at = "over"
    BY <1>5, CrashEffects
  <2>2. \A g \in Hosts : recovery'[g] = recovery[g] \/ recovery'[g].at # "restoring"
    BY <1>5, CrashEffects DEF Types, Asleep
  <2>3. journal' = journal
    BY <1>5, CrashEffects
  <2> QED
    BY <2>1, <2>2, <2>3, <1>0 DEF BeforesKnown, BeforeKnown, RestoreKnown, AfterPrepare, AfterConsume
<1>6. ASSUME NEW f \in Files, Edit(f) PROVE BeforesKnown'
  BY <1>6, EditEffects DEF BeforesKnown, BeforeKnown, RestoreKnown
<1> QED
  BY <1>1, <1>2, <1>3, <1>4, <1>5, <1>6 DEF Next

LEMMA InvocationsKnownNext ==
  ASSUME Types, InvocationsKnown, Next PROVE InvocationsKnown'
<1>0. /\ host \in [Hosts -> {"off", "starting", "up", "dead"}]
      /\ invocation \in [Transactions -> InvocationType]
      /\ hypothesis \in [Transactions -> HypothesisType]
  BY DEF Types
<1>1. ASSUME NEW t \in Transactions, Protocol(t) PROVE InvocationsKnown'
  <2> USE <1>0 DEF InvocationsKnown, InvocationType, HypothesisType
  <2>0. host' = host
    BY <1>1, ProtocolLeaves
  <2>1. ASSUME NEW h \in Hosts, Hypothesize(t, h) PROVE InvocationsKnown'
    BY <2>0, <2>1, ValueAssumption DEF Hypothesize
  <2>2. CASE VerifyBegins(t) \/ VerifyIssues(t) \/ VerifyFails(t) \/ AbortBegins(t)
    BY <2>0, <2>2 DEF VerifyBegins, VerifyIssues, VerifyFails, AbortBegins
  <2>3. CASE VerifyEnds(t)
    BY <2>0, <2>3 DEF VerifyEnds, Becomes, Running
  <2>4. CASE AbortEnds(t)
    BY <2>0, <2>4 DEF AbortEnds, Becomes, Running
  <2>5. CASE EndCertificate(t)
    BY <2>0, <2>5 DEF EndCertificate
  <2>6. CASE EndHypothesis(t)
    BY <2>0, <2>6 DEF EndHypothesis, Becomes
  <2> QED
    BY <1>1, <2>1, <2>2, <2>3, <2>4, <2>5, <2>6 DEF Protocol
<1>2. ASSUME NEW t \in Transactions, TakeLock(t) \/ CommitStep(t) PROVE InvocationsKnown'
  <2>1. host' = host /\ invocation' = invocation
    BY <1>2, CommitLeaves DEF TakeLock
  <2>2. \A u \in Transactions : hypothesis'[u].status = "none" <=> hypothesis[u].status = "none"
    <3>1. \/ hypothesis' = hypothesis
          \/ hypothesis[t].status = "verified" /\ hypothesis' = [hypothesis EXCEPT ![t].status = "committed"]
      BY <1>2, CommitWritesOnly DEF CommitWrites
    <3> QED
      BY <3>1, <1>0 DEF HypothesisType
  <2> QED
    BY <2>1, <2>2 DEF InvocationsKnown
<1>3. ASSUME NEW h \in Hosts, Start(h) PROVE InvocationsKnown'
  BY <1>3, <1>0 DEF Start, InvocationsKnown
<1>4. ASSUME NEW h \in Hosts, RecoveryStep(h) PROVE InvocationsKnown'
  <2>1. hypothesis' = hypothesis /\ invocation' = invocation /\ (host' = host \/ host' = [host EXCEPT ![h] = "up"])
    BY <1>4, RecoveryLeaves
  <2> QED
    BY <2>1, <1>0 DEF InvocationsKnown, InvocationType
<1>5. ASSUME NEW h \in Hosts, Crash(h) PROVE InvocationsKnown'
  BY <1>5, <1>0, CrashEffects DEF InvocationsKnown, InvocationType
<1>6. ASSUME NEW f \in Files, Edit(f) PROVE InvocationsKnown'
  BY <1>6, EditEffects DEF InvocationsKnown
<1> QED
  BY <1>1, <1>2, <1>3, <1>4, <1>5, <1>6 DEF Next

\* A process that starts has no invocation, and one that is dead has none that runs.
LEMMA RunningStays ==
  ASSUME Types, InvocationsKnown, Next, NEW t \in Transactions, Running(t)'
  PROVE  Running(t) \/ hypothesis[t].status = "none"
<1>0. /\ host \in [Hosts -> {"off", "starting", "up", "dead"}]
      /\ invocation \in [Transactions -> InvocationType]
  BY DEF Types
<1>1. ASSUME NEW u \in Transactions, Protocol(u) PROVE Running(t) \/ hypothesis[t].status = "none"
  <2>0. host' = host
    BY <1>1, ProtocolLeaves
  <2>1. invocation'[t].by = invocation[t].by \/ hypothesis[t].status = "none"
    BY <1>1, <1>0 DEF Protocol, Hypothesize, VerifyBegins, VerifyIssues, VerifyFails, VerifyEnds,
       AbortBegins, AbortEnds, EndCertificate, EndHypothesis, InvocationType
  <2> QED
    BY <2>0, <2>1 DEF Running
<1>2. ASSUME NEW u \in Transactions, TakeLock(u) \/ CommitStep(u) PROVE Running(t)
  BY <1>2, CommitLeaves DEF TakeLock, Running
<1>3. ASSUME NEW h \in Hosts, Start(h) PROVE Running(t)
  BY <1>3, <1>0 DEF Start, Running, InvocationsKnown
<1>4. ASSUME NEW h \in Hosts, RecoveryStep(h) PROVE Running(t)
  <2>1. invocation' = invocation /\ host[h] = "starting" /\ (host' = host \/ host' = [host EXCEPT ![h] = "up"])
    BY <1>4, RecoveryLeaves
  <2> QED
    BY <2>1, <1>0 DEF Running, InvocationsKnown, InvocationType
<1>5. ASSUME NEW h \in Hosts, Crash(h) PROVE Running(t)
  BY <1>5, <1>0, CrashEffects DEF Running, InvocationType
<1>6. ASSUME NEW f \in Files, Edit(f) PROVE Running(t)
  BY <1>6, EditEffects DEF Running
<1> QED
  BY <1>1, <1>2, <1>3, <1>4, <1>5, <1>6 DEF Next

LEMMA IssuedOnceNext ==
  ASSUME Types, InvocationsKnown, IssuedOnce, Next PROVE IssuedOnce'
<1>0. /\ invocation \in [Transactions -> InvocationType]
      /\ hypothesis \in [Transactions -> HypothesisType]
      /\ certificate \in [Transactions -> {"none", "active", "consumed", "aborted", "abandoned"}]
      /\ request \in [Transactions -> RequestType]
      /\ call \in [Transactions -> CallType]
  BY DEF Types
<1>a. \A t \in Transactions : IssueKnown(t)
  BY DEF IssuedOnce
<1>b. \A t \in Transactions : Running(t)' => Running(t) \/ hypothesis[t].status = "none"
  BY RunningStays
<1>1. ASSUME NEW t \in Transactions, Protocol(t), NEW u \in Transactions PROVE IssueKnown(u)'
  <2> USE <1>0, <1>a, <1>b DEF IssueKnown, HypothesisType, RequestType
  <2>0. call' = call
    BY <1>1, ProtocolLeaves
  <2>1. ASSUME NEW h \in Hosts, Hypothesize(t, h) PROVE IssueKnown(u)'
    BY <2>0, <2>1 DEF Hypothesize
  <2>2. CASE VerifyBegins(t)
    BY <2>0, <2>2 DEF VerifyBegins, Asks, InUse, NoRequest
  <2>3. CASE VerifyIssues(t)
    BY <2>0, <2>3 DEF VerifyIssues, Asks, Certifies
  <2>4. CASE VerifyFails(t)
    BY <2>0, <2>4 DEF VerifyFails, Asks, NoRequest
  <2>5. CASE VerifyEnds(t)
    <3>1. CASE Becomes(t, "verified") /\ UNCHANGED certificate
      BY <2>0, <2>5, <3>1 DEF VerifyEnds, Asks, NoRequest, Becomes
    <3>2. CASE Certifies(t, "aborted") /\ UNCHANGED hypothesis
      BY <2>0, <2>5, <3>2 DEF VerifyEnds, Asks, NoRequest, Certifies
    <3> QED
      BY <2>5, <3>1, <3>2 DEF VerifyEnds
  <2>6. CASE AbortBegins(t)
    BY <2>0, <2>6 DEF AbortBegins, Asks, NoRequest, Certifies, Issued
  <2>7. CASE AbortEnds(t)
    BY <2>0, <2>7 DEF AbortEnds, Asks, NoRequest, Becomes
  <2>8. CASE EndCertificate(t)
    <3>1. \/ certificate' = certificate
          \/ /\ certificate[t] = "active" /\ request[t].at # "issued"
             /\ certificate' = [certificate EXCEPT ![t] = "abandoned"]
      BY <2>8 DEF EndCertificate, Certifies, Issued
    <3>2. UNCHANGED <<request, hypothesis>>
      BY <2>8 DEF EndCertificate
    <3>3. CASE u # t
      BY <2>0, <3>1, <3>2, <3>3
    <3>4. CASE u = t
      BY <2>0, <3>1, <3>2, <3>4
    <3> QED
      BY <3>3, <3>4
  <2>9. CASE EndHypothesis(t)
    <3>1. \/ hypothesis' = hypothesis
          \/ /\ hypothesis[t].status \in {"active", "verified"}
             /\ hypothesis' = [hypothesis EXCEPT ![t].status = "abandoned"]
      BY <2>9 DEF EndHypothesis, Becomes
    <3>2. UNCHANGED <<request, certificate>>
      BY <2>9 DEF EndHypothesis
    <3>3. \/ hypothesis'[u].status = hypothesis[u].status
          \/ hypothesis'[u].status = "abandoned" /\ hypothesis[u].status # "none"
      BY <3>1
    <3> QED
      BY <2>0, <3>2, <3>3
  <2> QED
    BY <1>1, <2>1, <2>2, <2>3, <2>4, <2>5, <2>6, <2>7, <2>8, <2>9 DEF Protocol
<1>2. ASSUME NEW t \in Transactions, TakeLock(t) \/ CommitStep(t), NEW u \in Transactions PROVE IssueKnown(u)'
  <2>1. request' = request /\ (Running(u)' <=> Running(u))
    BY <1>2, CommitLeaves DEF TakeLock, Running
  <2>2. CommitGoes(t) /\ CommitWrites(t)
    BY <1>2, CommitEffects, CommitWritesOnly
  <2>3. CASE u # t
    BY <2>1, <2>2, <2>3, <1>a DEF CommitGoes, IssueKnown
  <2>4. CASE u = t
    <3>1. certificate[t] # "none" /\ request[t].at # "issued"
      BY <1>2, <1>a, CommitLeaves DEF TakeLock, Issued, IssueKnown
    <3>2. certificate'[t] \in {certificate[t], "consumed"}
      BY <2>2, <1>0 DEF CommitWrites, Consume, Certifies
    <3>3. hypothesis'[t].status = hypothesis[t].status \/ hypothesis'[t].status = "committed"
      BY <2>2, <1>0 DEF CommitWrites, HypothesisType
    <3>4. request[t].at # "evidence"
      BY <3>1, <1>a DEF IssueKnown
    <3> QED
      BY <2>1, <2>4, <3>1, <3>2, <3>3, <3>4, <1>a DEF IssueKnown
  <2> QED
    BY <2>3, <2>4
<1>3. ASSUME NEW h \in Hosts, Start(h) PROVE IssuedOnce'
  BY <1>3, <1>a, <1>b DEF Start, IssuedOnce, IssueKnown
<1>4. ASSUME NEW h \in Hosts, RecoveryStep(h) PROVE IssuedOnce'
  BY <1>4, <1>a, <1>b, RecoveryLeaves DEF IssuedOnce, IssueKnown
<1>5. ASSUME NEW h \in Hosts, Crash(h), NEW t \in Transactions PROVE IssueKnown(t)'
  <2>1. UNCHANGED <<hypothesis, certificate>>
    BY <1>5, CrashEffects
  <2>2. \/ call'[t] = call[t] /\ request'[t] = request[t]
        \/ call'[t].at = "over" /\ request'[t].at = "none" /\ ~Running(t)'
    BY <1>5, CrashEffects DEF NoRequest, Running, Types
  <2> QED
    BY <2>1, <2>2, <1>a, <1>b DEF IssueKnown, AtRest
<1>6. ASSUME NEW f \in Files, Edit(f) PROVE IssuedOnce'
  BY <1>6, <1>a, <1>b, EditEffects DEF IssuedOnce, IssueKnown
<1> QED
  BY <1>1, <1>2, <1>3, <1>4, <1>5, <1>6 DEF Next, IssuedOnce

\* A consumed certificate stays consumed, and only an active one becomes so.
LEMMA CertificateFinal ==
  ASSUME Types, IssuedOnce, Next, NEW t \in Transactions
  PROVE  /\ certificate[t] = "consumed" => certificate'[t] = "consumed"
         /\ certificate'[t] = "consumed" => certificate[t] \in {"active", "consumed"}
<1>0. certificate \in [Transactions -> {"none", "active", "consumed", "aborted", "abandoned"}]
  BY DEF Types
<1>1. ASSUME NEW u \in Transactions, Protocol(u)
      PROVE  \/ certificate' = certificate
             \/ /\ certificate[u] # "consumed"
                /\ \E c \in {"active", "aborted", "abandoned"} : certificate' = [certificate EXCEPT ![u] = c]
  <2>0. IssueKnown(u)
    BY DEF IssuedOnce
  <2>1. CASE VerifyIssues(u)
    BY <2>0, <2>1 DEF VerifyIssues, Certifies, IssueKnown
  <2>2. CASE VerifyEnds(u)
    BY <2>0, <2>2 DEF VerifyEnds, Certifies, IssueKnown
  <2>3. CASE AbortBegins(u)
    BY <2>3 DEF AbortBegins, Certifies
  <2>4. CASE EndCertificate(u)
    BY <2>4 DEF EndCertificate, Certifies
  <2>5. CASE ~(VerifyIssues(u) \/ VerifyEnds(u) \/ AbortBegins(u) \/ EndCertificate(u))
    BY <1>1, <2>5 DEF Protocol, Hypothesize, VerifyBegins, VerifyFails, AbortEnds, EndHypothesis
  <2> QED
    BY <2>1, <2>2, <2>3, <2>4, <2>5
<1>2. ASSUME NEW u \in Transactions, TakeLock(u) \/ CommitStep(u)
      PROVE  \/ certificate' = certificate
             \/ certificate[u] = "active" /\ certificate' = [certificate EXCEPT ![u] = "consumed"]
  BY <1>2, CommitWritesOnly DEF CommitWrites, Consume, SameCertificate, Certifies
<1>3. ASSUME NEW h \in Hosts, Start(h) \/ RecoveryStep(h) \/ Crash(h) PROVE certificate' = certificate
  BY <1>3, RecoveryLeaves, CrashEffects DEF Start
<1>4. ASSUME NEW f \in Files, Edit(f) PROVE certificate' = certificate
  BY <1>4, EditEffects
<1>5. CASE \E u \in Transactions : Protocol(u)
  BY <1>5, <1>1, <1>0
<1>6. CASE \E u \in Transactions : TakeLock(u) \/ CommitStep(u)
  BY <1>6, <1>2, <1>0
<1> QED
  BY <1>5, <1>6, <1>3, <1>4 DEF Next

LEMMA TracesConsumedNext ==
  ASSUME Types, BeforesKnown, IssuedOnce, TracesConsumed, Next PROVE TracesConsumed'
<1>0. /\ journal \in [Transactions -> JournalType]
      /\ file \in [Files -> Contents]
      /\ recovery \in [Hosts -> RecoveryType]
      /\ certificate \in [Transactions -> {"none", "active", "consumed", "aborted", "abandoned"}]
  BY DEF Types
<1>a. /\ \A t \in Transactions : LeavesTrace(t) => certificate[t] = "consumed"
      /\ \A h \in Hosts : recovery[h].at = "restoring" => certificate[recovery[h].of] = "consumed"
  BY DEF TracesConsumed
<1>b. \A t \in Transactions : certificate[t] = "consumed" => certificate'[t] = "consumed"
  BY CertificateFinal
<1>c. (\A t \in Transactions : BeforeKnown(t)) /\ (\A h \in Hosts : RestoreKnown(h))
  BY DEF BeforesKnown
<1>1. ASSUME NEW t \in Transactions, Protocol(t) PROVE TracesConsumed'
  <2>1. UNCHANGED <<recovery, file, journal, call, commits>>
    BY <1>1, ProtocolLeaves
  <2>2. \A u \in Transactions : LeavesTrace(u)' => LeavesTrace(u)
    BY <2>1 DEF LeavesTrace
  <2>3. \A h \in Hosts : recovery[h].at = "restoring" => recovery[h].of \in Transactions
    BY <1>c DEF RestoreKnown
  <2> QED
    BY <2>1, <2>2, <2>3, <1>a, <1>b DEF TracesConsumed
<1>2. ASSUME NEW t \in Transactions, TakeLock(t) \/ CommitStep(t) PROVE TracesConsumed'
  <2>1. recovery' = recovery
    BY <1>2, CommitLeaves DEF TakeLock
  <2>2. CommitGoes(t) /\ CommitWrites(t)
    BY <1>2, CommitEffects, CommitWritesOnly
  <2>3. Consume(t) => certificate'[t] = "consumed"
    BY <1>0 DEF Consume, Certifies
  <2>4. call[t].at \in AfterConsume => certificate'[t] = "consumed"
    BY <1>a, <1>b DEF LeavesTrace
  <2>5. /\ call[t].at \in AfterConsume => journal[t].status # "none"
        /\ call[t].at = "restoring" => call[t].todo \subseteq Touches[t]
    BY <1>c DEF BeforeKnown, AfterPrepare
  <2>6. ASSUME NEW u \in Transactions, LeavesTrace(u)' PROVE certificate'[u] = "consumed"
    <3>1. CASE journal'[u].status \notin {"none", "prepared"}
      <4>1. CASE u # t
        BY <4>1, <3>1, <2>2, <1>a, <1>b DEF CommitGoes, LeavesTrace
      <4>2. CASE u = t /\ Prepare(t)
        BY <4>2, <3>1, <1>0 DEF Prepare
      <4>3. CASE u = t /\ journal' = journal
        BY <4>3, <3>1, <1>a, <1>b DEF LeavesTrace
      <4> QED
        BY <4>1, <4>2, <4>3, <2>2, <2>4 DEF CommitWrites
    <3>2. CASE call'[u].at \in AfterConsume
      BY <3>2, <2>2, <2>3, <2>4, <1>a, <1>b DEF CommitGoes, LeavesTrace
    <3>3. CASE u \in commits'
      BY <3>3, <2>2, <2>4, <1>a, <1>b DEF CommitWrites, LeavesTrace, AfterConsume
    <3>4. CASE \E f \in Files : file'[f] = u
      <4>1. PICK f \in Files : file'[f] = u
        BY <3>4
      <4>2. CASE file[f] = u
        BY <4>2, <1>a, <1>b DEF LeavesTrace
      <4>3. CASE call[t].at = "applying" /\ u = t
        BY <4>3, <2>4 DEF AfterConsume
      <4>4. CASE call[t].at = "restoring" /\ f \in call[t].todo /\ u = journal[t].before[f]
        <5>1. journal[t].status # "none" /\ f \in Touches[t]
          BY <4>4, <2>5 DEF AfterConsume
        <5> QED
          BY <5>1, <4>4, <1>a, <1>b DEF LeavesTrace
      <4>5. file[f] = u \/ (call[t].at = "applying" /\ u = t)
              \/ (call[t].at = "restoring" /\ f \in call[t].todo /\ u = journal[t].before[f])
        BY <4>1, <2>2, <1>0 DEF CommitWrites
      <4> QED
        BY <4>2, <4>3, <4>4, <4>5
    <3>5. CASE \E v \in Transactions :
                 journal'[v].status # "none" /\ \E f \in Touches[v] : journal'[v].before[f] = u
      <4>0. PICK v \in Transactions :
              journal'[v].status # "none" /\ \E f \in Touches[v] : journal'[v].before[f] = u
        BY <3>5
      <4>1. PICK f \in Touches[v] : journal'[v].status # "none" /\ journal'[v].before[f] = u
        BY <4>0
      <4>2. CASE Prepare(t) /\ v = t
        <5>1. journal'[t].before[f] = file[f] /\ f \in Files
          BY <4>1, <4>2, <1>0, TouchesAssumption DEF Prepare
        <5> QED
          BY <5>1, <4>1, <4>2, <1>a, <1>b DEF LeavesTrace
      <4>3. CASE ~(Prepare(t) /\ v = t)
        <5>1. journal'[v].before = journal[v].before /\ journal[v].status # "none"
          BY <4>1, <4>3, <2>2, <2>5, <1>0 DEF CommitWrites, CommitGoes, JournalType
        <5> QED
          BY <5>1, <4>1, <1>a, <1>b DEF LeavesTrace
      <4> QED
        BY <4>2, <4>3
    <3> QED
      BY <2>6, <3>1, <3>2, <3>3, <3>4, <3>5 DEF LeavesTrace
  <2>7. \A h \in Hosts : recovery'[h].at = "restoring" => certificate'[recovery'[h].of] = "consumed"
    BY <2>1, <1>a, <1>b, <1>c DEF RestoreKnown
  <2> QED
    BY <2>6, <2>7 DEF TracesConsumed
<1>3. ASSUME NEW h \in Hosts, Start(h) PROVE TracesConsumed'
  BY <1>3, <1>a DEF Start, TracesConsumed, LeavesTrace
<1>4. ASSUME NEW h \in Hosts, RecoveryStep(h) PROVE TracesConsumed'
  <2>0. UNCHANGED <<certificate, call, commits>>
    BY <1>4, RecoveryLeaves
  <2>1. \/ file' = file
        \/ /\ recovery[h].at = "restoring" /\ UNCHANGED journal
           /\ \E f \in Files \cap recovery[h].todo :
                file' = [file EXCEPT ![f] = journal[recovery[h].of].before[f]]
    BY <1>4 DEF RecoveryStep, ReadLock, RemoveLock, ListJournals, ReadJournal, RecoverOne, Recovered,
         Started, RecoveryAt, SetFile
  <2>2. \/ journal' = journal
        \/ \E t \in Transactions, s \in Statuses :
             /\ LeavesTrace(t) \/ (recovery[h].at = "restoring" /\ t = recovery[h].of)
             /\ journal[t].status # "none" /\ journal' = [journal EXCEPT ![t].status = s]
    <3>1. CASE ReadLock(h) \/ RemoveLock(h) \/ ListJournals(h) \/ Started(h) \/ \E f \in Files : RecoverOne(h, f)
      BY <3>1 DEF ReadLock, RemoveLock, ListJournals, RecoverOne, Started
    <3>2. ASSUME NEW t \in Transactions, ReadJournal(h, t), journal' # journal
          PROVE  /\ LeavesTrace(t) /\ journal[t].status # "none"
                 /\ journal' = [journal EXCEPT ![t].status = "committed"]
      BY <3>2 DEF ReadJournal, Concludes, Journals, LeavesTrace
    <3>3. CASE Recovered(h)
      BY <3>3, <1>c DEF Recovered, RecoveryAt, RestoreKnown, Concludes, Journals, Outcome, Statuses
    <3>4. "committed" \in Statuses
      BY DEF Statuses
    <3> QED
      BY <1>4, <3>1, <3>2, <3>3, <3>4 DEF RecoveryStep
  <2>3. \A t \in Transactions : /\ journal'[t].before = journal[t].before
                                /\ journal'[t].status # "none" => journal[t].status # "none"
    BY <2>2, <1>0 DEF JournalType
  <2>4. ASSUME NEW u \in Transactions, LeavesTrace(u)' PROVE certificate[u] = "consumed"
    <3>1. CASE journal'[u].status \notin {"none", "prepared"}
      <4>1. LeavesTrace(u) \/ (recovery[h].at = "restoring" /\ u = recovery[h].of)
        BY <3>1, <2>2, <1>0 DEF LeavesTrace
      <4> QED
        BY <4>1, <1>a
    <3>2. CASE call'[u].at \in AfterConsume \/ u \in commits'
      BY <3>2, <2>0, <1>a DEF LeavesTrace
    <3>3. CASE \E f \in Files : file'[f] = u
      <4>1. PICK f \in Files : file'[f] = u
        BY <3>3
      <4>2. CASE file[f] = u
        BY <4>2, <1>a DEF LeavesTrace
      <4>3. CASE recovery[h].at = "restoring" /\ f \in recovery[h].todo /\ u = journal[recovery[h].of].before[f]
        BY <4>3, <1>a, <1>c DEF LeavesTrace, RestoreKnown
      <4> QED
        BY <4>1, <4>2, <4>3, <2>1, <1>0
    <3>4. CASE \E v \in Transactions :
                 journal'[v].status # "none" /\ \E f \in Touches[v] : journal'[v].before[f] = u
      BY <3>4, <2>3, <1>a DEF LeavesTrace
    <3> QED
      BY <2>4, <3>1, <3>2, <3>3, <3>4 DEF LeavesTrace
  <2>5. ASSUME NEW g \in Hosts, recovery'[g].at = "restoring" PROVE certificate[recovery'[g].of] = "consumed"
    <3>1. CASE recovery'[g] = recovery[g]
      BY <2>5, <3>1, <1>a
    <3>2. ASSUME NEW t \in Transactions, ReadJournal(h, t), g = h PROVE certificate[recovery'[g].of] = "consumed"
      BY <1>4, <2>5, <3>2, <1>a, RecoveryMoves DEF LeavesTrace
    <3>3. ASSUME NEW f \in Files, RecoverOne(h, f), g = h PROVE certificate[recovery'[g].of] = "consumed"
      BY <1>4, <3>3, <1>a, RecoveryMoves
    <3>4. CASE g = h /\ (ReadLock(h) \/ RemoveLock(h) \/ ListJournals(h) \/ Recovered(h) \/ Started(h))
      BY <1>4, <2>5, <3>4, <1>a, RecoveryMoves DEF Started
    <3> QED
      BY <1>4, <3>1, <3>2, <3>3, <3>4, RecoveryMoves DEF RecoveryStep
  <2> QED
    BY <2>0, <2>4, <2>5 DEF TracesConsumed
<1>5. ASSUME NEW h \in Hosts, Crash(h) PROVE TracesConsumed'
  <2>1. UNCHANGED <<file, journal, certificate, commits>>
    BY <1>5, CrashEffects
  <2>2. \A t \in Transactions : call'[t].at \in AfterConsume => call[t].at \in AfterConsume
    BY <1>5, CrashEffects DEF AfterConsume
  <2>3. \A g \in Hosts : recovery'[g] = recovery[g] \/ recovery'[g].at # "restoring"
    BY <1>5, CrashEffects, <1>0 DEF Asleep
  <2>4. \A t \in Transactions : LeavesTrace(t)' => LeavesTrace(t)
    BY <2>1, <2>2 DEF LeavesTrace
  <2> QED
    BY <2>1, <2>3, <2>4, <1>a DEF TracesConsumed
<1>6. ASSUME NEW f \in Files, Edit(f) PROVE TracesConsumed'
  <2>1. UNCHANGED <<recovery, journal, certificate, call, commits>>
    BY <1>6, EditEffects
  <2>2. \A g \in Files : file'[g] = file[g] \/ file'[g] \notin Transactions
    BY <1>6, EditEffects, <1>0, ValueAssumption
  <2>3. \A t \in Transactions : LeavesTrace(t)' => LeavesTrace(t)
    BY <2>1, <2>2 DEF LeavesTrace
  <2> QED
    BY <2>1, <2>3, <1>a DEF TracesConsumed
<1> QED
  BY <1>1, <1>2, <1>3, <1>4, <1>5, <1>6 DEF Next

-----------------------------------------------------------------------------
LEMMA InitProtocol == Init => ProtocolInv
<1> SUFFICES ASSUME Init PROVE ProtocolInv
  OBVIOUS
<1>1. Types
  BY InitTypes
<1>2. BeforesKnown
  BY DEF Init, BeforesKnown, BeforeKnown, RestoreKnown, Asleep, NoCall, AfterPrepare, AfterConsume
<1>3. InvocationsKnown
  BY DEF Init, InvocationsKnown
<1>4. IssuedOnce
  BY DEF Init, IssuedOnce, IssueKnown, NoRequest, NoCall, AtRest
<1>5. TracesConsumed
  BY ValueAssumption DEF Init, TracesConsumed, LeavesTrace, NoCall, AfterConsume, Asleep
<1> QED
  BY <1>1, <1>2, <1>3, <1>4, <1>5 DEF ProtocolInv

LEMMA NextProtocol ==
  ASSUME ProtocolInv, [Next]_vars PROVE ProtocolInv'
<1>1. CASE Next
  <2>1. Types'
    BY <1>1, NextTypes DEF ProtocolInv
  <2> QED
    BY <1>1, <2>1, BeforesKnownNext, InvocationsKnownNext, IssuedOnceNext, TracesConsumedNext DEF ProtocolInv
<1>2. CASE UNCHANGED vars
  <2>1. Types'
    BY <1>2 DEF vars, Types, ProtocolInv
  <2>2. BeforesKnown' /\ InvocationsKnown'
    BY <1>2 DEF vars, ProtocolInv, BeforesKnown, BeforeKnown, RestoreKnown, InvocationsKnown
  <2>3. IssuedOnce' /\ TracesConsumed'
    BY <1>2 DEF vars, ProtocolInv, IssuedOnce, IssueKnown, Running, TracesConsumed, LeavesTrace
  <2> QED
    BY <2>1, <2>2, <2>3 DEF ProtocolInv
<1> QED
  BY <1>1, <1>2

\* The protocol's invariant: types, before images, invocations, certificates and traces,
\* whatever fails and whenever processes start.
THEOREM SchemaProtocol == Spec => []ProtocolInv
<1>1. Init => ProtocolInv
  BY InitProtocol
<1>2. ProtocolInv /\ [Next]_vars => ProtocolInv'
  BY NextProtocol
<1> QED
  BY <1>1, <1>2, PTL DEF Spec

\* The variables of a schema transaction have their types.
THEOREM SchemaTypeCorrect == Spec => []TypeOK
<1>1. ProtocolInv => TypeOK
  BY DEF ProtocolInv, Types, TypeOK, Records, Contents, JournalType, Statuses, LockType
<1> QED
  BY <1>1, SchemaProtocol, PTL

\* A transaction whose certificate was withdrawn changes nothing from then on: the
\* certificate is consumed before anything is changed, and never once it was withdrawn.
THEOREM SchemaWithdrawn == Spec => WithdrawnChangesNothing
<1> DEFINE Quiet1 == \A t \in Transactions : certificate[t] \in {"aborted", "abandoned"} =>
             /\ certificate'[t] # "consumed" /\ t \notin commits'
             /\ journal'[t].status \in {"none", "prepared"}
             /\ \A f \in Files : file'[f] # t
<1>1. ASSUME ProtocolInv, ProtocolInv', Next PROVE Quiet1
  <2>1. \A t \in Transactions : certificate[t] \in {"aborted", "abandoned"} => certificate'[t] # "consumed"
    BY <1>1, CertificateFinal DEF ProtocolInv
  <2>2. \A t \in Transactions : LeavesTrace(t)' => certificate'[t] = "consumed"
    BY <1>1 DEF ProtocolInv, TracesConsumed
  <2> QED
    BY <2>1, <2>2 DEF LeavesTrace
<1>2. ProtocolInv /\ ProtocolInv' /\ [Next]_vars => [Quiet1]_vars
  BY <1>1
<1> QED
  BY <1>2, SchemaProtocol, PTL DEF Spec, WithdrawnChangesNothing

-----------------------------------------------------------------------------
(* Until the first trespass: who is alone *)

\* A trespass is remembered, and a step that is none met what it would have been one for.
LEMMA NoTrespass ==
  ASSUME Types, Next, ~trespass'
  PROVE  /\ ~trespass
         /\ \A t \in Transactions :
              /\ TakeLock(t) => HalfDone = {}
              /\ PutCommitted(t) => ~Forgets(t)
              /\ RecordOutcome(t) => record' = record \/ ~Forgets(t)
         /\ \A h \in Hosts :
              /\ RemoveLock(h) => lock.by \notin Committing \/ (recovery[h].saw.by = lock.by /\ recovery[h].saw.pid)
              /\ \A t \in Transactions : ReadJournal(h, t) /\ journal[t].status = "applying" /\ ~RecordedAsCommitted(t) =>
                   t \notin Committing /\ \A g \in Restoring : recovery[g].of # t
<1>1. ASSUME NEW t \in Transactions
      PROVE  /\ TakeLock(t) => HalfDone = {}
             /\ PutCommitted(t) => ~Forgets(t)
             /\ RecordOutcome(t) => record' = record \/ ~Forgets(t)
  <2>1. TakeLock(t) => HalfDone = {}
    BY DEF TakeLock, Trespass
  <2>2. PutCommitted(t) => ~Forgets(t)
    BY DEF PutCommitted, Trespass
  <2>3. RecordOutcome(t) => record' = record \/ ~Forgets(t)
    BY DEF RecordOutcome, Trespass
  <2> QED
    BY <2>1, <2>2, <2>3
<1>2. ASSUME NEW h \in Hosts
      PROVE  RemoveLock(h) => lock.by \notin Committing \/ (recovery[h].saw.by = lock.by /\ recovery[h].saw.pid)
  BY DEF RemoveLock, Trespass
<1>3. ASSUME NEW h \in Hosts, NEW t \in Transactions, ReadJournal(h, t), journal[t].status = "applying",
             ~RecordedAsCommitted(t)
      PROVE  t \notin Committing /\ \A g \in Restoring : recovery[g].of # t
  BY <1>3 DEF ReadJournal, Trespass
<1>4. ~trespass
  <2>1. ASSUME NEW t \in Transactions, Protocol(t) PROVE ~trespass
    BY <2>1, ProtocolLeaves
  <2>2. ASSUME NEW t \in Transactions, TakeLock(t) PROVE ~trespass
    BY <2>2 DEF TakeLock, Trespass
  <2>3. ASSUME NEW t \in Transactions, CommitStep(t) PROVE ~trespass
    BY <2>3 DEF CommitStep, WritePid, Prepare, Refuse, Consume, NotConsumed, StartApplying, Apply, RestoreOne, Applied,
         Confirm, PutCommitted, Fails, JournalCommitted, Finish, Restored, RecordOutcome, Unlock, Trespass
  <2>4. ASSUME NEW h \in Hosts, RecoveryStep(h) PROVE ~trespass
    BY <2>4 DEF RecoveryStep, ReadLock, RemoveLock, ListJournals, ReadJournal, RecoverOne, Recovered, Started, Trespass
  <2>5. ASSUME NEW h \in Hosts, Start(h) \/ Crash(h) PROVE ~trespass
    BY <2>5 DEF Start, Crash
  <2>6. ASSUME NEW f \in Files, Edit(f) PROVE ~trespass
    BY <2>6, EditEffects
  <2> QED
    BY <2>1, <2>2, <2>3, <2>4, <2>5, <2>6 DEF Next
<1> QED
  BY <1>1, <1>2, <1>3, <1>4

\* Beside a process that restores nothing is under way.
LEMMA RestoringAlone ==
  ASSUME Types, Undisturbed, NEW h \in Restoring
  PROVE  /\ Committing = {} /\ recovery[h].of \in HalfDone
         /\ \A u \in HalfDone : u = recovery[h].of
         /\ \A g \in Restoring : g = h
         /\ \A t \in Transactions : call[t].at \in AtRest
<1>0. h \in Hosts /\ RecoveryKnows(h) /\ Exclusive
  BY DEF Undisturbed, Restoring
<1>1. recovery[h].of \in HalfDone /\ recovery[h].of \notin Committing
  BY <1>0 DEF RecoveryKnows
<1>2. \A u \in HalfDone \cup Committing : u = recovery[h].of
  BY <1>0, <1>1 DEF Exclusive
<1>3. Committing = {} /\ \A t \in Transactions : call[t].at \in AtRest
  BY <1>1, <1>2 DEF Committing
<1>4. ASSUME NEW g \in Restoring PROVE g = h
  <2>1. g \in Hosts /\ RecoveryKnows(g)
    BY DEF Undisturbed, Restoring
  <2>2. recovery[g].of = recovery[h].of
    BY <2>1, <1>2 DEF RecoveryKnows
  <2> QED
    BY <1>0, <2>2 DEF RecoveryKnows
<1> QED
  BY <1>1, <1>2, <1>3, <1>4

\* A commit's step is of the one commit under way, which holds the lock.
LEMMA CommitAlone ==
  ASSUME Types, Undisturbed, NEW t \in Transactions, CommitStep(t)
  PROVE  /\ Restoring = {} /\ Restoring' = {}
         /\ t \in Committing /\ Running(t) /\ lock.by = t
         /\ \A u \in Committing \cup HalfDone : u = t
         /\ UNCHANGED <<host, recovery, invocation, request>>
         /\ \A u \in Transactions \ {t} : call[u].at \in AtRest
<1>1. UNCHANGED <<host, recovery, invocation, request>> /\ Running(t) /\ t \in Committing
  BY CommitLeaves DEF Committing
<1>2. Restoring = {}
  BY <1>1, RestoringAlone
<1>3. Restoring' = {}
  BY <1>1, <1>2 DEF Restoring, RecoveryAt
<1>4. lock.by = t /\ \A u \in Committing : u = t
  BY <1>1 DEF Undisturbed, Exclusive
<1>5. \A u \in HalfDone : u = t
  BY <1>1 DEF Undisturbed, Exclusive
<1> QED
  BY <1>1, <1>2, <1>3, <1>4, <1>5 DEF Committing

\* What a step of a commit makes of its journal; the final write may fail.
LEMMA CommitStatus ==
  ASSUME Types, NEW t \in Transactions, TakeLock(t) \/ CommitStep(t)
  PROVE  /\ \A u \in Transactions \ {t} : journal'[u] = journal[u]
         /\ \/ journal'[t] = journal[t] /\ ~(Prepare(t) \/ StartApplying(t))
            \/ Prepare(t) /\ journal'[t].status = "prepared" /\ call[t].at = "checking"
            \/ /\ journal'[t].before = journal[t].before
               /\ \/ StartApplying(t) /\ journal'[t].status = "applying" /\ call[t].at = "consumed"
                  \/ JournalCommitted(t) /\ journal'[t].status = "committed" /\ call[t].at = "committed"
                  \/ /\ Restored(t) /\ journal'[t].status = Outcome(call[t].clean)
                     /\ call[t].at = "restoring"
<1>0. journal \in [Transactions -> JournalType]
  BY DEF Types
<1>1. \A u \in Transactions \ {t} : journal'[u] = journal[u]
  BY CommitEffects DEF CommitGoes
<1>2. CASE Prepare(t)
  BY <1>0, <1>1, <1>2 DEF Prepare, At
<1>3. CASE StartApplying(t)
  BY <1>0, <1>1, <1>3 DEF StartApplying, At, Journals, JournalType
<1>4. CASE JournalCommitted(t)
  <2>1. call[t].at = "committed" /\ ~Prepare(t) /\ ~StartApplying(t)
    BY <1>4 DEF JournalCommitted, Prepare, StartApplying, At
  <2> QED
    BY <1>0, <1>1, <1>4, <2>1 DEF JournalCommitted, Journals, Concludes, JournalType
<1>5. CASE Restored(t)
  <2>1. call[t].at = "restoring" /\ ~Prepare(t) /\ ~StartApplying(t)
    BY <1>5 DEF Restored, Prepare, StartApplying, At
  <2> QED
    BY <1>0, <1>1, <1>5, <2>1 DEF Restored, Journals, Concludes, JournalType
<1>6. CASE ~(Prepare(t) \/ StartApplying(t) \/ JournalCommitted(t) \/ Restored(t))
  <2>1. journal' = journal
    BY <1>6 DEF CommitStep, TakeLock, WritePid, Refuse, Consume, NotConsumed, Apply, RestoreOne, Applied, Confirm,
         PutCommitted, Fails, Finish, RecordOutcome, Unlock
  <2> QED
    BY <1>1, <1>6, <2>1
<1> QED
  BY <1>2, <1>3, <1>4, <1>5, <1>6

\* What a step of a process that starts makes of the journals.
LEMMA RecoveryStatus ==
  ASSUME Types, BeforesKnown, NEW h \in Hosts
  PROVE  /\ ReadLock(h) \/ RemoveLock(h) \/ ListJournals(h) \/ Started(h) => journal' = journal
         /\ \A f \in Files : RecoverOne(h, f) => journal' = journal
         /\ \A t \in Transactions : ReadJournal(h, t) =>
              \/ journal' = journal
              \/ /\ journal[t].status = "applying" /\ RecordedAsCommitted(t)
                 /\ journal' = [journal EXCEPT ![t].status = "committed"]
         /\ Recovered(h) =>
              /\ recovery[h].of \in Transactions
              /\ \/ journal' = journal
                 \/ journal' = [journal EXCEPT ![recovery[h].of].status = Outcome(recovery[h].clean)]
<1>1. ReadLock(h) \/ RemoveLock(h) \/ ListJournals(h) \/ Started(h) => journal' = journal
  BY DEF ReadLock, RemoveLock, ListJournals, Started
<1>2. \A f \in Files : RecoverOne(h, f) => journal' = journal
  BY DEF RecoverOne
<1>3. ASSUME NEW t \in Transactions, ReadJournal(h, t)
      PROVE  \/ journal' = journal
             \/ /\ journal[t].status = "applying" /\ RecordedAsCommitted(t)
                /\ journal' = [journal EXCEPT ![t].status = "committed"]
  BY <1>3 DEF ReadJournal, Concludes, Journals
<1>4. ASSUME Recovered(h)
      PROVE  /\ recovery[h].of \in Transactions
             /\ \/ journal' = journal
                \/ journal' = [journal EXCEPT ![recovery[h].of].status = Outcome(recovery[h].clean)]
  BY <1>4 DEF Recovered, RecoveryAt, BeforesKnown, RestoreKnown, Concludes, Journals
<1> QED
  BY <1>1, <1>2, <1>3, <1>4

\* A step of the protocol gives an invocation its process once, when the hypothesis is recorded.
LEMMA ProtocolInvocation ==
  ASSUME Types, NEW t \in Transactions, Protocol(t), NEW u \in Transactions
  PROVE  \/ invocation'[u].by = invocation[u].by
         \/ hypothesis[u].status = "none" /\ invocation'[u].by # None
<1>1. \A h \in Hosts : Hypothesize(t, h) =>
        \/ invocation'[u].by = invocation[u].by
        \/ hypothesis[u].status = "none" /\ invocation'[u].by # None
  BY ValueAssumption DEF Types, InvocationType, Hypothesize
<1>2. VerifyBegins(t) \/ VerifyIssues(t) \/ VerifyFails(t) \/ VerifyEnds(t) =>
        invocation'[u].by = invocation[u].by
  BY DEF Types, InvocationType, VerifyBegins, VerifyIssues, VerifyFails, VerifyEnds
<1>3. AbortBegins(t) \/ AbortEnds(t) \/ EndCertificate(t) \/ EndHypothesis(t) =>
        invocation'[u].by = invocation[u].by
  BY DEF Types, InvocationType, AbortBegins, AbortEnds, EndCertificate, EndHypothesis
<1> QED
  BY <1>1, <1>2, <1>3 DEF Protocol

\* The process of an invocation stays the same, and the dead stay dead.
LEMMA OwnersStay ==
  ASSUME ProtocolInv, Next
  PROVE  /\ \A u \in Transactions : invocation[u].by # None => invocation'[u].by = invocation[u].by
         /\ \A h \in Hosts : host[h] = "dead" => host'[h] = "dead"
<1>0. /\ Types /\ InvocationsKnown /\ host \in [Hosts -> {"off", "starting", "up", "dead"}]
  BY DEF ProtocolInv, Types
<1>1. ASSUME NEW t \in Transactions, Protocol(t), NEW u \in Transactions, invocation[u].by # None
      PROVE  invocation'[u].by = invocation[u].by
  BY <1>0, <1>1, ProtocolInvocation DEF InvocationsKnown
<1>2. ASSUME NEW t \in Transactions, TakeLock(t) \/ CommitStep(t) PROVE UNCHANGED <<host, invocation>>
  BY <1>2, CommitLeaves DEF TakeLock
<1>3. ASSUME NEW h \in Hosts, Start(h) \/ RecoveryStep(h) \/ Crash(h)
      PROVE  invocation' = invocation /\ \A g \in Hosts : host[g] = "dead" => host'[g] = "dead"
  <2>1. CASE Start(h)
    BY <1>0, <2>1 DEF Start
  <2>2. CASE RecoveryStep(h)
    BY <1>0, <2>2, RecoveryLeaves
  <2>3. CASE Crash(h)
    BY <1>0, <2>3, CrashEffects
  <2> QED
    BY <1>3, <2>1, <2>2, <2>3
<1>4. ASSUME NEW f \in Files, Edit(f) PROVE UNCHANGED <<host, invocation>>
  BY <1>4, EditEffects
<1>5. ASSUME NEW t \in Transactions, Protocol(t) PROVE host' = host
  BY <1>5, ProtocolLeaves
<1> QED
  BY <1>1, <1>2, <1>3, <1>4, <1>5 DEF Next

\* How the lock changes: it is taken, its pid is written by its owner, or it is removed.
LEMMA LockMoves ==
  ASSUME ProtocolInv, LocksKnown, Next
  PROVE  \/ lock' = lock \/ lock' = NoLock
         \/ \E t \in Transactions : Running(t) /\ lock' = [by |-> t, pid |-> FALSE]
         \/ \E t \in Transactions : Running(t) /\ lock.by = t /\ lock' = [lock EXCEPT !.pid = TRUE]
<1>0. Types /\ lock \in LockType
  BY DEF ProtocolInv, Types
<1>1. ASSUME NEW t \in Transactions, Protocol(t) PROVE lock' = lock
  BY <1>1, ProtocolLeaves
<1>2. ASSUME NEW t \in Transactions, TakeLock(t) PROVE Running(t) /\ lock' = [by |-> t, pid |-> FALSE]
  BY <1>2 DEF TakeLock, InUse
<1>3. ASSUME NEW t \in Transactions, WritePid(t)
      PROVE  Running(t) /\ (lock' = lock \/ (lock.by = t /\ lock' = [lock EXCEPT !.pid = TRUE]))
  BY <1>0, <1>3 DEF WritePid, At, LockType
<1>4. ASSUME NEW t \in Transactions, CommitStep(t), ~WritePid(t) PROVE lock' = lock \/ lock' = NoLock
  BY <1>4 DEF CommitStep, Prepare, Refuse, Consume, NotConsumed, StartApplying, Apply, RestoreOne, Applied, Confirm,
     PutCommitted, Fails, JournalCommitted, Finish, Restored, RecordOutcome, Unlock
<1>5. ASSUME NEW h \in Hosts, Start(h) \/ RecoveryStep(h) \/ Crash(h) PROVE lock' = lock \/ lock' = NoLock
  BY <1>5 DEF Start, Crash, RecoveryStep, ReadLock, RemoveLock, ListJournals, ReadJournal, RecoverOne, Recovered, Started
<1>6. ASSUME NEW f \in Files, Edit(f) PROVE lock' = lock
  BY <1>6, EditEffects
<1> QED
  BY <1>1, <1>2, <1>3, <1>4, <1>5, <1>6 DEF Next

\* What a process that starts has done itself, or nothing.
LEMMA RecoverySelf ==
  ASSUME Types, Next, NEW h \in Hosts, host'[h] = "starting"
  PROVE  \/ recovery'[h] = recovery[h] /\ host[h] \in {"off", "starting"}
         \/ RecoveryStep(h) /\ host[h] = "starting" /\ host' = host
<1>0. /\ host \in [Hosts -> {"off", "starting", "up", "dead"}]
      /\ recovery \in [Hosts -> RecoveryType]
  BY DEF Types
<1> DEFINE Other == recovery'[h] = recovery[h] /\ host[h] \in {"off", "starting"}
<1>1. ASSUME NEW t \in Transactions, Protocol(t) \/ TakeLock(t) \/ CommitStep(t) PROVE Other
  <2>1. UNCHANGED <<host, recovery>>
    BY <1>1, ProtocolLeaves, CommitLeaves DEF TakeLock
  <2> QED
    BY <2>1
<1>2. ASSUME NEW g \in Hosts, Start(g) PROVE Other
  BY <1>0, <1>2 DEF Start
<1>3. ASSUME NEW g \in Hosts, RecoveryStep(g) PROVE Other \/ (RecoveryStep(h) /\ host[h] = "starting" /\ host' = host)
  <2>1. /\ host[g] = "starting" /\ \A x \in Hosts \ {g} : recovery'[x] = recovery[x]
        /\ host' = host \/ host' = [host EXCEPT ![g] = "up"]
    BY <1>0, <1>3, RecoveryLeaves, RecoveryMoves DEF Types
  <2>2. CASE g # h
    BY <1>0, <2>1, <2>2
  <2>3. CASE g = h
    BY <1>0, <1>3, <2>1, <2>3
  <2> QED
    BY <2>2, <2>3
<1>4. ASSUME NEW g \in Hosts, Crash(g) PROVE Other
  BY <1>0, <1>4, CrashEffects
<1>5. ASSUME NEW f \in Files, Edit(f) PROVE Other
  BY <1>5, EditEffects
<1> QED
  BY <1>1, <1>2, <1>3, <1>4, <1>5 DEF Next

LEMMA LocksKnownNext ==
  ASSUME ProtocolInv, LocksKnown, Next PROVE LocksKnown'
<1>0. /\ Types /\ InvocationsKnown /\ IssuedOnce
      /\ host \in [Hosts -> {"off", "starting", "up", "dead"}]
      /\ recovery \in [Hosts -> RecoveryType]
      /\ call \in [Transactions -> CallType]
      /\ invocation \in [Transactions -> InvocationType]
      /\ lock \in LockType
      /\ None \notin Transactions /\ None \notin Hosts
  BY ValueAssumption DEF ProtocolInv, Types
<1>a. /\ \A u \in Transactions : invocation[u].by # None => invocation'[u].by = invocation[u].by
      /\ \A h \in Hosts : host[h] = "dead" => host'[h] = "dead"
  BY OwnersStay
<1>1. (lock'.pid => lock'.by # None) /\ (lock'.by # None => invocation'[lock'.by].by # None)
  <2>1. \A t \in Transactions : Running(t) => invocation[t].by # None
    BY DEF Running
  <2>2. (lock.pid => lock.by # None) /\ (lock.by # None => invocation[lock.by].by # None)
    BY DEF LocksKnown
  <2>3. CASE lock' = lock \/ lock' = NoLock
    BY <1>0, <1>a, <2>2, <2>3 DEF NoLock, LockType
  <2>4. ASSUME NEW t \in Transactions, Running(t), lock' = [by |-> t, pid |-> FALSE]
        PROVE  (lock'.pid => lock'.by # None) /\ (lock'.by # None => invocation'[lock'.by].by # None)
    BY <1>a, <2>1, <2>4
  <2>5. ASSUME NEW t \in Transactions, Running(t), lock.by = t, lock' = [lock EXCEPT !.pid = TRUE]
        PROVE  (lock'.pid => lock'.by # None) /\ (lock'.by # None => invocation'[lock'.by].by # None)
    BY <1>0, <1>a, <2>1, <2>5 DEF LockType
  <2> QED
    BY <2>3, <2>4, <2>5, LockMoves
<1>2. ASSUME NEW h \in Hosts, RecoveryAt(h, "unlock")', recovery'[h].saw.pid
      PROVE  LET t == recovery'[h].saw.by IN
             t # None /\ invocation'[t].by # None /\ host'[invocation'[t].by] = "dead"
  <2>0. \A g \in Hosts : RecoveryAt(g, "unlock") /\ recovery[g].saw.pid =>
           LET t == recovery[g].saw.by IN
           t # None /\ invocation[t].by # None /\ host[invocation[t].by] = "dead"
    BY DEF LocksKnown
  <2>1. CASE RecoveryAt(h, "unlock") /\ recovery'[h] = recovery[h]
    <3> DEFINE t == recovery[h].saw.by
    <3>1. t \in Transactions /\ invocation[t].by \in Hosts /\ host[invocation[t].by] = "dead"
      BY <1>0, <1>2, <2>0, <2>1 DEF RecoveryType, LockType, InvocationType
    <3> QED
      BY <1>0, <1>a, <2>1, <3>1
  <2>2. CASE ReadLock(h) /\ host' = host /\ recovery' = [recovery EXCEPT ![h] = [recovery[h] EXCEPT
               !.at = IF lock = NoLock THEN "list" ELSE "unlock", !.saw = lock]]
    <3>1. recovery'[h].saw = lock /\ lock # NoLock /\ lock.pid
      BY <1>0, <1>2, <2>2 DEF RecoveryType, RecoveryAt
    <3>2. ~LockOwnerLives
      BY <1>0, <2>2, <3>1 DEF ReadLock, RecoveryAt
    <3>3. lock.by \in Transactions /\ invocation[lock.by].by \in Hosts
      BY <1>0, <3>1 DEF LocksKnown, LockType, InvocationType
    <3>4. host[invocation[lock.by].by] = "dead"
      BY <1>0, <3>1, <3>2, <3>3 DEF LockOwnerLives, Alive, InvocationsKnown
    <3> QED
      BY <1>0, <1>a, <3>1, <3>3, <3>4
  <2>3. CASE recovery'[h] = recovery[h] /\ host[h] \in {"off", "starting"}
    BY <1>2, <2>1, <2>3 DEF LocksKnown, RecoveryAt
  <2>4. CASE RecoveryStep(h) /\ host[h] = "starting" /\ host' = host
    <3>1. CASE ReadLock(h)
      BY <1>0, <2>2, <2>4, <3>1, <1>2 DEF ReadLock, Recovery, RecoveryAt
    <3>2. CASE ~ReadLock(h)
      BY <1>0, <1>2, <2>3, <2>4, <3>2, RecoveryMoves DEF RecoveryStep, Started, RecoveryAt
    <3> QED
      BY <3>1, <3>2
  <2> QED
    BY <1>0, <1>2, <2>3, <2>4, RecoverySelf DEF RecoveryAt
<1>3. ASSUME NEW t \in Committing' PROVE Running(t)'
  <2>1. CASE t \in Committing /\ invocation'[t].by = invocation[t].by /\ host'[invocation[t].by] = host[invocation[t].by]
    BY <2>1 DEF LocksKnown, Running, Committing
  <2>2. ASSUME NEW u \in Transactions, Protocol(u) PROVE Running(t)'
    <3>1. UNCHANGED <<host, call>> /\ t \in Committing
      BY <1>3, <2>2, ProtocolLeaves DEF Committing
    <3>2. invocation[t].by # None
      BY <3>1 DEF LocksKnown, Running, Committing
    <3> QED
      BY <1>a, <2>1, <3>1, <3>2 DEF Committing
  <2>3. ASSUME NEW u \in Transactions, TakeLock(u) \/ CommitStep(u) PROVE Running(t)'
    <3>1. Running(u) /\ UNCHANGED <<host, invocation>>
      BY <2>3, CommitLeaves DEF TakeLock, InUse
    <3>2. t # u => t \in Committing
      BY <1>0, <1>3, <2>3, CommitEffects DEF CommitGoes, Committing
    <3> QED
      BY <2>1, <3>1, <3>2 DEF Running
  <2>4. ASSUME NEW h \in Hosts, Start(h) \/ RecoveryStep(h) PROVE Running(t)'
    <3>1. /\ UNCHANGED <<call, invocation>> /\ host[h] \in {"off", "starting"}
          /\ \A g \in Hosts \ {h} : host'[g] = host[g]
      BY <1>0, <2>4, RecoveryLeaves DEF Start
    <3>2. t \in Committing /\ invocation[t].by \in Hosts /\ host[invocation[t].by] = "up"
      BY <1>0, <1>3, <3>1 DEF Committing, LocksKnown, Running, InvocationType
    <3> QED
      BY <2>1, <3>1, <3>2
  <2>5. ASSUME NEW h \in Hosts, Crash(h) PROVE Running(t)'
    <3>1. /\ invocation' = invocation /\ host' = [host EXCEPT ![h] = "dead"]
          /\ \A u \in Transactions : IF invocation[u].by = h THEN call'[u].at = "over" ELSE call'[u] = call[u]
      BY <2>5, CrashEffects
    <3>2. t \in Committing /\ invocation[t].by # h
      BY <1>3, <3>1 DEF Committing, AtRest
    <3>3. invocation[t].by \in Hosts
      BY <1>0, <3>2 DEF LocksKnown, Running, Committing, InvocationType
    <3> QED
      BY <1>0, <2>1, <3>1, <3>2, <3>3
  <2>6. ASSUME NEW f \in Files, Edit(f) PROVE Running(t)'
    BY <1>3, <2>1, <2>6, EditEffects DEF Committing
  <2> QED
    BY <2>2, <2>3, <2>4, <2>5, <2>6 DEF Next
<1>4. ASSUME NEW h \in Hosts, host'[h] = "off" PROVE recovery'[h].at = "lock"
  <2>0. host[h] = "off" => recovery[h].at = "lock"
    BY DEF LocksKnown
  <2>1. ASSUME NEW t \in Transactions, Protocol(t) \/ TakeLock(t) \/ CommitStep(t) PROVE recovery'[h].at = "lock"
    <3>1. UNCHANGED <<host, recovery>>
      BY <2>1, ProtocolLeaves, CommitLeaves DEF TakeLock
    <3> QED
      BY <1>4, <2>0, <3>1
  <2>2. ASSUME NEW g \in Hosts, Start(g) PROVE recovery'[h].at = "lock"
    BY <1>0, <1>4, <2>0, <2>2 DEF Start
  <2>3. ASSUME NEW g \in Hosts, RecoveryStep(g) PROVE recovery'[h].at = "lock"
    <3>1. /\ host[g] = "starting" /\ \A x \in Hosts \ {g} : recovery'[x] = recovery[x]
          /\ host' = host \/ host' = [host EXCEPT ![g] = "up"]
      BY <1>0, <2>3, RecoveryLeaves, RecoveryMoves
    <3> QED
      BY <1>0, <1>4, <2>0, <3>1
  <2>4. ASSUME NEW g \in Hosts, Crash(g) PROVE recovery'[h].at = "lock"
    BY <1>0, <1>4, <2>0, <2>4, CrashEffects
  <2>5. ASSUME NEW f \in Files, Edit(f) PROVE recovery'[h].at = "lock"
    BY <1>4, <2>0, <2>5, EditEffects
  <2> QED
    BY <2>1, <2>2, <2>3, <2>4, <2>5 DEF Next
<1> QED
  BY <1>1, <1>2, <1>3, <1>4 DEF LocksKnown

-----------------------------------------------------------------------------
(* Until the first trespass: one at a time *)

\* A lock is taken when nothing is under way or half done.
LEMMA TakeLockAlone ==
  ASSUME Types, Undisturbed, NEW t \in Transactions, TakeLock(t), HalfDone = {}
  PROVE  /\ Restoring = {} /\ Restoring' = {} /\ Committing = {}
         /\ Running(t) /\ lock' = [by |-> t, pid |-> FALSE]
         /\ call[t].at = "none" /\ call' = [call EXCEPT ![t].at = "locked"]
         /\ UNCHANGED <<host, recovery, file, record, journal, protocolVars, commits>>
<1>1. /\ Running(t) /\ lock = NoLock /\ lock' = [by |-> t, pid |-> FALSE]
      /\ call[t].at = "none" /\ call' = [call EXCEPT ![t].at = "locked"]
      /\ UNCHANGED <<host, recovery, file, record, journal, protocolVars, commits>>
  BY DEF TakeLock, InUse, Goes, NoCall
<1>2. Restoring = {}
  BY RestoringAlone
<1>3. Restoring' = {}
  BY <1>1, <1>2 DEF Restoring, RecoveryAt
<1>4. lock.by = None /\ None \notin Transactions
  BY <1>1, ValueAssumption DEF NoLock
<1>5. Committing = {}
  BY <1>4 DEF Undisturbed, Exclusive, Committing
<1> QED
  BY <1>1, <1>2, <1>3, <1>5

\* A process that does not restore touches the journal of a transaction that has committed,
\* or none; one that restores touches its own transaction's, and its files.
LEMMA RecoveryTouches ==
  ASSUME Types, BeforesKnown, Undisturbed, NEW h \in Hosts, RecoveryStep(h)
  PROVE  /\ UNCHANGED <<record, commits, call>>
         /\ \A u \in Transactions : journal'[u].before = journal[u].before
         /\ h \notin Restoring =>
              /\ file' = file /\ HalfDone' = HalfDone
              /\ \A u \in Transactions :
                   \/ journal'[u] = journal[u]
                   \/ u \in commits /\ RecordedAsCommitted(u) /\ journal[u].status = "applying" /\ journal'[u].status = "committed"
         /\ h \in Restoring =>
              /\ \A u \in Transactions \ {recovery[h].of} : journal'[u] = journal[u]
              /\ journal' = journal \/ (file' = file /\ HalfDone' = {})
<1>0. /\ journal \in [Transactions -> JournalType] /\ Remains
      /\ record.outcome = "committed" => record.last \in commits
  BY DEF Types, Undisturbed, Remains
<1>1. UNCHANGED <<record, commits, call>> /\ host[h] = "starting"
  BY RecoveryLeaves
<1>2. CASE ReadLock(h) \/ RemoveLock(h) \/ ListJournals(h) \/ Started(h)
  <2>1. UNCHANGED <<file, journal>> /\ h \notin Restoring
    BY <1>2 DEF ReadLock, RemoveLock, ListJournals, Started, Restoring, RecoveryAt
  <2> QED
    BY <1>1, <2>1 DEF HalfDone, Unfinished
<1>3. ASSUME NEW t \in Transactions, ReadJournal(h, t)
      PROVE  /\ \A u \in Transactions : journal'[u].before = journal[u].before
             /\ h \notin Restoring /\ file' = file /\ HalfDone' = HalfDone
             /\ \A u \in Transactions :
                  \/ journal'[u] = journal[u]
                  \/ u \in commits /\ RecordedAsCommitted(u) /\ journal[u].status = "applying" /\ journal'[u].status = "committed"
  <2>1. file' = file /\ h \notin Restoring
    BY <1>3 DEF ReadJournal, Restoring, RecoveryAt
  <2>2. CASE journal' = journal
    BY <1>1, <2>1, <2>2 DEF HalfDone, Unfinished
  <2>3. CASE /\ journal[t].status = "applying" /\ RecordedAsCommitted(t)
             /\ journal' = [journal EXCEPT ![t].status = "committed"]
    <3>1. t \in commits
      BY <1>0, <2>3 DEF RecordedAsCommitted
    <3>2. \A u \in Transactions : /\ journal'[u].before = journal[u].before
                                  /\ journal'[u] = journal[u] \/ (u = t /\ journal'[u].status = "committed")
      BY <1>0, <2>3 DEF JournalType
    <3>3. HalfDone' = HalfDone
      BY <1>0, <1>1, <3>1, <3>2 DEF HalfDone, Unfinished
    <3> QED
      BY <2>1, <2>3, <3>1, <3>2, <3>3
  <2> QED
    BY <1>3, <2>2, <2>3, RecoveryStatus
<1>4. ASSUME NEW f \in Files, RecoverOne(h, f) PROVE journal' = journal /\ h \in Restoring
  BY <1>4 DEF RecoverOne, Restoring, RecoveryAt
<1>5. CASE Recovered(h)
  <2>1. h \in Restoring /\ file' = file
    BY <1>5 DEF Recovered, Restoring
  <2>2. /\ recovery[h].of \in Transactions
        /\ \/ journal' = journal
           \/ journal' = [journal EXCEPT ![recovery[h].of].status = Outcome(recovery[h].clean)]
    BY <1>5, RecoveryStatus
  <2> DEFINE t == recovery[h].of
  <2>3. \A u \in Transactions : /\ journal'[u].before = journal[u].before
                                /\ u # t => journal'[u] = journal[u]
    BY <1>0, <2>2 DEF JournalType
  <2>4. CASE journal' # journal
    <3>1. \A u \in HalfDone : u = t
      BY <2>1, RestoringAlone
    <3>2. journal'[t].status # "applying"
      BY <1>0, <2>2, <2>4 DEF Outcome, JournalType
    <3> HIDE DEF t
    <3>3. HalfDone' = {}
      BY <1>1, <2>3, <3>1, <3>2 DEF HalfDone, Unfinished
    <3> QED
      BY <1>1, <2>1, <2>3, <3>3 DEF t
  <2> QED
    BY <1>1, <2>1, <2>3, <2>4
<1> QED
  BY <1>1, <1>2, <1>3, <1>4, <1>5 DEF RecoveryStep

LEMMA ExclusiveNext ==
  ASSUME ProtocolInv, LocksKnown, Undisturbed, Next, ~trespass' PROVE Exclusive'
<1>0. /\ Types /\ BeforesKnown /\ Exclusive
      /\ call \in [Transactions -> CallType]
  BY DEF ProtocolInv, Undisturbed, Types
<1>1. ASSUME UNCHANGED <<lock, journal, call, commits>> PROVE Exclusive'
  BY <1>0, <1>1 DEF Exclusive, Committing, HalfDone, Unfinished
<1>2. ASSUME NEW t \in Transactions, TakeLock(t) PROVE Exclusive'
  <2>1. /\ Committing = {} /\ HalfDone = {} /\ lock'.by = t /\ call' = [call EXCEPT ![t].at = "locked"]
        /\ UNCHANGED <<journal, commits>>
    BY <1>0, <1>2, NoTrespass, TakeLockAlone
  <2>2. \A u \in Committing' : u = t
    BY <1>0, <2>1 DEF Committing
  <2> QED
    BY <2>1, <2>2 DEF Exclusive, HalfDone, Unfinished
<1>3. ASSUME NEW t \in Transactions, CommitStep(t) PROVE Exclusive'
  <2>1. lock.by = t /\ \A u \in Committing \cup HalfDone : u = t
    BY <1>0, <1>3, CommitAlone
  <2>2. /\ \A u \in Transactions \ {t} : call'[u] = call[u] /\ journal'[u] = journal[u]
        /\ commits \subseteq commits'
    BY <1>0, <1>3, CommitEffects, CommitWritesOnly DEF CommitGoes, CommitWrites
  <2>3. \A u \in Committing' \cup HalfDone' : u = t
    BY <2>1, <2>2 DEF Committing, HalfDone, Unfinished
  <2>4. CASE Unlock(t)
    <3>1. call'[t].at \in AtRest
      BY <1>0, <2>4 DEF Unlock, NoCall, AtRest
    <3>2. Committing' = {}
      BY <2>3, <3>1 DEF Committing
    <3> QED
      BY <2>3, <3>2 DEF Exclusive
  <2>5. CASE ~Unlock(t)
    <3>1. lock'.by = lock.by
      BY <1>0, <1>3, <2>5 DEF CommitStep, WritePid, Prepare, Refuse, Consume, NotConsumed, StartApplying, Apply,
           RestoreOne, Applied, Confirm, PutCommitted, Fails, JournalCommitted, Finish, Restored, RecordOutcome, Types, LockType
    <3> QED
      BY <2>1, <2>3, <3>1 DEF Exclusive
  <2> QED
    BY <2>4, <2>5
<1>4. ASSUME NEW h \in Hosts, RecoveryStep(h) PROVE Exclusive'
  <2>1. call' = call /\ HalfDone' \subseteq HalfDone
    <3>1. CASE h \notin Restoring
      BY <1>0, <1>4, <3>1, RecoveryTouches
    <3>2. CASE h \in Restoring
      BY <1>0, <1>4, <3>2, RecoveryTouches DEF HalfDone, Unfinished
    <3> QED
      BY <3>1, <3>2
  <2>2. CASE RemoveLock(h)
    <3>1. lock.by \notin Committing
      <4>1. ASSUME lock.by \in Committing, recovery[h].saw.by = lock.by, recovery[h].saw.pid PROVE FALSE
        BY <2>2, <4>1 DEF RemoveLock, RecoveryAt, LocksKnown, Running
      <4> QED
        BY <1>0, <2>2, <4>1, NoTrespass
    <3>2. Committing' = {}
      BY <1>0, <2>1, <3>1 DEF Exclusive, Committing
    <3> QED
      BY <1>0, <2>1, <3>2 DEF Exclusive
  <2>3. CASE ~RemoveLock(h)
    <3>1. lock' = lock
      BY <1>4, <2>3 DEF RecoveryStep, ReadLock, ListJournals, ReadJournal, RecoverOne, Recovered, Started
    <3> QED
      BY <1>0, <2>1, <3>1 DEF Exclusive, Committing
  <2> QED
    BY <2>2, <2>3
<1>5. ASSUME NEW h \in Hosts, Crash(h) PROVE Exclusive'
  <2>1. /\ UNCHANGED <<lock, journal, commits>>
        /\ \A t \in Transactions : call'[t].at = "over" \/ call'[t] = call[t]
    BY <1>5, CrashEffects
  <2>2. Committing' \subseteq Committing /\ HalfDone' = HalfDone
    BY <2>1 DEF Committing, AtRest, HalfDone, Unfinished
  <2> QED
    BY <1>0, <2>1, <2>2 DEF Exclusive
<1>6. ASSUME NEW t \in Transactions, Protocol(t) PROVE Exclusive'
  BY <1>1, <1>6, ProtocolLeaves
<1>7. ASSUME NEW h \in Hosts, Start(h) PROVE Exclusive'
  BY <1>1, <1>7 DEF Start
<1>8. ASSUME NEW f \in Files, Edit(f) PROVE Exclusive'
  BY <1>1, <1>8, EditEffects
<1> QED
  BY <1>2, <1>3, <1>4, <1>5, <1>6, <1>7, <1>8 DEF Next

\* The commit under way knows its journal, its files and the record after its own step.
LEMMA OwnCallKnows ==
  ASSUME Types, BeforesKnown, TracesConsumed, NEW t \in Transactions,
         CallKnows(t), TakeLock(t) \/ CommitStep(t)
  PROVE  CallKnows(t)'
<1>0. /\ CallKnows(t) /\ BeforeKnown(t)
      /\ call \in [Transactions -> CallType]
      /\ journal \in [Transactions -> JournalType]
      /\ file \in [Files -> Contents] /\ Touches[t] \subseteq Files
  BY ContentTypes DEF Types, BeforesKnown
<1> USE DEF CallType, At, Goes
<1>1. CASE TakeLock(t)
  <2>1. /\ call[t].at = "none" /\ call'[t].at = "locked"
        /\ UNCHANGED <<file, journal, record, hypothesis, commits>>
    BY <1>1, <1>0 DEF TakeLock, NoCall
  <2> QED
    BY <2>1, <1>0 DEF CallKnows, Has, Before
<1>2. CASE WritePid(t)
  <2>1. /\ call[t].at = "locked" /\ call'[t].at = "checking"
        /\ UNCHANGED <<file, journal, record, hypothesis, commits>>
    BY <1>2, <1>0 DEF WritePid
  <2> QED
    BY <2>1, <1>0 DEF CallKnows, Has, Before
<1>3. CASE Prepare(t)
  <2>1. /\ call[t].at = "checking" /\ call'[t].at = "prepared"
        /\ journal'[t] = [status |-> "prepared", before |-> [f \in Touches[t] |-> file[f]]]
        /\ UNCHANGED <<file, record, hypothesis, commits>>
        /\ record.generation = hypothesis[t].generation
    BY <1>3, <1>0 DEF Prepare, Certified, StillBound
  <2> QED
    BY <2>1, <1>0 DEF CallKnows, Has, Before
<1>4. CASE Refuse(t)
  <2>1. /\ call[t].at = "checking" /\ call'[t].at = "unlock"
        /\ UNCHANGED <<file, journal, record, hypothesis, commits>>
    BY <1>4, <1>0 DEF Refuse
  <2> QED
    BY <2>1, <1>0 DEF CallKnows, Has, Before
<1>5. CASE Consume(t)
  <2>1. /\ call[t].at = "prepared" /\ call'[t].at = "consumed"
        /\ UNCHANGED <<file, journal, record, hypothesis, commits>>
    BY <1>5, <1>0 DEF Consume
  <2> QED
    BY <2>1, <1>0 DEF CallKnows, Has, Before
<1>6. CASE NotConsumed(t)
  <2>1. /\ call[t].at = "prepared" /\ call'[t].at = "unlock"
        /\ UNCHANGED <<file, journal, record, hypothesis, commits>>
    BY <1>6, <1>0 DEF NotConsumed
  <2> QED
    BY <2>1, <1>0 DEF CallKnows, Has, Before
<1>7. CASE StartApplying(t)
  <2>1. /\ call[t].at = "consumed" /\ UNCHANGED <<file, record, hypothesis, commits>>
        /\ journal'[t].status = "applying" /\ journal'[t].before = journal[t].before
    BY <1>7, <1>0 DEF StartApplying, Journals, JournalType
  <2>2. \/ call'[t].at = "applying" /\ call'[t].todo = Touches[t]
        \/ call'[t].at = "restoring" /\ call'[t].todo = Touches[t]
    BY <1>7, <1>0 DEF StartApplying, Fallen
  <2> QED
    BY <2>1, <2>2, <1>0 DEF CallKnows, Has, Before
<1>8. ASSUME NEW f \in Files, Apply(t, f) PROVE CallKnows(t)'
  <2>1. /\ call[t].at = "applying" /\ call'[t].at = "applying" /\ call'[t].todo = call[t].todo \ {f}
        /\ UNCHANGED <<record, journal, hypothesis, commits>>
        /\ file' = [file EXCEPT ![f] = t]
    BY <1>8, <1>0 DEF Apply, SetFile
  <2>2. /\ Has(t, {"applying"}) /\ t \notin commits /\ record.generation = hypothesis[t].generation
        /\ \A g \in Touches[t] : file[g] = IF g \in call[t].todo THEN Before(t, g) ELSE t
    BY <2>1, <1>0 DEF CallKnows
  <2>3. \A g \in Touches[t] : file'[g] = IF g \in call'[t].todo THEN Before(t, g) ELSE t
    BY <2>1, <2>2, <1>0
  <2> QED
    BY <2>1, <2>2, <2>3 DEF CallKnows, Has, Before
<1>9. ASSUME NEW f \in Files, RestoreOne(t, f) PROVE CallKnows(t)'
  <2>1. /\ call[t].at = "restoring" /\ call'[t].at = "restoring" /\ f \in call[t].todo
        /\ UNCHANGED <<record, journal, hypothesis, commits>>
    BY <1>9, <1>0 DEF RestoreOne
  <2>2. \/ /\ file' = [file EXCEPT ![f] = Before(t, f)] /\ call'[t].todo = call[t].todo \ {f}
           /\ call'[t].clean = call[t].clean
        \/ file' = file /\ ~call'[t].clean
    BY <1>9, <1>0 DEF RestoreOne, SetFile, Before
  <2>3. /\ Has(t, {"prepared", "applying"}) /\ t \notin commits
        /\ \A g \in Touches[t] :
             (call[t].clean /\ g \notin call[t].todo) \/ Has(t, {"prepared"}) => file[g] = Before(t, g)
    BY <2>1, <1>0 DEF CallKnows
  <2>4. \A g \in Touches[t] :
             (call'[t].clean /\ g \notin call'[t].todo) \/ Has(t, {"prepared"}) => file'[g] = Before(t, g)
    BY <2>2, <2>3, <1>0
  <2> QED
    BY <2>1, <2>3, <2>4 DEF CallKnows, Has, Before
<1>10. CASE Applied(t)
  <2>1. /\ call[t].at = "applying" /\ call'[t].at = "postconditions" /\ call[t].todo = {}
        /\ UNCHANGED <<file, journal, record, hypothesis, commits>>
    BY <1>10, <1>0 DEF Applied
  <2> QED
    BY <2>1, <1>0 DEF CallKnows, Has, Before
<1>11. CASE Confirm(t)
  <2>1. /\ call[t].at = "postconditions" /\ call'[t].at = "put"
        /\ UNCHANGED <<file, journal, record, hypothesis, commits>>
    BY <1>11, <1>0 DEF Confirm
  <2> QED
    BY <2>1, <1>0 DEF CallKnows, Has, Before
<1>12. CASE PutCommitted(t)
  <2>1. /\ call[t].at = "put" /\ call'[t].at = "committed" /\ journal' = journal /\ t \in commits'
    BY <1>12, <1>0 DEF PutCommitted
  <2> QED
    BY <2>1, <1>0 DEF CallKnows, Has
<1>13. CASE Fails(t)
  <2>1. /\ call[t].at \in {"consumed", "applying", "postconditions", "put"}
        /\ call'[t].at = "restoring" /\ call'[t].todo = Touches[t]
        /\ UNCHANGED <<file, journal, record, hypothesis, commits>>
    BY <1>13, <1>0 DEF Fails, Fallen
  <2> QED
    BY <2>1, <1>0 DEF CallKnows, Has, Before
<1>14. CASE JournalCommitted(t)
  BY <1>14, <1>0 DEF JournalCommitted, CallKnows
<1>15. CASE Finish(t)
  BY <1>15, <1>0 DEF Finish, CallKnows
<1>16. CASE Restored(t)
  <2>1. call[t].at = "restoring" /\ call'[t].at = "record" /\ commits' = commits
    BY <1>16, <1>0 DEF Restored
  <2> QED
    BY <2>1, <1>0 DEF CallKnows
<1>17. CASE RecordOutcome(t)
  BY <1>17, <1>0 DEF RecordOutcome, CallKnows
<1>18. CASE Unlock(t)
  <2>1. /\ call'[t].at = "over" \/ (call'[t].at = "none" /\ certificate[t] # "consumed")
        /\ UNCHANGED <<journal, commits>>
    BY <1>18, <1>0 DEF Unlock, NoCall
  <2>2. certificate[t] # "consumed" => journal[t].status \in {"none", "prepared"} /\ t \notin commits
    BY DEF TracesConsumed, LeavesTrace
  <2> QED
    BY <2>1, <2>2 DEF CallKnows, Has
<1> QED
  BY <1>1, <1>2, <1>3, <1>4, <1>5, <1>6, <1>7, <1>8, <1>9, <1>10, <1>11, <1>12, <1>13, <1>14, <1>15, <1>16,
     <1>17, <1>18 DEF CommitStep

LEMMA CallKnowsNext ==
  ASSUME ProtocolInv, LocksKnown, Undisturbed, Next, ~trespass', NEW u \in Transactions
  PROVE  CallKnows(u)'
<1>0. /\ Types /\ BeforesKnown /\ IssuedOnce /\ TracesConsumed /\ CallKnows(u)
      /\ call \in [Transactions -> CallType]
      /\ journal \in [Transactions -> JournalType]
      /\ file \in [Files -> Contents]
      /\ hypothesis \in [Transactions -> HypothesisType]
  BY DEF ProtocolInv, Undisturbed, Types
<1>1. ASSUME NEW t \in Transactions, Protocol(t) PROVE CallKnows(u)'
  <2>1. UNCHANGED <<file, record, journal, call, commits>>
    BY <1>1, ProtocolLeaves
  <2>2. hypothesis'[u].generation = hypothesis[u].generation \/ hypothesis[u].status = "none"
    BY <1>1, <1>0 DEF HypothesisType, Protocol, Hypothesize, VerifyBegins, VerifyIssues, VerifyFails, VerifyEnds,
         AbortBegins, AbortEnds, EndCertificate, EndHypothesis, Becomes
  <2>3. hypothesis[u].status = "none" => call[u].at \in AtRest
    BY <1>0 DEF IssuedOnce, IssueKnown
  <2> QED
    BY <2>1, <2>2, <2>3, <1>0 DEF CallKnows, Has, Before, AtRest
<1>2. ASSUME NEW t \in Transactions, TakeLock(t) \/ CommitStep(t) PROVE CallKnows(u)'
  <2>1. CASE u = t
    BY <1>0, <1>2, <2>1, OwnCallKnows
  <2>2. CASE u # t
    <3>1. call[u].at \in AtRest
      <4>1. CASE TakeLock(t)
        BY <1>0, <4>1, NoTrespass, TakeLockAlone DEF Committing
      <4>2. CASE CommitStep(t)
        BY <1>0, <4>2, <2>2, CommitAlone
      <4> QED
        BY <1>2, <4>1, <4>2
    <3>2. call'[u] = call[u] /\ journal'[u] = journal[u] /\ (u \in commits' => u \in commits)
      BY <1>2, <1>0, <2>2, CommitEffects, CommitWritesOnly DEF CommitGoes, CommitWrites
    <3> QED
      BY <3>1, <3>2, <1>0 DEF CallKnows, Has, AtRest
  <2> QED
    BY <2>1, <2>2
<1>3. ASSUME NEW h \in Hosts, Start(h) PROVE CallKnows(u)'
  BY <1>3, <1>0 DEF Start, CallKnows, Has, Before
<1>4. ASSUME NEW h \in Hosts, RecoveryStep(h) PROVE CallKnows(u)'
  <2>1. UNCHANGED <<record, commits, call, hypothesis>> /\ journal'[u].before = journal[u].before
    BY <1>0, <1>4, RecoveryTouches, RecoveryLeaves
  <2>2. CASE h \notin Restoring
    <3>1. file' = file /\ (journal'[u] = journal[u] \/ u \in commits)
      BY <1>0, <1>4, <2>2, RecoveryTouches
    <3> QED
      BY <1>0, <2>1, <3>1 DEF CallKnows, Has, Before
  <2>3. CASE h \in Restoring
    <3>1. call[u].at \in AtRest /\ recovery[h].of \in HalfDone
      BY <1>0, <2>3, RestoringAlone
    <3>2. journal'[u] = journal[u] \/ journal[u].status = "applying"
      BY <1>0, <1>4, <2>3, <3>1, RecoveryTouches DEF HalfDone, Unfinished
    <3> QED
      BY <1>0, <2>1, <3>1, <3>2 DEF CallKnows, Has, AtRest
  <2> QED
    BY <2>2, <2>3
<1>5. ASSUME NEW h \in Hosts, Crash(h) PROVE CallKnows(u)'
  <2>1. /\ UNCHANGED <<file, record, journal, hypothesis, commits>>
        /\ call'[u].at = "over" \/ call'[u] = call[u]
    BY <1>5, CrashEffects
  <2> QED
    BY <2>1, <1>0 DEF CallKnows, Has, Before
<1>6. ASSUME NEW f \in Files, Edit(f) PROVE CallKnows(u)'
  <2>1. /\ UNCHANGED <<record, journal, hypothesis, call, commits>>
        /\ \A g \in Touches[u] : file'[g] = file[g]
    BY <1>6, <1>0, EditEffects, ContentTypes
  <2> QED
    BY <2>1, <1>0 DEF CallKnows, Has, Before
<1> QED
  BY <1>1, <1>2, <1>3, <1>4, <1>5, <1>6 DEF Next

\* Other steps leave a process that restores, its transaction and its files alone.
LEMMA RestoringLeft ==
  ASSUME Types, Undisturbed, NEW g \in Hosts, RecoveryKnows(g),
         Restoring' \subseteq Restoring, recovery'[g] = recovery[g],
         commits' = commits, Committing' \subseteq Committing,
         \A u \in HalfDone : /\ journal'[u] = journal[u]
                             /\ \A f \in Touches[u] : file'[f] = file[f]
  PROVE  RecoveryKnows(g)'
<1>1. CASE g \in Restoring'
  <2> DEFINE t == recovery[g].of
  <2>1. /\ g \in Restoring /\ t \in HalfDone /\ t \notin Committing
        /\ recovery[g].clean => \A f \in Touches[t] \ recovery[g].todo : file[f] = Before(t, f)
    BY <1>1 DEF RecoveryKnows
  <2>2. \A x \in Restoring' : x = g
    BY <2>1, RestoringAlone
  <2>3. t \in HalfDone' /\ t \notin Committing'
    BY <2>1 DEF HalfDone, Unfinished
  <2>4. recovery'[g].clean => \A f \in Touches[t] \ recovery'[g].todo : file'[f] = Before(t, f)'
    BY <2>1 DEF Before
  <2> QED
    BY <2>2, <2>3, <2>4 DEF RecoveryKnows
<1>2. CASE g \notin Restoring'
  BY <1>2 DEF RecoveryKnows
<1> QED
  BY <1>1, <1>2

LEMMA RecoveryKnowsNext ==
  ASSUME ProtocolInv, LocksKnown, Undisturbed, Next, ~trespass', NEW g \in Hosts
  PROVE  RecoveryKnows(g)'
<1>0. /\ Types /\ BeforesKnown /\ Remains /\ RecoveryKnows(g) /\ RestoreKnown(g)
      /\ host \in [Hosts -> {"off", "starting", "up", "dead"}]
      /\ recovery \in [Hosts -> RecoveryType]
      /\ journal \in [Transactions -> JournalType]
      /\ file \in [Files -> Contents]
  BY DEF ProtocolInv, Undisturbed, Types, BeforesKnown
<1>1. ASSUME NEW t \in Transactions, Protocol(t) PROVE RecoveryKnows(g)'
  <2>1. UNCHANGED <<host, recovery, file, journal, call, commits>>
    BY <1>1, ProtocolLeaves
  <2> QED
    BY <2>1, <1>0, RestoringLeft DEF Restoring, RecoveryAt, Committing
<1>2. ASSUME NEW t \in Transactions, TakeLock(t) \/ CommitStep(t) PROVE RecoveryKnows(g)'
  <2>1. Restoring' = {}
    BY <1>2, <1>0, NoTrespass, TakeLockAlone, CommitAlone
  <2> QED
    BY <2>1 DEF RecoveryKnows
<1>3. ASSUME NEW h \in Hosts, Start(h) PROVE RecoveryKnows(g)'
  <2>1. /\ UNCHANGED <<recovery, file, journal, call, commits>>
        /\ host[h] = "off" /\ host' = [host EXCEPT ![h] = "starting"]
    BY <1>3 DEF Start
  <2>2. Restoring' \subseteq Restoring
    BY <1>0, <2>1 DEF LocksKnown, Restoring, RecoveryAt
  <2> QED
    BY <2>1, <2>2, <1>0, RestoringLeft DEF Committing
<1>4. ASSUME NEW h \in Hosts, RecoveryStep(h) PROVE RecoveryKnows(g)'
  <2>0. /\ UNCHANGED <<record, commits, call, Committing>> /\ host[h] = "starting"
        /\ \A x \in Hosts \ {h} : recovery'[x] = recovery[x]
        /\ host' = host \/ host' = [host EXCEPT ![h] = "up"]
    BY <1>0, <1>4, RecoveryLeaves, RecoveryMoves DEF Committing
  <2>1. ASSUME NEW x \in Hosts \ {h}, x \in Restoring' PROVE x \in Restoring
    BY <1>0, <2>0, <2>1 DEF Restoring, RecoveryAt
  <2>2. CASE h \notin Restoring'
    <3>1. Restoring' \subseteq Restoring /\ Restoring' \subseteq Hosts
      BY <2>1, <2>2 DEF Restoring
    <3>2. CASE g \notin Restoring'
      BY <3>2 DEF RecoveryKnows
    <3>3. CASE g \in Restoring'
      <4>1. g # h /\ h \notin Restoring
        BY <2>1, <2>2, <3>1, <3>3, <1>0, RestoringAlone
      <4>2. file' = file /\ \A u \in HalfDone : journal'[u] = journal[u]
        BY <1>0, <1>4, <4>1, RecoveryTouches DEF HalfDone, Unfinished
      <4> QED
        BY <1>0, <2>0, <3>1, <4>1, <4>2, RestoringLeft
    <3> QED
      BY <3>2, <3>3
  <2>3. CASE h \in Restoring' /\ h \notin Restoring
    <3>1. PICK t \in Transactions : ReadJournal(h, t) /\ recovery'[h].at = "restoring"
      <4>1. recovery'[h].at = "restoring" /\ recovery[h].at # "restoring" /\ host' = host
        BY <1>0, <2>0, <2>3 DEF Restoring, RecoveryAt
      <4>2. ~(ReadLock(h) \/ RemoveLock(h) \/ ListJournals(h) \/ Recovered(h) \/ Started(h))
        BY <1>0, <1>4, <4>1, RecoveryMoves DEF Started
      <4>3. \A f \in Files : ~RecoverOne(h, f)
        BY <4>1 DEF RecoverOne, RecoveryAt
      <4> QED
        BY <1>4, <4>1, <4>2, <4>3 DEF RecoveryStep
    <3>2. /\ journal[t].status = "applying" /\ ~RecordedAsCommitted(t)
          /\ recovery'[h].of = t /\ recovery'[h].todo = Touches[t]
      BY <1>0, <1>4, <3>1, RecoveryMoves
    <3>3. file' = file /\ journal' = journal
      BY <1>0, <3>1, <3>2, RecoveryStatus DEF ReadJournal
    <3>4. t \in HalfDone
      BY <1>0, <3>2 DEF Remains, HalfDone, Unfinished
    <3>5. t \notin Committing /\ \A x \in Restoring : recovery[x].of # t
      BY <1>0, <3>1, <3>2, NoTrespass
    <3>6. Restoring = {}
      BY <1>0, <3>4, <3>5, RestoringAlone
    <3>7. \A x \in Restoring' : x = h
      BY <2>1, <3>6 DEF Restoring
    <3>8. CASE g = h
      <4>1. t \in HalfDone' /\ t \notin Committing'
        BY <2>0, <3>3, <3>4, <3>5 DEF HalfDone, Unfinished
      <4> QED
        BY <3>2, <3>7, <3>8, <4>1 DEF RecoveryKnows
    <3>9. CASE g # h
      BY <3>7, <3>9 DEF RecoveryKnows
    <3> QED
      BY <3>8, <3>9
  <2>4. CASE h \in Restoring' /\ h \in Restoring
    <3> DEFINE t == recovery[h].of
    <3>0. /\ \A x \in Restoring' : x = h
          /\ t \in HalfDone /\ t \in Transactions /\ t \notin Committing
          /\ RecoveryKnows(h) /\ Touches[t] \subseteq Files
      BY <1>0, <2>1, <2>4, RestoringAlone, ContentTypes DEF Restoring, HalfDone, Unfinished, Undisturbed
    <3>1. PICK f \in Files : RecoverOne(h, f)
      <4>1. recovery[h].at = "restoring" /\ recovery'[h].at = "restoring"
        BY <2>4 DEF Restoring, RecoveryAt
      <4>2. ~Recovered(h)
        BY <1>0, <1>4, <4>1, RecoveryMoves
      <4>3. ~(ReadLock(h) \/ RemoveLock(h) \/ ListJournals(h) \/ Started(h)) /\ \A x \in Transactions : ~ReadJournal(h, x)
        BY <4>1 DEF ReadLock, RemoveLock, ListJournals, Started, ReadJournal, RecoveryAt
      <4> QED
        BY <1>4, <4>2, <4>3 DEF RecoveryStep
    <3>2. /\ journal' = journal
          /\ recovery'[h].of = t /\ recovery'[h].todo = recovery[h].todo \ {f}
          /\ \/ file' = [file EXCEPT ![f] = journal[t].before[f]]
             \/ file' = file /\ ~recovery'[h].clean
          /\ recovery'[h].clean => recovery[h].clean
      BY <1>0, <1>4, <3>1, RecoveryMoves DEF RecoverOne
    <3>3. recovery[h].clean => \A x \in Touches[t] \ recovery[h].todo : file[x] = Before(t, x)
      BY <2>4, <3>0 DEF RecoveryKnows
    <3>4. recovery'[h].clean => \A x \in Touches[t] \ recovery'[h].todo : file'[x] = Before(t, x)
      BY <3>0, <3>2, <3>3, <1>0 DEF Before
    <3>5. t \in HalfDone' /\ t \notin Committing'
      BY <2>0, <3>0, <3>2 DEF HalfDone, Unfinished
    <3>6. CASE g = h
      BY <3>0, <3>2, <3>4, <3>5, <3>6 DEF RecoveryKnows, Before
    <3>7. CASE g # h
      BY <3>0, <3>7 DEF RecoveryKnows
    <3> QED
      BY <3>6, <3>7
  <2> QED
    BY <2>2, <2>3, <2>4
<1>5. ASSUME NEW h \in Hosts, Crash(h) PROVE RecoveryKnows(g)'
  <2>1. /\ UNCHANGED <<file, journal, commits>>
        /\ host' = [host EXCEPT ![h] = "dead"] /\ recovery' = [recovery EXCEPT ![h] = Asleep]
        /\ \A t \in Transactions : call'[t].at = "over" \/ call'[t] = call[t]
    BY <1>5, CrashEffects
  <2>2. Restoring' \subseteq Restoring \ {h} /\ Committing' \subseteq Committing
    BY <2>1, <1>0 DEF Restoring, RecoveryAt, Committing, AtRest
  <2>3. CASE g = h
    BY <2>2, <2>3 DEF RecoveryKnows
  <2>4. CASE g # h
    BY <2>1, <2>2, <2>4, <1>0, RestoringLeft
  <2> QED
    BY <2>3, <2>4
<1>6. ASSUME NEW f \in Files, Edit(f) PROVE RecoveryKnows(g)'
  <2>1. /\ UNCHANGED <<host, recovery, journal, commits, call>>
        /\ \A t \in Transactions : \A x \in Touches[t] : file'[x] = file[x]
    BY <1>6, <1>0, EditEffects, ContentTypes
  <2> QED
    BY <2>1, <1>0, RestoringLeft DEF Restoring, RecoveryAt, Committing, HalfDone, Unfinished
<1> QED
  BY <1>1, <1>2, <1>3, <1>4, <1>5, <1>6 DEF Next

LEMMA RecordKept ==
  ASSUME NEW t \in Transactions, CommitStep(t), ~PutCommitted(t)
  PROVE  commits' = commits /\ (record' = record \/ RecordOutcome(t))
BY DEF CommitStep, WritePid, Prepare, Refuse, Consume, NotConsumed, StartApplying, Apply, RestoreOne, Applied,
   Confirm, Fails, JournalCommitted, Finish, Restored, Unlock, RecordOutcome

LEMMA RemainsNext ==
  ASSUME ProtocolInv, LocksKnown, Undisturbed, Next, ~trespass' PROVE Remains'
<1>0. /\ Types /\ BeforesKnown /\ Remains
      /\ \A t \in Transactions : CallKnows(t) /\ Touches[t] \subseteq Files
      /\ call \in [Transactions -> CallType]
      /\ journal \in [Transactions -> JournalType]
      /\ file \in [Files -> Contents]
      /\ record \in Records
  BY ContentTypes DEF ProtocolInv, Undisturbed, Types
<1>a. /\ \A t \in HalfDone : \A f \in Touches[t] : file[f] \in {t, Before(t, f)}
      /\ record.outcome = "committed" => record.last \in commits
      /\ \A t \in Unfinished : t \in commits => RecordedAsCommitted(t)
      /\ \A t \in commits : t \in Transactions /\ Has(t, {"applying", "committed"})
  BY <1>0 DEF Remains, Types
<1>b. ASSUME UNCHANGED <<file, record, journal, commits>> PROVE Remains'
  BY <1>a, <1>b DEF Remains, HalfDone, Unfinished, Before, Has, RecordedAsCommitted
<1>1. ASSUME NEW t \in Transactions, Protocol(t) \/ TakeLock(t) PROVE Remains'
  BY <1>1, <1>b, ProtocolLeaves DEF TakeLock
<1>3. ASSUME NEW t \in Transactions, CommitStep(t) PROVE Remains'
  <2>1. /\ \A u \in HalfDone : u = t
        /\ \A u \in Transactions \ {t} : journal'[u] = journal[u]
    BY <1>0, <1>3, CommitAlone, CommitEffects DEF CommitGoes
  <2>2. CallKnows(t) /\ CallKnows(t)'
    BY <1>0, <1>3, CallKnowsNext
  <2>3. commits' = commits \/ (PutCommitted(t) /\ commits' = commits \cup {t})
    BY <1>3, RecordKept DEF PutCommitted
  <2>4. ASSUME NEW u \in HalfDone', NEW f \in Touches[u] PROVE file'[f] \in {u, Before(u, f)'}
    <3>a. u = t /\ f \in Files /\ t \notin commits /\ t \in Unfinished'
      BY <1>0, <2>1, <2>3, <2>4 DEF HalfDone, Unfinished
    <3>1. \/ file' = file
          \/ \E g \in Files : file' = [file EXCEPT ![g] = t]
          \/ \E g \in Files : file' = [file EXCEPT ![g] = Before(t, g)]
      BY <1>3, CommitWritesOnly DEF CommitWrites, Before
    <3>2. CASE StartApplying(t)
      <4>1. call[t].at = "consumed" /\ file' = file /\ journal'[t].before = journal[t].before
        BY <1>0, <3>2 DEF StartApplying, At, Journals, JournalType
      <4>2. file[f] = Before(t, f)
        BY <2>2, <2>4, <3>a, <4>1 DEF CallKnows
      <4> QED
        BY <3>a, <4>1, <4>2 DEF Before
    <3>3. CASE ~StartApplying(t)
      <4>1. t \in Unfinished /\ journal'[t].before = journal[t].before
        BY <1>0, <1>3, <3>a, <3>3, CommitStatus DEF Unfinished, Outcome
      <4>2. file[f] \in {t, Before(t, f)} /\ Before(t, f)' = Before(t, f)
        BY <1>a, <2>4, <3>a, <4>1 DEF Before, HalfDone
      <4> QED
        BY <1>0, <3>a, <3>1, <4>2
    <3> QED
      BY <3>2, <3>3
  <2>5. record'.outcome = "committed" => record'.last \in commits'
    <3>1. CASE PutCommitted(t)
      BY <3>1 DEF PutCommitted
    <3>2. CASE RecordOutcome(t)
      BY <1>0, <1>a, <3>2 DEF RecordOutcome, Outcome, Records
    <3>3. CASE ~PutCommitted(t) /\ ~RecordOutcome(t)
      BY <1>3, <1>a, <3>3, RecordKept
    <3> QED
      BY <3>1, <3>2, <3>3
  <2>6. ASSUME NEW u \in Unfinished', u \in commits' PROVE RecordedAsCommitted(u)'
    <3>0. u \in Transactions /\ (u # t => u \in Unfinished /\ u \in commits)
      BY <2>1, <2>3, <2>6 DEF Unfinished
    <3>1. CASE PutCommitted(t)
      <4>1. u = t
        BY <1>0, <3>0, <3>1, NoTrespass DEF Forgets
      <4> QED
        BY <3>1, <4>1 DEF PutCommitted, RecordedAsCommitted
    <3>2. CASE RecordOutcome(t) /\ record' # record
      <4>1. t \notin commits /\ commits' = commits
        BY <2>2, <3>2 DEF RecordOutcome, At, CallKnows
      <4> QED
        BY <1>0, <2>6, <3>0, <3>2, <4>1, NoTrespass DEF Forgets
    <3>3. CASE ~PutCommitted(t) /\ record' = record
      <4>1. commits' = commits
        BY <1>3, <3>3, RecordKept
      <4>2. CASE u = t
        <5>1. t \in Unfinished
          BY <1>0, <1>3, <2>2, <2>6, <4>1, <4>2, CommitStatus DEF Unfinished, Outcome, CallKnows
        <5> QED
          BY <1>a, <2>6, <3>3, <4>1, <4>2, <5>1 DEF RecordedAsCommitted
      <4>3. CASE u # t
        BY <1>a, <3>0, <3>3, <4>3 DEF RecordedAsCommitted
      <4> QED
        BY <4>2, <4>3
    <3>4. record' = record \/ PutCommitted(t) \/ RecordOutcome(t)
      BY <1>3, RecordKept
    <3> QED
      BY <3>1, <3>2, <3>3, <3>4
  <2>7. ASSUME NEW u \in commits' PROVE Has(u, {"applying", "committed"})'
    <3>0. u \in commits \/ (u = t /\ PutCommitted(t))
      BY <2>3
    <3>1. u \in Transactions
      BY <1>a, <3>0
    <3>2. CASE u # t
      BY <1>a, <2>1, <3>0, <3>1, <3>2 DEF Has
    <3>3. CASE PutCommitted(t) /\ u = t
      BY <2>2, <3>3 DEF PutCommitted, At, CallKnows, Has
    <3>4. CASE u = t /\ u \in commits
      <4>1. call[t].at \notin {"checking", "consumed", "restoring"}
        BY <2>2, <3>4 DEF CallKnows
      <4>2. journal'[t] = journal[t] \/ journal'[t].status = "committed"
        BY <1>0, <1>3, <4>1, CommitStatus
      <4> QED
        BY <1>a, <3>4, <4>2 DEF Has
    <3> QED
      BY <3>0, <3>2, <3>3, <3>4
  <2> QED
    BY <2>4, <2>5, <2>6, <2>7 DEF Remains
<1>4. ASSUME NEW h \in Hosts, Start(h) PROVE Remains'
  BY <1>4, <1>b DEF Start
<1>5. ASSUME NEW h \in Hosts, RecoveryStep(h) PROVE Remains'
  <2>1. /\ UNCHANGED <<record, commits>>
        /\ \A u \in Transactions : journal'[u].before = journal[u].before
    BY <1>0, <1>5, RecoveryTouches
  <2>2. CASE h \notin Restoring
    <3>1. /\ file' = file /\ HalfDone' = HalfDone
          /\ \A u \in Transactions :
               \/ journal'[u] = journal[u]
               \/ u \in commits /\ journal[u].status = "applying" /\ journal'[u].status = "committed"
      BY <1>0, <1>5, <2>2, RecoveryTouches
    <3>2. \A u \in Unfinished' : u \in Unfinished
      BY <3>1 DEF Unfinished
    <3>3. \A u \in HalfDone : \A f \in Touches[u] : Before(u, f)' = Before(u, f)
      BY <2>1 DEF Before, HalfDone, Unfinished
    <3>4. \A u \in commits' : Has(u, {"applying", "committed"})'
      BY <1>a, <2>1, <3>1 DEF Has
    <3> QED
      BY <2>1, <3>1, <3>2, <3>3, <3>4, <1>a DEF Remains, RecordedAsCommitted
  <2>3. CASE h \in Restoring
    <3>0. PICK t \in HalfDone : t = recovery[h].of
      BY <1>0, <2>3, RestoringAlone
    <3>1. /\ \A u \in HalfDone : u = t
          /\ \A u \in Transactions \ {t} : journal'[u] = journal[u]
          /\ journal' = journal \/ (file' = file /\ HalfDone' = {})
      BY <1>0, <1>5, <2>3, <3>0, RestoringAlone, RecoveryTouches
    <3>a. t \in Transactions /\ t \notin commits /\ Touches[t] \subseteq Files
      BY <1>0, <3>0 DEF HalfDone, Unfinished
    <3>2. \A u \in commits' : u \in Transactions /\ journal'[u] = journal[u]
      BY <1>a, <2>1, <3>1, <3>a
    <3>3. \A u \in commits' : Has(u, {"applying", "committed"})'
      BY <1>a, <2>1, <3>2 DEF Has
    <3>4. \A u \in Unfinished' : u \in commits' => RecordedAsCommitted(u)'
      BY <1>a, <2>1, <3>2 DEF Unfinished, RecordedAsCommitted
    <3>5. CASE journal' = journal
      <4>1. file' = file \/ \E f \in Files : file' = [file EXCEPT ![f] = Before(t, f)]
        BY <1>5, <2>3, <3>0 DEF RecoveryStep, ReadLock, RemoveLock, ListJournals, ReadJournal, RecoverOne, Recovered, Started,
           RecoveryAt, SetFile, Before, Restoring
      <4>2. HalfDone' = HalfDone /\ \A f \in Touches[t] : Before(t, f)' = Before(t, f)
        BY <2>1, <3>5 DEF HalfDone, Unfinished, Before
      <4>3. \A f \in Touches[t] : file'[f] \in {t, Before(t, f)}
        BY <1>0, <1>a, <3>1, <3>a, <4>1
      <4> QED
        BY <1>a, <2>1, <3>1, <3>3, <3>4, <4>2, <4>3 DEF Remains
    <3>6. CASE file' = file /\ HalfDone' = {}
      BY <1>a, <2>1, <3>3, <3>4, <3>6 DEF Remains
    <3> QED
      BY <3>1, <3>5, <3>6
  <2> QED
    BY <2>2, <2>3
<1>6. ASSUME NEW h \in Hosts, Crash(h) PROVE Remains'
  BY <1>6, <1>b, CrashEffects
<1>7. ASSUME NEW f \in Files, Edit(f) PROVE Remains'
  <2>1. /\ UNCHANGED <<record, journal, commits, Unfinished, HalfDone>>
        /\ \A t \in Transactions : \A x \in Touches[t] : file'[x] = file[x]
    BY <1>7, <1>0, EditEffects, ContentTypes DEF Unfinished, HalfDone
  <2>2. \A u \in HalfDone : u \in Transactions
    BY DEF HalfDone, Unfinished
  <2> QED
    BY <2>1, <2>2, <1>a DEF Remains, Before, Has, RecordedAsCommitted
<1> QED
  BY <1>1, <1>3, <1>4, <1>5, <1>6, <1>7 DEF Next

-----------------------------------------------------------------------------
LEMMA InitOrder == Init => OrderInv
<1> SUFFICES ASSUME Init PROVE OrderInv
  OBVIOUS
<1>1. Unfinished = {} /\ HalfDone = {} /\ Committing = {} /\ Restoring = {}
  BY DEF Init, Unfinished, HalfDone, Committing, Restoring, RecoveryAt, NoCall, AtRest
<1>2. LocksKnown
  BY <1>1 DEF Init, LocksKnown, RecoveryAt, NoLock, Asleep
<1>3. Exclusive /\ Remains
  BY <1>1 DEF Init, Exclusive, Remains
<1>4. \A t \in Transactions : CallKnows(t)
  BY DEF Init, CallKnows, NoCall, Has
<1>5. \A h \in Hosts : RecoveryKnows(h)
  BY <1>1 DEF RecoveryKnows
<1> QED
  BY <1>2, <1>3, <1>4, <1>5 DEF OrderInv, Undisturbed

LEMMA NextOrder ==
  ASSUME ProtocolInv, OrderInv, [Next]_vars PROVE OrderInv'
<1>1. CASE Next
  <2>1. LocksKnown'
    BY <1>1, LocksKnownNext DEF OrderInv
  <2>2. ASSUME ~trespass' PROVE Undisturbed'
    <3>1. Undisturbed
      BY <1>1, <2>2, NoTrespass DEF OrderInv, ProtocolInv
    <3> QED
      BY <1>1, <2>2, <3>1, ExclusiveNext, RemainsNext, CallKnowsNext, RecoveryKnowsNext DEF OrderInv, Undisturbed
  <2> QED
    BY <2>1, <2>2 DEF OrderInv
<1>2. CASE UNCHANGED vars
  <2>1. LocksKnown' = LocksKnown
    BY <1>2 DEF vars, LocksKnown, RecoveryAt, Running, Committing
  <2>2. Exclusive' = Exclusive /\ Remains' = Remains
    BY <1>2 DEF vars, Exclusive, Remains, Committing, HalfDone, Unfinished, Before, Has, RecordedAsCommitted
  <2>3. \A t \in Transactions : CallKnows(t) => CallKnows(t)'
    BY <1>2 DEF vars, CallKnows, Before, Has
  <2>4. \A h \in Hosts : RecoveryKnows(h) => RecoveryKnows(h)'
    BY <1>2 DEF vars, RecoveryKnows, Before, HalfDone, Unfinished, Committing, Restoring, RecoveryAt
  <2>5. trespass' = trespass
    BY <1>2 DEF vars
  <2> QED
    BY <2>1, <2>2, <2>3, <2>4, <2>5 DEF OrderInv, Undisturbed
<1> QED
  BY <1>1, <1>2

\* Whatever fails and whoever starts and dies: owners of locks are known, and until somebody
\* enters where another is at work the commit under way holds the lock, what is half done is
\* its or a recovery's alone, and both know the journal, the files and the record.
THEOREM SchemaOrder == Spec => [](ProtocolInv /\ OrderInv)
<1>1. Init => ProtocolInv /\ OrderInv
  BY InitProtocol, InitOrder
<1>2. ProtocolInv /\ OrderInv /\ [Next]_vars => (ProtocolInv /\ OrderInv)'
  BY NextProtocol, NextOrder
<1> QED
  BY <1>1, <1>2, PTL DEF Spec

\* At most one commit or recovery changes the workspace, and a commit holds the lock, until
\* somebody enters where another is at work.
THEOREM SchemaOneAtATime == Spec => []OneAtATime
<1>1. ASSUME ProtocolInv, OrderInv, ~trespass
      PROVE  /\ \A t \in Committing : lock.by = t
             /\ \A g, h \in Restoring : g = h
             /\ Committing = {} \/ Restoring = {}
  <2>1. Types /\ Undisturbed
    BY <1>1 DEF ProtocolInv, OrderInv
  <2> QED
    BY <2>1, RestoringAlone DEF Undisturbed, Exclusive
<1>2. ProtocolInv /\ OrderInv => OneAtATime
  BY <1>1 DEF OneAtATime
<1> QED
  BY <1>2, SchemaOrder, PTL

\* A transaction that has committed is never rolled back, by itself or by recovery, until
\* somebody enters where another is at work.
THEOREM SchemaCommittedStays == Spec => CommittedStays
<1> DEFINE Stays == trespass' \/ \A t \in commits : journal'[t].status \notin {"rolled_back", "quarantined"}
<1>1. ASSUME ProtocolInv, OrderInv', Next PROVE Stays
  <2>1. commits \subseteq commits'
    <3>1. ASSUME NEW t \in Transactions, TakeLock(t) \/ CommitStep(t) PROVE commits \subseteq commits'
      BY <3>1, CommitWritesOnly DEF CommitWrites
    <3>2. ASSUME NEW h \in Hosts, Start(h) \/ RecoveryStep(h) \/ Crash(h) PROVE commits' = commits
      BY <3>2, RecoveryLeaves, CrashEffects DEF Start
    <3>3. ASSUME NEW t \in Transactions, Protocol(t) PROVE commits' = commits
      BY <3>3, ProtocolLeaves
    <3>4. ASSUME NEW f \in Files, Edit(f) PROVE commits' = commits
      BY <3>4, EditEffects
    <3> QED
      BY <1>1, <3>1, <3>2, <3>3, <3>4 DEF Next
  <2> QED
    BY <1>1, <2>1 DEF OrderInv, Undisturbed, Remains, Has
<1>2. ProtocolInv /\ OrderInv' /\ [Next]_vars => [Stays]_vars
  BY <1>1
<1>3. Spec => [](ProtocolInv /\ OrderInv)
  BY SchemaOrder
<1> QED
  BY <1>2, <1>3, PTL DEF Spec, CommittedStays

-----------------------------------------------------------------------------
(* Refinement: all or nothing *)

Quarantined == {t \in Transactions : journal[t].status = "quarantined"}

\* The files with a transaction undone.
Undone(t) == [f \in Files |-> IF f \in Touches[t] THEN Before(t, f) ELSE file[f]]

\* What View is: there is at most one transaction to undo.
ViewRight ==
  /\ View \in [Files -> Contents]
  /\ \A t \in HalfDone : View = Undone(t)
  /\ HalfDone = {} => View = file

LEMMA ViewKnown == ProtocolInv /\ Undisturbed => ViewRight
<1> SUFFICES ASSUME ProtocolInv, Undisturbed PROVE ViewRight
  OBVIOUS
<1>0. /\ file \in [Files -> Contents]
      /\ \A t, u \in HalfDone : t = u
      /\ \A t \in HalfDone : t \in Transactions /\ Touches[t] \subseteq Files
      /\ \A t \in HalfDone : \A f \in Touches[t] : journal[t].before[f] \in Contents
  BY ContentTypes, BeforeTypes DEF ProtocolInv, Undisturbed, Types, Exclusive, HalfDone, Unfinished
<1> DEFINE U(f) == {u \in Unfinished : u \notin commits /\ f \in Touches[u]}
           Seen(f) == IF U(f) = {} THEN file[f] ELSE journal[CHOOSE u \in U(f) : TRUE].before[f]
<1>v. View = [f \in Files |-> Seen(f)]
  BY DEF View
<1>c. \A f \in Files : /\ U(f) # {} => (CHOOSE u \in U(f) : TRUE) \in U(f)
                       /\ U(f) = {u \in HalfDone : f \in Touches[u]}
  BY DEF HalfDone
<1>1. ASSUME NEW t \in HalfDone PROVE View = Undone(t) /\ View \in [Files -> Contents]
  <2>1. ASSUME NEW f \in Files PROVE Seen(f) = IF f \in Touches[t] THEN Before(t, f) ELSE file[f]
    <3> HIDE DEF U
    <3>1. CASE f \in Touches[t]
      <4>1. t \in U(f) /\ \A u \in U(f) : u = t
        BY <1>0, <1>1, <1>c, <3>1
      <4>2. (CHOOSE u \in U(f) : TRUE) = t
        BY <1>c, <4>1
      <4>3. U(f) # {}
        BY <4>1
      <4> QED
        BY <3>1, <4>2, <4>3 DEF Before
    <3>2. CASE f \notin Touches[t]
      BY <1>0, <1>1, <1>c, <3>2
    <3> QED
      BY <3>1, <3>2
  <2> HIDE DEF Seen, U
  <2>2. View = Undone(t)
    BY <1>v, <2>1 DEF Undone
  <2> QED
    BY <2>2, <1>0, <1>1 DEF Undone, Before
<1>2. ASSUME HalfDone = {} PROVE View = file
  <2>1. \A f \in Files : {u \in Unfinished : u \notin commits /\ f \in Touches[u]} = {}
    BY <1>2 DEF HalfDone
  <2>2. View = [f \in Files |-> file[f]]
    BY <1>v, <2>1
  <2> QED
    BY <2>2, <1>0
<1> QED
  BY <1>1, <1>2, <1>0 DEF ViewRight

LEMMA InitAbstract == Init => Abstract!Init
<1> SUFFICES ASSUME Init PROVE Abstract!Init
  OBVIOUS
<1>1. Unfinished = {} /\ HalfDone = {} /\ Quarantined = {} /\ ~trespass
  BY DEF Init, Unfinished, HalfDone, Quarantined
<1>2. View = file
  <2>1. ProtocolInv /\ Undisturbed
    BY <1>1, InitProtocol, InitOrder DEF OrderInv
  <2> QED
    BY <1>1, <2>1, ViewKnown DEF ViewRight
<1> QED
  BY <1>1, <1>2 DEF Init, Abstract!Init, Quarantined

\* A step that leaves the files, the journals and the commits alone stutters.
LEMMA Stutters ==
  ASSUME ViewRight, ViewRight', UNCHANGED <<file, journal, commits>>, record'.generation = record.generation
  PROVE  UNCHANGED Abstract!vars
<1>1. UNCHANGED <<HalfDone, Quarantined>> /\ \A t \in HalfDone : Undone(t)' = Undone(t)
  BY DEF HalfDone, Unfinished, Quarantined, Undone, Before
<1>2. View' = View
  BY <1>1 DEF ViewRight
<1> QED
  BY <1>1, <1>2 DEF Abstract!vars, Quarantined

\* The end of a rollback: nothing is left of the transaction, or it is quarantined.
LEMMA Concluded ==
  ASSUME Types, Remains, ViewRight, ViewRight', NEW t \in Transactions, NEW clean \in BOOLEAN,
         journal' = [journal EXCEPT ![t].status = Outcome(clean)],
         UNCHANGED <<file, record, commits>>, t \notin commits,
         journal[t].status \in {"prepared", "applying"}, \A u \in HalfDone : u = t,
         clean => \A f \in Touches[t] : file[f] = Before(t, f)
  PROVE  Abstract!Quarantine(t) \/ UNCHANGED Abstract!vars
<1>0. /\ journal \in [Transactions -> JournalType] /\ file \in [Files -> Contents]
      /\ Touches[t] \subseteq Files
  BY ContentTypes DEF Types
<1>1. Outcome(clean) = IF clean THEN "rolled_back" ELSE "quarantined"
  BY DEF Outcome
<1>2. HalfDone' = {}
  BY <1>0, <1>1 DEF HalfDone, Unfinished, JournalType
<1>3. View' = file
  BY <1>2 DEF ViewRight
<1>4. /\ clean => Quarantined' = Quarantined
      /\ ~clean => Quarantined' = Quarantined \cup {t}
      /\ t \notin Quarantined
  BY <1>0, <1>1 DEF Quarantined, JournalType
<1>5. \/ View = file
      \/ View = Undone(t) /\ \A f \in Touches[t] : file[f] \in {t, Before(t, f)}
  BY DEF ViewRight, Remains
<1>6. CASE clean
  <2>1. View = file
    BY <1>0, <1>5, <1>6 DEF Undone
  <2> QED
    BY <1>3, <1>4, <1>6, <2>1 DEF Abstract!vars, Quarantined
<1>7. CASE ~clean
  <2>1. PICK part \in SUBSET Touches[t] : file = [f \in Files |-> IF f \in part THEN t ELSE View[f]]
    <3>1. CASE View = file
      <4>1. file = [f \in Files |-> IF f \in {} THEN t ELSE View[f]]
        BY <1>0, <3>1
      <4>2. {} \in SUBSET Touches[t]
        OBVIOUS
      <4> QED
        BY <4>1, <4>2
    <3>2. CASE View = Undone(t) /\ \A f \in Touches[t] : file[f] \in {t, Before(t, f)}
      <4> DEFINE part == {f \in Touches[t] : file[f] = t}
      <4>1. file = [f \in Files |-> IF f \in part THEN t ELSE View[f]]
        BY <1>0, <3>2 DEF Undone
      <4> QED
        BY <4>1
    <3> QED
      BY <1>5, <3>1, <3>2
  <2> QED
    BY <1>3, <1>4, <1>7, <2>1 DEF Abstract!Quarantine, Abstract!Open, Abstract!Written, Quarantined
<1> QED
  BY <1>6, <1>7

\* A step of a commit is its commit, its quarantine, or hidden behind the before images.
LEMMA CommitRefines ==
  ASSUME ProtocolInv, LocksKnown, Undisturbed, ProtocolInv', Undisturbed', Next, ~trespass',
         ViewRight, ViewRight', NEW t \in Transactions, CommitStep(t)
  PROVE  [Abstract!Next]_Abstract!vars
<1>0. /\ Types /\ Remains /\ CallKnows(t) /\ CallKnows(t)'
      /\ journal \in [Transactions -> JournalType] /\ file \in [Files -> Contents]
      /\ record \in Records /\ call \in [Transactions -> CallType]
      /\ \A u \in HalfDone : u = t
      /\ Touches[t] \subseteq Files
  <2>1. Types /\ Remains
    BY DEF ProtocolInv, Undisturbed
  <2> QED
    BY <2>1, CommitAlone, ContentTypes DEF Types, Undisturbed
<1>a. t \in HalfDone => View = Undone(t)
  BY DEF ViewRight
<1>b. t \in HalfDone' => View' = Undone(t)'
  BY DEF ViewRight
<1>c. t \notin HalfDone => View = file
  BY <1>0 DEF ViewRight
<1>d. \A u \in Transactions \ {t} : journal'[u] = journal[u]
  BY <1>0, CommitEffects DEF CommitGoes
<1>e. \A u \in HalfDone' : u = t
  <2>1. commits \subseteq commits'
    BY CommitWritesOnly DEF CommitWrites
  <2> QED
    BY <1>d, <1>0, <2>1 DEF HalfDone, Unfinished
<1>f. t \notin HalfDone' => View' = file'
  BY <1>e DEF ViewRight
<1>1. CASE WritePid(t) \/ Refuse(t) \/ Consume(t) \/ NotConsumed(t) \/ Applied(t) \/ Confirm(t) \/ Fails(t)
             \/ Finish(t) \/ Unlock(t) \/ RecordOutcome(t)
  <2>1. UNCHANGED <<file, journal, commits>> /\ record'.generation = record.generation
    BY <1>0, <1>1 DEF WritePid, Refuse, Consume, NotConsumed, Applied, Confirm, Fails, Finish, Unlock, RecordOutcome, Records
  <2> QED
    BY <2>1, Stutters
<1>2. CASE Prepare(t)
  <2>1. /\ call[t].at = "checking" /\ UNCHANGED <<file, record, commits>>
        /\ journal'[t].status = "prepared" /\ journal[t].status \in {"none", "prepared"}
    BY <1>0, <1>2 DEF Prepare, At, CallKnows, Has
  <2>2. View = file /\ View' = file' /\ Quarantined' = Quarantined
    BY <1>c, <1>d, <1>f, <2>1 DEF HalfDone, Unfinished, Quarantined
  <2> QED
    BY <2>1, <2>2 DEF Abstract!vars, Quarantined
<1>3. CASE StartApplying(t)
  <2>1. /\ call[t].at = "consumed" /\ UNCHANGED <<file, record, commits>>
        /\ journal'[t].status = "applying" /\ journal'[t].before = journal[t].before
    BY <1>0, <1>3 DEF StartApplying, At, Journals, JournalType
  <2>2. journal[t].status = "prepared" /\ t \notin commits /\ \A f \in Touches[t] : file[f] = Before(t, f)
    BY <1>0, <2>1 DEF CallKnows, Has
  <2>3. View' = Undone(t)' /\ Undone(t)' = Undone(t) /\ View = file
    BY <1>b, <1>c, <2>1, <2>2 DEF HalfDone, Unfinished, Undone, Before
  <2>4. Undone(t) = file
    BY <1>0, <2>2 DEF Undone
  <2>5. Quarantined' = Quarantined
    BY <1>d, <2>1, <2>2 DEF Quarantined
  <2> QED
    BY <2>1, <2>3, <2>4, <2>5 DEF Abstract!vars, Quarantined
<1>4. ASSUME NEW f \in Files, Apply(t, f) PROVE [Abstract!Next]_Abstract!vars
  <2>1. /\ call[t].at = "applying" /\ f \in call[t].todo /\ UNCHANGED <<journal, record, commits>>
        /\ file' = [file EXCEPT ![f] = t]
    BY <1>4 DEF Apply, At, SetFile
  <2>2. t \in HalfDone /\ f \in Touches[t]
    BY <1>0, <2>1 DEF CallKnows, Has, HalfDone, Unfinished, ProtocolInv, BeforesKnown, BeforeKnown
  <2>3. Undone(t)' = Undone(t)
    BY <1>0, <2>1, <2>2 DEF Undone, Before
  <2>4. View' = View /\ Quarantined' = Quarantined
    BY <1>a, <1>b, <2>1, <2>2, <2>3 DEF HalfDone, Unfinished, Quarantined
  <2> QED
    BY <2>1, <2>4 DEF Abstract!vars, Quarantined
<1>5. ASSUME NEW f \in Files, RestoreOne(t, f) PROVE [Abstract!Next]_Abstract!vars
  <2>1. /\ call[t].at = "restoring" /\ f \in call[t].todo /\ UNCHANGED <<journal, record, commits>>
        /\ file' = file \/ file' = [file EXCEPT ![f] = Before(t, f)]
    BY <1>5 DEF RestoreOne, At, SetFile, Before
  <2>2. /\ journal[t].status \in {"prepared", "applying"} /\ t \notin commits /\ f \in Touches[t]
        /\ journal[t].status = "prepared" => file[f] = Before(t, f)
    BY <1>0, <2>1 DEF CallKnows, Has, ProtocolInv, BeforesKnown, BeforeKnown
  <2>3. HalfDone' = HalfDone /\ Quarantined' = Quarantined
    BY <2>1 DEF HalfDone, Unfinished, Quarantined
  <2>4. CASE journal[t].status = "applying"
    <3>1. Undone(t)' = Undone(t)
      BY <1>0, <2>1, <2>2 DEF Undone, Before
    <3>2. View' = View
      BY <1>a, <1>b, <2>1, <2>2, <2>3, <2>4, <3>1 DEF HalfDone, Unfinished
    <3> QED
      BY <2>1, <2>3, <3>2 DEF Abstract!vars, Quarantined
  <2>5. CASE journal[t].status = "prepared"
    <3>1. file' = file
      BY <1>0, <2>1, <2>2, <2>5
    <3> QED
      BY <2>1, <3>1, Stutters
  <2> QED
    BY <2>2, <2>4, <2>5
<1>6. CASE PutCommitted(t)
  <2>1. /\ call[t].at = "put" /\ UNCHANGED <<file, journal>>
        /\ record'.generation = hypothesis[t].generation + 1 /\ commits' = commits \cup {t}
    BY <1>6 DEF PutCommitted, At
  <2>2. /\ t \in HalfDone /\ t \notin HalfDone' /\ record.generation = hypothesis[t].generation
        /\ t \notin Quarantined \cup commits /\ \A f \in Touches[t] : file[f] = t
    BY <1>0, <2>1 DEF CallKnows, Has, HalfDone, Unfinished, Quarantined
  <2>3. View = Undone(t) /\ View' = file
    BY <1>a, <1>f, <2>1, <2>2
  <2>4. file = [f \in Files |-> IF f \in Touches[t] THEN t ELSE View[f]]
    BY <1>0, <2>2, <2>3 DEF Undone
  <2>5. Quarantined' = Quarantined
    BY <2>1 DEF Quarantined
  <2>6. Abstract!Commit(t)
    BY <2>1, <2>2, <2>3, <2>4, <2>5 DEF Abstract!Commit, Abstract!Open, Abstract!Written, Quarantined
  <2> QED
    BY <2>6 DEF Abstract!Next
<1>7. CASE JournalCommitted(t)
  <2>1. /\ call[t].at = "committed" /\ UNCHANGED <<file, record, commits>>
        /\ journal' = journal \/ journal' = [journal EXCEPT ![t].status = "committed"]
    BY <1>7 DEF JournalCommitted, At, Concludes, Journals
  <2>2. t \in commits /\ Has(t, {"applying", "committed"})
    BY <1>0, <2>1 DEF CallKnows, Remains
  <2>3. Quarantined' = Quarantined
    BY <1>0, <2>1, <2>2 DEF Quarantined, Has, JournalType
  <2>4. View = file /\ View' = file'
    BY <1>c, <1>f, <2>1, <2>2 DEF HalfDone
  <2> QED
    BY <2>1, <2>3, <2>4 DEF Abstract!vars, Quarantined
<1>8. CASE Restored(t)
  <2>1. /\ call[t].at = "restoring" /\ call[t].todo = {} /\ UNCHANGED <<file, record, commits>>
        /\ journal' = journal \/ journal' = [journal EXCEPT ![t].status = Outcome(call[t].clean)]
    BY <1>8 DEF Restored, At, Concludes, Journals
  <2>2. CASE journal' = journal
    BY <2>1, <2>2, Stutters
  <2>3. CASE journal' = [journal EXCEPT ![t].status = Outcome(call[t].clean)]
    <3>1. /\ journal[t].status \in {"prepared", "applying"} /\ t \notin commits
          /\ call[t].clean => \A f \in Touches[t] : file[f] = Before(t, f)
      BY <1>0, <2>1 DEF CallKnows, Has
    <3>2. call[t].clean \in BOOLEAN
      BY <1>0 DEF CallType
    <3>3. Abstract!Quarantine(t) \/ UNCHANGED Abstract!vars
      BY <1>0, <2>1, <2>3, <3>1, <3>2, Concluded
    <3> QED
      BY <3>3 DEF Abstract!Next
  <2> QED
    BY <2>1, <2>2, <2>3
<1> QED
  BY <1>1, <1>2, <1>3, <1>4, <1>5, <1>6, <1>7, <1>8 DEF CommitStep

\* A step of a process that starts is a quarantine or hidden.
LEMMA RecoveryRefines ==
  ASSUME ProtocolInv, Undisturbed, ViewRight, ViewRight', NEW h \in Hosts, RecoveryStep(h)
  PROVE  [Abstract!Next]_Abstract!vars
<1>0. /\ Types /\ BeforesKnown /\ Remains /\ RestoreKnown(h) /\ RecoveryKnows(h)
      /\ journal \in [Transactions -> JournalType] /\ file \in [Files -> Contents]
      /\ recovery \in [Hosts -> RecoveryType]
      /\ UNCHANGED <<record, commits>>
  BY RecoveryLeaves DEF ProtocolInv, Undisturbed, BeforesKnown, Types
<1>1. CASE h \notin Restoring
  <2>1. /\ file' = file /\ HalfDone' = HalfDone
        /\ \A u \in Transactions :
             \/ journal'[u] = journal[u]
             \/ u \in commits /\ journal[u].status = "applying" /\ journal'[u].status = "committed"
    BY <1>0, <1>1, RecoveryTouches
  <2>2. Quarantined' = Quarantined
    BY <2>1 DEF Quarantined
  <2>3. \A u \in HalfDone : Undone(u)' = Undone(u)
    BY <2>1 DEF HalfDone, Unfinished, Undone, Before
  <2>4. View' = View
    BY <2>1, <2>3 DEF ViewRight
  <2> QED
    BY <1>0, <2>2, <2>4 DEF Abstract!vars, Quarantined
<1>2. CASE h \in Restoring
  <2>0. PICK t \in HalfDone : t = recovery[h].of
    BY <1>0, <1>2, RestoringAlone
  <2>1. /\ t \in Transactions /\ t \notin commits /\ \A u \in HalfDone : u = t
        /\ journal[t].status = "applying" /\ recovery[h].at = "restoring"
        /\ recovery[h].todo \subseteq Touches[t] /\ Touches[t] \subseteq Files
        /\ recovery[h].clean => \A f \in Touches[t] \ recovery[h].todo : file[f] = Before(t, f)
    BY <1>0, <1>2, <2>0, RestoringAlone, ContentTypes DEF RecoveryKnows, RestoreKnown, HalfDone, Unfinished, Restoring, RecoveryAt
  <2>2. ASSUME NEW f \in Files, RecoverOne(h, f) PROVE [Abstract!Next]_Abstract!vars
    <3>1. /\ journal' = journal /\ f \in Touches[t]
          /\ file' = file \/ file' = [file EXCEPT ![f] = Before(t, f)]
      BY <2>0, <2>1, <2>2 DEF RecoverOne, SetFile, Before
    <3>2. HalfDone' = HalfDone /\ Quarantined' = Quarantined
      BY <1>0, <3>1 DEF HalfDone, Unfinished, Quarantined
    <3>3. Undone(t)' = Undone(t)
      BY <1>0, <2>1, <3>1 DEF Undone, Before
    <3>4. View' = View
      BY <2>0, <3>2, <3>3 DEF ViewRight
    <3> QED
      BY <1>0, <3>2, <3>4 DEF Abstract!vars, Quarantined
  <2>3. CASE Recovered(h)
    <3>1. /\ recovery[h].todo = {} /\ file' = file
          /\ journal' = journal \/ journal' = [journal EXCEPT ![t].status = Outcome(recovery[h].clean)]
      BY <1>0, <2>0, <2>3, RecoveryStatus DEF Recovered
    <3>2. CASE journal' = journal
      BY <1>0, <3>1, <3>2, Stutters
    <3>3. CASE journal' = [journal EXCEPT ![t].status = Outcome(recovery[h].clean)]
      <4>1. recovery[h].clean \in BOOLEAN /\ (recovery[h].clean => \A f \in Touches[t] : file[f] = Before(t, f))
        BY <1>0, <2>1, <3>1 DEF RecoveryType
      <4>2. Abstract!Quarantine(t) \/ UNCHANGED Abstract!vars
        BY <1>0, <2>1, <3>1, <3>3, <4>1, Concluded
      <4> QED
        BY <2>1, <4>2 DEF Abstract!Next
    <3> QED
      BY <3>1, <3>2, <3>3
  <2> QED
    BY <2>1, <2>2, <2>3 DEF RecoveryStep, ReadLock, RemoveLock, ListJournals, ReadJournal, Started, RecoveryAt
<1> QED
  BY <1>1, <1>2

\* An edit from outside touches no file of a transaction.
LEMMA EditRefines ==
  ASSUME ProtocolInv, ViewRight, ViewRight', NEW f \in Files, Edit(f)
  PROVE  Abstract!Edit
<1>0. /\ UNCHANGED <<record, journal, commits, HalfDone, Quarantined>>
      /\ f \in Files \ UNION {Touches[t] : t \in Transactions}
      /\ file' = [file EXCEPT ![f] = Edited]
      /\ file \in [Files -> Contents]
      /\ \A t \in HalfDone : t \in Transactions /\ f \notin Touches[t]
  BY EditEffects DEF HalfDone, Unfinished, Quarantined, ProtocolInv, Types
<1>1. View' = [g \in Files |-> IF g \in {f} THEN Edited ELSE View[g]]
  <2>1. ASSUME NEW t \in HalfDone PROVE View' = [g \in Files |-> IF g \in {f} THEN Edited ELSE View[g]]
    <3>1. View = Undone(t) /\ View' = Undone(t)'
      BY <1>0, <2>1 DEF ViewRight
    <3>2. Undone(t)' = [g \in Files |-> IF g \in Touches[t] THEN Before(t, g) ELSE file'[g]]
      BY <1>0 DEF Undone, Before
    <3> QED
      BY <1>0, <3>1, <3>2 DEF Undone
  <2>2. CASE HalfDone = {}
    <3>1. View = file /\ View' = file'
      BY <1>0, <2>2 DEF ViewRight
    <3> QED
      BY <1>0, <3>1
  <2> QED
    BY <2>1, <2>2
<1> QED
  BY <1>0, <1>1 DEF Abstract!Edit, Abstract!Written, Quarantined

LEMMA NextRefines ==
  ASSUME ProtocolInv, OrderInv, ProtocolInv', OrderInv', [Next]_vars, ~trespass'
  PROVE  [Abstract!Next]_Abstract!vars
<1>1. Undisturbed /\ Undisturbed' /\ LocksKnown
  <2>1. ~trespass
    BY NoTrespass DEF ProtocolInv, vars
  <2> QED
    BY <2>1 DEF OrderInv
<1>2. ViewRight /\ ViewRight'
  <2>1. ProtocolInv /\ Undisturbed => ViewRight
    BY ViewKnown
  <2>2. (ProtocolInv /\ Undisturbed => ViewRight)'
    BY ViewKnown, PTL
  <2> QED
    BY <1>1, <2>1, <2>2
<1>3. /\ UNCHANGED <<file, journal, commits>> /\ record'.generation = record.generation
           => UNCHANGED Abstract!vars
  BY <1>2, Stutters
<1>4. ASSUME NEW t \in Transactions, Protocol(t) \/ TakeLock(t) PROVE UNCHANGED Abstract!vars
  BY <1>3, <1>4, ProtocolLeaves DEF TakeLock
<1>5. ASSUME NEW t \in Transactions, CommitStep(t), Next PROVE [Abstract!Next]_Abstract!vars
  BY <1>1, <1>2, <1>5, CommitRefines
<1>6. ASSUME NEW h \in Hosts, Start(h) \/ Crash(h) PROVE UNCHANGED Abstract!vars
  BY <1>3, <1>6, CrashEffects DEF Start
<1>7. ASSUME NEW h \in Hosts, RecoveryStep(h) PROVE [Abstract!Next]_Abstract!vars
  BY <1>1, <1>2, <1>7, RecoveryRefines
<1>8. ASSUME NEW f \in Files, Edit(f) PROVE [Abstract!Next]_Abstract!vars
  BY <1>2, <1>8, EditRefines DEF Abstract!Next
<1>9. CASE UNCHANGED vars
  BY <1>3, <1>9 DEF vars
<1> QED
  BY <1>4, <1>5, <1>6, <1>7, <1>8, <1>9 DEF Next

\* Transactions change all of their files or none: until somebody enters where another is at
\* work every step, seen as a process that recovers would leave the files, is one of
\* AtomicWorkspace, whatever crashes, fails, starts and recovers.
THEOREM SchemaAllOrNothing == Spec => AllOrNothing
<1>1. Init => Abstract!Init
  BY InitAbstract
<1>2. /\ ProtocolInv /\ OrderInv /\ (ProtocolInv /\ OrderInv)' /\ [Next]_vars
           => [trespass' \/ Abstract!Next]_Abstract!vars
  BY NextRefines
<1>3. Spec => [](ProtocolInv /\ OrderInv)
  BY SchemaOrder
<1> QED
  BY <1>1, <1>2, <1>3, PTL DEF Spec, AllOrNothing

=============================================================================
