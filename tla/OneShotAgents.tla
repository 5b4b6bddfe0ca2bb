---------------------------- MODULE OneShotAgents ---------------------------
(***************************************************************************)
(* One-shot agents: src/src/agents/one-shot-manager.ts and semaphore.ts.   *)
(*                                                                         *)
(* A run has a permit of the semaphore, a status file that its child       *)
(* process and the manager both write, and up to MaxAttempts launches of   *)
(* the child.  Its monitor polls the file; stop, the abort of its signal   *)
(* and close interfere at every await.  One action stands for what runs    *)
(* between two awaits.                                                     *)
(***************************************************************************)
EXTENDS Naturals, Sequences, FiniteSets, SequencesExt

CONSTANTS
  Runs,
  Limit,           \* the semaphore's limit
  MaxAttempts,     \* AGENT_STARTUP_MAX_ATTEMPTS
  NoStatus,        \* there is no status file, no result
  Flaky,           \* bound: the runs whose startup may fail so that it is tried again
  MaxStops,        \* bound: runs under stop when a caller asks for another one
  MaxAborts,       \* bound: signals that fire
  MaxFailedWrites  \* bound: spawns whose files cannot be written

ASSUME LimitAssumption == Limit \in Nat \ {0} /\ MaxAttempts \in Nat \ {0}
ASSUME BoundAssumption ==
  Flaky \subseteq Runs /\ MaxStops \in Nat /\ MaxAborts \in Nat /\ MaxFailedWrites \in Nat

VARIABLES
  active,    \* the semaphore's count
  waiters,   \* and its queue
  spawn,     \* of each run, where its spawn is
  aborted,   \* of each run, whether its abort signal has fired
  child,     \* of each run and attempt, the child process
  doomed,    \* of each run, the attempts whose transport was told to stop
  file,      \* of each run, the status in its status file, NoStatus if there is no file
  transport, \* of each run, the attempt that managed.transport belongs to
  monitor,   \* of each run, where #monitor is
  stop,      \* of each run, where a call of stop is
  outcome,   \* of each run, the result it was settled with, or NoStatus
  closing,
  completed, \* history: the runs whose child wrote its result before they were settled
  late       \* history: the attempts launched when their run was being stopped or settled

semaphore == <<active, waiters, spawn>>
process == <<child, doomed, transport>>
vars == <<semaphore, aborted, process, file, monitor, stop, outcome, closing, completed, late>>

Terminal == {"completed", "failed", "retryable", "stopped", "timed_out"}
Attempts == 1..MaxAttempts

ASSUME StatusAssumption == NoStatus \notin Terminal

Settled(r) == outcome[r] # NoStatus
Registered(r) == spawn[r] = "running"

Init ==
  /\ active = 0 /\ waiters = <<>>
  /\ spawn = [r \in Runs |-> "none"]
  /\ aborted = [r \in Runs |-> FALSE]
  /\ child = [r \in Runs |-> [n \in Attempts |-> "none"]]
  /\ doomed = [r \in Runs |-> {}]
  /\ file = [r \in Runs |-> NoStatus]
  /\ transport = [r \in Runs |-> 0]
  /\ monitor = [r \in Runs |-> "none"]
  /\ stop = [r \in Runs |-> "none"]
  /\ outcome = [r \in Runs |-> NoStatus]
  /\ closing = FALSE
  /\ completed = {} /\ late = [r \in Runs |-> {}]

-----------------------------------------------------------------------------
(* The semaphore: a spawn that has its permit goes on with its files *)

\* mutant: a permit that comes back while others wait is not handed on
DropsPermit(place) ==
  /\ active' = active - 1
  /\ UNCHANGED waiters
  /\ spawn' = place

\* The permit comes back, and spawns are in the places given otherwise; the first
\* waiter gets it.
Release(place) ==
  IF waiters = <<>>
  THEN active' = active - 1 /\ UNCHANGED waiters /\ spawn' = place
  ELSE UNCHANGED active /\ waiters' = Tail(waiters) /\ spawn' = [place EXCEPT ![Head(waiters)] = "files"]

Spawn(r) ==
  /\ spawn[r] = "none"
  /\ IF active < Limit
     THEN active' = active + 1 /\ UNCHANGED waiters /\ spawn' = [spawn EXCEPT ![r] = "files"]
     ELSE UNCHANGED active /\ waiters' = Append(waiters, r) /\ spawn' = [spawn EXCEPT ![r] = "queued"]
  /\ UNCHANGED <<aborted, process, file, monitor, stop, outcome, closing, completed, late>>

\* The signal fires: a queued spawn gives up, a registered run is stopped, and the
\* others look at the signal when they have launched.
Abort(r) ==
  /\ ~aborted[r] /\ Cardinality({s \in Runs : aborted[s]}) < MaxAborts
  /\ ~Settled(r) /\ spawn[r] \in {"queued", "files", "launching", "running"}
  /\ aborted' = [aborted EXCEPT ![r] = TRUE]
  /\ IF spawn[r] = "queued"
     THEN /\ \E i \in DOMAIN waiters : waiters[i] = r /\ waiters' = RemoveAt(waiters, i)
          /\ spawn' = [spawn EXCEPT ![r] = "failed"] /\ UNCHANGED <<active, stop>>
     ELSE UNCHANGED semaphore
          /\ stop' = IF Registered(r) /\ stop[r] = "none" THEN [stop EXCEPT ![r] = "asked"] ELSE stop
  /\ UNCHANGED <<process, file, monitor, outcome, closing, completed, late>>

-----------------------------------------------------------------------------
(* spawn *)

\* The run's directory and files; then the worktree, the session and the transport
\* are awaited.
WriteFiles(r) ==
  /\ spawn[r] = "files"
  /\ spawn' = [spawn EXCEPT ![r] = "launching"]
  /\ UNCHANGED <<active, waiters, aborted, process, file, monitor, stop, outcome, closing, completed, late>>

\* A write throws, outside the try that gives the permit back.
WriteFilesFails(r) ==
  /\ spawn[r] = "files" /\ Cardinality({s \in Runs : spawn[s] = "leaked"}) < MaxFailedWrites
  /\ spawn' = [spawn EXCEPT ![r] = "leaked"]
  /\ UNCHANGED <<active, waiters, aborted, process, file, monitor, stop, outcome, closing, completed, late>>

\* mutant: a launch that fails keeps its permit
KeepsPermit(r) == spawn' = [spawn EXCEPT ![r] = "failed"] /\ UNCHANGED <<active, waiters>>

Abandons(r) == Release([spawn EXCEPT ![r] = "failed"])

\* The worktree, the session or the launch fails.
LaunchFails(r) ==
  /\ spawn[r] = "launching"
  /\ Abandons(r)
  /\ UNCHANGED <<aborted, process, file, monitor, stop, outcome, closing, completed, late>>

Launches(r, n) ==
  /\ child' = [child EXCEPT ![r][n] = "alive"]
  /\ transport' = [transport EXCEPT ![r] = n]

\* The child is launched: the run is registered and monitored, unless its signal has
\* fired.
Launch(r) ==
  /\ spawn[r] = "launching"
  /\ Launches(r, 1)
  /\ IF aborted[r]
     THEN /\ spawn' = [spawn EXCEPT ![r] = "aborting"]
          /\ doomed' = [doomed EXCEPT ![r] = {1}]
          /\ UNCHANGED monitor
     ELSE /\ spawn' = [spawn EXCEPT ![r] = "running"]
          /\ monitor' = [monitor EXCEPT ![r] = "poll"]
          /\ UNCHANGED doomed
  /\ UNCHANGED <<active, waiters, aborted, file, stop, outcome, closing, completed, late>>

AbortedLaunch(r) ==
  /\ spawn[r] = "aborting"
  /\ Abandons(r)
  /\ UNCHANGED <<aborted, process, file, monitor, stop, outcome, closing, completed, late>>

-----------------------------------------------------------------------------
(* The child.  It writes one terminal status and ends, or it ends without. *)

ChildSteps(r, n, after) ==
  /\ child[r][n] = "alive"
  /\ child' = [child EXCEPT ![r][n] = after]
  /\ UNCHANGED <<semaphore, aborted, doomed, transport, monitor, stop, outcome, closing, late>>

ChildCompletes(r, n) ==
  /\ ChildSteps(r, n, "done")
  /\ file' = [file EXCEPT ![r] = "completed"]
  /\ completed' = IF Settled(r) THEN completed ELSE completed \cup {r}

ChildFails(r, n) ==
  /\ ChildSteps(r, n, "done")
  /\ \E status \in {"failed"} \cup (IF r \in Flaky THEN {"retryable"} ELSE {}) :
       file' = [file EXCEPT ![r] = status]
  /\ UNCHANGED completed

ChildIsStopped(r, n) ==
  /\ n \in doomed[r] /\ ChildSteps(r, n, "done")
  /\ file' = [file EXCEPT ![r] = "stopped"]
  /\ UNCHANGED completed

ChildEnds(r, n) ==
  /\ ChildSteps(r, n, "gone")
  /\ UNCHANGED <<file, completed>>

-----------------------------------------------------------------------------
(* The monitor *)

MonitorAt(r, where) == monitor[r] = where
Monitors(r, where) == monitor' = [monitor EXCEPT ![r] = where]

\* #settle: once; the permit is given back.
Settles(r, status) ==
  IF Settled(r) THEN UNCHANGED <<outcome, semaphore>>
  ELSE outcome' = [outcome EXCEPT ![r] = status] /\ Release(spawn)

\* What a file says, as the result that the caller gets.
Result(status) == IF status = "retryable" THEN "failed" ELSE status

MayRetry(r) == ~Settled(r) /\ ~closing /\ ~aborted[r]

\* The file is terminal: it is the result, or the startup is tried again.
SeesResult(r) ==
  /\ MonitorAt(r, "poll") /\ ~Settled(r) /\ file[r] \in Terminal
  /\ Monitors(r, "over") /\ Settles(r, Result(file[r]))
  /\ UNCHANGED <<aborted, process, file, stop, closing, completed, late>>

RetryBegins(r) ==
  /\ MonitorAt(r, "poll") /\ file[r] = "retryable"
  /\ transport[r] < MaxAttempts /\ MayRetry(r)
  /\ Monitors(r, "retry")
  /\ UNCHANGED <<semaphore, aborted, process, file, stop, outcome, closing, completed, late>>

\* After the delay: the file is removed and the launch awaited, or the failure stands.
RetryGoesOn(r) ==
  /\ MonitorAt(r, "retry")
  /\ IF MayRetry(r)
     THEN /\ file' = [file EXCEPT ![r] = NoStatus]
          /\ Monitors(r, "relaunch")
          /\ UNCHANGED <<outcome, semaphore>>
     ELSE /\ Settles(r, "failed")
          /\ Monitors(r, "over")
          /\ UNCHANGED file
  /\ UNCHANGED <<aborted, process, stop, closing, completed, late>>

\* The launch returns; nothing is asked again.
Relaunch(r) ==
  /\ MonitorAt(r, "relaunch")
  /\ Launches(r, transport[r] + 1)
  /\ late' = IF Settled(r) \/ stop[r] # "none"
             THEN [late EXCEPT ![r] = @ \cup {transport[r] + 1}] ELSE late
  /\ Monitors(r, "poll")
  /\ UNCHANGED <<semaphore, aborted, doomed, file, stop, outcome, closing, completed>>

RelaunchFails(r) ==
  /\ MonitorAt(r, "relaunch")
  /\ file' = [file EXCEPT ![r] = "failed"]
  /\ Settles(r, "failed")
  /\ Monitors(r, "over")
  /\ UNCHANGED <<aborted, process, stop, closing, completed, late>>

\* mutant: nothing is told to stop
SparesChild(r) == UNCHANGED doomed

Dooms(r) == doomed' = [doomed EXCEPT ![r] = @ \cup {transport[r]}]

\* The deadline has passed: the transport is stopped and its exit awaited.
Deadline(r) ==
  /\ MonitorAt(r, "poll") /\ ~Settled(r) /\ file[r] \notin Terminal
  /\ Dooms(r)
  /\ Monitors(r, "deadline")
  /\ UNCHANGED <<semaphore, aborted, child, transport, file, stop, outcome, closing, completed, late>>

\* mutant: what the child wrote before it ended is not looked at
NeverCompleted(r) == FALSE

WroteResult(r) == file[r] \in Terminal \ {"stopped"}

\* The child has ended, or the grace period has.
TimesOut(r) ==
  /\ MonitorAt(r, "deadline")
  /\ IF WroteResult(r)
     THEN Settles(r, Result(file[r])) /\ UNCHANGED file
     ELSE Settles(r, "timed_out") /\ file' = [file EXCEPT ![r] = "timed_out"]
  /\ Monitors(r, "over")
  /\ UNCHANGED <<aborted, process, stop, closing, completed, late>>

\* The file says nothing and the transport is gone, for as long as the grace period.
SeesDead(r) ==
  /\ MonitorAt(r, "poll") /\ ~Settled(r)
  /\ file[r] \notin Terminal /\ child[r][transport[r]] = "gone"
  /\ Monitors(r, "dead")
  /\ UNCHANGED <<semaphore, aborted, process, file, stop, outcome, closing, completed, late>>

\* isAlive has answered; the file is not read again.
ReportsDead(r) ==
  /\ MonitorAt(r, "dead")
  /\ file' = [file EXCEPT ![r] = "failed"]
  /\ Settles(r, "failed")
  /\ Monitors(r, "over")
  /\ UNCHANGED <<aborted, process, stop, closing, completed, late>>

MonitorEnds(r) ==
  /\ MonitorAt(r, "poll") /\ Settled(r)
  /\ Monitors(r, "over")
  /\ UNCHANGED <<semaphore, aborted, process, file, stop, outcome, closing, completed, late>>

-----------------------------------------------------------------------------
(* stop and close *)

AskStop(r) ==
  /\ Registered(r) /\ ~Settled(r) /\ stop[r] = "none"
  /\ Cardinality({s \in Runs : stop[s] # "none"}) < MaxStops
  /\ stop' = [stop EXCEPT ![r] = "asked"]
  /\ UNCHANGED <<semaphore, aborted, process, file, monitor, outcome, closing, completed, late>>

\* close asks every registered run to stop.
Close ==
  /\ ~closing
  /\ closing' = TRUE
  /\ stop' = [r \in Runs |-> IF Registered(r) /\ ~Settled(r) /\ stop[r] = "none" THEN "asked" ELSE stop[r]]
  /\ UNCHANGED <<semaphore, aborted, process, file, monitor, outcome, completed, late>>

\* A terminal file settles the run; otherwise the transport is stopped.
StopBegins(r) ==
  /\ stop[r] = "asked"
  /\ IF Settled(r) \/ file[r] \in Terminal
     THEN /\ Settles(r, Result(file[r]))
          /\ stop' = [stop EXCEPT ![r] = "over"]
          /\ UNCHANGED doomed
     ELSE /\ Dooms(r)
          /\ stop' = [stop EXCEPT ![r] = "waiting"]
          /\ UNCHANGED <<outcome, semaphore>>
  /\ UNCHANGED <<aborted, child, transport, file, monitor, closing, completed, late>>

\* The child has ended, or the grace period has; the file is read again.
StopEnds(r) ==
  /\ stop[r] = "waiting"
  /\ IF file[r] \in Terminal
     THEN Settles(r, Result(file[r])) /\ UNCHANGED file
     ELSE Settles(r, "stopped") /\ file' = [file EXCEPT ![r] = "stopped"]
  /\ stop' = [stop EXCEPT ![r] = "over"]
  /\ UNCHANGED <<aborted, process, monitor, closing, completed, late>>

-----------------------------------------------------------------------------
SpawnStep(r) == WriteFiles(r) \/ WriteFilesFails(r) \/ LaunchFails(r) \/ Launch(r) \/ AbortedLaunch(r)

ChildStep(r, n) == ChildCompletes(r, n) \/ ChildFails(r, n) \/ ChildIsStopped(r, n) \/ ChildEnds(r, n)

MonitorStep(r) ==
  \/ SeesResult(r) \/ RetryBegins(r) \/ RetryGoesOn(r) \/ Relaunch(r) \/ RelaunchFails(r)
  \/ Deadline(r) \/ TimesOut(r) \/ SeesDead(r) \/ ReportsDead(r) \/ MonitorEnds(r)

StopStep(r) == StopBegins(r) \/ StopEnds(r)

Next ==
  \/ \E r \in Runs :
       \/ Spawn(r) \/ Abort(r) \/ SpawnStep(r) \/ MonitorStep(r) \/ AskStop(r) \/ StopStep(r)
       \/ \E n \in Attempts : ChildStep(r, n)
  \/ Close

Spec == Init /\ [][Next]_vars

\* What the manager's own code does next it does: its awaits return, its timers fire.
\* Of the children nothing is assumed.
FairSpec == Spec /\ \A r \in Runs : WF_vars(SpawnStep(r)) /\ WF_vars(MonitorStep(r)) /\ WF_vars(StopStep(r))

-----------------------------------------------------------------------------
(* Properties *)

\* The values of the variables.
TypeOK ==
  /\ active \in Nat /\ waiters \in Seq(Runs)
  /\ spawn \in [Runs -> {"none", "queued", "files", "launching", "aborting", "running", "failed", "leaked"}]
  /\ aborted \in [Runs -> BOOLEAN]
  /\ child \in [Runs -> [Attempts -> {"none", "alive", "done", "gone"}]]
  /\ doomed \in [Runs -> SUBSET Attempts] /\ late \in [Runs -> SUBSET Attempts]
  /\ transport \in [Runs -> 0..MaxAttempts]
  /\ file \in [Runs -> Terminal \cup {NoStatus}] /\ outcome \in [Runs -> Terminal \cup {NoStatus}]
  /\ monitor \in [Runs -> {"none", "poll", "retry", "relaunch", "deadline", "dead", "over"}]
  /\ stop \in [Runs -> {"none", "asked", "waiting", "over"}]
  /\ closing \in BOOLEAN /\ completed \subseteq Runs

Holds(r) == spawn[r] \in {"files", "launching", "aborting", "leaked"} \/ (Registered(r) /\ ~Settled(r))

\* Every permit in use is held by a run that is not settled or a spawn under way,
\* or was lost by a spawn whose files could not be written; nobody waits while one is free.
PermitsAccounted ==
  /\ active = Cardinality({r \in Runs : Holds(r)}) /\ active <= Limit
  /\ waiters # <<>> => active = Limit
  /\ \A r \in Runs : (spawn[r] = "queued") <=> (\E i \in DOMAIN waiters : waiters[i] = r)

\* The result that a child wrote before its run was settled is the run's result, whatever
\* deadline, stop, abort, close or exit came at the same time.
CompletionNotLost ==
  \A r \in completed : IF Settled(r) THEN outcome[r] = "completed" ELSE file[r] = "completed"

\* No child lives on untold after its run was settled or its spawn gave up, except one
\* that a startup retry launched while its run was being stopped.
OnlyLateOutlive ==
  \A r \in Runs : Settled(r) \/ spawn[r] = "failed" =>
    \A n \in Attempts : child[r][n] = "alive" => n \in doomed[r] \cup late[r]

\* A spawn that waits for a permit, or has it, ends in the end with its run settled or
\* given up, unless all permits are lost.
RunsSettle ==
  \A r \in Runs : spawn[r] # "none" ~>
    Settled(r) \/ spawn[r] \in {"failed", "leaked"} \/ Cardinality({s \in Runs : spawn[s] = "leaked"}) = Limit
=============================================================================
