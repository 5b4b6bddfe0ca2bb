-------------------------- MODULE DurableWorkflow ---------------------------
(***************************************************************************)
(* Durable workflows: src/src/workflows/durable.ts, and the loop of        *)
(* workflow.durable.run in src/src/runtime/quickjs-runtime.ts.             *)
(*                                                                         *)
(* A workflow is one entry of the mesh's shared state: a graph of phases   *)
(* that workers claim under a lease, run, and complete or fail.  Every     *)
(* operation reads the entry, computes its successor with the clock of     *)
(* that moment, and replaces the entry if nobody else did in between.      *)
(* A read that is staler than that changes nothing: by MeshState its       *)
(* conditional put fails.  Times are kept as what is left of them.         *)
(***************************************************************************)
EXTENDS Naturals, FiniteSets

CONSTANTS
  Phases, Workers, Nothing,
  Deps,         \* of each phase: the phases it depends on
  MaxAttempts,  \* of each phase: maxAttempts
  Lease         \* leaseMs

ASSUME GraphAssumption ==
  /\ Deps \in [Phases -> SUBSET Phases]
  /\ MaxAttempts \in [Phases -> Nat \ {0}]
  /\ Lease \in Nat \ {0}

Settled == {"completed", "partial", "failed", "cancelled"}
PhaseRecord == [status : {"pending", "ready", "running", "completed", "failed", "cancelled"},
                attempt : Nat, token : Nat, left : 0..Lease]
WorkflowRecord == [status : Settled \cup {"queued", "running"}, phases : [Phases -> PhaseRecord]]

ASSUME NothingAssumption == Nothing \notin Phases /\ Nothing \notin WorkflowRecord

VARIABLES
  record,     \* the stored workflow: [status, phases], or Nothing
  call,       \* of each worker: its operation between the read and the put
  overtaken,  \* the workers whose read is out of date
  claim,      \* of each worker: the claim it was given: [phase, token, left]
  claims,     \* history: how often each phase was claimed
  finisher    \* history: the lease under which each phase was completed

vars == <<record, call, overtaken, claim, claims, finisher>>

NoCall == [does |-> "none", phase |-> Nothing, token |-> 0, next |-> Nothing]
NoClaim == [phase |-> Nothing, token |-> 0, left |-> 0]

-----------------------------------------------------------------------------
(* The graph *)

Done(phases) == {p \in Phases : phases[p].status = "completed"}
Released(phase, status) == [phase EXCEPT !.status = status, !.token = 0, !.left = 0]

\* mutant: one completed dependency is enough
SomeDepDone(phases, p) == Deps[p] \cap Done(phases) # {}

DepsDone(phases, p) == Deps[p] \subseteq Done(phases)

\* mutant: a completed phase lets nothing else start
NoneReadied(phases) == phases

\* refreshReady
Readied(phases) ==
  [p \in Phases |-> IF phases[p].status = "pending" /\ DepsDone(phases, p)
                    THEN [phases[p] EXCEPT !.status = "ready"] ELSE phases[p]]

Some(phases, status) == \E p \in Phases : phases[p].status = status

\* mutant: the status of a cancelled workflow is computed like any other
StatusOfPhases(old, phases) ==
  IF Done(phases) = Phases THEN "completed"
  ELSE IF Some(phases, "failed") THEN IF Some(phases, "completed") THEN "partial" ELSE "failed"
  ELSE IF Some(phases, "running") THEN "running" ELSE "queued"

\* refreshWorkflowStatus
StatusOf(old, phases) ==
  IF old = "cancelled" THEN old
  ELSE IF Done(phases) = Phases THEN "completed"
  ELSE IF Some(phases, "failed") THEN IF Some(phases, "completed") THEN "partial" ELSE "failed"
  ELSE IF Some(phases, "running") THEN "running" ELSE "queued"

Refreshed(old, phases) ==
  LET ready == Readied(phases)
  IN  [status |-> StatusOf(old, ready), phases |-> ready]

LeaseExpired(phase) == phase.status = "running" /\ phase.left = 0

\* A phase whose attempt ended without success may be tried again.
Retriable(p, phase) == phase.attempt < MaxAttempts[p]

\* releaseExpiredLeases
WithoutExpired(r) ==
  Refreshed(r.status,
    [p \in Phases |->
       IF ~LeaseExpired(r.phases[p]) THEN r.phases[p]
       ELSE Released(r.phases[p], IF Retriable(p, r.phases[p]) THEN "ready" ELSE "failed")])

Initial ==
  [status |-> "queued",
   phases |-> [p \in Phases |-> [status |-> IF Deps[p] = {} THEN "ready" ELSE "pending",
                                 attempt |-> 0, token |-> 0, left |-> 0]]]

-----------------------------------------------------------------------------
Init ==
  /\ record = Nothing
  /\ call = [w \in Workers |-> NoCall]
  /\ overtaken = {}
  /\ claim = [w \in Workers |-> NoClaim]
  /\ claims = [p \in Phases |-> 0]
  /\ finisher = [p \in Phases |-> 0]

\* create: a second creation finds the first.
Create ==
  /\ record = Nothing
  /\ record' = Initial
  /\ UNCHANGED <<call, overtaken, claim, claims, finisher>>

\* The first half of an operation: it reads the entry and computes the next.
Begins(w, does, phase, token, next) ==
  /\ record # Nothing /\ call[w] = NoCall
  /\ call' = [call EXCEPT ![w] = [does |-> does, phase |-> phase, token |-> token, next |-> next]]
  /\ UNCHANGED <<record, overtaken, claim, claims, finisher>>

\* claim, by a worker whose last phase is over.  Its token is a new one.
BeginClaim(w, p) ==
  LET r == WithoutExpired(record)
      token == claims[p] + 1
  IN  /\ record # Nothing /\ claim[w] = NoClaim
      /\ r.status \notin Settled /\ r.phases[p].status = "ready"
      /\ Begins(w, "claim", p, token,
           [status |-> "running",
            phases |-> [r.phases EXCEPT ![p] =
              [status |-> "running", attempt |-> @.attempt + 1, token |-> token, left |-> Lease]]])

\* claim when no phase is ready: it releases expired leases all the same.
FindsNothing(w) ==
  LET r == WithoutExpired(record)
  IN  /\ record # Nothing /\ claim[w] = NoClaim
      /\ r.status \in Settled \/ ~Some(r.phases, "ready")
      /\ Begins(w, "look", Nothing, 0, r)

BeginResume(w) ==
  /\ record # Nothing /\ record.status \notin {"completed", "cancelled"}
  /\ Begins(w, "resume", Nothing, 0, WithoutExpired(record))

BeginCancel(w) ==
  /\ record # Nothing /\ record.status \notin {"completed", "cancelled"}
  /\ Begins(w, "cancel", Nothing, 0,
       [status |-> "cancelled",
        phases |-> [p \in Phases |-> IF record.phases[p].status = "completed" THEN record.phases[p]
                                     ELSE Released(record.phases[p], "cancelled")]])

\* mutant: whoever was given the phase once may finish it
OnceOwned(w) == record.phases[claim[w].phase].status = "running"

\* The token that the worker was given is the phase's.
Owns(w) ==
  LET phase == record.phases[claim[w].phase]
  IN  phase.status = "running" /\ phase.token = claim[w].token

Holding(w) == record # Nothing /\ claim[w] # NoClaim /\ call[w] = NoCall

BeginComplete(w) ==
  LET p == claim[w].phase
  IN  /\ Holding(w) /\ Owns(w)
      /\ Begins(w, "complete", p, claim[w].token,
           Refreshed(record.status,
             [record.phases EXCEPT ![p] = Released(@, "completed")]))

\* The phase failed, or its completion could not be stored.
BeginFail(w, retryable) ==
  LET p == claim[w].phase
      again == retryable /\ Retriable(p, record.phases[p])
  IN  /\ Holding(w) /\ Owns(w)
      /\ Begins(w, "fail", p, claim[w].token,
           Refreshed(record.status,
             [record.phases EXCEPT ![p] = Released(@, IF again THEN "ready" ELSE "failed")]))

\* complete and fail both throw: the phase went to somebody else.
Superseded(w) ==
  /\ Holding(w) /\ ~Owns(w)
  /\ claim' = [claim EXCEPT ![w] = NoClaim]
  /\ UNCHANGED <<record, call, overtaken, claims, finisher>>

\* mutant: the entry is replaced whoever wrote it since
AnyVersion(w) == TRUE

\* put with ifVersion: the entry is as it was read.
SameVersion(w) == w \notin overtaken

\* The second half of an operation.
Put(w) ==
  LET c == call[w]
  IN  /\ c # NoCall /\ SameVersion(w)
      /\ record' = c.next
      /\ call' = [call EXCEPT ![w] = NoCall]
      /\ overtaken' = {v \in Workers \ {w} : call[v] # NoCall}
      /\ claim' = CASE c.does = "claim" ->
                         [claim EXCEPT ![w] = [phase |-> c.phase, token |-> c.token,
                                               left |-> c.next.phases[c.phase].left]]
                    [] c.does \in {"complete", "fail"} -> [claim EXCEPT ![w] = NoClaim]
                    [] OTHER -> claim
      /\ claims' = IF c.does = "claim" THEN [claims EXCEPT ![c.phase] = @ + 1] ELSE claims
      /\ finisher' = IF c.does = "complete" THEN [finisher EXCEPT ![c.phase] = c.token]
                                            ELSE finisher

\* The put throws: another was faster, or the lock was not to be had.  The
\* operation starts over with a new read, or is given up.
PutFails(w) ==
  /\ call[w] # NoCall
  /\ call' = [call EXCEPT ![w] = NoCall]
  /\ overtaken' = overtaken \ {w}
  /\ UNCHANGED <<record, claim, claims, finisher>>

\* The worker's process dies and starts again.
Crash(w) ==
  /\ call[w] # NoCall \/ claim[w] # NoClaim
  /\ call' = [call EXCEPT ![w] = NoCall]
  /\ overtaken' = overtaken \ {w}
  /\ claim' = [claim EXCEPT ![w] = NoClaim]
  /\ UNCHANGED <<record, claims, finisher>>

Less(n) == IF n > 0 THEN n - 1 ELSE 0
Aged(r) == IF r = Nothing THEN Nothing
           ELSE [r EXCEPT !.phases = [p \in Phases |-> [r.phases[p] EXCEPT !.left = Less(@)]]]

\* Time passes for every lease, stored or about to be.
Tick ==
  /\ record' = Aged(record)
  /\ call' = [w \in Workers |-> [call[w] EXCEPT !.next = Aged(@)]]
  /\ claim' = [w \in Workers |-> [claim[w] EXCEPT !.left = Less(@)]]
  /\ UNCHANGED <<overtaken, claims, finisher>>

Works(w) ==
  \/ \E p \in Phases : BeginClaim(w, p)
  \/ FindsNothing(w)
  \/ BeginComplete(w) \/ BeginFail(w, TRUE) \/ BeginFail(w, FALSE) \/ Superseded(w)

Next ==
  \/ Create \/ Tick
  \/ \E w \in Workers :
       Works(w) \/ BeginResume(w) \/ BeginCancel(w) \/ Put(w) \/ PutFails(w) \/ Crash(w)

Spec == Init /\ [][Next]_vars

\* The workers run the workflow again and again, none is overtaken for ever by
\* others' cancellations and resumes, and the clock runs.
FairSpec ==
  /\ Spec /\ WF_vars(Tick)
  /\ \A w \in Workers :
       /\ WF_vars(Put(w) \/ PutFails(w))
       /\ SF_vars(Works(w)) /\ SF_vars(call[w].does \notin {"resume", "cancel"} /\ Put(w))

-----------------------------------------------------------------------------
(* Properties *)

\* The state is of the right shape.
TypeOK ==
  /\ record \in WorkflowRecord \cup {Nothing}
  /\ call \in [Workers -> [does : {"none", "claim", "look", "resume", "cancel", "complete", "fail"},
                           phase : Phases \cup {Nothing}, token : Nat,
                           next : WorkflowRecord \cup {Nothing}]]
  /\ overtaken \subseteq Workers
  /\ claim \in [Workers -> [phase : Phases \cup {Nothing}, token : Nat, left : 0..Lease]]
  /\ claims \in [Phases -> Nat]
  /\ finisher \in [Phases -> Nat]

\* No phase is handed out more often than its definition allows, over all
\* failures, expired leases, crashes and lost races.
ClaimsBounded == \A p \in Phases : claims[p] <= MaxAttempts[p]

\* No phase is ever handed out before all it depends on is completed.
DependenciesFirst ==
  \A p \in Phases : claims[p] > 0 => \A d \in Deps[p] : finisher[d] > 0

\* Nobody holds an unexpired lease on a phase that another holds one on.
LeaseExclusive ==
  \A v, w \in Workers :
    claim[v].left > 0 /\ claim[w].left > 0 /\ claim[v].phase = claim[w].phase => v = w

\* A phase is completed by its last claimant, once, and stays completed: what
\* a worker returns after its lease went to another is not accepted.
CompletedByLastClaimant ==
  /\ \A p \in Phases : finisher[p] > 0 => finisher[p] = claims[p]
  /\ record # Nothing =>
       \A p \in Phases : finisher[p] > 0 <=> record.phases[p].status = "completed"

\* A completed or cancelled workflow stays so, and one that failed, in part or
\* as a whole, is never worked on as if it had not.
SettledStays ==
  [][record # Nothing =>
       /\ record.status \in {"completed", "cancelled"} => record'.status = record.status
       /\ record.status \in {"partial", "failed"}
            => record'.status \in {"partial", "failed", "cancelled"}]_vars

\* Every workflow settles as long as somebody runs it, whoever else crashes.
WorkflowSettles == record # Nothing ~> record # Nothing /\ record.status \in Settled
=============================================================================
