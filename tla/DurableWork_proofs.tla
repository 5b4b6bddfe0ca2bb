-------------------------- MODULE DurableWork_proofs ------------------------
(***************************************************************************)
(* Proofs about the two records of work that survive their processes: the  *)
(* phases of a workflow (DurableWorkflow), for every graph of phases, every *)
(* set of workers and every lease, and the inbox of a persistent agent     *)
(* (PersistentInbox), for every set of hosts, every limit of the queue and *)
(* every bound.                                                            *)
(***************************************************************************)
EXTENDS DurableWorkflow, PersistentInbox, FiniteSetTheorems, TLAPS

(***************************************************************************)
(* Part one: DurableWorkflow.                                              *)
(***************************************************************************)

-----------------------------------------------------------------------------
(* The inductive invariant *)

\* A phase p of the phases ph, after so many claims of it, completed under the lease fin or not.
PhaseOK(ph, p, n, fin) ==
  /\ ph[p].attempt = n /\ n <= MaxAttempts[p]
  /\ ph[p].status = "pending" => n = 0
  /\ ph[p].status = "ready" => n < MaxAttempts[p]
  /\ ph[p].status \in {"ready", "running"} \/ n > 0 => DepsDone(ph, p)
  /\ ph[p].status = "running" => n > 0 /\ ph[p].token = n
  /\ fin > 0 <=> ph[p].status = "completed"
  /\ fin > 0 => fin = n

\* The status of a workflow with the phases ph.
StatusOK(status, ph) ==
  /\ status = "cancelled" => \A p \in Phases : ph[p].status \in {"completed", "cancelled"}
  /\ status = "completed" => Done(ph) = Phases
  /\ status \in {"partial", "failed"} => Some(ph, "failed")

\* A worker's claim c, when a workflow r has been claimed so often: an unexpired lease is the
\* phase's, unless the workflow was cancelled.
ClaimOK(r, cl, c) ==
  /\ c.phase \in Phases => 0 < c.token /\ c.token <= cl[c.phase]
  /\ c.left > 0 =>
       /\ c.phase \in Phases /\ c.token = cl[c.phase]
       /\ r.status = "cancelled" \/ (r.phases[c.phase].status = "running" /\ r.phases[c.phase].left = c.left)

\* No two workers were given the same token of a phase.
TokensDiffer(cm) ==
  \A v, w \in Workers : v # w /\ cm[v].phase \in Phases /\ cm[v].phase = cm[w].phase => cm[v].token # cm[w].token

\* A workflow r, its claims and completions, and what its workers were given, fit together.
Consistent(r, cl, fin, cm) ==
  /\ \A p \in Phases : PhaseOK(r.phases, p, cl[p], fin[p])
  /\ StatusOK(r.status, r.phases)
  /\ \A w \in Workers : ClaimOK(r, cl, cm[w])
  /\ TokensDiffer(cm)

\* What the put of a call c by worker w makes of the histories and of the claims.
ClaimsAfter(c) == IF c.does = "claim" THEN [claims EXCEPT ![c.phase] = @ + 1] ELSE claims
FinisherAfter(c) == IF c.does = "complete" THEN [finisher EXCEPT ![c.phase] = c.token] ELSE finisher
ClaimAfter(w, c) ==
  CASE c.does = "claim" ->
         [claim EXCEPT ![w] = [phase |-> c.phase, token |-> c.token,
                               left |-> c.next.phases[c.phase].left]]
    [] c.does \in {"complete", "fail"} -> [claim EXCEPT ![w] = NoClaim]
    [] OTHER -> claim

\* The status r and its successor.
StatusStep(old, new) ==
  /\ old \in {"completed", "cancelled"} => new = old
  /\ old \in {"partial", "failed"} => new \in {"partial", "failed", "cancelled"}

\* A put that can still succeed leaves a consistent workflow behind.
PutOK(w) ==
  LET c == call[w] IN
  c.does # "none" /\ w \notin overtaken =>
    /\ Consistent(c.next, ClaimsAfter(c), FinisherAfter(c), ClaimAfter(w, c))
    /\ StatusStep(record.status, c.next.status)

\* Of a call, what its kind says.
CallOK(c) ==
  /\ c.does = "none" => c = NoCall
  /\ c.does # "none" => record \in WorkflowRecord /\ c.next \in WorkflowRecord
  /\ c.does \in {"claim", "complete"} => c.phase \in Phases /\ c.token > 0

WorkflowInv ==
  /\ TypeOK
  /\ \A w \in Workers : CallOK(call[w]) /\ PutOK(w) /\ (claim[w].phase \notin Phases => claim[w] = NoClaim)
  /\ record \in WorkflowRecord => Consistent(record, claims, finisher, claim)
  /\ record \notin WorkflowRecord =>
       /\ \A p \in Phases : claims[p] = 0 /\ finisher[p] = 0
       /\ \A w \in Workers : claim[w] = NoClaim

PhasesType == [Phases -> PhaseRecord]
Statuses == Settled \cup {"queued", "running"}

-----------------------------------------------------------------------------
(* The graph *)

\* A phase that stays as it is stays right when no completed phase is lost.
LEMMA PhaseKept ==
  ASSUME NEW ph, NEW qh, NEW p \in Phases, NEW n, NEW f, PhaseOK(ph, p, n, f),
         Done(ph) \subseteq Done(qh), qh[p] = ph[p]
  PROVE  PhaseOK(qh, p, n, f)
  BY DEF PhaseOK, DepsDone

\* Refreshing makes pending phases ready and leaves the rest alone.
LEMMA ReadiedShape ==
  ASSUME NEW ph \in PhasesType
  PROVE  /\ Readied(ph) \in PhasesType
         /\ \A p \in Phases :
              \/ Readied(ph)[p] = ph[p]
              \/ /\ ph[p].status = "pending" /\ DepsDone(ph, p) /\ Readied(ph)[p].status = "ready"
                 /\ Readied(ph)[p].attempt = ph[p].attempt
         /\ Done(Readied(ph)) = Done(ph)
         /\ Some(Readied(ph), "failed") <=> Some(ph, "failed")
<1>1. ASSUME NEW p \in Phases
      PROVE  /\ Readied(ph)[p] \in PhaseRecord
             /\ \/ Readied(ph)[p] = ph[p]
                \/ /\ ph[p].status = "pending" /\ DepsDone(ph, p) /\ Readied(ph)[p].status = "ready"
                   /\ Readied(ph)[p].attempt = ph[p].attempt
  <2>1. ph[p] \in PhaseRecord
    BY DEF PhasesType
  <2>2. LET n == [ph[p] EXCEPT !.status = "ready"] IN
        n \in PhaseRecord /\ n.status = "ready" /\ n.attempt = ph[p].attempt
    BY <2>1 DEF PhaseRecord
  <2> QED BY <2>1, <2>2 DEF Readied
<1>2. Readied(ph) \in PhasesType
  BY <1>1 DEF PhasesType, Readied
<1> QED BY <1>1, <1>2 DEF Done, Some

\* Refreshed phases are right.
LEMMA ReadiedOK ==
  ASSUME NEW ph \in PhasesType, NEW cl, NEW fin, \A p \in Phases : PhaseOK(ph, p, cl[p], fin[p])
  PROVE  \A p \in Phases : PhaseOK(Readied(ph), p, cl[p], fin[p])
<1> TAKE p \in Phases
<1>1. CASE Readied(ph)[p] = ph[p]
  BY <1>1, ReadiedShape, PhaseKept
<1>2. CASE ph[p].status = "pending" /\ DepsDone(ph, p) /\ Readied(ph)[p].status = "ready"
           /\ Readied(ph)[p].attempt = ph[p].attempt
  BY <1>2, ReadiedShape, GraphAssumption DEF PhaseOK, DepsDone
<1> QED BY <1>1, <1>2, ReadiedShape

\* The computed status is that of the phases, and a cancelled workflow stays cancelled.
LEMMA StatusOfOK ==
  ASSUME NEW old \in Statuses, NEW ph \in PhasesType,
         old = "cancelled" => \A p \in Phases : ph[p].status \in {"completed", "cancelled"}
  PROVE  /\ StatusOf(old, ph) \in Statuses
         /\ StatusOK(StatusOf(old, ph), ph)
         /\ StatusOf(old, ph) = "cancelled" <=> old = "cancelled"
         /\ (old = "completed" => Done(ph) = Phases) /\ (old \in {"partial", "failed"} => Some(ph, "failed"))
            => StatusStep(old, StatusOf(old, ph))
<1>1. Some(ph, "failed") => Done(ph) # Phases
  BY DEF Some, Done
<1> QED BY <1>1 DEF StatusOf, StatusOK, StatusStep, Statuses, Settled

\* Refreshing keeps a workflow right.
LEMMA RefreshedOK ==
  ASSUME NEW old \in Statuses, NEW ph \in PhasesType, NEW cl, NEW fin,
         \A p \in Phases : PhaseOK(ph, p, cl[p], fin[p]),
         old = "cancelled" => \A p \in Phases : ph[p].status \in {"completed", "cancelled"}
  PROVE  LET r == Refreshed(old, ph) IN
         /\ r \in WorkflowRecord
         /\ \A p \in Phases : PhaseOK(r.phases, p, cl[p], fin[p])
         /\ StatusOK(r.status, r.phases)
         /\ r.status = "cancelled" <=> old = "cancelled"
         /\ \A p \in Phases : r.phases[p] = ph[p] \/ (ph[p].status = "pending" /\ r.phases[p].status = "ready")
         /\ (old = "completed" => Done(ph) = Phases) /\ (old \in {"partial", "failed"} => Some(ph, "failed"))
            => StatusStep(old, r.status)
<1> DEFINE q == Readied(ph)
<1>1. q \in PhasesType /\ Done(q) = Done(ph) /\ (Some(q, "failed") <=> Some(ph, "failed"))
      /\ \A p \in Phases : q[p] = ph[p] \/ (ph[p].status = "pending" /\ q[p].status = "ready")
  BY ReadiedShape
<1>2. \A p \in Phases : PhaseOK(q, p, cl[p], fin[p])
  BY ReadiedOK
<1>3. Refreshed(old, ph).status = StatusOf(old, q) /\ Refreshed(old, ph).phases = q
      /\ Refreshed(old, ph) = [status |-> StatusOf(old, q), phases |-> q]
  BY DEF Refreshed
<1> HIDE DEF q
<1>4. old = "cancelled" => \A p \in Phases : q[p].status \in {"completed", "cancelled"}
  BY <1>1
<1>5. /\ StatusOf(old, q) \in Statuses
      /\ StatusOK(StatusOf(old, q), q)
      /\ StatusOf(old, q) = "cancelled" <=> old = "cancelled"
      /\ (old = "completed" => Done(q) = Phases) /\ (old \in {"partial", "failed"} => Some(q, "failed"))
         => StatusStep(old, StatusOf(old, q))
  BY <1>1, <1>4, StatusOfOK
<1>6. Refreshed(old, ph) \in WorkflowRecord
  BY <1>1, <1>3, <1>5 DEF WorkflowRecord, Statuses, PhasesType
<1> QED BY <1>1, <1>2, <1>3, <1>5, <1>6

\* A phase whose attempt is over.
LEMMA ReleasedShape ==
  ASSUME NEW q \in PhaseRecord, NEW status \in {"ready", "completed", "failed", "cancelled"}
  PROVE  LET n == Released(q, status) IN
         n \in PhaseRecord /\ n.status = status /\ n.attempt = q.attempt /\ n.left = 0
<1>1. 0 \in 0..Lease /\ 0 \in Nat
  BY GraphAssumption
<1> QED BY <1>1 DEF Released, PhaseRecord

\* A claim stays right when running phases run on and a cancelled workflow stays cancelled.
LEMMA ClaimKept ==
  ASSUME NEW r \in WorkflowRecord, NEW n \in WorkflowRecord, NEW cl, NEW c, ClaimOK(r, cl, c),
         r.status = "cancelled" => n.status = "cancelled",
         \A p \in Phases : p = c.phase /\ r.phases[p].status = "running" /\ r.phases[p].left = c.left =>
           \/ n.phases[p].status = "running" /\ n.phases[p].left = r.phases[p].left
           \/ c.left = 0 \/ n.status = "cancelled",
         c.left \in Nat
  PROVE  ClaimOK(n, cl, c)
  BY DEF ClaimOK

\* Releasing expired leases keeps a workflow consistent.
LEMMA WithoutExpiredOK ==
  ASSUME NEW r \in WorkflowRecord, NEW cl, NEW fin, NEW cm, Consistent(r, cl, fin, cm),
         \A w \in Workers : cm[w].left \in Nat
  PROVE  LET n == WithoutExpired(r) IN
         /\ n \in WorkflowRecord
         /\ Consistent(n, cl, fin, cm)
         /\ StatusStep(r.status, n.status)
         /\ \A p \in Phases : n.phases[p].status = "ready" =>
              r.phases[p].status # "running" \/ r.phases[p].left = 0
<1> DEFINE change(p) == IF ~LeaseExpired(r.phases[p]) THEN r.phases[p]
                        ELSE Released(r.phases[p], IF Retriable(p, r.phases[p]) THEN "ready" ELSE "failed")
           ph == [p \in Phases |-> change(p)]
           n == Refreshed(r.status, ph)
<1>1. r.status \in Statuses /\ r.phases \in PhasesType /\ \A p \in Phases : r.phases[p] \in PhaseRecord
  BY DEF WorkflowRecord, Statuses, PhasesType
<1>2. WithoutExpired(r) = n
  BY DEF WithoutExpired
<1>3. ASSUME NEW p \in Phases
      PROVE  /\ ph[p] \in PhaseRecord
             /\ \/ ph[p] = r.phases[p]
                \/ /\ r.phases[p].status = "running" /\ r.phases[p].left = 0
                   /\ ph[p].attempt = r.phases[p].attempt
                   /\ \/ ph[p].status = "ready" /\ r.phases[p].attempt < MaxAttempts[p]
                      \/ ph[p].status = "failed"
  <2>1. CASE LeaseExpired(r.phases[p])
    BY <1>1, <2>1, ReleasedShape DEF LeaseExpired, Retriable
  <2>2. CASE ~LeaseExpired(r.phases[p])
    BY <1>1, <2>2
  <2> QED BY <2>1, <2>2
<1>4. ph \in PhasesType
  BY <1>3 DEF PhasesType
<1> HIDE DEF ph, n
<1>5. Done(ph) = Done(r.phases) /\ (Some(r.phases, "failed") => Some(ph, "failed"))
  BY <1>3 DEF Done, Some
<1>6. ASSUME NEW p \in Phases PROVE PhaseOK(ph, p, cl[p], fin[p])
  <2>1. PhaseOK(r.phases, p, cl[p], fin[p])
    BY DEF Consistent
  <2>2. CASE ph[p] = r.phases[p]
    BY <1>5, <2>1, <2>2, PhaseKept
  <2>3. CASE ph[p] # r.phases[p]
    BY <1>3, <1>5, <2>1, <2>3 DEF PhaseOK, DepsDone
  <2> QED BY <2>2, <2>3
<1>7. r.status = "cancelled" => \A p \in Phases : ph[p].status \in {"completed", "cancelled"}
  BY <1>3 DEF Consistent, StatusOK
<1>8. /\ n \in WorkflowRecord
      /\ \A p \in Phases : PhaseOK(n.phases, p, cl[p], fin[p])
      /\ StatusOK(n.status, n.phases)
      /\ n.status = "cancelled" <=> r.status = "cancelled"
      /\ \A p \in Phases : n.phases[p] = ph[p] \/ (ph[p].status = "pending" /\ n.phases[p].status = "ready")
      /\ (r.status = "completed" => Done(ph) = Phases) /\ (r.status \in {"partial", "failed"} => Some(ph, "failed"))
         => StatusStep(r.status, n.status)
  BY <1>1, <1>4, <1>6, <1>7, RefreshedOK DEF n
<1>9. StatusStep(r.status, n.status)
  BY <1>5, <1>8 DEF Consistent, StatusOK
<1>10. ASSUME NEW w \in Workers PROVE ClaimOK(n, cl, cm[w])
  <2>1. \A p \in Phases : r.phases[p].status = "running" =>
          r.phases[p].left = 0 \/ n.phases[p] = r.phases[p]
    BY <1>3, <1>8
  <2> QED BY <1>8, <2>1, ClaimKept DEF Consistent
<1>11. \A p \in Phases : n.phases[p].status = "ready" =>
         r.phases[p].status # "running" \/ r.phases[p].left = 0
  BY <1>3, <1>8
<1> QED BY <1>2, <1>8, <1>9, <1>10, <1>11 DEF Consistent

-----------------------------------------------------------------------------
(* What workers were given *)

\* A worker that was given nothing.
LEMMA NoClaimOK ==
  /\ NoClaim.phase \notin Phases /\ NoClaim.left = 0 /\ NoClaim.token = 0
  /\ \A r, cl : ClaimOK(r, cl, NoClaim)
BY NothingAssumption DEF NoClaim, ClaimOK

\* Workers that lose what they were given leave a consistent workflow behind.
LEMMA ClaimsDropped ==
  ASSUME NEW r, NEW cl, NEW fin, NEW cm, NEW dm, Consistent(r, cl, fin, cm),
         \A v \in Workers : dm[v] = cm[v] \/ dm[v] = NoClaim
  PROVE  Consistent(r, cl, fin, dm)
<1>1. ASSUME NEW v \in Workers PROVE ClaimOK(r, cl, dm[v])
  BY NoClaimOK DEF Consistent
<1>2. TokensDiffer(dm)
  BY NoClaimOK DEF Consistent, TokensDiffer
<1> QED BY <1>1, <1>2 DEF Consistent

\* A workflow ages.
LEMMA AgedShape ==
  ASSUME NEW r \in WorkflowRecord
  PROVE  /\ Aged(r) \in WorkflowRecord /\ Aged(r).status = r.status
         /\ \A p \in Phases :
              /\ Aged(r).phases[p].status = r.phases[p].status
              /\ Aged(r).phases[p].attempt = r.phases[p].attempt
              /\ Aged(r).phases[p].token = r.phases[p].token
              /\ Aged(r).phases[p].left = Less(r.phases[p].left)
<1> DEFINE ph == [p \in Phases |-> [r.phases[p] EXCEPT !.left = Less(@)]]
<1>1. Aged(r) = [r EXCEPT !.phases = ph]
  BY NothingAssumption DEF Aged
<1>2. ASSUME NEW p \in Phases
      PROVE  /\ ph[p] \in PhaseRecord /\ ph[p].status = r.phases[p].status
             /\ ph[p].attempt = r.phases[p].attempt /\ ph[p].token = r.phases[p].token
             /\ ph[p].left = Less(r.phases[p].left)
  <2>1. r.phases[p] \in PhaseRecord
    BY DEF WorkflowRecord
  <2>2. Less(r.phases[p].left) \in 0..Lease
    BY <2>1, GraphAssumption DEF PhaseRecord, Less
  <2> QED BY <2>1, <2>2 DEF PhaseRecord
<1>3. ph \in [Phases -> PhaseRecord]
  BY <1>2
<1> HIDE DEF ph
<1> QED BY <1>1, <1>2, <1>3 DEF WorkflowRecord

\* Time leaves a workflow consistent when it passes for the claims as well.
LEMMA AgedConsistent ==
  ASSUME NEW r \in WorkflowRecord, NEW cl, NEW fin, NEW cm, NEW dm, Consistent(r, cl, fin, cm),
         \A v \in Workers : /\ dm[v].phase = cm[v].phase /\ dm[v].token = cm[v].token
                            /\ dm[v].left = Less(cm[v].left) /\ cm[v].left \in Nat
  PROVE  Consistent(Aged(r), cl, fin, dm)
<1>1. /\ Aged(r) \in WorkflowRecord /\ Aged(r).status = r.status
      /\ \A p \in Phases :
           /\ Aged(r).phases[p].status = r.phases[p].status
           /\ Aged(r).phases[p].attempt = r.phases[p].attempt
           /\ Aged(r).phases[p].token = r.phases[p].token
           /\ Aged(r).phases[p].left = Less(r.phases[p].left)
  BY AgedShape
<1>2. Done(Aged(r).phases) = Done(r.phases) /\ (Some(r.phases, "failed") => Some(Aged(r).phases, "failed"))
  BY <1>1 DEF Done, Some
<1>3. ASSUME NEW p \in Phases PROVE PhaseOK(Aged(r).phases, p, cl[p], fin[p])
  BY <1>1, <1>2 DEF Consistent, PhaseOK, DepsDone
<1>4. StatusOK(Aged(r).status, Aged(r).phases)
  BY <1>1, <1>2 DEF Consistent, StatusOK
<1>5. ASSUME NEW v \in Workers PROVE ClaimOK(Aged(r), cl, dm[v])
  <2>1. ClaimOK(r, cl, cm[v])
    BY DEF Consistent
  <2>2. dm[v].left > 0 => cm[v].left > 0
    BY DEF Less
  <2> QED BY <1>1, <2>1, <2>2 DEF ClaimOK
<1>6. TokensDiffer(dm)
  BY DEF Consistent, TokensDiffer
<1> QED BY <1>3, <1>4, <1>5, <1>6 DEF Consistent

-----------------------------------------------------------------------------
(* The steps *)

ClaimRecord == [phase : Phases \cup {Nothing}, token : Nat, left : 0..Lease]
CallRecord == [does : {"none", "claim", "look", "resume", "cancel", "complete", "fail"},
               phase : Phases \cup {Nothing}, token : Nat, next : WorkflowRecord \cup {Nothing}]

\* Nothing is stored at first.
LEMMA InitWorkflow == Init => WorkflowInv
<1> SUFFICES ASSUME Init PROVE WorkflowInv
  OBVIOUS
<1>1. 0 \in 0..Lease
  BY GraphAssumption
<1>2. TypeOK
  BY <1>1 DEF Init, TypeOK, NoCall, NoClaim
<1> QED BY <1>2, NothingAssumption DEF Init, WorkflowInv, CallOK, PutOK, NoCall, NoClaim

\* The stored workflow is a record when it is not Nothing.
LEMMA Stored == WorkflowInv /\ record # Nothing => record \in WorkflowRecord /\ Consistent(record, claims, finisher, claim)
  BY DEF WorkflowInv, TypeOK

\* An operation begins: what it has computed is as consistent as what it has read.
LEMMA BeginsOK ==
  ASSUME WorkflowInv, NEW w \in Workers, NEW c \in CallRecord, c.does # "none",
         record \in WorkflowRecord, c.next \in WorkflowRecord,
         c.does \in {"claim", "complete"} => c.phase \in Phases /\ c.token > 0,
         call' = [call EXCEPT ![w] = c], UNCHANGED <<record, overtaken, claim, claims, finisher>>,
         Consistent(c.next, ClaimsAfter(c), FinisherAfter(c), ClaimAfter(w, c)),
         StatusStep(record.status, c.next.status)
  PROVE  WorkflowInv'
<1>1. TypeOK'
  BY DEF WorkflowInv, TypeOK, CallRecord
<1>2. call'[w] = c /\ \A v \in Workers \ {w} : call'[v] = call[v]
  BY DEF WorkflowInv, TypeOK
<1>3. ASSUME NEW v \in Workers PROVE CallOK(call[v])' /\ PutOK(v)'
  <2>1. CASE v = w
    BY <1>2, <2>1 DEF CallOK, PutOK, ClaimsAfter, FinisherAfter, ClaimAfter
  <2>2. CASE v # w
    BY <1>2, <2>2 DEF WorkflowInv, CallOK, PutOK, ClaimsAfter, FinisherAfter, ClaimAfter
  <2> QED BY <2>1, <2>2
<1> QED BY <1>1, <1>3 DEF WorkflowInv

\* A worker claims a phase.
LEMMA BeginClaimStep ==
  ASSUME WorkflowInv, NEW w \in Workers, NEW p \in Phases, BeginClaim(w, p)
  PROVE  WorkflowInv'
<1> DEFINE r == WithoutExpired(record)
           token == claims[p] + 1
           ph == [r.phases EXCEPT ![p] = [status |-> "running", attempt |-> @.attempt + 1,
                                          token |-> token, left |-> Lease]]
           next == [status |-> "running", phases |-> ph]
           c == [does |-> "claim", phase |-> p, token |-> token, next |-> next]
<1>1. record \in WorkflowRecord /\ Consistent(record, claims, finisher, claim) /\ claim[w] = NoClaim
      /\ r.status \notin Settled /\ r.phases[p].status = "ready"
  BY Stored DEF BeginClaim
<1>2. /\ claims \in [Phases -> Nat] /\ claim \in [Workers -> ClaimRecord] /\ finisher \in [Phases -> Nat]
      /\ \A v \in Workers : claim[v].left \in Nat
  BY GraphAssumption DEF WorkflowInv, TypeOK, ClaimRecord
<1>3. r \in WorkflowRecord /\ Consistent(r, claims, finisher, claim) /\ StatusStep(record.status, r.status)
  BY <1>1, <1>2, WithoutExpiredOK
<1>4. call' = [call EXCEPT ![w] = c] /\ UNCHANGED <<record, overtaken, claim, claims, finisher>>
  BY DEF BeginClaim, Begins
<1> HIDE DEF r
<1>5. PhaseOK(r.phases, p, claims[p], finisher[p]) /\ r.phases[p] \in PhaseRecord /\ r.phases \in PhasesType
  BY <1>3 DEF Consistent, WorkflowRecord, PhasesType
<1>6. /\ ph \in PhasesType /\ ph[p].status = "running" /\ ph[p].attempt = r.phases[p].attempt + 1
      /\ ph[p].token = token /\ ph[p].left = Lease
      /\ \A x \in Phases \ {p} : ph[x] = r.phases[x]
  <2>1. [status |-> "running", attempt |-> r.phases[p].attempt + 1, token |-> token, left |-> Lease] \in PhaseRecord
    BY <1>2, <1>5, GraphAssumption DEF PhaseRecord
  <2> QED BY <1>5, <2>1 DEF PhasesType
<1>7. token \in Nat /\ token > 0 /\ token = claims[p] + 1
  BY <1>2
<1> HIDE DEF ph, token
<1>8. next \in WorkflowRecord /\ next.status = "running" /\ next.phases = ph
  BY <1>6 DEF WorkflowRecord, PhasesType
<1>9. c \in CallRecord /\ c.does = "claim" /\ c.phase = p /\ c.token = token /\ c.next = next
  BY <1>7, <1>8 DEF CallRecord
<1> HIDE DEF next, c
<1>10. /\ ClaimsAfter(c) = [claims EXCEPT ![p] = @ + 1] /\ FinisherAfter(c) = finisher
       /\ ClaimAfter(w, c) = [claim EXCEPT ![w] = [phase |-> p, token |-> token, left |-> Lease]]
  BY <1>6, <1>8, <1>9 DEF ClaimsAfter, FinisherAfter, ClaimAfter
<1> DEFINE cl == [claims EXCEPT ![p] = @ + 1]
           cm == [claim EXCEPT ![w] = [phase |-> p, token |-> token, left |-> Lease]]
<1>11. Done(ph) = Done(r.phases)
  BY <1>1, <1>6 DEF Done
<1>12. cl[p] = token /\ (\A x \in Phases \ {p} : cl[x] = claims[x])
       /\ cm[w].phase = p /\ cm[w].token = token /\ cm[w].left = Lease
       /\ (\A v \in Workers \ {w} : cm[v] = claim[v])
  BY <1>2, <1>7
<1> HIDE DEF cl, cm
<1>13. ASSUME NEW x \in Phases PROVE PhaseOK(ph, x, cl[x], finisher[x])
  <2>1. CASE x = p
    <3>1. claims[p] \in Nat /\ MaxAttempts[p] \in Nat /\ finisher[p] \in Nat
      BY <1>2, GraphAssumption
    <3> QED BY <1>1, <1>5, <1>6, <1>7, <1>11, <1>12, <2>1, <3>1 DEF PhaseOK, DepsDone
  <2>2. CASE x # p
    BY <1>3, <1>6, <1>11, <1>12, <2>2, PhaseKept DEF Consistent
  <2> QED BY <2>1, <2>2
<1>14. ASSUME NEW v \in Workers PROVE ClaimOK(next, cl, cm[v])
  <2>1. CASE v = w
    BY <1>6, <1>7, <1>8, <1>12, <2>1 DEF ClaimOK
  <2>2. CASE v # w
    <3>1. ClaimOK(r, claims, claim[v]) /\ r.status # "cancelled" /\ claim[v].token \in Nat
      BY <1>1, <1>2, <1>3 DEF Consistent, Settled, ClaimRecord
    <3> QED BY <1>1, <1>2, <1>6, <1>7, <1>8, <1>12, <2>2, <3>1 DEF ClaimOK
  <2> QED BY <2>1, <2>2
<1>15. TokensDiffer(cm)
  <2>1. \A v \in Workers : claim[v].phase = p => claim[v].token <= claims[p] /\ claim[v].token \in Nat
    BY <1>2, <1>3 DEF Consistent, ClaimOK, ClaimRecord
  <2>2. TokensDiffer(claim)
    BY <1>1 DEF Consistent
  <2> QED BY <1>2, <1>7, <1>12, <2>1, <2>2 DEF TokensDiffer
<1>16. Consistent(next, cl, finisher, cm)
  BY <1>8, <1>13, <1>14, <1>15 DEF Consistent, StatusOK
<1>17. StatusStep(record.status, next.status)
  BY <1>1, <1>3, <1>8 DEF StatusStep, Settled
<1> QED BY <1>1, <1>4, <1>7, <1>8, <1>9, <1>10, <1>16, <1>17, BeginsOK DEF cl, cm

\* A worker only releases what has expired.
LEMMA ReleaseStep ==
  ASSUME WorkflowInv, NEW w \in Workers, FindsNothing(w) \/ BeginResume(w)
  PROVE  WorkflowInv'
<1> DEFINE r == WithoutExpired(record)
<1>1. PICK does \in {"look", "resume"} : Begins(w, does, Nothing, 0, r)
  BY DEF FindsNothing, BeginResume
<1> DEFINE c == [does |-> does, phase |-> Nothing, token |-> 0, next |-> r]
<1>2. record \in WorkflowRecord /\ Consistent(record, claims, finisher, claim)
  BY <1>1, Stored DEF Begins
<1>3. \A v \in Workers : claim[v].left \in Nat
  BY GraphAssumption DEF WorkflowInv, TypeOK
<1>4. r \in WorkflowRecord /\ Consistent(r, claims, finisher, claim) /\ StatusStep(record.status, r.status)
  BY <1>2, <1>3, WithoutExpiredOK
<1>5. call' = [call EXCEPT ![w] = c] /\ UNCHANGED <<record, overtaken, claim, claims, finisher>>
  BY <1>1 DEF Begins
<1> HIDE DEF r
<1>6. c \in CallRecord /\ c.does \in {"look", "resume"} /\ c.next = r
  BY <1>4 DEF CallRecord
<1> HIDE DEF c
<1>7. ClaimsAfter(c) = claims /\ FinisherAfter(c) = finisher /\ ClaimAfter(w, c) = claim
  BY <1>6 DEF ClaimsAfter, FinisherAfter, ClaimAfter
<1> QED BY <1>2, <1>4, <1>5, <1>6, <1>7, BeginsOK

\* A worker cancels the workflow.
LEMMA BeginCancelStep ==
  ASSUME WorkflowInv, NEW w \in Workers, BeginCancel(w)
  PROVE  WorkflowInv'
<1> DEFINE ph == [p \in Phases |-> IF record.phases[p].status = "completed" THEN record.phases[p]
                                   ELSE Released(record.phases[p], "cancelled")]
           next == [status |-> "cancelled", phases |-> ph]
           c == [does |-> "cancel", phase |-> Nothing, token |-> 0, next |-> next]
<1>1. record \in WorkflowRecord /\ Consistent(record, claims, finisher, claim)
      /\ record.status \notin {"completed", "cancelled"}
  BY Stored DEF BeginCancel
<1>2. call' = [call EXCEPT ![w] = c] /\ UNCHANGED <<record, overtaken, claim, claims, finisher>>
  BY DEF BeginCancel, Begins
<1>3. ASSUME NEW p \in Phases
      PROVE  /\ ph[p] \in PhaseRecord /\ ph[p].attempt = record.phases[p].attempt
             /\ \/ ph[p] = record.phases[p] /\ ph[p].status = "completed"
                \/ ph[p].status = "cancelled" /\ record.phases[p].status # "completed"
  <2>1. record.phases[p] \in PhaseRecord
    BY <1>1 DEF WorkflowRecord
  <2> QED BY <2>1, ReleasedShape
<1>4. ph \in PhasesType
  BY <1>3 DEF PhasesType
<1> HIDE DEF ph
<1>5. next \in WorkflowRecord /\ next.status = "cancelled" /\ next.phases = ph
  BY <1>4 DEF WorkflowRecord, PhasesType, Settled
<1> HIDE DEF next
<1>6. c \in CallRecord /\ c.does = "cancel" /\ c.next = next
  BY <1>5 DEF CallRecord
<1> HIDE DEF c
<1>7. ClaimsAfter(c) = claims /\ FinisherAfter(c) = finisher /\ ClaimAfter(w, c) = claim
  BY <1>6 DEF ClaimsAfter, FinisherAfter, ClaimAfter
<1>8. Done(ph) = Done(record.phases)
  BY <1>3 DEF Done
<1>9. ASSUME NEW p \in Phases PROVE PhaseOK(ph, p, claims[p], finisher[p])
  BY <1>1, <1>3, <1>8 DEF Consistent, PhaseOK, DepsDone
<1>10. ASSUME NEW v \in Workers PROVE ClaimOK(next, claims, claim[v])
  BY <1>1, <1>5 DEF Consistent, ClaimOK
<1>11. Consistent(next, claims, finisher, claim)
  BY <1>1, <1>3, <1>5, <1>9, <1>10 DEF Consistent, StatusOK
<1>12. StatusStep(record.status, next.status)
  BY <1>1, <1>5 DEF StatusStep
<1> QED BY <1>1, <1>2, <1>5, <1>6, <1>7, <1>11, <1>12, BeginsOK

\* What its owner makes of a running phase is consistent without its claim.
LEMMA EndPhase ==
  ASSUME WorkflowInv, NEW w \in Workers, Holding(w), Owns(w),
         NEW status \in {"ready", "completed", "failed"}, NEW f,
         status = "ready" => Retriable(claim[w].phase, record.phases[claim[w].phase]),
         \A x \in Phases : f[x] = IF x = claim[w].phase /\ status = "completed" THEN claim[w].token
                                                                            ELSE finisher[x]
  PROVE  LET n == Refreshed(record.status,
                    [record.phases EXCEPT ![claim[w].phase] = Released(@, status)]) IN
         /\ record \in WorkflowRecord /\ claim[w].phase \in Phases /\ claim[w].token \in Nat
         /\ claim[w].token > 0
         /\ n \in WorkflowRecord /\ StatusStep(record.status, n.status)
         /\ Consistent(n, claims, f, [claim EXCEPT ![w] = NoClaim])
<1> DEFINE p == claim[w].phase
           r == record.phases
           ph == [r EXCEPT ![p] = Released(@, status)]
           n == Refreshed(record.status, ph)
           cm == [claim EXCEPT ![w] = NoClaim]
<1>1. record \in WorkflowRecord /\ Consistent(record, claims, finisher, claim) /\ claim[w] # NoClaim
      /\ r[p].status = "running" /\ r[p].token = claim[w].token
  BY Stored DEF Holding, Owns
<1>2. /\ claims \in [Phases -> Nat] /\ claim \in [Workers -> ClaimRecord] /\ finisher \in [Phases -> Nat]
      /\ \A v \in Workers : claim[v].left \in Nat
  BY GraphAssumption DEF WorkflowInv, TypeOK, ClaimRecord
<1>3. p \in Phases /\ r \in PhasesType /\ r[p] \in PhaseRecord /\ record.status \in Statuses
  BY <1>1 DEF WorkflowInv, WorkflowRecord, PhasesType, Statuses
<1>4. PhaseOK(r, p, claims[p], finisher[p]) /\ claims[p] > 0 /\ claim[w].token = claims[p]
      /\ claim[w].token \in Nat
  BY <1>1, <1>2, <1>3 DEF Consistent, PhaseOK, ClaimRecord
<1>5. /\ ph \in PhasesType /\ ph[p].status = status /\ ph[p].attempt = r[p].attempt
      /\ \A x \in Phases \ {p} : ph[x] = r[x]
  <2>1. LET q == Released(r[p], status) IN
        q \in PhaseRecord /\ q.status = status /\ q.attempt = r[p].attempt /\ q.left = 0
    BY <1>3, ReleasedShape
  <2> QED BY <1>3, <2>1 DEF PhasesType
<1>6. cm[w] = NoClaim /\ \A v \in Workers \ {w} : cm[v] = claim[v]
  BY <1>2
<1> HIDE DEF ph, cm, r, p
<1>7. Done(r) \subseteq Done(ph) /\ (Some(r, "failed") => Some(ph, "failed")) /\ Done(r) # Phases
  BY <1>1, <1>3, <1>5 DEF Done, Some
<1>8. ASSUME NEW x \in Phases PROVE PhaseOK(ph, x, claims[x], f[x])
  <2>1. CASE x = p
    <3>1. claims[p] \in Nat /\ MaxAttempts[p] \in Nat /\ finisher[p] \in Nat
      BY <1>2, <1>3, GraphAssumption
    <3>2. f[p] = IF status = "completed" THEN claims[p] ELSE finisher[p]
      BY <1>2, <1>3, <1>4 DEF p
    <3>3. status = "ready" => r[p].attempt < MaxAttempts[p]
      BY DEF Retriable, p, r
    <3> QED BY <1>1, <1>4, <1>5, <1>7, <2>1, <3>1, <3>2, <3>3 DEF PhaseOK, DepsDone
  <2>2. CASE x # p
    <3>1. f[x] = finisher[x]
      BY <1>2, <1>3, <2>2 DEF p
    <3> QED BY <1>1, <1>5, <1>7, <2>2, <3>1, PhaseKept DEF Consistent, r
  <2> QED BY <2>1, <2>2
<1>9. record.status # "cancelled" /\ record.status # "completed"
      /\ (record.status \in {"partial", "failed"} => Some(ph, "failed"))
  BY <1>1, <1>3, <1>7 DEF Consistent, StatusOK, r
<1>10. /\ n \in WorkflowRecord
       /\ \A x \in Phases : PhaseOK(n.phases, x, claims[x], f[x])
       /\ StatusOK(n.status, n.phases)
       /\ n.status # "cancelled"
       /\ \A x \in Phases : n.phases[x] = ph[x] \/ (ph[x].status = "pending" /\ n.phases[x].status = "ready")
       /\ StatusStep(record.status, n.status)
  <2> HIDE DEF n
  <2>0. /\ record.status \in Statuses /\ ph \in PhasesType
        /\ record.status = "cancelled" => \A x \in Phases : ph[x].status \in {"completed", "cancelled"}
    BY <1>3, <1>5, <1>9
  <2>1. /\ n \in WorkflowRecord
        /\ \A x \in Phases : PhaseOK(n.phases, x, claims[x], f[x])
        /\ StatusOK(n.status, n.phases)
        /\ n.status = "cancelled" <=> record.status = "cancelled"
        /\ \A x \in Phases : n.phases[x] = ph[x] \/ (ph[x].status = "pending" /\ n.phases[x].status = "ready")
        /\ (record.status = "completed" => Done(ph) = Phases)
           /\ (record.status \in {"partial", "failed"} => Some(ph, "failed"))
             => StatusStep(record.status, n.status)
    BY <2>0, <1>8, RefreshedOK DEF n
  <2> QED BY <1>9, <2>1
<1> HIDE DEF n
<1>11. TokensDiffer(claim) /\ \A v \in Workers : ClaimOK(record, claims, claim[v])
  BY <1>1 DEF Consistent
<1>12. ASSUME NEW v \in Workers PROVE ClaimOK(n, claims, cm[v])
  <2>1. CASE v = w
    BY <1>6, <2>1, NoClaimOK
  <2>2. CASE v # w
    <3>1. claim[v].left > 0 => claim[v].phase # p
      BY <1>3, <1>4, <1>11, <2>2 DEF ClaimOK, TokensDiffer, p
    <3> QED BY <1>5, <1>6, <1>9, <1>10, <1>11, <2>2, <3>1 DEF ClaimOK, r
  <2> QED BY <2>1, <2>2
<1>13. TokensDiffer(cm)
  BY <1>6, <1>11, NoClaimOK DEF TokensDiffer
<1>14. Consistent(n, claims, f, cm)
  BY <1>10, <1>12, <1>13 DEF Consistent
<1> QED BY <1>1, <1>3, <1>4, <1>10, <1>14 DEF n, ph, cm, r, p

\* A worker completes its phase, or fails it.
LEMMA BeginEndStep ==
  ASSUME WorkflowInv, NEW w \in Workers,
         BeginComplete(w) \/ BeginFail(w, TRUE) \/ BeginFail(w, FALSE)
  PROVE  WorkflowInv'
<1>1. PICK does \in {"complete", "fail"}, status \in {"ready", "completed", "failed"} :
        /\ Holding(w) /\ Owns(w)
        /\ does = "complete" <=> status = "completed"
        /\ status = "ready" => Retriable(claim[w].phase, record.phases[claim[w].phase])
        /\ Begins(w, does, claim[w].phase, claim[w].token,
             Refreshed(record.status, [record.phases EXCEPT ![claim[w].phase] = Released(@, status)]))
  <2>1. CASE BeginComplete(w)
    BY <2>1 DEF BeginComplete
  <2>2. ASSUME NEW again \in BOOLEAN, BeginFail(w, again)
        PROVE  \E status \in {"ready", "failed"} :
                 /\ Holding(w) /\ Owns(w)
                 /\ status = "ready" => Retriable(claim[w].phase, record.phases[claim[w].phase])
                 /\ Begins(w, "fail", claim[w].phase, claim[w].token,
                      Refreshed(record.status, [record.phases EXCEPT ![claim[w].phase] = Released(@, status)]))
    <3>1. CASE again /\ Retriable(claim[w].phase, record.phases[claim[w].phase])
      BY <2>2, <3>1 DEF BeginFail
    <3>2. CASE ~(again /\ Retriable(claim[w].phase, record.phases[claim[w].phase]))
      BY <2>2, <3>2 DEF BeginFail
    <3> QED BY <3>1, <3>2
  <2> QED BY <2>1, <2>2
<1> DEFINE n == Refreshed(record.status, [record.phases EXCEPT ![claim[w].phase] = Released(@, status)])
           f == IF status = "completed" THEN [finisher EXCEPT ![claim[w].phase] = claim[w].token] ELSE finisher
           c == [does |-> does, phase |-> claim[w].phase, token |-> claim[w].token, next |-> n]
<1>2. /\ record \in WorkflowRecord /\ claim[w].phase \in Phases /\ claim[w].token \in Nat
      /\ claim[w].token > 0
      /\ n \in WorkflowRecord /\ StatusStep(record.status, n.status)
      /\ Consistent(n, claims, f, [claim EXCEPT ![w] = NoClaim])
  <2>1. \A x \in Phases : f[x] = IF x = claim[w].phase /\ status = "completed" THEN claim[w].token
                                                                            ELSE finisher[x]
    BY DEF WorkflowInv, TypeOK
  <2> HIDE DEF f
  <2> QED BY <1>1, <2>1, EndPhase
<1>3. call' = [call EXCEPT ![w] = c] /\ UNCHANGED <<record, overtaken, claim, claims, finisher>>
  BY <1>1 DEF Begins
<1> HIDE DEF n
<1>4. c \in CallRecord /\ c.does = does /\ c.next = n /\ c.phase = claim[w].phase /\ c.token = claim[w].token
  BY <1>2 DEF CallRecord
<1> HIDE DEF c
<1>5. ClaimsAfter(c) = claims /\ FinisherAfter(c) = f /\ ClaimAfter(w, c) = [claim EXCEPT ![w] = NoClaim]
  BY <1>1, <1>4 DEF ClaimsAfter, FinisherAfter, ClaimAfter
<1> QED BY <1>2, <1>3, <1>4, <1>5, BeginsOK

\* A worker gives up what it holds.
LEMMA GivesUpStep ==
  ASSUME WorkflowInv, NEW w \in Workers, Superseded(w) \/ PutFails(w) \/ Crash(w)
  PROVE  WorkflowInv'
<1>1. /\ UNCHANGED <<record, claims, finisher>>
      /\ call' = [call EXCEPT ![w] = NoCall] \/ (call' = call /\ call[w] = NoCall)
      /\ claim' = [claim EXCEPT ![w] = NoClaim] \/ claim' = claim
      /\ overtaken' = overtaken \/ overtaken' = overtaken \ {w}
  BY DEF Superseded, PutFails, Crash, Holding
<1>2. call' \in [Workers -> CallRecord] /\ call'[w] = NoCall /\ \A v \in Workers \ {w} : call'[v] = call[v]
  BY <1>1 DEF WorkflowInv, TypeOK, CallRecord, NoCall
<1>3. claim' \in [Workers -> ClaimRecord] /\ (claim'[w] = claim[w] \/ claim'[w] = NoClaim)
      /\ \A v \in Workers \ {w} : claim'[v] = claim[v]
  <2>1. NoClaim \in ClaimRecord
    BY GraphAssumption DEF NoClaim, ClaimRecord
  <2> QED BY <1>1, <2>1 DEF WorkflowInv, TypeOK, ClaimRecord
<1>4. TypeOK'
  BY <1>1, <1>2, <1>3 DEF WorkflowInv, TypeOK, CallRecord, ClaimRecord
<1>5. \A v \in Workers : claim'[v].phase \notin Phases => claim'[v] = NoClaim
  BY <1>3 DEF WorkflowInv
<1>6. Consistent(record, claims, finisher, claim) => Consistent(record, claims, finisher, claim')
  BY <1>3, ClaimsDropped
<1>7. ASSUME NEW v \in Workers PROVE CallOK(call[v])' /\ PutOK(v)'
  <2>1. CASE v = w
    BY <1>2, <2>1 DEF CallOK, PutOK, NoCall
  <2>2. CASE v # w
    <3> DEFINE c == call[v]
    <3>1. CallOK(call[v])' /\ call'[v] = c
      BY <1>1, <1>2, <2>2 DEF WorkflowInv, CallOK
    <3>2. SUFFICES ASSUME c.does # "none", v \notin overtaken'
                   PROVE  Consistent(c.next, ClaimsAfter(c), FinisherAfter(c), ClaimAfter(v, c)')
      BY <1>1, <1>2, <2>2, <3>1 DEF WorkflowInv, PutOK, ClaimsAfter, FinisherAfter, ClaimAfter
    <3>3. Consistent(c.next, ClaimsAfter(c), FinisherAfter(c), ClaimAfter(v, c))
      BY <1>1, <2>2, <3>2 DEF WorkflowInv, PutOK
    <3>4. \A u \in Workers : ClaimAfter(v, c)'[u] = ClaimAfter(v, c)[u] \/ ClaimAfter(v, c)'[u] = NoClaim
      BY <1>2, <1>3, <2>2 DEF ClaimAfter, WorkflowInv, TypeOK
    <3> QED BY <3>3, <3>4, ClaimsDropped
  <2> QED BY <2>1, <2>2
<1>8. record \notin WorkflowRecord => \A v \in Workers : claim'[v] = NoClaim
  BY <1>3 DEF WorkflowInv
<1> QED BY <1>1, <1>4, <1>5, <1>6, <1>7, <1>8 DEF WorkflowInv

\* The workflow is created.
LEMMA CreateStep ==
  ASSUME WorkflowInv, Create
  PROVE  WorkflowInv'
<1>1. record' = Initial /\ UNCHANGED <<call, overtaken, claim, claims, finisher>> /\ record \notin WorkflowRecord
  BY NothingAssumption DEF Create
<1> DEFINE ph == [p \in Phases |-> [status |-> IF Deps[p] = {} THEN "ready" ELSE "pending",
                                    attempt |-> 0, token |-> 0, left |-> 0]]
<1>2. ASSUME NEW p \in Phases
      PROVE  /\ ph[p] \in PhaseRecord /\ ph[p].attempt = 0
             /\ ph[p].status = "pending" \/ (ph[p].status = "ready" /\ Deps[p] = {})
  <2>1. 0 \in 0..Lease
    BY GraphAssumption
  <2> QED BY <2>1 DEF PhaseRecord
<1>3. ph \in PhasesType /\ Initial = [status |-> "queued", phases |-> ph]
  BY <1>2 DEF PhasesType, Initial
<1> HIDE DEF ph
<1>4. record' \in WorkflowRecord /\ record'.status = "queued" /\ record'.phases = ph
  BY <1>1, <1>3 DEF WorkflowRecord, PhasesType
<1>5. \A p \in Phases : claims[p] = 0 /\ finisher[p] = 0
  BY <1>1 DEF WorkflowInv
<1>6. \A w \in Workers : claim[w] = NoClaim /\ call[w].does = "none"
  BY <1>1 DEF WorkflowInv, CallOK
<1>7. ASSUME NEW p \in Phases PROVE PhaseOK(ph, p, 0, 0)
  BY <1>2, GraphAssumption DEF PhaseOK, DepsDone
<1>8. TokensDiffer(claim) /\ \A w \in Workers : ClaimOK(record', claims, claim[w])
  BY <1>6, NoClaimOK DEF TokensDiffer
<1>9. Consistent(record', claims, finisher, claim)
  BY <1>4, <1>5, <1>7, <1>8 DEF Consistent, StatusOK
<1>10. TypeOK'
  BY <1>1, <1>4 DEF WorkflowInv, TypeOK
<1>11. \A w \in Workers : CallOK(call[w])' /\ PutOK(w)'
  BY <1>1, <1>6 DEF WorkflowInv, CallOK, PutOK
<1> QED BY <1>1, <1>4, <1>9, <1>10, <1>11 DEF WorkflowInv

\* Time passes for the stored workflow, for what will be stored, and for the claims.
LEMMA TickStep ==
  ASSUME WorkflowInv, Tick
  PROVE  WorkflowInv'
<1>1. record' = Aged(record) /\ UNCHANGED <<overtaken, claims, finisher>>
  BY DEF Tick
<1>2. record \in WorkflowRecord => record' \in WorkflowRecord /\ record'.status = record.status
  BY <1>1, AgedShape
<1>3. record \notin WorkflowRecord => record' = Nothing /\ record = Nothing
  BY <1>1 DEF WorkflowInv, TypeOK, Aged
<1>4. ASSUME NEW w \in Workers
      PROVE  /\ claim'[w] \in ClaimRecord /\ claim'[w].phase = claim[w].phase /\ claim'[w].token = claim[w].token
             /\ claim'[w].left = Less(claim[w].left) /\ claim[w].left \in Nat
             /\ claim[w] = NoClaim => claim'[w] = NoClaim
  <2>1. claim[w] \in ClaimRecord /\ claim'[w] = [claim[w] EXCEPT !.left = Less(@)]
    BY DEF Tick, WorkflowInv, TypeOK, ClaimRecord
  <2>2. Less(claim[w].left) \in 0..Lease /\ claim[w].left \in Nat
    BY <2>1, GraphAssumption DEF ClaimRecord, Less
  <2> QED BY <2>1, <2>2 DEF ClaimRecord, NoClaim, Less
<1>5. ASSUME NEW w \in Workers
      PROVE  /\ call'[w] \in CallRecord
             /\ call'[w].does = call[w].does /\ call'[w].phase = call[w].phase /\ call'[w].token = call[w].token
             /\ call'[w].next = Aged(call[w].next) /\ (call[w] = NoCall => call'[w] = NoCall)
  <2>1. call[w] \in CallRecord /\ call'[w] = [call[w] EXCEPT !.next = Aged(@)]
    BY DEF Tick, WorkflowInv, TypeOK, CallRecord
  <2>2. Aged(call[w].next) \in WorkflowRecord \cup {Nothing}
    <3>1. Aged(Nothing) = Nothing
      BY DEF Aged
    <3>2. call[w].next \in WorkflowRecord \cup {Nothing}
      BY <2>1 DEF CallRecord
    <3> QED BY <3>1, <3>2, AgedShape
  <2>3. call[w] = NoCall => call'[w] = NoCall
    BY <2>1 DEF NoCall, Aged
  <2> QED BY <2>1, <2>2, <2>3 DEF CallRecord
<1>6. claim' \in [Workers -> ClaimRecord] /\ call' \in [Workers -> CallRecord]
  BY <1>4, <1>5 DEF Tick
<1>7. TypeOK'
  <2>1. record' \in WorkflowRecord \cup {Nothing}
    BY <1>2, <1>3
  <2> QED BY <1>1, <1>6, <2>1 DEF WorkflowInv, TypeOK, ClaimRecord, CallRecord
<1>8. record \in WorkflowRecord => Consistent(record', claims, finisher, claim')
  BY <1>1, <1>4, AgedConsistent DEF WorkflowInv
<1>9. ASSUME NEW w \in Workers PROVE CallOK(call[w])'
  BY <1>2, <1>5, AgedShape DEF WorkflowInv, CallOK
<1>10. ASSUME NEW w \in Workers PROVE PutOK(w)'
  <2>1. PICK c \in CallRecord : c = call[w]
    BY DEF WorkflowInv, TypeOK, CallRecord
  <2>2. PICK d \in CallRecord : d = call'[w]
    BY <1>5
  <2>3. SUFFICES ASSUME c.does # "none", w \notin overtaken
                 PROVE  /\ Consistent(d.next, ClaimsAfter(d)', FinisherAfter(d)', ClaimAfter(w, d)')
                        /\ StatusStep(record'.status, d.next.status)
    BY <1>1, <1>5, <2>1, <2>2 DEF PutOK, ClaimsAfter, FinisherAfter, ClaimAfter
  <2>4. /\ Consistent(c.next, ClaimsAfter(c), FinisherAfter(c), ClaimAfter(w, c))
        /\ StatusStep(record.status, c.next.status) /\ c.next \in WorkflowRecord
        /\ record \in WorkflowRecord /\ (c.does = "claim" => c.phase \in Phases)
    BY <2>1, <2>3 DEF WorkflowInv, PutOK, CallOK
  <2>5. d.does = c.does /\ d.phase = c.phase /\ d.token = c.token /\ d.next = Aged(c.next)
    BY <1>5, <2>1, <2>2
  <2>6. ClaimsAfter(d)' = ClaimsAfter(c) /\ FinisherAfter(d)' = FinisherAfter(c)
    BY <1>1, <2>5 DEF ClaimsAfter, FinisherAfter
  <2>7. ASSUME NEW v \in Workers
        PROVE  /\ ClaimAfter(w, d)'[v].phase = ClaimAfter(w, c)[v].phase
               /\ ClaimAfter(w, d)'[v].token = ClaimAfter(w, c)[v].token
               /\ ClaimAfter(w, d)'[v].left = Less(ClaimAfter(w, c)[v].left)
               /\ ClaimAfter(w, c)[v].left \in Nat
    <3>1. claim \in [Workers -> ClaimRecord]
      BY DEF WorkflowInv, TypeOK, ClaimRecord
    <3>2. CASE c.does = "claim"
      <4>1. d.next.phases[c.phase].left = Less(c.next.phases[c.phase].left)
            /\ c.next.phases[c.phase].left \in Nat
        BY <2>4, <2>5, <3>2, AgedShape, GraphAssumption DEF WorkflowRecord, PhaseRecord
      <4>2. ClaimAfter(w, c) = [claim EXCEPT ![w] = [phase |-> c.phase, token |-> c.token,
                                                     left |-> c.next.phases[c.phase].left]]
        BY <3>2 DEF ClaimAfter
      <4>3. ClaimAfter(w, d)' = [claim' EXCEPT ![w] = [phase |-> c.phase, token |-> c.token,
                                                       left |-> d.next.phases[c.phase].left]]
        BY <2>5, <3>2 DEF ClaimAfter
      <4> QED BY <1>4, <1>6, <3>1, <4>1, <4>2, <4>3
    <3>3. CASE c.does \in {"complete", "fail"}
      <4>1. ClaimAfter(w, c) = [claim EXCEPT ![w] = NoClaim] /\ ClaimAfter(w, d)' = [claim' EXCEPT ![w] = NoClaim]
        BY <2>5, <3>3 DEF ClaimAfter
      <4> QED BY <1>4, <1>6, <3>1, <4>1 DEF NoClaim, Less
    <3>4. CASE c.does \notin {"claim", "complete", "fail"}
      <4>1. ClaimAfter(w, c) = claim /\ ClaimAfter(w, d)' = claim'
        BY <2>5, <3>4 DEF ClaimAfter
      <4> QED BY <1>4, <4>1
    <3> QED BY <3>2, <3>3, <3>4
  <2>8. Consistent(d.next, ClaimsAfter(d)', FinisherAfter(d)', ClaimAfter(w, d)')
    BY <2>4, <2>5, <2>6, <2>7, AgedConsistent
  <2>9. StatusStep(record'.status, d.next.status)
    BY <1>2, <2>4, <2>5, AgedShape
  <2> QED BY <2>8, <2>9
<1>11. record' \in WorkflowRecord => record \in WorkflowRecord
  BY <1>3, NothingAssumption
<1>12. record' \notin WorkflowRecord => \A w \in Workers : claim'[w] = NoClaim
  BY <1>2, <1>4 DEF WorkflowInv
<1> QED BY <1>1, <1>2, <1>4, <1>7, <1>8, <1>9, <1>10, <1>11, <1>12 DEF WorkflowInv

\* The put: what was computed from the entry replaces it, and overtakes the others.
LEMMA PutStep ==
  ASSUME WorkflowInv, NEW w \in Workers, Put(w)
  PROVE  WorkflowInv' /\ StatusStep(record.status, record'.status) /\ record \in WorkflowRecord
<1>1. PICK c \in CallRecord : c = call[w]
  BY DEF WorkflowInv, TypeOK, CallRecord
<1>2. /\ c # NoCall /\ w \notin overtaken /\ record' = c.next /\ call' = [call EXCEPT ![w] = NoCall]
      /\ overtaken' = {v \in Workers \ {w} : call[v] # NoCall}
      /\ claim' = ClaimAfter(w, c) /\ claims' = ClaimsAfter(c) /\ finisher' = FinisherAfter(c)
  BY <1>1 DEF Put, SameVersion, ClaimAfter, ClaimsAfter, FinisherAfter
<1>3. /\ c.does # "none" /\ record \in WorkflowRecord /\ c.next \in WorkflowRecord
      /\ (c.does \in {"claim", "complete"} => c.phase \in Phases /\ c.token > 0)
  BY <1>1, <1>2 DEF WorkflowInv, CallOK
<1>4. Consistent(record', claims', finisher', claim') /\ StatusStep(record.status, record'.status)
  BY <1>1, <1>2, <1>3 DEF WorkflowInv, PutOK
<1>5. call' \in [Workers -> CallRecord] /\ call'[w] = NoCall /\ \A v \in Workers \ {w} : call'[v] = call[v]
  BY <1>2 DEF WorkflowInv, TypeOK, CallRecord, NoCall
<1>6. claim' \in [Workers -> ClaimRecord] /\ \A v \in Workers : claim'[v].phase \notin Phases => claim'[v] = NoClaim
  <2>1. claim \in [Workers -> ClaimRecord] /\ NoClaim \in ClaimRecord
        /\ \A v \in Workers : claim[v].phase \notin Phases => claim[v] = NoClaim
    BY GraphAssumption DEF WorkflowInv, TypeOK, ClaimRecord, NoClaim
  <2>2. CASE c.does = "claim"
    <3>1. c.phase \in Phases /\ c.token \in Nat /\ c.next.phases[c.phase].left \in 0..Lease
      BY <1>3, <2>2 DEF CallRecord, WorkflowRecord, PhaseRecord
    <3>2. claim' = [claim EXCEPT ![w] = [phase |-> c.phase, token |-> c.token,
                                         left |-> c.next.phases[c.phase].left]]
      BY <1>2, <2>2 DEF ClaimAfter
    <3> QED BY <2>1, <3>1, <3>2 DEF ClaimRecord
  <2>3. CASE c.does # "claim"
    <3>1. claim' = claim \/ claim' = [claim EXCEPT ![w] = NoClaim]
      BY <1>2, <2>3 DEF ClaimAfter
    <3> QED BY <2>1, <3>1
  <2> QED BY <2>2, <2>3
<1>7. claims' \in [Phases -> Nat] /\ finisher' \in [Phases -> Nat]
  BY <1>2, <1>3 DEF ClaimsAfter, FinisherAfter, WorkflowInv, TypeOK, CallRecord
<1>8. TypeOK'
  BY <1>2, <1>3, <1>5, <1>6, <1>7 DEF TypeOK, CallRecord, ClaimRecord
<1>9. ASSUME NEW v \in Workers PROVE CallOK(call[v])' /\ PutOK(v)'
  <2>1. CASE v = w
    BY <1>5, <2>1 DEF CallOK, PutOK, NoCall
  <2>2. CASE v # w
    BY <1>2, <1>3, <1>5, <2>2 DEF WorkflowInv, CallOK, PutOK, NoCall
  <2> QED BY <2>1, <2>2
<1> QED BY <1>2, <1>3, <1>4, <1>6, <1>8, <1>9 DEF WorkflowInv

-----------------------------------------------------------------------------
(* The theorems *)

\* Every step keeps the invariant.
LEMMA NextWorkflow == WorkflowInv /\ [Next]_vars => WorkflowInv'
<1> SUFFICES ASSUME WorkflowInv, [Next]_vars PROVE WorkflowInv'
  OBVIOUS
<1>1. CASE UNCHANGED vars
  BY <1>1 DEF vars, WorkflowInv, TypeOK, CallOK, PutOK, ClaimsAfter, FinisherAfter, ClaimAfter
<1>2. ASSUME NEW w \in Workers, Works(w) PROVE WorkflowInv'
  BY <1>2, BeginClaimStep, ReleaseStep, BeginEndStep, GivesUpStep DEF Works
<1>3. ASSUME NEW w \in Workers, BeginResume(w) \/ BeginCancel(w) \/ Put(w) \/ PutFails(w) \/ Crash(w)
      PROVE  WorkflowInv'
  BY <1>3, ReleaseStep, BeginCancelStep, PutStep, GivesUpStep
<1> QED BY <1>1, <1>2, <1>3, CreateStep, TickStep DEF Next

\* The invariant always holds.
THEOREM WorkflowInvHolds == Spec => []WorkflowInv
  BY InitWorkflow, NextWorkflow, PTL DEF Spec

\* The state keeps its shape.
THEOREM WorkflowTypeCorrect == Spec => []TypeOK
<1>1. WorkflowInv => TypeOK
  BY DEF WorkflowInv
<1> QED BY <1>1, WorkflowInvHolds, PTL

\* No phase is handed out more often than its definition allows, over all failures, expired
\* leases, crashes and lost races.
THEOREM WorkflowClaimsBounded == Spec => []ClaimsBounded
<1>1. WorkflowInv => ClaimsBounded
  <2> SUFFICES ASSUME WorkflowInv, NEW p \in Phases PROVE claims[p] <= MaxAttempts[p]
    BY DEF ClaimsBounded
  <2>1. CASE record \in WorkflowRecord
    BY <2>1 DEF WorkflowInv, Consistent, PhaseOK
  <2>2. CASE record \notin WorkflowRecord
    BY <2>2, GraphAssumption DEF WorkflowInv
  <2> QED BY <2>1, <2>2
<1> QED BY <1>1, WorkflowInvHolds, PTL

\* No phase is handed out before all it depends on is completed.
THEOREM WorkflowDependenciesFirst == Spec => []DependenciesFirst
<1>1. WorkflowInv => DependenciesFirst
  <2> SUFFICES ASSUME WorkflowInv, NEW p \in Phases, claims[p] > 0, NEW d \in Deps[p]
               PROVE  finisher[d] > 0
    BY DEF DependenciesFirst
  <2>1. record \in WorkflowRecord
    BY DEF WorkflowInv
  <2>2. d \in Phases /\ PhaseOK(record.phases, p, claims[p], finisher[p])
        /\ PhaseOK(record.phases, d, claims[d], finisher[d])
    BY <2>1, GraphAssumption DEF WorkflowInv, Consistent
  <2> QED BY <2>2 DEF PhaseOK, DepsDone, Done
<1> QED BY <1>1, WorkflowInvHolds, PTL

\* No two workers hold an unexpired lease on a phase.
THEOREM WorkflowLeaseExclusive == Spec => []LeaseExclusive
<1>1. WorkflowInv => LeaseExclusive
  <2> SUFFICES ASSUME WorkflowInv, NEW v \in Workers, NEW w \in Workers, claim[v].left > 0,
                      claim[w].left > 0, claim[v].phase = claim[w].phase, v # w
               PROVE  FALSE
    BY DEF LeaseExclusive
  <2>1. CASE record \in WorkflowRecord
    <3>1. ClaimOK(record, claims, claim[v]) /\ ClaimOK(record, claims, claim[w]) /\ TokensDiffer(claim)
      BY <2>1 DEF WorkflowInv, Consistent
    <3> QED BY <3>1 DEF ClaimOK, TokensDiffer
  <2>2. CASE record \notin WorkflowRecord
    BY <2>2, NoClaimOK DEF WorkflowInv
  <2> QED BY <2>1, <2>2
<1> QED BY <1>1, WorkflowInvHolds, PTL

\* A phase is completed by its last claimant, and stays completed.
THEOREM WorkflowCompletedByLast == Spec => []CompletedByLastClaimant
<1>1. WorkflowInv => CompletedByLastClaimant
  <2> SUFFICES ASSUME WorkflowInv PROVE CompletedByLastClaimant
    OBVIOUS
  <2>1. CASE record \in WorkflowRecord
    <3>1. \A p \in Phases : PhaseOK(record.phases, p, claims[p], finisher[p])
      BY <2>1 DEF WorkflowInv, Consistent
    <3> QED BY <3>1 DEF PhaseOK, CompletedByLastClaimant
  <2>2. CASE record \notin WorkflowRecord
    BY <2>2 DEF WorkflowInv, TypeOK, CompletedByLastClaimant
  <2> QED BY <2>1, <2>2
<1> QED BY <1>1, WorkflowInvHolds, PTL

\* A verdict on the workflow lasts.
THEOREM WorkflowSettledStays == Spec => SettledStays
<1> DEFINE A == record # Nothing =>
       /\ record.status \in {"completed", "cancelled"} => record'.status = record.status
       /\ record.status \in {"partial", "failed"}
            => record'.status \in {"partial", "failed", "cancelled"}
<1>1. ASSUME WorkflowInv, Next PROVE A
  <2>1. CASE record' = record
    BY <2>1
  <2>2. CASE \E w \in Workers : Put(w)
    BY <1>1, <2>2, PutStep DEF StatusStep
  <2>3. CASE Tick
    BY <1>1, <2>3, AgedShape DEF Tick, WorkflowInv, TypeOK
  <2>4. CASE Create
    BY <2>4 DEF Create
  <2>5. record' = record \/ (\E w \in Workers : Put(w)) \/ Tick \/ Create
    <3>1. ASSUME NEW w \in Workers, Works(w) PROVE record' = record
      BY <3>1 DEF Works, BeginClaim, FindsNothing, BeginComplete, BeginFail, Superseded, Begins
    <3>2. ASSUME NEW w \in Workers, BeginResume(w) \/ BeginCancel(w) \/ PutFails(w) \/ Crash(w)
          PROVE  record' = record
      BY <3>2 DEF BeginResume, BeginCancel, PutFails, Crash, Begins
    <3> QED BY <1>1, <3>1, <3>2 DEF Next
  <2> QED BY <2>1, <2>2, <2>3, <2>4, <2>5
<1>2. WorkflowInv /\ [Next]_vars => [A]_vars
  BY <1>1
<1> QED BY <1>2, WorkflowInvHolds, PTL DEF Spec, SettledStays

(***************************************************************************)
(* Part two: PersistentInbox.                                              *)
(***************************************************************************)

(***************************************************************************)
(* Sequences of activations in the order in which they were accepted.     *)
(***************************************************************************)
Sorted(s) == \A i, j \in DOMAIN s : i < j => s[i] < s[j]

LEMMA InRange ==
  ASSUME NEW s, NEW n \in DOMAIN s
  PROVE  s[n] \in Range(s)
BY DEF Range

LEMMA SortedHead ==
  ASSUME NEW S \in SUBSET Nat, NEW s \in Seq(S), Sorted(s), s # <<>>
  PROVE  /\ Head(s) \in S
         /\ Tail(s) \in Seq(S)
         /\ Sorted(Tail(s))
         /\ Len(Tail(s)) = Len(s) - 1
         /\ Range(s) = {Head(s)} \cup Range(Tail(s))
         /\ \A x \in Range(Tail(s)) : Head(s) < x
<1>1. Len(s) \in Nat \ {0} /\ DOMAIN s = 1..Len(s) /\ Head(s) = s[1] /\ Head(s) \in S
  OBVIOUS
<1>2. Tail(s) \in Seq(S) /\ Len(Tail(s)) = Len(s) - 1 /\ DOMAIN Tail(s) = 1..(Len(s) - 1)
  OBVIOUS
<1>3. \A i \in DOMAIN Tail(s) : Tail(s)[i] = s[i + 1] /\ i + 1 \in DOMAIN s
  BY <1>1, <1>2
<1>4. \A i \in DOMAIN s : i = 1 \/ (i - 1 \in DOMAIN Tail(s) /\ s[i] = Tail(s)[i - 1])
  BY <1>1, <1>2
<1>5. Sorted(Tail(s))
  BY <1>1, <1>2, <1>3 DEF Sorted
<1>6. Range(s) = {Head(s)} \cup Range(Tail(s))
  <2>1. \A i \in DOMAIN s : s[i] \in {Head(s)} \cup Range(Tail(s))
    BY <1>1, <1>4, InRange
  <2>2. \A i \in DOMAIN Tail(s) : Tail(s)[i] \in Range(s)
    BY <1>3, InRange
  <2>3. Head(s) \in Range(s)
    <3>1. 1 \in DOMAIN s
      BY <1>1
    <3> QED  BY <1>1, <3>1, InRange
  <2> QED  BY <2>1, <2>2, <2>3 DEF Range
<1>7. \A x \in Range(Tail(s)) : Head(s) < x
  BY <1>1, <1>2, <1>3 DEF Range, Sorted
<1> QED  BY <1>1, <1>2, <1>5, <1>6, <1>7

LEMMA SortedAppend ==
  ASSUME NEW S \in SUBSET Nat, NEW s \in Seq(S), Sorted(s),
         NEW e \in S, \A x \in Range(s) : x < e
  PROVE  /\ Append(s, e) \in Seq(S)
         /\ Sorted(Append(s, e))
         /\ Len(Append(s, e)) = Len(s) + 1
         /\ Range(Append(s, e)) = Range(s) \cup {e}
         /\ Append(s, e) # <<>>
<1> DEFINE t == Append(s, e)
<1>1. t \in Seq(S) /\ Len(t) = Len(s) + 1 /\ Len(s) \in Nat /\ DOMAIN s = 1..Len(s) /\ DOMAIN t = 1..(Len(s) + 1)
  OBVIOUS
<1>2. \A i \in DOMAIN s : t[i] = s[i] /\ i \in DOMAIN t
  OBVIOUS
<1>3. t[Len(s) + 1] = e
  OBVIOUS
<1>4. \A i \in DOMAIN t : i \in DOMAIN s \/ i = Len(s) + 1
  BY <1>1
<1> HIDE DEF t
<1>5. \A i \in DOMAIN s : s[i] < e
  BY DEF Range
<1>6. Sorted(t)
  BY <1>1, <1>2, <1>3, <1>4, <1>5 DEF Sorted
<1>7. Range(t) = Range(s) \cup {e}
  BY <1>1, <1>2, <1>3, <1>4 DEF Range
<1>8. t # <<>>
  BY <1>1
<1> QED  BY <1>1, <1>6, <1>7, <1>8 DEF t

LEMMA SortedCons ==
  ASSUME NEW S \in SUBSET Nat, NEW s \in Seq(S), Sorted(s),
         NEW e \in S, \A x \in Range(s) : e < x
  PROVE  /\ <<e>> \o s \in Seq(S)
         /\ Sorted(<<e>> \o s)
         /\ Len(<<e>> \o s) = Len(s) + 1
         /\ Range(<<e>> \o s) = Range(s) \cup {e}
<1> DEFINE t == <<e>> \o s
<1>1. t \in Seq(S) /\ Len(t) = Len(s) + 1 /\ Len(s) \in Nat /\ DOMAIN s = 1..Len(s) /\ DOMAIN t = 1..(Len(s) + 1)
  OBVIOUS
<1>2. \A i \in DOMAIN s : t[i + 1] = s[i] /\ i + 1 \in DOMAIN t
  OBVIOUS
<1>3. t[1] = e
  OBVIOUS
<1>4. \A i \in DOMAIN t : i = 1 \/ (i - 1 \in DOMAIN s /\ t[i] = s[i - 1])
  BY <1>1, <1>2
<1> HIDE DEF t
<1>5. \A i \in DOMAIN s : e < s[i]
  BY DEF Range
<1>6. Sorted(t)
  BY <1>1, <1>3, <1>4, <1>5 DEF Sorted
<1>7. Range(t) = Range(s) \cup {e}
  <2>1. \A i \in DOMAIN t : t[i] \in Range(s) \cup {e}
    BY <1>3, <1>4, InRange
  <2>2. \A i \in DOMAIN s : s[i] \in Range(t)
    BY <1>2, InRange
  <2>3. e \in Range(t)
    <3>1. 1 \in DOMAIN t
      BY <1>1
    <3> QED  BY <1>3, <3>1, InRange
  <2> QED  BY <2>1, <2>2, <2>3 DEF Range
<1> QED  BY <1>1, <1>6, <1>7 DEF t

LEMMA Joined ==
  ASSUME NEW S, NEW a \in Seq(S), NEW b \in Seq(S)
  PROVE  /\ a \o b \in Seq(S)
         /\ Len(a \o b) = Len(a) + Len(b)
         /\ \A i \in 1..Len(a) : (a \o b)[i] = a[i]
         /\ \A i \in (Len(a) + 1)..(Len(a) + Len(b)) : (a \o b)[i] = b[i - Len(a)]
OBVIOUS

LEMMA SortedRemoveAt ==
  ASSUME NEW S \in SUBSET Nat, NEW s \in Seq(S), Sorted(s), NEW n \in DOMAIN s
  PROVE  /\ RemoveAt(s, n) \in Seq(S)
         /\ Sorted(RemoveAt(s, n))
         /\ Len(RemoveAt(s, n)) = Len(s) - 1
         /\ Range(RemoveAt(s, n)) = Range(s) \ {s[n]}
<1> DEFINE a == SubSeq(s, 1, n - 1)
           b == SubSeq(s, n + 1, Len(s))
           t == a \o b
<1>1. n \in 1..Len(s) /\ Len(s) \in Nat /\ DOMAIN s = 1..Len(s)
  OBVIOUS
<1>9. \A i \in DOMAIN s : s[i] \in Nat
  <2>1. \A i \in DOMAIN s : s[i] \in S
    OBVIOUS
  <2> QED  BY <2>1
<1>2. a \in Seq(S) /\ Len(a) = n - 1 /\ \A i \in 1..(n - 1) : a[i] = s[i]
  BY <1>1
<1>3. b \in Seq(S) /\ Len(b) = Len(s) - n /\ \A i \in 1..(Len(s) - n) : b[i] = s[n + i]
  BY <1>1
<1> HIDE DEF a, b
<1>4. t \in Seq(S) /\ Len(t) = Len(s) - 1 /\ DOMAIN t = 1..(Len(s) - 1)
  <2>1. a \in Seq(S) /\ b \in Seq(S)
    BY <1>2, <1>3
  <2>2. t \in Seq(S) /\ Len(t) = Len(a) + Len(b)
    BY <2>1, Joined
  <2> HIDE DEF t
  <2>3. Len(t) = Len(s) - 1
    BY <1>1, <1>2, <1>3, <2>2
  <2> QED  BY <2>2, <2>3
<1>5. \A i \in DOMAIN t : t[i] = IF i < n THEN s[i] ELSE s[i + 1]
  <2> SUFFICES ASSUME NEW i \in DOMAIN t PROVE t[i] = IF i < n THEN s[i] ELSE s[i + 1]
    OBVIOUS
  <2>1. i \in 1..(Len(s) - 1)
    BY <1>4
  <2>2. CASE i < n
    <3>1. i \in 1..Len(a)
      BY <1>1, <1>2, <2>1, <2>2
    <3>2. t[i] = a[i]
      BY <1>2, <1>3, <3>1, Joined
    <3> QED  BY <1>2, <2>2, <3>1, <3>2
  <2>3. CASE ~(i < n)
    <3>1. i \in (Len(a) + 1)..(Len(a) + Len(b)) /\ i - Len(a) \in 1..(Len(s) - n)
          /\ n + (i - Len(a)) = i + 1
      BY <1>1, <1>2, <1>3, <2>1, <2>3
    <3>2. t[i] = b[i - Len(a)]
      BY <1>2, <1>3, <3>1, Joined
    <3> QED  BY <1>3, <2>3, <3>1, <3>2
  <2> QED  BY <2>2, <2>3
<1> HIDE DEF t
<1>6. Sorted(t)
  BY <1>1, <1>4, <1>5 DEF Sorted
<1>7. Range(t) \subseteq Range(s) \ {s[n]}
  <2> SUFFICES ASSUME NEW i \in DOMAIN t PROVE t[i] \in Range(s) \ {s[n]}
    BY DEF Range
  <2>1. CASE i < n
    <3>1. i \in DOMAIN s /\ t[i] = s[i] /\ s[i] < s[n]
      BY <1>1, <1>4, <1>5, <2>1 DEF Sorted
    <3>2. s[i] \in Nat /\ s[n] \in Nat
      BY <1>9, <3>1
    <3>3. s[i] \in Range(s)
      BY <3>1, InRange
    <3>4. s[i] # s[n]
      BY <3>1, <3>2
    <3> QED  BY <3>1, <3>3, <3>4
  <2>2. CASE ~(i < n)
    <3>1. i + 1 \in DOMAIN s /\ t[i] = s[i + 1] /\ s[n] < s[i + 1]
      BY <1>1, <1>4, <1>5, <2>2 DEF Sorted
    <3>2. s[i + 1] \in Nat /\ s[n] \in Nat
      BY <1>9, <3>1
    <3>3. s[i + 1] \in Range(s)
      BY <3>1, InRange
    <3>4. s[i + 1] # s[n]
      BY <3>1, <3>2
    <3> QED  BY <3>1, <3>3, <3>4
  <2> QED  BY <2>1, <2>2
<1>8. Range(s) \ {s[n]} \subseteq Range(t)
  <2> SUFFICES ASSUME NEW i \in DOMAIN s, i # n PROVE s[i] \in Range(t)
    BY DEF Range
  <2>1. CASE i < n
    <3>1. i \in DOMAIN t /\ t[i] = s[i]
      BY <1>1, <1>4, <1>5, <2>1
    <3> QED  BY <3>1 DEF Range
  <2>2. CASE i > n
    <3>1. i - 1 \in DOMAIN t /\ t[i - 1] = s[i]
      BY <1>1, <1>4, <1>5, <2>2
    <3> QED  BY <3>1 DEF Range
  <2> QED  BY <1>1, <2>1, <2>2
<1> QED  BY <1>4, <1>6, <1>7, <1>8 DEF t, a, b, RemoveAt

LEMMA WholePrefix ==
  ASSUME NEW S, NEW s \in Seq(S), NEW m \in Nat, Len(s) <= m
  PROVE  SubSeq(s, 1, Min({m, Len(s)})) = s
<1>1. Min({m, Len(s)}) = Len(s)
  BY DEF Min
<1> QED  BY <1>1

(***************************************************************************)
(* Types, for every environment.                                          *)
(***************************************************************************)
Sound(o) == o \in Managed /\ (o.at # "off" => o.item \in Items)

\* InboxTypeOK, but for the marks.
CoreTypes ==
  /\ up \in [Hosts -> {"down", "up", "closing"}]
  /\ owner \in Hosts
  /\ known \in [Hosts -> BOOLEAN]
  /\ objects \in [Hosts -> Seq(Managed)]
  /\ file \in Seq(Items)
  /\ accepted \in 0..MaxItems
  /\ settled \subseteq Items /\ started \subseteq Items /\ spent \subseteq Items
  /\ count \in [Events -> Nat]

InboxTypes ==
  /\ CoreTypes
  /\ \A h \in Hosts : Alive(h) <=> objects[h] # <<>>
  /\ \A h \in Hosts : \A k \in DOMAIN objects[h] : Sound(objects[h][k])

LEMMA ItemsAreNumbers == Items \in SUBSET Nat /\ NoItem \notin Items
BY InboxBounds, ItemAssumption DEF Items

\* The fields of an object, to be cited instead of the record set.
LEMMA ManagedFields ==
  ASSUME NEW o \in Managed
  PROVE  /\ o.queue \in Seq(Items)
         /\ o.inFlight \in Items \cup {NoItem}
         /\ o.item \in Items \cup {NoItem}
         /\ o.callers \in SUBSET Items
BY DEF Managed

LEMMA HeldType ==
  ASSUME NEW o \in Managed
  PROVE  Held(o) \in Seq(Items)
<1>1. o.queue \in Seq(Items) /\ o.inFlight \in Items \cup {NoItem}
  BY ManagedFields
<1>2. CASE o.inFlight = NoItem
  <2>1. <<>> \in Seq(Items)
    OBVIOUS
  <2> QED  BY <1>1, <1>2, <2>1, Joined DEF Held
<1>3. CASE o.inFlight # NoItem
  <2>1. <<o.inFlight>> \in Seq(Items)
    BY <1>1, <1>3
  <2> QED  BY <1>1, <1>3, <2>1, Joined DEF Held
<1> QED  BY <1>2, <1>3

LEMMA TakenType ==
  ASSUME NEW o \in Managed, o.queue # <<>>
  PROVE  /\ Sound(Taken(o))
         /\ Taken(o).queue = Tail(o.queue) /\ Taken(o).inFlight = Head(o.queue)
         /\ Taken(o).item = Head(o.queue) /\ Taken(o).at = "starting"
<1>1. o.queue \in Seq(Items)
  BY ManagedFields
<1>2. Tail(o.queue) \in Seq(Items) /\ Head(o.queue) \in Items
  BY <1>1
<1>3. /\ Taken(o).queue = Tail(o.queue) /\ Taken(o).inFlight = Head(o.queue)
      /\ Taken(o).item = Head(o.queue) /\ Taken(o).at = "starting"
  BY DEF Managed, Taken
<1>4. Taken(o) \in Managed
  BY <1>2 DEF Managed, Taken
<1> QED  BY <1>2, <1>3, <1>4 DEF Sound

LEMMA EnsureType ==
  ASSUME NEW o, Sound(o), NEW mode
  PROVE  /\ Sound(EnsureDrain(mode, o))
         /\ \/ EnsureDrain(mode, o) = o
            \/ mode = "up" /\ o.at = "off" /\ o.queue # <<>> /\ EnsureDrain(mode, o) = Taken(o)
<1>1. CASE o.at = "off" /\ mode = "up" /\ o.queue # <<>>
  <2>1. o \in Managed /\ EnsureDrain(mode, o) = Taken(o)
    BY <1>1 DEF Sound, EnsureDrain
  <2>2. Sound(Taken(o))
    BY <1>1, <2>1, TakenType
  <2> QED  BY <1>1, <2>1, <2>2
<1>2. CASE ~(o.at = "off" /\ mode = "up" /\ o.queue # <<>>)
  <2>1. EnsureDrain(mode, o) = o
    BY <1>2 DEF EnsureDrain
  <2> QED  BY <2>1
<1> QED  BY <1>1, <1>2

LEMMA LoadedType ==
  ASSUME CoreTypes
  PROVE  /\ Sound(Loaded) /\ Loaded.at = "off" /\ Loaded.inFlight = NoItem
         /\ Loaded.queue = Restored(file) /\ Loaded.callers = {}
<1>1. file \in Seq(Items) /\ accepted \in Nat
  BY InboxBounds DEF CoreTypes
<1>2. Min({QueueLimit + 1, Len(file)}) \in 0..Len(file)
  BY <1>1, QueueAssumption DEF Min
<1>3. \A m \in 0..Len(file) : SubSeq(file, 1, m) \in Seq(Items)
  BY <1>1
<1>4. Restored(file) \in Seq(Items)
  BY <1>2, <1>3 DEF Restored
<1> HIDE DEF Restored
<1> QED  BY <1>1, <1>4 DEF Loaded, Managed, Sound

\* One object of a host changes.
LEMMA MoveTypes ==
  ASSUME InboxTypes, NEW h \in Hosts, NEW k \in DOMAIN objects[h], NEW o, Sound(o),
         objects' = [objects EXCEPT ![h][k] = o]
  PROVE  /\ objects' \in [Hosts -> Seq(Managed)]
         /\ \A g \in Hosts : objects'[g] # <<>> <=> objects[g] # <<>>
         /\ \A g \in Hosts : \A j \in DOMAIN objects'[g] : Sound(objects'[g][j])
<1>1. objects \in [Hosts -> Seq(Managed)] /\ objects[h] \in Seq(Managed) /\ o \in Managed
  BY DEF InboxTypes, CoreTypes, Sound
<1> DEFINE s == [objects[h] EXCEPT ![k] = o]
<1>2. s \in Seq(Managed) /\ DOMAIN s = DOMAIN objects[h] /\ Len(s) = Len(objects[h])
  BY <1>1
<1>3. objects[h] # <<>> /\ s # <<>>
  BY <1>1, <1>2
<1>4. \A j \in DOMAIN s : s[j] = (IF j = k THEN o ELSE objects[h][j])
  BY <1>1
<1>5. objects' = [objects EXCEPT ![h] = s]
  BY <1>1
<1> HIDE DEF s
<1>6. \A g \in Hosts : objects'[g] = (IF g = h THEN s ELSE objects[g])
  BY <1>1, <1>5
<1>7. \A j \in DOMAIN s : Sound(s[j])
  BY <1>2, <1>4 DEF InboxTypes
<1>8. objects' \in [Hosts -> Seq(Managed)]
  BY <1>1, <1>2, <1>5
<1>9. \A g \in Hosts : \A j \in DOMAIN objects'[g] : Sound(objects'[g][j])
  BY <1>6, <1>7 DEF InboxTypes
<1> QED  BY <1>3, <1>6, <1>8, <1>9

\* All the objects of a host are replaced.
LEMMA ReplaceTypes ==
  ASSUME InboxTypes, NEW h \in Hosts, NEW s \in Seq(Managed),
         \A j \in DOMAIN s : Sound(s[j]), objects' = [objects EXCEPT ![h] = s]
  PROVE  /\ objects' \in [Hosts -> Seq(Managed)]
         /\ \A g \in Hosts : objects'[g] = (IF g = h THEN s ELSE objects[g])
         /\ \A g \in Hosts : \A j \in DOMAIN objects'[g] : Sound(objects'[g][j])
<1>1. objects \in [Hosts -> Seq(Managed)]
  BY DEF InboxTypes, CoreTypes
<1>2. objects' \in [Hosts -> Seq(Managed)]
  BY <1>1
<1>3. \A g \in Hosts : objects'[g] = (IF g = h THEN s ELSE objects[g])
  BY <1>1
<1>4. \A g \in Hosts : \A j \in DOMAIN objects'[g] : Sound(objects'[g][j])
  BY <1>3 DEF InboxTypes
<1> QED  BY <1>2, <1>3, <1>4

LEMMA CountTypes ==
  ASSUME CoreTypes, NEW event \in Events, NEW limit, Happens(event, limit)
  PROVE  count' \in [Events -> Nat]
<1>1. count \in [Events -> Nat] /\ count' = [count EXCEPT ![event] = @ + 1]
  BY DEF CoreTypes, Happens
<1> QED  BY <1>1

LEMMA StoreTypes ==
  ASSUME CoreTypes, NEW h \in Hosts, NEW o \in Managed,
         NEW ended \in SUBSET Items, NEW again, StoreSafely(h, o, ended, again)
  PROVE  file' \in Seq(Items) /\ spent' \subseteq Items /\ count' \in [Events -> Nat]
<1>1. Held(o) \in Seq(Items)
  BY HeldType
<1>2. file \in Seq(Items) /\ spent \subseteq Items /\ count \in [Events -> Nat]
  BY DEF CoreTypes
<1>3. file' \in Seq(Items) /\ spent' \subseteq Items
  BY <1>1, <1>2 DEF StoreSafely
<1>4. count' = count \/ Mishap
  BY DEF StoreSafely
<1>5. count' \in [Events -> Nat]
  BY <1>2, <1>4, CountTypes DEF Mishap, Events
<1> QED  BY <1>3, <1>5

-----------------------------------------------------------------------------
LEMMA TypesInit == InboxInit => InboxTypes
<1> SUFFICES ASSUME InboxInit PROVE InboxTypes
  OBVIOUS
<1>1. accepted \in 0..MaxItems
  BY InboxBounds DEF InboxInit
<1>2. <<>> \in Seq(Managed) /\ <<>> \in Seq(Items)
  OBVIOUS
<1>3. CoreTypes
  BY <1>1, <1>2 DEF InboxInit, CoreTypes
<1>4. \A h \in Hosts : ~Alive(h) /\ objects[h] = <<>>
  BY DEF InboxInit, Alive
<1> QED  BY <1>3, <1>4 DEF InboxTypes

\* What is Alive is told from the objects when up stays as it is.
LEMMA TypesKept ==
  ASSUME InboxTypes, CoreTypes',
         \A h \in Hosts : up'[h] = up[h],
         \A h \in Hosts : objects'[h] # <<>> <=> objects[h] # <<>>,
         \A h \in Hosts : \A k \in DOMAIN objects'[h] : Sound(objects'[h][k])
  PROVE  InboxTypes'
BY DEF InboxTypes, Alive, Sound, Managed, Items

LEMMA CurrentSound ==
  ASSUME InboxTypes, NEW h \in Hosts, Alive(h)
  PROVE  /\ Len(objects[h]) \in DOMAIN objects[h]
         /\ Current(h) = objects[h][Len(objects[h])]
         /\ Sound(Current(h)) /\ Current(h) \in Managed
<1>1. objects[h] \in Seq(Managed) /\ objects[h] # <<>>
  BY DEF InboxTypes, CoreTypes
<1>2. Len(objects[h]) \in DOMAIN objects[h]
  BY <1>1
<1>3. Current(h) = objects[h][Len(objects[h])]
  BY DEF Current, Last
<1> QED  BY <1>2, <1>3 DEF InboxTypes, Sound

LEMMA TypesAccept ==
  ASSUME InboxTypes, NEW h \in Hosts, Accept(h)
  PROVE  InboxTypes'
<1> DEFINE o == Current(h)
           full == Len(o.queue) >= QueueLimit
           dropped == IF full THEN {Head(o.queue)} ELSE {}
           room == IF full THEN Tail(o.queue) ELSE o.queue
           given == [o EXCEPT !.queue = Append(room, accepted + 1), !.callers = @ \cup {accepted + 1}]
           after == EnsureDrain(up[h], given)
<1>1. Sound(o) /\ o \in Managed /\ Len(objects[h]) \in DOMAIN objects[h]
  BY CurrentSound DEF Accept
<1>2. o.queue \in Seq(Items) /\ QueueLimit \in Nat \ {0}
  BY <1>1, ManagedFields, QueueAssumption
<1>3. accepted \in Nat /\ MaxItems \in Nat /\ accepted < MaxItems /\ accepted + 1 \in Items
  BY InboxBounds DEF InboxTypes, CoreTypes, Accept, Items
<1> HIDE DEF o
<1>4. room \in Seq(Items) /\ dropped \subseteq Items
  BY <1>2
<1> HIDE DEF room, dropped
<1>5. Append(room, accepted + 1) \in Seq(Items)
  BY <1>3, <1>4
<1>6. given \in Managed /\ given.at = o.at /\ given.item = o.item
  BY <1>1, <1>3, <1>5 DEF Managed
<1>7. Sound(given)
  BY <1>1, <1>6 DEF Sound
<1> HIDE DEF given
<1>8. Sound(after)
  BY <1>7, EnsureType
<1> HIDE DEF after
<1>9. /\ objects' = [objects EXCEPT ![h][Len(objects[h])] = after]
      /\ file' = Held(after) /\ accepted' = accepted + 1
      /\ settled' = settled \cup dropped /\ spent' = spent \cup dropped
      /\ UNCHANGED <<environment, known, started>>
  BY DEF Accept, Replace, after, given, room, dropped, full, o
<1>10. /\ objects' \in [Hosts -> Seq(Managed)]
       /\ \A g \in Hosts : objects'[g] # <<>> <=> objects[g] # <<>>
       /\ \A g \in Hosts : \A j \in DOMAIN objects'[g] : Sound(objects'[g][j])
  BY <1>1, <1>8, <1>9, MoveTypes
<1>11. file' \in Seq(Items)
  BY <1>8, <1>9, HeldType DEF Sound
<1>12. accepted' \in 0..MaxItems
  BY <1>3, <1>9
<1>13. CoreTypes'
  BY <1>4, <1>9, <1>10, <1>11, <1>12 DEF InboxTypes, CoreTypes, environment
<1> QED  BY <1>9, <1>10, <1>13, TypesKept DEF environment

\* Withdraw, with its object and its place in the queue.
WithdrawAt(h, k, n) ==
  LET i == objects[h][k].queue[n]
      o == [objects[h][k] EXCEPT !.queue = RemoveAt(@, n)]
  IN /\ objects' = [objects EXCEPT ![h][k] = o]
     /\ settled' = settled \cup {i}
     /\ StoreSafely(h, o, {i}, {})
     /\ UNCHANGED <<up, owner, known, accepted, started, marks>>

LEMMA TypesWithdraw ==
  ASSUME InboxTypes, NEW h \in Hosts, Withdraw(h)
  PROVE  InboxTypes'
<1>0. PICK k \in DOMAIN objects[h] : \E n \in Waiting(objects[h][k]) : WithdrawAt(h, k, n)
  BY DEF Withdraw, WithdrawAt
<1>1. PICK n \in Waiting(objects[h][k]) : WithdrawAt(h, k, n)
  BY <1>0
<1> DEFINE before == objects[h][k]
           i == before.queue[n]
           o == [before EXCEPT !.queue = RemoveAt(@, n)]
<1>2. Sound(before) /\ before \in Managed /\ before.queue \in Seq(Items) /\ n \in DOMAIN before.queue
  BY ManagedFields DEF InboxTypes, Sound, Waiting
<1> HIDE DEF before
<1>3. i \in Items
  BY <1>2
<1>4. RemoveAt(before.queue, n) \in Seq(Items)
  <2>1. SubSeq(before.queue, 1, n - 1) \in Seq(Items)
    BY <1>2
  <2>2. SubSeq(before.queue, n + 1, Len(before.queue)) \in Seq(Items)
    BY <1>2
  <2> QED  BY <2>1, <2>2, Joined DEF RemoveAt
<1>5. Sound(o)
  <2> DEFINE q == RemoveAt(before.queue, n)
  <2>1. o = [before EXCEPT !.queue = q]
    OBVIOUS
  <2> HIDE DEF q
  <2>2. o \in Managed /\ o.at = before.at /\ o.item = before.item
    BY <1>2, <1>4, <2>1 DEF Managed, q
  <2> QED  BY <1>2, <2>2 DEF Sound
<1>6. /\ objects' = [objects EXCEPT ![h][k] = o]
      /\ settled' = settled \cup {i}
      /\ StoreSafely(h, o, {i}, {})
      /\ UNCHANGED <<up, owner, known, accepted, started, marks>>
  BY <1>1 DEF before, WithdrawAt
<1> HIDE DEF i, o
<1>7. /\ objects' \in [Hosts -> Seq(Managed)]
      /\ \A g \in Hosts : objects'[g] # <<>> <=> objects[g] # <<>>
      /\ \A g \in Hosts : \A j \in DOMAIN objects'[g] : Sound(objects'[g][j])
  BY <1>5, <1>6, MoveTypes
<1>8. file' \in Seq(Items) /\ spent' \subseteq Items /\ count' \in [Events -> Nat]
  BY <1>3, <1>5, <1>6, StoreTypes DEF InboxTypes, Sound
<1>9. CoreTypes'
  BY <1>3, <1>6, <1>7, <1>8 DEF InboxTypes, CoreTypes
<1> QED  BY <1>6, <1>7, <1>9, TypesKept

LEMMA TypesHalt ==
  ASSUME InboxTypes, NEW h \in Hosts, Halt(h)
  PROVE  InboxTypes'
<1> DEFINE before == Current(h)
           o == [before EXCEPT !.queue = <<>>]
           cancelled == Range(before.queue)
<1>1. Sound(before) /\ before \in Managed /\ Len(objects[h]) \in DOMAIN objects[h]
  BY CurrentSound DEF Halt
<1>2. /\ objects' = [objects EXCEPT ![h][Len(objects[h])] = o]
      /\ settled' = settled \cup cancelled
      /\ StoreSafely(h, o, cancelled, {})
      /\ UNCHANGED <<up, owner, known, accepted, started, marks>>
  BY DEF Halt, Replace
<1> HIDE DEF before
<1>3. cancelled \subseteq Items
  <2>1. before.queue \in Seq(Items)
    BY <1>1, ManagedFields
  <2>2. \A n \in DOMAIN before.queue : before.queue[n] \in Items
    BY <2>1
  <2> QED  BY <2>2 DEF Range
<1>4. Sound(o)
  <2>1. <<>> \in Seq(Items)
    OBVIOUS
  <2>2. o \in Managed /\ o.at = before.at /\ o.item = before.item
    BY <1>1, <2>1 DEF Managed
  <2> QED  BY <1>1, <2>2 DEF Sound
<1> HIDE DEF o, cancelled
<1>5. /\ objects' \in [Hosts -> Seq(Managed)]
      /\ \A g \in Hosts : objects'[g] # <<>> <=> objects[g] # <<>>
      /\ \A g \in Hosts : \A j \in DOMAIN objects'[g] : Sound(objects'[g][j])
  BY <1>1, <1>2, <1>4, MoveTypes
<1>6. file' \in Seq(Items) /\ spent' \subseteq Items /\ count' \in [Events -> Nat]
  BY <1>2, <1>3, <1>4, StoreTypes DEF InboxTypes, Sound
<1>7. CoreTypes'
  BY <1>2, <1>3, <1>5, <1>6 DEF InboxTypes, CoreTypes
<1> QED  BY <1>2, <1>5, <1>7, TypesKept

\* A step of a drain: one object changes, and what is written follows from it.
LEMMA TypesStep ==
  ASSUME InboxTypes, NEW h \in Hosts, NEW k \in DOMAIN objects[h], NEW o, Sound(o), Moves(h, k, o),
         UNCHANGED <<up, owner, known, accepted>>,
         file' \in Seq(Items), count' \in [Events -> Nat],
         settled' \subseteq Items, started' \subseteq Items, spent' \subseteq Items
  PROVE  InboxTypes'
<1>1. /\ objects' \in [Hosts -> Seq(Managed)]
      /\ \A g \in Hosts : objects'[g] # <<>> <=> objects[g] # <<>>
      /\ \A g \in Hosts : \A j \in DOMAIN objects'[g] : Sound(objects'[g][j])
  BY MoveTypes DEF Moves
<1>2. CoreTypes'
  BY <1>1 DEF InboxTypes, CoreTypes
<1> QED  BY <1>1, <1>2, TypesKept

\* The steps of an object's drain, by the field they change.
LEMMA DrainSound ==
  ASSUME NEW o, Sound(o), o.at # "off"
  PROVE  /\ o \in Managed /\ o.item \in Items
         /\ Sound([o EXCEPT !.at = "running"]) /\ Sound([o EXCEPT !.at = "delivering"])
         /\ Sound([o EXCEPT !.at = "committing"]) /\ Sound([o EXCEPT !.at = "off"])
         /\ Sound([o EXCEPT !.at = "off", !.stranded = TRUE])
         /\ \A fate \in {"retain", "moved"} : Sound([o EXCEPT !.at = "leaving", !.fate = fate])
         /\ Sound([Dropped(o) EXCEPT !.at = "resting", !.fate = "terminal"])
         /\ Sound([Dropped(o) EXCEPT !.at = "leaving", !.fate = "terminal"])
         /\ \A q \in Seq(Items) : Sound([Dropped(o) EXCEPT !.queue = q, !.at = "resting"])
<1>1. o \in Managed /\ o.item \in Items
  BY DEF Sound
<1>2. /\ Sound([o EXCEPT !.at = "running"]) /\ Sound([o EXCEPT !.at = "delivering"])
      /\ Sound([o EXCEPT !.at = "committing"]) /\ Sound([o EXCEPT !.at = "off"])
      /\ Sound([o EXCEPT !.at = "off", !.stranded = TRUE])
  BY <1>1 DEF Sound, Managed
<1>3. \A fate \in {"retain", "moved"} : Sound([o EXCEPT !.at = "leaving", !.fate = fate])
  BY <1>1 DEF Sound, Managed
<1>4. Dropped(o) \in Managed /\ Dropped(o).item = o.item
  BY <1>1 DEF Dropped, Managed
<1> HIDE DEF Dropped
<1>5. /\ Sound([Dropped(o) EXCEPT !.at = "resting", !.fate = "terminal"])
      /\ Sound([Dropped(o) EXCEPT !.at = "leaving", !.fate = "terminal"])
  BY <1>1, <1>4 DEF Sound, Managed
<1>6. \A q \in Seq(Items) : Sound([Dropped(o) EXCEPT !.queue = q, !.at = "resting"])
  BY <1>1, <1>4 DEF Sound, Managed
<1> QED  BY <1>1, <1>2, <1>3, <1>5, <1>6

LEMMA TypesFinish ==
  ASSUME InboxTypes, NEW h \in Hosts, NEW k \in DOMAIN objects[h], objects[h][k].at # "off",
         NEW at \in {"resting", "leaving"}, Finish(h, k, at), UNCHANGED <<up, owner, known, accepted, started, marks>>
  PROVE  InboxTypes'
<1> DEFINE o == [Dropped(objects[h][k]) EXCEPT !.at = at, !.fate = "terminal"]
<1>1. Sound(objects[h][k])
  BY DEF InboxTypes
<1>2. Sound(o) /\ o \in Managed /\ objects[h][k].item \in Items /\ objects[h][k] \in Managed
  BY <1>1, DrainSound DEF Sound
<1>3. o.item = objects[h][k].item
  BY <1>2 DEF Managed, Dropped
<1>4. /\ Moves(h, k, o)
      /\ settled' = settled \cup {o.item}
      /\ StoreSafely(h, o, {o.item}, {})
  BY DEF Finish
<1> HIDE DEF o
<1>5. file' \in Seq(Items) /\ spent' \subseteq Items /\ count' \in [Events -> Nat]
  BY <1>2, <1>3, <1>4, StoreTypes DEF InboxTypes
<1>6. settled' \subseteq Items /\ started' \subseteq Items
  BY <1>2, <1>3, <1>4 DEF InboxTypes, CoreTypes
<1> QED  BY <1>2, <1>4, <1>5, <1>6, TypesStep

LEMMA TypesLeaving ==
  ASSUME InboxTypes, NEW h \in Hosts, NEW k \in DOMAIN objects[h], objects[h][k].at # "off",
         NEW fate \in {"retain", "moved"}, Leaving(h, k, fate),
         UNCHANGED <<known, accepted, started, marks>>, count' \in [Events -> Nat]
  PROVE  InboxTypes'
<1>1. Sound(objects[h][k])
  BY DEF InboxTypes
<1>2. Sound([objects[h][k] EXCEPT !.at = "leaving", !.fate = fate])
  BY <1>1, DrainSound
<1>3. /\ Moves(h, k, [objects[h][k] EXCEPT !.at = "leaving", !.fate = fate])
      /\ UNCHANGED <<up, owner, file, settled, spent>>
  BY DEF Leaving
<1>4. /\ file' \in Seq(Items) /\ settled' \subseteq Items /\ started' \subseteq Items
      /\ spent' \subseteq Items
  BY <1>3 DEF InboxTypes, CoreTypes
<1> QED  BY <1>2, <1>3, <1>4, TypesStep

\* What no step of a drain has to say when it leaves it alone.
LEMMA TypesNow ==
  ASSUME InboxTypes
  PROVE  /\ file \in Seq(Items) /\ settled \subseteq Items /\ started \subseteq Items
         /\ spent \subseteq Items /\ count \in [Events -> Nat]
         /\ \A h \in Hosts : objects[h] \in Seq(Managed)
         /\ \A h \in Hosts : \A k \in DOMAIN objects[h] : Sound(objects[h][k])
BY DEF InboxTypes, CoreTypes

LEMMA TypesDrains ==
  ASSUME InboxTypes, NEW h \in Hosts, Drains(h)
  PROVE  InboxTypes'
<1>1. PICK k \in DOMAIN objects[h] :
         \/ Begin(h, k) \/ Invalidate(h, k) \/ RunEnds(h, k) \/ Deliver(h, k)
         \/ Commit(h, k) \/ CommitFails(h, k) \/ Leave(h, k)
         \/ NextItem(h, k) \/ DrainEnds(h, k) \/ PresenceFails(h, k)
  BY DEF Drains
<1> DEFINE o == objects[h][k]
<1>2. Sound(o) /\ o \in Managed
  BY TypesNow DEF Sound
<1>3. ASSUME Begin(h, k) PROVE InboxTypes'
  <2>1. o.at # "off" /\ Moves(h, k, [o EXCEPT !.at = "running"])
        /\ started' = started \cup {o.item} /\ spent' = spent \cup {o.item}
        /\ UNCHANGED <<environment, known, file, accepted, settled, marks>>
    BY <1>3 DEF Begin
  <2>2. o.item \in Items /\ Sound([o EXCEPT !.at = "running"])
    BY <1>2, <2>1, DrainSound
  <2> HIDE DEF o
  <2>3. started' \subseteq Items /\ spent' \subseteq Items
    BY <2>1, <2>2, TypesNow
  <2> QED  BY <2>1, <2>2, <2>3, TypesNow, TypesStep DEF environment
<1>4. ASSUME Invalidate(h, k) PROVE InboxTypes'
  <2>1. /\ o.at # "off" /\ UNCHANGED <<up, owner, known, accepted, started, marks>>
        /\ Finish(h, k, "resting") \/ Finish(h, k, "leaving")
    BY <1>4 DEF Invalidate
  <2> QED  BY <2>1, TypesFinish
<1>5. ASSUME RunEnds(h, k) PROVE InboxTypes'
  <2>1. o.at # "off" /\ UNCHANGED <<known, accepted, started, marks>>
    BY <1>5 DEF RunEnds
  <2>2. CASE \E fate \in {"retain", "moved"} : Leaving(h, k, fate) /\ UNCHANGED count
    BY <2>1, <2>2, TypesLeaving, TypesNow
  <2>3. CASE /\ Moves(h, k, [o EXCEPT !.at = "delivering"])
             /\ UNCHANGED <<environment, file, settled, spent>>
    <3>1. Sound([o EXCEPT !.at = "delivering"])
      BY <1>2, <2>1, DrainSound
    <3> HIDE DEF o
    <3> QED  BY <2>1, <2>3, <3>1, TypesNow, TypesStep DEF environment
  <2>4. CASE Finish(h, k, "leaving") /\ UNCHANGED <<up, owner>>
    BY <2>1, <2>4, TypesFinish
  <2> QED  BY <1>5, <2>2, <2>3, <2>4 DEF RunEnds
<1>6. ASSUME Deliver(h, k) PROVE InboxTypes'
  <2>1. o.at # "off" /\ UNCHANGED <<known, accepted, started, marks>>
    BY <1>6 DEF Deliver
  <2>2. CASE Leaving(h, k, "moved") /\ UNCHANGED count
    BY <2>1, <2>2, TypesLeaving, TypesNow
  <2>3. CASE Mishap /\ Leaving(h, k, "retain")
    <3>1. count' \in [Events -> Nat]
      BY <2>3, CountTypes DEF Mishap, Events, InboxTypes
    <3> QED  BY <2>1, <2>3, <3>1, TypesLeaving
  <2>4. CASE /\ Moves(h, k, [o EXCEPT !.at = "committing"])
             /\ UNCHANGED <<environment, file, settled, spent>>
    <3>1. Sound([o EXCEPT !.at = "committing"])
      BY <1>2, <2>1, DrainSound
    <3> HIDE DEF o
    <3> QED  BY <2>1, <2>4, <3>1, TypesNow, TypesStep DEF environment
  <2> QED  BY <1>6, <2>2, <2>3, <2>4 DEF Deliver, SaveFails
<1>7. ASSUME Commit(h, k) \/ CommitFails(h, k) PROVE InboxTypes'
  <2> DEFINE p == [Dropped(o) EXCEPT !.at = "leaving", !.fate = "terminal"]
  <2>1. o.at # "off"
    BY <1>7 DEF Commit, CommitFails
  <2>2. Sound(p) /\ p \in Managed /\ o.item \in Items
    BY <1>2, <2>1, DrainSound DEF Sound
  <2>3. p.item = o.item
    BY <1>2 DEF Dropped, Managed
  <2>4. Held(p) \in Seq(Items)
    BY <2>2, HeldType
  <2>5. \A fate \in {"retain", "moved"} : Sound([o EXCEPT !.at = "leaving", !.fate = fate])
    BY <1>2, <2>1, DrainSound
  <2>6. CASE Commit(h, k)
    <3>1. /\ Moves(h, k, p) /\ settled' = settled \cup {p.item}
          /\ file' = IF known[h] THEN Held(p) ELSE file
          /\ spent' = IF known[h] THEN spent ELSE spent \ {p.item}
          /\ UNCHANGED <<environment, known, accepted, started, marks>>
      BY <2>6 DEF Commit
    <3> HIDE DEF o, p
    <3>2. file' \in Seq(Items) /\ settled' \subseteq Items /\ started' \subseteq Items /\ spent' \subseteq Items
          /\ count' \in [Events -> Nat]
      BY <2>2, <2>3, <2>4, <3>1, TypesNow DEF environment
    <3> QED  BY <2>2, <3>1, <3>2, TypesStep DEF environment
  <2>7. CASE CommitFails(h, k)
    <3>1. /\ \/ /\ \E fate \in {"retain", "moved"} : Moves(h, k, [o EXCEPT !.at = "leaving", !.fate = fate])
                /\ UNCHANGED <<file, settled>>
             \/ Moves(h, k, p) /\ file' \in {file, Held(p)} /\ settled' = settled \cup {p.item}
          /\ spent' = spent \ {o.item}
          /\ UNCHANGED <<up, owner, known, accepted, started, marks>>
          /\ Mishap
      BY <2>7 DEF CommitFails
    <3>2. count' \in [Events -> Nat]
      BY <3>1, CountTypes DEF Mishap, Events, InboxTypes
    <3>3. PICK q : Sound(q) /\ Moves(h, k, q)
      BY <2>2, <2>5, <3>1
    <3> HIDE DEF o, p
    <3>4. file' \in Seq(Items) /\ settled' \subseteq Items /\ started' \subseteq Items /\ spent' \subseteq Items
      BY <2>2, <2>3, <2>4, <3>1, TypesNow
    <3> QED  BY <3>1, <3>2, <3>3, <3>4, TypesStep
  <2> QED  BY <1>7, <2>6, <2>7
<1>8. ASSUME Leave(h, k) PROVE InboxTypes'
  <2> DEFINE q == IF o.fate = "retain" /\ o.item \notin Range(o.queue) THEN Kept(o) ELSE o.queue
             after == [Dropped(o) EXCEPT !.queue = q, !.at = "resting"]
             again == IF o.fate = "terminal" THEN {} ELSE {o.item}
  <2>1. o.at # "off"
    BY <1>8 DEF Leave
  <2>2. o.item \in Items /\ o.queue \in Seq(Items)
    BY <1>2, <2>1, DrainSound, ManagedFields
  <2>3. Kept(o) \in Seq(Items)
    <3>1. <<o.item>> \in Seq(Items)
      BY <2>2
    <3> QED  BY <2>2, <3>1, Joined DEF Kept
  <2>4. q \in Seq(Items)
    BY <2>2, <2>3
  <2>5. Sound(after) /\ after \in Managed
    <3> HIDE DEF q
    <3> QED  BY <1>2, <2>1, <2>4, DrainSound DEF Sound
  <2>6. /\ Moves(h, k, after)
        /\ \/ spent' = spent \ again /\ UNCHANGED <<file, count>>
           \/ StoreSafely(h, after, {}, again)
        /\ UNCHANGED <<up, owner, known, accepted, settled, started>>
    <3>1. Dropped(o).queue = o.queue
      BY <1>2 DEF Dropped, Managed
    <3>2. after = [Dropped(o) EXCEPT !.queue = IF o.fate = "retain" /\ o.item \notin Range(@) THEN Kept(o) ELSE @,
                                     !.at = "resting"]
      BY <3>1
    <3> HIDE DEF after, again, q
    <3> QED  BY <1>8, <3>2 DEF Leave, again
  <2> HIDE DEF o, after, again
  <2>7. file' \in Seq(Items) /\ spent' \subseteq Items /\ count' \in [Events -> Nat]
    <3>1. CASE spent' = spent \ again /\ UNCHANGED <<file, count>>
      BY <3>1, TypesNow
    <3>2. CASE StoreSafely(h, after, {}, again)
      <4>1. {} \in SUBSET Items
        OBVIOUS
      <4> QED  BY <2>5, <3>2, <4>1, StoreTypes DEF InboxTypes
    <3> QED  BY <2>6, <3>1, <3>2
  <2> QED  BY <2>5, <2>6, <2>7, TypesNow, TypesStep
<1>9. ASSUME NextItem(h, k) PROVE InboxTypes'
  <2>1. o.queue # <<>> /\ Moves(h, k, Taken(o)) /\ StoreSafely(h, Taken(o), {}, {})
        /\ UNCHANGED <<up, owner, known, accepted, settled, started>>
    BY <1>9 DEF NextItem, Continues
  <2>2. Sound(Taken(o)) /\ Taken(o) \in Managed
    BY <1>2, <2>1, TakenType DEF Sound
  <2>3. {} \in SUBSET Items
    OBVIOUS
  <2>4. file' \in Seq(Items) /\ spent' \subseteq Items /\ count' \in [Events -> Nat]
    BY <2>1, <2>2, <2>3, StoreTypes DEF InboxTypes
  <2> HIDE DEF o
  <2> QED  BY <2>1, <2>2, <2>4, TypesNow, TypesStep
<1>10. ASSUME DrainEnds(h, k) PROVE InboxTypes'
  <2>1. o.at # "off" /\ Moves(h, k, [o EXCEPT !.at = "off"])
        /\ UNCHANGED <<environment, known, file, accepted, history>>
    BY <1>10 DEF DrainEnds
  <2>2. Sound([o EXCEPT !.at = "off"])
    BY <1>2, <2>1, DrainSound
  <2> HIDE DEF o
  <2> QED  BY <2>1, <2>2, TypesNow, TypesStep DEF environment, history
<1>11. ASSUME PresenceFails(h, k) PROVE InboxTypes'
  <2>1. /\ o.at # "off" /\ Moves(h, k, [o EXCEPT !.at = "off", !.stranded = TRUE])
        /\ UNCHANGED <<up, owner, known, file, accepted, history>>
        /\ Mishap
    BY <1>11 DEF PresenceFails, SaveFails
  <2>2. Sound([o EXCEPT !.at = "off", !.stranded = TRUE])
    BY <1>2, <2>1, DrainSound
  <2>3. count' \in [Events -> Nat]
    BY <2>1, CountTypes DEF Mishap, Events, InboxTypes
  <2> HIDE DEF o
  <2> QED  BY <2>1, <2>2, <2>3, TypesNow, TypesStep DEF history
<1> QED  BY <1>1, <1>3, <1>4, <1>5, <1>6, <1>7, <1>8, <1>9, <1>10, <1>11

LEMMA ToldTypes ==
  ASSUME InboxTypes, NEW h \in Hosts, Alive(h), Told(h)
  PROVE  /\ objects' \in [Hosts -> Seq(Managed)]
         /\ \A g \in Hosts : objects'[g] # <<>> <=> objects[g] # <<>>
         /\ \A g \in Hosts : \A j \in DOMAIN objects'[g] : Sound(objects'[g][j])
<1> DEFINE n == Len(objects[h])
           o == [objects[h][n] EXCEPT !.callers = {}]
<1>1. n \in DOMAIN objects[h] /\ Sound(objects[h][n])
  BY CurrentSound DEF InboxTypes
<1>3. Sound(o)
  <2>1. o \in Managed /\ o.at = objects[h][n].at /\ o.item = objects[h][n].item
    BY <1>1 DEF Sound, Managed
  <2> QED  BY <1>1, <2>1 DEF Sound
<1>4. objects' = [objects EXCEPT ![h][n] = o]
  BY DEF Told
<1> HIDE DEF n, o
<1> QED  BY <1>1, <1>3, <1>4, MoveTypes

\* What Reload keeps of a host's objects, and what it adds.
LEMMA ReloadTypes ==
  ASSUME InboxTypes, NEW h \in Hosts, Alive(h), Reload(h)
  PROVE  /\ objects' \in [Hosts -> Seq(Managed)]
         /\ \A g \in Hosts : objects'[g] # <<>> <=> objects[g] # <<>>
         /\ \A g \in Hosts : \A j \in DOMAIN objects'[g] : Sound(objects'[g][j])
<1> DEFINE s == objects[h]
           kept == IF Idle(Last(s)) THEN Front(s) ELSE s
           t == Append(kept, Loaded)
<1>1. s \in Seq(Managed) /\ s # <<>> /\ \A j \in DOMAIN s : Sound(s[j])
  BY TypesNow DEF InboxTypes
<1>2. Sound(Loaded) /\ Loaded \in Managed
  BY LoadedType DEF InboxTypes, Sound
<1>3. objects' = [objects EXCEPT ![h] = t]
  BY DEF Reload, Current
<1> HIDE DEF s, Loaded
<1>4. Front(s) \in Seq(Managed) /\ \A j \in DOMAIN Front(s) : j \in DOMAIN s /\ Front(s)[j] = s[j]
  BY <1>1 DEF Front
<1>5. kept \in Seq(Managed) /\ \A j \in DOMAIN kept : Sound(kept[j])
  BY <1>1, <1>4
<1> HIDE DEF kept
<1>6. t \in Seq(Managed) /\ t # <<>> /\ \A j \in DOMAIN t : (j \in DOMAIN kept /\ t[j] = kept[j]) \/ t[j] = Loaded
  BY <1>2, <1>5
<1> HIDE DEF t
<1>7. \A j \in DOMAIN t : Sound(t[j])
  BY <1>2, <1>5, <1>6
<1>8. /\ objects' \in [Hosts -> Seq(Managed)]
      /\ \A g \in Hosts : objects'[g] = (IF g = h THEN t ELSE objects[g])
      /\ \A g \in Hosts : \A j \in DOMAIN objects'[g] : Sound(objects'[g][j])
  BY <1>3, <1>6, <1>7, ReplaceTypes
<1> QED  BY <1>1, <1>6, <1>8 DEF s

LEMMA TypesRefresh ==
  ASSUME InboxTypes, NEW h \in Hosts, Refresh(h)
  PROVE  InboxTypes'
<1>1. /\ Alive(h) /\ known' = [known EXCEPT ![h] = owner = h]
      /\ Reload(h) \/ Told(h)
      /\ UNCHANGED <<environment, file, accepted, settled, started, spent>>
  BY DEF Refresh
<1>2. /\ objects' \in [Hosts -> Seq(Managed)]
      /\ \A g \in Hosts : objects'[g] # <<>> <=> objects[g] # <<>>
      /\ \A g \in Hosts : \A j \in DOMAIN objects'[g] : Sound(objects'[g][j])
  <2>1. CASE Reload(h)
    BY <1>1, <2>1, ReloadTypes
  <2>2. CASE Told(h)
    BY <1>1, <2>2, ToldTypes
  <2> QED  BY <1>1, <2>1, <2>2
<1>3. known' \in [Hosts -> BOOLEAN]
  BY <1>1 DEF InboxTypes, CoreTypes
<1>4. CoreTypes'
  BY <1>1, <1>2, <1>3 DEF InboxTypes, CoreTypes, environment
<1> QED  BY <1>1, <1>2, <1>4, TypesKept DEF environment

LEMMA TypesReloadAll ==
  ASSUME InboxTypes, NEW h \in Hosts, ReloadAll(h)
  PROVE  InboxTypes'
<1>1. /\ Alive(h) /\ Reload(h) /\ Mishap
      /\ UNCHANGED <<up, owner, known, file, accepted, settled, started, spent>>
  BY DEF ReloadAll, Alive
<1>2. /\ objects' \in [Hosts -> Seq(Managed)]
      /\ \A g \in Hosts : objects'[g] # <<>> <=> objects[g] # <<>>
      /\ \A g \in Hosts : \A j \in DOMAIN objects'[g] : Sound(objects'[g][j])
  BY <1>1, ReloadTypes
<1>3. count' \in [Events -> Nat]
  BY <1>1, CountTypes DEF Mishap, Events, InboxTypes
<1>4. CoreTypes'
  BY <1>1, <1>2, <1>3 DEF InboxTypes, CoreTypes, history
<1> QED  BY <1>1, <1>2, <1>4, TypesKept

LEMMA TypesMove ==
  ASSUME InboxTypes, NEW h \in Hosts, Move(h)
  PROVE  InboxTypes'
<1>1. /\ Mishap /\ owner' = h
      /\ UNCHANGED <<up, known, objects, file, accepted, settled, started, spent>>
  BY DEF Move
<1>2. count' \in [Events -> Nat]
  BY <1>1, CountTypes DEF Mishap, Events, InboxTypes
<1>3. CoreTypes'
  BY <1>1, <1>2 DEF InboxTypes, CoreTypes, history
<1>4. \A g \in Hosts : \A j \in DOMAIN objects'[g] : Sound(objects'[g][j])
  BY <1>1 DEF InboxTypes
<1> QED  BY <1>1, <1>3, <1>4, TypesKept

\* A host that starts or ends.
LEMMA TypesUp ==
  ASSUME InboxTypes, NEW h \in Hosts, NEW s \in Seq(Managed), \A j \in DOMAIN s : Sound(s[j]),
         NEW mode \in {"down", "up", "closing"}, mode = "down" <=> s = <<>>,
         up' = [up EXCEPT ![h] = mode], objects' = [objects EXCEPT ![h] = s],
         owner' \in Hosts, known' \in [Hosts -> BOOLEAN], file' \in Seq(Items),
         UNCHANGED <<accepted, settled, started>>, spent' \subseteq Items, count' \in [Events -> Nat]
  PROVE  InboxTypes'
<1>1. /\ objects' \in [Hosts -> Seq(Managed)]
      /\ \A g \in Hosts : objects'[g] = (IF g = h THEN s ELSE objects[g])
      /\ \A g \in Hosts : \A j \in DOMAIN objects'[g] : Sound(objects'[g][j])
  BY ReplaceTypes
<1>2. up' \in [Hosts -> {"down", "up", "closing"}] /\ \A g \in Hosts : up'[g] = (IF g = h THEN mode ELSE up[g])
  BY DEF InboxTypes, CoreTypes
<1>3. CoreTypes'
  BY <1>1, <1>2 DEF InboxTypes, CoreTypes
<1>4. \A g \in Hosts : Alive(g)' <=> objects'[g] # <<>>
  BY <1>1, <1>2 DEF InboxTypes, Alive
<1>5. \A g \in Hosts : \A j \in DOMAIN objects'[g] : Sound(objects[g][j])'
  BY <1>1 DEF Sound, Managed, Items
<1> QED  BY <1>3, <1>4, <1>5 DEF InboxTypes

LEMMA TypesStart ==
  ASSUME InboxTypes, NEW h \in Hosts, Start(h)
  PROVE  InboxTypes'
<1> DEFINE o == IF DrainsAtStart(h) THEN EnsureDrain("up", Loaded) ELSE Loaded
<1>1. /\ Happens("start", MaxStarts) /\ up' = [up EXCEPT ![h] = "up"]
      /\ known' = [known EXCEPT ![h] = owner = h]
      /\ objects' = [objects EXCEPT ![h] = <<o>>]
      /\ file' = IF o.at = "off" THEN file ELSE Held(o)
      /\ UNCHANGED <<owner, accepted, history>>
  BY DEF Start
<1>2. Sound(o) /\ o \in Managed
  <2>1. Sound(Loaded)
    BY LoadedType DEF InboxTypes
  <2>2. Sound(EnsureDrain("up", Loaded))
    BY <2>1, EnsureType
  <2> HIDE DEF Loaded, EnsureDrain
  <2> QED  BY <2>1, <2>2 DEF Sound
<1> HIDE DEF o
<1>3. <<o>> \in Seq(Managed) /\ <<o>> # <<>> /\ \A j \in DOMAIN <<o>> : Sound(<<o>>[j])
  BY <1>2
<1>4. Held(o) \in Seq(Items)
  BY <1>2, HeldType
<1>5. count' \in [Events -> Nat]
  BY <1>1, CountTypes DEF Mishap, Events, InboxTypes
<1>6. known' \in [Hosts -> BOOLEAN] /\ owner' \in Hosts
  BY <1>1 DEF InboxTypes, CoreTypes
<1>7. file' \in Seq(Items) /\ spent' \subseteq Items
  BY <1>1, <1>4, TypesNow DEF history
<1> DEFINE s == <<o>>
<1> HIDE DEF s
<1>8. s \in Seq(Managed) /\ s # <<>> /\ \A j \in DOMAIN s : Sound(s[j])
  BY <1>3 DEF s
<1>9. objects' = [objects EXCEPT ![h] = s]
  BY <1>1 DEF s
<1> QED  BY <1>1, <1>5, <1>6, <1>7, <1>8, <1>9, TypesUp DEF history

LEMMA TypesClose ==
  ASSUME InboxTypes, NEW h \in Hosts, Close(h)
  PROVE  InboxTypes'
<1>1. /\ up[h] = "up" /\ up' = [up EXCEPT ![h] = "closing"] /\ Told(h)
      /\ known' = [known EXCEPT ![h] = owner = h]
      /\ UNCHANGED <<owner, count, file, accepted, settled, started, spent>>
  BY DEF Close
<1>2. /\ objects' \in [Hosts -> Seq(Managed)]
      /\ \A g \in Hosts : objects'[g] # <<>> <=> objects[g] # <<>>
      /\ \A g \in Hosts : \A j \in DOMAIN objects'[g] : Sound(objects'[g][j])
  BY <1>1, ToldTypes DEF Alive
<1>3. up' \in [Hosts -> {"down", "up", "closing"}]
  BY <1>1 DEF InboxTypes, CoreTypes
<1>4. \A g \in Hosts : up'[g] = "down" <=> up[g] = "down"
  BY <1>1 DEF InboxTypes, CoreTypes
<1>5. CoreTypes'
  BY <1>1, <1>2, <1>3 DEF InboxTypes, CoreTypes
<1>6. \A g \in Hosts : Alive(g)' <=> objects'[g] # <<>>
  BY <1>2, <1>4 DEF InboxTypes, Alive
<1>7. \A g \in Hosts : \A j \in DOMAIN objects'[g] : Sound(objects[g][j])'
  BY <1>2 DEF Sound, Managed, Items
<1> QED  BY <1>5, <1>6, <1>7 DEF InboxTypes

LEMMA TypesEnd ==
  ASSUME InboxTypes, NEW h \in Hosts, CloseEnds(h) \/ HostCrashes(h)
  PROVE  InboxTypes'
<1>1. <<>> \in Seq(Managed) /\ \A j \in DOMAIN <<>> : Sound(<<>>[j])
  OBVIOUS
<1>2. /\ up' = [up EXCEPT ![h] = "down"] /\ known' = [known EXCEPT ![h] = FALSE]
      /\ objects' = [objects EXCEPT ![h] = <<>>]
      /\ UNCHANGED <<owner, accepted, settled, started>>
  BY DEF CloseEnds, HostCrashes
<1>3. owner' \in Hosts /\ known' \in [Hosts -> BOOLEAN]
  BY <1>2 DEF InboxTypes, CoreTypes
<1>4. file' \in Seq(Items) /\ spent' \subseteq Items /\ count' \in [Events -> Nat]
  <2>1. CASE CloseEnds(h)
    <3>1. Current(h) \in Managed /\ StoreSafely(h, Current(h), {}, {})
      BY <2>1, CurrentSound DEF CloseEnds, Alive
    <3>2. {} \in SUBSET Items
      OBVIOUS
    <3> QED  BY <3>1, <3>2, StoreTypes DEF InboxTypes
  <2>2. CASE HostCrashes(h)
    <3>1. file' = file /\ spent' \subseteq spent /\ Mishap
      BY <2>2 DEF HostCrashes
    <3>2. count' \in [Events -> Nat]
      BY <3>1, CountTypes DEF Mishap, Events, InboxTypes
    <3> QED  BY <3>1, <3>2, TypesNow
  <2> QED  BY <2>1, <2>2
<1> DEFINE s == <<>>
           mode == "down"
<1>5. s \in Seq(Managed) /\ (\A j \in DOMAIN s : Sound(s[j])) /\ mode \in {"down", "up", "closing"}
      /\ (mode = "down" <=> s = <<>>)
  BY <1>1
<1>6. up' = [up EXCEPT ![h] = mode] /\ objects' = [objects EXCEPT ![h] = s]
  BY <1>2
<1> HIDE DEF s, mode
<1> QED  BY <1>2, <1>3, <1>4, <1>5, <1>6, TypesUp

LEMMA TypesNext == InboxTypes /\ [InboxNext]_inboxVars => InboxTypes'
<1> SUFFICES ASSUME InboxTypes, [InboxNext]_inboxVars PROVE InboxTypes'
  OBVIOUS
<1>1. CASE UNCHANGED inboxVars
  <2>1. UNCHANGED <<up, owner, count, known, objects, file, accepted, settled, started, spent>>
    BY <1>1 DEF inboxVars, environment, history
  <2>2. CoreTypes'
    BY <2>1 DEF InboxTypes, CoreTypes
  <2>3. \A h \in Hosts : \A k \in DOMAIN objects'[h] : Sound(objects'[h][k])
    BY <2>1 DEF InboxTypes
  <2> QED  BY <2>1, <2>2, <2>3, TypesKept
<1>2. ASSUME NEW h \in Hosts,
             \/ Accept(h) \/ Withdraw(h) \/ Halt(h) \/ Drains(h)
             \/ Refresh(h) \/ ReloadAll(h) \/ Move(h)
             \/ Start(h) \/ Close(h) \/ CloseEnds(h) \/ HostCrashes(h)
      PROVE  InboxTypes'
  BY <1>2, TypesAccept, TypesWithdraw, TypesHalt, TypesDrains, TypesRefresh, TypesReloadAll,
     TypesMove, TypesStart, TypesClose, TypesEnd
<1> QED  BY <1>1, <1>2 DEF InboxNext

\* The marks are activations too: what objects held, and what others lacked.
MarkTypes == exposed \subseteq Items /\ adrift \subseteq Items

LEMMA HeldItems ==
  ASSUME InboxTypes, NEW h \in Hosts
  PROVE  /\ \A k \in DOMAIN objects[h] : Range(Held(objects[h][k])) \subseteq Items
         /\ HeldBy(h) \subseteq Items
         /\ Alive(h) => Range(Held(Current(h))) \subseteq Items
<1>1. ASSUME NEW k \in DOMAIN objects[h] PROVE Range(Held(objects[h][k])) \subseteq Items
  <2>1. Held(objects[h][k]) \in Seq(Items)
    BY HeldType, TypesNow DEF Sound
  <2> QED  BY <2>1 DEF Range
<1>2. HeldBy(h) \subseteq Items
  BY <1>1 DEF HeldBy
<1>3. Alive(h) => Range(Held(Current(h))) \subseteq Items
  BY <1>1, CurrentSound
<1> QED  BY <1>1, <1>2, <1>3

LEMMA MarksNext == InboxTypes /\ MarkTypes /\ [InboxNext]_inboxVars => MarkTypes'
<1> SUFFICES ASSUME InboxTypes, MarkTypes, [InboxNext]_inboxVars PROVE MarkTypes'
  OBVIOUS
<1>1. accepted \in 0..MaxItems /\ MaxItems \in Nat /\ owner \in Hosts
  BY InboxBounds DEF InboxTypes, CoreTypes
<1>2. \A o : Lacks(o) \subseteq Items
  BY <1>1 DEF Lacks, Unsettled, Items
<1>3. CASE UNCHANGED marks
  BY <1>3 DEF marks, MarkTypes
<1>4. ASSUME NEW h \in Hosts, Accept(h) PROVE MarkTypes'
  <2>1. /\ exposed' = exposed \cup (IF HasRival(h) THEN {accepted + 1} ELSE {})
                              \cup ({Current(h).inFlight} \ {EnsureDrain(up[h], [Current(h) EXCEPT
                                     !.queue = Append(IF Len(Current(h).queue) >= QueueLimit
                                                      THEN Tail(Current(h).queue) ELSE Current(h).queue, accepted + 1),
                                     !.callers = @ \cup {accepted + 1}]).inFlight, NoItem})
        /\ adrift' = adrift /\ accepted < MaxItems /\ Alive(h)
    BY <1>4 DEF Accept
  <2>2. Current(h).inFlight \in Items \cup {NoItem} /\ accepted + 1 \in Items
    BY <1>1, <2>1, CurrentSound, ManagedFields DEF Items
  <2>3. exposed' \subseteq exposed \cup {accepted + 1} \cup ({Current(h).inFlight} \ {NoItem})
    BY <2>1
  <2> QED  BY <2>1, <2>2, <2>3 DEF MarkTypes
<1>5. ASSUME NEW h \in Hosts, Withdraw(h) \/ Halt(h) \/ Start(h) \/ CloseEnds(h) \/ HostCrashes(h) PROVE MarkTypes'
  <2>1. UNCHANGED marks
    BY <1>5 DEF Withdraw, Halt, Start, CloseEnds, HostCrashes, history
  <2> QED  BY <1>3, <2>1
<1>6. ASSUME NEW h \in Hosts, Drains(h) PROVE MarkTypes'
  <2>1. PICK k \in DOMAIN objects[h] :
          \/ Begin(h, k) \/ Invalidate(h, k) \/ RunEnds(h, k) \/ Deliver(h, k)
          \/ Commit(h, k) \/ CommitFails(h, k) \/ Leave(h, k)
          \/ NextItem(h, k) \/ DrainEnds(h, k) \/ PresenceFails(h, k)
    BY <1>6 DEF Drains
  <2>2. CASE Leave(h, k)
    <3>1. adrift' = adrift /\ exposed' \subseteq exposed \cup {objects[h][k].item} /\ objects[h][k].at = "leaving"
      BY <2>2 DEF Leave
    <3>2. objects[h][k].item \in Items
      BY <3>1, TypesNow DEF Sound
    <3> QED  BY <3>1, <3>2 DEF MarkTypes
  <2>3. CASE ~Leave(h, k)
    <3>1. UNCHANGED marks
      BY <2>1, <2>3 DEF Begin, Invalidate, RunEnds, Deliver, Commit, CommitFails, NextItem, DrainEnds,
                        PresenceFails, history
    <3> QED  BY <1>3, <3>1
  <2> QED  BY <2>2, <2>3
<1>7. ASSUME NEW h \in Hosts, Refresh(h) \/ ReloadAll(h) PROVE MarkTypes'
  <2>1. Alive(h)
    BY <1>7 DEF Refresh, ReloadAll, Alive
  <2>2. UNCHANGED marks \/ (/\ adrift' \subseteq adrift \cup Range(Held(Current(h)))
                           /\ exposed' \subseteq exposed \cup UNION {Lacks(objects[h][k]) : k \in Busy(h)})
    BY <1>7 DEF Refresh, ReloadAll, Reload
  <2> QED  BY <1>2, <1>3, <2>1, <2>2, HeldItems DEF MarkTypes
<1>8. ASSUME NEW h \in Hosts, Move(h) PROVE MarkTypes'
  BY <1>1, <1>8, HeldItems DEF Move, MarkTypes
<1>9. ASSUME NEW h \in Hosts, Close(h) PROVE MarkTypes'
  <2>1. Alive(h) /\ (UNCHANGED marks \/ Acquired(h))
    BY <1>9 DEF Close, Alive
  <2>2. CASE Acquired(h)
    BY <1>2, <2>1, <2>2, HeldItems DEF Acquired, MarkTypes
  <2> QED  BY <1>3, <2>1, <2>2
<1>10. CASE UNCHANGED inboxVars
  BY <1>3, <1>10 DEF inboxVars, history
<1> QED  BY <1>4, <1>5, <1>6, <1>7, <1>8, <1>9, <1>10 DEF InboxNext

\* The queue, the activation in flight and the place of a drain fit together in every
\* managed object of every host (ManagedAgent), a host has objects exactly while its process
\* lives, and the file holds activations only; whatever the environment does.
THEOREM InboxTypeCorrect == InboxSpec => []InboxTypeOK
<1>1. InboxInit => InboxTypes /\ MarkTypes
  BY TypesInit DEF InboxInit, MarkTypes
<1>2. InboxTypes /\ MarkTypes /\ [InboxNext]_inboxVars => (InboxTypes /\ MarkTypes)'
  BY TypesNext, MarksNext
<1>3. InboxTypes /\ MarkTypes => InboxTypeOK
  BY DEF InboxTypes, CoreTypes, MarkTypes, InboxTypeOK
<1> QED  BY <1>1, <1>2, <1>3, PTL DEF InboxSpec

(***************************************************************************)
(* A queue q with the activation x in flight: in order, among the n that  *)
(* were accepted, and within what is loaded again.  The file is such a    *)
(* queue with nothing in flight.                                          *)
(***************************************************************************)
HeldSet(q, x) == Range(q) \cup ({x} \ {NoItem})

Proper(q, x, n) ==
  /\ Sorted(q)
  /\ HeldSet(q, x) \subseteq 1..n
  /\ x # NoItem => \A y \in Range(q) : x < y
  /\ Len(q) + (IF x = NoItem THEN 0 ELSE 1) <= QueueLimit + 1

LEMMA HeldProper ==
  ASSUME NEW o \in Managed, NEW n, Proper(o.queue, o.inFlight, n)
  PROVE  /\ Proper(Held(o), NoItem, n)
         /\ Range(Held(o)) = HeldSet(o.queue, o.inFlight)
<1> DEFINE q == o.queue
           x == o.inFlight
<1>1. q \in Seq(Items) /\ x \in Items \cup {NoItem} /\ Items \in SUBSET Nat /\ NoItem \notin Items
  BY ManagedFields, ItemsAreNumbers
<1>2. Held(o) = (IF x = NoItem THEN <<>> ELSE <<x>>) \o q
  BY DEF Held
<1>3. Proper(q, x, n)
  OBVIOUS
<1> HIDE DEF q, x
<1>4. CASE x = NoItem
  <2>1. Held(o) = q
    BY <1>1, <1>2, <1>4
  <2> QED  BY <1>3, <1>4, <2>1 DEF HeldSet, q, x
<1>5. CASE x # NoItem
  <2>1. Held(o) = <<x>> \o q
    BY <1>2, <1>5
  <2>2. Sorted(q) /\ (\A y \in Range(q) : x < y) /\ x \in Items
    BY <1>1, <1>3, <1>5 DEF Proper
  <2>3. /\ Sorted(<<x>> \o q) /\ Len(<<x>> \o q) = Len(q) + 1
        /\ Range(<<x>> \o q) = Range(q) \cup {x}
    BY <1>1, <2>2, SortedCons
  <2>4. Range(Held(o)) = HeldSet(q, x) /\ HeldSet(Held(o), NoItem) = HeldSet(q, x)
    BY <1>5, <2>1, <2>3 DEF HeldSet
  <2>5. Len(Held(o)) <= QueueLimit + 1
    BY <1>3, <1>5, <2>1, <2>3 DEF Proper
  <2>6. Len(Held(o)) \in Nat
    BY <1>1, <2>1, <2>3
  <2>7. Len(Held(o)) + 0 <= QueueLimit + 1
    BY <2>5, <2>6
  <2> QED  BY <1>3, <2>1, <2>3, <2>4, <2>7 DEF Proper, q, x
<1> QED  BY <1>4, <1>5

\* The drain takes the first activation off the queue.
LEMMA TakenProper ==
  ASSUME NEW q \in Seq(Items), q # <<>>, NEW n, Proper(q, NoItem, n)
  PROVE  /\ Proper(Tail(q), Head(q), n)
         /\ HeldSet(Tail(q), Head(q)) = HeldSet(q, NoItem)
         /\ Head(q) \in Range(q) /\ Head(q) # NoItem
<1>1. Items \in SUBSET Nat /\ NoItem \notin Items /\ Sorted(q)
  BY ItemsAreNumbers DEF Proper
<1>2. /\ Head(q) \in Items /\ Sorted(Tail(q)) /\ Len(Tail(q)) = Len(q) - 1
      /\ Range(q) = {Head(q)} \cup Range(Tail(q)) /\ \A y \in Range(Tail(q)) : Head(q) < y
  BY <1>1, SortedHead
<1>3. Head(q) # NoItem
  BY <1>1, <1>2
<1>4. HeldSet(Tail(q), Head(q)) = HeldSet(q, NoItem)
  BY <1>2, <1>3 DEF HeldSet
<1>5. Len(Tail(q)) + 1 <= QueueLimit + 1
  <2>1. Len(q) \in Nat
    OBVIOUS
  <2> QED  BY <1>2, <2>1 DEF Proper
<1> QED  BY <1>2, <1>3, <1>4, <1>5 DEF Proper

\* The activation in flight is over.
LEMMA EndedProper ==
  ASSUME NEW q \in Seq(Items), NEW x \in Items, NEW n, Proper(q, x, n)
  PROVE  /\ Proper(q, NoItem, n)
         /\ HeldSet(q, NoItem) = HeldSet(q, x) \ {x}
         /\ x \in HeldSet(q, x)
<1>1. Items \in SUBSET Nat /\ NoItem \notin Items /\ x # NoItem /\ x \in Nat
  BY ItemsAreNumbers
<1>2. x \notin Range(q)
  BY <1>1 DEF Proper
<1>3. HeldSet(q, NoItem) = HeldSet(q, x) \ {x} /\ x \in HeldSet(q, x)
  BY <1>1, <1>2 DEF HeldSet
<1>4. Len(q) + 0 <= QueueLimit + 1
  <2>1. Len(q) \in Nat /\ QueueLimit \in Nat
    BY QueueAssumption
  <2> QED  BY <1>1, <2>1 DEF Proper
<1> QED  BY <1>3, <1>4 DEF Proper

\* The activation in flight comes back to the head of the queue.
LEMMA KeptProper ==
  ASSUME NEW q \in Seq(Items), NEW x \in Items, NEW n, Proper(q, x, n)
  PROVE  /\ <<x>> \o q \in Seq(Items)
         /\ Proper(<<x>> \o q, NoItem, n)
         /\ HeldSet(<<x>> \o q, NoItem) = HeldSet(q, x)
         /\ x \notin Range(q)
<1>1. Items \in SUBSET Nat /\ NoItem \notin Items /\ x # NoItem /\ x \in Nat
  BY ItemsAreNumbers
<1>2. Sorted(q) /\ \A y \in Range(q) : x < y
  BY <1>1 DEF Proper
<1>3. /\ <<x>> \o q \in Seq(Items) /\ Sorted(<<x>> \o q) /\ Len(<<x>> \o q) = Len(q) + 1
      /\ Range(<<x>> \o q) = Range(q) \cup {x}
  BY <1>1, <1>2, SortedCons
<1>4. HeldSet(<<x>> \o q, NoItem) = HeldSet(q, x)
  BY <1>1, <1>3 DEF HeldSet
<1>5. Len(<<x>> \o q) + 0 <= QueueLimit + 1
  <2>1. Len(q) \in Nat
    OBVIOUS
  <2> QED  BY <1>1, <1>3, <2>1 DEF Proper
<1>6. x \notin Range(q)
  BY <1>1, <1>2
<1> QED  BY <1>3, <1>4, <1>5, <1>6 DEF Proper

\* An activation is withdrawn from the queue.
LEMMA WithdrawnProper ==
  ASSUME NEW q \in Seq(Items), NEW x \in Items \cup {NoItem}, NEW n, Proper(q, x, n),
         NEW i \in DOMAIN q
  PROVE  /\ RemoveAt(q, i) \in Seq(Items)
         /\ Proper(RemoveAt(q, i), x, n)
         /\ HeldSet(RemoveAt(q, i), x) = HeldSet(q, x) \ {q[i]}
         /\ q[i] \in HeldSet(q, x)
<1>1. Items \in SUBSET Nat /\ NoItem \notin Items /\ Sorted(q) /\ q[i] \in Items
  BY ItemsAreNumbers DEF Proper
<1>2. /\ RemoveAt(q, i) \in Seq(Items) /\ Sorted(RemoveAt(q, i)) /\ Len(RemoveAt(q, i)) = Len(q) - 1
      /\ Range(RemoveAt(q, i)) = Range(q) \ {q[i]}
  BY <1>1, SortedRemoveAt
<1>3. q[i] \in Range(q)
  BY InRange
<1>4. q[i] # x
  BY <1>1, <1>3 DEF Proper
<1>5. HeldSet(RemoveAt(q, i), x) = HeldSet(q, x) \ {q[i]} /\ q[i] \in HeldSet(q, x)
  BY <1>2, <1>3, <1>4 DEF HeldSet
<1>6. Len(RemoveAt(q, i)) + (IF x = NoItem THEN 0 ELSE 1) <= QueueLimit + 1
  <2>1. Len(q) \in Nat /\ QueueLimit \in Nat
    BY QueueAssumption
  <2> QED  BY <1>2, <2>1 DEF Proper
<1> QED  BY <1>2, <1>5, <1>6 DEF Proper

\* The queue is cancelled.
LEMMA CancelledProper ==
  ASSUME NEW q \in Seq(Items), NEW x \in Items \cup {NoItem}, NEW n, Proper(q, x, n)
  PROVE  /\ Proper(<<>>, x, n)
         /\ HeldSet(<<>>, x) = HeldSet(q, x) \ Range(q)
<1>1. Items \in SUBSET Nat /\ NoItem \notin Items
  BY ItemsAreNumbers
<1>2. x \notin Range(q)
  <2>1. \A j \in DOMAIN q : q[j] \in Items
    OBVIOUS
  <2>2. Range(q) \subseteq Items
    BY <2>1 DEF Range
  <2> QED  BY <1>1, <2>2 DEF Proper
<1>3. Range(<<>>) = {} /\ Sorted(<<>>) /\ Len(<<>>) = 0
  BY DEF Range, Sorted
<1>4. HeldSet(<<>>, x) = HeldSet(q, x) \ Range(q)
  BY <1>2, <1>3 DEF HeldSet
<1>5. Len(<<>>) + (IF x = NoItem THEN 0 ELSE 1) <= QueueLimit + 1
  BY <1>3, QueueAssumption
<1> QED  BY <1>3, <1>4, <1>5 DEF Proper

Shorter(q) == IF Len(q) >= QueueLimit THEN Tail(q) ELSE q
Displaced(q) == IF Len(q) >= QueueLimit THEN {Head(q)} ELSE {}

\* An activation is accepted: when the queue is full its first one gives way.
LEMMA AcceptedProper ==
  ASSUME NEW q \in Seq(Items), NEW x \in Items \cup {NoItem}, NEW n \in Nat, Proper(q, x, n),
         n + 1 \in Items
  PROVE  /\ Append(Shorter(q), n + 1) \in Seq(Items)
         /\ Proper(Append(Shorter(q), n + 1), x, n + 1)
         /\ HeldSet(Append(Shorter(q), n + 1), x) = (HeldSet(q, x) \ Displaced(q)) \cup {n + 1}
         /\ Displaced(q) \subseteq 1..n /\ Append(Shorter(q), n + 1) # <<>>
<1> DEFINE room == Shorter(q)
           dropped == Displaced(q)
<1>1. Items \in SUBSET Nat /\ NoItem \notin Items /\ Sorted(q) /\ QueueLimit \in Nat \ {0} /\ Len(q) \in Nat
  BY ItemsAreNumbers, QueueAssumption DEF Proper
<1>2. Len(q) >= QueueLimit => q # <<>>
  BY <1>1
<1>3. /\ room \in Seq(Items) /\ Sorted(room) /\ Range(room) = Range(q) \ dropped
      /\ dropped \subseteq Range(q)
      /\ Len(room) = (IF Len(q) < QueueLimit THEN Len(q) ELSE Len(q) - 1)
  <2>1. CASE Len(q) < QueueLimit
    BY <1>1, <2>1 DEF Shorter, Displaced
  <2>2. CASE Len(q) >= QueueLimit
    <3>1. /\ Head(q) \in Items /\ Tail(q) \in Seq(Items) /\ Sorted(Tail(q)) /\ Len(Tail(q)) = Len(q) - 1
          /\ Range(q) = {Head(q)} \cup Range(Tail(q)) /\ \A y \in Range(Tail(q)) : Head(q) < y
      BY <1>1, <1>2, <2>2, SortedHead
    <3>2. Head(q) \notin Range(Tail(q))
      <4>1. Head(q) \in Nat
        BY <1>1, <3>1
      <4>2. ~(Head(q) < Head(q))
        BY <4>1
      <4> QED  BY <3>1, <4>2
    <3>3. Range(Tail(q)) = Range(q) \ {Head(q)} /\ Head(q) \in Range(q)
      BY <3>1, <3>2
    <3>4. room = Tail(q) /\ dropped = {Head(q)} /\ ~(Len(q) < QueueLimit)
      BY <1>1, <2>2 DEF Shorter, Displaced
    <3> QED  BY <3>1, <3>3, <3>4
  <2> QED  BY <1>1, <2>1, <2>2
<1> HIDE DEF room, dropped
<1>4. Range(q) \subseteq 1..n /\ HeldSet(q, x) \subseteq 1..n
  BY DEF Proper, HeldSet
<1>5. \A y \in Range(room) : y < n + 1
  BY <1>3, <1>4
<1>6. /\ Append(room, n + 1) \in Seq(Items) /\ Sorted(Append(room, n + 1))
      /\ Len(Append(room, n + 1)) = Len(room) + 1 /\ Append(room, n + 1) # <<>>
      /\ Range(Append(room, n + 1)) = Range(room) \cup {n + 1}
  BY <1>1, <1>3, <1>5, SortedAppend
<1>7. x \notin dropped
  <2>1. CASE x = NoItem
    BY <1>3, <1>4, <2>1, ItemAssumption
  <2>2. CASE x # NoItem
    <3>1. x \in Nat /\ \A y \in Range(q) : x < y
      BY <1>1, <2>2 DEF Proper
    <3>2. ~(x < x)
      BY <3>1
    <3> QED  BY <1>3, <3>1, <3>2
  <2> QED  BY <2>1, <2>2
<1>8. HeldSet(Append(room, n + 1), x) = (HeldSet(q, x) \ dropped) \cup {n + 1}
  BY <1>3, <1>6, <1>7 DEF HeldSet
<1>9. x # NoItem => \A y \in Range(Append(room, n + 1)) : x < y
  <2> SUFFICES ASSUME x # NoItem, NEW y \in Range(Append(room, n + 1)) PROVE x < y
    OBVIOUS
  <2>1. x \in 1..n
    BY <1>4 DEF HeldSet
  <2>2. y \in Range(q) \/ y = n + 1
    BY <1>3, <1>6
  <2> QED  BY <2>1, <2>2 DEF Proper
<1>10. Len(Append(room, n + 1)) + (IF x = NoItem THEN 0 ELSE 1) <= QueueLimit + 1
  BY <1>1, <1>3, <1>6 DEF Proper
<1>11. HeldSet(Append(room, n + 1), x) \subseteq 1..(n + 1)
  BY <1>4, <1>8
<1> QED  BY <1>3, <1>4, <1>6, <1>8, <1>9, <1>10, <1>11 DEF Proper, room, dropped

LEMMA LoadedProper ==
  ASSUME InboxTypes, NEW n, Proper(file, NoItem, n)
  PROVE  Loaded.queue = file /\ Loaded.inFlight = NoItem
<1>1. file \in Seq(Items) /\ QueueLimit + 1 \in Nat /\ Len(file) \in Nat
  BY QueueAssumption DEF InboxTypes, CoreTypes
<1>2. Len(file) <= QueueLimit + 1
  BY <1>1 DEF Proper
<1>3. Restored(file) = file
  BY <1>1, <1>2, WholePrefix DEF Restored
<1> QED  BY <1>3, LoadedType DEF InboxTypes

(***************************************************************************)
(* The invariant.  What is owed is in the file and in every object that    *)
(* may write it; an object that lives on is the owner's current one or     *)
(* holds only what is adrift; and what must not run again is in the file   *)
(* only while the owner's current object has it in flight.                 *)
(***************************************************************************)
Has(o) == HeldSet(o.queue, o.inFlight)

Owed == 1..accepted \ (settled \cup exposed)
Over == spent \ adrift

\* Where the drain is with the activation in flight.
PlaceOK(o) ==
  /\ o.at \in {"starting", "running", "delivering", "committing"} => o.inFlight = o.item
  /\ o.at = "leaving" => \/ o.fate = "terminal" /\ o.inFlight = NoItem
                         \/ o.fate \in {"retain", "moved"} /\ o.inFlight = o.item
  /\ o.at = "resting" => o.inFlight = NoItem

\* What the drain has begun and not put away.
Underway(o) ==
  IF o.at \in {"running", "delivering", "committing", "leaving"} THEN {o.inFlight} \ {NoItem} ELSE {}

Fits(o, n) == PlaceOK(o) /\ Proper(o.queue, o.inFlight, n)

\* What is about to begin has nothing of W before it.
GoesFirst(o, W) == o.at = "starting" => W \cap 1..(o.item - 1) = {}

\* Of what F and o hold, only what is under way is in D.
Covers(o, F, D) == (F \cup Has(o)) \cap D \subseteq Underway(o)

\* The object may change yet, or write the inbox once its host believes that it is the owner.
Live(h, k) == ~Idle(objects[h][k]) \/ (known[h] /\ k = Len(objects[h]))
Primary(h, k) == h = owner /\ known[h] /\ k = Len(objects[h])

ObjectInv(h, k) ==
  /\ Fits(objects[h][k], accepted)
  /\ GoesFirst(objects[h][k], Owed)
  /\ known[h] /\ Live(h, k) => Owed \subseteq Has(objects[h][k])
  /\ Live(h, k) => Primary(h, k) \/ Has(objects[h][k]) \subseteq adrift

FileInv ==
  /\ Proper(file, NoItem, accepted) /\ Owed \subseteq Range(file)
  /\ settled \subseteq 1..accepted /\ spent \subseteq 1..accepted

SpentInv ==
  IF known[owner] THEN Covers(Current(owner), Range(file), Over) ELSE Range(file) \cap Over = {}

StateInv ==
  /\ \A h \in Hosts : known[h] => Alive(h)
  /\ \A h \in Hosts : \A k \in DOMAIN objects[h] : ObjectInv(h, k)
  /\ FileInv /\ SpentInv

InboxInv == InboxTypes /\ MarkTypes /\ StateInv

LEMMA StateInit == InboxInit => StateInv
<1> SUFFICES ASSUME InboxInit PROVE StateInv
  OBVIOUS
<1>1. Range(file) = {} /\ Sorted(file) /\ Len(file) + 0 <= QueueLimit + 1
  BY QueueAssumption DEF InboxInit, Range, Sorted
<1>2. Owed = {} /\ settled = {} /\ spent = {}
  BY DEF InboxInit, Owed
<1>3. FileInv
  BY <1>1, <1>2 DEF FileInv, Proper, HeldSet
<1>4. owner \in Hosts /\ \A h \in Hosts : ~known[h] /\ objects[h] = <<>>
  BY DEF InboxInit
<1>5. SpentInv
  <2>1. Range(file) \cap Over = {} /\ ~known[owner]
    BY <1>1, <1>4
  <2> QED  BY <2>1 DEF SpentInv
<1> QED  BY <1>3, <1>4, <1>5 DEF StateInv

LEMMA HeldIs ==
  ASSUME NEW o \in Managed, NEW n, Fits(o, n)
  PROVE  /\ Range(Held(o)) = Has(o) /\ Has(o) \subseteq 1..n
         /\ Proper(Held(o), NoItem, n) /\ NoItem \notin Has(o)
<1>1. Range(Held(o)) = Has(o) /\ Proper(Held(o), NoItem, n)
  BY HeldProper DEF Fits, Has
<1>2. Has(o) \subseteq 1..n
  BY DEF Fits, Has, Proper
<1>3. NoItem \notin Has(o)
  <2>1. o.queue \in Seq(Items) /\ NoItem \notin Items
    BY ManagedFields, ItemsAreNumbers
  <2>2. \A i \in DOMAIN o.queue : o.queue[i] \in Items
    BY <2>1
  <2> QED  BY <2>1, <2>2 DEF Has, HeldSet, Range
<1> QED  BY <1>1, <1>2, <1>3

\* The facts about one object.
LEMMA ObjectNow ==
  ASSUME InboxInv, NEW h \in Hosts, NEW k \in DOMAIN objects[h]
  PROVE  /\ Sound(objects[h][k]) /\ objects[h][k] \in Managed
         /\ objects[h][k].queue \in Seq(Items) /\ objects[h][k].inFlight \in Items \cup {NoItem}
         /\ objects[h][k].at # "off" => objects[h][k].item \in Items
         /\ ObjectInv(h, k) /\ Fits(objects[h][k], accepted) /\ PlaceOK(objects[h][k])
         /\ Proper(objects[h][k].queue, objects[h][k].inFlight, accepted)
         /\ Range(Held(objects[h][k])) = Has(objects[h][k]) /\ Has(objects[h][k]) \subseteq 1..accepted
         /\ NoItem \notin Has(objects[h][k])
         /\ Alive(h) /\ Len(objects[h]) \in DOMAIN objects[h]
         /\ Current(h) = objects[h][Len(objects[h])]
<1>1. Sound(objects[h][k]) /\ objects[h][k] \in Managed /\ (objects[h][k].at # "off" => objects[h][k].item \in Items)
  BY DEF InboxInv, InboxTypes, Sound
<1>2. objects[h][k].queue \in Seq(Items) /\ objects[h][k].inFlight \in Items \cup {NoItem}
  BY <1>1, ManagedFields
<1>3. ObjectInv(h, k) /\ Fits(objects[h][k], accepted)
  BY DEF InboxInv, StateInv, ObjectInv
<1>4. PlaceOK(objects[h][k]) /\ Proper(objects[h][k].queue, objects[h][k].inFlight, accepted)
  BY <1>3 DEF Fits
<1>5. /\ Range(Held(objects[h][k])) = Has(objects[h][k]) /\ Has(objects[h][k]) \subseteq 1..accepted
      /\ NoItem \notin Has(objects[h][k])
  BY <1>1, <1>3, HeldIs
<1>6. Alive(h)
  <2>1. objects[h] # <<>>
    OBVIOUS
  <2> QED  BY <2>1 DEF InboxInv, InboxTypes
<1> QED  BY <1>1, <1>2, <1>3, <1>4, <1>5, <1>6, CurrentSound DEF InboxInv

\* The facts about the rest.
LEMMA StateNow ==
  ASSUME InboxInv
  PROVE  /\ accepted \in Nat /\ accepted \in 0..MaxItems /\ owner \in Hosts
         /\ known \in [Hosts -> BOOLEAN] /\ objects \in [Hosts -> Seq(Managed)]
         /\ up \in [Hosts -> {"down", "up", "closing"}]
         /\ file \in Seq(Items) /\ Proper(file, NoItem, accepted) /\ Owed \subseteq Range(file)
         /\ settled \subseteq 1..accepted /\ spent \subseteq 1..accepted
         /\ InboxTypes
         /\ \A h \in Hosts : known[h] => Alive(h)
         /\ \A h \in Hosts : Alive(h) => Len(objects[h]) \in DOMAIN objects[h]
<1>1. InboxTypes /\ StateInv /\ FileInv
  BY DEF InboxInv, StateInv
<1>2. accepted \in Nat /\ accepted \in 0..MaxItems
  BY <1>1, InboxBounds DEF InboxTypes, CoreTypes
<1>3. /\ owner \in Hosts /\ file \in Seq(Items) /\ known \in [Hosts -> BOOLEAN] /\ objects \in [Hosts -> Seq(Managed)]
      /\ up \in [Hosts -> {"down", "up", "closing"}]
  BY <1>1 DEF InboxTypes, CoreTypes
<1>4. \A h \in Hosts : known[h] => Alive(h)
  BY <1>1 DEF StateInv
<1>5. \A h \in Hosts : Alive(h) => Len(objects[h]) \in DOMAIN objects[h]
  BY <1>1, CurrentSound
<1>6. /\ Proper(file, NoItem, accepted) /\ Owed \subseteq Range(file)
      /\ settled \subseteq 1..accepted /\ spent \subseteq 1..accepted
  BY <1>1 DEF FileInv
<1> QED  BY <1>1, <1>2, <1>3, <1>4, <1>5, <1>6

LEMMA FitsMore ==
  ASSUME NEW o, NEW n \in Nat, NEW m \in Nat, n <= m, Fits(o, n)
  PROVE  Fits(o, m)
<1>1. 1..n \subseteq 1..m
  OBVIOUS
<1> QED  BY <1>1 DEF Fits, Proper

\* An object that a step leaves alone, or of which it changes only who listens.
LEMMA Undisturbed ==
  ASSUME InboxInv, NEW h \in Hosts, NEW k \in DOMAIN objects[h], NEW j,
         objects'[h][j].queue = objects[h][k].queue, objects'[h][j].inFlight = objects[h][k].inFlight,
         objects'[h][j].item = objects[h][k].item, objects'[h][j].at = objects[h][k].at,
         objects'[h][j].fate = objects[h][k].fate,
         accepted' \in Nat, accepted <= accepted',
         Owed' \subseteq Owed \cup {n \in Nat : n > accepted},
         known'[h] /\ Live(h, j)' => Owed' \subseteq Has(objects[h][k]),
         Live(h, j)' => Primary(h, j)' \/ Has(objects[h][k]) \subseteq adrift'
  PROVE  ObjectInv(h, j)'
<1> DEFINE o == objects[h][k]
<1>1. /\ Fits(o, accepted) /\ GoesFirst(o, Owed) /\ PlaceOK(o) /\ Has(o) \subseteq 1..accepted
      /\ o.at # "off" => o.item \in Items
      /\ NoItem \notin Has(o) /\ accepted \in Nat
  BY ObjectNow, StateNow DEF ObjectInv
<1>2. PICK p : p = objects'[h][j]
  OBVIOUS
<1> HIDE DEF o
<1>3. p.queue = o.queue /\ p.inFlight = o.inFlight /\ p.item = o.item /\ p.at = o.at /\ p.fate = o.fate
  BY <1>2 DEF o
<1>4. Fits(o, accepted')
  BY <1>1, FitsMore
<1>5. Fits(p, accepted')
  BY <1>3, <1>4 DEF Fits, PlaceOK
<1>6. Has(p) = Has(o)
  BY <1>3 DEF Has
<1>7. GoesFirst(p, Owed')
  <2> SUFFICES ASSUME p.at = "starting" PROVE Owed' \cap 1..(p.item - 1) = {}
    BY DEF GoesFirst
  <2>1. Owed \cap 1..(o.item - 1) = {} /\ o.inFlight = o.item /\ o.item \in Items
    BY <1>1, <1>3 DEF GoesFirst, PlaceOK
  <2>2. o.item \in 1..accepted
    <3>1. o.item # NoItem
      BY <2>1, ItemsAreNumbers
    <3>2. o.item \in Has(o)
      BY <2>1, <3>1 DEF Has, HeldSet
    <3> QED  BY <1>1, <3>2
  <2> QED  BY <1>1, <1>3, <2>1, <2>2
<1>8. known'[h] /\ Live(h, j)' => Owed' \subseteq Has(p)
  BY <1>6 DEF o
<1>9. Live(h, j)' => Primary(h, j)' \/ Has(p) \subseteq adrift'
  BY <1>6 DEF o
<1> QED  BY <1>2, <1>5, <1>7, <1>8, <1>9 DEF ObjectInv

\* An object is put in its place.
LEMMA PutInv ==
  ASSUME NEW h \in Hosts, NEW j, NEW p, objects'[h][j] = p,
         Fits(p, accepted'), GoesFirst(p, Owed'),
         known'[h] /\ Live(h, j)' => Owed' \subseteq Has(p),
         Live(h, j)' => Primary(h, j)' \/ Has(p) \subseteq adrift'
  PROVE  ObjectInv(h, j)'
BY DEF ObjectInv
\* One object of a living host changes.
LEMMA OneChanges ==
  ASSUME InboxInv, NEW h \in Hosts, NEW k \in DOMAIN objects[h], NEW p \in Managed,
         objects' = [objects EXCEPT ![h][k] = p]
  PROVE  /\ objects'[h][k] = p
         /\ \A g \in Hosts : DOMAIN objects'[g] = DOMAIN objects[g] /\ Len(objects'[g]) = Len(objects[g])
         /\ \A g \in Hosts : \A j \in DOMAIN objects[g] :
              ~(g = h /\ j = k) => objects'[g][j] = objects[g][j]
<1>1. objects \in [Hosts -> Seq(Managed)] /\ objects[h] \in Seq(Managed)
  BY StateNow
<1> DEFINE s == [objects[h] EXCEPT ![k] = p]
<1>2. s \in Seq(Managed) /\ DOMAIN s = DOMAIN objects[h] /\ Len(s) = Len(objects[h])
      /\ \A j \in DOMAIN s : s[j] = (IF j = k THEN p ELSE objects[h][j])
  BY <1>1
<1>3. objects' = [objects EXCEPT ![h] = s]
  BY <1>1
<1> HIDE DEF s
<1>4. \A g \in Hosts : objects'[g] = (IF g = h THEN s ELSE objects[g])
  BY <1>1, <1>3
<1> QED  BY <1>2, <1>4

\* The step of one object, p, through which its host may write the inbox if it believes
\* that it is the owner.
LEMMA ObjectStep ==
  ASSUME InboxInv, NEW h \in Hosts, NEW k \in DOMAIN objects[h], Live(h, k),
         NEW p \in Managed, objects' = [objects EXCEPT ![h][k] = p],
         UNCHANGED <<up, owner, known, adrift>>,
         accepted' \in Nat, accepted <= accepted',
         Fits(p, accepted'), GoesFirst(p, Owed'),
         Owed' \subseteq Owed \cup {n \in Nat : n > accepted},
         known[h] => Owed' \subseteq Has(p),
         \A g \in Hosts : \A j \in DOMAIN objects[g] :
           known[g] /\ Live(g, j) /\ ~(g = h /\ j = k) => Owed' \subseteq Owed,
         Primary(h, k) \/ Has(p) \subseteq Has(objects[h][k]),
         FileInv',
         Primary(h, k) => Covers(p, Range(file'), Over'),
         ~Primary(h, k) => Range(file') \cap Over' \subseteq Range(file) \cap Over
                           /\ Over' \subseteq Over
  PROVE  StateInv'
<1>0. ObjectInv(h, k) /\ Alive(h)
  BY ObjectNow
<1>1. /\ objects'[h][k] = p
      /\ \A g \in Hosts : DOMAIN objects'[g] = DOMAIN objects[g] /\ Len(objects'[g]) = Len(objects[g])
      /\ \A g \in Hosts : \A j \in DOMAIN objects[g] :
           ~(g = h /\ j = k) => objects'[g][j] = objects[g][j]
  BY OneChanges, ZenonT(60)
<1>2. /\ known' = known /\ owner' = owner /\ adrift' = adrift
      /\ \A g \in Hosts : known[g] => Alive(g)'
  BY StateNow DEF Alive
<1>3. ASSUME NEW g \in Hosts, NEW j \in DOMAIN objects[g] PROVE Primary(g, j)' <=> Primary(g, j)
  BY <1>1, <1>2 DEF Primary
<1>4. ASSUME NEW g \in Hosts, NEW j \in DOMAIN objects'[g] PROVE ObjectInv(g, j)'
  <2>0. j \in DOMAIN objects[g]
    BY <1>1
  <2>1. CASE g = h /\ j = k
    <3>1. Primary(h, k) \/ Has(objects[h][k]) \subseteq adrift
      BY <1>0 DEF ObjectInv
    <3>2. Primary(h, k)' \/ Has(p) \subseteq adrift'
      BY <1>2, <1>3, <3>1
    <3>3. ObjectInv(h, k)'
      BY <1>1, <1>2, <3>2, PutInv
    <3> QED  BY <2>1, <3>3
  <2>2. CASE ~(g = h /\ j = k)
    <3>1. objects'[g][j] = objects[g][j]
      BY <1>1, <2>0, <2>2
    <3>2. Live(g, j)' <=> Live(g, j)
      BY <1>1, <1>2, <3>1 DEF Live, Idle, Waiting
    <3>3. ObjectInv(g, j)
      BY <2>0, ObjectNow
    <3>4. known'[g] /\ Live(g, j)' => Owed' \subseteq Has(objects[g][j])
      <4> SUFFICES ASSUME known[g], Live(g, j) PROVE Owed' \subseteq Has(objects[g][j])
        BY <1>2, <3>2
      <4>1. Owed' \subseteq Owed
        BY <2>0, <2>2
      <4>2. Owed \subseteq Has(objects[g][j])
        BY <3>3 DEF ObjectInv
      <4> QED  BY <4>1, <4>2
    <3>5. Live(g, j)' => Primary(g, j)' \/ Has(objects[g][j]) \subseteq adrift'
      BY <1>2, <1>3, <2>0, <3>2, <3>3 DEF ObjectInv
    <3> QED  BY <2>0, <3>1, <3>4, <3>5, Undisturbed
  <2> QED  BY <2>1, <2>2
<1>5. SpentInv'
  <2>1. SpentInv
    BY DEF InboxInv, StateInv
  <2>2. CASE Primary(h, k)
    <3>1. Current(owner)' = p /\ known'[owner']
      BY <1>1, <1>2, <2>2 DEF Primary, Current, Last
    <3>2. Covers(p, Range(file'), Over')
      BY <2>2
    <3> QED  BY <3>1, <3>2 DEF SpentInv
  <2>3. CASE ~Primary(h, k)
    <3>1. Range(file') \cap Over' \subseteq Range(file) \cap Over /\ Over' \subseteq Over
      BY <2>3
    <3>2. CASE ~known[owner]
      <4>1. Range(file) \cap Over = {}
        BY <2>1, <3>2 DEF SpentInv
      <4>2. Range(file') \cap Over' = {} /\ ~known'[owner']
        BY <1>2, <3>1, <3>2, <4>1
      <4> QED  BY <4>2 DEF SpentInv
    <3>3. CASE known[owner]
      <4>1. Alive(owner) /\ owner \in Hosts /\ Len(objects[owner]) \in DOMAIN objects[owner]
        BY <3>3, StateNow
      <4>2. ~(owner = h /\ Len(objects[owner]) = k)
        BY <2>3, <3>3 DEF Primary
      <4>3. Current(owner)' = Current(owner)
        BY <1>1, <1>2, <4>1, <4>2 DEF Current, Last
      <4>4. Covers(Current(owner), Range(file), Over)
        BY <2>1, <3>3 DEF SpentInv
      <4>5. Covers(Current(owner), Range(file'), Over')
        <5> DEFINE U == Underway(Current(owner))
                   H == Has(Current(owner))
        <5>1. (Range(file) \cup H) \cap Over \subseteq U
          BY <4>4 DEF Covers
        <5> HIDE DEF U, H
        <5>2. (Range(file') \cup H) \cap Over' \subseteq U
          BY <3>1, <5>1
        <5> QED  BY <5>2 DEF Covers, U, H
      <4> QED  BY <1>2, <3>3, <4>3, <4>5 DEF SpentInv
    <3> QED  BY <3>2, <3>3
  <2> QED  BY <2>2, <2>3
<1> QED  BY <1>2, <1>4, <1>5 DEF StateInv

\* A step that accepts nothing: the object holds no more than before.
LEMMA ShrinkStep ==
  ASSUME InboxInv, NEW h \in Hosts, NEW k \in DOMAIN objects[h], Live(h, k),
         NEW p \in Managed, objects' = [objects EXCEPT ![h][k] = p],
         UNCHANGED <<up, owner, known, accepted, adrift>>,
         settled \subseteq settled', exposed \subseteq exposed', settled' \subseteq 1..accepted,
         Fits(p, accepted), Has(p) \subseteq Has(objects[h][k]),
         known[h] => Has(objects[h][k]) \ Has(p) \subseteq settled' \cup exposed',
         p.at = "starting" =>
           \/ objects[h][k].at = "starting" /\ p.item = objects[h][k].item
           \/ GoesFirst(p, Owed'),
         file' = file \/ (known[h] /\ file' = Held(p)),
         spent' \subseteq spent \cup Has(objects[h][k]),
         Primary(h, k) => Covers(p, Range(file'), Over')
  PROVE  StateInv'
<1> DEFINE o == objects[h][k]
<1>1. /\ ObjectInv(h, k) /\ Fits(o, accepted) /\ Has(o) \subseteq 1..accepted /\ o \in Managed
      /\ accepted \in Nat
  BY ObjectNow, StateNow
<1>2. /\ Proper(file, NoItem, accepted) /\ Owed \subseteq Range(file) /\ spent \subseteq 1..accepted
  BY StateNow
<1>3. Owed' \subseteq Owed
  BY DEF Owed
<1>4. Range(Held(p)) = Has(p) /\ Proper(Held(p), NoItem, accepted)
  BY HeldIs
<1>5. known[h] => Owed' \subseteq Has(p)
  <2> SUFFICES ASSUME known[h] PROVE Owed' \subseteq Has(p)
    OBVIOUS
  <2>1. Owed \subseteq Has(o)
    BY <1>1 DEF ObjectInv
  <2>2. Owed' \cap (settled' \cup exposed') = {}
    BY DEF Owed
  <2> QED  BY <1>3, <2>1, <2>2
<1>6. GoesFirst(p, Owed')
  <2>1. CASE p.at = "starting" /\ o.at = "starting" /\ p.item = o.item
    BY <1>1, <1>3, <2>1 DEF ObjectInv, GoesFirst
  <2>2. CASE p.at # "starting"
    BY <2>2 DEF GoesFirst
  <2> QED  BY <2>1, <2>2
<1>7. FileInv'
  <2>1. Proper(file', NoItem, accepted')
    BY <1>2, <1>4
  <2>2. Owed' \subseteq Range(file')
    BY <1>2, <1>3, <1>4, <1>5
  <2>3. settled' \subseteq 1..accepted' /\ spent' \subseteq 1..accepted'
    BY <1>1, <1>2
  <2> QED  BY <2>1, <2>2, <2>3 DEF FileInv
<1>8. ~Primary(h, k) => Range(file') \cap Over' \subseteq Range(file) \cap Over /\ Over' \subseteq Over
  <2> SUFFICES ASSUME ~Primary(h, k)
               PROVE  Range(file') \cap Over' \subseteq Range(file) \cap Over /\ Over' \subseteq Over
    OBVIOUS
  <2>1. Has(o) \subseteq adrift
    BY <1>1 DEF ObjectInv
  <2>2. Over' \subseteq Over
    BY <2>1 DEF Over
  <2>3. Over' \cap Has(p) = {}
    BY <2>1 DEF Over
  <2> QED  BY <1>4, <2>2, <2>3
<1>9. Owed' \subseteq Owed \cup {n \in Nat : n > accepted}
  BY <1>3
<1>10. accepted' \in Nat /\ accepted <= accepted' /\ Fits(p, accepted')
  BY <1>1
<1> HIDE DEF o
<1> QED  BY <1>3, <1>5, <1>6, <1>7, <1>8, <1>9, <1>10, ObjectStep

LEMMA LiveNow ==
  ASSUME InboxInv, NEW h \in Hosts, NEW k \in DOMAIN objects[h]
  PROVE  /\ objects[h][k].at # "off" => Live(h, k)
         /\ Waiting(objects[h][k]) # {} => Live(h, k)
         /\ known[h] /\ k = Len(objects[h]) => Live(h, k)
         /\ Primary(h, k) => known[h] /\ Covers(objects[h][k], Range(file), Over)
<1>1. /\ objects[h][k].at # "off" => Live(h, k)
      /\ Waiting(objects[h][k]) # {} => Live(h, k)
      /\ known[h] /\ k = Len(objects[h]) => Live(h, k)
  BY DEF Live, Idle
<1>2. Primary(h, k) => known[h] /\ Covers(objects[h][k], Range(file), Over)
  <2> SUFFICES ASSUME Primary(h, k) PROVE known[h] /\ Covers(objects[h][k], Range(file), Over)
    OBVIOUS
  <2>1. h = owner /\ known[h] /\ k = Len(objects[h])
    BY DEF Primary
  <2>2. Current(owner) = objects[h][k]
    BY <2>1, ObjectNow
  <2>3. SpentInv
    BY DEF InboxInv, StateInv
  <2> QED  BY <2>1, <2>2, <2>3 DEF SpentInv
<1> QED  BY <1>1, <1>2

\* What a step of one object has to show: what it lets go of is over or exposed, and what is
\* under way is still under way, or may run again, or is in the file no more.
LEMMA TidyStep ==
  ASSUME InboxInv, NEW h \in Hosts, NEW k \in DOMAIN objects[h], Live(h, k),
         NEW p \in Managed, objects' = [objects EXCEPT ![h][k] = p],
         UNCHANGED <<up, owner, known, accepted, adrift>>,
         settled \subseteq settled', exposed \subseteq exposed', settled' \subseteq 1..accepted,
         Fits(p, accepted), Has(p) \subseteq Has(objects[h][k]),
         known[h] => Has(objects[h][k]) \ Has(p) \subseteq settled' \cup exposed',
         p.at = "starting" =>
           \/ objects[h][k].at = "starting" /\ p.item = objects[h][k].item
           \/ GoesFirst(p, Owed'),
         file' = file \/ (known[h] /\ file' = Held(p)),
         spent' \subseteq spent \cup Has(objects[h][k]),
         known[h] => (Range(file') \cup Has(p)) \cap spent' \cap (Underway(objects[h][k]) \cup (spent' \ spent))
                        \subseteq Underway(p)
  PROVE  StateInv'
<1> DEFINE o == objects[h][k]
<1>1. Primary(h, k) => Covers(p, Range(file'), Over')
  <2> SUFFICES ASSUME Primary(h, k) PROVE Covers(p, Range(file'), Over')
    OBVIOUS
  <2>1. known[h] /\ (Range(file) \cup Has(o)) \cap Over \subseteq Underway(o)
    BY LiveNow DEF Covers
  <2>2. Range(Held(p)) = Has(p)
    BY HeldIs
  <2>3. Range(file') \subseteq Range(file) \cup Has(o)
    BY <2>2
  <2>4. (Range(file') \cup Has(p)) \cap Over' \subseteq Underway(p)
    <3> SUFFICES ASSUME NEW x \in Range(file') \cup Has(p), x \in spent', x \notin adrift
                 PROVE  x \in Underway(p)
      BY DEF Over
    <3>1. CASE x \notin spent
      BY <2>1, <3>1
    <3>2. CASE x \in spent
      <4>1. x \in Over /\ x \in Range(file) \cup Has(o)
        BY <2>3, <3>2 DEF Over
      <4>2. x \in Underway(o)
        BY <2>1, <4>1
      <4> QED  BY <2>1, <4>2
    <3> QED  BY <3>1, <3>2
  <2> QED  BY <2>4 DEF Covers
<1> HIDE DEF o
<1> QED  BY <1>1, ShrinkStep

\* What #persistInboxSafely leaves in the file and in spent.
LEMMA StoreKeeps ==
  ASSUME InboxInv, NEW h \in Hosts, NEW p \in Managed, Fits(p, accepted),
         NEW ended, NEW again, StoreSafely(h, p, ended, again),
         ended \cap Has(p) = {}, NEW U, U \subseteq Underway(p) \cup ended \cup again
  PROVE  /\ file' = file \/ (known[h] /\ file' = Held(p))
         /\ spent' \subseteq spent \cup ended
         /\ known[h] => (Range(file') \cup Has(p)) \cap spent' \cap (U \cup (spent' \ spent)) \subseteq Underway(p)
<1>1. Range(Held(p)) = Has(p)
  BY HeldIs
<1>2. CASE known[h] /\ file' = Held(p) /\ spent' = (spent \cup ended) \ again
  BY <1>1, <1>2
<1>3. CASE file' = file /\ spent' = spent \ (ended \cup again)
  BY <1>3
<1> QED  BY <1>2, <1>3 DEF StoreSafely

LEMMA UnderwayHeld ==
  ASSUME NEW o
  PROVE  Underway(o) \subseteq Has(o)
BY DEF Underway, Has, HeldSet

LEMMA StateWithdraw ==
  ASSUME InboxInv, NEW h \in Hosts, Withdraw(h)
  PROVE  StateInv'
<1>1. PICK k \in DOMAIN objects[h] : \E n \in Waiting(objects[h][k]) : WithdrawAt(h, k, n)
  BY DEF Withdraw, WithdrawAt
<1>2. PICK n \in Waiting(objects[h][k]) : WithdrawAt(h, k, n)
  BY <1>1
<1> DEFINE o == objects[h][k]
           i == o.queue[n]
           q == RemoveAt(o.queue, n)
           p == [o EXCEPT !.queue = q]
<1>3. /\ o \in Managed /\ o.queue \in Seq(Items) /\ o.inFlight \in Items \cup {NoItem}
      /\ PlaceOK(o) /\ Proper(o.queue, o.inFlight, accepted) /\ Has(o) \subseteq 1..accepted
      /\ settled \subseteq 1..accepted /\ Live(h, k)
  BY ObjectNow, StateNow, LiveNow
<1>4. /\ objects' = [objects EXCEPT ![h][k] = p] /\ settled' = settled \cup {i}
      /\ StoreSafely(h, p, {i}, {}) /\ UNCHANGED <<up, owner, known, accepted, started, marks>>
  BY <1>2 DEF WithdrawAt
<1>5. n \in DOMAIN o.queue
  BY DEF Waiting
<1> HIDE DEF o
<1>6. /\ q \in Seq(Items) /\ Proper(q, o.inFlight, accepted)
      /\ HeldSet(q, o.inFlight) = HeldSet(o.queue, o.inFlight) \ {i}
      /\ i \in HeldSet(o.queue, o.inFlight)
  BY <1>3, <1>5, WithdrawnProper
<1> HIDE DEF q, i
<1>7. /\ p \in Managed /\ p.queue = q /\ p.inFlight = o.inFlight /\ p.at = o.at
      /\ p.fate = o.fate /\ p.item = o.item
  BY <1>3, <1>6 DEF Managed
<1> HIDE DEF p
<1>8. Fits(p, accepted) /\ Underway(p) = Underway(o)
  BY <1>3, <1>6, <1>7 DEF PlaceOK, Fits, Underway
<1>9. Has(p) = Has(o) \ {i} /\ i \in Has(o) /\ i \in 1..accepted
  BY <1>3, <1>6, <1>7 DEF Has
<1>10. /\ file' = file \/ (known[h] /\ file' = Held(p))
       /\ spent' \subseteq spent \cup {i}
       /\ known[h] => (Range(file') \cup Has(p)) \cap spent' \cap (Underway(o) \cup (spent' \ spent)) \subseteq Underway(p)
  <2>1. {i} \cap Has(p) = {} /\ Underway(o) \subseteq Underway(p) \cup {i} \cup {}
    BY <1>8, <1>9
  <2> QED  BY <1>4, <1>7, <1>8, <2>1, StoreKeeps
<1>11. UNCHANGED <<up, owner, known, accepted, adrift, exposed>>
  BY <1>4 DEF marks
<1>12. settled' \subseteq 1..accepted /\ spent' \subseteq spent \cup Has(o) /\ Has(o) \ Has(p) \subseteq settled' \cup exposed'
  BY <1>3, <1>4, <1>9, <1>10
<1> QED  BY <1>3, <1>4, <1>7, <1>8, <1>9, <1>10, <1>11, <1>12, TidyStep DEF o

LEMMA StateHalt ==
  ASSUME InboxInv, NEW h \in Hosts, Halt(h)
  PROVE  StateInv'
<1>1. Alive(h) /\ known[h]
  BY DEF Halt, CanManage, Fresh
<1> DEFINE k == Len(objects[h])
           o == objects[h][k]
           c == Range(o.queue)
           p == [o EXCEPT !.queue = <<>>]
<1>2. k \in DOMAIN objects[h] /\ Current(h) = o
  BY <1>1, StateNow, ObjectNow
<1>3. /\ o \in Managed /\ o.queue \in Seq(Items) /\ o.inFlight \in Items \cup {NoItem}
      /\ PlaceOK(o) /\ Proper(o.queue, o.inFlight, accepted) /\ Has(o) \subseteq 1..accepted
      /\ settled \subseteq 1..accepted /\ Live(h, k)
  BY <1>1, <1>2, ObjectNow, StateNow, LiveNow
<1>4. /\ objects' = [objects EXCEPT ![h][k] = p] /\ settled' = settled \cup c
      /\ StoreSafely(h, p, c, {}) /\ UNCHANGED <<up, owner, known, accepted, started, marks>>
  BY <1>2 DEF Halt, Replace
<1> HIDE DEF o, k
<1>6. /\ Proper(<<>>, o.inFlight, accepted)
      /\ HeldSet(<<>>, o.inFlight) = HeldSet(o.queue, o.inFlight) \ c
  BY <1>3, CancelledProper
<1>7. /\ p \in Managed /\ p.queue = <<>> /\ p.inFlight = o.inFlight /\ p.at = o.at
      /\ p.fate = o.fate /\ p.item = o.item
  <2>1. <<>> \in Seq(Items)
    OBVIOUS
  <2> QED  BY <1>3, <2>1 DEF Managed
<1> HIDE DEF p
<1>8. Fits(p, accepted) /\ Underway(p) = Underway(o)
  BY <1>3, <1>6, <1>7 DEF PlaceOK, Fits, Underway
<1>9. Has(p) = Has(o) \ c /\ c \subseteq Has(o)
  BY <1>6, <1>7 DEF Has, HeldSet
<1> HIDE DEF c
<1>10. /\ file' = file \/ (known[h] /\ file' = Held(p))
       /\ spent' \subseteq spent \cup c
       /\ known[h] => (Range(file') \cup Has(p)) \cap spent' \cap (Underway(o) \cup (spent' \ spent)) \subseteq Underway(p)
  <2>1. c \cap Has(p) = {} /\ Underway(o) \subseteq Underway(p) \cup c \cup {}
    BY <1>8, <1>9
  <2> QED  BY <1>4, <1>7, <1>8, <2>1, StoreKeeps
<1>11. UNCHANGED <<up, owner, known, accepted, adrift, exposed>>
  BY <1>4 DEF marks
<1>12. settled' \subseteq 1..accepted /\ spent' \subseteq spent \cup Has(o) /\ Has(o) \ Has(p) \subseteq settled' \cup exposed'
  BY <1>3, <1>4, <1>9, <1>10
<1> QED  BY <1>2, <1>3, <1>4, <1>7, <1>8, <1>9, <1>10, <1>11, <1>12, TidyStep DEF o
LEMMA StepFields ==
  ASSUME NEW o \in Managed
  PROVE  /\ \A at \in {"running", "delivering", "committing", "off"} :
              /\ [o EXCEPT !.at = at].queue = o.queue /\ [o EXCEPT !.at = at].inFlight = o.inFlight
              /\ [o EXCEPT !.at = at].item = o.item /\ [o EXCEPT !.at = at].at = at
         /\ \A fate \in {"retain", "moved"} :
              LET p == [o EXCEPT !.at = "leaving", !.fate = fate] IN
              p.queue = o.queue /\ p.inFlight = o.inFlight /\ p.item = o.item /\ p.at = "leaving" /\ p.fate = fate
         /\ LET p == [o EXCEPT !.at = "off", !.stranded = TRUE] IN
            p.queue = o.queue /\ p.inFlight = o.inFlight /\ p.item = o.item /\ p.at = "off"
<1>1. \A at \in {"running", "delivering", "committing", "off"} :
        /\ [o EXCEPT !.at = at].queue = o.queue /\ [o EXCEPT !.at = at].inFlight = o.inFlight
        /\ [o EXCEPT !.at = at].item = o.item /\ [o EXCEPT !.at = at].at = at
  BY DEF Managed
<1>2. \A fate \in {"retain", "moved"} :
        LET p == [o EXCEPT !.at = "leaving", !.fate = fate] IN
        p.queue = o.queue /\ p.inFlight = o.inFlight /\ p.item = o.item /\ p.at = "leaving" /\ p.fate = fate
  BY DEF Managed
<1>3. LET p == [o EXCEPT !.at = "off", !.stranded = TRUE] IN
      p.queue = o.queue /\ p.inFlight = o.inFlight /\ p.item = o.item /\ p.at = "off"
  BY DEF Managed
<1> QED  BY <1>1, <1>2, <1>3

LEMMA DroppedFields ==
  ASSUME NEW o \in Managed, o.item \in Items, NEW at \in {"resting", "leaving"},
         o.inFlight = o.item \/ o.inFlight = NoItem
  PROVE  LET p == [Dropped(o) EXCEPT !.at = at, !.fate = "terminal"] IN
         /\ p \in Managed /\ p.queue = o.queue /\ p.inFlight = NoItem /\ p.item = o.item
         /\ p.at = at /\ p.fate = "terminal" /\ PlaceOK(p)
<1> DEFINE d == Dropped(o)
           p == [d EXCEPT !.at = at, !.fate = "terminal"]
<1>1. d \in Managed /\ d.queue = o.queue /\ d.inFlight = NoItem /\ d.item = o.item
  BY ItemsAreNumbers DEF Dropped, Managed
<1> HIDE DEF d
<1>2. /\ p \in Managed /\ p.queue = o.queue /\ p.inFlight = NoItem /\ p.item = o.item
      /\ p.at = at /\ p.fate = "terminal"
  BY <1>1 DEF Managed
<1> HIDE DEF p
<1>3. PlaceOK(p)
  BY <1>2 DEF PlaceOK
<1> QED  BY <1>2, <1>3 DEF p, d


\* What the drain has in hand.
LEMMA InHand ==
  ASSUME InboxInv, NEW h \in Hosts, NEW k \in DOMAIN objects[h], objects[h][k].at # "off"
  PROVE  LET o == objects[h][k] IN
         /\ o \in Managed /\ o.item \in Items /\ o.item # NoItem /\ PlaceOK(o)
         /\ o.queue \in Seq(Items) /\ o.inFlight \in Items \cup {NoItem}
         /\ Proper(o.queue, o.inFlight, accepted)
         /\ Has(o) \subseteq 1..accepted /\ Live(h, k)
         /\ o.at # "resting" => o.inFlight = o.item \/ (o.at = "leaving" /\ o.inFlight = NoItem)
         /\ o.inFlight = o.item => o.item \in Has(o)
         /\ Underway(o) \subseteq {o.item}
         /\ o.at \in {"starting", "resting"} => Underway(o) = {}
<1> DEFINE o == objects[h][k]
<1>1. /\ o \in Managed /\ o.item \in Items /\ PlaceOK(o) /\ Has(o) \subseteq 1..accepted
      /\ o.queue \in Seq(Items) /\ o.inFlight \in Items \cup {NoItem}
      /\ Proper(o.queue, o.inFlight, accepted) /\ Live(h, k)
  BY ObjectNow, LiveNow
<1>2. o.item # NoItem
  BY <1>1, ItemsAreNumbers
<1>3. o.at \in {"starting", "running", "delivering", "committing", "leaving", "resting"}
  BY <1>1 DEF Managed
<1> HIDE DEF o
<1>4. o.at # "resting" => o.inFlight = o.item \/ (o.at = "leaving" /\ o.inFlight = NoItem)
  <2>1. \/ o.at \in {"starting", "running", "delivering", "committing"}
        \/ o.at = "leaving" \/ o.at = "resting"
    BY <1>3
  <2> QED  BY <1>1, <2>1 DEF PlaceOK
<1>5. o.inFlight = o.item => o.item \in Has(o)
  BY <1>2 DEF Has, HeldSet
<1>6. Underway(o) \subseteq {o.item} /\ (o.at \in {"starting", "resting"} => Underway(o) = {})
  BY <1>4 DEF Underway
<1> QED  BY <1>1, <1>2, <1>4, <1>5, <1>6 DEF o

\* A step that leaves the queue and what is in flight as they are; a run may begin.
LEMMA StaysStep ==
  ASSUME InboxInv, NEW h \in Hosts, NEW k \in DOMAIN objects[h], objects[h][k].at # "off",
         NEW p \in Managed, objects' = [objects EXCEPT ![h][k] = p],
         UNCHANGED <<up, owner, known, file, accepted, settled, marks>>,
         p.queue = objects[h][k].queue, p.inFlight = objects[h][k].inFlight,
         PlaceOK(p), p.at # "starting",
         spent' \subseteq spent \cup Underway(p),
         Underway(objects[h][k]) \cap spent' \subseteq Underway(p)
  PROVE  StateInv'
<1> DEFINE o == objects[h][k]
<1>1. /\ Proper(o.queue, o.inFlight, accepted) /\ Live(h, k) /\ settled \subseteq 1..accepted
  BY InHand, StateNow
<1>2. Has(p) = Has(o)
  BY DEF Has
<1>3. Fits(p, accepted)
  BY <1>1 DEF Fits
<1>4. Underway(p) \subseteq Has(o)
  BY <1>2, UnderwayHeld
<1>5. UNCHANGED <<up, owner, known, file, accepted, settled, exposed, adrift>>
  BY DEF marks
<1>6. (Range(file') \cup Has(p)) \cap spent' \cap (Underway(o) \cup (spent' \ spent)) \subseteq Underway(p)
  OBVIOUS
<1> HIDE DEF o
<1>7. spent' \subseteq spent \cup Has(o)
  BY <1>4
<1> QED  BY <1>1, <1>2, <1>3, <1>5, <1>6, <1>7, TidyStep DEF o

\* A step that ends the activation.
LEMMA DropStep ==
  ASSUME InboxInv, NEW h \in Hosts, NEW k \in DOMAIN objects[h],
         objects[h][k].at \in {"starting", "delivering", "committing", "running"},
         NEW at \in {"resting", "leaving"}, NEW p, p = [Dropped(objects[h][k]) EXCEPT !.at = at, !.fate = "terminal"],
         objects' = [objects EXCEPT ![h][k] = p],
         UNCHANGED <<up, owner, known, accepted, marks>>,
         settled' = settled \cup {objects[h][k].item},
         file' = file \/ (known[h] /\ file' = Held(p)),
         spent' \subseteq spent \cup {objects[h][k].item},
         known[h] /\ objects[h][k].item \in spent' => objects[h][k].item \notin Range(file')
  PROVE  StateInv'
<1> DEFINE o == objects[h][k]
           x == o.item
<1>1. /\ o \in Managed /\ x \in Items /\ Proper(o.queue, o.inFlight, accepted) /\ Live(h, k)
      /\ o.inFlight = x /\ o.queue \in Seq(Items) /\ Has(o) \subseteq 1..accepted
      /\ x \in Has(o) /\ Underway(o) \subseteq {x} /\ settled \subseteq 1..accepted
  BY InHand, StateNow DEF PlaceOK
<1>2. /\ p \in Managed /\ p.queue = o.queue /\ p.inFlight = NoItem /\ p.item = x
      /\ p.at = at /\ p.fate = "terminal" /\ PlaceOK(p)
  BY <1>1, DroppedFields
<1>3. /\ Proper(o.queue, NoItem, accepted)
      /\ HeldSet(o.queue, NoItem) = HeldSet(o.queue, x) \ {x}
  BY <1>1, EndedProper
<1>4. Has(p) = Has(o) \ {x} /\ Fits(p, accepted)
  BY <1>1, <1>2, <1>3 DEF Has, Fits
<1>5. UNCHANGED <<up, owner, known, accepted, exposed, adrift>>
  BY DEF marks
<1>6. settled' \subseteq 1..accepted
  BY <1>1
<1> HIDE DEF o, x
<1>7. settled' = settled \cup {x} /\ spent' \subseteq spent \cup {x}
      /\ (known[h] /\ x \in spent' => x \notin Range(file'))
  BY DEF o, x
<1>8. known[h] => (Range(file') \cup Has(p)) \cap spent' \cap (Underway(o) \cup (spent' \ spent)) \subseteq Underway(p)
  BY <1>1, <1>4, <1>7
<1>9. spent' \subseteq spent \cup Has(o) /\ Has(o) \ Has(p) \subseteq settled' \cup exposed' /\ settled \subseteq settled'
  BY <1>1, <1>4, <1>7
<1>10. exposed \subseteq exposed' /\ p.at # "starting" /\ Has(p) \subseteq Has(o)
  BY <1>2, <1>4, <1>5
<1> QED  BY <1>1, <1>2, <1>4, <1>5, <1>6, <1>8, <1>9, <1>10, TidyStep DEF o

LEMMA StateFinish ==
  ASSUME InboxInv, NEW h \in Hosts, NEW k \in DOMAIN objects[h],
         objects[h][k].at \in {"starting", "delivering", "committing", "running"},
         NEW at \in {"resting", "leaving"}, Finish(h, k, at),
         UNCHANGED <<up, owner, known, accepted, started, marks>>
  PROVE  StateInv'
<1> DEFINE o == objects[h][k]
           p == [Dropped(o) EXCEPT !.at = at, !.fate = "terminal"]
<1>1. /\ o \in Managed /\ o.item \in Items /\ Proper(o.queue, o.inFlight, accepted)
      /\ o.inFlight = o.item /\ o.queue \in Seq(Items)
  BY InHand DEF PlaceOK
<1>2. /\ p \in Managed /\ p.queue = o.queue /\ p.inFlight = NoItem /\ p.item = o.item /\ PlaceOK(p)
  BY <1>1, DroppedFields
<1>3. /\ objects' = [objects EXCEPT ![h][k] = p] /\ settled' = settled \cup {p.item}
      /\ StoreSafely(h, p, {p.item}, {})
  BY DEF Finish, Moves
<1>4. Fits(p, accepted) /\ Has(p) = Has(o) \ {o.item}
  <2>1. Proper(o.queue, NoItem, accepted) /\ HeldSet(o.queue, NoItem) = HeldSet(o.queue, o.item) \ {o.item}
    BY <1>1, EndedProper
  <2> HIDE DEF o, p
  <2> QED  BY <1>1, <1>2, <2>1 DEF Has, Fits
<1>5. /\ file' = file \/ (known[h] /\ file' = Held(p))
      /\ spent' \subseteq spent \cup {o.item}
      /\ known[h] /\ o.item \in spent' => o.item \notin Range(file')
  <2> HIDE DEF o, p
  <2>1. Range(Held(p)) = Has(p)
    BY <1>2, <1>4, HeldIs
  <2> QED  BY <1>2, <1>3, <1>4, <2>1 DEF StoreSafely
<1>6. PICK q : q = p
  OBVIOUS
<1>7. /\ q = [Dropped(objects[h][k]) EXCEPT !.at = at, !.fate = "terminal"]
      /\ objects' = [objects EXCEPT ![h][k] = q]
      /\ settled' = settled \cup {objects[h][k].item}
      /\ file' = file \/ (known[h] /\ file' = Held(q))
  BY <1>2, <1>3, <1>5, <1>6
<1> HIDE DEF p
<1> QED  BY <1>5, <1>7, DropStep

LEMMA StateLeaving ==
  ASSUME InboxInv, NEW h \in Hosts, NEW k \in DOMAIN objects[h],
         objects[h][k].at \in {"running", "delivering", "committing"},
         NEW fate \in {"retain", "moved"},
         Moves(h, k, [objects[h][k] EXCEPT !.at = "leaving", !.fate = fate]),
         UNCHANGED <<up, owner, known, file, accepted, settled, marks>>, spent' \subseteq spent
  PROVE  StateInv'
<1> DEFINE o == objects[h][k]
           p == [o EXCEPT !.at = "leaving", !.fate = fate]
<1>1. o \in Managed /\ o.at # "off" /\ o.inFlight = o.item /\ Sound(o)
  BY InHand, ObjectNow DEF PlaceOK
<1>2. p.queue = o.queue /\ p.inFlight = o.inFlight /\ p.item = o.item /\ p.at = "leaving" /\ p.fate = fate
  BY <1>1, StepFields
<1>3. p \in Managed
  BY <1>1, DrainSound DEF Sound
<1>4. objects' = [objects EXCEPT ![h][k] = p]
  BY DEF Moves
<1> HIDE DEF o, p
<1>5. PlaceOK(p) /\ Underway(p) = Underway(o)
  BY <1>1, <1>2 DEF PlaceOK, Underway, o
<1>6. spent' \subseteq spent \cup Underway(p) /\ Underway(o) \cap spent' \subseteq Underway(p) /\ p.at # "starting"
  BY <1>2, <1>5
<1> QED  BY <1>1, <1>2, <1>3, <1>4, <1>5, <1>6, StaysStep DEF o

\* The run begins, its output is delivered, or it is committed.
LEMMA StateGoesOn ==
  ASSUME InboxInv, NEW h \in Hosts, NEW k \in DOMAIN objects[h],
         objects[h][k].at \in {"starting", "running", "delivering"},
         NEW at \in {"running", "delivering", "committing"},
         Moves(h, k, [objects[h][k] EXCEPT !.at = at]),
         UNCHANGED <<up, owner, known, file, accepted, settled, marks>>,
         spent' \subseteq spent \cup {objects[h][k].item}
  PROVE  StateInv'
<1> DEFINE o == objects[h][k]
           p == [o EXCEPT !.at = at]
<1>1. o \in Managed /\ o.at # "off" /\ o.inFlight = o.item /\ Sound(o) /\ o.item # NoItem
  BY InHand, ObjectNow DEF PlaceOK
<1>2. p.queue = o.queue /\ p.inFlight = o.inFlight /\ p.item = o.item /\ p.at = at
  BY <1>1, StepFields
<1>3. p \in Managed
  BY <1>1, DrainSound DEF Sound
<1>4. objects' = [objects EXCEPT ![h][k] = p] /\ spent' \subseteq spent \cup {o.item}
  BY DEF Moves
<1>5. Underway(o) \subseteq {o.item}
  BY <1>1, InHand
<1> HIDE DEF o, p
<1>6. PlaceOK(p) /\ Underway(p) = {o.item}
  BY <1>1, <1>2 DEF PlaceOK, Underway
<1>7. spent' \subseteq spent \cup Underway(p) /\ Underway(o) \cap spent' \subseteq Underway(p) /\ p.at # "starting"
  BY <1>2, <1>4, <1>5, <1>6
<1> QED  BY <1>1, <1>2, <1>3, <1>4, <1>6, <1>7, StaysStep DEF o

\* The drain ends, or could not publish its presence.
LEMMA StateOff ==
  ASSUME InboxInv, NEW h \in Hosts, NEW k \in DOMAIN objects[h],
         objects[h][k].at \in {"starting", "resting"},
         \/ Moves(h, k, [objects[h][k] EXCEPT !.at = "off"])
         \/ Moves(h, k, [objects[h][k] EXCEPT !.at = "off", !.stranded = TRUE]),
         UNCHANGED <<up, owner, known, file, accepted, history>>
  PROVE  StateInv'
<1> DEFINE o == objects[h][k]
<1>1. o \in Managed /\ o.at # "off" /\ Sound(o) /\ Underway(o) = {}
  BY InHand, ObjectNow
<1>2. PICK p : /\ p = [o EXCEPT !.at = "off"] \/ p = [o EXCEPT !.at = "off", !.stranded = TRUE]
               /\ objects' = [objects EXCEPT ![h][k] = p]
  BY DEF Moves
<1>3. p.queue = o.queue /\ p.inFlight = o.inFlight /\ p.item = o.item /\ p.at = "off"
  <2> HIDE DEF o
  <2>1. CASE p = [o EXCEPT !.at = "off"]
    BY <1>1, <2>1 DEF Managed
  <2>2. CASE p = [o EXCEPT !.at = "off", !.stranded = TRUE]
    BY <1>1, <2>2 DEF Managed
  <2> QED  BY <1>2, <2>1, <2>2
<1>4. p \in Managed
  BY <1>1, <1>2, DrainSound DEF Sound
<1>5. PlaceOK(p) /\ Underway(p) = {} /\ p.at # "starting"
  BY <1>3 DEF PlaceOK, Underway
<1>6. UNCHANGED <<up, owner, known, file, accepted, settled, marks>> /\ spent' = spent
  BY DEF history
<1> HIDE DEF o
<1>7. spent' \subseteq spent \cup Underway(p) /\ Underway(o) \cap spent' \subseteq Underway(p)
  BY <1>1, <1>6
<1> QED  BY <1>1, <1>2, <1>3, <1>4, <1>5, <1>6, <1>7, StaysStep DEF o

LEMMA StateCommit ==
  ASSUME InboxInv, NEW h \in Hosts, NEW k \in DOMAIN objects[h], Commit(h, k) \/ CommitFails(h, k)
  PROVE  StateInv'
<1> DEFINE o == objects[h][k]
           p == [Dropped(o) EXCEPT !.at = "leaving", !.fate = "terminal"]
<1>0. o.at = "committing"
  BY DEF Commit, CommitFails
<1>1. CASE \E fate \in {"retain", "moved"} :
             /\ Moves(h, k, [o EXCEPT !.at = "leaving", !.fate = fate])
             /\ UNCHANGED <<up, owner, known, file, accepted, settled, marks>> /\ spent' \subseteq spent
  BY <1>0, <1>1, StateLeaving
<1>2. CASE /\ Moves(h, k, p) /\ settled' = settled \cup {o.item}
           /\ \/ known[h] /\ file' = Held(p) /\ spent' = spent
              \/ ~known[h] /\ file' = file /\ spent' = spent \ {o.item}
              \/ known[h] /\ file' \in {file, Held(p)} /\ spent' = spent \ {o.item}
           /\ UNCHANGED <<up, owner, known, accepted, marks>>
  <2>1. /\ o \in Managed /\ o.item \in Items /\ Proper(o.queue, o.inFlight, accepted)
        /\ o.inFlight = o.item /\ o.queue \in Seq(Items)
    BY <1>0, InHand DEF PlaceOK
  <2>2. /\ p \in Managed /\ p.queue = o.queue /\ p.inFlight = NoItem /\ p.item = o.item /\ PlaceOK(p)
    BY <2>1, DroppedFields
  <2>3. Proper(o.queue, NoItem, accepted) /\ HeldSet(o.queue, NoItem) = HeldSet(o.queue, o.item) \ {o.item}
    BY <2>1, EndedProper
  <2>4. objects' = [objects EXCEPT ![h][k] = p]
    BY <1>2 DEF Moves
  <2>5. PICK q : q = p
    OBVIOUS
  <2>6. /\ q = [Dropped(objects[h][k]) EXCEPT !.at = "leaving", !.fate = "terminal"]
        /\ objects' = [objects EXCEPT ![h][k] = q]
    BY <2>4, <2>5
  <2> HIDE DEF p
  <2>7. Range(Held(q)) = Has(q) /\ o.item \notin Has(q)
    <3> HIDE DEF o
    <3>1. Fits(q, accepted) /\ Has(q) = HeldSet(o.queue, NoItem)
      BY <2>2, <2>3, <2>5 DEF Has, Fits
    <3>2. Range(Held(q)) = Has(q)
      BY <2>2, <2>5, <3>1, HeldIs
    <3> QED  BY <2>3, <3>1, <3>2
  <2>8. /\ file' = file \/ (known[h] /\ file' = Held(q))
        /\ spent' \subseteq spent \cup {o.item}
        /\ known[h] /\ o.item \in spent' => o.item \notin Range(file')
    <3> HIDE DEF o
    <3> QED  BY <1>2, <2>5, <2>7
  <2>9. settled' = settled \cup {objects[h][k].item} /\ UNCHANGED <<up, owner, known, accepted, marks>>
    BY <1>2
  <2> QED  BY <1>0, <2>6, <2>8, <2>9, DropStep
<1>3. CASE Commit(h, k)
  <2>1. o \in Managed /\ p.item = o.item
    <3>1. o \in Managed /\ o.item \in Items /\ o.inFlight = o.item
      BY <1>0, InHand DEF PlaceOK
    <3> QED  BY <3>1, DroppedFields
  <2>2. /\ Moves(h, k, p) /\ settled' = settled \cup {p.item}
        /\ file' = (IF known[h] THEN Held(p) ELSE file)
        /\ spent' = (IF known[h] THEN spent ELSE spent \ {p.item})
        /\ UNCHANGED <<environment, known, accepted, started, marks>>
    BY <1>3 DEF Commit
  <2> HIDE DEF o, p
  <2>3. /\ UNCHANGED <<up, owner, known, accepted, marks>> /\ settled' = settled \cup {o.item}
        /\ \/ known[h] /\ file' = Held(p) /\ spent' = spent
           \/ ~known[h] /\ file' = file /\ spent' = spent \ {o.item}
    BY <2>1, <2>2 DEF environment
  <2> QED  BY <1>2, <2>2, <2>3
<1>4. CASE CommitFails(h, k)
  <2>1. o \in Managed /\ p.item = o.item
    <3>1. o \in Managed /\ o.item \in Items /\ o.inFlight = o.item
      BY <1>0, InHand DEF PlaceOK
    <3> QED  BY <3>1, DroppedFields
  <2>2. /\ known[h] /\ spent' = spent \ {o.item}
        /\ UNCHANGED <<up, owner, known, accepted, marks>>
        /\ \/ /\ \E fate \in {"retain", "moved"} : Moves(h, k, [o EXCEPT !.at = "leaving", !.fate = fate])
              /\ UNCHANGED <<file, settled>>
           \/ Moves(h, k, p) /\ file' \in {file, Held(p)} /\ settled' = settled \cup {p.item}
    BY <1>4 DEF CommitFails
  <2> HIDE DEF o, p
  <2> QED  BY <1>1, <1>2, <2>1, <2>2
<1> QED  BY <1>3, <1>4

LEMMA StateLeave ==
  ASSUME InboxInv, NEW h \in Hosts, NEW k \in DOMAIN objects[h], Leave(h, k)
  PROVE  StateInv'
<1> DEFINE o == objects[h][k]
           x == o.item
           q == IF o.fate = "retain" /\ x \notin Range(o.queue) THEN Kept(o) ELSE o.queue
           p == [Dropped(o) EXCEPT !.queue = q, !.at = "resting"]
           again == IF o.fate = "terminal" THEN {} ELSE {x}
<1>0. o.at = "leaving"
  BY DEF Leave
<1>1. /\ o \in Managed /\ Sound(o) /\ x \in Items /\ x # NoItem /\ Proper(o.queue, o.inFlight, accepted) /\ Live(h, k)
      /\ o.queue \in Seq(Items) /\ Has(o) \subseteq 1..accepted /\ PlaceOK(o)
      /\ Underway(o) \subseteq {x} /\ settled \subseteq 1..accepted
  BY <1>0, InHand, ObjectNow, StateNow
<1>2. \/ o.fate = "terminal" /\ o.inFlight = NoItem
      \/ o.fate \in {"retain", "moved"} /\ o.inFlight = x
  BY <1>0, <1>1 DEF PlaceOK
<1>3. Kept(o) = <<x>> \o o.queue
  BY DEF Kept
<1>4. o.inFlight = x => /\ <<x>> \o o.queue \in Seq(Items) /\ Proper(<<x>> \o o.queue, NoItem, accepted)
                        /\ HeldSet(<<x>> \o o.queue, NoItem) = HeldSet(o.queue, x)
                        /\ x \notin Range(o.queue)
                        /\ Proper(o.queue, NoItem, accepted) /\ HeldSet(o.queue, NoItem) = HeldSet(o.queue, x) \ {x}
  BY <1>1, KeptProper, EndedProper
<1>5. /\ q \in Seq(Items) /\ Proper(q, NoItem, accepted)
      /\ o.fate # "moved" => HeldSet(q, NoItem) = HeldSet(o.queue, o.inFlight)
      /\ o.fate = "moved" => HeldSet(q, NoItem) = HeldSet(o.queue, o.inFlight) \ {x}
  <2>1. CASE o.fate = "terminal" /\ o.inFlight = NoItem
    <3>1. q = o.queue
      BY <2>1
    <3> QED  BY <1>1, <2>1, <3>1
  <2>2. CASE o.fate = "retain" /\ o.inFlight = x
    <3>1. q = <<x>> \o o.queue
      BY <1>3, <1>4, <2>2
    <3> QED  BY <1>4, <2>2, <3>1
  <2>3. CASE o.fate = "moved" /\ o.inFlight = x
    <3>1. q = o.queue
      BY <2>3
    <3> QED  BY <1>1, <1>4, <2>3, <3>1
  <2> QED  BY <1>2, <2>1, <2>2, <2>3
<1>6. PICK r : r = p
  OBVIOUS
<1>7. /\ objects' = [objects EXCEPT ![h][k] = r]
      /\ IF o.fate = "moved" THEN spent' = spent \ again /\ UNCHANGED <<file, count>> ELSE StoreSafely(h, r, {}, again)
      /\ exposed' = (IF o.fate = "moved" /\ known[h] THEN exposed \cup {x} ELSE exposed)
      /\ UNCHANGED <<up, owner, known, accepted, settled, started, adrift>>
  <2>1. Dropped(o).queue = o.queue
    BY <1>1 DEF Dropped, Managed
  <2>2. p = [Dropped(o) EXCEPT !.queue = IF o.fate = "retain" /\ o.item \notin Range(@) THEN Kept(o) ELSE @,
                               !.at = "resting"]
    BY <2>1
  <2> HIDE DEF p, q
  <2> QED  BY <1>6, <2>2 DEF Leave, Moves
<1>8. /\ r \in Managed /\ r.queue = q /\ r.inFlight = NoItem /\ r.at = "resting"
  <2> HIDE DEF q
  <2>1. Dropped(o) \in Managed /\ Dropped(o).inFlight = NoItem
    BY <1>1, <1>2 DEF Dropped, Managed
  <2> QED  BY <1>5, <1>6, <2>1 DEF Managed
<1> HIDE DEF q, p
<1>9. PlaceOK(r) /\ Underway(r) = {}
  BY <1>8 DEF PlaceOK, Underway
<1>10. /\ Fits(r, accepted) /\ Has(r) \subseteq Has(o)
       /\ o.fate # "moved" => Has(r) = Has(o)
       /\ o.fate = "moved" => Has(r) = Has(o) \ {x}
  BY <1>5, <1>8, <1>9 DEF Fits, Has
<1> HIDE DEF o, x
<1>11. x = o.item
  BY DEF o, x
<1>12. Underway(o) \subseteq again
  BY <1>1, <1>2, <1>11 DEF Underway
<1>13. /\ file' = file \/ (known[h] /\ file' = Held(r))
       /\ spent' \subseteq spent
       /\ known[h] => (Range(file') \cup Has(r)) \cap spent' \cap (Underway(o) \cup (spent' \ spent)) \subseteq Underway(r)
  <2> HIDE DEF again
  <2>1. CASE o.fate = "moved"
    <3>1. spent' = spent \ again /\ file' = file
      BY <1>7, <2>1
    <3> QED  BY <1>12, <3>1
  <2>2. CASE o.fate # "moved"
    <3>1. StoreSafely(h, r, {}, again) /\ {} \cap Has(r) = {} /\ Underway(o) \subseteq Underway(r) \cup {} \cup again
      BY <1>7, <1>12, <2>2
    <3>2. /\ file' = file \/ (known[h] /\ file' = Held(r))
          /\ spent' \subseteq spent \cup {}
          /\ known[h] => (Range(file') \cup Has(r)) \cap spent' \cap (Underway(o) \cup (spent' \ spent)) \subseteq Underway(r)
      BY <1>8, <1>10, <3>1, StoreKeeps
    <3> QED  BY <3>2
  <2> QED  BY <2>1, <2>2
<1>14. known[h] => Has(o) \ Has(r) \subseteq settled' \cup exposed'
  BY <1>7, <1>10
<1>15. /\ spent' \subseteq spent \cup Has(o) /\ settled \subseteq settled' /\ exposed \subseteq exposed'
       /\ settled' \subseteq 1..accepted /\ r.at # "starting"
       /\ UNCHANGED <<up, owner, known, accepted, adrift>>
  BY <1>1, <1>7, <1>8, <1>13
<1> QED  BY <1>1, <1>7, <1>8, <1>10, <1>13, <1>14, <1>15, TidyStep DEF o

\* What is in flight comes before all that the object holds.
LEMMA HeadFirst ==
  ASSUME NEW p \in Managed, NEW n, Fits(p, n), p.inFlight = p.item, p.item # NoItem,
         NEW W, W \subseteq Has(p)
  PROVE  GoesFirst(p, W)
<1> SUFFICES ASSUME NEW y \in W, y \in 1..(p.item - 1) PROVE FALSE
  BY DEF GoesFirst
<1>1. p.item \in Nat
  BY ManagedFields, ItemsAreNumbers
<1>2. y = p.item \/ (y \in Range(p.queue) /\ p.item < y)
  BY DEF Has, HeldSet, Fits, Proper
<1>3. y \in Nat /\ y < p.item
  BY <1>1
<1> QED  BY <1>1, <1>2, <1>3

LEMMA StateNextItem ==
  ASSUME InboxInv, NEW h \in Hosts, NEW k \in DOMAIN objects[h], NextItem(h, k)
  PROVE  StateInv'
<1> DEFINE o == objects[h][k]
           q == o.queue
           p == Taken(o)
<1>1. /\ o.at = "resting" /\ q # <<>> /\ known[h]
      /\ objects' = [objects EXCEPT ![h][k] = p] /\ StoreSafely(h, p, {}, {})
      /\ UNCHANGED <<up, owner, known, accepted, settled, started, marks>>
  BY DEF NextItem, Continues, CanManage, Fresh, Moves
<1>2. /\ o \in Managed /\ o.inFlight = NoItem /\ q \in Seq(Items) /\ Proper(q, NoItem, accepted)
      /\ Underway(o) = {} /\ Live(h, k) /\ settled \subseteq 1..accepted
      /\ Owed \subseteq Has(o)
  BY <1>1, InHand, ObjectNow, StateNow DEF PlaceOK, ObjectInv
<1>3. /\ p \in Managed /\ p.queue = Tail(q) /\ p.inFlight = Head(q) /\ p.item = Head(q) /\ p.at = "starting"
  BY <1>1, <1>2, TakenType DEF Sound
<1>4. /\ Proper(Tail(q), Head(q), accepted) /\ HeldSet(Tail(q), Head(q)) = HeldSet(q, NoItem)
      /\ Head(q) # NoItem
  BY <1>1, <1>2, TakenProper
<1> HIDE DEF p
<1>5. Has(p) = Has(o)
  BY <1>2, <1>3, <1>4 DEF Has
<1> HIDE DEF o, q
<1>6. Fits(p, accepted) /\ Underway(p) = {}
  BY <1>3, <1>4 DEF Fits, PlaceOK, Underway
<1>7. UNCHANGED <<up, owner, known, accepted, settled, exposed, adrift>> /\ Owed' = Owed
  BY <1>1 DEF marks, Owed
<1>8. GoesFirst(p, Owed')
  <2>1. Owed' \subseteq Has(p) /\ p.inFlight = p.item /\ p.item # NoItem
    BY <1>2, <1>3, <1>4, <1>5, <1>7
  <2> QED  BY <1>3, <1>6, <2>1, HeadFirst
<1>9. /\ file' = file \/ (known[h] /\ file' = Held(p))
      /\ spent' \subseteq spent \cup {}
      /\ known[h] => (Range(file') \cup Has(p)) \cap spent' \cap (Underway(o) \cup (spent' \ spent)) \subseteq Underway(p)
  <2>1. {} \cap Has(p) = {} /\ Underway(o) \subseteq Underway(p) \cup {} \cup {}
    BY <1>2
  <2> QED  BY <1>1, <1>3, <1>6, <2>1, StoreKeeps
<1>10. /\ settled \subseteq settled' /\ exposed \subseteq exposed' /\ settled' \subseteq 1..accepted
       /\ Has(p) \subseteq Has(o) /\ Has(o) \ Has(p) \subseteq settled' \cup exposed'
       /\ spent' \subseteq spent \cup Has(o)
  BY <1>2, <1>5, <1>7, <1>9
<1> QED  BY <1>1, <1>2, <1>3, <1>6, <1>7, <1>8, <1>9, <1>10, TidyStep DEF o

LEMMA StateDrains ==
  ASSUME InboxInv, NEW h \in Hosts, Drains(h)
  PROVE  StateInv'
<1>1. PICK k \in DOMAIN objects[h] :
        \/ Begin(h, k) \/ Invalidate(h, k) \/ RunEnds(h, k) \/ Deliver(h, k)
        \/ Commit(h, k) \/ CommitFails(h, k) \/ Leave(h, k)
        \/ NextItem(h, k) \/ DrainEnds(h, k) \/ PresenceFails(h, k)
  BY DEF Drains
<1>2. CASE Begin(h, k)
  <2>1. /\ objects[h][k].at = "starting" /\ Moves(h, k, [objects[h][k] EXCEPT !.at = "running"])
        /\ spent' = spent \cup {objects[h][k].item}
        /\ UNCHANGED <<up, owner, known, file, accepted, settled, marks>>
    BY <1>2 DEF Begin, environment
  <2> QED  BY <2>1, StateGoesOn
<1>3. CASE Invalidate(h, k)
  BY <1>3, StateFinish DEF Invalidate
<1>4. CASE RunEnds(h, k)
  <2>1. objects[h][k].at = "running" /\ UNCHANGED <<known, accepted, started, marks>>
    BY <1>4 DEF RunEnds
  <2>2. CASE \E fate \in {"retain", "moved"} : Leaving(h, k, fate)
    BY <2>1, <2>2, StateLeaving DEF Leaving
  <2>3. CASE Moves(h, k, [objects[h][k] EXCEPT !.at = "delivering"]) /\ UNCHANGED <<environment, file, settled, spent>>
    <3>1. UNCHANGED <<up, owner, known, file, accepted, settled, marks>> /\ spent' \subseteq spent
      BY <2>1, <2>3 DEF environment
    <3> QED  BY <2>1, <2>3, <3>1, StateGoesOn
  <2>4. CASE Finish(h, k, "leaving") /\ UNCHANGED <<up, owner>>
    BY <2>1, <2>4, StateFinish
  <2> QED  BY <1>4, <2>2, <2>3, <2>4 DEF RunEnds
<1>5. CASE Deliver(h, k)
  <2>1. objects[h][k].at = "delivering" /\ UNCHANGED <<known, accepted, started, marks>>
    BY <1>5 DEF Deliver
  <2>2. CASE \E fate \in {"retain", "moved"} : Leaving(h, k, fate)
    BY <2>1, <2>2, StateLeaving DEF Leaving
  <2>3. CASE Moves(h, k, [objects[h][k] EXCEPT !.at = "committing"]) /\ UNCHANGED <<environment, file, settled, spent>>
    <3>1. UNCHANGED <<up, owner, known, file, accepted, settled, marks>> /\ spent' \subseteq spent
      BY <2>1, <2>3 DEF environment
    <3> QED  BY <2>1, <2>3, <3>1, StateGoesOn
  <2> QED  BY <1>5, <2>2, <2>3 DEF Deliver
<1>6. CASE DrainEnds(h, k) \/ PresenceFails(h, k)
  <2>1. /\ objects[h][k].at \in {"starting", "resting"}
        /\ \/ Moves(h, k, [objects[h][k] EXCEPT !.at = "off"])
           \/ Moves(h, k, [objects[h][k] EXCEPT !.at = "off", !.stranded = TRUE])
        /\ UNCHANGED <<up, owner, known, file, accepted, history>>
    BY <1>6 DEF DrainEnds, PresenceFails, environment
  <2> QED  BY <2>1, StateOff
<1> QED  BY <1>1, <1>2, <1>3, <1>4, <1>5, <1>6, StateCommit, StateLeave, StateNextItem

LEMMA StateAccept ==
  ASSUME InboxInv, NEW h \in Hosts, Accept(h)
  PROVE  StateInv'
<1> DEFINE k == Len(objects[h])
           o == objects[h][k]
           q == Append(Shorter(o.queue), accepted + 1)
           given == [o EXCEPT !.queue = q, !.callers = @ \cup {accepted + 1}]
           after == EnsureDrain(up[h], given)
           gone == {o.inFlight} \ {after.inFlight, NoItem}
           W == (1..(accepted + 1)) \ (settled' \cup exposed')
<1>1. Alive(h) /\ known[h] /\ owner = h /\ accepted < MaxItems
  BY DEF Accept, CanManage, Fresh
<1>2. k \in DOMAIN objects[h] /\ Current(h) = o /\ Primary(h, k)
  BY <1>1, StateNow, ObjectNow DEF Primary
<1>3. /\ o \in Managed /\ Sound(o) /\ o.queue \in Seq(Items) /\ o.inFlight \in Items \cup {NoItem}
      /\ PlaceOK(o) /\ Proper(o.queue, o.inFlight, accepted) /\ Has(o) \subseteq 1..accepted
      /\ Live(h, k) /\ Owed \subseteq Has(o) /\ Covers(o, Range(file), Over)
  BY <1>1, <1>2, ObjectNow, LiveNow DEF ObjectInv
<1>4. /\ accepted \in Nat /\ accepted + 1 \in Items
      /\ settled \subseteq 1..accepted /\ spent \subseteq 1..accepted
  BY <1>1, InboxBounds, StateNow DEF Items
<1>5. /\ objects' = [objects EXCEPT ![h][k] = after] /\ file' = Held(after)
      /\ accepted' = accepted + 1 /\ settled' = settled \cup Displaced(o.queue)
      /\ spent' = spent \cup Displaced(o.queue)
      /\ exposed' = exposed \cup (IF HasRival(h) THEN {accepted + 1} ELSE {}) \cup gone
      /\ UNCHANGED <<up, owner, known, adrift>>
  BY <1>2 DEF Accept, Replace, environment, Shorter, Displaced
<1> HIDE DEF o, k
<1>6. /\ q \in Seq(Items) /\ Proper(q, o.inFlight, accepted + 1)
      /\ HeldSet(q, o.inFlight) = (HeldSet(o.queue, o.inFlight) \ Displaced(o.queue)) \cup {accepted + 1}
      /\ Displaced(o.queue) \subseteq 1..accepted /\ q # <<>>
  BY <1>3, <1>4, AcceptedProper
<1> HIDE DEF q
<1>7. /\ given \in Managed /\ given.queue = q /\ given.inFlight = o.inFlight /\ given.at = o.at
      /\ given.fate = o.fate /\ given.item = o.item
  BY <1>3, <1>4, <1>6 DEF Managed
<1> HIDE DEF given
<1>8. Sound(given) /\ Fits(given, accepted + 1) /\ Underway(given) = Underway(o)
  BY <1>3, <1>6, <1>7 DEF Sound, PlaceOK, Fits, Underway
<1>9. Has(given) = (Has(o) \ Displaced(o.queue)) \cup {accepted + 1}
  BY <1>6, <1>7 DEF Has
<1>10. Has(given) \cap Over' \subseteq Underway(given)
  <2>1. Has(o) \cap Over \subseteq Underway(o)
    BY <1>3 DEF Covers
  <2>2. accepted + 1 \notin Over'
    BY <1>4, <1>5, <1>6 DEF Over
  <2>3. Over' \subseteq Over \cup Displaced(o.queue)
    BY <1>5 DEF Over
  <2> QED  BY <1>8, <1>9, <2>1, <2>2, <2>3
<1>11. /\ W \subseteq (Owed \cup {accepted + 1}) \ (Displaced(o.queue) \cup gone)
       /\ Owed' = W
       /\ HasRival(h) => accepted + 1 \notin W
  <2> HIDE DEF gone
  <2>1. Owed' = W
    BY <1>5 DEF Owed
  <2>2. \A n \in 1..(accepted + 1) : n \in 1..accepted \/ n = accepted + 1
    BY <1>4
  <2> QED  BY <1>5, <2>1, <2>2 DEF Owed
<1> HIDE DEF W
<1>12. W \subseteq Has(given) \ gone
  BY <1>3, <1>9, <1>11
\* What EnsureDrain takes is the head of the queue; what was in flight gives way.
<1>13. /\ Sound(after) /\ after \in Managed /\ Fits(after, accepted + 1)
       /\ W \subseteq Has(after) /\ Has(after) \cap Over' \subseteq Underway(after)
       /\ GoesFirst(after, W)
  <2>1. \/ after = given
        \/ given.at = "off" /\ given.queue # <<>> /\ after = Taken(given)
    BY <1>8, EnsureType
  <2>2. CASE after = given
    <3>1. given.at = "starting" => given.inFlight = given.item /\ given.item # NoItem
      <4>1. given.at = "starting" => given.inFlight = given.item /\ given.item \in Items
        BY <1>8 DEF Fits, PlaceOK, Sound
      <4> QED  BY <4>1, ItemsAreNumbers
    <3>2. GoesFirst(given, W)
      <4>1. CASE given.at = "starting"
        BY <1>7, <1>8, <1>12, <3>1, <4>1, HeadFirst
      <4>2. CASE given.at # "starting"
        BY <4>2 DEF GoesFirst
      <4> QED  BY <4>1, <4>2
    <3> QED  BY <1>7, <1>8, <1>10, <1>12, <2>2, <3>2
  <2>3. CASE given.at = "off" /\ given.queue # <<>> /\ after = Taken(given)
    <3>1. /\ Sound(after) /\ after \in Managed /\ after.queue = Tail(q) /\ after.inFlight = Head(q)
          /\ after.item = Head(q) /\ after.at = "starting"
      BY <1>7, <2>3, TakenType DEF Sound
    <3>2. Proper(q, NoItem, accepted + 1)
      <4>1. CASE o.inFlight = NoItem
        BY <1>6, <4>1
      <4>2. CASE o.inFlight \in Items
        BY <1>6, <4>2, EndedProper
      <4> QED  BY <1>3, <4>1, <4>2
    <3>3. /\ Proper(Tail(q), Head(q), accepted + 1) /\ Head(q) \in Range(q) /\ Head(q) # NoItem
          /\ HeldSet(Tail(q), Head(q)) = HeldSet(q, NoItem)
      BY <1>6, <3>2, TakenProper
    <3>4. Fits(after, accepted + 1) /\ Underway(after) = {}
      BY <3>1, <3>3 DEF Fits, PlaceOK, Underway
    <3>5. Has(after) = Range(q) /\ Has(given) \subseteq Range(q) \cup ({o.inFlight} \ {NoItem})
          /\ after.inFlight \in Range(q)
      BY <1>7, <3>1, <3>3 DEF Has, HeldSet
    <3>6. Has(after) \subseteq Has(given)
      BY <1>7, <3>5 DEF Has, HeldSet
    <3>7. Underway(given) = {}
      BY <2>3 DEF Underway
    <3>8. W \subseteq Has(after)
      BY <1>12, <3>5
    <3>9. GoesFirst(after, W)
      BY <3>1, <3>3, <3>4, <3>8, HeadFirst
    <3> QED  BY <1>10, <3>1, <3>4, <3>6, <3>7, <3>8, <3>9
  <2> QED  BY <2>1, <2>2, <2>3
<1> HIDE DEF after, gone
<1>14. Range(Held(after)) = Has(after) /\ Proper(Held(after), NoItem, accepted + 1)
  BY <1>13, HeldIs
<1>15. FileInv'
  <2>1. settled' \subseteq 1..(accepted + 1) /\ spent' \subseteq 1..(accepted + 1)
    BY <1>4, <1>5, <1>6
  <2>2. Owed' \subseteq Range(file') /\ Proper(file', NoItem, accepted')
    BY <1>5, <1>11, <1>13, <1>14
  <2> QED  BY <1>5, <2>1, <2>2 DEF FileInv
<1>16. Covers(after, Range(file'), Over')
  BY <1>5, <1>13, <1>14 DEF Covers
<1>17. \A g \in Hosts : \A j \in DOMAIN objects[g] :
         known[g] /\ Live(g, j) /\ ~(g = h /\ j = k) => Owed' \subseteq Owed
  <2> SUFFICES ASSUME NEW g \in Hosts, NEW j \in DOMAIN objects[g],
                      known[g], Live(g, j), ~(g = h /\ j = k)
               PROVE  HasRival(h)
    BY <1>11
  <2>1. j \in Writers(g)
    BY DEF Live, Writers, Busy
  <2> QED  BY <2>1 DEF HasRival, k
<1>18. Owed' \subseteq Owed \cup {n \in Nat : n > accepted}
  BY <1>4, <1>11
<1>19. /\ accepted' \in Nat /\ accepted <= accepted' /\ Fits(after, accepted') /\ GoesFirst(after, Owed')
       /\ Owed' \subseteq Has(after)
  BY <1>4, <1>5, <1>11, <1>13
<1> QED  BY <1>2, <1>3, <1>5, <1>13, <1>15, <1>16, <1>17, <1>18, <1>19, ObjectStep

LEMMA LoadedNow ==
  ASSUME InboxInv
  PROVE  /\ Loaded \in Managed /\ Sound(Loaded) /\ Fits(Loaded, accepted) /\ Has(Loaded) = Range(file)
         /\ Idle(Loaded) /\ Underway(Loaded) = {} /\ Loaded.at = "off" /\ Loaded.inFlight = NoItem
         /\ Loaded.queue = file
<1>1. Loaded.queue = file /\ Loaded.inFlight = NoItem /\ Proper(file, NoItem, accepted)
  BY StateNow, LoadedProper
<1>2. Loaded \in Managed /\ Sound(Loaded) /\ Loaded.at = "off" /\ Loaded.callers = {}
  BY StateNow, LoadedType DEF InboxTypes, Sound
<1> HIDE DEF Loaded
<1> QED  BY <1>1, <1>2 DEF Fits, PlaceOK, Has, HeldSet, Idle, Waiting, Underway

\* What a step of a host leaves alone of the others, when the owner stays.
LEMMA HostStep ==
  ASSUME InboxInv, NEW h \in Hosts, accepted' = accepted, owner' = owner,
         \A g \in Hosts \ {h} : objects'[g] = objects[g] /\ known'[g] = known[g] /\ up'[g] = up[g],
         known'[h] => Alive(h)',
         Owed' \subseteq Owed, adrift \subseteq adrift',
         \A j \in DOMAIN objects'[h] : ObjectInv(h, j)',
         FileInv',
         h = owner => SpentInv',
         h # owner => Range(file') \cap Over' \subseteq Range(file) \cap Over /\ Over' \subseteq Over
  PROVE  StateInv'
<1>1. ASSUME NEW g \in Hosts PROVE known'[g] => Alive(g)'
  <2>1. CASE g = h
    BY <2>1
  <2>2. CASE g # h
    BY <2>2, StateNow DEF Alive
  <2> QED  BY <2>1, <2>2
<1>2. ASSUME NEW g \in Hosts, NEW j \in DOMAIN objects'[g] PROVE ObjectInv(g, j)'
  <2>1. CASE g = h
    BY <2>1
  <2>2. CASE g # h
    <3>1. objects'[g] = objects[g] /\ known'[g] = known[g] /\ j \in DOMAIN objects[g]
      BY <2>2
    <3>2. (Live(g, j)' <=> Live(g, j)) /\ (Primary(g, j)' <=> Primary(g, j))
      BY <3>1 DEF Live, Idle, Waiting, Primary
    <3>3. ObjectInv(g, j)
      BY <3>1, ObjectNow
    <3>4. /\ known'[g] /\ Live(g, j)' => Owed' \subseteq Has(objects[g][j])
          /\ Live(g, j)' => Primary(g, j)' \/ Has(objects[g][j]) \subseteq adrift'
      BY <3>1, <3>2, <3>3 DEF ObjectInv
    <3>5. accepted' \in Nat /\ accepted <= accepted' /\ Owed' \subseteq Owed \cup {n \in Nat : n > accepted}
      BY StateNow
    <3> QED  BY <3>1, <3>4, <3>5, Undisturbed
  <2> QED  BY <2>1, <2>2
<1>3. SpentInv'
  <2>1. CASE h = owner
    BY <2>1
  <2>2. CASE h # owner
    <3>1. /\ Range(file') \cap Over' \subseteq Range(file) \cap Over /\ Over' \subseteq Over
          /\ owner \in Hosts /\ objects'[owner] = objects[owner] /\ known'[owner] = known[owner] /\ owner' = owner
      BY <2>2, StateNow
    <3>2. SpentInv
      BY DEF InboxInv, StateInv
    <3>3. Current(owner)' = Current(owner)
      BY <3>1 DEF Current, Last
    <3>4. CASE ~known[owner]
      <4>1. Range(file') \cap Over' = {} /\ ~known'[owner']
        BY <3>1, <3>2, <3>4 DEF SpentInv
      <4> QED  BY <4>1 DEF SpentInv
    <3>5. CASE known[owner]
      <4> DEFINE U == Underway(Current(owner))
                 H == Has(Current(owner))
      <4>1. (Range(file) \cup H) \cap Over \subseteq U
        BY <3>2, <3>5 DEF SpentInv, Covers
      <4> HIDE DEF U, H
      <4>2. (Range(file') \cup H) \cap Over' \subseteq U
        BY <3>1, <4>1
      <4>3. Covers(Current(owner), Range(file'), Over')
        BY <4>2 DEF Covers, U, H
      <4> QED  BY <3>1, <3>3, <3>5, <4>3 DEF SpentInv
    <3> QED  BY <3>4, <3>5
  <2> QED  BY <2>1, <2>2
<1> QED  BY <1>1, <1>2, <1>3 DEF StateInv

LEMMA FileStays ==
  ASSUME InboxInv, UNCHANGED <<file, accepted, settled>>, spent' \subseteq spent, Owed' \subseteq Owed
  PROVE  FileInv'
BY StateNow DEF FileInv

LEMMA FrontIs ==
  ASSUME NEW S, NEW s \in Seq(S), s # <<>>
  PROVE  /\ Front(s) \in Seq(S) /\ Len(Front(s)) = Len(s) - 1
         /\ \A j \in DOMAIN Front(s) : j \in DOMAIN s /\ j < Len(s) /\ Front(s)[j] = s[j]
<1> DEFINE n == Len(s) - 1
<1>1. Len(s) \in Nat /\ Len(s) > 0 /\ DOMAIN s = 1..Len(s)
  OBVIOUS
<1>2. n \in Nat /\ n = Len(s) - 1
  BY <1>1
<1> HIDE DEF n
<1>3. Front(s) = SubSeq(s, 1, n)
  BY <1>2 DEF Front
<1>4. \A i \in 1..n : i \in 1..Len(s) /\ i < Len(s)
  BY <1>1, <1>2
<1>5. SubSeq(s, 1, n) \in Seq(S)
  BY <1>1, <1>2, <1>4
<1>6. Len(SubSeq(s, 1, n)) = n
  BY <1>1, <1>2
<1>7. \A i \in 1..n : SubSeq(s, 1, n)[i] = s[i]
  BY <1>1, <1>2
<1>8. DOMAIN SubSeq(s, 1, n) = 1..n
  BY <1>5, <1>6
<1> QED  BY <1>1, <1>2, <1>3, <1>4, <1>5, <1>6, <1>7, <1>8

\* What Reload keeps of the host's objects, and what it adds.
LEMMA ReloadShape ==
  ASSUME InboxInv, NEW h \in Hosts, Alive(h), Reload(h)
  PROVE  /\ \A g \in Hosts \ {h} : objects'[g] = objects[g]
         /\ Current(h)' = Loaded
         /\ \A j \in DOMAIN objects'[h] :
              \/ j = Len(objects'[h]) /\ objects'[h][j] = Loaded
              \/ /\ j # Len(objects'[h]) /\ j \in DOMAIN objects[h] /\ objects'[h][j] = objects[h][j]
                 /\ j = Len(objects[h]) => ~Idle(Current(h))
<1> DEFINE s == objects[h]
           old == Current(h)
           kept == IF Idle(old) THEN Front(s) ELSE s
           t == Append(kept, Loaded)
<1>1. s \in Seq(Managed) /\ s # <<>> /\ objects \in [Hosts -> Seq(Managed)] /\ Loaded \in Managed
  BY StateNow, LoadedNow DEF InboxTypes
<1>2. objects' = [objects EXCEPT ![h] = t]
  BY DEF Reload
<1> HIDE DEF s, Loaded, old
<1>3. Front(s) \in Seq(Managed) /\ Len(Front(s)) = Len(s) - 1 /\ \A j \in DOMAIN Front(s) : j \in DOMAIN s /\ j < Len(s) /\ Front(s)[j] = s[j]
  BY <1>1, FrontIs
<1>4. /\ kept \in Seq(Managed) /\ Len(kept) \in Nat
      /\ \A j \in DOMAIN kept : j \in DOMAIN s /\ kept[j] = s[j] /\ (j = Len(s) => ~Idle(old))
  <2>1. CASE Idle(old)
    BY <1>1, <1>3, <2>1
  <2>2. CASE ~Idle(old)
    BY <1>1, <2>2
  <2> QED  BY <2>1, <2>2
<1> HIDE DEF kept
<1>5. /\ t \in Seq(Managed) /\ Len(t) = Len(kept) + 1 /\ t[Len(t)] = Loaded
      /\ \A j \in DOMAIN t : j = Len(t) \/ (j # Len(t) /\ j \in DOMAIN kept /\ t[j] = kept[j])
  BY <1>1, <1>4
<1> HIDE DEF t
<1>6. objects'[h] = t /\ \A g \in Hosts \ {h} : objects'[g] = objects[g]
  BY <1>1, <1>2
<1>7. Current(h)' = Loaded
  <2>1. Last(objects'[h]) = Loaded
    BY <1>5, <1>6 DEF Last
  <2> QED  BY <2>1 DEF Current, Loaded
<1>8. \A j \in DOMAIN t : \/ j = Len(t) /\ t[j] = Loaded
                          \/ /\ j # Len(t) /\ j \in DOMAIN s /\ t[j] = s[j]
                             /\ j = Len(s) => ~Idle(old)
  BY <1>4, <1>5
<1> QED  BY <1>6, <1>7, <1>8 DEF s, old

\* The objects of a host that loads anew: what the old ones hold is adrift, unless they are
\* done with, and what may still be written by them is owed no more unless they hold it.
LEMMA ReloadsWell ==
  ASSUME InboxInv, NEW h \in Hosts, Alive(h), Reload(h), accepted' = accepted, owner' = owner,
         Owed' \subseteq Owed, adrift \subseteq adrift',
         known'[h] <=> owner = h,
         \A j \in DOMAIN objects[h] : ~Idle(objects[h][j]) =>
            /\ known'[h] => Owed' \subseteq Has(objects[h][j])
            /\ Has(objects[h][j]) \subseteq adrift'
  PROVE  \A j \in DOMAIN objects'[h] : ObjectInv(h, j)'
<1> SUFFICES ASSUME NEW j \in DOMAIN objects'[h] PROVE ObjectInv(h, j)'
  OBVIOUS
<1>1. \/ j = Len(objects'[h]) /\ objects'[h][j] = Loaded
      \/ j # Len(objects'[h]) /\ j \in DOMAIN objects[h] /\ objects'[h][j] = objects[h][j]
  BY ReloadShape
<1>2. /\ Fits(Loaded, accepted) /\ Has(Loaded) = Range(file) /\ Idle(Loaded) /\ Loaded.at = "off"
      /\ Owed \subseteq Range(file) /\ accepted \in Nat
  BY LoadedNow, StateNow
<1>3. CASE j = Len(objects'[h]) /\ objects'[h][j] = Loaded
  <2>1. PICK p : p = Loaded
    OBVIOUS
  <2>2. Live(h, j)' => known'[h]
    <3>1. Live(h, j)' => ~Idle(p) \/ known'[h]
      BY <1>3, <2>1 DEF Live, Idle, Waiting
    <3> QED  BY <1>2, <2>1, <3>1
  <2> HIDE DEF Loaded
  <2>3. known'[h] => Primary(h, j)'
    BY <1>3 DEF Primary
  <2>4. GoesFirst(p, Owed')
    BY <1>2, <2>1 DEF GoesFirst
  <2>5. Fits(p, accepted') /\ Owed' \subseteq Has(p) /\ objects'[h][j] = p
    BY <1>2, <1>3, <2>1
  <2> QED  BY <2>2, <2>3, <2>4, <2>5, PutInv
<1>4. CASE j # Len(objects'[h]) /\ j \in DOMAIN objects[h] /\ objects'[h][j] = objects[h][j]
  <2>1. Live(h, j)' => ~Idle(objects[h][j])
    BY <1>4 DEF Live, Idle, Waiting
  <2>2. accepted' \in Nat /\ accepted <= accepted' /\ Owed' \subseteq Owed \cup {n \in Nat : n > accepted}
    BY StateNow
  <2> QED  BY <1>4, <2>1, <2>2, Undisturbed
<1> QED  BY <1>1, <1>3, <1>4

\* The objects of a host whose callers were told.
LEMMA ToldShape ==
  ASSUME InboxInv, NEW h \in Hosts, Alive(h), Told(h)
  PROVE  /\ \A g \in Hosts \ {h} : objects'[g] = objects[g]
         /\ DOMAIN objects'[h] = DOMAIN objects[h] /\ Len(objects'[h]) = Len(objects[h])
         /\ \A j \in DOMAIN objects[h] :
              /\ objects'[h][j].queue = objects[h][j].queue /\ objects'[h][j].inFlight = objects[h][j].inFlight
              /\ objects'[h][j].item = objects[h][j].item /\ objects'[h][j].at = objects[h][j].at
              /\ objects'[h][j].fate = objects[h][j].fate
              /\ Idle(objects[h][j]) => Idle(objects'[h][j])
         /\ Has(Current(h)') = Has(Current(h)) /\ Underway(Current(h)') = Underway(Current(h))
         /\ Current(h)' = objects'[h][Len(objects[h])]
<1> DEFINE k == Len(objects[h])
           o == objects[h][k]
           p == [o EXCEPT !.callers = {}]
<1>1. k \in DOMAIN objects[h] /\ o \in Managed
  BY StateNow, ObjectNow
<1>2. objects' = [objects EXCEPT ![h][k] = p]
  BY DEF Told
<1>3. Current(h) = o
  BY <1>1, ObjectNow
<1> HIDE DEF o, k
<1>4. /\ p \in Managed /\ p.queue = o.queue /\ p.inFlight = o.inFlight /\ p.item = o.item
      /\ p.at = o.at /\ p.fate = o.fate /\ p.callers = {}
  BY <1>1 DEF Managed
<1> HIDE DEF p
<1>5. Waiting(p) = {} /\ (Idle(o) => Idle(p)) /\ Has(p) = Has(o) /\ Underway(p) = Underway(o)
  BY <1>4 DEF Idle, Waiting, Has, Underway
<1>6. /\ objects'[h][k] = p
      /\ \A g \in Hosts : DOMAIN objects'[g] = DOMAIN objects[g] /\ Len(objects'[g]) = Len(objects[g])
      /\ \A g \in Hosts : \A j \in DOMAIN objects[g] : ~(g = h /\ j = k) => objects'[g][j] = objects[g][j]
  BY <1>1, <1>2, <1>4, OneChanges
<1>7. \A g \in Hosts \ {h} : objects'[g] = objects[g]
  <2>1. objects \in [Hosts -> Seq(Managed)]
    BY StateNow
  <2> QED  BY <1>2, <2>1
<1>8. Current(h)' = p
  BY <1>6 DEF Current, Last, k
<1>9. ASSUME NEW j \in DOMAIN objects[h]
      PROVE  /\ objects'[h][j].queue = objects[h][j].queue /\ objects'[h][j].inFlight = objects[h][j].inFlight
             /\ objects'[h][j].item = objects[h][j].item /\ objects'[h][j].at = objects[h][j].at
             /\ objects'[h][j].fate = objects[h][j].fate
             /\ Idle(objects[h][j]) => Idle(objects'[h][j])
  <2>1. CASE j = k
    BY <1>4, <1>5, <1>6, <2>1 DEF o
  <2>2. CASE j # k
    <3>1. objects'[h][j] = objects[h][j]
      BY <1>6, <2>2
    <3> QED  BY <3>1
  <2> QED  BY <2>1, <2>2
<1> QED  BY <1>3, <1>5, <1>6, <1>7, <1>8, <1>9 DEF k

\* The objects of a host whose callers were told, and which may have learnt who owns the agent.
LEMMA ToldWell ==
  ASSUME InboxInv, NEW h \in Hosts, Alive(h), Told(h), accepted' = accepted,
         Owed' \subseteq Owed, adrift \subseteq adrift',
         \A j \in DOMAIN objects[h] :
            /\ known'[h] /\ (~Idle(objects[h][j]) \/ j = Len(objects[h])) => Owed' \subseteq Has(objects[h][j])
            /\ ~Idle(objects[h][j]) => Primary(h, j)' \/ Has(objects[h][j]) \subseteq adrift',
         known'[h] => h = owner'
  PROVE  \A j \in DOMAIN objects'[h] : ObjectInv(h, j)'
<1> SUFFICES ASSUME NEW j \in DOMAIN objects'[h] PROVE ObjectInv(h, j)'
  OBVIOUS
<1>1. /\ j \in DOMAIN objects[h] /\ Len(objects'[h]) = Len(objects[h])
      /\ objects'[h][j].queue = objects[h][j].queue /\ objects'[h][j].inFlight = objects[h][j].inFlight
      /\ objects'[h][j].item = objects[h][j].item /\ objects'[h][j].at = objects[h][j].at
      /\ objects'[h][j].fate = objects[h][j].fate
      /\ Idle(objects[h][j]) => Idle(objects'[h][j])
  BY ToldShape
<1>2. Live(h, j)' => ~Idle(objects[h][j]) \/ (known'[h] /\ j = Len(objects[h]))
  BY <1>1 DEF Live, Idle, Waiting
<1>3. known'[h] /\ j = Len(objects[h]) => Primary(h, j)'
  BY <1>1 DEF Primary
<1>4. accepted' \in Nat /\ accepted <= accepted' /\ Owed' \subseteq Owed \cup {n \in Nat : n > accepted}
  BY StateNow
<1>5. /\ known'[h] /\ Live(h, j)' => Owed' \subseteq Has(objects[h][j])
      /\ Live(h, j)' => Primary(h, j)' \/ Has(objects[h][j]) \subseteq adrift'
  BY <1>1, <1>2, <1>3
<1> QED  BY <1>1, <1>4, <1>5, Undisturbed

\* An object that is not the owner's current one.
LEMMA OthersAdrift ==
  ASSUME InboxInv, NEW h \in Hosts, NEW j \in DOMAIN objects[h], ~Idle(objects[h][j]), ~Primary(h, j)
  PROVE  Has(objects[h][j]) \subseteq adrift
BY ObjectNow DEF ObjectInv, Live

LEMMA StateRefresh ==
  ASSUME InboxInv, NEW h \in Hosts, Refresh(h)
  PROVE  StateInv'
<1>1. /\ Alive(h) /\ known[h] # (owner = h) /\ known' = [known EXCEPT ![h] = owner = h]
      /\ UNCHANGED <<up, owner, file, accepted, settled, spent>>
      /\ known \in [Hosts -> BOOLEAN] /\ owner \in Hosts
  BY StateNow DEF Refresh, Fresh, environment
<1>2. (known'[h] <=> owner = h) /\ (\A g \in Hosts \ {h} : known'[g] = known[g]) /\ Alive(h)'
  BY <1>1 DEF Alive
<1>3. CASE owner = h /\ Reload(h) /\ exposed' = exposed \cup UNION {Lacks(objects[h][k]) : k \in Busy(h)}
  <2>1. ~known[h] /\ exposed \subseteq exposed' /\ adrift \subseteq adrift'
    BY <1>1, <1>3 DEF Reload
  <2>2. Owed' \subseteq Owed /\ Over' \subseteq Over
    BY <1>1, <2>1 DEF Owed, Over
  <2>3. ASSUME NEW j \in DOMAIN objects[h], ~Idle(objects[h][j])
        PROVE  Owed' \subseteq Has(objects[h][j]) /\ Has(objects[h][j]) \subseteq adrift'
    <3>1. Has(objects[h][j]) \subseteq adrift
      BY <2>1, <2>3, OthersAdrift DEF Primary
    <3>2. Lacks(objects[h][j]) \subseteq exposed'
      BY <1>3, <2>3 DEF Busy
    <3>3. (1..accepted \ settled) \ Has(objects[h][j]) \subseteq exposed'
      BY <3>2, ObjectNow DEF Lacks, Unsettled
    <3> QED  BY <1>1, <2>1, <3>1, <3>3 DEF Owed
  <2>4. \A j \in DOMAIN objects'[h] : ObjectInv(h, j)'
    BY <1>1, <1>2, <1>3, <2>1, <2>2, <2>3, ReloadsWell
  <2>5. FileInv'
    BY <1>1, <2>2, FileStays
  <2>6. SpentInv'
    <3>1. Range(file) \cap Over = {}
      BY <1>3, <2>1 DEF InboxInv, StateInv, SpentInv
    <3>2. PICK p : p = Loaded
      OBVIOUS
    <3>3. Current(owner)' = p /\ Has(p) = Range(file) /\ known'[owner']
      BY <1>1, <1>2, <1>3, <3>2, ReloadShape, LoadedNow
    <3>4. Covers(p, Range(file'), Over')
      BY <1>1, <2>2, <3>1, <3>3 DEF Covers
    <3> QED  BY <3>3, <3>4 DEF SpentInv
  <2>7. \A g \in Hosts \ {h} : objects'[g] = objects[g] /\ known'[g] = known[g] /\ up'[g] = up[g]
    BY <1>1, <1>2, <1>3, ReloadShape
  <2> QED  BY <1>1, <1>2, <1>3, <2>1, <2>2, <2>4, <2>5, <2>6, <2>7, HostStep
<1>4. CASE owner # h /\ Told(h) /\ UNCHANGED marks
  <2>1. ~known'[h] /\ UNCHANGED <<exposed, adrift>>
    BY <1>2, <1>4 DEF marks
  <2>2. Owed' = Owed /\ Over' = Over
    BY <1>1, <2>1 DEF Owed, Over
  <2>3. \A j \in DOMAIN objects[h] : ~Idle(objects[h][j]) => Has(objects[h][j]) \subseteq adrift'
    BY <1>4, <2>1, OthersAdrift DEF Primary
  <2>4. \A j \in DOMAIN objects'[h] : ObjectInv(h, j)'
    BY <1>1, <1>4, <2>1, <2>2, <2>3, ToldWell
  <2>5. FileInv'
    BY <1>1, <2>2, FileStays
  <2>6. \A g \in Hosts \ {h} : objects'[g] = objects[g] /\ known'[g] = known[g] /\ up'[g] = up[g]
    BY <1>1, <1>2, <1>4, ToldShape
  <2> QED  BY <1>1, <1>2, <1>4, <2>1, <2>2, <2>4, <2>5, <2>6, HostStep
<1> QED  BY <1>3, <1>4 DEF Refresh

LEMMA StateReloadAll ==
  ASSUME InboxInv, NEW h \in Hosts, ReloadAll(h)
  PROVE  StateInv'
<1>1. /\ Alive(h) /\ Reload(h) /\ known[h] = (owner = h)
      /\ UNCHANGED <<up, owner, known, file, accepted, settled, spent, exposed>>
      /\ known \in [Hosts -> BOOLEAN] /\ owner \in Hosts /\ Alive(h)'
  BY StateNow DEF ReloadAll, Fresh, Alive
<1>2. adrift \subseteq adrift' /\ Owed' = Owed /\ Over' \subseteq Over
  BY <1>1 DEF Reload, Owed, Over
<1>3. Len(objects[h]) \in DOMAIN objects[h] /\ Current(h) = objects[h][Len(objects[h])]
  BY <1>1, StateNow, ObjectNow
<1>4. ~Idle(Current(h)) => Has(Current(h)) \subseteq adrift'
  BY <1>1, <1>3, ObjectNow DEF Reload
<1>5. ASSUME NEW j \in DOMAIN objects[h], ~Idle(objects[h][j])
      PROVE  (known'[h] => Owed' \subseteq Has(objects[h][j])) /\ Has(objects[h][j]) \subseteq adrift'
  <2>1. known[h] => Owed \subseteq Has(objects[h][j])
    BY <1>5, ObjectNow DEF ObjectInv, Live
  <2>2. CASE Primary(h, j)
    BY <1>1, <1>2, <1>3, <1>4, <1>5, <2>1, <2>2 DEF Primary
  <2>3. CASE ~Primary(h, j)
    BY <1>1, <1>2, <1>5, <2>1, <2>3, OthersAdrift
  <2> QED  BY <2>2, <2>3
<1>6. \A j \in DOMAIN objects'[h] : ObjectInv(h, j)'
  BY <1>1, <1>2, <1>5, ReloadsWell
<1>7. FileInv'
  BY <1>1, <1>2, FileStays
<1>8. ASSUME h = owner PROVE SpentInv'
  <2>1. Range(file) \cap Over \subseteq Underway(Current(h)) /\ known[h]
    BY <1>1, <1>8 DEF InboxInv, StateInv, SpentInv, Covers
  <2>2. Underway(Current(h)) \subseteq adrift'
    <3>1. CASE Idle(Current(h))
      BY <3>1 DEF Idle, Underway
    <3>2. CASE ~Idle(Current(h))
      BY <1>4, <3>2, UnderwayHeld
    <3> QED  BY <3>1, <3>2
  <2>3. Range(file) \cap Over' = {}
    BY <1>2, <2>1, <2>2 DEF Over
  <2>4. PICK p : p = Loaded
    OBVIOUS
  <2>5. Current(owner)' = p /\ Has(p) = Range(file) /\ known'[owner']
    BY <1>1, <1>8, <2>1, <2>4, ReloadShape, LoadedNow
  <2>6. Covers(p, Range(file'), Over')
    BY <1>1, <2>3, <2>5 DEF Covers
  <2> QED  BY <2>5, <2>6 DEF SpentInv
<1>9. \A g \in Hosts \ {h} : objects'[g] = objects[g] /\ known'[g] = known[g] /\ up'[g] = up[g]
  BY <1>1, ReloadShape
<1> QED  BY <1>1, <1>2, <1>6, <1>7, <1>8, <1>9, HostStep

LEMMA StateMove ==
  ASSUME InboxInv, NEW h \in Hosts, Move(h)
  PROVE  StateInv'
<1>1. /\ owner' = h /\ owner # h /\ adrift' = adrift \cup HeldBy(owner)
      /\ UNCHANGED <<up, known, objects, file, accepted, settled, spent, exposed>>
      /\ known \in [Hosts -> BOOLEAN] /\ owner \in Hosts /\ accepted \in Nat
  BY StateNow DEF Move
<1>2. Owed' = Owed /\ Over' = Over \ HeldBy(owner)
  BY <1>1 DEF Owed, Over
<1>3. ASSUME NEW g \in Hosts, NEW j \in DOMAIN objects[g]
      PROVE  /\ g = owner => Has(objects[g][j]) \subseteq HeldBy(owner)
             /\ Live(g, j) => Has(objects[g][j]) \subseteq adrift'
  <2>1. g = owner => Has(objects[g][j]) \subseteq HeldBy(owner)
    BY <1>3, ObjectNow DEF HeldBy
  <2>2. Live(g, j) => Primary(g, j) \/ Has(objects[g][j]) \subseteq adrift
    BY <1>3, ObjectNow DEF ObjectInv
  <2> QED  BY <1>1, <2>1, <2>2 DEF Primary
<1>4. ASSUME NEW g \in Hosts, NEW j \in DOMAIN objects'[g] PROVE ObjectInv(g, j)'
  <2>1. j \in DOMAIN objects[g] /\ objects'[g] = objects[g] /\ known'[g] = known[g]
    BY <1>1
  <2>2. Live(g, j)' <=> Live(g, j)
    BY <2>1 DEF Live, Idle, Waiting
  <2>3. /\ known'[g] /\ Live(g, j)' => Owed' \subseteq Has(objects[g][j])
        /\ Live(g, j)' => Primary(g, j)' \/ Has(objects[g][j]) \subseteq adrift'
    BY <1>2, <1>3, <2>1, <2>2, ObjectNow DEF ObjectInv
  <2>4. accepted' \in Nat /\ accepted <= accepted' /\ Owed' \subseteq Owed \cup {n \in Nat : n > accepted}
    BY <1>1, <1>2
  <2> QED  BY <2>1, <2>3, <2>4, Undisturbed
<1>5. \A g \in Hosts : known'[g] => Alive(g)'
  BY <1>1, StateNow DEF Alive
<1>6. FileInv'
  BY <1>1, <1>2, FileStays
<1>7. Range(file) \cap Over' = {}
  <2>1. CASE ~known[owner]
    BY <1>2, <2>1 DEF InboxInv, StateInv, SpentInv
  <2>2. CASE known[owner]
    <3>1. Range(file) \cap Over \subseteq Underway(Current(owner))
      BY <2>2 DEF InboxInv, StateInv, SpentInv, Covers
    <3>2. Len(objects[owner]) \in DOMAIN objects[owner] /\ Current(owner) = objects[owner][Len(objects[owner])]
      BY <1>1, <2>2, StateNow, ObjectNow
    <3>3. Underway(Current(owner)) \subseteq HeldBy(owner)
      BY <1>1, <1>3, <3>2, UnderwayHeld
    <3> QED  BY <1>2, <3>1, <3>3
  <2> QED  BY <2>1, <2>2
<1>8. SpentInv'
  <2>1. CASE ~known[h]
    BY <1>1, <1>7, <2>1 DEF SpentInv
  <2>2. CASE known[h]
    <3>1. Len(objects[h]) \in DOMAIN objects[h] /\ Current(h) = objects[h][Len(objects[h])]
      BY <2>2, StateNow, ObjectNow
    <3>2. Has(Current(h)) \subseteq adrift'
      BY <1>3, <2>2, <3>1, LiveNow
    <3>3. PICK p : p = Current(h)
      OBVIOUS
    <3>4. Current(owner)' = p /\ known'[owner']
      BY <1>1, <2>2, <3>3 DEF Current
    <3>5. Covers(p, Range(file'), Over')
      BY <1>1, <1>7, <3>2, <3>3 DEF Covers, Over
    <3> QED  BY <3>4, <3>5 DEF SpentInv
  <2> QED  BY <2>1, <2>2
<1> QED  BY <1>4, <1>5, <1>6, <1>8 DEF StateInv

\* A host that starts loads its object, and takes the first activation off it if it drains.
LEMMA StateStart ==
  ASSUME InboxInv, NEW h \in Hosts, Start(h)
  PROVE  StateInv'
<1> DEFINE l == Loaded
           o == IF owner = h THEN EnsureDrain("up", l) ELSE l
<1>1. /\ up[h] = "down" /\ up' = [up EXCEPT ![h] = "up"] /\ known' = [known EXCEPT ![h] = owner = h]
      /\ objects' = [objects EXCEPT ![h] = <<o>>] /\ file' = IF o.at = "off" THEN file ELSE Held(o)
      /\ UNCHANGED <<owner, accepted, settled, spent, exposed, adrift>>
  BY DEF Start, DrainsAtStart, history, marks
<1>2. /\ l \in Managed /\ Sound(l) /\ Fits(l, accepted) /\ Has(l) = Range(file)
      /\ Idle(l) /\ Underway(l) = {} /\ l.at = "off" /\ l.inFlight = NoItem /\ l.queue = file
  BY LoadedNow
<1>3. /\ known \in [Hosts -> BOOLEAN] /\ owner \in Hosts /\ file \in Seq(Items) /\ Proper(file, NoItem, accepted)
      /\ objects \in [Hosts -> Seq(Managed)] /\ up \in [Hosts -> {"down", "up", "closing"}] /\ ~known[h]
      /\ Owed \subseteq Range(file) /\ settled \subseteq 1..accepted /\ spent \subseteq 1..accepted
  BY <1>1, StateNow DEF Alive
<1> HIDE DEF l
<1>4. /\ o \in Managed /\ Fits(o, accepted) /\ Has(o) = Range(file) /\ Underway(o) = {}
      /\ o.at = "starting" => o.inFlight = o.item /\ o.item # NoItem
      /\ owner # h => Idle(o)
  <2>1. CASE o = l
    BY <1>2, <2>1
  <2>2. CASE o # l
    <3>1. owner = h /\ l.queue # <<>> /\ o = Taken(l)
      BY <1>2, <2>2, EnsureType
    <3>2. /\ o \in Managed /\ o.queue = Tail(file) /\ o.inFlight = Head(file)
          /\ o.item = Head(file) /\ o.at = "starting" /\ file # <<>>
      BY <1>2, <3>1, TakenType DEF Sound
    <3>3. /\ Proper(o.queue, o.inFlight, accepted) /\ HeldSet(o.queue, o.inFlight) = HeldSet(file, NoItem)
          /\ o.inFlight # NoItem
      BY <1>3, <3>2, TakenProper
    <3>4. Fits(o, accepted) /\ Has(o) = Range(file) /\ Underway(o) = {}
      BY <3>2, <3>3 DEF Fits, PlaceOK, Has, HeldSet, Underway
    <3> QED  BY <3>1, <3>2, <3>3, <3>4
  <2> QED  BY <2>1, <2>2
<1> HIDE DEF o
<1>5. Range(file') = Range(file) /\ Proper(file', NoItem, accepted')
  BY <1>1, <1>3, <1>4, HeldIs
<1>6. Owed' = Owed /\ Over' = Over
  BY <1>1 DEF Owed, Over
<1>7. FileInv'
  BY <1>1, <1>3, <1>5, <1>6 DEF FileInv
<1>8. GoesFirst(o, Owed')
  <2>1. CASE o.at = "starting"
    BY <1>3, <1>4, <1>6, <2>1, HeadFirst
  <2>2. CASE o.at # "starting"
    BY <2>2 DEF GoesFirst
  <2> QED  BY <2>1, <2>2
<1>9. /\ objects'[h] = <<o>> /\ (known'[h] <=> owner = h) /\ Alive(h)'
      /\ \A g \in Hosts \ {h} : objects'[g] = objects[g] /\ known'[g] = known[g] /\ up'[g] = up[g]
  BY <1>1, <1>3 DEF Alive
<1>10. DOMAIN objects'[h] = {1} /\ Len(objects'[h]) = 1 /\ objects'[h][1] = o
  BY <1>9
<1>11. ASSUME NEW j \in DOMAIN objects'[h] PROVE ObjectInv(h, j)'
  <2>1. j = 1 /\ objects'[h][j] = o /\ j = Len(objects'[h])
    BY <1>10, <1>11
  <2>2. Live(h, j)' => known'[h]
    <3>1. Live(h, j)' => ~Idle(o) \/ known'[h]
      BY <2>1 DEF Live, Idle, Waiting
    <3> QED  BY <1>4, <1>9, <3>1
  <2>3. known'[h] => Primary(h, j)'
    BY <1>1, <1>9, <2>1 DEF Primary
  <2>4. Fits(o, accepted') /\ Owed' \subseteq Has(o)
    BY <1>1, <1>3, <1>4, <1>6
  <2> QED  BY <1>8, <2>1, <2>2, <2>3, <2>4, PutInv
<1>12. ASSUME h = owner PROVE SpentInv'
  <2>1. Range(file) \cap Over = {}
    BY <1>3, <1>12 DEF InboxInv, StateInv, SpentInv
  <2>2. Covers(o, Range(file'), Over')
    BY <1>4, <1>5, <1>6, <2>1 DEF Covers
  <2>3. Current(owner)' = o /\ known'[owner']
    BY <1>1, <1>9, <1>10, <1>12 DEF Current, Last
  <2> QED  BY <2>2, <2>3 DEF SpentInv
<1> QED  BY <1>1, <1>5, <1>6, <1>7, <1>9, <1>11, <1>12, HostStep

LEMMA StateClose ==
  ASSUME InboxInv, NEW h \in Hosts, Close(h)
  PROVE  StateInv'
<1>1. /\ Alive(h) /\ known' = [known EXCEPT ![h] = owner = h] /\ Told(h) /\ up' = [up EXCEPT ![h] = "closing"]
      /\ UNCHANGED <<owner, file, accepted, settled, spent>>
      /\ known \in [Hosts -> BOOLEAN] /\ owner \in Hosts /\ up \in [Hosts -> {"down", "up", "closing"}]
  BY StateNow DEF Close, Alive
<1>2. /\ (known'[h] <=> owner = h) /\ Alive(h)'
      /\ \A g \in Hosts \ {h} : objects'[g] = objects[g] /\ known'[g] = known[g] /\ up'[g] = up[g]
  BY <1>1, ToldShape DEF Alive
<1>3. Len(objects[h]) \in DOMAIN objects[h] /\ Current(h) = objects[h][Len(objects[h])]
  BY <1>1, StateNow, ObjectNow
<1>4. exposed \subseteq exposed' /\ adrift \subseteq adrift'
  BY DEF Close, Acquired, marks
<1>5. Owed' \subseteq Owed /\ Over' \subseteq Over
  BY <1>1, <1>4 DEF Owed, Over
<1>6. /\ Has(Current(h)') = Has(Current(h)) /\ Underway(Current(h)') = Underway(Current(h))
  BY <1>1, ToldShape
<1>7. CASE known[h] \/ owner # h
  <2>1. UNCHANGED <<exposed, adrift>>
    BY <1>7 DEF Close, marks
  <2>2. Owed' = Owed /\ Over' = Over
    BY <1>1, <2>1 DEF Owed, Over
  <2>3. ASSUME NEW j \in DOMAIN objects[h]
        PROVE  /\ known'[h] /\ (~Idle(objects[h][j]) \/ j = Len(objects[h])) => Owed' \subseteq Has(objects[h][j])
               /\ ~Idle(objects[h][j]) => Primary(h, j)' \/ Has(objects[h][j]) \subseteq adrift'
    <3>1. known[h] /\ Live(h, j) => Owed \subseteq Has(objects[h][j])
      BY <2>3, ObjectNow DEF ObjectInv
    <3>2. Primary(h, j) => Primary(h, j)'
      <4>1. Len(objects'[h]) = Len(objects[h])
        BY <1>1, ToldShape
      <4> QED  BY <1>1, <1>2, <4>1 DEF Primary
    <3>3. ~Idle(objects[h][j]) => Primary(h, j) \/ Has(objects[h][j]) \subseteq adrift
      BY <2>3, OthersAdrift
    <3> QED  BY <1>2, <1>7, <2>1, <2>2, <3>1, <3>2, <3>3 DEF Live
  <2>4. \A j \in DOMAIN objects'[h] : ObjectInv(h, j)'
    BY <1>1, <1>2, <1>4, <1>5, <2>3, ToldWell
  <2>5. FileInv'
    BY <1>1, <1>5, FileStays
  <2>6. ASSUME h = owner PROVE SpentInv'
    <3>1. Covers(Current(h), Range(file), Over)
      BY <1>7, <2>6 DEF InboxInv, StateInv, SpentInv
    <3>2. Covers(Current(h)', Range(file'), Over')
      BY <1>1, <1>6, <2>2, <3>1 DEF Covers
    <3>3. Current(owner)' = Current(h)' /\ known'[owner']
      BY <1>1, <1>2, <2>6
    <3> QED  BY <3>2, <3>3 DEF SpentInv
  <2> QED  BY <1>1, <1>2, <1>4, <1>5, <2>4, <2>5, <2>6, HostStep
<1>8. CASE ~known[h] /\ owner = h
  <2>1. /\ exposed' = exposed \cup UNION {Lacks(objects[h][k]) : k \in Writers(h)}
        /\ adrift' = adrift \cup Range(Held(Current(h)))
    BY <1>8 DEF Close, Acquired
  <2>2. ASSUME NEW j \in DOMAIN objects[h]
        PROVE  /\ known'[h] /\ (~Idle(objects[h][j]) \/ j = Len(objects[h])) => Owed' \subseteq Has(objects[h][j])
               /\ ~Idle(objects[h][j]) => Primary(h, j)' \/ Has(objects[h][j]) \subseteq adrift'
    <3>1. ASSUME ~Idle(objects[h][j]) \/ j = Len(objects[h]) PROVE Owed' \subseteq Has(objects[h][j])
      <4>1. Lacks(objects[h][j]) \subseteq exposed'
        BY <2>1, <3>1 DEF Busy, Writers
      <4>2. (1..accepted \ settled) \ Has(objects[h][j]) \subseteq exposed'
        BY <2>2, <4>1, ObjectNow DEF Lacks, Unsettled
      <4> QED  BY <1>1, <4>2 DEF Owed
    <3>2. ~Idle(objects[h][j]) => Has(objects[h][j]) \subseteq adrift'
      BY <1>4, <1>8, <2>2, OthersAdrift DEF Primary
    <3> QED  BY <3>1, <3>2
  <2>3. \A j \in DOMAIN objects'[h] : ObjectInv(h, j)'
    BY <1>1, <1>2, <1>4, <1>5, <2>2, ToldWell
  <2>4. FileInv'
    BY <1>1, <1>5, FileStays
  <2>5. SpentInv'
    <3>1. Range(file) \cap Over = {}
      BY <1>8 DEF InboxInv, StateInv, SpentInv
    <3>2. Has(Current(h)) \cap Over' = {}
      BY <1>3, <2>1, ObjectNow DEF Over
    <3>3. Covers(Current(h)', Range(file'), Over')
      BY <1>1, <1>5, <1>6, <3>1, <3>2 DEF Covers
    <3>4. Current(owner)' = Current(h)' /\ known'[owner']
      BY <1>1, <1>2, <1>8
    <3> QED  BY <3>3, <3>4 DEF SpentInv
  <2> QED  BY <1>1, <1>2, <1>4, <1>5, <2>3, <2>4, <2>5, HostStep
<1> QED  BY <1>7, <1>8

\* A host ends: in order, after one more write of the inbox, or not.
LEMMA StateEnd ==
  ASSUME InboxInv, NEW h \in Hosts, CloseEnds(h) \/ HostCrashes(h)
  PROVE  StateInv'
<1>1. /\ Alive(h) /\ known' = [known EXCEPT ![h] = FALSE] /\ objects' = [objects EXCEPT ![h] = <<>>]
      /\ up' = [up EXCEPT ![h] = "down"] /\ UNCHANGED <<owner, accepted, settled, exposed, adrift>>
      /\ known \in [Hosts -> BOOLEAN] /\ owner \in Hosts /\ up \in [Hosts -> {"down", "up", "closing"}]
      /\ objects \in [Hosts -> Seq(Managed)]
  BY StateNow DEF CloseEnds, HostCrashes, Alive, marks
<1>2. /\ ~known'[h] /\ objects'[h] = <<>>
      /\ \A g \in Hosts \ {h} : objects'[g] = objects[g] /\ known'[g] = known[g] /\ up'[g] = up[g]
  BY <1>1
<1>3. /\ Len(objects[h]) \in DOMAIN objects[h] /\ Current(h) = objects[h][Len(objects[h])]
      /\ Current(h) \in Managed /\ Fits(Current(h), accepted)
      /\ known[h] => Owed \subseteq Has(Current(h))
      /\ known[h] => h = owner \/ Has(Current(h)) \subseteq adrift
  <2>1. Len(objects[h]) \in DOMAIN objects[h]
    BY <1>1, StateNow
  <2> QED  BY <2>1, ObjectNow DEF ObjectInv, Live, Primary
<1>4. Owed' = Owed
  BY <1>1 DEF Owed
<1>5. \A j \in DOMAIN objects'[h] : ObjectInv(h, j)'
  <2>1. DOMAIN objects'[h] = {}
    BY <1>2
  <2> QED  BY <2>1
<1>6. /\ Range(file) \cap Over = {} \/ (h = owner /\ known[h]) \/ h # owner
      /\ h = owner /\ known[h] => (Range(file) \cup Has(Current(h))) \cap Over \subseteq Underway(Current(h))
  BY DEF InboxInv, StateInv, SpentInv, Covers
<1>7. CASE CloseEnds(h)
  <2>1. /\ Current(h).at = "off" /\ spent' = spent
        /\ file' = file \/ (known[h] /\ file' = Held(Current(h)))
    BY <1>7 DEF CloseEnds, StoreSafely
  <2>2. Over' = Over /\ Underway(Current(h)) = {}
    BY <1>1, <2>1 DEF Over, Underway
  <2>3. Range(Held(Current(h))) = Has(Current(h)) /\ Proper(Held(Current(h)), NoItem, accepted)
    BY <1>3, HeldIs
  <2>4. FileInv'
    <3>1. Owed' \subseteq Range(file') /\ Proper(file', NoItem, accepted')
      BY <1>1, <1>3, <1>4, <2>1, <2>3, StateNow
    <3> QED  BY <1>1, <2>1, <3>1, StateNow DEF FileInv
  <2>5. h = owner => Range(file') \cap Over' = {}
    BY <1>6, <2>1, <2>2, <2>3
  <2>6. h # owner => Range(file') \cap Over' \subseteq Range(file) \cap Over
    BY <1>3, <2>1, <2>2, <2>3 DEF Over
  <2>7. h = owner => SpentInv'
    BY <1>1, <1>2, <2>5 DEF SpentInv
  <2>8. /\ accepted' = accepted /\ owner' = owner /\ (known'[h] => Alive(h)') /\ Owed' \subseteq Owed
        /\ adrift \subseteq adrift' /\ Over' \subseteq Over
    BY <1>1, <1>2, <1>4, <2>2
  <2> QED  BY <1>2, <1>5, <2>4, <2>6, <2>7, <2>8, HostStep
<1>8. CASE HostCrashes(h)
  <2>1. spent' = spent \ {objects[h][k].inFlight : k \in DOMAIN objects[h]} /\ file' = file
    BY <1>8 DEF HostCrashes
  <2>2. Over' \subseteq Over /\ Current(h).inFlight \notin Over'
    BY <1>1, <1>3, <2>1 DEF Over
  <2>3. Underway(Current(h)) \cap Over' = {}
    BY <2>2 DEF Underway
  <2>4. FileInv'
    BY <1>1, <1>4, <2>1, FileStays
  <2>5. h = owner => Range(file') \cap Over' = {}
    BY <1>6, <2>1, <2>2, <2>3
  <2>6. h = owner => SpentInv'
    BY <1>1, <1>2, <2>5 DEF SpentInv
  <2>7. /\ accepted' = accepted /\ owner' = owner /\ (known'[h] => Alive(h)') /\ Owed' \subseteq Owed
        /\ adrift \subseteq adrift' /\ Range(file') \cap Over' \subseteq Range(file) \cap Over
    BY <1>1, <1>2, <1>4, <2>1, <2>2
  <2> QED  BY <1>2, <1>5, <2>2, <2>4, <2>6, <2>7, HostStep
<1> QED  BY <1>7, <1>8

LEMMA StateNext ==
  ASSUME InboxInv, [InboxNext]_inboxVars
  PROVE  StateInv'
<1>1. CASE UNCHANGED inboxVars
  <2>1. UNCHANGED <<up, owner, known, objects, file, accepted, settled, spent, exposed, adrift>>
    BY <1>1 DEF inboxVars, environment, history, marks
  <2>2. Owed' = Owed /\ Over' = Over
    BY <2>1 DEF Owed, Over
  <2>3. ASSUME NEW g \in Hosts, NEW j \in DOMAIN objects'[g] PROVE ObjectInv(g, j)'
    <3>1. ObjectInv(g, j)
      BY <2>1, <2>3, ObjectNow
    <3> QED  BY <2>1, <2>2, <3>1 DEF ObjectInv, Live, Primary
  <2>4. FileInv' /\ SpentInv' /\ \A g \in Hosts : known'[g] => Alive(g)'
    <3>1. FileInv /\ SpentInv /\ \A g \in Hosts : known[g] => Alive(g)
      BY DEF InboxInv, StateInv
    <3> QED  BY <2>1, <2>2, <3>1 DEF FileInv, SpentInv, Alive, Current
  <2> QED  BY <2>3, <2>4 DEF StateInv
<1>2. ASSUME NEW h \in Hosts,
             \/ Accept(h) \/ Withdraw(h) \/ Halt(h) \/ Drains(h)
             \/ Refresh(h) \/ ReloadAll(h) \/ Move(h)
             \/ Start(h) \/ Close(h) \/ CloseEnds(h) \/ HostCrashes(h)
      PROVE  StateInv'
  BY <1>2, StateAccept, StateWithdraw, StateHalt, StateDrains, StateRefresh, StateReloadAll,
     StateMove, StateStart, StateClose, StateEnd
<1> QED  BY <1>1, <1>2 DEF InboxNext

LEMMA InboxInvariant == InboxSpec => []InboxInv
<1>1. InboxInit => InboxInv
  BY TypesInit, StateInit DEF InboxInv, MarkTypes, InboxInit
<1>2. InboxInv /\ [InboxNext]_inboxVars => InboxInv'
  BY TypesNext, MarksNext, StateNext DEF InboxInv
<1> QED  BY <1>1, <1>2, PTL DEF InboxSpec

(***************************************************************************)
(* What follows.                                                           *)
(***************************************************************************)

\* The activations of an agent are worked one at a time, over all hosts and all objects of
\* them, but for those that were in hand when the agent was taken from a living host or its
\* object was replaced (#ensureDrain, canManagePersistentAgent): whatever works an activation
\* that is not adrift is the current object of the host that owns the agent and knows it.
THEOREM InboxSerial == InboxSpec => []SerialActivation
<1>1. InboxInv => SerialActivation
  <2> SUFFICES ASSUME InboxInv PROVE SerialActivation
    OBVIOUS
  <2> DEFINE W == {w \in UNION {{h} \X DOMAIN objects[h] : h \in Hosts} :
                     Working(w[1], w[2]) /\ objects[w[1]][w[2]].item \notin adrift}
             c == <<owner, Len(objects[owner])>>
  <2>1. ASSUME NEW w \in W PROVE w = c
    <3>1. PICK h \in Hosts : w \in {h} \X DOMAIN objects[h]
      OBVIOUS
    <3>2. PICK k \in DOMAIN objects[h] : w = <<h, k>>
      BY <3>1
    <3>3. Working(h, k) /\ objects[h][k].item \notin adrift
      BY <3>2
    <3>4. objects[h][k].inFlight = objects[h][k].item /\ objects[h][k].item \in Items /\ ~Idle(objects[h][k])
      BY <3>3, ObjectNow DEF Working, PlaceOK, Idle
    <3>5. objects[h][k].item \in Has(objects[h][k])
      BY <3>4, ItemsAreNumbers DEF Has, HeldSet
    <3>6. Primary(h, k)
      BY <3>3, <3>4, <3>5, OthersAdrift
    <3> QED  BY <3>2, <3>6 DEF Primary
  <2>2. W = {} \/ W = {c}
    BY <2>1
  <2> HIDE DEF W, c
  <2>3. Cardinality(W) <= 1
    <3>1. Cardinality({}) = 0
      BY FS_EmptySet
    <3>2. Cardinality({c}) = 1
      BY FS_Singleton
    <3>3. CASE W = {}
      BY <3>1, <3>3
    <3>4. CASE W = {c}
      BY <3>2, <3>4
    <3> QED  BY <2>2, <3>3, <3>4
  <2> QED  BY <2>3 DEF SerialActivation, W
<1> QED  BY <1>1, InboxInvariant, PTL

\* Accepted work survives: what was accepted and has neither ended nor been cancelled is in
\* inbox.json (#persistInbox writes what is in flight before the queue, #loadInbox restores
\* all of it) through crashes, closes, failed writes, reloads and takeovers, also from a
\* living host, unless an object that may write the file did not hold it or let go of it.
THEOREM InboxStored == InboxSpec => []AcceptedIsStored
<1>1. InboxInv => AcceptedIsStored
  BY StateNow DEF Owed, AcceptedIsStored
<1> QED  BY <1>1, InboxInvariant, PTL

\* What begins has nothing that is owed before it.
LEMMA BeginsFirst ==
  ASSUME InboxInv, NEW h \in Hosts, NEW k \in DOMAIN objects[h], Begin(h, k)
  PROVE  /\ objects[h][k].item \notin Over
         /\ 1..(objects[h][k].item - 1) \subseteq settled \cup exposed
<1> DEFINE i == objects[h][k].item
<1>1. objects[h][k].at = "starting"
  BY DEF Begin
<1>2. /\ objects[h][k].inFlight = i /\ i \in Items /\ ~Idle(objects[h][k])
      /\ Owed \cap 1..(i - 1) = {}
  BY <1>1, ObjectNow DEF PlaceOK, Idle, ObjectInv, GoesFirst
<1>3. i \in Has(objects[h][k]) /\ i \in 1..accepted
  <2>1. i \in Has(objects[h][k])
    BY <1>2, ItemsAreNumbers DEF Has, HeldSet
  <2> QED  BY <2>1, ObjectNow
<1>4. 1..(i - 1) \subseteq 1..accepted
  <2>1. accepted \in Nat
    BY StateNow
  <2> QED  BY <1>3, <2>1
<1>5. i \notin Over
  <2>1. CASE Primary(h, k)
    <3>1. Has(objects[h][k]) \cap Over \subseteq Underway(objects[h][k])
      BY <2>1, LiveNow DEF Covers
    <3>2. Underway(objects[h][k]) = {}
      BY <1>1 DEF Underway
    <3> QED  BY <1>3, <3>1, <3>2
  <2>2. CASE ~Primary(h, k)
    BY <1>2, <1>3, <2>2, OthersAdrift DEF Over
  <2> QED  BY <2>1, <2>2
<1> QED  BY <1>2, <1>4, <1>5 DEF Owed

\* Activations begin in the order in which they were accepted: the drain takes the head of the
\* queue; an activation that a close kept (Kept), or that was in flight at a crash, a reload
\* or a takeover, is the first of the file and so the first that is restored.  Only
\* those that were exposed are passed over.
THEOREM InboxInOrder == InboxSpec => InOrder
<1>1. InboxInv /\ [InboxNext]_inboxVars =>
        [\A i \in started' \ started : 1..(i - 1) \subseteq settled \cup exposed]_inboxVars
  <2> SUFFICES ASSUME InboxInv, InboxNext, NEW i \in started' \ started
               PROVE  1..(i - 1) \subseteq settled \cup exposed
    OBVIOUS
  <2>1. PICK h \in Hosts : \E k \in DOMAIN objects[h] : Begin(h, k)
    <3>1. PICK h \in Hosts :
            \/ Accept(h) \/ Withdraw(h) \/ Halt(h) \/ Drains(h)
            \/ Refresh(h) \/ ReloadAll(h) \/ Move(h)
            \/ Start(h) \/ Close(h) \/ CloseEnds(h) \/ HostCrashes(h)
      BY DEF InboxNext
    <3>2. CASE Drains(h)
      BY <3>2 DEF Drains, Invalidate, RunEnds, Deliver, Commit, CommitFails, Leave, NextItem,
                  DrainEnds, PresenceFails, history
    <3>3. CASE ~Drains(h)
      BY <3>1, <3>3 DEF Accept, Withdraw, Halt, Refresh, ReloadAll, Move, Start, Close, CloseEnds,
                        HostCrashes, history
    <3> QED  BY <3>2, <3>3
  <2>2. PICK k \in DOMAIN objects[h] : Begin(h, k)
    BY <2>1
  <2>3. i = objects[h][k].item
    BY <2>2 DEF Begin
  <2> QED  BY <2>2, <2>3, BeginsFirst
<1> QED  BY <1>1, InboxInvariant, PTL DEF InboxSpec, InOrder

\* A run that was over, cancelled or displaced does not begin again, unless a crash, a close
\* or a failed write of inbox.json came in between, or an object held it that has
\* been replaced or whose host lost the agent: the drain takes what is in the
\* queue, and the file that is loaded again holds nothing else.
THEOREM InboxNoNeedlessRun == InboxSpec => NoNeedlessRun
<1>1. InboxInv /\ [InboxNext]_inboxVars =>
        [\A h \in Hosts, i \in Items :
           (\E k \in DOMAIN objects[h] : Begin(h, k) /\ objects[h][k].item = i) => i \notin spent \ adrift]_inboxVars
  BY BeginsFirst DEF Over
<1> QED  BY <1>1, InboxInvariant, PTL DEF InboxSpec, NoNeedlessRun
=============================================================================
