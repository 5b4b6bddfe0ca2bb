-------------------------- MODULE AgentRuns_proofs --------------------------
(***************************************************************************)
(* Proofs about the runs of agents: OneShotAgents, for every set of runs,  *)
(* limit and bound, and then PathLeases, which the runs hold on the files  *)
(* they write, for every set of runs, calls and paths, every lifetime and  *)
(* every capacity.                                                         *)
(***************************************************************************)
EXTENDS OneShotAgents, PathLeases, SequenceTheorems, FiniteSetTheorems, TLAPS

Places == {"none", "queued", "files", "launching", "aborting", "running", "failed", "leaked"}

-----------------------------------------------------------------------------
(* Queues *)

Listed(s, x) == \E i \in DOMAIN s : s[i] = x
Distinct(s) == \A i, j \in DOMAIN s : s[i] = s[j] => i = j

LEMMA AppendListed ==
  ASSUME NEW S, NEW s \in Seq(S), NEW e \in S, Distinct(s), ~Listed(s, e)
  PROVE  /\ Append(s, e) \in Seq(S) /\ Append(s, e) # <<>> /\ Distinct(Append(s, e))
         /\ \A x : Listed(Append(s, e), x) <=> x = e \/ Listed(s, x)
<1>1. /\ Append(s, e) \in Seq(S) /\ Len(Append(s, e)) = Len(s) + 1
      /\ DOMAIN s = 1..Len(s) /\ Len(s) \in Nat /\ DOMAIN Append(s, e) = 1..(Len(s) + 1)
      /\ \A i \in 1..Len(s) : Append(s, e)[i] = s[i]
      /\ Append(s, e)[Len(s) + 1] = e
  BY LenProperties, AppendProperties
<1>2. Append(s, e) # <<>>
  BY <1>1, EmptySeq
<1>3. \A x : Listed(Append(s, e), x) <=> x = e \/ Listed(s, x)
  <2> SUFFICES ASSUME NEW x PROVE Listed(Append(s, e), x) <=> x = e \/ Listed(s, x)
    OBVIOUS
  <2>1. Listed(Append(s, e), x) => x = e \/ Listed(s, x)
    BY <1>1 DEF Listed
  <2>2. x = e => Listed(Append(s, e), x)
    BY <1>1 DEF Listed
  <2>3. Listed(s, x) => Listed(Append(s, e), x)
    BY <1>1 DEF Listed
  <2> QED
    BY <2>1, <2>2, <2>3
<1>4. Distinct(Append(s, e))
  BY <1>1 DEF Distinct, Listed
<1> QED
  BY <1>1, <1>2, <1>3, <1>4

LEMMA TailListed ==
  ASSUME NEW S, NEW s \in Seq(S), s # <<>>, Distinct(s)
  PROVE  /\ Tail(s) \in Seq(S) /\ Head(s) \in S /\ Listed(s, Head(s)) /\ Distinct(Tail(s))
         /\ \A x : Listed(Tail(s), x) <=> x # Head(s) /\ Listed(s, x)
<1>1. /\ Tail(s) \in Seq(S) /\ Head(s) \in S /\ Len(s) \in Nat \ {0}
      /\ DOMAIN s = 1..Len(s) /\ DOMAIN Tail(s) = 1..(Len(s) - 1)
      /\ Head(s) = s[1]
  BY LenProperties, HeadTailProperties, EmptySeq
<1>2. \A i \in 1..(Len(s) - 1) : Tail(s)[i] = s[i + 1] /\ i + 1 \in 1..Len(s) /\ i + 1 # 1
  BY <1>1
<1>3. \A i \in 1..Len(s) : i # 1 => i - 1 \in 1..(Len(s) - 1) /\ Tail(s)[i - 1] = s[i]
  BY <1>1
<1>4. \A x : Listed(Tail(s), x) <=> x # Head(s) /\ Listed(s, x)
  <2> SUFFICES ASSUME NEW x PROVE Listed(Tail(s), x) <=> x # Head(s) /\ Listed(s, x)
    OBVIOUS
  <2>1. Listed(Tail(s), x) => x # Head(s) /\ Listed(s, x)
    BY <1>1, <1>2 DEF Listed, Distinct
  <2>2. x # Head(s) /\ Listed(s, x) => Listed(Tail(s), x)
    BY <1>1, <1>3 DEF Listed
  <2> QED
    BY <2>1, <2>2
<1>5. Listed(s, Head(s))
  BY <1>1 DEF Listed
<1>6. Distinct(Tail(s))
  BY <1>1, <1>2 DEF Distinct
<1> QED
  BY <1>1, <1>4, <1>5, <1>6

LEMMA RemoveListed ==
  ASSUME NEW S, NEW s \in Seq(S), NEW k \in DOMAIN s, Distinct(s)
  PROVE  /\ RemoveAt(s, k) \in Seq(S) /\ Distinct(RemoveAt(s, k))
         /\ RemoveAt(s, k) # <<>> => s # <<>>
         /\ \A x : Listed(RemoveAt(s, k), x) <=> x # s[k] /\ Listed(s, x)
<1> DEFINE r == RemoveAt(s, k)
           before == SubSeq(s, 1, k - 1)
           after == SubSeq(s, k + 1, Len(s))
<1>1. DOMAIN s = 1..Len(s) /\ Len(s) \in Nat /\ k \in 1..Len(s)
  BY LenProperties
<1>2. /\ before \in Seq(S) /\ Len(before) = k - 1
      /\ \A i \in 1..(k - 1) : before[i] = s[i]
  <2>1. \A i \in 1..(k - 1) : s[i] \in S
    BY <1>1, ElementOfSeq
  <2> QED
    BY <2>1, <1>1, SubSeqProperties
<1>3. /\ after \in Seq(S) /\ Len(after) = Len(s) - k
      /\ \A i \in 1..(Len(s) - k) : after[i] = s[k + i]
  <2>1. \A i \in (k + 1)..Len(s) : s[i] \in S
    BY <1>1, ElementOfSeq
  <2> QED
    BY <2>1, <1>1, SubSeqProperties
<1>4. r = before \o after
  BY DEF RemoveAt
<1> HIDE DEF r, before, after
<1>5. /\ r \in Seq(S) /\ Len(r) = Len(s) - 1
      /\ \A i \in 1..(Len(s) - 1) : i < k => r[i] = before[i]
      /\ \A i \in 1..(Len(s) - 1) : ~(i < k) => r[i] = after[i - (k - 1)]
  <2>1. /\ before \o after \in Seq(S)
        /\ Len(before \o after) = Len(before) + Len(after)
        /\ \A i \in 1..(Len(before) + Len(after)) :
             (before \o after)[i] = IF i <= Len(before) THEN before[i] ELSE after[i - Len(before)]
    BY <1>2, <1>3, ConcatProperties
  <2>2. Len(before) + Len(after) = Len(s) - 1
    BY <1>1, <1>2, <1>3
  <2>3. Len(before) = k - 1 /\ k - 1 \in Int
    BY <1>1, <1>2
  <2>4. \A i \in 1..(Len(s) - 1) : (i < k <=> i <= Len(before))
    BY <2>3, <1>1
  <2> QED
    BY <2>1, <2>2, <2>3, <2>4, <1>4
<1>6. /\ DOMAIN r = 1..(Len(s) - 1)
      /\ \A i \in 1..(Len(s) - 1) : i < k => r[i] = s[i]
      /\ \A i \in 1..(Len(s) - 1) : ~(i < k) => r[i] = s[i + 1]
  <2>1. DOMAIN r = 1..(Len(s) - 1)
    BY <1>5, LenProperties
  <2>2. \A i \in 1..(Len(s) - 1) : i < k => i \in 1..(k - 1)
    BY <1>1
  <2>3. \A i \in 1..(Len(s) - 1) : ~(i < k) =>
          i - (k - 1) \in 1..(Len(s) - k) /\ k + (i - (k - 1)) = i + 1
    BY <1>1
  <2> QED
    BY <2>1, <2>2, <2>3, <1>2, <1>3, <1>5
<1>7. Distinct(r)
  <2> SUFFICES ASSUME NEW i \in 1..(Len(s) - 1), NEW j \in 1..(Len(s) - 1), r[i] = r[j] PROVE i = j
    BY <1>6 DEF Distinct
  <2>1. /\ i \in 1..Len(s) /\ j \in 1..Len(s) /\ i + 1 \in 1..Len(s) /\ j + 1 \in 1..Len(s)
        /\ i \in Int /\ j \in Int
    BY <1>1
  <2>2. \A m, n \in 1..Len(s) : s[m] = s[n] => m = n
    BY <1>1 DEF Distinct
  <2>3. CASE i < k /\ j < k
    BY <2>1, <2>2, <2>3, <1>6
  <2>4. CASE ~(i < k) /\ ~(j < k)
    <3>1. i + 1 = j + 1
      BY <2>1, <2>2, <2>4, <1>6
    <3> QED
      BY <3>1, <2>1
  <2>5. CASE i < k /\ ~(j < k)
    <3>1. i = j + 1
      BY <2>1, <2>2, <2>5, <1>6
    <3> QED
      BY <3>1, <2>1, <2>5, <1>1
  <2>6. CASE ~(i < k) /\ j < k
    <3>1. i + 1 = j
      BY <2>1, <2>2, <2>6, <1>6
    <3> QED
      BY <3>1, <2>1, <2>6, <1>1
  <2> QED
    BY <2>3, <2>4, <2>5, <2>6
<1>8. \A x : Listed(r, x) <=> x # s[k] /\ Listed(s, x)
  <2> SUFFICES ASSUME NEW x PROVE Listed(r, x) <=> x # s[k] /\ Listed(s, x)
    OBVIOUS
  <2>1. Listed(r, x) => x # s[k] /\ Listed(s, x)
    BY <1>1, <1>6 DEF Listed, Distinct
  <2>2. ASSUME NEW i \in DOMAIN s, s[i] = x, x # s[k] PROVE Listed(r, x)
    <3>1. CASE i < k
      BY <1>1, <1>6, <2>2, <3>1 DEF Listed
    <3>2. CASE i > k
      <4>1. i - 1 \in 1..(Len(s) - 1) /\ ~(i - 1 < k) /\ (i - 1) + 1 = i
        BY <1>1, <3>2
      <4> QED
        BY <4>1, <1>6, <2>2 DEF Listed
    <3> QED
      BY <3>1, <3>2, <2>2, <1>1
  <2> QED
    BY <2>1, <2>2 DEF Listed
<1>9. s # <<>>
  BY <1>1
<1> QED
  BY <1>5, <1>7, <1>8, <1>9 DEF r

-----------------------------------------------------------------------------
(* The invariant *)

\* The permits: who holds one, who waits for one, and how many are in use.
Holders == {r \in Runs : Holds(r)}

PermitInv ==
  /\ IsFiniteSet(Holders) /\ active = Cardinality(Holders) /\ active <= Limit
  /\ waiters # <<>> => active = Limit
  /\ Distinct(waiters)
  /\ \A r \in Runs : spawn[r] = "queued" <=> Listed(waiters, r)

Lives(r, n) == child[r][n] = "alive"
Childless(r) == \A n \in Attempts : ~Lives(r, n)
Launched(r) == spawn[r] \in {"aborting", "running", "failed"}

\* Only a registered run is monitored, stopped and settled; it has a transport, and
\* one attempt more when its startup is tried again.
RegistrationKnown(r) ==
  /\ monitor[r] # "none" \/ stop[r] # "none" \/ Settled(r) => Registered(r)
  /\ Registered(r) => transport[r] \in Attempts
  /\ monitor[r] \in {"retry", "relaunch"} => transport[r] < MaxAttempts

\* A child that lives is that of the transport the manager knows; before the launch, during
\* a retry and once the transport is found gone there is none.
ChildKnown(r) ==
  /\ \A n \in Attempts : Lives(r, n) => n = transport[r]
  /\ ~Launched(r) => Childless(r) /\ file[r] = NoStatus
  /\ monitor[r] \in {"retry", "relaunch", "dead"} => Childless(r)

\* Until its run is settled, a status file that is there was written by a child that has
\* ended, and the monitor knows what it says.
FileKnown(r) ==
  ~Settled(r) =>
    /\ file[r] # NoStatus => Childless(r)
    /\ monitor[r] = "retry" => file[r] = "retryable"
    /\ monitor[r] \in {"relaunch", "dead"} => file[r] = NoStatus

\* Whoever is about to settle a run has told its child to stop.
ChildTold(r) ==
  Settled(r) \/ spawn[r] \in {"aborting", "failed"} \/ stop[r] = "waiting" \/ monitor[r] = "deadline" =>
    \A n \in Attempts : Lives(r, n) => n \in doomed[r] \cup late[r]

CompletionKept(r) ==
  r \in completed => IF Settled(r) THEN outcome[r] = "completed" ELSE file[r] = "completed"

RunKnown(r) ==
  RegistrationKnown(r) /\ ChildKnown(r) /\ FileKnown(r) /\ ChildTold(r) /\ CompletionKept(r)

RunsInv == \A r \in Runs : RunKnown(r)

OneShotInv == TypeOK /\ PermitInv /\ RunsInv

USE DEF semaphore, process

LEMMA InitOneShot == Init => OneShotInv
<1> SUFFICES ASSUME Init PROVE OneShotInv
  OBVIOUS
<1> USE DEF Init
<1>1. TypeOK
  <2>1. waiters \in Seq(Runs)
    BY EmptySeq
  <2>2. MaxAttempts \in Nat
    BY LimitAssumption
  <2>3. /\ child \in [Runs -> [Attempts -> {"none", "alive", "done", "gone"}]]
        /\ doomed \in [Runs -> SUBSET Attempts] /\ late \in [Runs -> SUBSET Attempts]
        /\ transport \in [Runs -> 0..MaxAttempts]
    BY <2>2
  <2>4. /\ spawn \in [Runs -> Places] /\ aborted \in [Runs -> BOOLEAN]
        /\ file \in [Runs -> Terminal \cup {NoStatus}] /\ outcome \in [Runs -> Terminal \cup {NoStatus}]
    BY DEF Places
  <2> QED
    BY <2>1, <2>3, <2>4 DEF TypeOK, Places
<1>2. PermitInv
  <2>1. Holders = {}
    BY DEF Holders, Holds, Registered
  <2>2. DOMAIN waiters = {}
    BY EmptySeq, LenProperties
  <2>3. active <= Limit
    BY LimitAssumption
  <2> QED
    BY <2>1, <2>2, <2>3, FS_EmptySet DEF PermitInv, Distinct, Listed
<1>3. RunsInv
  BY DEF RunsInv, RunKnown, RegistrationKnown, ChildKnown, FileKnown, ChildTold, CompletionKept, Lives, Childless,
         Launched, Settled, Registered
<1> QED
  BY <1>1, <1>2, <1>3 DEF OneShotInv

-----------------------------------------------------------------------------
(* Permits *)

\* A permit goes from a holder to the first waiter, or is free again.
LEMMA PermitPasses ==
  ASSUME TypeOK, PermitInv, NEW r \in Runs, Holds(r), NEW place \in [Runs -> Places],
         \A q \in Runs \ {r} : place[q] = spawn[q] /\ outcome'[q] = outcome[q],
         place[r] # "queued", Release(place),
         place[r] \in {"files", "launching", "aborting", "leaked"} => FALSE,
         place[r] = "running" => outcome'[r] # NoStatus
  PROVE  /\ active' \in Nat /\ waiters' \in Seq(Runs) /\ spawn' \in [Runs -> Places]
         /\ spawn'[r] = place[r]
         /\ \A q \in Runs \ {r} : spawn'[q] = spawn[q] \/ (spawn[q] = "queued" /\ spawn'[q] = "files")
         /\ PermitInv'
<1>a. spawn[r] # "queued" /\ r \in Holders
  BY DEF Holds, Registered, Holders
<1>b. active \in Nat /\ waiters \in Seq(Runs)
  BY DEF TypeOK
<1>1. CASE waiters = <<>>
  <2>1. active' = active - 1 /\ waiters' = waiters /\ spawn' = place
    BY <1>1 DEF Release
  <2>2. Holders' = Holders \ {r}
    BY <2>1 DEF Holders, Holds, Registered, Settled, Places
  <2>3. /\ IsFiniteSet(Holders \ {r}) /\ Cardinality(Holders \ {r}) = active - 1
        /\ active - 1 \in Nat
    <3>1. IsFiniteSet(Holders \ {r}) /\ Cardinality(Holders \ {r}) = active - 1
      BY <1>a, FS_RemoveElement DEF PermitInv
    <3> QED
      BY <3>1, FS_CardinalityType
  <2>4. active - 1 <= Limit
    BY <1>b, LimitAssumption DEF PermitInv
  <2>5. \A q \in Runs : spawn'[q] = "queued" <=> Listed(waiters, q)
    BY <2>1, <1>a DEF PermitInv
  <2> QED
    BY <2>1, <2>2, <2>3, <2>4, <2>5, <1>1, <1>b DEF PermitInv
<1>2. CASE waiters # <<>>
  <2> DEFINE w == Head(waiters)
  <2>1. active' = active /\ waiters' = Tail(waiters) /\ spawn' = [place EXCEPT ![w] = "files"]
    BY <1>2 DEF Release
  <2>2. /\ Tail(waiters) \in Seq(Runs) /\ w \in Runs /\ Listed(waiters, w) /\ Distinct(Tail(waiters))
        /\ \A q : Listed(Tail(waiters), q) <=> q # w /\ Listed(waiters, q)
    BY <1>b, <1>2, TailListed DEF PermitInv
  <2> HIDE DEF w
  <2>3. spawn[w] = "queued" /\ w # r /\ w \notin Holders
    BY <2>2, <1>a DEF PermitInv, Holders, Holds, Registered
  <2>4. spawn' \in [Runs -> Places] /\ spawn'[w] = "files" /\ \A q \in Runs \ {w} : spawn'[q] = place[q]
    BY <2>1, <2>2 DEF Places
  <2>5. Holders' = (Holders \ {r}) \cup {w}
    <3>1. ASSUME NEW q \in Runs PROVE Holds(q)' <=> q = w \/ (q # r /\ Holds(q))
      <4>1. CASE q = w
        BY <4>1, <2>4 DEF Holds
      <4>2. CASE q = r
        BY <4>2, <2>3, <2>4 DEF Holds, Registered, Settled
      <4>3. CASE q # w /\ q # r
        BY <4>3, <2>4 DEF Holds, Registered, Settled
      <4> QED
        BY <4>1, <4>2, <4>3
    <3> QED
      BY <3>1, <2>2 DEF Holders
  <2>6. IsFiniteSet(Holders') /\ Cardinality(Holders') = active
    <3> DEFINE others == Holders \ {r}
    <3>1. IsFiniteSet(others) /\ Cardinality(others) = active - 1 /\ w \notin others
      BY <1>a, <2>3, FS_RemoveElement DEF PermitInv
    <3>2. Holders' = others \cup {w}
      BY <2>5
    <3> HIDE DEF others
    <3>3. IsFiniteSet(others \cup {w}) /\ Cardinality(others \cup {w}) = Cardinality(others) + 1
      BY <3>1, FS_AddElement
    <3> QED
      BY <3>1, <3>2, <3>3, <1>b
  <2>7. ASSUME NEW q \in Runs PROVE spawn'[q] = "queued" <=> Listed(Tail(waiters), q)
    <3>1. spawn[q] = "queued" <=> Listed(waiters, q)
      BY DEF PermitInv
    <3>2. CASE q = w
      BY <3>2, <2>2, <2>4
    <3>3. CASE q = r
      BY <3>1, <3>3, <2>2, <2>3, <2>4, <1>a
    <3>4. CASE q # w /\ q # r
      BY <3>1, <3>4, <2>2, <2>4
    <3> QED
      BY <3>2, <3>3, <3>4
  <2>8. spawn'[r] = place[r] /\ \A q \in Runs \ {r} :
          spawn'[q] = spawn[q] \/ (spawn[q] = "queued" /\ spawn'[q] = "files")
    BY <2>3, <2>4
  <2> QED
    BY <2>1, <2>2, <2>4, <2>6, <2>7, <2>8, <1>2, <1>b DEF PermitInv
<1> QED
  BY <1>1, <1>2

\* A step that moves a spawn between places that hold a permit, or between places that do not.
LEMMA PermitStays ==
  ASSUME TypeOK, PermitInv, UNCHANGED <<active, waiters>>,
         \A q \in Runs : (Holds(q)' <=> Holds(q)) /\ (spawn'[q] = "queued" <=> spawn[q] = "queued")
  PROVE  PermitInv'
<1>1. Holders' = Holders
  BY DEF Holders
<1> QED
  BY <1>1 DEF PermitInv

\* What is true of the other runs when a step of r moves permits.
OthersMayEnter(r) ==
  \A q \in Runs \ {r} : spawn'[q] = spawn[q] \/ (spawn[q] = "queued" /\ spawn'[q] = "files")

LEMMA SettlesFacts ==
  ASSUME TypeOK, PermitInv, NEW r \in Runs, Registered(r), NEW status,
         ~Settled(r) => status \in Terminal, Settles(r, status)
  PROVE  /\ active' \in Nat /\ waiters' \in Seq(Runs) /\ spawn' \in [Runs -> Places]
         /\ outcome' \in [Runs -> Terminal \cup {NoStatus}]
         /\ spawn'[r] = spawn[r] /\ Settled(r)'
         /\ outcome'[r] = IF Settled(r) THEN outcome[r] ELSE status
         /\ OthersMayEnter(r)
         /\ \A q \in Runs \ {r} : outcome'[q] = outcome[q]
         /\ PermitInv'
<1>0. /\ spawn \in [Runs -> Places] /\ outcome \in [Runs -> Terminal \cup {NoStatus}]
      /\ active \in Nat /\ waiters \in Seq(Runs)
  BY DEF TypeOK, Places
<1>1. CASE Settled(r)
  <2>1. UNCHANGED <<outcome, active, waiters, spawn>>
    BY <1>1 DEF Settles
  <2>2. PermitInv'
    BY <2>1, PermitStays DEF Holds, Registered, Settled
  <2> QED
    BY <1>0, <1>1, <2>1, <2>2 DEF Settled, OthersMayEnter
<1>2. CASE ~Settled(r)
  <2>1. outcome' = [outcome EXCEPT ![r] = status] /\ Release(spawn) /\ status \in Terminal
    BY <1>2 DEF Settles
  <2>2. /\ outcome' \in [Runs -> Terminal \cup {NoStatus}] /\ outcome'[r] = status
        /\ \A q \in Runs \ {r} : outcome'[q] = outcome[q]
    BY <1>0, <2>1
  <2>3. status # NoStatus
    BY <2>1, StatusAssumption
  <2>4. Holds(r) /\ spawn[r] = "running"
    BY <1>2 DEF Holds, Registered
  <2>5. /\ active' \in Nat /\ waiters' \in Seq(Runs) /\ spawn' \in [Runs -> Places]
        /\ spawn'[r] = spawn[r] /\ OthersMayEnter(r) /\ PermitInv'
    BY <1>0, <2>1, <2>2, <2>3, <2>4, PermitPasses DEF OthersMayEnter
  <2> QED
    BY <1>2, <2>2, <2>3, <2>5 DEF Settled
<1> QED
  BY <1>1, <1>2

LEMMA AbandonsFacts ==
  ASSUME TypeOK, PermitInv, NEW r \in Runs, spawn[r] \in {"launching", "aborting"}, Abandons(r),
         UNCHANGED outcome
  PROVE  /\ active' \in Nat /\ waiters' \in Seq(Runs) /\ spawn' \in [Runs -> Places]
         /\ spawn'[r] = "failed" /\ OthersMayEnter(r) /\ PermitInv'
<1> DEFINE place == [spawn EXCEPT ![r] = "failed"]
<1>1. /\ place \in [Runs -> Places] /\ place[r] = "failed"
      /\ \A q \in Runs \ {r} : place[q] = spawn[q] /\ outcome'[q] = outcome[q]
  BY DEF TypeOK, Places
<1>2. Release(place) /\ Holds(r)
  BY DEF Abandons, Holds
<1> HIDE DEF place
<1> QED
  BY <1>1, <1>2, PermitPasses DEF OthersMayEnter

-----------------------------------------------------------------------------
(* Every step keeps the types and the permits *)

\* A step of one run.
RunStep(r) ==
  \/ Spawn(r) \/ Abort(r) \/ SpawnStep(r) \/ MonitorStep(r) \/ AskStop(r) \/ StopStep(r)
  \/ \E n \in Attempts : ChildStep(r, n)

LEMMA PermitNext == OneShotInv /\ [Next]_vars => PermitInv'
<1> SUFFICES ASSUME OneShotInv, [Next]_vars PROVE PermitInv'
  OBVIOUS
<1> USE DEF OneShotInv
<1>0. /\ spawn \in [Runs -> Places] /\ active \in Nat /\ waiters \in Seq(Runs) /\ Limit \in Nat
      /\ \A r \in Runs : Settled(r) => Registered(r)
      /\ \A r \in Runs : monitor[r] # "none" \/ stop[r] # "none" => Registered(r)
  BY LimitAssumption DEF TypeOK, Places, RunsInv, RunKnown, RegistrationKnown
<1>1. ASSUME NEW r \in Runs, Spawn(r) PROVE PermitInv'
  <2>a. ~Listed(waiters, r) /\ r \notin Holders /\ UNCHANGED outcome /\ ~Settled(r)
    BY <1>1, <1>0 DEF Spawn, PermitInv, Holders, Holds, Registered
  <2>1. CASE active < Limit
    <3>1. /\ active' = active + 1 /\ waiters' = waiters /\ spawn' = [spawn EXCEPT ![r] = "files"]
          /\ waiters = <<>>
      BY <2>1, <1>0, <1>1 DEF Spawn, PermitInv
    <3>2. Holders' = Holders \cup {r}
      BY <3>1, <2>a, <1>0 DEF Holders, Holds, Registered, Settled
    <3>3. IsFiniteSet(Holders \cup {r}) /\ Cardinality(Holders \cup {r}) = active + 1
      BY <2>a, FS_AddElement DEF PermitInv
    <3>4. \A q \in Runs : spawn'[q] = "queued" <=> Listed(waiters, q)
      BY <3>1, <2>a, <1>0, <1>1 DEF PermitInv
    <3> QED
      BY <3>1, <3>2, <3>3, <3>4, <2>1, <1>0 DEF PermitInv
  <2>2. CASE ~(active < Limit)
    <3>1. UNCHANGED active /\ waiters' = Append(waiters, r) /\ spawn' = [spawn EXCEPT ![r] = "queued"]
      BY <2>2, <1>1 DEF Spawn
    <3>2. Holders' = Holders
      BY <3>1, <2>a, <1>0 DEF Holders, Holds, Registered, Settled
    <3>3. Distinct(Append(waiters, r)) /\ \A q : Listed(Append(waiters, r), q) <=> q = r \/ Listed(waiters, q)
      BY <2>a, <1>0, AppendListed DEF PermitInv
    <3>4. \A q \in Runs : spawn'[q] = "queued" <=> Listed(waiters', q)
      BY <3>1, <3>3, <1>0 DEF PermitInv
    <3>5. active = Limit
      BY <2>2, <1>0 DEF PermitInv
    <3> QED
      BY <3>1, <3>2, <3>3, <3>4, <3>5 DEF PermitInv
  <2> QED
    BY <2>1, <2>2
<1>2. ASSUME NEW r \in Runs, Abort(r) PROVE PermitInv'
  <2>1. CASE spawn[r] = "queued"
    <3>1. /\ UNCHANGED <<active, outcome>> /\ spawn' = [spawn EXCEPT ![r] = "failed"]
          /\ \E i \in DOMAIN waiters : waiters[i] = r /\ waiters' = RemoveAt(waiters, i)
      BY <2>1, <1>2 DEF Abort
    <3>2. PICK i \in DOMAIN waiters : waiters[i] = r /\ waiters' = RemoveAt(waiters, i)
      BY <3>1
    <3>3. /\ Distinct(waiters') /\ (waiters' # <<>> => waiters # <<>>)
          /\ \A q : Listed(waiters', q) <=> q # r /\ Listed(waiters, q)
      BY <3>2, <1>0, RemoveListed DEF PermitInv
    <3>4. Holders' = Holders
      BY <3>1, <2>1, <1>0 DEF Holders, Holds, Registered, Settled
    <3>5. \A q \in Runs : spawn'[q] = "queued" <=> Listed(waiters', q)
      BY <3>1, <3>3, <1>0 DEF PermitInv
    <3> QED
      BY <3>1, <3>3, <3>4, <3>5 DEF PermitInv
  <2>2. CASE spawn[r] # "queued"
    <3>1. UNCHANGED <<active, waiters, spawn, outcome>>
      BY <2>2, <1>2 DEF Abort
    <3> QED
      BY <3>1, PermitStays DEF Holds, Registered, Settled
  <2> QED
    BY <2>1, <2>2
<1>3. ASSUME NEW r \in Runs, WriteFiles(r) \/ WriteFilesFails(r) \/ Launch(r) PROVE PermitInv'
  <2>1. /\ UNCHANGED <<active, waiters, outcome>>
        /\ \E p \in {"launching", "leaked", "aborting", "running"} : spawn' = [spawn EXCEPT ![r] = p]
        /\ spawn[r] \in {"files", "launching"}
    BY <1>3 DEF WriteFiles, WriteFilesFails, Launch
  <2>2. ~Settled(r)
    BY <2>1, <1>0 DEF Registered
  <2> QED
    BY <2>1, <2>2, <1>0, PermitStays DEF Holds, Registered, Settled
<1>4. ASSUME NEW r \in Runs, LaunchFails(r) \/ AbortedLaunch(r) PROVE PermitInv'
  BY <1>4, AbandonsFacts DEF LaunchFails, AbortedLaunch
<1>5. CASE UNCHANGED <<semaphore, outcome>>
  BY <1>5, PermitStays DEF Holds, Registered, Settled
<1>6. ASSUME NEW r \in Runs, NEW n \in Attempts, ChildStep(r, n) PROVE UNCHANGED <<semaphore, outcome>>
  BY <1>6 DEF ChildStep, ChildCompletes, ChildFails, ChildIsStopped, ChildEnds, ChildSteps
<1>7. ASSUME NEW r \in Runs,
             \/ SeesResult(r) \/ RetryGoesOn(r) \/ RelaunchFails(r) \/ TimesOut(r) \/ ReportsDead(r) \/ StopStep(r)
      PROVE  PermitInv'
  <2>1. Registered(r)
    BY <1>7, <1>0 DEF SeesResult, RetryGoesOn, RelaunchFails, TimesOut, ReportsDead, StopStep, StopBegins,
                      StopEnds, MonitorAt
  <2>2. Result(file[r]) \in Terminal <=> file[r] \in Terminal
    BY DEF Result, Terminal
  <2>3. \/ UNCHANGED <<semaphore, outcome>>
        \/ \E status : (~Settled(r) => status \in Terminal) /\ Settles(r, status)
    <3>1. SeesResult(r) => Settles(r, Result(file[r])) /\ file[r] \in Terminal
      BY DEF SeesResult
    <3>2. RetryGoesOn(r) => Settles(r, "failed") \/ UNCHANGED <<semaphore, outcome>>
      BY DEF RetryGoesOn
    <3>3. RelaunchFails(r) \/ ReportsDead(r) => Settles(r, "failed")
      BY DEF RelaunchFails, ReportsDead
    <3>4. TimesOut(r) => Settles(r, "timed_out") \/ (Settles(r, Result(file[r])) /\ file[r] \in Terminal)
      BY DEF TimesOut, WroteResult
    <3>5. StopBegins(r) =>
            \/ Settles(r, Result(file[r])) /\ (Settled(r) \/ file[r] \in Terminal)
            \/ UNCHANGED <<semaphore, outcome>>
      BY DEF StopBegins
    <3>6. StopEnds(r) => Settles(r, "stopped") \/ (Settles(r, Result(file[r])) /\ file[r] \in Terminal)
      BY DEF StopEnds
    <3>7. {"failed", "timed_out", "stopped"} \subseteq Terminal
      BY DEF Terminal
    <3> QED
      BY <3>1, <3>2, <3>3, <3>4, <3>5, <3>6, <3>7, <2>2, <1>7 DEF StopStep
  <2> QED
    BY <2>1, <2>3, <1>5, SettlesFacts
<1>8. ASSUME NEW r \in Runs,
             \/ RetryBegins(r) \/ Relaunch(r) \/ Deadline(r) \/ SeesDead(r) \/ MonitorEnds(r) \/ AskStop(r)
      PROVE  UNCHANGED <<semaphore, outcome>>
  BY <1>8 DEF RetryBegins, Relaunch, Deadline, SeesDead, MonitorEnds, AskStop
<1>9. CASE Close \/ UNCHANGED vars
  BY <1>5, <1>9 DEF Close, vars
<1> QED
  BY <1>1, <1>2, <1>3, <1>4, <1>5, <1>6, <1>7, <1>8, <1>9 DEF Next, SpawnStep, MonitorStep

LEMMA ResultTerminal == \A status : Result(status) \in Terminal <=> status \in Terminal
BY DEF Result, Terminal

\* The steps that settle a run, with the result they settle it with.
LEMMA SettlingSteps ==
  ASSUME OneShotInv, NEW r \in Runs
  PROVE  /\ monitor[r] # "none" \/ stop[r] # "none" => Registered(r) /\ spawn[r] = "running"
         /\ SeesResult(r) => Settles(r, Result(file[r])) /\ Result(file[r]) \in Terminal
         /\ RetryGoesOn(r) =>
              \/ MayRetry(r) /\ UNCHANGED <<outcome, active, waiters, spawn>>
              \/ ~MayRetry(r) /\ Settles(r, "failed")
         /\ RelaunchFails(r) \/ ReportsDead(r) => Settles(r, "failed")
         /\ TimesOut(r) =>
              \/ WroteResult(r) /\ Settles(r, Result(file[r])) /\ Result(file[r]) \in Terminal
              \/ ~WroteResult(r) /\ Settles(r, "timed_out")
         /\ StopBegins(r) =>
              \/ /\ Settled(r) \/ file[r] \in Terminal
                 /\ Settles(r, Result(file[r])) /\ (~Settled(r) => Result(file[r]) \in Terminal)
              \/ ~Settled(r) /\ file[r] \notin Terminal /\ UNCHANGED <<outcome, active, waiters, spawn>>
         /\ StopEnds(r) =>
              \/ file[r] \in Terminal /\ Settles(r, Result(file[r])) /\ Result(file[r]) \in Terminal
              \/ file[r] \notin Terminal /\ Settles(r, "stopped")
         /\ {"failed", "timed_out", "stopped", "completed"} \subseteq Terminal
<1>1. monitor[r] # "none" \/ stop[r] # "none" => Registered(r) /\ spawn[r] = "running"
  BY DEF OneShotInv, RunsInv, RunKnown, RegistrationKnown, Registered
<1>2. SeesResult(r) => Settles(r, Result(file[r])) /\ Result(file[r]) \in Terminal
  BY ResultTerminal DEF SeesResult
<1>3. RetryGoesOn(r) =>
        \/ MayRetry(r) /\ UNCHANGED <<outcome, active, waiters, spawn>>
        \/ ~MayRetry(r) /\ Settles(r, "failed")
  BY DEF RetryGoesOn
<1>4. RelaunchFails(r) \/ ReportsDead(r) => Settles(r, "failed")
  BY DEF RelaunchFails, ReportsDead
<1>5. TimesOut(r) =>
        \/ WroteResult(r) /\ Settles(r, Result(file[r])) /\ Result(file[r]) \in Terminal
        \/ ~WroteResult(r) /\ Settles(r, "timed_out")
  BY ResultTerminal DEF TimesOut, WroteResult
<1>6. StopBegins(r) =>
        \/ /\ Settled(r) \/ file[r] \in Terminal
           /\ Settles(r, Result(file[r])) /\ (~Settled(r) => Result(file[r]) \in Terminal)
        \/ ~Settled(r) /\ file[r] \notin Terminal /\ UNCHANGED <<outcome, active, waiters, spawn>>
  BY ResultTerminal DEF StopBegins
<1>7. StopEnds(r) =>
        \/ file[r] \in Terminal /\ Settles(r, Result(file[r])) /\ Result(file[r]) \in Terminal
        \/ file[r] \notin Terminal /\ Settles(r, "stopped")
  BY ResultTerminal DEF StopEnds
<1>8. {"failed", "timed_out", "stopped", "completed"} \subseteq Terminal
  BY DEF Terminal
<1> QED
  BY <1>1, <1>2, <1>3, <1>4, <1>5, <1>6, <1>7, <1>8

SettlesFinally(r) ==
  SeesResult(r) \/ RetryGoesOn(r) \/ RelaunchFails(r) \/ TimesOut(r) \/ ReportsDead(r) \/ StopStep(r)

\* What such a step does to the outcome and to the semaphore.
LEMMA SettlingKeeps ==
  ASSUME OneShotInv, NEW r \in Runs, SettlesFinally(r)
  PROVE  /\ active' \in Nat /\ waiters' \in Seq(Runs) /\ spawn' \in [Runs -> Places]
         /\ outcome' \in [Runs -> Terminal \cup {NoStatus}]
         /\ spawn'[r] = spawn[r] /\ spawn[r] = "running" /\ OthersMayEnter(r)
         /\ \A q \in Runs \ {r} : outcome'[q] = outcome[q]
<1>1. Registered(r) /\ spawn[r] = "running"
  BY SettlingSteps DEF SettlesFinally, SeesResult, RetryGoesOn, RelaunchFails, TimesOut, ReportsDead, StopStep,
                       StopBegins, StopEnds, MonitorAt
<1>2. \/ UNCHANGED <<outcome, active, waiters, spawn>>
      \/ \E status : (~Settled(r) => status \in Terminal) /\ Settles(r, status)
  BY SettlingSteps DEF SettlesFinally, StopStep
<1>3. CASE UNCHANGED <<outcome, active, waiters, spawn>>
  BY <1>1, <1>3 DEF OneShotInv, TypeOK, Places, OthersMayEnter
<1> QED
  BY <1>1, <1>2, <1>3, SettlesFacts DEF OneShotInv

LEMMA TypeNext == OneShotInv /\ [Next]_vars => TypeOK'
<1> SUFFICES ASSUME OneShotInv, [Next]_vars PROVE TypeOK'
  OBVIOUS
<1>0. /\ TypeOK /\ PermitInv /\ 1 \in Attempts /\ MaxAttempts \in Nat /\ Attempts = 1..MaxAttempts
      /\ \A r \in Runs : stop[r] # "none" \/ monitor[r] # "none" => transport[r] \in Attempts
      /\ \A r \in Runs : monitor[r] = "relaunch" => transport[r] + 1 \in Attempts
  <2>1. \A r \in Runs : transport[r] \in 0..MaxAttempts
    BY DEF OneShotInv, TypeOK
  <2> QED
    BY <2>1, LimitAssumption DEF OneShotInv, RunsInv, RunKnown, RegistrationKnown, Attempts
<1> HIDE DEF Attempts
<1>1. ASSUME NEW r \in Runs, Spawn(r) PROVE TypeOK'
  <2>1. Append(waiters, r) \in Seq(Runs)
    BY <1>0, AppendProperties DEF TypeOK
  <2>2. waiters' \in Seq(Runs)
    <3>1. waiters' = waiters \/ waiters' = Append(waiters, r)
      BY <1>1 DEF Spawn
    <3>2. waiters \in Seq(Runs)
      BY <1>0 DEF TypeOK
    <3> QED
      BY <3>1, <3>2, <2>1
  <2>a. active' \in Nat
    <3>1. (active' = active + 1 \/ active' = active) /\ active \in Nat
      BY <1>0, <1>1 DEF Spawn, TypeOK
    <3> QED
      BY <3>1
  <2>3. spawn' \in [Runs -> Places]
    <3>1. spawn' = [spawn EXCEPT ![r] = "files"] \/ spawn' = [spawn EXCEPT ![r] = "queued"]
      BY <1>1 DEF Spawn
    <3>2. spawn \in [Runs -> Places]
      BY <1>0 DEF TypeOK, Places
    <3> QED
      BY <3>1, <3>2 DEF Places
  <2>4. UNCHANGED <<aborted, process, file, monitor, stop, outcome, closing, completed, late>>
    BY <1>1 DEF Spawn
  <2> QED
    BY <1>0, <2>2, <2>a, <2>3, <2>4 DEF TypeOK, Places
<1>2. ASSUME NEW r \in Runs, Abort(r) PROVE TypeOK'
  <2>1. waiters' \in Seq(Runs)
    BY <1>0, <1>2, RemoveListed DEF Abort, TypeOK, PermitInv
  <2> QED
    BY <1>0, <1>2, <2>1 DEF TypeOK, Abort
<1>3. ASSUME NEW r \in Runs, WriteFiles(r) \/ WriteFilesFails(r) PROVE TypeOK'
  BY <1>0, <1>3 DEF TypeOK, WriteFiles, WriteFilesFails
<1>4. ASSUME NEW r \in Runs, Launch(r) PROVE TypeOK'
  <2>1. transport' = [transport EXCEPT ![r] = 1] /\ child' = [child EXCEPT ![r][1] = "alive"]
    BY <1>4 DEF Launch, Launches
  <2>2. transport' \in [Runs -> 0..MaxAttempts]
    BY <1>0, <2>1 DEF TypeOK
  <2>3. child' \in [Runs -> [Attempts -> {"none", "alive", "done", "gone"}]]
    BY <1>0, <2>1 DEF TypeOK
  <2>4. /\ UNCHANGED <<active, waiters, aborted, file, stop, outcome, closing, completed, late>>
        /\ \E p \in {"aborting", "running"} : spawn' = [spawn EXCEPT ![r] = p]
        /\ doomed' = doomed \/ doomed' = [doomed EXCEPT ![r] = {1}]
        /\ monitor' = monitor \/ monitor' = [monitor EXCEPT ![r] = "poll"]
    BY <1>4 DEF Launch
  <2>5. spawn' \in [Runs -> Places]
    BY <1>0, <2>4 DEF TypeOK, Places
  <2>6. doomed' \in [Runs -> SUBSET Attempts]
    <3>1. doomed \in [Runs -> SUBSET Attempts] /\ {1} \in SUBSET Attempts
      BY <1>0 DEF TypeOK
    <3> QED
      BY <2>4, <3>1
  <2>7. monitor' \in [Runs -> {"none", "poll", "retry", "relaunch", "deadline", "dead", "over"}]
    BY <1>0, <2>4 DEF TypeOK
  <2> QED
    BY <1>0, <2>2, <2>3, <2>4, <2>5, <2>6, <2>7 DEF TypeOK, Places
<1>5. ASSUME NEW r \in Runs, LaunchFails(r) \/ AbortedLaunch(r) PROVE TypeOK'
  <2>1. /\ active' \in Nat /\ waiters' \in Seq(Runs) /\ spawn' \in [Runs -> Places]
        /\ UNCHANGED <<aborted, process, file, monitor, stop, outcome, closing, completed, late>>
    BY <1>0, <1>5, AbandonsFacts DEF LaunchFails, AbortedLaunch
  <2> QED
    BY <1>0, <2>1 DEF TypeOK, Places
<1>6. ASSUME NEW r \in Runs, NEW n \in Attempts, ChildStep(r, n) PROVE TypeOK'
  <2>1. /\ \E after \in {"done", "gone"} : child' = [child EXCEPT ![r][n] = after]
        /\ UNCHANGED <<semaphore, aborted, doomed, transport, monitor, stop, outcome, closing, late>>
        /\ file' = file \/ \E status \in Terminal : file' = [file EXCEPT ![r] = status]
        /\ completed' \in {completed, completed \cup {r}}
    BY <1>6 DEF ChildStep, ChildCompletes, ChildFails, ChildIsStopped, ChildEnds, ChildSteps, Terminal
  <2>2. child' \in [Runs -> [Attempts -> {"none", "alive", "done", "gone"}]]
    BY <1>0, <2>1 DEF TypeOK
  <2>3. file' \in [Runs -> Terminal \cup {NoStatus}]
    BY <1>0, <2>1 DEF TypeOK
  <2> QED
    BY <1>0, <2>1, <2>2, <2>3 DEF TypeOK
<1>7. ASSUME NEW r \in Runs, SettlesFinally(r) PROVE TypeOK'
  <2>1. /\ active' \in Nat /\ waiters' \in Seq(Runs) /\ spawn' \in [Runs -> Places]
        /\ outcome' \in [Runs -> Terminal \cup {NoStatus}]
    BY <1>7, SettlingKeeps
  <2>2. /\ UNCHANGED <<aborted, child, transport, closing, completed, late>>
        /\ file' = file \/ \E status \in Terminal \cup {NoStatus} : file' = [file EXCEPT ![r] = status]
        /\ monitor' = monitor \/ \E p \in {"over", "relaunch"} : monitor' = [monitor EXCEPT ![r] = p]
        /\ stop' = stop \/ \E p \in {"over", "waiting"} : stop' = [stop EXCEPT ![r] = p]
        /\ doomed' = doomed \/ (stop[r] # "none" /\ Dooms(r))
    BY <1>7 DEF SettlesFinally, SeesResult, RetryGoesOn, RelaunchFails, TimesOut, ReportsDead, StopStep, StopBegins,
                StopEnds, Monitors, Terminal
  <2>3. doomed' \in [Runs -> SUBSET Attempts]
    <3>1. CASE stop[r] # "none" /\ Dooms(r)
      <4>1. doomed' = [doomed EXCEPT ![r] = @ \cup {transport[r]}] /\ transport[r] \in Attempts
        BY <1>0, <3>1 DEF Dooms
      <4>2. doomed \in [Runs -> SUBSET Attempts] /\ doomed[r] \cup {transport[r]} \in SUBSET Attempts
        BY <1>0, <4>1 DEF TypeOK
      <4> QED
        BY <4>1, <4>2
    <3> QED
      BY <1>0, <2>2, <3>1 DEF TypeOK
  <2>4. file' \in [Runs -> Terminal \cup {NoStatus}]
    BY <1>0, <2>2 DEF TypeOK
  <2>5. monitor' \in [Runs -> {"none", "poll", "retry", "relaunch", "deadline", "dead", "over"}]
    BY <1>0, <2>2 DEF TypeOK
  <2>6. stop' \in [Runs -> {"none", "asked", "waiting", "over"}]
    BY <1>0, <2>2 DEF TypeOK
  <2> QED
    BY <1>0, <2>1, <2>2, <2>3, <2>4, <2>5, <2>6 DEF TypeOK, Places
<1>8. ASSUME NEW r \in Runs, RetryBegins(r) \/ SeesDead(r) \/ MonitorEnds(r) \/ AskStop(r) PROVE TypeOK'
  BY <1>0, <1>8 DEF TypeOK, RetryBegins, SeesDead, MonitorEnds, AskStop, Monitors
<1>9. ASSUME NEW r \in Runs, Relaunch(r) PROVE TypeOK'
  <2> DEFINE n == transport[r] + 1
  <2>1. n \in Attempts /\ n \in 0..MaxAttempts
    BY <1>0, <1>9 DEF Relaunch, MonitorAt
  <2>2. /\ transport' = [transport EXCEPT ![r] = n] /\ child' = [child EXCEPT ![r][n] = "alive"]
        /\ late' = late \/ late' = [late EXCEPT ![r] = @ \cup {n}]
        /\ monitor' = [monitor EXCEPT ![r] = "poll"]
        /\ UNCHANGED <<semaphore, aborted, doomed, file, stop, outcome, closing, completed>>
    BY <1>9 DEF Relaunch, Launches, Monitors
  <2> HIDE DEF n
  <2>3. child' \in [Runs -> [Attempts -> {"none", "alive", "done", "gone"}]]
    BY <1>0, <2>1, <2>2 DEF TypeOK
  <2>4. transport' \in [Runs -> 0..MaxAttempts]
    BY <1>0, <2>1, <2>2 DEF TypeOK
  <2>5. late' \in [Runs -> SUBSET Attempts]
    <3>1. late \in [Runs -> SUBSET Attempts] /\ late[r] \cup {n} \in SUBSET Attempts
      BY <1>0, <2>1 DEF TypeOK
    <3> QED
      BY <2>2, <3>1
  <2>6. monitor' \in [Runs -> {"none", "poll", "retry", "relaunch", "deadline", "dead", "over"}]
    BY <1>0, <2>2 DEF TypeOK
  <2> QED
    BY <1>0, <2>2, <2>3, <2>4, <2>5, <2>6 DEF TypeOK
<1>10. ASSUME NEW r \in Runs, Deadline(r) PROVE TypeOK'
  <2>1. transport[r] \in Attempts
    BY <1>0, <1>10 DEF Deadline, MonitorAt
  <2> QED
    BY <1>0, <1>10, <2>1 DEF TypeOK, Deadline, Dooms, Monitors
<1>11. CASE Close
  BY <1>0, <1>11 DEF TypeOK, Close
<1>12. CASE UNCHANGED vars
  BY <1>0, <1>12 DEF TypeOK, vars
<1> QED
  BY <1>1, <1>2, <1>3, <1>4, <1>5, <1>6, <1>7, <1>8, <1>9, <1>10, <1>11, <1>12
  DEF Next, SpawnStep, MonitorStep, SettlesFinally

-----------------------------------------------------------------------------
(* Every step keeps what is known of the runs *)

\* What a step of another run leaves of a run: it may get a permit.
LeftAlone(q) ==
  /\ spawn'[q] = spawn[q] \/ (spawn[q] = "queued" /\ spawn'[q] = "files")
  /\ child'[q] = child[q] /\ doomed'[q] = doomed[q] /\ transport'[q] = transport[q]
  /\ file'[q] = file[q] /\ monitor'[q] = monitor[q] /\ stop'[q] = stop[q]
  /\ outcome'[q] = outcome[q] /\ late'[q] = late[q]
  /\ q \in completed' => q \in completed

LEMMA LeftAloneKnown ==
  ASSUME NEW q \in Runs, RunKnown(q), LeftAlone(q) PROVE RunKnown(q)'
<1> USE DEF RunKnown, LeftAlone, Settled, Registered, Lives
<1>1. RegistrationKnown(q)'
  BY DEF RegistrationKnown
<1>2. ChildKnown(q)'
  BY DEF ChildKnown, Childless, Launched
<1>3. FileKnown(q)'
  BY DEF FileKnown, Childless
<1>4. ChildTold(q)'
  BY DEF ChildTold
<1>5. CompletionKept(q)'
  BY DEF CompletionKept
<1> QED
  BY <1>1, <1>2, <1>3, <1>4, <1>5

LEMMA OthersLeft ==
  ASSUME OneShotInv, NEW r \in Runs, RunStep(r), NEW q \in Runs \ {r} PROVE LeftAlone(q)
<1> USE DEF OneShotInv, LeftAlone
<1>0. TypeOK
  OBVIOUS
<1>1. CASE Spawn(r) \/ Abort(r) \/ AskStop(r)
  BY <1>0, <1>1 DEF Spawn, Abort, AskStop, TypeOK
<1>2. CASE WriteFiles(r) \/ WriteFilesFails(r) \/ Launch(r)
  BY <1>0, <1>2 DEF WriteFiles, WriteFilesFails, Launch, Launches, TypeOK
<1>3. CASE LaunchFails(r) \/ AbortedLaunch(r)
  BY <1>3, AbandonsFacts DEF LaunchFails, AbortedLaunch, OthersMayEnter
<1>4. ASSUME NEW n \in Attempts, ChildStep(r, n) PROVE LeftAlone(q)
  BY <1>0, <1>4 DEF ChildStep, ChildCompletes, ChildFails, ChildIsStopped, ChildEnds, ChildSteps, TypeOK
<1>5. CASE SettlesFinally(r)
  <2>1. /\ UNCHANGED <<child, transport, completed, late>>
        /\ file'[q] = file[q] /\ monitor'[q] = monitor[q] /\ stop'[q] = stop[q] /\ doomed'[q] = doomed[q]
    BY <1>0, <1>5 DEF SettlesFinally, SeesResult, RetryGoesOn, RelaunchFails, TimesOut, ReportsDead, StopStep,
                      StopBegins, StopEnds, Monitors, Dooms, TypeOK
  <2> QED
    BY <1>5, <2>1, SettlingKeeps DEF OthersMayEnter
<1>6. CASE RetryBegins(r) \/ SeesDead(r) \/ MonitorEnds(r) \/ Relaunch(r) \/ Deadline(r)
  BY <1>0, <1>6 DEF RetryBegins, SeesDead, MonitorEnds, Relaunch, Launches, Deadline, Dooms, Monitors, TypeOK
<1> QED
  BY <1>1, <1>2, <1>3, <1>4, <1>5, <1>6 DEF RunStep, SpawnStep, MonitorStep, SettlesFinally

\* A spawn that only moves, or gives up, before its child is launched.
LEMMA SpawnKnown ==
  ASSUME OneShotInv, NEW r \in Runs,
         Spawn(r) \/ Abort(r) \/ WriteFiles(r) \/ WriteFilesFails(r) \/ LaunchFails(r) \/ AbortedLaunch(r)
  PROVE  RunKnown(r)'
<1>0. TypeOK /\ RunKnown(r)
  BY DEF OneShotInv, RunsInv
<1>1. /\ UNCHANGED <<child, doomed, transport, file, monitor, outcome, late, completed>>
      /\ \/ /\ spawn[r] \in {"none", "queued", "files", "launching"} /\ stop'[r] = stop[r]
            /\ spawn'[r] \in {"queued", "files", "launching", "leaked", "failed"}
         \/ /\ spawn[r] = "aborting" /\ spawn'[r] = "failed" /\ stop'[r] = stop[r]
         \/ /\ spawn'[r] = spawn[r]
            /\ stop'[r] = stop[r] \/ (Registered(r) /\ stop[r] = "none" /\ stop'[r] = "asked")
  <2>1. CASE Spawn(r) \/ WriteFiles(r) \/ WriteFilesFails(r)
    BY <1>0, <2>1 DEF Spawn, WriteFiles, WriteFilesFails, TypeOK
  <2>2. CASE Abort(r)
    BY <1>0, <2>2 DEF Abort, TypeOK
  <2>3. CASE LaunchFails(r) \/ AbortedLaunch(r)
    BY <2>3, AbandonsFacts DEF LaunchFails, AbortedLaunch, OneShotInv
  <2> QED
    BY <2>1, <2>2, <2>3
<1> USE <1>0, <1>1 DEF RunKnown, Settled, Registered, Lives
<1>2. RegistrationKnown(r)'
  BY DEF RegistrationKnown
<1>3. ChildKnown(r)'
  BY DEF ChildKnown, Childless, Launched
<1>4. FileKnown(r)'
  BY DEF FileKnown, Childless
<1>5. ChildTold(r)'
  BY DEF ChildTold, ChildKnown, Childless, Launched
<1>6. CompletionKept(r)'
  BY DEF CompletionKept
<1> QED
  BY <1>2, <1>3, <1>4, <1>5, <1>6

LEMMA LaunchKnown ==
  ASSUME OneShotInv, NEW r \in Runs, Launch(r) PROVE RunKnown(r)'
<1>0. TypeOK /\ RunKnown(r) /\ 1 \in Attempts
  BY LimitAssumption DEF OneShotInv, RunsInv, Attempts
<1>1. /\ UNCHANGED <<file, stop, outcome, late, completed>> /\ spawn[r] = "launching"
      /\ child'[r] = [child[r] EXCEPT ![1] = "alive"] /\ transport'[r] = 1
      /\ \/ spawn'[r] = "aborting" /\ doomed'[r] = {1} /\ monitor'[r] = monitor[r]
         \/ spawn'[r] = "running" /\ monitor'[r] = "poll"
  BY <1>0 DEF Launch, Launches, TypeOK
<1>2. /\ Childless(r) /\ file[r] = NoStatus /\ monitor[r] = "none" /\ stop[r] = "none" /\ ~Settled(r)
      /\ r \notin completed
  <2>1. ~Registered(r) /\ ~Launched(r) /\ NoStatus # "completed"
    BY <1>1, StatusAssumption DEF Registered, Launched, Terminal
  <2> QED
    BY <2>1, <1>0 DEF RunKnown, RegistrationKnown, ChildKnown, CompletionKept
<1>3. \A n \in Attempts : Lives(r, n)' <=> n = 1
  BY <1>0, <1>1, <1>2 DEF Lives, Childless, TypeOK
<1> USE <1>0, <1>1, <1>2, <1>3 DEF Settled, Registered
<1>4. RegistrationKnown(r)'
  BY DEF RegistrationKnown
<1>5. ChildKnown(r)' /\ FileKnown(r)'
  BY DEF ChildKnown, FileKnown, Launched
<1>6. ChildTold(r)'
  BY DEF ChildTold
<1>7. CompletionKept(r)'
  BY DEF CompletionKept
<1> QED
  BY <1>4, <1>5, <1>6, <1>7 DEF RunKnown

\* A child that writes its status, or ends without.
LEMMA ChildStepKnown ==
  ASSUME OneShotInv, NEW r \in Runs, NEW n \in Attempts, ChildStep(r, n) PROVE RunKnown(r)'
<1>0. TypeOK /\ RunKnown(r)
  BY DEF OneShotInv, RunsInv
<1>1. /\ Lives(r, n) /\ UNCHANGED <<spawn, doomed, transport, monitor, stop, outcome, late>>
      /\ \E after \in {"done", "gone"} : child'[r] = [child[r] EXCEPT ![n] = after]
      /\ \/ file'[r] \in Terminal
         \/ file'[r] = file[r]
  BY <1>0 DEF ChildStep, ChildCompletes, ChildFails, ChildIsStopped, ChildEnds, ChildSteps, Terminal, Lives, TypeOK
<1>2. Childless(r)' /\ n = transport[r] /\ Launched(r)
  BY <1>0, <1>1 DEF RunKnown, ChildKnown, Childless, Lives, TypeOK
<1>3. monitor[r] \notin {"retry", "relaunch", "dead"} /\ (~Settled(r) => file[r] = NoStatus)
  BY <1>0, <1>1 DEF RunKnown, ChildKnown, FileKnown, Childless
<1>4. \/ /\ completed' = completed
         /\ r \in completed => Settled(r)
      \/ file'[r] = "completed" /\ completed' = IF Settled(r) THEN completed ELSE completed \cup {r}
  <2>1. r \in completed => Settled(r)
    BY <1>0, <1>3, StatusAssumption DEF RunKnown, CompletionKept, Terminal
  <2> QED
    BY <1>0, <2>1 DEF ChildStep, ChildCompletes, ChildFails, ChildIsStopped, ChildEnds, TypeOK
<1> USE <1>0, <1>1, <1>2, <1>3, <1>4 DEF RunKnown, Settled, Registered
<1>5. RegistrationKnown(r)'
  BY DEF RegistrationKnown
<1>6. ChildKnown(r)' /\ FileKnown(r)' /\ ChildTold(r)'
  BY DEF ChildKnown, FileKnown, ChildTold, Childless, Launched
<1>7. CompletionKept(r)'
  BY DEF CompletionKept
<1> QED
  BY <1>5, <1>6, <1>7

\* The monitor's and stop's steps that settle nothing.
LEMMA MonitorKnown ==
  ASSUME OneShotInv, NEW r \in Runs,
         RetryBegins(r) \/ SeesDead(r) \/ MonitorEnds(r) \/ Deadline(r) \/ AskStop(r)
  PROVE  RunKnown(r)'
<1>0. TypeOK /\ RunKnown(r)
  BY DEF OneShotInv, RunsInv
<1>a. /\ UNCHANGED <<spawn, child, transport, file, outcome, late, completed>>
      /\ doomed'[r] = doomed[r] \/ doomed'[r] = doomed[r] \cup {transport[r]}
  BY <1>0 DEF RetryBegins, SeesDead, MonitorEnds, Deadline, AskStop, Dooms, TypeOK
<1>b. CompletionKept(r)'
  BY <1>0, <1>a DEF RunKnown, CompletionKept, Settled
<1> USE DEF RunKnown, Settled, Registered, Lives
<1>1. CASE RetryBegins(r)
  <2>1. /\ monitor[r] = "poll" /\ monitor'[r] = "retry" /\ stop' = stop /\ doomed' = doomed
        /\ file[r] = "retryable" /\ transport[r] < MaxAttempts /\ ~Settled(r)
    BY <1>0, <1>1 DEF RetryBegins, MayRetry, MonitorAt, Monitors, TypeOK
  <2>2. Childless(r) /\ spawn[r] = "running"
    BY <1>0, <2>1, StatusAssumption DEF FileKnown, RegistrationKnown, Terminal
  <2> QED
    BY <1>0, <1>a, <1>b, <2>1, <2>2 DEF RegistrationKnown, ChildKnown, FileKnown, ChildTold, Childless, Launched
<1>2. CASE SeesDead(r)
  <2>1. /\ monitor[r] = "poll" /\ monitor'[r] = "dead" /\ stop' = stop /\ doomed' = doomed
        /\ file[r] = NoStatus /\ child[r][transport[r]] = "gone"
    BY <1>0, <1>2 DEF SeesDead, MonitorAt, Monitors, TypeOK
  <2>2. Childless(r) /\ spawn[r] = "running"
    BY <1>0, <2>1 DEF ChildKnown, Childless, RegistrationKnown
  <2> QED
    BY <1>0, <1>a, <1>b, <2>1, <2>2 DEF RegistrationKnown, ChildKnown, FileKnown, ChildTold, Childless, Launched
<1>3. CASE MonitorEnds(r)
  <2>1. monitor[r] = "poll" /\ monitor'[r] = "over" /\ stop' = stop /\ doomed' = doomed
    BY <1>0, <1>3 DEF MonitorEnds, MonitorAt, Monitors, TypeOK
  <2> QED
    BY <1>0, <1>a, <1>b, <2>1 DEF RegistrationKnown, ChildKnown, FileKnown, ChildTold, Childless, Launched
<1>4. CASE Deadline(r)
  <2>1. /\ monitor[r] = "poll" /\ monitor'[r] = "deadline" /\ stop' = stop
        /\ doomed'[r] = doomed[r] \cup {transport[r]}
    BY <1>0, <1>4 DEF Deadline, Dooms, MonitorAt, Monitors, TypeOK
  <2>2. ChildTold(r)'
    BY <1>0, <1>a, <2>1 DEF ChildTold, ChildKnown
  <2> QED
    BY <1>0, <1>a, <1>b, <2>1, <2>2 DEF RegistrationKnown, ChildKnown, FileKnown, Childless, Launched
<1>5. CASE AskStop(r)
  <2>1. spawn[r] = "running" /\ stop[r] = "none" /\ stop'[r] = "asked" /\ monitor' = monitor /\ doomed' = doomed
    BY <1>0, <1>5 DEF AskStop, TypeOK
  <2> QED
    BY <1>0, <1>a, <1>b, <2>1 DEF RegistrationKnown, ChildKnown, FileKnown, ChildTold, Childless, Launched
<1> QED
  BY <1>1, <1>2, <1>3, <1>4, <1>5

LEMMA RelaunchKnown ==
  ASSUME OneShotInv, NEW r \in Runs, Relaunch(r) PROVE RunKnown(r)'
<1> DEFINE n == transport[r] + 1
<1>0. TypeOK /\ RunKnown(r)
  BY DEF OneShotInv, RunsInv
<1>1. /\ UNCHANGED <<spawn, doomed, file, stop, outcome, completed>>
      /\ monitor[r] = "relaunch" /\ monitor'[r] = "poll" /\ transport'[r] = n
      /\ child'[r] = [child[r] EXCEPT ![n] = "alive"]
      /\ late'[r] = IF Settled(r) \/ stop[r] # "none" THEN late[r] \cup {n} ELSE late[r]
  BY <1>0 DEF Relaunch, Launches, MonitorAt, Monitors, TypeOK
<1>2. Childless(r) /\ spawn[r] = "running" /\ (~Settled(r) => file[r] = NoStatus)
  BY <1>0, <1>1 DEF RunKnown, RegistrationKnown, ChildKnown, FileKnown, Registered
<1>3. n \in Attempts
  <2>1. transport[r] < MaxAttempts /\ transport[r] \in 0..MaxAttempts /\ MaxAttempts \in Nat
    BY <1>0, <1>1, LimitAssumption DEF RunKnown, RegistrationKnown, TypeOK
  <2> QED
    BY <2>1 DEF Attempts
<1> HIDE DEF n
<1>4. \A m \in Attempts : Lives(r, m)' <=> m = n
  BY <1>0, <1>1, <1>2, <1>3 DEF Lives, Childless, TypeOK
<1> USE <1>0, <1>1, <1>2, <1>3, <1>4 DEF RunKnown, Settled, Registered
<1>5. RegistrationKnown(r)'
  BY DEF RegistrationKnown
<1>6. ChildKnown(r)' /\ FileKnown(r)'
  BY DEF ChildKnown, FileKnown, Launched
<1>7. ChildTold(r)'
  BY DEF ChildTold
<1>8. CompletionKept(r)'
  BY DEF CompletionKept
<1> QED
  BY <1>5, <1>6, <1>7, <1>8

\* A step that settles a run whose child has ended, or was told, and whose result is what the
\* child wrote if it wrote one.
LEMMA SettledKnown ==
  ASSUME OneShotInv, NEW r \in Runs, Registered(r), NEW status, ~Settled(r) => status \in Terminal,
         Settles(r, status), UNCHANGED <<child, transport, doomed, late, completed>>,
         monitor'[r] = monitor[r] \/ monitor'[r] = "over",
         \A n \in Attempts : Lives(r, n) => n \in doomed[r] \cup late[r],
         ~Settled(r) /\ r \in completed => status = "completed"
  PROVE  RunKnown(r)'
<1>0. /\ TypeOK /\ RunKnown(r) /\ spawn'[r] = "running" /\ spawn[r] = "running" /\ Settled(r)'
      /\ outcome'[r] = IF Settled(r) THEN outcome[r] ELSE status
  BY SettlesFacts DEF OneShotInv, RunsInv, Registered
<1> USE <1>0 DEF RunKnown, Registered, Lives
<1>1. RegistrationKnown(r)'
  BY DEF RegistrationKnown
<1>2. ChildKnown(r)'
  BY DEF ChildKnown, Childless, Launched
<1>3. FileKnown(r)' /\ ChildTold(r)'
  BY DEF FileKnown, ChildTold
<1>4. CompletionKept(r)'
  BY DEF CompletionKept
<1> QED
  BY <1>1, <1>2, <1>3, <1>4

LEMMA SettlingKnown ==
  ASSUME OneShotInv, NEW r \in Runs, SettlesFinally(r) PROVE RunKnown(r)'
<1>0. TypeOK /\ RunKnown(r)
  BY DEF OneShotInv, RunsInv
<1>a. /\ ~Settled(r) /\ file[r] # NoStatus => Childless(r)
      /\ ~Settled(r) /\ r \in completed => file[r] = "completed"
      /\ Settled(r) => \A n \in Attempts : Lives(r, n) => n \in doomed[r] \cup late[r]
  BY <1>0 DEF RunKnown, FileKnown, CompletionKept, ChildTold
<1>b. /\ file[r] \in Terminal <=> file[r] # NoStatus
      /\ file[r] = "completed" => Result(file[r]) = "completed" /\ WroteResult(r)
  BY <1>0, StatusAssumption DEF TypeOK, Result, WroteResult, Terminal
<1>c. Childless(r) => \A n \in Attempts : Lives(r, n) => n \in doomed[r] \cup late[r]
  BY DEF Childless
<1>1. CASE SeesResult(r)
  <2>1. /\ Registered(r) /\ Settles(r, Result(file[r])) /\ Result(file[r]) \in Terminal
        /\ UNCHANGED <<child, transport, doomed, late, completed>> /\ monitor'[r] = "over"
        /\ file[r] \in Terminal
    BY <1>0, <1>1, SettlingSteps DEF SeesResult, MonitorAt, Monitors, TypeOK
  <2> QED
    BY <2>1, <1>a, <1>b, <1>c, SettledKnown
<1>2. CASE RetryGoesOn(r) /\ MayRetry(r)
  <2>1. /\ UNCHANGED <<spawn, outcome, child, transport, doomed, stop, late, completed>>
        /\ monitor[r] = "retry" /\ monitor'[r] = "relaunch" /\ file'[r] = NoStatus /\ ~Settled(r)
    BY <1>0, <1>2 DEF RetryGoesOn, MayRetry, MonitorAt, Monitors, TypeOK
  <2>2. r \notin completed /\ Registered(r) /\ Childless(r)
    BY <1>0, <2>1 DEF RunKnown, CompletionKept, FileKnown, RegistrationKnown, ChildKnown
  <2> USE <1>0, <2>1, <2>2 DEF RunKnown, Settled, Registered, Lives
  <2>3. RegistrationKnown(r)' /\ FileKnown(r)' /\ CompletionKept(r)'
    BY DEF RegistrationKnown, FileKnown, CompletionKept
  <2>4. ChildKnown(r)' /\ ChildTold(r)'
    BY DEF ChildKnown, ChildTold, Childless, Launched
  <2> QED
    BY <2>3, <2>4
<1>3. CASE (RetryGoesOn(r) /\ ~MayRetry(r)) \/ RelaunchFails(r) \/ ReportsDead(r)
  <2>1. /\ monitor[r] \in {"retry", "relaunch", "dead"} /\ monitor'[r] = "over"
        /\ UNCHANGED <<child, transport, doomed, late, completed>>
    BY <1>0, <1>3 DEF RetryGoesOn, RelaunchFails, ReportsDead, MonitorAt, Monitors, TypeOK
  <2>2. Registered(r) /\ Settles(r, "failed") /\ "failed" \in Terminal
    BY <1>3, <2>1, SettlingSteps DEF RetryGoesOn
  <2>3. Childless(r) /\ (~Settled(r) => file[r] # "completed")
    BY <1>0, <2>1, StatusAssumption DEF RunKnown, ChildKnown, FileKnown, Terminal
  <2> QED
    BY <2>1, <2>2, <2>3, <1>a, <1>c, SettledKnown
<1>4. CASE TimesOut(r)
  <2>1. /\ monitor[r] = "deadline" /\ monitor'[r] = "over" /\ Registered(r)
        /\ UNCHANGED <<child, transport, doomed, late, completed>>
    BY <1>0, <1>4, SettlingSteps DEF TimesOut, MonitorAt, Monitors, TypeOK
  <2>2. \A n \in Attempts : Lives(r, n) => n \in doomed[r] \cup late[r]
    BY <1>0, <2>1 DEF RunKnown, ChildTold
  <2>3. \/ Settles(r, Result(file[r])) /\ Result(file[r]) \in Terminal
        \/ ~WroteResult(r) /\ Settles(r, "timed_out") /\ "timed_out" \in Terminal
    BY <1>4, SettlingSteps
  <2> QED
    BY <2>1, <2>2, <2>3, <1>a, <1>b, SettledKnown
<1>5. CASE StopBegins(r)
  <2>1. /\ stop[r] = "asked" /\ Registered(r)
        /\ UNCHANGED <<child, transport, monitor, file, late, completed>>
    BY <1>5, SettlingSteps DEF StopBegins
  <2>2. CASE Settled(r) \/ file[r] \in Terminal
    <3>1. /\ Settles(r, Result(file[r])) /\ (~Settled(r) => Result(file[r]) \in Terminal)
          /\ doomed' = doomed
      BY <1>5, <2>2, SettlingSteps DEF StopBegins
    <3>2. \A n \in Attempts : Lives(r, n) => n \in doomed[r] \cup late[r]
      BY <2>2, <1>a, <1>b, <1>c
    <3> QED
      BY <2>1, <3>1, <3>2, <1>a, <1>b, SettledKnown
  <2>3. CASE ~Settled(r) /\ file[r] \notin Terminal
    <3>1. /\ doomed'[r] = doomed[r] \cup {transport[r]} /\ stop'[r] = "waiting"
          /\ UNCHANGED <<outcome, spawn>>
      BY <1>0, <1>5, <2>3 DEF StopBegins, Dooms, TypeOK
    <3> USE <1>0, <2>1, <3>1 DEF RunKnown, Settled, Registered, Lives
    <3>2. RegistrationKnown(r)' /\ FileKnown(r)' /\ CompletionKept(r)'
      BY DEF RegistrationKnown, FileKnown, CompletionKept, Childless
    <3>3. ChildKnown(r)' /\ ChildTold(r)'
      BY DEF ChildKnown, ChildTold, Childless, Launched
    <3> QED
      BY <3>2, <3>3
  <2> QED
    BY <2>2, <2>3
<1>6. CASE StopEnds(r)
  <2>1. /\ stop[r] = "waiting" /\ Registered(r) /\ monitor' = monitor
        /\ UNCHANGED <<child, transport, doomed, late, completed>>
    BY <1>6, SettlingSteps DEF StopEnds
  <2>2. \A n \in Attempts : Lives(r, n) => n \in doomed[r] \cup late[r]
    BY <1>0, <2>1 DEF RunKnown, ChildTold
  <2>3. \/ Settles(r, Result(file[r])) /\ Result(file[r]) \in Terminal
        \/ file[r] \notin Terminal /\ Settles(r, "stopped") /\ "stopped" \in Terminal
    BY <1>6, SettlingSteps
  <2>4. "completed" \in Terminal
    BY DEF Terminal
  <2> QED
    BY <2>1, <2>2, <2>3, <2>4, <1>a, <1>b, SettledKnown
<1> QED
  BY <1>1, <1>2, <1>3, <1>4, <1>5, <1>6 DEF SettlesFinally, StopStep

LEMMA CloseKnown ==
  ASSUME OneShotInv, Close, NEW r \in Runs PROVE RunKnown(r)'
<1>0. TypeOK /\ RunKnown(r)
  BY DEF OneShotInv, RunsInv
<1>1. /\ UNCHANGED <<spawn, child, doomed, transport, file, monitor, outcome, late, completed>>
      /\ stop'[r] = stop[r] \/ (spawn[r] = "running" /\ stop[r] = "none" /\ stop'[r] = "asked")
  BY DEF Close, Registered
<1> USE <1>0, <1>1 DEF RunKnown, Settled, Registered, Lives
<1>2. RegistrationKnown(r)'
  BY DEF RegistrationKnown
<1>3. ChildKnown(r)' /\ FileKnown(r)' /\ ChildTold(r)'
  BY DEF ChildKnown, FileKnown, ChildTold, Childless, Launched
<1>4. CompletionKept(r)'
  BY DEF CompletionKept
<1> QED
  BY <1>2, <1>3, <1>4

LEMMA RunsNext == OneShotInv /\ [Next]_vars => RunsInv'
<1> SUFFICES ASSUME OneShotInv, [Next]_vars, NEW q \in Runs PROVE RunKnown(q)'
  BY DEF RunsInv
<1>0. RunKnown(q)
  BY DEF OneShotInv, RunsInv
<1>1. ASSUME NEW r \in Runs, RunStep(r) PROVE RunKnown(q)'
  <2>1. CASE q # r
    BY <2>1, <1>0, <1>1, OthersLeft, LeftAloneKnown
  <2>2. CASE q = r
    <3>1. CASE \/ Spawn(r) \/ Abort(r) \/ WriteFiles(r) \/ WriteFilesFails(r) \/ LaunchFails(r)
               \/ AbortedLaunch(r)
      BY <2>2, <3>1, SpawnKnown
    <3>2. CASE Launch(r)
      BY <2>2, <3>2, LaunchKnown
    <3>3. CASE \E n \in Attempts : ChildStep(r, n)
      BY <2>2, <3>3, ChildStepKnown
    <3>4. CASE RetryBegins(r) \/ SeesDead(r) \/ MonitorEnds(r) \/ Deadline(r) \/ AskStop(r)
      BY <2>2, <3>4, MonitorKnown
    <3>5. CASE Relaunch(r)
      BY <2>2, <3>5, RelaunchKnown
    <3>6. CASE SettlesFinally(r)
      BY <2>2, <3>6, SettlingKnown
    <3> QED
      BY <1>1, <3>1, <3>2, <3>3, <3>4, <3>5, <3>6 DEF RunStep, SpawnStep, MonitorStep, SettlesFinally
  <2> QED
    BY <2>1, <2>2
<1>2. CASE Close
  BY <1>2, CloseKnown
<1>3. CASE UNCHANGED vars
  <2>1. LeftAlone(q)
    BY <1>3 DEF LeftAlone, vars
  <2> QED
    BY <2>1, <1>0, LeftAloneKnown
<1> QED
  BY <1>1, <1>2, <1>3 DEF Next, RunStep

-----------------------------------------------------------------------------
(* The theorems *)

\* The invariant holds in every reachable state: the permits add up, and of every run the
\* status file, the children and what the monitor and stop know of them fit together.
THEOREM OneShotInvariant == Spec => []OneShotInv
<1>1. OneShotInv /\ [Next]_vars => OneShotInv'
  BY TypeNext, PermitNext, RunsNext DEF OneShotInv
<1> QED
  BY <1>1, InitOneShot, PTL DEF Spec

\* The variables keep their types.
THEOREM OneShotTypeCorrect == Spec => []TypeOK
<1>1. OneShotInv => TypeOK
  BY DEF OneShotInv
<1> QED
  BY <1>1, OneShotInvariant, PTL

\* Every permit in use is held by exactly one run, there are never more than the limit, and
\* nobody waits while one is free, whatever fails, is aborted or is settled at the same time.
THEOREM OneShotPermits == Spec => []PermitsAccounted
<1>1. OneShotInv => PermitsAccounted
  BY DEF OneShotInv, PermitInv, PermitsAccounted, Holders, Listed
<1> QED
  BY <1>1, OneShotInvariant, PTL

\* The result that a child wrote before its run was settled is the run's result.
THEOREM OneShotCompletion == Spec => []CompletionNotLost
<1>1. OneShotInv => CompletionNotLost
  BY DEF OneShotInv, TypeOK, RunsInv, RunKnown, CompletionKept, CompletionNotLost
<1> QED
  BY <1>1, OneShotInvariant, PTL

\* No child outlives its run without having been told to stop, unless a startup retry
\* launched it when the run was being stopped or settled.
THEOREM OneShotNoOrphan == Spec => []OnlyLateOutlive
<1>1. OneShotInv => OnlyLateOutlive
  BY DEF OneShotInv, RunsInv, RunKnown, ChildTold, OnlyLateOutlive, Lives
<1> QED
  BY <1>1, OneShotInvariant, PTL

-----------------------------------------------------------------------------
(* The inductive invariant *)

\* A lease is there, with no less time left.
Kept(l, leases) ==
  \E m \in leases : m.id = l.id /\ m.owner = l.owner /\ m.path = l.path
                    /\ m.scope = l.scope /\ m.left >= l.left

\* The id of a lease tells whose it is.
IdsTell(leases) == \A l \in leases : l.owner = OwnerOf[l.id[2]]

Bounded(leases) == IsFiniteSet(leases) /\ Cardinality(leases) <= Capacity

\* What a call of c is about to put is fit to be stored, and keeps every
\* unexpired lease that the call neither removes nor renews.
Fit(c, op) ==
  /\ op.does \in {"acquire", "release", "force"}
  /\ Apart(op.next) /\ IdsTell(op.next) /\ Bounded(op.next)
  /\ op.given \subseteq op.next
  /\ \A g \in op.given : g.owner = OwnerOf[c]
  /\ op.given # {} => op.does = "acquire" /\ issued < MaxIssued
  /\ op.does = "acquire" => op.gone = {}
  /\ op.does = "release" => \A i \in op.gone : OwnerOf[i[2]] = OwnerOf[c]
  /\ \A l \in Active(stored) : l.id \in op.gone \/ l.id \in Ids(op.given) \/ Kept(l, op.next)

CallOK == \A c \in Callers : call[c] \in {NoCall, StaleCall} \/ Fit(c, call[c])

StoredOK == NoOverlap /\ IdsTell(stored) /\ Bounded(stored)

LeaseInv == LeaseTypeOK /\ CallOK /\ StoredOK /\ HeldIsStored

USE PathAssumption, LeaseAssumption, NothingAssumption

-----------------------------------------------------------------------------
(* Sets of leases *)

\* Time takes nothing away and moves nothing.
LEMMA AgedLeases ==
  ASSUME NEW S \in SUBSET Leases
  PROVE  /\ Aged(S) \in SUBSET Leases
         /\ Ids(Aged(S)) = Ids(S)
         /\ IdsTell(S) => IdsTell(Aged(S))
         /\ Apart(S) => Apart(Aged(S))
         /\ Bounded(S) => Bounded(Aged(S))
<1>1. \A l \in S : /\ l.left \in Nat /\ Less(l.left) \in Nat
                   /\ [l EXCEPT !.left = Less(@)] \in Leases
                   /\ Less(l.left) > 0 => l.left > 0
  BY DEF Leases, Less
<1>2. \A m \in Aged(S) : \E l \in S :
         /\ m = [l EXCEPT !.left = Less(@)] /\ l \in Leases
         /\ m.id = l.id /\ m.owner = l.owner /\ m.path = l.path /\ m.scope = l.scope
         /\ m.left = Less(l.left)
  BY DEF Aged, Leases
<1>3. Aged(S) \in SUBSET Leases
  BY <1>1, <1>2
<1>4. ASSUME NEW l \in S PROVE \E m \in Aged(S) : m.id = l.id
  <2>1. [l EXCEPT !.left = Less(@)] \in Aged(S) BY DEF Aged
  <2>2. [l EXCEPT !.left = Less(@)].id = l.id BY DEF Leases
  <2> QED BY <2>1, <2>2
<1>5. Ids(Aged(S)) = Ids(S)
  BY <1>2, <1>4 DEF Ids
<1>6. IdsTell(S) => IdsTell(Aged(S))
  BY <1>2 DEF IdsTell
<1>7. Apart(S) => Apart(Aged(S))
  <2> SUFFICES ASSUME Apart(S), NEW l \in Active(Aged(S)), NEW r \in Active(Aged(S)),
                      l.owner # r.owner
               PROVE  ~Conflicts(l, r)
    BY DEF Apart
  <2>1. PICK x \in S : l.owner = x.owner /\ l.path = x.path /\ l.scope = x.scope /\ x.left > 0
    BY <1>1, <1>2 DEF Active
  <2>2. PICK y \in S : r.owner = y.owner /\ r.path = y.path /\ r.scope = y.scope /\ y.left > 0
    BY <1>1, <1>2 DEF Active
  <2>3. ~Conflicts(x, y)
    BY <2>1, <2>2 DEF Apart, Active
  <2> QED BY <2>1, <2>2, <2>3 DEF Conflicts
<1>8. ASSUME Bounded(S) PROVE Bounded(Aged(S))
  <2> DEFINE f == [l \in S |-> [l EXCEPT !.left = Less(@)]]
  <2>1. f \in Surjection(S, Aged(S))
    BY DEF Surjection, Aged
  <2> QED BY <2>1, <1>8, FS_Surjection, FS_CardinalityType DEF Bounded
<1> QED BY <1>3, <1>5, <1>6, <1>7, <1>8

\* A lease that is kept in a set is kept when both age.
LEMMA KeptAges ==
  ASSUME NEW S \in SUBSET Leases, NEW l \in Leases, Kept(l, S)
  PROVE  Kept([l EXCEPT !.left = Less(@)], Aged(S))
<1>1. PICK m \in S : m.id = l.id /\ m.owner = l.owner /\ m.path = l.path
                     /\ m.scope = l.scope /\ m.left >= l.left
  BY DEF Kept
<1> DEFINE n == [m EXCEPT !.left = Less(@)]
<1>2. n \in Aged(S) BY DEF Aged
<1>3. Less(m.left) >= Less(l.left) BY <1>1 DEF Less, Leases
<1> QED BY <1>1, <1>2, <1>3 DEF Kept, Leases

-----------------------------------------------------------------------------
(* The initial state *)

\* The invariant holds initially.
LEMMA InitInv == LeaseInit => LeaseInv
<1> SUFFICES ASSUME LeaseInit PROVE LeaseInv OBVIOUS
<1>1. LeaseTypeOK BY DEF LeaseInit, LeaseTypeOK, NoCall
<1>2. CallOK BY DEF LeaseInit, CallOK, NoCall
<1>3. StoredOK /\ HeldIsStored
  BY FS_EmptySet DEF LeaseInit, StoredOK, NoOverlap, Apart, Active, IdsTell, Bounded, HeldIsStored
<1> QED BY <1>1, <1>2, <1>3 DEF LeaseInv

-----------------------------------------------------------------------------
(* The first half of an operation *)

Op(does, next, given, gone) == [does |-> does, next |-> next, given |-> given, gone |-> gone]
Ops == [does : {"none", "acquire", "release", "force", "stale"},
        next : SUBSET Leases, given : SUBSET Leases, gone : SUBSET IdSet]

\* A call that is fit keeps the invariant when it begins.
LEMMA FitBegins ==
  ASSUME LeaseInv, NEW c \in Callers, NEW does, NEW next, NEW given, NEW gone,
         Op(does, next, given, gone) \in Ops, Fit(c, Op(does, next, given, gone)),
         Begins(c, does, next, given, gone)
  PROVE  LeaseInv'
<1>1. /\ call' = [call EXCEPT ![c] = Op(does, next, given, gone)]
      /\ stored' = stored /\ writing' = writing /\ held' = held /\ issued' = issued
  BY DEF Begins, Op
<1>2. call \in [Callers -> Ops]
  BY DEF LeaseInv, LeaseTypeOK, Ops
<1>3. call' \in [Callers -> Ops]
  BY <1>1, <1>2
<1>4. LeaseTypeOK'
  BY <1>1, <1>3 DEF LeaseInv, LeaseTypeOK, Ops
<1>5. \A d \in Callers : call'[d] = IF d = c THEN Op(does, next, given, gone) ELSE call[d]
  BY <1>1, <1>2
<1>6. \A d \in Callers, op \in Ops : Fit(d, op) => Fit(d, op)'
  BY <1>1 DEF Fit, Active
<1>7. CallOK'
  BY <1>2, <1>5, <1>6 DEF LeaseInv, CallOK
<1>8. StoredOK' /\ HeldIsStored'
  BY <1>1 DEF LeaseInv, StoredOK, NoOverlap, Apart, Active, IdsTell, Bounded, HeldIsStored
<1> QED BY <1>4, <1>7, <1>8 DEF LeaseInv

\* A part of what is stored is fit to be stored.
LEMMA PartOfStored ==
  ASSUME LeaseTypeOK, StoredOK, NEW S \in SUBSET stored
  PROVE  S \in SUBSET Leases /\ Apart(S) /\ IdsTell(S) /\ Bounded(S)
<1>1. Bounded(S)
  BY FS_Subset, FS_CardinalityType DEF StoredOK, Bounded
<1> QED BY <1>1 DEF LeaseTypeOK, StoredOK, NoOverlap, Apart, Active, IdsTell

\* The types of a set of leases and of its ids.
LEMMA IdsType ==
  ASSUME NEW S \in SUBSET Leases
  PROVE  Ids(S) \in SUBSET IdSet
BY DEF Ids, Leases

\* release keeps the invariant.
LEMMA ReleaseInv ==
  ASSUME LeaseInv, NEW c \in Callers, NEW gone \in SUBSET stored, BeginRelease(c, gone)
  PROVE  LeaseInv'
<1> DEFINE next == Active(stored) \ gone
           op == Op("release", next, {}, Ids(gone))
<1>1. gone \subseteq Active(stored) /\ OwnedBy(c, gone)
      /\ Begins(c, "release", next, {}, Ids(gone))
  BY DEF BeginRelease
<1>2. next \in SUBSET stored /\ stored \in SUBSET Leases
  BY DEF Active, LeaseInv, LeaseTypeOK
<1>3. Apart(next) /\ IdsTell(next) /\ Bounded(next) /\ next \in SUBSET Leases
  BY <1>2, PartOfStored DEF LeaseInv
<1>4. Ids(gone) \in SUBSET IdSet
  BY <1>2, IdsType
<1>5. \A i \in Ids(gone) : OwnerOf[i[2]] = OwnerOf[c]
  BY <1>1 DEF Ids, OwnedBy, LeaseInv, StoredOK, IdsTell
<1>6. \A l \in Active(stored) : l.id \in Ids(gone) \/ Kept(l, next)
  BY <1>2 DEF Ids, Kept, Leases
<1>7. op \in Ops
  BY <1>3, <1>4 DEF Ops, Op
<1>8. Fit(c, op)
  BY <1>3, <1>5, <1>6 DEF Fit, Op
<1> QED BY <1>1, <1>7, <1>8, FitBegins

\* forceRelease keeps the invariant.
LEMMA ForceReleaseInv ==
  ASSUME LeaseInv, NEW c \in Callers, NEW gone \in SUBSET stored, BeginForceRelease(c, gone)
  PROVE  LeaseInv'
<1> DEFINE next == stored \ gone
           op == Op("force", next, {}, Ids(gone))
<1>1. Begins(c, "force", next, {}, Ids(gone))
  BY DEF BeginForceRelease
<1>2. next \in SUBSET stored /\ stored \in SUBSET Leases
  BY DEF LeaseInv, LeaseTypeOK
<1>3. Apart(next) /\ IdsTell(next) /\ Bounded(next) /\ next \in SUBSET Leases
  BY <1>2, PartOfStored DEF LeaseInv
<1>4. Ids(gone) \in SUBSET IdSet
  BY <1>2, IdsType
<1>5. \A l \in Active(stored) : l.id \in Ids(gone) \/ Kept(l, next)
  BY <1>2 DEF Ids, Kept, Leases, Active
<1>6. op \in Ops
  BY <1>3, <1>4 DEF Ops, Op
<1>7. Fit(c, op)
  BY <1>3, <1>5 DEF Fit, Op
<1> QED BY <1>1, <1>6, <1>7, FitBegins

-----------------------------------------------------------------------------
(* acquire *)

\* The parts of what acquire computes.
Renewed(c, asked) == {l \in Active(stored) : \E r \in asked : Matches(l, OwnerOf[c], r)}
Unheld(c, asked) == {r \in asked : ~\E l \in Active(stored) : Matches(l, OwnerOf[c], r)}
Longer(c, asked, ttl) == {[l EXCEPT !.left = ttl] : l \in Renewed(c, asked)}
Fresh(c, asked, ttl) ==
  {[id |-> <<issued + 1, c, r.path, r.scope>>, owner |-> OwnerOf[c],
    path |-> r.path, scope |-> r.scope, left |-> ttl] : r \in Unheld(c, asked)}
Given(c, asked, ttl) == Longer(c, asked, ttl) \cup Fresh(c, asked, ttl)
Rest(c, asked) == Active(stored) \ Renewed(c, asked)

\* What acquire gives is of the right type, the run's, and on paths asked for.
LEMMA GivenLeases ==
  ASSUME LeaseTypeOK, IdsTell(stored), NEW c \in Callers, NEW asked \in Requests, NEW ttl \in Ttls,
         issued < MaxIssued
  PROVE  /\ Given(c, asked, ttl) \in SUBSET Leases
         /\ \A g \in Given(c, asked, ttl) :
              g.owner = OwnerOf[c] /\ g.owner = OwnerOf[g.id[2]] /\ g.left = ttl
         /\ \A g \in Given(c, asked, ttl) :
              \E r \in asked : g.path = r.path /\ g.scope = r.scope
         /\ \A l \in Renewed(c, asked) : l.id \in Ids(Given(c, asked, ttl))
<1> DEFINE o == OwnerOf[c]
<1>1. ttl \in Nat /\ ttl > 0 /\ o \in Owners /\ issued + 1 \in 1..MaxIssued
  BY DEF LeaseTypeOK
<1>2. asked \in SUBSET [path : Paths, scope : Scopes]
  OBVIOUS
<1>3. ASSUME NEW g \in Longer(c, asked, ttl)
      PROVE  /\ g \in Leases /\ g.owner = o /\ g.owner = OwnerOf[g.id[2]] /\ g.left = ttl
             /\ \E r \in asked : g.path = r.path /\ g.scope = r.scope
  <2>1. PICK l \in Renewed(c, asked) : g = [l EXCEPT !.left = ttl] BY DEF Longer
  <2>2. l \in stored /\ l \in Leases BY DEF Renewed, Active, LeaseTypeOK
  <2>3. PICK r \in asked : l.owner = o /\ l.path = r.path /\ l.scope = r.scope
    BY DEF Renewed, Matches
  <2>4. /\ g.id = l.id /\ g.owner = l.owner /\ g.path = l.path /\ g.scope = l.scope
        /\ g.left = ttl /\ g \in Leases
    BY <1>1, <2>1, <2>2 DEF Leases
  <2> QED BY <2>2, <2>3, <2>4 DEF IdsTell
<1>4. ASSUME NEW g \in Fresh(c, asked, ttl)
      PROVE  /\ g \in Leases /\ g.owner = o /\ g.owner = OwnerOf[g.id[2]] /\ g.left = ttl
             /\ \E r \in asked : g.path = r.path /\ g.scope = r.scope
  <2>1. PICK r \in asked : g = [id |-> <<issued + 1, c, r.path, r.scope>>, owner |-> o,
                                path |-> r.path, scope |-> r.scope, left |-> ttl]
    BY DEF Fresh, Unheld
  <2>2. r.path \in Paths /\ r.scope \in Scopes BY <1>2
  <2>3. <<issued + 1, c, r.path, r.scope>> \in IdSet BY <1>1, <2>2 DEF IdSet
  <2> QED BY <1>1, <2>1, <2>2, <2>3 DEF Leases
<1>5. ASSUME NEW l \in Renewed(c, asked) PROVE l.id \in Ids(Given(c, asked, ttl))
  <2>1. l \in Leases BY DEF Renewed, Active, LeaseTypeOK
  <2>2. [l EXCEPT !.left = ttl] \in Given(c, asked, ttl) BY DEF Given, Longer
  <2>3. [l EXCEPT !.left = ttl].id = l.id BY <2>1 DEF Leases
  <2> QED BY <2>2, <2>3 DEF Ids
<1> QED BY <1>3, <1>4, <1>5 DEF Given

\* There is room for what acquire gives.
LEMMA GivenBounded ==
  ASSUME StoredOK, NEW c \in Callers, NEW asked \in Requests, NEW ttl \in Ttls,
         Fits(Rest(c, asked) \cup Given(c, asked, ttl), Fresh(c, asked, ttl))
  PROVE  Bounded(Rest(c, asked) \cup Given(c, asked, ttl))
<1> DEFINE R == Renewed(c, asked)
           L == Longer(c, asked, ttl)
           F == Fresh(c, asked, ttl)
           A == Active(stored)
           U == Unheld(c, asked)
<1>1. IsFiniteSet(A) /\ Cardinality(A) <= Capacity /\ Cardinality(A) \in Nat
  <2>1. A \in SUBSET stored BY DEF Active
  <2> QED BY <2>1, FS_Subset, FS_CardinalityType DEF StoredOK, Bounded
<1>2. R \in SUBSET A /\ A \ R \in SUBSET A BY DEF Renewed
<1>3. IsFiniteSet(R) /\ IsFiniteSet(A \ R)
  BY <1>1, <1>2, FS_Subset
<1>4. IsFiniteSet(L) /\ Cardinality(L) <= Cardinality(R)
  <2> DEFINE f == [l \in R |-> [l EXCEPT !.left = ttl]]
  <2>1. f \in Surjection(R, L) BY DEF Surjection, Longer
  <2> QED BY <2>1, <1>3, FS_Surjection
<1>5. IsFiniteSet(F)
  <2> DEFINE f == [r \in U |-> [id |-> <<issued + 1, c, r.path, r.scope>>, owner |-> OwnerOf[c],
                                path |-> r.path, scope |-> r.scope, left |-> ttl]]
  <2>1. f \in Surjection(U, F) BY DEF Surjection, Fresh
  <2>2. IsFiniteSet(asked) BY LeaseAssumption
  <2>3. U \in SUBSET asked BY DEF Unheld
  <2>4. IsFiniteSet(U) BY <2>2, <2>3, FS_Subset
  <2> QED BY <2>1, <2>4, FS_Surjection
<1>6. IsFiniteSet(L \cup F) /\ IsFiniteSet((A \ R) \cup L)
  BY <1>3, <1>4, <1>5, FS_Union
<1>7. IsFiniteSet((A \ R) \cup (L \cup F))
  BY <1>3, <1>6, FS_Union
<1>8. CASE F = {}
  <2>1. Cardinality(A \ R) = Cardinality(A) - Cardinality(R)
    <3>1. A \cap R = R BY <1>2
    <3>2. Cardinality(A \ R) = Cardinality(A) - Cardinality(A \cap R) BY <1>1, FS_Difference
    <3> QED BY <3>1, <3>2
  <2>2. Cardinality((A \ R) \cup L) =
          Cardinality(A \ R) + Cardinality(L) - Cardinality((A \ R) \cap L)
    BY <1>3, <1>4, FS_Union
  <2>3. IsFiniteSet((A \ R) \cap L)
    <3>1. (A \ R) \cap L \in SUBSET L OBVIOUS
    <3> QED BY <3>1, <1>4, FS_Subset
  <2>4. /\ Cardinality(R) \in Nat /\ Cardinality(L) \in Nat
        /\ Cardinality((A \ R) \cap L) \in Nat
    BY <1>3, <1>4, <2>3, FS_CardinalityType
  <2>5. Cardinality((A \ R) \cup L) <= Capacity
    <3> HIDE DEF A, R, L
    <3> QED BY <1>1, <1>4, <2>1, <2>2, <2>4
  <2>6. (A \ R) \cup (L \cup F) = (A \ R) \cup L BY <1>8
  <2>7. Cardinality((A \ R) \cup (L \cup F)) <= Capacity BY <2>5, <2>6
  <2> QED BY <1>7, <2>7 DEF Bounded, Rest, Given
<1>9. CASE F # {}
  BY <1>7, <1>9 DEF Fits, Bounded, Rest, Given
<1> QED BY <1>8, <1>9

\* What acquire stores overlaps with nobody's leases.
LEMMA GivenApart ==
  ASSUME LeaseTypeOK, StoredOK, NEW c \in Callers, NEW asked \in Requests, NEW ttl \in Ttls,
         issued < MaxIssued,
         \A l \in Active(stored), r \in asked : l.owner # OwnerOf[c] => ~Conflicts(l, r)
  PROVE  Apart(Rest(c, asked) \cup Given(c, asked, ttl))
<1> DEFINE G == Given(c, asked, ttl)
<1>1. ASSUME NEW g \in G, NEW l \in Active(stored), l.owner # g.owner
      PROVE  ~Conflicts(l, g) /\ ~Conflicts(g, l)
  <2>1. PICK r \in asked : g.path = r.path /\ g.scope = r.scope /\ g.owner = OwnerOf[c]
    BY GivenLeases DEF StoredOK
  <2>2. ~Conflicts(l, r) BY <1>1, <2>1
  <2> QED BY <2>1, <2>2 DEF Conflicts
<1>2. \A g, h \in G : g.owner = h.owner
  BY GivenLeases DEF StoredOK
<1>3. \A l, r \in Active(stored) : l.owner # r.owner => ~Conflicts(l, r)
  BY DEF StoredOK, NoOverlap, Apart
<1> SUFFICES ASSUME NEW l \in Rest(c, asked) \cup G, NEW r \in Rest(c, asked) \cup G,
                    l.owner # r.owner
             PROVE  ~Conflicts(l, r)
  BY DEF Apart, Active
<1>4. l \in Active(stored) \/ l \in G BY DEF Rest
<1>5. r \in Active(stored) \/ r \in G BY DEF Rest
<1> QED BY <1>1, <1>2, <1>3, <1>4, <1>5

\* acquire keeps the invariant.
LEMMA AcquireInv ==
  ASSUME LeaseInv, NEW c \in Callers, NEW asked \in Requests, NEW ttl \in Ttls,
         BeginAcquire(c, asked, ttl)
  PROVE  LeaseInv'
<1> DEFINE G == Given(c, asked, ttl)
           next == Rest(c, asked) \cup G
           op == Op("acquire", next, G, {})
<1>1. /\ issued < MaxIssued
      /\ \A l \in Active(stored), r \in asked : l.owner # OwnerOf[c] => ~Conflicts(l, r)
      /\ Fits(next, Fresh(c, asked, ttl))
      /\ Begins(c, "acquire", next, G, {})
  BY DEF BeginAcquire, Blocks, Given, Rest, Fresh, Longer, Renewed, Unheld
<1>2. LeaseTypeOK /\ StoredOK /\ IdsTell(stored)
  BY DEF LeaseInv, StoredOK
<1>3. Rest(c, asked) \in SUBSET stored BY DEF Rest, Active
<1>4. /\ G \in SUBSET Leases
      /\ \A g \in G : g.owner = OwnerOf[c] /\ g.owner = OwnerOf[g.id[2]]
      /\ \A l \in Renewed(c, asked) : l.id \in Ids(G)
  BY <1>1, <1>2, GivenLeases
<1>5. next \in SUBSET Leases BY <1>2, <1>3, <1>4 DEF LeaseTypeOK
<1>6. Apart(next) /\ Bounded(next)
  BY <1>1, <1>2, GivenApart, GivenBounded
<1>7. IdsTell(next)
  BY <1>2, <1>3, <1>4 DEF IdsTell
<1>8. ASSUME NEW l \in Active(stored) PROVE l.id \in Ids(G) \/ Kept(l, next)
  <2>1. CASE l \in Renewed(c, asked) BY <2>1, <1>4
  <2>2. CASE l \in Rest(c, asked)
    <3>1. l.left \in Nat BY <1>2 DEF Active, LeaseTypeOK, Leases
    <3> QED BY <2>2, <3>1 DEF Kept
  <2> QED BY <2>1, <2>2 DEF Rest
<1>9. op \in Ops BY <1>4, <1>5 DEF Ops, Op
<1>10. Fit(c, op)
  <2>1. G \subseteq next OBVIOUS
  <2> HIDE DEF next, G
  <2> QED BY <1>1, <1>4, <1>6, <1>7, <1>8, <2>1 DEF Fit, Op
<1> QED BY <1>1, <1>9, <1>10, FitBegins

-----------------------------------------------------------------------------
(* The second half, and the other steps *)

\* A put keeps the invariant: the others that read before it are overtaken.
LEMMA PutInv ==
  ASSUME LeaseInv, NEW c \in Callers, Put(c)
  PROVE  LeaseInv'
<1> DEFINE op == call[c]
<1>1. call \in [Callers -> Ops] /\ op \in Ops /\ held \in [Owners -> SUBSET Leases]
  BY DEF LeaseInv, LeaseTypeOK, Ops
<1>2. Fit(c, op) BY DEF Put, LeaseInv, CallOK
<1>3. /\ stored' = op.next /\ writing' = writing
      /\ held' = [o \in Owners |-> Relied(o, c)]
      /\ issued' = IF op.given = {} THEN issued ELSE issued + 1
      /\ call' = [d \in Callers |-> IF d = c THEN NoCall ELSE Overtaken(call[d])]
  BY DEF Put
<1>4. op.given \in SUBSET Leases /\ op.next \in SUBSET Leases BY <1>1 DEF Ops
<1>5. CallOK' BY <1>3 DEF CallOK, Overtaken
<1>6. StoredOK' BY <1>2, <1>3 DEF Fit, StoredOK, NoOverlap, Apart, Active, IdsTell, Bounded
<1>7. \A o \in Owners : Relied(o, c) \in SUBSET Leases
  BY <1>1, <1>4 DEF Relied, Without
<1>8. LeaseTypeOK'
  <2>1. issued' \in 0..MaxIssued BY <1>2, <1>3 DEF Fit, LeaseInv, LeaseTypeOK
  <2>2. NoCall \in Ops /\ StaleCall \in Ops BY DEF NoCall, StaleCall, Ops
  <2>3. call' \in [Callers -> Ops] BY <1>3, <2>2 DEF Overtaken
  <2>4. held' \in [Owners -> SUBSET Leases] BY <1>3, <1>7
  <2> QED BY <1>3, <1>4, <2>1, <2>3, <2>4 DEF LeaseInv, LeaseTypeOK, Ops
<1>9. HeldIsStored'
  <2> SUFFICES ASSUME NEW o \in Owners, NEW h \in Relied(o, c), h.left > 0
               PROVE  \E l \in op.next : l.id = h.id /\ l.owner = o /\ l.path = h.path
                                        /\ l.scope = h.scope /\ l.left >= h.left
    BY <1>3 DEF HeldIsStored, Active
  <2>1. CASE h \in op.given /\ OwnerOf[c] = o
    <3>1. h \in op.next /\ h.owner = o BY <1>2, <2>1 DEF Fit
    <3>2. h.left \in Nat BY <1>4, <3>1 DEF Leases
    <3> QED BY <3>1, <3>2
  <2>2. CASE ~(h \in op.given /\ OwnerOf[c] = o)
    <3>1. h \in held[o] BY <2>2 DEF Relied, Without
    <3>2. PICK l \in stored : l.id = h.id /\ l.owner = o /\ l.path = h.path
                              /\ l.scope = h.scope /\ l.left >= h.left
      BY <3>1 DEF LeaseInv, HeldIsStored, Active
    <3>3. l.left \in Nat /\ h.left \in Nat BY <1>1, <3>1 DEF LeaseInv, LeaseTypeOK, Leases
    <3>4. l \in Active(stored) BY <3>2, <3>3 DEF Active
    <3>5. OwnerOf[l.id[2]] = o BY <3>2 DEF LeaseInv, StoredOK, IdsTell
    <3>6. l.id \notin op.gone
      <4>1. CASE op.does = "force" BY <2>2, <3>2, <4>1 DEF Relied, Without
      <4>2. CASE op.does = "acquire" BY <1>2, <4>2 DEF Fit
      <4>3. CASE op.does = "release" /\ OwnerOf[c] = o
        BY <2>2, <3>2, <4>3 DEF Relied, Without
      <4>4. CASE op.does = "release" /\ OwnerOf[c] # o
        BY <1>2, <3>5, <4>4 DEF Fit
      <4> QED BY <1>2, <4>1, <4>2, <4>3, <4>4 DEF Fit
    <3>7. l.id \notin Ids(op.given)
      <4> SUFFICES ASSUME NEW g \in op.given, g.id = l.id PROVE FALSE BY DEF Ids
      <4>1. g.owner = OwnerOf[c] /\ g.owner = OwnerOf[g.id[2]] BY <1>2 DEF Fit, IdsTell
      <4>2. OwnerOf[c] = o BY <3>5, <4>1
      <4>3. op.does = "acquire" BY <1>2 DEF Fit
      <4>4. h.id \in Ids(op.given) BY <3>2 DEF Ids
      <4> QED BY <2>2, <4>2, <4>3, <4>4 DEF Relied, Without
    <3>8. PICK m \in op.next : m.id = l.id /\ m.owner = l.owner /\ m.path = l.path
                               /\ m.scope = l.scope /\ m.left >= l.left
      BY <1>2, <3>4, <3>6, <3>7 DEF Fit, Kept
    <3>9. m.left \in Nat BY <1>4 DEF Leases
    <3> QED BY <3>2, <3>3, <3>8, <3>9
  <2> QED BY <2>1, <2>2
<1> QED BY <1>5, <1>6, <1>8, <1>9 DEF LeaseInv

\* Failed puts, checked writes and the ends of runs keep the invariant.
LEMMA EndsInv ==
  ASSUME LeaseInv,
         \/ \E c \in Callers : PutFails(c) \/ EndWrite(c) \/ \E p \in Paths : BeginWrite(c, p)
         \/ \E o \in Owners : Crash(o)
  PROVE  LeaseInv'
<1>1. stored' = stored /\ issued' = issued
  BY DEF PutFails, EndWrite, BeginWrite, Crash
<1>2. \A d \in Callers : call'[d] \in {call[d], NoCall}
  BY DEF PutFails, EndWrite, BeginWrite, Crash, LeaseInv, LeaseTypeOK
<1>3. \A o \in Owners : held'[o] \in {held[o], {}}
  BY DEF PutFails, EndWrite, BeginWrite, Crash, LeaseInv, LeaseTypeOK
<1>4. CallOK'
  <2>1. \A d \in Callers, op \in Ops : Fit(d, op) => Fit(d, op)'
    BY <1>1 DEF Fit, Active
  <2>2. call \in [Callers -> Ops] BY DEF LeaseInv, LeaseTypeOK, Ops
  <2> QED BY <1>2, <2>1, <2>2 DEF LeaseInv, CallOK
<1>5. StoredOK' /\ HeldIsStored'
  BY <1>1, <1>3 DEF LeaseInv, StoredOK, NoOverlap, Apart, Active, IdsTell, Bounded, HeldIsStored
<1>6. LeaseTypeOK'
  <2>1. NoCall \in Ops BY DEF NoCall, Ops
  <2>2. /\ call \in [Callers -> Ops] /\ writing \in [Callers -> Paths \cup {Nothing}]
        /\ held \in [Owners -> SUBSET Leases]
    BY DEF LeaseInv, LeaseTypeOK, Ops
  <2> DEFINE Shape == /\ call' \in [Callers -> Ops]
                      /\ writing' \in [Callers -> Paths \cup {Nothing}]
                      /\ held' \in [Owners -> SUBSET Leases]
  <2>3. ASSUME NEW c \in Callers, PutFails(c) PROVE Shape BY <2>1, <2>2, <2>3 DEF PutFails
  <2>4. ASSUME NEW c \in Callers, EndWrite(c) PROVE Shape BY <2>2, <2>4 DEF EndWrite
  <2>5. ASSUME NEW c \in Callers, NEW p \in Paths, BeginWrite(c, p) PROVE Shape
    BY <2>2, <2>5 DEF BeginWrite
  <2>6. ASSUME NEW o \in Owners, Crash(o) PROVE Shape BY <2>1, <2>2, <2>6 DEF Crash
  <2>7. Shape BY <2>3, <2>4, <2>5, <2>6
  <2> QED BY <1>1, <2>7 DEF LeaseInv, LeaseTypeOK, Ops
<1> QED BY <1>4, <1>5, <1>6 DEF LeaseInv

\* The passing of time keeps the invariant.
LEMMA TickInv == LeaseInv /\ Tick => LeaseInv'
<1> SUFFICES ASSUME LeaseInv, Tick PROVE LeaseInv' OBVIOUS
<1> DEFINE AgedOp(op) == [op EXCEPT !.next = Aged(@), !.given = Aged(@)]
<1>1. /\ stored' = Aged(stored) /\ writing' = writing /\ issued' = issued
      /\ call' = [c \in Callers |-> AgedOp(call[c])]
      /\ held' = [o \in Owners |-> Active(Aged(held[o]))]
  BY DEF Tick
<1>2. /\ stored \in SUBSET Leases /\ call \in [Callers -> Ops]
      /\ held \in [Owners -> SUBSET Leases]
  BY DEF LeaseInv, LeaseTypeOK, Ops
<1>3. \A op \in Ops : /\ AgedOp(op).does = op.does /\ AgedOp(op).gone = op.gone
                      /\ AgedOp(op).next = Aged(op.next) /\ AgedOp(op).given = Aged(op.given)
                      /\ op.next \in SUBSET Leases /\ op.given \in SUBSET Leases
  BY DEF Ops
<1>4. ASSUME NEW op \in Ops PROVE AgedOp(op) \in Ops
  <2>1. Aged(op.next) \in SUBSET Leases /\ Aged(op.given) \in SUBSET Leases
    BY <1>3, AgedLeases
  <2> QED BY <2>1 DEF Ops
<1>5. LeaseTypeOK'
  <2>1. call' \in [Callers -> Ops] BY <1>1, <1>2, <1>4
  <2>2. \A o \in Owners : Aged(held[o]) \in SUBSET Leases BY <1>2, AgedLeases
  <2>3. held' \in [Owners -> SUBSET Leases] BY <1>1, <2>2 DEF Active
  <2>4. stored' \in SUBSET Leases BY <1>1, <1>2, AgedLeases
  <2> QED BY <1>1, <2>1, <2>3, <2>4 DEF LeaseInv, LeaseTypeOK, Ops
<1>6. StoredOK'
  BY <1>1, <1>2, AgedLeases DEF LeaseInv, StoredOK, NoOverlap, Apart, Active, IdsTell, Bounded
<1>7. CallOK'
  <2> SUFFICES ASSUME NEW c \in Callers, NEW aged, aged = AgedOp(call[c])
               PROVE  aged \in {NoCall, StaleCall} \/ Fit(c, aged)'
    BY <1>1 DEF CallOK, Fit, Active
  <2>1. CASE call[c] \in {NoCall, StaleCall}
    <3>1. Aged({}) = {} BY DEF Aged
    <3>2. NoCall \in Ops /\ StaleCall \in Ops
          /\ NoCall.next = {} /\ NoCall.given = {} /\ StaleCall.next = {} /\ StaleCall.given = {}
      BY DEF NoCall, StaleCall, Ops
    <3>3. \A e \in Ops : e.next = {} /\ e.given = {} => [e EXCEPT !.next = {}, !.given = {}] = e
      BY DEF Ops
    <3>4. AgedOp(NoCall) = NoCall /\ AgedOp(StaleCall) = StaleCall
      BY <3>1, <3>2, <3>3
    <3> QED BY <2>1, <3>4
  <2>2. CASE Fit(c, call[c])
    <3> DEFINE op == call[c]
    <3>1. op \in Ops BY <1>2
    <3>2. /\ aged.does = op.does /\ aged.gone = op.gone
          /\ aged.next = Aged(op.next) /\ aged.given = Aged(op.given)
          /\ op.next \in SUBSET Leases /\ op.given \in SUBSET Leases
      BY <1>3, <3>1
    <3>3. Apart(aged.next) /\ IdsTell(aged.next) /\ Bounded(aged.next)
      BY <2>2, <3>2, AgedLeases DEF Fit
    <3>4. aged.given \subseteq aged.next /\ Ids(aged.given) = Ids(op.given)
      <4>1. Ids(Aged(op.given)) = Ids(op.given) BY <3>2, AgedLeases
      <4>2. Aged(op.given) \subseteq Aged(op.next) BY <2>2 DEF Fit, Aged
      <4> QED BY <3>2, <4>1, <4>2
    <3>5. \A g \in aged.given : g.owner = OwnerOf[c]
      <4> SUFFICES ASSUME NEW g \in Aged(op.given) PROVE g.owner = OwnerOf[c] BY <3>2
      <4>1. PICK l \in op.given : g = [l EXCEPT !.left = Less(@)] BY DEF Aged
      <4>2. g.owner = l.owner BY <3>2, <4>1 DEF Leases
      <4> QED BY <2>2, <4>2 DEF Fit
    <3>6. aged.given # {} => op.given # {} BY <3>2 DEF Aged
    <3>7. ASSUME NEW l \in Active(stored')
          PROVE  l.id \in aged.gone \/ l.id \in Ids(aged.given) \/ Kept(l, aged.next)
      <4>1. PICK k \in stored : l = [k EXCEPT !.left = Less(@)] BY <1>1 DEF Active, Aged
      <4>2. k \in Leases /\ l.id = k.id /\ l.left = Less(k.left) BY <1>2, <4>1 DEF Leases
      <4>3. k \in Active(stored) BY <3>7, <4>2 DEF Active, Less, Leases
      <4>4. k.id \in op.gone \/ k.id \in Ids(op.given) \/ Kept(k, op.next)
        BY <2>2, <4>3 DEF Fit
      <4>5. Kept(k, op.next) => Kept(l, Aged(op.next))
        BY <3>2, <4>1, <4>2, KeptAges
      <4> QED BY <3>2, <3>4, <4>2, <4>4, <4>5
    <3>8. Active(stored)' = Active(stored') BY DEF Active
    <3> QED BY <1>1, <2>2, <3>2, <3>3, <3>4, <3>5, <3>6, <3>7, <3>8 DEF Fit
  <2> QED BY <2>1, <2>2 DEF LeaseInv, CallOK
<1>8. HeldIsStored'
  <2> SUFFICES ASSUME NEW o \in Owners, NEW h \in Active(Aged(held[o]))
               PROVE  \E l \in Aged(stored) : l.id = h.id /\ l.owner = o /\ l.path = h.path
                                             /\ l.scope = h.scope /\ l.left >= h.left
    BY <1>1 DEF HeldIsStored, Active
  <2>1. PICK g \in held[o] : h = [g EXCEPT !.left = Less(@)] BY DEF Active, Aged
  <2>2. /\ g \in Leases /\ h.id = g.id /\ h.path = g.path /\ h.scope = g.scope
        /\ h.left = Less(g.left) /\ g.left > 0
    BY <1>2, <2>1 DEF Leases, Active, Less
  <2>3. PICK l \in stored : l.id = g.id /\ l.owner = o /\ l.path = g.path
                            /\ l.scope = g.scope /\ l.left >= g.left
    BY <2>2 DEF LeaseInv, HeldIsStored, Active
  <2> DEFINE m == [l EXCEPT !.left = Less(@)]
  <2>4. m \in Aged(stored) BY DEF Aged
  <2>5. l \in Leases BY <1>2
  <2>6. m.id = l.id /\ m.owner = l.owner /\ m.path = l.path /\ m.scope = l.scope
        /\ m.left = Less(l.left)
    BY <2>5 DEF Leases
  <2>7. Less(l.left) >= Less(g.left) BY <2>2, <2>3, <2>5 DEF Less, Leases
  <2> QED BY <2>2, <2>3, <2>4, <2>6, <2>7
<1> QED BY <1>5, <1>6, <1>7, <1>8 DEF LeaseInv

-----------------------------------------------------------------------------
(* The theorems *)

\* The inductive invariant holds in every state of every behaviour.
THEOREM LeasesInvariant == LeaseSpec => []LeaseInv
<1>1. LeaseInv /\ [LeaseNext]_leaseVars => LeaseInv'
  <2> SUFFICES ASSUME LeaseInv, [LeaseNext]_leaseVars PROVE LeaseInv' OBVIOUS
  <2>1. CASE UNCHANGED leaseVars
    <3>1. \A d \in Callers, op \in Ops : Fit(d, op) => Fit(d, op)'
      BY <2>1 DEF leaseVars, Fit, Active
    <3>2. call \in [Callers -> Ops] BY DEF LeaseInv, LeaseTypeOK, Ops
    <3>3. CallOK' BY <2>1, <3>1, <3>2 DEF leaseVars, LeaseInv, CallOK
    <3> QED BY <2>1, <3>3 DEF leaseVars, LeaseInv, LeaseTypeOK, StoredOK, NoOverlap, Apart, Active,
                              IdsTell, Bounded, HeldIsStored
  <2>2. CASE Tick BY <2>2, TickInv
  <2>3. CASE \E o \in Owners : Crash(o) BY <2>3, EndsInv
  <2>4. ASSUME NEW c \in Callers, NEW asked \in Requests, NEW ttl \in Ttls,
               BeginAcquire(c, asked, ttl)
        PROVE  LeaseInv'
    BY <2>4, AcquireInv
  <2>5. ASSUME NEW c \in Callers, NEW gone \in SUBSET stored,
               BeginRelease(c, gone) \/ BeginForceRelease(c, gone)
        PROVE  LeaseInv'
    BY <2>5, ReleaseInv, ForceReleaseInv
  <2>6. ASSUME NEW c \in Callers, Put(c) PROVE LeaseInv' BY <2>6, PutInv
  <2>7. ASSUME NEW c \in Callers,
               PutFails(c) \/ EndWrite(c) \/ \E p \in Paths : BeginWrite(c, p)
        PROVE  LeaseInv'
    BY <2>7, EndsInv
  <2> QED BY <2>1, <2>2, <2>3, <2>4, <2>5, <2>6, <2>7 DEF LeaseNext
<1> QED BY InitInv, <1>1, PTL DEF LeaseSpec

\* The state is always of the right shape.
THEOREM LeasesTypeCorrect == LeaseSpec => []LeaseTypeOK
BY LeasesInvariant, PTL DEF LeaseInv

\* The unexpired leases of different runs never overlap.
THEOREM LeasesNoOverlap == LeaseSpec => []NoOverlap
<1>1. LeaseInv => NoOverlap BY DEF LeaseInv, StoredOK
<1> QED BY <1>1, LeasesInvariant, PTL

\* A run holds every lease that it relies on.
THEOREM LeasesHeldIsStored == LeaseSpec => []HeldIsStored
BY LeasesInvariant, PTL DEF LeaseInv

\* The entry never holds more leases than it can be read with.
THEOREM LeasesWithinCapacity == LeaseSpec => []WithinCapacity
<1>1. LeaseInv => WithinCapacity BY DEF LeaseInv, StoredOK, Bounded, WithinCapacity
<1> QED BY <1>1, LeasesInvariant, PTL
=============================================================================
