--------------------------- MODULE LifecycleBroker ---------------------------
(***************************************************************************)
(* Lifecycle subscriptions: src/src/lifecycle/broker.ts.                   *)
(*                                                                         *)
(* A subscription is an entry of the mesh's shared state with a cursor     *)
(* into the event log.  The host at which its target is local reads the    *)
(* log behind the cursor in batches, delivers what matches, and moves the  *)
(* cursor with a conditional put.  Events are numbered as MeshLog does it, *)
(* and compaction drops the oldest.  A host that crashes, or is relieved   *)
(* of the target in the middle of a batch, leaves deliveries behind that   *)
(* no cursor knows of.                                                     *)
(***************************************************************************)
EXTENDS Naturals, Sequences

CONSTANTS
  Hosts,        \* the hosts at which the target may be local
  Batch,        \* maxReadEvents
  Nothing,
  Owners,       \* the source's owners: a host and an identity each
  Nobody,       \* nobody owns the source, or its record is stale
  MaxEvents,    \* bound: events in the log
  MaxMishaps    \* bound: crashes, takeovers, locks not had, half deliveries

ASSUME NothingAssumption == Nothing \notin Nat /\ Nobody \notin Owners
ASSUME BoundAssumption == Batch \in Nat \ {0} /\ MaxEvents \in Nat /\ MaxMishaps \in Nat

VARIABLES
  log,        \* of all events so far, which owner published it; Nothing if the event
              \* is none of the subscription's
  low,        \* compaction has dropped the events up to this one
  source,     \* the source's current owner, or Nobody
  home,       \* the host at which the target is local
  stored,     \* the subscription's entry: its cursor afterSequence, or Nothing
  once,       \* it is for one event
  ended,      \* the subscription was deleted
  request,    \* subscribe, between the read of the log's end and the put
  drain,      \* of each host: its #drainSubscription; its entry is current as long as
              \* nobody else has written the subscription
  start,      \* history: the log's end when the subscription was asked for
  delivered,  \* history: how often each event was delivered
  missed,     \* history: events the subscription has no claim to: not for it, dropped from
              \* the log undelivered, or whose owner has not been the source's throughout
  mishaps     \* history: how much has gone wrong

vars == <<log, low, source, home, stored, once, ended, request, drain, start, delivered, missed, mishaps>>
worldVars == <<log, low, source, home, missed>>
subVars == <<once, ended, request, start>>

Idle == [at |-> "idle", current |-> TRUE, after |-> 0, next |-> 1, last |-> 0, more |-> FALSE]

-----------------------------------------------------------------------------
Init ==
  /\ log = <<>> /\ low = 0 /\ source \in Owners /\ home \in Hosts
  /\ stored = Nothing /\ once = FALSE /\ ended = FALSE /\ request = Nothing
  /\ drain = [h \in Hosts |-> Idle]
  /\ start = 0
  /\ delivered = [i \in 1..MaxEvents |-> 0]
  /\ missed = {} /\ mishaps = 0

Mishap == mishaps < MaxMishaps /\ mishaps' = mishaps + 1

(* The world: the log, the source and the target *)

\* An owner of the source publishes an event for the subscription, perhaps when
\* it no longer is the owner; or any other event is published.
Publish(by) ==
  /\ Len(log) < MaxEvents
  /\ log' = Append(log, by)
  /\ missed' = IF by = source THEN missed ELSE missed \cup {Len(log) + 1}
  /\ UNCHANGED <<low, source, home, stored, drain, mishaps, subVars, delivered>>

Compact ==
  /\ \E n \in (low + 1)..Len(log) :
       /\ low' = n
       /\ missed' = missed \cup {i \in 1..n : delivered[i] = 0}
  /\ UNCHANGED <<log, source, home, stored, drain, mishaps, subVars, delivered>>

\* The source leaves, misses its heartbeat, comes back or gets another owner.
SourceMoves ==
  /\ source' \in (Owners \cup {Nobody}) \ {source}
  /\ missed' = missed \cup {i \in DOMAIN log : log[i] = source}
  /\ UNCHANGED <<log, low, home, stored, drain, mishaps, subVars, delivered>>

TargetMoves ==
  /\ Mishap /\ \E h \in Hosts \ {home} : home' = h
  /\ UNCHANGED <<log, low, source, stored, drain, missed, subVars, delivered>>

SetDrain(h, d) == drain' = [drain EXCEPT ![h] = d]

\* The subscription is written, and host h goes on with d.
Overtakes(d) == IF d = Idle THEN Idle ELSE [d EXCEPT !.current = FALSE]
Overtaken(h, d) == drain' = [g \in Hosts |-> IF g = h THEN d ELSE Overtakes(drain[g])]

(* Subscribing *)

LatestSequence == Len(log)

\* subscribe, up to the read of latestSequence
Subscribe ==
  /\ stored = Nothing /\ ~ended /\ request = Nothing
  /\ once' \in BOOLEAN
  /\ request' = LatestSequence
  /\ start' = Len(log)
  /\ UNCHANGED <<stored, drain, ended, mishaps, worldVars, delivered>>

\* The put with ifVersion 0.  Events published since the read are included.
StoreSubscription ==
  /\ request # Nothing
  /\ stored' = request
  /\ request' = Nothing
  /\ UNCHANGED <<drain, once, start, ended, mishaps, worldVars, delivered>>

Unsubscribe ==
  /\ stored # Nothing
  /\ stored' = Nothing /\ ended' = TRUE
  /\ drain' = [h \in Hosts |-> Overtakes(drain[h])]
  /\ UNCHANGED <<once, request, start, mishaps, worldVars, delivered>>

(* Draining *)

\* ifVersion: the entry is the one the drain read or wrote last.
SameVersion(h) == drain[h].current

\* #poll and #drain: the target is local here.
BeginDrain(h) ==
  /\ drain[h].at = "idle" /\ stored # Nothing /\ home = h
  /\ Len(log) > stored
  /\ SetDrain(h, [Idle EXCEPT !.at = "read", !.after = stored])
  /\ UNCHANGED <<stored, mishaps, worldVars, subVars, delivered>>

\* #sourceIsCurrentOwner, and the event is one of the subscription's
Matches(i) == log[i] = source

\* mutant: what has been delivered is not counted as passed
Forgets(d, i) == d.after

Passed(d, i) == i

\* The batch from its next event on, up to the first that has to be delivered:
\* what does not match is passed over.
Aimed(d) ==
  LET due == {i \in d.next..d.last : Matches(i)}
  IN  IF due = {}
      THEN [d EXCEPT !.at = "save", !.next = d.last + 1,
                     !.after = IF d.next > d.last THEN @ ELSE d.last]
      ELSE LET i == CHOOSE i \in due : \A j \in due : i <= j
           IN  [d EXCEPT !.at = "deliver", !.next = i,
                         !.after = IF i > d.next THEN i - 1 ELSE @]

\* The log is read behind the cursor.  If nothing is left there, the cursor
\* goes to the log's end.
ReadBatch(h) ==
  LET d == drain[h]
      first == IF low > d.after THEN low + 1 ELSE d.after + 1
      last == IF first + Batch - 1 < Len(log) THEN first + Batch - 1 ELSE Len(log)
  IN  /\ d.at = "read"
      /\ SetDrain(h, IF Len(log) <= d.after THEN Idle
                     ELSE IF first > last THEN [d EXCEPT !.at = "save", !.after = Len(log)]
                     ELSE Aimed([d EXCEPT !.next = first, !.last = last,
                                          !.more = last - first + 1 = Batch]))
      /\ UNCHANGED <<stored, mishaps, worldVars, subVars, delivered>>

Reaches(i) ==
  delivered' = [delivered EXCEPT ![i] = @ + 1]

\* deliver resolves
Deliver(h) ==
  LET d == drain[h]
  IN  /\ d.at = "deliver"
      /\ Reaches(d.next)
      /\ SetDrain(h, IF once THEN [d EXCEPT !.at = "delete"]
                     ELSE Aimed([d EXCEPT !.after = Passed(d, d.next), !.next = d.next + 1]))
      /\ UNCHANGED <<stored, mishaps, worldVars, subVars>>

\* mutant: a failed delivery is passed over
GoesOn(d) == Aimed([d EXCEPT !.after = d.next, !.next = d.next + 1])

\* mutant: the cursor is saved with the event that failed
SkipsFailed(d) == [d EXCEPT !.at = "save", !.more = FALSE, !.after = d.next]

\* The cursor is saved up to the event that failed.
StopsBefore(d) == [d EXCEPT !.at = "save", !.more = FALSE]

\* deliver rejects, and the message did not get through, or did
DeliveryFails(h) ==
  /\ drain[h].at = "deliver"
  /\ SetDrain(h, StopsBefore(drain[h]))
  /\ \/ UNCHANGED <<delivered, mishaps>>
     \/ Mishap /\ Reaches(drain[h].next)
  /\ UNCHANGED <<stored, worldVars, subVars>>

\* #replace succeeds; after a full batch, the drain reads on.
Save(h) ==
  LET d == drain[h]
  IN  /\ d.at = "save" /\ SameVersion(h)
      /\ stored' = d.after
      /\ Overtaken(h, IF d.more THEN [Idle EXCEPT !.at = "read", !.after = d.after] ELSE Idle)
      /\ UNCHANGED <<mishaps, worldVars, subVars, delivered>>

\* A subscription for one event ends with its delivery.
Delete(h) ==
  /\ drain[h].at = "delete" /\ SameVersion(h)
  /\ stored' = Nothing /\ ended' = TRUE
  /\ Overtaken(h, Idle)
  /\ UNCHANGED <<once, request, start, mishaps, worldVars, delivered>>

\* The put or delete fails: another wrote the entry, or the lock was not had.
SaveFails(h) ==
  /\ drain[h].at \in {"save", "delete"}
  /\ IF SameVersion(h) THEN Mishap ELSE UNCHANGED mishaps
  /\ SetDrain(h, Idle)
  /\ UNCHANGED <<stored, worldVars, subVars, delivered>>

\* The host dies, or its broker is closed, and starts again.
Crash(h) ==
  /\ drain[h] # Idle /\ Mishap
  /\ SetDrain(h, Idle)
  /\ UNCHANGED <<stored, worldVars, subVars, delivered>>

Drains(h) == BeginDrain(h) \/ ReadBatch(h)
Writes(h) == Save(h) \/ Delete(h) \/ SaveFails(h)

Next ==
  \/ \E by \in Owners \cup {Nothing} : Publish(by)
  \/ Compact \/ SourceMoves \/ TargetMoves
  \/ Subscribe \/ StoreSubscription \/ Unsubscribe
  \/ \E h \in Hosts :
       Drains(h) \/ Deliver(h) \/ DeliveryFails(h) \/ Writes(h) \/ Crash(h)

Spec == Init /\ [][Next]_vars

\* Hosts poll, and delivery does not fail for ever.
FairSpec ==
  /\ Spec
  /\ \A h \in Hosts : WF_vars(Drains(h)) /\ SF_vars(Deliver(h)) /\ WF_vars(Writes(h))

-----------------------------------------------------------------------------
(* Properties *)

DrainRecord == [at : {"idle", "read", "deliver", "save", "delete"}, current : BOOLEAN,
                after : 0..MaxEvents, next : 1..(MaxEvents + 1),
                last : 0..MaxEvents, more : BOOLEAN]

\* The state is of the right shape.
TypeOK ==
  /\ log \in Seq(Owners \cup {Nothing}) /\ Len(log) <= MaxEvents
  /\ low \in 0..Len(log)
  /\ source \in Owners \cup {Nobody} /\ home \in Hosts
  /\ stored \in 0..MaxEvents \cup {Nothing}
  /\ once \in BOOLEAN /\ ended \in BOOLEAN
  /\ request \in 0..MaxEvents \cup {Nothing}
  /\ drain \in [Hosts -> DrainRecord]
  /\ start \in 0..MaxEvents
  /\ delivered \in [1..MaxEvents -> Nat]
  /\ missed \subseteq 1..MaxEvents
  /\ mishaps \in 0..MaxMishaps

\* An event that the subscription has a claim to: published after it was asked for,
\* by an owner that has been the source's ever since, and not compacted away.
Due(i) == i \in (start + 1)..Len(log) /\ i \notin missed

\* The stored cursor never passes an event that is due and was not delivered.
NothingSkipped ==
  stored # Nothing => \A i \in 1..Len(log) : Due(i) /\ delivered[i] = 0 => i > stored

\* Nothing is delivered out of order: when an event is delivered for the first
\* time, those before it that were due have been.
InOrder ==
  [][\A i, j \in 1..Len(log) :
       j < i /\ delivered[i] = 0 /\ delivered'[i] > 0 /\ Due(j) => delivered[j] > 0]_vars

\* As long as no host crashed or was relieved of the target, no lock was not
\* to be had and no delivery failed half way, every event was delivered at
\* most once, and of a subscription for one event only one.
OnceUnlessMishap ==
  mishaps = 0 => /\ \A i \in 1..MaxEvents : delivered[i] <= 1
                 /\ once => \A i, j \in 1..MaxEvents :
                              delivered[i] > 0 /\ delivered[j] > 0 => i = j

\* A subscription never hears of what was published before it was asked for.
NoHistory == \A i \in 1..MaxEvents : delivered[i] > 0 => i > start

\* A subscription that is stored has at some time had every event that is due, however
\* often it falls back, unless it ends.
EventuallyDelivered ==
  stored # Nothing ~> (ended \/ \A i \in 1..MaxEvents : Due(i) => delivered[i] > 0)
=============================================================================
