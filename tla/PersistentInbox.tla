--------------------------- MODULE PersistentInbox --------------------------
(***************************************************************************)
(* Persistent agents: the inbox of one agent, src/src/agents/persistent/   *)
(* manager.ts.                                                             *)
(*                                                                         *)
(* Each host process has its own managed object of the agent, with a queue *)
(* and the activation in flight; the host that the participant directory   *)
(* names as the owner works the queue in a drain loop and writes both to   *)
(* inbox.json.  A host that acquires an agent loads every object anew from *)
(* the files, while a drain of an earlier object may still be running.     *)
(* One action stands for what runs between two awaits.                     *)
(***************************************************************************)
EXTENDS Naturals, Sequences, SequencesExt, FiniteSets

CONSTANTS
  Hosts,
  QueueLimit,      \* mesh.persistentAgentQueueLimit
  Displaces,       \* whether mesh.persistentAgentOverflowPolicy drops or dead-letters the oldest
  NoItem,
  SavesFail,       \* whether the registry of the agents may fail to be saved
  MaxItems,        \* bound: activations that are accepted
  MaxStarts,       \* bound: starts of a host
  MaxMishaps       \* bound: crashes, moves, reloads, failed writes and failed saves together

ASSUME QueueAssumption == QueueLimit \in Nat \ {0} /\ {Displaces, SavesFail} \subseteq BOOLEAN
ASSUME ItemAssumption == NoItem \notin Nat
ASSUME InboxBounds == {MaxItems, MaxStarts, MaxMishaps} \subseteq Nat

VARIABLES
  up,           \* of each host, "down", "up" or "closing"
  owner,        \* the owner in the participant directory
  known,        \* of each host, what #ownership says
  objects,      \* of each host, its managed objects: the last one is in #persistentAgents
  file,         \* the queued activations of inbox.json
  accepted,     \* how many activations were accepted: they are 1..accepted, in order
  settled,      \* history: those with a terminal record, or cancelled
  started,      \* history: those whose run began
  spent,        \* history: those no later run of which a crash, a close or a failed write explains
  exposed,      \* history: those that an object which may write the inbox did not hold
  adrift,       \* history: those that an object held which a newer one has replaced
  count         \* the bounded events so far

environment == <<up, owner, count>>
marks == <<exposed, adrift>>
history == <<settled, started, spent, marks>>
inboxVars == <<environment, known, objects, file, accepted, history>>

Items == 1..MaxItems
Events == {"start", "mishap"}
Alive(h) == up[h] # "down"

\* #canManage refreshes #ownership before it answers: a step that asks it waits
\* until Refresh has been taken.
Fresh(h) == known[h] = (owner = h)
CanManage(h) == Fresh(h) /\ owner = h
Lost(h) == Fresh(h) /\ owner # h

Happens(event, limit) == count[event] < limit /\ count' = [count EXCEPT ![event] = @ + 1]
Mishap == Happens("mishap", MaxMishaps)
SaveFails == SavesFail /\ Mishap

\* What #persistInbox writes of an object.
Held(o) == (IF o.inFlight = NoItem THEN <<>> ELSE <<o.inFlight>>) \o o.queue

\* mutant: what does not fit the queue is not restored
Truncated(f) == SubSeq(f, 1, Min({QueueLimit, Len(f)}))

\* The queue that #loadInbox restores: the limit, and the activation that was in flight.
Restored(f) == SubSeq(f, 1, Min({QueueLimit + 1, Len(f)}))

Loaded ==
  [queue |-> Restored(file), inFlight |-> NoItem, item |-> NoItem,
   at |-> "off", fate |-> "none", callers |-> {}, stranded |-> TRUE]

\* Those in the queue whose callers listen: they gave them to this very object.
Waiting(o) == {n \in DOMAIN o.queue : o.queue[n] \in o.callers}

\* The callers are told that the agent is suspended or has moved, and stop listening.
Told(h) == objects' = [objects EXCEPT ![h][Len(objects[h])].callers = {}]

\* The drain takes the first activation off the queue.
Taken(o) ==
  [o EXCEPT !.queue = Tail(@), !.inFlight = Head(o.queue), !.item = Head(o.queue),
            !.at = "starting", !.fate = "none", !.stranded = FALSE]

EnsureDrain(mode, o) == IF o.at = "off" /\ mode = "up" /\ o.queue # <<>> THEN Taken(o) ELSE o

InboxInit ==
  /\ up = [h \in Hosts |-> "down"]
  /\ owner \in Hosts
  /\ known = [h \in Hosts |-> FALSE]
  /\ objects = [h \in Hosts |-> <<>>]
  /\ file = <<>>
  /\ accepted = 0
  /\ settled = {} /\ started = {} /\ spent = {} /\ exposed = {} /\ adrift = {}
  /\ count = [e \in Events |-> 0]

-----------------------------------------------------------------------------
(* The inbox file: only a host that believes it owns the agent writes it *)

\* Nothing of a drain or of a caller refers to the object.
Idle(o) == o.at = "off" /\ Waiting(o) = {}

\* The objects through which h writes the inbox when it believes that it owns the agent:
\* the one that is found by name, and those of which a drain or a caller keeps hold.
Busy(h) == {k \in DOMAIN objects[h] : ~Idle(objects[h][k])}
Writers(h) == Busy(h) \cup {Len(objects[h])}
MayWrite(h, k) == known[h] /\ k \in Writers(h)

Unsettled == 1..accepted \ settled
Lacks(o) == Unsettled \ Range(Held(o))
HeldBy(h) == UNION {Range(Held(objects[h][k])) : k \in DOMAIN objects[h]}

\* #persistInboxSafely: the activations in ended are over once this is written, those
\* in again are to be run again.
StoreSafely(h, o, ended, again) ==
  \/ /\ known[h]
     /\ file' = Held(o)
     /\ spent' = (spent \cup ended) \ again
     /\ UNCHANGED count
  \/ /\ known[h]
     /\ Mishap
     /\ spent' = spent \ (ended \cup again)
     /\ UNCHANGED file
  \/ /\ ~known[h]
     /\ spent' = spent \ (ended \cup again)
     /\ UNCHANGED <<file, count>>

Current(h) == Last(objects[h])
Replace(h, o) == objects' = [objects EXCEPT ![h][Len(objects[h])] = o]

\* Another object than the current one of h may write the inbox.
HasRival(h) ==
  \E g \in Hosts : \E k \in Writers(g) : known[g] /\ ~(g = h /\ k = Len(objects[h]))

\* tell, ask, a mesh event or a host event.  A write that fails takes the activation
\* back, and the caller's call throws.  What a failed drain left in flight gives way.
Accept(h) ==
  LET o == Current(h)
      full == Len(o.queue) >= QueueLimit
      dropped == IF full THEN {Head(o.queue)} ELSE {}
      room == IF full THEN Tail(o.queue) ELSE o.queue
      given == [o EXCEPT !.queue = Append(room, accepted + 1), !.callers = @ \cup {accepted + 1}]
      after == EnsureDrain(up[h], given)
  IN /\ Alive(h) /\ CanManage(h) /\ accepted < MaxItems
     /\ full => Displaces
     /\ Replace(h, after)
     /\ file' = Held(after)
     /\ accepted' = accepted + 1
     /\ settled' = settled \cup dropped
     /\ spent' = spent \cup dropped
     /\ exposed' = exposed \cup (IF HasRival(h) THEN {accepted + 1} ELSE {})
                            \cup ({o.inFlight} \ {after.inFlight, NoItem})
     /\ UNCHANGED <<environment, known, started, adrift>>

\* The signal of an ask fires while its activation is queued in the object it was given to.
Withdraw(h) ==
  \E k \in DOMAIN objects[h] : \E n \in Waiting(objects[h][k]) :
    LET i == objects[h][k].queue[n]
        o == [objects[h][k] EXCEPT !.queue = RemoveAt(@, n)]
    IN /\ objects' = [objects EXCEPT ![h][k] = o]
       /\ settled' = settled \cup {i}
       /\ StoreSafely(h, o, {i}, {})
       /\ UNCHANGED <<up, owner, known, accepted, started, marks>>

\* haltAll cancels what is queued and aborts what is in flight.
Halt(h) ==
  LET o == [Current(h) EXCEPT !.queue = <<>>]
      cancelled == Range(Current(h).queue)
  IN /\ Alive(h) /\ CanManage(h) /\ cancelled # {}
     /\ Replace(h, o)
     /\ settled' = settled \cup cancelled
     /\ StoreSafely(h, o, cancelled, {})
     /\ UNCHANGED <<up, owner, known, accepted, started, marks>>

-----------------------------------------------------------------------------
(* The drain of the k-th object *)

Moves(h, k, o) == objects' = [objects EXCEPT ![h][k] = o]

\* The presence was published and the activation is valid: its run begins.
Begin(h, k) ==
  LET o == objects[h][k] IN
  /\ o.at = "starting"
  /\ Moves(h, k, [o EXCEPT !.at = "running"])
  /\ started' = started \cup {o.item}
  /\ spent' = spent \cup {o.item}
  /\ UNCHANGED <<environment, known, file, accepted, settled, marks>>

\* mutant: an activation that is over stays in flight
StaysInFlight(o) == o

Dropped(o) == [o EXCEPT !.inFlight = IF @ = o.item THEN NoItem ELSE @]

\* #finishInboxItem, with a record of how the activation ended.
Finish(h, k, at) ==
  LET o == [Dropped(objects[h][k]) EXCEPT !.at = at, !.fate = "terminal"] IN
  /\ Moves(h, k, o)
  /\ settled' = settled \cup {o.item}
  /\ StoreSafely(h, o, {o.item}, {})

\* validWhile says that the activation is stale: before its run, or after it.
Invalidate(h, k) ==
  /\ \/ objects[h][k].at = "starting" /\ Finish(h, k, "resting")
     \/ objects[h][k].at \in {"delivering", "committing"} /\ Finish(h, k, "leaving")
  /\ UNCHANGED <<up, owner, known, accepted, started, marks>>

Leaving(h, k, fate) ==
  /\ Moves(h, k, [objects[h][k] EXCEPT !.at = "leaving", !.fate = fate])
  /\ UNCHANGED <<up, owner, file, settled, spent>>

\* The run has ended, and with it every retry of a startup that failed.  A closing host
\* keeps the activation, unless the run threw and the agent has moved.
RunEnds(h, k) ==
  /\ objects[h][k].at = "running"
  /\ \/ up[h] = "closing" /\ Leaving(h, k, "retain") /\ UNCHANGED count
     \/ Lost(h) /\ Leaving(h, k, "moved") /\ UNCHANGED count
     \/ /\ up[h] = "up" /\ CanManage(h)
        /\ Moves(h, k, [objects[h][k] EXCEPT !.at = "delivering"])
        /\ UNCHANGED <<environment, file, settled, spent>>
     \/ up[h] = "up" /\ CanManage(h) /\ Finish(h, k, "leaving") /\ UNCHANGED <<up, owner>>
  /\ UNCHANGED <<known, accepted, started, marks>>

\* The output goes to the mesh and to Main, under the activation's id; failed
\* deliveries only change the receipt.  When the registry cannot be saved before that, a
\* closing host keeps the activation; otherwise it ends like one that is stale.
Deliver(h, k) ==
  /\ objects[h][k].at = "delivering"
  /\ \/ Lost(h) /\ Leaving(h, k, "moved") /\ UNCHANGED count
     \/ CanManage(h) /\ up[h] = "closing" /\ SaveFails /\ Leaving(h, k, "retain")
     \/ /\ CanManage(h)
        /\ Moves(h, k, [objects[h][k] EXCEPT !.at = "committing"])
        /\ UNCHANGED <<environment, file, settled, spent>>
  /\ UNCHANGED <<known, accepted, started, marks>>

\* #commitInboxItem.
Commit(h, k) ==
  LET o == [Dropped(objects[h][k]) EXCEPT !.at = "leaving", !.fate = "terminal"] IN
  /\ objects[h][k].at = "committing"
  /\ Moves(h, k, o)
  /\ settled' = settled \cup {o.item}
  /\ file' = IF known[h] THEN Held(o) ELSE file
  /\ spent' = IF known[h] THEN spent ELSE spent \ {o.item}
  /\ UNCHANGED <<environment, known, accepted, started, marks>>

\* #commitInboxItem cannot write: the activation is in flight again and the handler
\* of failed runs takes over.
CommitFails(h, k) ==
  LET o == [Dropped(objects[h][k]) EXCEPT !.at = "leaving", !.fate = "terminal"] IN
  /\ objects[h][k].at = "committing" /\ known[h]
  /\ Mishap
  /\ \/ Lost(h) /\ Moves(h, k, [objects[h][k] EXCEPT !.at = "leaving", !.fate = "moved"])
        /\ UNCHANGED <<file, settled>>
     \/ /\ CanManage(h) /\ up[h] = "closing"
        /\ Moves(h, k, [objects[h][k] EXCEPT !.at = "leaving", !.fate = "retain"])
        /\ UNCHANGED <<file, settled>>
     \/ /\ CanManage(h) /\ up[h] = "up"
        /\ Moves(h, k, o)
        /\ file' \in {file, Held(o)}
        /\ settled' = settled \cup {o.item}
  /\ spent' = spent \ {objects[h][k].item}
  /\ UNCHANGED <<up, owner, known, accepted, started, marks>>

\* mutant: what a closing host keeps goes to the end of the queue
KeptLast(o) == Append(o.queue, o.item)

Kept(o) == <<o.item>> \o o.queue

\* The finally of an activation: one that is kept for the next start is the first again,
\* one that has moved is left to the new owner.
Leave(h, k) ==
  LET o == objects[h][k]
      after == [Dropped(o) EXCEPT !.queue = IF o.fate = "retain" /\ o.item \notin Range(@) THEN Kept(o) ELSE @,
                                  !.at = "resting"]
      again == IF o.fate = "terminal" THEN {} ELSE {o.item}
  IN /\ o.at = "leaving"
     /\ Moves(h, k, after)
     /\ IF o.fate = "moved"
        THEN spent' = spent \ again /\ UNCHANGED <<file, count>>
        ELSE StoreSafely(h, after, {}, again)
     /\ exposed' = IF o.fate = "moved" /\ known[h] THEN exposed \cup {o.item} ELSE exposed
     /\ UNCHANGED <<up, owner, known, accepted, settled, started, adrift>>

\* mutant: the loop ends after one activation
StopsAfterOne(h, o) == FALSE

Continues(h, o) == o.queue # <<>> /\ up[h] = "up" /\ CanManage(h)

NextItem(h, k) ==
  LET o == Taken(objects[h][k]) IN
  /\ objects[h][k].at = "resting" /\ Continues(h, objects[h][k])
  /\ Moves(h, k, o)
  /\ StoreSafely(h, o, {}, {})
  /\ UNCHANGED <<up, owner, known, accepted, settled, started, marks>>

\* The loop asks who owns the agent only when the queue holds something and the host
\* does not close.
DrainEnds(h, k) ==
  /\ objects[h][k].at = "resting" /\ ~Continues(h, objects[h][k])
  /\ objects[h][k].queue # <<>> /\ up[h] = "up" => Fresh(h)
  /\ Moves(h, k, [objects[h][k] EXCEPT !.at = "off"])
  /\ UNCHANGED <<environment, known, file, accepted, history>>

\* #savePersistentAgents throws while the presence is published: the drain rejects, before a
\* run with the activation still in flight.
PresenceFails(h, k) ==
  /\ objects[h][k].at \in {"starting", "resting"}
  /\ CanManage(h)
  /\ SaveFails
  /\ Moves(h, k, [objects[h][k] EXCEPT !.at = "off", !.stranded = TRUE])
  /\ UNCHANGED <<up, owner, known, file, accepted, history>>

-----------------------------------------------------------------------------
(* Ownership, loading, and the life of a host process *)

\* The map is replaced by what the files say; a drain that runs and callers that listen
\* keep the object they have.
Reload(h) ==
  LET old == Current(h) IN
  /\ objects' = [objects EXCEPT ![h] = Append(IF Idle(old) THEN Front(@) ELSE @, Loaded)]
  /\ adrift' = IF Idle(old) THEN adrift ELSE adrift \cup Range(Held(old))

\* #refreshOwnership finds that the owner has changed.
Refresh(h) ==
  /\ Alive(h) /\ ~Fresh(h)
  /\ known' = [known EXCEPT ![h] = owner = h]
  /\ \/ /\ owner = h /\ up[h] = "up"
        /\ Reload(h)
        /\ exposed' = exposed \cup UNION {Lacks(objects[h][k]) : k \in Busy(h)}
     \/ owner # h /\ Told(h) /\ UNCHANGED marks
  /\ UNCHANGED <<environment, file, accepted, settled, started, spent>>

\* Another agent was acquired, or a host without agents sees the registry change.
ReloadAll(h) ==
  /\ up[h] = "up" /\ Fresh(h)
  /\ Mishap
  /\ Reload(h)
  /\ UNCHANGED <<up, owner, known, file, accepted, settled, started, spent, exposed>>

\* The participant directory names another owner; the old one may live.
Move(h) ==
  /\ up[h] = "up" /\ owner # h
  /\ Mishap
  /\ owner' = h
  /\ adrift' = adrift \cup HeldBy(owner)
  /\ UNCHANGED <<up, known, objects, file, accepted, settled, started, spent, exposed>>

\* mutant: every host drains what it restores
AnyHostDrains(h) == TRUE

DrainsAtStart(h) == owner = h

Start(h) ==
  LET o == IF DrainsAtStart(h) THEN EnsureDrain("up", Loaded) ELSE Loaded IN
  /\ up[h] = "down"
  /\ Happens("start", MaxStarts)
  /\ up' = [up EXCEPT ![h] = "up"]
  /\ known' = [known EXCEPT ![h] = owner = h]
  /\ objects' = [objects EXCEPT ![h] = <<o>>]
  /\ file' = IF o.at = "off" THEN file ELSE Held(o)
  /\ UNCHANGED <<owner, accepted, history>>

\* A closing host that acquires the agent goes on with the objects it has.
Acquired(h) ==
  /\ exposed' = exposed \cup UNION {Lacks(objects[h][k]) : k \in Writers(h)}
  /\ adrift' = adrift \cup Range(Held(Current(h)))

\* close begins: ownership is refreshed once more, the run in flight is aborted, callers
\* are told that the agent is suspended.
Close(h) ==
  /\ up[h] = "up"
  /\ up' = [up EXCEPT ![h] = "closing"]
  /\ known' = [known EXCEPT ![h] = owner = h]
  /\ Told(h)
  /\ IF known[h] \/ owner # h THEN UNCHANGED marks ELSE Acquired(h)
  /\ UNCHANGED <<owner, count, file, accepted, settled, started, spent>>

\* close has awaited the drain: the inbox is written once more.
CloseEnds(h) ==
  /\ up[h] = "closing" /\ Current(h).at = "off"
  /\ StoreSafely(h, Current(h), {}, {})
  /\ up' = [up EXCEPT ![h] = "down"]
  /\ known' = [known EXCEPT ![h] = FALSE]
  /\ objects' = [objects EXCEPT ![h] = <<>>]
  /\ UNCHANGED <<owner, accepted, settled, started, marks>>

HostCrashes(h) ==
  /\ Alive(h)
  /\ Mishap
  /\ up' = [up EXCEPT ![h] = "down"]
  /\ known' = [known EXCEPT ![h] = FALSE]
  /\ objects' = [objects EXCEPT ![h] = <<>>]
  /\ spent' = spent \ {objects[h][k].inFlight : k \in DOMAIN objects[h]}
  /\ UNCHANGED <<owner, file, accepted, settled, started, marks>>

Drains(h) ==
  \E k \in DOMAIN objects[h] :
    \/ Begin(h, k) \/ Invalidate(h, k) \/ RunEnds(h, k) \/ Deliver(h, k)
    \/ Commit(h, k) \/ CommitFails(h, k) \/ Leave(h, k)
    \/ NextItem(h, k) \/ DrainEnds(h, k) \/ PresenceFails(h, k)

InboxNext ==
  \E h \in Hosts :
    \/ Accept(h) \/ Withdraw(h) \/ Halt(h) \/ Drains(h)
    \/ Refresh(h) \/ ReloadAll(h) \/ Move(h)
    \/ Start(h) \/ Close(h) \/ CloseEnds(h) \/ HostCrashes(h)

InboxSpec == InboxInit /\ [][InboxNext]_inboxVars

\* A process goes on with its promises, its runs end, and it polls who owns the agent.
InboxFairness == \A h \in Hosts : WF_inboxVars(Drains(h)) /\ WF_inboxVars(Refresh(h))
FairInboxSpec == InboxSpec /\ InboxFairness

-----------------------------------------------------------------------------
(* Properties *)

Managed ==
  [queue : Seq(Items), inFlight : Items \cup {NoItem}, item : Items \cup {NoItem},
   at : {"off", "starting", "running", "delivering", "committing", "leaving", "resting"},
   fate : {"none", "retain", "moved", "terminal"}, callers : SUBSET Items, stranded : BOOLEAN]

InboxTypeOK ==
  /\ up \in [Hosts -> {"down", "up", "closing"}]
  /\ owner \in Hosts
  /\ known \in [Hosts -> BOOLEAN]
  /\ objects \in [Hosts -> Seq(Managed)]
  /\ file \in Seq(Items)
  /\ accepted \in 0..MaxItems
  /\ settled \subseteq Items /\ started \subseteq Items /\ spent \subseteq Items
  /\ exposed \subseteq Items /\ adrift \subseteq Items
  /\ count \in [Events -> Nat]

Working(h, k) == objects[h][k].at \in {"running", "delivering", "committing"}

\* An activation that was accepted and has not ended is in the inbox file, whatever
\* crashed, closed, moved or could not be written since (#persistInbox, #loadInbox), unless
\* another object that may write the inbox did not hold it, when it was accepted or when
\* that object's host acquired the agent, or an object let go of it.
AcceptedIsStored == 1..accepted \ (settled \cup exposed) \subseteq Range(file)

\* docs/ultra-fabric.md:396: an acknowledged inbox item survives process restart and
\* ownership transfer, without exception.
AcknowledgedSurvives == 1..accepted \ settled \subseteq Range(file)

\* The activations of an agent are worked one at a time, over all hosts and all objects
\* (#ensureDrain, canManagePersistentAgent), but for those that a living host or an earlier
\* object had in hand when the agent was taken from it.
SerialActivation ==
  Cardinality({w \in UNION {{h} \X DOMAIN objects[h] : h \in Hosts} :
                 Working(w[1], w[2]) /\ objects[w[1]][w[2]].item \notin adrift}) <= 1

\* An activation begins only after those accepted before it have ended, also across a
\* close, a crash, a reload and a takeover, living or not: one that was in flight comes back
\* first.  Those that were exposed may be passed over.
InOrder ==
  [][\A i \in started' \ started : 1..(i - 1) \subseteq settled \cup exposed]_inboxVars

\* A run of an activation begins again only when a crash, a close or a failed write of
\* the inbox came in between, or an object held it that has been replaced; what was
\* cancelled or displaced does not begin at all.
NoNeedlessRun ==
  [][\A h \in Hosts, i \in Items :
       (\E k \in DOMAIN objects[h] : Begin(h, k) /\ objects[h][k].item = i) => i \notin spent \ adrift]_inboxVars

\* An activation in the queue of a living owner ends, unless the owner goes away or
\* changes; the ones left alone are those a takeover or a reload loaded or a drain left
\* that could not publish its presence, until the next activation is accepted.
QueueIsDrained ==
  \A h \in Hosts, i \in Items :
    (owner = h /\ up[h] = "up" /\ known[h] /\ i \in Range(Held(Current(h)))) ~>
      (i \in settled \/ owner # h \/ up[h] # "up" \/ ~known[h] \/ Current(h).stranded)
=============================================================================
