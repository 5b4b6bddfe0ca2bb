------------------------ MODULE ParticipantDirectory ------------------------
(***************************************************************************)
(* The participant directory: src/src/topology/participant-directory.ts.   *)
(*                                                                         *)
(* Every host keeps a lease, and writes a record of each participant that  *)
(* it lists, to the mesh's shared state, which is used by its contract     *)
(* (conditional puts and deletions).  The participants are the persistent  *)
(* agents that all sessions of a project list: the host whose record it is *)
(* owns the agent.  A host whose lease has run out may be taken over.  The *)
(* session and presence entries of earlier releases are still written, and *)
(* still respected.  One action stands for what runs between two awaits.   *)
(***************************************************************************)
EXTENDS Naturals, FiniteSets

CONSTANTS
  Hosts, Agents,
  Founder,        \* the host that has created the agents
  Nothing,
  QuickRestarts,  \* environment: a host may come back before another one has seen it go
  MaxEvents       \* bound: delays, restarts, crashes, removals and failures, together

ASSUME HostAssumption == Founder \in Hosts /\ Nothing \notin Hosts \cup Agents
ASSUME BoundAssumption == MaxEvents \in Nat /\ QuickRestarts \in BOOLEAN

VARIABLES
  host,      \* of each host: "off", "up", "quiescing", "quiet", "closing", "closed" or "dead"
  removed,   \* agents that are no longer in the shared registry
  creator,   \* of each agent: the host that created it, while it runs
  lists,     \* of each host: the agents its sources name
  lease,     \* of each host: "live" or "lapsed", or Nothing when it has no record
  session,   \* of each host: the same of its session entry
  presence,  \* of each host: the agents for which it has a presence entry
  entry,     \* of each agent: its record's owner, and whether the capabilities are withdrawn
  refresh,   \* of each host: the refresh, or the close, under way
  steady,    \* history: agents whose owner's lease has not lapsed since it claimed them
  mishaps,   \* history: of each host, what went wrong since it started
  count      \* how many of the bounded events there were

people == <<removed, creator, lists>>
vars == <<host, people, lease, session, presence, entry, refresh, steady, mishaps, count>>

Idle == [at |-> "idle", quiet |-> FALSE, todo |-> {}, gone |-> {}, mine |-> {}, same |-> {},
         legacy |-> {}, fresh |-> {}, late |-> {}, lateSession |-> {}, on |-> Nothing, cond |-> TRUE]
Open == {"up", "quiescing", "quiet"}
NoOwner == [owner |-> Nothing, quiet |-> FALSE]

\* Whether h takes a live lease: it read the clock when the refresh began, and counts as live
\* what has lapsed since.
OwnerLives(h, owner) == lease[owner] = "live" \/ owner \in refresh[h].late

\* mutant: a session entry counts for ever
LegacyForever(h, a) == {g \in Hosts \ {h} : a \in presence[g] /\ session[g] # Nothing}

\* The others whose presence and live session entries name them as owners.
LegacyOwners(h, a) ==
  {g \in Hosts \ {h} : a \in presence[g] /\ (session[g] = "live" \/ g \in refresh[h].lateSession)}

Owned(a) == entry[a].owner # Nothing /\ lease[entry[a].owner] = "live"

\* get(), as the manager of the persistent agents asks it
Manages(h, a) ==
  IF Owned(a) THEN entry[a].owner = h
  ELSE creator[a] = h /\ \A g \in Hosts \ {h} : a \in presence[g] => session[g] # "live"

Happens == count < MaxEvents /\ count' = count + 1

Init ==
  /\ host = [h \in Hosts |-> IF h = Founder THEN "up" ELSE "off"]
  /\ removed = {}
  /\ creator = [a \in Agents |-> Founder]
  /\ lists = [h \in Hosts |-> IF h = Founder THEN Agents ELSE {}]
  /\ lease = [h \in Hosts |-> Nothing]
  /\ session = [h \in Hosts |-> Nothing]
  /\ presence = [h \in Hosts |-> {}]
  /\ entry = [a \in Agents |-> NoOwner]
  /\ refresh = [h \in Hosts |-> Idle]
  /\ steady = {}
  /\ mishaps = [h \in Hosts |-> {}]
  /\ count = 0

-----------------------------------------------------------------------------
(* The persistent agents, and who lists them *)

Registered == Agents \ removed
hostVars == <<host, lease, session, entry, refresh, steady, mishaps>>

\* Another session reads the registry, or adds what it misses.
Sync(h) ==
  /\ host[h] = "up"
  /\ lists' \in {[lists EXCEPT ![h] = Registered], [lists EXCEPT ![h] = @ \cup Registered]}
  /\ UNCHANGED <<removed, creator, hostVars, presence, count>>

\* #publishPresence: the owner writes the presence entry, now and then.
Announce(h, a) ==
  /\ host[h] \in Open /\ a \in lists[h] /\ Manages(h, a)
  /\ presence' = [presence EXCEPT ![h] = @ \cup {a}]
  /\ UNCHANGED <<people, hostVars, count>>

Remove(h, a) ==
  /\ host[h] = "up" /\ a \in lists[h] \ removed /\ Manages(h, a)
  /\ Happens
  /\ removed' = removed \cup {a}
  /\ lists' = [lists EXCEPT ![h] = @ \ {a}]
  /\ presence' = [presence EXCEPT ![h] = @ \ {a}]
  /\ UNCHANGED <<creator, hostVars>>

-----------------------------------------------------------------------------
(* A refresh *)

\* The refresh, or the close, has dealt with these.
Without(r, dealt) ==
  [r EXCEPT !.todo = @ \ dealt, !.gone = @ \ dealt, !.mine = @ \ dealt, !.same = @ \ dealt,
            !.legacy = @ \ dealt, !.fresh = @ \ dealt, !.on = Nothing, !.cond = TRUE]

\* mutant: quiesce waits for the refresh under way, and for no other
JoinsAny(h, r) == host' = [host EXCEPT ![h] = IF @ = "quiescing" /\ r = Idle THEN "quiet" ELSE @]

\* Quiesce waits for a refresh that began after it.
Joins(h, r) ==
  host' = [host EXCEPT ![h] = IF @ = "quiescing" /\ r = Idle /\ refresh[h].quiet THEN "quiet" ELSE @]

Goes(h, r) == Joins(h, r) /\ refresh' = [refresh EXCEPT ![h] = r]

\* The record of a is written: what the others have read of it is out of date.
Writes(h, a, e, r) ==
  /\ entry' = [entry EXCEPT ![a] = e]
  /\ refresh' = [g \in Hosts |-> IF g = h THEN r ELSE [refresh[g] EXCEPT !.fresh = @ \ {a}]]
  /\ Joins(h, r)

At(h, where) == refresh[h].at = where /\ host[h] \in Open \cup {"closing"}

\* The heartbeat, or a change of what is listed.
Begin(h) ==
  /\ host[h] \in Open /\ refresh[h].at = "idle"
  /\ Goes(h, [Idle EXCEPT !.at = "host", !.quiet = host[h] # "up", !.todo = lists[h]])
  /\ UNCHANGED <<people, lease, session, presence, entry, steady, mishaps, count>>

OwnedBy(h) == {a \in Agents : entry[a].owner = h}

\* Whoever read the record before goes by what it says now.
PutHost(h) ==
  /\ At(h, "host")
  /\ lease' = [lease EXCEPT ![h] = "live"]
  /\ Goes(h, [refresh[h] EXCEPT !.at = "session"])
  /\ UNCHANGED <<people, session, presence, entry, steady, mishaps, count>>

\* The host has read that the agent is its own, or finds that nobody owns it.
MayClaim(h, r, a) ==
  \/ a \in r.mine \/ entry[a].owner = h
  \/ entry[a].owner = Nothing /\ a \notin r.legacy
  \/ entry[a].owner \notin {Nothing, h} /\ ~OwnerLives(h, entry[a].owner)

\* Without a record there is no version to name in the put.
Aim(r, a, skipped) ==
  [Without(r, skipped \cup {a}) EXCEPT
     !.at = "put", !.on = a, !.cond = a \in r.mine \/ entry[a].owner # Nothing,
     !.fresh = IF a \in r.mine THEN @ \cup (r.fresh \cap {a}) ELSE @ \cup {a},
     !.late = IF r.todo = skipped \cup {a} THEN {} ELSE @]

\* How a refresh goes on when a write is over: it passes over some agents, up to the next put
\* that it makes; after the last one it deletes.
GoesOn(h, r) ==
  LET passes == {a \in r.todo : a \in r.same \/ ~MayClaim(h, r, a)}
      aims   == {a \in r.todo : MayClaim(h, r, a)}
  IN  {Aim(r, a, skipped) : a \in aims, skipped \in SUBSET passes}
      \cup (IF passes # r.todo THEN {}
            ELSE {IF r.gone = {} THEN Idle
                  ELSE [Without(r, r.todo) EXCEPT !.at = "delete", !.late = {}]})

ReadAll(h) ==
  LET r == refresh[h] IN
  [r EXCEPT !.mine = OwnedBy(h) \cap r.todo, !.fresh = OwnedBy(h), !.gone = OwnedBy(h) \ r.todo,
            !.same = {a \in OwnedBy(h) \cap r.todo : entry[a].quiet = r.quiet},
            !.legacy = {a \in r.todo : LegacyOwners(h, a) # {}}, !.lateSession = {}]

\* A host that goes away deletes its session entry; a deletion that fails is ignored.
PutSession(h) ==
  /\ At(h, "session")
  /\ \/ host[h] = "up" /\ session' = [session EXCEPT ![h] = "live"] /\ UNCHANGED count
     \/ host[h] # "up" /\ session' = [session EXCEPT ![h] = Nothing] /\ UNCHANGED count
     \/ host[h] # "up" /\ UNCHANGED session /\ Happens
  /\ \E r \in GoesOn(h, ReadAll(h)) : Goes(h, r)
  /\ UNCHANGED <<people, lease, presence, entry, steady, mishaps>>

\* mutant: the put names no version
PutsAnyway(r) == TRUE

PutSucceeds(r) == ~r.cond \/ r.on \in r.fresh

\* Somebody else found no record and is about to write one.
Contested(h, a) == \E g \in Hosts \ {h} : At(g, "put") /\ refresh[g].on = a /\ ~refresh[g].cond

Claim(h) ==
  LET r == refresh[h]  a == r.on IN
  /\ At(h, "put") /\ PutSucceeds(r)
  /\ \E next \in GoesOn(h, Without(r, {a})) : Writes(h, a, [owner |-> h, quiet |-> r.quiet], next)
  /\ steady' = IF lease[h] = "live" /\ ~Contested(h, a) THEN steady \cup {a}
               ELSE IF entry[a].owner = h THEN steady ELSE steady \ {a}
  /\ UNCHANGED <<people, lease, session, presence, mishaps, count>>

\* A put that fails is no error when another host owns the agent by now.
Loses(h) ==
  LET r == refresh[h] IN
  /\ At(h, "put") /\ entry[r.on].owner \notin {Nothing, h}
  /\ (~PutSucceeds(r) /\ UNCHANGED count) \/ Happens
  /\ \E next \in GoesOn(h, Without(r, {r.on})) : Goes(h, next)
  /\ UNCHANGED <<people, lease, session, presence, entry, steady, mishaps>>

\* A write fails otherwise, or the state cannot be read: the refresh rejects, and the next
\* heartbeat begins a new one.
Fails(h) ==
  LET r == refresh[h] IN
  /\ host[h] \in Open \cup {"closing"} /\ r.at \in {"host", "session", "put"}
  /\ r.at = "session" => host[h] = "up"
  /\ r.at = "put" => entry[r.on].owner \in {Nothing, h}
  /\ (r.at = "put" /\ ~PutSucceeds(r) /\ UNCHANGED count) \/ Happens
  /\ Goes(h, Idle)
  /\ mishaps' = [mishaps EXCEPT ![h] = IF r.quiet THEN @ \cup {"withdrawal"} ELSE @]
  /\ UNCHANGED <<people, lease, session, presence, entry, steady>>

\* What the host owned and does not list any more, or owns when it closes.
Delete(h, a) ==
  LET r == refresh[h]  left == IF r.at = "delete" /\ r.gone = {a} THEN Idle ELSE Without(r, {a}) IN
  /\ a \in r.gone
  /\ At(h, "delete") \/ At(h, "entries")
  /\ \/ a \in r.fresh /\ Writes(h, a, NoOwner, left) /\ steady' = steady \ {a}
        /\ UNCHANGED <<mishaps, count>>
     \/ a \notin r.fresh /\ Goes(h, left) /\ UNCHANGED <<entry, steady, mishaps, count>>
     \/ /\ Happens /\ Goes(h, left)
        /\ mishaps' = [mishaps EXCEPT ![h] = @ \cup {"withdrawal", "deletion"}]
        /\ UNCHANGED <<entry, steady>>
  /\ UNCHANGED <<people, lease, session, presence>>

-----------------------------------------------------------------------------
(* Quiesce, close, crash and start *)

Quiesce(h) ==
  /\ host[h] = "up"
  /\ host' = [host EXCEPT ![h] = "quiescing"]
  /\ UNCHANGED <<people, lease, session, presence, entry, refresh, steady, mishaps, count>>

Close(h) ==
  /\ host[h] = "quiet"
  /\ host' = [host EXCEPT ![h] = "closing"]
  /\ UNCHANGED <<people, lease, session, presence, entry, refresh, steady, mishaps, count>>

\* Close waits for the refresh under way.
CloseLists(h) ==
  /\ host[h] = "closing" /\ refresh[h].at = "idle"
  /\ Goes(h, [Idle EXCEPT !.at = "entries", !.gone = OwnedBy(h), !.fresh = OwnedBy(h)])
  /\ UNCHANGED <<people, lease, session, presence, entry, steady, mishaps, count>>

\* A deletion that fails is ignored.
Drops(h, left) ==
  /\ \/ left' = [left EXCEPT ![h] = Nothing] /\ UNCHANGED <<mishaps, count>>
     \/ Happens /\ mishaps' = [mishaps EXCEPT ![h] = @ \cup {"deletion"}] /\ UNCHANGED left
  /\ UNCHANGED <<removed, presence, entry>>

\* After the records, the session entry.
CloseSession(h) ==
  /\ At(h, "entries") /\ refresh[h].gone = {}
  /\ Drops(h, session)
  /\ Goes(h, [refresh[h] EXCEPT !.at = "lease"])
  /\ UNCHANGED <<creator, lists, lease, steady>>

Ceases(h, how) ==
  /\ host' = [host EXCEPT ![h] = how]
  /\ lists' = [lists EXCEPT ![h] = {}]
  /\ creator' = [a \in Agents |-> IF creator[a] = h THEN Nothing ELSE creator[a]]
  /\ refresh' = [refresh EXCEPT ![h] = Idle]

CloseLease(h) ==
  /\ At(h, "lease")
  /\ Drops(h, lease)
  /\ Ceases(h, "closed")
  /\ steady' = steady \ OwnedBy(h)
  /\ UNCHANGED session

Crash(h) ==
  /\ host[h] \in Open \cup {"closing"} /\ Happens
  /\ Ceases(h, "dead")
  /\ UNCHANGED <<removed, lease, session, presence, entry, steady, mishaps>>

Wanted(a) == \E h \in Hosts : host[h] = "up" /\ a \in lists[h]

\* Nobody waits for an agent that this host has given up.
Settled == \A a \in Agents : Wanted(a) => entry[a].owner # Nothing

Start(h) ==
  /\ host[h] \in {"off", "closed", "dead"}
  /\ IF host[h] = "off" THEN UNCHANGED count
     ELSE (QuickRestarts \/ Settled) /\ Happens
  /\ host' = [host EXCEPT ![h] = "up"]
  /\ lists' = [lists EXCEPT ![h] = Registered]
  /\ mishaps' = [mishaps EXCEPT ![h] = {}]
  /\ UNCHANGED <<removed, creator, lease, session, presence, entry, refresh, steady>>

\* The refresh of g has read the clock and none of the entries yet.
Early(g) == refresh[g].at \in {"host", "session"}

\* A heartbeat is at most half a lease: a host that runs has to be held up for its lease to
\* lapse.  The two entries of a host are written moments apart, and lapse together.
Lapse(h) ==
  /\ (host[h] \notin Open /\ UNCHANGED count) \/ (host[h] \in Open /\ Happens)
  /\ "live" \in {lease[h], session[h]}
  /\ lease' = [lease EXCEPT ![h] = IF @ = Nothing THEN Nothing ELSE "lapsed"]
  /\ session' = [session EXCEPT ![h] = IF @ = Nothing THEN Nothing ELSE "lapsed"]
  /\ refresh' = [g \in Hosts |-> [refresh[g] EXCEPT
       !.late = @ \cup {x \in {h} \ {g} : lease[h] = "live" /\ (Early(g) \/ refresh[g].todo # {})},
       !.lateSession = @ \cup {x \in {h} \ {g} : session[h] = "live" /\ Early(g)}]]
  /\ steady' = steady \ OwnedBy(h)
  /\ UNCHANGED <<host, people, presence, entry, mishaps>>

Refreshes(h) ==
  \/ Begin(h) \/ PutHost(h) \/ PutSession(h) \/ Claim(h) \/ Loses(h) \/ Fails(h)
  \/ \E a \in Agents : Delete(h, a)

Closes(h) == Quiesce(h) \/ Close(h) \/ CloseLists(h) \/ CloseSession(h) \/ CloseLease(h)

Next ==
  \/ \E h \in Hosts :
       \/ Refreshes(h) \/ Closes(h) \/ Crash(h) \/ Start(h) \/ Sync(h)
       \/ Lapse(h)
       \/ \E a \in Agents : Announce(h, a) \/ Remove(h, a)

Spec == Init /\ [][Next]_vars

\* The heartbeat's timer and its writes go on, and what nobody renews lapses.
FairSpec ==
  /\ Spec
  /\ \A h \in Hosts :
       /\ WF_vars(Refreshes(h))
       /\ WF_vars(host[h] \notin Open /\ Lapse(h))

-----------------------------------------------------------------------------
(* Properties *)

Places == {"idle", "host", "session", "put", "delete", "entries", "lease"}
Refresh == [at : Places, quiet : BOOLEAN, todo : SUBSET Agents, gone : SUBSET Agents,
            mine : SUBSET Agents, same : SUBSET Agents, legacy : SUBSET Agents,
            fresh : SUBSET Agents, late : SUBSET Hosts, lateSession : SUBSET Hosts,
            on : Agents \cup {Nothing}, cond : BOOLEAN]
Entry == {"live", "lapsed", Nothing}

\* The state is of the right shape.
TypeOK ==
  /\ host \in [Hosts -> Open \cup {"off", "closing", "closed", "dead"}]
  /\ removed \subseteq Agents
  /\ creator \in [Agents -> Hosts \cup {Nothing}]
  /\ lists \in [Hosts -> SUBSET Agents]
  /\ lease \in [Hosts -> Entry] /\ session \in [Hosts -> Entry]
  /\ presence \in [Hosts -> SUBSET Agents]
  /\ entry \in [Agents -> [owner : Hosts \cup {Nothing}, quiet : BOOLEAN]]
  /\ refresh \in [Hosts -> Refresh]
  /\ steady \subseteq Agents
  /\ mishaps \in [Hosts -> SUBSET {"withdrawal", "deletion"}]
  /\ count \in Nat

\* An owner whose lease has been live ever since it claimed an agent, unopposed, keeps it
\* until it closes or no longer lists it: a takeover needs a lapse.
SteadyOwnerKept ==
  [][\A a \in steady :
       LET o == entry[a].owner IN
       \/ entry'[a].owner = o
       \/ entry'[a].owner = Nothing /\ (host[o] = "closing" \/ a \in refresh[o].gone)]_vars

\* Before a host releases its lease, its records offer no capabilities any more: quiesce waits
\* for a refresh that began after it, also when one was under way.  When it has closed, it owns
\* nothing and has no lease: no refresh under way writes again.  Deletions that fail excuse it.
LeavesInOrder ==
  \A h \in Hosts :
    /\ host[h] \in {"quiet", "closing"} /\ "withdrawal" \notin mishaps[h] =>
         \A a \in OwnedBy(h) : entry[a].quiet
    /\ host[h] = "closed" /\ "deletion" \notin mishaps[h] =>
         OwnedBy(h) = {} /\ lease[h] = Nothing /\ session[h] = Nothing

\* An agent that a living host lists gets an owner with a live lease, unless nobody lists it
\* any more.
EventuallyOwned == \A a \in Agents : Wanted(a) ~> (Owned(a) \/ ~Wanted(a))
=============================================================================
