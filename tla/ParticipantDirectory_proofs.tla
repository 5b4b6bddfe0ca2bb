-------------------- MODULE ParticipantDirectory_proofs --------------------
(***************************************************************************)
(* Proofs about ParticipantDirectory for every set of hosts and agents.    *)
(***************************************************************************)
EXTENDS ParticipantDirectory, TLAPS

-----------------------------------------------------------------------------
(* The inductive invariant *)

\* Where a refresh, or a close, of h may be.
PlaceOK(h) ==
  /\ refresh[h].at # "idle" => host[h] \in Open \cup {"closing"}
  /\ refresh[h].at \in {"entries", "lease"} => host[h] = "closing"
  /\ refresh[h].at = "put" => refresh[h].on \in Agents
  /\ refresh[h].at = "delete" => refresh[h].todo = {}
  /\ refresh[h].quiet => host[h] # "up" /\ refresh[h].at # "idle"

\* A refresh r of h that withdraws the capabilities has yet to come to what still offers them.
Withdraws(h, r) ==
  \A a \in Agents : entry[a].owner = h /\ ~entry[a].quiet =>
    \/ a \in r.todo /\ a \notin r.same
    \/ r.at = "put" /\ a = r.on
    \/ a \in r.gone /\ a \in r.fresh

\* Nothing is offered by a host that is quiet, and nothing will be.
QuietOK(h) ==
  host[h] \in {"quiescing", "quiet", "closing"} =>
    \/ "withdrawal" \in mishaps[h]
    \/ /\ host[h] \in {"quiet", "closing"} =>
            /\ refresh[h].at \notin {"idle", "entries", "lease"} => refresh[h].quiet
            /\ \A a \in Agents : entry[a].owner = h => entry[a].quiet
       /\ refresh[h].quiet /\ refresh[h].at \in {"put", "delete"} => Withdraws(h, refresh[h])

\* A host that closes has the versions of all that it owns; then it has nothing.
CloseOK(h) ==
  \/ "deletion" \in mishaps[h]
  \/ /\ refresh[h].at = "entries" =>
          \A a \in Agents : entry[a].owner = h => a \in refresh[h].gone /\ a \in refresh[h].fresh
     /\ refresh[h].at = "lease" \/ host[h] = "closed" =>
          session[h] = Nothing /\ \A a \in Agents : entry[a].owner # h
     /\ host[h] = "closed" => lease[h] = Nothing

\* What a refresh r of h has read of the records of h is so until it writes them.
Reads(h, r) ==
  /\ \A a \in r.same : entry[a].owner = h => entry[a].quiet = r.quiet
  /\ \A a \in r.gone : entry[a].owner = h => a \in r.fresh

ReadsOK(h) == refresh[h].at \in {"put", "delete"} => Reads(h, refresh[h])

HostOK(h) == PlaceOK(h) /\ QuietOK(h) /\ CloseOK(h) /\ ReadsOK(h)

HostInv == \A h \in Hosts : HostOK(h)

\* A refresh that cannot overwrite the record of a: it has no up-to-date version of it, and is
\* not about to write it without naming one.
Harmless(r, a) == a \notin r.fresh /\ (r.at = "put" /\ r.on = a => r.cond)

\* Nobody but its owner can overwrite a steady agent's record.
SteadyInv ==
  \A a \in steady :
    /\ entry[a].owner \in Hosts /\ lease[entry[a].owner] = "live"
    /\ \A g \in Hosts : g # entry[a].owner => Harmless(refresh[g], a)

DirectoryInv == TypeOK /\ SteadyInv /\ HostInv

-----------------------------------------------------------------------------
(* How a refresh goes on *)

\* What the last write leaves of the refresh.
LEMMA WithoutShape ==
  ASSUME NEW r \in Refresh, NEW dealt \in SUBSET Agents
  PROVE  LET n == Without(r, dealt) IN
         /\ n \in Refresh /\ n.at = r.at /\ n.quiet = r.quiet
         /\ n.todo = r.todo \ dealt /\ n.gone = r.gone \ dealt /\ n.same = r.same \ dealt
         /\ n.fresh = r.fresh \ dealt /\ n.mine = r.mine \ dealt
  BY DEF Without, Refresh, Places

\* What an aim at the next agent keeps of the refresh.
LEMMA AimShape ==
  ASSUME NEW r \in Refresh, NEW a \in Agents, NEW skipped \in SUBSET Agents
  PROVE  LET n == Aim(r, a, skipped) IN
         /\ n \in Refresh /\ n.at = "put" /\ n.on = a /\ n.quiet = r.quiet
         /\ n.cond = (a \in r.mine \/ entry[a].owner # Nothing)
         /\ n.todo = r.todo \ (skipped \cup {a}) /\ n.gone = r.gone \ (skipped \cup {a})
         /\ n.same = r.same \ (skipped \cup {a})
         /\ n.fresh \subseteq r.fresh \cup {a}
         /\ r.fresh \ (skipped \cup {a}) \subseteq n.fresh
         /\ a \in n.fresh => a \notin r.mine \/ a \in r.fresh
<1> DEFINE w == Without(r, skipped \cup {a})
<1>1. w \in Refresh /\ w.quiet = r.quiet
      /\ w.todo = r.todo \ (skipped \cup {a}) /\ w.gone = r.gone \ (skipped \cup {a})
      /\ w.same = r.same \ (skipped \cup {a}) /\ w.fresh = r.fresh \ (skipped \cup {a})
  BY WithoutShape
<1>2. PICK c \in BOOLEAN, f \in SUBSET Agents, l \in SUBSET Hosts :
        /\ c = (a \in r.mine \/ entry[a].owner # Nothing)
        /\ f = IF a \in r.mine THEN w.fresh \cup (r.fresh \cap {a}) ELSE w.fresh \cup {a}
        /\ l = IF r.todo = skipped \cup {a} THEN {} ELSE w.late
        /\ Aim(r, a, skipped) = [w EXCEPT !.at = "put", !.on = a, !.cond = c, !.fresh = f, !.late = l]
  <2> HIDE DEF w
  <2>1. (a \in r.mine \/ entry[a].owner # Nothing) \in BOOLEAN
    OBVIOUS
  <2>2. (IF a \in r.mine THEN w.fresh \cup (r.fresh \cap {a}) ELSE w.fresh \cup {a}) \in SUBSET Agents
    BY <1>1 DEF Refresh
  <2>3. (IF r.todo = skipped \cup {a} THEN {} ELSE w.late) \in SUBSET Hosts
    BY <1>1 DEF Refresh
  <2> QED BY <2>1, <2>2, <2>3 DEF Aim, w
<1> HIDE DEF w
<1>3. LET n == [w EXCEPT !.at = "put", !.on = a, !.cond = c, !.fresh = f, !.late = l] IN
      n \in Refresh /\ n.at = "put" /\ n.on = a /\ n.cond = c /\ n.fresh = f
      /\ n.quiet = w.quiet /\ n.todo = w.todo /\ n.gone = w.gone /\ n.same = w.same
  BY <1>1 DEF Refresh, Places
<1> QED BY <1>1, <1>2, <1>3

\* A refresh that comes to another write.
LEMMA MoveShape ==
  ASSUME NEW r \in Refresh, NEW place \in Places
  PROVE  LET n == [r EXCEPT !.at = place] IN
         /\ n \in Refresh /\ n.at = place /\ n.quiet = r.quiet /\ n.todo = r.todo
         /\ n.gone = r.gone /\ n.same = r.same /\ n.fresh = r.fresh
  BY DEF Refresh

\* The end of a refresh.
LEMMA IdleShape ==
  Idle \in Refresh /\ Idle.at = "idle" /\ ~Idle.quiet /\ Idle.fresh = {} /\ Idle.gone = {}
  /\ Idle.todo = {}
  BY DEF Idle, Refresh, Places

\* A refresh goes on to a put, to its deletions, or ends.
LEMMA GoesOnShape ==
  ASSUME NEW h \in Hosts, NEW r \in Refresh, NEW n \in GoesOn(h, r)
  PROVE  /\ n \in Refresh
         /\ \/ n = Idle /\ r.gone = {}
            \/ n.at = "delete" /\ n.todo = {} /\ n.gone = r.gone \ r.todo /\ n.quiet = r.quiet
               /\ n.same \subseteq r.same /\ n.fresh = r.fresh \ r.todo
            \/ /\ n.at = "put" /\ n.on \in r.todo /\ n.quiet = r.quiet
               /\ MayClaim(h, r, n.on)
               /\ n.cond = (n.on \in r.mine \/ entry[n.on].owner # Nothing)
               /\ n.same \subseteq r.same /\ n.gone \subseteq r.gone
               /\ n.fresh \subseteq r.fresh \cup {n.on}
               /\ n.on \in n.fresh => n.on \notin r.mine \/ n.on \in r.fresh
         /\ \A a \in r.todo : a \in n.todo \/ a \in r.same \/ ~MayClaim(h, r, a)
                              \/ (n.at = "put" /\ n.on = a)
         /\ \A a \in r.gone : a \in n.gone \/ a \in r.same \/ ~MayClaim(h, r, a)
                              \/ (n.at = "put" /\ n.on = a)
         /\ \A a \in r.fresh \cap n.gone : a \in n.fresh
<1> DEFINE passes == {a \in r.todo : a \in r.same \/ ~MayClaim(h, r, a)}
           aims == {a \in r.todo : MayClaim(h, r, a)}
<1>1. CASE \E a \in aims, skipped \in SUBSET passes : n = Aim(r, a, skipped)
  <2>1. PICK a \in aims, skipped \in SUBSET passes : n = Aim(r, a, skipped)
    BY <1>1
  <2>2. a \in Agents /\ skipped \in SUBSET Agents /\ a \in r.todo /\ MayClaim(h, r, a)
    BY DEF Refresh
  <2>3. n \in Refresh /\ n.at = "put" /\ n.on = a /\ n.quiet = r.quiet
        /\ n.cond = (a \in r.mine \/ entry[a].owner # Nothing)
        /\ n.todo = r.todo \ (skipped \cup {a}) /\ n.gone = r.gone \ (skipped \cup {a})
        /\ n.same = r.same \ (skipped \cup {a})
        /\ n.fresh \subseteq r.fresh \cup {a}
        /\ r.fresh \ (skipped \cup {a}) \subseteq n.fresh
        /\ (a \in n.fresh => a \notin r.mine \/ a \in r.fresh)
    BY <2>1, <2>2, AimShape
  <2> QED BY <2>2, <2>3
<1>2. CASE passes = r.todo /\ r.gone = {} /\ n = Idle
  BY <1>2, IdleShape
<1>3. CASE passes = r.todo /\ n = [Without(r, r.todo) EXCEPT !.at = "delete", !.late = {}]
  <2>1. r.todo \in SUBSET Agents
    BY DEF Refresh
  <2>2. n \in Refresh /\ n.at = "delete" /\ n.todo = {} /\ n.gone = r.gone \ r.todo /\ n.quiet = r.quiet
        /\ n.same = r.same \ r.todo /\ n.fresh = r.fresh \ r.todo
    BY <1>3, <2>1 DEF Without, Refresh, Places
  <2> QED BY <1>3, <2>2
<1> QED BY <1>1, <1>2, <1>3 DEF GoesOn

-----------------------------------------------------------------------------
(* What a step leaves alone *)

\* A host keeps its part of the invariant when its own state stays as it is, and the records
\* that change are not its own afterwards.
LEMMA HostFrame ==
  ASSUME NEW g \in Hosts, HostOK(g),
         host'[g] = host[g], mishaps'[g] = mishaps[g],
         session[g] = Nothing => session'[g] = Nothing,
         lease[g] = Nothing => lease'[g] = Nothing,
         refresh'[g].at = refresh[g].at, refresh'[g].quiet = refresh[g].quiet,
         refresh'[g].todo = refresh[g].todo, refresh'[g].gone = refresh[g].gone,
         refresh'[g].same = refresh[g].same, refresh'[g].on = refresh[g].on,
         \A a \in Agents : entry'[a] = entry[a] \/ entry'[a].owner # g,
         \A a \in Agents : entry'[a].owner = g /\ a \in refresh[g].fresh => a \in refresh'[g].fresh,
         refresh[g] \in Refresh
  PROVE  HostOK(g)'
<1> USE DEF HostOK
<1>1. refresh[g].same \subseteq Agents /\ refresh[g].gone \subseteq Agents
  BY DEF Refresh
<1>2. PlaceOK(g)'
  BY DEF PlaceOK
<1>3. Withdraws(g, refresh[g]) => Withdraws(g, refresh[g])'
  BY DEF Withdraws
<1>4. QuietOK(g)'
  BY <1>3 DEF QuietOK
<1>5. CloseOK(g)'
  BY DEF CloseOK
<1>6. ReadsOK(g)'
  BY <1>1 DEF ReadsOK, Reads
<1> QED BY <1>2, <1>4, <1>5, <1>6

\* Steady agents stay safe when their records and leases stay as they are and the refreshes of
\* the others stay harmless.
LEMMA SteadyFrame ==
  ASSUME SteadyInv, steady' \subseteq steady,
         \A a \in steady' : entry'[a].owner = entry[a].owner /\ lease'[entry[a].owner] = "live",
         \A a \in steady' : \A g \in Hosts :
           Harmless(refresh[g], a) /\ g # entry[a].owner => Harmless(refresh'[g], a)
  PROVE  SteadyInv'
BY DEF SteadyInv

\* A step that only moves the refresh of h.
LEMMA GoesFacts ==
  ASSUME TypeOK, NEW h \in Hosts, NEW r \in Refresh, Goes(h, r)
  PROVE  /\ refresh' \in [Hosts -> Refresh] /\ refresh'[h] = r
         /\ \A g \in Hosts \ {h} : refresh'[g] = refresh[g] /\ host'[g] = host[g]
         /\ host' \in [Hosts -> Open \cup {"off", "closing", "closed", "dead"}]
         /\ \/ host'[h] = host[h]
            \/ host[h] = "quiescing" /\ r = Idle /\ refresh[h].quiet /\ host'[h] = "quiet"
BY DEF TypeOK, Goes, Joins, Open

\* A step that writes the record of a and moves the refresh of h.
LEMMA WritesFacts ==
  ASSUME TypeOK, NEW h \in Hosts, NEW r \in Refresh, NEW a \in Agents,
         NEW e \in [owner : Hosts \cup {Nothing}, quiet : BOOLEAN], Writes(h, a, e, r)
  PROVE  /\ refresh' \in [Hosts -> Refresh] /\ refresh'[h] = r
         /\ \A g \in Hosts \ {h} :
              /\ refresh'[g].fresh = refresh[g].fresh \ {a}
              /\ refresh'[g].at = refresh[g].at /\ refresh'[g].quiet = refresh[g].quiet
              /\ refresh'[g].todo = refresh[g].todo /\ refresh'[g].gone = refresh[g].gone
              /\ refresh'[g].same = refresh[g].same /\ refresh'[g].on = refresh[g].on
              /\ refresh'[g].cond = refresh[g].cond
              /\ host'[g] = host[g]
         /\ host' \in [Hosts -> Open \cup {"off", "closing", "closed", "dead"}]
         /\ \/ host'[h] = host[h]
            \/ host[h] = "quiescing" /\ r = Idle /\ refresh[h].quiet /\ host'[h] = "quiet"
         /\ entry' \in [Agents -> [owner : Hosts \cup {Nothing}, quiet : BOOLEAN]]
         /\ entry'[a] = e /\ \A b \in Agents \ {a} : entry'[b] = entry[b]
<1>1. \A g \in Hosts : refresh[g] \in Refresh
  BY DEF TypeOK
<1>2. \A g \in Hosts \ {h} : refresh'[g] = [refresh[g] EXCEPT !.fresh = @ \ {a}]
  BY DEF Writes
<1>3. ASSUME NEW q \in Refresh
      PROVE  LET n == [q EXCEPT !.fresh = @ \ {a}] IN
             /\ n \in Refresh
             /\ n.fresh = q.fresh \ {a} /\ n.at = q.at /\ n.quiet = q.quiet /\ n.todo = q.todo
             /\ n.gone = q.gone /\ n.same = q.same /\ n.on = q.on /\ n.cond = q.cond
  BY DEF Refresh, Places
<1>4. refresh' = [g \in Hosts |-> refresh'[g]] /\ refresh'[h] = r
  BY DEF Writes
<1>5. refresh' \in [Hosts -> Refresh]
  BY <1>1, <1>2, <1>3, <1>4
<1>6. \A g \in Hosts \ {h} : host'[g] = host[g]
  BY DEF TypeOK, Writes, Joins
<1>9. \A g \in Hosts \ {h} :
        /\ refresh'[g].fresh = refresh[g].fresh \ {a}
        /\ refresh'[g].at = refresh[g].at /\ refresh'[g].quiet = refresh[g].quiet
        /\ refresh'[g].todo = refresh[g].todo /\ refresh'[g].gone = refresh[g].gone
        /\ refresh'[g].same = refresh[g].same /\ refresh'[g].on = refresh[g].on
        /\ refresh'[g].cond = refresh[g].cond
  <2> TAKE g \in Hosts \ {h}
  <2>1. refresh[g] \in Refresh
    BY <1>1
  <2> QED BY <2>1, <1>2, <1>3
<1>7. host' \in [Hosts -> Open \cup {"off", "closing", "closed", "dead"}]
      /\ \/ host'[h] = host[h]
         \/ host[h] = "quiescing" /\ r = Idle /\ refresh[h].quiet /\ host'[h] = "quiet"
  BY DEF TypeOK, Writes, Joins, Open
<1>8. entry' \in [Agents -> [owner : Hosts \cup {Nothing}, quiet : BOOLEAN]]
      /\ entry'[a] = e /\ \A b \in Agents \ {a} : entry'[b] = entry[b]
  BY DEF TypeOK, Writes
<1> QED BY <1>4, <1>5, <1>6, <1>7, <1>8, <1>9

\* A step that moves the refresh of h and writes no record.
LEMMA GoesKeeps ==
  ASSUME DirectoryInv, NEW h \in Hosts, NEW r \in Refresh, Goes(h, r),
         entry' = entry, steady' = steady,
         \A g \in Hosts : lease[g] = "live" => lease'[g] = "live",
         \A g \in Hosts \ {h} : mishaps'[g] = mishaps[g] /\ session'[g] = session[g]
                              /\ lease'[g] = lease[g],
         \A a \in steady : entry[a].owner # h => Harmless(r, a)
  PROVE  SteadyInv' /\ \A g \in Hosts \ {h} : HostOK(g)'
<1> USE DEF DirectoryInv
<1>1. refresh'[h] = r /\ \A g \in Hosts \ {h} : refresh'[g] = refresh[g] /\ host'[g] = host[g]
  BY GoesFacts
<1>2. SteadyInv'
  BY <1>1 DEF SteadyInv
<1>3. ASSUME NEW g \in Hosts \ {h} PROVE HostOK(g)'
  BY <1>1, <1>3, HostFrame DEF HostInv, TypeOK
<1> QED BY <1>2, <1>3

\* A refresh that goes on stays harmless to steady agents of other hosts.
LEMMA GoesOnHarmless ==
  ASSUME DirectoryInv, NEW h \in Hosts, NEW r \in Refresh, NEW n \in GoesOn(h, r),
         NEW a \in steady, entry[a].owner # h, a \notin r.fresh
  PROVE  Harmless(n, a)
<1>1. entry[a].owner \in Hosts /\ lease[entry[a].owner] = "live"
  BY DEF DirectoryInv, SteadyInv
<1>2. MayClaim(h, r, a) => a \in r.mine
  BY <1>1, HostAssumption DEF MayClaim, OwnerLives
<1>3. CASE n.at # "put"
  BY <1>3, GoesOnShape, IdleShape DEF Harmless
<1>4. CASE n.at = "put"
  <2>1. MayClaim(h, r, n.on) /\ n.cond = (n.on \in r.mine \/ entry[n.on].owner # Nothing)
        /\ n.fresh \subseteq r.fresh \cup {n.on}
        /\ (n.on \in n.fresh => n.on \notin r.mine \/ n.on \in r.fresh)
    BY <1>4, GoesOnShape, IdleShape
  <2> QED BY <2>1, <1>1, <1>2, HostAssumption DEF Harmless
<1> QED BY <1>3, <1>4

\* A refresh that goes on comes to every record that still offers its capabilities.
LEMMA GoesOnWithdraws ==
  ASSUME NEW h \in Hosts, NEW r \in Refresh, NEW n \in GoesOn(h, r),
         NEW a \in Agents, entry[a].owner = h, a \in r.todo \ r.same \/ a \in (r.gone \cap r.fresh) \ r.same
  PROVE  /\ n # Idle
         /\ \/ a \in n.todo /\ a \notin n.same
            \/ n.at = "put" /\ a = n.on
            \/ a \in n.gone /\ a \in n.fresh
<1>1. MayClaim(h, r, a)
  BY DEF MayClaim
<1> QED BY <1>1, GoesOnShape, IdleShape

\* What a refresh has read stays so when it goes on.
LEMMA GoesOnReads ==
  ASSUME NEW h \in Hosts, NEW r \in Refresh, NEW n \in GoesOn(h, r), n.at \in {"put", "delete"}
  PROVE  /\ n.quiet = r.quiet /\ n.same \subseteq r.same /\ n.gone \subseteq r.gone
         /\ \A a \in n.gone : a \in r.fresh => a \in n.fresh
  BY GoesOnShape, IdleShape

-----------------------------------------------------------------------------
(* The steps *)

\* Nobody has anything at first.
LEMMA InitDirectory == Init => DirectoryInv
<1> SUFFICES ASSUME Init PROVE DirectoryInv
  OBVIOUS
<1>1. TypeOK
  BY IdleShape, HostAssumption DEF Init, TypeOK, Open, Entry, NoOwner
<1>2. SteadyInv
  BY DEF Init, SteadyInv
<1>3. ASSUME NEW h \in Hosts PROVE HostOK(h)
  BY IdleShape, HostAssumption DEF Init, HostOK, PlaceOK, QuietOK, CloseOK, ReadsOK, NoOwner
<1> QED BY <1>1, <1>2, <1>3 DEF DirectoryInv, HostInv

\* An agent is announced or removed.
LEMMA QuietSteps ==
  ASSUME DirectoryInv, NEW h \in Hosts, NEW a \in Agents,
         Announce(h, a) \/ Remove(h, a)
  PROVE  DirectoryInv'
<1> USE DEF DirectoryInv
<1>1. UNCHANGED hostVars
  BY DEF Announce, Remove
<1>2. TypeOK'
  <2>1. CASE Announce(h, a)
    BY <2>1 DEF TypeOK, Announce, hostVars, people
  <2>2. CASE Remove(h, a)
    BY <2>2 DEF TypeOK, Remove, hostVars, Happens
  <2> QED BY <2>1, <2>2
<1>3. SteadyInv'
  BY <1>1, SteadyFrame DEF SteadyInv, hostVars
<1>4. ASSUME NEW g \in Hosts PROVE HostOK(g)'
  BY <1>1, <1>4, HostFrame DEF hostVars, HostInv, TypeOK
<1> QED BY <1>2, <1>3, <1>4 DEF HostInv

\* Another session reads the registry.
LEMMA SyncStep ==
  ASSUME DirectoryInv, NEW h \in Hosts, Sync(h)
  PROVE  DirectoryInv'
<1> USE DEF DirectoryInv
<1>1. UNCHANGED hostVars
  BY DEF Sync
<1>2. TypeOK'
  BY <1>1 DEF TypeOK, Sync, hostVars, Registered
<1>3. SteadyInv'
  BY <1>1, SteadyFrame DEF SteadyInv, hostVars
<1>4. ASSUME NEW g \in Hosts PROVE HostOK(g)'
  BY <1>1, <1>4, HostFrame DEF hostVars, HostInv, TypeOK
<1> QED BY <1>2, <1>3, <1>4 DEF HostInv

\* A refresh begins: it has nothing in its hands.
LEMMA BeginStep ==
  ASSUME DirectoryInv, NEW h \in Hosts, Begin(h)
  PROVE  DirectoryInv'
<1> USE DEF DirectoryInv
<1> DEFINE r == [Idle EXCEPT !.at = "host", !.quiet = host[h] # "up", !.todo = lists[h]]
<1>1. r \in Refresh /\ r.at = "host" /\ r.fresh = {} /\ r.quiet = (host[h] # "up")
  BY IdleShape DEF TypeOK, Idle, Refresh, Places
<1>2. Goes(h, r)
  BY DEF Begin
<1> HIDE DEF r
<1>3. refresh' \in [Hosts -> Refresh] /\ refresh'[h] = r /\ host'[h] = host[h]
      /\ host' \in [Hosts -> Open \cup {"off", "closing", "closed", "dead"}]
  BY <1>1, <1>2, GoesFacts, IdleShape
<1>4. SteadyInv' /\ \A g \in Hosts \ {h} : HostOK(g)'
  BY <1>1, <1>2, GoesKeeps DEF Begin, Harmless
<1>5. TypeOK'
  BY <1>3 DEF TypeOK, Begin, people
<1>6. HostOK(h)'
  BY <1>1, <1>3 DEF Begin, HostInv, HostOK, PlaceOK, QuietOK, CloseOK, ReadsOK, Open
<1> QED BY <1>4, <1>5, <1>6 DEF HostInv

\* The lease is written.
LEMMA PutHostStep ==
  ASSUME DirectoryInv, NEW h \in Hosts, PutHost(h)
  PROVE  DirectoryInv'
<1> USE DEF DirectoryInv
<1> DEFINE r == [refresh[h] EXCEPT !.at = "session"]
<1>0. refresh[h] \in Refresh /\ "session" \in Places
  BY DEF TypeOK, Places
<1>1. r \in Refresh /\ r.at = "session" /\ r.fresh = refresh[h].fresh /\ r.quiet = refresh[h].quiet
  BY <1>0, MoveShape
<1>2. Goes(h, r)
  BY DEF PutHost
<1> HIDE DEF r
<1>3. refresh' \in [Hosts -> Refresh] /\ refresh'[h] = r /\ host'[h] = host[h]
      /\ host' \in [Hosts -> Open \cup {"off", "closing", "closed", "dead"}]
  BY <1>1, <1>2, GoesFacts, IdleShape
<1>4. \A a \in steady : entry[a].owner # h => Harmless(r, a)
  BY <1>1 DEF SteadyInv, Harmless
<1>5. SteadyInv' /\ \A g \in Hosts \ {h} : HostOK(g)'
  BY <1>1, <1>2, <1>4, GoesKeeps DEF PutHost, TypeOK
<1>6. TypeOK'
  BY <1>3 DEF TypeOK, PutHost, people, Entry
<1>7. HostOK(h)'
  BY <1>1, <1>3 DEF PutHost, At, HostInv, HostOK, PlaceOK, QuietOK, CloseOK, ReadsOK, Open
<1> QED BY <1>5, <1>6, <1>7 DEF HostInv

\* Where a refresh is that goes on.
LEMMA GoesOnPlace ==
  ASSUME NEW h \in Hosts, NEW r \in Refresh, NEW n \in GoesOn(h, r)
  PROVE  /\ n \in Refresh /\ n.at \in {"put", "delete", "idle"} /\ (n.at = "idle" => n = Idle)
         /\ n.at = "put" => n.on \in Agents
         /\ n.at = "delete" => n.todo = {}
         /\ n.quiet => n # Idle /\ r.quiet
<1>1. r.todo \subseteq Agents
  BY DEF Refresh
<1> QED BY <1>1, GoesOnShape, IdleShape

\* The host whose refresh goes on, when what it has in its hands is what it has read.
LEMMA GoesOnHost ==
  ASSUME DirectoryInv, NEW h \in Hosts, NEW r \in Refresh, NEW n \in GoesOn(h, r),
         host[h] \in Open \cup {"closing"}, refresh[h].at \in {"session", "put"},
         refresh'[h] = n, r.quiet = refresh[h].quiet, mishaps'[h] = mishaps[h],
         host'[h] = host[h]
           \/ (host[h] = "quiescing" /\ n = Idle /\ refresh[h].quiet /\ host'[h] = "quiet"),
         \A b \in Agents : entry'[b].owner = h =>
           \/ /\ entry'[b] = entry[b]
              /\ (b \in r.same => entry[b].quiet = r.quiet) /\ (b \in r.gone => b \in r.fresh)
           \/ entry'[b].quiet = r.quiet /\ b \notin r.gone,
         "withdrawal" \notin mishaps[h] /\ host[h] \in {"quiescing", "quiet", "closing"} /\ r.quiet =>
           \A b \in Agents : entry'[b].owner = h /\ ~entry'[b].quiet =>
             entry[b].owner = h /\ (b \in r.todo \ r.same \/ b \in (r.gone \cap r.fresh) \ r.same)
  PROVE  HostOK(h)'
<1> USE DEF DirectoryInv
<1>1. n \in Refresh /\ n.at \in {"put", "delete", "idle"} /\ (n.at = "idle" => n = Idle)
      /\ (n.at = "put" => n.on \in Agents) /\ (n.at = "delete" => n.todo = {})
      /\ (n.quiet => n # Idle /\ r.quiet)
  BY GoesOnPlace
<1>2. n.same \subseteq Agents /\ n.gone \subseteq Agents
  BY <1>1 DEF Refresh
<1>3. PlaceOK(h) /\ QuietOK(h)
  BY DEF HostInv, HostOK
<1>4. PlaceOK(h)'
  BY <1>1, <1>3, IdleShape DEF PlaceOK, Open
<1>5. CloseOK(h)'
  BY <1>1 DEF CloseOK, Open
<1>6. ReadsOK(h)'
  <2> SUFFICES ASSUME n.at \in {"put", "delete"} PROVE Reads(h, n)'
    BY DEF ReadsOK, Reads
  <2>1. n.quiet = r.quiet /\ n.same \subseteq r.same /\ n.gone \subseteq r.gone
        /\ \A a \in n.gone : a \in r.fresh => a \in n.fresh
    BY GoesOnReads
  <2> QED BY <1>2, <2>1 DEF Reads
<1>7. QuietOK(h)'
  <2> SUFFICES ASSUME host'[h] \in {"quiescing", "quiet", "closing"}, "withdrawal" \notin mishaps[h]
               PROVE  /\ host'[h] \in {"quiet", "closing"} =>
                           /\ n.at \notin {"idle", "entries", "lease"} => n.quiet
                           /\ \A a \in Agents : entry'[a].owner = h => entry'[a].quiet
                      /\ n.quiet /\ n.at \in {"put", "delete"} => Withdraws(h, n)'
    BY DEF QuietOK, Withdraws
  <2>1. host[h] \in {"quiescing", "quiet", "closing"}
    OBVIOUS
  <2>2. ASSUME NEW a \in Agents, entry'[a].owner = h, ~entry'[a].quiet, r.quiet
        PROVE  /\ n # Idle
               /\ \/ a \in n.todo /\ a \notin n.same
                  \/ n.at = "put" /\ a = n.on
                  \/ a \in n.gone /\ a \in n.fresh
    <3>1. entry[a].owner = h /\ (a \in r.todo \ r.same \/ a \in (r.gone \cap r.fresh) \ r.same)
      BY <2>1, <2>2
    <3> QED BY <3>1, GoesOnWithdraws
  <2>3. n.quiet /\ n.at \in {"put", "delete"} => Withdraws(h, n)'
    BY <1>1, <2>2 DEF Withdraws
  <2>4. CASE host'[h] = host[h] /\ host[h] \in {"quiet", "closing"}
    <3>1. r.quiet /\ \A a \in Agents : entry[a].owner = h => entry[a].quiet
      BY <1>3, <2>4 DEF QuietOK
    <3>2. n.at \notin {"idle", "entries", "lease"} => n.quiet
      BY <1>1, <3>1, GoesOnReads
    <3> QED BY <2>3, <3>1, <3>2
  <2>5. CASE host'[h] = "quiet" /\ n = Idle /\ refresh[h].quiet
    BY <2>2, <2>3, <2>5, IdleShape
  <2> QED BY <2>1, <2>3, <2>4, <2>5
<1> QED BY <1>4, <1>5, <1>6, <1>7 DEF HostOK

\* What a refresh reads before it writes the records.
LEMMA ReadAllShape ==
  ASSUME TypeOK, NEW h \in Hosts
  PROVE  LET r == ReadAll(h) IN
         /\ r \in Refresh /\ r.quiet = refresh[h].quiet /\ r.fresh = OwnedBy(h)
         /\ r.todo = refresh[h].todo /\ r.gone = OwnedBy(h) \ refresh[h].todo
         /\ r.same = {a \in OwnedBy(h) \cap refresh[h].todo : entry[a].quiet = refresh[h].quiet}
<1> DEFINE q == refresh[h]
           m == OwnedBy(h) \cap q.todo
           f == OwnedBy(h)
           g == OwnedBy(h) \ q.todo
           s == {a \in OwnedBy(h) \cap q.todo : entry[a].quiet = q.quiet}
           l == {a \in q.todo : LegacyOwners(h, a) # {}}
<1>1. q \in Refresh /\ m \in SUBSET Agents /\ f \in SUBSET Agents /\ g \in SUBSET Agents
      /\ s \in SUBSET Agents /\ l \in SUBSET Agents
  BY DEF TypeOK, OwnedBy, Refresh
<1>2. ReadAll(h) = [q EXCEPT !.mine = m, !.fresh = f, !.gone = g, !.same = s, !.legacy = l,
                             !.lateSession = {}]
  BY DEF ReadAll
<1> HIDE DEF q, m, f, g, s, l
<1>3. LET r == [q EXCEPT !.mine = m, !.fresh = f, !.gone = g, !.same = s, !.legacy = l,
                         !.lateSession = {}] IN
      r \in Refresh /\ r.quiet = q.quiet /\ r.fresh = f /\ r.todo = q.todo /\ r.gone = g /\ r.same = s
  BY <1>1 DEF Refresh
<1> QED BY <1>2, <1>3 DEF q, f, g, s

\* The session entry is written, and the records are read.
LEMMA PutSessionStep ==
  ASSUME DirectoryInv, NEW h \in Hosts, PutSession(h)
  PROVE  DirectoryInv'
<1> USE DEF DirectoryInv
<1> DEFINE r == ReadAll(h)
<1>1. r \in Refresh /\ r.quiet = refresh[h].quiet /\ r.fresh = OwnedBy(h)
      /\ r.todo = refresh[h].todo /\ r.gone = OwnedBy(h) \ refresh[h].todo
      /\ r.same = {a \in OwnedBy(h) \cap refresh[h].todo : entry[a].quiet = refresh[h].quiet}
  BY ReadAllShape
<1>2. PICK n \in GoesOn(h, r) : Goes(h, n)
  BY DEF PutSession
<1> HIDE DEF r
<1>3. n \in Refresh
  BY <1>1, GoesOnPlace
<1>4. refresh' \in [Hosts -> Refresh] /\ refresh'[h] = n
      /\ host' \in [Hosts -> Open \cup {"off", "closing", "closed", "dead"}]
      /\ \/ host'[h] = host[h]
         \/ host[h] = "quiescing" /\ n = Idle /\ refresh[h].quiet /\ host'[h] = "quiet"
  BY <1>2, <1>3, GoesFacts
<1>5. UNCHANGED <<people, lease, presence, entry, steady, mishaps>>
      /\ \A g \in Hosts \ {h} : session'[g] = session[g]
  BY DEF PutSession, TypeOK
<1>6. \A a \in steady : entry[a].owner # h => Harmless(n, a)
  BY <1>1, GoesOnHarmless DEF OwnedBy
<1>7. SteadyInv' /\ \A g \in Hosts \ {h} : HostOK(g)'
  BY <1>2, <1>3, <1>5, <1>6, GoesKeeps
<1>8. TypeOK'
  <2>1. session' \in [Hosts -> Entry] /\ count' \in Nat
    BY BoundAssumption DEF PutSession, TypeOK, Entry, Happens
  <2> QED BY <2>1, <1>4, <1>5 DEF TypeOK, people
<1>9. HostOK(h)'
  <2>1. host[h] \in Open \cup {"closing"} /\ refresh[h].at = "session"
    BY DEF PutSession, At
  <2>2. \A b \in Agents : entry'[b].owner = h =>
          entry'[b] = entry[b] /\ (b \in r.same => entry[b].quiet = r.quiet)
          /\ (b \in r.gone => b \in r.fresh)
    BY <1>1, <1>5
  <2>3. r.quiet => \A b \in Agents : entry'[b].owner = h /\ ~entry'[b].quiet =>
             entry[b].owner = h /\ (b \in r.todo \ r.same \/ b \in (r.gone \cap r.fresh) \ r.same)
    <3> SUFFICES ASSUME r.quiet, NEW b \in Agents, entry[b].owner = h, ~entry[b].quiet
                 PROVE  b \in r.todo \ r.same \/ b \in (r.gone \cap r.fresh) \ r.same
      BY <1>5
    <3>1. b \in OwnedBy(h) /\ b \notin r.same
      BY <1>1 DEF OwnedBy
    <3> QED BY <1>1, <3>1
  <2> QED BY <1>1, <1>4, <1>5, <2>1, <2>2, <2>3, GoesOnHost
<1> QED BY <1>7, <1>8, <1>9 DEF HostInv

\* What the host has in its hands when it goes on after a put.
LEMMA AfterPut ==
  ASSUME DirectoryInv, NEW h \in Hosts, At(h, "put")
  PROVE  LET r == Without(refresh[h], {refresh[h].on}) IN
         /\ refresh[h].on \in Agents /\ r \in Refresh /\ r.quiet = refresh[h].quiet
         /\ refresh[h].on \notin r.gone
         /\ \A b \in Agents \ {refresh[h].on} : entry[b].owner = h =>
              /\ b \in r.same => entry[b].quiet = r.quiet
              /\ b \in r.gone => b \in r.fresh
         /\ "withdrawal" \notin mishaps[h] /\ host[h] \in {"quiescing", "quiet", "closing"} /\ r.quiet =>
              \A b \in Agents \ {refresh[h].on} : entry[b].owner = h /\ ~entry[b].quiet =>
                b \in r.todo \ r.same \/ b \in (r.gone \cap r.fresh) \ r.same
<1> USE DEF DirectoryInv
<1> DEFINE q == refresh[h]  a == refresh[h].on  r == Without(refresh[h], {refresh[h].on})
<1>1. q \in Refresh /\ q.at = "put" /\ a \in Agents
  BY DEF At, TypeOK, HostInv, HostOK, PlaceOK
<1>2. r \in Refresh /\ r.quiet = q.quiet /\ r.todo = q.todo \ {a} /\ r.gone = q.gone \ {a}
      /\ r.same = q.same \ {a} /\ r.fresh = q.fresh \ {a}
  BY <1>1, WithoutShape
<1>3. Reads(h, q)
  BY <1>1 DEF HostInv, HostOK, ReadsOK
<1>4. ASSUME "withdrawal" \notin mishaps[h], host[h] \in {"quiescing", "quiet", "closing"}, q.quiet
      PROVE  Withdraws(h, q)
  BY <1>1, <1>4 DEF HostInv, HostOK, QuietOK
<1>5. q.quiet \in BOOLEAN /\ \A b \in Agents : entry[b].quiet \in BOOLEAN
  BY <1>1 DEF Refresh, TypeOK
<1> HIDE DEF q, a, r
<1>6. \A b \in Agents \ {a} : entry[b].owner = h =>
        (b \in r.same => entry[b].quiet = r.quiet) /\ (b \in r.gone => b \in r.fresh)
  BY <1>2, <1>3 DEF Reads
<1>7. ASSUME "withdrawal" \notin mishaps[h], host[h] \in {"quiescing", "quiet", "closing"}, r.quiet,
             NEW b \in Agents \ {a}, entry[b].owner = h, ~entry[b].quiet
      PROVE  b \in r.todo \ r.same \/ b \in (r.gone \cap r.fresh) \ r.same
  <2>1. b \notin q.same
    BY <1>2, <1>3, <1>7 DEF Reads
  <2>2. (b \in q.todo /\ b \notin q.same) \/ (b \in q.gone /\ b \in q.fresh)
    BY <1>2, <1>4, <1>7 DEF Withdraws, a, q
  <2> QED BY <1>2, <1>7, <2>1, <2>2
<1> QED BY <1>1, <1>2, <1>6, <1>7 DEF q, a, r

\* A record is written.  Nobody else can write it on what it has read before, or is about to
\* write it unread, when it becomes steady.
LEMMA ClaimStep ==
  ASSUME DirectoryInv, NEW h \in Hosts, Claim(h)
  PROVE  DirectoryInv'
<1> USE DEF DirectoryInv
<1> DEFINE q == refresh[h]  a == refresh[h].on  r == Without(refresh[h], {refresh[h].on})
           e == [owner |-> h, quiet |-> refresh[h].quiet]
<1>1. At(h, "put") /\ q \in Refresh /\ q.at = "put" /\ host[h] \in Open \cup {"closing"}
  BY DEF Claim, At, TypeOK
<1>2. /\ a \in Agents /\ r \in Refresh /\ r.quiet = q.quiet /\ a \notin r.gone
      /\ \A b \in Agents \ {a} : entry[b].owner = h =>
           /\ b \in r.same => entry[b].quiet = r.quiet
           /\ b \in r.gone => b \in r.fresh
      /\ "withdrawal" \notin mishaps[h] /\ host[h] \in {"quiescing", "quiet", "closing"} /\ r.quiet =>
           \A b \in Agents \ {a} : entry[b].owner = h /\ ~entry[b].quiet =>
             b \in r.todo \ r.same \/ b \in (r.gone \cap r.fresh) \ r.same
  BY <1>1, AfterPut
<1>3. r.fresh = q.fresh \ {a}
  BY <1>1, <1>2, WithoutShape
<1>4. e \in [owner : Hosts \cup {Nothing}, quiet : BOOLEAN] /\ e.owner = h /\ e.quiet = q.quiet
  BY <1>1 DEF Refresh
<1>5. PICK n \in GoesOn(h, r) : Writes(h, a, e, n)
  BY DEF Claim
<1>6. steady' = IF lease[h] = "live" /\ ~Contested(h, a) THEN steady \cup {a}
                ELSE IF entry[a].owner = h THEN steady ELSE steady \ {a}
  BY DEF Claim
<1> HIDE DEF q, a, r, e
<1>7. n \in Refresh
  BY <1>2, GoesOnPlace
<1>8. /\ refresh' \in [Hosts -> Refresh] /\ refresh'[h] = n
      /\ \A g \in Hosts \ {h} :
           /\ refresh'[g].fresh = refresh[g].fresh \ {a}
           /\ refresh'[g].at = refresh[g].at /\ refresh'[g].quiet = refresh[g].quiet
           /\ refresh'[g].todo = refresh[g].todo /\ refresh'[g].gone = refresh[g].gone
           /\ refresh'[g].same = refresh[g].same /\ refresh'[g].on = refresh[g].on
           /\ refresh'[g].cond = refresh[g].cond
           /\ host'[g] = host[g]
      /\ host' \in [Hosts -> Open \cup {"off", "closing", "closed", "dead"}]
      /\ \/ host'[h] = host[h]
         \/ host[h] = "quiescing" /\ n = Idle /\ refresh[h].quiet /\ host'[h] = "quiet"
      /\ entry' \in [Agents -> [owner : Hosts \cup {Nothing}, quiet : BOOLEAN]]
      /\ entry'[a] = e /\ \A b \in Agents \ {a} : entry'[b] = entry[b]
  BY <1>2, <1>4, <1>5, <1>7, WritesFacts
<1>9. UNCHANGED <<people, lease, session, presence, mishaps, count>>
  BY DEF Claim
<1>10. TypeOK'
  BY <1>2, <1>6, <1>8, <1>9 DEF TypeOK, people
<1>11. SteadyInv'
  <2> SUFFICES ASSUME NEW b \in steady'
               PROVE  /\ entry'[b].owner \in Hosts /\ lease[entry'[b].owner] = "live"
                      /\ \A g \in Hosts : g # entry'[b].owner => Harmless(refresh'[g], b)
    BY <1>9 DEF SteadyInv
  <2>1. CASE b # a
    <3>1. b \in steady /\ b \in Agents \ {a}
      BY <1>6, <2>1 DEF TypeOK
    <3>2. entry'[b] = entry[b] /\ entry[b].owner \in Hosts /\ lease[entry[b].owner] = "live"
          /\ \A g \in Hosts : g # entry[b].owner => Harmless(refresh[g], b)
      BY <1>8, <3>1 DEF SteadyInv
    <3>3. \A g \in Hosts \ {h} : g # entry[b].owner => Harmless(refresh'[g], b)
      BY <1>8, <3>2 DEF Harmless
    <3>4. h # entry[b].owner => Harmless(n, b)
      BY <1>2, <1>3, <3>1, <3>2, GoesOnHarmless DEF Harmless, q
    <3> QED BY <1>8, <3>2, <3>3, <3>4
  <2>2. CASE b = a
    <3>1. entry'[b].owner = h
      BY <1>4, <1>8, <2>2
    <3>2. CASE lease[h] = "live" /\ ~Contested(h, a)
      <4>1. \A g \in Hosts \ {h} : At(g, "put") /\ refresh[g].on = a => refresh[g].cond
        BY <3>2 DEF Contested
      <4>2. \A g \in Hosts : refresh[g].at = "put" => At(g, "put")
        BY DEF At, HostInv, HostOK, PlaceOK
      <4> QED BY <1>8, <2>2, <3>1, <3>2, <4>1, <4>2 DEF Harmless
    <3>3. CASE ~(lease[h] = "live" /\ ~Contested(h, a))
      <4>1. a \in steady /\ entry[a].owner = h
        BY <1>6, <2>2, <3>3
      <4> QED BY <1>8, <2>2, <3>1, <4>1 DEF SteadyInv, Harmless
    <3> QED BY <3>2, <3>3
  <2> QED BY <2>1, <2>2
<1>12. ASSUME NEW g \in Hosts \ {h} PROVE HostOK(g)'
  <2>1. HostOK(g) /\ refresh[g] \in Refresh /\ g \in Hosts
    BY DEF HostInv, TypeOK
  <2>2. \A b \in Agents : entry'[b] = entry[b] \/ entry'[b].owner # g
    BY <1>4, <1>8
  <2>3. \A b \in Agents : entry'[b].owner = g /\ b \in refresh[g].fresh => b \in refresh'[g].fresh
    BY <1>4, <1>8
  <2> QED BY <1>8, <1>9, <2>1, <2>2, <2>3, HostFrame
<1>13. HostOK(h)'
  <2>1. \A b \in Agents : entry'[b].owner = h =>
          \/ /\ entry'[b] = entry[b]
             /\ (b \in r.same => entry[b].quiet = r.quiet) /\ (b \in r.gone => b \in r.fresh)
          \/ entry'[b].quiet = r.quiet /\ b \notin r.gone
    BY <1>2, <1>4, <1>8
  <2>2. "withdrawal" \notin mishaps[h] /\ host[h] \in {"quiescing", "quiet", "closing"} /\ r.quiet =>
          \A b \in Agents : entry'[b].owner = h /\ ~entry'[b].quiet =>
            entry[b].owner = h /\ (b \in r.todo \ r.same \/ b \in (r.gone \cap r.fresh) \ r.same)
    <3> SUFFICES ASSUME "withdrawal" \notin mishaps[h], host[h] \in {"quiescing", "quiet", "closing"},
                        r.quiet, NEW b \in Agents, entry'[b].owner = h, ~entry'[b].quiet
                 PROVE  entry[b].owner = h
                        /\ (b \in r.todo \ r.same \/ b \in (r.gone \cap r.fresh) \ r.same)
      OBVIOUS
    <3>1. entry'[a].quiet = r.quiet
      BY <1>2, <1>4, <1>8
    <3>2. b # a
      BY <3>1
    <3> QED BY <1>2, <1>8, <3>2
  <2> QED BY <1>1, <1>2, <1>8, <1>9, <2>1, <2>2, GoesOnHost DEF q
<1> QED BY <1>10, <1>11, <1>12, <1>13 DEF HostInv

\* A put fails, and another host has the record.
LEMMA LosesStep ==
  ASSUME DirectoryInv, NEW h \in Hosts, Loses(h)
  PROVE  DirectoryInv'
<1> USE DEF DirectoryInv
<1> DEFINE q == refresh[h]  a == refresh[h].on  r == Without(refresh[h], {refresh[h].on})
<1>1. At(h, "put") /\ q \in Refresh /\ q.at = "put" /\ host[h] \in Open \cup {"closing"}
      /\ entry[a].owner # h
  BY DEF Loses, At, TypeOK
<1>2. /\ a \in Agents /\ r \in Refresh /\ r.quiet = q.quiet /\ a \notin r.gone
      /\ \A b \in Agents \ {a} : entry[b].owner = h =>
           /\ b \in r.same => entry[b].quiet = r.quiet
           /\ b \in r.gone => b \in r.fresh
      /\ "withdrawal" \notin mishaps[h] /\ host[h] \in {"quiescing", "quiet", "closing"} /\ r.quiet =>
           \A b \in Agents \ {a} : entry[b].owner = h /\ ~entry[b].quiet =>
             b \in r.todo \ r.same \/ b \in (r.gone \cap r.fresh) \ r.same
  BY <1>1, AfterPut
<1>3. r.fresh = q.fresh \ {a}
  BY <1>1, <1>2, WithoutShape
<1>4. PICK n \in GoesOn(h, r) : Goes(h, n)
  BY DEF Loses
<1>5. UNCHANGED <<people, lease, session, presence, entry, steady, mishaps>> /\ count' \in Nat
  BY BoundAssumption DEF Loses, TypeOK, Happens
<1> HIDE DEF q, a, r
<1>6. n \in Refresh
  BY <1>2, GoesOnPlace
<1>7. /\ refresh' \in [Hosts -> Refresh] /\ refresh'[h] = n
      /\ host' \in [Hosts -> Open \cup {"off", "closing", "closed", "dead"}]
      /\ \/ host'[h] = host[h]
         \/ host[h] = "quiescing" /\ n = Idle /\ refresh[h].quiet /\ host'[h] = "quiet"
  BY <1>4, <1>6, GoesFacts
<1>8. TypeOK'
  BY <1>5, <1>7 DEF TypeOK, people
<1>9. \A b \in steady : entry[b].owner # h => Harmless(n, b)
  BY <1>2, <1>3, GoesOnHarmless DEF SteadyInv, Harmless, q
<1>10. SteadyInv' /\ \A g \in Hosts \ {h} : HostOK(g)'
  BY <1>4, <1>5, <1>6, <1>9, GoesKeeps
<1>11. HostOK(h)'
  <2>1. \A b \in Agents : entry'[b].owner = h =>
          /\ entry'[b] = entry[b]
          /\ (b \in r.same => entry[b].quiet = r.quiet) /\ (b \in r.gone => b \in r.fresh)
    BY <1>1, <1>2, <1>5
  <2>2. "withdrawal" \notin mishaps[h] /\ host[h] \in {"quiescing", "quiet", "closing"} /\ r.quiet =>
          \A b \in Agents : entry'[b].owner = h /\ ~entry'[b].quiet =>
            entry[b].owner = h /\ (b \in r.todo \ r.same \/ b \in (r.gone \cap r.fresh) \ r.same)
    BY <1>1, <1>2, <1>5
  <2> QED BY <1>1, <1>2, <1>5, <1>7, <2>1, <2>2, GoesOnHost DEF q
<1> QED BY <1>8, <1>10, <1>11 DEF HostInv

\* A refresh rejects: it has nothing in its hands any more.
LEMMA FailsStep ==
  ASSUME DirectoryInv, NEW h \in Hosts, Fails(h)
  PROVE  DirectoryInv'
<1> USE DEF DirectoryInv
<1>1. Goes(h, Idle) /\ refresh[h].at \in {"host", "session", "put"} /\ host[h] \in Open \cup {"closing"}
  BY DEF Fails
<1>2. UNCHANGED <<people, lease, session, presence, entry, steady>> /\ count' \in Nat
      /\ mishaps' = [mishaps EXCEPT ![h] = IF refresh[h].quiet THEN @ \cup {"withdrawal"} ELSE @]
  BY BoundAssumption DEF Fails, TypeOK, Happens
<1>3. /\ refresh' \in [Hosts -> Refresh] /\ refresh'[h] = Idle
      /\ host' \in [Hosts -> Open \cup {"off", "closing", "closed", "dead"}]
      /\ \/ host'[h] = host[h]
         \/ host[h] = "quiescing" /\ refresh[h].quiet /\ host'[h] = "quiet"
  BY <1>1, IdleShape, GoesFacts
<1>4. mishaps' \in [Hosts -> SUBSET {"withdrawal", "deletion"}] /\ mishaps[h] \subseteq mishaps'[h]
      /\ (refresh[h].quiet => "withdrawal" \in mishaps'[h]) /\ (\A g \in Hosts \ {h} : mishaps'[g] = mishaps[g])
  BY <1>2 DEF TypeOK
<1>5. TypeOK'
  BY <1>2, <1>3, <1>4 DEF TypeOK, people
<1>6. SteadyInv' /\ \A g \in Hosts \ {h} : HostOK(g)'
  BY <1>1, <1>2, <1>4, IdleShape, GoesKeeps DEF Harmless
<1>7. PlaceOK(h)' /\ ReadsOK(h)'
  BY <1>3, IdleShape DEF PlaceOK, ReadsOK
<1>8. CloseOK(h)'
  BY <1>1, <1>3, IdleShape DEF CloseOK, Open
<1>9. QuietOK(h)'
  BY <1>1, <1>2, <1>3, <1>4, IdleShape DEF QuietOK, HostInv, HostOK
<1> QED BY <1>5, <1>6, <1>7, <1>8, <1>9 DEF HostInv, HostOK

\* A record is deleted, or it is not when it changed or the state fails.
LEMMA DeleteStep ==
  ASSUME DirectoryInv, NEW h \in Hosts, NEW a \in Agents, Delete(h, a)
  PROVE  DirectoryInv'
<1> USE DEF DirectoryInv
<1> DEFINE q == refresh[h]
           rest == IF q.at = "delete" /\ q.gone = {a} THEN Idle ELSE Without(q, {a})
<1>1. q \in Refresh /\ a \in q.gone /\ q.at \in {"delete", "entries"} /\ host[h] \in Open \cup {"closing"}
  BY DEF Delete, At, TypeOK
<1>0. rest \in Refresh
  <2>1. CASE q.at = "delete" /\ q.gone = {a}
    BY <2>1, IdleShape
  <2>2. CASE ~(q.at = "delete" /\ q.gone = {a})
    BY <1>1, <2>2, WithoutShape
  <2> QED BY <2>1, <2>2
<1>r. PICK left \in Refresh : left = rest
  BY <1>0
<1>2. /\ left \in Refresh /\ (left # Idle => left.at = q.at /\ left.quiet = q.quiet)
      /\ left.at \in {"delete", "entries", "idle"} /\ (left.at = "idle" => left = Idle)
      /\ left.todo \subseteq q.todo /\ left.same \subseteq q.same
      /\ left.fresh \subseteq q.fresh /\ left.gone \subseteq q.gone
      /\ (left # Idle => left.todo = q.todo \ {a} /\ left.same = q.same \ {a}
                         /\ left.fresh = q.fresh \ {a} /\ left.gone = q.gone \ {a})
      /\ (left = Idle => q.at = "delete" /\ q.gone = {a})
  <2>1. CASE q.at = "delete" /\ q.gone = {a}
    BY <1>r, <2>1, IdleShape DEF Idle
  <2>2. CASE ~(q.at = "delete" /\ q.gone = {a})
    <3>1. left = Without(q, {a})
      BY <1>r, <2>2
    <3>2. left.at = q.at
      BY <1>1, <3>1, WithoutShape
    <3>3. left # Idle
      BY <1>1, <3>2, IdleShape
    <3> QED BY <1>1, <3>1, <3>2, <3>3, WithoutShape
  <2> QED BY <2>1, <2>2
<1>3. UNCHANGED <<people, lease, session, presence>>
  BY DEF Delete
<1>4. \A b \in steady : entry[b].owner # h => Harmless(left, b)
  BY <1>2 DEF SteadyInv, Harmless
<1>5. Reads(h, q) \/ q.at = "entries"
  BY <1>1 DEF HostInv, HostOK, ReadsOK
<1>6. PlaceOK(h) /\ QuietOK(h) /\ CloseOK(h)
  BY DEF HostInv, HostOK
\* What is left to do of the host is enough, when a is not its record any more.
<1>7. ASSUME refresh'[h] = left, mishaps[h] \subseteq mishaps'[h], session'[h] = session[h],
             \/ host'[h] = host[h]
             \/ host[h] = "quiescing" /\ left = Idle /\ refresh[h].quiet /\ host'[h] = "quiet",
             \A b \in Agents : entry'[b] = entry[b] \/ (b = a /\ entry'[b].owner = Nothing),
             entry'[a].owner # h \/ {"withdrawal", "deletion"} \subseteq mishaps'[h]
             \/ a \notin refresh[h].fresh
      PROVE  HostOK(h)'
  <2>1. PlaceOK(h)'
    BY <1>1, <1>2, <1>6, <1>7, IdleShape DEF PlaceOK, Open
  <2>2. \A b \in Agents : entry'[b].owner = h => entry'[b] = entry[b]
    BY <1>7, HostAssumption
  <2>3. left.same \subseteq Agents /\ left.gone \subseteq Agents
    BY <1>2 DEF Refresh
  <2>4. ReadsOK(h)'
    <3> SUFFICES ASSUME left.at \in {"put", "delete"} PROVE Reads(h, left)'
      BY <1>7 DEF ReadsOK, Reads
    <3>1. left # Idle /\ Reads(h, q)
      BY <1>2, <1>5, IdleShape
    <3> QED BY <1>2, <2>2, <2>3, <3>1 DEF Reads
  <2>5. CloseOK(h)'
    BY <1>1, <1>2, <1>6, <1>7, <2>2, IdleShape DEF CloseOK, Open
  <2>6. QuietOK(h)'
    <3> SUFFICES ASSUME host'[h] \in {"quiescing", "quiet", "closing"}, "withdrawal" \notin mishaps'[h]
                 PROVE  /\ host'[h] \in {"quiet", "closing"} =>
                             /\ left.at \notin {"idle", "entries", "lease"} => left.quiet
                             /\ \A b \in Agents : entry'[b].owner = h => entry'[b].quiet
                        /\ left.quiet /\ left.at \in {"put", "delete"} => Withdraws(h, left)'
      BY <1>7 DEF QuietOK, Withdraws
    <3>1. host[h] \in {"quiescing", "quiet", "closing"} /\ "withdrawal" \notin mishaps[h]
          /\ (entry'[a].owner # h \/ a \notin q.fresh)
      BY <1>7
    <3>2. q.quiet /\ q.at = "delete" => Withdraws(h, q) /\ q.todo = {}
      BY <1>6, <3>1 DEF QuietOK, PlaceOK
    <3>3. left.quiet /\ left.at \in {"put", "delete"} => Withdraws(h, left)'
      <4> SUFFICES ASSUME left.quiet, left.at = "delete", NEW b \in Agents, entry'[b].owner = h,
                          ~entry'[b].quiet
                   PROVE  b \in left.gone /\ b \in left.fresh
        BY <1>2 DEF Withdraws
      <4>1. left # Idle /\ q.quiet /\ q.at = "delete"
        BY <1>2, IdleShape
      <4>2. b \in q.gone /\ b \in q.fresh
        BY <2>2, <3>2, <4>1 DEF Withdraws
      <4> QED BY <1>2, <3>1, <4>1, <4>2
    <3>4. CASE host'[h] = host[h] /\ host[h] \in {"quiet", "closing"}
      <4>1. /\ q.at \notin {"idle", "entries", "lease"} => q.quiet
            /\ \A b \in Agents : entry[b].owner = h => entry[b].quiet
        BY <1>6, <3>1, <3>4 DEF QuietOK
      <4> QED BY <1>2, <2>2, <3>3, <4>1, IdleShape
    <3>5. CASE host'[h] = "quiet" /\ left = Idle /\ q.quiet
      <4>1. q.at = "delete" /\ q.gone = {a}
        BY <1>2, <3>5
      <4> QED BY <2>2, <3>1, <3>2, <3>3, <3>5, <4>1, IdleShape DEF Withdraws
    <3> QED BY <1>7, <3>1, <3>3, <3>4, <3>5
  <2> QED BY <2>1, <2>4, <2>5, <2>6 DEF HostOK
<1>8. CASE a \in q.fresh /\ Writes(h, a, NoOwner, left) /\ steady' = steady \ {a}
           /\ UNCHANGED <<mishaps, count>>
  <2>1. NoOwner \in [owner : Hosts \cup {Nothing}, quiet : BOOLEAN] /\ NoOwner.owner = Nothing
    BY DEF NoOwner
  <2>2. /\ refresh' \in [Hosts -> Refresh] /\ refresh'[h] = left
        /\ \A g \in Hosts \ {h} :
             /\ refresh'[g].fresh = refresh[g].fresh \ {a}
             /\ refresh'[g].at = refresh[g].at /\ refresh'[g].quiet = refresh[g].quiet
             /\ refresh'[g].todo = refresh[g].todo /\ refresh'[g].gone = refresh[g].gone
             /\ refresh'[g].same = refresh[g].same /\ refresh'[g].on = refresh[g].on
             /\ refresh'[g].cond = refresh[g].cond
             /\ host'[g] = host[g]
        /\ host' \in [Hosts -> Open \cup {"off", "closing", "closed", "dead"}]
        /\ \/ host'[h] = host[h]
           \/ host[h] = "quiescing" /\ left = Idle /\ refresh[h].quiet /\ host'[h] = "quiet"
        /\ entry' \in [Agents -> [owner : Hosts \cup {Nothing}, quiet : BOOLEAN]]
        /\ entry'[a] = NoOwner /\ \A b \in Agents \ {a} : entry'[b] = entry[b]
    BY <1>2, <1>8, <2>1, WritesFacts
  <2>3. TypeOK'
    BY <1>3, <1>8, <2>2 DEF TypeOK, people
  <2>4. SteadyInv'
    <3>1. \A b \in steady' : entry'[b].owner = entry[b].owner /\ lease'[entry[b].owner] = "live"
      BY <1>3, <1>8, <2>2 DEF SteadyInv, TypeOK
    <3>2. \A b \in steady' : \A g \in Hosts :
             Harmless(refresh[g], b) /\ g # entry[b].owner => Harmless(refresh'[g], b)
      BY <1>4, <1>8, <2>2 DEF Harmless
    <3> QED BY <1>8, <3>1, <3>2, SteadyFrame
  <2>5. ASSUME NEW g \in Hosts \ {h} PROVE HostOK(g)'
    <3>1. HostOK(g) /\ refresh[g] \in Refresh /\ g \in Hosts
      BY DEF HostInv, TypeOK
    <3>2. \A b \in Agents : entry'[b] = entry[b] \/ entry'[b].owner # g
      BY <2>1, <2>2, HostAssumption
    <3>3. \A b \in Agents : entry'[b].owner = g /\ b \in refresh[g].fresh => b \in refresh'[g].fresh
      BY <2>1, <2>2, HostAssumption
    <3> QED BY <1>3, <1>8, <2>2, <3>1, <3>2, <3>3, HostFrame
  <2>6. HostOK(h)'
    BY <1>3, <1>7, <1>8, <2>1, <2>2, HostAssumption
  <2> QED BY <2>3, <2>4, <2>5, <2>6 DEF HostInv
<1>9. CASE Goes(h, left) /\ UNCHANGED <<entry, steady>> /\ count' \in Nat
           /\ (\/ a \notin q.fresh /\ mishaps' = mishaps
              \/ mishaps' = [mishaps EXCEPT ![h] = @ \cup {"withdrawal", "deletion"}])
  <2>1. mishaps' \in [Hosts -> SUBSET {"withdrawal", "deletion"}] /\ mishaps[h] \subseteq mishaps'[h]
        /\ (a \notin q.fresh \/ {"withdrawal", "deletion"} \subseteq mishaps'[h])
        /\ (\A g \in Hosts \ {h} : mishaps'[g] = mishaps[g])
    BY <1>9 DEF TypeOK
  <2>2. /\ refresh' \in [Hosts -> Refresh] /\ refresh'[h] = left
        /\ host' \in [Hosts -> Open \cup {"off", "closing", "closed", "dead"}]
        /\ \/ host'[h] = host[h]
           \/ host[h] = "quiescing" /\ left = Idle /\ refresh[h].quiet /\ host'[h] = "quiet"
    BY <1>2, <1>9, GoesFacts
  <2>3. TypeOK'
    BY <1>3, <1>9, <2>1, <2>2 DEF TypeOK, people
  <2>4. SteadyInv' /\ \A g \in Hosts \ {h} : HostOK(g)'
    BY <1>2, <1>3, <1>4, <1>9, <2>1, GoesKeeps
  <2>5. HostOK(h)'
    BY <1>3, <1>7, <1>9, <2>1, <2>2
  <2> QED BY <2>3, <2>4, <2>5 DEF HostInv
<1> QED BY <1>r, <1>8, <1>9, BoundAssumption DEF Delete, Happens, TypeOK

\* A host withdraws, or begins to close.
LEMMA ChangesMindStep ==
  ASSUME DirectoryInv, NEW h \in Hosts, Quiesce(h) \/ Close(h)
  PROVE  DirectoryInv'
<1> USE DEF DirectoryInv
<1>1. UNCHANGED <<people, lease, session, presence, entry, refresh, steady, mishaps, count>>
      /\ \/ host[h] = "up" /\ host' = [host EXCEPT ![h] = "quiescing"]
         \/ host[h] = "quiet" /\ host' = [host EXCEPT ![h] = "closing"]
  BY DEF Quiesce, Close
<1>2. TypeOK'
  BY <1>1 DEF TypeOK, people, Open
<1>3. SteadyInv'
  BY <1>1, SteadyFrame DEF SteadyInv
<1>4. ASSUME NEW g \in Hosts \ {h} PROVE HostOK(g)'
  BY <1>1, <1>4, HostFrame DEF HostInv, TypeOK
<1>5. \/ host[h] = "up" /\ host'[h] = "quiescing"
      \/ host[h] = "quiet" /\ host'[h] = "closing"
  BY <1>1 DEF TypeOK
<1>6. HostOK(h)
  BY DEF HostInv
<1>7. PlaceOK(h)' /\ CloseOK(h)' /\ ReadsOK(h)'
  BY <1>1, <1>5, <1>6 DEF HostOK, PlaceOK, CloseOK, ReadsOK, Reads, Open
<1>8. QuietOK(h)'
  BY <1>1, <1>5, <1>6 DEF HostOK, PlaceOK, QuietOK, Withdraws
<1> QED BY <1>2, <1>3, <1>4, <1>7, <1>8 DEF HostInv, HostOK

\* A closing host reads what it owns.
LEMMA CloseListsStep ==
  ASSUME DirectoryInv, NEW h \in Hosts, CloseLists(h)
  PROVE  DirectoryInv'
<1> USE DEF DirectoryInv
<1> DEFINE r == [Idle EXCEPT !.at = "entries", !.gone = OwnedBy(h), !.fresh = OwnedBy(h)]
<1>1. r \in Refresh /\ r.at = "entries" /\ ~r.quiet /\ r.gone = OwnedBy(h) /\ r.fresh = OwnedBy(h)
  BY DEF Idle, Refresh, Places, OwnedBy
<1>2. Goes(h, r) /\ UNCHANGED <<people, lease, session, presence, entry, steady, mishaps, count>>
      /\ host[h] = "closing"
  BY DEF CloseLists
<1> HIDE DEF r
<1>3. refresh' \in [Hosts -> Refresh] /\ refresh'[h] = r /\ host'[h] = "closing"
      /\ host' \in [Hosts -> Open \cup {"off", "closing", "closed", "dead"}]
  BY <1>1, <1>2, GoesFacts, IdleShape
<1>4. SteadyInv' /\ \A g \in Hosts \ {h} : HostOK(g)'
  BY <1>1, <1>2, GoesKeeps DEF Harmless, OwnedBy
<1>5. TypeOK'
  BY <1>2, <1>3 DEF TypeOK, people
<1>6. HostOK(h)
  BY DEF HostInv
<1>7. PlaceOK(h)' /\ ReadsOK(h)' /\ CloseOK(h)'
  BY <1>1, <1>2, <1>3 DEF PlaceOK, ReadsOK, CloseOK, OwnedBy
<1>8. QuietOK(h)'
  BY <1>1, <1>2, <1>3, <1>6 DEF QuietOK, HostOK
<1> QED BY <1>4, <1>5, <1>7, <1>8 DEF HostInv, HostOK

\* The session entry of a closing host goes after its records.
LEMMA CloseSessionStep ==
  ASSUME DirectoryInv, NEW h \in Hosts, CloseSession(h)
  PROVE  DirectoryInv'
<1> USE DEF DirectoryInv
<1> DEFINE r == [refresh[h] EXCEPT !.at = "lease"]
<1>1. refresh[h] \in Refresh /\ "lease" \in Places
  BY DEF TypeOK, Places
<1>2. r \in Refresh /\ r.at = "lease" /\ r.fresh = refresh[h].fresh /\ r.quiet = refresh[h].quiet
  BY <1>1, MoveShape
<1>3. Goes(h, r) /\ UNCHANGED <<people, lease, presence, entry, steady>>
      /\ refresh[h].at = "entries" /\ refresh[h].gone = {}
      /\ (\/ session' = [session EXCEPT ![h] = Nothing] /\ UNCHANGED <<mishaps, count>>
         \/ /\ Happens /\ mishaps' = [mishaps EXCEPT ![h] = @ \cup {"deletion"}]
            /\ UNCHANGED session)
  BY DEF CloseSession, Drops, At, people
<1> HIDE DEF r
<1>4. refresh' \in [Hosts -> Refresh] /\ refresh'[h] = r /\ host'[h] = host[h]
      /\ host' \in [Hosts -> Open \cup {"off", "closing", "closed", "dead"}]
  BY <1>2, <1>3, GoesFacts, IdleShape
<1>5. session' \in [Hosts -> Entry] /\ mishaps' \in [Hosts -> SUBSET {"withdrawal", "deletion"}]
      /\ count' \in Nat /\ mishaps[h] \subseteq mishaps'[h]
      /\ (session'[h] = Nothing \/ "deletion" \in mishaps'[h])
      /\ (\A g \in Hosts \ {h} : mishaps'[g] = mishaps[g] /\ session'[g] = session[g])
  <2>1. CASE session' = [session EXCEPT ![h] = Nothing] /\ UNCHANGED <<mishaps, count>>
    BY <2>1 DEF TypeOK, Entry
  <2>2. CASE Happens /\ mishaps' = [mishaps EXCEPT ![h] = @ \cup {"deletion"}] /\ UNCHANGED session
    BY <2>2 DEF TypeOK, Happens
  <2> QED BY <1>3, <2>1, <2>2
<1>6. TypeOK'
  BY <1>3, <1>4, <1>5 DEF TypeOK, people
<1>7. \A a \in steady : entry[a].owner # h => Harmless(r, a)
  BY <1>2 DEF SteadyInv, Harmless
<1>8. SteadyInv' /\ \A g \in Hosts \ {h} : HostOK(g)'
  BY <1>2, <1>3, <1>5, <1>7, GoesKeeps
<1>9. HostOK(h)
  BY DEF HostInv
<1>10. host[h] = "closing" /\ ("deletion" \in mishaps[h] \/ \A a \in Agents : entry[a].owner # h)
  BY <1>3, <1>9 DEF HostOK, PlaceOK, CloseOK
<1>11. PlaceOK(h)' /\ ReadsOK(h)' /\ CloseOK(h)'
  BY <1>2, <1>3, <1>4, <1>5, <1>9, <1>10 DEF HostOK, PlaceOK, ReadsOK, CloseOK
<1>12. QuietOK(h)'
  BY <1>2, <1>3, <1>4, <1>5, <1>9 DEF HostOK, QuietOK
<1> QED BY <1>6, <1>8, <1>11, <1>12 DEF HostInv, HostOK

\* A host is gone, in order or not.
LEMMA CeasesStep ==
  ASSUME DirectoryInv, NEW h \in Hosts, CloseLease(h) \/ Crash(h)
  PROVE  DirectoryInv'
<1> USE DEF DirectoryInv
<1>1. PICK how \in {"closed", "dead"} : Ceases(h, how) /\ (how = "closed" => CloseLease(h))
  BY DEF CloseLease, Crash
<1>2. /\ refresh' = [refresh EXCEPT ![h] = Idle] /\ host' = [host EXCEPT ![h] = how]
      /\ UNCHANGED <<removed, session, presence, entry>>
      /\ (steady' = steady /\ lease' = lease) \/ steady' = steady \ OwnedBy(h)
      /\ lease' = lease \/ lease' = [lease EXCEPT ![h] = Nothing]
      /\ mishaps' = mishaps \/ mishaps' = [mishaps EXCEPT ![h] = @ \cup {"deletion"}]
      /\ count' = count \/ count' = count + 1
  BY <1>1 DEF CloseLease, Crash, Ceases, Drops, Happens
<1>3. TypeOK'
  <2>1. lists' \in [Hosts -> SUBSET Agents] /\ creator' \in [Agents -> Hosts \cup {Nothing}]
    BY <1>1 DEF Ceases, TypeOK
  <2>2. refresh' \in [Hosts -> Refresh] /\ host' \in [Hosts -> Open \cup {"off", "closing", "closed", "dead"}]
    BY <1>2, IdleShape DEF TypeOK
  <2>3. lease' \in [Hosts -> Entry] /\ mishaps' \in [Hosts -> SUBSET {"withdrawal", "deletion"}]
        /\ count' \in Nat
    BY <1>2 DEF TypeOK, Entry
  <2> QED BY <1>2, <2>1, <2>2, <2>3 DEF TypeOK
<1>4. refresh'[h] = Idle /\ host'[h] = how
      /\ \A g \in Hosts \ {h} : refresh'[g] = refresh[g] /\ host'[g] = host[g]
           /\ lease'[g] = lease[g] /\ mishaps'[g] = mishaps[g]
  BY <1>2 DEF TypeOK
<1>5. SteadyInv'
  <2>1. steady' \subseteq steady /\ steady \subseteq Agents
    BY <1>2 DEF TypeOK
  <2>2. \A a \in steady' : entry'[a].owner = entry[a].owner /\ lease'[entry[a].owner] = "live"
    BY <1>2, <1>4, <2>1 DEF SteadyInv, OwnedBy
  <2>3. \A a \in steady' : \A g \in Hosts :
          Harmless(refresh[g], a) /\ g # entry[a].owner => Harmless(refresh'[g], a)
    BY <1>4, IdleShape DEF Harmless
  <2> QED BY <2>1, <2>2, <2>3, SteadyFrame
<1>6. ASSUME NEW g \in Hosts \ {h} PROVE HostOK(g)'
  BY <1>2, <1>4, <1>6, HostFrame DEF HostInv, TypeOK
<1>7. PlaceOK(h)' /\ ReadsOK(h)' /\ QuietOK(h)'
  BY <1>4, IdleShape DEF PlaceOK, ReadsOK, QuietOK
<1>8. CloseOK(h)'
  <2>1. CASE how = "dead"
    BY <1>4, <2>1, IdleShape DEF CloseOK
  <2>2. CASE how = "closed"
    <3>1. /\ refresh[h].at = "lease" /\ UNCHANGED <<session, entry>>
          /\ \/ lease' = [lease EXCEPT ![h] = Nothing] /\ mishaps' = mishaps
             \/ mishaps' = [mishaps EXCEPT ![h] = @ \cup {"deletion"}]
      BY <1>1, <2>2 DEF CloseLease, At, Drops
    <3>2. (lease'[h] = Nothing /\ mishaps' = mishaps) \/ "deletion" \in mishaps'[h]
      BY <3>1 DEF TypeOK
    <3>3. CloseOK(h)
      BY DEF HostInv, HostOK
    <3> QED BY <1>4, <3>1, <3>2, <3>3, IdleShape DEF CloseOK
  <2> QED BY <2>1, <2>2
<1> QED BY <1>3, <1>5, <1>6, <1>7, <1>8 DEF HostInv, HostOK

\* A host starts with nothing in its hands.
LEMMA StartStep ==
  ASSUME DirectoryInv, NEW h \in Hosts, Start(h)
  PROVE  DirectoryInv'
<1> USE DEF DirectoryInv
<1>1. /\ host[h] \in {"off", "closed", "dead"} /\ host' = [host EXCEPT ![h] = "up"]
      /\ mishaps' = [mishaps EXCEPT ![h] = {}]
      /\ UNCHANGED <<removed, creator, lease, session, presence, entry, refresh, steady>>
      /\ (count' = count \/ count' = count + 1)
  BY DEF Start, Happens
<1>2. TypeOK'
  <2>1. lists' \in [Hosts -> SUBSET Agents]
    BY DEF Start, TypeOK, Registered
  <2>2. host' \in [Hosts -> Open \cup {"off", "closing", "closed", "dead"}]
    BY <1>1 DEF TypeOK, Open
  <2>3. mishaps' \in [Hosts -> SUBSET {"withdrawal", "deletion"}] /\ count' \in Nat
    BY <1>1 DEF TypeOK
  <2> QED BY <1>1, <2>1, <2>2, <2>3 DEF TypeOK
<1>3. host'[h] = "up" /\ \A g \in Hosts \ {h} : host'[g] = host[g] /\ mishaps'[g] = mishaps[g]
  BY <1>1 DEF TypeOK
<1>4. SteadyInv'
  BY <1>1, SteadyFrame DEF SteadyInv
<1>5. ASSUME NEW g \in Hosts \ {h} PROVE HostOK(g)'
  BY <1>1, <1>3, <1>5, HostFrame DEF HostInv, TypeOK
<1>6. refresh[h].at = "idle" /\ ~refresh[h].quiet
  BY <1>1 DEF HostInv, HostOK, PlaceOK, Open
<1>7. HostOK(h)'
  BY <1>1, <1>3, <1>6 DEF HostOK, PlaceOK, QuietOK, CloseOK, ReadsOK
<1> QED BY <1>2, <1>4, <1>5, <1>7 DEF HostInv

\* A lease runs out: its owner's agents are not steady any more.
LEMMA LapseStep ==
  ASSUME DirectoryInv, NEW h \in Hosts, Lapse(h)
  PROVE  DirectoryInv'
<1> USE DEF DirectoryInv
<1> DEFINE late(g) == {x \in {h} \ {g} : lease[h] = "live" /\ (Early(g) \/ refresh[g].todo # {})}
           lateSession(g) == {x \in {h} \ {g} : session[h] = "live" /\ Early(g)}
<1>1. /\ lease' = [lease EXCEPT ![h] = IF @ = Nothing THEN Nothing ELSE "lapsed"]
      /\ session' = [session EXCEPT ![h] = IF @ = Nothing THEN Nothing ELSE "lapsed"]
      /\ steady' = steady \ OwnedBy(h) /\ UNCHANGED <<host, people, presence, entry, mishaps>>
      /\ (count' = count \/ count' = count + 1)
  BY DEF Lapse, Happens
<1>2. refresh' = [g \in Hosts |-> [refresh[g] EXCEPT !.late = @ \cup late(g),
                                                     !.lateSession = @ \cup lateSession(g)]]
  BY DEF Lapse
<1>3. ASSUME NEW g \in Hosts
      PROVE  /\ refresh'[g] \in Refresh
             /\ refresh'[g].fresh = refresh[g].fresh
             /\ refresh'[g].at = refresh[g].at /\ refresh'[g].quiet = refresh[g].quiet
             /\ refresh'[g].todo = refresh[g].todo /\ refresh'[g].gone = refresh[g].gone
             /\ refresh'[g].same = refresh[g].same /\ refresh'[g].on = refresh[g].on
             /\ refresh'[g].cond = refresh[g].cond
  <2>1. refresh[g] \in Refresh /\ late(g) \subseteq Hosts /\ lateSession(g) \subseteq Hosts
    BY DEF TypeOK
  <2>2. refresh'[g] = [refresh[g] EXCEPT !.late = @ \cup late(g), !.lateSession = @ \cup lateSession(g)]
    BY <1>2
  <2> HIDE DEF late, lateSession
  <2> QED BY <2>1, <2>2 DEF Refresh
<1>4. refresh' \in [Hosts -> Refresh]
  BY <1>2, <1>3
<1>5. TypeOK'
  <2>1. lease' \in [Hosts -> Entry]
    BY <1>1 DEF TypeOK, Entry
  <2>2. session' \in [Hosts -> Entry]
    BY <1>1 DEF TypeOK, Entry
  <2>3. count' \in Nat /\ steady' \subseteq Agents
    BY <1>1 DEF TypeOK
  <2> QED BY <1>1, <1>4, <2>1, <2>2, <2>3 DEF TypeOK, people
<1>6. SteadyInv'
  <2>1. steady' \subseteq steady /\ steady \subseteq Agents
    BY <1>1 DEF TypeOK
  <2>2. \A a \in steady' : entry'[a].owner = entry[a].owner /\ lease'[entry[a].owner] = "live"
    BY <1>1, <2>1 DEF SteadyInv, OwnedBy, TypeOK
  <2>3. \A a \in steady' : \A g \in Hosts :
          Harmless(refresh[g], a) /\ g # entry[a].owner => Harmless(refresh'[g], a)
    BY <1>3 DEF Harmless
  <2> QED BY <2>1, <2>2, <2>3, SteadyFrame
<1>7. ASSUME NEW g \in Hosts PROVE HostOK(g)'
  <2>1. (lease[g] = Nothing => lease'[g] = Nothing) /\ (session[g] = Nothing => session'[g] = Nothing)
    BY <1>1 DEF TypeOK
  <2>2. HostOK(g) /\ refresh[g] \in Refresh
    BY DEF HostInv, TypeOK
  <2> QED BY <1>1, <1>3, <2>1, <2>2, HostFrame
<1> QED BY <1>5, <1>6, <1>7 DEF HostInv

-----------------------------------------------------------------------------
(* The theorems *)

\* Every step keeps the invariant.
LEMMA NextDirectory == DirectoryInv /\ [Next]_vars => DirectoryInv'
<1> SUFFICES ASSUME DirectoryInv, [Next]_vars PROVE DirectoryInv'
  OBVIOUS
<1>1. CASE UNCHANGED vars
  BY <1>1 DEF vars, people, DirectoryInv, TypeOK, SteadyInv, Harmless, HostInv, HostOK, PlaceOK, QuietOK,
              Withdraws, CloseOK, ReadsOK, Reads
<1>2. ASSUME NEW h \in Hosts, Refreshes(h) PROVE DirectoryInv'
  BY <1>2, BeginStep, PutHostStep, PutSessionStep, ClaimStep, LosesStep, FailsStep, DeleteStep DEF Refreshes
<1>3. ASSUME NEW h \in Hosts, Closes(h) PROVE DirectoryInv'
  BY <1>3, ChangesMindStep, CloseListsStep, CloseSessionStep, CeasesStep DEF Closes
<1>4. ASSUME NEW h \in Hosts, Sync(h) PROVE DirectoryInv'
  BY <1>4, SyncStep
<1>5. ASSUME NEW h \in Hosts, Crash(h) \/ Start(h) \/ Lapse(h) PROVE DirectoryInv'
  BY <1>5, CeasesStep, StartStep, LapseStep
<1>6. ASSUME NEW h \in Hosts, NEW a \in Agents, Announce(h, a) \/ Remove(h, a) PROVE DirectoryInv'
  BY <1>6, QuietSteps
<1> QED BY <1>1, <1>2, <1>3, <1>4, <1>5, <1>6 DEF Next

\* The invariant always holds.
THEOREM DirectoryInvHolds == Spec => []DirectoryInv
  BY InitDirectory, NextDirectory, PTL DEF Spec

\* The state keeps its shape.
THEOREM DirectoryTypeCorrect == Spec => []TypeOK
<1>1. DirectoryInv => TypeOK
  BY DEF DirectoryInv
<1> QED BY <1>1, DirectoryInvHolds, PTL

\* A host that goes away in order leaves nothing behind: quiesce and close wait for the refreshes
\* under way, whatever the other hosts do meanwhile.
THEOREM HostsLeaveInOrder == Spec => []LeavesInOrder
<1>1. DirectoryInv => LeavesInOrder
  BY DEF DirectoryInv, HostInv, HostOK, QuietOK, CloseOK, LeavesInOrder, OwnedBy
<1> QED BY <1>1, DirectoryInvHolds, PTL

\* A takeover needs a lapse: an owner whose lease stays live keeps its agents until it gives
\* them up.
THEOREM OwnersAreKept == Spec => SteadyOwnerKept
<1> DEFINE Kept(a) ==
      LET o == entry[a].owner IN
      \/ entry'[a].owner = o
      \/ entry'[a].owner = Nothing /\ (host[o] = "closing" \/ a \in refresh[o].gone)
<1>1. ASSUME DirectoryInv, Next PROVE \A a \in steady : Kept(a)
  <2>1. CASE \E h \in Hosts : Claim(h)
    <3>1. PICK h \in Hosts : Claim(h)
      BY <2>1
    <3>2. \A b \in Agents : b = refresh[h].on \/ entry'[b] = entry[b]
      BY <1>1, <3>1 DEF Claim, Writes, DirectoryInv, TypeOK
    <3>3. refresh[h].on \in steady => entry[refresh[h].on].owner = h
      BY <1>1, <3>1 DEF Claim, At, PutSucceeds, DirectoryInv, SteadyInv, Harmless
    <3>4. refresh[h].on \in Agents => entry'[refresh[h].on].owner = h
      BY <1>1, <3>1 DEF Claim, Writes, DirectoryInv, TypeOK
    <3> QED BY <1>1, <3>2, <3>3, <3>4 DEF DirectoryInv, TypeOK
  <2>2. CASE \E h \in Hosts, b \in Agents : Delete(h, b)
    <3>1. PICK h \in Hosts, b \in Agents : Delete(h, b)
      BY <2>2
    <3>2. entry' = entry \/ (b \in refresh[h].fresh /\ b \in refresh[h].gone
                             /\ entry' = [entry EXCEPT ![b] = NoOwner])
      BY <3>1 DEF Delete, Writes
    <3>3. b \in steady /\ b \in refresh[h].fresh => entry[b].owner = h
      BY <1>1 DEF DirectoryInv, SteadyInv, Harmless
    <3> QED BY <1>1, <3>2, <3>3 DEF DirectoryInv, TypeOK, NoOwner
  <2>3. CASE entry' = entry
    BY <2>3
  <2>4. (\E h \in Hosts : Claim(h)) \/ (\E h \in Hosts, b \in Agents : Delete(h, b)) \/ entry' = entry
    <3>1. ASSUME NEW h \in Hosts, Begin(h) \/ PutHost(h) \/ PutSession(h) \/ Loses(h) \/ Fails(h)
          PROVE  entry' = entry
      BY <3>1 DEF Begin, PutHost, PutSession, Loses, Fails
    <3>2. ASSUME NEW h \in Hosts, Closes(h) PROVE entry' = entry
      BY <3>2 DEF Closes, Quiesce, Close, CloseLists, CloseSession, CloseLease, Drops
    <3>3. ASSUME NEW h \in Hosts, Crash(h) \/ Start(h) \/ Sync(h) \/ Lapse(h) PROVE entry' = entry
      BY <3>3 DEF Crash, Start, Sync, Lapse, hostVars
    <3>4. ASSUME NEW h \in Hosts, NEW b \in Agents, Announce(h, b) \/ Remove(h, b) PROVE entry' = entry
      BY <3>4 DEF Announce, Remove, hostVars
    <3> QED BY <1>1, <3>1, <3>2, <3>3, <3>4 DEF Next, Refreshes
  <2> QED BY <2>1, <2>2, <2>3, <2>4
<1>2. DirectoryInv /\ [Next]_vars => [\A a \in steady : Kept(a)]_vars
  BY <1>1
<1> QED BY <1>2, DirectoryInvHolds, PTL DEF Spec, SteadyOwnerKept
=============================================================================
