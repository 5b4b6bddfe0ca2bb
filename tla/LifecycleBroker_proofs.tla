----------------------- MODULE LifecycleBroker_proofs -----------------------
(***************************************************************************)
(* Proofs about LifecycleBroker for every set of hosts and owners, every   *)
(* batch size and every number of events and mishaps.                      *)
(***************************************************************************)
EXTENDS LifecycleBroker, FiniteSetTheorems, WellFoundedInduction, TLAPS

-----------------------------------------------------------------------------
(* The inductive invariant *)

\* Every event up to a that is due was delivered.
Covers(a) == \A i \in 1..Len(log) : Due(i) /\ delivered[i] = 0 => i > a

\* What is not missed comes from the source's owner; what was compacted was delivered or is
\* missed; the subscription began inside the log.
WorldInv ==
  /\ start <= Len(log)
  /\ \A i \in 1..Len(log) : i \notin missed => log[i] = source
  /\ \A i \in 1..low : delivered[i] > 0 \/ i \in missed

\* The subscription: asked for, stored, or ended; nothing happens before it is stored, and
\* nothing that is written afterwards is current.
SubscriptionInv ==
  /\ stored # Nothing => start <= stored /\ stored <= Len(log) /\ ~ended /\ request = Nothing
  /\ request # Nothing => request = start /\ stored = Nothing /\ ~ended
  /\ stored = Nothing /\ ~ended =>
       /\ \A h \in Hosts : drain[h].at = "idle"
       /\ \A i \in 1..MaxEvents : delivered[i] = 0
  /\ stored = Nothing => \A h \in Hosts : drain[h].at = "idle" \/ ~drain[h].current

\* What a drain d would store, and what it is about to deliver, skips nothing.
DrainOK(d) ==
  d.at # "idle" =>
    /\ start <= d.after /\ d.after <= Len(log) /\ Covers(d.after)
    /\ d.at = "deliver" =>
         d.after < d.next /\ d.next <= d.last /\ d.last <= Len(log) /\ Covers(d.next - 1)

\* Without mishaps only the target's host drains; what has been delivered lies behind its
\* cursor; its drain d is current until the subscription ends.
SmoothDrain(d) ==
  /\ IF d.at = "idle"
     THEN stored # Nothing => \A i \in 1..MaxEvents : delivered[i] > 0 => i <= stored
     ELSE d.at # "delete" => \A i \in 1..MaxEvents : delivered[i] > 0 => i <= d.after
  /\ d.at # "idle" => (d.current <=> stored # Nothing)
  /\ d.at = "read" /\ d.current => d.after = stored
  /\ once /\ (\E i \in 1..MaxEvents : delivered[i] > 0) => d.at = "delete" \/ (ended /\ d.at = "idle")

SmoothInv ==
  mishaps = 0 =>
    /\ \A h \in Hosts : h # home => drain[h].at = "idle"
    /\ SmoothDrain(drain[home])
    /\ OnceUnlessMishap

BrokerInv ==
  /\ TypeOK /\ WorldInv /\ SubscriptionInv /\ NoHistory
  /\ stored # Nothing => Covers(stored)
  /\ \A h \in Hosts : DrainOK(drain[h])
  /\ SmoothInv
-----------------------------------------------------------------------------
(* What a batch does to a drain *)

\* A non-empty set of numbers has a smallest one: of the intervals that reach up to its
\* members one is minimal.
LEMMA SmallestNumber ==
  ASSUME NEW S \in SUBSET Nat, S # {}
  PROVE  \E m \in S : \A k \in S : m <= k
<1> DEFINE R == StrictSubsetOrdering(Nat)
           T == {0..k : k \in S}
<1>1. T \subseteq FiniteSubsetsOf(Nat) /\ T # {}
  <2>1. \A k \in S : 0..k \subseteq Nat /\ IsFiniteSet(0..k)
    BY FS_Interval
  <2> QED BY <2>1 DEF FiniteSubsetsOf
<1>2. PICK x \in T : \A y \in T : ~(<<y, x>> \in R)
  <2>1. IsWellFoundedOn(R, FiniteSubsetsOf(Nat))
    BY FS_StrictSubsetOrderingWellFounded
  <2> HIDE DEF R, T
  <2> QED BY <1>1, <2>1, WFMin
<1>3. PICK m \in S : x = 0..m
  BY <1>2
<1>4. ASSUME NEW k \in S, k < m PROVE FALSE
  <2>1. 0..k \subseteq 0..m /\ m \in x /\ m \notin 0..k
    BY <1>3, <1>4
  <2>2. <<0..k, x>> \in R
    BY <2>1, <1>3 DEF StrictSubsetOrdering
  <2> QED BY <2>2, <1>2
<1> QED BY <1>4

\* A drain that goes on to another place, with another cursor and another next event.
LEMMA Moved ==
  ASSUME NEW d \in DrainRecord, NEW at, NEW next, NEW after
  PROVE  [d EXCEPT !.at = at, !.next = next, !.after = after]
           = [at |-> at, current |-> d.current, after |-> after, next |-> next,
              last |-> d.last, more |-> d.more]
<1>1. [d EXCEPT !.at = at] = [at |-> at, current |-> d.current, after |-> d.after, next |-> d.next,
                              last |-> d.last, more |-> d.more]
  BY DEF DrainRecord
<1>2. [[at |-> at, current |-> d.current, after |-> d.after, next |-> d.next,
        last |-> d.last, more |-> d.more] EXCEPT !.next = next]
        = [at |-> at, current |-> d.current, after |-> d.after, next |-> next,
           last |-> d.last, more |-> d.more]
  OBVIOUS
<1>3. [[at |-> at, current |-> d.current, after |-> d.after, next |-> next,
        last |-> d.last, more |-> d.more] EXCEPT !.after = after]
        = [at |-> at, current |-> d.current, after |-> after, next |-> next,
           last |-> d.last, more |-> d.more]
  OBVIOUS
<1> QED BY <1>1, <1>2, <1>3, Zenon

\* From its next event on, a drain passes over what is not the source's and stops at the first
\* event that is, or at the end of the batch.
LEMMA AimedShape ==
  ASSUME TypeOK, NEW d \in DrainRecord, d.last <= Len(log), d.after < d.next, d.next <= d.last + 1
  PROVE  /\ Aimed(d) \in DrainRecord /\ Aimed(d).current = d.current
         /\ d.after <= Aimed(d).after
         /\ \/ /\ Aimed(d).at = "save"
               /\ Aimed(d).after <= d.after \/ Aimed(d).after <= d.last
               /\ \A i \in d.next..d.last : log[i] # source
            \/ /\ Aimed(d).at = "deliver"
               /\ d.next <= Aimed(d).next /\ Aimed(d).next <= d.last /\ Aimed(d).last = d.last
               /\ Aimed(d).after < Aimed(d).next
               /\ \A i \in d.next..(Aimed(d).next - 1) : log[i] # source
<1> DEFINE due == {i \in d.next..d.last : Matches(i)}
<1>0. /\ d.after \in 0..MaxEvents /\ d.next \in 1..(MaxEvents + 1) /\ d.last \in 0..MaxEvents
      /\ d.current \in BOOLEAN /\ d.more \in BOOLEAN /\ MaxEvents \in Nat
      /\ DOMAIN d = {"at", "current", "after", "next", "last", "more"}
  BY BoundAssumption DEF DrainRecord
<1>1. CASE due = {}
  <2>1. Aimed(d) = [d EXCEPT !.at = "save", !.next = d.last + 1,
                             !.after = IF d.next > d.last THEN d.after ELSE d.last]
    BY <1>1 DEF Aimed
  <2>2. \A i \in d.next..d.last : log[i] # source
    BY <1>1 DEF Matches
  <2> HIDE DEF due
  <2>a. PICK after \in 0..MaxEvents : after = IF d.next > d.last THEN d.after ELSE d.last
    BY <1>0
  <2>b. Aimed(d) = [at |-> "save", current |-> d.current, after |-> after, next |-> d.last + 1,
                    last |-> d.last, more |-> d.more]
    BY <2>1, <2>a, Moved
  <2>3. Aimed(d) \in DrainRecord
    BY <2>b, <1>0 DEF DrainRecord
  <2>4. /\ Aimed(d).at = "save" /\ Aimed(d).current = d.current
        /\ Aimed(d).after = IF d.next > d.last THEN d.after ELSE d.last
    BY <2>a, <2>b
  <2>5. d.after <= Aimed(d).after /\ (Aimed(d).after <= d.after \/ Aimed(d).after <= d.last)
    BY <2>4, <1>0
  <2> QED BY <2>2, <2>3, <2>4, <2>5
<1>2. CASE due # {}
  <2>1. PICK m \in due : \A j \in due : m <= j
    <3>1. due \in SUBSET Nat
      BY <1>0
    <3> HIDE DEF due
    <3> QED BY <1>2, <3>1, SmallestNumber
  <2>2. due \in SUBSET Nat
    BY <1>0
  <2>3. (CHOOSE i \in due : \A j \in due : i <= j) = m
    <3> HIDE DEF due
    <3>1. ASSUME NEW i \in due, \A j \in due : i <= j PROVE i = m
      BY <2>1, <2>2, <3>1
    <3> QED BY <2>1, <3>1
  <2>4. Aimed(d) = [d EXCEPT !.at = "deliver", !.next = m,
                             !.after = IF m > d.next THEN m - 1 ELSE d.after]
    <3> DEFINE n == CHOOSE i \in due : \A j \in due : i <= j
    <3>1. Aimed(d) = [d EXCEPT !.at = "deliver", !.next = n,
                               !.after = IF n > d.next THEN n - 1 ELSE d.after]
      BY <1>2, Zenon DEF Aimed
    <3> QED BY <3>1, <2>3
  <2>5. m \in d.next..d.last /\ \A i \in d.next..(m - 1) : log[i] # source
    <3>1. m \in d.next..d.last
      OBVIOUS
    <3>2. ASSUME NEW i \in d.next..(m - 1) PROVE log[i] # source
      <4>1. i \in d.next..d.last /\ ~(m <= i)
        BY <3>1, <1>0
      <4> QED BY <4>1, <2>1 DEF Matches
    <3> QED BY <3>1, <3>2
  <2> HIDE DEF due
  <2>6. m \in Nat /\ d.next <= m /\ m <= d.last
    BY <2>5, <1>0
  <2>a. PICK after \in 0..MaxEvents : after = IF m > d.next THEN m - 1 ELSE d.after
    BY <1>0, <2>6
  <2>b. Aimed(d) = [at |-> "deliver", current |-> d.current, after |-> after, next |-> m,
                    last |-> d.last, more |-> d.more]
    BY <2>4, <2>a, Moved
  <2>7. Aimed(d) \in DrainRecord
    BY <2>b, <2>6, <1>0 DEF DrainRecord
  <2>8. /\ Aimed(d).at = "deliver" /\ Aimed(d).current = d.current
        /\ Aimed(d).next = m /\ Aimed(d).last = d.last
        /\ Aimed(d).after = IF m > d.next THEN m - 1 ELSE d.after
    BY <2>a, <2>b
  <2>9. d.after <= Aimed(d).after /\ Aimed(d).after < Aimed(d).next
    BY <2>8, <2>6, <1>0
  <2> QED BY <2>5, <2>6, <2>7, <2>8, <2>9
<1> QED BY <1>1, <1>2

\* Aiming skips nothing: with what has been delivered (del), a drain that covers the events
\* before its next one still does so afterwards.
LEMMA AimedCovers ==
  ASSUME TypeOK, WorldInv, NEW d \in DrainRecord, NEW del,
         d.last <= Len(log), d.after <= Len(log), start <= d.after,
         d.after < d.next, d.next <= d.last + 1,
         \A i \in 1..Len(log) : Due(i) /\ del[i] = 0 => i > d.next - 1
  PROVE  LET e == Aimed(d) IN
         /\ start <= e.after /\ e.after <= Len(log)
         /\ \A i \in 1..Len(log) : Due(i) /\ del[i] = 0 => i > e.after
         /\ e.at = "deliver" =>
              /\ e.after < e.next /\ e.next <= e.last /\ e.last <= Len(log)
              /\ \A i \in 1..Len(log) : Due(i) /\ del[i] = 0 => i > e.next - 1
<1> DEFINE e == Aimed(d)
<1>0. /\ Len(log) \in Nat /\ start \in Nat /\ MaxEvents \in Nat
      /\ d.after \in Nat /\ d.next \in Nat /\ d.last \in Nat
  BY BoundAssumption DEF TypeOK, DrainRecord
<1>1. /\ e \in DrainRecord
      /\ d.after <= e.after
      /\ \/ /\ e.at = "save"
            /\ e.after <= d.after \/ e.after <= d.last
            /\ \A i \in d.next..d.last : log[i] # source
         \/ /\ e.at = "deliver"
            /\ d.next <= e.next /\ e.next <= d.last /\ e.last = d.last
            /\ e.after < e.next
            /\ \A i \in d.next..(e.next - 1) : log[i] # source
  BY AimedShape
<1>2. e.after \in Nat /\ e.next \in Nat
  BY <1>1 DEF DrainRecord
<1>3. \A i \in 1..Len(log) : Due(i) => log[i] = source
  BY DEF WorldInv, Due
<1> HIDE DEF e
<1>4. CASE e.at = "save"
  <2>1. ASSUME NEW i \in 1..Len(log), Due(i), del[i] = 0 PROVE i > e.after
    <3>1. i >= d.next /\ i > d.after
      BY <2>1, <1>0
    <3>2. ~(i \in d.next..d.last)
      BY <1>1, <1>4, <1>3, <2>1
    <3> QED BY <3>1, <3>2, <1>0, <1>1, <1>2, <1>4
  <2> QED BY <2>1, <1>0, <1>1, <1>2, <1>4 DEF e
<1>5. CASE e.at = "deliver"
  <2>1. ASSUME NEW i \in 1..Len(log), Due(i), del[i] = 0 PROVE i > e.next - 1
    <3>1. i >= d.next
      BY <2>1, <1>0
    <3>2. ~(i \in d.next..(e.next - 1))
      BY <1>1, <1>5, <1>3, <2>1
    <3> QED BY <3>1, <3>2, <1>0, <1>2
  <2>2. ASSUME NEW i \in 1..Len(log), Due(i), del[i] = 0 PROVE i > e.after
    BY <2>1, <2>2, <1>1, <1>2, <1>5
  <2>3. /\ start <= e.after /\ e.after <= Len(log)
        /\ e.after < e.next /\ e.next <= e.last /\ e.last <= Len(log)
    BY <1>0, <1>1, <1>2, <1>5
  <2> QED BY <2>1, <2>2, <2>3 DEF e
<1> QED BY <1>1, <1>4, <1>5

-----------------------------------------------------------------------------
(* What a step does not touch *)

\* The log, what is missed and what was delivered only grow.
Grows ==
  /\ start' = start /\ Len(log) <= Len(log') /\ missed \subseteq missed'
  /\ \A i \in 1..MaxEvents : delivered'[i] = 0 => delivered[i] = 0

\* The numbers of a state.
LEMMA Numbers ==
  TypeOK => /\ Len(log) \in Nat /\ Len(log) <= MaxEvents /\ MaxEvents \in Nat
            /\ start \in Nat /\ low \in Nat /\ low <= Len(log)
<1> SUFFICES ASSUME TypeOK PROVE /\ Len(log) \in Nat /\ Len(log) <= MaxEvents /\ MaxEvents \in Nat
                                 /\ start \in Nat /\ low \in Nat /\ low <= Len(log)
  OBVIOUS
<1>1. /\ log \in Seq(Owners \cup {Nothing}) /\ Len(log) <= MaxEvents
      /\ low \in 0..Len(log) /\ start \in 0..MaxEvents
  BY DEF TypeOK
<1>2. Len(log) \in Nat
  BY <1>1
<1> QED BY <1>1, <1>2, BoundAssumption

\* The numbers of the next state.
LEMMA NextNumbers ==
  ASSUME TypeOK'
  PROVE  /\ Len(log') \in Nat /\ Len(log') <= MaxEvents
         /\ start' \in Nat /\ low' \in Nat /\ low' <= Len(log')
<1>1. /\ log' \in Seq(Owners \cup {Nothing}) /\ Len(log') <= MaxEvents
      /\ low' \in 0..Len(log') /\ start' \in 0..MaxEvents
  BY DEF TypeOK
<1>2. Len(log') \in Nat
  BY <1>1
<1> QED BY <1>1, <1>2, BoundAssumption

\* Then what was covered stays so.
LEMMA CoversStays ==
  ASSUME TypeOK, TypeOK', Grows, NEW a \in Nat, a <= Len(log), Covers(a)
  PROVE  Covers(a)'
<1> SUFFICES ASSUME NEW i \in 1..Len(log'), Due(i)', delivered'[i] = 0, i <= a
             PROVE  FALSE
  BY DEF Covers, TypeOK
<1>1. Len(log) \in Nat /\ Len(log') \in Nat /\ Len(log') <= MaxEvents /\ MaxEvents \in Nat /\ start \in Nat
  BY Numbers, NextNumbers
<1>2. i \in 1..Len(log) /\ i \in 1..MaxEvents
  BY <1>1
<1>3. Due(i)
  BY <1>1, <1>2 DEF Due, Grows
<1>4. delivered[i] = 0
  BY <1>2 DEF Grows
<1> QED BY <1>2, <1>3, <1>4, <1>1 DEF Covers

\* A drain that is overtaken keeps its place and its cursor.
LEMMA OvertakesShape ==
  ASSUME NEW d \in DrainRecord
  PROVE  /\ Overtakes(d) \in DrainRecord
         /\ Overtakes(d).at = d.at /\ Overtakes(d).after = d.after
         /\ Overtakes(d).next = d.next /\ Overtakes(d).last = d.last
         /\ d.at # "idle" => ~Overtakes(d).current
<1>1. CASE d = Idle
  BY <1>1 DEF Overtakes, Idle
<1>2. CASE d # Idle
  <2>1. Overtakes(d) = [at |-> d.at, current |-> FALSE, after |-> d.after, next |-> d.next,
                        last |-> d.last, more |-> d.more]
    BY <1>2 DEF Overtakes, DrainRecord
  <2> QED BY <2>1 DEF DrainRecord
<1> QED BY <1>1, <1>2

\* A drain that nobody touches, or that is only overtaken, skips nothing afterwards either.
LEMMA DrainStays ==
  ASSUME TypeOK, TypeOK', Grows, NEW d \in DrainRecord, DrainOK(d),
         NEW e \in DrainRecord, e = d \/ e = Overtakes(d)
  PROVE  DrainOK(e)'
<1>1. e.at = d.at /\ e.after = d.after /\ e.next = d.next /\ e.last = d.last
  BY OvertakesShape
<1>2. /\ Len(log) \in Nat /\ Len(log') \in Nat /\ start \in Nat
      /\ d.after \in Nat /\ d.next \in Nat \ {0} /\ d.last \in Nat
      /\ start' = start /\ Len(log) <= Len(log')
  BY Numbers, NextNumbers DEF Grows, DrainRecord
<1>3. ASSUME e.at # "idle"
      PROVE  start' <= e.after /\ e.after <= Len(log') /\ Covers(e.after)'
  <2>1. start <= d.after /\ d.after <= Len(log) /\ Covers(d.after)
    BY <1>1, <1>3 DEF DrainOK
  <2>2. Covers(d.after)'
    BY <2>1, <1>2, CoversStays
  <2> QED BY <2>1, <2>2, <1>1, <1>2
<1>4. ASSUME e.at = "deliver"
      PROVE  e.after < e.next /\ e.next <= e.last /\ e.last <= Len(log') /\ Covers(e.next - 1)'
  <2>1. d.after < d.next /\ d.next <= d.last /\ d.last <= Len(log) /\ Covers(d.next - 1)
    BY <1>1, <1>4 DEF DrainOK
  <2>2. Covers(d.next - 1)'
    <3>1. d.next - 1 \in Nat /\ d.next - 1 <= Len(log)
      BY <2>1, <1>2
    <3> QED BY <2>1, <3>1, CoversStays
  <2> QED BY <2>1, <2>2, <1>1, <1>2
<1> QED BY <1>3, <1>4 DEF DrainOK

\* A host's step: its own drain d is as it should be, the others are at most overtaken, and
\* the world stays as it is.
LEMMA HostStep ==
  ASSUME BrokerInv, TypeOK', Grows, UNCHANGED worldVars, NEW h \in Hosts, DrainOK(drain[h])',
         \A g \in Hosts : g # h => drain'[g] = drain[g] \/ drain'[g] = Overtakes(drain[g])
  PROVE  WorldInv' /\ \A g \in Hosts : DrainOK(drain[g])'
<1>1. WorldInv'
  <2>1. \A i \in 1..low : i \in 1..MaxEvents
    BY BoundAssumption DEF BrokerInv, TypeOK
  <2>2. \A i \in 1..low : delivered'[i] \in Nat /\ delivered[i] \in Nat
    BY <2>1 DEF BrokerInv, TypeOK
  <2>3. \A i \in 1..low : delivered'[i] > 0 \/ i \in missed
    BY <2>1, <2>2 DEF BrokerInv, WorldInv, Grows
  <2> QED BY <2>3 DEF BrokerInv, WorldInv, Grows, worldVars
<1>2. ASSUME NEW g \in Hosts, g # h PROVE DrainOK(drain[g])'
  <2>1. PICK d \in DrainRecord : d = drain[g]
    BY DEF BrokerInv, TypeOK
  <2>2. PICK e \in DrainRecord : e = drain'[g]
    BY DEF TypeOK
  <2>3. DrainOK(e)'
    BY <1>2, <2>1, <2>2, DrainStays DEF BrokerInv
  <2> QED BY <2>2, <2>3 DEF DrainOK
<1> QED BY <1>1, <1>2

-----------------------------------------------------------------------------
(* The world's steps *)

\* A step of the world leaves the subscription, its drains and its deliveries alone.
LEMMA WorldStep ==
  ASSUME BrokerInv, TypeOK', WorldInv', Grows, UNCHANGED <<stored, drain, subVars, delivered>>,
         mishaps' # 0 \/ UNCHANGED <<mishaps, home>>
  PROVE  BrokerInv'
<1>1. SubscriptionInv'
  <2>1. Len(log) \in Nat /\ Len(log') \in Nat /\ Len(log) <= Len(log')
    BY Numbers, NextNumbers DEF BrokerInv, Grows
  <2>2. stored # Nothing => stored \in Nat
    BY DEF BrokerInv, TypeOK
  <2> QED BY <2>1, <2>2 DEF BrokerInv, SubscriptionInv, subVars
<1>2. NoHistory'
  BY DEF BrokerInv, NoHistory, subVars
<1>3. ASSUME stored' # Nothing PROVE Covers(stored)'
  <2>1. PICK a \in Nat : a = stored
    BY <1>3 DEF BrokerInv, TypeOK
  <2>2. a <= Len(log) /\ Covers(a)
    BY <2>1, <1>3 DEF BrokerInv, SubscriptionInv, Covers
  <2>3. Covers(a)'
    BY <2>2, CoversStays DEF BrokerInv
  <2> QED BY <2>1, <2>3 DEF Covers
<1>4. ASSUME NEW h \in Hosts PROVE DrainOK(drain[h])'
  <2>1. PICK d \in DrainRecord : d = drain[h]
    BY DEF BrokerInv, TypeOK
  <2>2. DrainOK(d)'
    BY <2>1, DrainStays DEF BrokerInv
  <2> QED BY <2>1, <2>2 DEF DrainOK
<1>5. SmoothInv'
  BY DEF BrokerInv, SmoothInv, SmoothDrain, OnceUnlessMishap, subVars
<1> QED BY <1>1, <1>2, <1>3, <1>4, <1>5 DEF BrokerInv

\* A new event is behind every cursor; one that is not the source's is missed.
LEMMA PublishStep ==
  ASSUME BrokerInv, NEW by \in Owners \cup {Nothing}, Publish(by)
  PROVE  BrokerInv'
<1>1. /\ log \in Seq(Owners \cup {Nothing}) /\ Len(log) \in Nat /\ Len(log) < MaxEvents
      /\ log' = Append(log, by) /\ missed \subseteq 1..MaxEvents
  BY Numbers DEF BrokerInv, TypeOK, Publish
<1>2. /\ Len(log') = Len(log) + 1 /\ log' \in Seq(Owners \cup {Nothing})
      /\ \A i \in 1..Len(log) : log'[i] = log[i]
      /\ log'[Len(log) + 1] = by
  BY <1>1
<1>3. /\ MaxEvents \in Nat /\ Len(log) + 1 \in 1..MaxEvents
      /\ start \in Nat /\ low \in 0..Len(log) /\ low \in 0..Len(log')
  BY <1>1, <1>2, Numbers DEF BrokerInv
<1>4. /\ missed \subseteq missed' /\ missed' \subseteq 1..MaxEvents
      /\ by = source \/ Len(log) + 1 \in missed'
  BY <1>1, <1>3 DEF Publish
<1>5. UNCHANGED <<low, source, home, stored, drain, mishaps, subVars, delivered>>
  BY DEF Publish
<1>6. TypeOK'
  <2>1. Len(log') <= MaxEvents
    BY <1>2, <1>3
  <2> QED BY <2>1, <1>2, <1>3, <1>4, <1>5 DEF BrokerInv, TypeOK, subVars, DrainRecord
<1>7. WorldInv'
  <2>1. start' <= Len(log')
    BY <1>2, <1>3, <1>5, <1>1 DEF BrokerInv, WorldInv, subVars
  <2>2. ASSUME NEW i \in 1..Len(log'), i \notin missed' PROVE log'[i] = source'
    <3>1. CASE i \in 1..Len(log)
      BY <2>2, <3>1, <1>2, <1>4, <1>5 DEF BrokerInv, WorldInv
    <3>2. CASE i = Len(log) + 1
      BY <2>2, <3>2, <1>2, <1>4, <1>5
    <3> QED BY <3>1, <3>2, <1>1, <1>2
  <2>3. \A i \in 1..low' : delivered'[i] > 0 \/ i \in missed'
    BY <1>4, <1>5 DEF BrokerInv, WorldInv
  <2> QED BY <2>1, <2>2, <2>3 DEF WorldInv
<1>8. Grows
  BY <1>1, <1>2, <1>4, <1>5 DEF Grows, subVars
<1> QED BY <1>5, <1>6, <1>7, <1>8, WorldStep

\* What compaction drops undelivered is missed from then on.
LEMMA CompactStep ==
  ASSUME BrokerInv, Compact
  PROVE  BrokerInv'
<1>1. PICK n \in (low + 1)..Len(log) :
        low' = n /\ missed' = missed \cup {i \in 1..n : delivered[i] = 0}
  BY DEF Compact
<1>2. UNCHANGED <<log, source, home, stored, drain, mishaps, subVars, delivered>>
  BY DEF Compact
<1>3. /\ Len(log) \in Nat /\ Len(log) <= MaxEvents /\ MaxEvents \in Nat /\ low \in Nat
      /\ n \in Nat /\ n <= Len(log)
  BY <1>1, Numbers DEF BrokerInv
<1>4. missed \subseteq missed' /\ missed' \subseteq 1..MaxEvents
  <2>1. missed \subseteq 1..MaxEvents
    BY DEF BrokerInv, TypeOK
  <2>2. {i \in 1..n : delivered[i] = 0} \subseteq 1..MaxEvents
    BY <1>3
  <2> QED BY <2>1, <2>2, <1>1
<1>5. TypeOK'
  <2>1. low' \in 0..Len(log')
    BY <1>1, <1>2, <1>3
  <2> QED BY <2>1, <1>2, <1>4 DEF BrokerInv, TypeOK, subVars, DrainRecord
<1>6. WorldInv'
  <2>1. ASSUME NEW i \in 1..low' PROVE delivered'[i] > 0 \/ i \in missed'
    <3>1. i \in 1..MaxEvents /\ i \in 1..n
      BY <1>1, <1>3
    <3>2. delivered[i] \in Nat
      BY <3>1 DEF BrokerInv, TypeOK
    <3> QED BY <3>1, <3>2, <1>1, <1>2
  <2> QED BY <2>1, <1>2, <1>4 DEF BrokerInv, WorldInv, subVars
<1>7. Grows
  BY <1>2, <1>3, <1>4 DEF Grows, subVars
<1> QED BY <1>2, <1>5, <1>6, <1>7, WorldStep

\* The events of an owner that does not stay the source's are missed.
LEMMA SourceMovesStep ==
  ASSUME BrokerInv, SourceMoves
  PROVE  BrokerInv'
<1>1. /\ source' \in Owners \cup {Nobody}
      /\ missed' = missed \cup {i \in DOMAIN log : log[i] = source}
      /\ UNCHANGED <<log, low, home, stored, drain, mishaps, subVars, delivered>>
  BY DEF SourceMoves
<1>2. DOMAIN log = 1..Len(log) /\ Len(log) \in Nat /\ Len(log) <= MaxEvents /\ MaxEvents \in Nat
  BY Numbers DEF BrokerInv, TypeOK
<1>3. missed \subseteq missed' /\ missed' \subseteq 1..MaxEvents
  <2>1. missed \subseteq 1..MaxEvents
    BY DEF BrokerInv, TypeOK
  <2>2. {i \in DOMAIN log : log[i] = source} \subseteq 1..MaxEvents
    BY <1>2
  <2> QED BY <2>1, <2>2, <1>1
<1>4. TypeOK'
  BY <1>1, <1>3 DEF BrokerInv, TypeOK, subVars, DrainRecord
<1>5. WorldInv'
  BY <1>1, <1>2, <1>3 DEF BrokerInv, WorldInv, subVars
<1>6. Grows
  BY <1>1, <1>2, <1>3 DEF Grows, subVars
<1> QED BY <1>1, <1>4, <1>5, <1>6, WorldStep

\* A mishap is counted.
LEMMA MishapCounts ==
  ASSUME TypeOK, Mishap
  PROVE  mishaps' \in 0..MaxMishaps /\ mishaps' # 0
  BY BoundAssumption DEF TypeOK, Mishap

\* A takeover is a mishap.
LEMMA TargetMovesStep ==
  ASSUME BrokerInv, TargetMoves
  PROVE  BrokerInv'
<1>1. /\ home' \in Hosts /\ mishaps' \in 0..MaxMishaps /\ mishaps' # 0
      /\ UNCHANGED <<log, low, source, stored, drain, missed, subVars, delivered>>
  BY MishapCounts DEF TargetMoves, BrokerInv
<1>2. TypeOK' /\ WorldInv'
  BY <1>1 DEF BrokerInv, TypeOK, WorldInv, subVars, DrainRecord
<1>3. Grows
  BY <1>1, Numbers DEF Grows, subVars, BrokerInv
<1> QED BY <1>1, <1>2, <1>3, WorldStep

-----------------------------------------------------------------------------
(* Subscribing *)

\* Before it is stored, nothing was delivered and nobody drains.
LEMMA SubscribeStep ==
  ASSUME BrokerInv, Subscribe
  PROVE  BrokerInv'
<1>1. /\ stored = Nothing /\ ~ended /\ once' \in BOOLEAN
      /\ request' = Len(log) /\ start' = Len(log)
      /\ UNCHANGED <<stored, drain, ended, mishaps, worldVars, delivered>>
  BY DEF Subscribe, LatestSequence
<1>2. Len(log) \in 0..MaxEvents
  BY Numbers DEF BrokerInv
<1>3. /\ \A h \in Hosts : drain[h].at = "idle"
      /\ \A i \in 1..MaxEvents : delivered[i] = 0
  BY <1>1 DEF BrokerInv, SubscriptionInv
<1>4. TypeOK'
  BY <1>1, <1>2 DEF BrokerInv, TypeOK, worldVars, DrainRecord
<1>5. WorldInv'
  BY <1>1, <1>2 DEF BrokerInv, WorldInv, worldVars
<1>6. SubscriptionInv' /\ NoHistory' /\ \A h \in Hosts : DrainOK(drain[h])'
  BY <1>1, <1>2, <1>3, NothingAssumption DEF SubscriptionInv, NoHistory, DrainOK
<1>7. SmoothInv'
  <2>1. home \in Hosts /\ home' = home
    BY <1>1 DEF BrokerInv, TypeOK, worldVars
  <2> QED BY <2>1, <1>1, <1>3 DEF SmoothInv, SmoothDrain, OnceUnlessMishap
<1> QED BY <1>1, <1>4, <1>5, <1>6, <1>7 DEF BrokerInv

\* The subscription begins with the events published since it was asked for.
LEMMA StoreSubscriptionStep ==
  ASSUME BrokerInv, StoreSubscription
  PROVE  BrokerInv'
<1>1. /\ stored' = start /\ request' = Nothing /\ ~ended /\ stored = Nothing
      /\ UNCHANGED <<drain, once, start, ended, mishaps, worldVars, delivered>>
  BY DEF StoreSubscription, BrokerInv, SubscriptionInv
<1>2. start \in 0..MaxEvents /\ start <= Len(log) /\ start \in Nat
  BY DEF BrokerInv, TypeOK, WorldInv
<1>3. /\ \A h \in Hosts : drain[h].at = "idle"
      /\ \A i \in 1..MaxEvents : delivered[i] = 0
  BY <1>1 DEF BrokerInv, SubscriptionInv
<1>4. TypeOK'
  BY <1>1, <1>2 DEF BrokerInv, TypeOK, worldVars, DrainRecord
<1>5. WorldInv'
  BY <1>1 DEF BrokerInv, WorldInv, worldVars
<1>6. SubscriptionInv' /\ NoHistory' /\ \A h \in Hosts : DrainOK(drain[h])'
  BY <1>1, <1>2, <1>3, NothingAssumption DEF SubscriptionInv, NoHistory, DrainOK, worldVars
<1>7. Covers(stored)'
  <2>1. Len(log) \in Nat
    BY Numbers DEF BrokerInv
  <2> QED BY <2>1, <1>1, <1>2 DEF Covers, Due, worldVars
<1>8. SmoothInv'
  <2>1. home \in Hosts /\ home' = home
    BY <1>1 DEF BrokerInv, TypeOK, worldVars
  <2> QED BY <2>1, <1>1, <1>3 DEF SmoothInv, SmoothDrain, OnceUnlessMishap
<1> QED BY <1>4, <1>5, <1>6, <1>7, <1>8 DEF BrokerInv

\* Whoever drains goes on, but nothing it would write is current.
LEMMA UnsubscribeStep ==
  ASSUME BrokerInv, Unsubscribe
  PROVE  BrokerInv'
<1>1. /\ stored # Nothing /\ stored' = Nothing /\ ended' /\ ended' \in BOOLEAN
      /\ drain' = [h \in Hosts |-> Overtakes(drain[h])]
      /\ UNCHANGED <<once, request, start, mishaps, worldVars, delivered>>
  BY DEF Unsubscribe
<1>2. ASSUME NEW g \in Hosts
      PROVE  /\ drain'[g] = Overtakes(drain[g]) /\ drain'[g] \in DrainRecord
             /\ drain'[g].at = drain[g].at /\ drain'[g].after = drain[g].after
             /\ drain[g].at # "idle" => ~drain'[g].current
  <2>1. drain[g] \in DrainRecord /\ drain'[g] = Overtakes(drain[g])
    BY <1>1 DEF BrokerInv, TypeOK
  <2> QED BY <2>1, OvertakesShape
<1>3. TypeOK'
  <2>1. drain' \in [Hosts -> DrainRecord]
    BY <1>1, <1>2
  <2> QED BY <2>1, <1>1 DEF BrokerInv, TypeOK, worldVars, DrainRecord
<1>4. Grows
  BY <1>1, Numbers DEF Grows, worldVars, BrokerInv
<1>5. WorldInv' /\ NoHistory'
  BY <1>1 DEF BrokerInv, WorldInv, NoHistory, worldVars
<1>6. SubscriptionInv'
  BY <1>1, <1>2 DEF BrokerInv, SubscriptionInv
<1>7. ASSUME NEW g \in Hosts PROVE DrainOK(drain[g])'
  <2>1. PICK d \in DrainRecord : d = drain[g]
    BY DEF BrokerInv, TypeOK
  <2>2. PICK e \in DrainRecord : e = drain'[g]
    BY <1>2
  <2>3. DrainOK(e)'
    BY <1>2, <1>3, <1>4, <2>1, <2>2, DrainStays DEF BrokerInv
  <2> QED BY <2>2, <2>3 DEF DrainOK
<1>8. SmoothInv'
  <2>1. home \in Hosts /\ home' = home
    BY <1>1 DEF BrokerInv, TypeOK, worldVars
  <2> SUFFICES ASSUME mishaps = 0
               PROVE  /\ \A h \in Hosts : h # home => drain'[h].at = "idle"
                      /\ SmoothDrain(drain[home])'
                      /\ OnceUnlessMishap'
    BY <1>1, <2>1 DEF SmoothInv
  <2>2. \A h \in Hosts : h # home => drain'[h].at = "idle"
    BY <1>2 DEF BrokerInv, SmoothInv
  <2>3. OnceUnlessMishap'
    BY <1>1 DEF BrokerInv, SmoothInv, OnceUnlessMishap
  <2>4. SmoothDrain(drain[home])
    BY DEF BrokerInv, SmoothInv
  <2>5. ~ended
    BY <1>1 DEF BrokerInv, SubscriptionInv
  <2> QED BY <2>1, <2>2, <2>3, <2>4, <2>5, <1>1, <1>2 DEF SmoothDrain
<1> QED BY <1>1, <1>3, <1>5, <1>6, <1>7, <1>8 DEF BrokerInv

-----------------------------------------------------------------------------
(* Draining *)

\* A drain that goes on to another place, with another cursor.
LEMMA MovedTo ==
  ASSUME NEW d \in DrainRecord, NEW at, NEW after
  PROVE  [d EXCEPT !.at = at, !.after = after]
           = [at |-> at, current |-> d.current, after |-> after, next |-> d.next,
              last |-> d.last, more |-> d.more]
<1>1. [d EXCEPT !.at = at]
        = [at |-> at, current |-> d.current, after |-> d.after, next |-> d.next,
           last |-> d.last, more |-> d.more]
  BY DEF DrainRecord
<1>2. [[at |-> at, current |-> d.current, after |-> d.after, next |-> d.next,
         last |-> d.last, more |-> d.more] EXCEPT !.after = after]
        = [at |-> at, current |-> d.current, after |-> after, next |-> d.next,
           last |-> d.last, more |-> d.more]
  OBVIOUS
<1> QED BY <1>1, <1>2, Zenon

\* A drain that counts an event as delivered.
LEMMA MovedPast ==
  ASSUME NEW d \in DrainRecord, NEW after, NEW next
  PROVE  [d EXCEPT !.after = after, !.next = next]
           = [at |-> d.at, current |-> d.current, after |-> after, next |-> next,
              last |-> d.last, more |-> d.more]
<1>1. [d EXCEPT !.after = after]
        = [at |-> d.at, current |-> d.current, after |-> after, next |-> d.next,
           last |-> d.last, more |-> d.more]
  BY DEF DrainRecord
<1>2. [[at |-> d.at, current |-> d.current, after |-> after, next |-> d.next,
         last |-> d.last, more |-> d.more] EXCEPT !.next = next]
        = [at |-> d.at, current |-> d.current, after |-> after, next |-> next,
           last |-> d.last, more |-> d.more]
  OBVIOUS
<1> QED BY <1>1, <1>2, Zenon

\* A drain that stops in the middle of its batch.
LEMMA Stopped ==
  ASSUME NEW d \in DrainRecord, NEW more
  PROVE  [d EXCEPT !.at = "save", !.more = more]
           = [at |-> "save", current |-> d.current, after |-> d.after, next |-> d.next,
              last |-> d.last, more |-> more]
<1>1. [d EXCEPT !.at = "save"]
        = [at |-> "save", current |-> d.current, after |-> d.after, next |-> d.next,
           last |-> d.last, more |-> d.more]
  BY DEF DrainRecord
<1>2. [[at |-> "save", current |-> d.current, after |-> d.after, next |-> d.next,
         last |-> d.last, more |-> d.more] EXCEPT !.more = more]
        = [at |-> "save", current |-> d.current, after |-> d.after, next |-> d.next,
           last |-> d.last, more |-> more]
  OBVIOUS
<1> QED BY <1>1, <1>2, Zenon

\* A host that does not drain has a drain of the right shape.
LEMMA IdleShape == Idle \in DrainRecord /\ Idle.at = "idle"
  BY BoundAssumption DEF Idle, DrainRecord

\* A drain that begins at the cursor a.
LEMMA ReadingFrom ==
  ASSUME NEW a
  PROVE  [Idle EXCEPT !.at = "read", !.after = a]
           = [at |-> "read", current |-> TRUE, after |-> a, next |-> 1, last |-> 0, more |-> FALSE]
<1>1. Idle.current = TRUE /\ Idle.next = 1 /\ Idle.last = 0 /\ Idle.more = FALSE
  BY DEF Idle
<1>2. [Idle EXCEPT !.at = "read", !.after = a]
        = [at |-> "read", current |-> Idle.current, after |-> a, next |-> Idle.next,
           last |-> Idle.last, more |-> Idle.more]
  BY IdleShape, MovedTo
<1> QED BY <1>1, <1>2

\* Without mishaps whoever drains is the target's host.
LEMMA DrainsAtHome ==
  ASSUME BrokerInv, mishaps = 0, NEW h \in Hosts, drain[h].at # "idle"
  PROVE  h = home /\ SmoothDrain(drain[h])
  BY DEF BrokerInv, SmoothInv

\* A step of one host that only moves its drain to e.
LEMMA OnlyDrain ==
  ASSUME BrokerInv, NEW h \in Hosts, NEW e \in DrainRecord, SetDrain(h, e),
         UNCHANGED <<stored, worldVars, subVars, delivered>>,
         mishaps' \in 0..MaxMishaps, mishaps' = 0 => mishaps = 0,
         DrainOK(e), drain[h].at = "idle" => e.at = "idle" \/ stored # Nothing,
         e.at = "idle" \/ ~e.current \/ stored # Nothing,
         mishaps' = 0 => h = home /\ SmoothDrain(e)
  PROVE  BrokerInv'
<1>1. /\ drain' = [drain EXCEPT ![h] = e] /\ drain'[h] = e
      /\ \A g \in Hosts : g # h => drain'[g] = drain[g]
  BY DEF SetDrain, BrokerInv, TypeOK
<1>2. TypeOK'
  <2>1. drain' \in [Hosts -> DrainRecord]
    BY <1>1 DEF BrokerInv, TypeOK
  <2> QED BY <2>1 DEF BrokerInv, TypeOK, worldVars, subVars, DrainRecord
<1>3. Grows
  BY Numbers DEF Grows, worldVars, subVars, BrokerInv
<1>4. DrainOK(drain[h])'
  BY <1>1 DEF DrainOK, Covers, Due, worldVars, subVars
<1>5. WorldInv' /\ \A g \in Hosts : DrainOK(drain[g])'
  BY <1>1, <1>2, <1>3, <1>4, HostStep
<1>6. SubscriptionInv'
  <2>1. stored = Nothing /\ ~ended => \A g \in Hosts : drain[g].at = "idle"
    BY DEF BrokerInv, SubscriptionInv
  <2>2. stored = Nothing /\ ~ended => \A g \in Hosts : drain'[g].at = "idle"
    BY <2>1, <1>1
  <2>3. stored = Nothing => \A g \in Hosts : drain'[g].at = "idle" \/ ~drain'[g].current
    BY <1>1 DEF BrokerInv, SubscriptionInv
  <2> QED BY <2>2, <2>3 DEF BrokerInv, SubscriptionInv, worldVars, subVars
<1>7. NoHistory' /\ (stored' # Nothing => Covers(stored)')
  BY DEF BrokerInv, NoHistory, Covers, Due, worldVars, subVars
<1>8. SmoothInv'
  <2>1. home \in Hosts /\ home' = home
    BY DEF BrokerInv, TypeOK, worldVars
  <2> SUFFICES ASSUME mishaps' = 0
               PROVE  /\ \A g \in Hosts : g # home => drain'[g].at = "idle"
                      /\ SmoothDrain(drain[home])'
                      /\ OnceUnlessMishap'
    BY <2>1 DEF SmoothInv
  <2>2. \A g \in Hosts : g # home => drain'[g].at = "idle"
    BY <1>1 DEF BrokerInv, SmoothInv
  <2>3. OnceUnlessMishap'
    BY DEF BrokerInv, SmoothInv, OnceUnlessMishap, subVars
  <2>4. SmoothDrain(drain[home])'
    BY <2>1, <1>1 DEF SmoothDrain, subVars
  <2> QED BY <2>2, <2>3, <2>4
<1> QED BY <1>2, <1>5, <1>6, <1>7, <1>8 DEF BrokerInv

\* A drain begins at the stored cursor.
LEMMA BeginDrainStep ==
  ASSUME BrokerInv, NEW h \in Hosts, BeginDrain(h)
  PROVE  BrokerInv'
<1>1. /\ drain[h].at = "idle" /\ stored # Nothing /\ home = h
      /\ UNCHANGED <<stored, mishaps, worldVars, subVars, delivered>>
  BY DEF BeginDrain
<1>2. PICK a \in 0..MaxEvents : a = stored
  BY <1>1 DEF BrokerInv, TypeOK
<1>3. PICK e : e = [at |-> "read", current |-> TRUE, after |-> a, next |-> 1, last |-> 0, more |-> FALSE]
  OBVIOUS
<1>4. SetDrain(h, e)
  <2>1. [Idle EXCEPT !.at = "read", !.after = stored]
          = [at |-> "read", current |-> TRUE, after |-> a, next |-> 1, last |-> 0, more |-> FALSE]
    BY <1>2, ReadingFrom
  <2> QED BY <2>1, <1>3 DEF BeginDrain
<1>5. e \in DrainRecord
  BY <1>3, BoundAssumption DEF DrainRecord
<1>6. DrainOK(e)
  BY <1>1, <1>2, <1>3 DEF BrokerInv, SubscriptionInv, DrainOK, Covers
<1>7. mishaps \in 0..MaxMishaps
  BY DEF BrokerInv, TypeOK
<1>8. ASSUME mishaps = 0 PROVE SmoothDrain(e)
  <2>1. SmoothDrain(drain[h]) /\ ~ended
    BY <1>1, <1>8 DEF BrokerInv, SmoothInv, SubscriptionInv
  <2> QED BY <2>1, <1>1, <1>2, <1>3 DEF SmoothDrain
<1> QED BY <1>1, <1>4, <1>5, <1>6, <1>7, <1>8, OnlyDrain

\* A drain that has read its batch.
LEMMA ReadShape ==
  ASSUME NEW d \in DrainRecord, NEW first, NEW last, NEW more
  PROVE  [d EXCEPT !.next = first, !.last = last, !.more = more]
           = [at |-> d.at, current |-> d.current, after |-> d.after, next |-> first,
              last |-> last, more |-> more]
<1>1. [d EXCEPT !.next = first]
        = [at |-> d.at, current |-> d.current, after |-> d.after, next |-> first,
           last |-> d.last, more |-> d.more]
  BY DEF DrainRecord
<1>2. [[at |-> d.at, current |-> d.current, after |-> d.after, next |-> first,
        last |-> d.last, more |-> d.more] EXCEPT !.last = last]
        = [at |-> d.at, current |-> d.current, after |-> d.after, next |-> first,
           last |-> last, more |-> d.more]
  OBVIOUS
<1>3. [[at |-> d.at, current |-> d.current, after |-> d.after, next |-> first,
        last |-> last, more |-> d.more] EXCEPT !.more = more]
        = [at |-> d.at, current |-> d.current, after |-> d.after, next |-> first,
           last |-> last, more |-> more]
  OBVIOUS
<1> QED BY <1>1, <1>2, <1>3, Zenon

\* Reading a batch: nothing that is due lies before the next event, also where compaction has
\* taken the events behind the cursor.
LEMMA ReadBatchStep ==
  ASSUME BrokerInv, NEW h \in Hosts, ReadBatch(h)
  PROVE  BrokerInv'
<1>1. /\ drain[h].at = "read"
      /\ UNCHANGED <<stored, mishaps, worldVars, subVars, delivered>>
  BY DEF ReadBatch
<1>2. PICK d \in DrainRecord : d = drain[h]
  BY DEF BrokerInv, TypeOK
<1>3. /\ Len(log) \in Nat /\ Len(log) <= MaxEvents /\ MaxEvents \in Nat /\ start \in Nat
      /\ low \in Nat /\ low <= Len(log) /\ Batch \in Nat \ {0} /\ d.after \in Nat
  BY Numbers, BoundAssumption DEF BrokerInv, DrainRecord
<1>4. start <= d.after /\ d.after <= Len(log) /\ Covers(d.after)
  BY <1>1, <1>2 DEF BrokerInv, DrainOK
<1>5. mishaps \in 0..MaxMishaps
  BY DEF BrokerInv, TypeOK
<1>6. ASSUME mishaps = 0
      PROVE  /\ h = home /\ SmoothDrain(d)
             /\ d.current <=> stored # Nothing
             /\ d.current => d.after = stored
             /\ \A i \in 1..MaxEvents : delivered[i] > 0 => i <= d.after
             /\ ~(once /\ \E i \in 1..MaxEvents : delivered[i] > 0)
  BY <1>1, <1>2, <1>6, DrainsAtHome DEF SmoothDrain
<1>e. ~d.current \/ stored # Nothing
  BY <1>1, <1>2 DEF BrokerInv, SubscriptionInv
<1>a. PICK f \in Nat : f = IF low > d.after THEN low + 1 ELSE d.after + 1
  BY <1>3
<1>b. PICK l \in Nat : l = IF f + Batch - 1 < Len(log) THEN f + Batch - 1 ELSE Len(log)
  BY <1>3, <1>a
<1>c. PICK m \in BOOLEAN : m = (l - f + 1 = Batch)
  OBVIOUS
<1>d. SetDrain(h, IF Len(log) <= d.after THEN Idle
                  ELSE IF f > l THEN [d EXCEPT !.at = "save", !.after = Len(log)]
                  ELSE Aimed([d EXCEPT !.next = f, !.last = l, !.more = m]))
  BY <1>2, <1>a, <1>b, <1>c, Zenon DEF ReadBatch
<1>7. CASE Len(log) <= d.after
  <2>1. SetDrain(h, Idle)
    BY <1>d, <1>7
  <2>2. DrainOK(Idle) /\ (mishaps = 0 => SmoothDrain(Idle))
    BY <1>6, IdleShape DEF DrainOK, SmoothDrain
  <2> QED BY <2>1, <2>2, <1>1, <1>5, <1>6, <1>e, IdleShape, OnlyDrain
<1>8. CASE ~(Len(log) <= d.after) /\ f > l
  <2>1. SetDrain(h, [d EXCEPT !.at = "save", !.after = Len(log)])
    BY <1>d, <1>8
  <2>2. low = Len(log)
    BY <1>3, <1>8, <1>a, <1>b
  <2>3. PICK e : e = [at |-> "save", current |-> d.current, after |-> Len(log), next |-> d.next,
                      last |-> d.last, more |-> d.more]
    OBVIOUS
  <2>4. SetDrain(h, e) /\ e \in DrainRecord
    <3>1. e = [d EXCEPT !.at = "save", !.after = Len(log)]
      BY <2>3, MovedTo
    <3>2. SetDrain(h, e)
      BY <2>1, <3>1
    <3>3. Len(log) \in 0..MaxEvents
      BY <1>3
    <3> QED BY <3>2, <3>3, <2>3 DEF DrainRecord
  <2>5. DrainOK(e)
    <3>1. Covers(Len(log))
      <4>1. \A i \in 1..low : i \in 1..MaxEvents /\ delivered[i] \in Nat
        BY <1>3 DEF BrokerInv, TypeOK
      <4> QED BY <4>1, <2>2 DEF BrokerInv, WorldInv, Covers, Due
    <3> QED BY <3>1, <2>3, <1>3, <1>4 DEF DrainOK
  <2>6. mishaps = 0 => SmoothDrain(e)
    <3>1. ASSUME mishaps = 0 PROVE \A i \in 1..MaxEvents : delivered[i] > 0 => i <= Len(log)
      BY <3>1, <1>6, <1>3, <1>4
    <3> QED BY <3>1, <1>6, <2>3 DEF SmoothDrain
  <2> QED BY <2>3, <2>4, <2>5, <2>6, <1>1, <1>5, <1>6, <1>e, OnlyDrain
<1>9. CASE ~(Len(log) <= d.after) /\ ~(f > l)
  <2>1. /\ d.after < f /\ f <= l /\ l <= Len(log)
        /\ f - 1 = low \/ f - 1 = d.after
    <3>1. d.after < f /\ (f - 1 = low \/ f - 1 = d.after)
      BY <1>3, <1>a
    <3>2. l <= Len(log)
      BY <1>3, <1>b
    <3> QED BY <3>1, <3>2, <1>9
  <2>2. SetDrain(h, Aimed([d EXCEPT !.next = f, !.last = l, !.more = m]))
    BY <1>d, <1>9
  <2>3. PICK b : b = [at |-> d.at, current |-> d.current, after |-> d.after, next |-> f,
                      last |-> l, more |-> m]
    OBVIOUS
  <2>4. SetDrain(h, Aimed(b))
    BY <2>2, <2>3, ReadShape
  <2>5. b \in DrainRecord
    BY <2>1, <2>3, <1>3 DEF DrainRecord
  <2>6. \A i \in 1..Len(log) : Due(i) /\ delivered[i] = 0 => i > b.next - 1
    <3>1. CASE f - 1 = low
      <4>1. \A i \in 1..low : i \in 1..MaxEvents /\ delivered[i] \in Nat
        BY <1>3 DEF BrokerInv, TypeOK
      <4>2. \A i \in 1..low : ~(Due(i) /\ delivered[i] = 0)
        BY <4>1 DEF BrokerInv, WorldInv, Due
      <4> QED BY <3>1, <4>2, <2>3, <1>3
    <3>2. CASE f - 1 = d.after
      BY <3>2, <1>4, <2>3 DEF Covers
    <3> QED BY <3>1, <3>2, <2>1
  <2>7. /\ b.last <= Len(log) /\ b.after <= Len(log) /\ start <= b.after
        /\ b.after < b.next /\ b.next <= b.last + 1 /\ b.current = d.current /\ b.after = d.after
    BY <2>1, <2>3, <1>3, <1>4
  <2>8. PICK e : e = Aimed(b)
    OBVIOUS
  <2>9. /\ e \in DrainRecord /\ e.current = d.current /\ d.after <= e.after
        /\ e.at = "save" \/ e.at = "deliver"
    BY <2>5, <2>7, <2>8, AimedShape DEF BrokerInv
  <2>10. DrainOK(e)
    <3>1. /\ start <= e.after /\ e.after <= Len(log)
          /\ \A i \in 1..Len(log) : Due(i) /\ delivered[i] = 0 => i > e.after
          /\ e.at = "deliver" =>
               /\ e.after < e.next /\ e.next <= e.last /\ e.last <= Len(log)
               /\ \A i \in 1..Len(log) : Due(i) /\ delivered[i] = 0 => i > e.next - 1
      BY <2>5, <2>6, <2>7, <2>8, AimedCovers DEF BrokerInv
    <3> QED BY <3>1 DEF DrainOK, Covers
  <2>11. mishaps = 0 => SmoothDrain(e)
    <3>1. e.after \in Nat
      BY <2>9 DEF DrainRecord
    <3>2. ASSUME mishaps = 0 PROVE \A i \in 1..MaxEvents : delivered[i] > 0 => i <= e.after
      BY <3>1, <3>2, <1>6, <2>9, <1>3
    <3> QED BY <3>2, <1>6, <2>9 DEF SmoothDrain
  <2> QED BY <2>4, <2>8, <2>9, <2>10, <2>11, <1>1, <1>5, <1>6, <1>e, OnlyDrain
<1> QED BY <1>7, <1>8, <1>9

\* A step of one host in which the event that it delivers gets through, and its drain moves to e.
LEMMA ReachStep ==
  ASSUME BrokerInv, NEW h \in Hosts, NEW e \in DrainRecord, drain[h].at = "deliver",
         SetDrain(h, e), Reaches(drain[h].next), UNCHANGED <<stored, worldVars, subVars>>,
         mishaps' \in 0..MaxMishaps, mishaps' = 0 => mishaps = 0,
         TypeOK' /\ Grows => DrainOK(e)',
         ~e.current \/ stored # Nothing,
         mishaps' = 0 => SmoothDrain(e)'
  PROVE  BrokerInv'
<1>1. /\ drain' = [drain EXCEPT ![h] = e] /\ drain'[h] = e
      /\ \A g \in Hosts : g # h => drain'[g] = drain[g]
  BY DEF SetDrain, BrokerInv, TypeOK
<1>2. PICK d \in DrainRecord : d = drain[h]
  BY DEF BrokerInv, TypeOK
<1>3. PICK n : n = d.next
  OBVIOUS
<1>4. /\ start <= d.after /\ d.after < n /\ n <= Len(log)
      /\ n \in Nat /\ d.after \in Nat
  <2>1. /\ d.next \in Nat /\ d.after \in Nat /\ d.last \in Nat /\ Len(log) \in Nat
        /\ start <= d.after /\ d.after < d.next /\ d.next <= d.last /\ d.last <= Len(log)
    BY <1>2, Numbers DEF BrokerInv, DrainOK, DrainRecord
  <2> QED BY <2>1, <1>3
<1>5. /\ n \in 1..MaxEvents /\ n > start
      /\ Len(log) \in Nat /\ Len(log) <= MaxEvents /\ MaxEvents \in Nat /\ start \in Nat
  BY <1>4, Numbers DEF BrokerInv
<1>6. /\ delivered' \in [1..MaxEvents -> Nat]
      /\ delivered'[n] = delivered[n] + 1 /\ delivered[n] \in Nat
      /\ \A i \in 1..MaxEvents : i # n => delivered'[i] = delivered[i]
      /\ \A i \in 1..MaxEvents : delivered[i] \in Nat
  <2>1. delivered \in [1..MaxEvents -> Nat] /\ delivered' = [delivered EXCEPT ![n] = @ + 1]
    BY <1>2, <1>3 DEF BrokerInv, TypeOK, Reaches
  <2> QED BY <2>1, <1>5
<1>7. TypeOK'
  <2>1. drain' \in [Hosts -> DrainRecord]
    BY <1>1 DEF BrokerInv, TypeOK
  <2> QED BY <2>1, <1>6 DEF BrokerInv, TypeOK, worldVars, subVars, DrainRecord
<1>8. Grows
  <2>1. \A i \in 1..MaxEvents : delivered'[i] = 0 => delivered[i] = 0
    BY <1>6
  <2> QED BY <2>1, <1>5 DEF Grows, worldVars, subVars
<1>9. DrainOK(drain[h])'
  <2>1. DrainOK(e)'
    BY <1>7, <1>8
  <2> QED BY <2>1, <1>1 DEF DrainOK
<1>10. WorldInv' /\ \A g \in Hosts : DrainOK(drain[g])'
  BY <1>1, <1>7, <1>8, <1>9, HostStep
<1>11. SubscriptionInv'
  <2>1. stored = Nothing => \A g \in Hosts : drain'[g].at = "idle" \/ ~drain'[g].current
    BY <1>1 DEF BrokerInv, SubscriptionInv
  <2> QED BY <2>1 DEF BrokerInv, SubscriptionInv, worldVars, subVars
<1>12. NoHistory'
  <2>1. ASSUME NEW i \in 1..MaxEvents, delivered'[i] > 0 PROVE i > start
    BY <2>1, <1>5, <1>6 DEF BrokerInv, NoHistory
  <2> QED BY <2>1 DEF NoHistory, subVars
<1>13. ASSUME stored' # Nothing PROVE Covers(stored)'
  <2>1. PICK a \in Nat : a = stored
    BY <1>13 DEF BrokerInv, TypeOK
  <2>2. a <= Len(log) /\ Covers(a)
    BY <2>1, <1>13 DEF BrokerInv, SubscriptionInv, Covers
  <2>3. Covers(a)'
    BY <2>2, <1>7, <1>8, CoversStays DEF BrokerInv
  <2> QED BY <2>1, <2>3 DEF Covers
<1>14. SmoothInv'
  <2>1. home \in Hosts /\ home' = home
    BY DEF BrokerInv, TypeOK, worldVars
  <2> SUFFICES ASSUME mishaps' = 0
               PROVE  /\ \A g \in Hosts : g # home => drain'[g].at = "idle"
                      /\ SmoothDrain(drain[home])'
                      /\ OnceUnlessMishap'
    BY <2>1 DEF SmoothInv
  <2>2. h = home /\ SmoothDrain(d)
    BY <1>2, DrainsAtHome
  <2>3. \A g \in Hosts : g # home => drain'[g].at = "idle"
    BY <1>1, <2>2 DEF BrokerInv, SmoothInv
  <2>4. SmoothDrain(drain[home])'
    BY <2>1, <2>2, <1>1 DEF SmoothDrain
  <2>5. /\ \A i \in 1..MaxEvents : delivered[i] > 0 => i <= d.after
        /\ once => \A i \in 1..MaxEvents : ~(delivered[i] > 0)
    BY <1>2, <2>2 DEF SmoothDrain
  <2>6. \A i \in 1..MaxEvents : delivered[i] <= 1
    BY DEF BrokerInv, SmoothInv, OnceUnlessMishap
  <2>7. \A i \in 1..MaxEvents : delivered'[i] <= 1
    <3>1. delivered[n] = 0
      BY <2>5, <1>4, <1>5, <1>6
    <3> QED BY <3>1, <2>6, <1>6
  <2>8. once => \A i, j \in 1..MaxEvents : delivered'[i] > 0 /\ delivered'[j] > 0 => i = j
    BY <2>5, <1>6
  <2> QED BY <2>3, <2>4, <2>7, <2>8 DEF OnceUnlessMishap, subVars
<1> QED BY <1>7, <1>10, <1>11, <1>12, <1>13, <1>14 DEF BrokerInv

\* What has been delivered is passed; the drain goes on with the next event that is due, or, if
\* the subscription was for one event, with its deletion.
LEMMA DeliverStep ==
  ASSUME BrokerInv, NEW h \in Hosts, Deliver(h)
  PROVE  BrokerInv'
<1>1. PICK d \in DrainRecord : d = drain[h]
  BY DEF BrokerInv, TypeOK
<1>2. /\ d.at = "deliver" /\ drain[h].at = "deliver" /\ Reaches(drain[h].next)
      /\ UNCHANGED <<stored, mishaps, worldVars, subVars>>
  BY <1>1 DEF Deliver
<1>3. mishaps' \in 0..MaxMishaps /\ (mishaps' = 0 => mishaps = 0)
  BY <1>2 DEF BrokerInv, TypeOK
<1>4. PICK n \in Nat : n = d.next
  BY DEF DrainRecord
<1>5. /\ start <= d.after /\ d.after < n /\ n <= d.last /\ d.last <= Len(log)
      /\ Covers(d.after) /\ Covers(n - 1)
      /\ start \in Nat /\ d.after \in Nat /\ d.last \in Nat /\ Len(log) \in Nat
      /\ Len(log) <= MaxEvents /\ MaxEvents \in Nat
  <2>1. DrainOK(d) /\ d.after \in Nat /\ d.last \in Nat
    BY <1>1 DEF BrokerInv, DrainRecord, DrainOK
  <2> QED BY <2>1, <1>2, <1>4, Numbers DEF BrokerInv, DrainOK
<1>6. /\ n \in 1..MaxEvents /\ delivered'[n] > 0
      /\ \A i \in 1..MaxEvents : i # n => delivered'[i] = delivered[i]
  <2>1. n \in 1..MaxEvents
    BY <1>5
  <2>2. delivered \in [1..MaxEvents -> Nat] /\ delivered' = [delivered EXCEPT ![n] = @ + 1]
    BY <1>1, <1>2, <1>4 DEF BrokerInv, TypeOK, Reaches
  <2> QED BY <2>1, <2>2
<1>7. ASSUME mishaps' = 0
      PROVE  /\ d.current <=> stored # Nothing
             /\ \A i \in 1..MaxEvents : delivered[i] > 0 => i <= d.after
  BY <1>1, <1>2, <1>3, <1>7, DrainsAtHome DEF SmoothDrain
<1>e. ~d.current \/ stored # Nothing
  BY <1>1, <1>2 DEF BrokerInv, SubscriptionInv
<1>8. CASE once
  <2>1. PICK e : e = [d EXCEPT !.at = "delete"]
    OBVIOUS
  <2>2. /\ e \in DrainRecord /\ e.at = "delete" /\ e.after = d.after /\ e.current = d.current
    BY <2>1 DEF DrainRecord
  <2>3. SetDrain(h, e)
    BY <1>1, <1>8, <2>1 DEF Deliver
  <2>4. TypeOK' /\ Grows => DrainOK(e)'
    <3> SUFFICES ASSUME TypeOK', Grows PROVE DrainOK(e)'
      OBVIOUS
    <3>1. Covers(d.after)'
      BY <1>5, CoversStays DEF BrokerInv
    <3> QED BY <3>1, <2>2, <1>2, <1>5 DEF DrainOK, worldVars, subVars
  <2>5. mishaps' = 0 => SmoothDrain(e)'
    BY <1>2, <1>7, <2>2 DEF SmoothDrain
  <2> QED BY <2>2, <2>3, <2>4, <2>5, <1>2, <1>3, <1>e, ReachStep
<1>9. CASE ~once
  <2>1. PICK b : b = [at |-> d.at, current |-> d.current, after |-> n, next |-> n + 1,
                      last |-> d.last, more |-> d.more]
    OBVIOUS
  <2>2. b = [d EXCEPT !.after = n, !.next = n + 1]
    BY <2>1, MovedPast
  <2>3. PICK e : e = Aimed(b)
    OBVIOUS
  <2>4. SetDrain(h, e)
    BY <1>1, <1>4, <1>9, <2>2, <2>3 DEF Deliver, Passed
  <2>5. /\ b \in DrainRecord /\ b.current = d.current /\ b.after = n /\ b.next = n + 1
        /\ b.last = d.last
    BY <2>1, <1>5, <1>6 DEF DrainRecord
  <2>6. /\ b.last <= Len(log) /\ b.after <= Len(log) /\ start <= b.after
        /\ b.after < b.next /\ b.next <= b.last + 1
    BY <2>5, <1>5
  <2>7. \A i \in 1..Len(log) : Due(i) /\ delivered'[i] = 0 => i > b.next - 1
    <3> SUFFICES ASSUME NEW i \in 1..Len(log), Due(i), delivered'[i] = 0 PROVE i > n
      BY <2>5
    <3>1. i \in 1..MaxEvents /\ i # n
      BY <1>5, <1>6
    <3>2. i > n - 1
      BY <3>1, <1>6, <1>5 DEF Covers
    <3> QED BY <3>1, <3>2
  <2>8. /\ e \in DrainRecord /\ e.current = d.current /\ n <= e.after
        /\ e.at = "save" \/ e.at = "deliver"
    BY <2>3, <2>5, <2>6, AimedShape DEF BrokerInv
  <2>9. TypeOK' /\ Grows => DrainOK(e)'
    <3>1. /\ start <= e.after /\ e.after <= Len(log)
          /\ \A i \in 1..Len(log) : Due(i) /\ delivered'[i] = 0 => i > e.after
          /\ e.at = "deliver" =>
               /\ e.after < e.next /\ e.next <= e.last /\ e.last <= Len(log)
               /\ \A i \in 1..Len(log) : Due(i) /\ delivered'[i] = 0 => i > e.next - 1
      BY <2>3, <2>5, <2>6, <2>7, AimedCovers DEF BrokerInv
    <3> QED BY <3>1, <1>2 DEF DrainOK, Covers, Due, worldVars, subVars
  <2>10. mishaps' = 0 => SmoothDrain(e)'
    <3>1. e.after \in Nat
      BY <2>8 DEF DrainRecord
    <3>2. ASSUME mishaps' = 0 PROVE \A i \in 1..MaxEvents : delivered'[i] > 0 => i <= e.after
      BY <3>1, <3>2, <1>5, <1>6, <1>7, <2>8
    <3> QED BY <3>2, <1>2, <1>7, <1>9, <2>8 DEF SmoothDrain, subVars
  <2> QED BY <2>4, <2>8, <2>9, <2>10, <1>2, <1>3, <1>e, ReachStep
<1> QED BY <1>8, <1>9

\* A delivery that is rejected ends the batch before the event, whether it got through or not.
LEMMA DeliveryFailsStep ==
  ASSUME BrokerInv, NEW h \in Hosts, DeliveryFails(h)
  PROVE  BrokerInv'
<1>1. PICK d \in DrainRecord : d = drain[h]
  BY DEF BrokerInv, TypeOK
<1>2. /\ d.at = "deliver" /\ drain[h].at = "deliver"
      /\ UNCHANGED <<stored, worldVars, subVars>>
  BY <1>1 DEF DeliveryFails
<1>3. PICK e : e = [at |-> "save", current |-> d.current, after |-> d.after, next |-> d.next,
                    last |-> d.last, more |-> FALSE]
  OBVIOUS
<1>4. SetDrain(h, e)
  <2>1. e = [d EXCEPT !.at = "save", !.more = FALSE]
    BY <1>3, Stopped
  <2> QED BY <2>1, <1>1 DEF DeliveryFails, StopsBefore
<1>5. e \in DrainRecord /\ e.at = "save" /\ e.after = d.after /\ e.current = d.current
  BY <1>3 DEF DrainRecord
<1>6. DrainOK(d)
  BY <1>1 DEF BrokerInv
<1>7. ~e.current \/ stored # Nothing
  BY <1>1, <1>2, <1>5 DEF BrokerInv, SubscriptionInv
<1>8. CASE UNCHANGED <<delivered, mishaps>>
  <2>1. DrainOK(e)
    BY <1>2, <1>5, <1>6 DEF DrainOK
  <2>2. ASSUME mishaps = 0 PROVE h = home /\ SmoothDrain(e)
    <3>1. h = home /\ SmoothDrain(d)
      BY <2>2, <1>1, <1>2, DrainsAtHome
    <3> QED BY <3>1, <1>2, <1>5 DEF SmoothDrain
  <2>3. mishaps \in 0..MaxMishaps
    BY DEF BrokerInv, TypeOK
  <2> QED BY <2>1, <2>2, <2>3, <1>2, <1>4, <1>5, <1>7, <1>8, OnlyDrain
<1>9. CASE Mishap /\ Reaches(drain[h].next)
  <2>1. mishaps' \in 0..MaxMishaps /\ mishaps' # 0
    BY <1>9, MishapCounts DEF BrokerInv
  <2>2. TypeOK' /\ Grows => DrainOK(e)'
    <3> SUFFICES ASSUME TypeOK', Grows PROVE DrainOK(e)'
      OBVIOUS
    <3>1. /\ start <= d.after /\ d.after <= Len(log) /\ Covers(d.after) /\ d.after \in Nat
      BY <1>2, <1>6 DEF DrainOK, DrainRecord
    <3>2. Covers(d.after)'
      BY <3>1, CoversStays DEF BrokerInv
    <3> QED BY <3>1, <3>2, <1>2, <1>5 DEF DrainOK, worldVars, subVars
  <2> QED BY <2>1, <2>2, <1>2, <1>4, <1>5, <1>7, <1>9, ReachStep
<1> QED BY <1>8, <1>9 DEF DeliveryFails

\* A host that gives up stores nothing, and begins again at the stored cursor.
LEMMA GivesUpStep ==
  ASSUME BrokerInv, NEW h \in Hosts, SaveFails(h) \/ Crash(h)
  PROVE  BrokerInv'
<1>1. SetDrain(h, Idle) /\ UNCHANGED <<stored, worldVars, subVars, delivered>>
  BY DEF SaveFails, Crash
<1>2. /\ mishaps' \in 0..MaxMishaps /\ (mishaps' = 0 => mishaps = 0)
      /\ mishaps' = 0 => drain[h].at # "idle" /\ ~drain[h].current
  <2>1. CASE Mishap
    BY <2>1, MishapCounts DEF BrokerInv
  <2>2. CASE ~Mishap
    <3>1. mishaps' = mishaps /\ drain[h].at # "idle" /\ ~drain[h].current
      BY <2>2 DEF SaveFails, Crash, SameVersion
    <3> QED BY <3>1 DEF BrokerInv, TypeOK
  <2> QED BY <2>1, <2>2
<1>3. DrainOK(Idle) /\ Idle \in DrainRecord /\ Idle.at = "idle"
  BY IdleShape DEF DrainOK
<1>4. ASSUME mishaps' = 0 PROVE h = home /\ SmoothDrain(Idle)
  <2>1. h = home /\ SmoothDrain(drain[h]) /\ drain[h].at # "idle" /\ ~drain[h].current
    BY <1>2, <1>4, DrainsAtHome
  <2>2. stored = Nothing
    BY <2>1 DEF SmoothDrain
  <2>3. ended
    BY <2>1, <2>2 DEF BrokerInv, SubscriptionInv
  <2> QED BY <2>1, <2>2, <2>3, <1>3 DEF SmoothDrain
<1> QED BY <1>1, <1>2, <1>3, <1>4, OnlyDrain

\* A write of the subscription by one host overtakes the drains of all others.
LEMMA OvertakenShape ==
  ASSUME BrokerInv, NEW h \in Hosts, NEW e \in DrainRecord, Overtaken(h, e)
  PROVE  /\ drain' \in [Hosts -> DrainRecord] /\ drain'[h] = e
         /\ \A g \in Hosts : g # h =>
              /\ drain'[g] = Overtakes(drain[g]) /\ drain'[g].at = drain[g].at
              /\ drain[g].at # "idle" => ~drain'[g].current
<1>1. ASSUME NEW g \in Hosts, g # h
      PROVE  /\ drain'[g] = Overtakes(drain[g]) /\ drain'[g] \in DrainRecord
             /\ drain'[g].at = drain[g].at
             /\ drain[g].at # "idle" => ~drain'[g].current
  <2>1. drain[g] \in DrainRecord /\ drain'[g] = Overtakes(drain[g])
    BY <1>1 DEF BrokerInv, TypeOK, Overtaken
  <2> QED BY <2>1, OvertakesShape
<1>2. drain'[h] = e
  BY DEF Overtaken
<1>3. drain' = [g \in Hosts |-> IF g = h THEN e ELSE Overtakes(drain[g])]
  BY DEF Overtaken
<1>4. \A g \in Hosts : (IF g = h THEN e ELSE Overtakes(drain[g])) \in DrainRecord
  <2> SUFFICES ASSUME NEW g \in Hosts PROVE (IF g = h THEN e ELSE Overtakes(drain[g])) \in DrainRecord
    OBVIOUS
  <2>1. drain[g] \in DrainRecord
    BY DEF BrokerInv, TypeOK
  <2> QED BY <2>1, OvertakesShape
<1>5. drain' \in [Hosts -> DrainRecord]
  BY <1>3, <1>4
<1> QED BY <1>1, <1>2, <1>5

\* The cursor is stored; the drain ends or reads on from there.
LEMMA SaveStep ==
  ASSUME BrokerInv, NEW h \in Hosts, Save(h)
  PROVE  BrokerInv'
<1>1. PICK d \in DrainRecord : d = drain[h]
  BY DEF BrokerInv, TypeOK
<1>2. /\ d.at = "save" /\ d.current /\ stored' = d.after
      /\ UNCHANGED <<mishaps, worldVars, subVars, delivered>>
  BY <1>1 DEF Save, SameVersion
<1>3. PICK e : e = IF d.more THEN [Idle EXCEPT !.at = "read", !.after = d.after] ELSE Idle
  OBVIOUS
<1>4. Overtaken(h, e)
  BY <1>1, <1>3 DEF Save
<1>5. /\ stored # Nothing /\ ~ended /\ request = Nothing
  BY <1>1, <1>2 DEF BrokerInv, SubscriptionInv
<1>6. /\ start <= d.after /\ d.after <= Len(log) /\ Covers(d.after)
      /\ d.after \in 0..MaxEvents /\ d.after \in Nat /\ d.after # Nothing
  BY <1>1, <1>2, BoundAssumption, NothingAssumption DEF BrokerInv, DrainOK, DrainRecord
<1>7. /\ e \in DrainRecord
      /\ e.at = "idle" \/ (e.at = "read" /\ e.current /\ e.after = d.after)
  <2>1. CASE d.more
    <3>1. e = [at |-> "read", current |-> TRUE, after |-> d.after, next |-> 1, last |-> 0, more |-> FALSE]
      BY <1>3, <2>1, ReadingFrom
    <3> QED BY <3>1, <1>6, BoundAssumption DEF DrainRecord
  <2>2. CASE ~d.more
    BY <1>3, <2>2, IdleShape
  <2> QED BY <2>1, <2>2
<1>8. /\ drain' \in [Hosts -> DrainRecord] /\ drain'[h] = e
      /\ \A g \in Hosts : g # h => drain'[g] = Overtakes(drain[g]) /\ drain'[g].at = drain[g].at
  BY <1>4, <1>7, OvertakenShape
<1>9. TypeOK'
  BY <1>2, <1>6, <1>8 DEF BrokerInv, TypeOK, worldVars, subVars, DrainRecord
<1>10. Grows
  BY <1>2, Numbers DEF Grows, worldVars, subVars, BrokerInv
<1>11. DrainOK(drain[h])'
  BY <1>2, <1>6, <1>7, <1>8 DEF DrainOK, Covers, Due, worldVars, subVars
<1>12. WorldInv' /\ \A g \in Hosts : DrainOK(drain[g])'
  BY <1>2, <1>8, <1>9, <1>10, <1>11, HostStep
<1>13. SubscriptionInv'
  BY <1>2, <1>5, <1>6 DEF SubscriptionInv, worldVars, subVars
<1>14. NoHistory' /\ Covers(stored)'
  BY <1>2, <1>6 DEF BrokerInv, NoHistory, Covers, Due, worldVars, subVars
<1>15. SmoothInv'
  <2>1. home \in Hosts /\ home' = home
    BY <1>2 DEF BrokerInv, TypeOK, worldVars
  <2> SUFFICES ASSUME mishaps = 0
               PROVE  /\ \A g \in Hosts : g # home => drain'[g].at = "idle"
                      /\ SmoothDrain(drain[home])'
                      /\ OnceUnlessMishap'
    BY <1>2, <2>1 DEF SmoothInv
  <2>2. h = home /\ SmoothDrain(d)
    BY <1>1, <1>2, DrainsAtHome
  <2>3. \A g \in Hosts : g # home => drain'[g].at = "idle"
    BY <1>8, <2>2 DEF BrokerInv, SmoothInv
  <2>4. OnceUnlessMishap'
    BY <1>2 DEF BrokerInv, SmoothInv, OnceUnlessMishap, subVars
  <2> QED BY <2>1, <2>2, <2>3, <2>4, <1>2, <1>6, <1>7, <1>8 DEF SmoothDrain, subVars
<1> QED BY <1>9, <1>12, <1>13, <1>14, <1>15 DEF BrokerInv

\* A subscription for one event ends for good.
LEMMA DeleteStep ==
  ASSUME BrokerInv, NEW h \in Hosts, Delete(h)
  PROVE  BrokerInv'
<1>1. /\ drain[h].at = "delete" /\ drain[h].current /\ stored' = Nothing /\ ended' /\ ended' \in BOOLEAN
      /\ Overtaken(h, Idle)
      /\ UNCHANGED <<once, request, start, mishaps, worldVars, delivered>>
  BY DEF Delete, SameVersion
<1>2. stored # Nothing /\ request = Nothing
  BY <1>1 DEF BrokerInv, SubscriptionInv
<1>3. /\ drain' \in [Hosts -> DrainRecord] /\ drain'[h] = Idle /\ Idle.at = "idle"
      /\ \A g \in Hosts : g # h =>
           /\ drain'[g] = Overtakes(drain[g]) /\ drain'[g].at = drain[g].at
           /\ drain[g].at # "idle" => ~drain'[g].current
  BY <1>1, IdleShape, OvertakenShape
<1>4. TypeOK'
  BY <1>1, <1>3 DEF BrokerInv, TypeOK, worldVars, DrainRecord
<1>5. Grows
  BY <1>1, Numbers DEF Grows, worldVars, BrokerInv
<1>6. DrainOK(drain[h])'
  BY <1>3 DEF DrainOK
<1>7. WorldInv' /\ \A g \in Hosts : DrainOK(drain[g])'
  BY <1>1, <1>3, <1>4, <1>5, <1>6, HostStep
<1>8. SubscriptionInv' /\ NoHistory'
  BY <1>1, <1>2, <1>3 DEF BrokerInv, SubscriptionInv, NoHistory
<1>9. SmoothInv'
  <2>1. home \in Hosts /\ home' = home
    BY <1>1 DEF BrokerInv, TypeOK, worldVars
  <2> SUFFICES ASSUME mishaps = 0
               PROVE  /\ \A g \in Hosts : g # home => drain'[g].at = "idle"
                      /\ SmoothDrain(drain[home])'
                      /\ OnceUnlessMishap'
    BY <1>1, <2>1 DEF SmoothInv
  <2>2. h = home
    BY <1>1, DrainsAtHome
  <2>3. \A g \in Hosts : g # home => drain'[g].at = "idle"
    BY <1>3, <2>2 DEF BrokerInv, SmoothInv
  <2>4. OnceUnlessMishap'
    BY <1>1 DEF BrokerInv, SmoothInv, OnceUnlessMishap
  <2> QED BY <2>1, <2>2, <2>3, <2>4, <1>1, <1>3 DEF SmoothDrain
<1> QED BY <1>1, <1>4, <1>7, <1>8, <1>9 DEF BrokerInv

-----------------------------------------------------------------------------
(* The invariant holds *)

\* Nothing has happened at first.
LEMMA InitBroker == Init => BrokerInv
<1> SUFFICES ASSUME Init PROVE BrokerInv
  OBVIOUS
<1>1. /\ log = <<>> /\ low = 0 /\ source \in Owners /\ home \in Hosts
      /\ stored = Nothing /\ once = FALSE /\ ended = FALSE /\ request = Nothing
      /\ drain = [h \in Hosts |-> Idle] /\ start = 0
      /\ delivered = [i \in 1..MaxEvents |-> 0] /\ missed = {} /\ mishaps = 0
  BY DEF Init
<1>2. log \in Seq(Owners \cup {Nothing}) /\ Len(log) = 0
  BY <1>1
<1>3. /\ \A h \in Hosts : drain[h] = Idle /\ drain[h].at = "idle"
      /\ drain \in [Hosts -> DrainRecord]
  BY <1>1, IdleShape
<1>4. \A i \in 1..MaxEvents : delivered[i] = 0
  BY <1>1
<1>5. TypeOK
  <2>1. delivered \in [1..MaxEvents -> Nat] /\ low \in 0..Len(log) /\ Len(log) <= MaxEvents
        /\ start \in 0..MaxEvents /\ mishaps \in 0..MaxMishaps /\ missed \subseteq 1..MaxEvents
    BY <1>1, <1>2, BoundAssumption
  <2>2. /\ source \in Owners \cup {Nobody} /\ home \in Hosts /\ once \in BOOLEAN /\ ended \in BOOLEAN
        /\ stored \in 0..MaxEvents \cup {Nothing} /\ request \in 0..MaxEvents \cup {Nothing}
    BY <1>1
  <2> QED BY <2>1, <2>2, <1>2, <1>3 DEF TypeOK
<1>6. WorldInv
  BY <1>1, <1>2 DEF WorldInv
<1>7. SubscriptionInv /\ NoHistory /\ \A h \in Hosts : DrainOK(drain[h])
  BY <1>1, <1>3, <1>4 DEF SubscriptionInv, NoHistory, DrainOK
<1>8. SmoothInv
  BY <1>1, <1>3, <1>4 DEF SmoothInv, SmoothDrain, OnceUnlessMishap
<1> QED BY <1>1, <1>5, <1>6, <1>7, <1>8 DEF BrokerInv

\* Every step keeps it.
LEMMA NextBroker == BrokerInv /\ [Next]_vars => BrokerInv'
<1> SUFFICES ASSUME BrokerInv, [Next]_vars PROVE BrokerInv'
  OBVIOUS
<1>1. ASSUME NEW by \in Owners \cup {Nothing}, Publish(by) PROVE BrokerInv'
  BY <1>1, PublishStep
<1>2. CASE Compact
  BY <1>2, CompactStep
<1>3. CASE SourceMoves
  BY <1>3, SourceMovesStep
<1>4. CASE TargetMoves
  BY <1>4, TargetMovesStep
<1>5. CASE Subscribe \/ StoreSubscription \/ Unsubscribe
  BY <1>5, SubscribeStep, StoreSubscriptionStep, UnsubscribeStep
<1>6. ASSUME NEW h \in Hosts, Drains(h) PROVE BrokerInv'
  BY <1>6, BeginDrainStep, ReadBatchStep DEF Drains
<1>7. ASSUME NEW h \in Hosts, Deliver(h) \/ DeliveryFails(h) PROVE BrokerInv'
  BY <1>7, DeliverStep, DeliveryFailsStep
<1>8. ASSUME NEW h \in Hosts, Writes(h) \/ Crash(h) PROVE BrokerInv'
  BY <1>8, SaveStep, DeleteStep, GivesUpStep DEF Writes
<1>9. CASE UNCHANGED vars
  <2>1. TypeOK' /\ WorldInv'
    BY <1>9 DEF vars, BrokerInv, TypeOK, WorldInv, DrainRecord
  <2>2. Grows
    BY <1>9, Numbers DEF Grows, vars, BrokerInv
  <2> QED BY <1>9, <2>1, <2>2, WorldStep DEF vars, subVars
<1> QED BY <1>1, <1>2, <1>3, <1>4, <1>5, <1>6, <1>7, <1>8, <1>9 DEF Next

\* The invariant of the subscription.
THEOREM BrokerInvHolds == Spec => []BrokerInv
  BY InitBroker, NextBroker, PTL DEF Spec

\* The state keeps its shape.
THEOREM BrokerTypeCorrect == Spec => []TypeOK
<1>1. BrokerInv => TypeOK
  BY DEF BrokerInv
<1> QED BY <1>1, BrokerInvHolds, PTL

\* The stored cursor never passes an event that is due and was not delivered.
THEOREM BrokerNothingSkipped == Spec => []NothingSkipped
<1>1. BrokerInv => NothingSkipped
  BY DEF BrokerInv, NothingSkipped, Covers
<1> QED BY <1>1, BrokerInvHolds, PTL

\* Nothing from before the subscription is delivered.
THEOREM BrokerNoHistory == Spec => []NoHistory
<1>1. BrokerInv => NoHistory
  BY DEF BrokerInv
<1> QED BY <1>1, BrokerInvHolds, PTL

\* Without mishaps every event is delivered at most once, and for a subscription for one event
\* only one.
THEOREM BrokerOnceUnlessMishap == Spec => []OnceUnlessMishap
<1>1. BrokerInv => OnceUnlessMishap
  BY DEF BrokerInv, SmoothInv, OnceUnlessMishap
<1> QED BY <1>1, BrokerInvHolds, PTL

\* Nothing is delivered for the first time before what is due and lies before it.
THEOREM BrokerInOrder == Spec => InOrder
<1> DEFINE A == \A i, j \in 1..Len(log) :
                  j < i /\ delivered[i] = 0 /\ delivered'[i] > 0 /\ Due(j) => delivered[j] > 0
<1>1. ASSUME BrokerInv, Next PROVE A
  <2> SUFFICES ASSUME NEW i \in 1..Len(log), NEW j \in 1..Len(log), j < i,
                      delivered[i] = 0, delivered'[i] > 0, Due(j)
               PROVE  delivered[j] > 0
    OBVIOUS
  <2>0. /\ Len(log) \in Nat /\ Len(log) <= MaxEvents /\ MaxEvents \in Nat
        /\ delivered \in [1..MaxEvents -> Nat] /\ delivered[j] \in Nat
    BY <1>1, Numbers DEF BrokerInv, TypeOK
  <2>1. ASSUME NEW h \in Hosts, drain[h].at = "deliver", Reaches(drain[h].next)
        PROVE  delivered[j] > 0
    <3>1. PICK d \in DrainRecord : d = drain[h]
      BY <1>1 DEF BrokerInv, TypeOK
    <3>2. Covers(d.next - 1) /\ d.next \in Nat
      BY <1>1, <2>1, <3>1 DEF BrokerInv, DrainOK, DrainRecord
    <3>3. delivered' = [delivered EXCEPT ![d.next] = @ + 1]
      BY <2>1, <3>1 DEF Reaches
    <3>4. i = d.next
      BY <2>0, <3>3
    <3> QED BY <3>2, <3>4, <2>0 DEF Covers
  <2>2. delivered' # delivered
    OBVIOUS
  <2>3. \E h \in Hosts : Deliver(h) \/ DeliveryFails(h)
    <3>1. ASSUME Compact \/ SourceMoves \/ TargetMoves \/ Subscribe \/ StoreSubscription \/ Unsubscribe
          PROVE  delivered' = delivered
      BY <3>1 DEF Compact, SourceMoves, TargetMoves, Subscribe, StoreSubscription, Unsubscribe
    <3>2. ASSUME NEW h \in Hosts, Drains(h) \/ Writes(h) \/ Crash(h) PROVE delivered' = delivered
      BY <3>2 DEF Drains, Writes, BeginDrain, ReadBatch, Save, Delete, SaveFails, Crash
    <3>3. ASSUME NEW by \in Owners \cup {Nothing}, Publish(by) PROVE delivered' = delivered
      BY <3>3 DEF Publish
    <3> QED BY <1>1, <2>2, <3>1, <3>2, <3>3 DEF Next
  <2> QED BY <2>1, <2>2, <2>3 DEF Deliver, DeliveryFails
<1>2. BrokerInv /\ [Next]_vars => [A]_vars
  BY <1>1
<1> QED BY <1>2, BrokerInvHolds, PTL DEF Spec, InOrder
=============================================================================
