----------------------------- MODULE PathLeases -----------------------------
(***************************************************************************)
(* Path leases: src/src/leases/path-leases.ts, and the check that          *)
(* src/src/providers/pi-tools-provider.ts makes before pi.edit/pi.write.   *)
(*                                                                         *)
(* All leases of a project are one entry of the mesh's shared state.  An   *)
(* operation reads the entry, drops what has expired, computes the next    *)
(* value and replaces the entry if nobody else did in between (MeshState). *)
(* A run acquires several paths at once, all or none.  A write is checked  *)
(* when it is called and takes effect later.  Times are kept as what is    *)
(* left of them.                                                           *)
(***************************************************************************)
EXTENDS Naturals, FiniteSets

CONSTANTS
  Owners,     \* the runs
  Callers,    \* calls that may be under way at once
  OwnerOf,    \* of each caller: the run it calls for
  Paths,
  Below,      \* of each path: the paths within it, itself included
  Requests,   \* what acquire may be asked for: sets of [path, scope]
  Ttls,       \* the lifetimes that may be asked for
  Capacity,   \* how many leases there may be: 32 in the code
  MaxIssued,  \* bound: successful acquisitions
  Writes,     \* bound: pairs of a caller and a path it may write
  Nothing

Scopes == {"file", "tree"}

Conflicts(l, r) ==
  \/ l.path = r.path
  \/ l.scope = "tree" /\ r.path \in Below[l.path]
  \/ r.scope = "tree" /\ l.path \in Below[r.path]

ASSUME PathAssumption ==
  /\ OwnerOf \in [Callers -> Owners] /\ Writes \subseteq Callers \X Paths
  /\ Below \in [Paths -> SUBSET Paths]
  /\ Requests \subseteq SUBSET [path : Paths, scope : Scopes]
  \* acquire refuses requests that overlap themselves
  /\ \A asked \in Requests : \A l, r \in asked : Conflicts(l, r) => l = r
ASSUME LeaseAssumption ==
  /\ Ttls \subseteq Nat \ {0} /\ Capacity \in Nat /\ MaxIssued \in Nat
  /\ \A asked \in Requests : IsFiniteSet(asked)
ASSUME NothingAssumption == Nothing \notin Paths

VARIABLES
  stored,     \* the leases in the entry: [id, owner, path, scope, left]
  call,       \* of each caller: its operation between the read and the put
  writing,    \* of each caller: the path it was allowed to write, or Nothing
  held,       \* history: of each run, the leases it was given and relies on
  issued      \* how often new leases were issued

leaseVars == <<stored, call, writing, held, issued>>

NoCall == [does |-> "none", next |-> {}, given |-> {}, gone |-> {}]
StaleCall == [NoCall EXCEPT !.does = "stale"]

-----------------------------------------------------------------------------
Ids(leases) == {l.id : l \in leases}
Without(leases, ids) == {l \in leases : l.id \notin ids}

Active(leases) == {l \in leases : l.left > 0}

LeaseInit ==
  /\ stored = {}
  /\ call = [c \in Callers |-> NoCall]
  /\ writing = [c \in Callers |-> Nothing]
  /\ held = [o \in Owners |-> {}]
  /\ issued = 0

\* The first half of an operation: it reads the entry and computes the next.
Begins(c, does, next, given, gone) ==
  /\ call[c] = NoCall
  /\ call' = [call EXCEPT ![c] = [does |-> does, next |-> next, given |-> given, gone |-> gone]]
  /\ UNCHANGED <<stored, writing, held, issued>>

Matches(l, owner, r) == l.owner = owner /\ l.path = r.path /\ l.scope = r.scope

\* Every new lease is refused that would be one too many.
Fits(next, fresh) == fresh = {} \/ Cardinality(next) <= Capacity

\* mutant: only the path itself counts, not what is in a tree
BlocksPath(l, r, owner) == l.owner # owner /\ l.path = r.path

Blocks(l, r, owner) == l.owner # owner /\ Conflicts(l, r)

\* acquire: refused if another run has a lease that conflicts.  A lease that
\* the run has already is renewed, also to a shorter time; the others are new.
BeginAcquire(c, asked, ttl) ==
  LET owner == OwnerOf[c]
      active == Active(stored)
      renewed == {l \in active : \E r \in asked : Matches(l, owner, r)}
      new == {r \in asked : ~\E l \in active : Matches(l, owner, r)}
      fresh == {[id |-> <<issued + 1, c, r.path, r.scope>>, owner |-> owner,
                 path |-> r.path, scope |-> r.scope, left |-> ttl] : r \in new}
      given == {[l EXCEPT !.left = ttl] : l \in renewed} \cup fresh
      next == (active \ renewed) \cup given
  IN  /\ issued < MaxIssued
      /\ \A l \in active, r \in asked : ~Blocks(l, r, owner)
      /\ Fits(next, fresh)
      /\ Begins(c, "acquire", next, given, {})

\* mutant: anybody's leases may be released
Anybodys(c, leases) == TRUE

OwnedBy(c, leases) == \A l \in leases : l.owner = OwnerOf[c]

\* release: refused if one of the leases is another run's.
BeginRelease(c, gone) ==
  LET active == Active(stored)
  IN  /\ gone \subseteq active /\ OwnedBy(c, gone)
      /\ Begins(c, "release", active \ gone, {}, Ids(gone))

\* forceRelease, by an operator: some leases, or all.  It drops no others.
BeginForceRelease(c, gone) ==
  /\ gone \subseteq stored
  /\ Begins(c, "force", stored \ gone, {}, Ids(gone))

\* An operation that read the entry before a put has nothing left to put.
Overtaken(op) == IF op = NoCall THEN NoCall ELSE StaleCall

\* What a run relies on after c's put: the leases it was given and neither
\* released nor lost to an operator.
Relied(o, c) ==
  IF call[c].does = "force" THEN Without(held[o], call[c].gone)
  ELSE IF OwnerOf[c] # o THEN held[o]
  ELSE Without(held[o], call[c].gone \cup Ids(call[c].given)) \cup call[c].given

\* The second half: put with ifVersion, and the entry is as it was read.
Put(c) ==
  /\ call[c] \notin {NoCall, StaleCall}
  /\ stored' = call[c].next
  /\ held' = [o \in Owners |-> Relied(o, c)]
  /\ issued' = IF call[c].given = {} THEN issued ELSE issued + 1
  /\ call' = [d \in Callers |-> IF d = c THEN NoCall ELSE Overtaken(call[d])]
  /\ UNCHANGED writing

\* The put throws: another was faster, or the lock was not to be had.  The
\* operation starts over with a new read, or is given up.
PutFails(c) ==
  /\ call[c] # NoCall
  /\ call' = [call EXCEPT ![c] = NoCall]
  /\ UNCHANGED <<stored, writing, held, issued>>

\* assertCanWrite
CanWrite(c, p) ==
  \A l \in Active(stored) :
    l.owner # OwnerOf[c] => ~Conflicts(l, [path |-> p, scope |-> "file"])

\* pi.edit or pi.write is called, and checked.
BeginWrite(c, p) ==
  /\ <<c, p>> \in Writes /\ writing[c] = Nothing /\ CanWrite(c, p)
  /\ writing' = [writing EXCEPT ![c] = p]
  /\ UNCHANGED <<stored, call, held, issued>>

\* After the extensions' tool_call handlers the file is written.  (A call that
\* they block changes nothing, as if it had not begun.)
EndWrite(c) ==
  /\ writing[c] # Nothing
  /\ writing' = [writing EXCEPT ![c] = Nothing]
  /\ UNCHANGED <<stored, call, held, issued>>

\* A run and all its calls end without releasing anything.
Crash(o) ==
  LET its == {c \in Callers : OwnerOf[c] = o}
  IN  /\ call' = [c \in Callers |-> IF c \in its THEN NoCall ELSE call[c]]
      /\ writing' = [c \in Callers |-> IF c \in its THEN Nothing ELSE writing[c]]
      /\ held' = [held EXCEPT ![o] = {}]
      /\ UNCHANGED <<stored, issued>>

Less(n) == IF n > 0 THEN n - 1 ELSE 0
Aged(leases) == {[l EXCEPT !.left = Less(@)] : l \in leases}

\* Time passes for every lease, stored, about to be, or relied on.
Tick ==
  /\ stored' = Aged(stored)
  /\ call' = [c \in Callers |-> [call[c] EXCEPT !.next = Aged(@), !.given = Aged(@)]]
  /\ held' = [o \in Owners |-> Active(Aged(held[o]))]
  /\ UNCHANGED <<writing, issued>>

LeaseNext ==
  \/ Tick
  \/ \E o \in Owners : Crash(o)
  \/ \E c \in Callers :
       \/ \E asked \in Requests, ttl \in Ttls : BeginAcquire(c, asked, ttl)
       \/ \E gone \in SUBSET stored : BeginRelease(c, gone) \/ BeginForceRelease(c, gone)
       \/ Put(c) \/ PutFails(c) \/ EndWrite(c)
       \/ \E p \in Paths : BeginWrite(c, p)

LeaseSpec == LeaseInit /\ [][LeaseNext]_leaseVars

-----------------------------------------------------------------------------
(* Properties *)

IdSet == (1..MaxIssued) \X Callers \X Paths \X Scopes
Leases == [id : IdSet, owner : Owners, path : Paths, scope : Scopes, left : Nat]

\* The state is of the right shape.
LeaseTypeOK ==
  /\ stored \in SUBSET Leases
  /\ call \in [Callers -> [does : {"none", "acquire", "release", "force", "stale"},
                           next : SUBSET Leases, given : SUBSET Leases, gone : SUBSET IdSet]]
  /\ writing \in [Callers -> Paths \cup {Nothing}]
  /\ held \in [Owners -> SUBSET Leases]
  /\ issued \in 0..MaxIssued

Apart(leases) == \A l, r \in Active(leases) : l.owner # r.owner => ~Conflicts(l, r)

\* The unexpired leases of different runs never overlap, whether on the same
\* path or on a tree and something in it (acquire, #mutate).
NoOverlap == Apart(stored)

\* What a run was told it holds, it holds: as long as the lease has not
\* expired, was not released and not taken by an operator, it is stored and
\* refuses others for at least as long.  No concurrent call writes it away.
HeldIsStored ==
  \A o \in Owners : \A h \in Active(held[o]) :
    \E l \in stored : l.id = h.id /\ l.owner = o /\ l.path = h.path
                      /\ l.scope = h.scope /\ l.left >= h.left

\* The entry never grows beyond what isState accepts: one lease more, and
\* nobody could acquire, release or write until an operator resets it.
WithinCapacity == Cardinality(stored) <= Capacity
=============================================================================
