----------------------------- MODULE MeshState ------------------------------
(***************************************************************************)
(* The shared state of the Fabric mesh (src/src/mesh/store.ts): state.json *)
(* behind put, delete and get, with each process's cache of the file.      *)
(*                                                                         *)
(* put and delete run under the mesh lock (MeshLock) and replace the file  *)
(* by one rename, so each is one step.  get takes no lock: it compares the *)
(* file's identity with the cache's and, when they differ, reads the file  *)
(* and then asks for its identity again; these are three steps.            *)
(***************************************************************************)
EXTENDS Naturals, Sequences, FiniteSets

CONSTANTS
  Procs,          \* processes, each with a MeshStore of its own
  Keys,
  Absent,         \* no entry under a key
  Nothing,        \* no cache, nothing read
  MaxTombstones,  \* maxStateTombstones
  MaxWrites       \* bound: writes of the file

ASSUME BoundAssumption ==
  MaxTombstones \in Nat \ {0} /\ MaxWrites \in Nat /\ Keys # {}
ASSUME AbsentAssumption == Absent \notin Nat \cup [version : Nat, value : Nat]

VARIABLES
  file,       \* state.json: [id, entries, versions, tombstones]; its id stands
              \* for device, inode, size and mtime; 0 is no file
  cache,      \* of each process: the identity and the state it is kept for
  at,         \* where a get that missed the cache is: "stat", "read", "cache"
  read,       \* what it has read
  held,       \* the entry a process last got: [key, entry]
  told,       \* the id of the file that entry came from
  history,    \* every entry ever written: [key, version, value]
  forgotten   \* history: keys whose tombstone was dropped

vars == <<file, cache, at, read, held, told, history, forgotten>>

\* The value of an entry is the number of the write that made it.
Entry == [version : 1..MaxWrites, value : 1..MaxWrites]
File == [id : 0..MaxWrites, entries : [Keys -> Entry \cup {Absent}],
         versions : [Keys -> 0..MaxWrites], tombstones : Seq(Keys)]
Written == [key : Keys, version : 1..MaxWrites, value : 1..MaxWrites]
NoFile == [id |-> 0, entries |-> [k \in Keys |-> Absent],
           versions |-> [k \in Keys |-> 0], tombstones |-> <<>>]

Init ==
  /\ file = NoFile
  /\ cache = [p \in Procs |-> Nothing]
  /\ at = [p \in Procs |-> "stat"]
  /\ read = [p \in Procs |-> Nothing]
  /\ held = [p \in Procs |-> Nothing]
  /\ told = [p \in Procs |-> 0]
  /\ history = {} /\ forgotten = {}

-----------------------------------------------------------------------------
\* mutant: a write builds on the cached state
CachedBase(p) == IF cache[p] = Nothing THEN file ELSE cache[p].file

\* readState under the lock: the file as it is, never the cache.
Base(p) == file

\* The version a write builds on: the entry's, or what its tombstone kept.
ActualVersion(f, k) ==
  IF f.entries[k] # Absent THEN f.entries[k].version ELSE f.versions[k]

Members(s) == {s[i] : i \in 1..Len(s)}
Position(s, k) == CHOOSE i \in 1..Len(s) : s[i] = k

\* The order without k, which is in it once at most.
Without(s, k) ==
  IF k \notin Members(s) THEN s
  ELSE SubSeq(s, 1, Position(s, k) - 1) \o SubSeq(s, Position(s, k) + 1, Len(s))

\* compactStateTombstones: the newest deleted keys keep their version.  Every
\* key without an entry that has a version is in the order already.
Evicted(order) == {order[i] : i \in 1..(Len(order) - MaxTombstones)}
Newest(order) ==
  IF Len(order) > MaxTombstones
  THEN SubSeq(order, Len(order) - MaxTombstones + 1, Len(order))
  ELSE order

Compacted(entries, versions, order) ==
  [id |-> file.id + 1, entries |-> entries,
   versions |-> [k \in Keys |-> IF k \in Evicted(order) THEN 0 ELSE versions[k]],
   tombstones |-> Newest(order)]

\* The writer keeps what it wrote and knows it.
Wrote(p, k) ==
  /\ cache' = [cache EXCEPT ![p] = [id |-> file'.id, file |-> file']]
  /\ held' = [held EXCEPT ![p] = [key |-> k, entry |-> file'.entries[k]]]
  /\ told' = [told EXCEPT ![p] = file'.id]

\* put of k by p without a version.
Put(p, k) ==
  /\ at[p] = "stat" /\ file.id < MaxWrites
  /\ LET f == Base(p)
         entry == [version |-> ActualVersion(f, k) + 1, value |-> file.id + 1]
     IN  /\ file' = Compacted([f.entries EXCEPT ![k] = entry],
                              [f.versions EXCEPT ![k] = entry.version],
                              Without(f.tombstones, k))
         /\ history' = history \cup {[key |-> k, version |-> entry.version,
                                      value |-> entry.value]}
  /\ Wrote(p, k)
  /\ UNCHANGED <<at, read, forgotten>>

\* delete of an entry without a version.
Delete(p, k) ==
  /\ at[p] = "stat" /\ file.id < MaxWrites
  /\ LET f == Base(p)
         order == Append(Without(f.tombstones, k), k)
     IN  /\ f.entries[k] # Absent
         /\ file' = Compacted([f.entries EXCEPT ![k] = Absent],
                              [f.versions EXCEPT ![k] = f.entries[k].version], order)
         /\ forgotten' = forgotten \cup Evicted(order)
  /\ Wrote(p, k)
  /\ UNCHANGED <<at, read, history>>

\* mutant: the expected version is not compared
SameKey(p, k) == held[p] # Nothing /\ held[p].key = k

\* The version that p's caller passes is the one of the entry it got last.
\* put and delete throw on any other and change nothing.
Expects(p, k) ==
  /\ held[p] # Nothing /\ held[p].key = k
  /\ ActualVersion(Base(p), k) = IF held[p].entry = Absent THEN 0 ELSE held[p].entry.version

PutIf(p, k) == Expects(p, k) /\ Put(p, k)
DeleteIf(p, k) == Expects(p, k) /\ Delete(p, k)

\* delete of an absent key caches the file it read under the lock.
DeleteNothing(p, k) ==
  /\ at[p] = "stat"
  /\ file.entries[k] = Absent
  /\ cache' = [cache EXCEPT ![p] = IF file.id = 0 THEN Nothing
                                   ELSE [id |-> file.id, file |-> file]]
  /\ UNCHANGED <<file, at, read, held, told, history, forgotten>>

-----------------------------------------------------------------------------
(* get: readCachedState *)

Hold(p, k, f) ==
  /\ held' = [held EXCEPT ![p] = [key |-> k, entry |-> f.entries[k]]]
  /\ told' = [told EXCEPT ![p] = f.id]

Fresh(p) == cache[p] # Nothing /\ cache[p].id = file.id

GetCached(p, k) ==
  /\ at[p] = "stat"
  /\ Fresh(p) \/ file.id = 0
  /\ Hold(p, k, IF file.id = 0 THEN NoFile ELSE cache[p].file)
  /\ UNCHANGED <<file, cache, at, read, history, forgotten>>

GetMisses(p) ==
  /\ at[p] = "stat"
  /\ ~Fresh(p) /\ file.id # 0
  /\ at' = [at EXCEPT ![p] = "read"]
  /\ UNCHANGED <<file, cache, read, held, told, history, forgotten>>

ReadFile(p) ==
  /\ at[p] = "read"
  /\ read' = [read EXCEPT ![p] = file]
  /\ at' = [at EXCEPT ![p] = "cache"]
  /\ UNCHANGED <<file, cache, held, told, history, forgotten>>

\* mutant: what is cached stands for the file before it was replaced
KeptForOld(p) == [id |-> file.id, file |-> IF cache[p] = Nothing THEN read[p] ELSE cache[p].file]

\* cacheState asks for the identity of the file as it is by now.
KeptFor(p) == [id |-> file.id, file |-> read[p]]

CacheFile(p, k) ==
  /\ at[p] = "cache"
  /\ cache' = [cache EXCEPT ![p] = KeptFor(p)]
  /\ Hold(p, k, read[p])
  /\ at' = [at EXCEPT ![p] = "stat"]
  /\ read' = [read EXCEPT ![p] = Nothing]
  /\ UNCHANGED <<file, history, forgotten>>

-----------------------------------------------------------------------------
Next ==
  \E p \in Procs :
    \/ GetMisses(p) \/ ReadFile(p)
    \/ \E k \in Keys :
         \/ Put(p, k) \/ PutIf(p, k) \/ Delete(p, k) \/ DeleteIf(p, k)
         \/ DeleteNothing(p, k)
         \/ GetCached(p, k) \/ CacheFile(p, k)

Spec == Init /\ [][Next]_vars

-----------------------------------------------------------------------------
(* Properties *)

\* The state is of the right shape.
TypeOK ==
  /\ file \in File
  /\ cache \in [Procs -> {Nothing} \cup [id : 1..MaxWrites, file : File]]
  /\ at \in [Procs -> {"stat", "read", "cache"}]
  /\ read \in [Procs -> {Nothing} \cup File]
  /\ held \in [Procs -> {Nothing} \cup [key : Keys, entry : Entry \cup {Absent}]]
  /\ told \in [Procs -> 0..MaxWrites]
  /\ history \subseteq Written
  /\ forgotten \subseteq Keys

\* A version of a key names one value for ever: neither a deletion nor a
\* recreation gives it out again, unless the key's tombstone was dropped.
VersionNamesOneValue ==
  \A w, x \in history :
    w.key = x.key /\ w.version = x.version => w.value = x.value \/ w.key \in forgotten

\* The tombstones are what compactStateTombstones says they are: at most
\* MaxTombstones keys, each once, exactly the deleted ones with a version; and
\* a live entry and the version kept for it agree.
TombstonesKeepVersions ==
  /\ Len(file.tombstones) <= MaxTombstones
  /\ \A i, j \in 1..Len(file.tombstones) :
       file.tombstones[i] = file.tombstones[j] => i = j
  /\ \A k \in Keys :
       IF file.entries[k] # Absent
       THEN file.versions[k] = file.entries[k].version /\ k \notin Members(file.tombstones)
       ELSE file.versions[k] # 0 <=> k \in Members(file.tombstones)

\* A conditional put or delete takes effect on the value its caller got, or on
\* a key that was deleted since, also when the caller got it from a stale
\* cache; again unless the key was forgotten in between.
CasOverwritesWhatItGot ==
  [][\A p \in Procs, k \in Keys :
       PutIf(p, k) \/ DeleteIf(p, k) =>
         file.entries[k] \in {held[p].entry, Absent} \/ k \in forgotten]_vars

\* No process is ever told of an older state than it was told of before, be
\* it by its own writes or by its cache (read your writes, monotonic reads).
ReadsNeverGoBack == [][\A p \in Procs : told'[p] >= told[p]]_vars

\* Writers get versioned registers (VersionedRegisters).
Register(f, k) == [version |-> ActualVersion(f, k),
                   value |-> IF f.entries[k] = Absent THEN Absent ELSE f.entries[k].value]
Cells == [k \in Keys |-> Register(file, k)]
Registers == INSTANCE VersionedRegisters WITH Writes <- 1..MaxWrites, cell <- Cells
ImplementsRegisters == Registers!Spec
=============================================================================
