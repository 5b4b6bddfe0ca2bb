-------------------------- MODULE MeshState_proofs --------------------------
(***************************************************************************)
(* Proofs about MeshState for every set of processes and keys and every    *)
(* bound, and that it implements VersionedRegisters.                       *)
(***************************************************************************)
EXTENDS MeshState, SequenceTheorems, TLAPS

-----------------------------------------------------------------------------
(* The tombstone order *)

Distinct(s) == \A i, j \in 1..Len(s) : s[i] = s[j] => i = j

\* Leaving a key out keeps the others, each once.
LEMMA WithoutFacts ==
  ASSUME NEW S, NEW s \in Seq(S), Distinct(s), NEW k
  PROVE  /\ Without(s, k) \in Seq(S) /\ Distinct(Without(s, k))
         /\ Len(Without(s, k)) <= Len(s)
         /\ Members(Without(s, k)) = Members(s) \ {k}
<1> DEFINE n == Len(s)
<1>1. n \in Nat /\ \A i \in 1..n : s[i] \in S
  BY LenProperties, ElementOfSeq
<1>2. CASE k \notin Members(s)
  BY <1>1, <1>2 DEF Without
<1>3. CASE k \in Members(s)
  <2> DEFINE p == Position(s, k)
             a == SubSeq(s, 1, p - 1)
             b == SubSeq(s, p + 1, n)
             t == a \o b
  <2>1. p \in 1..n /\ s[p] = k
    BY <1>3 DEF Members, Position
  <2>2. /\ a \in Seq(S) /\ Len(a) = p - 1
        /\ \A i \in 1..(p - 1) : a[i] = s[i]
    <3>1. \A i \in 1..(p - 1) : s[i] \in S
      BY <1>1, <2>1
    <3> HIDE DEF p
    <3> QED
      BY <1>1, <2>1, <3>1, SubSeqProperties
  <2>3. /\ b \in Seq(S) /\ Len(b) = n - p
        /\ \A i \in 1..(n - p) : b[i] = s[i + p]
    <3>1. \A i \in (p + 1)..n : s[i] \in S
      BY <1>1, <2>1
    <3> HIDE DEF p
    <3> QED
      BY <1>1, <2>1, <3>1, SubSeqProperties
  <2>4. /\ t \in Seq(S) /\ Len(t) = n - 1
        /\ \A i \in 1..(n - 1) : t[i] = IF i < p THEN s[i] ELSE s[i + 1]
    <3>1. /\ t \in Seq(S) /\ Len(t) = Len(a) + Len(b)
          /\ \A i \in 1..(Len(a) + Len(b)) :
               t[i] = IF i <= Len(a) THEN a[i] ELSE b[i - Len(a)]
      <4> HIDE DEF a, b
      <4> QED
        BY <2>2, <2>3, ConcatProperties
    <3> HIDE DEF p
    <3>2. \A i \in 1..(n - 1) : ~(i < p) => i - (p - 1) \in 1..(n - p) /\ i - (p - 1) + p = i + 1
      BY <1>1, <2>1
    <3> HIDE DEF a, b, t
    <3>3. ASSUME NEW i \in 1..(n - 1), i < p PROVE t[i] = s[i]
      <4>1. i \in 1..(p - 1) /\ i \in 1..(Len(a) + Len(b)) /\ i <= Len(a)
        BY <1>1, <2>1, <2>2, <2>3, <3>3
      <4> QED
        BY <2>2, <3>1, <4>1
    <3>4. ASSUME NEW i \in 1..(n - 1), ~(i < p) PROVE t[i] = s[i + 1]
      <4>1. i \in 1..(Len(a) + Len(b)) /\ ~(i <= Len(a)) /\ i - Len(a) = i - (p - 1)
        BY <1>1, <2>1, <2>2, <2>3, <3>4
      <4> QED
        BY <2>3, <3>1, <3>2, <3>4, <4>1
    <3> QED
      BY <1>1, <2>1, <2>2, <2>3, <3>1, <3>3, <3>4
  <2>5. Without(s, k) = t
    BY <1>3 DEF Without
  <2>6. Distinct(t)
    <3> HIDE DEF t, p
    <3> SUFFICES ASSUME NEW i \in 1..Len(t), NEW j \in 1..Len(t), t[i] = t[j]
                 PROVE  i = j
      BY DEF Distinct
    <3>1. /\ i \in 1..n /\ j \in 1..n /\ i + 1 \in 1..n /\ j + 1 \in 1..n
      BY <1>1, <2>4
    <3>2. \A x, y \in 1..n : s[x] = s[y] => x = y
      BY DEF Distinct
    <3>3. /\ (i < p => t[i] = s[i]) /\ (~(i < p) => t[i] = s[i + 1])
          /\ (j < p => t[j] = s[j]) /\ (~(j < p) => t[j] = s[j + 1])
      BY <1>1, <2>4
    <3>4. i \in Nat /\ j \in Nat /\ p \in Nat /\ t[i] = t[j]
      BY <1>1, <2>1, <2>4
    <3> HIDE DEF n
    <3>5. CASE i < p /\ j < p
      BY <3>1, <3>2, <3>3, <3>4, <3>5
    <3>6. CASE i < p /\ ~(j < p)
      <4>1. i = j + 1
        BY <3>1, <3>2, <3>3, <3>4, <3>6
      <4> QED
        BY <3>4, <3>6, <4>1
    <3>7. CASE ~(i < p) /\ j < p
      <4>1. j = i + 1
        BY <3>1, <3>2, <3>3, <3>4, <3>7
      <4> QED
        BY <3>4, <3>7, <4>1
    <3>8. CASE ~(i < p) /\ ~(j < p)
      <4>1. i + 1 = j + 1
        BY <3>1, <3>2, <3>3, <3>4, <3>8
      <4> QED
        BY <3>4, <4>1
    <3> QED
      BY <3>5, <3>6, <3>7, <3>8
  <2>7. Members(t) = Members(s) \ {k}
    <3> HIDE DEF t, p
    <3>1. ASSUME NEW i \in 1..Len(t) PROVE t[i] \in Members(s) /\ t[i] # k
      <4>1. i \in 1..(n - 1)
        BY <1>1, <2>4
      <4>2. CASE i < p
        <5>1. i \in 1..n /\ i # p /\ t[i] = s[i]
          BY <1>1, <2>1, <2>4, <4>1, <4>2
        <5> QED
          BY <2>1, <5>1 DEF Distinct, Members
      <4>3. CASE ~(i < p)
        <5>1. i + 1 \in 1..n /\ i + 1 # p /\ t[i] = s[i + 1]
          BY <1>1, <2>1, <2>4, <4>1, <4>3
        <5> QED
          BY <2>1, <5>1 DEF Distinct, Members
      <4> QED
        BY <4>2, <4>3
    <3>2. ASSUME NEW i \in 1..n, s[i] # k PROVE s[i] \in Members(t)
      <4>1. CASE i < p
        <5>1. i \in 1..Len(t) /\ t[i] = s[i]
          BY <1>1, <2>1, <2>4, <4>1
        <5> QED
          BY <5>1 DEF Members
      <4>2. CASE i > p
        <5>0. i - 1 \in 1..(n - 1) /\ ~(i - 1 < p) /\ (i - 1) + 1 = i
          BY <1>1, <2>1, <4>2
        <5>1. i - 1 \in 1..Len(t) /\ t[i - 1] = s[i]
          BY <2>4, <5>0
        <5> QED
          BY <5>1 DEF Members
      <4> QED
        BY <4>1, <4>2, <2>1, <3>2
    <3> QED
      BY <3>1, <3>2 DEF Members
  <2> QED
    BY <1>1, <2>4, <2>5, <2>6, <2>7
<1> QED
  BY <1>2, <1>3

\* The newest tombstones and the evicted ones are all of the order, apart.
LEMMA NewestFacts ==
  ASSUME NEW S, NEW s \in Seq(S), Distinct(s)
  PROVE  /\ Newest(s) \in Seq(S) /\ Distinct(Newest(s))
         /\ Len(Newest(s)) <= MaxTombstones
         /\ Members(Newest(s)) = Members(s) \ Evicted(s)
         /\ Evicted(s) \subseteq Members(s)
         /\ Len(s) <= MaxTombstones => Evicted(s) = {}
<1> DEFINE n == Len(s)
<1>1. n \in Nat /\ MaxTombstones \in Nat \ {0} /\ \A i \in 1..n : s[i] \in S
  BY LenProperties, ElementOfSeq, BoundAssumption
<1>2. CASE n <= MaxTombstones
  <2>1. Newest(s) = s /\ Evicted(s) = {}
    BY <1>1, <1>2 DEF Newest, Evicted
  <2> QED
    BY <1>2, <2>1
<1>3. CASE n > MaxTombstones
  <2> DEFINE d == n - MaxTombstones
             t == SubSeq(s, d + 1, n)
  <2>1. d \in 1..n /\ n - d = MaxTombstones
    BY <1>1, <1>3
  <2>2. /\ t \in Seq(S) /\ Len(t) = MaxTombstones
        /\ \A i \in 1..MaxTombstones : t[i] = s[i + d]
    <3>1. \A i \in (d + 1)..n : s[i] \in S
      BY <1>1, <2>1
    <3> HIDE DEF d
    <3> QED
      BY <1>1, <2>1, <3>1, SubSeqProperties
  <2>3. Newest(s) = t
    BY <1>3 DEF Newest
  <2>4. Evicted(s) = {s[i] : i \in 1..d}
    BY DEF Evicted
  <2> HIDE DEF t, d
  <2>5. Distinct(t)
    BY <1>1, <2>1, <2>2 DEF Distinct
  <2>6. Evicted(s) \subseteq Members(s)
    BY <1>1, <2>1, <2>4 DEF Members
  <2>7. ASSUME NEW i \in 1..MaxTombstones PROVE t[i] \in Members(s) \ Evicted(s)
    <3>1. i + d \in 1..n /\ t[i] = s[i + d] /\ \A j \in 1..d : j \in 1..n /\ j # i + d
      BY <1>1, <2>1, <2>2
    <3> QED
      BY <2>4, <3>1 DEF Members, Distinct
  <2>8. ASSUME NEW i \in 1..n, s[i] \notin Evicted(s) PROVE s[i] \in Members(t)
    <3>1. i > d
      BY <1>1, <2>1, <2>4, <2>8
    <3>2. i - d \in 1..Len(t) /\ t[i - d] = s[i]
      BY <1>1, <2>1, <2>2, <3>1
    <3> QED
      BY <3>2 DEF Members
  <2>9. Members(t) = Members(s) \ Evicted(s)
    BY <2>2, <2>7, <2>8 DEF Members
  <2> QED
    BY <1>1, <1>3, <2>2, <2>3, <2>5, <2>6, <2>9
<1> QED
  BY <1>1, <1>2, <1>3

-----------------------------------------------------------------------------
(* The inductive invariant *)

Record(k, e) == [key |-> k, version |-> e.version, value |-> e.value]
FileKnown(f) == \A k \in Keys : f.entries[k] # Absent => Record(k, f.entries[k]) \in history

\* A version is at most the number of writes.
VersionsBounded ==
  \A k \in Keys : ActualVersion(file, k) <= file.id

\* Whatever a process may be told of was written once, and no version of a
\* remembered key is above the actual one.
Known ==
  /\ \A w \in history : w.key \in forgotten \/ w.version <= ActualVersion(file, w.key)
  /\ VersionNamesOneValue
  /\ FileKnown(file)
  /\ \A p \in Procs :
       /\ held[p] # Nothing /\ held[p].entry # Absent =>
            Record(held[p].key, held[p].entry) \in history
       /\ cache[p] # Nothing => FileKnown(cache[p].file)
       /\ at[p] = "cache" => FileKnown(read[p])

\* What a process has cached or read is not older than what it was told.
ToldOf(p) ==
  /\ told[p] <= file.id
  /\ cache[p] # Nothing => told[p] <= cache[p].file.id /\ cache[p].file.id <= file.id
  /\ at[p] = "cache" => read[p] \in File /\ told[p] <= read[p].id /\ read[p].id <= file.id
  /\ at[p] # "stat" => file.id # 0

Order == Distinct(file.tombstones) /\ TombstonesKeepVersions

StateInv ==
  /\ TypeOK /\ Order /\ VersionsBounded /\ Known
  /\ \A p \in Procs : ToldOf(p)

LEMMA NoFileIsFile == NoFile \in File
BY BoundAssumption, EmptySeq DEF NoFile, File

LEMMA InitStateInv == Init => StateInv
<1> SUFFICES ASSUME Init PROVE StateInv
  OBVIOUS
<1>1. /\ file = NoFile /\ file.id = 0 /\ file.entries = [k \in Keys |-> Absent]
      /\ file.versions = [k \in Keys |-> 0] /\ file.tombstones = <<>>
      /\ cache = [p \in Procs |-> Nothing] /\ at = [p \in Procs |-> "stat"]
      /\ read = [p \in Procs |-> Nothing] /\ held = [p \in Procs |-> Nothing]
      /\ told = [p \in Procs |-> 0] /\ history = {} /\ forgotten = {}
  BY DEF Init, NoFile
<1>2. TypeOK
  BY <1>1, NoFileIsFile, BoundAssumption DEF TypeOK
<1>3. Order
  <2>1. Len(file.tombstones) = 0 /\ Members(file.tombstones) = {}
    BY <1>1, EmptySeq DEF Members
  <2> QED
    BY <1>1, <2>1, BoundAssumption DEF Order, Distinct, TombstonesKeepVersions
<1>4. VersionsBounded
  BY <1>1 DEF VersionsBounded, ActualVersion
<1>5. Known
  BY <1>1 DEF Known, VersionNamesOneValue, FileKnown
<1>6. \A p \in Procs : ToldOf(p)
  BY <1>1 DEF ToldOf
<1> QED
  BY <1>2, <1>3, <1>4, <1>5, <1>6 DEF StateInv

\* The file's fields have their types.
LEMMA FileFacts ==
  ASSUME StateInv, NEW k \in Keys
  PROVE  /\ file.id \in 0..MaxWrites /\ file.id \in Nat
         /\ file.entries \in [Keys -> Entry \cup {Absent}]
         /\ file.versions \in [Keys -> 0..MaxWrites]
         /\ file.tombstones \in Seq(Keys) /\ Distinct(file.tombstones)
         /\ Len(file.tombstones) \in Nat /\ Len(file.tombstones) <= MaxTombstones
         /\ file.entries[k] # Absent =>
              /\ file.entries[k].version \in 1..MaxWrites
              /\ file.entries[k].value \in 1..MaxWrites
         /\ ActualVersion(file, k) \in 0..MaxWrites
         /\ ActualVersion(file, k) <= file.id
<1>1. /\ file.id \in 0..MaxWrites
      /\ file.entries \in [Keys -> Entry \cup {Absent}]
      /\ file.versions \in [Keys -> 0..MaxWrites]
      /\ file.tombstones \in Seq(Keys)
  BY DEF StateInv, TypeOK, File
<1>2. file.entries[k] # Absent =>
              /\ file.entries[k].version \in 1..MaxWrites
              /\ file.entries[k].value \in 1..MaxWrites
  <2>1. file.entries[k] # Absent => file.entries[k] \in Entry
    BY <1>1
  <2> QED
    BY <2>1 DEF Entry
<1>3. Distinct(file.tombstones) /\ Len(file.tombstones) <= MaxTombstones
  BY DEF StateInv, Order, TombstonesKeepVersions
<1>4. ActualVersion(file, k) <= file.id
  BY DEF StateInv, VersionsBounded
<1>5. ActualVersion(file, k) \in 0..MaxWrites
  BY <1>1, <1>2, BoundAssumption DEF ActualVersion
<1>6. Len(file.tombstones) \in Nat
  BY <1>1, LenProperties
<1> QED
  BY <1>1, <1>2, <1>3, <1>4, <1>5, <1>6, BoundAssumption

\* What put leaves behind.
PutLeaves(k) ==
  LET v == ActualVersion(file, k) + 1
      e == [version |-> v, value |-> file.id + 1]
  IN  /\ file.id + 1 \in 1..MaxWrites /\ v \in 1..MaxWrites /\ v <= file.id + 1
      /\ file' \in File /\ file'.id = file.id + 1
      /\ file'.entries = [file.entries EXCEPT ![k] = e]
      /\ file'.versions = [file.versions EXCEPT ![k] = v]
      /\ Distinct(file'.tombstones) /\ Len(file'.tombstones) <= MaxTombstones
      /\ Members(file'.tombstones) = Members(file.tombstones) \ {k}
      /\ history' = history \cup {Record(k, e)}
      /\ forgotten' = forgotten

LEMMA PutShape ==
  ASSUME StateInv, NEW p \in Procs, NEW k \in Keys, Put(p, k) PROVE PutLeaves(k)
<1> DEFINE v == ActualVersion(file, k) + 1
           e == [version |-> v, value |-> file.id + 1]
           order == Without(file.tombstones, k)
           entries == [file.entries EXCEPT ![k] = e]
           versions == [file.versions EXCEPT ![k] = v]
<1>1. /\ file' = Compacted(entries, versions, order)
      /\ history' = history \cup {Record(k, e)}
      /\ file.id < MaxWrites /\ forgotten' = forgotten
  BY DEF Put, Base, Record
<1>2. file.id + 1 \in 1..MaxWrites /\ v \in 1..MaxWrites /\ v <= file.id + 1
  BY <1>1, FileFacts, BoundAssumption
<1>3. /\ order \in Seq(Keys) /\ Distinct(order) /\ Len(order) <= MaxTombstones
      /\ Members(order) = Members(file.tombstones) \ {k}
  <2>1. /\ file.tombstones \in Seq(Keys) /\ Distinct(file.tombstones)
        /\ Len(file.tombstones) \in Nat /\ Len(file.tombstones) <= MaxTombstones
    BY FileFacts
  <2>2. order \in Seq(Keys) /\ Len(order) <= Len(file.tombstones)
    BY <2>1, WithoutFacts
  <2>3. Len(order) \in Nat
    BY <2>2, LenProperties
  <2> QED
    BY <2>1, <2>2, <2>3, WithoutFacts, BoundAssumption
<1>4. /\ Newest(order) \in Seq(Keys) /\ Distinct(Newest(order))
      /\ Len(Newest(order)) <= MaxTombstones
      /\ Members(Newest(order)) = Members(order) /\ Evicted(order) = {}
  BY <1>3, NewestFacts
<1>5. e \in Entry
  BY <1>2 DEF Entry
<1>6. entries \in [Keys -> Entry \cup {Absent}] /\ versions \in [Keys -> 0..MaxWrites]
  BY <1>2, <1>5, FileFacts, BoundAssumption
<1>7. [j \in Keys |-> IF j \in Evicted(order) THEN 0 ELSE versions[j]] = versions
  BY <1>4, <1>6
<1> HIDE DEF v, e, order, entries, versions
<1>8. file' = [id |-> file.id + 1, entries |-> entries, versions |-> versions,
               tombstones |-> Newest(order)]
  BY <1>1, <1>7 DEF Compacted
<1>9. file' \in File
  BY <1>2, <1>4, <1>6, <1>8, BoundAssumption DEF File
<1>10. /\ file'.id = file.id + 1 /\ file'.entries = entries /\ file'.versions = versions
       /\ file'.tombstones = Newest(order)
  BY <1>8
<1>11. /\ Distinct(file'.tombstones) /\ Len(file'.tombstones) <= MaxTombstones
       /\ Members(file'.tombstones) = Members(file.tombstones) \ {k}
  BY <1>3, <1>4, <1>10
<1> QED
  BY <1>1, <1>2, <1>9, <1>10, <1>11 DEF PutLeaves, v, e, entries, versions

\* What delete leaves behind, with the keys it forgets.
DeleteLeaves(k, F) ==
  /\ file.id + 1 \in 1..MaxWrites
  /\ file.entries[k] # Absent
  /\ file' \in File /\ file'.id = file.id + 1
  /\ file'.entries = [file.entries EXCEPT ![k] = Absent]
  /\ file'.versions = [j \in Keys |-> IF j \in F THEN 0
                                      ELSE IF j = k THEN file.entries[k].version
                                      ELSE file.versions[j]]
  /\ Distinct(file'.tombstones) /\ Len(file'.tombstones) <= MaxTombstones
  /\ Members(file'.tombstones) = (Members(file.tombstones) \cup {k}) \ F
  /\ F \subseteq Members(file.tombstones) \cup {k}
  /\ history' = history
  /\ forgotten' = forgotten \cup F

LEMMA DeleteShape ==
  ASSUME StateInv, NEW p \in Procs, NEW k \in Keys, Delete(p, k)
  PROVE  \E F \in SUBSET Keys : DeleteLeaves(k, F)
<1> DEFINE rest == Without(file.tombstones, k)
           order == Append(rest, k)
           entries == [file.entries EXCEPT ![k] = Absent]
           versions == [file.versions EXCEPT ![k] = file.entries[k].version]
<1>1. /\ file' = Compacted(entries, versions, order)
      /\ forgotten' = forgotten \cup Evicted(order)
      /\ file.id < MaxWrites /\ history' = history /\ file.entries[k] # Absent
  BY DEF Delete, Base
<1>2. file.id + 1 \in 1..MaxWrites
  BY <1>1, FileFacts, BoundAssumption
<1>3. /\ rest \in Seq(Keys) /\ Distinct(rest) /\ k \notin Members(rest)
      /\ Members(rest) = Members(file.tombstones) \ {k}
  BY FileFacts, WithoutFacts
<1>4. order \in Seq(Keys) /\ Distinct(order)
      /\ Members(order) = Members(file.tombstones) \cup {k}
  <2> HIDE DEF rest
  <2>1. /\ order \in Seq(Keys) /\ Len(order) = Len(rest) + 1 /\ Len(rest) \in Nat
        /\ \A i \in 1..Len(rest) : order[i] = rest[i]
        /\ order[Len(rest) + 1] = k
    BY <1>3, AppendProperties, LenProperties
  <2> HIDE DEF order
  <2>2. Distinct(order)
    BY <1>3, <2>1 DEF Distinct, Members
  <2>3. Members(order) = Members(rest) \cup {k}
    BY <2>1 DEF Members
  <2> QED
    BY <1>3, <2>1, <2>2, <2>3
<1>5. /\ Newest(order) \in Seq(Keys) /\ Distinct(Newest(order))
      /\ Len(Newest(order)) <= MaxTombstones
      /\ Members(Newest(order)) = Members(order) \ Evicted(order)
      /\ Evicted(order) \subseteq Members(order)
  <2> HIDE DEF order
  <2> QED
    BY <1>4, NewestFacts
<1>6. Members(order) \subseteq Keys
  <2> HIDE DEF order
  <2> QED
    BY <1>4, ElementOfSeq, LenProperties DEF Members
<1>7. entries \in [Keys -> Entry \cup {Absent}] /\ versions \in [Keys -> 0..MaxWrites]
  BY <1>1, FileFacts, BoundAssumption
<1> DEFINE F == Evicted(order)
           kept == [j \in Keys |-> IF j \in F THEN 0 ELSE versions[j]]
<1>8. kept \in [Keys -> 0..MaxWrites]
  BY <1>7, BoundAssumption
<1>9. kept = [j \in Keys |-> IF j \in F THEN 0
                             ELSE IF j = k THEN file.entries[k].version
                             ELSE file.versions[j]]
  BY FileFacts
<1> HIDE DEF rest, order, entries, versions, F, kept
<1>10. file' = [id |-> file.id + 1, entries |-> entries, versions |-> kept,
                tombstones |-> Newest(order)]
  BY <1>1 DEF Compacted, kept, F
<1>11. file' \in File
  BY <1>2, <1>5, <1>7, <1>8, <1>10, BoundAssumption DEF File
<1>12. F \subseteq Keys /\ F \subseteq Members(file.tombstones) \cup {k}
  BY <1>4, <1>5, <1>6 DEF F
<1>13. /\ file'.id = file.id + 1 /\ file'.entries = entries /\ file'.versions = kept
       /\ file'.tombstones = Newest(order)
  BY <1>10
<1>14. /\ Distinct(file'.tombstones) /\ Len(file'.tombstones) <= MaxTombstones
       /\ Members(file'.tombstones) = (Members(file.tombstones) \cup {k}) \ F
  BY <1>4, <1>5, <1>13 DEF F
<1>15. file'.entries = [file.entries EXCEPT ![k] = Absent] /\ forgotten' = forgotten \cup F
  BY <1>1, <1>13 DEF entries, F
<1>16. DeleteLeaves(k, F)
  BY <1>1, <1>2, <1>9, <1>11, <1>12, <1>13, <1>14, <1>15 DEF DeleteLeaves
<1> QED
  BY <1>12, <1>16

-----------------------------------------------------------------------------
(* Every step preserves the invariant *)

\* The versions after a write, and the order of the tombstones.
LEMMA PutKeepsFile ==
  ASSUME StateInv, NEW k \in Keys, PutLeaves(k)
  PROVE  /\ Order' /\ VersionsBounded' /\ FileKnown(file)'
         /\ ActualVersion(file', k) = ActualVersion(file, k) + 1
         /\ \A j \in Keys : j # k => ActualVersion(file', j) = ActualVersion(file, j)
<1> DEFINE v == ActualVersion(file, k) + 1
           e == [version |-> v, value |-> file.id + 1]
<1>1. /\ v \in 1..MaxWrites /\ v <= file.id + 1 /\ file.id \in Nat /\ file'.id = file.id + 1
      /\ file'.entries[k] = e /\ file'.versions[k] = v
      /\ \A j \in Keys : j # k => /\ file'.entries[j] = file.entries[j]
                                  /\ file'.versions[j] = file.versions[j]
  BY FileFacts DEF PutLeaves
<1>2. e # Absent
  <2>1. e \in Entry
    BY <1>1 DEF PutLeaves, Entry
  <2> QED
    BY <2>1, AbsentAssumption, BoundAssumption DEF Entry
<1>3. ActualVersion(file', k) = v
  BY <1>1, <1>2 DEF ActualVersion
<1>4. \A j \in Keys : j # k => ActualVersion(file', j) = ActualVersion(file, j)
  BY <1>1 DEF ActualVersion
<1>5. VersionsBounded'
  <2> SUFFICES ASSUME NEW j \in Keys PROVE ActualVersion(file', j) <= file'.id
    BY DEF VersionsBounded
  <2>1. ActualVersion(file, j) <= file.id /\ ActualVersion(file, j) \in 0..MaxWrites
    BY FileFacts
  <2> QED
    BY <1>1, <1>3, <1>4, <2>1, BoundAssumption
<1>6. FileKnown(file)'
  BY <1>1 DEF FileKnown, StateInv, Known, PutLeaves
<1>7. Order'
  <2>1. \A j \in Keys : IF file'.entries[j] # Absent
                        THEN file'.versions[j] = file'.entries[j].version /\ j \notin Members(file'.tombstones)
                        ELSE file'.versions[j] # 0 <=> j \in Members(file'.tombstones)
    <3> SUFFICES ASSUME NEW j \in Keys
                 PROVE  IF file'.entries[j] # Absent
                        THEN file'.versions[j] = file'.entries[j].version /\ j \notin Members(file'.tombstones)
                        ELSE file'.versions[j] # 0 <=> j \in Members(file'.tombstones)
      OBVIOUS
    <3>1. CASE j = k
      BY <1>1, <1>2, <3>1 DEF PutLeaves
    <3>2. CASE j # k
      <4>1. j \in Members(file'.tombstones) <=> j \in Members(file.tombstones)
        BY <3>2 DEF PutLeaves
      <4> QED
        BY <1>1, <3>2, <4>1 DEF StateInv, Order, TombstonesKeepVersions
    <3> QED
      BY <3>1, <3>2
  <2>2. Distinct(file'.tombstones) /\ Len(file'.tombstones) <= MaxTombstones
    BY DEF PutLeaves
  <2> QED
    BY <2>1, <2>2 DEF Order, TombstonesKeepVersions, Distinct
<1> QED
  BY <1>3, <1>4, <1>5, <1>6, <1>7

LEMMA DeleteKeepsFile ==
  ASSUME StateInv, NEW k \in Keys, NEW F \in SUBSET Keys, DeleteLeaves(k, F)
  PROVE  /\ Order' /\ VersionsBounded' /\ FileKnown(file)'
         /\ \A j \in Keys \ F : ActualVersion(file', j) = ActualVersion(file, j)
         /\ \A j \in F : ActualVersion(file', j) = 0 /\ file'.entries[j] = Absent
<1>1. /\ file.entries[k] # Absent /\ file'.entries[k] = Absent /\ file.id \in Nat
      /\ file'.id = file.id + 1
      /\ \A j \in Keys : j # k => file'.entries[j] = file.entries[j]
      /\ \A j \in F : file'.versions[j] = 0
      /\ k \notin F => file'.versions[k] = file.entries[k].version
      /\ \A j \in Keys \ F : j # k => file'.versions[j] = file.versions[j]
      /\ file.entries[k].version \in 1..MaxWrites
  BY FileFacts DEF DeleteLeaves
<1>2. \A j \in Keys : IF file.entries[j] # Absent
                      THEN file.versions[j] = file.entries[j].version /\ j \notin Members(file.tombstones)
                      ELSE file.versions[j] # 0 <=> j \in Members(file.tombstones)
  BY DEF StateInv, Order, TombstonesKeepVersions
<1>3. /\ F \subseteq Members(file.tombstones) \cup {k}
      /\ Members(file'.tombstones) = (Members(file.tombstones) \cup {k}) \ F
  BY DEF DeleteLeaves
\* A live key is not among the tombstones, by its own account of them.
<1>4. \A j \in F : file'.entries[j] = Absent
  BY <1>1, <1>2, <1>3
<1>5. \A j \in F : ActualVersion(file', j) = 0
  BY <1>1, <1>4 DEF ActualVersion
<1>6. \A j \in Keys \ F : ActualVersion(file', j) = ActualVersion(file, j)
  BY <1>1 DEF ActualVersion
<1>7. VersionsBounded'
  <2> SUFFICES ASSUME NEW j \in Keys PROVE ActualVersion(file', j) <= file'.id
    BY DEF VersionsBounded
  <2>1. ActualVersion(file, j) <= file.id /\ ActualVersion(file, j) \in 0..MaxWrites
    BY FileFacts
  <2> QED
    BY <1>1, <1>5, <1>6, <2>1, BoundAssumption
<1>8. FileKnown(file)'
  BY <1>1 DEF FileKnown, StateInv, Known, DeleteLeaves
<1>9. Order'
  <2>1. ASSUME NEW j \in Keys
        PROVE  IF file'.entries[j] # Absent
               THEN file'.versions[j] = file'.entries[j].version /\ j \notin Members(file'.tombstones)
               ELSE file'.versions[j] # 0 <=> j \in Members(file'.tombstones)
    <3>1. CASE j \in F
      BY <1>1, <1>3, <1>4, <3>1
    <3>2. CASE j = k /\ j \notin F
      BY <1>1, <1>3, <3>2
    <3>3. CASE j # k /\ j \notin F
      BY <1>1, <1>2, <1>3, <3>3
    <3> QED
      BY <3>1, <3>2, <3>3
  <2>2. Distinct(file'.tombstones) /\ Len(file'.tombstones) <= MaxTombstones
    BY DEF DeleteLeaves
  <2> QED
    BY <2>1, <2>2 DEF Order, TombstonesKeepVersions, Distinct
<1> QED
  BY <1>4, <1>5, <1>6, <1>7, <1>8, <1>9

\* What a write leaves each process with.
LEMMA WritesPreserve ==
  ASSUME StateInv, NEW p \in Procs, NEW k \in Keys,
         \/ Put(p, k) /\ PutLeaves(k)
         \/ Delete(p, k) /\ \E F \in SUBSET Keys : DeleteLeaves(k, F)
  PROVE  StateInv'
<1>1. /\ Order' /\ VersionsBounded' /\ FileKnown(file)'
      /\ file' \in File /\ file'.id = file.id + 1 /\ file'.id \in 1..MaxWrites
      /\ file.id \in Nat
  <2>1. file.id \in Nat
    BY FileFacts
  <2>2. CASE PutLeaves(k)
    BY <2>1, <2>2, PutKeepsFile DEF PutLeaves
  <2>3. ASSUME NEW F \in SUBSET Keys, DeleteLeaves(k, F)
        PROVE  /\ Order' /\ VersionsBounded' /\ FileKnown(file)'
               /\ file' \in File /\ file'.id = file.id + 1 /\ file'.id \in 1..MaxWrites
    BY <2>1, <2>3, DeleteKeepsFile DEF DeleteLeaves
  <2> QED
    BY <2>1, <2>2, <2>3
<1>2. /\ cache' = [cache EXCEPT ![p] = [id |-> file'.id, file |-> file']]
      /\ held' = [held EXCEPT ![p] = [key |-> k, entry |-> file'.entries[k]]]
      /\ told' = [told EXCEPT ![p] = file'.id]
      /\ at[p] = "stat" /\ at' = at /\ read' = read
  BY DEF Put, Delete, Wrote
<1>3. /\ history \subseteq history' /\ history' \subseteq Written
      /\ forgotten \subseteq forgotten' /\ forgotten' \subseteq Keys
  <2>1. CASE PutLeaves(k)
    <3>1. Record(k, [version |-> ActualVersion(file, k) + 1, value |-> file.id + 1]) \in Written
      BY <2>1 DEF PutLeaves, Record, Written
    <3> QED
      BY <2>1, <3>1 DEF PutLeaves, StateInv, TypeOK
  <2>2. ASSUME NEW F \in SUBSET Keys, DeleteLeaves(k, F)
        PROVE  /\ history' = history
               /\ forgotten \subseteq forgotten' /\ forgotten' \subseteq Keys
    BY <2>2 DEF DeleteLeaves, StateInv, TypeOK
  <2> QED
    BY <2>1, <2>2 DEF StateInv, TypeOK
<1>4. TypeOK'
  <2>1. file'.entries[k] \in Entry \cup {Absent}
    BY <1>1 DEF File
  <2>2. held' \in [Procs -> {Nothing} \cup [key : Keys, entry : Entry \cup {Absent}]]
    BY <1>2, <2>1 DEF StateInv, TypeOK
  <2>3. cache' \in [Procs -> {Nothing} \cup [id : 1..MaxWrites, file : File]]
    BY <1>1, <1>2 DEF StateInv, TypeOK
  <2>4. told' \in [Procs -> 0..MaxWrites]
    BY <1>1, <1>2 DEF StateInv, TypeOK
  <2> QED
    BY <1>1, <1>2, <1>3, <2>2, <2>3, <2>4 DEF StateInv, TypeOK
<1>5. Known'
  <2>1. ASSUME NEW w \in history' PROVE w.key \in forgotten' \/ w.version <= ActualVersion(file', w.key)
    <3>1. w \in Written
      BY <1>3
    <3>2. w.key \in Keys /\ w.version \in Nat
      BY <3>1 DEF Written
    <3>3. ActualVersion(file, w.key) \in Nat /\ ActualVersion(file, k) \in Nat
      BY <3>2, FileFacts, BoundAssumption
    <3>4. w \in history => w.key \in forgotten \/ w.version <= ActualVersion(file, w.key)
      BY DEF StateInv, Known
    <3>5. CASE PutLeaves(k)
      <4>1. /\ ActualVersion(file', k) = ActualVersion(file, k) + 1
            /\ w.key # k => ActualVersion(file', w.key) = ActualVersion(file, w.key)
        BY <3>2, <3>5, PutKeepsFile
      <4>2. w \in history \/ (w.key = k /\ w.version = ActualVersion(file, k) + 1)
        BY <3>5 DEF PutLeaves, Record
      <4> QED
        BY <3>2, <3>3, <3>4, <4>1, <4>2, <1>3
    <3>6. ASSUME NEW F \in SUBSET Keys, DeleteLeaves(k, F)
          PROVE  w.key \in forgotten' \/ w.version <= ActualVersion(file', w.key)
      <4>1. w.key \notin F => ActualVersion(file', w.key) = ActualVersion(file, w.key)
        BY <3>2, <3>6, DeleteKeepsFile
      <4>2. w \in history /\ forgotten' = forgotten \cup F
        BY <3>6 DEF DeleteLeaves
      <4> QED
        BY <3>4, <4>1, <4>2
    <3> QED
      BY <3>5, <3>6
  <2>2. VersionNamesOneValue'
    <3> SUFFICES ASSUME NEW w \in history', NEW x \in history',
                        w.key = x.key, w.version = x.version, w.key \notin forgotten'
                 PROVE  w.value = x.value
      BY DEF VersionNamesOneValue
    <3>1. \A a, b \in history : a.key = b.key /\ a.version = b.version
                                => a.value = b.value \/ a.key \in forgotten
      BY DEF StateInv, Known, VersionNamesOneValue
    <3>2. \A a \in history : /\ a.key \in forgotten \/ a.version <= ActualVersion(file, a.key)
                             /\ a.version \in Nat
      BY DEF StateInv, Known, TypeOK, Written
    <3>3. ActualVersion(file, k) \in Nat
      BY FileFacts, BoundAssumption
    <3>4. CASE PutLeaves(k)
      <4> DEFINE n == Record(k, [version |-> ActualVersion(file, k) + 1, value |-> file.id + 1])
      <4>1. history' = history \cup {n} /\ forgotten' = forgotten
        BY <3>4 DEF PutLeaves
      <4>2. n.key = k /\ n.version = ActualVersion(file, k) + 1
        BY DEF Record
      <4> HIDE DEF n
      <4>3. \A a \in history : a.key = k /\ k \notin forgotten => a.version # n.version
        BY <3>2, <3>3, <4>2
      <4> QED
        BY <3>1, <4>1, <4>2, <4>3
    <3>5. ASSUME NEW F \in SUBSET Keys, DeleteLeaves(k, F) PROVE w.value = x.value
      <4>1. history' = history /\ forgotten' = forgotten \cup F
        BY <3>5 DEF DeleteLeaves
      <4> QED
        BY <3>1, <4>1
    <3> QED
      BY <3>4, <3>5
  <2>3. ASSUME NEW q \in Procs
        PROVE  /\ held'[q] # Nothing /\ held'[q].entry # Absent =>
                    Record(held'[q].key, held'[q].entry) \in history'
               /\ cache'[q] # Nothing => FileKnown(cache[q].file)'
               /\ at'[q] = "cache" => FileKnown(read[q])'
    <3>1. /\ held[q] # Nothing /\ held[q].entry # Absent =>
               Record(held[q].key, held[q].entry) \in history'
          /\ cache[q] # Nothing => FileKnown(cache[q].file)
          /\ at[q] = "cache" => FileKnown(read[q])
      BY <1>3 DEF StateInv, Known
    <3>2. CASE q # p
      <4>1. held'[q] = held[q] /\ cache'[q] = cache[q] /\ at'[q] = at[q] /\ read'[q] = read[q]
        BY <1>2, <3>2 DEF StateInv, TypeOK
      <4> QED
        BY <1>3, <3>1, <4>1 DEF FileKnown
    <3>3. CASE q = p
      <4>1. /\ held'[q].key = k /\ held'[q].entry = file'.entries[k]
            /\ cache'[q].file = file' /\ at'[q] # "cache"
        BY <1>2, <3>3 DEF StateInv, TypeOK
      <4> QED
        BY <1>1, <4>1 DEF FileKnown
    <3> QED
      BY <3>2, <3>3
  <2> QED
    BY <1>1, <2>1, <2>2, <2>3 DEF Known
<1>6. ASSUME NEW q \in Procs PROVE ToldOf(q)'
  <2>1. ToldOf(q) /\ told[q] \in Nat
    BY DEF StateInv, TypeOK
  <2>2. CASE q # p
    <3>1. /\ cache'[q] = cache[q] /\ at'[q] = at[q] /\ read'[q] = read[q]
          /\ told'[q] = told[q]
      BY <1>2, <2>2 DEF StateInv, TypeOK
    <3>2. cache[q] # Nothing => cache[q].file.id \in Nat
      BY DEF StateInv, TypeOK, File
    <3>3. at[q] = "cache" => read[q].id \in Nat
      BY <2>1 DEF ToldOf, File
    <3> QED
      BY <1>1, <2>1, <3>1, <3>2, <3>3 DEF ToldOf
  <2>3. CASE q = p
    <3>1. cache'[q].file = file' /\ told'[q] = file'.id /\ at'[q] = "stat"
      BY <1>2, <2>3 DEF StateInv, TypeOK
    <3> QED
      BY <1>1, <3>1 DEF ToldOf
  <2> QED
    BY <2>2, <2>3
<1> QED
  BY <1>1, <1>4, <1>5, <1>6 DEF StateInv

\* The part of one process in the invariant.
ProcInv(p) ==
  /\ cache[p] \in {Nothing} \cup [id : 1..MaxWrites, file : File]
  /\ at[p] \in {"stat", "read", "cache"}
  /\ read[p] \in {Nothing} \cup File
  /\ held[p] \in {Nothing} \cup [key : Keys, entry : Entry \cup {Absent}]
  /\ told[p] \in 0..MaxWrites
  /\ held[p] # Nothing /\ held[p].entry # Absent =>
       Record(held[p].key, held[p].entry) \in history
  /\ cache[p] # Nothing => FileKnown(cache[p].file)
  /\ at[p] = "cache" => FileKnown(read[p])
  /\ ToldOf(p)

\* A step that reads changes the part of its process only.
LEMMA OneProcess ==
  ASSUME StateInv, NEW p \in Procs, UNCHANGED <<file, history, forgotten>>, ProcInv(p)',
         NEW c, cache' = [cache EXCEPT ![p] = c], NEW a, at' = [at EXCEPT ![p] = a],
         NEW r, read' = [read EXCEPT ![p] = r], NEW h, held' = [held EXCEPT ![p] = h],
         NEW t, told' = [told EXCEPT ![p] = t]
  PROVE  StateInv'
<1>1. ASSUME NEW q \in Procs PROVE ProcInv(q)'
  <2>1. CASE q = p
    BY <2>1
  <2>2. CASE q # p
    <3>1. /\ cache'[q] = cache[q] /\ at'[q] = at[q] /\ read'[q] = read[q]
          /\ held'[q] = held[q] /\ told'[q] = told[q]
      BY <2>2 DEF StateInv, TypeOK
    <3>2. ProcInv(q)
      BY DEF StateInv, TypeOK, Known, ProcInv
    <3> QED
      BY <3>1, <3>2 DEF ProcInv, ToldOf, FileKnown
  <2> QED
    BY <2>1, <2>2
<1>2. /\ cache' = [q \in Procs |-> cache'[q]] /\ at' = [q \in Procs |-> at'[q]]
      /\ read' = [q \in Procs |-> read'[q]] /\ held' = [q \in Procs |-> held'[q]]
      /\ told' = [q \in Procs |-> told'[q]]
  BY DEF StateInv, TypeOK
<1>3. TypeOK'
  <2>1. /\ cache' \in [Procs -> {Nothing} \cup [id : 1..MaxWrites, file : File]]
        /\ at' \in [Procs -> {"stat", "read", "cache"}]
    BY <1>1, <1>2 DEF ProcInv
  <2>2. /\ read' \in [Procs -> {Nothing} \cup File]
        /\ told' \in [Procs -> 0..MaxWrites]
    BY <1>1, <1>2 DEF ProcInv
  <2>3. held' \in [Procs -> {Nothing} \cup [key : Keys, entry : Entry \cup {Absent}]]
    BY <1>1, <1>2 DEF ProcInv
  <2> QED
    BY <2>1, <2>2, <2>3 DEF StateInv, TypeOK
<1>4. Order' /\ VersionsBounded' /\ FileKnown(file)' /\ VersionNamesOneValue'
  BY DEF StateInv, Known, Order, TombstonesKeepVersions, VersionsBounded,
         ActualVersion, FileKnown, VersionNamesOneValue
<1>5. Known'
  BY <1>1, <1>4 DEF StateInv, Known, ProcInv, ActualVersion
<1> QED
  BY <1>1, <1>3, <1>4, <1>5 DEF StateInv, ProcInv

\* Holding an entry of a known file is holding a known entry.
LEMMA HoldFacts ==
  ASSUME StateInv, NEW p \in Procs, NEW k \in Keys, NEW f \in File,
         FileKnown(f), f.id <= file.id, Hold(p, k, f)
  PROVE  /\ held'[p] \in [key : Keys, entry : Entry \cup {Absent}]
         /\ held'[p].entry # Absent => Record(held'[p].key, held'[p].entry) \in history
         /\ told'[p] = f.id /\ f.id \in 0..MaxWrites /\ f.id \in Nat
<1>1. held'[p] = [key |-> k, entry |-> f.entries[k]] /\ told'[p] = f.id
  BY DEF Hold, StateInv, TypeOK
<1>2. f.entries[k] \in Entry \cup {Absent} /\ f.id \in 0..MaxWrites
  BY DEF File
<1> QED
  BY <1>1, <1>2, BoundAssumption DEF FileKnown

\* The steps of get, and a delete of nothing.
LEMMA LooksPreserve ==
  ASSUME StateInv, NEW p \in Procs, NEW k \in Keys,
         \/ GetCached(p, k) \/ GetMisses(p) \/ ReadFile(p) \/ CacheFile(p, k)
         \/ DeleteNothing(p, k)
  PROVE  StateInv'
<1>1. UNCHANGED <<file, history, forgotten>>
  BY DEF GetCached, GetMisses, ReadFile, CacheFile, DeleteNothing
<1>2. /\ file \in File /\ FileKnown(file) /\ NoFile \in File /\ FileKnown(NoFile)
      /\ file.id \in 0..MaxWrites /\ file.id \in Nat /\ NoFile.id = 0
  BY NoFileIsFile, FileFacts DEF StateInv, Known, TypeOK, FileKnown, NoFile
<1>3. ProcInv(p)
  BY DEF StateInv, TypeOK, Known, ProcInv
<1>4. /\ cache[p] # Nothing => cache[p].file \in File /\ cache[p].file.id \in Nat
      /\ told[p] \in Nat /\ (at[p] = "cache" => read[p].id \in Nat)
  BY <1>3 DEF ProcInv, ToldOf, File
<1>5. \A f : FileKnown(f)' <=> FileKnown(f)
  BY <1>1 DEF FileKnown
<1>6. /\ cache = [cache EXCEPT ![p] = cache[p]] /\ at = [at EXCEPT ![p] = at[p]]
      /\ read = [read EXCEPT ![p] = read[p]] /\ held = [held EXCEPT ![p] = held[p]]
      /\ told = [told EXCEPT ![p] = told[p]]
  BY DEF StateInv, TypeOK
<1>7. CASE GetCached(p, k)
  <2> DEFINE f == IF file.id = 0 THEN NoFile ELSE cache[p].file
  <2>1. /\ cache' = cache /\ at' = at /\ read' = read /\ at[p] = "stat" /\ Hold(p, k, f)
        /\ file.id = 0 \/ cache[p] # Nothing
    BY <1>7 DEF GetCached, Fresh
  <2>2. f \in File /\ FileKnown(f) /\ f.id <= file.id
    BY <1>2, <1>3, <1>4, <2>1 DEF ToldOf, ProcInv
  <2>3. cache[p] # Nothing => f.id <= cache[p].file.id /\ cache[p].file.id <= file.id
    BY <1>2, <1>3, <1>4, <2>1 DEF ToldOf, ProcInv
  <2>4. /\ held' = [held EXCEPT ![p] = [key |-> k, entry |-> f.entries[k]]]
        /\ told' = [told EXCEPT ![p] = f.id]
    BY <2>1 DEF Hold
  <2> HIDE DEF f
  <2>5. ProcInv(p)'
    BY <1>1, <1>2, <1>3, <1>5, <2>1, <2>2, <2>3, HoldFacts DEF ToldOf, ProcInv
  <2> QED
    BY <1>1, <1>6, <2>1, <2>4, <2>5, OneProcess
<1>8. CASE GetMisses(p)
  <2>1. /\ cache' = cache /\ read' = read /\ held' = held /\ told' = told
        /\ at' = [at EXCEPT ![p] = "read"] /\ at'[p] = "read" /\ file.id # 0
    BY <1>8 DEF GetMisses, StateInv, TypeOK
  <2>2. ProcInv(p)'
    BY <1>1, <1>3, <1>5, <2>1 DEF ToldOf, ProcInv
  <2> QED
    BY <1>1, <1>6, <2>1, <2>2, OneProcess
<1>9. CASE ReadFile(p)
  <2>1. /\ cache' = cache /\ held' = held /\ told' = told /\ at[p] = "read"
        /\ at' = [at EXCEPT ![p] = "cache"] /\ at'[p] = "cache"
        /\ read' = [read EXCEPT ![p] = file] /\ read'[p] = file
    BY <1>9 DEF ReadFile, StateInv, TypeOK
  <2>2. ProcInv(p)'
    BY <1>1, <1>2, <1>3, <1>5, <2>1 DEF ToldOf, ProcInv
  <2> QED
    BY <1>1, <1>6, <2>1, <2>2, OneProcess
<1>10. CASE CacheFile(p, k)
  <2>1. /\ Hold(p, k, read[p]) /\ at[p] = "cache"
        /\ cache' = [cache EXCEPT ![p] = [id |-> file.id, file |-> read[p]]]
        /\ cache'[p] = [id |-> file.id, file |-> read[p]]
        /\ at' = [at EXCEPT ![p] = "stat"] /\ at'[p] = "stat"
        /\ read' = [read EXCEPT ![p] = Nothing] /\ read'[p] = Nothing
    BY <1>10 DEF CacheFile, KeptFor, StateInv, TypeOK
  <2>2. /\ held' = [held EXCEPT ![p] = [key |-> k, entry |-> read[p].entries[k]]]
        /\ told' = [told EXCEPT ![p] = read[p].id]
    BY <2>1 DEF Hold
  <2>3. /\ read[p] \in File /\ FileKnown(read[p]) /\ read[p].id <= file.id
        /\ file.id \in 1..MaxWrites
    BY <1>2, <1>3, <2>1 DEF ToldOf, ProcInv
  <2>4. ProcInv(p)'
    BY <1>1, <1>2, <1>3, <1>4, <1>5, <2>1, <2>3, HoldFacts DEF ToldOf, ProcInv
  <2> QED
    BY <1>1, <2>1, <2>2, <2>4, OneProcess
<1>11. CASE DeleteNothing(p, k)
  <2> DEFINE c == IF file.id = 0 THEN Nothing ELSE [id |-> file.id, file |-> file]
  <2>1. /\ at' = at /\ read' = read /\ held' = held /\ told' = told /\ at[p] = "stat"
        /\ cache' = [cache EXCEPT ![p] = c] /\ cache'[p] = c
    BY <1>11 DEF DeleteNothing, StateInv, TypeOK
  <2>2. /\ c \in {Nothing} \cup [id : 1..MaxWrites, file : File]
        /\ c # Nothing => c.file = file
    BY <1>2
  <2> HIDE DEF c
  <2>3. ProcInv(p)'
    BY <1>1, <1>2, <1>3, <1>4, <1>5, <2>1, <2>2 DEF ToldOf, ProcInv
  <2> QED
    BY <1>1, <1>6, <2>1, <2>3, OneProcess
<1> QED
  BY <1>7, <1>8, <1>9, <1>10, <1>11

LEMMA NextStateInv == StateInv /\ [Next]_vars => StateInv'
<1> SUFFICES ASSUME StateInv, [Next]_vars PROVE StateInv'
  OBVIOUS
<1>1. ASSUME NEW p \in Procs, NEW k \in Keys, Put(p, k) PROVE StateInv'
  BY <1>1, PutShape, WritesPreserve
<1>2. ASSUME NEW p \in Procs, NEW k \in Keys, Delete(p, k) PROVE StateInv'
  BY <1>2, DeleteShape, WritesPreserve
<1>3. ASSUME NEW p \in Procs, NEW k \in Keys,
             \/ GetCached(p, k) \/ GetMisses(p) \/ ReadFile(p) \/ CacheFile(p, k)
             \/ DeleteNothing(p, k)
      PROVE  StateInv'
  BY <1>3, LooksPreserve
<1>4. ASSUME NEW p \in Procs, GetMisses(p) \/ ReadFile(p) PROVE StateInv'
  BY <1>3, <1>4, BoundAssumption
<1>5. CASE UNCHANGED vars
  BY <1>5 DEF vars, StateInv, TypeOK, Order, TombstonesKeepVersions, Distinct,
     VersionsBounded, ActualVersion, Known, VersionNamesOneValue, FileKnown, ToldOf
<1> QED
  BY <1>1, <1>2, <1>3, <1>4, <1>5 DEF Next, PutIf, DeleteIf

-----------------------------------------------------------------------------
(* The theorems *)

\* The inductive invariant of the shared state.
THEOREM StateInvariant == Spec => []StateInv
<1> QED
  BY InitStateInv, NextStateInv, PTL DEF Spec

\* The file, the caches and the histories keep their shape.
THEOREM StateTypeCorrect == Spec => []TypeOK
<1>1. StateInv => TypeOK
  BY DEF StateInv
<1> QED
  BY <1>1, StateInvariant, PTL

\* No version of a remembered key is ever issued for two values.
THEOREM StateVersionNamesOneValue == Spec => []VersionNamesOneValue
<1>1. StateInv => VersionNamesOneValue
  BY DEF StateInv, Known
<1> QED
  BY <1>1, StateInvariant, PTL

\* The tombstones are the newest deleted keys, each once, and agree with the
\* versions kept.
THEOREM StateTombstones == Spec => []TombstonesKeepVersions
<1>1. StateInv => TombstonesKeepVersions
  BY DEF StateInv, Order
<1> QED
  BY <1>1, StateInvariant, PTL

\* A conditional write takes effect on the value its caller got.
THEOREM StateCasIsSafe == Spec => CasOverwritesWhatItGot
<1>1. ASSUME StateInv, NEW p \in Procs, NEW k \in Keys, PutIf(p, k) \/ DeleteIf(p, k)
      PROVE  file.entries[k] \in {held[p].entry, Absent} \/ k \in forgotten
  <2> DEFINE e == file.entries[k]
             h == held[p].entry
  <2>1. /\ held[p] # Nothing /\ held[p].key = k
        /\ ActualVersion(file, k) = IF h = Absent THEN 0 ELSE h.version
    BY <1>1 DEF PutIf, DeleteIf, Expects, Base
  <2> SUFFICES ASSUME e # Absent, k \notin forgotten PROVE e = h
    OBVIOUS
  <2>2. e \in Entry /\ ActualVersion(file, k) = e.version /\ e.version \in 1..MaxWrites
    BY FileFacts, <1>1 DEF ActualVersion, Entry
  <2>3. h # Absent /\ h.version = e.version
    BY <2>1, <2>2
  <2>4. h \in Entry
    BY <1>1, <2>1, <2>3 DEF StateInv, TypeOK
  <2>5. Record(k, e) \in history /\ Record(k, h) \in history
    BY <1>1, <2>1, <2>3 DEF StateInv, Known, FileKnown
  <2>6. Record(k, e).value = Record(k, h).value
    <3>1. /\ Record(k, e).key = k /\ Record(k, h).key = k
          /\ Record(k, e).version = Record(k, h).version
      BY <2>3 DEF Record
    <3> QED
      BY <1>1, <2>5, <3>1 DEF StateInv, Known, VersionNamesOneValue
  <2>7. e.value = h.value
    BY <2>6 DEF Record
  <2> HIDE DEF e, h
  <2> QED
    BY <2>2, <2>3, <2>4, <2>7 DEF Entry
<1>2. StateInv => [\A p \in Procs, k \in Keys :
                     PutIf(p, k) \/ DeleteIf(p, k) =>
                       file.entries[k] \in {held[p].entry, Absent} \/ k \in forgotten]_vars
  BY <1>1
<1> QED
  BY <1>2, StateInvariant, PTL DEF CasOverwritesWhatItGot

\* What a process is told never gets older.
THEOREM StateReadsMonotone == Spec => ReadsNeverGoBack
<1>1. ASSUME StateInv, [Next]_vars, NEW q \in Procs PROVE told'[q] >= told[q]
  <2>1. /\ told \in [Procs -> 0..MaxWrites] /\ ToldOf(q) /\ told[q] \in Nat
        /\ file.id \in Nat
        /\ cache[q] # Nothing => cache[q].file.id \in Nat
        /\ at[q] = "cache" => read[q].id \in Nat
    BY <1>1 DEF StateInv, TypeOK, File, ToldOf
  <2>2. ASSUME NEW t, NEW p \in Procs, told' = [told EXCEPT ![p] = t],
               p = q => t \in Nat /\ told[q] <= t
        PROVE  told'[q] >= told[q]
    BY <2>1, <2>2
  <2>3. ASSUME NEW p \in Procs, NEW k \in Keys, Put(p, k) \/ Delete(p, k)
        PROVE  told'[q] >= told[q]
    <3>1. file'.id = file.id + 1
      BY <1>1, <2>3, PutShape, DeleteShape DEF PutLeaves, DeleteLeaves
    <3>2. told' = [told EXCEPT ![p] = file'.id]
      BY <2>3 DEF Put, Delete, Wrote
    <3> QED
      BY <2>1, <2>2, <3>1, <3>2 DEF ToldOf
  <2>4. ASSUME NEW p \in Procs, NEW k \in Keys, GetCached(p, k)
        PROVE  told'[q] >= told[q]
    <3> DEFINE f == IF file.id = 0 THEN NoFile ELSE cache[p].file
    <3>1. told' = [told EXCEPT ![p] = f.id] /\ (file.id = 0 \/ cache[p] # Nothing)
      BY <2>4 DEF GetCached, Hold, Fresh
    <3>2. p = q => f.id \in Nat /\ told[q] <= f.id
      BY <2>1, <3>1 DEF ToldOf, NoFile
    <3> HIDE DEF f
    <3> QED
      BY <2>2, <3>1, <3>2
  <2>5. ASSUME NEW p \in Procs, NEW k \in Keys, CacheFile(p, k)
        PROVE  told'[q] >= told[q]
    <3>1. told' = [told EXCEPT ![p] = read[p].id] /\ at[p] = "cache"
      BY <2>5 DEF CacheFile, Hold
    <3> QED
      BY <2>1, <2>2, <3>1 DEF ToldOf
  <2>6. CASE told' = told
    BY <2>1, <2>6
  <2> QED
    BY <1>1, <2>3, <2>4, <2>5, <2>6
       DEF Next, PutIf, DeleteIf, GetMisses, ReadFile, DeleteNothing, vars
<1>2. StateInv /\ [Next]_vars => [\A p \in Procs : told'[p] >= told[p]]_vars
  BY <1>1
<1> QED
  BY <1>2, StateInvariant, PTL DEF ReadsNeverGoBack, Spec

\* The shared state implements the versioned registers its writers rely on.
THEOREM StateImplementsRegisters == Spec => ImplementsRegisters
<1>1. Init => Registers!Init
  BY DEF Init, NoFile, Registers!Init, Registers!Unwritten, ActualVersion,
         Cells, Register
<1>2. ASSUME StateInv, NEW k \in Keys, PutLeaves(k) PROVE Registers!Next
  <2> DEFINE v == file.id + 1
  <2>1. /\ ActualVersion(file', k) = ActualVersion(file, k) + 1
        /\ \A j \in Keys : j # k => /\ ActualVersion(file', j) = ActualVersion(file, j)
                                    /\ file'.entries[j] = file.entries[j]
    BY <1>2, PutKeepsFile, FileFacts DEF PutLeaves
  <2>2. /\ file'.entries[k] # Absent /\ file'.entries[k].value = v /\ v \in 1..MaxWrites
    <3>1. [version |-> ActualVersion(file, k) + 1, value |-> file.id + 1] \in Entry
      BY <1>2 DEF PutLeaves, Entry
    <3>2. file'.entries[k] = [version |-> ActualVersion(file, k) + 1, value |-> file.id + 1]
      BY <1>2, FileFacts DEF PutLeaves
    <3> QED
      BY <3>1, <3>2, <1>2, AbsentAssumption, BoundAssumption DEF Entry, PutLeaves
  <2>3. Cells' = [Cells EXCEPT ![k] = [version |-> Cells[k].version + 1, value |-> v]]
    <3>1. Register(file', k) = [version |-> Register(file, k).version + 1, value |-> v]
      BY <2>1, <2>2 DEF Register
    <3>2. \A j \in Keys : j # k => Register(file', j) = Register(file, j)
      BY <2>1 DEF Register
    <3> QED
      BY <3>1, <3>2 DEF Cells
  <2>4. Registers!Write(k, v)
    BY <2>3 DEF Registers!Write
  <2> QED
    <3>1. v \in 1..MaxWrites
      BY <2>2
    <3> HIDE DEF v
    <3> QED
      BY <2>4, <3>1 DEF Registers!Next
<1>3. ASSUME StateInv, NEW k \in Keys, NEW F \in SUBSET Keys, DeleteLeaves(k, F)
      PROVE  Registers!Next
  <2>1. /\ file.entries[k] # Absent /\ file'.entries[k] = Absent
        /\ file.entries[k].value \in 1..MaxWrites
        /\ \A j \in Keys : j # k => file'.entries[j] = file.entries[j]
        /\ \A j \in Keys \ F : ActualVersion(file', j) = ActualVersion(file, j)
        /\ \A j \in F : ActualVersion(file', j) = 0 /\ file'.entries[j] = Absent
    BY <1>3, DeleteKeepsFile, FileFacts DEF DeleteLeaves
  <2> DEFINE erased == [Cells EXCEPT ![k].value = Absent]
  <2>2. Cells[k].value # Absent
    BY <2>1, AbsentAssumption, FileFacts DEF Cells, Register
  <2>3. \A j \in F : erased[j].value = Absent
    BY <2>1, <1>3 DEF Cells, Register
  <2>4. Cells' = [j \in Keys |-> IF j \in F THEN Registers!Unwritten ELSE erased[j]]
    <3>1. \A j \in F : Register(file', j) = Registers!Unwritten
      BY <2>1 DEF Register, Registers!Unwritten
    <3>2. k \notin F => Register(file', k) = erased[k]
      BY <2>1 DEF Register, Cells
    <3>3. \A j \in Keys \ F : j # k => Register(file', j) = erased[j]
      BY <2>1 DEF Register, Cells
    <3> HIDE DEF erased
    <3> QED
      BY <3>1, <3>2, <3>3 DEF Cells
  <2>5. Registers!Erase(k, F)
    BY <2>2, <2>3, <2>4 DEF Registers!Erase
  <2> QED
    BY <2>5 DEF Registers!Next
<1>4. ASSUME StateInv, [Next]_vars PROVE [Registers!Next]_Cells
  <2>1. ASSUME NEW p \in Procs, NEW k \in Keys, Put(p, k) PROVE Registers!Next
    BY <1>2, <1>4, <2>1, PutShape
  <2>2. ASSUME NEW p \in Procs, NEW k \in Keys, Delete(p, k) PROVE Registers!Next
    BY <1>3, <1>4, <2>2, DeleteShape
  <2>3. CASE file' = file
    BY <2>3 DEF Cells
  <2> QED
    BY <1>4, <2>1, <2>2, <2>3
       DEF Next, PutIf, DeleteIf, GetCached, GetMisses, ReadFile, CacheFile,
           DeleteNothing, vars
<1> QED
  BY <1>1, <1>4, StateInvariant, PTL DEF Spec, ImplementsRegisters, Registers!Spec
=============================================================================
