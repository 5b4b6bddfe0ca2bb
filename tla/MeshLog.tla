------------------------------- MODULE MeshLog -------------------------------
(***************************************************************************)
(* The append-only event log of the Fabric mesh (src/src/mesh/store.ts):   *)
(* publish under the mesh lock, and the lock-free readers tail and read.   *)
(*                                                                         *)
(* One writer at a time is in publish (MeshLock); it may crash between any *)
(* two file writes.  Byte offsets are counted in lines: the file is the    *)
(* sequence of its complete lines plus what an interrupted append left.    *)
(* Lines of the real file have different lengths, so how many of them a    *)
(* compaction keeps, and whether an offset into a file that has been       *)
(* replaced falls on a line boundary, are open choices.                    *)
(***************************************************************************)
EXTENDS Integers, Sequences, FiniteSets

CONSTANTS
  Requests,    \* what is published: [id, val]; equal ids mean a retry
  NoId,        \* the id of a request without one (a fresh uuid each time)
  Nothing,     \* no event, no generation
  Partial,     \* an unreadable piece of a line
  Tailers,     \* processes that follow the log with tail()
  Readers,     \* processes that follow the log with read({ after })
  MaxSeq,      \* bound: sequence numbers
  MaxLines,    \* maxEventLogBytes
  Page,        \* maxReadEvents: events per page
  MaxRestarts  \* bound: restarts of each consumer

ASSUME BoundAssumption ==
  /\ MaxSeq \in Nat
  /\ MaxLines \in Nat \ {0}
  /\ Page \in Nat \ {0}
  /\ MaxRestarts \in Nat
ASSUME NothingAssumption == Nothing \notin Nat

VARIABLES
  log,         \* complete lines of events.jsonl
  torn,        \* Nothing, Partial, or a whole event without its newline
  counter,     \* the file "sequence"
  generation,  \* the file "generation"
  renames,     \* history: how often compaction has replaced events.jsonl
  writer,      \* the publish in progress: [at, event]
  written,     \* history: every event that was ever a complete line
  results,     \* history: what publish has returned: [id, val, seq]
  cursor,      \* tail: [gen, off] and, unseen by the code, the file it is of
  openGen,     \* tail: the generation read before the file is opened
  last,        \* tail: the consumer's last handled sequence
  got,         \* tail: the events the consumer has handled
  aliased,     \* history: a cursor of an older file was used on a newer one
               \* of the same generation number
  restarts,    \* how often each consumer has restarted
  after,       \* read: the consumer's cursor, the last sequence it saw
  saw          \* read: the events the consumer saw

writeVars == <<log, torn, counter, generation, renames, writer, written, results>>
tailVars == <<cursor, openGen, last, got, aliased, restarts>>
readVars == <<after, saw>>
vars == <<writeVars, tailVars, readVars>>

Event == [seq : 1..MaxSeq, id : {r.id : r \in Requests}, val : {r.val : r \in Requests}]
ASSUME TornAssumption == {Nothing, Partial} \cap Event = {}

Cursor == [gen : Nat, off : Nat, file : Nat]
Idle == [at |-> "idle", event |-> Nothing]
Publishing == [at : {"append", "counter", "compact", "generation"}, event : Event]
Larger(a, b) == IF a > b THEN a ELSE b
Smaller(a, b) == IF a < b THEN a ELSE b
Lines == {log[i] : i \in 1..Len(log)}

Start == [gen |-> 0, off |-> 0, file |-> 0]

Init ==
  /\ log = <<>> /\ torn = Nothing /\ counter = 0 /\ generation = 0
  /\ renames = 0 /\ writer = Idle /\ written = {} /\ results = {}
  /\ cursor = [c \in Tailers |-> Start]
  /\ openGen = [c \in Tailers |-> Nothing]
  /\ last = [c \in Tailers |-> 0]
  /\ got = [c \in Tailers |-> {}]
  /\ aliased = [c \in Tailers |-> FALSE]
  /\ restarts = [c \in Tailers |-> 0]
  /\ after = [r \in Readers |-> 0]
  /\ saw = [r \in Readers |-> {}]

-----------------------------------------------------------------------------
(* publish, under the mesh lock *)

LastSequence == IF log = <<>> THEN 0 ELSE log[Len(log)].seq

\* mutant: the sequence counter alone numbers the next event
CounterSequence == counter + 1

NextSequence == Larger(counter, LastSequence) + 1

\* mutant: a lookup by id that never finds anything
NeverPublished(r) == {}

\* findEventById: the retained events with the id of a request that has one.
Published(r) == IF r.id = NoId THEN {} ELSE {e \in Lines : e.id = r.id}

\* The torn tail is truncated first.  A retained event with the same id is
\* returned, or is a collision when its content differs; otherwise the next
\* event is prepared for the append.
Publish(r) ==
  /\ writer = Idle
  /\ torn' = Nothing
  /\ IF Published(r) # {}
     THEN /\ results' = results \cup {e \in Published(r) : e.val = r.val}
          /\ UNCHANGED writer
     ELSE /\ NextSequence <= MaxSeq
          /\ writer' = [at |-> "append",
                        event |-> [seq |-> NextSequence, id |-> r.id, val |-> r.val]]
          /\ UNCHANGED results
  /\ UNCHANGED <<log, counter, generation, renames, written, tailVars, readVars>>

\* appendFileSync of the line with its newline.
AppendLine ==
  /\ writer.at = "append"
  /\ log' = Append(log, writer.event)
  /\ written' = written \cup {writer.event}
  /\ writer' = [writer EXCEPT !.at = "counter"]
  /\ UNCHANGED <<torn, counter, generation, renames, results, tailVars, readVars>>

\* atomicWrite of the counter; then compaction is due or publish returns.
WriteCounter ==
  /\ writer.at = "counter"
  /\ counter' = writer.event.seq
  /\ IF Len(log) > MaxLines
     THEN /\ writer' = [writer EXCEPT !.at = "compact"]
          /\ UNCHANGED results
     ELSE /\ writer' = Idle
          /\ results' = results \cup {writer.event}
  /\ UNCHANGED <<log, torn, generation, renames, written, tailVars, readVars>>

\* The newest lines that fit replace the file in one rename.  Even the newest
\* line goes when it fills the retained size exactly.
Compact ==
  /\ writer.at = "compact"
  /\ \E dropped \in 1..Len(log) : log' = SubSeq(log, dropped + 1, Len(log))
  /\ renames' = renames + 1
  /\ writer' = [writer EXCEPT !.at = "generation"]
  /\ UNCHANGED <<torn, counter, generation, written, results, tailVars, readVars>>

WriteGeneration ==
  /\ writer.at = "generation"
  /\ generation' = generation + 1
  /\ writer' = Idle
  /\ results' = results \cup {writer.event}
  /\ UNCHANGED <<log, torn, counter, renames, written, tailVars, readVars>>

\* The writer dies.  An append may have reached the disk in part: nothing, an
\* unreadable prefix, or the whole event without its newline.
CrashWriter ==
  /\ writer # Idle
  /\ writer' = Idle
  /\ IF writer.at = "append"
     THEN torn' \in {Nothing, Partial, writer.event}
     ELSE UNCHANGED torn
  /\ UNCHANGED <<log, counter, generation, renames, written, results, tailVars, readVars>>

-----------------------------------------------------------------------------
(* tail(cursor) and the consumer that handles what is newer than it knows  *)

\* mutant: the cursor's generation is not compared
ResumeAnyway(cur, gen, size) == {Smaller(cur.off, size)}

\* mutant: the next cursor is the position reading started from
SameOffset(from, to) == from

\* Only complete lines that were returned are consumed.
NextOffset(from, to) == to

\* Where reading starts.  An offset of another generation starts over.  In a
\* file other than the cursor's the byte before the offset may not be a
\* newline, which starts over too.
Resume(cur, gen, size) ==
  IF cur.gen # gen THEN {0}
  ELSE {Smaller(cur.off, size)} \cup (IF cur.file = renames THEN {} ELSE {0})

\* readGeneration comes before the file is opened.
OpenTail(c) ==
  /\ openGen[c] = Nothing
  /\ openGen' = [openGen EXCEPT ![c] = generation]
  /\ UNCHANGED <<writeVars, cursor, last, got, aliased, restarts, readVars>>

ReadTail(c) ==
  /\ openGen[c] # Nothing
  /\ \E from \in Resume(cursor[c], openGen[c], Len(log)) :
       LET to  == Smaller(from + Page, Len(log))
           new == {log[i] : i \in {j \in (from + 1)..to : log[j].seq > last[c]}}
       IN  /\ cursor' = [cursor EXCEPT ![c] =
                           [gen |-> openGen[c], off |-> NextOffset(from, to), file |-> renames]]
           /\ got' = [got EXCEPT ![c] = @ \cup new]
           /\ last' = [last EXCEPT ![c] = IF new = {} THEN @ ELSE log[to].seq]
           /\ aliased' = [aliased EXCEPT ![c] =
                            \/ @
                            \/ /\ from > 0 /\ cursor[c].gen = openGen[c]
                               /\ cursor[c].file # renames]
  /\ openGen' = [openGen EXCEPT ![c] = Nothing]
  /\ UNCHANGED <<writeVars, restarts, readVars>>

\* The consumer's process restarts and replays the retained log.
RestartTail(c) ==
  /\ restarts[c] < MaxRestarts
  /\ restarts' = [restarts EXCEPT ![c] = @ + 1]
  /\ cursor' = [cursor EXCEPT ![c] = Start]
  /\ openGen' = [openGen EXCEPT ![c] = Nothing]
  /\ last' = [last EXCEPT ![c] = 0]
  /\ got' = [got EXCEPT ![c] = {}]
  /\ aliased' = [aliased EXCEPT ![c] = FALSE]
  /\ UNCHANGED <<writeVars, readVars>>

-----------------------------------------------------------------------------
(* read({ after }): a scan of the file from its start, which takes a last  *)
(* line without a newline for an event when it parses.                     *)

\* mutant: the first matching event is left out of the page
SkipsFirst(seen, n) == {log[i] : i \in {j \in 2..Len(log) : log[j].seq > n}}

Scan(seen, n) ==
  LET whole == IF torn \in Event THEN Append(log, torn) ELSE log
      newer == {i \in 1..Len(whole) : whole[i].seq > n}
      page  == {i \in newer : Cardinality({j \in newer : j <= i}) <= Page}
  IN  seen \cup {whole[i] : i \in page}

Read(r) ==
  /\ saw' = [saw EXCEPT ![r] = Scan(@, after[r])]
  /\ after' = [after EXCEPT ![r] =
       LET new == saw'[r] \ saw[r]
       IN  IF new = {} THEN @
           ELSE (CHOOSE e \in new : \A f \in new : e.seq >= f.seq).seq]
  /\ UNCHANGED <<writeVars, tailVars>>

-----------------------------------------------------------------------------
WriterStep == AppendLine \/ WriteCounter \/ Compact \/ WriteGeneration

Next ==
  \/ \E r \in Requests : Publish(r)
  \/ WriterStep
  \/ CrashWriter
  \/ \E c \in Tailers : OpenTail(c) \/ ReadTail(c) \/ RestartTail(c)
  \/ \E r \in Readers : Read(r)

Spec == Init /\ [][Next]_vars

\* Consumers poll on a timer.  Nothing obliges anybody to publish.
FairSpec == Spec /\ \A c \in Tailers : WF_vars(OpenTail(c)) /\ WF_vars(ReadTail(c))

-----------------------------------------------------------------------------
(* Properties *)

\* The state is of the right shape.
TypeOK ==
  /\ log \in Seq(Event)
  /\ torn \in {Nothing, Partial} \cup Event
  /\ counter \in 0..MaxSeq
  /\ generation \in Nat
  /\ renames \in Nat
  /\ writer \in {Idle} \cup Publishing
  /\ written \subseteq Event
  /\ results \subseteq Event
  /\ cursor \in [Tailers -> Cursor]
  /\ openGen \in [Tailers -> Nat \cup {Nothing}]
  /\ last \in [Tailers -> 0..MaxSeq]
  /\ got \in [Tailers -> SUBSET Event]
  /\ aliased \in [Tailers -> BOOLEAN]
  /\ restarts \in [Tailers -> 0..MaxRestarts]
  /\ after \in [Readers -> 0..MaxSeq]
  /\ saw \in [Readers -> SUBSET Event]

\* Sequence numbers are never reused: whatever crashes and compactions fall
\* between append and counter, two events that were ever whole lines of the
\* log have different numbers, and the log is in increasing order.
SequenceNamesOneEvent ==
  /\ \A e, f \in written : e.seq = f.seq => e = f
  /\ \A i, j \in 1..Len(log) : i < j => log[i].seq < log[j].seq

\* A retry with the same id does not append twice while the first event is
\* retained (publish's idempotence), across crashes of the first attempt.
IdsRetainedOnce ==
  \A i, j \in 1..Len(log) :
    log[i].id # NoId /\ log[i].id = log[j].id => i = j

\* A consumer that follows with tail() has handled every retained event up to
\* the last one it handled, unless a stale cursor was taken for a cursor of
\* the file that replaced its own.
TailMissesNothing ==
  \A c \in Tailers :
    ~aliased[c] => \A i \in 1..Len(log) : log[i].seq <= last[c] => log[i] \in got[c]

\* A consumer that keeps polling gets past every event that stays retained:
\* its cursor cannot get stuck on a compaction, a page limit or a torn line,
\* again unless a stale cursor was taken for one of the new file.
Retained(s) == \E e \in Lines : e.seq = s
TailCatchesUp ==
  \A c \in Tailers, s \in 1..MaxSeq :
    Retained(s) ~> last[c] >= s \/ ~Retained(s) \/ aliased[c]

\* A consumer that follows with read({ after }) has seen an event of every
\* retained sequence number up to its cursor.
ReadSkipsNothing ==
  \A r \in Readers : \A e \in Lines :
    e.seq <= after[r] => \E f \in saw[r] : f.seq = e.seq
=============================================================================
