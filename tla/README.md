# Ultra Fabric: a TLA+ verification project

Ultra Fabric (`src/`) is a TypeScript extension of the Pi coding agent. A model
writes programs (`fabric_exec`) that call tools through one registry; agents in
the same process and in other processes on the same machine coordinate through
a project-local *mesh* directory. This project models the parts of it where
interleavings, crashes, lost time and limits decide correctness, checks them
with TLC on small instances and proves the properties that matter most with
TLAPS for every instance.

## 1. Inventory

Paths are relative to `src/src/`. "Hard" names what a test hardly reaches.

### 1.1 The mesh: files shared by processes

| Component | State | Operations | Hard | Correct when |
|---|---|---|---|---|
| Lock (`mesh/store.ts` `#withLock`, `#clearStaleLock`) | `.lock` directory, `.lock/owner` | acquire, release, recover a stale lock | every file-system call interleaves; crash anywhere; recovery races recovery and new holders | one holder at a time; nothing leaked; every call ends |
| Event log (`publish`, `read`, `tail`, compaction, repair) | `events.jsonl`, `sequence`, `generation`; a cursor per reader | append, read after a sequence, tail from a cursor, compact, repair a torn tail | crash between append, counter and compaction steps; readers take no lock; cursors across compaction | sequences increase and are never reused; a retry with the same id does not append twice; a tail reader misses nothing that is retained |
| Key-value state (`get`, `list`, `put`, `delete`) | `state.json` with entries, versions, bounded tombstones; a cache per process | compare-and-swap put/delete, cached reads | read without the lock races the rename of another process; versions survive deletion only as long as their tombstone | put and delete are a CAS register; a version names one value |
| Participant directory (`topology/participant-directory.ts`) | host lease record and participant records in the key-value state | start, heartbeat, publish, quiesce, close, read | takeover of an expired host, clock skew, close racing a heartbeat | a live participant has one owner; a closed host leaves nothing behind |
| Control plane (`topology/control-plane.ts`) | command and acknowledgement topics, `seen` records | request, drain, claim, accept, re-acknowledge, clean up | owner crash between claim, handler and acceptance; requester timeout; replays from the log; clock skew | a command is executed at most once; a restarted owner re-acknowledges |
| Lifecycle broker (`lifecycle/broker.ts`) | subscription records with a cursor each; lifecycle topic | subscribe, unsubscribe, publish, poll and deliver | crash between delivery and cursor write; owner changes | at-least-once delivery in order; a cursor never passes an event of its owner that was not delivered |
| Path leases (`leases/path-leases.ts`) | one key-value entry holding all leases | acquire, renew, release, force release, assert | optimistic retry on CAS failure; expiry by each process's own clock | no two unexpired leases of different owners overlap |
| Durable workflows (`workflows/durable.ts`) | one entry per workflow: phases with status, attempt, claim | create, claim, complete, fail, cancel, resume, list | claims expire while the worker runs; late completions; optimistic retry | one live claim per phase; a late answer of an old claim changes nothing; completed phases stay |

### 1.2 Agents

| Component | State | Operations | Hard | Correct when |
|---|---|---|---|---|
| Persistent agent manager (`agents/persistent/manager.ts`) | registry file, inbox files, per-agent runtime, ownership | create, tell, ask, drain, stop, pause, remove, ownership handover | single-flight drains, coalesced events, requests in flight at stop or crash, ownership changes | a message is processed once by the owner; no request hangs |
| Persistent budget (`agents/persistent/budget.ts`) | window of usage | reserve, record, block | a reset racing a reservation | never above the limit |
| One-shot manager (`agents/one-shot-manager.ts`) with `budget-ledger.ts` | runs, slots, budget reservations | spawn, run, wait, stop, complete, shutdown | admission against concurrent completions, retries, stop racing exit | concurrency and budget limits hold; every run ends and releases what it reserved |
| Role profiles, templates (`role-profiles.ts`, `template-registry.ts`) | files | resolve, list | precedence | a lookup is deterministic |
| Transports (`agents/transports/*`) | child processes | start, stop, read | platform processes | out of scope: process I/O |

### 1.3 Execution

| Component | State | Operations | Hard | Correct when |
|---|---|---|---|---|
| Action registry (`core/action-registry.ts`), approvals (`core/approval-controller.ts`), tool ownership | providers, approval grants, the audit | register, resolve, invoke | approval racing abort; provider replaced between resolve and invoke | no action without approval; one audit record per invocation |
| Execution service and runtimes (`execution-service.ts`, `runtime/*`) | the execution, the sandbox, host calls in flight | execute, host call, timeout, abort | timeout racing an answer; calls outliving the run | a finished run accepts no more calls |
| Run context (`run/context.ts`) | evidence, transition and gate ledgers, budget | reserve, settle, release, record, decide | concurrent reservations against a limit | committed plus reserved never exceeds the budget |
| Compact controller (`core/compact-controller.ts`) | pending intent, in-flight commit | request, commit, clear | an intent replaced while the previous one commits | every intent settles once, none is lost |
| Prewalk (`prewalk/*`) | plan phase, checklist, model handoff | arm, plan, gate, hand off, restore | callbacks of an older identity; failures in the middle of the handoff | Main always gets its model back; a stale callback changes nothing |
| State store (`state/store.ts`) | heads and transitions over mesh | propose, commit, evidence | CAS races of several agents | heads advance only over verified transitions |
| Schema controller (`schema/controller.ts`) | hypotheses, journal, workspace files | hypothesize, verify, commit, abort, recover | crash in the middle of a multi-file commit | recovery restores either all or nothing |

### 1.4 Context and knowledge

Compaction (`compaction/*`), memory (`memory/*`), code map (`codemap/*`), audit
(`audit/*`), outcomes (`outcomes/store.ts`), consult (`consult/*`), activity
(`activity/store.ts`), retention (`storage/retention.ts`), routing
(`routing/model-router.ts`), capture (`capture/interceptor.ts`), quality
(`quality/*`), configuration (`config.ts`), the user interface (`ui/*`) and the
command line (`commands/*`, `index.ts`).

Every part is listed in `PROJECT.json` with its status and, when it is not
modelled, the reason.

## 2. Plan

The order follows what the rest stands on: everything that two processes share
goes through the mesh, so the lock, the log and the state come first, then what
is built on them.

| # | Module | Composes / refines | Status |
|---|---|---|---|
| 1 | `MeshLock` | - | modelled, checked, proved |
| 2 | `MeshLog` | assumes what `MeshLock` promises: one writer at a time | modelled, checked, proved |
| 3 | `MeshState` | refines `VersionedRegisters` (abstract: one versioned register per key) | modelled, checked, proved |
| 4 | `ControlPlane` | uses the log and one compare-and-swap entry per command | modelled, checked, proved |
| 5 | `DurableWorkflow` | uses one compare-and-swap entry | modelled, checked, proved |
| 6 | `PathLeases` | uses one compare-and-swap entry | modelled, checked, proved |
| 7 | `LifecycleBroker` | uses the log and one compare-and-swap entry | modelled, checked, proved |
| 8 | `SchemaTransaction` | refines `AtomicWorkspace` (abstract: a workspace that changes by whole transactions); uses the store's conditional put | modelled, checked, proved |
| 9 | `OneShotAgents` | - | modelled (runs), checked, proved |
| 10 | `ParticipantDirectory` | uses the store's conditional put and deletion | modelled (leases, records), checked, proved |
| 11 | `PersistentInbox` | uses the directory by what it promises: one owner per agent | modelled (inbox), checked, proved |
| 12 | `CompactController`, `Prewalk` | callbacks within one process | open |

Modules compose by contract: what is proved of the lower module (one writer at a
time, a register with versions, numbers in order, one owner) is a single action of the
upper one. The two refinements show such contracts: `MeshState` of
`VersionedRegisters`, `SchemaTransaction` of `AtomicWorkspace`.

Every safety property that a passing run checks is also a theorem, for every value of the
constants; only `RefusedStaysRefused` has a hypothesis (section 6). What is left to do is more of
the system: the modules of row 12, and the parts of the agents that section 8 leaves out.

## 3. Modules and code

All modules follow the same reading of the code: what runs between two `await`s
or two system calls that another actor can separate is one action; an operation
that reads, computes and then writes conditionally is two actions with the
computed value in between; a crash is an action that can happen wherever the
actor has something to lose. Ids, payloads, paths and texts are model values.
`PROJECT.json` maps every definition to its lines.

**`MeshLock`** (`mesh/store.ts`, `#withLock`, `#clearStaleLock`). The lock is
`dir` (which call's `mkdir` made it) and `owner` (what the file in it says).
`Call`, `MakeDir`, `OpenOwner`, `FillOwner`, `FinishOperation`,
`RemoveLockDir` are the holder's system calls; `Blocked`, `Judge`, `Recheck`,
`RemoveStale`, `Wait`, `Deadline` are the way of a call that finds the
directory. `Age` lets the stale window pass, `Crash` ends a process.

**`MeshLog`** (`publish`, `tail`, `read`, compaction and repair). The log file,
the sequence file and the generation file are separate variables and `publish`
writes them one by one (`AppendLine`, `WriteCounter`, `Compact`,
`WriteGeneration`), with `CrashWriter` between any two, also in the middle of a
line. A consumer of `tail` reads the generation (`OpenTail`) and then the file
(`ReadTail`); `Read` is one call of `read({ after })`.

**`MeshState`, `VersionedRegisters`** (`get`, `put`, `delete`, tombstones and the
per-process cache). A reader takes three steps: it compares the file's identity
with its cache (`GetCached`, `GetMisses`), reads the file (`ReadFile`) and asks
for the identity under which to keep it (`CacheFile`). Writers hold the lock
and always read the file. `VersionedRegisters` is the promise: per key a value
and a version, changed by conditional and unconditional writes, and a version
that may be forgotten after a deletion.

**`ControlPlane`** (`topology/control-plane.ts`). The sender's `request` with its
timer, the log of commands and acknowledgements, and the owner: replay after a
start, the check of a command's age against its own clock, the conditional put
of the claim, the handler, the stored outcome, the acknowledgement, the
deletion of expired claims. Several processes may own the same target; each
pair of clocks has a skew.

**`DurableWorkflow`** (`workflows/durable.ts`; the workers are the loop of
`workflow.durable.run` in `runtime/quickjs-runtime.ts`). The record has a status
and per phase a status, an attempt and a claim; each operation computes a
successor of what it read (`Begin...`), `Put` stores it if the record is still
that one, `PutFails` makes it start over. `Tick` lets leases run out.

**`PathLeases`** (`leases/path-leases.ts`, the check in
`providers/pi-tools-provider.ts`). One entry holds all leases. `BeginAcquire`,
`BeginRelease` and `BeginForceRelease` compute the next entry from the one they
read, `Put` stores it if nobody has written since. `left` is a lease's
remaining time. `held` is what a run was told it holds.

**`LifecycleBroker`** (`lifecycle/broker.ts`). The subscription's cursor
(`stored`) is moved by the host at which the target is local: `BeginDrain`,
`ReadBatch`, `Deliver` or `DeliveryFails`, and `Save` or `Delete` with the
version the drain last wrote. `SourceMoves` is everything that makes the
directory say that an event's owner is not, or is again, the source's. `missed`
marks the events to which the subscription has no claim.

**`SchemaTransaction`, `AtomicWorkspace`** (`schema/controller.ts`). A transaction's
`hypothesis`, `certificate` and the workspace `record` are entries of the store;
`journal` and `lock` are files; `file` says of each workspace file which transaction
wrote it. `Hypothesize`, `VerifyBegins`, `VerifyIssues`, `AbortBegins`, `AbortEnds`,
`EndCertificate`, `EndHypothesis` are the calls split at their awaits; `commit` is
`TakeLock`, `WritePid`, `Prepare`, `Consume`, `StartApplying`, `Apply` for one
operation at a time, `Confirm`, `PutCommitted`, `JournalCommitted`, `Finish`, or the way
back: `Fails`, `RestoreOne`, `RecordOutcome`, `Unlock`. `Start` runs `#recoverJournals`:
`ReadLock`, `RemoveLock`, `ListJournals`, `ReadJournal`, `RecoverOne`. A process starts, and dies,
between any two of them, whoever else lives. The code lets some steps through that enter where another
is at work; the model has them all, and the history variable `trespass` records the first: recovery
removes the lock of a living commit (`RemoveLock`: its pid was not written yet, or it was
taken after the look), a commit takes the lock while files are half done (`TakeLock`: recovery has
removed the dead owner's lock and not yet restored the files, or a rollback ended with an
unmarked journal), recovery undoes a journal whose commit lives or that another process is restoring
(`ReadJournal`), and the record forgets a commit whose journal could not be marked (`Forgets`, in
`PutCommitted` and `RecordOutcome`). `OneAtATime`, `CommittedStays` and `AllOrNothing`
speak until the first such step. What they show is that nothing else breaks the protocol: a start
beside a living commit whose pid is in the lock, a recovery beside processes that live and may
commit as soon as it is over, a crash of any of them at any place, a failing operation, restore or
write. `AtomicWorkspace` is the promise: all declared files and the
generation at once, or nothing, or a quarantined part that the record admits. The
refinement maps the files to what a recovery would leave of them (`View`).

**`OneShotAgents`** (`agents/one-shot-manager.ts`, `agents/semaphore.ts`). `spawn` is
where each spawn stands, from the wait for a permit over files and launch to a
registered run; `monitor` is its polling loop, `stop` a call of `stop`; `child` and
`file` are the child process of each attempt and the status file it shares with the
manager. A startup failure lets the monitor launch another attempt while `stop`,
`close` or the abort signal interfere.

**`PersistentInbox`** (`agents/persistent/manager.ts`). One agent, seen by all hosts:
`objects[h]` are the managed objects host `h` has loaded, each with queue, activation in
flight, drain and the callers that wait for an answer; the last one is the one that is found by
name. `file` is `inbox.json`; `known` is what the host last heard about the `owner`. `Accept` with its
overflow policy, the drain from taking an activation over its run and delivery to its commit,
`Withdraw` (the signal of an ask whose activation still waits in the object it was given to), `Halt`,
`Refresh` (acquire and release: callers are told), `Close`, `CloseEnds`, `HostCrashes` and `Start`;
every write of the file may fail, and so may the save of the registry (`SaveFails`: `PresenceFails` before a
run, `Deliver` after it). A host loads all objects anew when it acquires an agent, this one (`Refresh`) or
another (`ReloadAll`); an object that is replaced stays in the model while a drain or a caller still refers
to it (`Idle`). `Move` gives the agent to another host, whether the owner is down, alive and idle, or in
the middle of an activation; the old owner may write until it has noticed.

So several objects of one agent may write one file. Two history variables name what this can cost, and
the properties except just that. `exposed` are the activations that an object which may write the inbox
(`Writers`) does not hold: one accepted while there is such a rival (`HasRival`), one
missing in an object whose host acquires the agent while a drain or a caller of it goes on (`Refresh`,
`Acquired`), and one that an object let go of without an end (the activation of a
drain whose save failed, overwritten by the next; one left to a new owner that is the old one again).
`adrift` are those that an owner held when it lost the agent (`Move`) or that an object held when it was
replaced in the middle of its work (`Reload`). `AcceptedIsStored` and `InOrder` except `exposed`,
`SerialActivation` and `NoNeedlessRun` except `adrift`; a reload or a move while nothing is in hand adds
to neither.

**`ParticipantDirectory`** (`topology/participant-directory.ts`). `lease`, `session` and
`presence` are a host's entries, `entry` the record of each agent. A refresh is a
sequence of places (`host`, `session`, `put`, `delete`, `entries`, `lease`) with the set
of records it has read and still has to write; `quiesce` and `close` wait for the
refresh under way and run their own. `Lapse` is a heartbeat that comes too late; the clock
a refresh reads is the one of its beginning (`late`, `lateSession`).

## 4. Runs

| Run | Question | Bounds |
|---|---|---|
| `mesh_lock` | Is the lock exclusive, recoverable, never leaked, and does every call end? | three processes, one call each: a holder, a recoverer and a third that takes the lock in between; a crash of each |
| `mesh_log` | Are numbers unique, retries idempotent, pages complete; does a follower miss nothing and get on? | three numbers, two retained lines, pages of one, one restart, a reader and a follower: every crash point, a compaction before and after it |
| `mesh_state_writes` | Is the store a set of versioned registers, and are stale reads harmless to conditional writes? | two processes, two keys, one tombstone: a second deletion drops the first; six writes |
| `control_plane` | Is a command executed at most once? | one command, two owners, time 0-3 with a timeout of 1, skews of -1, 0 and 1, one restart; commands share nothing but the log's order |
| `durable_workflow` | Do phases run in order, under one claim, a bounded number of times, to an end? | two workers, a join of three phases, one with two attempts, a lease of one tick |
| `path_leases` | Do leases of different runs stay apart? | a directory, a file in it and one outside; two runs, three calls; capacity two, so that a request for two paths can overrun it; lifetimes one and two, so that a renewal can shorten a lease |
| `lifecycle_broker` | Is every event delivered, in order, once unless something went wrong? | two hosts, two events, batches of two, two owners of the source, one mishap (crash, takeover, lost lock, half delivery) |
| `schema_transaction` | Does the workspace change by whole transactions, whoever dies? | two transactions that share a file, two processes that start at any time and crash; in a behaviour one withdrawal, edit from outside, failed restore or failed write of a journal (`OneMishap`); no step after the first trespass (`UntilTrespass`), from which on the properties say nothing; processes interchangeable |
| `one_shot_agents` | Are permits accounted for, results kept, children ended, and does every spawn end? | two runs for one permit, two launches, one stop, one abort, one spawn whose files cannot be written, `close` at any time |
| `persistent_inbox` | Does accepted work survive, run one at a time, in order, and get done? | two hosts, two activations, a queue of one (so that one displaces another while one is in flight), two starts, and two mishaps among a crash, a move of the agent from a dead or living owner, a reload, a failed write of the inbox and a failed save of the registry. The hosts are alike, so one stands for the first owner (`FromFirst`) |
| `participant_directory` | Has an agent one owner that keeps it, and do hosts leave in order? | two hosts, one agent, one mishap (a delay, restart, crash, removal or failed write); the safety properties were also checked with two |
| `inbox_acquire` | A statement of the documentation that the code does not keep (section 7) | as `persistent_inbox`, with a queue of two (nothing is displaced) and a registry that can be saved, so that the counterexample is the reload |

`CHECK_DEADLOCK FALSE` appears where a system may come to rest: everything was
called, published or used up that the bounds allow, or the subscription ended.

What the bounds hide: with `lifecycle_broker` a drain never reads a second
batch that has events in it; the safety properties were also checked with three
events and one owner (1.3 million states), which takes too long with the
liveness property.
With two hosts, one mishap lets an event be delivered three times: a takeover
in the middle of a batch, and a compaction that shifts the batches' bounds.
`OnceUnlessMishap` therefore promises one delivery only as long as nothing went
wrong.

One module has a constant that says what the environment does at a bad moment, and the passing
run keeps it quiet: `QuickRestarts` (`ParticipantDirectory`), a host comes back before another
one has seen it go. Only `EventuallyOwned` depends on it (section 7). Of the other modules,
`SchemaTransaction` and `PersistentInbox` let everything happen at every moment; their
properties name the exceptions (`trespass`, `exposed`, `adrift`; section 3), as those of `MeshLock`
(`usurped`), `MeshLog` (`aliased`), `ParticipantDirectory` (`contested`) and `OneShotAgents` (`late`)
do. An exception is a step of the code that section 7 lists, marked when it is taken, and
everything up to it, or everything that it does not touch, is still claimed.

## 5. Fairness

* `MeshLock`: weak fairness of each process's steps and of its deadline: system
  calls return and the clock advances. A process that crashed has no steps.
* `MeshLog`: a consumer that is not restarted keeps polling.
* `DurableWorkflow`: time passes (`WF` of `Tick`), a call under way ends, a
  worker that could go on does so again and again, and is not overtaken for
  ever (`SF` of `Put`): the code retries a lost put and the other writers are
  few. Without the last one two workers could overtake each other for ever.
* `LifecycleBroker`: hosts poll on a timer (`setInterval`), a drain's writes are
  attempted, and a delivery that is tried again and again succeeds at some time
  (`SF` of `Deliver`): the code retries for ever and cannot do better.
* `OneShotAgents`: the manager's own next step of each spawn, monitor and stop is taken: its
  awaits return and its timers fire. Nothing is assumed of the children: a deadline ends
  those that hang.
* `PersistentInbox`: a host goes on with its drain, its runs end (the run has a
  deadline of its own), and it polls who owns the agent.
* `ParticipantDirectory`: the heartbeat's timer fires and its writes return; what nobody
  renews lapses.
* `MeshState`, `ControlPlane`, `PathLeases`, `SchemaTransaction`: no liveness is claimed.
  A command may time out, an acquisition or a commit may be refused.

## 6. Proofs

TLAPS checks the theorems of eight modules `*_proofs`; three of them hold the proofs
of two components each: `MeshStorage_proofs` (`MeshLock`, `MeshLog`), `AgentRuns_proofs`
(`OneShotAgents`, `PathLeases`) and `DurableWork_proofs` (`DurableWorkflow`, `PersistentInbox`). Each
follows the same line: an inductive invariant, a lemma for `Init`, a lemma per action (or group of
actions that touch the same state), and one temporal step per theorem. They
hold for every value of the constants that satisfies the named assumptions
(the bounds are natural numbers, the special values are not among the ordinary
ones). One has a hypothesis on the environment: `ControlRefused` is about clocks that differ
by at most the timeout.

* `MeshLock` (in `MeshStorage_proofs`): `LockInv` adds to the properties that every token counts a
  call of its process, that a call in its critical section owns the directory
  unless its lock was removed, and who is responsible for a directory. Proved:
  `TypeOK`, `MutualExclusion`, `LiveOwnerNotJudgedStale`, `NoLeakedLock`.
* `MeshLog` (in `MeshStorage_proofs`): `LogInv` says that the log increases, that nothing lies above
  the counter except what the writer has just appended, and for each follower
  that what lies before its offset has a number it has handled. `ReadInv`, on top of it, is
  about consumers of `read({ after })`: such a cursor may be one past the log, because a torn
  line was read as an event, and then that number was seen before another event gets it.
  Proved: `TypeOK`, `SequenceNamesOneEvent`, `IdsRetainedOnce`, `TailMissesNothing`,
  `ReadSkipsNothing`.
* `MeshState`: `StateInv` relates entries, versions and tombstones, and for
  each process its cache and what it was told to the history. Proved: `TypeOK`,
  `VersionNamesOneValue`, `TombstonesKeepVersions`, `CasOverwritesWhatItGot`,
  `ReadsNeverGoBack` and the refinement `ImplementsRegisters`.
* `ControlPlane`: `ControlInv` ties each owner's place in the handling of a
  command to the claim's version and status, and each acknowledgement to a
  stored outcome. Proved: `TypeOK`, `AtMostOnce`, `AcknowledgedIsStored`,
  `RefusedStaysRefused` (for skews up to the timeout),
  `InterruptedStaysInterrupted`.
* `PathLeases` (in `AgentRuns_proofs`): `LeaseInv` says of every call under way that what it would
  store keeps the leases apart, contains what each run would then rely on and
  fits the capacity; that ids tell leases apart is needed for release and
  renewal. Proved: `TypeOK`, `NoOverlap`, `HeldIsStored`, `WithinCapacity`.
* `DurableWorkflow` (in `DurableWork_proofs`): `WorkflowInv` says that the stored workflow is consistent with
  the histories and the claims (`Consistent`: phases run only after their dependencies, an
  attempt was counted for every claim, a completed phase names its last claimant), and that
  every put under way that has not been overtaken would leave it so (`PutOK`). The second
  part is why the invariant is inductive: a put stores what was computed some steps before.
  Proved: `TypeOK`, `ClaimsBounded`, `DependenciesFirst`, `LeaseExclusive`,
  `CompletedByLastClaimant`, `SettledStays`.
* `LifecycleBroker`: `BrokerInv` says that the stored cursor and the cursor of every
  drain under way, in whatever place, cover what is due (`Covers`); that a drain about to deliver
  covers everything before its event; that what is not missed comes from the source's owner and
  what was compacted was delivered or is missed (`WorldInv`), so that passing over an event and jumping over
  a hole are harmless; that nothing current is written once the subscription has ended
  (`SubscriptionInv`). `SmoothInv` adds the state without mishaps: one host drains, and what was
  delivered lies behind its cursor. Proved: `TypeOK`, `NothingSkipped`, `InOrder`,
  `OnceUnlessMishap`, `NoHistory`.
* `ParticipantDirectory`: `DirectoryInv` adds to `TypeOK` what a steady agent's owner
  may look like (`SteadyInv`: its lease is live and no refresh of another host took it for
  dead), and for each host what its refresh may still write (`PlaceOK`), that its
  capabilities are withdrawn once it is quiet (`QuietOK`), what is left of it while it closes
  (`CloseOK`), and what it may have read (`ReadsOK`). Proved: `TypeOK`, `LeavesInOrder`,
  `SteadyOwnerKept`, for any number of hosts, agents and mishaps.

* `SchemaTransaction`: `ProtocolInv` is about the store and the calls: before images come from
  the workspace (`BeforesKnown`), an invocation belongs to a process that has been up, a certificate is
  issued once, and only a transaction whose certificate was consumed leaves a trace in a journal, a
  file or a before image (`TracesConsumed`). It holds whatever has been trespassed on; proved from it:
  the types and `WithdrawnChangesNothing`. `OrderInv` relates the lock, the journals, the record and the files.
  `LocksKnown` holds always: a process that has found the owner of a lock dead is right for good, and a
  commit under way belongs to a process that is up. `Undisturbed` holds until the first trespass: a commit
  under way holds the lock, and when a transaction is half done no other is half done or under way
  (`Exclusive`); each place of a commit and of a recovery says which files are already changed or restored
  (`CallKnows`, `RecoveryKnows`); a transaction that is unfinished although it has committed is the one
  the record names (`Remains`). The lock alone would not do: while a process restores the files of a
  dead one nobody has the lock, and `Exclusive` says what keeps others out. Proved from it:
  `OneAtATime`, `CommittedStays` (journals that cannot be marked included) and the refinement
  `AllOrNothing` of `AtomicWorkspace`, all without a hypothesis. For the refinement there
  is at most one transaction to undo, so that the abstract files are the real ones with it undone: a commit maps to
  one abstract step, the one that stores the outcome, a file that is applied or restored to a stutter, and
  an edit from outside to itself.
* `OneShotAgents` (in `AgentRuns_proofs`): `OneShotInv` consists of the types, `PermitInv` (the permits in
  use are as many as the spawns that hold one, nobody waits while one is free, the queue lists
  exactly the spawns that wait) and `RunsInv`, for each run: who is registered
  (`RegistrationKnown`), that a child that lives is the one of the transport the manager knows (`ChildKnown`),
  that a status file was written by a child that has ended (`FileKnown`), that whoever is about to settle a
  run has told its child to stop (`ChildTold`), and that a completion is kept (`CompletionKept`). No
  hypothesis. Proved, for any number of runs, permits and attempts: `TypeOK`, `PermitsAccounted`,
  `CompletionNotLost`, `OnlyLateOutlive`.
* `PersistentInbox` (in `DurableWork_proofs`): `InboxInv` consists of the types and `StateInv`. What is owed
  (`Owed`: accepted, not ended, not exposed) is in the file and in every object that lives on in a host which
  believes it owns the agent, so that whichever of them writes next, nothing owed is lost.
  An object that lives on (`Live`: a drain or caller refers to it, or it is the current one of such a
  host) is the owner's current one (`Primary`) or holds only what is adrift: this is why two objects
  never work on something that is not. The file and every object are in the order of acceptance, with
  the activation in flight first, and fit what is loaded again (`Proper`); nothing owed is before
  what is about to begin (`GoesFirst`). What must not run again (`Over`: spent and not adrift) is in the
  file and in the current object only while it is under way (`Covers`, `Underway`). Proved, with moves,
  reloads, crashes and failing writes at every moment: `InboxTypeOK`, `SerialActivation`,
  `AcceptedIsStored`, `InOrder`, `NoNeedlessRun`.

Some of these hold for every instance and are not in a run any more:
`LiveOwnerNotJudgedStale`, `VersionNamesOneValue`, `TombstonesKeepVersions`, `WithinCapacity`,
`ClaimsBounded`, `LeaseExclusive`, `NoHistory`, `CommittedStays` and the type invariants.

Only model-checked: liveness (`EveryCallEnds`, `TailCatchesUp`, `WorkflowSettles`,
`EventuallyDelivered`, `RunsSettle`, `QueueIsDrained`, `EventuallyOwned`), which needs `ENABLED` and
fairness; the prover does not support them.

## 7. Where the code differs from what is said of it

* `inbox_acquire` has a run that finds the counterexample to `AcknowledgedSurvives`. `docs/ultra-fabric.md:396` says that an
  acknowledged inbox item survives restart and ownership transfer. A host that acquires one agent loads all
  its agents anew from their files (`agents/persistent/manager.ts:2778`), also one whose
  drain is under way: that drain keeps the old object, and when its activation ends it
  writes the old object's queue over what the new one has accepted. `AcceptedIsStored` counts such an
  activation as `exposed`.

Observed while modelling, without a run of its own. The mesh:

* A freshly written owner file can be deleted by a recoverer between its second look and the
  removal (`mesh/store.ts:748`). An owner file that a live process has opened and not yet
  written looks like one without a time and a pid; it is judged stale without any wait.
  `MeshLock` has both steps; `MutualExclusion` is stated for calls whose lock was
  not removed under them.
* `read` hands out a last line that has no newline yet (`mesh/store.ts:528`); repair may drop
  it and give its number to another event.
* A `tail` cursor is accepted for a compacted log when the generation read came
  first, or when the writer died before writing it. `MeshLog` marks such a
  cursor as `aliased` and `TailMissesNothing` excepts it.
* A read that races a write keeps the old state under the new file's identity until the
  next write (`mesh/store.ts:669`).

What is built on it:

* A write is checked against the leases when it is called, not when it is done
  (`providers/pi-tools-provider.ts:328`): a lease acquired in between does not hold it up.
* With clocks that differ by more than the timeout, a command can be refused as
  expired and still be run after a restart; `control_plane` keeps to skews up
  to the timeout.
* A lifecycle event whose source's record is stale at the moment of the drain is
  passed over and not looked at again, although its owner did not change.
* The commit lock does not cover recovery; `SchemaTransaction` has these steps as `trespass`. A process that
  starts between a commit's creation of its lock and the write of the pid takes the lock for a dead owner's,
  and one that looked at a dead owner's lock before a commit took a new one removes that
  (`schema/controller.ts:840`, `863`). One that found no lock, or removed one, may list the journal
  of a commit that began meanwhile and roll it back while it goes on (`867`-`882`). Between `863` and
  `882` the files are half done and the lock is free: a commit of a living process can take it.
  Two processes that start at once may restore the same journal.
* A journal that says applying although its transaction has committed (the write at `437` failed, and its
  comment points to recovery's look at the record) is recognised only while the record names
  that transaction: when another one has had its outcome since, the next start undoes the first (`874`).
  `trespass` marks the moment at which the record forgets it.

Agents:

* The monitor of a one-shot run can write its status over the one with which `stop` has
  settled the run; the result in memory stays. A spawn whose files cannot be written
  keeps its permit (`agents/one-shot-manager.ts:536`; `leaked` in `OneShotAgents`), and a startup
  retry can launch a child for a run that `stop` has settled meanwhile (`1025`; `late`). A status that cannot
  be written when a run is settled (`858`, `1040`, `1095`, `1117`) leaves the run unsettled, with
  its permit, like a spawn at `536`; in the model these writes succeed. The time at which a
  child was first found dead is not reset when a startup retry launches the next one (`1048`, `1070`), so that
  a result which this one writes between the reading of its status and the look at its liveness can be
  taken for a failure; the model reads both in one step (`SeesDead`).
* A takeover or a reload loads an agent's queue and does not start its drain until the next message; a
  drain that could not publish its presence leaves its queue alone (`agents/persistent/manager.ts:1376`,
  `2781`; `stranded` in `PersistentInbox`). Such a drain also leaves its activation in flight: the next
  one that is accepted takes its place, in the object and in the file, and the first is lost (`exposed`;
  with `SavesFail = TRUE`, `AcknowledgedSurvives` fails in this way too).
* When an owner that lives loses its agent, or an object is replaced while its drain runs, two objects
  may work the same activation for a moment, run it again, or write the inbox late (`adrift`, `exposed`).
* Two living hosts that both have a presence entry of an agent without a record respect each
  other's entry for ever, and neither claims it (`topology/participant-directory.ts:579`; this
  takes a host that comes back before another one has seen it go, `QuickRestarts`).
* The first claim of an agent is a put without version (`593`-`597`): a host that read no record
  and writes late overwrites the claim that another one has made meanwhile. `SteadyOwnerKept`
  speaks of owners that claimed an agent unopposed.
* A host whose read of the state fails in `close` (`464`) rejects and leaves its lease and session
  entry behind until they lapse; in the model `close` comes to its end.

## 8. Not modelled

Left out of the modules above: the size limits of entries and of the log in bytes, the salvage
of a damaged `state.json`, the formatting and validation of requests, identity checks
against forged acknowledgements; of the one-shot agents steering, logs, worktrees, retention
and the cost ledger; of the persistent agents creation, removal, pausing, the activation budget
and the coalescing of events; of the directory the listing of sessions' other
participants.

Some actions are coarser than the code, where no property tells the difference or where the
difference is named here:

* `MeshLock.RemoveLockDir` and `RemoveStale`: `rmSync`'s removal of the owner file and of the directory are one
  step; a process that dies in between leaves a directory without an owner, which the model reaches
  with `MakeDir`. `Judge` reads the owner file and asks for its time in one step.
* `DurableWorkflow.BeginResume`, `BeginCancel`: a call that changes nothing still writes the entry and so
  raises its version, which makes others read again. A put of the model may fail at any time (`PutFails`).
* `LifecycleBroker.Publish`: events that nobody observes are not published at all
  (`lifecycle/broker.ts:61`-`65`); the model's subscription observes from the beginning.
* `OneShotAgents.SeesDead`, the writes that settle a run, and the read in `ParticipantDirectory.Close`:
  section 7.

Not modelled at all:

* Compact controller, Prewalk, run context, approvals, the execution service: callbacks and
  ledgers within one process, with fewer interleavings than what was modelled first; they are what
  a next module would take.
* State layer: heads over the store's conditional put, which `MeshState` shows; the certificates
  of a transition are computed from file content.
* Transports and the child worker: process and terminal I/O; `OneShotAgents` uses them by contract.
* User interface, configuration, compaction and memory texts, the code map, routing and quality
  rules, providers, audit, retention: display, text processing, wiring and stateless rules; a model
  of their steps would say nothing about what can go wrong in them. They are the larger part of the
  code's lines.

`PROJECT.json` gives the reason for each component.
