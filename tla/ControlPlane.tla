---------------------------- MODULE ControlPlane ----------------------------
(***************************************************************************)
(* Commands to a remote participant: src/src/topology/control-plane.ts.    *)
(*                                                                         *)
(* A sender publishes a command to the host that owns the participant and  *)
(* waits for its acknowledgement.  The owner follows the mesh log, claims  *)
(* a command under its id in the shared state, hands it to its handler,    *)
(* stores the outcome and acknowledges it.  Every await is a step of its   *)
(* own; the owner may die at any of them, and replays the log when it      *)
(* starts.  Tombstones of deleted claims are assumed to outlive the time   *)
(* in which a command can be replayed.                                     *)
(***************************************************************************)
EXTENDS Integers, Sequences, FiniteSets

CONSTANTS
  Commands,
  Owners,       \* processes that own the target under one host id
  Nothing,
  Timeout,      \* acknowledgementTimeoutMs
  Skews,        \* how far the sender's clock may be ahead of the owner's
  MaxTime,      \* bound: the clock
  MaxRestarts   \* bound: restarts of each owner

ASSUME BoundAssumption ==
  Timeout \in Nat /\ MaxTime \in Nat /\ MaxRestarts \in Nat /\ Skews \subseteq Int
ASSUME NothingAssumption == Nothing \notin {"accepted", "rejected"}

VARIABLES
  now,
  request,    \* of each command: [at, deadline] of the sender's request
  requestedAt,\* the time a command carries
  outcome,    \* what the sender's caller has been told
  log,        \* the published commands, in order
  acks,       \* the published acknowledgements: [cmd, says]
  record,     \* the claim in the shared state: [version, says, expires], where
              \* a deleted record says "deleted" and keeps its version
  stored,     \* history: what was ever stored as a command's outcome
  owner,      \* of each owner: [up, pos, at, cmd, time, says]
  restarts,
  handled     \* history: how often a command was handed to a handler

vars == <<now, request, requestedAt, outcome, log, acks, record, stored, owner,
          restarts, handled>>
senderVars == <<request, requestedAt, outcome, log>>
ownerVars == <<acks, record, stored, owner, restarts, handled>>

Verdicts == {"accepted", "rejected"}
Answers == Verdicts \cup {"expired", "indeterminate"}
Steps == {"idle", "judge", "lookup", "claim", "raced", "handle", "store", "ack"}
NoRequest == [at |-> "none", deadline |-> 0]
Unclaimed == [version |-> 0, says |-> "none", expires |-> 0]
Started == [up |-> TRUE, pos |-> 0, at |-> "idle", cmd |-> Nothing, time |-> 0,
            says |-> Nothing]

Init ==
  /\ now = 0
  /\ request = [c \in Commands |-> NoRequest]
  /\ requestedAt = [c \in Commands |-> 0]
  /\ outcome = [c \in Commands |-> Nothing]
  /\ log = <<>> /\ acks = {}
  /\ record = [c \in Commands |-> Unclaimed]
  /\ stored = [c \in Commands |-> {}]
  /\ owner = [o \in Owners |-> Started]
  /\ restarts = [o \in Owners |-> 0]
  /\ handled = [c \in Commands |-> 0]

Tick ==
  /\ now < MaxTime
  /\ now' = now + 1
  /\ UNCHANGED <<senderVars, ownerVars>>

-----------------------------------------------------------------------------
(* The sender *)

\* request: the timer starts before the command is published.
Request(c, skew) ==
  /\ request[c].at = "none" /\ now + Timeout <= MaxTime
  /\ request' = [request EXCEPT ![c] = [at |-> "publishing", deadline |-> now + Timeout]]
  /\ requestedAt' = [requestedAt EXCEPT ![c] = now + skew]
  /\ UNCHANGED <<now, outcome, log, ownerVars>>

\* A request that timed out while it waited for the mesh lock is published
\* all the same.
Publish(c) ==
  /\ request[c].at = "publishing"
  /\ log' = Append(log, c)
  /\ request' = [request EXCEPT ![c].at = "waiting"]
  /\ UNCHANGED <<now, requestedAt, outcome, ownerVars>>

Settle(c, told) == outcome' = [outcome EXCEPT ![c] = told]

\* publish throws (the lock was not to be had): the request is over.
PublishFails(c) ==
  /\ request[c].at = "publishing"
  /\ request' = [request EXCEPT ![c].at = "failed"]
  /\ IF outcome[c] = Nothing THEN Settle(c, "failed") ELSE UNCHANGED outcome
  /\ UNCHANGED <<now, requestedAt, log, ownerVars>>

TimesOut(c) ==
  /\ request[c].at # "none" /\ outcome[c] = Nothing
  /\ now >= request[c].deadline
  /\ Settle(c, "timeout")
  /\ UNCHANGED <<now, request, requestedAt, log, ownerVars>>

\* acceptAcknowledgement: the first acknowledgement that finds the request
\* pending settles it.
ReceiveAck(c) ==
  /\ request[c].at # "none" /\ outcome[c] = Nothing
  /\ \E a \in acks :
       /\ a.cmd = c
       /\ Settle(c, IF a.says = "accepted" THEN "accepted" ELSE "rejected")
  /\ UNCHANGED <<now, request, requestedAt, log, ownerVars>>

\* The sender's plane is closed with the request pending.
CloseSender(c) ==
  /\ request[c].at # "none" /\ outcome[c] = Nothing
  /\ Settle(c, "rejected")
  /\ UNCHANGED <<now, request, requestedAt, log, ownerVars>>

-----------------------------------------------------------------------------
(* The owner *)

Goto(o, step) == owner' = [owner EXCEPT ![o].at = step]
Finish(o) == owner' = [owner EXCEPT ![o] = [Started EXCEPT !.pos = owner[o].pos]]
Answer(o, says) == owner' = [owner EXCEPT ![o].at = "ack", ![o].says = says]
Running(o, step) == owner[o].up /\ owner[o].at = step

\* drain takes the next command and reads the clock.
Take(o) ==
  /\ Running(o, "idle") /\ owner[o].pos < Len(log)
  /\ owner' = [owner EXCEPT ![o].pos = @ + 1, ![o].cmd = log[owner[o].pos + 1],
                            ![o].time = now, ![o].at = "judge"]
  /\ UNCHANGED <<now, senderVars, acks, record, stored, restarts, handled>>

\* A read of the shared state throws: of the claims to clean up, of the command's own
\* claim, or of the one that came first.  The rest of the page that drain holds is
\* lost, since the cursor is past it.
DrainThrows(o) ==
  /\ \E step \in {"judge", "lookup", "raced"} : Running(o, step)
  /\ \E pos \in owner[o].pos..Len(log) :
       owner' = [owner EXCEPT ![o] = [Started EXCEPT !.pos = pos]]
  /\ UNCHANGED <<now, senderVars, acks, record, stored, restarts, handled>>

\* mutant: a sender's clock may not be ahead at all
NoTolerance(o) ==
  LET age == owner[o].time - requestedAt[owner[o].cmd]
  IN  age > Timeout \/ age < 0

Expired(o) ==
  LET age == owner[o].time - requestedAt[owner[o].cmd]
  IN  age > Timeout \/ age < -Timeout

Judge(o) ==
  /\ Running(o, "judge")
  /\ IF Expired(o) THEN Answer(o, "expired") ELSE Goto(o, "lookup")
  /\ UNCHANGED <<now, senderVars, acks, record, stored, restarts, handled>>

\* What get may return of the claim: by MeshState, what it says now or said
\* before.
Visible(c) ==
  {"none"} \cup (IF record[c].version > 0 THEN {"claimed"} ELSE {}) \cup stored[c]

AnswerOf(says) == IF says = "claimed" THEN "indeterminate" ELSE says

Looks(o) == \E says \in Visible(owner[o].cmd) :
  IF says = "none" THEN Goto(o, "claim") ELSE Answer(o, AnswerOf(says))

Lookup(o) ==
  /\ Running(o, "lookup")
  /\ Looks(o)
  /\ UNCHANGED <<now, senderVars, acks, record, stored, restarts, handled>>

\* mutant: the claim overwrites what is there
ClaimFree(c) == record[c].says \in {"none", "deleted"}

\* put with ifVersion 0: a deleted claim still has a version.
Claimable(c) == record[c].version = 0

Claim(o) ==
  LET c == owner[o].cmd
  IN  /\ Running(o, "claim")
      /\ Claimable(c)
      /\ record' = [record EXCEPT ![c] = [version |-> @.version + 1, says |-> "claimed",
                                          expires |-> owner[o].time + Timeout]]
      /\ Goto(o, "handle")
      /\ UNCHANGED <<now, senderVars, acks, stored, restarts, handled>>

\* The conditional put fails, or the lock is not to be had.
ClaimFails(o) ==
  /\ Running(o, "claim")
  /\ Goto(o, "raced")
  /\ UNCHANGED <<now, senderVars, acks, record, stored, restarts, handled>>

\* It looks again at who claimed it, and gives up when it sees nobody.
Raced(o) ==
  /\ Running(o, "raced")
  /\ \E says \in Visible(owner[o].cmd) :
       IF says = "none" THEN Finish(o) ELSE Answer(o, AnswerOf(says))
  /\ UNCHANGED <<now, senderVars, acks, record, stored, restarts, handled>>

\* The handler runs; a handler that throws is a rejection.
Handle(o) ==
  /\ Running(o, "handle")
  /\ handled' = [handled EXCEPT ![owner[o].cmd] = @ + 1]
  /\ \E says \in Verdicts :
       owner' = [owner EXCEPT ![o].at = "store", ![o].says = says]
  /\ UNCHANGED <<now, senderVars, acks, record, stored, restarts>>

\* mutant: the outcome is acknowledged even when it could not be stored
StoreFailsLoudly(o) ==
  /\ Running(o, "store")
  /\ Goto(o, "ack")
  /\ UNCHANGED <<now, senderVars, acks, record, stored, restarts, handled>>

\* put of the outcome on the claim's version, which a cleanup leaves in place.
Store(o) ==
  LET c == owner[o].cmd
  IN  /\ Running(o, "store")
      /\ record[c].version = 1
      /\ record' = [record EXCEPT ![c] = [version |-> 2, says |-> owner[o].says,
                                          expires |-> owner[o].time + Timeout]]
      /\ stored' = [stored EXCEPT ![c] = @ \cup {owner[o].says}]
      /\ Goto(o, "ack")
      /\ UNCHANGED <<now, senderVars, acks, restarts, handled>>

\* The outcome cannot be stored: nothing is acknowledged.
StoreFails(o) ==
  /\ Running(o, "store")
  /\ Finish(o)
  /\ UNCHANGED <<now, senderVars, acks, record, stored, restarts, handled>>

\* publishAcknowledgement; a failure to publish is swallowed.
Acknowledge(o) ==
  /\ Running(o, "ack")
  /\ \E sent \in {{}, {[cmd |-> owner[o].cmd, says |-> owner[o].says]}} :
       acks' = acks \cup sent
  /\ Finish(o)
  /\ UNCHANGED <<now, senderVars, record, stored, restarts, handled>>

\* cleanupSeen of this or any other owner deletes expired records of all.
Cleanup(c) ==
  /\ record[c].says \notin {"none", "deleted"} /\ record[c].expires < now
  /\ record' = [record EXCEPT ![c].says = "deleted"]
  /\ UNCHANGED <<now, senderVars, acks, stored, owner, restarts, handled>>

Crash(o) ==
  /\ owner[o].up /\ restarts[o] < MaxRestarts
  /\ owner' = [owner EXCEPT ![o] = [Started EXCEPT !.up = FALSE]]
  /\ UNCHANGED <<now, senderVars, acks, record, stored, restarts, handled>>

\* A new process under the same host id replays the retained log.
Restart(o) ==
  /\ ~owner[o].up
  /\ owner' = [owner EXCEPT ![o] = Started]
  /\ restarts' = [restarts EXCEPT ![o] = @ + 1]
  /\ UNCHANGED <<now, senderVars, acks, record, stored, handled>>

-----------------------------------------------------------------------------
SenderStep(c) ==
  \/ \E skew \in Skews : Request(c, skew)
  \/ Publish(c) \/ PublishFails(c) \/ TimesOut(c) \/ ReceiveAck(c) \/ CloseSender(c)

OwnerStep(o) ==
  \/ Take(o) \/ DrainThrows(o) \/ Judge(o) \/ Lookup(o)
  \/ Claim(o) \/ ClaimFails(o) \/ Raced(o)
  \/ Handle(o) \/ Store(o) \/ StoreFails(o) \/ Acknowledge(o)
  \/ Crash(o) \/ Restart(o)

Next ==
  \/ Tick
  \/ \E c \in Commands : SenderStep(c) \/ Cleanup(c)
  \/ \E o \in Owners : OwnerStep(o)

Spec == Init /\ [][Next]_vars

-----------------------------------------------------------------------------
(* Properties *)

\* The state is of the right shape.
TypeOK ==
  /\ now \in 0..MaxTime
  /\ request \in [Commands -> [at : {"none", "publishing", "waiting", "failed"},
                               deadline : 0..MaxTime]]
  /\ requestedAt \in [Commands -> Int]
  /\ outcome \in [Commands -> {Nothing, "accepted", "rejected", "failed", "timeout"}]
  /\ log \in Seq(Commands)
  /\ acks \subseteq [cmd : Commands, says : Answers]
  /\ record \in [Commands -> [version : 0..2,
                              says : {"none", "claimed", "deleted"} \cup Verdicts,
                              expires : 0..(MaxTime + Timeout)]]
  /\ stored \in [Commands -> SUBSET Verdicts]
  /\ owner \in [Owners -> [up : BOOLEAN, pos : Nat, at : Steps,
                           cmd : Commands \cup {Nothing}, time : 0..MaxTime,
                           says : Answers \cup {Nothing}]]
  /\ restarts \in [Owners -> 0..MaxRestarts]
  /\ handled \in [Commands -> Nat]

\* At-most-once execution: whatever is replayed, read from a stale cache,
\* cleaned up or interrupted, no command is handed to a handler twice.
AtMostOnce == \A c \in Commands : handled[c] <= 1

\* A verdict is acknowledged only after it was stored, and no two verdicts of
\* one command are ever acknowledged; hence a sender that is told "accepted"
\* is told of an execution its owner will stand by after a restart.
AcknowledgedIsStored ==
  /\ \A a \in acks : a.says \in Verdicts => stored[a.cmd] = {a.says}
  /\ \A c \in Commands : outcome[c] = "accepted" => stored[c] = {"accepted"}

\* A living owner goes on with the command: it was young when it read the clock.
Pursued(c) ==
  \E o \in Owners : /\ owner[o].cmd = c /\ owner[o].at \in {"judge", "lookup", "claim", "handle"}
                   /\ ~Expired(o)

Refused(c) == [cmd |-> c, says |-> "expired"] \in acks /\ ~Pursued(c)

\* A command that was refused as expired stays refused: no restart, replay or
\* cleanup lets it run later (clocks that differ by the timeout at most).
RefusedStaysRefused == [][\A c \in Commands : Refused(c) => Refused(c)']_vars

Interrupted(c) ==
  /\ [cmd |-> c, says |-> "indeterminate"] \in acks
  /\ ~\E o \in Owners : owner[o].cmd = c /\ owner[o].at = "handle"

\* A command whose outcome was reported as indeterminate is not run once its
\* claimant is gone: the caller may repeat it under a new id.
InterruptedStaysInterrupted ==
  [][\A c \in Commands : Interrupted(c) => Interrupted(c)']_vars
=============================================================================
