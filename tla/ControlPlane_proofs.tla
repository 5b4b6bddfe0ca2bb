------------------------ MODULE ControlPlane_proofs ------------------------
(***************************************************************************)
(* Proofs about ControlPlane for every set of commands and owners, every   *)
(* timeout and every bound.                                                *)
(***************************************************************************)
EXTENDS ControlPlane, TLAPS

-----------------------------------------------------------------------------
(* The inductive invariant *)

Request_ == [at : {"none", "publishing", "waiting", "failed"}, deadline : 0..MaxTime]
Record_ == [version : 0..2, says : {"none", "claimed", "deleted"} \cup Verdicts,
            expires : 0..(MaxTime + Timeout)]
Owner_ == [up : BOOLEAN, pos : Nat, at : Steps, cmd : Commands \cup {Nothing},
           time : 0..MaxTime, says : Answers \cup {Nothing}]

\* What an owner carries from step to step.
OwnerOK == \A o \in Owners :
  /\ owner[o].at # "idle" => owner[o].cmd \in Commands
  /\ owner[o].at = "store" => owner[o].says \in Verdicts
  /\ owner[o].at = "ack" => owner[o].says \in Answers
  /\ ~owner[o].up => restarts[o] < MaxRestarts

\* An owner that won the claim and has not stored the outcome.
Holds(o, c) == owner[o].cmd = c /\ owner[o].at \in {"handle", "store"}

\* The version of the claim tells how far the command got, whoever died.
ClaimOK == \A c \in Commands :
  /\ record[c].version = 0 => handled[c] = 0
  /\ handled[c] <= 1
  /\ record[c].version < 2 => stored[c] = {}
  /\ record[c].version = 2 => \E v \in Verdicts : stored[c] = {v}
  /\ \A o \in Owners : Holds(o, c) => record[c].version = 1
  /\ \A o \in Owners : Holds(o, c) /\ owner[o].at = "handle" => handled[c] = 0
  /\ \A o, p \in Owners : Holds(o, c) /\ Holds(p, c) => o = p

AckOK ==
  /\ \A o \in Owners : owner[o].at = "ack" /\ owner[o].says \in Verdicts
                         => stored[owner[o].cmd] = {owner[o].says}
  /\ AcknowledgedIsStored

ControlInv == TypeOK /\ OwnerOK /\ ClaimOK /\ AckOK

-----------------------------------------------------------------------------
(* Types *)

USE BoundAssumption DEF Request_, Record_, Owner_

\* The sender's steps keep the types.
LEMMA SenderTypes ==
  ASSUME TypeOK, NEW c \in Commands, SenderStep(c)
  PROVE  TypeOK'
<1> USE DEF senderVars, ownerVars
<1>o. /\ now \in 0..MaxTime /\ request \in [Commands -> Request_]
      /\ requestedAt \in [Commands -> Int] /\ log \in Seq(Commands)
      /\ outcome \in [Commands -> {Nothing, "accepted", "rejected", "failed", "timeout"}]
  BY DEF TypeOK
<1>u. ASSUME UNCHANGED ownerVars, UNCHANGED now, request' \in [Commands -> Request_],
             requestedAt' \in [Commands -> Int], log' \in Seq(Commands),
             outcome' \in [Commands -> {Nothing, "accepted", "rejected", "failed", "timeout"}]
      PROVE  TypeOK'
  BY <1>u DEF TypeOK
<1>1. ASSUME NEW skew \in Skews, Request(c, skew) PROVE TypeOK'
  <2>1. now + Timeout \in 0..MaxTime /\ now + skew \in Int
    BY <1>1, <1>o DEF Request
  <2>2. request' \in [Commands -> Request_] /\ requestedAt' \in [Commands -> Int]
    BY <1>1, <1>o, <2>1 DEF Request
  <2> QED
    BY <1>1, <1>o, <1>u, <2>2 DEF Request
<1>2. CASE Publish(c)
  <2>1. Append(log, c) \in Seq(Commands)
    BY <1>o
  <2>2. request' \in [Commands -> Request_]
    BY <1>2, <1>o DEF Publish
  <2> QED
    BY <1>2, <1>o, <1>u, <2>1, <2>2 DEF Publish
<1>3. CASE PublishFails(c)
  BY <1>3, <1>o, <1>u DEF PublishFails, Settle
<1>4. CASE TimesOut(c)
  BY <1>4, <1>o, <1>u DEF TimesOut, Settle
<1>5. CASE ReceiveAck(c)
  BY <1>5, <1>o, <1>u DEF ReceiveAck, Settle
<1>6. CASE CloseSender(c)
  BY <1>6, <1>o, <1>u DEF CloseSender, Settle
<1> QED
  BY <1>1, <1>2, <1>3, <1>4, <1>5, <1>6 DEF SenderStep

\* A step of an owner that puts it into a proper state keeps what owners carry.
LEMMA OwnerMoves ==
  ASSUME TypeOK, OwnerOK, NEW o \in Owners, NEW r \in Owner_,
         owner' = [owner EXCEPT ![o] = r],
         r.at # "idle" => r.cmd \in Commands,
         r.at = "store" => r.says \in Verdicts,
         r.at = "ack" => r.says \in Answers,
         r.up, restarts' = restarts
  PROVE  owner' \in [Owners -> Owner_] /\ OwnerOK'
<1>1. owner' \in [Owners -> Owner_]
  BY DEF TypeOK
<1>2. ASSUME NEW q \in Owners
      PROVE  /\ owner'[q].at # "idle" => owner'[q].cmd \in Commands
             /\ owner'[q].at = "store" => owner'[q].says \in Verdicts
             /\ owner'[q].at = "ack" => owner'[q].says \in Answers
             /\ ~owner'[q].up => restarts'[q] < MaxRestarts
  <2>1. owner'[q] = IF q = o THEN r ELSE owner[q]
    BY DEF TypeOK
  <2> QED
    BY <2>1 DEF OwnerOK
<1> QED
  BY <1>1, <1>2 DEF OwnerOK

\* Going on to another step with the same command.
LEMMA GotoMoves ==
  ASSUME TypeOK, OwnerOK, NEW o \in Owners, NEW step \in Steps, Goto(o, step),
         owner[o].up, owner[o].at # "idle",
         step = "store" => owner[o].says \in Verdicts,
         step = "ack" => owner[o].says \in Answers,
         restarts' = restarts
  PROVE  owner' \in [Owners -> Owner_] /\ OwnerOK'
<1> DEFINE r == [owner[o] EXCEPT !.at = step]
<1>1. owner[o] \in Owner_
  BY DEF TypeOK
<1>2. r \in Owner_ /\ r.at = step /\ r.cmd = owner[o].cmd /\ r.says = owner[o].says /\ r.up
  BY <1>1
<1>3. owner' = [owner EXCEPT ![o] = r]
  BY DEF Goto
<1>4. owner[o].cmd \in Commands
  BY DEF OwnerOK
<1> HIDE DEF r
<1> QED
  BY <1>2, <1>3, <1>4, OwnerMoves

\* Going on to the acknowledgement.
LEMMA AnswerMoves ==
  ASSUME TypeOK, OwnerOK, NEW o \in Owners, NEW says \in Answers, Answer(o, says),
         owner[o].up, owner[o].at # "idle", restarts' = restarts
  PROVE  owner' \in [Owners -> Owner_] /\ OwnerOK'
<1> DEFINE r == [owner[o] EXCEPT !.at = "ack", !.says = says]
<1>1. owner[o] \in Owner_
  BY DEF TypeOK
<1>2. r \in Owner_ /\ r.at = "ack" /\ r.cmd = owner[o].cmd /\ r.says = says /\ r.up
  BY <1>1 DEF Steps
<1>3. owner' = [owner EXCEPT ![o] = r]
  BY DEF Answer
<1>4. owner[o].cmd \in Commands
  BY DEF OwnerOK
<1> HIDE DEF r
<1> QED
  BY <1>2, <1>3, <1>4, OwnerMoves

\* The state an owner starts in is proper.
LEMMA StartedProper == Started \in Owner_ /\ Started.at = "idle" /\ Started.up
BY DEF Started, Steps

\* Being done with a command, at some place of the log.
LEMMA DoneMoves ==
  ASSUME TypeOK, OwnerOK, NEW o \in Owners, NEW pos \in Nat,
         owner' = [owner EXCEPT ![o] = [Started EXCEPT !.pos = pos]],
         restarts' = restarts
  PROVE  owner' \in [Owners -> Owner_] /\ OwnerOK'
<1> DEFINE r == [Started EXCEPT !.pos = pos]
<1>1. r \in Owner_ /\ r.at = "idle" /\ r.up
  BY StartedProper
<1> HIDE DEF r
<1>2. owner' = [owner EXCEPT ![o] = r]
  BY DEF r
<1> QED
  BY <1>1, <1>2, OwnerMoves

\* The answers an owner can derive from what it sees are answers.
LEMMA VisibleAnswers ==
  ASSUME TypeOK, NEW c \in Commands, NEW says \in Visible(c), says # "none"
  PROVE  AnswerOf(says) \in Answers
BY DEF TypeOK, Visible, AnswerOf, Answers, Verdicts

\* The owners' steps keep the types and what an owner carries.
LEMMA OwnerTypes ==
  ASSUME TypeOK, OwnerOK, NEW o \in Owners, OwnerStep(o)
  PROVE  TypeOK' /\ OwnerOK'
<1> DEFINE c == owner[o].cmd
<1>o. owner[o] \in Owner_ /\ restarts \in [Owners -> 0..MaxRestarts]
  BY DEF TypeOK
<1>c. owner[o].at # "idle" => c \in Commands
  BY DEF OwnerOK
<1>t. ASSUME owner' \in [Owners -> Owner_], UNCHANGED senderVars, UNCHANGED now,
             acks' \subseteq [cmd : Commands, says : Answers],
             record' \in [Commands -> Record_], stored' \in [Commands -> SUBSET Verdicts],
             restarts' \in [Owners -> 0..MaxRestarts], handled' \in [Commands -> Nat]
      PROVE  TypeOK'
  BY <1>t DEF TypeOK, senderVars
<1>u. ASSUME UNCHANGED <<acks, record, stored, restarts, handled>>
      PROVE  /\ acks' \subseteq [cmd : Commands, says : Answers]
             /\ record' \in [Commands -> Record_] /\ stored' \in [Commands -> SUBSET Verdicts]
             /\ restarts' \in [Owners -> 0..MaxRestarts] /\ handled' \in [Commands -> Nat]
  BY <1>u DEF TypeOK
<1>1. CASE Take(o)
  <2> DEFINE next == owner[o].pos + 1
             r == [owner[o] EXCEPT !.pos = next, !.cmd = log[next], !.time = now, !.at = "judge"]
  <2>0. owner[o].pos \in Nat /\ log \in Seq(Commands) /\ now \in 0..MaxTime /\ owner[o].up
        /\ owner[o].pos < Len(log)
    BY <1>1, <1>o DEF Take, Running, TypeOK
  <2>1. next \in Nat /\ next \in 1..Len(log)
    BY <2>0
  <2>2. r \in Owner_ /\ r.cmd \in Commands /\ r.at = "judge" /\ r.up
    <3>1. log[next] \in Commands
      BY <2>0, <2>1
    <3>2. "judge" \in Steps
      BY DEF Steps
    <3> HIDE DEF next
    <3> QED
      BY <1>o, <2>0, <2>1, <3>1, <3>2
  <2>3. owner' = [owner EXCEPT ![o] = r]
    BY <1>1 DEF Take
  <2> HIDE DEF r
  <2>4. owner' \in [Owners -> Owner_] /\ OwnerOK'
    BY <1>1, <2>2, <2>3, OwnerMoves DEF Take
  <2> QED
    BY <1>1, <1>t, <1>u, <2>4 DEF Take
<1>2. CASE DrainThrows(o)
  <2>1. PICK pos \in owner[o].pos..Len(log) :
          owner' = [owner EXCEPT ![o] = [Started EXCEPT !.pos = pos]]
    BY <1>2 DEF DrainThrows
  <2>2. pos \in Nat
    BY <1>o, <2>1 DEF TypeOK
  <2>3. owner' \in [Owners -> Owner_] /\ OwnerOK'
    BY <1>2, <2>1, <2>2, DoneMoves DEF DrainThrows
  <2> QED
    BY <1>2, <1>t, <1>u, <2>3 DEF DrainThrows
<1>3. CASE Judge(o)
  <2>1. owner' \in [Owners -> Owner_] /\ OwnerOK'
    BY <1>3, GotoMoves, AnswerMoves DEF Judge, Running, Steps, Answers
  <2> QED
    BY <1>3, <1>t, <1>u, <2>1 DEF Judge
<1>4. CASE Lookup(o)
  <2>1. owner' \in [Owners -> Owner_] /\ OwnerOK'
    BY <1>4, <1>c, GotoMoves, AnswerMoves, VisibleAnswers DEF Lookup, Looks, Running, Steps
  <2> QED
    BY <1>4, <1>t, <1>u, <2>1 DEF Lookup
<1>5. CASE Claim(o)
  <2>1. owner' \in [Owners -> Owner_] /\ OwnerOK'
    BY <1>5, GotoMoves DEF Claim, Running, Steps
  <2>2. [version |-> record[c].version + 1, says |-> "claimed",
         expires |-> owner[o].time + Timeout] \in Record_
    BY <1>5, <1>o, <1>c DEF Claim, Claimable, Running
  <2>3. record' \in [Commands -> Record_]
    BY <1>5, <2>2 DEF Claim, TypeOK
  <2> QED
    BY <1>5, <1>t, <2>1, <2>3 DEF Claim, TypeOK
<1>6. CASE ClaimFails(o)
  <2>1. owner' \in [Owners -> Owner_] /\ OwnerOK'
    BY <1>6, GotoMoves DEF ClaimFails, Running, Steps
  <2> QED
    BY <1>6, <1>t, <1>u, <2>1 DEF ClaimFails
<1>7. CASE Raced(o)
  <2>1. owner' \in [Owners -> Owner_] /\ OwnerOK'
    BY <1>7, <1>c, <1>o, DoneMoves, AnswerMoves, VisibleAnswers DEF Raced, Running, Finish
  <2> QED
    BY <1>7, <1>t, <1>u, <2>1 DEF Raced
<1>8. CASE Handle(o)
  <2>1. PICK says \in Verdicts :
          owner' = [owner EXCEPT ![o].at = "store", ![o].says = says]
    BY <1>8 DEF Handle
  <2> DEFINE r == [owner[o] EXCEPT !.at = "store", !.says = says]
  <2>2. r \in Owner_ /\ r.cmd \in Commands /\ r.at = "store" /\ r.says \in Verdicts /\ r.up
    BY <1>8, <1>o, <1>c DEF Handle, Running, Steps, Answers
  <2>3. owner' = [owner EXCEPT ![o] = r]
    BY <2>1
  <2> HIDE DEF r
  <2>4. owner' \in [Owners -> Owner_] /\ OwnerOK'
    BY <1>8, <2>2, <2>3, OwnerMoves DEF Handle
  <2>5. handled' \in [Commands -> Nat]
    <3>1. handled \in [Commands -> Nat] /\ c \in Commands
      BY <1>8, <1>c DEF Handle, Running, TypeOK
    <3> HIDE DEF c
    <3>2. [handled EXCEPT ![c] = @ + 1] \in [Commands -> Nat]
      BY <3>1
    <3> QED
      BY <1>8, <3>2 DEF Handle, c
  <2> QED
    BY <1>8, <1>t, <2>4, <2>5 DEF Handle, TypeOK
<1>9. CASE Store(o)
  <2>1. owner[o].says \in Verdicts /\ c \in Commands
    BY <1>9, <1>c DEF Store, Running, OwnerOK
  <2>2. owner' \in [Owners -> Owner_] /\ OwnerOK'
    BY <1>9, <2>1, GotoMoves DEF Store, Running, Steps, Answers
  <2>3. [version |-> 2, says |-> owner[o].says, expires |-> owner[o].time + Timeout] \in Record_
    BY <1>o, <2>1
  <2>4. record' \in [Commands -> Record_] /\ stored' \in [Commands -> SUBSET Verdicts]
    BY <1>9, <2>1, <2>3 DEF Store, TypeOK
  <2> QED
    BY <1>9, <1>t, <2>2, <2>4 DEF Store, TypeOK
<1>10. CASE StoreFails(o)
  <2>1. owner' \in [Owners -> Owner_] /\ OwnerOK'
    BY <1>10, <1>o, DoneMoves DEF StoreFails, Finish
  <2> QED
    BY <1>10, <1>t, <1>u, <2>1 DEF StoreFails
<1>11. CASE Acknowledge(o)
  <2>1. owner' \in [Owners -> Owner_] /\ OwnerOK'
    BY <1>11, <1>o, DoneMoves DEF Acknowledge, Finish
  <2>2. [cmd |-> c, says |-> owner[o].says] \in [cmd : Commands, says : Answers]
    BY <1>11, <1>c DEF Acknowledge, Running, OwnerOK
  <2>3. acks' \subseteq [cmd : Commands, says : Answers]
    BY <1>11, <2>2 DEF Acknowledge, TypeOK
  <2> QED
    BY <1>11, <1>t, <2>1, <2>3 DEF Acknowledge, TypeOK
<1>12. CASE Crash(o)
  <2> DEFINE r == [Started EXCEPT !.up = FALSE]
  <2>1. r \in Owner_ /\ r.at = "idle" /\ ~r.up
    BY StartedProper
  <2>2. owner' = [owner EXCEPT ![o] = r] /\ restarts[o] < MaxRestarts /\ restarts' = restarts
    BY <1>12 DEF Crash
  <2> HIDE DEF r
  <2>3. owner' \in [Owners -> Owner_]
    BY <2>1, <2>2 DEF TypeOK
  <2>4. \A q \in Owners : owner'[q] = IF q = o THEN r ELSE owner[q]
    BY <2>2 DEF TypeOK
  <2>5. OwnerOK'
    BY <2>1, <2>2, <2>4 DEF OwnerOK
  <2> QED
    BY <1>12, <1>t, <1>u, <2>3, <2>5 DEF Crash
<1>13. CASE Restart(o)
  <2>2. owner' \in [Owners -> Owner_]
    BY <1>13, StartedProper DEF Restart, TypeOK
  <2>3. restarts' \in [Owners -> 0..MaxRestarts]
    BY <1>13, <1>o DEF Restart, OwnerOK
  <2>4. \A q \in Owners : /\ owner'[q] = IF q = o THEN Started ELSE owner[q]
                          /\ q # o => restarts'[q] = restarts[q]
    BY <1>13 DEF Restart, TypeOK
  <2>5. OwnerOK'
    BY StartedProper, <2>4 DEF OwnerOK
  <2> QED
    BY <1>13, <1>t, <2>2, <2>3, <2>5 DEF Restart, TypeOK
<1> QED
  BY <1>1, <1>2, <1>3, <1>4, <1>5, <1>6, <1>7, <1>8, <1>9, <1>10, <1>11, <1>12,
     <1>13 DEF OwnerStep

-----------------------------------------------------------------------------
(* At most one execution *)

\* A step of an owner changes no other owner.
LEMMA OthersStay ==
  ASSUME TypeOK, NEW o \in Owners, OwnerStep(o), NEW q \in Owners, q # o
  PROVE  owner'[q] = owner[q]
<1> USE DEF TypeOK
<1>1. CASE Take(o) \/ DrainThrows(o) \/ Judge(o) \/ Lookup(o)
  BY <1>1 DEF Take, DrainThrows, Judge, Lookup, Looks, Goto, Answer
<1>2. CASE Claim(o) \/ ClaimFails(o) \/ Raced(o) \/ Handle(o)
  BY <1>2 DEF Claim, ClaimFails, Raced, Handle, Goto, Answer, Finish
<1>3. CASE Store(o) \/ StoreFails(o) \/ Acknowledge(o)
  BY <1>3 DEF Store, StoreFails, Acknowledge, Goto, Finish
<1>4. CASE Crash(o) \/ Restart(o)
  BY <1>4 DEF Crash, Restart
<1> QED
  BY <1>1, <1>2, <1>3, <1>4 DEF OwnerStep

\* These steps of an owner claim nothing, run nothing and store nothing.
Quiet(o) ==
  \/ Take(o) \/ DrainThrows(o) \/ Judge(o) \/ Lookup(o) \/ ClaimFails(o)
  \/ Raced(o) \/ StoreFails(o) \/ Acknowledge(o) \/ Crash(o) \/ Restart(o)

\* They leave the claims alone and win none.
LEMMA QuietSteps ==
  ASSUME TypeOK, NEW o \in Owners, Quiet(o)
  PROVE  /\ UNCHANGED <<record, stored, handled>>
         /\ owner'[o].at \notin {"handle", "store"}
<1>o. owner \in [Owners -> Owner_]
  BY DEF TypeOK
<1>1. ASSUME NEW r, owner' = [owner EXCEPT ![o] = r] PROVE owner'[o] = r
  BY <1>o, <1>1
<1>2. ASSUME NEW step, Goto(o, step) PROVE owner'[o].at = step
  BY <1>o, <1>2 DEF Goto
<1>3. ASSUME NEW says, Answer(o, says) PROVE owner'[o].at = "ack"
  BY <1>o, <1>3 DEF Answer
<1>4. \A pos : [Started EXCEPT !.pos = pos].at = "idle"
  BY StartedProper
<1>5. CASE Take(o)
  BY <1>5, <1>o DEF Take
<1>6. CASE DrainThrows(o)
  BY <1>6, <1>1, <1>4 DEF DrainThrows
<1>7. CASE Judge(o)
  BY <1>7, <1>2, <1>3 DEF Judge
<1>8. CASE Lookup(o)
  BY <1>8, <1>2, <1>3 DEF Lookup, Looks
<1>9. CASE ClaimFails(o)
  BY <1>9, <1>2 DEF ClaimFails
<1>10. CASE Raced(o)
  BY <1>10, <1>1, <1>3, <1>4 DEF Raced, Finish
<1>11. CASE StoreFails(o)
  BY <1>11, <1>1, <1>4 DEF StoreFails, Finish
<1>12. CASE Acknowledge(o)
  BY <1>12, <1>1, <1>4 DEF Acknowledge, Finish
<1>13. CASE Crash(o)
  <2>1. [Started EXCEPT !.up = FALSE].at = "idle"
    BY StartedProper
  <2> QED
    BY <1>13, <1>1, <2>1 DEF Crash
<1>14. CASE Restart(o)
  BY <1>14, <1>1, StartedProper DEF Restart
<1> QED
  BY <1>5, <1>6, <1>7, <1>8, <1>9, <1>10, <1>11, <1>12, <1>13, <1>14 DEF Quiet

\* ClaimOK reads versions, counts and who holds a claim, nothing else.
LEMMA ClaimUntouched ==
  ASSUME ClaimOK, UNCHANGED <<stored, handled>>,
         \A c \in Commands : record'[c].version = record[c].version,
         \A q \in Owners : owner'[q] = owner[q] \/ owner'[q].at \notin {"handle", "store"}
  PROVE  ClaimOK'
BY DEF ClaimOK, Holds

\* Cleaning up keeps the version of the claim.
LEMMA CleanupKeepsVersions ==
  ASSUME TypeOK, NEW c \in Commands, Cleanup(c), NEW d \in Commands
  PROVE  record'[d].version = record[d].version
BY DEF Cleanup, TypeOK

\* Every step of an owner keeps the claims in order.
LEMMA OwnerClaims ==
  ASSUME TypeOK, OwnerOK, ClaimOK, NEW o \in Owners, OwnerStep(o)
  PROVE  ClaimOK'
<1> DEFINE c == owner[o].cmd
<1>o. owner \in [Owners -> Owner_] /\ record \in [Commands -> Record_]
      /\ handled \in [Commands -> Nat] /\ stored \in [Commands -> SUBSET Verdicts]
  BY DEF TypeOK
<1>q. \A q \in Owners : q # o => owner'[q] = owner[q]
  BY OthersStay
<1>1. CASE Quiet(o)
  BY <1>1, <1>q, QuietSteps, ClaimUntouched
<1>2. CASE Claim(o)
  <2>1. c \in Commands
    BY <1>2 DEF Claim, Running, OwnerOK
  <2>2. owner'[o].at = "handle" /\ owner'[o].cmd = c
    BY <1>2, <1>o DEF Claim, Goto
  <2>3. /\ record[c].version = 0 /\ record'[c].version = 1
        /\ \A d \in Commands : d # c => record'[d] = record[d]
    BY <1>2, <1>o, <2>1 DEF Claim, Claimable
  <2>4. UNCHANGED <<stored, handled>>
    BY <1>2 DEF Claim
  <2>5. \A q \in Owners : ~Holds(q, c)
    BY <2>1, <2>3 DEF ClaimOK
  <2> HIDE DEF c
  <2> QED
    BY <1>q, <2>1, <2>2, <2>3, <2>4, <2>5 DEF ClaimOK, Holds
<1>3. CASE Handle(o)
  <2>1. c \in Commands
    BY <1>3 DEF Handle, Running, OwnerOK
  <2>2. owner[o].at = "handle" /\ owner'[o].at = "store" /\ owner'[o].cmd = c
    BY <1>3, <1>o DEF Handle, Running
  <2>3. /\ handled'[c] = handled[c] + 1
        /\ \A d \in Commands : d # c => handled'[d] = handled[d]
    BY <1>3, <1>o, <2>1 DEF Handle
  <2>4. UNCHANGED <<stored, record>>
    BY <1>3 DEF Handle
  <2>5. /\ Holds(o, c) /\ record[c].version = 1 /\ handled[c] = 0
        /\ \A q \in Owners : Holds(q, c) => q = o
    BY <2>1, <2>2 DEF ClaimOK, Holds
  <2> HIDE DEF c
  <2> QED
    BY <1>q, <2>1, <2>2, <2>3, <2>4, <2>5 DEF ClaimOK, Holds
<1>4. CASE Store(o)
  <2>1. c \in Commands /\ owner[o].says \in Verdicts
    BY <1>4 DEF Store, Running, OwnerOK
  <2>2. owner[o].at = "store" /\ owner'[o].at = "ack"
    BY <1>4, <1>o DEF Store, Running, Goto
  <2>3. /\ record[c].version = 1 /\ record'[c].version = 2
        /\ \A d \in Commands : d # c => record'[d] = record[d]
    BY <1>4, <1>o, <2>1 DEF Store
  <2>4. /\ stored'[c] = stored[c] \cup {owner[o].says}
        /\ \A d \in Commands : d # c => stored'[d] = stored[d]
    BY <1>4, <1>o, <2>1 DEF Store
  <2>5. UNCHANGED handled
    BY <1>4 DEF Store
  <2>6. /\ Holds(o, c) /\ stored[c] = {}
        /\ \A q \in Owners : Holds(q, c) => q = o
    BY <2>1, <2>2, <2>3 DEF ClaimOK, Holds
  <2>7. stored'[c] = {owner[o].says}
    BY <2>4, <2>6
  <2> HIDE DEF c
  <2> QED
    BY <1>q, <2>1, <2>2, <2>3, <2>4, <2>5, <2>6, <2>7 DEF ClaimOK, Holds
<1> QED
  BY <1>1, <1>2, <1>3, <1>4 DEF OwnerStep, Quiet

-----------------------------------------------------------------------------
(* Acknowledged verdicts *)

\* What an owner sees as the outcome of a command is what was stored.
LEMMA VisibleIsStored ==
  ASSUME TypeOK, ClaimOK, NEW c \in Commands, NEW says \in Visible(c),
         AnswerOf(says) \in Verdicts
  PROVE  stored[c] = {AnswerOf(says)}
<1>1. record[c].version \in 0..2
  BY DEF TypeOK
<1>2. says \in stored[c] /\ AnswerOf(says) = says
  BY DEF Visible, AnswerOf, Verdicts
<1>3. record[c].version = 2
  BY <1>1, <1>2 DEF ClaimOK
<1> QED
  BY <1>2, <1>3 DEF ClaimOK

\* The sender reports an acceptance only if it was acknowledged.
LEMMA SenderAcks ==
  ASSUME TypeOK, AckOK, NEW c \in Commands, SenderStep(c)
  PROVE  AckOK'
<1> USE DEF senderVars, ownerVars, Settle
<1>o. outcome \in [Commands -> {Nothing, "accepted", "rejected", "failed", "timeout"}]
  BY DEF TypeOK
<1>1. UNCHANGED <<owner, stored, acks>>
  BY DEF SenderStep, Request, Publish, PublishFails, TimesOut, ReceiveAck, CloseSender
<1>2. ASSUME NEW d \in Commands, outcome'[d] = "accepted"
      PROVE  outcome[d] = "accepted" \/ [cmd |-> d, says |-> "accepted"] \in acks
  <2>1. CASE ReceiveAck(c)
    <3>1. PICK a \in acks : /\ a.cmd = c
                            /\ outcome' = [outcome EXCEPT ![c] = IF a.says = "accepted"
                                                                THEN "accepted" ELSE "rejected"]
      BY <2>1 DEF ReceiveAck
    <3>2. acks \subseteq [cmd : Commands, says : Answers]
      BY DEF TypeOK
    <3>3. a = [cmd |-> a.cmd, says |-> a.says]
      BY <3>2
    <3> QED
      BY <1>2, <1>o, <3>1, <3>3
  <2>2. CASE ~ReceiveAck(c)
    BY <1>2, <1>o, <2>2 DEF SenderStep, Request, Publish, PublishFails, TimesOut, CloseSender
  <2> QED
    BY <2>1, <2>2
<1> QED
  BY <1>1, <1>2 DEF AckOK, AcknowledgedIsStored, Verdicts

\* An owner acknowledges a verdict only if that is the one stored.
LEMMA OwnerAcks ==
  ASSUME TypeOK, OwnerOK, ClaimOK, AckOK, NEW o \in Owners, OwnerStep(o)
  PROVE  AckOK'
<1> DEFINE c == owner[o].cmd
<1> USE DEF senderVars
<1>o. owner \in [Owners -> Owner_] /\ acks \subseteq [cmd : Commands, says : Answers]
      /\ stored \in [Commands -> SUBSET Verdicts]
  BY DEF TypeOK
<1>q. \A q \in Owners : q # o => owner'[q] = owner[q]
  BY OthersStay
<1>v. "expired" \notin Verdicts
  BY DEF Verdicts
<1>u. UNCHANGED outcome
  BY DEF OwnerStep, Take, DrainThrows, Judge, Lookup, Claim, ClaimFails, Raced, Handle, Store,
         StoreFails, Acknowledge, Crash, Restart
<1>n. ASSUME UNCHANGED <<acks, stored>>,
             owner'[o].at # "ack" \/ owner'[o].says \notin Verdicts
               \/ stored[owner'[o].cmd] = {owner'[o].says}
      PROVE  AckOK'
  <2>1. ASSUME NEW q \in Owners, owner'[q].at = "ack", owner'[q].says \in Verdicts
        PROVE  stored'[owner'[q].cmd] = {owner'[q].says}
    BY <1>n, <1>q, <2>1 DEF AckOK
  <2>2. AcknowledgedIsStored'
    BY <1>n, <1>u DEF AckOK, AcknowledgedIsStored
  <2> QED
    BY <2>1, <2>2 DEF AckOK
<1>a. ASSUME NEW says, Answer(o, says)
      PROVE  owner'[o].cmd = c /\ owner'[o].says = says
  BY <1>a, <1>o DEF Answer
<1>g. ASSUME NEW step, Goto(o, step) PROVE owner'[o].at = step
  BY <1>g, <1>o DEF Goto
<1>f. ASSUME NEW pos, owner' = [owner EXCEPT ![o] = [Started EXCEPT !.pos = pos]]
      PROVE  owner'[o].at = "idle"
  BY <1>f, <1>o, StartedProper
<1>1. CASE Take(o) \/ DrainThrows(o)
  <2>1. CASE Take(o)
    <3>1. owner'[o].at = "judge"
      BY <1>o, <2>1 DEF Take
    <3> QED
      BY <1>n, <2>1, <3>1 DEF Take
  <2>2. CASE DrainThrows(o)
    <3>1. owner'[o].at = "idle"
      BY <1>f, <2>2 DEF DrainThrows
    <3> QED
      BY <1>n, <2>2, <3>1 DEF DrainThrows
  <2> QED
    BY <1>1, <2>1, <2>2
<1>2. CASE Judge(o)
  <2>1. owner'[o].at # "ack" \/ owner'[o].says = "expired"
    BY <1>2, <1>a, <1>g DEF Judge
  <2> QED
    BY <1>2, <1>n, <1>v, <2>1 DEF Judge
<1>3. CASE Lookup(o) \/ Raced(o)
  <2>1. c \in Commands
    BY <1>3 DEF Lookup, Raced, Running, OwnerOK
  <2>2. CASE owner'[o].at # "ack"
    BY <1>3, <1>n, <2>2 DEF Lookup, Raced
  <2>3. CASE owner'[o].at = "ack"
    <3>1. PICK says \in Visible(c) : Answer(o, AnswerOf(says))
      BY <1>3, <1>f, <1>g, <2>3 DEF Lookup, Looks, Raced, Finish
    <3>2. AnswerOf(says) \in Verdicts => stored[c] = {AnswerOf(says)}
      BY <2>1, <3>1, VisibleIsStored
    <3> QED
      BY <1>3, <1>n, <1>a, <3>1, <3>2 DEF Lookup, Raced
  <2> QED
    BY <2>2, <2>3
<1>4. CASE Claim(o) \/ ClaimFails(o)
  <2>1. owner'[o].at # "ack"
    BY <1>4, <1>g DEF Claim, ClaimFails
  <2> QED
    BY <1>4, <1>n, <2>1 DEF Claim, ClaimFails
<1>5. CASE Handle(o)
  <2>1. owner'[o].at = "store"
    BY <1>5, <1>o DEF Handle
  <2> QED
    BY <1>5, <1>n, <2>1 DEF Handle
<1>6. CASE Store(o)
  <2>1. c \in Commands /\ owner[o].at = "store" /\ record[c].version = 1
    BY <1>6 DEF Store, Running, OwnerOK
  <2>2. stored[c] = {}
    BY <2>1 DEF ClaimOK
  <2>3. /\ stored'[c] = {owner[o].says}
        /\ \A d \in Commands : d # c => stored'[d] = stored[d]
    BY <1>6, <1>o, <2>1, <2>2 DEF Store
  <2>4. owner'[o].cmd = c /\ owner'[o].says = owner[o].says /\ UNCHANGED acks
    BY <1>6, <1>o DEF Store, Goto
  <2> HIDE DEF c
  <2>5. ASSUME NEW q \in Owners, owner'[q].at = "ack", owner'[q].says \in Verdicts
        PROVE  stored'[owner'[q].cmd] = {owner'[q].says}
    <3>1. CASE q = o
      BY <2>3, <2>4, <3>1
    <3>2. CASE q # o
      <4>1. owner[q].cmd \in Commands /\ stored[owner[q].cmd] = {owner[q].says}
        BY <1>q, <2>5, <3>2 DEF AckOK, OwnerOK
      <4> QED
        BY <1>q, <2>2, <2>3, <3>2, <4>1
    <3> QED
      BY <3>1, <3>2
  <2>6. AcknowledgedIsStored'
    <3>1. \A a \in acks : a.cmd \in Commands
      BY <1>o
    <3> QED
      BY <1>u, <2>2, <2>3, <2>4, <3>1 DEF AckOK, AcknowledgedIsStored
  <2> QED
    BY <2>5, <2>6 DEF AckOK
<1>7. CASE StoreFails(o)
  <2>1. owner'[o].at = "idle"
    BY <1>7, <1>f DEF StoreFails, Finish
  <2> QED
    BY <1>7, <1>n, <2>1 DEF StoreFails
<1>8. CASE Acknowledge(o)
  <2>1. owner'[o].at = "idle" /\ UNCHANGED stored
    BY <1>8, <1>f DEF Acknowledge, Finish
  <2>2. owner[o].says \in Verdicts => stored[c] = {owner[o].says}
    BY <1>8 DEF Acknowledge, Running, AckOK
  <2>3. \A a \in acks' : a \in acks \/ a = [cmd |-> c, says |-> owner[o].says]
    BY <1>8 DEF Acknowledge
  <2> HIDE DEF c
  <2>4. ASSUME NEW a \in acks', a.says \in Verdicts PROVE stored[a.cmd] = {a.says}
    BY <2>2, <2>3, <2>4 DEF AckOK, AcknowledgedIsStored
  <2>5. AcknowledgedIsStored'
    BY <1>u, <2>1, <2>4 DEF AckOK, AcknowledgedIsStored
  <2> QED
    BY <1>q, <2>1, <2>5 DEF AckOK
<1>9. CASE Crash(o) \/ Restart(o)
  <2>1. [Started EXCEPT !.up = FALSE].at = "idle"
    BY StartedProper
  <2>2. owner'[o].at = "idle"
    BY <1>9, <1>o, <2>1, StartedProper DEF Crash, Restart
  <2> QED
    BY <1>9, <1>n, <2>2 DEF Crash, Restart
<1> QED
  BY <1>1, <1>2, <1>3, <1>4, <1>5, <1>6, <1>7, <1>8, <1>9 DEF OwnerStep

-----------------------------------------------------------------------------
(* The invariant *)

\* The system starts in order.
LEMMA ControlStarts == Init => ControlInv
<1> SUFFICES ASSUME Init PROVE ControlInv
  OBVIOUS
<1>1. TypeOK
  <2>1. Unclaimed \in Record_ /\ NoRequest \in Request_
    BY DEF Unclaimed, NoRequest
  <2> QED
    BY <2>1, StartedProper DEF Init, TypeOK
<1>2. OwnerOK
  BY StartedProper DEF Init, OwnerOK
<1>3. ClaimOK
  BY StartedProper DEF Init, ClaimOK, Holds, Unclaimed
<1>4. AckOK
  BY StartedProper, NothingAssumption DEF Init, AckOK, AcknowledgedIsStored
<1> QED
  BY <1>1, <1>2, <1>3, <1>4 DEF ControlInv

\* Every step keeps it in order.
LEMMA ControlKeeps == ControlInv /\ [Next]_vars => ControlInv'
<1> SUFFICES ASSUME ControlInv, [Next]_vars PROVE ControlInv'
  OBVIOUS
<1>i. TypeOK /\ OwnerOK /\ ClaimOK /\ AckOK
  BY DEF ControlInv
<1>1. CASE Tick
  <2>1. TypeOK'
    BY <1>1, <1>i DEF Tick, TypeOK, senderVars, ownerVars
  <2>2. UNCHANGED <<owner, restarts, record, stored, handled, acks, outcome>>
    BY <1>1 DEF Tick, senderVars, ownerVars
  <2> QED
    BY <1>i, <2>1, <2>2 DEF ControlInv, OwnerOK, ClaimOK, Holds, AckOK, AcknowledgedIsStored
<1>2. ASSUME NEW c \in Commands, SenderStep(c) PROVE ControlInv'
  <2>1. UNCHANGED <<owner, restarts, record, stored, handled>>
    BY <1>2 DEF SenderStep, Request, Publish, PublishFails, TimesOut, ReceiveAck, CloseSender,
                ownerVars
  <2>2. OwnerOK' /\ ClaimOK'
    BY <1>i, <2>1 DEF OwnerOK, ClaimOK, Holds
  <2> QED
    BY <1>2, <1>i, <2>2, SenderTypes, SenderAcks DEF ControlInv
<1>3. ASSUME NEW c \in Commands, Cleanup(c) PROVE ControlInv'
  <2>1. UNCHANGED <<owner, restarts, stored, handled, acks, outcome>>
    BY <1>3 DEF Cleanup, senderVars
  <2>2. TypeOK'
    <3>1. record \in [Commands -> Record_]
      BY <1>i DEF TypeOK
    <3>2. record' \in [Commands -> Record_]
      BY <1>3, <3>1 DEF Cleanup
    <3> QED
      BY <1>3, <1>i, <3>2 DEF Cleanup, TypeOK, senderVars
  <2>3. ClaimOK'
    BY <1>3, <1>i, <2>1, CleanupKeepsVersions, ClaimUntouched
  <2> QED
    BY <1>i, <2>1, <2>2, <2>3 DEF ControlInv, OwnerOK, AckOK, AcknowledgedIsStored
<1>4. ASSUME NEW o \in Owners, OwnerStep(o) PROVE ControlInv'
  BY <1>4, <1>i, OwnerTypes, OwnerClaims, OwnerAcks DEF ControlInv
<1>5. CASE UNCHANGED vars
  <2>1. TypeOK'
    BY <1>5, <1>i DEF vars, TypeOK
  <2>2. UNCHANGED <<owner, restarts, record, stored, handled, acks, outcome>>
    BY <1>5 DEF vars
  <2> QED
    BY <1>i, <2>1, <2>2 DEF ControlInv, OwnerOK, ClaimOK, Holds, AckOK, AcknowledgedIsStored
<1> QED
  BY <1>1, <1>2, <1>3, <1>4, <1>5 DEF Next

\* The invariant holds in every reachable state.
THEOREM ControlInvariant == Spec => []ControlInv
BY ControlStarts, ControlKeeps, PTL DEF Spec

\* The state keeps its shape.
THEOREM ControlTypeCorrect == Spec => []TypeOK
<1>1. ControlInv => TypeOK
  BY DEF ControlInv
<1> QED
  BY <1>1, ControlInvariant, PTL

\* No command is handed to a handler twice, however many processes own the
\* target, whenever they die, and whatever of the claims they see.
THEOREM ControlAtMostOnce == Spec => []AtMostOnce
<1>1. ControlInv => AtMostOnce
  BY DEF ControlInv, ClaimOK, AtMostOnce
<1> QED
  BY <1>1, ControlInvariant, PTL

\* An acknowledged verdict is the only one ever stored for its command.
THEOREM ControlAcknowledgedIsStored == Spec => []AcknowledgedIsStored
<1>1. ControlInv => AcknowledgedIsStored
  BY DEF ControlInv, AckOK
<1> QED
  BY <1>1, ControlInvariant, PTL

-----------------------------------------------------------------------------
(* Interrupted commands *)

\* Whoever says "indeterminate" has seen a claim.
InterruptedOK ==
  /\ \A a \in acks : a.says = "indeterminate" => record[a.cmd].version > 0
  /\ \A o \in Owners : owner[o].at = "ack" /\ owner[o].says = "indeterminate"
                         => record[owner[o].cmd].version > 0

\* Versions never fall.
LEMMA VersionsGrow ==
  ASSUME TypeOK, OwnerOK, [Next]_vars, NEW c \in Commands
  PROVE  record'[c].version >= record[c].version
<1>o. record \in [Commands -> Record_]
  BY DEF TypeOK
<1>1. CASE UNCHANGED record
  BY <1>1, <1>o
<1>2. ASSUME NEW d \in Commands, Cleanup(d) PROVE record'[c].version >= record[c].version
  BY <1>2, <1>o, CleanupKeepsVersions
<1>3. ASSUME NEW o \in Owners, Claim(o) \/ Store(o)
      PROVE  record'[c].version >= record[c].version
  BY <1>3, <1>o DEF Claim, Store, Claimable
<1>4. CASE Tick \/ \E d \in Commands : SenderStep(d)
  BY <1>1, <1>4 DEF Tick, SenderStep, Request, Publish, PublishFails, TimesOut, ReceiveAck,
                    CloseSender, ownerVars
<1>5. ASSUME NEW o \in Owners, Quiet(o) \/ Handle(o)
      PROVE  record'[c].version >= record[c].version
  BY <1>1, <1>5, QuietSteps DEF Handle
<1> QED
  BY <1>1, <1>2, <1>3, <1>4, <1>5 DEF Next, OwnerStep, Quiet, vars

\* An owner that comes to the acknowledgement with something to say has judged
\* the command, looked it up, or run it.
LEMMA ComesToAck ==
  ASSUME TypeOK, OwnerOK, NEW o \in Owners, OwnerStep(o), owner'[o].at = "ack"
  PROVE  /\ owner'[o].cmd = owner[o].cmd /\ owner[o].cmd \in Commands
         /\ \/ Judge(o) /\ Expired(o) /\ owner'[o].says = "expired"
            \/ \E says \in Visible(owner[o].cmd) : owner'[o].says = AnswerOf(says)
            \/ owner'[o].says \in Verdicts
<1>o. owner \in [Owners -> Owner_]
  BY DEF TypeOK
<1>a. ASSUME NEW says, Answer(o, says)
      PROVE  owner'[o].cmd = owner[o].cmd /\ owner'[o].says = says
  BY <1>a, <1>o DEF Answer
<1>g. ASSUME NEW step, Goto(o, step)
      PROVE  /\ owner'[o].at = step /\ owner'[o].cmd = owner[o].cmd
             /\ owner'[o].says = owner[o].says
  BY <1>g, <1>o DEF Goto
<1>f. ASSUME NEW pos, owner' = [owner EXCEPT ![o] = [Started EXCEPT !.pos = pos]]
      PROVE  owner'[o].at = "idle"
  BY <1>f, <1>o, StartedProper
<1>1. CASE Judge(o)
  BY <1>1, <1>a, <1>g DEF Judge, Running, OwnerOK
<1>2. CASE Lookup(o) \/ Raced(o)
  BY <1>2, <1>a, <1>g, <1>f DEF Lookup, Looks, Raced, Finish, Running, OwnerOK
<1>3. CASE Store(o)
  BY <1>3, <1>g DEF Store, Running, OwnerOK
<1>4. CASE Take(o)
  <2>1. owner'[o].at = "judge"
    BY <1>4, <1>o DEF Take
  <2> QED
    BY <2>1
<1>5. CASE Handle(o)
  <2>1. owner'[o].at = "store"
    BY <1>5, <1>o DEF Handle
  <2> QED
    BY <2>1
<1>6. CASE DrainThrows(o) \/ StoreFails(o) \/ Acknowledge(o)
  BY <1>6, <1>f DEF DrainThrows, StoreFails, Acknowledge, Finish
<1>7. CASE Claim(o) \/ ClaimFails(o)
  BY <1>7, <1>g DEF Claim, ClaimFails
<1>8. CASE Crash(o) \/ Restart(o)
  <2>1. [Started EXCEPT !.up = FALSE].at = "idle"
    BY StartedProper
  <2> QED
    BY <1>8, <1>o, <2>1, StartedProper DEF Crash, Restart
<1> QED
  BY <1>1, <1>2, <1>3, <1>4, <1>5, <1>6, <1>7, <1>8 DEF OwnerStep

\* New acknowledgements come from owners that are at that step.
LEMMA NewAcks ==
  ASSUME [Next]_vars, NEW a \in acks', a \notin acks
  PROVE  \E o \in Owners : /\ owner[o].at = "ack"
                           /\ a = [cmd |-> owner[o].cmd, says |-> owner[o].says]
<1>1. ASSUME NEW o \in Owners, Acknowledge(o)
      PROVE  owner[o].at = "ack" /\ a = [cmd |-> owner[o].cmd, says |-> owner[o].says]
  BY <1>1 DEF Acknowledge, Running
<1>2. CASE UNCHANGED vars \/ Tick \/ \E c \in Commands : Cleanup(c) \/ SenderStep(c)
  BY <1>2 DEF vars, Tick, Cleanup, SenderStep, Request, Publish, PublishFails, TimesOut,
              ReceiveAck, CloseSender, ownerVars
<1>3. ASSUME NEW o \in Owners, OwnerStep(o), ~Acknowledge(o) PROVE UNCHANGED acks
  BY <1>3 DEF OwnerStep, Take, DrainThrows, Judge, Lookup, Claim, ClaimFails, Raced, Handle,
              Store, StoreFails, Crash, Restart
<1> QED
  BY <1>1, <1>2, <1>3 DEF Next

\* Acknowledgements are never taken back.
LEMMA AcksGrow ==
  ASSUME [Next]_vars
  PROVE  acks \subseteq acks'
<1>1. ASSUME NEW o \in Owners, Acknowledge(o) PROVE acks \subseteq acks'
  BY <1>1 DEF Acknowledge
<1>2. ASSUME NEW o \in Owners, OwnerStep(o), ~Acknowledge(o) PROVE UNCHANGED acks
  BY <1>2 DEF OwnerStep, Take, DrainThrows, Judge, Lookup, Claim, ClaimFails, Raced, Handle,
              Store, StoreFails, Crash, Restart
<1>3. CASE UNCHANGED vars \/ Tick \/ \E d \in Commands : Cleanup(d) \/ SenderStep(d)
  BY <1>3 DEF vars, Tick, Cleanup, SenderStep, Request, Publish, PublishFails, TimesOut,
              ReceiveAck, CloseSender, ownerVars
<1> QED
  BY <1>1, <1>2, <1>3 DEF Next

\* What a step can do to an owner.
LEMMA OwnerStays ==
  ASSUME TypeOK, [Next]_vars, NEW o \in Owners
  PROVE  owner'[o] = owner[o] \/ OwnerStep(o)
<1>1. CASE UNCHANGED owner
  BY <1>1
<1>2. CASE UNCHANGED vars \/ Tick \/ \E c \in Commands : Cleanup(c) \/ SenderStep(c)
  BY <1>1, <1>2 DEF vars, Tick, Cleanup, SenderStep, Request, Publish, PublishFails, TimesOut,
              ReceiveAck, CloseSender, ownerVars
<1>3. ASSUME NEW p \in Owners, OwnerStep(p) PROVE owner'[o] = owner[o] \/ OwnerStep(o)
  BY <1>3, OthersStay
<1> QED
  BY <1>2, <1>3 DEF Next

\* Whoever says "indeterminate" after a step has seen a claim as well.
LEMMA InterruptedKeeps ==
  ASSUME ControlInv, InterruptedOK, [Next]_vars
  PROVE  InterruptedOK'
<1>i. TypeOK /\ OwnerOK
  BY DEF ControlInv
<1>o. record \in [Commands -> Record_] /\ record' \in [Commands -> Record_]
      /\ acks \subseteq [cmd : Commands, says : Answers]
      /\ stored \in [Commands -> SUBSET Verdicts]
  BY <1>i, ControlKeeps DEF ControlInv, TypeOK
<1>v. \A c \in Commands : record[c].version > 0 => record'[c].version > 0
  BY <1>i, <1>o, VersionsGrow
<1>1. ASSUME NEW a \in acks', a.says = "indeterminate" PROVE record'[a.cmd].version > 0
  <2>1. CASE a \in acks
    BY <1>1, <1>o, <1>v, <2>1 DEF InterruptedOK
  <2>2. CASE a \notin acks
    <3>1. PICK o \in Owners : /\ owner[o].at = "ack"
                              /\ a = [cmd |-> owner[o].cmd, says |-> owner[o].says]
      BY <2>2, NewAcks
    <3> QED
      BY <1>1, <1>i, <1>v, <3>1 DEF InterruptedOK, OwnerOK
  <2> QED
    BY <2>1, <2>2
<1>2. ASSUME NEW o \in Owners, owner'[o].at = "ack", owner'[o].says = "indeterminate"
      PROVE  record'[owner'[o].cmd].version > 0
  <2>1. CASE owner'[o] = owner[o]
    BY <1>2, <1>i, <1>v, <2>1 DEF InterruptedOK, OwnerOK
  <2>2. CASE OwnerStep(o)
    <3>1. /\ owner'[o].cmd = owner[o].cmd /\ owner[o].cmd \in Commands
          /\ \E says \in Visible(owner[o].cmd) : AnswerOf(says) = "indeterminate"
      BY <1>2, <1>i, <2>2, ComesToAck DEF Verdicts
    <3>2. record[owner[o].cmd].version > 0
      BY <1>o, <3>1 DEF Visible, AnswerOf, Verdicts
    <3> QED
      BY <1>v, <3>1, <3>2
  <2> QED
    BY <1>i, <2>1, <2>2, OwnerStays
<1> QED
  BY <1>1, <1>2 DEF InterruptedOK

\* A command that was reported as indeterminate is never run again, whoever
\* restarts and replays.
THEOREM ControlInterrupted == Spec => InterruptedStaysInterrupted
<1>1. Init => InterruptedOK
  BY StartedProper DEF Init, InterruptedOK
<1>2. ASSUME ControlInv, InterruptedOK, [Next]_vars, NEW c \in Commands, Interrupted(c)
      PROVE  Interrupted(c)'
  <2>i. TypeOK /\ OwnerOK
    BY <1>2 DEF ControlInv
  <2>1. [cmd |-> c, says |-> "indeterminate"] \in acks'
    BY <1>2, AcksGrow DEF Interrupted
  <2>2. record[c].version > 0
    BY <1>2 DEF Interrupted, InterruptedOK
  <2>3. ASSUME NEW o \in Owners, owner'[o].cmd = c, owner'[o].at = "handle" PROVE FALSE
    <3>1. OwnerStep(o)
      BY <1>2, <2>i, <2>3, OwnerStays DEF Interrupted
    <3>2. ~Quiet(o)
      BY <2>i, <2>3, QuietSteps
    <3>o. owner \in [Owners -> Owner_]
      BY <2>i DEF TypeOK
    <3>3. ~Handle(o) /\ ~Store(o)
      BY <2>3, <3>o DEF Handle, Store, Goto
    <3>4. ~Claim(o)
      BY <2>2, <2>3, <3>o DEF Claim, Claimable, Goto
    <3> QED
      BY <3>1, <3>2, <3>3, <3>4 DEF OwnerStep, Quiet
  <2> QED
    BY <2>1, <2>3 DEF Interrupted
<1>3. ControlInv /\ InterruptedOK /\ [Next]_vars
        => [\A c \in Commands : Interrupted(c) => Interrupted(c)']_vars
  BY <1>2
<1> QED
  BY <1>1, <1>3, ControlInvariant, InterruptedKeeps, PTL DEF Spec, InterruptedStaysInterrupted

-----------------------------------------------------------------------------
(* Refused commands *)

Requested(c) == request[c].at # "none"

\* The clocks that a command meets: its sender's is ahead by the timeout at
\* most, an owner reads its own after the request, and a refusal is final.
TimeOK ==
  /\ \A c \in Commands : Requested(c) => /\ request[c].deadline - Timeout <= now
                                         /\ requestedAt[c] <= request[c].deadline
  /\ \A i \in 1..Len(log) : Requested(log[i])
  /\ \A o \in Owners : owner[o].at # "idle" =>
       /\ Requested(owner[o].cmd) /\ owner[o].time <= now
       /\ request[owner[o].cmd].deadline - Timeout <= owner[o].time
  /\ \A o \in Owners : owner[o].at = "ack" /\ owner[o].says = "expired"
                         => now - requestedAt[owner[o].cmd] > Timeout
  /\ \A a \in acks : a.says = "expired" => /\ Requested(a.cmd)
                                           /\ now - requestedAt[a.cmd] > Timeout

\* The clock does not go back, and a request keeps its times.
LEMMA TimesStay ==
  ASSUME TypeOK, [Next]_vars
  PROVE  /\ now' >= now
         /\ \A c \in Commands :
              Requested(c) => /\ Requested(c)' /\ requestedAt'[c] = requestedAt[c]
                              /\ request'[c].deadline = request[c].deadline
<1>o. now \in 0..MaxTime /\ request \in [Commands -> Request_] /\ requestedAt \in [Commands -> Int]
  BY DEF TypeOK
<1>1. ASSUME NEW d \in Commands, SenderStep(d) PROVE UNCHANGED now
  BY <1>1 DEF SenderStep, Request, Publish, PublishFails, TimesOut, ReceiveAck, CloseSender
<1>2. ASSUME NEW d \in Commands, SenderStep(d), NEW c \in Commands, Requested(c)
      PROVE  /\ Requested(c)' /\ requestedAt'[c] = requestedAt[c]
             /\ request'[c].deadline = request[c].deadline
  <2>1. ASSUME NEW skew \in Skews, Request(d, skew)
        PROVE  /\ Requested(c)' /\ requestedAt'[c] = requestedAt[c]
               /\ request'[c].deadline = request[c].deadline
    BY <1>2, <1>o, <2>1 DEF Request, Requested
  <2>2. CASE Publish(d) \/ PublishFails(d)
    <3>1. PICK at \in {"waiting", "failed"} :
            request' = [request EXCEPT ![d] = [request[d] EXCEPT !.at = at]]
      BY <2>2 DEF Publish, PublishFails
    <3>2. request'[c] = IF c = d THEN [request[d] EXCEPT !.at = at] ELSE request[c]
      BY <1>o, <3>1
    <3>3. [request[d] EXCEPT !.at = at].at = at
          /\ [request[d] EXCEPT !.at = at].deadline = request[d].deadline
      BY <1>o
    <3> QED
      BY <1>2, <2>2, <3>2, <3>3 DEF Publish, PublishFails, Requested
  <2>3. CASE TimesOut(d) \/ ReceiveAck(d) \/ CloseSender(d)
    BY <1>2, <2>3 DEF TimesOut, ReceiveAck, CloseSender, Requested
  <2> QED
    BY <1>2, <2>1, <2>2, <2>3 DEF SenderStep
<1>3. ASSUME NEW o \in Owners, OwnerStep(o) PROVE UNCHANGED <<now, senderVars>>
  BY <1>3 DEF OwnerStep, Take, DrainThrows, Judge, Lookup, Claim, ClaimFails, Raced, Handle,
              Store, StoreFails, Acknowledge, Crash, Restart
<1>4. CASE Tick
  BY <1>4, <1>o DEF Tick, senderVars, Requested
<1>5. CASE UNCHANGED vars \/ \E d \in Commands : Cleanup(d)
  BY <1>5, <1>o DEF vars, Cleanup, senderVars, Requested
<1> QED
  BY <1>1, <1>2, <1>3, <1>4, <1>5, <1>o DEF Next, senderVars, Requested

\* What an owner works on next: the command it had, with the time it had read,
\* or the next one of the log, now.
LEMMA WorksOn ==
  ASSUME TypeOK, OwnerOK, NEW o \in Owners, OwnerStep(o), owner'[o].at # "idle"
  PROVE  /\ UNCHANGED <<now, senderVars>>
         /\ \/ /\ owner[o].at # "idle" /\ owner'[o].cmd = owner[o].cmd
               /\ owner'[o].time = owner[o].time
               /\ owner'[o].at \in {"lookup", "claim", "handle"}
                    => owner[o].at \in {"judge", "lookup", "claim"}
            \/ /\ owner'[o].cmd = log[owner[o].pos + 1] /\ owner[o].pos + 1 \in 1..Len(log)
               /\ owner'[o].time = now
         /\ owner'[o].at = "judge" => owner'[o].time = now
<1>o. owner \in [Owners -> Owner_]
  BY DEF TypeOK
<1>a. ASSUME NEW says, Answer(o, says)
      PROVE  /\ owner'[o].cmd = owner[o].cmd /\ owner'[o].time = owner[o].time
             /\ owner'[o].at = "ack"
  BY <1>a, <1>o DEF Answer
<1>g. ASSUME NEW step, Goto(o, step)
      PROVE  /\ owner'[o].cmd = owner[o].cmd /\ owner'[o].time = owner[o].time
             /\ owner'[o].at = step
  BY <1>g, <1>o DEF Goto
<1>f. ASSUME NEW pos, owner' = [owner EXCEPT ![o] = [Started EXCEPT !.pos = pos]]
      PROVE  owner'[o].at = "idle"
  BY <1>f, <1>o, StartedProper
<1>1. CASE Take(o)
  <2>1. /\ owner[o].pos \in Nat /\ owner[o].pos < Len(log) /\ log \in Seq(Commands)
        /\ owner'[o].cmd = log[owner[o].pos + 1] /\ owner'[o].time = now
        /\ owner'[o].at = "judge"
    BY <1>1, <1>o DEF Take, TypeOK
  <2>2. owner[o].pos + 1 \in 1..Len(log)
    BY <2>1
  <2> QED
    BY <1>1, <2>1, <2>2 DEF Take
<1>2. CASE Judge(o)
  BY <1>2, <1>a, <1>g DEF Judge, Running
<1>3. CASE Lookup(o)
  BY <1>3, <1>a, <1>g DEF Lookup, Looks, Running
<1>4. CASE Claim(o) \/ ClaimFails(o)
  BY <1>4, <1>g DEF Claim, ClaimFails, Running
<1>5. CASE Raced(o)
  BY <1>5, <1>a, <1>f DEF Raced, Running, Finish
<1>6. CASE Handle(o)
  <2>1. /\ owner'[o].cmd = owner[o].cmd /\ owner'[o].time = owner[o].time
        /\ owner'[o].at = "store"
    BY <1>6, <1>o DEF Handle
  <2> QED
    BY <1>6, <2>1 DEF Handle, Running
<1>7. CASE Store(o)
  BY <1>7, <1>g DEF Store, Running
<1>8. CASE DrainThrows(o) \/ StoreFails(o) \/ Acknowledge(o)
  BY <1>8, <1>f DEF DrainThrows, StoreFails, Acknowledge, Finish
<1>9. CASE Crash(o) \/ Restart(o)
  <2>1. [Started EXCEPT !.up = FALSE].at = "idle"
    BY StartedProper
  <2> QED
    BY <1>9, <1>o, <2>1, StartedProper DEF Crash, Restart
<1> QED
  BY <1>1, <1>2, <1>3, <1>4, <1>5, <1>6, <1>7, <1>8, <1>9 DEF OwnerStep

\* Every step keeps the clocks in order, when the sender's is within the timeout.
LEMMA TimeKeeps ==
  ASSUME Skews \subseteq -Timeout..Timeout, ControlInv, TimeOK, [Next]_vars
  PROVE  TimeOK'
<1>i. TypeOK /\ OwnerOK
  BY DEF ControlInv
<1>o. /\ now \in 0..MaxTime /\ now' \in 0..MaxTime /\ log \in Seq(Commands)
      /\ request \in [Commands -> Request_] /\ requestedAt \in [Commands -> Int]
      /\ owner \in [Owners -> Owner_] /\ owner' \in [Owners -> Owner_]
      /\ acks \subseteq [cmd : Commands, says : Answers]
  BY <1>i, ControlKeeps DEF ControlInv, TypeOK
<1>t. /\ now' >= now
      /\ \A c \in Commands :
           Requested(c) => /\ Requested(c)' /\ requestedAt'[c] = requestedAt[c]
                           /\ request'[c].deadline = request[c].deadline
  BY <1>i, TimesStay
<1>1. ASSUME NEW c \in Commands, Requested(c)'
      PROVE  request'[c].deadline - Timeout <= now' /\ requestedAt'[c] <= request'[c].deadline
  <2>1. CASE Requested(c)
    BY <1>o, <1>t, <2>1 DEF TimeOK
  <2>2. CASE ~Requested(c)
    <3>1. PICK skew \in Skews : Request(c, skew)
      <4>1. ASSUME NEW d \in Commands, SenderStep(d)
            PROVE  \E skew \in Skews : Request(c, skew)
        <5>1. CASE \E skew \in Skews : Request(d, skew)
          BY <1>1, <1>o, <2>2, <5>1 DEF Request, Requested
        <5>2. CASE Publish(d) \/ PublishFails(d)
          BY <1>1, <1>o, <2>2, <5>2 DEF Publish, PublishFails, Requested
        <5>3. CASE TimesOut(d) \/ ReceiveAck(d) \/ CloseSender(d)
          BY <1>1, <2>2, <5>3 DEF TimesOut, ReceiveAck, CloseSender, Requested
        <5> QED
          BY <4>1, <5>1, <5>2, <5>3 DEF SenderStep
      <4>2. ASSUME NEW o \in Owners, OwnerStep(o) PROVE FALSE
        <5>1. UNCHANGED request
          BY <4>2 DEF OwnerStep, Take, DrainThrows, Judge, Lookup, Claim, ClaimFails, Raced,
                      Handle, Store, StoreFails, Acknowledge, Crash, Restart, senderVars
        <5> QED
          BY <1>1, <2>2, <5>1 DEF Requested
      <4>3. CASE UNCHANGED vars \/ Tick \/ \E d \in Commands : Cleanup(d)
        BY <1>1, <2>2, <4>3 DEF vars, Tick, Cleanup, senderVars, Requested
      <4> QED
        BY <4>1, <4>2, <4>3 DEF Next
    <3>2. request'[c].deadline = now + Timeout /\ requestedAt'[c] = now + skew /\ now' = now
      BY <1>o, <3>1 DEF Request
    <3>3. skew \in Int /\ skew <= Timeout
      OBVIOUS
    <3> QED
      BY <1>o, <3>2, <3>3
  <2> QED
    BY <2>1, <2>2
<1>2. ASSUME NEW i \in 1..Len(log') PROVE Requested(log[i])'
  <2>1. CASE UNCHANGED log
    BY <1>2, <1>o, <1>t, <2>1 DEF TimeOK
  <2>2. ASSUME NEW d \in Commands, Publish(d) PROVE Requested(log[i])'
    <3>1. log' = Append(log, d) /\ Requested(d)
      BY <2>2 DEF Publish, Requested
    <3>2. (i \in 1..Len(log) /\ log'[i] = log[i]) \/ log'[i] = d
      <4>1. Len(log') = Len(log) + 1 /\ Len(log) \in Nat
        BY <1>o, <3>1
      <4>2. i \in 1..Len(log) \/ i = Len(log) + 1
        BY <1>2, <4>1
      <4> QED
        BY <1>o, <3>1, <4>1, <4>2
    <3> QED
      BY <1>o, <1>t, <3>1, <3>2 DEF TimeOK
  <2>3. ASSUME NEW d \in Commands, SenderStep(d), ~Publish(d) PROVE UNCHANGED log
    BY <2>3 DEF SenderStep, Request, PublishFails, TimesOut, ReceiveAck, CloseSender
  <2>4. ASSUME NEW o \in Owners, OwnerStep(o) PROVE UNCHANGED log
    BY <2>4 DEF OwnerStep, Take, DrainThrows, Judge, Lookup, Claim, ClaimFails, Raced,
                Handle, Store, StoreFails, Acknowledge, Crash, Restart, senderVars
  <2>5. CASE UNCHANGED vars \/ Tick \/ \E d \in Commands : Cleanup(d)
    BY <2>1, <2>5 DEF vars, Tick, Cleanup, senderVars
  <2> QED
    BY <2>1, <2>2, <2>3, <2>4, <2>5 DEF Next
<1>3. ASSUME NEW o \in Owners, owner'[o].at # "idle"
      PROVE  /\ Requested(owner[o].cmd)' /\ owner'[o].time <= now'
             /\ request'[owner'[o].cmd].deadline - Timeout <= owner'[o].time
  <2>1. CASE owner[o].at # "idle" /\ owner'[o].cmd = owner[o].cmd /\ owner'[o].time = owner[o].time
    <3>1. owner[o].cmd \in Commands /\ owner[o].time \in 0..MaxTime
      BY <1>i, <1>o, <2>1 DEF OwnerOK
    <3> QED
      BY <1>o, <1>t, <2>1, <3>1 DEF TimeOK
  <2>2. CASE /\ owner'[o].cmd = log[owner[o].pos + 1] /\ owner[o].pos + 1 \in 1..Len(log)
             /\ owner'[o].time = now
    <3>1. owner'[o].cmd \in Commands /\ Requested(owner'[o].cmd)
      BY <1>o, <2>2 DEF TimeOK
    <3> QED
      BY <1>o, <1>t, <2>2, <3>1 DEF TimeOK
  <2> QED
    BY <1>3, <1>i, <2>1, <2>2, OwnerStays, WorksOn
<1>4. ASSUME NEW o \in Owners, owner'[o].at = "ack", owner'[o].says = "expired"
      PROVE  now' - requestedAt'[owner'[o].cmd] > Timeout
  <2>1. CASE owner'[o] = owner[o]
    <3>1. owner[o].cmd \in Commands /\ Requested(owner[o].cmd)
      BY <1>4, <1>i, <2>1 DEF OwnerOK, TimeOK
    <3> QED
      BY <1>4, <1>o, <1>t, <2>1, <3>1 DEF TimeOK
  <2>2. CASE OwnerStep(o)
    <3>1. /\ owner'[o].cmd = owner[o].cmd /\ owner[o].cmd \in Commands
          /\ Judge(o) /\ Expired(o)
      <4>1. \A c \in Commands : \A says \in Visible(c) : AnswerOf(says) # "expired"
        BY <1>i DEF TypeOK, Visible, AnswerOf, Verdicts
      <4> QED
        BY <1>4, <1>i, <2>2, <4>1, ComesToAck DEF Verdicts
    <3> DEFINE c == owner[o].cmd
    <3>2. /\ owner[o].time \in 0..MaxTime /\ owner[o].time <= now /\ Requested(c)
          /\ request[c].deadline - Timeout <= owner[o].time
          /\ requestedAt[c] <= request[c].deadline
          /\ request[c].deadline \in 0..MaxTime /\ requestedAt[c] \in Int
      BY <1>o, <3>1 DEF Judge, Running, TimeOK
    <3>3. owner[o].time - requestedAt[c] > Timeout
      BY <3>1, <3>2 DEF Expired
    <3>4. requestedAt'[c] = requestedAt[c]
      BY <1>t, <3>1, <3>2
    <3> HIDE DEF c
    <3>5. now' - requestedAt'[c] > Timeout
      BY <1>o, <1>t, <3>2, <3>3, <3>4
    <3> QED
      BY <3>1, <3>5 DEF c
  <2> QED
    BY <1>i, <2>1, <2>2, OwnerStays
<1>5. ASSUME NEW a \in acks', a.says = "expired"
      PROVE  Requested(a.cmd)' /\ now' - requestedAt'[a.cmd] > Timeout
  <2>1. a.cmd \in Commands /\ Requested(a.cmd) /\ now - requestedAt[a.cmd] > Timeout
    <3>1. CASE a \in acks
      BY <1>5, <1>o, <3>1 DEF TimeOK
    <3>2. CASE a \notin acks
      BY <1>5, <1>i, <3>2, NewAcks DEF TimeOK, OwnerOK
    <3> QED
      BY <3>1, <3>2
  <2> QED
    BY <1>o, <1>t, <2>1
<1> QED
  BY <1>1, <1>2, <1>3, <1>4, <1>5 DEF TimeOK

\* When the clocks differ by the timeout at most, a command that was refused as
\* expired never runs.
THEOREM ControlRefused ==
  ASSUME Skews \subseteq -Timeout..Timeout
  PROVE  Spec => RefusedStaysRefused
<1>1. Init => TimeOK
  BY StartedProper DEF Init, TimeOK, Requested, NoRequest
<1>2. ASSUME ControlInv, TimeOK, [Next]_vars, NEW c \in Commands, Refused(c)
      PROVE  Refused(c)'
  <2>i. TypeOK /\ OwnerOK
    BY <1>2 DEF ControlInv
  <2>o. /\ now \in 0..MaxTime /\ now' \in 0..MaxTime /\ requestedAt \in [Commands -> Int]
        /\ owner \in [Owners -> Owner_]
    BY <1>2, <2>i, ControlKeeps DEF ControlInv, TypeOK
  <2>1. [cmd |-> c, says |-> "expired"] \in acks'
    BY <1>2, AcksGrow DEF Refused
  <2>2. Requested(c) /\ now - requestedAt[c] > Timeout /\ requestedAt'[c] = requestedAt[c]
    BY <1>2, <2>i, TimesStay DEF Refused, TimeOK
  <2>3. ASSUME NEW o \in Owners, owner'[o].cmd = c,
               owner'[o].at \in {"judge", "lookup", "claim", "handle"}, ~Expired(o)'
        PROVE  FALSE
    <3>1. owner'[o].time # now
      BY <2>2, <2>3, <2>o DEF Expired
    <3>2. CASE owner'[o] = owner[o]
      BY <1>2, <2>2, <2>3, <3>2 DEF Refused, Pursued, Expired
    <3>3. CASE OwnerStep(o)
      <4>1. /\ owner[o].at \in {"judge", "lookup", "claim"} /\ owner[o].cmd = c
            /\ owner'[o].time = owner[o].time
        BY <2>i, <2>3, <3>1, <3>3, WorksOn
      <4> QED
        BY <1>2, <2>2, <2>3, <4>1 DEF Refused, Pursued, Expired
    <3> QED
      BY <1>2, <2>i, <3>2, <3>3, OwnerStays
  <2> QED
    BY <2>1, <2>3 DEF Refused, Pursued
<1>3. ControlInv /\ TimeOK /\ [Next]_vars
        => [\A c \in Commands : Refused(c) => Refused(c)']_vars
  BY <1>2
<1> QED
  BY <1>1, <1>3, ControlInvariant, TimeKeeps, PTL DEF Spec, RefusedStaysRefused
=============================================================================
