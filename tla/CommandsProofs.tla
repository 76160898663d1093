--------------------------- MODULE CommandsProofs ---------------------------
(***************************************************************************)
(* The safety of Commands, for any entities, any calls and any number of   *)
(* CommandStatus delays.                                                   *)
(***************************************************************************)
EXTENDS Commands, TLAPS

(* The queue holds each pending command once.                              *)
QueueIsPending ==
  /\ \A i \in 1..Len(queue) : status[queue[i]] = "pending"
  /\ \A i, j \in 1..Len(queue) : queue[i] = queue[j] => i = j

(* What a call has left behind: nothing on the server before it was        *)
(* accepted, and a confirmation only once it returned.                     *)
CallHistory ==
  \A c \in Calls :
    /\ call[c] \in {"idle", "sending"} => status[c] = "unknown"
    /\ call[c] \in {"accepted", "returned"} => status[c] # "unknown"
    /\ task[c] # "none" => call[c] = "returned"

(* An answer the event loop has not seen yet is still the truth, since the *)
(* pod answers once; and an event belongs to a confirmation that is over.  *)
VerdictsStand ==
  \A c \in Calls :
    /\ task[c] = "done" => status[c] = "done"
    /\ task[c] = "failed" => status[c] = "failed"
    /\ events[c] # 0 => task[c] = "over"

(* A confirmation that sleeps has a delay left to ask after.               *)
DelaysLeft ==
  \A c \in Calls :
    /\ task[c] = "none" => polls[c] = 0
    /\ task[c] = "sleeping" => polls[c] < MaxPolls

(* An entity shows and follows its own calls only, and none is left in an  *)
(* entry whose platforms are gone.                                         *)
Ownership ==
  /\ \A e \in Entities : optimistic[e] # NoCall => EntityOf[optimistic[e]] = e
  /\ \A e \in Entities : handle[e] # NoCall => EntityOf[handle[e]] = e
  /\ entry # "loaded" => present = {}

Inv ==
  /\ TypeOK
  /\ QueueIsPending
  /\ CallHistory
  /\ VerdictsStand
  /\ DelaysLeft
  /\ Ownership
  /\ OneConfirmation
  /\ VerdictIsOwn
  /\ AccountedFor
  /\ EventsAreRefusals

----------------------------------------------------------------------------
(* The invariant holds at first.                                           *)
THEOREM InitInv == Init => Inv
  <1> SUFFICES ASSUME Init PROVE Inv
    OBVIOUS
  <1> USE CallsAssumption, MaxPollsAssumption DEF Init, Running, Active, Verdicts
  <1>1. TypeOK
    <2>1. queue \in Seq(Calls) /\ present \subseteq Entities
      OBVIOUS
    <2>2. polls \in [Calls -> 0..MaxPolls] /\ events \in [Calls -> Nat]
      OBVIOUS
    <2> QED BY <2>1, <2>2 DEF TypeOK, Values
  <1>2. QueueIsPending
    BY DEF QueueIsPending
  <1>3. CallHistory /\ VerdictsStand /\ DelaysLeft /\ Ownership
    BY DEF CallHistory, VerdictsStand, DelaysLeft, Ownership
  <1>4. OneConfirmation /\ VerdictIsOwn /\ AccountedFor /\ EventsAreRefusals
    BY DEF OneConfirmation, VerdictIsOwn, AccountedFor, EventsAreRefusals
  <1> QED BY <1>1, <1>2, <1>3, <1>4 DEF Inv

(* A service call, until its request has left, disturbs no confirmation.   *)
LEMMA CallInv == ASSUME Inv, NEW c \in Calls, Call(c) PROVE Inv'
  <1>1. /\ call[c] = "idle" /\ call' = [call EXCEPT ![c] = "sending"]
        /\ UNCHANGED <<status, queue, pod, data, lastOk, requested, refresh, runner, lost,
                       snapshot, optimistic, handle, task, polls, events,
                       present, entry>>
    BY DEF Call, serverVars, coordinatorVars, refreshVars, entityVars, taskVars, entryVars
  <1>2. TypeOK' /\ CallHistory'
    BY <1>1 DEF Inv, TypeOK, CallHistory
  <1>3. /\ QueueIsPending' /\ VerdictsStand' /\ DelaysLeft' /\ Ownership'
        /\ OneConfirmation' /\ VerdictIsOwn' /\ AccountedFor' /\ EventsAreRefusals'
    BY <1>1 DEF Inv, QueueIsPending, VerdictsStand, DelaysLeft, Ownership,
                OneConfirmation, VerdictIsOwn, AccountedFor, EventsAreRefusals
  <1> QED BY <1>2, <1>3 DEF Inv

(* A command enters the queue pending, and nothing follows it yet.         *)
LEMMA ServerAcceptsInv == ASSUME Inv, NEW c \in Calls, ServerAccepts(c) PROVE Inv'
  <1>1. /\ call[c] = "sending" /\ call' = [call EXCEPT ![c] = "accepted"]
        /\ status' = [status EXCEPT ![c] = "pending"]
        /\ queue' = Append(queue, c)
        /\ UNCHANGED <<pod, data, lastOk, requested, refresh, runner, lost, snapshot,
                       optimistic, handle, task, polls, events, present, entry>>
    BY DEF ServerAccepts, coordinatorVars, refreshVars, entityVars, taskVars, entryVars
  <1>2. status[c] = "unknown" /\ task[c] = "none"
    BY <1>1 DEF Inv, CallHistory
  <1>3. /\ queue' \in Seq(Calls) /\ Len(queue') = Len(queue) + 1
        /\ queue'[Len(queue) + 1] = c
        /\ \A i \in 1..Len(queue) : queue'[i] = queue[i] /\ queue[i] \in Calls
    BY <1>1 DEF Inv, TypeOK
  <1>4. TypeOK'
    BY <1>1, <1>3 DEF Inv, TypeOK
  <1>5. QueueIsPending'
    <2>1. Len(queue) \in Nat /\ \A i \in 1..Len(queue) : queue[i] # c
      BY <1>2 DEF Inv, TypeOK, QueueIsPending
    <2>2. \A i \in 1..Len(queue') : i \in 1..Len(queue) \/ i = Len(queue) + 1
      BY <1>3, <2>1
    <2>3. \A i \in 1..Len(queue') : status'[queue'[i]] = "pending"
      BY <1>1, <1>3, <2>1, <2>2 DEF Inv, TypeOK, QueueIsPending
    <2>4. \A i, j \in 1..Len(queue') : queue'[i] = queue'[j] => i = j
      BY <1>3, <2>1, <2>2 DEF Inv, QueueIsPending
    <2> QED BY <2>3, <2>4 DEF QueueIsPending
  <1>6. CallHistory' /\ VerdictsStand'
    BY <1>1, <1>2 DEF Inv, TypeOK, CallHistory, VerdictsStand
  <1>7. DelaysLeft' /\ Ownership' /\ OneConfirmation' /\ VerdictIsOwn'
    BY <1>1 DEF Inv, DelaysLeft, Ownership, OneConfirmation, VerdictIsOwn
  <1>8. AccountedFor'
    <2>1. \A d \in Calls : status[d] = "done" => status'[d] = "done"
      BY <1>1, <1>2 DEF Inv, TypeOK
    <2>2. \A e \in present : optimistic[e] # NoCall => optimistic[e] \in Calls
      BY DEF Inv, TypeOK
    <2> QED BY <1>1, <2>1, <2>2 DEF Inv, AccountedFor
  <1>9. EventsAreRefusals'
    BY <1>1, <1>2 DEF Inv, TypeOK, EventsAreRefusals
  <1> QED BY <1>4, <1>5, <1>6, <1>7, <1>8, <1>9 DEF Inv

(* A write that raised is never shown, nor followed.                       *)
LEMMA SendFailsInv == ASSUME Inv, NEW c \in Calls, SendFails(c) PROVE Inv'
  <1> USE CallsAssumption, MaxPollsAssumption DEF Running, Active, Verdicts
  <1>1. /\ call[c] \in {"sending", "accepted"}
        /\ call' = [call EXCEPT ![c] = "raised"]
        /\ UNCHANGED <<status, queue, pod, data, lastOk, requested, refresh, runner, lost,
                       snapshot, optimistic, handle, task, polls, events,
                       present, entry>>
    BY DEF SendFails, serverVars, coordinatorVars, refreshVars, entityVars, taskVars,
           entryVars
  <1>2. QueueIsPending' /\ VerdictsStand' /\ DelaysLeft' /\ Ownership'
         /\          OneConfirmation' /\ VerdictIsOwn' /\ AccountedFor' /\ EventsAreRefusals'
    BY <1>1 DEF Inv, QueueIsPending, VerdictsStand, DelaysLeft, Ownership,
                OneConfirmation, VerdictIsOwn, AccountedFor, EventsAreRefusals
  <1>3. TypeOK'
    BY <1>1 DEF Inv, TypeOK
  <1>4. CallHistory'
    BY <1>1 DEF Inv, TypeOK, CallHistory
  <1> QED BY <1>2, <1>3, <1>4 DEF Inv

(* The confirmation that starts takes the handle from the one it cancels.  *)
LEMMA ReplyArrivesInv == ASSUME Inv, NEW c \in Calls, ReplyArrives(c) PROVE Inv'
  <1> USE CallsAssumption, MaxPollsAssumption DEF Running, Active, Verdicts
  <1>1. PICK state \in {"sleeping", "refreshing", "blind"} : Superseding(c, state)
    BY DEF ReplyArrives, Starting
  <1>2. /\ task' \in [Calls -> Running \cup {"none", "blind", "over", "cancelled"}]
        /\ task'[c] = state
        /\ \A d \in Calls \ {c} :
             task'[d] = IF d = handle[EntityOf[c]] THEN Cancelled(task[d])
                        ELSE task[d]
    BY <1>1 DEF Superseding, HeldBy, Cancelled, Inv, TypeOK, Ownership
  <1>3. /\ optimistic' = [optimistic EXCEPT ![EntityOf[c]] = c]
        /\ handle' = [handle EXCEPT ![EntityOf[c]] = c]
        /\ call' = [call EXCEPT ![c] = "returned"]
        /\ call[c] = "accepted"
        /\ UNCHANGED <<status, queue, pod, data, lastOk, snapshot,
                       polls, events, present, entry>>
        /\ requested' \in BOOLEAN /\ lost' \in BOOLEAN
        /\ refresh' \in {"idle", "reading", "read", "cancelled"}
        /\ runner' \in Calls \cup {NoCall}
    <2>1. Starting(c)
      BY DEF ReplyArrives
    <2>2. /\ requested' \in BOOLEAN /\ lost' \in BOOLEAN
          /\ refresh' \in {"idle", "reading", "read", "cancelled"}
          /\ runner' \in Calls \cup {NoCall}
      BY <2>1 DEF Starting, RefreshGoesWith, RequestRuns, RequestWaits, Inv, TypeOK
    <2> QED BY <2>2 DEF ReplyArrives, serverVars, entryVars
  <1>4. task[c] = "none" /\ status[c] # "unknown"
    BY <1>3 DEF Inv, CallHistory
  <1>5. EntityOf[c] \in Entities
    OBVIOUS
  <1>6. TypeOK'
    BY <1>1, <1>2, <1>3, <1>5 DEF Inv, TypeOK, Values
  <1>7. QueueIsPending'
    BY <1>3 DEF Inv, QueueIsPending
  <1>7a. \A d \in Calls \ {c} :
           \/ task'[d] = task[d]
           \/ task[d] \in Running /\ task'[d] \in {"cancelled", "blind"}
    BY <1>2 DEF Cancelled
  <1>8. CallHistory'
    BY <1>2, <1>3, <1>4, <1>7a DEF Inv, TypeOK, CallHistory
  <1>9. VerdictsStand'
    BY <1>2, <1>3, <1>4, <1>7a DEF Inv, VerdictsStand
  <1>10. DelaysLeft'
    <2>1. polls'[c] < MaxPolls
      BY <1>3, <1>4 DEF Inv, DelaysLeft
    <2> QED BY <1>1, <1>2, <1>3, <1>7a, <2>1 DEF Inv, DelaysLeft
  <1>11. Ownership'
    BY <1>3, <1>5 DEF Inv, TypeOK, Ownership
  <1>12. OneConfirmation'
    <2> SUFFICES ASSUME NEW d \in Calls, task'[d] \in Running, d # c
                 PROVE  handle'[EntityOf[d]] = d
      BY <1>3, <1>5 DEF OneConfirmation, Inv, TypeOK
    <2>1. task[d] \in Running /\ d # handle[EntityOf[c]]
      BY <1>2 DEF Cancelled
    <2>2. handle[EntityOf[d]] = d /\ EntityOf[d] # EntityOf[c]
      BY <2>1 DEF Inv, OneConfirmation
    <2> QED BY <1>3, <2>2 DEF Inv, TypeOK
  <1>13. VerdictIsOwn'
    <2> SUFFICES ASSUME NEW d \in Calls, task'[d] \in Active, d # c
                 PROVE  optimistic'[EntityOf[d]] \in {d, NoCall}
      BY <1>3, <1>5 DEF VerdictIsOwn, Inv, TypeOK
    <2>1. task[d] \in Active /\ d # handle[EntityOf[c]]
      BY <1>2 DEF Cancelled
    <2>2. EntityOf[d] # EntityOf[c]
      BY <2>1 DEF Inv, OneConfirmation
    <2> QED BY <1>3, <2>1, <2>2 DEF Inv, TypeOK, VerdictIsOwn
  <1>14. AccountedFor'
    <2> SUFFICES ASSUME NEW e \in present, optimistic'[e] # NoCall, e # EntityOf[c]
                 PROVE  LET d == optimistic'[e] IN
                          \/ task'[d] \in Running \cup {"blind"}
                          \/ task'[d] = "over" /\ status'[d] = "done"
      BY <1>2, <1>3, <1>5 DEF AccountedFor, Inv, TypeOK
    <2> DEFINE d == optimistic[e]
    <2>1. d = optimistic'[e] /\ d \in Calls /\ EntityOf[d] = e
      BY <1>3 DEF Inv, TypeOK, Ownership
    <2>2. task'[d] = task[d]
      <3>1. d # c
        BY <2>1
      <3>2. d # handle[EntityOf[c]]
        BY <1>5, <2>1 DEF Inv, TypeOK, Ownership
      <3> QED BY <1>2, <2>1, <3>1, <3>2
    <2> QED BY <1>3, <2>1, <2>2 DEF Inv, AccountedFor
  <1>15. EventsAreRefusals'
    BY <1>3 DEF Inv, EventsAreRefusals
  <1> QED BY <1>6, <1>7, <1>8, <1>9, <1>10, <1>11, <1>12, <1>13, <1>14, <1>15
          DEF Inv

(* The head of the queue, and only it, gets its verdict, and for good.     *)
LEMMA PodAnswersInv == ASSUME Inv, PodAnswers PROVE Inv'
  <1> USE CallsAssumption, MaxPollsAssumption DEF Running, Active, Verdicts
  <1> DEFINE h == Head(queue)
  <1>1. /\ queue \in Seq(Calls) /\ queue # <<>>
        /\ h \in Calls /\ h = queue[1] /\ 1 \in 1..Len(queue)
    BY DEF PodAnswers, Inv, TypeOK
  <1>2. status[h] = "pending"
    BY <1>1 DEF Inv, QueueIsPending
  <1>3. /\ queue' \in Seq(Calls) /\ Len(queue') = Len(queue) - 1
        /\ \A i \in 1..Len(queue') : queue'[i] = queue[i + 1] /\ i + 1 \in 1..Len(queue)
    BY <1>1 DEF PodAnswers
  <1>4. PICK answer \in {"done", "failed"} :
           status' = [status EXCEPT ![h] = answer]
    BY DEF PodAnswers
  <1>5. pod' \in [Entities -> Values]
    BY <1>1 DEF PodAnswers, Inv, TypeOK, Values
  <1>6. UNCHANGED <<call, data, lastOk, requested, refresh, runner, lost, snapshot, optimistic,
                    handle, task, polls, events, present, entry>>
    BY DEF PodAnswers, coordinatorVars, refreshVars, entityVars, taskVars, entryVars
  <1> HIDE DEF h
  <1>7. \A c \in Calls : IF c = h THEN status'[c] \in {"done", "failed"}
                                   ELSE status'[c] = status[c]
    BY <1>1, <1>4 DEF Inv, TypeOK
  <1>8. status' \in [Calls -> {"unknown", "pending", "done", "failed"}]
    BY <1>1, <1>4 DEF Inv, TypeOK
  <1>9. TypeOK'
    BY <1>3, <1>5, <1>6, <1>8 DEF Inv, TypeOK
  <1>10. QueueIsPending'
    <2>1. \A i \in 1..Len(queue') : queue'[i] \in Calls /\ queue'[i] # h
      BY <1>1, <1>3 DEF Inv, QueueIsPending
    <2>2. \A i \in 1..Len(queue') : status'[queue'[i]] = "pending"
      BY <1>3, <1>7, <2>1 DEF Inv, QueueIsPending
    <2>3. \A i, j \in 1..Len(queue') : queue'[i] = queue'[j] => i = j
      BY <1>3 DEF Inv, QueueIsPending
    <2> QED BY <2>2, <2>3 DEF QueueIsPending
  <1>11. CallHistory'
    BY <1>2, <1>6, <1>7 DEF Inv, CallHistory
  <1>12. VerdictsStand'
    BY <1>2, <1>6, <1>7 DEF Inv, VerdictsStand
  <1>13. DelaysLeft' /\ Ownership' /\ OneConfirmation' /\ VerdictIsOwn'
    BY <1>6 DEF Inv, DelaysLeft, Ownership, OneConfirmation, VerdictIsOwn
  <1>14. AccountedFor'
    <2> SUFFICES ASSUME NEW e \in present, optimistic[e] # NoCall
                 PROVE  LET c == optimistic[e] IN
                          \/ task[c] \in Running \cup {"blind"}
                          \/ task[c] = "over" /\ status'[c] = "done"
      BY <1>6 DEF AccountedFor
    <2>1. optimistic[e] \in Calls
      BY DEF Inv, TypeOK
    <2> QED BY <1>2, <1>7, <2>1 DEF Inv, AccountedFor
  <1>15. EventsAreRefusals'
    BY <1>2, <1>6, <1>7 DEF Inv, EventsAreRefusals
  <1> QED BY <1>9, <1>10, <1>11, <1>12, <1>13, <1>14, <1>15 DEF Inv

(* A change at the pod touches nothing the integration keeps.              *)
LEMMA ExternalChangeInv == ASSUME Inv, NEW e \in Entities, ExternalChange(e) PROVE Inv'
  <1> USE CallsAssumption, MaxPollsAssumption DEF Running, Active, Verdicts
  <1>1. /\ pod' = [pod EXCEPT ![e] = External]
        /\ UNCHANGED <<call, status, queue, data, lastOk, requested, refresh, runner, lost,
                       snapshot, optimistic, handle, task, polls, events,
                       present, entry>>
    BY DEF ExternalChange, coordinatorVars, refreshVars, entityVars, taskVars, entryVars
  <1>2. QueueIsPending' /\ CallHistory' /\ VerdictsStand' /\ DelaysLeft'
         /\          Ownership' /\ OneConfirmation' /\ VerdictIsOwn' /\ AccountedFor'
         /\          EventsAreRefusals'
    BY <1>1 DEF Inv, QueueIsPending, CallHistory, VerdictsStand, DelaysLeft,
                Ownership, OneConfirmation, VerdictIsOwn, AccountedFor,
                EventsAreRefusals
  <1>3. TypeOK'
    BY <1>1 DEF Inv, TypeOK, Values
  <1> QED BY <1>2, <1>3 DEF Inv

(* Asking spends a delay that was left.                                    *)
LEMMA AskStatusInv == ASSUME Inv, NEW c \in Calls, AskStatus(c) PROVE Inv'
  <1> USE CallsAssumption, MaxPollsAssumption DEF Running, Active, Verdicts
  <1>1. /\ task[c] = "sleeping"
        /\ task' = [task EXCEPT ![c] = "asking"]
        /\ polls' = [polls EXCEPT ![c] = @ + 1]
        /\ UNCHANGED <<call, status, queue, pod, data, lastOk, requested,
                       refresh, runner, lost, snapshot, optimistic, handle, events, present,
                       entry>>
    BY DEF AskStatus, serverVars, coordinatorVars, refreshVars, entityVars, entryVars
  <1>2. QueueIsPending' /\ Ownership' /\ EventsAreRefusals'
    BY <1>1 DEF Inv, QueueIsPending, Ownership, EventsAreRefusals
  <1>3. TypeOK'
    BY <1>1 DEF Inv, TypeOK, DelaysLeft
  <1>4. CallHistory'
    BY <1>1 DEF Inv, TypeOK, CallHistory
  <1>5. VerdictsStand'
    BY <1>1 DEF Inv, TypeOK, VerdictsStand
  <1>6. DelaysLeft'
    BY <1>1 DEF Inv, TypeOK, DelaysLeft
  <1>7. OneConfirmation'
    BY <1>1 DEF Inv, TypeOK, OneConfirmation
  <1>8. VerdictIsOwn'
    BY <1>1 DEF Inv, TypeOK, VerdictIsOwn
  <1>9. AccountedFor'
    BY <1>1 DEF Inv, TypeOK, AccountedFor
  <1> QED BY <1>2, <1>3, <1>4, <1>5, <1>6, <1>7, <1>8, <1>9 DEF Inv

(* The answer is the row as it is, so a verdict read is the verdict.       *)
LEMMA StatusAnsweredInv == ASSUME Inv, NEW c \in Calls, StatusAnswered(c) PROVE Inv'
  <1> USE CallsAssumption, MaxPollsAssumption DEF Running, Active, Verdicts
  <1>1. /\ task[c] = "asking"
        /\ UNCHANGED <<call, status, queue, pod, data, lastOk, requested,
                       refresh, runner, lost, snapshot, optimistic, handle, polls, events,
                       present, entry>>
    BY DEF StatusAnswered, serverVars, coordinatorVars, refreshVars, entityVars, entryVars
  <1>2. QueueIsPending' /\ Ownership' /\ EventsAreRefusals'
    BY <1>1 DEF Inv, QueueIsPending, Ownership, EventsAreRefusals
  <1>3. status[c] \in {"pending", "done", "failed"}
    BY <1>1 DEF Inv, TypeOK, CallHistory
  <1>4. PICK answer \in Verdicts : /\ answer \in {status[c], "unusable"}
                                 /\ task' = [task EXCEPT ![c] = answer]
    BY <1>3 DEF StatusAnswered
  <1>5. /\ task' \in [Calls -> Running \cup {"none", "blind", "over", "cancelled"}]
        /\ task'[c] = answer
        /\ \A d \in Calls : d # c => task'[d] = task[d]
    BY <1>4 DEF Inv, TypeOK
  <1>6. TypeOK'
    BY <1>1, <1>5 DEF Inv, TypeOK
  <1>7. CallHistory' /\ VerdictsStand' /\ DelaysLeft'
    BY <1>1, <1>3, <1>4, <1>5
    DEF Inv, TypeOK, CallHistory, VerdictsStand, DelaysLeft
  <1>8. OneConfirmation' /\ VerdictIsOwn'
    BY <1>1, <1>5 DEF Inv, OneConfirmation, VerdictIsOwn
  <1>9. AccountedFor'
    <2>1. \A e \in present : optimistic[e] # NoCall => optimistic[e] \in Calls
      BY DEF Inv, TypeOK
    <2> QED BY <1>1, <1>5, <2>1 DEF Inv, AccountedFor
  <1> QED BY <1>2, <1>6, <1>7, <1>8, <1>9 DEF Inv

(* The loop goes round only with a delay left.                             *)
LEMMA KeepWaitingInv == ASSUME Inv, NEW c \in Calls, KeepWaiting(c) PROVE Inv'
  <1> USE CallsAssumption, MaxPollsAssumption DEF Running, Active, Verdicts
  <1>1. /\ task[c] = "pending" /\ polls[c] < MaxPolls
        /\ task' = [task EXCEPT ![c] = "sleeping"]
        /\ UNCHANGED <<call, status, queue, pod, data, lastOk, requested,
                       refresh, runner, lost, snapshot, optimistic, handle, polls, events,
                       present, entry>>
    BY DEF KeepWaiting, serverVars, coordinatorVars, refreshVars, entityVars, entryVars
  <1>2. QueueIsPending' /\ Ownership' /\ EventsAreRefusals'
    BY <1>1 DEF Inv, QueueIsPending, Ownership, EventsAreRefusals
  <1>3. TypeOK'
    BY <1>1 DEF Inv, TypeOK
  <1>4. CallHistory'
    BY <1>1 DEF Inv, TypeOK, CallHistory
  <1>5. VerdictsStand'
    BY <1>1 DEF Inv, TypeOK, VerdictsStand
  <1>6. DelaysLeft'
    BY <1>1 DEF Inv, TypeOK, DelaysLeft
  <1>7. OneConfirmation'
    BY <1>1 DEF Inv, TypeOK, OneConfirmation
  <1>8. VerdictIsOwn'
    BY <1>1 DEF Inv, TypeOK, VerdictIsOwn
  <1>9. AccountedFor'
    BY <1>1 DEF Inv, TypeOK, AccountedFor
  <1> QED BY <1>2, <1>3, <1>4, <1>5, <1>6, <1>7, <1>8, <1>9 DEF Inv

(* A confirmation that ends lets go of its own handle, value and event.    *)
LEMMA ConcludeInv == ASSUME Inv, NEW c \in Calls, Conclude(c) PROVE Inv'
  <1> USE CallsAssumption, MaxPollsAssumption DEF Running, Active, Verdicts
  <1> DEFINE own == EntityOf[c]
  <1>1. /\ task[c] \in Verdicts /\ handle[own] = c /\ optimistic[own] \in {c, NoCall}
        /\ own \in Entities
    BY DEF Conclude, ConcludeEnds, Inv, OneConfirmation, VerdictIsOwn
  <1>2. /\ task' = [task EXCEPT ![c] = "over"]
        /\ handle' = [handle EXCEPT ![own] = NoCall]
        /\ UNCHANGED <<call, status, queue, pod, data, lastOk, snapshot,
                       polls, present, entry>>
    BY DEF Conclude, ConcludeEnds, serverVars, entryVars
  <1>3. /\ requested' \in BOOLEAN /\ lost' \in BOOLEAN
        /\ refresh' \in {"idle", "reading", "read", "cancelled"}
        /\ runner' \in Calls \cup {NoCall}
    BY DEF Conclude, AskRefresh, RequestDropped, RequestWaits, RequestRuns,
           refreshVars, Inv, TypeOK
  <1>4. \/ task[c] = "done" /\ optimistic' = optimistic
        \/ task[c] # "done" /\ optimistic' = [optimistic EXCEPT ![own] = NoCall]
    BY DEF Conclude, ClearUnless
  <1>5. \/ task[c] = "failed" /\ events' = [events EXCEPT ![c] = @ + 1]
        \/ task[c] # "failed" /\ events' = events
    BY DEF Conclude, FireOn
  <1>6. events[c] = 0
    BY <1>1 DEF Inv, VerdictsStand
  <1>7. /\ events' \in [Calls -> Nat]
        /\ \A d \in Calls : d # c => events'[d] = events[d]
        /\ events'[c] <= 1
        /\ events'[c] = 1 => status[c] = "failed"
    <2>1. events \in [Calls -> Nat] /\ (task[c] = "failed" => status[c] = "failed")
      BY DEF Inv, TypeOK, VerdictsStand
    <2>2. CASE task[c] = "failed"
      BY <1>5, <1>6, <2>1, <2>2
    <2>3. CASE task[c] # "failed"
      BY <1>5, <1>6, <2>1, <2>3
    <2> QED BY <2>2, <2>3
  <1>8. /\ optimistic' \in [Entities -> Calls \cup {NoCall}]
        /\ \A e \in Entities : optimistic'[e] \in {optimistic[e], NoCall}
        /\ \A e \in Entities : e # own => optimistic'[e] = optimistic[e]
        /\ optimistic'[own] # NoCall => optimistic[own] = c /\ task[c] = "done"
                                          /\ optimistic'[own] = c
    BY <1>1, <1>4 DEF Inv, TypeOK
  <1>9. TypeOK'
    BY <1>1, <1>2, <1>3, <1>7, <1>8 DEF Inv, TypeOK
  <1>10. QueueIsPending'
    BY <1>2 DEF Inv, QueueIsPending
  <1>11. CallHistory' /\ DelaysLeft'
    BY <1>1, <1>2 DEF Inv, TypeOK, CallHistory, DelaysLeft
  <1>12. VerdictsStand'
    BY <1>2, <1>7 DEF Inv, TypeOK, VerdictsStand
  <1>13. Ownership'
    BY <1>2, <1>8 DEF Inv, Ownership
  <1>14. \A d \in Calls : task'[d] \in Running =>
           /\ d # c /\ task'[d] = task[d] /\ EntityOf[d] # own
    BY <1>1, <1>2 DEF Inv, TypeOK, OneConfirmation
  <1>15. OneConfirmation'
    BY <1>2, <1>14 DEF Inv, TypeOK, OneConfirmation
  <1>16. VerdictIsOwn'
    BY <1>8, <1>14 DEF Inv, VerdictIsOwn
  <1>17. AccountedFor'
    <2> SUFFICES ASSUME NEW e \in present, optimistic'[e] # NoCall
                 PROVE  LET d == optimistic'[e] IN
                          \/ task'[d] \in Running \cup {"blind"}
                          \/ task'[d] = "over" /\ status[d] = "done"
      BY <1>2 DEF AccountedFor
    <2>1. e \in Entities
      BY DEF Inv, TypeOK
    <2>2. CASE e = own
      BY <1>2, <1>8, <2>2 DEF Inv, TypeOK, VerdictsStand
    <2>3. CASE e # own
      <3>1. /\ optimistic'[e] = optimistic[e] /\ optimistic[e] \in Calls
            /\ EntityOf[optimistic[e]] = e
        BY <1>8, <2>1, <2>3 DEF Inv, TypeOK, Ownership
      <3>2. task'[optimistic[e]] = task[optimistic[e]]
        BY <1>2, <2>3, <3>1 DEF Inv, TypeOK
      <3> QED BY <3>1, <3>2 DEF Inv, AccountedFor
    <2> QED BY <2>2, <2>3
  <1>18. EventsAreRefusals'
    BY <1>2, <1>7 DEF Inv, EventsAreRefusals
  <1> QED BY <1>9, <1>10, <1>11, <1>12, <1>13, <1>15, <1>16, <1>17, <1>18 DEF Inv

(* A refresh that begins changes neither entities nor commands.            *)
LEMMA RefreshBeginsInv == ASSUME Inv, RefreshBegins PROVE Inv'
  <1> USE CallsAssumption, MaxPollsAssumption DEF Running, Active, Verdicts
  <1>1. /\ refresh' = "reading" /\ requested' = FALSE /\ lost' = FALSE
        /\ UNCHANGED <<call, status, queue, pod, data, lastOk, runner, snapshot,
                       optimistic, handle, task, polls, events, present, entry>>
    BY DEF RefreshBegins, serverVars, entityVars, taskVars, entryVars
  <1>2. QueueIsPending' /\ CallHistory' /\ VerdictsStand' /\ DelaysLeft'
         /\          Ownership' /\ OneConfirmation' /\ VerdictIsOwn' /\ AccountedFor'
         /\          EventsAreRefusals'
    BY <1>1 DEF Inv, QueueIsPending, CallHistory, VerdictsStand, DelaysLeft,
                Ownership, OneConfirmation, VerdictIsOwn, AccountedFor,
                EventsAreRefusals
  <1>3. TypeOK'
    BY <1>1 DEF Inv, TypeOK
  <1> QED BY <1>2, <1>3 DEF Inv

(* Nor does the payload while it is on its way.                            *)
LEMMA PayloadReadInv == ASSUME Inv, PayloadRead PROVE Inv'
  <1> USE CallsAssumption, MaxPollsAssumption DEF Running, Active, Verdicts
  <1>1. /\ refresh' = "read" /\ snapshot' = pod
        /\ UNCHANGED <<call, status, queue, pod, data, lastOk, requested, runner,
                       lost, optimistic, handle, task, polls, events, present,
                       entry>>
    BY DEF PayloadRead, serverVars, entityVars, taskVars, entryVars
  <1>2. QueueIsPending' /\ CallHistory' /\ VerdictsStand' /\ DelaysLeft'
         /\          Ownership' /\ OneConfirmation' /\ VerdictIsOwn' /\ AccountedFor'
         /\          EventsAreRefusals'
    BY <1>1 DEF Inv, QueueIsPending, CallHistory, VerdictsStand, DelaysLeft,
                Ownership, OneConfirmation, VerdictIsOwn, AccountedFor,
                EventsAreRefusals
  <1>3. TypeOK'
    BY <1>1 DEF Inv, TypeOK, Values
  <1> QED BY <1>2, <1>3 DEF Inv

(* The end of a refresh ends the confirmation it ran in, and may drop the  *)
(* values of the entities that hear of it, which no part objects to.       *)
LEMMA RefreshDoneInv ==
  ASSUME Inv, RefreshDone, UNCHANGED optimistic \/ ListenersRun,
         data' \in [Entities -> Values], lastOk' \in BOOLEAN
  PROVE  Inv'
  <1> USE CallsAssumption, MaxPollsAssumption DEF Running, Active, Verdicts
  <1>1. /\ refresh' = "idle" /\ runner' = NoCall
        /\ UNCHANGED <<call, status, queue, pod, requested, lost, snapshot,
                       handle, polls, events, present, entry>>
    BY DEF RefreshDone, serverVars, entryVars
  <1>2. /\ task' \in [Calls -> Running \cup {"none", "blind", "over", "cancelled"}]
        /\ \A c \in Calls : \/ task'[c] = task[c]
                            \/ task[c] = "refreshing" /\ task'[c] = "blind"
    <2>1. task' = [c \in Calls |-> IF c = runner /\ task[c] = "refreshing" THEN "blind"
                                  ELSE task[c]]
      BY DEF RefreshDone
    <2>2. \A c \in Calls : \/ task'[c] = task[c]
                           \/ task[c] = "refreshing" /\ task'[c] = "blind"
      BY <2>1
    <2>3. \A c \in Calls :
            task'[c] \in Running \cup {"none", "blind", "over", "cancelled"}
      BY <2>2 DEF Inv, TypeOK
    <2> QED BY <2>1, <2>2, <2>3
  <1>3. /\ optimistic' \in [Entities -> Calls \cup {NoCall}]
        /\ \A e \in Entities : optimistic'[e] \in {optimistic[e], NoCall}
    BY DEF ListenersRun, Inv, TypeOK
  <1>4. QueueIsPending' /\ CallHistory' /\ VerdictsStand' /\ DelaysLeft'
         /\ EventsAreRefusals'
    BY <1>1, <1>2 DEF Inv, QueueIsPending, CallHistory, VerdictsStand,
                      DelaysLeft, EventsAreRefusals
  <1>5. TypeOK'
    BY <1>1, <1>2, <1>3 DEF Inv, TypeOK
  <1>6. Ownership'
    BY <1>1, <1>3 DEF Inv, Ownership
  <1>7. OneConfirmation' /\ VerdictIsOwn'
    BY <1>1, <1>2, <1>3 DEF Inv, OneConfirmation, VerdictIsOwn
  <1>8. AccountedFor'
    <2> SUFFICES ASSUME NEW e \in present, optimistic'[e] # NoCall
                 PROVE  LET c == optimistic'[e] IN
                          \/ task'[c] \in Running \cup {"blind"}
                          \/ task'[c] = "over" /\ status[c] = "done"
      BY <1>1 DEF AccountedFor
    <2>1. e \in Entities /\ optimistic'[e] = optimistic[e] /\ optimistic[e] \in Calls
      BY <1>3 DEF Inv, TypeOK
    <2> QED BY <1>2, <2>1 DEF Inv, AccountedFor
  <1> QED BY <1>4, <1>5, <1>6, <1>7, <1>8 DEF Inv

(* Fresh data is the payload that was read.                                *)
LEMMA RefreshEndsInv == ASSUME Inv, RefreshEnds PROVE Inv'
  BY RefreshDoneInv DEF RefreshEnds, Inv, TypeOK

(* A failed poll leaves the data, and the first of a series is heard of.   *)
LEMMA RefreshFailsInv == ASSUME Inv, RefreshFails PROVE Inv'
  BY RefreshDoneInv DEF RefreshFails, Inv, TypeOK

(* Nobody hears of a refresh that was cancelled.                           *)
LEMMA RefreshUnwindsInv == ASSUME Inv, RefreshUnwinds PROVE Inv'
  <1>1. /\ refresh' = "idle"
        /\ UNCHANGED <<call, status, queue, pod, data, lastOk, requested, runner,
                       lost, snapshot, optimistic, handle, task, polls, events,
                       present, entry>>
    BY DEF RefreshUnwinds, serverVars, entityVars, taskVars, entryVars
  <1>2. /\ QueueIsPending' /\ CallHistory' /\ VerdictsStand' /\ DelaysLeft'
        /\ Ownership' /\ OneConfirmation' /\ VerdictIsOwn' /\ AccountedFor'
        /\ EventsAreRefusals'
    BY <1>1 DEF Inv, QueueIsPending, CallHistory, VerdictsStand, DelaysLeft,
                Ownership, OneConfirmation, VerdictIsOwn, AccountedFor,
                EventsAreRefusals
  <1>3. TypeOK'
    BY <1>1 DEF Inv, TypeOK
  <1> QED BY <1>2, <1>3 DEF Inv

(* Cancelling the confirmations of a set of calls, and with them the       *)
(* refresh one of them runs, keeps the invariant, as long as the handles   *)
(* that are let go are theirs and every entity left keeps its value.       *)
LEMMA CancellingInv ==
  ASSUME Inv, NEW held \in SUBSET Calls, NEW gone \in SUBSET Entities,
         task' = [c \in Calls |-> IF c \in held THEN Cancelled(task[c])
                                  ELSE task[c]],
         handle' = [e \in Entities |-> IF e \in gone THEN NoCall ELSE handle[e]],
         \A c \in Calls : EntityOf[c] \in gone /\ handle[EntityOf[c]] = c => c \in held,
         \A c \in held : EntityOf[c] \notin present',
         present' \subseteq present,
         entry' \in {"loaded", "unloading", "unloaded"},
         entry' # "loaded" => present' = {},
         requested' \in BOOLEAN, lost' \in BOOLEAN,
         refresh' \in {"idle", "reading", "read", "cancelled"},
         runner' \in Calls \cup {NoCall},
         UNCHANGED <<call, status, queue, pod, data, lastOk, snapshot, optimistic,
                     polls, events>>
  PROVE  Inv'
  <1> USE CallsAssumption, MaxPollsAssumption DEF Running, Active, Verdicts
  <1>1. /\ task' \in [Calls -> Running \cup {"none", "blind", "over", "cancelled"}]
        /\ \A c \in Calls :
             \/ task'[c] = task[c] /\ (c \in held => task[c] \notin Running)
             \/ /\ c \in held /\ task[c] \in Running
                /\ task'[c] \in {"cancelled", "blind"}
    BY DEF Cancelled, Inv, TypeOK
  <1>2. QueueIsPending' /\ EventsAreRefusals'
    BY DEF Inv, QueueIsPending, EventsAreRefusals
  <1>3. TypeOK'
    BY <1>1 DEF Inv, TypeOK
  <1>4. CallHistory' /\ VerdictsStand' /\ DelaysLeft'
    BY <1>1 DEF Inv, CallHistory, VerdictsStand, DelaysLeft
  <1>5. Ownership'
    BY DEF Inv, Ownership
  <1>6. OneConfirmation'
    <2> SUFFICES ASSUME NEW c \in Calls, task'[c] \in Running
                 PROVE  handle'[EntityOf[c]] = c
      BY DEF OneConfirmation
    <2>1. task[c] \in Running /\ c \notin held
      BY <1>1
    <2> QED BY <2>1 DEF Inv, OneConfirmation
  <1>7. VerdictIsOwn'
    BY <1>1 DEF Inv, VerdictIsOwn
  <1>8. AccountedFor'
    <2> SUFFICES ASSUME NEW e \in present', optimistic[e] # NoCall
                 PROVE  LET c == optimistic[e] IN
                          \/ task'[c] \in Running \cup {"blind"}
                          \/ task'[c] = "over" /\ status[c] = "done"
      BY DEF AccountedFor
    <2>1. /\ e \in present /\ e \in Entities
          /\ optimistic[e] \in Calls /\ EntityOf[optimistic[e]] = e
      BY DEF Inv, TypeOK, Ownership
    <2>2. task'[optimistic[e]] = task[optimistic[e]]
      BY <2>1
    <2> QED BY <2>1, <2>2 DEF Inv, AccountedFor
  <1> QED BY <1>2, <1>3, <1>4, <1>5, <1>6, <1>7, <1>8 DEF Inv

(* Removing an entity cancels the confirmation its handle holds.           *)
LEMMA EntityRemovedInv == ASSUME Inv, NEW e \in Entities, EntityRemoved(e) PROVE Inv'
  <1>1. /\ HeldBy({e}) \in SUBSET Calls /\ {e} \in SUBSET Entities
        /\ \A c \in Calls : EntityOf[c] \in {e} /\ handle[EntityOf[c]] = c
                              => c \in HeldBy({e})
        /\ \A c \in HeldBy({e}) : EntityOf[c] \notin present'
    BY DEF EntityRemoved, Removing, HeldBy
  <1>2. /\ requested' \in BOOLEAN /\ lost' \in BOOLEAN
        /\ refresh' \in {"idle", "reading", "read", "cancelled"}
        /\ runner' \in Calls \cup {NoCall}
    BY DEF EntityRemoved, RefreshGoesWith, Inv, TypeOK
  <1>3. /\ task' = [c \in Calls |-> IF c \in HeldBy({e}) THEN Cancelled(task[c])
                                     ELSE task[c]]
        /\ handle' = [f \in Entities |-> IF f \in {e} THEN NoCall ELSE handle[f]]
        /\ present' \subseteq present /\ entry' = "loaded"
        /\ UNCHANGED <<call, status, queue, pod, data, lastOk, snapshot,
                       optimistic, polls, events>>
    BY DEF EntityRemoved, Removing, serverVars
  <1> QED BY <1>1, <1>2, <1>3, CancellingInv

(* Unloading the platforms removes every entity that way.                  *)
LEMMA PlatformsUnloadInv == ASSUME Inv, PlatformsUnload PROVE Inv'
  <1>1. /\ HeldBy(present) \in SUBSET Calls /\ present \in SUBSET Entities
        /\ \A c \in Calls : EntityOf[c] \in present /\ handle[EntityOf[c]] = c
                              => c \in HeldBy(present)
        /\ present' = {}
    BY DEF PlatformsUnload, Removing, HeldBy, Inv, TypeOK
  <1>2. /\ requested' \in BOOLEAN /\ lost' \in BOOLEAN
        /\ refresh' \in {"idle", "reading", "read", "cancelled"}
        /\ runner' \in Calls \cup {NoCall}
    BY DEF PlatformsUnload, RefreshGoesWith, Inv, TypeOK
  <1>3. /\ task' = [c \in Calls |-> IF c \in HeldBy(present) THEN Cancelled(task[c])
                                     ELSE task[c]]
        /\ handle' = [f \in Entities |-> IF f \in present THEN NoCall ELSE handle[f]]
        /\ entry' = "unloading"
        /\ UNCHANGED <<call, status, queue, pod, data, lastOk, snapshot,
                       optimistic, polls, events>>
    BY DEF PlatformsUnload, Removing, serverVars
  <1> QED BY <1>1, <1>2, <1>3, CancellingInv

(* The entry cancels whatever is still running.                            *)
LEMMA EntryUnloadedInv == ASSUME Inv, EntryUnloaded PROVE Inv'
  <1>1. /\ requested' \in BOOLEAN /\ lost' \in BOOLEAN
        /\ refresh' \in {"idle", "reading", "read", "cancelled"}
        /\ runner' \in Calls \cup {NoCall}
    BY DEF EntryUnloaded, Inv, TypeOK
  <1> DEFINE none == {}
  <1>2. /\ task' = [c \in Calls |-> IF c \in Calls THEN Cancelled(task[c]) ELSE task[c]]
        /\ handle' = [f \in Entities |-> IF f \in none THEN NoCall ELSE handle[f]]
        /\ present' = {} /\ present' \subseteq present /\ entry' = "unloaded"
        /\ Calls \in SUBSET Calls /\ none \in SUBSET Entities
        /\ \A c \in Calls : EntityOf[c] \notin present'
        /\ UNCHANGED <<call, status, queue, pod, data, lastOk, snapshot,
                       optimistic, polls, events>>
    BY DEF EntryUnloaded, serverVars, entityVars, Inv, TypeOK, Ownership
  <1> QED BY <1>1, <1>2, CancellingInv

----------------------------------------------------------------------------
(* Every step keeps the invariant.                                         *)
THEOREM NextInv == Inv /\ [Next]_vars => Inv'
  <1> SUFFICES ASSUME Inv, [Next]_vars PROVE Inv'
    OBVIOUS
  <1>1. ASSUME NEW c \in Calls,
               Call(c) \/ ServerAccepts(c) \/ SendFails(c) \/ ReplyArrives(c)
        PROVE  Inv'
    BY <1>1, CallInv, ServerAcceptsInv, SendFailsInv, ReplyArrivesInv
  <1>2. ASSUME NEW c \in Calls,
               \/ AskStatus(c) \/ StatusAnswered(c)
               \/ KeepWaiting(c) \/ Conclude(c)
        PROVE  Inv'
    BY <1>2, AskStatusInv, StatusAnsweredInv, KeepWaitingInv, ConcludeInv
  <1>3. CASE PodAnswers
    BY <1>3, PodAnswersInv
  <1>4. ASSUME NEW e \in Entities, ExternalChange(e) \/ EntityRemoved(e)
        PROVE  Inv'
    BY <1>4, ExternalChangeInv, EntityRemovedInv
  <1>5. CASE RequestedRefresh \/ ScheduledPoll
    BY <1>5, RefreshBeginsInv DEF RequestedRefresh, ScheduledPoll
  <1>6. CASE PayloadRead \/ RefreshEnds \/ RefreshFails \/ RefreshUnwinds
    BY <1>6, PayloadReadInv, RefreshEndsInv, RefreshFailsInv, RefreshUnwindsInv
  <1>7. CASE PlatformsUnload \/ EntryUnloaded
    BY <1>7, PlatformsUnloadInv, EntryUnloadedInv
  <1>8. CASE UNCHANGED vars
    BY <1>8 DEF vars, Inv, TypeOK, QueueIsPending, CallHistory, VerdictsStand,
                DelaysLeft, Ownership, OneConfirmation, VerdictIsOwn,
                AccountedFor, EventsAreRefusals
  <1> QED BY <1>1, <1>2, <1>3, <1>4, <1>5, <1>6, <1>7, <1>8 DEF Next

(* The invariant holds throughout every behaviour.                         *)
THEOREM Invariance == Spec => []Inv
  <1> QED BY InitInv, NextInv, PTL DEF Spec

(* The values of the model are well typed, for every instance.             *)
THEOREM Typing == Spec => []TypeOK
  <1>1. Inv => TypeOK
    BY DEF Inv
  <1> QED BY <1>1, Invariance, PTL

(* An entity has at most one confirmation running, the one the next write  *)
(* or the removal of the entity will cancel, whatever overlaps.            *)
THEOREM OneConfirmationAlways == Spec => []OneConfirmation
  <1>1. Inv => OneConfirmation
    BY DEF Inv
  <1> QED BY <1>1, Invariance, PTL

(* The verdict on a write never wipes the value of another write.          *)
THEOREM VerdictIsOwnAlways == Spec => []VerdictIsOwn
  <1>1. Inv => VerdictIsOwn
    BY DEF Inv
  <1> QED BY <1>1, Invariance, PTL

(* A value shown ahead of the payload is followed, applied, or about to be *)
(* refreshed.                                                              *)
THEOREM AccountedForAlways == Spec => []AccountedFor
  <1>1. Inv => AccountedFor
    BY DEF Inv
  <1> QED BY <1>1, Invariance, PTL

(* The failure event is fired at most once per command, and only for one   *)
(* the pod refused.                                                        *)
THEOREM EventsAreRefusalsAlways == Spec => []EventsAreRefusals
  <1>1. Inv => EventsAreRefusals
    BY DEF Inv
  <1> QED BY <1>1, Invariance, PTL

----------------------------------------------------------------------------
(* What a refresh that was asked for comes to: a reading, or it is lost.   *)
Coming == ReadingComes \/ lost

(* A refresh that is being cancelled is counted as lost.                   *)
LossIsSeen == refresh = "cancelled" => lost

(* Asking while the entry is there leaves a reading to come.               *)
LEMMA AskingBrings ==
  ASSUME Inv, LossIsSeen, NEW c \in Calls, AskRefresh(c), UNCHANGED lastOk,
         entry # "unloaded"
  PROVE  Coming'
  <1>1. refresh \in {"idle", "reading", "read", "cancelled"}
    BY DEF Inv, TypeOK
  <1> QED BY <1>1 DEF AskRefresh, RequestDropped, RequestWaits, RequestRuns,
                      refreshVars, LossIsSeen, Coming, ReadingComes

(* Cancelling the task a refresh runs in loses the reading, and says so.   *)
LEMMA LosingIsSeen ==
  ASSUME NEW held, RefreshGoesWith(held), UNCHANGED lastOk
  PROVE  /\ Coming => Coming'
         /\ LossIsSeen => LossIsSeen'
  BY DEF RefreshGoesWith, Coming, ReadingComes, LossIsSeen

(* A write that begins to be followed leaves a reading that was coming to  *)
(* come, and asks for one itself when it has nothing to follow.            *)
LEMMA StartingBrings ==
  ASSUME Inv, LossIsSeen, NEW c \in Calls, Starting(c), UNCHANGED lastOk,
         entry # "unloaded"
  PROVE  /\ Coming => Coming'
         /\ task'[c] = "sleeping" \/ Coming'
         /\ LossIsSeen'
  <1>1. refresh \in {"idle", "reading", "read", "cancelled"}
    BY DEF Inv, TypeOK
  <1>2. CASE Superseding(c, "sleeping") /\ RefreshGoesWith(HeldBy({EntityOf[c]}))
    BY <1>2, LosingIsSeen DEF Superseding
  <1>3. CASE RequestRuns(c) \/ RequestWaits
    BY <1>1, <1>3 DEF RequestRuns, RequestWaits, Coming, ReadingComes, LossIsSeen
  <1>4. CASE refresh # "idle" /\ RefreshGoesWith(HeldBy({EntityOf[c]}))
    <2>1. Coming
      BY <1>1, <1>4 DEF Coming, ReadingComes, LossIsSeen
    <2> QED BY <1>4, <2>1, LosingIsSeen
  <1> QED BY <1>2, <1>3, <1>4 DEF Starting

(* Every step that cancels a refresh counts it as lost, and only another   *)
(* refresh that begins takes that back.                                    *)
LEMMA LossIsSeenInv == LossIsSeen /\ [Next]_vars => LossIsSeen'
  <1> SUFFICES ASSUME LossIsSeen, [Next]_vars PROVE LossIsSeen'
    OBVIOUS
  <1>1. ASSUME UNCHANGED refreshVars PROVE LossIsSeen'
    BY <1>1 DEF LossIsSeen, refreshVars
  <1>2. ASSUME NEW c \in Calls,
               \/ Call(c) \/ ServerAccepts(c) \/ SendFails(c)
               \/ AskStatus(c) \/ StatusAnswered(c) \/ KeepWaiting(c)
        PROVE  LossIsSeen'
    BY <1>1, <1>2 DEF Call, ServerAccepts, SendFails, AskStatus, StatusAnswered,
                      KeepWaiting, coordinatorVars
  <1>3. ASSUME NEW c \in Calls, ReplyArrives(c) PROVE LossIsSeen'
    BY <1>3 DEF ReplyArrives, Starting, RefreshGoesWith, RequestRuns,
                RequestWaits, LossIsSeen
  <1>4. ASSUME NEW c \in Calls, Conclude(c) PROVE LossIsSeen'
    BY <1>4 DEF Conclude, AskRefresh, RequestDropped, RequestWaits, RequestRuns,
                refreshVars, LossIsSeen
  <1>5. CASE \/ PodAnswers \/ \E e \in Entities : ExternalChange(e)
             \/ UNCHANGED vars
    BY <1>1, <1>5 DEF PodAnswers, ExternalChange, coordinatorVars, refreshVars,
                      vars
  <1>6. CASE \/ RequestedRefresh \/ ScheduledPoll
             \/ PayloadRead \/ RefreshEnds \/ RefreshFails \/ RefreshUnwinds
    BY <1>6 DEF RequestedRefresh, ScheduledPoll, RefreshBegins, PayloadRead,
                RefreshEnds, RefreshFails, RefreshDone, RefreshUnwinds, LossIsSeen
  <1>7. CASE \/ \E e \in Entities : EntityRemoved(e)
             \/ PlatformsUnload \/ EntryUnloaded
    BY <1>7 DEF EntityRemoved, PlatformsUnload, EntryUnloaded, RefreshGoesWith,
                LossIsSeen
  <1> QED BY <1>2, <1>3, <1>4, <1>5, <1>6, <1>7 DEF Next

(* An optimistic value whose confirmation has ended meets a reading: each  *)
(* step that ends a confirmation asks for one, each step that ends a       *)
(* refresh wipes the value or leaves the entity unavailable, and a step    *)
(* that cancels a refresh is counted.                                      *)
LEMMA ReadingDueInv ==
  Inv /\ LossIsSeen /\ ReadingDue /\ [Next]_vars => ReadingDue'
  <1> SUFFICES ASSUME Inv, LossIsSeen, ReadingDue, [Next]_vars PROVE ReadingDue'
    OBVIOUS
  <1> DEFINE Due(e) == optimistic[e] # NoCall =>
                         task[optimistic[e]] \in Active \/ Coming
  <1>0. /\ \A e \in present : Due(e)
        /\ \A e \in Entities : optimistic[e] \in Calls \cup {NoCall}
        /\ present \subseteq Entities /\ NoCall \notin Calls
        /\ EntityOf \in [Calls -> Entities]
        /\ ReadingDue' <=> \A e \in present' : Due(e)'
    BY CallsAssumption DEF Inv, TypeOK, ReadingDue, Coming
  <1>1. ASSUME UNCHANGED <<refreshVars, lastOk, optimistic, present>>,
               \A c \in Calls : task[c] \in Active => task'[c] \in Active
        PROVE  ReadingDue'
    BY <1>0, <1>1 DEF Coming, ReadingComes, refreshVars
  <1>2. ASSUME NEW c \in Calls, Call(c) \/ ServerAccepts(c) \/ SendFails(c)
        PROVE  ReadingDue'
    BY <1>1, <1>2 DEF Call, ServerAccepts, SendFails, coordinatorVars,
                      entityVars, taskVars, entryVars
  <1>3. ASSUME NEW c \in Calls, ReplyArrives(c) PROVE ReadingDue'
    <2> DEFINE own == EntityOf[c]
    <2>1. /\ optimistic' = [optimistic EXCEPT ![own] = c] /\ own \in Entities
          /\ UNCHANGED <<lastOk, present, entry>>
          /\ Starting(c)
      BY <1>0, <1>3 DEF ReplyArrives, entryVars
    <2> SUFFICES ASSUME NEW e \in present PROVE Due(e)'
      BY <1>0, <2>1
    <2>2. entry # "unloaded"
      BY DEF Inv, Ownership
    <2>3. (Coming => Coming') /\ (task'[c] = "sleeping" \/ Coming')
      BY <2>1, <2>2, StartingBrings
    <2>4. CASE e = own
      <3>1. optimistic'[e] = c
        BY <1>0, <2>1, <2>4 DEF Inv, TypeOK
      <3> QED BY <2>3, <3>1 DEF Active
    <2>5. CASE e # own
      <3>1. optimistic'[e] = optimistic[e]
        BY <1>0, <2>1, <2>5 DEF Inv, TypeOK
      <3> SUFFICES ASSUME optimistic[e] # NoCall
                   PROVE  task'[optimistic[e]] \in Active \/ Coming'
        BY <3>1
      <3> DEFINE d == optimistic[e]
      <3>2. d \in Calls /\ EntityOf[d] = e
        BY <1>0 DEF Inv, Ownership
      <3>3. d # c /\ d \notin HeldBy({own})
        BY <1>0, <2>1, <2>5, <3>2 DEF HeldBy
      <3>4. task'[d] = task[d]
        BY <2>1, <3>2, <3>3 DEF Starting, Superseding
      <3> QED BY <1>0, <2>3, <3>4
    <2> QED BY <2>4, <2>5
  <1>4. CASE PodAnswers \/ \E e \in Entities : ExternalChange(e)
    BY <1>1, <1>4 DEF PodAnswers, ExternalChange, coordinatorVars, entityVars,
                      taskVars, entryVars
  <1>5. ASSUME NEW c \in Calls, AskStatus(c) \/ StatusAnswered(c) \/ KeepWaiting(c)
        PROVE  ReadingDue'
    <2>1. task'[c] \in Active \/ status[c] = "unknown"
      BY <1>5 DEF AskStatus, StatusAnswered, KeepWaiting, Active, Verdicts,
                  Inv, TypeOK
    <2>2. task[c] \in Active /\ \A d \in Calls \ {c} : task'[d] = task[d]
      BY <1>5 DEF AskStatus, StatusAnswered, KeepWaiting, Active, Verdicts,
                  Inv, TypeOK
    <2>3. status[c] # "unknown"
      BY <2>2 DEF Inv, CallHistory, Active, Verdicts
    <2>4. UNCHANGED <<refreshVars, lastOk, optimistic, present>>
      BY <1>5 DEF AskStatus, StatusAnswered, KeepWaiting, coordinatorVars,
                  entityVars, entryVars
    <2> QED BY <1>1, <2>1, <2>2, <2>3, <2>4
  <1>6. ASSUME NEW c \in Calls, Conclude(c) PROVE ReadingDue'
    <2>1. AskRefresh(c) /\ UNCHANGED <<lastOk, present, entry>>
      BY <1>6 DEF Conclude, ConcludeEnds, entryVars
    <2>2. CASE entry = "unloaded"
      BY <1>0, <2>1, <2>2 DEF Inv, Ownership
    <2>3. CASE entry # "unloaded"
      BY <1>0, <2>1, <2>3, AskingBrings
    <2> QED BY <2>2, <2>3
  <1>7. CASE RequestedRefresh \/ ScheduledPoll
    BY <1>0, <1>7 DEF RequestedRefresh, ScheduledPoll, RefreshBegins, Coming,
                      ReadingComes
  <1>8. CASE PayloadRead
    BY <1>0, <1>8 DEF PayloadRead, Coming, ReadingComes, entityVars, taskVars,
                      entryVars
  <1>9. CASE RefreshEnds
    <2>1. \A e \in present : optimistic'[e] = NoCall
      BY <1>0, <1>9 DEF RefreshEnds, ListenersRun
    <2> QED BY <1>0, <1>9, <2>1 DEF RefreshEnds, RefreshDone, entryVars
  <1>10. CASE RefreshFails
    BY <1>0, <1>10 DEF RefreshFails, Coming, ReadingComes
  <1>11. CASE RefreshUnwinds
    BY <1>0, <1>11 DEF RefreshUnwinds, LossIsSeen, Coming
  <1>12. ASSUME NEW e \in Entities, EntityRemoved(e) PROVE ReadingDue'
    <2>1. /\ present' = present \ {e}
          /\ UNCHANGED <<lastOk, optimistic>>
          /\ RefreshGoesWith(HeldBy({e}))
          /\ \A c \in Calls : EntityOf[c] # e => task'[c] = task[c]
      BY <1>12 DEF EntityRemoved, Removing, HeldBy
    <2>2. Coming => Coming'
      BY <2>1, LosingIsSeen
    <2> SUFFICES ASSUME NEW f \in present \ {e}, optimistic[f] # NoCall
                 PROVE  task'[optimistic[f]] \in Active \/ Coming'
      BY <1>0, <2>1
    <2>3. optimistic[f] \in Calls /\ EntityOf[optimistic[f]] = f
      BY <1>0 DEF Inv, Ownership
    <2> QED BY <1>0, <2>1, <2>2, <2>3
  <1>13. CASE PlatformsUnload
    BY <1>0, <1>13 DEF PlatformsUnload, Removing
  <1>14. CASE EntryUnloaded
    BY <1>0, <1>14 DEF EntryUnloaded, Inv, Ownership
  <1>15. CASE UNCHANGED vars
    BY <1>1, <1>15 DEF vars, refreshVars
  <1> QED BY <1>2, <1>3, <1>4, <1>5, <1>6, <1>7, <1>8, <1>9, <1>10, <1>11,
             <1>12, <1>13, <1>14, <1>15 DEF Next

(* No entity is left showing what it was asked for with nothing on its way *)
(* to replace it, unless a refresh was lost with the confirmation it ran   *)
(* in (_follow_command, async_request_refresh, _cancel_confirmation).      *)
THEOREM ReadingAlwaysDue == Spec => []ReadingDue
  <1>1. Init => ReadingDue /\ LossIsSeen
    BY DEF Init, ReadingDue, LossIsSeen
  <1> QED BY <1>1, ReadingDueInv, LossIsSeenInv, Invariance, PTL DEF Spec

----------------------------------------------------------------------------
(* What a refresh runs in, when it runs in a confirmation: one that waits  *)
(* for it without a cmdID, or one that has concluded and let its handle go.*)
RunnerStands ==
  /\ runner # NoCall => refresh \in {"reading", "read"}
  /\ \A c \in Calls :
       /\ runner = c => task[c] \in {"refreshing", "over"}
       /\ handle[EntityOf[c]] = c => task[c] # "over"

(* Cancelling confirmations leaves that true of the refresh that is left.  *)
LEMMA CancellingLeavesRunner ==
  ASSUME Inv, RunnerStands, NEW gone \in SUBSET Entities,
         RefreshGoesWith(HeldBy(gone)), NEW c \in Calls, runner' = c
  PROVE  /\ runner = c /\ c \notin HeldBy(gone)
         /\ refresh' = refresh
  BY CallsAssumption DEF RefreshGoesWith

(* It holds of every step.                                                 *)
LEMMA RunnerStandsInv == Inv /\ RunnerStands /\ [Next]_vars => RunnerStands'
  <1> SUFFICES ASSUME Inv, RunnerStands, [Next]_vars PROVE RunnerStands'
    OBVIOUS
  <1> USE CallsAssumption
  <1>1. ASSUME UNCHANGED <<refresh, runner, handle>>,
               \A c \in Calls : \/ task'[c] = task[c]
                                \/ task[c] \in Active /\ task'[c] # "over"
        PROVE  RunnerStands'
    BY <1>1 DEF RunnerStands, Active, Verdicts
  <1>2. ASSUME NEW c \in Calls,
               \/ Call(c) \/ ServerAccepts(c) \/ SendFails(c)
               \/ AskStatus(c) \/ StatusAnswered(c) \/ KeepWaiting(c)
        PROVE  RunnerStands'
    <2>1. CASE AskStatus(c) \/ StatusAnswered(c) \/ KeepWaiting(c)
      <3>1. UNCHANGED <<refresh, runner, handle>>
        BY <2>1 DEF AskStatus, StatusAnswered, KeepWaiting, coordinatorVars,
                    refreshVars, entityVars
      <3>2. /\ task[c] \in Active /\ task'[c] # "over"
            /\ \A d \in Calls \ {c} : task'[d] = task[d]
        BY <2>1 DEF AskStatus, StatusAnswered, KeepWaiting, Inv, TypeOK,
                    Active, Verdicts
      <3> QED BY <1>1, <3>1, <3>2
    <2>2. CASE Call(c) \/ ServerAccepts(c) \/ SendFails(c)
      <3>1. UNCHANGED <<refresh, runner, handle, task>>
        BY <2>2 DEF Call, ServerAccepts, SendFails, coordinatorVars,
                    refreshVars, entityVars, taskVars
      <3> QED BY <1>1, <3>1
    <2> QED BY <1>2, <2>1, <2>2
  <1>3. ASSUME NEW c \in Calls, ReplyArrives(c) PROVE RunnerStands'
    <2> DEFINE held == HeldBy({EntityOf[c]})
    <2>1. /\ task[c] = "none" /\ runner # c
          /\ handle' = [handle EXCEPT ![EntityOf[c]] = c]
          /\ EntityOf[c] \in Entities
      BY <1>3 DEF ReplyArrives, Inv, CallHistory, RunnerStands
    <2>2. PICK state \in {"sleeping", "refreshing", "blind"} : Superseding(c, state)
      BY <1>3 DEF ReplyArrives, Starting
    <2>3. /\ task'[c] = state
          /\ \A d \in Calls \ {c} :
               task'[d] = IF d \in held THEN Cancelled(task[d]) ELSE task[d]
      BY <2>2 DEF Superseding
    <2>4. \A d \in Calls : handle'[EntityOf[d]] = d => task'[d] # "over"
      <3> SUFFICES ASSUME NEW d \in Calls, handle'[EntityOf[d]] = d, d # c
                   PROVE  task'[d] # "over"
        BY <2>3
      <3>1. EntityOf[d] # EntityOf[c] /\ handle[EntityOf[d]] = d
        BY <2>1 DEF Inv, TypeOK
      <3>2. d \notin held
        BY <3>1 DEF HeldBy
      <3> QED BY <2>3, <3>1, <3>2 DEF RunnerStands
    <2>5. CASE RefreshGoesWith(held)
      <3>1. /\ runner' # NoCall => runner' = runner /\ refresh' = refresh
            /\ \A d \in Calls : runner' = d => d \notin held /\ d # c
        BY <2>1, <2>5 DEF RefreshGoesWith
      <3> QED BY <2>3, <2>4, <3>1 DEF RunnerStands
    <2>6. CASE Superseding(c, "refreshing") /\ RequestRuns(c)
      <3>1. task'[c] = "refreshing" /\ runner' = c /\ refresh' = "reading"
        BY <2>6 DEF Superseding, RequestRuns
      <3> QED BY <2>4, <3>1 DEF RunnerStands
    <2>7. CASE RequestWaits
      <3>1. runner' = NoCall
        BY <2>7 DEF RequestWaits, RunnerStands
      <3> QED BY <2>4, <3>1 DEF RunnerStands
    <2> QED BY <1>3, <2>5, <2>6, <2>7 DEF ReplyArrives, Starting
  <1>4. ASSUME NEW c \in Calls, Conclude(c) PROVE RunnerStands'
    <2>1. /\ task' = [task EXCEPT ![c] = "over"]
          /\ handle' = [handle EXCEPT ![EntityOf[c]] = NoCall]
          /\ EntityOf[c] \in Entities
      BY <1>4 DEF Conclude, ConcludeEnds
    <2>2. \A d \in Calls : handle'[EntityOf[d]] = d => task'[d] # "over"
      BY <2>1 DEF RunnerStands, Inv, TypeOK
    <2>3. \A d \in Calls : task[d] = "over" \/ d = c => task'[d] = "over"
      BY <2>1 DEF Inv, TypeOK
    <2>4. \A d \in Calls : d # c => task'[d] = task[d]
      BY <2>1 DEF Inv, TypeOK
    <2>5. CASE RequestRuns(c)
      BY <2>2, <2>3, <2>5 DEF RequestRuns, RunnerStands
    <2>6. CASE RequestDropped \/ RequestWaits
      <3>1. runner' = runner /\ refresh' = refresh
        BY <2>6 DEF RequestDropped, RequestWaits, refreshVars
      <3> QED BY <2>2, <2>3, <2>4, <3>1 DEF RunnerStands
    <2> QED BY <1>4, <2>5, <2>6 DEF Conclude, AskRefresh
  <1>5. CASE \/ PodAnswers \/ \E e \in Entities : ExternalChange(e)
             \/ UNCHANGED vars
    <2>1. UNCHANGED <<refresh, runner, handle, task>>
      BY <1>5 DEF PodAnswers, ExternalChange, coordinatorVars, refreshVars,
                  entityVars, taskVars, vars
    <2> QED BY <1>1, <2>1
  <1>6. CASE RequestedRefresh \/ ScheduledPoll \/ PayloadRead \/ RefreshUnwinds
    BY <1>6 DEF RequestedRefresh, ScheduledPoll, RefreshBegins, PayloadRead,
                RefreshUnwinds, entityVars, taskVars, RunnerStands
  <1>7. CASE RefreshEnds \/ RefreshFails
    <2>1. /\ runner' = NoCall /\ handle' = handle
          /\ \A c \in Calls : task'[c] = "over" => task[c] = "over"
      BY <1>7 DEF RefreshEnds, RefreshFails, RefreshDone
    <2> QED BY <2>1 DEF RunnerStands
  <1>8. ASSUME NEW gone \in SUBSET Entities, Removing(gone),
               RefreshGoesWith(HeldBy(gone))
        PROVE  RunnerStands'
    <2>1. \A c \in Calls :
            /\ task'[c] = "over" => task[c] = "over"
            /\ c \notin HeldBy(gone) => task'[c] = task[c]
            /\ handle'[EntityOf[c]] = c => handle[EntityOf[c]] = c
      BY <1>8 DEF Removing, Cancelled
    <2>2. \A c \in Calls :
            runner' = c => runner = c /\ c \notin HeldBy(gone) /\ refresh' = refresh
      BY <1>8, CancellingLeavesRunner
    <2>3. runner' \in Calls \cup {NoCall}
      BY <1>8 DEF RefreshGoesWith, Inv, TypeOK
    <2> QED BY <2>1, <2>2, <2>3 DEF RunnerStands
  <1>9. CASE (\E e \in Entities : EntityRemoved(e)) \/ PlatformsUnload
    <2>1. present \in SUBSET Entities
      BY DEF Inv, TypeOK
    <2> QED BY <1>8, <1>9, <2>1 DEF EntityRemoved, PlatformsUnload
  <1>10. CASE EntryUnloaded
    <2>1. /\ runner' = NoCall /\ handle' = handle
          /\ \A c \in Calls : task'[c] = "over" => task[c] = "over"
      BY <1>10 DEF EntryUnloaded, entityVars, Cancelled
    <2> QED BY <2>1 DEF RunnerStands
  <1> QED BY <1>2, <1>3, <1>4, <1>5, <1>6, <1>7, <1>9, <1>10 DEF Next

(* No confirmation without a cmdID ever runs a refresh: so it is when each *)
(* reply names its command.                                                *)
NoneRunsBlind == \A c \in Calls : task[c] # "refreshing"

(* Then no refresh is lost: the only confirmation that runs one has let go *)
(* of its handle, and neither a write nor a removal can cancel it.         *)
THEOREM NamedCommandsKeepReadings ==
  Spec /\ []NoneRunsBlind =>
    [](\A e \in present :
         optimistic[e] # NoCall /\ task[optimistic[e]] \notin Active => ReadingComes)
  <1>1. Init => ~lost /\ RunnerStands
    BY CallsAssumption DEF Init, RunnerStands
  <1>2. RunnerStands /\ NoneRunsBlind /\ ~lost /\ [Next]_vars => ~lost'
    <2> SUFFICES ASSUME RunnerStands, NoneRunsBlind, ~lost, [Next]_vars PROVE ~lost'
      OBVIOUS
    <2>1. ASSUME NEW gone, RefreshGoesWith(HeldBy(gone)) PROVE ~lost'
      <3>1. runner \notin HeldBy(gone)
        BY DEF HeldBy, RunnerStands, NoneRunsBlind
      <3> QED BY <2>1, <3>1 DEF RefreshGoesWith
    <2>2. ASSUME NEW c \in Calls,
                 \/ Call(c) \/ ServerAccepts(c) \/ SendFails(c)
                 \/ AskStatus(c) \/ StatusAnswered(c) \/ KeepWaiting(c)
          PROVE  ~lost'
      BY <2>2 DEF Call, ServerAccepts, SendFails, AskStatus, StatusAnswered,
                  KeepWaiting, coordinatorVars, refreshVars
    <2>3. ASSUME NEW c \in Calls, ReplyArrives(c) \/ Conclude(c) PROVE ~lost'
      BY <2>1, <2>3 DEF ReplyArrives, Starting, Conclude, AskRefresh,
                  RequestDropped, RequestWaits, RequestRuns, refreshVars
    <2>4. CASE \/ PodAnswers \/ \E e \in Entities : ExternalChange(e)
               \/ RequestedRefresh \/ ScheduledPoll
               \/ PayloadRead \/ RefreshEnds \/ RefreshFails \/ RefreshUnwinds
               \/ EntryUnloaded \/ UNCHANGED vars
      BY <2>4 DEF PodAnswers, ExternalChange, coordinatorVars, refreshVars,
                  RequestedRefresh, ScheduledPoll, RefreshBegins, PayloadRead,
                  RefreshEnds, RefreshFails, RefreshDone, RefreshUnwinds,
                  EntryUnloaded, vars
    <2>5. CASE (\E e \in Entities : EntityRemoved(e)) \/ PlatformsUnload
      BY <2>1, <2>5 DEF EntityRemoved, PlatformsUnload
    <2> QED BY <2>2, <2>3, <2>4, <2>5 DEF Next
  <1>3. ReadingDue /\ ~lost =>
          \A e \in present :
            optimistic[e] # NoCall /\ task[optimistic[e]] \notin Active => ReadingComes
    BY DEF ReadingDue
  <1> QED BY <1>1, <1>2, <1>3, RunnerStandsInv, Invariance, ReadingAlwaysDue, PTL
          DEF Spec

----------------------------------------------------------------------------
(* How much of a confirmation is left: each delay is a sleep, a question   *)
(* and an answer.                                                          *)
Left(c) ==
  IF task[c] \notin Active THEN 0
  ELSE 3 * (MaxPolls - polls[c]) +
         (IF task[c] = "asking" THEN 2 ELSE IF task[c] = "sleeping" THEN 0 ELSE 1)

Spent == {"blind", "over", "cancelled"}

(* A confirmation comes nearer to its end each time it moves, by a count   *)
(* that the delays bound and that no write, poll or answer of the pod puts *)
(* up; and one that is over is never taken up again.                       *)
RunsDown(c) ==
  /\ task[c] \in Active =>
       /\ Left(c) \in 1..(3 * MaxPolls + 2)
       /\ UNCHANGED <<task[c], polls[c]>> \/ Left(c)' < Left(c)
       /\ Confirm(c) => task'[c] # task[c]
  /\ task[c] = "refreshing" => task'[c] \in {"refreshing", "blind"}
  /\ task[c] \in Spent => task'[c] = task[c]

(* What the steps that are not its own may do to a confirmation.           *)
LEMMA OthersCancelAtMost ==
  ASSUME Inv, Next, NEW c \in Calls, ~Confirm(c), ~ReplyArrives(c)
  PROVE  /\ polls'[c] = polls[c]
         /\ task'[c] \in {task[c], Cancelled(task[c])}
  <1>0. task = [d \in Calls |-> task[d]] /\ polls = [d \in Calls |-> polls[d]]
    BY DEF Inv, TypeOK
  <1>1. ASSUME NEW d \in Calls \ {c}, Confirm(d)
        PROVE  task'[c] = task[c] /\ polls'[c] = polls[c]
    BY <1>0, <1>1 DEF Confirm, AskStatus, StatusAnswered, KeepWaiting, Conclude, ConcludeEnds
  <1>2. ASSUME NEW d \in Calls \ {c}, ReplyArrives(d)
        PROVE  /\ polls'[c] = polls[c]
               /\ task'[c] \in {task[c], Cancelled(task[c])}
    BY <1>0, <1>2 DEF ReplyArrives, Starting, Superseding
  <1>3. ASSUME NEW d \in Calls, Call(d) \/ ServerAccepts(d) \/ SendFails(d)
        PROVE  UNCHANGED <<task, polls>>
    BY <1>3 DEF Call, ServerAccepts, SendFails, taskVars
  <1>4. CASE \/ PodAnswers \/ \E e \in Entities : ExternalChange(e)
             \/ RequestedRefresh \/ ScheduledPoll
             \/ PayloadRead \/ RefreshUnwinds
    BY <1>4 DEF PodAnswers, ExternalChange, RequestedRefresh, ScheduledPoll,
                RefreshBegins, PayloadRead, RefreshUnwinds, taskVars
  <1>5. CASE RefreshEnds \/ RefreshFails
    BY <1>5 DEF RefreshEnds, RefreshFails, RefreshDone, Cancelled, Active, Verdicts
  <1>6. CASE \/ \E e \in Entities : EntityRemoved(e)
             \/ PlatformsUnload \/ EntryUnloaded
    BY <1>6 DEF EntityRemoved, PlatformsUnload, EntryUnloaded, Removing
  <1> QED BY <1>1, <1>2, <1>3, <1>4, <1>5, <1>6 DEF Next, Confirm

(* Which is what their endings rest on (ConfirmationEnds): the delays of   *)
(* _follow_command are counted, and no path leads back.                    *)
THEOREM ConfirmationsRunDown == Spec => [][\A c \in Calls : RunsDown(c)]_vars
  <1>1. Inv /\ Next => \A c \in Calls : RunsDown(c)
    <2> SUFFICES ASSUME Inv, Next, NEW c \in Calls PROVE RunsDown(c)
      OBVIOUS
    <2> USE MaxPollsAssumption DEF Active, Verdicts, Spent
    <2>1. /\ task[c] \in Active \cup Spent \cup {"none", "refreshing"}
          /\ polls[c] \in 0..MaxPolls
          /\ MaxPolls - polls[c] \in 0..MaxPolls
          /\ task[c] = "sleeping" => polls[c] < MaxPolls
          /\ task[c] \in Active \cup Spent \cup {"refreshing"} => call[c] = "returned"
          /\ task[c] \in Active => status[c] \in {"pending", "done", "failed"}
      BY DEF Inv, TypeOK, DelaysLeft, CallHistory, Running
    <2>2. task[c] \in Active => Left(c) \in 1..(3 * MaxPolls + 2)
      BY <2>1 DEF Left
    <2>3. task[c] \in Active \cup Spent \cup {"refreshing"} => ~ReplyArrives(c)
      BY <2>1 DEF ReplyArrives
    <2>4. ASSUME Confirm(c)
          PROVE  /\ task[c] \in Active /\ task'[c] # task[c]
                 /\ Left(c)' < Left(c)
      <3>1. CASE AskStatus(c)
        <4>1. /\ task[c] = "sleeping" /\ task'[c] = "asking"
              /\ polls'[c] = polls[c] + 1
          BY <3>1 DEF AskStatus, Inv, TypeOK
        <4> QED BY <2>1, <4>1 DEF Left
      <3>2. CASE StatusAnswered(c)
        <4>1. /\ task[c] = "asking" /\ task'[c] \in Verdicts
              /\ polls'[c] = polls[c]
          BY <2>1, <3>2 DEF StatusAnswered, Inv, TypeOK
        <4> QED BY <2>1, <4>1 DEF Left
      <3>3. CASE KeepWaiting(c)
        <4>1. /\ task[c] = "pending" /\ task'[c] = "sleeping"
              /\ polls'[c] = polls[c]
          BY <3>3 DEF KeepWaiting, Inv, TypeOK
        <4> QED BY <2>1, <4>1 DEF Left
      <3>4. CASE Conclude(c)
        <4>1. task[c] \in Verdicts /\ task'[c] = "over"
          BY <3>4 DEF Conclude, ConcludeEnds, Inv, TypeOK
        <4> QED BY <2>1, <2>2, <4>1 DEF Left
      <3> QED BY <2>4, <3>1, <3>2, <3>3, <3>4 DEF Confirm
    <2>5. CASE Confirm(c)
      BY <2>2, <2>4, <2>5 DEF RunsDown
    <2>6. CASE ~Confirm(c)
      <3>1. ASSUME task[c] \in Active, task'[c] = "cancelled"
            PROVE  Left(c)' < Left(c)
        BY <2>2, <3>1 DEF Left
      <3>2. CASE ReplyArrives(c)
        BY <2>3, <3>2 DEF RunsDown
      <3>3. CASE ~ReplyArrives(c)
        <4>1. polls'[c] = polls[c] /\ task'[c] \in {task[c], Cancelled(task[c])}
          BY <2>6, <3>3, OthersCancelAtMost
        <4> QED BY <2>2, <2>6, <3>1, <4>1 DEF RunsDown, Cancelled
      <3> QED BY <3>2, <3>3
    <2> QED BY <2>5, <2>6
  <1> QED BY <1>1, Invariance, PTL DEF Spec

----------------------------------------------------------------------------
(* Nobody's write is at the server when the platforms unload, as waiting   *)
(* for the calls under way would have it.                                  *)
UnloadWaits ==
  PlatformsUnload => \A c \in Calls : call[c] \notin {"sending", "accepted"}

(* What the doc of _follow_command says holds as soon as the unload waits  *)
(* for the calls under way: a reply that comes late is the whole of what   *)
(* lets a confirmation outlive its entry.                                  *)
THEOREM NoTaskOutlivesAWaitingUnload ==
  Spec /\ [][UnloadWaits]_vars => []NoTaskOutlivesEntry
  <1> DEFINE Answered == entry # "loaded" =>
                           \A c \in Calls : call[c] \notin {"sending", "accepted"}
  <1>1. Init => Answered /\ NoTaskOutlivesEntry
    BY DEF Init, NoTaskOutlivesEntry
  <1>2. Inv /\ Answered /\ [Next]_vars /\ [UnloadWaits]_vars => Answered'
    <2> SUFFICES ASSUME Inv, Answered, [Next]_vars, [UnloadWaits]_vars
                 PROVE  Answered'
      OBVIOUS
    <2> USE DEF Inv, TypeOK
    <2>1. ASSUME NEW c \in Calls, Call(c) PROVE entry' = "loaded"
      BY <2>1 DEF Call, Ownership, entryVars
    <2>2. ASSUME NEW c \in Calls,
                 \/ ServerAccepts(c) \/ SendFails(c) \/ ReplyArrives(c)
                 \/ AskStatus(c) \/ StatusAnswered(c)
                 \/ KeepWaiting(c) \/ Conclude(c)
          PROVE  Answered'
      BY <2>2 DEF ServerAccepts, SendFails, ReplyArrives, AskStatus,
                  StatusAnswered, KeepWaiting, Conclude, ConcludeEnds, entryVars
    <2>3. CASE \/ PodAnswers \/ \E e \in Entities : ExternalChange(e) \/ EntityRemoved(e)
               \/ RequestedRefresh \/ ScheduledPoll
               \/ PayloadRead \/ RefreshEnds \/ RefreshFails \/ RefreshUnwinds
               \/ EntryUnloaded
      BY <2>3 DEF PodAnswers, ExternalChange, EntityRemoved, RequestedRefresh,
                  ScheduledPoll, RefreshBegins, PayloadRead, RefreshEnds,
                  RefreshFails, RefreshDone, RefreshUnwinds, EntryUnloaded,
                  entryVars
    <2>4. CASE PlatformsUnload
      BY <2>4 DEF PlatformsUnload, UnloadWaits, vars
    <2>5. CASE UNCHANGED vars
      BY <2>5 DEF vars
    <2> QED BY <2>1, <2>2, <2>3, <2>4, <2>5 DEF Next
  <1>3. /\ Inv /\ Answered /\ NoTaskOutlivesEntry /\ [Next]_vars
        => NoTaskOutlivesEntry'
    <2> SUFFICES ASSUME Inv, Answered, NoTaskOutlivesEntry, Next, entry' = "unloaded",
                        NEW c \in Calls
                 PROVE  task'[c] \notin Running
      BY DEF NoTaskOutlivesEntry, vars
    <2>1. CASE EntryUnloaded
      BY <2>1 DEF EntryUnloaded, Cancelled, Running, Active, Verdicts
    <2>2. CASE ~EntryUnloaded
      <3>1. entry = "unloaded"
        BY <2>2 DEF Next, Call, ServerAccepts, SendFails, ReplyArrives, AskStatus,
             StatusAnswered, KeepWaiting, Conclude, ConcludeEnds, PodAnswers,
             ExternalChange, EntityRemoved, RequestedRefresh, ScheduledPoll,
             RefreshBegins, PayloadRead, RefreshEnds, RefreshFails, RefreshDone,
             RefreshUnwinds, PlatformsUnload, entryVars
      <3>2. task[c] \notin Running /\ ~ReplyArrives(c)
        BY <3>1 DEF NoTaskOutlivesEntry, ReplyArrives
      <3>3. ~Confirm(c)
        BY <3>2 DEF Confirm, AskStatus, StatusAnswered, KeepWaiting, Conclude,
                    ConcludeEnds, Running, Active, Verdicts
      <3>4. task'[c] \in {task[c], Cancelled(task[c])}
        BY <3>2, <3>3, OthersCancelAtMost
      <3> QED BY <3>2, <3>4 DEF Cancelled, Running
    <2> QED BY <2>1, <2>2
  <1> HIDE DEF Answered
  <1> QED BY <1>1, <1>2, <1>3, Invariance, PTL DEF Spec

----------------------------------------------------------------------------
(* Commands implements TrackedWrites.                                      *)

(* A step that leaves calls, confirmations, fates, shown values and events *)
(* alone is none.                                                          *)
LEMMA Unseen ==
  ASSUME UNCHANGED <<call, task, status, optimistic, events>>
  PROVE  UNCHANGED Tracked!vars
  BY DEF Tracked!vars, WriteOf

(* The states of a write, one by one, before and after a step.             *)
LEMMA WriteTable ==
  ASSUME NEW c \in Calls
  PROVE  /\ call[c] = "idle" => WriteOf(c) = "new"
         /\ call[c] \in {"sending", "accepted"} => WriteOf(c) = "sent"
         /\ call[c] = "raised" => WriteOf(c) = "failed"
         /\ call[c] = "returned" =>
              /\ task[c] \in Active => WriteOf(c) = "followed"
              /\ task[c] = "cancelled" => WriteOf(c) = "dropped"
              /\ task[c] = "over" => WriteOf(c) = "concluded"
              /\ task[c] \in {"refreshing", "blind"} => WriteOf(c) = "blind"
  BY DEF WriteOf, Active, Verdicts

(* The same after the step.                                                *)
LEMMA WriteTableNext ==
  ASSUME NEW c \in Calls
  PROVE  /\ call'[c] = "idle" => WriteOf(c)' = "new"
         /\ call'[c] \in {"sending", "accepted"} => WriteOf(c)' = "sent"
         /\ call'[c] = "raised" => WriteOf(c)' = "failed"
         /\ call'[c] = "returned" =>
              /\ task'[c] \in Active => WriteOf(c)' = "followed"
              /\ task'[c] = "cancelled" => WriteOf(c)' = "dropped"
              /\ task'[c] = "over" => WriteOf(c)' = "concluded"
              /\ task'[c] \in {"refreshing", "blind"} => WriteOf(c)' = "blind"
  BY DEF WriteOf, Active, Verdicts

(* A write whose call and confirmation stay where they are stays itself.   *)
LEMMA WriteStays ==
  ASSUME NEW c \in Calls, call'[c] = call[c], task'[c] = task[c]
  PROVE  WriteOf(c)' = WriteOf(c)
  BY DEF WriteOf

(* A call, up to its request, sends the write.                             *)
LEMMA CallSends ==
  ASSUME Inv, NEW c \in Calls, Call(c)
  PROVE  Tracked!Send(c)
  <1>1. /\ call[c] = "idle" /\ call'[c] = "sending"
        /\ \A d \in Calls \ {c} : call'[d] = call[d]
        /\ UNCHANGED <<status, optimistic, task, events>>
    BY DEF Call, Inv, TypeOK, serverVars, entityVars, taskVars
  <1>2. WriteOf(c) = "new" /\ WriteOf(c)' = "sent"
    BY <1>1, WriteTable, WriteTableNext
  <1>3. \A d \in Calls \ {c} : WriteOf(d)' = WriteOf(d)
    BY <1>1, WriteStays
  <1> QED BY <1>1, <1>2, <1>3 DEF Tracked!Send

(* A write that raised fails for the caller.                               *)
LEMMA SendFailsFails ==
  ASSUME Inv, NEW c \in Calls, SendFails(c)
  PROVE  Tracked!Fail(c)
  <1>1. /\ call[c] \in {"sending", "accepted"} /\ call'[c] = "raised"
        /\ \A d \in Calls \ {c} : call'[d] = call[d]
        /\ UNCHANGED <<status, optimistic, task, events>>
    BY DEF SendFails, Inv, TypeOK, serverVars, entityVars, taskVars
  <1>2. WriteOf(c) = "sent" /\ WriteOf(c)' = "failed"
    BY <1>1, WriteTable, WriteTableNext
  <1>3. \A d \in Calls \ {c} : WriteOf(d)' = WriteOf(d)
    BY <1>1, WriteStays
  <1> QED BY <1>1, <1>2, <1>3 DEF Tracked!Fail

(* The server that accepts a write sets its fate in motion.                *)
LEMMA ServerAcceptsMeets ==
  ASSUME Inv, NEW c \in Calls, ServerAccepts(c)
  PROVE  Tracked!Meets(c)
  <1>1. /\ call[c] = "sending" /\ call'[c] = "accepted"
        /\ \A d \in Calls \ {c} : call'[d] = call[d]
        /\ status' = [status EXCEPT ![c] = "pending"]
        /\ UNCHANGED <<optimistic, task, events>>
    BY DEF ServerAccepts, Inv, TypeOK, entityVars, taskVars
  <1>2. status[c] = "unknown"
    BY <1>1 DEF Inv, CallHistory
  <1>3. WriteOf(c) = "sent" /\ WriteOf(c)' = "sent"
    BY <1>1, WriteTable, WriteTableNext
  <1>4. \A d \in Calls \ {c} : WriteOf(d)' = WriteOf(d)
    BY <1>1, WriteStays
  <1> QED BY <1>1, <1>2, <1>3, <1>4 DEF Tracked!Meets

(* The pod decides the fate of the command at the head of the queue.       *)
LEMMA PodAnswersMeets ==
  ASSUME Inv, PodAnswers
  PROVE  \E c \in Calls : Tracked!Meets(c)
  <1> DEFINE h == Head(queue)
  <1>1. h \in Calls /\ h = queue[1] /\ 1 \in 1..Len(queue)
    BY DEF PodAnswers, Inv, TypeOK
  <1>2. status[h] = "pending"
    BY <1>1 DEF Inv, QueueIsPending
  <1>3. \E f \in {"done", "failed"} : status' = [status EXCEPT ![h] = f]
    BY DEF PodAnswers
  <1>4. UNCHANGED <<call, task, optimistic, events>>
    BY DEF PodAnswers, entityVars, taskVars
  <1>5. \A d \in Calls : WriteOf(d)' = WriteOf(d)
    BY <1>4, WriteStays
  <1> QED BY <1>1, <1>2, <1>3, <1>4, <1>5 DEF Tracked!Meets

(* The reply that starts a confirmation drops the only one its entity has, *)
(* since OneConfirmation says which one that is.                           *)
LEMMA ReplyReturns ==
  ASSUME Inv, NEW c \in Calls, ReplyArrives(c)
  PROVE  Tracked!Return(c)
  <1> DEFINE held == HeldBy({EntityOf[c]})
  <1>1. PICK state \in {"sleeping", "refreshing", "blind"} : Superseding(c, state)
    BY DEF ReplyArrives, Starting
  <1>2. /\ call[c] = "accepted" /\ call'[c] = "returned"
        /\ \A d \in Calls \ {c} : call'[d] = call[d]
        /\ optimistic' = [optimistic EXCEPT ![EntityOf[c]] = c]
        /\ UNCHANGED <<status, events>>
    BY DEF ReplyArrives, Inv, TypeOK, serverVars
  <1>3. status[c] # "unknown"
    BY <1>2 DEF Inv, CallHistory
  <1>4. /\ task'[c] = state
        /\ \A d \in Calls \ {c} :
             task'[d] = IF d \in held THEN Cancelled(task[d]) ELSE task[d]
    BY <1>1 DEF Superseding
  <1>5. WriteOf(c) = "sent" /\ WriteOf(c)' \in {"followed", "blind"}
    BY <1>2, <1>4, WriteTable, WriteTableNext DEF Active
  <1>6. ASSUME NEW d \in Calls \ {c}
        PROVE  WriteOf(d)' = IF EntityOf[d] = EntityOf[c] /\ WriteOf(d) = "followed"
                             THEN "dropped" ELSE WriteOf(d)
    <2>1. CASE task[d] \in Active
      <3>1. d \in held <=> EntityOf[d] = EntityOf[c]
        BY <2>1 DEF Inv, OneConfirmation, Running, HeldBy
      <3>2. call[d] = "returned" /\ call'[d] = "returned"
        BY <1>2, <2>1 DEF Inv, CallHistory, Active, Verdicts
      <3>3. WriteOf(d) = "followed"
        BY <2>1, <3>2, WriteTable
      <3>4. CASE EntityOf[d] = EntityOf[c]
        BY <1>4, <2>1, <3>1, <3>2, <3>3, <3>4, WriteTableNext DEF Cancelled
      <3>5. CASE EntityOf[d] # EntityOf[c]
        BY <1>2, <1>4, <3>1, <3>5, WriteStays
      <3> QED BY <3>4, <3>5
    <2>2. CASE task[d] = "refreshing"
      <3>1. call[d] = "returned" /\ call'[d] = "returned"
        BY <1>2, <2>2 DEF Inv, CallHistory
      <3>2. task'[d] \in {"refreshing", "blind"}
        BY <1>4, <2>2 DEF Cancelled, Active, Verdicts
      <3> QED BY <2>2, <3>1, <3>2, WriteTable, WriteTableNext
    <2>3. CASE task[d] \notin Running
      <3>1. WriteOf(d)' = WriteOf(d)
        BY <1>2, <1>4, <2>3, WriteStays DEF Cancelled, Running
      <3>2. WriteOf(d) # "followed"
        BY <2>3 DEF WriteOf, Running
      <3> QED BY <3>1, <3>2
    <2> QED BY <2>1, <2>2, <2>3 DEF Running
  <1> QED BY <1>2, <1>3, <1>5, <1>6 DEF Tracked!Return

(* A confirmation that goes on asking has not concluded.                   *)
LEMMA FollowingGoesOn ==
  ASSUME Inv, NEW c \in Calls, AskStatus(c) \/ StatusAnswered(c) \/ KeepWaiting(c)
  PROVE  UNCHANGED Tracked!vars
  <1>1. /\ task[c] \in Active /\ task'[c] \in Active
        /\ \A d \in Calls \ {c} : task'[d] = task[d]
        /\ UNCHANGED <<call, status, optimistic, events>>
    <2> USE DEF Inv, TypeOK, Active, Verdicts, serverVars, entityVars
    <2>1. CASE AskStatus(c)
      BY <2>1 DEF AskStatus
    <2>2. CASE StatusAnswered(c)
      <3>1. status[c] # "unknown"
        BY <2>2 DEF StatusAnswered, CallHistory
      <3> QED BY <2>2, <3>1 DEF StatusAnswered
    <2>3. CASE KeepWaiting(c)
      BY <2>3 DEF KeepWaiting
    <2> QED BY <2>1, <2>2, <2>3
  <1>2. call[c] = "returned"
    BY <1>1 DEF Inv, CallHistory, Active, Verdicts
  <1>3. \A d \in Calls : WriteOf(d)' = WriteOf(d)
    BY <1>1, <1>2, WriteTable, WriteTableNext, WriteStays
  <1> QED BY <1>1, <1>3 DEF Tracked!vars

(* The end of a confirmation clears no value but its own, as VerdictIsOwn  *)
(* promises, and reports a refusal only, once.                             *)
LEMMA ConcludeConcludes ==
  ASSUME Inv, NEW c \in Calls, Conclude(c)
  PROVE  Tracked!Conclude(c)
  <1>1. /\ task[c] \in {"done", "failed", "unusable", "pending"}
        /\ task'[c] = "over"
        /\ \A d \in Calls \ {c} : task'[d] = task[d]
        /\ UNCHANGED <<call, status>>
    BY DEF Conclude, ConcludeEnds, Inv, TypeOK, serverVars
  <1>2. task[c] \in Active /\ call[c] = "returned"
    BY <1>1 DEF Inv, CallHistory, Active, Verdicts
  <1>3. WriteOf(c) = "followed" /\ WriteOf(c)' = "concluded"
    BY <1>1, <1>2, WriteTable, WriteTableNext
  <1>4. \A d \in Calls \ {c} : WriteOf(d)' = WriteOf(d)
    BY <1>1, WriteStays
  <1>5. EntityOf[c] \in Entities /\ optimistic[EntityOf[c]] \in {c, NoCall}
    BY <1>2, CallsAssumption DEF Inv, VerdictIsOwn
  <1>6. CASE task[c] = "done"
    <2>1. status[c] = "done" /\ UNCHANGED <<optimistic, events>>
      BY <1>6 DEF Conclude, ClearUnless, FireOn, Inv, VerdictsStand
    <2> QED BY <1>1, <1>3, <1>4, <2>1 DEF Tracked!Conclude, Tracked!Landed
  <1>7. CASE task[c] # "done"
    <2>1. optimistic' = [optimistic EXCEPT ![EntityOf[c]] =
                           IF @ = c THEN NoCall ELSE @]
      BY <1>5, <1>7 DEF Conclude, ClearUnless, Inv, TypeOK
    <2>2. CASE task[c] = "failed"
      <3>1. status[c] = "failed" /\ events[c] = 0
        BY <1>1, <2>2 DEF Inv, VerdictsStand
      <3>2. events' = [events EXCEPT ![c] = 1]
        BY <2>2, <3>1 DEF Conclude, FireOn, Inv, TypeOK
      <3>3. {d \in Calls : events'[d] > 0} = {d \in Calls : events[d] > 0} \cup {c}
        BY <3>1, <3>2 DEF Inv, TypeOK
      <3> QED BY <1>1, <1>3, <1>4, <2>1, <3>1, <3>3
              DEF Tracked!Conclude, Tracked!Refused, Tracked!Withdraw
    <2>3. CASE task[c] # "failed"
      <3>1. UNCHANGED events
        BY <2>3 DEF Conclude, FireOn
      <3> QED BY <1>1, <1>3, <1>4, <2>1, <3>1
              DEF Tracked!Conclude, Tracked!GivenUp, Tracked!Withdraw
    <2> QED BY <2>2, <2>3
  <1> QED BY <1>6, <1>7

(* A refresh that succeeds, or the first that fails, is a reading.         *)
LEMMA RefreshReads ==
  ASSUME Inv, RefreshEnds \/ RefreshFails
  PROVE  [\E heard \in SUBSET Entities : Tracked!Reading(heard)]_Tracked!vars
  <1>1. UNCHANGED <<call, status, events>>
    BY DEF RefreshEnds, RefreshFails, RefreshDone, serverVars
  <1>2. ASSUME NEW c \in Calls PROVE WriteOf(c)' = WriteOf(c)
    <2>1. \/ task'[c] = task[c]
          \/ task[c] = "refreshing" /\ task'[c] = "blind"
      BY DEF RefreshEnds, RefreshFails, RefreshDone
    <2>2. CASE task'[c] = task[c]
      BY <1>1, <2>2, WriteStays
    <2>3. CASE task[c] = "refreshing" /\ task'[c] = "blind"
      <3>1. call[c] = "returned" /\ call'[c] = "returned"
        BY <1>1, <2>3 DEF Inv, CallHistory
      <3> QED BY <2>3, <3>1, WriteTable, WriteTableNext
    <2> QED BY <2>1, <2>2, <2>3
  <1>3. CASE UNCHANGED optimistic
    BY <1>1, <1>2, <1>3 DEF Tracked!vars
  <1>4. CASE ListenersRun
    <2>1. present \in SUBSET Entities
      BY DEF Inv, TypeOK
    <2>2. Tracked!Reading(present)
      BY <1>1, <1>2, <1>4 DEF Tracked!Reading, ListenersRun
    <2> QED BY <2>1, <2>2
  <1> QED BY <1>3, <1>4 DEF RefreshEnds, RefreshFails

(* Cancelling confirmations drops the writes they follow.                  *)
LEMMA CancellingDrops ==
  ASSUME Inv, NEW held \in SUBSET Calls,
         task' = [c \in Calls |-> IF c \in held THEN Cancelled(task[c]) ELSE task[c]],
         UNCHANGED <<call, status, optimistic, events>>
  PROVE  \E gone \in SUBSET Calls : Tracked!Drop(gone)
  <1> DEFINE gone == {c \in held : task[c] \in Active}
  <1>1. ASSUME NEW c \in gone
        PROVE  WriteOf(c) = "followed" /\ WriteOf(c)' = "dropped"
    <2>1. c \in Calls /\ task[c] \in Active /\ task'[c] = "cancelled"
      BY DEF Cancelled
    <2>2. call[c] = "returned" /\ call'[c] = "returned"
      BY <2>1 DEF Inv, CallHistory, Active, Verdicts
    <2> QED BY <2>1, <2>2, WriteTable, WriteTableNext
  <1>2. ASSUME NEW c \in Calls \ gone PROVE WriteOf(c)' = WriteOf(c)
    <2>1. CASE task'[c] = task[c]
      BY <2>1, WriteStays
    <2>2. CASE task'[c] # task[c]
      <3>1. task[c] = "refreshing" /\ task'[c] = "blind"
        BY <2>2 DEF Cancelled
      <3>2. call[c] = "returned" /\ call'[c] = "returned"
        BY <3>1 DEF Inv, CallHistory
      <3> QED BY <3>1, <3>2, WriteTable, WriteTableNext
    <2> QED BY <2>1, <2>2
  <1>3. gone \in SUBSET Calls
    OBVIOUS
  <1> HIDE DEF gone
  <1>4. Tracked!Drop(gone)
    BY <1>1, <1>2, <1>3 DEF Tracked!Drop
  <1> QED BY <1>3, <1>4

(* Every way an entity or the entry ends cancels what it follows.          *)
LEMMA EndingDrops ==
  ASSUME Inv,
         \/ \E e \in Entities : EntityRemoved(e)
         \/ PlatformsUnload
         \/ EntryUnloaded
  PROVE  \E gone \in SUBSET Calls : Tracked!Drop(gone)
  <1>1. UNCHANGED <<call, status, optimistic, events>>
    BY DEF EntityRemoved, PlatformsUnload, EntryUnloaded, serverVars, entityVars
  <1>2. PICK held \in SUBSET Calls :
           task' = [c \in Calls |-> IF c \in held THEN Cancelled(task[c]) ELSE task[c]]
    <2>1. ASSUME NEW es, Removing(es)
          PROVE  /\ HeldBy(es) \in SUBSET Calls
                 /\ task' = [c \in Calls |-> IF c \in HeldBy(es) THEN Cancelled(task[c])
                                              ELSE task[c]]
      BY <2>1 DEF Removing, HeldBy
    <2>2. CASE \/ \E e \in Entities : EntityRemoved(e)
               \/ PlatformsUnload
      <3>1. PICK es \in SUBSET Entities : Removing(es)
        BY <2>2 DEF EntityRemoved, PlatformsUnload, Inv, TypeOK
      <3> QED BY <2>1, <3>1
    <2>3. CASE EntryUnloaded
      <3>1. /\ Calls \in SUBSET Calls
            /\ task' = [c \in Calls |-> IF c \in Calls THEN Cancelled(task[c])
                                         ELSE task[c]]
        BY <2>3 DEF EntryUnloaded
      <3> QED BY <3>1
    <2> QED BY <2>2, <2>3
  <1> QED BY <1>1, <1>2, CancellingDrops

(* Every step of Commands is a step of TrackedWrites, or none.             *)
THEOREM StepKeepsPromise == Inv /\ [Next]_vars => [Tracked!Next]_Tracked!vars
  <1> SUFFICES ASSUME Inv, [Next]_vars PROVE [Tracked!Next]_Tracked!vars
    OBVIOUS
  <1>1. ASSUME NEW c \in Calls,
               Call(c) \/ ServerAccepts(c) \/ SendFails(c) \/ ReplyArrives(c)
        PROVE  Tracked!Next
    BY <1>1, CallSends, ServerAcceptsMeets, SendFailsFails, ReplyReturns
       DEF Tracked!Next
  <1>2. ASSUME NEW c \in Calls,
               \/ AskStatus(c) \/ StatusAnswered(c)
               \/ KeepWaiting(c) \/ Conclude(c)
        PROVE  [Tracked!Next]_Tracked!vars
    BY <1>2, FollowingGoesOn, ConcludeConcludes DEF Tracked!Next
  <1>3. CASE PodAnswers
    BY <1>3, PodAnswersMeets DEF Tracked!Next
  <1>4. ASSUME NEW e \in Entities, ExternalChange(e)
        PROVE  [Tracked!Next]_Tracked!vars
    BY <1>4, Unseen DEF ExternalChange, entityVars, taskVars
  <1>5. CASE RequestedRefresh \/ ScheduledPoll \/ PayloadRead \/ RefreshUnwinds
    BY <1>5, Unseen DEF RequestedRefresh, ScheduledPoll, RefreshBegins,
                        PayloadRead, RefreshUnwinds, serverVars, entityVars,
                        taskVars
  <1>6. CASE RefreshEnds \/ RefreshFails
    BY <1>6, RefreshReads DEF Tracked!Next
  <1>7. CASE \/ \E e \in Entities : EntityRemoved(e)
             \/ PlatformsUnload
             \/ EntryUnloaded
    BY <1>7, EndingDrops DEF Tracked!Next
  <1>8. CASE UNCHANGED vars
    BY <1>8, Unseen DEF vars
  <1> QED BY <1>1, <1>2, <1>3, <1>4, <1>5, <1>6, <1>7, <1>8 DEF Next

(* Commands implements the promise made of a write: a value leaves an      *)
(* entity by its own verdict or by a reading, a write is followed until it *)
(* concludes or is dropped, and only a refusal is reported.                *)
THEOREM PromiseKept == Spec => KeepsPromise
  <1>1. Init => Tracked!Init
    <2> SUFFICES ASSUME Init PROVE Tracked!Init
      OBVIOUS
    <2>1. \A c \in Calls : WriteOf(c) = "new" /\ ~(events[c] > 0)
      BY WriteTable DEF Init
    <2> QED BY <2>1 DEF Init, Tracked!Init
  <1> QED BY <1>1, StepKeepsPromise, Invariance, PTL
          DEF Spec, KeepsPromise, Tracked!Spec

----------------------------------------------------------------------------
(* What the promise is worth, brought back to the code.                    *)
Promise == INSTANCE TrackedWritesProofs WITH
  write <- [c \in Calls |-> WriteOf(c)],
  fate  <- status,
  shows <- optimistic,
  told  <- {c \in Calls : events[c] > 0}

(* Through the refinement alone: of every entity, the removed and the      *)
(* unloaded included, a value that outlives its confirmation's end is one  *)
(* that the pod applied (_confirm_command, _clear_optimistic).             *)
THEOREM OverIsLanded ==
  Spec => [](\A e \in Entities :
               optimistic[e] # NoCall /\ task[optimistic[e]] = "over" =>
                 status[optimistic[e]] = "done")
  <1>1. Promise!Spec => []Promise!Tells
    BY Promise!PromiseTells, CallsAssumption
  <1>2. Tracked!Init => Promise!Init
    BY DEF Tracked!Init, Promise!Init
  <1>3. [Tracked!Next]_Tracked!vars => [Promise!Next]_Promise!vars
    BY Zenon DEF Tracked!Send, Tracked!Fail, Tracked!Meets, Tracked!Return,
               Tracked!Conclude, Tracked!Landed, Tracked!Refused,
               Tracked!GivenUp, Tracked!Withdraw, Tracked!Reading,
               Tracked!Drop, Tracked!vars, Tracked!Next,
               Promise!Send, Promise!Fail, Promise!Meets, Promise!Return,
               Promise!Conclude, Promise!Landed, Promise!Refused,
               Promise!GivenUp, Promise!Withdraw, Promise!Reading,
               Promise!Drop, Promise!vars, Promise!Next
  <1>4. Promise!Tells =>
          \A e \in Entities :
            optimistic[e] # NoCall /\ task[optimistic[e]] = "over" =>
              status[optimistic[e]] = "done"
    <2> SUFFICES ASSUME Promise!Tells, NEW e \in Entities,
                        optimistic[e] # NoCall, task[optimistic[e]] = "over"
                 PROVE  status[optimistic[e]] = "done"
      OBVIOUS
    <2> DEFINE c == optimistic[e]
    <2>1. /\ c \in Calls
          /\ WriteOf(c) \in {"followed", "blind", "concluded", "dropped"}
          /\ WriteOf(c) = "concluded" => status[c] = "done"
      BY DEF Promise!Tells, Promise!ShownIsAccepted
    <2>2. WriteOf(c) = "concluded"
      BY <2>1 DEF WriteOf, Active, Verdicts
    <2> QED BY <2>1, <2>2
  <1> QED BY <1>1, <1>2, <1>3, <1>4, PromiseKept, PTL
          DEF KeepsPromise, Tracked!Spec, Promise!Spec
=============================================================================
