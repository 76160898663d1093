------------------------------ MODULE Commands ------------------------------
(***************************************************************************)
(* How a write is sent, shown and followed (KlereoCommandMixin and the     *)
(* entities built on it), against the coordinator's polls, the server's    *)
(* command queue and the pod.                                              *)
(*                                                                         *)
(* A control entity shows one item of the payload.  A service call on it   *)
(* writes a value; only who wrote a value matters here, so the call stands *)
(* for the value it writes and for the command the server queues for it.   *)
(* What a call may write at all is decided before this begins (OutRules).  *)
(*                                                                         *)
(* Everything Home Assistant runs is a coroutine on one event loop: a step *)
(* below is what runs between two awaits.  The requests themselves run in  *)
(* executor threads, in any order.                                         *)
(***************************************************************************)
EXTENDS Naturals, Sequences

CONSTANTS
  Entities,     \* the control entities of one pool
  Calls,        \* the service calls ever made; each stands for its value
  EntityOf,     \* the entity a call is made on
  External,     \* a value nobody asked Home Assistant for
  NoCall,
  MaxPolls      \* Len(COMMAND_POLL_DELAYS)

ASSUME CallsAssumption ==
  /\ EntityOf \in [Calls -> Entities]
  /\ NoCall \notin Calls
  /\ External \notin Calls \cup {NoCall}
ASSUME MaxPollsAssumption == MaxPolls \in Nat \ {0}

VARIABLES
  call,         \* where each service call is
  status,       \* CommandStatus of the call's command, on the server
  queue,        \* commands waiting for the pod, oldest first
  pod,          \* the value the pod has, per entity
  data,         \* coordinator.data: the value last polled, per entity
  lastOk,       \* coordinator.last_update_success
  requested,    \* a refresh was asked for and has not begun
  refresh,      \* the refresh in progress: idle, reading, read, or
                \* cancelled and not yet off the event loop
  runner,       \* the call whose confirmation task it runs in, or NoCall
  lost,         \* a refresh was cancelled and none has begun since
  snapshot,     \* the payload it has read
  optimistic,   \* the value an entity shows ahead of the payload, or NoCall
  handle,       \* _confirm_task: the call it follows, or NoCall
  task,         \* the confirmation of each call
  polls,        \* how many times it has asked CommandStatus
  events,       \* klereo_command_failed events fired for each call
  present,      \* the entities added to Home Assistant
  entry         \* the config entry: loaded, unloading, unloaded

serverVars == <<status, queue, pod>>
refreshVars == <<requested, refresh, runner, lost>>
coordinatorVars == <<data, lastOk, snapshot, refreshVars>>
entityVars == <<optimistic, handle>>
taskVars == <<task, polls, events>>
entryVars == <<present, entry>>
vars == <<call, status, queue, pod, data, lastOk, requested, refresh, runner,
          lost, snapshot, optimistic, handle, task, polls, events, present,
          entry>>

Values == Calls \cup {External}

(* What CommandStatus can answer: the row's status, below, at or above     *)
(* COMMAND_DONE; or nothing usable (an error, no row, a status that is no  *)
(* number).                                                                *)
Verdicts == {"pending", "done", "failed", "unusable"}

(* A confirmation sleeps, waits for an answer or has one and waits for the *)
(* event loop, which is named after the answer.                            *)
Active == {"sleeping", "asking"} \cup Verdicts

(* A confirmation that still runs on its entity's behalf: it follows its   *)
(* command, or had no cmdID to follow and is in the refresh it asked for.  *)
Running == Active \cup {"refreshing"}

Shown(e) == IF optimistic[e] = NoCall THEN data[e] ELSE optimistic[e]

----------------------------------------------------------------------------
Init ==
  /\ call = [c \in Calls |-> "idle"]
  /\ status = [c \in Calls |-> "unknown"]
  /\ queue = <<>>
  /\ pod = [e \in Entities |-> External]
  /\ data = [e \in Entities |-> External]
  /\ lastOk = TRUE
  /\ requested = FALSE
  /\ refresh = "idle"
  /\ runner = NoCall
  /\ lost = FALSE
  /\ snapshot = [e \in Entities |-> External]
  /\ optimistic = [e \in Entities |-> NoCall]
  /\ handle = [e \in Entities |-> NoCall]
  /\ task = [c \in Calls |-> "none"]
  /\ polls = [c \in Calls |-> 0]
  /\ events = [c \in Calls |-> 0]
  /\ present = Entities
  /\ entry = "loaded"

(* coordinator.async_request_refresh, awaited in the confirmation of c.     *)
(* Home Assistant's debouncer drops the request while a refresh holds its  *)
(* lock, and puts it off to its timer during the cooldown of the last one; *)
(* otherwise it runs the refresh there and then, inside the task that      *)
(* asked.  An unloaded entry's coordinator takes no request.               *)
RequestDropped ==
  /\ entry = "unloaded" \/ refresh # "idle"
  /\ UNCHANGED refreshVars

RequestWaits ==
  /\ entry # "unloaded" /\ refresh = "idle"
  /\ requested' = TRUE
  /\ UNCHANGED <<refresh, runner, lost>>

RequestRuns(c) ==
  /\ entry # "unloaded" /\ refresh = "idle" /\ ~requested
  /\ refresh' = "reading"
  /\ runner' = c
  /\ lost' = FALSE
  /\ UNCHANGED requested

AskRefresh(c) == RequestDropped \/ RequestWaits \/ RequestRuns(c)

----------------------------------------------------------------------------
(* The calls whose confirmation the entities' _confirm_task holds.         *)
HeldBy(es) == {c \in Calls : EntityOf[c] \in es /\ handle[EntityOf[c]] = c}

(* task.cancel(), on a task that may be over: a confirmation stops where   *)
(* it is, and one without a cmdID has nothing left to do.                  *)
Cancelled(state) ==
  IF state \in Active THEN "cancelled"
  ELSE IF state = "refreshing" THEN "blind" ELSE state

(* ... and the refresh that runs in a cancelled task is cancelled with it. *)
(* It keeps the debouncer's lock until the event loop has unwound it.      *)
RefreshGoesWith(held) ==
  /\ IF runner \in held
     THEN refresh' = "cancelled" /\ runner' = NoCall /\ lost' = TRUE
     ELSE UNCHANGED <<refresh, runner, lost>>
  /\ UNCHANGED requested

----------------------------------------------------------------------------
(* Mutant: the value is shown before the write has been accepted.          *)
CallShowsAtOnce(c) ==
  /\ call[c] = "idle"
  /\ EntityOf[c] \in present
  /\ call' = [call EXCEPT ![c] = "sending"]
  /\ optimistic' = [optimistic EXCEPT ![EntityOf[c]] = c]
  /\ UNCHANGED <<serverVars, coordinatorVars, handle, taskVars, entryVars>>

(* The service call, up to `await self._send(...)`.                        *)
Call(c) ==
  /\ call[c] = "idle"
  /\ EntityOf[c] \in present
  /\ call' = [call EXCEPT ![c] = "sending"]
  /\ UNCHANGED <<serverVars, coordinatorVars, entityVars, taskVars, entryVars>>

(* SetOut or SetParam queues a command for the pod and answers its cmdID.  *)
ServerAccepts(c) ==
  /\ call[c] = "sending"
  /\ call' = [call EXCEPT ![c] = "accepted"]
  /\ status' = [status EXCEPT ![c] = "pending"]
  /\ queue' = Append(queue, c)
  /\ UNCHANGED <<pod, coordinatorVars, entityVars, taskVars, entryVars>>

(* The server refused the write, or the request or its reply was lost: the *)
(* user gets a HomeAssistantError, and the entity is left as it was even   *)
(* when the command is in the queue.                                       *)
SendFails(c) ==
  /\ call[c] \in {"sending", "accepted"}
  /\ call' = [call EXCEPT ![c] = "raised"]
  /\ UNCHANGED <<serverVars, coordinatorVars, entityVars, taskVars, entryVars>>

(* Mutant: a second write leaves the confirmation of the first running.    *)
StartingBeside(c, state) == task' = [task EXCEPT ![c] = state]

(* _cancel_confirmation on the entity, and the task that starts instead.   *)
Superseding(c, state) ==
  task' = [d \in Calls |->
             IF d = c THEN state
             ELSE IF d \in HeldBy({EntityOf[c]}) THEN Cancelled(task[d])
             ELSE task[d]]

(* The new confirmation, to its first await.  With a cmdID it sleeps.      *)
(* Without one it asks for a refresh blind, while a refresh just cancelled *)
(* still holds the lock: it is in that refresh now, or it is over.         *)
Starting(c) ==
  \/ Superseding(c, "sleeping") /\ RefreshGoesWith(HeldBy({EntityOf[c]}))
  \/ Superseding(c, "refreshing") /\ RequestRuns(c)
  \/ Superseding(c, "blind") /\ RequestWaits
  \/ /\ Superseding(c, "blind")
     /\ entry = "unloaded" \/ refresh # "idle"
     /\ RefreshGoesWith(HeldBy({EntityOf[c]}))

(* The reply reaches the event loop: the value asked for is shown, the     *)
(* confirmation in flight is dropped and this one starts.                  *)
ReplyArrives(c) ==
  /\ call[c] = "accepted"
  /\ call' = [call EXCEPT ![c] = "returned"]
  /\ optimistic' = [optimistic EXCEPT ![EntityOf[c]] = c]
  /\ handle' = [handle EXCEPT ![EntityOf[c]] = c]
  /\ Starting(c)
  /\ UNCHANGED <<serverVars, data, lastOk, snapshot, polls, events, entryVars>>

----------------------------------------------------------------------------
(* The pod fetches the oldest command and applies or refuses it, and the   *)
(* server's row says which (external).                                     *)
PodAnswers ==
  /\ queue # <<>>
  /\ LET c == Head(queue) IN
       \/ /\ status' = [status EXCEPT ![c] = "done"]
          /\ pod' = [pod EXCEPT ![EntityOf[c]] = c]
       \/ /\ status' = [status EXCEPT ![c] = "failed"]
          /\ UNCHANGED pod
  /\ queue' = Tail(queue)
  /\ UNCHANGED <<call, coordinatorVars, entityVars, taskVars, entryVars>>

(* A schedule, the mobile app or a regulation changes the item (external). *)
ExternalChange(e) ==
  /\ pod[e] # External
  /\ pod' = [pod EXCEPT ![e] = External]
  /\ UNCHANGED <<call, status, queue, coordinatorVars, entityVars, taskVars,
                 entryVars>>

----------------------------------------------------------------------------
(* The delay is over: command_status goes to the executor.                 *)
AskStatus(c) ==
  /\ task[c] = "sleeping"
  /\ task' = [task EXCEPT ![c] = "asking"]
  /\ polls' = [polls EXCEPT ![c] = @ + 1]
  /\ UNCHANGED <<call, serverVars, coordinatorVars, entityVars, events,
                 entryVars>>

(* The server's row as it is now, or nothing usable.                       *)
StatusAnswered(c) ==
  /\ task[c] = "asking"
  /\ \E answer \in {status[c], "unusable"} :
       task' = [task EXCEPT ![c] = answer]
  /\ UNCHANGED <<call, serverVars, coordinatorVars, entityVars, polls, events,
                 entryVars>>

(* Mutant: the delays start over when they run out.                        *)
WaitingStartsOver(c) ==
  /\ task[c] = "pending"
  /\ task' = [task EXCEPT ![c] = "sleeping"]
  /\ polls' = [polls EXCEPT ![c] = IF @ < MaxPolls THEN @ ELSE 0]
  /\ UNCHANGED <<call, serverVars, coordinatorVars, entityVars, events,
                 entryVars>>

(* Mutant: the loop asks once too often.                                   *)
OneDelayTooMany(c) ==
  /\ task[c] = "pending"
  /\ polls[c] <= MaxPolls
  /\ task' = [task EXCEPT ![c] = "sleeping"]
  /\ UNCHANGED <<call, serverVars, coordinatorVars, entityVars, polls, events,
                 entryVars>>

(* Still pending, and a delay left: the loop goes round.                   *)
KeepWaiting(c) ==
  /\ task[c] = "pending"
  /\ polls[c] < MaxPolls
  /\ task' = [task EXCEPT ![c] = "sleeping"]
  /\ UNCHANGED <<call, serverVars, coordinatorVars, entityVars, polls, events,
                 entryVars>>

ConcludeEnds(c) ==
  /\ \/ task[c] \in {"done", "failed", "unusable"}
     \/ task[c] = "pending" /\ polls[c] = MaxPolls
  /\ task' = [task EXCEPT ![c] = "over"]
  /\ handle' = [handle EXCEPT ![EntityOf[c]] = NoCall]
  /\ UNCHANGED <<call, serverVars, data, lastOk, snapshot, polls, entryVars>>

ClearUnless(c, kept) ==
  optimistic' = IF task[c] \in kept THEN optimistic
                ELSE [optimistic EXCEPT ![EntityOf[c]] = NoCall]

FireOn(c, reported) ==
  events' = IF task[c] \in reported THEN [events EXCEPT ![c] = @ + 1]
            ELSE events

(* Mutant: only a refusal drops the optimistic value, giving up does not.  *)
GivingUpKeepsValue(c) ==
  /\ ConcludeEnds(c)
  /\ ClearUnless(c, {"done", "pending", "unusable"})
  /\ FireOn(c, {"failed"})
  /\ AskRefresh(c)

(* Mutant: whatever is not a success is reported as a failure.             *)
GivingUpIsFailure(c) ==
  /\ ConcludeEnds(c)
  /\ ClearUnless(c, {"done"})
  /\ FireOn(c, {"failed", "pending", "unusable"})
  /\ AskRefresh(c)

(* Mutant: a command that landed returns before the final refresh.         *)
SuccessWithoutRefresh(c) ==
  /\ ConcludeEnds(c)
  /\ ClearUnless(c, {"done"})
  /\ FireOn(c, {"failed"})
  /\ IF task[c] = "done" THEN UNCHANGED refreshVars ELSE AskRefresh(c)

(* The loop ends: after success the optimistic value stays, otherwise it   *)
(* goes, and the event is fired if the pod refused.  Then the refresh.     *)
Conclude(c) ==
  /\ ConcludeEnds(c)
  /\ ClearUnless(c, {"done"})
  /\ FireOn(c, {"failed"})
  /\ AskRefresh(c)

Confirm(c) ==
  AskStatus(c) \/ StatusAnswered(c) \/ KeepWaiting(c) \/ Conclude(c)

----------------------------------------------------------------------------
(* A refresh begins outside any confirmation, by the debouncer's timer or  *)
(* on update_interval.  One runs at a time.  The schedule stops when the   *)
(* last entity is gone.                                                    *)
RefreshBegins ==
  /\ refresh = "idle"
  /\ refresh' = "reading"
  /\ requested' = FALSE
  /\ lost' = FALSE
  /\ UNCHANGED <<call, serverVars, data, lastOk, runner, snapshot, entityVars,
                 taskVars, entryVars>>

RequestedRefresh == entry # "unloaded" /\ requested /\ RefreshBegins
ScheduledPoll == entry = "loaded" /\ ~requested /\ RefreshBegins

(* GetPoolDetails answers with what the pod has now.                       *)
PayloadRead ==
  /\ refresh = "reading"
  /\ refresh' = "read"
  /\ snapshot' = pod
  /\ UNCHANGED <<call, serverVars, data, lastOk, requested, runner, lost,
                 entityVars, taskVars, entryVars>>

(* Every listening entity's _handle_coordinator_update.                    *)
ListenersRun ==
  optimistic' = [e \in Entities |-> IF e \in present THEN NoCall
                                    ELSE optimistic[e]]

(* The refresh is over, and with it the confirmation it ran in.            *)
RefreshDone ==
  /\ refresh' = "idle"
  /\ runner' = NoCall
  /\ task' = [c \in Calls |->
                IF c = runner /\ task[c] = "refreshing" THEN "blind"
                ELSE task[c]]
  /\ UNCHANGED <<call, serverVars, requested, lost, snapshot, handle, polls,
                 events, entryVars>>

(* Mutant: fresh data does not drop the optimistic values.                 *)
RefreshKeepsValues ==
  /\ refresh = "read"
  /\ data' = snapshot
  /\ lastOk' = TRUE
  /\ RefreshDone
  /\ UNCHANGED optimistic

(* The payload reaches the event loop, and the entities with it.           *)
RefreshEnds ==
  /\ refresh = "read"
  /\ data' = snapshot
  /\ lastOk' = TRUE
  /\ ListenersRun
  /\ RefreshDone

(* The poll failed: UpdateFailed or ConfigEntryAuthFailed.  The entities   *)
(* hear of the first failure of a series only (external).                  *)
RefreshFails ==
  /\ refresh = "reading"
  /\ lastOk' = FALSE
  /\ IF lastOk THEN ListenersRun ELSE UNCHANGED optimistic
  /\ RefreshDone
  /\ UNCHANGED data

(* A cancelled refresh lets go of the lock, and nobody hears of it.        *)
RefreshUnwinds ==
  /\ refresh = "cancelled"
  /\ refresh' = "idle"
  /\ UNCHANGED <<call, serverVars, data, lastOk, requested, runner, lost,
                 snapshot, entityVars, taskVars, entryVars>>

----------------------------------------------------------------------------
(* async_will_remove_from_hass, on a set of entities.                      *)
Removing(gone) ==
  /\ present' = present \ gone
  /\ handle' = [e \in Entities |-> IF e \in gone THEN NoCall ELSE handle[e]]
  /\ task' = [c \in Calls |->
                IF c \in HeldBy(gone) THEN Cancelled(task[c]) ELSE task[c]]

(* One entity leaves on its own.                                           *)
EntityRemoved(e) ==
  /\ entry = "loaded"
  /\ e \in present
  /\ Removing({e})
  /\ RefreshGoesWith(HeldBy({e}))
  /\ UNCHANGED <<call, serverVars, data, lastOk, snapshot, optimistic, polls,
                 events, entry>>

(* async_unload_entry: the platforms go first, with every entity.          *)
PlatformsUnload ==
  /\ entry = "loaded"
  /\ entry' = "unloading"
  /\ Removing(present)
  /\ RefreshGoesWith(HeldBy(present))
  /\ UNCHANGED <<call, serverVars, data, lastOk, snapshot, optimistic, polls,
                 events>>

(* Then the entry cancels its background tasks, a scheduled refresh and    *)
(* every confirmation among them, and shuts its coordinator down.  Only a  *)
(* refresh that the debouncer's timer runs goes on.                        *)
EntryUnloaded ==
  /\ entry = "unloading"
  /\ entry' = "unloaded"
  /\ task' = [c \in Calls |-> Cancelled(task[c])]
  /\ requested' = FALSE
  /\ \/ refresh' = "idle"
     \/ runner = NoCall /\ UNCHANGED refresh
  /\ runner' = NoCall
  /\ UNCHANGED <<call, serverVars, data, lastOk, lost, snapshot, entityVars,
                 polls, events, present>>

----------------------------------------------------------------------------
Next ==
  \/ \E c \in Calls :
       \/ Call(c) \/ ServerAccepts(c) \/ SendFails(c) \/ ReplyArrives(c)
       \/ AskStatus(c) \/ StatusAnswered(c) \/ KeepWaiting(c) \/ Conclude(c)
  \/ PodAnswers
  \/ \E e \in Entities : ExternalChange(e) \/ EntityRemoved(e)
  \/ RequestedRefresh \/ ScheduledPoll
  \/ PayloadRead \/ RefreshEnds \/ RefreshFails \/ RefreshUnwinds
  \/ PlatformsUnload \/ EntryUnloaded

Spec == Init /\ [][Next]_vars

(* Every request ends (HTTP_TIMEOUT), a sleep ends, the event loop runs    *)
(* what is ready, and a refresh that was asked for is run.  Nobody has to  *)
(* write, the pod may never answer and update_interval may be far away.    *)
FairSpec ==
  /\ Spec
  /\ \A c \in Calls : WF_vars(Confirm(c))
  /\ WF_vars(RequestedRefresh)
  /\ WF_vars(PayloadRead \/ RefreshFails)
  /\ WF_vars(RefreshEnds)
  /\ WF_vars(RefreshUnwinds)

----------------------------------------------------------------------------
TypeOK ==
  /\ call \in [Calls -> {"idle", "sending", "accepted", "returned", "raised"}]
  /\ status \in [Calls -> {"unknown", "pending", "done", "failed"}]
  /\ queue \in Seq(Calls)
  /\ pod \in [Entities -> Values]
  /\ data \in [Entities -> Values]
  /\ lastOk \in BOOLEAN
  /\ requested \in BOOLEAN
  /\ refresh \in {"idle", "reading", "read", "cancelled"}
  /\ runner \in Calls \cup {NoCall}
  /\ lost \in BOOLEAN
  /\ snapshot \in [Entities -> Values]
  /\ optimistic \in [Entities -> Calls \cup {NoCall}]
  /\ handle \in [Entities -> Calls \cup {NoCall}]
  /\ task \in [Calls -> Running \cup {"none", "blind", "over", "cancelled"}]
  /\ polls \in [Calls -> 0..MaxPolls]
  /\ events \in [Calls -> Nat]
  /\ present \subseteq Entities
  /\ entry \in {"loaded", "unloading", "unloaded"}

(* One confirmation per entity: a task that still runs is the one its      *)
(* entity's _confirm_task holds, so the next write can cancel it.  This is *)
(* what no path may lose, cancellation, conclusion or removal.             *)
OneConfirmation ==
  \A c \in Calls : task[c] \in Running => handle[EntityOf[c]] = c

(* "A stale verdict must not outlive the value it was about": while a      *)
(* confirmation runs, its entity shows that command's value or the         *)
(* payload's, so the _clear_optimistic() at its end can wipe no other.     *)
VerdictIsOwn ==
  \A c \in Calls : task[c] \in Active => optimistic[EntityOf[c]] \in {c, NoCall}

(* No entity is left showing a value on nobody's word: an optimistic value *)
(* is still being followed, or the pod applied it, or its command could    *)
(* not be followed and a refresh was asked for at once.                    *)
AccountedFor ==
  \A e \in present :
    LET c == optimistic[e] IN
      c # NoCall => \/ task[c] \in Running \cup {"blind"}
                    \/ task[c] = "over" /\ status[c] = "done"

(* A reading is asked for or under way, or the last poll failed and the    *)
(* entities are unavailable.                                               *)
ReadingComes == requested \/ refresh \in {"reading", "read"} \/ ~lastOk

(* "It refreshes once the command has landed": a value that nothing        *)
(* follows any more is about to give way to a reading.  The one exception  *)
(* is a refresh that was cancelled with a confirmation without a cmdID,    *)
(* which takes every reading that was due with it.                         *)
ReadingDue ==
  \A e \in present :
    optimistic[e] # NoCall /\ task[optimistic[e]] \notin Active =>
      ReadingComes \/ lost

(* klereo_command_failed fires at most once per command, and "only when    *)
(* the controller says the command failed": never for a command it         *)
(* applied, one that is late or one whose status could not be read.        *)
EventsAreRefusals ==
  \A c \in Calls : events[c] <= 1 /\ (events[c] = 1 => status[c] = "failed")

(* A confirmation ends, though the pod never answers: the delays run out,  *)
(* and the refresh that a blind one waits for comes to an end.             *)
ConfirmationEnds ==
  \A c \in Calls : task[c] \in Running ~> task[c] \notin Running

(* An optimistic value gives way to a reading, without waiting for the     *)
(* next scheduled poll: each way a confirmation ends asks for a refresh.   *)
(* Unless polls are failing, the entity then being unavailable, or the     *)
(* refresh was cancelled with a blind confirmation it ran in.              *)
OptimisticGives ==
  \A e \in Entities :
    optimistic[e] # NoCall ~>
      optimistic[e] = NoCall \/ e \notin present \/ ~lastOk \/ lost

(* When writes and changes have stopped, what an entity shows is what the  *)
(* pod has, whatever was refused, lost, late or superseded on the way.  It *)
(* takes the interval passing, and a server that does not fail every poll. *)
SettlesOnPod ==
  WF_vars(ScheduledPoll) /\ SF_vars(PayloadRead) =>
  \A e \in Entities : <>[](e \in present /\ entry = "loaded" => Shown(e) = pod[e])

----------------------------------------------------------------------------
(* What has become of a write, read off its call and its confirmation.     *)
WriteOf(c) ==
  CASE call[c] = "idle" -> "new"
    [] call[c] \in {"sending", "accepted"} -> "sent"
    [] call[c] = "raised" -> "failed"
    [] OTHER -> CASE task[c] \in Active -> "followed"
                  [] task[c] = "cancelled" -> "dropped"
                  [] task[c] = "over" -> "concluded"
                  [] OTHER -> "blind"

Tracked == INSTANCE TrackedWrites WITH
  write <- [c \in Calls |-> WriteOf(c)],
  fate  <- status,
  shows <- optimistic,
  told  <- {c \in Calls : events[c] > 0}

(* The tasks, handles, delays and refreshes implement the promise made of  *)
(* a write: whatever overlaps, only its own verdict or a reading takes a   *)
(* value away, and only a refusal is reported (TrackedWrites).             *)
KeepsPromise == Tracked!Spec

----------------------------------------------------------------------------
(* What the documentation says and the code does not keep.                 *)

(* _follow_command: tied to the entry, a confirmation is not left to run   *)
(* after a reload or a shutdown, for an entity that no longer exists.      *)
NoTaskOutlivesEntry ==
  entry = "unloaded" => \A c \in Calls : task[c] \notin Running
=============================================================================
