--------------------------- MODULE EntryLifecycle ---------------------------
(***************************************************************************)
(* One config entry: its setup and unload (__init__.py), the reauth and    *)
(* reconfigure flows that change its data, the options flow that changes   *)
(* its interval (config_flow.py), and the update listener that reloads it. *)
(*                                                                         *)
(* A step is what one coroutine runs between two awaits.  Home Assistant   *)
(* serialises setups and reloads with the entry's setup lock; everything   *)
(* else interleaves.                                                       *)
(***************************************************************************)
EXTENDS Naturals

CONSTANTS
  Credentials,      \* (username, password hash) pairs
  Servers,
  Intervals,        \* what scan_interval reads from the options
  Reauth,           \* the reauth flow; one is in progress at a time
  Reconfigurings,   \* the reconfigure flows that may be open at once
  Hass, Nobody,     \* who else holds the setup lock
  MaxSaves          \* bound: updates of the entry in a behaviour

Flows == {Reauth} \cup Reconfigurings
Updates == 1..MaxSaves
Agents == Flows \cup Updates      \* an update's listener task has its number
Data == [creds : Credentials, server : Servers]

ASSUME AgentsAssumption ==
  /\ Flows \cap Nat = {}
  /\ Reauth \notin Reconfigurings
  /\ Hass # Nobody
  /\ {Hass, Nobody} \cap (Flows \cup Nat) = {}
ASSUME MaxSavesAssumption == MaxSaves \in Nat

VARIABLES
  stored,       \* entry.data, but for the pool, which nothing changes
  option,       \* the interval entry.options asks for
  state,        \* where setup and unload are
  running,      \* what the coordinator of this setup was built from
  polling,      \* it schedules polls
  lock,         \* who holds the entry's setup lock
  stage,        \* where each flow and each listener task is
  draft,        \* the data a flow has sent for validation
  saves,        \* updates of the entry so far
  checked,      \* ghost: data the server has accepted
  missed,       \* ghost: the interval was saved while this setup ran
  optionSaved,  \* ghost: the interval was ever saved
  overtaken,    \* ghost: data was saved since reauth was submitted
  swallowed     \* ghost: a refusal of this setup asked nobody

vars == <<stored, option, state, running, polling, lock, stage, draft, saves,
          checked, missed, optionSaved, overtaken, swallowed>>
entryVars == <<stored, option, saves, checked, optionSaved>>
setupVars == <<state, running, polling, missed, swallowed>>

(* What of the entry exists: runtime_data from the first refresh, and the  *)
(* update listener from the end of setup, to the end of the unload.        *)
HasRuntimeData == state \in {"forwarding", "loaded", "unloading"}
Listening == state \in {"loaded", "unloading"}

----------------------------------------------------------------------------
(* async_setup_entry up to its first await: the API is built from the data *)
(* and the coordinator from the options as they are now.                   *)
SetupBegins ==
  /\ state' = "starting"
  /\ running' = [data |-> stored, interval |-> option]
  /\ polling' = TRUE
  /\ missed' = FALSE
  /\ swallowed' = FALSE

(* A refusal opens a reauth flow, unless a reauth or reconfigure flow of   *)
(* the entry is in progress, as one is until its own reload is over.  Such *)
(* a refusal may be the last word of the flow that was in progress.        *)
Asks == \A f \in Flows : stage[f] = "closed"
Swallows == lock = Reauth \/ \E f \in Reconfigurings : stage[f] # "closed"

(* The setup lock is let go, and who held it goes on to its end.           *)
SetupEnds(refused) ==
  /\ lock' = Nobody
  /\ stage' = [a \in Agents |->
                 IF a = lock THEN "closed"
                 ELSE IF refused /\ Asks /\ a = Reauth THEN "form"
                 ELSE stage[a]]

(* Home Assistant starts.                                                  *)
Init ==
  /\ stored \in Data
  /\ option \in Intervals
  /\ state = "starting"
  /\ running = [data |-> stored, interval |-> option]
  /\ polling = TRUE
  /\ lock = Hass
  /\ stage = [a \in Agents |-> "closed"]
  /\ draft = [f \in Flows |-> stored]
  /\ saves = 0
  /\ checked = {stored}
  /\ missed = FALSE
  /\ optionSaved = FALSE
  /\ overtaken = FALSE
  /\ swallowed = FALSE

(* async_config_entry_first_refresh succeeds: runtime_data is set and the  *)
(* platforms are forwarded.                                                *)
FirstRefresh ==
  /\ state = "starting"
  /\ state' = "forwarding"
  /\ UNCHANGED <<entryVars, running, polling, missed, swallowed, lock, stage,
                 draft, overtaken>>

(* Mutant: a refusal at setup is an error like any other.                  *)
RefusedQuietly ==
  /\ state = "starting"
  /\ state' = "error"
  /\ swallowed' = (swallowed \/ Swallows)
  /\ SetupEnds(FALSE)
  /\ UNCHANGED <<entryVars, running, polling, missed, draft, overtaken>>

(* Or it is refused: ConfigEntryAuthFailed, and the user is asked.         *)
FirstRefreshRefused ==
  /\ state = "starting"
  /\ state' = "error"
  /\ swallowed' = (swallowed \/ Swallows)
  /\ SetupEnds(TRUE)
  /\ UNCHANGED <<entryVars, running, polling, missed, draft, overtaken>>

(* Or it fails otherwise, and Home Assistant tries again later.            *)
FirstRefreshFails ==
  /\ state = "starting"
  /\ state' = "retry"
  /\ SetupEnds(FALSE)
  /\ UNCHANGED <<entryVars, running, polling, missed, swallowed, draft,
                 overtaken>>

(* The platforms are set up; the update listener is added last.            *)
PlatformsReady ==
  /\ state = "forwarding"
  /\ state' = "loaded"
  /\ SetupEnds(FALSE)
  /\ UNCHANGED <<entryVars, running, polling, missed, swallowed, draft,
                 overtaken>>

(* async_reload gets the lock.  A loaded entry is unloaded first, one that *)
(* failed to set up has nothing to unload.  Home Assistant reloads on its  *)
(* own account too: a retry, or a user who asks for it.                    *)
ReloadBegins(w) ==
  /\ lock = Nobody
  /\ w \in Agents => stage[w] = "waiting"
  /\ lock' = w
  /\ IF state = "loaded"
     THEN /\ state' = "unloading"
          /\ UNCHANGED <<running, polling, missed, swallowed>>
     ELSE SetupBegins
  /\ UNCHANGED <<entryVars, stage, draft, overtaken>>

(* The platforms are gone: runtime_data and the listener go with them.     *)
Unloaded ==
  /\ state = "unloading"
  /\ state' = "unloaded"
  /\ UNCHANGED <<entryVars, running, polling, missed, swallowed, lock, stage,
                 draft, overtaken>>

ReloadSetsUp ==
  /\ state = "unloaded"
  /\ SetupBegins
  /\ UNCHANGED <<entryVars, lock, stage, draft, overtaken>>

(* A poll is refused: ConfigEntryAuthFailed stops the polls and asks.      *)
PollRefused ==
  /\ HasRuntimeData
  /\ polling
  /\ polling' = FALSE
  /\ swallowed' = (swallowed \/ Swallows)
  /\ stage' = [stage EXCEPT ![Reauth] = IF Asks THEN "form" ELSE @]
  /\ UNCHANGED <<entryVars, state, running, missed, lock, draft, overtaken>>

----------------------------------------------------------------------------
(* The user opens a reconfigure dialog, or gives one up.                   *)
OpenOrClose(f) ==
  /\ \/ stage[f] = "closed" /\ stage' = [stage EXCEPT ![f] = "form"]
     \/ stage[f] = "form" /\ stage' = [stage EXCEPT ![f] = "closed"]
  /\ UNCHANGED <<entryVars, setupVars, lock, draft, overtaken>>

(* Mutant: reauth forgets the server, which then reads as the default.     *)
DraftOnAnyServer(f, data) == data \in Data

(* What a flow puts over a copy of entry.data: reauth the credentials,     *)
(* reconfigure the server with them.                                       *)
DraftOf(f, data) == data \in Data /\ (f = Reauth => data.server = stored.server)

(* Mutant: a form can be sent again while the entry reloads.               *)
SubmitAgain(f) ==
  /\ stage[f] \in {"form", "waiting"}
  /\ \E data \in Data :
       /\ DraftOf(f, data)
       /\ draft' = [draft EXCEPT ![f] = data]
  /\ stage' = [stage EXCEPT ![f] = "validating"]
  /\ overtaken' = (overtaken /\ f # Reauth)
  /\ UNCHANGED <<entryVars, setupVars, lock>>

(* The form is submitted: the data is merged now and sent for validation.  *)
Submit(f) ==
  /\ stage[f] = "form"
  /\ \E data \in Data :
       /\ DraftOf(f, data)
       /\ draft' = [draft EXCEPT ![f] = data]
  /\ stage' = [stage EXCEPT ![f] = "validating"]
  /\ overtaken' = (overtaken /\ f # Reauth)
  /\ UNCHANGED <<entryVars, setupVars, lock>>

(* The server refused it or could not be reached: the form again.          *)
ValidationFails(f) ==
  /\ stage[f] = "validating"
  /\ stage' = [stage EXCEPT ![f] = "form"]
  /\ UNCHANGED <<entryVars, setupVars, lock, draft, overtaken>>

(* async_update_entry tells the update listener of a change (external).    *)
Tells(changed, after) ==
  stage' = [a \in Agents |->
              IF changed /\ Listening /\ a = saves + 1 THEN "scheduled"
              ELSE after[a]]

(* Mutant: the flow leaves the reload to the update listener.              *)
SavesForTheListener(f) ==
  /\ stage[f] = "validating"
  /\ saves < MaxSaves
  /\ saves' = saves + 1
  /\ stored' = draft[f]
  /\ checked' = checked \cup {draft[f]}
  /\ Tells(draft[f] # stored, [stage EXCEPT ![f] = "closed"])
  /\ overtaken' = TRUE
  /\ UNCHANGED <<option, optionSaved, setupVars, lock, draft>>

(* Mutant: the copy of entry.data is made after the validation.            *)
SavesMergedLate(f) ==
  /\ stage[f] = "validating"
  /\ saves < MaxSaves
  /\ saves' = saves + 1
  /\ stored' = IF f = Reauth THEN [stored EXCEPT !.creds = draft[f].creds]
               ELSE draft[f]
  /\ checked' = checked \cup {draft[f]}
  /\ Tells(stored' # stored, [stage EXCEPT ![f] = "waiting"])
  /\ overtaken' = TRUE
  /\ UNCHANGED <<option, optionSaved, setupVars, lock, draft>>

(* The server accepted it: the entry is updated, and the flow goes on to   *)
(* wait for the lock in async_reload.                                      *)
Saves(f) ==
  /\ stage[f] = "validating"
  /\ saves < MaxSaves
  /\ saves' = saves + 1
  /\ stored' = draft[f]
  /\ checked' = checked \cup {draft[f]}
  /\ Tells(draft[f] # stored, [stage EXCEPT ![f] = "waiting"])
  /\ overtaken' = TRUE
  /\ UNCHANGED <<option, optionSaved, setupVars, lock, draft>>

(* The options flow saves another interval.                                *)
SavesOption(interval) ==
  /\ saves < MaxSaves
  /\ interval # option
  /\ saves' = saves + 1
  /\ option' = interval
  /\ optionSaved' = TRUE
  /\ missed' = (missed \/ state \in {"starting", "forwarding"})
  /\ Tells(TRUE, stage)
  /\ UNCHANGED <<stored, checked, state, running, polling, swallowed, lock,
                 draft, overtaken>>

(* Mutant: any update of the entry reloads it.                             *)
WantsOnAnyUpdate == HasRuntimeData

(* Mutant: only a longer interval is worth a reload.                       *)
WantsWhenLonger == HasRuntimeData /\ running.interval < option

(* async_entry_updated: the interval is not the one the coordinator has.   *)
WantsReload == HasRuntimeData /\ running.interval # option

ListenerRuns(k) ==
  /\ stage[k] = "scheduled"
  /\ stage' = [stage EXCEPT ![k] = IF WantsReload THEN "waiting" ELSE "closed"]
  /\ UNCHANGED <<entryVars, setupVars, lock, draft, overtaken>>

----------------------------------------------------------------------------
Next ==
  \/ FirstRefresh \/ FirstRefreshRefused \/ FirstRefreshFails
  \/ PlatformsReady \/ Unloaded \/ ReloadSetsUp \/ PollRefused
  \/ \E w \in Agents \cup {Hass} : ReloadBegins(w)
  \/ \E f \in Reconfigurings : OpenOrClose(f)
  \/ \E f \in Flows : Submit(f) \/ ValidationFails(f) \/ Saves(f)
  \/ \E interval \in Intervals : SavesOption(interval)
  \/ \E k \in Updates : ListenerRuns(k)

Spec == Init /\ [][Next]_vars

----------------------------------------------------------------------------
(* Every value has its type, and the lock is held just while a setup or an *)
(* unload is under way, by someone who asked for it.                       *)
TypeOK ==
  /\ stored \in Data
  /\ option \in Intervals
  /\ state \in {"starting", "forwarding", "loaded", "unloading", "unloaded",
                "error", "retry"}
  /\ running \in [data : Data, interval : Intervals]
  /\ lock \in Agents \cup {Hass, Nobody}
  /\ lock = Nobody <=> state \in {"loaded", "error", "retry"}
  /\ lock \in Agents => stage[lock] = "waiting"
  /\ stage \in [Agents -> {"closed", "form", "validating", "scheduled", "waiting"}]
  /\ draft \in [Flows -> Data]
  /\ saves \in 0..MaxSaves
  /\ checked \subseteq Data
  /\ {polling, missed, optionSaved, overtaken, swallowed} \subseteq BOOLEAN

(* Someone is about to reload the entry, or to find that he should.        *)
ReloadDue == \E a \in Agents : stage[a] = "waiting" /\ a # lock

(* A loaded entry runs on the data it has stored, or a flow that saved     *)
(* other data is waiting to reload it: no order of two flows, a retry and  *)
(* a reload under way leaves the old API running.                          *)
RunsOnStored ==
  state = "loaded" /\ running.data # stored =>
    \E f \in Flows : stage[f] = "waiting"

(* README: "the new settings are checked against the same pool before they *)
(* are saved".  What is stored is one whole that the server accepted, not  *)
(* the server of one flow with the credentials of another.                 *)
StoredWasChecked == stored \in checked

(* Reauth renews the credentials and nothing else, unless another flow     *)
(* saved while it was being validated: then it puts back what it read.     *)
ReauthKeepsServer ==
  [][Saves(Reauth) /\ ~overtaken => stored'.server = stored.server]_vars

(* async_entry_updated: reauth and reconfigure "reload on their own, so    *)
(* reacting to them as well would reload the entry twice".                 *)
ListenerIgnoresData ==
  ~optionSaved => \A k \in Updates : stage[k] # "waiting"

(* The interval saved is the one the coordinator runs at, or a listener    *)
(* or a reload is on its way to see to it; unless it was saved while the   *)
(* entry was being set up.                                                 *)
IntervalApplied ==
  state = "loaded" /\ running.interval # option /\ ~missed =>
    ReloadDue \/ \E k \in Updates : stage[k] = "scheduled"

(* Nobody is left without a question: when the polls have stopped or setup *)
(* was refused a reauth flow is open, unless the refusal came while the    *)
(* user was reconfiguring, or during a flow's own reload.                  *)
RefusedIsAsked ==
  state = "error" \/ (state = "loaded" /\ ~polling) =>
    stage[Reauth] # "closed" \/ swallowed

----------------------------------------------------------------------------
(* What the documentation says and the code does not keep: saving the      *)
(* options "fires the entry's update listener, which reloads it on the     *)
(* new interval".                                                          *)
OptionsReload ==
  state = "loaded" /\ running.interval # option =>
    ReloadDue \/ \E k \in Updates : stage[k] = "scheduled"
=============================================================================
