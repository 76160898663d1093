------------------------ MODULE EntryLifecycleProofs ------------------------
(***************************************************************************)
(* The invariants of EntryLifecycle, for any number of reconfigure flows,  *)
(* credentials, servers, intervals and updates.                            *)
(***************************************************************************)
EXTENDS EntryLifecycle, TLAPS

(* RunsOnStored, already while the entry is being set up: the flow that is *)
(* waiting is not the one whose reload this is.                            *)
DataDue ==
  state \in {"starting", "forwarding", "loaded"} /\ running.data # stored =>
    \E f \in Flows : stage[f] = "waiting" /\ f # lock

(* A setup that missed no option runs at the interval that was saved.      *)
IntervalRead ==
  state \in {"starting", "forwarding"} /\ ~missed => running.interval = option

(* As long as the options are left alone, no coordinator was built from    *)
(* others, so no listener finds a difference.                              *)
OptionUnsaved ==
  ~optionSaved => /\ running.interval = option
                  /\ \A k \in Updates : stage[k] # "waiting"

(* Polls stop after the first refresh only, and a refusal that was not     *)
(* swallowed left a reauth flow that does not end with this setup.         *)
Asked ==
  /\ state = "starting" => polling
  /\ state = "error" \/ (state \in {"forwarding", "loaded"} /\ ~polling) =>
       swallowed \/ (stage[Reauth] # "closed" /\ lock # Reauth)

(* An update that has not happened yet has told no listener.               *)
Untold == \A k \in Updates : k > saves => stage[k] = "closed"

Inv ==
  /\ TypeOK
  /\ Untold
  /\ DataDue
  /\ IntervalRead
  /\ IntervalApplied
  /\ OptionUnsaved
  /\ StoredWasChecked
  /\ Asked

----------------------------------------------------------------------------
(* Who is who: a flow is no update, and Home Assistant is neither.         *)
LEMMA Parties ==
  /\ Reauth \in Agents /\ Reauth \in Flows /\ Reauth \notin Updates
  /\ Flows = {Reauth} \cup Reconfigurings
  /\ Flows \subseteq Agents /\ Updates \subseteq Agents
  /\ Flows \cap Updates = {}
  /\ Hass \notin Agents /\ Nobody \notin Agents /\ Hass # Nobody
  BY AgentsAssumption, MaxSavesAssumption DEF Agents, Flows, Updates

(* The entry starts with no flow, no save and the interval it reads.       *)
LEMMA InitInv == Init => Inv
  <1> SUFFICES ASSUME Init PROVE Inv
    OBVIOUS
  <1>1. stage \in [Agents -> {"closed", "form", "validating", "scheduled", "waiting"}]
    BY DEF Init
  <1>2. saves \in 0..MaxSaves
    BY MaxSavesAssumption DEF Init
  <1>3. TypeOK
    <2>1. draft \in [Flows -> Data] /\ running \in [data : Data, interval : Intervals]
      BY DEF Init
    <2>2. {polling, missed, optionSaved, overtaken, swallowed} \subseteq BOOLEAN
      BY DEF Init
    <2> QED BY <1>1, <1>2, <2>1, <2>2, Parties DEF Init, TypeOK
  <1>4. \A a \in Agents : stage[a] = "closed"
    BY DEF Init
  <1> QED BY <1>3, <1>4, Parties DEF Init, Inv, DataDue, IntervalRead, IntervalApplied,
                            OptionUnsaved, StoredWasChecked, Asked, ReloadDue,
                            Untold

(* The end of a setup closes who held the lock, and may open reauth.       *)
LEMMA EndFacts ==
  ASSUME TypeOK, NEW refused \in BOOLEAN, SetupEnds(refused)
  PROVE  /\ stage' \in [Agents -> {"closed", "form", "validating", "scheduled",
                                   "waiting"}]
         /\ \A a \in Agents : a # lock /\ stage[a] # "closed" => stage'[a] = stage[a]
         /\ \A a \in Agents : stage'[a] = "waiting" => stage[a] = "waiting"
         /\ refused => \/ Swallows
                       \/ stage'[Reauth] # "closed" /\ lock # Reauth
         /\ \A k \in Updates : stage[k] = "closed" => stage'[k] = "closed"
         /\ lock' = Nobody
  <1>1. \A a \in Agents : Asks /\ a = Reauth => stage[a] = "closed"
    BY DEF Asks, Flows
  <1> QED BY <1>1, Parties DEF SetupEnds, TypeOK, Asks, Swallows

(* A first refresh that succeeds or not, and the platforms.                *)
LEMMA SetupInv ==
  ASSUME Inv,
         FirstRefresh \/ FirstRefreshRefused \/ FirstRefreshFails \/ PlatformsReady
  PROVE  Inv'
  <1> USE AgentsAssumption
  <1>1. CASE FirstRefresh
    <2>1. TypeOK'
      BY <1>1 DEF FirstRefresh, entryVars, Inv, TypeOK
    <2> QED BY <1>1, <2>1
            DEF FirstRefresh, entryVars, Inv, DataDue, IntervalRead, IntervalApplied,
                OptionUnsaved, StoredWasChecked, Asked, Untold
  <1>2. CASE FirstRefreshRefused
    <2>1. SetupEnds(TRUE) /\ TypeOK
      BY <1>2 DEF FirstRefreshRefused, Inv
    <2>2. TypeOK'
      BY <1>2, <2>1, EndFacts, Parties
         DEF FirstRefreshRefused, entryVars, TypeOK, Swallows
    <2>3. OptionUnsaved' /\ Untold'
      BY <1>2, <2>1, EndFacts
         DEF FirstRefreshRefused, entryVars, Inv, OptionUnsaved, Untold, Agents
    <2>4. Asked'
      <3>1. swallowed' \/ (stage'[Reauth] # "closed" /\ lock # Reauth)
        BY <1>2, <2>1, EndFacts DEF FirstRefreshRefused
      <3>2. lock' # Reauth
        BY <2>1 DEF SetupEnds, Flows
      <3> QED BY <1>2, <3>1, <3>2 DEF FirstRefreshRefused, Asked
    <2> QED BY <1>2, <2>2, <2>3, <2>4
            DEF FirstRefreshRefused, entryVars, Inv, DataDue, IntervalRead,
                IntervalApplied, StoredWasChecked
  <1>3. CASE FirstRefreshFails
    <2>1. SetupEnds(FALSE) /\ TypeOK
      BY <1>3 DEF FirstRefreshFails, Inv
    <2>2. TypeOK'
      BY <1>3, <2>1, EndFacts, Parties DEF FirstRefreshFails, entryVars, TypeOK
    <2>3. OptionUnsaved' /\ Untold'
      BY <1>3, <2>1, EndFacts
         DEF FirstRefreshFails, entryVars, Inv, OptionUnsaved, Untold, Agents
    <2> QED BY <1>3, <2>2, <2>3
            DEF FirstRefreshFails, entryVars, Inv, DataDue, IntervalRead,
                IntervalApplied, StoredWasChecked, Asked
  <1>4. CASE PlatformsReady
    <2>1. SetupEnds(FALSE) /\ TypeOK
      BY <1>4 DEF PlatformsReady, Inv
    <2>2. TypeOK'
      BY <1>4, <2>1, EndFacts, Parties DEF PlatformsReady, entryVars, TypeOK
    <2>3. OptionUnsaved' /\ Untold'
      BY <1>4, <2>1, EndFacts
         DEF PlatformsReady, entryVars, Inv, OptionUnsaved, Untold, Agents
    <2>4. DataDue'
      <3> SUFFICES ASSUME running.data # stored
                   PROVE  \E f \in Flows : stage'[f] = "waiting" /\ f # lock'
        BY <1>4 DEF PlatformsReady, entryVars, DataDue
      <3>1. PICK f \in Flows : stage[f] = "waiting" /\ f # lock
        BY <1>4 DEF PlatformsReady, Inv, DataDue
      <3>2. f \in Agents
        BY DEF Agents
      <3>3. stage'[f] = "waiting" /\ f # lock'
        BY <2>1, <3>1, <3>2, EndFacts
      <3> QED BY <3>3
    <2>5. Asked'
      <3>1. Reauth \in Agents
        BY DEF Agents, Flows
      <3>2. lock' # Reauth
        BY <2>1 DEF SetupEnds, Flows
      <3> QED BY <1>4, <2>1, <3>1, <3>2, EndFacts DEF PlatformsReady, Inv, Asked
    <2> QED BY <1>4, <2>2, <2>3, <2>4, <2>5
            DEF PlatformsReady, entryVars, Inv, IntervalRead, IntervalApplied,
                StoredWasChecked
  <1> QED BY <1>1, <1>2, <1>3, <1>4

(* Getting the lock and unloading; a setup that begins reads everything.   *)
LEMMA ReloadInv ==
  ASSUME Inv,
         \/ \E w \in Agents \cup {Hass} : ReloadBegins(w)
         \/ Unloaded \/ ReloadSetsUp
  PROVE  Inv'
  <1> USE AgentsAssumption
  <1>1. ASSUME NEW w \in Agents \cup {Hass}, ReloadBegins(w) PROVE Inv'
    <2>1. w # Nobody
      BY DEF Agents, Updates
    <2>2. CASE state = "loaded"
      <3>1. /\ lock' = w /\ state' = "unloading"
            /\ UNCHANGED <<stored, option, saves, checked, optionSaved, running,
                           polling, missed, swallowed, stage, draft, overtaken>>
        BY <1>1, <2>2 DEF ReloadBegins, entryVars
      <3>2. TypeOK'
        BY <1>1, <2>1, <3>1 DEF ReloadBegins, Inv, TypeOK
      <3> QED BY <3>1, <3>2 DEF Inv, DataDue, IntervalRead, IntervalApplied,
                                OptionUnsaved, StoredWasChecked, Asked, Untold
    <2>3. CASE state # "loaded"
      <3>1. /\ lock' = w /\ SetupBegins
            /\ UNCHANGED <<stored, option, saves, checked, optionSaved, stage,
                           draft, overtaken>>
        BY <1>1, <2>3 DEF ReloadBegins, entryVars
      <3>2. TypeOK'
        BY <1>1, <2>1, <3>1 DEF ReloadBegins, SetupBegins, Inv, TypeOK
      <3> QED BY <3>1, <3>2 DEF SetupBegins, Inv, DataDue, IntervalRead,
                                IntervalApplied, OptionUnsaved, StoredWasChecked,
                                Asked, Untold
    <2> QED BY <2>2, <2>3
  <1>2. CASE Unloaded
    BY <1>2 DEF Unloaded, entryVars, Inv, TypeOK, DataDue, IntervalRead,
                IntervalApplied, OptionUnsaved, StoredWasChecked, Asked, Untold
  <1>3. CASE ReloadSetsUp
    BY <1>3 DEF ReloadSetsUp, SetupBegins, entryVars, Inv, TypeOK, DataDue,
                IntervalRead, IntervalApplied, OptionUnsaved, StoredWasChecked, Asked,
                Untold
  <1> QED BY <1>1, <1>2, <1>3

(* A refused poll asks, or is swallowed.                                   *)
LEMMA PollRefusedInv == Inv /\ PollRefused => Inv'
  <1> SUFFICES ASSUME Inv, PollRefused PROVE Inv'
    OBVIOUS
  <1> USE AgentsAssumption
  <1>1. /\ Reauth \in Agents /\ Reauth \in Flows /\ Reauth \notin Updates
        /\ Flows = {Reauth} \cup Reconfigurings
    BY Parties
  <1>2. Asks => stage[Reauth] = "closed"
    BY <1>1 DEF Asks
  <1>3. stage' = [stage EXCEPT ![Reauth] = IF Asks THEN "form" ELSE @]
    BY DEF PollRefused
  <1>4. \A a \in Agents : /\ stage'[a] = "waiting" <=> stage[a] = "waiting"
                          /\ a # Reauth => stage'[a] = stage[a]
    BY <1>1, <1>2, <1>3 DEF Inv, TypeOK
  <1>5. UNCHANGED <<stored, option, saves, checked, optionSaved, state, running,
                    missed, lock, draft, overtaken>>
    BY DEF PollRefused, entryVars
  <1>6. TypeOK'
    BY <1>1, <1>3, <1>4, <1>5 DEF PollRefused, Inv, TypeOK, Swallows
  <1>7. Flows \subseteq Agents /\ Updates \subseteq Agents
    BY Parties
  <1>8. DataDue' /\ OptionUnsaved'
    BY <1>4, <1>5, <1>7 DEF Inv, DataDue, OptionUnsaved
  <1>9. IntervalApplied' /\ IntervalRead' /\ StoredWasChecked' /\ Untold'
    <2>1. \A k \in Updates : stage'[k] = stage[k]
      BY <1>1, <1>4, <1>7
    <2> QED BY <1>4, <1>5, <2>1
            DEF Inv, IntervalApplied, IntervalRead, StoredWasChecked, ReloadDue,
                Untold
  <1>10. Asked'
    <2>1. state # "starting" /\ state # "error"
      BY DEF PollRefused, HasRuntimeData
    <2>2. CASE Asks /\ lock # Reauth
      BY <1>1, <1>3, <1>5, <2>1, <2>2 DEF Asked, Inv, TypeOK
    <2>3. CASE Swallows
      BY <1>5, <2>1, <2>3 DEF PollRefused, Asked
    <2>4. CASE ~Asks /\ ~Swallows
      <3>1. stage[Reauth] # "closed" /\ lock # Reauth
        BY <1>1, <2>4 DEF Asks, Swallows
      <3> QED BY <1>1, <1>3, <1>5, <2>1, <2>4, <3>1 DEF Asked, Inv, TypeOK
    <2> QED BY <2>2, <2>3, <2>4 DEF Swallows
  <1> QED BY <1>6, <1>8, <1>9, <1>10 DEF Inv

----------------------------------------------------------------------------
(* What the dialogs do: open and close, and send their forms.              *)
LEMMA DialogInv ==
  ASSUME Inv,
         \/ \E f \in Reconfigurings : OpenOrClose(f)
         \/ \E f \in Flows : Submit(f) \/ ValidationFails(f)
  PROVE  Inv'
  <1>1. PICK f \in Flows :
          /\ stage[f] \in {"closed", "form", "validating"}
          /\ f = Reauth => stage[f] # "closed"
          /\ \E to \in {"closed", "form", "validating"} :
               /\ stage' = [stage EXCEPT ![f] = to]
               /\ f = Reauth => to # "closed"
          /\ draft' \in [Flows -> Data]
          /\ overtaken' \in BOOLEAN
          /\ UNCHANGED <<stored, option, saves, checked, optionSaved, state,
                         running, polling, missed, swallowed, lock>>
    <2>1. ASSUME NEW f \in Reconfigurings, OpenOrClose(f) PROVE
            /\ stage[f] \in {"closed", "form", "validating"}
            /\ f # Reauth
            /\ \E to \in {"closed", "form", "validating"} :
                 stage' = [stage EXCEPT ![f] = to]
            /\ UNCHANGED <<entryVars, setupVars, lock, draft, overtaken>>
      BY <2>1, AgentsAssumption DEF OpenOrClose
    <2>2. ASSUME NEW f \in Flows, Submit(f) PROVE
            /\ stage[f] = "form"
            /\ stage' = [stage EXCEPT ![f] = "validating"]
            /\ draft' \in [Flows -> Data]
            /\ overtaken' \in BOOLEAN
            /\ UNCHANGED <<entryVars, setupVars, lock>>
      BY <2>2 DEF Submit, DraftOf, Inv, TypeOK
    <2>3. ASSUME NEW f \in Flows, ValidationFails(f) PROVE
            /\ stage[f] = "validating"
            /\ stage' = [stage EXCEPT ![f] = "form"]
            /\ UNCHANGED <<entryVars, setupVars, lock, draft, overtaken>>
      BY <2>3 DEF ValidationFails
    <2>4. draft \in [Flows -> Data] /\ overtaken \in BOOLEAN
      BY DEF Inv, TypeOK
    <2> QED BY <2>1, <2>2, <2>3, <2>4, Parties DEF entryVars, setupVars
  <1>2. PICK to \in {"closed", "form", "validating"} :
          /\ stage' = [stage EXCEPT ![f] = to]
          /\ f = Reauth => to # "closed"
    BY <1>1
  <1>3. /\ stage' \in [Agents -> {"closed", "form", "validating", "scheduled",
                                  "waiting"}]
        /\ \A a \in Agents : stage'[a] = "waiting" <=> stage[a] = "waiting"
        /\ \A k \in Updates : stage'[k] = stage[k]
        /\ stage[Reauth] # "closed" => stage'[Reauth] # "closed"
    BY <1>1, <1>2, Parties DEF Inv, TypeOK
  <1>4. TypeOK'
    BY <1>1, <1>3 DEF Inv, TypeOK
  <1>5. DataDue' /\ OptionUnsaved'
    BY <1>1, <1>3, Parties DEF Inv, DataDue, OptionUnsaved
  <1>6. IntervalApplied' /\ IntervalRead' /\ StoredWasChecked'
    <2>1. ReloadDue' <=> ReloadDue
      BY <1>1, <1>3 DEF ReloadDue
    <2> QED BY <1>1, <1>3, <2>1 DEF Inv, IntervalApplied, IntervalRead, StoredWasChecked
  <1>7. Asked' /\ Untold'
    BY <1>1, <1>3 DEF Inv, Asked, Untold
  <1> QED BY <1>4, <1>5, <1>6, <1>7 DEF Inv

(* A flow saves what the server accepted, and waits for its reload.        *)
LEMMA SavesInv == ASSUME Inv, NEW f \in Flows, Saves(f) PROVE Inv'
  <1>1. /\ stage[f] = "validating" /\ saves < MaxSaves
        /\ saves' = saves + 1 /\ stored' = draft[f]
        /\ checked' = checked \cup {draft[f]} /\ overtaken' = TRUE
        /\ UNCHANGED <<option, optionSaved, state, running, polling, missed,
                       swallowed, lock, draft>>
    BY DEF Saves, setupVars
  <1>2. stage' = [a \in Agents |->
                    IF draft[f] # stored /\ Listening /\ a = saves + 1 THEN "scheduled"
                    ELSE [stage EXCEPT ![f] = "waiting"][a]]
    BY DEF Saves, Tells
  <1>3. saves + 1 \in Updates
    BY <1>1, MaxSavesAssumption DEF Inv, TypeOK, Updates
  <1>4. lock # f /\ (lock \in Agents => stage[lock] = "waiting")
    BY <1>1, Parties DEF Inv, TypeOK
  <1>5. stage[saves + 1] = "closed" /\ saves + 1 # f
    BY <1>1, <1>3, Parties DEF Inv, TypeOK, Untold
  <1>6. \A a \in Agents : stage[a] = "waiting" \/ a = f => stage'[a] = "waiting"
    BY <1>2, <1>4, <1>5, Parties DEF Inv, TypeOK
  <1>7. \A a \in Agents :
          \/ a = f
          \/ stage'[a] = stage[a]
          \/ a = saves + 1 /\ stage'[a] = "scheduled"
    BY <1>2, Parties DEF Inv, TypeOK
  <1>8. stage' \in [Agents -> {"closed", "form", "validating", "scheduled", "waiting"}]
    BY <1>2 DEF Inv, TypeOK
  <1>9. draft[f] \in Data
    BY DEF Inv, TypeOK
  <1>10. TypeOK'
    <2>1. saves' \in 0..MaxSaves
      BY <1>1, MaxSavesAssumption DEF Inv, TypeOK
    <2>2. lock' \in Agents => stage'[lock'] = "waiting"
      BY <1>1, <1>4, <1>6
    <2> QED BY <1>1, <1>8, <1>9, <2>1, <2>2 DEF Inv, TypeOK
  <1>11. DataDue'
    BY <1>1, <1>4, <1>6, Parties DEF DataDue
  <1>12. IntervalApplied'
    BY <1>1, <1>4, <1>6, Parties DEF IntervalApplied, ReloadDue
  <1>13. OptionUnsaved'
    BY <1>1, <1>7, Parties DEF Inv, OptionUnsaved
  <1>14. Asked'
    <2>1. stage[Reauth] # "closed" => stage'[Reauth] # "closed"
      BY <1>6, <1>7, Parties
    <2> QED BY <1>1, <2>1 DEF Inv, Asked
  <1>15. Untold'
    <2> SUFFICES ASSUME NEW k \in Updates, k > saves' PROVE stage'[k] = "closed"
      BY DEF Untold
    <2>1. k > saves /\ k # saves + 1 /\ k # f /\ k \in Agents
      BY <1>1, Parties DEF Inv, TypeOK, Updates
    <2> QED BY <1>7, <2>1 DEF Inv, Untold
  <1> QED BY <1>1, <1>10, <1>11, <1>12, <1>13, <1>14, <1>15
          DEF Inv, IntervalRead, StoredWasChecked

(* The options are saved: a listener is told, if there is one yet.         *)
LEMMA SavesOptionInv ==
  ASSUME Inv, NEW interval \in Intervals, SavesOption(interval)
  PROVE  Inv'
  <1>1. /\ saves < MaxSaves /\ saves' = saves + 1 /\ option' = interval
        /\ optionSaved' = TRUE
        /\ missed' = (missed \/ state \in {"starting", "forwarding"})
        /\ UNCHANGED <<stored, checked, state, running, polling, swallowed, lock,
                       draft, overtaken>>
    BY DEF SavesOption
  <1>2. stage' = [a \in Agents |->
                    IF Listening /\ a = saves + 1 THEN "scheduled" ELSE stage[a]]
    BY DEF SavesOption, Tells
  <1>3. saves + 1 \in Updates
    BY <1>1, MaxSavesAssumption DEF Inv, TypeOK, Updates
  <1>4. stage[saves + 1] = "closed" /\ saves + 1 # Reauth
    BY <1>1, <1>3, Parties DEF Inv, TypeOK, Untold
  <1>5. \A a \in Agents : /\ stage'[a] = "waiting" <=> stage[a] = "waiting"
                          /\ a # saves + 1 => stage'[a] = stage[a]
    BY <1>2, <1>4
  <1>6. stage' \in [Agents -> {"closed", "form", "validating", "scheduled", "waiting"}]
    BY <1>2 DEF Inv, TypeOK
  <1>7. TypeOK'
    <2>1. saves' \in 0..MaxSaves
      BY <1>1, MaxSavesAssumption DEF Inv, TypeOK
    <2> QED BY <1>1, <1>5, <1>6, <2>1 DEF Inv, TypeOK
  <1>8. DataDue' /\ Asked'
    BY <1>1, <1>4, <1>5, Parties DEF Inv, DataDue, Asked
  <1>9. IntervalApplied'
    <2> SUFFICES ASSUME state = "loaded" PROVE stage'[saves + 1] = "scheduled"
      BY <1>1, <1>3 DEF IntervalApplied
    <2> QED BY <1>2, <1>3, Parties DEF Listening
  <1>10. Untold'
    <2> SUFFICES ASSUME NEW k \in Updates, k > saves' PROVE stage'[k] = "closed"
      BY DEF Untold
    <2>1. k > saves /\ k # saves + 1 /\ k \in Agents
      BY <1>1, Parties DEF Inv, TypeOK, Updates
    <2> QED BY <1>5, <2>1 DEF Inv, Untold
  <1> QED BY <1>1, <1>7, <1>8, <1>9, <1>10
          DEF Inv, IntervalRead, OptionUnsaved, StoredWasChecked

(* A listener task reloads when the interval is not the coordinator's.     *)
LEMMA ListenerRunsInv ==
  ASSUME Inv, NEW k \in Updates, ListenerRuns(k)
  PROVE  Inv'
  <1>1. /\ stage[k] = "scheduled"
        /\ stage' = [stage EXCEPT ![k] = IF WantsReload THEN "waiting" ELSE "closed"]
        /\ UNCHANGED <<stored, option, saves, checked, optionSaved, state, running,
                       polling, missed, swallowed, lock, draft, overtaken>>
    BY DEF ListenerRuns, entryVars, setupVars
  <1>2. k \in Agents /\ k # lock
    BY <1>1, Parties DEF Inv, TypeOK
  <1>3. \A a \in Agents : a # k => stage'[a] = stage[a]
    BY <1>1 DEF Inv, TypeOK
  <1>4. stage'[k] = IF WantsReload THEN "waiting" ELSE "closed"
    BY <1>1, <1>2 DEF Inv, TypeOK
  <1>5. stage' \in [Agents -> {"closed", "form", "validating", "scheduled", "waiting"}]
    BY <1>1 DEF Inv, TypeOK
  <1>6. TypeOK'
    BY <1>1, <1>2, <1>3, <1>5 DEF Inv, TypeOK
  <1>7. DataDue' /\ Asked'
    BY <1>1, <1>3, Parties DEF Inv, DataDue, Asked
  <1>8. IntervalApplied'
    <2> SUFFICES ASSUME state = "loaded", running.interval # option
                 PROVE  ReloadDue'
      BY <1>1 DEF IntervalApplied
    <2>1. stage'[k] = "waiting" /\ k # lock'
      BY <1>1, <1>2, <1>4 DEF WantsReload, HasRuntimeData
    <2> QED BY <1>2, <2>1 DEF ReloadDue
  <1>9. OptionUnsaved'
    BY <1>1, <1>3, <1>4, Parties DEF Inv, OptionUnsaved, WantsReload
  <1>10. Untold'
    BY <1>1, <1>3, Parties DEF Inv, Untold
  <1> QED BY <1>1, <1>6, <1>7, <1>8, <1>9, <1>10
          DEF Inv, IntervalRead, StoredWasChecked

----------------------------------------------------------------------------
(* No step leaves the invariant.                                           *)
LEMMA NextInv == Inv /\ [Next]_vars => Inv'
  <1> SUFFICES ASSUME Inv, [Next]_vars PROVE Inv'
    OBVIOUS
  <1>1. CASE UNCHANGED vars
    BY <1>1 DEF vars, Inv, TypeOK, Untold, DataDue, IntervalRead, IntervalApplied,
                ReloadDue, OptionUnsaved, StoredWasChecked, Asked
  <1>2. CASE Next
    BY <1>2, SetupInv, ReloadInv, PollRefusedInv, DialogInv, SavesInv,
       SavesOptionInv, ListenerRunsInv
       DEF Next
  <1> QED BY <1>1, <1>2

(* The invariant holds in every state an entry can be in.                  *)
LEMMA Invariance == Spec => []Inv
  BY InitInv, NextInv, PTL DEF Spec

(* The types, and a lock held just while a setup or unload is under way.   *)
THEOREM Typing == Spec => []TypeOK
  <1>1. Inv => TypeOK
    BY DEF Inv
  <1> QED BY <1>1, Invariance, PTL

(* A loaded entry runs on what it has stored, or a flow waits to reload.   *)
THEOREM RunsOnStoredAlways == Spec => []RunsOnStored
  <1>1. Inv => RunsOnStored
    BY DEF Inv, DataDue, RunsOnStored
  <1> QED BY <1>1, Invariance, PTL

(* What is stored was accepted by the server as one whole.                 *)
THEOREM StoredWasCheckedAlways == Spec => []StoredWasChecked
  <1>1. Inv => StoredWasChecked
    BY DEF Inv
  <1> QED BY <1>1, Invariance, PTL

(* The update listener reloads for options only, never for data.           *)
THEOREM ListenerIgnoresDataAlways == Spec => []ListenerIgnoresData
  <1>1. Inv => ListenerIgnoresData
    BY DEF Inv, OptionUnsaved, ListenerIgnoresData
  <1> QED BY <1>1, Invariance, PTL

(* A saved interval is applied or about to be, once the entry is loaded.   *)
THEOREM IntervalAppliedAlways == Spec => []IntervalApplied
  <1>1. Inv => IntervalApplied
    BY DEF Inv
  <1> QED BY <1>1, Invariance, PTL

(* A refusal asks the user, unless another flow of the entry is open.      *)
THEOREM RefusedIsAskedAlways == Spec => []RefusedIsAsked
  <1>1. Inv => RefusedIsAsked
    BY DEF Inv, Asked, RefusedIsAsked, TypeOK
  <1> QED BY <1>1, Invariance, PTL

----------------------------------------------------------------------------
(* What reauth has sent names the server that is stored, while no other    *)
(* flow saved.                                                             *)
SameServer ==
  stage[Reauth] = "validating" /\ ~overtaken => draft[Reauth].server = stored.server

(* Reauth reads the server when its form is sent; only a save changes it.  *)
LEMMA SameServerInv == TypeOK /\ SameServer /\ [Next]_vars => SameServer'
  <1> SUFFICES ASSUME TypeOK, SameServer, [Next]_vars PROVE SameServer'
    OBVIOUS
  <1>1. Reauth \in Agents /\ Reauth \in Flows /\ Reauth \notin Updates
        /\ Reauth \notin Reconfigurings
    BY Parties, AgentsAssumption
  <1>2. ASSUME stage'[Reauth] = "validating" => stage[Reauth] = "validating",
               UNCHANGED <<stored, draft, overtaken>>
        PROVE  SameServer'
    BY <1>2 DEF SameServer
  <1>3. ASSUME NEW refused \in BOOLEAN, SetupEnds(refused),
               UNCHANGED <<stored, draft, overtaken>>
        PROVE  SameServer'
    BY <1>1, <1>2, <1>3 DEF SetupEnds
  <1>4. CASE FirstRefreshRefused \/ FirstRefreshFails \/ PlatformsReady
    BY <1>3, <1>4 DEF FirstRefreshRefused, FirstRefreshFails, PlatformsReady, entryVars
  <1>5. CASE \/ FirstRefresh \/ Unloaded \/ ReloadSetsUp
             \/ \E w \in Agents \cup {Hass} : ReloadBegins(w)
             \/ UNCHANGED vars
    BY <1>2, <1>5 DEF FirstRefresh, Unloaded, ReloadSetsUp, ReloadBegins, entryVars, vars
  <1>6. CASE PollRefused
    BY <1>1, <1>2, <1>6 DEF PollRefused, entryVars, TypeOK
  <1>7. CASE \E f \in Reconfigurings : OpenOrClose(f)
    BY <1>1, <1>2, <1>7 DEF OpenOrClose, entryVars, TypeOK
  <1>8. ASSUME NEW f \in Flows, Submit(f) PROVE SameServer'
    <2>1. /\ f # Reauth => UNCHANGED <<stage[Reauth], draft[Reauth], overtaken>>
          /\ f = Reauth => draft'[Reauth].server = stored.server
          /\ stored' = stored
      BY <1>1, <1>8 DEF Submit, DraftOf, entryVars, TypeOK
    <2> QED BY <2>1 DEF SameServer
  <1>9. ASSUME NEW f \in Flows, ValidationFails(f) PROVE SameServer'
    BY <1>1, <1>2, <1>9 DEF ValidationFails, entryVars, TypeOK
  <1>10. ASSUME NEW f \in Flows, Saves(f) PROVE SameServer'
    BY <1>10 DEF Saves, SameServer
  <1>11. ASSUME NEW interval \in Intervals, SavesOption(interval) PROVE SameServer'
    BY <1>1, <1>2, <1>11 DEF SavesOption, Tells
  <1>12. ASSUME NEW k \in Updates, ListenerRuns(k) PROVE SameServer'
    BY <1>1, <1>2, <1>12 DEF ListenerRuns, entryVars, TypeOK
  <1> QED BY <1>4, <1>5, <1>6, <1>7, <1>8, <1>9, <1>10, <1>11, <1>12 DEF Next

(* Reauth renews the credentials and leaves the server, unless overtaken.  *)
THEOREM ReauthKeepsServerAlways == Spec => ReauthKeepsServer
  <1>1. Init => SameServer
    BY Parties DEF Init, SameServer
  <1>2. TypeOK /\ SameServer /\ [Next]_vars =>
          [Saves(Reauth) /\ ~overtaken => stored'.server = stored.server]_vars
    BY DEF SameServer, Saves
  <1> QED BY <1>1, <1>2, SameServerInv, Typing, PTL DEF Spec, ReauthKeepsServer

----------------------------------------------------------------------------
(* The options are saved while no setup of the entry is under way, as they *)
(* would be with the update listener added before the first refresh.       *)
SavedOutsideSetup ==
  \A interval \in Intervals :
    SavesOption(interval) => state \notin {"starting", "forwarding"}

(* What config_flow.py says of saving the options holds, whatever flows,   *)
(* retries and reloads overlap, of options saved outside a setup: the gap  *)
(* between building the coordinator and listening is all that breaks it.   *)
THEOREM OptionsReloadOutsideSetup ==
  Spec /\ [][SavedOutsideSetup]_vars => []OptionsReload
  <1> DEFINE Heard == missed = FALSE
  <1>1. Init => Heard
    BY DEF Init
  <1>2. Heard /\ [Next]_vars /\ [SavedOutsideSetup]_vars => Heard'
    <2> SUFFICES ASSUME Heard, [Next]_vars, [SavedOutsideSetup]_vars PROVE Heard'
      OBVIOUS
    <2>1. CASE FirstRefresh \/ FirstRefreshRefused \/ FirstRefreshFails
               \/ PlatformsReady \/ Unloaded \/ ReloadSetsUp \/ PollRefused
      BY <2>1 DEF FirstRefresh, FirstRefreshRefused, FirstRefreshFails,
                  PlatformsReady, Unloaded, ReloadSetsUp, PollRefused, SetupBegins
    <2>2. ASSUME NEW w \in Agents \cup {Hass}, ReloadBegins(w) PROVE Heard'
      BY <2>2 DEF ReloadBegins, SetupBegins
    <2>3. ASSUME NEW f \in Flows,
                 OpenOrClose(f) \/ Submit(f) \/ ValidationFails(f) \/ Saves(f)
          PROVE  Heard'
      BY <2>3 DEF OpenOrClose, Submit, ValidationFails, Saves, setupVars
    <2>4. ASSUME NEW interval \in Intervals, SavesOption(interval) PROVE Heard'
      BY <2>4 DEF SavesOption, SavedOutsideSetup, vars
    <2>5. ASSUME NEW k \in Updates, ListenerRuns(k) PROVE Heard'
      BY <2>5 DEF ListenerRuns, setupVars
    <2>6. CASE UNCHANGED vars
      BY <2>6 DEF vars
    <2> QED BY <2>1, <2>2, <2>3, <2>4, <2>5, <2>6 DEF Next, Flows
  <1>3. Heard /\ IntervalApplied => OptionsReload
    BY DEF IntervalApplied, OptionsReload
  <1> HIDE DEF Heard
  <1> QED BY <1>1, <1>2, <1>3, IntervalAppliedAlways, PTL DEF Spec
=============================================================================
