---------------------------- MODULE EntityRegistry ----------------------------
(***************************************************************************)
(* How the entities of a pool come to be, and how they hear of the polls.  *)
(*                                                                         *)
(* Each platform runs a pass over the payload when it is set up and again  *)
(* after every poll: its builder yields a key and a factory per item, and  *)
(* the keys not known yet are built and handed to Home Assistant, which    *)
(* adds them a little later (klereo_add_entities).  The passes and the     *)
(* entities are the coordinator's listeners, called in the order in which  *)
(* they were registered.  Nothing catches what one of them raises, so it   *)
(* ends the round, and the listeners after it hear nothing.                *)
(*                                                                         *)
(* What a platform builds is a parameter: Build(pl, p) is the [key, ok]s   *)
(* its builder goes through on payload p, by number and in that order, ok  *)
(* FALSE where the factory raises, and NoKey where the builder itself does.*)
(***************************************************************************)
EXTENDS Naturals, Sequences, FiniteSets

CONSTANTS
  Platforms,    \* PLATFORMS
  Payloads,     \* what GetPoolDetails may answer
  Build(_, _),
  NoKey

ASSUME BuildAssumption ==
  \A pl \in Platforms, p \in Payloads :
    /\ DOMAIN Build(pl, p) \subseteq Nat
    /\ \A i \in DOMAIN Build(pl, p) :
         /\ Build(pl, p)[i].ok \in BOOLEAN
         /\ Build(pl, p)[i].key = NoKey => ~Build(pl, p)[i].ok

VARIABLES
  data,         \* coordinator.data
  ok,           \* coordinator.last_update_success
  entry,        \* the config entry: none, setup, loaded
  platform,     \* off; up; or down, its setup having raised
  known,        \* `known`, per platform
  made,         \* how many entities this setup handed over, per key
  waiting,      \* handed over and not added yet
  passes,       \* the coordinator's listeners, in order: those that are passes
  after,        \* per entity added, how many passes listen ahead of it
  shown,        \* and the [data, ok] its state was written from
  broke,        \* a pass of the platform raised since its setup (auxiliary)
  cut           \* the last round of listeners was ended by one (auxiliary)

vars == <<data, ok, entry, platform, known, made, waiting, passes, after,
          shown, broke, cut>>

Keys ==
  (UNION {{Build(x[1], x[2])[i].key : i \in DOMAIN Build(x[1], x[2])} :
            x \in Platforms \X Payloads}) \ {NoKey}

----------------------------------------------------------------------------
(* Mutant: the pass returns at the first key it knows.                     *)
NewUntilKnown(b, k) ==
  {i \in DOMAIN b : /\ b[i].key \notin k \cup {NoKey}
                    /\ \A j \in DOMAIN b :
                         j < i => b[j].key \notin k \cup {b[i].key}}

(* The positions whose factory a pass calls, were nothing to raise: the    *)
(* first of each key that is not known.                                    *)
New(b, k) ==
  {i \in DOMAIN b : /\ b[i].key \notin k \cup {NoKey}
                    /\ \A j \in DOMAIN b : j < i => b[j].key # b[i].key}

Raising(b, k) ==
  {i \in DOMAIN b : ~b[i].ok /\ (b[i].key = NoKey \/ i \in New(b, k))}

(* Mutant: a key counts as known while its item is in the payload.         *)
LearnedFromPayload(b, k) == {b[i].key : i \in New(b, {})}

(* Mutant: everything the builder yielded is learned, its failure too.     *)
LearnedRegardless(b, k) == k \cup {b[i].key : i \in DOMAIN b}

(* The keys known after a pass: up to the one that raised, that one too.   *)
Learned(b, k) ==
  k \cup {b[i].key : i \in {n \in New(b, k) : \A r \in Raising(b, k) : n <= r}}

(* The entities of a pass are handed over together, at its end, so a pass  *)
(* that raises hands over none.                                            *)
Handed(b, k) == IF Raising(b, k) = {} THEN New(b, k) ELSE {}

Count(made0, b, k) ==
  [key \in Keys |->
     made0[key] + Cardinality({i \in Handed(b, k) : b[i].key = key})]

HandedKeys(b, k) == {b[i].key : i \in Handed(b, k)}

----------------------------------------------------------------------------
Nothing == [pl \in Platforms |-> {}]
NoneMade == [pl \in Platforms |-> [key \in Keys |-> 0]]

Init ==
  /\ data \in Payloads
  /\ ok = FALSE
  /\ entry = "none"
  /\ platform = [pl \in Platforms |-> "off"]
  /\ known = Nothing
  /\ made = NoneMade
  /\ waiting = Nothing
  /\ passes = <<>>
  /\ after = [e \in {} |-> 0]
  /\ shown = [e \in {} |-> data]
  /\ broke = [pl \in Platforms |-> FALSE]
  /\ cut = FALSE

(* async_setup_entry, once its first refresh has succeeded.                *)
EntrySetsUp ==
  /\ entry = "none"
  /\ entry' = "setup"
  /\ data' \in Payloads
  /\ ok' = TRUE
  /\ UNCHANGED <<platform, known, made, waiting, passes, after, shown,
                 broke, cut>>

(* Mutant: a platform whose first pass brings nothing does not listen.     *)
PlatformListensIfAny(pl) ==
  LET b == Build(pl, data)
      raises == Raising(b, {}) # {}
  IN
  /\ entry = "setup"
  /\ platform[pl] = "off"
  /\ platform' = [platform EXCEPT ![pl] = IF raises THEN "down" ELSE "up"]
  /\ known' = [known EXCEPT ![pl] = IF raises THEN {} ELSE Learned(b, {})]
  /\ made' = [made EXCEPT ![pl] = Count(@, b, {})]
  /\ waiting' = [waiting EXCEPT ![pl] = HandedKeys(b, {})]
  /\ passes' = IF Handed(b, {}) = {} THEN passes ELSE Append(passes, pl)
  /\ broke' = [broke EXCEPT ![pl] = raises]
  /\ UNCHANGED <<data, ok, entry, after, shown, cut>>

(* The platform's async_setup_entry: a first pass, then it listens.  If    *)
(* the pass raises, Home Assistant logs it and does without the platform.  *)
PlatformSetsUp(pl) ==
  LET b == Build(pl, data)
      raises == Raising(b, {}) # {}
  IN
  /\ entry = "setup"
  /\ platform[pl] = "off"
  /\ platform' = [platform EXCEPT ![pl] = IF raises THEN "down" ELSE "up"]
  /\ known' = [known EXCEPT ![pl] = IF raises THEN {} ELSE Learned(b, {})]
  /\ made' = [made EXCEPT ![pl] = Count(@, b, {})]
  /\ waiting' = [waiting EXCEPT ![pl] = HandedKeys(b, {})]
  /\ passes' = IF raises THEN passes ELSE Append(passes, pl)
  /\ broke' = [broke EXCEPT ![pl] = raises]
  /\ UNCHANGED <<data, ok, entry, after, shown, cut>>

(* The setup of a platform ends when what it handed over has been added.   *)
EntryLoaded ==
  /\ entry = "setup"
  /\ \A pl \in Platforms : platform[pl] # "off" /\ waiting[pl] = {}
  /\ entry' = "loaded"
  /\ UNCHANGED <<data, ok, platform, known, made, waiting, passes, after,
                 shown, broke, cut>>

(* Home Assistant adds what it was handed: the entities write their first  *)
(* state and listen (CoordinatorEntity.async_added_to_hass).               *)
EntitiesAdded(pl) ==
  LET batch == {<<pl, key>> : key \in waiting[pl]} IN
  /\ batch # {}
  /\ waiting' = [waiting EXCEPT ![pl] = {}]
  /\ after' = [e \in DOMAIN after \cup batch |->
                 IF e \in batch THEN Len(passes) ELSE after[e]]
  /\ shown' = [e \in DOMAIN shown \cup batch |->
                 IF e \in batch THEN [data |-> data, ok |-> ok] ELSE shown[e]]
  /\ UNCHANGED <<data, ok, entry, platform, known, made, passes, broke, cut>>

----------------------------------------------------------------------------
(* A round of listeners, on what a poll brought.  Each platform listens    *)
(* once and looks at its own keys alone, so who raises can be told at the  *)
(* start of the round.                                                     *)
PassRaises(pl, p) == Raising(Build(pl, p), known[pl]) # {}

Ends(p) == {i \in DOMAIN passes : PassRaises(passes[i], p)}

PassRuns(pl, p) ==
  \E i \in DOMAIN passes : passes[i] = pl /\ \A end \in Ends(p) : i <= end

Told(e, p) == \A end \in Ends(p) : after[e] < end

Round(p, success) ==
  /\ known' = [pl \in Platforms |->
                 IF PassRuns(pl, p) THEN Learned(Build(pl, p), known[pl])
                 ELSE known[pl]]
  /\ made' = [pl \in Platforms |->
                IF PassRuns(pl, p) THEN Count(made[pl], Build(pl, p), known[pl])
                ELSE made[pl]]
  /\ waiting' = [pl \in Platforms |->
                   IF PassRuns(pl, p)
                   THEN waiting[pl] \cup HandedKeys(Build(pl, p), known[pl])
                   ELSE waiting[pl]]
  /\ shown' = [e \in DOMAIN shown |->
                 IF Told(e, p) THEN [data |-> p, ok |-> success] ELSE shown[e]]
  /\ broke' = [pl \in Platforms |->
                 broke[pl] \/ (PassRuns(pl, p) /\ PassRaises(pl, p))]
  /\ cut' = (Ends(p) # {})
  /\ UNCHANGED after

(* The coordinator polls while it has listeners: the first time long after *)
(* the setup (MIN_SCAN_INTERVAL), and any time after a round trip to the   *)
(* server, which Home Assistant needs none of to add what it was handed.   *)
(* It finds the equipment as it is by then: wired, unwired, configured.    *)
PollSucceeds ==
  /\ entry = "loaded" /\ waiting = Nothing
  /\ passes # <<>>
  /\ data' \in Payloads
  /\ ok' = TRUE
  /\ Round(data', TRUE)
  /\ UNCHANGED <<entry, platform, passes>>

(* Mutant: nobody is told of a poll that failed.                           *)
PollFailsQuietly ==
  /\ entry = "loaded" /\ waiting = Nothing
  /\ passes # <<>>
  /\ ok' = FALSE
  /\ UNCHANGED <<data, entry, platform, known, made, waiting,
                 passes, after, shown, broke, cut>>

(* UpdateFailed: data stays, and of a series only the first is told.       *)
PollFails ==
  /\ entry = "loaded" /\ waiting = Nothing
  /\ passes # <<>>
  /\ ok' = FALSE
  /\ IF ok THEN Round(data, FALSE)
     ELSE UNCHANGED <<known, made, waiting, after, shown, broke, cut>>
  /\ UNCHANGED <<data, entry, platform, passes>>

(* async_unload_entry, or the first half of a reload: the platforms' keys, *)
(* passes and entities go.                                                 *)
EntryUnloads ==
  /\ entry = "loaded"
  /\ entry' = "none"
  /\ platform' = [pl \in Platforms |-> "off"]
  /\ known' = Nothing
  /\ made' = NoneMade
  /\ waiting' = Nothing
  /\ passes' = <<>>
  /\ after' = [e \in {} |-> 0]
  /\ shown' = [e \in {} |-> data]
  /\ broke' = [pl \in Platforms |-> FALSE]
  /\ cut' = FALSE
  /\ ok' = FALSE
  /\ UNCHANGED data

Next ==
  \/ EntrySetsUp \/ EntryLoaded
  \/ \E pl \in Platforms : PlatformSetsUp(pl) \/ EntitiesAdded(pl)
  \/ PollSucceeds \/ PollFails \/ EntryUnloads

Spec == Init /\ [][Next]_vars

(* Home Assistant finishes a setup it began and adds what it was handed.   *)
FairSpec ==
  /\ Spec
  /\ WF_vars(EntryLoaded)
  /\ \A pl \in Platforms : WF_vars(PlatformSetsUp(pl)) /\ WF_vars(EntitiesAdded(pl))

----------------------------------------------------------------------------
States == [data : Payloads, ok : BOOLEAN]

TypeOK ==
  /\ data \in Payloads
  /\ ok \in BOOLEAN
  /\ entry \in {"none", "setup", "loaded"}
  /\ platform \in [Platforms -> {"off", "up", "down"}]
  /\ known \in [Platforms -> SUBSET Keys]
  /\ made \in [Platforms -> [Keys -> Nat]]
  /\ waiting \in [Platforms -> SUBSET Keys]
  /\ passes \in Seq(Platforms)
  /\ DOMAIN shown \subseteq Platforms \X Keys
  /\ shown \in [DOMAIN shown -> States]
  /\ after \in [DOMAIN shown -> Nat]
  /\ broke \in [Platforms -> BOOLEAN]
  /\ cut \in BOOLEAN

(* However often an item comes and goes, twice in one payload or once in   *)
(* many, a setup creates one entity for it: a second would be refused by   *)
(* Home Assistant for its unique_id, at every poll.                        *)
NoEntityTwice ==
  \A pl \in Platforms, key \in Keys : made[pl][key] <= 1

(* A platform that has seen no pass raise has an entity, added or on its   *)
(* way, for every item of the payload, those wired since its setup too.    *)
(* Unless the round ended before its turn.                                 *)
ItemsHaveEntities ==
  \A pl \in Platforms :
    platform[pl] = "up" /\ ~broke[pl] /\ ~cut =>
      \A i \in DOMAIN Build(pl, data) :
        Build(pl, data)[i].key \in {key \in Keys : <<pl, key>> \in DOMAIN shown}
                                     \cup waiting[pl]

(* Every entity shows the last payload, and shows as available only when   *)
(* the last poll succeeded: added late or early, in an outage or after it. *)
(* Unless the last round ended before its turn.                            *)
EntitiesCurrent ==
  ~cut => \A e \in DOMAIN shown : shown[e] = [data |-> data, ok |-> ok]

Harmless(p) ==
  \A pl \in Platforms : \A i \in DOMAIN Build(pl, p) : Build(pl, p)[i].ok

(* "Gets its entity at the next poll instead of waiting for a reload":     *)
(* once what the polls bring stays a payload nothing chokes on, and the    *)
(* entry stays loaded, each platform that is up and lost nothing comes to  *)
(* show all of it, whatever it was handed or missed before.  The poll that *)
(* brought it is enough: those that come after it may succeed or fail.     *)
NewItemsAppear ==
  \A p \in {q \in Payloads : Harmless(q)} :
    <>[](data = p /\ entry = "loaded") =>
    <>[](\A pl \in Platforms :
           platform[pl] = "up" /\ ~broke[pl] =>
             \A i \in DOMAIN Build(pl, p) :
               LET e == <<pl, Build(pl, p)[i].key>> IN
                 e \in DOMAIN shown /\ shown[e].data = p)
=============================================================================
