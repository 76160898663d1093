# A TLA+ verification of the Klereo integration

`KlereoHACS` is a Home Assistant integration: it polls a swimming pool's
controller (the *pod*) through the Klereo Connect cloud and shows its probes,
outs, filtration speed and modes as entities, some of which write.  This
directory holds a model of the parts where several things happen at once or in
an unfortunate order, the TLC runs that check it on small instances, and TLAPS
proofs that do so for every value of the constants.  Paths are relative to
`src/custom_components/klereo/`; `README` alone means `src/README.md`.

## The system

| Part | State it keeps | Operations | Talks to |
|---|---|---|---|
| API client, `klereo_api.py` | `jwt` | `_post` (renews the token once), `get_jwt`, `get_pool`, `set_out`, `set_param`, `command_status`, `list_pools` | server, over `requests`, one executor thread per call |
| Coordinator, `coordinator.py` | `data`, `last_update_success`, `update_interval` | poll; refreshes asked for by the entities | API client; calls every entity's `_handle_coordinator_update` |
| Writes, `entity.py` `KlereoCommandMixin` | per entity: the optimistic value and `_confirm_task` | `_send`, `_follow_command`, `_cancel_confirmation`, `_confirm_command`, removal | API client, coordinator, the event bus, the entry's background tasks |
| Out rules, `const.py`, `entity.py` | none | which states a mode of an out takes (`klereo_out_mode_states`), which account may write (`klereo_out_refusal`) | the three controls |
| Switch, `switch.py` | `_last_speed`, restored from the `LastSpeed` attribute | turn on, turn off, learn the speed | rules, writes, payload |
| Mode select, `select.py` | options of the present equipment | select a mode (`_state_for`) | rules, writes, payload |
| Speed and setpoint, `number.py` | range of the present equipment | set a value | rules, writes, payload |
| Sensors, `sensor.py` | none | read the payload; dosed volumes | payload |
| Entity registration, `klereo_add_entities` and each platform's `async_setup_entry` | `known` keys, per platform and setup | a pass at setup and one after every poll | coordinator's listeners, Home Assistant's entity platforms |
| Entry lifecycle, `__init__.py` | entry version, `runtime_data`, update listener | migrate, set up, unload, reload on new options | everything above |
| Flows, `config_flow.py` | the form's answers | user, pool, manual, reauth, reconfigure, options | a private API client; the entry's data and options |
| Diagnostics, `diagnostics.py` | none | mask a payload | - |

What is outside and modelled only from how the code uses it: the Klereo server
(tokens, a first-in first-out queue of commands with a `CommandStatus` row each),
the pod that fetches them one by one, and Home Assistant's own machinery.

Where it is hard, and what must hold there:

* **The client is shared without a lock.**  Coordinator polls, writes and
  `CommandStatus` requests run in executor threads and all read and write
  `self.jwt`, between which the server may forget any token.  A call must cost a
  bounded number of requests, must not carry a write out twice, must end, and
  must ask the user for a password only when the server refused something.
* **A write is queued, not applied.**  Its reply, the pod's verdict, polls that
  read the pod before or after it, a second write and the removal of the entity
  come in any order.  The entity must not be left showing a value nobody
  confirms, one confirmation must not conclude about another's value, and the
  failure event must mean a refusal.
* **The same number means different things.**  State 2 is "keep", speed 2 or
  nothing, according to the out, its mode and the equipment; each control
  completes what the user asked for from a payload that may be old.
* **State must survive.**  The filtration's last speed outlives a stopped pump
  and a restart only through an attribute of a published state.
* **Setups, flows and options interleave** around awaits and reloads.  An entry
  must end up running on what it has stored, what is stored must be one whole
  the server accepted, and a refusal must reach the user.
* **A payload brings equipment** that was not there at setup, or something a
  builder raises on.  Every item must get one entity, the polls must reach all
  of them, and a volume must be what was dosed, whatever treatment the payload is of.
* **Dialogs overlap** with each other and with entries of earlier releases.  A
  pool must end up with one entry, and no entry may be replaced by another.

`PROJECT.json` lists every hazard at its line with the properties about it.

## Modules

```
ApiCalls  <~  KlereoAPI <- KlereoAPIProofs    TrackedWrites  <~  Commands <- CommandsProofs
                  ^                                 ^               ^              |
             MCKlereoAPI                    TrackedWritesProofs  MCCommands        |
                                                    ^-----------------------------'

OutRules <- OutControl <- OutControlProofs    EntryLifecycle <- EntryLifecycleProofs
   ^            ^                                   ^
   |       MCOutControl                       MCEntryLifecycle
   |
Equipment <- PoolEntities <- PoolEntitiesProofs     UserFlow <- UserFlowProofs
              |     ^               |                  ^
              v  MCPoolEntities     v              MCUserFlow
       EntityRegistry <- EntityRegistryProofs
```

`A <- B` is "B extends A", `A <~ B` "B implements A under a refinement mapping".

The models are of one system and meet at narrow interfaces.  `ApiCalls` is what
the rest may count on of a call of the API: carried out once or not at all,
answered only if carried out, `KlereoAuthError` only if not.  `KlereoAPI` implements it;
`Commands` builds on just that, with a call that ends, with a reply or without, after
the server did or did not queue the command.  `OutControl` decides what a write
holds and abstracts how it is shown and followed; `Commands` follows writes and
abstracts what they hold (a call stands for the value it writes).
`EntryLifecycle` reduces a poll to whether it is refused, and says for how long
the coordinator, and with it one API object, of the other models lives;
`EntityRegistry` is what happens inside one such life to the entities.
`PoolEntities` composes it with `Equipment`, which uses the mode tables of
`OutRules` to tell which controls an out gets.  `UserFlow` is how entries come
to be, `EntryLifecycle` what happens to one afterwards.

In each component a definition stands for the function of the same or a
similar name; `PROJECT.json` "map" gives the lines.  Definitions introduced as
"Mutant" are plausible bugs: each property of a passing run fails when the
definition next to it is replaced by its mutant.

### KlereoAPI: the authenticated call

One variable `jwt` for the object; per thread, `pc` is the place between two
shared accesses of `_post`/`get_jwt`: `check` (`if not self.jwt`), `login` (the
GetJWT exchange), `assign` (`self.jwt = jwt`), `header` (reading it to send),
`posted` (waiting), `refused` (about to drop the token and retry).  `token` is
what the header carries, `retryAuth` the argument of the recursive call.
`live`/`issued` are the server's; `Lapse` forgets a token at any time.  A refusal
may hit a live token too: `AUTH_HINTS` are words that other errors contain.
`posts`, `logins`, `carriedOut`, `refused`, `rejected` and `overlapped` are
ghosts, reset by each call.

`ApiCalls` keeps a stage and a count per call.  The mapping: `pc` gives the
stage (`StageOf`), and `carriedOut` the count.  `Promised!Spec` is then the
property `ServesCalls`: the replay of `_post`, for instance, must be a step that the
caller cannot see.

### Commands: writes and their confirmation

`call` is the service call (idle, sending, accepted by the server, returned or
raised); `status` and `queue` the server's; `pod` and `data` the truth and the
payload; `refresh`/`snapshot` split a poll into begin, read, and the moment it
reaches the event loop; `optimistic` and `handle` are the entity's optimistic
value and `_confirm_task`; `task`/`polls` the confirmation of a call and how many of
`COMMAND_POLL_DELAYS` it used.  One action is what runs between two awaits:
`ReplyArrives` is the rest of the service call from the reply to the end,
`Conclude` the end of `_confirm_command` including the event, the clearing and the
refresh it asks for.  Removal of an entity, unloading the platforms and the
cancellation of the entry's background tasks are separate, because Home
Assistant awaits between them.

A refresh asked for in a confirmation runs there and then, inside the task that
asked, unless the debouncer is in its cooldown (`RequestWaits`) or a refresh holds
its lock, in which case the request is dropped (`RequestDropped`).  `runner` is the call
whose task a refresh runs in.  After an ordinary end that task is no longer the
entity's `_confirm_task` (line 395); a confirmation without a cmdID still is while it
awaits its refresh (`refreshing`; `blind` when it is over), so the next write or a removal
cancels it, and the refresh with it (`RefreshGoesWith`).  The lock stays held until
the event loop has unwound the cancelled refresh (`RefreshUnwinds`), and requests
made until then are dropped too.  `lost` says that a refresh was cancelled and none
has begun since; `ReadingDue` and `OptimisticGives` except just that.

`TrackedWrites` knows of a write only whether it is sent, followed, blind (accepted
without a command to follow), concluded or dropped, what its command's fate is, what the
entity shows and whose refusal was told.  Under the mapping at the end of
`Commands` the queue, the handle, the sleeps, the status requests and the refreshes
disappear; a status answer that is not the last, a refresh begun or a delay
used up is a stutter.  `KeepsPromise` says that each step of the code is one of the
promise or none.  `TrackedWritesProofs` says what follows from the promise alone.

### OutRules and OutControl: what a control writes

`OutRules` has the tables of `const.py` as functions from modes to rules (permitted
states, keep state, speed flag), chosen by the equipment record as
`klereo_out_mode_states` does, and what each control decides: a set with the one
write it sends, or empty when it raises or is unavailable.  `OutControl` lets the
three controls of one out run against a queue, a pod that others change too
(`Others`), polls that succeed and fail, and restarts.  `lastSpeed` is
`_last_speed`; `saved` is what Home Assistant kept of it while the entity does
not exist.  Ghosts: `seen`, the last speed a payload showed; `forgotten`, a stop
made while the entity was unavailable; in each queued write, who sent it and
whether the reading it was completed from is still true (`fresh`).

### EntryLifecycle: setups, flows and options

`state` is where setup is between its awaits: `starting` (the first refresh),
`forwarding` (the platforms; `runtime_data` is set), `loaded` (the update listener
is there), `unloading`, `unloaded`, or how a setup failed.  `lock` is who
holds the entry's setup lock.  `stored` and `option` are `entry.data` (without the
pool, which no flow here changes) and the interval of `entry.options`; `running`
is what the coordinator of this setup was built from.  `stage` is where each
flow is (`closed`, `form`, `validating`, `waiting` for its reload) and, for the
listener task of each update, `scheduled` or `waiting`; a `waiting` holder of the lock
is inside its reload.  `draft` is the data a flow merged before its await.  A
reauth flow stays open until somebody completes it, a reconfigure dialog can be
given up.  Ghosts: `checked`, `missed`, `optionSaved`, `overtaken`, `swallowed`, each for
the property that names it.

### EntityRegistry, Equipment and PoolEntities: who gets an entity

A platform is `off`, `up`, or `down` when its first pass raised.  `known` is the
closure's set; `made` counts what was handed over per key, `waiting` is what Home
Assistant has still to add, and `passes` and `after` are the coordinator's listeners in
their order: the passes, and for each entity how many of them come before it.
A pass builds in order, learns each key before its factory runs, and hands
everything over at its end; `Round` is `async_update_listeners`, which an exception
ends, so that `shown`, what each entity last wrote, may stay behind (`cut`).
`Build` is a parameter: any sequence of keys and of places where the builder or
a factory raises.

`Equipment` is the builders of the four platforms over payloads: probes and outs by
index, duplicates and items without an index (skipped) or that are no dict
(`Junk`: skipped by `klereo_items`, raised on by `_seconds_out`), the rows of
`INFO_SENSORS` with each row's getter, the setpoint, the filtration's speed.  `Volume`
is the arithmetic of `_params_ml`, in integers: a running time (seconds) times a
flow (tenths of a litre per hour) over 36, rounded half to even.  Names of items
matter only where making them raises (`badNames`).  What a builder skips leaves its
place empty instead of being filtered out (`Having`): `SelectSeq` is recursive, and the
prover knows nothing of what it returns.  `PoolEntities` states that `Build` is
these builders (`BuildersAssumption`), which TLC evaluates on the payloads of the runs.

### UserFlow: adding a pool

`entries` are the integration's entries, in `Slots`; `flow` is per dialog the step it
is at, what it knows and the unique_id it holds.  `Checking` is the await of
`_validate`; everything else runs between two awaits.  An entry begins as some
earlier release left it, without a unique_id or with one, with the password or its
hash, or of a version to come; `SetsUp` is migration and the unique_id's backfill, when
Home Assistant sets an entry up, which for a disabled one may be much later.
Ghosts: `legacy`, `late` (another entry had the unique_id it was given) and
`labelled` (an entry was given this flow's unique_id during its validation).

## Assumptions about what is external

* Tokens may lapse, refusals are not carried out, and a lost reply may or may
  not have been carried out.
* The pod applies or refuses commands in queue order, once each, and may never
  answer.  The keep state of a mode leaves the output alone; any other state
  drives it, as `OUT_STATE_KEEP`'s comment describes.
* Home Assistant runs one refresh of a coordinator at a time.  Its debouncer
  runs a requested one at once in the task that asked, by its timer when the last
  one ended a short time ago, and drops a request while a refresh is under way;
  cancelling the task cancels the refresh and lets nobody hear of it.  It tells listeners of every success and of the first failure of
  a series, runs no service on an unavailable entity, and writes no state
  attributes for one.  Platforms unload before the entry's background tasks
  are cancelled, and `runtime_data` is set only after a successful refresh.
* Home Assistant serialises the setups and reloads of an entry; listeners hear of
  an update only if it changed something; a reauth flow is not opened while a
  reauth or reconfigure flow of the entry is in progress, and a flow still is
  during the reload it awaits.  An unload of the platforms does not fail.
* Adding entities that were handed over needs no round trip to the server, so it
  ends before the next poll does.  A listener that raises ends the round, as
  nothing in `async_update_listeners` catches it; a platform whose setup raises is
  left out.  Entities that are disabled at first count as added.
* `async_set_unique_id` aborts a flow when another open one has the unique_id; the end of a
  flow replaces the entry with the same unique_id; a flow given up during its
  validation creates nothing; a duplicate unique_id given to an existing entry is
  only reported.  Earlier releases added each pool once at most.
* After `ConfigEntryAuthFailed` scheduled polls may stop; in `Commands` this is a
  scheduled poll that never comes.

## Runs

| Run | Instance | Shows |
|---|---|---|
| `jwt_shared` | 2 threads, 1 call each | type; `RenewsOnce`, `CarriedOutOnce`, `ReauthIsEarnedAlone`; the refinement `ServesCalls`; `CallsEnd` under fairness |
| `commands` | 1 entity, 2 writes, 2 delays | type; `OneConfirmation`, `VerdictIsOwn`, `AccountedFor`, `ReadingDue`, `EventsAreRefusals`; the refinement `KeepsPromise`; `ConfirmationEnds`, `OptimisticGives`, `SettlesOnPod` under fairness |
| `out_controls` | one out of each rule family, pumps of 0 to 3 speeds, accounts on each side of each gate, 1 write waiting | type; `WritesPermitted`, `AccessKept`, `ModeChangeKeepsOutput`, `CommandLands`, `SwitchKeepsMode`, `ResumesSeenSpeed` |
| `entry_lifecycle` | 2 credentials, 2 servers, 2 intervals, 1 reconfigure dialog at a time, 3 updates | type; `RunsOnStored`, `StoredWasChecked`, `ListenerIgnoresData`, `IntervalApplied`, `RefusedIsAsked`, `ReauthKeepsServer` |
| `registry` | the 4 platforms, 5 payloads of a pool | type; `NoEntityTwice`, `ItemsHaveEntities`, `EntitiesCurrent`, `VolumeIsDosed`; `NewItemsAppear` under fairness |
| `user_flow` | 3 dialogs, 2 pools, 3 entries | type; `OneEntryPerPool`, `NamedAfterItsPool`, `NothingReplaced` |
| `jwt_race` | 2 threads, 1 call each | **violated**: `ReauthIsEarned` |
| `cmd_unload` | 1 entity, 2 writes | **violated**: `NoTaskOutlivesEntry` |
| `out_pending` | a pump with 2 speeds, nobody else writing, 2 writes waiting | **violated**: `PendingWriteSurvives` |
| `out_outage` | a pump with 2 speeds, 1 write waiting | **violated**: `RemembersAcrossRestarts` |
| `entry_options` | as `entry_lifecycle` | **violated**: `OptionsReload` |
| `registry_lost` | sensors and switches, 3 payloads | **violated**: `EquipmentAppears` |

Why the bounds are enough.  Two threads already give every pairwise order of the
shared accesses to `jwt`, and one call of each covers both tries of `_post`; the
other thread's call is the earlier or later call of the first.  Two writes on one
entity meet in every way (the second before the reply, during the wait, after
the verdict); two delays distinguish a first, a last and no further
`CommandStatus`.  `MaxPolls` stands for the length of `COMMAND_POLL_DELAYS`.
In `OutControl`, properties speak of one write at a time, and the proofs lift the
bound; two waiting writes matter only for `PendingWriteSurvives`.  Pumps with 0 to
3 speeds make 2 a refused, a top and an inner speed.  In `EntryLifecycle` three updates
(`MaxSaves`) let each of reauth, reconfigure and options save once in any order, or
one of them twice around another; credentials and servers are symmetric, two of
each tell stale from current.  The payloads of
`registry` are the pool as at first with a cell, the same with a brominator (which
counts and has a flow, but is no pump), with more of everything under chlorine,
the same with an item a getter raises on, and with a name that raises; any of
them may follow any other, so items come, go and come back.  Three
dialogs and two pools let two dialogs want one pool while a third holds the
other; three entries are one more than pools.  The safety properties are proved for every value of these constants.
`CHECK_DEADLOCK FALSE` where the system may stop: threads when their calls are made,
calls when all are written, an unloaded entry, updates bounded by `MaxSaves`; and
in `OutControl` a state that repeats is no deadlock either.  `registry`,
`registry_lost` and `user_flow` check deadlock: a pool can always be polled or unloaded,
a dialog opened or given up.

Fairness.  `KlereoAPI`: weak fairness of each thread's steps, because `HTTP_TIMEOUT`
bounds both exchanges and executor threads are not starved; not of `Call` or
`Lapse`.  `Commands`: a confirmation's steps (an `asyncio.sleep` ends, its request
ends), a requested refresh is begun, a poll under way ends in some way, its
result reaches the loop, and so does its cancellation.  No fairness of the pod, of service calls, of replies
or of scheduled polls.  `EntityRegistry`: Home Assistant finishes a setup it began and
adds what it was handed; nothing makes a poll come, and `NewItemsAppear` needs none
after the one that brought the payload.  One property assumes more, in its own
statement: `SettlesOnPod`, that scheduled polls come and that not every poll fails.

### What disagrees with the documentation

Each violated property states a sentence of the documentation or a comment;
`PROJECT.json` "findings" quotes it.  For each, a theorem names what has to be
granted for the sentence to hold, for every value of the constants: the
counterexample is then not one symptom of many, but all that is wrong.

| Finding | What is granted | Theorem |
|---|---|---|
| `ReauthIsEarned` | no call begins while another is under way (`CallsExclude`) | `ReauthIsEarnedUnderLock` |
| `NoTaskOutlivesEntry` | the unload waits for the writes at the server (`UnloadWaits`) | `NoTaskOutlivesAWaitingUnload` |
| `PendingWriteSurvives` | controls are used in turn, on a payload that shows the last write (`InTurn`) | `PendingWritesSurviveInTurn` |
| `RemembersAcrossRestarts` | nothing stops while the pool cannot be reached (`StopsReachable`) | `RemembersReachableRestarts` |
| `OptionsReload` | options are saved outside setups (`SavedOutsideSetup`) | `OptionsReloadOutsideSetup` |
| `EquipmentAppears` | no pass of a platform has raised since the setup | `EquipmentAppearsUnlessBroken` |

What is granted is a condition on behaviours, `[][...]_vars` beside `Spec`, that many of
them meet (and in the last row a condition on the state); none is an assumption
about the code, which does not see to it.

1. `jwt_race`: thread A is refused and renews; thread B, refused too, executes
   `self.jwt = None` after A's login and before A's header.  A posts
   `Bearer None`, is refused on its second try, and `KlereoAuthError` sends the entry
   to reauth though nothing is wrong with the account.  `ReauthIsEarnedAlone` is
   the part that holds: a call that overlapped no other never does this.
2. `cmd_unload`: a reply that reaches the loop after the entry cancelled its
   background tasks creates a new one on the unloaded entry.
3. `out_pending`: a control completes its pair from the last payload, not from
   what another control has just written: off followed by *Manuel* before a poll
   sends the old speed and starts the pump again; a selected mode followed by the
   switch is undone.
4. `out_outage`: a restart during an outage loses the filtration's speed, since an
   unavailable entity's stored state has no attributes.
5. `entry_options`: an interval saved after the coordinator was built and before
   the update listener is added is told to nobody; the entry keeps the old one
   until it is next reloaded.  `IntervalApplied` is the part that holds.
6. `registry_lost`: a poll brings a new probe together with an item in `outs` that is no
   dict.  The sensor pass learns the probe's key (`entity.py:98`), then `_seconds_out` raises
   on the item (`sensor.py:72`), and nothing is handed over.  Later payloads are in
   order, but the key is known: the probe has no sensor until a reload.
   `ItemsHaveEntities` and `NewItemsAppear` are the parts that hold.

Others were seen while modelling and have no run of their own:

* A write answered without a cmdID can be left shown with no reading to come.  Its
  confirmation awaits the refresh (`entity.py:365`) and stays in `_confirm_task`; the next
  write on the entity cancels both (`entity.py:331`), and if that one has no cmdID
  either, its own request is dropped, since the cancelled refresh still holds the
  lock.  Its value then stays until the next scheduled poll, although
  `klereo_api.py:268-269` says that "the command was accepted either way, and only the
  confirmation is lost".  A removal in that place takes away a reading that another
  entity waits for.  This is the exception `lost` in `ReadingDue` and `OptimisticGives`;
  TLC finds it when the exception is left out, and where every reply names its
  command nothing is lost (`NamedCommandsKeepReadings`).
* Any poll drops every optimistic value, also one that read the pod before the
  command landed, so a control may show the old value until the confirmation's
  refresh.  `number.py:192-194` documents it; `README:126-127` says the value is held.
* What supersedes a confirmation is the write whose *reply* comes last, not the
  later service call (`entity.py:327-328`).
* A disabled legacy entry leads to two entries of its pool when the pool is added
  again, and a legacy entry that is set up during a dialog's validation is
  replaced by the dialog's (`legacy`, `late` and `labelled` in the properties of `UserFlow`).
* A change of a pump's flow setting revalues the whole counter: the volume is
  running time at *today's* flow.
* The comment at `const.py:641-644` has two volume sensors where `sensor.py:206-209` makes
  four, and the docstring at `number.py:184-185` says of the setpoint that it "refuses to
  be set for now".

And three with longer stories.  A reauth flow that validates while a reconfigure flow saves another server then saves the old server
again, since each merges over the `entry.data` it read (`ReauthKeepsServer` excepts
it; `StoredWasChecked` holds all the same).  When the credentials are refused while
a reconfigure dialog is open, or during the reload that ends a flow, Home Assistant
opens no reauth and polls have stopped, so the user is not asked until the entry
is next reloaded (`swallowed` in `RefusedIsAsked`).  And on a pool with `PumpMaxSpeed` 0,
which `const.py:198` calls no speed control, *Manuel* of the filtration permits
state 0 only.  Selecting it stops a running pump and the switch cannot start it
there, where the README excepts only the dosing pumps, the disinfectant and the
heating.  `ModeChangeKeepsOutput` therefore excepts every mode that only stops.

## Proofs

All theorems are checked by TLAPS with nothing taken on trust, for any
constants that satisfy the `ASSUME`s.  Each rests on an inductive invariant
that TLC confirmed on the runs' instances first.

* `KlereoAPIProofs`: `Typing`, `RenewsOnceAlways`, `CarriedOutOnceAlways`,
  `ReauthIsEarnedAloneAlways`.  `RenewsOnce` is not inductive: a call's counts
  must be tied to where it is and which try it is on (`Budget`), and
  `CarriedOutOnce` needs that a call still under way was not carried out
  (`NotYet`).  For `ReauthIsEarnedAlone`, two calls that have overlapped nothing
  cannot both be under way (`Apart`), so a lone call's second token is newer than
  all it was refused with (`OwnToken`).  `CallsServed` is the refinement: each step of a
  thread is a step of `ApiCalls` or a stutter (`StepServesCalls`), by `NotYet`.
  `ReauthIsEarnedUnderLock`: where calls exclude each other no call is ever `overlapped`,
  and `ReauthIsEarnedAlone` applies to all.  `CallsComeNearer` counts what is left of a
  call (`StepsLeft`: the places up to the answer, and six more for the second try) and
  shows that its own steps lower it and nobody else's raise it.
* `CommandsProofs`: `Typing`, `OneConfirmationAlways`, `VerdictIsOwnAlways`,
  `AccountedForAlways`, `EventsAreRefusalsAlways`, from one invariant with what the
  properties leave out: the queue holds pending commands once each
  (`QueueIsPending`), how far a call, its command and its task can be from each other
  (`CallHistory`), an answer read from the server stays true (`VerdictsStand`), a
  sleeping task has a delay left (`DelaysLeft`), entities show and follow only
  their own calls and none remains after the platforms unload (`Ownership`).
  One lemma per action.  `PromiseKept` is the refinement: `StepKeepsPromise` maps each
  action to an action of `TrackedWrites` or to a stutter.  `ReadingAlwaysDue` adds
  `ReadingDue` to the invariant, with `LossIsSeen`: the steps that end a confirmation or
  start a blind one leave a reading to come (`AskingBrings`, `StartingBrings`), those that
  end a refresh wipe the value or leave the entity unavailable, and those that
  cancel one count it as lost (`LosingIsSeen`).  `NamedCommandsKeepReadings` has no such
  exception, of behaviours in which no confirmation runs a refresh blind: a refresh
  then runs only in a confirmation that has concluded, which no entity holds any
  more (`RunnerStands`).  `ConfirmationsRunDown` counts what is left of a confirmation (`Left`:
  a sleep, a question and an answer per delay), which nothing raises; a blind one ends
  in one step.  `NoTaskOutlivesAWaitingUnload`: once the platforms have unloaded, no reply is left
  to come.
* `TrackedWritesProofs`: `PromiseTells`, what the promise implies by itself: one write
  followed per entity, a refusal behind each report, a pod that applied what still shows
  after its conclusion.  `OverIsLanded` (`CommandsProofs`) brings the last back to the
  code through the refinement, also for entities that `AccountedFor` leaves out.
* `OutControlProofs`: every property of `out_controls`.  `EveryShape` and `RuleFacts`
  reduce all tables to four facts the controls rely on; then the invariant says
  of each queued write (`Sound`) that its state is permitted, that a switch's or
  speed's is no keep state, and that while `fresh` it still is what `_state_for`
  would find, or in the pod's mode.  `Memory` carries the speed: the
  switch has what the payloads showed last, or the kept state has, unless forgotten.
  `RemembersReachableRestarts`: nothing is ever `forgotten`.  `PendingWritesSurviveInTurn`: at
  most one write waits, and it is still `fresh`.
* `EntryLifecycleProofs`: every property of `entry_lifecycle`.  `RunsOnStored` is not
  inductive: during a setup that read old data, the flow that changed it must be
  waiting and not be the one whose reload this is (`DataDue`).  `IntervalApplied`
  needs that a setup which missed nothing reads the saved interval (`IntervalRead`)
  and that an update still to come has told nobody (`Untold`); `RefusedIsAsked` that
  the reauth flow left open does not close with the setup that was refused (`Asked`);
  `ReauthKeepsServer` that what reauth merged keeps the stored server until another
  save (`SameServer`).  `OptionsReloadOutsideSetup`: nothing is ever `missed`.
* `EntityRegistryProofs`: every safety property of `registry` but the volumes, for any
  `Build`.  What a pass does is a lemma each (`HandedOnce`, `HandedLearned`, `PassKnowsAll`,
  `CountOnce`); then a key handed over is known, a platform that lost nothing knows
  just what it has an entity for, added or waiting, and all of the payload's
  (`NothingLost`).  One lemma per action, and one for a round of listeners.
  `CutOnlyByRaising` and `BrokenOnlyByRaising` say what the exceptions in `EntitiesCurrent` and
  `ItemsHaveEntities` come from: a payload something raises on, never an outage or a
  reload; so `CurrentWhenHarmless` has no exception.
* `PoolEntitiesProofs`: `VolumeAlwaysDosed`, from the rounding (`VolumeRounds`: half a
  millilitre) and the gate of the disinfectant's counter (`PumpDosed`), for payloads whose counters and flows
  are whole numbers (`ContentAssumption`).  `BuildersWellFormed` proves of the four
  platforms' builders what `EntityRegistry` assumes of any (`BuildAssumption`), so all of
  its theorems are about them.  `EquipmentAppearsUnlessBroken` needs in addition that each
  probe and out of a payload is a step of its builder (`BuildersYieldItems`); on pools
  where nothing ever raises it holds outright (`EquipmentAppearsOnHarmlessPools`).
* `UserFlowProofs`: every property of `user_flow`.  Of two entries of a pool one came without
  a unique_id (`OneCameWithout`); no two flows hold one unique_id (`HeldByOne`); and no entry gets
  that of a flow that is validating unless it was labelled then (`Watched`).

Only model-checked: the liveness properties (`CallsEnd`, `ConfirmationEnds`,
`OptimisticGives`, `SettlesOnPod`, `NewItemsAppear`), since the prover does not reason about
fairness and `ENABLED`.  Of the first three the safety half is proved: a call and a
confirmation have a count that bounds their steps (`CallsComeNearer`,
`ConfirmationsRunDown`), and a value that nothing follows has a reading to come
(`ReadingAlwaysDue`, `NamedCommandsKeepReadings`).  What TLC adds is that a next step is always enabled.  That the
violated properties are violated is TLC's as well.

## Not modelled

Data without control: names, labels and translations, device info, log
messages, the masks of diagnostics, parsing of dates and probe values; the
choice of a pool in the index; `set_param`'s number formats; the clamping of
`scan_interval`; the contents of `CommandStatus` beyond pending, done, failed and
unusable.  Running times are in seconds where the sensors show hours.  In `OutControl` the
equipment is constant in a behaviour; `EntityRegistry` lets it change, but without
writes.  Removal of one entity in `Commands` is final.  `KlereoAPI`'s single `requests`
session is taken to serve threads independently.

## Plan

Done, in the order of importance: the shared token (`KlereoAPI`, `ApiCalls`), a write
and its confirmation (`Commands`, `TrackedWrites`), what is written (`OutRules`,
`OutControl`), an entry's setups and flows (`EntryLifecycle`), the entities (`Equipment`,
`EntityRegistry`, `PoolEntities`), the dialogs (`UserFlow`), and their proofs.  Left:

1. Liveness of `EntryLifecycle`: a saved change is applied if the lock is always let
   go.  Without symmetry, which is not sound for liveness, two updates already
   make 2.3 million states.  An abstract entry that applies one update after the
   other would be the way.
2. Equipment that changes at a poll, in `OutControl`: a rule chosen by one payload, a
   write that lands under another.
3. `set_param`'s number formats and `scan_interval`'s clamping against reference definitions.
4. An abstract entry (stored, running, one update after the other) that
   `EntryLifecycle` implements, and its refinement proof, as for the writes.

## Running

`tlc -config jwt_shared.cfg MCKlereoAPI`, and likewise `jwt_race`; `commands` and `cmd_unload` with
`MCCommands`, `out_*` with `MCOutControl`, `entry_*` with `MCEntryLifecycle`, `registry*` with
`MCPoolEntities`, `user_flow` with `MCUserFlow`; `tlapm KlereoAPIProofs.tla` and the like for the proofs.
