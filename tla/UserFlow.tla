------------------------------- MODULE UserFlow -------------------------------
(***************************************************************************)
(* Adding a pool: several user flows at once (config_flow.py), beside the  *)
(* entries of earlier releases, which only their setup by this one         *)
(* migrates and gives a unique_id (__init__.py).                           *)
(*                                                                         *)
(* A step is what one coroutine runs between two awaits.  Of Home          *)
(* Assistant, async_set_unique_id, which aborts a flow whose unique_id     *)
(* another open flow has, and the end of a flow, which replaces the entry  *)
(* that has its unique_id, are modelled from how the flow relies on them.  *)
(***************************************************************************)
EXTENDS Naturals

CONSTANTS
  Flows,        \* the dialogs that may be open at once
  Pools,        \* poolIDs, existing or not
  Slots,        \* bound: how many entries there may be
  None

ASSUME NoneAssumption == None \notin Pools

Entries ==
  [pool : Pools,
   uid : Pools \cup {None},           \* entry.unique_id
   version : 1..3,
   secret : {"password", "hash"},
   legacy : BOOLEAN,                  \* ghost: it came without a unique_id
   late : BOOLEAN]                    \* ghost: and got another entry's

ASSUME EntryAssumption == None \notin Entries

VARIABLES
  entries,      \* the integration's config entries
  flow          \* what each flow is at, and knows

vars == <<entries, flow>>

FlowStates ==
  [stage : {"closed", "user", "listing", "pool", "manual",
            "checking pool", "checking manual"},
   listed : SUBSET Pools,             \* self._pools
   offered : SUBSET Pools,            \* the options of the form on show
   chosen : Pools \cup {None},        \* the pool of the data being checked
   held : Pools \cup {None},          \* the flow's unique_id
   labelled : BOOLEAN]                \* ghost: meanwhile an entry got it too

Closed ==
  [stage |-> "closed", listed |-> {}, offered |-> {}, chosen |-> None,
   held |-> None, labelled |-> FALSE]

Checking == {"checking pool", "checking manual"}

There == {s \in Slots : entries[s] # None}
Named(uid) == {s \in There : entries[s].uid = uid}
Configured == {entries[s].uid : s \in There}

----------------------------------------------------------------------------
(* An entry as a release left it: without a unique_id, or with one and the *)
(* password, or with its hash, or by a later release.                      *)
Left(pool, uid, version) ==
  [pool |-> pool, uid |-> uid, version |-> version,
   secret |-> IF version = 1 THEN "password" ELSE "hash",
   legacy |-> uid = None, late |-> FALSE]

LeftBehind(pool) ==
  {Left(pool, None, 1)} \cup {Left(pool, pool, version) : version \in 1..3}

(* Every pool was added once.                                              *)
Init ==
  /\ entries \in [Slots -> {None} \cup UNION {LeftBehind(pool) : pool \in Pools}]
  /\ \A s, t \in There : entries[s].pool = entries[t].pool => s = t
  /\ flow = [f \in Flows |-> Closed]

Goes(f, stage) ==
  /\ flow' = [flow EXCEPT ![f].stage = stage]
  /\ UNCHANGED entries

Ends(f) ==
  /\ flow' = [flow EXCEPT ![f] = Closed]
  /\ UNCHANGED entries

(* The user asks to add a pool, gives a dialog up, types the credentials.  *)
Opens(f) == flow[f].stage = "closed" /\ Goes(f, "user")
GivesUp(f) == flow[f].stage # "closed" /\ Ends(f)
TypesCredentials(f) == flow[f].stage = "user" /\ Goes(f, "listing")

(* list_pools: refused, the credentials are asked for again; out of reach, *)
(* the poolID is.                                                          *)
ListingRefused(f) == flow[f].stage = "listing" /\ Goes(f, "user")
ListingFails(f) == flow[f].stage = "listing" /\ Goes(f, "manual")

(* The pools that are not set up yet are offered, if there are any.        *)
Offer(f, listed) ==
  IF listed \ Configured = {} THEN Ends(f)
  ELSE /\ flow' = [flow EXCEPT ![f].stage = "pool", ![f].listed = listed,
                               ![f].offered = listed \ Configured]
       /\ UNCHANGED entries

Listing(f) ==
  /\ flow[f].stage = "listing"
  /\ \E listed \in SUBSET Pools : Offer(f, listed)

(* async_set_unique_id raises: the unique_id is another open flow's.       *)
InProgress(f, pool) == \E g \in Flows \ {f} : flow[g].held = pool

(* Mutant: the unique_id is set, and no one asks whose it is already.      *)
NeverConfigured(pool) == FALSE

(* _abort_if_unique_id_configured.                                         *)
IsConfigured(pool) == pool \in Configured

(* Mutant: a flow keeps the unique_id it had first.                        *)
HeldSinceFirst(f, pool) == IF flow[f].held = None THEN pool ELSE flow[f].held

(* The unique_id of a flow that goes on to check a pool.                   *)
HeldFrom(f, pool) == pool

Chooses(f, pool, checking) ==
  IF InProgress(f, pool) \/ IsConfigured(pool) THEN Ends(f)
  ELSE /\ flow' = [flow EXCEPT ![f].stage = checking,
                               ![f].chosen = pool,
                               ![f].held = HeldFrom(f, pool),
                               ![f].labelled = FALSE]
       /\ UNCHANGED entries

(* async_step_pool and async_step_manual, submitted: up to the validation. *)
PicksPool(f) ==
  /\ flow[f].stage = "pool"
  /\ \E pool \in flow[f].offered : Chooses(f, pool, "checking pool")

TypesPool(f) ==
  /\ flow[f].stage = "manual"
  /\ \E pool \in Pools : Chooses(f, pool, "checking manual")

(* The validation fails, and the form is shown again, with what is left.   *)
CheckFails(f) ==
  \/ flow[f].stage = "checking pool" /\ Offer(f, flow[f].listed)
  \/ flow[f].stage = "checking manual" /\ Goes(f, "manual")

Made(f) ==
  [pool |-> flow[f].chosen, uid |-> flow[f].held, version |-> 2,
   secret |-> "hash", legacy |-> FALSE, late |-> FALSE]

(* It succeeds, and the entry is created, in place of one that has the     *)
(* flow's unique_id by now.                                                *)
Creates(f) ==
  LET same == Named(flow[f].held) IN
  /\ flow[f].stage \in Checking
  /\ \E new \in Slots \ There :
       IF same = {} THEN entries' = [entries EXCEPT ![new] = Made(f)]
       ELSE \E old \in same :
              entries' = [entries EXCEPT ![new] = Made(f), ![old] = None]
  /\ flow' = [flow EXCEPT ![f] = Closed]

----------------------------------------------------------------------------
(* Mutant: the unique_id is left as it was.                                *)
BackfilledNever(s) == entries[s].uid

(* Setup sees to it that an entry has a unique_id.                         *)
Backfilled(s) ==
  IF entries[s].uid = None THEN entries[s].pool ELSE entries[s].uid

(* Mutant: the version is raised and the password stays.                   *)
MigratedByName(s) == [entries[s] EXCEPT !.version = 2]

(* async_migrate_entry: the password gives way to its hash.                *)
Migrated(s) == [entries[s] EXCEPT !.version = 2, !.secret = "hash"]

(* Home Assistant sets an entry up: when it starts, or when the entry is   *)
(* enabled.  It refuses one of a later version, and leaves it alone.       *)
SetsUp(s) ==
  LET uid == Backfilled(s)
      others == Named(uid) \ {s}
  IN
  /\ entries[s] # None
  /\ entries[s].version <= 2
  /\ entries' = [entries EXCEPT
                   ![s] = [Migrated(s) EXCEPT
                             !.uid = uid,
                             !.late = entries[s].late
                                        \/ (entries[s].uid = None /\ others # {})]]
  /\ flow' = [f \in Flows |->
                [flow[f] EXCEPT
                   !.labelled = @ \/ ( /\ entries[s].uid = None
                                       /\ flow[f].stage \in Checking
                                       /\ flow[f].held = uid )]]

(* The user deletes an entry.                                              *)
Removed(s) ==
  /\ entries[s] # None
  /\ entries' = [entries EXCEPT ![s] = None]
  /\ UNCHANGED flow

Next ==
  \/ \E f \in Flows :
       \/ Opens(f) \/ GivesUp(f) \/ TypesCredentials(f)
       \/ ListingRefused(f) \/ ListingFails(f) \/ Listing(f)
       \/ PicksPool(f) \/ TypesPool(f) \/ CheckFails(f) \/ Creates(f)
  \/ \E s \in Slots : SetsUp(s) \/ Removed(s)

Spec == Init /\ [][Next]_vars

----------------------------------------------------------------------------
(* Every value has its type, and an entry set up by this release, which    *)
(* makes it of version 2, keeps no password.                               *)
TypeOK ==
  /\ entries \in [Slots -> Entries \cup {None}]
  /\ \A s \in There : entries[s].version = 2 => entries[s].secret = "hash"
  /\ flow \in [Flows -> FlowStates]

(* A pool has one entry, however many dialogs add it at once.  Two only if *)
(* one of them comes from before the unique_ids, and was not set up by     *)
(* this release when the other was added: it had been disabled, say.       *)
OneEntryPerPool ==
  \A s, t \in There :
    s # t /\ entries[s].pool = entries[t].pool =>
      \E e \in {entries[s], entries[t]} : e.legacy /\ (e.version = 1 \/ e.late)

(* An entry's unique_id is its own pool's, although a flow whose pool does *)
(* not open has another chosen, and its unique_id changed.                 *)
NamedAfterItsPool ==
  \A s \in There : entries[s].uid \in {None, entries[s].pool}

(* What a flow adds takes no entry's place, with its entities' history and *)
(* its options; unless that entry was given the pool's unique_id while the *)
(* flow was checking the pool.                                             *)
NothingReplaced ==
  [][\A f \in Flows, s \in Slots :
       Creates(f) /\ entries[s] # None /\ ~flow[f].labelled =>
         entries'[s] = entries[s]]_vars
=============================================================================
