---------------------------- MODULE UserFlowProofs ----------------------------
(***************************************************************************)
(* UserFlow for any number of dialogs, pools and entries.                  *)
(***************************************************************************)
EXTENDS UserFlow, TLAPS

(* A unique_id is that of one open flow at most, and the one of the pool   *)
(* being checked.                                                          *)
HeldByOne ==
  /\ \A f, g \in Flows :
       f # g /\ flow[f].held # None => flow[f].held # flow[g].held
  /\ \A f \in Flows :
       flow[f].stage \in Checking =>
         flow[f].held = flow[f].chosen /\ flow[f].chosen \in Pools

(* An entry is without a unique_id until this release sets it up.          *)
LegacyUntilSetUp ==
  \A s \in There :
    /\ entries[s].legacy => (entries[s].uid = None <=> entries[s].version = 1)
    /\ ~entries[s].legacy => entries[s].uid # None

(* Of two entries of a pool one came without a unique_id, and has none yet *)
(* or was the later to get it.                                             *)
OneCameWithout ==
  \A s, t \in There :
    s # t /\ entries[s].pool = entries[t].pool =>
      /\ entries[s].legacy # entries[t].legacy
      /\ entries[s].legacy => entries[s].uid = None \/ entries[s].late

(* No entry gets the unique_id of a flow that is checking its pool, but    *)
(* one that came without.                                                  *)
Watched ==
  \A f \in Flows :
    flow[f].stage \in Checking =>
      \A s \in There :
        entries[s].uid = flow[f].held => flow[f].labelled /\ entries[s].legacy

Inv ==
  /\ TypeOK
  /\ NamedAfterItsPool
  /\ HeldByOne
  /\ LegacyUntilSetUp
  /\ OneCameWithout
  /\ Watched

----------------------------------------------------------------------------
(* A closed flow holds nothing and checks nothing.                         *)
LEMMA ClosedFlow ==
  Closed \in FlowStates /\ Closed.stage \notin Checking /\ Closed.held = None
  BY DEF Closed, FlowStates, Checking

(* The invariant holds at first.                                           *)
THEOREM InitInv == Init => Inv
  <1> SUFFICES ASSUME Init PROVE Inv
    OBVIOUS
  <1>1. \A f \in Flows : flow[f] = Closed
    BY DEF Init
  <1>2. Closed \in FlowStates
    BY ClosedFlow
  <1>3. ASSUME NEW s \in There
        PROVE  \E pool \in Pools, version \in 1..3 :
                 \/ entries[s] = Left(pool, None, 1)
                 \/ entries[s] = Left(pool, pool, version)
    BY <1>3, EntryAssumption DEF Init, There, LeftBehind
  <1>4. ASSUME NEW s \in There
        PROVE  /\ entries[s] \in Entries
               /\ entries[s].version = 2 => entries[s].secret = "hash"
               /\ entries[s].uid \in {None, entries[s].pool}
               /\ entries[s].legacy <=> entries[s].uid = None
               /\ entries[s].legacy => entries[s].version = 1
    <2>1. PICK pool \in Pools, version \in 1..3 :
            \/ entries[s] = Left(pool, None, 1)
            \/ entries[s] = Left(pool, pool, version)
      BY <1>3
    <2>2. CASE entries[s] = Left(pool, None, 1)
      <3>1. entries[s] = [pool |-> pool, uid |-> None, version |-> 1,
                          secret |-> "password", legacy |-> TRUE, late |-> FALSE]
        BY <2>2 DEF Left
      <3> QED BY <3>1 DEF Entries
    <2>3. CASE entries[s] = Left(pool, pool, version)
      <3> DEFINE secret == IF version = 1 THEN "password" ELSE "hash"
      <3>1. pool # None /\ secret \in {"password", "hash"}
            /\ (version = 2 => secret = "hash")
        BY NoneAssumption
      <3>2. entries[s] = [pool |-> pool, uid |-> pool, version |-> version,
                          secret |-> secret, legacy |-> FALSE, late |-> FALSE]
        BY <2>3, <3>1 DEF Left
      <3> HIDE DEF secret
      <3>3. entries[s] \in Entries
        BY <3>1, <3>2 DEF Entries
      <3> QED BY <3>1, <3>2, <3>3
    <2> QED BY <2>1, <2>2, <2>3
  <1>5. entries \in [Slots -> Entries \cup {None}]
    <2>1. DOMAIN entries = Slots /\ entries = [s \in Slots |-> entries[s]]
      BY DEF Init
    <2>2. \A s \in Slots : entries[s] \in Entries \cup {None}
      BY <1>4 DEF There
    <2> QED BY <2>1, <2>2
  <1>6. TypeOK
    <2>1. flow \in [Flows -> FlowStates]
      BY <1>2 DEF Init
    <2> QED BY <1>4, <1>5, <2>1 DEF TypeOK
  <1>7. NamedAfterItsPool /\ LegacyUntilSetUp
    BY <1>4 DEF NamedAfterItsPool, LegacyUntilSetUp
  <1>8. HeldByOne /\ Watched
    BY <1>1, ClosedFlow DEF HeldByOne, Watched
  <1>9. OneCameWithout
    BY DEF Init, OneCameWithout
  <1> QED BY <1>6, <1>7, <1>8, <1>9 DEF Inv

(* A flow that goes on, but not to check a pool, disturbs nothing.         *)
LEMMA GoesOn ==
  ASSUME Inv, UNCHANGED entries, NEW f \in Flows, NEW to \in FlowStates,
         flow' = [flow EXCEPT ![f] = to],
         to.stage \notin Checking, to.held \in {flow[f].held, None}
  PROVE  Inv'
  <1>1. flow' \in [Flows -> FlowStates]
    BY DEF Inv, TypeOK
  <1>2. /\ flow'[f] = to
        /\ \A g \in Flows \ {f} : flow'[g] = flow[g]
    BY DEF Inv, TypeOK
  <1>3. There' = There
    BY DEF There
  <1>4. TypeOK' /\ NamedAfterItsPool' /\ LegacyUntilSetUp' /\ OneCameWithout'
    BY <1>1, <1>3 DEF Inv, TypeOK, NamedAfterItsPool, LegacyUntilSetUp, OneCameWithout
  <1>5. HeldByOne'
    BY <1>2 DEF Inv, HeldByOne
  <1>6. Watched'
    BY <1>2, <1>3 DEF Inv, Watched
  <1> QED BY <1>4, <1>5, <1>6 DEF Inv

LEMMA EndsInv == ASSUME Inv, NEW f \in Flows, Ends(f) PROVE Inv'
  BY ClosedFlow, GoesOn DEF Ends

LEMMA GoesInv ==
  ASSUME Inv, NEW f \in Flows,
         NEW stage \in {"user", "listing", "pool", "manual"}, Goes(f, stage)
  PROVE  Inv'
  <1> DEFINE to == [flow[f] EXCEPT !.stage = stage]
  <1>1. flow[f] \in FlowStates
    BY DEF Inv, TypeOK
  <1>2. to \in FlowStates /\ to.stage \notin Checking /\ to.held = flow[f].held
    BY <1>1 DEF FlowStates, Checking
  <1>3. flow' = [flow EXCEPT ![f] = to] /\ UNCHANGED entries
    BY DEF Goes
  <1> HIDE DEF to
  <1> QED BY <1>2, <1>3, GoesOn

LEMMA OfferInv ==
  ASSUME Inv, NEW f \in Flows, NEW listed \in SUBSET Pools, Offer(f, listed)
  PROVE  Inv'
  <1>1. CASE listed \ Configured = {}
    BY <1>1, EndsInv DEF Offer
  <1>2. CASE listed \ Configured # {}
    <2> DEFINE to == [flow[f] EXCEPT !.stage = "pool", !.listed = listed,
                                     !.offered = listed \ Configured]
    <2>1. flow[f] \in FlowStates
      BY DEF Inv, TypeOK
    <2>2. to \in FlowStates /\ to.stage \notin Checking /\ to.held = flow[f].held
      BY <2>1 DEF FlowStates, Checking
    <2>3. flow' = [flow EXCEPT ![f] = to] /\ UNCHANGED entries
      BY <1>2 DEF Offer
    <2> HIDE DEF to
    <2> QED BY <2>2, <2>3, GoesOn
  <1> QED BY <1>1, <1>2

(* A pool that is chosen is no entry's and no other flow's.                *)
LEMMA ChoosesInv ==
  ASSUME Inv, NEW f \in Flows, NEW pool \in Pools, NEW checking \in Checking,
         Chooses(f, pool, checking)
  PROVE  Inv'
  <1>1. CASE InProgress(f, pool) \/ IsConfigured(pool)
    BY <1>1, EndsInv DEF Chooses
  <1>2. CASE ~(InProgress(f, pool) \/ IsConfigured(pool))
    <2> DEFINE to == [flow[f] EXCEPT !.stage = checking, !.chosen = pool,
                                     !.held = pool, !.labelled = FALSE]
    <2>1. flow[f] \in FlowStates /\ flow \in [Flows -> FlowStates]
      BY DEF Inv, TypeOK
    <2>2. /\ to \in FlowStates /\ to.stage = checking
          /\ to.chosen = pool /\ to.held = pool /\ ~to.labelled
      BY <2>1 DEF FlowStates, Checking
    <2>3. flow' = [flow EXCEPT ![f] = to] /\ UNCHANGED entries
      BY <1>2 DEF Chooses, HeldFrom
    <2> HIDE DEF to
    <2>4. /\ flow'[f] = to /\ flow' \in [Flows -> FlowStates]
          /\ \A g \in Flows \ {f} : flow'[g] = flow[g]
      BY <2>1, <2>2, <2>3
    <2>5. There' = There
      BY <2>3 DEF There
    <2>6. TypeOK' /\ NamedAfterItsPool' /\ LegacyUntilSetUp' /\ OneCameWithout'
      BY <2>3, <2>4, <2>5
      DEF Inv, TypeOK, NamedAfterItsPool, LegacyUntilSetUp, OneCameWithout
    <2>7. \A g \in Flows \ {f} : flow[g].held # pool
      BY <1>2 DEF InProgress
    <2>8. HeldByOne'
      BY <2>2, <2>4, <2>7 DEF Inv, HeldByOne
    <2>9. \A s \in There : entries[s].uid # pool
      BY <1>2 DEF IsConfigured, Configured
    <2>10. Watched'
      BY <2>2, <2>3, <2>4, <2>5, <2>9 DEF Inv, Watched
    <2> QED BY <2>6, <2>8, <2>10 DEF Inv
  <1> QED BY <1>1, <1>2

(* The entry that a flow adds is the only one of its pool, but for one     *)
(* that came without a unique_id and has none yet.                         *)
LEMMA CreatesInv ==
  ASSUME Inv, NEW f \in Flows, Creates(f)
  PROVE  Inv'
  <1> DEFINE pool == flow[f].held
             same == Named(pool)
             made == Made(f)
  <1>1. /\ flow[f].stage \in Checking /\ flow[f].chosen = pool /\ pool \in Pools
        /\ flow' = [flow EXCEPT ![f] = Closed]
    BY DEF Creates, Inv, HeldByOne
  <1>2. PICK new \in Slots \ There :
          IF same = {} THEN entries' = [entries EXCEPT ![new] = made]
          ELSE \E old \in same :
                 entries' = [entries EXCEPT ![new] = made, ![old] = None]
    BY DEF Creates
  <1>3. /\ made \in Entries /\ made.pool = pool /\ made.uid = pool /\ made # None
        /\ ~made.legacy /\ made.secret = "hash"
    <2>1. made = [pool |-> pool, uid |-> pool, version |-> 2, secret |-> "hash",
                  legacy |-> FALSE, late |-> FALSE]
      BY <1>1 DEF Made
    <2>2. made \in Entries
      BY <1>1, <2>1 DEF Entries
    <2>3. made # None
      BY <2>2, EntryAssumption
    <2> QED BY <2>1, <2>2, <2>3
  <1>4. \A s \in same : s \in There /\ entries[s].legacy /\ entries[s].pool = pool
    BY <1>1, NoneAssumption DEF Named, Inv, Watched, NamedAfterItsPool
  <1>5. entries \in [Slots -> Entries \cup {None}] /\ flow \in [Flows -> FlowStates]
    BY DEF Inv, TypeOK
  <1>6. \A s, t \in same : s = t
    BY <1>4 DEF Inv, OneCameWithout
  <1> HIDE DEF made
  <1>7. /\ entries' \in [Slots -> Entries \cup {None}]
        /\ entries'[new] = made
        /\ \A s \in Slots \ {new} :
             entries'[s] = IF s \in same THEN None ELSE entries[s]
    <2>1. new \notin same /\ same \subseteq Slots
      BY <1>2, <1>4 DEF There
    <2>2. CASE same = {}
      BY <1>2, <1>3, <1>5, <2>2
    <2>3. CASE same # {}
      <3>1. PICK old \in same :
              entries' = [entries EXCEPT ![new] = made, ![old] = None]
        BY <1>2, <2>3
      <3>2. same = {old}
        BY <1>6
      <3> HIDE DEF same
      <3> QED BY <1>3, <1>5, <2>1, <3>1, <3>2
    <2> QED BY <2>2, <2>3
  <1>8. There' = (There \ same) \cup {new}
    BY <1>2, <1>3, <1>7 DEF There
  <1>9. \A s \in There \ same : entries'[s] = entries[s] /\ s # new /\ s \in There
    BY <1>2, <1>7 DEF There
  <1>10. TypeOK'
    <2>1. flow' \in [Flows -> FlowStates]
      BY <1>1, <1>5, ClosedFlow
    <2>2. \A s \in There' : entries'[s].version = 2 => entries'[s].secret = "hash"
      BY <1>3, <1>7, <1>8, <1>9 DEF Inv, TypeOK
    <2> QED BY <1>7, <2>1, <2>2 DEF TypeOK
  <1>11. NamedAfterItsPool'
    BY <1>3, <1>7, <1>8, <1>9 DEF Inv, NamedAfterItsPool
  <1>12. LegacyUntilSetUp'
    BY <1>1, <1>3, <1>7, <1>8, <1>9, NoneAssumption DEF Inv, LegacyUntilSetUp
  <1>13. ASSUME NEW s \in There \ same, entries[s].pool = pool
         PROVE  entries[s].legacy /\ entries[s].uid = None
    <2>1. entries[s].uid # pool
      BY <1>13 DEF Named
    <2>2. entries[s].uid = None
      BY <1>13, <2>1 DEF Inv, NamedAfterItsPool
    <2> QED BY <1>13, <2>2 DEF Inv, LegacyUntilSetUp
  <1>14. OneCameWithout'
    <2> SUFFICES ASSUME NEW s \in There', NEW t \in There', s # t,
                        entries'[s].pool = entries'[t].pool
                 PROVE  /\ entries'[s].legacy # entries'[t].legacy
                        /\ entries'[s].legacy =>
                             entries'[s].uid = None \/ entries'[s].late
      BY DEF OneCameWithout
    <2>1. CASE s = new
      BY <1>3, <1>7, <1>8, <1>9, <1>13, <2>1
    <2>2. CASE t = new
      BY <1>3, <1>7, <1>8, <1>9, <1>13, <2>2
    <2>3. CASE s # new /\ t # new
      BY <1>8, <1>9, <2>3 DEF Inv, OneCameWithout
    <2> QED BY <2>1, <2>2, <2>3
  <1>15. \A g \in Flows \ {f} : flow'[g] = flow[g] /\ flow[g].held # pool
    BY <1>1, <1>5, NoneAssumption DEF Inv, HeldByOne
  <1>16. flow'[f] = Closed
    BY <1>1, <1>5
  <1>17. HeldByOne'
    BY <1>15, <1>16, ClosedFlow DEF Inv, HeldByOne
  <1>18. Watched'
    <2> SUFFICES ASSUME NEW g \in Flows, flow'[g].stage \in Checking,
                        NEW s \in There', entries'[s].uid = flow'[g].held
                 PROVE  flow'[g].labelled /\ entries'[s].legacy
      BY DEF Watched
    <2>1. g # f
      BY <1>16, ClosedFlow
    <2>2. flow'[g] = flow[g] /\ flow[g].held # pool
      BY <1>15, <2>1
    <2>3. s # new
      BY <1>3, <1>7, <2>2
    <2> QED BY <1>8, <1>9, <2>2, <2>3 DEF Inv, Watched
  <1> QED BY <1>10, <1>11, <1>12, <1>14, <1>17, <1>18 DEF Inv

(* The setup gives an entry without a unique_id its pool's, and the flows  *)
(* that check the pool are marked.                                         *)
LEMMA SetsUpInv ==
  ASSUME Inv, NEW s \in Slots, SetsUp(s)
  PROVE  Inv'
  <1> DEFINE uid == Backfilled(s)
             without == entries[s].uid = None
             late == entries[s].late \/ (without /\ Named(uid) \ {s} # {})
             to == [Migrated(s) EXCEPT !.uid = uid, !.late = late]
  <1>1. /\ entries[s] # None /\ entries[s].version \in {1, 2}
        /\ entries' = [entries EXCEPT ![s] = to]
        /\ entries[s] \in Entries
    BY DEF SetsUp, Inv, TypeOK, Entries
  <1>2. /\ to \in Entries /\ to # None /\ to.pool = entries[s].pool
        /\ to.uid = entries[s].pool /\ to.legacy = entries[s].legacy
        /\ to.version = 2 /\ to.secret = "hash" /\ to.late = late
    <2>1. entries[s].uid \in {None, entries[s].pool}
      BY <1>1 DEF Inv, NamedAfterItsPool, There
    <2>2. uid = entries[s].pool
      BY <2>1 DEF Backfilled
    <2> HIDE DEF uid
    <2>3. late \in BOOLEAN
      BY <1>1 DEF Entries
    <2> HIDE DEF late
    <2> DEFINE migrated == Migrated(s)
    <2>4. /\ migrated \in Entries /\ migrated.version = 2 /\ migrated.secret = "hash"
          /\ migrated.pool = entries[s].pool /\ migrated.legacy = entries[s].legacy
      <3> DEFINE e == entries[s]
      <3>1. e \in Entries /\ migrated = [e EXCEPT !.version = 2, !.secret = "hash"]
        BY <1>1 DEF Migrated
      <3> HIDE DEF e, migrated
      <3>2. /\ e.pool \in Pools /\ e.uid \in Pools \cup {None}
            /\ e.legacy \in BOOLEAN /\ e.late \in BOOLEAN
        BY <3>1 DEF Entries
      <3>3. migrated \in Entries
        <4> DEFINE V == 1..3
                   two == 2
        <4>1. two \in V
          OBVIOUS
        <4>2. /\ e \in [pool : Pools, uid : Pools \cup {None}, version : V,
                        secret : {"password", "hash"}, legacy : BOOLEAN, late : BOOLEAN]
              /\ migrated = [e EXCEPT !.version = two, !.secret = "hash"]
          BY <3>1 DEF Entries
        <4> HIDE DEF V, two
        <4>3. migrated \in [pool : Pools, uid : Pools \cup {None}, version : V,
                            secret : {"password", "hash"}, legacy : BOOLEAN,
                            late : BOOLEAN]
          BY <4>1, <4>2
        <4> QED BY <4>3 DEF Entries, V
      <3>4. /\ migrated.version = 2 /\ migrated.secret = "hash"
            /\ migrated.pool = e.pool /\ migrated.legacy = e.legacy
        BY <3>1 DEF Entries
      <3> QED BY <3>3, <3>4 DEF e
    <2>5. entries[s].pool \in Pools
      BY <1>1 DEF Entries
    <2> HIDE DEF migrated
    <2>6. to = [migrated EXCEPT !.uid = uid, !.late = late]
      BY DEF migrated
    <2>7. to \in Entries
      BY <2>2, <2>3, <2>4, <2>5, <2>6 DEF Entries
    <2>8. /\ to.pool = entries[s].pool /\ to.uid = uid /\ to.version = 2
          /\ to.secret = "hash" /\ to.late = late /\ to.legacy = entries[s].legacy
      BY <2>4, <2>6 DEF Entries
    <2> HIDE DEF to
    <2> QED BY <2>2, <2>7, <2>8, EntryAssumption
  <1>3. /\ There' = There /\ s \in There
        /\ entries'[s] = to
        /\ \A t \in There \ {s} : entries'[t] = entries[t]
        /\ entries' \in [Slots -> Entries \cup {None}]
    BY <1>1, <1>2 DEF There, Inv, TypeOK
  <1>4. ASSUME NEW f \in Flows
        PROVE  /\ flow'[f] \in FlowStates
               /\ flow'[f].stage = flow[f].stage /\ flow'[f].held = flow[f].held
               /\ flow'[f].chosen = flow[f].chosen
               /\ flow'[f].labelled = (flow[f].labelled \/
                    (without /\ flow[f].stage \in Checking /\ flow[f].held = uid))
    <2>1. flow[f] \in FlowStates
      BY DEF Inv, TypeOK
    <2>2. flow'[f] = [flow[f] EXCEPT !.labelled = @ \/
                        (without /\ flow[f].stage \in Checking /\ flow[f].held = uid)]
      BY DEF SetsUp
    <2> HIDE DEF without, uid
    <2> QED BY <2>1, <2>2 DEF FlowStates
  <1>5. late = (entries[s].late \/ (without /\ Named(entries[s].pool) \ {s} # {}))
    BY <1>1 DEF Backfilled
  <1>6. uid = entries[s].pool
    BY <1>1, <1>3 DEF Backfilled, Inv, NamedAfterItsPool
  <1> HIDE DEF to, late, uid
  <1>7. TypeOK'
    <2>1. flow' \in [Flows -> FlowStates]
      BY <1>4 DEF SetsUp
    <2> QED BY <1>2, <1>3, <2>1 DEF Inv, TypeOK
  <1>8. NamedAfterItsPool' /\ HeldByOne'
    BY <1>2, <1>3, <1>4 DEF Inv, NamedAfterItsPool, HeldByOne
  <1>9. LegacyUntilSetUp'
    <2>1. entries[s].pool # None
      BY <1>1, NoneAssumption DEF Entries
    <2> QED BY <1>2, <1>3, <2>1 DEF Inv, LegacyUntilSetUp
  <1>10. OneCameWithout'
    <2> SUFFICES ASSUME NEW r \in There, NEW t \in There, r # t,
                        entries'[r].pool = entries'[t].pool
                 PROVE  /\ entries'[r].legacy # entries'[t].legacy
                        /\ entries'[r].legacy =>
                             entries'[r].uid = None \/ entries'[r].late
      BY <1>3 DEF OneCameWithout
    <2>1. /\ entries[r].pool = entries[t].pool
          /\ entries'[r].legacy = entries[r].legacy
          /\ entries'[t].legacy = entries[t].legacy
      BY <1>2, <1>3
    <2>2. /\ entries[r].legacy # entries[t].legacy
          /\ entries[r].legacy => entries[r].uid = None \/ entries[r].late
      BY <2>1 DEF Inv, OneCameWithout
    <2>3. CASE r # s
      BY <1>3, <2>1, <2>2, <2>3
    <2>4. CASE r = s /\ entries[s].legacy
      <3>1. t \in There \ {s} /\ ~entries[t].legacy
        BY <2>2, <2>4
      <3>2. entries[t].uid = entries[s].pool
        BY <2>1, <2>4, <3>1 DEF Inv, LegacyUntilSetUp, NamedAfterItsPool
      <3>3. Named(entries[s].pool) \ {s} # {}
        BY <3>1, <3>2 DEF Named
      <3>4. late
        BY <1>5, <2>2, <2>4, <3>3
      <3> QED BY <1>2, <1>3, <2>1, <2>2, <2>4, <3>4
    <2> QED BY <2>1, <2>2, <2>3, <2>4
  <1>11. Watched'
    <2> SUFFICES ASSUME NEW f \in Flows, flow'[f].stage \in Checking,
                        NEW t \in There, entries'[t].uid = flow'[f].held
                 PROVE  flow'[f].labelled /\ entries'[t].legacy
      BY <1>3 DEF Watched
    <2>1. CASE t # s \/ ~without
      <3>1. entries'[t].uid = entries[t].uid /\ entries'[t].legacy = entries[t].legacy
        BY <1>2, <1>3, <2>1 DEF Inv, NamedAfterItsPool
      <3> QED BY <1>4, <3>1 DEF Inv, Watched
    <2>2. CASE t = s /\ without
      <3>1. flow[f].held = uid /\ flow[f].stage \in Checking
        BY <1>2, <1>3, <1>4, <1>6, <2>2
      <3>2. entries[s].legacy
        BY <1>3, <2>2 DEF Inv, LegacyUntilSetUp
      <3> QED BY <1>2, <1>3, <1>4, <2>2, <3>1, <3>2
    <2> QED BY <2>1, <2>2
  <1> QED BY <1>7, <1>8, <1>9, <1>10, <1>11 DEF Inv

LEMMA RemovedInv == ASSUME Inv, NEW s \in Slots, Removed(s) PROVE Inv'
  <1>1. /\ There' = There \ {s} /\ flow' = flow
        /\ \A t \in There' : entries'[t] = entries[t] /\ t \in There
        /\ entries' \in [Slots -> Entries \cup {None}]
    BY DEF Removed, There, Inv, TypeOK
  <1>2. TypeOK' /\ NamedAfterItsPool' /\ LegacyUntilSetUp'
    BY <1>1 DEF Inv, TypeOK, NamedAfterItsPool, LegacyUntilSetUp
  <1>3. OneCameWithout' /\ HeldByOne' /\ Watched'
    BY <1>1 DEF Inv, OneCameWithout, HeldByOne, Watched
  <1> QED BY <1>2, <1>3 DEF Inv

(* Every step keeps the invariant.                                         *)
THEOREM NextInv == Inv /\ [Next]_vars => Inv'
  <1> SUFFICES ASSUME Inv, [Next]_vars PROVE Inv'
    OBVIOUS
  <1>1. CASE UNCHANGED vars
    <2> USE <1>1 DEF vars
    <2>1. There' = There
      BY DEF There
    <2>2. TypeOK' /\ NamedAfterItsPool' /\ LegacyUntilSetUp'
      BY <2>1 DEF Inv, TypeOK, NamedAfterItsPool, LegacyUntilSetUp
    <2>3. OneCameWithout' /\ HeldByOne' /\ Watched'
      BY <2>1 DEF Inv, OneCameWithout, HeldByOne, Watched
    <2> QED BY <2>2, <2>3 DEF Inv
  <1>2. ASSUME NEW f \in Flows,
               \/ Opens(f) \/ TypesCredentials(f)
               \/ ListingRefused(f) \/ ListingFails(f)
        PROVE  Inv'
    BY <1>2, GoesInv DEF Opens, TypesCredentials, ListingRefused, ListingFails
  <1>3. ASSUME NEW f \in Flows, GivesUp(f) PROVE Inv'
    BY <1>3, EndsInv DEF GivesUp
  <1>4. ASSUME NEW f \in Flows, Listing(f) PROVE Inv'
    BY <1>4, OfferInv DEF Listing
  <1>5. ASSUME NEW f \in Flows, PicksPool(f) \/ TypesPool(f) PROVE Inv'
    <2>1. flow[f].offered \subseteq Pools
      BY DEF Inv, TypeOK, FlowStates
    <2> QED BY <1>5, <2>1, ChoosesInv DEF PicksPool, TypesPool, Checking
  <1>6. ASSUME NEW f \in Flows, CheckFails(f) PROVE Inv'
    <2>1. flow[f].listed \in SUBSET Pools
      BY DEF Inv, TypeOK, FlowStates
    <2> QED BY <1>6, <2>1, GoesInv, OfferInv DEF CheckFails
  <1>7. ASSUME NEW f \in Flows, Creates(f) PROVE Inv'
    BY <1>7, CreatesInv
  <1>8. ASSUME NEW s \in Slots, SetsUp(s) \/ Removed(s) PROVE Inv'
    BY <1>8, SetsUpInv, RemovedInv
  <1> QED BY <1>1, <1>2, <1>3, <1>4, <1>5, <1>6, <1>7, <1>8 DEF Next

----------------------------------------------------------------------------
(* The invariant always holds.                                             *)
THEOREM Invariance == Spec => []Inv
  BY InitInv, NextInv, PTL DEF Spec

(* Entries and flows keep their types, and no password stays in an entry   *)
(* that was set up (async_migrate_entry).                                  *)
THEOREM Typing == Spec => []TypeOK
  <1>1. Inv => TypeOK
    BY DEF Inv
  <1> QED BY <1>1, Invariance, PTL

(* A pool is added once (async_set_unique_id in the user flow, and its     *)
(* backfill in async_setup_entry).                                         *)
THEOREM PoolAddedOnce == Spec => []OneEntryPerPool
  <1>1. Inv => OneEntryPerPool
    <2> SUFFICES ASSUME Inv, NEW s \in There, NEW t \in There, s # t,
                        entries[s].pool = entries[t].pool
                 PROVE  \E e \in {entries[s], entries[t]} :
                          e.legacy /\ (e.version = 1 \/ e.late)
      BY DEF OneEntryPerPool
    <2>1. entries[s].legacy \/ entries[t].legacy
      BY DEF Inv, OneCameWithout, TypeOK, There, Entries
    <2>2. ASSUME NEW r \in {s, t}, entries[r].legacy
          PROVE  entries[r].version = 1 \/ entries[r].late
      BY <2>2 DEF Inv, OneCameWithout, LegacyUntilSetUp
    <2> QED BY <2>1, <2>2
  <1> QED BY <1>1, Invariance, PTL

(* An entry's unique_id is its pool's.                                     *)
THEOREM AlwaysNamedAfterItsPool == Spec => []NamedAfterItsPool
  <1>1. Inv => NamedAfterItsPool
    BY DEF Inv
  <1> QED BY <1>1, Invariance, PTL

(* A flow takes no entry's place.                                          *)
THEOREM NeverReplaces == Spec => NothingReplaced
  <1> DEFINE A == \A f \in Flows, s \in Slots :
                    Creates(f) /\ entries[s] # None /\ ~flow[f].labelled =>
                      entries'[s] = entries[s]
  <1>1. Inv => A
    <2> SUFFICES ASSUME Inv, NEW f \in Flows, NEW s \in Slots, Creates(f),
                        entries[s] # None, ~flow[f].labelled
                 PROVE  entries'[s] = entries[s]
      OBVIOUS
    <2>1. Named(flow[f].held) = {}
      BY DEF Creates, Inv, Watched, Named
    <2>2. PICK new \in Slots \ There : entries' = [entries EXCEPT ![new] = Made(f)]
      BY <2>1 DEF Creates
    <2> QED BY <2>2 DEF There, Inv, TypeOK
  <1>2. Inv /\ [Next]_vars => [A]_vars
    BY <1>1
  <1> QED BY <1>2, Invariance, PTL DEF Spec, NothingReplaced
=============================================================================
