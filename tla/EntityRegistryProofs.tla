------------------------- MODULE EntityRegistryProofs -------------------------
(***************************************************************************)
(* The safety of EntityRegistry, whatever the platforms build.             *)
(***************************************************************************)
EXTENDS EntityRegistry, FiniteSetTheorems, WellFoundedInduction, TLAPS

(* A set of numbers that is not empty has a least one.                     *)
LEMMA Least ==
  ASSUME NEW T \in SUBSET Nat, T # {}
  PROVE  \E x \in T : \A y \in T : x <= y
  <1>1. PICK x \in T : \A y \in T : ~(<<y, x>> \in OpToRel(<, Nat))
    BY NatLessThanWellFounded, WFMin
  <1>2. \A y \in T : ~(y < x)
    BY <1>1 DEF OpToRel
  <1> QED BY <1>2

----------------------------------------------------------------------------
(* What one pass does, on any steps b and any keys k known before it.      *)

(* A pass hands over at most one entity for a key, and none for a key that *)
(* is known; and it learns what it hands over.                             *)
LEMMA HandedOnce ==
  ASSUME NEW b, DOMAIN b \subseteq Nat, NEW k, NEW key
  PROVE  LET n == Cardinality({i \in Handed(b, k) : b[i].key = key}) IN
           /\ n \in {0, 1}
           /\ key \in k => n = 0
           /\ n = 1 => key \in HandedKeys(b, k)
  <1> DEFINE S == {i \in Handed(b, k) : b[i].key = key}
  <1>1. \A i, j \in S : i = j
    BY DEF Handed, New
  <1>2. CASE S = {}
    BY <1>2, FS_EmptySet
  <1>3. CASE S # {}
    <2>1. PICK i : i \in S
      BY <1>3
    <2>2. S = {i}
      BY <1>1, <2>1
    <2>3. Cardinality(S) = 1
      BY <2>2, FS_Singleton
    <2>4. key \notin k /\ key \in HandedKeys(b, k)
      BY <2>1 DEF Handed, HandedKeys, New
    <2> QED BY <2>3, <2>4
  <1> QED BY <1>2, <1>3

(* What a pass hands over is known from then on.                           *)
LEMMA HandedLearned ==
  ASSUME NEW b, NEW k
  PROVE  /\ k \subseteq Learned(b, k)
         /\ HandedKeys(b, k) \subseteq Learned(b, k)
         /\ Raising(b, k) = {} => Learned(b, k) = k \cup HandedKeys(b, k)
         /\ Raising(b, k) # {} => HandedKeys(b, k) = {}
  BY DEF Learned, HandedKeys, Handed

(* A pass that nothing ends early knows every key by its end.              *)
LEMMA PassKnowsAll ==
  ASSUME NEW pl \in Platforms, NEW p \in Payloads, NEW k,
         Raising(Build(pl, p), k) = {},
         NEW i \in DOMAIN Build(pl, p)
  PROVE  Build(pl, p)[i].key \in Learned(Build(pl, p), k)
  <1> DEFINE b == Build(pl, p)
             same == {j \in DOMAIN b : b[j].key = b[i].key}
  <1>1. DOMAIN b \subseteq Nat /\ b[i].key # NoKey
    BY BuildAssumption DEF Raising
  <1>2. CASE b[i].key \in k
    BY <1>2, HandedLearned
  <1>3. CASE b[i].key \notin k
    <2>1. PICK first \in same : \A j \in same : first <= j
      BY <1>1, Least
    <2>2. first \in New(b, k)
      BY <1>1, <1>3, <2>1 DEF New
    <2> QED BY <2>1, <2>2 DEF Learned
  <1> QED BY <1>2, <1>3

(* The key of a step is a key of the platforms.                            *)
LEMMA StepKeys ==
  ASSUME NEW pl \in Platforms, NEW p \in Payloads,
         NEW i \in DOMAIN Build(pl, p), Build(pl, p)[i].key # NoKey
  PROVE  Build(pl, p)[i].key \in Keys
  <1> DEFINE of(x) == {Build(x[1], x[2])[j].key : j \in DOMAIN Build(x[1], x[2])}
  <1>1. PICK x \in Platforms \X Payloads : x[1] = pl /\ x[2] = p
    <2>1. <<pl, p>> \in Platforms \X Payloads
      OBVIOUS
    <2> QED BY <2>1
  <1>2. Build(pl, p)[i].key \in of(x)
    BY <1>1
  <1>3. Keys = (UNION {of(y) : y \in Platforms \X Payloads}) \ {NoKey}
    BY DEF Keys
  <1> HIDE DEF of
  <1>4. Build(pl, p)[i].key \in UNION {of(y) : y \in Platforms \X Payloads}
    BY <1>2
  <1> QED BY <1>3, <1>4

(* The keys a pass learns or hands over are keys of some item.             *)
LEMMA PassKeys ==
  ASSUME NEW pl \in Platforms, NEW p \in Payloads, NEW k \in SUBSET Keys
  PROVE  /\ Learned(Build(pl, p), k) \in SUBSET Keys
         /\ HandedKeys(Build(pl, p), k) \in SUBSET Keys
  <1>1. \A i \in New(Build(pl, p), k) : Build(pl, p)[i].key \in Keys
    BY StepKeys DEF New
  <1> QED BY <1>1 DEF Learned, HandedKeys, Handed

(* The counts after a pass: one more for what it handed over.              *)
LEMMA CountOnce ==
  ASSUME NEW pl \in Platforms, NEW p \in Payloads, NEW k,
         NEW m \in [Keys -> Nat],
         \A key \in Keys : m[key] <= 1 /\ (m[key] > 0 => key \in k)
  PROVE  LET n == Count(m, Build(pl, p), k) IN
           /\ n \in [Keys -> Nat]
           /\ \A key \in Keys :
                n[key] <= 1 /\ (n[key] > 0 => key \in Learned(Build(pl, p), k))
  <1> DEFINE b == Build(pl, p)
             more(key) == Cardinality({i \in Handed(b, k) : b[i].key = key})
  <1>1. \A key \in Keys : /\ more(key) \in {0, 1}
                          /\ key \in k => more(key) = 0
                          /\ more(key) = 1 => key \in HandedKeys(b, k)
    BY BuildAssumption, HandedOnce
  <1>2. k \subseteq Learned(b, k) /\ HandedKeys(b, k) \subseteq Learned(b, k)
    BY HandedLearned
  <1>3. Count(m, b, k) = [key \in Keys |-> m[key] + more(key)]
    BY DEF Count
  <1> HIDE DEF more, b
  <1> QED BY <1>1, <1>2, <1>3 DEF b

----------------------------------------------------------------------------
(* A platform that is not up has nothing.                                  *)
Idle ==
  \A pl \in Platforms :
    platform[pl] # "up" =>
      /\ known[pl] = {} /\ waiting[pl] = {}
      /\ \A key \in Keys : made[pl][key] = 0 /\ <<pl, key>> \notin DOMAIN shown

(* An entity is made for a key that is known, and once.                    *)
MadeKnown ==
  \A pl \in Platforms, key \in Keys :
    made[pl][key] <= 1 /\ (made[pl][key] > 0 => key \in known[pl])

(* The platforms that are up are those that listen.                        *)
Listening ==
  /\ \A pl \in Platforms :
       platform[pl] = "up" <=> \E i \in DOMAIN passes : passes[i] = pl
  /\ entry = "none" => \A pl \in Platforms : platform[pl] = "off"

(* Of a platform that saw no pass raise, what is known is added or on its  *)
(* way, and it is all that the payload has, were the round not cut short.  *)
NothingLost ==
  \A pl \in Platforms :
    platform[pl] = "up" /\ ~broke[pl] =>
      /\ known[pl] = {key \in Keys : <<pl, key>> \in DOMAIN shown} \cup waiting[pl]
      /\ ~cut => \A i \in DOMAIN Build(pl, data) : Build(pl, data)[i].key \in known[pl]

Inv ==
  /\ TypeOK
  /\ Idle
  /\ MadeKnown
  /\ Listening
  /\ NothingLost
  /\ EntitiesCurrent

(* The invariant holds at first.                                           *)
THEOREM InitInv == Init => Inv
  <1> SUFFICES ASSUME Init PROVE Inv
    OBVIOUS
  <1> USE DEF Init, Nothing, NoneMade
  <1>1. TypeOK
    <2>1. passes \in Seq(Platforms)
      OBVIOUS
    <2>2. /\ DOMAIN shown = {} /\ DOMAIN after = {}
          /\ shown \in [DOMAIN shown -> States] /\ after \in [DOMAIN shown -> Nat]
      OBVIOUS
    <2>3. made \in [Platforms -> [Keys -> Nat]]
      OBVIOUS
    <2> QED BY <2>1, <2>2, <2>3 DEF TypeOK
  <1>2. Idle /\ MadeKnown /\ Listening
    BY DEF Idle, MadeKnown, Listening
  <1>3. NothingLost /\ EntitiesCurrent
    BY DEF NothingLost, EntitiesCurrent
  <1> QED BY <1>1, <1>2, <1>3 DEF Inv

(* A round of listeners keeps it.                                          *)
LEMMA RoundInv ==
  ASSUME Inv, NEW p \in Payloads, NEW success \in BOOLEAN,
         Round(p, success), data' = p, ok' = success,
         UNCHANGED <<entry, platform, passes>>
  PROVE  Inv'
  <1> DEFINE b(pl) == Build(pl, p)
  <1>1. ASSUME NEW pl \in Platforms
        PROVE  /\ known'[pl] \in SUBSET Keys /\ waiting'[pl] \in SUBSET Keys
               /\ made'[pl] \in [Keys -> Nat]
               /\ \A key \in Keys :
                    made'[pl][key] <= 1 /\ (made'[pl][key] > 0 => key \in known'[pl])
    <2>1. CASE PassRuns(pl, p)
      <3>1. /\ known'[pl] = Learned(b(pl), known[pl])
            /\ made'[pl] = Count(made[pl], b(pl), known[pl])
            /\ waiting'[pl] = waiting[pl] \cup HandedKeys(b(pl), known[pl])
        BY <2>1 DEF Round
      <3>2. /\ known[pl] \in SUBSET Keys /\ made[pl] \in [Keys -> Nat]
            /\ waiting[pl] \in SUBSET Keys
            /\ \A key \in Keys :
                 made[pl][key] <= 1 /\ (made[pl][key] > 0 => key \in known[pl])
        BY DEF Inv, TypeOK, MadeKnown
      <3> QED BY <3>1, <3>2, PassKeys, CountOnce
    <2>2. CASE ~PassRuns(pl, p)
      BY <2>2 DEF Round, Inv, TypeOK, MadeKnown
    <2> QED BY <2>1, <2>2
  <1>2. TypeOK'
    <2>1. /\ known' \in [Platforms -> SUBSET Keys]
          /\ made' \in [Platforms -> [Keys -> Nat]]
          /\ waiting' \in [Platforms -> SUBSET Keys]
      BY <1>1 DEF Round
    <2>2. shown' \in [DOMAIN shown -> States] /\ DOMAIN shown' = DOMAIN shown
      BY DEF Round, Inv, TypeOK, States
    <2>3. broke' \in [Platforms -> BOOLEAN] /\ cut' \in BOOLEAN /\ after' = after
      BY DEF Round, Inv, TypeOK
    <2> QED BY <2>1, <2>2, <2>3 DEF Inv, TypeOK
  <1>3. MadeKnown'
    BY <1>1 DEF MadeKnown
  <1>4. Listening'
    BY DEF Inv, Listening
  <1>5. DOMAIN shown' = DOMAIN shown
    BY DEF Round
  <1>6. Idle'
    <2> SUFFICES ASSUME NEW pl \in Platforms, platform[pl] # "up"
                 PROVE  /\ known'[pl] = {} /\ waiting'[pl] = {}
                        /\ \A key \in Keys :
                             made'[pl][key] = 0 /\ <<pl, key>> \notin DOMAIN shown'
      BY DEF Idle
    <2>1. ~PassRuns(pl, p)
      BY DEF PassRuns, Inv, Listening
    <2> QED BY <1>5, <2>1 DEF Round, Inv, Idle
  <1>7. NothingLost'
    <2> SUFFICES ASSUME NEW pl \in Platforms, platform[pl] = "up", ~broke'[pl]
                 PROVE  /\ known'[pl] = {key \in Keys : <<pl, key>> \in DOMAIN shown}
                                          \cup waiting'[pl]
                        /\ ~cut' => \A i \in DOMAIN b(pl) : b(pl)[i].key \in known'[pl]
      BY <1>5 DEF NothingLost
    <2>1. ~broke[pl] /\ ~(PassRuns(pl, p) /\ PassRaises(pl, p))
      BY DEF Round
    <2>2. known[pl] = {key \in Keys : <<pl, key>> \in DOMAIN shown} \cup waiting[pl]
      BY <2>1 DEF Inv, NothingLost
    <2>3. CASE PassRuns(pl, p)
      <3>1. Raising(b(pl), known[pl]) = {}
        BY <2>1, <2>3 DEF PassRaises
      <3>2. /\ known'[pl] = Learned(b(pl), known[pl])
            /\ waiting'[pl] = waiting[pl] \cup HandedKeys(b(pl), known[pl])
        BY <2>3 DEF Round
      <3>3. known'[pl] = known[pl] \cup HandedKeys(b(pl), known[pl])
        BY <3>1, <3>2, HandedLearned
      <3>4. \A i \in DOMAIN b(pl) : b(pl)[i].key \in known'[pl]
        BY <3>1, <3>2, PassKnowsAll
      <3> QED BY <2>2, <3>2, <3>3, <3>4
    <2>4. CASE ~PassRuns(pl, p)
      <3>1. cut'
        <4>1. Ends(p) # {}
          BY <2>4 DEF PassRuns, Inv, Listening
        <4> QED BY <4>1 DEF Round
      <3>2. known'[pl] = known[pl] /\ waiting'[pl] = waiting[pl]
        BY <2>4 DEF Round
      <3> QED BY <2>2, <3>1, <3>2
    <2> QED BY <2>3, <2>4
  <1>8. EntitiesCurrent'
    <2> SUFFICES ASSUME ~cut', NEW e \in DOMAIN shown
                 PROVE  shown'[e] = [data |-> p, ok |-> success]
      BY <1>5 DEF EntitiesCurrent
    <2>1. Told(e, p)
      BY DEF Round, Told
    <2> QED BY <2>1 DEF Round
  <1> QED BY <1>2, <1>3, <1>4, <1>6, <1>7, <1>8 DEF Inv
(* Setting the entry up, or finishing that, touches no platform.           *)
LEMMA EntrySetsUpInv == Inv /\ EntrySetsUp => Inv'
  <1> SUFFICES ASSUME Inv, EntrySetsUp PROVE Inv'
    OBVIOUS
  <1>1. \A pl \in Platforms : platform[pl] = "off"
    BY DEF EntrySetsUp, Inv, Listening
  <1>2. DOMAIN shown = {}
    <2>1. \A pl \in Platforms, key \in Keys : <<pl, key>> \notin DOMAIN shown
      BY <1>1 DEF Inv, Idle
    <2>2. DOMAIN shown \subseteq Platforms \X Keys
      BY DEF Inv, TypeOK
    <2> QED BY <2>1, <2>2
  <1>3. TypeOK'
    BY DEF EntrySetsUp, Inv, TypeOK
  <1>4. Idle' /\ MadeKnown' /\ Listening'
    BY DEF EntrySetsUp, Inv, Idle, MadeKnown, Listening
  <1>5. NothingLost' /\ EntitiesCurrent'
    BY <1>1, <1>2 DEF EntrySetsUp, NothingLost, EntitiesCurrent
  <1> QED BY <1>3, <1>4, <1>5 DEF Inv

LEMMA EntryLoadedInv == Inv /\ EntryLoaded => Inv'
  <1> SUFFICES ASSUME Inv, EntryLoaded PROVE Inv'
    OBVIOUS
  <1>1. TypeOK'
    BY DEF EntryLoaded, Inv, TypeOK
  <1>2. Idle' /\ MadeKnown' /\ Listening'
    BY DEF EntryLoaded, Inv, Idle, MadeKnown, Listening
  <1>3. NothingLost' /\ EntitiesCurrent'
    BY DEF EntryLoaded, Inv, NothingLost, EntitiesCurrent
  <1> QED BY <1>1, <1>2, <1>3 DEF Inv

(* A platform that sets up had nothing; after its first pass, what it      *)
(* learned is what it handed over, and all that the payload has.           *)
LEMMA PlatformSetsUpInv ==
  ASSUME Inv, NEW pl \in Platforms, PlatformSetsUp(pl)
  PROVE  Inv'
  <1> DEFINE b == Build(pl, data)
             raises == Raising(b, {}) # {}
  <1>1. /\ platform[pl] = "off" /\ known[pl] = {} /\ waiting[pl] = {}
        /\ \A key \in Keys : <<pl, key>> \notin DOMAIN shown
    BY DEF PlatformSetsUp, Inv, Idle
  <1>0. \A key \in Keys : made[pl][key] = 0
    BY DEF PlatformSetsUp, Inv, Idle
  <1>2. /\ Learned(b, {}) \in SUBSET Keys /\ HandedKeys(b, {}) \in SUBSET Keys
        /\ ~raises => Learned(b, {}) = HandedKeys(b, {})
        /\ raises => HandedKeys(b, {}) = {}
    <2>1. data \in Payloads
      BY DEF Inv, TypeOK
    <2> QED BY <2>1, PassKeys, HandedLearned
  <1>3. /\ Count(made[pl], b, {}) \in [Keys -> Nat]
        /\ \A key \in Keys :
             /\ Count(made[pl], b, {})[key] <= 1
             /\ Count(made[pl], b, {})[key] > 0 => key \in Learned(b, {})
             /\ raises => Count(made[pl], b, {})[key] = 0
    <2>1. made[pl] \in [Keys -> Nat] /\ data \in Payloads
      BY DEF Inv, TypeOK
    <2>2. \A key \in Keys : made[pl][key] <= 1 /\ (made[pl][key] > 0 => key \in {})
      BY <1>0
    <2>3. raises => \A key \in Keys : Count(made[pl], b, {})[key] = 0
      <3> SUFFICES ASSUME raises, NEW key \in Keys
                   PROVE  Count(made[pl], b, {})[key] = 0
        OBVIOUS
      <3>1. {i \in Handed(b, {}) : b[i].key = key} = {}
        BY DEF Handed
      <3>2. Cardinality({i \in Handed(b, {}) : b[i].key = key}) = 0
        BY <3>1, FS_EmptySet
      <3>3. Count(made[pl], b, {})[key]
              = made[pl][key] + Cardinality({i \in Handed(b, {}) : b[i].key = key})
        BY DEF Count
      <3> HIDE DEF b
      <3> QED BY <1>0, <3>2, <3>3
    <2> QED BY <2>1, <2>2, <2>3, CountOnce
  <1>4. /\ platform' = [platform EXCEPT ![pl] = IF raises THEN "down" ELSE "up"]
        /\ known' = [known EXCEPT ![pl] = IF raises THEN {} ELSE Learned(b, {})]
        /\ made' = [made EXCEPT ![pl] = Count(@, b, {})]
        /\ waiting' = [waiting EXCEPT ![pl] = HandedKeys(b, {})]
        /\ passes' = IF raises THEN passes ELSE Append(passes, pl)
        /\ broke' = [broke EXCEPT ![pl] = raises]
        /\ entry = "setup"
        /\ UNCHANGED <<data, ok, entry, after, shown, cut>>
    BY DEF PlatformSetsUp
  <1>5. TypeOK /\ Idle /\ MadeKnown /\ Listening /\ NothingLost /\ EntitiesCurrent
    BY DEF Inv
  <1> HIDE DEF b, raises
  <1>6. TypeOK'
    <2>1. passes' \in Seq(Platforms)
      BY <1>4, <1>5 DEF TypeOK
    <2>2. /\ known' \in [Platforms -> SUBSET Keys]
          /\ waiting' \in [Platforms -> SUBSET Keys]
          /\ made' \in [Platforms -> [Keys -> Nat]]
      BY <1>2, <1>3, <1>4, <1>5 DEF TypeOK
    <2>3. /\ platform' \in [Platforms -> {"off", "up", "down"}]
          /\ broke' \in [Platforms -> BOOLEAN]
      BY <1>4, <1>5 DEF TypeOK, raises
    <2> QED BY <1>4, <1>5, <2>1, <2>2, <2>3 DEF TypeOK
  <1>7. Idle'
    <2> SUFFICES ASSUME NEW x \in Platforms, platform'[x] # "up"
                 PROVE  /\ known'[x] = {} /\ waiting'[x] = {}
                        /\ \A key \in Keys :
                             made'[x][key] = 0 /\ <<x, key>> \notin DOMAIN shown
      BY <1>4 DEF Idle
    <2>1. CASE x = pl
      BY <1>1, <1>2, <1>3, <1>4, <1>5, <2>1 DEF TypeOK
    <2>2. CASE x # pl
      BY <1>4, <1>5, <2>2 DEF TypeOK, Idle
    <2> QED BY <2>1, <2>2
  <1>8. MadeKnown'
    <2> SUFFICES ASSUME NEW x \in Platforms, NEW key \in Keys
                 PROVE  made'[x][key] <= 1 /\ (made'[x][key] > 0 => key \in known'[x])
      BY DEF MadeKnown
    <2>1. CASE x = pl
      BY <1>3, <1>4, <1>5, <2>1 DEF TypeOK
    <2>2. CASE x # pl
      BY <1>4, <1>5, <2>2 DEF TypeOK, MadeKnown
    <2> QED BY <2>1, <2>2
  <1>9. Listening'
    <2>1. CASE raises
      BY <1>1, <1>4, <1>5, <2>1 DEF TypeOK, Listening
    <2>2. CASE ~raises
      <3>1. /\ passes' = Append(passes, pl) /\ passes \in Seq(Platforms)
            /\ platform' = [platform EXCEPT ![pl] = "up"]
        BY <1>4, <1>5, <2>2 DEF TypeOK
      <3>2. \A x \in Platforms :
              (\E i \in DOMAIN passes' : passes'[i] = x)
                <=> (x = pl \/ \E i \in DOMAIN passes : passes[i] = x)
        BY <3>1
      <3> QED BY <1>4, <1>5, <3>1, <3>2 DEF TypeOK, Listening
    <2> QED BY <2>1, <2>2
  <1>10. NothingLost'
    <2> SUFFICES ASSUME NEW x \in Platforms, platform'[x] = "up", ~broke'[x]
                 PROVE  /\ known'[x] = {key \in Keys : <<x, key>> \in DOMAIN shown}
                                          \cup waiting'[x]
                        /\ ~cut' => \A i \in DOMAIN Build(x, data) :
                                       Build(x, data)[i].key \in known'[x]
      BY <1>4 DEF NothingLost
    <2>1. CASE x = pl
      <3>1. ~raises
        BY <1>4, <1>5, <2>1 DEF TypeOK
      <3>2. known'[x] = Learned(b, {}) /\ waiting'[x] = HandedKeys(b, {})
        BY <1>4, <1>5, <2>1, <3>1 DEF TypeOK
      <3>3. \A i \in DOMAIN b : b[i].key \in Learned(b, {})
        <4>1. data \in Payloads
          BY <1>5 DEF TypeOK
        <4> QED BY <3>1, <4>1, PassKnowsAll DEF b, raises
      <3> QED BY <1>1, <1>2, <2>1, <3>1, <3>2, <3>3 DEF b
    <2>2. CASE x # pl
      <3>1. /\ known'[x] = known[x] /\ waiting'[x] = waiting[x] /\ platform[x] = "up"
            /\ ~broke[x]
        BY <1>4, <1>5, <2>2 DEF TypeOK
      <3> QED BY <1>4, <1>5, <3>1 DEF NothingLost
    <2> QED BY <2>1, <2>2
  <1>11. EntitiesCurrent'
    BY <1>4, <1>5 DEF EntitiesCurrent
  <1> QED BY <1>6, <1>7, <1>8, <1>9, <1>10, <1>11 DEF Inv
(* The entities added show the payload as it is.                           *)
LEMMA EntitiesAddedInv ==
  ASSUME Inv, NEW pl \in Platforms, EntitiesAdded(pl)
  PROVE  Inv'
  <1> DEFINE batch == {<<pl, key>> : key \in waiting[pl]}
  <1>1. /\ batch # {}
        /\ waiting' = [waiting EXCEPT ![pl] = {}]
        /\ after' = [e \in DOMAIN after \cup batch |->
                       IF e \in batch THEN Len(passes) ELSE after[e]]
        /\ shown' = [e \in DOMAIN shown \cup batch |->
                       IF e \in batch THEN [data |-> data, ok |-> ok] ELSE shown[e]]
        /\ UNCHANGED <<data, ok, entry, platform, known, made, passes, broke, cut>>
    BY DEF EntitiesAdded
  <1>2. TypeOK /\ Idle /\ MadeKnown /\ Listening /\ NothingLost /\ EntitiesCurrent
    BY DEF Inv
  <1>3. waiting[pl] \in SUBSET Keys /\ waiting[pl] # {}
    BY <1>1, <1>2 DEF TypeOK
  <1>4. batch \subseteq Platforms \X Keys
    BY <1>3
  <1>5. platform[pl] = "up"
    BY <1>2, <1>3 DEF Idle
  <1>6. \A x \in Platforms, key \in Keys :
          /\ x # pl => (<<x, key>> \in DOMAIN shown' <=> <<x, key>> \in DOMAIN shown)
          /\ <<pl, key>> \in DOMAIN shown'
               <=> <<pl, key>> \in DOMAIN shown \/ key \in waiting[pl]
    BY <1>1
  <1> HIDE DEF batch
  <1>7. TypeOK'
    <2>1. DOMAIN shown' \subseteq Platforms \X Keys
      BY <1>1, <1>2, <1>4 DEF TypeOK
    <2>2. shown' \in [DOMAIN shown' -> States]
      BY <1>1, <1>2 DEF TypeOK, States
    <2>3. DOMAIN after = DOMAIN shown /\ Len(passes) \in Nat
      BY <1>2 DEF TypeOK
    <2>4. after' \in [DOMAIN shown' -> Nat]
      BY <1>1, <1>2, <2>3 DEF TypeOK
    <2>5. waiting' \in [Platforms -> SUBSET Keys]
      BY <1>1, <1>2 DEF TypeOK
    <2> QED BY <1>1, <1>2, <2>1, <2>2, <2>4, <2>5 DEF TypeOK
  <1>8. Idle'
    <2> SUFFICES ASSUME NEW x \in Platforms, platform[x] # "up"
                 PROVE  /\ known'[x] = {} /\ waiting'[x] = {}
                        /\ \A key \in Keys :
                             made'[x][key] = 0 /\ <<x, key>> \notin DOMAIN shown'
      BY <1>1 DEF Idle
    <2>1. x # pl
      BY <1>5
    <2>2. waiting'[x] = waiting[x] /\ known' = known /\ made' = made
      BY <1>1, <1>2, <2>1 DEF TypeOK
    <2>3. \A key \in Keys : <<x, key>> \notin DOMAIN shown'
      BY <1>2, <1>6, <2>1 DEF Idle
    <2>4. known[x] = {} /\ waiting[x] = {}
      BY <1>2 DEF Idle
    <2>5. \A key \in Keys : made[x][key] = 0
      BY <1>2 DEF Idle
    <2> QED BY <2>2, <2>3, <2>4, <2>5
  <1>9. MadeKnown' /\ Listening'
    BY <1>1, <1>2 DEF MadeKnown, Listening
  <1>10. NothingLost'
    <2> SUFFICES ASSUME NEW x \in Platforms, platform[x] = "up", ~broke[x]
                 PROVE  /\ known[x] = {key \in Keys : <<x, key>> \in DOMAIN shown'}
                                         \cup waiting'[x]
                        /\ ~cut => \A i \in DOMAIN Build(x, data) :
                                      Build(x, data)[i].key \in known[x]
      BY <1>1 DEF NothingLost
    <2>1. /\ known[x] = {key \in Keys : <<x, key>> \in DOMAIN shown} \cup waiting[x]
          /\ ~cut => \A i \in DOMAIN Build(x, data) :
                        Build(x, data)[i].key \in known[x]
      BY <1>2 DEF NothingLost
    <2>2. CASE x = pl
      <3>1. waiting'[x] = {}
        BY <1>1, <1>2, <2>2 DEF TypeOK
      <3>2. {key \in Keys : <<x, key>> \in DOMAIN shown'}
              = {key \in Keys : <<x, key>> \in DOMAIN shown} \cup waiting[x]
        BY <1>3, <1>6, <2>2
      <3> QED BY <2>1, <3>1, <3>2
    <2>3. CASE x # pl
      <3>1. waiting'[x] = waiting[x]
        BY <1>1, <1>2, <2>3 DEF TypeOK
      <3>2. {key \in Keys : <<x, key>> \in DOMAIN shown'}
              = {key \in Keys : <<x, key>> \in DOMAIN shown}
        BY <1>6, <2>3
      <3> QED BY <2>1, <3>1, <3>2
    <2> QED BY <2>2, <2>3
  <1>11. EntitiesCurrent'
    BY <1>1, <1>2 DEF EntitiesCurrent
  <1> QED BY <1>7, <1>8, <1>9, <1>10, <1>11 DEF Inv

(* A poll is a round of listeners, or nothing that they hear of.           *)
LEMMA PollSucceedsInv == Inv /\ PollSucceeds => Inv'
  <1> SUFFICES ASSUME Inv, PollSucceeds PROVE Inv'
    OBVIOUS
  <1>1. /\ data' \in Payloads /\ ok' = TRUE /\ Round(data', TRUE)
        /\ UNCHANGED <<entry, platform, passes>>
    BY DEF PollSucceeds
  <1> QED BY <1>1, RoundInv

LEMMA PollFailsInv == Inv /\ PollFails => Inv'
  <1> SUFFICES ASSUME Inv, PollFails PROVE Inv'
    OBVIOUS
  <1>1. /\ data' = data /\ ok' = FALSE /\ UNCHANGED <<entry, platform, passes>>
        /\ data \in Payloads
    BY DEF PollFails, Inv, TypeOK
  <1>2. CASE ok
    <2>1. Round(data, FALSE)
      BY <1>2 DEF PollFails
    <2> QED BY <1>1, <2>1, RoundInv
  <1>3. CASE ~ok
    <2>1. ok' = ok /\ UNCHANGED <<known, made, waiting, after, shown, broke, cut>>
      BY <1>1, <1>3 DEF PollFails, Inv, TypeOK
    <2>2. TypeOK' /\ Idle' /\ MadeKnown' /\ Listening'
      BY <1>1, <2>1 DEF Inv, TypeOK, Idle, MadeKnown, Listening
    <2>3. NothingLost' /\ EntitiesCurrent'
      BY <1>1, <2>1 DEF Inv, NothingLost, EntitiesCurrent
    <2> QED BY <2>2, <2>3 DEF Inv
  <1> QED BY <1>2, <1>3

(* Nothing is left of a setup that unloads.                                *)
LEMMA EntryUnloadsInv == Inv /\ EntryUnloads => Inv'
  <1> SUFFICES ASSUME Inv, EntryUnloads PROVE Inv'
    OBVIOUS
  <1> USE DEF EntryUnloads, Nothing, NoneMade
  <1>1. TypeOK'
    <2>1. passes' \in Seq(Platforms)
      OBVIOUS
    <2>2. /\ DOMAIN shown' = {} /\ DOMAIN after' = {}
          /\ shown' \in [DOMAIN shown' -> States] /\ after' \in [DOMAIN shown' -> Nat]
      OBVIOUS
    <2>3. made' \in [Platforms -> [Keys -> Nat]]
      OBVIOUS
    <2> QED BY <2>1, <2>2, <2>3 DEF Inv, TypeOK
  <1>2. Idle' /\ MadeKnown' /\ Listening'
    BY DEF Idle, MadeKnown, Listening
  <1>3. NothingLost' /\ EntitiesCurrent'
    BY DEF NothingLost, EntitiesCurrent
  <1> QED BY <1>1, <1>2, <1>3 DEF Inv

(* Every step keeps the invariant.                                         *)
THEOREM NextInv == Inv /\ [Next]_vars => Inv'
  <1> SUFFICES ASSUME Inv, [Next]_vars PROVE Inv'
    OBVIOUS
  <1>1. CASE UNCHANGED vars
    <2> USE <1>1 DEF vars
    <2>1. TypeOK' /\ Idle' /\ MadeKnown' /\ Listening'
      BY DEF Inv, TypeOK, Idle, MadeKnown, Listening
    <2>2. NothingLost' /\ EntitiesCurrent'
      BY DEF Inv, NothingLost, EntitiesCurrent
    <2> QED BY <2>1, <2>2 DEF Inv
  <1>2. ASSUME NEW pl \in Platforms, PlatformSetsUp(pl) PROVE Inv'
    BY <1>2, PlatformSetsUpInv
  <1>3. ASSUME NEW pl \in Platforms, EntitiesAdded(pl) PROVE Inv'
    BY <1>3, EntitiesAddedInv
  <1> QED BY <1>1, <1>2, <1>3, EntrySetsUpInv, EntryLoadedInv, PollSucceedsInv,
             PollFailsInv, EntryUnloadsInv DEF Next

----------------------------------------------------------------------------
(* The invariant always holds.                                             *)
THEOREM Invariance == Spec => []Inv
  BY InitInv, NextInv, PTL DEF Spec

(* Every variable of the registration keeps its type.                      *)
THEOREM Typing == Spec => []TypeOK
  <1>1. Inv => TypeOK
    BY DEF Inv
  <1> QED BY <1>1, Invariance, PTL

(* No setup creates two entities for one item (klereo_add_entities).       *)
THEOREM NeverTwice == Spec => []NoEntityTwice
  <1>1. Inv => NoEntityTwice
    BY DEF Inv, MadeKnown, NoEntityTwice
  <1> QED BY <1>1, Invariance, PTL

(* Every item of the payload has its entity, of a platform that no item    *)
(* made raise (klereo_add_entities).                                       *)
THEOREM AllItemsHaveEntities == Spec => []ItemsHaveEntities
  <1>1. Inv => ItemsHaveEntities
    BY DEF Inv, NothingLost, ItemsHaveEntities
  <1> QED BY <1>1, Invariance, PTL

(* Every entity shows the last poll (KlereoEntity, the coordinator).       *)
THEOREM AlwaysCurrent == Spec => []EntitiesCurrent
  <1>1. Inv => EntitiesCurrent
    BY DEF Inv
  <1> QED BY <1>1, Invariance, PTL

----------------------------------------------------------------------------
(* A round is cut short by a payload that something raises on, and until   *)
(* another payload has been through a round.                               *)
CutByRaising == cut => entry = "loaded" /\ ~Harmless(data)

(* A pass has raised only if some payload can make one.                    *)
BrokenByRaising ==
  \A pl \in Platforms : broke[pl] => \E p \in Payloads : ~Harmless(p)

(* On a harmless payload nothing raises, whatever is known.                *)
LEMMA HarmlessRaisesNothing ==
  ASSUME NEW pl \in Platforms, NEW p, Harmless(p), NEW k
  PROVE  Raising(Build(pl, p), k) = {}
  BY DEF Harmless, Raising

LEMMA RoundRaises ==
  ASSUME Inv, NEW p \in Payloads, NEW success, Round(p, success), Harmless(p)
  PROVE  /\ cut' = FALSE
         /\ \A pl \in Platforms : broke'[pl] <=> broke[pl]
  <1>1. \A pl \in Platforms : ~PassRaises(pl, p)
    BY HarmlessRaisesNothing DEF PassRaises
  <1>2. \A i \in DOMAIN passes : passes[i] \in Platforms
    BY DEF Inv, TypeOK
  <1>3. Ends(p) = {}
    BY <1>1, <1>2 DEF Ends
  <1> QED BY <1>1, <1>3 DEF Round

LEMMA CutByRaisingInv == Inv /\ CutByRaising /\ [Next]_vars => CutByRaising'
  <1> SUFFICES ASSUME Inv, CutByRaising, [Next]_vars PROVE CutByRaising'
    OBVIOUS
  <1> USE DEF CutByRaising
  <1>1. CASE EntrySetsUp \/ EntryLoaded
    BY <1>1 DEF EntrySetsUp, EntryLoaded
  <1>2. ASSUME NEW pl \in Platforms, PlatformSetsUp(pl) \/ EntitiesAdded(pl)
        PROVE  CutByRaising'
    BY <1>2 DEF PlatformSetsUp, EntitiesAdded, Harmless
  <1>3. CASE PollSucceeds
    <2>1. entry' = "loaded" /\ data' \in Payloads /\ Round(data', TRUE)
      BY <1>3 DEF PollSucceeds
    <2>2. Harmless(data') => cut' = FALSE
      BY <2>1, RoundRaises
    <2> QED BY <2>1, <2>2 DEF Harmless
  <1>4. CASE PollFails
    <2>1. entry' = "loaded" /\ data' = data /\ data \in Payloads
      BY <1>4 DEF PollFails, Inv, TypeOK
    <2>2. CASE ok
      <3>1. Harmless(data) => cut' = FALSE
        BY <1>4, <2>1, <2>2, RoundRaises DEF PollFails
      <3> QED BY <2>1, <3>1 DEF Harmless
    <2>3. CASE ~ok
      BY <1>4, <2>1, <2>3 DEF PollFails, Harmless
    <2> QED BY <2>2, <2>3
  <1>5. CASE EntryUnloads
    BY <1>5 DEF EntryUnloads
  <1>6. CASE UNCHANGED vars
    BY <1>6 DEF vars, Harmless
  <1> QED BY <1>1, <1>2, <1>3, <1>4, <1>5, <1>6 DEF Next

(* The listeners' round is ended by a payload that makes one of them raise *)
(* and by nothing else, an outage or a reload included.                    *)
THEOREM CutOnlyByRaising == Spec => []CutByRaising
  <1>1. Init => CutByRaising
    BY DEF Init, CutByRaising
  <1> QED BY <1>1, CutByRaisingInv, Invariance, PTL DEF Spec

(* So on a payload nothing raises on, every entity shows it, whatever the  *)
(* payloads before it did (KlereoEntity._handle_coordinator_update).       *)
THEOREM CurrentWhenHarmless ==
  Spec => [](Harmless(data) =>
               \A e \in DOMAIN shown : shown[e] = [data |-> data, ok |-> ok])
  <1>1. CutByRaising /\ EntitiesCurrent =>
          (Harmless(data) =>
             \A e \in DOMAIN shown : shown[e] = [data |-> data, ok |-> ok])
    BY DEF CutByRaising, EntitiesCurrent
  <1> QED BY <1>1, CutOnlyByRaising, AlwaysCurrent, PTL

(* No pass raises unless some payload makes it.                            *)
THEOREM BrokenOnlyByRaising == Spec => []BrokenByRaising
  <1>1. Init => BrokenByRaising
    BY DEF Init, BrokenByRaising
  <1>2. Inv /\ BrokenByRaising /\ [Next]_vars => BrokenByRaising'
    <2> SUFFICES ASSUME Inv, BrokenByRaising, [Next]_vars,
                        \A p \in Payloads : Harmless(p),
                        NEW pl \in Platforms
                 PROVE  ~broke'[pl]
      BY DEF BrokenByRaising, Harmless
    <2>0. ~broke[pl] /\ data \in Payloads /\ broke \in [Platforms -> BOOLEAN]
      BY DEF BrokenByRaising, Inv, TypeOK
    <2>1. ASSUME NEW q \in Platforms, PlatformSetsUp(q) PROVE ~broke'[pl]
      <3>1. Raising(Build(q, data), {}) = {}
        BY <2>0, HarmlessRaisesNothing
      <3> QED BY <2>0, <2>1, <3>1 DEF PlatformSetsUp
    <2>2. ASSUME NEW p \in Payloads, NEW success, Round(p, success) PROVE ~broke'[pl]
      BY <2>0, <2>2, RoundRaises
    <2>3. CASE PollSucceeds
      BY <2>2, <2>3 DEF PollSucceeds
    <2>4. CASE PollFails
      BY <2>0, <2>2, <2>4 DEF PollFails
    <2>5. CASE \/ EntrySetsUp \/ EntryLoaded \/ EntryUnloads
               \/ (\E q \in Platforms : EntitiesAdded(q)) \/ UNCHANGED vars
      BY <2>0, <2>5 DEF EntrySetsUp, EntryLoaded, EntryUnloads, EntitiesAdded, vars
    <2> QED BY <2>1, <2>3, <2>4, <2>5 DEF Next
  <1> QED BY <1>1, <1>2, Invariance, PTL DEF Spec
=============================================================================
