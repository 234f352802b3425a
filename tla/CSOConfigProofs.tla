-------------------------- MODULE CSOConfigProofs --------------------------
(***************************************************************************)
(* Proofs about CSOConfig, for every set of files, values and tables, and, *)
(* in its second half, about Base64, for data of every length.             *)
(***************************************************************************)
EXTENDS CSOConfig, WellFoundedInduction, TLAPS

(***************************************************************************)
(* The inductive invariant: where the iterators stand, and what has been   *)
(* read and loaded when they stand there.                                  *)
(***************************************************************************)
\* The iterators do not move before cso_params has returned; inside an entry
\* they stand at one that can be indexed.
IteratorInv ==
  /\ pc \in {"find", "start", "uri", "custom", "params"} => params = <<>> /\ it = 1 /\ loaded = <<>>
  /\ pc = "libs" => it <= Len(params) /\ params[it] \in Entry
  /\ pc = "ready" => it > Len(params)

\* A place in the table before the one the iterators stand at.
Passed(e, l) == e < it \/ (pc = "libs" /\ e = it /\ l < i)

\* The libraries before the iterators, and only those, have been loaded.
LoadedPassed ==
  /\ \A e \in DOMAIN params : params[e] # Scalar =>
       \A l \in DOMAIN params[e].loadlibs :
         Passed(e, l) => \E n \in DOMAIN loaded : loaded[n] = <<e, l>>
  /\ \A n \in DOMAIN loaded : Passed(loaded[n][1], loaded[n][2])

LoadedInOrder ==
  \A m, n \in DOMAIN loaded : m < n =>
    \/ loaded[m][1] < loaded[n][1]
    \/ loaded[m][1] = loaded[n][1] /\ loaded[m][2] < loaded[n][2]

IInv == TypeOK /\ IteratorInv /\ SettingsLastGiven /\ LoadedPassed /\ LoadedInOrder

-----------------------------------------------------------------------------
\* What cso_params may return, and returned, is a sequence of entries.
LEMMA TablesType == Tables \subseteq Seq(Entries) /\ <<>> \in Seq(Entries)
<1>1. <<>> \in Seq(Entries)
  OBVIOUS
<1> QED
  BY <1>1, ConfigAssumption

\* The table is a sequence of entries.
LEMMA ParamsType ==
  ASSUME TypeOK
  PROVE  params \in Seq(Entries) /\ Len(params) \in Nat
<1>1. params \in Seq(Entries)
  BY TablesType DEF TypeOK
<1> QED
  BY <1>1

\* An entry of the table is an Entry unless it is a number or a boolean.
LEMMA EntryOfTable ==
  ASSUME TypeOK, NEW n \in DOMAIN params
  PROVE  /\ params \in Seq(Entries)
         /\ params[n] # Scalar => params[n] \in Entry
<1>1. params \in Seq(Entries)
  BY ParamsType
<1> QED
  BY <1>1, ConfigAssumption

\* Evaluating a file leaves every function with a known owner.
LEMMA EvaluatedType ==
  ASSUME TypeOK, NEW effect \in Effects,
         NEW file \in Files \cup {"start.lua", "null.lua"}
  PROVE  Evaluated(file, effect) \in [Hooks -> Files \cup {"cso.lua", "start.lua", "null.lua", None}]
BY DEF TypeOK, Effects, Evaluated

\* The constructor starts in the invariant.
LEMMA InitInv == Init => IInv
<1> SUFFICES ASSUME Init PROVE IInv
  OBVIOUS
<1>1. TypeOK
  <2>1. Len(params) = 0 /\ it \in 1 .. Len(params) + 1
    BY DEF Init
  <2>2. loaded \in Seq((Nat \ {0}) \X (Nat \ {0}))
    BY DEF Init
  <2>3. settings \in [Params -> Values] /\ self_port \in Values
    BY ConfigAssumption DEF Init
  <2>4. owner \in [Hooks -> Files \cup {"cso.lua", "start.lua", "null.lua", None}]
    BY DEF Init
  <2>5. /\ pc = "find" /\ cso_custom_script_uri \in Homes \X (Files \cup {"null.lua"})
        /\ cso_home_path \in Homes /\ evaluated = {}
        /\ params \in Tables \cup {<<>>} /\ i \in Nat \ {0}
    BY DEF Init, Null, Homes
  <2>6. crashed \in BOOLEAN
    BY DEF Init
  <2> QED
    BY <2>1, <2>2, <2>3, <2>4, <2>5, <2>6 DEF TypeOK
<1>2. IteratorInv /\ LoadedPassed /\ LoadedInOrder
  BY DEF Init, IteratorInv, LoadedPassed, LoadedInOrder
<1>3. SettingsLastGiven
  BY DEF Init, SettingsLastGiven, Read, Params
<1> QED
  BY <1>1, <1>2, <1>3 DEF IInv

\* Type correctness, from where the iterators stand.
LEMMA TypeStep ==
  ASSUME IInv, Next
  PROVE  TypeOK'
<1> USE DEF IInv, TypeOK
<1>0. params \in Seq(Entries) /\ Len(params) \in Nat
  BY ParamsType
<1>0a. CASE FindStart
  <2>1. PICK places \in Searches : cso_home_path' = HomeFound(places)
    BY <1>0a DEF FindStart
  <2>2. cso_home_path' \in Homes
    <3>1. places \in Seq(Place)
      BY ConfigAssumption
    <3>2. CASE places = <<>>
      BY <2>1, <3>2 DEF HomeFound, Homes
    <3>3. CASE places # <<>>
      <4>1. Head(places) \in Place
        BY <3>1, <3>3
      <4> QED
        BY <2>1, <4>1 DEF HomeFound, Homes, Place
    <3> QED
      BY <3>2, <3>3
  <2> QED
    BY <1>0a, <2>2 DEF FindStart
<1>1. ASSUME NEW effect \in Effects, LoadStart(effect) PROVE TypeOK'
  BY <1>1, EvaluatedType DEF LoadStart
<1>2. ASSUME NEW effect \in Effects, LoadCustom(effect) PROVE TypeOK'
  BY <1>2, EvaluatedType DEF LoadCustom
<1>3. ASSUME NEW effect \in Effects, LoadLib(effect) PROVE TypeOK'
  <2>1. params[it] \in Entry /\ it \in Nat \ {0}
    BY <1>3 DEF LoadLib, IteratorInv
  <2>2. params[it].loadlibs[i] \in Files
    BY <1>3, <2>1 DEF LoadLib, Entry
  <2>3. owner' \in [Hooks -> Files \cup {"cso.lua", "start.lua", "null.lua", None}]
    BY <1>3, <2>2, EvaluatedType DEF LoadLib
  <2>4. loaded' \in Seq((Nat \ {0}) \X (Nat \ {0}))
    BY <1>3, <2>1 DEF LoadLib
  <2> QED
    BY <1>3, <2>2, <2>3, <2>4 DEF LoadLib, InHome
<1>4. CASE CallUri
  <2>1. cso_custom_script_uri' \in Homes \X (Files \cup {"null.lua"})
    BY <1>4 DEF CallUri, InHome
  <2> QED
    BY <1>4, <2>1 DEF CallUri
<1>5. CASE CallParams
  <2>1. params' \in Tables \cup {<<>>} /\ it' = 1
    BY <1>5 DEF CallParams, IteratorInv
  <2>2. Len(params') \in Nat /\ it' \in 1 .. Len(params') + 1
    <3>1. params' \in Seq(Entries)
      <4>1. Tables \subseteq Seq(Entries) /\ <<>> \in Seq(Entries)
        BY TablesType
      <4> QED
        BY <2>1, <4>1
    <3> QED
      BY <2>1, <3>1
  <2> QED
    BY <1>5, <2>1, <2>2 DEF CallParams, scriptVars
<1>6. CASE ReadEntry
  <2>1. it \in DOMAIN params
    BY <1>0, <1>6 DEF ReadEntry
  <2>2. CASE params[it] = Scalar
    BY <1>6, <2>2 DEF ReadEntry, scriptVars
  <2>3. CASE params[it] # Scalar
    <3>1. params[it] \in Entry
      BY <2>1, <2>3, EntryOfTable
    <3>2. WithEntry(params[it]) \in [Params -> Values]
      BY <3>1 DEF WithEntry, Entry
    <3> QED
      BY <1>6, <2>3, <3>2 DEF ReadEntry, scriptVars
  <2> QED
    BY <2>2, <2>3
<1>7. CASE NextEntry
  BY <1>0, <1>7 DEF NextEntry, AfterEntry, IteratorInv, scriptVars
<1>8. CASE CallInit
  <2>1. InitPort \in Values
    BY DEF InitPort, Params
  <2> QED
    BY <1>8, <2>1 DEF CallInit, scriptVars
<1> QED
  BY <1>0a, <1>1, <1>2, <1>3, <1>4, <1>5, <1>6, <1>7, <1>8 DEF Next

\* Every step keeps the iterators inside the table and the entry.
LEMMA IteratorStep ==
  ASSUME IInv, Next
  PROVE  IteratorInv'
<1> USE DEF IInv, IteratorInv, TypeOK
<1>0. params \in Seq(Entries) /\ Len(params) \in Nat
  BY ParamsType
<1>1. ASSUME NEW effect \in Effects, LoadStart(effect) \/ LoadCustom(effect) PROVE IteratorInv'
  BY <1>1 DEF LoadStart, LoadCustom
<1>2. ASSUME NEW effect \in Effects, LoadLib(effect) PROVE IteratorInv'
  BY <1>2 DEF LoadLib
<1>3. CASE FindStart \/ CallUri
  BY <1>3 DEF FindStart, CallUri
<1>4. CASE CallParams
  BY <1>4 DEF CallParams
<1>5. CASE ReadEntry
  <2>1. it \in DOMAIN params
    BY <1>0, <1>5 DEF ReadEntry
  <2>2. params[it] # Scalar => params[it] \in Entry
    BY <2>1, EntryOfTable
  <2> QED
    BY <1>5, <2>2 DEF ReadEntry
<1>6. CASE NextEntry
  BY <1>6 DEF NextEntry
<1>7. CASE CallInit
  BY <1>7 DEF CallInit
<1> QED
  BY <1>1, <1>2, <1>3, <1>4, <1>5, <1>6, <1>7 DEF Next

\* The settings: only ReadEntry changes them, by the entry that it adds to
\* those read, and that is the last of them.
LEMMA SettingsStep ==
  ASSUME IInv, Next
  PROVE  SettingsLastGiven'
<1> USE DEF IInv, TypeOK
<1>0. params \in Seq(Entries) /\ Len(params) \in Nat
  BY ParamsType
<1>1. ASSUME params' = params, settings' = settings, Read' = Read PROVE SettingsLastGiven'
  BY <1>1 DEF SettingsLastGiven
<1>2. CASE \E effect \in Effects : LoadStart(effect) \/ LoadCustom(effect) \/ LoadLib(effect)
  <2>1. Read' = Read
    BY <1>2 DEF LoadStart, LoadCustom, LoadLib, Read
  <2> QED
    BY <1>1, <1>2, <2>1 DEF LoadStart, LoadCustom, LoadLib
<1>3. CASE FindStart \/ CallUri
  <2>1. Read' = Read
    BY <1>3 DEF FindStart, CallUri, Read
  <2> QED
    BY <1>1, <1>3, <2>1 DEF FindStart, CallUri
<1>4. CASE CallParams
  <2>1. Read = {} /\ Read' = {}
    BY <1>4 DEF CallParams, Read, IteratorInv
  <2> QED
    BY <1>4, <2>1 DEF CallParams, SettingsLastGiven
<1>5. CASE ReadEntry
  <2>1. CASE params[it] = Scalar
    <3>1. Read' = Read
      BY <1>5, <2>1 DEF ReadEntry, Read
    <3> QED
      BY <1>1, <1>5, <2>1, <3>1 DEF ReadEntry
  <2>2. CASE params[it] # Scalar
    <3>1. /\ Read' = Read \cup {it} /\ it \in Nat
          /\ \A n \in Read : n \in Nat /\ n < it
      BY <1>0, <1>5, <2>2 DEF ReadEntry, Read
    <3>2. /\ settings' = [p \in Params |-> IF params[it].set[p] = None THEN settings[p]
                                           ELSE params[it].set[p]]
          /\ params' = params
      BY <1>5, <2>2 DEF ReadEntry, WithEntry
    <3> SUFFICES ASSUME NEW p \in Params
                 PROVE  LET Giving == {n \in Read' : params[n] # Scalar /\ params[n].set[p] # None} IN
                        /\ Giving = {} => settings'[p] = Default
                        /\ \A n \in Giving : (\A k \in Giving : k <= n) =>
                             settings'[p] = params[n].set[p]
      BY <3>2 DEF SettingsLastGiven
    <3> DEFINE Old == {n \in Read : params[n] # Scalar /\ params[n].set[p] # None}
    <3>3. /\ Old = {} => settings[p] = Default
          /\ \A n \in Old : (\A k \in Old : k <= n) => settings[p] = params[n].set[p]
      BY DEF SettingsLastGiven
    <3>4. CASE params[it].set[p] = None
      <4>1. {n \in Read' : params[n] # Scalar /\ params[n].set[p] # None} = Old
        BY <3>1, <3>4
      <4> QED
        BY <3>2, <3>3, <3>4, <4>1
    <3>5. CASE params[it].set[p] # None
      <4>1. {n \in Read' : params[n] # Scalar /\ params[n].set[p] # None} = Old \cup {it}
        BY <2>2, <3>1, <3>5
      <4>2. settings'[p] = params[it].set[p]
        BY <3>2, <3>5
      <4>3. \A n \in Old : ~(it <= n)
        BY <3>1
      <4> QED
        BY <4>1, <4>2, <4>3
    <3> QED
      BY <3>4, <3>5
  <2> QED
    BY <2>1, <2>2
<1>6. CASE NextEntry
  <2>1. Read' = Read
    BY <1>0, <1>6 DEF NextEntry, AfterEntry, Read
  <2> QED
    BY <1>1, <1>6, <2>1 DEF NextEntry
<1>7. CASE CallInit
  <2>1. Read' = Read
    BY <1>7 DEF CallInit, Read
  <2> QED
    BY <1>1, <1>7, <2>1 DEF CallInit
<1> QED
  BY <1>2, <1>3, <1>4, <1>5, <1>6, <1>7 DEF Next

\* The libraries: LoadLib adds the place the iterators stand at, and moves
\* them past it; the other steps move them past no library.
LEMMA LoadedStep ==
  ASSUME IInv, Next
  PROVE  LoadedPassed' /\ LoadedInOrder'
<1> USE DEF IInv, TypeOK
<1>0. params \in Seq(Entries) /\ Len(params) \in Nat /\ Len(loaded) \in Nat
  BY ParamsType
<1>1. ASSUME params' = params, loaded' = loaded, \A e \in Nat, l \in Nat : Passed(e, l)' <=> Passed(e, l)
      PROVE  LoadedPassed' /\ LoadedInOrder'
  <2>1. LoadedInOrder'
    BY <1>1 DEF LoadedInOrder
  <2>2. \A n \in DOMAIN loaded : loaded[n][1] \in Nat /\ loaded[n][2] \in Nat
    OBVIOUS
  <2>3. \A e \in DOMAIN params : e \in Nat
    BY <1>0
  <2>4. \A e \in DOMAIN params : params[e] # Scalar => \A l \in DOMAIN params[e].loadlibs : l \in Nat
    <3> SUFFICES ASSUME NEW e \in DOMAIN params, params[e] # Scalar
                 PROVE  \A l \in DOMAIN params[e].loadlibs : l \in Nat
      OBVIOUS
    <3>1. params[e].loadlibs \in Seq(Files)
      BY EntryOfTable DEF Entry
    <3> QED
      BY <3>1
  <2> QED
    BY <1>1, <2>1, <2>2, <2>3, <2>4 DEF LoadedPassed
<1>2. CASE \E effect \in Effects : LoadStart(effect) \/ LoadCustom(effect)
  BY <1>1, <1>2 DEF LoadStart, LoadCustom, Passed
<1>3. ASSUME NEW effect \in Effects, LoadLib(effect) PROVE LoadedPassed' /\ LoadedInOrder'
  <2>1. /\ loaded' = Append(loaded, <<it, i>>) /\ i' = i + 1 /\ pc = "libs"
        /\ UNCHANGED <<pc, params, it>>
    BY <1>3 DEF LoadLib
  <2>2. /\ DOMAIN loaded' = DOMAIN loaded \cup {Len(loaded) + 1}
        /\ \A n \in DOMAIN loaded : loaded'[n] = loaded[n] /\ n < Len(loaded) + 1
        /\ loaded'[Len(loaded) + 1] = <<it, i>>
    <3>1. loaded \in Seq((Nat \ {0}) \X (Nat \ {0}))
      OBVIOUS
    <3> HIDE DEF IInv, TypeOK
    <3> QED
      BY <1>0, <2>1, <3>1
  <2>3. \A n \in DOMAIN loaded : loaded[n][1] < it \/ (loaded[n][1] = it /\ loaded[n][2] < i)
    BY DEF LoadedPassed, Passed
  <2>4. \A n \in DOMAIN loaded : loaded[n][1] \in Nat /\ loaded[n][2] \in Nat
    OBVIOUS
  <2>5. LoadedInOrder'
    <3> SUFFICES ASSUME NEW m \in DOMAIN loaded', NEW n \in DOMAIN loaded', m < n
                 PROVE  \/ loaded'[m][1] < loaded'[n][1]
                        \/ loaded'[m][1] = loaded'[n][1] /\ loaded'[m][2] < loaded'[n][2]
      BY DEF LoadedInOrder
    <3>1. m \in DOMAIN loaded
      BY <1>0, <2>2
    <3>2. CASE n \in DOMAIN loaded
      <4>1. loaded'[m] = loaded[m] /\ loaded'[n] = loaded[n]
        BY <2>2, <3>1, <3>2
      <4>2. loaded[m][1] < loaded[n][1] \/ (loaded[m][1] = loaded[n][1] /\ loaded[m][2] < loaded[n][2])
        BY <3>1, <3>2, Zenon DEF LoadedInOrder
      <4> QED
        BY <4>1, <4>2
    <3>3. CASE n = Len(loaded) + 1
      <4>1. loaded'[m] = loaded[m] /\ loaded'[n] = <<it, i>>
        BY <2>2, <3>1, <3>3
      <4>2. loaded'[n][1] = it /\ loaded'[n][2] = i
        BY <4>1
      <4>3. loaded[m][1] < it \/ (loaded[m][1] = it /\ loaded[m][2] < i)
        BY <2>3, <3>1
      <4> QED
        BY <4>1, <4>2, <4>3
    <3> QED
      BY <2>2, <3>2, <3>3
  <2>6. \A n \in DOMAIN loaded' : Passed(loaded[n][1], loaded[n][2])'
    BY <2>1, <2>2, <2>3, <2>4 DEF Passed
  <2>7. ASSUME NEW e \in DOMAIN params, params[e] # Scalar,
               NEW l \in DOMAIN params[e].loadlibs, Passed(e, l)'
        PROVE  \E n \in DOMAIN loaded' : loaded'[n] = <<e, l>>
    <3>1. l \in Nat
      <4>1. params[e].loadlibs \in Seq(Files)
        BY <2>7, EntryOfTable DEF Entry
      <4> QED
        BY <4>1
    <3>2. CASE Passed(e, l)
      <4>1. PICK n \in DOMAIN loaded : loaded[n] = <<e, l>>
        BY <2>7, <3>2 DEF LoadedPassed
      <4> QED
        BY <2>2, <4>1
    <3>3. CASE ~Passed(e, l)
      <4>1. e = it /\ l = i
        BY <2>1, <2>7, <3>1, <3>3 DEF Passed
      <4> QED
        BY <2>2, <4>1
    <3> QED
      BY <3>2, <3>3
  <2> QED
    BY <2>1, <2>5, <2>6, <2>7 DEF LoadedPassed
<1>4. CASE FindStart \/ CallUri
  BY <1>1, <1>4 DEF FindStart, CallUri, Passed
<1>5. CASE CallParams
  <2>1. loaded' = <<>> /\ it' = 1 /\ pc' = "entry"
    BY <1>5 DEF CallParams, IteratorInv
  <2>2. params' \in Seq(Entries)
    BY <1>0, <1>5, ConfigAssumption DEF CallParams
  <2> QED
    BY <2>1, <2>2 DEF LoadedPassed, LoadedInOrder, Passed
<1>6. CASE ReadEntry
  <2>1. CASE params[it] = Scalar
    BY <1>1, <1>6, <2>1 DEF ReadEntry, Passed
  <2>2. CASE params[it] # Scalar
    <3>1. /\ loaded' = loaded /\ params' = params /\ it' = it
          /\ i' = 1 /\ pc = "entry" /\ pc' = "libs"
      BY <1>6, <2>2 DEF ReadEntry
    <3>2. LoadedInOrder'
      BY <3>1 DEF LoadedInOrder
    <3>3. \A n \in DOMAIN loaded : Passed(loaded[n][1], loaded[n][2])'
      BY <3>1 DEF LoadedPassed, Passed
    <3>4. ASSUME NEW e \in DOMAIN params, params[e] # Scalar,
                 NEW l \in DOMAIN params[e].loadlibs, Passed(e, l)'
          PROVE  Passed(e, l)
      <4>1. params[e].loadlibs \in Seq(Files)
        BY <3>4, EntryOfTable DEF Entry
      <4>2. ~(l < 1)
        BY <4>1
      <4> QED
        BY <3>1, <3>4, <4>2 DEF Passed
    <3> QED
      BY <3>1, <3>2, <3>3, <3>4 DEF LoadedPassed
  <2> QED
    BY <2>1, <2>2
<1>7. CASE NextEntry
  <2>1. /\ loaded' = loaded /\ params' = params /\ it' = it + 1
        /\ pc = "libs" /\ pc' = "entry" /\ i > Len(params[it].loadlibs)
    BY <1>7 DEF NextEntry, AfterEntry
  <2>2. LoadedInOrder'
    BY <2>1 DEF LoadedInOrder
  <2>3. \A n \in DOMAIN loaded : Passed(loaded[n][1], loaded[n][2])'
    <3>1. \A n \in DOMAIN loaded : loaded[n][1] < it \/ loaded[n][1] = it
      BY DEF LoadedPassed, Passed
    <3>2. \A n \in DOMAIN loaded : loaded[n][1] \in Nat
      OBVIOUS
    <3>3. it \in Nat
      BY <1>0
    <3>4. \A n \in DOMAIN loaded : loaded[n][1] < it + 1
      BY <3>1, <3>2, <3>3
    <3> QED
      BY <2>1, <3>4 DEF Passed
  <2>4. ASSUME NEW e \in DOMAIN params, params[e] # Scalar,
               NEW l \in DOMAIN params[e].loadlibs, Passed(e, l)'
        PROVE  Passed(e, l)
    <3>1. params[e].loadlibs \in Seq(Files) /\ e \in Nat
      BY <1>0, <2>4, EntryOfTable DEF Entry
    <3>2. e < it + 1
      BY <2>1, <2>4 DEF Passed
    <3>3. CASE e = it
      BY <2>1, <3>1, <3>3 DEF Passed
    <3>4. CASE e < it
      BY <3>4 DEF Passed
    <3> QED
      BY <3>1, <3>2, <3>3, <3>4
  <2> QED
    BY <2>1, <2>2, <2>3, <2>4 DEF LoadedPassed
<1>8. CASE CallInit
  BY <1>1, <1>8 DEF CallInit, Passed
<1> QED
  BY <1>2, <1>3, <1>4, <1>5, <1>6, <1>7, <1>8 DEF Next

\* IInv is an invariant.
THEOREM Invariance == Spec => []IInv
<1>1. IInv /\ UNCHANGED vars => IInv'
  <2> SUFFICES ASSUME IInv, UNCHANGED vars PROVE IInv'
    OBVIOUS
  <2>1. TypeOK'
    BY DEF IInv, TypeOK, vars, scriptVars
  <2>2. IteratorInv'
    BY DEF IInv, IteratorInv, vars
  <2>3. SettingsLastGiven'
    BY DEF IInv, SettingsLastGiven, Read, vars
  <2>4. LoadedPassed' /\ LoadedInOrder'
    BY DEF IInv, LoadedPassed, Passed, LoadedInOrder, vars
  <2> QED
    BY <2>1, <2>2, <2>3, <2>4 DEF IInv
<1>2. IInv /\ [Next]_vars => IInv'
  BY <1>1, TypeStep, IteratorStep, SettingsStep, LoadedStep DEF IInv
<1> QED
  BY <1>2, InitInv, PTL DEF Spec

-----------------------------------------------------------------------------
\* Every state of lua_init has its type.
THEOREM TypeCorrect == Spec => []TypeOK
BY Invariance, PTL DEF IInv

\* Each parameter has the value given last by the table in force.
THEOREM LastSettingWins == Spec => []SettingsLastGiven
BY Invariance, PTL DEF IInv

\* When cso_init is called, every library was loaded once, in order.
THEOREM LibrariesLoaded == Spec => []LibsAllLoaded
<1>1. IInv => LibsAllLoaded
  <2> SUFFICES ASSUME IInv, pc = "ready" PROVE LibsAllLoaded
    BY DEF LibsAllLoaded
  <2>1. params \in Seq(Entries) /\ Len(params) \in Nat /\ it > Len(params) /\ it \in Nat
    BY ParamsType DEF IInv, TypeOK, IteratorInv
  <2>2. \A e \in DOMAIN params : e < it
    BY <2>1
  <2> QED
    BY <2>2 DEF LibsAllLoaded, IInv, LoadedPassed, LoadedInOrder, Passed
<1> QED
  BY <1>1, Invariance, PTL

\* cso_init of cso.lua points self_tx to the port start() will open.
THEOREM SelfReached == Spec => []SelfReachesServer
<1>1. Init => SelfReachesServer
  BY DEF Init, SelfReachesServer
<1>2. SelfReachesServer /\ [Next]_vars => SelfReachesServer'
  <2> SUFFICES ASSUME SelfReachesServer, [Next]_vars PROVE SelfReachesServer'
    OBVIOUS
  <2>1. CASE UNCHANGED vars
    BY <2>1 DEF SelfReachesServer, vars, scriptVars
  <2>2. CASE CallInit
    BY <2>2, ConfigAssumption DEF CallInit, InitPort, SelfReachesServer, scriptVars
  <2>3. CASE Next /\ ~CallInit
    BY <2>3 DEF Next, FindStart, LoadStart, LoadCustom, LoadLib, CallUri, CallParams, ReadEntry,
               NextEntry, SelfReachesServer
  <2> QED
    BY <2>1, <2>2, <2>3
<1> QED
  BY <1>1, <1>2, PTL DEF Spec

\* All scripts come from where start.lua was found: the search is over before
\* the first of them is evaluated.
HomeInv ==
  /\ pc = "find" => evaluated = {} /\ cso_custom_script_uri = Null
  /\ cso_custom_script_uri[1] = cso_home_path \/ cso_custom_script_uri = Null
  /\ ScriptsTogether

\* All scripts come from the directory of start.lua, but for the null.lua of
\* /tmp/cso.
THEOREM OneHome == Spec => []ScriptsTogether
<1>1. Init => HomeInv
  BY DEF Init, HomeInv, ScriptsTogether
<1>2. HomeInv /\ [Next]_vars => HomeInv'
  <2> SUFFICES ASSUME HomeInv, [Next]_vars PROVE HomeInv'
    OBVIOUS
  <2> USE DEF HomeInv, ScriptsTogether
  <2>1. CASE UNCHANGED vars
    BY <2>1 DEF vars, scriptVars
  <2>2. CASE FindStart
    BY <2>2 DEF FindStart
  <2>3. ASSUME NEW effect \in Effects, LoadStart(effect) PROVE HomeInv'
    BY <2>3 DEF LoadStart
  <2>4. ASSUME NEW effect \in Effects, LoadCustom(effect) PROVE HomeInv'
    BY <2>4 DEF LoadCustom
  <2>5. ASSUME NEW effect \in Effects, LoadLib(effect) PROVE HomeInv'
    BY <2>5 DEF LoadLib, InHome
  <2>6. CASE CallUri
    BY <2>6 DEF CallUri, InHome
  <2>7. CASE CallParams \/ ReadEntry \/ NextEntry \/ CallInit
    BY <2>7 DEF CallParams, ReadEntry, NextEntry, CallInit, scriptVars
  <2> QED
    BY <2>1, <2>2, <2>3, <2>4, <2>5, <2>6, <2>7 DEF Next
<1> QED
  BY <1>1, <1>2, PTL DEF Spec, HomeInv


-----------------------------------------------------------------------------
(***************************************************************************)
(* The scripts built into the program: cso_b64.h, for all data.            *)
(***************************************************************************)

\* A byte is the number its eight binary digits stand for.
LEMMA ByteOfBits ==
  ASSUME NEW x \in Byte
  PROVE  /\ x = 128 * Bit(x, 7) + 64 * Bit(x, 6) + 32 * Bit(x, 5) + 16 * Bit(x, 4)
                  + 8 * Bit(x, 3) + 4 * Bit(x, 2) + 2 * Bit(x, 1) + Bit(x, 0)
         /\ \A n \in 0 .. 7 : Bit(x, n) \in {0, 1}
<1>1. /\ Bit(x, 7) = (x \div 128) % 2 /\ Bit(x, 6) = (x \div 64) % 2
      /\ Bit(x, 5) = (x \div 32) % 2 /\ Bit(x, 4) = (x \div 16) % 2
      /\ Bit(x, 3) = (x \div 8) % 2 /\ Bit(x, 2) = (x \div 4) % 2
      /\ Bit(x, 1) = (x \div 2) % 2 /\ Bit(x, 0) = x % 2
  BY DEF Bit, Byte
<1>2. ASSUME NEW n \in 0 .. 7 PROVE Bit(x, n) \in {0, 1}
  BY <1>1 DEF Byte
<1>3. x = 128 * ((x \div 128) % 2) + 64 * ((x \div 64) % 2) + 32 * ((x \div 32) % 2)
            + 16 * ((x \div 16) % 2) + 8 * ((x \div 8) % 2) + 4 * ((x \div 4) % 2)
            + 2 * ((x \div 2) % 2) + (x % 2)
  BY DEF Byte
<1>4. x = 128 * Bit(x, 7) + 64 * Bit(x, 6) + 32 * Bit(x, 5) + 16 * Bit(x, 4)
            + 8 * Bit(x, 3) + 4 * Bit(x, 2) + 2 * Bit(x, 1) + Bit(x, 0)
  BY <1>1, <1>3
<1> QED
  BY <1>2, <1>4

\* What the arithmetic of Base64 takes of a byte, in its binary digits.
LEMMA PartsOfByte ==
  ASSUME NEW x \in Byte
  PROVE  /\ x \div 4 = 32 * Bit(x, 7) + 16 * Bit(x, 6) + 8 * Bit(x, 5) + 4 * Bit(x, 4)
                         + 2 * Bit(x, 3) + Bit(x, 2)
         /\ x % 4 = 2 * Bit(x, 1) + Bit(x, 0)
         /\ x \div 16 = 8 * Bit(x, 7) + 4 * Bit(x, 6) + 2 * Bit(x, 5) + Bit(x, 4)
         /\ x % 16 = 8 * Bit(x, 3) + 4 * Bit(x, 2) + 2 * Bit(x, 1) + Bit(x, 0)
         /\ x \div 64 = 2 * Bit(x, 7) + Bit(x, 6)
         /\ x % 64 = 32 * Bit(x, 5) + 16 * Bit(x, 4) + 8 * Bit(x, 3) + 4 * Bit(x, 2)
                       + 2 * Bit(x, 1) + Bit(x, 0)
<1>1. /\ Bit(x, 7) = (x \div 128) % 2 /\ Bit(x, 6) = (x \div 64) % 2
      /\ Bit(x, 5) = (x \div 32) % 2 /\ Bit(x, 4) = (x \div 16) % 2
      /\ Bit(x, 3) = (x \div 8) % 2 /\ Bit(x, 2) = (x \div 4) % 2
      /\ Bit(x, 1) = (x \div 2) % 2 /\ Bit(x, 0) = x % 2
  BY DEF Bit, Byte
<1>2. x \div 4 = 32 * ((x \div 128) % 2) + 16 * ((x \div 64) % 2) + 8 * ((x \div 32) % 2)
                   + 4 * ((x \div 16) % 2) + 2 * ((x \div 8) % 2) + ((x \div 4) % 2)
  BY DEF Byte
<1>3. x % 4 = 2 * ((x \div 2) % 2) + (x % 2)
  BY DEF Byte
<1>4. x \div 16 = 8 * ((x \div 128) % 2) + 4 * ((x \div 64) % 2) + 2 * ((x \div 32) % 2)
                    + ((x \div 16) % 2)
  BY DEF Byte
<1>5. x % 16 = 8 * ((x \div 8) % 2) + 4 * ((x \div 4) % 2) + 2 * ((x \div 2) % 2) + (x % 2)
  BY DEF Byte
<1>6. x \div 64 = 2 * ((x \div 128) % 2) + ((x \div 64) % 2)
  BY DEF Byte
<1>7. x % 64 = 32 * ((x \div 32) % 2) + 16 * ((x \div 16) % 2) + 8 * ((x \div 8) % 2)
                 + 4 * ((x \div 4) % 2) + 2 * ((x \div 2) % 2) + (x % 2)
  BY DEF Byte
<1> QED
  BY <1>1, <1>2, <1>3, <1>4, <1>5, <1>6, <1>7

Binary == {0, 1}

\* The number six binary digits stand for.
Number(a, b, c, d, e, f) == 32 * a + 16 * b + 8 * c + 4 * d + 2 * e + f

\* Writing six binary digits as a number loses none of them.
LEMMA BitsOfDigit ==
  ASSUME NEW a \in Binary, NEW b \in Binary, NEW c \in Binary,
         NEW d \in Binary, NEW e \in Binary, NEW f \in Binary
  PROVE  /\ Number(a, b, c, d, e, f) \in Digit
         /\ Bit(Number(a, b, c, d, e, f), 5) = a /\ Bit(Number(a, b, c, d, e, f), 4) = b
         /\ Bit(Number(a, b, c, d, e, f), 3) = c /\ Bit(Number(a, b, c, d, e, f), 2) = d
         /\ Bit(Number(a, b, c, d, e, f), 1) = e /\ Bit(Number(a, b, c, d, e, f), 0) = f
<1> DEFINE x == Number(a, b, c, d, e, f)
<1>1. x = 32 * a + 16 * b + 8 * c + 4 * d + 2 * e + f
  BY DEF Number
<1> HIDE DEF x
<1>2. /\ x \in Digit
      /\ Bit(x, 5) = a /\ Bit(x, 4) = b /\ Bit(x, 3) = c
      /\ Bit(x, 2) = d /\ Bit(x, 1) = e /\ Bit(x, 0) = f
  BY <1>1 DEF Bit, Digit, Binary
<1> QED
  BY <1>2 DEF x

\* The binary digits the encoder makes of the data.
Encoded(data) == Bits(data, 8) \o <<0, 0, 0, 0>>

\* Where the binary digit j of byte v is among those of n bytes.
LEMMA Position ==
  \A n \in Nat : \A v \in 1 .. n, j \in 0 .. 7 :
    /\ 8 * v - j \in 1 .. 8 * n
    /\ (8 * v - j - 1) \div 8 + 1 = v /\ 8 - 1 - ((8 * v - j - 1) % 8) = j
OBVIOUS

\* The binary digits of the encoder: those of the data, byte by byte, and the
\* four zeros that fill up.
LEMMA EncodedBits ==
  ASSUME NEW data \in Seq(Byte)
  PROVE  LET n == Len(data)
             bits == Encoded(data)
         IN  /\ n \in Nat /\ bits \in Seq({0, 1}) /\ Len(bits) = 8 * n + 4
             /\ \A v \in 1 .. n :
                  /\ bits[8 * v - 7] = Bit(data[v], 7) /\ bits[8 * v - 6] = Bit(data[v], 6)
                  /\ bits[8 * v - 5] = Bit(data[v], 5) /\ bits[8 * v - 4] = Bit(data[v], 4)
                  /\ bits[8 * v - 3] = Bit(data[v], 3) /\ bits[8 * v - 2] = Bit(data[v], 2)
                  /\ bits[8 * v - 1] = Bit(data[v], 1) /\ bits[8 * v] = Bit(data[v], 0)
             /\ bits[8 * n + 1] = 0 /\ bits[8 * n + 2] = 0
             /\ bits[8 * n + 3] = 0 /\ bits[8 * n + 4] = 0
<1> DEFINE n == Len(data)
           bits == Encoded(data)
<1> DEFINE full == Bits(data, 8)
           zeros == <<0, 0, 0, 0>>
<1>1. n \in Nat
  OBVIOUS
<1> HIDE DEF n, bits
<1>2. full = [k \in 1 .. 8 * n |-> Bit(data[(k - 1) \div 8 + 1], 8 - 1 - ((k - 1) % 8))]
  BY DEF Bits, n
<1>3. ASSUME NEW k \in 1 .. 8 * n PROVE full[k] \in {0, 1}
  <2>1. (k - 1) \div 8 + 1 \in 1 .. n /\ 8 - 1 - ((k - 1) % 8) \in 0 .. 7
    BY <1>1
  <2>2. data[(k - 1) \div 8 + 1] \in Byte
    BY <2>1 DEF n
  <2>3. Bit(data[(k - 1) \div 8 + 1], 8 - 1 - ((k - 1) % 8)) \in {0, 1}
    BY <2>1, <2>2, ByteOfBits
  <2> QED
    BY <1>2, <2>3
<1>4. full \in Seq({0, 1}) /\ Len(full) = 8 * n
  <2> DEFINE B(k) == Bit(data[(k - 1) \div 8 + 1], 8 - 1 - ((k - 1) % 8))
  <2>1. \A k \in 1 .. 8 * n : B(k) \in {0, 1}
    BY <1>2, <1>3
  <2>2. full = [k \in 1 .. 8 * n |-> B(k)] /\ 8 * n \in Nat
    BY <1>1, <1>2
  <2> HIDE DEF full, B
  <2> QED
    BY <2>1, <2>2
<1>5. ASSUME NEW v \in 1 .. n, NEW j \in 0 .. 7, NEW k, k = 8 * v - j
      PROVE  full[k] = Bit(data[v], j) /\ k \in 1 .. 8 * n
  <2>1. k \in 1 .. 8 * n /\ (k - 1) \div 8 + 1 = v /\ 8 - 1 - ((k - 1) % 8) = j
    BY <1>1, <1>5, Position
  <2> QED
    BY <1>2, <2>1
<1>6. zeros \in Seq({0, 1}) /\ Len(zeros) = 4 /\ \A k \in 1 .. 4 : zeros[k] = 0
  OBVIOUS
<1> HIDE DEF full, zeros
<1>7. /\ bits \in Seq({0, 1}) /\ Len(bits) = Len(full) + Len(zeros)
      /\ \A k \in 1 .. Len(full) : bits[k] = full[k]
      /\ \A k \in 1 .. Len(zeros) : bits[Len(full) + k] = zeros[k]
  <2> DEFINE both == full \o zeros
  <2>1. full \in Seq({0, 1}) /\ zeros \in Seq({0, 1})
    BY <1>4, <1>6
  <2>2. /\ both \in Seq({0, 1}) /\ Len(both) = Len(full) + Len(zeros)
        /\ \A k \in 1 .. Len(full) : both[k] = full[k]
        /\ \A k \in 1 .. Len(zeros) : both[Len(full) + k] = zeros[k]
    BY <2>1
  <2>3. bits = both
    BY DEF Encoded, full, zeros, bits
  <2> HIDE DEF both
  <2> QED
    BY <2>2, <2>3
<1>8. ASSUME NEW v \in 1 .. n, NEW j \in 0 .. 7 PROVE bits[8 * v - j] = Bit(data[v], j)
  <2>1. full[8 * v - j] = Bit(data[v], j) /\ 8 * v - j \in 1 .. 8 * n
    BY <1>5
  <2> QED
    BY <1>4, <1>7, <2>1
<1>9. ASSUME NEW j \in 1 .. 4 PROVE bits[8 * n + j] = 0
  BY <1>1, <1>4, <1>6, <1>7
<1>10. ASSUME NEW v \in 1 .. n
       PROVE  /\ bits[8 * v - 7] = Bit(data[v], 7) /\ bits[8 * v - 6] = Bit(data[v], 6)
              /\ bits[8 * v - 5] = Bit(data[v], 5) /\ bits[8 * v - 4] = Bit(data[v], 4)
              /\ bits[8 * v - 3] = Bit(data[v], 3) /\ bits[8 * v - 2] = Bit(data[v], 2)
              /\ bits[8 * v - 1] = Bit(data[v], 1) /\ bits[8 * v] = Bit(data[v], 0)
  <2>1. 8 * v - 0 = 8 * v
    BY <1>1
  <2> QED
    BY <1>8, <2>1
<1> QED
  BY <1>1, <1>4, <1>6, <1>7, <1>9, <1>10 DEF n, bits

\* Grouped by six, all binary digits are kept but those of a group that is not
\* full.
LEMMA DigitsWritten ==
  ASSUME NEW bits \in Seq({0, 1})
  PROVE  LET m == Len(bits) \div 6
             s == Sextets(bits)
         IN  /\ m \in Nat /\ s \in Seq(Digit) /\ Len(s) = m
             /\ Bits(s, 6) \in Seq({0, 1}) /\ Len(Bits(s, 6)) = 6 * m
             /\ \A k \in 1 .. 6 * m : Bits(s, 6)[k] = bits[k]
             /\ \A g \in 1 .. m :
                  s[g] = 32 * bits[6 * g - 5] + 16 * bits[6 * g - 4] + 8 * bits[6 * g - 3]
                           + 4 * bits[6 * g - 2] + 2 * bits[6 * g - 1] + bits[6 * g]
<1> DEFINE m == Len(bits) \div 6
           s == Sextets(bits)
<1>1. m \in Nat /\ 6 * m <= Len(bits) /\ Len(bits) \in Nat
  OBVIOUS
<1>1a. m = Len(bits) \div 6 /\ s = Sextets(bits)
  OBVIOUS
<1> HIDE DEF m, s
<1>2. ASSUME NEW k \in 1 .. 6 * m PROVE bits[k] \in {0, 1}
  BY <1>1
<1> DEFINE S(g) == Number(bits[6 * (g - 1) + 1], bits[6 * (g - 1) + 2], bits[6 * (g - 1) + 3],
                          bits[6 * (g - 1) + 4], bits[6 * (g - 1) + 5], bits[6 * (g - 1) + 6])
<1>3. s = [g \in 1 .. m |-> S(g)]
  BY <1>1a DEF Sextets, Number
<1>4. ASSUME NEW g \in 1 .. m
      PROVE  S(g) \in Digit /\ \A j \in 0 .. 5 : Bit(S(g), j) = bits[6 * (g - 1) + (6 - j)]
  <2>1. \A j \in 1 .. 6 : 6 * (g - 1) + j \in 1 .. 6 * m
    BY <1>1
  <2>2. \A j \in 1 .. 6 : bits[6 * (g - 1) + j] \in {0, 1}
    BY <1>2, <2>1
  <2>3. /\ S(g) \in Digit
        /\ Bit(S(g), 5) = bits[6 * (g - 1) + 1] /\ Bit(S(g), 4) = bits[6 * (g - 1) + 2]
        /\ Bit(S(g), 3) = bits[6 * (g - 1) + 3] /\ Bit(S(g), 2) = bits[6 * (g - 1) + 4]
        /\ Bit(S(g), 1) = bits[6 * (g - 1) + 5] /\ Bit(S(g), 0) = bits[6 * (g - 1) + 6]
    <3> DEFINE a == bits[6 * (g - 1) + 1]
               b == bits[6 * (g - 1) + 2]
               c == bits[6 * (g - 1) + 3]
               d == bits[6 * (g - 1) + 4]
               e == bits[6 * (g - 1) + 5]
               f == bits[6 * (g - 1) + 6]
    <3>1. /\ a \in Binary /\ b \in Binary /\ c \in Binary
          /\ d \in Binary /\ e \in Binary /\ f \in Binary
      BY <2>2 DEF Binary
    <3>2. S(g) = Number(a, b, c, d, e, f)
      OBVIOUS
    <3> HIDE DEF a, b, c, d, e, f, S
    <3>3. /\ S(g) \in Digit
          /\ Bit(S(g), 5) = a /\ Bit(S(g), 4) = b /\ Bit(S(g), 3) = c
          /\ Bit(S(g), 2) = d /\ Bit(S(g), 1) = e /\ Bit(S(g), 0) = f
      BY <3>1, <3>2, BitsOfDigit
    <3> QED
      BY <3>3 DEF a, b, c, d, e, f
  <2> HIDE DEF S
  <2>4. ASSUME NEW j \in 0 .. 5 PROVE Bit(S(g), j) = bits[6 * (g - 1) + (6 - j)]
    <3>1. /\ 6 - 0 = 6 /\ 6 - 1 = 5 /\ 6 - 2 = 4 /\ 6 - 3 = 3 /\ 6 - 4 = 2 /\ 6 - 5 = 1
          /\ (j = 0 \/ j = 1 \/ j = 2 \/ j = 3 \/ j = 4 \/ j = 5)
      OBVIOUS
    <3> QED
      BY <2>3, <3>1, Zenon
  <2> QED
    BY <2>3, <2>4
<1> HIDE DEF S
<1>5. s \in Seq(Digit) /\ Len(s) = m /\ \A g \in 1 .. m : s[g] = S(g)
  BY <1>1, <1>3, <1>4
<1>6. Bits(s, 6) = [k \in 1 .. 6 * m |-> Bit(s[(k - 1) \div 6 + 1], 6 - 1 - ((k - 1) % 6))]
  BY <1>5 DEF Bits
<1>7. ASSUME NEW k \in 1 .. 6 * m PROVE Bits(s, 6)[k] = bits[k]
  <2> DEFINE g == (k - 1) \div 6 + 1
             j == 6 - 1 - ((k - 1) % 6)
  <2>1. g \in 1 .. m /\ j \in 0 .. 5 /\ k = 6 * (g - 1) + (6 - j)
    BY <1>1
  <2>2. Bits(s, 6)[k] = Bit(s[g], j)
    BY <1>6
  <2> HIDE DEF g, j
  <2>3. Bit(S(g), j) = bits[6 * (g - 1) + (6 - j)]
    BY <1>4, <2>1
  <2> QED
    BY <1>5, <2>1, <2>2, <2>3
<1>8. Bits(s, 6) \in Seq({0, 1}) /\ Len(Bits(s, 6)) = 6 * m
  <2> DEFINE B(k) == Bit(s[(k - 1) \div 6 + 1], 6 - 1 - ((k - 1) % 6))
  <2>1. \A k \in 1 .. 6 * m : B(k) \in {0, 1}
    BY <1>2, <1>6, <1>7
  <2>2. Bits(s, 6) = [k \in 1 .. 6 * m |-> B(k)] /\ 6 * m \in Nat
    BY <1>1, <1>6
  <2> HIDE DEF B
  <2> QED
    BY <2>1, <2>2
<1>9. ASSUME NEW g \in 1 .. m
      PROVE s[g] = 32 * bits[6 * g - 5] + 16 * bits[6 * g - 4] + 8 * bits[6 * g - 3]
                     + 4 * bits[6 * g - 2] + 2 * bits[6 * g - 1] + bits[6 * g]
  <2>1. /\ 6 * (g - 1) + 1 = 6 * g - 5 /\ 6 * (g - 1) + 2 = 6 * g - 4 /\ 6 * (g - 1) + 3 = 6 * g - 3
        /\ 6 * (g - 1) + 4 = 6 * g - 2 /\ 6 * (g - 1) + 5 = 6 * g - 1 /\ 6 * (g - 1) + 6 = 6 * g
    BY <1>1
  <2> QED
    BY <1>5, <2>1 DEF S, Number
<1> QED
  BY <1>1, <1>5, <1>7, <1>8, <1>9 DEF m, s

\* The decoder's half: taken apart and grouped by eight, the digits the encoder
\* wrote are the bytes again, the zeros that filled up are dropped.
LEMMA BytesRead ==
  ASSUME NEW data \in Seq(Byte)
  PROVE  Octets(Bits(Sextets(Encoded(data)), 6)) = data
<1> DEFINE bits == Encoded(data)
           n == Len(data)
           m == Len(bits) \div 6
           b == Bits(Sextets(bits), 6)
<1>0. n \in Nat
  OBVIOUS
<1>1. /\ n \in Nat /\ bits \in Seq({0, 1}) /\ Len(bits) = 8 * n + 4
      /\ \A v \in 1 .. n :
           /\ bits[8 * v - 7] = Bit(data[v], 7) /\ bits[8 * v - 6] = Bit(data[v], 6)
           /\ bits[8 * v - 5] = Bit(data[v], 5) /\ bits[8 * v - 4] = Bit(data[v], 4)
           /\ bits[8 * v - 3] = Bit(data[v], 3) /\ bits[8 * v - 2] = Bit(data[v], 2)
           /\ bits[8 * v - 1] = Bit(data[v], 1) /\ bits[8 * v] = Bit(data[v], 0)
  BY EncodedBits
<1> HIDE DEF n, bits
<1>2. /\ m \in Nat /\ Len(b) = 6 * m
      /\ \A k \in 1 .. 6 * m : b[k] = bits[k]
  BY <1>1, DigitsWritten
<1> DEFINE O(g) == 128 * b[8 * (g - 1) + 1] + 64 * b[8 * (g - 1) + 2] + 32 * b[8 * (g - 1) + 3]
                     + 16 * b[8 * (g - 1) + 4] + 8 * b[8 * (g - 1) + 5] + 4 * b[8 * (g - 1) + 6]
                     + 2 * b[8 * (g - 1) + 7] + b[8 * (g - 1) + 8]
<1>3. Octets(b) = [g \in 1 .. Len(b) \div 8 |-> O(g)]
  BY DEF Octets
<1> HIDE DEF b, m
<1>4. Len(b) \div 8 = n /\ 8 * n <= 6 * m
  BY <1>1, <1>2 DEF m
<1> HIDE DEF n
<1>5. ASSUME NEW g \in 1 .. n PROVE O(g) = data[g]
  <2>1. \A j \in 1 .. 8 : 8 * (g - 1) + j \in 1 .. 6 * m
    BY <1>1, <1>2, <1>4
  <2>2. /\ 8 * (g - 1) + 1 = 8 * g - 7 /\ 8 * (g - 1) + 2 = 8 * g - 6 /\ 8 * (g - 1) + 3 = 8 * g - 5
        /\ 8 * (g - 1) + 4 = 8 * g - 4 /\ 8 * (g - 1) + 5 = 8 * g - 3 /\ 8 * (g - 1) + 6 = 8 * g - 2
        /\ 8 * (g - 1) + 7 = 8 * g - 1 /\ 8 * (g - 1) + 8 = 8 * g
    BY <1>1
  <2>3. /\ b[8 * (g - 1) + 1] = Bit(data[g], 7) /\ b[8 * (g - 1) + 2] = Bit(data[g], 6)
        /\ b[8 * (g - 1) + 3] = Bit(data[g], 5) /\ b[8 * (g - 1) + 4] = Bit(data[g], 4)
        /\ b[8 * (g - 1) + 5] = Bit(data[g], 3) /\ b[8 * (g - 1) + 6] = Bit(data[g], 2)
        /\ b[8 * (g - 1) + 7] = Bit(data[g], 1) /\ b[8 * (g - 1) + 8] = Bit(data[g], 0)
    BY <1>1, <1>2, <2>1, <2>2
  <2>4. data[g] \in Byte
    BY DEF n
  <2> QED
    BY <2>3, <2>4, ByteOfBits
<1> HIDE DEF O
<1>6. Octets(b) = [g \in 1 .. n |-> data[g]]
  BY <1>3, <1>4, <1>5
<1>7. data = [g \in 1 .. n |-> data[g]]
  BY DEF n
<1> QED
  BY <1>6, <1>7 DEF b, bits

\* The encoder's digits are those of the standard, block by block.
LEMMA SameDigits ==
  ASSUME NEW data \in Seq(Byte)
  PROVE  LET n == Len(data)
             s == Sextets(Encoded(data))
         IN  /\ s \in Seq(Digit) /\ n \in Nat /\ Len(s) = (8 * n + 4) \div 6
             /\ \A g \in 1 .. (n + 2) \div 3, p \in 1 .. 4 :
                  4 * (g - 1) + p <= Len(s) => s[4 * (g - 1) + p] = Block(data, g)[p]
<1> DEFINE n == Len(data)
           bits == Encoded(data)
           s == Sextets(bits)
           m == (8 * n + 4) \div 6
<1>1. /\ n \in Nat /\ bits \in Seq({0, 1}) /\ Len(bits) = 8 * n + 4
      /\ \A j \in 1 .. n :
           /\ bits[8 * j - 7] = Bit(data[j], 7) /\ bits[8 * j - 6] = Bit(data[j], 6)
           /\ bits[8 * j - 5] = Bit(data[j], 5) /\ bits[8 * j - 4] = Bit(data[j], 4)
           /\ bits[8 * j - 3] = Bit(data[j], 3) /\ bits[8 * j - 2] = Bit(data[j], 2)
           /\ bits[8 * j - 1] = Bit(data[j], 1) /\ bits[8 * j] = Bit(data[j], 0)
      /\ bits[8 * n + 1] = 0 /\ bits[8 * n + 2] = 0
      /\ bits[8 * n + 3] = 0 /\ bits[8 * n + 4] = 0
  BY EncodedBits
<1> HIDE DEF bits
<1>2. /\ s \in Seq(Digit) /\ Len(s) = m
      /\ \A k \in 1 .. m :
           s[k] = 32 * bits[6 * k - 5] + 16 * bits[6 * k - 4] + 8 * bits[6 * k - 3]
                    + 4 * bits[6 * k - 2] + 2 * bits[6 * k - 1] + bits[6 * k]
  BY <1>1, DigitsWritten
<1> HIDE DEF s
<1>3. ASSUME NEW g \in 1 .. (n + 2) \div 3, NEW p \in 1 .. 4, 4 * (g - 1) + p <= m
      PROVE  s[4 * (g - 1) + p] = Block(data, g)[p]
  <2> DEFINE a == data[3 * g - 2]
             b == IF n > 3 * g - 2 THEN data[3 * g - 1] ELSE 0
             c == IF n > 3 * g - 1 THEN data[3 * g] ELSE 0
  <2>0. g \in Nat \ {0} /\ 3 * g - 2 \in 1 .. n
    BY <1>1
  <2>1. /\ n - 3 * (g - 1) > 1 <=> n > 3 * g - 2
        /\ n - 3 * (g - 1) > 2 <=> n > 3 * g - 1
    BY <1>1, <2>0
  <2>2. Block(data, g) = << a \div 4, (a % 4) * 16 + b \div 16,
                            IF n > 3 * g - 2 THEN (b % 16) * 4 + c \div 64 ELSE Equals,
                            IF n > 3 * g - 1 THEN c % 64 ELSE Equals >>
    BY <2>1 DEF Block
  <2> HIDE DEF n
  <2>3. a \in Byte /\ b \in Byte /\ c \in Byte
    <3>1. \A j \in 1 .. n : data[j] \in Byte
      BY DEF n
    <3>2. (n > 3 * g - 2 => 3 * g - 1 \in 1 .. n) /\ (n > 3 * g - 1 => 3 * g \in 1 .. n)
      BY <1>1, <2>0
    <3>3. 0 \in Byte
      BY DEF Byte
    <3> QED
      BY <2>0, <3>1, <3>2, <3>3
  <2>4. /\ bits[24 * g - 23] = Bit(a, 7) /\ bits[24 * g - 22] = Bit(a, 6)
        /\ bits[24 * g - 21] = Bit(a, 5) /\ bits[24 * g - 20] = Bit(a, 4)
        /\ bits[24 * g - 19] = Bit(a, 3) /\ bits[24 * g - 18] = Bit(a, 2)
        /\ bits[24 * g - 17] = Bit(a, 1) /\ bits[24 * g - 16] = Bit(a, 0)
    <3>1. /\ 8 * (3 * g - 2) - 7 = 24 * g - 23 /\ 8 * (3 * g - 2) - 6 = 24 * g - 22
          /\ 8 * (3 * g - 2) - 5 = 24 * g - 21 /\ 8 * (3 * g - 2) - 4 = 24 * g - 20
          /\ 8 * (3 * g - 2) - 3 = 24 * g - 19 /\ 8 * (3 * g - 2) - 2 = 24 * g - 18
          /\ 8 * (3 * g - 2) - 1 = 24 * g - 17 /\ 8 * (3 * g - 2) = 24 * g - 16
      BY <2>0
    <3> QED
      BY <1>1, <2>0, <3>1
  <2>5. /\ Bit(0, 7) = 0 /\ Bit(0, 6) = 0 /\ Bit(0, 5) = 0 /\ Bit(0, 4) = 0
        /\ Bit(0, 3) = 0 /\ Bit(0, 2) = 0 /\ Bit(0, 1) = 0 /\ Bit(0, 0) = 0
    BY DEF Bit
  <2>6. /\ bits[24 * g - 15] = Bit(b, 7) /\ bits[24 * g - 14] = Bit(b, 6)
        /\ bits[24 * g - 13] = Bit(b, 5) /\ bits[24 * g - 12] = Bit(b, 4)
    <3>1. /\ 8 * (3 * g - 1) - 7 = 24 * g - 15 /\ 8 * (3 * g - 1) - 6 = 24 * g - 14
          /\ 8 * (3 * g - 1) - 5 = 24 * g - 13 /\ 8 * (3 * g - 1) - 4 = 24 * g - 12
          /\ 8 * (3 * g - 2) + 1 = 24 * g - 15 /\ 8 * (3 * g - 2) + 2 = 24 * g - 14
          /\ 8 * (3 * g - 2) + 3 = 24 * g - 13 /\ 8 * (3 * g - 2) + 4 = 24 * g - 12
      BY <2>0
    <3>2. CASE n > 3 * g - 2
      <4>1. 3 * g - 1 \in 1 .. n
        BY <1>1, <2>0, <3>2
      <4> QED
        BY <1>1, <3>1, <3>2, <4>1
    <3>3. CASE n = 3 * g - 2
      BY <1>1, <2>0, <2>5, <3>1, <3>3
    <3> QED
      BY <1>1, <2>0, <3>2, <3>3
  <2>7. n > 3 * g - 2 =>
          /\ bits[24 * g - 11] = Bit(b, 3) /\ bits[24 * g - 10] = Bit(b, 2)
          /\ bits[24 * g - 9] = Bit(b, 1) /\ bits[24 * g - 8] = Bit(b, 0)
          /\ bits[24 * g - 7] = Bit(c, 7) /\ bits[24 * g - 6] = Bit(c, 6)
    <3> HAVE n > 3 * g - 2
    <3>1. /\ 8 * (3 * g - 1) - 3 = 24 * g - 11 /\ 8 * (3 * g - 1) - 2 = 24 * g - 10
          /\ 8 * (3 * g - 1) - 1 = 24 * g - 9 /\ 8 * (3 * g - 1) = 24 * g - 8
          /\ 8 * (3 * g) - 7 = 24 * g - 7 /\ 8 * (3 * g) - 6 = 24 * g - 6
          /\ 8 * (3 * g - 1) + 1 = 24 * g - 7 /\ 8 * (3 * g - 1) + 2 = 24 * g - 6
      BY <2>0
    <3>2. 3 * g - 1 \in 1 .. n
      BY <1>1, <2>0
    <3>3. /\ bits[24 * g - 11] = Bit(b, 3) /\ bits[24 * g - 10] = Bit(b, 2)
          /\ bits[24 * g - 9] = Bit(b, 1) /\ bits[24 * g - 8] = Bit(b, 0)
      BY <1>1, <3>1, <3>2
    <3>4. CASE n > 3 * g - 1
      <4>1. 3 * g \in 1 .. n
        BY <1>1, <2>0, <3>4
      <4> QED
        BY <1>1, <3>1, <3>3, <3>4, <4>1
    <3>5. CASE n = 3 * g - 1
      BY <1>1, <2>0, <2>5, <3>1, <3>3, <3>5
    <3> QED
      BY <1>1, <2>0, <3>2, <3>4, <3>5
  <2>8. n > 3 * g - 1 =>
          /\ bits[24 * g - 5] = Bit(c, 5) /\ bits[24 * g - 4] = Bit(c, 4)
          /\ bits[24 * g - 3] = Bit(c, 3) /\ bits[24 * g - 2] = Bit(c, 2)
          /\ bits[24 * g - 1] = Bit(c, 1) /\ bits[24 * g] = Bit(c, 0)
    <3> HAVE n > 3 * g - 1
    <3>1. /\ 8 * (3 * g) - 5 = 24 * g - 5 /\ 8 * (3 * g) - 4 = 24 * g - 4
          /\ 8 * (3 * g) - 3 = 24 * g - 3 /\ 8 * (3 * g) - 2 = 24 * g - 2
          /\ 8 * (3 * g) - 1 = 24 * g - 1 /\ 8 * (3 * g) = 24 * g
      BY <2>0
    <3>2. 3 * g \in 1 .. n
      BY <1>1, <2>0
    <3> QED
      BY <1>1, <3>1, <3>2
  <2> HIDE DEF a, b, c
  <2>9. p = 1 \/ p = 2 \/ p = 3 \/ p = 4
    OBVIOUS
  <2>10. 4 * (g - 1) + p \in 1 .. m
    BY <1>1, <1>3, <2>0
  <2>11. CASE p = 1
    <3>1. 4 * (g - 1) + 1 \in 1 .. m
      BY <2>10, <2>11
    <3>2. s[4 * (g - 1) + 1] = 32 * bits[24 * g - 23] + 16 * bits[24 * g - 22] + 8 * bits[24 * g - 21]
                                + 4 * bits[24 * g - 20] + 2 * bits[24 * g - 19] + bits[24 * g - 18]
      <4>1. /\ 6 * (4 * (g - 1) + 1) - 5 = 24 * g - 23 /\ 6 * (4 * (g - 1) + 1) - 4 = 24 * g - 22
            /\ 6 * (4 * (g - 1) + 1) - 3 = 24 * g - 21 /\ 6 * (4 * (g - 1) + 1) - 2 = 24 * g - 20
            /\ 6 * (4 * (g - 1) + 1) - 1 = 24 * g - 19 /\ 6 * (4 * (g - 1) + 1) = 24 * g - 18
        BY <2>0
      <4> QED
        BY <1>2, <3>1, <4>1
    <3>3. s[4 * (g - 1) + 1] = a \div 4
      BY <2>3, <2>4, <3>2, PartsOfByte
    <3> QED
      BY <2>2, <2>11, <3>3
  <2>12. CASE p = 2
    <3>1. 4 * (g - 1) + 2 \in 1 .. m
      BY <2>10, <2>12
    <3>2. s[4 * (g - 1) + 2] = 32 * bits[24 * g - 17] + 16 * bits[24 * g - 16] + 8 * bits[24 * g - 15]
                                + 4 * bits[24 * g - 14] + 2 * bits[24 * g - 13] + bits[24 * g - 12]
      <4>1. /\ 6 * (4 * (g - 1) + 2) - 5 = 24 * g - 17 /\ 6 * (4 * (g - 1) + 2) - 4 = 24 * g - 16
            /\ 6 * (4 * (g - 1) + 2) - 3 = 24 * g - 15 /\ 6 * (4 * (g - 1) + 2) - 2 = 24 * g - 14
            /\ 6 * (4 * (g - 1) + 2) - 1 = 24 * g - 13 /\ 6 * (4 * (g - 1) + 2) = 24 * g - 12
        BY <2>0
      <4> QED
        BY <1>2, <3>1, <4>1
    <3>3. s[4 * (g - 1) + 2] = (a % 4) * 16 + b \div 16
      <4>1. /\ a % 4 = 2 * Bit(a, 1) + Bit(a, 0)
            /\ b \div 16 = 8 * Bit(b, 7) + 4 * Bit(b, 6) + 2 * Bit(b, 5) + Bit(b, 4)
        BY <2>3, PartsOfByte
      <4>2. /\ Bit(a, 1) \in Int /\ Bit(a, 0) \in Int /\ Bit(b, 7) \in Int
            /\ Bit(b, 6) \in Int /\ Bit(b, 5) \in Int /\ Bit(b, 4) \in Int
        BY <2>3, ByteOfBits
      <4>3. s[4 * (g - 1) + 2] = 32 * Bit(a, 1) + 16 * Bit(a, 0) + 8 * Bit(b, 7)
                                  + 4 * Bit(b, 6) + 2 * Bit(b, 5) + Bit(b, 4)
        BY <2>4, <2>6, <3>2
      <4> DEFINE u == Bit(a, 1)
                 v == Bit(a, 0)
                 w == Bit(b, 7)
                 x == Bit(b, 6)
                 y == Bit(b, 5)
                 z == Bit(b, 4)
      <4>4. u \in Int /\ v \in Int /\ w \in Int /\ x \in Int /\ y \in Int /\ z \in Int
        BY <4>2
      <4> HIDE DEF u, v, w, x, y, z
      <4>5. 32 * u + 16 * v + 8 * w + 4 * x + 2 * y + z = (2 * u + v) * 16 + (8 * w + 4 * x + 2 * y + z)
        BY <4>4
      <4> QED
        BY <4>1, <4>3, <4>5, Zenon DEF u, v, w, x, y, z
    <3> QED
      BY <2>2, <2>12, <3>3
  <2>13. CASE p = 3
    <3>1. 4 * (g - 1) + 3 \in 1 .. m
      BY <2>10, <2>13
    <3>2. s[4 * (g - 1) + 3] = 32 * bits[24 * g - 11] + 16 * bits[24 * g - 10] + 8 * bits[24 * g - 9]
                                + 4 * bits[24 * g - 8] + 2 * bits[24 * g - 7] + bits[24 * g - 6]
      <4>1. /\ 6 * (4 * (g - 1) + 3) - 5 = 24 * g - 11 /\ 6 * (4 * (g - 1) + 3) - 4 = 24 * g - 10
            /\ 6 * (4 * (g - 1) + 3) - 3 = 24 * g - 9 /\ 6 * (4 * (g - 1) + 3) - 2 = 24 * g - 8
            /\ 6 * (4 * (g - 1) + 3) - 1 = 24 * g - 7 /\ 6 * (4 * (g - 1) + 3) = 24 * g - 6
        BY <2>0
      <4> QED
        BY <1>2, <3>1, <4>1
    <3>3. n > 3 * g - 2
      BY <1>1, <2>0, <3>1
    <3>4. s[4 * (g - 1) + 3] = (b % 16) * 4 + c \div 64
      <4>1. /\ b % 16 = 8 * Bit(b, 3) + 4 * Bit(b, 2) + 2 * Bit(b, 1) + Bit(b, 0)
            /\ c \div 64 = 2 * Bit(c, 7) + Bit(c, 6)
        BY <2>3, PartsOfByte
      <4>2. /\ Bit(b, 3) \in Int /\ Bit(b, 2) \in Int /\ Bit(b, 1) \in Int
            /\ Bit(b, 0) \in Int /\ Bit(c, 7) \in Int /\ Bit(c, 6) \in Int
        BY <2>3, ByteOfBits
      <4>3. s[4 * (g - 1) + 3] = 32 * Bit(b, 3) + 16 * Bit(b, 2) + 8 * Bit(b, 1)
                                  + 4 * Bit(b, 0) + 2 * Bit(c, 7) + Bit(c, 6)
        BY <2>7, <3>2, <3>3
      <4> DEFINE u == Bit(b, 3)
                 v == Bit(b, 2)
                 w == Bit(b, 1)
                 x == Bit(b, 0)
                 y == Bit(c, 7)
                 z == Bit(c, 6)
      <4>4. u \in Int /\ v \in Int /\ w \in Int /\ x \in Int /\ y \in Int /\ z \in Int
        BY <4>2
      <4> HIDE DEF u, v, w, x, y, z
      <4>5. 32 * u + 16 * v + 8 * w + 4 * x + 2 * y + z = (8 * u + 4 * v + 2 * w + x) * 4 + (2 * y + z)
        BY <4>4
      <4> QED
        BY <4>1, <4>3, <4>5, Zenon DEF u, v, w, x, y, z
    <3> QED
      BY <2>2, <2>13, <3>3, <3>4
  <2>14. CASE p = 4
    <3>1. 4 * (g - 1) + 4 \in 1 .. m
      BY <2>10, <2>14
    <3>2. s[4 * (g - 1) + 4] = 32 * bits[24 * g - 5] + 16 * bits[24 * g - 4] + 8 * bits[24 * g - 3]
                                + 4 * bits[24 * g - 2] + 2 * bits[24 * g - 1] + bits[24 * g]
      <4>1. /\ 6 * (4 * (g - 1) + 4) - 5 = 24 * g - 5 /\ 6 * (4 * (g - 1) + 4) - 4 = 24 * g - 4
            /\ 6 * (4 * (g - 1) + 4) - 3 = 24 * g - 3 /\ 6 * (4 * (g - 1) + 4) - 2 = 24 * g - 2
            /\ 6 * (4 * (g - 1) + 4) - 1 = 24 * g - 1 /\ 6 * (4 * (g - 1) + 4) = 24 * g
        BY <2>0
      <4> QED
        BY <1>2, <3>1, <4>1
    <3>3. n > 3 * g - 1
      BY <1>1, <2>0, <3>1
    <3>4. s[4 * (g - 1) + 4] = c % 64
      BY <2>3, <2>8, <3>2, <3>3, PartsOfByte
    <3> QED
      BY <2>2, <2>14, <3>3, <3>4
  <2> QED
    BY <2>9, <2>11, <2>12, <2>13, <2>14
<1> QED
  BY <1>1, <1>2, <1>3 DEF n, s, bits

\* How many digits there are, for each rest a division by three leaves.
LEMMA Lengths ==
  \A n \in Nat :
    /\ n % 3 = 0 => 4 * ((n + 2) \div 3) = (8 * n + 4) \div 6
    /\ n % 3 = 1 => 4 * ((n + 2) \div 3) = (8 * n + 4) \div 6 + 2
    /\ n % 3 = 2 => 4 * ((n + 2) \div 3) = (8 * n + 4) \div 6 + 1
    /\ n % 3 = 0 \/ n % 3 = 1 \/ n % 3 = 2
    /\ (n + 2) \div 3 \in Nat /\ (8 * n + 4) \div 6 \in Nat
OBVIOUS

\* The text is the encoder's digits and as much padding as is added.
LEMMA TextOf ==
  ASSUME NEW data \in Seq(Byte)
  PROVE  LET n == Len(data)
             s == Sextets(Encoded(data))
             text == Base64(data)
         IN  /\ s \in Seq(Digit) /\ text \in Seq(Digit \cup {Equals}) /\ n \in Nat
             /\ Pad(n) \in Seq({Equals}) /\ Len(text) = Len(s) + Len(Pad(n))
             /\ \A k \in 1 .. Len(s) : text[k] = s[k]
             /\ \A k \in Len(s) + 1 .. Len(text) : text[k] = Equals
<1> DEFINE n == Len(data)
           s == Sextets(Encoded(data))
           text == Base64(data)
           G == (n + 2) \div 3
           m == (8 * n + 4) \div 6
<1>1. /\ s \in Seq(Digit) /\ n \in Nat /\ Len(s) = m
      /\ \A g \in 1 .. G, p \in 1 .. 4 :
           4 * (g - 1) + p <= m => s[4 * (g - 1) + p] = Block(data, g)[p]
  BY SameDigits
<1> HIDE DEF s
<1>2. text = [k \in 1 .. 4 * G |-> Block(data, (k - 1) \div 4 + 1)[((k - 1) % 4) + 1]]
  BY DEF Base64
<1> HIDE DEF text
<1>3. /\ Pad(n) \in Seq({Equals})
      /\ n % 3 = 0 => Len(Pad(n)) = 0
      /\ n % 3 = 1 => Len(Pad(n)) = 2
      /\ n % 3 = 2 => Len(Pad(n)) = 1
  <2>1. n % 3 = 0 \/ n % 3 = 1 \/ n % 3 = 2
    BY <1>1, Lengths
  <2> HIDE DEF n
  <2> DEFINE r == n % 3
  <2>2. Pad(n) = <<<<>>, <<Equals, Equals>>, <<Equals>>>>[r + 1]
    BY DEF Pad
  <2> HIDE DEF r
  <2>3. CASE r = 0
    <3>1. Pad(n) = <<>>
      BY <2>2, <2>3
    <3> QED
      BY <2>3, <3>1 DEF r
  <2>4. CASE r = 1
    <3>1. Pad(n) = <<Equals, Equals>>
      BY <2>2, <2>4
    <3>2. Pad(n) \in Seq({Equals}) /\ Len(Pad(n)) = 2
      BY <3>1
    <3> QED
      BY <2>4, <3>2 DEF r
  <2>5. CASE r = 2
    <3>1. Pad(n) = <<Equals>>
      BY <2>2, <2>5
    <3>2. Pad(n) \in Seq({Equals}) /\ Len(Pad(n)) = 1
      BY <3>1
    <3> QED
      BY <2>5, <3>2 DEF r
  <2> QED
    BY <2>1, <2>3, <2>4, <2>5 DEF r
<1>4. G \in Nat /\ m \in Nat /\ 4 * G = m + Len(Pad(n))
  <2>1. /\ n % 3 = 0 => 4 * G = m
        /\ n % 3 = 1 => 4 * G = m + 2
        /\ n % 3 = 2 => 4 * G = m + 1
        /\ n % 3 = 0 \/ n % 3 = 1 \/ n % 3 = 2
        /\ G \in Nat /\ m \in Nat
    BY <1>1, Lengths
  <2> DEFINE r == n % 3
             l == Len(Pad(n))
  <2>2. (r = 0 => l = 0) /\ (r = 1 => l = 2) /\ (r = 2 => l = 1)
    BY <1>3
  <2> HIDE DEF G, m, n, r, l
  <2>3. G \in Nat /\ m \in Nat /\ 4 * G = m + l
    BY <2>1, <2>2 DEF r
  <2> QED
    BY <2>3 DEF l
<1>5. ASSUME NEW k \in 1 .. 4 * G
      PROVE  /\ (k - 1) \div 4 + 1 \in 1 .. G /\ ((k - 1) % 4) + 1 \in 1 .. 4
             /\ 4 * ((k - 1) \div 4 + 1 - 1) + (((k - 1) % 4) + 1) = k
  <2> HIDE DEF G
  <2> QED
    BY <1>4
<1>6. ASSUME NEW k \in 1 .. 4 * G, k <= m PROVE text[k] = s[k]
  <2> DEFINE g == (k - 1) \div 4 + 1
             p == ((k - 1) % 4) + 1
  <2>1. text[k] = Block(data, g)[p]
    BY <1>2
  <2>2. g \in 1 .. G /\ p \in 1 .. 4 /\ 4 * (g - 1) + p = k
    BY <1>5
  <2> HIDE DEF g, p, G, m
  <2> QED
    BY <1>1, <1>6, <2>1, <2>2
<1>7. ASSUME NEW k \in 1 .. 4 * G, m < k PROVE text[k] = Equals
  <2> DEFINE g == (k - 1) \div 4 + 1
             p == ((k - 1) % 4) + 1
  <2>1. text[k] = Block(data, g)[p]
    BY <1>2
  <2>2. g \in 1 .. G /\ p \in 1 .. 4 /\ 4 * (g - 1) + p = k
    BY <1>5
  <2> HIDE DEF g, p
  <2>3. /\ p = 3 \/ p = 4
        /\ p = 3 => ~(n - 3 * (g - 1) > 1)
        /\ p = 4 => ~(n - 3 * (g - 1) > 2)
    BY <1>1, <1>7, <2>2
  <2> HIDE DEF n, G, m
  <2>4. CASE p = 3
    BY <2>1, <2>3, <2>4 DEF Block, n
  <2>5. CASE p = 4
    BY <2>1, <2>3, <2>5 DEF Block, n
  <2> QED
    BY <2>3, <2>4, <2>5
<1> HIDE DEF n, G, m
<1>8. ASSUME NEW k \in 1 .. 4 * G PROVE text[k] \in Digit \cup {Equals}
  <2>1. CASE k <= m
    BY <1>1, <1>4, <1>6, <2>1
  <2>2. CASE m < k
    BY <1>7, <2>2
  <2> QED
    BY <1>4, <2>1, <2>2
<1>9. text \in Seq(Digit \cup {Equals}) /\ Len(text) = 4 * G
  <2> DEFINE T(k) == Block(data, (k - 1) \div 4 + 1)[((k - 1) % 4) + 1]
  <2>1. \A k \in 1 .. 4 * G : T(k) \in Digit \cup {Equals}
    BY <1>2, <1>8
  <2>2. text = [k \in 1 .. 4 * G |-> T(k)] /\ 4 * G \in Nat
    BY <1>2, <1>4
  <2> HIDE DEF T
  <2> QED
    BY <2>1, <2>2
<1>10. /\ \A k \in 1 .. Len(s) : text[k] = s[k]
       /\ \A k \in Len(s) + 1 .. Len(text) : text[k] = Equals
  <2>1. ASSUME NEW k \in 1 .. m PROVE text[k] = s[k]
    BY <1>3, <1>4, <1>6
  <2>2. ASSUME NEW k \in m + 1 .. 4 * G PROVE text[k] = Equals
    BY <1>4, <1>7
  <2> QED
    BY <1>1, <1>9, <2>1, <2>2
<1> QED
  BY <1>1, <1>3, <1>4, <1>9, <1>10 DEF n, s, text

\* The encoder writes the text the standard defines.
LEMMA EncodesBase64 ==
  ASSUME NEW data \in Seq(Byte)
  PROVE  Enc(data) = Base64(data)
<1> DEFINE P == Pad(Len(data))
           s == Sextets(Encoded(data))
           text == Base64(data)
<1>1. /\ s \in Seq(Digit) /\ text \in Seq(Digit \cup {Equals})
      /\ P \in Seq({Equals}) /\ Len(text) = Len(s) + Len(P)
      /\ \A k \in 1 .. Len(s) : text[k] = s[k]
      /\ \A k \in Len(s) + 1 .. Len(text) : text[k] = Equals
  BY TextOf
<1>2. Enc(data) = s \o P
  BY DEF Enc, Encoded
<1> HIDE DEF P, s, text
<1> DEFINE S == Seq(Digit \cup {Equals})
<1>3. s \in S /\ P \in S
  BY <1>1
<1> DEFINE both == s \o P
<1>4. both \in S /\ Len(both) = Len(s) + Len(P)
  BY <1>3
<1>5. ASSUME NEW k \in 1 .. Len(text) PROVE both[k] = text[k]
  <2>1. CASE k <= Len(s)
    BY <1>1, <2>1
  <2>2. CASE Len(s) < k
    <3>1. k - Len(s) \in 1 .. Len(P) /\ both[k] = P[k - Len(s)]
      BY <1>1, <2>2
    <3> QED
      BY <1>1, <2>2, <3>1
  <2> QED
    BY <1>1, <2>1, <2>2
<1> HIDE DEF both
<1>6. both = text
  BY <1>1, <1>4, <1>5
<1> QED
  BY <1>2, <1>6 DEF both, text

\* A set of numbers that is not empty has a smallest one.
LEMMA SmallestOf ==
  ASSUME NEW T \in SUBSET Nat, T # {}
  PROVE  \E m \in T : \A k \in T : m <= k
<1> DEFINE R == OpToRel(<, Nat)
<1>1. \A k, m \in Nat : k < m => <<k, m>> \in R
  BY DEF OpToRel
<1>2. IsWellFoundedOn(R, Nat)
  BY NatLessThanWellFounded
<1> HIDE DEF R
<1>3. PICK m \in T : \A k \in T : ~(<<k, m>> \in R)
  BY <1>2, WFMin
<1>4. ASSUME NEW k \in T PROVE m <= k
  <2>1. k \in Nat /\ m \in Nat /\ ~(<<k, m>> \in R)
    BY <1>3
  <2>2. ~(k < m)
    BY <1>1, <2>1, Zenon
  <2> QED
    BY <2>1, <2>2
<1> QED
  BY <1>4

\* digits are the digits of text: count[n] of them stand before place n + 1.
Counts(text, digits, count) ==
  /\ count \in [0 .. Len(text) -> 0 .. Len(digits)]
  /\ count[0] = 0 /\ count[Len(text)] = Len(digits)
  /\ \A n \in 1 .. Len(text) :
       \/ text[n] \in Digit /\ count[n] = count[n - 1] + 1 /\ text[n] = digits[count[n]]
       \/ text[n] \notin Digit /\ count[n] = count[n - 1]

\* DigitsOf keeps the digits of a text, in order, and nothing else.
LEMMA DigitsFound ==
  ASSUME NEW text, Len(text) \in Nat, NEW digits \in Seq(Digit),
         NEW count, Counts(text, digits, count)
  PROVE  DigitsOf(text) = digits
<1> DEFINE N == Len(text)
           Follows(f) == f = [n \in 0 .. N |-> IF n = 0 THEN <<>> ELSE f[n - 1] \o Taken(text[n])]
           w == [n \in 0 .. N |-> SubSeq(digits, 1, count[n])]
           found == CHOOSE f : Follows(f)
<1>1. N \in Nat /\ Len(digits) \in Nat
  OBVIOUS
<1>2. /\ \A n \in 0 .. N : count[n] \in 0 .. Len(digits)
      /\ count[0] = 0 /\ count[N] = Len(digits)
      /\ \A n \in 1 .. N :
           \/ text[n] \in Digit /\ count[n] = count[n - 1] + 1 /\ text[n] = digits[count[n]]
           \/ text[n] \notin Digit /\ count[n] = count[n - 1]
  BY <1>1 DEF Counts
<1>3. DigitsOf(text) = found[N]
  BY DEF DigitsOf
<1> HIDE DEF N, found
<1>4. w[0] = <<>> /\ w[N] = digits
  BY <1>1, <1>2
<1>5. ASSUME NEW n \in 1 .. N PROVE w[n] = w[n - 1] \o Taken(text[n])
  <2>1. /\ n \in 0 .. N /\ n - 1 \in 0 .. N
        /\ count[n] \in 0 .. Len(digits) /\ count[n - 1] \in 0 .. Len(digits)
    BY <1>1, <1>2
  <2>2. w[n] = SubSeq(digits, 1, count[n]) /\ w[n - 1] = SubSeq(digits, 1, count[n - 1])
    BY <2>1
  <2> HIDE DEF w
  <2>3. CASE text[n] \in Digit
    <3>1. Taken(text[n]) = <<digits[count[n - 1] + 1]>> /\ count[n] = count[n - 1] + 1
      BY <1>2, <2>3 DEF Taken
    <3> DEFINE c == count[n - 1]
    <3>2. c \in Nat /\ c + 1 <= Len(digits)
      BY <2>1, <3>1
    <3> HIDE DEF c
    <3>3. SubSeq(digits, 1, c + 1) = SubSeq(digits, 1, c) \o <<digits[c + 1]>>
      BY <3>2
    <3> QED
      BY <2>2, <3>1, <3>3 DEF c
  <2>4. CASE text[n] \notin Digit
    <3>1. Taken(text[n]) = <<>> /\ count[n] = count[n - 1]
      BY <1>2, <2>4 DEF Taken
    <3>2. SubSeq(digits, 1, count[n]) \in Seq(Digit)
      BY <2>1
    <3> QED
      BY <2>2, <3>1, <3>2
  <2> QED
    BY <2>3, <2>4
<1>6. Follows(w)
  <2>1. \A n \in 0 .. N : w[n] = IF n = 0 THEN <<>> ELSE w[n - 1] \o Taken(text[n])
    <3>1. ASSUME NEW n \in 0 .. N PROVE w[n] = IF n = 0 THEN <<>> ELSE w[n - 1] \o Taken(text[n])
      <4>1. n # 0 => n \in 1 .. N
        BY <1>1
      <4> HIDE DEF w
      <4> QED
        BY <1>4, <1>5, <4>1
    <3> QED
      BY <3>1
  <2> DEFINE W(n) == IF n = 0 THEN <<>> ELSE w[n - 1] \o Taken(text[n])
             S(n) == SubSeq(digits, 1, count[n])
  <2>2. \A n \in 0 .. N : S(n) = W(n)
    BY <2>1
  <2>3. w = [n \in 0 .. N |-> S(n)]
    OBVIOUS
  <2> HIDE DEF W, w, S
  <2>4. w = [n \in 0 .. N |-> W(n)]
    BY <2>2, <2>3
  <2> QED
    BY <2>4 DEF W
<1> HIDE DEF w
<1>7. Follows(found)
  <2>1. \E f : Follows(f)
    BY <1>6
  <2> HIDE DEF Follows
  <2> QED
    BY <2>1 DEF found
<1>8. ASSUME NEW n \in 0 .. N PROVE found[n] = IF n = 0 THEN <<>> ELSE found[n - 1] \o Taken(text[n])
  BY <1>7
<1> HIDE DEF Follows
<1>9. found[N] = w[N]
  <2> DEFINE T == {n \in 0 .. N : found[n] # w[n]}
  <2>1. ASSUME T # {} PROVE FALSE
    <3>1. T \in SUBSET Nat
      BY <1>1
    <3>2. PICK n \in T : \A k \in T : n <= k
      BY <2>1, <3>1, SmallestOf
    <3>3. n \in 0 .. N /\ found[n] # w[n]
      OBVIOUS
    <3>4. n # 0
      BY <1>4, <1>8, <3>3
    <3>5. n \in 1 .. N /\ n - 1 \in 0 .. N /\ ~(n <= n - 1)
      BY <1>1, <3>3, <3>4
    <3>6. found[n - 1] = w[n - 1]
      BY <3>2, <3>5
    <3>7. found[n] = found[n - 1] \o Taken(text[n])
      BY <1>8, <3>3, <3>4
    <3> QED
      BY <1>5, <3>3, <3>5, <3>6, <3>7
  <2> QED
    BY <1>1, <2>1
<1> QED
  BY <1>3, <1>4, <1>9

\* What stands where in a text that is broken.
LEMMA BrokenText ==
  ASSUME NEW S, NEW text \in Seq(S), NEW k \in 0 .. Len(text)
  PROVE  LET broken == Broken(text, k)
         IN  /\ Len(broken) = Len(text) + 1 /\ broken[k + 1] = Foreign
             /\ \A j \in 1 .. k : broken[j] = text[j]
             /\ \A j \in k + 2 .. Len(text) + 1 : broken[j] = text[j - 1]
<1> DEFINE U == S \cup {Foreign}
           a == SubSeq(text, 1, k)
           b == <<Foreign>>
           c == SubSeq(text, k + 1, Len(text))
           N == Len(text)
<1>1. /\ text \in Seq(U) /\ N \in Nat /\ k \in Nat /\ k <= N
  OBVIOUS
<1>2. /\ a \in Seq(U) /\ Len(a) = k /\ \A j \in 1 .. k : a[j] = text[j]
  BY <1>1
<1>3. /\ c \in Seq(U) /\ Len(c) = N - k /\ \A j \in 1 .. N - k : c[j] = text[k + j]
  BY <1>1
<1>4. b \in Seq(U) /\ Len(b) = 1 /\ b[1] = Foreign
  OBVIOUS
<1>5. Broken(text, k) = (a \o b) \o c
  BY DEF Broken
<1> HIDE DEF a, b, c, N, U
<1> DEFINE d == a \o b
<1>6. /\ d \in Seq(U) /\ Len(d) = k + 1 /\ d[k + 1] = Foreign
      /\ \A j \in 1 .. k : d[j] = text[j]
  <2>0. a \in Seq(U) /\ b \in Seq(U)
    BY <1>2, <1>4
  <2>1. /\ d \in Seq(U) /\ Len(d) = Len(a) + Len(b)
        /\ \A j \in 1 .. Len(a) : d[j] = a[j]
        /\ \A j \in 1 .. Len(b) : d[Len(a) + j] = b[j]
    BY <2>0
  <2> HIDE DEF d
  <2> QED
    BY <1>1, <1>2, <1>4, <2>1
<1> HIDE DEF d
<1> DEFINE broken == d \o c
<1>7. /\ Len(broken) = N + 1
      /\ \A j \in 1 .. k + 1 : broken[j] = d[j]
      /\ \A j \in 1 .. N - k : broken[k + 1 + j] = c[j]
  <2>0. d \in Seq(U) /\ c \in Seq(U)
    BY <1>3, <1>6
  <2>1. /\ Len(broken) = Len(d) + Len(c)
        /\ \A j \in 1 .. Len(d) : broken[j] = d[j]
        /\ \A j \in 1 .. Len(c) : broken[Len(d) + j] = c[j]
    BY <2>0
  <2> HIDE DEF broken
  <2>2. Len(d) + Len(c) = N + 1
    BY <1>1, <1>3, <1>6
  <2> QED
    BY <1>3, <1>6, <2>1, <2>2
<1>8. Broken(text, k) = broken
  BY <1>5 DEF d
<1> HIDE DEF broken
<1>9. ASSUME NEW j \in k + 2 .. N + 1 PROVE broken[j] = text[j - 1]
  <2> DEFINE h == j - (k + 1)
  <2>1. h \in 1 .. N - k /\ k + 1 + h = j /\ k + h = j - 1
    BY <1>1
  <2> HIDE DEF h
  <2> QED
    BY <1>3, <1>7, <2>1
<1>10. /\ broken[k + 1] = Foreign
       /\ \A j \in 1 .. k : broken[j] = text[j]
  BY <1>1, <1>6, <1>7
<1> QED
  BY <1>7, <1>8, <1>9, <1>10 DEF N

\* Whatever is encoded, the text is Base64 as defined, and what is decoded from
\* it, or from it without padding or with a line broken anywhere, is the same.
THEOREM AnyScriptSurvives ==
  \A data \in Seq(Byte) : Survives(data)
<1> SUFFICES ASSUME NEW data \in Seq(Byte) PROVE Survives(data)
  OBVIOUS
<1> DEFINE text == Base64(data)
           s == Sextets(Encoded(data))
           P == Pad(Len(data))
           m == Len(s)
           N == Len(text)
           Upto(j) == IF j <= m THEN j ELSE m
<1>1. Enc(data) = text
  BY EncodesBase64
<1>2. /\ s \in Seq(Digit) /\ text \in Seq(Digit \cup {Equals})
      /\ P \in Seq({Equals}) /\ N = m + Len(P)
      /\ \A k \in 1 .. m : text[k] = s[k]
      /\ \A k \in m + 1 .. N : text[k] = Equals
  BY TextOf
<1>3. ASSUME NEW t, DigitsOf(t) = s PROVE Dec(t) = data
  BY <1>3, BytesRead DEF Dec
<1> HIDE DEF text, s, P
<1>4. m \in Nat /\ N \in Nat /\ m <= N /\ N - Len(P) = m
  BY <1>2
<1>5. Equals \notin Digit /\ Foreign \notin Digit
  BY DEF Equals, Foreign, Digit
<1>6. \A k \in 1 .. m : s[k] \in Digit
  BY <1>2
<1> HIDE DEF m, N
<1>7. ASSUME NEW k \in 1 .. N
      PROVE  \/ text[k] \in Digit /\ Upto(k) = Upto(k - 1) + 1 /\ text[k] = s[Upto(k)]
             \/ text[k] \notin Digit /\ Upto(k) = Upto(k - 1)
  <2>1. CASE k <= m
    <3>1. k \in 1 .. m /\ Upto(k) = k /\ Upto(k - 1) = k - 1
      BY <1>4, <2>1
    <3> HIDE DEF Upto
    <3> QED
      BY <1>2, <1>6, <3>1
  <2>2. CASE m < k
    <3>1. k \in m + 1 .. N /\ Upto(k) = m /\ Upto(k - 1) = m
      BY <1>4, <2>2
    <3> HIDE DEF Upto
    <3> QED
      BY <1>2, <1>5, <3>1
  <2> QED
    BY <1>4, <2>1, <2>2
<1>8. /\ \A j \in Nat : Upto(j) \in 0 .. m
      /\ Upto(0) = 0 /\ \A j \in Nat : m <= j => Upto(j) = m
  BY <1>4
<1> HIDE DEF Upto
<1>9. ASSUME NEW n \in N - Len(P) .. N PROVE Dec(SubSeq(text, 1, n)) = data
  <2> DEFINE cut == SubSeq(text, 1, n)
             count == [j \in 0 .. n |-> Upto(j)]
  <2>1. n \in Nat /\ m <= n /\ n <= N
    BY <1>4
  <2>2. Len(cut) = n /\ \A j \in 1 .. n : cut[j] = text[j]
    BY <1>2, <2>1 DEF N
  <2> HIDE DEF cut
  <2>3. count \in [0 .. n -> 0 .. m] /\ count[0] = 0 /\ count[n] = m
    BY <1>8, <2>1
  <2>4. ASSUME NEW j \in 1 .. n
        PROVE  \/ cut[j] \in Digit /\ count[j] = count[j - 1] + 1 /\ cut[j] = s[count[j]]
               \/ cut[j] \notin Digit /\ count[j] = count[j - 1]
    <3>1. j \in 1 .. N /\ j \in 0 .. n /\ j - 1 \in 0 .. n
      BY <2>1, <1>4
    <3>2. cut[j] = text[j] /\ count[j] = Upto(j) /\ count[j - 1] = Upto(j - 1)
      BY <2>2, <3>1
    <3> HIDE DEF count
    <3> QED
      BY <1>7, <3>1, <3>2
  <2> HIDE DEF count
  <2>5. Counts(cut, s, count)
    BY <2>2, <2>3, <2>4 DEF Counts, m
  <2>6. DigitsOf(cut) = s
    BY <1>2, <2>1, <2>2, <2>5, DigitsFound
  <2> QED
    BY <1>3, <2>6 DEF cut
<1>10. ASSUME NEW k \in 0 .. N PROVE Dec(Broken(text, k)) = data
  <2> DEFINE broken == Broken(text, k)
             count == [j \in 0 .. N + 1 |-> IF j <= k THEN Upto(j) ELSE Upto(j - 1)]
  <2>1. k \in Nat /\ k <= N
    BY <1>4
  <2>2. /\ Len(broken) = N + 1 /\ broken[k + 1] = Foreign
        /\ \A j \in 1 .. k : broken[j] = text[j]
        /\ \A j \in k + 2 .. N + 1 : broken[j] = text[j - 1]
    BY <1>2, BrokenText DEF N
  <2> HIDE DEF broken
  <2>3. count \in [0 .. N + 1 -> 0 .. m] /\ count[0] = 0 /\ count[N + 1] = m
    BY <1>4, <1>8, <2>1
  <2>4. ASSUME NEW j \in 1 .. N + 1
        PROVE  \/ broken[j] \in Digit /\ count[j] = count[j - 1] + 1 /\ broken[j] = s[count[j]]
               \/ broken[j] \notin Digit /\ count[j] = count[j - 1]
    <3>1. CASE j <= k
      <4>1. j \in 1 .. N /\ j \in 1 .. k /\ count[j] = Upto(j) /\ count[j - 1] = Upto(j - 1)
        BY <1>4, <2>1, <3>1
      <4> HIDE DEF count
      <4> QED
        BY <1>7, <2>2, <4>1
    <3>2. CASE j = k + 1
      <4>1. count[j] = Upto(k) /\ count[j - 1] = Upto(k)
        BY <1>4, <2>1, <3>2
      <4> HIDE DEF count
      <4> QED
        BY <1>5, <2>2, <3>2, <4>1
    <3>3. CASE k + 1 < j
      <4>1. /\ j - 1 \in 1 .. N /\ j \in k + 2 .. N + 1
            /\ count[j] = Upto(j - 1) /\ count[j - 1] = Upto(j - 1 - 1)
        BY <1>4, <2>1, <3>3
      <4> HIDE DEF count
      <4> QED
        BY <1>7, <2>2, <4>1
    <3> QED
      BY <2>1, <3>1, <3>2, <3>3
  <2> HIDE DEF count
  <2>5. Counts(broken, s, count)
    BY <2>2, <2>3, <2>4 DEF Counts, m
  <2>6. Len(broken) \in Nat
    BY <1>4, <2>2
  <2>7. DigitsOf(broken) = s
    BY <1>2, <2>5, <2>6, DigitsFound
  <2> QED
    BY <1>3, <2>7 DEF broken
<1> QED
  BY <1>1, <1>9, <1>10 DEF Survives, text, P, N

\* The scripts that are built in come out of their text unchanged before
\* lua_init starts to look for others (cso_b64.h, cso_script.h).
THEOREM ScriptsSurvive == Spec => []ScriptSurvives
<1>1. Init => ScriptSurvives
  BY ConfigAssumption, AnyScriptSurvives DEF ScriptSurvives
<1>2. ScriptSurvives /\ [Next]_vars => ScriptSurvives'
  BY ConfigAssumption, AnyScriptSurvives DEF ScriptSurvives
<1> QED
  BY <1>1, <1>2, PTL DEF Spec
=============================================================================
