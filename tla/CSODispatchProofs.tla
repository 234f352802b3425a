------------------------- MODULE CSODispatchProofs -------------------------
(***************************************************************************)
(* Proofs about CSODispatch, for every set of paths, types, tags and Lua   *)
(* functions and every bound.                                              *)
(***************************************************************************)
EXTENDS CSODispatch, FiniteSetTheorems, TLAPS

-----------------------------------------------------------------------------
(* The key of a mapping.                                                   *)

\* What the concatenation "path;types" of cb_osc_map_add looks like: the path,
\* the separator, the types.
LEMMA KeyElements ==
  ASSUME NEW p \in Paths, NEW t \in MapTypes
  PROVE  /\ p \in Seq(Tokens) /\ t \in Seq(Tags \cup {Sep})
         /\ Len(p) \in Nat /\ Len(t) \in Nat
         /\ Len(Key(p, t)) = Len(p) + 1 + Len(t)
         /\ \A i \in 1 .. Len(p) : Key(p, t)[i] = p[i]
         /\ Key(p, t)[Len(p) + 1] = Sep
         /\ \A j \in 1 .. Len(t) : Key(p, t)[Len(p) + 1 + j] = t[j]
<1>1. p \in Seq(Tokens) /\ t \in Seq(Tags \cup {Sep})
  BY PathsAssumption, TypesAssumption
<1> DEFINE S == Tokens \cup Tags \cup {Sep}
<1>2. p \in Seq(S) /\ t \in Seq(S) /\ <<Sep>> \in Seq(S)
  BY <1>1
<1>3. p \o <<Sep>> \in Seq(S) /\ Len(p \o <<Sep>>) = Len(p) + 1
  BY <1>2
<1>4. \A i \in 1 .. Len(p) : (p \o <<Sep>>)[i] = p[i]
  BY <1>2
<1>5. (p \o <<Sep>>)[Len(p) + 1] = Sep
  BY <1>2
<1>6. Len(Key(p, t)) = Len(p) + 1 + Len(t)
  BY <1>2, <1>3 DEF Key
<1>7. \A i \in 1 .. Len(p) + 1 : Key(p, t)[i] = (p \o <<Sep>>)[i]
  BY <1>2, <1>3 DEF Key
<1>8. \A j \in 1 .. Len(t) : Key(p, t)[Len(p) + 1 + j] = t[j]
  BY <1>2, <1>3 DEF Key
<1>9. Len(p) \in Nat /\ Len(t) \in Nat
  BY <1>1
<1>10. \A i \in 1 .. Len(p) : Key(p, t)[i] = p[i]
  BY <1>4, <1>7, <1>9
<1>11. Key(p, t)[Len(p) + 1] = Sep
  BY <1>5, <1>7, <1>9
<1> QED
  BY <1>1, <1>6, <1>8, <1>9, <1>10, <1>11, Zenon

\* The types of a message hold no separator; the types of a mapping may.
LEMMA MessageTypes ==
  ASSUME NEW t \in Types
  PROVE  t \in MapTypes /\ t \in Seq(Tags) /\ ~HoldsSep(t)
<1>1. t \in MapTypes /\ t \in Seq(Tags)
  BY TypesAssumption
<1>2. \A j \in 1 .. Len(t) : t[j] \in Tags
  BY <1>1
<1> QED
  BY <1>1, <1>2, TypesAssumption DEF HoldsSep

\* Which requests reach the entry of a message: those for its own path and
\* types, and those of another path whose types hold a separator and are then
\* longer than the message's.  (The last separator of the message's key is the
\* one that was put there; the path may hold others.)
THEOREM KeysShared ==
  \A p \in Paths, t \in Types, q \in Paths, u \in MapTypes :
    Key(p, t) = Key(q, u) => (p = q /\ t = u) \/ (HoldsSep(u) /\ Len(t) < Len(u))
<1> TAKE p \in Paths, t \in Types, q \in Paths, u \in MapTypes
<1> HAVE Key(p, t) = Key(q, u)
<1>0. t \in MapTypes /\ ~HoldsSep(t)
  BY MessageTypes
<1>1. /\ p \in Seq(Tokens) /\ t \in Seq(Tags \cup {Sep})
      /\ Len(p) \in Nat /\ Len(t) \in Nat
      /\ Len(Key(p, t)) = Len(p) + 1 + Len(t)
      /\ \A i \in 1 .. Len(p) : Key(p, t)[i] = p[i]
      /\ Key(p, t)[Len(p) + 1] = Sep
      /\ \A j \in 1 .. Len(t) : Key(p, t)[Len(p) + 1 + j] = t[j]
  BY <1>0, KeyElements
<1>2. /\ q \in Seq(Tokens) /\ u \in Seq(Tags \cup {Sep})
      /\ Len(q) \in Nat /\ Len(u) \in Nat
      /\ Len(Key(q, u)) = Len(q) + 1 + Len(u)
      /\ \A i \in 1 .. Len(q) : Key(q, u)[i] = q[i]
      /\ Key(q, u)[Len(q) + 1] = Sep
      /\ \A j \in 1 .. Len(u) : Key(q, u)[Len(q) + 1 + j] = u[j]
  BY KeyElements
<1>3. Len(p) + 1 + Len(t) = Len(q) + 1 + Len(u)
  <2>1. Len(Key(p, t)) = Len(Key(q, u))
    OBVIOUS
  <2> QED
    BY <1>1, <1>2, <2>1, Zenon
<1>4. ~(Len(p) < Len(q))
  <2> SUFFICES ASSUME Len(p) < Len(q) PROVE FALSE
    OBVIOUS
  <2> DEFINE j == Len(q) - Len(p)
  <2>1. j \in 1 .. Len(t) /\ Len(p) + 1 + j = Len(q) + 1
    BY <1>1, <1>2, <1>3
  <2>2. Key(p, t)[Len(p) + 1 + j] = t[j]
    BY <1>1, <2>1
  <2>3. t[j] = Sep
    BY <1>2, <2>1, <2>2
  <2> QED
    BY <1>0, <2>1, <2>3 DEF HoldsSep
<1>5. CASE Len(q) < Len(p)
  <2> DEFINE j == Len(p) - Len(q)
  <2>1. j \in 1 .. Len(u) /\ Len(q) + 1 + j = Len(p) + 1 /\ Len(t) < Len(u)
    BY <1>1, <1>2, <1>3, <1>5
  <2>2. Key(q, u)[Len(q) + 1 + j] = u[j]
    BY <1>2, <2>1
  <2>3. u[j] = Sep
    BY <1>1, <2>1, <2>2
  <2> QED
    BY <2>1, <2>3 DEF HoldsSep
<1>6. CASE Len(p) = Len(q)
  <2>1. Len(t) = Len(u)
    BY <1>1, <1>2, <1>3, <1>6
  <2>2. \A i \in 1 .. Len(p) : p[i] = q[i]
    BY <1>1, <1>2, <1>6
  <2>3. p = q
    BY <1>1, <1>2, <1>6, <2>2
  <2>4. \A i \in 1 .. Len(t) : t[i] = u[i]
    <3>1. /\ \A i \in 1 .. Len(t) : Key(p, t)[Len(p) + 1 + i] = t[i]
          /\ \A i \in 1 .. Len(u) : Key(q, u)[Len(q) + 1 + i] = u[i]
      BY <1>1, <1>2
    <3> QED
      BY <1>6, <2>1, <3>1
  <2>5. t = u
    BY <1>1, <1>2, <2>1, <2>4
  <2> QED
    BY <2>3, <2>5
<1> QED
  BY <1>1, <1>2, <1>4, <1>5, <1>6

-----------------------------------------------------------------------------
(* Type correctness.                                                       *)

\* The number of unsupported tags of a mapping is a natural number.
LEMMA NotPushedFinite ==
  ASSUME NEW o \in OSCMapping
  PROVE  Cardinality(NotPushed(o)) \in Nat
<1>1. Len(o.types) \in Nat
  BY TypesAssumption DEF OSCMapping
<1>2. IsFiniteSet(1 .. Len(o.types))
  BY <1>1, FS_Interval
<1>3. NotPushed(o) \subseteq 1 .. Len(o.types)
  BY DEF NotPushed
<1>4. IsFiniteSet(NotPushed(o))
  BY <1>2, <1>3, FS_Subset
<1> QED
  BY <1>4, FS_CardinalityType

\* A call of a mapped function, protected as it is in cb_osc_catchall, keeps
\* the type of everything it changes.
LEMMA TryMethodType ==
  ASSUME TypeOK, NEW p \in Paths, NEW t \in Types, NEW o \in OSCMapping \cup {NoMapping},
         TryMethod(p, t, o)
  PROVE  TypeOK'
<1> USE BoundsAssumption
<1>1. o \in OSCMapping
  BY DEF TryMethod
<1>2. o.method \in Methods /\ o.types \in MapTypes
  BY <1>1 DEF OSCMapping
<1>3. osc_map' = osc_map /\ luaFn' = luaFn /\ asked' = asked
  BY DEF TryMethod
<1>4. CASE EnterMethod(p, t, o)
  <2>1. Leaves(o.method) \in {0, 1}
    BY DEF Leaves
  <2>2. luaTop' \in Nat /\ failures' \in 0 .. MaxFailures
    <3>1. luaTop \in Nat /\ failures \in 0 .. MaxFailures
      BY DEF TypeOK
    <3>2. failures' = failures \/ (failures < MaxFailures /\ failures' = failures + 1)
      BY <1>4 DEF EnterMethod
    <3> QED
      BY <1>4, <2>1, <3>1, <3>2 DEF EnterMethod
  <2>3. lastCall' \in CallRecord
    BY <1>2, <1>4 DEF EnterMethod, CallRecord
  <2>4. crashed' = crashed
    BY <1>4 DEF EnterMethod
  <2> QED
    BY <1>3, <2>2, <2>3, <2>4 DEF TypeOK
<1>5. CASE CallWrongSlot(t, o)
  <2> DEFINE missing == Cardinality(NotPushed(o))
  <2>1. missing \in Nat
    BY <1>1, NotPushedFinite
  <2>2. luaTop' \in Nat
    <3>1. luaTop \in Nat
      BY DEF TypeOK
    <3> HIDE DEF missing
    <3>2. \/ luaTop' = (luaTop + 1) - missing /\ missing <= luaTop + 1
          \/ luaTop' = 0
      BY <1>5 DEF CallWrongSlot, TopAfterWrongCall, missing
    <3> QED
      BY <2>1, <3>1, <3>2
  <2>3. failures' \in 0 .. MaxFailures
    <3>1. failures \in 0 .. MaxFailures /\ failures < MaxFailures /\ failures' = failures + 1
      BY <1>5 DEF CallWrongSlot, TypeOK
    <3> QED
      BY <3>1
  <2>4. crashed' \in BOOLEAN /\ lastCall' = lastCall
    BY <1>5 DEF CallWrongSlot, TypeOK
  <2> QED
    BY <1>3, <2>2, <2>3, <2>4 DEF TypeOK
<1> QED
  BY <1>4, <1>5 DEF TryMethod

\* Every step of the dispatch keeps the type of the state.
LEMMA TypeStep ==
  ASSUME TypeOK, [Next]_vars
  PROVE  TypeOK'
<1> USE BoundsAssumption
<1>1. ASSUME NEW m \in Methods, Eval(m)
      PROVE  TypeOK'
  <2>1. luaFn' \in [Methods -> {"absent", "returns", "raises"}]
    BY <1>1 DEF Eval, TypeOK
  <2>2. luaTop' \in Nat
    BY <1>1 DEF Eval, TypeOK
  <2>3. failures' \in 0 .. MaxFailures
    <3>1. failures' = failures \/ (failures < MaxFailures /\ failures' = failures + 1)
      BY <1>1 DEF Eval
    <3> QED
      BY <3>1 DEF TypeOK
  <2> QED
    BY <1>1, <2>1, <2>2, <2>3 DEF Eval, TypeOK
<1>2. ASSUME NEW p \in Paths, NEW t \in MapTypes, NEW m \in Methods, MapAdd(p, t, m)
      PROVE  TypeOK'
  <2>1. [path |-> p, types |-> t, method |-> m] \in OSCMapping
    BY DEF OSCMapping
  <2>2. osc_map' \in [Keys -> OSCMapping \cup {NoMapping}]
    BY <1>2, <2>1 DEF MapAdd, Insert, Erase, TypeOK
  <2>3. asked' \in [Addresses -> Methods \cup {NoMapping}]
    BY <1>2 DEF MapAdd, Asked, TypeOK
  <2> QED
    BY <1>2, <2>2, <2>3 DEF MapAdd, TypeOK
<1>3. ASSUME NEW p \in Paths, NEW t \in MapTypes, MapRemove(p, t)
      PROVE  TypeOK'
  BY <1>3 DEF MapRemove, Erase, Asked, TypeOK
<1>4. CASE MapClear
  BY <1>4 DEF MapClear, TypeOK
<1>5. ASSUME NEW p \in Paths, NEW t \in Types, Catchall(p, t)
      PROVE  TypeOK'
  <2>1. Key(p, t) \in Keys
    BY MessageTypes DEF Keys
  <2>2. Entry(p, t) \in OSCMapping \cup {NoMapping}
    BY <2>1 DEF Entry, TypeOK
  <2> QED
    BY <1>5, <2>2, TryMethodType DEF Catchall
<1>6. CASE UNCHANGED vars
  BY <1>6 DEF vars, TypeOK
<1> QED
  BY <1>1, <1>2, <1>3, <1>4, <1>5, <1>6 DEF Next

\* The state of the dispatch always has its type (TypeOK).
THEOREM TypeCorrect == Spec => []TypeOK
<1>1. Init => TypeOK
  <2> SUFFICES ASSUME Init PROVE TypeOK
    OBVIOUS
  <2>1. osc_map \in [Keys -> OSCMapping \cup {NoMapping}]
    BY DEF Init
  <2>2. luaTop \in Nat /\ failures \in 0 .. MaxFailures
    BY BoundsAssumption DEF Init
  <2>3. /\ luaFn \in [Methods -> {"absent", "returns", "raises"}]
        /\ asked \in [Addresses -> Methods \cup {NoMapping}]
        /\ crashed \in BOOLEAN
        /\ lastCall \in CallRecord \cup {NoCall}
    BY DEF Init
  <2> QED
    BY <2>1, <2>2, <2>3 DEF TypeOK
<1> QED
  BY <1>1, TypeStep, PTL DEF Spec

-----------------------------------------------------------------------------
(* Safety.                                                                 *)

\* What the safety properties need of each other: a call is exact because the
\* mapping found under a key is a mapping of that path and those types.
Safe == KeyedByAddress /\ ExactArguments /\ SignaturesReserved /\ StackLeakBounded

\* A separator is no tag that could be pushed: a mapping with one in its types
\* never has its function called.
LEMMA SeparatorNotPushed ==
  ASSUME NEW o \in OSCMapping, HoldsSep(o.types)
  PROVE  NotPushed(o) # {}
BY TypesAssumption, SupportedAssumption DEF HoldsSep, NotPushed

\* /map/add puts its mapping under a key that is its own, or that it shares
\* through a separator in its types.
LEMMA MapAddKeyed ==
  ASSUME TypeOK, KeyedByAddress,
         NEW p \in Paths, NEW t \in MapTypes, NEW m \in Methods, MapAdd(p, t, m)
  PROVE  KeyedByAddress'
<1> DEFINE o == [path |-> p, types |-> t, method |-> m]
<1>1. SUFFICES ASSUME NEW q \in Paths, NEW u \in Types, osc_map'[Key(q, u)] # NoMapping
               PROVE  \/ osc_map'[Key(q, u)].path = q /\ osc_map'[Key(q, u)].types = u
                      \/ HoldsSep(osc_map'[Key(q, u)].types)
  BY DEF KeyedByAddress
<1>2. Key(p, t) \in Keys /\ Key(q, u) \in Keys
  BY MessageTypes DEF Keys
<1>3. osc_map' = [osc_map EXCEPT ![Key(p, t)] = o]
  BY <1>2 DEF MapAdd, Insert, Erase, TypeOK
<1>4. CASE Key(q, u) = Key(p, t)
  <2>1. (q = p /\ u = t) \/ HoldsSep(t)
    BY <1>4, KeysShared
  <2>2. osc_map'[Key(q, u)] = o
    BY <1>2, <1>3, <1>4 DEF TypeOK
  <2> QED
    BY <2>1, <2>2
<1>5. CASE Key(q, u) # Key(p, t)
  <2>1. osc_map'[Key(q, u)] = osc_map[Key(q, u)]
    BY <1>2, <1>3, <1>5 DEF TypeOK
  <2> QED
    BY <1>1, <2>1 DEF KeyedByAddress
<1> QED
  BY <1>4, <1>5

\* What the catch-all finds for a message: a mapping, of the message's path and
\* types or with a separator in its own.
LEMMA EntryFound ==
  ASSUME TypeOK, KeyedByAddress, NEW p \in Paths, NEW t \in Types, Catchall(p, t)
  PROVE  /\ Key(p, t) \in Keys
         /\ Entry(p, t) # NoMapping /\ Entry(p, t) = osc_map[Key(p, t)]
         /\ Entry(p, t) \in OSCMapping /\ Entry(p, t).method \in Methods
         /\ \/ Entry(p, t).path = p /\ Entry(p, t).types = t
            \/ HoldsSep(Entry(p, t).types)
<1>1. Key(p, t) \in Keys
  BY MessageTypes DEF Keys
<1>2. Entry(p, t) # NoMapping /\ Entry(p, t) = osc_map[Key(p, t)]
  BY DEF Catchall, TryMethod, Entry
<1>3. Entry(p, t) \in OSCMapping
  BY <1>1, <1>2 DEF TypeOK
<1>4. Entry(p, t).method \in Methods
  BY <1>3 DEF OSCMapping
<1> QED
  BY <1>1, <1>2, <1>3, <1>4 DEF KeyedByAddress

\* cb_osc_catchall enters a function only with the arguments of the message,
\* for a message no built-in took, and leaves at most what it adds to failures.
LEMMA CatchallSafe ==
  ASSUME TypeOK, Safe, NEW p \in Paths, NEW t \in Types, Catchall(p, t)
  PROVE  Safe'
<1> DEFINE o == Entry(p, t)
<1>1. o \in OSCMapping /\ (o.types = t \/ HoldsSep(o.types))
  BY EntryFound DEF Safe
<1>2. osc_map' = osc_map /\ ~TakenByBuiltin(p, t)
  BY DEF Catchall, TryMethod
<1>3. KeyedByAddress'
  BY <1>2 DEF Safe, KeyedByAddress
<1>4. CASE EnterMethod(p, t, o)
  <2>1. lastCall' = [path |-> p, types |-> t, method |-> o.method, args |-> o.types]
    BY <1>4 DEF EnterMethod
  <2>2. ExactArguments' /\ SignaturesReserved'
    <3>1. lastCall'.path = p /\ lastCall'.types = t /\ lastCall'.args = o.types
      BY <2>1
    <3>2. o.types = t
      BY <1>1, <1>4, SeparatorNotPushed DEF EnterMethod
    <3> QED
      BY <1>2, <3>1, <3>2 DEF ExactArguments, SignaturesReserved, TakenByBuiltin
  <2>3. StackLeakBounded'
    <3>1. luaTop \in Nat /\ failures \in Nat /\ luaTop <= failures
      BY BoundsAssumption DEF TypeOK, Safe, StackLeakBounded
    <3> QED
      BY <1>4, <3>1 DEF EnterMethod, Leaves, StackLeakBounded
  <2> QED
    BY <1>3, <2>2, <2>3 DEF Safe
<1>5. CASE CallWrongSlot(t, o)
  <2> DEFINE missing == Cardinality(NotPushed(o))
  <2>1. ExactArguments' /\ SignaturesReserved'
    BY <1>5 DEF CallWrongSlot, Safe, ExactArguments, SignaturesReserved, TakenByBuiltin
  <2>2. missing \in Nat
    BY <1>1, NotPushedFinite
  <2>3. StackLeakBounded'
    <3>1. luaTop \in Nat /\ failures \in Nat /\ luaTop <= failures
      BY BoundsAssumption DEF TypeOK, Safe, StackLeakBounded
    <3>2. /\ missing > 0
          /\ failures' = failures + 1
          /\ luaTop' = (luaTop + 1) - missing \/ luaTop' = 0
      BY <1>5 DEF CallWrongSlot, TopAfterWrongCall
    <3> HIDE DEF missing
    <3> QED
      BY <2>2, <3>1, <3>2 DEF StackLeakBounded
  <2> QED
    BY <1>3, <2>1, <2>3 DEF Safe
<1> QED
  BY <1>4, <1>5 DEF Catchall, TryMethod

\* Every step of the dispatch keeps the safety properties.
LEMMA SafeStep ==
  ASSUME TypeOK, Safe, [Next]_vars
  PROVE  Safe'
<1>1. ASSUME NEW m \in Methods, Eval(m)
      PROVE  Safe'
  <2>1. KeyedByAddress' /\ ExactArguments' /\ SignaturesReserved'
    BY <1>1 DEF Eval, Safe, KeyedByAddress, ExactArguments, SignaturesReserved,
                TakenByBuiltin
  <2>2. StackLeakBounded'
    <3>1. luaTop \in Nat /\ failures \in Nat /\ luaTop <= failures
      BY BoundsAssumption DEF TypeOK, Safe, StackLeakBounded
    <3> QED
      BY <1>1, <3>1 DEF Eval, StackLeakBounded
  <2> QED
    BY <2>1, <2>2 DEF Safe
<1>2. ASSUME NEW p \in Paths, NEW t \in MapTypes, NEW m \in Methods, MapAdd(p, t, m)
      PROVE  Safe'
  <2>1. KeyedByAddress'
    BY <1>2, MapAddKeyed DEF Safe
  <2> QED
    BY <1>2, <2>1 DEF MapAdd, Safe, ExactArguments, SignaturesReserved,
                      TakenByBuiltin, StackLeakBounded
<1>3. ASSUME NEW p \in Paths, NEW t \in MapTypes, MapRemove(p, t)
      PROVE  Safe'
  <2>1. \A k \in Keys : osc_map'[k] \in {osc_map[k], NoMapping}
    BY <1>3 DEF MapRemove, Erase, TypeOK
  <2>2. KeyedByAddress'
    <3>1. \A q \in Paths, u \in Types : Key(q, u) \in Keys
      BY MessageTypes DEF Keys
    <3> QED
      BY <2>1, <3>1 DEF Safe, KeyedByAddress
  <2> QED
    BY <1>3, <2>2 DEF MapRemove, Safe, ExactArguments, SignaturesReserved,
                      TakenByBuiltin, StackLeakBounded
<1>4. CASE MapClear
  <2>1. \A k \in Keys : osc_map'[k] = NoMapping
    BY <1>4 DEF MapClear
  <2>2. KeyedByAddress'
    <3>1. \A q \in Paths, u \in Types : Key(q, u) \in Keys
      BY MessageTypes DEF Keys
    <3> QED
      BY <2>1, <3>1 DEF KeyedByAddress
  <2> QED
    BY <1>4, <2>2 DEF MapClear, Safe, ExactArguments, SignaturesReserved,
                      TakenByBuiltin, StackLeakBounded
<1>5. ASSUME NEW p \in Paths, NEW t \in Types, Catchall(p, t)
      PROVE  Safe'
  BY <1>5, CatchallSafe
<1>6. CASE UNCHANGED vars
  BY <1>6 DEF vars, Safe, KeyedByAddress, ExactArguments, SignaturesReserved,
              TakenByBuiltin, StackLeakBounded
<1> QED
  BY <1>1, <1>2, <1>3, <1>4, <1>5, <1>6 DEF Next

\* All four safety properties, as one inductive invariant.
THEOREM Safety == Spec => []Safe
<1>1. Init => Safe
  <2> SUFFICES ASSUME Init PROVE Safe
    OBVIOUS
  <2>1. KeyedByAddress
    BY MessageTypes DEF Init, KeyedByAddress, Keys
  <2> QED
    BY <2>1 DEF Init, Safe, ExactArguments, SignaturesReserved, StackLeakBounded
<1> QED
  BY <1>1, SafeStep, TypeCorrect, PTL DEF Spec

\* The string key confuses two addresses only through a separator in the types
\* of a mapping (KeyedByAddress), whatever the paths and whatever /map/add is
\* given, for cb_osc_map_add and cb_osc_catchall.
THEOREM MappingsKeyed == Spec => []KeyedByAddress
BY Safety, PTL DEF Safe

\* A mapped function gets exactly the message's arguments (ExactArguments),
\* whatever mapping cb_osc_catchall finds under the message's key.
THEOREM ArgumentsExact == Spec => []ExactArguments
BY Safety, PTL DEF Safe

\* What a built-in handler takes cannot be redefined (SignaturesReserved).
THEOREM BuiltinsKept == Spec => []SignaturesReserved
BY Safety, PTL DEF Safe

\* The Lua stack grows by at most one slot for each failure (StackLeakBounded).
THEOREM LeakBounded == Spec => []StackLeakBounded
BY Safety, PTL DEF Safe

\* A failing call takes the host down only with a mapping of two or more
\* unsupported tags, or one with a separator in its types: the one that was
\* being called (CallErrorsContained, the pushes and the lua_pcall of
\* cb_osc_catchall).
THEOREM ErrorsContained == Spec => CallErrorsContained
<1> DEFINE A == crashed' # crashed =>
                  \E k \in Mapped : \/ Cardinality(NotPushed(osc_map[k])) >= 2
                                    \/ HoldsSep(osc_map[k].types)
<1>1. ASSUME TypeOK, Safe, [Next]_vars PROVE [A]_vars
  <2> SUFFICES ASSUME Next, crashed' # crashed
               PROVE  \E k \in Mapped : \/ Cardinality(NotPushed(osc_map[k])) >= 2
                                        \/ HoldsSep(osc_map[k].types)
    BY <1>1
  <2>1. PICK p \in Paths, t \in Types : Catchall(p, t)
    BY DEF Next, Eval, MapAdd, MapRemove, MapClear
  <2> DEFINE o == Entry(p, t)
  <2>2. /\ Key(p, t) \in Keys /\ o = osc_map[Key(p, t)] /\ o # NoMapping
        /\ o \in OSCMapping /\ (o.types = t \/ HoldsSep(o.types))
    BY <1>1, <2>1, EntryFound DEF Safe
  <2>3. Cardinality(NotPushed(o)) > luaTop + 1 \/ Misread(t, o) # {}
    BY <2>1 DEF Catchall, TryMethod, EnterMethod, CallWrongSlot
  <2>4. CASE Cardinality(NotPushed(o)) > luaTop + 1
    <3>1. Cardinality(NotPushed(o)) \in Nat /\ luaTop \in Nat
      BY <1>1, <2>2, NotPushedFinite DEF TypeOK
    <3>2. Cardinality(NotPushed(o)) >= 2
      BY <2>4, <3>1
    <3> QED
      BY <2>2, <3>2 DEF Mapped
  <2>5. CASE Misread(t, o) # {}
    <3>1. o.types # t
      <4> SUFFICES ASSUME o.types = t PROVE Misread(t, o) = {}
        BY <2>5
      <4>1. Len(t) \in Nat
        BY MessageTypes
      <4> QED
        BY <4>1 DEF Misread
    <3> QED
      BY <2>2, <3>1 DEF Mapped
  <2> QED
    BY <2>3, <2>4, <2>5
<1> QED
  BY <1>1, TypeCorrect, Safety, PTL DEF Spec, CallErrorsContained

-----------------------------------------------------------------------------
(* The dispatch implements the abstract mapping table.                     *)

\* What binds an address is a mapping of its own under its key.
LEMMA BindAt ==
  ASSUME NEW p \in Paths, NEW t \in Types
  PROVE  Bindings[<<p, t>>] =
           IF osc_map[Key(p, t)] # NoMapping
              /\ osc_map[Key(p, t)].path = p /\ osc_map[Key(p, t)].types = t
           THEN osc_map[Key(p, t)].method ELSE NoMapping
BY DEF Bindings, Addresses

\* The same of the next state.
LEMMA BindAtNext ==
  ASSUME NEW p \in Paths, NEW t \in Types
  PROVE  Bindings'[<<p, t>>] =
           IF osc_map'[Key(p, t)] # NoMapping
              /\ osc_map'[Key(p, t)].path = p /\ osc_map'[Key(p, t)].types = t
           THEN osc_map'[Key(p, t)].method ELSE NoMapping
BY DEF Bindings, Addresses

\* A request to bind p, t to m, or to unbind it, gives that address m, unbinds
\* another that has its key, which takes a separator in t, and leaves the rest.
Requested(p, t, m) ==
  \A q \in Paths, u \in Types :
    Bindings'[<<q, u>>] = IF q = p /\ u = t THEN m
                          ELSE IF HoldsSep(t) /\ Key(q, u) = Key(p, t) THEN NoMapping
                          ELSE Bindings[<<q, u>>]

\* /map/add is such a request.
LEMMA MapAddRequests ==
  ASSUME TypeOK, NEW p \in Paths, NEW t \in MapTypes, NEW m \in Methods, MapAdd(p, t, m)
  PROVE  Requested(p, t, m)
<1> DEFINE o == [path |-> p, types |-> t, method |-> m]
<1>1. o \in OSCMapping /\ o # NoMapping
  BY NoMappingAssumption DEF OSCMapping
<1>2. Key(p, t) \in Keys
  BY DEF Keys
<1>3. osc_map' = [osc_map EXCEPT ![Key(p, t)] = o]
  BY <1>2 DEF MapAdd, Insert, Erase, TypeOK
<1> SUFFICES ASSUME NEW q \in Paths, NEW u \in Types
             PROVE  Bindings'[<<q, u>>]
                      = IF q = p /\ u = t THEN m
                        ELSE IF HoldsSep(t) /\ Key(q, u) = Key(p, t) THEN NoMapping
                        ELSE Bindings[<<q, u>>]
  BY DEF Requested
<1>4. Key(q, u) \in Keys
  BY MessageTypes DEF Keys
<1>5. CASE Key(q, u) = Key(p, t)
  <2>1. osc_map'[Key(q, u)] = o
    BY <1>2, <1>3, <1>5 DEF TypeOK
  <2>2. (q = p /\ u = t) \/ HoldsSep(t)
    BY <1>5, KeysShared
  <2> QED
    BY <1>1, <1>5, <2>1, <2>2, BindAtNext
<1>6. CASE Key(q, u) # Key(p, t)
  <2>1. osc_map'[Key(q, u)] = osc_map[Key(q, u)]
    BY <1>2, <1>3, <1>4, <1>6 DEF TypeOK
  <2>2. Bindings'[<<q, u>>] = Bindings[<<q, u>>]
    BY <2>1, BindAt, BindAtNext
  <2> QED
    BY <1>6, <2>2
<1> QED
  BY <1>5, <1>6

\* So is /map/remove, which asks for nothing.
LEMMA MapRemoveRequests ==
  ASSUME TypeOK, NEW p \in Paths, NEW t \in MapTypes, MapRemove(p, t)
  PROVE  Requested(p, t, NoMapping)
<1>1. Key(p, t) \in Keys /\ osc_map' = [osc_map EXCEPT ![Key(p, t)] = NoMapping]
  BY DEF Keys, MapRemove, Erase
<1> SUFFICES ASSUME NEW q \in Paths, NEW u \in Types
             PROVE  Bindings'[<<q, u>>]
                      = IF q = p /\ u = t THEN NoMapping
                        ELSE IF HoldsSep(t) /\ Key(q, u) = Key(p, t) THEN NoMapping
                        ELSE Bindings[<<q, u>>]
  BY DEF Requested
<1>2. Key(q, u) \in Keys
  BY MessageTypes DEF Keys
<1>3. CASE Key(q, u) = Key(p, t)
  <2>1. osc_map'[Key(q, u)] = NoMapping
    BY <1>1, <1>3 DEF TypeOK
  <2>2. (q = p /\ u = t) \/ HoldsSep(t)
    BY <1>3, KeysShared
  <2> QED
    BY <1>3, <2>1, <2>2, BindAtNext
<1>4. CASE Key(q, u) # Key(p, t)
  <2>1. osc_map'[Key(q, u)] = osc_map[Key(q, u)]
    BY <1>1, <1>2, <1>4 DEF TypeOK
  <2>2. Bindings'[<<q, u>>] = Bindings[<<q, u>>]
    BY <2>1, BindAt, BindAtNext
  <2> QED
    BY <1>4, <2>2
<1> QED
  BY <1>3, <1>4

\* Two tables that bind every address alike are the same table.
LEMMA SameTable ==
  \A g : /\ g = [a \in Addresses |-> g[a]]
         /\ \A q \in Paths, u \in Types : Bindings'[<<q, u>>] = g[<<q, u>>]
         => Bindings' = g
<1> SUFFICES ASSUME NEW g, g = [a \in Addresses |-> g[a]],
                    \A q \in Paths, u \in Types : Bindings'[<<q, u>>] = g[<<q, u>>]
             PROVE  Bindings' = g
  OBVIOUS
<1>1. \A a \in Addresses : Bindings'[a] = g[a]
  BY DEF Addresses
<1>2. Bindings' = [a \in Addresses |-> Bindings'[a]]
  BY DEF Bindings
<1>3. [a \in Addresses |-> Bindings'[a]] = [a \in Addresses |-> g[a]]
  BY <1>1
<1> QED
  BY <1>2, <1>3, Zenon

\* A request changes the binding of one address or of none.
LEMMA RequestImplements ==
  \A p \in Paths, t \in MapTypes, m \in Methods \cup {NoMapping} :
    Requested(p, t, m) /\ lastCall' = lastCall => Table!Next \/ UNCHANGED Table!vars
<1> SUFFICES ASSUME NEW p \in Paths, NEW t \in MapTypes, NEW m \in Methods \cup {NoMapping},
                    Requested(p, t, m), lastCall' = lastCall
             PROVE  Table!Next \/ UNCHANGED Table!vars
  OBVIOUS
<1>1. Bindings = [a \in Addresses |-> Bindings[a]]
  BY DEF Bindings
<1>2. \A q \in Paths, u \in Types, n \in Methods \cup {NoMapping} :
        (\A r \in Paths, v \in Types :
           Bindings'[<<r, v>>] = IF r = q /\ v = u THEN n ELSE Bindings[<<r, v>>])
        => Table!Next
  <2> SUFFICES ASSUME NEW q \in Paths, NEW u \in Types, NEW n \in Methods \cup {NoMapping},
                      \A r \in Paths, v \in Types :
                        Bindings'[<<r, v>>] = IF r = q /\ v = u THEN n
                                              ELSE Bindings[<<r, v>>]
               PROVE  Table!Next
    OBVIOUS
  <2> DEFINE g == [Bindings EXCEPT ![<<q, u>>] = n]
  <2>1. g = [a \in Addresses |-> g[a]]
    BY <1>1
  <2>2. \A r \in Paths, v \in Types :
          g[<<r, v>>] = IF r = q /\ v = u THEN n ELSE Bindings[<<r, v>>]
    BY <1>1 DEF Addresses
  <2>3. \A r \in Paths, v \in Types : Bindings'[<<r, v>>] = g[<<r, v>>]
    BY <2>2
  <2>4. Bindings' = g
    <3> HIDE DEF g
    <3> QED
      BY <2>1, <2>3, SameTable
  <2>5. Table!Add(q, u, n)
    BY <2>4 DEF Table!Add
  <2>6. n = NoMapping => Table!Remove(q, u)
    BY <2>4 DEF Table!Remove
  <2> QED
    BY <2>5, <2>6 DEF Table!Next
<1>3. CASE ~HoldsSep(t) /\ t \in Types
  BY <1>2, <1>3 DEF Requested
<1>4. CASE \E q \in Paths, u \in Types : HoldsSep(t) /\ Key(q, u) = Key(p, t)
  <2>1. PICK q \in Paths, u \in Types : HoldsSep(t) /\ Key(q, u) = Key(p, t)
    BY <1>4
  <2>2. \A r \in Paths, v \in Types :
          /\ r = q /\ v = u <=> Key(r, v) = Key(p, t)
          /\ ~(r = p /\ v = t)
    <3> SUFFICES ASSUME NEW r \in Paths, NEW v \in Types
                 PROVE  /\ r = q /\ v = u <=> Key(r, v) = Key(p, t)
                        /\ ~(r = p /\ v = t)
      OBVIOUS
    <3>1. u \in MapTypes /\ ~HoldsSep(u) /\ ~HoldsSep(v)
      BY MessageTypes
    <3>2. Key(r, v) = Key(q, u) => r = q /\ v = u
      BY <3>1, KeysShared
    <3> QED
      BY <2>1, <3>1, <3>2
  <2>3. \A r \in Paths, v \in Types :
          Bindings'[<<r, v>>] = IF r = q /\ v = u THEN NoMapping ELSE Bindings[<<r, v>>]
    BY <2>1, <2>2 DEF Requested
  <2>4. NoMapping \in Methods \cup {NoMapping}
    OBVIOUS
  <2>5. Table!Next
    BY <1>2, <2>3, <2>4, Zenon
  <2> QED
    BY <2>5
<1>5. CASE /\ t \notin Types
           /\ ~\E q \in Paths, u \in Types : HoldsSep(t) /\ Key(q, u) = Key(p, t)
  <2>1. \A r \in Paths, v \in Types : Bindings'[<<r, v>>] = Bindings[<<r, v>>]
    BY <1>5 DEF Requested
  <2>2. Bindings' = Bindings
    BY <1>1, <2>1, SameTable
  <2> QED
    BY <2>2 DEF Table!vars
<1>6. t \in Types => ~HoldsSep(t)
  BY MessageTypes
<1> QED
  BY <1>3, <1>4, <1>5, <1>6

\* A message enters the function its address is bound to, with its arguments,
\* or changes nothing the table knows of.
LEMMA CatchallImplements ==
  ASSUME TypeOK, Safe, NEW p \in Paths, NEW t \in Types, Catchall(p, t)
  PROVE  Table!Invoke(p, t) \/ UNCHANGED Table!vars
<1> DEFINE o == Entry(p, t)
<1>1. Bindings' = Bindings
  BY DEF Catchall, TryMethod, Bindings
<1>2. /\ o # NoMapping /\ o \in OSCMapping /\ o.method \in Methods /\ o = osc_map[Key(p, t)]
      /\ (o.path = p /\ o.types = t) \/ HoldsSep(o.types)
  BY EntryFound DEF Safe
<1>3. CASE EnterMethod(p, t, o)
  <2>1. o.path = p /\ o.types = t
    BY <1>2, <1>3, SeparatorNotPushed DEF EnterMethod
  <2>2. Bindings[<<p, t>>] = o.method /\ o.method # NoMapping
    BY <1>2, <2>1, BindAt, NoMappingAssumption
  <2>3. lastCall' = Table!Call(p, t, Bindings[<<p, t>>])
    BY <1>3, <2>1, <2>2 DEF EnterMethod, Table!Call
  <2> QED
    BY <1>1, <2>2, <2>3 DEF Table!Invoke
<1>4. CASE CallWrongSlot(t, o)
  BY <1>1, <1>4 DEF CallWrongSlot, Table!vars
<1> QED
  BY <1>3, <1>4 DEF Catchall, TryMethod

\* The mapping table of the surface, with its string keys, erase and insert,
\* and the catch-all with its stack, behave as the abstract table
\* (ImplementsOscMap): also with separators in the types of requests, which
\* unbind the address they touch.
THEOREM Implements == Spec => ImplementsOscMap
<1>1. Init => Table!Init
  <2> SUFFICES ASSUME Init PROVE Table!Init
    OBVIOUS
  <2>1. \A p \in Paths, t \in Types : osc_map[Key(p, t)] = NoMapping
    BY MessageTypes DEF Init, Keys
  <2>2. Bindings = [a \in Paths \X Types |-> NoMapping]
    BY <2>1 DEF Bindings, Addresses
  <2> QED
    BY <2>2 DEF Init, Table!Init
<1>2. ASSUME TypeOK, Safe, [Next]_vars PROVE [Table!Next]_(Table!vars)
  <2>1. ASSUME NEW m \in Methods, Eval(m)
        PROVE  UNCHANGED Table!vars
    BY <2>1 DEF Eval, Table!vars, Bindings
  <2>2. ASSUME NEW p \in Paths, NEW t \in MapTypes, NEW m \in Methods, MapAdd(p, t, m)
        PROVE  Table!Next \/ UNCHANGED Table!vars
    <3>1. Requested(p, t, m)
      BY <1>2, <2>2, MapAddRequests
    <3>2. lastCall' = lastCall
      BY <2>2 DEF MapAdd
    <3> QED
      BY <3>1, <3>2, RequestImplements
  <2>3. ASSUME NEW p \in Paths, NEW t \in MapTypes, MapRemove(p, t)
        PROVE  Table!Next \/ UNCHANGED Table!vars
    <3>1. Requested(p, t, NoMapping)
      BY <1>2, <2>3, MapRemoveRequests
    <3>2. lastCall' = lastCall
      BY <2>3 DEF MapRemove
    <3> QED
      BY <3>1, <3>2, RequestImplements
  <2>4. CASE MapClear
    <3>1. \A p \in Paths, t \in Types : osc_map'[Key(p, t)] = NoMapping
      BY <2>4, MessageTypes DEF MapClear, Keys
    <3>2. Bindings' = [a \in Paths \X Types |-> NoMapping]
      BY <3>1 DEF Bindings, Addresses
    <3>3. Table!Clear
      BY <2>4, <3>2 DEF MapClear, Table!Clear
    <3> QED
      BY <3>3 DEF Table!Next
  <2>5. ASSUME NEW p \in Paths, NEW t \in Types, Catchall(p, t)
        PROVE  [Table!Next]_(Table!vars)
    BY <1>2, <2>5, CatchallImplements DEF Table!Next
  <2>6. CASE UNCHANGED vars
    BY <2>6 DEF vars, Table!vars, Bindings
  <2> QED
    BY <1>2, <2>1, <2>2, <2>3, <2>4, <2>5, <2>6 DEF Next
<1> QED
  BY <1>1, <1>2, TypeCorrect, Safety, PTL DEF Spec, ImplementsOscMap, Table!Spec

\* No request for an address is lost, and none touches another address, but for
\* one with a separator in its types, which unbinds it (LatestRequestWins).
THEOREM RequestsTakeEffect == Spec => []LatestRequestWins
<1>1. Init => LatestRequestWins
  <2> SUFFICES ASSUME Init PROVE Bindings = asked
    BY DEF LatestRequestWins
  <2>1. \A p \in Paths, t \in Types : osc_map[Key(p, t)] = NoMapping
    BY MessageTypes DEF Init, Keys
  <2> QED
    BY <2>1 DEF Bindings, Addresses, Init
<1>2. ASSUME NEW p \in Paths, NEW t \in MapTypes, NEW m \in Methods \cup {NoMapping},
             LatestRequestWins, Requested(p, t, m), asked' = Asked(p, t, m)
      PROVE  Bindings' = asked'
  <2>1. asked' = [a \in Addresses |-> asked'[a]]
    BY <1>2 DEF Asked
  <2>2. \A q \in Paths, u \in Types : Bindings'[<<q, u>>] = asked'[<<q, u>>]
    BY <1>2 DEF Asked, Requested, LatestRequestWins, Addresses
  <2> QED
    BY <2>1, <2>2, SameTable
<1>3. ASSUME TypeOK, LatestRequestWins, [Next]_vars PROVE LatestRequestWins'
  <2>1. ASSUME NEW m \in Methods, Eval(m)
        PROVE  Bindings' = Bindings /\ asked' = asked
    BY <2>1 DEF Eval, Bindings
  <2>2. ASSUME NEW p \in Paths, NEW t \in MapTypes, NEW m \in Methods, MapAdd(p, t, m)
        PROVE  Bindings' = asked'
    <3>1. Requested(p, t, m)
      BY <1>3, <2>2, MapAddRequests
    <3>2. asked' = Asked(p, t, m)
      BY <2>2 DEF MapAdd
    <3> QED
      BY <1>2, <1>3, <3>1, <3>2
  <2>3. ASSUME NEW p \in Paths, NEW t \in MapTypes, MapRemove(p, t)
        PROVE  Bindings' = asked'
    <3>1. Requested(p, t, NoMapping)
      BY <1>3, <2>3, MapRemoveRequests
    <3>2. asked' = Asked(p, t, NoMapping)
      BY <2>3 DEF MapRemove
    <3> QED
      BY <1>2, <1>3, <3>1, <3>2
  <2>4. CASE MapClear
    <3>1. \A p \in Paths, t \in Types : osc_map'[Key(p, t)] = NoMapping
      BY <2>4, MessageTypes DEF MapClear, Keys
    <3> QED
      BY <2>4, <3>1 DEF Bindings, Addresses, MapClear, LatestRequestWins
  <2>5. ASSUME NEW p \in Paths, NEW t \in Types, Catchall(p, t)
        PROVE  Bindings' = Bindings /\ asked' = asked
    BY <2>5 DEF Catchall, TryMethod, Bindings
  <2>6. CASE UNCHANGED vars
    BY <1>3, <2>6 DEF vars, Bindings, LatestRequestWins
  <2> QED
    BY <1>3, <2>1, <2>2, <2>3, <2>4, <2>5, <2>6 DEF Next, LatestRequestWins
<1> QED
  BY <1>1, <1>3, TypeCorrect, PTL DEF Spec
=============================================================================
