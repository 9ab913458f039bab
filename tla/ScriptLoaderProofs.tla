-------------------------- MODULE ScriptLoaderProofs ---------------------------
(***************************************************************************)
(* What LoadScript promises, proved for every import graph, every number   *)
(* of modules and every limit.  The inductive invariant says how far the   *)
(* recursion is: the stack is the set loading, every load statement already*)
(* executed has led to a cached module or to the next module of the stack, *)
(* and the cache is closed under imports and free of cycles.               *)
(***************************************************************************)
EXTENDS ScriptLoader, SequenceTheorems, FiniteSetTheorems, TLAPS

(* Which module reaches which name through its imports. *)
Needs == {p \in Modules \X Names : p[2] \in Reach(ToSet(imports[p[1]]))}

Types ==
  /\ imports \in [Modules -> Seq(Names)]
  /\ stack \in Seq(Modules) /\ executed \in Seq(Modules)
  /\ at \in [Modules -> Nat] /\ \A m \in Modules : at[m] <= Len(imports[m])
  /\ loading \subseteq Modules /\ cache \subseteq Modules
  /\ result \in {"loading", "loaded", "failed"}
  /\ broken \in BOOLEAN /\ cancelled \in BOOLEAN

(* A module is on the stack, in the cache or not yet executed, and it is   *)
(* executed once.                                                          *)
OnceExecuted ==
  /\ loading = ToSet(stack) /\ loading \cap cache = {}
  /\ \A i, j \in DOMAIN stack : stack[i] = stack[j] => i = j
  /\ \A i, j \in DOMAIN executed : executed[i] = executed[j] => i = j
  /\ cache \subseteq ToSet(executed)
  /\ result = "loading" => ToSet(executed) = cache \cup loading
  /\ \A m \in Modules \ ToSet(executed) : at[m] = 0

(* The load statements a module of the stack has executed led to a cached  *)
(* module, but for the last one of a module that is not the innermost: it  *)
(* led to the next one.                                                    *)
Resolved ==
  /\ \A i \in DOMAIN stack : i # Len(stack) =>
       at[stack[i]] # 0 /\ imports[stack[i]][at[stack[i]]] = stack[i + 1]
  /\ \A i \in DOMAIN stack : \A j \in 1..at[stack[i]] :
       imports[stack[i]][j] \in cache \/ (i # Len(stack) /\ j = at[stack[i]])

(* The cache is closed, acyclic and within the limit. *)
CacheSound ==
  /\ \A m \in cache : ToSet(imports[m]) \subseteq cache /\ <<m, m>> \notin Needs
  /\ Cardinality(cache) + Cardinality(loading) <= Limit
  /\ result # "failed" => ~broken
  /\ result = "loaded" => Entry \in cache

(* What is loaded is needed: by the script, and by the modules below it on *)
(* the stack.                                                              *)
Chain ==
  /\ cache \cup loading \subseteq Graph
  /\ \A i, j \in DOMAIN stack : i < j => <<stack[i], stack[j]>> \in Needs

Inv == Types /\ OnceExecuted /\ Resolved /\ CacheSound /\ Chain /\ RefusedForACause
--------------------------------------------------------------------------------
LEMMA ReachFacts ==
  ASSUME Types, NEW S, S \subseteq Names
  PROVE  /\ S \subseteq Reach(S) /\ Reach(S) \subseteq Names /\ Closed(Reach(S))
         /\ \A T \in SUBSET Names : S \subseteq T /\ Closed(T) => Reach(S) \subseteq T
<1>1. S \subseteq Reach(S) /\ Reach(S) \subseteq Names
      /\ \A T \in SUBSET Names : S \subseteq T /\ Closed(T) => Reach(S) \subseteq T
  BY DEF Reach
<1>2. Closed(Reach(S))
  <2>1. ASSUME NEW m \in Modules PROVE ToSet(imports[m]) \subseteq Names
    <3>1. imports[m] \in Seq(Names)
      BY DEF Types
    <3> QED BY <3>1, LenProperties, ElementOfSeq DEF ToSet
  <2>2. ASSUME NEW m \in Reach(S) \cap Modules, NEW n \in ToSet(imports[m])
        PROVE  n \in Reach(S)
    <3>1. n \in Names
      BY <2>1
    <3>2. ASSUME NEW T \in SUBSET Names, S \subseteq T, Closed(T) PROVE n \in T
      BY <3>2, <2>2 DEF Reach, Closed
    <3> QED BY <3>1, <3>2 DEF Reach
  <2> QED BY <2>2 DEF Closed
<1> QED BY <1>1, <1>2

(* The import graph does not change while it is loaded. *)
LEMMA Frozen ==
  ASSUME imports' = imports
  PROVE  Needs' = Needs /\ Graph' = Graph
BY DEF Needs, Graph, Reach, Closed

LEMMA ImportsAreNames ==
  ASSUME Types, NEW m \in Modules
  PROVE  /\ imports[m] \in Seq(Names) /\ Len(imports[m]) \in Nat
         /\ ToSet(imports[m]) = {imports[m][j] : j \in 1..Len(imports[m])}
         /\ ToSet(imports[m]) \subseteq Names
<1>1. imports[m] \in Seq(Names)
  BY DEF Types
<1> QED BY <1>1, LenProperties, ElementOfSeq DEF ToSet

LEMMA NeedsFacts ==
  ASSUME Types, NEW m \in Modules
  PROVE  /\ \A n \in ToSet(imports[m]) : <<m, n>> \in Needs
         /\ \A p \in Modules : <<m, p>> \in Needs =>
              \A n \in ToSet(imports[p]) : <<m, n>> \in Needs
         /\ \A T \in SUBSET Names : ToSet(imports[m]) \subseteq T /\ Closed(T) =>
              \A n : <<m, n>> \in Needs => n \in T
<1> DEFINE R == Reach(ToSet(imports[m]))
<1>1. /\ ToSet(imports[m]) \subseteq R /\ R \subseteq Names /\ Closed(R)
      /\ \A T \in SUBSET Names : ToSet(imports[m]) \subseteq T /\ Closed(T) => R \subseteq T
  BY ImportsAreNames, ReachFacts
<1>2. \A n : <<m, n>> \in Needs <=> n \in R
  BY <1>1 DEF Needs
<1> HIDE DEF R
<1> QED BY <1>1, <1>2 DEF Closed

LEMMA GraphFacts ==
  ASSUME Types
  PROVE  /\ Entry \in Graph /\ Graph \subseteq Names
         /\ \A m \in Graph \cap Modules : ToSet(imports[m]) \subseteq Graph
         /\ \A T \in SUBSET Names : Entry \in T /\ Closed(T) => Graph \subseteq T
         /\ Acyclic <=> \A m \in Graph \cap Modules : <<m, m>> \notin Needs
<1>1. {Entry} \subseteq Names
  BY ScriptLoaderAssumption DEF Names
<1>2. /\ Entry \in Graph /\ Graph \subseteq Names /\ Closed(Graph)
      /\ \A T \in SUBSET Names : Entry \in T /\ Closed(T) => Graph \subseteq T
  BY <1>1, ReachFacts DEF Graph
<1>3. Acyclic <=> \A m \in Graph \cap Modules : <<m, m>> \notin Needs
  BY <1>2 DEF Acyclic, Needs
<1> QED BY <1>2, <1>3 DEF Closed

(* The innermost module. *)
LEMMA CurrentFact ==
  ASSUME Types, OnceExecuted, stack # << >>
  PROVE  /\ Len(stack) \in Nat \ {0} /\ DOMAIN stack = 1..Len(stack)
         /\ Current = stack[Len(stack)] /\ Current \in Modules /\ Current \in loading
         /\ \A i \in DOMAIN stack : stack[i] \in Modules /\ stack[i] \in loading
<1>1. /\ Len(stack) \in Nat \ {0} /\ DOMAIN stack = 1..Len(stack)
      /\ \A i \in 1..Len(stack) : stack[i] \in Modules
  BY EmptySeq, LenProperties, ElementOfSeq DEF Types
<1> QED BY <1>1 DEF OnceExecuted, ToSet, Current, Last

(* The name that load() is called with.                                    *)
LEMMA CalledFact ==
  ASSUME Types, OnceExecuted, Chain, HasCall
  PROVE  /\ Called \in Graph /\ Called \in Names
         /\ stack = << >> => Called = Entry /\ loading = {}
         /\ stack # << >> =>
              /\ at[Current] + 1 \in 1..Len(imports[Current])
              /\ Called = imports[Current][at[Current] + 1]
              /\ Called \in ToSet(imports[Current])
<1>1. CASE stack = << >>
  <2>1. Called = Entry /\ loading = {}
    BY <1>1 DEF Called, OnceExecuted, ToSet
  <2> QED BY <1>1, <2>1, GraphFacts
<1>2. CASE stack # << >>
  <2>1. Current \in Modules /\ Current \in loading
    BY <1>2, CurrentFact
  <2>2. at[Current] \in Nat /\ at[Current] < Len(imports[Current])
        /\ Called = imports[Current][at[Current] + 1]
    BY <1>2, <2>1 DEF HasCall, Called, Types
  <2>3. at[Current] + 1 \in 1..Len(imports[Current])
    BY <2>1, <2>2, ImportsAreNames
  <2>4. Called \in ToSet(imports[Current])
    BY <2>1, <2>2, <2>3, ImportsAreNames
  <2>5. Called \in Graph
    BY <2>1, <2>4, GraphFacts DEF Chain
  <2> QED BY <1>2, <2>2, <2>3, <2>4, <2>5, GraphFacts
<1> QED BY <1>1, <1>2

LEMMA InvInit == Init => Inv
<1> SUFFICES ASSUME Init PROVE Inv
  OBVIOUS
<1>1. DOMAIN stack = {} /\ DOMAIN executed = {} /\ ToSet(stack) = {} /\ ToSet(executed) = {}
  BY DEF Init, ToSet
<1>2. Types
  <2>1. imports \in [Modules -> Seq(Names)]
    BY ScriptLoaderAssumption DEF Init
  <2>2. \A m \in Modules : Len(imports[m]) \in Nat /\ at[m] = 0
    BY <2>1, LenProperties DEF Init
  <2>3. stack \in Seq(Modules) /\ executed \in Seq(Modules)
    BY EmptySeq DEF Init
  <2>4. at \in [Modules -> Nat] /\ \A m \in Modules : at[m] <= Len(imports[m])
    BY <2>2 DEF Init
  <2>5. /\ loading \subseteq Modules /\ cache \subseteq Modules
        /\ result = "loading" /\ broken \in BOOLEAN /\ cancelled \in BOOLEAN
    BY DEF Init
  <2> QED BY <2>1, <2>3, <2>4, <2>5 DEF Types
<1>3. OnceExecuted
  BY <1>1 DEF Init, OnceExecuted
<1>4. Resolved
  BY <1>1 DEF Resolved
<1>5. CacheSound
  <2>1. Cardinality(cache) = 0 /\ Cardinality(loading) = 0
    BY FS_EmptySet DEF Init
  <2> QED BY <2>1, ScriptLoaderAssumption DEF Init, CacheSound
<1>6. Chain /\ RefusedForACause
  BY <1>1 DEF Init, Chain, RefusedForACause
<1> QED BY <1>2, <1>3, <1>4, <1>5, <1>6 DEF Inv

(* A load statement that a cached module answers. *)
LEMMA CachedStep ==
  ASSUME Inv, LoadCached
  PROVE  Inv'
<1> USE DEF Inv
<1>1. /\ stack # << >> /\ Called \in cache /\ HasCall
      /\ at' = [at EXCEPT ![Current] = @ + 1]
      /\ UNCHANGED <<imports, stack, loading, cache, executed, result, broken, cancelled>>
  BY CalledFact DEF LoadCached, HasCall, Advanced
<1>2. /\ Len(stack) \in Nat \ {0} /\ DOMAIN stack = 1..Len(stack)
      /\ Current = stack[Len(stack)] /\ Current \in Modules /\ Current \in loading
      /\ \A i \in DOMAIN stack : stack[i] \in Modules
  BY <1>1, CurrentFact
<1>3. /\ at[Current] \in Nat /\ at[Current] + 1 \in 1..Len(imports[Current])
      /\ Called = imports[Current][at[Current] + 1]
  BY <1>1, <1>2, CalledFact DEF Types
<1>4. at' \in [Modules -> Nat] /\ at'[Current] = at[Current] + 1
      /\ \A m \in Modules : m # Current => at'[m] = at[m]
  BY <1>1, <1>2, <1>3 DEF Types
<1>5. Types'
  <2>1. at'[Current] <= Len(imports[Current])
    BY <1>3, <1>4
  <2>2. \A m \in Modules : at'[m] <= Len(imports[m])
    BY <1>4, <2>1 DEF Types
  <2> QED BY <1>1, <1>4, <2>2 DEF Types
<1>6. OnceExecuted'
  <2>1. \A m \in Modules \ ToSet(executed) : m # Current
    BY <1>1, <1>2 DEF OnceExecuted, LoadCached
  <2> QED BY <1>1, <1>4, <2>1 DEF OnceExecuted, ToSet
<1>7. Resolved'
  <2>1. \A i \in DOMAIN stack : i # Len(stack) => stack[i] # Current
    BY <1>2 DEF OnceExecuted
  <2>2. \A i \in DOMAIN stack : i # Len(stack) =>
          at'[stack[i]] # 0 /\ imports[stack[i]][at'[stack[i]]] = stack[i + 1]
    BY <1>2, <1>4, <2>1 DEF Resolved
  <2>3. ASSUME NEW i \in DOMAIN stack, NEW j \in 1..at'[stack[i]]
        PROVE  imports[stack[i]][j] \in cache \/ (i # Len(stack) /\ j = at'[stack[i]])
    <3>1. CASE i # Len(stack)
      BY <1>2, <1>4, <2>1, <2>3, <3>1 DEF Resolved
    <3>2. CASE i = Len(stack)
      <4>1. j \in 1..at[Current] \/ j = at[Current] + 1
        BY <1>2, <1>3, <1>4, <3>2
      <4> QED BY <1>1, <1>2, <1>3, <3>2, <4>1 DEF Resolved
    <3> QED BY <3>1, <3>2
  <2> QED BY <1>1, <2>2, <2>3 DEF Resolved
<1>8. CacheSound' /\ Chain' /\ RefusedForACause'
  <2>1. Needs' = Needs /\ Graph' = Graph
    BY <1>1, Frozen
  <2>2. RefusedForACause'
    BY <1>1 DEF LoadCached, RefusedForACause
  <2> QED BY <1>1, <2>1, <2>2 DEF CacheSound, Chain, ToSet
<1> QED BY <1>5, <1>6, <1>7, <1>8

(* An error ends the loading, for a cause or because it was cancelled. *)
LEMMA AbortStep ==
  ASSUME Inv, Abort, broken' \in BOOLEAN, cancelled \/ ~Sound'
  PROVE  Inv'
<1> USE DEF Inv
<1>1. /\ result' = "failed" /\ stack' = << >> /\ loading' = {}
      /\ UNCHANGED <<imports, at, cache, executed, cancelled>>
  BY DEF Abort
<1>2. Needs' = Needs /\ Graph' = Graph
  BY <1>1, Frozen
<1>3. DOMAIN stack' = {} /\ ToSet(stack') = {} /\ stack' \in Seq(Modules)
  BY <1>1, EmptySeq DEF ToSet
<1>4. Types'
  BY <1>1, <1>3 DEF Types
<1>5. OnceExecuted'
  BY <1>1, <1>3 DEF OnceExecuted, ToSet
<1>6. CacheSound'
  <2>1. IsFiniteSet(cache) /\ IsFiniteSet(loading)
    BY ScriptLoaderAssumption, FS_Subset DEF Types
  <2>2. Cardinality(cache) \in Nat /\ Cardinality(loading) \in Nat /\ Cardinality(loading') = 0
    BY <1>1, <2>1, FS_CardinalityType, FS_EmptySet
  <2>3. Cardinality(cache') + Cardinality(loading') <= Limit
    BY <1>1, <2>2, ScriptLoaderAssumption DEF CacheSound
  <2> QED BY <1>1, <1>2, <2>3 DEF CacheSound, ToSet
<1>7. Resolved' /\ Chain' /\ RefusedForACause'
  BY <1>1, <1>2, <1>3 DEF Resolved, Chain, RefusedForACause
<1> QED BY <1>4, <1>5, <1>6, <1>7

(* A name that is refused makes the import graph unsound. *)
LEMMA RefusedStep ==
  ASSUME Inv, LoadRefused
  PROVE  Inv'
<1> USE DEF Inv
<1>1. /\ Called \in Graph /\ Called \in Names /\ Called \notin cache /\ HasCall /\ Abort
      /\ broken' = broken /\ imports' = imports
  BY CalledFact DEF LoadRefused, Abort
<1>2. ASSUME Called = Outside PROVE ~Sound
  BY <1>1, <1>2 DEF Sound
<1>3. ASSUME Cyclic(Called) PROVE ~Sound
  <2>1. stack # << >> /\ Called \in ToSet(stack)
    BY <1>1, <1>3, CalledFact DEF Cyclic, OnceExecuted
  <2>2. Current \in Modules /\ Called \in ToSet(imports[Current])
        /\ DOMAIN stack = 1..Len(stack) /\ Len(stack) \in Nat \ {0}
        /\ Current = stack[Len(stack)]
    BY <1>1, <2>1, CurrentFact, CalledFact
  <2>3. PICK i \in 1..Len(stack) : Called = stack[i]
    BY <2>1, <2>2 DEF ToSet
  <2>4. Called \in Modules /\ Called \in Graph
    BY <1>1, <1>3 DEF Cyclic, Types
  <2>5. <<Called, Called>> \in Needs
    <3>1. CASE i = Len(stack)
      BY <2>2, <2>3, <3>1, NeedsFacts
    <3>2. CASE i # Len(stack)
      <4> DEFINE l == Len(stack)
      <4>1. i \in DOMAIN stack /\ l \in DOMAIN stack /\ i < l
        <5>1. l \in Nat \ {0} /\ DOMAIN stack = 1..l /\ i \in 1..l /\ i # l
          BY <2>2, <2>3, <3>2
        <5> HIDE DEF l
        <5> QED BY <5>1
      <4> HIDE DEF l
      <4>2. <<stack[i], stack[l]>> \in Needs
        BY <4>1 DEF Chain
      <4>3. <<Called, Current>> \in Needs
        BY <2>2, <2>3, <4>2 DEF l
      <4> QED BY <2>2, <2>4, <4>3, NeedsFacts
    <3> QED BY <3>1, <3>2
  <2> QED BY <2>4, <2>5, GraphFacts DEF Sound
<1>4. ASSUME Full, ~Cyclic(Called), Called # Outside PROVE ~Sound
  <2> DEFINE T == cache \cup loading \cup {Called}
  <2>1. Called \notin cache \cup loading /\ cache \cup loading \subseteq Modules
        /\ T \subseteq Graph /\ cache \cap loading = {}
    BY <1>1, <1>4 DEF Cyclic, Chain, Types, OnceExecuted
  <2>2. IsFiniteSet(cache) /\ IsFiniteSet(loading) /\ IsFiniteSet(Graph)
    <3>1. IsFiniteSet(Modules \cup {Outside}) /\ IsFiniteSet((Modules \cup {Outside}) \cup {Endless})
      BY ScriptLoaderAssumption, FS_AddElement
    <3>2. Names = (Modules \cup {Outside}) \cup {Endless}
      BY DEF Names
    <3> QED BY <3>1, <3>2, ScriptLoaderAssumption, GraphFacts, FS_Subset DEF Types
  <2>3. /\ IsFiniteSet(cache \cup loading)
        /\ Cardinality(cache \cup loading) = Cardinality(cache) + Cardinality(loading)
    <3>1. Cardinality(cache \cap loading) = 0
      BY <2>1, FS_EmptySet
    <3>2. Cardinality(cache) \in Nat /\ Cardinality(loading) \in Nat
      BY <2>2, FS_CardinalityType
    <3>3. /\ IsFiniteSet(cache \cup loading)
          /\ Cardinality(cache \cup loading)
               = Cardinality(cache) + Cardinality(loading) - Cardinality(cache \cap loading)
      BY <2>2, FS_Union
    <3> QED BY <3>1, <3>2, <3>3
  <2>4. Cardinality(T) = Cardinality(cache) + Cardinality(loading) + 1
    BY <2>1, <2>3, FS_AddElement
  <2>5. Cardinality(T) <= Cardinality(Graph)
    <3> HIDE DEF T
    <3> QED BY <2>1, <2>2, FS_Subset
  <2>6. Cardinality(Graph) \in Nat /\ Cardinality(cache) \in Nat /\ Cardinality(loading) \in Nat
    BY <2>2, FS_CardinalityType
  <2>7. ~(Cardinality(Graph) <= Limit)
    BY <1>4, <2>4, <2>5, <2>6, ScriptLoaderAssumption DEF Full
  <2> QED BY <2>7 DEF Sound
<1>5. ~Sound
  BY <1>1, <1>2, <1>3, <1>4 DEF LoadRefused
<1>6. Sound' <=> Sound
  <2>1. Acyclic' <=> Acyclic
    BY <1>1 DEF Acyclic, Graph, Reach, Closed
  <2> QED BY <1>1, <2>1, Frozen DEF Sound
<1>7. broken' \in BOOLEAN
  BY <1>1 DEF Types
<1> QED BY <1>1, <1>5, <1>6, <1>7, AbortStep

(* A module is opened and its execution begins. *)
LEMMA ModuleStep ==
  ASSUME Inv, LoadModule
  PROVE  Inv'
<1> USE DEF Inv
<1> DEFINE c == Called
           l == Len(stack)
<1>1. /\ result = "loading" /\ HasCall /\ c \in Modules \ cache /\ c \notin loading
      /\ ~(Cardinality(cache) + Cardinality(loading) >= Limit)
      /\ loading' = loading \cup {c} /\ stack' = Append(stack, c)
      /\ executed' = Append(executed, c) /\ at' = Advanced
      /\ UNCHANGED <<imports, cache, result, broken, cancelled>>
  BY DEF LoadModule, Cyclic, Full
<1>2. c \in Graph /\ (stack # << >> =>
        /\ at[Current] + 1 \in 1..Len(imports[Current]) /\ at[Current] \in Nat
        /\ c = imports[Current][at[Current] + 1] /\ c \in ToSet(imports[Current]))
  BY <1>1, CalledFact, CurrentFact DEF Types
<1>3. l \in Nat /\ DOMAIN stack = 1..l /\ \A i \in 1..l : stack[i] \in loading
  BY LenProperties DEF Types, OnceExecuted, ToSet
<1>4. stack # << >> =>
        l # 0 /\ Current = stack[l] /\ Current \in Modules /\ Current \in loading
  BY CurrentFact
<1> HIDE DEF c
<1>5. /\ stack' \in Seq(Modules) /\ Len(stack') = l + 1 /\ DOMAIN stack' = 1..(l + 1)
      /\ stack'[l + 1] = c /\ \A i \in 1..l : stack'[i] = stack[i]
  BY <1>1, <1>3, AppendProperties, LenProperties DEF Types
<1>6. /\ executed' \in Seq(Modules) /\ Len(executed) \in Nat
      /\ DOMAIN executed = 1..Len(executed) /\ DOMAIN executed' = 1..(Len(executed) + 1)
      /\ executed'[Len(executed) + 1] = c
      /\ \A i \in 1..Len(executed) : executed'[i] = executed[i]
  BY <1>1, AppendProperties, LenProperties DEF Types
<1>7. stack = << >> => l = 0 /\ at' = at
  BY <1>1, EmptySeq DEF Advanced
<1>8. stack # << >> => at' = [at EXCEPT ![Current] = @ + 1]
  BY <1>1 DEF Advanced
<1>9. /\ at' \in [Modules -> Nat] /\ (stack # << >> => at'[Current] = at[Current] + 1)
      /\ \A m \in Modules : stack = << >> \/ m # Current => at'[m] = at[m]
  <2>1. CASE stack = << >>
    BY <1>7, <2>1 DEF Types
  <2>2. CASE stack # << >>
    <3> DEFINE k == Current
    <3>1. at \in [Modules -> Nat] /\ k \in Modules /\ at[k] + 1 \in Nat
          /\ at' = [at EXCEPT ![k] = at[k] + 1]
      BY <1>2, <1>4, <1>8, <2>2 DEF Types
    <3> HIDE DEF k
    <3>2. at' \in [Modules -> Nat] /\ at'[k] = at[k] + 1
          /\ \A m \in Modules : m # k => at'[m] = at[m]
      BY <3>1
    <3> QED BY <2>2, <3>2 DEF k
  <2> QED BY <2>1, <2>2
<1> HIDE DEF l
<1>10. Types'
  <2>1. stack # << >> => at'[Current] <= Len(imports[Current])
    BY <1>2, <1>9
  <2>2. \A m \in Modules : at'[m] <= Len(imports[m])
    BY <1>9, <2>1 DEF Types
  <2>3. loading' \subseteq Modules
    BY <1>1 DEF Types
  <2> QED BY <1>1, <1>5, <1>6, <1>9, <2>2, <2>3 DEF Types
<1>11. c \notin ToSet(executed) /\ at[c] = 0 /\ (stack # << >> => c # Current)
  BY <1>1, <1>4 DEF OnceExecuted
<1>12. OnceExecuted'
  <2>1. ToSet(stack') = ToSet(stack) \cup {c}
    <3>1. \A i \in 1..(l + 1) : i \in 1..l \/ i = l + 1
      BY <1>3
    <3>2. l + 1 \in 1..(l + 1) /\ \A i \in 1..l : i \in 1..(l + 1)
      BY <1>3
    <3> QED BY <1>3, <1>5, <3>1, <3>2 DEF ToSet
  <2>2. ToSet(executed') = ToSet(executed) \cup {c}
    <3> DEFINE e == Len(executed)
    <3>1. \A i \in 1..(e + 1) : i \in 1..e \/ i = e + 1
      BY <1>6
    <3>2. e + 1 \in 1..(e + 1) /\ \A i \in 1..e : i \in 1..(e + 1)
      BY <1>6
    <3> HIDE DEF e
    <3> QED BY <1>6, <3>1, <3>2 DEF ToSet, e
  <2>3. \A i, j \in DOMAIN stack' : stack'[i] = stack'[j] => i = j
    <3>1. \A i \in 1..(l + 1) : i \in 1..l \/ i = l + 1
      BY <1>3
    <3>2. \A i \in 1..l : stack[i] # c
      BY <1>1, <1>3
    <3> QED BY <1>3, <1>5, <3>1, <3>2 DEF OnceExecuted
  <2>4. \A i, j \in DOMAIN executed' : executed'[i] = executed'[j] => i = j
    <3> DEFINE e == Len(executed)
    <3>1. \A i \in 1..(e + 1) : i \in 1..e \/ i = e + 1
      BY <1>6
    <3>2. \A i \in 1..e : executed[i] # c
      BY <1>6, <1>11 DEF ToSet
    <3> HIDE DEF e
    <3> QED BY <1>6, <3>1, <3>2 DEF OnceExecuted, e
  <2>5. \A m \in Modules \ ToSet(executed') : at'[m] = 0
    BY <1>1, <1>4, <1>9, <2>2 DEF OnceExecuted
  <2>6. loading' \cap cache' = {}
    BY <1>1 DEF OnceExecuted
  <2> QED BY <1>1, <2>1, <2>2, <2>3, <2>4, <2>5, <2>6 DEF OnceExecuted
<1>13. Resolved'
  <2>1. at'[c] = 0
    BY <1>1, <1>9, <1>11
  <2>2. ASSUME NEW i \in 1..l
        PROVE  /\ at'[stack[i]] # 0 /\ imports[stack[i]][at'[stack[i]]] = stack'[i + 1]
               /\ \A j \in 1..at'[stack[i]] : imports[stack[i]][j] \in cache \/ j = at'[stack[i]]
    <3>1. stack # << >> /\ l \in 1..l /\ stack[i] \in Modules
      BY <1>3, <1>7, <2>2 DEF Types
    <3>2. CASE i = l
      <4>1. \A j \in 1..(at[Current] + 1) : j \in 1..at[Current] \/ j = at[Current] + 1
        BY <1>2, <3>1
      <4>2. \A j \in 1..at[Current] : imports[Current][j] \in cache
        BY <1>3, <1>4, <3>1 DEF Resolved, l
      <4> QED BY <1>2, <1>4, <1>5, <1>9, <3>1, <3>2, <4>1, <4>2
    <3>3. CASE i # l
      <4>1. stack[i] # Current /\ i \in DOMAIN stack
        BY <1>3, <1>4, <3>1, <3>3 DEF OnceExecuted
      <4>2. i + 1 \in 1..l /\ stack'[i + 1] = stack[i + 1]
        BY <1>3, <1>5, <3>3
      <4>3. at'[stack[i]] = at[stack[i]]
        BY <1>9, <3>1, <4>1
      <4> QED BY <3>3, <4>1, <4>2, <4>3 DEF Resolved, l
    <3> QED BY <3>2, <3>3
  <2>3. ASSUME NEW i \in 1..(l + 1)
        PROVE  /\ i # l + 1 => /\ at'[stack'[i]] # 0
                               /\ imports[stack'[i]][at'[stack'[i]]] = stack'[i + 1]
               /\ \A j \in 1..at'[stack'[i]] :
                    imports[stack'[i]][j] \in cache \/ (i # l + 1 /\ j = at'[stack'[i]])
    <3>1. CASE i \in 1..l
      <4>1. i # l + 1 /\ stack'[i] = stack[i]
        BY <1>3, <1>5, <3>1
      <4> QED BY <2>2, <3>1, <4>1
    <3>2. CASE i = l + 1
      <4>1. stack'[i] = c /\ \A j \in 1..0 : FALSE
        BY <1>5, <3>2
      <4> QED BY <2>1, <3>2, <4>1
    <3> QED BY <1>3, <3>1, <3>2
  <2>4. imports' = imports /\ cache' = cache
    BY <1>1
  <2>5. \A i \in DOMAIN stack' : i # Len(stack') =>
          at'[stack'[i]] # 0 /\ imports'[stack'[i]][at'[stack'[i]]] = stack'[i + 1]
    BY <1>5, <2>3, <2>4
  <2>6. \A i \in DOMAIN stack' : \A j \in 1..at'[stack'[i]] :
          imports'[stack'[i]][j] \in cache' \/ (i # Len(stack') /\ j = at'[stack'[i]])
    BY <1>5, <2>3, <2>4
  <2> QED BY <2>5, <2>6 DEF Resolved
<1>14. Needs' = Needs /\ Graph' = Graph
  BY <1>1, Frozen
<1>15. CacheSound'
  <2>1. IsFiniteSet(cache) /\ IsFiniteSet(loading)
    BY ScriptLoaderAssumption, FS_Subset DEF Types
  <2>2. /\ Cardinality(cache) \in Nat /\ Cardinality(loading) \in Nat
        /\ Cardinality(loading') = Cardinality(loading) + 1
    BY <1>1, <2>1, FS_CardinalityType, FS_AddElement
  <2>3. Cardinality(cache') + Cardinality(loading') <= Limit
    BY <1>1, <2>2, ScriptLoaderAssumption
  <2> QED BY <1>1, <1>14, <2>3 DEF CacheSound, ToSet
<1>16. Chain'
  <2>1. cache' \cup loading' \subseteq Graph
    BY <1>1, <1>2 DEF Chain
  <2>2. ASSUME NEW i \in 1..l PROVE <<stack[i], c>> \in Needs
    <3>1. stack # << >> /\ l \in 1..l /\ stack[i] \in Modules
      BY <1>3, <1>7, <2>2 DEF Types
    <3>2. CASE i = l
      BY <1>2, <1>4, <3>1, <3>2, NeedsFacts
    <3>3. CASE i # l
      <4>1. i < l /\ i \in DOMAIN stack /\ l \in DOMAIN stack
        BY <1>3, <3>1, <3>3
      <4>2. <<stack[i], Current>> \in Needs
        BY <1>4, <3>1, <4>1 DEF Chain
      <4> QED BY <1>2, <1>4, <3>1, <4>2, NeedsFacts
    <3> QED BY <3>2, <3>3
  <2>3. ASSUME NEW i \in 1..(l + 1), NEW j \in 1..(l + 1), i < j
        PROVE  <<stack'[i], stack'[j]>> \in Needs
    <3>1. i \in 1..l /\ stack'[i] = stack[i] /\ (j \in 1..l \/ j = l + 1)
      BY <1>3, <1>5, <2>3
    <3>2. CASE j \in 1..l
      BY <1>3, <1>5, <2>3, <3>1, <3>2 DEF Chain
    <3>3. CASE j = l + 1
      BY <1>5, <2>2, <3>1, <3>3
    <3> QED BY <3>1, <3>2, <3>3
  <2> QED BY <1>5, <1>14, <2>1, <2>3 DEF Chain
<1>17. RefusedForACause'
  BY <1>1 DEF RefusedForACause
<1> QED BY <1>10, <1>12, <1>13, <1>15, <1>16, <1>17

(* A module has executed to its end and enters the cache. *)
LEMMA ExecEndsStep ==
  ASSUME Inv, ExecEnds
  PROVE  Inv'
<1> USE DEF Inv
<1> DEFINE c == Current
           l == Len(stack)
<1>1. /\ result = "loading" /\ stack # << >> /\ ~HasCall
      /\ cache' = cache \cup {c} /\ loading' = loading \ {c} /\ stack' = Front(stack)
      /\ UNCHANGED <<imports, at, executed, result, broken, cancelled>>
  BY DEF ExecEnds
<1>2. /\ l \in Nat \ {0} /\ DOMAIN stack = 1..l /\ c = stack[l] /\ c \in Modules /\ c \in loading
      /\ \A i \in 1..l : stack[i] \in Modules
  BY <1>1, CurrentFact
<1>3. c \notin cache
  BY <1>2 DEF OnceExecuted
<1>4. at[c] = Len(imports[c])
  <2>1. at[c] \in Nat /\ at[c] <= Len(imports[c]) /\ ~(at[c] < Len(imports[c]))
    BY <1>1, <1>2 DEF HasCall, Types
  <2>2. Len(imports[c]) \in Nat
    BY <1>2, ImportsAreNames
  <2> HIDE DEF c
  <2> QED BY <2>1, <2>2
<1>5. ToSet(imports[c]) \subseteq cache
  <2>1. \A j \in 1..at[c] : imports[c][j] \in cache
    BY <1>2 DEF Resolved
  <2>2. ToSet(imports[c]) = {imports[c][j] : j \in 1..Len(imports[c])}
    BY <1>2, ImportsAreNames
  <2> HIDE DEF c
  <2> QED BY <1>4, <2>1, <2>2
<1> HIDE DEF c
<1>6. /\ stack' \in Seq(Modules) /\ Len(stack') = l - 1 /\ DOMAIN stack' = 1..(l - 1)
      /\ \A i \in 1..(l - 1) : stack'[i] = stack[i]
  <2>1. stack' = SubSeq(stack, 1, l - 1) /\ stack \in Seq(Modules)
    BY <1>1 DEF Front, Types
  <2>2. l - 1 \in Nat /\ \A i \in 1..(l - 1) : i \in 1..l
    BY <1>2
  <2>3. /\ stack' \in Seq(Modules) /\ Len(stack') = l - 1
        /\ \A i \in 1..(l - 1) : stack'[i] = stack[i]
    <3> DEFINE m == l - 1
               t == SubSeq(stack, 1, m)
    <3>1. \A i \in 1..m : stack[i] \in Modules
      BY <2>1, <2>2, ElementOfSeq
    <3>2. m \in Nat /\ m \in Int /\ 1 \in Int
      BY <2>2
    <3> HIDE DEF m
    <3>3. /\ t \in Seq(Modules) /\ Len(t) = IF 1 <= m THEN m - 1 + 1 ELSE 0
          /\ \A i \in 1..(m - 1 + 1) : t[i] = stack[1 + i - 1]
      BY <3>1, <3>2, SubSeqProperties
    <3> HIDE DEF t
    <3>4. Len(t) = m /\ m - 1 + 1 = m /\ \A i \in 1..m : 1 + i - 1 = i
      BY <3>2, <3>3
    <3> QED BY <2>1, <3>3, <3>4 DEF m, t
  <2> QED BY <2>3, LenProperties
<1> HIDE DEF l
<1>7. Types'
  BY <1>1, <1>2, <1>6 DEF Types
<1>8. \A i \in 1..(l - 1) : i \in 1..l /\ i # l /\ stack[i] # c
  BY <1>2 DEF OnceExecuted
<1>9. OnceExecuted'
  <2>1. ToSet(stack') = loading'
    <3>1. \A i \in 1..l : i \in 1..(l - 1) \/ i = l
      BY <1>2
    <3> QED BY <1>1, <1>2, <1>6, <1>8, <3>1 DEF OnceExecuted, ToSet
  <2>2. \A i, j \in DOMAIN stack' : stack'[i] = stack'[j] => i = j
    BY <1>2, <1>6, <1>8 DEF OnceExecuted
  <2>3. cache' \cup loading' = cache \cup loading /\ loading' \cap cache' = {}
    BY <1>1, <1>2 DEF OnceExecuted
  <2>4. ToSet(executed') = ToSet(executed)
    BY <1>1
  <2>5. cache' \subseteq ToSet(executed)
    BY <1>1, <1>2 DEF OnceExecuted
  <2> QED BY <1>1, <2>1, <2>2, <2>3, <2>4, <2>5 DEF OnceExecuted
<1>10. Resolved'
  <2>1. ASSUME NEW i \in 1..(l - 1)
        PROVE  /\ i # l - 1 => at[stack[i]] # 0 /\ imports[stack[i]][at[stack[i]]] = stack'[i + 1]
               /\ \A j \in 1..at[stack[i]] :
                    imports[stack[i]][j] \in cache' \/ (i # l - 1 /\ j = at[stack[i]])
    <3>1. i \in DOMAIN stack /\ i # Len(stack) /\ (i # l - 1 => i + 1 \in 1..(l - 1))
      <4>1. i \in 1..l /\ i # l /\ (i # l - 1 => i + 1 \in 1..(l - 1))
        BY <1>2, <1>8
      <4> QED BY <1>2, <4>1 DEF l
    <3>2. at[stack[i]] # 0 /\ imports[stack[i]][at[stack[i]]] = stack[i + 1]
      BY <3>1 DEF Resolved
    <3>3. \A j \in 1..at[stack[i]] : imports[stack[i]][j] \in cache \/ j = at[stack[i]]
      BY <3>1 DEF Resolved
    <3>4. i = l - 1 => stack[i + 1] = c
      BY <1>2
    <3> QED BY <1>1, <1>6, <3>1, <3>2, <3>3, <3>4
  <2>2. \A i \in DOMAIN stack' : i # Len(stack') =>
          at'[stack'[i]] # 0 /\ imports'[stack'[i]][at'[stack'[i]]] = stack'[i + 1]
    BY <1>1, <1>6, <2>1
  <2>3. \A i \in DOMAIN stack' : \A j \in 1..at'[stack'[i]] :
          imports'[stack'[i]][j] \in cache' \/ (i # Len(stack') /\ j = at'[stack'[i]])
    BY <1>1, <1>6, <2>1
  <2> QED BY <2>2, <2>3 DEF Resolved
<1>11. Needs' = Needs /\ Graph' = Graph
  BY <1>1, Frozen
<1>12. CacheSound'
  <2>1. <<c, c>> \notin Needs
    <3>1. Closed(cache) /\ cache \in SUBSET Names
      BY DEF CacheSound, Closed, Types, Names
    <3> QED BY <1>2, <1>3, <1>5, <3>1, NeedsFacts
  <2>2. Cardinality(cache') + Cardinality(loading') <= Limit
    <3>1. IsFiniteSet(cache) /\ IsFiniteSet(loading)
      BY ScriptLoaderAssumption, FS_Subset DEF Types
    <3>2. /\ Cardinality(cache) \in Nat /\ Cardinality(loading) \in Nat
          /\ Cardinality(cache') = Cardinality(cache) + 1
          /\ Cardinality(loading') = Cardinality(loading) - 1
      BY <1>1, <1>2, <1>3, <3>1, FS_CardinalityType, FS_AddElement, FS_RemoveElement
    <3> QED BY <3>2, ScriptLoaderAssumption DEF CacheSound
  <2>3. \A m \in cache' : ToSet(imports'[m]) \subseteq cache' /\ <<m, m>> \notin Needs
    BY <1>1, <1>5, <2>1 DEF CacheSound
  <2> QED BY <1>1, <1>11, <2>2, <2>3 DEF CacheSound
<1>13. Chain'
  <2>1. cache' \cup loading' \subseteq Graph
    BY <1>1, <1>2 DEF Chain
  <2>2. \A i, j \in DOMAIN stack' : i < j => <<stack'[i], stack'[j]>> \in Needs
    BY <1>2, <1>6, <1>8 DEF Chain
  <2> QED BY <1>11, <2>1, <2>2 DEF Chain
<1>14. RefusedForACause'
  BY <1>1 DEF RefusedForACause
<1> QED BY <1>7, <1>9, <1>10, <1>12, <1>13, <1>14

(* The entry script has executed: it defines a filter or it does not. *)
LEMMA ReturnStep ==
  ASSUME Inv, Return
  PROVE  Inv'
<1> USE DEF Inv
<1>1. /\ result = "loading" /\ Entry \in cache
      /\ \/ result' = "loaded" /\ broken' = broken
         \/ result' = "failed" /\ broken' = TRUE
      /\ UNCHANGED <<imports, stack, at, loading, cache, executed, cancelled>>
  BY DEF Return
<1>2. Needs' = Needs /\ Graph' = Graph
  BY <1>1, Frozen
<1>3. Types'
  BY <1>1 DEF Types
<1>4. OnceExecuted' /\ Resolved' /\ Chain'
  BY <1>1, <1>2 DEF OnceExecuted, Resolved, Chain, ToSet
<1>5. CacheSound'
  BY <1>1, <1>2 DEF CacheSound, ToSet
<1>6. RefusedForACause'
  BY <1>1 DEF RefusedForACause, Sound
<1> QED BY <1>3, <1>4, <1>5, <1>6

LEMMA InvStep == Inv /\ [Next]_vars => Inv'
<1> SUFFICES ASSUME Inv, [Next]_vars PROVE Inv'
  OBVIOUS
<1>1. CASE UNCHANGED <<imports, stack, at, loading, cache, executed, result, broken>>
           /\ cancelled' \in BOOLEAN /\ (cancelled => cancelled')
  <2>1. Needs' = Needs /\ Graph' = Graph
    BY <1>1, Frozen
  <2>2. RefusedForACause'
    <3>1. Sound' <=> Sound
      <4>1. Acyclic' <=> Acyclic
        BY <1>1 DEF Acyclic, Graph, Reach, Closed
      <4> QED BY <1>1, <2>1, <4>1 DEF Sound
    <3> QED BY <1>1, <3>1 DEF Inv, RefusedForACause
  <2>3. Types' /\ OnceExecuted' /\ Resolved'
    BY <1>1 DEF Inv, Types, OnceExecuted, Resolved, ToSet
  <2>4. CacheSound' /\ Chain'
    BY <1>1, <2>1 DEF Inv, CacheSound, Chain, ToSet
  <2> QED BY <2>2, <2>3, <2>4 DEF Inv
<1>2. CASE Cancel \/ (Ended /\ UNCHANGED vars) \/ UNCHANGED vars
  BY <1>1, <1>2 DEF Cancel, vars, Inv, Types
<1>3. CASE ExecFails \/ StepLimit
  <2>1. Abort /\ (broken' = ~cancelled \/ broken' = TRUE)
    BY <1>3 DEF ExecFails, StepLimit
  <2>2. cancelled \/ ~Sound'
    BY <2>1 DEF Sound, Inv, Types
  <2> QED BY <2>1, <2>2, AbortStep DEF Inv, Types
<1> QED
  BY <1>2, <1>3, CachedStep, ModuleStep, RefusedStep, ExecEndsStep, ReturnStep
  DEF Next, Loader

THEOREM LoaderCorrect == Spec => []Inv
<1> QED BY InvInit, InvStep, PTL DEF Spec

(* For every import graph and every limit: a script is loaded only when    *)
(* its whole import graph is acyclic, stays in the directory, is not too   *)
(* large and holds no module that is broken or runs for ever.              *)
THEOREM OnlySoundIsLoaded == Spec => []LoadedIsSound
<1>1. Inv => LoadedIsSound
  <2> SUFFICES ASSUME Inv, result = "loaded" PROVE Sound
    BY DEF LoadedIsSound
  <2>1. Graph \subseteq cache
    <3>1. Closed(cache) /\ cache \in SUBSET Names /\ Entry \in cache
      BY DEF Inv, CacheSound, Closed, Types, Names
    <3> QED BY <3>1, GraphFacts DEF Inv
  <2>2. Acyclic /\ Outside \notin Graph /\ Endless \notin Graph /\ ~broken
    BY <2>1, GraphFacts, ScriptLoaderAssumption DEF Inv, CacheSound, Types
  <2>3. Cardinality(Graph) <= Limit
    <3>1. IsFiniteSet(cache) /\ IsFiniteSet(loading)
      BY ScriptLoaderAssumption, FS_Subset DEF Inv, Types
    <3>2. /\ Cardinality(Graph) <= Cardinality(cache) /\ IsFiniteSet(Graph)
      BY <2>1, <3>1, FS_Subset
    <3>3. /\ Cardinality(Graph) \in Nat /\ Cardinality(cache) \in Nat
          /\ Cardinality(loading) \in Nat
      BY <3>1, <3>2, FS_CardinalityType
    <3> QED BY <3>2, <3>3, ScriptLoaderAssumption DEF Inv, CacheSound
  <2> QED BY <2>2, <2>3 DEF Sound
<1> QED BY <1>1, LoaderCorrect, PTL

(* The converse: a load fails only for one of these causes or because it   *)
(* was cancelled; shared imports are neither cycles nor counted twice.     *)
THEOREM OnlyUnsoundIsRefused == Spec => []RefusedForACause
<1>1. Inv => RefusedForACause
  BY DEF Inv
<1> QED BY <1>1, LoaderCorrect, PTL

(* No module is executed twice, and what an importer is given has been     *)
(* executed to its end, its imports before it.                             *)
THEOREM ImportersSeeCompleteModules == Spec => []CachedIsComplete
<1>1. Inv => CachedIsComplete
  BY DEF Inv, OnceExecuted, CacheSound, CachedIsComplete
<1> QED BY <1>1, LoaderCorrect, PTL
================================================================================
