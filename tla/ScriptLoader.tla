----------------------------- MODULE ScriptLoader ------------------------------
(***************************************************************************)
(* search.LoadScript: the recursive loader of a Starlark filter and the    *)
(* modules it imports.  The recursion of load() is the stack; the imports  *)
(* of a module are the names of its load statements after filepath.Clean,  *)
(* and a loop without end, wherever it runs into one.                      *)
(***************************************************************************)
EXTENDS Integers, Sequences, FiniteSets, SequencesExt

CONSTANTS
  Modules,  \* files of the script directory
  Entry,    \* the script itself
  Outside,  \* a name that is not local to the directory
  Endless,  \* not a name: a statement that runs for ever
  Limit,    \* modules of a load graph (64 in the code)
  Imports   \* the import lists explored

Names == Modules \cup {Outside, Endless}

ASSUME ScriptLoaderAssumption ==
  /\ IsFiniteSet(Modules) /\ Entry \in Modules /\ Outside \notin Modules
  /\ Endless \notin Modules \cup {Outside}
  /\ Limit \in Nat \ {0}
  /\ Imports \subseteq Seq(Names)

VARIABLES
  imports,   \* module -> the names it loads, in order
  stack,     \* modules being loaded, the innermost last
  at,        \* module -> load statements it has executed
  loading,   \* the map of the same name
  cache,     \* the keys of the map of the same name
  executed,  \* history: modules whose execution began, in order
  result,    \* loading, loaded, failed
  broken,    \* history: a module could not be read, or failed, or defines no filter
  cancelled  \* ctx.Err() # nil

vars == <<imports, stack, at, loading, cache, executed, result, broken, cancelled>>

Init ==
  /\ imports \in [Modules -> Imports]
  /\ stack = << >> /\ at = [m \in Modules |-> 0]
  /\ loading = {} /\ cache = {} /\ executed = << >>
  /\ result = "loading" /\ broken = FALSE /\ cancelled = FALSE
--------------------------------------------------------------------------------
Cancel ==
  /\ ~cancelled /\ cancelled' = TRUE
  /\ UNCHANGED <<imports, stack, at, loading, cache, executed, result, broken>>

(* The name load() is called with next: the entry script, or the next load *)
(* statement of the innermost module.                                      *)
Current  == Last(stack)
HasCall  ==
  \/ stack = << >> /\ Entry \notin cache
  \/ stack # << >> /\ at[Current] < Len(imports[Current])
Called   == IF stack = << >> THEN Entry ELSE imports[Current][at[Current] + 1]
Advanced == IF stack = << >> THEN at ELSE [at EXCEPT ![Current] = @ + 1]

(* Here and below a definition named Mutant... is a plausible bug in the    *)
(* definition that follows it: no specification uses it; replacing the      *)
(* definition by it must violate a property.                                *)
MutantFullByOne == Cardinality(cache) + Cardinality(loading) > Limit
Full            == Cardinality(cache) + Cardinality(loading) >= Limit

Cyclic(n) == n \in loading

(* A module that is cached is not executed again. *)
LoadCached ==
  /\ result = "loading" /\ HasCall /\ Called \in cache
  /\ at' = Advanced
  /\ UNCHANGED <<imports, stack, loading, cache, executed, result, broken, cancelled>>

MutantLoadModuleEarly ==
  /\ result = "loading" /\ HasCall
  /\ Called \in Modules \ cache /\ ~Cyclic(Called) /\ ~Full
  /\ cache' = cache \cup {Called}
  /\ stack' = Append(stack, Called) /\ at' = Advanced
  /\ executed' = Append(executed, Called)
  /\ UNCHANGED <<imports, loading, result, broken, cancelled>>

LoadModule ==
  /\ result = "loading" /\ HasCall
  /\ Called \in Modules \ cache /\ ~Cyclic(Called) /\ ~Full
  /\ loading' = loading \cup {Called}
  /\ stack' = Append(stack, Called) /\ at' = Advanced
  /\ executed' = Append(executed, Called)
  /\ UNCHANGED <<imports, cache, result, broken, cancelled>>

(* An error ends every enclosing load(), each of which deletes its name.   *)
Abort ==
  /\ result' = "failed" /\ stack' = << >> /\ loading' = {}
  /\ UNCHANGED <<imports, at, cache, executed, cancelled>>

MutantLoadRefused ==
  /\ result = "loading" /\ HasCall /\ Called \notin cache \cup {Endless}
  /\ Called = Outside \/ Full
  /\ Abort /\ UNCHANGED broken

LoadRefused ==
  /\ result = "loading" /\ HasCall /\ Called \notin cache \cup {Endless}
  /\ Called = Outside \/ Cyclic(Called) \/ Full
  /\ Abort /\ UNCHANGED broken

(* The innermost module cannot be read, or fails at any of its statements, *)
(* or its thread is cancelled.                                             *)
ExecFails ==
  /\ result = "loading" /\ stack # << >>
  /\ broken' = ~cancelled
  /\ Abort

MutantStepLimit ==
  /\ result = "loading" /\ HasCall /\ Called = Endless
  /\ cancelled /\ broken' = FALSE
  /\ Abort

(* A thread may execute 100,000 steps. *)
StepLimit ==
  /\ result = "loading" /\ HasCall /\ Called = Endless
  /\ broken' = TRUE
  /\ Abort

MutantExecEnds ==
  /\ result = "loading" /\ stack # << >> /\ ~HasCall
  /\ cache' = cache \cup {Current}
  /\ stack' = Front(stack)
  /\ UNCHANGED <<imports, at, loading, executed, result, broken, cancelled>>

ExecEnds ==
  /\ result = "loading" /\ stack # << >> /\ ~HasCall
  /\ cache' = cache \cup {Current} /\ loading' = loading \ {Current}
  /\ stack' = Front(stack)
  /\ UNCHANGED <<imports, at, executed, result, broken, cancelled>>

(* The entry script is in the cache: its globals must define filter.       *)
Return ==
  /\ result = "loading" /\ stack = << >> /\ Entry \in cache
  /\ \/ result' = "loaded" /\ UNCHANGED broken
     \/ result' = "failed" /\ broken' = TRUE
  /\ UNCHANGED <<imports, stack, at, loading, cache, executed, cancelled>>

Loader ==
  LoadCached \/ LoadModule \/ LoadRefused \/ StepLimit \/ ExecFails \/ ExecEnds \/ Return

Ended == result # "loading"
Next  == Cancel \/ Loader \/ (Ended /\ UNCHANGED vars)

Spec == Init /\ [][Next]_vars

(* The loader is scheduled and its threads count their steps.  Nothing     *)
(* makes a module fail, and nobody has to cancel the search.               *)
FairSpec == Spec /\ WF_vars(Loader /\ ~broken') /\ WF_vars(StepLimit)
--------------------------------------------------------------------------------
(* The names reachable from S: the least set that holds S and the imports  *)
(* of its members.                                                         *)
Closed(T) == \A m \in T \cap Modules : ToSet(imports[m]) \subseteq T
Reach(S)  == {n \in Names : \A T \in SUBSET Names : S \subseteq T /\ Closed(T) => n \in T}

Graph   == Reach({Entry})
Acyclic == \A m \in Graph \cap Modules : m \notin Reach(ToSet(imports[m]))
Sound   ==
  /\ Acyclic /\ Outside \notin Graph /\ Endless \notin Graph
  /\ Cardinality(Graph) <= Limit /\ ~broken

(* starlark.go 41-94, LOGSCRIPT.md 45-49: a script is loaded only when its *)
(* whole import graph is acyclic, stays in the directory, holds at most    *)
(* Limit modules, and none that is broken or runs for ever.                *)
LoadedIsSound == result = "loaded" => Sound

(* The converse: shared imports (diamonds, repeated load statements) are   *)
(* never mistaken for cycles and never counted twice against the limit.    *)
RefusedForACause == result = "failed" => cancelled \/ ~Sound

(* starlark.go 45-47, 72-77: no module is executed twice, so every importer*)
(* sees the same frozen globals, and a module enters the cache after all it*)
(* imports: what an importer is given has been executed to its end.        *)
CachedIsComplete ==
  /\ \A a, b \in DOMAIN executed : executed[a] = executed[b] => a = b
  /\ \A m \in cache : m \in ToSet(executed) /\ ToSet(imports[m]) \subseteq cache

(* starlark.go 38-80 and 89-96: loading terminates, whatever the import    *)
(* graph and if a module of it runs for ever.                              *)
LoadEnds == <>Ended
================================================================================
