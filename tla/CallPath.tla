------------------------------ MODULE CallPath ------------------------------
(***************************************************************************)
(* trace_call_path: the static calls that can be followed from one Python  *)
(* function, repository/call_path.py.                                      *)
(*                                                                         *)
(* A function is named by its path of definitions, <<"f">>, <<"C", "m">>,  *)
(* <<"f", "inner">>.  "module" is the file that is traced, as _module_calls*)
(* parses it: the functions, each with its calls in source order, the      *)
(* names local to it and the imports in its body; the imports of the       *)
(* module; the functions defined twice.  A call is its line and the dotted *)
(* name it is made by.  An import binds a name to [module, symbol].        *)
(***************************************************************************)
EXTENDS Integers, Sequences, FiniteSets, Numbers

CONSTANTS
  Modules,        \* the modules that may be traced
  Exports,        \* bindings of the other indexed modules: module -> name -> import
  Here,           \* the name of the module that is traced
  MaxLocalDepth,  \* max_local_depth
  MaxEdges,       \* max_edges
  SameClass,      \* include_same_class_candidates
  None

VARIABLES
  module,     \* the parsed module
  request,    \* the symbol asked for
  pending,    \* functions to visit, each with its depth
  visited,
  current,    \* the function whose calls are read, its depth, and the next call
  edges,
  truncated,
  status      \* "running", "error" or "done"

vars == <<module, request, pending, visited, current, edges, truncated, status>>

\* register_function keeps the first of two definitions, and _lexical_function
\* follows neither.
Callable(m, name) == name \in DOMAIN m.functions \ m.ambiguous

\* The functions a function is nested in, itself first.
Enclosing(name) == [i \in 1 .. Len(name) |-> SubSeq(name, 1, Len(name) - i + 1)]

-----------------------------------------------------------------------------
\* _resolve_export: at most four reexports, stopping on a cycle.
ResolveExport(m, reference) ==
  LET BindingsOf(n) == IF n = Here THEN m.bindings ELSE Exports[n]
      Bound(r) == /\ r.symbol # None /\ r.module \in DOMAIN Exports \cup {Here}
                  /\ r.symbol \in DOMAIN BindingsOf(r.module)
      Follow(acc) ==
        IF acc.ref \in acc.seen \/ ~Bound(acc.ref) THEN acc
        ELSE [ref |-> BindingsOf(acc.ref.module)[acc.ref.symbol], seen |-> acc.seen \cup {acc.ref}]
      followed[n \in 0 .. 4] ==
        IF n = 0 THEN [ref |-> reference, seen |-> {}] ELSE Follow(followed[n - 1])
  IN followed[4].ref

\* _lexical_function: a bare name is first a function nested in the current
\* one or in those around it, then a function of the module.
LexicalFunction(m, name, call) ==
  LET scopes == Enclosing(name)
      around == {i \in DOMAIN scopes : scopes[i] \in DOMAIN m.functions /\ Callable(m, scopes[i] \o call)}
  IN IF Len(call) = 1 /\ around # {} THEN scopes[Least(around)] \o call
     ELSE IF Callable(m, call) THEN call ELSE None

Edge(kind, name, call, target) ==
  [kind |-> kind, from |-> name, line |-> call.line, call |-> call.name, to |-> target]

\* self.m() in a method whose self is not rebound.
SameClassTarget(m, name, call) ==
  IF /\ SameClass /\ Len(call) = 2 /\ call[1] = "self" /\ Len(name) = 2
     /\ m.functions[name].self /\ Callable(m, <<name[1], call[2]>>)
  THEN <<name[1], call[2]>> ELSE None

\* What a call of a function leads to: an edge, or None for a call that is
\* not resolved.
Resolved(m, name, call) ==
  LET f == m.functions[name]
      binding == call.name[1]
      imported == binding \in DOMAIN f.imports
      method == SameClassTarget(m, name, call.name)
      lexical == IF imported THEN None ELSE LexicalFunction(m, name, call.name)
      hidden == binding \in f.locals /\ ~imported /\ lexical # name \o call.name
      bound == imported \/ binding \in DOMAIN m.bindings
      reference == ResolveExport(m, IF imported THEN f.imports[binding] ELSE m.bindings[binding])
      symbol == IF Len(call.name) > 1 THEN call.name[Len(call.name)] ELSE reference.symbol
  IN IF call.name = <<>> THEN None
     ELSE IF method # None THEN Edge("method", name, call, method)
     ELSE IF hidden THEN None
     ELSE IF lexical # None THEN Edge("local", name, call, lexical)
     ELSE IF ~bound THEN None
     ELSE IF reference.module \notin DOMAIN Exports \/ reference.module = Here THEN None
     ELSE Edge("import", name, call, <<reference.module, symbol>>)

\* What the i-th call of a function leads to.
Target(m, name, i) == Resolved(m, name, m.functions[name].calls[i])

\* seen_edges tells edges apart by their line and their target.
Key(edge) == <<edge.from, edge.line, edge.to>>
Known(edge) == \E i \in DOMAIN edges : Key(edges[i]) = Key(edge)

-----------------------------------------------------------------------------
Init ==
  /\ module \in Modules
  /\ request \in DOMAIN module.functions \cup {<<"missing">>}
  /\ visited = {} /\ current = None /\ edges = <<>> /\ truncated = FALSE
  /\ IF Callable(module, request) THEN pending = <<[name |-> request, depth |-> 0]>> /\ status = "running"
     ELSE pending = <<>> /\ status = "error"

Pop ==
  /\ status = "running" /\ current = None
  /\ pending # <<>> /\ Len(edges) < MaxEdges
  /\ pending' = Tail(pending)
  /\ IF Head(pending).name \in visited THEN UNCHANGED <<visited, current>>
     ELSE /\ visited' = visited \cup {Head(pending).name}
          /\ current' = [name |-> Head(pending).name, depth |-> Head(pending).depth, next |-> 1]
  /\ UNCHANGED <<module, request, edges, truncated, status>>

\* One turn of the loop over the calls of the current function.
ReadCall ==
  /\ current # None
  /\ current.next <= Len(module.functions[current.name].calls)
  /\ LET edge == Target(module, current.name, current.next)
         new  == edge # None /\ ~Known(edge)
         full == \/ Len(edges) >= MaxEdges
                 \/ new /\ edge.kind = "import" /\ Len(edges) + 1 >= MaxEdges
     IN /\ edges' = IF new /\ Len(edges) < MaxEdges THEN Append(edges, edge) ELSE edges
        /\ pending' = IF /\ edge # None /\ edge.kind = "local"
                         /\ current.depth < MaxLocalDepth /\ Len(edges) < MaxEdges
                      THEN Append(pending, [name |-> edge.to, depth |-> current.depth + 1])
                      ELSE pending
        /\ truncated' = (truncated \/ full)
        /\ current' = IF full THEN None ELSE [current EXCEPT !.next = @ + 1]
  /\ UNCHANGED <<module, request, visited, status>>

Leave ==
  /\ current # None
  /\ current.next > Len(module.functions[current.name].calls)
  /\ current' = None
  /\ UNCHANGED <<module, request, pending, visited, edges, truncated, status>>

X_Return ==
  /\ status = "running" /\ current = None
  /\ pending = <<>> \/ Len(edges) >= MaxEdges
  /\ status' = "done"
  /\ UNCHANGED <<module, request, pending, visited, current, edges, truncated>>
Return ==
  /\ status = "running" /\ current = None
  /\ pending = <<>> \/ Len(edges) >= MaxEdges
  /\ truncated' = (truncated \/ pending # <<>>)
  /\ status' = "done"
  /\ UNCHANGED <<module, request, pending, visited, current, edges>>

Next == Pop \/ ReadCall \/ Leave \/ Return

Spec == Init /\ [][Next]_vars

-----------------------------------------------------------------------------
\* What the calls of some functions lead to.
TargetsOf(m, name) == {Target(m, name, i) : i \in DOMAIN m.functions[name].calls}
EdgesOf(m, names) == (UNION {TargetsOf(m, name) : name \in names}) \ {None}

\* A function is reached by d local calls from another one.
Callees(m, name) == {e.to : e \in {x \in EdgesOf(m, {name}) : x.kind = "local"}}
ReachedBy(m, from, name, d) ==
  \E path \in [0 .. d -> DOMAIN m.functions] :
    /\ path[0] = from /\ path[d] = name
    /\ \A i \in 1 .. d : path[i] \in Callees(m, path[i - 1])

\* The functions within MaxLocalDepth local calls of another one.
Depths == 0 .. MaxLocalDepth
Reached(m, from) == {name \in DOMAIN m.functions : \E d \in Depths : ReachedBy(m, from, name, d)}

(***************************************************************************)
(* A trace that does not say it was truncated is complete: it has every    *)
(* call that can be resolved in the functions within MaxLocalDepth local   *)
(* calls, whatever the order the functions were met in, recursion, or the  *)
(* edge the limit fell on.  And it never has one more, nor more than the   *)
(* limit (call_path.py:333).                                               *)
(***************************************************************************)
UntruncatedIsComplete ==
  status = "done" =>
    LET found == {Key(edges[i]) : i \in DOMAIN edges}
        all   == {Key(e) : e \in EdgesOf(module, Reached(module, request))}
    IN /\ found \subseteq all
       /\ Len(edges) <= MaxEdges
       /\ ~truncated => found = all

(***************************************************************************)
(* An edge follows Python's scopes: when a function around the call binds  *)
(* the name, by a parameter, an assignment or an import, the call does not *)
(* go to the module's import or function of that name: "A local variable   *)
(* or parameter cannot resolve to a module import or sibling"              *)
(* (call_path.py:408).                                                     *)
(***************************************************************************)
EdgesFollowScopes ==
  \A i \in DOMAIN edges :
    LET edge    == edges[i]
        name    == edge.call[1]
        binders == SelectSeq(Enclosing(edge.from),
                             LAMBDA f : f \in DOMAIN module.functions /\ name \in module.functions[f].locals)
    IN edge.kind # "method" /\ binders # <<>> =>
         \/ edge.to = binders[1] \o edge.call
         \/ edge.kind = "import" /\ name \in DOMAIN module.functions[binders[1]].imports

-----------------------------------------------------------------------------
\* What is to be visited, is read or was recorded is within reach.
Waiting == [name : DOMAIN module.functions, depth : Depths]
Reading == [name : visited, depth : Depths, next : Nat \ {0}]
TypeOK ==
  /\ module \in Modules /\ truncated \in BOOLEAN
  /\ visited \subseteq DOMAIN module.functions
  /\ pending \in Seq(Waiting)
  /\ \A i \in DOMAIN pending : ReachedBy(module, request, pending[i].name, pending[i].depth)
  /\ current # None =>
       /\ current \in Reading /\ status = "running"
       /\ ReachedBy(module, request, current.name, current.depth)
  /\ edges \in Seq(EdgesOf(module, Reached(module, request))) /\ Len(edges) <= MaxEdges

\* The calls of a visited function that have been looked at, and lead somewhere.
Followed(name, i) ==
  /\ name \in visited /\ i \in DOMAIN module.functions[name].calls
  /\ current # None /\ current.name = name => i < current.next
  /\ Target(module, name, i) # None

\* Their edges are recorded.
FollowedIsKnown ==
  \A name \in visited : \A i \in DOMAIN module.functions[name].calls :
    Followed(name, i) => Known(Target(module, name, i))

\* Functions are met level by level: none is visited at a greater depth than
\* one that still waits, and two that wait are at most one level apart.
Ordered(level) ==
  /\ \A v \in visited, i \in DOMAIN pending : level[v] <= pending[i].depth
  /\ \A i, j \in DOMAIN pending :
       /\ pending[j].depth <= pending[i].depth + 1
       /\ i < j => pending[i].depth <= pending[j].depth
  /\ current # None =>
       /\ level[current.name] = current.depth
       /\ \A v \in visited : level[v] <= current.depth
       /\ \A i \in DOMAIN pending : /\ current.depth <= pending[i].depth
                                    /\ pending[i].depth <= current.depth + 1

\* A function is visited at depth d or less, or waits to be.
Covered(level, name, d) ==
  \/ name \in visited /\ level[name] <= d
  \/ \E i \in DOMAIN pending : pending[i].name = name /\ pending[i].depth <= d

\* So are all that the calls read so far lead to, one level further.
Covers(level) ==
  /\ Covered(level, request, 0)
  /\ \A name \in visited : \A i \in DOMAIN module.functions[name].calls :
       /\ Followed(name, i) /\ level[name] < MaxLocalDepth
       /\ Target(module, name, i).kind = "local"
       => Covered(level, Target(module, name, i).to, level[name] + 1)

\* The inductive invariant that carries UntruncatedIsComplete.
PathInv ==
  /\ TypeOK
  /\ ~truncated /\ status # "error" =>
       /\ FollowedIsKnown
       /\ \E level \in [visited -> Depths] : Ordered(level) /\ Covers(level)
  /\ status = "done" => current = None /\ (~truncated => pending = <<>>)
=============================================================================
