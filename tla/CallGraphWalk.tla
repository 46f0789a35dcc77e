--------------------------- MODULE CallGraphWalk ---------------------------
(***************************************************************************)
(* The walk of zctl perf over the call graph of a project, from one Logic  *)
(* method, for the calls that reach the database or redis (precompute,     *)
(* bfsIO).  It goes depth first, visits a function once, and goes no       *)
(* deeper than Depth functions.  The calls of a function come in the order *)
(* of its edges, which may be any.                                         *)
(***************************************************************************)
EXTENDS Naturals, Sequences, FiniteSets

CONSTANTS Function,   \* nodes of the call graph
          LogicEntry, \* the Logic method
          IOCall,     \* methods that classifyCall takes for IO
          Foreign,    \* functions that isInternalFunc turns down, mocks
          Depth,      \* 12 in the code
          MaxCalls    \* bound: edges of the graph, for model checking

Internal == Function \ (IOCall \cup Foreign)

ASSUME WalkAssumption ==
  /\ LogicEntry \in Internal /\ IOCall \subseteq Function /\ IOCall \cap Foreign = {}
  /\ Depth \in Nat \ {0} /\ MaxCalls \in Nat

VARIABLES
  calls,    \* calls[f]: callees of f, {} until the walk is in f
  trail,    \* the activations of bfsIO, and the call chain
  visited,
  recorded, \* the IO nodes, each as its call chain
  cut       \* a function was turned down for its depth alone

walkVars == <<calls, trail, visited, recorded, cut>>

(* An activation: its function, the edges it has not looked at, its depth. *)
Activation == [func : Function, left : SUBSET Function, depth : Nat]
Here == trail[Len(trail)]
\* wrong: without the caller itself
ChainOfCallers == [i \in 1 .. Len(trail) - 1 |-> trail[i].func]
Chain == [i \in DOMAIN trail |-> trail[i].func]
LookAtLast(g) == [trail EXCEPT ![Len(trail)].left = {}]   \* wrong: return in place of continue
LookAt(g) == [trail EXCEPT ![Len(trail)].left = @ \ {g}]

Edges == {e \in Function \X Function : e[2] \in calls[e[1]]}
(* What a function that the walk comes to may call.                        *)
Callees == {C \in SUBSET Function : Cardinality(Edges) + Cardinality(C) <= MaxCalls}

WalkInit ==
  /\ \E C \in SUBSET Function :
       /\ Cardinality(C) <= MaxCalls
       /\ calls = [f \in Function |-> IF f = LogicEntry THEN C ELSE {}]
       /\ trail = <<[func |-> LogicEntry, left |-> C, depth |-> Depth]>>
  /\ visited = {LogicEntry}
  /\ recorded = {}
  /\ cut = FALSE

(* An IO call is recorded with its chain and not followed.                 *)
RecordIO ==
  \E g \in Here.left \cap IOCall :
    /\ recorded' = recorded \cup {Append(Chain, g)}
    /\ trail' = LookAt(g)
    /\ UNCHANGED <<calls, visited, cut>>

PassForeign ==
  \E g \in Here.left \cap Foreign :
    /\ trail' = LookAt(g)
    /\ UNCHANGED <<calls, visited, recorded, cut>>

(* bfsIO returns at once.                                                  *)
TurnBack ==
  \E g \in Here.left \cap Internal :
    /\ g \in visited \/ Here.depth = 1
    /\ trail' = LookAt(g)
    /\ cut' = (cut \/ g \notin visited)
    /\ UNCHANGED <<calls, visited, recorded>>

Descend ==
  \E g \in Here.left \cap Internal :
    /\ g \notin visited /\ Here.depth > 1
    /\ visited' = visited \cup {g}
    /\ \E C \in Callees :
         /\ calls' = [calls EXCEPT ![g] = C]
         /\ trail' = Append(LookAt(g), [func |-> g, left |-> C, depth |-> Here.depth - 1])
    /\ UNCHANGED <<recorded, cut>>

Ascend ==
  /\ Here.left = {}
  /\ trail' = SubSeq(trail, 1, Len(trail) - 1)
  /\ UNCHANGED <<calls, visited, recorded, cut>>

WalkNext ==
  /\ trail # <<>>
  /\ RecordIO \/ PassForeign \/ TurnBack \/ Descend \/ Ascend

WalkSpec == WalkInit /\ [][WalkNext]_walkVars
-----------------------------------------------------------------------------
WalkTypeOK ==
  /\ calls \in [Function -> SUBSET Function]
  /\ trail \in Seq(Activation)
  /\ visited \subseteq Internal
  /\ recorded \subseteq Seq(Function)
  /\ cut \in BOOLEAN

(* What the report shows as a chain is one: it starts at the Logic method, *)
(* each function calls the next, it has at most Depth calls, and it ends   *)
(* in IO.                                                                  *)
ChainsAreCalls ==
  \A c \in recorded :
    /\ c[1] = LogicEntry /\ c[Len(c)] \in IOCall
    /\ Len(c) - 1 \in 1 .. Depth
    /\ \A i \in 1 .. Len(c) - 1 : c[i + 1] \in calls[c[i]]

(* Unless the depth cut it somewhere, the walk has been in every function  *)
(* that the Logic method leads to, and has recorded every IO call of each. *)
CompleteUnlessCut ==
  trail = <<>> /\ ~cut =>
    \A f \in visited :
      /\ calls[f] \cap Internal \subseteq visited
      /\ \A g \in calls[f] \cap IOCall :
           \E c \in recorded : Len(c) > 1 /\ c[Len(c) - 1] = f /\ c[Len(c)] = g

(* The functions that at most k calls lead to.                             *)
WithinCalls[k \in Nat] ==
  IF k = 0 THEN {LogicEntry}
  ELSE WithinCalls[k - 1] \cup ((UNION {calls[f] : f \in WithinCalls[k - 1]}) \cap Internal)

(* "BFS from each entry, depth=12; record reachable IO nodes": the walk    *)
(* gets to every function whose IO is at most Depth calls away.            *)
ReachesItsDepth == trail = <<>> => WithinCalls[Depth - 1] \subseteq visited
=============================================================================
