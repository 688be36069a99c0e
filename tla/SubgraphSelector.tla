---------------------------- MODULE SubgraphSelector ----------------------------
(***************************************************************************)
(* The split of a graph into subgraphs of one backend                      *)
(* (src/armnn/SubgraphViewSelector.cpp).                                   *)
(*                                                                         *)
(* SelectSubgraphs walks the layers from the inputs on and puts each in a  *)
(* partial subgraph, merging it with those of its inputs when no cycle     *)
(* between subgraphs comes of it.  A layer is its position in the order in *)
(* which the layers were added, so a layer reads only smaller ones; a      *)
(* partial subgraph is the layer it was made for.  The trees of m_Parent   *)
(* pointers are kept as the representative each leads to.                  *)
(***************************************************************************)
EXTENDS Integers, Sequences, FiniteSets

CONSTANTS
  N,      \* the number of layers
  Graphs  \* the graphs: what the input slots of each layer are connected to

Layers == 1..N

ASSUME SubgraphSelectorAssumption ==
  /\ N \in Nat
  /\ \A g \in Graphs :
       /\ g \in [Layers -> Seq(Layers)]
       /\ \A l \in Layers : \A i \in DOMAIN g[l] : g[l][i] < l

None == 0

VARIABLES
  inputs,    \* the graph
  selected,  \* the layers the selector function picks
  queue,     \* processQueue
  processed, \* layers with m_IsProcessed
  subgraph,  \* per layer: m_Subgraph
  rep,       \* per partial subgraph: GetRepresentative
  antes,     \* m_Antecedents
  deps,      \* m_Dependants
  current,   \* the layer in AssignSplitId, or None
  pc,        \* its loop: "merge" into the inputs, "record" the dependencies
  slot       \* the next input slot of that loop

graphVars == <<inputs, selected>>
setVars == <<rep, antes, deps>>
loopVars == <<current, pc, slot>>
vars == <<graphVars, queue, processed, subgraph, setVars, loopVars>>

InputsOf(l) == {inputs[l][i] : i \in DOMAIN inputs[l]}

\* A layer without inputs is an Input or a Constant: the walk starts there.
IsInputLayer(g, l) == g[l] = <<>>

\* The connections made to the output slots of l: reader and input slot.
ConnectionsOf(l) ==
  UNION {{c} \X {i \in DOMAIN inputs[c] : inputs[c][i] = l} : c \in Layers}

\* The orders of a set: connections are kept in the order they were made, and
\* layers in the order they were added, which may be any.
Orders(S) ==
  {s \in [1..Cardinality(S) -> S] : \A i, j \in DOMAIN s : s[i] = s[j] => i = j}

(* Mutant: only the first connection is followed. *)
ChildrenFirst(l) ==
  {[k \in DOMAIN s \cap {1} |-> s[k][1]] : s \in Orders(ConnectionsOf(l))}

\* ForEachLayerOutput: the readers of l, one for each connection, in their order.
Children(l) == {[k \in DOMAIN s |-> s[k][1]] : s \in Orders(ConnectionsOf(l))}

Init ==
  /\ inputs \in Graphs
  /\ selected \in SUBSET Layers
  /\ queue \in Orders({l \in Layers : IsInputLayer(inputs, l)})
  /\ processed = {}
  /\ subgraph = [l \in Layers |-> None]
  /\ rep = [s \in Layers |-> s]
  /\ antes = [s \in Layers |-> {}]
  /\ deps = [s \in Layers |-> {}]
  /\ current = None
  /\ pc = "pop"
  /\ slot = 1

-----------------------------------------------------------------------------
(* PartialSubgraph *)

IsMergedWith(s, t) == rep[s] = rep[t]
HasAntecedent(s, t) == rep[t] \in antes[rep[s]]

\* The representative of s joins that of t.
MergeWith(s, t) ==
  LET this == rep[s]
      other == rep[t]
      Repoint(S) == (S \ {this}) \cup {other}
      As == [x \in Layers |-> IF x \in deps[this] THEN Repoint(antes[x]) ELSE antes[x]]
      Ds == [x \in Layers |-> IF x \in antes[this] THEN Repoint(deps[x]) ELSE deps[x]]
  IN IF this = other
     THEN UNCHANGED setVars
     ELSE /\ rep' = [x \in Layers |-> IF rep[x] = this THEN other ELSE rep[x]]
          /\ antes' = [As EXCEPT ![this] = {}, ![other] = @ \cup As[this]]
          /\ deps' = [Ds EXCEPT ![this] = {}, ![other] = @ \cup Ds[this]]

\* (mutant: the dependants of what is depended on are not all told)
AddOneWay(s, t) ==
  /\ antes' = [antes EXCEPT ![rep[s]] = @ \cup {rep[t]} \cup antes[rep[t]]]
  /\ deps' = [deps EXCEPT ![rep[t]] = @ \cup {rep[s]}]
  /\ rep' = rep
AddDirectAntecedent(s, t) ==
  LET this == rep[s]
      new == {rep[t]} \cup antes[rep[t]]
      users == {this} \cup deps[this]
  IN /\ antes' = [x \in Layers |-> IF x \in users THEN antes[x] \cup new ELSE antes[x]]
     /\ deps' = [x \in Layers |-> IF x \in new THEN deps[x] \cup users ELSE deps[x]]
     /\ rep' = rep

-----------------------------------------------------------------------------
(* SelectSubgraphs *)

IsReadyForSplitAssignment(l) == InputsOf(l) \subseteq processed

\* One turn of the while loop that does not process a layer.
PutAside ==
  /\ pc = "pop" /\ queue # <<>>
  /\ LET l == Head(queue)
     IN \/ /\ l \in processed
           /\ queue' = Tail(queue)
        \/ /\ l \notin processed
           /\ ~IsReadyForSplitAssignment(l)
           /\ queue' = Append(Tail(queue), l)
  /\ UNCHANGED <<graphVars, processed, subgraph, setVars, loopVars>>

Take ==
  /\ pc = "pop" /\ queue # <<>>
  /\ Head(queue) \notin processed
  /\ IsReadyForSplitAssignment(Head(queue))
  /\ current' = Head(queue)
  /\ queue' = Tail(queue)
  /\ pc' = "merge"
  /\ slot' = 1
  /\ UNCHANGED <<graphVars, processed, subgraph, setVars>>

\* May the current layer join the subgraph of its input p?
NoCut(p) == (current \in selected) = (p \in selected)
DependenciesUnchecked(p) == TRUE
DependenciesOk(p) ==
  \A q \in InputsOf(current) : ~HasAntecedent(subgraph[q], subgraph[p])

MergeInput ==
  /\ pc = "merge" /\ slot \in DOMAIN inputs[current]
  /\ LET p == inputs[current][slot]
     IN IF ~NoCut(p) \/ ~DependenciesOk(p)
        THEN UNCHANGED <<subgraph, setVars>>
        ELSE IF subgraph[current] = None
        THEN /\ subgraph' = [subgraph EXCEPT ![current] = subgraph[p]]
             /\ UNCHANGED setVars
        ELSE /\ MergeWith(subgraph[current], subgraph[p])
             /\ UNCHANGED subgraph
  /\ slot' = slot + 1
  /\ UNCHANGED <<graphVars, queue, processed, current, pc>>

\* Without an input to join, the layer gets a partial subgraph of its own.
Settle ==
  /\ pc = "merge" /\ slot \notin DOMAIN inputs[current]
  /\ subgraph' = [subgraph EXCEPT ![current] = IF @ = None THEN current ELSE @]
  /\ pc' = "record"
  /\ slot' = 1
  /\ UNCHANGED <<graphVars, queue, processed, setVars, current>>

RecordInput ==
  /\ pc = "record" /\ slot \in DOMAIN inputs[current]
  /\ LET p == inputs[current][slot]
     IN IF IsMergedWith(subgraph[current], subgraph[p])
        THEN UNCHANGED setVars
        ELSE AddDirectAntecedent(subgraph[current], subgraph[p])
  /\ slot' = slot + 1
  /\ UNCHANGED <<graphVars, queue, processed, subgraph, current, pc>>

Finish ==
  /\ pc = "record" /\ slot \notin DOMAIN inputs[current]
  /\ \E c \in Children(current) : queue' = queue \o c
  /\ processed' = processed \cup {current}
  /\ current' = None
  /\ pc' = "pop"
  /\ slot' = 1
  /\ UNCHANGED <<graphVars, subgraph, setVars>>

Next == PutAside \/ Take \/ MergeInput \/ Settle \/ RecordInput \/ Finish

Spec == Init /\ [][Next]_vars /\ WF_vars(Next)

-----------------------------------------------------------------------------
(* Properties *)

TypeOK ==
  /\ inputs \in Graphs
  /\ selected \subseteq Layers
  /\ queue \in Seq(Layers)
  /\ processed \subseteq Layers
  /\ subgraph \in [Layers -> Layers \cup {None}]
  /\ rep \in [Layers -> Layers]
  /\ antes \in [Layers -> SUBSET Layers]
  /\ deps \in [Layers -> SUBSET Layers]
  /\ current \in Layers \cup {None}
  /\ pc \in {"pop", "merge", "record"}
  /\ slot \in Nat

Done == pc = "pop" /\ queue = <<>>

\* What the backend gets as one layer: a selected layer stands for its whole
\* subgraph, another for itself.
Unit(l) ==
  IF l \in selected /\ subgraph[l] # None
  THEN {k \in selected : subgraph[k] # None /\ rep[subgraph[k]] = rep[subgraph[l]]}
  ELSE {l}
Reads(u, v) == \E l \in u : InputsOf(l) \cap v # {}
Acyclic(units) ==
  \A K \in (SUBSET units) \ {{}} : \E u \in K : \A v \in K \ {u} : ~Reads(u, v)

(* "We also need to check that merging into this subgraph won't cause a
   dependency cycle between subgraphs": with every subgraph of the result
   replaced by one layer, the graph can still be sorted. *)
SubgraphsAcyclic == Done => Acyclic({Unit(l) : l \in Layers})

(* The two sets mirror each other and hold representatives only, whatever was
   merged before: what MergeWith asserts of each erase ("numErased == 1"). *)
SetsMirror ==
  \A s \in Layers :
    /\ antes[s] = {t \in Layers : s \in deps[t]}
    /\ \A t \in antes[s] \cup deps[s] : rep[t] = t
    /\ rep[s] # s => antes[s] = {} /\ deps[s] = {}

(* A subgraph knows those its layers read: when AssignSplitId is through with a
   layer, HasAntecedent answers for each of its inputs in another subgraph, and
   goes on to after later merges.  (Of those read indirectly it may not know all:
   SubgraphsAcyclic.) *)
Recorded(l, p) ==
  ~IsMergedWith(subgraph[l], subgraph[p]) => HasAntecedent(subgraph[l], subgraph[p])
InputsRecorded == \A l \in processed : \A p \in InputsOf(l) : Recorded(l, p)

(* "The representatives of all the subgraphs which we depend on, either directly or
   indirectly": what is known of a subgraph is known by those that know it. *)
SetsTransitive == \A s, t \in Layers : t \in antes[s] => antes[t] \subseteq antes[s]

(* Nothing but MergeWith makes the sets less than that. *)
OnlyMergesForget == [][SetsTransitive => SetsTransitive' \/ MergeInput]_vars

(* The queue runs dry only when every layer has been processed. *)
WalkIsComplete == Done => \A l \in Layers : l \in processed /\ subgraph[l] # None

(* The walk ends with every layer in a subgraph: no layer is put back on the
   queue for ever, and none is left out (its m_Subgraph is used unchecked). *)
EveryLayerAssigned == <>[](Done /\ \A l \in Layers : subgraph[l] # None)
=============================================================================
