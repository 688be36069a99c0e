------------------------ MODULE SubgraphSelectorProofs ------------------------
(***************************************************************************)
(* Proofs about SubgraphSelector for every graph: the sets of dependencies *)
(* of the partial subgraphs stay consistent whatever is merged; as long as *)
(* they are transitive no cycle of subgraphs comes of it; and the walk     *)
(* ends, with every layer in a subgraph.                                   *)
(***************************************************************************)
EXTENDS SubgraphSelector, FiniteSetTheorems, FunctionTheorems, WellFoundedInduction, TLAPS

\* A representative represents itself: the root of a tree of m_Parent pointers.
RootsAreFixed == \A s \in Layers : rep[rep[s]] = rep[s]

\* A layer in AssignSplitId has only processed inputs, and a processed layer
\* has a partial subgraph.
InputsAreAssigned ==
  /\ \A l \in processed : subgraph[l] # None
  /\ pc # "pop" => current \in Layers /\ InputsOf(current) \subseteq processed
  /\ pc = "record" => subgraph[current] # None

\* The dependencies of the layer in AssignSplitId that are recorded so far.
SlotsRecorded ==
  pc = "record" =>
    \A i \in DOMAIN inputs[current] : i < slot => Recorded(current, inputs[current][i])

\* A layer is processed after its inputs.
ReadersFollow == \A l \in processed : InputsOf(l) \subseteq processed

\* The slot of the loop is at most one past the last.
SlotInRange == pc # "pop" => slot \in 1..(Len(inputs[current]) + 1)

SelectorInv ==
  /\ TypeOK
  /\ ReadersFollow
  /\ SlotInRange
  /\ RootsAreFixed
  /\ SetsMirror
  /\ InputsAreAssigned
  /\ InputsRecorded
  /\ SlotsRecorded
------------------------------------------------------------------------------
\* A layer reads layers.
LEMMA InputsAreLayers ==
  ASSUME inputs \in Graphs, NEW l \in Layers
  PROVE  InputsOf(l) \subseteq Layers
<1>1. inputs[l] \in Seq(Layers)
  BY SubgraphSelectorAssumption
<1>2. \A i \in DOMAIN inputs[l] : inputs[l][i] \in Layers
  BY <1>1
<1>3. QED
  BY <1>2 DEF InputsOf

\* The connections of an output slot can be counted.
LEMMA ConnectionsFinite ==
  ASSUME inputs \in Graphs, NEW l \in Layers
  PROVE  /\ IsFiniteSet(ConnectionsOf(l))
         /\ \A x \in ConnectionsOf(l) : x[1] \in Layers
<1> DEFINE f == [c \in Layers |-> {c} \X {i \in DOMAIN inputs[c] : inputs[c][i] = l}]
           T == {f[c] : c \in Layers}
<1>1. IsFiniteSet(Layers)
  BY SubgraphSelectorAssumption, FS_Interval DEF Layers
<1>2. \A c \in Layers : IsFiniteSet(f[c])
  <2> SUFFICES ASSUME NEW c \in Layers
               PROVE  IsFiniteSet({c} \X {i \in DOMAIN inputs[c] : inputs[c][i] = l})
    OBVIOUS
  <2>1. inputs[c] \in Seq(Layers)
    BY SubgraphSelectorAssumption
  <2>2. DOMAIN inputs[c] = 1..Len(inputs[c]) /\ Len(inputs[c]) \in Nat
    BY <2>1
  <2>3. IsFiniteSet(DOMAIN inputs[c])
    BY <2>2, FS_Interval
  <2>4. IsFiniteSet({i \in DOMAIN inputs[c] : inputs[c][i] = l})
    BY <2>3, FS_Subset
  <2>5. IsFiniteSet({c})
    BY FS_Singleton
  <2>6. QED
    BY <2>4, <2>5, FS_Product
<1>3. f \in Surjection(Layers, T)
  BY DEF Surjection
<1>4. IsFiniteSet(T)
  BY <1>1, <1>3, FS_Surjection DEF ExistsSurjection
<1>5. ConnectionsOf(l) = UNION T
  BY DEF ConnectionsOf
<1>6. \A S \in T : IsFiniteSet(S)
  BY <1>2
<1>7. IsFiniteSet(UNION T)
  BY <1>4, <1>6, FS_UNION
<1>8. \A x \in ConnectionsOf(l) : x[1] \in Layers
  BY DEF ConnectionsOf
<1>9. QED
  BY <1>5, <1>7, <1>8

\* What ForEachLayerOutput pushes are layers.
LEMMA ChildrenAreLayers ==
  ASSUME inputs \in Graphs, NEW l \in Layers, NEW c \in Children(l)
  PROVE  c \in Seq(Layers)
<1>1. PICK s \in Orders(ConnectionsOf(l)) : c = [k \in DOMAIN s |-> s[k][1]]
  BY DEF Children
<1>2. s \in [1..Cardinality(ConnectionsOf(l)) -> ConnectionsOf(l)]
  BY DEF Orders
<1>3. Cardinality(ConnectionsOf(l)) \in Nat
  BY ConnectionsFinite, FS_CardinalityType
<1>4. \A k \in 1..Cardinality(ConnectionsOf(l)) : s[k][1] \in Layers
  BY <1>2, ConnectionsFinite
<1>5. c \in [1..Cardinality(ConnectionsOf(l)) -> Layers]
  BY <1>1, <1>2, <1>4
<1>6. QED
  BY <1>3, <1>5

\* The walk starts with layers.
LEMMA FirstLayers ==
  ASSUME NEW S \in SUBSET Layers, NEW s \in Orders(S)
  PROVE  s \in Seq(Layers)
<1>1. IsFiniteSet(S)
  <2>1. IsFiniteSet(Layers)
    BY SubgraphSelectorAssumption, FS_Interval DEF Layers
  <2>2. QED
    BY <2>1, FS_Subset
<1>2. Cardinality(S) \in Nat
  BY <1>1, FS_CardinalityType
<1>3. s \in [1..Cardinality(S) -> Layers]
  BY DEF Orders
<1>4. QED
  BY <1>2, <1>3
------------------------------------------------------------------------------
\* The types of the disjoint sets and of their dependencies.
SetsTyped ==
  /\ rep \in [Layers -> Layers]
  /\ antes \in [Layers -> SUBSET Layers]
  /\ deps \in [Layers -> SUBSET Layers]

\* What a partial subgraph can tell of another it depends on.
Knows(x, y) == ~IsMergedWith(x, y) => HasAntecedent(x, y)

\* PartialSubgraph::MergeWith moves the sets of a representative to another and
\* repoints those that name it.
LEMMA MergeKeeps ==
  ASSUME SetsTyped, RootsAreFixed, SetsMirror,
         NEW s \in Layers, NEW t \in Layers, MergeWith(s, t)
  PROVE  /\ SetsTyped' /\ RootsAreFixed' /\ SetsMirror'
         /\ \A x, y \in Layers : Knows(x, y) => Knows(x, y)'
<1> DEFINE this == rep[s]
           other == rep[t]
           Repoint(S) == (S \ {this}) \cup {other}
           As == [x \in Layers |-> IF x \in deps[this] THEN Repoint(antes[x]) ELSE antes[x]]
           Ds == [x \in Layers |-> IF x \in antes[this] THEN Repoint(deps[x]) ELSE deps[x]]
<1>1. CASE this = other
  <2>1. UNCHANGED setVars
    BY <1>1 DEF MergeWith
  <2>2. QED
    BY <2>1 DEF setVars, SetsTyped, RootsAreFixed, SetsMirror, Knows, IsMergedWith, HasAntecedent
<1>2. CASE this # other
  <2>1. /\ rep' = [x \in Layers |-> IF rep[x] = this THEN other ELSE rep[x]]
        /\ antes' = [As EXCEPT ![this] = {}, ![other] = @ \cup As[this]]
        /\ deps' = [Ds EXCEPT ![this] = {}, ![other] = @ \cup Ds[this]]
    BY <1>2 DEF MergeWith
  <2>2. /\ this \in Layers /\ other \in Layers
        /\ rep[this] = this /\ rep[other] = other
    BY DEF SetsTyped, RootsAreFixed
  <2>3. /\ As \in [Layers -> SUBSET Layers] /\ Ds \in [Layers -> SUBSET Layers]
        /\ \A x \in Layers :
             /\ As[x] = IF x \in deps[this] THEN Repoint(antes[x]) ELSE antes[x]
             /\ Ds[x] = IF x \in antes[this] THEN Repoint(deps[x]) ELSE deps[x]
    BY <2>2 DEF SetsTyped
  <2>4. \A x \in Layers :
          /\ antes'[x] = IF x = this THEN {}
                         ELSE IF x = other THEN As[other] \cup As[this] ELSE As[x]
          /\ deps'[x] = IF x = this THEN {}
                        ELSE IF x = other THEN Ds[other] \cup Ds[this] ELSE Ds[x]
    <3> HIDE DEF As, Ds, this, other
    <3>1. QED
      BY <1>2, <2>1, <2>2, <2>3
  <2>5. SetsTyped'
    <3>1. rep' \in [Layers -> Layers]
      BY <2>1, <2>2 DEF SetsTyped
    <3> HIDE DEF As, Ds, this, other
    <3>2. antes' \in [Layers -> SUBSET Layers] /\ deps' \in [Layers -> SUBSET Layers]
      BY <2>1, <2>2, <2>3
    <3>3. QED
      BY <3>1, <3>2 DEF SetsTyped
  <2>6. \A x \in Layers : rep'[x] = IF rep[x] = this THEN other ELSE rep[x]
    BY <2>1
  <2>7. RootsAreFixed'
    BY <1>2, <2>2, <2>6 DEF RootsAreFixed, SetsTyped
  <2> HIDE DEF this, other, As, Ds
  <2>8. ASSUME NEW x \in Layers, NEW y \in Layers
        PROVE  /\ (y \in antes[x]) <=> (x \in deps[y])
               /\ y \in antes[x] \/ y \in deps[x] => rep[x] = x /\ rep[y] = y
    BY DEF SetsMirror
  <2>9. ASSUME NEW x \in Layers, NEW y \in Layers
        PROVE  /\ (y \in As[x]) <=> \/ x \in deps[this] /\ y # this /\ y \in antes[x]
                                    \/ x \in deps[this] /\ y = other
                                    \/ x \notin deps[this] /\ y \in antes[x]
               /\ (x \in Ds[y]) <=> \/ y \in antes[this] /\ x # this /\ x \in deps[y]
                                    \/ y \in antes[this] /\ x = other
                                    \/ y \notin antes[this] /\ x \in deps[y]
    BY <2>3
  <2>10. ASSUME NEW x \in Layers, NEW y \in Layers
         PROVE  (y \in antes'[x]) <=> (x \in deps'[y])
    BY <1>2, <2>2, <2>4, <2>8, <2>9
  <2>11. ASSUME NEW x \in Layers, NEW y \in Layers, y \in antes'[x] \/ y \in deps'[x]
         PROVE  y # this /\ rep[y] = y
    BY <1>2, <2>2, <2>4, <2>8, <2>9, <2>11
  <2>12. ASSUME NEW x \in Layers
         PROVE  /\ antes'[x] = {y \in Layers : x \in deps'[y]}
                /\ \A y \in antes'[x] \cup deps'[x] : rep'[y] = y
                /\ rep'[x] # x => antes'[x] = {} /\ deps'[x] = {}
    <3>1. antes'[x] \subseteq Layers /\ deps'[x] \subseteq Layers
      BY <2>5 DEF SetsTyped
    <3>2. antes'[x] = {y \in Layers : x \in deps'[y]}
      BY <2>10, <3>1
    <3>3. \A y \in antes'[x] \cup deps'[x] : rep'[y] = y
      BY <2>6, <2>11, <3>1
    <3>4. ASSUME rep'[x] # x
          PROVE  antes'[x] = {} /\ deps'[x] = {}
      <4>1. x = this \/ (rep[x] # x /\ x # other)
        BY <2>2, <2>6, <3>4
      <4>2. CASE x = this
        BY <2>4, <4>2
      <4>3. CASE x # this /\ rep[x] # x /\ x # other
        <5>1. antes[x] = {} /\ deps[x] = {}
          BY <4>3 DEF SetsMirror
        <5>2. \A y \in Layers : y \notin antes'[x] /\ y \notin deps'[x]
          BY <2>4, <2>8, <2>9, <4>3, <5>1, <2>2
        <5>3. QED
          BY <3>1, <5>2
      <4>4. QED
        BY <4>1, <4>2, <4>3
    <3>5. QED
      BY <3>2, <3>3, <3>4
  <2>13. SetsMirror'
    BY <2>12 DEF SetsMirror
  <2>14. ASSUME NEW x \in Layers, NEW y \in Layers, Knows(x, y)
         PROVE  Knows(x, y)'
    <3> SUFFICES ASSUME rep'[x] # rep'[y]
                 PROVE  rep'[y] \in antes'[rep'[x]]
      BY DEF Knows, IsMergedWith, HasAntecedent
    <3>1. rep[x] \in Layers /\ rep[y] \in Layers /\ rep[x] # rep[y]
      BY <2>6 DEF SetsTyped
    <3>2. rep[y] \in antes[rep[x]]
      BY <2>14, <3>1 DEF Knows, IsMergedWith, HasAntecedent
    <3>3. rep[x] \in deps[rep[y]]
      BY <2>8, <3>1, <3>2
    <3>4. CASE rep[x] = this
      <4>1. rep'[x] = other /\ rep'[y] = rep[y] /\ rep[y] # other
        BY <2>6, <3>1, <3>4
      <4>2. rep[y] \in As[this]
        BY <2>9, <2>2, <3>1, <3>2, <3>4
      <4>3. QED
        BY <1>2, <2>2, <2>4, <4>1, <4>2
    <3>5. CASE rep[x] # this /\ rep[y] = this
      <4>1. rep'[x] = rep[x] /\ rep'[y] = other
        BY <2>6, <3>1, <3>5
      <4>2. other \in As[rep[x]]
        BY <2>9, <2>2, <3>1, <3>3, <3>5
      <4>3. QED
        BY <2>4, <3>1, <3>5, <4>1, <4>2
    <3>6. CASE rep[x] # this /\ rep[y] # this
      <4>1. rep'[x] = rep[x] /\ rep'[y] = rep[y]
        BY <2>6, <3>1, <3>6
      <4>2. rep[y] \in As[rep[x]]
        BY <2>9, <3>1, <3>2, <3>6
      <4>3. QED
        BY <2>4, <3>1, <3>6, <4>1, <4>2
    <3>7. QED
      BY <3>4, <3>5, <3>6
  <2>15. QED
    BY <2>5, <2>7, <2>13, <2>14
<1>3. QED
  BY <1>1, <1>2

\* PartialSubgraph::AddDirectAntecedent tells all antecedents and all dependants.
LEMMA AddKeeps ==
  ASSUME SetsTyped, RootsAreFixed, SetsMirror,
         NEW s \in Layers, NEW t \in Layers, AddDirectAntecedent(s, t)
  PROVE  /\ SetsTyped' /\ RootsAreFixed' /\ SetsMirror'
         /\ \A x, y \in Layers : Knows(x, y) => Knows(x, y)'
         /\ Knows(s, t)'
<1> DEFINE this == rep[s]
           new == {rep[t]} \cup antes[rep[t]]
           users == {this} \cup deps[this]
<1>1. /\ antes' = [x \in Layers |-> IF x \in users THEN antes[x] \cup new ELSE antes[x]]
      /\ deps' = [x \in Layers |-> IF x \in new THEN deps[x] \cup users ELSE deps[x]]
      /\ rep' = rep
  BY DEF AddDirectAntecedent
<1>2. new \subseteq Layers /\ users \subseteq Layers
  BY DEF SetsTyped
<1>3. \A x \in new \cup users : x \in Layers /\ rep[x] = x
  BY <1>2 DEF SetsTyped, RootsAreFixed, SetsMirror
<1> HIDE DEF new, users, this
<1>4. SetsTyped'
  BY <1>1, <1>2 DEF SetsTyped
<1>5. RootsAreFixed'
  BY <1>1 DEF RootsAreFixed
<1>6. \A x \in Layers :
        /\ antes'[x] = IF x \in users THEN antes[x] \cup new ELSE antes[x]
        /\ deps'[x] = IF x \in new THEN deps[x] \cup users ELSE deps[x]
  BY <1>1
<1>7. \A x, y \in Layers : (y \in antes[x]) <=> (x \in deps[y])
  BY DEF SetsMirror
<1>8. ASSUME NEW x \in Layers
      PROVE  /\ antes'[x] = {y \in Layers : x \in deps'[y]}
             /\ \A y \in antes'[x] \cup deps'[x] : rep'[y] = y
             /\ rep'[x] # x => antes'[x] = {} /\ deps'[x] = {}
  <2>1. antes'[x] \subseteq Layers /\ deps'[x] \subseteq Layers
    BY <1>4 DEF SetsTyped
  <2>2. \A y \in Layers : (y \in antes'[x]) <=> (x \in deps'[y])
    BY <1>6, <1>7
  <2>3. \A y \in antes'[x] \cup deps'[x] : rep'[y] = y
    BY <1>1, <1>3, <1>6 DEF SetsMirror
  <2>4. rep'[x] # x => antes'[x] = {} /\ deps'[x] = {}
    BY <1>1, <1>3, <1>6 DEF SetsMirror
  <2>5. QED
    BY <2>1, <2>2, <2>3, <2>4
<1>9. SetsMirror'
  BY <1>8 DEF SetsMirror
<1>10. \A x, y \in Layers : Knows(x, y) => Knows(x, y)'
  BY <1>1, <1>6 DEF Knows, IsMergedWith, HasAntecedent, SetsTyped
<1>11. Knows(s, t)'
  <2>1. rep[s] \in Layers /\ rep[s] \in users /\ rep[t] \in new
    BY DEF SetsTyped, users, new, this
  <2>2. QED
    BY <1>1, <1>6, <2>1 DEF Knows, IsMergedWith, HasAntecedent
<1>12. QED
  BY <1>4, <1>5, <1>9, <1>10, <1>11
------------------------------------------------------------------------------
\* A turn of the queue, or a layer that begins or ends, moves no set.
LEMMA QueueKeeps ==
  ASSUME SelectorInv, PutAside \/ Take \/ Settle \/ Finish
  PROVE  SelectorInv'
<1>1. CASE PutAside
  <2>1. queue' \in Seq(Layers)
    <3>1. queue \in Seq(Layers) /\ queue # <<>>
      BY <1>1 DEF PutAside, SelectorInv, TypeOK
    <3>2. Head(queue) \in Layers /\ Tail(queue) \in Seq(Layers)
      BY <3>1
    <3>3. queue' = Tail(queue) \/ queue' = Append(Tail(queue), Head(queue))
      BY <1>1 DEF PutAside
    <3>4. QED
      BY <3>2, <3>3
  <2>2. UNCHANGED <<graphVars, processed, subgraph, setVars, loopVars>>
    BY <1>1 DEF PutAside
  <2>3. QED
    BY <2>1, <2>2
    DEF SelectorInv, TypeOK, RootsAreFixed, SetsMirror, InputsAreAssigned, InputsRecorded,
        ReadersFollow, SlotInRange, SlotsRecorded, Recorded, IsMergedWith, HasAntecedent, InputsOf, graphVars, setVars, loopVars
<1>2. CASE Take
  <2>1. Head(queue) \in Layers /\ Tail(queue) \in Seq(Layers)
    BY <1>2 DEF Take, SelectorInv, TypeOK
  <2>2. /\ current' = Head(queue) /\ queue' = Tail(queue) /\ pc' = "merge" /\ slot' = 1
        /\ InputsOf(Head(queue)) \subseteq processed
        /\ UNCHANGED <<graphVars, processed, subgraph, setVars>>
    BY <1>2 DEF Take, IsReadyForSplitAssignment
  <2>3. QED
    BY <2>1, <2>2
    DEF SelectorInv, TypeOK, RootsAreFixed, SetsMirror, InputsAreAssigned, InputsRecorded,
        ReadersFollow, SlotInRange, SlotsRecorded, Recorded, IsMergedWith, HasAntecedent, InputsOf, graphVars, setVars
<1>3. CASE Settle
  <2>1. current \in Layers /\ InputsOf(current) \subseteq processed
    BY <1>3 DEF Settle, SelectorInv, InputsAreAssigned
  <2>2. /\ pc' = "record" /\ slot' = 1
        /\ subgraph' = [subgraph EXCEPT ![current] = IF @ = None THEN current ELSE @]
        /\ UNCHANGED <<graphVars, queue, processed, setVars, current>>
    BY <1>3 DEF Settle
  <2>3. None \notin Layers
    BY SubgraphSelectorAssumption DEF None, Layers
  <2>4. /\ subgraph' \in [Layers -> Layers \cup {None}]
        /\ subgraph'[current] # None
        /\ \A l \in processed : subgraph'[l] = subgraph[l] /\ subgraph[l] # None
    BY <2>1, <2>2, <2>3 DEF SelectorInv, TypeOK, InputsAreAssigned
  <2>5. \A l \in processed : InputsOf(l) \subseteq Layers
    BY InputsAreLayers DEF SelectorInv, TypeOK
  <2>6. InputsRecorded'
    <3> SUFFICES ASSUME NEW l \in processed, NEW p \in InputsOf(l)
                 PROVE  Recorded(l, p)'
      BY <2>2 DEF InputsRecorded, InputsOf, graphVars
    <3>1. p \in processed
      BY DEF SelectorInv, ReadersFollow
    <3>2. Recorded(l, p)
      BY DEF SelectorInv, InputsRecorded
    <3>3. QED
      BY <2>2, <2>4, <3>1, <3>2 DEF Recorded, IsMergedWith, HasAntecedent, setVars
  <2>7. SlotsRecorded'
    <3>1. inputs[current] \in Seq(Layers)
      BY <2>1, SubgraphSelectorAssumption DEF SelectorInv, TypeOK
    <3>2. \A i \in DOMAIN inputs[current] : ~(i < 1)
      BY <3>1
    <3>3. QED
      BY <2>2, <3>2 DEF SlotsRecorded, graphVars
  <2>8. QED
    BY <2>1, <2>2, <2>4, <2>6, <2>7
    DEF SelectorInv, TypeOK, RootsAreFixed, SetsMirror, InputsAreAssigned, ReadersFollow,
        SlotInRange, InputsOf, graphVars, setVars
<1>4. CASE Finish
  <2>1. current \in Layers /\ InputsOf(current) \subseteq processed
    BY <1>4 DEF Finish, SelectorInv, InputsAreAssigned
  <2>2. PICK c \in Children(current) : queue' = queue \o c
    BY <1>4 DEF Finish
  <2>3. queue' \in Seq(Layers)
    BY <2>1, <2>2, ChildrenAreLayers DEF SelectorInv, TypeOK
  <2>4. /\ processed' = processed \cup {current}
        /\ current' = None /\ pc' = "pop" /\ slot' = 1
        /\ UNCHANGED <<graphVars, subgraph, setVars>>
        /\ slot \notin DOMAIN inputs[current] /\ pc = "record"
    BY <1>4 DEF Finish
  <2>5. \A i \in DOMAIN inputs[current] : i < slot
    <3>1. inputs[current] \in Seq(Layers)
      BY <2>1, SubgraphSelectorAssumption DEF SelectorInv, TypeOK
    <3>2. slot \in 1..(Len(inputs[current]) + 1)
      BY <2>4 DEF SelectorInv, SlotInRange
    <3>3. QED
      BY <2>4, <3>1, <3>2
  <2>6. \A p \in InputsOf(current) : Recorded(current, p)
    BY <2>4, <2>5 DEF SelectorInv, SlotsRecorded, InputsOf
  <2>7. InputsRecorded'
    BY <2>4, <2>6
    DEF SelectorInv, InputsRecorded, Recorded, IsMergedWith, HasAntecedent, InputsOf,
        graphVars, setVars
  <2>8. QED
    BY <2>1, <2>3, <2>4, <2>7
    DEF SelectorInv, TypeOK, RootsAreFixed, SetsMirror, InputsAreAssigned, ReadersFollow,
        SlotInRange, SlotsRecorded, InputsOf, graphVars, setVars
<1>5. QED
  BY <1>1, <1>2, <1>3, <1>4

\* What a layer knew of its inputs it still knows after a change of the sets
\* that forgets nothing.
LEMMA RecordedKept ==
  ASSUME SelectorInv, \A x, y \in Layers : Knows(x, y) => Knows(x, y)',
         NEW l \in Layers, NEW p \in Layers, Recorded(l, p),
         subgraph[l] \in Layers, subgraph[p] \in Layers,
         subgraph' = subgraph
  PROVE  Recorded(l, p)'
BY DEF Recorded, Knows, IsMergedWith, HasAntecedent

\* The input a loop of AssignSplitId looks at has been processed.
LEMMA SlotFacts ==
  ASSUME SelectorInv, pc \in {"merge", "record"}, slot \in DOMAIN inputs[current]
  PROVE  /\ current \in Layers
         /\ inputs[current] \in Seq(Layers)
         /\ inputs[current][slot] \in processed
         /\ subgraph[inputs[current][slot]] \in Layers
         /\ slot + 1 \in 1..(Len(inputs[current]) + 1)
<1>1. current \in Layers /\ InputsOf(current) \subseteq processed
  BY DEF SelectorInv, InputsAreAssigned
<1>2. inputs[current] \in Seq(Layers)
  BY <1>1, SubgraphSelectorAssumption DEF SelectorInv, TypeOK
<1>3. inputs[current][slot] \in processed
  BY <1>1 DEF InputsOf
<1>4. subgraph[inputs[current][slot]] \in Layers
  BY <1>3 DEF SelectorInv, TypeOK, InputsAreAssigned
<1>5. slot + 1 \in 1..(Len(inputs[current]) + 1)
  BY <1>2
<1>6. QED
  BY <1>1, <1>2, <1>3, <1>4, <1>5

\* The layer joins the subgraph of an input, or merges that with its own.
LEMMA MergeInputKeeps ==
  ASSUME SelectorInv, MergeInput
  PROVE  SelectorInv'
<1> DEFINE p == inputs[current][slot]
<1>1. /\ pc = "merge" /\ slot \in DOMAIN inputs[current]
      /\ slot' = slot + 1
      /\ UNCHANGED <<graphVars, queue, processed, current, pc>>
  BY DEF MergeInput
<1>2. /\ current \in Layers
      /\ p \in processed
      /\ subgraph[p] \in Layers
      /\ slot' \in 1..(Len(inputs[current]) + 1)
  BY <1>1, SlotFacts
<1>3. /\ SetsTyped /\ RootsAreFixed /\ SetsMirror
      /\ subgraph \in [Layers -> Layers \cup {None}]
      /\ processed \subseteq Layers
      /\ \A l \in processed : subgraph[l] \in Layers
  BY DEF SelectorInv, TypeOK, SetsTyped, InputsAreAssigned
<1>4. None \notin Layers
  BY SubgraphSelectorAssumption DEF None, Layers
<1>5. \/ UNCHANGED <<subgraph, setVars>>
      \/ /\ subgraph[current] = None
         /\ subgraph' = [subgraph EXCEPT ![current] = subgraph[p]]
         /\ UNCHANGED setVars
      \/ /\ subgraph[current] # None
         /\ MergeWith(subgraph[current], subgraph[p])
         /\ UNCHANGED subgraph
  BY DEF MergeInput
<1> HIDE DEF p
<1>6. /\ SetsTyped' /\ RootsAreFixed' /\ SetsMirror'
      /\ \A x, y \in Layers : Knows(x, y) => Knows(x, y)'
  <2>1. CASE UNCHANGED setVars
    BY <1>3, <2>1
    DEF setVars, SetsTyped, RootsAreFixed, SetsMirror, Knows, IsMergedWith, HasAntecedent
  <2>2. CASE subgraph[current] # None /\ MergeWith(subgraph[current], subgraph[p])
    <3>1. subgraph[current] \in Layers
      BY <1>2, <1>3, <2>2
    <3>2. QED
      BY <1>2, <1>3, <2>2, <3>1, MergeKeeps
  <2>3. QED
    BY <1>5, <2>1, <2>2
<1>7. /\ subgraph' \in [Layers -> Layers \cup {None}]
      /\ \A l \in processed : subgraph'[l] = subgraph[l]
  BY <1>2, <1>3, <1>4, <1>5
<1>8. InputsRecorded'
  <2> SUFFICES ASSUME NEW l \in processed, NEW q \in InputsOf(l)
               PROVE  Recorded(l, q)'
    BY <1>1 DEF InputsRecorded, InputsOf, graphVars
  <2>1. q \in processed /\ Recorded(l, q)
    BY DEF SelectorInv, ReadersFollow, InputsRecorded
  <2>2. Knows(subgraph[l], subgraph[q])
    BY <2>1 DEF Recorded, Knows
  <2>3. Knows(subgraph[l], subgraph[q])'
    BY <1>3, <1>6, <1>7, <2>1, <2>2 DEF Knows, IsMergedWith, HasAntecedent
  <2>4. QED
    BY <2>3 DEF Recorded, Knows
<1>9. TypeOK'
  BY <1>1, <1>2, <1>6, <1>7 DEF SelectorInv, TypeOK, SetsTyped, graphVars
<1>10. ReadersFollow' /\ SlotInRange' /\ InputsAreAssigned' /\ SlotsRecorded'
  BY <1>1, <1>2, <1>7
  DEF SelectorInv, ReadersFollow, SlotInRange, InputsAreAssigned, SlotsRecorded, InputsOf, graphVars
<1>11. QED
  BY <1>6, <1>8, <1>9, <1>10 DEF SelectorInv

\* The subgraph of the layer is told of that of an input.
LEMMA RecordInputKeeps ==
  ASSUME SelectorInv, RecordInput
  PROVE  SelectorInv'
<1>0. PICK p : p = inputs[current][slot]
  OBVIOUS
<1>1. /\ pc = "record" /\ slot \in DOMAIN inputs[current]
      /\ slot' = slot + 1
      /\ UNCHANGED <<graphVars, queue, processed, subgraph, current, pc>>
  BY DEF RecordInput
<1>2. /\ current \in Layers
      /\ inputs[current] \in Seq(Layers)
      /\ p \in processed
      /\ subgraph[p] \in Layers
      /\ slot' \in 1..(Len(inputs[current]) + 1)
  BY <1>0, <1>1, SlotFacts
<1>3. /\ SetsTyped /\ RootsAreFixed /\ SetsMirror
      /\ subgraph[current] \in Layers
      /\ processed \subseteq Layers
      /\ \A l \in processed : subgraph[l] \in Layers
  BY <1>1, <1>2 DEF SelectorInv, TypeOK, SetsTyped, InputsAreAssigned
<1>4. \/ IsMergedWith(subgraph[current], subgraph[p]) /\ UNCHANGED setVars
      \/ AddDirectAntecedent(subgraph[current], subgraph[p])
  BY <1>0 DEF RecordInput
<1>5. /\ SetsTyped' /\ RootsAreFixed' /\ SetsMirror'
      /\ \A x, y \in Layers : Knows(x, y) => Knows(x, y)'
      /\ Knows(subgraph[current], subgraph[p])'
  <2>1. CASE IsMergedWith(subgraph[current], subgraph[p]) /\ UNCHANGED setVars
    BY <1>1, <1>3, <2>1
    DEF setVars, SetsTyped, RootsAreFixed, SetsMirror, Knows, IsMergedWith, HasAntecedent
  <2>2. CASE AddDirectAntecedent(subgraph[current], subgraph[p])
    <3> DEFINE s == subgraph[current]
               t == subgraph[p]
    <3>1. s \in Layers /\ t \in Layers
      BY <1>2, <1>3
    <3>2. AddDirectAntecedent(s, t)
      BY <2>2
    <3>3. subgraph' = subgraph /\ current' = current
      BY <1>1
    <3> HIDE DEF s, t
    <3>4. /\ SetsTyped' /\ RootsAreFixed' /\ SetsMirror'
          /\ \A x, y \in Layers : Knows(x, y) => Knows(x, y)'
          /\ (rep'[s] # rep'[t] => rep'[t] \in antes'[rep'[s]])
      <4>1. \A x \in Layers, y \in Layers : AddDirectAntecedent(x, y) =>
              /\ SetsTyped' /\ RootsAreFixed' /\ SetsMirror'
              /\ \A u, v \in Layers : Knows(u, v) => Knows(u, v)'
              /\ (rep'[x] # rep'[y] => rep'[y] \in antes'[rep'[x]])
        BY <1>3, AddKeeps DEF Knows, IsMergedWith, HasAntecedent
      <4>2. QED
        BY <3>1, <3>2, <4>1
    <3>5. QED
      BY <3>3, <3>4 DEF s, t, Knows, IsMergedWith, HasAntecedent
  <2>3. QED
    BY <1>4, <2>1, <2>2
<1>6. Recorded(current, p)'
  BY <1>5 DEF Recorded, Knows
<1>7. \A l, q \in Layers :
        Recorded(l, q) /\ subgraph[l] \in Layers /\ subgraph[q] \in Layers => Recorded(l, q)'
  BY <1>1, <1>5, RecordedKept
<1>8. InputsRecorded'
  <2> SUFFICES ASSUME NEW l \in processed, NEW q \in InputsOf(l)
               PROVE  Recorded(l, q)'
    BY <1>1 DEF InputsRecorded, InputsOf, graphVars
  <2>1. q \in processed /\ Recorded(l, q)
    BY DEF SelectorInv, ReadersFollow, InputsRecorded
  <2>2. QED
    BY <1>3, <1>7, <2>1
<1>9. SlotsRecorded'
  <2> SUFFICES ASSUME NEW i \in DOMAIN inputs[current], i < slot + 1
               PROVE  Recorded(current, inputs[current][i])'
    BY <1>1 DEF SlotsRecorded, graphVars
  <2>0. inputs' = inputs /\ current' = current
    BY <1>1 DEF graphVars
  <2>1. CASE i = slot
    <3>1. inputs'[current'][i] = p
      BY <1>0, <2>0, <2>1
    <3>2. QED
      BY <1>6, <2>0, <3>1 DEF Recorded, IsMergedWith, HasAntecedent
  <2>2. CASE i < slot
    <3>1. Recorded(current, inputs[current][i])
      BY <1>1, <2>2 DEF SelectorInv, SlotsRecorded
    <3>2. inputs[current][i] \in processed
      BY <1>1 DEF SelectorInv, InputsAreAssigned, InputsOf
    <3>3. Recorded(current, inputs[current][i]) /\ inputs[current][i] \in Layers
          /\ subgraph[inputs[current][i]] \in Layers
      BY <1>3, <3>1, <3>2
    <3>4. PICK q \in Layers : q = inputs[current][i]
      BY <3>3
    <3>5. PICK c \in Layers : c = current
      BY <1>2
    <3>6. Recorded(c, q)'
      BY <1>3, <1>7, <3>3, <3>4, <3>5
    <3>7. QED
      BY <2>0, <3>4, <3>5, <3>6 DEF Recorded, IsMergedWith, HasAntecedent
  <2>3. QED
    BY <1>1, <1>2, <2>1, <2>2
<1>10. TypeOK'
  BY <1>1, <1>2, <1>5 DEF SelectorInv, TypeOK, SetsTyped, graphVars
<1>11. ReadersFollow' /\ SlotInRange' /\ InputsAreAssigned'
  BY <1>1, <1>2
  DEF SelectorInv, ReadersFollow, SlotInRange, InputsAreAssigned, InputsOf, graphVars
<1>12. QED
  BY <1>5, <1>8, <1>9, <1>10, <1>11 DEF SelectorInv

\* SelectorInv holds in every reachable state of SelectSubgraphs.
LEMMA SelectorInvariant == Spec => []SelectorInv
<1>1. Init => SelectorInv
  <2> SUFFICES ASSUME Init PROVE SelectorInv
    OBVIOUS
  <2>1. queue \in Seq(Layers)
    BY FirstLayers DEF Init
  <2>2. TypeOK
    BY <2>1 DEF Init, TypeOK
  <2>3. QED
    BY <2>2
    DEF Init, SelectorInv, RootsAreFixed, SetsMirror, InputsAreAssigned, InputsRecorded,
        ReadersFollow, SlotInRange, SlotsRecorded
<1>2. SelectorInv /\ [Next]_vars => SelectorInv'
  <2> SUFFICES ASSUME SelectorInv, [Next]_vars PROVE SelectorInv'
    OBVIOUS
  <2>1. CASE PutAside \/ Take \/ Settle \/ Finish
    BY <2>1, QueueKeeps
  <2>2. CASE MergeInput
    BY <2>2, MergeInputKeeps
  <2>3. CASE RecordInput
    BY <2>3, RecordInputKeeps
  <2>4. CASE UNCHANGED vars
    BY <2>4
    DEF vars, graphVars, setVars, loopVars, SelectorInv, TypeOK, RootsAreFixed, SetsMirror,
        InputsAreAssigned, InputsRecorded, ReadersFollow, SlotInRange, SlotsRecorded, Recorded,
        IsMergedWith, HasAntecedent, InputsOf
  <2>5. QED
    BY <2>1, <2>2, <2>3, <2>4 DEF Next
<1>3. QED
  BY <1>1, <1>2, PTL DEF Spec
------------------------------------------------------------------------------
\* The walk of SelectSubgraphs and its sets keep their types: in particular the
\* queue holds layers, and every merge has two partial subgraphs.
THEOREM TypeCorrect == Spec => []TypeOK
<1>1. SelectorInv => TypeOK
  BY DEF SelectorInv
<1>2. QED
  BY <1>1, SelectorInvariant, PTL

\* The assertions of MergeWith hold ("numErased == 1"): the sets of antecedents
\* and of dependants mirror each other, for every graph and order of merges.
THEOREM SetsMirrorHolds == Spec => []SetsMirror
<1>1. SelectorInv => SetsMirror
  BY DEF SelectorInv
<1>2. QED
  BY <1>1, SelectorInvariant, PTL

\* The comment of m_Antecedents says "either directly or indirectly": it is true of
\* the direct ones, of every processed layer and after every merge.
THEOREM InputsRecordedHolds == Spec => []InputsRecorded
<1>1. SelectorInv => InputsRecorded
  BY DEF SelectorInv
<1>2. QED
  BY <1>1, SelectorInvariant, PTL
------------------------------------------------------------------------------
\* What MergeWith can add to a set: the representative that disappears is replaced
\* by the other, which takes over its antecedents.
LEMMA MergeEffect ==
  ASSUME SetsTyped, RootsAreFixed, SetsMirror,
         NEW s \in Layers, NEW t \in Layers, MergeWith(s, t), rep[s] # rep[t]
  PROVE  /\ rep[s] \in Layers /\ rep[t] \in Layers
         /\ \A x \in Layers : rep'[x] = IF rep[x] = rep[s] THEN rep[t] ELSE rep[x]
         /\ \A x, y \in Layers : y \in antes'[x] =>
              /\ x # rep[s] /\ y # rep[s]
              /\ \/ y \in antes[x]
                 \/ x = rep[t] /\ y \in antes[rep[s]]
                 \/ y = rep[t] /\ rep[s] \in antes[x]
                 \/ x = rep[t] /\ y = rep[t] /\ rep[s] \in antes[rep[s]]
<1> DEFINE this == rep[s]
           other == rep[t]
           Repoint(S) == (S \ {this}) \cup {other}
           As == [x \in Layers |-> IF x \in deps[this] THEN Repoint(antes[x]) ELSE antes[x]]
<1>1. this \in Layers /\ other \in Layers /\ this # other
  BY DEF SetsTyped
<1>2. /\ rep' = [x \in Layers |-> IF rep[x] = this THEN other ELSE rep[x]]
      /\ antes' = [As EXCEPT ![this] = {}, ![other] = @ \cup As[this]]
  BY DEF MergeWith
<1>3. /\ As \in [Layers -> SUBSET Layers]
      /\ \A x \in Layers : As[x] = IF x \in deps[this] THEN Repoint(antes[x]) ELSE antes[x]
  BY <1>1 DEF SetsTyped
<1>4. \A x, y \in Layers : (y \in antes[x]) <=> (x \in deps[y])
  BY DEF SetsMirror
<1>5. \A x \in Layers :
        /\ antes'[x] = IF x = this THEN {}
                       ELSE IF x = other THEN As[other] \cup As[this] ELSE As[x]
        /\ rep'[x] = IF rep[x] = this THEN other ELSE rep[x]
  <2> HIDE DEF As, this, other
  <2> QED
    BY <1>1, <1>2, <1>3
<1>6. \A x, y \in Layers : y \in As[x] =>
        y # this /\ (y \in antes[x] \/ (y = other /\ this \in antes[x]))
  <2> HIDE DEF As, other, this
  <2> QED
    BY <1>1, <1>3, <1>4
<1> HIDE DEF As
<1>7. QED
  BY <1>1, <1>5, <1>6

\* What AddDirectAntecedent can add.
LEMMA AddEffect ==
  ASSUME SetsTyped, SetsMirror,
         NEW s \in Layers, NEW t \in Layers, AddDirectAntecedent(s, t)
  PROVE  /\ rep[s] \in Layers /\ rep[t] \in Layers
         /\ rep' = rep
         /\ \A x, y \in Layers : (y \in antes'[x]) <=>
              \/ y \in antes[x]
              \/ /\ x = rep[s] \/ rep[s] \in antes[x]
                 /\ y = rep[t] \/ y \in antes[rep[t]]
<1> DEFINE new == {rep[t]} \cup antes[rep[t]]
           users == {rep[s]} \cup deps[rep[s]]
<1>1. /\ antes' = [x \in Layers |-> IF x \in users THEN antes[x] \cup new ELSE antes[x]]
      /\ rep' = rep
  BY DEF AddDirectAntecedent
<1>2. rep[s] \in Layers /\ rep[t] \in Layers
  BY DEF SetsTyped
<1>3. \A x \in Layers : (x \in users) <=> (x = rep[s] \/ rep[s] \in antes[x])
  BY <1>2 DEF SetsMirror
<1>4. QED
  BY <1>1, <1>2, <1>3
------------------------------------------------------------------------------
\* The representative of the partial subgraph of a layer.
Sub(l) == rep[subgraph[l]]

\* No set and no tree knows the partial subgraph that would be made for l.
Unused(l) ==
  /\ rep[l] = l /\ antes[l] = {}
  /\ \A x \in Layers : l \notin antes[x] /\ (rep[x] = l => x = l) /\ subgraph[x] # l

\* A layer has a partial subgraph from AssignSplitId on, perhaps one of its own.
LaterUnused ==
  \A l \in Layers \ processed :
    /\ l # current => subgraph[l] = None
    /\ (l = current /\ subgraph[l] = l) \/ Unused(l)

\* Which layer is in AssignSplitId.
CurrentIsNew ==
  /\ pc = "pop" => current = None
  /\ pc # "pop" => current \notin processed

\* A subgraph has selected layers or others, not both.
Alike ==
  \A l, k \in Layers :
    subgraph[l] # None /\ subgraph[k] # None /\ Sub(l) = Sub(k) => (l \in selected <=> k \in selected)

\* The inductive invariant about which subgraphs are in use.
SubsInv == CurrentIsNew /\ LaterUnused /\ Alike

\* What the proofs below need of SelectorInv.
LEMMA Facts ==
  ASSUME SelectorInv
  PROVE  /\ SetsTyped /\ RootsAreFixed /\ SetsMirror
         /\ processed \subseteq Layers
         /\ subgraph \in [Layers -> Layers \cup {None}]
         /\ \A l \in processed : subgraph[l] \in Layers
         /\ None \notin Layers
         /\ pc \in {"pop", "merge", "record"}
         /\ pc # "pop" => current \in Layers
<1>1. None \notin Layers
  BY SubgraphSelectorAssumption DEF Layers, None
<1>2. QED
  BY <1>1 DEF SelectorInv, TypeOK, SetsTyped, InputsAreAssigned

\* The walk begins with no subgraph in use.
LEMMA SubsInit == Init => SubsInv
<1> SUFFICES ASSUME Init PROVE SubsInv
  OBVIOUS
<1>1. None \notin Layers
  BY SubgraphSelectorAssumption DEF None, Layers
<1>2. QED
  BY <1>1 DEF Init, SubsInv, CurrentIsNew, LaterUnused, Unused, Alike

\* The queue moves no set.
LEMMA SubsQueue ==
  ASSUME SelectorInv, SubsInv, PutAside \/ Take \/ Finish
  PROVE  SubsInv'
<1>1. CASE PutAside
  BY <1>1
  DEF PutAside, SubsInv, CurrentIsNew, LaterUnused, Unused, Alike, Sub, graphVars, setVars, loopVars
<1>2. CASE Take
  <2>1. queue \in Seq(Layers) /\ queue # <<>> /\ Head(queue) \in Layers
    BY <1>2 DEF Take, SelectorInv, TypeOK
  <2>2. None \notin Layers
    BY Facts
  <2>3. QED
    BY <1>2, <2>1, <2>2
    DEF Take, SubsInv, CurrentIsNew, LaterUnused, Unused, Alike, Sub, graphVars, setVars
<1>3. CASE Finish
  BY <1>3, Facts
  DEF Finish, SubsInv, CurrentIsNew, LaterUnused, Unused, Alike, Sub, graphVars, setVars
<1>4. QED
  BY <1>1, <1>2, <1>3

\* The subgraph made for a layer was not in use.
LEMMA SubsSettle ==
  ASSUME SelectorInv, SubsInv, Settle
  PROVE  SubsInv'
<1>1. /\ pc = "merge" /\ pc' = "record" /\ current' = current
      /\ subgraph' = [subgraph EXCEPT ![current] = IF @ = None THEN current ELSE @]
      /\ UNCHANGED <<graphVars, processed, setVars>>
  BY DEF Settle
<1>2. current \in Layers /\ current \notin processed /\ None \notin Layers
  BY <1>1, Facts DEF SubsInv, CurrentIsNew
<1>3. CASE subgraph[current] # None
  <2>1. subgraph' = subgraph
    BY <1>1, <1>2, <1>3, Facts
  <2>2. QED
    BY <1>1, <2>1 DEF SubsInv, CurrentIsNew, LaterUnused, Unused, Alike, Sub, graphVars, setVars
<1>4. CASE subgraph[current] = None
  <2>1. \A x \in Layers : subgraph'[x] = IF x = current THEN current ELSE subgraph[x]
    BY <1>1, <1>2, <1>4, Facts
  <2>2. Unused(current)
    BY <1>2, <1>4 DEF SubsInv, LaterUnused
  <2>3. LaterUnused'
    BY <1>1, <1>2, <2>1, <2>2 DEF SubsInv, LaterUnused, Unused, graphVars, setVars
  <2>4. \A x \in Layers : Sub(x)' = IF x = current THEN current ELSE Sub(x)
    BY <1>1, <2>1, <2>2 DEF Sub, setVars, Unused
  <2>5. \A x \in Layers : subgraph[x] # None => Sub(x) # current
    BY <2>2, Facts DEF Sub, Unused
  <2>6. Alike'
    <3> SUFFICES ASSUME NEW l \in Layers, NEW k \in Layers,
                        subgraph'[l] # None, subgraph'[k] # None, Sub(l)' = Sub(k)'
                 PROVE  l \in selected <=> k \in selected
      BY <1>1 DEF Alike, graphVars
    <3>1. QED
      BY <2>1, <2>4, <2>5 DEF SubsInv, Alike
  <2>7. QED
    BY <1>1, <1>2, <2>3, <2>6 DEF SubsInv, CurrentIsNew
<1>5. QED
  BY <1>3, <1>4

\* A layer joins, and a subgraph merges with, its like only.
LEMMA SubsMerge ==
  ASSUME SelectorInv, SubsInv, MergeInput
  PROVE  SubsInv'
<1> DEFINE p == inputs[current][slot]
<1>1. /\ pc = "merge" /\ slot \in DOMAIN inputs[current]
      /\ UNCHANGED <<graphVars, queue, processed, current, pc>>
  BY DEF MergeInput
<1>2. /\ current \in Layers /\ current \notin processed
      /\ p \in processed /\ p \in Layers
      /\ subgraph[p] \in Layers
  BY <1>1, SlotFacts, Facts DEF SubsInv, CurrentIsNew
<1>3. /\ SetsTyped /\ RootsAreFixed /\ SetsMirror
      /\ subgraph \in [Layers -> Layers \cup {None}]
      /\ None \notin Layers
  BY Facts
<1>4. \/ UNCHANGED <<subgraph, setVars>>
      \/ /\ subgraph[current] = None
         /\ NoCut(p)
         /\ subgraph' = [subgraph EXCEPT ![current] = subgraph[p]]
         /\ UNCHANGED setVars
      \/ /\ subgraph[current] # None
         /\ NoCut(p)
         /\ MergeWith(subgraph[current], subgraph[p])
         /\ UNCHANGED subgraph
  BY DEF MergeInput
<1>5. selected' = selected
  BY <1>1 DEF graphVars
<1> HIDE DEF p
<1>6. CASE UNCHANGED <<subgraph, setVars>>
  BY <1>1, <1>6 DEF SubsInv, CurrentIsNew, LaterUnused, Unused, Alike, Sub, graphVars, setVars
<1>7. CASE /\ subgraph[current] = None
           /\ NoCut(p)
           /\ subgraph' = [subgraph EXCEPT ![current] = subgraph[p]]
           /\ UNCHANGED setVars
  <2>1. \A x \in Layers : subgraph'[x] = IF x = current THEN subgraph[p] ELSE subgraph[x]
    BY <1>2, <1>3, <1>7
  <2>2. subgraph[p] # current
    BY <1>2, <1>3, <1>7 DEF SubsInv, LaterUnused, Unused
  <2>3. LaterUnused'
    BY <1>1, <1>2, <1>3, <1>7, <2>1, <2>2 DEF SubsInv, LaterUnused, Unused, setVars
  <2>4. \A x \in Layers : Sub(x)' = IF x = current THEN Sub(p) ELSE Sub(x)
    BY <1>2, <1>7, <2>1 DEF Sub, setVars
  <2>5. Alike'
    <3> SUFFICES ASSUME NEW l \in Layers, NEW k \in Layers,
                        subgraph'[l] # None, subgraph'[k] # None, Sub(l)' = Sub(k)'
                 PROVE  l \in selected <=> k \in selected
      BY <1>5 DEF Alike
    <3> DEFINE Stand(x) == IF x = current THEN p ELSE x
    <3>1. \A x \in {l, k} : /\ subgraph[Stand(x)] # None /\ Sub(x)' = Sub(Stand(x)) /\ Stand(x) \in Layers
                            /\ x \in selected <=> Stand(x) \in selected
      BY <1>2, <1>3, <1>7, <2>1, <2>4 DEF NoCut
    <3>2. Stand(l) \in selected <=> Stand(k) \in selected
      <4> HIDE DEF Stand
      <4> QED
        BY <3>1 DEF SubsInv, Alike
    <3>3. QED
      BY <3>1, <3>2
  <2>6. QED
    BY <1>1, <2>3, <2>5 DEF SubsInv, CurrentIsNew
<1>8. CASE /\ subgraph[current] # None
           /\ NoCut(p)
           /\ MergeWith(subgraph[current], subgraph[p])
           /\ UNCHANGED subgraph
  <2> DEFINE this == Sub(current)
             other == Sub(p)
  <2>1. subgraph[current] \in Layers
    BY <1>2, <1>3, <1>8
  <2>2. CASE this = other
    <3>1. UNCHANGED setVars
      BY <1>8, <2>2 DEF MergeWith, Sub
    <3>2. QED
      BY <1>1, <1>8, <3>1 DEF SubsInv, CurrentIsNew, LaterUnused, Unused, Alike, Sub, graphVars, setVars
  <2>3. CASE this # other
    <3>1. /\ this \in Layers /\ other \in Layers
          /\ \A x \in Layers : rep'[x] = IF rep[x] = this THEN other ELSE rep[x]
          /\ \A x, y \in Layers : y \in antes'[x] =>
               /\ x # this /\ y # this
               /\ \/ y \in antes[x]
                  \/ x = other /\ y \in antes[this]
                  \/ y = other /\ this \in antes[x]
                  \/ x = other /\ y = other /\ this \in antes[this]
      BY <1>2, <1>3, <1>8, <2>1, <2>3, MergeEffect DEF Sub
    <3>2. antes' \in [Layers -> SUBSET Layers]
      BY <1>2, <1>3, <1>8, <2>1, MergeKeeps DEF SetsTyped
    <3> HIDE DEF this, other
    <3>3. LaterUnused'
      <4> SUFFICES ASSUME NEW l \in Layers \ processed
                   PROVE  /\ l # current => subgraph[l] = None
                          /\ (l = current /\ subgraph[l] = l) \/ Unused(l)'
        BY <1>1, <1>8 DEF LaterUnused
      <4>1. CASE l = current /\ subgraph[l] = l
        BY <4>1
      <4>2. CASE Unused(l)
        <5>1. l # this /\ l # other
          BY <1>2, <2>1, <4>2 DEF Unused, this, other, Sub
        <5>2. \A x \in Layers : x \notin antes'[l] /\ l \notin antes'[x]
          BY <3>1, <4>2, <5>1 DEF Unused
        <5>3. antes'[l] = {}
          BY <3>2, <5>2
        <5>4. Unused(l)'
          BY <1>8, <3>1, <4>2, <5>1, <5>2, <5>3 DEF Unused
        <5>5. QED
          BY <5>4 DEF SubsInv, LaterUnused
      <4>3. QED
        BY <4>1, <4>2 DEF SubsInv, LaterUnused
    <3>4. Alike'
      <4> SUFFICES ASSUME NEW l \in Layers, NEW k \in Layers,
                          subgraph[l] # None, subgraph[k] # None, Sub(l)' = Sub(k)'
                   PROVE  l \in selected <=> k \in selected
        BY <1>5, <1>8 DEF Alike
      <4>1. \A x \in {l, k} : Sub(x)' = IF Sub(x) = this THEN other ELSE Sub(x)
        BY <1>3, <1>8, <3>1 DEF Sub
      <4>2. current \in selected <=> p \in selected
        BY <1>8 DEF NoCut
      <4>3. \A x, y \in Layers : subgraph[x] # None /\ subgraph[y] # None /\ Sub(x) = Sub(y)
                                 => (x \in selected <=> y \in selected)
        BY DEF SubsInv, Alike
      <4>4. /\ Sub(current) = this /\ Sub(p) = other
            /\ subgraph[current] # None /\ subgraph[p] # None
        BY <1>2, <1>3, <1>8 DEF this, other
      <4>5. QED
        BY <1>2, <4>1, <4>2, <4>3, <4>4
    <3>5. QED
      BY <1>1, <3>3, <3>4 DEF SubsInv, CurrentIsNew
  <2>4. QED
    BY <2>2, <2>3
<1>9. QED
  BY <1>4, <1>6, <1>7, <1>8

\* A dependency is added between subgraphs in use.
LEMMA SubsRecord ==
  ASSUME SelectorInv, SubsInv, RecordInput
  PROVE  SubsInv'
<1> DEFINE p == inputs[current][slot]
<1>1. /\ pc = "record" /\ slot \in DOMAIN inputs[current]
      /\ UNCHANGED <<graphVars, processed, subgraph, current, pc>>
  BY DEF RecordInput
<1>2. /\ current \in Layers /\ p \in Layers
      /\ subgraph[p] \in Layers /\ subgraph[current] \in Layers
  BY <1>1, SlotFacts, Facts DEF SelectorInv, InputsAreAssigned
<1>3. SetsTyped /\ RootsAreFixed /\ SetsMirror
  BY Facts
<1>4. UNCHANGED setVars \/ AddDirectAntecedent(subgraph[current], subgraph[p])
  BY DEF RecordInput
<1> HIDE DEF p
<1>5. CASE UNCHANGED setVars
  BY <1>1, <1>5 DEF SubsInv, CurrentIsNew, LaterUnused, Unused, Alike, Sub, graphVars, setVars
<1>6. CASE AddDirectAntecedent(subgraph[current], subgraph[p])
  <2>1. /\ Sub(current) \in Layers /\ Sub(p) \in Layers
        /\ rep' = rep
        /\ \A x, y \in Layers : y \in antes'[x] =>
             \/ y \in antes[x]
             \/ /\ x = Sub(current) \/ Sub(current) \in antes[x]
                /\ y = Sub(p) \/ y \in antes[Sub(p)]
    BY <1>2, <1>3, <1>6, AddEffect DEF Sub
  <2>2. antes' \in [Layers -> SUBSET Layers]
    BY <1>2, <1>3, <1>6, AddKeeps DEF SetsTyped
  <2>3. LaterUnused'
    <3> SUFFICES ASSUME NEW l \in Layers \ processed
                 PROVE  /\ l # current => subgraph[l] = None
                        /\ (l = current /\ subgraph[l] = l) \/ Unused(l)'
      BY <1>1 DEF LaterUnused
    <3>1. CASE l = current /\ subgraph[l] = l
      BY <3>1
    <3>2. CASE Unused(l)
      <4>1. l # Sub(current) /\ l # Sub(p)
        BY <1>2, <3>2 DEF Unused, Sub
      <4>2. \A x \in Layers : x \notin antes'[l] /\ l \notin antes'[x]
        BY <2>1, <3>2, <4>1 DEF Unused
      <4>3. antes'[l] = {}
        BY <2>2, <4>2
      <4>4. Unused(l)'
        BY <1>1, <2>1, <3>2, <4>2, <4>3 DEF Unused
      <4>5. QED
        BY <4>4 DEF SubsInv, LaterUnused
    <3>3. QED
      BY <3>1, <3>2 DEF SubsInv, LaterUnused
  <2>4. QED
    BY <1>1, <2>1, <2>3 DEF SubsInv, CurrentIsNew, Alike, Sub, graphVars
<1>7. QED
  BY <1>4, <1>5, <1>6

\* SubsInv is kept by every step.
LEMMA SubsStep ==
  ASSUME SelectorInv, SubsInv, [Next]_vars
  PROVE  SubsInv'
<1>1. CASE UNCHANGED vars
  BY <1>1 DEF vars, graphVars, setVars, loopVars, SubsInv, CurrentIsNew, LaterUnused, Unused, Alike, Sub
<1>2. QED
  BY <1>1, SubsQueue, SubsSettle, SubsMerge, SubsRecord DEF Next
------------------------------------------------------------------------------
\* No subgraph depends on itself.
NoneOwn == \A s \in Layers : s \notin antes[s]

\* The subgraph of the layer in AssignSplitId is that of one of its inputs, or new,
\* and no input is in a subgraph that depends on it.
Joined ==
  pc # "pop" /\ subgraph[current] # None =>
    /\ \A q \in InputsOf(current) : Sub(current) \notin antes[Sub(q)]
    /\ pc = "merge" => \E q \in InputsOf(current) : Sub(q) = Sub(current)

\* What a step keeps while the sets are transitive.
OwnInv == NoneOwn /\ Joined

\* The inputs of the layer in AssignSplitId have subgraphs.
LEMMA InputFacts ==
  ASSUME SelectorInv, pc # "pop"
  PROVE  /\ \A q \in InputsOf(current) :
              q \in Layers /\ q \in processed /\ subgraph[q] \in Layers /\ Sub(q) \in Layers
         /\ subgraph[current] # None => subgraph[current] \in Layers /\ Sub(current) \in Layers
<1>1. current \in Layers /\ InputsOf(current) \subseteq processed
  BY DEF SelectorInv, InputsAreAssigned
<1>2. QED
  BY <1>1, Facts DEF Sub, SetsTyped

\* The walk begins without dependencies.
LEMMA OwnInit == Init => OwnInv
BY DEF Init, OwnInv, NoneOwn, Joined

\* The queue adds no dependency.
LEMMA OwnQueue ==
  ASSUME SelectorInv, SubsInv, OwnInv, PutAside \/ Take \/ Finish
  PROVE  OwnInv'
<1>1. CASE PutAside
  BY <1>1 DEF PutAside, OwnInv, NoneOwn, Joined, Sub, InputsOf, graphVars, setVars, loopVars
<1>2. CASE Take
  <2>1. queue \in Seq(Layers) /\ queue # <<>> /\ Head(queue) \in Layers \ processed
    BY <1>2 DEF Take, SelectorInv, TypeOK
  <2>2. subgraph[Head(queue)] = None
    BY <1>2, <2>1, Facts DEF Take, SubsInv, LaterUnused, CurrentIsNew
  <2>3. QED
    BY <1>2, <2>2 DEF Take, OwnInv, NoneOwn, Joined, setVars
<1>3. CASE Finish
  BY <1>3 DEF Finish, OwnInv, NoneOwn, Joined, setVars
<1>4. QED
  BY <1>1, <1>2, <1>3

\* Nothing depends on the subgraph made for a layer.
LEMMA OwnSettle ==
  ASSUME SelectorInv, SubsInv, OwnInv, Settle
  PROVE  OwnInv'
<1>1. /\ pc = "merge" /\ pc' = "record" /\ current' = current
      /\ subgraph' = [subgraph EXCEPT ![current] = IF @ = None THEN current ELSE @]
      /\ UNCHANGED <<graphVars, processed, setVars>>
  BY DEF Settle
<1>2. current \in Layers /\ current \notin processed /\ None \notin Layers
  BY <1>1, Facts DEF SubsInv, CurrentIsNew
<1>3. \A x \in Layers : subgraph'[x] = IF x = current /\ subgraph[x] = None THEN current ELSE subgraph[x]
  BY <1>1, <1>2, Facts
<1>4. \A q \in InputsOf(current) : q # current /\ q \in Layers /\ Sub(q) \in Layers /\ Sub(q)' = Sub(q)
  BY <1>1, <1>2, <1>3, InputFacts DEF Sub, setVars
<1>6. \A q \in InputsOf(current) : Sub(current)' \notin antes[Sub(q)]
  <2>1. CASE subgraph[current] # None
    BY <1>1, <1>2, <1>3, <2>1 DEF OwnInv, Joined, Sub, setVars
  <2>2. CASE subgraph[current] = None
    <3>1. Unused(current)
      BY <1>2, <2>2 DEF SubsInv, LaterUnused
    <3>2. QED
      BY <1>1, <1>2, <1>3, <1>4, <2>2, <3>1 DEF Unused, Sub, setVars
  <2>3. QED
    BY <2>1, <2>2
<1>7. QED
  BY <1>1, <1>4, <1>6 DEF OwnInv, NoneOwn, Joined, InputsOf, graphVars, setVars

\* DependenciesOk keeps a subgraph from merging with one it depends on.
LEMMA OwnMerge ==
  ASSUME SelectorInv, SubsInv, OwnInv, MergeInput
  PROVE  OwnInv'
<1>0. PICK p : p = inputs[current][slot]
  OBVIOUS
<1>1. /\ pc = "merge" /\ slot \in DOMAIN inputs[current]
      /\ UNCHANGED <<graphVars, queue, processed, current, pc>>
  BY DEF MergeInput
<1>2. /\ current \in Layers /\ current \notin processed
      /\ p \in InputsOf(current) /\ p \in Layers /\ p # current
      /\ subgraph[p] \in Layers
  BY <1>0, <1>1, SlotFacts, Facts DEF SubsInv, CurrentIsNew, InputsOf
<1>3. /\ SetsTyped /\ RootsAreFixed /\ SetsMirror
      /\ subgraph \in [Layers -> Layers \cup {None}]
      /\ None \notin Layers
  BY Facts
<1>4. \/ UNCHANGED <<subgraph, setVars>>
      \/ /\ subgraph[current] = None
         /\ DependenciesOk(p)
         /\ subgraph' = [subgraph EXCEPT ![current] = subgraph[p]]
         /\ UNCHANGED setVars
      \/ /\ subgraph[current] # None
         /\ DependenciesOk(p)
         /\ MergeWith(subgraph[current], subgraph[p])
         /\ UNCHANGED subgraph
  BY <1>0 DEF MergeInput
<1>5. \A q \in InputsOf(current) :
        q \in Layers /\ q # current /\ subgraph[q] \in Layers /\ Sub(q) \in Layers
  BY <1>1, <1>2, InputFacts
<1>6. InputsOf(current)' = InputsOf(current)
  BY <1>1 DEF InputsOf, graphVars
<1>7. DependenciesOk(p) => \A q \in InputsOf(current) : Sub(p) \notin antes[Sub(q)]
  BY DEF DependenciesOk, HasAntecedent, Sub
<1>8. CASE UNCHANGED <<subgraph, setVars>>
  BY <1>1, <1>6, <1>8 DEF OwnInv, NoneOwn, Joined, Sub, setVars
<1>9. CASE /\ subgraph[current] = None
           /\ DependenciesOk(p)
           /\ subgraph' = [subgraph EXCEPT ![current] = subgraph[p]]
           /\ UNCHANGED setVars
  <2>1. \A x \in Layers : subgraph'[x] = IF x = current THEN subgraph[p] ELSE subgraph[x]
    BY <1>2, <1>3, <1>9
  <2>2. Sub(current)' = Sub(p) /\ \A q \in InputsOf(current) : Sub(q)' = Sub(q)
    BY <1>1, <1>2, <1>5, <1>9, <2>1 DEF Sub, setVars
  <2>3. \A q \in InputsOf(current) : Sub(current)' \notin antes'[Sub(q)']
    BY <1>1, <1>7, <1>9, <2>2 DEF setVars
  <2>4. Sub(p)' = Sub(current)'
    BY <1>2, <2>2
  <2>5. NoneOwn'
    BY <1>9 DEF OwnInv, NoneOwn, setVars
  <2>6. QED
    BY <1>1, <1>2, <1>6, <2>3, <2>4, <2>5 DEF OwnInv, Joined
<1>10. CASE /\ subgraph[current] # None
            /\ DependenciesOk(p)
            /\ MergeWith(subgraph[current], subgraph[p])
            /\ UNCHANGED subgraph
  <2> DEFINE this == Sub(current)
             other == Sub(p)
  <2>1. subgraph[current] \in Layers
    BY <1>2, <1>3, <1>10
  <2>2. CASE this = other
    <3>1. UNCHANGED setVars
      BY <1>10, <2>2 DEF MergeWith, Sub
    <3>2. QED
      BY <1>1, <1>6, <1>10, <3>1 DEF OwnInv, NoneOwn, Joined, Sub, setVars
  <2>3. CASE this # other
    <3>1. /\ this \in Layers /\ other \in Layers
          /\ \A x \in Layers : rep'[x] = IF rep[x] = this THEN other ELSE rep[x]
          /\ \A x, y \in Layers : y \in antes'[x] =>
               /\ x # this /\ y # this
               /\ \/ y \in antes[x]
                  \/ x = other /\ y \in antes[this]
                  \/ y = other /\ this \in antes[x]
                  \/ x = other /\ y = other /\ this \in antes[this]
      BY <1>2, <1>3, <1>10, <2>1, <2>3, MergeEffect DEF Sub
    <3>2. PICK q0 \in InputsOf(current) : Sub(q0) = this
      BY <1>1, <1>10 DEF OwnInv, Joined
    <3>3. /\ \A q \in InputsOf(current) : this \notin antes[Sub(q)] /\ other \notin antes[Sub(q)]
          /\ this \notin antes[this] /\ this \notin antes[other]
          /\ other \notin antes[this] /\ other \notin antes[other]
      BY <1>1, <1>2, <1>7, <1>10, <3>2 DEF OwnInv, Joined
    <3>4. /\ Sub(current)' = other
          /\ \A q \in InputsOf(current) : Sub(q)' = IF Sub(q) = this THEN other ELSE Sub(q)
      BY <1>1, <1>2, <1>5, <1>10, <2>1, <3>1 DEF Sub
    <3> HIDE DEF this, other
    <3>5. NoneOwn'
      BY <3>1, <3>3 DEF OwnInv, NoneOwn
    <3>6. \A q \in InputsOf(current) : Sub(current)' \notin antes'[Sub(q)']
      <4> SUFFICES ASSUME NEW q \in InputsOf(current) PROVE other \notin antes'[Sub(q)']
        BY <3>4
      <4>1. CASE Sub(q) = this \/ Sub(q) = other
        BY <3>1, <3>3, <3>4, <4>1
      <4>2. CASE Sub(q) # this /\ Sub(q) # other
        BY <1>5, <3>1, <3>3, <3>4, <4>2
      <4>3. QED
        BY <4>1, <4>2
    <3>7. QED
      BY <1>1, <1>6, <3>2, <3>4, <3>5, <3>6 DEF OwnInv, Joined
  <2>4. QED
    BY <2>2, <2>3
<1>11. QED
  BY <1>4, <1>8, <1>9, <1>10

\* No input is in a subgraph that depends on the one told of it: of transitive sets.
LEMMA OwnRecord ==
  ASSUME SelectorInv, SubsInv, OwnInv, SetsTransitive, RecordInput
  PROVE  OwnInv'
<1> DEFINE p == inputs[current][slot]
<1>1. /\ pc = "record" /\ slot \in DOMAIN inputs[current]
      /\ UNCHANGED <<graphVars, processed, subgraph, current, pc>>
  BY DEF RecordInput
<1>2. /\ current \in Layers /\ p \in Layers /\ p \in InputsOf(current)
      /\ subgraph[p] \in Layers /\ subgraph[current] \in Layers
  BY <1>1, SlotFacts, Facts DEF SelectorInv, InputsAreAssigned, InputsOf
<1>3. SetsTyped /\ RootsAreFixed /\ SetsMirror /\ None \notin Layers
  BY Facts
<1>4. \/ UNCHANGED setVars
      \/ /\ Sub(current) # Sub(p)
         /\ AddDirectAntecedent(subgraph[current], subgraph[p])
  BY DEF RecordInput, IsMergedWith, Sub
<1>5. InputsOf(current)' = InputsOf(current)
  BY <1>1 DEF InputsOf, graphVars
<1>6. \A q \in InputsOf(current) : Sub(q) \in Layers /\ Sub(current) \notin antes[Sub(q)]
  BY <1>1, <1>2, <1>3, InputFacts DEF OwnInv, Joined
<1> HIDE DEF p
<1>7. CASE UNCHANGED setVars
  BY <1>1, <1>5, <1>7 DEF OwnInv, NoneOwn, Joined, Sub, setVars
<1>8. CASE /\ Sub(current) # Sub(p)
           /\ AddDirectAntecedent(subgraph[current], subgraph[p])
  <2>1. /\ Sub(current) \in Layers /\ Sub(p) \in Layers
        /\ rep' = rep
        /\ \A x, y \in Layers : y \in antes'[x] =>
             \/ y \in antes[x]
             \/ /\ x = Sub(current) \/ Sub(current) \in antes[x]
                /\ y = Sub(p) \/ y \in antes[Sub(p)]
    BY <1>2, <1>3, <1>8, AddEffect DEF Sub
  <2>2. Sub(current) # Sub(p) /\ Sub(current) \notin antes[Sub(p)]
    BY <1>2, <1>6, <1>8
  <2>3. \A x \in antes[Sub(p)] : Sub(current) \notin antes[x]
    BY <1>3, <2>1, <2>2 DEF SetsTransitive, SetsTyped
  <2>4. NoneOwn'
    BY <2>1, <2>2, <2>3 DEF OwnInv, NoneOwn
  <2>5. \A x \in Layers : Sub(x)' = Sub(x)
    BY <1>1, <2>1 DEF Sub
  <2>6. \A q \in InputsOf(current) : Sub(current) \notin antes'[Sub(q)]
    BY <1>6, <2>1, <2>2
  <2>7. \A q \in InputsOf(current) : q \in Layers
    BY <1>1, InputFacts
  <2>8. QED
    BY <1>1, <1>2, <1>5, <2>4, <2>5, <2>6, <2>7 DEF OwnInv, Joined
<1>9. QED
  BY <1>4, <1>7, <1>8

\* While the sets are transitive, no step makes a subgraph depend on itself.
LEMMA OwnStep ==
  ASSUME SelectorInv, SubsInv, OwnInv, SetsTransitive, [Next]_vars
  PROVE  OwnInv'
<1>1. CASE UNCHANGED vars
  BY <1>1 DEF vars, graphVars, setVars, loopVars, OwnInv, NoneOwn, Joined, Sub, InputsOf
<1>2. QED
  BY <1>1, OwnQueue, OwnSettle, OwnMerge, OwnRecord DEF Next

\* AddDirectAntecedent keeps the sets transitive.
LEMMA AddTransitive ==
  ASSUME SetsTyped, SetsMirror, SetsTransitive,
         NEW s \in Layers, NEW t \in Layers, AddDirectAntecedent(s, t)
  PROVE  SetsTransitive'
<1>1. /\ rep[s] \in Layers /\ rep[t] \in Layers
      /\ \A x, y \in Layers : (y \in antes'[x]) <=>
           \/ y \in antes[x]
           \/ /\ x = rep[s] \/ rep[s] \in antes[x]
              /\ y = rep[t] \/ y \in antes[rep[t]]
  BY AddEffect
<1>2. antes' \in [Layers -> SUBSET Layers]
  <2> DEFINE new == {rep[t]} \cup antes[rep[t]]
             users == {rep[s]} \cup deps[rep[s]]
  <2>1. antes' = [x \in Layers |-> IF x \in users THEN antes[x] \cup new ELSE antes[x]]
    BY DEF AddDirectAntecedent
  <2>2. new \subseteq Layers
    BY <1>1 DEF SetsTyped
  <2>3. QED
    BY <2>1, <2>2 DEF SetsTyped
<1>3. \A x, y, z \in Layers : y \in antes[x] /\ z \in antes[y] => z \in antes[x]
  BY DEF SetsTransitive
<1>4. ASSUME NEW x \in Layers, NEW y \in Layers, NEW z \in Layers, y \in antes'[x], z \in antes'[y]
      PROVE  z \in antes'[x]
  <2>1. CASE y \in antes[x]
    BY <1>1, <1>3, <1>4, <2>1
  <2>2. CASE y \notin antes[x]
    BY <1>1, <1>3, <1>4, <2>2
  <2>3. QED
    BY <2>1, <2>2
<1>5. QED
  BY <1>2, <1>4 DEF SetsTransitive

\* A step that is no merge keeps the sets transitive.
LEMMA TransitiveStep ==
  ASSUME SelectorInv, SetsTransitive, [Next]_vars
  PROVE  SetsTransitive' \/ MergeInput
<1>1. CASE PutAside \/ Take \/ Settle \/ Finish \/ UNCHANGED vars
  BY <1>1 DEF PutAside, Take, Settle, Finish, vars, setVars, SetsTransitive
<1>2. CASE RecordInput
  <2>1. \/ UNCHANGED setVars
        \/ AddDirectAntecedent(subgraph[current], subgraph[inputs[current][slot]])
    BY <1>2 DEF RecordInput
  <2>2. subgraph[current] \in Layers /\ subgraph[inputs[current][slot]] \in Layers
    BY <1>2, SlotFacts, Facts DEF RecordInput, SelectorInv, InputsAreAssigned
  <2>3. CASE UNCHANGED setVars
    BY <2>3 DEF setVars, SetsTransitive
  <2>4. CASE AddDirectAntecedent(subgraph[current], subgraph[inputs[current][slot]])
    BY <2>2, <2>4, AddTransitive, Facts
  <2>5. QED
    BY <2>1, <2>3, <2>4
<1>3. QED
  BY <1>1, <1>2 DEF Next
------------------------------------------------------------------------------
\* A set of numbers has a least one.
LEMMA LeastNumber ==
  ASSUME NEW S, S \subseteq Nat, S # {}
  PROVE  \E m \in S : \A x \in S : m <= x
<1>1. IsWellFoundedOn(OpToRel(<, Nat), Nat)
  BY NatLessThanWellFounded
<1>2. \E m \in S : \A x \in S : <<x, m>> \notin OpToRel(<, Nat)
  BY <1>1, WFMin, Zenon
<1>3. PICK m \in S : \A x \in S : <<x, m>> \notin OpToRel(<, Nat)
  BY <1>2
<1>4. \A x \in S : ~(x < m)
  BY <1>3 DEF OpToRel
<1>5. QED
  BY <1>4

\* Dependencies that are transitive and of no subgraph on itself can be sorted.
LEMMA FirstOfMany ==
  ASSUME SelectorInv, NoneOwn, SetsTransitive, NEW M \in SUBSET Layers, M # {},
         \A l \in M : Sub(l) \in Layers
  PROVE  \E l \in M : \A k \in M :
           Sub(k) \notin antes[Sub(l)] /\ (antes[Sub(k)] = antes[Sub(l)] => l <= k)
<1> DEFINE F == {antes[Sub(l)] : l \in M}
<1>1. IsFiniteSet(Layers)
  BY SubgraphSelectorAssumption, FS_Interval DEF Layers
<1>2. F \subseteq FiniteSubsetsOf(Layers)
  <2> SUFFICES ASSUME NEW l \in M PROVE antes[Sub(l)] \in FiniteSubsetsOf(Layers)
    OBVIOUS
  <2>1. antes[Sub(l)] \in SUBSET Layers
    BY Facts DEF SetsTyped
  <2>2. IsFiniteSet(antes[Sub(l)])
    BY <1>1, <2>1, FS_Subset
  <2>3. QED
    BY <2>1, <2>2 DEF FiniteSubsetsOf
<1>3. F # {}
  OBVIOUS
<1>4. \E A \in F : \A B \in F : <<B, A>> \notin StrictSubsetOrdering(Layers)
  <2> HIDE DEF F
  <2> QED
    BY <1>2, <1>3, FS_StrictSubsetOrderingWellFounded, WFMin, Zenon
<1>5. PICK A \in F : \A B \in F : <<B, A>> \notin StrictSubsetOrdering(Layers)
  BY <1>4
<1>6. \A B \in F : ~(B \subseteq A /\ B # A)
  BY <1>2, <1>5 DEF StrictSubsetOrdering, FiniteSubsetsOf
<1> DEFINE G == {l \in M : antes[Sub(l)] = A}
<1>7. G \subseteq Nat /\ G # {}
  <2>1. Layers \subseteq Nat
    BY SubgraphSelectorAssumption DEF Layers
  <2>2. QED
    BY <2>1
<1>8. \E l \in G : \A x \in G : l <= x
  <2> HIDE DEF G, F
  <2> QED
    BY <1>7, LeastNumber
<1>9. PICK l \in G : \A x \in G : l <= x
  BY <1>8
<1>10. ASSUME NEW k \in M, Sub(k) \in antes[Sub(l)] PROVE FALSE
  <2>1. antes[Sub(k)] \subseteq A
    BY <1>10, <1>9 DEF SetsTransitive
  <2>2. antes[Sub(k)] # A
    BY <1>10, <1>9 DEF NoneOwn
  <2>3. QED
    BY <1>6, <2>1, <2>2
<1>11. QED
  BY <1>9, <1>10


\* The end of the walk: if what a set of dependencies holds is transitive and no
\* subgraph depends on itself, the units can be sorted.
LEMMA UnitsSorted ==
  ASSUME SelectorInv, SubsInv, NoneOwn, SetsTransitive,
         \A l \in Layers : l \in processed /\ subgraph[l] # None
  PROVE  Acyclic({Unit(l) : l \in Layers})
<1> SUFFICES ASSUME NEW K \in SUBSET {Unit(l) : l \in Layers}, K # {}
             PROVE  \E u \in K : \A v \in K \ {u} : ~Reads(u, v)
  BY DEF Acyclic
<1> DEFINE M == {l \in Layers : Unit(l) \in K}
<1>1. M \in SUBSET Layers /\ M # {}
  <2>1. PICK u \in K : TRUE
    OBVIOUS
  <2>2. PICK x \in Layers : u = Unit(x)
    BY <2>1
  <2>3. QED
    BY <2>1, <2>2
<1>2. \A l \in Layers : subgraph[l] \in Layers /\ Sub(l) \in Layers
  BY Facts DEF SetsTyped, Sub
<1>3. PICK l \in M : \A k \in M :
        Sub(k) \notin antes[Sub(l)] /\ (antes[Sub(k)] = antes[Sub(l)] => l <= k)
  <2>1. \E l \in M : \A k \in M :
          Sub(k) \notin antes[Sub(l)] /\ (antes[Sub(k)] = antes[Sub(l)] => l <= k)
    <3> HIDE DEF M
    <3> QED
      BY <1>1, <1>2, FirstOfMany
  <2>2. QED
    BY <2>1
<1>4. ASSUME NEW v \in K \ {Unit(l)}, Reads(Unit(l), v)
      PROVE  FALSE
  <2>1. PICK k \in Layers : v = Unit(k)
    OBVIOUS
  <2>2. PICK a \in Unit(l) : InputsOf(a) \cap v # {}
    BY <1>4 DEF Reads
  <2>3. PICK b \in InputsOf(a) : b \in Unit(k)
    BY <2>1, <2>2
  <2>4. selected \subseteq Layers
    BY DEF SelectorInv, TypeOK
  <2>5. /\ a \in Layers /\ b \in Layers
        /\ Unit(a) = Unit(l) /\ Unit(b) = v /\ Sub(a) = Sub(l)
        /\ a \in selected \/ a = l
    BY <2>1, <2>3, <2>4 DEF Unit, Sub
  <2>6. b \in M
    BY <2>5
  <2>7. Recorded(a, b)
    BY <2>5 DEF SelectorInv, InputsRecorded
  <2>8. Sub(b) = Sub(a)
    BY <1>3, <2>5, <2>6, <2>7 DEF Recorded, IsMergedWith, HasAntecedent, Sub
  <2>9. a \notin selected /\ b \notin selected
    <3>1. a \in selected <=> b \in selected
      BY <1>2, <2>5, <2>8 DEF SubsInv, Alike
    <3>2. CASE a \in selected /\ b \in selected
      <4>1. Unit(a) = Unit(b)
        BY <2>5, <2>8, <3>2 DEF Unit, Sub
      <4>2. QED
        BY <2>5, <4>1
    <3>3. QED
      BY <3>1, <3>2
  <2>10. l <= b /\ a = l
    BY <1>3, <2>5, <2>6, <2>8, <2>9
  <2>11. b < a
    <3>1. inputs[a] \in Seq(Layers) /\ \A i \in DOMAIN inputs[a] : inputs[a][i] < a
      BY <2>5, SubgraphSelectorAssumption DEF SelectorInv, TypeOK
    <3>2. QED
      BY <2>3, <3>1 DEF InputsOf
  <2>12. QED
    BY <2>5, <2>10, <2>11, SubgraphSelectorAssumption DEF Layers
<1>5. QED
  BY <1>3, <1>4
------------------------------------------------------------------------------
\* l is in a queue.
Listed(q, l) == \E i \in DOMAIN q : q[i] = l

\* A layer all of whose inputs are processed is in the queue until its turn.
Waiting ==
  \A l \in Layers \ processed :
    l # current /\ InputsOf(l) \subseteq processed => Listed(queue, l)

\* An order of a finite set leaves nothing out.
LEMMA OrdersCover ==
  ASSUME NEW S, IsFiniteSet(S), NEW s \in Orders(S), NEW x \in S
  PROVE  \E i \in DOMAIN s : s[i] = x
<1> DEFINE n == Cardinality(S)
<1>1. n \in Nat
  BY FS_CardinalityType
<1>2. s \in [1..n -> S] /\ \A i, j \in 1..n : s[i] = s[j] => i = j
  BY DEF Orders
<1>3. s \in Injection(1..n, S)
  <2> HIDE DEF n
  <2> QED
    BY <1>2 DEF Injection, IsInjective
<1>4. Cardinality(1..n) = n
  BY <1>1, FS_Interval
<1>5. s \in Surjection(1..n, S)
  BY <1>3, <1>4, FS_Injection
<1>6. QED
  BY <1>2, <1>5 DEF Surjection

\* What the turns of the queue do to its members.
LEMMA QueueLists ==
  ASSUME NEW q \in Seq(Layers), NEW c \in Seq(Layers), NEW l \in Layers
  PROVE  /\ q # <<>> /\ Listed(q, l) /\ l # Head(q) => Listed(Tail(q), l)
         /\ q # <<>> /\ Listed(q, l) => Listed(Append(Tail(q), Head(q)), l)
         /\ Listed(q, l) \/ Listed(c, l) => Listed(q \o c, l)
<1>1. ASSUME q # <<>>, Listed(q, l), l # Head(q) PROVE Listed(Tail(q), l)
  <2>1. PICK i \in DOMAIN q : q[i] = l
    BY <1>1 DEF Listed
  <2>2. i - 1 \in DOMAIN Tail(q) /\ Tail(q)[i - 1] = l
    BY <1>1, <2>1
  <2>3. QED
    BY <2>2 DEF Listed
<1>2. ASSUME q # <<>>, Listed(q, l) PROVE Listed(Append(Tail(q), Head(q)), l)
  <2>1. CASE l = Head(q)
    <3>1. Len(q) \in DOMAIN Append(Tail(q), Head(q)) /\ Append(Tail(q), Head(q))[Len(q)] = l
      BY <1>2, <2>1
    <3>2. QED
      BY <3>1 DEF Listed
  <2>2. CASE l # Head(q)
    <3>1. PICK i \in DOMAIN Tail(q) : Tail(q)[i] = l
      BY <1>1, <1>2, <2>2 DEF Listed
    <3>2. i \in DOMAIN Append(Tail(q), Head(q)) /\ Append(Tail(q), Head(q))[i] = l
      BY <1>2, <3>1
    <3>3. QED
      BY <3>2 DEF Listed
  <2>3. QED
    BY <2>1, <2>2
<1>3. ASSUME Listed(q, l) PROVE Listed(q \o c, l)
  BY <1>3 DEF Listed
<1>4. ASSUME Listed(c, l) PROVE Listed(q \o c, l)
  <2>1. PICK i \in DOMAIN c : c[i] = l
    BY <1>4 DEF Listed
  <2>2. Len(q) + i \in DOMAIN (q \o c) /\ (q \o c)[Len(q) + i] = l
    BY <2>1
  <2>3. QED
    BY <2>2 DEF Listed
<1>5. QED
  BY <1>1, <1>2, <1>3, <1>4

\* ForEachLayerOutput reaches every reader.
LEMMA ReadersAreChildren ==
  ASSUME inputs \in Graphs, NEW l \in Layers, NEW r \in Layers, l \in InputsOf(r),
         NEW c \in Children(l)
  PROVE  Listed(c, r)
<1>1. PICK s \in Orders(ConnectionsOf(l)) : c = [k \in DOMAIN s |-> s[k][1]]
  BY DEF Children
<1>2. PICK i \in DOMAIN inputs[r] : inputs[r][i] = l
  BY DEF InputsOf
<1>3. <<r, i>> \in ConnectionsOf(l)
  <2>1. <<r, i>> \in {r} \X {j \in DOMAIN inputs[r] : inputs[r][j] = l}
    BY <1>2
  <2>2. QED
    BY <2>1 DEF ConnectionsOf
<1>4. PICK k \in DOMAIN s : s[k] = <<r, i>>
  BY <1>3, ConnectionsFinite, OrdersCover
<1>5. QED
  BY <1>1, <1>4 DEF Listed

\* The walk begins with the layers that read nothing in the queue.
LEMMA WaitingInit == Init => Waiting
<1> SUFFICES ASSUME Init, NEW l \in Layers, InputsOf(l) \subseteq {}
             PROVE  Listed(queue, l)
  BY DEF Init, Waiting
<1> DEFINE S == {x \in Layers : IsInputLayer(inputs, x)}
<1>1. inputs[l] \in Seq(Layers)
  BY SubgraphSelectorAssumption DEF Init
<1>2. DOMAIN inputs[l] = {}
  BY DEF InputsOf
<1>3. l \in S
  <2>1. Len(inputs[l]) = 0
    <3>1. Len(inputs[l]) \in Nat /\ DOMAIN inputs[l] = 1..Len(inputs[l])
      BY <1>1
    <3>2. 1 \notin 1..Len(inputs[l])
      BY <1>2, <3>1
    <3>3. QED
      BY <3>1, <3>2
  <2>2. QED
    BY <1>1, <2>1 DEF IsInputLayer
<1>4. IsFiniteSet(S)
  <2>1. IsFiniteSet(Layers)
    BY SubgraphSelectorAssumption, FS_Interval DEF Layers
  <2>2. QED
    BY <2>1, FS_Subset
<1>5. queue \in Orders(S)
  BY DEF Init
<1>6. QED
  <2> HIDE DEF S
  <2> QED
    BY <1>3, <1>4, <1>5, OrdersCover DEF Listed

\* No turn of the walk forgets a layer that can be processed.
LEMMA WaitingStep ==
  ASSUME SelectorInv, SubsInv, Waiting, [Next]_vars
  PROVE  Waiting'
<1>0. queue \in Seq(Layers)
  BY DEF SelectorInv, TypeOK
<1>1. CASE PutAside
  <2>1. /\ queue # <<>>
        /\ \/ Head(queue) \in processed /\ queue' = Tail(queue)
           \/ queue' = Append(Tail(queue), Head(queue))
        /\ UNCHANGED <<graphVars, processed, loopVars>>
    BY <1>1 DEF PutAside
  <2>2. \A l \in Layers \ processed : Listed(queue, l) => Listed(queue', l)
    <3>1. Head(queue) \in Layers
      BY <1>0, <2>1
    <3>2. <<>> \in Seq(Layers)
      OBVIOUS
    <3>3. QED
      BY <1>0, <2>1, <3>1, <3>2, QueueLists
  <2>3. QED
    BY <2>1, <2>2 DEF Waiting, InputsOf, graphVars, loopVars, Listed
<1>2. CASE Take
  <2>1. /\ queue # <<>> /\ queue' = Tail(queue) /\ current' = Head(queue) /\ current = None
        /\ UNCHANGED <<graphVars, processed>>
    BY <1>2 DEF Take, SubsInv, CurrentIsNew
  <2>2. \A l \in Layers \ processed : l # current' => l # current /\ (Listed(queue, l) => Listed(queue', l))
    <3>1. <<>> \in Seq(Layers)
      OBVIOUS
    <3>2. QED
      BY <1>0, <2>1, <3>1, QueueLists, Facts
  <2>3. QED
    BY <2>1, <2>2 DEF Waiting, InputsOf, graphVars, Listed
<1>3. CASE MergeInput \/ Settle \/ RecordInput
  <2>1. UNCHANGED <<graphVars, queue, processed, current>>
    BY <1>3 DEF MergeInput, Settle, RecordInput
  <2>2. QED
    BY <2>1 DEF Waiting, InputsOf, graphVars, Listed
<1>4. CASE Finish
  <2>1. PICK c \in Children(current) : queue' = queue \o c
    BY <1>4 DEF Finish
  <2>2. /\ current \in Layers /\ current' = None
        /\ processed' = processed \cup {current}
        /\ UNCHANGED graphVars
    BY <1>4, Facts DEF Finish
  <2>3. inputs \in Graphs
    BY DEF SelectorInv, TypeOK
  <2>4. c \in Seq(Layers)
    BY <2>1, <2>2, <2>3, ChildrenAreLayers
  <2>5. ASSUME NEW l \in Layers \ processed', InputsOf(l) \subseteq processed'
        PROVE  Listed(queue', l)
    <3>1. CASE current \in InputsOf(l)
      <4>1. Listed(c, l)
        BY <2>1, <2>2, <2>3, <3>1, ReadersAreChildren
      <4>2. QED
        BY <1>0, <2>1, <2>4, <4>1, QueueLists
    <3>2. CASE current \notin InputsOf(l)
      <4>1. l # current /\ l \notin processed /\ InputsOf(l) \subseteq processed
        BY <2>2, <2>5, <3>2
      <4>2. Listed(queue, l)
        BY <4>1 DEF Waiting
      <4>3. QED
        BY <1>0, <2>1, <2>4, <4>2, QueueLists
    <3>3. QED
      BY <3>1, <3>2
  <2>6. \A l : InputsOf(l)' = InputsOf(l)
    BY <2>2 DEF InputsOf, graphVars
  <2>7. QED
    BY <2>5, <2>6 DEF Waiting, Listed
<1>5. CASE UNCHANGED vars
  BY <1>5 DEF vars, graphVars, loopVars, Waiting, InputsOf, Listed
<1>6. QED
  BY <1>1, <1>2, <1>3, <1>4, <1>5 DEF Next

\* Somewhere a layer can be processed, as long as one is not.
LEMMA SomeIsReady ==
  ASSUME SelectorInv, Layers \ processed # {}
  PROVE  \E l \in Layers \ processed : InputsOf(l) \subseteq processed
<1>1. Layers \subseteq Nat
  BY SubgraphSelectorAssumption DEF Layers
<1>2. PICK l \in Layers \ processed : \A x \in Layers \ processed : l <= x
  <2> DEFINE S == Layers \ processed
  <2>1. S \subseteq Nat /\ S # {}
    BY <1>1
  <2>2. \E l \in S : \A x \in S : l <= x
    <3> HIDE DEF S
    <3> QED
      BY <2>1, LeastNumber
  <2>3. QED
    BY <2>2
<1>3. ASSUME NEW q \in InputsOf(l) PROVE q \in processed
  <2>1. q \in Layers /\ q < l
    BY SubgraphSelectorAssumption, InputsAreLayers DEF InputsOf, SelectorInv, TypeOK
  <2>2. QED
    BY <1>1, <1>2, <2>1
<1>4. QED
  BY <1>3

\* An empty queue is the end of the walk.
LEMMA WalkEnds ==
  ASSUME SelectorInv, SubsInv, Waiting
  PROVE  WalkIsComplete
<1> SUFFICES ASSUME Done PROVE \A l \in Layers : l \in processed /\ subgraph[l] # None
  BY DEF WalkIsComplete
<1>1. current = None /\ queue = <<>>
  BY DEF Done, SubsInv, CurrentIsNew
<1>2. Layers \ processed = {}
  <2> SUFFICES ASSUME Layers \ processed # {} PROVE FALSE
    OBVIOUS
  <2>1. PICK l \in Layers \ processed : InputsOf(l) \subseteq processed
    BY SomeIsReady
  <2>2. l # current
    BY <1>1, Facts
  <2>3. QED
    BY <1>1, <2>1, <2>2 DEF Waiting, Listed
<1>3. QED
  BY <1>2 DEF SelectorInv, InputsAreAssigned
\* What holds all along the walk, of any graph.
LEMMA WalkInvariant == Spec => [](SelectorInv /\ SubsInv /\ Waiting)
<1>1. Init => SubsInv /\ Waiting
  BY SubsInit, WaitingInit
<1>2. SelectorInv /\ SubsInv /\ Waiting /\ [Next]_vars => SubsInv' /\ Waiting'
  BY SubsStep, WaitingStep
<1>3. QED
  BY <1>1, <1>2, SelectorInvariant, PTL DEF Spec
------------------------------------------------------------------------------
\* Where in the queue a layer is that will not be put back.
Serviceable ==
  {i \in DOMAIN queue : queue[i] \in processed \/ InputsOf(queue[i]) \subseteq processed}

\* The least of a set of numbers.
First(S) == IF S = {} THEN 0 ELSE CHOOSE m \in S : \A x \in S : m <= x

\* What is left of the walk: the layers, the loops over the one in AssignSplitId, the
\* queue or the input slots, and the turns of the queue till one is of use.
LayersLeft == N - Cardinality(processed)
LoopsLeft == CASE pc = "pop" -> 2 [] pc = "merge" -> 1 [] OTHER -> 0
WorkLeft == IF pc = "pop" THEN Len(queue) ELSE Len(inputs[current]) + 1 - slot
TurnsLeft == IF pc = "pop" THEN First(Serviceable) ELSE 0
Measure == <<LayersLeft, LoopsLeft, WorkLeft, TurnsLeft>>

\* The four numbers in the order of importance.
Less == LexProductOrdering(OpToRel(<, Nat), Nat, 4)
\* Every step of the walk leaves less.
Descends == <<Measure', Measure>> \in Less
WalkDescends == [][Descends]_vars

\* First finds the least number, if there is one.
LEMMA FirstIsLeast ==
  ASSUME NEW S, S \subseteq Nat
  PROVE  /\ First(S) \in Nat
         /\ \A x \in S : First(S) \in S /\ First(S) <= x
<1>1. CASE S = {}
  BY <1>1 DEF First
<1>2. CASE S # {}
  <2>1. \E m \in S : \A x \in S : m <= x
    BY <1>2, LeastNumber
  <2>2. First(S) \in S /\ \A x \in S : First(S) <= x
    BY <1>2, <2>1 DEF First
  <2>3. QED
    BY <2>2
<1>3. QED
  BY <1>1, <1>2

\* What is left is counted in numbers.
MeasureTyped ==
  /\ LayersLeft \in Nat /\ LoopsLeft \in Nat /\ WorkLeft \in Nat /\ TurnsLeft \in Nat
  /\ Serviceable \subseteq Nat
  /\ IsFiniteSet(processed) /\ Cardinality(processed) \in Nat

\* MeasureTyped, in every state of the walk.
LEMMA MeasureType == SelectorInv => MeasureTyped
<1> SUFFICES ASSUME SelectorInv PROVE MeasureTyped
  OBVIOUS
<1>1. IsFiniteSet(processed) /\ Cardinality(processed) \in Nat /\ Cardinality(processed) <= N
  <2>1. IsFiniteSet(Layers) /\ Cardinality(Layers) = N
    BY SubgraphSelectorAssumption, FS_Interval DEF Layers
  <2>2. processed \in SUBSET Layers
    BY DEF SelectorInv, TypeOK
  <2>3. QED
    BY <2>1, <2>2, FS_Subset, FS_CardinalityType
<1>2. LayersLeft \in Nat
  BY <1>1, SubgraphSelectorAssumption DEF LayersLeft
<1>3. LoopsLeft \in Nat
  BY DEF LoopsLeft
<1>4. queue \in Seq(Layers) /\ Len(queue) \in Nat
  BY DEF SelectorInv, TypeOK
<1>5. Serviceable \subseteq Nat
  BY <1>4 DEF Serviceable
<1>6. TurnsLeft \in Nat
  BY <1>5, FirstIsLeast DEF TurnsLeft
<1>7. WorkLeft \in Nat
  <2>1. CASE pc = "pop"
    BY <1>4, <2>1 DEF WorkLeft
  <2>2. CASE pc # "pop"
    <3>1. current \in Layers /\ slot \in 1..(Len(inputs[current]) + 1)
      BY <2>2 DEF SelectorInv, InputsAreAssigned, SlotInRange
    <3>2. inputs[current] \in Seq(Layers)
      BY <3>1, SubgraphSelectorAssumption DEF SelectorInv, TypeOK
    <3>3. Len(inputs[current]) \in Nat
      BY <3>2
    <3>4. QED
      BY <2>2, <3>1, <3>3 DEF WorkLeft
  <2>3. QED
    BY <2>1, <2>2
<1>8. QED
  BY <1>1, <1>2, <1>3, <1>5, <1>6, <1>7 DEF MeasureTyped

\* A turn that puts a layer back brings the next one of use nearer.
LEMMA TurnDescends ==
  ASSUME SelectorInv, SubsInv, Waiting, MeasureTyped, MeasureTyped', PutAside
  PROVE  \/ WorkLeft' < WorkLeft
         \/ WorkLeft' = WorkLeft /\ TurnsLeft' < TurnsLeft
<1>1. /\ pc = "pop" /\ pc' = "pop" /\ current = None
      /\ queue \in Seq(Layers) /\ queue # <<>> /\ Len(queue) \in Nat
      /\ UNCHANGED <<graphVars, processed>>
  BY DEF PutAside, SubsInv, CurrentIsNew, SelectorInv, TypeOK, loopVars
<1>2. CASE queue' = Tail(queue)
  <2>1. Len(queue') = Len(queue) - 1
    BY <1>1, <1>2
  <2>2. QED
    BY <1>1, <2>1 DEF WorkLeft
<1>3. CASE /\ Head(queue) \notin processed
           /\ ~(InputsOf(Head(queue)) \subseteq processed)
           /\ queue' = Append(Tail(queue), Head(queue))
  <2>1. Len(queue') = Len(queue)
    BY <1>1, <1>3
  <2>2. PICK l \in Layers \ processed : InputsOf(l) \subseteq processed
    <3>1. Head(queue) \in Layers
      BY <1>1
    <3>2. QED
      BY <1>3, <3>1, SomeIsReady
  <2>3. PICK k \in DOMAIN queue : queue[k] = l
    BY <1>1, <2>2, Facts DEF Waiting, Listed
  <2>4. k \in Serviceable
    BY <2>2, <2>3 DEF Serviceable
  <2> DEFINE m == First(Serviceable)
  <2>5. m \in Serviceable /\ m \in Nat
    BY <2>4, FirstIsLeast DEF MeasureTyped
  <2>6. m # 1 /\ m \in 1..Len(queue)
    BY <1>1, <1>3, <2>5 DEF Serviceable
  <2>7. m - 1 \in DOMAIN queue' /\ queue'[m - 1] = queue[m]
    <3> HIDE DEF m
    <3> QED
      BY <1>1, <1>3, <2>5, <2>6
  <2>8. \A x : InputsOf(x)' = InputsOf(x)
    BY <1>1 DEF InputsOf, graphVars
  <2>9. m - 1 \in Serviceable'
    <3> HIDE DEF m
    <3> QED
      BY <1>1, <2>5, <2>7, <2>8 DEF Serviceable
  <2>10. Serviceable' \subseteq Nat
    BY DEF MeasureTyped
  <2>11. First(Serviceable') <= m - 1 /\ First(Serviceable') \in Nat
    BY <2>9, <2>10, FirstIsLeast
  <2>12. TurnsLeft = m /\ TurnsLeft' = First(Serviceable')
    BY <1>1 DEF TurnsLeft, First
  <2>13. WorkLeft' = WorkLeft
    BY <1>1, <2>1 DEF WorkLeft
  <2>14. TurnsLeft' < TurnsLeft
    <3> HIDE DEF m
    <3> QED
      BY <2>5, <2>11, <2>12
  <2>15. QED
    BY <2>13, <2>14
<1>4. QED
  BY <1>2, <1>3 DEF PutAside, IsReadyForSplitAssignment

\* Every step of the walk leaves less.
LEMMA StepDescends ==
  ASSUME SelectorInv, SubsInv, Waiting, MeasureTyped, MeasureTyped', Next
  PROVE  \/ LayersLeft' < LayersLeft
         \/ /\ LayersLeft' = LayersLeft
            /\ \/ LoopsLeft' < LoopsLeft
               \/ /\ LoopsLeft' = LoopsLeft
                  /\ \/ WorkLeft' < WorkLeft
                     \/ WorkLeft' = WorkLeft /\ TurnsLeft' < TurnsLeft
<1>1. CASE PutAside
  BY <1>1, TurnDescends DEF PutAside, LayersLeft, LoopsLeft, loopVars
<1>2. CASE Take \/ Settle
  BY <1>2 DEF Take, Settle, LayersLeft, LoopsLeft
<1>3. CASE MergeInput \/ RecordInput
  <2>1. /\ slot' = slot + 1 /\ pc' = pc /\ pc \in {"merge", "record"}
        /\ slot \in DOMAIN inputs[current]
        /\ UNCHANGED <<graphVars, processed, current>>
    BY <1>3 DEF MergeInput, RecordInput
  <2>2. inputs[current] \in Seq(Layers)
    BY <2>1, SlotFacts
  <2>3. WorkLeft' < WorkLeft
    BY <2>1, <2>2 DEF WorkLeft, graphVars
  <2>4. QED
    BY <2>1, <2>3 DEF LayersLeft, LoopsLeft
<1>4. CASE Finish
  <2>1. processed' = processed \cup {current} /\ current \notin processed
    BY <1>4 DEF Finish, SubsInv, CurrentIsNew
  <2>2. Cardinality(processed') = Cardinality(processed) + 1
    BY <2>1, FS_AddElement DEF MeasureTyped
  <2>3. QED
    BY <2>2, SubgraphSelectorAssumption DEF LayersLeft, MeasureTyped
<1>5. QED
  BY <1>1, <1>2, <1>3, <1>4 DEF Next

\* StepDescends, of the four numbers as one.
LEMMA DescentIsLess ==
  ASSUME SelectorInv, SubsInv, Waiting, MeasureTyped, MeasureTyped', Next
  PROVE  <<Measure', Measure>> \in Less
<1>1. Measure \in [1..4 -> Nat] /\ Measure' \in [1..4 -> Nat]
  <2>1. \A a, b, c, d \in Nat : <<a, b, c, d>> \in Seq(Nat) /\ Len(<<a, b, c, d>>) = 4
    OBVIOUS
  <2>2. \A s \in Seq(Nat) : s \in [1..Len(s) -> Nat]
    OBVIOUS
  <2>3. \A a, b, c, d \in Nat : <<a, b, c, d>> \in [1..4 -> Nat]
    <3> SUFFICES ASSUME NEW a \in Nat, NEW b \in Nat, NEW c \in Nat, NEW d \in Nat
                 PROVE  <<a, b, c, d>> \in [1..4 -> Nat]
      OBVIOUS
    <3> DEFINE s == <<a, b, c, d>>
    <3>1. s \in Seq(Nat) /\ Len(s) = 4
      BY <2>1
    <3> HIDE DEF s
    <3>2. s \in [1..4 -> Nat]
      BY <2>2, <3>1
    <3>3. QED
      BY <3>2 DEF s
  <2>4. QED
    BY <2>3 DEF Measure, MeasureTyped
<1>2. \E j \in 1..4 :
        /\ \A i \in 1..(j - 1) : Measure'[i] = Measure[i]
        /\ Measure'[j] < Measure[j]
  <2>1. /\ Measure[1] = LayersLeft /\ Measure[2] = LoopsLeft
        /\ Measure[3] = WorkLeft /\ Measure[4] = TurnsLeft
        /\ Measure'[1] = LayersLeft' /\ Measure'[2] = LoopsLeft'
        /\ Measure'[3] = WorkLeft' /\ Measure'[4] = TurnsLeft'
    BY DEF Measure
  <2>2. CASE LayersLeft' < LayersLeft
    <3>1. 1 \in 1..4 /\ \A i \in 1..(1 - 1) : FALSE
      OBVIOUS
    <3>2. QED
      BY <2>1, <2>2, <3>1
  <2>3. CASE LayersLeft' = LayersLeft /\ LoopsLeft' < LoopsLeft
    <3>1. 2 \in 1..4 /\ \A i \in 1..(2 - 1) : i = 1
      OBVIOUS
    <3>2. QED
      BY <2>1, <2>3, <3>1
  <2>4. CASE LayersLeft' = LayersLeft /\ LoopsLeft' = LoopsLeft /\ WorkLeft' < WorkLeft
    <3>1. 3 \in 1..4 /\ \A i \in 1..(3 - 1) : i = 1 \/ i = 2
      OBVIOUS
    <3>2. QED
      BY <2>1, <2>4, <3>1
  <2>5. CASE /\ LayersLeft' = LayersLeft /\ LoopsLeft' = LoopsLeft /\ WorkLeft' = WorkLeft
             /\ TurnsLeft' < TurnsLeft
    <3>1. 4 \in 1..4 /\ \A i \in 1..(4 - 1) : i = 1 \/ i = 2 \/ i = 3
      OBVIOUS
    <3>2. QED
      BY <2>1, <2>5, <3>1
  <2>6. QED
    BY <2>2, <2>3, <2>4, <2>5, StepDescends
<1>3. \A j \in 1..4 : Measure[j] \in Nat /\ Measure'[j] \in Nat
  BY <1>1
<1> HIDE DEF Measure
<1>4. \A a, b \in Nat : a < b => <<a, b>> \in OpToRel(<, Nat)
  BY DEF OpToRel
<1>5. QED
  BY <1>1, <1>2, <1>3, <1>4 DEF Less, LexProductOrdering
------------------------------------------------------------------------------
\* The while loop of SelectSubgraphs ends with an empty queue only when it has processed
\* every layer and given it a subgraph: the safety half of EveryLayerAssigned.
THEOREM WalkIsCompleteHolds == Spec => []WalkIsComplete
<1>1. SelectorInv /\ SubsInv /\ Waiting => WalkIsComplete
  BY WalkEnds
<1>2. QED
  BY <1>1, WalkInvariant, PTL

\* AddDirectAntecedent keeps the sets of antecedents transitive, and so does every other
\* step: what the comment of m_Antecedents says of them is lost in MergeWith alone.
THEOREM OnlyMergesForgetHolds == Spec => OnlyMergesForget
<1>1. SelectorInv /\ [Next]_vars => [SetsTransitive => SetsTransitive' \/ MergeInput]_vars
  BY TransitiveStep
<1>2. QED
  BY <1>1, SelectorInvariant, PTL DEF Spec, OnlyMergesForget

\* The check before a merge is enough if the sets are transitive, as the comment of
\* m_Antecedents says they are: then, for every graph, selection and order of the walk,
\* the subgraphs can be sorted.  What run subgraphs_merge shows (a cycle) takes a merge
\* that leaves them less than that.
THEOREM AcyclicWhileTransitive == Spec => ([]SetsTransitive => []SubgraphsAcyclic)
<1>1. Init => OwnInv
  BY OwnInit
<1>2. SelectorInv /\ SubsInv /\ OwnInv /\ SetsTransitive /\ [Next]_vars => OwnInv'
  BY OwnStep
<1>3. SelectorInv /\ SubsInv /\ Waiting /\ OwnInv /\ SetsTransitive => SubgraphsAcyclic
  BY UnitsSorted, WalkEnds DEF SubgraphsAcyclic, WalkIsComplete, OwnInv
<1>4. QED
  BY <1>1, <1>2, <1>3, WalkInvariant, PTL DEF Spec

\* Every step of the while loop of SelectSubgraphs leaves less to do, in the order of
\* NoEndlessDescent: the layer put back on the queue is never put back for ever.
THEOREM WalkDescendsHolds == Spec => WalkDescends
<1>1. /\ SelectorInv /\ SubsInv /\ Waiting /\ MeasureTyped /\ MeasureTyped' /\ [Next]_vars
      => [Descends]_vars
  BY DescentIsLess DEF Descends
<1>2. QED
  BY <1>1, MeasureType, WalkInvariant, PTL DEF Spec, WalkDescends

\* There is no endless descent in that order: with WalkDescendsHolds, the loop ends, and
\* by WalkIsCompleteHolds with every layer assigned.
THEOREM NoEndlessDescent == IsWellFoundedOn(Less, [1..4 -> Nat])
BY NatLessThanWellFounded, WFLexProductOrdering DEF Less
==============================================================================
