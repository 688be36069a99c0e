--------------------------- MODULE MCSubgraphSelector ---------------------------
(* Small graphs for SubgraphSelector. *)
EXTENDS SubgraphSelector

\* The graphs of five layers with one input, in which the others read one or two
\* layers, and those with two inputs, in which the others read two.
One(l) == {<<p>> : p \in 1..(l - 1)}
Two(l) == {s \in (1..(l - 1)) \X (1..(l - 1)) : s[1] # s[2]}
With(graphs, slots) == {Append(g, s) : g \in graphs, s \in slots}
SmallGraphs ==
  With(With(With({<< <<>>, <<1>> >>}, One(3) \cup Two(3)), One(4) \cup Two(4)),
       One(5) \cup Two(5))
    \cup With(With(With({<< <<>>, <<>> >>}, Two(3)), Two(4)), Two(5))

\* One graph of eight layers, to be seen with 2, 3, 6, 7 and 8 selected:
\*   1 -> 2 -> 4,  1 -> 3 -> 5,  6 reads 5 and 2,  7 reads 4 and 2,  8 reads 3 and 7
LateMerge == {<< <<>>, <<1>>, <<1>>, <<2>>, <<3>>, <<5, 2>>, <<4, 2>>, <<3, 7>> >>}
=============================================================================
