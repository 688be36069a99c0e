----------------------------- MODULE MCAsyncExecute -----------------------------
(* A small network for AsyncExecute: the inputs 11 and 12, three workloads,   *)
(* and the outputs 21, 22 and 23.                                             *)
EXTENDS AsyncExecute, TLC

Three == 1..3

\* 1 reads both inputs, 2 reads 11 twice, and 3 reads 12 and the tensor of 1.
Slots == << <<11, 12>>, <<11, 11>>, <<12, 1>> >>

\* The tensors of 2 and 3 are outputs; that of 2 under two names.
Ends == [o \in {21, 22, 23} |-> IF o = 21 THEN 3 ELSE 2]

\* The tensor of 2 fits into the memory of the input 12.
Sizes == [x \in {1, 2, 3, 11, 12} |-> IF x \in {1, 12} THEN 2 ELSE 1]

\* Both memory sources or none, and one of them.
AllSources == Sources

\* What the theorems about the data assume holds of this network.
ASSUME NetworkAssumption == InputsRead /\ OnlyExported

Handles == Permutations(Callers)
=============================================================================
