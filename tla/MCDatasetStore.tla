-------------------------- MODULE MCDatasetStore --------------------------
(* DatasetStore on a small instance: one id has a dataset, one has none.   *)
EXTENDS DatasetStore, TLC

CONSTANTS a, b, j1, j2, e1,
    MaxBusy    \* bound: how many goroutines have a dataset in hand at a time

\* The jobs may be exchanged.
Symmetry == Permutations(Jobs)

Busy == {j \in Jobs : Running(j)} \cup {e \in Exports : held[e] # None}

FewBusy == Cardinality(Busy) <= MaxBusy
=============================================================================
