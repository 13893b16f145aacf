------------------------------ MODULE MCTuning ------------------------------
(* Three machines: with a GPU, with a GPU of unknown properties, without.   *)
EXTENDS Tuning, TLC

RatesOf(hybrid, gpu) == [c \in DOMAIN hybrid |-> [hybrid |-> hybrid[c], gpu |-> gpu[c]]]

mcRate ==
    (Launch :> RatesOf(<<1, 2, 1, 2>>, <<2, 0, 1, 1>>)) @@
    (Multiplier :> RatesOf(<<2, 1>>, <<0, 0>>)) @@
    (GpuWorkers :> RatesOf(<<1, 1>>, <<0, 0>>)) @@
    (CpuWorkers :> RatesOf(<<1, 2, 1>>, <<0, 0, 0>>))

\* No worker count of the GPU works.
mcMachines ==
    {[gpu |-> TRUE, properties |-> TRUE, rate |-> mcRate],
     [gpu |-> TRUE, properties |-> FALSE,
      rate |-> [mcRate EXCEPT ![GpuWorkers] = RatesOf(<<0, 0>>, <<0, 0>>)]],
     [gpu |-> FALSE, properties |-> FALSE, rate |-> mcRate]}

mcRetriedCount == [s \in Sections |-> IF s = Multiplier THEN 1 ELSE 2]

Symmetry == Permutations(Threads)
=============================================================================
