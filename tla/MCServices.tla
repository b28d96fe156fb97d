----------------------------- MODULE MCServices -----------------------------
(***************************************************************************)
(* Model checking of Services on a small instance.                         *)
(***************************************************************************)
EXTENDS Services

\* The pending ring of a HIP kernel stream is tested again when it holds more
\* than one kernel; a CUDA stream gets copies, which end on two vendor queues,
\* and is filled by two threads; the host serves two streams in turn.
MCPlugins == [
    cuda |-> [NS |-> 1, Kern |-> FALSE, Count |-> 2, ConcKernel |-> 0, MaxOps |-> 4],
    hip |-> [NS |-> 1, Kern |-> TRUE, Count |-> 2, ConcKernel |-> 1, MaxOps |-> 5],
    host |-> [NS |-> 2, Kern |-> FALSE, Count |-> 2, ConcKernel |-> 0, MaxOps |-> 4]]
MCGpuSets == {{1, 3}}
=============================================================================
