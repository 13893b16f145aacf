------------------------------ MODULE MCMining ------------------------------
(* Searches over a few nonces.  From MaxNonce on every nonce is a solution  *)
(* or none is.                                                              *)
EXTENDS ChunkedMining

mcSolutions == {3} \cup MaxNonce .. MaxNonce + CpuChunk + GpuChunk

mcSomeOrNone == {mcSolutions, {}}
mcSome == {mcSolutions}
mcNone == {{}}

\* What is not so, of a cancellation that comes before the first kernel of the
\* process has loaded the extension.
EveryCancelEndsWorkers ==
    \A s \in Searches :
        search[s].phase = "searching" /\ cancel ~> search[s].phase # "searching"
=============================================================================
