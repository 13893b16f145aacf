------------------------------ MODULE MCCloud ------------------------------
(* The launcher's environment with small batches, and blocks one by one      *)
(* with a verification and a file every two blocks.                         *)
EXTENDS CloudNative

Environment(batch, verify, trust, persist, backend, incoming) ==
    [ batch |-> batch, verify |-> verify, trust |-> trust, persist |-> persist,
      backend |-> backend, incoming |-> incoming ]

mcSettings ==
    { Environment(2, 0, TRUE, 0, "gpu", TRUE),
      Environment(1, 2, TRUE, 2, "auto", FALSE) }

mcDialOnly == { Environment(1, 0, TRUE, 0, "auto", FALSE) }
=============================================================================
