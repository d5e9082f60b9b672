----------------------------- MODULE MCStreamIngest -----------------------------
(* Two connectors, two streams, three event ids; batches overlap and hold   *)
(* ids in opposite orders, so that they deduplicate, wait and deadlock.     *)
EXTENDS StreamIngest, TLC

CONSTANTS e1, e2, e3, k1, k2

MCBatches == {<<e1>>, <<e1, e2>>, <<e2, e1>>, <<e2, e3>>, <<e3, e3>>}

ConnectorSymmetry == Permutations(Connectors)
=============================================================================
