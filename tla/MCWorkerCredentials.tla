------------------------- MODULE MCWorkerCredentials -------------------------
(* Small instances of WorkerCredentials for TLC. *)
EXTENDS WorkerCredentials

CONSTANTS t1, t2, t3, t4

ThreeTokens == {t1, t2, t3}
FourTokens == {t1, t2, t3, t4}

Always == {TRUE}
Either == {TRUE, FALSE}
=============================================================================
