---------------------------- MODULE MCPDBWorkerQueue ----------------------------
(* Small instances of PDBWorkerQueue for TLC. *)
EXTENDS PDBWorkerQueue, TLC

CONSTANTS w1, w2, t1, t2, j1, j2

MCWorkers == {w1, w2}
MCCallers == {t1, t2}
MCTwoJobs == {j1, j2}
=============================================================================
