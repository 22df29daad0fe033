------------------------------ MODULE MCPDBServer ------------------------------
(* Small instances of PDBServer for TLC. *)
EXTENDS PDBServer, TLC

CONSTANTS w1, w2, w3, c1, c2

MCTwo == {w1, w2}
MCThree == {w1, w2, w3}
MCCallers == {listener}
MCConns == {c1, c2}
MCJobs == Conns \cup Requests
MCHandled == {"handled"}
MCAllKinds == {"handled", "unknown", "shutDown"}

\* Workers and connections are interchangeable in the safety runs.
MCSymmetry == Permutations(Workers) \cup Permutations(Conns)

=============================================================================
