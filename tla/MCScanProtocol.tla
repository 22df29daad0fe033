----------------------------- MODULE MCScanProtocol -----------------------------
(* Small instances of ScanProtocol for TLC. *)
EXTENDS ScanProtocol, TLC

CONSTANTS w1, w2, p1, p2, p3

MCWorkers == {w1, w2}
MCPages == {p1, p2, p3}
MCListed == (w1 :> <<p1, p2>>) @@ (w2 :> <<p3>>)

=============================================================================
