-------------------------- MODULE MCPageCircularBuffer --------------------------
(* Two producers and two consumers.  Five pages over a ring of three places *)
(* fill it, wrap around it and run both branches of the notification.          *)
EXTENDS PageCircularBuffer, TLC

CONSTANTS p1, p2, c1, c2, g1, g2, g3, g4, g5

MCProducers == {p1, p2}
MCConsumers == {c1, c2}
MCPages5 == {g1, g2, g3, g4, g5}

\* Pages are interchangeable: it is enough to look at the behaviours in which
\* they are added in this order (in place of a symmetry, which liveness rules out).
MCOrder == <<g1, g2, g3, g4, g5>>
MCAddedInOrder == added' = {MCOrder[i] : i \in 1 .. Cardinality(added')}

=============================================================================
