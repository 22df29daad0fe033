------------------------------ MODULE MCPageCache ------------------------------
(* Small instances of PageCache for TLC. *)
EXTENDS PageCache, TLC

CONSTANTS c1, c2, c3, p1, p2, p3, q1, q2

MCTwoClients == {c1, c2}
MCThreeClients == {c1, c2, c3}
MCPages2 == {p1, p2}
MCPages3 == {p1, p2, p3}
MCOneConsumer == {q1}
MCTwoConsumers == {q1, q2}

Unpin == {"unpin"}
UnpinDecRef == {"unpin", "decRef"}
FlushExport == {"flush", "export"}

\* Clients, pages and flush threads are interchangeable in the safety runs.
MCSymmetry == Permutations(Clients) \cup Permutations(Pages) \cup Permutations(Consumers)

=============================================================================
