-------------------------- MODULE MCDistributedStorage --------------------------
(* Small instances of DistributedStorage for TLC. *)
EXTENDS DistributedStorage

CONSTANTS n1, n2

MCNodes == {n1, n2}
MCUnreliable == {n1}

Request(client, no, op) == [client |-> client, no |-> no, op |-> op]

AddDatabase == Request(1, 1, "addDatabase")
AddSet == Request(1, 2, "addSet")
ClearSet == Request(1, 3, "clearSet")
RemoveSet == Request(1, 4, "removeSet")
RemoveDatabase == Request(1, 5, "removeDatabase")
AddDatabase2 == Request(1, 6, "addDatabase")
AddSet2 == Request(1, 7, "addSet")
OtherAddSet == Request(2, 1, "addSet")
OtherRemoveSet == Request(2, 2, "removeSet")

MCRequests == {AddDatabase, AddSet, ClearSet, RemoveSet, RemoveDatabase, AddDatabase2,
               AddSet2, OtherAddSet, OtherRemoveSet}

MCWorkloads ==
  { {AddDatabase, AddSet, ClearSet, RemoveSet},
    {AddDatabase, AddSet, RemoveDatabase, AddDatabase2, AddSet2},
    {AddDatabase, AddSet, OtherAddSet},
    {AddDatabase, AddSet, OtherRemoveSet} }

=============================================================================
