------------------------------- MODULE MCCatalog -------------------------------
(* Small instances of Catalog for TLC. *)
EXTENDS Catalog

CONSTANTS w1, w2, t1, t2

MCWorkers == {w1, w2}
MCMembers == {w1}
MCTypes == {t1, t2}

Register1 == [client |-> 1, no |-> 1, op |-> "registerType", type |-> t1]
Register2 == [client |-> 1, no |-> 2, op |-> "registerType", type |-> t2]
CreateDatabase == [client |-> 2, no |-> 1, op |-> "createDatabase"]
CreateSet == [client |-> 2, no |-> 2, op |-> "createSet", type |-> t2]
DeleteDatabase == [client |-> 2, no |-> 3, op |-> "deleteDatabase"]
DeleteSet == [client |-> 3, no |-> 1, op |-> "deleteSet"]
Join == [client |-> 4, no |-> 1, op |-> "sync", node |-> w2]

MCRequests ==
  {Register1, Register2, CreateDatabase, CreateSet, DeleteDatabase, DeleteSet, Join}

\* A worker joins while types are registered, or while a set is created and deleted;
\* a set of a type that is not known yet is created while types are registered.
MCWorkloads ==
  { {Join, Register1, Register2},
    {Join, CreateDatabase, CreateSet, DeleteSet},
    {Register1, Register2, CreateDatabase, CreateSet, DeleteDatabase} }

=============================================================================
