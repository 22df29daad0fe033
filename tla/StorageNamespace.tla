---------------------------- MODULE StorageNamespace ----------------------------
(***************************************************************************)
(* The databases and sets of one storage server                            *)
(* (serverFunctionalities/source/PangeaStorageServer.cc), for one database *)
(* name and one set name.  Handlers of a server run at the same time and   *)
(* test names without a lock, so an operation takes several steps: step    *)
(* maps the tables of the server and a handler to what they are after the  *)
(* handler's next step.                                                    *)
(***************************************************************************)
EXTENDS Integers

NoId == 0
NoIds == <<NoId, NoId>>

\* dbSeq and setSeq are the last ids of databaseSeqId and of usersetSeqIds[database];
\* the latter is there if and only if name2id is.
emptyServer ==
  [name2id |-> NoId, dbs |-> {}, dbSeq |-> 0, setSeq |-> 0,
   names2ids |-> NoIds, userSets |-> {}]

\* ids: the database and the set that the handler is about to insert or erase
newHandler(op) == [op |-> op, pc |-> op, ids |-> NoIds, ans |-> FALSE]

getSet(s) == IF s.names2ids \in s.userSets THEN s.names2ids ELSE NoIds

Then(h, pc, ids) == [h EXCEPT !.pc = pc, !.ids = ids]
Answer(h, res) == [h EXCEPT !.pc = "answer", !.ids = NoIds, !.ans = res]
Result(s, h) == [server |-> s, handler |-> h]

-----------------------------------------------------------------------------

newDatabase(s, h) ==
  Result([s EXCEPT !.dbSeq = @ + 1], Then(h, "insertDatabase", <<s.dbSeq + 1, NoId>>))

addDatabase(s, h) ==
  IF s.name2id # NoId THEN Result(s, Answer(h, FALSE)) ELSE newDatabase(s, h)

\* insert leaves an entry that is there as it is; addSet goes on where it was.
insertDatabase(s, h) ==
  Result([s EXCEPT !.dbs = @ \cup {h.ids[1]},
                   !.name2id = IF @ = NoId THEN h.ids[1] ELSE @],
         IF h.op = "addDatabase" THEN Answer(h, TRUE) ELSE Then(h, "addSet", NoIds))

\* An id is taken before the name is looked up.
addSet(s, h) ==
  LET id == s.setSeq + 1
      taken == [s EXCEPT !.setSeq = id]
  IN  IF s.name2id = NoId THEN newDatabase(s, h)
      ELSE IF getSet(s) # NoIds THEN Result(taken, Answer(h, FALSE))
      ELSE Result(taken, Then(h, "insertSet", <<s.name2id, id>>))

insertSet(s, h) ==
  Result([s EXCEPT !.userSets = @ \cup {h.ids},
                   !.names2ids = IF @ = NoIds THEN h.ids ELSE @],
         Answer(h, TRUE))

removeSet(s, h) ==
  IF getSet(s) = NoIds THEN Result(s, Answer(h, FALSE))
  ELSE Result(s, Then(h, "eraseSet", getSet(s)))

\* Mutant: the set stays in userSets.
erased_NameOnly(s, ids) == [s EXCEPT !.names2ids = NoIds]

\* Mutant: the name stays in names2ids.
erased_SetOnly(s, ids) == [s EXCEPT !.userSets = @ \ {ids}]

erased(s, ids) == [s EXCEPT !.userSets = @ \ {ids}, !.names2ids = NoIds]

\* Nothing is erased, and TRUE is answered, if the database is gone.
eraseSet(s, h) ==
  Result(IF h.ids[1] \in s.dbs THEN erased(s, h.ids) ELSE s,
         IF h.op = "removeSet" THEN Answer(h, TRUE) ELSE Then(h, "addSet", NoIds))

\* The sets of the database stay in the tables.
removeDatabase(s, h) ==
  IF s.name2id = NoId THEN Result(s, Answer(h, FALSE))
  ELSE Result([s EXCEPT !.dbs = @ \ {s.name2id}, !.name2id = NoId, !.setSeq = 0],
              Answer(h, TRUE))

step(s, h) ==
  CASE h.pc = "addDatabase"    -> addDatabase(s, h)
    [] h.pc = "insertDatabase" -> insertDatabase(s, h)
    [] h.pc = "addSet"         -> addSet(s, h)
    [] h.pc = "insertSet"      -> insertSet(s, h)
    [] h.pc \in {"removeSet", "clearSet"} -> removeSet(s, h)
    [] h.pc = "eraseSet"       -> eraseSet(s, h)
    [] h.pc = "removeDatabase" -> removeDatabase(s, h)

\* The handler has looked at the tables and is not through yet.
Inside(h) == h.pc \notin {h.op, "answer"}

\* The set is there and its database too.
Usable(s) == getSet(s) # NoIds /\ getSet(s)[1] \in s.dbs

=============================================================================
