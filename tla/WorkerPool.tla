------------------------------- MODULE WorkerPool -------------------------------
(***************************************************************************)
(* What a pool of workers promises: a piece of work is done by one worker, *)
(* once; a worker does one piece of work at a time, leaves only when it    *)
(* has none, and ends what it was given.                                   *)
(***************************************************************************)
CONSTANTS Workers, Jobs, Nothing, Idle, Gone

VARIABLES does,      \* what each worker does
          finished   \* the jobs that were done

Init == does = [w \in Workers |-> Idle] /\ finished = {}

Give(w, j) ==
  /\ does[w] = Idle
  /\ j \in Jobs => j \notin finished /\ \A v \in Workers : does[v] # j
  /\ does' = [does EXCEPT ![w] = j]
  /\ UNCHANGED finished

Finish(w) ==
  /\ does[w] \in Jobs \cup {Nothing}
  /\ does' = [does EXCEPT ![w] = Idle]
  /\ finished' = finished \cup ({does[w]} \cap Jobs)

Leave(w) ==
  /\ does[w] = Idle
  /\ does' = [does EXCEPT ![w] = Gone]
  /\ UNCHANGED finished

Next == \E w \in Workers : (\E j \in Jobs \cup {Nothing} : Give(w, j)) \/ Finish(w) \/ Leave(w)

Spec == Init /\ [][Next]_<<does, finished>>

GivenWorkEnds == \A j \in Jobs : (\E w \in Workers : does[w] = j) ~> j \in finished

LiveSpec == Spec /\ GivenWorkEnds

=============================================================================
