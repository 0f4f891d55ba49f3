---------------------------- MODULE MCCoordinator ----------------------------
(* Instances of Coordinator for TLC. *)
EXTENDS CoordinatorSlot, TLC

\* Object ids are interchangeable; used by the runs that check no liveness.
Symmetry == Permutations(Clients) \cup Permutations(Listeners) \cup Permutations(Sessions)
            \cup Permutations(StopTasks)

\* Without symmetry: start from one choice of ids, the others only rename it.
LiveInit == /\ Init
            /\ client = CHOOSE c \in Clients : TRUE
            /\ vip \in {None, CHOOSE l \in Listeners : TRUE}

LiveSpec == LiveInit /\ [][Next]_vars /\ Fairness /\ DeviceReachable
==============================================================================
