-------------------------- MODULE MCEventSemaphore --------------------------
(* Instances of EventSemaphore for TLC. *)
EXTENDS EventSemaphore, TLC

(* Interchangeable identities, for the runs that check safety only. *)
Symmetry == Permutations(Clients) \cup Permutations(Threads)
              \cup Permutations(Objs) \cup Permutations(Posters)
=============================================================================
