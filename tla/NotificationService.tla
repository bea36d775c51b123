------------------------- MODULE NotificationService -------------------------
(***************************************************************************)
(* What the library promises to the holder of an event handle, with no     *)
(* semaphore and no ssimsg: events are merged but neither lost nor made up.*)
(***************************************************************************)
EXTENDS Naturals

VARIABLES
  holding,  \* the caller holds a handle
  credit,   \* how many more waits may return an event
  owed      \* an event occurred since the handle was obtained or last
            \* returned one

service == <<holding, credit, owed>>

Init == ~holding /\ credit = 0 /\ ~owed

(* SsiGetEventHandle.  Events that a process which died left behind may be *)
(* returned to the next holder.                                            *)
Get == ~holding /\ holding' /\ UNCHANGED <<credit, owed>>

(* SsiFreeEventHandle or SsiFinalize: nothing is left behind.              *)
GiveUp == holding /\ ~holding' /\ credit' = 0 /\ ~owed'

(* The holder dies.                                                        *)
Die == holding /\ ~holding' /\ credit' = credit /\ ~owed'

(* Something has changed in the system.                                    *)
Occurs == credit' = credit + 1 /\ owed' = holding /\ UNCHANGED holding

(* An event is merged into another one.                                    *)
Merge == credit > 1 /\ credit' = credit - 1 /\ UNCHANGED <<holding, owed>>

(* SsiEventWait returns SSI_StatusOk.                                      *)
Deliver == holding /\ credit > 0 /\ credit' = credit - 1 /\ ~owed' /\ UNCHANGED holding

Next == Get \/ GiveUp \/ Die \/ Occurs \/ Merge \/ Deliver

Spec == Init /\ [][Next]_service
=============================================================================
