----------------------------- MODULE EngineLease -----------------------------
(***************************************************************************)
(* What the Windows service promises about the engine, whatever happens to *)
(* either process (client/native/service_main.cpp): there is at most one,  *)
(* and it runs only while the service does.                                *)
(***************************************************************************)
VARIABLES
    service,    \* what the service control manager knows of the service
    lease       \* the engine of the service, if there is one

LeaseInit == service = "running" /\ lease = "none"

Launch ==
    /\ service # "stopped"
    /\ lease = "none"
    /\ lease' = "quiet"
    /\ UNCHANGED service

\* The engine begins or ceases to answer.
Ready == lease = "quiet" /\ lease' = "ready" /\ UNCHANGED service
Silent == lease = "ready" /\ lease' = "quiet" /\ UNCHANGED service

\* It ends by itself, is stopped, or is given up.
End == lease # "none" /\ lease' = "none" /\ UNCHANGED service

Ask == service = "running" /\ service' = "stop pending" /\ UNCHANGED lease

\* The service stops or crashes, and the engine with it.
Down == service # "stopped" /\ service' = "stopped" /\ lease' = "none"

Up == service = "stopped" /\ service' = "running" /\ UNCHANGED lease

LeaseNext == Launch \/ Ready \/ Silent \/ End \/ Ask \/ Down \/ Up

LeaseSpec == LeaseInit /\ [][LeaseNext]_<<service, lease>>

=============================================================================
