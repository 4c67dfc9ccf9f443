-------------------------- MODULE KafkaLifecycle --------------------------
(***************************************************************************)
(* What the life of a Kafka request looks like from outside: its status,   *)
(* whether it was handed to a data plane cluster (deployed) and whether    *)
(* its routes have been created (exposed).  KafkaRequests implements this  *)
(* when handlers do not overlap.                                           *)
(*                                                                         *)
(* The promises: deletion, once begun, is never undone; a Kafka that is on *)
(* a cluster is removed only after the cluster has let go of it            *)
(* ("deleting"); only a Kafka whose routes exist serves; a suspended Kafka *)
(* comes back only through "resuming".                                     *)
(***************************************************************************)

VARIABLES status, deployed, exposed

life == <<status, deployed, exposed>>

Move(from, to) ==
    /\ status \in from /\ status' = to
    /\ UNCHANGED <<deployed, exposed>>

Init == status = "absent" /\ deployed = FALSE /\ exposed = FALSE

Register == Move({"absent"}, "accepted")
Place == Move({"accepted"}, "preparing")
Suspend == Move({"accepted", "preparing", "provisioning", "ready", "resuming"},
                "suspending")
Suspended == Move({"suspending"}, "suspended")
Resume == Move({"suspended"}, "resuming")

Serve ==
    /\ deployed /\ exposed
    /\ Move({"provisioning", "failed", "resuming"}, "ready")

\* A failure may leave the host behind, so that the cluster gets the Kafka.
Fail ==
    /\ status \in {"accepted", "preparing", "provisioning", "ready", "resuming"}
    /\ status' = "failed"
    /\ deployed' \in {deployed, status = "preparing" \/ deployed}
    /\ UNCHANGED exposed

Provision ==
    /\ status = "preparing" /\ status' = "provisioning"
    /\ deployed' = TRUE
    /\ UNCHANGED exposed

\* A full cluster gives the Kafka back; another one takes it.
Reassign ==
    /\ status = "provisioning"
    /\ deployed' = ~deployed
    /\ UNCHANGED <<status, exposed>>

Expose ==
    /\ status \in {"provisioning", "ready", "failed", "suspending", "suspended",
                  "resuming"}
    /\ exposed' = TRUE
    /\ UNCHANGED <<status, deployed>>

Deprovision ==
    Move({"accepted", "preparing", "provisioning", "ready", "failed",
          "suspending", "suspended", "resuming", "deleting"}, "deprovision")

Leave == deployed /\ Move({"deprovision"}, "deleting")

Remove ==
    \/ Move({"deleting"}, "deleted")
    \/ ~deployed /\ Move({"deprovision"}, "deleted")

Next ==
    \/ Register \/ Place \/ Provision \/ Reassign \/ Expose \/ Serve \/ Fail
    \/ Suspend \/ Suspended \/ Resume \/ Deprovision \/ Leave \/ Remove

Spec == Init /\ [][Next]_life
=============================================================================
