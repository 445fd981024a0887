----------------------------- MODULE MCSupervisor -----------------------------
(* Three of the four services, one of each kind: pipeline is like storage. *)
EXTENDS Supervisor

ThreeServices == <<"storage", "ingestion", "serving">>

=============================================================================
