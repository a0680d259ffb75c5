---------------------------- MODULE MCPushRecord ----------------------------
(* Instances of SFPushRecord for TLC: one job of each kind, as max_instances
   makes them, and a person at the dashboard. *)
EXTENDS SFPushRecord

\* A bound of push_record: once a person has acted about an outbound bill,
\* Kingdee answers every status query and no validator has the bill in hand.
OnePersonOnly ==
  Outbound /\ calls > 0 => outages = 0 /\ \A v \in Validators : pc[v] = "idle"
=============================================================================
