----------------------------- MODULE MCMqttMgr -----------------------------
(***************************************************************************)
(* The instance of MqttMgr for TLC: one area, one zone, and one payload: a *)
(* command on the control topic of the area, a key on the other.           *)
(***************************************************************************)
EXTENDS MqttMgr

OneArea == {"area1"}
OneZone == {"zone1"}
Said == {"DISARM"}

=============================================================================
