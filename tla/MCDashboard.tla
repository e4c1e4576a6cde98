------------------------------- MODULE MCDashboard -------------------------------
(* The dashboard's instance for TLC: every topic, patches of one field. *)
EXTENDS Dashboard

AllTopics == {"accounts", "connect", "refresh", "picker", "agents", "automations"}
OneField == {{"link"}, {"media"}, {"active"}}

=============================================================================
