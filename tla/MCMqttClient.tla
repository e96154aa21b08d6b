---------------------------- MODULE MCMqttClient ----------------------------
(* Instances of MqttClient for TLC. *)
EXTENDS MqttClient

CONSTANTS a, b   \* topic filters

TwoFilters == {<<a, b>>}
TwoProfiles == {<<a>>, <<b>>}
OneFilter == {<<a>>}
=============================================================================
