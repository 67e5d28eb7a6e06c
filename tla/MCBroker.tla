------------------------------ MODULE MCBroker ------------------------------
(* Instances of Broker for TLC. *)
EXTENDS Broker, MCBrokerCatalog

CONSTANT k1

TwoBuilds == {{ServiceClass, ServicePlan}, {ServiceClass}}
=============================================================================
