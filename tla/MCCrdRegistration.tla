-------------------------- MODULE MCCrdRegistration --------------------------
(* Instances of CrdRegistration for TLC: the two definitions of            *)
(* BrokerConfigTypes (pkg/model/config/store.go:128-131).                  *)
EXTENDS CrdRegistration

CONSTANTS p1, p2, classes, plans

BrokerConfigTypes == <<classes, plans>>
=============================================================================
