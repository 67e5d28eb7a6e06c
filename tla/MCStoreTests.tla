---------------------------- MODULE MCStoreTests ----------------------------
(* The instance of StoreTests that client_test.go runs: CheckMapInvariant  *)
(* and CheckBrokerConfigTypes on one cluster (client_test.go:94-104).      *)
EXTENDS StoreTests

CONSTANTS t1, t2

TestNames == (Tests \cup {NoNamespace}) \X (Elements \cup {invalid, missing, example})
=============================================================================
