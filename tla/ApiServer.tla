------------------------------ MODULE ApiServer ------------------------------
(***************************************************************************)
(* The Kubernetes API server as pkg/platform/kube/crd/client.go uses it:   *)
(* the storage behind the config store.  It is not part of the repository; *)
(* every operator is modelled from the requests the client sends and from  *)
(* the contract documented in pkg/model/config/store.go:25-51.             *)
(*                                                                         *)
(* The server is a log of writes.  The n-th write has revision n, an       *)
(* object lives at the revision of the last write of its key, and a read   *)
(* may be answered from an older prefix of the log.                        *)
(***************************************************************************)
EXTENDS Naturals, Sequences

CONSTANTS
    Types,      \* the resource types the server serves
    Names,      \* names of objects: a namespace and a name in it
    NoObject    \* what a key holds when it holds no object

VARIABLE log    \* log[n] is the write of revision n

Keys == Types \X Names

(***************************************************************************)
(* The revision of the last write of key k among the first n writes, 0     *)
(* when there is none.                                                     *)
(***************************************************************************)
IsLastWrite(i, n, k) == /\ i # 0 => log[i].key = k
                        /\ \A j \in (i+1)..n : log[j].key # k

RevisionAt(n, k) == CHOOSE i \in 0..n : IsLastWrite(i, n, k)

ObjectAt(n, k) == IF RevisionAt(n, k) = 0 THEN NoObject ELSE log[RevisionAt(n, k)].obj

RevisionOf(k) == RevisionAt(Len(log), k)

ObjectOf(k) == ObjectAt(Len(log), k)

Live(k) == ObjectOf(k) # NoObject

(***************************************************************************)
(* Optimistic concurrency of the three mutators.  A new object carries no  *)
(* revision (store.go:66-68); an update names the revision it replaces,    *)
(* compared by equality (store.go:44-48), and one without a revision is    *)
(* unconditional; a delete has no precondition.                            *)
(***************************************************************************)
Accepts(verb, k, rev) ==
    \/ verb = "POST"   /\ ~Live(k) /\ rev = 0
    \/ verb = "PUT"    /\ Live(k)  /\ rev \in {0, RevisionOf(k)}
    \/ verb = "DELETE" /\ Live(k)

Write(k, obj, by) == log' = Append(log, [key |-> k, obj |-> obj, by |-> by])
=============================================================================
