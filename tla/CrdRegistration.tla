--------------------------- MODULE CrdRegistration ---------------------------
(***************************************************************************)
(* RegisterResources and DeregisterResources of crd.Client                 *)
(* (pkg/platform/kube/crd/client.go:171-255): processes that share a       *)
(* cluster create the custom resource definitions of the descriptor, check *)
(* that the cluster has established them and roll back when it has not.    *)
(* Every call to the cluster is a step of its own; it may fail, having     *)
(* taken effect or not, and a process may die between two of them.  Making *)
(* a clientset, which each method begins with, shares nothing: it is a     *)
(* step of its own only when it fails.                                     *)
(***************************************************************************)
EXTENDS Naturals, Sequences

CONSTANTS
    Processes,
    CRDs,
    Descriptor,   \* the definitions in the order of cl.descriptor
    MaxFaults     \* bound on API errors and crashes

VARIABLES
    crd,      \* state of each definition in the cluster
    pc,       \* the loop each process is in
    next,     \* index in the descriptor of its next API call
    err,      \* whether its last Create said AlreadyExists
    errs,     \* what DeregisterResources has accumulated
    calls,    \* the method the process runs, or has run last
    result,   \* what that method returned
    faults,   \* API errors and crashes so far
    saw,      \* definitions the process has found established in this call
    gone,     \* definitions that have been absent during this call, or, once
              \* it has begun to roll back, since then
    deletes,  \* what this call's delete of each definition has returned
    steady    \* all definitions were established when this call began, it has
              \* met no fault and no other process has deleted any since

vars == <<crd, pc, next, err, errs, calls, result, faults, saw, gone, deletes, steady>>
control == <<pc, next, err, errs, calls, result>>

ASSUME CrdRegistrationAssumption ==
    /\ Descriptor \in Seq(CRDs) /\ Descriptor # << >>
    /\ \A i, j \in DOMAIN Descriptor : Descriptor[i] = Descriptor[j] => i = j
    /\ \A n \in CRDs : \E i \in DOMAIN Descriptor : Descriptor[i] = n
    /\ MaxFaults \in Nat

Untried == [n \in CRDs |-> "none"]

-----------------------------------------------------------------------------
\* Mistake: a nil error does not count, as DeregisterResources seems to expect.
AppendSkippingNil(e, new) == IF new = "nil" THEN e ELSE "error"

(* multierror.Append returns an error value even when it is given nil alone. *)
MultierrorAppend(e, new) == "error"

\* Mistake: the loop runs one step too far.
LastPastEnd(p) == next[p] = Len(Descriptor) + 1

Last(p) == next[p] = Len(Descriptor)

Current(p) == Descriptor[next[p]]

Advance(p, loop) ==
    /\ next' = [next EXCEPT ![p] = IF Last(p) THEN 1 ELSE @ + 1]
    /\ pc' = [pc EXCEPT ![p] = IF Last(p) THEN loop ELSE @]

Return(p, e) ==
    /\ pc' = [pc EXCEPT ![p] = "idle"]
    /\ next' = [next EXCEPT ![p] = 1]
    /\ result' = [result EXCEPT ![p] = e]

Fault == faults < MaxFaults /\ faults' = faults + 1

(* The ghosts of all processes after process p has changed the cluster.    *)
Watch(p, fault) ==
    /\ gone' = [q \in Processes |-> gone[q] \cup {n \in CRDs : crd'[n] = "absent"}]
    /\ steady' = [q \in Processes |->
                    steady[q] /\ IF q = p THEN ~fault
                                 ELSE \A n \in CRDs : crd'[n] = "absent" => crd[n] = "absent"]

Start(p, method, loop) ==
    /\ pc[p] = "idle"
    /\ pc' = [pc EXCEPT ![p] = loop]
    /\ calls' = [calls EXCEPT ![p] = method]
    /\ err' = [err EXCEPT ![p] = "nil"]
    /\ errs' = [errs EXCEPT ![p] = "nil"]
    /\ result' = [result EXCEPT ![p] = "none"]
    /\ saw' = [saw EXCEPT ![p] = {}]
    /\ gone' = [gone EXCEPT ![p] = {n \in CRDs : crd[n] = "absent"}]
    /\ deletes' = [deletes EXCEPT ![p] = Untried]
    /\ steady' = [steady EXCEPT ![p] = \A n \in CRDs : crd[n] = "established"]
    /\ UNCHANGED <<crd, next, faults>>

RegisterResources(p)   == Start(p, "register", "create")
DeregisterResources(p) == Start(p, "deregister", "delete")

-----------------------------------------------------------------------------
(* The first loop: Create, tolerating AlreadyExists (client.go:178-200).   *)

\* Mistake: AlreadyExists is an error like any other.
CreateStrictly(p) ==
    /\ pc[p] = "create"
    /\ err' = [err EXCEPT ![p] = IF crd[Current(p)] = "absent" THEN "nil" ELSE "exists"]
    /\ crd' = [crd EXCEPT ![Current(p)] = IF @ = "absent" THEN "pending" ELSE @]
    /\ IF err'[p] = "exists" THEN Return(p, "exists") ELSE Advance(p, "poll") /\ UNCHANGED result
    /\ Watch(p, FALSE)
    /\ UNCHANGED <<errs, calls, faults, saw, deletes>>

Create(p) ==
    /\ pc[p] = "create"
    /\ err' = [err EXCEPT ![p] = IF crd[Current(p)] = "absent" THEN "nil" ELSE "exists"]
    /\ crd' = [crd EXCEPT ![Current(p)] = IF @ = "absent" THEN "pending" ELSE @]
    /\ Advance(p, "poll")
    /\ Watch(p, FALSE)
    /\ UNCHANGED <<errs, calls, result, faults, saw, deletes>>

(* Any other error returns at once: the definitions created so far stay.   *)
CreateFails(p) ==
    /\ pc[p] = "create" /\ Fault
    /\ \/ UNCHANGED crd
       \/ crd[Current(p)] = "absent" /\ crd' = [crd EXCEPT ![Current(p)] = "pending"]
    /\ Return(p, "error")
    /\ Watch(p, TRUE)
    /\ UNCHANGED <<err, errs, calls, saw, deletes>>

-----------------------------------------------------------------------------
(* The condition wait.Poll evaluates (client.go:203-228): one Get for each *)
(* definition.  A definition that is not established makes the condition   *)
(* return an error, which ends the poll.                                   *)

CheckEstablished(p) ==
    /\ pc[p] = "poll" /\ crd[Current(p)] = "established"
    /\ IF Last(p) THEN Return(p, "nil") ELSE Advance(p, "poll") /\ UNCHANGED result
    /\ saw' = [saw EXCEPT ![p] = @ \cup {Current(p)}]
    /\ UNCHANGED <<crd, err, errs, calls, faults, gone, deletes, steady>>

(* errPoll is not nil: DeregisterResources runs, errPoll itself is dropped. *)
RollBack(p) ==
    /\ pc' = [pc EXCEPT ![p] = "delete"]
    /\ next' = [next EXCEPT ![p] = 1]
    /\ gone' = [gone EXCEPT ![p] = {n \in CRDs : crd[n] = "absent"}]
    /\ UNCHANGED <<crd, err, errs, calls, result, saw, deletes>>

\* Mistake: wait for the definition, without a limit.
CheckMissingWaits(p) ==
    pc[p] = "poll" /\ crd[Current(p)] # "established" /\ UNCHANGED vars

CheckMissing(p) ==
    /\ pc[p] = "poll" /\ crd[Current(p)] # "established"
    /\ RollBack(p)
    /\ UNCHANGED <<faults, steady>>

CheckFails(p) ==
    /\ pc[p] = "poll" /\ Fault
    /\ RollBack(p)
    /\ steady' = [steady EXCEPT ![p] = FALSE]

-----------------------------------------------------------------------------
(* The loop of DeregisterResources (client.go:249-254), which goes on      *)
(* after an error, and the returns of both methods.                        *)

Outcome(p, e) ==
    CASE calls[p] = "deregister"            -> e
      [] calls[p] = "register" /\ e # "nil" -> MultierrorAppend(err[p], e)
      [] OTHER                              -> err[p]

(***************************************************************************)
(* NewForConfig fails: RegisterResources returns its error (lines 172-175) *)
(* and so does DeregisterResources, called or run as the rollback, before  *)
(* it has deleted anything (lines 243-246).                                *)
(***************************************************************************)
NewForConfigFails(p) ==
    /\ pc[p] \in {"create", "delete"} /\ next[p] = 1 /\ Fault
    /\ Return(p, IF pc[p] = "create" THEN "error" ELSE Outcome(p, "error"))
    /\ steady' = [steady EXCEPT ![p] = FALSE]
    /\ UNCHANGED <<crd, err, errs, calls, saw, gone, deletes>>

Tries(p, answer) == deletes' = [deletes EXCEPT ![p][Current(p)] = answer]

Finish(p) ==
    IF Last(p) THEN Return(p, Outcome(p, errs'[p])) ELSE Advance(p, "delete") /\ UNCHANGED result

Delete(p) ==
    /\ pc[p] = "delete"
    /\ errs' = [errs EXCEPT ![p] =
                 MultierrorAppend(@, IF crd[Current(p)] = "absent" THEN "error" ELSE "nil")]
    /\ crd' = [crd EXCEPT ![Current(p)] = "absent"]
    /\ Tries(p, "done") /\ Finish(p)
    /\ Watch(p, FALSE)
    /\ UNCHANGED <<err, calls, faults, saw>>

\* Mistake: the first error ends the loop.
DeleteGivesUp(p) ==
    /\ pc[p] = "delete" /\ Fault
    /\ UNCHANGED crd \/ crd' = [crd EXCEPT ![Current(p)] = "absent"]
    /\ errs' = [errs EXCEPT ![p] = "error"]
    /\ Tries(p, "failed") /\ Return(p, "error")
    /\ Watch(p, TRUE)
    /\ UNCHANGED <<err, calls, saw>>

DeleteFails(p) ==
    /\ pc[p] = "delete" /\ Fault
    /\ UNCHANGED crd \/ crd' = [crd EXCEPT ![Current(p)] = "absent"]
    /\ errs' = [errs EXCEPT ![p] = MultierrorAppend(@, "error")]
    /\ Tries(p, "failed") /\ Finish(p)
    /\ Watch(p, TRUE)
    /\ UNCHANGED <<err, calls, saw>>

-----------------------------------------------------------------------------
(* The cluster establishes a definition whose names are accepted, in its   *)
(* own time; one with a name conflict is never established.                *)
Establish ==
    /\ \E n \in CRDs : crd[n] = "pending" /\ crd' = [crd EXCEPT ![n] = "established"]
    /\ UNCHANGED <<control, faults, saw, gone, deletes, steady>>

(* The process dies and is started again.                                  *)
Crash(p) ==
    /\ pc[p] # "idle" /\ Fault
    /\ Return(p, "none")
    /\ UNCHANGED <<crd, err, errs, calls, saw, gone, deletes, steady>>

Init ==
    /\ crd = [n \in CRDs |-> "absent"]
    /\ pc = [p \in Processes |-> "idle"]
    /\ next = [p \in Processes |-> 1]
    /\ err = [p \in Processes |-> "nil"]
    /\ errs = [p \in Processes |-> "nil"]
    /\ calls = [p \in Processes |-> "none"]
    /\ result = [p \in Processes |-> "none"]
    /\ faults = 0
    /\ saw = [p \in Processes |-> {}]
    /\ gone = [p \in Processes |-> {}]
    /\ deletes = [p \in Processes |-> Untried]
    /\ steady = [p \in Processes |-> FALSE]

Step(p) == \/ NewForConfigFails(p)
           \/ Create(p) \/ CreateFails(p)
           \/ CheckEstablished(p) \/ CheckMissing(p) \/ CheckFails(p)
           \/ Delete(p) \/ DeleteFails(p)

Next == \/ \E p \in Processes : RegisterResources(p) \/ DeregisterResources(p) \/ Step(p) \/ Crash(p)
        \/ Establish

(* A process that is not idle goes on, and the API server answers it.      *)
Fairness == \A p \in Processes : WF_vars(Step(p))

Spec == Init /\ [][Next]_vars /\ Fairness

-----------------------------------------------------------------------------
(* Properties *)

Errors == {"nil", "error"}

\* Every variable holds a value of its type.
TypeOK ==
    /\ crd \in [CRDs -> {"absent", "pending", "established"}]
    /\ pc \in [Processes -> {"idle", "create", "poll", "delete"}]
    /\ next \in [Processes -> 1..Len(Descriptor)]
    /\ err \in [Processes -> {"nil", "exists"}]
    /\ errs \in [Processes -> Errors]
    /\ calls \in [Processes -> {"none", "register", "deregister"}]
    /\ result \in [Processes -> Errors \cup {"none", "exists"}]
    /\ faults \in 0..MaxFaults
    /\ saw \in [Processes -> SUBSET CRDs] /\ gone \in [Processes -> SUBSET CRDs]
    /\ deletes \in [Processes -> [CRDs -> {"none", "done", "failed"}]]
    /\ steady \in [Processes -> BOOLEAN]

Registered(p) == calls[p] = "register" /\ result[p] = "nil"

(***************************************************************************)
(* RegisterResources returns nil only if it has itself found every         *)
(* definition established.  A poll that failed is never reported as nil,   *)
(* though errPoll is dropped and the error of the last Create is usually   *)
(* nil: the rollback returns an error even when every delete succeeds      *)
(* (client.go:230-238, 252).                                               *)
(***************************************************************************)
NilMeansEstablished == \A p \in Processes : Registered(p) => saw[p] = CRDs

(***************************************************************************)
(* Registering again on a cluster where everything is established, with no *)
(* API error and no process deleting definitions, succeeds and takes       *)
(* nothing away, whatever other processes register meanwhile.              *)
(***************************************************************************)
RegisteringAgainIsHarmless ==
    \A p \in Processes : calls[p] = "register" /\ steady[p] =>
        result[p] \in {"none", "nil"} /\ pc[p] # "delete"

(* A definition whose delete has been tried: it has failed, or the         *)
(* definition was absent at some time since the deletes began.             *)
Settled(p, n) ==
    \/ deletes[p][n] = "failed"
    \/ deletes[p][n] = "done" /\ n \in gone[p]

(***************************************************************************)
(* A delete that fails does not keep DeregisterResources from deleting the *)
(* other definitions, whether it is called or run as the rollback of       *)
(* RegisterResources, whatever other processes create, delete and get      *)
(* wrong meanwhile, and its failure is reported (client.go:230-238,        *)
(* 248-254).  A call that deletes nothing at all is a registration or an   *)
(* error: DeregisterResources without a clientset (lines 243-246).         *)
(***************************************************************************)
DeregisterTriesAll ==
    \A p \in Processes : result[p] # "none" =>
        \/ deletes[p] = Untried /\ (calls[p] = "register" \/ result[p] = "error")
        \/ /\ \A n \in CRDs : Settled(p, n)
           /\ (\E n \in CRDs : deletes[p][n] = "failed") => result[p] = "error"

(***************************************************************************)
(* Both methods return, however the cluster and other processes behave:    *)
(* the poll does not outlive a definition that is never established.       *)
(***************************************************************************)
CallsReturn == \A p \in Processes : pc[p] # "idle" ~> pc[p] = "idle"

(***************************************************************************)
(* With one process and no API errors, RegisterResources "sends a request  *)
(* to create CRDs and waits for them to initialize" (client.go:171): it    *)
(* does not fail because they are not established yet.                     *)
(***************************************************************************)
WaitsForEstablishment ==
    \A p \in Processes : calls[p] = "register" => result[p] \in {"none", "nil"}

(***************************************************************************)
(* With one process and no API errors, deleting definitions that are all   *)
(* there is not reported as a failure, as RegisterResources expects when   *)
(* it tests deleteErr (client.go:231-235).                                 *)
(***************************************************************************)
CleanDeregisterSucceeds ==
    \A p \in Processes : calls[p] = "deregister" /\ steady[p] => result[p] # "error"
=============================================================================
