------------------------ MODULE CrdRegistrationProofs ------------------------
(***************************************************************************)
(* Proofs about CrdRegistration, for every number of processes and faults  *)
(* and every descriptor.  Whatever is claimed of a call is a claim about   *)
(* the definitions its loop has passed, the first next[p] - 1 of the       *)
(* descriptor; a loop that ends has passed all of them.                    *)
(***************************************************************************)
EXTENDS CrdRegistration, TLAPS

PassedBefore(k) == {Descriptor[i] : i \in 1..k - 1}
Passed(p) == PassedBefore(next[p])

AllEstablished == \A n \in CRDs : crd[n] = "established"

(* Which loop belongs to which method, and when there is a result.         *)
InCall(p) ==
    /\ pc[p] \in {"create", "poll"} => calls[p] = "register"
    /\ pc[p] = "delete" => calls[p] \in {"register", "deregister"}
    /\ pc[p] # "idle" => result[p] = "none"
    /\ pc[p] = "idle" => next[p] = 1

(* The poll has seen what it has passed.                                   *)
Found(p) ==
    /\ pc[p] = "poll" => Passed(p) \subseteq saw[p]
    /\ Registered(p) => saw[p] = CRDs

(* A steady call meets established definitions only, and so succeeds.      *)
Undisturbed(p) ==
    /\ steady[p] /\ pc[p] \in {"create", "poll"} => AllEstablished
    /\ steady[p] /\ calls[p] = "register" => result[p] \in {"none", "nil"} /\ pc[p] # "delete"

(* The deletes have settled what the loop has passed, and nothing else.    *)
Tried(p) ==
    /\ pc[p] \in {"create", "poll"} => deletes[p] = Untried
    /\ pc[p] = "delete" =>
          \A n \in CRDs : IF n \in Passed(p) THEN Settled(p, n) ELSE deletes[p][n] = "none"
    /\ result[p] # "none" =>
          \/ deletes[p] = Untried /\ (calls[p] = "register" \/ result[p] = "error")
          \/ (\A n \in CRDs : Settled(p, n)) /\ result[p] = "error"

Local(p) == InCall(p) /\ Found(p) /\ Undisturbed(p) /\ Tried(p)

(* The inductive invariant.                                                *)
IInv == TypeOK /\ \A p \in Processes : Local(p)

-----------------------------------------------------------------------------
(* The descriptor *)

(***************************************************************************)
(* A loop over the descriptor passes one definition after the other, and   *)
(* all that there are.                                                     *)
(***************************************************************************)
LEMMA DescriptorIsPassed ==
    /\ Len(Descriptor) \in Nat \ {0}
    /\ \A k \in 1..Len(Descriptor) :
          /\ Descriptor[k] \in CRDs
          /\ PassedBefore(k + 1) = PassedBefore(k) \cup {Descriptor[k]}
    /\ PassedBefore(1) = {}
    /\ PassedBefore(Len(Descriptor) + 1) = CRDs
<1>1. /\ Len(Descriptor) \in Nat \ {0} /\ DOMAIN Descriptor = 1..Len(Descriptor)
      /\ \A k \in 1..Len(Descriptor) : Descriptor[k] \in CRDs
  BY CrdRegistrationAssumption
<1>2. ASSUME NEW k \in 1..Len(Descriptor)
      PROVE  PassedBefore(k + 1) = PassedBefore(k) \cup {Descriptor[k]}
  <2>1. 1..k = 1..k - 1 \cup {k} /\ (k + 1) - 1 = k
    BY <1>1
  <2>. QED  BY <2>1 DEF PassedBefore
<1>3. PassedBefore(1) = {}
  BY DEF PassedBefore
<1>4. PassedBefore(Len(Descriptor) + 1) = CRDs
  <2>1. (Len(Descriptor) + 1) - 1 = Len(Descriptor)
    BY <1>1
  <2>2. PassedBefore(Len(Descriptor) + 1) = {Descriptor[i] : i \in 1..Len(Descriptor)}
    BY <2>1 DEF PassedBefore
  <2>3. \A n \in CRDs : \E i \in 1..Len(Descriptor) : Descriptor[i] = n
    BY <1>1, CrdRegistrationAssumption
  <2>4. {Descriptor[i] : i \in 1..Len(Descriptor)} = CRDs
    BY <1>1, <2>3
  <2>. QED  BY <2>2, <2>4
<1>. QED  BY <1>1, <1>2, <1>3, <1>4

-----------------------------------------------------------------------------
(* One process's step seen from another *)

(* What a step of another process or of the cluster may change for q.      *)
Untouched(q) ==
    /\ pc'[q] = pc[q] /\ next'[q] = next[q] /\ calls'[q] = calls[q] /\ result'[q] = result[q]
    /\ saw'[q] = saw[q] /\ gone[q] \subseteq gone'[q] /\ deletes'[q] = deletes[q]
    /\ steady'[q] => steady[q] /\ (AllEstablished => AllEstablished')

(***************************************************************************)
(* What is known of process q stays true: definitions that others delete   *)
(* end its steadiness, and what it has settled stays settled.              *)
(***************************************************************************)
LEMMA UntouchedKeeps ==
    ASSUME NEW q \in Processes, Local(q), Untouched(q)
    PROVE  Local(q)'
<1>1. InCall(q)'
  BY DEF Local, InCall, Untouched
<1>2. Found(q)'
  BY DEF Local, Found, Registered, Passed, Untouched
<1>3. Undisturbed(q)'
  BY DEF Local, Undisturbed, Untouched
<1>4. Tried(q)'
  <2>1. Passed(q)' = Passed(q)
    BY DEF Passed, Untouched
  <2>2. \A n \in CRDs : Settled(q, n) => Settled(q, n)'
    BY DEF Settled, Untouched
  <2>. QED  BY <2>1, <2>2 DEF Local, Tried, Untouched
<1>. QED  BY <1>1, <1>2, <1>3, <1>4 DEF Local

(***************************************************************************)
(* The ghosts after a step of p: nobody forgets what was absent, and a     *)
(* process whose call is still steady has lost no definition.              *)
(***************************************************************************)
LEMMA WatchKeeps ==
    ASSUME TypeOK, NEW p \in Processes, NEW fault \in BOOLEAN, Watch(p, fault),
           crd' \in [CRDs -> {"absent", "pending", "established"}]
    PROVE  /\ gone' \in [Processes -> SUBSET CRDs] /\ steady' \in [Processes -> BOOLEAN]
           /\ \A q \in Processes :
                 /\ gone[q] \subseteq gone'[q]
                 /\ \A n \in CRDs : crd'[n] = "absent" => n \in gone'[q]
                 /\ steady'[q] => steady[q]
           /\ \A q \in Processes \ {p} : steady'[q] =>
                 \A n \in CRDs : crd'[n] = "absent" => crd[n] = "absent"
           /\ steady'[p] => ~fault
<1>1. gone \in [Processes -> SUBSET CRDs]
  BY DEF TypeOK
<1>2. gone' = [q \in Processes |-> gone[q] \cup {n \in CRDs : crd'[n] = "absent"}]
  BY DEF Watch
<1>3. \A q \in Processes : gone'[q] = gone[q] \cup {n \in CRDs : crd'[n] = "absent"}
  BY <1>2
<1>4. gone' \in [Processes -> SUBSET CRDs]
  BY <1>1, <1>2
<1>5. \A q \in Processes :
         steady'[q] = (steady[q] /\ IF q = p THEN ~fault
                                     ELSE \A n \in CRDs : crd'[n] = "absent" => crd[n] = "absent")
  BY DEF Watch
<1>6. steady' \in [Processes -> BOOLEAN]
  BY DEF Watch
<1>. QED  BY <1>3, <1>4, <1>5, <1>6

-----------------------------------------------------------------------------
(* One lemma per step *)

(* What each lemma shows of a step of process p.                           *)
StepKeeps(p) == TypeOK' /\ Local(p)' /\ \A q \in Processes \ {p} : Untouched(q)

(* A method begins: it is steady if everything is established.             *)
LEMMA StartKeeps ==
    ASSUME IInv, NEW p \in Processes,
           NEW m \in {"register", "deregister"}, NEW l \in {"create", "delete"},
           m = "register" <=> l = "create", Start(p, m, l)
    PROVE  StepKeeps(p)
<1>0. TypeOK /\ Local(p)
  BY DEF IInv
<1>4. /\ pc[p] = "idle" /\ pc' = [pc EXCEPT ![p] = l] /\ calls' = [calls EXCEPT ![p] = m]
      /\ err' = [err EXCEPT ![p] = "nil"] /\ errs' = [errs EXCEPT ![p] = "nil"]
      /\ result' = [result EXCEPT ![p] = "none"] /\ saw' = [saw EXCEPT ![p] = {}]
      /\ gone' = [gone EXCEPT ![p] = {n \in CRDs : crd[n] = "absent"}]
      /\ deletes' = [deletes EXCEPT ![p] = Untried]
      /\ steady' = [steady EXCEPT ![p] = \A n \in CRDs : crd[n] = "established"]
      /\ UNCHANGED <<crd, next, faults>>
  BY DEF Start
<1>5. TypeOK'
  <2>1. steady' \in [Processes -> BOOLEAN]
    BY <1>0, <1>4 DEF TypeOK
  <2>2. gone' \in [Processes -> SUBSET CRDs] /\ saw' \in [Processes -> SUBSET CRDs]
    BY <1>0, <1>4 DEF TypeOK
  <2>3. pc' \in [Processes -> {"idle", "create", "poll", "delete"}]
    BY <1>0, <1>4 DEF TypeOK
  <2>4. calls' \in [Processes -> {"none", "register", "deregister"}]
    BY <1>0, <1>4 DEF TypeOK
  <2>5. /\ err' \in [Processes -> {"nil", "exists"}] /\ errs' \in [Processes -> Errors]
        /\ result' \in [Processes -> Errors \cup {"none", "exists"}]
    BY <1>0, <1>4 DEF TypeOK, Errors
  <2>6. deletes' \in [Processes -> [CRDs -> {"none", "done", "failed"}]]
    BY <1>0, <1>4 DEF TypeOK, Untried
  <2>. QED  BY <1>0, <1>4, <2>1, <2>2, <2>3, <2>4, <2>5, <2>6 DEF TypeOK
<1>6. \A q \in Processes \ {p} : Untouched(q)
  <2>. SUFFICES ASSUME NEW q \in Processes \ {p} PROVE Untouched(q)
    OBVIOUS
  <2>1. /\ pc'[q] = pc[q] /\ next'[q] = next[q] /\ calls'[q] = calls[q] /\ result'[q] = result[q]
        /\ saw'[q] = saw[q] /\ gone'[q] = gone[q] /\ deletes'[q] = deletes[q] /\ crd' = crd
    BY <1>0, <1>4 DEF TypeOK
  <2>2. steady'[q] = steady[q]
    BY <1>0, <1>4 DEF TypeOK
  <2>. QED  BY <2>1, <2>2 DEF Untouched, AllEstablished
<1>7. Local(p)'
  <2>1. pc'[p] = l /\ calls'[p] = m /\ result'[p] = "none"
    BY <1>0, <1>4 DEF TypeOK
  <2>2. InCall(p)'
    BY <2>1 DEF InCall
  <2>3. Found(p)'
    BY <2>1 DEF Found, Registered
  <2>4. Undisturbed(p)'
    <3>1. steady'[p] => AllEstablished'
      BY <1>0, <1>4 DEF TypeOK, AllEstablished
    <3>. QED  BY <2>1, <3>1 DEF Undisturbed
  <2>5. Tried(p)'
    <3>1. next'[p] = 1 /\ deletes'[p] = Untried
      BY <1>0, <1>4 DEF Local, InCall, TypeOK
    <3>2. Passed(p)' = {}
      BY <3>1, DescriptorIsPassed DEF Passed
    <3>. QED  BY <2>1, <3>1, <3>2 DEF Tried, Untried
  <2>. QED  BY <2>2, <2>3, <2>4, <2>5 DEF Local
<1>. QED  BY <1>5, <1>6, <1>7 DEF StepKeeps

(* One definition is created or found.  A steady call finds it.            *)
LEMMA CreateKeeps ==
    ASSUME IInv, NEW p \in Processes, Create(p)
    PROVE  StepKeeps(p)
<1>0. TypeOK /\ Local(p)
  BY DEF IInv
<1> DEFINE c == Current(p)
<1>1. c \in CRDs /\ next[p] \in 1..Len(Descriptor) /\ Len(Descriptor) \in Nat
  BY <1>0, DescriptorIsPassed DEF TypeOK, Current
<1>2. /\ pc[p] = "create" /\ Advance(p, "poll") /\ Watch(p, FALSE)
      /\ err' \in [Processes -> {"nil", "exists"}]
      /\ UNCHANGED <<errs, calls, result, faults, saw, deletes>>
  BY <1>0 DEF Create, TypeOK
<1>3. /\ crd' \in [CRDs -> {"absent", "pending", "established"}]
      /\ \A n \in CRDs : crd[n] # "absent" => crd'[n] = crd[n]
  BY <1>0, <1>1 DEF Create, TypeOK
<1> HIDE DEF c
<1>4. /\ pc' = [pc EXCEPT ![p] = IF Last(p) THEN "poll" ELSE pc[p]]
      /\ next' = [next EXCEPT ![p] = IF Last(p) THEN 1 ELSE next[p] + 1]
  BY <1>2 DEF Advance
<1>5. /\ Last(p) => pc'[p] = "poll" /\ next'[p] = 1
      /\ ~Last(p) => pc'[p] = "create" /\ next'[p] = next[p] + 1 /\ next[p] + 1 \in 1..Len(Descriptor)
      /\ \A q \in Processes \ {p} : pc'[q] = pc[q] /\ next'[q] = next[q]
      /\ pc' \in [Processes -> {"idle", "create", "poll", "delete"}]
      /\ next' \in [Processes -> 1..Len(Descriptor)]
  BY <1>0, <1>1, <1>2, <1>4 DEF TypeOK, Last
<1>6. /\ gone' \in [Processes -> SUBSET CRDs] /\ steady' \in [Processes -> BOOLEAN]
      /\ \A q \in Processes : gone[q] \subseteq gone'[q] /\ (steady'[q] => steady[q])
  BY <1>0, <1>2, <1>3, WatchKeeps
<1>7. TypeOK'
  BY <1>0, <1>2, <1>3, <1>5, <1>6 DEF TypeOK
<1>8. AllEstablished => AllEstablished'
  BY <1>3 DEF AllEstablished
<1>9. \A q \in Processes \ {p} : Untouched(q)
  BY <1>2, <1>5, <1>6, <1>8 DEF Untouched
<1>10. Local(p)'
  <2>1. /\ calls[p] = "register" /\ calls'[p] = "register"
        /\ result[p] = "none" /\ result'[p] = "none"
    BY <1>0, <1>2 DEF Local, InCall
  <2>2. InCall(p)'
    BY <1>5, <2>1 DEF InCall
  <2>3. Found(p)'
    BY <1>5, <2>1, DescriptorIsPassed DEF Found, Registered, Passed
  <2>4. Undisturbed(p)'
    BY <1>0, <1>2, <1>5, <1>6, <1>8, <2>1 DEF Local, Undisturbed
  <2>5. Tried(p)'
    BY <1>0, <1>2, <1>5, <2>1 DEF Local, Tried
  <2>. QED  BY <2>2, <2>3, <2>4, <2>5 DEF Local
<1>. QED  BY <1>7, <1>9, <1>10 DEF StepKeeps

(* Creating fails: the call returns the error and is not steady.           *)
LEMMA CreateFailsKeeps ==
    ASSUME IInv, NEW p \in Processes, CreateFails(p)
    PROVE  StepKeeps(p)
<1>0. TypeOK /\ Local(p)
  BY DEF IInv
<1>1. Current(p) \in CRDs /\ 1 \in 1..Len(Descriptor)
  BY <1>0, DescriptorIsPassed DEF TypeOK, Current
<1>2. /\ pc[p] = "create" /\ Watch(p, TRUE)
      /\ pc' = [pc EXCEPT ![p] = "idle"] /\ next' = [next EXCEPT ![p] = 1]
      /\ result' = [result EXCEPT ![p] = "error"]
      /\ faults < MaxFaults /\ faults' = faults + 1
      /\ UNCHANGED <<err, errs, calls, saw, deletes>>
  BY DEF CreateFails, Return, Fault
<1>3. /\ crd' \in [CRDs -> {"absent", "pending", "established"}]
      /\ \A n \in CRDs : crd[n] # "absent" => crd'[n] = crd[n]
  <2>1. CASE UNCHANGED crd
    BY <1>0, <2>1 DEF TypeOK
  <2>2. CASE crd[Current(p)] = "absent" /\ crd' = [crd EXCEPT ![Current(p)] = "pending"]
    BY <1>0, <1>1, <2>2 DEF TypeOK
  <2>. QED  BY <2>1, <2>2 DEF CreateFails
<1>4. /\ gone' \in [Processes -> SUBSET CRDs] /\ steady' \in [Processes -> BOOLEAN]
      /\ \A q \in Processes : gone[q] \subseteq gone'[q] /\ (steady'[q] => steady[q])
      /\ ~steady'[p]
  BY <1>0, <1>2, <1>3, WatchKeeps
<1>5. faults' \in 0..MaxFaults
  BY <1>0, <1>2, CrdRegistrationAssumption DEF TypeOK
<1>6. TypeOK'
  <2>1. next' \in [Processes -> 1..Len(Descriptor)]
    BY <1>0, <1>1, <1>2 DEF TypeOK
  <2>2. result' \in [Processes -> Errors \cup {"none", "exists"}]
    BY <1>0, <1>2 DEF TypeOK, Errors
  <2>3. pc' \in [Processes -> {"idle", "create", "poll", "delete"}]
    BY <1>0, <1>2 DEF TypeOK
  <2>. QED  BY <1>0, <1>2, <1>3, <1>4, <1>5, <2>1, <2>2, <2>3 DEF TypeOK
<1>7. AllEstablished => AllEstablished'
  BY <1>3 DEF AllEstablished
<1>8. \A q \in Processes \ {p} : Untouched(q)
  <2>1. \A q \in Processes \ {p} :
           pc'[q] = pc[q] /\ next'[q] = next[q] /\ result'[q] = result[q]
    BY <1>0, <1>2 DEF TypeOK
  <2>. QED  BY <1>2, <1>4, <1>5, <1>7, <2>1 DEF Untouched
<1>9. Local(p)'
  <2>1. /\ calls'[p] = "register" /\ result'[p] = "error" /\ pc'[p] = "idle" /\ next'[p] = 1
    BY <1>0, <1>2 DEF Local, InCall, TypeOK
  <2>2. InCall(p)'
    BY <2>1 DEF InCall
  <2>3. Found(p)'
    BY <2>1 DEF Found, Registered
  <2>4. Undisturbed(p)'
    BY <1>4, <2>1 DEF Undisturbed
  <2>5. Tried(p)'
    BY <1>0, <1>2, <2>1 DEF Local, Tried
  <2>. QED  BY <2>2, <2>3, <2>4, <2>5 DEF Local
<1>. QED  BY <1>6, <1>8, <1>9 DEF StepKeeps

(* The poll finds a definition established; after the last it returns nil. *)
LEMMA CheckEstablishedKeeps ==
    ASSUME IInv, NEW p \in Processes, CheckEstablished(p)
    PROVE  StepKeeps(p)
<1>0. TypeOK /\ Local(p)
  BY DEF IInv
<1>1. /\ Current(p) \in CRDs /\ next[p] \in 1..Len(Descriptor) /\ Len(Descriptor) \in Nat \ {0}
      /\ PassedBefore(next[p] + 1) = Passed(p) \cup {Current(p)}
  BY <1>0, DescriptorIsPassed DEF TypeOK, Current, Passed
<1>2. /\ pc[p] = "poll" /\ saw' = [saw EXCEPT ![p] = saw[p] \cup {Current(p)}]
      /\ UNCHANGED <<crd, err, errs, calls, faults, gone, deletes, steady>>
  BY DEF CheckEstablished
<1>3. CASE Last(p)
  <2>1. /\ pc' = [pc EXCEPT ![p] = "idle"] /\ next' = [next EXCEPT ![p] = 1]
        /\ result' = [result EXCEPT ![p] = "nil"]
    BY <1>3 DEF CheckEstablished, Return
  <2>2. TypeOK'
    <3>1. next' \in [Processes -> 1..Len(Descriptor)]
      BY <1>0, <1>1, <2>1 DEF TypeOK
    <3>2. result' \in [Processes -> Errors \cup {"none", "exists"}]
      BY <1>0, <2>1 DEF TypeOK, Errors
    <3>3. pc' \in [Processes -> {"idle", "create", "poll", "delete"}]
      BY <1>0, <2>1 DEF TypeOK
    <3>4. saw' \in [Processes -> SUBSET CRDs]
      BY <1>0, <1>1, <1>2 DEF TypeOK
    <3>. QED  BY <1>0, <1>2, <3>1, <3>2, <3>3, <3>4 DEF TypeOK
  <2>3. \A q \in Processes \ {p} : Untouched(q)
    <3>1. \A q \in Processes \ {p} :
             /\ pc'[q] = pc[q] /\ next'[q] = next[q] /\ result'[q] = result[q]
             /\ saw'[q] = saw[q]
      BY <1>0, <1>2, <2>1 DEF TypeOK
    <3>. QED  BY <1>2, <3>1 DEF Untouched, AllEstablished
  <2>4. Local(p)'
    <3>1. /\ calls'[p] = "register" /\ result'[p] = "nil" /\ pc'[p] = "idle" /\ next'[p] = 1
      BY <1>0, <1>2, <2>1 DEF Local, InCall, TypeOK
    <3>2. saw'[p] = CRDs
      <4>1. saw'[p] = saw[p] \cup {Current(p)} /\ saw[p] \subseteq CRDs
        BY <1>0, <1>2 DEF TypeOK
      <4>2. Passed(p) \subseteq saw[p]
        BY <1>0, <1>2 DEF Local, Found
      <4>3. Passed(p) \cup {Current(p)} = CRDs
        BY <1>1, <1>3, DescriptorIsPassed DEF Last
      <4>. QED  BY <1>1, <4>1, <4>2, <4>3
    <3>3. InCall(p)'
      BY <3>1 DEF InCall
    <3>4. Found(p)'
      BY <3>1, <3>2 DEF Found
    <3>5. Undisturbed(p)'
      BY <3>1 DEF Undisturbed
    <3>6. Tried(p)'
      BY <1>0, <1>2, <3>1 DEF Local, Tried
    <3>. QED  BY <3>3, <3>4, <3>5, <3>6 DEF Local
  <2>. QED  BY <2>2, <2>3, <2>4 DEF StepKeeps
<1>4. CASE ~Last(p)
  <2>1. /\ pc' = [pc EXCEPT ![p] = pc[p]] /\ next' = [next EXCEPT ![p] = next[p] + 1]
        /\ result' = result
    BY <1>4 DEF CheckEstablished, Advance
  <2>2. next[p] + 1 \in 1..Len(Descriptor)
    BY <1>1, <1>4 DEF Last
  <2>3. pc' = pc /\ next'[p] = next[p] + 1
    BY <1>0, <2>1 DEF TypeOK
  <2>4. TypeOK'
    <3>1. next' \in [Processes -> 1..Len(Descriptor)]
      BY <1>0, <2>1, <2>2 DEF TypeOK
    <3>2. saw' \in [Processes -> SUBSET CRDs]
      BY <1>0, <1>1, <1>2 DEF TypeOK
    <3>. QED  BY <1>0, <1>2, <2>1, <2>3, <3>1, <3>2 DEF TypeOK
  <2>5. \A q \in Processes \ {p} : Untouched(q)
    <3>1. \A q \in Processes \ {p} : next'[q] = next[q] /\ saw'[q] = saw[q]
      BY <1>0, <1>2, <2>1 DEF TypeOK
    <3>. QED  BY <1>2, <2>1, <2>3, <3>1 DEF Untouched, AllEstablished
  <2>6. Local(p)'
    <3>1. /\ calls'[p] = "register" /\ result'[p] = "none" /\ pc'[p] = "poll"
      BY <1>0, <1>2, <2>1, <2>3 DEF Local, InCall
    <3>2. Passed(p)' \subseteq saw'[p]
      <4>1. saw'[p] = saw[p] \cup {Current(p)}
        BY <1>0, <1>2 DEF TypeOK
      <4>2. Passed(p) \subseteq saw[p]
        BY <1>0, <1>2 DEF Local, Found
      <4>. QED  BY <1>1, <2>3, <4>1, <4>2 DEF Passed
    <3>3. InCall(p)'
      BY <3>1 DEF InCall
    <3>4. Found(p)'
      BY <3>1, <3>2 DEF Found, Registered
    <3>5. Undisturbed(p)'
      BY <1>0, <1>2, <3>1 DEF Local, Undisturbed, AllEstablished
    <3>6. Tried(p)'
      BY <1>0, <1>2, <3>1 DEF Local, Tried
    <3>. QED  BY <3>3, <3>4, <3>5, <3>6 DEF Local
  <2>. QED  BY <2>4, <2>5, <2>6 DEF StepKeeps
<1>. QED  BY <1>3, <1>4

(* The poll fails: the rollback begins, and the call was not steady.       *)
LEMMA RollBackKeeps ==
    ASSUME IInv, NEW p \in Processes, CheckMissing(p) \/ CheckFails(p)
    PROVE  StepKeeps(p)
<1>0. TypeOK /\ Local(p)
  BY DEF IInv
<1>1. /\ pc[p] = "poll"
      /\ pc' = [pc EXCEPT ![p] = "delete"] /\ next' = [next EXCEPT ![p] = 1]
      /\ gone' = [gone EXCEPT ![p] = {n \in CRDs : crd[n] = "absent"}]
      /\ UNCHANGED <<crd, err, errs, calls, result, saw, deletes>>
  BY DEF CheckMissing, CheckFails, RollBack
<1>2. /\ faults' \in 0..MaxFaults
      /\ steady' \in [Processes -> BOOLEAN] /\ ~steady'[p]
      /\ \A q \in Processes \ {p} : steady'[q] => steady[q]
  <2>1. CASE CheckMissing(p)
    <3>1. /\ faults' = faults /\ steady' = steady /\ Current(p) \in CRDs
          /\ crd[Current(p)] # "established"
      BY <1>0, <2>1, DescriptorIsPassed DEF CheckMissing, TypeOK, Current
    <3>2. ~AllEstablished
      BY <3>1 DEF AllEstablished
    <3>3. ~steady[p]
      BY <1>0, <1>1, <3>2 DEF Local, Undisturbed
    <3>. QED  BY <1>0, <3>1, <3>3 DEF TypeOK
  <2>2. CASE CheckFails(p)
    <3>1. /\ faults < MaxFaults /\ faults' = faults + 1
          /\ steady' = [steady EXCEPT ![p] = FALSE]
      BY <2>2 DEF CheckFails, Fault
    <3>2. faults' \in 0..MaxFaults
      BY <1>0, <3>1, CrdRegistrationAssumption DEF TypeOK
    <3>3. /\ steady' \in [Processes -> BOOLEAN] /\ ~steady'[p]
          /\ \A q \in Processes \ {p} : steady'[q] => steady[q]
      BY <1>0, <3>1 DEF TypeOK
    <3>. QED  BY <3>2, <3>3
  <2>. QED  BY <2>1, <2>2
<1>3. TypeOK'
  <2>1. next' \in [Processes -> 1..Len(Descriptor)]
    BY <1>0, <1>1, DescriptorIsPassed DEF TypeOK
  <2>2. pc' \in [Processes -> {"idle", "create", "poll", "delete"}]
    BY <1>0, <1>1 DEF TypeOK
  <2>3. gone' \in [Processes -> SUBSET CRDs]
    BY <1>0, <1>1 DEF TypeOK
  <2>. QED  BY <1>0, <1>1, <1>2, <2>1, <2>2, <2>3 DEF TypeOK
<1>4. \A q \in Processes \ {p} : Untouched(q)
  <2>1. \A q \in Processes \ {p} :
           pc'[q] = pc[q] /\ next'[q] = next[q] /\ gone'[q] = gone[q]
    BY <1>0, <1>1 DEF TypeOK
  <2>. QED  BY <1>1, <1>2, <2>1 DEF Untouched, AllEstablished
<1>5. Local(p)'
  <2>1. /\ calls'[p] = "register" /\ result'[p] = "none" /\ pc'[p] = "delete"
    BY <1>0, <1>1 DEF Local, InCall, TypeOK
  <2>2. InCall(p)'
    BY <2>1 DEF InCall
  <2>3. Found(p)'
    BY <2>1 DEF Found, Registered
  <2>4. Undisturbed(p)'
    BY <1>2 DEF Undisturbed
  <2>5. Tried(p)'
    <3>1. next'[p] = 1 /\ deletes'[p] = Untried
      BY <1>0, <1>1 DEF Local, Tried, TypeOK
    <3>2. Passed(p)' = {}
      BY <3>1, DescriptorIsPassed DEF Passed
    <3>. QED  BY <2>1, <3>1, <3>2 DEF Tried, Untried
  <2>. QED  BY <2>2, <2>3, <2>4, <2>5 DEF Local
<1>. QED  BY <1>3, <1>4, <1>5 DEF StepKeeps

(* A clientset cannot be made: the call ends with an error, and whatever   *)
(* it deletes it has not begun to.                                         *)
LEMMA NewForConfigFailsKeeps ==
    ASSUME IInv, NEW p \in Processes, NewForConfigFails(p)
    PROVE  StepKeeps(p)
<1>0. TypeOK /\ Local(p)
  BY DEF IInv
<1>1. /\ pc[p] \in {"create", "delete"} /\ next[p] = 1
      /\ pc' = [pc EXCEPT ![p] = "idle"] /\ next' = [next EXCEPT ![p] = 1]
      /\ faults < MaxFaults /\ faults' = faults + 1
      /\ steady' = [steady EXCEPT ![p] = FALSE]
      /\ UNCHANGED <<crd, err, errs, calls, saw, gone, deletes>>
  BY DEF NewForConfigFails, Return, Fault
<1>2. calls[p] \in {"register", "deregister"}
  BY <1>0, <1>1 DEF Local, InCall
<1>3. result' = [result EXCEPT ![p] = "error"]
  BY <1>2 DEF NewForConfigFails, Return, Outcome, MultierrorAppend
<1>4. /\ pc'[p] = "idle" /\ next'[p] = 1 /\ result'[p] = "error" /\ ~steady'[p]
      /\ \A q \in Processes \ {p} : /\ pc'[q] = pc[q] /\ next'[q] = next[q]
                                    /\ result'[q] = result[q] /\ steady'[q] = steady[q]
  BY <1>0, <1>1, <1>3 DEF TypeOK
<1>5. TypeOK'
  <2>1. next' \in [Processes -> 1..Len(Descriptor)]
    BY <1>0, <1>1, DescriptorIsPassed DEF TypeOK
  <2>2. result' \in [Processes -> Errors \cup {"none", "exists"}]
    BY <1>0, <1>3 DEF TypeOK, Errors
  <2>3. pc' \in [Processes -> {"idle", "create", "poll", "delete"}]
    BY <1>0, <1>1 DEF TypeOK
  <2>4. steady' \in [Processes -> BOOLEAN]
    BY <1>0, <1>1 DEF TypeOK
  <2>5. faults' \in 0..MaxFaults
    BY <1>0, <1>1, CrdRegistrationAssumption DEF TypeOK
  <2>. QED  BY <1>0, <1>1, <2>1, <2>2, <2>3, <2>4, <2>5 DEF TypeOK
<1>6. \A q \in Processes \ {p} : Untouched(q)
  BY <1>1, <1>4 DEF Untouched, AllEstablished
<1>7. Local(p)'
  <2>1. InCall(p)' /\ Found(p)' /\ Undisturbed(p)'
    BY <1>4 DEF InCall, Found, Registered, Undisturbed
  <2>2. deletes[p] = Untried
    <3>1. CASE pc[p] = "create"
      BY <1>0, <3>1 DEF Local, Tried
    <3>2. CASE pc[p] = "delete"
      <4>1. Passed(p) = {}
        BY <1>1, DescriptorIsPassed DEF Passed
      <4>2. \A n \in CRDs : deletes[p][n] = "none"
        BY <1>0, <3>2, <4>1 DEF Local, Tried
      <4>3. deletes[p] \in [CRDs -> {"none", "done", "failed"}]
        BY <1>0 DEF TypeOK
      <4>. QED  BY <4>2, <4>3 DEF Untried
    <3>. QED  BY <1>1, <3>1, <3>2
  <2>3. Tried(p)'
    BY <1>1, <1>4, <2>2 DEF Tried, Untried
  <2>. QED  BY <2>1, <2>3 DEF Local
<1>. QED  BY <1>5, <1>6, <1>7 DEF StepKeeps

(***************************************************************************)
(* One definition is deleted, or the delete fails: that settles it.  The   *)
(* call ends with an error either way.                                     *)
(***************************************************************************)
LEMMA DeletingKeeps ==
    ASSUME IInv, NEW p \in Processes, NEW fault \in BOOLEAN,
           pc[p] = "delete", errs' = [errs EXCEPT ![p] = "error"],
           UNCHANGED crd \/ crd' = [crd EXCEPT ![Current(p)] = "absent"],
           fault \/ (crd' = [crd EXCEPT ![Current(p)] = "absent"] /\ UNCHANGED faults),
           ~fault \/ Fault, Tries(p, IF fault THEN "failed" ELSE "done"),
           Finish(p), Watch(p, fault), UNCHANGED <<err, calls, saw>>
    PROVE  StepKeeps(p)
<1>0. TypeOK /\ Local(p)
  BY DEF IInv
<1>1. /\ Current(p) \in CRDs /\ next[p] \in 1..Len(Descriptor) /\ Len(Descriptor) \in Nat \ {0}
      /\ PassedBefore(next[p] + 1) = Passed(p) \cup {Current(p)}
  BY <1>0, DescriptorIsPassed DEF TypeOK, Current, Passed
<1>2. /\ crd' \in [CRDs -> {"absent", "pending", "established"}]
      /\ \A n \in CRDs : crd'[n] = crd[n] \/ crd'[n] = "absent"
      /\ fault \/ crd'[Current(p)] = "absent"
  <2>1. CASE UNCHANGED crd
    BY <1>0, <1>1, <2>1 DEF TypeOK
  <2>2. CASE crd' = [crd EXCEPT ![Current(p)] = "absent"]
    BY <1>0, <1>1, <2>2 DEF TypeOK
  <2>. QED  BY <2>1, <2>2
<1>3. /\ gone' \in [Processes -> SUBSET CRDs] /\ steady' \in [Processes -> BOOLEAN]
      /\ \A q \in Processes :
            /\ gone[q] \subseteq gone'[q]
            /\ \A n \in CRDs : crd'[n] = "absent" => n \in gone'[q]
            /\ steady'[q] => steady[q]
      /\ \A q \in Processes \ {p} : steady'[q] =>
            \A n \in CRDs : crd'[n] = "absent" => crd[n] = "absent"
  BY <1>0, <1>2, WatchKeeps
<1>4. faults' \in 0..MaxFaults
  <2>1. CASE fault
    BY <1>0, <2>1, CrdRegistrationAssumption DEF TypeOK, Fault
  <2>2. CASE ~fault
    BY <1>0, <2>2 DEF TypeOK
  <2>. QED  BY <2>1, <2>2
<1>5. Outcome(p, errs'[p]) = "error"
  <2>1. errs'[p] = "error" /\ calls[p] \in {"register", "deregister"}
    BY <1>0 DEF Local, InCall, TypeOK
  <2>. QED  BY <2>1 DEF Outcome, MultierrorAppend
<1>6. /\ Last(p)  => /\ pc' = [pc EXCEPT ![p] = "idle"] /\ next' = [next EXCEPT ![p] = 1]
                     /\ result' = [result EXCEPT ![p] = "error"]
      /\ ~Last(p) => /\ pc' = [pc EXCEPT ![p] = pc[p]] /\ next' = [next EXCEPT ![p] = next[p] + 1]
                     /\ result' = result
  BY <1>5 DEF Finish, Return, Advance
<1>7. /\ Last(p)  => pc'[p] = "idle" /\ next'[p] = 1 /\ result'[p] = "error"
      /\ ~Last(p) => pc'[p] = "delete" /\ next'[p] = next[p] + 1 /\ result'[p] = result[p]
      /\ \A q \in Processes \ {p} : pc'[q] = pc[q] /\ next'[q] = next[q] /\ result'[q] = result[q]
  BY <1>0, <1>6 DEF TypeOK
<1>8. PICK answer \in {"done", "failed"} :
        /\ answer = IF fault THEN "failed" ELSE "done"
        /\ deletes' = [deletes EXCEPT ![p] = [deletes[p] EXCEPT ![Current(p)] = answer]]
  BY DEF Tries
<1>9. /\ deletes' \in [Processes -> [CRDs -> {"none", "done", "failed"}]]
      /\ \A q \in Processes \ {p} : deletes'[q] = deletes[q]
      /\ deletes'[p][Current(p)] = answer
      /\ \A n \in CRDs \ {Current(p)} : deletes'[p][n] = deletes[p][n]
  <2>1. /\ deletes[p] \in [CRDs -> {"none", "done", "failed"}] /\ Current(p) \in CRDs
        /\ deletes \in [Processes -> [CRDs -> {"none", "done", "failed"}]]
    BY <1>0, <1>1 DEF TypeOK
  <2>2. PICK d : d = [deletes[p] EXCEPT ![Current(p)] = answer]
    OBVIOUS
  <2>3. /\ d \in [CRDs -> {"none", "done", "failed"}] /\ d[Current(p)] = answer
        /\ \A n \in CRDs \ {Current(p)} : d[n] = deletes[p][n]
    BY <2>1, <2>2
  <2>4. deletes' = [deletes EXCEPT ![p] = d]
    BY <1>8, <2>2
  <2>. QED  BY <2>1, <2>3, <2>4
<1>10. TypeOK'
  <2>1. next' \in [Processes -> 1..Len(Descriptor)]
    <3>1. CASE Last(p)
      <4>1. next' = [next EXCEPT ![p] = 1] /\ 1 \in 1..Len(Descriptor)
        BY <1>1, <1>6, <3>1
      <4>. QED  BY <1>0, <4>1 DEF TypeOK
    <3>2. CASE ~Last(p)
      <4>1. next' = [next EXCEPT ![p] = next[p] + 1] /\ next[p] + 1 \in 1..Len(Descriptor)
        BY <1>1, <1>6, <3>2 DEF Last
      <4>. QED  BY <1>0, <4>1 DEF TypeOK
    <3>. QED  BY <3>1, <3>2
  <2>2. pc' \in [Processes -> {"idle", "create", "poll", "delete"}]
    <3>1. \/ pc' = [pc EXCEPT ![p] = "idle"]
          \/ pc' = [pc EXCEPT ![p] = pc[p]]
      BY <1>6
    <3>2. pc \in [Processes -> {"idle", "create", "poll", "delete"}]
      BY <1>0 DEF TypeOK
    <3>. QED  BY <3>1, <3>2
  <2>3. result' \in [Processes -> Errors \cup {"none", "exists"}]
    BY <1>0, <1>6 DEF TypeOK, Errors
  <2>4. errs' \in [Processes -> Errors]
    BY <1>0 DEF TypeOK, Errors
  <2>. QED  BY <1>0, <1>2, <1>3, <1>4, <1>9, <2>1, <2>2, <2>3, <2>4 DEF TypeOK
<1>11. \A q \in Processes \ {p} : Untouched(q)
  <2>. SUFFICES ASSUME NEW q \in Processes \ {p} PROVE Untouched(q)
    OBVIOUS
  <2>1. steady'[q] => steady[q] /\ (AllEstablished => AllEstablished')
    BY <1>2, <1>3 DEF AllEstablished
  <2>. QED  BY <1>3, <1>7, <1>9, <2>1 DEF Untouched
<1>12. Local(p)'
  <2>1. ASSUME NEW n \in CRDs
        PROVE  IF n \in Passed(p) \cup {Current(p)} THEN Settled(p, n)'
                                                   ELSE deletes'[p][n] = "none"
    <3>1. IF n \in Passed(p) THEN Settled(p, n) ELSE deletes[p][n] = "none"
      BY <1>0 DEF Local, Tried
    <3>2. CASE n = Current(p)
      BY <1>1, <1>2, <1>3, <1>8, <1>9, <3>2 DEF Settled
    <3>3. CASE n # Current(p)
      <4>1. deletes'[p][n] = deletes[p][n] /\ gone[p] \subseteq gone'[p]
        BY <1>3, <1>9, <3>3
      <4>. QED  BY <3>1, <3>3, <4>1 DEF Settled
    <3>. QED  BY <3>2, <3>3
  <2>2. /\ calls'[p] = calls[p] /\ calls[p] \in {"register", "deregister"}
        /\ result[p] = "none" /\ saw'[p] = saw[p]
    BY <1>0 DEF Local, InCall
  <2>3. InCall(p)'
    BY <1>7, <2>2 DEF InCall
  <2>4. Found(p)'
    BY <1>7, <2>2 DEF Found, Registered
  <2>5. Undisturbed(p)'
    BY <1>0, <1>3, <1>7, <2>2 DEF Local, Undisturbed
  <2>6. Tried(p)'
    <3>1. CASE Last(p)
      <4>1. Passed(p) \cup {Current(p)} = CRDs
        BY <1>1, <3>1, DescriptorIsPassed DEF Last
      <4>2. \A n \in CRDs : Settled(p, n)'
        BY <2>1, <4>1
      <4>. QED  BY <1>7, <3>1, <4>2 DEF Tried
    <3>2. CASE ~Last(p)
      <4>1. Passed(p)' = Passed(p) \cup {Current(p)}
        BY <1>1, <1>7, <3>2 DEF Passed
      <4>. QED  BY <1>7, <2>1, <2>2, <3>2, <4>1 DEF Tried
    <3>. QED  BY <3>1, <3>2
  <2>. QED  BY <2>3, <2>4, <2>5, <2>6 DEF Local
<1>. QED  BY <1>10, <1>11, <1>12 DEF StepKeeps

\* A successful delete keeps the invariant, in a rollback and in a DeregisterResources alike.
LEMMA DeleteKeeps ==
    ASSUME IInv, NEW p \in Processes, Delete(p) \/ DeleteFails(p)
    PROVE  StepKeeps(p)
<1>1. CASE Delete(p)
  <2>1. /\ pc[p] = "delete" /\ errs' = [errs EXCEPT ![p] = "error"]
        /\ crd' = [crd EXCEPT ![Current(p)] = "absent"]
        /\ Tries(p, "done") /\ Finish(p) /\ Watch(p, FALSE) /\ UNCHANGED <<err, calls, faults, saw>>
    BY <1>1 DEF Delete, MultierrorAppend
  <2>. QED  BY <2>1, DeletingKeeps
<1>2. CASE DeleteFails(p)
  <2>1. /\ pc[p] = "delete" /\ errs' = [errs EXCEPT ![p] = "error"] /\ Fault
        /\ UNCHANGED crd \/ crd' = [crd EXCEPT ![Current(p)] = "absent"]
        /\ Tries(p, "failed") /\ Finish(p) /\ Watch(p, TRUE) /\ UNCHANGED <<err, calls, saw>>
    BY <1>2 DEF DeleteFails, MultierrorAppend
  <2>. QED  BY <2>1, DeletingKeeps
<1>. QED  BY <1>1, <1>2

(* A process that dies has returned nothing.                               *)
LEMMA CrashKeeps ==
    ASSUME IInv, NEW p \in Processes, Crash(p)
    PROVE  StepKeeps(p)
<1>0. TypeOK /\ Local(p)
  BY DEF IInv
<1>1. /\ pc' = [pc EXCEPT ![p] = "idle"] /\ next' = [next EXCEPT ![p] = 1]
      /\ result' = [result EXCEPT ![p] = "none"]
      /\ faults < MaxFaults /\ faults' = faults + 1
      /\ UNCHANGED <<crd, err, errs, calls, saw, gone, deletes, steady>>
  BY DEF Crash, Return, Fault
<1>2. faults' \in 0..MaxFaults
  BY <1>0, <1>1, CrdRegistrationAssumption DEF TypeOK
<1>3. TypeOK'
  <2>1. next' \in [Processes -> 1..Len(Descriptor)]
    BY <1>0, <1>1, DescriptorIsPassed DEF TypeOK
  <2>2. /\ pc' \in [Processes -> {"idle", "create", "poll", "delete"}]
        /\ result' \in [Processes -> Errors \cup {"none", "exists"}]
    BY <1>0, <1>1 DEF TypeOK
  <2>. QED  BY <1>0, <1>1, <1>2, <2>1, <2>2 DEF TypeOK
<1>4. \A q \in Processes \ {p} : Untouched(q)
  <2>1. \A q \in Processes \ {p} : pc'[q] = pc[q] /\ next'[q] = next[q] /\ result'[q] = result[q]
    BY <1>0, <1>1 DEF TypeOK
  <2>. QED  BY <1>1, <2>1 DEF Untouched, AllEstablished
<1>5. Local(p)'
  <2>1. result'[p] = "none" /\ pc'[p] = "idle" /\ next'[p] = 1
    BY <1>0, <1>1 DEF TypeOK
  <2>. QED  BY <2>1 DEF Local, InCall, Found, Registered, Undisturbed, Tried
<1>. QED  BY <1>3, <1>4, <1>5 DEF StepKeeps

(* The cluster establishes a definition: good for every process.           *)
LEMMA EstablishKeeps ==
    ASSUME IInv, Establish
    PROVE  IInv'
<1>0. TypeOK
  BY DEF IInv
<1>1. UNCHANGED <<pc, next, err, errs, calls, result, faults, saw, gone, deletes, steady>>
  BY DEF Establish, control
<1>2. /\ crd' \in [CRDs -> {"absent", "pending", "established"}]
      /\ AllEstablished => AllEstablished'
  <2>1. PICK n \in CRDs : crd[n] = "pending" /\ crd' = [crd EXCEPT ![n] = "established"]
    BY DEF Establish
  <2>. QED  BY <1>0, <2>1 DEF TypeOK, AllEstablished
<1>3. TypeOK'
  BY <1>0, <1>1, <1>2 DEF TypeOK
<1>4. \A q \in Processes : Untouched(q)
  BY <1>1, <1>2 DEF Untouched
<1>. QED  BY <1>3, <1>4, UntouchedKeeps DEF IInv

-----------------------------------------------------------------------------
(* The inductive invariant *)

\* Every step keeps the invariant.
LEMMA NextKeepsInvariant ==
    ASSUME IInv, Next
    PROVE  IInv'
<1>1. ASSUME NEW p \in Processes, StepKeeps(p)
      PROVE  IInv'
  <2>1. TypeOK' /\ Local(p)'
    BY <1>1 DEF StepKeeps
  <2>2. \A q \in Processes \ {p} : Local(q)'
    BY <1>1, UntouchedKeeps DEF IInv, StepKeeps
  <2>. QED  BY <2>1, <2>2 DEF IInv
<1>2. ASSUME NEW p \in Processes,
             RegisterResources(p) \/ DeregisterResources(p) \/ Step(p) \/ Crash(p)
      PROVE  StepKeeps(p)
  <2>1. CASE RegisterResources(p)
    <3>1. Start(p, "register", "create")
      BY <2>1 DEF RegisterResources
    <3>. QED  BY <3>1, StartKeeps
  <2>2. CASE DeregisterResources(p)
    <3>1. Start(p, "deregister", "delete")
      BY <2>2 DEF DeregisterResources
    <3>. QED  BY <3>1, StartKeeps
  <2>3. CASE Step(p)
    BY <2>3, NewForConfigFailsKeeps, CreateKeeps, CreateFailsKeeps, CheckEstablishedKeeps,
       RollBackKeeps, DeleteKeeps DEF Step
  <2>4. CASE Crash(p)
    BY <2>4, CrashKeeps
  <2>. QED  BY <1>2, <2>1, <2>2, <2>3, <2>4
<1>. QED  BY <1>1, <1>2, EstablishKeeps DEF Next

\* The invariant holds when no process has made a call.
LEMMA InitIsInvariant == Init => IInv
<1>. SUFFICES ASSUME Init PROVE IInv
  OBVIOUS
<1>1. TypeOK
  <2>1. next \in [Processes -> 1..Len(Descriptor)]
    BY DescriptorIsPassed DEF Init
  <2>2. faults \in 0..MaxFaults
    BY CrdRegistrationAssumption DEF Init
  <2>3. errs \in [Processes -> Errors] /\ result \in [Processes -> Errors \cup {"none", "exists"}]
    BY DEF Init, Errors
  <2>4. deletes \in [Processes -> [CRDs -> {"none", "done", "failed"}]]
    BY DEF Init, Untried
  <2>. QED  BY <2>1, <2>2, <2>3, <2>4 DEF Init, TypeOK
<1>2. ASSUME NEW p \in Processes
      PROVE  Local(p)
  <2>1. pc[p] = "idle" /\ result[p] = "none" /\ next[p] = 1 /\ calls[p] = "none"
    BY DEF Init
  <2>. QED  BY <2>1 DEF Local, InCall, Found, Registered, Undisturbed, Tried
<1>. QED  BY <1>1, <1>2 DEF IInv

\* The invariant holds in every reachable state.
LEMMA InvariantHolds == Spec => []IInv
<1>1. IInv /\ [Next]_vars => IInv'
  <2>. SUFFICES ASSUME IInv, UNCHANGED vars
                PROVE  IInv'
    BY NextKeepsInvariant
  <2>1. TypeOK'
    BY DEF IInv, TypeOK, vars
  <2>2. ASSUME NEW p \in Processes
        PROVE  Local(p)'
    BY DEF IInv, Local, InCall, Found, Registered, Passed, Undisturbed, AllEstablished,
           Tried, Settled, vars
  <2>. QED  BY <2>1, <2>2 DEF IInv
<1>. QED  BY <1>1, InitIsInvariant, PTL DEF Spec

-----------------------------------------------------------------------------
(* What follows from it *)

(***************************************************************************)
(* Every variable holds a value of its type: in particular next[p] is an   *)
(* index of the descriptor, whatever the loops and their early ends do     *)
(* (client.go:178-254).                                                    *)
(***************************************************************************)
THEOREM RegistrationIsTyped == Spec => []TypeOK
<1>1. IInv => TypeOK
  BY DEF IInv
<1>. QED  BY <1>1, InvariantHolds, PTL

(***************************************************************************)
(* A nil error of RegisterResources means that this call has found every   *)
(* definition established, for any descriptor and any interleaving with    *)
(* other processes, faults and crashes (client.go:202-240).                *)
(***************************************************************************)
THEOREM NilIsEarned == Spec => []NilMeansEstablished
<1>1. IInv => NilMeansEstablished
  BY DEF IInv, NilMeansEstablished, Local, Found
<1>. QED  BY <1>1, InvariantHolds, PTL

(***************************************************************************)
(* Where everything is established, registering again neither fails nor    *)
(* deletes, however many processes do so at once (client.go:178-240).      *)
(***************************************************************************)
THEOREM RegisteringIsIdempotent == Spec => []RegisteringAgainIsHarmless
<1>1. IInv => RegisteringAgainIsHarmless
  BY DEF IInv, RegisteringAgainIsHarmless, Local, Undisturbed
<1>. QED  BY <1>1, InvariantHolds, PTL

(***************************************************************************)
(* A call that has begun to delete tries every definition, whichever of    *)
(* the deletes fail, and says so; one that has not is a registration or an *)
(* error (client.go:230-255).                                              *)
(***************************************************************************)
THEOREM AllDeletesAreTried == Spec => []DeregisterTriesAll
<1>1. IInv => DeregisterTriesAll
  BY DEF IInv, DeregisterTriesAll, Local, Tried
<1>. QED  BY <1>1, InvariantHolds, PTL
=============================================================================
