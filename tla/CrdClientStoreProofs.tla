------------------------ MODULE CrdClientStoreProofs ------------------------
(***************************************************************************)
(* crd.Client implements config.Store: under the refinement mapping of     *)
(* CrdClientStore every initial state of the client is one of the store,   *)
(* and every step of it one of the store or a stutter.                     *)
(***************************************************************************)
EXTENDS CrdClientStore, CrdClientProofs, SequenceTheorems

-----------------------------------------------------------------------------
(* The inductive invariant, on top of IInv and TInv: only mutators are set *)
(* adrift, and the log keeps its bound.                                    *)

RInv ==
    /\ Len(log) <= MaxRev
    /\ \A s \in Slots : late[s] # NoRequest => Mutator(late[s])

(* The bound and the mutators adrift, step by step.                        *)
LEMMA RInvNext == IInv /\ RInv /\ [Next]_vars => RInv'
<1> SUFFICES ASSUME IInv, RInv, [Next]_vars PROVE RInv'
  OBVIOUS
<1>0. log \in Seq(Writes) /\ late \in [Slots -> Requests \cup {NoRequest}] /\ MaxRev \in Nat
  BY CrdClientAssumption DEF IInv, TypeOK
<1>a. Len(log) \in Nat
  BY <1>0
<1>1. log' = log \/ (Len(log) < MaxRev /\ \E w : log' = Append(log, w))
  <2>1. ASSUME NEW req, Applies(req) PROVE Len(log) < MaxRev /\ \E w : log' = Append(log, w)
    BY <2>1 DEF Applies, Write
  <2>2. OtherWrite => Len(log) < MaxRev /\ \E w : log' = Append(log, w)
    BY DEF OtherWrite, Write
  <2>3. ASSUME NEW c \in Callers, Call(c) PROVE log' = log
    BY <2>3 DEF Call, Create, Update, Delete, Get, List, Ask, Fails, Sends
  <2>4. ASSUME NEW c \in Callers, Return(c) PROVE log' = log
    BY <2>4 DEF Return, ReturnWrite, ReturnDelete, ReturnGet, ReturnList
  <2>5. ASSUME NEW c \in Callers, Serve(c) PROVE log' = log \/ Applies(call[c].req)
    BY <2>5 DEF Serve
  <2>6. ASSUME NEW c \in Callers, Lose(c) PROVE log' = log
    BY <2>6 DEF Lose
  <2>7. ASSUME NEW s \in Slots, ServeLate(s) PROVE log' = log \/ Applies(late[s])
    BY <2>7 DEF ServeLate
  <2> QED
    BY <2>1, <2>2, <2>3, <2>4, <2>5, <2>6, <2>7 DEF Next, vars
<1>2. Len(log') <= MaxRev
  <2>1. CASE log' = log
    BY <2>1 DEF RInv
  <2>2. CASE Len(log) < MaxRev /\ \E w : log' = Append(log, w)
    <3>1. PICK w : log' = Append(log, w)
      BY <2>2
    <3>2. Len(log') = Len(log) + 1
      BY <1>0, <3>1
    <3> QED
      BY <1>0, <1>a, <2>2, <3>2
  <2> QED
    BY <1>1, <2>1, <2>2
<1>3. ASSUME NEW s \in Slots, late'[s] # NoRequest PROVE Mutator(late'[s])
  <2>1. ASSUME UNCHANGED late PROVE Mutator(late'[s])
    BY <2>1, <1>3 DEF RInv
  <2>2. ASSUME NEW c \in Callers, Call(c) PROVE UNCHANGED late
    BY <2>2 DEF Call, Create, Update, Delete, Get, List, Ask, Fails, Sends
  <2>3. ASSUME NEW c \in Callers, Return(c) PROVE UNCHANGED late
    BY <2>3 DEF Return, ReturnWrite, ReturnDelete, ReturnGet, ReturnList
  <2>4. ASSUME NEW c \in Callers, Serve(c) PROVE UNCHANGED late
    BY <2>4 DEF Serve
  <2>5. ASSUME NEW c \in Callers, Lose(c) PROVE Mutator(late'[s])
    <3>1. CASE UNCHANGED late
      BY <3>1, <2>1
    <3>2. CASE ~ UNCHANGED late
      <4>1. PICK t \in Slots : late' = [late EXCEPT ![t] = call[c].req]
        BY <2>5, <3>2 DEF Lose
      <4>2. Mutator(call[c].req)
        BY <2>5, <3>2 DEF Lose
      <4>3. CASE s = t
        BY <1>0, <4>1, <4>2, <4>3
      <4>4. CASE s # t
        BY <1>0, <1>3, <4>1, <4>4 DEF RInv
      <4> QED
        BY <4>3, <4>4
    <3> QED
      BY <3>1, <3>2
  <2>6. ASSUME NEW t \in Slots, ServeLate(t) PROVE Mutator(late'[s])
    <3>1. late' = [late EXCEPT ![t] = NoRequest]
      BY <2>6 DEF ServeLate
    <3>2. s # t /\ late'[s] = late[s]
      BY <1>0, <1>3, <3>1
    <3> QED
      BY <1>3, <3>2 DEF RInv
  <2>7. OtherWrite => UNCHANGED late
    BY DEF OtherWrite, clientVars
  <2> QED
    BY <2>1, <2>2, <2>3, <2>4, <2>5, <2>6, <2>7 DEF Next, vars
<1> QED
  BY <1>2, <1>3 DEF RInv

(* The three invariants hold together.                                     *)
LEMMA RefinementInvariantOK == WellTyped => (Spec => [](IInv /\ TInv /\ RInv))
<1>1. Init => RInv
  <2>1. Len(<< >>) = 0 /\ MaxRev \in Nat
    BY CrdClientAssumption
  <2> QED
    BY <2>1 DEF Init, RInv
<1>2. CASE WellTyped
  BY <1>1, <1>2, RInvNext, TypedInvariantOK, PTL DEF Spec
<1> QED
  BY <1>2

-----------------------------------------------------------------------------
(* What the mapping makes of requests, entries and the log. *)

WriteContents == StoreContents \cup {Absent, Opaque}

HistWrites == [key : Keys, content : WriteContents]

AnyMutation == [op : {"Create", "Update", "Delete"}, key : Keys, rev : Nat,
                content : StoreContents \cup {Absent}]

(* What an object means under its key.                                     *)
LEMMA ContentOfOK ==
    ASSUME NEW k \in Keys, NEW obj \in Objects \cup {NoObject}
    PROVE  /\ ContentOf(k, obj) \in WriteContents
           /\ ContentOf(k, obj) = Absent <=> obj = NoObject
           /\ obj # NoObject /\ Decodes(k[1], obj.json) =>
                /\ ContentOf(k, obj) = [ann |-> obj.ann,
                                        spec |-> [msg |-> k[1], body |-> obj.json.body]]
                /\ ContentOf(k, obj) \in StoreContents
<1>1. CASE obj = NoObject
  BY <1>1 DEF ContentOf, WriteContents
<1>2. CASE obj # NoObject /\ Decodes(k[1], obj.json)
  <2>1. PICK t : t = ContentOf(k, obj)
    OBVIOUS
  <2>2. t = [ann |-> obj.ann, spec |-> [msg |-> k[1], body |-> obj.json.body]]
    BY <1>2, <2>1 DEF ContentOf, FromJSONMap
  <2>3. t \in StoreContents
    BY <1>2, <2>2 DEF StoreContents, Objects, Json, Messages, Keys
  <2> QED
    BY <1>2, <2>1, <2>2, <2>3, CrdClientStoreAssumption DEF WriteContents
<1>3. CASE obj # NoObject /\ ~Decodes(k[1], obj.json)
  BY <1>3, CrdClientStoreAssumption DEF ContentOf, WriteContents
<1> QED
  BY <1>1, <1>2, <1>3

(* A mutator on the wire asks for one mutation, and is none of the others. *)
LEMMA MutationOfOK ==
    ASSUME NEW req, RequestOK(req), RequestDecodes(req), Mutator(req)
    PROVE  /\ MutationOf(req) \in AnyMutation
           /\ MutationOf(req) # NoMutation
           /\ MutationOf(req).key = req.key /\ MutationOf(req).rev = req.rev
           /\ MutationOf(req).content = ContentOf(req.key, req.obj)
           /\ req.verb = "POST" => MutationOf(req).op = "Create"
           /\ req.verb = "PUT" => MutationOf(req).op = "Update"
           /\ req.verb = "DELETE" => MutationOf(req).op = "Delete"
           /\ req # NoRequest
<1>1. req.key \in Keys /\ req.rev \in Nat /\ req.obj \in Objects \cup {NoObject}
      /\ req.verb \in {"POST", "PUT", "DELETE"} /\ req # NoRequest
  BY CrdClientAssumption DEF RequestOK, Requests, Mutator
<1>2. /\ req.verb = "POST" => OpOf(req.verb) = "Create"
      /\ req.verb = "PUT" => OpOf(req.verb) = "Update"
      /\ req.verb = "DELETE" => OpOf(req.verb) = "Delete"
  BY DEF OpOf
<1>3. ContentOf(req.key, req.obj) \in StoreContents \cup {Absent}
  BY <1>1, ContentOfOK DEF RequestDecodes
<1>4. MutationOf(req) \in AnyMutation
  BY <1>1, <1>2, <1>3 DEF MutationOf, AnyMutation
<1>5. MutationOf(req) # NoMutation
  BY <1>4, CrdClientStoreAssumption DEF AnyMutation
<1> QED
  BY <1>1, <1>2, <1>4, <1>5 DEF MutationOf

(* Writes map to writes of the abstract history.                           *)
LEMMA WriteOfOK ==
    ASSUME NEW w \in Writes
    PROVE  WriteOf(w) \in HistWrites
BY ContentOfOK DEF WriteOf, HistWrites, Writes

(* The abstract history is the log, write by write.                        *)
HistOf(l) == [i \in 1..Len(l) |-> WriteOf(l[i])]

(* The history is as long as the log and has its writes decoded.           *)
LEMMA HistOfOK ==
    ASSUME NEW l \in Seq(Writes)
    PROVE  /\ HistOf(l) \in Seq(HistWrites) /\ Len(HistOf(l)) = Len(l)
           /\ \A i \in 1..Len(l) : HistOf(l)[i] = WriteOf(l[i])
<1>1. PICK n \in Nat : n = Len(l)
  OBVIOUS
<1>2. \A i \in 1..n : l[i] \in Writes
  BY <1>1
<1>3. PICK h : h = HistOf(l)
  OBVIOUS
<1>4. h \in [1..n -> HistWrites] /\ \A i \in 1..n : h[i] = WriteOf(l[i])
  BY <1>1, <1>2, <1>3, WriteOfOK DEF HistOf
<1>5. h \in Seq(HistWrites) /\ Len(h) = n
  BY <1>4
<1> QED
  BY <1>1, <1>3, <1>4, <1>5

(* A write appended to the log is one appended to the abstract history.    *)
LEMMA HistGrows ==
    ASSUME log \in Seq(Writes), NEW w \in Writes, log' = Append(log, w)
    PROVE  histBar' = Append(histBar, WriteOf(w))
<1>0. log' \in Seq(Writes) /\ Len(log') = Len(log) + 1 /\ log'[Len(log) + 1] = w
      /\ Len(log) \in Nat /\ \A i \in 1..Len(log) : log'[i] = log[i]
  OBVIOUS
<1>1. PICK h \in Seq(HistWrites) : h = HistOf(log)
  BY HistOfOK
<1>2. PICK g \in Seq(HistWrites) : g = HistOf(log')
  BY <1>0, HistOfOK
<1>3. PICK x \in HistWrites : x = WriteOf(w)
  BY WriteOfOK
<1>4. Len(h) = Len(log) /\ \A i \in 1..Len(log) : h[i] = WriteOf(log[i])
  BY <1>1, HistOfOK
<1>5. Len(g) = Len(log') /\ \A i \in 1..Len(log') : g[i] = WriteOf(log'[i])
  BY <1>0, <1>2, HistOfOK
<1>6. Len(g) = Len(h) + 1 /\ \A i \in 1..Len(h) : g[i] = h[i]
  BY <1>0, <1>4, <1>5
<1>7. g[Len(h) + 1] = x
  BY <1>0, <1>3, <1>4, <1>5
<1>8. g = Append(h, x)
  BY <1>6, <1>7, SeqEqual
<1>9. histBar = h /\ histBar' = g
  BY <1>1, <1>2 DEF histBar, HistOf
<1> QED
  BY <1>3, <1>8, <1>9

(* What the store calls the last write of a key is its revision, and a key *)
(* is present when its object is live.                                     *)
LEMMA LastWriteIsRevision ==
    ASSUME IInv, NEW k \in Keys
    PROVE  /\ Store!LastWrite(k) = RevisionOf(k)
           /\ Store!Present(k) <=> Live(k)
<1>0. log \in Seq(Writes) /\ LastWriteExists /\ histBar = HistOf(log)
  BY DEF IInv, TypeOK, histBar, HistOf
<1>1. PICK n \in Nat : n = Len(log)
  BY <1>0
<1>2. PICK h : h = histBar
  OBVIOUS
<1>3. /\ Len(h) = n
      /\ \A i \in 1..n : h[i].key = log[i].key /\ h[i].content = ContentOf(log[i].key, log[i].obj)
  <2>1. Len(h) = n /\ \A i \in 1..n : h[i] = WriteOf(log[i])
    BY <1>0, <1>1, <1>2, HistOfOK
  <2>2. ASSUME NEW w
        PROVE  WriteOf(w).key = w.key /\ WriteOf(w).content = ContentOf(w.key, w.obj)
    BY DEF WriteOf
  <2> QED
    BY <2>1, <2>2
<1>4. ASSUME NEW i \in 0..n
      PROVE  IsLastWrite(i, n, k) <=> /\ i # 0 => h[i].key = k
                                      /\ \A j \in (i+1)..n : h[j].key # k
  BY <1>3 DEF IsLastWrite
<1>5. PICK r : r = RevisionOf(k)
  OBVIOUS
<1>6. r \in 0..n /\ IsLastWrite(r, n, k)
  BY <1>0, <1>1, <1>5, RevisionAtIsLastWrite DEF RevisionOf
<1>7. PICK l : l = Store!LastWrite(k)
  OBVIOUS
<1>8. l = CHOOSE i \in 0..n : /\ i # 0 => h[i].key = k
                              /\ \A j \in (i+1)..n : h[j].key # k
  BY <1>2, <1>3, <1>7 DEF Store!LastWrite
<1>9. l \in 0..n /\ IsLastWrite(l, n, k)
  BY <1>4, <1>6, <1>8
<1>10. l = r
  BY <1>0, <1>1, <1>6, <1>9, LastWriteIsUnique
<1>11. Store!Present(k) <=> r # 0 /\ h[r].content # Absent
  BY <1>2, <1>7, <1>10 DEF Store!Present
<1>12. Live(k) <=> r # 0 /\ log[r].obj # NoObject
  BY <1>5 DEF Live, ObjectOf, ObjectAt, RevisionOf
<1>13. r # 0 => (h[r].content = Absent <=> log[r].obj = NoObject)
  <2>1. r # 0 => log[r] \in Writes /\ h[r].content = ContentOf(log[r].key, log[r].obj)
    BY <1>0, <1>1, <1>3, <1>6
  <2> QED
    BY <2>1, ContentOfOK DEF Writes
<1> QED
  BY <1>5, <1>7, <1>10, <1>11, <1>12, <1>13

(* A mutator the server applies is a mutation that takes effect.           *)
LEMMA AppliedTakesEffect ==
    ASSUME IInv, NEW req, RequestOK(req), RequestDecodes(req), Mutator(req), Applies(req)
    PROVE  Store!TakesEffect(MutationOf(req))
<1>0. log \in Seq(Writes) /\ Len(histBar) = Len(log)
  BY HistOfOK DEF IInv, TypeOK, histBar, HistOf
<1>1. PICK m : m = MutationOf(req)
  OBVIOUS
<1>2. /\ m.key = req.key /\ m.rev = req.rev /\ m.content = ContentOf(req.key, req.obj)
      /\ req.verb = "POST" => m.op = "Create"
      /\ req.verb = "PUT" => m.op = "Update"
      /\ req.verb = "DELETE" => m.op = "Delete"
  BY <1>1, MutationOfOK
<1>3. req.key \in Keys /\ (req.verb = "PUT" => req.rev # 0)
  BY DEF RequestOK, Extends, Mutator
<1>4. /\ Store!LastWrite(req.key) = RevisionOf(req.key)
      /\ Store!Present(req.key) <=> Live(req.key)
  BY <1>3, LastWriteIsRevision
<1>5. Store!Permitted(m)
  <2>1. Accepts(req.verb, req.key, req.rev)
    BY DEF Applies
  <2>2. CASE req.verb = "POST" /\ ~Live(req.key)
    BY <1>2, <1>4, <2>2 DEF Store!Permitted
  <2>3. CASE req.verb = "PUT" /\ Live(req.key) /\ req.rev = RevisionOf(req.key)
    BY <1>2, <1>4, <2>3 DEF Store!Permitted
  <2>4. CASE req.verb = "DELETE" /\ Live(req.key)
    BY <1>2, <1>4, <2>4 DEF Store!Permitted
  <2> QED
    BY <1>3, <2>1, <2>2, <2>3, <2>4 DEF Accepts
<1>6. Len(histBar) < MaxRev
  BY <1>0 DEF Applies
<1>7. PICK w : w = [key |-> req.key, obj |-> req.obj, by |-> "client"]
  OBVIOUS
<1>8. w \in Writes /\ log' = Append(log, w)
  BY <1>3, <1>7, CrdClientAssumption DEF Applies, Write, Writes, RequestOK, Requests
<1>9. histBar' = Append(histBar, WriteOf(w))
  BY <1>0, <1>8, HistGrows
<1>10. WriteOf(w) = [key |-> m.key, content |-> m.content]
  BY <1>2, <1>7 DEF WriteOf
<1> QED
  BY <1>1, <1>5, <1>6, <1>9, <1>10 DEF Store!TakesEffect

-----------------------------------------------------------------------------
(* How the mapping changes when one call, entry or late request does. *)

(* The refinement mapping gives every caller and slot a value.             *)
LEMMA BarsAreFunctions ==
    /\ openBar \in [Callers -> {openBar[c] : c \in Callers}]
    /\ \A c \in Callers : openBar[c] = OpenOf(call[c])
    /\ \A c \in Callers : holdsBar[c] = HoldOf(held[c])
    /\ \A s \in Slots : adriftBar[s] = AdriftOf(late[s])
BY DEF openBar, holdsBar, adriftBar

(* A step that replaces the call of c replaces what c has open.            *)
LEMMA OpenChanges ==
    ASSUME IInv, NEW c \in Callers, NEW cl, call' = [call EXCEPT ![c] = cl]
    PROVE  openBar' = [openBar EXCEPT ![c] = OpenOf(cl)]
<1>1. \A d \in Callers : call'[d] = IF d = c THEN cl ELSE call[d]
  BY DEF IInv, TypeOK
<1>2. PICK o : o = OpenOf(cl)
  OBVIOUS
<1>3. \A d \in Callers : OpenOf(call'[d]) = IF d = c THEN o ELSE OpenOf(call[d])
  BY <1>1, <1>2
<1>4. openBar' = [d \in Callers |-> OpenOf(call'[d])]
  BY DEF openBar
<1>5. openBar' = [d \in Callers |-> IF d = c THEN o ELSE OpenOf(call[d])]
  BY <1>3, <1>4
<1>6. [openBar EXCEPT ![c] = o] = [d \in Callers |-> IF d = c THEN o ELSE OpenOf(call[d])]
  BY DEF openBar
<1> QED
  BY <1>2, <1>5, <1>6

(* A step that replaces the entry c holds replaces what c has in hand.     *)
LEMMA HoldsChanges ==
    ASSUME IInv, NEW c \in Callers, NEW e, held' = [held EXCEPT ![c] = e]
    PROVE  holdsBar' = [holdsBar EXCEPT ![c] = HoldOf(e)]
<1>1. \A d \in Callers : held'[d] = IF d = c THEN e ELSE held[d]
  BY DEF IInv, TypeOK
<1>2. PICK o : o = HoldOf(e)
  OBVIOUS
<1>3. \A d \in Callers : HoldOf(held'[d]) = IF d = c THEN o ELSE HoldOf(held[d])
  BY <1>1, <1>2
<1>4. holdsBar' = [d \in Callers |-> HoldOf(held'[d])]
  BY DEF holdsBar
<1>5. holdsBar' = [d \in Callers |-> IF d = c THEN o ELSE HoldOf(held[d])]
  BY <1>3, <1>4
<1>6. [holdsBar EXCEPT ![c] = o] = [d \in Callers |-> IF d = c THEN o ELSE HoldOf(held[d])]
  BY DEF holdsBar
<1> QED
  BY <1>2, <1>5, <1>6

(* A step that fills or empties slot s sets one mutation adrift, or none.  *)
LEMMA AdriftChanges ==
    ASSUME IInv, NEW s \in Slots, NEW req, late' = [late EXCEPT ![s] = req]
    PROVE  adriftBar' = [adriftBar EXCEPT ![s] = AdriftOf(req)]
<1>1. \A t \in Slots : late'[t] = IF t = s THEN req ELSE late[t]
  BY DEF IInv, TypeOK
<1>2. PICK o : o = AdriftOf(req)
  OBVIOUS
<1>3. \A t \in Slots : AdriftOf(late'[t]) = IF t = s THEN o ELSE AdriftOf(late[t])
  BY <1>1, <1>2
<1>4. adriftBar' = [t \in Slots |-> AdriftOf(late'[t])]
  BY DEF adriftBar
<1>5. adriftBar' = [t \in Slots |-> IF t = s THEN o ELSE AdriftOf(late[t])]
  BY <1>3, <1>4
<1>6. [adriftBar EXCEPT ![s] = o] = [t \in Slots |-> IF t = s THEN o ELSE AdriftOf(late[t])]
  BY DEF adriftBar
<1> QED
  BY <1>2, <1>5, <1>6

(* What does not change is mapped to what does not change.                 *)
LEMMA BarsStay ==
    /\ UNCHANGED log => UNCHANGED histBar
    /\ UNCHANGED call => UNCHANGED openBar
    /\ UNCHANGED late => UNCHANGED adriftBar
    /\ UNCHANGED held => UNCHANGED holdsBar
BY DEF histBar, openBar, adriftBar, holdsBar

-----------------------------------------------------------------------------
(* The steps. *)

StoreStep == [Store!StoreNext]_(Store!storeVars)

(* A step that leaves what is mapped alone is a stutter of the store.      *)
LEMMA StutterRefined ==
    ASSUME UNCHANGED <<histBar, openBar, adriftBar, holdsBar>>
    PROVE  StoreStep
BY DEF StoreStep, Store!storeVars

(* Nothing is open for a caller without a call, or with a read.            *)
LEMMA NothingIsOpen ==
    /\ OpenOf(NoCall) = Store!NothingOpen
    /\ \A cl : ~Mutator(cl.req) => OpenOf(cl) = Store!NothingOpen
BY DEF OpenOf, NoCall, Store!NothingOpen

(* What a call with a mutator has open.                                    *)
LEMMA MutationIsOpen ==
    ASSUME NEW cl, RequestOK(cl.req), RequestDecodes(cl.req), Mutator(cl.req)
    PROVE  /\ OpenOf(cl) = [mutation |-> MutationOf(cl.req),
                            done |-> IF cl.reply = NoReply THEN 0 ELSE cl.reply.rev]
           /\ OpenOf(cl).mutation = MutationOf(cl.req)
           /\ OpenOf(cl).mutation # NoMutation
           /\ cl.reply = NoReply => OpenOf(cl).done = 0
           /\ cl.reply # NoReply => OpenOf(cl).done = cl.reply.rev
<1>1. cl.req # NoRequest /\ MutationOf(cl.req) # NoMutation
  BY MutationOfOK
<1> QED
  BY <1>1 DEF OpenOf

(* A new entry is one the caller made up.                                  *)
LEMMA NewEntryIsMadeUp ==
    ASSUME IInv, NEW c \in Callers, NEW e \in NewEntries, held' = [held EXCEPT ![c] = e]
    PROVE  Store!MakeUp(c)
<1>1. e \in Entries /\ e.rev = 0 /\ e # NoEntry /\ MaxRev \in Nat
  BY CrdClientAssumption
<1>2. PICK o : o = HoldOf(e)
  OBVIOUS
<1>3. o = [key |-> <<e.typ, e.name>>, rev |-> 0, content |-> [ann |-> e.ann, spec |-> e.spec]]
  BY <1>1, <1>2 DEF HoldOf
<1>4. o \in Store!StoredEntries /\ o.rev = 0
  BY <1>1, <1>3 DEF Store!StoredEntries, Store!Revisions, StoreContents, Keys, Entries
<1>5. holdsBar' = [holdsBar EXCEPT ![c] = o]
  BY <1>2, HoldsChanges
<1>6. holdsBar'[c] = o
  BY <1>5 DEF holdsBar
<1> QED
  BY <1>4, <1>5, <1>6 DEF Store!MakeUp

(* A mutator goes out.                                                     *)
LEMMA SendingAsks ==
    ASSUME IInv, NEW c \in Callers, Idle(c), NEW entry, NEW req, Sends(c, entry, req),
           RequestOK(req), RequestDecodes(req), Mutator(req), req.rev \in 0..MaxRev,
           Store!MakeUp(c) \/ UNCHANGED holdsBar
    PROVE  StoreStep
<1>1. PICK cl : cl = [entry |-> entry, req |-> req, reply |-> NoReply]
  OBVIOUS
<1>2. cl.req = req /\ cl.reply = NoReply /\ call' = [call EXCEPT ![c] = cl]
  BY <1>1 DEF Sends
<1>3. PICK m : m = MutationOf(req)
  OBVIOUS
<1>4. m \in Store!Mutations
  BY <1>3, MutationOfOK DEF AnyMutation, Store!Mutations, Store!Revisions
<1>5. PICK o : o = OpenOf(cl)
  OBVIOUS
<1>6. o = [mutation |-> m, done |-> 0]
  BY <1>2, <1>3, <1>5, MutationIsOpen
<1>7. openBar[c] = Store!NothingOpen
  BY BarsAreFunctions, NothingIsOpen DEF Idle
<1>8. openBar' = [openBar EXCEPT ![c] = o]
  BY <1>2, <1>5, OpenChanges
<1>9. openBar'[c] = o /\ openBar'[c].mutation = m
  BY <1>6, <1>8 DEF openBar
<1>10. [openBar[c] EXCEPT !.mutation = m] = o
  BY <1>6, <1>7 DEF Store!NothingOpen
<1>11. openBar' = [openBar EXCEPT ![c].mutation = m]
  BY <1>8, <1>10
<1>12. UNCHANGED <<histBar, adriftBar>>
  BY BarsStay DEF Sends
<1>13. Store!Ask(c)
  BY <1>4, <1>7, <1>9, <1>11, <1>12 DEF Store!Ask
<1> QED
  BY <1>13 DEF StoreStep, Store!StoreNext

(* A new entry is refused, or asked to be created.                         *)
LEMMA CreateRefined ==
    ASSUME WellTyped, IInv, TInv, NEW c \in Callers, Create(c)
    PROVE  StoreStep
<1>1. PICK e \in NewEntries :
        /\ held' = [held EXCEPT ![c] = e]
        /\ \/ Fails(c, "Create", <<e.typ, e.name>>)
           \/ Sends(c, e, convertConfig("POST", e))
  BY DEF Create
<1>2. Store!MakeUp(c)
  BY <1>1, NewEntryIsMadeUp
<1>3. CASE Fails(c, "Create", <<e.typ, e.name>>)
  <2>1. UNCHANGED <<histBar, openBar, adriftBar>>
    BY <1>3, BarsStay DEF Fails
  <2>2. Store!Prepare(c)
    BY <1>2, <2>1 DEF Store!Prepare
  <2> QED
    BY <2>2 DEF StoreStep, Store!StoreNext
<1>4. CASE Sends(c, e, convertConfig("POST", e))
  <2>1. e \in Entries /\ e.rev = 0 /\ Typed(e) /\ MaxRev \in Nat
    BY CrdClientAssumption DEF WellTyped, Typed
  <2>2. PICK req : req = convertConfig("POST", e)
    OBVIOUS
  <2>3. RequestOK(req) /\ req.verb = "POST" /\ req.rev = 0
    BY <2>1, <2>2, ConvertConfigOK DEF RequestOK
  <2>4. RequestDecodes(req)
    BY <2>1, <2>2, ConvertConfigDecodes
  <2>5. Mutator(req) /\ req.rev \in 0..MaxRev
    BY <2>1, <2>3 DEF Mutator
  <2>6. Idle(c) /\ Sends(c, e, req)
    BY <1>4, <2>2 DEF Create
  <2> QED
    BY <1>2, <2>3, <2>4, <2>5, <2>6, SendingAsks
<1> QED
  BY <1>1, <1>3, <1>4

(* An update is refused, or asked for at the revision the entry carries.   *)
LEMMA UpdateRefined ==
    ASSUME IInv, TInv, RInv, NEW c \in Callers, Update(c)
    PROVE  StoreStep
<1>0. Idle(c) /\ UNCHANGED holdsBar
  BY BarsStay DEF Update
<1>1. PICK h : h = held[c]
  OBVIOUS
<1>2. h \in Entries /\ HeldOK(h) /\ Typed(h) /\ h # NoEntry
  BY <1>1 DEF Update, IInv, TypeOK, TInv
<1>3. PICK e \in Edits(h) :
        \/ Fails(c, "Update", <<e.typ, e.name>>)
        \/ CanUpdate(e) /\ Sends(c, e, convertConfig("PUT", e))
  BY <1>1 DEF Update
<1>4. CASE Fails(c, "Update", <<e.typ, e.name>>)
  BY <1>0, <1>4, BarsStay, StutterRefined DEF Fails
<1>5. CASE CanUpdate(e) /\ Sends(c, e, convertConfig("PUT", e))
  <2>1. /\ e \in Entries /\ e.typ = h.typ /\ e.name = h.name /\ e.ann = h.ann
        /\ e.rev = h.rev /\ e.spec.msg = h.spec.msg /\ h.spec.body \subseteq e.spec.body
    BY <1>2, EditsOK
  <2>2. Typed(e) /\ e.rev # 0 /\ Covers(h)
    BY <1>2, <1>5, <2>1 DEF Typed, CanUpdate, HeldOK
  <2>3. PICK req : req = convertConfig("PUT", e)
    OBVIOUS
  <2>4. /\ req \in Requests /\ req.verb = "PUT" /\ req.key = <<e.typ, e.name>>
        /\ req.key \in Keys /\ req.rev = e.rev /\ req.obj \in Objects
        /\ req.obj.ann = e.ann /\ req.obj.json.body = e.spec.body
    BY <2>1, <2>3, ConvertConfigOK
  <2>5. Extends(req)
    BY <2>1, <2>2, <2>4 DEF Extends, Covers
  <2>6. RequestOK(req) /\ Mutator(req)
    BY <2>4, <2>5 DEF RequestOK, Mutator
  <2>7. RequestDecodes(req)
    BY <2>1, <2>2, <2>3, ConvertConfigDecodes
  <2>8. req.rev \in 0..MaxRev
    <3>1. Len(log) \in Nat /\ MaxRev \in Nat /\ Len(log) <= MaxRev
      BY CrdClientAssumption DEF IInv, TypeOK, RInv
    <3> QED
      BY <2>5, <3>1 DEF Extends
  <2> QED
    BY <1>0, <1>5, <2>3, <2>6, <2>7, <2>8, SendingAsks
<1> QED
  BY <1>3, <1>4, <1>5

(* A query, or a delete, is refused or sent.                               *)
LEMMA AskRefined ==
    ASSUME IInv, NEW c \in Callers, NEW op, NEW verb \in {"GET", "DELETE", "LIST"}, NEW ks,
           ks = IF verb = "LIST" THEN Types \X {NoName} ELSE Keys, Ask(c, op, verb, ks)
    PROVE  StoreStep
<1>0. Idle(c) /\ UNCHANGED holdsBar
  BY BarsStay DEF Ask
<1>1. PICK k \in ks : Fails(c, op, k) \/ Sends(c, NoEntry, Query(verb, k))
  BY DEF Ask
<1>2. CASE Fails(c, op, k)
  BY <1>0, <1>2, BarsStay, StutterRefined DEF Fails
<1>3. CASE Sends(c, NoEntry, Query(verb, k))
  <2>1. PICK req : req = Query(verb, k)
    OBVIOUS
  <2>2. req.verb = verb /\ req.key = k /\ req.obj = NoObject /\ req.rev = 0
    BY <2>1 DEF Query
  <2>3. CASE verb = "DELETE"
    <3>1. RequestOK(req)
      <4>1. k \in Keys /\ k \in Types \X (Names \cup {NoName})
        BY <2>3 DEF Keys
      <4>2. req \in Requests
        BY <2>1, <2>3, <4>1 DEF Query, Requests, Verbs
      <4> QED
        BY <2>2, <2>3, <4>1, <4>2 DEF RequestOK
    <3>2. RequestDecodes(req) /\ Mutator(req) /\ req.rev \in 0..MaxRev
      BY <2>2, <2>3, CrdClientAssumption DEF RequestDecodes, Mutator
    <3> QED
      BY <1>0, <1>3, <2>1, <3>1, <3>2, SendingAsks
  <2>4. CASE verb # "DELETE"
    <3>1. PICK cl : cl = [entry |-> NoEntry, req |-> req, reply |-> NoReply]
      OBVIOUS
    <3>2. cl.req = req /\ call' = [call EXCEPT ![c] = cl]
      BY <1>3, <2>1, <3>1 DEF Sends
    <3>3. ~Mutator(cl.req)
      BY <2>2, <2>4, <3>2 DEF Mutator
    <3>4. openBar' = [openBar EXCEPT ![c] = Store!NothingOpen]
      BY <3>2, <3>3, OpenChanges, NothingIsOpen
    <3>5. openBar[c] = Store!NothingOpen
      BY <1>0, BarsAreFunctions, NothingIsOpen DEF Idle
    <3>6. UNCHANGED openBar
      BY <3>4, <3>5 DEF openBar
    <3> QED
      BY <1>0, <1>3, <3>6, BarsStay, StutterRefined DEF Sends
  <2> QED
    BY <2>3, <2>4
<1> QED
  BY <1>1, <1>2, <1>3

(* What the server applies takes effect; what it refuses, and a read, is   *)
(* nothing to the store.                                                   *)
LEMMA ServeRefined ==
    ASSUME IInv, TInv, NEW c \in Callers, Serve(c)
    PROVE  StoreStep
<1>0. /\ Sent(c) /\ UNCHANGED <<adriftBar, holdsBar>>
      /\ call \in [Callers -> CallType] /\ Len(log) \in Nat
  BY BarsStay DEF Serve, IInv, TypeOK, CallType
<1>1. PICK cl \in CallType : cl = call[c]
  BY <1>0
<1>2. cl # NoCall /\ cl.reply = NoReply
  BY <1>0, <1>1 DEF Sent, NoCall
<1>3. RequestOK(cl.req) /\ RequestDecodes(cl.req)
  BY <1>1, <1>2 DEF IInv, TInv, CallOK, CallTyped
<1>4. ASSUME NEW ok, NEW rev, Answer(c, ok, rev), ~Mutator(cl.req) \/ rev = 0
      PROVE  UNCHANGED openBar
  <2>1. PICK x : x = [cl EXCEPT !.reply = [ok |-> ok, rev |-> rev]]
    OBVIOUS
  <2>2. x.req = cl.req /\ x.reply.rev = rev /\ call' = [call EXCEPT ![c] = x]
    BY <1>1, <1>4, <2>1 DEF Answer, CallType
  <2>3. OpenOf(x) = OpenOf(cl)
    BY <1>2, <1>4, <2>2 DEF OpenOf
  <2>4. openBar' = [openBar EXCEPT ![c] = OpenOf(cl)]
    BY <2>2, <2>3, OpenChanges
  <2>5. openBar[c] = OpenOf(cl)
    BY <1>1 DEF openBar
  <2> QED
    BY <2>4, <2>5 DEF openBar
<1>5. CASE Mutator(cl.req) /\ Applies(cl.req) /\ Answer(c, TRUE, Len(log) + 1)
  <2>1. PICK rev \in Nat : rev = Len(log) + 1
    BY <1>0
  <2>2. PICK reply : reply = [ok |-> TRUE, rev |-> rev]
    OBVIOUS
  <2>3. PICK x : x = [cl EXCEPT !.reply = reply]
    OBVIOUS
  <2>4. reply.rev = rev /\ reply # NoReply
    <3>1. reply \in Replies /\ reply.rev = rev
      BY <2>2 DEF Replies
    <3> QED
      BY <3>1, CrdClientAssumption
  <2>5. x.req = cl.req /\ x.reply = reply /\ call' = [call EXCEPT ![c] = x]
    BY <1>1, <1>5, <2>1, <2>2, <2>3 DEF Answer, CallType
  <2>6. PICK m : m = MutationOf(cl.req)
    OBVIOUS
  <2>7. PICK o : o = OpenOf(cl)
    OBVIOUS
  <2>8. o = [mutation |-> m, done |-> 0] /\ m # NoMutation
    BY <1>2, <1>3, <1>5, <2>6, <2>7, MutationIsOpen
  <2>9. OpenOf(x) = [mutation |-> m, done |-> rev]
    BY <1>3, <1>5, <2>4, <2>5, <2>6, MutationIsOpen
  <2>10. OpenOf(x) = [o EXCEPT !.done = rev]
    BY <2>8, <2>9
  <2>11. openBar' = [openBar EXCEPT ![c] = [o EXCEPT !.done = rev]]
    BY <2>5, <2>10, OpenChanges
  <2>12. openBar[c] = o
    BY <1>1, <2>7 DEF openBar
  <2>13. openBar' = [openBar EXCEPT ![c].done = rev]
    BY <2>11, <2>12
  <2>14. Store!TakesEffect(m)
    BY <1>3, <1>5, <2>6, AppliedTakesEffect
  <2>15. Len(histBar) = Len(log)
    BY HistOfOK DEF IInv, TypeOK, histBar, HistOf
  <2>16. openBar[c].mutation = m /\ openBar[c].done = 0
    BY <2>8, <2>12
  <2>17. Store!Effect(c)
    BY <1>0, <2>1, <2>8, <2>13, <2>14, <2>15, <2>16 DEF Store!Effect
  <2> QED
    BY <2>17 DEF StoreStep, Store!StoreNext
<1>6. CASE Answer(c, FALSE, 0) /\ UNCHANGED log
  BY <1>0, <1>4, <1>6, BarsStay, StutterRefined
<1>7. CASE cl.req.verb \in {"LIST", "GET"} /\ UNCHANGED log
           /\ \E ok, rev : Answer(c, ok, rev)
  <2>1. ~Mutator(cl.req)
    BY <1>7 DEF Mutator
  <2> QED
    BY <1>0, <1>4, <1>7, <2>1, BarsStay, StutterRefined
<1> QED
  BY <1>1, <1>5, <1>6, <1>7 DEF Serve

(* A request adrift takes effect late, or never.                           *)
LEMMA ServeLateRefined ==
    ASSUME IInv, TInv, RInv, NEW s \in Slots, ServeLate(s)
    PROVE  StoreStep
<1>1. PICK req : req = late[s]
  OBVIOUS
<1>2. /\ RequestOK(req) /\ RequestDecodes(req) /\ Mutator(req) /\ req # NoRequest
      /\ Applies(req) \/ UNCHANGED log
  BY <1>1 DEF ServeLate, IInv, TInv, RInv
<1>3. PICK m : m = MutationOf(req)
  OBVIOUS
<1>4. adriftBar[s] = m /\ m # NoMutation
  BY <1>1, <1>2, <1>3, MutationOfOK DEF adriftBar, AdriftOf
<1>5. PICK none : none = NoRequest
  OBVIOUS
<1>6. adriftBar' = [adriftBar EXCEPT ![s] = AdriftOf(none)]
  BY <1>5, AdriftChanges DEF ServeLate
<1>7. AdriftOf(none) = NoMutation
  BY <1>5 DEF AdriftOf
<1>8. Store!TakesEffect(m) \/ UNCHANGED histBar
  BY <1>2, <1>3, AppliedTakesEffect, BarsStay
<1>9. UNCHANGED <<openBar, holdsBar>>
  BY BarsStay DEF ServeLate
<1>10. Store!Settle(s)
  BY <1>4, <1>6, <1>7, <1>8, <1>9 DEF Store!Settle
<1> QED
  BY <1>10 DEF StoreStep, Store!StoreNext

(* What others write, they write to the same store.                        *)
LEMMA OtherWriteRefined ==
    ASSUME IInv, OtherWrite
    PROVE  StoreStep
<1>0. log \in Seq(Writes) /\ Len(histBar) = Len(log)
  BY HistOfOK DEF IInv, TypeOK, histBar, HistOf
<1>1. PICK v \in OtherWrites : Write(v.key, v.obj, "other")
  BY DEF OtherWrite
<1>2. PICK w : w = [key |-> v.key, obj |-> v.obj, by |-> "other"]
  OBVIOUS
<1>3. w \in Writes /\ log' = Append(log, w)
  BY <1>1, <1>2, CrdClientAssumption DEF Write, Writes
<1>4. histBar' = Append(histBar, WriteOf(w))
  BY <1>0, <1>3, HistGrows
<1>5. PICK k \in Keys, x \in WriteContents : WriteOf(w) = [key |-> k, content |-> x]
  BY <1>3, WriteOfOK DEF HistWrites
<1>6. Len(histBar) < MaxRev
  BY <1>0 DEF OtherWrite
<1>7. UNCHANGED <<openBar, adriftBar, holdsBar>>
  BY BarsStay DEF OtherWrite, clientVars
<1>8. Store!Interfere
  BY <1>4, <1>5, <1>6, <1>7 DEF Store!Interfere, WriteContents
<1> QED
  BY <1>8 DEF StoreStep, Store!StoreNext

-----------------------------------------------------------------------------
(* The steps that end a call. *)

(* A call that ends leaves nothing open.                                   *)
LEMMA ReturningCloses ==
    ASSUME IInv, NEW c \in Callers, NEW op, NEW ok, NEW items, Returns(c, op, ok, items)
    PROVE  openBar' = [openBar EXCEPT ![c] = Store!NothingOpen]
<1>1. PICK cl : cl = NoCall
  OBVIOUS
<1>2. call' = [call EXCEPT ![c] = cl]
  BY <1>1 DEF Returns
<1>3. OpenOf(cl) = Store!NothingOpen
  BY <1>1, NothingIsOpen
<1> QED
  BY <1>2, <1>3, OpenChanges

(* A mutator that fails commits to nothing.                                *)
LEMMA FailingIsAllowed ==
    ASSUME NEW c \in Callers, openBar[c].mutation # NoMutation,
           openBar' = [openBar EXCEPT ![c] = Store!NothingOpen],
           UNCHANGED <<histBar, holdsBar>>,
           \/ UNCHANGED adriftBar
           \/ /\ openBar[c].done = 0
              /\ \E s \in Slots : /\ adriftBar[s] = NoMutation
                                  /\ adriftBar' = [adriftBar EXCEPT ![s] = openBar[c].mutation]
    PROVE  StoreStep
<1>1. Store!Fail(c)
  BY DEF Store!Fail
<1> QED
  BY <1>1 DEF StoreStep, Store!StoreNext

(* A call that only read ends.                                             *)
LEMMA ReadingCloses ==
    ASSUME NEW c \in Callers, ~Mutator(call[c].req),
           openBar' = [openBar EXCEPT ![c] = Store!NothingOpen]
    PROVE  UNCHANGED openBar
<1>1. openBar[c] = Store!NothingOpen
  BY NothingIsOpen DEF openBar
<1> QED
  BY <1>1 DEF openBar

(* A write that succeeds hands out the revision it took effect at; one     *)
(* that was refused is a failure.                                          *)
LEMMA ReturnWriteRefined ==
    ASSUME IInv, TInv, NEW c \in Callers, ReturnWrite(c)
    PROVE  StoreStep
<1>1. PICK verb \in {"POST", "PUT"} : Answered(c, verb)
  BY DEF ReturnWrite
<1>2. PICK cl : cl = call[c]
  OBVIOUS
<1>3. /\ cl.req.verb = verb /\ RequestOK(cl.req) /\ ReplyOK(cl.req, cl.reply)
      /\ cl.entry \in Entries /\ cl.req = convertConfig(verb, cl.entry)
  BY <1>1, <1>2, AnsweredCall
<1>4. cl.reply # NoReply /\ cl # NoCall
  BY <1>1, <1>2 DEF Answered, NoCall
<1>5. RequestDecodes(cl.req) /\ Typed(cl.entry) /\ Mutator(cl.req)
  BY <1>2, <1>3, <1>4 DEF TInv, CallTyped, Mutator
<1>6. UNCHANGED <<histBar, adriftBar>> /\ openBar' = [openBar EXCEPT ![c] = Store!NothingOpen]
  <2>1. PICK ok : ok = call[c].reply.ok
    OBVIOUS
  <2>2. Returns(c, "Write", ok, {})
    BY <2>1 DEF ReturnWrite
  <2> QED
    BY <2>2, BarsStay, ReturningCloses DEF ReturnWrite
<1>7. PICK m : m = MutationOf(cl.req)
  OBVIOUS
<1>8. PICK o : o = OpenOf(cl)
  OBVIOUS
<1>9. openBar[c] = o /\ o.mutation = m /\ m # NoMutation /\ o.done = cl.reply.rev
  BY <1>2, <1>3, <1>4, <1>5, <1>7, <1>8, MutationIsOpen DEF openBar
<1>10. CASE ~cl.reply.ok /\ UNCHANGED held
  BY <1>6, <1>9, <1>10, BarsStay, FailingIsAllowed
<1>11. CASE cl.reply.ok /\ held' = [held EXCEPT ![c] = [cl.entry EXCEPT !.rev = cl.reply.rev]]
  <2>1. PICK e : e = [cl.entry EXCEPT !.rev = cl.reply.rev]
    OBVIOUS
  <2>2. cl.reply.rev \in 1..Len(log) /\ Len(log) \in Nat /\ cl.reply \in Replies
    BY <1>3, <1>11 DEF ReplyOK, IInv, TypeOK
  <2>3. /\ e \in Entries /\ e.rev = cl.reply.rev /\ e.typ = cl.entry.typ
        /\ e.name = cl.entry.name /\ e.ann = cl.entry.ann /\ e.spec = cl.entry.spec
    BY <1>3, <2>1, <2>2 DEF Entries
  <2>4. /\ cl.req.key = <<e.typ, e.name>> /\ cl.req.key \in Keys /\ cl.req.obj \in Objects
        /\ cl.req.obj.ann = e.ann /\ cl.req.obj.json.body = e.spec.body
    BY <1>3, <2>3, ConvertConfigOK
  <2>5. e.spec = [msg |-> e.typ, body |-> cl.req.obj.json.body]
    BY <1>3, <1>5, <2>3, <2>4, CrdClientAssumption DEF Typed, Entries, Messages
  <2>6. ContentOf(cl.req.key, cl.req.obj) = [ann |-> e.ann, spec |-> e.spec]
    <3>1. cl.req.obj # NoObject /\ Decodes(cl.req.key[1], cl.req.obj.json)
      BY <1>5, <2>4, CrdClientAssumption DEF RequestDecodes
    <3>2. cl.req.key[1] = e.typ
      BY <2>4
    <3> QED
      BY <2>4, <2>5, <3>1, <3>2 DEF ContentOf, FromJSONMap
  <2>7. /\ m.key = cl.req.key /\ m.content = ContentOf(cl.req.key, cl.req.obj)
        /\ m.op \in {"Create", "Update"}
    BY <1>3, <1>5, <1>7, MutationOfOK
  <2>8. PICK x : x = HoldOf(e)
    OBVIOUS
  <2>9. x = [key |-> m.key, rev |-> o.done, content |-> m.content]
    BY <1>9, <2>3, <2>4, <2>6, <2>7, <2>8, CrdClientAssumption DEF HoldOf
  <2>10. holdsBar' = [holdsBar EXCEPT ![c] = x]
    BY <1>11, <2>1, <2>8, HoldsChanges
  <2>11. o.done # 0
    BY <1>9, <2>2
  <2>12. openBar[c].mutation = m /\ openBar[c].done = o.done
    BY <1>9
  <2>13. Store!Succeed(c)
    BY <1>6, <2>7, <2>9, <2>10, <2>11, <2>12 DEF Store!Succeed
  <2> QED
    BY <2>13 DEF StoreStep, Store!StoreNext
<1> QED
  BY <1>2, <1>10, <1>11 DEF ReturnWrite

(* A delete ends; no caller is told more than that.                        *)
LEMMA ReturnDeleteRefined ==
    ASSUME IInv, TInv, NEW c \in Callers, ReturnDelete(c)
    PROVE  StoreStep
<1>1. PICK cl : cl = call[c]
  OBVIOUS
<1>2. /\ cl.req.verb = "DELETE" /\ RequestOK(cl.req) /\ cl # NoCall
  BY <1>1, AnsweredCall DEF ReturnDelete, Answered, NoCall
<1>3. RequestDecodes(cl.req) /\ Mutator(cl.req)
  BY <1>1, <1>2 DEF TInv, CallTyped, Mutator
<1>4. openBar[c].mutation # NoMutation
  BY <1>1, <1>2, <1>3, MutationIsOpen DEF openBar
<1>5. UNCHANGED <<histBar, adriftBar, holdsBar>>
  BY BarsStay DEF ReturnDelete
<1>6. PICK ok : ok = call[c].reply.ok
  OBVIOUS
<1>7. Returns(c, "Delete", ok, {})
  BY <1>6 DEF ReturnDelete
<1> QED
  BY <1>4, <1>5, <1>7, ReturningCloses, FailingIsAllowed

(* A Get that finds an entry hands out one that was stored.                *)
LEMMA ReturnGetRefined ==
    ASSUME IInv, NEW c \in Callers, ReturnGet(c)
    PROVE  StoreStep
<1>1. PICK cl : cl = call[c]
  OBVIOUS
<1>2. /\ cl.req.verb = "GET" /\ RequestOK(cl.req) /\ ReplyOK(cl.req, cl.reply)
  BY <1>1, AnsweredCall DEF ReturnGet
<1>3. ~Mutator(cl.req) /\ cl.req.key \in Keys
  BY <1>2 DEF Mutator, RequestOK
<1>4. PICK r : r = cl.reply.rev
  OBVIOUS
<1>5. PICK e : e = convertObject(cl.req.key, log[r].obj, r)
  OBVIOUS
<1>6. \E ok, items : Returns(c, "Get", ok, items)
  BY DEF ReturnGet
<1>7. UNCHANGED <<histBar, openBar, adriftBar>>
  BY <1>1, <1>3, <1>6, BarsStay, ReturningCloses, ReadingCloses DEF ReturnGet
<1>8. CASE UNCHANGED held
  BY <1>7, <1>8, BarsStay, StutterRefined
<1>9. CASE /\ cl.reply.ok /\ Decodes(cl.req.key[1], log[r].obj.json)
           /\ held' = [held EXCEPT ![c] = e]
  <2>1. /\ r \in 1..Len(log) /\ log[r].key = cl.req.key /\ log[r].obj # NoObject
        /\ log \in Seq(Writes)
    BY <1>2, <1>4, <1>9 DEF ReplyOK, IInv, TypeOK
  <2>2. PICK w \in Writes : w = log[r]
    BY <2>1
  <2>3. PICK k \in Keys : k = cl.req.key
    BY <1>3
  <2>4. w.key = k /\ w.obj \in Objects /\ w.obj # NoObject /\ Decodes(k[1], w.obj.json)
    BY <1>9, <2>1, <2>2, <2>3 DEF Writes
  <2>5. PICK x : x = ContentOf(k, w.obj)
    OBVIOUS
  <2>6. x = [ann |-> w.obj.ann, spec |-> [msg |-> k[1], body |-> w.obj.json.body]]
        /\ x \in StoreContents
    BY <2>4, <2>5, ContentOfOK
  <2>7. /\ Len(histBar) = Len(log)
        /\ histBar[r] = [key |-> k, content |-> x]
    <3>1. Len(histBar) = Len(log) /\ histBar[r] = WriteOf(w)
      BY <2>1, <2>2, HistOfOK DEF histBar, HistOf
    <3> QED
      BY <2>4, <2>5, <3>1 DEF WriteOf
  <2>8. /\ e.typ = k[1] /\ e.name = k[2] /\ e.ann = w.obj.ann /\ e.rev = r
        /\ e.spec = [msg |-> k[1], body |-> w.obj.json.body]
    BY <1>5, <2>2, <2>3 DEF convertObject, FromJSONMap
  <2>9. e # NoEntry
    <3>1. r \in Nat
      BY <2>1
    <3>2. e \in Entries
      BY <1>5, <2>2, <2>3, <2>4, <3>1 DEF convertObject, FromJSONMap, Entries, Keys, Objects,
                                          Json, Messages
    <3> QED
      BY <3>2, CrdClientAssumption
  <2>10. <<e.typ, e.name>> = k
    BY <2>8 DEF Keys
  <2>11. HoldOf(e) = [key |-> k, rev |-> r, content |-> x]
    BY <2>6, <2>8, <2>9, <2>10 DEF HoldOf
  <2>12. holdsBar' = [holdsBar EXCEPT ![c] = [key |-> k, rev |-> r, content |-> x]]
    BY <1>9, <2>11, HoldsChanges
  <2>13. r \in 1..Len(histBar) /\ histBar[r].key = k /\ histBar[r].content = x
    BY <2>1, <2>7
  <2>14. Store!Read(c)
    BY <1>7, <2>6, <2>12, <2>13 DEF Store!Read
  <2> QED
    BY <2>14 DEF StoreStep, Store!StoreNext
<1> QED
  BY <1>1, <1>4, <1>5, <1>8, <1>9 DEF ReturnGet

(* A List is nothing to the store.                                         *)
LEMMA ReturnListRefined ==
    ASSUME IInv, NEW c \in Callers, ReturnList(c)
    PROVE  StoreStep
<1>1. ~Mutator(call[c].req)
  BY DEF ReturnList, Answered, Mutator
<1>2. \E ok, items : Returns(c, "List", ok, items)
  BY DEF ReturnList
<1>3. UNCHANGED openBar
  BY <1>1, <1>2, ReturningCloses, ReadingCloses
<1> QED
  BY <1>3, BarsStay, StutterRefined DEF ReturnList

(* A broken connection: the mutation fails, and may be set adrift.         *)
LEMMA LoseRefined ==
    ASSUME IInv, TInv, NEW c \in Callers, Lose(c)
    PROVE  StoreStep
<1>1. PICK cl : cl = call[c]
  OBVIOUS
<1>2. cl # NoCall /\ RequestOK(cl.req) /\ RequestDecodes(cl.req)
  BY <1>1 DEF Lose, Idle, IInv, TInv, CallOK, CallTyped
<1>3. openBar' = [openBar EXCEPT ![c] = Store!NothingOpen] /\ UNCHANGED <<histBar, holdsBar>>
  <2>1. PICK ok, items : Returns(c, "Lost", ok, items)
    BY DEF Lose
  <2> QED
    BY <2>1, BarsStay, ReturningCloses DEF Lose
<1>4. CASE ~Mutator(cl.req)
  <2>1. UNCHANGED late
    BY <1>1, <1>4 DEF Lose
  <2> QED
    BY <1>1, <1>3, <1>4, <2>1, BarsStay, ReadingCloses, StutterRefined
<1>5. CASE Mutator(cl.req)
  <2>1. PICK o : o = OpenOf(cl)
    OBVIOUS
  <2>2. /\ openBar[c] = o /\ o.mutation = MutationOf(cl.req) /\ o.mutation # NoMutation
        /\ cl.reply = NoReply => o.done = 0
    BY <1>1, <1>2, <1>5, <2>1, MutationIsOpen DEF openBar
  <2>3. CASE UNCHANGED late
    BY <1>3, <2>2, <2>3, BarsStay, FailingIsAllowed
  <2>4. CASE /\ Sent(c)
             /\ \E s \in Slots : late[s] = NoRequest /\ late' = [late EXCEPT ![s] = cl.req]
    <3>1. PICK s \in Slots : late[s] = NoRequest /\ late' = [late EXCEPT ![s] = cl.req]
      BY <2>4
    <3>2. adriftBar' = [adriftBar EXCEPT ![s] = AdriftOf(cl.req)]
      BY <3>1, AdriftChanges
    <3>3. AdriftOf(cl.req) = o.mutation
      BY <1>2, <1>5, <2>2, MutationOfOK DEF AdriftOf
    <3>4. adriftBar[s] = NoMutation
      BY <3>1 DEF adriftBar, AdriftOf
    <3>5. o.done = 0
      BY <1>1, <2>2, <2>4 DEF Sent
    <3> QED
      BY <1>3, <2>2, <3>2, <3>3, <3>4, <3>5, FailingIsAllowed
  <2> QED
    BY <1>1, <2>3, <2>4 DEF Lose
<1> QED
  BY <1>4, <1>5

-----------------------------------------------------------------------------
(* The refinement. *)

(* The initial state maps to one of the store.                             *)
LEMMA InitRefined == Init => Store!StoreInit
<1> SUFFICES ASSUME Init PROVE Store!StoreInit
  OBVIOUS
<1>1. log = << >> /\ Len(log) = 0
  BY DEF Init
<1>2. histBar = << >>
  <2>1. histBar \in Seq(HistWrites) /\ Len(histBar) = 0
    BY <1>1, HistOfOK DEF histBar, HistOf
  <2> QED
    BY <2>1
<1>3. \A c \in Callers : call[c] = NoCall /\ held[c] = NoEntry
  BY DEF Init
<1>4. openBar = [c \in Callers |-> Store!NothingOpen]
  BY <1>3, NothingIsOpen DEF openBar
<1>5. holdsBar = [c \in Callers |-> NoEntry]
  BY <1>3 DEF holdsBar, HoldOf
<1>6. adriftBar = [s \in Slots |-> NoMutation]
  BY DEF Init, adriftBar, AdriftOf
<1> QED
  BY <1>2, <1>4, <1>5, <1>6 DEF Store!StoreInit

(* Every step maps to a step of the store or a stutter.                    *)
LEMMA NextRefined == WellTyped => (IInv /\ TInv /\ RInv /\ [Next]_vars => StoreStep)
<1> SUFFICES ASSUME WellTyped, IInv, TInv, RInv, [Next]_vars PROVE StoreStep
  OBVIOUS
<1>1. CASE UNCHANGED vars
  BY <1>1, BarsStay, StutterRefined DEF vars
<1>2. ASSUME NEW c \in Callers, Call(c) PROVE StoreStep
  <2>1. CASE Create(c)
    BY <2>1, CreateRefined
  <2>2. CASE Update(c)
    BY <2>2, UpdateRefined
  <2>3. CASE Delete(c)
    BY <2>3, AskRefined DEF Delete
  <2>4. CASE Get(c)
    BY <2>4, AskRefined DEF Get
  <2>5. CASE List(c)
    BY <2>5, AskRefined DEF List
  <2> QED
    BY <1>2, <2>1, <2>2, <2>3, <2>4, <2>5 DEF Call
<1>3. ASSUME NEW c \in Callers, Return(c) PROVE StoreStep
  BY <1>3, ReturnWriteRefined, ReturnDeleteRefined, ReturnGetRefined, ReturnListRefined
     DEF Return
<1> QED
  BY <1>1, <1>2, <1>3, ServeRefined, LoseRefined, ServeLateRefined, OtherWriteRefined DEF Next

(***************************************************************************)
(* crd.Client implements config.Store for any callers, entries, bounds and *)
(* behaviour of others, provided entries are created with messages of      *)
(* their type: each mutation happens at most once and only on the state it *)
(* asks for, a success is the truth, a failure commits to nothing, and a   *)
(* read returns what was stored (store.go:25-79).                          *)
(***************************************************************************)
THEOREM ClientImplementsStore == WellTyped => (Spec => ImplementsStore)
<1>1. CASE WellTyped
  <2>1. IInv /\ TInv /\ RInv /\ [Next]_vars => [Store!StoreNext]_(Store!storeVars)
    BY <1>1, NextRefined DEF StoreStep
  <2>2. Spec => [](IInv /\ TInv /\ RInv)
    BY <1>1, RefinementInvariantOK
  <2> QED
    BY <2>1, <2>2, InitRefined, PTL DEF Spec, ImplementsStore, Store!StoreSpec
<1> QED
  BY <1>1
=============================================================================
