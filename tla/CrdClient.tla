------------------------------ MODULE CrdClient ------------------------------
(***************************************************************************)
(* crd.Client, the config store over Kubernetes custom resources           *)
(* (pkg/platform/kube/crd/client.go, conversion.go), used by concurrent    *)
(* callers.  A call checks its arguments, converts the entry to the wire   *)
(* form and sends one request; the server answers it; the client converts  *)
(* the answer back and returns.  Connections break: the caller then gets   *)
(* an error while the request may still reach the server later.            *)
(***************************************************************************)
EXTENDS Conversion

CONSTANTS
    Callers,     \* goroutines that use the client
    Slots,       \* room for requests whose caller has given up on them
    NewEntries,  \* entries callers create
    OtherWrites, \* [key, obj] records kubectl and external tools write
    NoEntry, NoRequest, NoReply, NoResult,
    MaxRev,      \* bound on the number of writes
    MaxStale     \* how many writes a read may miss

VARIABLES
    call,   \* the call each caller has open
    late,   \* requests whose caller has already been given an error
    held,   \* the entry each caller last created, read or updated
    result  \* what the last call of each caller returned

vars == <<log, call, late, held, result>>
clientVars == <<call, late, held, result>>

Verbs == {"GET", "LIST", "POST", "PUT", "DELETE"}

Requests == [verb : Verbs, key : Types \X (Names \cup {NoName}),
             obj : Objects \cup {NoObject}, rev : Nat]

(***************************************************************************)
(* An answer to a mutator carries the revision it wrote, an answer to GET  *)
(* the revision of the object read, an answer to LIST the length of the    *)
(* log it was read from: the log says what was there.                      *)
(***************************************************************************)
Replies == [ok : BOOLEAN, rev : Nat]

Ops == {"Create", "Update", "Write", "Delete", "Get", "List", "Lost"}

Results == [op : Ops, key : Types \X (Names \cup {NoName}),
            ok : BOOLEAN, items : SUBSET Entries]

NoCall == [entry |-> NoEntry, req |-> NoRequest, reply |-> NoReply]

ASSUME CrdClientAssumption ==
    /\ Descriptor \subseteq Types
    /\ NewEntries \subseteq {e \in Entries : e.rev = 0}
    /\ OtherWrites \subseteq [key : Keys, obj : Objects \cup {NoObject}]
    /\ MaxRev \in Nat /\ MaxStale \in Nat
    /\ NoObject \notin Objects
    /\ NoEntry \notin Entries
    /\ NoRequest \notin Requests
    /\ NoReply \notin Replies
    /\ NoResult \notin Results
    /\ NoName \notin Names

-----------------------------------------------------------------------------
(* The methods of Client up to the point where the request is on the wire.  *)

Idle(c) == call[c] = NoCall

Result(op, k, ok, items) == [op |-> op, key |-> k, ok |-> ok, items |-> items]

Fails(c, op, k) ==
    /\ result' = [result EXCEPT ![c] = Result(op, k, FALSE, {})]
    /\ UNCHANGED <<log, call, late>>

Sends(c, entry, req) ==
    /\ call' = [call EXCEPT ![c] = [entry |-> entry, req |-> req, reply |-> NoReply]]
    /\ result' = [result EXCEPT ![c] = NoResult]
    /\ UNCHANGED <<log, late>>

Create(c) ==
    /\ Idle(c)
    /\ \E e \in NewEntries :
        /\ held' = [held EXCEPT ![c] = e]
        /\ \/ ~(e.typ \in Descriptor /\ Validate(e.typ, e.spec))
              /\ Fails(c, "Create", <<e.typ, e.name>>)
           \/ e.typ \in Descriptor /\ Validate(e.typ, e.spec)
              /\ Sends(c, e, convertConfig("POST", e))

(***************************************************************************)
(* A caller changes the spec of the entry it holds, as read with Get or as *)
(* returned by its own last write, and leaves the rest of it alone.        *)
(***************************************************************************)
Edits(e) == {[e EXCEPT !.spec.body = @ \cup {p}] : p \in Pairs}

\* Mistake: the revision is not required.
CanUpdateUnconditionally(e) == e.typ \in Descriptor /\ Validate(e.typ, e.spec)

CanUpdate(e) == e.typ \in Descriptor /\ Validate(e.typ, e.spec) /\ e.rev # 0

Update(c) ==
    /\ Idle(c) /\ held[c] # NoEntry
    /\ \E e \in Edits(held[c]) :
        \/ ~CanUpdate(e) /\ Fails(c, "Update", <<e.typ, e.name>>)
        \/ CanUpdate(e)  /\ Sends(c, e, convertConfig("PUT", e))
    /\ UNCHANGED held

Query(verb, k) == [verb |-> verb, key |-> k, obj |-> NoObject, rev |-> 0]

Ask(c, op, verb, ks) ==
    /\ Idle(c)
    /\ \E k \in ks :
        \/ k[1] \notin Descriptor /\ Fails(c, op, k)
        \/ k[1] \in Descriptor    /\ Sends(c, NoEntry, Query(verb, k))
    /\ UNCHANGED held

Get(c)    == Ask(c, "Get", "GET", Keys)
Delete(c) == Ask(c, "Delete", "DELETE", Keys)
List(c)   == Ask(c, "List", "LIST", Types \X {NoName})

-----------------------------------------------------------------------------
(* The server and the network. *)

Sent(c) == call[c].req # NoRequest /\ call[c].reply = NoReply

Mutator(req) == req.verb \in {"POST", "PUT", "DELETE"}

Answer(c, ok, rev) == call' = [call EXCEPT ![c].reply = [ok |-> ok, rev |-> rev]]

Applies(req) ==
    /\ Accepts(req.verb, req.key, req.rev)
    /\ Len(log) < MaxRev
    /\ Write(req.key, req.obj, "client")

Serve(c) ==
    /\ Sent(c)
    /\ LET req == call[c].req IN
        \/ Mutator(req) /\ Applies(req) /\ Answer(c, TRUE, Len(log) + 1)
        \/ /\ Mutator(req) /\ ~Accepts(req.verb, req.key, req.rev)
           /\ Answer(c, FALSE, 0) /\ UNCHANGED log
        \/ \E n \in {m \in 0..Len(log) : m + MaxStale >= Len(log)} :
            /\ \/ req.verb = "LIST" /\ Answer(c, TRUE, n)
               \/ /\ req.verb = "GET" /\ ObjectAt(n, req.key) # NoObject
                  /\ Answer(c, TRUE, RevisionAt(n, req.key))
               \/ /\ req.verb = "GET" /\ ObjectAt(n, req.key) = NoObject
                  /\ Answer(c, FALSE, 0)
            /\ UNCHANGED log
    /\ UNCHANGED <<late, held, result>>

(***************************************************************************)
(* A request outlives the call that sent it: it takes effect late, or not  *)
(* at all.                                                                 *)
(***************************************************************************)
ServeLate(s) ==
    /\ late[s] # NoRequest
    /\ Applies(late[s]) \/ UNCHANGED log
    /\ late' = [late EXCEPT ![s] = NoRequest]
    /\ UNCHANGED <<call, held, result>>

(* kubectl, a controller or another broker writes or deletes an object.    *)
OtherWrite ==
    /\ Len(log) < MaxRev
    /\ \E w \in OtherWrites : /\ Live(w.key) \/ w.obj # NoObject
                              /\ Write(w.key, w.obj, "other")
    /\ UNCHANGED clientVars

-----------------------------------------------------------------------------
(* The methods of Client from the answer on. *)

Returns(c, op, ok, items) ==
    /\ call' = [call EXCEPT ![c] = NoCall]
    /\ result' = [result EXCEPT ![c] = Result(op, call[c].req.key, ok, items)]

Answered(c, verb) == call[c].reply # NoReply /\ call[c].req.verb = verb

ReturnWrite(c) ==
    /\ Answered(c, "POST") \/ Answered(c, "PUT")
    /\ \/ /\ call[c].reply.ok
          /\ held' = [held EXCEPT ![c] = [call[c].entry EXCEPT !.rev = call[c].reply.rev]]
       \/ ~call[c].reply.ok /\ UNCHANGED held
    /\ Returns(c, "Write", call[c].reply.ok, {})
    /\ UNCHANGED <<log, late>>

ReturnDelete(c) ==
    /\ Answered(c, "DELETE")
    /\ Returns(c, "Delete", call[c].reply.ok, {})
    /\ UNCHANGED <<log, late, held>>

(* An error from the server and an object that does not decode both come   *)
(* back as (nil, false).                                                   *)
ReturnGet(c) ==
    /\ Answered(c, "GET")
    /\ LET k   == call[c].req.key
           r   == call[c].reply.rev
           obj == log[r].obj
           e   == convertObject(k, obj, r)
       IN  \/ /\ call[c].reply.ok /\ Decodes(k[1], obj.json)
              /\ held' = [held EXCEPT ![c] = e]
              /\ Returns(c, "Get", TRUE, {e})
           \/ /\ call[c].reply.ok => ~Decodes(k[1], obj.json)
              /\ Returns(c, "Get", FALSE, {})
              /\ UNCHANGED held
    /\ UNCHANGED <<log, late>>

LiveAt(n, typ) == {k \in {typ} \X Names : ObjectAt(n, k) # NoObject}

\* Mistake: items that do not decode are skipped without an error.
ReturnListSkipping(c) ==
    /\ Answered(c, "LIST")
    /\ LET n    == call[c].reply.rev
           live == LiveAt(n, call[c].req.key[1])
           good == {k \in live : Decodes(k[1], ObjectAt(n, k).json)}
       IN  Returns(c, "List", TRUE,
                   {convertObject(k, ObjectAt(n, k), RevisionAt(n, k)) : k \in good})
    /\ UNCHANGED <<log, late, held>>

(* The items that decode, and an error when some do not.                   *)
ReturnList(c) ==
    /\ Answered(c, "LIST")
    /\ LET n    == call[c].reply.rev
           live == LiveAt(n, call[c].req.key[1])
           good == {k \in live : Decodes(k[1], ObjectAt(n, k).json)}
       IN  Returns(c, "List", good = live,
                   {convertObject(k, ObjectAt(n, k), RevisionAt(n, k)) : k \in good})
    /\ UNCHANGED <<log, late, held>>

(***************************************************************************)
(* The connection breaks before the answer is read: the call fails, the    *)
(* request may still be on its way, may be lost, or may have taken effect. *)
(***************************************************************************)
Lose(c) ==
    /\ ~Idle(c)
    /\ \/ /\ Sent(c) /\ Mutator(call[c].req)
          /\ \E s \in Slots : /\ late[s] = NoRequest
                              /\ late' = [late EXCEPT ![s] = call[c].req]
       \/ UNCHANGED late
    /\ Returns(c, "Lost", FALSE, {})
    /\ UNCHANGED <<log, held>>

-----------------------------------------------------------------------------
Init ==
    /\ log = << >>
    /\ call = [c \in Callers |-> NoCall]
    /\ late = [s \in Slots |-> NoRequest]
    /\ held = [c \in Callers |-> NoEntry]
    /\ result = [c \in Callers |-> NoResult]

Call(c)   == Create(c) \/ Update(c) \/ Delete(c) \/ Get(c) \/ List(c)
Return(c) == ReturnWrite(c) \/ ReturnDelete(c) \/ ReturnGet(c) \/ ReturnList(c)

Next ==
    \/ \E c \in Callers : Call(c) \/ Serve(c) \/ Return(c) \/ Lose(c)
    \/ \E s \in Slots : ServeLate(s)
    \/ OtherWrite

Spec == Init /\ [][Next]_vars

-----------------------------------------------------------------------------
(* Properties *)

Writes == [key : Keys, obj : Objects \cup {NoObject}, by : {"client", "other"}]

\* Every variable holds a value of its type.
TypeOK ==
    /\ log \in Seq(Writes)
    /\ call \in [Callers -> [entry : Entries \cup {NoEntry},
                             req   : Requests \cup {NoRequest},
                             reply : Replies \cup {NoReply}]]
    /\ late \in [Slots -> Requests \cup {NoRequest}]
    /\ held \in [Callers -> Entries \cup {NoEntry}]
    /\ result \in [Callers -> Results \cup {NoResult}]

(***************************************************************************)
(* The entry e is, but for IstioNamespace, what the server stored as       *)
(* revision e.rev of the key of e.                                         *)
(***************************************************************************)
Stored(e) ==
    /\ e.rev \in 1..Len(log)
    /\ log[e.rev].key = <<e.typ, e.name>>
    /\ log[e.rev].obj # NoObject
    /\ convertObject(log[e.rev].key, log[e.rev].obj, e.rev) = [e EXCEPT !.home = NoHome]

(***************************************************************************)
(* Whatever a caller is handed with a revision (the revision Create or     *)
(* Update returned, an entry Get or List returned) is exactly what was     *)
(* stored under that key at that revision: convertConfig and convertObject *)
(* undo each other, and no answer reaches the wrong call.                  *)
(***************************************************************************)
ReturnedIsStored ==
    \A c \in Callers :
        /\ held[c] # NoEntry => (held[c].rev # 0 => Stored(held[c]))
        /\ result[c] # NoResult => \A e \in result[c].items : Stored(e)

(***************************************************************************)
(* The result r of a List against the state it was answered from, that     *)
(* after the first n writes: every object of the type that was there is    *)
(* among the items as it was then, or it does not decode and the list is   *)
(* an error; nothing else is among the items, and nothing else an error.   *)
(***************************************************************************)
Shows(r, n) ==
    LET live == LiveAt(n, r.key[1])
        Undecodable(k) == ~Decodes(k[1], ObjectAt(n, k).json)
    IN  /\ \A k \in live : \/ \E e \in r.items : <<e.typ, e.name>> = k
                           \/ Undecodable(k) /\ ~r.ok
        /\ \A e \in r.items :
                LET k == <<e.typ, e.name>>
                IN  k \in live /\ e.rev = RevisionAt(n, k) /\ Stored(e)
        /\ ~r.ok => \E k \in live : Undecodable(k)

(* The step in which the List of caller c returns, its connection whole.   *)
ListReturns(c) ==
    /\ call[c].reply # NoReply /\ call[c].req.verb = "LIST"
    /\ call'[c] = NoCall /\ result'[c].op = "List"

(***************************************************************************)
(* A List returns the one state its answer was read from, whole, whatever  *)
(* has been written by the time it returns: an object that does not decode *)
(* is never silently left out (client.go:371-393).                         *)
(***************************************************************************)
ListIsWhole ==
    [][\A c \in Callers : ListReturns(c) => Shows(result'[c], call[c].reply.rev)]_vars

(***************************************************************************)
(* Every entry is created with a message of its type, as resource.go:25    *)
(* takes for granted.                                                      *)
(***************************************************************************)
WellTyped == \A e \in NewEntries : e.spec.msg = e.typ

(***************************************************************************)
(* Every object the client writes can be read back under its type          *)
(* (resource.go:25: Type "matches the content message type").              *)
(***************************************************************************)
ClientWritesDecode ==
    \A i \in 1..Len(log) :
        log[i].by = "client" /\ log[i].obj # NoObject => Decodes(log[i].key[1], log[i].obj.json)

(***************************************************************************)
(* Entries with the same key and revision are the same entry, whoever      *)
(* holds them: what Create was given is what Get returns but for the       *)
(* revision (pkg/testing/mock/config.go:71 and 104).                       *)
(***************************************************************************)
SameRevisionSameEntry ==
    \A c, d \in Callers :
        held[c] # NoEntry /\ held[d] # NoEntry =>
            (held[c].rev = held[d].rev /\ held[c].rev # 0 => held[c] = held[d])

(***************************************************************************)
(* A write of the client over a live object only adds to it: what other    *)
(* callers, late requests or kubectl put into the object between the read  *)
(* an Update is based on and its PUT is never overwritten, and the labels  *)
(* and annotations external tools have set are preserved (store.go:70-75,  *)
(* resource.go:44-46).                                                     *)
(***************************************************************************)
Preserves(k) ==
    /\ ObjectOf(k)'.ann = ObjectOf(k).ann
    /\ ObjectOf(k).json.body \subseteq ObjectOf(k)'.json.body

ClientUpdate == Len(log') > Len(log) /\ log'[Len(log')].by = "client"

UpdatesKeepOthersWork ==
    [][ClientUpdate => \A k \in Keys : Live(k) /\ Live(k)' => Preserves(k)]_vars
=============================================================================
