--------------------------- MODULE CrdClientProofs ---------------------------
(***************************************************************************)
(* Proofs about CrdClient, for any callers, types, entries, writes of      *)
(* others, bounds and staleness.                                           *)
(***************************************************************************)
EXTENDS CrdClient, ApiServerProofs

-----------------------------------------------------------------------------
(* The inductive invariant. *)

(* An entry with a revision agrees with the write of that revision.        *)
Matches(e) ==
    /\ e.rev \in 1..Len(log)
    /\ log[e.rev].key = <<e.typ, e.name>>
    /\ log[e.rev].obj # NoObject
    /\ log[e.rev].obj.ann = e.ann
    /\ log[e.rev].obj.json.body = e.spec.body

(* An entry with a revision keeps what the write of that revision holds    *)
(* and may add to it.                                                      *)
Covers(e) ==
    /\ e.rev \in 1..Len(log)
    /\ log[e.rev].obj # NoObject
    /\ log[e.rev].obj.ann = e.ann
    /\ log[e.rev].obj.json.body \subseteq e.spec.body

(* A PUT names the revision it was computed from and only adds to it.  The *)
(* server sees to it that the revision is one of its key.                  *)
Extends(req) ==
    /\ req.rev \in 1..Len(log)
    /\ log[req.rev].obj # NoObject
    /\ log[req.rev].obj.ann = req.obj.ann
    /\ log[req.rev].obj.json.body \subseteq req.obj.json.body

RequestOK(req) ==
    /\ req \in Requests
    /\ req.verb # "LIST" => req.key \in Keys
    /\ req.verb \in {"POST", "PUT"} => req.obj \in Objects
    /\ req.verb = "PUT" => Extends(req)
    /\ req.verb = "DELETE" => req.obj = NoObject

(* What a successful answer refers to is in the log.                       *)
ReplyOK(req, reply) ==
    /\ reply \in Replies
    /\ reply.ok /\ req.verb = "LIST" => reply.rev \in 0..Len(log)
    /\ req.verb = "LIST" => reply.ok
    /\ reply.ok /\ req.verb = "GET" => /\ reply.rev \in 1..Len(log)
                                       /\ log[reply.rev].key = req.key
                                       /\ log[reply.rev].obj # NoObject
    /\ reply.ok /\ req.verb \in {"POST", "PUT"} => /\ reply.rev \in 1..Len(log)
                                                   /\ log[reply.rev].key = req.key
                                                   /\ log[reply.rev].obj = req.obj

CallOK(cl) ==
    \/ cl = NoCall
    \/ /\ cl.entry \in Entries \cup {NoEntry}
       /\ RequestOK(cl.req)
       /\ cl.req.verb \in {"POST", "PUT"} =>
            cl.entry \in Entries /\ cl.req = convertConfig(cl.req.verb, cl.entry)
       /\ cl.reply # NoReply => ReplyOK(cl.req, cl.reply)

HeldOK(e) == e = NoEntry \/ (e \in Entries /\ (e.rev # 0 => Covers(e)))

IInv ==
    /\ TypeOK
    /\ LastWriteExists
    /\ \A c \in Callers : CallOK(call[c]) /\ HeldOK(held[c])
    /\ \A s \in Slots : late[s] # NoRequest => RequestOK(late[s])

(* An entry that agrees with what was stored keeps what was stored.        *)
LEMMA MatchingCovers == \A e : Matches(e) => Covers(e)
BY DEF Matches, Covers

-----------------------------------------------------------------------------
(* What the log said, it goes on saying. *)

(* Facts about writes that are in the log stay true while it grows.        *)
LEMMA FactsAreStable ==
    ASSUME log \in Seq(Writes), GrowsBy(Writes)
    PROVE  /\ \A e : Matches(e) => Matches(e)'
           /\ \A e : Covers(e) => Covers(e)'
           /\ \A req : RequestOK(req) => RequestOK(req)'
           /\ \A req, reply : ReplyOK(req, reply) => ReplyOK(req, reply)'
           /\ \A cl : CallOK(cl) => CallOK(cl)'
           /\ \A e : HeldOK(e) => HeldOK(e)'
<1>0. /\ Len(log) \in Nat /\ Len(log') \in Nat /\ Len(log) <= Len(log')
      /\ \A i \in 1..Len(log) : log'[i] = log[i]
  BY LogKeepsWrites
<1>1. ASSUME NEW e, Matches(e) PROVE Matches(e)'
  BY <1>0, <1>1 DEF Matches
<1>2. ASSUME NEW req, RequestOK(req) PROVE RequestOK(req)'
  BY <1>0, <1>2 DEF RequestOK, Extends
<1>3. ASSUME NEW req, NEW reply, ReplyOK(req, reply) PROVE ReplyOK(req, reply)'
  BY <1>0, <1>3 DEF ReplyOK
<1>4. ASSUME NEW cl, CallOK(cl) PROVE CallOK(cl)'
  BY <1>2, <1>3, <1>4 DEF CallOK
<1>5. ASSUME NEW e, Covers(e) PROVE Covers(e)'
  BY <1>0, <1>5 DEF Covers
<1>6. ASSUME NEW e, HeldOK(e) PROVE HeldOK(e)'
  BY <1>5, <1>6 DEF HeldOK
<1> QED
  BY <1>1, <1>2, <1>3, <1>4, <1>5, <1>6

-----------------------------------------------------------------------------
(* The steps of a caller. *)

CallType == [entry : Entries \cup {NoEntry}, req : Requests \cup {NoRequest},
             reply : Replies \cup {NoReply}]

(* The sentinel is a value of call.                                        *)
LEMMA NoCallOK == NoCall \in CallType
BY DEF NoCall, CallType

(* What convertConfig makes of an entry is a request.                      *)
LEMMA ConvertConfigOK ==
    ASSUME NEW e \in Entries, NEW verb \in {"POST", "PUT"}
    PROVE  /\ convertConfig(verb, e) \in Requests
           /\ convertConfig(verb, e).verb = verb
           /\ convertConfig(verb, e).key = <<e.typ, e.name>>
           /\ convertConfig(verb, e).key \in Keys
           /\ convertConfig(verb, e).rev = e.rev
           /\ convertConfig(verb, e).obj \in Objects
           /\ convertConfig(verb, e).obj.ann = e.ann
           /\ convertConfig(verb, e).obj.json.body = e.spec.body
<1>1. ToJSONMap(e.spec) \in Json /\ ToJSONMap(e.spec).body = e.spec.body
  BY DEF ToJSONMap, Json, Entries, Messages
<1> QED
  BY <1>1 DEF convertConfig, Requests, Verbs, Keys, Entries, Objects

(* A step of caller c changes its own call, entry and result, and may add  *)
(* to the log and set requests adrift.                                     *)
LEMMA CallerStep ==
    ASSUME IInv, GrowsBy(Writes),
           NEW c \in Callers,
           NEW cl \in CallType, CallOK(cl)', call' = [call EXCEPT ![c] = cl],
           NEW e \in Entries \cup {NoEntry}, HeldOK(e)', held' = [held EXCEPT ![c] = e],
           NEW r \in Results \cup {NoResult}, result' = [result EXCEPT ![c] = r],
           late' \in [Slots -> Requests \cup {NoRequest}],
           \A s \in Slots : late'[s] # NoRequest => RequestOK(late'[s])
    PROVE  IInv'
<1>0. log \in Seq(Writes)
  BY DEF IInv, TypeOK
<1>1. TypeOK'
  BY <1>0, LogKeepsWrites DEF IInv, TypeOK, CallType
<1>2. LastWriteExists'
  BY <1>0, LastWriteExistsGrows DEF IInv
<1>3. ASSUME NEW d \in Callers
      PROVE  CallOK(call[d])' /\ HeldOK(held[d])'
  <2>0. \A x : (CallOK(x) => CallOK(x)') /\ (HeldOK(x) => HeldOK(x)')
    BY <1>0, FactsAreStable
  <2>1. CallOK(call[d]) /\ HeldOK(held[d])
    BY DEF IInv
  <2>2. CASE d # c
    <3>1. call'[d] = call[d] /\ held'[d] = held[d]
      BY <2>2 DEF IInv, TypeOK
    <3>2. ASSUME NEW x, x = call[d] PROVE CallOK(x)'
      BY <3>2, <2>0, <2>1
    <3>3. ASSUME NEW x, x = held[d] PROVE HeldOK(x)'
      BY <3>3, <2>0, <2>1
    <3> QED
      BY <3>1, <3>2, <3>3
  <2>3. CASE d = c
    <3>1. call'[d] = cl /\ held'[d] = e
      BY <2>3 DEF IInv, TypeOK
    <3> QED
      BY <3>1
  <2> QED
    BY <2>2, <2>3
<1>4. \A s \in Slots : late'[s] # NoRequest => RequestOK(late[s])'
  <2>1. \A x : RequestOK(x) => RequestOK(x)'
    BY <1>0, FactsAreStable
  <2> QED
    BY <2>1
<1> QED
  BY <1>1, <1>2, <1>3, <1>4 DEF IInv

(* Sending a request, or failing before it is sent.                        *)
LEMMA SendStep ==
    ASSUME IInv, NEW c \in Callers,
           NEW entry \in Entries \cup {NoEntry}, NEW req,
           RequestOK(req),
           req.verb \in {"POST", "PUT"} =>
             entry \in Entries /\ req = convertConfig(req.verb, entry),
           Sends(c, entry, req),
           NEW e \in Entries \cup {NoEntry}, HeldOK(e), held' = [held EXCEPT ![c] = e]
    PROVE  IInv'
<1> DEFINE cl == [entry |-> entry, req |-> req, reply |-> NoReply]
<1>0. log' = log /\ late' = late
  BY DEF Sends
<1>1. GrowsBy(Writes)
  BY <1>0 DEF GrowsBy
<1>2. cl \in CallType /\ call' = [call EXCEPT ![c] = cl]
  BY DEF CallType, RequestOK, Sends
<1>3. CallOK(cl)'
  BY <1>0 DEF CallOK, RequestOK, Extends
<1>4. HeldOK(e)'
  BY <1>0 DEF HeldOK, Covers
<1>5. result' = [result EXCEPT ![c] = NoResult]
  BY DEF Sends
<1>6. /\ late' \in [Slots -> Requests \cup {NoRequest}]
      /\ \A s \in Slots : late'[s] # NoRequest => RequestOK(late'[s])
  BY <1>0 DEF IInv, TypeOK
<1> HIDE DEF cl
<1> QED
  BY <1>1, <1>2, <1>3, <1>4, <1>5, <1>6, CallerStep

(* A call that fails before it sends anything keeps IInv.                  *)
LEMMA FailStep ==
    ASSUME IInv, NEW c \in Callers,
           NEW op \in Ops, NEW k \in Types \X (Names \cup {NoName}), Fails(c, op, k),
           NEW e \in Entries \cup {NoEntry}, HeldOK(e), held' = [held EXCEPT ![c] = e]
    PROVE  IInv'
<1>0. log' = log /\ late' = late /\ call' = call
  BY DEF Fails
<1>1. GrowsBy(Writes)
  BY <1>0 DEF GrowsBy
<1>2. call[c] \in CallType /\ call' = [call EXCEPT ![c] = call[c]]
  BY <1>0 DEF CallType, IInv, TypeOK
<1>3. ASSUME NEW x, x = call[c] PROVE CallOK(x)'
  BY <1>0, <1>1, <1>3, FactsAreStable DEF IInv, TypeOK
<1>4. HeldOK(e)'
  BY <1>0 DEF HeldOK, Covers
<1>5. /\ Result(op, k, FALSE, {}) \in Results
      /\ result' = [result EXCEPT ![c] = Result(op, k, FALSE, {})]
  BY DEF Fails, Result, Results
<1>6. /\ late' \in [Slots -> Requests \cup {NoRequest}]
      /\ \A s \in Slots : late'[s] # NoRequest => RequestOK(late'[s])
  BY <1>0 DEF IInv, TypeOK
<1>7. PICK x : x = call[c]
  OBVIOUS
<1>8. x \in CallType /\ call' = [call EXCEPT ![c] = x] /\ CallOK(x)'
  BY <1>2, <1>3, <1>7
<1> QED
  BY <1>1, <1>4, <1>5, <1>6, <1>8, CallerStep

(* Create keeps IInv: a new entry carries no revision.                     *)
LEMMA CreateStep ==
    ASSUME IInv, NEW c \in Callers, Create(c)
    PROVE  IInv'
<1>1. PICK e \in NewEntries :
        /\ held' = [held EXCEPT ![c] = e]
        /\ \/ Fails(c, "Create", <<e.typ, e.name>>)
           \/ Sends(c, e, convertConfig("POST", e))
  BY DEF Create
<1>2. e \in Entries /\ e.rev = 0 /\ HeldOK(e)
  BY CrdClientAssumption DEF HeldOK
<1>3. CASE Fails(c, "Create", <<e.typ, e.name>>)
  <2>1. <<e.typ, e.name>> \in Types \X (Names \cup {NoName})
    BY <1>2 DEF Entries
  <2> QED
    BY <1>1, <1>2, <1>3, <2>1, FailStep DEF Ops
<1>4. CASE Sends(c, e, convertConfig("POST", e))
  <2>1. PICK req : req = convertConfig("POST", e)
    OBVIOUS
  <2>2. RequestOK(req) /\ req.verb = "POST"
    BY <1>2, <2>1, ConvertConfigOK DEF RequestOK
  <2> QED
    BY <1>1, <1>2, <1>4, <2>1, <2>2, SendStep
<1> QED
  BY <1>1, <1>3, <1>4

(* An edit of an entry is an entry.                                        *)
LEMMA EditsOK ==
    ASSUME NEW h \in Entries, NEW e \in Edits(h)
    PROVE  /\ e \in Entries
           /\ e.typ = h.typ /\ e.name = h.name /\ e.ann = h.ann /\ e.rev = h.rev
           /\ e.home = h.home /\ e.spec.msg = h.spec.msg
           /\ h.spec.body \subseteq e.spec.body
BY DEF Edits, Entries, Messages

(* Update keeps IInv: what is sent extends what was read.                  *)
LEMMA UpdateStep ==
    ASSUME IInv, NEW c \in Callers, Update(c)
    PROVE  IInv'
<1>0. PICK h : h = held[c]
  OBVIOUS
<1>1. h \in Entries /\ HeldOK(h) /\ held' = [held EXCEPT ![c] = h]
  BY <1>0 DEF Update, IInv, TypeOK
<1>2. PICK e \in Edits(h) :
        \/ Fails(c, "Update", <<e.typ, e.name>>)
        \/ CanUpdate(e) /\ Sends(c, e, convertConfig("PUT", e))
  BY <1>0 DEF Update
<1>3. /\ e \in Entries
      /\ e.typ = h.typ /\ e.name = h.name /\ e.ann = h.ann /\ e.rev = h.rev
      /\ h.spec.body \subseteq e.spec.body
  BY <1>1, EditsOK
<1>4. CASE Fails(c, "Update", <<e.typ, e.name>>)
  <2>1. <<e.typ, e.name>> \in Types \X (Names \cup {NoName})
    BY <1>3 DEF Entries
  <2> QED
    BY <1>1, <1>4, <2>1, FailStep DEF Ops
<1>5. CASE CanUpdate(e) /\ Sends(c, e, convertConfig("PUT", e))
  <2>1. PICK req : req = convertConfig("PUT", e)
    OBVIOUS
  <2>2. Covers(h)
    BY <1>1, <1>3, <1>5, CrdClientAssumption DEF HeldOK, CanUpdate
  <2>3. /\ req \in Requests /\ req.verb = "PUT" /\ req.key = <<e.typ, e.name>>
        /\ req.key \in Keys /\ req.rev = e.rev /\ req.obj \in Objects
        /\ req.obj.ann = e.ann /\ req.obj.json.body = e.spec.body
    BY <1>3, <2>1, ConvertConfigOK
  <2>4. RequestOK(req)
    BY <1>3, <2>2, <2>3 DEF RequestOK, Extends, Covers
  <2> QED
    BY <1>1, <1>3, <1>5, <2>1, <2>3, <2>4, SendStep
<1> QED
  BY <1>2, <1>4, <1>5

(* The request of a read or a delete is a request.                         *)
LEMMA QueryOK ==
    ASSUME NEW verb \in {"GET", "DELETE", "LIST"}, NEW k \in Types \X (Names \cup {NoName}),
           verb # "LIST" => k \in Keys
    PROVE  RequestOK(Query(verb, k)) /\ Query(verb, k).verb = verb
BY DEF Query, RequestOK, Requests, Verbs

(* Get, List and Delete keep IInv: they send no object.                    *)
LEMMA AskStep ==
    ASSUME IInv, NEW c \in Callers, NEW op \in Ops, NEW verb \in {"GET", "DELETE", "LIST"},
           NEW ks, ks \subseteq Types \X (Names \cup {NoName}),
           verb # "LIST" => ks \subseteq Keys,
           Ask(c, op, verb, ks)
    PROVE  IInv'
<1>0. PICK h : h = held[c]
  OBVIOUS
<1>1. h \in Entries \cup {NoEntry} /\ HeldOK(h) /\ held' = [held EXCEPT ![c] = h]
  BY <1>0 DEF Ask, IInv, TypeOK
<1>2. PICK k \in ks : Fails(c, op, k) \/ Sends(c, NoEntry, Query(verb, k))
  BY DEF Ask
<1>3. PICK req : req = Query(verb, k)
  OBVIOUS
<1>4. RequestOK(req) /\ req.verb = verb
  BY <1>3, QueryOK
<1>5. CASE Fails(c, op, k)
  BY <1>1, <1>5, FailStep
<1>6. CASE Sends(c, NoEntry, Query(verb, k))
  BY <1>1, <1>3, <1>4, <1>6, SendStep
<1> QED
  BY <1>2, <1>5, <1>6

-----------------------------------------------------------------------------
(* The steps of the server and of the network. *)

(* A request that is applied appends its write.                            *)
LEMMA AppliesGrows ==
    ASSUME IInv, NEW req, RequestOK(req), Mutator(req), Applies(req)
    PROVE  /\ GrowsBy(Writes)
           /\ Len(log) + 1 \in 1..Len(log')
           /\ log'[Len(log) + 1] = [key |-> req.key, obj |-> req.obj, by |-> "client"]
<1> DEFINE w == [key |-> req.key, obj |-> req.obj, by |-> "client"]
<1>1. w \in Writes /\ log' = Append(log, w)
  BY DEF Applies, Write, Writes, RequestOK, Requests, Mutator
<1>2. log \in Seq(Writes)
  BY DEF IInv, TypeOK
<1> HIDE DEF w
<1>3. GrowsBy(Writes)
  BY <1>1 DEF GrowsBy
<1>4. Len(log') = Len(log) + 1 /\ log'[Len(log) + 1] = w /\ Len(log) \in Nat
  BY <1>1, <1>2, AppendedWrite
<1> QED
  BY <1>3, <1>4 DEF w

(* The answer of the server refers to writes that are in the log.          *)
LEMMA AnswerStep ==
    ASSUME IInv, NEW c \in Callers, Sent(c), GrowsBy(Writes),
           NEW ok \in BOOLEAN, NEW rev \in Nat,
           Answer(c, ok, rev), UNCHANGED <<late, held, result>>,
           NEW req, req = call[c].req, ReplyOK(req, [ok |-> ok, rev |-> rev])'
    PROVE  IInv'
<1>0. PICK old : old = call[c]
  OBVIOUS
<1> DEFINE reply == [ok |-> ok, rev |-> rev]
           cl == [old EXCEPT !.reply = reply]
<1>a. old \in CallType /\ log \in Seq(Writes) /\ CallOK(old)
  BY <1>0 DEF IInv, TypeOK, CallType
<1>1. call' = [call EXCEPT ![c] = cl]
  BY <1>0 DEF Answer
<1>b. cl.entry = old.entry /\ cl.req = old.req /\ cl.reply = reply
  BY <1>a DEF CallType
<1>2. cl \in CallType
  BY <1>a DEF CallType, Replies
<1>3. CallOK(cl)'
  <2>1. CallOK(old)'
    BY <1>a, FactsAreStable
  <2>2. old.req = req /\ old # NoCall
    BY <1>0 DEF Sent, NoCall
  <2> QED
    BY <1>b, <2>1, <2>2 DEF CallOK
<1>4. PICK h : h = held[c]
  OBVIOUS
<1>5. h \in Entries \cup {NoEntry} /\ held' = [held EXCEPT ![c] = h] /\ HeldOK(h)
  BY <1>4 DEF IInv, TypeOK
<1>6. HeldOK(h)'
  BY <1>a, <1>5, FactsAreStable
<1>7. PICK r : r = result[c]
  OBVIOUS
<1>8. r \in Results \cup {NoResult} /\ result' = [result EXCEPT ![c] = r]
  BY <1>7 DEF IInv, TypeOK
<1>9. /\ late' \in [Slots -> Requests \cup {NoRequest}]
      /\ \A s \in Slots : late'[s] # NoRequest => RequestOK(late'[s])
  BY DEF IInv, TypeOK
<1>10. PICK new : new = cl
  OBVIOUS
<1> QED
  BY <1>1, <1>2, <1>3, <1>5, <1>6, <1>8, <1>9, <1>10, CallerStep

(* Serving a request keeps IInv.                                           *)
LEMMA ServeStep ==
    ASSUME IInv, NEW c \in Callers, Serve(c)
    PROVE  IInv'
<1>0. PICK req : req = call[c].req
  OBVIOUS
<1>1. Sent(c) /\ UNCHANGED <<late, held, result>>
  BY DEF Serve
<1>2. /\ RequestOK(req) /\ req # NoRequest
      /\ Len(log) \in Nat
  BY <1>0, <1>1 DEF IInv, TypeOK, CallOK, Sent, NoCall
<1>3. CASE Mutator(req) /\ Applies(req) /\ Answer(c, TRUE, Len(log) + 1)
  <2>1. /\ GrowsBy(Writes) /\ Len(log) + 1 \in 1..Len(log')
        /\ log'[Len(log) + 1] = [key |-> req.key, obj |-> req.obj, by |-> "client"]
    BY <1>2, <1>3, AppliesGrows
  <2>2. PICK rev \in Nat : rev = Len(log) + 1
    BY <1>2
  <2>3. ReplyOK(req, [ok |-> TRUE, rev |-> rev])'
    BY <1>2, <1>3, <2>1, <2>2 DEF ReplyOK, Replies, Mutator
  <2> QED
    BY <1>0, <1>1, <1>3, <2>1, <2>2, <2>3, AnswerStep
<1>4. CASE Mutator(req) /\ Answer(c, FALSE, 0) /\ UNCHANGED log
  <2>1. ReplyOK(req, [ok |-> FALSE, rev |-> 0])'
    BY <1>4 DEF ReplyOK, Replies, Mutator
  <2> QED
    BY <1>0, <1>1, <1>4, <2>1, AnswerStep DEF GrowsBy
<1>5. CASE UNCHANGED log /\ \E n \in 0..Len(log) :
               \/ req.verb = "LIST" /\ Answer(c, TRUE, n)
               \/ /\ req.verb = "GET" /\ ObjectAt(n, req.key) # NoObject
                  /\ Answer(c, TRUE, RevisionAt(n, req.key))
               \/ req.verb = "GET" /\ Answer(c, FALSE, 0)
  <2>0. GrowsBy(Writes) /\ log' = log
    BY <1>5 DEF GrowsBy
  <2>1. PICK n \in 0..Len(log) :
               \/ req.verb = "LIST" /\ Answer(c, TRUE, n)
               \/ /\ req.verb = "GET" /\ ObjectAt(n, req.key) # NoObject
                  /\ Answer(c, TRUE, RevisionAt(n, req.key))
               \/ req.verb = "GET" /\ Answer(c, FALSE, 0)
    BY <1>5
  <2>2. CASE req.verb = "LIST" /\ Answer(c, TRUE, n)
    <3>1. ReplyOK(req, [ok |-> TRUE, rev |-> n])'
      BY <1>2, <2>0, <2>2 DEF ReplyOK, Replies
    <3>2. n \in Nat
      BY <1>2
    <3> QED
      BY <3>2, <1>0, <1>1, <1>2, <2>0, <2>2, <3>1, AnswerStep
  <2>3. CASE /\ req.verb = "GET" /\ ObjectAt(n, req.key) # NoObject
             /\ Answer(c, TRUE, RevisionAt(n, req.key))
    <3>1. req.key \in Keys
      BY <1>2, <2>3 DEF RequestOK
    <3>2. PICK rev : rev = RevisionAt(n, req.key)
      OBVIOUS
    <3>3. rev \in 0..n /\ IsLastWrite(rev, n, req.key)
      BY <3>1, <3>2, RevisionAtIsLastWrite DEF IInv
    <3>4. rev \in 1..Len(log) /\ log[rev].key = req.key /\ log[rev].obj # NoObject
      BY <1>2, <2>3, <3>2, <3>3 DEF ObjectAt, IsLastWrite
    <3>5. ReplyOK(req, [ok |-> TRUE, rev |-> rev])'
      BY <1>2, <2>0, <2>3, <3>4 DEF ReplyOK, Replies
    <3>6. rev \in Nat
      BY <3>3
    <3> QED
      BY <1>0, <1>1, <2>0, <2>3, <3>2, <3>5, <3>6, AnswerStep
  <2>4. CASE req.verb = "GET" /\ Answer(c, FALSE, 0)
    <3>1. ReplyOK(req, [ok |-> FALSE, rev |-> 0])'
      BY <2>4 DEF ReplyOK, Replies
    <3> QED
      BY <1>0, <1>1, <2>0, <2>4, <3>1, AnswerStep
  <2> QED
    BY <2>1, <2>2, <2>3, <2>4
<1> QED
  BY <1>0, <1>3, <1>4, <1>5 DEF Serve

(* A step of the network or of others leaves all calls as they are.        *)
LEMMA OutsideStep ==
    ASSUME IInv, GrowsBy(Writes), UNCHANGED <<call, held, result>>,
           late' \in [Slots -> Requests \cup {NoRequest}],
           \A s \in Slots : late'[s] # NoRequest => RequestOK(late'[s])
    PROVE  IInv'
<1>0. log \in Seq(Writes)
  BY DEF IInv, TypeOK
<1>1. TypeOK'
  BY <1>0, LogKeepsWrites DEF IInv, TypeOK
<1>2. LastWriteExists'
  BY <1>0, LastWriteExistsGrows DEF IInv
<1>3. /\ \A x : (CallOK(x) => CallOK(x)') /\ (HeldOK(x) => HeldOK(x)')
      /\ \A x : RequestOK(x) => RequestOK(x)'
  BY <1>0, FactsAreStable
<1>4. ASSUME NEW d \in Callers
      PROVE  CallOK(call[d])' /\ HeldOK(held[d])'
  <2>1. ASSUME NEW x, x = call[d] PROVE CallOK(x)'
    BY <1>3, <2>1 DEF IInv
  <2>2. ASSUME NEW x, x = held[d] PROVE HeldOK(x)'
    BY <1>3, <2>2 DEF IInv
  <2> QED
    BY <2>1, <2>2
<1>5. \A s \in Slots : late'[s] # NoRequest => RequestOK(late[s])'
  BY <1>3
<1> QED
  BY <1>1, <1>2, <1>4, <1>5 DEF IInv

(* So does a request that arrives after its call has failed.               *)
LEMMA ServeLateStep ==
    ASSUME IInv, NEW s \in Slots, ServeLate(s)
    PROVE  IInv'
<1>1. GrowsBy(Writes)
  <2>1. CASE UNCHANGED log
    BY <2>1 DEF GrowsBy
  <2>2. CASE Applies(late[s])
    <3>1. PICK req : req = late[s]
      OBVIOUS
    <3>2. RequestOK(req) /\ Mutator(req)
      BY <2>2, <3>1 DEF ServeLate, IInv, Applies, Accepts, Mutator
    <3> QED
      BY <2>2, <3>1, <3>2, AppliesGrows
  <2> QED
    BY <2>1, <2>2 DEF ServeLate
<1>2. /\ late' \in [Slots -> Requests \cup {NoRequest}]
      /\ \A t \in Slots : late'[t] # NoRequest => RequestOK(late'[t])
  BY DEF ServeLate, IInv, TypeOK
<1> QED
  BY <1>1, <1>2, OutsideStep DEF ServeLate

(* So does a write of others.                                              *)
LEMMA OtherWriteStep ==
    ASSUME IInv, OtherWrite
    PROVE  IInv'
<1>1. PICK w \in OtherWrites : Write(w.key, w.obj, "other")
  BY DEF OtherWrite
<1>2. [key |-> w.key, obj |-> w.obj, by |-> "other"] \in Writes
  BY CrdClientAssumption DEF Writes
<1>3. GrowsBy(Writes)
  BY <1>1, <1>2 DEF Write, GrowsBy
<1> QED
  BY <1>3, OutsideStep DEF OtherWrite, clientVars, IInv, TypeOK

-----------------------------------------------------------------------------
(* The returns of a caller. *)

(* What every return has in common.                                        *)
LEMMA ReturnStep ==
    ASSUME IInv, NEW c \in Callers, UNCHANGED log,
           NEW op \in Ops, NEW ok \in BOOLEAN, NEW items \in SUBSET Entries,
           Returns(c, op, ok, items), call[c].req # NoRequest,
           NEW e \in Entries \cup {NoEntry}, HeldOK(e), held' = [held EXCEPT ![c] = e],
           late' \in [Slots -> Requests \cup {NoRequest}],
           \A s \in Slots : late'[s] # NoRequest => RequestOK(late'[s])
    PROVE  IInv'
<1>1. GrowsBy(Writes)
  BY DEF GrowsBy
<1>2. HeldOK(e)'
  BY DEF HeldOK, Covers
<1>3. NoCall \in CallType /\ CallOK(NoCall)' /\ call' = [call EXCEPT ![c] = NoCall]
  BY NoCallOK DEF CallOK, Returns
<1>4. call[c].req \in Requests
  BY DEF IInv, TypeOK
<1>5. PICK r : r = Result(op, call[c].req.key, ok, items)
  OBVIOUS
<1>6. r \in Results /\ result' = [result EXCEPT ![c] = r]
  BY <1>4, <1>5 DEF Returns, Result, Results, Requests
<1> QED
  BY <1>1, <1>2, <1>3, <1>6, CallerStep

(* A return without entries.                                               *)
LEMMA ReturnNothingStep ==
    ASSUME IInv, NEW c \in Callers, UNCHANGED log,
           NEW op \in Ops, NEW ok \in BOOLEAN,
           Returns(c, op, ok, {}), call[c].req # NoRequest,
           NEW e \in Entries \cup {NoEntry}, HeldOK(e), held' = [held EXCEPT ![c] = e],
           late' \in [Slots -> Requests \cup {NoRequest}],
           \A s \in Slots : late'[s] # NoRequest => RequestOK(late'[s])
    PROVE  IInv'
<1>1. PICK items \in SUBSET Entries : items = {}
  OBVIOUS
<1>2. Returns(c, op, ok, items)
  BY <1>1
<1> QED
  BY <1>2, ReturnStep

(* What a caller goes on holding satisfies its part of IInv.               *)
LEMMA HeldStays ==
    ASSUME IInv, NEW c \in Callers, UNCHANGED held
    PROVE  \E e \in Entries \cup {NoEntry} : HeldOK(e) /\ held' = [held EXCEPT ![c] = e]
BY DEF IInv, TypeOK

(* So do requests that stay late.                                          *)
LEMMA LateStays ==
    ASSUME IInv, UNCHANGED late
    PROVE  /\ late' \in [Slots -> Requests \cup {NoRequest}]
           /\ \A s \in Slots : late'[s] # NoRequest => RequestOK(late'[s])
BY DEF IInv, TypeOK

(* What the invariant says of an answered call.                            *)
LEMMA AnsweredCall ==
    ASSUME IInv, NEW c \in Callers, NEW verb, Answered(c, verb)
    PROVE  /\ call[c].req # NoRequest /\ call[c].req.verb = verb
           /\ RequestOK(call[c].req) /\ ReplyOK(call[c].req, call[c].reply)
           /\ verb \in {"POST", "PUT"} =>
                /\ call[c].entry \in Entries
                /\ call[c].req = convertConfig(verb, call[c].entry)
<1>1. CallOK(call[c]) /\ call[c] # NoCall
  BY DEF IInv, Answered, NoCall
<1>2. RequestOK(call[c].req) /\ ReplyOK(call[c].req, call[c].reply)
  BY <1>1 DEF CallOK, Answered
<1>3. call[c].req # NoRequest
  BY <1>2, CrdClientAssumption DEF RequestOK
<1> QED
  BY <1>1, <1>2, <1>3 DEF CallOK, Answered

(* Returning from Create or Update keeps IInv: the new revision is that of *)
(* the write.                                                              *)
LEMMA ReturnWriteStep ==
    ASSUME IInv, NEW c \in Callers, ReturnWrite(c)
    PROVE  IInv'
<1>1. PICK verb \in {"POST", "PUT"} : Answered(c, verb)
  BY DEF ReturnWrite
<1>2. PICK req : req = call[c].req
  OBVIOUS
<1>3. PICK reply : reply = call[c].reply
  OBVIOUS
<1>4. PICK entry : entry = call[c].entry
  OBVIOUS
<1>5. /\ req # NoRequest /\ req.verb = verb /\ ReplyOK(req, reply)
      /\ entry \in Entries /\ req = convertConfig(verb, entry)
  BY <1>1, <1>2, <1>3, <1>4, AnsweredCall
<1>6. UNCHANGED <<log, late>> /\ Returns(c, "Write", reply.ok, {})
  BY <1>3 DEF ReturnWrite
<1>7. reply \in Replies
  BY <1>5 DEF ReplyOK
<1>8. \E e \in Entries \cup {NoEntry} : HeldOK(e) /\ held' = [held EXCEPT ![c] = e]
  <2>1. CASE reply.ok /\ held' = [held EXCEPT ![c] = [entry EXCEPT !.rev = reply.rev]]
    <3>1. PICK e : e = [entry EXCEPT !.rev = reply.rev]
      OBVIOUS
    <3>2. /\ e \in Entries /\ e.rev = reply.rev /\ e.typ = entry.typ /\ e.name = entry.name
          /\ e.ann = entry.ann /\ e.spec = entry.spec
      BY <1>5, <1>7, <3>1 DEF Entries, Replies
    <3>3. /\ req.key = <<entry.typ, entry.name>> /\ req.obj \in Objects
          /\ req.obj.ann = entry.ann /\ req.obj.json.body = entry.spec.body
      BY <1>5, ConvertConfigOK
    <3>4. Matches(e)
      BY <1>5, <2>1, <3>2, <3>3, CrdClientAssumption DEF Matches, ReplyOK
    <3> QED
      BY <2>1, <3>1, <3>2, <3>4, MatchingCovers DEF HeldOK
  <2>2. CASE UNCHANGED held
    BY <2>2, HeldStays
  <2> QED
    BY <2>1, <2>2, <1>3, <1>4 DEF ReturnWrite
<1>9. PICK e \in Entries \cup {NoEntry} : HeldOK(e) /\ held' = [held EXCEPT ![c] = e]
  BY <1>8
<1>10. PICK ok \in BOOLEAN : ok = reply.ok
  BY <1>7 DEF Replies
<1> QED
  <2>1. call[c].req # NoRequest /\ Returns(c, "Write", ok, {})
    BY <1>2, <1>5, <1>6, <1>10
  <2>2. "Write" \in Ops /\ UNCHANGED log
    BY <1>6 DEF Ops
  <2>3. /\ late' \in [Slots -> Requests \cup {NoRequest}]
        /\ \A s \in Slots : late'[s] # NoRequest => RequestOK(late'[s])
    BY <1>6, LateStays
  <2> QED
    BY <1>9, <2>1, <2>2, <2>3, ReturnNothingStep

(* Returning from Delete keeps IInv.                                       *)
LEMMA ReturnDeleteStep ==
    ASSUME IInv, NEW c \in Callers, ReturnDelete(c)
    PROVE  IInv'
<1>1. call[c].req # NoRequest /\ ReplyOK(call[c].req, call[c].reply)
  BY AnsweredCall DEF ReturnDelete
<1>2. PICK ok \in BOOLEAN : ok = call[c].reply.ok
  BY <1>1 DEF ReplyOK, Replies
<1>3. PICK e \in Entries \cup {NoEntry} : HeldOK(e) /\ held' = [held EXCEPT ![c] = e]
  BY HeldStays DEF ReturnDelete
<1> QED
  <2>1. Returns(c, "Delete", ok, {}) /\ UNCHANGED <<log, late>>
    BY <1>2 DEF ReturnDelete
  <2>2. "Delete" \in Ops
    BY DEF Ops
  <2>3. /\ late' \in [Slots -> Requests \cup {NoRequest}]
        /\ \A s \in Slots : late'[s] # NoRequest => RequestOK(late'[s])
    BY <2>1, LateStays
  <2> QED
    BY <1>1, <1>3, <2>1, <2>2, <2>3, ReturnNothingStep

(* What convertObject makes of a stored object is an entry that matches it. *)
LEMMA ConvertObjectOK ==
    ASSUME IInv, NEW r \in 1..Len(log), log[r].obj # NoObject
    PROVE  /\ convertObject(log[r].key, log[r].obj, r) \in Entries
           /\ Matches(convertObject(log[r].key, log[r].obj, r))
<1>1. log[r] \in Writes /\ Len(log) \in Nat
  BY DEF IInv, TypeOK
<1>2. log[r].key \in Keys /\ log[r].obj \in Objects
  BY <1>1 DEF Writes
<1>3. FromJSONMap(log[r].key[1], log[r].obj.json) \in Messages
  BY <1>2 DEF FromJSONMap, Messages, Keys, Objects, Json
<1>4. convertObject(log[r].key, log[r].obj, r) \in Entries
  BY <1>1, <1>2, <1>3 DEF convertObject, Entries, Keys, Objects
<1>5. log[r].key = <<log[r].key[1], log[r].key[2]>>
  BY <1>2 DEF Keys
<1> QED
  BY <1>4, <1>5 DEF convertObject, Matches, FromJSONMap

(* Returning from Get keeps IInv: the entry is what the log has at its     *)
(* revision.                                                               *)
LEMMA ReturnGetStep ==
    ASSUME IInv, NEW c \in Callers, ReturnGet(c)
    PROVE  IInv'
<1>1. PICK req : req = call[c].req
  OBVIOUS
<1>2. PICK reply : reply = call[c].reply
  OBVIOUS
<1>3. req # NoRequest /\ req.verb = "GET" /\ ReplyOK(req, reply) /\ UNCHANGED <<log, late>>
  BY <1>1, <1>2, AnsweredCall DEF ReturnGet
<1>4. CASE held' = held /\ Returns(c, "Get", FALSE, {})
  <2>1. PICK e \in Entries \cup {NoEntry} : HeldOK(e) /\ held' = [held EXCEPT ![c] = e]
    BY <1>4, HeldStays
  <2> QED
    <3>1. "Get" \in Ops /\ FALSE \in BOOLEAN /\ call[c].req # NoRequest
      BY <1>1, <1>3 DEF Ops
    <3>2. /\ late' \in [Slots -> Requests \cup {NoRequest}]
          /\ \A s \in Slots : late'[s] # NoRequest => RequestOK(late'[s])
      BY <1>3, LateStays
    <3>3. PICK ok \in BOOLEAN : ok = FALSE
      OBVIOUS
    <3> QED
      BY <1>3, <1>4, <2>1, <3>1, <3>2, <3>3, ReturnNothingStep
<1>5. CASE reply.ok /\ \E e : /\ e = convertObject(req.key, log[reply.rev].obj, reply.rev)
                              /\ held' = [held EXCEPT ![c] = e]
                              /\ Returns(c, "Get", TRUE, {e})
  <2>1. PICK e : /\ e = convertObject(req.key, log[reply.rev].obj, reply.rev)
                 /\ held' = [held EXCEPT ![c] = e]
                 /\ Returns(c, "Get", TRUE, {e})
    BY <1>5
  <2>2. reply.rev \in 1..Len(log) /\ log[reply.rev].key = req.key /\ log[reply.rev].obj # NoObject
    BY <1>3, <1>5 DEF ReplyOK
  <2>3. e \in Entries /\ Matches(e)
    BY <2>1, <2>2, ConvertObjectOK
  <2>4. HeldOK(e) /\ {e} \in SUBSET Entries
    BY <2>3, MatchingCovers DEF HeldOK
  <2>5. PICK items : items = {e}
    OBVIOUS
  <2> QED
    BY <1>1, <1>3, <2>1, <2>3, <2>4, <2>5, LateStays, ReturnStep DEF Ops
<1> QED
  BY <1>1, <1>2, <1>4, <1>5 DEF ReturnGet

(* The items of a list are entries of the log.                             *)
LEMMA ListedItemsOK ==
    ASSUME IInv, NEW n \in 0..Len(log), NEW typ \in Types, NEW k \in LiveAt(n, typ)
    PROVE  /\ RevisionAt(n, k) \in 1..Len(log)
           /\ log[RevisionAt(n, k)].key = k
           /\ log[RevisionAt(n, k)].obj # NoObject
           /\ ObjectAt(n, k) = log[RevisionAt(n, k)].obj
<1>1. k \in Keys /\ ObjectAt(n, k) # NoObject /\ Len(log) \in Nat
  BY DEF LiveAt, Keys, IInv, TypeOK
<1>2. RevisionAt(n, k) \in 0..n /\ IsLastWrite(RevisionAt(n, k), n, k)
  BY <1>1, RevisionAtIsLastWrite DEF IInv
<1>3. RevisionAt(n, k) # 0
  BY <1>1 DEF ObjectAt
<1> QED
  BY <1>1, <1>2, <1>3 DEF ObjectAt, IsLastWrite

(* Returning from List keeps IInv.                                         *)
LEMMA ReturnListStep ==
    ASSUME IInv, NEW c \in Callers, ReturnList(c)
    PROVE  IInv'
<1> DEFINE n    == call[c].reply.rev
           typ  == call[c].req.key[1]
           live == LiveAt(n, typ)
           good == {k \in live : Decodes(k[1], ObjectAt(n, k).json)}
           all  == {convertObject(k, ObjectAt(n, k), RevisionAt(n, k)) : k \in good}
<1>1. /\ call[c].req # NoRequest /\ call[c].req.verb = "LIST"
      /\ RequestOK(call[c].req) /\ ReplyOK(call[c].req, call[c].reply)
  BY AnsweredCall DEF ReturnList
<1>2. n \in 0..Len(log) /\ typ \in Types
  BY <1>1 DEF ReplyOK, RequestOK, Requests
<1>3. ASSUME NEW k \in good
      PROVE  convertObject(k, ObjectAt(n, k), RevisionAt(n, k)) \in Entries
  <2>1. PICK r : r = RevisionAt(n, k)
    OBVIOUS
  <2>2. r \in 1..Len(log) /\ log[r].key = k /\ log[r].obj # NoObject /\ ObjectAt(n, k) = log[r].obj
    BY <1>2, <2>1, ListedItemsOK
  <2> QED
    BY <2>1, <2>2, ConvertObjectOK
<1>4. PICK items : items = all
  OBVIOUS
<1>5. items \in SUBSET Entries
  BY <1>3, <1>4
<1>6. PICK ok \in BOOLEAN : ok = (good = live)
  OBVIOUS
<1>7. Returns(c, "List", ok, items) /\ UNCHANGED <<log, late, held>>
  BY <1>4, <1>6 DEF ReturnList
<1>8. PICK e \in Entries \cup {NoEntry} : HeldOK(e) /\ held' = [held EXCEPT ![c] = e]
  BY <1>7, HeldStays
<1> QED
  BY <1>1, <1>5, <1>7, <1>8, LateStays, ReturnStep DEF Ops

(* A transport error keeps IInv: the request is dropped or late.           *)
LEMMA LoseStep ==
    ASSUME IInv, NEW c \in Callers, Lose(c)
    PROVE  IInv'
<1>1. CallOK(call[c]) /\ call[c] # NoCall
  BY DEF IInv, Lose, Idle
<1>2. RequestOK(call[c].req)
  BY <1>1 DEF CallOK
<1>3. call[c].req # NoRequest /\ call[c].req \in Requests
  BY <1>2, CrdClientAssumption DEF RequestOK
<1>4. /\ late' \in [Slots -> Requests \cup {NoRequest}]
      /\ \A s \in Slots : late'[s] # NoRequest => RequestOK(late'[s])
  <2>1. CASE UNCHANGED late
    BY <2>1, LateStays
  <2>2. CASE \E s \in Slots : late' = [late EXCEPT ![s] = call[c].req]
    BY <1>2, <1>3, <2>2 DEF IInv, TypeOK
  <2> QED
    BY <2>1, <2>2 DEF Lose
<1>5. PICK e \in Entries \cup {NoEntry} : HeldOK(e) /\ held' = [held EXCEPT ![c] = e]
  BY HeldStays DEF Lose
<1>6. PICK ok \in BOOLEAN : ok = FALSE
  OBVIOUS
<1>7. "Lost" \in Ops /\ Returns(c, "Lost", ok, {}) /\ UNCHANGED log
  BY <1>6 DEF Lose, Ops
<1> QED
  BY <1>3, <1>4, <1>5, <1>7, ReturnNothingStep

-----------------------------------------------------------------------------
(* The invariant holds. *)

(* The initial state satisfies IInv.                                       *)
LEMMA InitOK == Init => IInv
<1> SUFFICES ASSUME Init PROVE IInv
  OBVIOUS
<1>1. TypeOK
  BY NoCallOK DEF Init, TypeOK, CallType
<1>2. LastWriteExists
  BY DEF Init, LastWriteExists, IsLastWrite
<1>3. \A c \in Callers : CallOK(call[c]) /\ HeldOK(held[c])
  BY DEF Init, CallOK, HeldOK
<1> QED
  BY <1>1, <1>2, <1>3 DEF Init, IInv

(* Every step keeps IInv.                                                  *)
LEMMA NextOK == IInv /\ [Next]_vars => IInv'
<1> SUFFICES ASSUME IInv, [Next]_vars PROVE IInv'
  OBVIOUS
<1>1. CASE UNCHANGED vars
  <2>1. GrowsBy(Writes) /\ UNCHANGED <<call, held, result, late>>
    BY <1>1 DEF vars, GrowsBy
  <2> QED
    BY <2>1, LateStays, OutsideStep
<1>2. ASSUME NEW c \in Callers, Call(c) PROVE IInv'
  <2>1. CASE Create(c)
    BY <2>1, CreateStep
  <2>2. CASE Update(c)
    BY <2>2, UpdateStep
  <2>3. CASE Delete(c)
    BY <2>3, AskStep DEF Delete, Ops, Keys
  <2>4. CASE Get(c)
    BY <2>4, AskStep DEF Get, Ops, Keys
  <2>5. CASE List(c)
    BY <2>5, AskStep DEF List, Ops
  <2> QED
    BY <1>2, <2>1, <2>2, <2>3, <2>4, <2>5 DEF Call
<1>3. ASSUME NEW c \in Callers, Return(c) PROVE IInv'
  BY <1>3, ReturnWriteStep, ReturnDeleteStep, ReturnGetStep, ReturnListStep DEF Return
<1> QED
  BY <1>1, <1>2, <1>3, ServeStep, LoseStep, ServeLateStep, OtherWriteStep DEF Next

(* IInv is an invariant of the client.                                     *)
LEMMA InvariantOK == Spec => []IInv
BY InitOK, NextOK, PTL DEF Spec

(* Every variable holds a value of its type, in every instance.            *)
THEOREM TypeCorrect == Spec => []TypeOK
<1>1. IInv => TypeOK
  BY DEF IInv
<1> QED
  BY <1>1, InvariantOK, PTL

-----------------------------------------------------------------------------
(* Updates keep the work of others. *)

(* A write of the client is a request that the server accepted.            *)
LEMMA ClientWriteIsAccepted ==
    ASSUME IInv, Next, ClientUpdate
    PROVE  \E req : RequestOK(req) /\ Mutator(req) /\ Applies(req)
<1>0. log \in Seq(Writes) /\ Len(log) \in Nat
  BY DEF IInv, TypeOK
<1>1. log' # log
  BY <1>0 DEF ClientUpdate
<1>2. ASSUME NEW c \in Callers, Serve(c)
      PROVE  \E req : RequestOK(req) /\ Mutator(req) /\ Applies(req)
  <2>1. RequestOK(call[c].req)
    BY <1>2 DEF IInv, CallOK, Serve, Sent, NoCall
  <2>2. Mutator(call[c].req) /\ Applies(call[c].req)
    BY <1>1, <1>2 DEF Serve
  <2> QED
    BY <2>1, <2>2
<1>3. ASSUME NEW s \in Slots, ServeLate(s)
      PROVE  \E req : RequestOK(req) /\ Mutator(req) /\ Applies(req)
  <2>1. RequestOK(late[s]) /\ Applies(late[s])
    BY <1>1, <1>3 DEF IInv, ServeLate
  <2>2. Mutator(late[s])
    BY <2>1 DEF Applies, Accepts, Mutator
  <2> QED
    BY <2>1, <2>2
<1>4. ~OtherWrite
  <2> SUFFICES ASSUME OtherWrite PROVE FALSE
    OBVIOUS
  <2>1. PICK w \in OtherWrites : Write(w.key, w.obj, "other")
    BY DEF OtherWrite
  <2>2. PICK x \in Writes : x = [key |-> w.key, obj |-> w.obj, by |-> "other"]
    BY CrdClientAssumption DEF Writes
  <2>3. Len(log') = Len(log) + 1 /\ log'[Len(log) + 1] = x
    BY <1>0, <2>1, <2>2, AppendedWrite DEF Write
  <2> QED
    BY <2>2, <2>3 DEF ClientUpdate
<1>5. ASSUME NEW c \in Callers PROVE ~Call(c) /\ ~Return(c) /\ ~Lose(c)
  BY <1>1 DEF Call, Return, Lose, Create, Update, Delete, Get, List, Ask, Fails, Sends,
              ReturnWrite, ReturnDelete, ReturnGet, ReturnList
<1> QED
  BY <1>2, <1>3, <1>4, <1>5 DEF Next

(* A write the server accepts keeps what is in the object it replaces.     *)
LEMMA AcceptedWritePreserves ==
    ASSUME IInv, NEW req, RequestOK(req), Mutator(req), Applies(req),
           NEW k \in Keys, Live(k), Live(k)'
    PROVE  Preserves(k)
<1>1. PICK w \in Writes : /\ w = [key |-> req.key, obj |-> req.obj, by |-> "client"]
                          /\ log' = Append(log, w)
  BY DEF Applies, Write, Writes, RequestOK, Requests, Mutator
<1>2. ObjectOf(k)' = IF w.key = k THEN w.obj ELSE ObjectOf(k)
  BY <1>1, KeyAfterWrite DEF IInv, TypeOK
<1>3. CASE req.key # k
  BY <1>1, <1>2, <1>3 DEF Preserves
<1>4. CASE req.key = k
  <2>1. ObjectOf(k)' = req.obj
    BY <1>1, <1>2, <1>4
  <2>2. req.verb # "DELETE"
    BY <2>1 DEF Live, RequestOK
  <2>3. req.verb # "POST"
    BY <1>4 DEF Applies, Accepts
  <2>4. req.verb = "PUT" /\ RevisionOf(k) = req.rev
    BY <1>4, <2>2, <2>3 DEF Applies, Accepts, Mutator, RequestOK, Extends
  <2>5. Len(log) \in Nat /\ Extends(req)
    BY <2>4 DEF IInv, TypeOK, RequestOK
  <2>6. ObjectOf(k) = log[req.rev].obj
    BY <2>4, <2>5 DEF ObjectOf, ObjectAt, RevisionOf, Extends
  <2> QED
    BY <2>1, <2>5, <2>6 DEF Preserves, Extends
<1> QED
  BY <1>3, <1>4

(* A step that leaves the log is no write of the client.                   *)
LEMMA ClientUpdatesWrite ==
    ASSUME log \in Seq(Writes), UNCHANGED log
    PROVE  ~ClientUpdate
<1>1. Len(log) \in Nat
  OBVIOUS
<1> QED
  BY <1>1 DEF ClientUpdate

(* A write of the client preserves what is in the object it writes to.     *)
LEMMA ClientUpdatePreserves ==
    ASSUME IInv, [Next]_vars, ClientUpdate, NEW k \in Keys, Live(k), Live(k)'
    PROVE  Preserves(k)
<1>1. Next
  <2> SUFFICES ASSUME UNCHANGED vars PROVE FALSE
    OBVIOUS
  <2> QED
    BY ClientUpdatesWrite DEF vars, IInv, TypeOK
<1>2. PICK req : RequestOK(req) /\ Mutator(req) /\ Applies(req)
  BY <1>1, ClientWriteIsAccepted
<1> QED
  BY <1>2, AcceptedWritePreserves

(***************************************************************************)
(* However many callers, late requests and other writers there are, an     *)
(* Update never overwrites what another has put into the object since it   *)
(* was read: the revision convertConfig copies into the PUT stands for     *)
(* everything the update was computed from (store.go:70-75).               *)
(***************************************************************************)
THEOREM UpdatesAreSafe == Spec => UpdatesKeepOthersWork
<1>1. IInv /\ [Next]_vars =>
        [ClientUpdate => \A k \in Keys : Live(k) /\ Live(k)' => Preserves(k)]_vars
  BY ClientUpdatePreserves
<1> QED
  BY <1>1, InvariantOK, PTL DEF Spec, UpdatesKeepOthersWork

(* Whatever step is taken, the log grows by a write or stays.              *)
LEMMA NextGrows ==
    ASSUME IInv, [Next]_vars
    PROVE  GrowsBy(Writes)
<1>1. ASSUME NEW c \in Callers, Serve(c) PROVE GrowsBy(Writes)
  <2>1. RequestOK(call[c].req)
    BY <1>1 DEF IInv, CallOK, Serve, Sent, NoCall
  <2>2. log' = log \/ (Mutator(call[c].req) /\ Applies(call[c].req))
    BY <1>1 DEF Serve
  <2>. QED  BY <2>1, <2>2, AppliesGrows DEF GrowsBy
<1>2. ASSUME NEW s \in Slots, ServeLate(s) PROVE GrowsBy(Writes)
  <2>1. RequestOK(late[s]) /\ (log' = log \/ Applies(late[s]))
    BY <1>2 DEF IInv, ServeLate
  <2>2. Applies(late[s]) => Mutator(late[s])
    BY DEF Applies, Accepts, Mutator
  <2>. QED  BY <2>1, <2>2, AppliesGrows DEF GrowsBy
<1>3. CASE OtherWrite
  <2>1. PICK w \in OtherWrites : Write(w.key, w.obj, "other")
    BY <1>3 DEF OtherWrite
  <2>2. [key |-> w.key, obj |-> w.obj, by |-> "other"] \in Writes
    BY CrdClientAssumption DEF Writes
  <2>. QED  BY <2>1, <2>2 DEF Write, GrowsBy
<1>4. ASSUME NEW c \in Callers, Call(c) \/ Return(c) \/ Lose(c) PROVE GrowsBy(Writes)
  <2>1. log' = log
    BY <1>4 DEF Call, Return, Lose, Create, Update, Delete, Get, List, Ask, Fails, Sends,
                ReturnWrite, ReturnDelete, ReturnGet, ReturnList
  <2>. QED  BY <2>1 DEF GrowsBy
<1>5. CASE UNCHANGED vars
  BY <1>5 DEF vars, GrowsBy
<1>. QED  BY <1>1, <1>2, <1>3, <1>4, <1>5 DEF Next

-----------------------------------------------------------------------------
(* Lists are whole. *)

(* Only ReturnList ends a List whose answer has come with its connection   *)
(* whole.                                                                  *)
LEMMA ListsEndInReturnList ==
    ASSUME IInv, [Next]_vars, NEW c \in Callers, ListReturns(c)
    PROVE  ReturnList(c)
<1>0. /\ call \in [Callers -> [entry : Entries \cup {NoEntry},
                               req   : Requests \cup {NoRequest},
                               reply : Replies \cup {NoReply}]]
      /\ result \in [Callers -> Results \cup {NoResult}]
  BY DEF IInv, TypeOK
<1>1. call[c].reply # NoReply /\ call'[c] = NoCall /\ result'[c].op = "List"
  BY DEF ListReturns
<1>2. call[c] # NoCall
  BY <1>1 DEF NoCall
<1>3. ASSUME NEW d \in Callers, NEW x, call' = [call EXCEPT ![d] = x]
      PROVE  d = c
  BY <1>0, <1>1, <1>2, <1>3
<1>4. ASSUME NEW d \in Callers, NEW op, NEW ok, NEW items, Returns(d, op, ok, items)
      PROVE  d = c /\ op = "List"
  <2>1. call' = [call EXCEPT ![d] = NoCall]
    BY <1>4 DEF Returns
  <2>2. d = c
    BY <1>3, <2>1
  <2>3. result'[c] = Result(op, call[c].req.key, ok, items)
    BY <1>0, <1>4, <2>2 DEF Returns
  <2>. QED  BY <1>1, <2>2, <2>3 DEF Result
<1>5. ASSUME NEW d \in Callers, Call(d) PROVE FALSE
  <2>1. Idle(d)
    BY <1>5 DEF Call, Create, Update, Delete, Get, List, Ask
  <2>2. \/ call' = call
        \/ \E entry, req : Sends(d, entry, req)
    BY <1>5 DEF Call, Create, Update, Delete, Get, List, Ask, Fails
  <2>3. call' # call
    BY <1>1, <1>2
  <2>4. d = c
    BY <1>3, <2>2, <2>3 DEF Sends
  <2>. QED  BY <1>2, <2>1, <2>4 DEF Idle
<1>6. ASSUME NEW d \in Callers, Serve(d) PROVE FALSE
  <2>1. Sent(d) /\ \E ok, rev : Answer(d, ok, rev)
    BY <1>6 DEF Serve
  <2>2. PICK ok, rev : call' = [call EXCEPT ![d].reply = [ok |-> ok, rev |-> rev]]
    BY <2>1 DEF Answer
  <2>3. call' = [call EXCEPT ![d] = [call[d] EXCEPT !.reply = [ok |-> ok, rev |-> rev]]]
    BY <2>2
  <2>4. d = c
    BY <1>3, <2>3
  <2>. QED  BY <1>1, <2>1, <2>4 DEF Sent
<1>7. ASSUME NEW d \in Callers, ReturnWrite(d) \/ ReturnDelete(d) \/ ReturnGet(d) \/ Lose(d)
      PROVE  FALSE
  <2>1. PICK op \in {"Write", "Delete", "Get", "Lost"} : \E ok, items : Returns(d, op, ok, items)
    BY <1>7 DEF ReturnWrite, ReturnDelete, ReturnGet, Lose
  <2>. QED  BY <1>4, <2>1
<1>8. ASSUME NEW d \in Callers, ReturnList(d) PROVE d = c
  BY <1>4, <1>8 DEF ReturnList
<1>9. ASSUME (\E s \in Slots : ServeLate(s)) \/ OtherWrite \/ UNCHANGED vars
      PROVE  FALSE
  BY <1>1, <1>2, <1>9 DEF ServeLate, OtherWrite, clientVars, vars
<1>. QED  BY <1>5, <1>6, <1>7, <1>8, <1>9 DEF Next, Return

(* The item List makes of a live object is that object, and is stored.     *)
LEMMA ListedItemIsStored ==
    ASSUME IInv, NEW n \in 0..Len(log), NEW typ \in Types, NEW k \in LiveAt(n, typ),
           NEW e, e = convertObject(k, ObjectAt(n, k), RevisionAt(n, k))
    PROVE  <<e.typ, e.name>> = k /\ e.rev = RevisionAt(n, k) /\ Stored(e)
<1>1. k = <<k[1], k[2]>>
  BY DEF LiveAt
<1>2. <<e.typ, e.name>> = k /\ e.rev = RevisionAt(n, k)
  BY <1>1 DEF convertObject
<1>3. PICK r : r = RevisionAt(n, k)
  OBVIOUS
<1>4. r \in 1..Len(log) /\ log[r].key = k /\ log[r].obj # NoObject /\ ObjectAt(n, k) = log[r].obj
  BY <1>3, ListedItemsOK
<1>5. e = convertObject(k, log[r].obj, r) /\ e = [e EXCEPT !.home = NoHome]
  BY <1>3, <1>4 DEF convertObject
<1>. QED  BY <1>2, <1>3, <1>4, <1>5 DEF Stored

(* ReturnList shows the state its answer was read from.                    *)
LEMMA ReturnListShows ==
    ASSUME IInv, NEW c \in Callers, ReturnList(c)
    PROVE  Shows(result'[c], call[c].reply.rev)
<1>1. PICK n, typ : n = call[c].reply.rev /\ typ = call[c].req.key[1]
  OBVIOUS
<1>2. n \in 0..Len(log) /\ typ \in Types
  BY <1>1, AnsweredCall DEF ReturnList, ReplyOK, RequestOK, Requests
<1> DEFINE live  == LiveAt(n, typ)
           good  == {k \in live : Decodes(k[1], ObjectAt(n, k).json)}
           E(k)  == convertObject(k, ObjectAt(n, k), RevisionAt(n, k))
           items == {E(k) : k \in good}
<1>3. result'[c] = Result("List", call[c].req.key, good = live, items)
  BY <1>1 DEF ReturnList, Returns, IInv, TypeOK
<1>4. PICK r : r = result'[c]
  OBVIOUS
<1>5. r.key[1] = typ /\ r.items = items /\ r.ok = (good = live)
  BY <1>1, <1>3, <1>4 DEF Result
<1>6. ASSUME NEW k \in live
      PROVE  <<E(k).typ, E(k).name>> = k /\ E(k).rev = RevisionAt(n, k) /\ Stored(E(k))
  BY <1>2, <1>6, ListedItemIsStored
<1>7. ASSUME NEW e \in r.items
      PROVE  /\ <<e.typ, e.name>> \in live
             /\ e.rev = RevisionAt(n, <<e.typ, e.name>>) /\ Stored(e)
  <2>1. PICK k \in good : e = E(k)
    BY <1>5, <1>7
  <2>. QED  BY <1>6, <2>1
<1>8. ASSUME NEW k \in live
      PROVE  \/ \E e \in r.items : <<e.typ, e.name>> = k
             \/ ~Decodes(k[1], ObjectAt(n, k).json) /\ ~r.ok
  <2>1. CASE k \in good
    <3>1. E(k) \in r.items
      BY <1>5, <2>1
    <3>. QED  BY <1>6, <1>8, <3>1
  <2>2. CASE k \notin good
    BY <1>5, <1>8, <2>2
  <2>. QED  BY <2>1, <2>2
<1>9. ~r.ok => \E k \in live : ~Decodes(k[1], ObjectAt(n, k).json)
  BY <1>5
<1> HIDE DEF live, good, E, items
<1>10. LiveAt(n, r.key[1]) = live
  BY <1>5 DEF live
<1>. QED  BY <1>1, <1>4, <1>7, <1>8, <1>9, <1>10 DEF Shows

(***************************************************************************)
(* A List returns the one state its answer was read from: every object of  *)
(* it that decodes, as it was, and an error exactly when one does not      *)
(* (client.go:371-393).                                                    *)
(***************************************************************************)
THEOREM ListsAreWhole == Spec => ListIsWhole
<1>1. IInv /\ [Next]_vars =>
        [\A c \in Callers : ListReturns(c) => Shows(result'[c], call[c].reply.rev)]_vars
  BY ListsEndInReturnList, ReturnListShows
<1>. QED  BY <1>1, InvariantOK, PTL DEF Spec, ListIsWhole

-----------------------------------------------------------------------------
(***************************************************************************)
(* What callers are handed is what is stored, and what the client writes   *)
(* can be read back, when every entry is created with a message of its     *)
(* type: the inductive invariant TInv on top of IInv.                      *)
(***************************************************************************)

Typed(e) == e # NoEntry => e.spec.msg = e.typ

RequestDecodes(req) == req.obj # NoObject => Decodes(req.key[1], req.obj.json)

CallTyped(cl) == cl # NoCall => Typed(cl.entry) /\ RequestDecodes(cl.req)

ResultOK(r) == r # NoResult => \A e \in r.items : Matches(e) /\ Typed(e)

TInv ==
    /\ \A c \in Callers : Typed(held[c]) /\ CallTyped(call[c]) /\ ResultOK(result[c])
    /\ \A s \in Slots : late[s] # NoRequest => RequestDecodes(late[s])
    /\ ClientWritesDecode

(* The log stays, or grows by a write that decodes if the client wrote it. *)
GoodWrite ==
    \/ log' = log
    \/ \E w \in Writes : /\ log' = Append(log, w)
                         /\ w.by = "client" /\ w.obj # NoObject => Decodes(w.key[1], w.obj.json)

(* What the client has written goes on decoding.                           *)
LEMMA GoodWritesDecode ==
    ASSUME IInv, ClientWritesDecode, GoodWrite
    PROVE  ClientWritesDecode' /\ GrowsBy(Writes)
<1>0. log \in Seq(Writes)
  BY DEF IInv, TypeOK
<1>1. CASE log' = log
  BY <1>1 DEF ClientWritesDecode, GrowsBy
<1>2. CASE log' # log
  <2>1. PICK w \in Writes : /\ log' = Append(log, w)
                            /\ w.by = "client" /\ w.obj # NoObject =>
                                 Decodes(w.key[1], w.obj.json)
    BY <1>2 DEF GoodWrite
  <2>2. GrowsBy(Writes)
    BY <2>1 DEF GrowsBy
  <2>3. /\ Len(log) \in Nat /\ \A i \in 1..Len(log) : log'[i] = log[i]
        /\ Len(log') = Len(log) + 1 /\ log'[Len(log) + 1] = w
    BY <1>0, <2>1, <2>2, AppendedWrite, LogKeepsWrites
  <2> QED
    BY <2>1, <2>2, <2>3 DEF ClientWritesDecode
<1> QED
  BY <1>1, <1>2

(* Results keep matching the log while it grows.                           *)
LEMMA ResultsStayOK ==
    ASSUME log \in Seq(Writes), GrowsBy(Writes), NEW r, ResultOK(r)
    PROVE  ResultOK(r)'
<1>1. \A e : Matches(e) => Matches(e)'
  BY FactsAreStable
<1> QED
  BY <1>1 DEF ResultOK

(* A step of caller c.                                                     *)
LEMMA TypedCallerStep ==
    ASSUME IInv, TInv, GoodWrite,
           NEW c \in Callers,
           NEW cl, CallTyped(cl), call' = [call EXCEPT ![c] = cl],
           NEW e, Typed(e), held' = [held EXCEPT ![c] = e],
           NEW r, ResultOK(r)', result' = [result EXCEPT ![c] = r],
           \A s \in Slots : late'[s] # NoRequest => RequestDecodes(late'[s])
    PROVE  TInv'
<1>1. ClientWritesDecode' /\ GrowsBy(Writes) /\ log \in Seq(Writes)
  BY GoodWritesDecode DEF TInv, IInv, TypeOK
<1>2. ASSUME NEW d \in Callers
      PROVE  Typed(held'[d]) /\ CallTyped(call'[d])
  BY DEF IInv, TypeOK, TInv
<1>3. ASSUME NEW d \in Callers
      PROVE  ResultOK(result[d])'
  <2>1. CASE d # c
    <3>1. PICK x : x = result[d]
      OBVIOUS
    <3>2. result'[d] = x
      BY <2>1, <3>1 DEF IInv, TypeOK
    <3>3. ResultOK(x)'
      BY <1>1, <3>1, ResultsStayOK DEF TInv
    <3> QED
      BY <3>2, <3>3
  <2>2. CASE d = c
    <3>1. result'[d] = r
      BY <2>2 DEF IInv, TypeOK
    <3> QED
      BY <3>1
  <2> QED
    BY <2>1, <2>2
<1> QED
  BY <1>1, <1>2, <1>3 DEF TInv

-----------------------------------------------------------------------------
(* The steps of a caller. *)

(* What convertConfig makes of a typed entry decodes under the entry's     *)
(* type.                                                                   *)
LEMMA ConvertConfigDecodes ==
    ASSUME NEW e \in Entries, Typed(e), NEW verb
    PROVE  RequestDecodes(convertConfig(verb, e))
BY CrdClientAssumption DEF Typed, RequestDecodes, convertConfig, Decodes, ToJSONMap

(* Late requests go on decoding.                                           *)
LEMMA TypedLateStays ==
    ASSUME TInv, UNCHANGED late
    PROVE  \A s \in Slots : late'[s] # NoRequest => RequestDecodes(late'[s])
BY DEF TInv

(* Sending a request of a typed entry keeps TInv.                          *)
LEMMA TypedSendStep ==
    ASSUME IInv, TInv, NEW c \in Callers,
           NEW entry, Typed(entry), NEW req, RequestDecodes(req), Sends(c, entry, req),
           NEW e, Typed(e), held' = [held EXCEPT ![c] = e]
    PROVE  TInv'
<1>1. PICK cl : cl = [entry |-> entry, req |-> req, reply |-> NoReply]
  OBVIOUS
<1>2. CallTyped(cl) /\ call' = [call EXCEPT ![c] = cl]
  BY <1>1 DEF CallTyped, Sends
<1>3. ResultOK(NoResult)' /\ result' = [result EXCEPT ![c] = NoResult]
  BY DEF ResultOK, Sends
<1>4. GoodWrite /\ UNCHANGED late
  BY DEF GoodWrite, Sends
<1> QED
  BY <1>2, <1>3, <1>4, TypedLateStays, TypedCallerStep

(* A call that fails before it sends anything keeps TInv.                  *)
LEMMA TypedFailStep ==
    ASSUME IInv, TInv, NEW c \in Callers, NEW op, NEW k, Fails(c, op, k),
           NEW e, Typed(e), held' = [held EXCEPT ![c] = e]
    PROVE  TInv'
<1>1. PICK cl : cl = call[c]
  OBVIOUS
<1>2. CallTyped(cl) /\ call' = [call EXCEPT ![c] = cl]
  BY <1>1 DEF TInv, IInv, TypeOK, Fails
<1>3. PICK r : r = Result(op, k, FALSE, {})
  OBVIOUS
<1>4. ResultOK(r)' /\ result' = [result EXCEPT ![c] = r]
  BY <1>3 DEF ResultOK, Result, Fails
<1>5. GoodWrite /\ UNCHANGED late
  BY DEF GoodWrite, Fails
<1> QED
  BY <1>2, <1>4, <1>5, TypedLateStays, TypedCallerStep

(* Create keeps TInv.                                                      *)
LEMMA TypedCreateStep ==
    ASSUME WellTyped, IInv, TInv, NEW c \in Callers, Create(c)
    PROVE  TInv'
<1>1. PICK e \in NewEntries :
        /\ held' = [held EXCEPT ![c] = e]
        /\ \/ Fails(c, "Create", <<e.typ, e.name>>)
           \/ Sends(c, e, convertConfig("POST", e))
  BY DEF Create
<1>2. e \in Entries /\ Typed(e)
  BY CrdClientAssumption DEF WellTyped, Typed
<1>3. PICK req : req = convertConfig("POST", e)
  OBVIOUS
<1>4. RequestDecodes(req)
  BY <1>2, <1>3, ConvertConfigDecodes
<1> QED
  BY <1>1, <1>2, <1>3, <1>4, TypedFailStep, TypedSendStep

(* Update keeps TInv: an edit does not change the type of the message.     *)
LEMMA TypedUpdateStep ==
    ASSUME IInv, TInv, NEW c \in Callers, Update(c)
    PROVE  TInv'
<1>1. PICK h : h = held[c]
  OBVIOUS
<1>2. h \in Entries /\ Typed(h) /\ held' = [held EXCEPT ![c] = h] /\ h # NoEntry
  BY <1>1 DEF Update, IInv, TypeOK, TInv
<1>3. PICK e \in Edits(h) :
        \/ Fails(c, "Update", <<e.typ, e.name>>)
        \/ Sends(c, e, convertConfig("PUT", e))
  BY <1>1 DEF Update
<1>4. e \in Entries /\ Typed(e)
  BY <1>2, EditsOK DEF Typed
<1>5. PICK req : req = convertConfig("PUT", e)
  OBVIOUS
<1>6. RequestDecodes(req)
  BY <1>4, <1>5, ConvertConfigDecodes
<1> QED
  BY <1>2, <1>3, <1>4, <1>5, <1>6, TypedFailStep, TypedSendStep

(* Get, List and Delete keep TInv.                                         *)
LEMMA TypedAskStep ==
    ASSUME IInv, TInv, NEW c \in Callers, NEW op, NEW verb, NEW ks, Ask(c, op, verb, ks)
    PROVE  TInv'
<1>1. PICK h : h = held[c]
  OBVIOUS
<1>2. Typed(h) /\ held' = [held EXCEPT ![c] = h]
  BY <1>1 DEF Ask, IInv, TypeOK, TInv
<1>3. PICK k \in ks : Fails(c, op, k) \/ Sends(c, NoEntry, Query(verb, k))
  BY DEF Ask
<1>4. PICK req : req = Query(verb, k)
  OBVIOUS
<1>5. RequestDecodes(req) /\ Typed(NoEntry)
  BY <1>4 DEF RequestDecodes, Query, Typed
<1> QED
  BY <1>2, <1>3, <1>4, <1>5, TypedFailStep, TypedSendStep

-----------------------------------------------------------------------------
(* The steps of the server and of the network. *)

(* The write of a request that decodes decodes.                            *)
LEMMA AppliedWriteDecodes ==
    ASSUME NEW req, RequestOK(req), RequestDecodes(req), Applies(req)
    PROVE  GoodWrite
<1>1. PICK w : w = [key |-> req.key, obj |-> req.obj, by |-> "client"]
  OBVIOUS
<1>2. w \in Writes /\ log' = Append(log, w)
  BY <1>1 DEF Applies, Accepts, Write, Writes, RequestOK, Requests
<1> QED
  BY <1>1, <1>2 DEF GoodWrite, RequestDecodes

(* A step that leaves the results, and of each call the entry and request. *)
LEMMA TypedOutsideStep ==
    ASSUME IInv, TInv, GoodWrite, UNCHANGED <<held, result>>,
           \A c \in Callers : CallTyped(call'[c]),
           \A s \in Slots : late'[s] # NoRequest => RequestDecodes(late'[s])
    PROVE  TInv'
<1>1. ClientWritesDecode' /\ GrowsBy(Writes) /\ log \in Seq(Writes)
  BY GoodWritesDecode DEF TInv, IInv, TypeOK
<1>2. ASSUME NEW c \in Callers PROVE ResultOK(result[c])'
  <2>1. PICK r : r = result[c]
    OBVIOUS
  <2>2. ResultOK(r)'
    BY <1>1, <2>1, ResultsStayOK DEF TInv
  <2> QED
    BY <2>1, <2>2
<1> QED
  BY <1>1, <1>2 DEF TInv

(* Serving a request keeps TInv.                                           *)
LEMMA TypedServeStep ==
    ASSUME IInv, TInv, NEW c \in Callers, Serve(c)
    PROVE  TInv'
<1>1. call[c] # NoCall /\ UNCHANGED <<late, held, result>>
  BY DEF Serve, Sent, NoCall
<1>2. RequestOK(call[c].req) /\ RequestDecodes(call[c].req)
  BY <1>1 DEF IInv, TInv, CallOK, CallTyped
<1>3. GoodWrite
  <2>1. log' = log \/ Applies(call[c].req)
    BY DEF Serve
  <2> QED
    BY <1>2, <2>1, AppliedWriteDecodes DEF GoodWrite
<1>4. ASSUME NEW d \in Callers PROVE CallTyped(call'[d])
  <2>1. PICK reply : call' = [call EXCEPT ![c].reply = reply]
    BY DEF Serve, Answer
  <2>2. CallTyped(call[d]) /\ CallTyped(call[c])
    BY DEF TInv
  <2>3. CASE d # c
    BY <2>1, <2>2, <2>3 DEF IInv, TypeOK
  <2>4. CASE d = c
    <3>1. call'[c].entry = call[c].entry /\ call'[c].req = call[c].req
      BY <2>1 DEF IInv, TypeOK
    <3> QED
      BY <1>1, <2>2, <2>4, <3>1 DEF CallTyped
  <2> QED
    BY <2>3, <2>4
<1> QED
  BY <1>1, <1>3, <1>4, TypedLateStays, TypedOutsideStep

(* So does a late request.                                                 *)
LEMMA TypedServeLateStep ==
    ASSUME IInv, TInv, NEW s \in Slots, ServeLate(s)
    PROVE  TInv'
<1>1. RequestOK(late[s]) /\ RequestDecodes(late[s])
  BY DEF IInv, TInv, ServeLate
<1>2. GoodWrite
  BY <1>1, AppliedWriteDecodes DEF ServeLate, GoodWrite
<1>3. \A t \in Slots : late'[t] # NoRequest => RequestDecodes(late'[t])
  BY DEF ServeLate, IInv, TypeOK, TInv
<1>4. \A c \in Callers : CallTyped(call'[c])
  BY DEF ServeLate, TInv
<1> QED
  BY <1>2, <1>3, <1>4, TypedOutsideStep DEF ServeLate

(* So does a write of others, whatever they write.                         *)
LEMMA TypedOtherWriteStep ==
    ASSUME IInv, TInv, OtherWrite
    PROVE  TInv'
<1>1. GoodWrite
  <2>1. PICK w \in OtherWrites : Write(w.key, w.obj, "other")
    BY DEF OtherWrite
  <2>2. PICK x \in Writes : x = [key |-> w.key, obj |-> w.obj, by |-> "other"]
    BY CrdClientAssumption DEF Writes
  <2> QED
    BY <2>1, <2>2 DEF Write, GoodWrite
<1>2. UNCHANGED <<late, held, result>> /\ \A c \in Callers : CallTyped(call'[c])
  BY DEF OtherWrite, clientVars, TInv
<1> QED
  BY <1>1, <1>2, TypedLateStays, TypedOutsideStep

-----------------------------------------------------------------------------
(* The returns of a caller. *)

(* What every return has in common.                                        *)
LEMMA TypedReturnStep ==
    ASSUME IInv, TInv, NEW c \in Callers, UNCHANGED log,
           NEW op, NEW ok, NEW items, Returns(c, op, ok, items),
           \A e \in items : Matches(e) /\ Typed(e),
           NEW e, Typed(e), held' = [held EXCEPT ![c] = e],
           \A s \in Slots : late'[s] # NoRequest => RequestDecodes(late'[s])
    PROVE  TInv'
<1>1. PICK r : r = Result(op, call[c].req.key, ok, items)
  OBVIOUS
<1>2. ResultOK(r)' /\ result' = [result EXCEPT ![c] = r]
  BY <1>1 DEF ResultOK, Result, Returns, Matches
<1>3. PICK cl : cl = NoCall
  OBVIOUS
<1>4. CallTyped(cl) /\ call' = [call EXCEPT ![c] = cl] /\ GoodWrite
  BY <1>3 DEF CallTyped, Returns, GoodWrite
<1> QED
  BY <1>2, <1>4, TypedCallerStep

(* A return without entries.                                               *)
LEMMA TypedReturnNothingStep ==
    ASSUME IInv, TInv, NEW c \in Callers, UNCHANGED log,
           NEW op, NEW ok, Returns(c, op, ok, {}),
           \E e : Typed(e) /\ held' = [held EXCEPT ![c] = e],
           \A s \in Slots : late'[s] # NoRequest => RequestDecodes(late'[s])
    PROVE  TInv'
<1>1. PICK items : items = {}
  OBVIOUS
<1>2. Returns(c, op, ok, items) /\ \A e \in items : Matches(e) /\ Typed(e)
  BY <1>1
<1>3. PICK e : Typed(e) /\ held' = [held EXCEPT ![c] = e]
  OBVIOUS
<1> QED
  BY <1>2, <1>3, TypedReturnStep

(* Held entries stay typed.                                                *)
LEMMA TypedHeldStays ==
    ASSUME IInv, TInv, NEW c \in Callers, UNCHANGED held
    PROVE  \E e : Typed(e) /\ held' = [held EXCEPT ![c] = e]
BY DEF IInv, TypeOK, TInv

(* Returning from Create or Update keeps TInv.                             *)
LEMMA TypedReturnWriteStep ==
    ASSUME IInv, TInv, NEW c \in Callers, ReturnWrite(c)
    PROVE  TInv'
<1>1. PICK ok : ok = call[c].reply.ok
  OBVIOUS
<1>3. Returns(c, "Write", ok, {}) /\ UNCHANGED <<log, late>>
  BY <1>1 DEF ReturnWrite
<1>4. \E e : Typed(e) /\ held' = [held EXCEPT ![c] = e]
  <2>1. CASE UNCHANGED held
    BY <2>1, TypedHeldStays
  <2>2. CASE held' = [held EXCEPT ![c] = [call[c].entry EXCEPT !.rev = call[c].reply.rev]]
    <3>1. PICK old : old = call[c].entry
      OBVIOUS
    <3>2. old \in Entries
      BY <3>1, AnsweredCall DEF ReturnWrite
    <3>3. Typed(old)
      BY <3>1 DEF ReturnWrite, Answered, TInv, CallTyped, NoCall
    <3>4. PICK e : e = [old EXCEPT !.rev = call[c].reply.rev]
      OBVIOUS
    <3>5. e.spec = old.spec /\ e.typ = old.typ
      BY <3>2, <3>4 DEF Entries
    <3>6. Typed(e)
      BY <3>2, <3>3, <3>5, CrdClientAssumption DEF Typed
    <3> QED
      BY <2>2, <3>1, <3>4, <3>6
  <2> QED
    BY <2>1, <2>2 DEF ReturnWrite
<1> QED
  BY <1>3, <1>4, TypedLateStays, TypedReturnNothingStep

(* Returning from Delete keeps TInv.                                       *)
LEMMA TypedReturnDeleteStep ==
    ASSUME IInv, TInv, NEW c \in Callers, ReturnDelete(c)
    PROVE  TInv'
<1>1. PICK ok : ok = call[c].reply.ok
  OBVIOUS
<1>2. Returns(c, "Delete", ok, {}) /\ UNCHANGED <<log, late, held>>
  BY <1>1 DEF ReturnDelete
<1> QED
  BY <1>2, TypedHeldStays, TypedLateStays, TypedReturnNothingStep

(* What convertObject makes of an object has a message of its entry's      *)
(* type.                                                                   *)
LEMMA ConvertObjectTyped ==
    ASSUME NEW k, NEW obj, NEW r
    PROVE  Typed(convertObject(k, obj, r))
BY DEF Typed, convertObject, FromJSONMap

(* Returning from Get keeps TInv.                                          *)
LEMMA TypedReturnGetStep ==
    ASSUME IInv, TInv, NEW c \in Callers, ReturnGet(c)
    PROVE  TInv'
<1>1. PICK k : k = call[c].req.key
  OBVIOUS
<1>2. PICK r : r = call[c].reply.rev
  OBVIOUS
<1>3. UNCHANGED <<log, late>> /\ ReplyOK(call[c].req, call[c].reply) /\ call[c].req.verb = "GET"
  BY AnsweredCall DEF ReturnGet
<1>4. CASE held' = held /\ Returns(c, "Get", FALSE, {})
  <2>1. PICK ok : ok = FALSE
    OBVIOUS
  <2> QED
    BY <1>3, <1>4, <2>1, TypedHeldStays, TypedLateStays, TypedReturnNothingStep
<1>5. CASE /\ call[c].reply.ok
           /\ held' = [held EXCEPT ![c] = convertObject(k, log[r].obj, r)]
           /\ Returns(c, "Get", TRUE, {convertObject(k, log[r].obj, r)})
  <2>1. PICK e : e = convertObject(k, log[r].obj, r)
    OBVIOUS
  <2>2. r \in 1..Len(log) /\ log[r].key = k /\ log[r].obj # NoObject
    BY <1>1, <1>2, <1>3, <1>5 DEF ReplyOK
  <2>3. Matches(e) /\ Typed(e)
    BY <2>1, <2>2, ConvertObjectOK, ConvertObjectTyped
  <2>4. PICK items : items = {e}
    OBVIOUS
  <2> QED
    BY <1>3, <1>5, <2>1, <2>3, <2>4, TypedLateStays, TypedReturnStep
<1> QED
  BY <1>1, <1>2, <1>4, <1>5 DEF ReturnGet

(* Returning from List keeps TInv.                                         *)
LEMMA TypedReturnListStep ==
    ASSUME IInv, TInv, NEW c \in Callers, ReturnList(c)
    PROVE  TInv'
<1> DEFINE n    == call[c].reply.rev
           typ  == call[c].req.key[1]
           live == LiveAt(n, typ)
           good == {k \in live : Decodes(k[1], ObjectAt(n, k).json)}
           all  == {convertObject(k, ObjectAt(n, k), RevisionAt(n, k)) : k \in good}
<1>1. RequestOK(call[c].req) /\ ReplyOK(call[c].req, call[c].reply) /\ call[c].req.verb = "LIST"
  BY AnsweredCall DEF ReturnList
<1>2. n \in 0..Len(log) /\ typ \in Types
  BY <1>1 DEF ReplyOK, RequestOK, Requests
<1>3. ASSUME NEW k \in good
      PROVE  /\ Matches(convertObject(k, ObjectAt(n, k), RevisionAt(n, k)))
             /\ Typed(convertObject(k, ObjectAt(n, k), RevisionAt(n, k)))
  <2>1. PICK r : r = RevisionAt(n, k)
    OBVIOUS
  <2>2. r \in 1..Len(log) /\ log[r].key = k /\ log[r].obj # NoObject /\ ObjectAt(n, k) = log[r].obj
    BY <1>2, <2>1, ListedItemsOK
  <2> QED
    BY <2>1, <2>2, ConvertObjectOK, ConvertObjectTyped
<1>4. PICK items : items = all
  OBVIOUS
<1>5. PICK ok : ok = (good = live)
  OBVIOUS
<1>6. Returns(c, "List", ok, items) /\ UNCHANGED <<log, late, held>>
  BY <1>4, <1>5 DEF ReturnList
<1>7. \A e \in items : Matches(e) /\ Typed(e)
  BY <1>3, <1>4
<1> QED
  BY <1>6, <1>7, TypedHeldStays, TypedLateStays, TypedReturnStep

(* A transport error keeps TInv.                                           *)
LEMMA TypedLoseStep ==
    ASSUME IInv, TInv, NEW c \in Callers, Lose(c)
    PROVE  TInv'
<1>1. RequestDecodes(call[c].req)
  BY DEF Lose, Idle, TInv, CallTyped
<1>2. \A s \in Slots : late'[s] # NoRequest => RequestDecodes(late'[s])
  BY <1>1 DEF Lose, IInv, TypeOK, TInv
<1>3. PICK ok : ok = FALSE
  OBVIOUS
<1>4. Returns(c, "Lost", ok, {}) /\ UNCHANGED <<log, held>>
  BY <1>3 DEF Lose
<1> QED
  BY <1>2, <1>4, TypedHeldStays, TypedReturnNothingStep

-----------------------------------------------------------------------------
(* The invariant holds. *)

(* The initial state satisfies TInv.                                       *)
LEMMA TypedInitOK == Init => TInv
BY DEF Init, TInv, Typed, CallTyped, ResultOK, ClientWritesDecode

(* Every step keeps TInv.                                                  *)
LEMMA TypedNextOK == WellTyped => (IInv /\ TInv /\ [Next]_vars => TInv')
<1> SUFFICES ASSUME WellTyped, IInv, TInv, [Next]_vars PROVE TInv'
  OBVIOUS
<1>1. CASE UNCHANGED vars
  <2>1. GoodWrite /\ UNCHANGED <<call, held, result, late>>
    BY <1>1 DEF vars, GoodWrite
  <2>2. \A c \in Callers : CallTyped(call'[c])
    BY <2>1 DEF TInv
  <2> QED
    BY <2>1, <2>2, TypedLateStays, TypedOutsideStep
<1>2. ASSUME NEW c \in Callers, Call(c) PROVE TInv'
  BY <1>2, TypedCreateStep, TypedUpdateStep, TypedAskStep DEF Call, Delete, Get, List
<1>3. ASSUME NEW c \in Callers, Return(c) PROVE TInv'
  BY <1>3, TypedReturnWriteStep, TypedReturnDeleteStep, TypedReturnGetStep, TypedReturnListStep
     DEF Return
<1> QED
  BY <1>1, <1>2, <1>3, TypedServeStep, TypedLoseStep, TypedServeLateStep, TypedOtherWriteStep
     DEF Next

(* IInv and TInv are invariants together.                                  *)
LEMMA TypedInvariantOK == WellTyped => (Spec => [](IInv /\ TInv))
<1>1. CASE WellTyped
  BY <1>1, InitOK, NextOK, TypedInitOK, TypedNextOK, PTL DEF Spec
<1> QED
  BY <1>1

-----------------------------------------------------------------------------
(* What a caller holds agrees with what was stored. *)

MInv == \A c \in Callers : held[c] # NoEntry /\ held[c].rev # 0 => Matches(held[c])

(* A write that succeeds hands out the entry as it was stored.             *)
LEMMA WrittenEntryMatches ==
    ASSUME IInv, NEW c \in Callers, ReturnWrite(c), held' # held
    PROVE  \E e : Matches(e) /\ held' = [held EXCEPT ![c] = e]
<1>1. PICK verb \in {"POST", "PUT"} : Answered(c, verb)
  BY DEF ReturnWrite
<1>2. PICK cl : cl = call[c]
  OBVIOUS
<1>3. /\ cl.req.verb = verb /\ ReplyOK(cl.req, cl.reply)
      /\ cl.entry \in Entries /\ cl.req = convertConfig(verb, cl.entry)
  BY <1>1, <1>2, AnsweredCall
<1>4. PICK e : e = [cl.entry EXCEPT !.rev = cl.reply.rev]
  OBVIOUS
<1>5. cl.reply.ok /\ held' = [held EXCEPT ![c] = e]
  BY <1>2, <1>4 DEF ReturnWrite
<1>6. /\ e.rev = cl.reply.rev /\ e.typ = cl.entry.typ /\ e.name = cl.entry.name
      /\ e.ann = cl.entry.ann /\ e.spec = cl.entry.spec
  BY <1>3, <1>4 DEF Entries
<1>7. /\ cl.req.key = <<e.typ, e.name>> /\ cl.req.obj \in Objects
      /\ cl.req.obj.ann = e.ann /\ cl.req.obj.json.body = e.spec.body
  BY <1>3, <1>6, ConvertConfigOK
<1>8. /\ cl.reply.rev \in 1..Len(log) /\ log[cl.reply.rev].key = cl.req.key
      /\ log[cl.reply.rev].obj = cl.req.obj
  BY <1>3, <1>5 DEF ReplyOK
<1>9. Matches(e)
  BY <1>6, <1>7, <1>8, CrdClientAssumption DEF Matches
<1> QED
  BY <1>5, <1>9

(* A Get that finds an entry hands it out as it was stored.                *)
LEMMA ReadEntryMatches ==
    ASSUME IInv, NEW c \in Callers, ReturnGet(c), held' # held
    PROVE  \E e : Matches(e) /\ held' = [held EXCEPT ![c] = e]
<1>1. PICK cl : cl = call[c]
  OBVIOUS
<1>2. cl.req.verb = "GET" /\ ReplyOK(cl.req, cl.reply)
  BY <1>1, AnsweredCall DEF ReturnGet
<1>3. PICK r : r = cl.reply.rev
  OBVIOUS
<1>4. cl.reply.ok /\ held' = [held EXCEPT ![c] = convertObject(cl.req.key, log[r].obj, r)]
  BY <1>1, <1>3 DEF ReturnGet
<1>5. r \in 1..Len(log) /\ log[r].key = cl.req.key /\ log[r].obj # NoObject
  BY <1>2, <1>3, <1>4 DEF ReplyOK
<1>6. PICK e : e = convertObject(cl.req.key, log[r].obj, r)
  OBVIOUS
<1>7. Matches(e)
  BY <1>5, <1>6, ConvertObjectOK
<1> QED
  BY <1>4, <1>6, <1>7

(* Every other step leaves the entries, or lets a caller make one up.      *)
LEMMA HeldEntriesChange ==
    ASSUME IInv, [Next]_vars, held' # held
    PROVE  \E c \in Callers : \E e : /\ e.rev = 0 \/ Matches(e)
                                     /\ held' = [held EXCEPT ![c] = e]
<1>1. ASSUME NEW c \in Callers, Create(c)
      PROVE  \E e : e.rev = 0 /\ held' = [held EXCEPT ![c] = e]
  BY <1>1, CrdClientAssumption DEF Create
<1>2. ASSUME NEW c \in Callers PROVE ~Update(c) /\ ~Delete(c) /\ ~Get(c) /\ ~List(c)
  BY DEF Update, Delete, Get, List, Ask
<1>3. ASSUME NEW c \in Callers
      PROVE  ~Serve(c) /\ ~ReturnDelete(c) /\ ~ReturnList(c) /\ ~Lose(c)
  BY DEF Serve, ReturnDelete, ReturnList, Lose
<1>4. ~OtherWrite /\ ~UNCHANGED vars /\ \A s \in Slots : ~ServeLate(s)
  BY DEF OtherWrite, clientVars, vars, ServeLate
<1> QED
  BY <1>1, <1>2, <1>3, <1>4, WrittenEntryMatches, ReadEntryMatches DEF Next, Call, Return

(* Every step keeps MInv.                                                  *)
LEMMA MatchesNextOK == IInv /\ MInv /\ [Next]_vars => MInv'
<1> SUFFICES ASSUME IInv, MInv, [Next]_vars, NEW c \in Callers,
                    held'[c] # NoEntry, held'[c].rev # 0
             PROVE  Matches(held[c])'
  BY DEF MInv
<1>1. log \in Seq(Writes) /\ held \in [Callers -> Entries \cup {NoEntry}]
  BY DEF IInv, TypeOK
<1>2. \A e : Matches(e) => Matches(e)'
  BY <1>1, NextGrows, FactsAreStable
<1>3. PICK h : h = held'[c]
  OBVIOUS
<1>4. h = held[c] => Matches(h)
  BY <1>3 DEF MInv
<1>5. h # held[c] => Matches(h)
  <2> SUFFICES ASSUME h # held[c] PROVE Matches(h)
    OBVIOUS
  <2>0. PICK d \in Callers :
          \E e : (e.rev = 0 \/ Matches(e)) /\ held' = [held EXCEPT ![d] = e]
    BY <1>3, HeldEntriesChange
  <2>1. PICK e : (e.rev = 0 \/ Matches(e)) /\ held' = [held EXCEPT ![d] = e]
    BY <2>0
  <2>2. h = e
    BY <1>1, <1>3, <2>1
  <2> QED
    BY <1>3, <2>1, <2>2
<1>6. Matches(h)'
  BY <1>2, <1>4, <1>5
<1> QED
  BY <1>3, <1>6

(* A held entry is exactly what is stored at its revision.                 *)
LEMMA HeldEntriesMatch == Spec => []MInv
<1>1. Init => MInv
  BY DEF Init, MInv
<1> QED
  BY <1>1, InvariantOK, MatchesNextOK, PTL DEF Spec

(***************************************************************************)
(* Whatever a caller is handed with a revision is what is stored there:    *)
(* convertObject undoes convertConfig, and no answer reaches a wrong call. *)
(***************************************************************************)
THEOREM ReturnedEntriesAreStored == WellTyped => (Spec => []ReturnedIsStored)
<1>1. ASSUME NEW e \in Entries, IInv, Matches(e), Typed(e) PROVE Stored(e)
  <2>1. PICK w \in Writes : w = log[e.rev]
    BY <1>1 DEF Matches, IInv, TypeOK
  <2>2. /\ w.key = <<e.typ, e.name>> /\ w.obj \in Objects /\ w.obj.ann = e.ann
        /\ w.obj.json.body = e.spec.body
    BY <1>1, <2>1 DEF Matches, Writes
  <2>3. e.spec = [msg |-> e.typ, body |-> w.obj.json.body]
    BY <1>1, <2>2, CrdClientAssumption DEF Typed, Entries, Messages
  <2>4. convertObject(w.key, w.obj, e.rev) = [e EXCEPT !.home = NoHome]
    <3>1. PICK x : x = [e EXCEPT !.home = NoHome]
      OBVIOUS
    <3>2. x = [typ |-> e.typ, name |-> e.name, home |-> NoHome, ann |-> e.ann,
               rev |-> e.rev, spec |-> e.spec]
      BY <3>1 DEF Entries
    <3>3. w.key[1] = e.typ /\ w.key[2] = e.name
      BY <2>2
    <3> QED
      BY <2>2, <2>3, <3>1, <3>2, <3>3 DEF convertObject, FromJSONMap
  <2> QED
    BY <1>1, <2>1, <2>4 DEF Stored, Matches
<1>2. IInv /\ TInv /\ MInv => ReturnedIsStored
  <2> SUFFICES ASSUME IInv, TInv, MInv, NEW c \in Callers
               PROVE  /\ held[c] # NoEntry => (held[c].rev # 0 => Stored(held[c]))
                      /\ result[c] # NoResult => \A e \in result[c].items : Stored(e)
    BY DEF ReturnedIsStored
  <2>1. held[c] # NoEntry => (held[c].rev # 0 => Stored(held[c]))
    BY <1>1 DEF IInv, TypeOK, MInv, TInv
  <2>2. result[c] # NoResult => \A e \in result[c].items : Stored(e)
    BY <1>1 DEF IInv, TypeOK, Results, TInv, ResultOK
  <2> QED
    BY <2>1, <2>2
<1>3. CASE WellTyped
  BY <1>2, <1>3, TypedInvariantOK, HeldEntriesMatch, PTL
<1> QED
  BY <1>3

(***************************************************************************)
(* What the client writes it can read back, under the type it was written  *)
(* under (resource.go:25).                                                 *)
(***************************************************************************)
THEOREM WritesCanBeReadBack == WellTyped => (Spec => []ClientWritesDecode)
<1>1. TInv => ClientWritesDecode
  BY DEF TInv
<1>2. CASE WellTyped
  BY <1>1, <1>2, TypedInvariantOK, PTL
<1> QED
  BY <1>2
=============================================================================
