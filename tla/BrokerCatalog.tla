---------------------------- MODULE BrokerCatalog ----------------------------
(***************************************************************************)
(* GET /v2/catalog: Controller.Catalog (pkg/controller/controller.go) over *)
(* the typed adapter brokerConfigStore (pkg/model/config/store.go:134-188) *)
(* and the OSB objects of pkg/model/osb.  Each request runs in a goroutine *)
(* of its own.  It lists the service classes once and then, for every      *)
(* class in the order Go ranges over a map, lists all plans again; others  *)
(* write to the store between any two of these lists.                      *)
(***************************************************************************)
EXTENDS ApiServer, FiniteSets

CONSTANTS
    Handlers,       \* goroutines that serve catalog requests
    ServiceClass, ServicePlan,
    Texts,          \* names, ids and descriptions of an entry, as one value
    PercentTexts,   \* those with a percent sign in them
    Malformed,      \* an object whose spec does not decode
    StoreWrites,    \* [key, obj] records that may be written
    Garbled,        \* a body Fprintf has mangled
    NoResponse,
    Lost,           \* what a client gets when its connection breaks
    MaxRev,         \* bound on the number of writes
    MaxStale        \* how many writes a read may miss

VARIABLES
    pc,        \* where each handler is
    since,     \* length of the log when its request arrived
    todo,      \* classes of sc that the loop in catalog() has not reached
    services,  \* jc.Services
    failed,    \* whether a List of this request has returned an error
    response   \* what the client of the last request received

vars == <<log, pc, since, todo, services, failed, response>>
handlerVars == <<pc, since, todo, services, failed, response>>

ClassKeys == {ServiceClass} \X Names
PlanKeys  == {ServicePlan} \X Names

(* The content of a service class refers to no services.                   *)
Contents == [text : Texts, services : SUBSET ClassKeys]

ASSUME BrokerCatalogAssumption ==
    /\ Types = {ServiceClass, ServicePlan} /\ ServiceClass # ServicePlan
    /\ PercentTexts \subseteq Texts
    /\ StoreWrites \subseteq [key : Keys, obj : Contents \cup {Malformed, NoObject}]
    /\ Malformed \notin Contents /\ NoObject \notin Contents /\ Malformed # NoObject
    /\ MaxRev \in Nat /\ MaxStale \in Nat

-----------------------------------------------------------------------------
(* Reading the store *)

LiveAt(n, keys) == {k \in keys : ObjectAt(n, k) # NoObject}

Readable(n, keys) == \A k \in LiveAt(n, keys) : ObjectAt(n, k) # Malformed

\* Mistake: what decodes is kept although the List has returned an error.
ListedPartly(n, err, keys) ==
    IF err THEN {} ELSE {k \in LiveAt(n, keys) : ObjectAt(n, k) # Malformed}

(***************************************************************************)
(* ServiceClasses and ServicePlans: one List across all namespaces; any    *)
(* error, that of a single malformed item included, leaves an empty map.   *)
(***************************************************************************)
Listed(n, err, keys) == IF err \/ ~Readable(n, keys) THEN {} ELSE LiveAt(n, keys)

Plan(n, k) == [key |-> k, text |-> ObjectAt(n, k).text]

\* Mistake: the break leaves the outer loop.
ServicePlansByServiceFirst(n, err, c) ==
    LET ps == {k \in Listed(n, err, PlanKeys) : c \in ObjectAt(n, k).services}
    IN  IF ps = {} THEN {} ELSE {Plan(n, CHOOSE k \in ps : TRUE)}

ServicePlansByService(n, err, c) ==
    {Plan(n, k) : k \in {p \in Listed(n, err, PlanKeys) : c \in ObjectAt(n, p).services}}

Recent == {n \in 0..Len(log) : n + MaxStale >= Len(log)}

-----------------------------------------------------------------------------
(* Handlers *)

Catalog(h) ==
    /\ pc[h] = "idle"
    /\ pc' = [pc EXCEPT ![h] = "classes"]
    /\ since' = [since EXCEPT ![h] = Len(log)]
    /\ services' = [services EXCEPT ![h] = << >>]
    /\ failed' = [failed EXCEPT ![h] = FALSE]
    /\ response' = [response EXCEPT ![h] = NoResponse]
    /\ UNCHANGED <<log, todo>>

\* Mistake: a failed list leaves the handler without writing a response.
ListClassesSilently(h) ==
    /\ pc[h] = "classes"
    /\ \E n \in Recent, err \in BOOLEAN :
        /\ todo' = [todo EXCEPT ![h] =
                     {[key |-> k, text |-> ObjectAt(n, k).text] : k \in Listed(n, err, ClassKeys)}]
        /\ failed' = [failed EXCEPT ![h] = err]
        /\ pc' = [pc EXCEPT ![h] = IF err THEN "gone" ELSE "plans"]
    /\ UNCHANGED <<log, since, services, response>>

ListClasses(h) ==
    /\ pc[h] = "classes"
    /\ pc' = [pc EXCEPT ![h] = "plans"]
    /\ \E n \in Recent, err \in BOOLEAN :
        /\ todo' = [todo EXCEPT ![h] =
                     {[key |-> k, text |-> ObjectAt(n, k).text] : k \in Listed(n, err, ClassKeys)}]
        /\ failed' = [failed EXCEPT ![h] = err]
    /\ UNCHANGED <<log, since, services, response>>

(* One turn of the loop over the classes: NewService, the plans, AddService. *)
ListPlans(h) ==
    /\ pc[h] = "plans"
    /\ \E s \in todo[h], n \in Recent, err \in BOOLEAN :
        /\ todo' = [todo EXCEPT ![h] = @ \ {s}]
        /\ services' = [services EXCEPT ![h] = Append(@,
             [key |-> s.key, text |-> s.text, plans |-> ServicePlansByService(n, err, s.key)])]
        /\ failed' = [failed EXCEPT ![h] = @ \/ err]
    /\ UNCHANGED <<log, pc, since, response>>

(***************************************************************************)
(* writeResponse passes the JSON to Fprintf as the format: every percent   *)
(* sign in it starts a verb without an operand.                            *)
(***************************************************************************)
TextsOf(ss) ==
    UNION {{ss[i].text} \cup {p.text : p \in ss[i].plans} : i \in 1..Len(ss)}

Body(ss) == IF TextsOf(ss) \cap PercentTexts = {} THEN ss ELSE Garbled

Respond(h) ==
    /\ pc[h] = "plans" /\ todo[h] = {}
    /\ pc' = [pc EXCEPT ![h] = "idle"]
    /\ response' = [response EXCEPT ![h] =
                     [served |-> services[h], body |-> Body(services[h]), until |-> Len(log)]]
    /\ services' = [services EXCEPT ![h] = << >>]
    /\ UNCHANGED <<log, since, todo, failed>>

(* Fprintf fails on a broken connection; the error is only logged.         *)
WriteFails(h) ==
    /\ pc[h] = "plans" /\ todo[h] = {}
    /\ pc' = [pc EXCEPT ![h] = "idle"]
    /\ response' = [response EXCEPT ![h] = Lost]
    /\ services' = [services EXCEPT ![h] = << >>]
    /\ UNCHANGED <<log, since, todo, failed>>

(* Clients of the store, kubectl and operators write classes and plans.    *)
StoreWrite ==
    /\ Len(log) < MaxRev
    /\ \E w \in StoreWrites : /\ Live(w.key) \/ w.obj # NoObject
                              /\ Write(w.key, w.obj, "other")
    /\ UNCHANGED handlerVars

-----------------------------------------------------------------------------
Init ==
    /\ log = << >>
    /\ pc = [h \in Handlers |-> "idle"]
    /\ since = [h \in Handlers |-> 0]
    /\ todo = [h \in Handlers |-> {}]
    /\ services = [h \in Handlers |-> << >>]
    /\ failed = [h \in Handlers |-> FALSE]
    /\ response = [h \in Handlers |-> NoResponse]

Handle(h) == ListClasses(h) \/ ListPlans(h) \/ Respond(h) \/ WriteFails(h)

Next == (\E h \in Handlers : Catalog(h) \/ Handle(h)) \/ StoreWrite

(* A goroutine that can take a step does: net/http runs every handler to   *)
(* its end, and a List of the store returns an answer or an error.         *)
Fairness == \A h \in Handlers : WF_vars(Handle(h))

Spec == Init /\ [][Next]_vars /\ Fairness

-----------------------------------------------------------------------------
(* Properties *)

ServedPlans == [key : PlanKeys, text : Texts]
Services == [key : ClassKeys, text : Texts, plans : SUBSET ServedPlans]

\* Every variable holds a value of its type.
TypeOK ==
    /\ log \in Seq([key : Keys, obj : Contents \cup {Malformed, NoObject}, by : {"other"}])
    /\ pc \in [Handlers -> {"idle", "classes", "plans"}]
    /\ since \in [Handlers -> Nat]
    /\ todo \in [Handlers -> SUBSET [key : ClassKeys, text : Texts]]
    /\ services \in [Handlers -> Seq(Services)]
    /\ failed \in [Handlers -> BOOLEAN]
    /\ response \in [Handlers ->
            [served : Seq(Services), body : Seq(Services) \cup {Garbled}, until : Nat]
                \cup {NoResponse, Lost}]

Answered(h) == response[h] \notin {NoResponse, Lost}

Served(h) == {response[h].served[i] : i \in 1..Len(response[h].served)}

(* The states of the store that reads of the answered request may have seen. *)
Window(h) == {n \in 0..response[h].until : n + MaxStale >= since[h]}

Classes(n) == {[key |-> k, text |-> ObjectAt(n, k).text] : k \in LiveAt(n, ClassKeys)}

PlansOf(n, c) ==
    {Plan(n, k) : k \in {p \in LiveAt(n, PlanKeys) : c \in ObjectAt(n, p).services}}

(***************************************************************************)
(* However the lists of a request interleave with writes, the classes it   *)
(* serves are those of one state of the store, and the plans of each       *)
(* service are those of one state, each state seen during the request.  A  *)
(* list that failed, or has an item that does not decode, contributes      *)
(* nothing rather than a part (controller.go:47-61, store.go:141-188).     *)
(***************************************************************************)
EachListIsOneState ==
    \A h \in Handlers : Answered(h) =>
        LET served == {[key |-> s.key, text |-> s.text] : s \in Served(h)} IN
        /\ served = {} \/ \E n \in Window(h) : Readable(n, ClassKeys) /\ served = Classes(n)
        /\ \A s \in Served(h) :
              s.plans = {} \/ \E n \in Window(h) :
                                  Readable(n, PlanKeys) /\ s.plans = PlansOf(n, s.key)

Unchanged(h, k) ==
    \A m, n \in Window(h) : RevisionAt(m, k) = RevisionAt(n, k)

Undisturbed(h) ==
    ~failed[h] /\ \A n \in Window(h) : Readable(n, Keys)

(***************************************************************************)
(* A class that is there and unchanged while the request runs is served,   *)
(* exactly once, with every plan for it that is there and unchanged,       *)
(* whatever happens to all other objects meanwhile, as long as no list     *)
(* fails and nothing malformed is stored.                                  *)
(***************************************************************************)
WhatStaysIsServed ==
    \A h \in Handlers : Answered(h) /\ Undisturbed(h) =>
        \A c \in LiveAt(response[h].until, ClassKeys) : Unchanged(h, c) =>
            \E i \in 1..Len(response[h].served) :
                /\ response[h].served[i].key = c
                /\ \A j \in 1..Len(response[h].served) :
                      response[h].served[j].key = c => j = i
                /\ \A p \in LiveAt(response[h].until, PlanKeys) :
                      Unchanged(h, p) /\ c \in ObjectAt(response[h].until, p).services =>
                          Plan(response[h].until, p) \in response[h].served[i].plans

(***************************************************************************)
(* Every catalog request is answered, unless its connection breaks,        *)
(* whatever the store does: the loop of catalog() runs over the classes of *)
(* one list and never grows (controller.go:46-61).                         *)
(***************************************************************************)
RequestsAreAnswered ==
    \A h \in Handlers : pc[h] = "classes" ~> response[h] # NoResponse

(***************************************************************************)
(* The body of the response is the catalog (controller.go:39: "Catalog     *)
(* serves catalog request and generate response").                         *)
(***************************************************************************)
BodyIsCatalog ==
    \A h \in Handlers : Answered(h) => response[h].body = response[h].served
=============================================================================
