----------------------------- MODULE StoreTests -----------------------------
(***************************************************************************)
(* The conformance tests of the store, CheckMapInvariant and               *)
(* CheckBrokerConfigTypes (pkg/testing/mock/config.go:78-279), which       *)
(* client_test.go runs in parallel against one cluster, each in a          *)
(* namespace of its own.  A test waits for every answer before its next    *)
(* call, reads are not stale and nothing fails, so that a call of a Client *)
(* method is one step; the steps of different tests interleave.            *)
(***************************************************************************)
EXTENDS Conversion

CONSTANTS
    MapTests,      \* runs of CheckMapInvariant; each is its own namespace
    TypeTests,     \* runs of CheckBrokerConfigTypes, likewise
    N,             \* number of elements a map test creates
    FakeConfig, ServiceClass, ServicePlan, \* the types of the descriptor
    MissingType,   \* the type "missing"
    invalid, missing, example,             \* names of entries
    NoNamespace,   \* the empty namespace, in which nothing is stored
    Label, Old, New                        \* labels and pairs of elements

VARIABLES
    pc,      \* the loop or statement each test is in
    todo,    \* elements that the loop has not reached
    next,    \* the statement among those that must be refused
    revs,    \* revisions a map test has read, 0 when it has none
    errors   \* tests that have called t.Errorf

vars == <<log, pc, todo, next, revs, errors>>

Tests    == MapTests \cup TypeTests
Elements == 0..(N - 1)

ASSUME StoreTestsAssumption ==
    /\ N \in Nat \ {0}
    /\ MapTests \cap TypeTests = {} /\ NoNamespace \notin Tests
    /\ Descriptor = {FakeConfig, ServiceClass, ServicePlan} /\ Strict = {FakeConfig}
    /\ ServiceClass # ServicePlan
    /\ Descriptor \subseteq Types /\ MissingType \in Types \ Descriptor
    /\ {Old, New} \subseteq Pairs /\ Label \in Annotations /\ NoObject \notin Objects
    /\ Names = (Tests \cup {NoNamespace}) \X (Elements \cup {invalid, missing, example})

-----------------------------------------------------------------------------
(* The methods of Client, called by themselves. *)

Known(typ) == typ \in Descriptor

(* Get and List                                                            *)
Stored(k) == convertObject(k, ObjectOf(k), RevisionOf(k))

Found(k) == Known(k[1]) /\ Live(k) /\ Decodes(k[1], ObjectOf(k).json)

Listed(typ, ns) == {k \in {typ} \X Names : k[2][1] = ns /\ Found(k)}

(* Whether Create, Update or Delete of an entry succeeds; the last one     *)
(* looks at its key only.                                                  *)
Succeeds(verb, e) ==
    /\ Known(e.typ)
    /\ verb # "DELETE" => Validate(e.typ, e.spec)
    /\ verb = "PUT" => e.rev # 0
    /\ Accepts(verb, convertConfig(verb, e).key, convertConfig(verb, e).rev)

\* Mistake: a call that fails writes nevertheless, as a create that falls
\* back to an update would.
MutatesAnyway(verb, e) ==
    LET req == convertConfig(verb, e) IN
    \/ /\ Known(e.typ)
       /\ Write(req.key, IF verb = "DELETE" THEN NoObject ELSE req.obj, "client")
    \/ ~Known(e.typ) /\ UNCHANGED log

Mutates(verb, e) ==
    LET req == convertConfig(verb, e) IN
    \/ /\ Succeeds(verb, e)
       /\ Write(req.key, IF verb = "DELETE" THEN NoObject ELSE req.obj, "client")
    \/ ~Succeeds(verb, e) /\ UNCHANGED log

-----------------------------------------------------------------------------
(* Statements of a test *)

Expect(t, ok) == errors' = IF ok THEN errors ELSE errors \cup {t}

Entry(typ, ns, name, rev, body) ==
    [typ |-> typ, name |-> <<ns, name>>, home |-> NoHome, ann |-> Label, rev |-> rev,
     spec |-> [msg |-> typ, body |-> body]]

Make(t, i) == Entry(FakeConfig, t, i, 0, {Old})

Updated(t, i) == Entry(FakeConfig, t, i, revs[t][i], {New})

Compare(a, b) == [a EXCEPT !.rev = 0] = [b EXCEPT !.rev = 0]

(* One turn of a loop over all elements, which goes on to the next loop.   *)
Turn(t, loop, i, after) ==
    /\ pc[t] = loop /\ i \in todo[t]
    /\ todo' = [todo EXCEPT ![t] = IF @ = {i} THEN Elements ELSE @ \ {i}]
    /\ pc' = [pc EXCEPT ![t] = IF todo[t] = {i} THEN after ELSE @]
    /\ UNCHANGED next

Then(t, at, after) ==
    /\ pc[t] = at
    /\ pc' = [pc EXCEPT ![t] = after]
    /\ UNCHANGED <<todo, next>>

PostAll(t) ==
    /\ \E i \in Elements :
        /\ Turn(t, "post", i, "read")
        /\ Expect(t, Succeeds("POST", Make(t, i)))
        /\ Mutates("POST", Make(t, i))
    /\ UNCHANGED revs

ReadAll(t, loop, after, wanted) ==
    /\ \E i \in Elements :
        LET k  == <<FakeConfig, <<t, i>>>>
            ok == Found(k) /\ Compare(wanted[i], Stored(k))
        IN  /\ Turn(t, loop, i, after)
            /\ Expect(t, ok)
            /\ revs' = IF loop = "read" /\ ok THEN [revs EXCEPT ![t][i] = RevisionOf(k)] ELSE revs
    /\ UNCHANGED log

ReadCreated(t) == ReadAll(t, "read", "refuse", [i \in Elements |-> Make(t, i)])
ReadUpdated(t) == ReadAll(t, "reread", "delete", [i \in Elements |-> Updated(t, i)])

(***************************************************************************)
(* What the store must refuse: creating twice, an entry that is invalid,   *)
(* updating one that is invalid, missing, without a revision or with a bad *)
(* one, and deleting an entry of a missing type or of a missing name.      *)
(***************************************************************************)
BadRevision == Len(log) + 1

Refused(t) ==
    LET bad     == Entry(FakeConfig, NoNamespace, invalid, revs[t][0], {})
        absent  == Entry(FakeConfig, NoNamespace, missing, revs[t][0], {Old})
        noType  == Entry(MissingType, NoNamespace, missing, 0, {})
        element == Make(t, 0)
    IN  << <<"POST", element>>, <<"POST", bad>>, <<"PUT", bad>>, <<"PUT", absent>>,
           <<"PUT", element>>, <<"PUT", [element EXCEPT !.rev = BadRevision]>>,
           <<"DELETE", noType>>, <<"DELETE", absent>> >>

Refuse(t) ==
    /\ pc[t] = "refuse"
    /\ LET call == Refused(t)[next[t]]
           last == next[t] = Len(Refused(t))
       IN  /\ Expect(t, ~Succeeds(call[1], call[2]))
           /\ Mutates(call[1], call[2])
           /\ next' = [next EXCEPT ![t] = IF last THEN @ ELSE @ + 1]
           /\ pc' = [pc EXCEPT ![t] = IF last THEN "list" ELSE @]
    /\ UNCHANGED <<todo, revs>>

(* The list, and the reads of what is missing, which the code has between  *)
(* the refused updates and deletes: nobody writes what they read.          *)
ListAll(t) ==
    /\ Then(t, "list", "update")
    /\ Expect(t, /\ Listed(MissingType, t) = {}
                 /\ ~Found(<<FakeConfig, <<NoNamespace, missing>>>>)
                 /\ ~Found(<<MissingType, <<NoNamespace, missing>>>>)
                 /\ Listed(FakeConfig, t) = {FakeConfig} \X ({t} \X Elements))
    /\ UNCHANGED <<log, revs>>

UpdateAll(t) ==
    /\ LET i == CHOOSE i \in todo[t] : \A j \in todo[t] : i <= j IN
        /\ Turn(t, "update", i, "reread")
        /\ Expect(t, Succeeds("PUT", Updated(t, i)))
        /\ Mutates("PUT", Updated(t, i))
    /\ UNCHANGED revs

DeleteAll(t) ==
    /\ \E i \in Elements :
        /\ Turn(t, "delete", i, "relist")
        /\ Expect(t, Succeeds("DELETE", Make(t, i)))
        /\ Mutates("DELETE", Make(t, i))
    /\ UNCHANGED revs

ListNothing(t) ==
    /\ Then(t, "relist", "done")
    /\ Expect(t, Listed(FakeConfig, t) = {})
    /\ UNCHANGED <<log, revs>>

(* CheckBrokerConfigTypes creates a class and a plan and reads each back.  *)
CreateType(t, typ, at, after) ==
    /\ Then(t, at, after)
    /\ Expect(t, Succeeds("POST", Entry(typ, t, example, 0, {Old})))
    /\ Mutates("POST", Entry(typ, t, example, 0, {Old}))
    /\ UNCHANGED revs

ReadType(t, typ, at, after) ==
    /\ Then(t, at, after)
    /\ LET k == <<typ, <<t, example>>>> IN
        Expect(t, Found(k) /\ Stored(k).spec = Entry(typ, t, example, 0, {Old}).spec)
    /\ UNCHANGED <<log, revs>>

-----------------------------------------------------------------------------
Init ==
    /\ log = << >>
    /\ pc = [t \in Tests |-> IF t \in MapTests THEN "post" ELSE "class"]
    /\ todo = [t \in Tests |-> Elements]
    /\ next = [t \in Tests |-> 1]
    /\ revs = [t \in Tests |-> [i \in Elements |-> 0]]
    /\ errors = {}

CheckMapInvariant(t) ==
    \/ PostAll(t) \/ ReadCreated(t) \/ Refuse(t) \/ ListAll(t)
    \/ UpdateAll(t) \/ ReadUpdated(t) \/ DeleteAll(t) \/ ListNothing(t)

CheckBrokerConfigTypes(t) ==
    \/ CreateType(t, ServiceClass, "class", "readclass")
    \/ ReadType(t, ServiceClass, "readclass", "plan")
    \/ CreateType(t, ServicePlan, "plan", "readplan")
    \/ ReadType(t, ServicePlan, "readplan", "done")

Next == \/ \E t \in MapTests : CheckMapInvariant(t)
        \/ \E t \in TypeTests : CheckBrokerConfigTypes(t)

Spec == Init /\ [][Next]_vars

-----------------------------------------------------------------------------
(* Properties *)

(***************************************************************************)
(* The client and its store, as modelled, pass the tests of the            *)
(* repository, whatever other tests run in other namespaces meanwhile and  *)
(* in whatever order Go ranges over the elements.                          *)
(***************************************************************************)
TestsPass == errors = {}

(***************************************************************************)
(* Refused calls have no effect (store.go:65-75) and tests do not          *)
(* disturb each other: what a test has read in its namespace is still      *)
(* current until it updates it itself, and when a map test is done nothing *)
(* of it is left, no matter which tests go on.                             *)
(***************************************************************************)
TestsAreIsolated ==
    \A t \in MapTests :
        /\ pc[t] \in {"refuse", "list"} =>
              \A i \in Elements : revs[t][i] = RevisionOf(<<FakeConfig, <<t, i>>>>)
        /\ pc[t] = "done" => \A k \in Keys : k[2][1] = t => ~Live(k)
=============================================================================
