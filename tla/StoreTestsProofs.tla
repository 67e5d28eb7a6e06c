-------------------------- MODULE StoreTestsProofs --------------------------
(***************************************************************************)
(* Proofs about StoreTests: the store passes its conformance tests however *)
(* many of them run at once, with however many elements each.              *)
(***************************************************************************)
EXTENDS StoreTests, ApiServerProofs

-----------------------------------------------------------------------------
(* The inductive invariant: at every statement of a test, what its         *)
(* namespace holds. *)

StoreWrites == [key : Keys, obj : Objects \cup {NoObject}, by : {"client"}]

ObjectWith(typ, body) == [ann |-> Label, json |-> ToJSONMap([msg |-> typ, body |-> body])]

Bodies == {{Old}, {New}}

ElementKey(t, i) == <<FakeConfig, <<t, i>>>>

MapStatements == {"post", "read", "refuse", "list", "update", "reread", "delete", "relist", "done"}

TypeStatements == {"class", "readclass", "plan", "readplan", "done"}

(* What a map test at statement p, with the elements d still to be visited *)
(* by its loop, has made of element i.                                     *)
Element(i, p, d) ==
    IF \/ p \in {"relist", "done"}
       \/ p = "post" /\ i \in d
       \/ p = "delete" /\ i \notin d
    THEN NoObject
    ELSE IF \/ p \in {"reread", "delete"}
            \/ p = "update" /\ i \notin d
         THEN ObjectWith(FakeConfig, {New})
         ELSE ObjectWith(FakeConfig, {Old})

(* The statements at which a map test knows the revision of element i.     *)
Current(i, p, d) ==
    \/ p = "read" /\ i \notin d
    \/ p \in {"refuse", "list"}
    \/ p = "update" /\ i \in d

(* Statements that find all elements still to be visited.                  *)
AtStart(p, d) == p \in {"refuse", "list", "relist", "done"} => d = Elements

(* The namespace of a map test holds its elements and nothing else, and    *)
(* the revisions it has read are those of the elements.                    *)
MapIs(t, p, d, r) ==
    /\ p \in MapStatements /\ d \in SUBSET Elements /\ d # {} /\ r \in [Elements -> Nat]
    /\ AtStart(p, d)
    /\ \A i \in Elements : ObjectOf(ElementKey(t, i)) = Element(i, p, d)
    /\ \A k \in Keys : k[2][1] = t /\ k \notin {ElementKey(t, i) : i \in Elements} =>
                            ObjectOf(k) = NoObject
    /\ \A i \in Elements : Current(i, p, d) => r[i] = RevisionOf(ElementKey(t, i))

(* The namespace of a type test holds what it has created.                 *)
TypesAre(t, p) ==
    /\ p \in TypeStatements
    /\ ObjectOf(<<ServiceClass, <<t, example>>>>) =
          IF p = "class" THEN NoObject ELSE ObjectWith(ServiceClass, {Old})
    /\ ObjectOf(<<ServicePlan, <<t, example>>>>) =
          IF p \in {"readplan", "done"} THEN ObjectWith(ServicePlan, {Old}) ELSE NoObject

NothingOutside == \A k \in Keys : k[2][1] = NoNamespace => ObjectOf(k) = NoObject

IInv ==
    /\ log \in Seq(StoreWrites)
    /\ LastWriteExists
    /\ pc \in [Tests -> MapStatements \cup TypeStatements]
    /\ todo \in [Tests -> SUBSET Elements]
    /\ next \in [Tests -> 1..8]
    /\ revs \in [Tests -> [Elements -> Nat]]
    /\ errors = {}
    /\ NothingOutside
    /\ \A t \in MapTests : MapIs(t, pc[t], todo[t], revs[t])
    /\ \A t \in TypeTests : TypesAre(t, pc[t])

-----------------------------------------------------------------------------
(* Entries, keys and objects of the tests. *)

(* There is an element 0.                                                  *)
LEMMA ElementsAreNumbers == 0 \in Elements /\ Elements \subseteq Nat /\ Elements # {}
BY StoreTestsAssumption DEF Elements

(* What the tests name are keys.                                           *)
LEMMA KeysOfTests ==
    ASSUME NEW typ \in Types, NEW ns \in Tests \cup {NoNamespace},
           NEW name \in Elements \cup {invalid, missing, example}
    PROVE  <<typ, <<ns, name>>>> \in Keys
BY StoreTestsAssumption DEF Keys

(* The types of the descriptor are known, "missing" is not.                *)
LEMMA TypesAreKnown ==
    /\ FakeConfig \in Types /\ ServiceClass \in Types /\ ServicePlan \in Types
    /\ Known(FakeConfig) /\ Known(ServiceClass) /\ Known(ServicePlan) /\ ~Known(MissingType)
BY StoreTestsAssumption DEF Known

(* What a test stores is an object that decodes to what it stored.         *)
LEMMA ObjectsAreObjects ==
    ASSUME NEW typ \in Types, NEW body \in Bodies
    PROVE  /\ ObjectWith(typ, body) \in Objects
           /\ ObjectWith(typ, body) # NoObject
           /\ Decodes(typ, ObjectWith(typ, body).json)
           /\ FromJSONMap(typ, ObjectWith(typ, body).json) = [msg |-> typ, body |-> body]
           /\ ObjectWith(typ, body).ann = Label
<1>1. body \subseteq Pairs /\ body # {} /\ Label \in Annotations /\ NoObject \notin Objects
  BY StoreTestsAssumption DEF Bodies
<1>2. ToJSONMap([msg |-> typ, body |-> body]) = [msg |-> typ, body |-> body]
  BY <1>1 DEF ToJSONMap
<1>3. PICK j : j = [msg |-> typ, body |-> body]
  OBVIOUS
<1>4. j \in Json /\ j.msg = typ /\ j.body = body
  BY <1>1, <1>3 DEF Json
<1>5. ObjectWith(typ, body) = [ann |-> Label, json |-> j]
  BY <1>2, <1>3 DEF ObjectWith
<1>6. PICK o : o = ObjectWith(typ, body)
  OBVIOUS
<1>7. o \in Objects /\ o.json = j /\ o.ann = Label
  BY <1>1, <1>4, <1>5, <1>6 DEF Objects
<1> QED
  BY <1>1, <1>3, <1>4, <1>6, <1>7 DEF Decodes, FromJSONMap

(* What an entry of a test holds, and the request it is converted to.      *)
LEMMA FieldsOfEntry ==
    ASSUME NEW typ, NEW ns, NEW name, NEW rev, NEW body
    PROVE  Entry(typ, ns, name, rev, body) =
              [typ |-> typ, name |-> <<ns, name>>, home |-> NoHome, ann |-> Label, rev |-> rev,
               spec |-> [msg |-> typ, body |-> body]]
BY DEF Entry

(* The request an entry of a test is converted to.                         *)
LEMMA RequestOfEntry ==
    ASSUME NEW verb, NEW typ, NEW ns, NEW name, NEW rev, NEW body
    PROVE  convertConfig(verb, Entry(typ, ns, name, rev, body)) =
              [verb |-> verb, key |-> <<typ, <<ns, name>>>>, rev |-> rev,
               obj |-> ObjectWith(typ, body)]
BY DEF convertConfig, ObjectWith, Entry

(* When a call with an entry of a test succeeds.                           *)
LEMMA WhenItSucceeds ==
    ASSUME NEW typ, Known(typ), NEW ns, NEW name, NEW rev, NEW body \in Bodies, NEW k,
           k = <<typ, <<ns, name>>>>, NEW e, e = Entry(typ, ns, name, rev, body)
    PROVE  /\ Succeeds("POST", e) <=> ~Live(k) /\ rev = 0
           /\ Succeeds("PUT", e) <=> rev # 0 /\ Live(k) /\ rev = RevisionOf(k)
           /\ Succeeds("DELETE", e) <=> Live(k)
<1>1. e.typ = typ /\ e.rev = rev /\ e.spec = [msg |-> typ, body |-> body]
  BY FieldsOfEntry
<1>2. Validate(e.typ, e.spec)
  BY <1>1 DEF Validate, Bodies
<1>3. ASSUME NEW verb
      PROVE  /\ convertConfig(verb, e).key = k /\ convertConfig(verb, e).rev = rev
             /\ Succeeds(verb, e) <=> (verb = "PUT" => rev # 0) /\ Accepts(verb, k, rev)
  <2>1. convertConfig(verb, e).key = k /\ convertConfig(verb, e).rev = rev
    BY RequestOfEntry
  <2> QED
    BY <1>1, <1>2, <2>1 DEF Succeeds
<1> QED
  BY <1>3 DEF Accepts

(* What a call that succeeds writes.                                       *)
WrittenObject(verb, typ, body) == IF verb = "DELETE" THEN NoObject ELSE ObjectWith(typ, body)

Written(verb, typ, ns, name, body) ==
    [key |-> <<typ, <<ns, name>>>>, obj |-> WrittenObject(verb, typ, body), by |-> "client"]

(* A call that succeeds appends the write of its entry.                    *)
LEMMA WhatItWrites ==
    ASSUME NEW verb, NEW typ \in Types, NEW ns \in Tests \cup {NoNamespace},
           NEW name \in Elements \cup {invalid, missing, example}, NEW rev,
           NEW body \in Bodies,
           Succeeds(verb, Entry(typ, ns, name, rev, body)),
           Mutates(verb, Entry(typ, ns, name, rev, body))
    PROVE  /\ log' = Append(log, Written(verb, typ, ns, name, body))
           /\ Written(verb, typ, ns, name, body) \in StoreWrites
           /\ Written(verb, typ, ns, name, body).key = <<typ, <<ns, name>>>>
           /\ Written(verb, typ, ns, name, body).obj = WrittenObject(verb, typ, body)
<1>1. PICK e, k, o : e = Entry(typ, ns, name, rev, body) /\ k = <<typ, <<ns, name>>>>
                     /\ o = WrittenObject(verb, typ, body)
  OBVIOUS
<1>2. convertConfig(verb, e).key = k /\ convertConfig(verb, e).obj = ObjectWith(typ, body)
  BY <1>1, RequestOfEntry
<1>3. log' = Append(log, [key |-> k, obj |-> o, by |-> "client"])
  BY <1>1, <1>2 DEF Mutates, Write, WrittenObject
<1>4. k \in Keys /\ o \in Objects \cup {NoObject}
  BY <1>1, KeysOfTests, ObjectsAreObjects DEF WrittenObject
<1> QED
  BY <1>1, <1>3, <1>4 DEF StoreWrites, Written

(* A call that fails writes nothing.                                       *)
LEMMA FailuresWriteNothing ==
    ASSUME NEW verb, NEW e, ~Succeeds(verb, e), Mutates(verb, e)
    PROVE  UNCHANGED log
BY DEF Mutates

-----------------------------------------------------------------------------
(* What a step of one test leaves alone. *)

WritesIn(t) == \/ log' = log
               \/ \E w \in StoreWrites : log' = Append(log, w) /\ w.key[2][1] = t

(* Only the key that is written changes.                                   *)
LEMMA OtherKeysStay ==
    ASSUME log \in Seq(StoreWrites), LastWriteExists, NEW k \in Keys,
           \/ log' = log
           \/ \E w \in StoreWrites : log' = Append(log, w) /\ w.key # k
    PROVE  ObjectOf(k)' = ObjectOf(k) /\ RevisionOf(k)' = RevisionOf(k)
<1>1. CASE log' = log
  BY <1>1 DEF ObjectOf, ObjectAt, RevisionOf, RevisionAt, IsLastWrite
<1>2. CASE \E w \in StoreWrites : log' = Append(log, w) /\ w.key # k
  <2>1. PICK w \in StoreWrites : log' = Append(log, w) /\ w.key # k
    BY <1>2
  <2> QED
    BY <2>1, KeyAfterWrite
<1> QED
  BY <1>1, <1>2

(* The log of a step of a test.                                            *)
LEMMA LogOfStep ==
    ASSUME log \in Seq(StoreWrites), LastWriteExists, NEW t, WritesIn(t)
    PROVE  log' \in Seq(StoreWrites) /\ LastWriteExists'
<1>1. GrowsBy(StoreWrites)
  BY DEF WritesIn, GrowsBy
<1> QED
  BY <1>1, LogKeepsWrites, LastWriteExistsGrows

(* Nothing changes in the namespaces of others.                            *)
LEMMA OtherNamespacesStay ==
    ASSUME log \in Seq(StoreWrites), LastWriteExists, NEW t, WritesIn(t),
           NEW k \in Keys, k[2][1] # t
    PROVE  ObjectOf(k)' = ObjectOf(k) /\ RevisionOf(k)' = RevisionOf(k)
BY OtherKeysStay DEF WritesIn

(* So a step of one test keeps what the invariant says of a map test       *)
LEMMA OtherMapTestsStay ==
    ASSUME log \in Seq(StoreWrites), LastWriteExists, NEW t, WritesIn(t),
           NEW u \in MapTests, u # t, NEW p, NEW d, NEW r, MapIs(u, p, d, r)
    PROVE  MapIs(u, p, d, r)'
<1>1. ASSUME NEW i \in Elements
      PROVE  /\ ObjectOf(ElementKey(u, i))' = ObjectOf(ElementKey(u, i))
             /\ RevisionOf(ElementKey(u, i))' = RevisionOf(ElementKey(u, i))
  <2>1. PICK k : k = ElementKey(u, i)
    OBVIOUS
  <2>2. k \in Keys /\ k[2][1] = u
    BY <2>1, KeysOfTests, TypesAreKnown DEF ElementKey, Tests
  <2> QED
    BY <2>1, <2>2, OtherNamespacesStay
<1>2. \A k \in Keys : k[2][1] = u => ObjectOf(k)' = ObjectOf(k)
  BY OtherNamespacesStay
<1> QED
  BY <1>1, <1>2 DEF MapIs

(* and of a type test.                                                     *)
LEMMA OtherTypeTestsStay ==
    ASSUME log \in Seq(StoreWrites), LastWriteExists, NEW t, WritesIn(t),
           NEW u \in TypeTests, u # t, NEW p, TypesAre(u, p)
    PROVE  TypesAre(u, p)'
<1>1. ASSUME NEW typ \in {ServiceClass, ServicePlan}
      PROVE  ObjectOf(<<typ, <<u, example>>>>)' = ObjectOf(<<typ, <<u, example>>>>)
  <2>1. PICK k : k = <<typ, <<u, example>>>>
    OBVIOUS
  <2>2. k \in Keys /\ k[2][1] = u
    BY <2>1, KeysOfTests, TypesAreKnown DEF Tests
  <2> QED
    BY <2>1, <2>2, OtherNamespacesStay
<1> QED
  BY <1>1 DEF TypesAre

(* A step of one test keeps the invariant when it keeps the test's part.   *)
LEMMA StepOfTest ==
    ASSUME IInv, NEW t \in Tests, WritesIn(t),
           NEW q \in MapStatements \cup TypeStatements, NEW e \in SUBSET Elements,
           NEW s \in [Elements -> Nat],
           pc' = [pc EXCEPT ![t] = q], todo' = [todo EXCEPT ![t] = e],
           revs' = [revs EXCEPT ![t] = s], next' \in [Tests -> 1..8], errors' = {},
           t \in MapTests => MapIs(t, q, e, s)', t \in TypeTests => TypesAre(t, q)'
    PROVE  IInv'
<1>1. log \in Seq(StoreWrites) /\ LastWriteExists
  BY DEF IInv
<1>2. log' \in Seq(StoreWrites) /\ LastWriteExists'
  BY <1>1, LogOfStep
<1>3. /\ pc' \in [Tests -> MapStatements \cup TypeStatements] /\ pc'[t] = q
      /\ \A u \in Tests : u # t => pc'[u] = pc[u]
  BY DEF IInv
<1>4. /\ todo' \in [Tests -> SUBSET Elements] /\ todo'[t] = e
      /\ \A u \in Tests : u # t => todo'[u] = todo[u]
  BY DEF IInv
<1>5. /\ revs' \in [Tests -> [Elements -> Nat]] /\ revs'[t] = s
      /\ \A u \in Tests : u # t => revs'[u] = revs[u]
  BY DEF IInv
<1>6. NothingOutside'
  <2>1. NoNamespace # t
    BY StoreTestsAssumption
  <2> QED
    BY <1>1, <2>1, OtherNamespacesStay DEF NothingOutside, IInv
<1>7. ASSUME NEW u \in MapTests
      PROVE  MapIs(u, pc[u], todo[u], revs[u])'
  <2>1. CASE u = t
    BY <1>3, <1>4, <1>5, <2>1
  <2>2. CASE u # t
    <3>1. PICK p, d, r : p = pc[u] /\ d = todo[u] /\ r = revs[u]
      OBVIOUS
    <3>2. p = pc'[u] /\ d = todo'[u] /\ r = revs'[u]
      BY <1>3, <1>4, <1>5, <2>2, <3>1 DEF Tests
    <3>3. MapIs(u, p, d, r)'
      BY <1>1, <2>2, <3>1, OtherMapTestsStay DEF IInv
    <3> QED
      BY <3>2, <3>3
  <2> QED
    BY <2>1, <2>2
<1>8. ASSUME NEW u \in TypeTests
      PROVE  TypesAre(u, pc[u])'
  <2>1. CASE u = t
    BY <1>3, <2>1
  <2>2. CASE u # t
    <3>1. PICK p : p = pc[u]
      OBVIOUS
    <3>2. p = pc'[u]
      BY <1>3, <2>2, <3>1 DEF Tests
    <3>3. TypesAre(u, p)'
      BY <1>1, <2>2, <3>1, OtherTypeTestsStay DEF IInv
    <3> QED
      BY <3>2, <3>3
  <2> QED
    BY <2>1, <2>2
<1> QED
  BY <1>2, <1>3, <1>4, <1>5, <1>6, <1>7, <1>8 DEF IInv

-----------------------------------------------------------------------------
(* What a map test reads and writes. *)

(* What is stored as an entry of a test is read back as that entry.        *)
LEMMA ReadsBack ==
    ASSUME NEW typ \in Types, Known(typ), NEW ns, NEW name,
           NEW body \in Bodies, NEW k, k = <<typ, <<ns, name>>>>,
           ObjectOf(k) = ObjectWith(typ, body)
    PROVE  Found(k) /\ Stored(k) = Entry(typ, ns, name, RevisionOf(k), body)
<1>1. PICK o : o = ObjectWith(typ, body)
  OBVIOUS
<1>2. /\ o # NoObject /\ Decodes(typ, o.json) /\ o.ann = Label
      /\ FromJSONMap(typ, o.json) = [msg |-> typ, body |-> body]
  BY <1>1, ObjectsAreObjects
<1>3. k[1] = typ /\ k[2] = <<ns, name>>
  OBVIOUS
<1>4. Found(k)
  BY <1>1, <1>2, <1>3 DEF Found, Live
<1>5. Stored(k) = [typ |-> typ, name |-> <<ns, name>>, home |-> NoHome, ann |-> Label,
                   rev |-> RevisionOf(k), spec |-> [msg |-> typ, body |-> body]]
  BY <1>1, <1>2, <1>3 DEF Stored, convertObject
<1> QED
  BY <1>4, <1>5, FieldsOfEntry

(* Compare looks at all but the revision.                                  *)
LEMMA ComparesButRevision ==
    ASSUME NEW typ, NEW ns, NEW name, NEW r1, NEW r2, NEW body
    PROVE  Compare(Entry(typ, ns, name, r1, body), Entry(typ, ns, name, r2, body))
BY DEF Compare, Entry

(* Elements have keys of their own.                                        *)
LEMMA ElementKeys ==
    ASSUME NEW t \in MapTests, NEW i \in Elements
    PROVE  /\ ElementKey(t, i) \in Keys /\ ElementKey(t, i)[2][1] = t
           /\ \A j \in Elements : ElementKey(t, j) = ElementKey(t, i) => j = i
BY KeysOfTests, TypesAreKnown DEF ElementKey, Tests

(* A write of element i takes the test to the statement q with the         *)
(* elements e still to be visited.                                         *)
LEMMA ElementIsWritten ==
    ASSUME log \in Seq(StoreWrites), LastWriteExists,
           NEW t \in MapTests, NEW p, NEW d, NEW r, MapIs(t, p, d, r),
           NEW i \in Elements, NEW w \in StoreWrites,
           log' = Append(log, w), w.key = ElementKey(t, i),
           NEW q \in MapStatements, NEW e \in SUBSET Elements, e # {},
           AtStart(q, e),
           \A j \in Elements : Element(j, q, e) = IF j = i THEN w.obj ELSE Element(j, p, d),
           \A j \in Elements : Current(j, q, e) => j # i /\ Current(j, p, d)
    PROVE  MapIs(t, q, e, r)'
<1>1. ASSUME NEW j \in Elements
      PROVE  /\ ObjectOf(ElementKey(t, j))' = Element(j, q, e)
             /\ Current(j, q, e) => r[j] = RevisionOf(ElementKey(t, j))'
  <2>1. CASE j = i
    BY <2>1, ElementKeys, KeyAfterWrite
  <2>2. CASE j # i
    <3>1. ElementKey(t, j) # w.key /\ ElementKey(t, j) \in Keys
      BY <2>2, ElementKeys
    <3>2. /\ ObjectOf(ElementKey(t, j))' = ObjectOf(ElementKey(t, j))
          /\ RevisionOf(ElementKey(t, j))' = RevisionOf(ElementKey(t, j))
      BY <3>1, KeyAfterWrite
    <3> QED
      BY <2>2, <3>2 DEF MapIs
  <2> QED
    BY <2>1, <2>2
<1>2. ASSUME NEW k \in Keys, k[2][1] = t, k \notin {ElementKey(t, j) : j \in Elements}
      PROVE  ObjectOf(k)' = NoObject
  <2>1. k # w.key
    BY <1>2
  <2> QED
    BY <1>2, <2>1, KeyAfterWrite DEF MapIs
<1>3. r \in [Elements -> Nat]
  BY DEF MapIs
<1> QED
  BY <1>1, <1>2, <1>3 DEF MapIs

(* A statement that writes nothing.                                        *)
LEMMA ElementsAreLeft ==
    ASSUME log \in Seq(StoreWrites), LastWriteExists, log' = log,
           NEW t \in MapTests, NEW p, NEW d, NEW r, MapIs(t, p, d, r),
           NEW q \in MapStatements, NEW e \in SUBSET Elements, e # {},
           AtStart(q, e),
           NEW s \in [Elements -> Nat],
           \A j \in Elements : Element(j, q, e) = Element(j, p, d),
           \A j \in Elements : Current(j, q, e) => s[j] = RevisionOf(ElementKey(t, j))
    PROVE  MapIs(t, q, e, s)'
<1>1. \A j \in Elements : /\ ObjectOf(ElementKey(t, j))' = ObjectOf(ElementKey(t, j))
                          /\ RevisionOf(ElementKey(t, j))' = RevisionOf(ElementKey(t, j))
  BY ElementKeys, OtherKeysStay
<1>2. \A k \in Keys : ObjectOf(k)' = ObjectOf(k)
  BY OtherKeysStay
<1> QED
  BY <1>1, <1>2 DEF MapIs

(* Where a turn of a loop that visits i leads: with the last element to    *)
(* the loop after it.                                                      *)
TurnsTo(loop, after, i, d, q, f) ==
    \/ d = {i} /\ q = after /\ f = Elements
    \/ q = loop /\ f = d \ {i} /\ f # {}

(* What a turn of a loop does to the test.                                 *)
LEMMA TurnOfLoop ==
    ASSUME IInv, NEW t \in MapTests, NEW loop \in MapStatements, NEW i,
           NEW after \in MapStatements, Turn(t, loop, i, after)
    PROVE  /\ pc[t] = loop /\ i \in todo[t] /\ i \in Elements
           /\ next' \in [Tests -> 1..8]
           /\ \E q \in MapStatements, f \in SUBSET Elements :
                 /\ TurnsTo(loop, after, i, todo[t], q, f) /\ f # {}
                 /\ pc' = [pc EXCEPT ![t] = q] /\ todo' = [todo EXCEPT ![t] = f]
<1>1. /\ pc \in [Tests -> MapStatements \cup TypeStatements] /\ t \in Tests
      /\ todo \in [Tests -> SUBSET Elements] /\ next \in [Tests -> 1..8]
  BY DEF IInv, Tests
<1>2. pc[t] = loop /\ i \in todo[t] /\ next' = next
  BY DEF Turn
<1>3. PICK q, f : /\ q = IF todo[t] = {i} THEN after ELSE loop
                  /\ f = IF todo[t] = {i} THEN Elements ELSE todo[t] \ {i}
  OBVIOUS
<1>4. todo' = [todo EXCEPT ![t] = f] /\ pc' = [pc EXCEPT ![t] = q]
  BY <1>1, <1>2, <1>3 DEF Turn
<1>5. todo[t] \in SUBSET Elements
  BY <1>1
<1>6. /\ q \in MapStatements /\ f \in SUBSET Elements /\ f # {}
      /\ TurnsTo(loop, after, i, todo[t], q, f)
  BY <1>2, <1>3, <1>5, ElementsAreNumbers DEF TurnsTo
<1> QED
  BY <1>1, <1>2, <1>4, <1>5, <1>6

-----------------------------------------------------------------------------
(* The statements of CheckMapInvariant, one lemma each. *)

(* A statement that writes element i.                                      *)
LEMMA WritingKeeps ==
    ASSUME IInv, NEW t \in MapTests, NEW i \in Elements, NEW w \in StoreWrites,
           log' = Append(log, w), w.key = ElementKey(t, i), errors' = errors, UNCHANGED revs,
           next' \in [Tests -> 1..8], NEW p, p = pc[t], NEW d, d = todo[t],
           NEW q \in MapStatements, NEW f \in SUBSET Elements, f # {},
           pc' = [pc EXCEPT ![t] = q], todo' = [todo EXCEPT ![t] = f],
           AtStart(q, f),
           \A j \in Elements :
               Element(j, q, f) = IF j = i THEN w.obj ELSE Element(j, p, d),
           \A j \in Elements : Current(j, q, f) => j # i /\ Current(j, p, d)
    PROVE  IInv'
<1>1. /\ log \in Seq(StoreWrites) /\ LastWriteExists /\ t \in Tests /\ t \notin TypeTests
      /\ revs[t] \in [Elements -> Nat]
      /\ revs' = [revs EXCEPT ![t] = revs[t]] /\ errors' = {}
  BY StoreTestsAssumption DEF IInv, Tests
<1>2. PICK r : r = revs[t]
  OBVIOUS
<1>3. MapIs(t, p, d, r)
  BY <1>2 DEF IInv
<1>4. WritesIn(t)
  <2>1. w.key[2][1] = t
    BY DEF ElementKey
  <2> QED
    BY <2>1 DEF WritesIn
<1>5. MapIs(t, q, f, r)'
  <2>1. log \in Seq(StoreWrites) /\ LastWriteExists
    BY <1>1
  <2> QED
    BY <2>1, <1>3, ElementIsWritten
<1> QED
  BY <1>1, <1>2, <1>4, <1>5, StepOfTest

(* A statement that writes nothing.                                        *)
LEMMA ReadingKeeps ==
    ASSUME IInv, NEW t \in MapTests, log' = log, errors' = errors,
           next' \in [Tests -> 1..8], NEW p, p = pc[t], NEW d, d = todo[t],
           NEW q \in MapStatements, NEW f \in SUBSET Elements, f # {},
           NEW s \in [Elements -> Nat],
           pc' = [pc EXCEPT ![t] = q], todo' = [todo EXCEPT ![t] = f],
           revs' = [revs EXCEPT ![t] = s],
           AtStart(q, f),
           \A j \in Elements : Element(j, q, f) = Element(j, p, d),
           \A j \in Elements : Current(j, q, f) => s[j] = RevisionOf(ElementKey(t, j))
    PROVE  IInv'
<1>1. /\ log \in Seq(StoreWrites) /\ LastWriteExists /\ t \in Tests /\ t \notin TypeTests
      /\ errors' = {}
  BY StoreTestsAssumption DEF IInv, Tests
<1>2. PICK r : r = revs[t]
  OBVIOUS
<1>3. MapIs(t, p, d, r)
  BY <1>2 DEF IInv
<1>4. WritesIn(t)
  BY DEF WritesIn
<1>5. MapIs(t, q, f, s)'
  BY <1>1, <1>3, ElementsAreLeft
<1> QED
  BY <1>1, <1>4, <1>5, StepOfTest

(* What the invariant says of a map test.                                  *)
LEMMA MapTestIs ==
    ASSUME IInv, NEW t \in MapTests
    PROVE  /\ t \in Tests /\ t \notin TypeTests /\ todo[t] \in SUBSET Elements /\ todo[t] # {}
           /\ revs[t] \in [Elements -> Nat] /\ pc[t] \in MapStatements
           /\ revs = [revs EXCEPT ![t] = revs[t]] /\ todo = [todo EXCEPT ![t] = todo[t]]
           /\ AtStart(pc[t], todo[t])
           /\ \A i \in Elements : ObjectOf(ElementKey(t, i)) = Element(i, pc[t], todo[t])
           /\ \A i \in Elements : Current(i, pc[t], todo[t]) =>
                                        revs[t][i] = RevisionOf(ElementKey(t, i))
BY StoreTestsAssumption DEF IInv, MapIs, Tests

(* A call for an element writes its key.                                   *)
LEMMA ElementCallWrites ==
    ASSUME NEW t \in MapTests, NEW i \in Elements, NEW verb, NEW rev, NEW body \in Bodies,
           Succeeds(verb, Entry(FakeConfig, t, i, rev, body)),
           Mutates(verb, Entry(FakeConfig, t, i, rev, body))
    PROVE  \E w \in StoreWrites : /\ log' = Append(log, w) /\ w.key = ElementKey(t, i)
                                  /\ w.obj = WrittenObject(verb, FakeConfig, body)
<1>1. FakeConfig \in Types /\ t \in Tests \cup {NoNamespace}
      /\ i \in Elements \cup {invalid, missing, example}
  BY TypesAreKnown DEF Tests
<1>2. /\ log' = Append(log, Written(verb, FakeConfig, t, i, body))
      /\ Written(verb, FakeConfig, t, i, body) \in StoreWrites
  BY <1>1, WhatItWrites
<1>3. /\ Written(verb, FakeConfig, t, i, body).key = ElementKey(t, i)
      /\ Written(verb, FakeConfig, t, i, body).obj = WrittenObject(verb, FakeConfig, body)
  BY DEF Written, ElementKey
<1> QED
  BY <1>2, <1>3

(* Creating an element: its key is free.                                   *)
LEMMA PostAllKeeps ==
    ASSUME IInv, NEW t \in MapTests, PostAll(t)
    PROVE  IInv'
<1>0. "post" \in MapStatements /\ "read" \in MapStatements
  BY DEF MapStatements
<1>1. PICK i \in Elements :
         /\ Turn(t, "post", i, "read") /\ Expect(t, Succeeds("POST", Make(t, i)))
         /\ Mutates("POST", Make(t, i))
  BY DEF PostAll
<1>2. /\ pc[t] = "post" /\ i \in todo[t] /\ next' \in [Tests -> 1..8]
      /\ \E q \in MapStatements, f \in SUBSET Elements :
            /\ TurnsTo("post", "read", i, todo[t], q, f) /\ f # {}
            /\ pc' = [pc EXCEPT ![t] = q] /\ todo' = [todo EXCEPT ![t] = f]
  BY <1>0, <1>1, TurnOfLoop
<1>3. PICK q \in MapStatements, f \in SUBSET Elements :
            /\ TurnsTo("post", "read", i, todo[t], q, f) /\ f # {}
            /\ pc' = [pc EXCEPT ![t] = q] /\ todo' = [todo EXCEPT ![t] = f]
  BY <1>2
<1>4. Make(t, i) = Entry(FakeConfig, t, i, 0, {Old}) /\ {Old} \in Bodies
  BY DEF Make, Bodies
<1>5. Succeeds("POST", Make(t, i))
  <2>1. ObjectOf(ElementKey(t, i)) = NoObject
    BY <1>2, MapTestIs DEF Element
  <2>2. ~Live(<<FakeConfig, <<t, i>>>>)
    BY <2>1 DEF ElementKey, Live
  <2> QED
    BY <1>4, <2>2, WhenItSucceeds, TypesAreKnown
<1>6. errors' = errors /\ UNCHANGED revs
  BY <1>1, <1>5 DEF Expect, PostAll
<1>7. PICK w \in StoreWrites : /\ log' = Append(log, w) /\ w.key = ElementKey(t, i)
                               /\ w.obj = ObjectWith(FakeConfig, {Old})
  <2>1. PICK b \in Bodies : b = {Old}
    BY <1>4
  <2>2. /\ Succeeds("POST", Entry(FakeConfig, t, i, 0, b))
        /\ Mutates("POST", Entry(FakeConfig, t, i, 0, b))
    BY <1>1, <1>4, <1>5, <2>1
  <2>3. PICK w \in StoreWrites : /\ log' = Append(log, w) /\ w.key = ElementKey(t, i)
                                 /\ w.obj = WrittenObject("POST", FakeConfig, b)
    BY <2>2, ElementCallWrites
  <2>4. w.obj = ObjectWith(FakeConfig, {Old})
    BY <2>1, <2>3 DEF WrittenObject
  <2> QED
    BY <2>3, <2>4
<1>8. PICK p, d : p = pc[t] /\ d = todo[t]
  OBVIOUS
<1>9. /\ p = "post" /\ i \in d /\ d \in SUBSET Elements
      /\ TurnsTo("post", "read", i, d, q, f)
  BY <1>2, <1>3, <1>8, MapTestIs
<1>10. /\ AtStart(q, f)
       /\ \A j \in Elements : Element(j, q, f) = IF j = i THEN w.obj ELSE Element(j, p, d)
       /\ \A j \in Elements : Current(j, q, f) => j # i /\ Current(j, p, d)
  BY <1>7, <1>9 DEF TurnsTo, AtStart, Element, Current
<1>11. next' \in [Tests -> 1..8]
  BY <1>2
<1> QED
  BY <1>3, <1>6, <1>7, <1>8, <1>10, <1>11, WritingKeeps

(* Reading an element finds what was written, whatever its revision.       *)
LEMMA ElementIsRead ==
    ASSUME NEW t, NEW i, NEW body \in Bodies, NEW rev,
           ObjectOf(ElementKey(t, i)) = ObjectWith(FakeConfig, body)
    PROVE  /\ Found(ElementKey(t, i))
           /\ Compare(Entry(FakeConfig, t, i, rev, body), Stored(ElementKey(t, i)))
<1>1. PICK k : k = ElementKey(t, i)
  OBVIOUS
<1>2. k = <<FakeConfig, <<t, i>>>> /\ ObjectOf(k) = ObjectWith(FakeConfig, body)
  BY <1>1 DEF ElementKey
<1>3. Found(k) /\ Stored(k) = Entry(FakeConfig, t, i, RevisionOf(k), body)
  BY <1>2, ReadsBack, TypesAreKnown
<1>4. Compare(Entry(FakeConfig, t, i, rev, body), Entry(FakeConfig, t, i, RevisionOf(k), body))
  BY ComparesButRevision
<1> QED
  BY <1>1, <1>3, <1>4

(* Reading an element that was created: its revision is remembered.        *)
LEMMA ReadCreatedKeeps ==
    ASSUME IInv, NEW t \in MapTests, ReadCreated(t)
    PROVE  IInv'
<1>0. "read" \in MapStatements /\ "refuse" \in MapStatements
  BY DEF MapStatements
<1>1. PICK i \in Elements :
         /\ Turn(t, "read", i, "refuse")
         /\ Found(ElementKey(t, i)) /\ Compare(Make(t, i), Stored(ElementKey(t, i))) =>
               /\ errors' = errors
               /\ revs' = [revs EXCEPT ![t][i] = RevisionOf(ElementKey(t, i))]
         /\ log' = log
  BY DEF ReadCreated, ReadAll, Expect, ElementKey
<1>2. /\ pc[t] = "read" /\ i \in todo[t] /\ next' \in [Tests -> 1..8]
      /\ \E q \in MapStatements, f \in SUBSET Elements :
            /\ TurnsTo("read", "refuse", i, todo[t], q, f) /\ f # {}
            /\ pc' = [pc EXCEPT ![t] = q] /\ todo' = [todo EXCEPT ![t] = f]
  BY <1>0, <1>1, TurnOfLoop
<1>3. PICK q \in MapStatements, f \in SUBSET Elements :
            /\ TurnsTo("read", "refuse", i, todo[t], q, f) /\ f # {}
            /\ pc' = [pc EXCEPT ![t] = q] /\ todo' = [todo EXCEPT ![t] = f]
  BY <1>2
<1>4. Found(ElementKey(t, i)) /\ Compare(Make(t, i), Stored(ElementKey(t, i)))
  <2>1. ObjectOf(ElementKey(t, i)) = ObjectWith(FakeConfig, {Old}) /\ {Old} \in Bodies
    BY <1>2, MapTestIs DEF Element, Bodies
  <2> QED
    BY <2>1, ElementIsRead DEF Make
<1>5. PICK p, d, r, n, s : /\ p = pc[t] /\ d = todo[t] /\ r = revs[t]
                           /\ n = RevisionOf(ElementKey(t, i)) /\ s = [r EXCEPT ![i] = n]
  OBVIOUS
<1>6. n \in Nat
  <2>1. ElementKey(t, i) \in Keys /\ log \in Seq(StoreWrites) /\ LastWriteExists
    BY ElementKeys DEF IInv
  <2> QED
    BY <1>5, <2>1, RevisionIsInLog
<1>7. /\ p = "read" /\ i \in d /\ d \in SUBSET Elements /\ r \in [Elements -> Nat]
      /\ TurnsTo("read", "refuse", i, d, q, f)
      /\ \A j \in Elements : Current(j, p, d) => r[j] = RevisionOf(ElementKey(t, j))
  BY <1>2, <1>3, <1>5, MapTestIs
<1>8. s \in [Elements -> Nat] /\ s[i] = n /\ \A j \in Elements : j # i => s[j] = r[j]
  BY <1>5, <1>6, <1>7
<1>9. errors' = errors /\ revs' = [revs EXCEPT ![t] = s]
  BY <1>1, <1>4, <1>5
<1>10. /\ AtStart(q, f)
       /\ \A j \in Elements : Element(j, q, f) = Element(j, p, d)
       /\ \A j \in Elements : Current(j, q, f) => j = i \/ Current(j, p, d)
  BY <1>7 DEF TurnsTo, AtStart, Element, Current
<1>11. \A j \in Elements : Current(j, q, f) => s[j] = RevisionOf(ElementKey(t, j))
  BY <1>5, <1>7, <1>8, <1>10
<1>12. next' \in [Tests -> 1..8] /\ log' = log
  BY <1>1, <1>2
<1>13. p = pc[t] /\ d = todo[t] /\ s \in [Elements -> Nat]
  BY <1>5, <1>8
<1>14. f # {} /\ pc' = [pc EXCEPT ![t] = q] /\ todo' = [todo EXCEPT ![t] = f]
  BY <1>3
<1>15. /\ AtStart(q, f)
       /\ \A j \in Elements : Element(j, q, f) = Element(j, p, d)
  BY <1>10
<1> QED
  BY <1>9, <1>11, <1>12, <1>13, <1>14, <1>15, ReadingKeeps

(* Reading an element that was updated.                                    *)
LEMMA ReadUpdatedKeeps ==
    ASSUME IInv, NEW t \in MapTests, ReadUpdated(t)
    PROVE  IInv'
<1>0. "reread" \in MapStatements /\ "delete" \in MapStatements
  BY DEF MapStatements
<1>1. PICK i \in Elements :
         /\ Turn(t, "reread", i, "delete")
         /\ Found(ElementKey(t, i)) /\ Compare(Updated(t, i), Stored(ElementKey(t, i))) =>
               errors' = errors
         /\ log' = log /\ revs' = revs
  BY DEF ReadUpdated, ReadAll, Expect, ElementKey
<1>2. /\ pc[t] = "reread" /\ i \in todo[t] /\ next' \in [Tests -> 1..8]
      /\ \E q \in MapStatements, f \in SUBSET Elements :
            /\ TurnsTo("reread", "delete", i, todo[t], q, f) /\ f # {}
            /\ pc' = [pc EXCEPT ![t] = q] /\ todo' = [todo EXCEPT ![t] = f]
  BY <1>0, <1>1, TurnOfLoop
<1>3. PICK q \in MapStatements, f \in SUBSET Elements :
            /\ TurnsTo("reread", "delete", i, todo[t], q, f) /\ f # {}
            /\ pc' = [pc EXCEPT ![t] = q] /\ todo' = [todo EXCEPT ![t] = f]
  BY <1>2
<1>4. Found(ElementKey(t, i)) /\ Compare(Updated(t, i), Stored(ElementKey(t, i)))
  <2>1. ObjectOf(ElementKey(t, i)) = ObjectWith(FakeConfig, {New}) /\ {New} \in Bodies
    BY <1>2, MapTestIs DEF Element, Bodies
  <2> QED
    BY <2>1, ElementIsRead DEF Updated
<1>5. PICK p, d, r : p = pc[t] /\ d = todo[t] /\ r = revs[t]
  OBVIOUS
<1>6. /\ p = "reread" /\ i \in d /\ d \in SUBSET Elements
      /\ TurnsTo("reread", "delete", i, d, q, f)
  BY <1>2, <1>3, <1>5, MapTestIs
<1>7. r \in [Elements -> Nat] /\ revs' = [revs EXCEPT ![t] = r]
  BY <1>1, <1>5, MapTestIs
<1>8. /\ AtStart(q, f)
      /\ \A j \in Elements : Element(j, q, f) = Element(j, p, d)
      /\ \A j \in Elements : Current(j, q, f) => r[j] = RevisionOf(ElementKey(t, j))
  BY <1>6 DEF TurnsTo, AtStart, Element, Current
<1>9. next' \in [Tests -> 1..8] /\ log' = log /\ errors' = errors
  BY <1>1, <1>2, <1>4
<1>10. p = pc[t] /\ d = todo[t]
  BY <1>5
<1>11. f # {} /\ pc' = [pc EXCEPT ![t] = q] /\ todo' = [todo EXCEPT ![t] = f]
  BY <1>3
<1> QED
  BY <1>7, <1>8, <1>9, <1>10, <1>11, ReadingKeeps

(* Updating an element: the revision that was read is still current.       *)
LEMMA UpdateAllKeeps ==
    ASSUME IInv, NEW t \in MapTests, UpdateAll(t)
    PROVE  IInv'
<1>0. "update" \in MapStatements /\ "reread" \in MapStatements
  BY DEF MapStatements
<1>1. PICK i : /\ Turn(t, "update", i, "reread") /\ Expect(t, Succeeds("PUT", Updated(t, i)))
               /\ Mutates("PUT", Updated(t, i))
  BY DEF UpdateAll
<1>2. /\ pc[t] = "update" /\ i \in todo[t] /\ i \in Elements /\ next' \in [Tests -> 1..8]
      /\ \E q \in MapStatements, f \in SUBSET Elements :
            /\ TurnsTo("update", "reread", i, todo[t], q, f) /\ f # {}
            /\ pc' = [pc EXCEPT ![t] = q] /\ todo' = [todo EXCEPT ![t] = f]
  BY <1>0, <1>1, TurnOfLoop
<1>3. PICK q \in MapStatements, f \in SUBSET Elements :
            /\ TurnsTo("update", "reread", i, todo[t], q, f) /\ f # {}
            /\ pc' = [pc EXCEPT ![t] = q] /\ todo' = [todo EXCEPT ![t] = f]
  BY <1>2
<1>4. Updated(t, i) = Entry(FakeConfig, t, i, revs[t][i], {New}) /\ {New} \in Bodies
  BY DEF Updated, Bodies
<1>5. Succeeds("PUT", Updated(t, i))
  <2>1. PICK k, n : k = ElementKey(t, i) /\ n = revs[t][i]
    OBVIOUS
  <2>2. /\ ObjectOf(k) = ObjectWith(FakeConfig, {Old}) /\ n = RevisionOf(k)
        /\ {Old} \in Bodies
    BY <1>2, <2>1, MapTestIs DEF Element, Current, Bodies
  <2>3. Live(k)
    BY <2>2, ObjectsAreObjects, TypesAreKnown DEF Live
  <2>4. n # 0
    <3>1. k \in Keys /\ log \in Seq(StoreWrites) /\ LastWriteExists
      BY <1>2, <2>1, MapTestIs, ElementKeys DEF IInv
    <3> QED
      BY <2>2, <2>3, <3>1, RevisionIsInLog
  <2>5. k = <<FakeConfig, <<t, i>>>> /\ Updated(t, i) = Entry(FakeConfig, t, i, n, {New})
    BY <1>4, <2>1 DEF ElementKey
  <2> QED
    BY <1>4, <2>2, <2>3, <2>4, <2>5, WhenItSucceeds, TypesAreKnown
<1>6. errors' = errors /\ UNCHANGED revs
  BY <1>1, <1>5 DEF Expect, UpdateAll
<1>7. PICK w \in StoreWrites : /\ log' = Append(log, w) /\ w.key = ElementKey(t, i)
                               /\ w.obj = ObjectWith(FakeConfig, {New})
  <2>1. PICK b \in Bodies : b = {New}
    BY <1>4
  <2>2. /\ Succeeds("PUT", Entry(FakeConfig, t, i, revs[t][i], b))
        /\ Mutates("PUT", Entry(FakeConfig, t, i, revs[t][i], b))
    BY <1>1, <1>4, <1>5, <2>1
  <2>3. PICK w \in StoreWrites : /\ log' = Append(log, w) /\ w.key = ElementKey(t, i)
                                 /\ w.obj = WrittenObject("PUT", FakeConfig, b)
    BY <1>2, <2>2, ElementCallWrites
  <2>4. w.obj = ObjectWith(FakeConfig, {New})
    BY <2>1, <2>3 DEF WrittenObject
  <2> QED
    BY <2>3, <2>4
<1>8. PICK p, d : p = pc[t] /\ d = todo[t]
  OBVIOUS
<1>9. /\ p = "update" /\ i \in d /\ d \in SUBSET Elements
      /\ TurnsTo("update", "reread", i, d, q, f)
  BY <1>2, <1>3, <1>8, MapTestIs
<1>10. /\ AtStart(q, f)
       /\ \A j \in Elements : Element(j, q, f) = IF j = i THEN w.obj ELSE Element(j, p, d)
       /\ \A j \in Elements : Current(j, q, f) => j # i /\ Current(j, p, d)
  BY <1>7, <1>9 DEF TurnsTo, AtStart, Element, Current
<1>11. next' \in [Tests -> 1..8] /\ i \in Elements
  BY <1>2
<1> QED
  BY <1>3, <1>6, <1>7, <1>8, <1>10, <1>11, WritingKeeps

(* Deleting an element: it is there.                                       *)
LEMMA DeleteAllKeeps ==
    ASSUME IInv, NEW t \in MapTests, DeleteAll(t)
    PROVE  IInv'
<1>0. "delete" \in MapStatements /\ "relist" \in MapStatements
  BY DEF MapStatements
<1>1. PICK i \in Elements :
         /\ Turn(t, "delete", i, "relist") /\ Expect(t, Succeeds("DELETE", Make(t, i)))
         /\ Mutates("DELETE", Make(t, i))
  BY DEF DeleteAll
<1>2. /\ pc[t] = "delete" /\ i \in todo[t] /\ next' \in [Tests -> 1..8]
      /\ \E q \in MapStatements, f \in SUBSET Elements :
            /\ TurnsTo("delete", "relist", i, todo[t], q, f) /\ f # {}
            /\ pc' = [pc EXCEPT ![t] = q] /\ todo' = [todo EXCEPT ![t] = f]
  BY <1>0, <1>1, TurnOfLoop
<1>3. PICK q \in MapStatements, f \in SUBSET Elements :
            /\ TurnsTo("delete", "relist", i, todo[t], q, f) /\ f # {}
            /\ pc' = [pc EXCEPT ![t] = q] /\ todo' = [todo EXCEPT ![t] = f]
  BY <1>2
<1>4. Make(t, i) = Entry(FakeConfig, t, i, 0, {Old}) /\ {Old} \in Bodies
  BY DEF Make, Bodies
<1>5. Succeeds("DELETE", Make(t, i))
  <2>1. ObjectOf(ElementKey(t, i)) = ObjectWith(FakeConfig, {New}) /\ {New} \in Bodies
    BY <1>2, MapTestIs DEF Element, Bodies
  <2>2. Live(<<FakeConfig, <<t, i>>>>)
    BY <2>1, ObjectsAreObjects, TypesAreKnown DEF ElementKey, Live
  <2> QED
    BY <1>4, <2>2, WhenItSucceeds, TypesAreKnown
<1>6. errors' = errors /\ UNCHANGED revs
  BY <1>1, <1>5 DEF Expect, DeleteAll
<1>7. PICK w \in StoreWrites : /\ log' = Append(log, w) /\ w.key = ElementKey(t, i)
                               /\ w.obj = NoObject
  <2>1. PICK b \in Bodies : b = {Old}
    BY <1>4
  <2>2. /\ Succeeds("DELETE", Entry(FakeConfig, t, i, 0, b))
        /\ Mutates("DELETE", Entry(FakeConfig, t, i, 0, b))
    BY <1>1, <1>4, <1>5, <2>1
  <2>3. PICK w \in StoreWrites : /\ log' = Append(log, w) /\ w.key = ElementKey(t, i)
                                 /\ w.obj = WrittenObject("DELETE", FakeConfig, b)
    BY <2>2, ElementCallWrites
  <2>4. w.obj = NoObject
    BY <2>1, <2>3 DEF WrittenObject
  <2> QED
    BY <2>3, <2>4
<1>8. PICK p, d : p = pc[t] /\ d = todo[t]
  OBVIOUS
<1>9. /\ p = "delete" /\ i \in d /\ d \in SUBSET Elements
      /\ TurnsTo("delete", "relist", i, d, q, f)
  BY <1>2, <1>3, <1>8, MapTestIs
<1>10. /\ AtStart(q, f)
       /\ \A j \in Elements : Element(j, q, f) = IF j = i THEN w.obj ELSE Element(j, p, d)
       /\ \A j \in Elements : Current(j, q, f) => j # i /\ Current(j, p, d)
  BY <1>7, <1>9 DEF TurnsTo, AtStart, Element, Current
<1>11. next' \in [Tests -> 1..8]
  BY <1>2
<1> QED
  BY <1>3, <1>6, <1>7, <1>8, <1>10, <1>11, WritingKeeps

(* What the store must refuse it refuses, and keeps what it holds.         *)
LEMMA RefusedCallsFail ==
    ASSUME IInv, NEW t \in MapTests, pc[t] = "refuse", NEW n \in 1..8
    PROVE  ~Succeeds(Refused(t)[n][1], Refused(t)[n][2])
<1>0. PICK r : r = revs[t][0]
  OBVIOUS
<1>1. 0 \in Elements /\ {Old} \in Bodies /\ FakeConfig \in Types /\ Known(FakeConfig)
  BY ElementsAreNumbers, TypesAreKnown DEF Bodies
<1>2. /\ Entry(FakeConfig, NoNamespace, invalid, r, {}).typ = FakeConfig
      /\ Entry(FakeConfig, NoNamespace, invalid, r, {}).spec.body = {}
  BY DEF Entry
<1>3. ~Validate(FakeConfig, Entry(FakeConfig, NoNamespace, invalid, r, {}).spec)
  BY <1>2, StoreTestsAssumption DEF Validate
<1>4. ~Live(<<FakeConfig, <<NoNamespace, missing>>>>)
  <2>1. PICK k : k = <<FakeConfig, <<NoNamespace, missing>>>>
    OBVIOUS
  <2>2. k \in Keys /\ k[2][1] = NoNamespace
    BY <1>1, <2>1, KeysOfTests
  <2> QED
    BY <2>1, <2>2 DEF IInv, NothingOutside, Live
<1>5. PICK k : k = ElementKey(t, 0)
  OBVIOUS
<1>6. k = <<FakeConfig, <<t, 0>>>> /\ k \in Keys
  BY <1>1, <1>5, ElementKeys DEF ElementKey
<1>7. Live(k)
  <2>1. ObjectOf(k) = ObjectWith(FakeConfig, {Old})
    BY <1>1, <1>5, MapTestIs DEF Element
  <2> QED
    BY <1>1, <2>1, ObjectsAreObjects DEF Live
<1>8. RevisionOf(k) # BadRevision
  <2>1. log \in Seq(StoreWrites) /\ LastWriteExists
    BY DEF IInv
  <2>2. RevisionOf(k) \in 0..Len(log) /\ Len(log) \in Nat
    BY <1>6, <2>1, RevisionIsInLog
  <2> QED
    BY <2>2 DEF BadRevision
<1>9. Make(t, 0) = Entry(FakeConfig, t, 0, 0, {Old})
  BY DEF Make
<1>10. [Make(t, 0) EXCEPT !.rev = BadRevision] = Entry(FakeConfig, t, 0, BadRevision, {Old})
  BY <1>9 DEF Entry
<1>11. CASE n = 1
  <2>1. Refused(t)[n][1] = "POST" /\ Refused(t)[n][2] = Entry(FakeConfig, t, 0, 0, {Old})
    BY <1>9, <1>11 DEF Refused
  <2> QED
    BY <1>1, <1>6, <1>7, <2>1, WhenItSucceeds
<1>12. CASE n = 2
  <2>1. /\ Refused(t)[n][1] = "POST"
        /\ Refused(t)[n][2] = Entry(FakeConfig, NoNamespace, invalid, r, {})
    BY <1>0, <1>12 DEF Refused
  <2> QED
    BY <1>2, <1>3, <2>1 DEF Succeeds
<1>13. CASE n = 3
  <2>1. /\ Refused(t)[n][1] = "PUT"
        /\ Refused(t)[n][2] = Entry(FakeConfig, NoNamespace, invalid, r, {})
    BY <1>0, <1>13 DEF Refused
  <2> QED
    BY <1>2, <1>3, <2>1 DEF Succeeds
<1>14. CASE n = 4
  <2>1. /\ Refused(t)[n][1] = "PUT"
        /\ Refused(t)[n][2] = Entry(FakeConfig, NoNamespace, missing, r, {Old})
    BY <1>0, <1>14 DEF Refused
  <2> QED
    BY <1>1, <1>4, <2>1, WhenItSucceeds
<1>15. CASE n = 5
  <2>1. Refused(t)[n][1] = "PUT" /\ Refused(t)[n][2] = Entry(FakeConfig, t, 0, 0, {Old})
    BY <1>9, <1>15 DEF Refused
  <2> QED
    BY <1>1, <1>6, <2>1, WhenItSucceeds
<1>16. CASE n = 6
  <2>1. /\ Refused(t)[n][1] = "PUT"
        /\ Refused(t)[n][2] = Entry(FakeConfig, t, 0, BadRevision, {Old})
    BY <1>10, <1>16 DEF Refused
  <2> QED
    BY <1>1, <1>6, <1>8, <2>1, WhenItSucceeds
<1>17. CASE n = 7
  <2>1. Refused(t)[n][2] = Entry(MissingType, NoNamespace, missing, 0, {})
    BY <1>17 DEF Refused
  <2>2. Refused(t)[n][2].typ = MissingType
    BY <2>1 DEF Entry
  <2> QED
    BY <2>2, TypesAreKnown DEF Succeeds
<1>18. CASE n = 8
  <2>1. /\ Refused(t)[n][1] = "DELETE"
        /\ Refused(t)[n][2] = Entry(FakeConfig, NoNamespace, missing, r, {Old})
    BY <1>0, <1>18 DEF Refused
  <2> QED
    BY <1>1, <1>4, <2>1, WhenItSucceeds
<1> QED
  BY <1>11, <1>12, <1>13, <1>14, <1>15, <1>16, <1>17, <1>18

(* The refused calls change nothing.                                       *)
LEMMA RefuseKeeps ==
    ASSUME IInv, NEW t \in MapTests, Refuse(t)
    PROVE  IInv'
<1>0. "refuse" \in MapStatements /\ "list" \in MapStatements
  BY DEF MapStatements
<1>1. Len(Refused(t)) = 8
  BY DEF Refused
<1>2. PICK call, last : call = Refused(t)[next[t]] /\ last = (next[t] = Len(Refused(t)))
  OBVIOUS
<1>3. /\ pc[t] = "refuse" /\ Expect(t, ~Succeeds(call[1], call[2])) /\ Mutates(call[1], call[2])
      /\ next' = [next EXCEPT ![t] = IF last THEN @ ELSE @ + 1]
      /\ pc' = [pc EXCEPT ![t] = IF last THEN "list" ELSE @]
      /\ todo' = todo /\ revs' = revs
  BY <1>2 DEF Refuse
<1>4. next[t] \in 1..8 /\ next \in [Tests -> 1..8]
  BY MapTestIs DEF IInv
<1>5. ~Succeeds(call[1], call[2])
  BY <1>2, <1>3, <1>4, RefusedCallsFail
<1>6. log' = log /\ errors' = errors
  BY <1>3, <1>5, FailuresWriteNothing DEF Expect
<1>7. next' \in [Tests -> 1..8]
  <2>1. CASE last
    BY <1>3, <1>4, <2>1
  <2>2. CASE ~last
    <3>1. next[t] # 8
      BY <1>1, <1>2, <2>2
    <3>2. next[t] + 1 \in 1..8
      BY <1>4, <3>1
    <3> QED
      BY <1>3, <1>4, <2>2, <3>2
  <2> QED
    BY <2>1, <2>2
<1>8. PICK p, d, r : p = pc[t] /\ d = todo[t] /\ r = revs[t]
  OBVIOUS
<1>9. PICK q \in {"refuse", "list"} : q = IF last THEN "list" ELSE "refuse"
  OBVIOUS
<1>10. q \in MapStatements /\ p = "refuse"
  BY <1>0, <1>3, <1>8, <1>9
<1>11. /\ pc' = [pc EXCEPT ![t] = q] /\ todo' = [todo EXCEPT ![t] = d]
       /\ revs' = [revs EXCEPT ![t] = r]
  <2>1. CASE last
    BY <1>3, <1>8, <1>9, <2>1, MapTestIs
  <2>2. CASE ~last
    BY <1>3, <1>8, <1>9, <2>2, MapTestIs
  <2> QED
    BY <2>1, <2>2
<1>12. d \in SUBSET Elements /\ d # {} /\ d = Elements /\ r \in [Elements -> Nat]
  BY <1>3, <1>8, MapTestIs DEF AtStart
<1>13. /\ AtStart(q, d)
       /\ \A j \in Elements : Element(j, q, d) = Element(j, p, d)
       /\ \A j \in Elements : Current(j, q, d) => Current(j, p, d)
  BY <1>9, <1>10, <1>12 DEF AtStart, Element, Current
<1>14. \A j \in Elements : Current(j, p, d) => r[j] = RevisionOf(ElementKey(t, j))
  BY <1>8, MapTestIs
<1>15. \A j \in Elements : Current(j, q, d) => r[j] = RevisionOf(ElementKey(t, j))
  BY <1>13, <1>14
<1>16. p = pc[t] /\ d = todo[t] /\ AtStart(q, d)
       /\ \A j \in Elements : Element(j, q, d) = Element(j, p, d)
  BY <1>8, <1>13
<1>17. d \in SUBSET Elements /\ d # {} /\ r \in [Elements -> Nat] /\ q \in MapStatements
  BY <1>10, <1>12
<1> QED
  BY <1>6, <1>7, <1>11, <1>15, <1>16, <1>17, ReadingKeeps

(* The list of a map test holds its elements, and that of another type,    *)
(* or of a test that has deleted them, nothing.                            *)
LEMMA ListedElements ==
    ASSUME IInv, NEW t \in MapTests
    PROVE  /\ Listed(MissingType, t) = {}
           /\ pc[t] = "list" => Listed(FakeConfig, t) = {FakeConfig} \X ({t} \X Elements)
           /\ pc[t] = "relist" => Listed(FakeConfig, t) = {}
<1>1. Listed(MissingType, t) = {}
  BY TypesAreKnown DEF Listed, Found
<1>2. ASSUME NEW k \in {FakeConfig} \X Names, k[2][1] = t
      PROVE  k \in Keys /\ (k \in {ElementKey(t, i) : i \in Elements} \/ ObjectOf(k) = NoObject)
  BY <1>2, TypesAreKnown DEF IInv, MapIs, Keys
<1>3. ASSUME pc[t] = "list"
      PROVE  Listed(FakeConfig, t) = {FakeConfig} \X ({t} \X Elements)
  <2>1. ASSUME NEW i \in Elements
        PROVE  Found(ElementKey(t, i)) /\ ElementKey(t, i) \in Keys
    <3>1. ObjectOf(ElementKey(t, i)) = ObjectWith(FakeConfig, {Old}) /\ {Old} \in Bodies
      BY <1>3, MapTestIs DEF Element, AtStart, Bodies
    <3> QED
      BY <3>1, ElementIsRead, ElementKeys
  <2>2. ASSUME NEW k \in Listed(FakeConfig, t)
        PROVE  k \in {FakeConfig} \X ({t} \X Elements)
    <3>1. k \in {FakeConfig} \X Names /\ k[2][1] = t /\ ObjectOf(k) # NoObject
      BY DEF Listed, Found, Live
    <3>2. PICK i \in Elements : k = ElementKey(t, i)
      BY <1>2, <3>1
    <3> QED
      BY <3>2 DEF ElementKey
  <2>3. ASSUME NEW k \in {FakeConfig} \X ({t} \X Elements)
        PROVE  k \in Listed(FakeConfig, t)
    <3>1. PICK i \in Elements : k = <<FakeConfig, <<t, i>>>>
      OBVIOUS
    <3>2. k = ElementKey(t, i)
      BY <3>1 DEF ElementKey
    <3>3. Found(k) /\ k \in Keys
      BY <2>1, <3>2
    <3> QED
      BY <3>1, <3>3 DEF Listed, Keys
  <2> QED
    BY <2>2, <2>3
<1>4. ASSUME pc[t] = "relist"
      PROVE  Listed(FakeConfig, t) = {}
  <2>1. \A i \in Elements : ObjectOf(ElementKey(t, i)) = NoObject
    BY <1>4, MapTestIs DEF Element
  <2> QED
    BY <1>2, <2>1 DEF Listed, Found, Live
<1> QED
  BY <1>1, <1>3, <1>4

(* Listing all elements.                                                   *)
LEMMA ListAllKeeps ==
    ASSUME IInv, NEW t \in MapTests, ListAll(t)
    PROVE  IInv'
<1>0. "list" \in MapStatements /\ "update" \in MapStatements
  BY DEF MapStatements
<1>1. /\ pc[t] = "list" /\ pc' = [pc EXCEPT ![t] = "update"] /\ todo' = todo /\ next' = next
      /\ log' = log /\ revs' = revs
      /\ (/\ Listed(MissingType, t) = {}
          /\ ~Found(<<FakeConfig, <<NoNamespace, missing>>>>)
          /\ ~Found(<<MissingType, <<NoNamespace, missing>>>>)
          /\ Listed(FakeConfig, t) = {FakeConfig} \X ({t} \X Elements))
         => errors' = errors
  BY DEF ListAll, Then, Expect
<1>2. ~Found(<<FakeConfig, <<NoNamespace, missing>>>>)
  <2>1. PICK k : k = <<FakeConfig, <<NoNamespace, missing>>>>
    OBVIOUS
  <2>2. k \in Keys /\ k[2][1] = NoNamespace
    BY <2>1, KeysOfTests, TypesAreKnown
  <2> QED
    BY <2>1, <2>2 DEF IInv, NothingOutside, Live, Found
<1>3. ~Found(<<MissingType, <<NoNamespace, missing>>>>)
  BY TypesAreKnown DEF Found
<1>4. errors' = errors
  BY <1>1, <1>2, <1>3, ListedElements
<1>5. PICK p, d, r, q : p = pc[t] /\ d = todo[t] /\ r = revs[t] /\ q = "update"
  OBVIOUS
<1>6. p = "list" /\ d = Elements /\ d # {} /\ r \in [Elements -> Nat] /\ q \in MapStatements
  BY <1>0, <1>1, <1>5, MapTestIs DEF AtStart
<1>7. /\ pc' = [pc EXCEPT ![t] = q] /\ todo' = [todo EXCEPT ![t] = d]
      /\ revs' = [revs EXCEPT ![t] = r]
  BY <1>1, <1>5, MapTestIs
<1>8. /\ AtStart(q, d) /\ \A j \in Elements : Element(j, q, d) = Element(j, p, d)
      /\ \A j \in Elements : Current(j, p, d)
  BY <1>5, <1>6 DEF AtStart, Element, Current
<1>9. \A j \in Elements : Current(j, q, d) => r[j] = RevisionOf(ElementKey(t, j))
  BY <1>5, <1>8, MapTestIs
<1>10. /\ AtStart(q, d) /\ \A j \in Elements : Element(j, q, d) = Element(j, p, d)
       /\ p = pc[t] /\ d = todo[t]
  BY <1>5, <1>8
<1>11. d \in SUBSET Elements /\ d # {} /\ r \in [Elements -> Nat] /\ q \in MapStatements
  BY <1>6
<1>12. next' \in [Tests -> 1..8] /\ log' = log
  BY <1>1 DEF IInv
<1> QED
  BY <1>4, <1>7, <1>9, <1>10, <1>11, <1>12, ReadingKeeps

(* Listing after all elements are deleted.                                 *)
LEMMA ListNothingKeeps ==
    ASSUME IInv, NEW t \in MapTests, ListNothing(t)
    PROVE  IInv'
<1>0. "relist" \in MapStatements /\ "done" \in MapStatements
  BY DEF MapStatements
<1>1. /\ pc[t] = "relist" /\ pc' = [pc EXCEPT ![t] = "done"] /\ todo' = todo /\ next' = next
      /\ log' = log /\ revs' = revs
      /\ Listed(FakeConfig, t) = {} => errors' = errors
  BY DEF ListNothing, Then, Expect
<1>4. errors' = errors
  BY <1>1, ListedElements
<1>5. PICK p, d, r, q : p = pc[t] /\ d = todo[t] /\ r = revs[t] /\ q = "done"
  OBVIOUS
<1>6. p = "relist" /\ d = Elements /\ d # {} /\ r \in [Elements -> Nat] /\ q \in MapStatements
  BY <1>0, <1>1, <1>5, MapTestIs DEF AtStart
<1>7. /\ pc' = [pc EXCEPT ![t] = q] /\ todo' = [todo EXCEPT ![t] = d]
      /\ revs' = [revs EXCEPT ![t] = r]
  BY <1>1, <1>5, MapTestIs
<1>8. /\ AtStart(q, d) /\ \A j \in Elements : Element(j, q, d) = Element(j, p, d)
      /\ \A j \in Elements : ~Current(j, q, d)
  BY <1>5, <1>6 DEF AtStart, Element, Current
<1>9. \A j \in Elements : Current(j, q, d) => r[j] = RevisionOf(ElementKey(t, j))
  BY <1>8
<1>10. /\ AtStart(q, d) /\ \A j \in Elements : Element(j, q, d) = Element(j, p, d)
       /\ p = pc[t] /\ d = todo[t]
  BY <1>5, <1>8
<1>11. d \in SUBSET Elements /\ d # {} /\ r \in [Elements -> Nat] /\ q \in MapStatements
  BY <1>6
<1>12. next' \in [Tests -> 1..8] /\ log' = log
  BY <1>1 DEF IInv
<1> QED
  BY <1>4, <1>7, <1>9, <1>10, <1>11, <1>12, ReadingKeeps

-----------------------------------------------------------------------------
(* The statements of CheckBrokerConfigTypes. *)

(* What the invariant says of a type test.                                 *)
LEMMA TypeTestIs ==
    ASSUME IInv, NEW t \in TypeTests
    PROVE  /\ t \in Tests /\ t \notin MapTests /\ TypesAre(t, pc[t])
           /\ todo[t] \in SUBSET Elements /\ revs[t] \in [Elements -> Nat]
           /\ revs = [revs EXCEPT ![t] = revs[t]] /\ todo = [todo EXCEPT ![t] = todo[t]]
           /\ log \in Seq(StoreWrites) /\ LastWriteExists /\ errors = {}
           /\ next \in [Tests -> 1..8]
BY StoreTestsAssumption DEF IInv, Tests

(* A statement of a type test that goes on to q.                           *)
LEMMA TypeStepKeeps ==
    ASSUME IInv, NEW t \in TypeTests, WritesIn(t), NEW q \in TypeStatements,
           pc' = [pc EXCEPT ![t] = q], UNCHANGED <<todo, next, revs, errors>>, TypesAre(t, q)'
    PROVE  IInv'
<1>1. PICK d, r : d = todo[t] /\ r = revs[t]
  OBVIOUS
<1>2. /\ t \in Tests /\ t \notin MapTests /\ d \in SUBSET Elements /\ r \in [Elements -> Nat]
      /\ todo' = [todo EXCEPT ![t] = d] /\ revs' = [revs EXCEPT ![t] = r]
      /\ next' \in [Tests -> 1..8] /\ errors' = {}
      /\ q \in MapStatements \cup TypeStatements
  BY <1>1, TypeTestIs
<1> QED
  BY <1>2, StepOfTest

(* Creating a class or a plan: its key is free.                            *)
LEMMA CreateTypeKeeps ==
    ASSUME IInv, NEW t \in TypeTests, NEW typ \in {ServiceClass, ServicePlan},
           NEW at, NEW after \in TypeStatements, CreateType(t, typ, at, after),
           ObjectOf(<<typ, <<t, example>>>>) = NoObject,
           NEW other \in {ServiceClass, ServicePlan}, other # typ,
           /\ ObjectOf(<<typ, <<t, example>>>>)' = ObjectWith(typ, {Old})
           /\ ObjectOf(<<other, <<t, example>>>>)' = ObjectOf(<<other, <<t, example>>>>)
           => TypesAre(t, after)'
    PROVE  IInv'
<1>1. PICK k, o, b : k = <<typ, <<t, example>>>> /\ o = <<other, <<t, example>>>> /\ b = {Old}
  OBVIOUS
<1>2. typ \in Types /\ Known(typ) /\ b \in Bodies /\ t \in Tests \cup {NoNamespace}
      /\ k \in Keys /\ o \in Keys /\ k # o
  BY <1>1, TypesAreKnown, KeysOfTests DEF Bodies, Tests
<1>3. ~Live(k)
  BY <1>1 DEF Live
<1>4. Succeeds("POST", Entry(typ, t, example, 0, b))
  BY <1>1, <1>2, <1>3, WhenItSucceeds
<1>5. /\ pc' = [pc EXCEPT ![t] = after] /\ UNCHANGED <<todo, next, revs, errors>>
      /\ Mutates("POST", Entry(typ, t, example, 0, b))
  BY <1>1, <1>4 DEF CreateType, Then, Expect
<1>6. PICK w \in StoreWrites : /\ log' = Append(log, w) /\ w.key = <<typ, <<t, example>>>>
                               /\ w.obj = WrittenObject("POST", typ, b)
  <2>1. example \in Elements \cup {invalid, missing, example}
    OBVIOUS
  <2> QED
    BY <1>2, <1>4, <1>5, <2>1, WhatItWrites
<1>7. w.obj = ObjectWith(typ, {Old}) /\ w.key = k
  BY <1>1, <1>6 DEF WrittenObject
<1>8. WritesIn(t)
  BY <1>6 DEF WritesIn
<1>9. ObjectOf(k)' = ObjectWith(typ, {Old}) /\ ObjectOf(o)' = ObjectOf(o)
  BY <1>2, <1>6, <1>7, TypeTestIs, KeyAfterWrite
<1>10. TypesAre(t, after)'
  BY <1>1, <1>9
<1> QED
  BY <1>5, <1>8, <1>10, TypeStepKeeps

(* Reading it back.                                                        *)
LEMMA ReadTypeKeeps ==
    ASSUME IInv, NEW t \in TypeTests, NEW typ \in {ServiceClass, ServicePlan},
           NEW at, NEW after \in TypeStatements, ReadType(t, typ, at, after),
           ObjectOf(<<typ, <<t, example>>>>) = ObjectWith(typ, {Old}),
           /\ ObjectOf(<<ServiceClass, <<t, example>>>>)' = ObjectOf(<<ServiceClass, <<t, example>>>>)
           /\ ObjectOf(<<ServicePlan, <<t, example>>>>)' = ObjectOf(<<ServicePlan, <<t, example>>>>)
           => TypesAre(t, after)'
    PROVE  IInv'
<1>1. PICK k, b : k = <<typ, <<t, example>>>> /\ b = {Old}
  OBVIOUS
<1>2. typ \in Types /\ Known(typ) /\ b \in Bodies
  BY <1>1, TypesAreKnown DEF Bodies
<1>3. Found(k) /\ Stored(k) = Entry(typ, t, example, RevisionOf(k), b)
  BY <1>1, <1>2, ReadsBack
<1>4. Stored(k).spec = Entry(typ, t, example, 0, b).spec
  BY <1>3 DEF Entry
<1>5. /\ pc' = [pc EXCEPT ![t] = after] /\ log' = log /\ UNCHANGED <<todo, next, revs, errors>>
  BY <1>1, <1>3, <1>4 DEF ReadType, Then, Expect
<1>6. ASSUME NEW other \in {ServiceClass, ServicePlan}
      PROVE  ObjectOf(<<other, <<t, example>>>>)' = ObjectOf(<<other, <<t, example>>>>)
  <2>1. PICK o : o = <<other, <<t, example>>>>
    OBVIOUS
  <2>2. o \in Keys
    BY <2>1, TypesAreKnown, KeysOfTests DEF Tests
  <2>3. ObjectOf(o)' = ObjectOf(o)
    BY <1>5, <2>2, TypeTestIs, OtherKeysStay
  <2> QED
    BY <2>1, <2>3
<1>7. TypesAre(t, after)'
  BY <1>6
<1>8. WritesIn(t)
  BY <1>5 DEF WritesIn
<1> QED
  BY <1>5, <1>7, <1>8, TypeStepKeeps

(* Each of the four statements.                                            *)
LEMMA TypeTestsKeep ==
    ASSUME IInv, NEW t \in TypeTests, CheckBrokerConfigTypes(t)
    PROVE  IInv'
<1>0. /\ "readclass" \in TypeStatements /\ "plan" \in TypeStatements
      /\ "readplan" \in TypeStatements /\ "done" \in TypeStatements
  BY DEF TypeStatements
<1>1. ServiceClass # ServicePlan /\ TypesAre(t, pc[t])
  BY StoreTestsAssumption, TypeTestIs
<1>2. CASE CreateType(t, ServiceClass, "class", "readclass")
  <2>1. pc[t] = "class"
    BY <1>2 DEF CreateType, Then
  <2>2. ObjectOf(<<ServiceClass, <<t, example>>>>) = NoObject
        /\ ObjectOf(<<ServicePlan, <<t, example>>>>) = NoObject
    BY <1>1, <2>1 DEF TypesAre
  <2>3. /\ ObjectOf(<<ServiceClass, <<t, example>>>>)' = ObjectWith(ServiceClass, {Old})
        /\ ObjectOf(<<ServicePlan, <<t, example>>>>)' = ObjectOf(<<ServicePlan, <<t, example>>>>)
        => TypesAre(t, "readclass")'
    BY <1>0, <2>2 DEF TypesAre
  <2> QED
    BY <1>0, <1>1, <1>2, <2>2, <2>3, CreateTypeKeeps
<1>3. CASE ReadType(t, ServiceClass, "readclass", "plan")
  <2>1. pc[t] = "readclass"
    BY <1>3 DEF ReadType, Then
  <2>2. ObjectOf(<<ServiceClass, <<t, example>>>>) = ObjectWith(ServiceClass, {Old})
        /\ ObjectOf(<<ServicePlan, <<t, example>>>>) = NoObject
    BY <1>1, <2>1 DEF TypesAre
  <2>3. /\ ObjectOf(<<ServiceClass, <<t, example>>>>)' = ObjectOf(<<ServiceClass, <<t, example>>>>)
        /\ ObjectOf(<<ServicePlan, <<t, example>>>>)' = ObjectOf(<<ServicePlan, <<t, example>>>>)
        => TypesAre(t, "plan")'
    BY <1>0, <2>2 DEF TypesAre
  <2> QED
    BY <1>0, <1>3, <2>2, <2>3, ReadTypeKeeps
<1>4. CASE CreateType(t, ServicePlan, "plan", "readplan")
  <2>1. pc[t] = "plan"
    BY <1>4 DEF CreateType, Then
  <2>2. ObjectOf(<<ServiceClass, <<t, example>>>>) = ObjectWith(ServiceClass, {Old})
        /\ ObjectOf(<<ServicePlan, <<t, example>>>>) = NoObject
    BY <1>1, <2>1 DEF TypesAre
  <2>3. /\ ObjectOf(<<ServicePlan, <<t, example>>>>)' = ObjectWith(ServicePlan, {Old})
        /\ ObjectOf(<<ServiceClass, <<t, example>>>>)' = ObjectOf(<<ServiceClass, <<t, example>>>>)
        => TypesAre(t, "readplan")'
    BY <1>0, <2>2 DEF TypesAre
  <2> QED
    BY <1>0, <1>1, <1>4, <2>2, <2>3, CreateTypeKeeps
<1>5. CASE ReadType(t, ServicePlan, "readplan", "done")
  <2>1. pc[t] = "readplan"
    BY <1>5 DEF ReadType, Then
  <2>2. ObjectOf(<<ServiceClass, <<t, example>>>>) = ObjectWith(ServiceClass, {Old})
        /\ ObjectOf(<<ServicePlan, <<t, example>>>>) = ObjectWith(ServicePlan, {Old})
    BY <1>1, <2>1 DEF TypesAre
  <2>3. /\ ObjectOf(<<ServiceClass, <<t, example>>>>)' = ObjectOf(<<ServiceClass, <<t, example>>>>)
        /\ ObjectOf(<<ServicePlan, <<t, example>>>>)' = ObjectOf(<<ServicePlan, <<t, example>>>>)
        => TypesAre(t, "done")'
    BY <1>0, <2>2 DEF TypesAre
  <2> QED
    BY <1>0, <1>5, <2>2, <2>3, ReadTypeKeeps
<1> QED
  BY <1>2, <1>3, <1>4, <1>5 DEF CheckBrokerConfigTypes

-----------------------------------------------------------------------------
(* The theorems *)

(* Before the tests the store is empty.                                    *)
LEMMA InitialTests == Init => IInv
<1> SUFFICES ASSUME Init
             PROVE  IInv
  OBVIOUS
<1>1. log = << >> /\ Len(log) = 0 /\ log \in Seq(StoreWrites)
  BY DEF Init
<1>2. ASSUME NEW k \in Keys
      PROVE  ObjectOf(k) = NoObject /\ IsLastWrite(0, 0, k)
  <2>1. IsLastWrite(0, 0, k)
    BY DEF IsLastWrite
  <2>2. RevisionAt(0, k) = 0
    BY <2>1 DEF RevisionAt
  <2> QED
    BY <1>1, <2>1, <2>2 DEF ObjectOf, ObjectAt
<1>3. LastWriteExists
  BY <1>1, <1>2 DEF LastWriteExists
<1>4. \A t \in Tests : t \in MapTests => t \notin TypeTests
  BY StoreTestsAssumption
<1>5. /\ pc \in [Tests -> MapStatements \cup TypeStatements]
      /\ todo \in [Tests -> SUBSET Elements]
      /\ next \in [Tests -> 1..8]
      /\ revs \in [Tests -> [Elements -> Nat]]
  BY DEF Init, MapStatements, TypeStatements
<1>6. ASSUME NEW t \in MapTests
      PROVE  MapIs(t, pc[t], todo[t], revs[t])
  <2>1. pc[t] = "post" /\ todo[t] = Elements /\ revs[t] \in [Elements -> Nat] /\ Elements # {}
    BY <1>5, ElementsAreNumbers DEF Init, Tests
  <2>2. \A i \in Elements : ObjectOf(ElementKey(t, i)) = NoObject
    BY <1>2, ElementKeys
  <2> QED
    BY <1>2, <2>1, <2>2 DEF MapIs, AtStart, Element, Current, MapStatements
<1>7. ASSUME NEW t \in TypeTests
      PROVE  TypesAre(t, pc[t])
  <2>1. pc[t] = "class"
    BY <1>4 DEF Init, Tests
  <2>2. ASSUME NEW typ \in {ServiceClass, ServicePlan}
        PROVE  ObjectOf(<<typ, <<t, example>>>>) = NoObject
    <3>1. PICK k : k = <<typ, <<t, example>>>>
      OBVIOUS
    <3>2. k \in Keys
      BY <3>1, TypesAreKnown, KeysOfTests DEF Tests
    <3> QED
      BY <1>2, <3>1, <3>2
  <2> QED
    BY <2>1, <2>2 DEF TypesAre, TypeStatements
<1> QED
  BY <1>1, <1>2, <1>3, <1>5, <1>6, <1>7 DEF IInv, Init, NothingOutside

(* Every step of every test keeps the invariant.                           *)
LEMMA TestsKeep == IInv /\ [Next]_vars => IInv'
<1> SUFFICES ASSUME IInv, [Next]_vars
             PROVE  IInv'
  OBVIOUS
<1>1. ASSUME NEW t \in MapTests, CheckMapInvariant(t)
      PROVE  IInv'
  BY <1>1, PostAllKeeps, ReadCreatedKeeps, RefuseKeeps, ListAllKeeps, UpdateAllKeeps,
     ReadUpdatedKeeps, DeleteAllKeeps, ListNothingKeeps DEF CheckMapInvariant
<1>2. CASE UNCHANGED vars
  <2>1. WritesIn(NoNamespace) /\ log \in Seq(StoreWrites) /\ LastWriteExists
    BY <1>2 DEF WritesIn, vars, IInv
  <2>2. log' \in Seq(StoreWrites) /\ LastWriteExists'
    BY <2>1, LogOfStep
  <2>3. pc' = pc /\ todo' = todo /\ next' = next /\ revs' = revs /\ errors' = errors /\ log' = log
    BY <1>2 DEF vars
  <2>4. NothingOutside'
    BY <2>1, <2>3, OtherKeysStay DEF NothingOutside, IInv
  <2>5. ASSUME NEW t \in MapTests
        PROVE  MapIs(t, pc[t], todo[t], revs[t])'
    <3>1. PICK p, d, r : p = pc[t] /\ d = todo[t] /\ r = revs[t]
      OBVIOUS
    <3>2. MapIs(t, p, d, r) /\ t # NoNamespace
      BY <3>1, StoreTestsAssumption DEF IInv, Tests
    <3>3. MapIs(t, p, d, r)'
      BY <2>1, <3>2, OtherMapTestsStay
    <3> QED
      BY <2>3, <3>1, <3>3
  <2>6. ASSUME NEW t \in TypeTests
        PROVE  TypesAre(t, pc[t])'
    <3>1. PICK p : p = pc[t]
      OBVIOUS
    <3>2. TypesAre(t, p) /\ t # NoNamespace
      BY <3>1, StoreTestsAssumption DEF IInv, Tests
    <3>3. TypesAre(t, p)'
      BY <2>1, <3>2, OtherTypeTestsStay
    <3> QED
      BY <2>3, <3>1, <3>3
  <2> QED
    BY <2>2, <2>3, <2>4, <2>5, <2>6 DEF IInv
<1> QED
  BY <1>1, <1>2, TypeTestsKeep DEF Next

(* The store passes CheckMapInvariant and CheckBrokerConfigTypes           *)
(* (config.go:78-279) however many tests run at once, with however many    *)
(* elements, in every interleaving and every order of the loops.           *)
THEOREM TheTestsPass == Spec => []TestsPass
<1>1. IInv => TestsPass
  BY DEF IInv, TestsPass
<1> QED
  BY <1>1, InitialTests, TestsKeep, PTL DEF Spec

(* Tests do not disturb each other: what one has read in its namespace     *)
(* stays current while the others go on and while its refused calls are    *)
(* refused, and when it is done it leaves nothing (config.go:94-243).      *)
THEOREM TheTestsAreIsolated == Spec => []TestsAreIsolated
<1>1. ASSUME IInv
      PROVE  TestsAreIsolated
  <2>1. ASSUME NEW t \in MapTests, pc[t] \in {"refuse", "list"}, NEW i \in Elements
        PROVE  revs[t][i] = RevisionOf(<<FakeConfig, <<t, i>>>>)
    BY <1>1, <2>1, MapTestIs DEF Current, ElementKey
  <2>2. ASSUME NEW t \in MapTests, pc[t] = "done", NEW k \in Keys, k[2][1] = t
        PROVE  ~Live(k)
    <3>1. \A i \in Elements : ObjectOf(ElementKey(t, i)) = NoObject
      BY <1>1, <2>2, MapTestIs DEF Element
    <3>2. k \in {ElementKey(t, i) : i \in Elements} \/ ObjectOf(k) = NoObject
      BY <1>1, <2>2 DEF IInv, MapIs
    <3> QED
      BY <3>1, <3>2 DEF Live
  <2> QED
    BY <2>1, <2>2 DEF TestsAreIsolated
<1> QED
  BY <1>1, InitialTests, TestsKeep, PTL DEF Spec
=============================================================================
