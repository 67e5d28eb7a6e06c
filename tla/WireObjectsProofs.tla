-------------------------- MODULE WireObjectsProofs --------------------------
(***************************************************************************)
(* Proofs about WireObjects, for every number of goroutines, types and     *)
(* values.  The argument is ownership: the objects and maps a goroutine    *)
(* writes lie at addresses that no other goroutine and no prototype has,   *)
(* and what lies there refers to nothing else.  A step of one goroutine    *)
(* then keeps everything that is known of the others (StepIsLocal), and    *)
(* what is known of a goroutine at each statement follows from its own     *)
(* steps alone.                                                            *)
(***************************************************************************)
EXTENDS WireObjects, SequenceTheorems, TLAPS

(* The addresses and references that goroutine g makes.                    *)
Own(g) == {Fresh(g, n) : n \in {"out", "obj", "json"}} \cup {Item(g, i) : i \in 1..MaxItems}

(* No prototype is ever written.                                           *)
PrototypesAreEmpty == \A a \in Prototypes : object[a] = Empty(a)

(* g's pointers point to its own structs, and from those there is no way   *)
(* to anything that is not g's.                                            *)
Closed(g) ==
    /\ out[g] = Fresh(g, "out") /\ obj[g] = Fresh(g, "obj")
    /\ \A a \in Own(g) \cap Addresses :
          /\ object[a].spec \in Own(g) \cup {Nil}
          /\ \A i \in DOMAIN object[a].items : object[a].items[i] \in Own(g)

(* The struct at a and its map are value v.                                *)
Holds(a, r, v) == object[a].meta = v.meta /\ object[a].spec = r /\ map[r] = v.spec

(* Which method g can be in at its statement, and how far its answer and   *)
(* its result are.                                                         *)
Progress(g) ==
    /\ pc[g] # "idle" => op[g] \in {"Get", "List", "Create"} \X Types
    /\ pc[g] \in {"convert", "setMeta", "setSpec"} => op[g][1] = "Create"
    /\ pc[g] \in {"decodeMeta", "decodeSpec"} => op[g][1] # "List" /\ Len(reply[g]) = 1
    /\ pc[g] = "decodeItems" => op[g][1] = "List"
    /\ pc[g] = "convertItem" => op[g][1] # "Create"
    /\ pc[g] \in {"idle", "convert", "setMeta", "setSpec", "copy", "send"} => reply[g] = << >>
    /\ pc[g] \notin {"convertItem", "return"} => got[g] = << >>
    /\ Len(reply[g]) <= MaxItems \/ op[g][1] # "List"
    /\ Len(got[g]) <= Len(reply[g])
    /\ \A i \in DOMAIN got[g] : got[g][i] = reply[g][i]
    /\ pc[g] = "return" => (op[g][1] # "Create" => got[g] = reply[g])

(* What the object that Create sends holds at each statement.              *)
Outgoing(g) ==
    pc[g] # "idle" /\ op[g][1] = "Create" =>
        /\ entry[g] \in Values
        /\ pc[g] \in {"setMeta", "setSpec", "copy", "send"} =>
              map[Fresh(g, "json")] = entry[g].spec
        /\ pc[g] \in {"setSpec", "copy", "send"} =>
              object[Fresh(g, "out")].meta = entry[g].meta
        /\ pc[g] \in {"copy", "send"} =>
              object[Fresh(g, "out")].spec = Fresh(g, "json")
        /\ pc[g] = "decodeMeta" => sent[g] = entry[g]

(* What the object that the answer is read into holds at each statement.   *)
Incoming(g) ==
    /\ pc[g] \in {"send", "decodeMeta", "decodeSpec"} => object[Fresh(g, "obj")].spec = Nil
    /\ pc[g] = "decodeSpec" => object[Fresh(g, "obj")].meta = reply[g][1].meta
    /\ pc[g] = "convertItem" /\ op[g][1] = "Get" =>
          Len(reply[g]) = 1 /\ Holds(Fresh(g, "obj"), Fresh(g, "obj"), reply[g][1])
    /\ pc[g] = "convertItem" /\ op[g][1] = "List" =>
          /\ object[Fresh(g, "obj")].items = [i \in DOMAIN reply[g] |-> Item(g, i)]
          /\ \A i \in DOMAIN reply[g] : Holds(Item(g, i), Item(g, i), reply[g][i])

Local(g) == Closed(g) /\ Progress(g) /\ Outgoing(g) /\ Incoming(g)

(* The inductive invariant.                                                *)
IInv == TypeOK /\ PrototypesAreEmpty /\ \A g \in Goroutines : Local(g)

(* A step of g leaves what is not g's as it is.                            *)
Frame(g) ==
    /\ \A a \in Addresses \ Own(g) : object'[a] = object[a]
    /\ \A r \in References \ Own(g) : map'[r] = map[r]
    /\ \A h \in Goroutines \ {g} :
          /\ pc'[h] = pc[h] /\ op'[h] = op[h] /\ out'[h] = out[h] /\ obj'[h] = obj[h]
          /\ entry'[h] = entry[h] /\ sent'[h] = sent[h] /\ reply'[h] = reply[h]
          /\ got'[h] = got[h]

-----------------------------------------------------------------------------
(* Addresses and values *)

(***************************************************************************)
(* No two structs or maps have the same address: not two prototypes and a  *)
(* goroutine's copies, not two goroutines' copies, not two copies of one.  *)
(***************************************************************************)
LEMMA AddressesAreDistinct ==
    ASSUME NEW g \in Goroutines
    PROVE  /\ Own(g) \cap Prototypes = {}
           /\ \A h \in Goroutines \ {g} : Own(g) \cap Own(h) = {}
           /\ Fresh(g, "out") # Fresh(g, "obj") /\ Fresh(g, "json") \notin Addresses
           /\ \A i \in 1..MaxItems :
                 /\ Item(g, i) \in Own(g) /\ Item(g, i) \in Addresses
                 /\ Item(g, i)[3] = i
                 /\ Item(g, i) # Fresh(g, "out") /\ Item(g, i) # Fresh(g, "obj")
                 /\ Item(g, i) # Fresh(g, "json")
           /\ Fresh(g, "out") \in Own(g) /\ Fresh(g, "out") \in Addresses
           /\ Fresh(g, "obj") \in Own(g) /\ Fresh(g, "obj") \in Addresses
           /\ Fresh(g, "json") \in Own(g) /\ Fresh(g, "json") \in References
           /\ Own(g) \subseteq References /\ Addresses \subseteq References
           /\ Prototypes \subseteq Addresses
           /\ Nil \notin References
<1>1. \A h, k \in Goroutines, n, m \in {"out", "obj", "json"} :
         Fresh(h, n) = Fresh(k, m) => h = k /\ n = m
  BY DEF Fresh
<1>2. \A h, k \in Goroutines, i, j \in 1..MaxItems :
         Item(h, i) = Item(k, j) => h = k /\ i = j
  BY DEF Item
<1>3. \A h \in Goroutines, n \in {"out", "obj", "json"}, t \in Types, kind \in {"object", "collection"} :
         Fresh(h, n) # Prototype(kind, t)
  BY WireObjectsAssumption DEF Fresh, Prototype
<1>4. \A h, k \in Goroutines, i \in 1..MaxItems, n \in {"out", "obj", "json"} :
         Item(h, i) # Fresh(k, n)
  <2>1. \A a, b, c, d, e : <<a, b, c>> # <<d, e>>
    <3>1. \A a, b, c, d, e : Len(<<a, b, c>>) = 3 /\ Len(<<d, e>>) = 2
      OBVIOUS
    <3>. QED  BY <3>1
  <2>. QED  BY <2>1 DEF Item, Fresh
<1>5. \A h \in Goroutines, i \in 1..MaxItems, t \in Types, kind \in {"object", "collection"} :
         Item(h, i) # Prototype(kind, t)
  <2>1. \A a, b, c, d, e : <<a, b, c>> # <<d, e>>
    <3>1. \A a, b, c, d, e : Len(<<a, b, c>>) = 3 /\ Len(<<d, e>>) = 2
      OBVIOUS
    <3>. QED  BY <3>1
  <2>. QED  BY <2>1 DEF Item, Prototype
<1>6. Own(g) \cap Prototypes = {}
  BY <1>3, <1>5 DEF Own, Prototypes
<1>7. \A h \in Goroutines \ {g} : Own(g) \cap Own(h) = {}
  <2>. SUFFICES ASSUME NEW h \in Goroutines \ {g}, NEW a \in Own(g), a \in Own(h)
                PROVE  FALSE
    OBVIOUS
  <2>1. CASE \E n \in {"out", "obj", "json"} : a = Fresh(g, n)
    BY <2>1, <1>1, <1>4 DEF Own
  <2>2. CASE \E i \in 1..MaxItems : a = Item(g, i)
    BY <2>2, <1>2, <1>4 DEF Own
  <2>. QED  BY <2>1, <2>2 DEF Own
<1>8. Fresh(g, "out") # Fresh(g, "obj") /\ Fresh(g, "json") \notin Addresses
  BY <1>1, <1>3, <1>4 DEF Addresses, Prototypes
<1>9. \A i \in 1..MaxItems :
         /\ Item(g, i) \in Own(g) /\ Item(g, i) \in Addresses
         /\ Item(g, i)[3] = i
         /\ Item(g, i) # Fresh(g, "out") /\ Item(g, i) # Fresh(g, "obj")
         /\ Item(g, i) # Fresh(g, "json")
  <2>1. \A i : Item(g, i)[3] = i
    BY DEF Item
  <2>. QED  BY <2>1, <1>4 DEF Own, Addresses
<1>10. /\ Fresh(g, "out") \in Own(g) /\ Fresh(g, "out") \in Addresses
       /\ Fresh(g, "obj") \in Own(g) /\ Fresh(g, "obj") \in Addresses
       /\ Fresh(g, "json") \in Own(g) /\ Fresh(g, "json") \in References
       /\ Own(g) \subseteq References /\ Addresses \subseteq References
       /\ Prototypes \subseteq Addresses
  BY DEF Own, Addresses, References
<1>. QED  BY <1>6, <1>7, <1>8, <1>9, <1>10, WireObjectsAssumption

(* A value is a record of its meta and its spec, which have their types.   *)
LEMMA ValueIsRecord ==
    ASSUME NEW v \in Values
    PROVE  /\ v = [meta |-> v.meta, spec |-> v.spec]
           /\ v.meta \in Metas
           /\ v.spec \in SUBSET UNION {w.spec : w \in Values}
BY WireObjectsAssumption DEF Metas

(***************************************************************************)
(* An assignment to one struct, or to one map, has the right type and      *)
(* leaves the others.                                                      *)
(***************************************************************************)
LEMMA ObjectAssigned ==
    ASSUME TypeOK, NEW a \in Addresses, NEW v \in Structs,
           object' = [object EXCEPT ![a] = v]
    PROVE  /\ object' \in [Addresses -> Structs]
           /\ object'[a] = v
           /\ \A b \in Addresses : b # a => object'[b] = object[b]
<1>1. object \in [Addresses -> Structs]
  BY DEF TypeOK
<1>. QED  BY <1>1

\* Of an assignment to the metadata of an object: it, and nothing else, is changed.
LEMMA MetaAssigned ==
    ASSUME TypeOK, NEW a \in Addresses, NEW m \in Metas,
           object' = [object EXCEPT ![a].meta = m]
    PROVE  /\ object' \in [Addresses -> Structs]
           /\ object'[a].meta = m
           /\ object'[a].spec = object[a].spec /\ object'[a].items = object[a].items
           /\ \A b \in Addresses : b # a => object'[b] = object[b]
<1>1. object \in [Addresses -> [meta : Metas \cup {NoMeta}, spec : References \cup {Nil},
                                items : Seq(Addresses)]]
  BY DEF TypeOK, Structs
<1>. QED  BY <1>1 DEF Structs

\* Of an assignment to the Spec field of an object: it, and nothing else, is changed.
LEMMA SpecAssigned ==
    ASSUME TypeOK, NEW a \in Addresses, NEW r \in References,
           object' = [object EXCEPT ![a].spec = r]
    PROVE  /\ object' \in [Addresses -> Structs]
           /\ object'[a].spec = r
           /\ object'[a].meta = object[a].meta /\ object'[a].items = object[a].items
           /\ \A b \in Addresses : b # a => object'[b] = object[b]
<1>1. object \in [Addresses -> [meta : Metas \cup {NoMeta}, spec : References \cup {Nil},
                                items : Seq(Addresses)]]
  BY DEF TypeOK, Structs
<1>. QED  BY <1>1 DEF Structs

\* Of a write into a map: it, and no other map, is changed.
LEMMA MapAssigned ==
    ASSUME TypeOK, NEW r \in References, NEW v \in Values,
           map' = [map EXCEPT ![r] = v.spec]
    PROVE  /\ map' \in [References -> SUBSET UNION {w.spec : w \in Values}]
           /\ map'[r] = v.spec
           /\ \A s \in References : s # r => map'[s] = map[s]
<1>1. map \in [References -> SUBSET UNION {w.spec : w \in Values}]
  BY DEF TypeOK
<1>2. v.spec \in SUBSET UNION {w.spec : w \in Values}
  BY ValueIsRecord
<1>. HIDE DEF TypeOK
<1>. QED  BY <1>1, <1>2

-----------------------------------------------------------------------------
(* One goroutine's step seen from another *)

(***************************************************************************)
(* What is known of goroutine h stays true when another goroutine writes   *)
(* only what is its own.                                                   *)
(***************************************************************************)
LEMMA StepIsLocal ==
    ASSUME TypeOK, NEW g \in Goroutines, NEW h \in Goroutines \ {g}, Frame(g), Local(h)
    PROVE  Local(h)'
<1>1. Own(h) \cap Own(g) = {} /\ Own(h) \subseteq References
  BY AddressesAreDistinct
<1>2. /\ \A a \in Own(h) \cap Addresses : object'[a] = object[a]
      /\ \A r \in Own(h) : map'[r] = map[r]
  BY <1>1 DEF Frame
<1>3. /\ pc'[h] = pc[h] /\ op'[h] = op[h] /\ out'[h] = out[h] /\ obj'[h] = obj[h]
      /\ entry'[h] = entry[h] /\ sent'[h] = sent[h] /\ reply'[h] = reply[h] /\ got'[h] = got[h]
  BY DEF Frame
<1>4. Closed(h)'
  BY <1>2, <1>3 DEF Local, Closed
<1>5. Progress(h)'
  BY <1>3 DEF Local, Progress
<1>6. Outgoing(h)'
  BY <1>2, <1>3, AddressesAreDistinct DEF Local, Outgoing
<1>7. Incoming(h)'
  <2>1. /\ Fresh(h, "obj") \in Own(h) \cap Addresses
        /\ \A i \in 1..MaxItems : Item(h, i) \in Own(h) \cap Addresses
    BY AddressesAreDistinct
  <2>2. ASSUME pc[h] = "convertItem", op[h][1] = "List", NEW i \in DOMAIN reply[h]
        PROVE  Item(h, i) \in Own(h) \cap Addresses
    <3>1. reply[h] \in Seq(Values)
      BY DEF TypeOK
    <3>2. DOMAIN reply[h] = 1..Len(reply[h]) /\ Len(reply[h]) \in Nat
      BY <3>1, LenProperties
    <3>3. Len(reply[h]) <= MaxItems
      BY <2>2 DEF Local, Progress
    <3>4. i \in 1..MaxItems
      BY <3>2, <3>3, WireObjectsAssumption
    <3>. QED  BY <3>4, <2>1
  <2>3. Incoming(h)
    BY DEF Local
  <2>. QED  BY <1>2, <1>3, <2>1, <2>2, <2>3 DEF Incoming, Holds
<1>. QED  BY <1>4, <1>5, <1>6, <1>7 DEF Local

-----------------------------------------------------------------------------
(* One lemma per statement *)

(* What each lemma shows of a step of goroutine g.                         *)
StepKeeps(g) == TypeOK' /\ Frame(g) /\ Local(g)'

(* In a method, g knows which one and for which type.                      *)
LEMMA InMethod ==
    ASSUME IInv, NEW g \in Goroutines, pc[g] # "idle"
    PROVE  /\ op[g] \in {"Get", "List", "Create"} \X Types
           /\ op[g][1] \in {"Get", "List", "Create"} /\ op[g][2] \in Types
           /\ \A kind \in {"object", "collection"} :
                 LET from == Prototype(kind, op[g][2])
                 IN  from \in Prototypes /\ from \in Addresses /\ object[from] = Empty(from)
<1>1. op[g] \in {"Get", "List", "Create"} \X Types
  BY DEF IInv, Local, Progress
<1>2. op[g][1] \in {"Get", "List", "Create"} /\ op[g][2] \in Types
  BY <1>1
<1>3. \A kind \in {"object", "collection"} : Prototype(kind, op[g][2]) \in Prototypes
  BY <1>2 DEF Prototypes
<1>. QED  BY <1>1, <1>2, <1>3, AddressesAreDistinct DEF IInv, PrototypesAreEmpty

(* A method is called: nothing but pc, op and the entry changes.           *)
LEMMA CallKeeps ==
    ASSUME IInv, NEW g \in Goroutines, Get(g) \/ List(g) \/ Create(g)
    PROVE  StepKeeps(g)
<1>0. TypeOK /\ Local(g)
  BY DEF IInv
<1>1. PICK method \in {"Get", "List", "Create"}, first \in {"copy", "convert"}, t \in Types :
         /\ pc[g] = "idle" /\ pc' = [pc EXCEPT ![g] = first]
         /\ op' = [op EXCEPT ![g] = <<method, t>>]
         /\ method = "Create" <=> first = "convert"
         /\ UNCHANGED <<object, map, out, obj, sent, reply, got>>
         /\ \/ entry' = entry /\ method # "Create"
            \/ \E e \in Values : entry' = [entry EXCEPT ![g] = e]
  BY DEF Get, List, Create, Call, At
<1>2. op' \in [Goroutines -> ({"Get", "List", "Create"} \X Types) \cup {<< >>}]
  <2>1. <<method, t>> \in {"Get", "List", "Create"} \X Types
    OBVIOUS
  <2>. QED  BY <1>0, <1>1, <2>1 DEF TypeOK
<1>3. TypeOK'
  <2>1. pc' \in [Goroutines -> Statements]
    BY <1>0, <1>1 DEF TypeOK, Statements
  <2>2. entry' \in [Goroutines -> Values \cup {Nil}]
    BY <1>0, <1>1 DEF TypeOK
  <2>. QED  BY <1>0, <1>1, <1>2, <2>1, <2>2 DEF TypeOK
<1>4. Frame(g)
  BY <1>0, <1>1 DEF TypeOK, Frame
<1>5. /\ pc'[g] = first /\ op'[g] = <<method, t>> /\ op'[g][1] = method
      /\ op'[g] \in {"Get", "List", "Create"} \X Types
      /\ method = "Create" => entry'[g] \in Values
  BY <1>0, <1>1 DEF TypeOK
<1>6. Closed(g)'
  BY <1>0, <1>1 DEF Local, Closed
<1>7. Progress(g)'
  <2>1. reply'[g] = << >> /\ got'[g] = << >>
    BY <1>0, <1>1 DEF Local, Progress
  <2>2. Len(reply'[g]) = 0 /\ Len(got'[g]) = 0 /\ DOMAIN got'[g] = {}
    BY <2>1
  <2>3. pc'[g] \in {"convert", "setMeta", "setSpec"} => op'[g][1] = "Create"
    BY <1>1, <1>5
  <2>4. pc'[g] \notin {"decodeMeta", "decodeSpec", "decodeItems", "convertItem", "return"}
    BY <1>1, <1>5
  <2>5. Len(reply'[g]) <= MaxItems
    BY <2>2, WireObjectsAssumption
  <2>6. Len(got'[g]) <= Len(reply'[g]) /\ \A i \in DOMAIN got'[g] : got'[g][i] = reply'[g][i]
    BY <2>2
  <2>. QED  BY <1>5, <2>1, <2>3, <2>4, <2>5, <2>6 DEF Progress
<1>8. Outgoing(g)'
  BY <1>0, <1>1, <1>5 DEF Outgoing
<1>9. Incoming(g)'
  BY <1>0, <1>1, <1>5 DEF Incoming
<1>. QED  BY <1>3, <1>4, <1>6, <1>7, <1>8, <1>9 DEF StepKeeps, Local

(* The entry is converted to a map of the caller's own.                    *)
LEMMA ConvertConfigKeeps ==
    ASSUME IInv, NEW g \in Goroutines, ConvertConfig(g)
    PROVE  StepKeeps(g)
<1>0. TypeOK /\ Local(g)
  BY DEF IInv
<1>1. /\ pc[g] = "convert" /\ pc' = [pc EXCEPT ![g] = "setMeta"]
      /\ map' = [map EXCEPT ![Fresh(g, "json")] = entry[g].spec]
      /\ out' = [out EXCEPT ![g] = Fresh(g, "out")]
      /\ object' = [object EXCEPT ![Fresh(g, "out")] = object[Prototype("object", op[g][2])]]
      /\ UNCHANGED <<op, obj, entry, sent, reply, got>>
  BY DEF ConvertConfig, At, DeepCopyObject
<1>2. /\ op[g][1] = "Create" /\ entry[g] \in Values
      /\ object[Prototype("object", op[g][2])] \in Structs
  BY <1>0, <1>1, InMethod DEF TypeOK, Local, Progress, Outgoing
<1>3. /\ object' \in [Addresses -> Structs]
      /\ object'[Fresh(g, "out")] = object[Prototype("object", op[g][2])]
      /\ \A a \in Addresses : a # Fresh(g, "out") => object'[a] = object[a]
  <2>1. Fresh(g, "out") \in Addresses
    BY AddressesAreDistinct
  <2>2. object' = [object EXCEPT ![Fresh(g, "out")] = object[Prototype("object", op[g][2])]]
    BY <1>1
  <2>. QED  BY <1>0, <1>2, <2>1, <2>2, ObjectAssigned
<1>4. /\ map' \in [References -> SUBSET UNION {v.spec : v \in Values}]
      /\ map'[Fresh(g, "json")] = entry[g].spec
      /\ \A r \in References : r # Fresh(g, "json") => map'[r] = map[r]
  BY <1>0, <1>1, <1>2, AddressesAreDistinct, MapAssigned
<1>5. TypeOK'
  BY <1>0, <1>1, <1>3, <1>4, AddressesAreDistinct DEF TypeOK, Statements
<1>6. Frame(g)
  <2>1. Fresh(g, "out") \in Own(g) /\ Fresh(g, "json") \in Own(g)
    BY AddressesAreDistinct
  <2>. QED  BY <1>0, <1>1, <1>3, <1>4, <2>1 DEF TypeOK, Frame
<1>7. pc'[g] = "setMeta" /\ out'[g] = Fresh(g, "out")
  BY <1>0, <1>1 DEF TypeOK
<1>8. Closed(g)'
  <2>1. object'[Fresh(g, "out")] = [meta |-> NoMeta, spec |-> Nil, items |-> << >>]
    BY <1>1, <1>3, InMethod DEF Empty
  <2>2. /\ object'[Fresh(g, "out")].spec = Nil
        /\ DOMAIN object'[Fresh(g, "out")].items = {}
    BY <2>1
  <2>. QED  BY <1>0, <1>1, <1>3, <1>7, <2>2 DEF Local, Closed
<1>9. Progress(g)'
  BY <1>0, <1>1, <1>2, <1>7 DEF Local, Progress
<1>10. Outgoing(g)'
  BY <1>0, <1>1, <1>2, <1>4, <1>7 DEF Outgoing
<1>11. Incoming(g)'
  BY <1>0, <1>1, <1>7 DEF Incoming
<1>. QED  BY <1>5, <1>6, <1>8, <1>9, <1>10, <1>11 DEF StepKeeps, Local

(* The copy gets the entry's metadata.                                     *)
LEMMA SetObjectMetaKeeps ==
    ASSUME IInv, NEW g \in Goroutines, SetObjectMeta(g)
    PROVE  StepKeeps(g)
<1>0. TypeOK /\ Local(g)
  BY DEF IInv
<1>1. /\ pc[g] = "setMeta" /\ pc' = [pc EXCEPT ![g] = "setSpec"]
      /\ object' = [object EXCEPT ![Fresh(g, "out")].meta = entry[g].meta]
      /\ UNCHANGED <<map, op, out, obj, entry, sent, reply, got>>
  BY <1>0 DEF SetObjectMeta, At, Local, Closed
<1>2. op[g][1] = "Create" /\ entry[g] \in Values /\ map[Fresh(g, "json")] = entry[g].spec
  BY <1>0, <1>1 DEF Local, Progress, Outgoing
<1>3. /\ Fresh(g, "out") \in Own(g) /\ Fresh(g, "out") \in Addresses
      /\ Fresh(g, "obj") # Fresh(g, "out")
  BY AddressesAreDistinct
<1>4. /\ object' \in [Addresses -> Structs]
      /\ object'[Fresh(g, "out")].meta = entry[g].meta
      /\ object'[Fresh(g, "out")].spec = object[Fresh(g, "out")].spec
      /\ object'[Fresh(g, "out")].items = object[Fresh(g, "out")].items
      /\ \A a \in Addresses : a # Fresh(g, "out") => object'[a] = object[a]
  <2>1. entry[g].meta \in Metas
    BY <1>2, ValueIsRecord
  <2>. QED  BY <1>0, <1>1, <1>3, <2>1, MetaAssigned
<1>5. TypeOK'
  BY <1>0, <1>1, <1>4 DEF TypeOK, Statements
<1>6. Frame(g)
  BY <1>0, <1>1, <1>3, <1>4 DEF TypeOK, Frame
<1>7. pc'[g] = "setSpec"
  BY <1>0, <1>1 DEF TypeOK
<1>8. Closed(g)'
  BY <1>0, <1>1, <1>3, <1>4 DEF Local, Closed
<1>9. Progress(g)'
  BY <1>0, <1>1, <1>2, <1>7 DEF Local, Progress
<1>10. Outgoing(g)'
  BY <1>1, <1>2, <1>4, <1>7 DEF Outgoing
<1>11. Incoming(g)'
  BY <1>7 DEF Incoming
<1>. QED  BY <1>5, <1>6, <1>8, <1>9, <1>10, <1>11 DEF StepKeeps, Local

(* The copy gets the map that was made of the entry's spec.                *)
LEMMA SetSpecKeeps ==
    ASSUME IInv, NEW g \in Goroutines, SetSpec(g)
    PROVE  StepKeeps(g)
<1>0. TypeOK /\ Local(g)
  BY DEF IInv
<1>1. /\ pc[g] = "setSpec" /\ pc' = [pc EXCEPT ![g] = "copy"]
      /\ object' = [object EXCEPT ![Fresh(g, "out")].spec = Fresh(g, "json")]
      /\ UNCHANGED <<map, op, out, obj, entry, sent, reply, got>>
  BY <1>0 DEF SetSpec, At, Local, Closed
<1>2. /\ op[g][1] = "Create" /\ entry[g] \in Values
      /\ map[Fresh(g, "json")] = entry[g].spec
      /\ object[Fresh(g, "out")].meta = entry[g].meta
  BY <1>0, <1>1 DEF Local, Progress, Outgoing
<1>3. /\ Fresh(g, "out") \in Own(g) /\ Fresh(g, "out") \in Addresses
      /\ Fresh(g, "json") \in Own(g) /\ Fresh(g, "json") \in References
  BY AddressesAreDistinct
<1>4. /\ object' \in [Addresses -> Structs]
      /\ object'[Fresh(g, "out")].spec = Fresh(g, "json")
      /\ object'[Fresh(g, "out")].meta = object[Fresh(g, "out")].meta
      /\ object'[Fresh(g, "out")].items = object[Fresh(g, "out")].items
      /\ \A a \in Addresses : a # Fresh(g, "out") => object'[a] = object[a]
  BY <1>0, <1>1, <1>3, SpecAssigned
<1>5. TypeOK'
  BY <1>0, <1>1, <1>4 DEF TypeOK, Statements
<1>6. Frame(g)
  BY <1>0, <1>1, <1>3, <1>4 DEF TypeOK, Frame
<1>7. pc'[g] = "copy"
  BY <1>0, <1>1 DEF TypeOK
<1>8. Closed(g)'
  BY <1>0, <1>1, <1>3, <1>4 DEF Local, Closed
<1>9. Progress(g)'
  BY <1>0, <1>1, <1>2, <1>7 DEF Local, Progress
<1>10. Outgoing(g)'
  BY <1>1, <1>2, <1>4, <1>7 DEF Outgoing
<1>11. Incoming(g)'
  BY <1>7 DEF Incoming
<1>. QED  BY <1>5, <1>6, <1>8, <1>9, <1>10, <1>11 DEF StepKeeps, Local

(* A prototype is copied for the answer; the copy has no map, as the       *)
(* prototype has none.                                                     *)
LEMMA CopyPrototypeKeeps ==
    ASSUME IInv, NEW g \in Goroutines, CopyPrototype(g)
    PROVE  StepKeeps(g)
<1>0. TypeOK /\ Local(g)
  BY DEF IInv
<1>1. PICK kind \in {"object", "collection"} :
         /\ pc[g] = "copy" /\ pc' = [pc EXCEPT ![g] = "send"]
         /\ obj' = [obj EXCEPT ![g] = Fresh(g, "obj")]
         /\ object' = [object EXCEPT ![Fresh(g, "obj")] = object[Prototype(kind, op[g][2])]]
         /\ UNCHANGED <<map, op, out, entry, sent, reply, got>>
  BY DEF CopyPrototype, At, DeepCopyObject
<1> DEFINE from == Prototype(kind, op[g][2])
<1>2. object[from] \in Structs
  BY <1>0, <1>1, InMethod DEF TypeOK
<1>3. object[from].spec = Nil /\ DOMAIN object[from].items = {}
  <2>1. object[from] = [meta |-> NoMeta, spec |-> Nil, items |-> << >>]
    BY <1>1, InMethod DEF Empty
  <2>. QED  BY <2>1
<1>4. /\ Fresh(g, "obj") \in Own(g) /\ Fresh(g, "obj") \in Addresses
      /\ Fresh(g, "out") \in Addresses /\ Fresh(g, "obj") # Fresh(g, "out")
  BY AddressesAreDistinct
<1>5. /\ object' \in [Addresses -> Structs]
      /\ object'[Fresh(g, "obj")] = object[from]
      /\ \A a \in Addresses : a # Fresh(g, "obj") => object'[a] = object[a]
  <2>1. object' = [object EXCEPT ![Fresh(g, "obj")] = object[from]]
    BY <1>1
  <2>. QED  BY <1>0, <1>2, <1>4, <2>1, ObjectAssigned
<1>6. TypeOK'
  BY <1>0, <1>1, <1>4, <1>5 DEF TypeOK, Statements
<1>7. Frame(g)
  BY <1>0, <1>1, <1>4, <1>5 DEF TypeOK, Frame
<1>8. pc'[g] = "send" /\ obj'[g] = Fresh(g, "obj")
  BY <1>0, <1>1 DEF TypeOK
<1>9. Closed(g)'
  BY <1>0, <1>1, <1>3, <1>5, <1>8 DEF Local, Closed
<1>10. Progress(g)'
  BY <1>0, <1>1, <1>8 DEF Local, Progress
<1>11. Outgoing(g)'
  BY <1>0, <1>1, <1>4, <1>5, <1>8 DEF Local, Outgoing
<1>12. Incoming(g)'
  BY <1>3, <1>5, <1>8 DEF Incoming
<1>. QED  BY <1>6, <1>7, <1>9, <1>10, <1>11, <1>12 DEF StepKeeps, Local

(* The request is the entry, and an answer waits to be decoded.            *)
LEMMA SendKeeps ==
    ASSUME IInv, NEW g \in Goroutines, Send(g)
    PROVE  StepKeeps(g)
<1>0. TypeOK /\ Local(g)
  BY DEF IInv
<1>1. /\ pc[g] = "send"
      /\ pc' = [pc EXCEPT ![g] = IF op[g][1] = "List" THEN "decodeItems" ELSE "decodeMeta"]
      /\ UNCHANGED <<object, map, op, out, obj, entry, got>>
  BY DEF Send, At
<1>2. /\ op[g] \in {"Get", "List", "Create"} \X Types
      /\ got[g] = << >> /\ object[Fresh(g, "obj")].spec = Nil
  BY <1>0, <1>1, InMethod DEF Local, Progress, Incoming
<1>3. ASSUME op[g][1] = "Create"
      PROVE  /\ entry[g] \in Values
             /\ entry[g] = [meta |-> object[out[g]].meta, spec |-> GetSpec(out[g])]
  <2>1. /\ entry[g] \in Values /\ out[g] = Fresh(g, "out")
        /\ object[out[g]].meta = entry[g].meta
        /\ object[out[g]].spec = Fresh(g, "json") /\ map[Fresh(g, "json")] = entry[g].spec
    BY <1>0, <1>1, <1>3 DEF Local, Closed, Outgoing
  <2>2. GetSpec(out[g]) = entry[g].spec
    BY <2>1, AddressesAreDistinct DEF GetSpec
  <2>. QED  BY <2>1, <2>2, ValueIsRecord
<1>4. /\ sent' \in [Goroutines -> Values \cup {Nil}]
      /\ \A h \in Goroutines \ {g} : sent'[h] = sent[h]
      /\ op[g][1] = "Create" => sent'[g] = entry[g]
  BY <1>0, <1>1, <1>3 DEF TypeOK, Send
<1>5. \E vs \in Seq(Values) :
         /\ reply' = [reply EXCEPT ![g] = vs]
         /\ op[g][1] = "List" => Len(vs) <= MaxItems
         /\ op[g][1] # "List" => Len(vs) = 1
  <2>1. CASE op[g][1] = "Create"
    <3>1. reply' = [reply EXCEPT ![g] = <<entry[g]>>]
      BY <1>0, <2>1, <1>4 DEF Send
    <3>2. <<entry[g]>> \in Seq(Values) /\ Len(<<entry[g]>>) = 1
      BY <2>1, <1>3
    <3>. QED  BY <2>1, <3>1, <3>2
  <2>2. CASE op[g][1] = "Get"
    <3>1. PICK v \in Values : reply' = [reply EXCEPT ![g] = <<v>>]
      BY <2>2 DEF Send
    <3>2. <<v>> \in Seq(Values) /\ Len(<<v>>) = 1
      OBVIOUS
    <3>. QED  BY <2>2, <3>1, <3>2
  <2>3. CASE op[g][1] = "List"
    <3>1. PICK n \in 0..MaxItems : \E vs \in [1..n -> Values] : reply' = [reply EXCEPT ![g] = vs]
      BY <2>3 DEF Send
    <3>2. n \in Nat /\ n <= MaxItems
      BY WireObjectsAssumption
    <3>3. PICK vs \in [1..n -> Values] : reply' = [reply EXCEPT ![g] = vs]
      BY <3>1
    <3>4. vs \in Seq(Values) /\ Len(vs) = n
      BY <3>2
    <3>. QED  BY <2>3, <3>2, <3>3, <3>4
  <2>. QED  BY <1>1, <2>1, <2>2, <2>3, InMethod
<1>6. /\ reply' \in [Goroutines -> Seq(Values)]
      /\ \A h \in Goroutines \ {g} : reply'[h] = reply[h]
      /\ op[g][1] = "List" => Len(reply'[g]) <= MaxItems
      /\ op[g][1] # "List" => Len(reply'[g]) = 1
      /\ Len(reply'[g]) \in Nat
  BY <1>0, <1>5 DEF TypeOK
<1>7. TypeOK'
  BY <1>0, <1>1, <1>4, <1>6 DEF TypeOK, Statements
<1>8. Frame(g)
  BY <1>0, <1>1, <1>4, <1>6 DEF TypeOK, Frame
<1>9. /\ op[g][1] = "List" => pc'[g] = "decodeItems"
      /\ op[g][1] # "List" => pc'[g] = "decodeMeta"
  BY <1>0, <1>1 DEF TypeOK
<1>10. op'[g] = op[g] /\ got'[g] = got[g] /\ entry'[g] = entry[g] /\ object' = object
  BY <1>1
<1>11. Closed(g)'
  BY <1>0, <1>1 DEF Local, Closed
<1>12. Progress(g)'
  <2>1. Len(got'[g]) <= Len(reply'[g]) /\ \A i \in DOMAIN got'[g] : got'[g][i] = reply'[g][i]
    BY <1>2, <1>6, <1>10
  <2>2. CASE op[g][1] = "List"
    BY <1>2, <1>6, <1>9, <1>10, <2>1, <2>2 DEF Progress
  <2>3. CASE op[g][1] # "List"
    BY <1>2, <1>6, <1>9, <1>10, <2>1, <2>3 DEF Progress
  <2>. QED  BY <2>2, <2>3
<1>13. Outgoing(g)'
  <2>1. CASE op[g][1] = "Create"
    BY <1>3, <1>4, <1>9, <1>10, <2>1 DEF Outgoing
  <2>2. CASE op[g][1] # "Create"
    BY <1>10, <2>2 DEF Outgoing
  <2>. QED  BY <2>1, <2>2
<1>14. Incoming(g)'
  <2>1. CASE op[g][1] = "List"
    BY <1>9, <2>1 DEF Incoming
  <2>2. CASE op[g][1] # "List"
    BY <1>2, <1>9, <1>10, <2>2 DEF Incoming
  <2>. QED  BY <2>1, <2>2
<1>. QED  BY <1>7, <1>8, <1>11, <1>12, <1>13, <1>14 DEF StepKeeps, Local

(* An error: nothing is read and nothing returned.                         *)
LEMMA SendFailsKeeps ==
    ASSUME IInv, NEW g \in Goroutines, SendFails(g)
    PROVE  StepKeeps(g)
<1>0. TypeOK /\ Local(g)
  BY DEF IInv
<1>1. /\ pc[g] = "send" /\ pc' = [pc EXCEPT ![g] = "return"]
      /\ UNCHANGED <<object, map, op, out, obj, entry, sent, reply, got>>
  BY DEF SendFails, At
<1>2. TypeOK'
  BY <1>0, <1>1 DEF TypeOK, Statements
<1>3. Frame(g)
  BY <1>0, <1>1 DEF TypeOK, Frame
<1>4. pc'[g] = "return"
  BY <1>0, <1>1 DEF TypeOK
<1>5. Closed(g)'
  BY <1>0, <1>1 DEF Local, Closed
<1>6. Progress(g)'
  BY <1>0, <1>1, <1>4 DEF Local, Progress
<1>7. Outgoing(g)'
  BY <1>0, <1>1, <1>4 DEF Local, Outgoing
<1>8. Incoming(g)'
  BY <1>4 DEF Incoming
<1>. QED  BY <1>2, <1>3, <1>5, <1>6, <1>7, <1>8 DEF StepKeeps, Local

(* The metadata of the answer is decoded.                                  *)
LEMMA DecodeMetaKeeps ==
    ASSUME IInv, NEW g \in Goroutines, DecodeMeta(g)
    PROVE  StepKeeps(g)
<1>0. TypeOK /\ Local(g)
  BY DEF IInv
<1>1. /\ pc[g] = "decodeMeta" /\ pc' = [pc EXCEPT ![g] = "decodeSpec"]
      /\ object' = [object EXCEPT ![Fresh(g, "obj")].meta = reply[g][1].meta]
      /\ UNCHANGED <<map, op, out, obj, entry, sent, reply, got>>
  BY <1>0 DEF DecodeMeta, At, Local, Closed
<1>2. /\ op[g][1] # "List" /\ Len(reply[g]) = 1 /\ reply[g][1] \in Values
      /\ object[Fresh(g, "obj")].spec = Nil
  <2>1. op[g][1] # "List" /\ Len(reply[g]) = 1 /\ object[Fresh(g, "obj")].spec = Nil
    BY <1>0, <1>1 DEF Local, Progress, Incoming
  <2>2. reply[g] \in Seq(Values)
    BY <1>0 DEF TypeOK
  <2>. QED  BY <2>1, <2>2
<1>3. /\ Fresh(g, "obj") \in Own(g) /\ Fresh(g, "obj") \in Addresses
      /\ Fresh(g, "out") # Fresh(g, "obj")
  BY AddressesAreDistinct
<1>4. /\ object' \in [Addresses -> Structs]
      /\ object'[Fresh(g, "obj")].meta = reply[g][1].meta
      /\ object'[Fresh(g, "obj")].spec = object[Fresh(g, "obj")].spec
      /\ object'[Fresh(g, "obj")].items = object[Fresh(g, "obj")].items
      /\ \A a \in Addresses : a # Fresh(g, "obj") => object'[a] = object[a]
  <2>1. reply[g][1].meta \in Metas
    BY <1>2, ValueIsRecord
  <2>. QED  BY <1>0, <1>1, <1>3, <2>1, MetaAssigned
<1>5. TypeOK'
  BY <1>0, <1>1, <1>4 DEF TypeOK, Statements
<1>6. Frame(g)
  BY <1>0, <1>1, <1>3, <1>4 DEF TypeOK, Frame
<1>7. pc'[g] = "decodeSpec"
  BY <1>0, <1>1 DEF TypeOK
<1>8. Closed(g)'
  BY <1>0, <1>1, <1>3, <1>4 DEF Local, Closed
<1>9. Progress(g)'
  BY <1>0, <1>1, <1>2, <1>7 DEF Local, Progress
<1>10. Outgoing(g)'
  BY <1>0, <1>1, <1>7 DEF Local, Outgoing
<1>11. Incoming(g)'
  BY <1>1, <1>2, <1>4, <1>7 DEF Incoming
<1>. QED  BY <1>5, <1>6, <1>8, <1>9, <1>10, <1>11 DEF StepKeeps, Local

(* The spec of the answer is decoded into a map of the decoder's own.      *)
LEMMA DecodeSpecKeeps ==
    ASSUME IInv, NEW g \in Goroutines, DecodeSpec(g)
    PROVE  StepKeeps(g)
<1>0. TypeOK /\ Local(g)
  BY DEF IInv
<1>1. pc[g] = "decodeSpec"
  BY DEF DecodeSpec, At
<1>2. /\ op[g][1] # "List" /\ Len(reply[g]) = 1 /\ reply[g][1] \in Values
      /\ got[g] = << >>
      /\ object[Fresh(g, "obj")].spec = Nil /\ object[Fresh(g, "obj")].meta = reply[g][1].meta
  <2>1. op[g][1] # "List" /\ Len(reply[g]) = 1 /\ got[g] = << >>
    BY <1>0, <1>1 DEF Local, Progress
  <2>2. object[Fresh(g, "obj")].spec = Nil /\ object[Fresh(g, "obj")].meta = reply[g][1].meta
    BY <1>0, <1>1 DEF Local, Incoming
  <2>3. reply[g] \in Seq(Values)
    BY <1>0 DEF TypeOK
  <2>. QED  BY <2>1, <2>2, <2>3
<1>3. /\ pc' = [pc EXCEPT ![g] = IF op[g][1] = "Get" THEN "convertItem" ELSE "return"]
      /\ object' = [object EXCEPT ![Fresh(g, "obj")].spec = Fresh(g, "obj")]
      /\ map' = [map EXCEPT ![Fresh(g, "obj")] = reply[g][1].spec]
      /\ UNCHANGED <<op, out, obj, entry, sent, reply, got>>
  <2>1. obj[g] = Fresh(g, "obj")
    BY <1>0 DEF Local, Closed
  <2>. QED  BY <1>2, <2>1 DEF DecodeSpec, At
<1>4. /\ Fresh(g, "obj") \in Own(g) /\ Fresh(g, "obj") \in Addresses
      /\ Fresh(g, "obj") \in References
      /\ Fresh(g, "out") # Fresh(g, "obj")
  BY AddressesAreDistinct
<1>5. /\ object' \in [Addresses -> Structs]
      /\ object'[Fresh(g, "obj")].spec = Fresh(g, "obj")
      /\ object'[Fresh(g, "obj")].meta = object[Fresh(g, "obj")].meta
      /\ object'[Fresh(g, "obj")].items = object[Fresh(g, "obj")].items
      /\ \A a \in Addresses : a # Fresh(g, "obj") => object'[a] = object[a]
  BY <1>0, <1>3, <1>4, SpecAssigned
<1>6. /\ map' \in [References -> SUBSET UNION {v.spec : v \in Values}]
      /\ map'[Fresh(g, "obj")] = reply[g][1].spec
      /\ \A r \in References : r # Fresh(g, "obj") => map'[r] = map[r]
  BY <1>0, <1>2, <1>3, <1>4, MapAssigned
<1>7. TypeOK'
  BY <1>0, <1>3, <1>5, <1>6 DEF TypeOK, Statements
<1>8. Frame(g)
  BY <1>0, <1>3, <1>4, <1>5, <1>6 DEF TypeOK, Frame
<1>9. /\ op[g][1] = "Get" => pc'[g] = "convertItem"
      /\ op[g][1] # "Get" => pc'[g] = "return" /\ op[g][1] = "Create"
  BY <1>0, <1>1, <1>2, <1>3, InMethod DEF TypeOK
<1>10. /\ op'[g] = op[g] /\ got'[g] = got[g] /\ entry'[g] = entry[g] /\ reply'[g] = reply[g]
       /\ op[g] \in {"Get", "List", "Create"} \X Types
  BY <1>1, <1>3, InMethod
<1>11. Closed(g)'
  BY <1>0, <1>3, <1>4, <1>5 DEF Local, Closed
<1>12. Progress(g)'
  <2>1. Len(got'[g]) <= Len(reply'[g]) /\ \A i \in DOMAIN got'[g] : got'[g][i] = reply'[g][i]
    BY <1>2, <1>10
  <2>2. CASE op[g][1] = "Get"
    BY <1>2, <1>9, <1>10, <2>1, <2>2 DEF Progress
  <2>3. CASE op[g][1] # "Get"
    BY <1>2, <1>9, <1>10, <2>1, <2>3 DEF Progress
  <2>. QED  BY <2>2, <2>3
<1>13. Outgoing(g)'
  <2>1. CASE op[g][1] = "Get"
    BY <1>10, <2>1 DEF Outgoing
  <2>2. CASE op[g][1] # "Get"
    <3>1. entry[g] \in Values
      BY <1>0, <1>1, <1>9, <2>2 DEF Local, Outgoing
    <3>. QED  BY <1>9, <1>10, <2>2, <3>1 DEF Outgoing
  <2>. QED  BY <2>1, <2>2
<1>14. Incoming(g)'
  <2>1. CASE op[g][1] = "Get"
    BY <1>2, <1>5, <1>6, <1>9, <1>10, <2>1 DEF Incoming, Holds
  <2>2. CASE op[g][1] # "Get"
    BY <1>9, <2>2 DEF Incoming
  <2>. QED  BY <2>1, <2>2
<1>. QED  BY <1>7, <1>8, <1>11, <1>12, <1>13, <1>14 DEF StepKeeps, Local

(* The items of a list are decoded to structs and maps of their own.       *)
LEMMA DecodeItemsKeeps ==
    ASSUME IInv, NEW g \in Goroutines, DecodeItems(g)
    PROVE  StepKeeps(g)
<1>0. TypeOK /\ Local(g)
  BY DEF IInv
<1> DEFINE made  == DOMAIN reply[g]
           here  == {Item(g, i) : i \in made}
           items == [i \in made |-> Item(g, i)]
           struct(a) == [meta |-> reply[g][a[3]].meta, spec |-> a, items |-> << >>]
<1>1. /\ pc[g] = "decodeItems" /\ pc' = [pc EXCEPT ![g] = "convertItem"]
      /\ object' = [a \in Addresses |->
             CASE a \in here           -> struct(a)
               [] a = obj[g]           -> [object[a] EXCEPT !.items = items]
               [] OTHER                -> object[a]]
      /\ map' = [r \in References |-> IF r \in here THEN reply[g][r[3]].spec ELSE map[r]]
      /\ UNCHANGED <<op, out, obj, entry, sent, reply, got>>
      /\ obj[g] = Fresh(g, "obj")
  <2>1. obj[g] = Fresh(g, "obj")
    BY <1>0 DEF Local, Closed
  <2>. QED  BY <2>1 DEF DecodeItems, At
<1>2. /\ op[g] \in {"Get", "List", "Create"} \X Types
      /\ op[g][1] = "List" /\ got[g] = << >>
      /\ reply[g] \in Seq(Values) /\ Len(reply[g]) \in Nat
      /\ made = 1..Len(reply[g]) /\ made \subseteq 1..MaxItems
      /\ Len(reply[g]) <= MaxItems
  <2>1. op[g][1] = "List" /\ got[g] = << >> /\ Len(reply[g]) <= MaxItems
    BY <1>0, <1>1 DEF Local, Progress
  <2>2. reply[g] \in Seq(Values) /\ Len(reply[g]) \in Nat /\ made = 1..Len(reply[g])
    BY <1>0 DEF TypeOK
  <2>3. made \subseteq 1..MaxItems
    BY <2>1, <2>2, WireObjectsAssumption
  <2>4. op[g] \in {"Get", "List", "Create"} \X Types
    BY <1>1, InMethod
  <2>. QED  BY <2>1, <2>2, <2>3, <2>4
<1>3. \A i \in made :
         /\ Item(g, i) \in Own(g) /\ Item(g, i) \in Addresses /\ Item(g, i) \in References
         /\ Item(g, i)[3] = i
         /\ Item(g, i) # Fresh(g, "obj") /\ Item(g, i) # Fresh(g, "out")
         /\ Item(g, i) # Fresh(g, "json")
         /\ reply[g][i] \in Values
  BY <1>2, AddressesAreDistinct
<1>4. /\ Fresh(g, "obj") \in Own(g) /\ Fresh(g, "obj") \in Addresses
      /\ Fresh(g, "out") \in Addresses /\ Fresh(g, "out") # Fresh(g, "obj")
      /\ Fresh(g, "json") \in References
  BY AddressesAreDistinct
<1>5. items \in Seq(Addresses)
  BY <1>2, <1>3
<1>6. \A i \in made :
         /\ object'[Item(g, i)].meta = reply[g][i].meta
         /\ object'[Item(g, i)].spec = Item(g, i)
         /\ DOMAIN object'[Item(g, i)].items = {}
         /\ object'[Item(g, i)] \in Structs
  <2>. SUFFICES ASSUME NEW i \in made
                PROVE  /\ object'[Item(g, i)].meta = reply[g][i].meta
                       /\ object'[Item(g, i)].spec = Item(g, i)
                       /\ DOMAIN object'[Item(g, i)].items = {}
                       /\ object'[Item(g, i)] \in Structs
    OBVIOUS
  <2>1. object'[Item(g, i)] = struct(Item(g, i))
    BY <1>1, <1>3
  <2>2. object'[Item(g, i)] = [meta |-> reply[g][i].meta, spec |-> Item(g, i), items |-> << >>]
    BY <1>3, <2>1
  <2>3. reply[g][i].meta \in Metas /\ Item(g, i) \in References
    BY <1>3, ValueIsRecord
  <2>4. << >> \in Seq(Addresses) /\ DOMAIN << >> = {}
    OBVIOUS
  <2>5. object'[Item(g, i)] \in Structs
    <3>1. [meta |-> reply[g][i].meta, spec |-> Item(g, i), items |-> << >>] \in Structs
      BY <2>3, <2>4 DEF Structs
    <3>. QED  BY <2>2, <3>1
  <2>. QED  BY <2>2, <2>4, <2>5
<1>7. object'[Fresh(g, "obj")] = [object[Fresh(g, "obj")] EXCEPT !.items = items]
  <2>1. Fresh(g, "obj") \notin here
    BY <1>3
  <2>. HIDE DEF items, struct
  <2>. QED  BY <1>1, <1>4, <2>1
<1>8. \A a \in Addresses : a \notin here /\ a # Fresh(g, "obj") => object'[a] = object[a]
  <2>. HIDE DEF items, struct
  <2>. QED  BY <1>1
<1>9. object' \in [Addresses -> Structs]
  <2>. SUFFICES ASSUME NEW a \in Addresses
                PROVE  object'[a] \in Structs
    BY <1>1
  <2>1. CASE a \in here
    <3>1. PICK i \in made : a = Item(g, i)
      BY <2>1
    <3>. QED  BY <1>6, <3>1
  <2>2. CASE a = Fresh(g, "obj")
    <3>1. object[a] \in Structs
      BY <1>0 DEF TypeOK
    <3>. HIDE DEF items
    <3>. QED  BY <1>5, <1>7, <2>2, <3>1 DEF Structs
  <2>3. CASE a \notin here /\ a # Fresh(g, "obj")
    BY <1>0, <1>8, <2>3 DEF TypeOK
  <2>. QED  BY <2>1, <2>2, <2>3
<1>10. /\ \A i \in made : map'[Item(g, i)] = reply[g][i].spec
       /\ \A r \in References : r \notin here => map'[r] = map[r]
  BY <1>1, <1>3
<1>11. map' \in [References -> SUBSET UNION {v.spec : v \in Values}]
  <2>. DEFINE Sets == SUBSET UNION {v.spec : v \in Values}
  <2>1. map \in [References -> Sets]
    BY <1>0 DEF TypeOK
  <2>2. \A i \in made : reply[g][i].spec \in Sets
    BY <1>3, ValueIsRecord
  <2>3. \A r \in References : map'[r] \in Sets
    <3>. SUFFICES ASSUME NEW r \in References
                  PROVE  map'[r] \in Sets
      OBVIOUS
    <3>. HIDE DEF Sets
    <3>1. CASE r \in here
      BY <1>10, <2>2, <3>1
    <3>2. CASE r \notin here
      BY <1>10, <2>1, <3>2
    <3>. QED  BY <3>1, <3>2
  <2>. HIDE DEF Sets
  <2>4. map' \in [References -> Sets]
    BY <1>1, <2>3
  <2>. QED  BY <2>4 DEF Sets
<1>12. TypeOK'
  BY <1>0, <1>1, <1>9, <1>11 DEF TypeOK, Statements
<1>13. Frame(g)
  <2>1. here \subseteq Own(g)
    BY <1>3
  <2>. QED  BY <1>0, <1>1, <1>4, <1>8, <1>10, <2>1 DEF TypeOK, Frame
<1>14. /\ pc'[g] = "convertItem" /\ op'[g] = op[g] /\ got'[g] = got[g] /\ reply'[g] = reply[g]
       /\ out'[g] = out[g] /\ obj'[g] = obj[g]
  BY <1>0, <1>1 DEF TypeOK
<1>15. object'[Fresh(g, "obj")].spec = object[Fresh(g, "obj")].spec
       /\ object'[Fresh(g, "obj")].items = items
  <2>1. object[Fresh(g, "obj")] \in Structs
    BY <1>0, <1>4 DEF TypeOK
  <2>. HIDE DEF items
  <2>. QED  BY <1>7, <2>1 DEF Structs
<1>16. Closed(g)'
  <2>. SUFFICES ASSUME NEW a \in Own(g) \cap Addresses
                PROVE  /\ object'[a].spec \in Own(g) \cup {Nil}
                       /\ \A i \in DOMAIN object'[a].items : object'[a].items[i] \in Own(g)
    BY <1>0, <1>14 DEF Local, Closed
  <2>1. CASE a \in here
    <3>1. PICK i \in made : a = Item(g, i)
      BY <2>1
    <3>2. object'[a].spec = a /\ DOMAIN object'[a].items = {}
      BY <1>6, <3>1
    <3>. QED  BY <3>2
  <2>2. CASE a = Fresh(g, "obj")
    BY <1>0, <1>3, <1>15, <2>2 DEF Local, Closed
  <2>3. CASE a \notin here /\ a # Fresh(g, "obj")
    BY <1>0, <1>8, <2>3 DEF Local, Closed
  <2>. QED  BY <2>1, <2>2, <2>3
<1>17. Progress(g)'
  <2>1. Len(got'[g]) <= Len(reply'[g]) /\ \A i \in DOMAIN got'[g] : got'[g][i] = reply'[g][i]
    <3>1. got'[g] = << >> /\ Len(reply'[g]) \in Nat
      BY <1>2, <1>14
    <3>2. Len(got'[g]) = 0 /\ DOMAIN got'[g] = {}
      BY <3>1
    <3>. QED  BY <3>1, <3>2
  <2>. QED  BY <1>2, <1>14, <2>1 DEF Progress
<1>18. Outgoing(g)'
  BY <1>2, <1>14 DEF Outgoing
<1>19. Incoming(g)'
  <2>1. \A i \in made : Holds(Item(g, i), Item(g, i), reply[g][i])'
    <3>. SUFFICES ASSUME NEW i \in made
                  PROVE  Holds(Item(g, i), Item(g, i), reply[g][i])'
      OBVIOUS
    <3>1. /\ object'[Item(g, i)].meta = reply[g][i].meta
          /\ object'[Item(g, i)].spec = Item(g, i)
          /\ map'[Item(g, i)] = reply[g][i].spec
      BY <1>6, <1>10
    <3>. QED  BY <1>14, <3>1 DEF Holds
  <2>. QED  BY <1>2, <1>14, <1>15, <2>1 DEF Incoming
<1>. QED  BY <1>12, <1>13, <1>16, <1>17, <1>18, <1>19 DEF StepKeeps, Local

(* What the loop converts is the answer, item by item.                     *)
LEMMA ToConvertIsReply ==
    ASSUME IInv, NEW g \in Goroutines, pc[g] = "convertItem"
    PROVE  /\ Len(ToConvert(g)) = Len(reply[g])
           /\ \A i \in 1..Len(reply[g]) :
                 LET a == ToConvert(g)[i]
                 IN  [meta |-> object[a].meta, spec |-> GetSpec(a)] = reply[g][i]
<1>0. Local(g)
  BY DEF IInv
<1>1. reply[g] \in Seq(Values)
  BY DEF IInv, TypeOK
<1>2. Len(reply[g]) \in Nat /\ DOMAIN reply[g] = 1..Len(reply[g])
  BY <1>1, LenProperties
<1>3. \A i \in 1..Len(reply[g]) : reply[g][i] \in Values
  BY <1>1, ElementOfSeq
<1>4. ASSUME NEW a \in References, NEW v \in Values, Holds(a, a, v)
      PROVE  [meta |-> object[a].meta, spec |-> GetSpec(a)] = v
  <2>1. object[a].meta = v.meta /\ GetSpec(a) = v.spec
    BY <1>4, WireObjectsAssumption DEF Holds, GetSpec
  <2>. QED  BY <2>1, ValueIsRecord
<1>5. CASE op[g][1] = "Get"
  <2>1. Len(reply[g]) = 1 /\ Holds(Fresh(g, "obj"), Fresh(g, "obj"), reply[g][1])
    BY <1>0, <1>5 DEF Local, Incoming
  <2>2. ToConvert(g) = <<Fresh(g, "obj")>>
    BY <1>0, <1>5 DEF Local, Closed, ToConvert
  <2>3. Len(ToConvert(g)) = 1 /\ ToConvert(g)[1] = Fresh(g, "obj")
    BY <2>2
  <2>4. Fresh(g, "obj") \in References
    BY AddressesAreDistinct
  <2>5. reply[g][1] \in Values
    BY <1>3, <2>1
  <2>6. [meta |-> object[Fresh(g, "obj")].meta, spec |-> GetSpec(Fresh(g, "obj"))] = reply[g][1]
    BY <1>4, <2>1, <2>4, <2>5
  <2>7. ASSUME NEW i \in 1..Len(reply[g])
        PROVE  i = 1
    BY <2>1
  <2>. QED  BY <2>1, <2>3, <2>6, <2>7
<1>6. CASE op[g][1] = "List"
  <2>1. \A i \in 1..Len(reply[g]) : Holds(Item(g, i), Item(g, i), reply[g][i])
    BY <1>0, <1>2, <1>6 DEF Local, Incoming
  <2>2. ToConvert(g) = [i \in 1..Len(reply[g]) |-> Item(g, i)]
    BY <1>0, <1>2, <1>6 DEF Local, Closed, Incoming, ToConvert, GetItems
  <2>3. Len(reply[g]) <= MaxItems
    BY <1>0, <1>6 DEF Local, Progress
  <2>4. \A i \in 1..Len(reply[g]) : i \in 1..MaxItems
    BY <1>2, <2>3, WireObjectsAssumption
  <2>5. \A i \in 1..Len(reply[g]) : Item(g, i) \in References
    BY <2>4, AddressesAreDistinct
  <2>6. ToConvert(g) \in [1..Len(reply[g]) -> References]
    BY <2>2, <2>5
  <2>7. Len(ToConvert(g)) = Len(reply[g])
    BY <1>2, <2>6
  <2>8. \A i \in 1..Len(reply[g]) : ToConvert(g)[i] = Item(g, i)
    BY <2>2
  <2>9. \A i \in 1..Len(reply[g]) :
           [meta |-> object[Item(g, i)].meta, spec |-> GetSpec(Item(g, i))] = reply[g][i]
    BY <1>3, <1>4, <2>1, <2>5
  <2>. QED  BY <2>7, <2>8, <2>9
<1>. QED  BY <1>0, <1>5, <1>6, InMethod DEF Local, Progress

(* One item is converted: the result grows by the next item of the answer. *)
LEMMA ConvertItemKeeps ==
    ASSUME IInv, NEW g \in Goroutines, ConvertItem(g)
    PROVE  StepKeeps(g)
<1>0. TypeOK /\ Local(g)
  BY DEF IInv
<1> DEFINE n == Len(got[g]) + 1
           v == [meta |-> object[ToConvert(g)[n]].meta, spec |-> GetSpec(ToConvert(g)[n])]
<1>1. /\ pc[g] = "convertItem" /\ pc' = [pc EXCEPT ![g] = "convertItem"]
      /\ n <= Len(ToConvert(g))
      /\ got' = [got EXCEPT ![g] = Append(got[g], v)]
      /\ UNCHANGED <<object, map, op, out, obj, entry, sent, reply>>
  BY DEF ConvertItem, At
<1> HIDE DEF v
<1>2. reply[g] \in Seq(Values) /\ got[g] \in Seq(Values)
  BY <1>0 DEF TypeOK
<1>3. /\ Len(reply[g]) \in Nat /\ Len(got[g]) \in Nat
      /\ DOMAIN got[g] = 1..Len(got[g])
  BY <1>2, LenProperties
<1>4. n \in 1..Len(reply[g]) /\ v = reply[g][n] /\ reply[g][n] \in Values
  <2>1. Len(ToConvert(g)) = Len(reply[g])
    BY <1>1, ToConvertIsReply
  <2>2. \A i \in 1..Len(reply[g]) :
              [meta |-> object[ToConvert(g)[i]].meta, spec |-> GetSpec(ToConvert(g)[i])] = reply[g][i]
    BY <1>1, ToConvertIsReply
  <2>3. n <= Len(reply[g])
    BY <1>1, <2>1
  <2>4. n \in 1..Len(reply[g])
    BY <1>3, <2>3
  <2>5. v = reply[g][n]
    BY <2>2, <2>4 DEF v
  <2>. QED  BY <1>2, <2>4, <2>5, ElementOfSeq
<1>5. /\ got' \in [Goroutines -> Seq(Values)] /\ got'[g] = Append(got[g], reply[g][n])
      /\ \A h \in Goroutines \ {g} : got'[h] = got[h]
  <2>1. got \in [Goroutines -> Seq(Values)]
    BY <1>0 DEF TypeOK
  <2>2. Append(got[g], reply[g][n]) \in Seq(Values)
    BY <1>2, <1>4
  <2>3. got' = [got EXCEPT ![g] = Append(got[g], reply[g][n])]
    BY <1>1, <1>4
  <2>. QED  BY <2>1, <2>2, <2>3
<1>6. TypeOK'
  BY <1>0, <1>1, <1>5 DEF TypeOK, Statements
<1>7. Frame(g)
  BY <1>0, <1>1, <1>5 DEF TypeOK, Frame
<1>8. /\ pc'[g] = "convertItem" /\ op'[g] = op[g] /\ reply'[g] = reply[g]
      /\ out'[g] = out[g] /\ obj'[g] = obj[g] /\ object' = object /\ map' = map
  BY <1>0, <1>1 DEF TypeOK
<1>9. Closed(g)'
  BY <1>0, <1>8 DEF Local, Closed
<1>10. Progress(g)'
  <2>1. Progress(g)
    BY <1>0 DEF Local
  <2>2. Len(got'[g]) = n /\ DOMAIN got'[g] = 1..n
    BY <1>2, <1>4, <1>5
  <2>3. \A i \in 1..n : got'[g][i] = IF i = n THEN reply[g][n] ELSE got[g][i]
    BY <1>2, <1>4, <1>5
  <2>4. \A i \in 1..Len(got[g]) : got[g][i] = reply[g][i]
    BY <1>3, <2>1 DEF Progress
  <2>5. ASSUME NEW i \in 1..n
        PROVE  got'[g][i] = reply[g][i]
    <3>1. CASE i = n
      BY <2>3, <3>1
    <3>2. CASE i # n
      <4>1. i \in 1..Len(got[g])
        BY <1>3, <3>2
      <4>. QED  BY <2>3, <2>4, <3>2, <4>1
    <3>. QED  BY <3>1, <3>2
  <2>6. Len(got'[g]) <= Len(reply'[g])
    BY <1>3, <1>4, <1>8, <2>2
  <2>7. \A i \in DOMAIN got'[g] : got'[g][i] = reply'[g][i]
    BY <1>8, <2>2, <2>5
  <2>. QED  BY <1>1, <1>8, <2>1, <2>6, <2>7 DEF Progress
<1>11. Outgoing(g)'
  <2>1. op[g][1] # "Create"
    BY <1>0, <1>1 DEF Local, Progress
  <2>. QED  BY <1>8, <2>1 DEF Outgoing
<1>12. Incoming(g)'
  BY <1>0, <1>1, <1>8 DEF Local, Incoming, Holds
<1>. QED  BY <1>6, <1>7, <1>9, <1>10, <1>11, <1>12 DEF StepKeeps, Local

(* The loop ends when all items are converted: the result is the answer.   *)
LEMMA LoopEndsKeeps ==
    ASSUME IInv, NEW g \in Goroutines, LoopEnds(g)
    PROVE  StepKeeps(g)
<1>0. TypeOK /\ Local(g)
  BY DEF IInv
<1>1. /\ pc[g] = "convertItem" /\ pc' = [pc EXCEPT ![g] = "return"]
      /\ Len(got[g]) >= Len(ToConvert(g))
      /\ UNCHANGED <<object, map, op, out, obj, entry, sent, reply, got>>
  BY DEF LoopEnds, At
<1>2. got[g] = reply[g]
  <2>1. /\ reply[g] \in Seq(Values) /\ Len(reply[g]) \in Nat
        /\ got[g] \in Seq(Values) /\ Len(got[g]) \in Nat
    BY <1>0 DEF TypeOK
  <2>2. Len(got[g]) >= Len(reply[g])
    BY <1>1, ToConvertIsReply
  <2>3. Len(got[g]) <= Len(reply[g]) /\ \A i \in DOMAIN got[g] : got[g][i] = reply[g][i]
    BY <1>0 DEF Local, Progress
  <2>. QED  BY <2>1, <2>2, <2>3, SeqEqual
<1>3. TypeOK'
  BY <1>0, <1>1 DEF TypeOK, Statements
<1>4. Frame(g)
  BY <1>0, <1>1 DEF TypeOK, Frame
<1>5. pc'[g] = "return" /\ op[g][1] # "Create"
  BY <1>0, <1>1 DEF TypeOK, Local, Progress
<1>6. Closed(g)'
  BY <1>0, <1>1 DEF Local, Closed
<1>7. Progress(g)'
  BY <1>0, <1>1, <1>2, <1>5 DEF Local, Progress
<1>8. Outgoing(g)'
  BY <1>1, <1>5 DEF Outgoing
<1>9. Incoming(g)'
  BY <1>5 DEF Incoming
<1>. QED  BY <1>3, <1>4, <1>6, <1>7, <1>8, <1>9 DEF StepKeeps, Local

(* The method returns, and what it has made is given up.                   *)
LEMMA ReturnKeeps ==
    ASSUME IInv, NEW g \in Goroutines, Return(g)
    PROVE  StepKeeps(g)
<1>0. TypeOK /\ Local(g)
  BY DEF IInv
<1>1. /\ pc' = [pc EXCEPT ![g] = "idle"]
      /\ object' = [a \in Addresses |-> IF a \in Own(g) THEN Empty(a) ELSE object[a]]
      /\ map' = [a \in References |-> IF a \in Own(g) THEN {} ELSE map[a]]
      /\ op' = [op EXCEPT ![g] = << >>]
      /\ out' = [out EXCEPT ![g] = Fresh(g, "out")] /\ obj' = [obj EXCEPT ![g] = Fresh(g, "obj")]
      /\ entry' = [entry EXCEPT ![g] = Nil] /\ sent' = [sent EXCEPT ![g] = Nil]
      /\ reply' = [reply EXCEPT ![g] = << >>] /\ got' = [got EXCEPT ![g] = << >>]
  BY DEF Return, At, Own
<1>2. \A a \in Own(g) \cap Addresses :
         /\ object'[a].spec = Nil /\ DOMAIN object'[a].items = {} /\ object'[a] \in Structs
  <2>. SUFFICES ASSUME NEW a \in Own(g), a \in Addresses
                PROVE  /\ object'[a].spec = Nil /\ DOMAIN object'[a].items = {}
                       /\ object'[a] \in Structs
    OBVIOUS
  <2>1. object'[a] = [meta |-> NoMeta, spec |-> Nil, items |-> << >>]
    BY <1>1 DEF Empty
  <2>2. << >> \in Seq(Addresses) /\ DOMAIN << >> = {}
    OBVIOUS
  <2>3. [meta |-> NoMeta, spec |-> Nil, items |-> << >>] \in Structs
    BY <2>2 DEF Structs
  <2>. QED  BY <2>1, <2>2, <2>3
<1>3. object' \in [Addresses -> Structs]
  <2>1. \A a \in Addresses : object'[a] \in Structs
    BY <1>0, <1>1, <1>2 DEF TypeOK
  <2>. QED  BY <1>1, <2>1
<1>4. map' \in [References -> SUBSET UNION {v.spec : v \in Values}]
  BY <1>0, <1>1 DEF TypeOK
<1>5. TypeOK'
  <2>1. Fresh(g, "out") \in Addresses /\ Fresh(g, "obj") \in Addresses
    BY AddressesAreDistinct
  <2>2. pc' \in [Goroutines -> Statements]
    BY <1>0, <1>1 DEF TypeOK, Statements
  <2>3. op' \in [Goroutines -> ({"Get", "List", "Create"} \X Types) \cup {<< >>}]
    BY <1>0, <1>1 DEF TypeOK
  <2>4. out' \in [Goroutines -> Addresses] /\ obj' \in [Goroutines -> Addresses]
    BY <1>0, <1>1, <2>1 DEF TypeOK
  <2>5. entry' \in [Goroutines -> Values \cup {Nil}] /\ sent' \in [Goroutines -> Values \cup {Nil}]
    BY <1>0, <1>1 DEF TypeOK
  <2>6. reply' \in [Goroutines -> Seq(Values)] /\ got' \in [Goroutines -> Seq(Values)]
    <3>1. << >> \in Seq(Values)
      OBVIOUS
    <3>. QED  BY <1>0, <1>1, <3>1 DEF TypeOK
  <2>. QED  BY <1>3, <1>4, <2>2, <2>3, <2>4, <2>5, <2>6 DEF TypeOK
<1>6. Frame(g)
  BY <1>0, <1>1 DEF TypeOK, Frame
<1>7. /\ pc'[g] = "idle" /\ out'[g] = Fresh(g, "out") /\ obj'[g] = Fresh(g, "obj")
      /\ reply'[g] = << >> /\ got'[g] = << >>
  BY <1>0, <1>1 DEF TypeOK
<1>8. Closed(g)'
  BY <1>2, <1>7 DEF Closed
<1>9. Progress(g)'
  <2>1. Len(reply'[g]) = 0 /\ Len(got'[g]) = 0 /\ DOMAIN got'[g] = {}
    BY <1>7
  <2>2. Len(reply'[g]) <= MaxItems /\ Len(got'[g]) <= Len(reply'[g])
    BY <2>1, WireObjectsAssumption
  <2>. QED  BY <1>7, <2>1, <2>2 DEF Progress
<1>10. Outgoing(g)'
  BY <1>7 DEF Outgoing
<1>11. Incoming(g)'
  BY <1>7 DEF Incoming
<1>. QED  BY <1>5, <1>6, <1>8, <1>9, <1>10, <1>11 DEF StepKeeps, Local

-----------------------------------------------------------------------------
(* The inductive invariant *)

(* Every step keeps the invariant, also of the goroutines that do not step. *)
LEMMA NextKeepsInvariant ==
    ASSUME IInv, Next
    PROVE  IInv'
<1>1. PICK g \in Goroutines : Get(g) \/ List(g) \/ Create(g) \/ Step(g)
  BY DEF Next
<1>2. StepKeeps(g)
  BY <1>1, CallKeeps, ConvertConfigKeeps, SetObjectMetaKeeps, SetSpecKeeps,
     CopyPrototypeKeeps, SendKeeps, SendFailsKeeps, DecodeMetaKeeps, DecodeSpecKeeps,
     DecodeItemsKeeps, ConvertItemKeeps, LoopEndsKeeps, ReturnKeeps DEF Step
<1>3. PrototypesAreEmpty'
  <2>. SUFFICES ASSUME NEW a \in Prototypes
                PROVE  object'[a] = Empty(a)
    BY DEF PrototypesAreEmpty, Empty
  <2>1. a \in Addresses \ Own(g)
    BY AddressesAreDistinct
  <2>. QED  BY <1>2, <2>1 DEF StepKeeps, Frame, IInv, PrototypesAreEmpty
<1>4. \A h \in Goroutines : Local(h)'
  BY <1>2, StepIsLocal DEF StepKeeps, IInv
<1>. QED  BY <1>2, <1>3, <1>4 DEF StepKeeps, IInv

\* The invariant holds when no goroutine has begun: there are the prototypes only.
LEMMA InitIsInvariant == Init => IInv
<1>. SUFFICES ASSUME Init PROVE IInv
  OBVIOUS
<1>1. /\ << >> \in Seq(Addresses) /\ << >> \in Seq(Values)
      /\ Len(<< >>) = 0 /\ DOMAIN << >> = {}
  OBVIOUS
<1>2. \A a \in Addresses :
         /\ object[a] = Empty(a) /\ object[a] \in Structs
         /\ object[a].spec = Nil /\ DOMAIN object[a].items = {}
  <2>. SUFFICES ASSUME NEW a \in Addresses
                PROVE  /\ object[a] = Empty(a) /\ object[a] \in Structs
                       /\ object[a].spec = Nil /\ DOMAIN object[a].items = {}
    OBVIOUS
  <2>1. object[a] = [meta |-> NoMeta, spec |-> Nil, items |-> << >>]
    BY DEF Init, Empty
  <2>2. [meta |-> NoMeta, spec |-> Nil, items |-> << >>] \in Structs
    BY <1>1 DEF Structs
  <2>. QED  BY <1>1, <2>1, <2>2 DEF Empty
<1>3. TypeOK
  <2>1. object \in [Addresses -> Structs]
    BY <1>2 DEF Init
  <2>2. map \in [References -> SUBSET UNION {v.spec : v \in Values}]
    BY DEF Init
  <2>3. pc \in [Goroutines -> Statements]
    BY DEF Init, Statements
  <2>4. out \in [Goroutines -> Addresses] /\ obj \in [Goroutines -> Addresses]
    BY AddressesAreDistinct DEF Init
  <2>5. /\ op \in [Goroutines -> ({"Get", "List", "Create"} \X Types) \cup {<< >>}]
        /\ entry \in [Goroutines -> Values \cup {Nil}] /\ sent \in [Goroutines -> Values \cup {Nil}]
    BY DEF Init
  <2>6. reply \in [Goroutines -> Seq(Values)] /\ got \in [Goroutines -> Seq(Values)]
    BY <1>1 DEF Init
  <2>. QED  BY <2>1, <2>2, <2>3, <2>4, <2>5, <2>6 DEF TypeOK
<1>4. PrototypesAreEmpty
  BY <1>2 DEF PrototypesAreEmpty, Addresses
<1>5. ASSUME NEW g \in Goroutines
      PROVE  Local(g)
  <2>1. pc[g] = "idle" /\ reply[g] = << >> /\ got[g] = << >>
    BY DEF Init
  <2>2. Closed(g)
    BY <1>2 DEF Init, Closed
  <2>3. Progress(g)
    <3>1. Len(reply[g]) = 0 /\ Len(got[g]) = 0 /\ DOMAIN got[g] = {}
      BY <1>1, <2>1
    <3>2. Len(reply[g]) <= MaxItems /\ Len(got[g]) <= Len(reply[g])
      BY <3>1, WireObjectsAssumption
    <3>. QED  BY <2>1, <3>1, <3>2 DEF Progress
  <2>4. Outgoing(g) /\ Incoming(g)
    BY <2>1 DEF Outgoing, Incoming
  <2>. QED  BY <2>2, <2>3, <2>4 DEF Local
<1>. QED  BY <1>3, <1>4, <1>5 DEF IInv

\* The invariant holds in every reachable state.
LEMMA InvariantHolds == Spec => []IInv
<1>1. IInv /\ [Next]_vars => IInv'
  <2>. SUFFICES ASSUME IInv, UNCHANGED vars
                PROVE  IInv'
    BY NextKeepsInvariant
  <2>1. TypeOK'
    BY DEF IInv, TypeOK, vars
  <2>2. PrototypesAreEmpty'
    BY DEF IInv, PrototypesAreEmpty, Empty, vars
  <2>3. ASSUME NEW g \in Goroutines
        PROVE  Local(g)'
    <3>1. Local(g)
      BY DEF IInv
    <3>2. Closed(g)'
      BY <3>1 DEF Local, Closed, vars
    <3>3. Progress(g)'
      BY <3>1 DEF Local, Progress, vars
    <3>4. Outgoing(g)'
      BY <3>1 DEF Local, Outgoing, vars
    <3>5. Incoming(g)'
      BY <3>1 DEF Local, Incoming, Holds, vars
    <3>. QED  BY <3>2, <3>3, <3>4, <3>5 DEF Local
  <2>. QED  BY <2>1, <2>2, <2>3 DEF IInv
<1>. QED  BY <1>1, InitIsInvariant, PTL DEF Spec

-----------------------------------------------------------------------------
(* What follows from it *)

(***************************************************************************)
(* Every variable holds a value of its type: in particular a struct only   *)
(* refers to structs and maps there are, and what is sent and returned are *)
(* entries (client.go:262-393, conversion.go:25-62).                       *)
(***************************************************************************)
THEOREM ObjectsAreTyped == Spec => []TypeOK
<1>1. IInv => TypeOK
  BY DEF IInv
<1>. QED  BY <1>1, InvariantHolds, PTL

(***************************************************************************)
(* What the server receives is the entry the caller passed, for any number *)
(* of goroutines that create at the same time (conversion.go:52-60).       *)
(***************************************************************************)
THEOREM EntriesAreSent == Spec => []SentIsEntry
<1>1. IInv => SentIsEntry
  BY DEF IInv, SentIsEntry, Local, Outgoing
<1>. QED  BY <1>1, InvariantHolds, PTL

(***************************************************************************)
(* What Get and List return is the answer to that very call, all of it and *)
(* nothing else, for lists of any length (client.go:270-288, 375-393).     *)
(***************************************************************************)
THEOREM RepliesAreReturned == Spec => []ReturnedIsReply
<1>1. IInv => ReturnedIsReply
  BY DEF IInv, ReturnedIsReply, Local, Progress
<1>. QED  BY <1>1, InvariantHolds, PTL

(***************************************************************************)
(* Nothing that a goroutine writes can be reached by another one or from a *)
(* prototype, although DeepCopyInto copies the reference to the Spec map   *)
(* (template.go:68-73): the prototypes have no map to share.               *)
(***************************************************************************)
THEOREM GoroutinesShareNothing == Spec => []NothingIsShared
<1>1. ASSUME IInv, NEW g \in Goroutines
      PROVE  Reached(g) \subseteq Own(g) /\ MapsOf(Reached(g)) \subseteq Own(g)
  <2>1. Closed(g) /\ TypeOK
    BY <1>1 DEF IInv, Local
  <2>2. {out[g], obj[g]} \subseteq Own(g) \cap Addresses
    BY <2>1, AddressesAreDistinct DEF Closed
  <2>3. ASSUME NEW a \in {out[g], obj[g]}, NEW i \in DOMAIN object[a].items
        PROVE  object[a].items[i] \in Own(g) \cap Addresses
    <3>1. object[a] \in Structs
      BY <2>1, <2>2 DEF TypeOK
    <3>2. object[a].items \in Seq(Addresses)
      BY <3>1 DEF Structs
    <3>3. object[a].items[i] \in Addresses
      BY <3>2
    <3>. QED  BY <2>1, <2>2, <3>3 DEF Closed
  <2>4. Reached(g) \subseteq Own(g) \cap Addresses
    BY <2>2, <2>3 DEF Reached
  <2>. QED  BY <2>1, <2>4 DEF MapsOf, Closed
<1>2. ASSUME IInv
      PROVE  NothingIsShared
  <2>1. \A a \in Prototypes : object[a].spec = Nil /\ object[a].items = << >>
    BY <1>2 DEF IInv, PrototypesAreEmpty, Empty
  <2>2. \A g \in Goroutines : Prototypes \cap Reached(g) = {}
    BY <1>1, <1>2, AddressesAreDistinct
  <2>3. ASSUME NEW g \in Goroutines, NEW h \in Goroutines, g # h
        PROVE  /\ Reached(g) \cap Reached(h) = {}
               /\ MapsOf(Reached(g)) \cap MapsOf(Reached(h)) = {}
    <3>1. Own(g) \cap Own(h) = {}
      BY <2>3, AddressesAreDistinct
    <3>2. /\ Reached(g) \subseteq Own(g) /\ MapsOf(Reached(g)) \subseteq Own(g)
          /\ Reached(h) \subseteq Own(h) /\ MapsOf(Reached(h)) \subseteq Own(h)
      BY <1>1, <1>2
    <3>. QED  BY <3>1, <3>2
  <2>. QED  BY <2>1, <2>2, <2>3 DEF NothingIsShared
<1>. QED  BY <1>2, InvariantHolds, PTL
=============================================================================
