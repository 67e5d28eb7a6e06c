----------------------------- MODULE WireObjects -----------------------------
(***************************************************************************)
(* The Kubernetes objects that goroutines send and receive, as they lie in *)
(* memory (pkg/platform/kube/crd/template.go, generate.sh:55-93, and their *)
(* use in client.go:262-393 and conversion.go:25-62).  All goroutines      *)
(* share two prototypes of each type, an object and a collection; a call   *)
(* copies one and fills the copy in.  The copy is shallow in one place:    *)
(* DeepCopyInto copies the reference to the Spec map.                      *)
(*                                                                         *)
(* A step is one statement that touches an object, so that goroutines      *)
(* interleave between statements.  Maps are sets of pairs; the values of   *)
(* ObjectMeta, whose copy is deep, are values here.                        *)
(***************************************************************************)
EXTENDS Naturals, Sequences

CONSTANTS
    Goroutines, Types,
    Values,     \* what objects hold: an ObjectMeta and a set of pairs
    NoMeta,     \* ObjectMeta without a value
    Nil,        \* no map, no entry
    MaxItems    \* bound on the length of a list

VARIABLES
    object,     \* the structs, by address
    map,        \* the maps, by reference
    pc, op,     \* the statement each goroutine is at, in which method
    out, obj,   \* the pointers of that method
    entry,      \* what it has to write
    sent,       \* the body of its last request
    reply,      \* what the server has answered, an item of a list each
    got         \* what the method has made of it

vars == <<object, map, pc, op, out, obj, entry, sent, reply, got>>

(***************************************************************************)
(* Structs lie at the address of the statement that has made them.  The    *)
(* decoder makes the map of a struct, ToJSONMap those of entries.          *)
(***************************************************************************)
Prototype(kind, t) == <<kind, t>>
Fresh(g, n)  == <<g, n>>
Item(g, i)   == <<g, "item", i>>

Prototypes == {Prototype(kind, t) : kind \in {"object", "collection"}, t \in Types}

Addresses == Prototypes
                \cup {Fresh(g, n) : g \in Goroutines, n \in {"out", "obj"}}
                \cup {Item(g, i) : g \in Goroutines, i \in 1..MaxItems}
References == Addresses \cup {Fresh(g, "json") : g \in Goroutines}

Metas   == {v.meta : v \in Values}
Structs == [meta : Metas \cup {NoMeta}, spec : References \cup {Nil}, items : Seq(Addresses)]

ASSUME WireObjectsAssumption ==
    /\ Values \subseteq [meta : Metas, spec : {v.spec : v \in Values}]
    /\ NoMeta \notin Metas /\ Nil \notin References
    /\ MaxItems \in Nat
    /\ {"object", "collection"} \cap Goroutines = {}

-----------------------------------------------------------------------------
(* template.go and generate.sh *)

\* Mistake: the prototype is generated with an empty map for its Spec.
EmptyWithMap(a) == [meta |-> NoMeta, spec |-> a, items |-> << >>]

Empty(a) == [meta |-> NoMeta, spec |-> Nil, items |-> << >>]

\* Mistake: the receiver is returned in place of its copy.
DeepCopyOfNothing(a, to) == [at |-> a, memory |-> object]

(* The struct at a is copied to a new one, which shares its Spec map.      *)
DeepCopyObject(a, to) == [at |-> to, memory |-> [object EXCEPT ![to] = object[a]]]

GetSpec(a) == IF object[a].spec = Nil THEN {} ELSE map[object[a].spec]

GetItems(a) == object[a].items

-----------------------------------------------------------------------------
(* The methods of Client *)

At(g, here, there) == pc[g] = here /\ pc' = [pc EXCEPT ![g] = there]

Call(g, method, first) ==
    /\ At(g, "idle", first)
    /\ \E t \in Types : op' = [op EXCEPT ![g] = <<method, t>>]
    /\ UNCHANGED <<object, map, out, obj, sent, reply, got>>

Get(g)  == Call(g, "Get", "copy")  /\ UNCHANGED entry
List(g) == Call(g, "List", "copy") /\ UNCHANGED entry

(* Create and Update treat objects alike.                                  *)
Create(g) == Call(g, "Create", "convert") /\ \E e \in Values : entry' = [entry EXCEPT ![g] = e]

(* convertConfig: the spec becomes a map, the prototype is copied, and the *)
(* copy gets its metadata and its spec.                                    *)
ConvertConfig(g) ==
    /\ At(g, "convert", "setMeta")
    /\ map' = [map EXCEPT ![Fresh(g, "json")] = entry[g].spec]
    /\ LET copy == DeepCopyObject(Prototype("object", op[g][2]), Fresh(g, "out"))
       IN  out' = [out EXCEPT ![g] = copy.at] /\ object' = copy.memory
    /\ UNCHANGED <<op, obj, entry, sent, reply, got>>

\* Mistake: the metadata of the entry is not set.
SetNoObjectMeta(g) ==
    /\ At(g, "setMeta", "setSpec")
    /\ UNCHANGED <<object, map, op, out, obj, entry, sent, reply, got>>

SetObjectMeta(g) ==
    /\ At(g, "setMeta", "setSpec")
    /\ object' = [object EXCEPT ![out[g]].meta = entry[g].meta]
    /\ UNCHANGED <<map, op, out, obj, entry, sent, reply, got>>

SetSpec(g) ==
    /\ At(g, "setSpec", "copy")
    /\ object' = [object EXCEPT ![out[g]].spec = Fresh(g, "json")]
    /\ UNCHANGED <<map, op, out, obj, entry, sent, reply, got>>

(* The object, or for List the collection, that the answer is read into.   *)
CopyPrototype(g) ==
    /\ At(g, "copy", "send")
    /\ LET kind == IF op[g][1] = "List" THEN "collection" ELSE "object"
           copy == DeepCopyObject(Prototype(kind, op[g][2]), Fresh(g, "obj"))
       IN  obj' = [obj EXCEPT ![g] = copy.at] /\ object' = copy.memory
    /\ UNCHANGED <<map, op, out, entry, sent, reply, got>>

(* The request goes out and is answered; what is created comes back.       *)
Send(g) ==
    /\ At(g, "send", IF op[g][1] = "List" THEN "decodeItems" ELSE "decodeMeta")
    /\ \/ /\ op[g][1] = "Create"
          /\ sent' = [sent EXCEPT ![g] = [meta |-> object[out[g]].meta, spec |-> GetSpec(out[g])]]
          /\ reply' = [reply EXCEPT ![g] = <<sent'[g]>>]
       \/ /\ op[g][1] = "Get" /\ UNCHANGED sent
          /\ \E v \in Values : reply' = [reply EXCEPT ![g] = <<v>>]
       \/ /\ op[g][1] = "List" /\ UNCHANGED sent
          /\ \E n \in 0..MaxItems : \E vs \in [1..n -> Values] : reply' = [reply EXCEPT ![g] = vs]
    /\ UNCHANGED <<object, map, op, out, obj, entry, got>>

(* An error leaves the struct as it was copied: no item, nothing returned. *)
SendFails(g) ==
    /\ At(g, "send", "return")
    /\ UNCHANGED <<object, map, op, out, obj, entry, sent, reply, got>>

(***************************************************************************)
(* Into decodes the answer field by field.  The decoder makes a map where  *)
(* there is none, and adds to the map that is there; it makes the items of *)
(* a list anew.                                                            *)
(***************************************************************************)
DecodeMeta(g) ==
    /\ At(g, "decodeMeta", "decodeSpec")
    /\ object' = [object EXCEPT ![obj[g]].meta = reply[g][1].meta]
    /\ UNCHANGED <<map, op, out, obj, entry, sent, reply, got>>

DecodeSpec(g) ==
    /\ At(g, "decodeSpec", IF op[g][1] = "Get" THEN "convertItem" ELSE "return")
    /\ \/ /\ object[obj[g]].spec = Nil
          /\ object' = [object EXCEPT ![obj[g]].spec = obj[g]]
          /\ map' = [map EXCEPT ![obj[g]] = reply[g][1].spec]
       \/ /\ object[obj[g]].spec # Nil
          /\ map' = [map EXCEPT ![object[obj[g]].spec] = @ \cup reply[g][1].spec]
          /\ UNCHANGED object
    /\ UNCHANGED <<op, out, obj, entry, sent, reply, got>>

DecodeItems(g) ==
    /\ At(g, "decodeItems", "convertItem")
    /\ LET made  == DOMAIN reply[g]
           here  == {Item(g, i) : i \in made}
       IN  /\ object' = [a \in Addresses |->
                  CASE a \in here   -> [meta |-> reply[g][a[3]].meta, spec |-> a, items |-> << >>]
                    [] a = obj[g]   -> [object[a] EXCEPT !.items = [i \in made |-> Item(g, i)]]
                    [] OTHER        -> object[a]]
           /\ map' = [r \in References |-> IF r \in here THEN reply[g][r[3]].spec ELSE map[r]]
    /\ UNCHANGED <<op, out, obj, entry, sent, reply, got>>

(* The loop over the items, or the one turn that Get takes: convertObject.  *)
ToConvert(g) == IF op[g][1] = "Get" THEN <<obj[g]>> ELSE GetItems(obj[g])

ConvertItem(g) ==
    LET i == Len(got[g]) + 1
        a == ToConvert(g)[i]
    IN  /\ At(g, "convertItem", "convertItem") /\ i <= Len(ToConvert(g))
        /\ got' = [got EXCEPT ![g] = Append(@, [meta |-> object[a].meta, spec |-> GetSpec(a)])]
        /\ UNCHANGED <<object, map, op, out, obj, entry, sent, reply>>

LoopEnds(g) ==
    /\ At(g, "convertItem", "return") /\ Len(got[g]) >= Len(ToConvert(g))
    /\ UNCHANGED <<object, map, op, out, obj, entry, sent, reply, got>>

(* What the call has made is garbage then; prototypes never are.           *)
Return(g) ==
    LET own == {Fresh(g, n) : n \in {"out", "obj", "json"}} \cup {Item(g, i) : i \in 1..MaxItems}
    IN  /\ At(g, "return", "idle")
        /\ object' = [a \in Addresses |-> IF a \in own THEN Empty(a) ELSE object[a]]
        /\ map' = [a \in References |-> IF a \in own THEN {} ELSE map[a]]
        /\ op' = [op EXCEPT ![g] = << >>]
        /\ out' = [out EXCEPT ![g] = Fresh(g, "out")] /\ obj' = [obj EXCEPT ![g] = Fresh(g, "obj")]
        /\ entry' = [entry EXCEPT ![g] = Nil] /\ sent' = [sent EXCEPT ![g] = Nil]
        /\ reply' = [reply EXCEPT ![g] = << >>] /\ got' = [got EXCEPT ![g] = << >>]

-----------------------------------------------------------------------------
Init ==
    /\ object = [a \in Addresses |-> Empty(a)]
    /\ map = [r \in References |-> {}]
    /\ pc = [g \in Goroutines |-> "idle"]
    /\ op = [g \in Goroutines |-> << >>]
    /\ out = [g \in Goroutines |-> Fresh(g, "out")]
    /\ obj = [g \in Goroutines |-> Fresh(g, "obj")]
    /\ entry = [g \in Goroutines |-> Nil]
    /\ sent = [g \in Goroutines |-> Nil]
    /\ reply = [g \in Goroutines |-> << >>]
    /\ got = [g \in Goroutines |-> << >>]

Step(g) ==
    \/ ConvertConfig(g) \/ SetObjectMeta(g) \/ SetSpec(g) \/ CopyPrototype(g) \/ Send(g)
    \/ SendFails(g) \/ DecodeMeta(g) \/ DecodeSpec(g) \/ DecodeItems(g) \/ ConvertItem(g)
    \/ LoopEnds(g) \/ Return(g)

Next == \E g \in Goroutines : Get(g) \/ List(g) \/ Create(g) \/ Step(g)

Spec == Init /\ [][Next]_vars

-----------------------------------------------------------------------------
(* Properties *)

Statements == {"idle", "convert", "setMeta", "setSpec", "copy", "send",
               "decodeMeta", "decodeSpec", "decodeItems", "convertItem", "return"}

\* Every variable holds a value of its type.
TypeOK ==
    /\ object \in [Addresses -> Structs]
    /\ map \in [References -> SUBSET UNION {v.spec : v \in Values}]
    /\ pc \in [Goroutines -> Statements]
    /\ op \in [Goroutines -> ({"Get", "List", "Create"} \X Types) \cup {<< >>}]
    /\ out \in [Goroutines -> Addresses] /\ obj \in [Goroutines -> Addresses]
    /\ entry \in [Goroutines -> Values \cup {Nil}] /\ sent \in [Goroutines -> Values \cup {Nil}]
    /\ reply \in [Goroutines -> Seq(Values)] /\ got \in [Goroutines -> Seq(Values)]

(***************************************************************************)
(* What the server receives is the entry the goroutine was given, whatever *)
(* other goroutines write at the same time (conversion.go:52-60).          *)
(***************************************************************************)
SentIsEntry ==
    \A g \in Goroutines : pc[g] = "decodeMeta" /\ op[g][1] = "Create" => sent[g] = entry[g]

(***************************************************************************)
(* What Get and List return is what the server has answered to that call:  *)
(* no pair of another goroutine's answer, or of an earlier one, and all of *)
(* the items (client.go:270-288, 375-393).                                 *)
(***************************************************************************)
ReturnedIsReply ==
    \A g \in Goroutines :
        /\ pc[g] = "return" => (op[g][1] # "Create" => got[g] = reply[g])
        /\ Len(got[g]) <= Len(reply[g])
        /\ \A i \in DOMAIN got[g] : got[g][i] = reply[g][i]

(* The structs a goroutine reaches from its pointers, and their maps.      *)
Reached(g) == LET roots == {out[g], obj[g]}
              IN  roots \cup UNION {{object[a].items[i] : i \in DOMAIN object[a].items} : a \in roots}
MapsOf(as) == {object[a].spec : a \in as} \ {Nil}

(***************************************************************************)
(* Goroutines share nothing they write: not the prototypes, and no map,    *)
(* although DeepCopyInto copies the reference to the Spec of the prototype *)
(* (template.go:68-73).  No item ever reaches a prototype: DeepCopyInto of *)
(* a collection that has one writes through a nil pointer (line 103).        *)
(***************************************************************************)
NothingIsShared ==
    /\ \A a \in Prototypes : object[a].spec = Nil /\ object[a].items = << >>
    /\ \A g \in Goroutines : Prototypes \cap Reached(g) = {}
    /\ \A g, h \in Goroutines : g # h =>
          Reached(g) \cap Reached(h) = {} /\ MapsOf(Reached(g)) \cap MapsOf(Reached(h)) = {}
=============================================================================
