----------------------------- MODULE Conversion -----------------------------
(***************************************************************************)
(* Entries, the wire objects they are stored as, and the conversions       *)
(* between them (pkg/platform/kube/crd/conversion.go, pkg/model/config/    *)
(* schema.go, resource.go).                                                *)
(*                                                                         *)
(* A protobuf message is its message type and the set of pairs it holds.   *)
(* Its canonical JSON names fields, so an empty message leaves {} and      *)
(* forgets its type.                                                       *)
(***************************************************************************)
EXTENDS ApiServer

CONSTANTS
    Descriptor,  \* the types in the client's descriptor
    Strict,      \* types whose AdditionalValidate refuses an empty message
    Pairs,       \* what a message can hold
    Annotations, \* values of the labels and annotations of an entry
    Homes,       \* values of Meta.IstioNamespace
    NoMessage,   \* the message type of JSON that no message type has left
    NoHome,      \* an empty Meta.IstioNamespace
    NoName       \* the name in a request that lists all namespaces

Messages == [msg : Types, body : SUBSET Pairs]
Json     == [msg : Types \cup {NoMessage}, body : SUBSET Pairs]
Objects  == [ann : Annotations, json : Json]

Entries == [typ : Types, name : Names, home : Homes \cup {NoHome},
            ann : Annotations, rev : Nat, spec : Messages]

-----------------------------------------------------------------------------
ToJSONMap(m) == [msg |-> IF m.body = {} THEN NoMessage ELSE m.msg, body |-> m.body]

Decodes(typ, json) == json.msg = typ \/ json.body = {}

FromJSONMap(typ, json) == [msg |-> typ, body |-> json.body]

Validate(typ, m) == typ \in Strict => m.body # {}

\* Mistakes in convertConfig that the properties below exclude: the revision,
\* the spec or the name is not copied, or the schema of another type is used.
convertConfigNoRevision(verb, e) ==
    [verb |-> verb, key |-> <<e.typ, e.name>>, rev |-> 0,
     obj |-> [ann |-> e.ann, json |-> ToJSONMap(e.spec)]]
convertConfigNoSpec(verb, e) ==
    [verb |-> verb, key |-> <<e.typ, e.name>>, rev |-> e.rev,
     obj |-> [ann |-> e.ann, json |-> [msg |-> NoMessage, body |-> {}]]]
convertConfigNoName(verb, e) ==
    [verb |-> verb, key |-> <<e.typ, NoName>>, rev |-> e.rev,
     obj |-> [ann |-> e.ann, json |-> ToJSONMap(e.spec)]]
convertConfigWrongSchema(verb, e) ==
    [verb |-> verb, key |-> <<CHOOSE t \in Descriptor : t # e.typ, e.name>>, rev |-> e.rev,
     obj |-> [ann |-> e.ann, json |-> ToJSONMap(e.spec)]]

convertConfig(verb, e) ==
    [verb |-> verb, key |-> <<e.typ, e.name>>, rev |-> e.rev,
     obj |-> [ann |-> e.ann, json |-> ToJSONMap(e.spec)]]

convertObject(k, obj, rev) ==
    [typ |-> k[1], name |-> k[2], home |-> NoHome, ann |-> obj.ann,
     rev |-> rev, spec |-> FromJSONMap(k[1], obj.json)]
=============================================================================
