--------------------------- MODULE CrdClientStore ---------------------------
(***************************************************************************)
(* crd.Client implements config.Store: the refinement mapping from         *)
(* CrdClient to ConfigStore.  Wire objects map to what they decode to, an  *)
(* open write request to the mutation it asks for, and everything that     *)
(* concerns reads in flight, validation and answers maps to nothing.       *)
(***************************************************************************)
EXTENDS CrdClient

CONSTANTS Absent, Opaque, NoMutation

StoreContents == [ann : Annotations, spec : Messages]

ASSUME CrdClientStoreAssumption ==
    /\ Absent \notin StoreContents /\ Opaque \notin StoreContents
    /\ Absent # Opaque
    /\ NoMutation \notin [op : {"Create", "Update", "Delete"}, key : Keys, rev : Nat,
                          content : StoreContents \cup {Absent}]

ContentOf(k, obj) ==
    IF obj = NoObject THEN Absent
    ELSE IF Decodes(k[1], obj.json)
         THEN [ann |-> obj.ann, spec |-> FromJSONMap(k[1], obj.json)]
         ELSE Opaque

OpOf(verb) == CASE verb = "POST" -> "Create" [] verb = "PUT" -> "Update"
                [] verb = "DELETE" -> "Delete"

MutationOf(req) ==
    [op |-> OpOf(req.verb), key |-> req.key, rev |-> req.rev,
     content |-> ContentOf(req.key, req.obj)]

WriteOf(w) == [key |-> w.key, content |-> ContentOf(w.key, w.obj)]

OpenOf(cl) ==
    IF cl.req # NoRequest /\ Mutator(cl.req)
    THEN [mutation |-> MutationOf(cl.req),
          done |-> IF cl.reply = NoReply THEN 0 ELSE cl.reply.rev]
    ELSE [mutation |-> NoMutation, done |-> 0]

AdriftOf(req) == IF req = NoRequest THEN NoMutation ELSE MutationOf(req)

HoldOf(e) ==
    IF e = NoEntry THEN NoEntry
    ELSE [key |-> <<e.typ, e.name>>, rev |-> e.rev,
          content |-> [ann |-> e.ann, spec |-> e.spec]]

histBar   == [i \in 1..Len(log) |-> WriteOf(log[i])]
openBar   == [c \in Callers |-> OpenOf(call[c])]
adriftBar == [s \in Slots |-> AdriftOf(late[s])]
holdsBar  == [c \in Callers |-> HoldOf(held[c])]

Store == INSTANCE ConfigStore
         WITH Contents <- StoreContents, hist <- histBar, open <- openBar,
              adrift <- adriftBar, holds <- holdsBar

(***************************************************************************)
(* Every behaviour of the client is one the Store interface allows: each   *)
(* mutation happens at most once and only on the state it asks for, a      *)
(* success is the truth, a failure commits to nothing (store.go:25-79).    *)
(***************************************************************************)
ImplementsStore == Store!StoreSpec
=============================================================================
