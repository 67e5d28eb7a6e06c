----------------------------- MODULE ConfigFiles -----------------------------
(***************************************************************************)
(* Entries in YAML files (Descriptor.ToYAML, FromYAML and FromJSON,        *)
(* pkg/model/config/schema.go:180-274), beside the store they are read     *)
(* from and written to.  A file keeps all of Meta, the revision included,  *)
(* and the JSON of the message; it outlives the state it was taken from,   *)
(* and people write and edit it by hand.                                   *)
(***************************************************************************)
EXTENDS CrdClient

CONSTANTS
    HandWritten,  \* files people write
    NoFile

VARIABLE file

fileVars == <<vars, file>>

(* JSONConfig, as it is laid out in a file.                                *)
Files == [typ : Types, name : Names, home : Homes \cup {NoHome},
          ann : Annotations, rev : Nat, json : Json]

ASSUME ConfigFilesAssumption ==
    HandWritten \subseteq {f \in Files : f.rev = 0} /\ NoFile \notin Files

-----------------------------------------------------------------------------
Document(e, json) == [typ |-> e.typ, name |-> e.name, home |-> e.home,
                      ann |-> e.ann, rev |-> e.rev, json |-> json]

Entry(f, m) == [typ |-> f.typ, name |-> f.name, home |-> f.home,
                ann |-> f.ann, rev |-> f.rev, spec |-> m]

\* Mistake: Meta is written without IstioNamespace, as convertConfig does.
ToYAMLWithoutHome(e) == Document([e EXCEPT !.home = NoHome], ToJSONMap(e.spec))

ToYAML(e) == Document(e, ToJSONMap(e.spec))

\* Mistakes in FromYAML: the type is not looked up; the file names its message.
FromYAMLUnknown(f) ==
    {e \in {Entry(f, FromJSONMap(f.typ, f.json))} : Decodes(f.typ, f.json) /\ Validate(f.typ, e.spec)}
FromYAMLByMessage(f) ==
    {e \in {Entry(f, f.json)} : f.typ \in Descriptor /\ f.json.msg \in Types}

(***************************************************************************)
(* The entry in a file; there is none when its type is unknown, its JSON   *)
(* is not of the message type, or the message is not valid.                *)
(***************************************************************************)
FromYAML(f) ==
    {e \in {Entry(f, FromJSONMap(f.typ, f.json))} :
        f.typ \in Descriptor /\ Decodes(f.typ, f.json) /\ Validate(f.typ, e.spec)}

-----------------------------------------------------------------------------
Save(c) ==
    /\ Idle(c) /\ held[c] # NoEntry
    /\ held[c].typ \in Descriptor
    /\ file' = ToYAML(held[c])
    /\ UNCHANGED vars

\* Mistake: the entry gets the revision that is stored now.
LoadRefreshed(c) ==
    /\ Idle(c) /\ file # NoFile
    /\ \E e \in FromYAML(file) :
        held' = [held EXCEPT ![c] = [e EXCEPT !.rev = RevisionOf(<<e.typ, e.name>>)]]
    /\ UNCHANGED <<log, call, late, result, file>>

Load(c) ==
    /\ Idle(c) /\ file # NoFile
    /\ \E e \in FromYAML(file) : held' = [held EXCEPT ![c] = e]
    /\ UNCHANGED <<log, call, late, result, file>>

(* Create of an entry that comes from a file.                              *)
CreateHeld(c) ==
    /\ Idle(c) /\ held[c] # NoEntry
    /\ LET e == held[c] IN
        \/ ~(e.typ \in Descriptor /\ Validate(e.typ, e.spec))
           /\ Fails(c, "Create", <<e.typ, e.name>>)
        \/ e.typ \in Descriptor /\ Validate(e.typ, e.spec)
           /\ Sends(c, e, convertConfig("POST", e))
    /\ UNCHANGED <<held, file>>

(* A person adds to the spec, changes the type or removes the revision.    *)
Amended(f) ==
    {[f EXCEPT !.json = [msg |-> m, body |-> f.json.body \cup {p}]] :
        p \in Pairs, m \in IF f.json.msg = NoMessage THEN Types ELSE {f.json.msg}}
      \cup {[f EXCEPT !.typ = t] : t \in Types} \cup {[f EXCEPT !.rev = 0]}

WriteByHand ==
    /\ \/ file' \in HandWritten
       \/ file # NoFile /\ file' \in Amended(file)
    /\ UNCHANGED vars

-----------------------------------------------------------------------------
FilesInit == Init /\ file = NoFile

FilesNext ==
    \/ Next /\ UNCHANGED file
    \/ \E c \in Callers : Save(c) \/ Load(c) \/ CreateHeld(c)
    \/ WriteByHand

FilesSpec == FilesInit /\ [][FilesNext]_fileVars

-----------------------------------------------------------------------------
(* Properties *)

(***************************************************************************)
(* The file is one, and what callers hold, files and the store being its   *)
(* only sources, is of a known type with a message of that type.           *)
(***************************************************************************)
FilesTypeOK ==
    /\ file \in Files \cup {NoFile}
    /\ held \in [Callers -> {e \in Entries : e.typ \in Descriptor /\ e.spec.msg = e.typ} \cup {NoEntry}]

(***************************************************************************)
(* A valid entry survives the way through a file in every field, also      *)
(* IstioNamespace, which it loses in the store (schema.go:220-274).  An    *)
(* invalid one, which only others can have stored, is written by ToYAML    *)
(* and refused by FromYAML.                                                *)
(***************************************************************************)
FilesRoundTrip ==
    \A c \in Callers : held[c] # NoEntry =>
        FromYAML(ToYAML(held[c])) = {e \in {held[c]} : Validate(e.typ, e.spec)}
=============================================================================
