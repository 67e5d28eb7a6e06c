-------------------------- MODULE ConfigFilesProofs --------------------------
(***************************************************************************)
(* Proofs about ConfigFiles, for any files people write and edit, beside   *)
(* any callers, requests and writes of others.  A file keeps a revision    *)
(* longer than anything else does, and may be amended while it does: what  *)
(* the proofs rest on is that nothing in a file is ever less than what was *)
(* stored at its revision.                                                 *)
(***************************************************************************)
EXTENDS ConfigFiles, CrdClientProofs

-----------------------------------------------------------------------------
(* The inductive invariant. *)

(* A file with a revision keeps what the write of that revision holds and  *)
(* may add to it, under whatever type it has been given since.             *)
FileCovers(f) ==
    /\ f.rev \in 1..Len(log)
    /\ log[f.rev].obj # NoObject
    /\ log[f.rev].obj.ann = f.ann
    /\ log[f.rev].obj.json.body \subseteq f.json.body

FileOK(f) == f = NoFile \/ (f \in Files /\ (f.rev # 0 => FileCovers(f)))

FInv == IInv /\ FileOK(file)

(* What a file says of the log stays true as the log grows.                *)
LEMMA FilesAreStable ==
    ASSUME log \in Seq(Writes), GrowsBy(Writes), NEW f, FileOK(f)
    PROVE  FileOK(f)'
<1>1. /\ Len(log) \in Nat /\ Len(log') \in Nat /\ Len(log) <= Len(log')
      /\ \A i \in 1..Len(log) : log'[i] = log[i]
  BY LogKeepsWrites
<1>2. FileCovers(f) => FileCovers(f)'
  BY <1>1 DEF FileCovers
<1> QED
  BY <1>2 DEF FileOK

(* The entry that is read from a file.                                     *)
LEMMA LoadedEntryOK ==
    ASSUME NEW f, FileOK(f), f # NoFile, NEW e \in FromYAML(f)
    PROVE  /\ e \in Entries /\ HeldOK(e) /\ Typed(e) /\ e.typ \in Descriptor /\ e # NoEntry
<1>1. f \in Files /\ (f.rev # 0 => FileCovers(f))
  BY DEF FileOK
<1>2. f.typ \in Descriptor /\ e = Entry(f, FromJSONMap(f.typ, f.json))
  BY DEF FromYAML
<1>3. e = [typ |-> f.typ, name |-> f.name, home |-> f.home, ann |-> f.ann, rev |-> f.rev,
           spec |-> [msg |-> f.typ, body |-> f.json.body]]
  BY <1>2 DEF Entry, FromJSONMap
<1>4. e \in Entries /\ e # NoEntry
  BY <1>1, <1>3, CrdClientAssumption DEF Files, Json, Entries, Messages
<1>5. e.rev # 0 => Covers(e)
  BY <1>1, <1>3 DEF FileCovers, Covers
<1> QED
  BY <1>2, <1>3, <1>4, <1>5 DEF HeldOK, Typed

(* The file an entry is written to.                                        *)
LEMMA SavedFileOK ==
    ASSUME NEW e \in Entries, HeldOK(e), e # NoEntry
    PROVE  FileOK(ToYAML(e))
<1>1. PICK f : f = ToYAML(e)
  OBVIOUS
<1>2. f = [typ |-> e.typ, name |-> e.name, home |-> e.home, ann |-> e.ann, rev |-> e.rev,
           json |-> ToJSONMap(e.spec)]
  BY <1>1 DEF ToYAML, Document
<1>3. ToJSONMap(e.spec) \in Json /\ ToJSONMap(e.spec).body = e.spec.body
  BY DEF ToJSONMap, Json, Entries, Messages
<1>4. f \in Files
  BY <1>2, <1>3 DEF Files, Entries
<1>5. f.rev # 0 => FileCovers(f)
  BY <1>2, <1>3 DEF HeldOK, Covers, FileCovers
<1> QED
  BY <1>1, <1>4, <1>5 DEF FileOK

(* A file that people write or edit.                                       *)
LEMMA WrittenFileOK ==
    ASSUME FileOK(file), WriteByHand
    PROVE  FileOK(file')
<1>1. PICK g : g = file'
  OBVIOUS
<1>2. CASE g \in HandWritten
  BY <1>1, <1>2, ConfigFilesAssumption DEF FileOK
<1>3. CASE file # NoFile /\ g \in Amended(file)
  <2>1. PICK f : f = file
    OBVIOUS
  <2>2. f \in Files /\ (f.rev # 0 => FileCovers(f))
    BY <1>3, <2>1 DEF FileOK
  <2>3. CASE \E p \in Pairs, m \in Types \cup {NoMessage} :
                g = [f EXCEPT !.json = [msg |-> m, body |-> f.json.body \cup {p}]]
    <3>1. PICK p \in Pairs, m \in Types \cup {NoMessage} :
                g = [f EXCEPT !.json = [msg |-> m, body |-> f.json.body \cup {p}]]
      BY <2>3
    <3>2. PICK j \in Json : j = [msg |-> m, body |-> f.json.body \cup {p}]
      BY <2>2 DEF Files, Json
    <3>3. /\ g \in Files /\ g.rev = f.rev /\ g.ann = f.ann
          /\ f.json.body \subseteq g.json.body
      BY <2>2, <3>1, <3>2 DEF Files
    <3> QED
      BY <1>1, <2>2, <3>3 DEF FileOK, FileCovers
  <2>4. CASE \E t \in Types : g = [f EXCEPT !.typ = t]
    <3>1. g \in Files /\ g.rev = f.rev /\ g.ann = f.ann /\ g.json = f.json
      BY <2>2, <2>4 DEF Files
    <3> QED
      BY <1>1, <2>2, <3>1 DEF FileOK, FileCovers
  <2>5. CASE g = [f EXCEPT !.rev = 0]
    <3>1. g \in Files /\ g.rev = 0
      BY <2>2, <2>5 DEF Files
    <3> QED
      BY <1>1, <3>1 DEF FileOK
  <2>6. f.json.msg \in Types \cup {NoMessage}
    BY <2>2 DEF Files, Json
  <2> QED
    BY <1>3, <2>1, <2>3, <2>4, <2>5, <2>6 DEF Amended
<1> QED
  BY <1>1, <1>2, <1>3 DEF WriteByHand

-----------------------------------------------------------------------------
(* The steps with files. *)

(* A caller takes up the entry of a file.                                  *)
LEMMA LoadStep ==
    ASSUME FInv, NEW c \in Callers, Load(c)
    PROVE  IInv'
<1>1. PICK f : f = file
  OBVIOUS
<1>2. PICK e \in FromYAML(f) : held' = [held EXCEPT ![c] = e]
  BY <1>1 DEF Load
<1>3. FileOK(f) /\ f # NoFile /\ UNCHANGED <<log, call, late, result>>
  BY <1>1 DEF FInv, Load
<1>4. e \in Entries /\ HeldOK(e)
  BY <1>2, <1>3, LoadedEntryOK
<1>5. IInv /\ GrowsBy(Writes) /\ log \in Seq(Writes)
  BY <1>3 DEF FInv, GrowsBy, IInv, TypeOK
<1>6. HeldOK(e)'
  BY <1>4, <1>5, FactsAreStable
<1>7. PICK cl : cl = call[c]
  OBVIOUS
<1>8. CallOK(cl) /\ cl \in CallType /\ call' = [call EXCEPT ![c] = cl]
  BY <1>3, <1>5, <1>7 DEF IInv, TypeOK, CallType
<1>9. CallOK(cl)'
  BY <1>5, <1>8, FactsAreStable
<1>10. PICK r : r = result[c]
  OBVIOUS
<1>11. r \in Results \cup {NoResult} /\ result' = [result EXCEPT ![c] = r]
  BY <1>3, <1>5, <1>10 DEF IInv, TypeOK
<1>12. /\ late' \in [Slots -> Requests \cup {NoRequest}]
       /\ \A s \in Slots : late'[s] # NoRequest => RequestOK(late'[s])
  BY <1>3, <1>5, LateStays
<1> QED
  BY <1>2, <1>4, <1>5, <1>6, <1>8, <1>9, <1>11, <1>12, CallerStep

(* A caller creates the entry of a file.                                   *)
LEMMA CreateHeldStep ==
    ASSUME FInv, NEW c \in Callers, CreateHeld(c)
    PROVE  IInv'
<1>1. PICK e : e = held[c]
  OBVIOUS
<1>2. IInv /\ e \in Entries /\ HeldOK(e) /\ held' = [held EXCEPT ![c] = e]
  BY <1>1 DEF FInv, CreateHeld, IInv, TypeOK
<1>3. CASE Fails(c, "Create", <<e.typ, e.name>>)
  <2>1. <<e.typ, e.name>> \in Types \X (Names \cup {NoName})
    BY <1>2 DEF Entries
  <2> QED
    BY <1>2, <1>3, <2>1, FailStep DEF Ops
<1>4. CASE Sends(c, e, convertConfig("POST", e))
  <2>1. PICK req : req = convertConfig("POST", e)
    OBVIOUS
  <2>2. RequestOK(req) /\ req.verb = "POST"
    BY <1>2, <2>1, ConvertConfigOK DEF RequestOK
  <2> QED
    BY <1>2, <1>4, <2>1, <2>2, SendStep
<1> QED
  BY <1>1, <1>3, <1>4 DEF CreateHeld

(* A step that leaves vars as they are.                                    *)
LEMMA FileStep ==
    ASSUME IInv, UNCHANGED vars
    PROVE  IInv' /\ GrowsBy(Writes)
BY NextOK DEF vars, GrowsBy

(* Each step grows the log by a write at most, and leaves it alone unless  *)
(* it is one of the client.                                                *)
LEMMA FilesGrow ==
    ASSUME IInv, [FilesNext]_fileVars
    PROVE  GrowsBy(Writes) /\ ([Next]_vars \/ UNCHANGED log)
<1>1. ASSUME NEW c \in Callers, Save(c) \/ Load(c) \/ CreateHeld(c) PROVE UNCHANGED log
  BY <1>1 DEF Save, Load, CreateHeld, Fails, Sends, vars
<1>2. WriteByHand => UNCHANGED log
  BY DEF WriteByHand, vars
<1>3. UNCHANGED fileVars => UNCHANGED log
  BY DEF fileVars, vars
<1>4. [Next]_vars \/ UNCHANGED log
  BY <1>1, <1>2, <1>3 DEF FilesNext
<1> QED
  BY <1>4, NextGrows DEF GrowsBy

(* Every step of the callers, of the store and of the files keeps FInv.    *)
LEMMA FilesNextOK == FInv /\ [FilesNext]_fileVars => FInv'
<1> SUFFICES ASSUME FInv, [FilesNext]_fileVars PROVE FInv'
  OBVIOUS
<1>0. IInv /\ FileOK(file) /\ log \in Seq(Writes)
  BY DEF FInv, IInv, TypeOK
<1>1. GrowsBy(Writes)
  BY <1>0, FilesGrow
<1>2. ASSUME NEW f, FileOK(f), file' = f PROVE FileOK(file)'
  BY <1>0, <1>1, <1>2, FilesAreStable
<1>3. PICK old : old = file
  OBVIOUS
<1>4. file' = file => FileOK(file)'
  BY <1>0, <1>2, <1>3
<1>5. CASE Next /\ UNCHANGED file
  BY <1>0, <1>4, <1>5, NextOK DEF FInv
<1>6. ASSUME NEW c \in Callers, Save(c) PROVE FInv'
  <2>1. PICK e : e = held[c]
    OBVIOUS
  <2>2. e \in Entries /\ HeldOK(e) /\ e # NoEntry /\ file' = ToYAML(e)
    BY <1>0, <1>6, <2>1 DEF Save, IInv, TypeOK
  <2>3. PICK f : f = ToYAML(e)
    OBVIOUS
  <2>4. FileOK(file)'
    BY <1>2, <2>2, <2>3, SavedFileOK
  <2> QED
    BY <1>0, <1>6, <2>4, FileStep DEF Save, FInv
<1>7. ASSUME NEW c \in Callers, Load(c) PROVE FInv'
  BY <1>4, <1>7, LoadStep DEF Load, FInv
<1>8. ASSUME NEW c \in Callers, CreateHeld(c) PROVE FInv'
  BY <1>4, <1>8, CreateHeldStep DEF CreateHeld, FInv
<1>9. CASE WriteByHand
  <2>1. PICK f : f = file'
    OBVIOUS
  <2>2. FileOK(f)
    BY <1>0, <1>9, <2>1, WrittenFileOK
  <2>3. FileOK(file)'
    BY <1>2, <2>1, <2>2
  <2> QED
    BY <1>0, <1>9, <2>3, FileStep DEF WriteByHand, FInv
<1>10. CASE UNCHANGED fileVars
  BY <1>0, <1>4, <1>10, FileStep DEF fileVars, FInv
<1> QED
  BY <1>5, <1>6, <1>7, <1>8, <1>9, <1>10 DEF FilesNext

(* FInv is an invariant of the client with a file beside it.               *)
LEMMA FilesInvariantOK == FilesSpec => []FInv
<1>1. FilesInit => FInv
  BY InitOK DEF FilesInit, FInv, FileOK
<1> QED
  BY <1>1, FilesNextOK, PTL DEF FilesSpec

(***************************************************************************)
(* However long ago a file was written, and whatever has been done to it   *)
(* since, an Update of the entry in it never overwrites what others have   *)
(* put into the object meanwhile (schema.go:220-274, store.go:70-75).      *)
(***************************************************************************)
THEOREM UpdatesFromFilesAreSafe == FilesSpec => UpdatesKeepOthersWork
<1>1. FInv /\ [FilesNext]_fileVars =>
        [ClientUpdate => \A k \in Keys : Live(k) /\ Live(k)' => Preserves(k)]_vars
  <2> SUFFICES ASSUME FInv, [FilesNext]_fileVars, ClientUpdate,
                      NEW k \in Keys, Live(k), Live(k)'
               PROVE  Preserves(k)
    OBVIOUS
  <2>1. IInv /\ log \in Seq(Writes)
    BY DEF FInv, IInv, TypeOK
  <2>2. [Next]_vars
    BY <2>1, FilesGrow, ClientUpdatesWrite
  <2> QED
    BY <2>1, <2>2, ClientUpdatePreserves
<1> QED
  BY <1>1, FilesInvariantOK, PTL DEF FilesSpec, UpdatesKeepOthersWork

-----------------------------------------------------------------------------
(* What callers hold, and what the client writes, is of the message type   *)
(* of its type, wherever it comes from. *)

(* Loading a file keeps TInv: FromYAML makes messages of the entry's type. *)
LEMMA TypedLoadStep ==
    ASSUME FInv, TInv, NEW c \in Callers, Load(c)
    PROVE  TInv'
<1>1. PICK f : f = file
  OBVIOUS
<1>2. PICK e \in FromYAML(f) : held' = [held EXCEPT ![c] = e]
  BY <1>1 DEF Load
<1>3. FileOK(f) /\ f # NoFile /\ UNCHANGED <<log, call, late, result>>
  BY <1>1 DEF FInv, Load
<1>4. Typed(e)
  BY <1>2, <1>3, LoadedEntryOK
<1>5. IInv /\ GoodWrite
  BY <1>3 DEF FInv, GoodWrite
<1>6. PICK cl : cl = call[c]
  OBVIOUS
<1>7. CallTyped(cl) /\ call' = [call EXCEPT ![c] = cl]
  BY <1>3, <1>5, <1>6 DEF IInv, TypeOK, TInv
<1>8. PICK r : r = result[c]
  OBVIOUS
<1>9. ResultOK(r) /\ result' = [result EXCEPT ![c] = r]
  BY <1>3, <1>5, <1>8 DEF IInv, TypeOK, TInv
<1>10. ResultOK(r)'
  BY <1>3, <1>9 DEF ResultOK, Matches
<1> QED
  BY <1>2, <1>3, <1>4, <1>5, <1>7, <1>9, <1>10, TypedLateStays, TypedCallerStep

(* So does creating the entry a file was read into.                        *)
LEMMA TypedCreateHeldStep ==
    ASSUME FInv, TInv, NEW c \in Callers, CreateHeld(c)
    PROVE  TInv'
<1>1. PICK e : e = held[c]
  OBVIOUS
<1>2. IInv /\ e \in Entries /\ Typed(e) /\ held' = [held EXCEPT ![c] = e]
  BY <1>1 DEF FInv, CreateHeld, IInv, TypeOK, TInv
<1>3. CASE Fails(c, "Create", <<e.typ, e.name>>)
  BY <1>2, <1>3, TypedFailStep
<1>4. CASE Sends(c, e, convertConfig("POST", e))
  <2>1. PICK req : req = convertConfig("POST", e)
    OBVIOUS
  <2>2. RequestDecodes(req)
    BY <1>2, <2>1, ConvertConfigDecodes
  <2> QED
    BY <1>2, <1>4, <2>1, <2>2, TypedSendStep
<1> QED
  BY <1>1, <1>3, <1>4 DEF CreateHeld

(* Every step keeps TInv.                                                  *)
LEMMA TypedFilesNextOK == WellTyped => (FInv /\ TInv /\ [FilesNext]_fileVars => TInv')
<1> SUFFICES ASSUME WellTyped, FInv, TInv, [FilesNext]_fileVars PROVE TInv'
  OBVIOUS
<1>1. ASSUME [Next]_vars PROVE TInv'
  BY <1>1, TypedNextOK DEF FInv
<1>2. ASSUME NEW c \in Callers, Save(c) PROVE UNCHANGED vars
  BY <1>2 DEF Save
<1>3. WriteByHand \/ UNCHANGED fileVars => UNCHANGED vars
  BY DEF WriteByHand, fileVars
<1> QED
  BY <1>1, <1>2, <1>3, TypedLoadStep, TypedCreateHeldStep DEF FilesNext

(* FInv and TInv are invariants together.                                  *)
LEMMA TypedFilesInvariantOK == WellTyped => (FilesSpec => [](FInv /\ TInv))
<1>1. FilesInit => TInv
  BY TypedInitOK DEF FilesInit
<1>2. CASE WellTyped
  BY <1>1, <1>2, FilesInvariantOK, TypedFilesNextOK, PTL DEF FilesSpec
<1> QED
  BY <1>2

(***************************************************************************)
(* What the client writes can be read back under its type, also when the   *)
(* entry comes from a file that people have written or edited: a message   *)
(* of another type never gets through FromYAML (schema.go:232-248).        *)
(***************************************************************************)
THEOREM FileEntriesCanBeReadBack == WellTyped => (FilesSpec => []ClientWritesDecode)
<1>1. TInv => ClientWritesDecode
  BY DEF TInv
<1>2. CASE WellTyped
  BY <1>1, <1>2, TypedFilesInvariantOK, PTL
<1> QED
  BY <1>2

-----------------------------------------------------------------------------
(* What callers hold is of a type of the descriptor. *)

(* Entries made up in memory are of types the client knows.                *)
KnownTypes == \A e \in NewEntries : e.typ \in Descriptor

KnownEntry(e) == e # NoEntry => e.typ \in Descriptor

KnownCall(cl) == cl # NoCall => cl.req.key[1] \in Descriptor

DInv == \A c \in Callers : KnownEntry(held[c]) /\ KnownCall(call[c])

(* A caller keeps DInv when what it holds and sends is of a known type.    *)
LEMMA KnownCallerStep ==
    ASSUME IInv, DInv, NEW c \in Callers,
           NEW cl, KnownCall(cl), call' = [call EXCEPT ![c] = cl],
           NEW e, KnownEntry(e), held' = [held EXCEPT ![c] = e]
    PROVE  DInv'
<1>1. ASSUME NEW d \in Callers PROVE KnownEntry(held'[d]) /\ KnownCall(call'[d])
  BY DEF IInv, TypeOK, DInv
<1> QED
  BY <1>1 DEF DInv

(* A request that is sent is one for a known type; a refused one leaves    *)
(* the call alone.                                                         *)
LEMMA KnownSendStep ==
    ASSUME IInv, DInv, NEW c \in Callers,
           \/ \E op, k : Fails(c, op, k)
           \/ \E entry, req : Sends(c, entry, req) /\ req.key[1] \in Descriptor,
           NEW e, KnownEntry(e), held' = [held EXCEPT ![c] = e]
    PROVE  DInv'
<1>1. \E cl : KnownCall(cl) /\ call' = [call EXCEPT ![c] = cl]
  <2>1. CASE \E op, k : Fails(c, op, k)
    <3>1. PICK cl : cl = call[c]
      OBVIOUS
    <3>2. KnownCall(cl) /\ call' = [call EXCEPT ![c] = cl]
      BY <2>1, <3>1 DEF IInv, TypeOK, DInv, Fails
    <3> QED
      BY <3>2
  <2>2. CASE \E entry, req : Sends(c, entry, req) /\ req.key[1] \in Descriptor
    <3>1. PICK entry, req : Sends(c, entry, req) /\ req.key[1] \in Descriptor
      BY <2>2
    <3>2. PICK cl : cl = [entry |-> entry, req |-> req, reply |-> NoReply]
      OBVIOUS
    <3>3. KnownCall(cl) /\ call' = [call EXCEPT ![c] = cl]
      BY <3>1, <3>2 DEF KnownCall, Sends
    <3> QED
      BY <3>3
  <2> QED
    BY <2>1, <2>2
<1>2. PICK cl : KnownCall(cl) /\ call' = [call EXCEPT ![c] = cl]
  BY <1>1
<1> QED
  BY <1>2, KnownCallerStep

(* What a caller goes on holding is of a known type.                       *)
LEMMA KnownHeldStays ==
    ASSUME IInv, DInv, NEW c \in Callers, UNCHANGED held
    PROVE  \E e : KnownEntry(e) /\ held' = [held EXCEPT ![c] = e]
BY DEF IInv, TypeOK, DInv

(* The key of the request an entry is converted to.                        *)
LEMMA ConvertConfigType ==
    ASSUME NEW verb, NEW e
    PROVE  convertConfig(verb, e).key[1] = e.typ
BY DEF convertConfig

(* The methods up to the request check the type.                           *)
LEMMA KnownCallStep ==
    ASSUME KnownTypes, IInv, DInv, NEW c \in Callers, Call(c)
    PROVE  DInv'
<1>1. CASE Create(c)
  <2>1. PICK e \in NewEntries :
          /\ held' = [held EXCEPT ![c] = e]
          /\ \/ Fails(c, "Create", <<e.typ, e.name>>)
             \/ e.typ \in Descriptor /\ Sends(c, e, convertConfig("POST", e))
    BY <1>1 DEF Create
  <2>2. KnownEntry(e)
    BY DEF KnownTypes, KnownEntry
  <2> QED
    BY <2>1, <2>2, ConvertConfigType, KnownSendStep
<1>2. CASE Update(c)
  <2>1. PICK e : /\ \/ Fails(c, "Update", <<e.typ, e.name>>)
                    \/ e.typ \in Descriptor /\ Sends(c, e, convertConfig("PUT", e))
    BY <1>2 DEF Update, CanUpdate
  <2>2. UNCHANGED held
    BY <1>2 DEF Update
  <2> QED
    BY <2>1, <2>2, ConvertConfigType, KnownHeldStays, KnownSendStep
<1>3. ASSUME NEW op, NEW verb, NEW ks, Ask(c, op, verb, ks) PROVE DInv'
  <2>1. PICK k : \/ Fails(c, op, k)
                 \/ k[1] \in Descriptor /\ Sends(c, NoEntry, Query(verb, k))
    BY <1>3 DEF Ask
  <2>2. Query(verb, k).key = k
    BY DEF Query
  <2>3. UNCHANGED held
    BY <1>3 DEF Ask
  <2> QED
    BY <2>1, <2>2, <2>3, KnownHeldStays, KnownSendStep
<1> QED
  BY <1>1, <1>2, <1>3 DEF Call, Delete, Get, List

(* Answers leave the requests as they are.                                 *)
LEMMA KnownServeStep ==
    ASSUME IInv, DInv, NEW c \in Callers, Serve(c)
    PROVE  DInv'
<1>1. call \in [Callers -> CallType] /\ UNCHANGED held /\ call[c] # NoCall
  BY DEF IInv, TypeOK, CallType, Serve, Sent, NoCall
<1>2. PICK old \in CallType : old = call[c]
  BY <1>1
<1>3. \E ok, rev : Answer(c, ok, rev)
  BY DEF Serve
<1>4. PICK x : call' = [call EXCEPT ![c] = [old EXCEPT !.reply = x]]
  BY <1>2, <1>3 DEF Answer
<1>5. PICK cl : cl = [old EXCEPT !.reply = x]
  OBVIOUS
<1>6. cl.req = old.req
  BY <1>5 DEF CallType
<1>7. KnownCall(cl)
  BY <1>1, <1>2, <1>6 DEF DInv, KnownCall
<1> QED
  BY <1>1, <1>4, <1>5, <1>7, KnownHeldStays, KnownCallerStep

(* What comes back is of the type that was asked for.                      *)
LEMMA KnownReturnStep ==
    ASSUME IInv, DInv, NEW c \in Callers, Return(c) \/ Lose(c)
    PROVE  DInv'
<1>1. PICK none : none = NoCall
  OBVIOUS
<1>2. KnownCall(none) /\ call' = [call EXCEPT ![c] = none]
  BY <1>1 DEF KnownCall, Return, ReturnWrite, ReturnDelete, ReturnGet, ReturnList, Lose, Returns
<1>3. PICK cl : cl = call[c]
  OBVIOUS
<1>4. ASSUME ReturnWrite(c), held' # held
      PROVE  \E e : KnownEntry(e) /\ held' = [held EXCEPT ![c] = e]
  <2>1. PICK verb \in {"POST", "PUT"} : Answered(c, verb)
    BY <1>4 DEF ReturnWrite
  <2>2. cl.entry \in Entries /\ cl.req = convertConfig(verb, cl.entry) /\ cl # NoCall
    BY <1>3, <2>1, AnsweredCall DEF Answered, NoCall
  <2>3. PICK e : e = [cl.entry EXCEPT !.rev = cl.reply.rev]
    OBVIOUS
  <2>4. held' = [held EXCEPT ![c] = e] /\ e.typ = cl.entry.typ
    BY <1>3, <1>4, <2>2, <2>3 DEF ReturnWrite, Entries
  <2>5. cl.entry.typ \in Descriptor
    BY <1>3, <2>2, ConvertConfigType DEF DInv, KnownCall
  <2> QED
    BY <2>4, <2>5 DEF KnownEntry
<1>5. ASSUME ReturnGet(c), held' # held
      PROVE  \E e : KnownEntry(e) /\ held' = [held EXCEPT ![c] = e]
  <2>1. cl.req.key[1] \in Descriptor
    BY <1>3, <1>5 DEF ReturnGet, Answered, NoCall, DInv, KnownCall
  <2>2. PICK e : e = convertObject(cl.req.key, log[cl.reply.rev].obj, cl.reply.rev)
    OBVIOUS
  <2>3. held' = [held EXCEPT ![c] = e]
    BY <1>3, <1>5, <2>2 DEF ReturnGet
  <2>4. e.typ = cl.req.key[1]
    BY <2>2 DEF convertObject
  <2> QED
    BY <2>1, <2>3, <2>4 DEF KnownEntry
<1>6. ReturnDelete(c) \/ ReturnList(c) \/ Lose(c) => UNCHANGED held
  BY DEF ReturnDelete, ReturnList, Lose
<1>7. PICK e : KnownEntry(e) /\ held' = [held EXCEPT ![c] = e]
  BY <1>4, <1>5, <1>6, KnownHeldStays DEF Return
<1> QED
  BY <1>2, <1>7, KnownCallerStep

(* Every step keeps DInv.                                                  *)
LEMMA KnownFilesNextOK == KnownTypes => (FInv /\ DInv /\ [FilesNext]_fileVars => DInv')
<1> SUFFICES ASSUME KnownTypes, FInv, DInv, [FilesNext]_fileVars PROVE DInv'
  OBVIOUS
<1>0. IInv
  BY DEF FInv
<1>1. ASSUME UNCHANGED <<call, held>> PROVE DInv'
  BY <1>1 DEF DInv
<1>2. CASE Next
  <2>1. OtherWrite => UNCHANGED <<call, held>>
    BY DEF OtherWrite, clientVars
  <2>2. ASSUME NEW s \in Slots, ServeLate(s) PROVE UNCHANGED <<call, held>>
    BY <2>2 DEF ServeLate
  <2> QED
    BY <1>0, <1>1, <1>2, <2>1, <2>2, KnownCallStep, KnownServeStep, KnownReturnStep DEF Next
<1>3. ASSUME NEW c \in Callers, Save(c) PROVE DInv'
  BY <1>1, <1>3 DEF Save, vars
<1>4. ASSUME NEW c \in Callers, Load(c) PROVE DInv'
  <2>1. PICK f : f = file
    OBVIOUS
  <2>2. PICK e \in FromYAML(f) : held' = [held EXCEPT ![c] = e]
    BY <1>4, <2>1 DEF Load
  <2>3. FileOK(f) /\ f # NoFile /\ UNCHANGED call
    BY <1>4, <2>1 DEF FInv, Load
  <2>4. KnownEntry(e)
    BY <2>2, <2>3, LoadedEntryOK DEF KnownEntry
  <2>5. PICK cl : cl = call[c]
    OBVIOUS
  <2>6. KnownCall(cl) /\ call' = [call EXCEPT ![c] = cl]
    BY <1>0, <2>3, <2>5 DEF DInv, IInv, TypeOK
  <2> QED
    BY <1>0, <2>2, <2>4, <2>6, KnownCallerStep
<1>5. ASSUME NEW c \in Callers, CreateHeld(c) PROVE DInv'
  <2>1. PICK e : e = held[c]
    OBVIOUS
  <2>2. /\ UNCHANGED held
        /\ \/ Fails(c, "Create", <<e.typ, e.name>>)
           \/ e.typ \in Descriptor /\ Sends(c, e, convertConfig("POST", e))
    BY <1>5, <2>1 DEF CreateHeld
  <2> QED
    BY <1>0, <2>2, ConvertConfigType, KnownHeldStays, KnownSendStep
<1>6. WriteByHand \/ UNCHANGED fileVars => UNCHANGED <<call, held>>
  BY DEF WriteByHand, fileVars, vars
<1> QED
  BY <1>1, <1>2, <1>3, <1>4, <1>5, <1>6 DEF FilesNext

(* FInv and DInv are invariants together.                                  *)
LEMMA KnownFilesInvariantOK ==
    WellTyped /\ KnownTypes => (FilesSpec => [](FInv /\ TInv /\ DInv))
<1>1. FilesInit => DInv
  BY DEF FilesInit, Init, DInv, KnownEntry, KnownCall
<1>2. CASE WellTyped /\ KnownTypes
  BY <1>1, <1>2, TypedFilesInvariantOK, KnownFilesNextOK, PTL DEF FilesSpec
<1> QED
  BY <1>2

(***************************************************************************)
(* Whatever people write into files, what a caller holds is of a type of   *)
(* the descriptor, with a message of that type (schema.go:232-248).        *)
(***************************************************************************)
THEOREM FilesAreTyped == WellTyped /\ KnownTypes => (FilesSpec => []FilesTypeOK)
<1>1. FInv /\ TInv /\ DInv => FilesTypeOK
  <2> SUFFICES ASSUME FInv, TInv, DInv PROVE FilesTypeOK
    OBVIOUS
  <2>1. file \in Files \cup {NoFile}
    BY DEF FInv, FileOK
  <2>2. held \in [Callers -> Entries \cup {NoEntry}]
    BY DEF FInv, IInv, TypeOK
  <2>3. \A c \in Callers : held[c] # NoEntry => held[c].typ \in Descriptor /\ held[c].spec.msg = held[c].typ
    BY DEF DInv, KnownEntry, TInv, Typed
  <2> QED
    BY <2>1, <2>2, <2>3 DEF FilesTypeOK
<1>2. CASE WellTyped /\ KnownTypes
  BY <1>1, <1>2, KnownFilesInvariantOK, PTL
<1> QED
  BY <1>2

(***************************************************************************)
(* An entry survives the way through a file in every field, IstioNamespace *)
(* included, exactly if it is valid (schema.go:220-274).                   *)
(***************************************************************************)
THEOREM FilesKeepEntries == WellTyped /\ KnownTypes => (FilesSpec => []FilesRoundTrip)
<1>1. ASSUME NEW e \in Entries, e.typ \in Descriptor, e.spec.msg = e.typ
      PROVE  FromYAML(ToYAML(e)) = {x \in {e} : Validate(x.typ, x.spec)}
  <2>1. PICK f : f = ToYAML(e)
    OBVIOUS
  <2>2. /\ f.typ = e.typ /\ f.name = e.name /\ f.home = e.home /\ f.ann = e.ann
        /\ f.rev = e.rev /\ f.json = ToJSONMap(e.spec)
    BY <2>1 DEF ToYAML, Document
  <2>3. Decodes(f.typ, f.json)
    BY <1>1, <2>2 DEF Decodes, ToJSONMap
  <2>4. FromJSONMap(f.typ, f.json) = e.spec
    BY <1>1, <2>2 DEF FromJSONMap, ToJSONMap, Entries, Messages
  <2>5. Entry(f, e.spec) = e
    BY <2>2 DEF Entry, Entries
  <2>6. FromYAML(f) = {x \in {e} : f.typ \in Descriptor /\ Decodes(f.typ, f.json)
                                   /\ Validate(f.typ, x.spec)}
    BY <2>4, <2>5 DEF FromYAML
  <2> QED
    BY <1>1, <2>1, <2>2, <2>3, <2>6
<1>2. FInv /\ TInv /\ DInv => FilesRoundTrip
  BY <1>1 DEF FInv, IInv, TypeOK, TInv, Typed, DInv, KnownEntry, FilesRoundTrip
<1>3. CASE WellTyped /\ KnownTypes
  BY <1>2, <1>3, KnownFilesInvariantOK, PTL
<1> QED
  BY <1>3
=============================================================================
