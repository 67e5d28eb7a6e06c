---------------------------- MODULE BrokerProofs ----------------------------
(***************************************************************************)
(* Proofs about Broker and the catalog handlers it runs, for any handlers, *)
(* names, writes to the store, staleness, binaries and kubeconfig files,   *)
(* and any number of launches.                                             *)
(***************************************************************************)
EXTENDS Broker, ApiServerProofs

-----------------------------------------------------------------------------
(* The inductive invariant *)

StoreContents == Contents \cup {Malformed, NoObject}

Writes == [key : Keys, obj : StoreContents, by : {"other"}]

Entry(s) == [key |-> s.key, text |-> s.text]

(* What a list of the classes, answered from the first n writes, gives.    *)
ClassesListed(n, err) ==
    {[key |-> k, text |-> ObjectAt(n, k).text] : k \in Listed(n, err, ClassKeys)}

(* The states that a read of a request of this time may be answered from.  *)
Between(from, to) == {n \in 0..to : n + MaxStale >= from}

(* No class is met twice, neither in the services nor in what is left.     *)
KeysDiffer(ss, rest) ==
    /\ \A i, j \in 1..Len(ss) : ss[i].key = ss[j].key => i = j
    /\ \A i \in 1..Len(ss), s \in rest : ss[i].key # s.key
    /\ \A s, t \in rest : s.key = t.key => s = t

(* The services and the classes that are left are those of one list.       *)
FromOneList(ss, rest, from, to, fails) ==
    \E n \in Between(from, to), err \in BOOLEAN :
        /\ err => fails
        /\ rest \cup {Entry(ss[i]) : i \in 1..Len(ss)} = ClassesListed(n, err)

(* The plans of a service are those of one list.                           *)
PlansFromOneList(s, from, to, fails) ==
    \E n \in Between(from, to), err \in BOOLEAN :
        (err => fails) /\ s.plans = ServicePlansByService(n, err, s.key)

Listing(ss, rest, from, to, fails) ==
    /\ KeysDiffer(ss, rest)
    /\ FromOneList(ss, rest, from, to, fails)
    /\ \A i \in 1..Len(ss) : PlansFromOneList(ss[i], from, to, fails)

HandlerOK(h) ==
    /\ since[h] <= Len(log)
    /\ pc[h] # "plans" => todo[h] = {}
    /\ pc[h] = "classes" => services[h] = << >>
    /\ pc[h] = "plans" => Listing(services[h], todo[h], since[h], Len(log), failed[h])
    /\ pc[h] # "idle" => response[h] = NoResponse
    /\ Answered(h) =>
         /\ response[h].until \in since[h]..Len(log)
         /\ Listing(response[h].served, {}, since[h], response[h].until, failed[h])

CatalogInv == TypeOK /\ LastWriteExists /\ \A h \in Handlers : HandlerOK(h)

(* Why the process has come where it is: it has not looked at a file yet,  *)
(* or the file it was pointed to was empty when it dropped its name.       *)
ProcessInv ==
    /\ ProcessTypeOK /\ UsesNamedConfig
    /\ stage \in {"down", "client", "stat"} => seen = {}
    /\ stage = "rest" /\ ~path => seen \subseteq {EmptyFile}

IInv == CatalogInv /\ ProcessInv

-----------------------------------------------------------------------------
(* Lists and what they give *)

(* The keys of classes and plans are keys of the store.                    *)
LEMMA KeysOfTypes ==
    /\ ClassKeys \subseteq Keys /\ PlanKeys \subseteq Keys
BY BrokerCatalogAssumption DEF ClassKeys, PlanKeys, Keys

(* What is live was written: it has contents or is malformed.              *)
LEMMA LiveObjects ==
    ASSUME log \in Seq(Writes), LastWriteExists, NEW n \in 0..Len(log),
           NEW k \in Keys, ObjectAt(n, k) # NoObject
    PROVE  ObjectAt(n, k) \in Contents \cup {Malformed}
<1>1. /\ RevisionAt(n, k) \in 1..Len(log)
      /\ ObjectAt(n, k) = log[RevisionAt(n, k)].obj
  BY ObjectWasWritten
<1>2. log[RevisionAt(n, k)] \in Writes
  BY <1>1
<1>. QED  BY <1>1, <1>2 DEF Writes, StoreContents

(* What a list gives decodes.                                              *)
LEMMA ListedObjects ==
    ASSUME log \in Seq(Writes), LastWriteExists, NEW n \in 0..Len(log),
           NEW err \in BOOLEAN, NEW keys \in SUBSET Keys, NEW k \in Listed(n, err, keys)
    PROVE  k \in keys /\ ObjectAt(n, k) \in Contents
<1>1. k \in keys /\ ObjectAt(n, k) # NoObject /\ ObjectAt(n, k) # Malformed
  BY DEF Listed, LiveAt, Readable
<1>. QED  BY <1>1, LiveObjects

(* A list of the classes gives keys of classes and texts, each key once.   *)
LEMMA ClassesListedOK ==
    ASSUME log \in Seq(Writes), LastWriteExists, NEW n \in 0..Len(log), NEW err \in BOOLEAN
    PROVE  /\ ClassesListed(n, err) \subseteq [key : ClassKeys, text : Texts]
           /\ \A s, t \in ClassesListed(n, err) : s.key = t.key => s = t
<1>1. ASSUME NEW k \in Listed(n, err, ClassKeys)
      PROVE  k \in ClassKeys /\ ObjectAt(n, k).text \in Texts
  <2>1. k \in ClassKeys /\ ObjectAt(n, k) \in Contents
    BY KeysOfTypes, ListedObjects
  <2>. QED  BY <2>1 DEF Contents
<1>. QED  BY <1>1 DEF ClassesListed

(* The plans found for a class are plans of the catalog.                   *)
LEMMA PlansOK ==
    ASSUME log \in Seq(Writes), LastWriteExists, NEW n \in 0..Len(log),
           NEW err \in BOOLEAN, NEW c
    PROVE  ServicePlansByService(n, err, c) \subseteq ServedPlans
<1>1. ASSUME NEW k \in Listed(n, err, PlanKeys)
      PROVE  k \in PlanKeys /\ ObjectAt(n, k).text \in Texts
  <2>1. k \in PlanKeys /\ ObjectAt(n, k) \in Contents
    BY KeysOfTypes, ListedObjects
  <2>. QED  BY <2>1 DEF Contents
<1>. QED  BY <1>1 DEF ServicePlansByService, Plan, ServedPlans

(* What a list answered from a point of the log has given, a later one     *)
(* answered from the same point would give.                                *)
LEMMA ListsAreStable ==
    ASSUME log \in Seq(Writes), GrowsBy(Writes), LastWriteExists,
           NEW n \in 0..Len(log), NEW err \in BOOLEAN
    PROVE  /\ ClassesListed(n, err)' = ClassesListed(n, err)
           /\ \A c : ServicePlansByService(n, err, c)' = ServicePlansByService(n, err, c)
<1>1. \A k \in Keys : ObjectAt(n, k)' = ObjectAt(n, k)
  BY ThePastIsStable
<1>2. ASSUME NEW keys \in SUBSET Keys
      PROVE  /\ Listed(n, err, keys)' = Listed(n, err, keys)
             /\ \A k \in Listed(n, err, keys) : ObjectAt(n, k)' = ObjectAt(n, k)
  <2>1. LiveAt(n, keys)' = LiveAt(n, keys) /\ \A k \in LiveAt(n, keys) : k \in Keys
    BY <1>1 DEF LiveAt
  <2>2. Readable(n, keys)' = Readable(n, keys)
    BY <1>1, <2>1 DEF Readable
  <2>. QED  BY <1>1, <2>1, <2>2 DEF Listed
<1>3. ClassesListed(n, err)' = ClassesListed(n, err)
  BY <1>2, KeysOfTypes DEF ClassesListed
<1>4. ASSUME NEW c
      PROVE  ServicePlansByService(n, err, c)' = ServicePlansByService(n, err, c)
  BY <1>2, KeysOfTypes DEF ServicePlansByService, Plan
<1>. QED  BY <1>3, <1>4

(* A catalog put together from lists stays one while the store goes on.    *)
LEMMA ListingIsStable ==
    ASSUME log \in Seq(Writes), GrowsBy(Writes), LastWriteExists,
           NEW ss, NEW rest, NEW from \in Nat, NEW to \in 0..Len(log), NEW fails \in BOOLEAN,
           Listing(ss, rest, from, to, fails),
           NEW later \in Nat, to <= later
    PROVE  Listing(ss, rest, from, later, fails)'
<1>0. Len(log) \in Nat
  OBVIOUS
<1>1. ASSUME NEW n \in Between(from, to)
      PROVE  n \in Between(from, later) /\ n \in 0..Len(log)
  BY <1>0 DEF Between
<1>2. FromOneList(ss, rest, from, later, fails)'
  <2>1. PICK n \in Between(from, to), err \in BOOLEAN :
          /\ err => fails
          /\ rest \cup {Entry(ss[i]) : i \in 1..Len(ss)} = ClassesListed(n, err)
    BY DEF Listing, FromOneList
  <2>2. ClassesListed(n, err)' = ClassesListed(n, err) /\ n \in Between(from, later)
    BY <1>1, ListsAreStable
  <2>. QED  BY <2>1, <2>2 DEF FromOneList, Between
<1>3. ASSUME NEW i \in 1..Len(ss)
      PROVE  PlansFromOneList(ss[i], from, later, fails)'
  <2>1. PICK n \in Between(from, to), err \in BOOLEAN :
          (err => fails) /\ ss[i].plans = ServicePlansByService(n, err, ss[i].key)
    BY DEF Listing, PlansFromOneList
  <2>2. /\ ServicePlansByService(n, err, ss[i].key)' = ServicePlansByService(n, err, ss[i].key)
        /\ n \in Between(from, later)
    BY <1>1, ListsAreStable
  <2>. QED  BY <2>1, <2>2 DEF PlansFromOneList, Between
<1>4. KeysDiffer(ss, rest)
  BY DEF Listing
<1>. QED  BY <1>2, <1>3, <1>4 DEF Listing, KeysDiffer

-----------------------------------------------------------------------------
(* Steps of the handlers, of the store and of the process as they concern  *)
(* the catalog *)

\* A handler that a step does not touch stays as it was, whatever is written.
LEMMA UntouchedKeeps ==
    ASSUME CatalogInv, GrowsBy(Writes), NEW h \in Handlers,
           pc'[h] = pc[h], since'[h] = since[h], todo'[h] = todo[h],
           services'[h] = services[h], failed'[h] = failed[h], response'[h] = response[h]
    PROVE  HandlerOK(h)'
<1>0. /\ log \in Seq(Writes) /\ LastWriteExists /\ HandlerOK(h)
      /\ since[h] \in Nat /\ failed[h] \in BOOLEAN
  BY DEF CatalogInv, TypeOK, Writes, StoreContents
<1>1. Len(log) \in Nat /\ Len(log') \in Nat /\ Len(log) <= Len(log')
  BY <1>0, LogKeepsWrites
<1>2. PICK ss, rest, from, fails, resp :
        /\ ss = services[h] /\ rest = todo[h] /\ from = since[h]
        /\ fails = failed[h] /\ resp = response[h]
  OBVIOUS
<1>3. pc[h] = "plans" => Listing(ss, rest, from, Len(log), fails)
  BY <1>0, <1>2 DEF HandlerOK
<1>4. pc[h] = "plans" => Listing(ss, rest, from, Len(log), fails)'
  <2>1. PICK to, later : to = Len(log) /\ later = Len(log')
    OBVIOUS
  <2>2. pc[h] = "plans" => Listing(ss, rest, from, to, fails)
    BY <1>3, <2>1
  <2>3. from \in Nat /\ fails \in BOOLEAN /\ to \in 0..Len(log) /\ later \in Nat /\ to <= later
    BY <1>0, <1>1, <1>2, <2>1
  <2>4. pc[h] = "plans" => Listing(ss, rest, from, later, fails)'
    BY <1>0, <2>2, <2>3, ListingIsStable
  <2>. QED
    BY <2>1, <2>4 DEF Listing, FromOneList, PlansFromOneList, Between
<1>5. resp \notin {NoResponse, Lost} =>
        /\ resp.until \in from..Len(log')
        /\ Listing(resp.served, {}, from, resp.until, fails)'
  <2>1. SUFFICES ASSUME resp \notin {NoResponse, Lost}
                 PROVE  /\ resp.until \in from..Len(log')
                        /\ Listing(resp.served, {}, from, resp.until, fails)'
    OBVIOUS
  <2>2. resp.until \in from..Len(log) /\ Listing(resp.served, {}, from, resp.until, fails)
    BY <1>0, <1>2, <2>1 DEF HandlerOK, Answered
  <2>3. from \in Nat /\ fails \in BOOLEAN /\ resp.until \in 0..Len(log) /\ resp.until \in Nat
    BY <1>0, <1>1, <1>2, <2>2
  <2>4. Listing(resp.served, {}, from, resp.until, fails)'
    BY <1>0, <2>2, <2>3, ListingIsStable
  <2>. QED  BY <1>1, <2>2, <2>3, <2>4
<1>. QED
  BY <1>0, <1>1, <1>2, <1>4, <1>5 DEF HandlerOK, Answered

\* What a request reads now is no older than what it could read when it arrived.
LEMMA RecentIsBetween ==
    ASSUME NEW from \in Nat, Len(log) \in Nat, from <= Len(log), NEW n \in Recent
    PROVE  n \in 0..Len(log) /\ n \in Between(from, Len(log))
BY BrokerCatalogAssumption DEF Recent, Between

\* A step of one handler keeps the invariant when it leaves that handler in order.
LEMMA HandlerStep ==
    ASSUME CatalogInv, NEW h \in Handlers, log' = log, TypeOK', HandlerOK(h)',
           \A g \in Handlers \ {h} :
              /\ pc'[g] = pc[g] /\ since'[g] = since[g] /\ todo'[g] = todo[g]
              /\ services'[g] = services[g] /\ failed'[g] = failed[g]
              /\ response'[g] = response[g]
    PROVE  CatalogInv'
<1>1. log \in Seq(Writes) /\ GrowsBy(Writes) /\ LastWriteExists
  BY DEF CatalogInv, TypeOK, Writes, StoreContents, GrowsBy
<1>2. LastWriteExists'
  BY <1>1, LastWriteExistsGrows
<1>3. ASSUME NEW g \in Handlers \ {h} PROVE HandlerOK(g)'
  BY <1>1, UntouchedKeeps
<1>. QED  BY <1>2, <1>3 DEF CatalogInv

\* A request begins with nothing listed and nothing answered.
LEMMA CatalogKeeps ==
    ASSUME CatalogInv, NEW h \in Handlers, Catalog(h)
    PROVE  CatalogInv'
<1>0. TypeOK /\ HandlerOK(h) /\ Len(log) \in Nat
  BY DEF CatalogInv, TypeOK
<1>1. /\ pc[h] = "idle" /\ log' = log /\ todo' = todo
      /\ pc' = [pc EXCEPT ![h] = "classes"]
      /\ since' = [since EXCEPT ![h] = Len(log)]
      /\ services' = [services EXCEPT ![h] = << >>]
      /\ failed' = [failed EXCEPT ![h] = FALSE]
      /\ response' = [response EXCEPT ![h] = NoResponse]
  BY DEF Catalog
<1>2. << >> \in Seq(Services)
  OBVIOUS
<1>3. TypeOK'
  BY <1>0, <1>1, <1>2 DEF TypeOK
<1>4. /\ pc'[h] = "classes" /\ since'[h] = Len(log) /\ todo'[h] = {}
      /\ services'[h] = << >> /\ response'[h] = NoResponse
  BY <1>0, <1>1 DEF TypeOK, HandlerOK
<1>5. since'[h] <= Len(log') /\ ~Answered(h)' /\ pc'[h] # "plans"
  BY <1>0, <1>1, <1>4 DEF Answered
<1>6. HandlerOK(h)'
  BY <1>4, <1>5 DEF HandlerOK
<1>. QED  BY <1>0, <1>1, <1>3, <1>6, HandlerStep DEF TypeOK

\* The list of the classes fixes what the loop will serve: one state's classes, or none.
LEMMA ListClassesKeeps ==
    ASSUME CatalogInv, NEW h \in Handlers, ListClasses(h)
    PROVE  CatalogInv'
<1>0. /\ TypeOK /\ HandlerOK(h) /\ Len(log) \in Nat /\ LastWriteExists
      /\ log \in Seq(Writes) /\ since[h] \in Nat /\ since[h] <= Len(log)
  BY DEF CatalogInv, TypeOK, Writes, StoreContents, HandlerOK
<1>1. PICK n \in Recent, err \in BOOLEAN :
        /\ pc[h] = "classes" /\ pc' = [pc EXCEPT ![h] = "plans"]
        /\ todo' = [todo EXCEPT ![h] = ClassesListed(n, err)]
        /\ failed' = [failed EXCEPT ![h] = err]
        /\ log' = log /\ since' = since /\ services' = services /\ response' = response
  BY DEF ListClasses, ClassesListed
<1>2. n \in 0..Len(log) /\ n \in Between(since[h], Len(log))
  BY <1>0, <1>1, RecentIsBetween
<1>3. PICK listed : listed = ClassesListed(n, err)
  OBVIOUS
<1>4. /\ listed \subseteq [key : ClassKeys, text : Texts]
      /\ \A s, t \in listed : s.key = t.key => s = t
  BY <1>0, <1>2, <1>3, ClassesListedOK
<1>5. TypeOK'
  BY <1>0, <1>1, <1>3, <1>4 DEF TypeOK
<1>6. /\ pc'[h] = "plans" /\ todo'[h] = listed /\ failed'[h] = err
      /\ since'[h] = since[h] /\ services'[h] = << >> /\ response'[h] = NoResponse
  BY <1>0, <1>1, <1>3 DEF TypeOK, HandlerOK
<1>7. /\ Len(<< >>) = 0 /\ \A i \in 1..0 : FALSE
      /\ {Entry(<< >>[i]) : i \in 1..0} = {}
  OBVIOUS
<1>8. Listing(<< >>, listed, since[h], Len(log), err)
  <2>1. KeysDiffer(<< >>, listed)
    BY <1>4, <1>7 DEF KeysDiffer
  <2>2. FromOneList(<< >>, listed, since[h], Len(log), err)
    BY <1>2, <1>3, <1>7 DEF FromOneList
  <2>. QED  BY <2>1, <2>2, <1>7 DEF Listing
<1>9. PICK from, to : from = since[h] /\ to = Len(log)
  OBVIOUS
<1>10. Listing(<< >>, listed, from, to, err)'
  <2>1. from \in Nat /\ to \in 0..Len(log) /\ to \in Nat /\ GrowsBy(Writes)
    BY <1>0, <1>1, <1>9 DEF GrowsBy
  <2>2. Listing(<< >>, listed, from, to, err)
    BY <1>8, <1>9
  <2>. QED  BY <1>0, <2>1, <2>2, ListingIsStable
<1>11. HandlerOK(h)'
  <2>1. Listing(services[h], todo[h], since[h], Len(log), failed[h])'
    BY <1>1, <1>6, <1>9, <1>10 DEF Listing, KeysDiffer, FromOneList, PlansFromOneList, Between
  <2>2. since'[h] <= Len(log')
    BY <1>0, <1>1 DEF HandlerOK
  <2>. QED  BY <1>6, <2>1, <2>2 DEF HandlerOK, Answered
<1>. QED  BY <1>0, <1>1, <1>5, <1>11, HandlerStep DEF TypeOK

\* A turn of the loop moves one class from those that are left to the services,
\* with the plans of one list.
LEMMA TurnKeepsListing ==
    ASSUME NEW ss \in Seq(Services), NEW rest, NEW from, NEW to, NEW fails \in BOOLEAN,
           Listing(ss, rest, from, to, fails),
           NEW now \in BOOLEAN, fails => now,
           NEW new \in Services, Entry(new) \in rest, PlansFromOneList(new, from, to, now)
    PROVE  Listing(Append(ss, new), rest \ {Entry(new)}, from, to, now)
<1> DEFINE s == Entry(new)
           left == rest \ {s}
           more == Append(ss, new)
<1>2. s \in rest /\ new.key = s.key
  BY DEF Entry
<1> HIDE DEF s
<1>4. /\ more \in Seq(Services) /\ Len(ss) \in Nat /\ Len(more) = Len(ss) + 1
      /\ more[Len(ss) + 1] = new
      /\ \A i \in 1..Len(ss) : more[i] = ss[i]
  OBVIOUS
<1> HIDE DEF more
<1>5. /\ \A i, j \in 1..Len(ss) : ss[i].key = ss[j].key => i = j
      /\ \A i \in 1..Len(ss), t \in rest : ss[i].key # t.key
      /\ \A t, u \in rest : t.key = u.key => t = u
  BY DEF Listing, KeysDiffer
<1>6. KeysDiffer(more, left)
  <2>1. ASSUME NEW i \in 1..Len(more), NEW j \in 1..Len(more), more[i].key = more[j].key
        PROVE  i = j
    <3>1. CASE i \in 1..Len(ss) /\ j \in 1..Len(ss)
      BY <2>1, <3>1, <1>4, <1>5
    <3>2. CASE i \in 1..Len(ss) /\ j = Len(ss) + 1
      BY <2>1, <3>2, <1>2, <1>4, <1>5
    <3>3. CASE i = Len(ss) + 1 /\ j \in 1..Len(ss)
      BY <2>1, <3>3, <1>2, <1>4, <1>5
    <3>. QED  BY <3>1, <3>2, <3>3, <1>4
  <2>2. ASSUME NEW i \in 1..Len(more), NEW t \in left PROVE more[i].key # t.key
    <3>1. CASE i \in 1..Len(ss)
      BY <3>1, <1>4, <1>5
    <3>2. CASE i = Len(ss) + 1
      BY <3>2, <1>2, <1>4, <1>5
    <3>. QED  BY <3>1, <3>2, <1>4
  <2>. QED  BY <2>1, <2>2, <1>5 DEF KeysDiffer
<1>7. FromOneList(more, left, from, to, now)
  <2>1. PICK m \in Between(from, to), bad \in BOOLEAN :
          /\ bad => fails
          /\ rest \cup {Entry(ss[i]) : i \in 1..Len(ss)} = ClassesListed(m, bad)
    BY DEF Listing, FromOneList
  <2>2. {Entry(more[i]) : i \in 1..Len(more)} = {Entry(ss[i]) : i \in 1..Len(ss)} \cup {s}
    <3>1. ASSUME NEW i \in 1..Len(more)
          PROVE  Entry(more[i]) \in {Entry(ss[j]) : j \in 1..Len(ss)} \cup {s}
      <4>1. CASE i \in 1..Len(ss)
        BY <4>1, <1>4
      <4>2. CASE i = Len(ss) + 1
        BY <4>2, <1>4 DEF s
      <4>. QED  BY <4>1, <4>2, <1>4
    <3>2. ASSUME NEW i \in 1..Len(ss)
          PROVE  i \in 1..Len(more) /\ Entry(ss[i]) = Entry(more[i])
      BY <1>4
    <3>3. Len(ss) + 1 \in 1..Len(more) /\ Entry(more[Len(ss) + 1]) = s
      BY <1>4 DEF s
    <3>. QED  BY <3>1, <3>2, <3>3
  <2>3. left \cup {Entry(more[i]) : i \in 1..Len(more)} = ClassesListed(m, bad)
    BY <1>2, <2>1, <2>2
  <2>. QED  BY <2>1, <2>3 DEF FromOneList
<1>8. ASSUME NEW i \in 1..Len(more)
      PROVE  PlansFromOneList(more[i], from, to, now)
  <2>1. CASE i \in 1..Len(ss)
    <3>1. PlansFromOneList(ss[i], from, to, fails) /\ more[i] = ss[i]
      BY <2>1, <1>4 DEF Listing
    <3>. QED  BY <3>1 DEF PlansFromOneList
  <2>2. CASE i = Len(ss) + 1
    <3>1. more[i] = new
      BY <2>2, <1>4
    <3>. QED  BY <3>1
  <2>. QED  BY <2>1, <2>2, <1>4
<1>9. Listing(more, left, from, to, now)
  BY <1>6, <1>7, <1>8 DEF Listing
<1>. QED  BY <1>9 DEF more, s

\* One turn of the loop over the classes.
LEMMA ListPlansKeeps ==
    ASSUME CatalogInv, NEW h \in Handlers, ListPlans(h)
    PROVE  CatalogInv'
<1>0. /\ TypeOK /\ Len(log) \in Nat /\ LastWriteExists
      /\ log \in Seq(Writes) /\ since[h] \in Nat /\ since[h] <= Len(log)
  BY DEF CatalogInv, TypeOK, Writes, StoreContents, HandlerOK
<1>1. PICK s \in todo[h], n \in Recent, err \in BOOLEAN :
        /\ pc[h] = "plans" /\ pc' = pc
        /\ todo' = [todo EXCEPT ![h] = @ \ {s}]
        /\ services' = [services EXCEPT ![h] = Append(@,
             [key |-> s.key, text |-> s.text, plans |-> ServicePlansByService(n, err, s.key)])]
        /\ failed' = [failed EXCEPT ![h] = @ \/ err]
        /\ log' = log /\ since' = since /\ response' = response
  BY DEF ListPlans
<1>2. n \in Between(since[h], Len(log))
  BY <1>0, RecentIsBetween
<1>3. PICK ss, rest, from, to, fails :
        /\ ss = services[h] /\ rest = todo[h] /\ from = since[h]
        /\ to = Len(log) /\ fails = failed[h]
  OBVIOUS
<1>4. /\ ss \in Seq(Services) /\ rest \in SUBSET [key : ClassKeys, text : Texts]
      /\ from \in Nat /\ to \in 0..Len(log) /\ to \in Nat /\ fails \in BOOLEAN
      /\ s \in rest /\ n \in Between(from, to)
  BY <1>0, <1>1, <1>2, <1>3 DEF TypeOK
<1>5. Listing(ss, rest, from, to, fails) /\ response[h] = NoResponse
  BY <1>1, <1>3 DEF CatalogInv, HandlerOK
<1>6. PICK new, more, left :
        /\ new = [key |-> s.key, text |-> s.text,
                  plans |-> ServicePlansByService(n, err, s.key)]
        /\ more = Append(ss, new) /\ left = rest \ {s}
  OBVIOUS
<1>7. PICK bad \in BOOLEAN : bad = failed'[h]
  <2>1. failed'[h] = (failed[h] \/ err)
    BY <1>0, <1>1 DEF TypeOK
  <2>2. failed'[h] \in BOOLEAN
    BY <2>1
  <2>. QED  BY <2>2
<1>8. (fails => bad) /\ (err => bad)
  <2>1. bad = (failed[h] \/ err)
    BY <1>0, <1>1, <1>7 DEF TypeOK
  <2>. QED  BY <1>3, <2>1
<1>9. more \in Seq(Services) /\ Listing(more, left, from, to, bad)
  <2>1. n \in 0..Len(log) /\ s \in [key : ClassKeys, text : Texts]
    BY <1>0, <1>4, <1>2, RecentIsBetween
  <2>2. new \in Services
    BY <1>0, <1>6, <2>1, PlansOK DEF Services
  <2>3. Entry(new) = s
    BY <1>6, <2>1 DEF Entry
  <2>4. PlansFromOneList(new, from, to, bad)
    BY <1>4, <1>6, <1>8 DEF PlansFromOneList
  <2>. QED  BY <1>4, <1>5, <1>6, <1>8, <2>2, <2>3, <2>4, TurnKeepsListing
<1>10. /\ todo'[h] = left /\ services'[h] = more
       /\ since'[h] = from /\ response'[h] = NoResponse /\ pc'[h] = "plans"
  BY <1>0, <1>1, <1>3, <1>5, <1>6 DEF TypeOK
<1>11. TypeOK'
  <2>1. failed' \in [Handlers -> BOOLEAN]
    BY <1>0, <1>1 DEF TypeOK
  <2>2. services' \in [Handlers -> Seq(Services)]
    BY <1>0, <1>1, <1>3, <1>6, <1>9 DEF TypeOK
  <2>3. todo' \in [Handlers -> SUBSET [key : ClassKeys, text : Texts]]
    BY <1>0, <1>1 DEF TypeOK
  <2>. QED  BY <1>0, <1>1, <2>1, <2>2, <2>3 DEF TypeOK
<1>12. HandlerOK(h)'
  <2>0. Len(log') = to
    BY <1>1, <1>3
  <2>1. GrowsBy(Writes)
    BY <1>1 DEF GrowsBy
  <2>2. Listing(more, left, from, to, bad)'
    BY <1>0, <1>4, <1>9, <2>1, ListingIsStable
  <2>3. Listing(services[h], todo[h], since[h], Len(log), failed[h])'
    BY <1>7, <1>10, <2>0, <2>2
       DEF Listing, KeysDiffer, FromOneList, PlansFromOneList, Between
  <2>4. since'[h] <= Len(log')
    BY <1>0, <1>1
  <2>. QED  BY <1>10, <2>3, <2>4 DEF HandlerOK, Answered
<1>. QED  BY <1>0, <1>1, <1>11, <1>12, HandlerStep DEF TypeOK

\* The response takes over what the loop has put together; until is now.
LEMMA RespondKeeps ==
    ASSUME CatalogInv, NEW h \in Handlers, Respond(h)
    PROVE  CatalogInv'
<1>0. /\ TypeOK /\ Len(log) \in Nat /\ LastWriteExists
      /\ log \in Seq(Writes) /\ since[h] \in Nat /\ since[h] <= Len(log)
  BY DEF CatalogInv, TypeOK, Writes, StoreContents, HandlerOK
<1>1. /\ pc[h] = "plans" /\ todo[h] = {}
      /\ pc' = [pc EXCEPT ![h] = "idle"]
      /\ response' = [response EXCEPT ![h] =
                [served |-> services[h], body |-> Body(services[h]), until |-> Len(log)]]
      /\ services' = [services EXCEPT ![h] = << >>]
      /\ log' = log /\ since' = since /\ todo' = todo /\ failed' = failed
  BY DEF Respond
<1>2. PICK ss, from, to, fails :
        ss = services[h] /\ from = since[h] /\ to = Len(log) /\ fails = failed[h]
  OBVIOUS
<1>3. /\ ss \in Seq(Services) /\ Body(ss) \in Seq(Services) \cup {Garbled}
      /\ from \in Nat /\ to \in Nat /\ to \in 0..Len(log) /\ from <= to /\ fails \in BOOLEAN
  BY <1>0, <1>2 DEF TypeOK, Body
<1>4. Listing(ss, {}, from, to, fails)
  BY <1>1, <1>2 DEF CatalogInv, HandlerOK
<1>5. PICK resp : resp = [served |-> ss, body |-> Body(ss), until |-> to]
  OBVIOUS
<1>6. /\ resp \in [served : Seq(Services), body : Seq(Services) \cup {Garbled}, until : Nat]
      /\ resp.served = ss /\ resp.until = to
  BY <1>3, <1>5
<1>7. response' = [response EXCEPT ![h] = resp]
  BY <1>1, <1>2, <1>5
<1>8. TypeOK'
  <2>1. << >> \in Seq(Services)
    OBVIOUS
  <2>2. response' \in [Handlers ->
            [served : Seq(Services), body : Seq(Services) \cup {Garbled}, until : Nat]
                \cup {NoResponse, Lost}]
    BY <1>0, <1>6, <1>7 DEF TypeOK
  <2>. QED  BY <1>0, <1>1, <2>1, <2>2 DEF TypeOK
<1>9. /\ pc'[h] = "idle" /\ todo'[h] = {} /\ since'[h] = from /\ failed'[h] = fails
      /\ response'[h] = resp /\ Len(log') = to
  BY <1>0, <1>1, <1>2, <1>7 DEF TypeOK
<1>10. HandlerOK(h)'
  <2>1. GrowsBy(Writes)
    BY <1>1 DEF GrowsBy
  <2>2. Listing(ss, {}, from, to, fails)'
    BY <1>0, <1>3, <1>4, <2>1, ListingIsStable
  <2>3. Listing(response[h].served, {}, since[h], response[h].until, failed[h])'
    BY <1>6, <1>9, <2>2 DEF Listing, KeysDiffer, FromOneList, PlansFromOneList, Between
  <2>4. response'[h].until \in since'[h]..Len(log') /\ since'[h] <= Len(log')
    BY <1>3, <1>6, <1>9
  <2>. QED  BY <1>9, <2>3, <2>4 DEF HandlerOK
<1>. QED  BY <1>0, <1>1, <1>8, <1>10, HandlerStep DEF TypeOK

\* A handler whose connection broke has answered nothing.
LEMMA WriteFailsKeeps ==
    ASSUME CatalogInv, NEW h \in Handlers, WriteFails(h)
    PROVE  CatalogInv'
<1>0. TypeOK /\ Len(log) \in Nat /\ since[h] <= Len(log)
  BY DEF CatalogInv, TypeOK, HandlerOK
<1>1. /\ pc[h] = "plans" /\ todo[h] = {}
      /\ pc' = [pc EXCEPT ![h] = "idle"]
      /\ response' = [response EXCEPT ![h] = Lost]
      /\ services' = [services EXCEPT ![h] = << >>]
      /\ log' = log /\ since' = since /\ todo' = todo /\ failed' = failed
  BY DEF WriteFails
<1>2. TypeOK'
  <2>1. << >> \in Seq(Services)
    OBVIOUS
  <2>. QED  BY <1>0, <1>1, <2>1 DEF TypeOK
<1>3. /\ pc'[h] = "idle" /\ todo'[h] = {} /\ response'[h] = Lost /\ since'[h] <= Len(log')
  BY <1>0, <1>1 DEF TypeOK
<1>4. HandlerOK(h)'
  BY <1>3 DEF HandlerOK, Answered
<1>. QED  BY <1>0, <1>1, <1>2, <1>4, HandlerStep DEF TypeOK

\* Whatever is written to the store, what handlers have read stays read.
LEMMA StoreWriteKeeps ==
    ASSUME CatalogInv, StoreWrite
    PROVE  CatalogInv'
<1>0. log \in Seq(Writes) /\ LastWriteExists /\ TypeOK
  BY DEF CatalogInv, TypeOK, Writes, StoreContents
<1>1. PICK w \in StoreWrites : log' = Append(log, [key |-> w.key, obj |-> w.obj, by |-> "other"])
  BY DEF StoreWrite, Write
<1>2. [key |-> w.key, obj |-> w.obj, by |-> "other"] \in Writes
  BY BrokerCatalogAssumption DEF Writes, StoreContents
<1>3. GrowsBy(Writes)
  BY <1>1, <1>2 DEF GrowsBy
<1>4. UNCHANGED <<pc, since, todo, services, failed, response>>
  BY DEF StoreWrite, handlerVars
<1>5. TypeOK'
  <2>1. log' \in Seq(Writes)
    BY <1>0, <1>3, LogKeepsWrites
  <2>. QED  BY <1>0, <1>4, <2>1 DEF TypeOK, Writes, StoreContents
<1>6. LastWriteExists'
  BY <1>0, <1>3, LastWriteExistsGrows
<1>7. ASSUME NEW h \in Handlers PROVE HandlerOK(h)'
  BY <1>0, <1>3, <1>4, UntouchedKeeps
<1>. QED  BY <1>5, <1>6, <1>7 DEF CatalogInv

\* A step that leaves the store and the handlers alone.
LEMMA NothingKeeps ==
    ASSUME CatalogInv, UNCHANGED vars
    PROVE  CatalogInv'
<1>1. UNCHANGED <<log, pc, since, todo, services, failed, response>>
  BY DEF vars
<1>2. log \in Seq(Writes) /\ LastWriteExists /\ TypeOK /\ GrowsBy(Writes)
  BY <1>1 DEF CatalogInv, TypeOK, Writes, StoreContents, GrowsBy
<1>3. TypeOK' /\ LastWriteExists'
  BY <1>1, <1>2, LastWriteExistsGrows DEF TypeOK
<1>4. ASSUME NEW h \in Handlers PROVE HandlerOK(h)'
  BY <1>1, <1>2, UntouchedKeeps
<1>. QED  BY <1>3, <1>4 DEF CatalogInv

\* The end of the process leaves no handler that has answered or is serving.
LEMMA DiesKeeps ==
    ASSUME CatalogInv, NEW status, Dies(status)
    PROVE  CatalogInv'
<1>0. log \in Seq(Writes) /\ Len(log) \in Nat /\ LastWriteExists /\ TypeOK
  BY DEF CatalogInv, TypeOK, Writes, StoreContents
<1>1. /\ pc' = [h \in Handlers |-> "idle"]
      /\ response' = [h \in Handlers |-> IF pc[h] = "idle" THEN NoResponse ELSE Lost]
      /\ todo' = [h \in Handlers |-> {}] /\ services' = [h \in Handlers |-> << >>]
      /\ log' = log /\ since' = since /\ failed' = failed
  BY DEF Dies
<1>2. TypeOK' /\ GrowsBy(Writes)
  <2>1. << >> \in Seq(Services)
    OBVIOUS
  <2>. QED  BY <1>0, <1>1, <2>1 DEF TypeOK, GrowsBy
<1>3. LastWriteExists'
  BY <1>0, <1>2, LastWriteExistsGrows
<1>4. ASSUME NEW h \in Handlers PROVE HandlerOK(h)'
  <2>1. /\ pc'[h] = "idle" /\ todo'[h] = {} /\ response'[h] \in {NoResponse, Lost}
        /\ since'[h] <= Len(log')
    BY <1>1 DEF CatalogInv, HandlerOK
  <2>. QED  BY <2>1 DEF HandlerOK, Answered
<1>. QED  BY <1>2, <1>3, <1>4 DEF CatalogInv

-----------------------------------------------------------------------------
(* Steps of the process *)

\* A step of the process or of a handler is one of these for the catalog.
LEMMA StepsOfTheCatalog ==
    ASSUME [BrokerNext]_allVars
    PROVE  \/ UNCHANGED vars
           \/ \E status \in {"0", "-1", "killed"} : Dies(status)
           \/ /\ UNCHANGED processVars
              /\ \/ stage = "serving" /\ \E h \in Handlers : Catalog(h)
                 \/ \E h \in Handlers : Handle(h)
                 \/ StoreWrite
<1>1. CASE Launch
  BY <1>1 DEF Launch
<1>2. CASE RefusedLaunch
  BY <1>2 DEF RefusedLaunch
<1>3. CASE runServer
  BY <1>3 DEF runServer, CreateServer, NewClient, resolveConfig, CreateRESTConfig, Listen,
              Goes, Connects, Fatalf
<1>4. CASE ServeFails
  BY <1>4 DEF ServeFails
<1>5. CASE Kill
  BY <1>5 DEF Kill
<1>6. CASE (Request \/ (\E h \in Handlers : Handle(h)) \/ StoreWrite) /\ UNCHANGED processVars
  BY <1>6 DEF Request
<1>7. CASE UNCHANGED allVars
  BY <1>7 DEF allVars
<1>. QED  BY <1>1, <1>2, <1>3, <1>4, <1>5, <1>6, <1>7 DEF BrokerNext

\* Every step of the broker keeps what holds of its handlers.
LEMMA NextKeepsCatalog ==
    ASSUME CatalogInv, [BrokerNext]_allVars
    PROVE  CatalogInv'
<1>1. CASE UNCHANGED vars
  BY <1>1, NothingKeeps
<1>2. CASE \E status \in {"0", "-1", "killed"} : Dies(status)
  BY <1>2, DiesKeeps
<1>3. CASE \E h \in Handlers : Catalog(h)
  BY <1>3, CatalogKeeps
<1>4. CASE \E h \in Handlers : Handle(h)
  BY <1>4, ListClassesKeeps, ListPlansKeeps, RespondKeeps, WriteFailsKeeps DEF Handle
<1>5. CASE StoreWrite
  BY <1>5, StoreWriteKeeps
<1>. QED  BY <1>1, <1>2, <1>3, <1>4, <1>5, StepsOfTheCatalog

\* The end of the process puts it back to where it was before it was launched.
LEMMA DyingIsClean ==
    ASSUME ProcessInv, NEW status \in {"0", "-1", "killed"}, Dies(status)
    PROVE  ProcessInv'
<1>1. /\ stage' = "down" /\ exit' = status /\ path' = FALSE
      /\ config' = NoConfig /\ seen' = {} /\ \A h \in Handlers : pc'[h] = "idle"
  BY DEF Dies
<1>. QED  BY <1>1 DEF ProcessInv, ProcessTypeOK, UsesNamedConfig, Stages, Files

\* Steps of the process that are not its end: the handlers are as they were.
LEMMA StartingKeeps ==
    ASSUME ProcessInv, Launch \/ runServer, UNCHANGED vars
    PROVE  ProcessInv' \/ \E status \in {"0", "-1"} : Dies(status)
<1>0. /\ ProcessTypeOK /\ UsesNamedConfig /\ pc' = pc
      /\ stage \in {"down", "client", "stat"} => seen = {}
      /\ stage = "rest" /\ ~path => seen \subseteq {EmptyFile}
    BY DEF ProcessInv, vars
<1>1. CASE Launch
  <2>1. /\ stage = "down" /\ path' \in BOOLEAN /\ stage' = "client" /\ exit' = "none"
        /\ config' = config /\ seen' = seen
    BY <1>1 DEF Launch
  <2>. QED  BY <1>0, <2>1 DEF ProcessInv, ProcessTypeOK, UsesNamedConfig, Stages
<1>2. CASE NewClient
  <2>1. \/ \E status \in {"0", "-1"} : Dies(status)
        \/ /\ stage = "client" /\ stage' = "stat" /\ exit' = exit
           /\ path' = path /\ config' = config /\ seen' = seen
    BY <1>2 DEF NewClient, Goes, Fatalf
  <2>. QED  BY <1>0, <2>1 DEF ProcessInv, ProcessTypeOK, UsesNamedConfig, Stages
<1>3. CASE resolveConfig
  <2>1. \/ \E status \in {"0", "-1"} : Dies(status)
        \/ /\ stage = "stat" /\ stage' = "rest" /\ exit' = exit /\ config' = config
           /\ \/ ~path /\ path' = path /\ seen' = seen
              \/ \E f \in Files : path' = (f # EmptyFile) /\ seen' = {f}
    BY <1>3 DEF resolveConfig, Goes, Fatalf
  <2>2. CASE /\ stage = "stat" /\ stage' = "rest" /\ exit' = exit /\ config' = config
             /\ ~path /\ path' = path /\ seen' = seen
    BY <1>0, <2>2 DEF ProcessInv, ProcessTypeOK, UsesNamedConfig, Stages
  <2>3. CASE /\ stage = "stat" /\ stage' = "rest" /\ exit' = exit /\ config' = config
             /\ \E f \in Files : path' = (f # EmptyFile) /\ seen' = {f}
    BY <1>0, <2>3 DEF ProcessInv, ProcessTypeOK, UsesNamedConfig, Stages
  <2>. QED  BY <2>1, <2>2, <2>3
<1>4. CASE CreateRESTConfig
  <2>1. \/ \E status \in {"0", "-1"} : Dies(status)
        \/ /\ stage = "rest" /\ stage' = "listen" /\ exit' = exit /\ path' = FALSE
           /\ \/ ~path /\ config' = InCluster /\ seen' = seen
              \/ config' \in KubeConfigs /\ seen' = seen \cup {config'}
              \/ config' = InCluster /\ seen' = seen \cup {EmptyFile}
    BY <1>4 DEF CreateRESTConfig, Connects, Goes, Fatalf
  <2>. QED  BY <1>0, <2>1 DEF ProcessInv, ProcessTypeOK, UsesNamedConfig, Stages, Files
<1>5. CASE Listen
  <2>1. \/ \E status \in {"0", "-1"} : Dies(status)
        \/ /\ stage = "listen" /\ stage' = "serving" /\ exit' = exit /\ seen' = {}
           /\ path' = path /\ config' = config
    BY <1>5 DEF Listen, Goes
  <2>. QED  BY <1>0, <2>1 DEF ProcessInv, ProcessTypeOK, UsesNamedConfig, Stages
<1>. QED  BY <1>1, <1>2, <1>3, <1>4, <1>5 DEF runServer, CreateServer

\* A step of start-up ends the process or does not touch the catalog.
LEMMA StartingIsSeparate ==
    ASSUME Launch \/ runServer
    PROVE  UNCHANGED vars \/ \E status \in {"0", "-1"} : Dies(status)
BY DEF Launch, runServer, CreateServer, NewClient, resolveConfig, CreateRESTConfig, Listen,
       Goes, Connects, Fatalf

\* Handlers run and requests arrive only while the process serves.
LEMMA HandlersKeepProcess ==
    ASSUME ProcessInv, TypeOK, UNCHANGED processVars,
           Request \/ (\E h \in Handlers : Handle(h)) \/ StoreWrite
    PROVE  ProcessInv'
<1>0. /\ stage' = stage /\ path' = path /\ config' = config /\ exit' = exit /\ seen' = seen
      /\ ProcessTypeOK /\ pc \in [Handlers -> {"idle", "classes", "plans"}]
  BY DEF processVars, ProcessInv, TypeOK
<1>1. stage = "serving" \/ \A h \in Handlers : pc'[h] # "idle" => pc[h] # "idle"
  <2>1. CASE Request
    BY <2>1 DEF Request
  <2>2. CASE \E h \in Handlers : Handle(h)
    <3>1. PICK h \in Handlers : Handle(h)
      BY <2>2
    <3>2. pc[h] # "idle"
      BY <3>1 DEF Handle, ListClasses, ListPlans, Respond, WriteFails
    <3>. QED  BY <1>0, <3>2 DEF ProcessTypeOK
  <2>3. CASE StoreWrite
    BY <2>3 DEF StoreWrite, handlerVars
  <2>. QED  BY <2>1, <2>2, <2>3
<1>2. \A h \in Handlers : pc'[h] # "idle" => stage' = "serving"
  BY <1>0, <1>1 DEF ProcessTypeOK
<1>. QED  BY <1>0, <1>2 DEF ProcessInv, ProcessTypeOK, UsesNamedConfig

\* Every step of the broker keeps what holds of its process.
LEMMA NextKeepsProcess ==
    ASSUME ProcessInv, TypeOK, [BrokerNext]_allVars
    PROVE  ProcessInv'
<1>1. CASE Launch \/ runServer
  <2>1. CASE \E status \in {"0", "-1"} : Dies(status)
    BY <2>1, DyingIsClean
  <2>2. CASE UNCHANGED vars
    BY <1>1, <2>2, StartingKeeps, DyingIsClean
  <2>. QED  BY <1>1, <2>1, <2>2, StartingIsSeparate
<1>2. CASE RefusedLaunch \/ ServeFails \/ Kill
  BY <1>2, DyingIsClean DEF RefusedLaunch, ServeFails, Kill
<1>3. CASE (Request \/ (\E h \in Handlers : Handle(h)) \/ StoreWrite) /\ UNCHANGED processVars
  BY <1>3, HandlersKeepProcess
<1>4. CASE UNCHANGED allVars
  BY <1>4 DEF allVars, vars, processVars, ProcessInv, ProcessTypeOK, UsesNamedConfig
<1>. QED  BY <1>1, <1>2, <1>3, <1>4 DEF BrokerNext

\* The invariant holds before the first launch.
LEMMA InitIsInvariant == BrokerInit => IInv
<1> SUFFICES ASSUME BrokerInit PROVE IInv
  OBVIOUS
<1>1. /\ log = << >> /\ pc = [h \in Handlers |-> "idle"] /\ since = [h \in Handlers |-> 0]
      /\ todo = [h \in Handlers |-> {}] /\ services = [h \in Handlers |-> << >>]
      /\ failed = [h \in Handlers |-> FALSE] /\ response = [h \in Handlers |-> NoResponse]
      /\ stage = "down" /\ path = FALSE /\ config = NoConfig /\ exit = "none" /\ seen = {}
  BY DEF BrokerInit, Init
<1>2. TypeOK
  BY <1>1 DEF TypeOK
<1>3. LastWriteExists
  <2>1. Len(log) = 0
    BY <1>1
  <2>. QED  BY <2>1 DEF LastWriteExists, IsLastWrite
<1>4. ASSUME NEW h \in Handlers PROVE HandlerOK(h)
  <2>1. /\ since[h] = 0 /\ Len(log) = 0 /\ pc[h] = "idle" /\ todo[h] = {}
        /\ response[h] = NoResponse
    BY <1>1
  <2>. QED  BY <2>1 DEF HandlerOK, Answered
<1>5. ProcessInv
  BY <1>1 DEF ProcessInv, ProcessTypeOK, UsesNamedConfig, Stages
<1>. QED  BY <1>2, <1>3, <1>4, <1>5 DEF IInv, CatalogInv

\* The invariant holds in every reachable state.
LEMMA InvariantHolds == BrokerSpec => []IInv
<1>1. IInv /\ [BrokerNext]_allVars => IInv'
  BY NextKeepsCatalog, NextKeepsProcess DEF IInv, CatalogInv
<1>. QED  BY <1>1, InitIsInvariant, PTL DEF BrokerSpec

-----------------------------------------------------------------------------
(* Theorems *)

(* Every variable of the catalog holds a value of its type: in particular  *)
(* what is listed and served are texts of objects that decode              *)
(* (store.go:141-188, controller.go:46-61).                                *)
THEOREM HandlersAreTyped == BrokerSpec => []TypeOK
<1>1. IInv => TypeOK
  BY DEF IInv, CatalogInv
<1>. QED  BY <1>1, InvariantHolds, PTL

(* Handlers run only while the process serves, and a process that listens  *)
(* has the configuration of a client, whichever steps of start-up fail and *)
(* whenever it is killed (client.go:79-169, broker.go:43-61).              *)
THEOREM ProcessIsTyped == BrokerSpec => []ProcessTypeOK
<1>1. IInv => ProcessTypeOK
  BY DEF IInv, ProcessInv
<1>. QED  BY <1>1, InvariantHolds, PTL

(* A process that is about to listen uses the configuration it was pointed *)
(* to, however the file changes between Stat and the read                  *)
(* (client.go:79-169).                                                     *)
THEOREM NamedConfigIsUsed == BrokerSpec => []UsesNamedConfig
<1>1. IInv => UsesNamedConfig
  BY DEF IInv, ProcessInv
<1>. QED  BY <1>1, InvariantHolds, PTL

(* However writes fall between the lists of a request, what it serves is   *)
(* put together from lists that each show one state of the store or        *)
(* nothing (controller.go:47-61, store.go:141-188).                        *)
THEOREM EveryListIsOneState == BrokerSpec => []EachListIsOneState
<1>1. ASSUME IInv, NEW h \in Handlers, Answered(h)
      PROVE  LET served == {[key |-> s.key, text |-> s.text] : s \in Served(h)} IN
             /\ served = {} \/ \E n \in Window(h) : Readable(n, ClassKeys) /\ served = Classes(n)
             /\ \A s \in Served(h) :
                   s.plans = {} \/ \E n \in Window(h) :
                                       Readable(n, PlanKeys) /\ s.plans = PlansOf(n, s.key)
  <2> DEFINE ss == response[h].served
             served == {[key |-> s.key, text |-> s.text] : s \in Served(h)}
  <2>1. Listing(ss, {}, since[h], response[h].until, failed[h])
    BY <1>1 DEF IInv, CatalogInv, HandlerOK
  <2>2. Between(since[h], response[h].until) = Window(h)
    BY DEF Between, Window
  <2>3. served = {} \cup {Entry(ss[i]) : i \in 1..Len(ss)}
    BY DEF Served, Entry
  <2>4. served = {} \/ \E n \in Window(h) : Readable(n, ClassKeys) /\ served = Classes(n)
    <3>1. PICK n \in Window(h), err \in BOOLEAN : served = ClassesListed(n, err)
      BY <2>1, <2>2, <2>3 DEF Listing, FromOneList
    <3>2. CASE err \/ ~Readable(n, ClassKeys)
      BY <3>1, <3>2 DEF ClassesListed, Listed
    <3>3. CASE ~err /\ Readable(n, ClassKeys)
      BY <3>1, <3>3 DEF ClassesListed, Listed, Classes
    <3>. QED  BY <3>2, <3>3
  <2>5. ASSUME NEW s \in Served(h)
        PROVE  s.plans = {} \/ \E n \in Window(h) :
                                    Readable(n, PlanKeys) /\ s.plans = PlansOf(n, s.key)
    <3>1. PICK n \in Window(h), err \in BOOLEAN :
            s.plans = ServicePlansByService(n, err, s.key)
      BY <2>1, <2>2 DEF Listing, PlansFromOneList, Served
    <3>2. CASE err \/ ~Readable(n, PlanKeys)
      BY <3>1, <3>2 DEF ServicePlansByService, Listed
    <3>3. CASE ~err /\ Readable(n, PlanKeys)
      <4>1. ServicePlansByService(n, err, s.key) = PlansOf(n, s.key)
        BY <3>3 DEF ServicePlansByService, Listed, PlansOf
      <4>. QED  BY <3>1, <3>3, <4>1
    <3>. QED  BY <3>2, <3>3
  <2>. QED  BY <2>4, <2>5
<1>2. IInv => EachListIsOneState
  BY <1>1 DEF EachListIsOneState
<1>. QED  BY <1>2, InvariantHolds, PTL

(* A class that stays as it is while a request runs is served, once, with  *)
(* every plan for it that stays, whatever is written to other keys.        *)
THEOREM StayingClassesAreServed == BrokerSpec => []WhatStaysIsServed
<1>1. ASSUME IInv, NEW h \in Handlers, Answered(h), Undisturbed(h),
             NEW c \in LiveAt(response[h].until, ClassKeys), Unchanged(h, c)
      PROVE  \E i \in 1..Len(response[h].served) :
                /\ response[h].served[i].key = c
                /\ \A j \in 1..Len(response[h].served) :
                      response[h].served[j].key = c => j = i
                /\ \A p \in LiveAt(response[h].until, PlanKeys) :
                      Unchanged(h, p) /\ c \in ObjectAt(response[h].until, p).services =>
                          Plan(response[h].until, p) \in response[h].served[i].plans
  <2> DEFINE ss == response[h].served
             until == response[h].until
  <2>0. Listing(ss, {}, since[h], until, failed[h]) /\ ~failed[h]
    BY <1>1 DEF IInv, CatalogInv, HandlerOK, Undisturbed
  <2>1. Between(since[h], until) = Window(h)
    BY DEF Between, Window
  <2>2. until \in Window(h)
    <3>1. until \in since[h]..Len(log) /\ since[h] \in Nat /\ Len(log) \in Nat /\ MaxStale \in Nat
      BY <1>1, BrokerCatalogAssumption DEF IInv, CatalogInv, HandlerOK, TypeOK
    <3>. QED  BY <3>1 DEF Window
  <2>3. \A n \in Window(h) : Readable(n, ClassKeys) /\ Readable(n, PlanKeys)
    BY <1>1, KeysOfTypes DEF Undisturbed, Readable, LiveAt
  <2>4. ASSUME NEW k, Unchanged(h, k), NEW n \in Window(h)
        PROVE  ObjectAt(n, k) = ObjectAt(until, k)
    BY <2>2, <2>4 DEF Unchanged, ObjectAt
  <2>5. PICK n \in Window(h) : {Entry(ss[i]) : i \in 1..Len(ss)} = ClassesListed(n, FALSE)
    BY <2>0, <2>1 DEF Listing, FromOneList
  <2>6. c \in Listed(n, FALSE, ClassKeys)
    BY <1>1, <2>3, <2>4 DEF Listed, LiveAt
  <2>7. PICK i \in 1..Len(ss) : Entry(ss[i]) = [key |-> c, text |-> ObjectAt(n, c).text]
    BY <2>5, <2>6 DEF ClassesListed
  <2>8. ss[i].key = c
    BY <2>7 DEF Entry
  <2>9. \A j \in 1..Len(ss) : ss[j].key = c => j = i
    BY <2>0, <2>8 DEF Listing, KeysDiffer
  <2>10. ASSUME NEW p \in LiveAt(until, PlanKeys), Unchanged(h, p),
                c \in ObjectAt(until, p).services
         PROVE  Plan(until, p) \in ss[i].plans
    <3>1. PICK m \in Window(h) : ss[i].plans = ServicePlansByService(m, FALSE, c)
      BY <2>0, <2>1, <2>8 DEF Listing, PlansFromOneList
    <3>2. ObjectAt(m, p) = ObjectAt(until, p)
      BY <2>4, <2>10
    <3>3. p \in Listed(m, FALSE, PlanKeys) /\ c \in ObjectAt(m, p).services
      BY <2>3, <2>10, <3>2 DEF Listed, LiveAt
    <3>4. Plan(m, p) = Plan(until, p)
      BY <3>2 DEF Plan
    <3>. QED  BY <3>1, <3>3, <3>4 DEF ServicePlansByService
  <2>. QED  BY <2>8, <2>9, <2>10
<1>2. IInv => WhatStaysIsServed
  BY <1>1 DEF WhatStaysIsServed
<1>. QED  BY <1>2, InvariantHolds, PTL
=============================================================================
