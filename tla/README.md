# Verification of the Istio broker

TLA+ models of `istio/old_broker_repo`, an Open Service Broker (OSB) that keeps its
configuration in Kubernetes custom resources: TLC checks them on small instances, TLAPS proves
all their safety properties for every instance. All paths below are relative to `src/`.

## 1. The system

| Component | Source | State | Operations |
|---|---|---|---|
| generated kinds and prototypes | `template.go`, `generate.sh` | `knownTypes`: one object and one collection of each type, shared by all goroutines | `DeepCopyObject`, `GetSpec`, `SetSpec`, `GetItems`, ... |
| config store client `crd.Client` | `pkg/platform/kube/crd/client.go:257-393`, `conversion.go` | none of its own: descriptor and REST client; all state is in the cluster | `Get`, `List`, `Create`, `Update`, `Delete` |
| the interface `config.Store` | `pkg/model/config/store.go:25-79` | what is stored, with revisions | the same, as a contract |
| schemas | `pkg/model/config/schema.go` | constant descriptor of types | `Validate`, `ToJSONMap`, `FromJSONMap`, `GetByType`, `ToYAML`, `FromYAML`, `FromJSON` |
| typed adapter `brokerConfigStore` | `pkg/model/config/store.go:134-188` | none | `ServiceClasses`, `ServicePlans`, `ServicePlansByService` |
| catalog controller | `pkg/controller/controller.go` | per request only | `Catalog` |
| OSB objects | `pkg/model/osb` | values | `NewService`, `NewServicePlan`, `AddPlan`, `AddService` |
| CRD registration | `client.go:171-255` | the definitions in the cluster | `RegisterResources`, `DeregisterResources` |
| server and command | `pkg/server/broker.go`, `cmd/brks` | life of the process | `CreateServer`, `Start`, `runServer` |
| client construction | `client.go:79-169` | none | `NewClient`, `resolveConfig`, `CreateRESTConfig` |
| test support | `pkg/testing` | none | `CheckMapInvariant`, `GetAppPods`, `Eventually` |
| the rest | `pkg/version`, `cmd/shared`, `cmd/brkcol`, `bin`, `prow`, Bazel files | none | formatting, documentation, build |

**How they interact.** `brks server` builds a client, the adapter and the controller, and hands
`GET /v2/catalog` to `Controller.Catalog`; `net/http` runs each request in its own goroutine. The
handler calls the adapter, the adapter calls `List`, `List` is one HTTP request to the API server.
Nothing in the process is shared between requests but the stateless client and the prototypes it
copies: goroutines, other brokers, `kubectl` and the API server meet in the stored objects. There
are no locks, no caches and no callbacks. What is hard is therefore what happens *between* HTTP requests, and
around one that fails:

* concurrent read-modify-write of one object, stale reads, chained updates;
* a broken connection, after which the write may have happened, may happen later, or never;
* items or lists that fail while others succeed;
* N+1 lists that make up one catalog while the store changes;
* shallow copies of shared prototypes, filled in by concurrent goroutines;
* a start-up that looks twice at a file others write, fails at any step, or dies under requests;
* files of entries that outlive what they were taken from and are edited by hand;
* several processes that create, poll and delete the same two definitions, with errors or a crash
  at every call.

`PROJECT.json` lists the hazards line by line with the properties aimed at them.

## 2. The modules

| Module | Models | Notes |
|---|---|---|
| `ApiServer` | the cluster's storage | external; a log of writes whose length is the revision |
| `Conversion` | entries, wire objects, `convertConfig`, `convertObject`, `Validate` | constant operators; extends `ApiServer` |
| `CrdClient` | `crd.Client` with concurrent callers | extends `Conversion` |
| `StoreTests` | the conformance tests of the store | extends `Conversion` |
| `ConfigStore` | the contract of `config.Store` | abstract specification |
| `CrdClientStore` | refinement mapping `CrdClient` -> `ConfigStore` | extends `CrdClient` |
| `BrokerCatalog` | controller, adapter and OSB objects | extends `ApiServer` |
| `Broker` | the process `brks server`: command, client construction, server | extends `BrokerCatalog` |
| `WireObjects` | generated kinds, their prototypes and copies in memory | stands alone |
| `ConfigFiles` | entries in YAML files, beside the store | extends `CrdClient` |
| `CrdRegistration` | registration of definitions | stands alone |
| `ApiServerProofs` | lemmas on the log: the last write of a key, what appending changes | extends `ApiServer`, `TLAPS` |
| `CrdClientProofs` | proofs: type correctness, safe updates, whole lists; what is returned is stored, what is written can be read | extends `CrdClient`, `ApiServerProofs` |
| `CrdClientStoreProofs` | proof of the refinement | extends `CrdClientStore`, `CrdClientProofs` |
| `ConfigFilesProofs` | proofs: safe updates from files, entries in files | extends `ConfigFiles`, `CrdClientProofs` |
| `BrokerProofs` | proofs: catalogs, start-up | extends `Broker`, `ApiServerProofs` |
| `WireObjectsProofs` | proofs: prototypes and copies | extends `WireObjects`, `TLAPS` |
| `CrdRegistrationProofs` | proofs: registration | extends `CrdRegistration`, `TLAPS` |
| `StoreTestsProofs` | proofs: the tests pass | extends `StoreTests`, `ApiServerProofs` |
| `MCCrdClient`, `MCBroker`, `MCBrokerCatalog`, `MCWireObjects`, `MCConfigFiles`, `MCCrdRegistration`, `MCStoreTests` | instances for TLC | |

### ApiServer

`log` is the sequence of all writes; write `n` has revision `n`. `RevisionAt(n, k)` is the last
write of key `k` among the first `n`. A read answered from a prefix of the log is a stale read.
`Accepts` is the server's optimistic concurrency as `store.go:44-48` describes it: a create needs
an absent key and no revision, an update an equal revision, a delete a present key.

### CrdClient

| Code | Model |
|---|---|
| a call of a `Client` method in a goroutine | `call[c]`: the entry it was given, the request it sent, the answer |
| argument checks, `Validate`, `convertConfig`, sending | `Create`, `Update`, `Delete`, `Get`, `List` (one step: no shared state is touched) |
| the server handles the request | `Serve` |
| `Do().Into(obj)` returns, `convertObject`, `return` | `ReturnWrite`, `ReturnDelete`, `ReturnGet`, `ReturnList` |
| an error of the transport | `Lose`: the call fails; the request is dropped, or goes to `late` |
| the request of such a call arrives after all | `ServeLate` |
| `kubectl` and other writers | `OtherWrite` |
| the entry a caller works on | `held[c]`: created by it, read by `Get`, or updated with the revision a write returned |

A key is a type and a name; a *name* here stands for a namespace and a name in it, which the code
always passes together. Labels and annotations are one value. A protobuf message is its message
type and a set of pairs; its canonical JSON (`ToJSONMap`) names fields, not the type, so an empty
message becomes `{}`, which every type decodes, and any other JSON decodes only under the type it
came from. `Validate` refuses an empty message of the types in `Strict`, as `FakeConfig` does
(`pkg/testing/mock/config.go:38-43`). The program has no caller that updates: `Update` models the
one the interface is written for, which changes the spec of the entry it holds and keeps the rest
(`store.go:70-75`).

### ConfigStore and the refinement

`ConfigStore` knows no requests, answers, JSON or validation: a caller asks for a mutation, the
mutation takes effect at most once and only on a state that permits it, success tells the truth
and the revision, failure tells nothing (the mutation may be `adrift`), and a read returns an
entry that was stored at some time. `CrdClientStore` maps the log to the history with wire objects
decoded, an open write request to the mutation it asks for, `late` to `adrift` and `held` to
`holds`. Reads in flight, answers to them and failed validations map to stutters.

### BrokerCatalog

One handler is `Catalog` (the request arrives), `ListClasses`, one `ListPlans` for each class in
any order, and `Respond`, or `WriteFails` when the connection breaks. Each list reads one recent state of the store or fails; an error or one
malformed item leaves the adapter's map empty (`store.go:148-151`, `163-166`). The loop's order is
nondeterministic because Go's map iteration is. `writeResponse` is modelled by what `Fprintf` does
to a percent sign. Names, ids and descriptions are one value, `text`.

### Broker

`stage` is what the process does next:

| Code | Model |
|---|---|
| `brks server`, with `--kubeconfig` or without; a refused argument | `Launch`, `RefusedLaunch` |
| `NewClient`: the types of the descriptor among `knownTypes` | `NewClient`; `Builds` are the binaries generated with more or fewer kinds |
| `resolveConfig`: `os.Stat` | `resolveConfig` |
| `CreateRESTConfig`: the file is read, or the pod's configuration | `CreateRESTConfig` |
| `fatalf`: print and `os.Exit(-1)` | `Fatalf` |
| `ListenAndServe`: the port is taken, or requests reach handlers, or accepting fails | `Listen`, `Request`, `ServeFails` |
| the process is killed | `Kill` |

Each access to the kubeconfig file finds any state of it: missing, empty, unusable, or one of
`KubeConfigs`. `seen` is a ghost that remembers what this process found. When the process ends, its
handlers end with it and their clients get nothing (`Lost`); the store goes on. Unlike a handler, a
process has no state it would have to recover. The subcommand `version` and `brks` alone, which
print and exit, are left out. "Server started" is printed before `Listen`, and the end after a
failed `Listen` has status 0, as in the code.

### WireObjects

`object` maps addresses to structs, `map` maps references to the maps `Spec` fields refer to: Go's
aliasing is explicit. `DeepCopyObject` copies a struct with the *reference* to its map, as
`DeepCopyInto` does (`template.go:72`); metadata is copied by value because `ObjectMeta.DeepCopyInto`
is deep. One step is one statement that touches an object: `ConvertConfig` (`ToJSONMap` and the copy),
`SetObjectMeta`, `SetSpec`, `CopyPrototype`, `Send`, the decoding of the answer field by field, and
`ConvertItem` for each item. The decoder adds to a map that is there and makes one where there is
none: as long as prototypes have no map, sharing the reference is harmless, and that is what
`NothingIsShared` says. `Create` and `Update` treat objects alike; `Create` stands for both. What
a call has made is dropped when it returns.

### ConfigFiles

`CrdClient` with one file beside it: `Save` writes the held entry with `ToYAML`, `Load` reads it with
`FromYAML`, `CreateHeld` gives it to `Create`, and `Update` is that of `CrdClient`. The repository
exports the two functions and calls neither; `Save` and `Load` are the callers they are written for.
People write and amend the file at any time: they add to the spec, change the type, or remove the
revision. `FromYAML` is a set of at most one entry, empty when it returns an error. A file keeps
`IstioNamespace`, which the store loses, and the revision, which may be stale.

### CrdRegistration

Every call to the cluster is a step: `Create` or `CreateFails`, `CheckEstablished`, `CheckMissing`
or `CheckFails`, `Delete` or `DeleteFails`. A failing call may have taken effect. Both methods begin
with `apiextensionsclient.NewForConfig`, which touches nothing that is shared; when it fails, either
method, a rollback's `DeregisterResources` included, returns at once and has deleted nothing
(`NewForConfigFails`; `client.go:172-175`, `243-246`). `err`, `errs`
and `result` follow the variables of the code, shadowing included: `errPoll` is dropped and the
`err` of the last `Create` is what the rollback is appended to. `MultierrorAppend` is an error
even for a nil argument, as in the library. `saw`, `gone`, `deletes` and `steady` are ghosts that only
the properties read: `deletes` remembers what the delete of each definition has returned in this call,
`gone` which definitions have been absent during it or, in a rollback, since that began. The cluster establishes a pending definition at any time or, when its names
conflict, never (`Establish` has no fairness). The half second between polls is not modelled: the
condition always ends the poll on its first evaluation.

### StoreTests

`CheckMapInvariant` and `CheckBrokerConfigTypes` (`pkg/testing/mock/config.go:78-279`) as
`client_test.go:94-104` runs them: in parallel, on one cluster, in separate namespaces. `pc[t]` is
the loop or statement a test is in; the turns of a loop over the map of elements come in any
order, those of `for i := 0; i < n; i++` in theirs. `Refused` lists the calls that must fail, in
the code's order; `errors` is the set of tests that have called `t.Error`. A test waits for each
answer before its next call and nothing fails here, so that a client call is one step (`Mutates`,
`Found`, `Listed`), of the same conversions, validation and server as in `CrdClient`. The reads of
what is missing (lines 156-169) are part of `ListAll`: nothing writes what they read.

## 3. What the runs check

| Run | Instance | Shows |
|---|---|---|
| `CrdClientRace` | 2 callers (symmetric), 1 type and name, 1 slot for late requests, 3 writes, reads at most 1 write behind; others annotate and delete | `TypeOK`, `ReturnedIsStored`, `UpdatesKeepOthersWork` |
| `CrdClientStore` | 1 caller, 3 types (one without validation, one unknown to the client), 2 names, an entry that is not valid, an object that does not decode, late requests, 3 writes | `ImplementsStore` (refinement), `ListIsWhole`, `ClientWritesDecode` |
| `Broker` | 1 handler, 2 classes, 2 plans (one moves from two classes to one), deletes, a malformed class and a malformed plan, failing lists, 4 writes, reads at most 1 behind; 2 binaries, of which one lacks a kind, every state of the kubeconfig file, any number of launches | `TypeOK`, `ProcessTypeOK`, `EachListIsOneState`, `WhatStaysIsServed`, `UsesNamedConfig`, `RequestsAreAnswered`, `LaunchEnds` |
| `WireObjects` | 3 goroutines (symmetric), 2 types, 2 values, lists of up to 2 items | `TypeOK`, `SentIsEntry`, `ReturnedIsReply`, `NothingIsShared` |
| `ConfigFiles` | 1 caller, 1 file, a known and an unknown type, files with another type's message and empty ones, 3 writes, reads at most 1 behind; others annotate, empty and delete | `FilesTypeOK`, `FilesRoundTrip`, `ClientWritesDecode`, `UpdatesKeepOthersWork` |
| `CrdRegistration` | 2 processes, the 2 definitions of `BrokerConfigTypes`, 3 API errors, clientsets that cannot be made, or crashes | `TypeOK`, `NilMeansEstablished`, `RegisteringAgainIsHarmless`, `DeregisterTriesAll`, `CallsReturn` |
| `StoreTests` | one run of each test, 3 elements | `TestsPass`, `TestsAreIsolated` |

**Why the bounds are enough.** A lost update takes a read, a write of another and a write: three
writes (`MaxRev = 3`) leave room for create, interference and update, and for delete and
re-creation under an old revision; two callers and one late request give all three kinds of
interference. A torn catalog takes two lists with a write between; four writes set up a class and
two plans and change one while a request runs. One handler is enough because handlers share only
the store, which `StoreWrite` already changes at any moment. For the same reason one process is
enough: launches follow each other, and what a process leaves behind is only its exit status. Three
goroutines can all hold copies of one prototype, and two types and an object and a collection of
each exclude that a copy of the wrong one is met; two items tell their order. In `ConfigFiles` every
entry comes from a file, so that one caller suffices to hold a stale one, and three writes again
leave room for a deletion and a re-creation. Two processes, two definitions and
three faults let a rollback of one cross each loop of the other with a fault in each, and every delete
of one call fail together with the check or the other call that led to it.
The repository runs `CheckMapInvariant` with 5 elements; its loops treat all but element 0 alike,
and three give every relative order of element 0 and two others.
Deadlock checking is on in every run but `StoreTests`, where both tests end: writes stop at `MaxRev`, but reads, deletes that find
nothing, requests, launches and calls always go on.

**Fairness.** `CrdClient` is checked for safety only and has none. `BrokerCatalog` assumes weak
fairness of each handler's steps: the Go scheduler runs every goroutine, and a list returns an
answer or an error. `CrdRegistration` assumes weak fairness of each process's calls, for the same
reason, and nothing of the cluster: it need not ever establish a definition. `Broker` assumes weak
fairness of the steps of start-up (sequential code that does not block: building a REST client
contacts nobody) and of the handlers of a process that serves; launching, being killed and the
arrival of requests are not fair. `BrokerCatalogPercent`, `WireObjects` and `ConfigFiles` check
safety.

**Mutants.** Every property of a passing run is broken by a plausible mistake in a definition it
is about (the `...No...`, `...Skipping`, `...Strictly` definitions marked *Mistake*): the
revision, the spec or the name is not copied, the wrong schema is used, a guard is missing, items
that do not decode are skipped, those that do are served though the list has failed, a prototype is used in place of its copy or made with a map, a file
is read with a fresh revision, the pod's configuration stands in for a missing file, a `break` leaves the wrong loop, an error ends a loop early, and
so on. One is remarkable: if `multierror.Append` ignored nil errors, as `DeregisterResources` seems
to expect, `NilMeansEstablished` would fail. Today a failed poll is reported only because the
rollback always reports an error.

### Disagreements between the code and its documentation

Five runs check one property each that a comment or test states and the code violates:

* `CrdClientMixed`: a message of another type than the entry's is stored and cannot be read back
  (`schema.go:164`; `resource.go:25`).
* `CrdClientHome`: `IstioNamespace` is lost on the way through the store (`conversion.go:52`;
  `mock/config.go:71`).
* `BrokerCatalogPercent`: the body is used as a format string (`controller.go:73`).
* `CrdRegistrationWait`: registration does not wait for a definition that is not established yet,
  it deletes it (`client.go:225`; `client.go:171`, `202`).
* `CrdRegistrationClean`: `DeregisterResources` always returns an error (`client.go:252`;
  `231-235`).

Two more observations that contradict no document and so have no run: one malformed class empties
the whole catalog, with status 200 (`store.go:148-151`; `EachListIsOneState` allows "whole or
empty" and no part), and an entry that others stored without validation can be written by `ToYAML` but not read
back by `FromYAML` (`FilesRoundTrip` says exactly which).

## 4. What is proved

Every invariant of the passing runs and every action property, and the refinement, are theorems:
for any callers, handlers, goroutines, processes, slots, types, names, entries, files, writes of
others, faults, bounds and staleness that satisfy the assumption of the module (`...Assumption`:
sentinels are not values, sets are of the right kind, new entries carry no revision). Two
hypotheses stand in the theorems that need them and in no others. `WellTyped` says that entries
are created with messages of their type; the code does not enforce it, and `CrdClientMixed` shows
what happens without. `KnownTypes` says that entries made up in memory are of types of the
descriptor; a caller may hold any other, and only `FilesTypeOK` and `FilesRoundTrip`, which are
about what can be written to a file at all, speak of what is held rather than of what is stored.

| Module | Theorem | States |
|---|---|---|
| `CrdClientProofs` | `TypeCorrect` | `Spec => []TypeOK` |
| | `UpdatesAreSafe` | `Spec => UpdatesKeepOthersWork` |
| | `ListsAreWhole` | `Spec => ListIsWhole` |
| | `ReturnedEntriesAreStored` | `WellTyped => (Spec => []ReturnedIsStored)` |
| | `WritesCanBeReadBack` | `WellTyped => (Spec => []ClientWritesDecode)` |
| `CrdClientStoreProofs` | `ClientImplementsStore` | `WellTyped => (Spec => ImplementsStore)` |
| `ConfigFilesProofs` | `UpdatesFromFilesAreSafe` | `FilesSpec => UpdatesKeepOthersWork` |
| | `FileEntriesCanBeReadBack` | `WellTyped => (FilesSpec => []ClientWritesDecode)` |
| | `FilesAreTyped` | `WellTyped /\ KnownTypes => (FilesSpec => []FilesTypeOK)` |
| | `FilesKeepEntries` | `WellTyped /\ KnownTypes => (FilesSpec => []FilesRoundTrip)` |
| `BrokerProofs` | `HandlersAreTyped`, `ProcessIsTyped` | `BrokerSpec => []TypeOK`, `[]ProcessTypeOK` |
| | `EveryListIsOneState` | `BrokerSpec => []EachListIsOneState` |
| | `StayingClassesAreServed` | `BrokerSpec => []WhatStaysIsServed` |
| | `NamedConfigIsUsed` | `BrokerSpec => []UsesNamedConfig` |
| `WireObjectsProofs` | `ObjectsAreTyped` | `Spec => []TypeOK` |
| | `GoroutinesShareNothing` | `Spec => []NothingIsShared` |
| | `EntriesAreSent`, `RepliesAreReturned` | `Spec => []SentIsEntry`, `[]ReturnedIsReply` |
| `CrdRegistrationProofs` | `RegistrationIsTyped` | `Spec => []TypeOK` |
| | `NilIsEarned` | `Spec => []NilMeansEstablished` |
| | `RegisteringIsIdempotent` | `Spec => []RegisteringAgainIsHarmless` |
| | `AllDeletesAreTried` | `Spec => []DeregisterTriesAll` |
| `StoreTestsProofs` | `TheTestsPass`, `TheTestsAreIsolated` | `Spec => []TestsPass`, `[]TestsAreIsolated` |

Each proof has the same shape: an inductive invariant that strengthens the type invariant, one
lemma for each action that keeps it, and the properties as consequences. No property but the type
invariants of single components is inductive by itself; what is added, and why, is the argument.

**The client.** `IInv` (`CrdClientProofs`) strengthens `TypeOK` by

* `LastWriteExists`: `RevisionAt` is well defined on every prefix of the log;
* `CallOK`: an open write was converted from its entry, a `PUT` `Extends` the write whose revision
  it names, a successful answer refers to a write that is in the log, that of a list to one of its
  prefixes;
* `HeldOK`: an entry with a revision `Covers` the write of that revision: it keeps what that write
  holds and may add to it;
* the same of late requests.

`TypeOK` alone is not inductive: `ReturnGet` reads `log[r]`, so the answer must point into the log.
All of these are facts about writes that are already in the log, and the log only grows: they are
stable (`FactsAreStable`), which deals with every interleaving at once. What is left is one lemma
for each action. For `UpdatesAreSafe`, the write that changed the log is a request the server
accepted (`ClientWriteIsAccepted`); only a `PUT` leaves a live object live, its revision equals
the current one, and by `Extends` it adds to exactly the object that is there. For `ListsAreWhole`, a `List`
whose answer has come ends in `ReturnList` unless its connection breaks (`ListsEndInReturnList`), and
the answer names a prefix of the log, in which every key has a last write: what `ReturnList` makes of
those writes `Shows` that prefix, whatever has been written since. `TInv` adds that
what callers hold, send and are handed has messages of its type, and that results match the log, and that what the client has
written decodes; `MInv` that a held entry does not only cover but is what is stored at its revision.

**The refinement.** The invariants are `IInv`, `TInv` and `RInv` (the log keeps its bound, only
mutators are set adrift). Each step of the client is one of `ConfigStore`, and every other step,
those of reads in flight and of answers among them, is a stutter:

| `CrdClient` | `ConfigStore` |
|---|---|
| `Create` that fails in the client | `Prepare` |
| `Create`, `Update`, `Delete` that send | `Ask` |
| `Serve` of a write the server accepts | `Effect` |
| `ReturnWrite` of a success | `Succeed` |
| `ReturnWrite` of a failure, `ReturnDelete`, `Lose` of a write | `Fail` |
| `ServeLate` | `Settle` |
| `ReturnGet` of an entry | `Read` |
| `OtherWrite` | `Interfere` |

A delete hands out nothing, so that the step of one that succeeded is the same under `Succeed` and
`Fail` when nothing is set adrift. The one lemma about data is `LastWriteIsRevision`: the history of decoded objects has the same last
writes as the log, so that the server accepts exactly what the contract permits.

**Files.** `FInv` is `IInv` with `FileOK`: a file with a revision keeps what the write of that
revision holds (`FileCovers`), whatever its type is now. This is why `Covers` and `Extends` do not
mention the key: a file whose type was changed names a revision of another key, and the server,
not the client, refuses it. `CreateHeld`, `Load`, `Save` and `WriteByHand` get a lemma each; all
other steps are those of `CrdClient`, whose lemmas are cited. `DInv` follows the known types
through calls and held entries.

**The catalog and the process.** `HandlerOK` says for each handler that the classes it has served
and those left to visit are what one list showed during its request, or nothing if that list
failed, that no two of them have one key, and that the plans of each served class are from one list
of plans (`Listing`). A list of the past stays one (`ListsAreStable`), and a class that stays
during a request is in each list of it; `WhatStaysIsServed` follows. `ProcessInv` says why a
process has come to its stage: it has seen no file before `CreateRESTConfig`, and without a path
only empty ones; the two halves of the invariant do not touch each other's variables
(`StartingIsSeparate`, `HandlersKeepProcess`).

**Wire objects.** Each goroutine owns the addresses of its call (`Own`), prototypes have no map
(`PrototypesAreEmpty`), and what a goroutine knows of its objects (`Closed`, `Progress`, `Outgoing`,
`Incoming`) is about its own only. A step that writes at its goroutine's addresses keeps the
invariant of every other (`StepIsLocal`), so that each action is proved for one goroutine alone.
Without `PrototypesAreEmpty`, `Closed` is not kept by `CopyPrototype`: the copy would refer to the
prototype's map.

**Registration.** `InCall`, `Found` (a poll has seen every definition it has passed),
`Undisturbed` (as long as a process is `steady`, what was established is) and `Tried`: the
deletes have settled exactly what their loop has passed (each of them has failed, or its definition
was absent at some time since they began), and a call that has not come to its deletes has none.
What is absent once stays in `gone`, so that what other processes do leaves `Tried` alone; the loop
ends only when it has passed every definition, and `DeregisterTriesAll` follows.

**The tests.** The invariant says for every statement of a test what is stored in its namespace
(`Element`, `MapIs`, `TypesAre`), which revisions it knows (`Current`) and that nothing else is
stored (`NothingOutside`). A write of one test leaves the namespaces of all others alone
(`StepOfTest`); the rest is one lemma for each statement. Any number of elements will do, and any
number of tests of both kinds side by side.

**Only model-checked.** The liveness properties (`RequestsAreAnswered`, `LaunchEnds`,
`CallsReturn`), which are out of the prover's reach: they need fairness and `ENABLED`. The
violations of section 3 are counterexamples, each in one instance.

## 5. What is not modelled

* `GetByMessageName`, `Types`, DNS-1123 labels, resource and kind names (`schema.go:157-161`,
  `191-208`, `conversion.go:64-78`): pure functions of constants; no two types in the repository
  collide, and a property about them would be one about the constants.
* `pkg/testing/util`: helpers of integration tests. `client_test.go` uses those that create and
  delete a namespace, which are one API call; `GetAppPods`, `Eventually` and the rest have no caller.
* `serviceInstance.go`, `serviceBinding.go`: structs nothing uses.
* Version, printing, documentation generator, build scripts: formatting and files.
* Watches, pagination, timeouts of single HTTP requests: the code uses none.

## 6. Plan

Done: all modules of section 2, and the proofs of all their safety properties. Left, in this order:

1. **Facts the runs do not state yet**: what a caller that retries a failed call can conclude;
   that a revision once handed out never again names other contents (`store.go:70-75`).
2. **Shorter proofs**: lemmas on records and functions that `CrdClientStoreProofs` and
   `WireObjectsProofs` each prove for themselves.
3. **`null` for an empty catalog** (`catalog.go:21`), if a property beyond the conversion itself
   is found for it.
