----------------------------- MODULE ConfigStore -----------------------------
(***************************************************************************)
(* What config.Store promises its callers, from the interface and its      *)
(* documentation (pkg/model/config/store.go:25-79), without requests,      *)
(* answers, JSON or validation:                                            *)
(*   - a mutation takes effect at most once, in one step, and only on the  *)
(*     state it asks for: Create on an absent key, Update on the revision  *)
(*     it names, Delete on a present key;                                  *)
(*   - a call that succeeds took effect before it returned, and returns    *)
(*     the revision it took effect at;                                     *)
(*   - a call that fails tells nothing: its mutation may have taken        *)
(*     effect, may take effect later, or never;                            *)
(*   - a read returns an entry that was stored, not always the last one.   *)
(***************************************************************************)
EXTENDS Naturals, Sequences

CONSTANTS
    Callers, Slots,
    Keys,
    Contents,    \* what an entry holds besides its key and revision
    Absent,      \* a key without an entry
    Opaque,      \* an entry written by others that is no configuration
    NoEntry, NoMutation,
    MaxRev

VARIABLES
    hist,    \* the write of each revision
    open,    \* the mutation each caller has asked for and its outcome
    adrift,  \* mutations whose caller has been given an error
    holds    \* the entry each caller has in hand

storeVars == <<hist, open, adrift, holds>>

Revisions == 0..MaxRev

StoredEntries == [key : Keys, rev : Revisions, content : Contents]

Mutations == [op : {"Create", "Update", "Delete"}, key : Keys, rev : Revisions,
              content : Contents \cup {Absent}]

NothingOpen == [mutation |-> NoMutation, done |-> 0]

-----------------------------------------------------------------------------
LastWrite(k) ==
    CHOOSE i \in 0..Len(hist) : /\ i # 0 => hist[i].key = k
                                /\ \A j \in (i+1)..Len(hist) : hist[j].key # k

Present(k) == LastWrite(k) # 0 /\ hist[LastWrite(k)].content # Absent

Permitted(m) ==
    \/ m.op = "Create" /\ ~Present(m.key)
    \/ m.op = "Update" /\ Present(m.key) /\ m.rev = LastWrite(m.key)
    \/ m.op = "Delete" /\ Present(m.key)

TakesEffect(m) ==
    /\ Permitted(m)
    /\ Len(hist) < MaxRev
    /\ hist' = Append(hist, [key |-> m.key, content |-> m.content])

-----------------------------------------------------------------------------
StoreInit ==
    /\ hist = << >>
    /\ open = [c \in Callers |-> NothingOpen]
    /\ adrift = [s \in Slots |-> NoMutation]
    /\ holds = [c \in Callers |-> NoEntry]

(* A caller makes up an entry of its own, not stored yet.                  *)
MakeUp(c) ==
    /\ holds'[c] \in StoredEntries /\ holds'[c].rev = 0
    /\ holds' = [holds EXCEPT ![c] = holds'[c]]

Ask(c) ==
    /\ open[c] = NothingOpen
    /\ open'[c].mutation \in Mutations
    /\ open' = [open EXCEPT ![c].mutation = open'[c].mutation]
    /\ MakeUp(c) \/ UNCHANGED holds
    /\ UNCHANGED <<hist, adrift>>

Prepare(c) == MakeUp(c) /\ UNCHANGED <<hist, open, adrift>>

Effect(c) ==
    /\ open[c].mutation # NoMutation /\ open[c].done = 0
    /\ TakesEffect(open[c].mutation)
    /\ open' = [open EXCEPT ![c].done = Len(hist) + 1]
    /\ UNCHANGED <<adrift, holds>>

Succeed(c) ==
    /\ open[c].done # 0
    /\ open' = [open EXCEPT ![c] = NothingOpen]
    /\ LET m == open[c].mutation IN
        \/ /\ m.op \in {"Create", "Update"}
           /\ holds' = [holds EXCEPT ![c] =
                         [key |-> m.key, rev |-> open[c].done, content |-> m.content]]
        \/ m.op = "Delete" /\ UNCHANGED holds
    /\ UNCHANGED <<hist, adrift>>

Fail(c) ==
    /\ open[c].mutation # NoMutation
    /\ open' = [open EXCEPT ![c] = NothingOpen]
    /\ \/ UNCHANGED adrift
       \/ /\ open[c].done = 0
          /\ \E s \in Slots : adrift[s] = NoMutation
                              /\ adrift' = [adrift EXCEPT ![s] = open[c].mutation]
    /\ UNCHANGED <<hist, holds>>

Settle(s) ==
    /\ adrift[s] # NoMutation
    /\ TakesEffect(adrift[s]) \/ UNCHANGED hist
    /\ adrift' = [adrift EXCEPT ![s] = NoMutation]
    /\ UNCHANGED <<open, holds>>

Read(c) ==
    /\ \E i \in 1..Len(hist) :
        /\ hist[i].content \in Contents
        /\ holds' = [holds EXCEPT ![c] =
                      [key |-> hist[i].key, rev |-> i, content |-> hist[i].content]]
    /\ UNCHANGED <<hist, open, adrift>>

(* Others write to the same storage.                                       *)
Interfere ==
    /\ Len(hist) < MaxRev
    /\ \E k \in Keys, v \in Contents \cup {Absent, Opaque} :
            hist' = Append(hist, [key |-> k, content |-> v])
    /\ UNCHANGED <<open, adrift, holds>>

StoreNext ==
    \/ \E c \in Callers : \/ Ask(c) \/ Prepare(c) \/ Effect(c) \/ Succeed(c)
                          \/ Fail(c) \/ Read(c)
    \/ \E s \in Slots : Settle(s)
    \/ Interfere

StoreSpec == StoreInit /\ [][StoreNext]_storeVars
=============================================================================
