--------------------------- MODULE ApiServerProofs ---------------------------
(***************************************************************************)
(* Lemmas about the storage of ApiServer that the proofs about its clients *)
(* share: the log only grows, so that what it says of a revision or of a   *)
(* prefix it goes on saying.  W is the set of writes a client's module     *)
(* knows.                                                                  *)
(***************************************************************************)
EXTENDS ApiServer, TLAPS

(* A step leaves the log alone or appends one write to it.                 *)
GrowsBy(W) == \/ log' = log
              \/ \E w \in W : log' = Append(log, w)

(* A write that is in the log stays where it is.                           *)
LEMMA LogKeepsWrites ==
    ASSUME NEW W, log \in Seq(W), GrowsBy(W)
    PROVE  /\ log' \in Seq(W)
           /\ Len(log) \in Nat /\ Len(log') \in Nat /\ Len(log) <= Len(log')
           /\ \A i \in 1..Len(log) : log'[i] = log[i]
<1>1. CASE log' = log
  BY <1>1
<1>2. CASE \E w \in W : log' = Append(log, w)
  BY <1>2
<1> QED
  BY <1>1, <1>2 DEF GrowsBy

(* The write that is appended is the last one.                             *)
LEMMA AppendedWrite ==
    ASSUME NEW W, log \in Seq(W), NEW w \in W, log' = Append(log, w)
    PROVE  Len(log') = Len(log) + 1 /\ log'[Len(log) + 1] = w
OBVIOUS

(* Every prefix of the log has a last write of every key: RevisionAt is    *)
(* well defined.  It is kept as part of the inductive invariants.          *)
LastWriteExists ==
    \A n \in 0..Len(log), k \in Keys : \E i \in 0..n : IsLastWrite(i, n, k)

(* RevisionAt is the revision of a last write.                             *)
LEMMA RevisionAtIsLastWrite ==
    ASSUME LastWriteExists, NEW n \in 0..Len(log), NEW k \in Keys
    PROVE  RevisionAt(n, k) \in 0..n /\ IsLastWrite(RevisionAt(n, k), n, k)
BY DEF LastWriteExists, RevisionAt

(* There is at most one last write of a key in a prefix.                   *)
LEMMA LastWriteIsUnique ==
    ASSUME NEW W, log \in Seq(W), NEW n \in 0..Len(log), NEW k \in Keys,
           NEW i \in 0..n, IsLastWrite(i, n, k),
           NEW j \in 0..n, IsLastWrite(j, n, k)
    PROVE  i = j
<1>1. Len(log) \in Nat
  OBVIOUS
<1> QED
  BY <1>1 DEF IsLastWrite

(* A longer log has last writes too.                                       *)
LEMMA LastWriteExistsGrows ==
    ASSUME NEW W, log \in Seq(W), GrowsBy(W), LastWriteExists
    PROVE  LastWriteExists'
<1> SUFFICES ASSUME NEW n \in 0..Len(log'), NEW k \in Keys
             PROVE  \E i \in 0..n : IsLastWrite(i, n, k)'
  BY DEF LastWriteExists
<1>0. Len(log) \in Nat /\ \A i \in 1..Len(log) : log'[i] = log[i]
  BY LogKeepsWrites
<1>1. CASE n \in 0..Len(log)
  <2>1. PICK i \in 0..n : IsLastWrite(i, n, k)
    BY <1>1 DEF LastWriteExists
  <2>2. IsLastWrite(i, n, k)'
    BY <2>1, <1>1, <1>0 DEF IsLastWrite
  <2> QED
    BY <2>2
<1>2. CASE n \notin 0..Len(log)
  <2>1. PICK w \in W : log' = Append(log, w)
    BY <1>2 DEF GrowsBy
  <2>2. n = Len(log) + 1 /\ log'[n] = w
    BY <2>1, <1>2, <1>0, AppendedWrite
  <2>3. CASE w.key = k
    BY <2>2, <2>3, <1>0 DEF IsLastWrite
  <2>4. CASE w.key # k
    <3>1. PICK i \in 0..Len(log) : IsLastWrite(i, Len(log), k)
      BY <1>0 DEF LastWriteExists
    <3>2. IsLastWrite(i, n, k)'
      BY <3>1, <2>2, <2>4, <1>0 DEF IsLastWrite
    <3> QED
      BY <3>2, <2>2, <1>0
  <2> QED
    BY <2>3, <2>4
<1> QED
  BY <1>1, <1>2

(* What was stored at a point of the log is still what was stored there:   *)
(* a read of an older state finds the same, however late it comes.         *)
LEMMA ThePastIsStable ==
    ASSUME NEW W, log \in Seq(W), GrowsBy(W), LastWriteExists,
           NEW n \in 0..Len(log), NEW k \in Keys
    PROVE  /\ RevisionAt(n, k)' = RevisionAt(n, k)
           /\ ObjectAt(n, k)' = ObjectAt(n, k)
<1>0. /\ Len(log) \in Nat /\ Len(log') \in Nat /\ Len(log) <= Len(log')
      /\ \A i \in 1..Len(log) : log'[i] = log[i]
      /\ log' \in Seq(W)
  BY LogKeepsWrites
<1>1. LastWriteExists' /\ n \in 0..Len(log')
  BY <1>0, LastWriteExistsGrows
<1>2. RevisionAt(n, k) \in 0..n /\ IsLastWrite(RevisionAt(n, k), n, k)
  BY RevisionAtIsLastWrite
<1>3. RevisionAt(n, k)' \in 0..n /\ IsLastWrite(RevisionAt(n, k), n, k)'
  BY <1>1 DEF LastWriteExists, RevisionAt
<1>4. RevisionAt(n, k)' = RevisionAt(n, k)
  BY <1>0, <1>2, <1>3 DEF IsLastWrite
<1>5. RevisionAt(n, k) # 0 => log'[RevisionAt(n, k)] = log[RevisionAt(n, k)]
  BY <1>0, <1>2
<1>. QED  BY <1>4, <1>5 DEF ObjectAt

(* An object that is not absent was written by a write of the log.         *)
LEMMA ObjectWasWritten ==
    ASSUME NEW W, log \in Seq(W), LastWriteExists,
           NEW n \in 0..Len(log), NEW k \in Keys, ObjectAt(n, k) # NoObject
    PROVE  /\ RevisionAt(n, k) \in 1..Len(log)
           /\ log[RevisionAt(n, k)].key = k
           /\ ObjectAt(n, k) = log[RevisionAt(n, k)].obj
<1>1. Len(log) \in Nat
  OBVIOUS
<1>2. RevisionAt(n, k) \in 0..n /\ IsLastWrite(RevisionAt(n, k), n, k)
  BY RevisionAtIsLastWrite
<1>3. RevisionAt(n, k) # 0
  BY DEF ObjectAt
<1>. QED  BY <1>1, <1>2, <1>3 DEF ObjectAt, IsLastWrite

(* A write is the last one of its key, and no other key notices it.        *)
LEMMA KeyAfterWrite ==
    ASSUME NEW W, log \in Seq(W), LastWriteExists,
           NEW w \in W, log' = Append(log, w), NEW k \in Keys
    PROVE  /\ ObjectOf(k)' = IF w.key = k THEN w.obj ELSE ObjectOf(k)
           /\ RevisionOf(k)' = IF w.key = k THEN Len(log) + 1 ELSE RevisionOf(k)
<1>0. GrowsBy(W)
  BY DEF GrowsBy
<1>1. /\ Len(log) \in Nat /\ Len(log') = Len(log) + 1 /\ log'[Len(log) + 1] = w
      /\ log' \in Seq(W) /\ \A i \in 1..Len(log) : log'[i] = log[i]
  BY <1>0, AppendedWrite, LogKeepsWrites
<1>2. LastWriteExists'
  BY <1>0, LastWriteExistsGrows
<1>3. PICK r : r = RevisionOf(k)'
  OBVIOUS
<1>4. PICK i : i = RevisionOf(k)
  OBVIOUS
<1>5. PICK n \in Nat : n = Len(log')
  BY <1>1
<1>6. r \in 0..n /\ IsLastWrite(r, n, k)'
  <2>1. r = CHOOSE j \in 0..n : IsLastWrite(j, n, k)'
    BY <1>3, <1>5 DEF RevisionOf, RevisionAt
  <2>2. \E j \in 0..n : IsLastWrite(j, n, k)'
    BY <1>2, <1>5 DEF LastWriteExists
  <2> QED
    BY <2>1, <2>2
<1>7. i \in 0..Len(log) /\ IsLastWrite(i, Len(log), k)
  BY <1>1, <1>4, RevisionAtIsLastWrite DEF RevisionOf
<1>8. ObjectOf(k)' = IF r = 0 THEN NoObject ELSE log'[r].obj
  BY <1>3 DEF ObjectOf, ObjectAt, RevisionOf
<1>9. ObjectOf(k) = IF i = 0 THEN NoObject ELSE log[i].obj
  BY <1>4 DEF ObjectOf, ObjectAt, RevisionOf
<1>10. CASE w.key = k
  <2>1. r = Len(log) + 1
    BY <1>1, <1>6, <1>5, <1>10 DEF IsLastWrite
  <2> QED
    BY <1>1, <1>3, <1>8, <1>10, <2>1
<1>11. CASE w.key # k
  <2>1. r = i
    BY <1>1, <1>6, <1>5, <1>7, <1>11 DEF IsLastWrite
  <2> QED
    BY <1>1, <1>3, <1>4, <1>7, <1>8, <1>9, <1>11, <2>1
<1> QED
  BY <1>10, <1>11

(* The revision of a key is one of the log, and that of a live object is   *)
(* one of a write.                                                         *)
LEMMA RevisionIsInLog ==
    ASSUME NEW W, log \in Seq(W), LastWriteExists, NEW k \in Keys
    PROVE  RevisionOf(k) \in 0..Len(log) /\ (Live(k) => RevisionOf(k) # 0)
<1>1. Len(log) \in Nat
  OBVIOUS
<1>2. RevisionOf(k) \in 0..Len(log)
  BY <1>1, RevisionAtIsLastWrite DEF RevisionOf
<1>3. Live(k) => RevisionOf(k) # 0
  BY DEF Live, ObjectOf, ObjectAt, RevisionOf
<1> QED
  BY <1>2, <1>3
=============================================================================
