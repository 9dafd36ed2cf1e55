---------------------------- MODULE PlainKey_proofs ----------------------------
(***************************************************************************)
(* Proofs about PlainKey for every value of the constants.                 *)
(***************************************************************************)
EXTENDS PlainKey, FiniteSetTheorems, SequenceTheorems, TLAPS

\* An argument list of a Set/Add call is a sequence of at most MaxArgs keys.
LEMMA ArgsAreSeqs ==
  ASSUME NEW lo \in Nat, NEW ks \in Args(lo)
  PROVE  /\ ks \in Seq(Keys)
         /\ Len(ks) \in lo..MaxArgs
  <1>1. PICK n \in lo..MaxArgs : ks \in [1..n -> Keys]
    BY DEF Args
  <1>2. n \in Nat
    BY Assumptions
  <1>. QED
    BY <1>1, <1>2

\* The allocator never runs out: the list, the caller's buffer and one copy
\* per reader leave at least one of the Arrays free.
LEMMA NewArrayIsFree ==
  ASSUME TypeOK
  PROVE  NewArray \in Free
  <1> DEFINE Scanning == {q \in Readers : rpc[q] = "scan"}
             Copies == {keys[r].arr : r \in Scanning}
             f == [r \in Scanning |-> keys[r].arr]
  <1>1. IsFiniteSet(Scanning) /\ Cardinality(Scanning) <= Cardinality(Readers)
    BY Assumptions, FS_Subset
  <1>2. f \in Surjection(Scanning, Copies)
    BY DEF Surjection
  <1>3. IsFiniteSet(Copies) /\ Cardinality(Copies) <= Cardinality(Scanning)
    BY <1>1, <1>2, FS_Surjection
  <1>4. /\ IsFiniteSet(Copies \cup {platformKeys.arr})
        /\ Cardinality(Copies \cup {platformKeys.arr}) <= Cardinality(Copies) + 1
    <2>1. /\ IsFiniteSet(Copies \cup {platformKeys.arr})
          /\ Cardinality(Copies \cup {platformKeys.arr}) =
               IF platformKeys.arr \in Copies THEN Cardinality(Copies)
               ELSE Cardinality(Copies) + 1
      BY <1>3, FS_AddElement
    <2>2. Cardinality(Copies) \in Nat
      BY <1>3, FS_CardinalityType
    <2>. QED
      BY <2>1, <2>2
  <1>5. /\ IsFiniteSet(Referenced)
        /\ Cardinality(Referenced) <= Cardinality(Copies) + 2
    <2>1. Referenced = (Copies \cup {platformKeys.arr}) \cup {Buf}
      BY DEF Referenced
    <2>2. /\ IsFiniteSet((Copies \cup {platformKeys.arr}) \cup {Buf})
          /\ Cardinality((Copies \cup {platformKeys.arr}) \cup {Buf}) =
               IF Buf \in Copies \cup {platformKeys.arr}
                 THEN Cardinality(Copies \cup {platformKeys.arr})
                 ELSE Cardinality(Copies \cup {platformKeys.arr}) + 1
      BY <1>4, FS_AddElement
    <2>3. Cardinality(Copies \cup {platformKeys.arr}) \in Nat
      BY <1>4, FS_CardinalityType
    <2>4. Cardinality(Copies) \in Nat
      BY <1>3, FS_CardinalityType
    <2>. QED
      BY <1>4, <2>1, <2>2, <2>3, <2>4
  <1>6. Free # {}
    <2>1. SUFFICES ASSUME Free = {} PROVE FALSE
      OBVIOUS
    <2>2. Arrays \subseteq Referenced
      BY <2>1 DEF Free
    <2>3. Cardinality(Arrays) <= Cardinality(Referenced)
      BY <1>5, <2>2, FS_Subset
    <2>. QED
      BY <1>1, <1>3, <1>5, <2>3, Assumptions, FS_CardinalityType
  <1>. QED
    BY <1>6 DEF NewArray

\* The list stays within the bounds of the model.
LEMMA CapBoundFacts ==
  /\ CapBound \in Nat
  /\ MaxKeys <= CapBound /\ BufCap <= CapBound /\ 2 * MaxKeys <= CapBound
  /\ MaxArgs <= CapBound
  BY Assumptions DEF CapBound

\* What growslice returns holds newLen cells and stays within CapBound.
LEMMA GrowCapBounds ==
  ASSUME NEW oldCap \in Nat, NEW newLen \in Nat,
         oldCap < newLen, newLen <= MaxKeys
  PROVE  GrowCap(oldCap, newLen) \in newLen..CapBound
  BY CapBoundFacts, Assumptions DEF GrowCap

\* A header's contents form a sequence of slots.
LEMMA ContentsType ==
  ASSUME TypeOK, NEW h \in Header, WellFormed(h)
  PROVE  Contents(h) \in Seq(Slot)
  <1>1. CASE h.len = 0
    BY <1>1 DEF Contents
  <1>2. CASE h.len > 0
    <2>1. h.arr \in Arrays /\ h.len \in Nat /\ h.len <= CapBound
      BY <1>2, CapBoundFacts DEF WellFormed, Header
    <2>2. \A i \in 1..h.len : mem[h.arr][i] \in Slot
      BY <2>1, CapBoundFacts DEF TypeOK, Cells
    <2>. QED
      BY <2>1, <2>2 DEF Contents
  <1>. QED
    BY <1>1, <1>2 DEF Header

-----------------------------------------------------------------------------
(* Type correctness.                                                       *)

LEMMA InitTypeInv == Init => TypeInv
  <1> SUFFICES ASSUME Init PROVE TypeInv
    OBVIOUS
  <1>1. PICK b \in [1..BufCap -> Keys] :
          mem = [a \in Arrays |->
                  [i \in Cells |-> IF a = Buf /\ i <= BufCap THEN b[i] ELSE NoKey]]
    BY DEF Init
  <1>2. mem \in [Arrays -> [Cells -> Slot]]
    BY <1>1, Assumptions, CapBoundFacts DEF Slot, Cells
  <1>3. \E in \in Input : TRUE
    <2>1. PICK p \in Parses, n \in NonceLens, k \in Keys : TRUE
      BY Assumptions
    <2>2. [parse |-> p, nonceLen |-> n, sealKey |-> k, authentic |-> TRUE] \in Input
      BY <2>1 DEF Input
    <2>. QED
      BY <2>2
  <1>4. input \in [Readers -> Input]
    BY <1>3 DEF Init
  <1>. QED
    <2>1. NoOp \notin Ops
      BY DEF NoOp, Ops
    <2>. QED
      BY <1>2, <1>4, <2>1, CapBoundFacts
         DEF Init, TypeInv, TypeOK, Header, NilSlice, WellFormed, WriterExclusion,
             Results, NoResult, NoOp

\* The three calls that announce a writer keep the invariant.
LEMMA LockForTypeInv ==
  ASSUME TypeInv, NEW w \in Writers, NEW op \in Ops, LockFor(w, op),
         op.kind = "add" => platformKeys.len + Len(op.args) <= MaxKeys
  PROVE  TypeInv'
  BY DEF TypeInv, TypeOK, LockFor, WriterPending, WriterExclusion, WellFormed

\* The write-locked section keeps the list a well-formed header into
\* well-typed memory.
LEMMA PerformTypes ==
  ASSUME TypeInv, NEW w \in Writers, wpc[w] = "wait", Perform(wop[w])
  PROVE  /\ platformKeys' \in Header
         /\ WellFormed(platformKeys')
         /\ mem' \in [Arrays -> [Cells -> Slot]]
  <1> DEFINE op == wop[w]
             s == platformKeys
  <1>1. op \in Ops
    BY DEF TypeInv, WriterExclusion
  <1>2. NewArray \in Arrays
    BY NewArrayIsFree DEF TypeInv, Free
  <1>3. /\ s \in Header /\ WellFormed(s)
        /\ mem \in [Arrays -> [Cells -> Slot]]
    BY DEF TypeInv, TypeOK
  <1>a. CapBound \in Nat /\ MaxArgs <= CapBound /\ BufCap <= CapBound
    BY CapBoundFacts
  <1>4. CASE op.kind = "set"
    <2>1. op.args \in Seq(Keys) /\ Len(op.args) \in 0..MaxArgs
      BY <1>1, <1>4, ArgsAreSeqs DEF Ops
    <2>2. SetFresh(op.args)
      BY <1>4 DEF Perform
    <2>3. CASE op.args = <<>>
      BY <2>2, <2>3, <1>3, <1>a DEF SetFresh, NilSlice, Header, WellFormed
    <2>4. CASE op.args # <<>>
      <3>1. /\ mem' = [mem EXCEPT ![NewArray] =
                        [i \in Cells |-> IF i <= Len(op.args) THEN op.args[i]
                                         ELSE NoKey]]
            /\ platformKeys' = [arr |-> NewArray, len |-> Len(op.args),
                                cap |-> Len(op.args)]
        BY <2>2, <2>4 DEF SetFresh
      <3>2. \A i \in Cells : i <= Len(op.args) => op.args[i] \in Keys
        BY <2>1 DEF Cells
      <3>3. Len(op.args) \in 1..CapBound
        <4>1. Len(op.args) # 0
          <5>1. \A q \in Seq(Keys) : q # << >> => Len(q) \in Nat \ {0}
            BY EmptySeq
          <5>. QED
            BY <5>1, <2>1, <2>4
        <4>. QED
          BY <4>1, <2>1, <1>a, Assumptions
      <3>4. platformKeys' \in Header /\ WellFormed(platformKeys')
        BY <3>1, <3>3, <1>2, Assumptions DEF Header, WellFormed
      <3>5. [i \in Cells |-> IF i <= Len(op.args) THEN op.args[i] ELSE NoKey]
              \in [Cells -> Slot]
        BY <3>2 DEF Slot
      <3>. QED
        BY <3>1, <3>4, <3>5, <1>2, <1>3
    <2>. QED
      BY <2>3, <2>4
  <1>5. CASE op.kind = "setbuf"
    <2>1. op.n \in 0..BufCap
      BY <1>1, <1>5 DEF Ops
    <2>2. platformKeys' = [arr |-> Buf, len |-> op.n, cap |-> BufCap]
          /\ mem' = mem
      BY <1>5 DEF Perform
    <2>. QED
      BY <2>1, <2>2, <1>3, <1>a, Assumptions DEF Header, WellFormed
  <1>6. CASE op.kind = "add"
    <2>1. op.args \in Seq(Keys) /\ Len(op.args) \in 1..MaxArgs
      BY <1>1, <1>6, ArgsAreSeqs DEF Ops
    <2>2. s.len + Len(op.args) <= MaxKeys
      BY <1>6 DEF TypeInv, WriterExclusion
    <2>3. AppendInPlace(s, op.args) \/ AppendGrow(s, op.args)
      BY <1>6 DEF Perform
    <2>4. CASE AppendInPlace(s, op.args)
      <3>1. s.arr \in Arrays
        BY <2>1, <2>4, <1>3 DEF AppendInPlace, WellFormed, Header
      <3>2. \A i \in Cells : s.len < i /\ i <= s.len + Len(op.args)
                               => op.args[i - s.len] \in Keys
        BY <2>1, <1>3 DEF Cells, Header
      <3>3. platformKeys' = [s EXCEPT !.len = s.len + Len(op.args)]
            /\ s.len + Len(op.args) <= s.cap
        BY <2>4 DEF AppendInPlace
      <3>4. platformKeys' \in Header /\ WellFormed(platformKeys')
        BY <3>3, <1>3, <2>1, <1>a DEF Header, WellFormed
      <3>5. [i \in Cells |-> IF s.len < i /\ i <= s.len + Len(op.args)
                               THEN op.args[i - s.len] ELSE mem[s.arr][i]]
              \in [Cells -> Slot]
        BY <3>1, <3>2, <1>3 DEF Slot
      <3>6. mem' = [mem EXCEPT ![s.arr] =
                     [i \in Cells |-> IF s.len < i /\ i <= s.len + Len(op.args)
                                        THEN op.args[i - s.len] ELSE mem[s.arr][i]]]
        BY <2>4 DEF AppendInPlace
      <3>. QED
        BY <3>1, <3>4, <3>5, <3>6, <1>3
    <2>5. CASE AppendGrow(s, op.args)
      <3>1. GrowCap(s.cap, s.len + Len(op.args)) \in (s.len + Len(op.args))..CapBound
        BY <2>1, <2>2, <2>5, <1>3, GrowCapBounds DEF AppendGrow, Header
      <3>2. \A i \in Cells : i <= s.len => s.arr \in Arrays
        BY <1>3 DEF WellFormed, Header, Cells
      <3>3. \A i \in Cells : s.len < i /\ i <= s.len + Len(op.args)
                               => op.args[i - s.len] \in Keys
        BY <2>1, <1>3 DEF Cells, Header
      <3>4. \A i \in Cells : i <= s.len => mem[s.arr][i] \in Slot
        BY <3>2, <1>3
      <3>5. platformKeys' = [arr |-> NewArray, len |-> s.len + Len(op.args),
                             cap |-> GrowCap(s.cap, s.len + Len(op.args))]
        BY <2>5 DEF AppendGrow
      <3>6. s.len + Len(op.args) \in 0..CapBound
        <4>1. s.len \in 0..CapBound
          BY <1>3 DEF Header
        <4>. QED
          BY <4>1, <2>1, <2>2, CapBoundFacts, Assumptions
      <3>7. platformKeys' \in Header /\ WellFormed(platformKeys')
        BY <3>1, <3>5, <3>6, <1>2, <1>a, Assumptions DEF Header, WellFormed
      <3>8. [i \in Cells |-> IF i <= s.len THEN mem[s.arr][i]
                             ELSE IF i <= s.len + Len(op.args)
                                    THEN op.args[i - s.len] ELSE NoKey]
              \in [Cells -> Slot]
        <4>1. \A i \in Cells :
                (IF i <= s.len THEN mem[s.arr][i]
                 ELSE IF i <= s.len + Len(op.args)
                        THEN op.args[i - s.len] ELSE NoKey) \in Slot
          BY <3>3, <3>4, <1>3, <1>a DEF Slot, Header, Cells
        <4>. QED
          BY <4>1
      <3>9. mem' = [mem EXCEPT ![NewArray] =
                     [i \in Cells |-> IF i <= s.len THEN mem[s.arr][i]
                                      ELSE IF i <= s.len + Len(op.args)
                                             THEN op.args[i - s.len] ELSE NoKey]]
        BY <2>5 DEF AppendGrow
      <3>. QED
        BY <3>7, <3>8, <3>9, <1>2, <1>3
    <2>. QED
      BY <2>3, <2>4, <2>5
  <1>. QED
    BY <1>1, <1>4, <1>5, <1>6 DEF Ops

LEMMA WriteUnlockTypeInv ==
  ASSUME TypeInv, NEW w \in Writers, WriteUnlock(w)
  PROVE  TypeInv'
  <1>1. /\ platformKeys' \in Header /\ WellFormed(platformKeys')
        /\ mem' \in [Arrays -> [Cells -> Slot]]
    BY PerformTypes DEF WriteUnlock
  <1>2. \A x \in Writers : wpc[x] = "wait" => x = w
    BY DEF WriteUnlock, TypeInv, WriterExclusion
  <1>3. NoOp \notin Ops
    BY DEF NoOp, Ops
  <1>4. WriterExclusion'
    BY <1>2, <1>3 DEF WriteUnlock, TypeInv, TypeOK, WriterExclusion
  <1>. QED
    BY <1>1, <1>4 DEF WriteUnlock, TypeInv, TypeOK, WellFormed

\* Return resets the locals of a reader to values of their types.
LEMMA ReturnTypes ==
  ASSUME TypeOK, NEW r \in Readers, NEW res \in Results, Return(r, res)
  PROVE  /\ rpc' \in [Readers -> {"idle", "rlock", "blocked", "read", "scan"}]
         /\ result' \in [Readers -> Results \cup {NoResult}]
         /\ keys' \in [Readers -> Header]
         /\ \A q \in Readers : WellFormed(keys'[q]) \/ keys'[q] = keys[q]
         /\ idx' \in [Readers -> 1..(CapBound + 1)]
         /\ snapKeys' \in [Readers -> Seq(Slot)]
  BY CapBoundFacts DEF Return, TypeOK, NilSlice, Header, WellFormed

LEMMA ReaderTypeInv ==
  ASSUME TypeInv, NEW r \in Readers,
         \/ \E in \in Input : RecoverKeys(r, in)
         \/ RLock(r) \/ CopyKeys(r) \/ ScanKey(r) \/ ScanEnd(r)
         \/ Unsupported(r)
  PROVE  TypeInv'
  <1> USE DEF TypeInv
  <1>a. UNCHANGED <<platformKeys, mem, wpc, wop>>
    BY DEF RecoverKeys, RLock, CopyKeys, ScanKey, ScanEnd, Unsupported
  <1>b. WriterExclusion' /\ WellFormed(platformKeys)'
    BY <1>a DEF WriterExclusion, WellFormed
  <1>1. CASE \E in \in Input : RecoverKeys(r, in)
    <2>1. PICK in \in Input : RecoverKeys(r, in)
      BY <1>1
    <2>2. CASE in.parse = "badJSON" \/ in.nonceLen < SaltSize
               \/ in.parse = "badAAD" \/ in.parse = "algUnavailable"
      <3>1. \E res \in Results : Return(r, res)
        BY <2>1, <2>2 DEF RecoverKeys, Results
      <3>. QED
        BY <3>1, <2>1, <1>a, <1>b, ReturnTypes DEF RecoverKeys, TypeOK
    <2>3. CASE ~(in.parse = "badJSON" \/ in.nonceLen < SaltSize
                 \/ in.parse = "badAAD" \/ in.parse = "algUnavailable")
      BY <2>1, <2>3, <1>a, <1>b DEF RecoverKeys, TypeOK
    <2>. QED
      BY <2>2, <2>3
  <1>2. CASE RLock(r)
    BY <1>2, <1>a, <1>b DEF RLock, TypeOK
  <1>3. CASE CopyKeys(r)
    <2>1. Contents(platformKeys) \in Seq(Slot)
      BY ContentsType DEF TypeOK
    <2>. QED
      BY <1>3, <1>a, <1>b, <2>1, CapBoundFacts DEF CopyKeys, TypeOK, WellFormed
  <1>4. CASE ScanKey(r)
    <2>1. CASE mem[keys[r].arr][idx[r]] = input[r].sealKey
      <3>1. AfterMatch(input[r]) \in Results
        BY DEF AfterMatch, Results
      <3>. QED
        BY <1>4, <2>1, <3>1, <1>a, <1>b, ReturnTypes DEF ScanKey, TypeOK
    <2>2. CASE mem[keys[r].arr][idx[r]] # input[r].sealKey
      <3>1. idx[r] + 1 \in 1..(CapBound + 1)
        BY <1>4, CapBoundFacts DEF ScanKey, TypeOK, Header
      <3>. QED
        BY <1>4, <2>2, <3>1, <1>a, <1>b DEF ScanKey, TypeOK
    <2>. QED
      BY <2>1, <2>2
  <1>5. CASE ScanEnd(r)
    BY <1>5, <1>a, <1>b, ReturnTypes DEF ScanEnd, TypeOK, Results
  <1>6. CASE Unsupported(r)
    BY <1>6, <1>a, <1>b, ReturnTypes DEF Unsupported, TypeOK, Results
  <1>. QED
    BY <1>1, <1>2, <1>3, <1>4, <1>5, <1>6

LEMMA CallerWriteTypeInv ==
  ASSUME TypeInv, NEW w \in Writers, NEW i \in 1..BufCap, NEW k \in Keys,
         CallerWrite(w, i, k)
  PROVE  TypeInv'
  <1>1. i \in Cells
    BY CapBoundFacts, Assumptions DEF Cells
  <1>. QED
    BY <1>1, Assumptions
       DEF CallerWrite, TypeInv, TypeOK, Slot, WellFormed, WriterExclusion

\* Every step of Next keeps TypeInv.
LEMMA TypeInvStep == TypeInv /\ [Next]_vars => TypeInv'
    <2> SUFFICES ASSUME TypeInv, [Next]_vars PROVE TypeInv'
      OBVIOUS
    <2>1. ASSUME NEW w \in Writers, NEW ks \in Args(0), SetPlatformKeys(w, ks)
          PROVE  TypeInv'
      <3>1. [kind |-> "set", args |-> ks] \in Ops
        BY DEF Ops
      <3>. QED
        BY <2>1, <3>1, LockForTypeInv DEF SetPlatformKeys
    <2>2. ASSUME NEW w \in Writers, NEW n \in 0..BufCap, SetPlatformKeysBuf(w, n)
          PROVE  TypeInv'
      <3>1. [kind |-> "setbuf", n |-> n] \in Ops
        BY DEF Ops
      <3>. QED
        BY <2>2, <3>1, LockForTypeInv DEF SetPlatformKeysBuf
    <2>3. ASSUME NEW w \in Writers, NEW ks \in Args(1), AddPlatformKeys(w, ks)
          PROVE  TypeInv'
      <3>1. [kind |-> "add", args |-> ks] \in Ops
        BY DEF Ops
      <3>. QED
        BY <2>3, <3>1, LockForTypeInv DEF AddPlatformKeys
    <2>4. ASSUME NEW w \in Writers, WriteUnlock(w)
          PROVE  TypeInv'
      BY <2>4, WriteUnlockTypeInv
    <2>5. ASSUME NEW w \in Writers, NEW i \in 1..BufCap, NEW k \in Keys,
                 CallerWrite(w, i, k)
          PROVE  TypeInv'
      BY <2>5, CallerWriteTypeInv
    <2>6. ASSUME NEW r \in Readers,
                 \/ \E in \in Input : RecoverKeys(r, in)
                 \/ RLock(r) \/ CopyKeys(r) \/ ScanKey(r) \/ ScanEnd(r)
                 \/ Unsupported(r)
          PROVE  TypeInv'
      BY <2>6, ReaderTypeInv
    <2>7. CASE UNCHANGED vars
      BY <2>7 DEF vars, TypeInv, TypeOK, WellFormed, WriterExclusion
    <2>. QED
      BY <2>1, <2>2, <2>3, <2>4, <2>5, <2>6, <2>7 DEF Next

\* Type correctness: every reachable state satisfies TypeOK, together with
\* the well-formedness of the slice headers (len within cap, nil only when
\* empty) and the writer mutex's exclusion.
THEOREM TypeCorrect == Spec => []TypeInv
  <1>1. Init => TypeInv
    BY InitTypeInv
  <1>2. TypeInv /\ [Next]_vars => TypeInv'
    BY TypeInvStep
  <1>. QED
    BY <1>1, <1>2, PTL DEF Spec

\* Every reachable state is well typed (TypeOK): the list header, the heap,
\* the writer and reader threads and their locals stay in their sets, with
\* aliasing and caller writes allowed.
THEOREM TypeSafety == Spec => []TypeOK
  <1>1. TypeInv => TypeOK
    BY DEF TypeInv
  <1>. QED
    BY <1>1, TypeCorrect, PTL

-----------------------------------------------------------------------------
(* Snapshot isolation when callers hand over fresh argument lists.         *)

\* A write into an array no reader is scanning and that becomes the list
\* (a fresh allocation) leaves every copy and its contents as they were.
LEMMA FreshFrame ==
  ASSUME TypeInv, SnapshotIsolation, NEW a \in Arrays, a \notin Referenced,
         NEW v, mem' = [mem EXCEPT ![a] = v], platformKeys'.arr = a,
         keys' = keys, snapKeys' = snapKeys,
         \A q \in Readers : rpc'[q] = "scan" => rpc[q] = "scan"
  PROVE  CopyIsPrefix' /\ SnapshotIsolation'
  <1>1. \A q \in Readers : rpc[q] = "scan" => keys[q].arr # a
    BY DEF Referenced
  <1>2. CopyIsPrefix'
    BY <1>1 DEF CopyIsPrefix
  <1>3. SnapshotIsolation'
    <2> SUFFICES ASSUME NEW q \in Readers, rpc'[q] = "scan"
                 PROVE  Contents(keys[q])' = snapKeys[q]
      BY DEF SnapshotIsolation
    <2>1. rpc[q] = "scan" /\ keys[q].arr # a
      BY <1>1
    <2>2. keys[q] \in Header /\ WellFormed(keys[q])
      BY DEF TypeInv, TypeOK
    <2>3. CASE keys[q].arr \in Arrays
      <3>1. mem'[keys[q].arr] = mem[keys[q].arr]
        BY <2>1, <2>3 DEF TypeInv, TypeOK
      <3>. QED
        BY <2>1, <3>1 DEF SnapshotIsolation, Contents
    <2>4. CASE keys[q].arr = NoArray
      <3>1. keys[q].len = 0
        BY <2>2, <2>4 DEF WellFormed, Header
      <3>2. Contents(keys[q])' = Contents(keys[q])
        <4>1. 1..keys[q].len = {}
          BY <3>1
        <4>. QED
          BY <4>1 DEF Contents
      <3>. QED
        BY <2>1, <3>2 DEF SnapshotIsolation
    <2>. QED
      BY <2>2, <2>3, <2>4 DEF Header
  <1>. QED
    BY <1>2, <1>3

\* The in-place append writes only cells above the list's length, which no
\* copy of the list on the same array reaches.
LEMMA InPlaceFrame ==
  ASSUME TypeInv, CopyIsPrefix, SnapshotIsolation,
         NEW ks \in Seq(Keys), AppendInPlace(platformKeys, ks),
         keys' = keys, snapKeys' = snapKeys,
         \A q \in Readers : rpc'[q] = "scan" => rpc[q] = "scan"
  PROVE  CopyIsPrefix' /\ SnapshotIsolation'
  <1> DEFINE s == platformKeys
  <1>0. s \in Header /\ WellFormed(s) /\ mem \in [Arrays -> [Cells -> Slot]]
    BY DEF TypeInv, TypeOK
  <1>a. CapBound \in Nat
    BY CapBoundFacts
  <1>1. /\ mem' = [mem EXCEPT ![s.arr] =
                   [i \in Cells |-> IF s.len < i /\ i <= s.len + Len(ks)
                                      THEN ks[i - s.len] ELSE mem[s.arr][i]]]
        /\ platformKeys' = [s EXCEPT !.len = s.len + Len(ks)]
    BY DEF AppendInPlace
  <1>b. Len(ks) \in Nat
    OBVIOUS
  <1>2. CopyIsPrefix'
    <2> SUFFICES ASSUME NEW q \in Readers, rpc'[q] = "scan",
                        keys[q].arr = platformKeys'.arr
                 PROVE  keys[q].len <= platformKeys'.len
      BY DEF CopyIsPrefix
    <2>1. platformKeys'.arr = s.arr /\ platformKeys'.len = s.len + Len(ks)
      BY <1>0, <1>1 DEF Header
    <2>2. keys[q].len <= s.len
      BY <2>1 DEF CopyIsPrefix
    <2>3. keys[q].len \in Nat /\ s.len \in Nat
      BY <1>0 DEF TypeInv, TypeOK, Header
    <2>. QED
      BY <2>1, <2>2, <2>3, <1>b
  <1>3. SnapshotIsolation'
    <2> SUFFICES ASSUME NEW q \in Readers, rpc'[q] = "scan"
                 PROVE  Contents(keys[q])' = snapKeys[q]
      BY DEF SnapshotIsolation
    <2>1. rpc[q] = "scan"
      OBVIOUS
    <2>2. keys[q] \in Header /\ WellFormed(keys[q])
      BY DEF TypeInv, TypeOK
    <2>3. CASE keys[q].arr = s.arr /\ s.arr \in Arrays
      <3>1. keys[q].len <= s.len
        BY <2>1, <2>3 DEF CopyIsPrefix
      <3>2. \A i \in 1..keys[q].len : mem'[s.arr][i] = mem[s.arr][i]
        BY <1>0, <1>a, <1>1, <2>2, <2>3, <3>1 DEF Header, Cells
      <3>. QED
        BY <2>1, <2>3, <3>2 DEF SnapshotIsolation, Contents
    <2>4. CASE keys[q].arr # s.arr /\ keys[q].arr \in Arrays
      <3>1. mem'[keys[q].arr] = mem[keys[q].arr]
        BY <1>0, <1>1, <2>4
      <3>. QED
        BY <2>1, <3>1 DEF SnapshotIsolation, Contents
    <2>5. CASE keys[q].arr = NoArray
      <3>1. keys[q].len = 0
        BY <2>2, <2>5 DEF WellFormed, Header
      <3>2. Contents(keys[q])' = Contents(keys[q])
        <4>1. 1..keys[q].len = {}
          BY <3>1
        <4>. QED
          BY <4>1 DEF Contents
      <3>. QED
        BY <2>1, <3>2 DEF SnapshotIsolation
    <2>. QED
      BY <1>0, <2>2, <2>3, <2>4, <2>5 DEF Header, WellFormed
  <1>. QED
    BY <1>2, <1>3

\* The write-locked section keeps each copy's contents and the prefix
\* relation, once the caller's buffer is never installed.
LEMMA WriteUnlockIsolation ==
  ASSUME IsolationInv, ~AliasSet, NEW w \in Writers, WriteUnlock(w)
  PROVE  (NoBufPending /\ CopyIsPrefix /\ SnapshotIsolation)'
  <1> DEFINE op == wop[w]
             s == platformKeys
  <1>0. TypeInv /\ TypeOK
    BY DEF IsolationInv, TypeInv
  <1>1. op \in Ops /\ op.kind # "setbuf"
    BY DEF IsolationInv, NoBufPending, WriteUnlock, TypeInv, WriterExclusion
  <1>2. NoBufPending'
    <2>1. NoOp.kind # "setbuf"
      BY DEF NoOp
    <2>. QED
      BY <2>1 DEF IsolationInv, NoBufPending, WriteUnlock, TypeInv, TypeOK
  <1>3. /\ keys' = keys /\ snapKeys' = snapKeys
        /\ \A q \in Readers : rpc'[q] = "scan" => rpc[q] = "scan"
    BY <1>0 DEF WriteUnlock, TypeOK
  <1>4. Perform(op)
    BY DEF WriteUnlock
  <1>5. NewArray \in Arrays /\ NewArray \notin Referenced
    BY <1>0, NewArrayIsFree DEF Free
  <1>6. CASE op.kind = "set" /\ op.args = <<>>
    <2>1. platformKeys' = NilSlice /\ mem' = mem
      BY <1>4, <1>6 DEF Perform, SetFresh
    <2>2. CopyIsPrefix'
      <3> SUFFICES ASSUME NEW q \in Readers, rpc'[q] = "scan",
                          keys[q].arr = platformKeys'.arr
                   PROVE  keys[q].len <= platformKeys'.len
        BY <1>3 DEF CopyIsPrefix
      <3>1. keys[q].arr = NoArray
        BY <2>1 DEF NilSlice
      <3>. QED
        BY <3>1, <2>1, <1>0 DEF TypeInv, WellFormed, NilSlice
    <2>3. SnapshotIsolation'
      BY <1>3, <2>1 DEF IsolationInv, SnapshotIsolation, Contents
    <2>. QED
      BY <1>2, <2>2, <2>3
  <1>7. CASE op.kind = "set" /\ op.args # <<>>
    <2>1. /\ mem' = [mem EXCEPT ![NewArray] =
                      [i \in Cells |-> IF i <= Len(op.args) THEN op.args[i]
                                       ELSE NoKey]]
          /\ platformKeys'.arr = NewArray
      BY <1>4, <1>7 DEF Perform, SetFresh
    <2>. QED
      BY <1>2, <1>3, <1>5, <2>1, FreshFrame DEF IsolationInv
  <1>8. CASE op.kind = "add"
    <2>1. op.args \in Seq(Keys)
      BY <1>1, <1>8, ArgsAreSeqs DEF Ops
    <2>2. AppendInPlace(s, op.args) \/ AppendGrow(s, op.args)
      BY <1>4, <1>8 DEF Perform
    <2>3. CASE AppendInPlace(s, op.args)
      BY <1>2, <1>3, <2>1, <2>3, InPlaceFrame DEF IsolationInv
    <2>4. CASE AppendGrow(s, op.args)
      <3>1. /\ mem' = [mem EXCEPT ![NewArray] =
                        [i \in Cells |-> IF i <= s.len THEN mem[s.arr][i]
                                         ELSE IF i <= s.len + Len(op.args)
                                                THEN op.args[i - s.len] ELSE NoKey]]
            /\ platformKeys'.arr = NewArray
        BY <2>4 DEF AppendGrow
      <3>. QED
        BY <1>2, <1>3, <1>5, <3>1, FreshFrame DEF IsolationInv
    <2>. QED
      BY <2>2, <2>3, <2>4
  <1>. QED
    BY <1>1, <1>6, <1>7, <1>8 DEF Ops

\* A reader step that leaves the list and the heap alone, and that keeps
\* the copy of every thread still scanning, keeps the invariant.
LEMMA ReaderFrame ==
  ASSUME IsolationInv,
         UNCHANGED <<platformKeys, mem, wop>>,
         \A q \in Readers : rpc'[q] = "scan" =>
            /\ rpc[q] = "scan" /\ keys'[q] = keys[q]
            /\ snapKeys'[q] = snapKeys[q]
  PROVE  (NoBufPending /\ CopyIsPrefix /\ SnapshotIsolation)'
  BY DEF IsolationInv, NoBufPending, CopyIsPrefix, SnapshotIsolation, Contents

\* CopyKeys (lines 70-71) takes a copy that equals the list.
LEMMA CopyKeysIsolation ==
  ASSUME IsolationInv, NEW r \in Readers, CopyKeys(r)
  PROVE  (NoBufPending /\ CopyIsPrefix /\ SnapshotIsolation)'
  <1>0. TypeOK
    BY DEF IsolationInv, TypeInv
  <1>1. /\ keys' = [keys EXCEPT ![r] = platformKeys]
        /\ snapKeys' = [snapKeys EXCEPT ![r] = Contents(platformKeys)]
        /\ rpc' = [rpc EXCEPT ![r] = "scan"]
        /\ UNCHANGED <<platformKeys, mem, wop>>
    BY DEF CopyKeys
  <1>2. NoBufPending'
    BY <1>1 DEF IsolationInv, NoBufPending
  <1>3. CopyIsPrefix'
    <2> SUFFICES ASSUME NEW q \in Readers, rpc'[q] = "scan",
                        keys'[q].arr = platformKeys'.arr
                 PROVE  keys'[q].len <= platformKeys'.len
      BY DEF CopyIsPrefix
    <2>1. CASE q = r
      <3>1. platformKeys.len \in Nat
        BY <1>0 DEF TypeOK, Header
      <3>. QED
        BY <1>0, <1>1, <2>1, <3>1 DEF TypeOK
    <2>2. CASE q # r
      BY <1>0, <1>1, <2>2 DEF IsolationInv, CopyIsPrefix, TypeOK
    <2>. QED
      BY <2>1, <2>2
  <1>4. SnapshotIsolation'
    <2> SUFFICES ASSUME NEW q \in Readers, rpc'[q] = "scan"
                 PROVE  Contents(keys[q])' = snapKeys'[q]
      BY DEF SnapshotIsolation
    <2>1. CASE q = r
      BY <1>0, <1>1, <2>1 DEF TypeOK, Contents
    <2>2. CASE q # r
      BY <1>0, <1>1, <2>2 DEF IsolationInv, SnapshotIsolation, TypeOK, Contents
    <2>. QED
      BY <2>1, <2>2
  <1>. QED
    BY <1>2, <1>3, <1>4

\* A returning call leaves no copy behind and touches no other thread's.
LEMMA ReturnKeepsScanners ==
  ASSUME TypeOK, NEW r \in Readers, NEW res, Return(r, res)
  PROVE  \A q \in Readers : rpc'[q] = "scan" =>
            /\ rpc[q] = "scan" /\ keys'[q] = keys[q]
            /\ snapKeys'[q] = snapKeys[q]
  BY DEF Return, TypeOK

\* The reader steps other than CopyKeys keep the invariant.
LEMMA ReaderIsolation ==
  ASSUME IsolationInv, NEW r \in Readers,
         \/ \E in \in Input : RecoverKeys(r, in)
         \/ RLock(r) \/ ScanKey(r) \/ ScanEnd(r) \/ Unsupported(r)
  PROVE  (NoBufPending /\ CopyIsPrefix /\ SnapshotIsolation)'
  <1>0. TypeOK
    BY DEF IsolationInv, TypeInv
  <1> DEFINE Keeps == \A q \in Readers : rpc'[q] = "scan" =>
                        /\ rpc[q] = "scan" /\ keys'[q] = keys[q]
                        /\ snapKeys'[q] = snapKeys[q]
  <1>a. UNCHANGED <<platformKeys, mem, wop>>
    BY DEF RecoverKeys, RLock, ScanKey, ScanEnd, Unsupported
  <1>1. CASE \E in \in Input : RecoverKeys(r, in)
    <2>1. PICK in \in Input : RecoverKeys(r, in)
      BY <1>1
    <2>2. CASE in.parse = "badJSON" \/ in.nonceLen < SaltSize
               \/ in.parse = "badAAD" \/ in.parse = "algUnavailable"
      <3>1. \E res : Return(r, res)
        BY <2>1, <2>2 DEF RecoverKeys
      <3>. QED
        BY <3>1, <1>0, <1>a, ReturnKeepsScanners, ReaderFrame
    <2>3. CASE ~(in.parse = "badJSON" \/ in.nonceLen < SaltSize
                 \/ in.parse = "badAAD" \/ in.parse = "algUnavailable")
      <3>1. Keeps
        BY <2>1, <2>3, <1>0 DEF RecoverKeys, TypeOK
      <3>. QED
        BY <3>1, <1>a, ReaderFrame
    <2>. QED
      BY <2>2, <2>3
  <1>2. CASE RLock(r)
    <2>1. Keeps
      BY <1>2, <1>0 DEF RLock, TypeOK
    <2>. QED
      BY <2>1, <1>a, ReaderFrame
  <1>3. CASE ScanKey(r)
    <2>1. CASE mem[keys[r].arr][idx[r]] = input[r].sealKey
      BY <1>3, <2>1, <1>0, <1>a, ReturnKeepsScanners, ReaderFrame DEF ScanKey
    <2>2. CASE mem[keys[r].arr][idx[r]] # input[r].sealKey
      <3>1. Keeps
        BY <1>3, <2>2 DEF ScanKey
      <3>. QED
        BY <3>1, <1>a, ReaderFrame
    <2>. QED
      BY <2>1, <2>2
  <1>4. CASE ScanEnd(r)
    BY <1>4, <1>0, <1>a, ReturnKeepsScanners, ReaderFrame DEF ScanEnd
  <1>5. CASE Unsupported(r)
    BY <1>5, <1>0, <1>a, ReturnKeepsScanners, ReaderFrame DEF Unsupported
  <1>. QED
    BY <1>1, <1>2, <1>3, <1>4, <1>5

\* Announcing a Set or an Add touches neither the list, the heap nor the
\* readers, and is never the call that installs the caller's buffer.
LEMMA LockForIsolation ==
  ASSUME IsolationInv, NEW w \in Writers, NEW op, op.kind # "setbuf",
         LockFor(w, op)
  PROVE  (NoBufPending /\ CopyIsPrefix /\ SnapshotIsolation)'
  BY DEF IsolationInv, TypeInv, TypeOK, LockFor, NoBufPending, CopyIsPrefix,
         SnapshotIsolation, Contents

\* Every step of Next keeps IsolationInv when the caller's buffer is never
\* installed and callers do not write what they handed over.
LEMMA IsolationStep ==
  ASSUME IsolationInv, [Next]_vars, ~AliasSet, ~CallerMutates
  PROVE  IsolationInv'
  <1>1. TypeInv'
    BY TypeInvStep DEF IsolationInv
  <1>2. (NoBufPending /\ CopyIsPrefix /\ SnapshotIsolation)'
    <2>1. ASSUME NEW w \in Writers, NEW ks \in Args(0), SetPlatformKeys(w, ks)
          PROVE  (NoBufPending /\ CopyIsPrefix /\ SnapshotIsolation)'
      BY <2>1, LockForIsolation DEF SetPlatformKeys
    <2>2. ASSUME NEW w \in Writers, NEW n \in 0..BufCap, SetPlatformKeysBuf(w, n)
          PROVE  FALSE
      BY <2>2 DEF SetPlatformKeysBuf
    <2>3. ASSUME NEW w \in Writers, NEW ks \in Args(1), AddPlatformKeys(w, ks)
          PROVE  (NoBufPending /\ CopyIsPrefix /\ SnapshotIsolation)'
      BY <2>3, LockForIsolation DEF AddPlatformKeys
    <2>4. ASSUME NEW w \in Writers, WriteUnlock(w)
          PROVE  (NoBufPending /\ CopyIsPrefix /\ SnapshotIsolation)'
      BY <2>4, WriteUnlockIsolation
    <2>5. ASSUME NEW w \in Writers, NEW i \in 1..BufCap, NEW k \in Keys,
                 CallerWrite(w, i, k)
          PROVE  FALSE
      BY <2>5 DEF CallerWrite
    <2>6. ASSUME NEW r \in Readers,
                 \/ \E in \in Input : RecoverKeys(r, in)
                 \/ RLock(r) \/ ScanKey(r) \/ ScanEnd(r) \/ Unsupported(r)
          PROVE  (NoBufPending /\ CopyIsPrefix /\ SnapshotIsolation)'
      BY <2>6, ReaderIsolation
    <2>7. ASSUME NEW r \in Readers, CopyKeys(r)
          PROVE  (NoBufPending /\ CopyIsPrefix /\ SnapshotIsolation)'
      BY <2>7, CopyKeysIsolation
    <2>8. CASE UNCHANGED vars
      BY <2>8 DEF vars, IsolationInv, NoBufPending, CopyIsPrefix,
                  SnapshotIsolation, Contents
    <2>. QED
      BY <2>1, <2>2, <2>3, <2>4, <2>5, <2>6, <2>7, <2>8 DEF Next
  <1>. QED
    BY <1>1, <1>2 DEF IsolationInv

\* IsolationInv holds in every reachable state when callers hand
\* SetPlatformKeys fresh argument lists and never write them afterwards:
\* no install of the caller's buffer is pending, a scanning copy on the
\* list's array is no longer than the list, and every copy keeps its
\* contents.
THEOREM IsolationInvariant ==
  ASSUME ~AliasSet, ~CallerMutates
  PROVE  Spec => []IsolationInv
  <1>1. Init => IsolationInv
    <2> SUFFICES ASSUME Init PROVE IsolationInv
      OBVIOUS
    <2>1. TypeInv
      BY InitTypeInv
    <2>2. NoOp.kind # "setbuf"
      BY DEF NoOp
    <2>. QED
      BY <2>1, <2>2 DEF Init, IsolationInv, NoBufPending, CopyIsPrefix,
                        SnapshotIsolation
  <1>2. IsolationInv /\ [Next]_vars => IsolationInv'
    BY IsolationStep
  <1>. QED
    BY <1>1, <1>2, PTL DEF Spec

\* Snapshot isolation (spec 4.5, P5) for every value of the constants, when
\* every SetPlatformKeys call passes its keys as literal arguments and no
\* caller writes a slice it handed over: while getPlatformKey walks the
\* header it copied at line 70, the cells it designates keep the keys they
\* held at the copy, whatever SetPlatformKeys and AddPlatformKeys run
\* meanwhile.  The in-place append at line 60 is covered by CopyIsPrefix.
THEOREM Isolation ==
  ASSUME ~AliasSet, ~CallerMutates
  PROVE  Spec => []SnapshotIsolation
  <1>1. IsolationInv => SnapshotIsolation
    BY DEF IsolationInv
  <1>. QED
    BY <1>1, IsolationInvariant, PTL

=============================================================================
