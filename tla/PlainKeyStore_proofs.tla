------------------------- MODULE PlainKeyStore_proofs --------------------------
(***************************************************************************)
(* Key selection and the refinement of PlainKeyStore, for every value of  *)
(* the constants, when callers hand over fresh argument lists.             *)
(***************************************************************************)
EXTENDS PlainKey_proofs

-----------------------------------------------------------------------------
(* The list holds keys.                                                    *)

\* The write-locked section writes keys only: the arguments, or cells it
\* copies from the list.
LEMMA WriteUnlockKeys ==
  ASSUME TypeInv, NoBufPending, ListHoldsKeys, ~AliasSet,
         NEW w \in Writers, WriteUnlock(w)
  PROVE  ListHoldsKeys'
  <1> DEFINE op == wop[w]
             s == platformKeys
  <1>0. /\ s \in Header /\ WellFormed(s)
        /\ mem \in [Arrays -> [Cells -> Slot]]
        /\ CapBound \in Nat /\ MaxArgs <= CapBound /\ BufCap <= CapBound
    BY CapBoundFacts DEF TypeInv, TypeOK
  <1>1. op \in Ops /\ op.kind # "setbuf"
    BY DEF NoBufPending, WriteUnlock, TypeInv, WriterExclusion
  <1>2. Perform(op)
    BY DEF WriteUnlock
  <1>3. NewArray \in Arrays /\ NewArray # Buf
    BY NewArrayIsFree DEF TypeInv, Free, Referenced
  <1>4. CASE op.kind = "set" /\ op.args = <<>>
    <2>1. platformKeys' = NilSlice /\ mem' = mem
      BY <1>2, <1>4 DEF Perform, SetFresh
    <2>. QED
      BY <2>1 DEF ListHoldsKeys, NilSlice
  <1>5. CASE op.kind = "set" /\ op.args # <<>>
    <2>1. op.args \in Seq(Keys) /\ Len(op.args) \in 0..MaxArgs
      BY <1>1, <1>5, ArgsAreSeqs DEF Ops
    <2>2. /\ mem' = [mem EXCEPT ![NewArray] =
                      [i \in Cells |-> IF i <= Len(op.args) THEN op.args[i]
                                       ELSE NoKey]]
          /\ platformKeys' = [arr |-> NewArray, len |-> Len(op.args),
                              cap |-> Len(op.args)]
      BY <1>2, <1>5 DEF Perform, SetFresh
    <2>3. \A i \in 1..Len(op.args) : mem'[NewArray][i] \in Keys
      <3>1. mem'[NewArray] = [i \in Cells |-> IF i <= Len(op.args) THEN op.args[i]
                                              ELSE NoKey]
        BY <1>0, <1>3, <2>2
      <3>2. 1..Len(op.args) \subseteq Cells
        BY <1>0, <2>1, Assumptions DEF Cells
      <3>. QED
        BY <2>1, <3>1, <3>2
    <2>4. mem'[Buf] = mem[Buf]
      BY <1>0, <1>3, <2>2, Assumptions
    <2>. QED
      BY <2>2, <2>3, <2>4 DEF ListHoldsKeys
  <1>6. CASE op.kind = "add"
    <2>1. op.args \in Seq(Keys) /\ Len(op.args) \in 1..MaxArgs
      BY <1>1, <1>6, ArgsAreSeqs DEF Ops
    <2>2. AppendInPlace(s, op.args) \/ AppendGrow(s, op.args)
      BY <1>2, <1>6 DEF Perform
    <2>3. CASE AppendInPlace(s, op.args)
      <3> DEFINE g == [i \in Cells |-> IF s.len < i /\ i <= s.len + Len(op.args)
                                         THEN op.args[i - s.len] ELSE mem[s.arr][i]]
      <3>1. /\ mem' = [mem EXCEPT ![s.arr] = g]
            /\ platformKeys' = [s EXCEPT !.len = s.len + Len(op.args)]
            /\ s.len + Len(op.args) <= s.cap
        BY <2>3 DEF AppendInPlace
      <3>2. s.arr \in Arrays
        BY <1>0, <2>1, <3>1 DEF WellFormed, Header
      <3>a. s.len \in Nat /\ s.cap \in Nat /\ s.cap <= CapBound
        BY <1>0 DEF Header
      <3>3. \A i \in 1..(s.len + Len(op.args)) : g[i] \in Keys
        <4> SUFFICES ASSUME NEW i \in 1..(s.len + Len(op.args)) PROVE g[i] \in Keys
          OBVIOUS
        <4>1. i \in Cells
          BY <1>0, <2>1, <3>1, <3>a DEF Cells
        <4>2. CASE s.len < i
          BY <4>1, <4>2, <2>1, <3>a
        <4>3. CASE i <= s.len
          <5>1. mem[s.arr][i] \in Keys
            BY <4>3, <3>a DEF ListHoldsKeys
          <5>. QED
            BY <4>1, <4>3, <5>1, <3>a, <2>1
        <4>. QED
          BY <4>2, <4>3, <3>a
      <3>4. \A i \in 1..BufCap : g[i] \in Keys \/ s.arr # Buf
        <4> SUFFICES ASSUME NEW i \in 1..BufCap, s.arr = Buf PROVE g[i] \in Keys
          OBVIOUS
        <4>1. i \in Cells
          BY <1>0, Assumptions DEF Cells
        <4>2. CASE s.len < i /\ i <= s.len + Len(op.args)
          BY <4>1, <4>2, <2>1, <3>a
        <4>3. CASE ~(s.len < i /\ i <= s.len + Len(op.args))
          <5>1. mem[Buf][i] \in Keys
            BY DEF ListHoldsKeys
          <5>. QED
            BY <4>1, <4>3, <5>1
        <4>. QED
          BY <4>2, <4>3
      <3>5. platformKeys'.arr = s.arr /\ platformKeys'.len = s.len + Len(op.args)
        BY <1>0, <3>1 DEF Header
      <3>. QED
        BY <1>0, <3>1, <3>2, <3>3, <3>4, <3>5, Assumptions DEF ListHoldsKeys
    <2>4. CASE AppendGrow(s, op.args)
      <3>1. /\ mem' = [mem EXCEPT ![NewArray] =
                        [i \in Cells |-> IF i <= s.len THEN mem[s.arr][i]
                                         ELSE IF i <= s.len + Len(op.args)
                                                THEN op.args[i - s.len] ELSE NoKey]]
            /\ platformKeys' = [arr |-> NewArray, len |-> s.len + Len(op.args),
                                cap |-> GrowCap(s.cap, s.len + Len(op.args))]
        BY <2>4 DEF AppendGrow
      <3>2. s.len + Len(op.args) <= CapBound
        <4>1. s.len + Len(op.args) <= MaxKeys
          BY <1>6 DEF TypeInv, WriterExclusion, WriteUnlock
        <4>. QED
          BY <4>1, <1>0, <2>1, CapBoundFacts, Assumptions DEF Header
      <3>3. \A i \in 1..(s.len + Len(op.args)) : mem'[NewArray][i] \in Keys
        BY <1>0, <1>3, <2>1, <3>1, <3>2 DEF ListHoldsKeys, Header, Cells
      <3>4. mem'[Buf] = mem[Buf]
        BY <1>0, <1>3, <3>1, Assumptions
      <3>. QED
        BY <3>1, <3>3, <3>4 DEF ListHoldsKeys
    <2>. QED
      BY <2>2, <2>3, <2>4
  <1>. QED
    BY <1>1, <1>4, <1>5, <1>6 DEF Ops

\* Every step keeps the list's cells keys, when the caller's buffer is never
\* installed and callers do not write it.
LEMMA ListHoldsKeysStep ==
  ASSUME IsolationInv, ListHoldsKeys, [Next]_vars, ~AliasSet, ~CallerMutates
  PROVE  ListHoldsKeys'
  <1>1. CASE \E w \in Writers : WriteUnlock(w)
    BY <1>1, WriteUnlockKeys DEF IsolationInv
  <1>2. CASE UNCHANGED <<platformKeys, mem>>
    BY <1>2 DEF ListHoldsKeys
  <1>. QED
    BY <1>1, <1>2 DEF Next, vars, SetPlatformKeys, SetPlatformKeysBuf,
       AddPlatformKeys, LockFor, CallerWrite, RecoverKeys, RLock, CopyKeys,
       ScanKey, ScanEnd, Unsupported

-----------------------------------------------------------------------------
(* The scan loop and key selection.                                        *)

\* Writer steps and RLock move no reader into or out of "scan" or "idle"
\* and leave the readers' locals alone.
LEMMA SelectionFrame ==
  ASSUME ScanProgress, SelectionMatchesSnapshot,
         UNCHANGED <<input, keys, idx, snapKeys, listed, result>>,
         \A q \in Readers : /\ (rpc'[q] = "scan") = (rpc[q] = "scan")
                            /\ (rpc'[q] = "idle") = (rpc[q] = "idle")
  PROVE  ScanProgress' /\ SelectionMatchesSnapshot'
  BY DEF ScanProgress, SelectionMatchesSnapshot

\* A returning call leaves the other calls alone; what it returns agrees
\* with its snapshot when that result comes from the lookup.
LEMMA ReturnSelection ==
  ASSUME TypeOK, ScanProgress, SelectionMatchesSnapshot,
         NEW r \in Readers, NEW res, Return(r, res),
         \A q \in Readers \ {r} : input'[q] = input[q] /\ listed'[q] = listed[q],
         res \in {"ok", "errAEAD", "errOpen", "errNoKey"}
           => (res = "errNoKey" <=> ~listed'[r])
  PROVE  ScanProgress' /\ SelectionMatchesSnapshot'
  BY DEF Return, ScanProgress, SelectionMatchesSnapshot, TypeOK

\* While a reader scans, the cell it reads at idx is the idx-th key of its
\* snapshot, and the snapshot is as long as its copy.
LEMMA ScanReadsSnapshot ==
  ASSUME TypeOK, SnapshotIsolation, NEW r \in Readers, rpc[r] = "scan"
  PROVE  /\ DOMAIN snapKeys[r] = 1..keys[r].len
         /\ \A i \in 1..keys[r].len : snapKeys[r][i] = mem[keys[r].arr][i]
  BY DEF SnapshotIsolation, Contents

\* A scan that meets the sealing key found it in the snapshot.
LEMMA ScanMatchListed ==
  ASSUME TypeOK, SnapshotIsolation, ScanProgress, NEW r \in Readers,
         rpc[r] = "scan", idx[r] <= keys[r].len,
         mem[keys[r].arr][idx[r]] = input[r].sealKey
  PROVE  listed[r]
  <1>1. /\ DOMAIN snapKeys[r] = 1..keys[r].len
        /\ \A i \in 1..keys[r].len : snapKeys[r][i] = mem[keys[r].arr][i]
    BY ScanReadsSnapshot
  <1>2. idx[r] \in 1..keys[r].len
    BY DEF ScanProgress
  <1>3. input[r].sealKey \in Range(snapKeys[r])
    BY <1>1, <1>2 DEF Range
  <1>. QED
    BY <1>3 DEF ScanProgress

\* A scan that ran past the end of its copy never met the sealing key,
\* so it was not in the snapshot.
LEMMA ScanEndUnlisted ==
  ASSUME TypeOK, SnapshotIsolation, ScanProgress, NEW r \in Readers,
         rpc[r] = "scan", idx[r] > keys[r].len
  PROVE  ~listed[r]
  <1>1. DOMAIN snapKeys[r] = 1..keys[r].len
    BY ScanReadsSnapshot
  <1>2. \A i \in 1..keys[r].len : snapKeys[r][i] # input[r].sealKey
    <2>1. idx[r] \in 1..(keys[r].len + 1)
      BY DEF ScanProgress
    <2>2. keys[r].len \in Nat
      BY DEF TypeOK, Header
    <2>3. \A i \in 1..(idx[r] - 1) : snapKeys[r][i] # input[r].sealKey
      BY DEF ScanProgress
    <2>. QED
      BY <2>1, <2>2, <2>3
  <1>3. input[r].sealKey \notin Range(snapKeys[r])
    BY <1>1, <1>2 DEF Range
  <1>. QED
    BY <1>3 DEF ScanProgress

\* The reader steps keep the loop invariant and the agreement of the
\* results with the snapshots.
LEMMA ReaderSelection ==
  ASSUME IsolationInv, ScanProgress, SelectionMatchesSnapshot,
         NEW r \in Readers,
         \/ \E in \in Input : RecoverKeys(r, in)
         \/ RLock(r) \/ CopyKeys(r) \/ ScanKey(r) \/ ScanEnd(r)
         \/ Unsupported(r)
  PROVE  ScanProgress' /\ SelectionMatchesSnapshot'
  <1>0. TypeOK /\ SnapshotIsolation
    BY DEF IsolationInv, TypeInv
  <1>1. CASE \E in \in Input : RecoverKeys(r, in)
    <2>1. PICK in \in Input : RecoverKeys(r, in)
      BY <1>1
    <2>2. CASE in.parse = "badJSON" \/ in.nonceLen < SaltSize
               \/ in.parse = "badAAD" \/ in.parse = "algUnavailable"
      <3>1. \E res \in {"errJSON", "errNonce", "errAAD", "errAlg"} : Return(r, res)
        BY <2>1, <2>2 DEF RecoverKeys
      <3>. QED
        BY <3>1, <2>1, <1>0, ReturnSelection DEF RecoverKeys, TypeOK
    <2>3. CASE ~(in.parse = "badJSON" \/ in.nonceLen < SaltSize
                 \/ in.parse = "badAAD" \/ in.parse = "algUnavailable")
      <3>1. /\ rpc' = [rpc EXCEPT ![r] = "rlock"]
            /\ UNCHANGED <<result, keys, idx, snapKeys>>
            /\ input' = [input EXCEPT ![r] = in]
            /\ listed' = [listed EXCEPT ![r] = FALSE]
        BY <2>1, <2>3 DEF RecoverKeys
      <3>. QED
        BY <3>1, <1>0 DEF ScanProgress, SelectionMatchesSnapshot, TypeOK
    <2>. QED
      BY <2>2, <2>3
  <1>2. CASE RLock(r)
    <2>1. \A q \in Readers : /\ (rpc'[q] = "scan") = (rpc[q] = "scan")
                             /\ (rpc'[q] = "idle") = (rpc[q] = "idle")
      BY <1>2, <1>0 DEF RLock, TypeOK
    <2>. QED
      BY <1>2, <2>1, SelectionFrame DEF RLock
  <1>3. CASE CopyKeys(r)
    <2>1. platformKeys.len \in Nat
      BY <1>0 DEF TypeOK, Header
    <2>. QED
      BY <1>3, <1>0, <2>1 DEF CopyKeys, ScanProgress, SelectionMatchesSnapshot, TypeOK
  <1>4. CASE ScanKey(r)
    <2>0. /\ rpc[r] = "scan" /\ idx[r] <= keys[r].len
          /\ UNCHANGED <<input, listed>>
      BY <1>4 DEF ScanKey
    <2>a. /\ DOMAIN snapKeys[r] = 1..keys[r].len
          /\ \A i \in 1..keys[r].len : snapKeys[r][i] = mem[keys[r].arr][i]
      BY <2>0, <1>0, ScanReadsSnapshot
    <2>b. idx[r] \in 1..keys[r].len
      BY <2>0 DEF ScanProgress
    <2>1. CASE mem[keys[r].arr][idx[r]] = input[r].sealKey
      <3>2. listed[r]
        BY <2>0, <2>1, <1>0, ScanMatchListed
      <3>3. AfterMatch(input[r]) \in {"ok", "errAEAD", "errOpen"}
        BY DEF AfterMatch
      <3>4. Return(r, AfterMatch(input[r]))
        BY <1>4, <2>1 DEF ScanKey
      <3>. QED
        BY <3>2, <3>3, <3>4, <2>0, <1>0, ReturnSelection
    <2>2. CASE mem[keys[r].arr][idx[r]] # input[r].sealKey
      <3>1. /\ idx' = [idx EXCEPT ![r] = @ + 1]
            /\ UNCHANGED <<rpc, result, keys, snapKeys, input, listed>>
        BY <1>4, <2>2 DEF ScanKey
      <3>2. snapKeys[r][idx[r]] # input[r].sealKey
        BY <2>2, <2>a, <2>b
      <3>3. keys[r].len \in Nat
        BY <1>0 DEF TypeOK, Header
      <3>. QED
        BY <3>1, <3>2, <3>3, <2>b, <1>0 DEF ScanProgress, SelectionMatchesSnapshot, TypeOK
    <2>. QED
      BY <2>1, <2>2
  <1>5. CASE ScanEnd(r)
    <2>0. /\ rpc[r] = "scan" /\ idx[r] > keys[r].len
          /\ Return(r, "errNoKey") /\ UNCHANGED <<input, listed>>
      BY <1>5 DEF ScanEnd
    <2>3. ~listed[r]
      BY <2>0, <1>0, ScanEndUnlisted
    <2>. QED
      BY <2>0, <2>3, <1>0, ReturnSelection
  <1>6. CASE Unsupported(r)
    BY <1>6, <1>0, ReturnSelection DEF Unsupported
  <1>. QED
    BY <1>1, <1>2, <1>3, <1>4, <1>5, <1>6

\* Every step keeps the loop invariant and the agreement of the results
\* with the snapshots, given isolation.
LEMMA SelectionStep ==
  ASSUME SelectionInv, [Next]_vars, ~AliasSet, ~CallerMutates
  PROVE  SelectionInv'
  <1>0. IsolationInv /\ ScanProgress /\ SelectionMatchesSnapshot
    BY DEF SelectionInv
  <1>1. IsolationInv' /\ ListHoldsKeys'
    BY IsolationStep, ListHoldsKeysStep DEF SelectionInv
  <1>2. ScanProgress' /\ SelectionMatchesSnapshot'
    <2>0. TypeOK
      BY <1>0 DEF IsolationInv, TypeInv
    <2>1. ASSUME NEW w \in Writers, NEW op, LockFor(w, op)
          PROVE  ScanProgress' /\ SelectionMatchesSnapshot'
      BY <2>1, <1>0, SelectionFrame DEF LockFor
    <2>2. ASSUME NEW w \in Writers, WriteUnlock(w)
          PROVE  ScanProgress' /\ SelectionMatchesSnapshot'
      <3>1. \A q \in Readers : /\ (rpc'[q] = "scan") = (rpc[q] = "scan")
                               /\ (rpc'[q] = "idle") = (rpc[q] = "idle")
        BY <2>2 DEF WriteUnlock
      <3>. QED
        BY <2>2, <3>1, <1>0, SelectionFrame DEF WriteUnlock
    <2>3. ASSUME NEW r \in Readers,
                 \/ \E in \in Input : RecoverKeys(r, in)
                 \/ RLock(r) \/ CopyKeys(r) \/ ScanKey(r) \/ ScanEnd(r)
                 \/ Unsupported(r)
          PROVE  ScanProgress' /\ SelectionMatchesSnapshot'
      BY <2>3, <1>0, ReaderSelection
    <2>4. CASE UNCHANGED vars
      BY <2>4, <1>0 DEF vars, ScanProgress, SelectionMatchesSnapshot
    <2>. QED
      BY <2>1, <2>2, <2>3, <2>4 DEF Next, SetPlatformKeys, SetPlatformKeysBuf,
         AddPlatformKeys, CallerWrite
  <1>. QED
    BY <1>1, <1>2 DEF SelectionInv

\* SelectionInv holds in every reachable state when callers hand over
\* fresh argument lists: isolation, every listed cell a key, and the loop
\* invariant of lines 73-79 for every scanning reader.
THEOREM SelectionInvariant ==
  ASSUME ~AliasSet, ~CallerMutates
  PROVE  Spec => []SelectionInv
  <1>1. Init => SelectionInv
    <2> SUFFICES ASSUME Init PROVE SelectionInv
      OBVIOUS
    <2>1. IsolationInv
      <3>1. TypeInv
        BY InitTypeInv
      <3>2. NoOp.kind # "setbuf"
        BY DEF NoOp
      <3>. QED
        BY <3>1, <3>2 DEF Init, IsolationInv, NoBufPending, CopyIsPrefix,
                          SnapshotIsolation
    <2>2. ListHoldsKeys
      <3>1. 1..BufCap \subseteq Cells
        BY CapBoundFacts, Assumptions DEF Cells
      <3>2. PICK b \in [1..BufCap -> Keys] :
              mem = [a \in Arrays |->
                      [i \in Cells |-> IF a = Buf /\ i <= BufCap THEN b[i] ELSE NoKey]]
        BY DEF Init
      <3>3. \A i \in 1..BufCap : mem[Buf][i] \in Keys
        <4> SUFFICES ASSUME NEW i \in 1..BufCap PROVE mem[Buf][i] \in Keys
          OBVIOUS
        <4>1. mem[Buf] = [j \in Cells |-> IF j <= BufCap THEN b[j] ELSE NoKey]
          BY <3>2, Assumptions
        <4>2. i \in Cells /\ i <= BufCap
          BY <3>1
        <4>. QED
          BY <3>2, <4>1, <4>2
      <3>4. 1..platformKeys.len = {}
        BY DEF Init, NilSlice
      <3>. QED
        BY <3>3, <3>4 DEF ListHoldsKeys
    <2>. QED
      BY <2>1, <2>2 DEF Init, SelectionInv, ScanProgress,
                        SelectionMatchesSnapshot, NoResult
  <1>2. SelectionInv /\ [Next]_vars => SelectionInv'
    BY SelectionStep
  <1>. QED
    BY <1>1, <1>2, PTL DEF Spec

\* The key lookup of RecoverKeys (platform.go:64-81) reports "no key
\* available" exactly when the sealing key was absent from the list at the
\* read lock, whenever callers hand Set and Add fresh argument lists
\* (spec 4.6, P2).
THEOREM Selection ==
  ASSUME ~AliasSet, ~CallerMutates
  PROVE  Spec => []SelectionMatchesSnapshot
  <1>1. SelectionInv => SelectionMatchesSnapshot
    BY DEF SelectionInv
  <1>. QED
    BY <1>1, SelectionInvariant, PTL

-----------------------------------------------------------------------------
(* The refinement of PlainKeyStore.                                        *)

\* The write-locked section leaves the list holding exactly what Set or
\* Add promise: the arguments, or the old keys followed by the arguments.
LEMMA PerformContents ==
  ASSUME TypeInv, NEW w \in Writers, wpc[w] = "wait",
         wop[w].kind \in {"set", "add"}, Perform(wop[w])
  PROVE  Contents(platformKeys)' =
           IF wop[w].kind = "set" THEN wop[w].args
           ELSE Contents(platformKeys) \o wop[w].args
  <1> DEFINE op == wop[w]
             s == platformKeys
             ks == op.args
  <1> SUFFICES Contents(platformKeys)' =
                 IF op.kind = "set" THEN ks ELSE Contents(s) \o ks
    OBVIOUS
  <1>0. /\ s \in Header /\ WellFormed(s)
        /\ mem \in [Arrays -> [Cells -> Slot]]
        /\ CapBound \in Nat /\ MaxArgs <= CapBound
        /\ s.len \in Nat /\ s.cap \in Nat /\ s.cap <= CapBound
    BY CapBoundFacts DEF TypeInv, TypeOK, Header
  <1>1. op \in Ops
    BY DEF TypeInv, WriterExclusion
  <1>3. NewArray \in Arrays
    BY NewArrayIsFree DEF TypeInv, Free
  <1>4. CASE op.kind = "set" /\ ks = <<>>
    <2>1. platformKeys' = NilSlice
      BY <1>4 DEF Perform, SetFresh
    <2>2. 1..platformKeys'.len = {}
      BY <2>1 DEF NilSlice
    <2>3. Contents(platformKeys)' = <<>>
      BY <2>2 DEF Contents
    <2>. QED
      BY <1>4, <2>3
  <1>5. CASE op.kind = "set" /\ ks # <<>>
    <2>1. ks \in Seq(Keys) /\ Len(ks) \in 0..MaxArgs
      BY <1>1, <1>5, ArgsAreSeqs DEF Ops
    <2>2. /\ mem' = [mem EXCEPT ![NewArray] =
                      [i \in Cells |-> IF i <= Len(ks) THEN ks[i] ELSE NoKey]]
          /\ platformKeys' = [arr |-> NewArray, len |-> Len(ks), cap |-> Len(ks)]
      BY <1>5 DEF Perform, SetFresh
    <2>3. mem'[NewArray] = [i \in Cells |-> IF i <= Len(ks) THEN ks[i] ELSE NoKey]
      BY <1>0, <1>3, <2>2
    <2>4. 1..Len(ks) \subseteq Cells
      BY <1>0, <2>1, Assumptions DEF Cells
    <2>5. Contents(platformKeys)' = [i \in 1..Len(ks) |-> mem'[NewArray][i]]
      BY <2>2 DEF Contents
    <2>6. \A i \in 1..Len(ks) : mem'[NewArray][i] = ks[i]
      BY <2>3, <2>4
    <2>. QED
      BY <1>5, <2>1, <2>5, <2>6
  <1>6. CASE op.kind = "add"
    <2>1. ks \in Seq(Keys) /\ Len(ks) \in 1..MaxArgs
      BY <1>1, <1>6, ArgsAreSeqs DEF Ops
    <2>a. Contents(s) \o ks =
            [i \in 1..(s.len + Len(ks)) |->
               IF i <= s.len THEN mem[s.arr][i] ELSE ks[i - s.len]]
      <3>1. Contents(s) \in Seq(Slot) /\ Len(Contents(s)) = s.len
        BY <1>0, ContentsType, Assumptions DEF Contents, TypeInv
      <3>2. \A i \in 1..s.len : Contents(s)[i] = mem[s.arr][i]
        BY DEF Contents
      <3>3. ks \in Seq(Slot)
        BY <2>1 DEF Slot
      <3>5. /\ Contents(s) \o ks \in Seq(Slot)
            /\ Len(Contents(s) \o ks) = Len(Contents(s)) + Len(ks)
            /\ \A i \in 1..(Len(Contents(s)) + Len(ks)) :
                 (Contents(s) \o ks)[i] =
                   IF i <= Len(Contents(s)) THEN Contents(s)[i]
                   ELSE ks[i - Len(Contents(s))]
        BY <3>1, <3>3, ConcatProperties
      <3>4. /\ Contents(s) \o ks \in Seq(Slot)
            /\ Len(Contents(s) \o ks) = s.len + Len(ks)
            /\ \A i \in 1..(s.len + Len(ks)) :
                 (Contents(s) \o ks)[i] =
                   IF i <= s.len THEN mem[s.arr][i] ELSE ks[i - s.len]
        BY <3>1, <3>2, <3>5
      <3>. QED
        BY <3>4, <1>0
    <2>2. AppendInPlace(s, ks) \/ AppendGrow(s, ks)
      BY <1>6 DEF Perform
    <2>3. CASE AppendInPlace(s, ks)
      <3> DEFINE g == [i \in Cells |-> IF s.len < i /\ i <= s.len + Len(ks)
                                         THEN ks[i - s.len] ELSE mem[s.arr][i]]
      <3>1. /\ mem' = [mem EXCEPT ![s.arr] = g]
            /\ platformKeys' = [s EXCEPT !.len = s.len + Len(ks)]
            /\ s.len + Len(ks) <= s.cap
        BY <2>3 DEF AppendInPlace
      <3>2. s.arr \in Arrays
        BY <1>0, <2>1, <3>1 DEF WellFormed, Header
      <3>3. mem'[s.arr] = g
        BY <1>0, <3>1, <3>2
      <3>4. platformKeys'.arr = s.arr /\ platformKeys'.len = s.len + Len(ks)
        BY <1>0, <3>1 DEF Header
      <3>5. 1..(s.len + Len(ks)) \subseteq Cells
        BY <1>0, <2>1, <3>1 DEF Cells
      <3>6. Contents(platformKeys)' = [i \in 1..(s.len + Len(ks)) |-> g[i]]
        BY <3>3, <3>4 DEF Contents
      <3>7. \A i \in 1..(s.len + Len(ks)) :
              g[i] = IF i <= s.len THEN mem[s.arr][i] ELSE ks[i - s.len]
        BY <3>5, <1>0, <2>1
      <3>. QED
        BY <1>6, <2>a, <3>6, <3>7
    <2>4. CASE AppendGrow(s, ks)
      <3> DEFINE g == [i \in Cells |-> IF i <= s.len THEN mem[s.arr][i]
                                       ELSE IF i <= s.len + Len(ks)
                                              THEN ks[i - s.len] ELSE NoKey]
      <3>1. /\ mem' = [mem EXCEPT ![NewArray] = g]
            /\ platformKeys'.arr = NewArray
            /\ platformKeys'.len = s.len + Len(ks)
        BY <2>4 DEF AppendGrow
      <3>2. mem'[NewArray] = g
        BY <1>0, <1>3, <3>1
      <3>3. s.len + Len(ks) <= CapBound
        <4>1. s.len + Len(ks) <= MaxKeys
          BY <1>6 DEF TypeInv, WriterExclusion
        <4>. QED
          BY <4>1, <1>0, <2>1, CapBoundFacts, Assumptions
      <3>4. 1..(s.len + Len(ks)) \subseteq Cells
        BY <1>0, <2>1, <3>3 DEF Cells
      <3>6. Contents(platformKeys)' = [i \in 1..(s.len + Len(ks)) |-> g[i]]
        BY <3>1, <3>2 DEF Contents
      <3>7. \A i \in 1..(s.len + Len(ks)) :
              g[i] = IF i <= s.len THEN mem[s.arr][i] ELSE ks[i - s.len]
        BY <3>4, <1>0, <2>1
      <3>. QED
        BY <1>6, <2>a, <3>6, <3>7
    <2>. QED
      BY <2>2, <2>3, <2>4
  <1>. QED
    BY <1>4, <1>5, <1>6

\* A writer that is not in a call has no pending call in the abstraction.
LEMMA IdleWriterNoCall ==
  ASSUME TypeInv, NEW w \in Writers, wpc[w] = "idle"
  PROVE  CallOf(wop[w]) = Store!NoCall
  <1>1. wop[w] = NoOp
    BY DEF TypeInv, TypeOK, WriterExclusion
  <1>. QED
    BY <1>1 DEF CallOf, NoOp, Store!NoCall

\* Announcing a Set or Add with fresh arguments is the abstract Invoke.
LEMMA LockForRefines ==
  ASSUME TypeInv, NEW w \in Writers, NEW kind \in {"set", "add"},
         NEW lo \in Nat, NEW ks \in Args(lo),
         LockFor(w, [kind |-> kind, args |-> ks])
  PROVE  Store!Invoke(w)
  <1> DEFINE op == [kind |-> kind, args |-> ks]
  <1>1. CallOf(wop[w]) = Store!NoCall
    BY IdleWriterNoCall DEF LockFor
  <1>2. CallOf(op) = op /\ op \in Store!Calls
    BY ArgsAreSeqs DEF CallOf, Store!Calls
  <1>3. /\ wop' = [wop EXCEPT ![w] = op]
        /\ UNCHANGED <<platformKeys, mem, rpc, input, listed, result>>
    BY DEF LockFor
  <1>4. [q \in Writers |-> CallOf(wop[q])]' =
          [[q \in Writers |-> CallOf(wop[q])] EXCEPT ![w] = CallOf(op)]
    BY <1>3, TypeInv DEF CallOf, TypeInv, TypeOK
  <1>5. ([q \in Writers |-> CallOf(wop[q])]')[w] = op
    BY <1>2, <1>4
  <1>6. UNCHANGED <<Contents(platformKeys), [r \in Readers |-> CallPhase(rpc[r])],
                   [r \in Readers |-> input[r].sealKey]>>
    BY <1>3 DEF Contents
  <1>. QED
    BY <1>1, <1>2, <1>3, <1>4, <1>5, <1>6 DEF Store!Invoke

\* The write-locked section is the abstract Apply of the pending call;
\* readers that Unlock() wakes stay before their snapshot.
LEMMA WriteUnlockRefines ==
  ASSUME TypeInv, NoBufPending, ~AliasSet, NEW w \in Writers, WriteUnlock(w)
  PROVE  Store!Apply(w)
  <1>1. /\ wop[w] \in Ops /\ wop[w].kind \in {"set", "add"}
        /\ wpc[w] = "wait" /\ Perform(wop[w])
    BY DEF NoBufPending, WriteUnlock, TypeInv, WriterExclusion, Ops
  <1>2. CallOf(wop[w]) = wop[w] /\ wop[w] \in Store!Calls
    <2>1. wop[w].args \in Seq(Keys)
      BY <1>1, ArgsAreSeqs DEF Ops
    <2>. QED
      BY <1>1, <2>1 DEF CallOf, Ops, Store!Calls
  <1>3. Contents(platformKeys)' =
          IF wop[w].kind = "set" THEN wop[w].args
          ELSE Contents(platformKeys) \o wop[w].args
    BY <1>1, PerformContents
  <1>4. [q \in Writers |-> CallOf(wop[q])]' =
          [[q \in Writers |-> CallOf(wop[q])] EXCEPT ![w] = Store!NoCall]
    <2>1. wop' = [wop EXCEPT ![w] = NoOp]
      BY DEF WriteUnlock
    <2>2. \A q \in Writers : wop[q].kind # "setbuf"
      BY DEF NoBufPending
    <2>. QED
      BY <2>1, <2>2 DEF CallOf, NoOp, Store!NoCall, TypeInv, TypeOK
  <1>5. [r \in Readers |-> CallPhase(rpc[r])]' = [r \in Readers |-> CallPhase(rpc[r])]
    BY DEF WriteUnlock, CallPhase
  <1>6. UNCHANGED <<[r \in Readers |-> input[r].sealKey], listed, result>>
    BY DEF WriteUnlock
  <1>. QED
    BY <1>2, <1>3, <1>4, <1>5, <1>6 DEF Store!Apply

\* Each reader step is a step of the abstract call or a stutter: the start
\* of RecoverKeys is Call, the header copy at line 70 is the snapshot, the
\* return from the loop is Finish, and the lock steps and the loop
\* iterations that do not match are invisible.
LEMMA ReaderRefines ==
  ASSUME TypeOK, SnapshotIsolation, ScanProgress, NEW r \in Readers,
         \/ \E in \in Input : RecoverKeys(r, in)
         \/ RLock(r) \/ CopyKeys(r) \/ ScanKey(r) \/ ScanEnd(r)
         \/ Unsupported(r)
  PROVE  [Store!Next]_Store!avars
  <1> DEFINE ph == [q \in Readers |-> CallPhase(rpc[q])]
             so == [q \in Readers |-> input[q].sealKey]
  <1>0. UNCHANGED <<platformKeys, mem, wop>>
        => UNCHANGED <<Contents(platformKeys), [q \in Writers |-> CallOf(wop[q])]>>
    BY DEF Contents, CallOf
  <1>1. CASE \E in \in Input : RecoverKeys(r, in)
    <2>1. PICK in \in Input : RecoverKeys(r, in)
      BY <1>1
    <2>2. /\ in.sealKey \in Keys
          /\ ph[r] = "idle"
          /\ so' = [so EXCEPT ![r] = in.sealKey]
          /\ listed' = [listed EXCEPT ![r] = FALSE]
          /\ UNCHANGED <<Contents(platformKeys), [q \in Writers |-> CallOf(wop[q])]>>
      BY <2>1, <1>0 DEF RecoverKeys, Input, CallPhase, TypeOK
    <2>3. CASE in.parse = "badJSON" \/ in.nonceLen < SaltSize
               \/ in.parse = "badAAD" \/ in.parse = "algUnavailable"
      <3>1. PICK e \in Store!EarlyErrors : Return(r, e)
        BY <2>1, <2>3 DEF RecoverKeys, Store!EarlyErrors
      <3>2. ph' = ph /\ result' = [result EXCEPT ![r] = e]
        BY <3>1, <2>1, <2>2 DEF Return, RecoverKeys, CallPhase, TypeOK
      <3>3. Store!Call(r, in.sealKey)
        BY <2>2, <3>1, <3>2 DEF Store!Call
      <3>. QED
        BY <2>2, <3>3 DEF Store!Next
    <2>4. CASE ~(in.parse = "badJSON" \/ in.nonceLen < SaltSize
                 \/ in.parse = "badAAD" \/ in.parse = "algUnavailable")
      <3>1. /\ rpc' = [rpc EXCEPT ![r] = "rlock"] /\ UNCHANGED result
        BY <2>1, <2>4 DEF RecoverKeys
      <3>2. ph' = [ph EXCEPT ![r] = "selecting"]
        BY <3>1 DEF CallPhase, TypeOK
      <3>3. Store!Call(r, in.sealKey)
        BY <2>2, <3>1, <3>2 DEF Store!Call
      <3>. QED
        BY <2>2, <3>3 DEF Store!Next
    <2>. QED
      BY <2>3, <2>4
  <1>2. CASE RLock(r)
    <2>1. ph' = ph
      BY <1>2 DEF RLock, CallPhase, TypeOK
    <2>. QED
      BY <1>2, <1>0, <2>1 DEF RLock, Store!avars
  <1>3. CASE CopyKeys(r)
    <2>1. ph[r] = "selecting" /\ ph' = [ph EXCEPT ![r] = "selected"]
      BY <1>3 DEF CopyKeys, CallPhase, TypeOK
    <2>2. Store!Snapshot(r)
      BY <1>3, <1>0, <2>1 DEF CopyKeys, Store!Snapshot, ph, Range, Store!Range
    <2>. QED
      BY <2>2 DEF Store!Next
  <1>4. CASE ScanKey(r)
    <2>0. /\ rpc[r] = "scan" /\ idx[r] <= keys[r].len
          /\ UNCHANGED <<platformKeys, mem, wop, input, listed>>
      BY <1>4 DEF ScanKey
    <2>1. CASE mem[keys[r].arr][idx[r]] = input[r].sealKey
      <3>1. listed[r]
        BY <2>0, <2>1, ScanMatchListed
      <3>2. Return(r, AfterMatch(input[r]))
        BY <1>4, <2>1 DEF ScanKey
      <3>3. ph[r] = "selected" /\ ph' = [ph EXCEPT ![r] = "idle"]
        BY <2>0, <3>2 DEF Return, CallPhase, TypeOK
      <3>4. AfterMatch(input[r]) \in Store!Opened
        BY DEF AfterMatch, Store!Opened
      <3>5. Store!Finish(r)
        BY <2>0, <1>0, <3>1, <3>2, <3>3, <3>4 DEF Return, Store!Finish
      <3>. QED
        BY <3>5 DEF Store!Next
    <2>2. CASE mem[keys[r].arr][idx[r]] # input[r].sealKey
      <3>1. UNCHANGED <<rpc, result>>
        BY <1>4, <2>2 DEF ScanKey
      <3>. QED
        BY <2>0, <3>1, <1>0 DEF Store!avars
    <2>. QED
      BY <2>1, <2>2
  <1>5. CASE ScanEnd(r)
    <2>0. /\ rpc[r] = "scan" /\ idx[r] > keys[r].len /\ Return(r, "errNoKey")
          /\ UNCHANGED <<platformKeys, mem, wop, input, listed>>
      BY <1>5 DEF ScanEnd
    <2>1. ~listed[r]
      BY <2>0, ScanEndUnlisted
    <2>2. ph[r] = "selected" /\ ph' = [ph EXCEPT ![r] = "idle"]
      BY <2>0 DEF Return, CallPhase, TypeOK
    <2>3. Store!Finish(r)
      BY <2>0, <1>0, <2>1, <2>2 DEF Return, Store!Finish
    <2>. QED
      BY <2>3 DEF Store!Next
  <1>6. CASE Unsupported(r)
    <2>0. /\ rpc[r] = "idle" /\ Return(r, "errUnsupported")
          /\ UNCHANGED <<platformKeys, mem, wop, input, listed>>
      BY <1>6 DEF Unsupported
    <2>1. ph[r] = "idle" /\ ph' = ph
      BY <2>0 DEF Return, CallPhase, TypeOK
    <2>2. Store!Unsupported(r)
      BY <2>0, <1>0, <2>1 DEF Return, Store!Unsupported
    <2>. QED
      BY <2>2 DEF Store!Next
  <1>. QED
    BY <1>1, <1>2, <1>3, <1>4, <1>5, <1>6

\* The initial state, platformKeys nil and every thread idle, is an initial
\* state of the abstract store.
LEMMA InitRefines == Init => Store!Init
  <1> SUFFICES ASSUME Init PROVE Store!Init
    OBVIOUS
  <1>1. Contents(platformKeys) = <<>>
    <2>1. 1..platformKeys.len = {}
      BY DEF Init, NilSlice
    <2>. QED
      BY <2>1 DEF Contents
  <1>2. [q \in Readers |-> input[q].sealKey] \in [Readers -> Keys]
    BY InitTypeInv DEF TypeInv, TypeOK, Input
  <1>. QED
    BY <1>1, <1>2 DEF Init, Store!Init, CallOf, NoOp, Store!NoCall, CallPhase,
                      NoResult, Store!NoOutcome

\* Every step of the handler is a step of the abstract store or leaves the
\* abstraction unchanged.
LEMMA StepRefines ==
  ASSUME SelectionInv, [Next]_vars, ~AliasSet, ~CallerMutates
  PROVE  [Store!Next]_Store!avars
  <1>0. /\ TypeInv /\ TypeOK /\ NoBufPending /\ SnapshotIsolation
        /\ ScanProgress
    BY DEF SelectionInv, IsolationInv, TypeInv
  <1>1. ASSUME NEW w \in Writers, NEW ks \in Args(0), SetPlatformKeys(w, ks)
        PROVE  [Store!Next]_Store!avars
    BY <1>0, <1>1, LockForRefines DEF SetPlatformKeys, Store!Next
  <1>2. ASSUME NEW w \in Writers, NEW ks \in Args(1), AddPlatformKeys(w, ks)
        PROVE  [Store!Next]_Store!avars
    BY <1>0, <1>2, LockForRefines DEF AddPlatformKeys, Store!Next
  <1>3. ASSUME NEW w \in Writers, WriteUnlock(w)
        PROVE  [Store!Next]_Store!avars
    BY <1>0, <1>3, WriteUnlockRefines DEF Store!Next
  <1>4. ASSUME NEW r \in Readers,
               \/ \E in \in Input : RecoverKeys(r, in)
               \/ RLock(r) \/ CopyKeys(r) \/ ScanKey(r) \/ ScanEnd(r)
               \/ Unsupported(r)
        PROVE  [Store!Next]_Store!avars
    BY <1>0, <1>4, ReaderRefines
  <1>5. CASE UNCHANGED vars
    BY <1>5 DEF vars, Store!avars, Contents, CallOf, CallPhase
  <1>. QED
    BY <1>1, <1>2, <1>3, <1>4, <1>5 DEF Next, SetPlatformKeysBuf, CallerWrite

\* SetPlatformKeys and AddPlatformKeys (platform.go:49-62) behave as
\* atomic Set and Add with the caller's arguments, and every RecoverKeys
\* call behaves as if it read the whole list at the header copy of line 70,
\* whenever callers hand over fresh argument lists (spec 4.5, 4.6, 5).
THEOREM Refinement ==
  ASSUME ~AliasSet, ~CallerMutates
  PROVE  Spec => ImplementsStore
  <1>1. SelectionInv /\ [Next]_vars => [Store!Next]_Store!avars
    BY StepRefines
  <1>. QED
    BY <1>1, InitRefines, SelectionInvariant, PTL
       DEF Spec, ImplementsStore, Store!Spec

-----------------------------------------------------------------------------
(* The effect of a write-locked section.                                   *)

\* Only the write-locked section of w's own call moves w from "wait" back
\* to "idle".
LEMMA OnlyUnlockReturns ==
  ASSUME TypeInv, [Next]_vars, NEW w \in Writers,
         wpc[w] = "wait", wpc'[w] = "idle"
  PROVE  WriteUnlock(w)
  <1>0. wpc \in [Writers -> {"idle", "wait"}]
    BY DEF TypeInv, TypeOK
  <1>1. ASSUME NEW v \in Writers, NEW op, LockFor(v, op) PROVE FALSE
    BY <1>0, <1>1 DEF LockFor
  <1>2. ASSUME NEW v \in Writers, WriteUnlock(v), v # w PROVE FALSE
    BY <1>0, <1>2 DEF WriteUnlock
  <1>3. ASSUME UNCHANGED wpc PROVE FALSE
    BY <1>3
  <1>. QED
    BY <1>1, <1>2, <1>3 DEF Next, vars, SetPlatformKeys, SetPlatformKeysBuf,
       AddPlatformKeys, CallerWrite, RecoverKeys, RLock, CopyKeys, ScanKey,
       ScanEnd, Unsupported

\* Set and Add with literal arguments (lines 49-62) take effect exactly:
\* when a writer leaves its write-locked section the list is its arguments,
\* or the old keys followed by its arguments, whether the append wrote in
\* place or reallocated, and with or without aliasing.
THEOREM WriteEffect == Spec => WriteTakesEffect
  <1>1. TypeInv /\ [Next]_vars =>
          [\A w \in Writers :
             /\ wpc[w] = "wait" /\ wpc'[w] = "idle"
             /\ wop[w].kind \in {"set", "add"}
             => Contents(platformKeys)' =
                  IF wop[w].kind = "set" THEN wop[w].args
                  ELSE Contents(platformKeys) \o wop[w].args]_vars
    <2> SUFFICES ASSUME TypeInv, [Next]_vars, NEW w \in Writers,
                        wpc[w] = "wait", wpc'[w] = "idle",
                        wop[w].kind \in {"set", "add"}
                 PROVE  Contents(platformKeys)' =
                          IF wop[w].kind = "set" THEN wop[w].args
                          ELSE Contents(platformKeys) \o wop[w].args
      OBVIOUS
    <2>1. WriteUnlock(w)
      BY OnlyUnlockReturns
    <2>. QED
      BY <2>1, PerformContents DEF WriteUnlock
  <1>. QED
    BY <1>1, TypeCorrect, PTL DEF Spec, WriteTakesEffect

=============================================================================
