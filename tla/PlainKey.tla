------------------------------- MODULE PlainKey -------------------------------
(***************************************************************************)
(* The plainkey platform handler (src/plainkey/platform.go).               *)
(*                                                                         *)
(* The process-wide key list platformKeys is a Go slice: a header          *)
(* (backing array, len, cap) guarded by platformKeysMu, a sync.RWMutex.    *)
(* Writer threads call SetPlatformKeys / AddPlatformKeys; reader threads   *)
(* call RecoverKeys, whose getPlatformKey copies the header under the read *)
(* lock and then walks the backing array with the lock released.  The     *)
(* heap is modelled as a function from array ids to cells, so that the     *)
(* aliasing of Go's variadic arguments and the in-place writes of append   *)
(* are visible.  Keys, HMAC and AES-GCM are ideal: a key matches a         *)
(* platformKeyId exactly when it is the key the handle was sealed with,    *)
(* and Open succeeds exactly when the envelope is authentic and the AEAD   *)
(* could be built.                                                         *)
(***************************************************************************)
EXTENDS Naturals, Sequences, FiniteSets, Functions

CONSTANTS
  Keys,           \* platform key values
  NoKey,          \* the zero []byte of a slot no one has written
  Readers,        \* threads calling the handler (RecoverKeys ...)
  Writers,        \* threads calling SetPlatformKeys / AddPlatformKeys
  Arrays,         \* ids of heap arrays of []byte headers
  NoArray,        \* the nil pointer of a nil slice
  Buf,            \* an array owned by a caller of SetPlatformKeys
  BufCap,         \* cap of that caller's slice
  MaxArgs,        \* most keys passed in one Set/Add call
  MaxKeys,        \* bound on len(platformKeys)
  SaltSize,       \* symKeySaltSize
  NonceLens,      \* lengths of kd.Nonce that handles carry
  Parses,         \* outcomes of the steps before the key lookup
  AliasSet,       \* callers may call SetPlatformKeys(buf[:n]...)
  CallerMutates   \* callers may write their buf after handing it over

\* The outcomes of lines 87-116 before the key list is read: JSON decoding,
\* AAD serialisation, and the digest availability check of getPlatformKey.
ParseOutcomes == {"ok", "badJSON", "badAAD", "algUnavailable"}

ASSUME Assumptions ==
  /\ Keys # {} /\ NoKey \notin Keys
  /\ Buf \in Arrays /\ NoArray \notin Arrays
  /\ Readers # {} /\ Writers # {}
  /\ IsFiniteSet(Readers) /\ IsFiniteSet(Arrays)
  /\ Cardinality(Arrays) >= Cardinality(Readers) + 3
  /\ BufCap \in Nat \ {0} /\ MaxKeys \in Nat \ {0}
  /\ MaxArgs \in 1..MaxKeys
  /\ SaltSize \in Nat
  /\ NonceLens \subseteq Nat /\ NonceLens # {}
  /\ Parses \subseteq ParseOutcomes /\ Parses # {}
  /\ AliasSet \in BOOLEAN /\ CallerMutates \in BOOLEAN

\* Every cap a slice of this model can have: the caller's BufCap, or what
\* growslice gives when the length stays within MaxKeys.
CapBound == IF BufCap > 2 * MaxKeys THEN BufCap ELSE 2 * MaxKeys
Cells == 1..CapBound
Slot == Keys \cup {NoKey}

\* A slice header.
Header == [arr : Arrays \cup {NoArray}, len : 0..CapBound, cap : 0..CapBound]
NilSlice == [arr |-> NoArray, len |-> 0, cap |-> 0]

\* A handle presented to RecoverKeys: how it parses, the length of its
\* nonce, the key it was sealed with, and whether the ciphertext, nonce
\* and AAD are the ones it was sealed with.
Input == [parse : Parses, nonceLen : NonceLens, sealKey : Keys,
          authentic : BOOLEAN]

\* What RecoverKeys returns: the plaintext, or the cause of its error.
Results == {"ok", "errJSON", "errNonce", "errAAD", "errAlg", "errNoKey",
            "errAEAD", "errOpen", "errUnsupported"}
\* The causes returned as PlatformHandlerErrorInvalidData.
InvalidData == {"errJSON", "errNonce", "errAAD", "errAlg", "errNoKey",
                "errOpen"}

\* Argument lists of one call.
Args(lo) == UNION {[1..n -> Keys] : n \in lo..MaxArgs}

\* A pending writer call.
Ops == [kind : {"set"}, args : Args(0)] \cup [kind : {"add"}, args : Args(1)]
       \cup [kind : {"setbuf"}, n : 0..BufCap]
NoOp == [kind |-> "none"]
NoResult == "none"

VARIABLES
  platformKeys,   \* the slice header of the global list
  mem,            \* mem[a][i]: cell i of heap array a
  wpc,            \* writer thread: "idle", or "wait" for the write lock
  wop,            \* the call a writer thread is making
  rpc,            \* reader thread: "idle", "rlock", "blocked", "read", "scan"
  input,          \* the handle a reader thread is recovering
  keys,           \* getPlatformKey's local copy of the header (line 70)
  idx,            \* the position of the range loop of line 73
  snapKeys,       \* ghost: the list as it was when keys was copied
  listed,         \* ghost: the sealed key was in it
  result          \* what the last call of each reader returned

vars == <<platformKeys, mem, wpc, wop, rpc, input, keys, idx, snapKeys,
          listed, result>>

\* The keys a slice header designates.
Contents(h) == [i \in 1..h.len |-> mem[h.arr][i]]

\* Arrays the garbage collector must keep: the global list, the caller's
\* buffer, and the copies readers are iterating over.
Referenced == {platformKeys.arr, Buf} \cup
              {keys[r].arr : r \in {q \in Readers : rpc[q] = "scan"}}
Free == Arrays \ Referenced
\* The array the allocator hands out: which free one it is does not matter.
NewArray == CHOOSE a \in Free : TRUE

-----------------------------------------------------------------------------
(* Go's append(s, ks...) (runtime growslice, element size 24 bytes: the    *)
(* size-class rounding leaves these small capacities unchanged).           *)

\* Mutant: growth that only doubles, even when more keys are appended.
GrowCapDoubleOnly(oldCap, newLen) == 2 * oldCap

GrowCap(oldCap, newLen) ==
  IF newLen > 2 * oldCap THEN newLen ELSE 2 * oldCap

\* Mutant: the in-place copy starts one cell early.
AppendInPlaceShifted(s, ks) ==
  /\ s.len + Len(ks) <= s.cap
  /\ mem' = [mem EXCEPT ![s.arr] =
               [i \in Cells |-> IF s.len <= i /\ i < s.len + Len(ks) /\ i > 0
                                  THEN ks[i - s.len + 1] ELSE @[i]]]
  /\ platformKeys' = [s EXCEPT !.len = s.len + Len(ks)]

\* Enough room: the new keys are written in place after s.len.
AppendInPlace(s, ks) ==
  /\ s.len + Len(ks) <= s.cap
  /\ mem' = [mem EXCEPT ![s.arr] =
               [i \in Cells |-> IF s.len < i /\ i <= s.len + Len(ks)
                                  THEN ks[i - s.len] ELSE @[i]]]
  /\ platformKeys' = [s EXCEPT !.len = s.len + Len(ks)]

\* Mutant: growslice that does not copy the old elements.
AppendGrowNoCopy(s, ks) ==
  /\ s.len + Len(ks) > s.cap
  /\ mem' = [mem EXCEPT ![NewArray] =
               [i \in Cells |-> IF s.len < i /\ i <= s.len + Len(ks)
                                  THEN ks[i - s.len] ELSE NoKey]]
  /\ platformKeys' = [arr |-> NewArray, len |-> s.len + Len(ks),
                      cap |-> GrowCap(s.cap, s.len + Len(ks))]

\* No room: a fresh array gets a copy of s followed by ks.
AppendGrow(s, ks) ==
  /\ s.len + Len(ks) > s.cap
  /\ mem' = [mem EXCEPT ![NewArray] =
               [i \in Cells |-> IF i <= s.len THEN mem[s.arr][i]
                                ELSE IF i <= s.len + Len(ks)
                                       THEN ks[i - s.len] ELSE NoKey]]
  /\ platformKeys' = [arr |-> NewArray, len |-> s.len + Len(ks),
                      cap |-> GrowCap(s.cap, s.len + Len(ks))]

\* Set(ks...) with literal arguments: Go allocates the variadic array
\* (len = cap = Len(ks)), or passes nil when there are none.
SetFresh(ks) ==
  IF ks = <<>>
    THEN platformKeys' = NilSlice /\ UNCHANGED mem
    ELSE /\ mem' = [mem EXCEPT ![NewArray] =
                      [i \in Cells |-> IF i <= Len(ks) THEN ks[i] ELSE NoKey]]
         /\ platformKeys' = [arr |-> NewArray, len |-> Len(ks), cap |-> Len(ks)]

\* The body of the write-locked section of lines 51 and 60.
Perform(op) ==
  CASE op.kind = "set"    -> SetFresh(op.args)
    [] op.kind = "setbuf" -> /\ platformKeys' = [arr |-> Buf, len |-> op.n,
                                                 cap |-> BufCap]
                             /\ UNCHANGED mem
    [] op.kind = "add"    -> AppendInPlace(platformKeys, op.args)
                             \/ AppendGrow(platformKeys, op.args)

-----------------------------------------------------------------------------
(* Writers: SetPlatformKeys and AddPlatformKeys.                           *)

\* A write lock is pending or held.
WriterPending == \E w \in Writers : wpc[w] = "wait"

\* Lock(): take the writer mutex and announce the writer, after which new
\* readers block; the lock is held once the active readers have left.
LockFor(w, op) ==
  /\ wpc[w] = "idle"
  /\ ~WriterPending
  /\ wpc' = [wpc EXCEPT ![w] = "wait"]
  /\ wop' = [wop EXCEPT ![w] = op]
  /\ UNCHANGED <<platformKeys, mem, rpc, input, keys, idx, snapKeys, listed,
                 result>>

SetPlatformKeys(w, ks) == LockFor(w, [kind |-> "set", args |-> ks])

SetPlatformKeysBuf(w, n) ==
  /\ AliasSet
  /\ LockFor(w, [kind |-> "setbuf", n |-> n])

AddPlatformKeys(w, ks) ==
  /\ platformKeys.len + Len(ks) <= MaxKeys
  /\ LockFor(w, [kind |-> "add", args |-> ks])

\* Mutant: Unlock() forgets the readers that blocked.
WriteUnlockNoWake(w) ==
  /\ wpc[w] = "wait"
  /\ \A r \in Readers : rpc[r] # "read"
  /\ Perform(wop[w])
  /\ wpc' = [wpc EXCEPT ![w] = "idle"]
  /\ wop' = [wop EXCEPT ![w] = NoOp]
  /\ UNCHANGED <<rpc, input, keys, idx, snapKeys, listed, result>>

\* No reader holds the read lock: the write lock is acquired, the list
\* assigned, and Unlock() admits the readers that blocked meanwhile.
WriteUnlock(w) ==
  /\ wpc[w] = "wait"
  /\ \A r \in Readers : rpc[r] # "read"
  /\ Perform(wop[w])
  /\ wpc' = [wpc EXCEPT ![w] = "idle"]
  /\ wop' = [wop EXCEPT ![w] = NoOp]
  /\ rpc' = [r \in Readers |-> IF rpc[r] = "blocked" THEN "read" ELSE rpc[r]]
  /\ UNCHANGED <<input, keys, idx, snapKeys, listed, result>>

\* The owner of buf writes one of its cells, without any lock.
CallerWrite(w, i, k) ==
  /\ CallerMutates
  /\ wpc[w] = "idle"
  /\ mem' = [mem EXCEPT ![Buf][i] = k]
  /\ UNCHANGED <<platformKeys, wpc, wop, rpc, input, keys, idx, snapKeys,
                 listed, result>>

-----------------------------------------------------------------------------
(* Readers: RecoverKeys and the two unsupported operations.                *)

\* Lines 124-143 once key matched: the AES key is 32 bytes, so NewCipher
\* succeeds; NewGCMWithNonceSize refuses a nonce of size 0; Open
\* authenticates.
AfterMatch(in) ==
  IF in.nonceLen - SaltSize = 0 THEN "errAEAD"
  ELSE IF in.authentic THEN "ok" ELSE "errOpen"

\* The call returns res; its locals (keys, the loop index) go away.
Return(r, res) ==
  /\ rpc' = [rpc EXCEPT ![r] = "idle"]
  /\ result' = [result EXCEPT ![r] = res]
  /\ keys' = [keys EXCEPT ![r] = NilSlice]
  /\ idx' = [idx EXCEPT ![r] = 1]
  /\ snapKeys' = [snapKeys EXCEPT ![r] = <<>>]

\* Lines 86-116 up to the read lock: decode the handle, check the nonce
\* length, serialise the AAD, check that the digest is available.
RecoverKeys(r, in) ==
  /\ rpc[r] = "idle"
  /\ input' = [input EXCEPT ![r] = in]
  /\ listed' = [listed EXCEPT ![r] = FALSE]
  /\ CASE in.parse = "badJSON"         -> Return(r, "errJSON")
       [] in.nonceLen < SaltSize       -> Return(r, "errNonce")
       [] in.parse = "badAAD"          -> Return(r, "errAAD")
       [] in.parse = "algUnavailable"  -> Return(r, "errAlg")
       [] OTHER -> /\ rpc' = [rpc EXCEPT ![r] = "rlock"]
                   /\ UNCHANGED <<result, keys, idx, snapKeys>>
  /\ UNCHANGED <<platformKeys, mem, wpc, wop>>

\* Mutant: RLock() lets readers in past an announced writer.
RLockBarging(r) ==
  /\ rpc[r] = "rlock"
  /\ rpc' = [rpc EXCEPT ![r] = "read"]
  /\ UNCHANGED <<platformKeys, mem, wpc, wop, input, keys, idx, snapKeys,
                 listed, result>>

\* RLock(), line 69: blocks while a writer is pending or holds the lock.
RLock(r) ==
  /\ rpc[r] = "rlock"
  /\ rpc' = [rpc EXCEPT ![r] = IF WriterPending THEN "blocked" ELSE "read"]
  /\ UNCHANGED <<platformKeys, mem, wpc, wop, input, keys, idx, snapKeys,
                 listed, result>>

\* Lines 70-71: keys := platformKeys; RUnlock().
CopyKeys(r) ==
  /\ rpc[r] = "read"
  /\ keys' = [keys EXCEPT ![r] = platformKeys]
  /\ snapKeys' = [snapKeys EXCEPT ![r] = Contents(platformKeys)]
  /\ listed' = [listed EXCEPT ![r] = input[r].sealKey \in Range(Contents(platformKeys))]
  /\ idx' = [idx EXCEPT ![r] = 1]
  /\ rpc' = [rpc EXCEPT ![r] = "scan"]
  /\ UNCHANGED <<platformKeys, mem, wpc, wop, input, result>>

\* Lines 73-79: one iteration reads keys[idx] from the shared array.
ScanKey(r) ==
  /\ rpc[r] = "scan"
  /\ idx[r] <= keys[r].len
  /\ IF mem[keys[r].arr][idx[r]] = input[r].sealKey
       THEN Return(r, AfterMatch(input[r]))
       ELSE /\ idx' = [idx EXCEPT ![r] = @ + 1]
            /\ UNCHANGED <<rpc, result, keys, snapKeys>>
  /\ UNCHANGED <<platformKeys, mem, wpc, wop, input, listed>>

\* Mutant: the loop stops before the last key.
ScanEndEarly(r) ==
  /\ rpc[r] = "scan"
  /\ idx[r] >= keys[r].len
  /\ Return(r, "errNoKey")
  /\ UNCHANGED <<platformKeys, mem, wpc, wop, input, listed>>

\* Line 80: the loop ran out of keys.
ScanEnd(r) ==
  /\ rpc[r] = "scan"
  /\ idx[r] > keys[r].len
  /\ Return(r, "errNoKey")
  /\ UNCHANGED <<platformKeys, mem, wpc, wop, input, listed>>

\* Lines 146-152: RecoverKeysWithAuthKey and ChangeAuthKey.
Unsupported(r) ==
  /\ rpc[r] = "idle"
  /\ Return(r, "errUnsupported")
  /\ UNCHANGED <<platformKeys, mem, wpc, wop, input, listed>>

-----------------------------------------------------------------------------

\* The process starts with platformKeys nil; the caller's buffer holds
\* whatever keys it loaded.
Init ==
  /\ platformKeys = NilSlice
  /\ \E b \in [1..BufCap -> Keys] :
       mem = [a \in Arrays |->
                [i \in Cells |-> IF a = Buf /\ i <= BufCap THEN b[i] ELSE NoKey]]
  /\ wpc = [w \in Writers |-> "idle"]
  /\ wop = [w \in Writers |-> NoOp]
  /\ rpc = [r \in Readers |-> "idle"]
  /\ input = [r \in Readers |-> CHOOSE in \in Input : TRUE]
  /\ keys = [r \in Readers |-> NilSlice]
  /\ idx = [r \in Readers |-> 1]
  /\ snapKeys = [r \in Readers |-> <<>>]
  /\ listed = [r \in Readers |-> FALSE]
  /\ result = [r \in Readers |-> NoResult]

Next ==
  \/ \E w \in Writers :
       \/ \E ks \in Args(0) : SetPlatformKeys(w, ks)
       \/ \E n \in 0..BufCap : SetPlatformKeysBuf(w, n)
       \/ \E ks \in Args(1) : AddPlatformKeys(w, ks)
       \/ WriteUnlock(w)
       \/ \E i \in 1..BufCap, k \in Keys : CallerWrite(w, i, k)
  \/ \E r \in Readers :
       \/ \E in \in Input : RecoverKeys(r, in)
       \/ RLock(r) \/ CopyKeys(r) \/ ScanKey(r) \/ ScanEnd(r)
       \/ Unsupported(r)

\* Goroutines are scheduled preemptively, so a thread in the middle of a
\* call that can step eventually does.  Starting a call is up to the
\* caller and carries no fairness.
Fairness ==
  /\ \A w \in Writers : WF_vars(WriteUnlock(w))
  /\ \A r \in Readers : WF_vars(RLock(r) \/ CopyKeys(r) \/ ScanKey(r)
                                \/ ScanEnd(r))

Spec == Init /\ [][Next]_vars
FairSpec == Spec /\ Fairness

-----------------------------------------------------------------------------
(* Properties.                                                             *)

TypeOK ==
  /\ platformKeys \in Header
  /\ platformKeys.len <= platformKeys.cap
  /\ mem \in [Arrays -> [Cells -> Slot]]
  /\ wpc \in [Writers -> {"idle", "wait"}]
  /\ wop \in [Writers -> Ops \cup {NoOp}]
  /\ rpc \in [Readers -> {"idle", "rlock", "blocked", "read", "scan"}]
  /\ input \in [Readers -> Input]
  /\ keys \in [Readers -> Header]
  /\ idx \in [Readers -> 1..(CapBound + 1)]
  /\ snapKeys \in [Readers -> Seq(Slot)]
  /\ listed \in [Readers -> BOOLEAN]
  /\ result \in [Readers -> Results \cup {NoResult}]

\* Snapshot isolation (spec 4.5, P5).  While getPlatformKey iterates over
\* the header it copied at line 70 with the lock released, the cells that
\* header designates still hold the keys they held when it was copied: no
\* later SetPlatformKeys, AddPlatformKeys or caller write reaches them.
SnapshotIsolation ==
  \A r \in Readers :
    rpc[r] = "scan" => Contents(keys[r]) = snapKeys[r]

\* Key selection agrees with the snapshot (spec 4.6, P2).  When RecoverKeys
\* has returned from the key lookup, it reported "no key available"
\* exactly when the key the handle was sealed with was absent from the
\* list as it stood when getPlatformKey took its read lock.
SelectionMatchesSnapshot ==
  \A r \in Readers :
    /\ rpc[r] = "idle"
    /\ result[r] \in {"ok", "errAEAD", "errOpen", "errNoKey"}
    => (result[r] = "errNoKey" <=> ~listed[r])

\* Round trip (spec P1).  An authentic envelope whose handle decodes, whose
\* nonce is at least symKeySaltSize bytes, and whose key was in the list
\* when RecoverKeys read it, is recovered.
RoundTrip ==
  \A r \in Readers :
    /\ rpc[r] = "idle"
    /\ result[r] \notin {NoResult, "errUnsupported"}
    /\ input[r].parse = "ok" /\ input[r].authentic
    /\ input[r].nonceLen >= SaltSize
    /\ listed[r]
    => result[r] = "ok"

\* Every RecoverKeys call returns: the read lock is not withheld forever
\* from a reader that blocked behind a writer.
CallsReturn ==
  \A r \in Readers : rpc[r] # "idle" ~> rpc[r] = "idle"

\* Every SetPlatformKeys / AddPlatformKeys that announced itself gets the
\* write lock and returns, however many readers keep calling.
WritesComplete ==
  \A w \in Writers : wpc[w] = "wait" ~> wpc[w] = "idle"

\* A Set or Add with literal arguments (lines 49-62) that leaves its
\* write-locked section has made the list exactly its arguments, or the
\* old keys followed by its arguments: the reallocating append copies every
\* old key, and the in-place one touches no cell below the old length.
WriteTakesEffect ==
  [][\A w \in Writers :
       /\ wpc[w] = "wait" /\ wpc'[w] = "idle"
       /\ wop[w].kind \in {"set", "add"}
       => Contents(platformKeys)' =
            IF wop[w].kind = "set" THEN wop[w].args
            ELSE Contents(platformKeys) \o wop[w].args]_vars

-----------------------------------------------------------------------------
(* Strengthenings that make TypeOK and SnapshotIsolation inductive.        *)

\* A header as Go builds them: len within cap, and a nil pointer only in
\* the nil slice.
WellFormed(h) == h.len <= h.cap /\ (h.arr = NoArray => h.cap = 0)

\* The writer mutex: at most one writer is pending or holds the lock, it
\* has a call to make, and the append it is about to make fits within
\* MaxKeys.
WriterExclusion ==
  /\ \A w1, w2 \in Writers : wpc[w1] = "wait" /\ wpc[w2] = "wait" => w1 = w2
  /\ \A w \in Writers : wpc[w] = "wait" <=> wop[w] \in Ops
  /\ \A w \in Writers :
       wpc[w] = "wait" /\ wop[w].kind = "add"
         => platformKeys.len + Len(wop[w].args) <= MaxKeys

TypeInv ==
  /\ TypeOK
  /\ WellFormed(platformKeys)
  /\ \A r \in Readers : WellFormed(keys[r])
  /\ WriterExclusion

\* A reader's copy designates a prefix of the list whenever it shares the
\* list's array: on one array the list only grows.
CopyIsPrefix ==
  \A r \in Readers :
    rpc[r] = "scan" /\ keys[r].arr = platformKeys.arr
      => keys[r].len <= platformKeys.len

\* Without aliasing, no writer is about to install the caller's buffer.
NoBufPending == AliasSet \/ \A w \in Writers : wop[w].kind # "setbuf"

IsolationInv == TypeInv /\ NoBufPending /\ CopyIsPrefix /\ SnapshotIsolation

\* The list, and the caller's buffer it may be built on, hold keys in every
\* cell they designate: nothing leaves a zero []byte inside the list.
ListHoldsKeys ==
  /\ \A i \in 1..platformKeys.len : mem[platformKeys.arr][i] \in Keys
  /\ \A i \in 1..BufCap : mem[Buf][i] \in Keys

\* The loop of lines 73-79: the keys before idx were not the sealing key,
\* and listed records whether the sealing key is anywhere in the snapshot.
ScanProgress ==
  \A r \in Readers : rpc[r] = "scan" =>
    /\ idx[r] \in 1..(keys[r].len + 1)
    /\ \A i \in 1..(idx[r] - 1) : snapKeys[r][i] # input[r].sealKey
    /\ listed[r] = (input[r].sealKey \in Range(snapKeys[r]))

SelectionInv ==
  IsolationInv /\ ListHoldsKeys /\ ScanProgress /\ SelectionMatchesSnapshot

-----------------------------------------------------------------------------
(* Refinement of the key-store specification PlainKeyStore.               *)

\* How far a call has got, as the abstract store sees it: the snapshot is
\* taken when the header is copied at line 70.
CallPhase(pc) ==
  CASE pc = "idle" -> "idle"
    [] pc = "scan" -> "selected"
    [] OTHER       -> "selecting"

\* The call a writer is making: SetPlatformKeys(buf[:n]...) passes the keys
\* the caller's buffer holds.
CallOf(op) ==
  IF op.kind = "setbuf"
    THEN [kind |-> "set", args |-> [i \in 1..op.n |-> mem[Buf][i]]]
    ELSE op

Store == INSTANCE PlainKeyStore WITH
           store  <- Contents(platformKeys),
           pending <- [w \in Writers |-> CallOf(wop[w])],
           phase  <- [r \in Readers |-> CallPhase(rpc[r])],
           sought <- [r \in Readers |-> input[r].sealKey],
           found  <- listed,
           outcome <- result

\* SetPlatformKeys and AddPlatformKeys behave as atomic Set and Add of the
\* list with the caller's arguments (spec 4.5, 5), and every RecoverKeys call behaves as if it read the
\* whole list at the instant of line 70: the loop, running unlocked over
\* the copied header, returns "no key available" exactly when the key was
\* absent then (4.6, P2).
ImplementsStore == Store!Spec

\* Under the goroutine fairness of FairSpec, the handler also keeps the
\* store's progress promises: a SetPlatformKeys or AddPlatformKeys that has
\* been called takes effect, and a RecoverKeys that passed its early checks
\* takes its snapshot at line 70 and returns, despite the RWMutex.
ImplementsFairStore == Store!FairSpec

=============================================================================
