# Verification of the plainkey platform handler

This directory holds a TLA+ development for `src/plainkey/platform.go`:
- a model of the process-wide platform key list;
- the handler that recovers keys with it;
- TLC configurations that model-check small instances;
- TLAPS proofs that hold for every instance.

## Inventory

### Components

| Part (source) | Role | Module | Status |
|---|---|---|---|
| `platformKeys`, `platformKeysMu` (platform.go:41-44) | global `[][]byte` slice guarded by a `sync.RWMutex` | PlainKey | modelled |
| `SetPlatformKeys` (:49-53) | replaces the list with the variadic argument slice, under the write lock | PlainKey | modelled |
| `AddPlatformKeys` (:58-62) | `append`s to the list under the write lock | PlainKey | modelled |
| `getPlatformKey` (:64-81) | checks the digest, copies the header under the read lock, then HMAC-compares each key with the lock released | PlainKey | modelled |
| `RecoverKeys` (:85-144) | decode handle → nonce check → AAD → select key → AES-GCM open | PlainKey | partly (data abstracted) |
| `RecoverKeysWithAuthKey`, `ChangeAuthKey` (:146-152) | return "unsupported action" | PlainKey | modelled |
| `init` (:154-156) | registers the handler with secboot | — | not modelled (host registry not in sources) |
| `keyData`, `additionalData`, `deriveAESKey`, `hashAlg` | other plainkey files, not under `src/` | — | abstracted into `Input` and ideal crypto |
| `src/tpm2/pin_test.go` | TPM PIN and provisioning tests | — | not modelled (tests against a simulator) |
| `src/unnamed/part_000` | testutil hex decoders | — | not modelled (pure conversion) |

### How the parts interact

Any number of goroutines may call `SetPlatformKeys`/`AddPlatformKeys` (writers) and `RecoverKeys` (readers) concurrently.

The only shared state is the slice header `platformKeys` and the heap arrays it points to. Go passes a variadic argument as a slice that aliases the caller's array, and `SetPlatformKeys` stores that slice as it is. `append` writes into the existing array when `len + n <= cap`, and reallocates otherwise. A reader copies the header under `RLock` and then reads the array after `RUnlock`.

So whether a reader sees a stable list depends on what writers do to that array afterwards.

### Hazards (also in PROJECT.json)

- **Stale snapshot.** The loop at :73 reads an array that writers may touch after the lock was released at :71.
- **In-place append.** The append at :60 writes cells above `len` in an array that a reader's copy shares.
- **Aliasing.** `SetPlatformKeys` at :51 keeps the caller's slice, including its spare capacity, without copying it.
- **Nonce length edge case.** `<` at :93 admits `len(nonce) == symKeySaltSize`. That leaves a zero-length GCM nonce, which :130 refuses.
- **RWMutex starvation.** A reader's `RLock` at :69 may wait behind writers at :50/:59 (and a writer behind readers). Every call must still return.

## Modules

### `PlainKey.tla`

**Constants:**
- `Keys`, `Readers`, `Writers`, `Arrays`: model values.
- `Buf`, `BufCap`: a caller's array and its capacity.
- `MaxArgs`, `MaxKeys`: bounds on a call's arguments and on the list length.
- `SaltSize`, `NonceLens`, `Parses`: the handles readers present.
- `AliasSet`: callers may pass `buf[:n]...`.
- `CallerMutates`: callers may later write `buf`.

The named assumption `Assumptions` gives the constants what the proofs need. The main one is enough `Arrays` for the list, the caller's buffer and one copy per reader: the garbage collector keeps exactly those alive.

**State:**
- `platformKeys`: a header `[arr, len, cap]`.
- `mem`: heap array → cell → key.
- Writer thread: `wpc` (idle/wait), plus the pending call `wop`.
- Reader thread:
  - `rpc`: idle, rlock, blocked, read or scan;
  - `input`: the handle presented;
  - `keys`: the local copy made at :70;
  - `idx`: the loop position;
  - `result`.
- Ghosts: `snapKeys` (the contents at copy time) and `listed` (whether the sealing key was in them).

**Actions:**

| Action | Code |
|---|---|
| `SetPlatformKeys(w, ks)` | literal arguments: Go allocates a fresh array of len = cap = `Len(ks)`, or nil |
| `SetPlatformKeysBuf(w, n)` | `SetPlatformKeys(buf[:n]...)`: stores the caller's array |
| `AddPlatformKeys(w, ks)` | announce the writer (`LockFor`) |
| `WriteUnlock(w)` | acquire once no reader holds the read lock, perform the assignment or append (`Perform`), and `Unlock`, which admits blocked readers |
| `CallerWrite` | the caller writes its own buffer without a lock |
| `RecoverKeys(r, in)` | the early returns at :87-114 and :65, in the code's order |
| `RLock` (:69) | blocks if a writer is pending |
| `CopyKeys` (:70-71) | copy the header, then release the read lock |
| `ScanKey` (:73-79) | one loop iteration per step |
| `ScanEnd` (:80) | "no key available" |
| `Unsupported` (:146-152) | returns "unsupported action" |

Append is modelled in two pieces:
- `AppendInPlace`, `AppendGrow` and `GrowCap` follow `runtime.growslice`. For these small capacities, size-class rounding changes nothing.
- The allocator returns some free array. `NewArray` is a `CHOOSE` over the unreferenced ones.

Crypto is ideal:
- HMAC matches exactly the sealing key.
- `aes.NewCipher` on a 32-byte derived key succeeds.
- `NewGCMWithNonceSize` fails for size 0.
- `Open` succeeds exactly on authentic input.

**Fairness** (`FairSpec`): weak fairness of `WriteUnlock` and of each reader's in-call steps. Goroutines are scheduled preemptively, so a thread inside a call that can move eventually does. Starting a call is up to the caller and carries no fairness.

**Properties:**
- `TypeOK`.
- `SnapshotIsolation`: while a reader scans, the cells of its copy hold what they held at the copy.
- `SelectionMatchesSnapshot`: "no key available" is returned exactly when the sealing key was not in the snapshot.
- `RoundTrip`: spec P1.
- `CallsReturn` and `WritesComplete`: liveness.
- `IsolationInv`: the inductive strengthening.
- `SelectionInv`: `IsolationInv` plus `ListHoldsKeys` (every cell of the list and of `buf` holds a key) and `ScanProgress`, the loop invariant of :73-79:
  - `idx` is within `1..len+1`;
  - the keys before `idx` are not the sealing key;
  - `listed` is membership of the sealing key in the snapshot.
- `ImplementsStore`: the refinement of `PlainKeyStore`.
- `WriteTakesEffect` (action property): a Set or Add that leaves its write-locked section has made the list its arguments, or the old keys followed by its arguments.
- `ImplementsFairStore`: the refinement of `PlainKeyStore!FairSpec`, under `FairSpec`.

**Refinement mapping** (`Store == INSTANCE PlainKeyStore WITH ...`):

| Abstract | Concrete |
|---|---|
| `store` | `Contents(platformKeys)`: the keys the header designates |
| `pending[w]` | `CallOf(wop[w])`: the writer's call. `Set(buf[:n]...)` is read as a Set of the keys `buf` holds |
| `phase[r]` | `CallPhase(rpc[r])`: idle → `"idle"`; scan → `"selected"`; rlock, blocked, read → `"selecting"` |
| `sought[r]` | `input[r].sealKey` |
| `found` | `listed` |
| `outcome` | `result` |

`ImplementsStore == Store!Spec`.

### `PlainKeyStore.tla`

The abstract specification: what the store and the lookup promise (spec 4.5, 4.6, 4.7 and 5), with no locks, slices or loop.

- `store` is a sequence of keys.
- A writer first `Invoke`s a Set or Add with its arguments. It then `Apply`s it in one atomic step: Set replaces the list, Add appends in order.
  - The pending call is recorded so that a concrete step can only match the call the writer actually made. Without it, every writer step could be explained as some Set, and Add's promise to keep the old keys would go unchecked.
- A call goes through these steps:
  - `Call` starts, and may fail early with one of the handle errors.
  - `Snapshot` decides, at one instant, whether the sought key is in the list.
  - `Finish` returns "no key available" exactly when it was not, and otherwise a decryption outcome.
- `Unsupported` models the two unsupported operations.
- `FairSpec` adds weak fairness of `Apply`, `Snapshot` and `Finish`: a call that has been made takes effect, and a lookup that has started returns.

In the mapping:
- the concrete `LockFor` is `Invoke`;
- `WriteUnlock` is `Apply`;
- `RecoverKeys` is `Call`;
- `CopyKeys` at :70 is `Snapshot`;
- `ScanKey` on a match and `ScanEnd` are `Finish`;
- `RLock` and the non-matching `ScanKey` iterations are stutters.

### `MC_PlainKey.tla`

Model values for 2 keys, 2 readers, 2 writers and 5 arrays.

`MCView` drops the contents of unreferenced arrays. Those contents are garbage that no action reads: `AppendGrow` and `SetFresh` overwrite every cell of the array they allocate.

`MCSymmetry` permutes keys and readers. Arrays are not symmetric, because `NewArray` picks one by `CHOOSE`.

### `PlainKey_proofs.tla`

The TLAPS proofs of type correctness and isolation (see below).

### `PlainKeyStore_proofs.tla`

The TLAPS proofs of key selection and of the refinement.

## Runs

| Run | Expect | Shows |
|---|---|---|
| safety | pass (about 3.0M distinct states) | 1 reader, 1 writer, 2 keys, `MaxKeys` 4, caller buffer of cap 2, fresh arguments only. Up to four appends reach both the in-place and the reallocating path, and resets happen while a reader scans. `TypeOK`, `SnapshotIsolation`, `SelectionMatchesSnapshot`, `IsolationInv` and the action property `WriteTakesEffect` all hold. |
| live | pass (about 330K) | 2 readers and 1 writer, with aliasing and caller writes on, under `FairSpec`. Every call returns and every write completes, so neither the readers nor the writer starve on the RWMutex. |
| refine | pass (about 680K) | 2 writers, all four parse outcomes and nonce lengths 0..2 with `SaltSize` 1, so every early return of `RecoverKeys` is taken, with fresh arguments. `SelectionInv` holds and the handler implements `PlainKeyStore` (`ImplementsStore`): Set and Add by two writers act atomically with their arguments, including the reallocating append, and every lookup answers from the list as it stood at its header copy. |
| fairstore | pass (about 90K) | 2 readers and 1 writer with fresh arguments under `FairSpec`. The handler implements `PlainKeyStore!FairSpec` (`ImplementsFairStore`): the abstract weak fairness of Apply, Snapshot and Finish holds through the mapping. A blocked reader is "selecting", so its snapshot stays enabled until `Unlock` admits it. |
| alias | violation | `Set(buf[:n])` with n ≥ 1, then a reader copies the header (len n), then a shorter `Set(buf[:m])` (m < n), then `Add(k)` appends in place into `buf`'s cell m+1, a cell the reader's copy still designates. (With n = 1, m = 0 this is the shortest trace; TLC with two workers may report another n.) The reader's snapshot changes while it scans. |
| roundtrip | violation | A handle with a nonce of exactly `SaltSize` bytes, authentic and listed, gets `errAEAD` instead of the payload. |

Why these bounds are enough:
- `MaxKeys` 4 with `BufCap` 2 and single-key calls makes the list pass through cap 1, 2 and 4, both in place and reallocated.
- Two readers are needed for starvation between readers.
- Two writers (refine run) are needed for writer exclusion and for two Set/Add calls to interleave with each other.

Every action and every disjunct of `Next` fires in some passing run. `SetPlatformKeysBuf` and `CallerWrite` fire in the live run.

Each property of a passing run has a mutant (PROJECT.json) that TLC must catch:

| Mutant | Bug it stands for |
|---|---|
| `GrowCapDoubleOnly` | growth that ignores a large append (breaks `TypeOK`) |
| `AppendInPlaceShifted` | off-by-one in the in-place copy |
| `ScanEndEarly` | the loop skips the last key (breaks `SelectionMatchesSnapshot` and `SelectionInv`) |
| `WriteUnlockNoWake` | lost wake-up |
| `RLockBarging` | readers ignore a pending writer |
| `WriteUnlockNoWake` (fairstore) | lost wake-up: a blocked reader never takes its snapshot |
| `AppendGrowNoCopy` | a reallocating append that drops the old keys (breaks `ImplementsStore` and `WriteTakesEffect`) |

## Findings

1. **Aliasing (spec 4.5/P5 vs platform.go:51, :60).** The spec says a reader's copy is never modified in place. That holds only if callers pass fresh argument lists and never write them again. `SetPlatformKeys(buf[:n]...)` followed by `AddPlatformKeys` writes into an array a concurrent reader is iterating over.
2. **Nonce length (spec P1 vs platform.go:93, :130).** A handle whose nonce is exactly `symKeySaltSize` bytes is accepted by the length check. It then fails with the plain error "cannot create AEAD" rather than recovering or returning InvalidData.

## Proofs (TLAPS)

All proofs are checked by `tlapm` with no open obligations.

**`TypeCorrect`: `Spec => []TypeInv`.** `TypeInv` is `TypeOK` strengthened with three facts:
- well-formed headers (`len <= cap`, and nil only when cap is 0);
- writer exclusion: at most one writer waits, a waiting writer has a call, and a pending append fits `MaxKeys`.

**`TypeSafety`: `Spec => []TypeOK`.** This follows from `TypeCorrect`, with no assumption on aliasing or caller writes.

Writer exclusion is needed because `Perform` must know that the append stays within `CapBound`. Its key lemma is `NewArrayIsFree`: the allocator never runs out. This is a cardinality argument over `Referenced`, and it rests on `Cardinality(Arrays) >= Cardinality(Readers) + 3`.

**`Isolation`: `~AliasSet /\ ~CallerMutates => (Spec => []SnapshotIsolation)`.** The inductive invariant is `IsolationInv`, made of:
- `TypeInv`;
- `NoBufPending`: no pending install of the caller's buffer;
- `CopyIsPrefix`: a scanning copy on the list's own array is no longer than the list;
- `SnapshotIsolation` itself.

`CopyIsPrefix` is what makes the in-place append safe (`InPlaceFrame`): it writes only cells above the list's length, and no copy reaches them. Fresh allocations (`FreshFrame`) write an array nobody references, so no copy sees them either.

The proof has two theorems:
- `IsolationInvariant`: `Spec => []IsolationInv`, under the same assumptions.
- `Isolation`, which follows from it.

TLC confirms `IsolationInv` in the safety run.

**`Selection`: `~AliasSet /\ ~CallerMutates => (Spec => []SelectionMatchesSnapshot)`** (in `PlainKeyStore_proofs.tla`). The inductive invariant is `SelectionInv`:
- `IsolationInv` is kept by `IsolationStep`.
- `ListHoldsKeys` is needed because the match test compares a cell with the sealing key. A cell must hold a key, never `NoKey`.
  - `WriteUnlockKeys` shows that Set writes its arguments.
  - An append writes its arguments and copies cells that already held keys.
- `ScanProgress` is the loop invariant:
  - `ScanMatchListed`: a match at `idx` puts the key in the snapshot. By isolation, the cell read is the snapshot's `idx`-th key.
  - `ScanEndUnlisted`: running past `len` means that no key of the snapshot matched.
  - Writer steps and `RLock` leave every reader's locals and its scan/idle status alone (`SelectionFrame`).

**`Refinement`: `~AliasSet /\ ~CallerMutates => (Spec => ImplementsStore)`.** It is proved in three parts:
- `InitRefines`: the initial state maps to an initial state of `PlainKeyStore`.
- `StepRefines`: under `SelectionInv` every step maps to an abstract step or a stutter, one lemma per kind of step:
  - `LockForRefines`: the abstract Invoke, with arguments in `Seq(Keys)`.
  - `WriteUnlockRefines`: Apply. `PerformContents` shows that `Contents(platformKeys)` after the section is the arguments for Set, and the old contents `\o` the arguments for Add. This holds for the in-place and the reallocating append alike.
  - `ReaderRefines`: Call, Snapshot, Finish, Unsupported or a stutter. Finish's outcome is allowed because of `ScanMatchListed` and `ScanEndUnlisted`.
- The invariant comes from the theorem `SelectionInvariant` (`Spec => []SelectionInv`, which the refine run also checks), and PTL combines the parts.

**`WriteEffect`: `Spec => WriteTakesEffect`**, with no assumption on aliasing or caller writes. This is the action property. A writer that leaves its write-locked section has made the list exactly its arguments (Set), or the old keys followed by its arguments (Add).
- `OnlyUnlockReturns`: only `WriteUnlock(w)` moves `w` from wait to idle.
- `PerformContents` gives the contents.
- The only invariant needed is `TypeInv`. The property speaks of a single step, and aliasing can change the list only between steps. The rest of the step is covered by `IsolationInv`.

TLC checks the same refinement on the refine run. With `AliasSet` on it is violated, as the alias finding predicts.

Every invariant and action property of a passing run is now stated by a theorem:

| Property | Theorem |
|---|---|
| `TypeOK` | `TypeSafety` |
| `SnapshotIsolation` | `Isolation` |
| `IsolationInv` | `IsolationInvariant` |
| `SelectionMatchesSnapshot` | `Selection` |
| `SelectionInv` | `SelectionInvariant` |
| `WriteTakesEffect` | `WriteEffect` |
| `ImplementsStore` | `Refinement` |

**Only model-checked:**
- the liveness properties (`CallsReturn`, `WritesComplete`) and `ImplementsFairStore`. The abstract fairness `WF_avars(...)` under the mapping needs ENABLED and temporal reasoning about fairness, which TLAPS cannot check here.
- the two violations. They are counterexamples on specific instances, which TLC finds and which need no proof.

## Not modelled

- `init` (:154-156) registers the handler with `secboot`, whose registry is not in the sources. Lines 1-40 are the license, the imports and the constant `platformName`.
- `keyData` decoding, `additionalData` serialisation, `deriveAESKey` (HKDF) and `hashAlg` live in other files of the package that are not under `src/`. Their effect is the `Parses` outcome of a handle and ideal crypto. A faithful model would need their sources.
- `src/tpm2/pin_test.go` drives a TPM simulator, and the code it tests is not in the sources. `src/unnamed/part_000` is stateless hex decoding.

## Plan for later work

1. Model `deriveAESKey` and the AAD encoding if their sources become available, replacing the `Parses` abstraction.
2. Check `ImplementsFairStore` on larger instances (two writers and two readers) once a disk-backed liveness check is affordable.
