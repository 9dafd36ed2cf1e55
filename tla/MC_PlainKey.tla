----------------------------- MODULE MC_PlainKey -----------------------------
(* Small instances of PlainKey for TLC.                                    *)
EXTENDS PlainKey, TLC

CONSTANTS k1, k2, r1, r2, w1, w2, a1, a2, a3, a4, a5

MCKeys == {k1, k2}
MCKeys1 == {k1}
MCReaders2 == {r1, r2}
MCReaders1 == {r1}
MCWriters1 == {w1}
MCWriters2 == {w1, w2}
MCArrays == {a1, a2, a3, a4, a5}
MCBuf == a1

\* Heap arrays nobody references are garbage: their cells do not matter.
MCView == <<platformKeys, [a \in Referenced \cap Arrays |-> mem[a]], wpc, wop, rpc,
            input, keys, idx, snapKeys, listed, result>>

\* Keys and reader threads are interchangeable.
MCSymmetry == Permutations(MCKeys) \cup Permutations(MCReaders2)
=============================================================================
