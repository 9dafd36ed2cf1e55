CONSTANTS
  k1 = k1  k2 = k2  r1 = r1  r2 = r2  w1 = w1  w2 = w2
  a1 = a1  a2 = a2  a3 = a3  a4 = a4  a5 = a5
  NoKey = NoKey
  NoArray = NoArray
  Keys <- MCKeys
  Readers <- MCReaders1
  Writers <- MCWriters1
  Arrays <- MCArrays
  Buf <- MCBuf
  BufCap = 2
  MaxArgs = 1
  MaxKeys = 4
  SaltSize = 1
  NonceLens = {2}
  Parses = {"ok"}
  AliasSet = FALSE
  CallerMutates = FALSE
SPECIFICATION Spec
VIEW MCView
SYMMETRY MCSymmetry
INVARIANTS TypeOK SnapshotIsolation SelectionMatchesSnapshot IsolationInv
PROPERTY WriteTakesEffect
