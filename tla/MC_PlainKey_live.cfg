CONSTANTS
  k1 = k1  k2 = k2  r1 = r1  r2 = r2  w1 = w1  w2 = w2
  a1 = a1  a2 = a2  a3 = a3  a4 = a4  a5 = a5
  NoKey = NoKey
  NoArray = NoArray
  Keys <- MCKeys1
  Readers <- MCReaders2
  Writers <- MCWriters1
  Arrays <- MCArrays
  Buf <- MCBuf
  BufCap = 1
  MaxArgs = 1
  MaxKeys = 1
  SaltSize = 1
  NonceLens = {2}
  Parses = {"ok"}
  AliasSet = TRUE
  CallerMutates = TRUE
SPECIFICATION FairSpec
VIEW MCView
PROPERTIES CallsReturn WritesComplete
