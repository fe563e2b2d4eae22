\* pktline: two values of a digit, lengths up to 15, of which 13 are allowed.
\* multibase: bytes of 4 values, an alphabet of 3 characters, one more of a byte
\* and two runes, of which one ends in the byte of '1'; keys of 2 bytes.
CONSTANTS
  Base = 2
  MaxPktLen = 13
  Lengths = {0, 1, 4, 9, 10}
  MaxFrames = 3
  Foreign <- MCForeign
  ByteBase = 4
  CharBase = 3
  Codes = 4
  Runes = 6
  KeySize = 2
  KeyPrefix <- MCKeyPrefix
  MaxData = 5
  MaxText = 5
  ReposDir <- MCReposDir
  FileSystems <- MCFileSystems
  Repos <- MCRepos
  MaxSteps = 12
SPECIFICATION PureSpec
INVARIANTS
  ReadsWhatWasSent
  CleanEnd
  DecodeAgrees
  Base58RoundTrip
  Base58Canonical
  KeyReadExact
  ServesInside
\* The reader is done, or the call or request was made.
CHECK_DEADLOCK FALSE
