SPECIFICATION Spec
CONSTANTS
  Conns = {c1, c2}
  Secrets = {s1, s2}
  NPages = 2
  MaxTx = 3
  Salts = {"file", "own"}
  NoSalt = NoSalt
  OwnSalt <- NoOwnSalt
  FirstSecret = s1
  FirstSalt = "file"
  NoKey = NoKey
INVARIANTS CrashSafe CacheIsCurrent JournalHasOldKey
SYMMETRY Interchangeable
VIEW Live
