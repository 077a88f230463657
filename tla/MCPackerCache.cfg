SPECIFICATION FairSpec
CONSTANTS
  g1 = g1
  g2 = g2
  Outer = Outer
  Inner = Inner
  Broken = Broken
  nOuter = nOuter
  nInner = nInner
  nBroken = nBroken
  Procs = {g1, g2}
  NoProc = NoProc
  NoDesc = NoDesc
  Invalid = Invalid
  Descs <- MCDescs
  Valid = {Outer, Inner}
  Names = {nOuter, nInner, nBroken}
  NameOf <- MCNameOf
  Children <- MCChildren
  Ops = {"Pack", "Unpack", "Validate"}
  MaxLookups = 1
INVARIANTS
  TypeOK
  NoMapRace
  CacheSound
  StoredOnce
  CodesUnlocked
PROPERTIES
  RefinesSchemaLookup
  CallsReturn
