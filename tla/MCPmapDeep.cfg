SPECIFICATION FairSpec
CONSTANTS
  p1 = p1 p2 = p2 p3 = p3 p4 = p4 p5 = p5 p6 = p6
  a1 = a1 a2 = a2
  Page = {p1, p2, p3, p4, p5}
  AS = {a1, a2}
  Depth = 3
  PTE2PT = 2
  VA <- VA3
  RefMod = 50
  BootList <- Boot5
  BootRef <- BootRefOnes
  MayDestroy <- Self
  NoPage = NoPage
  NoWalk = NoWalk
  NotFreeing = NotFreeing
INVARIANT NoLeak
PROPERTIES PageMapSpec CallsReturn
