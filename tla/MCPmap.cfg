SPECIFICATION Spec
CONSTANTS
  p1 = p1 p2 = p2 p3 = p3 p4 = p4 p5 = p5 p6 = p6
  a1 = a1 a2 = a2
  Page = {p1, p2, p3, p4, p5, p6}
  AS = {a1, a2}
  Depth = 2
  PTE2PT = 2
  VA <- VA2
  RefMod = 50
  BootList <- Boot6
  BootRef <- BootRefOnes
  MayDestroy <- Self
  NoPage = NoPage
  NoWalk = NoWalk
  NotFreeing = NotFreeing
SYMMETRY SymmetricAll
INVARIANTS TypeOK RefCounts FreeSound TreeSound NoLeak
PROPERTY PageMapSpec
