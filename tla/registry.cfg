SPECIFICATION Spec
CONSTANTS
  t1 = t1
  t2 = t2
  Threads <- MCThreads
  FirstHandle <- MCFirstHandle
  LastHandle <- MCLastHandle
SYMMETRY ThreadSymmetry
INVARIANTS TypeOK NoOrphans HandleIdentity
PROPERTY FreeSparesOthers
