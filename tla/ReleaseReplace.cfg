SPECIFICATION Spec
CONSTANTS
  p1 = p1 p2 = p2 p3 = p3 r1 = r1 r2 = r2 a1 = a1 a2 = a2
  Pages = {p1, p2, p3}
  Restores = {r1, r2}
  Bundle <- TwoBundles
  NoRedis = {r1, r2}
  Questions = 3
  Tolerance = 34
  Assemblies = {a1, a2}
  FlavourOf <- FullNopic
  Others = 2
  Zimdump = FALSE
  None = None
INVARIANT PromotedWhole
CHECK_DEADLOCK FALSE
