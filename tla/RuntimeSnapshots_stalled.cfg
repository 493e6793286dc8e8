CONSTANTS
  r1 = r1
  r2 = r2
  b1 = b1
  b2 = b2
  l1 = l1
  l2 = l2
  l3 = l3
  Roots = {r1, r2}
  Builders = {b1}
  Launchers = {l1, l3}
  RootOf <- Rooted
  Files = {"cli.js", "lib.js"}
  Entry = "cli.js"
  MaxGen = 1
  Before <- SameBuild
  MaxMishaps = 0
  None = None
SPECIFICATION Spec
INVARIANT LeasedIsTheBuild
CHECK_DEADLOCK FALSE
