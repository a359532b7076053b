SPECIFICATION Spec
CONSTANTS
  Labels <- MCLabels
  NoLabel = NoLabel
  Mibs <- MCMibs
  Prints <- MCPrints
  ccitt = ccitt
  iso = iso
  tab = tab
  ent = ent
  col = col
  val = val
  row = row
  arc = arc
  up = up
  down = down
  int = int
  str = str
  fix = fix
  ip = ip
  net = net
  ticks = ticks
  obj = obj
  cnt = cnt
  lim = lim
  lost = lost
CHECK_DEADLOCK FALSE
INVARIANTS NeverMisread LegibleResolves
