SPECIFICATION Spec
CONSTANTS
  a1 = a1
  a2 = a2
  a3 = a3
  x1 = x1
  x2 = x2
  x3 = x3
  s1 = s1
  s2 = s2
  Nobody = Nobody
  Account = {a1, a2, a3}
  Address = {x1, x2, x3}
  Subject = {s1, s2}
  Change = {c1, c2}
  Entry = {e1, e2}
  Initial <- TwoAdmins
  Wish <- Wishes
  Busy = 2
  Claim <- Claims
SYMMETRY Symmetry
INVARIANTS AdminRemains LandsOnOwn
PROPERTY RoleChangeLands
