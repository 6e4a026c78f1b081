CONSTANTS
  u1 = u1
  u2 = u2
  a1 = a1
  v0 = v0
  v1 = v1
  Envs <- EnvFixed
  Users = {u1, u2, u3}
  Addrs = {a1, a2}
  Values = {v0, v1}
  BadValue = bad
  Handlers = {h1, h2}
  MaxOps = 4
  MaxFaults = 2
  None = none
SPECIFICATION Spec
SYMMETRY Symmetry
INVARIANT StoreIsolatedAlways
