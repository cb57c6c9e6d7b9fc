SPECIFICATION Spec
CONSTANTS
  u1 = u1
  u2 = u2
  t1 = t1
  t2 = t2
  c1 = c1
  h1 = h1
  h2 = h2
  Users = {u1, u2}
  Telegrams = {t1}
  Codes = {c1}
  Handlers = {h1, h2}
  Runtimes = {"lambda", "both"}
  MaxCodes = 2
  None = None
SYMMETRY IdentitySymmetry
INVARIANTS TypeOK CodeLinksOnce ShownLinkWorks NoContainerStranded
