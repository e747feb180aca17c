SPECIFICATION Spec
CONSTANTS
  Keys = {k1, k2}
  Users = {u1}
  Tokens = {t1, t2}
  Servers = {s1}
  Owner = owner
  Requests = {r1, r2}
  Housekeeping = hk
  None = none
  MaxUses = 1
  Families = {{"keys"}, {"users", "lists"}, {"users", "sessions"}, {"owner", "expiry"}}
INVARIANTS TypeOK ReachesDisk HandedOutKeySurvives GoneStaysGone NeverQuietlyWidened
SYMMETRY Symmetry
