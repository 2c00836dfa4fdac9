SPECIFICATION Spec
CONSTANTS
  Workers = {w1, w2}
  Configs = {env, new}
  Env = env
  Unset = Unset
  Accounts = {a1, a2}
  NoAccount = NoAccount
  MaxEvents = 3
SYMMETRY Symmetry
INVARIANT OneConfiguration
INVARIANT TakenOnce
PROPERTY AloneIsServed
