\* Two requests and two operations over one record; two secrets of a key; two
\* applications with three token keys; two logins; two plugin calls over two applications;
\* two requesters and four scopes; two collections and two names.
SPECIFICATION AdministrationSpec
CONSTANTS
  Request = {r1, r2}
  Operation = {o1, o2}
  Record = {x}
  MaxSnapshots = 1
  MaxCaptures = 2
  KeyTtl = 2
  MaxKeyClock = 4
  MaxSecrets = 2
  MaxUses = 2
  App = {d, b}
  DefaultApp = d
  TokenTtl = 2
  MaxAuthClock = 4
  MaxTokenKeys = 3
  Login = {l1, l2}
  State = {s1, s2}
  Identity = {i}
  Email = {e, f}
  Call = {c1, c2}
  Scope = {d, b}
  DefaultScope = d
  MaxLeftHooks = 1
  Slug = {d, b}
  DefaultSlug = d
  Requester = {q1, q2}
  MaxScopes = 4
  Id = {n1, n2}
  Name = {"a", "b"}
  Field = {"t", "u"}
  Schemas <- SomeSchemas
  RecordId = {x}
  Caller = {o1}
SYMMETRY Symmetry
CHECK_DEADLOCK FALSE
INVARIANTS RowsHaveFiles CachedKeyIsRow StaleOnlyElsewhere TwoLoginsOneAccount AttachedOnce OneOpenScope IndexMatchesRows
