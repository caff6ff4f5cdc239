\* Two calls on one official plugin in two applications.
SPECIFICATION PluginSpec
CONSTANTS
  Call = {c1, c2}
  Scope = {d, b}
  DefaultScope = d
  MaxLeftHooks = 0
CHECK_DEADLOCK FALSE
INVARIANTS EnabledIsAttached
