\* Two functions, a limit of two and a frame more; three items in a pool of two and at
\* most five steps; one topic over three connections and three POSTs; one webhook and
\* two events; four hooks.
SPECIFICATION ServicesSpec
CONSTANTS
  Function = {f, g}
  Frame = {x1, x2, x3}
  Write = {w1}
  Message = {m1}
  TargetFunction = f
  Settings <- SomeSettings
  MaxConcurrent = 2
  MaxRecursionDepth = 2
  MaxAttempts = 2
  NItems = 3
  Concurrency = 2
  MaxTries = 2
  MaxIterations = 1
  MaxSteps = 5
  Topic <- Topics
  CollectionOf <- Collections
  MaxSources = 3
  MaxClientIds = 2
  MaxPosts = 3
  Hook = {h1}
  Collection = {"post"}
  Verb = {"created", "updated"}
  MaxDispatches = 2
  Dispatch = {d1, d2}
  MaxHooks = 4
SYMMETRY Symmetry
CHECK_DEADLOCK FALSE
INVARIANTS ActiveExecutionsExact CapacityIsOffered ServerKnowsTopics NamedEventFires SkippedOnlyBySplice StepsBounded
PROPERTIES AbortStartsNothing
