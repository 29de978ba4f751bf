CONSTANTS
  o = o
  p = p
  q = q
  h = h
  i = i
  Plans = {1, 2}
  Options = {o, p, q}
  Enabled = {o}
  Hooks = {h, i}
  Copied = {h}
  PreHooks <- Pre
  PostHooks <- Post
  FirstPlan = 1
  FirstOptions = o
  MaxEdits = 3
  MaxFaults = 1
SPECIFICATION FairSpec
INVARIANT TypeOK
PROPERTIES DrainedFirst UpdatedFirst Finishes
