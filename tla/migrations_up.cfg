SPECIFICATION Spec
CONSTANTS
  release = release
  upgrade = upgrade
  edited = edited
  baseline = baseline
  generations = generations
  changed = changed
  guards = guards
  Binaries = {release, upgrade, edited}
  Manifest <- MCManifest
  Definitions = {baseline, generations, changed, guards}
  Migrators = {m1, m2}
  Services = {s1}
  None = None
INVARIANT IInv
INVARIANT SchemaIsRecorded
INVARIANT OneHistory
INVARIANT NoFalseRefusal
PROPERTY UpEnds
