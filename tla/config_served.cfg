SPECIFICATION Spec
CONSTANTS
  Replicas = {r1, r2}
  Admins = {a1, a2}
  Searches = {q1}
  title = title
  tags = tags
  lower = lower
  upper = upper
  term = term
  few = few
  many = many
  Settings <- MCSettings
  Low <- MCLow
  High <- MCHigh
  Default <- MCDefault
  Spellings <- MCSpellings
  Terms = {term}
  TermOf <- MCTermOf
  Words = {few, many}
  Files <- MCFiles
  Environment <- MCEnvironment
  Patches <- MCPatches
  NaN = NaN
  None = None
  MaxRequests = 2
SYMMETRY MCSymmetry
INVARIANT IInv
INVARIANT SameFileSameConfig
INVARIANT SearchesAreUniform
PROPERTY OnlyNamedSettingsChange
PROPERTY VersionsNeverRepeat
