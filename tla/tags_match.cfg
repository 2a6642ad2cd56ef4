CONSTANTS
  d1 = d1  d2 = d2  a = a  b = b  w1 = w1  w2 = w2  c1 = c1  c2 = c2  r1 = r1
  Docs = {d1, d2}
  Tags = {a, b}
  RowValues <- MCRows
  Writers = {w1, w2}
  Callers = {c1}
  Readers = {r1}
  Job = Job
  None = None
  Same = Same
  MaxGen = 2
  MaxWrites = 3
SPECIFICATION Spec
SYMMETRY Symmetry
INVARIANTS IInv ReadersSeeTheirRows
