SPECIFICATION Spec
CONSTANTS
  p1 = p1
  p2 = p2
  name = name
  attributes = attributes
  value1 = value1
  value2 = value2
  h1 = h1
  h2 = h2
  a1 = a1
  a2 = a2
  s1 = s1
  s2 = s2
  Processes = {p1, p2}
  Ids = {e1}
  Fields = {name, attributes}
  Values = {value1, value2}
  Files = {f1}
  Hashes = {h1, h2}
  Artifacts = {a1, a2}
  Sources = {s1, s2}
  None = None
  MaxVersion = 3
  MaxRecords = 2
  MaxCalls = 3
  MaxFaults = 1
SYMMETRY Symmetry
INVARIANT BytesBeforeMetadata
PROPERTY ImplementsContract
CHECK_DEADLOCK FALSE
