SPECIFICATION Spec
CONSTANTS
  t1 = t1
  t2 = t2
  ann = ann
  bob = bob
  c1 = c1
  Terminals = {t1, t2}
  Operators = {ann, bob}
  Commands = {c1}
  Settings <- MCSettings
  Offers <- MCOffers
  Foreign = 100
  MaxRuns = 3
  MaxWrites = 2
SYMMETRY Symmetry
CHECK_DEADLOCK FALSE
INVARIANT OwnProposalsAcknowledged
PROPERTY ExitTellsTruth
PROPERTY SnapshotGoesFirst
