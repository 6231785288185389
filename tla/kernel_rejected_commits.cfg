CONSTANTS
  Commands = {c1}
  Proposable = {c1}
  Calls    = {k1}
  Contents = {h1}
  EarlierEntities  = {}
  EarlierArtifacts = {}
  None     = None
  IndexLimit = 100
  Offered  = {"create_entity"}
  Direct   = {}
  Overlap  = TRUE
  Faulty   = {}
  MayCrash = FALSE
SPECIFICATION Spec
CHECK_DEADLOCK FALSE
PROPERTIES RejectedIsTerminal
