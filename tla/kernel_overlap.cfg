CONSTANTS
  Commands = {c1, c2}
  Proposable = {c1}
  Calls    = {k1, k2}
  Contents = {h1}
  EarlierEntities  = {}
  EarlierArtifacts = {}
  None     = None
  IndexLimit = 100
  Offered  = {"create_entity", "ingest_artifact", "propose_mutation"}
  Direct   = {"create_entity", "ingest_artifact", "reindex"}
  Overlap  = TRUE
  Faulty   = {"ledger", "queue"}
  MayCrash = FALSE
SPECIFICATION FairSpec
CHECK_DEADLOCK FALSE
INVARIANTS ReceiptProvesExecution ReceiptlessIsOrphaned TruthExplained
PROPERTIES ExecutedStaysExecuted LandedIsSettled
