CONSTANTS
  Commands = {c1, c2}
  Proposable = {c1, c2}
  Calls    = {k1, k2}
  Contents = {h1}
  EarlierEntities  = {e1}
  EarlierArtifacts = {a1}
  None     = None
  IndexLimit = 100
  Offered  = {"update_entity", "link_evidence"}
  Direct   = {"create_entity", "ingest_artifact", "link_evidence"}
  Overlap  = FALSE
  Faulty   = {"canonical", "artifact", "index", "ledger"}
  MayCrash = TRUE
SPECIFICATION Spec
CHECK_DEADLOCK FALSE
SYMMETRY Symmetry
INVARIANTS TypeOK CommittedHasEvent AtMostOneReceipt PreviousIsDisplaced LineageIsChain LinkIsTraceable
PROPERTIES LawSpec
