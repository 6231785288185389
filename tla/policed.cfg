SPECIFICATION Spec
CONSTANTS
  None = None
  Policies <- MCPolicies
  Sessions <- MCSessions
  Settings <- MCSettings
  Requests <- MCRequests
  Commands = {1, 2}
  Offers <- MCOffers
  Held <- MCHeld
  Lost <- MCLost
INVARIANTS
  DecisionIsReference WritesAuthorized GatedWritesApproved DefaultsSeparateDuties
  RecordsFollowOwnerTruth ViewsAgree ContentWithheld
PROPERTIES
  CreationIsNotTold
CHECK_DEADLOCK FALSE
