SPECIFICATION Spec
CONSTANTS
    create = create
    update = update
    ingest = ingest
    Commands = {create, update, ingest}
    Verb <- MCVerb
    Options = {{}, {"commandQueue", "dataDir"}}
    MaxRuns = 2
    MaxFaults = 1
INVARIANTS
    ReceiptsKeepTheirCommands
    QuietBackupVerifies
    RestoreConverges
    RefusalsAreReported
    AlteredStaysOut
CHECK_DEADLOCK FALSE
