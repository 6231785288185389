--------------------------- MODULE CommandScripts ---------------------------
(***************************************************************************)
(* The subcommands of cli.ts, each as the steps its action takes in order.  *)
(* A step is a call and the capability a policed kernel asks for it; "none"  *)
(* is a call that no policy sees.  Every "kernel" step is getKernel(), every *)
(* "stores" step openStores() alone; the steps are in CommandLine.           *)
(***************************************************************************)
EXTENDS Sequences

Step(call, cap) == [call |-> call, cap |-> cap]
Unasked(call)   == Step(call, "none")

Kernel     == Unasked("kernel")
Stores     == Unasked("stores")
Policies   == Unasked("policies")
Backends   == Unasked("backends")
Input      == Unasked("input")
Inspects   == Step("inspect", "read_command")
Validates  == Step("validate", "validate_command")
Approves   == Step("approve", "approve_command")
Commits    == Step("commit", "commit_command")
Reads(cap) == Step("read", cap)

-----------------------------------------------------------------------------
(* Writing subcommands.                                                    *)
Init_        == <<Unasked("init")>>
Ingest       == <<Kernel, Input, Step("write", "commit_command")>>
EntityCreate == <<Kernel, Input, Step("write", "commit_command")>>
Link         == <<Kernel, Step("link", "commit_command")>>
Propose      == <<Kernel, Input, Step("propose", "propose_mutation")>>
Validate     == <<Kernel, Validates>>
Reject       == <<Kernel, Step("reject", "reject_command")>>

(* These two look at the command first; what follows depends on it.        *)
Commit  == <<Kernel, Inspects>>
Approve == <<Kernel, Inspects>>

(* The walk of commit: the steps its status still lacks.                   *)
Walk(status) ==
  CASE status = "proposed"  -> <<Validates, Approves, Commits>>
    [] status = "validated" -> <<Approves, Commits>>
    [] OTHER                -> <<Commits>>

-----------------------------------------------------------------------------
(* Destructive subcommands: a dry run is the action itself, which looks at  *)
(* the flag; otherwise a confirmation and a snapshot come first.            *)
destructiveCommand_SnapshotFirst(flags, dry, body) ==    \* Wrong: the snapshot is taken before the answer
  IF "dry-run" \in flags THEN dry
  ELSE <<Unasked("snapshot")>>
         \o (IF flags \cap {"yes", "force"} # {} THEN <<>> ELSE <<Unasked("confirm")>>) \o body

destructiveCommand(flags, dry, body) ==
  IF "dry-run" \in flags THEN dry
  ELSE (IF flags \cap {"yes", "force"} # {} THEN <<>> ELSE <<Unasked("confirm")>>)
         \o <<Unasked("snapshot")>> \o body

Compensate(flags) ==
  destructiveCommand(flags, <<Kernel>>, <<Kernel, Step("compensate", "compensate_command")>>)

IndexRebuild(flags) ==
  destructiveCommand(flags, <<Kernel>>, <<Kernel, Step("reindex", "commit_command")>>)

RebuildIndex(flags) ==
  destructiveCommand(flags, <<Stores, Reads("none")>>, <<Stores, Unasked("rebuild")>>)

Restore(flags) ==
  destructiveCommand(flags, <<Stores, Input>>, <<Stores, Input, Unasked("restore")>>)

Backup == <<Stores, Unasked("target"), Unasked("walk"), Unasked("save")>>

-----------------------------------------------------------------------------
(* Reading subcommands.                                                    *)
Find             == <<Kernel, Reads("discover_existence")>>
Inspect          == <<Kernel, Reads("read_owner_truth")>>
InspectCommand   == <<Kernel, Reads("read_command")>>
ListReceipts     == <<Kernel, Reads("read_receipts")>>
Versions         == <<Kernel, Reads("read_owner_truth")>>
ListCommands     == <<Kernel, Reads("read_command")>>
IndexStatus      == <<Kernel, Reads("read_derivative")>>
IndexExplain     == <<Kernel, Reads("explain_retrieval")>>
IndexStale       == <<Kernel, Reads("explain_retrieval")>>
Retrieve         == <<Kernel, Reads("read_derivative")>>
ExplainRetrieval == <<Kernel, Reads("read_derivative"), Reads("explain_retrieval")>>
Trace            == <<Kernel, Reads("trace_provenance")>>
Why              == <<Kernel, Reads("trace_provenance")>>
Lineage          == <<Kernel, Reads("trace_provenance")>>
TraceBundle      == <<Kernel, Reads("read_derivative"), Reads("trace_provenance")>>

(* resolve reads the stores beside the kernel it constructs.               *)
Resolve == <<Kernel, Reads("none")>>

(* The dry runs of the policy engine need the file and no cluster.         *)
PolicyExplain == <<Policies>>
PolicyTest    == <<Policies>>

Verify       == <<Stores, Unasked("health")>>
Doctor       == <<Stores, Unasked("health")>>
Stats        == <<Stores, Reads("none")>>
RebuildCheck == <<Stores, Reads("none")>>

StoresVerify    == <<Backends, Unasked("probe")>>
StoresMigrate   == <<Backends, Unasked("probe")>>
StoresList      == <<Backends>>
MigrationStatus == <<Unasked("database"), Unasked("probe")>>
VerifySchema    == <<Unasked("database"), Unasked("probe")>>

-----------------------------------------------------------------------------
(* What can be typed: a subcommand, the flags that matter here, the steps.  *)
Offer(asked, flags, script) == [asked |-> asked, flags |-> flags, script |-> script]
Plain(asked, scripts)       == {Offer(asked, {}, s) : s \in scripts}

Bypasses == {"self-approve", "accept-soft-duty-bypass"}
Guarding == {"yes", "force", "dry-run"}

ReadScripts ==
  {Find, Inspect, InspectCommand, ListReceipts, Versions, ListCommands, IndexStatus,
   IndexExplain, IndexStale, Retrieve, ExplainRetrieval, Trace, Why, Lineage, TraceBundle,
   Resolve, PolicyExplain, PolicyTest, Verify, Doctor, Stats, RebuildCheck, StoresVerify,
   StoresMigrate, StoresList, MigrationStatus, VerifySchema}

Subcommands ==
  UNION { Plain("init", {Init_}), Plain("write", {Ingest, EntityCreate}), Plain("link", {Link}),
          Plain("propose", {Propose}), Plain("validate", {Validate}), Plain("reject", {Reject}),
          Plain("read", ReadScripts),
          {Offer("commit", f, Commit)           : f \in SUBSET Bypasses},
          {Offer("approve", f, Approve)         : f \in SUBSET {"self-approve"}},
          {Offer("compensate", f, Compensate(f)) : f \in SUBSET Guarding},
          {Offer("reindex", f, IndexRebuild(f)) : f \in SUBSET Guarding},
          {Offer("rebuild", f, RebuildIndex(f)) : f \in SUBSET Guarding},
          {Offer("restore", f, Restore(f))      : f \in SUBSET Guarding},
          {Offer("backup", f, Backup)           : f \in SUBSET {"yes", "force"}} }
=============================================================================
