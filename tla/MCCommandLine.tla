---------------------------- MODULE MCCommandLine ----------------------------
(***************************************************************************)
(* Instance of CommandLine for TLC.                                        *)
(***************************************************************************)
EXTENDS CommandLine, TLC

CONSTANTS t1, t2, ann, bob, c1

Symmetry == Permutations({ann, bob})

Capabilities ==
  {"read_command", "validate_command", "approve_command", "commit_command", "propose_mutation",
   "reject_command", "compensate_command", "discover_existence", "read_owner_truth",
   "read_receipts", "read_derivative", "explain_retrieval", "trace_provenance"}

Of(policies, may, backend) == [file |-> policies, may |-> may, backend |-> backend]

(* No file, a broken one, one without rules, and rules for a principal who  *)
(* may do everything, all but commit, and all but look at commands.         *)
MCSettings ==
  {Of("absent", {}, "unknown"), Of("absent", {}, "postgres"),
   Of("broken", {}, "local"), Of("inert", {}, "local"), Of("rules", Capabilities, "local"),
   Of("rules", Capabilities \ {"commit_command"}, "local"),
   Of("rules", Capabilities \ {"read_command", "read_derivative"}, "local")}

Destructive(asked, Script(_)) == {Offer(asked, f, Script(f)) : f \in {{}, {"yes"}, {"dry-run"}}}

(* A second terminal decides about commands beside the first, which may do  *)
(* everything.                                                             *)
Decisions ==
  UNION { Plain("validate", {Validate}), Plain("reject", {Reject}),
          {Offer("commit", f, Commit) : f \in SUBSET Bypasses},
          {Offer("approve", f, Approve) : f \in SUBSET {"self-approve"}} }

Everything ==
  UNION { Decisions,
          Plain("init", {Init_}), Plain("write", {Ingest, EntityCreate}), Plain("link", {Link}),
          Plain("propose", {Propose}),
          Destructive("compensate", Compensate), Destructive("reindex", IndexRebuild),
          Destructive("rebuild", RebuildIndex), Destructive("restore", Restore),
          {Offer("backup", f, Backup) : f \in SUBSET {"force"}},
          Plain("read", ReadScripts) }

MCOffers == [t \in {t1, t2} |-> IF t = t1 THEN Everything ELSE Decisions]
=============================================================================
