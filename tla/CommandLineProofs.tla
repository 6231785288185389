-------------------------- MODULE CommandLineProofs --------------------------
(***************************************************************************)
(* Proofs about the command line: what its invocations promise whatever      *)
(* runs beside them, for any number of terminals, operators and commands.    *)
(***************************************************************************)
EXTENDS CommandLine, FiniteSetTheorems, TLAPS

-----------------------------------------------------------------------------
(* Types.                                                                  *)
CallNames ==
  {"kernel", "stores", "policies", "backends", "database", "probe", "input", "init", "read", "health",
   "propose", "inspect", "validate", "approve", "reject", "write", "link", "commit", "compensate",
   "reindex", "rebuild", "restore", "confirm", "snapshot", "target", "walk", "save"}
Capabilities ==
  {"none", "read_command", "validate_command", "approve_command", "commit_command", "propose_mutation",
   "reject_command", "compensate_command", "discover_existence", "read_owner_truth",
   "read_receipts", "read_derivative", "explain_retrieval", "trace_provenance"}
Asked ==
  {"none", "init", "write", "link", "propose", "validate", "reject", "read", "commit", "approve",
   "compensate", "reindex", "rebuild", "restore", "backup"}
Flags    == Bypasses \cup Guarding
Statuses == {"none", "proposed", "validated", "approved", "rejected", "committed", "compensated"}

Steps     == [call : CallNames, cap : Capabilities]
Names     == Operators \cup {"nobody"}
Signature == [who : Names, flags : SUBSET Flags, walked : BOOLEAN, looked : BOOLEAN]
Command   == [status : Statuses, proposedBy : Names, approved : Signature,
              committed : Signature, record : Nat]
Copy      == [truth : SUBSET Nat, receipts : SUBSET Nat]
Shell     == [phase : {"idle", "running"}, asked : Asked, todo : Seq(Steps), who : Names,
              flags : SUBSET Flags, command : Commands \cup {"none"}, walked : BOOLEAN,
              looked : BOOLEAN, before : Copy, saved : Copy]

RunningTerminals == {t \in Terminals : shell[t].phase = "running"}

Typed ==
  /\ queue \in [Commands -> Command]
  /\ shell \in [Terminals -> Shell]
  /\ \A t \in RunningTerminals : shell[t].command \in Commands /\ shell[t].todo # <<>>
  /\ truth \in SUBSET Nat /\ receipts \in SUBSET Nat
  /\ file \in [exists : BOOLEAN, truth : SUBSET Nat, receipts : SUBSET Nat]

(* What is left of a script, by the subcommand.  A call that writes to the  *)
(* owner stores is the last one of the subcommand of its name; the two that *)
(* look first have one of a few forms; a prompt comes first, and a snapshot  *)
(* behind it.                                                              *)
Destructive == {"compensate", "reindex", "rebuild", "restore"}
Preparing   == {"kernel", "stores", "input", "confirm", "snapshot", "read"}
Before      == {Commit, <<Inspects>>}
Walking     == {Walk("proposed"), Walk("validated")}

Rest(asked, flags, todo) ==
  /\ asked = "approve" => todo \in Before \cup {<<Approves>>}
  /\ asked = "commit"  => todo \in Before \cup Walking \cup {<<Commits>>} /\ "dry-run" \notin flags
  /\ asked \notin {"approve", "commit"} =>
       \A i \in 1 .. Len(todo) : todo[i].call \notin {"inspect", "approve", "commit"}
  /\ \A i \in 1 .. Len(todo) : todo[i].call \in OwnerWriters =>
       i = Len(todo) /\ todo[i].call = asked /\ "dry-run" \notin flags
  /\ asked \in Destructive =>
       \A i \in 1 .. Len(todo) : todo[i].call \in Preparing \cup {asked}
  /\ asked \in Destructive /\ "dry-run" \notin flags => todo[Len(todo)].call = asked
  /\ \A i \in 1 .. Len(todo) : todo[i].call = "confirm" =>
       /\ i = 1 /\ todo[i].cap = "none" /\ "dry-run" \notin flags
       /\ 2 \in 1 .. Len(todo) /\ todo[2].call = "snapshot"

Scripted == \A t \in RunningTerminals : Rest(shell[t].asked, shell[t].flags, shell[t].todo)

(* A look that succeeded still holds when the approval and the commit that   *)
(* follow it are written.                                                   *)
Enforced == setting.file # "absent"

Walks(t) == shell[t].asked = "commit" /\ (shell[t].walked \/ shell[t].todo \in Walking)

LookHolds ==
  \A t \in RunningTerminals :
    /\ shell[t].looked => /\ shell[t].asked \in {"approve", "commit"}
                          /\ checkSelfApproval(t, queue[shell[t].command].proposedBy)
    /\ Walks(t) /\ "self-approve" \in shell[t].flags => "accept-soft-duty-bypass" \in shell[t].flags

NewIsEmpty == \A c \in Commands : queue[c].status = "none" => queue[c] = NoCommand

(* Of the processes that write to the owner stores one is at work at a time,  *)
(* and nothing moved the stores since it got to work, or since its snapshot. *)
WritesOwners(t) == Holds(shell[t])

OneWriter   == \A t, u \in Terminals : WritesOwners(t) /\ WritesOwners(u) => t = u
StillBefore == \A t \in Terminals : WritesOwners(t) => shell[t].before = Records
StillSaved ==
  \A t \in RunningTerminals :
    shell[t].asked \in Destructive /\ "dry-run" \notin shell[t].flags =>
      \/ \E i \in 1 .. Len(shell[t].todo) : shell[t].todo[i].call = "snapshot"
      \/ shell[t].saved = Records

(* The mutations of this cluster are numbered without a gap, and every copy  *)
(* of them is of what was there.                                           *)
All == truth \cup receipts

Numbered ==
  /\ IsFiniteSet(All)
  /\ \A n \in All : n = Foreign \/ n <= Cardinality(All)

CopiesAreKnown ==
  /\ file.truth \cup file.receipts \subseteq All \cup {Foreign}
  /\ \A t \in Terminals : shell[t].saved.truth \cup shell[t].saved.receipts \subseteq All

BaseInv   == Typed /\ Scripted /\ Numbered /\ CopiesAreKnown
DutyInv   == BaseInv /\ NewIsEmpty /\ (Enforced => LookHolds /\ OwnProposalsAcknowledged)
RecordInv == BaseInv /\ OneWriter /\ StillBefore /\ StillSaved

-----------------------------------------------------------------------------
(* Scripts.                                                                *)

LEMMA StepsAreTyped ==
  /\ Kernel \in Steps /\ Stores \in Steps /\ Policies \in Steps /\ Backends \in Steps
  /\ Input \in Steps /\ Inspects \in Steps /\ Validates \in Steps /\ Approves \in Steps
  /\ Commits \in Steps
  /\ \A call \in CallNames, cap \in Capabilities : Step(call, cap) \in Steps
<1>1. \A call \in CallNames, cap \in Capabilities : Step(call, cap) \in Steps
  BY DEF Step, Steps
<1>2. Kernel \in Steps /\ Stores \in Steps /\ Policies \in Steps /\ Backends \in Steps /\ Input \in Steps
  BY <1>1 DEF Unasked, Kernel, Stores, Policies, Backends, Input, CallNames, Capabilities
<1>3. Inspects \in Steps /\ Validates \in Steps /\ Approves \in Steps /\ Commits \in Steps
  BY <1>1 DEF Inspects, Validates, Approves, Commits, CallNames, Capabilities
<1> QED
  BY <1>1, <1>2, <1>3

(* The walks that are longer than a commit.                                *)
LEMMA WalkingForms ==
  Walking = {<<Validates, Approves, Commits>>, <<Approves, Commits>>}
BY DEF Walking, Walk

(* What follows the first step of a script is the rest of a script.         *)
LEMMA TailRests ==
  ASSUME NEW asked \in Asked, NEW flags, NEW todo \in Seq(Steps),
         Rest(asked, flags, todo), todo # <<>>, Tail(todo) # <<>>
  PROVE  Tail(todo) \in Seq(Steps) /\ Rest(asked, flags, Tail(todo))
<1>1. /\ Tail(todo) \in Seq(Steps) /\ Len(Tail(todo)) = Len(todo) - 1 /\ Len(todo) \in Nat
      /\ \A i \in 1 .. Len(Tail(todo)) : i + 1 \in 1 .. Len(todo) /\ Tail(todo)[i] = todo[i + 1]
  OBVIOUS
<1>2. Len(Tail(todo)) \in Nat \ {0}
  BY <1>1
<1>a. \A s \in Steps : Len(<<s>>) = 1
  OBVIOUS
<1>b. Len(todo) # 1
  BY <1>1, <1>2
<1>3. asked = "approve" => Tail(todo) \in Before \cup {<<Approves>>}
  <2>1. SUFFICES ASSUME asked = "approve" PROVE Tail(todo) = <<Inspects>>
    BY DEF Before
  <2>2. todo = <<Kernel, Inspects>>
    BY <2>1, <1>a, <1>b, StepsAreTyped DEF Before, Commit, Rest
  <2>3. Kernel \in Steps /\ Inspects \in Steps
    BY StepsAreTyped
  <2> QED
    BY <2>2, <2>3
<1>4. asked = "commit" => Tail(todo) \in Before \cup Walking \cup {<<Commits>>}
  <2>1. SUFFICES ASSUME asked = "commit" PROVE Tail(todo) \in {<<Inspects>>, <<Approves, Commits>>, <<Commits>>}
    BY WalkingForms DEF Before
  <2>2. todo \in {<<Kernel, Inspects>>, <<Validates, Approves, Commits>>, <<Approves, Commits>>}
    BY <2>1, <1>a, <1>b, StepsAreTyped, WalkingForms DEF Rest, Before, Commit
  <2>3. Kernel \in Steps /\ Inspects \in Steps /\ Validates \in Steps /\ Approves \in Steps /\ Commits \in Steps
    BY StepsAreTyped
  <2>4. todo = <<Kernel, Inspects>> => Tail(todo) = <<Inspects>>
    BY <2>3
  <2>5. todo = <<Validates, Approves, Commits>> => Tail(todo) = <<Approves, Commits>>
    BY <2>3
  <2>6. todo = <<Approves, Commits>> => Tail(todo) = <<Commits>>
    BY <2>3
  <2> QED
    BY <2>2, <2>4, <2>5, <2>6
<1>5. asked \notin {"approve", "commit"} =>
        \A i \in 1 .. Len(Tail(todo)) : Tail(todo)[i].call \notin {"inspect", "approve", "commit"}
  BY <1>1 DEF Rest
<1>6. \A i \in 1 .. Len(Tail(todo)) : Tail(todo)[i].call \in OwnerWriters =>
        i = Len(Tail(todo)) /\ Tail(todo)[i].call = asked /\ "dry-run" \notin flags
  <2>1. SUFFICES ASSUME NEW i \in 1 .. Len(Tail(todo)), Tail(todo)[i].call \in OwnerWriters
                 PROVE  i = Len(Tail(todo)) /\ Tail(todo)[i].call = asked /\ "dry-run" \notin flags
    OBVIOUS
  <2>2. i + 1 \in 1 .. Len(todo) /\ todo[i + 1] = Tail(todo)[i]
    BY <1>1
  <2>3. i + 1 = Len(todo) /\ todo[i + 1].call = asked /\ "dry-run" \notin flags
    BY <2>1, <2>2 DEF Rest
  <2> QED
    BY <2>2, <2>3, <1>1
<1>7. asked \in Destructive => \A i \in 1 .. Len(Tail(todo)) : Tail(todo)[i].call \in Preparing \cup {asked}
  BY <1>1 DEF Rest
<1>8. asked \in Destructive /\ "dry-run" \notin flags => Tail(todo)[Len(Tail(todo))].call = asked
  <2>1. Tail(todo)[Len(Tail(todo))] = todo[Len(todo)]
    BY <1>1, <1>2
  <2> QED
    BY <2>1 DEF Rest
<1>9. \A i \in 1 .. Len(Tail(todo)) : Tail(todo)[i].call # "confirm"
  <2>1. \A i \in 1 .. Len(Tail(todo)) : i + 1 # 1
    OBVIOUS
  <2> QED
    BY <1>1, <2>1 DEF Rest
<1> QED
  BY <1>1, <1>3, <1>4, <1>5, <1>6, <1>7, <1>8, <1>9 DEF Rest

(* Steps that write nothing to the owner stores and decide nothing; those    *)
(* that a destructive subcommand may take before it acts.                   *)
QuietSteps == {s \in Steps : s.call \notin OwnerWriters \cup {"inspect", "approve", "confirm"}}
PrepSteps  == {s \in Steps : s.call \in Preparing \ {"confirm"}}

LEMMA PrepIsQuiet == PrepSteps \subseteq QuietSteps
BY DEF PrepSteps, QuietSteps, Preparing, OwnerWriters

LEMMA QuietRests ==
  ASSUME NEW asked \in Asked \ ({"commit", "approve"} \cup Destructive), NEW flags, NEW todo \in Seq(QuietSteps)
  PROVE  Rest(asked, flags, todo)
<1>1. \A i \in 1 .. Len(todo) : todo[i] \in QuietSteps
  OBVIOUS
<1>2. \A i \in 1 .. Len(todo) : todo[i].call \notin OwnerWriters \cup {"inspect", "approve", "commit", "confirm"}
  BY <1>1 DEF QuietSteps, OwnerWriters
<1> QED
  BY <1>2 DEF Rest

LEMMA DryRunRests ==
  ASSUME NEW asked \in Destructive, NEW flags, "dry-run" \in flags, NEW todo \in Seq(PrepSteps)
  PROVE  Rest(asked, flags, todo)
<1>1. \A i \in 1 .. Len(todo) : todo[i] \in PrepSteps
  OBVIOUS
<1>2. \A i \in 1 .. Len(todo) : todo[i].call \in Preparing /\ todo[i].call # "confirm"
  BY <1>1 DEF PrepSteps
<1>3. Preparing \cap (OwnerWriters \cup {"inspect", "approve"}) = {}
  BY DEF Preparing, OwnerWriters
<1>4. asked \notin {"approve", "commit"} /\ "commit" \in OwnerWriters
  BY DEF Destructive, OwnerWriters
<1> QED
  BY <1>2, <1>3, <1>4 DEF Rest

(* Preparations, then the write that the subcommand is named for.           *)
LEMMA WriteRests ==
  ASSUME NEW asked \in OwnerWriters \ {"commit"}, NEW flags, "dry-run" \notin flags,
         NEW prep \in Seq(PrepSteps), NEW last \in Steps, last.call = asked
  PROVE  Append(prep, last) \in Seq(Steps) /\ Rest(asked, flags, Append(prep, last))
<1> DEFINE todo == Append(prep, last)
<1>1. prep \in Seq(Steps)
  BY DEF PrepSteps
<1>2. todo \in Seq(Steps) /\ Len(todo) = Len(prep) + 1 /\ Len(prep) \in Nat /\ todo[Len(prep) + 1] = last
      /\ \A i \in 1 .. Len(prep) : todo[i] = prep[i] /\ prep[i] \in PrepSteps
  BY <1>1
<1>3. \A i \in 1 .. Len(todo) : todo[i].call \in Preparing \ {"confirm"} \/ (i = Len(todo) /\ todo[i].call = asked)
  BY <1>2 DEF PrepSteps
<1>4. todo[Len(todo)].call = asked
  BY <1>2
<1>5. Preparing \cap (OwnerWriters \cup {"inspect", "approve", "commit"}) = {}
  BY DEF Preparing, OwnerWriters
<1>6. asked \notin {"inspect", "approve", "commit", "confirm"}
  BY DEF OwnerWriters
<1> HIDE DEF todo
<1>7. /\ \A i \in 1 .. Len(todo) : todo[i].call \notin {"inspect", "approve", "commit"}
      /\ \A i \in 1 .. Len(todo) : todo[i].call \in OwnerWriters => i = Len(todo) /\ todo[i].call = asked
      /\ \A i \in 1 .. Len(todo) : todo[i].call \in Preparing \cup {asked} /\ todo[i].call # "confirm"
  BY <1>3, <1>5, <1>6
<1>8. Rest(asked, flags, todo)
  BY <1>4, <1>6, <1>7 DEF Rest
<1> QED
  BY <1>2, <1>8 DEF todo

LEMMA ReadScriptsAreQuiet ==
  \A script \in ReadScripts : script \in Seq(QuietSteps) /\ script # <<>>
<1> DEFINE Q(x) == x \in QuietSteps
<1>1. \A call \in {"kernel", "stores", "policies", "backends", "database", "probe", "read", "health"},
         cap \in Capabilities : Step(call, cap) \in QuietSteps
  BY DEF Step, Steps, QuietSteps, CallNames, OwnerWriters
<1>2. /\ Q(Kernel) /\ Q(Stores) /\ Q(Policies) /\ Q(Backends)
      /\ Q(Unasked("database")) /\ Q(Unasked("probe")) /\ Q(Unasked("health"))
  BY <1>1 DEF Kernel, Stores, Policies, Backends, Unasked, Capabilities
<1>3. \A cap \in Capabilities : Q(Reads(cap))
  BY <1>1 DEF Reads
<1>4. /\ Q(Reads("discover_existence")) /\ Q(Reads("read_owner_truth")) /\ Q(Reads("read_command"))
      /\ Q(Reads("read_receipts")) /\ Q(Reads("read_derivative")) /\ Q(Reads("explain_retrieval"))
      /\ Q(Reads("trace_provenance")) /\ Q(Reads("none"))
  BY <1>3 DEF Capabilities
<1>5. /\ \A a \in QuietSteps : <<a>> \in Seq(QuietSteps) /\ <<a>> # <<>>
      /\ \A a, b \in QuietSteps : <<a, b>> \in Seq(QuietSteps) /\ <<a, b>> # <<>>
      /\ \A a, b, c \in QuietSteps : <<a, b, c>> \in Seq(QuietSteps) /\ <<a, b, c>> # <<>>
  OBVIOUS
<1> DEFINE OK(script) == script \in Seq(QuietSteps) /\ script # <<>>
<1>6. OK(Find) /\ OK(Inspect) /\ OK(InspectCommand) /\ OK(ListReceipts) /\ OK(Versions) /\ OK(ListCommands)
  BY <1>2, <1>4, <1>5 DEF Find, Inspect, InspectCommand, ListReceipts, Versions, ListCommands
<1>7. OK(IndexStatus) /\ OK(IndexExplain) /\ OK(IndexStale) /\ OK(Retrieve) /\ OK(ExplainRetrieval)
  BY <1>2, <1>4, <1>5 DEF IndexStatus, IndexExplain, IndexStale, Retrieve, ExplainRetrieval
<1>8. OK(Trace) /\ OK(Why) /\ OK(Lineage) /\ OK(TraceBundle) /\ OK(Resolve) /\ OK(PolicyExplain) /\ OK(PolicyTest)
  BY <1>2, <1>4, <1>5 DEF Trace, Why, Lineage, TraceBundle, Resolve, PolicyExplain, PolicyTest
<1>9. /\ OK(Verify) /\ OK(Doctor) /\ OK(Stats) /\ OK(RebuildCheck) /\ OK(StoresVerify) /\ OK(StoresMigrate)
      /\ OK(StoresList) /\ OK(MigrationStatus) /\ OK(VerifySchema)
  BY <1>2, <1>4, <1>5 DEF Verify, Doctor, Stats, RebuildCheck, StoresVerify, StoresMigrate, StoresList,
     MigrationStatus, VerifySchema
<1> QED
  BY <1>6, <1>7, <1>8, <1>9 DEF ReadScripts

(* A destructive subcommand, dry or not.                                   *)
Sound(asked, flags, script) ==
  /\ script \in Seq(Steps) /\ script # <<>> /\ Rest(asked, flags, script)
  /\ asked \in Destructive /\ "dry-run" \notin flags =>
       \E i \in 1 .. Len(script) : script[i].call = "snapshot"

LEMMA ConcatOfOne ==
  ASSUME NEW S, NEW p \in Seq(S), NEW x \in S
  PROVE  Len(p) \in Nat /\ Len(p \o <<x>>) = Len(p) + 1 /\ (p \o <<x>>)[Len(p) + 1] = x
OBVIOUS

(* A prompt before a script that begins with its snapshot.                 *)
LEMMA PromptRests ==
  ASSUME NEW asked \in Destructive, NEW flags, "dry-run" \notin flags, NEW todo \in Seq(Steps),
         todo # <<>>, todo[1].call = "snapshot", Rest(asked, flags, todo),
         \A i \in 1 .. Len(todo) : todo[i].call # "confirm"
  PROVE  LET script == <<Unasked("confirm")>> \o todo
         IN Sound(asked, flags, script)
<1> DEFINE script == <<Unasked("confirm")>> \o todo
<1>1. Unasked("confirm") \in Steps /\ Unasked("confirm").call = "confirm" /\ Unasked("confirm").cap = "none"
  BY DEF Unasked, Step, Steps, CallNames, Capabilities
<1>2. \A x \in Steps : LET q == <<x>> \o todo
                      IN /\ q \in Seq(Steps) /\ q # <<>> /\ Len(q) = Len(todo) + 1 /\ q[1] = x
                         /\ \A i \in 1 .. Len(q) : i = 1 \/ (i - 1 \in 1 .. Len(todo) /\ q[i] = todo[i - 1])
  OBVIOUS
<1>3. /\ script \in Seq(Steps) /\ script # <<>> /\ Len(script) = Len(todo) + 1 /\ script[1] = Unasked("confirm")
      /\ \A i \in 1 .. Len(script) : i = 1 \/ (i - 1 \in 1 .. Len(todo) /\ script[i] = todo[i - 1])
  BY <1>1, <1>2
<1>4. Len(todo) \in Nat /\ 1 \in 1 .. Len(todo) /\ Len(todo) >= 1
  OBVIOUS
<1> HIDE DEF script
<1>5. 2 \in 1 .. Len(script) /\ script[2] = todo[1]
  <2>1. 2 \in 1 .. Len(script) /\ 2 - 1 = 1
    BY <1>3, <1>4
  <2> QED
    BY <1>3, <2>1
<1>6. asked \notin {"approve", "commit"} /\ "confirm" \notin OwnerWriters /\ "confirm" \in Preparing
  BY DEF Destructive, OwnerWriters, Preparing
<1>7. \A i \in 1 .. Len(script) : script[i].call \notin {"inspect", "approve", "commit"}
  BY <1>1, <1>3, <1>6 DEF Rest
<1>8. \A i \in 1 .. Len(script) : script[i].call \in OwnerWriters => i = Len(script) /\ script[i].call = asked
  <2>1. SUFFICES ASSUME NEW i \in 1 .. Len(script), script[i].call \in OwnerWriters
                 PROVE  i = Len(script) /\ script[i].call = asked
    OBVIOUS
  <2>2. i - 1 \in 1 .. Len(todo) /\ script[i] = todo[i - 1]
    BY <1>1, <1>3, <1>6, <2>1
  <2>3. i - 1 = Len(todo) /\ todo[i - 1].call = asked
    BY <2>1, <2>2 DEF Rest
  <2> QED
    BY <1>3, <1>4, <2>2, <2>3
<1>9. \A i \in 1 .. Len(script) : script[i].call \in Preparing \cup {asked}
  BY <1>1, <1>3, <1>6 DEF Rest
<1>10. script[Len(script)].call = asked
  <2>1. Len(script) \in 1 .. Len(script) /\ Len(script) # 1 /\ Len(script) - 1 = Len(todo)
    BY <1>3, <1>4
  <2>2. script[Len(script)] = todo[Len(todo)]
    BY <1>3, <2>1
  <2> QED
    BY <2>2 DEF Rest
<1>11. \A i \in 1 .. Len(script) : script[i].call = "confirm" => i = 1 /\ script[i].cap = "none"
  BY <1>1, <1>3
<1>12. script[2].call = "snapshot"
  BY <1>5
<1>13. Rest(asked, flags, script)
  BY <1>5, <1>6, <1>7, <1>8, <1>9, <1>10, <1>11, <1>12 DEF Rest
<1> QED
  BY <1>3, <1>5, <1>12, <1>13 DEF Sound, script

LEMMA DestructiveIsSound ==
  ASSUME NEW asked \in Destructive, NEW flags, NEW dry \in Seq(PrepSteps), dry # <<>>,
         NEW body, NEW front \in Seq(PrepSteps), NEW last \in Steps, last.call = asked,
         body = Append(front, last)
  PROVE  Sound(asked, flags, destructiveCommand(flags, dry, body))
<1> DEFINE snapshot == Unasked("snapshot")
           prep     == <<snapshot>> \o front
           plain    == Append(prep, last)
<1>1. dry \in Seq(Steps) /\ PrepSteps \subseteq Steps /\ front \in Seq(Steps)
  BY DEF PrepSteps
<1>2. CASE "dry-run" \in flags
  BY <1>1, <1>2, DryRunRests DEF Sound, destructiveCommand
<1>3. CASE "dry-run" \notin flags
  <2>1. /\ snapshot \in PrepSteps /\ snapshot.call = "snapshot" /\ snapshot \in Steps
        /\ Unasked("confirm") \in Steps
    BY DEF Unasked, Step, PrepSteps, Steps, CallNames, Capabilities, Preparing
  <2> HIDE DEF snapshot
  <2>2. \A x \in PrepSteps : LET q == <<x>> \o front
                             IN /\ q \in Seq(PrepSteps) /\ Len(q) = Len(front) + 1 /\ q[1] = x
                                /\ \A i \in 1 .. Len(q) : q[i] \in PrepSteps
    OBVIOUS
  <2>3. prep \in Seq(PrepSteps) /\ Len(prep) = Len(front) + 1 /\ prep[1] = snapshot /\ Len(front) \in Nat
        /\ \A i \in 1 .. Len(prep) : prep[i] \in PrepSteps
    BY <2>1, <2>2
  <2>4. asked \in OwnerWriters \ {"commit"} /\ asked # "confirm"
    BY DEF Destructive, OwnerWriters
  <2> HIDE DEF prep
  <2>5. plain \in Seq(Steps) /\ Rest(asked, flags, plain)
    BY <1>3, <2>3, <2>4, WriteRests
  <2>6. /\ Len(plain) = Len(prep) + 1 /\ plain[Len(plain)] = last
        /\ \A i \in 1 .. Len(prep) : plain[i] = prep[i]
    <3>1. prep \in Seq(Steps)
      BY <1>1, <2>3
    <3> QED
      BY <3>1
  <2>7. plain # <<>> /\ 1 \in 1 .. Len(plain) /\ plain[1].call = "snapshot"
    <3>1. 1 \in 1 .. Len(prep) /\ Len(prep) \in Nat /\ Len(plain) = Len(prep) + 1
      BY <2>3, <2>6
    <3>2. plain[1] = snapshot
      BY <2>3, <2>6, <3>1
    <3> QED
      BY <2>1, <2>5, <3>1, <3>2
  <2>8. \A i \in 1 .. Len(plain) : plain[i].call # "confirm"
    <3>1. \A i \in 1 .. Len(plain) : i \in 1 .. Len(prep) \/ i = Len(plain)
      BY <2>3, <2>6
    <3>2. \A x \in PrepSteps : x.call # "confirm"
      BY DEF PrepSteps
    <3> QED
      BY <2>3, <2>4, <2>6, <3>1, <3>2
  <2>9. <<snapshot>> \o body = plain
    BY <1>1, <2>1 DEF prep
  <2>10. CASE flags \cap {"yes", "force"} # {}
    <3>1. destructiveCommand(flags, dry, body) = (<<>> \o <<snapshot>>) \o body
      BY <1>3, <2>10 DEF destructiveCommand, snapshot
    <3>2. <<>> \o <<snapshot>> = <<snapshot>>
      BY <2>1
    <3> HIDE DEF plain
    <3>3. destructiveCommand(flags, dry, body) = plain
      BY <2>9, <3>1, <3>2
    <3> QED
      BY <2>5, <2>7, <3>3 DEF Sound
  <2>11. CASE flags \cap {"yes", "force"} = {}
    <3>1. destructiveCommand(flags, dry, body) = (<<Unasked("confirm")>> \o <<snapshot>>) \o body
      BY <1>3, <2>11 DEF destructiveCommand, snapshot
    <3>2. body \in Seq(Steps)
      BY <1>1
    <3>3. \A x, y \in Steps, q \in Seq(Steps) : (<<x>> \o <<y>>) \o q = <<x>> \o (<<y>> \o q)
      OBVIOUS
    <3> HIDE DEF plain
    <3>4. destructiveCommand(flags, dry, body) = <<Unasked("confirm")>> \o plain
      BY <2>1, <2>9, <3>1, <3>2, <3>3
    <3> QED
      BY <1>3, <2>5, <2>7, <2>8, <3>4, PromptRests
  <2> QED
    BY <2>10, <2>11
<1> QED
  BY <1>2, <1>3

LEMMA OffersAreSound ==
  ASSUME NEW t \in Terminals, NEW offer \in Offers[t]
  PROVE  /\ offer.asked \in Asked \ {"none"} /\ offer.flags \in SUBSET Flags
         /\ Sound(offer.asked, offer.flags, offer.script)
         /\ offer.asked \in {"approve", "commit"} => offer.script = Commit
<1>1. offer \in Subcommands
  BY CommandLineAssumption
<1> DEFINE Goal(o) == /\ o.asked \in Asked \ {"none"} /\ o.flags \in SUBSET Flags
                      /\ Sound(o.asked, o.flags, o.script)
                      /\ o.asked \in {"approve", "commit"} => o.script = Commit
<1>2. \A asked \in Asked \ ({"none", "commit", "approve"} \cup Destructive), flags \in SUBSET Flags, script \in Seq(QuietSteps) :
        script # <<>> => Goal(Offer(asked, flags, script))
  <2>1. QuietSteps \subseteq Steps
    BY DEF QuietSteps
  <2> QED
    BY <2>1, QuietRests DEF Sound, Offer
<1>3. /\ Kernel \in PrepSteps /\ Input \in PrepSteps /\ Stores \in PrepSteps /\ Reads("none") \in PrepSteps
      /\ Kernel \in QuietSteps /\ Input \in QuietSteps /\ Stores \in QuietSteps
  <2>1. \A call \in Preparing \ {"confirm"} : Step(call, "none") \in PrepSteps
    BY DEF Preparing, PrepSteps, Steps, Step, CallNames, Capabilities
  <2> QED
    BY <2>1, PrepIsQuiet DEF Kernel, Input, Stores, Reads, Unasked, Preparing
<1>4. \A call \in CallNames \ (OwnerWriters \cup {"inspect", "approve", "confirm"}), cap \in Capabilities :
        Step(call, cap) \in QuietSteps
  BY DEF QuietSteps, Steps, Step
<1> HIDE DEF Goal
<1>a. /\ \A a \in QuietSteps : <<a>> \in Seq(QuietSteps) /\ <<a>> # <<>>
      /\ \A a, b \in QuietSteps : <<a, b>> \in Seq(QuietSteps) /\ <<a, b>> # <<>>
      /\ \A a, b, c \in QuietSteps : <<a, b, c>> \in Seq(QuietSteps) /\ <<a, b, c>> # <<>>
  OBVIOUS
<1>b. \A asked \in {"init", "propose", "validate", "reject", "read"}, scripts \in SUBSET (Seq(QuietSteps) \ {<<>>}) :
        \A o \in Plain(asked, scripts) : Goal(o)
  BY <1>2 DEF Plain, Asked, Destructive
<1>5. \A o \in Plain("init", {Init_}) : Goal(o)
  <2>1. Unasked("init") \in QuietSteps
    BY <1>4 DEF Unasked, CallNames, OwnerWriters, Capabilities
  <2> QED
    BY <2>1, <1>3, <1>a, <1>b DEF Init_
<1>6. \A o \in Plain("propose", {Propose}) : Goal(o)
  <2>1. Step("propose", "propose_mutation") \in QuietSteps
    BY <1>4 DEF CallNames, OwnerWriters, Capabilities
  <2> QED
    BY <2>1, <1>3, <1>a, <1>b DEF Propose
<1>7. \A o \in Plain("validate", {Validate}) : Goal(o)
  <2>1. Validates \in QuietSteps
    BY <1>4 DEF Validates, CallNames, OwnerWriters, Capabilities
  <2> QED
    BY <2>1, <1>3, <1>a, <1>b DEF Validate
<1>8. \A o \in Plain("reject", {Reject}) : Goal(o)
  <2>1. Step("reject", "reject_command") \in QuietSteps
    BY <1>4 DEF CallNames, OwnerWriters, Capabilities
  <2> QED
    BY <2>1, <1>3, <1>a, <1>b DEF Reject
<1>9. \A o \in Plain("read", ReadScripts) : Goal(o)
  BY <1>b, ReadScriptsAreQuiet
<1>10. ASSUME NEW flags \in SUBSET {"yes", "force"} PROVE Goal(Offer("backup", flags, Backup))
  <2>1. Unasked("target") \in QuietSteps /\ Unasked("walk") \in QuietSteps /\ Unasked("save") \in QuietSteps
    BY <1>4 DEF Unasked, CallNames, OwnerWriters, Capabilities
  <2>2. Backup \in Seq(QuietSteps) /\ Backup # <<>>
    BY <2>1, <1>3 DEF Backup
  <2> QED
    BY <2>2, <1>2 DEF Asked, Destructive, Flags, Guarding
<1>11. ASSUME NEW asked \in {"write", "link"}, NEW script, NEW front \in Seq(PrepSteps),
              script = Append(front, Step(asked, "commit_command"))
       PROVE  Goal(Offer(asked, {}, script))
  <2>1. Step(asked, "commit_command") \in Steps /\ Step(asked, "commit_command").call = asked
    BY DEF Steps, Step, CallNames, Capabilities
  <2>a. asked \in OwnerWriters \ {"commit"} /\ "dry-run" \notin {}
    BY DEF OwnerWriters
  <2> DEFINE last == Step(asked, "commit_command")
  <2> HIDE DEF last
  <2>b. Append(front, last) \in Seq(Steps) /\ Rest(asked, {}, Append(front, last))
    BY <2>a, <2>1, WriteRests DEF last
  <2>2. script \in Seq(Steps) /\ Rest(asked, {}, script)
    BY <1>11, <2>b DEF last
  <2>3. script # <<>>
    BY <1>11 DEF PrepSteps
  <2> QED
    BY <2>2, <2>3 DEF Goal, Sound, Offer, Asked, Destructive
<1>12. \A o \in Plain("write", {Ingest, EntityCreate}) : Goal(o)
  <2>1. <<Kernel, Input>> \in Seq(PrepSteps)
    BY <1>3
  <2>2. <<Kernel, Input, Step("write", "commit_command")>> = Append(<<Kernel, Input>>, Step("write", "commit_command"))
    OBVIOUS
  <2> QED
    BY <2>1, <2>2, <1>11 DEF Plain, Ingest, EntityCreate
<1>13. \A o \in Plain("link", {Link}) : Goal(o)
  <2>1. <<Kernel>> \in Seq(PrepSteps)
    BY <1>3
  <2>2. <<Kernel, Step("link", "commit_command")>> = Append(<<Kernel>>, Step("link", "commit_command"))
    OBVIOUS
  <2> QED
    BY <2>1, <2>2, <1>11 DEF Plain, Link
<1>14. ASSUME NEW asked \in {"approve", "commit"}, NEW flags \in SUBSET Bypasses
       PROVE  Goal(Offer(asked, flags, Commit))
  <2>1. Kernel \in Steps /\ Inspects \in Steps /\ Kernel.call = "kernel" /\ Inspects.call = "inspect"
    BY StepsAreTyped DEF Kernel, Inspects, Unasked, Step
  <2>2. Commit \in Seq(Steps) /\ Commit # <<>> /\ Len(Commit) = 2 /\ Commit[1] = Kernel /\ Commit[2] = Inspects
    BY <2>1 DEF Commit
  <2>3. \A i \in 1 .. Len(Commit) : Commit[i].call \notin OwnerWriters \cup {"confirm"}
    BY <2>1, <2>2 DEF OwnerWriters
  <2>4. Rest(asked, flags, Commit)
    BY <2>3 DEF Rest, Before, Destructive, Bypasses
  <2> QED
    BY <2>2, <2>4 DEF Goal, Sound, Offer, Asked, Flags, Destructive
<1>15. ASSUME NEW asked \in Destructive, NEW flags \in SUBSET Guarding, NEW script, Sound(asked, flags, script)
       PROVE  Goal(Offer(asked, flags, script))
  BY <1>15 DEF Goal, Offer, Asked, Flags, Destructive
<1>16. ASSUME NEW flags \in SUBSET Guarding
       PROVE  /\ Goal(Offer("compensate", flags, Compensate(flags)))
              /\ Goal(Offer("reindex", flags, IndexRebuild(flags)))
  <2>1. <<Kernel>> \in Seq(PrepSteps) /\ <<Kernel>> # <<>>
    BY <1>3
  <2>2. \A s \in Steps : <<Kernel, s>> = Append(<<Kernel>>, s)
    OBVIOUS
  <2>3. Step("compensate", "compensate_command") \in Steps /\ Step("reindex", "commit_command") \in Steps
    BY DEF Steps, Step, CallNames, Capabilities
  <2>4. Step("compensate", "compensate_command").call = "compensate" /\ Step("reindex", "commit_command").call = "reindex"
    BY DEF Step
  <2>5. "compensate" \in Destructive /\ "reindex" \in Destructive
    BY DEF Destructive
  <2>6. Sound("compensate", flags, Compensate(flags))
    BY <2>1, <2>2, <2>3, <2>4, <2>5, DestructiveIsSound DEF Compensate
  <2>7. Sound("reindex", flags, IndexRebuild(flags))
    BY <2>1, <2>2, <2>3, <2>4, <2>5, DestructiveIsSound DEF IndexRebuild
  <2> QED
    BY <2>5, <2>6, <2>7, <1>15
<1>17. ASSUME NEW flags \in SUBSET Guarding
       PROVE  /\ Goal(Offer("rebuild", flags, RebuildIndex(flags)))
              /\ Goal(Offer("restore", flags, Restore(flags)))
  <2>1. /\ <<Stores>> \in Seq(PrepSteps) /\ <<Stores, Reads("none")>> \in Seq(PrepSteps)
        /\ <<Stores, Input>> \in Seq(PrepSteps) /\ <<Stores, Reads("none")>> # <<>> /\ <<Stores, Input>> # <<>>
    BY <1>3
  <2>2. /\ <<Stores, Unasked("rebuild")>> = Append(<<Stores>>, Unasked("rebuild"))
        /\ <<Stores, Input, Unasked("restore")>> = Append(<<Stores, Input>>, Unasked("restore"))
    OBVIOUS
  <2>3. Unasked("rebuild") \in Steps /\ Unasked("restore") \in Steps
    BY DEF Steps, Step, Unasked, CallNames, Capabilities
  <2>4. Unasked("rebuild").call = "rebuild" /\ Unasked("restore").call = "restore"
    BY DEF Step, Unasked
  <2>5. "rebuild" \in Destructive /\ "restore" \in Destructive
    BY DEF Destructive
  <2>6. Sound("rebuild", flags, RebuildIndex(flags))
    BY <2>1, <2>2, <2>3, <2>4, <2>5, DestructiveIsSound DEF RebuildIndex
  <2>7. Sound("restore", flags, Restore(flags))
    BY <2>1, <2>2, <2>3, <2>4, <2>5, DestructiveIsSound DEF Restore
  <2> QED
    BY <2>5, <2>6, <2>7, <1>15
<1>18. \A o \in {Offer("commit", f, Commit) : f \in SUBSET Bypasses} \cup {Offer("approve", f, Approve) : f \in SUBSET {"self-approve"}} :
         Goal(o)
  BY <1>14 DEF Bypasses, Commit, Approve
<1>19. Goal(offer)
  <2> DEFINE Plains == UNION { Plain("init", {Init_}), Plain("write", {Ingest, EntityCreate}), Plain("link", {Link}),
                               Plain("propose", {Propose}), Plain("validate", {Validate}),
                               Plain("reject", {Reject}), Plain("read", ReadScripts) }
  <2>1. \A o \in Plains : Goal(o)
    BY <1>5, <1>6, <1>7, <1>8, <1>9, <1>12, <1>13
  <2>2. \/ offer \in Plains
        \/ offer \in {Offer("commit", f, Commit) : f \in SUBSET Bypasses}
        \/ offer \in {Offer("approve", f, Approve) : f \in SUBSET {"self-approve"}}
        \/ \E f \in SUBSET Guarding : \/ offer = Offer("compensate", f, Compensate(f))
                                     \/ offer = Offer("reindex", f, IndexRebuild(f))
                                     \/ offer = Offer("rebuild", f, RebuildIndex(f))
                                     \/ offer = Offer("restore", f, Restore(f))
        \/ \E f \in SUBSET {"yes", "force"} : offer = Offer("backup", f, Backup)
    BY <1>1 DEF Subcommands
  <2> QED
    BY <2>1, <2>2, <1>10, <1>16, <1>17, <1>18
<1> QED
  BY <1>19 DEF Goal

-----------------------------------------------------------------------------
(* What a step does, in the terms of the invariants.                       *)

Ends(t) == shell' = [shell EXCEPT ![t] = Idle]

(* What a process keeps in mind on its way to its next step: the answer at a  *)
(* prompt, a snapshot, an approval.                                        *)
Minds(t, before, saved, walked) ==
  /\ before \in {shell[t].before, Records} /\ saved \in {shell[t].saved, Records}
  /\ walked \in {shell[t].walked, TRUE}
  /\ Head(shell[t].todo).call = "confirm" => before = Records /\ Alone(t)
  /\ before # shell[t].before => Head(shell[t].todo).call = "confirm"
  /\ Head(shell[t].todo).call = "snapshot" => saved = Records
  /\ walked # shell[t].walked => Head(shell[t].todo).call = "approve"

Minding(t, before, saved, walked) ==
  [shell[t] EXCEPT !.before = before, !.saved = saved, !.walked = walked]

(* The process ends, or goes on to its next step.                          *)
Goes(t) ==
  /\ shell[t].phase = "running"
  /\ \/ Ends(t)
     \/ \E before, saved, walked :
          /\ Tail(shell[t].todo) # <<>>
          /\ Minds(t, before, saved, walked)
          /\ shell' = [shell EXCEPT ![t] =
                         [Minding(t, before, saved, walked) EXCEPT !.todo = Tail(@)]]

(* It looks at the command, and goes on as far as that lets it.             *)
Looks(t) ==
  /\ shell[t].phase = "running" /\ shell[t].todo # <<>> /\ Head(shell[t].todo).call = "inspect"
  /\ \/ Ends(t)
     \/ \E look \in BOOLEAN :
          \/ /\ shell[t].asked = "commit"
             /\ checkSelfApproval(t, Seen(t, look).proposedBy) /\ Acknowledged(t, Seen(t, look).status)
             /\ shell' = [shell EXCEPT ![t] =
                            [shell[t] EXCEPT !.todo = Walk(Seen(t, look).status), !.looked = look]]
          \/ /\ shell[t].asked = "approve"
             /\ checkSelfApproval(t, Seen(t, look).proposedBy)
             /\ shell' = [shell EXCEPT ![t] = [shell[t] EXCEPT !.todo = <<Approves>>, !.looked = look]]

Typing(offer, who, c) ==
  [Idle EXCEPT !.phase = "running", !.asked = offer.asked, !.todo = offer.script,
               !.who = who, !.flags = offer.flags, !.command = c,
               !.before = IF offer.asked \in OwnerWriters THEN Records ELSE NoRecords]

Begins(t) ==
  /\ shell[t].phase # "running"
  /\ \E offer \in Offers[t], c \in Commands, who \in Names :
       /\ Holds(Typing(offer, who, c)) => Alone(t)
       /\ shell' = [shell EXCEPT ![t] = Typing(offer, who, c)]

(* One command is decided, by the call at hand.                            *)
QueueMoves(t) ==
  \/ queue' = queue
  \/ \E new \in Command :
       LET c == shell[t].command
       IN /\ queue' = [queue EXCEPT ![c] = new]
          /\ new.status # "none"
          /\ \/ new.proposedBy = queue[c].proposedBy
             \/ queue[c].status = "none" /\ ~InHand(c) /\ new.approved = queue[c].approved
                  /\ new.committed = queue[c].committed
          /\ \/ new.approved = queue[c].approved
             \/ /\ At(t, "approve")
                /\ new.approved = Signed(t, FALSE)
          /\ \/ new.committed = queue[c].committed
             \/ At(t, "commit") /\ new.committed = Signed(t, shell[t].walked)

(* The owner stores change in the last step of a subcommand only.           *)
StoresMove(t) ==
  \/ UNCHANGED <<truth, receipts>>
  \/ /\ Ends(t) /\ WritesOwners(t)
     /\ truth' \in SUBSET Nat /\ receipts' \in SUBSET Nat /\ All \subseteq All'
     /\ \/ Fresh <= MaxWrites /\ All' \subseteq All \cup {Fresh}
        \/ All' \subseteq All \cup file.truth \cup file.receipts

FileMoves(t) ==
  \/ file' = file
  \/ file' = [exists |-> TRUE, truth |-> shell[t].saved.truth, receipts |-> shell[t].saved.receipts]

Moves(t) == /\ UNCHANGED setting /\ QueueMoves(t) /\ StoresMove(t) /\ FileMoves(t)
            /\ \/ Goes(t)
               \/ Looks(t) /\ UNCHANGED <<queue, truth, receipts, file>>
               \/ Begins(t) /\ UNCHANGED <<queue, truth, receipts, file>>

LEMMA ExitGoes ==
  ASSUME NEW t \in Terminals, shell[t].phase = "running"
  PROVE  /\ \A code : Exit(t, code) => Goes(t) /\ Ends(t) /\ UNCHANGED setting
         /\ \A error : Throws(t, error) => Goes(t) /\ Ends(t) /\ UNCHANGED setting
         /\ Killed(t) => Goes(t) /\ Ends(t) /\ UNCHANGED setting
BY DEF Exit, Throws, Killed, Continue, Become, Goes, Ends

LEMMA FollowGoes ==
  ASSUME NEW t \in Terminals, shell \in [Terminals -> Shell], shell[t].phase = "running",
         NEW before, NEW saved, NEW walked, Minds(t, before, saved, walked),
         Follow(t, Minding(t, before, saved, walked))
  PROVE  Goes(t) /\ UNCHANGED setting
<1> DEFINE sh == Minding(t, before, saved, walked)
<1>1. sh.todo = shell[t].todo
  BY DEF Shell, Minding
<1>2. Follow(t, sh)
  OBVIOUS
<1> HIDE DEF sh
<1>3. CASE Tail(sh.todo) = <<>>
  BY <1>2, <1>3, ExitGoes DEF Follow
<1>4. CASE Tail(sh.todo) # <<>>
  <2>1. shell' = [shell EXCEPT ![t] = [sh EXCEPT !.todo = Tail(@)]] /\ setting' = setting
    BY <1>2, <1>4 DEF Follow, Continue, Become
  <2>2. Tail(shell[t].todo) # <<>>
    BY <1>1, <1>4
  <2>3. shell' = [shell EXCEPT ![t] = [Minding(t, before, saved, walked) EXCEPT !.todo = Tail(@)]]
    BY <2>1 DEF sh
  <2>4. \E b, s, w : /\ Tail(shell[t].todo) # <<>>
                     /\ Minds(t, b, s, w)
                     /\ shell' = [shell EXCEPT ![t] = [Minding(t, b, s, w) EXCEPT !.todo = Tail(@)]]
    <3> HIDE DEF Minds, Minding
    <3> QED
      BY <2>2, <2>3, Zenon
  <2> QED
    BY <2>1, <2>4 DEF Goes
<1> QED
  BY <1>3, <1>4

(* The calls that leave their process with nothing more in mind.            *)
Plainly(t) == Head(shell[t].todo).call \notin {"snapshot", "confirm"}

LEMMA ProceedGoes ==
  ASSUME NEW t \in Terminals, shell \in [Terminals -> Shell], shell[t].phase = "running",
         Plainly(t), Proceed(t)
  PROVE  Goes(t) /\ UNCHANGED setting
<1>1. shell[t] \in Shell
  OBVIOUS
<1>2. shell[t] = Minding(t, shell[t].before, shell[t].saved, shell[t].walked)
  BY <1>1 DEF Shell, Minding
<1>3. Follow(t, Minding(t, shell[t].before, shell[t].saved, shell[t].walked))
  BY <1>2 DEF Proceed
<1>4. Minds(t, shell[t].before, shell[t].saved, shell[t].walked)
  BY DEF Minds, Plainly
<1> QED
  BY <1>3, <1>4, FollowGoes

(* A call that writes to the owner stores is the last step of its subcommand. *)
LEMMA WriterIsLast ==
  ASSUME Typed, Scripted, NEW t \in Terminals, NEW call \in OwnerWriters, At(t, call)
  PROVE  /\ shell[t].phase = "running" /\ shell[t].asked = call /\ WritesOwners(t)
         /\ "dry-run" \notin shell[t].flags
         /\ Tail(shell[t].todo) = <<>> /\ Len(shell[t].todo) = 1
<1>1. shell[t] \in Shell /\ shell[t].todo \in Seq(Steps)
  BY DEF Typed, Shell
<1>2. shell[t].phase = "running" /\ shell[t].todo # <<>> /\ Head(shell[t].todo).call = call
  BY DEF At
<1>3. Rest(shell[t].asked, shell[t].flags, shell[t].todo)
  BY <1>2 DEF Scripted, RunningTerminals
<1>4. 1 \in 1 .. Len(shell[t].todo) /\ shell[t].todo[1] = Head(shell[t].todo)
  BY <1>1, <1>2
<1>5. 1 = Len(shell[t].todo) /\ shell[t].todo[1].call = shell[t].asked /\ "dry-run" \notin shell[t].flags
  BY <1>2, <1>3, <1>4 DEF Rest
<1>6. Tail(shell[t].todo) = <<>>
  <2>1. \A s \in Seq(Steps) : Len(s) = 0 => s = <<>>
    OBVIOUS
  <2>2. Tail(shell[t].todo) \in Seq(Steps) /\ Len(Tail(shell[t].todo)) = 0
    BY <1>1, <1>2, <1>5
  <2> QED
    BY <2>1, <2>2
<1>7. WritesOwners(t)
  <2>1. call # "confirm"
    BY DEF OwnerWriters
  <2> QED
    BY <1>2, <1>4, <1>5, <2>1 DEF WritesOwners, Holds
<1> QED
  BY <1>2, <1>4, <1>5, <1>6, <1>7

LEMMA WriterEnds ==
  ASSUME Typed, Scripted, NEW t \in Terminals, NEW call \in OwnerWriters, At(t, call)
  PROVE  /\ Proceed(t) => Exit(t, 0) /\ Goes(t) /\ Ends(t) /\ UNCHANGED setting
         /\ \A error : Throws(t, error) => Goes(t) /\ Ends(t) /\ UNCHANGED setting
         /\ Killed(t) => Goes(t) /\ Ends(t) /\ UNCHANGED setting
<1>1. shell[t].phase = "running" /\ Tail(shell[t].todo) = <<>>
  BY WriterIsLast
<1>2. Proceed(t) => Exit(t, 0)
  BY <1>1 DEF Proceed, Follow
<1> QED
  BY <1>1, <1>2, ExitGoes

(* Steps that leave the cluster alone.                                     *)
LEMMA CallerRuns ==
  ASSUME NEW t \in Terminals, NEW call, At(t, call)
  PROVE  shell[t].phase = "running" /\ shell[t].todo # <<>> /\ Head(shell[t].todo).call = call
BY DEF At

Still == UNCHANGED <<queue, truth, receipts, file>>

LEMMA StillMoves ==
  ASSUME NEW t \in Terminals, Still
  PROVE  QueueMoves(t) /\ StoresMove(t) /\ FileMoves(t)
BY DEF Still, QueueMoves, StoresMove, FileMoves

LEMMA OpeningMoves ==
  ASSUME Typed, NEW t \in Terminals,
         \/ init(t) \/ openStores(t) \/ getKernel(t) \/ resolvePolicyDryRunInputs(t)
         \/ backendConfigFromEnv(t) \/ NeedsDatabase(t) \/ Probe(t) \/ safeJsonParse(t)
  PROVE  Moves(t)
<1>1. shell \in [Terminals -> Shell]
  BY DEF Typed
<1> DEFINE On == \/ \E code : Exit(t, code)
                 \/ \E error : Throws(t, error)
                 \/ Proceed(t) /\ Plainly(t)
<1>2. shell[t].phase = "running" /\ On => Goes(t) /\ UNCHANGED setting
  BY <1>1, ExitGoes, ProceedGoes
<1> HIDE DEF On
<1>3. SUFFICES Goes(t) /\ UNCHANGED setting /\ Still
  BY <1>3, StillMoves DEF Moves
<1>4. CASE init(t)
  <2>1. shell[t].phase = "running" /\ On /\ Still
    BY <1>4, CallerRuns DEF init, On, Still, Plainly
  <2> QED
    BY <2>1, <1>2
<1>5. CASE openStores(t)
  <2>1. shell[t].phase = "running" /\ On /\ Still
    BY <1>5, CallerRuns DEF openStores, On, Still, Plainly
  <2> QED
    BY <2>1, <1>2
<1>6. CASE getKernel(t)
  <2>1. shell[t].phase = "running" /\ On /\ Still
    BY <1>6, CallerRuns DEF getKernel, loadPolicyConfig, On, Still, cluster, Plainly
  <2> QED
    BY <2>1, <1>2
<1>7. CASE resolvePolicyDryRunInputs(t)
  <2>1. shell[t].phase = "running" /\ On /\ Still
    BY <1>7, CallerRuns DEF resolvePolicyDryRunInputs, loadPolicyConfig, On, Still, cluster, Plainly
  <2> QED
    BY <2>1, <1>2
<1>8. CASE backendConfigFromEnv(t)
  <2>1. shell[t].phase = "running" /\ On /\ Still
    BY <1>8, CallerRuns DEF backendConfigFromEnv, On, Still, cluster, Plainly
  <2> QED
    BY <2>1, <1>2
<1>9. CASE NeedsDatabase(t)
  <2>1. shell[t].phase = "running" /\ On /\ Still
    BY <1>9, CallerRuns DEF NeedsDatabase, On, Still, cluster, Plainly
  <2> QED
    BY <2>1, <1>2
<1>10. CASE Probe(t)
  <2>1. shell[t].phase = "running" /\ On /\ Still
    BY <1>10, CallerRuns DEF Probe, On, Still, cluster, Plainly
  <2> QED
    BY <2>1, <1>2
<1>11. CASE safeJsonParse(t)
  <2>1. shell[t].phase = "running" /\ On /\ Still
    BY <1>11, CallerRuns DEF safeJsonParse, On, Still, cluster, Plainly
  <2> QED
    BY <2>1, <1>2
<1> QED
  BY <1>4, <1>5, <1>6, <1>7, <1>8, <1>9, <1>10, <1>11

LEMMA IdlingMoves ==
  ASSUME Typed, NEW t \in Terminals,
         \/ Read(t) \/ Health(t) \/ Denied(t) \/ Confirm(t) \/ Kill(t)
         \/ backup_Target(t) \/ backup_Walk(t) \/ backup_Save(t) \/ takeAutoSnapshot(t)
  PROVE  Moves(t)
<1>1. shell \in [Terminals -> Shell] /\ shell[t] \in Shell
  BY DEF Typed
<1> DEFINE On == \/ \E code : Exit(t, code)
                 \/ \E error : Throws(t, error)
                 \/ Killed(t)
                 \/ Proceed(t) /\ Plainly(t)
<1>2. shell[t].phase = "running" /\ On => Goes(t) /\ UNCHANGED setting
  BY <1>1, ExitGoes, ProceedGoes
<1> HIDE DEF On
<1>3. Goes(t) /\ UNCHANGED setting /\ Still => Moves(t)
  BY StillMoves DEF Moves
<1>4. CASE Read(t)
  <2>1. shell[t].phase = "running" /\ On /\ Still
    BY <1>4, CallerRuns DEF Read, On, Still, cluster, Plainly
  <2> QED
    BY <2>1, <1>2, <1>3
<1>5. CASE Health(t)
  <2>1. shell[t].phase = "running" /\ On /\ Still
    BY <1>5, CallerRuns DEF Health, On, Still, cluster, Plainly
  <2> QED
    BY <2>1, <1>2, <1>3
<1>6. CASE Denied(t)
  <2>1. shell[t].phase = "running" /\ On /\ Still
    BY <1>6 DEF Denied, On, Still, cluster
  <2> QED
    BY <2>1, <1>2, <1>3
<1>7. CASE Confirm(t)
  <2>1. shell[t].phase = "running" /\ Head(shell[t].todo).call = "confirm" /\ Still
    BY <1>7, CallerRuns DEF Confirm, Still, cluster
  <2>2. CASE Exit(t, 1)
    BY <1>3, <2>1, <2>2, ExitGoes
  <2>3. CASE Alone(t) /\ Follow(t, [shell[t] EXCEPT !.before = Records])
    <3>1. [shell[t] EXCEPT !.before = Records] = Minding(t, Records, shell[t].saved, shell[t].walked)
      BY <1>1 DEF Shell, Minding
    <3>2. Follow(t, Minding(t, Records, shell[t].saved, shell[t].walked))
      BY <2>3, <3>1
    <3>3. Minds(t, Records, shell[t].saved, shell[t].walked)
      BY <2>1, <2>3 DEF Minds
    <3> QED
      BY <1>1, <1>3, <2>1, <3>2, <3>3, FollowGoes
  <2> QED
    BY <1>7, <2>2, <2>3 DEF Confirm
<1>8. CASE Kill(t)
  <2>1. shell[t].phase = "running" /\ On /\ Still
    BY <1>8 DEF Kill, On, Still, cluster
  <2> QED
    BY <2>1, <1>2, <1>3
<1>9. CASE backup_Target(t)
  <2>1. shell[t].phase = "running" /\ On /\ Still
    BY <1>9, CallerRuns DEF backup_Target, On, Still, cluster, Plainly
  <2> QED
    BY <2>1, <1>2, <1>3
<1>10. CASE backup_Save(t)
  <2>1. shell[t].phase = "running" /\ On /\ UNCHANGED <<queue, truth, receipts>> /\ FileMoves(t)
    BY <1>10, CallerRuns DEF backup_Save, On, cluster, FileMoves, Plainly
  <2> QED
    BY <2>1, <1>2 DEF Moves, QueueMoves, StoresMove
<1>11. ASSUME shell[t].phase = "running", Head(shell[t].todo).call # "confirm",
              Follow(t, [shell[t] EXCEPT !.saved = Records])
       PROVE  Goes(t) /\ UNCHANGED setting
  <2>1. [shell[t] EXCEPT !.saved = Records] = Minding(t, shell[t].before, Records, shell[t].walked)
    BY <1>1 DEF Shell, Minding
  <2>2. Follow(t, Minding(t, shell[t].before, Records, shell[t].walked))
    BY <1>11, <2>1
  <2>3. Minds(t, shell[t].before, Records, shell[t].walked)
    BY <1>11 DEF Minds
  <2> QED
    BY <1>1, <1>11, <2>2, <2>3, FollowGoes
<1>12. CASE backup_Walk(t)
  <2>1. shell[t].phase = "running" /\ Head(shell[t].todo).call = "walk" /\ Still
        /\ Follow(t, [shell[t] EXCEPT !.saved = Records])
    BY <1>12, CallerRuns DEF backup_Walk, Still, cluster
  <2> QED
    BY <1>3, <1>11, <2>1
<1>13. CASE takeAutoSnapshot(t)
  <2>1. shell[t].phase = "running" /\ Head(shell[t].todo).call = "snapshot" /\ Still
    BY <1>13, CallerRuns DEF takeAutoSnapshot, Still
  <2>2. \/ Throws(t, "INVALID_BACKEND_CONFIG") \/ Throws(t, "INTERNAL_ERROR")
        \/ Follow(t, [shell[t] EXCEPT !.saved = Records])
    BY <1>13 DEF takeAutoSnapshot
  <2> QED
    BY <1>3, <1>11, <2>1, <2>2, ExitGoes
<1> QED
  BY <1>4, <1>5, <1>6, <1>7, <1>8, <1>9, <1>10, <1>12, <1>13

(* Steps that decide a command.                                            *)
LEMMA StatusMoves ==
  ASSUME Typed, NEW t \in Terminals, shell[t].phase = "running", NEW status \in Statuses \ {"none"},
         queue' = [queue EXCEPT ![shell[t].command].status = status]
  PROVE  QueueMoves(t)
<1> DEFINE c   == shell[t].command
           new == [queue[c] EXCEPT !.status = status]
<1>1. c \in Commands /\ queue[c] \in Command
  BY DEF Typed, RunningTerminals
<1>2. new \in Command /\ new.status = status /\ new.proposedBy = queue[c].proposedBy
      /\ new.approved = queue[c].approved /\ new.committed = queue[c].committed
  BY <1>1 DEF Command
<1>3. queue' = [queue EXCEPT ![c] = new]
  OBVIOUS
<1> HIDE DEF new
<1> QED
  BY <1>2, <1>3 DEF QueueMoves

LEMMA proposeMoves ==
  ASSUME Typed, NEW t \in Terminals, propose(t)
  PROVE  Moves(t)
<1> DEFINE c   == shell[t].command
           new == [queue[c] EXCEPT !.status = "proposed", !.proposedBy = shell[t].who]
<1>1. shell \in [Terminals -> Shell] /\ shell[t] \in Shell
  BY DEF Typed
<1>2. shell[t].phase = "running" /\ Plainly(t) /\ UNCHANGED <<truth, receipts, file>>
  BY CallerRuns DEF propose, Plainly
<1>3. Goes(t) /\ UNCHANGED setting
  BY <1>1, <1>2, ExitGoes, ProceedGoes DEF propose
<1>4. QueueMoves(t)
  <2>1. CASE queue' = queue
    BY <2>1 DEF QueueMoves
  <2>2. CASE queue' # queue
    <3>1. queue[c].status = "none" /\ ~InHand(c)
          /\ queue' = [queue EXCEPT ![c].status = "proposed", ![c].proposedBy = shell[t].who]
      BY <2>2 DEF propose, resolveOperator
    <3>2. c \in Commands /\ queue[c] \in Command
      BY <1>2 DEF Typed, RunningTerminals
    <3>3. new \in Command /\ new.status = "proposed" /\ new.approved = queue[c].approved
          /\ new.committed = queue[c].committed
      BY <1>1, <3>2 DEF Command, Shell, Statuses
    <3>4. queue' = [queue EXCEPT ![c] = new]
      BY <3>1
    <3> HIDE DEF new
    <3> QED
      BY <3>1, <3>3, <3>4 DEF QueueMoves
  <2> QED
    BY <2>1, <2>2
<1> QED
  BY <1>2, <1>3, <1>4 DEF Moves, StoresMove, FileMoves

LEMMA approveMoves ==
  ASSUME Typed, NEW t \in Terminals, approve(t)
  PROVE  Moves(t)
<1> DEFINE c    == shell[t].command
           sign == Signed(t, FALSE)
           new  == [queue[c] EXCEPT !.status = "approved", !.approved = sign]
<1>1. shell \in [Terminals -> Shell] /\ shell[t] \in Shell
  BY DEF Typed
<1>2. /\ shell[t].phase = "running" /\ Head(shell[t].todo).call = "approve" /\ At(t, "approve")
      /\ UNCHANGED <<truth, receipts, file>>
  BY CallerRuns DEF approve
<1>3. CASE queue' = queue /\ Throws(t, "INVALID_STATE_TRANSITION")
  BY <1>2, <1>3, ExitGoes DEF Moves, QueueMoves, StoresMove, FileMoves
<1>4. CASE /\ queue' = [queue EXCEPT ![c].status = "approved", ![c].approved = Signed(t, FALSE)]
           /\ \/ Follow(t, [shell[t] EXCEPT !.walked = TRUE])
              \/ Throws(t, "INTERNAL_ERROR")
  <2>1. Goes(t) /\ UNCHANGED setting
    <3>1. [shell[t] EXCEPT !.walked = TRUE] = Minding(t, shell[t].before, shell[t].saved, TRUE)
      BY <1>1 DEF Shell, Minding
    <3>2. Follow(t, [shell[t] EXCEPT !.walked = TRUE]) =>
            Follow(t, Minding(t, shell[t].before, shell[t].saved, TRUE))
      BY <3>1
    <3>3. Minds(t, shell[t].before, shell[t].saved, TRUE)
      BY <1>2 DEF Minds
    <3> QED
      BY <1>1, <1>2, <1>4, <3>2, <3>3, ExitGoes, FollowGoes
  <2>2. QueueMoves(t)
    <3>1. c \in Commands /\ queue[c] \in Command
      BY <1>2 DEF Typed, RunningTerminals
    <3>2. sign \in Signature
      BY <1>1 DEF Signature, Shell, Signed, resolveOperator
    <3> HIDE DEF sign
    <3>3. new \in Command /\ new.status = "approved" /\ new.proposedBy = queue[c].proposedBy
          /\ new.approved = sign /\ new.committed = queue[c].committed
      BY <3>1, <3>2 DEF Command, Statuses
    <3>4. queue' = [queue EXCEPT ![c] = new]
      BY <1>4 DEF sign
    <3> HIDE DEF new
    <3> QED
      BY <1>2, <3>3, <3>4 DEF QueueMoves, sign
  <2> QED
    BY <1>2, <2>1, <2>2 DEF Moves, StoresMove, FileMoves
<1> QED
  BY <1>3, <1>4 DEF approve

LEMMA validateMoves ==
  ASSUME Typed, NEW t \in Terminals, validate(t) \/ reject(t)
  PROVE  Moves(t)
<1>1. shell \in [Terminals -> Shell]
  BY DEF Typed
<1>2. shell[t].phase = "running" /\ Plainly(t) /\ UNCHANGED <<truth, receipts, file>>
  BY CallerRuns DEF validate, reject, Plainly
<1>3. Goes(t) /\ UNCHANGED setting
  BY <1>1, <1>2, ExitGoes, ProceedGoes DEF validate, reject
<1>4. \/ queue' = queue
      \/ \E status \in {"validated", "rejected"} : queue' = [queue EXCEPT ![shell[t].command].status = status]
  BY DEF validate, reject
<1>5. QueueMoves(t)
  <2>1. \A status \in {"validated", "rejected"} : status \in Statuses \ {"none"}
    BY DEF Statuses
  <2> QED
    BY <1>2, <1>4, <2>1, StatusMoves DEF QueueMoves
<1> QED
  BY <1>2, <1>3, <1>5 DEF Moves, StoresMove, FileMoves

-----------------------------------------------------------------------------
(* Looks, and the beginning of a process.                                  *)
LEMMA lookMoves ==
  ASSUME NEW t \in Terminals, InspectBeforeCommit(t) \/ InspectBeforeApprove(t)
  PROVE  Moves(t)
<1>1. shell[t].phase = "running" /\ shell[t].todo # <<>> /\ Head(shell[t].todo).call = "inspect" /\ Still
  BY CallerRuns DEF InspectBeforeCommit, InspectBeforeApprove, Still, cluster
<1>2. Looks(t) /\ UNCHANGED setting
  <2>1. CASE InspectBeforeCommit(t)
    BY <1>1, <2>1, ExitGoes DEF InspectBeforeCommit, LookOutcomes, Looks, Continue, Become
  <2>2. CASE InspectBeforeApprove(t)
    BY <1>1, <2>2, ExitGoes DEF InspectBeforeApprove, LookOutcomes, Looks, Continue, Become
  <2> QED
    BY <2>1, <2>2
<1> QED
  BY <1>1, <1>2, StillMoves DEF Moves, Still

LEMMA TypeMoves ==
  ASSUME NEW t \in Terminals, Type(t)
  PROVE  Moves(t)
<1>1. Still /\ UNCHANGED setting
  BY DEF Type, Still, cluster
<1>2. Begins(t)
  BY DEF Type, Begins, Typing, Names
<1> QED
  BY <1>1, <1>2, StillMoves DEF Moves, Still

-----------------------------------------------------------------------------
(* Steps that write to the owner stores.                                   *)
LEMMA FreshIsNatural ==
  ASSUME Numbered
  PROVE  Fresh \in Nat
BY FS_CardinalityType DEF Numbered, Fresh, All

(* What a kernel call and a restore may do to the owner stores.             *)
LEMMA WriteMoves ==
  ASSUME Typed, Numbered, Scripted, NEW t \in Terminals, NEW call \in OwnerWriters, At(t, call), Ends(t),
         \/ /\ truth' = truth \/ (Room /\ truth' = truth \cup {Fresh})
            /\ receipts' = receipts \/ (Room /\ Receipted(Fresh))
         \/ /\ \E part \in SUBSET file.truth    : truth' = truth \cup part
            /\ \E part \in SUBSET file.receipts : receipts' = receipts \cup part
  PROVE  StoresMove(t)
<1>1. WritesOwners(t)
  BY WriterIsLast
<1>2. CASE /\ truth' = truth \/ (Room /\ truth' = truth \cup {Fresh})
           /\ receipts' = receipts \/ (Room /\ Receipted(Fresh))
  <2>1. Fresh \in Nat
    BY FreshIsNatural
  <2>2. truth' \in SUBSET Nat /\ receipts' \in SUBSET Nat /\ All \subseteq All' /\ All' \subseteq All \cup {Fresh}
    BY <1>2, <2>1 DEF Typed, All, Receipted
  <2>3. UNCHANGED <<truth, receipts>> \/ Fresh <= MaxWrites
    BY <1>2 DEF Room
  <2> QED
    BY <1>1, <2>2, <2>3 DEF StoresMove
<1>3. CASE /\ \E part \in SUBSET file.truth    : truth' = truth \cup part
           /\ \E part \in SUBSET file.receipts : receipts' = receipts \cup part
  <2>1. file.truth \in SUBSET Nat /\ file.receipts \in SUBSET Nat
    BY DEF Typed
  <2>2. /\ truth' \in SUBSET Nat /\ receipts' \in SUBSET Nat /\ All \subseteq All'
        /\ All' \subseteq All \cup file.truth \cup file.receipts
    BY <1>3, <2>1 DEF Typed, All
  <2> QED
    BY <1>1, <2>2 DEF StoresMove
<1> QED
  BY <1>2, <1>3

LEMMA PlainWritesMove ==
  ASSUME Typed, Numbered, Scripted, NEW t \in Terminals,
         write(t) \/ link(t) \/ reindex(t) \/ rebuild(t)
  PROVE  Moves(t) /\ Ends(t) /\ queue' = queue
<1>1. PICK call \in OwnerWriters : At(t, call)
  BY DEF write, link, reindex, rebuild, OwnerWriters
<1>2. Goes(t) /\ Ends(t) /\ UNCHANGED setting
  <2>1. CASE write(t)
    BY <1>1, <2>1, WriterEnds DEF write, Mutates, Untouched
  <2>2. CASE link(t)
    BY <1>1, <2>2, WriterEnds DEF link, Untouched
  <2>3. CASE reindex(t)
    BY <1>1, <2>3, WriterEnds DEF reindex
  <2>4. CASE rebuild(t)
    BY <1>1, <2>4, WriterEnds DEF rebuild
  <2> QED
    BY <2>1, <2>2, <2>3, <2>4
<1>3. /\ truth' = truth \/ (Room /\ truth' = truth \cup {Fresh})
      /\ receipts' = receipts \/ (Room /\ Receipted(Fresh))
  <2>1. CASE write(t)
    BY <2>1 DEF write, Mutates, Untouched, Landed
  <2>2. CASE link(t)
    BY <2>2 DEF link, Untouched
  <2>3. CASE reindex(t)
    BY <2>3 DEF reindex
  <2>4. CASE rebuild(t)
    BY <2>4 DEF rebuild
  <2> QED
    BY <2>1, <2>2, <2>3, <2>4
<1>4. StoresMove(t)
  BY <1>1, <1>2, <1>3, WriteMoves
<1>5. UNCHANGED <<queue, file>>
  BY DEF write, link, reindex, rebuild
<1> QED
  BY <1>2, <1>4, <1>5 DEF Moves, QueueMoves, FileMoves

LEMMA restoreMoves ==
  ASSUME Typed, Numbered, Scripted, NEW t \in Terminals, restore(t) \/ KillRestore(t)
  PROVE  Moves(t) /\ Ends(t) /\ queue' = queue
<1>1. At(t, "restore") /\ "restore" \in OwnerWriters
  BY DEF restore, KillRestore, OwnerWriters
<1>2. Goes(t) /\ Ends(t) /\ UNCHANGED setting
  <2>1. CASE restore(t)
    BY <1>1, <2>1, WriterEnds DEF restore
  <2>2. CASE KillRestore(t)
    BY <1>1, <2>2, WriterEnds DEF KillRestore
  <2> QED
    BY <2>1, <2>2
<1>3. /\ \E part \in SUBSET file.truth    : truth' = truth \cup part
      /\ \E part \in SUBSET file.receipts : receipts' = receipts \cup part
  <2>1. CASE restore(t)
    BY <2>1 DEF restore
  <2>2. CASE KillRestore(t)
    BY <2>2 DEF KillRestore
  <2> QED
    BY <2>1, <2>2
<1>4. StoresMove(t)
  BY <1>1, <1>2, <1>3, WriteMoves
<1>5. UNCHANGED <<queue, file>>
  BY DEF restore, KillRestore
<1> QED
  BY <1>2, <1>4, <1>5 DEF Moves, QueueMoves, FileMoves

LEMMA commitMoves ==
  ASSUME Typed, Numbered, Scripted, NEW t \in Terminals, commit(t)
  PROVE  Moves(t) /\ Ends(t)
<1> DEFINE c    == shell[t].command
           sign == Signed(t, shell[t].walked)
           done == [queue EXCEPT ![c].status = "committed", ![c].record = Fresh, ![c].committed = sign]
           new  == [queue[c] EXCEPT !.status = "committed", !.record = Fresh, !.committed = sign]
<1>1. At(t, "commit") /\ "commit" \in OwnerWriters /\ shell[t].phase = "running" /\ file' = file
  BY CallerRuns DEF commit, OwnerWriters
<1>2. Goes(t) /\ Ends(t) /\ UNCHANGED setting
  BY <1>1, WriterEnds DEF commit, Untouched
<1>3. /\ truth' = truth \/ (Room /\ truth' = truth \cup {Fresh})
      /\ receipts' = receipts \/ (Room /\ Receipted(Fresh))
  BY DEF commit, Untouched, Landed
<1>4. StoresMove(t)
  BY <1>1, <1>2, <1>3, WriteMoves
<1>5. queue' = queue \/ queue' = done \/ queue' = [queue EXCEPT ![c].status = "rejected"]
  BY DEF commit
<1>6. ASSUME queue' = done PROVE QueueMoves(t)
  <2>1. c \in Commands /\ queue[c] \in Command /\ shell[t] \in Shell
    BY <1>1 DEF Typed, RunningTerminals
  <2>2. sign \in Signature /\ Fresh \in Nat
    BY <2>1, FreshIsNatural DEF Signed, resolveOperator, Signature, Shell
  <2> HIDE DEF sign
  <2>3. new \in Command /\ new.status = "committed" /\ new.proposedBy = queue[c].proposedBy
        /\ new.approved = queue[c].approved /\ new.committed = sign
    BY <2>1, <2>2 DEF Command, Statuses
  <2>4. queue' = [queue EXCEPT ![c] = new]
    BY <1>6
  <2> HIDE DEF new
  <2> QED
    BY <1>1, <2>3, <2>4 DEF QueueMoves, sign
<1>7. "rejected" \in Statuses \ {"none"}
  BY DEF Statuses
<1>8. QueueMoves(t)
  BY <1>1, <1>5, <1>6, <1>7, StatusMoves DEF QueueMoves
<1> QED
  BY <1>1, <1>2, <1>4, <1>8 DEF Moves, FileMoves

LEMMA compensateMoves ==
  ASSUME Typed, Numbered, Scripted, NEW t \in Terminals, compensate(t)
  PROVE  Moves(t) /\ Ends(t)
<1>1. At(t, "compensate") /\ "compensate" \in OwnerWriters /\ shell[t].phase = "running" /\ file' = file
  BY CallerRuns DEF compensate, OwnerWriters
<1>2. Goes(t) /\ Ends(t) /\ UNCHANGED setting
  BY <1>1, WriterEnds DEF compensate
<1>3. /\ truth' = truth
      /\ receipts' = receipts \/ (Room /\ Receipted(Fresh))
  BY DEF compensate
<1>4. StoresMove(t)
  BY <1>1, <1>2, <1>3, WriteMoves
<1>5. queue' = queue \/ queue' = [queue EXCEPT ![shell[t].command].status = "compensated"]
  BY DEF compensate
<1>6. "compensated" \in Statuses \ {"none"}
  BY DEF Statuses
<1>7. QueueMoves(t)
  BY <1>1, <1>5, <1>6, StatusMoves DEF QueueMoves
<1> QED
  BY <1>1, <1>2, <1>4, <1>7 DEF Moves, FileMoves

LEMMA ProcessMoves ==
  ASSUME Typed, Numbered, Scripted, NEW t \in Terminals, Process(t)
  PROVE  Moves(t)
BY OpeningMoves, IdlingMoves, proposeMoves, approveMoves, validateMoves, lookMoves, TypeMoves,
   PlainWritesMove, restoreMoves, commitMoves, compensateMoves DEF Process

-----------------------------------------------------------------------------
(* Types and scripts are kept.                                             *)
LEMMA IdleIsTyped == Idle \in Shell /\ Idle.phase = "idle" /\ Idle.saved = NoRecords
BY DEF Idle, Shell, Names, NoRecords, Copy, Asked

LEMMA WalkForms ==
  ASSUME NEW status
  PROVE  Walk(status) \in {<<Validates, Approves, Commits>>, <<Approves, Commits>>, <<Commits>>}
BY Zenon DEF Walk

LEMMA WalkRests ==
  ASSUME NEW flags, "dry-run" \notin flags,
         NEW todo \in {<<Validates, Approves, Commits>>, <<Approves, Commits>>, <<Commits>>}
  PROVE  todo \in Seq(Steps) /\ todo # <<>> /\ Rest("commit", flags, todo)
<1>1. Validates \in Steps /\ Approves \in Steps /\ Commits \in Steps
  BY StepsAreTyped
<1>2. Validates.call = "validate" /\ Approves.call = "approve" /\ Commits.call = "commit"
  BY DEF Validates, Approves, Commits, Step
<1>3. todo \in Seq(Steps) /\ todo # <<>>
  <2>1. /\ \A a \in Steps : <<a>> \in Seq(Steps) /\ <<a>> # <<>>
        /\ \A a, b \in Steps : <<a, b>> \in Seq(Steps) /\ <<a, b>> # <<>>
        /\ \A a, b, c \in Steps : <<a, b, c>> \in Seq(Steps) /\ <<a, b, c>> # <<>>
    OBVIOUS
  <2> QED
    BY <1>1, <2>1
<1>4. \A i \in 1 .. Len(todo) : /\ todo[i].call \in OwnerWriters => i = Len(todo) /\ todo[i].call = "commit"
                              /\ todo[i].call # "confirm"
  <2>1. \A i \in 1 .. Len(todo) : (i = Len(todo) /\ todo[i] = Commits) \/ todo[i] \in {Validates, Approves}
    <3>1. CASE todo = <<Validates, Approves, Commits>>
      BY <1>1, <3>1
    <3>2. CASE todo = <<Approves, Commits>>
      BY <1>1, <3>2
    <3>3. CASE todo = <<Commits>>
      BY <1>1, <3>3
    <3> QED
      BY <3>1, <3>2, <3>3
  <2> QED
    BY <1>2, <2>1 DEF OwnerWriters
<1>5. todo \in Before \cup Walking \cup {<<Commits>>}
  BY WalkingForms
<1> QED
  BY <1>3, <1>4, <1>5 DEF Rest, Destructive

LEMMA ApproveRests ==
  ASSUME NEW flags
  PROVE  <<Approves>> \in Seq(Steps) /\ <<Approves>> # <<>> /\ Rest("approve", flags, <<Approves>>)
<1>1. Approves \in Steps /\ Approves.call = "approve"
  BY StepsAreTyped DEF Approves, Step
<1>2. \A i \in 1 .. Len(<<Approves>>) : <<Approves>>[i].call \notin OwnerWriters \cup {"confirm"}
  BY <1>1 DEF OwnerWriters
<1> QED
  BY <1>1, <1>2 DEF Rest, Destructive

(* What the process that moves becomes.                                    *)
LEMMA ShellKept ==
  ASSUME Typed, Scripted, NEW t \in Terminals, Moves(t)
  PROVE  /\ shell' \in [Terminals -> Shell]
         /\ \A u \in Terminals : u # t => shell'[u] = shell[u]
         /\ shell'[t].phase = "running" =>
              /\ shell'[t].command \in Commands /\ shell'[t].todo # <<>>
              /\ Rest(shell'[t].asked, shell'[t].flags, shell'[t].todo)
<1> DEFINE Good(s) == /\ s \in Shell
                      /\ s.phase = "running" =>
                           /\ s.command \in Commands /\ s.todo # <<>>
                           /\ Rest(s.asked, s.flags, s.todo)
<1>1. shell \in [Terminals -> Shell] /\ shell[t] \in Shell
  BY DEF Typed
<1> HIDE DEF Good
<1>2. SUFFICES \E s : Good(s) /\ shell' = [shell EXCEPT ![t] = s]
  <2>1. PICK s : Good(s) /\ shell' = [shell EXCEPT ![t] = s]
    BY <1>2
  <2>2. shell'[t] = s /\ s \in Shell /\ shell' \in [Terminals -> Shell]
    BY <1>1, <2>1 DEF Good
  <2>3. \A u \in Terminals : u # t => shell'[u] = shell[u]
    BY <1>1, <2>1
  <2> QED
    BY <2>1, <2>2, <2>3 DEF Good
<1>3. Ends(t) => \E s : Good(s) /\ shell' = [shell EXCEPT ![t] = s]
  <2>1. Good(Idle)
    BY IdleIsTyped DEF Good
  <2> QED
    BY <2>1 DEF Ends
<1>4. shell[t].phase = "running" => Rest(shell[t].asked, shell[t].flags, shell[t].todo) /\ shell[t].command \in Commands /\ shell[t].todo # <<>>
  BY DEF Typed, Scripted, RunningTerminals
<1>5. CASE Goes(t)
  <2>1. CASE Ends(t)
    BY <1>3, <2>1
  <2>2. CASE ~Ends(t)
    <3>1. PICK before, saved, walked :
            /\ Tail(shell[t].todo) # <<>>
            /\ Minds(t, before, saved, walked)
            /\ shell' = [shell EXCEPT ![t] = [Minding(t, before, saved, walked) EXCEPT !.todo = Tail(@)]]
      BY <1>5, <2>2 DEF Goes
    <3> DEFINE s == [Minding(t, before, saved, walked) EXCEPT !.todo = Tail(@)]
    <3>2. Tail(shell[t].todo) \in Seq(Steps) /\ Rest(shell[t].asked, shell[t].flags, Tail(shell[t].todo))
      <4>1. shell[t].asked \in Asked /\ shell[t].todo \in Seq(Steps)
        BY <1>1 DEF Shell
      <4>2. shell[t].phase = "running"
        BY <1>5 DEF Goes
      <4> QED
        BY <1>4, <3>1, <4>1, <4>2, TailRests
    <3>3. before \in Copy /\ saved \in Copy /\ walked \in BOOLEAN
      <4>1. Records \in Copy
        BY DEF Typed, Records, Copy
      <4>2. shell[t].before \in Copy /\ shell[t].saved \in Copy /\ shell[t].walked \in BOOLEAN
        BY <1>1 DEF Shell
      <4>3. walked \in BOOLEAN
        BY <3>1, <4>2 DEF Minds
      <4> QED
        BY <3>1, <4>1, <4>2, <4>3 DEF Minds
    <3>4. s \in Shell /\ s.asked = shell[t].asked /\ s.flags = shell[t].flags /\ s.todo = Tail(shell[t].todo)
          /\ s.command = shell[t].command /\ s.phase = shell[t].phase
      BY <1>1, <3>2, <3>3 DEF Shell, Minding
    <3>5. Good(s)
      BY <1>4, <1>5, <3>1, <3>2, <3>4 DEF Good, Goes
    <3> QED
      BY <3>1, <3>5
  <2> QED
    BY <2>1, <2>2
<1>6. CASE Looks(t)
  <2>1. CASE Ends(t)
    BY <1>3, <2>1
  <2>2. ASSUME NEW todo \in Seq(Steps), todo # <<>>, Rest(shell[t].asked, shell[t].flags, todo),
               NEW look \in BOOLEAN,
               shell' = [shell EXCEPT ![t] = [shell[t] EXCEPT !.todo = todo, !.looked = look]]
        PROVE  \E s : Good(s) /\ shell' = [shell EXCEPT ![t] = s]
    <3> DEFINE s == [shell[t] EXCEPT !.todo = todo, !.looked = look]
    <3>1. s \in Shell /\ s.asked = shell[t].asked /\ s.flags = shell[t].flags /\ s.todo = todo
          /\ s.command = shell[t].command /\ s.phase = shell[t].phase
      BY <1>1 DEF Shell
    <3>2. Good(s)
      BY <1>4, <1>6, <2>2, <3>1 DEF Good, Looks
    <3> QED
      BY <2>2, <3>2
  <2>3. ASSUME shell[t].asked = "commit", NEW look \in BOOLEAN, NEW status,
               shell' = [shell EXCEPT ![t] = [shell[t] EXCEPT !.todo = Walk(status), !.looked = look]]
        PROVE  \E s : Good(s) /\ shell' = [shell EXCEPT ![t] = s]
    <3>1. "dry-run" \notin shell[t].flags
      BY <1>4, <1>6, <2>3 DEF Rest, Looks
    <3>2. Walk(status) \in Seq(Steps) /\ Walk(status) # <<>> /\ Rest("commit", shell[t].flags, Walk(status))
      BY <3>1, WalkForms, WalkRests
    <3> QED
      BY <2>2, <2>3, <3>2
  <2>4. ASSUME shell[t].asked = "approve", NEW look \in BOOLEAN,
               shell' = [shell EXCEPT ![t] = [shell[t] EXCEPT !.todo = <<Approves>>, !.looked = look]]
        PROVE  \E s : Good(s) /\ shell' = [shell EXCEPT ![t] = s]
    BY <2>2, <2>4, ApproveRests
  <2> QED
    BY <1>6, <2>1, <2>3, <2>4 DEF Looks
<1>7. CASE Begins(t)
  <2>1. PICK offer \in Offers[t], c \in Commands, who \in Names :
          shell' = [shell EXCEPT ![t] = Typing(offer, who, c)]
    BY <1>7 DEF Begins
  <2> DEFINE before == IF offer.asked \in OwnerWriters THEN Records ELSE NoRecords
             s == [Idle EXCEPT !.phase = "running", !.asked = offer.asked, !.todo = offer.script,
                               !.who = who, !.flags = offer.flags, !.command = c, !.before = before]
  <2>2. offer.asked \in Asked /\ offer.flags \in SUBSET Flags /\ offer.script \in Seq(Steps)
        /\ offer.script # <<>> /\ Rest(offer.asked, offer.flags, offer.script)
    BY OffersAreSound DEF Sound
  <2>3. before \in Copy
    BY DEF Typed, Records, NoRecords, Copy
  <2> HIDE DEF before
  <2>4. s \in Shell /\ s.asked = offer.asked /\ s.flags = offer.flags /\ s.todo = offer.script /\ s.command = c
    BY <2>2, <2>3, IdleIsTyped DEF Shell
  <2>5. Good(s)
    BY <2>2, <2>4 DEF Good
  <2> QED
    BY <2>1, <2>5 DEF before, Typing
<1> QED
  BY <1>5, <1>6, <1>7 DEF Moves

(* The process after its step.                                             *)
Same(s, r) == /\ s.phase = "running" /\ s.asked = r.asked /\ s.who = r.who /\ s.flags = r.flags
              /\ s.command = r.command

GoneOn(t) ==
  LET s == shell'[t]  r == shell[t]
  IN /\ r.phase = "running" /\ Same(s, r) /\ s.looked = r.looked
     /\ s.todo = Tail(r.todo) /\ s.todo # <<>>
     /\ Minds(t, s.before, s.saved, s.walked)

LookedAt(t) ==
  LET s == shell'[t]  r == shell[t]
  IN /\ r.phase = "running" /\ Same(s, r) /\ s.before = r.before /\ s.saved = r.saved /\ s.walked = r.walked
     /\ r.todo # <<>> /\ Head(r.todo).call = "inspect"
     /\ s.looked \in BOOLEAN
     /\ checkSelfApproval(t, Seen(t, s.looked).proposedBy)
     /\ \/ /\ r.asked = "commit" /\ Acknowledged(t, Seen(t, s.looked).status)
           /\ s.todo = Walk(Seen(t, s.looked).status)
        \/ r.asked = "approve" /\ s.todo = <<Approves>>

Begun(t) ==
  LET s == shell'[t]
  IN /\ shell[t].phase # "running"
     /\ s.phase = "running" /\ s.walked = FALSE /\ s.looked = FALSE /\ s.saved = NoRecords
     /\ \E offer \in Offers[t] : s.asked = offer.asked /\ s.flags = offer.flags /\ s.todo = offer.script
     /\ s.asked \in OwnerWriters => s.before = Records
     /\ Holds(s) => Alone(t)

LEMMA NextShell ==
  ASSUME Typed, NEW t \in Terminals, Moves(t)
  PROVE  \/ shell'[t] = Idle /\ Ends(t)
         \/ GoneOn(t)
         \/ LookedAt(t) /\ UNCHANGED <<queue, truth, receipts, file>>
         \/ Begun(t) /\ UNCHANGED <<queue, truth, receipts, file>>
<1>1. shell[t] \in Shell /\ \A s : shell' = [shell EXCEPT ![t] = s] => shell'[t] = s
  BY DEF Typed
<1>2. CASE Ends(t)
  BY <1>1, <1>2 DEF Ends
<1>3. CASE ~Ends(t) /\ Goes(t)
  <2>1. PICK before, saved, walked :
           /\ Tail(shell[t].todo) # <<>>
           /\ Minds(t, before, saved, walked)
           /\ shell' = [shell EXCEPT ![t] = [Minding(t, before, saved, walked) EXCEPT !.todo = Tail(@)]]
    BY <1>3 DEF Goes
  <2>2. shell'[t] = [Minding(t, before, saved, walked) EXCEPT !.todo = Tail(@)]
    BY <1>1, <2>1
  <2>3. /\ shell'[t].todo = Tail(shell[t].todo) /\ shell'[t].before = before /\ shell'[t].saved = saved
        /\ shell'[t].walked = walked /\ shell'[t].phase = shell[t].phase /\ shell'[t].looked = shell[t].looked
    BY <1>1, <2>2 DEF Shell, Minding
  <2>4. shell[t].phase = "running"
    BY <1>3 DEF Goes
  <2>5. Same(shell'[t], shell[t])
    BY <1>1, <2>2, <2>4 DEF Shell, Same, Minding
  <2> QED
    BY <2>1, <2>3, <2>4, <2>5 DEF GoneOn
<1>4. CASE ~Ends(t) /\ Looks(t) /\ UNCHANGED <<queue, truth, receipts, file>>
  <2>a. PICK look \in BOOLEAN :
             \/ /\ shell[t].asked = "commit"
                /\ checkSelfApproval(t, Seen(t, look).proposedBy) /\ Acknowledged(t, Seen(t, look).status)
                /\ shell' = [shell EXCEPT ![t] = [shell[t] EXCEPT !.todo = Walk(Seen(t, look).status),
                                                                !.looked = look]]
             \/ /\ shell[t].asked = "approve"
                /\ checkSelfApproval(t, Seen(t, look).proposedBy)
                /\ shell' = [shell EXCEPT ![t] = [shell[t] EXCEPT !.todo = <<Approves>>, !.looked = look]]
    BY <1>4, Zenon DEF Looks
  <2>1. PICK todo :
             /\ shell' = [shell EXCEPT ![t] = [shell[t] EXCEPT !.todo = todo, !.looked = look]]
             /\ checkSelfApproval(t, Seen(t, look).proposedBy)
             /\ \/ /\ shell[t].asked = "commit" /\ Acknowledged(t, Seen(t, look).status)
                   /\ todo = Walk(Seen(t, look).status)
                \/ shell[t].asked = "approve" /\ todo = <<Approves>>
    BY <2>a, Zenon
  <2>2. shell'[t] = [shell[t] EXCEPT !.todo = todo, !.looked = look]
    BY <1>1, <2>1
  <2>3. shell[t].phase = "running" /\ shell[t].todo # <<>> /\ Head(shell[t].todo).call = "inspect"
    BY <1>4 DEF Looks
  <2>4. /\ shell'[t].todo = todo /\ shell'[t].saved = shell[t].saved /\ shell'[t].walked = shell[t].walked
        /\ shell'[t].before = shell[t].before /\ shell'[t].looked = look
    BY <1>1, <2>2 DEF Shell
  <2>5. Same(shell'[t], shell[t])
    BY <1>1, <2>2, <2>3 DEF Shell, Same
  <2> QED
    BY <1>4, <2>1, <2>3, <2>4, <2>5 DEF LookedAt
<1>5. CASE Begins(t) /\ UNCHANGED <<queue, truth, receipts, file>>
  <2>1. PICK offer \in Offers[t], c \in Commands, who \in Names :
          /\ Holds(Typing(offer, who, c)) => Alone(t)
          /\ shell' = [shell EXCEPT ![t] = Typing(offer, who, c)]
    BY <1>5 DEF Begins
  <2>2. shell'[t] = Typing(offer, who, c)
    BY <1>1, <2>1
  <2>3. /\ shell'[t].phase = "running" /\ shell'[t].walked = FALSE /\ shell'[t].looked = FALSE
        /\ shell'[t].saved = NoRecords
        /\ shell'[t].asked = offer.asked /\ shell'[t].flags = offer.flags /\ shell'[t].todo = offer.script
        /\ shell'[t].asked \in OwnerWriters => shell'[t].before = Records
    BY <2>2 DEF Idle, Typing
  <2>4. Holds(shell'[t]) => Alone(t)
    BY <2>1, <2>2
  <2> QED
    BY <1>5, <2>3, <2>4 DEF Begun, Begins
<1> QED
  BY <1>2, <1>3, <1>4, <1>5 DEF Moves

-----------------------------------------------------------------------------
(* Numbers and copies are kept.                                            *)
LEMMA NumbersGrow ==
  ASSUME Typed, Numbered, CopiesAreKnown, NEW t \in Terminals, StoresMove(t)
  PROVE  Numbered' /\ All \subseteq All'
<1>1. CASE UNCHANGED <<truth, receipts>>
  BY <1>1 DEF Numbered, All
<1>2. CASE ~UNCHANGED <<truth, receipts>>
  <2>1. All \subseteq All' /\ (All' \subseteq All \cup {Fresh} \/ All' \subseteq All \cup {Foreign})
    BY <1>2 DEF StoresMove, CopiesAreKnown
  <2>2. PICK x \in {Fresh, Foreign} : All' = All \/ (x \notin All /\ All' = All \cup {x})
    BY <2>1
  <2>3. IsFiniteSet(All) /\ Cardinality(All) \in Nat /\ Fresh = Cardinality(All) + 1
    BY FS_CardinalityType DEF Numbered, Fresh, All
  <2>4. CASE All' = All
    BY <2>1, <2>4 DEF Numbered
  <2>5. CASE x \notin All /\ All' = All \cup {x}
    <3>1. IsFiniteSet(All') /\ Cardinality(All') = Cardinality(All) + 1
      BY <2>3, <2>5, FS_AddElement
    <3>2. All \in SUBSET Nat
      BY DEF Typed, All
    <3>3. \A n \in All' : n = Foreign \/ n <= Cardinality(All')
      <4>1. SUFFICES ASSUME NEW n \in All', n # Foreign PROVE n <= Cardinality(All')
        OBVIOUS
      <4>2. CASE n \in All
        <5>1. n \in Nat /\ n <= Cardinality(All)
          BY <3>2, <4>1, <4>2 DEF Numbered
        <5> QED
          BY <2>3, <3>1, <5>1
      <4>3. CASE n = Fresh
        BY <2>3, <3>1, <4>3
      <4> QED
        BY <2>5, <4>1, <4>2, <4>3
    <3> QED
      BY <2>1, <3>1, <3>3 DEF Numbered
  <2> QED
    BY <2>2, <2>4, <2>5
<1> QED
  BY <1>1, <1>2

LEMMA BaseKept ==
  ASSUME BaseInv, NEW t \in Terminals, Moves(t)
  PROVE  BaseInv'
<1>1. Typed /\ Scripted /\ Numbered /\ CopiesAreKnown /\ StoresMove(t) /\ QueueMoves(t) /\ FileMoves(t)
  BY DEF BaseInv, Moves
<1>2. Numbered' /\ All \subseteq All'
  BY <1>1, NumbersGrow
<1>3. /\ shell' \in [Terminals -> Shell] /\ \A u \in Terminals : u # t => shell'[u] = shell[u]
      /\ shell'[t].phase = "running" =>
              /\ shell'[t].command \in Commands /\ shell'[t].todo # <<>>
              /\ Rest(shell'[t].asked, shell'[t].flags, shell'[t].todo)
  BY <1>1, ShellKept
<1>4. queue' \in [Commands -> Command]
  BY <1>1 DEF QueueMoves, Typed
<1>5. truth' \in SUBSET Nat /\ receipts' \in SUBSET Nat
  BY <1>1 DEF StoresMove, Typed
<1>6. shell[t].saved.truth \in SUBSET Nat /\ shell[t].saved.receipts \in SUBSET Nat
  BY <1>1 DEF Typed, Shell, Copy
<1>7. file' \in [exists : BOOLEAN, truth : SUBSET Nat, receipts : SUBSET Nat]
  <2>1. CASE file' = file
    BY <1>1, <2>1 DEF Typed
  <2>2. CASE file' = [exists |-> TRUE, truth |-> shell[t].saved.truth, receipts |-> shell[t].saved.receipts]
    BY <1>6, <2>2
  <2> QED
    BY <1>1, <2>1, <2>2 DEF FileMoves
<1>8. Typed'
  BY <1>1, <1>3, <1>4, <1>5, <1>7 DEF Typed, RunningTerminals
<1>9. Scripted'
  BY <1>1, <1>3 DEF Scripted, RunningTerminals
<1>10. CopiesAreKnown'
  <2>1. file'.truth \cup file'.receipts \subseteq All' \cup {Foreign}
    BY <1>1, <1>2 DEF CopiesAreKnown, FileMoves
  <2>2. shell'[t].saved \in {shell[t].saved, Records, NoRecords}
    BY <1>1, NextShell, IdleIsTyped DEF BaseInv, GoneOn, Minds, LookedAt, Begun
  <2>3. shell'[t].saved.truth \cup shell'[t].saved.receipts \subseteq All'
    BY <1>1, <1>2, <2>2 DEF CopiesAreKnown, Records, NoRecords, All
  <2> QED
    BY <1>1, <1>2, <1>3, <2>1, <2>3 DEF CopiesAreKnown
<1> QED
  BY <1>2, <1>8, <1>9, <1>10 DEF BaseInv

-----------------------------------------------------------------------------
(* The separation of duties.                                               *)

(* Where a process is, from the call at hand.                              *)
LEMMA Forms ==
  /\ Commit # <<>> /\ Head(Commit).call = "kernel" /\ Tail(Commit) = <<Inspects>>
  /\ <<Inspects>> # <<>> /\ Head(<<Inspects>>) = Inspects /\ Inspects.call = "inspect" /\ Inspects.cap = "read_command"
  /\ Tail(<<Inspects>>) = <<>>
  /\ Head(<<Approves>>).call = "approve" /\ Tail(<<Approves>>) = <<>>
  /\ Head(<<Commits>>).call = "commit" /\ Tail(<<Commits>>) = <<>>
  /\ Head(<<Approves, Commits>>).call = "approve" /\ Tail(<<Approves, Commits>>) = <<Commits>>
  /\ Head(<<Validates, Approves, Commits>>).call = "validate"
  /\ Tail(<<Validates, Approves, Commits>>) = <<Approves, Commits>>
<1>1. /\ Kernel \in Steps /\ Inspects \in Steps /\ Validates \in Steps /\ Approves \in Steps /\ Commits \in Steps
  BY StepsAreTyped
<1>2. /\ Kernel.call = "kernel" /\ Inspects.call = "inspect" /\ Validates.call = "validate"
      /\ Approves.call = "approve" /\ Commits.call = "commit" /\ Inspects.cap = "read_command"
  BY DEF Kernel, Unasked, Inspects, Validates, Approves, Commits, Step
<1>3. \A a \in Steps : <<a>> # <<>> /\ Head(<<a>>) = a /\ Tail(<<a>>) = <<>>
  OBVIOUS
<1>4. \A a, b \in Steps : <<a, b>> # <<>> /\ Head(<<a, b>>) = a /\ Tail(<<a, b>>) = <<b>>
  OBVIOUS
<1>5. \A a, b, c \in Steps : Head(<<a, b, c>>) = a /\ Tail(<<a, b, c>>) = <<b, c>>
  OBVIOUS
<1> QED
  BY <1>1, <1>2, <1>3, <1>4, <1>5 DEF Commit

LEMMA AtHand ==
  ASSUME Typed, Scripted, NEW t \in Terminals, shell[t].phase = "running"
  PROVE  LET s == shell[t]  call == Head(s.todo).call
         IN /\ call = "approve" /\ s.asked = "commit" => s.todo \in Walking
            /\ call = "commit"  => s.asked = "commit"
            /\ s.asked = "commit" /\ Tail(s.todo) \in Walking => s.todo \in Walking
<1> DEFINE s == shell[t]
<1>1. s \in Shell /\ s.todo \in Seq(Steps) /\ s.todo # <<>> /\ Rest(s.asked, s.flags, s.todo)
  BY DEF Typed, Scripted, RunningTerminals, Shell
<1>2. 1 \in 1 .. Len(s.todo) /\ s.todo[1] = Head(s.todo)
  BY <1>1
<1>3. s.asked = "approve" => s.todo \in {Commit, <<Inspects>>, <<Approves>>}
  BY <1>1 DEF Rest, Before
<1>4. s.asked = "commit" => s.todo \in {Commit, <<Inspects>>, <<Validates, Approves, Commits>>, <<Approves, Commits>>, <<Commits>>}
  BY <1>1, WalkingForms DEF Rest, Before
<1>5. s.asked \notin {"approve", "commit"} => Head(s.todo).call \notin {"inspect", "approve", "commit"}
  BY <1>1, <1>2 DEF Rest
<1> HIDE DEF s
<1>6. Head(s.todo).call = "approve" /\ s.asked = "commit" => s.todo \in Walking
  BY <1>4, Forms, WalkingForms
<1>7. Head(s.todo).call = "commit" => s.asked = "commit"
  BY <1>3, <1>5, Forms
<1>8. s.asked = "commit" /\ Tail(s.todo) \in Walking => s.todo \in Walking
  <2>1. <<Inspects>> \notin Walking /\ <<>> \notin Walking /\ <<Commits>> \notin Walking
    <3>1. \A x \in Walking : Head(x).call \in {"validate", "approve"} /\ Tail(x) # <<>>
      <4>1. \A a, b \in Steps : <<a>> # <<>> /\ <<a, b>> # <<>>
        OBVIOUS
      <4> QED
        BY <4>1, Forms, WalkingForms, StepsAreTyped
    <3>2. \A x \in Walking : x # <<>>
      <4>2. \A a, b, c \in Steps : <<a, b, c>> # <<>> /\ <<a, b>> # <<>>
        OBVIOUS
      <4> QED
        BY <4>2, WalkingForms, StepsAreTyped
    <3> QED
      BY <3>1, <3>2, Forms
  <2> QED
    BY <1>4, <2>1, Forms, WalkingForms
<1> QED
  BY <1>6, <1>7, <1>8 DEF s

(* Who proposed a command that is in the hands of a process stays.          *)
LEMMA ProposerStays ==
  ASSUME Typed, NEW t \in Terminals, QueueMoves(t), NEW u \in Terminals, shell[u].phase = "running",
         shell[u].asked \in {"approve", "commit"}
  PROVE  queue'[shell[u].command].proposedBy = queue[shell[u].command].proposedBy
<1> DEFINE c == shell[t].command
           d == shell[u].command
<1>1. InHand(d)
  BY DEF InHand
<1>2. d \in Commands
  BY DEF Typed, RunningTerminals
<1>3. CASE queue' = queue
  BY <1>3
<1>4. CASE queue' # queue
  <2>1. PICK new \in Command : queue' = [queue EXCEPT ![c] = new] /\ (new.proposedBy = queue[c].proposedBy \/ ~InHand(c))
    BY <1>4 DEF QueueMoves
  <2>2. queue'[d] = IF c = d THEN new ELSE queue[d]
    BY <1>2, <2>1 DEF Typed
  <2> QED
    BY <1>1, <2>1, <2>2
<1> QED
  BY <1>3, <1>4

LEMMA LookHoldsKept ==
  ASSUME Typed, Scripted, Enforced, LookHolds, NEW t \in Terminals, Moves(t)
  PROVE  LookHolds'
<1> DEFINE Cleared(s, p) == p = "nobody" \/ p # s.who \/ "self-approve" \in s.flags
           Good(s, p) ==
             /\ s.looked => s.asked \in {"approve", "commit"} /\ Cleared(s, p)
             /\ s.asked = "commit" /\ (s.walked \/ s.todo \in Walking) /\ "self-approve" \in s.flags =>
                  "accept-soft-duty-bypass" \in s.flags
<1>1. UNCHANGED setting /\ QueueMoves(t) /\ setting.file # "absent"
  BY DEF Moves, Enforced
<1>2. \A u \in Terminals : shell[u].phase = "running" => Good(shell[u], queue[shell[u].command].proposedBy)
  BY <1>1 DEF LookHolds, RunningTerminals, Walks, checkSelfApproval, resolveOperator
<1>3. SUFFICES ASSUME NEW u \in Terminals, shell'[u].phase = "running"
               PROVE  Good(shell'[u], queue'[shell'[u].command].proposedBy)
  BY <1>1, <1>3 DEF LookHolds, RunningTerminals, Walks, checkSelfApproval, resolveOperator
<1>4. CASE u # t
  <2>1. shell'[u] = shell[u]
    BY <1>4, ShellKept
  <2>2. shell[u].asked \in {"approve", "commit"} =>
          queue'[shell[u].command].proposedBy = queue[shell[u].command].proposedBy
    BY <1>1, <1>3, <2>1, ProposerStays
  <2> QED
    BY <1>2, <1>3, <2>1, <2>2
<1>5. CASE u = t /\ GoneOn(t)
  <2>1. shell[t].phase = "running" /\ Same(shell'[t], shell[t]) /\ shell'[t].looked = shell[t].looked
    BY <1>5 DEF GoneOn
  <2>2. shell[t].asked \in {"approve", "commit"} =>
          queue'[shell[t].command].proposedBy = queue[shell[t].command].proposedBy
    BY <1>1, <2>1, ProposerStays
  <2>3. Good(shell[t], queue[shell[t].command].proposedBy)
    BY <1>2, <2>1
  <2>4. shell[t].asked = "commit" /\ (shell'[t].walked \/ shell'[t].todo \in Walking) =>
          shell[t].walked \/ shell[t].todo \in Walking
    BY <1>5, <2>1, AtHand DEF GoneOn, Minds
  <2> QED
    BY <1>5, <2>1, <2>2, <2>3, <2>4 DEF Same
<1>6. CASE u = t /\ LookedAt(t) /\ queue' = queue
  <2> DEFINE seen == Seen(t, shell'[t].looked)
             now  == queue[shell[t].command]
  <2>1. /\ shell[t].phase = "running" /\ Same(shell'[t], shell[t]) /\ shell[t].asked \in {"approve", "commit"}
        /\ shell'[t].walked = shell[t].walked /\ checkSelfApproval(t, seen.proposedBy)
        /\ shell[t].asked = "commit" => Acknowledged(t, seen.status) /\ shell'[t].todo = Walk(seen.status)
    BY <1>6 DEF LookedAt
  <2>2. shell'[t].looked => seen = now
    BY DEF Seen
  <2> HIDE DEF seen, now
  <2>3. shell'[t].looked => Cleared(shell[t], now.proposedBy)
    BY <1>1, <2>1, <2>2 DEF checkSelfApproval, resolveOperator
  <2>4. Good(shell[t], now.proposedBy)
    BY <1>2, <2>1 DEF now
  <2>5. ASSUME shell[t].asked = "commit", "self-approve" \in shell[t].flags, shell'[t].walked \/ shell'[t].todo \in Walking
        PROVE  "accept-soft-duty-bypass" \in shell[t].flags
    <3>1. CASE seen.status \in {"proposed", "validated"}
      BY <2>1, <2>5, <3>1 DEF Acknowledged
    <3>2. CASE seen.status \notin {"proposed", "validated"}
      <4>1. \A st : st \notin {"proposed", "validated"} => Walk(st) = <<Commits>>
        BY Zenon DEF Walk
      <4>2. \A x \in Walking : Head(x).call # "commit"
        BY WalkingForms, Forms
      <4>3. shell'[t].todo = <<Commits>>
        BY <2>1, <2>5, <3>2, <4>1
      <4>4. shell'[t].todo \notin Walking
        BY <4>2, <4>3, Forms
      <4> QED
        BY <2>1, <2>4, <2>5, <4>4
    <3> QED
      BY <3>1, <3>2
  <2> QED
    BY <1>6, <2>1, <2>3, <2>5 DEF Same, now
<1>7. CASE u = t /\ Begun(t)
  <2>1. shell'[t].walked = FALSE /\ shell'[t].looked = FALSE
        /\ \E offer \in Offers[t] : shell'[t].asked = offer.asked /\ shell'[t].todo = offer.script
    BY <1>7 DEF Begun
  <2>2. shell'[t].asked = "commit" => shell'[t].todo = Commit
    BY <2>1, OffersAreSound
  <2>3. Commit \notin Walking
    <3>1. \A x \in Walking : Head(x).call # "kernel"
      BY WalkingForms, Forms
    <3> QED
      BY <3>1, Forms
  <2> QED
    BY <1>7, <2>1, <2>2, <2>3
<1>8. shell'[t] = Idle => shell'[t].phase # "running"
  BY IdleIsTyped
<1> QED
  BY <1>3, <1>4, <1>5, <1>6, <1>7, <1>8, NextShell

(* What it takes to sign a command, whatever else is decided of it.         *)
Acknowledges(command) ==
  LET own(by) == by.who # "nobody" /\ by.who = command.proposedBy /\ by.looked
  IN /\ own(command.approved)  => "self-approve" \in command.approved.flags
     /\ own(command.committed) => "self-approve" \in command.committed.flags
     /\ own(command.committed) /\ command.committed.walked =>
          "accept-soft-duty-bypass" \in command.committed.flags

LEMMA QueueKept ==
  ASSUME Typed, Scripted, NewIsEmpty, NEW t \in Terminals, Moves(t),
         Enforced => LookHolds /\ \A c \in Commands : Acknowledges(queue[c])
  PROVE  NewIsEmpty' /\ (Enforced => \A c \in Commands : Acknowledges(queue'[c]))
<1>1. QueueMoves(t)
  BY DEF Moves
<1>2. CASE queue' = queue
  BY <1>2 DEF NewIsEmpty
<1>3. CASE queue' # queue
  <2> DEFINE c == shell[t].command
  <2>1. PICK new \in Command :
          /\ queue' = [queue EXCEPT ![c] = new]
          /\ new.status # "none"
          /\ \/ new.proposedBy = queue[c].proposedBy
             \/ queue[c].status = "none" /\ ~InHand(c) /\ new.approved = queue[c].approved
                  /\ new.committed = queue[c].committed
          /\ \/ new.approved = queue[c].approved
             \/ /\ At(t, "approve")
                /\ new.approved = Signed(t, FALSE)
          /\ \/ new.committed = queue[c].committed
             \/ At(t, "commit") /\ new.committed = Signed(t, shell[t].walked)
    BY <1>1, <1>3 DEF QueueMoves
  <2>2. \A d \in Commands : queue'[d] = IF d = c THEN new ELSE queue[d]
    BY <2>1 DEF Typed
  <2>3. NewIsEmpty'
    BY <2>1, <2>2 DEF NewIsEmpty
  <2>4. ASSUME Enforced, c \in Commands PROVE Acknowledges(new)
    <3>1. Acknowledges(queue[c]) /\ LookHolds /\ setting.file # "absent"
      BY <2>4 DEF Enforced
    <3>2. CASE new.proposedBy # queue[c].proposedBy
      <4>1. queue[c] = NoCommand /\ new.approved = queue[c].approved /\ new.committed = queue[c].committed
        BY <2>1, <2>4, <3>2 DEF NewIsEmpty
      <4>2. new.approved.who = "nobody" /\ new.committed.who = "nobody"
        BY <4>1 DEF NoCommand, Nobody
      <4> QED
        BY <4>2 DEF Acknowledges
    <3>3. CASE new.proposedBy = queue[c].proposedBy
      <4>1. ASSUME At(t, "approve") \/ At(t, "commit"), shell[t].who = new.proposedBy, shell[t].who # "nobody",
                   shell[t].looked
            PROVE  "self-approve" \in shell[t].flags
        <5>1. shell[t].phase = "running"
          BY <4>1 DEF At
        <5> QED
          BY <3>1, <3>3, <4>1, <5>1 DEF LookHolds, RunningTerminals, checkSelfApproval, resolveOperator
      <4>2. ASSUME At(t, "commit"), shell[t].who = new.proposedBy, shell[t].who # "nobody", shell[t].walked,
                   shell[t].looked
            PROVE  "accept-soft-duty-bypass" \in shell[t].flags
        <5>1. shell[t].phase = "running" /\ Walks(t)
          BY <4>2, AtHand DEF At, Walks
        <5> QED
          BY <3>1, <4>1, <4>2, <5>1 DEF LookHolds, RunningTerminals
      <4>3. \A walked : LET sign == Signed(t, walked)
                       IN /\ sign.who = shell[t].who /\ sign.flags = shell[t].flags
                          /\ sign.walked = walked /\ sign.looked = shell[t].looked
        BY DEF Signed, resolveOperator
      <4>4. new.approved.who # "nobody" /\ new.approved.who = new.proposedBy /\ new.approved.looked =>
              "self-approve" \in new.approved.flags
        <5>1. CASE new.approved = queue[c].approved
          BY <3>1, <3>3, <5>1 DEF Acknowledges
        <5>2. CASE At(t, "approve") /\ new.approved = Signed(t, FALSE)
          BY <4>1, <4>3, <5>2
        <5> QED
          BY <2>1, <5>1, <5>2
      <4>5. new.committed.who # "nobody" /\ new.committed.who = new.proposedBy /\ new.committed.looked =>
              /\ "self-approve" \in new.committed.flags
              /\ new.committed.walked => "accept-soft-duty-bypass" \in new.committed.flags
        <5>1. CASE new.committed = queue[c].committed
          BY <3>1, <3>3, <5>1 DEF Acknowledges
        <5>2. CASE At(t, "commit") /\ new.committed = Signed(t, shell[t].walked)
          BY <4>1, <4>2, <4>3, <5>2
        <5> QED
          BY <2>1, <5>1, <5>2
      <4> QED
        BY <4>4, <4>5 DEF Acknowledges
    <3> QED
      BY <3>2, <3>3
  <2> QED
    BY <2>2, <2>3, <2>4
<1> QED
  BY <1>2, <1>3

LEMMA DutyInvMeans ==
  DutyInv <=> BaseInv /\ NewIsEmpty /\ (Enforced => LookHolds /\ \A c \in Commands : Acknowledges(queue[c]))
BY DEF DutyInv, OwnProposalsAcknowledged, Enforced, Acknowledges

LEMMA BaseStarts ==
  ASSUME Init
  PROVE  BaseInv
<1>1. /\ queue \in [Commands -> Command]
      /\ \A c \in Commands : queue[c] = NoCommand
           \/ \E who \in Operators : queue[c] = [NoCommand EXCEPT !.status = "proposed", !.proposedBy = who]
  <2>1. Nobody \in Signature
    BY DEF Nobody, Signature, Names
  <2>2. NoCommand \in Command
    BY <2>1 DEF NoCommand, Command, Statuses, Names
  <2>3. \A who \in Operators : [NoCommand EXCEPT !.status = "proposed", !.proposedBy = who] \in Command
    BY <2>2 DEF Command, Statuses, Names
  <2> QED
    BY <2>2, <2>3 DEF Init
<1>2. shell \in [Terminals -> Shell] /\ \A t \in Terminals : shell[t].phase = "idle" /\ shell[t].saved = NoRecords
  BY IdleIsTyped DEF Init
<1>3. truth = {} /\ receipts = {} /\ All = {} /\ Foreign \in Nat
  BY CommandLineAssumption DEF Init, All
<1>4. file \in [exists : BOOLEAN, truth : SUBSET Nat, receipts : SUBSET Nat]
      /\ file.truth \cup file.receipts \subseteq {Foreign}
  <2> DEFINE FileOf(e, n) == [exists |-> e, truth |-> n, receipts |-> n]
  <2>1. \A e \in BOOLEAN, n \in SUBSET Nat :
          FileOf(e, n) \in [exists : BOOLEAN, truth : SUBSET Nat, receipts : SUBSET Nat]
    OBVIOUS
  <2>2. file = FileOf(FALSE, {}) \/ file = FileOf(TRUE, {Foreign})
    BY DEF Init
  <2>3. file = FileOf(FALSE, {}) => file.truth \cup file.receipts \subseteq {Foreign}
    OBVIOUS
  <2>4. file = FileOf(TRUE, {Foreign}) => file.truth \cup file.receipts \subseteq {Foreign}
    OBVIOUS
  <2>5. file.truth \cup file.receipts \subseteq {Foreign}
    BY <2>2, <2>3, <2>4
  <2> HIDE DEF FileOf
  <2> QED
    BY <1>3, <2>1, <2>2, <2>5
<1>5. Typed /\ Scripted
  BY <1>1, <1>2, <1>3, <1>4 DEF Typed, Scripted, RunningTerminals
<1>6. Numbered
  BY <1>3, FS_EmptySet DEF Numbered
<1>7. CopiesAreKnown
  BY <1>2, <1>3, <1>4 DEF CopiesAreKnown, NoRecords
<1> QED
  BY <1>5, <1>6, <1>7 DEF BaseInv

LEMMA BaseStutters ==
  ASSUME BaseInv, UNCHANGED vars
  PROVE  BaseInv'
<1>1. Typed' /\ Scripted'
  BY DEF BaseInv, vars, Typed, Scripted, RunningTerminals
<1>2. Numbered' /\ CopiesAreKnown'
  BY DEF BaseInv, vars, Numbered, All, CopiesAreKnown
<1> QED
  BY <1>1, <1>2 DEF BaseInv

LEMMA DutyStarts ==
  ASSUME Init
  PROVE  DutyInv
<1>1. \A c \in Commands : queue[c] = NoCommand
        \/ \E who \in Operators : queue[c] = [NoCommand EXCEPT !.status = "proposed", !.proposedBy = who]
  BY DEF Init
<1>2. \A c \in Commands : queue[c].approved = Nobody /\ queue[c].committed = Nobody
        /\ (queue[c].status = "none" => queue[c] = NoCommand)
  <2>1. NoCommand.approved = Nobody /\ NoCommand.committed = Nobody
        /\ \A who : LET q == [NoCommand EXCEPT !.status = "proposed", !.proposedBy = who]
                    IN q.approved = Nobody /\ q.committed = Nobody /\ q.status = "proposed"
    BY DEF NoCommand
  <2> QED
    BY <1>1, <2>1
<1>3. \A c \in Commands : Acknowledges(queue[c])
  BY <1>2 DEF Acknowledges, Nobody
<1>4. LookHolds
  BY IdleIsTyped DEF Init, LookHolds, RunningTerminals
<1> QED
  BY <1>2, <1>3, <1>4, BaseStarts, DutyInvMeans DEF NewIsEmpty

LEMMA DutyKept ==
  ASSUME DutyInv, [Next]_vars
  PROVE  DutyInv'
<1>1. BaseInv /\ NewIsEmpty /\ (Enforced => LookHolds /\ \A c \in Commands : Acknowledges(queue[c]))
  BY DutyInvMeans
<1>2. CASE UNCHANGED vars
  <2>1. BaseInv'
    BY <1>1, <1>2, BaseStutters
  <2>2. NewIsEmpty' /\ (Enforced' => LookHolds' /\ OwnProposalsAcknowledged')
    BY <1>2 DEF DutyInv, vars, RunningTerminals, NewIsEmpty, Enforced, LookHolds, Walks,
       checkSelfApproval, resolveOperator, OwnProposalsAcknowledged
  <2> QED
    BY <2>1, <2>2 DEF DutyInv
<1>3. ASSUME NEW t \in Terminals, Process(t) PROVE DutyInv'
  <2>1. Typed /\ Scripted /\ Numbered
    BY <1>1 DEF BaseInv
  <2>2. Moves(t) /\ setting' = setting
    BY <1>3, <2>1, ProcessMoves DEF Moves
  <2>3. Enforced' <=> Enforced
    BY <2>2 DEF Enforced
  <2>4. BaseInv'
    BY <1>1, <2>2, BaseKept
  <2>5. NewIsEmpty' /\ (Enforced => \A c \in Commands : Acknowledges(queue'[c]))
    BY <1>1, <2>1, <2>2, QueueKept
  <2>6. Enforced => LookHolds'
    BY <1>1, <2>1, <2>2, LookHoldsKept
  <2>7. Enforced' => OwnProposalsAcknowledged'
    BY <2>3, <2>5 DEF OwnProposalsAcknowledged, Acknowledges
  <2> QED
    BY <2>3, <2>4, <2>5, <2>6, <2>7 DEF DutyInv
<1> QED
  BY <1>2, <1>3 DEF Next

(* Nobody gets a command of his own approved or committed without saying so  *)
(* on the command line (the guard of approve and commit in cli.ts), although *)
(* the guard looks at the command in one step and the kernel signs it in a    *)
(* later one.                                                              *)
THEOREM OwnProposalsAcknowledgedAlways == Spec => []OwnProposalsAcknowledged
<1>1. DutyInv => OwnProposalsAcknowledged
  BY DEF DutyInv, OwnProposalsAcknowledged, Enforced
<1> QED
  BY <1>1, DutyStarts, DutyKept, PTL DEF Spec

-----------------------------------------------------------------------------
(* The owner stores while an invocation writes to them.                    *)

LEMMA RecordKept ==
  ASSUME RecordInv, [Next]_vars
  PROVE  RecordInv'
<1>1. BaseInv /\ OneWriter /\ StillBefore /\ StillSaved
  BY DEF RecordInv
<1>2. CASE UNCHANGED vars
  <2>1. BaseInv'
    BY <1>1, <1>2, BaseStutters
  <2>2. OneWriter' /\ StillBefore' /\ StillSaved'
    BY <1>1, <1>2 DEF vars, OneWriter, WritesOwners, Holds, StillBefore, Records, StillSaved, RunningTerminals
  <2> QED
    BY <2>1, <2>2 DEF RecordInv
<1>3. ASSUME NEW t \in Terminals, Process(t) PROVE RecordInv'
  <2>1. Typed /\ Scripted /\ Numbered /\ Moves(t)
    BY <1>1, <1>3, ProcessMoves DEF BaseInv
  <2>2. BaseInv'
    BY <1>1, <2>1, BaseKept
  <2>3. \A u \in Terminals : u # t => shell'[u] = shell[u]
    BY <2>1, ShellKept
  <2>4. \/ shell'[t].phase # "running"
        \/ GoneOn(t)
        \/ LookedAt(t) /\ UNCHANGED <<truth, receipts>>
        \/ Begun(t) /\ UNCHANGED <<truth, receipts>>
    BY <2>1, NextShell, IdleIsTyped
  <2>a. GoneOn(t) => shell'[t].asked = shell[t].asked /\ shell[t].phase = "running"
    BY DEF GoneOn, Same
  <2>b. LookedAt(t) => /\ shell'[t].asked = shell[t].asked /\ shell[t].phase = "running"
                       /\ shell'[t].before = shell[t].before /\ Head(shell[t].todo).call = "inspect"
    BY DEF LookedAt, Same
  <2>c. GoneOn(t) => \/ Head(shell[t].todo).call = "confirm" /\ Alone(t) /\ shell'[t].before = Records
                     \/ Head(shell[t].todo).call # "confirm" /\ shell'[t].before = shell[t].before
    BY DEF GoneOn, Minds
  <2>5. WritesOwners(t)' => \/ WritesOwners(t) /\ shell'[t].before = shell[t].before
                            \/ Alone(t) /\ shell'[t].before = Records
    <3>1. ASSUME WritesOwners(t)', Begun(t) PROVE Alone(t) /\ shell'[t].before = Records
      BY <3>1 DEF Begun, WritesOwners, Holds
    <3>2. ASSUME WritesOwners(t)', LookedAt(t) PROVE WritesOwners(t) /\ shell'[t].before = shell[t].before
      BY <2>b, <3>2 DEF WritesOwners, Holds
    <3>3. ASSUME WritesOwners(t)', GoneOn(t), Head(shell[t].todo).call # "confirm"
          PROVE  WritesOwners(t) /\ shell'[t].before = shell[t].before
      BY <2>a, <2>c, <3>3 DEF WritesOwners, Holds
    <3> QED
      BY <2>4, <2>c, <3>1, <3>2, <3>3 DEF WritesOwners, Holds
  <2>d. \A u \in Terminals : u # t => (WritesOwners(u)' <=> WritesOwners(u))
    BY <2>3 DEF WritesOwners, Holds
  <2>e. OneWriter'
    <3>1. SUFFICES ASSUME NEW u \in Terminals, u # t, WritesOwners(t)', WritesOwners(u)' PROVE FALSE
      BY <1>1, <2>d DEF OneWriter
    <3>2. WritesOwners(u)
      BY <2>d, <3>1
    <3> QED
      BY <1>1, <2>5, <3>1, <3>2 DEF OneWriter, Alone, WritesOwners
  <2>6. Records' = Records \/ (WritesOwners(t) /\ shell'[t].phase # "running")
    <3>1. StoresMove(t)
      BY <2>1 DEF Moves
    <3>2. Ends(t) => shell'[t] = Idle
      BY <2>1 DEF Ends, Typed
    <3> QED
      BY <3>1, <3>2, IdleIsTyped DEF StoresMove, Records
  <2>7. \A u \in Terminals : u # t /\ WritesOwners(u) => Records' = Records
    BY <1>1, <2>6 DEF OneWriter
  <2>8. StillBefore'
    <3>1. ASSUME NEW u \in Terminals, WritesOwners(u)' PROVE shell'[u].before = Records'
      <4>1. CASE u # t
        BY <1>1, <2>3, <2>7, <2>d, <3>1, <4>1 DEF StillBefore
      <4>2. CASE u = t
        <5>1. Records' = Records
          BY <2>6, <3>1, <4>2 DEF WritesOwners, Holds
        <5> QED
          BY <1>1, <2>5, <3>1, <4>2, <5>1 DEF StillBefore
      <4> QED
        BY <4>1, <4>2
    <3> QED
      BY <3>1 DEF StillBefore
  <2>9. StillSaved'
    <3>1. ASSUME NEW u \in Terminals, shell'[u].phase = "running",
                 shell'[u].asked \in Destructive, "dry-run" \notin shell'[u].flags
          PROVE  \/ \E i \in 1 .. Len(shell'[u].todo) : shell'[u].todo[i].call = "snapshot"
                 \/ shell'[u].saved = Records'
      <4>1. CASE u # t
        <5>1. shell'[u] = shell[u] /\ shell[u].phase = "running"
          BY <2>3, <3>1, <4>1
        <5>2. CASE WritesOwners(u)
          <6>1. Records' = Records
            BY <2>7, <4>1, <5>2
          <6> QED
            BY <1>1, <3>1, <5>1, <6>1 DEF StillSaved, RunningTerminals
        <5>3. CASE ~WritesOwners(u)
          <6>1. Head(shell[u].todo).call = "confirm"
            BY <3>1, <5>1, <5>3 DEF WritesOwners, Holds, Destructive, OwnerWriters
          <6>2. shell[u].todo \in Seq(Steps) /\ shell[u].todo # <<>>
                /\ Rest(shell[u].asked, shell[u].flags, shell[u].todo)
            BY <2>1, <5>1 DEF Typed, Scripted, Shell, RunningTerminals
          <6>3. 1 \in 1 .. Len(shell[u].todo) /\ shell[u].todo[1].call = "confirm"
            BY <6>1, <6>2
          <6>4. 2 \in 1 .. Len(shell[u].todo) /\ shell[u].todo[2].call = "snapshot"
            BY <6>2, <6>3 DEF Rest
          <6> QED
            BY <5>1, <6>4
        <5> QED
          BY <5>2, <5>3
      <4>2. CASE u = t /\ GoneOn(t)
        <5>1. Records' = Records
          BY <2>6, <3>1, <4>2
        <5>2. \/ \E i \in 1 .. Len(shell[t].todo) : shell[t].todo[i].call = "snapshot"
              \/ shell[t].saved = Records
          BY <1>1, <3>1, <4>2 DEF StillSaved, RunningTerminals, GoneOn, Same
        <5>3. CASE shell[t].saved = Records
          BY <4>2, <5>1, <5>3 DEF GoneOn, Minds
        <5>4. ASSUME NEW i \in 1 .. Len(shell[t].todo), shell[t].todo[i].call = "snapshot"
              PROVE  \/ shell'[t].saved = Records'
                     \/ \E j \in 1 .. Len(shell'[t].todo) : shell'[t].todo[j].call = "snapshot"
          <6>1. shell[t].todo \in Seq(Steps) /\ shell'[t].todo = Tail(shell[t].todo) /\ shell[t].todo # <<>>
            BY <2>1, <4>2 DEF Typed, Shell, RunningTerminals, GoneOn
          <6>2. CASE i = 1
            BY <4>2, <5>1, <5>4, <6>1, <6>2 DEF GoneOn, Minds
          <6>3. CASE i # 1
            <7>1. i - 1 \in 1 .. Len(Tail(shell[t].todo)) /\ Tail(shell[t].todo)[i - 1] = shell[t].todo[i]
              BY <6>1, <6>3
            <7> QED
              BY <5>4, <6>1, <7>1
          <6> QED
            BY <6>2, <6>3
        <5> QED
          BY <4>2, <5>2, <5>3, <5>4
      <4>3. CASE u = t /\ LookedAt(t)
        BY <3>1, <4>3 DEF LookedAt, Same, Destructive
      <4>4. CASE u = t /\ Begun(t)
        BY <3>1, <4>4, OffersAreSound DEF Begun, Sound
      <4> QED
        BY <2>4, <3>1, <4>1, <4>2, <4>3, <4>4
    <3> QED
      BY <3>1 DEF StillSaved, RunningTerminals
  <2> QED
    BY <2>2, <2>e, <2>8, <2>9 DEF RecordInv
<1> QED
  BY <1>2, <1>3 DEF Next

LEMMA RecordStarts ==
  ASSUME Init
  PROVE  RecordInv
BY BaseStarts, IdleIsTyped DEF Init, RecordInv, OneWriter, WritesOwners, Holds, StillBefore, StillSaved, RunningTerminals

(* The actions that can change what the cluster holds.                     *)
LEMMA ChangingActions ==
  ASSUME NEW t \in Terminals, Process(t)
  PROVE  \/ UNCHANGED <<queue, truth, receipts, index>>
         \/ propose(t) \/ validate(t) \/ approve(t) \/ reject(t)
         \/ write(t) \/ link(t) \/ commit(t) \/ compensate(t) \/ reindex(t) \/ rebuild(t) \/ restore(t) \/ KillRestore(t)
<1>1. \/ Type(t) \/ Kill(t) \/ Denied(t) \/ init(t) \/ openStores(t) \/ getKernel(t) \/ resolvePolicyDryRunInputs(t)
      \/ backendConfigFromEnv(t) \/ NeedsDatabase(t) \/ Probe(t) \/ safeJsonParse(t) \/ Read(t) \/ Health(t)
      => UNCHANGED <<queue, truth, receipts, index>>
  BY DEF Type, Kill, Denied, init, openStores, getKernel, resolvePolicyDryRunInputs, backendConfigFromEnv,
     NeedsDatabase, Probe, safeJsonParse, Read, Health, cluster
<1>2. \/ InspectBeforeCommit(t) \/ InspectBeforeApprove(t) \/ Confirm(t) \/ takeAutoSnapshot(t)
      \/ backup_Target(t) \/ backup_Walk(t) \/ backup_Save(t)
      => UNCHANGED <<queue, truth, receipts, index>>
  BY DEF InspectBeforeCommit, InspectBeforeApprove, Confirm, takeAutoSnapshot, backup_Target, backup_Walk,
     backup_Save, cluster
<1> QED
  BY <1>1, <1>2 DEF Process

LEMMA WritingActions ==
  ASSUME NEW t \in Terminals
  PROVE  write(t) \/ link(t) \/ commit(t) \/ compensate(t) \/ reindex(t) \/ rebuild(t) \/ restore(t) \/ KillRestore(t) =>
           \E call \in OwnerWriters : At(t, call)
BY DEF write, link, commit, compensate, reindex, rebuild, restore, KillRestore, OwnerWriters

LEMMA ChangeNeedsCall ==
  ASSUME NEW t \in Terminals, Process(t)
  PROVE  \/ UNCHANGED <<queue, truth, receipts, index>>
         \/ \E call \in OwnerWriters \cup {"propose", "validate", "approve", "reject"} : At(t, call)
<1>1. propose(t) \/ validate(t) \/ approve(t) \/ reject(t) =>
        \E call \in {"propose", "validate", "approve", "reject"} : At(t, call)
  BY DEF propose, validate, approve, reject
<1> QED
  BY <1>1, ChangingActions, WritingActions

LEMMA SnapshotStep ==
  ASSUME RecordInv, [Next]_vars, NEW t \in Terminals, shell'[t] # shell[t], shell[t].asked \in Destructive,
         <<queue', truth', receipts', index'>> # <<queue, truth, receipts, index>>
  PROVE  "dry-run" \notin shell[t].flags /\ shell[t].saved = Records
<1>1. PICK u \in Terminals : Process(u)
  BY DEF Next, vars
<1>2. Typed /\ Scripted /\ Numbered /\ StillSaved
  BY DEF RecordInv, BaseInv
<1>3. u = t
  BY <1>1, <1>2, ProcessMoves, ShellKept
<1>4. PICK call \in OwnerWriters \cup {"propose", "validate", "approve", "reject"} : At(t, call)
  BY <1>1, <1>3, ChangeNeedsCall
<1>5. shell[t].phase = "running" /\ shell[t].todo # <<>> /\ shell[t].todo \in Seq(Steps) /\ Head(shell[t].todo).call = call
  BY <1>2, <1>4 DEF At, Typed, Shell
<1>6. 1 \in 1 .. Len(shell[t].todo) /\ shell[t].todo[1].call = call
  BY <1>5
<1>7. call \in Preparing \cup {shell[t].asked}
  BY <1>2, <1>5, <1>6 DEF Scripted, RunningTerminals, Rest
<1>8. call \in OwnerWriters
  BY <1>7 DEF Preparing, Destructive
<1>9. "dry-run" \notin shell[t].flags /\ Len(shell[t].todo) = 1
  BY <1>2, <1>4, <1>8, WriterIsLast
<1>10. \A i \in 1 .. Len(shell[t].todo) : shell[t].todo[i].call # "snapshot"
  BY <1>6, <1>8, <1>9 DEF OwnerWriters
<1> QED
  BY <1>2, <1>5, <1>9, <1>10 DEF StillSaved, RunningTerminals

(* The snapshot of a destructive invocation is of the state that it changes   *)
(* (destructiveCommand in cli.ts): between the snapshot and the action no      *)
(* other invocation has moved the owner stores, since one writes at a time.   *)
THEOREM SnapshotGoesFirstAlways == Spec => SnapshotGoesFirst
<1>1. RecordInv /\ [Next]_vars =>
        [\A t \in Terminals :
           (shell'[t] # shell[t] /\ shell[t].asked \in {"compensate", "reindex", "rebuild", "restore"}
              /\ <<queue', truth', receipts', index'>> # <<queue, truth, receipts, index>>)
           => "dry-run" \notin shell[t].flags /\ shell[t].saved = Records]_vars
  BY SnapshotStep DEF Destructive
<1> QED
  BY <1>1, RecordStarts, RecordKept, PTL DEF Spec, SnapshotGoesFirst

-----------------------------------------------------------------------------
(* The exit code.                                                          *)

LEMMA ErrorCodes ==
  /\ \A error : typedErrorToExitCode(error) # 0
  /\ typedErrorToExitCode("RECEIPT_FAILED") = 70
  /\ typedErrorToExitCode("IMPORT_CONFLICT") = 65
  /\ typedErrorToExitCode("INTERNAL_ERROR") = 1
  /\ typedErrorToExitCode("INVALID_STATE_TRANSITION") = 1
  /\ typedErrorToExitCode("COMMAND_VALIDATION_FAILED") = 65
BY DEF typedErrorToExitCode

(* Success is only said by the last step.                                  *)
LEMMA Codes ==
  ASSUME NEW t \in Terminals
  PROVE  /\ \A code : Exit(t, code) => exit' = code
         /\ \A error : Throws(t, error) => exit' = typedErrorToExitCode(error) /\ exit' # 0
         /\ \A sh : Continue(t, sh) => exit' = Running
         /\ \A sh : Follow(t, sh) => (exit' = 0 /\ Tail(sh.todo) = <<>>) \/ exit' = Running
         /\ Proceed(t) => (exit' = 0 /\ Tail(shell[t].todo) = <<>>) \/ exit' = Running
         /\ Killed(t) => exit' = Running
         /\ Running # 0
<1>1. \A code : Exit(t, code) => exit' = code
  BY DEF Exit, Become
<1>2. \A error : Throws(t, error) => exit' = typedErrorToExitCode(error) /\ exit' # 0
  BY <1>1, ErrorCodes DEF Throws
<1>3. \A sh : Continue(t, sh) => exit' = Running
  BY DEF Continue, Become
<1>4. \A sh : Follow(t, sh) => (exit' = 0 /\ Tail(sh.todo) = <<>>) \/ exit' = Running
  BY <1>1, <1>3 DEF Follow
<1> QED
  BY <1>1, <1>2, <1>3, <1>4 DEF Proceed, Killed, Running

(* The records change in no dry run, and under no code of a refusal.        *)
LEMMA RecordsNeedWriter ==
  ASSUME Typed, Scripted, Numbered, NEW t \in Terminals, Process(t)
  PROVE  \/ UNCHANGED <<truth, receipts>>
         \/ exit' \notin {73, 77, 78} /\ "dry-run" \notin shell[t].flags
<1>1. propose(t) \/ validate(t) \/ approve(t) \/ reject(t) => UNCHANGED <<truth, receipts>>
  BY DEF propose, validate, approve, reject
<1>2. (\E call \in OwnerWriters : At(t, call)) => "dry-run" \notin shell[t].flags
  BY WriterIsLast
<1> DEFINE Fine == exit' \in {0, 1, 65, 70, Running}
<1>3. /\ Proceed(t) => Fine
      /\ Throws(t, "RECEIPT_FAILED") => Fine
      /\ Throws(t, "IMPORT_CONFLICT") => Fine
      /\ Throws(t, "INTERNAL_ERROR") => Fine
      /\ Throws(t, "INVALID_STATE_TRANSITION") => Fine
      /\ Killed(t) => Fine
  BY Codes, ErrorCodes
<1>4. Fine => exit' \notin {73, 77, 78}
  BY DEF Running
<1> HIDE DEF Fine
<1>5. write(t) => UNCHANGED <<truth, receipts>> \/ Fine
  BY <1>3 DEF write, Mutates, Untouched
<1>6. link(t) => UNCHANGED <<truth, receipts>> \/ Fine
  BY <1>3 DEF link, Untouched
<1>7. commit(t) => UNCHANGED <<truth, receipts>> \/ Fine
  BY <1>3 DEF commit, Untouched
<1>8. compensate(t) \/ reindex(t) \/ rebuild(t) => Fine
  BY <1>3 DEF compensate, reindex, rebuild
<1>9. restore(t) \/ KillRestore(t) => Fine
  BY <1>3 DEF restore, KillRestore
<1> QED
  BY ChangingActions, WritingActions, <1>1, <1>2, <1>4, <1>5, <1>6, <1>7, <1>8, <1>9

(* The calls of a commit, of a restore, and what each of them is.           *)
LEMMA CommitCalls ==
  ASSUME NEW t \in Terminals, Process(t), shell[t].phase = "running", shell[t].todo # <<>>,
         Head(shell[t].todo).call \in {"kernel", "inspect", "validate", "approve", "commit"}
  PROVE  \/ Kill(t) \/ Denied(t) \/ getKernel(t) \/ InspectBeforeCommit(t) \/ InspectBeforeApprove(t)
         \/ validate(t) \/ approve(t) \/ commit(t)
<1>1. ~(init(t) \/ openStores(t) \/ resolvePolicyDryRunInputs(t) \/ backendConfigFromEnv(t) \/ NeedsDatabase(t)
        \/ Probe(t) \/ safeJsonParse(t) \/ Read(t) \/ Health(t) \/ Confirm(t) \/ takeAutoSnapshot(t))
  BY DEF At, init, openStores, resolvePolicyDryRunInputs, backendConfigFromEnv, NeedsDatabase, Probe, safeJsonParse,
     Read, Health, Confirm, takeAutoSnapshot
<1>2. ~(propose(t) \/ reject(t) \/ write(t) \/ link(t) \/ compensate(t) \/ reindex(t) \/ rebuild(t) \/ restore(t)
        \/ KillRestore(t) \/ backup_Target(t) \/ backup_Walk(t) \/ backup_Save(t) \/ Type(t))
  BY DEF At, propose, reject, write, link, compensate, reindex, rebuild, restore, KillRestore, backup_Target,
     backup_Walk, backup_Save, Type
<1> QED
  BY <1>1, <1>2 DEF Process

LEMMA RestoreCalls ==
  ASSUME NEW t \in Terminals, Process(t), shell[t].phase = "running", shell[t].todo # <<>>,
         Head(shell[t].todo).call \in Preparing \cup {"restore"}
  PROVE  \/ Kill(t) \/ Denied(t) \/ getKernel(t) \/ openStores(t) \/ safeJsonParse(t) \/ Read(t) \/ Confirm(t)
         \/ takeAutoSnapshot(t) \/ restore(t) \/ KillRestore(t)
<1>1. ~(init(t) \/ resolvePolicyDryRunInputs(t) \/ backendConfigFromEnv(t) \/ NeedsDatabase(t)
        \/ Probe(t) \/ Health(t) \/ InspectBeforeCommit(t) \/ InspectBeforeApprove(t) \/ validate(t) \/ approve(t))
  BY DEF At, init, resolvePolicyDryRunInputs, backendConfigFromEnv, NeedsDatabase, Probe, Health,
     InspectBeforeCommit, InspectBeforeApprove, validate, approve, Preparing
<1>2. ~(propose(t) \/ reject(t) \/ write(t) \/ link(t) \/ compensate(t) \/ reindex(t) \/ rebuild(t) \/ commit(t)
        \/ backup_Target(t) \/ backup_Walk(t) \/ backup_Save(t) \/ Type(t))
  BY DEF At, propose, reject, write, link, compensate, reindex, rebuild, commit, backup_Target,
     backup_Walk, backup_Save, Type, Preparing
<1> QED
  BY <1>1, <1>2 DEF Process

(* What a script still has in its first step.                              *)
LEMMA HeadOfRest ==
  ASSUME Typed, Scripted, NEW t \in Terminals, shell[t].phase = "running"
  PROVE  LET s == shell[t]  call == Head(s.todo).call
         IN /\ s.todo # <<>> /\ s.todo \in Seq(Steps)
            /\ s.asked = "commit" => call \in {"kernel", "inspect", "validate", "approve", "commit"}
            /\ s.asked = "commit" /\ Tail(s.todo) = <<>> => call \in {"inspect", "commit"}
            /\ s.asked = "restore" => call \in Preparing \cup {"restore"}
            /\ s.asked = "restore" /\ "dry-run" \notin s.flags /\ Tail(s.todo) = <<>> => call = "restore"
<1> DEFINE s == shell[t]
<1>1. s \in Shell /\ s.todo \in Seq(Steps) /\ s.todo # <<>> /\ Rest(s.asked, s.flags, s.todo)
  BY DEF Typed, Scripted, RunningTerminals, Shell
<1> HIDE DEF s
<1>2. 1 \in 1 .. Len(s.todo) /\ s.todo[1] = Head(s.todo)
  BY <1>1
<1>3. Tail(s.todo) = <<>> => Len(s.todo) = 1
  <2>1. \A q \in Seq(Steps) : Len(q) \in Nat /\ (q # <<>> => Len(Tail(q)) = Len(q) - 1)
    OBVIOUS
  <2>2. \A q : q = <<>> => Len(q) = 0
    OBVIOUS
  <2>3. \A n \in Nat : n - 1 = 0 => n = 1
    OBVIOUS
  <2> QED
    BY <1>1, <2>1, <2>2, <2>3
<1>4. s.asked = "commit" => s.todo \in {Commit, <<Inspects>>, <<Validates, Approves, Commits>>, <<Approves, Commits>>, <<Commits>>}
  BY <1>1, WalkingForms DEF Rest, Before
<1>5. s.asked = "commit" => Head(s.todo).call \in {"kernel", "inspect", "validate", "approve", "commit"}
  BY <1>4, Forms
<1>6. \A a, b \in Steps : <<a>> # <<>> /\ <<a, b>> # <<>>
  OBVIOUS
<1>7. s.asked = "commit" /\ Tail(s.todo) = <<>> => Head(s.todo).call \in {"inspect", "commit"}
  BY <1>4, <1>6, Forms, StepsAreTyped
<1>8. s.asked = "restore" => Head(s.todo).call \in Preparing \cup {"restore"}
  BY <1>1, <1>2 DEF Rest, Destructive
<1>9. s.asked = "restore" /\ "dry-run" \notin s.flags /\ Tail(s.todo) = <<>> => Head(s.todo).call = "restore"
  BY <1>1, <1>2, <1>3 DEF Rest, Destructive
<1> QED
  BY <1>1, <1>5, <1>7, <1>8, <1>9 DEF s

(* 0 of a commit is the code of the commit call alone, that of a restore the *)
(* code of the restore call.                                               *)
LEMMA SuccessIsTheCall ==
  ASSUME Typed, Scripted, NEW t \in Terminals, Process(t), shell[t].phase = "running", exit' = 0
  PROVE  /\ shell[t].asked = "commit" => commit(t) /\ Proceed(t)
         /\ shell[t].asked = "restore" /\ "dry-run" \notin shell[t].flags => restore(t) /\ Proceed(t)
<1> DEFINE s == shell[t]
<1>1. s.todo # <<>>
  BY HeadOfRest
<1>2. /\ \A error : ~Throws(t, error)
      /\ \A sh : ~Continue(t, sh)
      /\ ~Killed(t) /\ ~Exit(t, 1)
      /\ Proceed(t) => Tail(s.todo) = <<>>
      /\ \A sh : Follow(t, sh) => Tail(sh.todo) = <<>>
  BY Codes
<1>3. ASSUME s.asked = "commit" PROVE commit(t) /\ Proceed(t)
  <2>1. \/ Kill(t) \/ Denied(t) \/ getKernel(t) \/ InspectBeforeCommit(t) \/ InspectBeforeApprove(t)
        \/ validate(t) \/ approve(t) \/ commit(t)
    BY <1>1, <1>3, HeadOfRest, CommitCalls
  <2>2. ~Kill(t) /\ ~Denied(t) /\ ~InspectBeforeCommit(t) /\ ~InspectBeforeApprove(t)
    BY <1>2 DEF Kill, Denied, InspectBeforeCommit, InspectBeforeApprove
  <2>3. ~At(t, "kernel") \/ Tail(s.todo) # <<>>
    BY <1>3, HeadOfRest DEF At
  <2>4. ~getKernel(t)
    BY <1>2, <2>3 DEF getKernel, loadPolicyConfig
  <2>5. ~At(t, "validate") \/ Tail(s.todo) # <<>>
    BY <1>3, HeadOfRest DEF At
  <2>6. ~validate(t)
    BY <1>2, <2>5 DEF validate
  <2>7. ~At(t, "approve") \/ Tail(s.todo) # <<>>
    BY <1>3, HeadOfRest DEF At
  <2>8. [shell[t] EXCEPT !.walked = TRUE].todo = s.todo
    BY DEF Typed, Shell
  <2>9. ~approve(t)
    BY <1>2, <2>7, <2>8 DEF approve
  <2>10. commit(t)
    BY <2>1, <2>2, <2>4, <2>6, <2>9
  <2> QED
    BY <1>2, <2>10 DEF commit, Untouched
<1>4. ASSUME s.asked = "restore", "dry-run" \notin s.flags PROVE restore(t) /\ Proceed(t)
  <2>1. \/ Kill(t) \/ Denied(t) \/ getKernel(t) \/ openStores(t) \/ safeJsonParse(t) \/ Read(t) \/ Confirm(t)
        \/ takeAutoSnapshot(t) \/ restore(t) \/ KillRestore(t)
    BY <1>1, <1>4, HeadOfRest, RestoreCalls
  <2>2. ~Kill(t) /\ ~Denied(t) /\ ~KillRestore(t)
    BY <1>2 DEF Kill, Denied, KillRestore
  <2>3. Tail(s.todo) = <<>> => Head(s.todo).call = "restore"
    BY <1>4, HeadOfRest
  <2>5. [shell[t] EXCEPT !.saved = Records].todo = s.todo /\ [shell[t] EXCEPT !.before = Records].todo = s.todo
    BY DEF Typed, Shell
  <2>4. ~getKernel(t) /\ ~openStores(t) /\ ~safeJsonParse(t) /\ ~Read(t) /\ ~Confirm(t)
    BY <1>2, <2>3, <2>5 DEF At, getKernel, loadPolicyConfig, openStores, safeJsonParse, Read, Confirm
  <2>6. ~takeAutoSnapshot(t)
    BY <1>2, <2>3, <2>5 DEF At, takeAutoSnapshot
  <2>7. restore(t)
    BY <2>1, <2>2, <2>4, <2>6
  <2> QED
    BY <1>2, <2>7 DEF restore
<1> QED
  BY <1>3, <1>4


(* A committed command is on record under a number that nothing had.       *)
LEMMA CommitSucceeds ==
  ASSUME Typed, Scripted, Numbered, NEW t \in Terminals, commit(t), exit' = 0
  PROVE  LET command == queue'[shell[t].command]
         IN /\ command.status = "committed" /\ command.committed.who = shell[t].who
            /\ command.record \in (truth' \cap receipts') \ truth
<1> DEFINE c    == shell[t].command
           done == [queue EXCEPT ![c].status = "committed", ![c].record = Fresh,
                                 ![c].committed = Signed(t, shell[t].walked)]
<1>1. \A error : ~Throws(t, error)
  BY Codes
<1>2. Room /\ truth' = truth \cup {Fresh} /\ queue' = done /\ receipts' = receipts \cup {Fresh}
  BY <1>1 DEF commit, Untouched, Landed, Receipted
<1>3. Fresh \notin truth
  <2> DEFINE n == Cardinality(All)
  <2>1. Fresh = n + 1 /\ n \in Nat /\ truth \subseteq All
    BY FS_CardinalityType DEF Numbered, Fresh, All
  <2>2. n + 1 <= MaxWrites /\ MaxWrites < Foreign /\ MaxWrites \in Nat /\ Foreign \in Nat
    BY <1>2, <2>1, CommandLineAssumption DEF Room
  <2>3. \A m \in All : m = Foreign \/ m <= n
    BY DEF Numbered
  <2> HIDE DEF n
  <2>4. n + 1 \notin All
    BY <2>1, <2>2, <2>3
  <2> QED
    BY <2>1, <2>4
<1>4. c \in Commands /\ queue[c] \in Command
  BY DEF commit, At, Typed, RunningTerminals
<1>5. queue'[c] = [queue[c] EXCEPT !.status = "committed", !.record = Fresh,
                                   !.committed = Signed(t, shell[t].walked)]
  BY <1>2, <1>4 DEF Typed
<1>6. queue'[c].status = "committed" /\ queue'[c].record = Fresh /\ queue'[c].committed = Signed(t, shell[t].walked)
  BY <1>4, <1>5 DEF Command
<1> HIDE DEF done
<1> QED
  BY <1>2, <1>3, <1>6 DEF Signed, resolveOperator

(* A prompt is in no dry run, and ends with none of the codes of a refusal.  *)
LEMMA PromptStep ==
  ASSUME Typed, Scripted, NEW t \in Terminals, Process(t), shell[t].phase = "running",
         Head(shell[t].todo).call = "confirm"
  PROVE  exit' \notin {73, 77, 78} /\ "dry-run" \notin shell[t].flags
<1>1. shell[t].todo # <<>> /\ shell[t].todo \in Seq(Steps) /\ Rest(shell[t].asked, shell[t].flags, shell[t].todo)
  BY DEF Typed, Scripted, RunningTerminals, Shell
<1>2. 1 \in 1 .. Len(shell[t].todo) /\ shell[t].todo[1] = Head(shell[t].todo)
  BY <1>1
<1>3. Head(shell[t].todo).cap = "none" /\ "dry-run" \notin shell[t].flags
  BY <1>1, <1>2 DEF Rest
<1>4. ~Denied(t)
  BY <1>3 DEF Denied, Permitted, May
<1>5. "confirm" \in Preparing
  BY DEF Preparing
<1>6. \/ Kill(t) \/ getKernel(t) \/ openStores(t) \/ safeJsonParse(t) \/ Read(t) \/ Confirm(t)
      \/ takeAutoSnapshot(t) \/ restore(t) \/ KillRestore(t)
  BY <1>1, <1>4, <1>5, RestoreCalls
<1>7. Kill(t) \/ Confirm(t)
  BY <1>6 DEF At, getKernel, openStores, safeJsonParse, Read, takeAutoSnapshot, restore, KillRestore
<1>8. exit' \in {0, 1, Running}
  BY <1>7, Codes DEF Kill, Confirm
<1> QED
  BY <1>3, <1>8 DEF Running

(* ExitTellsTruth, for one process.                                        *)
TellsTruth(t) ==
  LET s == shell[t]
      code == exit'
      after == [truth |-> truth', receipts |-> receipts']
  IN /\ code = 0 /\ s.asked = "commit" =>
          LET command == queue'[s.command]
          IN /\ command.status = "committed" /\ command.committed.who = s.who
             /\ command.record \in (truth' \cap receipts') \ s.before.truth
     /\ code = 0 /\ s.asked = "restore" /\ "dry-run" \notin s.flags =>
          file.truth \subseteq truth' /\ file.receipts \subseteq receipts'
     /\ s.asked \in OwnerWriters /\ (code \in {73, 77, 78} \/ "dry-run" \in s.flags) =>
          after = s.before

LEMMA ExitStep ==
  ASSUME RecordInv, [Next]_vars, NEW t \in Terminals, Exits(t)
  PROVE  TellsTruth(t)
<1>1. shell[t].phase = "running" /\ shell'[t].phase = "idle"
  BY DEF Exits
<1>2. PICK u \in Terminals : Process(u)
  BY <1>1 DEF Next, vars
<1>3. Typed /\ Scripted /\ Numbered /\ StillBefore
  BY DEF RecordInv, BaseInv
<1>4. u = t
  BY <1>1, <1>2, <1>3, ProcessMoves, ShellKept
<1>5. Process(t)
  BY <1>2, <1>4
<1>6. shell[t].asked \in OwnerWriters /\ Head(shell[t].todo).call # "confirm" => shell[t].before = Records
  BY <1>1, <1>3 DEF StillBefore, WritesOwners, Holds
<1>7. ASSUME exit' = 0, shell[t].asked = "commit"
      PROVE  LET command == queue'[shell[t].command]
             IN /\ command.status = "committed" /\ command.committed.who = shell[t].who
                /\ command.record \in (truth' \cap receipts') \ shell[t].before.truth
  <2>1. commit(t)
    BY <1>1, <1>3, <1>5, <1>7, SuccessIsTheCall
  <2>2. shell[t].before.truth = truth
    BY <1>6, <1>7, <2>1 DEF Records, OwnerWriters, commit, At
  <2> QED
    BY <1>3, <1>7, <2>1, <2>2, CommitSucceeds
<1>8. ASSUME exit' = 0, shell[t].asked = "restore", "dry-run" \notin shell[t].flags
      PROVE  file.truth \subseteq truth' /\ file.receipts \subseteq receipts'
  <2>1. restore(t) /\ \A error : ~Throws(t, error)
    BY <1>1, <1>3, <1>5, <1>8, SuccessIsTheCall, Codes
  <2> QED
    BY <2>1 DEF restore
<1>9. ASSUME shell[t].asked \in OwnerWriters, exit' \in {73, 77, 78} \/ "dry-run" \in shell[t].flags
      PROVE  [truth |-> truth', receipts |-> receipts'] = shell[t].before
  <2>1. UNCHANGED <<truth, receipts>>
    BY <1>3, <1>5, <1>9, RecordsNeedWriter
  <2>2. Head(shell[t].todo).call # "confirm"
    BY <1>1, <1>3, <1>5, <1>9, PromptStep
  <2> QED
    BY <1>6, <1>9, <2>1, <2>2 DEF Records
<1> QED
  BY <1>7, <1>8, <1>9 DEF TellsTruth

(* The exit code of an invocation tells what became of the owner stores       *)
(* (--help-exit-codes and cliCommand in cli.ts), whatever runs beside it: 0    *)
(* of a commit or a restore is the code of that very call, and the codes of   *)
(* a refusal come from no call that has written.                            *)
THEOREM ExitTellsTruthAlways == Spec => ExitTellsTruth
<1>1. RecordInv /\ [Next]_vars => [\A t \in Terminals : Exits(t) => TellsTruth(t)]_vars
  BY ExitStep
<1>2. RecordInv /\ [Next]_vars =>
        [\A t \in Terminals : Exits(t) =>
           LET s == shell[t]
               code == exit'
               after == [truth |-> truth', receipts |-> receipts']
           IN /\ code = 0 /\ s.asked = "commit" =>
                   LET command == queue'[s.command]
                   IN /\ command.status = "committed" /\ command.committed.who = s.who
                      /\ command.record \in (truth' \cap receipts') \ s.before.truth
              /\ code = 0 /\ s.asked = "restore" /\ "dry-run" \notin s.flags =>
                   file.truth \subseteq truth' /\ file.receipts \subseteq receipts'
              /\ s.asked \in OwnerWriters /\ (code \in {73, 77, 78} \/ "dry-run" \in s.flags) =>
                   after = s.before]_vars
  BY <1>1 DEF TellsTruth
<1> QED
  BY <1>2, RecordStarts, RecordKept, PTL DEF Spec, ExitTellsTruth

=============================================================================
