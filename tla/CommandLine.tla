----------------------------- MODULE CommandLine -----------------------------
(***************************************************************************)
(* The command line: operators at terminals, one process per invocation,     *)
(* which opens the cluster directory, takes its steps and exits.             *)
(*                                                                          *)
(* A kernel call is one step here and keeps the lifecycle law; what happens  *)
(* inside one is in ClusterKernel, inside a backup or a restore in           *)
(* BackupRestore.  Steps of two processes interleave, with the exclusion     *)
(* that the kernel leaves to its callers: of the invocations that write to   *)
(* the owner stores one is at work at a time, and one that waits at its       *)
(* prompt keeps nobody out.  A process can be killed between its steps, and  *)
(* in the middle of a restore.                                             *)
(*                                                                          *)
(* A mutation of owner truth, and a receipt, is a number; the numbers of     *)
(* receipts and of the index are those of the mutations they are about.      *)
(***************************************************************************)
EXTENDS CommandScripts, Integers, FiniteSets

CONSTANTS
  Terminals, Operators, Commands,
  Settings,         \* policies.json with what its principal may do, and the backend
  Offers,           \* terminal -> what may be typed there: [asked, flags, script]
  Foreign,          \* the mutation in a backup file of another cluster
  MaxRuns, MaxWrites

(* Nobody is no operator's name, what is typed is a subcommand of cli.ts,    *)
(* and the other cluster's mutation is none of this one.                    *)
ASSUME CommandLineAssumption ==
  /\ "nobody" \notin Operators
  /\ \A t \in Terminals : Offers[t] \subseteq Subcommands
  /\ {MaxWrites, Foreign} \subseteq Nat /\ MaxWrites < Foreign

VARIABLES
  setting, made,    \* whether the cluster directory exists
  queue, truth, receipts, index,
  file,             \* the backup file: [exists, truth, receipts]
  shell,            \* terminal -> its process
  exit,             \* the code of the process that has just ended
  runs

vars == <<setting, made, queue, truth, receipts, index, file, shell, exit, runs>>
cluster == <<made, queue, truth, receipts, index>>

Nobody    == [who |-> "nobody", flags |-> {}, walked |-> FALSE, looked |-> FALSE]
NoCommand == [status |-> "none", proposedBy |-> "nobody", approved |-> Nobody,
              committed |-> Nobody, record |-> 0]
Records   == [truth |-> truth, receipts |-> receipts]
NoRecords == [truth |-> {}, receipts |-> {}]
Idle      == [phase |-> "idle", asked |-> "none", todo |-> <<>>, who |-> "nobody", flags |-> {},
              command |-> "none", walked |-> FALSE, looked |-> FALSE,
              before |-> NoRecords, saved |-> NoRecords]
Running   == -1

(* The invocations that write to the owner stores; those whose operator is  *)
(* put on record in the command.                                           *)
OwnerWriters == {"write", "link", "commit", "compensate", "reindex", "rebuild", "restore"}
OnRecord     == {"propose", "approve", "commit"}

(* A process at work on the owner stores.                                  *)
Holds(sh) == sh.phase = "running" /\ sh.asked \in OwnerWriters /\ Head(sh.todo).call # "confirm"

Init ==
  /\ setting \in Settings
  /\ \/ made = FALSE /\ queue = [c \in Commands |-> NoCommand]
     \/ /\ made = TRUE
        /\ \E who \in Operators :
             queue = [c \in Commands |-> [NoCommand EXCEPT !.status = "proposed", !.proposedBy = who]]
  /\ truth = {} /\ receipts = {} /\ index = {}
  /\ file \in {[exists |-> FALSE, truth |-> {}, receipts |-> {}],
               [exists |-> TRUE, truth |-> {Foreign}, receipts |-> {Foreign}]}
  /\ shell = [t \in Terminals |-> Idle]
  /\ exit = Running
  /\ runs = 0

-----------------------------------------------------------------------------
(* The process at terminal t: its next step, and how it goes on or ends.   *)
At(t, call) == /\ shell[t].phase = "running"
               /\ shell[t].todo # <<>>
               /\ Head(shell[t].todo).call = call

Become(t, sh, code) == /\ shell' = [shell EXCEPT ![t] = sh]
                       /\ exit' = code
                       /\ UNCHANGED <<setting, runs>>

Exit(t, code)   == Become(t, Idle, code)
Continue(t, sh) == Become(t, sh, Running)

(* On to the next step, with what the process keeps in mind; the last one    *)
(* ends it with 0.                                                          *)
Follow(t, sh) == IF Tail(sh.todo) = <<>> THEN Exit(t, 0)
                 ELSE Continue(t, [sh EXCEPT !.todo = Tail(@)])
Proceed(t)    == Follow(t, shell[t])

typedErrorToExitCode(code) ==
  CASE code = "POLICY_DENIED"        -> 77
    [] code = "RECEIPT_FAILED"       -> 70
    [] code = "CORRUPT_STORE"        -> 70
    [] code \in {"STAGED_CONTENT_TAMPERED", "IMPORT_CONFLICT",
                     "COMMAND_VALIDATION_FAILED"} -> 65
    [] code \in {"INVALID_POLICY_CONFIG", "INVALID_BACKEND_CONFIG"}   -> 78
    [] code = "BACKUP_TARGET_EXISTS" -> 73
    [] OTHER                         -> 1

(* cliCommand: an error that reaches the action's wrapper ends the process. *)
Throws(t, error) == Exit(t, typedErrorToExitCode(error))

resolveOperator(t) == shell[t].who

policed       == setting.file = "rules"
May(cap)      == ~policed \/ cap = "none" \/ cap \in setting.may
Permitted(t)  == May(Head(shell[t].todo).cap)

(* The number of the mutation or receipt a kernel call is about to make.   *)
Fresh == Cardinality(truth \cup receipts) + 1
Room  == Fresh <= MaxWrites

-----------------------------------------------------------------------------
(* An operator types a command line.                                       *)
Alone(t) == \A u \in Terminals \ {t} : ~Holds(shell[u])

Type(t) ==
  \E offer \in Offers[t], c \in Commands :
    \E who \in IF offer.asked \in OnRecord THEN Operators ELSE {"nobody"} :
      LET typed == [Idle EXCEPT !.phase = "running", !.asked = offer.asked, !.todo = offer.script,
                                !.who = who, !.flags = offer.flags, !.command = c,
                                !.before = IF offer.asked \in OwnerWriters THEN Records ELSE NoRecords]
      IN /\ shell[t].phase # "running"
         /\ runs < MaxRuns
         /\ Holds(typed) => Alone(t)
         /\ shell' = [shell EXCEPT ![t] = typed]
         /\ exit' = Running
         /\ runs' = runs + 1
         /\ UNCHANGED <<setting, cluster, file>>

init(t) ==
  /\ At(t, "init")
  /\ IF made THEN UNCHANGED made /\ Proceed(t)
     ELSE IF setting.backend = "unknown"
     THEN made' = TRUE /\ Throws(t, "INVALID_BACKEND_CONFIG")
     ELSE made' = TRUE /\ Proceed(t)
  /\ UNCHANGED <<queue, truth, receipts, index, file>>

loadPolicyConfig(t) ==
  IF setting.file = "broken" THEN Throws(t, "INVALID_POLICY_CONFIG") ELSE Proceed(t)

openStores(t) ==
  /\ At(t, "stores")
  /\ IF setting.backend = "unknown"
     THEN UNCHANGED made /\ Throws(t, "INVALID_BACKEND_CONFIG")
     ELSE made' = TRUE /\ Proceed(t)
  /\ UNCHANGED <<queue, truth, receipts, index, file>>

getKernel(t) ==
  /\ At(t, "kernel")
  /\ IF ~made THEN Exit(t, 1)
     ELSE IF setting.backend = "unknown" THEN Throws(t, "INVALID_BACKEND_CONFIG")
     ELSE loadPolicyConfig(t)
  /\ UNCHANGED <<cluster, file>>

resolvePolicyDryRunInputs(t) ==
  /\ At(t, "policies")
  /\ loadPolicyConfig(t)
  /\ UNCHANGED <<cluster, file>>

backendConfigFromEnv(t) ==
  /\ At(t, "backends")
  /\ IF setting.backend = "unknown" THEN Throws(t, "INVALID_BACKEND_CONFIG") ELSE Proceed(t)
  /\ UNCHANGED <<cluster, file>>

(* The URL of a database is set with the Postgres backend only.            *)
NeedsDatabase(t) ==
  /\ At(t, "database")
  /\ IF setting.backend # "postgres" THEN Exit(t, 1) ELSE Proceed(t)
  /\ UNCHANGED <<cluster, file>>

Probe(t) ==
  /\ At(t, "probe")
  /\ \/ Proceed(t)
     \/ setting.backend = "postgres" /\ Exit(t, 1)
  /\ UNCHANGED <<cluster, file>>

(* A file that is not there, or text that is no JSON.                      *)
safeJsonParse(t) ==
  /\ At(t, "input")
  /\ \/ Exit(t, 1)
     \/ (shell[t].asked = "restore" => file.exists) /\ Proceed(t)
  /\ UNCHANGED <<cluster, file>>

(* A read answers, or finds nothing.                                       *)
Read(t) ==
  /\ At(t, "read")
  /\ Permitted(t)
  /\ Proceed(t) \/ Throws(t, "NOT_FOUND")
  /\ UNCHANGED <<cluster, file>>

healthExit(status) ==
  CASE status = "healthy" -> 0
    [] status \in {"corrupt", "unreachable"} -> 70
    [] OTHER -> 1

Health(t) ==
  /\ At(t, "health")
  /\ \E status \in {"healthy", "degraded", "corrupt"} : Exit(t, healthExit(status))
  /\ UNCHANGED <<cluster, file>>

(* A policed kernel refuses the call; the look at a command before an       *)
(* approval or a commit swallows the refusal.                               *)
Denied(t) ==
  /\ shell[t].phase = "running"
  /\ shell[t].todo # <<>>
  /\ ~Permitted(t)
  /\ ~At(t, "inspect")
  /\ Throws(t, "POLICY_DENIED")
  /\ UNCHANGED <<cluster, file>>

-----------------------------------------------------------------------------
(* The lifecycle.  A command's id is random: it is in nobody's hands before  *)
(* it is printed.                                                          *)
InHand(c) == \E u \in Terminals : /\ shell[u].phase = "running" /\ shell[u].command = c
                                  /\ shell[u].asked \in {"validate", "approve", "reject", "commit", "compensate"}

propose(t) ==
  /\ At(t, "propose") /\ Permitted(t)
  /\ LET c == shell[t].command
     IN \/ /\ queue[c].status = "none" /\ ~InHand(c)
           /\ queue' = [queue EXCEPT ![c].status = "proposed", ![c].proposedBy = resolveOperator(t)]
           /\ Proceed(t)
        \/ UNCHANGED queue /\ Throws(t, "COMMAND_VALIDATION_FAILED")
  /\ UNCHANGED <<made, truth, receipts, index, file>>

(* What inspectCommand(...).catch(() => null) tells of the command: nothing   *)
(* where the policies refuse the look, and nothing where the read fails.     *)
LookOutcomes(t) == IF Permitted(t) THEN BOOLEAN ELSE {FALSE}
Seen(t, look)    == IF look THEN queue[shell[t].command] ELSE NoCommand

checkSelfApproval_RulesOnly(t, proposer) ==   \* Wrong: a file without rules counts as no file
  \/ proposer = "nobody"
  \/ proposer # resolveOperator(t)
  \/ "self-approve" \in shell[t].flags
  \/ ~policed

checkSelfApproval(t, proposer) ==
  \/ proposer = "nobody"
  \/ proposer # resolveOperator(t)
  \/ "self-approve" \in shell[t].flags
  \/ setting.file = "absent"

Acknowledged(t, status) ==
  ("self-approve" \in shell[t].flags /\ status \in {"proposed", "validated"})
    => "accept-soft-duty-bypass" \in shell[t].flags

InspectBeforeCommit(t) ==
  /\ At(t, "inspect") /\ shell[t].asked = "commit"
  /\ \E look \in LookOutcomes(t) :
       IF checkSelfApproval(t, Seen(t, look).proposedBy) /\ Acknowledged(t, Seen(t, look).status)
       THEN Continue(t, [shell[t] EXCEPT !.todo = Walk(Seen(t, look).status), !.looked = look])
       ELSE Exit(t, 1)
  /\ UNCHANGED <<cluster, file>>

InspectBeforeApprove(t) ==
  /\ At(t, "inspect") /\ shell[t].asked = "approve"
  /\ \E look \in LookOutcomes(t) :
       IF checkSelfApproval(t, Seen(t, look).proposedBy)
       THEN Continue(t, [shell[t] EXCEPT !.todo = <<Approves>>, !.looked = look])
       ELSE Exit(t, 1)
  /\ UNCHANGED <<cluster, file>>

(* What is put on record of an approval, and of a commit.                  *)
Signed(t, walked) == [who |-> resolveOperator(t), flags |-> shell[t].flags, walked |-> walked,
                      looked |-> shell[t].looked]

validate(t) ==
  /\ At(t, "validate") /\ Permitted(t)
  /\ LET c == shell[t].command
     IN IF queue[c].status # "proposed"
        THEN UNCHANGED queue /\ Throws(t, "COMMAND_NOT_VALIDATED")
        ELSE \/ queue' = [queue EXCEPT ![c].status = "validated"] /\ Proceed(t)
             \/ queue' = [queue EXCEPT ![c].status = "rejected"] /\ Throws(t, "COMMAND_REJECTED")
  /\ UNCHANGED <<made, truth, receipts, index, file>>

(* The approval is saved before its event, which may fail.                 *)
approve(t) ==
  /\ At(t, "approve") /\ Permitted(t)
  /\ LET c == shell[t].command
     IN IF queue[c].status # "validated"
        THEN UNCHANGED queue /\ Throws(t, "INVALID_STATE_TRANSITION")
        ELSE /\ queue' = [queue EXCEPT ![c].status = "approved", ![c].approved = Signed(t, FALSE)]
             /\ \/ Follow(t, [shell[t] EXCEPT !.walked = TRUE])
                \/ Throws(t, "INTERNAL_ERROR")
  /\ UNCHANGED <<made, truth, receipts, index, file>>

reject(t) ==
  /\ At(t, "reject") /\ Permitted(t)
  /\ LET c == shell[t].command
     IN IF queue[c].status \notin {"proposed", "validated", "approved"}
        THEN UNCHANGED queue /\ Throws(t, "INVALID_STATE_TRANSITION")
        ELSE /\ queue' = [queue EXCEPT ![c].status = "rejected"]
             /\ Proceed(t) \/ Throws(t, "INTERNAL_ERROR")
  /\ UNCHANGED <<made, truth, receipts, index, file>>

-----------------------------------------------------------------------------
(* Kernel calls that write: all of it, the mutation without its index       *)
(* record, the mutation without its receipt, or nothing.                    *)
Landed(n)   == truth' = truth \cup {n} /\ index' = index \cup {n}
Receipted(n) == receipts' = receipts \cup {n}

Mutates(t) ==
  /\ Room
  /\ \/ Landed(Fresh) /\ Receipted(Fresh) /\ Proceed(t)
     \/ Landed(Fresh) /\ UNCHANGED receipts /\ Throws(t, "RECEIPT_FAILED")
     \/ truth' = truth \cup {Fresh} /\ UNCHANGED <<index, receipts>> /\ Throws(t, "INTERNAL_ERROR")

Untouched(t, error) == UNCHANGED <<truth, receipts, index>> /\ Throws(t, error)

write(t) ==
  /\ At(t, "write") /\ Permitted(t)
  /\ Mutates(t) \/ Untouched(t, "COMMAND_VALIDATION_FAILED")
  /\ UNCHANGED <<made, queue, file>>

(* A link is an event and a receipt.                                       *)
link(t) ==
  /\ At(t, "link") /\ Permitted(t)
  /\ \/ Room /\ Receipted(Fresh) /\ Proceed(t) /\ UNCHANGED <<truth, index>>
     \/ Untouched(t, "RECEIPT_FAILED")
     \/ Untouched(t, "NOT_FOUND")
  /\ UNCHANGED <<made, queue, file>>

commit(t) ==
  /\ At(t, "commit") /\ Permitted(t)
  /\ LET c == shell[t].command
         done == [queue EXCEPT ![c].status = "committed", ![c].record = Fresh,
                               ![c].committed = Signed(t, shell[t].walked)]
     IN IF queue[c].status \notin {"validated", "approved"}
        THEN UNCHANGED queue /\ Untouched(t, "COMMAND_NOT_VALIDATED")
        ELSE \/ /\ Room /\ Landed(Fresh)
                /\ \/ queue' = done /\ Receipted(Fresh) /\ Proceed(t)
                   \/ queue' \in {queue, done} /\ UNCHANGED receipts /\ Throws(t, "RECEIPT_FAILED")
             \/ /\ Room /\ truth' = truth \cup {Fresh}
                /\ UNCHANGED <<queue, index, receipts>> /\ Throws(t, "INTERNAL_ERROR")
             \/ UNCHANGED queue /\ Untouched(t, "STAGED_CONTENT_TAMPERED")
             \/ queue' = [queue EXCEPT ![c].status = "rejected"] /\ Untouched(t, "COMMAND_REJECTED")
  /\ UNCHANGED <<made, file>>

compensate(t) ==
  /\ At(t, "compensate") /\ Permitted(t)
  /\ LET c == shell[t].command
         done == [queue EXCEPT ![c].status = "compensated"]
     IN IF queue[c].status # "committed"
        THEN UNCHANGED <<queue, receipts>> /\ Throws(t, "INVALID_STATE_TRANSITION")
        ELSE \/ Room /\ queue' = done /\ Receipted(Fresh) /\ Proceed(t)
             \/ queue' \in {queue, done} /\ UNCHANGED receipts /\ Throws(t, "RECEIPT_FAILED")
  /\ UNCHANGED <<made, truth, index, file>>

reindex(t) ==
  /\ At(t, "reindex") /\ Permitted(t)
  /\ \/ Room /\ index' = truth /\ Receipted(Fresh) /\ Proceed(t)
     \/ index' = truth /\ UNCHANGED receipts /\ Throws(t, "RECEIPT_FAILED")
     \/ UNCHANGED <<index, receipts>> /\ Throws(t, "INTERNAL_ERROR")
  /\ UNCHANGED <<made, queue, truth, file>>

-----------------------------------------------------------------------------
(* Destructive and bulk operations on the bare stores.                     *)
Confirm(t) ==
  /\ At(t, "confirm")
  /\ \/ Alone(t) /\ Follow(t, [shell[t] EXCEPT !.before = Records])
     \/ Exit(t, 1)
  /\ UNCHANGED <<cluster, file>>

(* A snapshot that cannot be taken ends the invocation.                    *)
takeAutoSnapshot(t) ==
  /\ At(t, "snapshot")
  /\ IF setting.backend = "unknown"
     THEN UNCHANGED made /\ Throws(t, "INVALID_BACKEND_CONFIG")
     ELSE /\ made' = TRUE
          /\ \/ Follow(t, [shell[t] EXCEPT !.saved = Records])
             \/ Throws(t, "INTERNAL_ERROR")
  /\ UNCHANGED <<queue, truth, receipts, index, file>>

(* rebuildIndex collects its errors: what could not be staged is left out,   *)
(* and a swap that fails leaves the index of before.                        *)
Reindexed == index' \in SUBSET truth' \cup {index}

(* Its caller exits with 0 all the same.                                   *)
rebuild(t) ==
  /\ At(t, "rebuild")
  /\ UNCHANGED truth
  /\ \/ Reindexed /\ Proceed(t)
     \/ UNCHANGED index /\ Throws(t, "INTERNAL_ERROR")
  /\ UNCHANGED <<made, queue, receipts, file>>

(* Records that conflict or fail a check are left out, and reported; what    *)
(* the rebuild behind them reports is not looked at.                        *)
restore_Silent(t) ==   \* Wrong: the errors of single records are printed only
  /\ At(t, "restore")
  /\ \E part \in SUBSET file.truth    : truth' = truth \cup part
  /\ \E part \in SUBSET file.receipts : receipts' = receipts \cup part
  /\ Reindexed
  /\ Proceed(t)
  /\ UNCHANGED <<made, queue, file>>

restore(t) ==
  /\ At(t, "restore")
  /\ \E part \in SUBSET file.truth, some \in SUBSET file.receipts :
       /\ truth' = truth \cup part /\ receipts' = receipts \cup some
       /\ \/ part = file.truth /\ some = file.receipts /\ Reindexed /\ Proceed(t)
          \/ Reindexed /\ Throws(t, "IMPORT_CONFLICT")
          \/ UNCHANGED index /\ Throws(t, "INTERNAL_ERROR")
  /\ UNCHANGED <<made, queue, file>>

(* backup -o: the look at the target, the walk, the file.                  *)
backup_Target(t) ==
  /\ At(t, "target")
  /\ IF file.exists /\ shell[t].flags \cap {"force", "yes"} = {}
     THEN Throws(t, "BACKUP_TARGET_EXISTS") ELSE Proceed(t)
  /\ UNCHANGED <<cluster, file>>

backup_Walk(t) ==
  /\ At(t, "walk")
  /\ Follow(t, [shell[t] EXCEPT !.saved = Records])
  /\ UNCHANGED <<cluster, file>>

backup_Save(t) ==
  /\ At(t, "save")
  /\ file' = [exists |-> TRUE, truth |-> shell[t].saved.truth, receipts |-> shell[t].saved.receipts]
  /\ Proceed(t)
  /\ UNCHANGED cluster

-----------------------------------------------------------------------------
Killed(t) == Continue(t, Idle)

Kill(t) ==
  /\ shell[t].phase = "running"
  /\ Killed(t)
  /\ UNCHANGED <<cluster, file>>

KillRestore(t) ==
  /\ At(t, "restore")
  /\ \E part \in SUBSET file.truth    : truth' = truth \cup part
  /\ \E part \in SUBSET file.receipts : receipts' = receipts \cup part
  /\ Killed(t)
  /\ UNCHANGED <<made, queue, index, file>>

Process(t) ==
  \/ Type(t) \/ Kill(t) \/ KillRestore(t) \/ Denied(t)
  \/ init(t) \/ openStores(t) \/ getKernel(t) \/ resolvePolicyDryRunInputs(t)
  \/ backendConfigFromEnv(t) \/ NeedsDatabase(t) \/ Probe(t) \/ safeJsonParse(t)
  \/ Read(t) \/ Health(t)
  \/ propose(t) \/ InspectBeforeCommit(t) \/ InspectBeforeApprove(t)
  \/ validate(t) \/ approve(t) \/ reject(t) \/ write(t) \/ link(t) \/ commit(t)
  \/ compensate(t) \/ reindex(t)
  \/ Confirm(t) \/ takeAutoSnapshot(t) \/ rebuild(t) \/ restore(t)
  \/ backup_Target(t) \/ backup_Walk(t) \/ backup_Save(t)

Next == \E t \in Terminals : Process(t)

Spec == Init /\ [][Next]_vars

-----------------------------------------------------------------------------
(* The separation of duties that cli.ts adds above the kernel where a        *)
(* policies.json exists: an operator whose look at the command succeeded      *)
(* does not approve or commit a command of his own without --self-approve,   *)
(* nor take it through approval and commit in one invocation without the     *)
(* second flag, whatever happened between the look and the writes.  An        *)
(* invocation whose look failed has told its guard nothing.                  *)
OwnProposalsAcknowledged ==
  setting.file # "absent" =>
    \A c \in Commands :
      LET own(by) == by.who # "nobody" /\ by.who = queue[c].proposedBy /\ by.looked
      IN /\ own(queue[c].approved)  => "self-approve" \in queue[c].approved.flags
         /\ own(queue[c].committed) => "self-approve" \in queue[c].committed.flags
         /\ own(queue[c].committed) /\ queue[c].committed.walked =>
              "accept-soft-duty-bypass" \in queue[c].committed.flags

Exits(t) == shell[t].phase = "running" /\ shell'[t].phase = "idle" /\ exit' # Running

(* The exit code tells a script what became of truth and receipts (the table *)
(* of --help-exit-codes).  0 of a commit means that this command executed,    *)
(* under the name of this operator, and has its receipt; 0 of a restore that *)
(* every record of the file is there.  A writing invocation that ends with a *)
(* refusal by policy, by its configuration or by an existing target, and a   *)
(* dry run, left both as it found them when it got to work.  Nothing is said *)
(* of the index, which a restore with 0 may leave stale, nor of the queue,   *)
(* where a walk refused at its last step has left an approval.              *)
ExitTellsTruth ==
  [][\A t \in Terminals : Exits(t) =>
       LET s == shell[t]
           code == exit'
           after == [truth |-> truth', receipts |-> receipts']
       IN /\ code = 0 /\ s.asked = "commit" =>
               LET command == queue'[s.command]
               IN /\ command.status = "committed" /\ command.committed.who = s.who
                  /\ command.record \in (truth' \cap receipts') \ s.before.truth
          /\ code = 0 /\ s.asked = "restore" /\ "dry-run" \notin s.flags =>
               file.truth \subseteq truth' /\ file.receipts \subseteq receipts'
          /\ s.asked \in OwnerWriters /\ (code \in {73, 77, 78} \/ "dry-run" \in s.flags) =>
               after = s.before]_vars

(* A destructive invocation that was not a dry run changes nothing before   *)
(* its snapshot holds what the owner stores hold: the snapshot that the     *)
(* undo hint names is of the state the change started from, although others  *)
(* may have written while its prompt waited for an answer.                  *)
SnapshotGoesFirst ==
  [][\A t \in Terminals :
       (shell'[t] # shell[t] /\ shell[t].asked \in {"compensate", "reindex", "rebuild", "restore"}
          /\ <<queue', truth', receipts', index'>> # <<queue, truth, receipts, index>>)
       => "dry-run" \notin shell[t].flags /\ shell[t].saved = Records]_vars
=============================================================================
