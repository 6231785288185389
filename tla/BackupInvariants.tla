-------------------------- MODULE BackupInvariants --------------------------
(***************************************************************************)
(* The inductive invariants of BackupRestore, and the parts they are made   *)
(* of: types, what a file and a store hold while backup, restore and        *)
(* commits are under way, and what each step of the kernel does to a store. *)
(***************************************************************************)
EXTENDS BackupRestore

-----------------------------------------------------------------------------
(***************************************************************************)
(* The state: what the stores, a backup and its file hold.                 *)
(***************************************************************************)
Statuses == {"none", "approved", "committed"}
Blobs    == {"none", "whole", "damaged", "gone"}
Actions  == {"mutation_committed", "mutation_orphaned"}
Steps    == {"event", "save", "receipt"}
Stages   == {"artifacts", "events", "receipts", "contents"}
Verdicts == {"corrupt", "unreachable", "degraded", "healthy"}

Version  == [n : Nat, by : Nat]
Metadata == [filename : Nat, blob : Blobs]
Event    == [id : Nat, action : Actions, subject : Runs, prev : Nat, whole : BOOLEAN]
Receipt  == [id : Nat, event : Nat, cmd : Commands, prev : Nat, whole : BOOLEAN]
Store    == [canonical : [Runs -> Seq(Version)], artifacts : [Runs -> Metadata],
             events : Seq(Event), receipts : Seq(Receipt), commands : [Commands -> Statuses],
             staging : SUBSET Commands, index : SUBSET Runs]

EntityRecord   == [kind : {"entity"}, id : Runs, n : Nat, by : Nat]
ArtifactRecord == [kind : {"artifact"}, id : Runs, filename : Nat, blob : Blobs]
EventRecord    == [kind : {"event"}, id : Nat, action : Actions, subject : Runs, prev : Nat,
                   whole : BOOLEAN]
ReceiptRecord  == [kind : {"receipt"}, id : Nat, event : Nat, cmd : Commands, prev : Nat,
                   whole : BOOLEAN]
CommandRecord  == [kind : {"command"}, id : Commands, status : Statuses]
StagingRecord  == [kind : {"staging"}, id : Commands, whole : BOOLEAN]
StoreRecord    == EntityRecord \cup ArtifactRecord \cup EventRecord \cup ReceiptRecord
Record         == StoreRecord \cup {IndexMark} \cup CommandRecord \cup StagingRecord

Commit  == [step : Steps, at : Clusters, run : Runs, subject : Runs]
Backup  == [step : Stages, items : Seq(StoreRecord), quiet : BOOLEAN,
            health : [verify : Verdicts, doctor : Verdicts]]
File    == [items : Seq(Record), quiet : BOOLEAN, health : [verify : Verdicts, doctor : Verdicts],
            altered : BOOLEAN]
Restore == [step : {"running", "done"}, into : Clusters, at : Nat, errors : SUBSET Nat,
            unindexed : BOOLEAN]

Typed ==
    /\ cluster \in [Clusters -> Store]
    /\ commits \in [Commands -> Commit \cup {Idle}]
    /\ born \in 0 .. MaxRuns
    /\ backup \in Backup \cup {NoBackup}
    /\ file \in File \cup {NoFile}
    /\ restore \in Restore \cup {NoRestore}
    /\ foreign \in SUBSET Clusters
    /\ faults \in Nat

(* A backup is taken once, and a restore goes through its file.            *)
InOrderOfUse ==
    /\ backup # NoBackup => file = NoFile
    /\ file # NoFile => file.items # <<>>
    /\ restore # NoRestore => file # NoFile
    /\ restore.step = "running" => restore.at \in DOMAIN file.items
    /\ restore.step = "done" => restore.at = Len(file.items) + 1

(* The ids of the records of a file, kind by kind, are distinct.           *)
Distinct(items) == \A i, j \in DOMAIN items :
    items[i].kind = items[j].kind /\ items[i].id = items[j].id => i = j
IdsDistinct(log) == \A i, j \in DOMAIN log : log[i].id = log[j].id => i = j

KindsRead(stage) ==
    CASE stage = "artifacts" -> {"entity"}
      [] stage = "events"    -> {"entity", "artifact"}
      [] stage = "receipts"  -> {"entity", "artifact", "event"}
      [] stage = "contents"  -> {"entity", "artifact", "event", "receipt"}
      [] OTHER -> {}

BackupSound ==
    /\ Distinct(backup.items)
    /\ \A i \in DOMAIN backup.items : backup.items[i].kind \in KindsRead(backup.step)

FileSound ==
    /\ Distinct(file.items)
    /\ \A i, j \in DOMAIN file.items :
          file.items[i].kind \in {"entity", "artifact"} /\ file.items[j].kind = "index" => i < j
    /\ file # NoFile => \E i \in DOMAIN file.items : file.items[i].kind = "index"

(* Until there is a file, home has the records of commits alone, each      *)
(* under a number of its own: ev and re are the ids in its two logs.        *)
Ids(log) == {log[i].id : i \in DOMAIN log}

Apart(ev, re, pending, last) ==
    /\ \A run \in Runs : run > last => run \notin ev /\ MaxRuns + run \notin ev /\ run \notin re
    /\ \A c \in Commands : pending[c] # Idle =>
          /\ pending[c].run <= last
          /\ pending[c].step = "event" => pending[c].run \notin ev
          /\ MaxRuns + pending[c].run \notin ev
          /\ pending[c].run \notin re
    /\ \A c, d \in Commands :
          pending[c] # Idle /\ pending[d] # Idle /\ pending[c].run = pending[d].run => c = d

RunsDistinct ==
    LET k == cluster["home"] IN
    file = NoFile =>
      /\ IdsDistinct(k.events) /\ IdsDistinct(k.receipts)
      /\ Apart(Ids(k.events), Ids(k.receipts), commits, born)

FileIsSound == BackupSound /\ FileSound /\ RunsDistinct

(* A receipt is written after its command is saved, and read before it.    *)
SavedAtHome ==
    LET k == cluster["home"] IN
    file = NoFile =>
       /\ \A i \in DOMAIN k.receipts : k.commands[k.receipts[i].cmd] = "committed"
       /\ \A c \in Commands : commits[c].step = "receipt" /\ commits[c].at = "home"
             => k.commands[c] = "committed"
SavedIfRead ==
    \A i \in DOMAIN backup.items : backup.items[i].kind = "receipt" =>
        cluster["home"].commands[backup.items[i].cmd] = "committed"
ReceiptsSaved == SavedAtHome /\ SavedIfRead /\ ReceiptsKeepTheirCommands

(* A cluster that restores alone wrote to holds what the first items of    *)
(* the file leave, those that a restore has gone through among them.       *)
Follows(n, m) ==
    /\ [cluster[n] EXCEPT !.index = {}] = Left(file.items, m)
    /\ restore.step \in {"running", "done"} /\ restore.into = n => restore.at <= m + 1
Progress == \A n \in Clusters \ foreign : \E m \in 0 .. Len(file.items) : Follows(n, m)

(* Its index is of its sources alone, and of all of them from the mark on,  *)
(* unless the rebuild failed.                                              *)
Indexes(n) ==
    /\ cluster[n].index \subseteq Sources(cluster[n])
    /\ restore.step \in {"running", "done"} /\ restore.into = n /\ ~ restore.unindexed =>
          \A i \in DOMAIN file.items : file.items[i].kind = "index" /\ i < restore.at =>
              cluster[n].index = Sources(cluster[n])
IndexProgress == \A n \in Clusters \ foreign : Indexes(n)

TypedInOrder == Typed /\ InOrderOfUse

-----------------------------------------------------------------------------
(* What the first items of a file leave, store by store.                   *)
At(items, m, kind)         == {i \in 1 .. m : items[i].kind = kind}
KeptIn(items, m, kind, id) == Pick(items, {i \in At(items, m, kind) : items[i].id = id})
WholeIn(items, m, kind)    == Pick(items, {i \in At(items, m, kind) : items[i].whole})

LeftCanonical(items, m) == [e \in Runs |-> LET x == KeptIn(items, m, "entity", e) IN
                              [i \in DOMAIN x |-> [n |-> x[i].n, by |-> x[i].by]]]
LeftArtifacts(items, m) == [a \in Runs |-> LET x == KeptIn(items, m, "artifact", a) IN
                              IF x # <<>> /\ x[1].blob = "whole"
                              THEN [filename |-> x[1].filename, blob |-> "whole"] ELSE NoArtifact]
LeftEvents(items, m)    == LET x == WholeIn(items, m, "event") IN [i \in DOMAIN x |-> EventOf(x[i])]
LeftReceipts(items, m)  == LET x == WholeIn(items, m, "receipt") IN [i \in DOMAIN x |-> ReceiptOf(x[i])]
LeftCommands(items, m)  == [c \in Commands |-> LET x == KeptIn(items, m, "command", c) IN
                              IF x = <<>> THEN "none" ELSE x[1].status]
LeftStaging(items, m)   == {items[i].id : i \in {j \in At(items, m, "staging") : items[j].whole}}
Indexed(items, m)       == {items[i].id : i \in At(items, m, "entity")}
                             \cup {items[i].id : i \in {j \in At(items, m, "artifact") : items[j].blob = "whole"}}

-----------------------------------------------------------------------------
(***************************************************************************)
(* What a restore says, and what the health checks say after it.  Until    *)
(* there is a file home is written by commits alone: what its records say  *)
(* of each other holds but for the commits that are in flight.  A backup   *)
(* that nothing was written beside is a portrait of it.                    *)
(***************************************************************************)

(* Ids of what commits create are the numbers of the commits so far.       *)
Known ==
    /\ \A n \in Clusters : \A s \in Sources(cluster[n]) : s <= born
    /\ \A i \in DOMAIN backup.items : backup.items[i].kind \in {"entity", "artifact"} => backup.items[i].id <= born
    /\ \A i \in DOMAIN file.items : file.items[i].kind \in {"entity", "artifact"} => file.items[i].id <= born

(* Each record that a restore has gone through is there or was refused.    *)
Held(k, x) == Holds(k, x) /\ (x.kind = "artifact" => k.artifacts[x.id] # NoArtifact)
Handled ==
    restore.step \in {"running", "done"} =>
        \A i \in DOMAIN file.items :
            i < restore.at => i \in restore.errors \/ Held(cluster[restore.into], file.items[i])

(* What is refused where restores alone wrote: what has lost its hash.     *)
Bad(x) == \/ x.kind = "artifact" /\ x.blob # "whole"
          \/ x.kind \in {"event", "receipt", "staging"} /\ ~ x.whole
Judged ==
    restore.step \in {"running", "done"} /\ restore.into \notin foreign =>
        restore.errors = {i \in DOMAIN file.items : i < restore.at /\ Bad(file.items[i])}

(* What the stores of a cluster with commits pending say of each other:    *)
(* stands is about each store, the rest about what the ledger owes.        *)
LineageSound(k) == \A e \in Entities(k) : {v.n : v \in Range(k.canonical[e])} = 1 .. Latest(k, e).n
Chained(log)   == \A i \in DOMAIN log \ {1} : log[i].prev = log[i - 1].id
LogsChained(k) == Chained(k.events) /\ Chained(k.receipts)
StoresSound(k) ==
    /\ k.index = Sources(k) /\ Entities(k) \cap Artifacts(k) = {}
    /\ \A f \in k.staging : k.commands[f] # "none"

Told(k, a)      == \E j \in DOMAIN k.events : k.events[j].subject = a
Telling(pending, a) == \E c \in Commands : pending[c].step = "event" /\ pending[c].subject = a
Receipted(k, run) == \E j \in DOMAIN k.receipts : k.receipts[j].event = run
Owing(pending, run) == \E c \in Commands : pending[c].step \in {"save", "receipt"} /\ pending[c].run = run
Unreceipted(k, c) == \A j \in DOMAIN k.receipts : k.receipts[j].cmd # c
Forsaken(k, pending) == \E c \in Commands :
    pending[c] = Idle /\ k.commands[c] = "committed" /\ Unreceipted(k, c)

LedgerSound(k, pending) ==
    /\ \A a \in Artifacts(k) : Told(k, a) \/ Telling(pending, a)
    /\ \A j \in DOMAIN k.events : k.events[j].action = "mutation_committed" =>
          Receipted(k, k.events[j].id) \/ Owing(pending, k.events[j].id) \/ Forsaken(k, pending)
    /\ \A c \in Commands : pending[c] # Idle => Unreceipted(k, c)
    /\ \A c \in Commands : k.commands[c] # "committed" => Unreceipted(k, c)

HomeSound ==
    file = NoFile =>
      /\ \A c \in Commands : cluster["copy"].commands[c] = "none"
      /\ \A c \in Commands : commits[c] # Idle => commits[c].at = "home"
      /\ LineageSound(cluster["home"])
      /\ StoresSound(cluster["home"])
      /\ LogsChained(cluster["home"])
      /\ LedgerSound(cluster["home"], commits)

(* A list that shows, of one kind of records, those of a set or of a log.  *)
ShowsSet(items, kind, ids, S) ==
    /\ \A i \in DOMAIN items : items[i].kind = kind => items[i].id \in ids /\ items[i] \in S
    /\ \A id \in ids : \E i \in DOMAIN items : items[i].kind = kind /\ items[i].id = id
ShowsLog(items, kind, list) ==
    \E p \in Nat :
       /\ \A i \in DOMAIN items : items[i].kind = kind <=> p < i /\ i <= p + Len(list)
       /\ \A j \in DOMAIN list : p + j \in DOMAIN items /\ items[p + j] \in list[j]

(* What a record of a store may look like in a file, edited or not.        *)
EntityForms(k)  == {x \in EntityRecord : x.id \in Entities(k) /\ x.n = Latest(k, x.id).n}
ArtifactForms(k) == {x \in ArtifactRecord :
                     x.id \in Artifacts(k) /\ (x.blob = "whole" => k.artifacts[x.id].blob = "whole")}
EventForms(k)    == [j \in DOMAIN k.events |-> {x \in EventRecord :
                     /\ x.id = k.events[j].id /\ x.action = k.events[j].action
                     /\ x.subject = k.events[j].subject /\ x.prev = k.events[j].prev}]
ReceiptForms(k) == [j \in DOMAIN k.receipts |-> {x \in ReceiptRecord :
                     /\ x.id = k.receipts[j].id /\ x.event = k.receipts[j].event
                     /\ x.cmd = k.receipts[j].cmd /\ x.prev = k.receipts[j].prev}]
CommandForms(k)  == {x \in CommandRecord : x.status = k.commands[x.id]}
StagingForms(k)    == {x \in StagingRecord : x.id \in k.staging}

AllKinds == {"entity", "artifact", "event", "receipt", "index", "command", "staging"}

Shows(items, k, kind, given) ==
    CASE kind = "entity"   -> ShowsSet(items, kind, Entities(k), EntityForms(k))
      [] kind = "artifact" -> ShowsSet(items, kind, Artifacts(k), ArtifactForms(k))
      [] kind = "event"    -> ShowsLog(items, kind, EventForms(k))
      [] kind = "receipt"  -> ShowsLog(items, kind, ReceiptForms(k))
      [] kind = "index"    -> ShowsSet(items, kind, {Forged}, {IndexMark})
      [] kind = "command"  -> ShowsSet(items, kind, {c \in Commands : "commandQueue" \in given /\ k.commands[c] # "none"},
                                       CommandForms(k))
      [] kind = "staging"  -> ShowsSet(items, kind, {f \in k.staging : "dataDir" \in given}, StagingForms(k))

ListOf(k, kind, given) ==
    CASE kind = "entity"   -> EntityItems(k)
      [] kind = "artifact" -> ArtifactItems(k)
      [] kind = "event"    -> EventItems(k)
      [] kind = "receipt"  -> ReceiptItems(k)
      [] kind = "index"    -> <<IndexMark>>
      [] kind = "command"  -> QueueItems(k, given)
      [] kind = "staging"  -> StagingItems(k, given)

QuietBackup ==
    LET k == cluster["home"] IN
    backup # NoBackup /\ backup.quiet =>
        /\ \A c \in Commands : commits[c] = Idle
        /\ backup.health = [verify |-> verify(k), doctor |-> doctor(k)]
        /\ \A kind \in KindsRead(backup.step) : Shows(backup.items, k, kind, options)

Settled(k) ==
    /\ LineageSound(k) /\ StoresSound(k) /\ LogsChained(k)
    /\ \A r \in Logs(k) : r.whole
    /\ \A a \in Artifacts(k) : Told(k, a)
    /\ \A j \in DOMAIN k.events : k.events[j].action = "mutation_committed" =>
          \/ Receipted(k, k.events[j].id)
          \/ \E c \in Commands : k.commands[c] = "committed" /\ Unreceipted(k, c)

Portrays(items, k, given) == \A kind \in AllKinds : Shows(items, k, kind, given)

QuietFile ==
    file # NoFile /\ file.quiet => \E k \in Store :
        /\ Settled(k) /\ Portrays(file.items, k, options)
        /\ file.health = [verify |-> verify(k), doctor |-> doctor(k)]

(* Each step of the kernel, by what it writes: of command c, on cluster n.  *)
Proposing(n, c, new) == LET k == cluster[n] IN
    /\ n = "home" /\ k.commands[c] = "none" /\ UNCHANGED <<commits, born>>
    /\ new = [k EXCEPT !.commands[c] = "approved",
                       !.staging = IF Verb[c] = "ingest_artifact" THEN @ \cup {c} ELSE @]
Storing(n, c, new) == LET k == cluster[n] IN
    /\ commits[c] = Idle /\ k.commands[c] = "approved" /\ born + 1 \in Runs /\ born' = born + 1
    /\ \E subject \in Subjects(k, c, born + 1) :
          /\ new = Stored(k, c, born + 1, subject)
          /\ commits' = [commits EXCEPT ![c] =
                [step |-> "event", at |-> n, run |-> born + 1, subject |-> subject]]
Going(n, c, step) == commits[c].step = step /\ commits[c].at = n /\ Continue(c) /\ UNCHANGED born
Recording(n, c, new) == LET k == cluster[n] IN
    /\ Going(n, c, "event")
    /\ new = [k EXCEPT !.events = append(k.events, commits[c].run, "mutation_committed", commits[c].subject)]
Saving(n, c, new) == LET k == cluster[n] IN
    Going(n, c, "save") /\ new = [k EXCEPT !.commands[c] = "committed"]
Acknowledging(n, c, new) == LET k == cluster[n] IN
    /\ Going(n, c, "receipt")
    /\ new = [k EXCEPT !.receipts = appendReceipt(k.receipts, commits[c].run, commits[c].run, c)]
Orphaning(n, c, new) == LET k == cluster[n] IN
    /\ Going(n, c, "receipt")
    /\ \/ new = k
       \/ new = [k EXCEPT !.events =
                   append(k.events, MaxRuns + commits[c].run, "mutation_orphaned", commits[c].subject)]

KernelWrites(n, c, new) ==
    \/ Proposing(n, c, new) \/ Storing(n, c, new) \/ Recording(n, c, new)
    \/ Saving(n, c, new) \/ Acknowledging(n, c, new) \/ Orphaning(n, c, new)

(* What a commit's write to its owner store adds to its sources: nothing   *)
(* but run, the number of the commit.                                      *)
Creates(k, run, subject, new) ==
    /\ Entities(new) = Entities(k) \cup {run} /\ Artifacts(new) = Artifacts(k)
    /\ new.index = k.index \cup {run} /\ new.staging = k.staging /\ subject = run
    /\ new.canonical = [k.canonical EXCEPT ![run] = <<[n |-> 1, by |-> run]>>]
    /\ new.artifacts = k.artifacts
Updates(k, run, subject, new) ==
    /\ Entities(new) = Entities(k) /\ Artifacts(new) = Artifacts(k)
    /\ new.index = k.index /\ new.staging = k.staging /\ subject \in Entities(k)
    /\ new.canonical = [k.canonical EXCEPT ![subject] = Append(@, [n |-> Latest(k, subject).n + 1, by |-> run])]
    /\ new.artifacts = k.artifacts
Ingests(k, run, subject, new) ==
    /\ Entities(new) = Entities(k) /\ Artifacts(new) = Artifacts(k) \cup {run}
    /\ new.index = k.index \cup {run} /\ new.staging \subseteq k.staging /\ subject = run
    /\ new.canonical = k.canonical
    /\ new.artifacts = [k.artifacts EXCEPT ![run] = [filename |-> run, blob |-> "whole"]]
Adds(k, run, subject, new) ==
    /\ Creates(k, run, subject, new) \/ Updates(k, run, subject, new) \/ Ingests(k, run, subject, new)
    /\ new.events = k.events /\ new.receipts = k.receipts /\ new.commands = k.commands

(* What each write of the kernel but that of an owner store does to store k. *)
SameSources(k, new) == new.canonical = k.canonical /\ new.artifacts = k.artifacts /\ new.index = k.index
Proposes(k, c, new) ==
    /\ SameSources(k, new) /\ new.events = k.events /\ new.receipts = k.receipts
    /\ new.staging \subseteq k.staging \cup {c}
    /\ k.commands[c] = "none" /\ new.commands = [k.commands EXCEPT ![c] = "approved"]
Records(k, commit, new) ==
    /\ SameSources(k, new) /\ new.receipts = k.receipts /\ new.staging = k.staging /\ new.commands = k.commands
    /\ new.events = append(k.events, commit.run, "mutation_committed", commit.subject)
Saves(k, c, new) ==
    /\ SameSources(k, new) /\ new.events = k.events /\ new.receipts = k.receipts /\ new.staging = k.staging
    /\ new.commands = [k.commands EXCEPT ![c] = "committed"]
Acknowledges(k, c, commit, new) ==
    /\ SameSources(k, new) /\ new.events = k.events /\ new.staging = k.staging /\ new.commands = k.commands
    /\ new.receipts = appendReceipt(k.receipts, commit.run, commit.run, c)
Orphans(k, commit, new) ==
    /\ SameSources(k, new) /\ new.receipts = k.receipts /\ new.staging = k.staging /\ new.commands = k.commands
    /\ \/ new.events = k.events
       \/ new.events = append(k.events, MaxRuns + commit.run, "mutation_orphaned", commit.subject)

-----------------------------------------------------------------------------
(* What a file leaves of the store that it shows: all but what has lost its *)
(* hash.                                                                   *)
Lost(items, kind, id) == \E i \in DOMAIN items : items[i].kind = kind /\ items[i].id = id /\ Bad(items[i])

LogRemains(items, kind, log, left) ==
    /\ IdsDistinct(log)
    /\ \A j \in DOMAIN log : Lost(items, kind, log[j].id) \/ \E i \in DOMAIN left : left[i] = log[j]
    /\ \A i \in DOMAIN left : \E j \in DOMAIN log : left[i] = log[j] /\ ~ Lost(items, kind, log[j].id)
    /\ \A id : Lost(items, kind, id) => \E j \in DOMAIN log : log[j].id = id
    /\ (\A id : ~ Lost(items, kind, id)) => left = log

(* And its stores: each entity in its latest version.                      *)
StoresRemain(items, k, t) ==
    /\ Entities(t) = Entities(k)
    /\ \A e \in Entities(k) : \E v : t.canonical[e] = <<v>> /\ v.n = Latest(k, e).n
    /\ \A a : a \in Artifacts(t) <=> a \in Artifacts(k) /\ ~ Lost(items, "artifact", a)
    /\ \A a \in Artifacts(t) : t.artifacts[a].blob = "whole" /\ k.artifacts[a].blob = "whole"
    /\ \A a : Lost(items, "artifact", a) => a \in Artifacts(k)
    /\ WithQueue => t.commands = k.commands
    /\ ~ WithQueue => \A c \in Commands : t.commands[c] = "none"
    /\ t.staging \subseteq k.staging

(* With nothing lost but staged files the verdicts are those of before, but *)
(* for the index, and for the lineage of what was ever updated.             *)
Remains(items, k, t) ==
    /\ StoresRemain(items, k, t) /\ t.index \subseteq Sources(t)
    /\ LogRemains(items, "event", k.events, t.events)
    /\ LogRemains(items, "receipt", k.receipts, t.receipts)
NeverRewritten(k) == \A e \in Entities(k) : Latest(k, e).n = 1
=============================================================================
