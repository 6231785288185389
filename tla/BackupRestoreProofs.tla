------------------------- MODULE BackupRestoreProofs -------------------------
(***************************************************************************)
(* What backup and restore promise, for any commands, any number of commits *)
(* and of faults: that a file has the command of every receipt in it, that  *)
(* no altered record gets into a store, and that a restore killed and run   *)
(* again as often as need be leaves what the file says and nothing twice.   *)
(***************************************************************************)
EXTENDS BackupInvariants, PickingProofs

-----------------------------------------------------------------------------
(* What the operators of the model return.                                 *)

(* A finite set of commands as a sequence: each of them once.              *)
LEMMA SequenceOfSet ==
  ASSUME NEW S \in SUBSET Commands
  PROVE  /\ SetToSeq(S) \in Seq(S)
         /\ \A i, j \in DOMAIN SetToSeq(S) : SetToSeq(S)[i] = SetToSeq(S)[j] => i = j
         /\ \A c \in S : \E i \in DOMAIN SetToSeq(S) : SetToSeq(S)[i] = c
<1> DEFINE n == Cardinality(S)
<1>1. IsFiniteSet(S)
  BY CommandsAreFinite, FS_Subset
<1>2. n \in Nat
  BY <1>1, FS_CardinalityType
<1> HIDE DEF n
<1>3. IsFiniteSet(1..n) /\ Cardinality(1..n) = n
  <2>1. 1 \in Int /\ n \in Int /\ (1 > n => n = 0) /\ n - 1 + 1 = n
    BY <1>2
  <2>2. IsFiniteSet(1..n) /\ Cardinality(1..n) = IF 1 > n THEN 0 ELSE n - 1 + 1
    BY <2>1, FS_Interval
  <2> QED
    BY <2>1, <2>2
<1>4. ExistsBijection(1..n, S)
  BY <1>1, <1>3, FS_SameCardinalityBij DEF n
<1>5. \E f \in [1..n -> S] : IsInjective(f)
  BY <1>4 DEF ExistsBijection, Bijection, Injection
<1>6. SetToSeq(S) \in [1..n -> S] /\ IsInjective(SetToSeq(S))
  BY <1>5 DEF SetToSeq, n
<1>7. PICK f : f = SetToSeq(S)
  OBVIOUS
<1>8. f \in [1..n -> S] /\ IsInjective(f)
  BY <1>6, <1>7
<1>9. f \in Surjection(1..n, S)
  <2>1. f \in Injection(1..n, S)
    BY <1>8 DEF Injection
  <2>2. Cardinality(1..n) = Cardinality(S)
    BY <1>3 DEF n
  <2> QED
    BY <1>1, <2>1, <2>2, FS_Injection
<1>10. \A c \in S : \E i \in 1..n : f[i] = c
  BY <1>9 DEF Surjection
<1>11. f \in Seq(S) /\ DOMAIN f = 1..n
  BY <1>2, <1>8
<1>12. \A i, j \in DOMAIN f : f[i] = f[j] => i = j
  BY <1>8 DEF IsInjective
<1> QED
  BY <1>7, <1>10, <1>11, <1>12

LEMMA Naturals == MaxRuns \in Nat /\ MaxFaults \in Nat /\ Runs = 1..MaxRuns /\ Runs \subseteq Nat
  BY BoundsAreNatural DEF Runs

LEMMA LastIdTyped ==
  ASSUME NEW log \in Seq(Event) \cup Seq(Receipt)
  PROVE  LastId(log) \in Nat
<1>1. log # <<>> => log[Len(log)] \in Event \cup Receipt
  <2>1. \A q \in Seq(Event) : q # <<>> => q[Len(q)] \in Event
    OBVIOUS
  <2>2. \A q \in Seq(Receipt) : q # <<>> => q[Len(q)] \in Receipt
    OBVIOUS
  <2> QED
    BY <2>1, <2>2
<1> QED
  BY <1>1 DEF LastId, Event, Receipt

LEMMA AppendTyped ==
  ASSUME NEW log \in Seq(Event), NEW id \in Nat, NEW action \in Actions, NEW subject \in Runs
  PROVE  /\ append(log, id, action, subject) \in Seq(Event)
         /\ Len(append(log, id, action, subject)) = Len(log) + 1
         /\ \A i \in 1..Len(log) : append(log, id, action, subject)[i] = log[i]
         /\ append(log, id, action, subject)[Len(log) + 1] =
              [id |-> id, action |-> action, subject |-> subject, prev |-> LastId(log), whole |-> TRUE]
<1>1. PICK r : r = [id |-> id, action |-> action, subject |-> subject, prev |-> LastId(log), whole |-> TRUE]
  OBVIOUS
<1>2. r \in Event
  BY <1>1, LastIdTyped DEF Event
<1>3. append(log, id, action, subject) = Append(log, r)
  BY <1>1 DEF append
<1> QED
  BY <1>1, <1>2, <1>3

LEMMA AppendReceiptTyped ==
  ASSUME NEW log \in Seq(Receipt), NEW id \in Nat, NEW event \in Nat, NEW cmd \in Commands
  PROVE  /\ appendReceipt(log, id, event, cmd) \in Seq(Receipt)
         /\ Len(appendReceipt(log, id, event, cmd)) = Len(log) + 1
         /\ \A i \in 1..Len(log) : appendReceipt(log, id, event, cmd)[i] = log[i]
         /\ appendReceipt(log, id, event, cmd)[Len(log) + 1] =
              [id |-> id, event |-> event, cmd |-> cmd, prev |-> LastId(log), whole |-> TRUE]
<1>1. PICK r : r = [id |-> id, event |-> event, cmd |-> cmd, prev |-> LastId(log), whole |-> TRUE]
  OBVIOUS
<1>2. r \in Receipt
  BY <1>1, LastIdTyped DEF Receipt
<1>3. appendReceipt(log, id, event, cmd) = Append(log, r)
  BY <1>1 DEF appendReceipt
<1> QED
  BY <1>1, <1>2, <1>3

LEMMA StoreFields ==
  ASSUME NEW k \in Store
  PROVE  /\ k.canonical \in [Runs -> Seq(Version)] /\ k.artifacts \in [Runs -> Metadata]
         /\ k.events \in Seq(Event) /\ k.receipts \in Seq(Receipt)
         /\ k.commands \in [Commands -> Statuses]
         /\ k.staging \in SUBSET Commands /\ k.index \in SUBSET Runs
  BY DEF Store

LEMMA EmptyTyped == Empty \in Store
<1>1. [e \in Runs |-> <<>>] \in [Runs -> Seq(Version)]
  OBVIOUS
<1>2. [a \in Runs |-> NoArtifact] \in [Runs -> Metadata]
  BY DEF NoArtifact, Forged, Metadata, Blobs
<1>3. [c \in Commands |-> "none"] \in [Commands -> Statuses]
  BY DEF Statuses
<1>4. <<>> \in Seq(Event) /\ <<>> \in Seq(Receipt)
  OBVIOUS
<1> QED
  BY <1>1, <1>2, <1>3, <1>4 DEF Empty, Store

LEMMA LatestTyped ==
  ASSUME NEW k \in Store, NEW e \in Entities(k)
  PROVE  e \in Runs /\ Latest(k, e) \in Version
<1>1. e \in Runs /\ k.canonical[e] \in Seq(Version) /\ k.canonical[e] # <<>>
  BY StoreFields DEF Entities
<1>2. \A q \in Seq(Version) : q # <<>> => q[Len(q)] \in Version
  OBVIOUS
<1> QED
  BY <1>1, <1>2 DEF Latest

(* What a commit writes to its owner store.                                *)
LEMMA StoredTyped ==
  ASSUME NEW k \in Store, NEW c \in Commands, NEW run \in Runs, NEW subject \in Subjects(k, c, run)
  PROVE  /\ subject \in Runs
         /\ Stored(k, c, run, subject) \in Store
         /\ Stored(k, c, run, subject).events = k.events
         /\ Stored(k, c, run, subject).receipts = k.receipts
         /\ Stored(k, c, run, subject).commands = k.commands
         /\ \A a \in Runs : \/ Stored(k, c, run, subject).artifacts[a] = k.artifacts[a]
                            \/ Stored(k, c, run, subject).artifacts[a].blob = "whole"
<1>0. run \in Nat
  BY Naturals
<1>1. CASE Verb[c] = "create_entity"
  <2>1. subject \in Runs
    BY <1>1 DEF Subjects
  <2>2. PICK k2 : k2 = [k EXCEPT !.canonical[run] = <<[n |-> 1, by |-> run]>>, !.index = @ \cup {run}]
    OBVIOUS
  <2>3. <<[n |-> 1, by |-> run]>> \in Seq(Version)
    BY <1>0 DEF Version
  <2>4. k2 \in Store /\ k2.events = k.events /\ k2.receipts = k.receipts /\ k2.commands = k.commands
        /\ k2.artifacts = k.artifacts
    BY <2>2, <2>3, StoreFields DEF Store
  <2>5. Stored(k, c, run, subject) = k2
    BY <1>1, <2>2 DEF Stored
  <2> QED
    BY <2>1, <2>4, <2>5
<1>2. CASE Verb[c] = "update_entity"
  <2>1. subject \in Entities(k) /\ subject \in Runs
    BY <1>2, LatestTyped DEF Subjects
  <2>2. PICK v : v = [n |-> Latest(k, subject).n + 1, by |-> run]
    OBVIOUS
  <2>3. v \in Version
    BY <1>0, <2>1, <2>2, LatestTyped DEF Version
  <2>4. PICK k2 : k2 = [k EXCEPT !.canonical[subject] = Append(@, v)]
    OBVIOUS
  <2>5. k.canonical[subject] \in Seq(Version)
    BY <2>1, StoreFields
  <2>6. Append(k.canonical[subject], v) \in Seq(Version)
    BY <2>3, <2>5
  <2>7. k2 \in Store /\ k2.events = k.events /\ k2.receipts = k.receipts /\ k2.commands = k.commands
        /\ k2.artifacts = k.artifacts
    BY <2>4, <2>6, StoreFields DEF Store
  <2>8. Stored(k, c, run, subject) = k2
    BY <1>2, <2>2, <2>4 DEF Stored, Latest
  <2> QED
    BY <2>1, <2>7, <2>8
<1>3. CASE Verb[c] = "ingest_artifact"
  <2>1. subject \in Runs
    BY <1>3 DEF Subjects
  <2>2. PICK k2 : k2 = [k EXCEPT !.artifacts[run] = [filename |-> run, blob |-> "whole"],
                                 !.index = @ \cup {run}, !.staging = @ \ {c}]
    OBVIOUS
  <2>3. [filename |-> run, blob |-> "whole"] \in Metadata
    BY <1>0 DEF Metadata, Blobs
  <2>4. k2 \in Store /\ k2.events = k.events /\ k2.receipts = k.receipts /\ k2.commands = k.commands
    BY <2>2, <2>3, StoreFields DEF Store
  <2>5. \A a \in Runs : k2.artifacts[a] = k.artifacts[a] \/ k2.artifacts[a].blob = "whole"
    BY <2>2, StoreFields
  <2>6. Stored(k, c, run, subject) = k2
    BY <1>3, <2>2 DEF Stored
  <2> QED
    BY <2>1, <2>4, <2>5, <2>6
<1> QED
  BY <1>1, <1>2, <1>3, VerbsAreModelled DEF Verbs

(* What a backup reads: lists of records of one kind, of distinct ids.      *)
LEMMA WidenSeq ==
  ASSUME NEW S, NEW T, S \subseteq T
  PROVE  Seq(S) \subseteq Seq(T)
<1>1. \A q \in Seq(S) : q = [i \in 1..Len(q) |-> q[i]] /\ Len(q) \in Nat /\ \A i \in 1..Len(q) : q[i] \in T
  OBVIOUS
<1> QED
  BY <1>1

LEMMA EntitiesListed ==
  ASSUME NEW k \in Store
  PROVE  /\ EntityItems(k) \in Seq(EntityRecord)
         /\ Distinct(EntityItems(k))
<1> DEFINE es == InOrder(Entities(k))
<1>1. Entities(k) \in SUBSET (1..MaxRuns) /\ MaxRuns \in Nat
  BY Naturals DEF Entities
<1>2. es \in Seq(Entities(k)) /\ \A m, n \in DOMAIN es : es[m] = es[n] => m = n
  BY <1>1, InOrderLists
<1> HIDE DEF es
<1>3. DOMAIN es = 1..Len(es) /\ Len(es) \in Nat /\ \A i \in DOMAIN es : es[i] \in Entities(k)
  BY <1>2
<1>4. EntityItems(k) = [i \in 1..Len(es) |-> EntityItem(es[i], Latest(k, es[i]))]
  BY <1>3 DEF EntityItems, es
<1>5. \A i \in 1..Len(es) : EntityItem(es[i], Latest(k, es[i])) \in EntityRecord
  <2> TAKE i \in 1..Len(es)
  <2>1. es[i] \in Entities(k)
    BY <1>3
  <2>2. es[i] \in Runs /\ Latest(k, es[i]) \in Version
    BY <2>1, LatestTyped
  <2> QED
    BY <2>2 DEF EntityItem, EntityRecord, Version
<1>6. \A i \in 1..Len(es) : EntityItems(k)[i].id = es[i]
  BY <1>4 DEF EntityItem
<1>7. EntityItems(k) \in Seq(EntityRecord) /\ DOMAIN EntityItems(k) = 1..Len(es)
  BY <1>3, <1>4, <1>5
<1> QED
  BY <1>2, <1>3, <1>6, <1>7 DEF Distinct

LEMMA ArtifactsListed ==
  ASSUME NEW k \in Store
  PROVE  /\ ArtifactItems(k) \in Seq(ArtifactRecord)
         /\ Distinct(ArtifactItems(k))
<1> DEFINE es == InOrder(Artifacts(k))
<1>1. Artifacts(k) \in SUBSET (1..MaxRuns) /\ MaxRuns \in Nat
  BY Naturals DEF Artifacts
<1>2. es \in Seq(Artifacts(k)) /\ \A m, n \in DOMAIN es : es[m] = es[n] => m = n
  BY <1>1, InOrderLists
<1> HIDE DEF es
<1>3. DOMAIN es = 1..Len(es) /\ Len(es) \in Nat /\ \A i \in DOMAIN es : es[i] \in Artifacts(k)
  BY <1>2
<1>4. ArtifactItems(k) = [i \in 1..Len(es) |-> ArtifactItem(es[i], k.artifacts[es[i]])]
  BY <1>3 DEF ArtifactItems, es
<1>5. \A i \in 1..Len(es) : ArtifactItem(es[i], k.artifacts[es[i]]) \in ArtifactRecord
  <2> TAKE i \in 1..Len(es)
  <2>1. es[i] \in Runs
    BY <1>3 DEF Artifacts
  <2>2. k.artifacts[es[i]] \in Metadata
    BY <2>1, StoreFields
  <2> QED
    BY <2>1, <2>2 DEF ArtifactItem, ArtifactRecord, Metadata
<1>6. \A i \in 1..Len(es) : ArtifactItems(k)[i].id = es[i]
  BY <1>4 DEF ArtifactItem
<1>7. ArtifactItems(k) \in Seq(ArtifactRecord) /\ DOMAIN ArtifactItems(k) = 1..Len(es)
  BY <1>3, <1>4, <1>5
<1> QED
  BY <1>2, <1>3, <1>6, <1>7 DEF Distinct

LEMMA EventsListed ==
  ASSUME NEW k \in Store
  PROVE  /\ EventItems(k) \in Seq(EventRecord)
         /\ IdsDistinct(k.events) => Distinct(EventItems(k))
<1>1. k.events \in Seq(Event)
  BY StoreFields
<1>2. DOMAIN k.events = 1..Len(k.events) /\ Len(k.events) \in Nat /\ \A i \in DOMAIN k.events : k.events[i] \in Event
  BY <1>1
<1>3. \A r \in Event : EventItem(r) \in EventRecord /\ EventItem(r).id = r.id
  BY DEF EventItem, EventRecord, Event
<1>4. EventItems(k) = [i \in 1..Len(k.events) |-> EventItem(k.events[i])]
  BY <1>2 DEF EventItems
<1>5. EventItems(k) \in Seq(EventRecord) /\ DOMAIN EventItems(k) = DOMAIN k.events
  BY <1>2, <1>3, <1>4
<1>6. \A i \in DOMAIN k.events : EventItems(k)[i].id = k.events[i].id
  BY <1>2, <1>3, <1>4
<1> QED
  BY <1>5, <1>6 DEF Distinct, IdsDistinct

LEMMA ReceiptsListed ==
  ASSUME NEW k \in Store
  PROVE  /\ ReceiptItems(k) \in Seq(ReceiptRecord)
         /\ IdsDistinct(k.receipts) => Distinct(ReceiptItems(k))
         /\ \A i \in DOMAIN ReceiptItems(k) : \E j \in DOMAIN k.receipts : ReceiptItems(k)[i].cmd = k.receipts[j].cmd
<1>1. k.receipts \in Seq(Receipt)
  BY StoreFields
<1>2. DOMAIN k.receipts = 1..Len(k.receipts) /\ Len(k.receipts) \in Nat /\ \A i \in DOMAIN k.receipts : k.receipts[i] \in Receipt
  BY <1>1
<1>3. \A r \in Receipt : ReceiptItem(r) \in ReceiptRecord /\ ReceiptItem(r).id = r.id /\ ReceiptItem(r).cmd = r.cmd
  BY DEF ReceiptItem, ReceiptRecord, Receipt
<1>4. ReceiptItems(k) = [i \in 1..Len(k.receipts) |-> ReceiptItem(k.receipts[i])]
  BY <1>2 DEF ReceiptItems
<1>5. ReceiptItems(k) \in Seq(ReceiptRecord) /\ DOMAIN ReceiptItems(k) = DOMAIN k.receipts
  BY <1>2, <1>3, <1>4
<1>6. \A i \in DOMAIN k.receipts : ReceiptItems(k)[i].id = k.receipts[i].id
                                   /\ ReceiptItems(k)[i].cmd = k.receipts[i].cmd
  BY <1>2, <1>3, <1>4
<1> QED
  BY <1>5, <1>6 DEF Distinct, IdsDistinct

LEMMA QueueListed ==
  ASSUME NEW k \in Store
  PROVE  /\ QueueItems(k, options) \in Seq(CommandRecord)
         /\ Distinct(QueueItems(k, options))
         /\ \A c \in Commands : "commandQueue" \in options /\ k.commands[c] # "none" =>
              \E i \in DOMAIN QueueItems(k, options) : QueueItems(k, options)[i].id = c
         /\ \A i \in DOMAIN QueueItems(k, options) : QueueItems(k, options)[i].status = k.commands[QueueItems(k, options)[i].id]
<1> DEFINE S == {c \in Commands : "commandQueue" \in options /\ k.commands[c] # "none"}
           cs == SetToSeq(S)
<1>1. S \in SUBSET Commands
  OBVIOUS
<1> HIDE DEF S
<1>2. /\ cs \in Seq(S)
      /\ \A i, j \in DOMAIN cs : cs[i] = cs[j] => i = j
      /\ \A c \in S : \E i \in DOMAIN cs : cs[i] = c
  BY <1>1, SequenceOfSet
<1> HIDE DEF cs
<1>3. DOMAIN cs = 1..Len(cs) /\ Len(cs) \in Nat /\ \A i \in DOMAIN cs : cs[i] \in Commands
  BY <1>1, <1>2
<1>4. QueueItems(k, options) = [i \in 1..Len(cs) |-> [kind |-> "command", id |-> cs[i], status |-> k.commands[cs[i]]]]
  BY <1>3 DEF QueueItems, cs, S
<1>5. \A i \in 1..Len(cs) : [kind |-> "command", id |-> cs[i], status |-> k.commands[cs[i]]] \in CommandRecord
  BY <1>3, StoreFields DEF CommandRecord
<1>6. QueueItems(k, options) \in Seq(CommandRecord) /\ DOMAIN QueueItems(k, options) = DOMAIN cs
  BY <1>3, <1>4, <1>5
<1>7. \A i \in DOMAIN cs : QueueItems(k, options)[i].id = cs[i] /\ QueueItems(k, options)[i].status = k.commands[cs[i]]
  BY <1>3, <1>4
<1>8. \A c \in Commands : "commandQueue" \in options /\ k.commands[c] # "none" => c \in S
  BY DEF S
<1> QED
  BY <1>2, <1>6, <1>7, <1>8 DEF Distinct

LEMMA StagingListed ==
  ASSUME NEW k \in Store
  PROVE  /\ StagingItems(k, options) \in Seq(StagingRecord)
         /\ Distinct(StagingItems(k, options))
<1> DEFINE S == {f \in k.staging : "dataDir" \in options}
           fs == SetToSeq(S)
<1>1. S \in SUBSET Commands
  BY StoreFields
<1> HIDE DEF S
<1>2. /\ fs \in Seq(S)
      /\ \A i, j \in DOMAIN fs : fs[i] = fs[j] => i = j
  BY <1>1, SequenceOfSet
<1> HIDE DEF fs
<1>3. DOMAIN fs = 1..Len(fs) /\ Len(fs) \in Nat /\ \A i \in DOMAIN fs : fs[i] \in Commands
  BY <1>1, <1>2
<1>4. StagingItems(k, options) = [i \in 1..Len(fs) |-> [kind |-> "staging", id |-> fs[i], whole |-> TRUE]]
  BY <1>3 DEF StagingItems, fs, S
<1>5. \A i \in 1..Len(fs) : [kind |-> "staging", id |-> fs[i], whole |-> TRUE] \in StagingRecord
  BY <1>3 DEF StagingRecord
<1>6. StagingItems(k, options) \in Seq(StagingRecord) /\ DOMAIN StagingItems(k, options) = DOMAIN fs
  BY <1>3, <1>4, <1>5
<1>7. \A i \in DOMAIN fs : StagingItems(k, options)[i].id = fs[i]
  BY <1>3, <1>4
<1> QED
  BY <1>2, <1>6, <1>7 DEF Distinct

-----------------------------------------------------------------------------
(* What a step does to one cluster, and what it leaves alone.  Clean: it    *)
(* brings in no record that was edited and no blob that was changed.       *)
Clean(k, new) ==
  /\ \A r \in Logs(new) : r \in Logs(k) \/ r.whole
  /\ \A a \in Runs : new.artifacts[a] = k.artifacts[a] \/ new.artifacts[a].blob = "whole"

Turns(n, new) == new \in Store /\ cluster' = [cluster EXCEPT ![n] = new]

LEMMA SameIsClean ==
  ASSUME NEW k, NEW new, new.events = k.events, new.receipts = k.receipts, new.artifacts = k.artifacts
  PROVE  Clean(k, new)
  BY DEF Clean, Logs

LEMMA RangeOfAppend ==
  ASSUME NEW S, NEW q \in Seq(S), NEW r \in S
  PROVE  Range(Append(q, r)) \subseteq Range(q) \cup {r}
<1>1. DOMAIN q = 1..Len(q) /\ DOMAIN Append(q, r) = 1..Len(q) + 1 /\ Len(q) \in Nat
  OBVIOUS
<1>2. \A i \in 1..Len(q) + 1 : Append(q, r)[i] = IF i = Len(q) + 1 THEN r ELSE q[i]
  OBVIOUS
<1>3. \A i \in 1..Len(q) + 1 : i \in 1..Len(q) \/ i = Len(q) + 1
  BY <1>1
<1> QED
  BY <1>1, <1>2, <1>3 DEF Range

LEMMA EventIsClean ==
  ASSUME NEW k \in Store, NEW r \in Event, r.whole, NEW new,
         new.events = Append(k.events, r), new.receipts = k.receipts, new.artifacts = k.artifacts
  PROVE  Clean(k, new)
<1>1. k.events \in Seq(Event)
  BY StoreFields
<1>2. Range(new.events) \subseteq Range(k.events) \cup {r}
  BY <1>1, RangeOfAppend
<1> QED
  BY <1>1, <1>2 DEF Clean, Logs

LEMMA ReceiptIsClean ==
  ASSUME NEW k \in Store, NEW r \in Receipt, r.whole, NEW new,
         new.receipts = Append(k.receipts, r), new.events = k.events, new.artifacts = k.artifacts
  PROVE  Clean(k, new)
<1>1. k.receipts \in Seq(Receipt)
  BY StoreFields
<1>2. Range(new.receipts) \subseteq Range(k.receipts) \cup {r}
  BY <1>1, RangeOfAppend
<1> QED
  BY <1>1, <1>2 DEF Clean, Logs

LEMMA TurnsTyped ==
  ASSUME Typed, NEW n \in Clusters, NEW new, Turns(n, new)
  PROVE  /\ cluster' \in [Clusters -> Store]
         /\ cluster'[n] = new
         /\ \A m \in Clusters : m # n => cluster'[m] = cluster[m]
  BY DEF Typed, Turns

LEMMA CommitFields ==
  ASSUME Typed, NEW c \in Commands
  PROVE  /\ commits[c] \in Commit \cup {Idle}
         /\ commits[c] = Idle <=> commits[c].step = "none"
         /\ commits[c].step \in Steps => /\ commits[c] \in Commit
                                         /\ commits[c].at \in Clusters
                                         /\ commits[c].run \in Runs /\ commits[c].run \in Nat
                                         /\ commits[c].subject \in Runs
  BY Naturals DEF Typed, Idle, Commit, Steps

LEMMA StepBackup ==
  ASSUME Typed
  PROVE  /\ backup = NoBackup <=> backup.step = "none"
         /\ backup # NoBackup => backup \in Backup
         /\ backup.items \in Seq(StoreRecord)
<1>1. backup \in Backup \/ backup = NoBackup
  BY DEF Typed
<1>2. NoBackup.items = <<>> /\ NoBackup.step = "none" /\ <<>> \in Seq(StoreRecord)
  BY DEF NoBackup
<1>3. backup \in Backup => backup.items \in Seq(StoreRecord) /\ backup.step # "none"
  BY DEF Backup, Stages
<1> QED
  BY <1>1, <1>2, <1>3

LEMMA DisturbsTyped ==
  ASSUME Typed, NEW n \in Clusters, Disturbs(n)
  PROVE  /\ foreign' \in SUBSET Clusters
         /\ backup' \in Backup \cup {NoBackup}
         /\ backup'.items = backup.items /\ backup'.step = backup.step
         /\ backup' # NoBackup => backup # NoBackup
<1>1. foreign' \in SUBSET Clusters
  BY DEF Typed, Disturbs
<1>2. backup' = backup \/ backup' = [backup EXCEPT !.quiet = FALSE]
  BY DEF Disturbs
<1>3. CASE backup' = backup
  BY <1>1, <1>3 DEF Typed
<1>4. CASE backup' = [backup EXCEPT !.quiet = FALSE]
  <2>1. CASE backup = NoBackup
    <3>1. backup' = NoBackup
      BY <1>4, <2>1 DEF NoBackup
    <3> QED
      BY <1>1, <2>1, <3>1
  <2>2. CASE backup \in Backup
    <3>1. backup' \in Backup /\ backup'.items = backup.items /\ backup'.step = backup.step
      BY <1>4, <2>2 DEF Backup
    <3> QED
      BY <1>1, <2>2, <3>1 DEF Backup, NoBackup, Stages
  <2> QED
    BY <2>1, <2>2 DEF Typed
<1> QED
  BY <1>2, <1>3, <1>4

LEMMA ContinueTyped ==
  ASSUME Typed, NEW c \in Commands, commits[c].step \in Steps, Continue(c)
  PROVE  /\ commits' \in [Commands -> Commit \cup {Idle}]
         /\ \A d \in Commands : d # c => commits'[d] = commits[d]
         /\ commits[c].step = "receipt" => commits'[c] = Idle
         /\ commits[c].step # "receipt" =>
              /\ commits'[c].step = NextPhase[commits[c].step]
              /\ commits'[c].at = commits[c].at /\ commits'[c].run = commits[c].run
              /\ commits'[c].subject = commits[c].subject
<1>1. PICK next : next = NextPhase[commits[c].step]
  OBVIOUS
<1>2. commits[c] \in Commit
  BY CommitFields
<1>3. /\ commits[c].step = "receipt" <=> next = "none"
      /\ next # "none" => next \in Steps
  BY <1>1 DEF NextPhase, Steps
<1>4. commits' = [commits EXCEPT ![c] = IF next = "none" THEN Idle ELSE [@ EXCEPT !.step = next]]
  BY <1>1 DEF Continue
<1>5. commits \in [Commands -> Commit \cup {Idle}]
  BY DEF Typed
<1>6. next \in Steps => [commits[c] EXCEPT !.step = next] \in Commit
  BY <1>2 DEF Commit
<1>7. commits' \in [Commands -> Commit \cup {Idle}] /\ \A d \in Commands : d # c => commits'[d] = commits[d]
  BY <1>3, <1>4, <1>5, <1>6
<1>8. commits'[c] = IF next = "none" THEN Idle ELSE [commits[c] EXCEPT !.step = next]
  BY <1>4, <1>5
<1>9. next # "none" => /\ commits'[c].step = next
              /\ commits'[c].at = commits[c].at /\ commits'[c].run = commits[c].run
              /\ commits'[c].subject = commits[c].subject
  BY <1>2, <1>8 DEF Commit
<1> QED
  BY <1>1, <1>3, <1>7, <1>8, <1>9

(* The steps of the kernel, each on one cluster.                           *)
LEMMA ProposeDoes ==
  ASSUME Typed, NEW c \in Commands, Propose(c)
  PROVE  LET k == cluster["home"] IN
         \E new : /\ Turns("home", new) /\ Clean(k, new)
                  /\ new.events = k.events /\ new.receipts = k.receipts
                  /\ k.commands[c] = "none"
                  /\ \A d \in Commands : d # c => new.commands[d] = k.commands[d]
<1>1. PICK k : k = cluster["home"]
  OBVIOUS
<1>2. k \in Store
  BY <1>1 DEF Typed, Clusters
<1>3. PICK new : new = [k EXCEPT !.commands[c] = "approved",
                                 !.staging = IF Verb[c] = "ingest_artifact" THEN @ \cup {c} ELSE @]
  OBVIOUS
<1>4. /\ new \in Store /\ new.events = k.events /\ new.receipts = k.receipts /\ new.artifacts = k.artifacts
      /\ \A d \in Commands : d # c => new.commands[d] = k.commands[d]
  BY <1>2, <1>3 DEF Store, Statuses
<1>5. cluster' = [cluster EXCEPT !["home"] = new]
  BY <1>1, <1>3 DEF Propose
<1>6. k.commands[c] = "none"
  BY <1>1 DEF Propose
<1> QED
  BY <1>1, <1>4, <1>5, <1>6, SameIsClean DEF Turns

LEMMA CommitStoreDoes ==
  ASSUME Typed, NEW n \in Clusters, NEW c \in Commands, CommitStore(n, c)
  PROVE  /\ \E new : /\ Turns(n, new) /\ Clean(cluster[n], new)
                     /\ new.events = cluster[n].events /\ new.receipts = cluster[n].receipts
                     /\ new.commands = cluster[n].commands
         /\ commits[c] = Idle /\ born < MaxRuns /\ born' = born + 1 /\ born' \in Runs
         /\ \E subject \in Runs :
               commits' = [commits EXCEPT ![c] =
                  [step |-> "event", at |-> n, run |-> born + 1, subject |-> subject]]
<1>1. PICK k : k = cluster[n]
  OBVIOUS
<1>2. k \in Store
  BY <1>1 DEF Typed
<1>3. born \in Nat /\ born < MaxRuns /\ born + 1 \in Runs
  BY Naturals DEF Typed, CommitStore
<1>4. PICK subject \in Subjects(k, c, born + 1) :
        /\ cluster' = [cluster EXCEPT ![n] = Stored(k, c, born + 1, subject)]
        /\ commits' = [commits EXCEPT ![c] =
              [step |-> "event", at |-> n, run |-> born + 1, subject |-> subject]]
  BY <1>1 DEF CommitStore
<1>5. PICK new : new = Stored(k, c, born + 1, subject)
  OBVIOUS
<1>6. /\ subject \in Runs /\ new \in Store
      /\ new.events = k.events /\ new.receipts = k.receipts /\ new.commands = k.commands
      /\ \A a \in Runs : new.artifacts[a] = k.artifacts[a] \/ new.artifacts[a].blob = "whole"
  BY <1>2, <1>3, <1>5, StoredTyped
<1>7. Clean(k, new)
  BY <1>6 DEF Clean, Logs
<1>8. Turns(n, new)
  BY <1>4, <1>5, <1>6 DEF Turns
<1> QED
  BY <1>1, <1>3, <1>4, <1>6, <1>7, <1>8 DEF CommitStore

LEMMA CommitEventDoes ==
  ASSUME Typed, NEW c \in Commands, CommitEvent(c)
  PROVE  LET k == cluster[commits[c].at] IN
         \E new : /\ Turns(commits[c].at, new) /\ Clean(k, new)
                  /\ new.events = append(k.events, commits[c].run, "mutation_committed", commits[c].subject)
                  /\ new.receipts = k.receipts /\ new.commands = k.commands
<1>0. commits[c].step \in Steps
  BY DEF CommitEvent, Steps
<1>1. PICK n, run, subject : n = commits[c].at /\ run = commits[c].run /\ subject = commits[c].subject
  OBVIOUS
<1>2. n \in Clusters /\ run \in Nat /\ subject \in Runs
  BY <1>0, <1>1, CommitFields
<1>3. PICK k : k = cluster[n]
  OBVIOUS
<1>4. k \in Store
  BY <1>2, <1>3 DEF Typed
<1>5. PICK log : log = append(k.events, run, "mutation_committed", subject)
  OBVIOUS
<1>6. log \in Seq(Event)
  BY <1>2, <1>4, <1>5, StoreFields, AppendTyped DEF Actions
<1>7. PICK new : new = [k EXCEPT !.events = log]
  OBVIOUS
<1>8. new \in Store /\ new.events = log /\ new.receipts = k.receipts /\ new.commands = k.commands
      /\ new.artifacts = k.artifacts
  BY <1>4, <1>6, <1>7 DEF Store
<1>9. cluster' = [cluster EXCEPT ![n] = new]
  BY <1>1, <1>3, <1>5, <1>7 DEF CommitEvent
<1>10. Clean(k, new)
  <2>1. PICK r : r = [id |-> run, action |-> "mutation_committed", subject |-> subject,
                      prev |-> LastId(k.events), whole |-> TRUE]
    OBVIOUS
  <2>2. r \in Event /\ r.whole
    BY <1>2, <1>4, <2>1, StoreFields, LastIdTyped DEF Event, Actions
  <2>3. log = Append(k.events, r)
    BY <1>5, <2>1 DEF append
  <2> QED
    BY <1>4, <1>8, <2>2, <2>3, EventIsClean
<1> QED
  BY <1>1, <1>3, <1>5, <1>8, <1>9, <1>10 DEF Turns

LEMMA CommitSaveDoes ==
  ASSUME Typed, NEW c \in Commands, CommitSave(c)
  PROVE  LET k == cluster[commits[c].at] IN
         \E new : /\ Turns(commits[c].at, new) /\ Clean(k, new)
                  /\ new.events = k.events /\ new.receipts = k.receipts
                  /\ new.commands = [k.commands EXCEPT ![c] = "committed"]
<1>0. commits[c].step \in Steps
  BY DEF CommitSave, Steps
<1>1. PICK n : n = commits[c].at
  OBVIOUS
<1>2. n \in Clusters
  BY <1>0, <1>1, CommitFields
<1>3. PICK k : k = cluster[n]
  OBVIOUS
<1>4. k \in Store
  BY <1>2, <1>3 DEF Typed
<1>5. PICK new : new = [k EXCEPT !.commands[c] = "committed"]
  OBVIOUS
<1>6. new \in Store /\ new.events = k.events /\ new.receipts = k.receipts /\ new.artifacts = k.artifacts
      /\ new.commands = [k.commands EXCEPT ![c] = "committed"]
  BY <1>4, <1>5 DEF Store, Statuses
<1>7. cluster' = [cluster EXCEPT ![n] = new]
  BY <1>1, <1>3, <1>5 DEF CommitSave
<1> QED
  BY <1>1, <1>3, <1>6, <1>7, SameIsClean DEF Turns

LEMMA CommitReceiptDoes ==
  ASSUME Typed, NEW c \in Commands, CommitReceipt(c)
  PROVE  LET k == cluster[commits[c].at] IN
         \E new : /\ Turns(commits[c].at, new) /\ Clean(k, new)
                  /\ new.receipts = appendReceipt(k.receipts, commits[c].run, commits[c].run, c)
                  /\ new.events = k.events /\ new.commands = k.commands
<1>0. commits[c].step \in Steps
  BY DEF CommitReceipt, Steps
<1>1. PICK n, run : n = commits[c].at /\ run = commits[c].run
  OBVIOUS
<1>2. n \in Clusters /\ run \in Nat
  BY <1>0, <1>1, CommitFields
<1>3. PICK k : k = cluster[n]
  OBVIOUS
<1>4. k \in Store
  BY <1>2, <1>3 DEF Typed
<1>5. PICK log : log = appendReceipt(k.receipts, run, run, c)
  OBVIOUS
<1>6. log \in Seq(Receipt)
  BY <1>2, <1>4, <1>5, StoreFields, AppendReceiptTyped
<1>7. PICK new : new = [k EXCEPT !.receipts = log]
  OBVIOUS
<1>8. new \in Store /\ new.receipts = log /\ new.events = k.events /\ new.commands = k.commands
      /\ new.artifacts = k.artifacts
  BY <1>4, <1>6, <1>7 DEF Store
<1>9. cluster' = [cluster EXCEPT ![n] = new]
  BY <1>1, <1>3, <1>5, <1>7 DEF CommitReceipt
<1>10. Clean(k, new)
  <2>1. PICK r : r = [id |-> run, event |-> run, cmd |-> c, prev |-> LastId(k.receipts), whole |-> TRUE]
    OBVIOUS
  <2>2. r \in Receipt /\ r.whole
    BY <1>2, <1>4, <2>1, StoreFields, LastIdTyped DEF Receipt
  <2>3. log = Append(k.receipts, r)
    BY <1>5, <2>1 DEF appendReceipt
  <2> QED
    BY <1>4, <1>8, <2>2, <2>3, ReceiptIsClean
<1> QED
  BY <1>1, <1>3, <1>5, <1>8, <1>9, <1>10 DEF Turns

LEMMA OrphanDoes ==
  ASSUME Typed, NEW c \in Commands, recordOrphanMutation(c)
  PROVE  LET k == cluster[commits[c].at] IN
         \E new : /\ Turns(commits[c].at, new) /\ Clean(k, new)
                  /\ \/ new.events = k.events
                     \/ new.events = append(k.events, MaxRuns + commits[c].run, "mutation_orphaned",
                                            commits[c].subject)
                  /\ new.receipts = k.receipts /\ new.commands = k.commands
<1>0. commits[c].step \in Steps
  BY DEF recordOrphanMutation, Steps
<1>1. PICK n, run, subject : n = commits[c].at /\ run = MaxRuns + commits[c].run /\ subject = commits[c].subject
  OBVIOUS
<1>2. n \in Clusters /\ run \in Nat /\ subject \in Runs
  BY <1>0, <1>1, CommitFields, Naturals
<1>3. PICK k : k = cluster[n]
  OBVIOUS
<1>4. k \in Store
  BY <1>2, <1>3 DEF Typed
<1>5. PICK log : log = append(k.events, run, "mutation_orphaned", subject)
  OBVIOUS
<1>6. log \in Seq(Event)
  BY <1>2, <1>4, <1>5, StoreFields, AppendTyped DEF Actions
<1>7. PICK new : new = [k EXCEPT !.events = log]
  OBVIOUS
<1>8. new \in Store /\ new.events = log /\ new.receipts = k.receipts /\ new.commands = k.commands
      /\ new.artifacts = k.artifacts
  BY <1>4, <1>6, <1>7 DEF Store
<1>9. Clean(k, new)
  <2>1. PICK r : r = [id |-> run, action |-> "mutation_orphaned", subject |-> subject,
                      prev |-> LastId(k.events), whole |-> TRUE]
    OBVIOUS
  <2>2. r \in Event /\ r.whole
    BY <1>2, <1>4, <2>1, StoreFields, LastIdTyped DEF Event, Actions
  <2>3. log = Append(k.events, r)
    BY <1>5, <2>1 DEF append
  <2> QED
    BY <1>4, <1>8, <2>2, <2>3, EventIsClean
<1>10. CASE UNCHANGED cluster
  <2>1. Turns(n, k) /\ Clean(k, k)
    BY <1>2, <1>3, <1>4, <1>10, SameIsClean DEF Turns, Typed
  <2> QED
    BY <1>1, <1>3, <2>1
<1>11. CASE cluster' = [cluster EXCEPT ![n] = new]
  BY <1>1, <1>3, <1>5, <1>8, <1>9, <1>11 DEF Turns
<1>12. UNCHANGED cluster \/ cluster' = [cluster EXCEPT ![n] = new]
  BY <1>1, <1>3, <1>5, <1>7 DEF recordOrphanMutation
<1> QED
  BY <1>10, <1>11, <1>12

(* The steps of a restore, each on the cluster it goes into.               *)
LEMMA FileTyped ==
  ASSUME Typed
  PROVE  /\ file.items \in Seq(Record)
         /\ Len(file.items) \in Nat /\ DOMAIN file.items = 1..Len(file.items)
         /\ \A i \in DOMAIN file.items : file.items[i] \in Record
<1>1. file \in File \/ file = NoFile
  BY DEF Typed
<1>2. NoFile.items = <<>> /\ <<>> \in Seq(Record)
  BY DEF NoFile
<1>3. file.items \in Seq(Record)
  BY <1>1, <1>2 DEF File
<1> QED
  BY <1>3

LEMMA Running ==
  ASSUME Typed, InOrderOfUse, restore.step = "running"
  PROVE  /\ restore \in Restore /\ file # NoFile
         /\ restore.at \in Nat /\ restore.at \in DOMAIN file.items
         /\ restore.into \in Clusters
         /\ Current \in Record
         /\ Target \in Store
<1>1. restore \in Restore
  BY DEF Typed, NoRestore
<1>2. restore.at \in DOMAIN file.items /\ restore.at \in Nat /\ restore.into \in Clusters /\ file # NoFile
  BY <1>1 DEF InOrderOfUse, Restore, NoRestore
<1> QED
  BY <1>1, <1>2, FileTyped DEF Current, Target, Typed

LEMMA KindOfRecord ==
  ASSUME NEW x \in Record
  PROVE  /\ x.kind = "entity" => x \in EntityRecord
         /\ x.kind = "artifact" => x \in ArtifactRecord
         /\ x.kind = "event" => x \in EventRecord
         /\ x.kind = "receipt" => x \in ReceiptRecord
         /\ x.kind = "index" => x = IndexMark
         /\ x.kind = "command" => x \in CommandRecord
         /\ x.kind = "staging" => x \in StagingRecord
         /\ x.kind \in {"entity", "artifact", "event", "receipt", "index", "command", "staging"}
  BY DEF Record, StoreRecord, EntityRecord, ArtifactRecord, EventRecord, ReceiptRecord, IndexMark,
         CommandRecord, StagingRecord

(* What a restore does with a record, or with the index.                   *)
Moves == \/ Skips \/ Refuses \/ \E k : Writes(k)
         \/ \E index \in SUBSET Runs, unindexed \in BOOLEAN : Reindexes(index, unindexed)

LEMMA Advances ==
  ASSUME Typed, InOrderOfUse, restore.step = "running", Moves
  PROVE  /\ restore' \in Restore
         /\ restore'.at = restore.at + 1 /\ restore'.into = restore.into
         /\ restore'.step = IF restore.at = Len(file.items) THEN "done" ELSE "running"
         /\ restore'.errors \subseteq restore.errors \cup {restore.at}
<1>1. restore \in Restore /\ restore.at \in Nat
  BY Running
<1>0. PICK step, at : step = (IF restore.at = Len(file.items) THEN "done" ELSE "running") /\ at = restore.at + 1
  OBVIOUS
<1>7. step \in {"running", "done"} /\ at \in Nat
  BY <1>0, <1>1
<1>2. PICK r : r = [restore EXCEPT !.at = at, !.step = step]
  OBVIOUS
<1>8. r = Advanced
  BY <1>0, <1>2 DEF Advanced
<1>3. /\ r \in Restore /\ r.at = restore.at + 1 /\ r.into = restore.into /\ r.errors = restore.errors
      /\ r.step = IF restore.at = Len(file.items) THEN "done" ELSE "running"
  BY <1>0, <1>1, <1>2, <1>7 DEF Restore
<1>4. CASE restore' = r
  BY <1>3, <1>4
<1>5. CASE restore' = [r EXCEPT !.errors = @ \cup {restore.at}]
  BY <1>1, <1>3, <1>5 DEF Restore
<1>6. CASE \E unindexed \in BOOLEAN : restore' = [r EXCEPT !.unindexed = unindexed]
  BY <1>1, <1>3, <1>6 DEF Restore
<1>9. \/ restore' = r \/ restore' = [r EXCEPT !.errors = @ \cup {restore.at}]
      \/ \E unindexed \in BOOLEAN : restore' = [r EXCEPT !.unindexed = unindexed]
  BY <1>8 DEF Moves, Skips, Refuses, Writes, Reindexes
<1> QED
  BY <1>4, <1>5, <1>6, <1>9

(* The cluster that a restore goes into becomes new.                       *)
Brings(new) == Turns(restore.into, new) /\ Clean(Target, new) /\ Moves

LEMMA Skipping ==
  ASSUME Typed, InOrderOfUse, restore.step = "running", Skips \/ Refuses
  PROVE  Brings(Target)
<1>1. cluster' = cluster /\ cluster \in [Clusters -> Store] /\ restore.into \in Clusters
  BY Running DEF Skips, Refuses, Typed
<1>2. Turns(restore.into, Target)
  BY <1>1 DEF Turns, Target
<1> QED
  BY <1>2, SameIsClean DEF Brings, Moves

LEMMA EntityBrings ==
  ASSUME Typed, InOrderOfUse, RestoreEntity
  PROVE  \E new : Brings(new)
<1>1. restore.step = "running" /\ Current.kind = "entity"
  BY DEF RestoreEntity, Handles
<1>2. Current \in EntityRecord /\ Target \in Store
  BY <1>1, Running, KindOfRecord
<1>3. PICK new : new = [Target EXCEPT !.canonical[Current.id] = <<[n |-> Current.n, by |-> Current.by]>>]
  OBVIOUS
<1>4. [n |-> Current.n, by |-> Current.by] \in Version
  BY <1>2 DEF EntityRecord, Version
<1>5. PICK s : s = <<[n |-> Current.n, by |-> Current.by]>>
  OBVIOUS
<1>6. s \in Seq(Version)
  BY <1>4, <1>5
<1>7. new = [Target EXCEPT !.canonical[Current.id] = s]
  BY <1>3, <1>5
<1>8. new \in Store /\ new.events = Target.events /\ new.receipts = Target.receipts
      /\ new.artifacts = Target.artifacts
  BY <1>2, <1>6, <1>7 DEF Store
<1>9. CASE Writes(new)
  BY <1>8, <1>9, SameIsClean DEF Brings, Moves, Turns, Writes
<1>10. Skips \/ Refuses \/ Writes(new)
  BY <1>3 DEF RestoreEntity
<1> QED
  BY <1>1, <1>9, <1>10, Skipping

LEMMA ArtifactBrings ==
  ASSUME Typed, InOrderOfUse, RestoreArtifact
  PROVE  \E new : Brings(new)
<1>1. restore.step = "running" /\ Current.kind = "artifact"
  BY DEF RestoreArtifact, Handles
<1>2. Current \in ArtifactRecord /\ Target \in Store
  BY <1>1, Running, KindOfRecord
<1>3. PICK m : m = [filename |-> Current.filename, blob |-> "whole"]
  OBVIOUS
<1>4. m \in Metadata /\ m.blob = "whole" /\ Current.id \in Runs
  BY <1>2, <1>3 DEF ArtifactRecord, Metadata, Blobs
<1>5. PICK new : new = [Target EXCEPT !.artifacts[Current.id] = m]
  OBVIOUS
<1>6. /\ new \in Store /\ new.events = Target.events /\ new.receipts = Target.receipts
      /\ \A a \in Runs : new.artifacts[a] = Target.artifacts[a] \/ new.artifacts[a].blob = "whole"
  BY <1>2, <1>4, <1>5 DEF Store
<1>7. CASE Writes(new)
  BY <1>6, <1>7 DEF Brings, Moves, Turns, Writes, Clean, Logs
<1>8. Skips \/ Refuses \/ Writes(new)
  BY <1>3, <1>5 DEF RestoreArtifact
<1> QED
  BY <1>1, <1>7, <1>8, Skipping

LEMMA EventBrings ==
  ASSUME Typed, InOrderOfUse, RestoreEvent
  PROVE  \E new : Brings(new)
<1>1. restore.step = "running" /\ Current.kind = "event"
  BY DEF RestoreEvent, Handles
<1>2. Current \in EventRecord /\ Target \in Store
  BY <1>1, Running, KindOfRecord
<1>3. PICK r : r = EventOf(Current)
  OBVIOUS
<1>4. r \in Event
  BY <1>2, <1>3 DEF EventOf, EventRecord, Event
<1>5. PICK new : new = [Target EXCEPT !.events = Append(@, r)]
  OBVIOUS
<1>6. Target.events \in Seq(Event)
  BY <1>2, StoreFields
<1>7. Append(Target.events, r) \in Seq(Event)
  BY <1>4, <1>6
<1>8. new \in Store /\ new.events = Append(Target.events, r) /\ new.receipts = Target.receipts
      /\ new.artifacts = Target.artifacts
  BY <1>2, <1>5, <1>7 DEF Store
<1>9. CASE r.whole /\ Writes(new)
  <2>1. Clean(Target, new)
    BY <1>2, <1>4, <1>8, <1>9, EventIsClean
  <2> QED
    BY <1>8, <1>9, <2>1 DEF Brings, Moves, Turns, Writes
<1>10. Skips \/ Refuses \/ (r.whole /\ Writes(new))
  BY <1>3, <1>5 DEF RestoreEvent, RestoreLog, reconcileImportedIntegrity
<1> QED
  BY <1>1, <1>9, <1>10, Skipping

LEMMA ReceiptBrings ==
  ASSUME Typed, InOrderOfUse, RestoreReceipt
  PROVE  \E new : Brings(new)
<1>1. restore.step = "running" /\ Current.kind = "receipt"
  BY DEF RestoreReceipt, Handles
<1>2. Current \in ReceiptRecord /\ Target \in Store
  BY <1>1, Running, KindOfRecord
<1>3. PICK r : r = ReceiptOf(Current)
  OBVIOUS
<1>4. r \in Receipt
  BY <1>2, <1>3 DEF ReceiptOf, ReceiptRecord, Receipt
<1>5. PICK new : new = [Target EXCEPT !.receipts = Append(@, r)]
  OBVIOUS
<1>6. Target.receipts \in Seq(Receipt)
  BY <1>2, StoreFields
<1>7. Append(Target.receipts, r) \in Seq(Receipt)
  BY <1>4, <1>6
<1>8. new \in Store /\ new.receipts = Append(Target.receipts, r) /\ new.events = Target.events
      /\ new.artifacts = Target.artifacts
  BY <1>2, <1>5, <1>7 DEF Store
<1>9. CASE r.whole /\ Writes(new)
  <2>1. Clean(Target, new)
    BY <1>2, <1>4, <1>8, <1>9, ReceiptIsClean
  <2> QED
    BY <1>8, <1>9, <2>1 DEF Brings, Moves, Turns, Writes
<1>10. Skips \/ Refuses \/ (r.whole /\ Writes(new))
  BY <1>3, <1>5 DEF RestoreReceipt, RestoreLog, reconcileImportedIntegrity
<1> QED
  BY <1>1, <1>9, <1>10, Skipping

(* The index that a restore leaves: of sources alone, and of all of them if *)
(* its rebuild did not fail.                                               *)
LEMMA IndexRebuilt ==
  ASSUME Typed, InOrderOfUse, RestoreIndex
  PROVE  \E index \in SUBSET Runs, unindexed \in BOOLEAN :
            /\ Reindexes(index, unindexed)
            /\ index = Target.index \/ index \subseteq Sources(Target)
            /\ ~ unindexed => index = Sources(Target)
<1>1. Target \in Store
  BY Running DEF RestoreIndex, Handles
<1>2. Sources(Target) \subseteq Runs /\ Target.index \subseteq Runs
  BY <1>1, StoreFields DEF Sources, Entities, Artifacts
<1>3. CASE Reindexes(rebuildIndex(Target), rebuildIndex(Target) # Sources(Target))
  <2>1. rebuildIndex(Target) \subseteq Sources(Target)
    BY DEF rebuildIndex, Sources
  <2> QED
    BY <1>2, <1>3, <2>1
<1>4. ASSUME NEW index \in rebuildIndex_Fails(Target), Reindexes(index, TRUE)
      PROVE  index \in SUBSET Runs /\ (index = Target.index \/ index \subseteq Sources(Target))
  BY <1>2, <1>4 DEF rebuildIndex_Fails, Sources
<1> QED
  BY <1>3, <1>4 DEF RestoreIndex

LEMMA IndexBrings ==
  ASSUME Typed, InOrderOfUse, RestoreIndex
  PROVE  \E new : Brings(new)
<1>1. Target \in Store
  BY Running DEF RestoreIndex, Handles
<1>2. PICK index \in SUBSET Runs, unindexed \in BOOLEAN : Reindexes(index, unindexed)
  BY IndexRebuilt
<1>3. PICK new : new = [Target EXCEPT !.index = index]
  OBVIOUS
<1>4. new \in Store /\ new.events = Target.events /\ new.receipts = Target.receipts
      /\ new.artifacts = Target.artifacts
  BY <1>1, <1>2, <1>3 DEF Store
<1>5. cluster' = [cluster EXCEPT ![restore.into] = new]
  BY <1>2, <1>3 DEF Reindexes, Target
<1> QED
  BY <1>2, <1>4, <1>5, SameIsClean DEF Brings, Moves, Turns

LEMMA CommandBrings ==
  ASSUME Typed, InOrderOfUse, RestoreCommand
  PROVE  \E new : Brings(new)
<1>1. Target \in Store /\ Current \in CommandRecord
  BY Running, KindOfRecord DEF RestoreCommand, Handles
<1>2. PICK new : new = [Target EXCEPT !.commands[Current.id] = Current.status]
  OBVIOUS
<1>3. new \in Store /\ new.events = Target.events /\ new.receipts = Target.receipts
      /\ new.artifacts = Target.artifacts
  BY <1>1, <1>2 DEF Store, CommandRecord
<1>4. Writes(new)
  BY <1>2 DEF RestoreCommand
<1> QED
  BY <1>3, <1>4, SameIsClean DEF Brings, Moves, Turns, Writes

LEMMA StagingBrings ==
  ASSUME Typed, InOrderOfUse, RestoreStaging
  PROVE  \E new : Brings(new)
<1>1. restore.step = "running" /\ Target \in Store /\ Current \in StagingRecord
  BY Running, KindOfRecord DEF RestoreStaging, Handles
<1>2. PICK new : new = [Target EXCEPT !.staging = @ \cup {Current.id}]
  OBVIOUS
<1>3. new \in Store /\ new.events = Target.events /\ new.receipts = Target.receipts
      /\ new.artifacts = Target.artifacts
  BY <1>1, <1>2 DEF Store, StagingRecord
<1>4. CASE Writes(new)
  BY <1>3, <1>4, SameIsClean DEF Brings, Moves, Turns, Writes
<1>5. Refuses \/ Writes(new)
  BY <1>2 DEF RestoreStaging
<1> QED
  BY <1>1, <1>4, <1>5, Skipping

RestoreStep == \/ RestoreEntity \/ RestoreArtifact \/ RestoreEvent \/ RestoreReceipt
               \/ RestoreIndex \/ RestoreCommand \/ RestoreStaging

(* A restore writes to its cluster, and to nothing else.                   *)
OthersStay == UNCHANGED <<commits, born, backup, file, foreign, decayed>>

LEMMA RestoreBrings ==
  ASSUME Typed, InOrderOfUse, RestoreStep
  PROVE  /\ OthersStay /\ faults' \in Nat /\ restore.step = "running"
         /\ \E new : Brings(new)
<1>1. OthersStay
  BY DEF RestoreStep, RestoreEntity, RestoreArtifact, RestoreEvent, RestoreReceipt, RestoreLog,
         RestoreIndex, RestoreCommand, RestoreStaging, OnlyRestore, OthersStay
<1>2. restore.step = "running"
  BY DEF RestoreStep, RestoreEntity, RestoreArtifact, RestoreEvent, RestoreReceipt,
         RestoreIndex, RestoreCommand, RestoreStaging, Handles
<1>3. faults' \in Nat
  <2>0. faults \in Nat
    BY DEF Typed
  <2>1. CASE RestoreIndex
    <3>1. faults' = faults \/ faults' = faults + 1
      BY <2>1 DEF RestoreIndex, Fault
    <3> QED
      BY <2>0, <3>1
  <2>2. CASE ~ RestoreIndex
    <3>1. faults' = faults
      BY <2>2 DEF RestoreStep, RestoreEntity, RestoreArtifact, RestoreEvent, RestoreReceipt,
                  RestoreLog, RestoreCommand, RestoreStaging, OnlyRestore
    <3> QED
      BY <2>0, <3>1
  <2> QED
    BY <2>1, <2>2
<1> QED
  BY <1>1, <1>2, <1>3, EntityBrings, ArtifactBrings, EventBrings, ReceiptBrings, IndexBrings,
     CommandBrings, StagingBrings DEF RestoreStep

(* The steps of a backup.                                                  *)
LEMMA Concat ==
  ASSUME NEW S, NEW p \in Seq(S), NEW q \in Seq(S)
  PROVE  /\ p \o q \in Seq(S)
         /\ Len(p \o q) = Len(p) + Len(q)
         /\ Len(p) \in Nat /\ Len(q) \in Nat
         /\ \A i \in 1..Len(p) : (p \o q)[i] = p[i]
         /\ \A j \in 1..Len(q) : (p \o q)[Len(p) + j] = q[j]
         /\ \A i \in DOMAIN (p \o q) : i \in DOMAIN p \/ \E j \in DOMAIN q : i = Len(p) + j
<1>1. p \o q \in Seq(S) /\ Len(p) \in Nat /\ Len(q) \in Nat /\ Len(p \o q) = Len(p) + Len(q)
  OBVIOUS
<1>2. DOMAIN (p \o q) = 1..Len(p) + Len(q) /\ DOMAIN p = 1..Len(p) /\ DOMAIN q = 1..Len(q)
  OBVIOUS
<1>3. \A i \in 1..Len(p) + Len(q) : i \in 1..Len(p) \/ (i - Len(p) \in 1..Len(q) /\ i = Len(p) + (i - Len(p)))
  BY <1>1
<1>4. \A i \in 1..Len(p) : (p \o q)[i] = p[i]
  OBVIOUS
<1>5. \A j \in 1..Len(q) : (p \o q)[Len(p) + j] = q[j]
  OBVIOUS
<1> QED
  BY <1>1, <1>2, <1>3, <1>4, <1>5

LEMMA DistinctConcat ==
  ASSUME NEW p \in Seq(Record), NEW q \in Seq(Record), Distinct(p), Distinct(q),
         \A i \in DOMAIN p, j \in DOMAIN q : p[i].kind # q[j].kind
  PROVE  Distinct(p \o q)
<1>1. PICK r : r = p \o q
  OBVIOUS
<1>2. DOMAIN p = 1..Len(p) /\ DOMAIN q = 1..Len(q)
  OBVIOUS
<1>5. /\ \A i \in 1..Len(p) : (p \o q)[i] = p[i]
      /\ \A j \in 1..Len(q) : (p \o q)[Len(p) + j] = q[j]
      /\ \A i \in DOMAIN (p \o q) : i \in DOMAIN p \/ \E j \in DOMAIN q : i = Len(p) + j
  BY Concat
<1>3. /\ \A i \in DOMAIN p : r[i] = p[i]
      /\ \A j \in DOMAIN q : r[Len(p) + j] = q[j]
      /\ \A i \in DOMAIN r : i \in DOMAIN p \/ \E j \in DOMAIN q : i = Len(p) + j
  BY <1>1, <1>2, <1>5
<1>4. ASSUME NEW i \in DOMAIN r, NEW j \in DOMAIN r, r[i].kind = r[j].kind, r[i].id = r[j].id
      PROVE  i = j
  <2>1. CASE i \in DOMAIN p /\ j \in DOMAIN p
    BY <1>3, <1>4, <2>1 DEF Distinct
  <2>2. CASE i \in DOMAIN p /\ \E b \in DOMAIN q : j = Len(p) + b
    BY <1>3, <1>4, <2>2
  <2>3. CASE j \in DOMAIN p /\ \E a \in DOMAIN q : i = Len(p) + a
    BY <1>3, <1>4, <2>3
  <2>4. CASE (\E a \in DOMAIN q : i = Len(p) + a) /\ (\E b \in DOMAIN q : j = Len(p) + b)
    BY <1>3, <1>4, <2>4 DEF Distinct
  <2> QED
    BY <1>3, <2>1, <2>2, <2>3, <2>4
<1> QED
  BY <1>1, <1>4 DEF Distinct

LEMMA VerdictsTyped == \A k : verify(k) \in Verdicts /\ doctor(k) \in Verdicts
<1>1. \A S : buildClusterHealth(S) \in Verdicts
  BY DEF buildClusterHealth, Verdicts, Unless
<1> QED
  BY <1>1 DEF verify, doctor

LEMMA StoreRecords ==
  /\ Seq(EntityRecord) \subseteq Seq(StoreRecord) /\ Seq(ArtifactRecord) \subseteq Seq(StoreRecord)
  /\ Seq(EventRecord) \subseteq Seq(StoreRecord) /\ Seq(ReceiptRecord) \subseteq Seq(StoreRecord)
  /\ Seq(StoreRecord) \subseteq Seq(Record) /\ Seq(CommandRecord) \subseteq Seq(Record)
  /\ Seq(StagingRecord) \subseteq Seq(Record)
<1>1. /\ EntityRecord \subseteq StoreRecord /\ ArtifactRecord \subseteq StoreRecord
      /\ EventRecord \subseteq StoreRecord /\ ReceiptRecord \subseteq StoreRecord
  BY DEF StoreRecord
<1>2. StoreRecord \subseteq Record /\ CommandRecord \subseteq Record /\ StagingRecord \subseteq Record
  BY DEF Record
<1> QED
  BY <1>1, <1>2, WidenSeq

(* The items that a backup has read after each of its first four steps.    *)
LEMMA EntitiesRead ==
  ASSUME Typed, BackupEntities
  PROVE  /\ backup' \in Backup /\ backup'.step = "artifacts" /\ backup = NoBackup
         /\ backup'.items \in Seq(EntityRecord) /\ Distinct(backup'.items)
         /\ UNCHANGED <<file, restore>>
<1>1. PICK k : k = cluster["home"]
  OBVIOUS
<1>2. k \in Store
  BY <1>1 DEF Typed, Clusters
<1>3. EntityItems(k) \in Seq(EntityRecord) /\ Distinct(EntityItems(k))
  BY <1>2, EntitiesListed
<1>4. EntityItems(k) \in Seq(StoreRecord)
  BY <1>3, StoreRecords
<1>5. PICK items, quiet, health : /\ items = EntityItems(k) /\ quiet = (\A c \in Commands : commits[c] = Idle)
                                  /\ health = [verify |-> verify(k), doctor |-> doctor(k)]
  OBVIOUS
<1>6. backup' = [step |-> "artifacts", items |-> items, quiet |-> quiet, health |-> health]
  BY <1>1, <1>5 DEF BackupEntities
<1>7. quiet \in BOOLEAN /\ health \in [verify : Verdicts, doctor : Verdicts]
  BY <1>5, VerdictsTyped
<1>8. backup' \in Backup /\ backup'.step = "artifacts" /\ backup'.items = items
  BY <1>4, <1>5, <1>6, <1>7 DEF Backup, Stages
<1>9. backup = NoBackup
  BY StepBackup DEF BackupEntities
<1> QED
  BY <1>3, <1>5, <1>8, <1>9 DEF BackupEntities, OnlyBackup

LEMMA ReadsTyped ==
  ASSUME Typed, NEW step \in Stages, NEW next \in Stages, NEW items \in Seq(StoreRecord),
         Reads(step, next, items)
  PROVE  /\ backup' \in Backup /\ backup.step = step /\ backup'.step = next /\ backup # NoBackup
         /\ backup'.items = backup.items \o items
         /\ UNCHANGED <<file, restore>>
<1>1. backup # NoBackup /\ backup \in Backup /\ backup.items \in Seq(StoreRecord)
  BY StepBackup DEF Reads, Stages
<1>2. PICK s : s = backup.items \o items
  OBVIOUS
<1>3. s \in Seq(StoreRecord)
  BY <1>1, <1>2, Concat
<1>4. backup' = [backup EXCEPT !.step = next, !.items = s]
  BY <1>2 DEF Reads
<1>5. backup' \in Backup /\ backup'.step = next /\ backup'.items = s
  BY <1>1, <1>3, <1>4 DEF Backup
<1> QED
  BY <1>1, <1>2, <1>5 DEF Reads, OnlyBackup

LEMMA ArtifactsRead ==
  ASSUME Typed, BackupArtifacts
  PROVE  LET items == ArtifactItems(cluster["home"]) IN
         /\ backup' \in Backup /\ backup.step = "artifacts" /\ backup'.step = "events" /\ backup # NoBackup
         /\ backup'.items = backup.items \o items
         /\ items \in Seq(ArtifactRecord) /\ items \in Seq(StoreRecord) /\ Distinct(items)
         /\ UNCHANGED <<file, restore>>
<1>1. cluster["home"] \in Store
  BY DEF Typed, Clusters
<1>2. PICK items : items = ArtifactItems(cluster["home"])
  OBVIOUS
<1>3. items \in Seq(ArtifactRecord) /\ items \in Seq(StoreRecord) /\ Distinct(items)
  BY <1>1, <1>2, ArtifactsListed, StoreRecords
<1>4. Reads("artifacts", "events", items)
  BY <1>2 DEF BackupArtifacts
<1>5. "artifacts" \in Stages /\ "events" \in Stages
  BY DEF Stages
<1> QED
  BY <1>2, <1>3, <1>4, <1>5, ReadsTyped

LEMMA EventsRead ==
  ASSUME Typed, BackupEvents
  PROVE  LET items == EventItems(cluster["home"]) IN
         /\ backup' \in Backup /\ backup.step = "events" /\ backup'.step = "receipts" /\ backup # NoBackup
         /\ backup'.items = backup.items \o items
         /\ items \in Seq(EventRecord) /\ items \in Seq(StoreRecord)
         /\ IdsDistinct(cluster["home"].events) => Distinct(items)
         /\ UNCHANGED <<file, restore>>
<1>1. cluster["home"] \in Store
  BY DEF Typed, Clusters
<1>2. PICK items : items = EventItems(cluster["home"])
  OBVIOUS
<1>3. items \in Seq(EventRecord) /\ items \in Seq(StoreRecord)
      /\ (IdsDistinct(cluster["home"].events) => Distinct(items))
  BY <1>1, <1>2, EventsListed, StoreRecords
<1>4. Reads("events", "receipts", items)
  BY <1>2 DEF BackupEvents
<1>5. "events" \in Stages /\ "receipts" \in Stages
  BY DEF Stages
<1> QED
  BY <1>2, <1>3, <1>4, <1>5, ReadsTyped

LEMMA ReceiptsRead ==
  ASSUME Typed, BackupReceipts
  PROVE  LET items == ReceiptItems(cluster["home"]) IN
         /\ backup' \in Backup /\ backup.step = "receipts" /\ backup'.step = "contents" /\ backup # NoBackup
         /\ backup'.items = backup.items \o items
         /\ items \in Seq(ReceiptRecord) /\ items \in Seq(StoreRecord)
         /\ IdsDistinct(cluster["home"].receipts) => Distinct(items)
         /\ UNCHANGED <<file, restore>>
<1>1. cluster["home"] \in Store
  BY DEF Typed, Clusters
<1>2. PICK items : items = ReceiptItems(cluster["home"])
  OBVIOUS
<1>3. items \in Seq(ReceiptRecord) /\ items \in Seq(StoreRecord)
      /\ (IdsDistinct(cluster["home"].receipts) => Distinct(items))
  BY <1>1, <1>2, ReceiptsListed, StoreRecords
<1>4. Reads("receipts", "contents", items)
  BY <1>2 DEF BackupReceipts
<1>5. "contents" \in Stages /\ "receipts" \in Stages
  BY DEF Stages
<1> QED
  BY <1>2, <1>3, <1>4, <1>5, ReadsTyped

(* The last step: the file is what was read, with the contents filled in,  *)
(* then the mark, the queue and the staged files.                          *)
FileOf(filled) == filled \o <<IndexMark>> \o QueueItems(cluster["home"], options) \o StagingItems(cluster["home"], options)

Fills(filled) ==
  /\ filled \in Seq(StoreRecord) /\ DOMAIN filled = DOMAIN backup.items
  /\ \A i \in DOMAIN filled : /\ filled[i].kind = backup.items[i].kind
                              /\ filled[i].id = backup.items[i].id
                              /\ IF filled[i].kind = "artifact"
                                 THEN filled[i].blob = cluster["home"].artifacts[filled[i].id].blob
                                 ELSE filled[i] = backup.items[i]

LEMMA ContentsRead ==
  ASSUME Typed, BackupContents
  PROVE  /\ backup # NoBackup /\ backup.step = "contents" /\ backup' = NoBackup /\ UNCHANGED restore
         /\ \/ UNCHANGED file
            \/ \E filled : /\ Fills(filled)
                           /\ file' = [items |-> FileOf(filled), quiet |-> backup.quiet,
                                       health |-> backup.health, altered |-> FALSE]
<1>1. backup # NoBackup /\ backup \in Backup /\ backup.items \in Seq(StoreRecord)
  BY StepBackup DEF BackupContents
<1>2. PICK k, s : k = cluster["home"] /\ s = backup.items
  OBVIOUS
<1>3. k \in Store /\ s \in Seq(StoreRecord)
  BY <1>1, <1>2 DEF Typed, Clusters
<1>4. DOMAIN s = 1..Len(s) /\ Len(s) \in Nat /\ \A i \in DOMAIN s : s[i] \in StoreRecord
  BY <1>3
<1>5. PICK filled : filled = [i \in DOMAIN s |->
         IF s[i].kind = "artifact" THEN [s[i] EXCEPT !.blob = k.artifacts[s[i].id].blob] ELSE s[i]]
  OBVIOUS
<1>6. ASSUME NEW i \in DOMAIN s
      PROVE  /\ filled[i] \in StoreRecord
             /\ filled[i].kind = s[i].kind /\ filled[i].id = s[i].id
             /\ IF filled[i].kind = "artifact" THEN filled[i].blob = k.artifacts[filled[i].id].blob
                                               ELSE filled[i] = s[i]
  <2>1. CASE s[i].kind = "artifact"
    <3>1. s[i] \in ArtifactRecord
      BY <1>4, <2>1 DEF StoreRecord, EntityRecord, ArtifactRecord, EventRecord, ReceiptRecord
    <3>2. PICK blob : blob = k.artifacts[s[i].id].blob
      OBVIOUS
    <3>3. blob \in Blobs
      BY <1>3, <3>1, <3>2, StoreFields DEF ArtifactRecord, Metadata
    <3>4. filled[i] = [s[i] EXCEPT !.blob = blob]
      BY <1>5, <2>1, <3>2
    <3>5. /\ filled[i] \in ArtifactRecord /\ filled[i].kind = "artifact" /\ filled[i].id = s[i].id
          /\ filled[i].blob = blob
      BY <3>1, <3>3, <3>4 DEF ArtifactRecord
    <3> QED
      BY <2>1, <3>2, <3>5 DEF StoreRecord
  <2>2. CASE s[i].kind # "artifact"
    BY <1>4, <1>5, <2>2
  <2> QED
    BY <2>1, <2>2
<1>7. filled \in Seq(StoreRecord) /\ DOMAIN filled = DOMAIN s
  BY <1>4, <1>5, <1>6
<1>8. Fills(filled)
  BY <1>2, <1>6, <1>7 DEF Fills
<1>9. \/ UNCHANGED file
      \/ file' = [items |-> filled \o <<IndexMark>> \o QueueItems(k, options) \o StagingItems(k, options),
                  quiet |-> backup.quiet, health |-> backup.health, altered |-> FALSE]
  BY <1>2, <1>5 DEF BackupContents
<1>10. backup.step = "contents" /\ backup' = NoBackup /\ UNCHANGED restore
  BY DEF BackupContents, OnlyBackup
<1>11. \/ UNCHANGED file
       \/ file' = [items |-> FileOf(filled), quiet |-> backup.quiet, health |-> backup.health, altered |-> FALSE]
  BY <1>2, <1>9 DEF FileOf
<1> QED
  BY <1>1, <1>8, <1>10, <1>11

LEMMA FileOfTyped ==
  ASSUME Typed, NEW filled, Fills(filled)
  PROVE  /\ filled \in Seq(Record) /\ <<IndexMark>> \in Seq(Record)
         /\ QueueItems(cluster["home"], options) \in Seq(Record) /\ StagingItems(cluster["home"], options) \in Seq(Record)
         /\ FileOf(filled) \in Seq(Record)
         /\ FileOf(filled) # <<>>
<1>1. cluster["home"] \in Store
  BY DEF Typed, Clusters
<1>2. PICK q, g, m : q = QueueItems(cluster["home"], options) /\ g = StagingItems(cluster["home"], options) /\ m = <<IndexMark>>
  OBVIOUS
<1>3. filled \in Seq(Record) /\ q \in Seq(Record) /\ g \in Seq(Record)
  BY <1>1, <1>2, QueueListed, StagingListed, StoreRecords DEF Fills
<1>4. IndexMark \in Record
  BY DEF Record
<1>5. m \in Seq(Record) /\ Len(m) = 1
  BY <1>2, <1>4
<1>6. PICK a : a = filled \o m
  OBVIOUS
<1>13. \A x, y \in Seq(Record) : x \o y \in Seq(Record) /\ Len(x \o y) = Len(x) + Len(y) /\ Len(x) \in Nat
  OBVIOUS
<1>7. a \in Seq(Record) /\ Len(a) = Len(filled) + 1 /\ Len(filled) \in Nat
  <2>1. filled \o m \in Seq(Record) /\ Len(filled \o m) = Len(filled) + Len(m) /\ Len(filled) \in Nat
    BY <1>3, <1>5, <1>13
  <2> QED
    BY <1>5, <1>6, <2>1
<1>8. PICK b : b = a \o q
  OBVIOUS
<1>9. b \in Seq(Record) /\ Len(b) = Len(a) + Len(q) /\ Len(q) \in Nat /\ Len(a) \in Nat
  BY <1>3, <1>7, <1>8, <1>13
<1>10. b \o g \in Seq(Record) /\ Len(b \o g) = Len(b) + Len(g) /\ Len(g) \in Nat /\ Len(b) \in Nat
  BY <1>3, <1>9, <1>13
<1>11. FileOf(filled) = b \o g
  BY <1>2, <1>6, <1>8 DEF FileOf
<1>12. b \o g # <<>>
  <2>1. Len(b \o g) > 0
    BY <1>7, <1>9, <1>10
  <2>2. Len(<<>>) = 0
    OBVIOUS
  <2> QED
    BY <2>1, <2>2
<1> QED
  BY <1>2, <1>3, <1>5, <1>10, <1>11, <1>12

(* An alteration of the file: one record, and neither its kind nor its id.  *)
LEMMA AlterationTyped ==
  ASSUME NEW x \in Record, NEW y \in Alterations(x)
  PROVE  /\ y \in Record /\ y.kind = x.kind /\ y.id = x.id
         /\ x.kind # "command"
         /\ x.kind = "receipt" => y.cmd = x.cmd
<1>1. CASE x.kind = "entity"
  <2>1. x \in EntityRecord /\ y = [x EXCEPT !.by = Forged]
    BY <1>1, KindOfRecord DEF Alterations
  <2>2. y \in EntityRecord /\ y.kind = x.kind /\ y.id = x.id
    BY <2>1 DEF EntityRecord, Forged
  <2> QED
    BY <1>1, <2>2 DEF Record, StoreRecord
<1>2. CASE x.kind = "artifact"
  <2>1. x \in ArtifactRecord /\ (y = [x EXCEPT !.filename = Forged] \/ y = [x EXCEPT !.blob = "damaged"])
    BY <1>2, KindOfRecord DEF Alterations
  <2>2. y \in ArtifactRecord /\ y.kind = x.kind /\ y.id = x.id
    BY <2>1 DEF ArtifactRecord, Forged, Blobs
  <2> QED
    BY <1>2, <2>2 DEF Record, StoreRecord
<1>3. CASE x.kind = "event"
  <2>1. x \in EventRecord /\ y = [x EXCEPT !.whole = FALSE]
    BY <1>3, KindOfRecord DEF Alterations
  <2>2. y \in EventRecord /\ y.kind = x.kind /\ y.id = x.id
    BY <2>1 DEF EventRecord
  <2> QED
    BY <1>3, <2>2 DEF Record, StoreRecord
<1>4. CASE x.kind = "receipt"
  <2>1. x \in ReceiptRecord /\ y = [x EXCEPT !.whole = FALSE]
    BY <1>4, KindOfRecord DEF Alterations
  <2>2. y \in ReceiptRecord /\ y.kind = x.kind /\ y.id = x.id /\ y.cmd = x.cmd
    BY <2>1 DEF ReceiptRecord
  <2> QED
    BY <1>4, <2>2 DEF Record, StoreRecord
<1>5. CASE x.kind = "staging"
  <2>1. x \in StagingRecord /\ y = [x EXCEPT !.whole = FALSE]
    BY <1>5, KindOfRecord DEF Alterations
  <2>2. y \in StagingRecord /\ y.kind = x.kind /\ y.id = x.id
    BY <2>1 DEF StagingRecord
  <2> QED
    BY <1>5, <2>2 DEF Record
<1>6. x.kind \in {"entity", "artifact", "event", "receipt", "staging"}
  BY KindOfRecord DEF Alterations
<1> QED
  BY <1>1, <1>2, <1>3, <1>4, <1>5, <1>6

LEMMA AlterDoes ==
  ASSUME Typed, InOrderOfUse, AlterFile
  PROVE  /\ file \in File /\ file' \in File
         /\ DOMAIN file'.items = DOMAIN file.items /\ Len(file'.items) = Len(file.items)
         /\ \A i \in DOMAIN file.items :
              /\ file'.items[i].kind = file.items[i].kind /\ file'.items[i].id = file.items[i].id
              /\ file.items[i].kind = "receipt" => file'.items[i].cmd = file.items[i].cmd
              /\ file.items[i].kind = "command" => file'.items[i] = file.items[i]
         /\ restore' = NoRestore
<1>1. file \in File
  BY DEF AlterFile, Typed
<1>2. PICK i \in DOMAIN file.items : \E x \in Alterations(file.items[i]) :
         file' = [file EXCEPT !.items[i] = x, !.altered = TRUE]
  BY DEF AlterFile
<1>3. PICK x \in Alterations(file.items[i]) : file' = [file EXCEPT !.items[i] = x, !.altered = TRUE]
  BY <1>2
<1>4. /\ x \in Record /\ x.kind = file.items[i].kind /\ x.id = file.items[i].id
      /\ file.items[i].kind # "command"
      /\ file.items[i].kind = "receipt" => x.cmd = file.items[i].cmd
  BY FileTyped, AlterationTyped
<1>5. PICK old, new : old = file.items /\ new = [old EXCEPT ![i] = x]
  OBVIOUS
<1>6. old \in Seq(Record)
  BY <1>5, FileTyped
<1>7. new \in Seq(Record) /\ DOMAIN new = DOMAIN old /\ Len(new) = Len(old)
  BY <1>4, <1>5, <1>6
<1>8. \A j \in DOMAIN old : new[j] = IF j = i THEN x ELSE old[j]
  BY <1>5
<1>9. file' = [file EXCEPT !.items = new, !.altered = TRUE]
  BY <1>3, <1>5
<1>10. file' \in File /\ file'.items = new
  BY <1>1, <1>7, <1>9 DEF File
<1> QED
  BY <1>1, <1>4, <1>5, <1>7, <1>8, <1>10 DEF AlterFile

-----------------------------------------------------------------------------
(* Types, and the order in which a backup, its file and its restores come.  *)
Kernel == \/ \E n \in Clusters, c \in Commands : CommitStore(n, c)
          \/ \E c \in Commands : \/ Propose(c) \/ CommitEvent(c) \/ CommitSave(c)
                                 \/ CommitReceipt(c) \/ recordOrphanMutation(c)

Reading == BackupEntities \/ BackupArtifacts \/ BackupEvents \/ BackupReceipts

NextSteps == \/ Kernel \/ Reading \/ BackupContents \/ RestoreStep \/ CrashRestore \/ AlterFile
             \/ \E n \in Clusters : StartRestore(n)
             \/ \E n \in Clusters, a \in Runs : ChangeBlob(n, a)

LEMMA NextIsSteps == Next => NextSteps /\ UNCHANGED options
  BY DEF Next, Step, NextSteps, Kernel, Reading, RestoreStep

LEMMA OptionsStay == [Next]_vars => UNCHANGED options
  BY NextIsSteps DEF vars

(* A step of the kernel writes to one cluster, and disturbs.               *)
LEMMA KernelDoes ==
  ASSUME Typed, Kernel
  PROVE  /\ \E n \in Clusters : Disturbs(n) /\ \E new : Turns(n, new) /\ Clean(cluster[n], new)
         /\ commits' \in [Commands -> Commit \cup {Idle}]
         /\ born' \in 0 .. MaxRuns /\ faults' \in Nat
         /\ UNCHANGED <<file, restore, decayed>>
<1>0. commits \in [Commands -> Commit \cup {Idle}] /\ born \in 0 .. MaxRuns /\ faults \in Nat
  BY DEF Typed
<1>1. ASSUME NEW n \in Clusters, NEW c \in Commands, CommitStore(n, c)
      PROVE  /\ \E new : Turns(n, new) /\ Clean(cluster[n], new)
             /\ Disturbs(n)
             /\ commits' \in [Commands -> Commit \cup {Idle}] /\ born' \in 0 .. MaxRuns
             /\ UNCHANGED <<file, restore, decayed, faults>>
  <2>1. PICK subject \in Runs : commits' = [commits EXCEPT ![c] =
                  [step |-> "event", at |-> n, run |-> born + 1, subject |-> subject]]
    BY <1>1, CommitStoreDoes
  <2>2. born' = born + 1 /\ born' \in Runs /\ \E new : Turns(n, new) /\ Clean(cluster[n], new)
    BY <1>1, CommitStoreDoes
  <2>3. [step |-> "event", at |-> n, run |-> born + 1, subject |-> subject] \in Commit
    BY <2>2 DEF Commit, Steps
  <2> QED
    BY <1>0, <1>1, <2>1, <2>2, <2>3, Naturals DEF CommitStore
<1>2. ASSUME NEW c \in Commands, Propose(c)
      PROVE  /\ \E new : Turns("home", new) /\ Clean(cluster["home"], new)
             /\ Disturbs("home")
             /\ UNCHANGED <<commits, born, file, restore, decayed, faults>>
  BY <1>2, ProposeDoes DEF Propose
<1>3. ASSUME NEW c \in Commands,
             CommitEvent(c) \/ CommitSave(c) \/ CommitReceipt(c) \/ recordOrphanMutation(c)
      PROVE  /\ commits[c].at \in Clusters
             /\ \E new : Turns(commits[c].at, new) /\ Clean(cluster[commits[c].at], new)
             /\ Disturbs(commits[c].at)
             /\ commits' \in [Commands -> Commit \cup {Idle}]
             /\ UNCHANGED <<born, file, restore, decayed>>
             /\ faults' \in Nat
  <2>1. commits[c].step \in Steps /\ Continue(c) /\ Disturbs(commits[c].at)
    BY <1>3 DEF CommitEvent, CommitSave, CommitReceipt, recordOrphanMutation, Steps
  <2>2. commits[c].at \in Clusters
    BY <2>1, CommitFields
  <2>3. commits' \in [Commands -> Commit \cup {Idle}]
    BY <2>1, ContinueTyped
  <2>4. UNCHANGED <<born, file, restore, decayed>>
    BY <1>3 DEF CommitEvent, CommitSave, CommitReceipt, recordOrphanMutation
  <2>5. faults' \in Nat
    BY <1>0, <1>3 DEF CommitEvent, CommitSave, CommitReceipt, recordOrphanMutation, Fault
  <2>6. \E new : Turns(commits[c].at, new) /\ Clean(cluster[commits[c].at], new)
    BY <1>3, CommitEventDoes, CommitSaveDoes, CommitReceiptDoes, OrphanDoes
  <2> QED
    BY <2>1, <2>2, <2>3, <2>4, <2>5, <2>6
<1>4. CASE \E n \in Clusters, c \in Commands : CommitStore(n, c)
  BY <1>0, <1>1, <1>4
<1>5. CASE \E c \in Commands : Propose(c)
  BY <1>0, <1>2, <1>5 DEF Clusters
<1>6. CASE \E c \in Commands : CommitEvent(c) \/ CommitSave(c) \/ CommitReceipt(c) \/ recordOrphanMutation(c)
  BY <1>0, <1>3, <1>6
<1> QED
  BY <1>4, <1>5, <1>6 DEF Kernel

LEMMA ReadingDoes ==
  ASSUME Typed, Reading
  PROVE  /\ backup' \in Backup /\ (backup # NoBackup \/ file = NoFile)
         /\ UNCHANGED <<cluster, commits, born, file, restore, foreign, decayed, faults>>
<1>1. UNCHANGED <<cluster, commits, born, file, restore, foreign, decayed, faults>>
  BY DEF Reading, BackupEntities, BackupArtifacts, BackupEvents, BackupReceipts, Reads, OnlyBackup
<1>2. backup' \in Backup
  BY EntitiesRead, ArtifactsRead, EventsRead, ReceiptsRead DEF Reading
<1>3. backup # NoBackup \/ file = NoFile
  BY ArtifactsRead, EventsRead, ReceiptsRead DEF Reading, BackupEntities
<1> QED
  BY <1>1, <1>2, <1>3

LEMMA Initial == Init => Typed /\ InOrderOfUse
<1> SUFFICES ASSUME Init PROVE Typed /\ InOrderOfUse
  OBVIOUS
<1>1. cluster \in [Clusters -> Store]
  BY EmptyTyped DEF Init
<1>2. commits \in [Commands -> Commit \cup {Idle}] /\ born \in 0 .. MaxRuns
  BY Naturals DEF Init
<1>3. Typed
  BY <1>1, <1>2 DEF Init, Typed
<1>4. InOrderOfUse
  BY DEF Init, InOrderOfUse, NoRestore
<1> QED
  BY <1>3, <1>4

LEMMA TypedStep == TypedInOrder /\ [Next]_vars => TypedInOrder'
<1> SUFFICES ASSUME Typed, InOrderOfUse, [Next]_vars PROVE Typed' /\ InOrderOfUse'
  BY DEF TypedInOrder
<1>0. /\ cluster \in [Clusters -> Store] /\ commits \in [Commands -> Commit \cup {Idle}]
      /\ born \in 0 .. MaxRuns /\ backup \in Backup \cup {NoBackup} /\ file \in File \cup {NoFile}
      /\ restore \in Restore \cup {NoRestore} /\ foreign \in SUBSET Clusters /\ faults \in Nat
  BY DEF Typed
<1>1. CASE UNCHANGED vars
  BY <1>1 DEF vars, Typed, InOrderOfUse
<1>2. CASE Kernel
  <2>1. PICK n \in Clusters : Disturbs(n) /\ \E new : Turns(n, new) /\ Clean(cluster[n], new)
    BY <1>2, KernelDoes
  <2>2. cluster' \in [Clusters -> Store]
    BY <2>1, TurnsTyped
  <2>3. /\ foreign' \in SUBSET Clusters /\ backup' \in Backup \cup {NoBackup}
        /\ backup' # NoBackup => backup # NoBackup
    BY <2>1, DisturbsTyped
  <2>4. /\ commits' \in [Commands -> Commit \cup {Idle}] /\ born' \in 0 .. MaxRuns /\ faults' \in Nat
        /\ UNCHANGED <<file, restore>>
    BY <1>2, KernelDoes
  <2>5. Typed'
    BY <1>0, <2>2, <2>3, <2>4 DEF Typed
  <2>6. InOrderOfUse'
    BY <2>3, <2>4 DEF InOrderOfUse
  <2> QED
    BY <2>5, <2>6
<1>3. CASE Reading
  <2>1. /\ backup' \in Backup /\ (backup # NoBackup \/ file = NoFile)
        /\ UNCHANGED <<cluster, commits, born, file, restore, foreign, decayed, faults>>
    BY <1>3, ReadingDoes
  <2> QED
    BY <1>0, <2>1 DEF Typed, InOrderOfUse
<1>4. CASE BackupContents
  <2>1. backup # NoBackup /\ backup' = NoBackup /\ UNCHANGED restore
    BY <1>4, ContentsRead
  <2>2. file = NoFile /\ restore = NoRestore /\ backup \in Backup
    BY <1>0, <2>1 DEF InOrderOfUse
  <2>3. UNCHANGED <<cluster, commits, born, foreign, decayed, faults>>
    BY <1>4 DEF BackupContents, OnlyBackup
  <2>4. file' \in File \cup {NoFile} /\ (file' # NoFile => file'.items # <<>>)
    <3>1. CASE UNCHANGED file
      BY <2>2, <3>1
    <3>2. CASE ~ UNCHANGED file
      <4>1. PICK filled : Fills(filled) /\ file' = [items |-> FileOf(filled), quiet |-> backup.quiet,
                                                    health |-> backup.health, altered |-> FALSE]
        BY <1>4, <3>2, ContentsRead
      <4>2. PICK items : items = FileOf(filled)
        OBVIOUS
      <4>3. items \in Seq(Record) /\ items # <<>>
        BY <4>1, <4>2, FileOfTyped
      <4>4. backup.quiet \in BOOLEAN /\ backup.health \in [verify : Verdicts, doctor : Verdicts]
        BY <2>2 DEF Backup
      <4>5. file' = [items |-> items, quiet |-> backup.quiet, health |-> backup.health, altered |-> FALSE]
        BY <4>1, <4>2
      <4>6. file' \in File /\ file'.items = items
        BY <4>3, <4>4, <4>5 DEF File
      <4> QED
        BY <4>3, <4>6
    <3> QED
      BY <3>1, <3>2
  <2>5. Typed'
    BY <1>0, <2>1, <2>2, <2>3, <2>4 DEF Typed
  <2>6. InOrderOfUse'
    BY <2>1, <2>2, <2>4 DEF InOrderOfUse, NoRestore
  <2> QED
    BY <2>5, <2>6
<1>5. CASE RestoreStep
  <2>1. OthersStay /\ faults' \in Nat /\ restore.step = "running" /\ \E new : Brings(new)
    BY <1>5, RestoreBrings
  <2>2. PICK new : Brings(new)
    BY <2>1
  <2>3. restore.at \in Nat /\ restore.at \in DOMAIN file.items /\ restore.into \in Clusters /\ file # NoFile
    BY <2>1, Running
  <2>4. cluster' \in [Clusters -> Store]
    BY <2>2, <2>3, TurnsTyped DEF Brings
  <2>5. /\ restore' \in Restore /\ restore'.at = restore.at + 1
        /\ restore'.step = IF restore.at = Len(file.items) THEN "done" ELSE "running"
    BY <2>1, <2>2, Advances DEF Brings
  <2>6. UNCHANGED <<commits, born, backup, file, foreign, decayed>> /\ faults' \in Nat
    BY <2>1 DEF OthersStay
  <2>7. Typed'
    BY <1>0, <2>4, <2>5, <2>6 DEF Typed
  <2>8. restore'.step = "running" => restore'.at \in DOMAIN file.items
    BY <2>3, <2>5, FileTyped
  <2>9. restore'.step = "done" => restore'.at = Len(file.items) + 1
    BY <2>5
  <2>10. InOrderOfUse'
    BY <2>3, <2>6, <2>8, <2>9 DEF InOrderOfUse
  <2> QED
    BY <2>7, <2>10
<1>6. CASE CrashRestore
  <2>1. restore' = NoRestore /\ faults' \in Nat
        /\ UNCHANGED <<cluster, commits, born, backup, file, foreign, decayed>>
    BY <1>0, <1>6 DEF CrashRestore, Fault
  <2> QED
    BY <1>0, <2>1 DEF Typed, InOrderOfUse, NoRestore
<1>7. CASE AlterFile
  <2>1. /\ file' \in File /\ file \in File /\ Len(file'.items) = Len(file.items) /\ restore' = NoRestore
        /\ DOMAIN file'.items = DOMAIN file.items
    BY <1>7, AlterDoes
  <2>2. UNCHANGED <<cluster, commits, born, backup, decayed>> /\ faults' \in Nat /\ foreign' \in SUBSET Clusters
    BY <1>0, <1>7 DEF AlterFile, Fault
  <2>3. file # NoFile /\ backup = NoBackup /\ file.items # <<>>
    BY <1>7 DEF AlterFile, InOrderOfUse
  <2>4. file'.items # <<>>
    <3>1. 1 \in DOMAIN file.items
      BY <2>3, FileTyped
    <3> QED
      BY <2>1, <3>1
  <2>5. Typed'
    BY <1>0, <2>1, <2>2 DEF Typed
  <2>6. InOrderOfUse'
    BY <2>1, <2>2, <2>3, <2>4 DEF InOrderOfUse, NoRestore
  <2> QED
    BY <2>5, <2>6
<1>8. CASE \E n \in Clusters : StartRestore(n)
  <2>1. PICK n \in Clusters : StartRestore(n)
    BY <1>8
  <2>2. PICK r : r = [step |-> "running", into |-> n, at |-> 1, errors |-> {}, unindexed |-> FALSE]
    OBVIOUS
  <2>3. r \in Restore /\ r.step = "running" /\ r.at = 1
    BY <2>2 DEF Restore
  <2>4. restore' = r /\ file # NoFile /\ UNCHANGED <<cluster, commits, born, backup, file, foreign, decayed, faults>>
    BY <2>1, <2>2 DEF StartRestore
  <2>5. 1 \in DOMAIN file.items
    BY <2>4, FileTyped DEF InOrderOfUse
  <2>6. Typed'
    BY <1>0, <2>3, <2>4 DEF Typed
  <2>7. InOrderOfUse'
    BY <2>3, <2>4, <2>5 DEF InOrderOfUse
  <2> QED
    BY <2>6, <2>7
<1>9. CASE \E n \in Clusters, a \in Runs : ChangeBlob(n, a)
  <2>1. PICK n \in Clusters, a \in Runs : ChangeBlob(n, a)
    BY <1>9
  <2>2. PICK blob \in {"damaged", "gone"} : cluster' = [cluster EXCEPT ![n].artifacts[a].blob = blob]
    BY <2>1 DEF ChangeBlob
  <2>3. cluster' \in [Clusters -> Store]
    <3>1. cluster[n] \in Store /\ cluster[n].artifacts[a] \in Metadata
      BY <1>0, StoreFields
    <3>2. PICK m : m = [cluster[n].artifacts[a] EXCEPT !.blob = blob]
      OBVIOUS
    <3>3. m \in Metadata
      BY <3>1, <3>2 DEF Metadata, Blobs
    <3>4. PICK new : new = [cluster[n] EXCEPT !.artifacts[a] = m]
      OBVIOUS
    <3>5. new \in Store
      BY <3>1, <3>3, <3>4 DEF Store
    <3>6. cluster' = [cluster EXCEPT ![n] = new]
      BY <2>2, <3>2, <3>4
    <3> QED
      BY <1>0, <3>5, <3>6
  <2>4. Disturbs(n) /\ faults' \in Nat /\ UNCHANGED <<commits, born, file, restore>>
    BY <1>0, <2>1 DEF ChangeBlob, Fault
  <2>5. /\ foreign' \in SUBSET Clusters /\ backup' \in Backup \cup {NoBackup}
        /\ backup' # NoBackup => backup # NoBackup
    BY <2>4, DisturbsTyped
  <2>6. Typed'
    BY <1>0, <2>3, <2>4, <2>5 DEF Typed
  <2>7. InOrderOfUse'
    BY <2>4, <2>5 DEF InOrderOfUse
  <2> QED
    BY <2>6, <2>7
<1> QED
  BY <1>1, <1>2, <1>3, <1>4, <1>5, <1>6, <1>7, <1>8, <1>9, NextIsSteps DEF NextSteps

(* The state has the shape the model means it to have, and a restore reads  *)
(* inside the file that its backup wrote: whatever the code does to its     *)
(* stores, it does to well-formed ones.                                     *)
THEOREM TypeCorrect == Spec => []TypedInOrder
<1>1. Init => TypedInOrder
  BY Initial DEF TypedInOrder
<1> QED
  BY <1>1, TypedStep, PTL DEF Spec

-----------------------------------------------------------------------------
(* No altered record gets into a store.                                    *)
LEMMA CleanKeeps ==
  ASSUME Typed, AlteredStaysOut, NEW n \in Clusters, NEW new, Turns(n, new), Clean(cluster[n], new),
         decayed' = decayed
  PROVE  AlteredStaysOut'
<1>1. cluster'[n] = new /\ \A m \in Clusters : m # n => cluster'[m] = cluster[m]
  BY TurnsTyped
<1>2. /\ \A r \in Logs(new) : r.whole
      /\ \A a \in Runs : new.artifacts[a].blob \in {"damaged", "gone"} => <<n, a>> \in decayed
  BY DEF AlteredStaysOut, Clean
<1>3. ASSUME NEW m \in Clusters
      PROVE  /\ \A r \in Logs(cluster'[m]) : r.whole
             /\ \A a \in Runs : cluster'[m].artifacts[a].blob \in {"damaged", "gone"} => <<m, a>> \in decayed'
  BY <1>1, <1>2 DEF AlteredStaysOut
<1> QED
  BY <1>3 DEF AlteredStaysOut, Logs

LEMMA AlteredStep == TypedInOrder /\ AlteredStaysOut /\ [Next]_vars => AlteredStaysOut'
<1> SUFFICES ASSUME Typed, InOrderOfUse, AlteredStaysOut, [Next]_vars PROVE AlteredStaysOut'
  BY DEF TypedInOrder
<1>1. CASE UNCHANGED <<cluster, decayed>>
  BY <1>1 DEF AlteredStaysOut, Logs
<1>2. CASE Kernel
  <2>1. PICK n \in Clusters : \E new : Turns(n, new) /\ Clean(cluster[n], new)
    BY <1>2, KernelDoes
  <2>2. decayed' = decayed
    BY <1>2, KernelDoes
  <2> QED
    BY <2>1, <2>2, CleanKeeps
<1>3. CASE RestoreStep
  <2>1. PICK new : Brings(new)
    BY <1>3, RestoreBrings
  <2>2. decayed' = decayed /\ restore.into \in Clusters
    BY <1>3, RestoreBrings, Running DEF OthersStay
  <2>3. Turns(restore.into, new) /\ Clean(cluster[restore.into], new)
    BY <2>1 DEF Brings, Target
  <2> QED
    BY <2>2, <2>3, CleanKeeps
<1>4. CASE \E n \in Clusters, a \in Runs : ChangeBlob(n, a)
  <2>1. PICK n \in Clusters, a \in Runs : ChangeBlob(n, a)
    BY <1>4
  <2>2. PICK blob \in {"damaged", "gone"} : cluster' = [cluster EXCEPT ![n].artifacts[a].blob = blob]
    BY <2>1 DEF ChangeBlob
  <2>3. decayed' = decayed \cup {<<n, a>>}
    BY <2>1 DEF ChangeBlob
  <2>4. PICK m : m = [cluster[n].artifacts[a] EXCEPT !.blob = blob]
    OBVIOUS
  <2>5. PICK new : new = [cluster[n] EXCEPT !.artifacts[a] = m]
    OBVIOUS
  <2>6. cluster' = [cluster EXCEPT ![n] = new]
    BY <2>2, <2>4, <2>5
  <2>7. cluster[n] \in Store /\ cluster \in [Clusters -> Store]
    BY DEF Typed
  <2>8. /\ new.events = cluster[n].events /\ new.receipts = cluster[n].receipts
        /\ \A b \in Runs : b # a => new.artifacts[b] = cluster[n].artifacts[b]
    BY <2>5, <2>7, StoreFields DEF Store
  <2>9. ASSUME NEW c \in Clusters
        PROVE  /\ \A r \in Logs(cluster'[c]) : r.whole
               /\ \A b \in Runs : cluster'[c].artifacts[b].blob \in {"damaged", "gone"} => <<c, b>> \in decayed'
    <3>1. CASE c = n
      BY <2>3, <2>6, <2>7, <2>8, <3>1 DEF AlteredStaysOut, Logs
    <3>2. CASE c # n
      BY <2>3, <2>6, <2>7, <3>2 DEF AlteredStaysOut
    <3> QED
      BY <3>1, <3>2
  <2> QED
    BY <2>9 DEF AlteredStaysOut, Logs
<1>5. CASE \/ UNCHANGED vars \/ Reading \/ BackupContents \/ CrashRestore \/ AlterFile
           \/ \E n \in Clusters : StartRestore(n)
  <2>1. UNCHANGED <<cluster, decayed>>
    BY <1>5, ReadingDoes DEF vars, BackupContents, OnlyBackup, CrashRestore, AlterFile, StartRestore
  <2> QED
    BY <1>1, <2>1
<1> QED
  BY <1>2, <1>3, <1>4, <1>5, NextIsSteps DEF NextSteps

(* No record whose content lost its hash gets from a file into a store,     *)
(* whatever is altered in the file, and however often a restore is killed   *)
(* or goes into a cluster in use: reconcileImportedIntegrity and the        *)
(* re-hashing of the contents stand before every write.                    *)
THEOREM AlteredNeverGetsIn == Spec => []AlteredStaysOut
<1>1. Init => AlteredStaysOut
  <2> SUFFICES ASSUME Init PROVE AlteredStaysOut
    OBVIOUS
  <2>1. \A n \in Clusters : cluster[n] = Empty
    BY DEF Init
  <2>2. Logs(Empty) = {} /\ \A a \in Runs : Empty.artifacts[a].blob = "none"
    BY DEF Logs, Range, Empty, NoArtifact
  <2> QED
    BY <2>1, <2>2 DEF AlteredStaysOut
<1> QED
  BY <1>1, AlteredStep, TypeCorrect, PTL DEF Spec

-----------------------------------------------------------------------------
(* Every receipt of the file has its command there.                        *)

(* What a step of the kernel does to the queue and the receipts of home.    *)
LEMMA KernelSaves ==
  ASSUME Typed, Kernel, file = NoFile, SavedAtHome
  PROVE  LET k == cluster["home"]
             new == cluster'["home"] IN
         /\ \A c \in Commands : k.commands[c] = "committed" => new.commands[c] = "committed"
         /\ \A i \in DOMAIN new.receipts : new.commands[new.receipts[i].cmd] = "committed"
         /\ \A c \in Commands : commits'[c].step = "receipt" /\ commits'[c].at = "home"
               => new.commands[c] = "committed"
<1> DEFINE k == cluster["home"]
           next == cluster'["home"]
           Keeps == \A c \in Commands : k.commands[c] = "committed" => next.commands[c] = "committed"
           Follow == \A c \in Commands : commits'[c].step = "receipt" /\ commits'[c].at = "home"
               => next.commands[c] = "committed"
<1>0. "home" \in Clusters /\ k \in Store /\ commits \in [Commands -> Commit \cup {Idle}]
  BY DEF Clusters, Typed
<1>r. k.receipts \in Seq(Receipt) /\ \A i \in DOMAIN k.receipts : k.receipts[i].cmd \in Commands
  <2>1. k.receipts \in Seq(Receipt)
    BY <1>0, StoreFields
  <2>2. \A q \in Seq(Receipt) : \A i \in DOMAIN q : q[i] \in Receipt
    OBVIOUS
  <2>3. \A x \in Receipt : x.cmd \in Commands
    BY DEF Receipt
  <2> QED
    BY <2>1, <2>2, <2>3
<1>s. /\ \A i \in DOMAIN k.receipts : k.commands[k.receipts[i].cmd] = "committed"
      /\ \A c \in Commands : commits[c].step = "receipt" /\ commits[c].at = "home"
             => k.commands[c] = "committed"
  BY DEF SavedAtHome
<1> HIDE DEF k, next
<1>n. next = cluster'["home"]
  BY DEF next
<1>1. ASSUME NEW n \in Clusters, NEW c \in Commands, CommitStore(n, c)
      PROVE  next.receipts = k.receipts /\ Keeps /\ Follow
  <2>1. PICK new : Turns(n, new) /\ new.receipts = cluster[n].receipts /\ new.commands = cluster[n].commands
    BY <1>1, CommitStoreDoes
  <2>2. cluster'[n] = new /\ \A m \in Clusters : m # n => cluster'[m] = cluster[m]
    BY <2>1, TurnsTyped
  <2>3. next.receipts = k.receipts /\ next.commands = k.commands
    BY <1>0, <2>1, <2>2 DEF k, next
  <2>4. PICK subject \in Runs : commits' = [commits EXCEPT ![c] =
                  [step |-> "event", at |-> n, run |-> born + 1, subject |-> subject]]
    BY <1>1, CommitStoreDoes
  <2>5. \A d \in Commands : commits'[d] = commits[d] \/ commits'[d].step = "event"
    BY <1>0, <2>4
  <2> QED
    BY <1>s, <2>3, <2>5
<1>2. ASSUME NEW c \in Commands, Propose(c)
      PROVE  next.receipts = k.receipts /\ Keeps /\ Follow
  <2>1. PICK new : /\ Turns("home", new) /\ new.receipts = k.receipts /\ k.commands[c] = "none"
                   /\ \A d \in Commands : d # c => new.commands[d] = k.commands[d]
    BY <1>2, ProposeDoes DEF k, next
  <2>2. next = new
    BY <1>0, <1>n, <2>1, TurnsTyped
  <2>3. UNCHANGED commits
    BY <1>2 DEF Propose
  <2> QED
    BY <1>s, <2>1, <2>2, <2>3
<1>3. ASSUME NEW c \in Commands, commits[c].step \in Steps, commits[c].step # "receipt", Continue(c),
             NEW new, Turns(commits[c].at, new), new.receipts = cluster[commits[c].at].receipts,
             \/ new.commands = cluster[commits[c].at].commands /\ commits[c].step = "event"
             \/ new.commands = [cluster[commits[c].at].commands EXCEPT ![c] = "committed"]
      PROVE  next.receipts = k.receipts /\ Keeps /\ Follow
  <2>1. commits[c].at \in Clusters
    BY <1>3, CommitFields
  <2>2. cluster'[commits[c].at] = new /\ \A m \in Clusters : m # commits[c].at => cluster'[m] = cluster[m]
    BY <1>3, <2>1, TurnsTyped
  <2>3. /\ \A d \in Commands : d # c => commits'[d] = commits[d]
        /\ commits'[c].step = NextPhase[commits[c].step] /\ commits'[c].at = commits[c].at
    BY <1>3, ContinueTyped
  <2>4. commits[c].step = "event" => commits'[c].step = "save"
    BY <2>3 DEF NextPhase
  <2>5. CASE commits[c].at = "home"
    <3>1. next.receipts = k.receipts
      BY <1>3, <2>2, <2>5 DEF k, next
    <3>2. /\ \A d \in Commands : d # c => next.commands[d] = k.commands[d]
          /\ (next.commands = k.commands /\ commits'[c].step = "save") \/ next.commands[c] = "committed"
      BY <1>0, <1>3, <2>2, <2>4, <2>5, StoreFields DEF k, next
    <3> QED
      BY <1>s, <2>3, <3>1, <3>2
  <2>6. CASE commits[c].at # "home"
    <3>1. next = k
      BY <1>0, <2>2, <2>6 DEF k, next
    <3> QED
      BY <1>s, <2>3, <2>6, <3>1
  <2> QED
    BY <2>5, <2>6
<1>4. ASSUME NEW c \in Commands, commits[c].step = "receipt", Continue(c),
             NEW new, Turns(commits[c].at, new), new.commands = cluster[commits[c].at].commands
      PROVE  /\ commits[c].at \in Clusters /\ cluster'[commits[c].at] = new
             /\ next.commands = k.commands /\ Keeps /\ Follow
             /\ commits[c].at # "home" => next = k
  <2>1. commits[c].at \in Clusters
    BY <1>4, CommitFields DEF Steps
  <2>2. cluster'[commits[c].at] = new /\ \A m \in Clusters : m # commits[c].at => cluster'[m] = cluster[m]
    BY <1>4, <2>1, TurnsTyped
  <2>3. next.commands = k.commands /\ (commits[c].at # "home" => next = k)
    BY <1>0, <1>4, <2>2 DEF k, next
  <2>4. (\A d \in Commands : d # c => commits'[d] = commits[d]) /\ commits'[c] = Idle
    BY <1>4, ContinueTyped DEF Steps
  <2>5. Follow
    BY <1>s, <2>3, <2>4 DEF Idle
  <2> QED
    BY <2>1, <2>2, <2>3, <2>5
<1>5. ASSUME NEW c \in Commands, CommitEvent(c) \/ CommitSave(c)
      PROVE  next.receipts = k.receipts /\ Keeps /\ Follow
  <2>1. commits[c].step \in Steps /\ commits[c].step # "receipt" /\ Continue(c)
    BY <1>5 DEF CommitEvent, CommitSave, Steps
  <2>2. \E new : /\ Turns(commits[c].at, new) /\ new.receipts = cluster[commits[c].at].receipts
                 /\ \/ new.commands = cluster[commits[c].at].commands /\ commits[c].step = "event"
                    \/ new.commands = [cluster[commits[c].at].commands EXCEPT ![c] = "committed"]
    <3>1. CASE CommitEvent(c)
      BY <3>1, CommitEventDoes DEF CommitEvent
    <3>2. CASE CommitSave(c)
      BY <3>2, CommitSaveDoes
    <3> QED
      BY <1>5, <3>1, <3>2
  <2> QED
    BY <1>3, <2>1, <2>2
<1>6. ASSUME NEW c \in Commands, recordOrphanMutation(c)
      PROVE  next.receipts = k.receipts /\ Keeps /\ Follow
  <2>1. commits[c].step = "receipt" /\ Continue(c)
    BY <1>6 DEF recordOrphanMutation
  <2>2. PICK new : /\ Turns(commits[c].at, new) /\ new.receipts = cluster[commits[c].at].receipts
                   /\ new.commands = cluster[commits[c].at].commands
    BY <1>6, OrphanDoes
  <2>3. /\ cluster'[commits[c].at] = new /\ Keeps /\ Follow
        /\ commits[c].at # "home" => next = k
    BY <1>4, <2>1, <2>2
  <2>4. next.receipts = k.receipts
    BY <2>2, <2>3 DEF k, next
  <2> QED
    BY <2>3, <2>4
<1>7. ASSUME NEW c \in Commands, CommitReceipt(c)
      PROVE  /\ \A i \in DOMAIN next.receipts : next.commands[next.receipts[i].cmd] = "committed"
             /\ Keeps /\ Follow
  <2>1. commits[c].step = "receipt" /\ Continue(c)
    BY <1>7 DEF CommitReceipt
  <2>2. PICK new : /\ Turns(commits[c].at, new) /\ new.commands = cluster[commits[c].at].commands
                   /\ new.receipts = appendReceipt(cluster[commits[c].at].receipts, commits[c].run, commits[c].run, c)
    BY <1>7, CommitReceiptDoes
  <2>3. /\ cluster'[commits[c].at] = new /\ Keeps /\ Follow /\ next.commands = k.commands
        /\ commits[c].at # "home" => next = k
    BY <1>4, <2>1, <2>2
  <2>4. CASE commits[c].at # "home"
    BY <1>s, <2>3, <2>4
  <2>5. CASE commits[c].at = "home"
    <3>1. PICK run : run = commits[c].run
      OBVIOUS
    <3>2. run \in Nat
      BY <2>1, <3>1, CommitFields DEF Steps
    <3>3. PICK log : log = appendReceipt(k.receipts, run, run, c)
      OBVIOUS
    <3>4. /\ log \in Seq(Receipt) /\ Len(log) = Len(k.receipts) + 1
          /\ \A i \in 1..Len(k.receipts) : log[i] = k.receipts[i]
          /\ log[Len(k.receipts) + 1].cmd = c
      <4>1. /\ log \in Seq(Receipt) /\ Len(log) = Len(k.receipts) + 1
            /\ \A i \in 1..Len(k.receipts) : log[i] = k.receipts[i]
            /\ log[Len(k.receipts) + 1] =
                  [id |-> run, event |-> run, cmd |-> c, prev |-> LastId(k.receipts), whole |-> TRUE]
        BY <1>r, <3>2, <3>3, AppendReceiptTyped
      <4> QED
        BY <4>1
    <3>5. next.receipts = log
      BY <2>2, <2>3, <2>5, <3>1, <3>3 DEF k, next
    <3>6. \A i \in DOMAIN log : i \in DOMAIN k.receipts \/ i = Len(k.receipts) + 1
      BY <1>r, <3>4
    <3>7. DOMAIN k.receipts = 1..Len(k.receipts)
      BY <1>r
    <3>8. k.commands[c] = "committed"
      BY <1>s, <2>1, <2>5
    <3>9. \A i \in DOMAIN log : k.commands[log[i].cmd] = "committed"
      BY <1>s, <3>4, <3>6, <3>7, <3>8
    <3> QED
      BY <2>3, <3>5, <3>9
  <2> QED
    BY <2>4, <2>5
<1>8. (\E c \in Commands : CommitReceipt(c)) \/ (next.receipts = k.receipts /\ Keeps /\ Follow)
  BY <1>1, <1>2, <1>5, <1>6 DEF Kernel
<1>9. next.receipts = k.receipts /\ Keeps =>
        \A i \in DOMAIN next.receipts : next.commands[next.receipts[i].cmd] = "committed"
  BY <1>r, <1>s
<1> QED
  BY <1>7, <1>8, <1>9 DEF k, next

LEMMA Kinds ==
  /\ \A x \in EntityRecord : x.kind = "entity"
  /\ \A x \in ArtifactRecord : x.kind = "artifact"
  /\ \A x \in EventRecord : x.kind = "event"
  /\ \A x \in ReceiptRecord : x.kind = "receipt" /\ x.cmd \in Commands
  /\ \A x \in CommandRecord : x.kind = "command"
  /\ \A x \in StagingRecord : x.kind = "staging"
  /\ \A x \in StoreRecord : x.kind \in {"entity", "artifact", "event", "receipt"}
                            /\ (x.kind = "receipt" => x \in ReceiptRecord)
  BY DEF StoreRecord, EntityRecord, ArtifactRecord, EventRecord, ReceiptRecord, CommandRecord, StagingRecord

LEMMA InSeq ==
  ASSUME NEW S, NEW q \in Seq(S)
  PROVE  /\ Len(q) \in Nat /\ DOMAIN q = 1..Len(q)
         /\ \A i \in DOMAIN q : q[i] \in S
  OBVIOUS

(* What is where in the file.                                              *)
LEMMA FileParts ==
  ASSUME Typed, NEW filled, Fills(filled)
  PROVE  LET F == FileOf(filled)
             Q == QueueItems(cluster["home"], options)
             n == Len(filled) IN
         /\ n \in Nat /\ DOMAIN filled = 1..n
         /\ \A i \in DOMAIN filled : i \in DOMAIN F /\ F[i] = filled[i]
         /\ \A j \in DOMAIN Q : \E i \in DOMAIN F : F[i] = Q[j]
         /\ \A i \in DOMAIN F : i \in DOMAIN filled \/ (F[i].kind \in {"index", "command", "staging"} /\ i > n)
         /\ Distinct(filled) => Distinct(F)
         /\ \E i \in DOMAIN F : F[i].kind = "index"
<1>1. cluster["home"] \in Store
  BY DEF Typed, Clusters
<1>2. PICK q, g, m : q = QueueItems(cluster["home"], options) /\ g = StagingItems(cluster["home"], options) /\ m = <<IndexMark>>
  OBVIOUS
<1>3. filled \in Seq(Record) /\ q \in Seq(Record) /\ g \in Seq(Record) /\ m \in Seq(Record)
  BY <1>2, FileOfTyped
<1>4. /\ \A i \in DOMAIN q : q[i].kind = "command"
      /\ \A i \in DOMAIN g : g[i].kind = "staging"
      /\ Distinct(q) /\ Distinct(g)
  <2>1. q \in Seq(CommandRecord) /\ g \in Seq(StagingRecord) /\ Distinct(q) /\ Distinct(g)
    BY <1>1, <1>2, QueueListed, StagingListed
  <2>2. \A i \in DOMAIN q : q[i] \in CommandRecord
    BY <2>1, InSeq
  <2>3. \A i \in DOMAIN g : g[i] \in StagingRecord
    BY <2>1, InSeq
  <2> QED
    BY <2>1, <2>2, <2>3, Kinds
<1>5. DOMAIN m = {1} /\ Len(m) = 1 /\ (\A i \in DOMAIN m : m[i].kind = "index") /\ Distinct(m)
  BY <1>2 DEF IndexMark, Distinct
<1>6. \A i \in DOMAIN filled : filled[i].kind \in {"entity", "artifact", "event", "receipt"}
  <2>1. \A i \in DOMAIN filled : filled[i] \in StoreRecord
    BY InSeq DEF Fills
  <2> QED
    BY <2>1, Kinds
<1>7. PICK a : a = filled \o m
  OBVIOUS
<1>8. PICK b : b = a \o q
  OBVIOUS
<1>9. PICK F : F = b \o g
  OBVIOUS
<1>10. F = FileOf(filled)
  BY <1>2, <1>7, <1>8, <1>9 DEF FileOf
<1>11. PICK n \in Nat : n = Len(filled)
  BY <1>3
<1>12. DOMAIN filled = 1..n
  BY <1>3, <1>11
<1>13. \A x, y \in Seq(Record) :
         /\ x \o y \in Seq(Record) /\ DOMAIN (x \o y) = 1..Len(x) + Len(y)
         /\ Len(x \o y) = Len(x) + Len(y) /\ Len(x) \in Nat /\ DOMAIN x = 1..Len(x)
         /\ \A i \in 1..Len(x) : (x \o y)[i] = x[i]
         /\ \A j \in 1..Len(y) : (x \o y)[Len(x) + j] = y[j]
  OBVIOUS
<1>14. \A x, y \in Seq(Record) : \A i \in DOMAIN (x \o y) :
         i \in DOMAIN x \/ \E j \in DOMAIN y : i = Len(x) + j
  <2> TAKE x, y \in Seq(Record)
  <2> QED
    BY Concat
<1>25. /\ Len(m) \in Nat
       /\ filled \o m \in Seq(Record) /\ DOMAIN (filled \o m) = 1..Len(filled) + Len(m)
       /\ Len(filled \o m) = Len(filled) + Len(m)
       /\ \A i \in 1..Len(filled) : (filled \o m)[i] = filled[i]
       /\ \A j \in 1..Len(m) : (filled \o m)[Len(filled) + j] = m[j]
  BY <1>3, <1>13
<1>15. a \in Seq(Record) /\ Len(a) = n + 1 /\ DOMAIN a = 1..n + 1
       /\ (\A i \in 1..n : a[i] = filled[i]) /\ a[n + 1].kind = "index"
  BY <1>5, <1>7, <1>11, <1>25
<1>26. /\ Len(q) \in Nat
       /\ a \o q \in Seq(Record) /\ DOMAIN (a \o q) = 1..Len(a) + Len(q)
       /\ Len(a \o q) = Len(a) + Len(q)
       /\ \A i \in 1..Len(a) : (a \o q)[i] = a[i]
       /\ \A j \in 1..Len(q) : (a \o q)[Len(a) + j] = q[j]
  BY <1>3, <1>13, <1>15
<1>16. b \in Seq(Record) /\ Len(b) = n + 1 + Len(q) /\ DOMAIN b = 1..n + 1 + Len(q) /\ Len(q) \in Nat
       /\ (\A i \in 1..n + 1 : b[i] = a[i]) /\ (\A j \in 1..Len(q) : b[n + 1 + j] = q[j])
  BY <1>8, <1>15, <1>26
<1>27. /\ Len(g) \in Nat
       /\ b \o g \in Seq(Record) /\ DOMAIN (b \o g) = 1..Len(b) + Len(g)
       /\ Len(b \o g) = Len(b) + Len(g)
       /\ \A i \in 1..Len(b) : (b \o g)[i] = b[i]
       /\ \A j \in 1..Len(g) : (b \o g)[Len(b) + j] = g[j]
  BY <1>3, <1>13, <1>16
<1>17. F \in Seq(Record) /\ Len(F) = n + 1 + Len(q) + Len(g) /\ DOMAIN F = 1..n + 1 + Len(q) + Len(g)
       /\ Len(g) \in Nat
       /\ (\A i \in 1..n + 1 + Len(q) : F[i] = b[i]) /\ (\A j \in 1..Len(g) : F[n + 1 + Len(q) + j] = g[j])
  BY <1>9, <1>16, <1>27
<1>18. \A i \in DOMAIN filled : i \in DOMAIN F /\ F[i] = filled[i]
  <2> TAKE i \in DOMAIN filled
  <2>1. i \in 1..n /\ i \in 1..n + 1 /\ i \in 1..n + 1 + Len(q) /\ i \in 1..n + 1 + Len(q) + Len(g)
    BY <1>11, <1>12, <1>16, <1>17
  <2> QED
    BY <1>15, <1>16, <1>17, <2>1
<1>19. \A j \in DOMAIN q : \E i \in DOMAIN F : F[i] = q[j]
  <2> TAKE j \in DOMAIN q
  <2>1. j \in 1..Len(q)
    BY <1>3, <1>13
  <2>2. n + 1 + j \in 1..n + 1 + Len(q) /\ n + 1 + j \in 1..n + 1 + Len(q) + Len(g)
    BY <1>11, <1>16, <1>17, <2>1
  <2> QED
    BY <1>16, <1>17, <2>1, <2>2
<1>20. \A i \in DOMAIN F : i \in DOMAIN filled \/ (F[i].kind \in {"index", "command", "staging"} /\ i > n)
  <2> TAKE i \in DOMAIN F
  <2>1. i \in DOMAIN b \/ \E j \in DOMAIN g : i = Len(b) + j
    BY <1>3, <1>9, <1>14, <1>16
  <2>2. CASE \E j \in DOMAIN g : i = Len(b) + j
    <3>1. PICK j \in DOMAIN g : i = Len(b) + j
      BY <2>2
    <3>2. j \in 1..Len(g) /\ i = n + 1 + Len(q) + j
      BY <1>3, <1>13, <1>16, <3>1
    <3>3. F[i] = g[j] /\ i > n
      BY <1>11, <1>16, <1>17, <3>2
    <3> QED
      BY <1>4, <3>1, <3>3
  <2>3. CASE i \in DOMAIN b
    <3>1. F[i] = b[i]
      BY <1>16, <1>17, <2>3
    <3>2. i \in DOMAIN a \/ \E j \in DOMAIN q : i = Len(a) + j
      BY <1>3, <1>8, <1>14, <1>15, <2>3
    <3>3. CASE \E j \in DOMAIN q : i = Len(a) + j
      <4>1. PICK j \in DOMAIN q : i = Len(a) + j
        BY <3>3
      <4>2. j \in 1..Len(q) /\ i = n + 1 + j
        BY <1>3, <1>13, <1>15, <4>1
      <4>3. b[i] = q[j] /\ i > n
        BY <1>11, <1>16, <4>2
      <4> QED
        BY <1>4, <3>1, <4>1, <4>3
    <3>4. CASE i \in DOMAIN a
      <4>1. i \in 1..n \/ i = n + 1
        BY <1>11, <1>15, <3>4
      <4>2. b[i] = a[i]
        BY <1>15, <1>16, <3>4
      <4> QED
        BY <1>11, <1>12, <1>15, <3>1, <4>1, <4>2
    <3> QED
      BY <3>2, <3>3, <3>4
  <2> QED
    BY <2>1, <2>2, <2>3
<1>21. Distinct(filled) => Distinct(F)
  <2> SUFFICES ASSUME Distinct(filled) PROVE Distinct(F)
    OBVIOUS
  <2>1. Distinct(a)
    <3>1. \A i \in DOMAIN filled, j \in DOMAIN m : filled[i].kind # m[j].kind
      BY <1>5, <1>6
    <3> QED
      BY <1>3, <1>5, <1>7, <3>1, DistinctConcat
  <2>2. \A i \in DOMAIN a : a[i].kind \in {"entity", "artifact", "event", "receipt", "index"}
    <3>1. \A i \in DOMAIN a : i \in 1..n \/ i = n + 1
      BY <1>11, <1>15
    <3> QED
      BY <1>6, <1>12, <1>15, <3>1
  <2>3. Distinct(b)
    <3>1. \A i \in DOMAIN a, j \in DOMAIN q : a[i].kind # q[j].kind
      BY <1>4, <2>2
    <3> QED
      BY <1>3, <1>4, <1>8, <1>15, <2>1, <3>1, DistinctConcat
  <2>4. \A i \in DOMAIN b : b[i].kind # "staging"
    <3> TAKE i \in DOMAIN b
    <3>1. i \in DOMAIN a \/ \E j \in DOMAIN q : i = Len(a) + j
      BY <1>3, <1>8, <1>14, <1>15
    <3>2. CASE i \in DOMAIN a
      BY <1>15, <1>16, <2>2, <3>2
    <3>3. CASE \E j \in DOMAIN q : i = Len(a) + j
      <4>1. PICK j \in DOMAIN q : i = Len(a) + j
        BY <3>3
      <4>2. j \in 1..Len(q) /\ i = n + 1 + j
        BY <1>3, <1>13, <1>15, <4>1
      <4> QED
        BY <1>4, <1>16, <4>1, <4>2
    <3> QED
      BY <3>1, <3>2, <3>3
  <2>5. \A i \in DOMAIN b, j \in DOMAIN g : b[i].kind # g[j].kind
    BY <1>4, <2>4
  <2> QED
    BY <1>3, <1>4, <1>9, <1>16, <2>3, <2>5, DistinctConcat
<1>22. \E i \in DOMAIN F : F[i].kind = "index"
  <2>1. n + 1 \in 1..n + 1 /\ n + 1 \in 1..n + 1 + Len(q) /\ n + 1 \in 1..n + 1 + Len(q) + Len(g)
    BY <1>11, <1>16, <1>17
  <2> QED
    BY <1>15, <1>16, <1>17, <2>1
<1> QED
  BY <1>2, <1>10, <1>11, <1>12, <1>18, <1>19, <1>20, <1>21, <1>22

LEMMA SavedStep == TypedInOrder /\ ReceiptsSaved /\ [Next]_vars => ReceiptsSaved'
<1> SUFFICES ASSUME Typed, InOrderOfUse, ReceiptsSaved, [Next]_vars PROVE ReceiptsSaved'
  BY DEF TypedInOrder
<1>0. SavedAtHome /\ SavedIfRead /\ ReceiptsKeepTheirCommands
  BY DEF ReceiptsSaved
<1>b. /\ backup.items \in Seq(StoreRecord)
      /\ \A i \in DOMAIN backup.items : backup.items[i].kind = "receipt" => backup.items[i].cmd \in Commands
  <2>1. backup.items \in Seq(StoreRecord)
    BY StepBackup
  <2>2. \A i \in DOMAIN backup.items : backup.items[i] \in StoreRecord
    BY <2>1, InSeq
  <2> QED
    BY <2>1, <2>2, Kinds
<1>w. WithQueue' = WithQueue
  BY OptionsStay DEF WithQueue
<1>n. NoBackup.items = <<>> /\ DOMAIN <<>> = {} /\ NoFile.items = <<>>
  BY DEF NoBackup, NoFile
<1>1. CASE UNCHANGED <<cluster, commits, backup, file>>
  BY <1>0, <1>1, <1>w DEF ReceiptsSaved, SavedAtHome, SavedIfRead, ReceiptsKeepTheirCommands
<1>2. CASE Kernel
  <2>1. PICK n \in Clusters : Disturbs(n)
    BY <1>2, KernelDoes
  <2>2. backup'.items = backup.items /\ UNCHANGED file
    BY <1>2, <2>1, DisturbsTyped, KernelDoes
  <2>3. ReceiptsKeepTheirCommands'
    BY <1>0, <1>w, <2>2 DEF ReceiptsKeepTheirCommands
  <2>4. CASE file = NoFile
    <3>1. SavedAtHome'
      BY <1>0, <1>2, <2>2, <2>4, KernelSaves DEF SavedAtHome
    <3>2. \A c \in Commands : cluster["home"].commands[c] = "committed" => cluster'["home"].commands[c] = "committed"
      BY <1>0, <1>2, <2>4, KernelSaves
    <3>3. SavedIfRead'
      BY <1>0, <1>b, <2>2, <3>2 DEF SavedIfRead
    <3> QED
      BY <2>3, <3>1, <3>3 DEF ReceiptsSaved
  <2>5. CASE file # NoFile
    <3>1. backup = NoBackup
      BY <2>5 DEF InOrderOfUse
    <3> QED
      BY <1>n, <2>2, <2>3, <2>5, <3>1 DEF ReceiptsSaved, SavedAtHome, SavedIfRead
  <2> QED
    BY <2>4, <2>5
<1>3. CASE Reading
  <2>1. UNCHANGED <<cluster, commits, file>>
    BY <1>3, ReadingDoes
  <2>2. SavedAtHome' /\ ReceiptsKeepTheirCommands'
    BY <1>0, <1>w, <2>1 DEF SavedAtHome, ReceiptsKeepTheirCommands
  <2> DEFINE Has(items) == \A i \in DOMAIN items : items[i].kind = "receipt" =>
                              cluster["home"].commands[items[i].cmd] = "committed"
  <2>3. ASSUME NEW items \in Seq(StoreRecord), backup'.items = backup.items \o items, Has(items)
        PROVE  Has(backup'.items)
    <3>1. PICK p, r : p = backup.items /\ r = p \o items
      OBVIOUS
    <3>2. p \in Seq(StoreRecord) /\ Has(p)
      BY <1>0, <1>b, <3>1 DEF SavedIfRead
    <3>3. /\ \A i \in 1..Len(p) : (p \o items)[i] = p[i]
          /\ \A j \in 1..Len(items) : (p \o items)[Len(p) + j] = items[j]
          /\ \A i \in DOMAIN (p \o items) : i \in DOMAIN p \/ \E j \in DOMAIN items : i = Len(p) + j
      BY <3>2, Concat
    <3>4. DOMAIN p = 1..Len(p) /\ DOMAIN items = 1..Len(items)
      BY <3>2, InSeq
    <3>5. Has(r)
      <4> TAKE i \in DOMAIN r
      <4>1. CASE i \in DOMAIN p
        BY <3>1, <3>2, <3>3, <3>4, <4>1
      <4>2. CASE \E j \in DOMAIN items : i = Len(p) + j
        BY <2>3, <3>1, <3>3, <3>4, <4>2
      <4> QED
        BY <3>1, <3>3, <4>1, <4>2
    <3> QED
      BY <2>3, <3>1, <3>5
  <2>4. Has(backup'.items)
    <3>1. CASE BackupEntities
      <4>1. backup'.items \in Seq(EntityRecord)
        BY <3>1, EntitiesRead
      <4>2. \A i \in DOMAIN backup'.items : backup'.items[i].kind = "entity"
        BY <4>1, InSeq, Kinds
      <4> QED
        BY <4>2
    <3>2. CASE BackupArtifacts
      <4>1. PICK items : items = ArtifactItems(cluster["home"])
        OBVIOUS
      <4>2. items \in Seq(StoreRecord) /\ items \in Seq(ArtifactRecord) /\ backup'.items = backup.items \o items
        BY <3>2, <4>1, ArtifactsRead
      <4>3. \A i \in DOMAIN items : items[i].kind = "artifact"
        BY <4>2, InSeq, Kinds
      <4> QED
        BY <2>3, <4>2, <4>3
    <3>3. CASE BackupEvents
      <4>1. PICK items : items = EventItems(cluster["home"])
        OBVIOUS
      <4>2. items \in Seq(StoreRecord) /\ items \in Seq(EventRecord) /\ backup'.items = backup.items \o items
        BY <3>3, <4>1, EventsRead
      <4>3. \A i \in DOMAIN items : items[i].kind = "event"
        BY <4>2, InSeq, Kinds
      <4> QED
        BY <2>3, <4>2, <4>3
    <3>4. CASE BackupReceipts
      <4>1. PICK items : items = ReceiptItems(cluster["home"])
        OBVIOUS
      <4>2. items \in Seq(StoreRecord) /\ backup'.items = backup.items \o items /\ backup # NoBackup
        BY <3>4, <4>1, ReceiptsRead
      <4>3. file = NoFile
        BY <4>2 DEF InOrderOfUse
      <4>4. cluster["home"] \in Store
        BY DEF Typed, Clusters
      <4>5. \A i \in DOMAIN items : \E j \in DOMAIN cluster["home"].receipts : items[i].cmd = cluster["home"].receipts[j].cmd
        BY <4>1, <4>4, ReceiptsListed
      <4>6. Has(items)
        BY <1>0, <4>3, <4>5 DEF SavedAtHome
      <4> QED
        BY <2>3, <4>2, <4>6
    <3> QED
      BY <1>3, <3>1, <3>2, <3>3, <3>4 DEF Reading
  <2>5. SavedIfRead'
    BY <2>1, <2>4 DEF SavedIfRead
  <2> QED
    BY <2>2, <2>5 DEF ReceiptsSaved
<1>4. CASE BackupContents
  <2>1. backup # NoBackup /\ backup' = NoBackup
    BY <1>4, ContentsRead
  <2>2. UNCHANGED <<cluster, commits>>
    BY <1>4 DEF BackupContents, OnlyBackup
  <2>3. SavedIfRead'
    BY <1>n, <2>1 DEF SavedIfRead
  <2>4. CASE UNCHANGED file
    BY <1>0, <1>w, <2>2, <2>3, <2>4 DEF ReceiptsSaved, SavedAtHome, ReceiptsKeepTheirCommands
  <2>5. ASSUME NEW filled, Fills(filled),
               file' = [items |-> FileOf(filled), quiet |-> backup.quiet, health |-> backup.health, altered |-> FALSE]
        PROVE  ReceiptsSaved'
    <3>1. PICK F, q : F = FileOf(filled) /\ q = QueueItems(cluster["home"], options)
      OBVIOUS
    <3>2. file'.items = F /\ F # <<>>
      BY <2>5, <3>1, FileOfTyped
    <3>3. file' # NoFile
      BY <3>2 DEF NoFile
    <3>4. /\ \A i \in DOMAIN filled : i \in DOMAIN F /\ F[i] = filled[i]
          /\ \A j \in DOMAIN q : \E i \in DOMAIN F : F[i] = q[j]
          /\ \A i \in DOMAIN F : i \in DOMAIN filled \/ F[i].kind \in {"index", "command", "staging"}
      BY <2>5, <3>1, FileParts
    <3>5. cluster["home"] \in Store
      BY DEF Typed, Clusters
    <3>6. /\ q \in Seq(CommandRecord)
          /\ \A c \in Commands : "commandQueue" \in options /\ cluster["home"].commands[c] # "none" => \E i \in DOMAIN q : q[i].id = c
          /\ \A i \in DOMAIN q : q[i].status = cluster["home"].commands[q[i].id]
      BY <3>1, <3>5, QueueListed
    <3>7. \A i \in DOMAIN q : q[i].kind = "command"
      BY <3>6, InSeq, Kinds
    <3>8. ASSUME WithQueue, NEW i \in DOMAIN F, F[i].kind = "receipt"
          PROVE  \E j \in DOMAIN F : F[j].kind = "command" /\ F[j].id = F[i].cmd /\ F[j].status = "committed"
      <4>1. i \in DOMAIN filled /\ F[i] = filled[i]
        BY <3>4, <3>8
      <4>2. F[i] = backup.items[i] /\ i \in DOMAIN backup.items
        BY <2>5, <3>8, <4>1 DEF Fills
      <4>3. F[i].cmd \in Commands /\ cluster["home"].commands[F[i].cmd] = "committed"
        BY <1>0, <1>b, <3>8, <4>2 DEF SavedIfRead
      <4>4. PICK j \in DOMAIN q : q[j].id = F[i].cmd
        BY <3>6, <3>8, <4>3 DEF WithQueue
      <4>5. q[j].status = "committed" /\ q[j].kind = "command"
        BY <3>6, <3>7, <4>3, <4>4
      <4> QED
        BY <3>4, <4>4, <4>5
    <3>9. ReceiptsKeepTheirCommands'
      BY <1>w, <3>2, <3>8 DEF ReceiptsKeepTheirCommands
    <3> QED
      BY <2>3, <3>3, <3>9 DEF ReceiptsSaved, SavedAtHome
  <2> QED
    BY <1>4, <2>4, <2>5, ContentsRead
<1>5. CASE RestoreStep
  <2>1. file # NoFile /\ UNCHANGED <<backup, file>>
    BY <1>5, RestoreBrings, Running DEF OthersStay
  <2>2. backup = NoBackup
    BY <2>1 DEF InOrderOfUse
  <2>3. SavedAtHome' /\ SavedIfRead'
    BY <1>n, <2>1, <2>2 DEF SavedAtHome, SavedIfRead
  <2>4. ReceiptsKeepTheirCommands'
    BY <1>0, <1>w, <2>1 DEF ReceiptsKeepTheirCommands
  <2> QED
    BY <2>3, <2>4 DEF ReceiptsSaved
<1>6. CASE AlterFile
  <2>1. /\ DOMAIN file'.items = DOMAIN file.items /\ file' \in File
        /\ \A i \in DOMAIN file.items :
              /\ file'.items[i].kind = file.items[i].kind /\ file'.items[i].id = file.items[i].id
              /\ file.items[i].kind = "receipt" => file'.items[i].cmd = file.items[i].cmd
              /\ file.items[i].kind = "command" => file'.items[i] = file.items[i]
    BY <1>6, AlterDoes
  <2>2. file # NoFile /\ UNCHANGED backup
    BY <1>6 DEF AlterFile
  <2>3. backup = NoBackup
    BY <2>2 DEF InOrderOfUse
  <2>4. file' # NoFile
    <3>1. file.items # <<>>
      BY <2>2 DEF InOrderOfUse
    <3>2. 1 \in DOMAIN file.items
      BY <3>1, FileTyped
    <3> QED
      BY <1>n, <2>1, <3>2
  <2>5. ReceiptsKeepTheirCommands'
    <3>1. ASSUME WithQueue, NEW i \in DOMAIN file'.items, file'.items[i].kind = "receipt"
          PROVE  \E j \in DOMAIN file'.items : /\ file'.items[j].kind = "command"
                    /\ file'.items[j].id = file'.items[i].cmd /\ file'.items[j].status = "committed"
      <4>1. PICK j \in DOMAIN file.items : /\ file.items[j].kind = "command"
                     /\ file.items[j].id = file.items[i].cmd /\ file.items[j].status = "committed"
        BY <1>0, <2>1, <3>1 DEF ReceiptsKeepTheirCommands
      <4> QED
        BY <2>1, <3>1, <4>1
    <3> QED
      BY <1>w, <3>1 DEF ReceiptsKeepTheirCommands
  <2> QED
    BY <1>n, <2>2, <2>3, <2>4, <2>5 DEF ReceiptsSaved, SavedAtHome, SavedIfRead
<1>7. CASE \E n \in Clusters, a \in Runs : ChangeBlob(n, a)
  <2>1. PICK n \in Clusters, a \in Runs : ChangeBlob(n, a)
    BY <1>7
  <2>2. Disturbs(n) /\ UNCHANGED <<file, commits>>
    BY <2>1 DEF ChangeBlob
  <2>3. backup'.items = backup.items
    BY <2>2, DisturbsTyped
  <2>4. PICK blob : cluster' = [cluster EXCEPT ![n].artifacts[a].blob = blob]
    BY <2>1 DEF ChangeBlob
  <2>5. PICK m : m = [cluster[n].artifacts EXCEPT ![a].blob = blob]
    OBVIOUS
  <2>6. cluster' = [cluster EXCEPT ![n] = [cluster[n] EXCEPT !.artifacts = m]]
    BY <2>4, <2>5
  <2>7. "home" \in Clusters /\ cluster \in [Clusters -> Store]
    BY DEF Typed, Clusters
  <2>8. cluster'["home"].receipts = cluster["home"].receipts /\ cluster'["home"].commands = cluster["home"].commands
    BY <2>6, <2>7 DEF Store
  <2> QED
    BY <1>0, <1>w, <2>2, <2>3, <2>8 DEF ReceiptsSaved, SavedAtHome, SavedIfRead, ReceiptsKeepTheirCommands
<1>8. CASE UNCHANGED vars \/ CrashRestore \/ \E n \in Clusters : StartRestore(n)
  <2>1. UNCHANGED <<cluster, commits, backup, file>>
    BY <1>8 DEF vars, CrashRestore, StartRestore
  <2> QED
    BY <1>1, <2>1
<1> QED
  BY <1>2, <1>3, <1>4, <1>5, <1>6, <1>7, <1>8, NextIsSteps DEF NextSteps

LEMMA SavedHolds == Spec => []ReceiptsSaved
<1>1. Init => ReceiptsSaved
  <2> SUFFICES ASSUME Init PROVE ReceiptsSaved
    OBVIOUS
  <2>1. cluster["home"].receipts = <<>> /\ backup.items = <<>> /\ file.items = <<>> /\ DOMAIN <<>> = {}
    BY DEF Init, Clusters, Empty, NoBackup, NoFile
  <2>2. \A c \in Commands : commits[c].step # "receipt"
    BY DEF Init, Idle
  <2> QED
    BY <2>1, <2>2 DEF ReceiptsSaved, SavedAtHome, SavedIfRead, ReceiptsKeepTheirCommands
<1> QED
  BY <1>1, SavedStep, TypeCorrect, PTL DEF Spec

(* A backup taken while commits go on holds, for every receipt it holds,    *)
(* the command of that receipt, committed: runOwned saves the command       *)
(* before it appends the receipt, and backup() reads the ledger before the  *)
(* queue.                                                                  *)
THEOREM ReceiptsAreNeverStranded == Spec => []ReceiptsKeepTheirCommands
<1>1. ReceiptsSaved => ReceiptsKeepTheirCommands
  BY DEF ReceiptsSaved
<1> QED
  BY <1>1, SavedHolds, PTL

-----------------------------------------------------------------------------
(* The records of a file have distinct ids, kind by kind, and the mark      *)
(* comes after all that is to be indexed.                                  *)
LEMMA IdsAppend ==
  ASSUME NEW S, NEW q \in Seq(S), NEW r \in S
  PROVE  /\ Ids(Append(q, r)) = Ids(q) \cup {r.id}
         /\ IdsDistinct(q) /\ r.id \notin Ids(q) => IdsDistinct(Append(q, r))
<1>1. PICK s : s = Append(q, r)
  OBVIOUS
<1>2. /\ DOMAIN q = 1..Len(q) /\ DOMAIN s = 1..Len(q) + 1 /\ Len(q) \in Nat
      /\ \A i \in 1..Len(q) + 1 : s[i] = IF i = Len(q) + 1 THEN r ELSE q[i]
  BY <1>1
<1>3. \A i \in 1..Len(q) + 1 : i \in 1..Len(q) \/ i = Len(q) + 1
  BY <1>2
<1>4. /\ \A i \in 1..Len(q) : i \in 1..Len(q) + 1 /\ i # Len(q) + 1
      /\ Len(q) + 1 \in 1..Len(q) + 1
  BY <1>2
<1>5. \A i \in DOMAIN q : i \in DOMAIN s /\ s[i] = q[i]
  BY <1>2, <1>4
<1>6. \A i \in DOMAIN s : (i \in DOMAIN q /\ s[i] = q[i]) \/ (i = Len(q) + 1 /\ s[i] = r)
  BY <1>2, <1>3, <1>5
<1>7. Len(q) + 1 \in DOMAIN s /\ s[Len(q) + 1] = r
  BY <1>2, <1>4
<1>8. Ids(s) = Ids(q) \cup {r.id}
  BY <1>5, <1>6, <1>7 DEF Ids
<1>9. ASSUME IdsDistinct(q), r.id \notin Ids(q) PROVE IdsDistinct(s)
  <2>1. \A i \in DOMAIN q : q[i].id # r.id
    BY <1>9 DEF Ids
  <2> QED
    BY <1>6, <1>9, <2>1 DEF IdsDistinct
<1> QED
  BY <1>1, <1>8, <1>9

(* A commit that goes on uses its own number, and no other commit has it.   *)
LEMMA ApartStep ==
  ASSUME Typed, NEW ev, NEW re, Apart(ev, re, commits, born),
         NEW c \in Commands, commits[c].step \in Steps, Continue(c), NEW ev2, NEW re2,
         \/ ev2 = ev /\ re2 = re
         \/ commits[c].step = "event" /\ ev2 = ev \cup {commits[c].run} /\ re2 = re
         \/ commits[c].step = "receipt" /\ ev2 = ev /\ re2 = re \cup {commits[c].run}
         \/ commits[c].step = "receipt" /\ ev2 = ev \cup {MaxRuns + commits[c].run} /\ re2 = re
  PROVE  Apart(ev2, re2, commits', born)
<1>1. PICK n \in Nat : n = MaxRuns
  BY Naturals
<1>2. /\ \A d \in Commands : commits[d] # Idle => commits[d].run \in 1..n
      /\ \A run \in Runs : run \in 1..n
      /\ born \in Nat
  BY <1>1, Naturals DEF Typed, Commit
<1>3. commits[c] # Idle
  BY CommitFields DEF Steps
<1>4. PICK x \in 1..n : x = commits[c].run
  BY <1>2, <1>3
<1>5. /\ \A d \in Commands : d # c => commits'[d] = commits[d]
      /\ commits[c].step = "receipt" => commits'[c] = Idle
      /\ commits[c].step # "receipt" =>
              /\ commits'[c].step = NextPhase[commits[c].step] /\ commits'[c].run = commits[c].run
  BY ContinueTyped
<1>6. commits[c].step # "receipt" => commits'[c].step # "event"
  BY <1>5 DEF NextPhase, Steps
<1>7. /\ x <= born
      /\ \A d \in Commands : d # c /\ commits[d] # Idle => commits[d].run # x
  BY <1>3, <1>4 DEF Apart
<1>8. \A y \in 1..n : n + y # x
  OBVIOUS
<1>9. \A y \in 1..n : y # x => n + y # n + x
  OBVIOUS
<1>13. \A y \in 1..n : n + x # y
  OBVIOUS
<1>10. \A run \in Runs : run > born => run \notin ev2 /\ MaxRuns + run \notin ev2 /\ run \notin re2
  <2> SUFFICES ASSUME NEW run \in Runs, run > born
               PROVE  run \notin ev2 /\ MaxRuns + run \notin ev2 /\ run \notin re2
    OBVIOUS
  <2>1. run \notin ev /\ MaxRuns + run \notin ev /\ run \notin re
    BY DEF Apart
  <2>2. run # x /\ run \in 1..n
    BY <1>2, <1>7
  <2>3. n + run # x /\ n + run # n + x /\ n + x # run
    BY <1>8, <1>9, <1>13, <2>2
  <2> QED
    BY <1>1, <1>4, <2>1, <2>2, <2>3
<1>11. ASSUME NEW d \in Commands, commits'[d] # Idle
       PROVE  /\ commits'[d].run <= born
              /\ commits'[d].step = "event" => commits'[d].run \notin ev2
              /\ MaxRuns + commits'[d].run \notin ev2
              /\ commits'[d].run \notin re2
  <2>1. CASE d = c
    <3>1. commits[c].step # "receipt" /\ commits'[c].run = x /\ commits'[c].step # "event"
      BY <1>4, <1>5, <1>6, <1>11, <2>1
    <3>2. MaxRuns + x \notin ev /\ x \notin re
      BY <1>3, <1>4 DEF Apart
    <3>3. n + x # x
      BY <1>8
    <3> QED
      BY <1>1, <1>4, <1>7, <2>1, <3>1, <3>2, <3>3
  <2>2. CASE d # c
    <3>1. commits'[d] = commits[d] /\ commits[d] # Idle
      BY <1>5, <1>11, <2>2
    <3>2. PICK y \in 1..n : y = commits[d].run
      BY <1>2, <3>1
    <3>3. /\ y <= born /\ (commits[d].step = "event" => y \notin ev)
          /\ MaxRuns + y \notin ev /\ y \notin re
      BY <3>1, <3>2 DEF Apart
    <3>4. y # x /\ n + y # x /\ n + y # n + x /\ n + x # y
      BY <1>7, <1>8, <1>9, <1>13, <2>2, <3>1, <3>2
    <3> QED
      BY <1>1, <1>4, <3>1, <3>2, <3>3, <3>4
  <2> QED
    BY <2>1, <2>2
<1>12. \A d, e \in Commands :
          commits'[d] # Idle /\ commits'[e] # Idle /\ commits'[d].run = commits'[e].run => d = e
  <2>1. \A d \in Commands : commits'[d] # Idle => commits[d] # Idle /\ commits'[d].run = commits[d].run
    BY <1>3, <1>5
  <2> QED
    BY <2>1 DEF Apart
<1> QED
  BY <1>10, <1>11, <1>12 DEF Apart

LEMMA ApartStart ==
  ASSUME Typed, NEW ev, NEW re, Apart(ev, re, commits, born),
         NEW c \in Commands, NEW n \in Clusters, NEW subject \in Runs, born < MaxRuns, born' = born + 1,
         commits' = [commits EXCEPT ![c] =
                       [step |-> "event", at |-> n, run |-> born + 1, subject |-> subject]]
  PROVE  Apart(ev, re, commits', born')
<1>1. /\ born \in Nat /\ born + 1 \in Runs /\ commits \in [Commands -> Commit \cup {Idle}]
      /\ \A run \in Runs : run \in Nat
  BY Naturals DEF Typed
<1>2. PICK x \in Runs : x = born + 1
  BY <1>1
<1>3. /\ \A d \in Commands : d # c => commits'[d] = commits[d]
      /\ commits'[c].run = x /\ commits'[c].step = "event"
  BY <1>1, <1>2
<1>4. x > born /\ \A run \in Runs : run > born' => run > born
  BY <1>1, <1>2
<1>5. x \notin ev /\ MaxRuns + x \notin ev /\ x \notin re
  BY <1>2, <1>4 DEF Apart
<1>6. \A run \in Runs : run > born' => run \notin ev /\ MaxRuns + run \notin ev /\ run \notin re
  BY <1>4 DEF Apart
<1>7. ASSUME NEW d \in Commands, d # c, commits[d] # Idle
      PROVE  commits[d].run \in Nat /\ commits[d].run <= born' /\ commits[d].run # x
  <2>1. commits[d].run \in Nat /\ commits[d].run <= born
    BY <1>1, <1>7 DEF Commit, Apart
  <2> QED
    BY <1>1, <1>2, <2>1
<1>8. \A d \in Commands : commits'[d] # Idle =>
          /\ commits'[d].run <= born'
          /\ commits'[d].step = "event" => commits'[d].run \notin ev
          /\ MaxRuns + commits'[d].run \notin ev
          /\ commits'[d].run \notin re
  <2> TAKE d \in Commands
  <2>1. CASE d = c
    BY <1>1, <1>2, <1>3, <1>5, <2>1
  <2>2. CASE d # c
    BY <1>3, <1>7, <2>2 DEF Apart
  <2> QED
    BY <2>1, <2>2
<1>9. \A d, e \in Commands :
          commits'[d] # Idle /\ commits'[e] # Idle /\ commits'[d].run = commits'[e].run => d = e
  BY <1>3, <1>7 DEF Apart
<1> QED
  BY <1>6, <1>8, <1>9 DEF Apart

LEMMA KernelApart ==
  ASSUME Typed, Kernel, file = NoFile, RunsDistinct
  PROVE  RunsDistinct'
<1> DEFINE k == cluster["home"]
           next == cluster'["home"]
           Logged == /\ IdsDistinct(next.events) /\ IdsDistinct(next.receipts)
                     /\ Apart(Ids(next.events), Ids(next.receipts), commits', born')
<1>0. "home" \in Clusters /\ k \in Store
  BY DEF Clusters, Typed
<1>1. IdsDistinct(k.events) /\ IdsDistinct(k.receipts) /\ Apart(Ids(k.events), Ids(k.receipts), commits, born)
  BY DEF RunsDistinct
<1>2. k.events \in Seq(Event) /\ k.receipts \in Seq(Receipt)
  BY <1>0, StoreFields
<1>e. k = cluster["home"] /\ next = cluster'["home"]
  OBVIOUS
<1> HIDE DEF k, next
<1>3. ASSUME NEW n \in Clusters, NEW c \in Commands, CommitStore(n, c) PROVE Logged
  <2>1. PICK new : Turns(n, new) /\ new.events = cluster[n].events /\ new.receipts = cluster[n].receipts
    BY <1>3, CommitStoreDoes
  <2>2. cluster'[n] = new /\ \A m \in Clusters : m # n => cluster'[m] = cluster[m]
    BY <2>1, TurnsTyped
  <2>3. next.receipts = k.receipts /\ next.events = k.events
    BY <1>0, <1>e, <2>1, <2>2
  <2>4. PICK subject \in Runs : commits' = [commits EXCEPT ![c] =
                  [step |-> "event", at |-> n, run |-> born + 1, subject |-> subject]]
    BY <1>3, CommitStoreDoes
  <2>5. born < MaxRuns /\ born' = born + 1
    BY <1>3, CommitStoreDoes
  <2>6. PICK ev, re : ev = Ids(k.events) /\ re = Ids(k.receipts)
    OBVIOUS
  <2>7. Apart(ev, re, commits', born')
    BY <1>1, <2>4, <2>5, <2>6, ApartStart
  <2> QED
    BY <1>1, <2>3, <2>6, <2>7
<1>4. ASSUME NEW c \in Commands, Propose(c) PROVE Logged
  <2>1. PICK new : Turns("home", new) /\ new.receipts = k.receipts /\ new.events = k.events
    BY <1>4, <1>e, ProposeDoes
  <2>2. next = new
    BY <1>0, <1>e, <2>1, TurnsTyped
  <2>3. UNCHANGED <<commits, born>>
    BY <1>4 DEF Propose
  <2> QED
    BY <1>1, <2>1, <2>2, <2>3
<1>5. ASSUME NEW c \in Commands, CommitEvent(c) \/ CommitSave(c) \/ CommitReceipt(c) \/ recordOrphanMutation(c)
      PROVE  Logged
  <2>1. PICK n, run, subject : n = commits[c].at /\ run = commits[c].run /\ subject = commits[c].subject
    OBVIOUS
  <2>2. commits[c].step \in Steps /\ Continue(c) /\ UNCHANGED born
    BY <1>5 DEF CommitEvent, CommitSave, CommitReceipt, recordOrphanMutation, Steps
  <2>3. n \in Clusters /\ run \in Nat /\ subject \in Runs /\ MaxRuns + run \in Nat /\ commits[c] # Idle
    BY <2>1, <2>2, CommitFields, Naturals DEF Steps
  <2>4. PICK ev, re : ev = Ids(k.events) /\ re = Ids(k.receipts)
    OBVIOUS
  <2>5. /\ commits[c].step = "event" => run \notin ev
        /\ MaxRuns + run \notin ev /\ run \notin re
    BY <1>1, <2>1, <2>3, <2>4 DEF Apart
  <2>6. ASSUME NEW id \in Nat, NEW action \in Actions, id \notin ev,
               next.events = append(k.events, id, action, subject)
        PROVE  IdsDistinct(next.events) /\ Ids(next.events) = ev \cup {id}
    <3>1. PICK r : r = [id |-> id, action |-> action, subject |-> subject,
                        prev |-> LastId(k.events), whole |-> TRUE]
      OBVIOUS
    <3>2. r \in Event /\ r.id = id
      BY <1>2, <2>3, <3>1, LastIdTyped DEF Event
    <3>3. next.events = Append(k.events, r)
      BY <2>6, <3>1 DEF append
    <3> QED
      BY <1>1, <1>2, <2>4, <2>6, <3>2, <3>3, IdsAppend
  <2>7. ASSUME next.receipts = appendReceipt(k.receipts, run, run, c)
        PROVE  IdsDistinct(next.receipts) /\ Ids(next.receipts) = re \cup {run}
    <3>1. PICK r : r = [id |-> run, event |-> run, cmd |-> c, prev |-> LastId(k.receipts), whole |-> TRUE]
      OBVIOUS
    <3>2. r \in Receipt /\ r.id = run
      BY <1>2, <2>3, <3>1, LastIdTyped DEF Receipt
    <3>3. next.receipts = Append(k.receipts, r)
      BY <2>7, <3>1 DEF appendReceipt
    <3> QED
      BY <1>1, <1>2, <2>4, <2>5, <3>2, <3>3, IdsAppend
  <2>8. \A ev2, re2 :
          \/ ev2 = ev /\ re2 = re
          \/ commits[c].step = "event" /\ ev2 = ev \cup {run} /\ re2 = re
          \/ commits[c].step = "receipt" /\ ev2 = ev /\ re2 = re \cup {run}
          \/ commits[c].step = "receipt" /\ ev2 = ev \cup {MaxRuns + run} /\ re2 = re
          => Apart(ev2, re2, commits', born)
    <3> TAKE ev2, re2
    <3> QED
      BY <1>1, <2>1, <2>2, <2>4, ApartStep
  <2>9. ASSUME NEW new, Turns(n, new)
        PROVE  /\ n = "home" => k = cluster[n] /\ next = new
               /\ n # "home" => next = k
    BY <1>0, <1>e, <2>3, <2>9, TurnsTyped
  <2>10. next = k => Logged
    BY <1>1, <2>2, <2>4, <2>8
  <2>11. CASE CommitEvent(c)
    <3>1. PICK new : /\ Turns(n, new)
                     /\ new.events = append(cluster[n].events, run, "mutation_committed", subject)
                     /\ new.receipts = cluster[n].receipts
      BY <2>1, <2>11, CommitEventDoes
    <3>2. CASE n = "home"
      <4>1. next.events = append(k.events, run, "mutation_committed", subject) /\ next.receipts = k.receipts
        BY <2>9, <3>1, <3>2
      <4>2. commits[c].step = "event" /\ "mutation_committed" \in Actions
        BY <2>11 DEF CommitEvent, Actions
      <4>3. IdsDistinct(next.events) /\ Ids(next.events) = ev \cup {run}
        BY <2>3, <2>5, <2>6, <4>1, <4>2
      <4> QED
        BY <1>1, <2>2, <2>4, <2>8, <4>1, <4>2, <4>3
    <3> QED
      BY <2>9, <2>10, <3>1, <3>2
  <2>12. CASE CommitSave(c)
    <3>1. PICK new : Turns(n, new) /\ new.events = cluster[n].events /\ new.receipts = cluster[n].receipts
      BY <2>1, <2>12, CommitSaveDoes
    <3>2. next.events = k.events /\ next.receipts = k.receipts
      BY <2>9, <3>1
    <3> QED
      BY <1>1, <2>2, <2>4, <2>8, <3>2
  <2>13. CASE CommitReceipt(c)
    <3>1. PICK new : /\ Turns(n, new) /\ new.events = cluster[n].events
                     /\ new.receipts = appendReceipt(cluster[n].receipts, run, run, c)
      BY <2>1, <2>13, CommitReceiptDoes
    <3>2. CASE n = "home"
      <4>1. next.receipts = appendReceipt(k.receipts, run, run, c) /\ next.events = k.events
        BY <2>9, <3>1, <3>2
      <4>2. commits[c].step = "receipt"
        BY <2>13 DEF CommitReceipt
      <4> QED
        BY <1>1, <2>2, <2>4, <2>7, <2>8, <4>1, <4>2
    <3> QED
      BY <2>9, <2>10, <3>1, <3>2
  <2>14. CASE recordOrphanMutation(c)
    <3>1. PICK new : /\ Turns(n, new) /\ new.receipts = cluster[n].receipts
                     /\ \/ new.events = cluster[n].events
                        \/ new.events = append(cluster[n].events, MaxRuns + run, "mutation_orphaned", subject)
      BY <2>1, <2>14, OrphanDoes
    <3>2. commits[c].step = "receipt" /\ "mutation_orphaned" \in Actions
      BY <2>14 DEF recordOrphanMutation, Actions
    <3>3. CASE n = "home" /\ new.events # cluster[n].events
      <4>1. next.events = append(k.events, MaxRuns + run, "mutation_orphaned", subject) /\ next.receipts = k.receipts
        BY <2>9, <3>1, <3>3
      <4>2. IdsDistinct(next.events) /\ Ids(next.events) = ev \cup {MaxRuns + run}
        BY <2>3, <2>5, <2>6, <3>2, <4>1
      <4> QED
        BY <1>1, <2>2, <2>4, <2>8, <3>2, <4>1, <4>2
    <3>4. CASE n = "home" /\ new.events = cluster[n].events
      <4>1. next.events = k.events /\ next.receipts = k.receipts
        BY <2>9, <3>1, <3>4
      <4> QED
        BY <1>1, <2>2, <2>4, <2>8, <4>1
    <3> QED
      BY <2>9, <2>10, <3>1, <3>3, <3>4
  <2> QED
    BY <1>5, <2>11, <2>12, <2>13, <2>14
<1>6. Logged
  BY <1>3, <1>4, <1>5 DEF Kernel
<1> QED
  BY <1>6, <1>e DEF RunsDistinct

(* What is read next is of a kind that was not read before.                *)
LEMMA ReadsMore ==
  ASSUME Typed, BackupSound, NEW items \in Seq(StoreRecord), Distinct(items), NEW kind,
         \A i \in DOMAIN items : items[i].kind = kind,
         kind \notin KindsRead(backup.step), backup'.items = backup.items \o items,
         KindsRead(backup'.step) = KindsRead(backup.step) \cup {kind}
  PROVE  BackupSound'
<1>1. PICK p, r : p = backup.items /\ r = p \o items
  OBVIOUS
<1>2. p \in Seq(StoreRecord) /\ p \in Seq(Record) /\ items \in Seq(Record)
  BY <1>1, StepBackup, StoreRecords
<1>3. Distinct(p) /\ \A i \in DOMAIN p : p[i].kind \in KindsRead(backup.step)
  BY <1>1 DEF BackupSound
<1>4. \A i \in DOMAIN p, j \in DOMAIN items : p[i].kind # items[j].kind
  BY <1>3
<1>5. Distinct(r)
  BY <1>1, <1>2, <1>3, <1>4, DistinctConcat
<1>6. \A i \in DOMAIN r : r[i].kind \in KindsRead(backup.step) \cup {kind}
  <2>1. /\ \A i \in 1..Len(p) : (p \o items)[i] = p[i]
        /\ \A j \in 1..Len(items) : (p \o items)[Len(p) + j] = items[j]
        /\ \A i \in DOMAIN (p \o items) : i \in DOMAIN p \/ \E j \in DOMAIN items : i = Len(p) + j
    BY <1>2, Concat
  <2>2. DOMAIN p = 1..Len(p) /\ DOMAIN items = 1..Len(items)
    BY <1>2, InSeq
  <2> QED
    BY <1>1, <1>3, <2>1, <2>2
<1> QED
  BY <1>1, <1>5, <1>6 DEF BackupSound

LEMMA SoundStep == TypedInOrder /\ FileIsSound /\ [Next]_vars => FileIsSound'
<1> SUFFICES ASSUME Typed, InOrderOfUse, FileIsSound, [Next]_vars PROVE FileIsSound'
  BY DEF TypedInOrder
<1>0. BackupSound /\ FileSound /\ RunsDistinct
  BY DEF FileIsSound
<1>n. /\ NoBackup.items = <<>> /\ DOMAIN <<>> = {} /\ NoFile.items = <<>>
      /\ KindsRead("artifacts") = {"entity"} /\ KindsRead("events") = {"entity", "artifact"}
      /\ KindsRead("receipts") = {"entity", "artifact", "event"}
      /\ KindsRead("contents") = {"entity", "artifact", "event", "receipt"}
  BY DEF NoBackup, NoFile, KindsRead
<1>1. ASSUME backup'.items = backup.items, backup'.step = backup.step PROVE BackupSound'
  BY <1>0, <1>1 DEF BackupSound
<1>2. ASSUME UNCHANGED file PROVE FileSound'
  BY <1>0, <1>2 DEF FileSound
<1>3. CASE Kernel
  <2>1. PICK n \in Clusters : Disturbs(n)
    BY <1>3, KernelDoes
  <2>2. backup'.items = backup.items /\ backup'.step = backup.step /\ UNCHANGED file
    BY <1>3, <2>1, DisturbsTyped, KernelDoes
  <2>3. RunsDistinct'
    <3>1. CASE file = NoFile
      BY <1>0, <1>3, <3>1, KernelApart
    <3>2. CASE file # NoFile
      BY <2>2, <3>2 DEF RunsDistinct
    <3> QED
      BY <3>1, <3>2
  <2> QED
    BY <1>1, <1>2, <2>2, <2>3 DEF FileIsSound
<1>4. CASE Reading
  <2>1. UNCHANGED <<cluster, commits, born, file>>
    BY <1>4, ReadingDoes
  <2>2. FileSound' /\ RunsDistinct'
    BY <1>0, <1>2, <2>1 DEF RunsDistinct
  <2>3. BackupSound'
    <3>1. CASE BackupEntities
      <4>1. backup'.items \in Seq(EntityRecord) /\ Distinct(backup'.items) /\ backup'.step = "artifacts"
        BY <3>1, EntitiesRead
      <4>2. \A i \in DOMAIN backup'.items : backup'.items[i].kind = "entity"
        BY <4>1, InSeq, Kinds
      <4> QED
        BY <1>n, <4>1, <4>2 DEF BackupSound
    <3>2. CASE BackupArtifacts
      <4>1. PICK items : items = ArtifactItems(cluster["home"])
        OBVIOUS
      <4>2. items \in Seq(StoreRecord) /\ items \in Seq(ArtifactRecord) /\ backup'.items = backup.items \o items
            /\ Distinct(items) /\ backup.step = "artifacts" /\ backup'.step = "events"
        BY <3>2, <4>1, ArtifactsRead
      <4>3. \A i \in DOMAIN items : items[i].kind = "artifact"
        BY <4>2, InSeq, Kinds
      <4>4. "artifact" \notin KindsRead(backup.step) /\ KindsRead(backup'.step) = KindsRead(backup.step) \cup {"artifact"}
        BY <1>n, <4>2
      <4> QED
        BY <1>0, <4>2, <4>3, <4>4, ReadsMore
    <3>3. CASE BackupEvents
      <4>1. PICK items : items = EventItems(cluster["home"])
        OBVIOUS
      <4>2. items \in Seq(StoreRecord) /\ items \in Seq(EventRecord) /\ backup'.items = backup.items \o items
            /\ backup # NoBackup /\ (IdsDistinct(cluster["home"].events) => Distinct(items))
            /\ backup.step = "events" /\ backup'.step = "receipts"
        BY <3>3, <4>1, EventsRead
      <4>3. \A i \in DOMAIN items : items[i].kind = "event"
        BY <4>2, InSeq, Kinds
      <4>4. "event" \notin KindsRead(backup.step) /\ KindsRead(backup'.step) = KindsRead(backup.step) \cup {"event"}
        BY <1>n, <4>2
      <4>5. Distinct(items)
        BY <1>0, <4>2 DEF RunsDistinct, InOrderOfUse
      <4> QED
        BY <1>0, <4>2, <4>3, <4>4, <4>5, ReadsMore
    <3>4. CASE BackupReceipts
      <4>1. PICK items : items = ReceiptItems(cluster["home"])
        OBVIOUS
      <4>2. items \in Seq(StoreRecord) /\ items \in Seq(ReceiptRecord) /\ backup'.items = backup.items \o items
            /\ backup # NoBackup /\ (IdsDistinct(cluster["home"].receipts) => Distinct(items))
            /\ backup.step = "receipts" /\ backup'.step = "contents"
        BY <3>4, <4>1, ReceiptsRead
      <4>3. \A i \in DOMAIN items : items[i].kind = "receipt"
        BY <4>2, InSeq, Kinds
      <4>4. "receipt" \notin KindsRead(backup.step) /\ KindsRead(backup'.step) = KindsRead(backup.step) \cup {"receipt"}
        BY <1>n, <4>2
      <4>5. Distinct(items)
        BY <1>0, <4>2 DEF RunsDistinct, InOrderOfUse
      <4> QED
        BY <1>0, <4>2, <4>3, <4>4, <4>5, ReadsMore
    <3> QED
      BY <1>4, <3>1, <3>2, <3>3, <3>4 DEF Reading
  <2> QED
    BY <2>2, <2>3 DEF FileIsSound
<1>5. CASE BackupContents
  <2>1. backup # NoBackup /\ backup' = NoBackup /\ UNCHANGED <<cluster, commits, born>>
    BY <1>5, ContentsRead DEF BackupContents, OnlyBackup
  <2>2. BackupSound'
    BY <1>n, <2>1 DEF BackupSound, Distinct
  <2>3. file = NoFile
    BY <2>1 DEF InOrderOfUse
  <2>4. RunsDistinct'
    BY <1>0, <2>1, <2>3 DEF RunsDistinct
  <2>5. ASSUME NEW filled, Fills(filled),
               file' = [items |-> FileOf(filled), quiet |-> backup.quiet, health |-> backup.health, altered |-> FALSE]
        PROVE  FileSound'
    <3>1. PICK F, n : F = FileOf(filled) /\ n = Len(filled)
      OBVIOUS
    <3>2. file'.items = F
      BY <2>5, <3>1
    <3>3. /\ n \in Nat /\ DOMAIN filled = 1..n
          /\ \A i \in DOMAIN filled : i \in DOMAIN F /\ F[i] = filled[i]
          /\ \A i \in DOMAIN F : i \in DOMAIN filled \/ (F[i].kind \in {"index", "command", "staging"} /\ i > n)
          /\ Distinct(filled) => Distinct(F)
          /\ \E i \in DOMAIN F : F[i].kind = "index"
      BY <2>5, <3>1, FileParts
    <3>4. Distinct(filled)
      BY <1>0, <2>5 DEF BackupSound, Fills, Distinct
    <3>5. \A i \in DOMAIN filled : F[i].kind # "index"
      <4>1. filled \in Seq(StoreRecord)
        BY <2>5 DEF Fills
      <4>2. \A i \in DOMAIN filled : filled[i] \in StoreRecord
        BY <4>1, InSeq
      <4> QED
        BY <3>3, <4>2, Kinds
    <3>6. \A i, j \in DOMAIN F : F[i].kind \in {"entity", "artifact"} /\ F[j].kind = "index" => i < j
      <4>1. SUFFICES ASSUME NEW i \in DOMAIN F, NEW j \in DOMAIN F, F[i].kind \in {"entity", "artifact"}, F[j].kind = "index"
                     PROVE  i < j
        OBVIOUS
      <4>2. i \in 1..n
        BY <3>3, <4>1
      <4>3. j > n /\ j \in Nat
        <5>1. FileOf(filled) \in Seq(Record)
          BY <2>5, FileOfTyped
        <5>2. \A x \in DOMAIN F : x \in Nat
          BY <3>1, <5>1
        <5> QED
          BY <3>3, <3>5, <4>1, <5>2
      <4> QED
        BY <3>3, <4>2, <4>3
    <3> QED
      BY <3>2, <3>3, <3>4, <3>6 DEF FileSound
  <2> QED
    BY <1>2, <1>5, <2>2, <2>4, <2>5, ContentsRead DEF FileIsSound
<1>6. CASE RestoreStep
  <2>1. file # NoFile /\ UNCHANGED <<backup, file>>
    BY <1>6, RestoreBrings, Running DEF OthersStay
  <2> QED
    BY <1>1, <1>2, <2>1 DEF FileIsSound, RunsDistinct
<1>7. CASE AlterFile
  <2>1. /\ DOMAIN file'.items = DOMAIN file.items /\ file' \in File
        /\ \A i \in DOMAIN file.items :
              /\ file'.items[i].kind = file.items[i].kind /\ file'.items[i].id = file.items[i].id
    BY <1>7, AlterDoes
  <2>2. file # NoFile /\ UNCHANGED backup
    BY <1>7 DEF AlterFile
  <2>3. file' # NoFile
    <3>1. file.items # <<>>
      BY <2>2 DEF InOrderOfUse
    <3>2. 1 \in DOMAIN file.items
      BY <3>1, FileTyped
    <3> QED
      BY <1>n, <2>1, <3>2
  <2>4. FileSound'
    <3>1. Distinct(file'.items)
      BY <1>0, <2>1 DEF FileSound, Distinct
    <3>2. PICK i \in DOMAIN file.items : file.items[i].kind = "index"
      BY <1>0, <2>2 DEF FileSound
    <3> QED
      BY <1>0, <2>1, <3>1, <3>2 DEF FileSound
  <2> QED
    BY <1>1, <2>2, <2>3, <2>4 DEF FileIsSound, RunsDistinct
<1>8. CASE \E n \in Clusters, a \in Runs : ChangeBlob(n, a)
  <2>1. PICK n \in Clusters, a \in Runs : ChangeBlob(n, a)
    BY <1>8
  <2>2. Disturbs(n) /\ UNCHANGED <<file, commits, born>>
    BY <2>1 DEF ChangeBlob
  <2>3. backup'.items = backup.items /\ backup'.step = backup.step
    BY <2>2, DisturbsTyped
  <2>4. PICK blob : cluster' = [cluster EXCEPT ![n].artifacts[a].blob = blob]
    BY <2>1 DEF ChangeBlob
  <2>5. PICK m : m = [cluster[n].artifacts EXCEPT ![a].blob = blob]
    OBVIOUS
  <2>6. cluster' = [cluster EXCEPT ![n] = [cluster[n] EXCEPT !.artifacts = m]]
    BY <2>4, <2>5
  <2>7. "home" \in Clusters /\ cluster \in [Clusters -> Store]
    BY DEF Typed, Clusters
  <2>8. cluster'["home"].receipts = cluster["home"].receipts /\ cluster'["home"].events = cluster["home"].events
    BY <2>6, <2>7 DEF Store
  <2>9. RunsDistinct'
    BY <1>0, <2>2, <2>8 DEF RunsDistinct
  <2> QED
    BY <1>1, <1>2, <2>2, <2>3, <2>9 DEF FileIsSound
<1>9. CASE UNCHANGED vars \/ CrashRestore \/ \E n \in Clusters : StartRestore(n)
  <2>1. UNCHANGED <<cluster, commits, born, backup, file>>
    BY <1>9 DEF vars, CrashRestore, StartRestore
  <2>2. RunsDistinct'
    BY <1>0, <2>1 DEF RunsDistinct
  <2> QED
    BY <1>1, <1>2, <2>1, <2>2 DEF FileIsSound
<1> QED
  BY <1>3, <1>4, <1>5, <1>6, <1>7, <1>8, <1>9, NextIsSteps DEF NextSteps

(* However a backup overlaps with commits, its file names nothing twice:    *)
(* commit numbers are used once, and each store is read in one piece.       *)
THEOREM FilesAreSound == Spec => []FileIsSound
<1>1. Init => FileIsSound
  <2> SUFFICES ASSUME Init PROVE FileIsSound
    OBVIOUS
  <2>1. cluster["home"].receipts = <<>> /\ cluster["home"].events = <<>> /\ backup.items = <<>>
        /\ file.items = <<>> /\ file = NoFile /\ DOMAIN <<>> = {} /\ Ids(<<>>) = {}
    BY DEF Init, Clusters, Empty, NoBackup, NoFile, Ids
  <2>2. Apart({}, {}, commits, born)
    BY DEF Init, Apart
  <2> QED
    BY <2>1, <2>2 DEF FileIsSound, BackupSound, FileSound, RunsDistinct, Distinct, IdsDistinct
<1> QED
  BY <1>1, SoundStep, TypeCorrect, PTL DEF Spec

-----------------------------------------------------------------------------
(* Restoring what the first items of a file leave, one item further and    *)
(* again.                                                                  *)
LEMMA LeftParts ==
  ASSUME NEW items, NEW m
  PROVE  Left(items, m) = [canonical |-> LeftCanonical(items, m), artifacts |-> LeftArtifacts(items, m),
                           events |-> LeftEvents(items, m), receipts |-> LeftReceipts(items, m),
                           commands |-> LeftCommands(items, m), staging |-> LeftStaging(items, m),
                           index |-> {}]
  BY DEF Left, At, KeptIn, WholeIn, LeftCanonical, LeftArtifacts, LeftEvents, LeftReceipts, LeftCommands,
         LeftStaging

LEMMA KeptOne ==
  ASSUME NEW items \in Seq(Record), Distinct(items), NEW m \in 0 .. Len(items), NEW i \in 1 .. m,
         NEW kind, items[i].kind = kind
  PROVE  KeptIn(items, m, kind, items[i].id) = <<items[i]>>
<1>1. Len(items) \in Nat /\ DOMAIN items = 1..Len(items) /\ \A j \in 1..m : j \in DOMAIN items
  OBVIOUS
<1>2. {j \in At(items, m, kind) : items[j].id = items[i].id} = {i}
  BY <1>1 DEF At, Distinct
<1>3. Pick(items, {i}) = <<items[i]>>
  BY <1>1, PickOne
<1> QED
  BY <1>2, <1>3 DEF KeptIn

LEMMA KeptNone ==
  ASSUME NEW items, NEW m, NEW kind, NEW id, \A i \in 1 .. m : items[i].kind = kind => items[i].id # id
  PROVE  KeptIn(items, m, kind, id) = <<>>
<1>1. {j \in At(items, m, kind) : items[j].id = id} = {}
  BY DEF At
<1> QED
  BY <1>1, PickNone DEF KeptIn

Sole(x) == <<[n |-> x.n, by |-> x.by]>>
Stands(x) == IF x.blob = "whole" THEN [filename |-> x.filename, blob |-> "whole"] ELSE NoArtifact

LEMMA LeftSays ==
  ASSUME NEW items \in Seq(Record), Distinct(items), NEW m \in 0 .. Len(items)
  PROVE  /\ \A i \in At(items, m, "entity") : items[i].id \in Runs /\ LeftCanonical(items, m)[items[i].id] = Sole(items[i])
         /\ \A e \in Runs : (\A i \in At(items, m, "entity") : items[i].id # e) => LeftCanonical(items, m)[e] = <<>>
         /\ \A i \in At(items, m, "artifact") : items[i].id \in Runs /\ LeftArtifacts(items, m)[items[i].id] = Stands(items[i])
         /\ \A a \in Runs : (\A i \in At(items, m, "artifact") : items[i].id # a) => LeftArtifacts(items, m)[a] = NoArtifact
         /\ \A i \in At(items, m, "command") : items[i].id \in Commands /\ LeftCommands(items, m)[items[i].id] = items[i].status
         /\ \A c \in Commands : (\A i \in At(items, m, "command") : items[i].id # c) => LeftCommands(items, m)[c] = "none"
<1>0. \A i \in 1..m : items[i] \in Record
  OBVIOUS
<1>1. ASSUME NEW i \in At(items, m, "entity")
      PROVE  items[i].id \in Runs /\ LeftCanonical(items, m)[items[i].id] = Sole(items[i])
  <2>1. i \in 1..m /\ items[i].kind = "entity"
    BY DEF At
  <2>2. KeptIn(items, m, "entity", items[i].id) = <<items[i]>>
    BY <2>1, KeptOne
  <2>3. items[i] \in EntityRecord
    BY <1>0, <2>1, KindOfRecord
  <2>4. items[i].id \in Runs
    BY <2>3 DEF EntityRecord
  <2>5. PICK x : x = <<items[i]>>
    OBVIOUS
  <2>6. LeftCanonical(items, m)[items[i].id] = [j \in DOMAIN x |-> [n |-> x[j].n, by |-> x[j].by]]
    BY <2>2, <2>4, <2>5 DEF LeftCanonical
  <2>7. DOMAIN x = {1} /\ x[1] = items[i]
    BY <2>5
  <2>8. PICK v : v = [n |-> items[i].n, by |-> items[i].by]
    OBVIOUS
  <2>9. LeftCanonical(items, m)[items[i].id] = [j \in {1} |-> v]
    BY <2>6, <2>7, <2>8
  <2>10. [j \in {1} |-> v] = <<v>>
    OBVIOUS
  <2> QED
    BY <2>4, <2>8, <2>9, <2>10 DEF Sole
<1>2. ASSUME NEW e \in Runs, \A i \in At(items, m, "entity") : items[i].id # e
      PROVE  LeftCanonical(items, m)[e] = <<>>
  <2>1. KeptIn(items, m, "entity", e) = <<>>
    BY <1>2, KeptNone DEF At
  <2>2. PICK x : x = <<>>
    OBVIOUS
  <2>3. LeftCanonical(items, m)[e] = [j \in DOMAIN x |-> [n |-> x[j].n, by |-> x[j].by]]
    BY <2>1, <2>2 DEF LeftCanonical
  <2>4. DOMAIN x = {}
    BY <2>2
  <2>5. LeftCanonical(items, m)[e] = [j \in {} |-> [n |-> x[j].n, by |-> x[j].by]]
    BY <2>3, <2>4
  <2> QED
    BY <2>5
<1>3. ASSUME NEW i \in At(items, m, "artifact")
      PROVE  items[i].id \in Runs /\ LeftArtifacts(items, m)[items[i].id] = Stands(items[i])
  <2>1. i \in 1..m /\ items[i].kind = "artifact"
    BY DEF At
  <2>2. KeptIn(items, m, "artifact", items[i].id) = <<items[i]>>
    BY <2>1, KeptOne
  <2>3. items[i] \in ArtifactRecord
    BY <1>0, <2>1, KindOfRecord
  <2>4. items[i].id \in Runs
    BY <2>3 DEF ArtifactRecord
  <2>5. PICK x : x = <<items[i]>>
    OBVIOUS
  <2>6. x # <<>> /\ x[1] = items[i]
    BY <2>5
  <2> QED
    BY <2>2, <2>4, <2>5, <2>6 DEF LeftArtifacts, Stands
<1>4. ASSUME NEW a \in Runs, \A i \in At(items, m, "artifact") : items[i].id # a
      PROVE  LeftArtifacts(items, m)[a] = NoArtifact
  <2>1. KeptIn(items, m, "artifact", a) = <<>>
    BY <1>4, KeptNone DEF At
  <2> QED
    BY <2>1 DEF LeftArtifacts
<1>5. ASSUME NEW i \in At(items, m, "command")
      PROVE  items[i].id \in Commands /\ LeftCommands(items, m)[items[i].id] = items[i].status
  <2>1. i \in 1..m /\ items[i].kind = "command"
    BY DEF At
  <2>2. KeptIn(items, m, "command", items[i].id) = <<items[i]>>
    BY <2>1, KeptOne
  <2>3. items[i] \in CommandRecord
    BY <1>0, <2>1, KindOfRecord
  <2>4. items[i].id \in Commands
    BY <2>3 DEF CommandRecord
  <2>5. PICK x : x = <<items[i]>>
    OBVIOUS
  <2>6. x # <<>> /\ x[1] = items[i]
    BY <2>5
  <2> QED
    BY <2>2, <2>4, <2>5, <2>6 DEF LeftCommands
<1>6. ASSUME NEW c \in Commands, \A i \in At(items, m, "command") : items[i].id # c
      PROVE  LeftCommands(items, m)[c] = "none"
  <2>1. KeptIn(items, m, "command", c) = <<>>
    BY <1>6, KeptNone DEF At
  <2> QED
    BY <2>1 DEF LeftCommands
<1> QED
  BY <1>1, <1>2, <1>3, <1>4, <1>5, <1>6

(* The sources that the first items leave are those they name.             *)
LEMMA LeftSources ==
  ASSUME NEW items \in Seq(Record), Distinct(items), NEW m \in 0 .. Len(items), NEW k, k = Left(items, m)
  PROVE  Sources(k) = Indexed(items, m)
<1>0. k.canonical = LeftCanonical(items, m) /\ k.artifacts = LeftArtifacts(items, m)
  BY LeftParts
<1>1. \A e : e \in Entities(k) <=> \E i \in At(items, m, "entity") : items[i].id = e
  <2>1. \A i \in At(items, m, "entity") : Sole(items[i]) # <<>>
    BY DEF Sole
  <2> QED
    BY <1>0, <2>1, LeftSays DEF Entities
<1>2. \A a : a \in Artifacts(k) <=> \E i \in At(items, m, "artifact") : items[i].id = a /\ items[i].blob = "whole"
  <2>1. ASSUME NEW a \in Artifacts(k)
        PROVE  \E i \in At(items, m, "artifact") : items[i].id = a /\ items[i].blob = "whole"
    <3>1. a \in Runs /\ LeftArtifacts(items, m)[a] # NoArtifact
      BY <1>0 DEF Artifacts
    <3>2. PICK i \in At(items, m, "artifact") : items[i].id = a
      BY <3>1, LeftSays
    <3>3. Stands(items[i]) # NoArtifact
      BY <3>1, <3>2, LeftSays
    <3> QED
      BY <3>2, <3>3 DEF Stands
  <2>2. ASSUME NEW i \in At(items, m, "artifact"), items[i].blob = "whole" PROVE items[i].id \in Artifacts(k)
    <3>1. Stands(items[i]) # NoArtifact
      BY <2>2 DEF Stands, NoArtifact
    <3> QED
      BY <1>0, <3>1, LeftSays DEF Artifacts
  <2> QED
    BY <2>1, <2>2
<1> QED
  BY <1>1, <1>2 DEF Sources, Indexed

(* The log that the first items leave.                                     *)
LEMMA LeftLogs ==
  ASSUME NEW items \in Seq(Record), NEW m \in 0 .. Len(items)
  PROVE  /\ LeftEvents(items, m) \in Seq(Event) /\ LeftReceipts(items, m) \in Seq(Receipt)
         /\ \A i \in At(items, m, "event") : items[i].whole =>
              \E j \in DOMAIN LeftEvents(items, m) : LeftEvents(items, m)[j] = EventOf(items[i])
         /\ \A j \in DOMAIN LeftEvents(items, m) : \E i \in At(items, m, "event") :
              items[i].whole /\ LeftEvents(items, m)[j] = EventOf(items[i])
         /\ \A i \in At(items, m, "receipt") : items[i].whole =>
              \E j \in DOMAIN LeftReceipts(items, m) : LeftReceipts(items, m)[j] = ReceiptOf(items[i])
         /\ \A j \in DOMAIN LeftReceipts(items, m) : \E i \in At(items, m, "receipt") :
              items[i].whole /\ LeftReceipts(items, m)[j] = ReceiptOf(items[i])
<1>0. \A i \in 1..m : i \in DOMAIN items /\ items[i] \in Record
  OBVIOUS
<1>1. ASSUME NEW kind, NEW p, p = WholeIn(items, m, kind)
      PROVE  /\ Len(p) \in Nat /\ DOMAIN p = 1..Len(p)
             /\ \A n \in DOMAIN p : \E i \in At(items, m, kind) : items[i].whole /\ p[n] = items[i]
             /\ \A i \in At(items, m, kind) : items[i].whole => \E n \in DOMAIN p : p[n] = items[i]
  <2>1. PICK K : K = {i \in At(items, m, kind) : items[i].whole}
    OBVIOUS
  <2>2. K \in SUBSET DOMAIN items
    BY <1>0, <2>1 DEF At
  <2>3. p = Pick(items, K)
    BY <1>1, <2>1 DEF WholeIn
  <2>4. /\ p \in Seq(Record)
        /\ \A n \in DOMAIN p : Place(K, n) \in K /\ p[n] = items[Place(K, n)]
        /\ \A i \in K : \E n \in DOMAIN p : Place(K, n) = i
    BY <2>2, <2>3, PickPlaces
  <2>5. Len(p) \in Nat /\ DOMAIN p = 1..Len(p)
    BY <2>4, InSeq
  <2>6. \A i : i \in K <=> i \in At(items, m, kind) /\ items[i].whole
    BY <2>1
  <2> QED
    BY <2>4, <2>5, <2>6
<1>2. PICK p, q : p = WholeIn(items, m, "event") /\ q = WholeIn(items, m, "receipt")
  OBVIOUS
<1>3. /\ Len(p) \in Nat /\ DOMAIN p = 1..Len(p)
      /\ \A n \in DOMAIN p : \E i \in At(items, m, "event") : items[i].whole /\ p[n] = items[i]
      /\ \A i \in At(items, m, "event") : items[i].whole => \E n \in DOMAIN p : p[n] = items[i]
  BY <1>1, <1>2
<1>4. /\ Len(q) \in Nat /\ DOMAIN q = 1..Len(q)
      /\ \A n \in DOMAIN q : \E i \in At(items, m, "receipt") : items[i].whole /\ q[n] = items[i]
      /\ \A i \in At(items, m, "receipt") : items[i].whole => \E n \in DOMAIN q : q[n] = items[i]
  BY <1>1, <1>2
<1>5. \A i \in At(items, m, "event") : EventOf(items[i]) \in Event
  <2>1. \A i \in At(items, m, "event") : items[i] \in EventRecord
    BY <1>0, KindOfRecord DEF At
  <2> QED
    BY <2>1 DEF EventOf, EventRecord, Event
<1>6. \A i \in At(items, m, "receipt") : ReceiptOf(items[i]) \in Receipt
  <2>1. \A i \in At(items, m, "receipt") : items[i] \in ReceiptRecord
    BY <1>0, KindOfRecord DEF At
  <2> QED
    BY <2>1 DEF ReceiptOf, ReceiptRecord, Receipt
<1>7. LeftEvents(items, m) = [n \in 1..Len(p) |-> EventOf(p[n])]
  BY <1>2, <1>3 DEF LeftEvents
<1>8. LeftReceipts(items, m) = [n \in 1..Len(q) |-> ReceiptOf(q[n])]
  BY <1>2, <1>4 DEF LeftReceipts
<1>9. LeftEvents(items, m) \in Seq(Event)
  BY <1>3, <1>5, <1>7
<1>10. LeftReceipts(items, m) \in Seq(Receipt)
  BY <1>4, <1>6, <1>8
<1>11. /\ \A i \in At(items, m, "event") : items[i].whole =>
            \E j \in DOMAIN LeftEvents(items, m) : LeftEvents(items, m)[j] = EventOf(items[i])
       /\ \A j \in DOMAIN LeftEvents(items, m) : \E i \in At(items, m, "event") :
            items[i].whole /\ LeftEvents(items, m)[j] = EventOf(items[i])
  BY <1>3, <1>7
<1>12. /\ \A i \in At(items, m, "receipt") : items[i].whole =>
            \E j \in DOMAIN LeftReceipts(items, m) : LeftReceipts(items, m)[j] = ReceiptOf(items[i])
       /\ \A j \in DOMAIN LeftReceipts(items, m) : \E i \in At(items, m, "receipt") :
            items[i].whole /\ LeftReceipts(items, m)[j] = ReceiptOf(items[i])
  BY <1>4, <1>8
<1> QED
  BY <1>9, <1>10, <1>11, <1>12

(* What one more item adds.                                                *)
LEMMA AtNext ==
  ASSUME NEW items, NEW m \in Nat, NEW kind, NEW A, NEW B,
         A = At(items, m, kind), B = At(items, m + 1, kind)
  PROVE  /\ items[m + 1].kind = kind => B = A \cup {m + 1}
         /\ items[m + 1].kind # kind => B = A
<1>1. \A i : i \in 1 .. m + 1 <=> i \in 1 .. m \/ i = m + 1
  OBVIOUS
<1> QED
  BY <1>1 DEF At

LEMMA NewId ==
  ASSUME NEW items \in Seq(Record), Distinct(items), NEW m \in Nat, m + 1 \in DOMAIN items,
         NEW kind, items[m + 1].kind = kind
  PROVE  \A i \in At(items, m, kind) : items[i].id # items[m + 1].id
<1>1. \A i \in 1 .. m : i \in DOMAIN items /\ i # m + 1
  OBVIOUS
<1> QED
  BY <1>1 DEF At, Distinct

LEMMA NextPlace ==
  ASSUME NEW items \in Seq(Record), NEW m \in Nat, m + 1 \in DOMAIN items
  PROVE  m \in 0 .. Len(items) /\ m + 1 \in 0 .. Len(items) /\ items[m + 1] \in Record
  OBVIOUS

LEMMA CanonicalNext ==
  ASSUME NEW items \in Seq(Record), Distinct(items), NEW m \in Nat, m + 1 \in DOMAIN items
  PROVE  LET x == items[m + 1] IN
         /\ x.kind # "entity" => LeftCanonical(items, m + 1) = LeftCanonical(items, m)
         /\ x.kind = "entity" =>
              /\ x.id \in Runs /\ LeftCanonical(items, m)[x.id] = <<>>
              /\ LeftCanonical(items, m + 1) = [LeftCanonical(items, m) EXCEPT ![x.id] = Sole(x)]
<1>1. PICK x, f, g : x = items[m + 1] /\ f = LeftCanonical(items, m) /\ g = LeftCanonical(items, m + 1)
  OBVIOUS
<1>2. f = [e \in Runs |-> f[e]] /\ g = [e \in Runs |-> g[e]]
  BY <1>1 DEF LeftCanonical
<1>3. PICK A, B : A = At(items, m, "entity") /\ B = At(items, m + 1, "entity")
  OBVIOUS
<1>4. /\ \A i \in A : f[items[i].id] = Sole(items[i])
      /\ \A e \in Runs : (\A i \in A : items[i].id # e) => f[e] = <<>>
  BY <1>1, <1>3, NextPlace, LeftSays
<1>5. /\ \A i \in B : items[i].id \in Runs /\ g[items[i].id] = Sole(items[i])
      /\ \A e \in Runs : (\A i \in B : items[i].id # e) => g[e] = <<>>
  BY <1>1, <1>3, NextPlace, LeftSays
<1>6. (x.kind = "entity" => B = A \cup {m + 1}) /\ (x.kind # "entity" => B = A)
  BY <1>1, <1>3, AtNext
<1>7. ASSUME x.kind # "entity" PROVE f = g
  <2>1. \A e \in Runs : f[e] = g[e]
    BY <1>4, <1>5, <1>6, <1>7
  <2> QED
    BY <1>2, <2>1
<1>8. ASSUME x.kind = "entity"
      PROVE  x.id \in Runs /\ f[x.id] = <<>> /\ g = [f EXCEPT ![x.id] = Sole(x)]
  <2>1. \A i \in A : items[i].id # x.id
    BY <1>1, <1>3, <1>8, NewId
  <2>2. m + 1 \in B /\ x.id \in Runs /\ g[x.id] = Sole(x)
    BY <1>1, <1>5, <1>6, <1>8
  <2>3. f[x.id] = <<>>
    BY <1>4, <2>1, <2>2
  <2>4. \A e \in Runs : e # x.id => f[e] = g[e]
    BY <1>1, <1>4, <1>5, <1>6, <1>8
  <2>5. g = [f EXCEPT ![x.id] = Sole(x)]
    BY <1>2, <2>2, <2>4
  <2> QED
    BY <2>2, <2>3, <2>5
<1> QED
  BY <1>1, <1>7, <1>8

LEMMA ArtifactsNext ==
  ASSUME NEW items \in Seq(Record), Distinct(items), NEW m \in Nat, m + 1 \in DOMAIN items
  PROVE  LET x == items[m + 1] IN
         /\ x.kind # "artifact" \/ x.blob # "whole" => LeftArtifacts(items, m + 1) = LeftArtifacts(items, m)
         /\ x.kind = "artifact" => x.id \in Runs /\ LeftArtifacts(items, m)[x.id] = NoArtifact
         /\ x.kind = "artifact" /\ x.blob = "whole" =>
              LeftArtifacts(items, m + 1) =
                [LeftArtifacts(items, m) EXCEPT ![x.id] = [filename |-> x.filename, blob |-> "whole"]]
<1>1. PICK x, f, g : x = items[m + 1] /\ f = LeftArtifacts(items, m) /\ g = LeftArtifacts(items, m + 1)
  OBVIOUS
<1>2. f = [a \in Runs |-> f[a]] /\ g = [a \in Runs |-> g[a]]
  BY <1>1 DEF LeftArtifacts
<1>3. PICK A, B : A = At(items, m, "artifact") /\ B = At(items, m + 1, "artifact")
  OBVIOUS
<1>4. /\ \A i \in A : f[items[i].id] = Stands(items[i])
      /\ \A a \in Runs : (\A i \in A : items[i].id # a) => f[a] = NoArtifact
  BY <1>1, <1>3, NextPlace, LeftSays
<1>5. /\ \A i \in B : items[i].id \in Runs /\ g[items[i].id] = Stands(items[i])
      /\ \A a \in Runs : (\A i \in B : items[i].id # a) => g[a] = NoArtifact
  BY <1>1, <1>3, NextPlace, LeftSays
<1>6. (x.kind = "artifact" => B = A \cup {m + 1}) /\ (x.kind # "artifact" => B = A)
  BY <1>1, <1>3, AtNext
<1>7. ASSUME x.kind # "artifact" PROVE f = g
  <2>1. \A a \in Runs : f[a] = g[a]
    BY <1>4, <1>5, <1>6, <1>7
  <2> QED
    BY <1>2, <2>1
<1>8. ASSUME x.kind = "artifact"
      PROVE  x.id \in Runs /\ f[x.id] = NoArtifact /\ g = [f EXCEPT ![x.id] = Stands(x)]
  <2>1. \A i \in A : items[i].id # x.id
    BY <1>1, <1>3, <1>8, NewId
  <2>2. m + 1 \in B /\ x.id \in Runs /\ g[x.id] = Stands(x)
    BY <1>1, <1>5, <1>6, <1>8
  <2>3. f[x.id] = NoArtifact
    BY <1>4, <2>1, <2>2
  <2>4. \A a \in Runs : a # x.id => f[a] = g[a]
    BY <1>1, <1>4, <1>5, <1>6, <1>8
  <2>5. g = [f EXCEPT ![x.id] = Stands(x)]
    BY <1>2, <2>2, <2>4
  <2> QED
    BY <2>2, <2>3, <2>5
<1>9. ASSUME x.kind = "artifact", x.blob # "whole" PROVE f = g
  <2>1. Stands(x) = NoArtifact
    BY <1>9 DEF Stands
  <2> QED
    BY <1>2, <1>8, <1>9, <2>1
<1>10. x.blob = "whole" => Stands(x) = [filename |-> x.filename, blob |-> "whole"]
  BY DEF Stands
<1> QED
  BY <1>1, <1>7, <1>8, <1>9, <1>10

LEMMA CommandsNext ==
  ASSUME NEW items \in Seq(Record), Distinct(items), NEW m \in Nat, m + 1 \in DOMAIN items
  PROVE  LET x == items[m + 1] IN
         /\ x.kind # "command" => LeftCommands(items, m + 1) = LeftCommands(items, m)
         /\ x.kind = "command" =>
              /\ x.id \in Commands
              /\ LeftCommands(items, m + 1) = [LeftCommands(items, m) EXCEPT ![x.id] = x.status]
<1>1. PICK x, f, g : x = items[m + 1] /\ f = LeftCommands(items, m) /\ g = LeftCommands(items, m + 1)
  OBVIOUS
<1>2. f = [c \in Commands |-> f[c]] /\ g = [c \in Commands |-> g[c]]
  BY <1>1 DEF LeftCommands
<1>3. PICK A, B : A = At(items, m, "command") /\ B = At(items, m + 1, "command")
  OBVIOUS
<1>4. /\ \A i \in A : f[items[i].id] = items[i].status
      /\ \A c \in Commands : (\A i \in A : items[i].id # c) => f[c] = "none"
  BY <1>1, <1>3, NextPlace, LeftSays
<1>5. /\ \A i \in B : items[i].id \in Commands /\ g[items[i].id] = items[i].status
      /\ \A c \in Commands : (\A i \in B : items[i].id # c) => g[c] = "none"
  BY <1>1, <1>3, NextPlace, LeftSays
<1>6. (x.kind = "command" => B = A \cup {m + 1}) /\ (x.kind # "command" => B = A)
  BY <1>1, <1>3, AtNext
<1>7. ASSUME x.kind # "command" PROVE f = g
  <2>1. \A c \in Commands : f[c] = g[c]
    BY <1>4, <1>5, <1>6, <1>7
  <2> QED
    BY <1>2, <2>1
<1>8. ASSUME x.kind = "command" PROVE x.id \in Commands /\ g = [f EXCEPT ![x.id] = x.status]
  <2>2. m + 1 \in B /\ x.id \in Commands /\ g[x.id] = x.status
    BY <1>1, <1>5, <1>6, <1>8
  <2>4. \A c \in Commands : c # x.id => f[c] = g[c]
    BY <1>1, <1>4, <1>5, <1>6, <1>8
  <2>5. g = [f EXCEPT ![x.id] = x.status]
    BY <1>2, <2>2, <2>4
  <2> QED
    BY <2>2, <2>5
<1> QED
  BY <1>1, <1>7, <1>8

LEMMA StagingNext ==
  ASSUME NEW items \in Seq(Record), NEW m \in Nat, m + 1 \in DOMAIN items
  PROVE  LET x == items[m + 1] IN
         /\ ~ (x.kind = "staging" /\ x.whole) => LeftStaging(items, m + 1) = LeftStaging(items, m)
         /\ x.kind = "staging" /\ x.whole => LeftStaging(items, m + 1) = LeftStaging(items, m) \cup {x.id}
<1>1. PICK A, B : A = At(items, m, "staging") /\ B = At(items, m + 1, "staging")
  OBVIOUS
<1>2. (items[m + 1].kind = "staging" => B = A \cup {m + 1}) /\ (items[m + 1].kind # "staging" => B = A)
  BY <1>1, AtNext
<1>3. LeftStaging(items, m) = {items[i].id : i \in {j \in A : items[j].whole}}
  BY <1>1 DEF LeftStaging
<1>4. LeftStaging(items, m + 1) = {items[i].id : i \in {j \in B : items[j].whole}}
  BY <1>1 DEF LeftStaging
<1> QED
  BY <1>2, <1>3, <1>4

LEMMA WholeNext ==
  ASSUME NEW items \in Seq(Record), NEW m \in Nat, m + 1 \in DOMAIN items, NEW kind
  PROVE  LET x == items[m + 1] IN
         /\ ~ (x.kind = kind /\ x.whole) => WholeIn(items, m + 1, kind) = WholeIn(items, m, kind)
         /\ x.kind = kind /\ x.whole => WholeIn(items, m + 1, kind) = Append(WholeIn(items, m, kind), x)
<1>0. PICK A, B : A = At(items, m, kind) /\ B = At(items, m + 1, kind)
  OBVIOUS
<1>a. (items[m + 1].kind = kind => B = A \cup {m + 1}) /\ (items[m + 1].kind # kind => B = A)
  BY <1>0, AtNext
<1>1. PICK K, L : K = {i \in A : items[i].whole} /\ L = {i \in B : items[i].whole}
  OBVIOUS
<1>2. WholeIn(items, m, kind) = Pick(items, K) /\ WholeIn(items, m + 1, kind) = Pick(items, L)
  BY <1>0, <1>1 DEF WholeIn
<1>3. ~ (items[m + 1].kind = kind /\ items[m + 1].whole) => L = K
  BY <1>1, <1>a
<1>4. ASSUME items[m + 1].kind = kind, items[m + 1].whole
      PROVE  Pick(items, L) = Append(Pick(items, K), items[m + 1])
  <2>1. L = K \cup {m + 1}
    BY <1>1, <1>4, <1>a
  <2>2. \A i \in 1..m : i \in DOMAIN items /\ i < m + 1
    OBVIOUS
  <2>3. K \in SUBSET DOMAIN items /\ \A j \in K : j < m + 1
    BY <1>0, <1>1, <2>2 DEF At
  <2>4. Pick(items, K \cup {m + 1}) = Append(Pick(items, K), items[m + 1])
    BY <2>3, PickNext
  <2> QED
    BY <2>1, <2>4
<1> QED
  BY <1>2, <1>3, <1>4

LEMMA LogsNext ==
  ASSUME NEW items \in Seq(Record), NEW m \in Nat, m + 1 \in DOMAIN items
  PROVE  LET x == items[m + 1] IN
         /\ ~ (x.kind = "event" /\ x.whole) => LeftEvents(items, m + 1) = LeftEvents(items, m)
         /\ x.kind = "event" /\ x.whole =>
              LeftEvents(items, m + 1) = Append(LeftEvents(items, m), EventOf(x))
         /\ ~ (x.kind = "receipt" /\ x.whole) => LeftReceipts(items, m + 1) = LeftReceipts(items, m)
         /\ x.kind = "receipt" /\ x.whole =>
              LeftReceipts(items, m + 1) = Append(LeftReceipts(items, m), ReceiptOf(x))
<1>1. \A kind : WholeIn(items, m, kind) \in Seq(Record)
  <2> TAKE kind
  <2>1. PICK K : K = {i \in At(items, m, kind) : items[i].whole}
    OBVIOUS
  <2>2. \A i \in 1..m : i \in DOMAIN items
    OBVIOUS
  <2>3. K \in SUBSET DOMAIN items
    BY <2>1, <2>2 DEF At
  <2>4. Pick(items, K) \in Seq(Record)
    BY <2>3, PickPlaces
  <2> QED
    BY <2>1, <2>4 DEF WholeIn
<1>2. PICK x : x = items[m + 1] /\ x \in Record
  BY NextPlace
<1>3. PICK p, q : p = WholeIn(items, m, "event") /\ q = WholeIn(items, m + 1, "event")
  OBVIOUS
<1>4. PICK r, s : r = WholeIn(items, m, "receipt") /\ s = WholeIn(items, m + 1, "receipt")
  OBVIOUS
<1>5. p \in Seq(Record) /\ r \in Seq(Record)
  BY <1>1, <1>3, <1>4
<1>6. (~ (x.kind = "event" /\ x.whole) => q = p) /\ (x.kind = "event" /\ x.whole => q = Append(p, x))
  BY <1>2, <1>3, WholeNext
<1>7. (~ (x.kind = "receipt" /\ x.whole) => s = r) /\ (x.kind = "receipt" /\ x.whole => s = Append(r, x))
  BY <1>2, <1>4, WholeNext
<1>8. /\ LeftEvents(items, m) = [i \in DOMAIN p |-> EventOf(p[i])]
      /\ LeftEvents(items, m + 1) = [i \in DOMAIN q |-> EventOf(q[i])]
  BY <1>3 DEF LeftEvents
<1>9. /\ LeftReceipts(items, m) = [i \in DOMAIN r |-> ReceiptOf(r[i])]
      /\ LeftReceipts(items, m + 1) = [i \in DOMAIN s |-> ReceiptOf(s[i])]
  BY <1>4 DEF LeftReceipts
<1>10. \A t \in Seq(Record) : [i \in DOMAIN Append(t, x) |-> EventOf(Append(t, x)[i])]
                               = Append([i \in DOMAIN t |-> EventOf(t[i])], EventOf(x))
  BY <1>2
<1>11. \A t \in Seq(Record) : [i \in DOMAIN Append(t, x) |-> ReceiptOf(Append(t, x)[i])]
                               = Append([i \in DOMAIN t |-> ReceiptOf(t[i])], ReceiptOf(x))
  BY <1>2
<1>12. x.kind = "event" /\ x.whole => LeftEvents(items, m + 1) = Append(LeftEvents(items, m), EventOf(x))
  <2> SUFFICES ASSUME x.kind = "event", x.whole
               PROVE  LeftEvents(items, m + 1) = Append(LeftEvents(items, m), EventOf(x))
    OBVIOUS
  <2>1. q = Append(p, x)
    BY <1>6
  <2>2. LeftEvents(items, m + 1) = [i \in DOMAIN Append(p, x) |-> EventOf(Append(p, x)[i])]
    BY <1>8, <2>1
  <2>3. [i \in DOMAIN Append(p, x) |-> EventOf(Append(p, x)[i])]
          = Append([i \in DOMAIN p |-> EventOf(p[i])], EventOf(x))
    BY <1>5, <1>10
  <2> QED
    BY <1>8, <2>2, <2>3
<1>13. x.kind = "receipt" /\ x.whole => LeftReceipts(items, m + 1) = Append(LeftReceipts(items, m), ReceiptOf(x))
  <2> SUFFICES ASSUME x.kind = "receipt", x.whole
               PROVE  LeftReceipts(items, m + 1) = Append(LeftReceipts(items, m), ReceiptOf(x))
    OBVIOUS
  <2>1. s = Append(r, x)
    BY <1>7
  <2>2. LeftReceipts(items, m + 1) = [i \in DOMAIN Append(r, x) |-> ReceiptOf(Append(r, x)[i])]
    BY <1>9, <2>1
  <2>3. [i \in DOMAIN Append(r, x) |-> ReceiptOf(Append(r, x)[i])]
          = Append([i \in DOMAIN r |-> ReceiptOf(r[i])], ReceiptOf(x))
    BY <1>5, <1>11
  <2> QED
    BY <1>9, <2>2, <2>3
<1>14. ~ (x.kind = "event" /\ x.whole) => LeftEvents(items, m + 1) = LeftEvents(items, m)
  BY <1>6, <1>8
<1>15. ~ (x.kind = "receipt" /\ x.whole) => LeftReceipts(items, m + 1) = LeftReceipts(items, m)
  BY <1>7, <1>9
<1> QED
  BY <1>2, <1>12, <1>13, <1>14, <1>15

(* The index is rebuilt after all that it indexes.                         *)
MarkedLast(items) == \A i, j \in DOMAIN items :
    items[i].kind \in {"entity", "artifact"} /\ items[j].kind = "index" => i < j

(* What a restore makes of one more record, in store k, the index aside.   *)
Brought(k, x) ==
    CASE x.kind = "entity" ->
            IF k.canonical[x.id] # <<>> THEN k ELSE [k EXCEPT !.canonical[x.id] = Sole(x)]
      [] x.kind = "artifact" ->
            IF k.artifacts[x.id] # NoArtifact \/ x.blob # "whole" THEN k
            ELSE [k EXCEPT !.artifacts[x.id] = [filename |-> x.filename, blob |-> "whole"]]
      [] x.kind = "event" ->
            IF Named(k.events, x.id) # {} \/ ~ x.whole THEN k
            ELSE [k EXCEPT !.events = Append(@, EventOf(x))]
      [] x.kind = "receipt" ->
            IF Named(k.receipts, x.id) # {} \/ ~ x.whole THEN k
            ELSE [k EXCEPT !.receipts = Append(@, ReceiptOf(x))]
      [] x.kind = "index"   -> k
      [] x.kind = "command" -> [k EXCEPT !.commands[x.id] = x.status]
      [] x.kind = "staging" -> IF x.whole THEN [k EXCEPT !.staging = @ \cup {x.id}] ELSE k

LEMMA FindsNamed ==
  ASSUME NEW S, NEW log \in Seq(S), NEW id
  PROVE  Find(log, id) = <<>> <=> Named(log, id) = {}
<1>1. PICK K : K = Named(log, id)
  OBVIOUS
<1>2. K \in SUBSET DOMAIN log
  BY <1>1 DEF Named
<1>3. K = {} => Pick(log, K) = <<>>
  BY PickNone
<1>4. /\ Pick(log, K) \in Seq(S)
      /\ \A n \in DOMAIN Pick(log, K) : Place(K, n) \in K /\ Pick(log, K)[n] = log[Place(K, n)]
      /\ \A i \in K : \E n \in DOMAIN Pick(log, K) : Place(K, n) = i
  BY <1>2, PickPlaces
<1>5. Pick(log, K) = <<>> => K = {}
  BY <1>4
<1> QED
  BY <1>1, <1>3, <1>5 DEF Find

(* A store without its index, and two that differ in their index alone.    *)
Bare(k) == [k EXCEPT !.index = {}]
Alike(k, l) ==
    /\ k.canonical = l.canonical /\ k.artifacts = l.artifacts /\ k.events = l.events
    /\ k.receipts = l.receipts /\ k.commands = l.commands /\ k.staging = l.staging

LEMMA BareOf ==
  ASSUME NEW k \in Store
  PROVE  Bare(k) \in Store /\ Alike(Bare(k), k) /\ Bare(k).index = {}
  BY DEF Bare, Alike, Store

LEMMA AlikeBare ==
  ASSUME NEW k \in Store, NEW l \in Store, Alike(k, l)
  PROVE  Bare(k) = Bare(l)
  BY DEF Bare, Alike, Store

LEMMA AlikeSources ==
  ASSUME NEW k, NEW l, Alike(k, l)
  PROVE  Entities(k) = Entities(l) /\ Artifacts(k) = Artifacts(l) /\ Sources(k) = Sources(l)
  BY DEF Alike, Sources, Entities, Artifacts

(* A store in which a part is replaced by itself.                         *)
LEMMA ExchangeSame ==
  ASSUME NEW k \in Store
  PROVE  /\ [k EXCEPT !.canonical = k.canonical] = k
         /\ [k EXCEPT !.artifacts = k.artifacts] = k
         /\ [k EXCEPT !.events = k.events] = k
         /\ [k EXCEPT !.receipts = k.receipts] = k
         /\ [k EXCEPT !.commands = k.commands] = k
         /\ [k EXCEPT !.staging = k.staging] = k
         /\ [k EXCEPT !.index = k.index] = k
  BY DEF Store

LEMMA BroughtIndex ==
  ASSUME NEW k \in Store, NEW x \in Record
  PROVE  Brought(k, x).index = k.index
<1>1. CASE x.kind = "entity"
  BY <1>1 DEF Brought, Store
<1>2. CASE x.kind = "artifact"
  BY <1>2 DEF Brought, Store
<1>3. CASE x.kind = "event"
  BY <1>3 DEF Brought, Store
<1>4. CASE x.kind = "receipt"
  BY <1>4 DEF Brought, Store
<1>5. CASE x.kind \in {"index", "command", "staging"}
  BY <1>5 DEF Brought, Store
<1> QED
  BY <1>1, <1>2, <1>3, <1>4, <1>5, KindOfRecord

(* What is brought does not depend on the index.                           *)
LEMMA BroughtBare ==
  ASSUME NEW k \in Store, NEW x \in Record
  PROVE  Bare(Brought(k, x)) = Brought(Bare(k), x)
<1>1. PICK b : b = Bare(k)
  OBVIOUS
<1>2. b = [k EXCEPT !.index = {}] /\ b \in Store /\ Alike(b, k)
  BY <1>1, BareOf DEF Bare
<1>3. CASE x.kind = "entity"
  <2>1. PICK v : v = Sole(x)
    OBVIOUS
  <2>2. /\ Brought(k, x) = IF k.canonical[x.id] # <<>> THEN k ELSE [k EXCEPT !.canonical[x.id] = v]
        /\ Brought(b, x) = IF k.canonical[x.id] # <<>> THEN b ELSE [b EXCEPT !.canonical[x.id] = v]
    BY <1>2, <1>3, <2>1 DEF Brought, Alike
  <2>3. Bare([k EXCEPT !.canonical[x.id] = v]) = [b EXCEPT !.canonical[x.id] = v]
    BY <1>2 DEF Bare, Store
  <2> QED
    BY <1>1, <2>2, <2>3
<1>4. CASE x.kind = "artifact"
  <2>1. PICK v : v = [filename |-> x.filename, blob |-> "whole"]
    OBVIOUS
  <2>2. /\ Brought(k, x) = IF k.artifacts[x.id] # NoArtifact \/ x.blob # "whole" THEN k
                           ELSE [k EXCEPT !.artifacts[x.id] = v]
        /\ Brought(b, x) = IF k.artifacts[x.id] # NoArtifact \/ x.blob # "whole" THEN b
                           ELSE [b EXCEPT !.artifacts[x.id] = v]
    BY <1>2, <1>4, <2>1 DEF Brought, Alike
  <2>3. Bare([k EXCEPT !.artifacts[x.id] = v]) = [b EXCEPT !.artifacts[x.id] = v]
    BY <1>2 DEF Bare, Store
  <2> QED
    BY <1>1, <2>2, <2>3
<1>5. CASE x.kind = "event"
  <2>1. PICK v : v = Append(k.events, EventOf(x))
    OBVIOUS
  <2>2. /\ Brought(k, x) = IF Named(k.events, x.id) # {} \/ ~ x.whole THEN k ELSE [k EXCEPT !.events = v]
        /\ Brought(b, x) = IF Named(k.events, x.id) # {} \/ ~ x.whole THEN b ELSE [b EXCEPT !.events = v]
    BY <1>2, <1>5, <2>1 DEF Brought, Alike
  <2>3. Bare([k EXCEPT !.events = v]) = [b EXCEPT !.events = v]
    BY <1>2 DEF Bare, Store
  <2> QED
    BY <1>1, <2>2, <2>3
<1>6. CASE x.kind = "receipt"
  <2>1. PICK v : v = Append(k.receipts, ReceiptOf(x))
    OBVIOUS
  <2>2. /\ Brought(k, x) = IF Named(k.receipts, x.id) # {} \/ ~ x.whole THEN k ELSE [k EXCEPT !.receipts = v]
        /\ Brought(b, x) = IF Named(k.receipts, x.id) # {} \/ ~ x.whole THEN b ELSE [b EXCEPT !.receipts = v]
    BY <1>2, <1>6, <2>1 DEF Brought, Alike
  <2>3. Bare([k EXCEPT !.receipts = v]) = [b EXCEPT !.receipts = v]
    BY <1>2 DEF Bare, Store
  <2> QED
    BY <1>1, <2>2, <2>3
<1>7. CASE x.kind = "index"
  BY <1>1, <1>7 DEF Brought
<1>8. CASE x.kind = "command"
  <2>1. Brought(k, x) = [k EXCEPT !.commands[x.id] = x.status] /\ Brought(b, x) = [b EXCEPT !.commands[x.id] = x.status]
    BY <1>8 DEF Brought
  <2>2. Bare([k EXCEPT !.commands[x.id] = x.status]) = [b EXCEPT !.commands[x.id] = x.status]
    BY <1>2 DEF Bare, Store
  <2> QED
    BY <1>1, <2>1, <2>2
<1>9. CASE x.kind = "staging"
  <2>1. PICK v : v = k.staging \cup {x.id}
    OBVIOUS
  <2>2. /\ Brought(k, x) = IF x.whole THEN [k EXCEPT !.staging = v] ELSE k
        /\ Brought(b, x) = IF x.whole THEN [b EXCEPT !.staging = v] ELSE b
    BY <1>2, <1>9, <2>1 DEF Brought, Alike
  <2>3. Bare([k EXCEPT !.staging = v]) = [b EXCEPT !.staging = v]
    BY <1>2 DEF Bare, Store
  <2> QED
    BY <1>1, <2>2, <2>3
<1> QED
  BY <1>3, <1>4, <1>5, <1>6, <1>7, <1>8, <1>9, KindOfRecord

(* What is brought adds its source to the sources, and takes none away.     *)
LEMMA BroughtSources ==
  ASSUME NEW k \in Store, NEW x \in Record
  PROVE  /\ \A s \in Sources(Brought(k, x)) : s \in Sources(k) \/ (x.kind \in {"entity", "artifact"} /\ s = x.id)
         /\ Sources(k) \subseteq Sources(Brought(k, x))
<1>0. k.canonical \in [Runs -> Seq(Version)] /\ k.artifacts \in [Runs -> Metadata]
  BY StoreFields
<1>1. ASSUME NEW new, new.canonical = k.canonical, new.artifacts = k.artifacts PROVE Sources(new) = Sources(k)
  BY <1>1 DEF Sources, Entities, Artifacts
<1>2. CASE x.kind = "entity"
  <2>1. PICK new : new = [k EXCEPT !.canonical[x.id] = Sole(x)]
    OBVIOUS
  <2>2. new.artifacts = k.artifacts /\ \A e \in Runs : e # x.id => new.canonical[e] = k.canonical[e]
    BY <1>0, <2>1 DEF Store
  <2>3. \A s \in Sources(new) : s \in Sources(k) \/ s = x.id
    BY <2>2 DEF Sources, Entities, Artifacts
  <2>4. Brought(k, x) = k \/ (Brought(k, x) = new /\ k.canonical[x.id] = <<>>)
    BY <1>2, <2>1 DEF Brought
  <2>5. k.canonical[x.id] = <<>> => Sources(k) \subseteq Sources(new)
    BY <2>2 DEF Sources, Entities, Artifacts
  <2> QED
    BY <1>2, <2>3, <2>4, <2>5
<1>3. CASE x.kind = "artifact"
  <2>1. PICK new : new = [k EXCEPT !.artifacts[x.id] = [filename |-> x.filename, blob |-> "whole"]]
    OBVIOUS
  <2>2. new.canonical = k.canonical /\ \A a \in Runs : a # x.id => new.artifacts[a] = k.artifacts[a]
    BY <1>0, <2>1 DEF Store
  <2>3. \A s \in Sources(new) : s \in Sources(k) \/ s = x.id
    BY <2>2 DEF Sources, Entities, Artifacts
  <2>4. Brought(k, x) = k \/ (Brought(k, x) = new /\ k.artifacts[x.id] = NoArtifact)
    BY <1>3, <2>1 DEF Brought
  <2>5. k.artifacts[x.id] = NoArtifact => Sources(k) \subseteq Sources(new)
    BY <2>2 DEF Sources, Entities, Artifacts
  <2> QED
    BY <1>3, <2>3, <2>4, <2>5
<1>4. CASE x.kind \in {"event", "receipt", "index", "command", "staging"}
  <2>1. Brought(k, x).canonical = k.canonical /\ Brought(k, x).artifacts = k.artifacts
    BY <1>4 DEF Brought, Store
  <2> QED
    BY <1>1, <2>1
<1> QED
  BY <1>2, <1>3, <1>4, KindOfRecord

(* What a restore's step leaves: what it brings, and of the index what the  *)
(* rebuild made of it, if it is its turn.                                  *)
Arrives(new) ==
    /\ cluster' = [cluster EXCEPT ![restore.into] = new]
    /\ Alike(new, Brought(Target, Current))
    /\ Current.kind = "index" =>
          /\ new.index = Target.index \/ new.index \subseteq Sources(Target)
          /\ ~ restore'.unindexed => new.index = Sources(Target)
    /\ Current.kind # "index" => new.index = Target.index /\ restore'.unindexed = restore.unindexed

LEMMA RestoreDoes ==
  ASSUME Typed, InOrderOfUse, RestoreStep
  PROVE  Moves /\ \E new \in Store : Arrives(new)
<1>0. restore.step = "running"
  BY RestoreBrings
<1>1. PICK k, x, n : k = Target /\ x = Current /\ n = restore.into
  OBVIOUS
<1>2. /\ k \in Store /\ x \in Record /\ n \in Clusters /\ k = cluster[n] /\ restore \in Restore
      /\ cluster \in [Clusters -> Store]
  BY <1>0, <1>1, Running DEF Target, Typed
<1>3. Skips \/ Refuses => cluster' = [cluster EXCEPT ![n] = k]
  BY <1>2 DEF Skips, Refuses
<1>4. \A l : Writes(l) => cluster' = [cluster EXCEPT ![n] = l]
  BY <1>1 DEF Writes
<1>u. Skips \/ Refuses \/ (\E l : Writes(l)) => restore'.unindexed = restore.unindexed
  <2>1. PICK r : r = Advanced
    OBVIOUS
  <2>2. r.unindexed = restore.unindexed /\ [r EXCEPT !.errors = @ \cup {restore.at}].unindexed = restore.unindexed
    BY <1>2, <2>1 DEF Advanced, Restore
  <2> QED
    BY <2>1, <2>2 DEF Skips, Refuses, Writes
<1> DEFINE Done == /\ cluster' = [cluster EXCEPT ![n] = Brought(k, x)]
                   /\ x.kind # "index"
                   /\ Skips \/ Refuses \/ \E l : Writes(l)
<1>5. ASSUME RestoreEntity PROVE Done
  <2>1. x.kind = "entity" /\ x \in EntityRecord
    BY <1>1, <1>2, <1>5, KindOfRecord DEF RestoreEntity, Handles
  <2>2. x.id \in Entities(k) <=> k.canonical[x.id] # <<>>
    BY <2>1 DEF Entities, EntityRecord
  <2>3. Skips \/ Refuses \/ Writes([k EXCEPT !.canonical[x.id] = Sole(x)])
    BY <1>1, <1>5 DEF RestoreEntity, Sole
  <2>4. x.id \in Entities(k) => Skips \/ Refuses
    BY <1>1, <1>5 DEF RestoreEntity
  <2>5. x.id \notin Entities(k) => Writes([k EXCEPT !.canonical[x.id] = Sole(x)])
    BY <1>1, <1>5 DEF RestoreEntity, Sole
  <2>6. Brought(k, x) = IF k.canonical[x.id] # <<>> THEN k ELSE [k EXCEPT !.canonical[x.id] = Sole(x)]
    BY <2>1 DEF Brought
  <2> QED
    BY <1>1, <1>3, <1>4, <2>1, <2>2, <2>3, <2>4, <2>5, <2>6
<1>6. ASSUME RestoreArtifact PROVE Done
  <2>1. x.kind = "artifact" /\ x \in ArtifactRecord
    BY <1>1, <1>2, <1>6, KindOfRecord DEF RestoreArtifact, Handles
  <2>2. x.id \in Artifacts(k) <=> k.artifacts[x.id] # NoArtifact
    BY <2>1 DEF Artifacts, ArtifactRecord
  <2>3. PICK new : new = [k EXCEPT !.artifacts[x.id] = [filename |-> x.filename, blob |-> "whole"]]
    OBVIOUS
  <2>4. x.id \in Artifacts(k) \/ x.blob # "whole" => Skips \/ Refuses
    BY <1>1, <1>6 DEF RestoreArtifact
  <2>5. x.id \notin Artifacts(k) /\ x.blob = "whole" => Writes(new)
    BY <1>1, <1>6, <2>3 DEF RestoreArtifact
  <2>6. Brought(k, x) = IF k.artifacts[x.id] # NoArtifact \/ x.blob # "whole" THEN k ELSE new
    BY <2>1, <2>3 DEF Brought
  <2> QED
    BY <1>1, <1>3, <1>4, <2>1, <2>2, <2>4, <2>5, <2>6
<1>7. ASSUME RestoreEvent PROVE Done
  <2>1. x.kind = "event" /\ x \in EventRecord
    BY <1>1, <1>2, <1>7, KindOfRecord DEF RestoreEvent, Handles
  <2>2. k.events \in Seq(Event) /\ EventOf(x).id = x.id /\ EventOf(x).whole = x.whole
    BY <1>2, StoreFields DEF EventOf
  <2>3. PICK new : new = [k EXCEPT !.events = Append(@, EventOf(x))]
    OBVIOUS
  <2>4. Find(k.events, x.id) = <<>> <=> Named(k.events, x.id) = {}
    BY <2>2, FindsNamed
  <2>5. RestoreLog(k.events, EventOf(x), new)
    BY <1>1, <1>7, <2>3 DEF RestoreEvent
  <2>6. (Named(k.events, x.id) # {} \/ ~ x.whole => Skips \/ Refuses)
        /\ (~ (Named(k.events, x.id) # {} \/ ~ x.whole) => Writes(new))
    BY <2>2, <2>4, <2>5 DEF RestoreLog, reconcileImportedIntegrity
  <2>7. Brought(k, x) = IF Named(k.events, x.id) # {} \/ ~ x.whole THEN k ELSE new
    BY <2>1, <2>3 DEF Brought
  <2> QED
    BY <1>1, <1>3, <1>4, <2>1, <2>6, <2>7
<1>8. ASSUME RestoreReceipt PROVE Done
  <2>1. x.kind = "receipt" /\ x \in ReceiptRecord
    BY <1>1, <1>2, <1>8, KindOfRecord DEF RestoreReceipt, Handles
  <2>2. k.receipts \in Seq(Receipt) /\ ReceiptOf(x).id = x.id /\ ReceiptOf(x).whole = x.whole
    BY <1>2, StoreFields DEF ReceiptOf
  <2>3. PICK new : new = [k EXCEPT !.receipts = Append(@, ReceiptOf(x))]
    OBVIOUS
  <2>4. Find(k.receipts, x.id) = <<>> <=> Named(k.receipts, x.id) = {}
    BY <2>2, FindsNamed
  <2>5. RestoreLog(k.receipts, ReceiptOf(x), new)
    BY <1>1, <1>8, <2>3 DEF RestoreReceipt
  <2>6. (Named(k.receipts, x.id) # {} \/ ~ x.whole => Skips \/ Refuses)
        /\ (~ (Named(k.receipts, x.id) # {} \/ ~ x.whole) => Writes(new))
    BY <2>2, <2>4, <2>5 DEF RestoreLog, reconcileImportedIntegrity
  <2>7. Brought(k, x) = IF Named(k.receipts, x.id) # {} \/ ~ x.whole THEN k ELSE new
    BY <2>1, <2>3 DEF Brought
  <2> QED
    BY <1>1, <1>3, <1>4, <2>1, <2>6, <2>7
<1>9. ASSUME RestoreIndex PROVE Moves /\ \E new \in Store : Arrives(new)
  <2>1. x.kind = "index" /\ Brought(k, x) = k
    BY <1>1, <1>9 DEF RestoreIndex, Handles, Brought
  <2>2. PICK index \in SUBSET Runs, unindexed \in BOOLEAN :
            /\ Reindexes(index, unindexed)
            /\ index = k.index \/ index \subseteq Sources(k)
            /\ ~ unindexed => index = Sources(k)
    BY <1>1, <1>9, IndexRebuilt
  <2>3. PICK new : new = [k EXCEPT !.index = index]
    OBVIOUS
  <2>4. new \in Store /\ Alike(new, k) /\ new.index = index
    BY <1>2, <2>3 DEF Alike, Store
  <2>5. cluster' = [cluster EXCEPT ![n] = new]
    BY <1>1, <1>2, <2>2, <2>3 DEF Reindexes
  <2>6. restore'.unindexed = unindexed
    <3>1. PICK r : r = Advanced
      OBVIOUS
    <3>2. [r EXCEPT !.unindexed = unindexed].unindexed = unindexed
      BY <1>2, <3>1 DEF Advanced, Restore
    <3> QED
      BY <2>2, <3>1, <3>2 DEF Reindexes
  <2>7. Arrives(new)
    BY <1>1, <2>1, <2>2, <2>4, <2>5, <2>6 DEF Arrives
  <2> QED
    BY <2>2, <2>4, <2>7 DEF Moves
<1>10. ASSUME RestoreCommand PROVE Done
  <2>1. x.kind = "command" /\ Writes([k EXCEPT !.commands[x.id] = x.status])
    BY <1>1, <1>10 DEF RestoreCommand, Handles
  <2>2. Brought(k, x) = [k EXCEPT !.commands[x.id] = x.status]
    BY <2>1 DEF Brought
  <2> QED
    BY <1>1, <1>4, <2>1, <2>2
<1>11. ASSUME RestoreStaging PROVE Done
  <2>1. x.kind = "staging" /\ (x.whole => Writes([k EXCEPT !.staging = @ \cup {x.id}])) /\ (~ x.whole => Refuses)
    BY <1>1, <1>11 DEF RestoreStaging, Handles
  <2>2. Brought(k, x) = IF x.whole THEN [k EXCEPT !.staging = @ \cup {x.id}] ELSE k
    BY <2>1 DEF Brought
  <2> QED
    BY <1>1, <1>3, <1>4, <2>1, <2>2
<1>12. CASE ~ RestoreIndex
  <2>1. Done
    BY <1>5, <1>6, <1>7, <1>8, <1>10, <1>11, <1>12 DEF RestoreStep
  <2>2. PICK new : Turns(n, new)
    BY <1>1, RestoreBrings DEF Brings
  <2>3. new \in Store /\ cluster' = [cluster EXCEPT ![n] = new]
    BY <2>2 DEF Turns
  <2>4. Brought(k, x) = new
    BY <1>2, <2>1, <2>3
  <2>5. new.index = k.index
    BY <1>2, <2>4, BroughtIndex
  <2>6. Arrives(new)
    BY <1>1, <1>u, <2>1, <2>3, <2>4, <2>5 DEF Arrives, Alike
  <2> QED
    BY <2>1, <2>3, <2>6 DEF Moves
<1> QED
  BY <1>9, <1>12

(* Restoring the next record into what the records before it left gives    *)
(* what these and it leave.                                                *)
LEMMA BroughtNext ==
  ASSUME NEW items \in Seq(Record), Distinct(items), NEW m \in Nat, m + 1 \in DOMAIN items
  PROVE  Brought(Left(items, m), items[m + 1]) = Left(items, m + 1)
<1>1. PICK k, l, x : k = Left(items, m) /\ l = Left(items, m + 1) /\ x = items[m + 1]
  OBVIOUS
<1>2. PICK c, a, e, r, q, s, i :
        /\ c = LeftCanonical(items, m) /\ a = LeftArtifacts(items, m) /\ e = LeftEvents(items, m)
        /\ r = LeftReceipts(items, m) /\ q = LeftCommands(items, m) /\ s = LeftStaging(items, m)
        /\ i = {}
  OBVIOUS
<1>3. PICK c2, a2, e2, r2, q2, s2, i2 :
        /\ c2 = LeftCanonical(items, m + 1) /\ a2 = LeftArtifacts(items, m + 1) /\ e2 = LeftEvents(items, m + 1)
        /\ r2 = LeftReceipts(items, m + 1) /\ q2 = LeftCommands(items, m + 1) /\ s2 = LeftStaging(items, m + 1)
        /\ i2 = {}
  OBVIOUS
<1>4. k = [canonical |-> c, artifacts |-> a, events |-> e, receipts |-> r, commands |-> q, staging |-> s, index |-> i]
  BY <1>1, <1>2, LeftParts
<1>5. l = [canonical |-> c2, artifacts |-> a2, events |-> e2, receipts |-> r2, commands |-> q2, staging |-> s2, index |-> i2]
  BY <1>1, <1>3, LeftParts
<1>6. k.canonical = c /\ k.artifacts = a /\ k.events = e /\ k.receipts = r /\ k.commands = q /\ k.staging = s
      /\ k.index = i
  BY <1>4
<1>7. /\ x.kind # "entity" => c2 = c
      /\ x.kind = "entity" => x.id \in Runs /\ c[x.id] = <<>> /\ c2 = [c EXCEPT ![x.id] = Sole(x)]
  BY <1>1, <1>2, <1>3, CanonicalNext
<1>8. /\ x.kind # "artifact" \/ x.blob # "whole" => a2 = a
      /\ x.kind = "artifact" => x.id \in Runs /\ a[x.id] = NoArtifact
      /\ x.kind = "artifact" /\ x.blob = "whole" =>
           a2 = [a EXCEPT ![x.id] = [filename |-> x.filename, blob |-> "whole"]]
  BY <1>1, <1>2, <1>3, ArtifactsNext
<1>9. /\ ~ (x.kind = "event" /\ x.whole) => e2 = e
      /\ x.kind = "event" /\ x.whole => e2 = Append(e, EventOf(x))
      /\ ~ (x.kind = "receipt" /\ x.whole) => r2 = r
      /\ x.kind = "receipt" /\ x.whole => r2 = Append(r, ReceiptOf(x))
  BY <1>1, <1>2, <1>3, LogsNext
<1>10. (x.kind # "command" => q2 = q) /\ (x.kind = "command" => q2 = [q EXCEPT ![x.id] = x.status])
  BY <1>1, <1>2, <1>3, CommandsNext
<1>11. /\ ~ (x.kind = "staging" /\ x.whole) => s2 = s
       /\ x.kind = "staging" /\ x.whole => s2 = s \cup {x.id}
  BY <1>1, <1>2, <1>3, StagingNext
<1>12. i2 = i
  BY <1>2, <1>3
<1>13. x.kind = "event" => Named(e, x.id) = {}
  <2> SUFFICES ASSUME x.kind = "event", NEW j \in DOMAIN e, e[j].id = x.id PROVE FALSE
    BY DEF Named
  <2>1. \A n \in DOMAIN e : \E h \in At(items, m, "event") : items[h].whole /\ e[n] = EventOf(items[h])
    BY <1>2, NextPlace, LeftLogs
  <2>2. PICK h \in At(items, m, "event") : e[j] = EventOf(items[h])
    BY <2>1
  <2>3. items[h].id = x.id
    BY <2>2 DEF EventOf
  <2>4. \A n \in At(items, m, "event") : items[n].id # items[m + 1].id
    BY <1>1, NewId
  <2> QED
    BY <1>1, <2>2, <2>3, <2>4
<1>14. x.kind = "receipt" => Named(r, x.id) = {}
  <2> SUFFICES ASSUME x.kind = "receipt", NEW j \in DOMAIN r, r[j].id = x.id PROVE FALSE
    BY DEF Named
  <2>1. \A n \in DOMAIN r : \E h \in At(items, m, "receipt") : items[h].whole /\ r[n] = ReceiptOf(items[h])
    BY <1>2, NextPlace, LeftLogs
  <2>2. PICK h \in At(items, m, "receipt") : r[j] = ReceiptOf(items[h])
    BY <2>1
  <2>3. items[h].id = x.id
    BY <2>2 DEF ReceiptOf
  <2>4. \A n \in At(items, m, "receipt") : items[n].id # items[m + 1].id
    BY <1>1, NewId
  <2> QED
    BY <1>1, <2>2, <2>3, <2>4
<1>15. x \in Record
  BY <1>1, NextPlace
<1>16. CASE x.kind = "entity"
  <2>1. c2 = [c EXCEPT ![x.id] = Sole(x)] /\ c[x.id] = <<>> /\ a2 = a /\ e2 = e /\ r2 = r /\ q2 = q /\ s2 = s /\ i2 = i
    BY <1>7, <1>8, <1>9, <1>10, <1>11, <1>12, <1>16
  <2>2. Brought(k, x) = [k EXCEPT !.canonical = c2]
    BY <1>6, <1>16, <2>1 DEF Brought
  <2>3. l = [k EXCEPT !.canonical = c2]
    BY <1>4, <1>5, <2>1
  <2> QED
    BY <1>1, <2>2, <2>3
<1>17. CASE x.kind = "artifact"
  <2>1. a[x.id] = NoArtifact /\ c2 = c /\ e2 = e /\ r2 = r /\ q2 = q /\ s2 = s /\ i2 = i
    BY <1>7, <1>8, <1>9, <1>10, <1>11, <1>12, <1>17
  <2>2. CASE x.blob = "whole"
    <3>1. a2 = [a EXCEPT ![x.id] = [filename |-> x.filename, blob |-> "whole"]]
      BY <1>8, <1>17, <2>2
    <3>2. PICK v : v = [filename |-> x.filename, blob |-> "whole"]
      OBVIOUS
    <3>3. Brought(k, x) = [k EXCEPT !.artifacts[x.id] = v]
      BY <1>6, <1>17, <2>1, <2>2, <3>2 DEF Brought
    <3>4. Brought(k, x) = [k EXCEPT !.artifacts = a2]
      BY <1>6, <3>1, <3>2, <3>3
    <3>5. l = [k EXCEPT !.artifacts = a2]
      BY <1>4, <1>5, <2>1
    <3> QED
      BY <1>1, <3>4, <3>5
  <2>3. CASE x.blob # "whole"
    <3>1. a2 = a /\ l = k
      BY <1>4, <1>5, <1>8, <2>1, <2>3
    <3> QED
      BY <1>1, <1>17, <2>3, <3>1 DEF Brought
  <2> QED
    BY <2>2, <2>3
<1>18. CASE x.kind = "event"
  <2>1. c2 = c /\ a2 = a /\ r2 = r /\ q2 = q /\ s2 = s /\ i2 = i /\ Named(k.events, x.id) = {}
    BY <1>6, <1>7, <1>8, <1>9, <1>10, <1>11, <1>12, <1>13, <1>18
  <2>2. CASE x.whole
    <3>1. e2 = Append(e, EventOf(x))
      BY <1>9, <1>18, <2>2
    <3>2. Brought(k, x) = [k EXCEPT !.events = e2]
      BY <1>6, <1>18, <2>1, <2>2, <3>1 DEF Brought
    <3>3. l = [k EXCEPT !.events = e2]
      BY <1>4, <1>5, <2>1
    <3> QED
      BY <1>1, <3>2, <3>3
  <2>3. CASE ~ x.whole
    <3>1. e2 = e /\ l = k
      BY <1>4, <1>5, <1>9, <2>1, <2>3
    <3> QED
      BY <1>1, <1>18, <2>3, <3>1 DEF Brought
  <2> QED
    BY <2>2, <2>3
<1>19. CASE x.kind = "receipt"
  <2>1. c2 = c /\ a2 = a /\ e2 = e /\ q2 = q /\ s2 = s /\ i2 = i /\ Named(k.receipts, x.id) = {}
    BY <1>6, <1>7, <1>8, <1>9, <1>10, <1>11, <1>12, <1>14, <1>19
  <2>2. CASE x.whole
    <3>1. r2 = Append(r, ReceiptOf(x))
      BY <1>9, <1>19, <2>2
    <3>2. Brought(k, x) = [k EXCEPT !.receipts = r2]
      BY <1>6, <1>19, <2>1, <2>2, <3>1 DEF Brought
    <3>3. l = [k EXCEPT !.receipts = r2]
      BY <1>4, <1>5, <2>1
    <3> QED
      BY <1>1, <3>2, <3>3
  <2>3. CASE ~ x.whole
    <3>1. r2 = r /\ l = k
      BY <1>4, <1>5, <1>9, <2>1, <2>3
    <3> QED
      BY <1>1, <1>19, <2>3, <3>1 DEF Brought
  <2> QED
    BY <2>2, <2>3
<1>20. CASE x.kind = "index"
  <2>1. l = k
    BY <1>4, <1>5, <1>7, <1>8, <1>9, <1>10, <1>11, <1>12, <1>20
  <2> QED
    BY <1>1, <1>20, <2>1 DEF Brought
<1>21. CASE x.kind = "command"
  <2>1. c2 = c /\ a2 = a /\ e2 = e /\ r2 = r /\ s2 = s /\ i2 = i /\ q2 = [q EXCEPT ![x.id] = x.status]
    BY <1>7, <1>8, <1>9, <1>10, <1>11, <1>12, <1>21
  <2>2. Brought(k, x) = [k EXCEPT !.commands = q2]
    BY <1>6, <1>21, <2>1 DEF Brought
  <2>3. l = [k EXCEPT !.commands = q2]
    BY <1>4, <1>5, <2>1
  <2> QED
    BY <1>1, <2>2, <2>3
<1>22. CASE x.kind = "staging"
  <2>1. c2 = c /\ a2 = a /\ e2 = e /\ r2 = r /\ q2 = q /\ i2 = i
    BY <1>7, <1>8, <1>9, <1>10, <1>11, <1>12, <1>22
  <2>2. CASE x.whole
    <3>1. s2 = s \cup {x.id}
      BY <1>11, <1>22, <2>2
    <3>2. Brought(k, x) = [k EXCEPT !.staging = s2]
      BY <1>6, <1>22, <2>2, <3>1 DEF Brought
    <3>3. l = [k EXCEPT !.staging = s2]
      BY <1>4, <1>5, <2>1
    <3> QED
      BY <1>1, <3>2, <3>3
  <2>3. CASE ~ x.whole
    <3>1. s2 = s /\ l = k
      BY <1>4, <1>5, <1>11, <2>1, <2>3
    <3> QED
      BY <1>1, <1>22, <2>3, <3>1 DEF Brought
  <2> QED
    BY <2>2, <2>3
<1> QED
  BY <1>15, <1>16, <1>17, <1>18, <1>19, <1>20, <1>21, <1>22, KindOfRecord

(* Restoring a record that a restore has been through changes nothing.     *)
LEMMA BroughtAgain ==
  ASSUME NEW items \in Seq(Record), Distinct(items), NEW m \in 0 .. Len(items), NEW i \in 1 .. m,
         Left(items, m) \in Store
  PROVE  Brought(Left(items, m), items[i]) = Left(items, m)
<1>1. PICK k, x : k = Left(items, m) /\ x = items[i]
  OBVIOUS
<1>2. x \in Record /\ k \in Store /\ \A kind : x.kind = kind => i \in At(items, m, kind)
  BY <1>1 DEF At
<1>3. /\ k.canonical = LeftCanonical(items, m) /\ k.artifacts = LeftArtifacts(items, m)
      /\ k.events = LeftEvents(items, m) /\ k.receipts = LeftReceipts(items, m)
      /\ k.commands = LeftCommands(items, m) /\ k.staging = LeftStaging(items, m)
  BY <1>1, LeftParts
<1>4. CASE x.kind = "entity"
  <2>1. k.canonical[x.id] = Sole(x)
    BY <1>1, <1>2, <1>3, <1>4, LeftSays
  <2>2. Sole(x) # <<>>
    BY DEF Sole
  <2> QED
    BY <1>1, <1>4, <2>1, <2>2 DEF Brought
<1>5. CASE x.kind = "artifact"
  <2>1. k.artifacts[x.id] = Stands(x)
    BY <1>1, <1>2, <1>3, <1>5, LeftSays
  <2>2. x.blob = "whole" => Stands(x) # NoArtifact
    BY DEF Stands, NoArtifact
  <2> QED
    BY <1>1, <1>5, <2>1, <2>2 DEF Brought
<1>6. CASE x.kind = "event"
  <2>1. i \in At(items, m, "event")
    BY <1>2, <1>6
  <2>2. \A h \in At(items, m, "event") : items[h].whole =>
           \E j \in DOMAIN LeftEvents(items, m) : LeftEvents(items, m)[j] = EventOf(items[h])
    BY LeftLogs
  <2>3. x.whole => \E j \in DOMAIN k.events : k.events[j] = EventOf(x)
    BY <1>1, <1>3, <2>1, <2>2
  <2>4. x.whole => Named(k.events, x.id) # {}
    BY <2>3 DEF Named, EventOf
  <2> QED
    BY <1>1, <1>6, <2>4 DEF Brought
<1>7. CASE x.kind = "receipt"
  <2>1. i \in At(items, m, "receipt")
    BY <1>2, <1>7
  <2>2. \A h \in At(items, m, "receipt") : items[h].whole =>
           \E j \in DOMAIN LeftReceipts(items, m) : LeftReceipts(items, m)[j] = ReceiptOf(items[h])
    BY LeftLogs
  <2>3. x.whole => \E j \in DOMAIN k.receipts : k.receipts[j] = ReceiptOf(x)
    BY <1>1, <1>3, <2>1, <2>2
  <2>4. x.whole => Named(k.receipts, x.id) # {}
    BY <2>3 DEF Named, ReceiptOf
  <2> QED
    BY <1>1, <1>7, <2>4 DEF Brought
<1>8. CASE x.kind = "index"
  BY <1>1, <1>8 DEF Brought
<1>9. CASE x.kind = "command"
  <2>1. x.id \in Commands /\ k.commands[x.id] = x.status
    BY <1>1, <1>2, <1>3, <1>9, LeftSays
  <2>2. k.commands = [k.commands EXCEPT ![x.id] = x.status]
    BY <1>2, <2>1, StoreFields
  <2>3. Brought(k, x) = [k EXCEPT !.commands = k.commands]
    BY <1>9, <2>2 DEF Brought
  <2> QED
    BY <1>1, <1>2, <2>3, ExchangeSame
<1>10. CASE x.kind = "staging"
  <2>1. i \in At(items, m, "staging")
    BY <1>2, <1>10
  <2>2. x.whole => x.id \in k.staging
    BY <1>1, <1>3, <2>1 DEF LeftStaging
  <2>3. x.whole => k.staging \cup {x.id} = k.staging
    BY <2>2
  <2>4. Brought(k, x) = k \/ Brought(k, x) = [k EXCEPT !.staging = k.staging]
    BY <1>10, <2>3 DEF Brought
  <2> QED
    BY <1>1, <1>2, <2>4, ExchangeSame
<1> QED
  BY <1>2, <1>4, <1>5, <1>6, <1>7, <1>8, <1>9, <1>10, KindOfRecord

LEMMA LeftNothing ==
  ASSUME NEW items
  PROVE  Left(items, 0) = Empty
<1>1. \A kind : At(items, 0, kind) = {}
  BY DEF At
<1>2. \A kind, id : KeptIn(items, 0, kind, id) = <<>>
  BY <1>1, KeptNone
<1>3. \A kind : WholeIn(items, 0, kind) = <<>>
  <2> TAKE kind
  <2>1. {i \in At(items, 0, kind) : items[i].whole} = {}
    BY <1>1
  <2> QED
    BY <2>1, PickNone DEF WholeIn
<1>4. LeftCanonical(items, 0) = [e \in Runs |-> <<>>]
  <2>1. \A x : x = <<>> => [i \in DOMAIN x |-> [n |-> x[i].n, by |-> x[i].by]] = <<>>
    OBVIOUS
  <2>2. \A e \in Runs : LeftCanonical(items, 0)[e] = <<>>
    BY <1>2, <2>1 DEF LeftCanonical
  <2>3. LeftCanonical(items, 0) = [e \in Runs |-> LeftCanonical(items, 0)[e]]
    BY DEF LeftCanonical
  <2> QED
    BY <2>2, <2>3
<1>5. LeftArtifacts(items, 0) = [a \in Runs |-> NoArtifact]
  BY <1>2 DEF LeftArtifacts
<1>6. LeftEvents(items, 0) = <<>> /\ LeftReceipts(items, 0) = <<>>
  <2>1. PICK x : x = <<>> /\ DOMAIN x = {}
    OBVIOUS
  <2>2. WholeIn(items, 0, "event") = x /\ WholeIn(items, 0, "receipt") = x
    BY <1>3, <2>1
  <2>3. LeftEvents(items, 0) = [i \in DOMAIN x |-> EventOf(x[i])]
    BY <2>2 DEF LeftEvents
  <2>4. LeftReceipts(items, 0) = [i \in DOMAIN x |-> ReceiptOf(x[i])]
    BY <2>2 DEF LeftReceipts
  <2> QED
    BY <2>1, <2>3, <2>4
<1>7. LeftCommands(items, 0) = [c \in Commands |-> "none"]
  BY <1>2 DEF LeftCommands
<1>8. LeftStaging(items, 0) = {}
  BY <1>1 DEF LeftStaging
<1> QED
  BY <1>4, <1>5, <1>6, <1>7, <1>8, LeftParts DEF Empty

(* A restore's step brings the cluster it writes to one item further, or    *)
(* goes through an item that is there.                                      *)
LEMMA RestoreFollows ==
  ASSUME Typed, InOrderOfUse, FileSound, RestoreStep, NEW m \in 0 .. Len(file.items),
         Bare(Target) = Left(file.items, m), restore.at <= m + 1
  PROVE  \E l \in 0 .. Len(file.items) :
            Bare(Brought(Target, Current)) = Left(file.items, l) /\ restore.at + 1 <= l + 1
<1>1. PICK items, at : items = file.items /\ at = restore.at
  OBVIOUS
<1>2. /\ items \in Seq(Record) /\ Len(items) \in Nat /\ DOMAIN items = 1..Len(items)
      /\ Distinct(items)
  BY <1>1, FileTyped DEF FileSound
<1>3. at \in Nat /\ at \in 1..Len(items) /\ Current = items[at] /\ Target \in Store
  BY <1>1, <1>2, RestoreBrings, Running DEF Current
<1>8. Bare(Brought(Target, Current)) = Brought(Left(items, m), items[at]) /\ Left(items, m) \in Store
  BY <1>1, <1>2, <1>3, BareOf, BroughtBare
<1>4. m \in Nat /\ m <= Len(items)
  BY <1>1, <1>2
<1>5. CASE at <= m
  <2>1. at \in 1..m
    BY <1>3, <1>4, <1>5
  <2>2. Brought(Left(items, m), items[at]) = Left(items, m)
    BY <1>1, <1>2, <1>8, <2>1, BroughtAgain
  <2> QED
    BY <1>1, <1>3, <1>4, <1>5, <1>8, <2>2
<1>6. CASE at = m + 1
  <2>1. m + 1 \in DOMAIN items
    BY <1>2, <1>3, <1>6
  <2>2. Brought(Left(items, m), items[m + 1]) = Left(items, m + 1)
    BY <1>2, <1>4, <2>1, BroughtNext
  <2>3. Bare(Brought(Target, Current)) = Left(file.items, m + 1)
    BY <1>1, <1>6, <1>8, <2>2
  <2>4. m + 1 \in 0..Len(file.items) /\ restore.at + 1 <= (m + 1) + 1
    BY <1>1, <1>2, <1>3, <1>4, <1>6
  <2> QED
    BY <2>3, <2>4
<1>7. at <= m \/ at = m + 1
  BY <1>1, <1>3, <1>4
<1> QED
  BY <1>5, <1>6, <1>7

LEMMA WritesOutside ==
  /\ BackupContents => UNCHANGED <<cluster, foreign>>
  /\ AlterFile => UNCHANGED cluster /\ \A n \in Clusters : n \notin foreign' => cluster[n] = Empty
<1>1. ASSUME BackupContents PROVE UNCHANGED <<cluster, foreign>>
  <2>1. UNCHANGED <<cluster, commits, born, restore, foreign, decayed, faults>>
    BY ZenonT(60), <1>1 DEF BackupContents, OnlyBackup
  <2> QED
    BY <2>1
<1>2. AlterFile => UNCHANGED cluster /\ foreign' = foreign \cup {n \in Clusters : cluster[n] # Empty}
  BY DEF AlterFile
<1> QED
  BY <1>1, <1>2

LEMMA BareEmpty == Bare(Empty) = Empty
<1>1. PICK k : k = Empty
  OBVIOUS
<1>2. k \in Store /\ k.index = {}
  BY <1>1, EmptyTyped DEF Empty
<1>3. [k EXCEPT !.index = k.index] = k
  BY <1>2, ExchangeSame
<1> QED
  BY <1>1, <1>2, <1>3 DEF Bare

LEMMA BroughtTyped ==
  ASSUME NEW k \in Store, NEW x \in Record
  PROVE  Brought(k, x) \in Store
<1>1. CASE x.kind = "entity"
  <2>1. x \in EntityRecord
    BY <1>1, KindOfRecord
  <2>2. PICK v : v = [n |-> x.n, by |-> x.by]
    OBVIOUS
  <2>3. v \in Version /\ Sole(x) = <<v>>
    BY <2>1, <2>2 DEF EntityRecord, Version, Sole
  <2>4. PICK s : s = Sole(x)
    OBVIOUS
  <2>5. s \in Seq(Version)
    BY <2>3, <2>4
  <2>6. [k EXCEPT !.canonical[x.id] = s] \in Store
    BY <2>5 DEF Store
  <2> QED
    BY <1>1, <2>4, <2>6 DEF Brought
<1>2. CASE x.kind = "artifact"
  <2>1. x \in ArtifactRecord
    BY <1>2, KindOfRecord
  <2>2. PICK v : v = [filename |-> x.filename, blob |-> "whole"]
    OBVIOUS
  <2>3. v \in Metadata
    BY <2>1, <2>2 DEF ArtifactRecord, Metadata, Blobs
  <2>4. [k EXCEPT !.artifacts[x.id] = v] \in Store
    BY <2>3 DEF Store
  <2> QED
    BY <1>2, <2>2, <2>4 DEF Brought
<1>3. CASE x.kind = "event"
  <2>1. x \in EventRecord
    BY <1>3, KindOfRecord
  <2>2. EventOf(x) \in Event
    BY <2>1 DEF EventRecord, Event, EventOf
  <2>3. PICK v : v = Append(k.events, EventOf(x))
    OBVIOUS
  <2>4. v \in Seq(Event)
    BY <2>2, <2>3, StoreFields
  <2>5. [k EXCEPT !.events = v] \in Store
    BY <2>4 DEF Store
  <2> QED
    BY <1>3, <2>3, <2>5 DEF Brought
<1>4. CASE x.kind = "receipt"
  <2>1. x \in ReceiptRecord
    BY <1>4, KindOfRecord
  <2>2. ReceiptOf(x) \in Receipt
    BY <2>1 DEF ReceiptRecord, Receipt, ReceiptOf
  <2>3. PICK v : v = Append(k.receipts, ReceiptOf(x))
    OBVIOUS
  <2>4. v \in Seq(Receipt)
    BY <2>2, <2>3, StoreFields
  <2>5. [k EXCEPT !.receipts = v] \in Store
    BY <2>4 DEF Store
  <2> QED
    BY <1>4, <2>3, <2>5 DEF Brought
<1>5. CASE x.kind = "index"
  BY <1>5 DEF Brought
<1>6. CASE x.kind = "command"
  <2>1. x \in CommandRecord
    BY <1>6, KindOfRecord
  <2>2. [k EXCEPT !.commands[x.id] = x.status] \in Store
    BY <2>1 DEF Store, CommandRecord
  <2> QED
    BY <1>6, <2>2 DEF Brought
<1>7. CASE x.kind = "staging"
  <2>1. x \in StagingRecord
    BY <1>7, KindOfRecord
  <2>2. [k EXCEPT !.staging = @ \cup {x.id}] \in Store
    BY <2>1 DEF Store, StagingRecord
  <2> QED
    BY <1>7, <2>2 DEF Brought
<1> QED
  BY <1>1, <1>2, <1>3, <1>4, <1>5, <1>6, <1>7, KindOfRecord

LEMMA RestoreAlike ==
  ASSUME Typed, InOrderOfUse, RestoreStep, NEW new \in Store, Arrives(new)
  PROVE  /\ Brought(Target, Current) \in Store
         /\ Bare(new) = Bare(Brought(Target, Current))
<1>1. Target \in Store /\ Current \in Record
  BY RestoreBrings, Running
<1>2. Brought(Target, Current) \in Store
  BY <1>1, BroughtTyped
<1> QED
  BY <1>2, AlikeBare DEF Arrives

LEMMA ProgressStep == TypedInOrder /\ FileIsSound /\ Progress /\ [Next]_vars => Progress'
<1> SUFFICES ASSUME Typed, InOrderOfUse, FileIsSound, Progress, [Next]_vars PROVE Progress'
  BY DEF TypedInOrder
<1>0. cluster \in [Clusters -> Store] /\ NoRestore.step = "none"
  BY DEF Typed, NoRestore
<1>a. FileSound
  BY DEF FileIsSound
<1> DEFINE Goes(n) == \E m \in 0 .. Len(file'.items) :
             /\ Bare(cluster'[n]) = Left(file'.items, m)
             /\ restore'.step \in {"running", "done"} /\ restore'.into = n => restore'.at <= m + 1
<1>1. SUFFICES ASSUME NEW n \in Clusters, n \notin foreign' PROVE Goes(n)
  BY DEF Progress, Follows, Bare
<1>2. n \notin foreign => \E m \in 0 .. Len(file.items) :
         /\ Bare(cluster[n]) = Left(file.items, m)
         /\ restore.step \in {"running", "done"} /\ restore.into = n => restore.at <= m + 1
  BY DEF Progress, Follows, Bare
<1>3. ASSUME NEW n2 \in Clusters, Disturbs(n2), NEW new, Turns(n2, new), UNCHANGED <<file, restore>>
      PROVE  Goes(n)
  <2>1. n # n2 /\ n \notin foreign
    BY <1>1, <1>3 DEF Disturbs
  <2>2. cluster'[n] = cluster[n]
    BY <1>3, <2>1, TurnsTyped
  <2> QED
    BY <1>2, <1>3, <2>1, <2>2
<1>4. CASE Kernel
  BY <1>3, <1>4, KernelDoes
<1>5. CASE \E n2 \in Clusters, a \in Runs : ChangeBlob(n2, a)
  <2>1. PICK n2 \in Clusters, a \in Runs : ChangeBlob(n2, a)
    BY <1>5
  <2>2. Disturbs(n2) /\ UNCHANGED <<file, restore>>
    BY <2>1 DEF ChangeBlob
  <2>3. n # n2 /\ n \notin foreign
    BY <1>1, <2>2 DEF Disturbs
  <2>4. PICK blob : cluster' = [cluster EXCEPT ![n2].artifacts[a].blob = blob]
    BY <2>1 DEF ChangeBlob
  <2>5. PICK k : k = [cluster[n2] EXCEPT !.artifacts[a].blob = blob]
    OBVIOUS
  <2>6. cluster' = [cluster EXCEPT ![n2] = k]
    BY <2>4, <2>5
  <2>7. cluster'[n] = cluster[n]
    BY <1>0, <2>3, <2>6
  <2> QED
    BY <1>2, <2>2, <2>3, <2>7
<1>6. CASE UNCHANGED vars \/ Reading
  <2>1. UNCHANGED <<cluster, file, restore, foreign>>
    BY <1>6, ReadingDoes DEF vars
  <2> QED
    BY <1>1, <1>2, <2>1
<1>7. CASE CrashRestore
  <2>1. UNCHANGED <<cluster, file, foreign>> /\ restore' = NoRestore
    BY <1>7 DEF CrashRestore
  <2> QED
    BY <1>0, <1>1, <1>2, <2>1
<1>8. CASE \E n2 \in Clusters : StartRestore(n2)
  <2>1. UNCHANGED <<cluster, file, foreign>> /\ restore'.at = 1
    BY <1>8 DEF StartRestore
  <2>2. Len(file.items) \in Nat
    BY FileTyped
  <2>3. PICK m \in 0 .. Len(file.items) : Bare(cluster[n]) = Left(file.items, m)
    BY <1>1, <1>2, <2>1
  <2>4. restore'.at <= m + 1
    BY <2>1, <2>2
  <2> QED
    BY <2>1, <2>3, <2>4
<1>9. CASE BackupContents
  <2>1. backup # NoBackup /\ UNCHANGED <<cluster, restore, foreign>>
    BY <1>9, ContentsRead, WritesOutside
  <2>2. file = NoFile /\ restore = NoRestore
    BY <2>1 DEF InOrderOfUse
  <2>3. Len(file.items) = 0
    BY <2>2 DEF NoFile
  <2>4. PICK m \in 0 .. 0 : Bare(cluster[n]) = Left(file.items, m)
    BY <1>1, <1>2, <2>1, <2>3
  <2>5. Bare(cluster[n]) = Empty
    BY <2>4, LeftNothing
  <2>6. Bare(cluster'[n]) = Left(file'.items, 0)
    BY <2>1, <2>5, LeftNothing
  <2>7. 0 \in 0 .. Len(file'.items)
    <3>1. Len(file'.items) \in Nat
      <4>1. CASE UNCHANGED file
        BY <2>3, <4>1
      <4>2. CASE ~ UNCHANGED file
        <5>1. PICK filled : Fills(filled) /\ file'.items = FileOf(filled)
          BY <1>9, <4>2, ContentsRead
        <5>2. FileOf(filled) \in Seq(Record)
          BY <5>1, FileOfTyped
        <5> QED
          BY <5>1, <5>2
      <4> QED
        BY <4>1, <4>2
    <3> QED
      BY <3>1
  <2>8. restore'.step = "none"
    BY <1>0, <2>1, <2>2
  <2> QED
    BY <2>6, <2>7, <2>8
<1>10. CASE AlterFile
  <2>1. restore' = NoRestore /\ UNCHANGED cluster /\ Len(file'.items) = Len(file.items)
    BY <1>10, AlterDoes, WritesOutside
  <2>2. cluster[n] = Empty
    BY <1>1, <1>10, WritesOutside
  <2>3. Bare(cluster'[n]) = Left(file'.items, 0)
    BY <2>1, <2>2, LeftNothing, BareEmpty
  <2>4. 0 \in 0 .. Len(file'.items)
    BY <2>1, FileTyped
  <2> QED
    BY <1>0, <2>1, <2>3, <2>4
<1>11. CASE RestoreStep
  <2>1. UNCHANGED <<file, foreign>> /\ restore.step = "running"
    BY <1>11, RestoreBrings DEF OthersStay
  <2>2. PICK new \in Store : Arrives(new)
    BY <1>11, RestoreDoes
  <2>3. restore'.at = restore.at + 1 /\ restore'.into = restore.into
    BY <1>11, <2>1, Advances, RestoreDoes
  <2>4. PICK m \in 0 .. Len(file.items) :
          /\ Bare(cluster[n]) = Left(file.items, m)
          /\ restore.step \in {"running", "done"} /\ restore.into = n => restore.at <= m + 1
    BY <1>1, <1>2, <2>1
  <2>7. cluster' = [cluster EXCEPT ![restore.into] = new]
    BY <2>2 DEF Arrives
  <2>5. CASE restore.into = n
    <3>1. Bare(Target) = Left(file.items, m) /\ restore.at <= m + 1
      BY <2>1, <2>4, <2>5 DEF Target
    <3>2. PICK l \in 0 .. Len(file.items) :
            Bare(Brought(Target, Current)) = Left(file.items, l) /\ restore.at + 1 <= l + 1
      BY <1>a, <1>11, <3>1, RestoreFollows
    <3>3. Bare(new) = Bare(Brought(Target, Current))
      BY <1>11, <2>2, RestoreAlike
    <3>4. Bare(cluster'[n]) = Left(file.items, l)
      BY <1>0, <2>5, <2>7, <3>2, <3>3
    <3> QED
      BY <2>1, <2>3, <3>2, <3>4
  <2>6. CASE restore.into # n
    <3>1. cluster'[n] = cluster[n]
      BY <1>0, <2>6, <2>7
    <3> QED
      BY <2>1, <2>3, <2>4, <2>6, <3>1
  <2> QED
    BY <2>5, <2>6
<1> QED
  BY <1>4, <1>5, <1>6, <1>7, <1>8, <1>9, <1>10, <1>11, NextIsSteps DEF NextSteps

LEMMA ProgressHolds == Spec => []Progress
<1>1. Init => Progress
  <2> SUFFICES ASSUME Init, NEW n \in Clusters
               PROVE  \E m \in 0 .. Len(file.items) : Follows(n, m)
    BY DEF Progress
  <2>1. cluster[n] = Empty /\ Len(file.items) = 0 /\ restore.step = "none"
    BY DEF Init, NoFile, NoRestore
  <2>2. Bare(cluster[n]) = Left(file.items, 0)
    BY <2>1, LeftNothing, BareEmpty
  <2> QED
    BY <2>1, <2>2 DEF Follows, Bare
<1> QED
  BY <1>1, ProgressStep, TypeCorrect, FilesAreSound, PTL DEF Spec

(* What a restore's step makes of the index of the cluster it writes to.    *)
LEMMA RestoreIndexes ==
  ASSUME Typed, InOrderOfUse, FileSound, RestoreStep, Indexes(restore.into), NEW new \in Store, Arrives(new)
  PROVE  /\ new.index \subseteq Sources(new)
         /\ ~ restore'.unindexed =>
               \A i \in DOMAIN file.items : file.items[i].kind = "index" /\ i <= restore.at =>
                  new.index = Sources(new)
<1>1. PICK k, x, at : k = Target /\ x = Current /\ at = restore.at
  OBVIOUS
<1>2. /\ k \in Store /\ x \in Record /\ restore.into \in Clusters /\ at \in DOMAIN file.items
      /\ x = file.items[at] /\ restore.step = "running"
  BY <1>1, RestoreBrings, Running DEF Current, InOrderOfUse
<1>3. /\ Sources(new) = Sources(Brought(k, x)) /\ Sources(k) \subseteq Sources(new)
      /\ \A s \in Sources(new) : s \in Sources(k) \/ (x.kind \in {"entity", "artifact"} /\ s = x.id)
  BY <1>1, <1>2, BroughtSources, AlikeSources DEF Arrives
<1>4. /\ k.index \subseteq Sources(k)
      /\ ~ restore.unindexed =>
            \A i \in DOMAIN file.items : file.items[i].kind = "index" /\ i < at => k.index = Sources(k)
  BY <1>1, <1>2 DEF Indexes, Target
<1>5. DOMAIN file.items = 1 .. Len(file.items) /\ Len(file.items) \in Nat
  BY FileTyped
<1>6. CASE x.kind = "index"
  <2>1. Sources(new) = Sources(k)
    BY <1>3, <1>6
  <2>2. new.index = k.index \/ new.index \subseteq Sources(k)
    BY <1>1, <1>6 DEF Arrives
  <2>3. ~ restore'.unindexed => new.index = Sources(k)
    BY <1>1, <1>6 DEF Arrives
  <2> QED
    BY <1>4, <2>1, <2>2, <2>3
<1>7. CASE x.kind # "index"
  <2>1. new.index = k.index /\ restore'.unindexed = restore.unindexed
    BY <1>1, <1>7 DEF Arrives
  <2>2. ASSUME NEW i \in DOMAIN file.items, file.items[i].kind = "index", i <= at, ~ restore.unindexed
        PROVE  new.index = Sources(new)
    <3>1. i # at
      BY <1>2, <1>7, <2>2
    <3>2. i < at /\ ~ at < i
      BY <1>2, <1>5, <2>2, <3>1
    <3>3. x.kind \notin {"entity", "artifact"}
      BY <1>2, <2>2, <3>2 DEF FileSound
    <3>4. k.index = Sources(k)
      BY <1>4, <2>2, <3>2
    <3> QED
      BY <1>3, <2>1, <3>3, <3>4
  <2> QED
    BY <1>1, <1>3, <1>4, <2>1, <2>2
<1> QED
  BY <1>1, <1>6, <1>7, KindOfRecord

LEMMA IndexStep == TypedInOrder /\ FileIsSound /\ IndexProgress /\ [Next]_vars => IndexProgress'
<1> SUFFICES ASSUME Typed, InOrderOfUse, FileSound, IndexProgress, [Next]_vars,
                    NEW n \in Clusters, n \notin foreign'
             PROVE  Indexes(n)'
  BY DEF TypedInOrder, FileIsSound, IndexProgress
<1>0. cluster \in [Clusters -> Store] /\ NoRestore.step = "none"
  BY DEF Typed, NoRestore
<1>1. n \notin foreign => Indexes(n)
  BY DEF IndexProgress
<1>2. ASSUME n \notin foreign, cluster'[n] = cluster[n], UNCHANGED <<file, restore>> PROVE Indexes(n)'
  BY <1>1, <1>2 DEF Indexes
<1>3. ASSUME n \notin foreign, cluster'[n] = cluster[n], restore'.step = "none" PROVE Indexes(n)'
  BY <1>1, <1>3 DEF Indexes
<1>4. CASE Kernel
  <2>1. PICK n2, new : n2 \in Clusters /\ Disturbs(n2) /\ Turns(n2, new) /\ UNCHANGED <<file, restore>>
    BY <1>4, KernelDoes
  <2>2. n # n2 /\ n \notin foreign
    BY <2>1 DEF Disturbs
  <2>3. cluster'[n] = cluster[n]
    BY <2>1, <2>2, TurnsTyped
  <2> QED
    BY <1>2, <2>1, <2>2, <2>3
<1>5. CASE \E n2 \in Clusters, a \in Runs : ChangeBlob(n2, a)
  <2>1. PICK n2 \in Clusters, a \in Runs : ChangeBlob(n2, a)
    BY <1>5
  <2>2. Disturbs(n2) /\ UNCHANGED <<file, restore>>
    BY <2>1 DEF ChangeBlob
  <2>3. n # n2 /\ n \notin foreign
    BY <2>2 DEF Disturbs
  <2>4. PICK blob : cluster' = [cluster EXCEPT ![n2].artifacts[a].blob = blob]
    BY <2>1 DEF ChangeBlob
  <2>5. PICK k : k = [cluster[n2] EXCEPT !.artifacts[a].blob = blob]
    OBVIOUS
  <2>6. cluster' = [cluster EXCEPT ![n2] = k]
    BY <2>4, <2>5
  <2>7. cluster'[n] = cluster[n]
    BY <1>0, <2>3, <2>6
  <2> QED
    BY <1>2, <2>2, <2>3, <2>7
<1>6. CASE UNCHANGED vars \/ Reading
  <2>1. UNCHANGED <<cluster, file, restore, foreign>>
    BY <1>6, ReadingDoes DEF vars
  <2> QED
    BY <1>2, <2>1
<1>7. CASE CrashRestore
  <2>1. UNCHANGED <<cluster, file, foreign>> /\ restore' = NoRestore
    BY <1>7 DEF CrashRestore
  <2> QED
    BY <1>0, <1>3, <2>1
<1>8. CASE \E n2 \in Clusters : StartRestore(n2)
  <2>1. UNCHANGED <<cluster, file, foreign>> /\ restore'.at = 1
    BY <1>8 DEF StartRestore
  <2>2. \A i \in DOMAIN file.items : ~ i < 1
    <3>1. DOMAIN file.items = 1 .. Len(file.items) /\ Len(file.items) \in Nat
      BY FileTyped
    <3> QED
      BY <3>1
  <2> QED
    BY <1>1, <2>1, <2>2 DEF Indexes
<1>9. CASE BackupContents
  <2>1. backup # NoBackup /\ UNCHANGED <<cluster, restore, foreign>>
    BY <1>9, ContentsRead, WritesOutside
  <2>2. restore' = NoRestore
    BY <2>1 DEF InOrderOfUse
  <2> QED
    BY <1>0, <1>3, <2>1, <2>2
<1>10. CASE AlterFile
  <2>1. restore' = NoRestore /\ UNCHANGED cluster
    BY <1>10, AlterDoes, WritesOutside
  <2>2. cluster[n] = Empty
    BY <1>10, WritesOutside
  <2>3. cluster'[n].index = {}
    BY <2>1, <2>2 DEF Empty
  <2> QED
    BY <1>0, <2>1, <2>3 DEF Indexes
<1>11. CASE RestoreStep
  <2>1. UNCHANGED <<file, foreign>> /\ restore.step = "running"
    BY <1>11, RestoreBrings DEF OthersStay
  <2>2. PICK new \in Store : Arrives(new)
    BY <1>11, RestoreDoes
  <2>3. restore'.at = restore.at + 1 /\ restore'.into = restore.into
    BY <1>11, <2>1, Advances, RestoreDoes
  <2>4. cluster' = [cluster EXCEPT ![restore.into] = new]
    BY <2>2 DEF Arrives
  <2>5. CASE restore.into = n
    <3>1. Indexes(restore.into)
      BY <1>1, <2>1, <2>5
    <3>2. /\ new.index \subseteq Sources(new)
          /\ ~ restore'.unindexed =>
                \A i \in DOMAIN file.items : file.items[i].kind = "index" /\ i <= restore.at =>
                   new.index = Sources(new)
      BY <1>11, <2>2, <3>1, RestoreIndexes
    <3>3. cluster'[n] = new
      BY <1>0, <2>4, <2>5
    <3>4. \A i \in DOMAIN file.items : i < restore.at + 1 => i <= restore.at
      <4>1. DOMAIN file.items = 1 .. Len(file.items) /\ Len(file.items) \in Nat /\ restore.at \in DOMAIN file.items
        BY <2>1, FileTyped DEF InOrderOfUse
      <4> QED
        BY <4>1
    <3> QED
      BY <2>1, <2>3, <3>2, <3>3, <3>4 DEF Indexes
  <2>6. CASE restore.into # n
    <3>1. cluster'[n] = cluster[n]
      BY <1>0, <2>4, <2>6
    <3> QED
      BY <1>1, <2>1, <2>3, <2>6, <3>1 DEF Indexes
  <2> QED
    BY <2>5, <2>6
<1> QED
  BY <1>4, <1>5, <1>6, <1>7, <1>8, <1>9, <1>10, <1>11, NextIsSteps DEF NextSteps

LEMMA IndexProgressHolds == Spec => []IndexProgress
<1>1. Init => IndexProgress
  <2> SUFFICES ASSUME Init, NEW n \in Clusters PROVE Indexes(n)
    BY DEF IndexProgress
  <2>1. cluster[n].index = {} /\ restore.step = "none"
    BY DEF Init, NoRestore, Empty
  <2> QED
    BY <2>1 DEF Indexes
<1> QED
  BY <1>1, IndexStep, TypeCorrect, FilesAreSound, PTL DEF Spec

(* A restore may be killed after any record and run again, any number of   *)
(* times: the one that ends leaves exactly what the file says, nothing      *)
(* twice, in a cluster that nothing else wrote to, and an index of all of   *)
(* it and of nothing else, unless its rebuild failed.                       *)
THEOREM RestoresConverge == Spec => []RestoreConverges
<1>1. TypedInOrder /\ FileIsSound /\ Progress /\ IndexProgress => RestoreConverges
  <2> SUFFICES ASSUME Typed, InOrderOfUse, FileSound, Progress, IndexProgress, RestoredAlone,
                      NEW k, k = cluster[restore.into]
               PROVE  /\ [k EXCEPT !.index = {}] = Restored
                      /\ k.index \subseteq Sources(k)
                      /\ ~ restore.unindexed => k.index = Sources(k)
    BY DEF TypedInOrder, FileIsSound, RestoreConverges
  <2>1. restore.step = "done" /\ restore.into \notin foreign
    BY DEF RestoredAlone
  <2>2. restore \in Restore /\ restore.at = Len(file.items) + 1
    BY <2>1 DEF Typed, InOrderOfUse, NoRestore
  <2>3. restore.into \in Clusters
    BY <2>2 DEF Restore
  <2>4. PICK m \in 0 .. Len(file.items) : Follows(restore.into, m)
    BY <2>1, <2>3 DEF Progress
  <2>5. Len(file.items) \in Nat
    BY FileTyped
  <2>6. m = Len(file.items)
    BY <2>1, <2>2, <2>4, <2>5 DEF Follows
  <2>7. [k EXCEPT !.index = {}] = Restored
    BY <2>4, <2>6 DEF Follows, Restored
  <2>8. Indexes(restore.into)
    BY <2>1, <2>3 DEF IndexProgress
  <2>9. PICK i \in DOMAIN file.items : file.items[i].kind = "index"
    BY <2>1 DEF InOrderOfUse, NoRestore, FileSound
  <2>10. i < restore.at
    BY <2>2, <2>9, FileTyped
  <2> QED
    BY <2>1, <2>7, <2>8, <2>9, <2>10 DEF Indexes
<1> QED
  BY <1>1, ProgressHolds, IndexProgressHolds, FilesAreSound, TypeCorrect, PTL

-----------------------------------------------------------------------------
(* What a restore says, and what the health checks say after it.           *)
LEMMA KernelWritesSo ==
  ASSUME Typed, Kernel
  PROVE  \E n \in Clusters, c \in Commands, new \in Store :
            Turns(n, new) /\ Disturbs(n) /\ KernelWrites(n, c, new)
<1>0. cluster \in [Clusters -> Store] /\ "home" \in Clusters
  BY DEF Typed, Clusters
<1> DEFINE Done == \E n \in Clusters, c \in Commands, new \in Store :
                      Turns(n, new) /\ Disturbs(n) /\ KernelWrites(n, c, new)
<1>t. ASSUME Kernel PROVE cluster' \in [Clusters -> Store]
  BY <1>t, KernelDoes, TurnsTyped
<1>1. ASSUME NEW n \in Clusters, NEW c \in Commands, CommitStore(n, c) PROVE Done
  <2>1. PICK k : k = cluster[n]
    OBVIOUS
  <2>2. PICK subject \in Subjects(k, c, born + 1) :
        /\ cluster' = [cluster EXCEPT ![n] = Stored(k, c, born + 1, subject)]
        /\ commits' = [commits EXCEPT ![c] =
              [step |-> "event", at |-> n, run |-> born + 1, subject |-> subject]]
    BY <1>1, <2>1 DEF CommitStore
  <2>3. PICK new : new = Stored(k, c, born + 1, subject)
    OBVIOUS
  <2>4. commits[c] = Idle /\ k.commands[c] = "approved" /\ born' = born + 1 /\ born + 1 \in Runs
    BY <1>1, <2>1, CommitStoreDoes DEF CommitStore
  <2>5. new \in Store
    BY <1>0, <2>1, <2>3, <2>4, StoredTyped
  <2>6. Turns(n, new) /\ Disturbs(n)
    BY <1>1, <2>2, <2>3, <2>5 DEF Turns, CommitStore
  <2>7. Storing(n, c, new)
    BY <2>1, <2>2, <2>3, <2>4 DEF Storing
  <2> QED
    BY <2>5, <2>6, <2>7 DEF KernelWrites
<1>2. ASSUME NEW c \in Commands, Propose(c) PROVE Done
  <2>1. PICK k : k = cluster["home"]
    OBVIOUS
  <2>2. PICK new : new = [k EXCEPT !.commands[c] = "approved",
                                   !.staging = IF Verb[c] = "ingest_artifact" THEN @ \cup {c} ELSE @]
    OBVIOUS
  <2>3. cluster' = [cluster EXCEPT !["home"] = new]
    BY <1>2, <2>1, <2>2 DEF Propose
  <2>k. Kernel
    BY <1>2 DEF Kernel
  <2>4. new \in Store
    BY <1>0, <1>t, <2>k, <2>3
  <2>5. Proposing("home", c, new) /\ Disturbs("home")
    BY <1>2, <2>1, <2>2 DEF Proposing, Propose
  <2> QED
    BY <1>0, <2>3, <2>4, <2>5 DEF KernelWrites, Turns
<1>3. ASSUME NEW c \in Commands, NEW step \in Steps, commits[c].step = step, Continue(c), UNCHANGED born,
             Disturbs(commits[c].at), Kernel, NEW new, cluster' = [cluster EXCEPT ![commits[c].at] = new]
      PROVE  /\ commits[c].at \in Clusters /\ new \in Store /\ Turns(commits[c].at, new)
             /\ Going(commits[c].at, c, step)
  <2>1. commits[c].at \in Clusters
    BY <1>3, CommitFields
  <2>2. cluster'[commits[c].at] = new
    BY <1>0, <1>3, <2>1
  <2>3. new \in Store
    BY <1>3, <1>t, <2>1, <2>2
  <2> QED
    BY <1>3, <2>1, <2>3 DEF Turns, Going
<1>4. ASSUME NEW c \in Commands, CommitEvent(c) PROVE Done
  <2>1. PICK k, new : k = cluster[commits[c].at] /\
           new = [k EXCEPT !.events = append(k.events, commits[c].run, "mutation_committed", commits[c].subject)]
    OBVIOUS
  <2>2. Kernel
    BY <1>4 DEF Kernel
  <2>3. cluster' = [cluster EXCEPT ![commits[c].at] = new]
    BY <1>4, <2>1 DEF CommitEvent
  <2>4. commits[c].at \in Clusters /\ new \in Store /\ Turns(commits[c].at, new) /\ Going(commits[c].at, c, "event")
    BY <1>3, <1>4, <2>2, <2>3 DEF CommitEvent, Steps
  <2>5. Recording(commits[c].at, c, new)
    BY <2>1, <2>4 DEF Recording
  <2> QED
    BY <1>4, <2>4, <2>5 DEF KernelWrites, CommitEvent
<1>5. ASSUME NEW c \in Commands, CommitSave(c) PROVE Done
  <2>1. PICK k, new : k = cluster[commits[c].at] /\ new = [k EXCEPT !.commands[c] = "committed"]
    OBVIOUS
  <2>2. Kernel
    BY <1>5 DEF Kernel
  <2>3. cluster' = [cluster EXCEPT ![commits[c].at] = new]
    BY <1>5, <2>1 DEF CommitSave
  <2>4. commits[c].at \in Clusters /\ new \in Store /\ Turns(commits[c].at, new) /\ Going(commits[c].at, c, "save")
    BY <1>3, <1>5, <2>2, <2>3 DEF CommitSave, Steps
  <2>5. Saving(commits[c].at, c, new)
    BY <2>1, <2>4 DEF Saving
  <2> QED
    BY <1>5, <2>4, <2>5 DEF KernelWrites, CommitSave
<1>6. ASSUME NEW c \in Commands, CommitReceipt(c) PROVE Done
  <2>1. PICK k, new : k = cluster[commits[c].at] /\
           new = [k EXCEPT !.receipts = appendReceipt(k.receipts, commits[c].run, commits[c].run, c)]
    OBVIOUS
  <2>2. Kernel
    BY <1>6 DEF Kernel
  <2>3. cluster' = [cluster EXCEPT ![commits[c].at] = new]
    BY <1>6, <2>1 DEF CommitReceipt
  <2>4. commits[c].at \in Clusters /\ new \in Store /\ Turns(commits[c].at, new) /\ Going(commits[c].at, c, "receipt")
    BY <1>3, <1>6, <2>2, <2>3 DEF CommitReceipt, Steps
  <2>5. Acknowledging(commits[c].at, c, new)
    BY <2>1, <2>4 DEF Acknowledging
  <2> QED
    BY <1>6, <2>4, <2>5 DEF KernelWrites, CommitReceipt
<1>7. ASSUME NEW c \in Commands, recordOrphanMutation(c) PROVE Done
  <2>1. PICK k, e : k = cluster[commits[c].at] /\ e = [k EXCEPT !.events =
                      append(k.events, MaxRuns + commits[c].run, "mutation_orphaned", commits[c].subject)]
    OBVIOUS
  <2>2. Kernel
    BY <1>7 DEF Kernel
  <2>3. commits[c].step = "receipt" /\ commits[c].at \in Clusters
    BY <1>7, CommitFields DEF recordOrphanMutation, Steps
  <2>4. cluster' = [cluster EXCEPT ![commits[c].at] = k] \/ cluster' = [cluster EXCEPT ![commits[c].at] = e]
    BY <1>0, <1>7, <2>1, <2>3 DEF recordOrphanMutation
  <2>5. PICK new : (new = k \/ new = e) /\ cluster' = [cluster EXCEPT ![commits[c].at] = new]
    BY <2>4
  <2>6. new \in Store /\ Turns(commits[c].at, new) /\ Going(commits[c].at, c, "receipt")
    BY <1>3, <1>7, <2>2, <2>5 DEF recordOrphanMutation, Steps
  <2>7. Orphaning(commits[c].at, c, new)
    BY <2>1, <2>5, <2>6 DEF Orphaning
  <2> QED
    BY <1>7, <2>3, <2>6, <2>7 DEF KernelWrites, recordOrphanMutation
<1> QED
  BY <1>1, <1>2, <1>4, <1>5, <1>6, <1>7 DEF Kernel

LEMMA StoredSources ==
  ASSUME NEW k \in Store, NEW c \in Commands, NEW run \in Runs, run \notin Sources(k),
         NEW subject \in Subjects(k, c, run), NEW new, new = Stored(k, c, run, subject)
  PROVE  Adds(k, run, subject, new)
<1>0. /\ new.events = k.events /\ new.receipts = k.receipts /\ new.commands = k.commands
      /\ k.canonical \in [Runs -> Seq(Version)] /\ k.artifacts \in [Runs -> Metadata]
  BY StoredTyped, StoreFields
<1>s. /\ \A e : e \in Entities(k) <=> e \in Runs /\ k.canonical[e] # <<>>
      /\ \A e : e \in Entities(new) <=> e \in Runs /\ new.canonical[e] # <<>>
      /\ \A a : a \in Artifacts(k) <=> a \in Runs /\ k.artifacts[a] # NoArtifact
      /\ \A a : a \in Artifacts(new) <=> a \in Runs /\ new.artifacts[a] # NoArtifact
  BY DEF Entities, Artifacts
<1>1. CASE Verb[c] = "create_entity"
  <2>1. /\ subject = run /\ new.canonical = [k.canonical EXCEPT ![run] = <<[n |-> 1, by |-> run]>>]
        /\ new.artifacts = k.artifacts /\ new.index = k.index \cup {run} /\ new.staging = k.staging
    BY <1>1 DEF Stored, Subjects, Store
  <2>2. PICK v : v = <<[n |-> 1, by |-> run]>>
    OBVIOUS
  <2>6. v # <<>>
    <3>1. \A x : <<x>> # <<>>
      OBVIOUS
    <3> QED
      BY <2>2, <3>1
  <2>3. \A e \in Runs : new.canonical[e] = IF e = run THEN v ELSE k.canonical[e]
    BY <1>0, <2>1, <2>2
  <2>4. Entities(new) = Entities(k) \cup {run}
    BY <1>s, <2>6, <2>3
  <2>5. Artifacts(new) = Artifacts(k)
    BY <2>1 DEF Artifacts
  <2> QED
    BY <1>0, <2>1, <2>4, <2>5 DEF Adds, Creates
<1>2. CASE Verb[c] = "update_entity"
  <2>1. /\ subject \in Entities(k)
        /\ new.canonical = [k.canonical EXCEPT ![subject] =
                               Append(@, [n |-> Latest(k, subject).n + 1, by |-> run])]
        /\ new.artifacts = k.artifacts /\ new.index = k.index /\ new.staging = k.staging
    BY <1>2 DEF Stored, Subjects, Store, Latest
  <2>2. PICK v : v = Append(k.canonical[subject], [n |-> Latest(k, subject).n + 1, by |-> run])
    OBVIOUS
  <2>3. v # <<>>
    <3>1. subject \in Runs /\ k.canonical[subject] \in Seq(Version) /\ Latest(k, subject) \in Version
      BY <1>0, <1>s, <2>1, LatestTyped
    <3>2. [n |-> Latest(k, subject).n + 1, by |-> run] \in Version
      BY <3>1, Naturals DEF Version
    <3>3. Len(v) = Len(k.canonical[subject]) + 1 /\ Len(k.canonical[subject]) \in Nat
      BY <2>2, <3>1, <3>2
    <3>4. Len(<<>>) = 0
      OBVIOUS
    <3> QED
      BY <3>3, <3>4
  <2>4. \A e \in Runs : new.canonical[e] = IF e = subject THEN v ELSE k.canonical[e]
    BY <1>0, <2>1, <2>2
  <2>7. \A e \in Runs : new.canonical[e] # <<>> <=> k.canonical[e] # <<>>
    BY <1>s, <2>1, <2>3, <2>4
  <2>5. Entities(new) = Entities(k)
    BY <2>7 DEF Entities
  <2>6. Artifacts(new) = Artifacts(k)
    BY <2>1 DEF Artifacts
  <2> QED
    BY <1>0, <2>1, <2>5, <2>6 DEF Adds, Updates
<1>3. CASE Verb[c] = "ingest_artifact"
  <2>1. /\ subject = run /\ new.canonical = k.canonical
        /\ new.artifacts = [k.artifacts EXCEPT ![run] = [filename |-> run, blob |-> "whole"]]
        /\ new.index = k.index \cup {run} /\ new.staging \subseteq k.staging
    BY <1>3 DEF Stored, Subjects, Store
  <2>2. PICK v : v = [filename |-> run, blob |-> "whole"]
    OBVIOUS
  <2>6. v # NoArtifact
    BY <2>2 DEF NoArtifact
  <2>3. \A a \in Runs : new.artifacts[a] = IF a = run THEN v ELSE k.artifacts[a]
    BY <1>0, <2>1, <2>2
  <2>4. Artifacts(new) = Artifacts(k) \cup {run}
    BY <1>s, <2>6, <2>3
  <2>5. Entities(new) = Entities(k)
    BY <2>1 DEF Entities
  <2> QED
    BY <1>0, <2>1, <2>4, <2>5 DEF Adds, Ingests
<1> QED
  BY <1>1, <1>2, <1>3, VerbsAreModelled DEF Verbs

(* A kernel's write but for that of an owner store leaves the sources.     *)
LEMMA WritesSources ==
  ASSUME Typed, Known, NEW n \in Clusters, NEW c \in Commands, NEW new, KernelWrites(n, c, new)
  PROVE  /\ Sources(new) \subseteq Sources(cluster[n]) \cup {born + 1}
         /\ born' = born \/ born' = born + 1
         /\ \/ new.canonical = cluster[n].canonical /\ new.artifacts = cluster[n].artifacts
            \/ /\ Storing(n, c, new) /\ born' = born + 1 /\ born + 1 \in Runs
               /\ born + 1 \notin Sources(cluster[n])
         /\ Sources(new) \subseteq Sources(cluster[n]) \/ born' = born + 1
<1>1. PICK k : k = cluster[n]
  OBVIOUS
<1>2. k \in Store /\ born \in Nat /\ \A s \in Sources(k) : s \in Nat /\ s <= born
  BY <1>1, Naturals DEF Typed, Known, Sources, Entities, Artifacts
<1>3. ASSUME new.canonical = k.canonical, new.artifacts = k.artifacts PROVE Sources(new) = Sources(k)
  BY <1>3 DEF Sources, Entities, Artifacts
<1>4. CASE Proposing(n, c, new)
  <2>1. new.canonical = k.canonical /\ new.artifacts = k.artifacts /\ born' = born
    BY <1>1, <1>2, <1>4 DEF Proposing, Store
  <2> QED
    BY <1>1, <1>3, <2>1
<1>5. CASE Recording(n, c, new) \/ Saving(n, c, new) \/ Acknowledging(n, c, new) \/ Orphaning(n, c, new)
  <2>1. new.canonical = k.canonical /\ new.artifacts = k.artifacts /\ born' = born
    BY <1>1, <1>2, <1>5 DEF Recording, Saving, Acknowledging, Orphaning, Going, Store
  <2> QED
    BY <1>1, <1>3, <2>1
<1>6. CASE Storing(n, c, new)
  <2>1. born + 1 \in Runs /\ born' = born + 1
    BY <1>6 DEF Storing
  <2>2. born + 1 \notin Sources(k)
    BY <1>2
  <2>3. PICK subject \in Subjects(k, c, born + 1) : new = Stored(k, c, born + 1, subject)
    BY <1>1, <1>6 DEF Storing
  <2>6. PICK run : run = born + 1
    OBVIOUS
  <2>7. Adds(k, run, subject, new)
    BY <1>2, <2>1, <2>2, <2>3, <2>6, StoredSources
  <2>4. Entities(new) \subseteq Entities(k) \cup {born + 1} /\ Artifacts(new) \subseteq Artifacts(k) \cup {born + 1}
    BY <2>6, <2>7 DEF Adds, Creates, Updates, Ingests
  <2>5. Sources(new) \subseteq Sources(k) \cup {born + 1}
    BY <2>4 DEF Sources
  <2> QED
    BY <1>1, <1>6, <2>1, <2>2, <2>5
<1> QED
  BY <1>4, <1>5, <1>6 DEF KernelWrites

(* The forms of a log are as many as its records.                          *)
LEMMA FormsAreLists ==
  ASSUME NEW k \in Store
  PROVE  /\ Len(EventForms(k)) = Len(k.events) /\ Len(k.events) \in Nat
         /\ DOMAIN EventForms(k) = 1..Len(k.events) /\ DOMAIN k.events = 1..Len(k.events)
         /\ Len(ReceiptForms(k)) = Len(k.receipts) /\ Len(k.receipts) \in Nat
         /\ DOMAIN ReceiptForms(k) = 1..Len(k.receipts) /\ DOMAIN k.receipts = 1..Len(k.receipts)
<1>1. PICK ev, re : ev = k.events /\ re = k.receipts
  OBVIOUS
<1>2. /\ Len(ev) \in Nat /\ DOMAIN ev = 1..Len(ev)
      /\ Len(re) \in Nat /\ DOMAIN re = 1..Len(re)
  BY <1>1, StoreFields, InSeq
<1>3. DOMAIN EventForms(k) = DOMAIN ev /\ DOMAIN ReceiptForms(k) = DOMAIN re
  BY <1>1 DEF EventForms, ReceiptForms
<1>4. \A q, n : n \in Nat /\ DOMAIN q = 1..n /\ q = [i \in DOMAIN q |-> q[i]] => Len(q) = n
  OBVIOUS
<1>5. /\ EventForms(k) = [j \in DOMAIN EventForms(k) |-> EventForms(k)[j]]
      /\ ReceiptForms(k) = [j \in DOMAIN ReceiptForms(k) |-> ReceiptForms(k)[j]]
  BY DEF EventForms, ReceiptForms
<1>6. Len(EventForms(k)) = Len(ev) /\ Len(ReceiptForms(k)) = Len(re)
  BY <1>2, <1>3, <1>4, <1>5
<1> QED
  BY <1>1, <1>2, <1>3, <1>6

(* What backup() lists of a store shows that store.                        *)
LEMMA EntitiesShown ==
  ASSUME NEW k \in Store
  PROVE  Shows(EntityItems(k), k, "entity", options) /\ \A i \in DOMAIN EntityItems(k) : EntityItems(k)[i].kind = "entity"
<1>1. PICK es, items : es = InOrder(Entities(k)) /\ items = EntityItems(k)
  OBVIOUS
<1>2. Entities(k) \in SUBSET (1..MaxRuns) /\ MaxRuns \in Nat
  BY Naturals DEF Entities
<1>3. /\ DOMAIN es = 1..Cardinality(Entities(k))
      /\ \A i \in DOMAIN es : es[i] \in Entities(k)
      /\ \A e \in Entities(k) : \E i \in DOMAIN es : es[i] = e
  BY <1>1, <1>2, Places DEF InOrder
<1>4. items = [i \in DOMAIN es |-> EntityItem(es[i], Latest(k, es[i]))]
  BY <1>1 DEF EntityItems
<1>5. items \in Seq(EntityRecord)
  BY <1>1, EntitiesListed
<1>6. DOMAIN items = DOMAIN es /\ \A i \in DOMAIN items : items[i] \in EntityRecord
  <2>1. DOMAIN items = DOMAIN es
    BY <1>4
  <2> QED
    BY <1>5, <2>1, InSeq
<1>7. \A i \in DOMAIN items : /\ items[i].kind = "entity" /\ items[i].id = es[i]
                              /\ items[i].n = Latest(k, es[i]).n
  BY <1>4 DEF EntityItem
<1>8. \A i \in DOMAIN items : items[i] \in EntityForms(k)
  BY <1>3, <1>6, <1>7 DEF EntityForms
<1> QED
  BY <1>1, <1>3, <1>6, <1>7, <1>8 DEF Shows, ShowsSet

LEMMA ArtifactsShown ==
  ASSUME NEW k \in Store
  PROVE  /\ Shows(ArtifactItems(k), k, "artifact", options)
         /\ \A i \in DOMAIN ArtifactItems(k) : ArtifactItems(k)[i].kind = "artifact"
<1>1. PICK as, items : as = InOrder(Artifacts(k)) /\ items = ArtifactItems(k)
  OBVIOUS
<1>2. Artifacts(k) \in SUBSET (1..MaxRuns) /\ MaxRuns \in Nat
  BY Naturals DEF Artifacts
<1>3. /\ DOMAIN as = 1..Cardinality(Artifacts(k))
      /\ \A i \in DOMAIN as : as[i] \in Artifacts(k)
      /\ \A a \in Artifacts(k) : \E i \in DOMAIN as : as[i] = a
  BY <1>1, <1>2, Places DEF InOrder
<1>4. items = [i \in DOMAIN as |-> ArtifactItem(as[i], k.artifacts[as[i]])]
  BY <1>1 DEF ArtifactItems
<1>5. items \in Seq(ArtifactRecord)
  BY <1>1, ArtifactsListed
<1>6. DOMAIN items = DOMAIN as /\ \A i \in DOMAIN items : items[i] \in ArtifactRecord
  <2>1. DOMAIN items = DOMAIN as
    BY <1>4
  <2> QED
    BY <1>5, <2>1, InSeq
<1>7. \A i \in DOMAIN items : /\ items[i].kind = "artifact" /\ items[i].id = as[i]
                              /\ items[i].blob = k.artifacts[as[i]].blob
  BY <1>4 DEF ArtifactItem
<1>8. \A i \in DOMAIN items : items[i] \in ArtifactForms(k)
  BY <1>3, <1>6, <1>7 DEF ArtifactForms
<1> QED
  BY <1>1, <1>3, <1>6, <1>7, <1>8 DEF Shows, ShowsSet

LEMMA EventsShown ==
  ASSUME NEW k \in Store
  PROVE  Shows(EventItems(k), k, "event", options) /\ \A i \in DOMAIN EventItems(k) : EventItems(k)[i].kind = "event"
<1>1. PICK items, log, list : items = EventItems(k) /\ log = k.events /\ list = EventForms(k)
  OBVIOUS
<1>2. log \in Seq(Event) /\ items \in Seq(EventRecord)
  BY <1>1, StoreFields, EventsListed
<1>3. Len(log) \in Nat /\ DOMAIN log = 1..Len(log)
  BY <1>2
<1>4. items = [i \in DOMAIN log |-> EventItem(log[i])]
  BY <1>1 DEF EventItems
<1>5. DOMAIN items = DOMAIN log /\ \A i \in DOMAIN items : items[i] \in EventRecord /\ items[i] = EventItem(log[i])
  BY <1>2, <1>4
<1>6. \A i \in DOMAIN items : items[i].kind = "event"
  BY <1>5 DEF EventItem
<1>7. DOMAIN list = DOMAIN log /\ \A j \in DOMAIN log : items[j] \in list[j]
  <2>1. \A j \in DOMAIN log : /\ items[j].id = log[j].id /\ items[j].prev = log[j].prev
                              /\ items[j].action = log[j].action /\ items[j].subject = log[j].subject
    BY <1>5 DEF EventItem
  <2>2. DOMAIN list = DOMAIN log
    BY <1>1 DEF EventForms
  <2>3. \A j \in DOMAIN log : list[j] = {x \in EventRecord : /\ x.id = log[j].id /\ x.prev = log[j].prev
                                                      /\ x.action = log[j].action /\ x.subject = log[j].subject}
    BY <1>1 DEF EventForms
  <2> QED
    BY <1>5, <2>1, <2>2, <2>3
<1>9. Len(list) = Len(log)
  BY <1>1, FormsAreLists
<1>10. /\ \A i \in DOMAIN items : items[i].kind = "event" <=> 0 < i /\ i <= 0 + Len(list)
       /\ \A j \in DOMAIN list : 0 + j \in DOMAIN items /\ items[0 + j] \in list[j]
  <2>1. \A j \in DOMAIN log : 0 + j = j
    BY <1>3
  <2> QED
    BY <1>3, <1>5, <1>6, <1>7, <1>9, <2>1
<1>11. ShowsLog(items, "event", list)
  BY <1>10 DEF ShowsLog
<1> QED
  BY <1>1, <1>6, <1>11 DEF Shows

LEMMA ReceiptsShown ==
  ASSUME NEW k \in Store
  PROVE  Shows(ReceiptItems(k), k, "receipt", options) /\ \A i \in DOMAIN ReceiptItems(k) : ReceiptItems(k)[i].kind = "receipt"
<1>1. PICK items, log, list : items = ReceiptItems(k) /\ log = k.receipts /\ list = ReceiptForms(k)
  OBVIOUS
<1>2. log \in Seq(Receipt) /\ items \in Seq(ReceiptRecord)
  BY <1>1, StoreFields, ReceiptsListed
<1>3. Len(log) \in Nat /\ DOMAIN log = 1..Len(log)
  BY <1>2
<1>4. items = [i \in DOMAIN log |-> ReceiptItem(log[i])]
  BY <1>1 DEF ReceiptItems
<1>5. DOMAIN items = DOMAIN log /\ \A i \in DOMAIN items : items[i] \in ReceiptRecord /\ items[i] = ReceiptItem(log[i])
  BY <1>2, <1>4
<1>6. \A i \in DOMAIN items : items[i].kind = "receipt"
  BY <1>5 DEF ReceiptItem
<1>7. DOMAIN list = DOMAIN log /\ \A j \in DOMAIN log : items[j] \in list[j]
  <2>1. \A j \in DOMAIN log : /\ items[j].id = log[j].id /\ items[j].prev = log[j].prev
                              /\ items[j].event = log[j].event /\ items[j].cmd = log[j].cmd
    BY <1>5 DEF ReceiptItem
  <2>2. DOMAIN list = DOMAIN log
    BY <1>1 DEF ReceiptForms
  <2>3. \A j \in DOMAIN log : list[j] = {x \in ReceiptRecord : /\ x.id = log[j].id /\ x.prev = log[j].prev
                                                      /\ x.event = log[j].event /\ x.cmd = log[j].cmd}
    BY <1>1 DEF ReceiptForms
  <2> QED
    BY <1>5, <2>1, <2>2, <2>3
<1>9. Len(list) = Len(log)
  BY <1>1, FormsAreLists
<1>10. /\ \A i \in DOMAIN items : items[i].kind = "receipt" <=> 0 < i /\ i <= 0 + Len(list)
       /\ \A j \in DOMAIN list : 0 + j \in DOMAIN items /\ items[0 + j] \in list[j]
  <2>1. \A j \in DOMAIN log : 0 + j = j
    BY <1>3
  <2> QED
    BY <1>3, <1>5, <1>6, <1>7, <1>9, <2>1
<1>11. ShowsLog(items, "receipt", list)
  BY <1>10 DEF ShowsLog
<1> QED
  BY <1>1, <1>6, <1>11 DEF Shows

LEMMA QueueShown ==
  ASSUME NEW k \in Store
  PROVE  /\ Shows(QueueItems(k, options), k, "command", options)
         /\ \A i \in DOMAIN QueueItems(k, options) : QueueItems(k, options)[i].kind = "command"
<1>1. PICK S, cs, items : /\ S = {c \in Commands : "commandQueue" \in options /\ k.commands[c] # "none"}
                          /\ cs = SetToSeq(S) /\ items = QueueItems(k, options)
  OBVIOUS
<1>2. cs \in Seq(S) /\ \A c \in S : \E i \in DOMAIN cs : cs[i] = c
  BY <1>1, SequenceOfSet
<1>3. \A i \in DOMAIN cs : cs[i] \in S
  BY <1>2
<1>4. items = [i \in DOMAIN cs |-> [kind |-> "command", id |-> cs[i], status |-> k.commands[cs[i]]]]
  BY <1>1 DEF QueueItems
<1>5. items \in Seq(CommandRecord)
  BY <1>1, QueueListed
<1>6. DOMAIN items = DOMAIN cs /\ \A i \in DOMAIN items : items[i] \in CommandRecord
  <2>1. DOMAIN items = DOMAIN cs
    BY <1>4
  <2> QED
    BY <1>5, <2>1, InSeq
<1>7. \A i \in DOMAIN items : items[i].kind = "command" /\ items[i].id = cs[i] /\ items[i].status = k.commands[cs[i]]
  BY <1>4
<1>8. \A i \in DOMAIN items : items[i] \in CommandForms(k)
  BY <1>6, <1>7 DEF CommandForms
<1>9. ShowsSet(items, "command", S, CommandForms(k))
  BY <1>2, <1>3, <1>6, <1>7, <1>8 DEF ShowsSet
<1> QED
  BY <1>1, <1>7, <1>9 DEF Shows

LEMMA StagingShown ==
  ASSUME NEW k \in Store
  PROVE  /\ Shows(StagingItems(k, options), k, "staging", options)
         /\ \A i \in DOMAIN StagingItems(k, options) : StagingItems(k, options)[i].kind = "staging"
<1>1. PICK S, fs, items : S = {f \in k.staging : "dataDir" \in options} /\ fs = SetToSeq(S) /\ items = StagingItems(k, options)
  OBVIOUS
<1>0. S \in SUBSET Commands
  BY <1>1, StoreFields
<1>2. fs \in Seq(S) /\ \A f \in S : \E i \in DOMAIN fs : fs[i] = f
  BY <1>0, <1>1, SequenceOfSet
<1>3. \A i \in DOMAIN fs : fs[i] \in S /\ fs[i] \in k.staging
  BY <1>1, <1>2
<1>4. items = [i \in DOMAIN fs |-> [kind |-> "staging", id |-> fs[i], whole |-> TRUE]]
  BY <1>1 DEF StagingItems
<1>5. items \in Seq(StagingRecord)
  BY <1>1, StagingListed
<1>6. DOMAIN items = DOMAIN fs /\ \A i \in DOMAIN items : items[i] \in StagingRecord
  <2>1. DOMAIN items = DOMAIN fs
    BY <1>4
  <2> QED
    BY <1>5, <2>1, InSeq
<1>7. \A i \in DOMAIN items : items[i].kind = "staging" /\ items[i].id = fs[i]
  BY <1>4
<1>8. \A i \in DOMAIN items : items[i] \in StagingForms(k)
  BY <1>3, <1>6, <1>7 DEF StagingForms
<1>9. ShowsSet(items, "staging", S, StagingForms(k))
  BY <1>2, <1>3, <1>6, <1>7, <1>8 DEF ShowsSet
<1> QED
  BY <1>1, <1>7, <1>9 DEF Shows

LEMMA ListShows ==
  ASSUME NEW k \in Store, NEW kind \in AllKinds
  PROVE  /\ Shows(ListOf(k, kind, options), k, kind, options)
         /\ \A i \in DOMAIN ListOf(k, kind, options) : ListOf(k, kind, options)[i].kind = kind
<1>1. CASE kind \in {"entity", "artifact", "event", "receipt"}
  BY <1>1, EntitiesShown, ArtifactsShown, EventsShown, ReceiptsShown DEF ListOf
<1>2. CASE kind \in {"command", "staging"}
  BY <1>2, QueueShown, StagingShown DEF ListOf
<1>3. CASE kind = "index"
  <2>1. PICK items : items = <<IndexMark>>
    OBVIOUS
  <2>2. DOMAIN items = {1} /\ items[1] = IndexMark
    <3>1. \A x : DOMAIN <<x>> = {1} /\ <<x>>[1] = x
      OBVIOUS
    <3> QED
      BY <2>1, <3>1
  <2>3. IndexMark.kind = "index" /\ IndexMark.id = Forged
    BY DEF IndexMark
  <2>4. ListOf(k, kind, options) = items
    BY <1>3, <2>1 DEF ListOf
  <2>5. ShowsSet(items, "index", {Forged}, {IndexMark})
    BY <2>2, <2>3 DEF ShowsSet
  <2> QED
    BY <1>3, <2>2, <2>3, <2>4, <2>5 DEF Shows
<1> QED
  BY <1>1, <1>2, <1>3 DEF AllKinds

(* Each of the records of two lists that follow each other is of one.      *)
Joins(r, p, q) ==
    /\ \A i \in DOMAIN r : \/ i \in DOMAIN p /\ r[i] = p[i]
                           \/ \E j \in DOMAIN q : r[i] = q[j]
    /\ \A i \in DOMAIN p : i \in DOMAIN r /\ r[i] = p[i]
    /\ \A j \in DOMAIN q : \E i \in DOMAIN r : r[i] = q[j]

LEMMA ConcatJoins ==
  ASSUME NEW S, NEW p \in Seq(S), NEW q \in Seq(S)
  PROVE  Joins(p \o q, p, q)
<1>1. /\ p \o q \in Seq(S)
      /\ Len(p \o q) = Len(p) + Len(q)
      /\ Len(p) \in Nat /\ Len(q) \in Nat
      /\ \A i \in 1..Len(p) : (p \o q)[i] = p[i]
      /\ \A j \in 1..Len(q) : (p \o q)[Len(p) + j] = q[j]
      /\ \A i \in DOMAIN (p \o q) : i \in DOMAIN p \/ \E j \in DOMAIN q : i = Len(p) + j
  BY Concat
<1>2. DOMAIN p = 1..Len(p) /\ DOMAIN q = 1..Len(q) /\ DOMAIN (p \o q) = 1..(Len(p) + Len(q))
  BY <1>1
<1>3. PICK r, l, m : r = p \o q /\ l = Len(p) /\ m = Len(q)
  OBVIOUS
<1>4. /\ l \in Nat /\ m \in Nat /\ DOMAIN p = 1..l /\ DOMAIN q = 1..m /\ DOMAIN r = 1..(l + m)
      /\ \A i \in 1..l : r[i] = p[i]
      /\ \A j \in 1..m : r[l + j] = q[j]
      /\ \A i \in DOMAIN r : i \in 1..l \/ \E j \in 1..m : i = l + j
  BY <1>1, <1>2, <1>3
<1>5. \A j \in 1..m : l + j \in DOMAIN r
  BY <1>4
<1>6. \A i \in 1..l : i \in DOMAIN r
  BY <1>4
<1>7. Joins(r, p, q)
  BY <1>4, <1>5, <1>6 DEF Joins
<1> QED
  BY <1>3, <1>7

(* What is shown by one of two lists that follow each other.               *)
LEMMA ShowsMore ==
  ASSUME NEW S, NEW p \in Seq(S), NEW q \in Seq(S), NEW k \in Store, NEW kind \in AllKinds
  PROVE  /\ Shows(p, k, kind, options) /\ (\A j \in DOMAIN q : q[j].kind # kind) => Shows(p \o q, k, kind, options)
         /\ Shows(q, k, kind, options) /\ (\A i \in DOMAIN p : p[i].kind # kind) => Shows(p \o q, k, kind, options)
<1>1. PICK r, l, m : r = p \o q /\ l = Len(p) /\ m = Len(q)
  OBVIOUS
<1>2. /\ l \in Nat /\ m \in Nat /\ DOMAIN p = 1..l /\ DOMAIN q = 1..m /\ DOMAIN r = 1..(l + m)
      /\ \A i \in 1..l : r[i] = p[i]
      /\ \A j \in 1..m : r[l + j] = q[j]
      /\ \A i \in DOMAIN r : i \in 1..l \/ \E j \in 1..m : i = l + j
  <2>0. /\ p \o q \in Seq(S)
        /\ Len(p \o q) = Len(p) + Len(q)
        /\ Len(p) \in Nat /\ Len(q) \in Nat
        /\ \A i \in 1..Len(p) : (p \o q)[i] = p[i]
        /\ \A j \in 1..Len(q) : (p \o q)[Len(p) + j] = q[j]
        /\ \A i \in DOMAIN (p \o q) : i \in DOMAIN p \/ \E j \in DOMAIN q : i = Len(p) + j
    BY Concat
  <2>1. /\ Len(r) = l + m /\ l \in Nat /\ m \in Nat /\ r \in Seq(S)
        /\ \A i \in 1..l : r[i] = p[i]
        /\ \A j \in 1..m : r[l + j] = q[j]
        /\ \A i \in DOMAIN r : i \in DOMAIN p \/ \E j \in DOMAIN q : i = l + j
    BY <1>1, <2>0
  <2>2. DOMAIN p = 1..l /\ DOMAIN q = 1..m /\ DOMAIN r = 1..Len(r)
    BY <1>1, <2>1
  <2> QED
    BY <2>1, <2>2
<1>3. ASSUME NEW ids, NEW T, ShowsSet(p, kind, ids, T), \A j \in DOMAIN q : q[j].kind # kind
      PROVE  ShowsSet(r, kind, ids, T)
  <2>1. \A i \in DOMAIN r : r[i].kind = kind => i \in DOMAIN p /\ r[i] = p[i]
    BY <1>2, <1>3
  <2>2. \A i \in DOMAIN p : i \in DOMAIN r /\ r[i] = p[i]
    BY <1>2
  <2> QED
    BY <1>3, <2>1, <2>2 DEF ShowsSet
<1>4. ASSUME NEW ids, NEW T, ShowsSet(q, kind, ids, T), \A i \in DOMAIN p : p[i].kind # kind
      PROVE  ShowsSet(r, kind, ids, T)
  <2>1. \A i \in DOMAIN r : r[i].kind = kind => \E j \in DOMAIN q : r[i] = q[j]
    BY <1>2, <1>4
  <2>2. \A j \in DOMAIN q : l + j \in DOMAIN r /\ r[l + j] = q[j]
    BY <1>2
  <2> QED
    BY <1>4, <2>1, <2>2 DEF ShowsSet
<1>5. ASSUME NEW list, Len(list) \in Nat, ShowsLog(p, kind, list), \A j \in DOMAIN q : q[j].kind # kind,
             DOMAIN list = 1..Len(list)
      PROVE  ShowsLog(r, kind, list)
  <2>1. PICK o \in Nat :
          /\ \A i \in DOMAIN p : p[i].kind = kind <=> o < i /\ i <= o + Len(list)
          /\ \A j \in DOMAIN list : o + j \in DOMAIN p /\ p[o + j] \in list[j]
    BY <1>5 DEF ShowsLog
  <2>2. PICK c : c = Len(list)
    OBVIOUS
  <2>3. c = 0 \/ o + c <= l
    <3>1. c # 0 => c \in DOMAIN list
      BY <1>5, <2>2
    <3>2. c # 0 => o + c \in DOMAIN p
      BY <2>1, <3>1
    <3> QED
      BY <1>2, <2>1, <2>2, <3>2
  <2>4. \A i \in DOMAIN r : r[i].kind = kind <=> o < i /\ i <= o + c
    <3> TAKE i \in DOMAIN r
    <3>1. CASE i \in 1..l
      BY <1>2, <2>1, <2>2, <3>1
    <3>2. CASE \E j \in 1..m : i = l + j
      <4>1. PICK j \in 1..m : i = l + j
        BY <3>2
      <4>2. r[i].kind # kind
        BY <1>2, <1>5, <4>1
      <4>3. j \in Nat /\ j >= 1 /\ i = l + j /\ i \in Nat
        BY <1>2, <4>1
      <4>4. c \in Nat
        BY <1>5, <2>2
      <4>5. ~ (o < i /\ i <= o + c)
        BY <1>2, <2>1, <2>3, <4>3, <4>4
      <4> QED
        BY <4>2, <4>5
    <3> QED
      BY <1>2, <3>1, <3>2
  <2>5. \A j \in DOMAIN list : o + j \in DOMAIN r /\ r[o + j] \in list[j]
    BY <1>2, <2>1
  <2> QED
    BY <2>2, <2>4, <2>5 DEF ShowsLog
<1>6. ASSUME NEW list, Len(list) \in Nat, ShowsLog(q, kind, list), \A i \in DOMAIN p : p[i].kind # kind,
             DOMAIN list = 1..Len(list)
      PROVE  ShowsLog(r, kind, list)
  <2>1. PICK o \in Nat :
          /\ \A i \in DOMAIN q : q[i].kind = kind <=> o < i /\ i <= o + Len(list)
          /\ \A j \in DOMAIN list : o + j \in DOMAIN q /\ q[o + j] \in list[j]
    BY <1>6 DEF ShowsLog
  <2>2. PICK c, s : c = Len(list) /\ s = l + o
    OBVIOUS
  <2>3. s \in Nat /\ c \in Nat
    BY <1>2, <1>6, <2>1, <2>2
  <2>4. \A i \in DOMAIN r : r[i].kind = kind <=> s < i /\ i <= s + c
    <3> TAKE i \in DOMAIN r
    <3>1. CASE i \in 1..l
      BY <1>2, <1>6, <2>1, <2>2, <2>3, <3>1
    <3>2. CASE \E j \in 1..m : i = l + j
      <4>1. PICK j \in 1..m : i = l + j
        BY <3>2
      <4>2. r[i] = q[j]
        BY <1>2, <4>1
      <4>3. q[j].kind = kind <=> o < j /\ j <= o + c
        BY <1>2, <2>1, <2>2, <4>1
      <4> QED
        BY <1>2, <2>1, <2>2, <2>3, <4>1, <4>2, <4>3
    <3> QED
      BY <1>2, <3>1, <3>2
  <2>5. \A j \in DOMAIN list : s + j \in DOMAIN r /\ r[s + j] \in list[j]
    <3> TAKE j \in DOMAIN list
    <3>1. o + j \in 1..m /\ q[o + j] \in list[j] /\ j \in Nat
      BY <1>2, <1>6, <2>1
    <3>2. s + j = l + (o + j)
      BY <1>2, <2>1, <2>2, <3>1
    <3>3. l + (o + j) \in DOMAIN r /\ r[l + (o + j)] = q[o + j]
      BY <1>2, <3>1
    <3> QED
      BY <3>1, <3>2, <3>3
  <2> QED
    BY <2>2, <2>3, <2>4, <2>5 DEF ShowsLog
<1>7. /\ Len(EventForms(k)) \in Nat /\ DOMAIN EventForms(k) = 1..Len(EventForms(k))
      /\ Len(ReceiptForms(k)) \in Nat /\ DOMAIN ReceiptForms(k) = 1..Len(ReceiptForms(k))
  BY FormsAreLists
<1>8. CASE kind \in {"entity", "artifact", "index", "command", "staging"}
  BY <1>1, <1>3, <1>4, <1>8 DEF Shows
<1>9. CASE kind = "event"
  BY <1>1, <1>5, <1>6, <1>7, <1>9 DEF Shows
<1>10. CASE kind = "receipt"
  BY <1>1, <1>5, <1>6, <1>7, <1>10 DEF Shows
<1> QED
  BY <1>8, <1>9, <1>10 DEF AllKinds

(* What a step of a backup reads: one more store, of which backup.items     *)
(* knew nothing.                                                           *)
LEMMA ReadingLists ==
  ASSUME Typed, Reading
  PROVE  \E kind \in {"entity", "artifact", "event", "receipt"} :
           LET items == ListOf(cluster["home"], kind, options) IN
           /\ items \in Seq(StoreRecord) /\ backup'.items = backup.items \o items
           /\ kind \notin KindsRead(backup.step)
           /\ KindsRead(backup'.step) = KindsRead(backup.step) \cup {kind}
           /\ backup' # NoBackup
           /\ \/ backup # NoBackup /\ backup'.quiet = backup.quiet /\ backup'.health = backup.health
              \/ /\ backup = NoBackup /\ backup'.quiet = (\A c \in Commands : commits[c] = Idle)
                 /\ backup'.health = [verify |-> verify(cluster["home"]), doctor |-> doctor(cluster["home"])]
<1>1. /\ NoBackup.items = <<>> /\ NoBackup.step = "none" /\ KindsRead("none") = {}
      /\ KindsRead("artifacts") = {"entity"} /\ KindsRead("events") = {"entity", "artifact"}
      /\ KindsRead("receipts") = {"entity", "artifact", "event"}
      /\ KindsRead("contents") = {"entity", "artifact", "event", "receipt"}
  BY DEF NoBackup, KindsRead
<1>2. PICK k : k = cluster["home"]
  OBVIOUS
<1>0. k \in Store
  BY <1>2 DEF Typed, Clusters
<1>3. ASSUME NEW step, NEW next \in {"events", "receipts", "contents"}, NEW items, Reads(step, next, items),
             step \in {"artifacts", "events", "receipts"}
      PROVE  backup # NoBackup /\ backup'.quiet = backup.quiet /\ backup'.health = backup.health
             /\ backup'.items = backup.items \o items /\ backup.step = step /\ backup'.step = next /\ backup' # NoBackup
  <2>1. backup.step = step /\ backup # NoBackup
    BY <1>1, <1>3 DEF Reads
  <2>2. backup \in Backup
    BY <2>1 DEF Typed
  <2>3. backup' = [backup EXCEPT !.step = next, !.items = @ \o items]
    BY <1>3 DEF Reads
  <2>4. /\ backup'.step = next /\ backup'.items = backup.items \o items
        /\ backup'.quiet = backup.quiet /\ backup'.health = backup.health
    BY <2>2, <2>3 DEF Backup
  <2> QED
    BY <1>1, <1>3, <2>1, <2>4
<1>4. CASE BackupEntities
  <2>1. /\ backup = NoBackup /\ backup'.step = "artifacts" /\ backup'.items = EntityItems(k)
        /\ backup'.quiet = (\A c \in Commands : commits[c] = Idle)
        /\ backup'.health = [verify |-> verify(k), doctor |-> doctor(k)]
    BY <1>2, <1>4, StepBackup DEF BackupEntities
  <2>2. EntityItems(k) \in Seq(StoreRecord) /\ ListOf(k, "entity", options) = EntityItems(k)
    BY <1>0, EntitiesListed, StoreRecords DEF ListOf
  <2>3. \A S : \A q \in Seq(S) : <<>> \o q = q
    OBVIOUS
  <2>4. backup'.items = backup.items \o EntityItems(k)
    BY <1>1, <2>1, <2>2, <2>3
  <2>5. "entity" \notin KindsRead(backup.step) /\ KindsRead(backup'.step) = KindsRead(backup.step) \cup {"entity"}
        /\ backup' # NoBackup
    BY <1>1, <2>1
  <2> QED
    BY <1>2, <2>1, <2>2, <2>4, <2>5
<1>5. CASE BackupArtifacts
  <2>1. Reads("artifacts", "events", ArtifactItems(k))
    BY <1>2, <1>5 DEF BackupArtifacts
  <2>2. ArtifactItems(k) \in Seq(StoreRecord) /\ ListOf(k, "artifact", options) = ArtifactItems(k)
    BY <1>0, ArtifactsListed, StoreRecords DEF ListOf
  <2>3. backup # NoBackup /\ backup'.quiet = backup.quiet /\ backup'.health = backup.health
        /\ backup'.items = backup.items \o ArtifactItems(k) /\ backup.step = "artifacts" /\ backup'.step = "events"
        /\ backup' # NoBackup
    BY <1>3, <2>1
  <2>4. "artifact" \notin KindsRead(backup.step) /\ KindsRead(backup'.step) = KindsRead(backup.step) \cup {"artifact"}
    BY <1>1, <2>3
  <2> QED
    BY <1>2, <2>2, <2>3, <2>4
<1>6. CASE BackupEvents
  <2>1. Reads("events", "receipts", EventItems(k))
    BY <1>2, <1>6 DEF BackupEvents
  <2>2. EventItems(k) \in Seq(StoreRecord) /\ ListOf(k, "event", options) = EventItems(k)
    BY <1>0, EventsListed, StoreRecords DEF ListOf
  <2>3. backup # NoBackup /\ backup'.quiet = backup.quiet /\ backup'.health = backup.health
        /\ backup'.items = backup.items \o EventItems(k) /\ backup.step = "events" /\ backup'.step = "receipts"
        /\ backup' # NoBackup
    BY <1>3, <2>1
  <2>4. "event" \notin KindsRead(backup.step) /\ KindsRead(backup'.step) = KindsRead(backup.step) \cup {"event"}
    BY <1>1, <2>3
  <2> QED
    BY <1>2, <2>2, <2>3, <2>4
<1>7. CASE BackupReceipts
  <2>1. Reads("receipts", "contents", ReceiptItems(k))
    BY <1>2, <1>7 DEF BackupReceipts
  <2>2. ReceiptItems(k) \in Seq(StoreRecord) /\ ListOf(k, "receipt", options) = ReceiptItems(k)
    BY <1>0, ReceiptsListed, StoreRecords DEF ListOf
  <2>3. backup # NoBackup /\ backup'.quiet = backup.quiet /\ backup'.health = backup.health
        /\ backup'.items = backup.items \o ReceiptItems(k) /\ backup.step = "receipts" /\ backup'.step = "contents"
        /\ backup' # NoBackup
    BY <1>3, <2>1
  <2>4. "receipt" \notin KindsRead(backup.step) /\ KindsRead(backup'.step) = KindsRead(backup.step) \cup {"receipt"}
    BY <1>1, <2>3
  <2> QED
    BY <1>2, <2>2, <2>3, <2>4
<1> QED
  BY <1>4, <1>5, <1>6, <1>7 DEF Reading

(* What happens to a blob on disk leaves all else.                         *)
Decays(k, a, new) ==
    /\ a \in Artifacts(k) /\ k.artifacts[a].blob = "whole"
    /\ \E m \in Metadata : /\ m.filename = k.artifacts[a].filename /\ m.blob \in {"damaged", "gone"}
                           /\ new.artifacts = [k.artifacts EXCEPT ![a] = m]
    /\ new.canonical = k.canonical /\ new.events = k.events /\ new.receipts = k.receipts
    /\ new.commands = k.commands /\ new.staging = k.staging /\ new.index = k.index
    /\ Entities(new) = Entities(k) /\ Artifacts(new) = Artifacts(k)

LEMMA ChangeBlobDoes ==
  ASSUME Typed, NEW n \in Clusters, NEW a \in Runs, ChangeBlob(n, a)
  PROVE  /\ \E new \in Store : Turns(n, new) /\ Decays(cluster[n], a, new)
         /\ Disturbs(n) /\ UNCHANGED <<commits, born, file, restore>>
<1>1. PICK k : k = cluster[n]
  OBVIOUS
<1>2. k \in Store /\ k.artifacts \in [Runs -> Metadata] /\ k.artifacts[a] \in Metadata
  BY <1>1, StoreFields DEF Typed
<1>3. PICK blob \in {"damaged", "gone"} : cluster' = [cluster EXCEPT ![n].artifacts[a].blob = blob]
  BY DEF ChangeBlob
<1>4. PICK m : m = [k.artifacts[a] EXCEPT !.blob = blob]
  OBVIOUS
<1>5. m \in Metadata /\ m.filename = k.artifacts[a].filename /\ m.blob = blob
  BY <1>2, <1>4 DEF Metadata, Blobs
<1>6. PICK new : new = [k EXCEPT !.artifacts[a] = m]
  OBVIOUS
<1>7. cluster' = [cluster EXCEPT ![n] = new]
  BY <1>1, <1>3, <1>4, <1>6
<1>8. /\ new.artifacts = [k.artifacts EXCEPT ![a] = m]
      /\ new.canonical = k.canonical /\ new.events = k.events /\ new.receipts = k.receipts
      /\ new.commands = k.commands /\ new.staging = k.staging /\ new.index = k.index
  BY <1>2, <1>6 DEF Store
<1>9. new \in Store
  <2>1. new.artifacts \in [Runs -> Metadata]
    BY <1>2, <1>5, <1>8
  <2> QED
    BY <1>2, <1>6, <1>8, <2>1 DEF Store
<1>10. a \in Artifacts(k) /\ k.artifacts[a].blob = "whole"
  BY <1>1 DEF ChangeBlob
<1>11. m # NoArtifact /\ k.artifacts[a] # NoArtifact
  BY <1>5, <1>10 DEF NoArtifact
<1>12. \A b \in Runs : new.artifacts[b] # NoArtifact <=> k.artifacts[b] # NoArtifact
  BY <1>2, <1>8, <1>11
<1>13. Entities(new) = Entities(k) /\ Artifacts(new) = Artifacts(k)
  BY <1>8, <1>12 DEF Entities, Artifacts
<1>14. Decays(k, a, new)
  BY <1>5, <1>8, <1>10, <1>13 DEF Decays
<1>15. Disturbs(n) /\ UNCHANGED <<commits, born, file, restore>>
  BY DEF ChangeBlob
<1> QED
  BY <1>1, <1>7, <1>9, <1>14, <1>15 DEF Turns

LEMMA LeavesOutside ==
  /\ BackupContents => UNCHANGED <<cluster, commits, born, restore, foreign>>
  /\ AlterFile => UNCHANGED <<cluster, commits, born, backup>>
  /\ CrashRestore => UNCHANGED <<cluster, commits, born, backup, file, foreign>>
  /\ \A n : StartRestore(n) => UNCHANGED <<cluster, commits, born, backup, file, foreign>>
<1>1. ASSUME BackupContents PROVE UNCHANGED <<cluster, commits, born, restore, foreign>>
  <2>1. UNCHANGED <<cluster, commits, born, restore, foreign, decayed, faults>>
    BY ZenonT(60), <1>1 DEF BackupContents, OnlyBackup
  <2> QED
    BY <2>1
<1>2. AlterFile => UNCHANGED <<cluster, commits, born, backup, decayed>>
  BY DEF AlterFile
<1>3. CrashRestore => UNCHANGED <<cluster, commits, born, backup, file, foreign>>
  BY DEF CrashRestore
<1>4. \A n : StartRestore(n) => UNCHANGED <<cluster, commits, born, backup, file, foreign>>
  BY DEF StartRestore
<1> QED
  BY <1>1, <1>2, <1>3, <1>4

LEMMA KnownStep == TypedInOrder /\ Known /\ [Next]_vars => Known'
<1> SUFFICES ASSUME Typed, InOrderOfUse, Known, [Next]_vars PROVE Known'
  BY DEF TypedInOrder
<1>0. cluster \in [Clusters -> Store] /\ born \in Nat /\ Runs \subseteq Nat
  BY Naturals DEF Typed
<1>1. CASE Kernel
  <2>1. PICK n \in Clusters, c \in Commands, new \in Store :
          Turns(n, new) /\ Disturbs(n) /\ KernelWrites(n, c, new)
    BY <1>1, KernelWritesSo
  <2>2. /\ Sources(new) \subseteq Sources(cluster[n]) \cup {born + 1}
        /\ born' = born \/ born' = born + 1
        /\ Sources(new) \subseteq Sources(cluster[n]) \/ born' = born + 1
    BY <2>1, WritesSources
  <2>3. UNCHANGED file /\ backup'.items = backup.items
    BY <1>1, <2>1, KernelDoes, DisturbsTyped
  <2>4. cluster'[n] = new /\ \A m \in Clusters : m # n => cluster'[m] = cluster[m]
    BY <2>1, TurnsTyped
  <2>5. \A m \in Clusters : \A s \in Sources(cluster[m]) : s <= born' /\ s \in Nat
    BY <1>0, <2>2 DEF Known, Sources, Entities, Artifacts
  <2>6. \A s \in Sources(new) : s <= born'
    BY <1>0, <2>1, <2>2, <2>5
  <2>7. \A m \in Clusters : \A s \in Sources(cluster'[m]) : s <= born'
    BY <2>4, <2>5, <2>6
  <2>8. \A i \in DOMAIN file.items : file.items[i].kind \in {"entity", "artifact"} => file.items[i].id <= born'
    <3> SUFFICES ASSUME NEW i \in DOMAIN file.items, file.items[i].kind \in {"entity", "artifact"}
                 PROVE  file.items[i].id <= born'
      OBVIOUS
    <3>1. file.items[i] \in Record
      BY FileTyped
    <3>2. file.items[i].id \in Nat
      BY <1>0, <3>1, KindOfRecord DEF EntityRecord, ArtifactRecord
    <3>3. file.items[i].id <= born
      BY DEF Known
    <3> QED
      BY <1>0, <2>2, <3>2, <3>3
  <2>9. \A i \in DOMAIN backup.items : backup.items[i].kind \in {"entity", "artifact"} => backup.items[i].id <= born'
    <3> SUFFICES ASSUME NEW i \in DOMAIN backup.items, backup.items[i].kind \in {"entity", "artifact"}
                 PROVE  backup.items[i].id <= born'
      OBVIOUS
    <3>1. backup.items[i] \in StoreRecord
      BY StepBackup, InSeq
    <3>2. backup.items[i].id \in Nat
      BY <1>0, <3>1, KindOfRecord DEF Record, EntityRecord, ArtifactRecord
    <3>3. backup.items[i].id <= born
      BY DEF Known
    <3> QED
      BY <1>0, <2>2, <3>2, <3>3
  <2> QED
    BY <2>3, <2>7, <2>8, <2>9 DEF Known
<1>2. CASE Reading
  <2>1. PICK kind, items :
          /\ kind \in {"entity", "artifact", "event", "receipt"} /\ items = ListOf(cluster["home"], kind, options)
          /\ items \in Seq(StoreRecord) /\ backup'.items = backup.items \o items
    BY <1>2, ReadingLists
  <2>2. UNCHANGED <<cluster, born, file>>
    BY <1>2, ReadingDoes
  <2>3. PICK k : k = cluster["home"]
    OBVIOUS
  <2>4. k \in Store /\ \A s \in Sources(k) : s <= born
    BY <1>0, <2>3 DEF Clusters, Known
  <2>5. Shows(items, k, kind, options) /\ \A i \in DOMAIN items : items[i].kind = kind
    BY <2>1, <2>3, <2>4, ListShows DEF AllKinds
  <2>6. \A i \in DOMAIN items : items[i].kind \in {"entity", "artifact"} => items[i].id <= born
    BY <2>4, <2>5 DEF Shows, ShowsSet, Sources
  <2>7. PICK p, r : p = backup.items /\ r = backup'.items
    OBVIOUS
  <2>8. p \in Seq(StoreRecord) /\ r = p \o items
    BY <2>1, <2>7, StepBackup
  <2>9. Joins(r, p, items)
    BY <2>1, <2>8, ConcatJoins
  <2>10. \A i \in DOMAIN p : p[i].kind \in {"entity", "artifact"} => p[i].id <= born
    BY <2>7 DEF Known
  <2>11. \A i \in DOMAIN r : r[i].kind \in {"entity", "artifact"} => r[i].id <= born
    BY <2>6, <2>9, <2>10 DEF Joins
  <2> QED
    BY <2>2, <2>7, <2>11 DEF Known
<1>3. CASE BackupContents
  <2>1. UNCHANGED <<cluster, born>> /\ backup' = NoBackup
    BY <1>3, LeavesOutside, ContentsRead
  <2>2. DOMAIN backup'.items = {}
    BY <2>1 DEF NoBackup
  <2>3. CASE UNCHANGED file
    BY <2>1, <2>2, <2>3 DEF Known
  <2>4. CASE ~ UNCHANGED file
    <3>1. PICK filled : Fills(filled) /\ file'.items = FileOf(filled)
      BY <1>3, <2>4, ContentsRead
    <3>2. PICK F : F = FileOf(filled)
      OBVIOUS
    <3>3. \A i \in DOMAIN F : \/ i \in DOMAIN filled /\ F[i] = filled[i]
                              \/ F[i].kind \in {"index", "command", "staging"}
      BY <3>1, <3>2, FileParts
    <3>4. \A i \in DOMAIN filled : filled[i].kind \in {"entity", "artifact"} => filled[i].id <= born
      BY <3>1 DEF Fills, Known
    <3>5. \A i \in DOMAIN F : F[i].kind \in {"entity", "artifact"} => F[i].id <= born
      BY <3>3, <3>4
    <3> QED
      BY <2>1, <2>2, <3>1, <3>2, <3>5 DEF Known
  <2> QED
    BY <2>3, <2>4
<1>4. CASE RestoreStep
  <2>1. UNCHANGED <<born, backup, file>> /\ restore.step = "running"
    BY <1>4, RestoreBrings DEF OthersStay
  <2>2. PICK new \in Store : Arrives(new)
    BY <1>4, RestoreDoes
  <2>3. /\ Current \in Record /\ Target \in Store /\ restore.into \in Clusters
        /\ restore.at \in DOMAIN file.items
    BY <2>1, Running
  <2>4. \A s \in Sources(Brought(Target, Current)) :
           s \in Sources(Target) \/ (Current.kind \in {"entity", "artifact"} /\ s = Current.id)
    BY <2>3, BroughtSources
  <2>5. \A s \in Sources(Brought(Target, Current)) : s <= born
    BY <2>3, <2>4 DEF Known, Target, Current
  <2>6. \A m \in Clusters : cluster'[m] = cluster[m] \/ cluster'[m] = new
    BY <1>0, <2>2, <2>3 DEF Arrives
  <2>7. Sources(new) = Sources(Brought(Target, Current))
    BY <2>2, AlikeSources DEF Arrives
  <2> QED
    BY <2>1, <2>5, <2>6, <2>7 DEF Known
<1>5. CASE AlterFile
  <2>1. UNCHANGED <<cluster, born, backup>> /\ DOMAIN file'.items = DOMAIN file.items
        /\ \A i \in DOMAIN file.items :
              file'.items[i].kind = file.items[i].kind /\ file'.items[i].id = file.items[i].id
    BY <1>5, AlterDoes, LeavesOutside
  <2> QED
    BY <2>1 DEF Known
<1>6. CASE \E n \in Clusters, a \in Runs : ChangeBlob(n, a)
  <2>1. PICK n \in Clusters, a \in Runs : ChangeBlob(n, a)
    BY <1>6
  <2>2. PICK new : Turns(n, new) /\ Decays(cluster[n], a, new)
    BY <2>1, ChangeBlobDoes
  <2>3. Disturbs(n) /\ UNCHANGED <<born, file>>
    BY <2>1, ChangeBlobDoes
  <2>4. backup'.items = backup.items
    BY <2>3, DisturbsTyped
  <2>5. Sources(new) = Sources(cluster[n])
    BY <2>2 DEF Decays, Sources
  <2>6. \A m \in Clusters : Sources(cluster'[m]) = Sources(cluster[m])
    BY <2>2, <2>5, TurnsTyped
  <2> QED
    BY <2>3, <2>4, <2>6 DEF Known
<1>7. CASE UNCHANGED vars \/ CrashRestore \/ \E n \in Clusters : StartRestore(n)
  <2>1. UNCHANGED <<cluster, born, backup, file>>
    BY <1>7, LeavesOutside DEF vars
  <2> QED
    BY <2>1 DEF Known
<1> QED
  BY <1>1, <1>2, <1>3, <1>4, <1>5, <1>6, <1>7, NextIsSteps DEF NextSteps

(* What a restore refuses of a store k: what is there and differs, and what *)
(* is not there and has lost its hash.                                     *)
Refusal(k, x) ==
    CASE x.kind = "entity" -> x.id \in Entities(k) /\ Latest(k, x.id) # [n |-> x.n, by |-> x.by]
      [] x.kind = "artifact" -> IF x.id \in Artifacts(k) THEN k.artifacts[x.id].filename # x.filename
                                                         ELSE x.blob # "whole"
      [] x.kind = "event" -> IF Named(k.events, x.id) # {} THEN Find(k.events, x.id)[1] # EventOf(x)
                                                           ELSE ~ x.whole
      [] x.kind = "receipt" -> IF Named(k.receipts, x.id) # {} THEN Find(k.receipts, x.id)[1] # ReceiptOf(x)
                                                               ELSE ~ x.whole
      [] x.kind = "staging" -> ~ x.whole
      [] OTHER -> FALSE

LEMMA ErrorsAre ==
  ASSUME Typed, InOrderOfUse, restore.step = "running"
  PROVE  /\ Skips \/ (\E k : Writes(k)) => restore'.errors = restore.errors
         /\ (\E index, unindexed : Reindexes(index, unindexed)) => restore'.errors = restore.errors
         /\ Refuses => restore'.errors = restore.errors \cup {restore.at}
<1>1. restore \in Restore
  BY Running
<1>2. Advanced.errors = restore.errors /\ [Advanced EXCEPT !.errors = @ \cup {restore.at}].errors =
                                              restore.errors \cup {restore.at}
  BY <1>1 DEF Advanced, Restore
<1>3. Skips \/ (\E k : Writes(k)) => restore' = Advanced
  BY DEF Skips, Writes
<1>4. Refuses => restore' = [Advanced EXCEPT !.errors = @ \cup {restore.at}]
  BY DEF Refuses
<1>5. \A index, unindexed : Reindexes(index, unindexed) => restore'.errors = restore.errors
  <2> SUFFICES ASSUME NEW index, NEW unindexed, Reindexes(index, unindexed) PROVE restore'.errors = restore.errors
    OBVIOUS
  <2>1. restore' = [Advanced EXCEPT !.unindexed = unindexed]
    BY DEF Reindexes
  <2> QED
    BY <1>1, <2>1 DEF Advanced, Restore
<1> QED
  BY <1>2, <1>3, <1>4, <1>5

LEMMA RestoreRefuses ==
  ASSUME Typed, InOrderOfUse, RestoreStep
  PROVE  restore'.errors = IF Refusal(Target, Current) THEN restore.errors \cup {restore.at} ELSE restore.errors
<1>0. restore.step = "running"
  BY RestoreBrings
<1>1. PICK k, x : k = Target /\ x = Current
  OBVIOUS
<1>2. k \in Store /\ x \in Record
  BY <1>0, <1>1, Running
<1>3. /\ Skips \/ (\E l : Writes(l)) => restore'.errors = restore.errors
      /\ (\E index, unindexed : Reindexes(index, unindexed)) => restore'.errors = restore.errors
      /\ Refuses => restore'.errors = restore.errors \cup {restore.at}
  BY <1>0, ErrorsAre
<1> DEFINE Done == (Refusal(k, x) /\ Refuses) \/ (~ Refusal(k, x) /\ (Skips \/ \E l : Writes(l)))
<1>4. ASSUME RestoreEntity PROVE Done
  <2>1. PICK incoming, exists, same : /\ incoming = [n |-> x.n, by |-> x.by] /\ exists = (x.id \in Entities(k))
                                      /\ same = (Latest(k, x.id) = incoming)
    OBVIOUS
  <2>2. x.kind = "entity"
    BY <1>1, <1>4 DEF RestoreEntity, Handles
  <2>3. Refusal(k, x) <=> x.id \in Entities(k) /\ Latest(k, x.id) # [n |-> x.n, by |-> x.by]
    BY <2>2 DEF Refusal
  <2>4. \/ x.id \in Entities(k) /\ Latest(k, x.id) = [n |-> x.n, by |-> x.by] /\ Skips
        \/ x.id \in Entities(k) /\ Latest(k, x.id) # [n |-> x.n, by |-> x.by] /\ Refuses
        \/ x.id \notin Entities(k) /\ \E l : Writes(l)
    BY <1>1, <1>4 DEF RestoreEntity, assertContentMatch
  <2> QED
    BY <2>3, <2>4
<1>5. ASSUME RestoreArtifact PROVE Done
  <2>2. x.kind = "artifact"
    BY <1>1, <1>5 DEF RestoreArtifact, Handles
  <2>3. Refusal(k, x) <=> IF x.id \in Artifacts(k) THEN k.artifacts[x.id].filename # x.filename ELSE x.blob # "whole"
    BY <2>2 DEF Refusal
  <2>4. \/ x.id \in Artifacts(k) /\ k.artifacts[x.id].filename = x.filename /\ Skips
        \/ x.id \in Artifacts(k) /\ k.artifacts[x.id].filename # x.filename /\ Refuses
        \/ x.id \notin Artifacts(k) /\ x.blob # "whole" /\ Refuses
        \/ x.id \notin Artifacts(k) /\ x.blob = "whole" /\ \E l : Writes(l)
    BY <1>1, <1>5 DEF RestoreArtifact, assertContentMatch
  <2> QED
    BY <2>3, <2>4
<1>6. ASSUME NEW S, NEW log \in Seq(S), NEW record, NEW l, RestoreLog(log, record, l)
      PROVE  \/ Named(log, record.id) # {} /\ Find(log, record.id)[1] = record /\ Skips
             \/ Named(log, record.id) # {} /\ Find(log, record.id)[1] # record /\ Refuses
             \/ Named(log, record.id) = {} /\ ~ record.whole /\ Refuses
             \/ Named(log, record.id) = {} /\ record.whole /\ Writes(l)
  <2>1. Find(log, record.id) = <<>> <=> Named(log, record.id) = {}
    BY <1>6, FindsNamed
  <2> QED
    BY <1>6, <2>1 DEF RestoreLog, assertContentMatch, reconcileImportedIntegrity
<1>7. ASSUME RestoreEvent PROVE Done
  <2>1. PICK r, l : r = EventOf(x) /\ l = [k EXCEPT !.events = Append(@, EventOf(x))]
    OBVIOUS
  <2>2. RestoreLog(k.events, r, l) /\ x.kind = "event"
    BY <1>1, <1>7, <2>1 DEF RestoreEvent, Handles
  <2>3. r.id = x.id /\ r.whole = x.whole /\ k.events \in Seq(Event)
    BY <1>2, <2>1, StoreFields DEF EventOf
  <2>4. Refusal(k, x) <=> IF Named(k.events, x.id) # {} THEN Find(k.events, x.id)[1] # r ELSE ~ x.whole
    BY <2>1, <2>2 DEF Refusal
  <2> QED
    BY <1>6, <2>2, <2>3, <2>4
<1>8. ASSUME RestoreReceipt PROVE Done
  <2>1. PICK r, l : r = ReceiptOf(x) /\ l = [k EXCEPT !.receipts = Append(@, ReceiptOf(x))]
    OBVIOUS
  <2>2. RestoreLog(k.receipts, r, l) /\ x.kind = "receipt"
    BY <1>1, <1>8, <2>1 DEF RestoreReceipt, Handles
  <2>3. r.id = x.id /\ r.whole = x.whole /\ k.receipts \in Seq(Receipt)
    BY <1>2, <2>1, StoreFields DEF ReceiptOf
  <2>4. Refusal(k, x) <=> IF Named(k.receipts, x.id) # {} THEN Find(k.receipts, x.id)[1] # r ELSE ~ x.whole
    BY <2>1, <2>2 DEF Refusal
  <2> QED
    BY <1>6, <2>2, <2>3, <2>4
<1>i. ASSUME RestoreIndex PROVE ~ Refusal(k, x) /\ restore'.errors = restore.errors
  <2>1. x.kind = "index" /\ \E index, unindexed : Reindexes(index, unindexed)
    BY <1>1, <1>i DEF RestoreIndex, Handles
  <2> QED
    BY <1>3, <2>1 DEF Refusal
<1>9. ASSUME RestoreCommand PROVE Done
  <2>1. x.kind = "command" /\ \E l : Writes(l)
    BY <1>1, <1>9 DEF RestoreCommand, Handles
  <2>2. ~ Refusal(k, x)
    BY <2>1 DEF Refusal
  <2> QED
    BY <2>1, <2>2
<1>10. ASSUME RestoreStaging PROVE Done
  <2>1. x.kind = "staging" /\ ((~ x.whole /\ Refuses) \/ (x.whole /\ \E l : Writes(l)))
    BY <1>1, <1>10 DEF RestoreStaging, Handles
  <2>2. Refusal(k, x) <=> ~ x.whole
    BY <2>1 DEF Refusal
  <2> QED
    BY <2>1, <2>2
<1>11. Done \/ (~ Refusal(k, x) /\ restore'.errors = restore.errors)
  BY <1>4, <1>5, <1>7, <1>8, <1>9, <1>10, <1>i DEF RestoreStep
<1> QED
  BY <1>1, <1>3, <1>11

(* No step takes from a store what it holds of a record.                   *)
Keeps(k, new) ==
    /\ \A e \in Runs : Range(k.canonical[e]) \subseteq Range(new.canonical[e])
    /\ \A a \in Runs : k.artifacts[a] # NoArtifact =>
          new.artifacts[a] # NoArtifact /\ new.artifacts[a].filename = k.artifacts[a].filename
    /\ Range(k.events) \subseteq Range(new.events)
    /\ Range(k.receipts) \subseteq Range(new.receipts)

LEMMA HeldStays ==
  ASSUME NEW k, NEW new, Keeps(k, new), NEW x \in Record, Held(k, x)
  PROVE  Held(new, x)
<1>1. x.kind \in {"entity", "artifact"} => x.id \in Runs
  BY KindOfRecord DEF EntityRecord, ArtifactRecord
<1>2. CASE x.kind = "entity"
  BY <1>1, <1>2 DEF Held, Holds, Keeps
<1>3. CASE x.kind = "artifact"
  BY <1>1, <1>3 DEF Held, Holds, Keeps
<1>4. CASE x.kind = "event"
  BY <1>4 DEF Held, Holds, Keeps
<1>5. CASE x.kind = "receipt"
  BY <1>5 DEF Held, Holds, Keeps
<1>6. CASE x.kind \in {"index", "command", "staging"}
  BY <1>6 DEF Held, Holds
<1> QED
  BY <1>2, <1>3, <1>4, <1>5, <1>6, KindOfRecord

LEMMA AlikeHold ==
  ASSUME NEW k, NEW l, Alike(k, l)
  PROVE  /\ \A x : Held(l, x) => Held(k, x)
         /\ \A m : Keeps(m, l) => Keeps(m, k)
         /\ \A x : Refusal(k, x) <=> Refusal(l, x)
<1>1. Entities(k) = Entities(l) /\ Artifacts(k) = Artifacts(l)
  BY AlikeSources
<1>2. \A e : Latest(k, e) = Latest(l, e)
  BY DEF Alike, Latest
<1>3. \A x : Refusal(k, x) <=> Refusal(l, x)
  BY <1>1, <1>2 DEF Refusal, Alike
<1> QED
  BY <1>3 DEF Held, Holds, Keeps, Alike

LEMMA AppendKeeps ==
  ASSUME NEW S, NEW q \in Seq(S), NEW r \in S
  PROVE  Range(q) \subseteq Range(Append(q, r)) /\ r \in Range(Append(q, r))
<1>1. PICK p : p = Append(q, r)
  OBVIOUS
<1>2. /\ DOMAIN q = 1..Len(q) /\ Len(q) \in Nat /\ DOMAIN p = 1..(Len(q) + 1)
      /\ \A i \in 1..Len(q) : p[i] = q[i]
      /\ p[Len(q) + 1] = r
  BY <1>1
<1>3. \A i \in DOMAIN q : i \in DOMAIN p /\ p[i] = q[i]
  BY <1>2
<1>4. Len(q) + 1 \in DOMAIN p
  BY <1>2
<1> QED
  BY <1>1, <1>2, <1>3, <1>4 DEF Range

LEMMA NothingInNothing == Range(<<>>) = {}
<1>1. DOMAIN <<>> = {}
  OBVIOUS
<1> QED
  BY <1>1 DEF Range

LEMMA BroughtKeeps ==
  ASSUME NEW k \in Store, NEW x \in Record, Brought(k, x) \in Store
  PROVE  Keeps(k, Brought(k, x))
<1>0. /\ k.canonical \in [Runs -> Seq(Version)] /\ k.artifacts \in [Runs -> Metadata]
      /\ k.events \in Seq(Event) /\ k.receipts \in Seq(Receipt)
  BY StoreFields
<1>1. PICK new : new = Brought(k, x)
  OBVIOUS
<1>s. new \in Store
  BY <1>1
<1>2. Keeps(k, k)
  BY DEF Keeps
<1>3. CASE x.kind = "entity" /\ new # k
  <2>1. k.canonical[x.id] = <<>> /\ new = [k EXCEPT !.canonical[x.id] = Sole(x)]
    BY <1>1, <1>3 DEF Brought
  <2>2. /\ new.artifacts = k.artifacts /\ new.events = k.events /\ new.receipts = k.receipts
        /\ \A e \in Runs : e # x.id => new.canonical[e] = k.canonical[e]
    BY <1>0, <2>1 DEF Store
  <2>3. \A e \in Runs : Range(k.canonical[e]) \subseteq Range(new.canonical[e])
    BY <2>1, <2>2, NothingInNothing
  <2> QED
    BY <1>1, <2>2, <2>3 DEF Keeps
<1>4. CASE x.kind = "artifact" /\ new # k
  <2>0. k.artifacts[x.id] = NoArtifact
    BY <1>1, <1>4 DEF Brought
  <2>1. new = [k EXCEPT !.artifacts[x.id] = [filename |-> x.filename, blob |-> "whole"]]
    BY <1>1, <1>4 DEF Brought
  <2>2. /\ new.canonical = k.canonical /\ new.events = k.events /\ new.receipts = k.receipts
        /\ \A e \in Runs : e # x.id => new.artifacts[e] = k.artifacts[e]
    BY <1>0, <2>1 DEF Store
  <2> QED
    BY <1>1, <2>0, <2>2 DEF Keeps
<1>5. CASE x.kind = "event" /\ new # k
  <2>1. new = [k EXCEPT !.events = Append(k.events, EventOf(x))]
    BY <1>1, <1>5 DEF Brought
  <2>2. EventOf(x) \in Event
    BY <1>5, KindOfRecord DEF EventRecord, Event, EventOf
  <2>3. new.canonical = k.canonical /\ new.artifacts = k.artifacts /\ new.receipts = k.receipts
        /\ new.events = Append(k.events, EventOf(x))
    BY <2>1 DEF Store
  <2>4. Range(k.events) \subseteq Range(new.events)
    BY <1>0, <2>2, <2>3, AppendKeeps
  <2> QED
    BY <1>1, <2>3, <2>4 DEF Keeps
<1>6. CASE x.kind = "receipt" /\ new # k
  <2>1. new = [k EXCEPT !.receipts = Append(k.receipts, ReceiptOf(x))]
    BY <1>1, <1>6 DEF Brought
  <2>2. ReceiptOf(x) \in Receipt
    BY <1>6, KindOfRecord DEF ReceiptRecord, Receipt, ReceiptOf
  <2>3. new.canonical = k.canonical /\ new.artifacts = k.artifacts /\ new.events = k.events
        /\ new.receipts = Append(k.receipts, ReceiptOf(x))
    BY <2>1 DEF Store
  <2>4. Range(k.receipts) \subseteq Range(new.receipts)
    BY <1>0, <2>2, <2>3, AppendKeeps
  <2> QED
    BY <1>1, <2>3, <2>4 DEF Keeps
<1>7. CASE x.kind \in {"index", "command", "staging"}
  <2>1. /\ new.canonical = k.canonical /\ new.artifacts = k.artifacts /\ new.events = k.events
        /\ new.receipts = k.receipts
    BY <1>1, <1>7 DEF Brought, Store
  <2> QED
    BY <1>1, <2>1 DEF Keeps
<1> QED
  BY <1>1, <1>2, <1>3, <1>4, <1>5, <1>6, <1>7, KindOfRecord

LEMMA NotRefusedIsHeld ==
  ASSUME NEW k \in Store, NEW x \in Record, Brought(k, x) \in Store, ~ Refusal(k, x)
  PROVE  Held(Brought(k, x), x)
<1>0. /\ k.canonical \in [Runs -> Seq(Version)] /\ k.artifacts \in [Runs -> Metadata]
      /\ k.events \in Seq(Event) /\ k.receipts \in Seq(Receipt)
  BY StoreFields
<1>1. PICK new : new = Brought(k, x)
  OBVIOUS
<1>2. CASE x.kind = "entity"
  <2>1. x \in EntityRecord /\ x.id \in Runs
    BY <1>2, KindOfRecord DEF EntityRecord
  <2>2. PICK v : v = [n |-> x.n, by |-> x.by]
    OBVIOUS
  <2>3. CASE x.id \in Entities(k)
    <3>1. Latest(k, x.id) = v /\ k.canonical[x.id] # <<>>
      BY <1>2, <2>2, <2>3 DEF Refusal, Entities
    <3>2. new = k
      BY <1>1, <1>2, <3>1 DEF Brought
    <3>3. \A q \in Seq(Version) : q # <<>> => Len(q) \in DOMAIN q
      OBVIOUS
    <3>4. v \in Range(k.canonical[x.id])
      BY <1>0, <2>1, <3>1, <3>3 DEF Latest, Range
    <3> QED
      BY <1>1, <1>2, <2>2, <3>2, <3>4 DEF Held, Holds
  <2>4. CASE x.id \notin Entities(k)
    <3>1. k.canonical[x.id] = <<>>
      BY <2>1, <2>4 DEF Entities
    <3>2. new = [k EXCEPT !.canonical[x.id] = Sole(x)]
      BY <1>1, <1>2, <3>1 DEF Brought
    <3>3. new.canonical[x.id] = <<v>>
      BY <1>0, <2>1, <2>2, <3>2 DEF Sole, Store
    <3>4. \A y : y \in Range(<<y>>)
      <4>1. \A y : 1 \in DOMAIN <<y>> /\ <<y>>[1] = y
        OBVIOUS
      <4> QED
        BY <4>1 DEF Range
    <3> QED
      BY <1>1, <1>2, <2>2, <3>3, <3>4 DEF Held, Holds
  <2> QED
    BY <2>3, <2>4
<1>3. CASE x.kind = "artifact"
  <2>1. x.id \in Runs
    BY <1>3, KindOfRecord DEF ArtifactRecord
  <2>2. CASE x.id \in Artifacts(k)
    <3>1. k.artifacts[x.id].filename = x.filename /\ k.artifacts[x.id] # NoArtifact
      BY <1>3, <2>2 DEF Refusal, Artifacts
    <3>2. new = k
      BY <1>1, <1>3, <3>1 DEF Brought
    <3> QED
      BY <1>1, <1>3, <3>1, <3>2 DEF Held, Holds
  <2>3. CASE x.id \notin Artifacts(k)
    <3>1. x.blob = "whole" /\ k.artifacts[x.id] = NoArtifact
      BY <1>3, <2>1, <2>3 DEF Refusal, Artifacts
    <3>2. PICK m : m = [filename |-> x.filename, blob |-> "whole"]
      OBVIOUS
    <3>3. new = [k EXCEPT !.artifacts[x.id] = m]
      BY <1>1, <1>3, <3>1, <3>2 DEF Brought
    <3>4. new.artifacts[x.id] = m
      BY <1>0, <2>1, <3>3 DEF Store
    <3>5. m # NoArtifact /\ m.filename = x.filename
      BY <3>2 DEF NoArtifact
    <3> QED
      BY <1>1, <1>3, <3>4, <3>5 DEF Held, Holds
  <2> QED
    BY <2>2, <2>3
<1>4. ASSUME NEW S, NEW log \in Seq(S), NEW id, Named(log, id) # {}
      PROVE  Find(log, id)[1] \in Range(log)
  <2>1. PICK K, p : K = Named(log, id) /\ p = Find(log, id)
    OBVIOUS
  <2>2. K \in SUBSET DOMAIN log /\ p = Pick(log, K)
    BY <2>1 DEF Named, Find
  <2>3. p \in Seq(S) /\ \A n \in DOMAIN p : Place(K, n) \in K /\ p[n] = log[Place(K, n)]
    BY <1>4, <2>2, PickPlaces
  <2>4. p # <<>>
    BY <1>4, <2>1, FindsNamed
  <2>5. 1 \in DOMAIN p
    BY <2>3, <2>4
  <2> QED
    BY <2>1, <2>2, <2>3, <2>5 DEF Range
<1>5. CASE x.kind = "event"
  <2>1. PICK r : r = EventOf(x)
    OBVIOUS
  <2>2. r \in Event
    BY <1>5, <2>1, KindOfRecord DEF EventRecord, Event, EventOf
  <2>3. CASE Named(k.events, x.id) # {}
    <3>1. Find(k.events, x.id)[1] = r
      BY <1>5, <2>1, <2>3 DEF Refusal
    <3>2. new = k
      BY <1>1, <1>5, <2>3 DEF Brought
    <3>3. r \in Range(k.events)
      BY <1>0, <1>4, <2>3, <3>1
    <3> QED
      BY <1>1, <1>5, <2>1, <3>2, <3>3 DEF Held, Holds
  <2>4. CASE Named(k.events, x.id) = {}
    <3>1. x.whole
      BY <1>5, <2>4 DEF Refusal
    <3>2. new.events = Append(k.events, r)
      BY <1>1, <1>5, <2>1, <2>4, <3>1 DEF Brought, Store
    <3>3. r \in Range(new.events)
      BY <1>0, <2>2, <3>2, AppendKeeps
    <3> QED
      BY <1>1, <1>5, <2>1, <3>3 DEF Held, Holds
  <2> QED
    BY <2>3, <2>4
<1>6. CASE x.kind = "receipt"
  <2>1. PICK r : r = ReceiptOf(x)
    OBVIOUS
  <2>2. r \in Receipt
    BY <1>6, <2>1, KindOfRecord DEF ReceiptRecord, Receipt, ReceiptOf
  <2>3. CASE Named(k.receipts, x.id) # {}
    <3>1. Find(k.receipts, x.id)[1] = r
      BY <1>6, <2>1, <2>3 DEF Refusal
    <3>2. new = k
      BY <1>1, <1>6, <2>3 DEF Brought
    <3>3. r \in Range(k.receipts)
      BY <1>0, <1>4, <2>3, <3>1
    <3> QED
      BY <1>1, <1>6, <2>1, <3>2, <3>3 DEF Held, Holds
  <2>4. CASE Named(k.receipts, x.id) = {}
    <3>1. x.whole
      BY <1>6, <2>4 DEF Refusal
    <3>2. new.receipts = Append(k.receipts, r)
      BY <1>1, <1>6, <2>1, <2>4, <3>1 DEF Brought, Store
    <3>3. r \in Range(new.receipts)
      BY <1>0, <2>2, <3>2, AppendKeeps
    <3> QED
      BY <1>1, <1>6, <2>1, <3>3 DEF Held, Holds
  <2> QED
    BY <2>3, <2>4
<1>7. CASE x.kind \in {"index", "command", "staging"}
  BY <1>7 DEF Held, Holds, Refusal
<1> QED
  BY <1>2, <1>3, <1>5, <1>6, <1>7, KindOfRecord

LEMMA DecaysKeep ==
  ASSUME NEW k \in Store, NEW a \in Runs, NEW new, Decays(k, a, new)
  PROVE  Keeps(k, new)
<1>1. PICK m \in Metadata : /\ m.filename = k.artifacts[a].filename /\ m.blob \in {"damaged", "gone"}
                            /\ new.artifacts = [k.artifacts EXCEPT ![a] = m]
  BY DEF Decays
<1>2. m # NoArtifact
  BY <1>1 DEF NoArtifact
<1>3. \A b \in Runs : new.artifacts[b] = IF b = a THEN m ELSE k.artifacts[b]
  BY <1>1, StoreFields
<1>4. new.canonical = k.canonical /\ new.events = k.events /\ new.receipts = k.receipts
  BY DEF Decays
<1> QED
  BY <1>1, <1>2, <1>3, <1>4 DEF Keeps

LEMMA WritesKeep ==
  ASSUME Typed, Known, NEW n \in Clusters, NEW c \in Commands, NEW new, KernelWrites(n, c, new)
  PROVE  Keeps(cluster[n], new)
<1>1. PICK k : k = cluster[n]
  OBVIOUS
<1>2. k \in Store
  BY <1>1 DEF Typed
<1>3. /\ k.canonical \in [Runs -> Seq(Version)] /\ k.artifacts \in [Runs -> Metadata]
      /\ k.events \in Seq(Event) /\ k.receipts \in Seq(Receipt)
  BY <1>2, StoreFields
<1>f. commits[c].step \in Steps => commits[c].run \in Nat /\ commits[c].subject \in Runs
  BY CommitFields
<1>m. MaxRuns \in Nat /\ LastId(k.events) \in Nat /\ LastId(k.receipts) \in Nat /\ Runs \subseteq Nat
  BY <1>3, LastIdTyped, Naturals
<1>4. CASE Proposing(n, c, new) \/ Saving(n, c, new)
  <2>1. new.canonical = k.canonical /\ new.artifacts = k.artifacts /\ new.events = k.events /\ new.receipts = k.receipts
    BY <1>1, <1>2, <1>4 DEF Proposing, Saving, Store
  <2> QED
    BY <1>1, <2>1 DEF Keeps
<1>5. ASSUME NEW id \in Nat, NEW action \in Actions, NEW subject \in Runs,
             new = [k EXCEPT !.events = append(k.events, id, action, subject)]
      PROVE  Keeps(k, new)
  <2>1. PICK r : r = [id |-> id, action |-> action, subject |-> subject, prev |-> LastId(k.events), whole |-> TRUE]
    OBVIOUS
  <2>2. r \in Event
    BY <1>m, <1>5, <2>1 DEF Event
  <2>3. /\ new.canonical = k.canonical /\ new.artifacts = k.artifacts /\ new.receipts = k.receipts
        /\ new.events = Append(k.events, r)
    BY <1>2, <1>5, <2>1 DEF Store, append
  <2>4. Range(k.events) \subseteq Range(new.events)
    BY <1>3, <2>2, <2>3, AppendKeeps
  <2> QED
    BY <2>3, <2>4 DEF Keeps
<1>6. CASE Recording(n, c, new)
  BY <1>1, <1>5, <1>6, <1>f DEF Recording, Going, Steps, Actions
<1>7. CASE Orphaning(n, c, new)
  <2>1. commits[c].run \in Nat /\ commits[c].subject \in Runs
    BY <1>7, <1>f DEF Orphaning, Going, Steps
  <2>2. MaxRuns + commits[c].run \in Nat
    BY <1>m, <2>1
  <2>3. Keeps(k, k)
    BY DEF Keeps
  <2>4. "mutation_orphaned" \in Actions
    BY DEF Actions
  <2>5. \/ new = k
        \/ new = [k EXCEPT !.events = append(k.events, MaxRuns + commits[c].run, "mutation_orphaned", commits[c].subject)]
    BY <1>1, <1>7 DEF Orphaning
  <2> QED
    BY <1>1, <1>5, <2>1, <2>2, <2>3, <2>4, <2>5
<1>8. CASE Acknowledging(n, c, new)
  <2>1. commits[c].run \in Nat
    BY <1>8, <1>f DEF Acknowledging, Going, Steps
  <2>2. PICK r : r = [id |-> commits[c].run, event |-> commits[c].run, cmd |-> c,
                      prev |-> LastId(k.receipts), whole |-> TRUE]
    OBVIOUS
  <2>3. r \in Receipt
    BY <1>m, <2>1, <2>2 DEF Receipt
  <2>4. /\ new.canonical = k.canonical /\ new.artifacts = k.artifacts /\ new.events = k.events
        /\ new.receipts = Append(k.receipts, r)
    BY <1>1, <1>2, <1>8, <2>2 DEF Acknowledging, Store, appendReceipt
  <2>5. Range(k.receipts) \subseteq Range(new.receipts)
    BY <1>3, <2>3, <2>4, AppendKeeps
  <2> QED
    BY <1>1, <2>4, <2>5 DEF Keeps
<1>9. CASE Storing(n, c, new)
  <2>1. born + 1 \in Runs /\ born + 1 \notin Sources(k)
    <3>1. born \in Nat /\ \A s \in Sources(k) : s \in Nat /\ s <= born
      BY <1>1, <1>m DEF Typed, Known, Sources, Entities, Artifacts
    <3> QED
      BY <1>9, <3>1 DEF Storing
  <2>2. PICK subject \in Subjects(k, c, born + 1) : new = Stored(k, c, born + 1, subject)
    BY <1>1, <1>9 DEF Storing
  <2>3. PICK run : run = born + 1
    OBVIOUS
  <2>4. Adds(k, run, subject, new)
    BY <1>2, <2>1, <2>2, <2>3, StoredSources
  <2>5. run \in Runs /\ k.canonical[run] = <<>> /\ k.artifacts[run] = NoArtifact
    BY <2>1, <2>3 DEF Sources, Entities, Artifacts
  <2>6. new.events = k.events /\ new.receipts = k.receipts
    BY <2>4 DEF Adds
  <2>7. CASE Creates(k, run, subject, new)
    <3>1. new.artifacts = k.artifacts /\ \A e \in Runs : e # run => new.canonical[e] = k.canonical[e]
      BY <1>3, <2>7 DEF Creates
    <3>2. \A e \in Runs : Range(k.canonical[e]) \subseteq Range(new.canonical[e])
      BY <2>5, <3>1, NothingInNothing
    <3> QED
      BY <1>1, <2>6, <3>1, <3>2 DEF Keeps
  <2>8. CASE Updates(k, run, subject, new)
    <3>1. PICK v : v = [n |-> Latest(k, subject).n + 1, by |-> run]
      OBVIOUS
    <3>2. subject \in Runs /\ Latest(k, subject) \in Version
      BY <1>2, <2>8, LatestTyped DEF Updates
    <3>3. v \in Version
      BY <1>m, <2>5, <3>1, <3>2 DEF Version
    <3>4. new.artifacts = k.artifacts /\ new.canonical = [k.canonical EXCEPT ![subject] = Append(k.canonical[subject], v)]
      BY <2>8, <3>1 DEF Updates
    <3>5. \A e \in Runs : new.canonical[e] = IF e = subject THEN Append(k.canonical[e], v) ELSE k.canonical[e]
      BY <1>3, <3>4
    <3>6. \A e \in Runs : Range(k.canonical[e]) \subseteq Range(Append(k.canonical[e], v))
      BY <1>3, <3>3, AppendKeeps
    <3>7. \A e \in Runs : Range(k.canonical[e]) \subseteq Range(new.canonical[e])
      BY <3>5, <3>6
    <3> QED
      BY <1>1, <2>6, <3>4, <3>7 DEF Keeps
  <2>9. CASE Ingests(k, run, subject, new)
    <3>1. new.canonical = k.canonical /\ \A a \in Runs : a # run => new.artifacts[a] = k.artifacts[a]
      BY <1>3, <2>9 DEF Ingests
    <3> QED
      BY <1>1, <2>5, <2>6, <3>1 DEF Keeps
  <2> QED
    BY <2>4, <2>7, <2>8, <2>9 DEF Adds
<1> QED
  BY <1>1, <1>4, <1>6, <1>7, <1>8, <1>9 DEF KernelWrites

LEMMA HandledStep == TypedInOrder /\ Known /\ Handled /\ [Next]_vars => Handled'
<1> SUFFICES ASSUME Typed, InOrderOfUse, Known, Handled, [Next]_vars PROVE Handled'
  BY DEF TypedInOrder
<1>0. cluster \in [Clusters -> Store] /\ NoRestore.step = "none"
  BY DEF Typed, NoRestore
<1>r. restore.step \in {"running", "done"} => restore \in Restore /\ restore.into \in Clusters
  BY <1>0 DEF Typed, Restore
<1>f. \A i \in DOMAIN file.items : file.items[i] \in Record
  BY FileTyped
<1>1. ASSUME NEW n \in Clusters, NEW new \in Store, Turns(n, new), Keeps(cluster[n], new), UNCHANGED <<file, restore>>
      PROVE  Handled'
  <2>1. SUFFICES ASSUME restore.step \in {"running", "done"}, NEW i \in DOMAIN file.items, i < restore.at,
                        i \notin restore.errors
                 PROVE  Held(cluster'[restore.into], file.items[i])
    BY <1>1 DEF Handled
  <2>2. Held(cluster[restore.into], file.items[i])
    BY <2>1 DEF Handled
  <2>3. cluster'[restore.into] = cluster[restore.into] \/ (restore.into = n /\ cluster'[restore.into] = new)
    BY <1>1, <1>r, <2>1, TurnsTyped
  <2> QED
    BY <1>1, <1>f, <2>2, <2>3, HeldStays
<1>2. CASE Kernel
  <2>1. PICK n \in Clusters, c \in Commands, new \in Store :
          Turns(n, new) /\ Disturbs(n) /\ KernelWrites(n, c, new)
    BY <1>2, KernelWritesSo
  <2>2. Keeps(cluster[n], new)
    BY <2>1, WritesKeep
  <2>3. UNCHANGED <<file, restore>>
    BY <1>2, KernelDoes
  <2> QED
    BY <1>1, <2>1, <2>2, <2>3
<1>3. CASE \E n \in Clusters, a \in Runs : ChangeBlob(n, a)
  <2>1. PICK n \in Clusters, a \in Runs : ChangeBlob(n, a)
    BY <1>3
  <2>2. PICK new \in Store : Turns(n, new) /\ Decays(cluster[n], a, new)
    BY <2>1, ChangeBlobDoes
  <2>3. Keeps(cluster[n], new) /\ UNCHANGED <<file, restore>>
    BY <1>0, <2>1, <2>2, ChangeBlobDoes, DecaysKeep
  <2> QED
    BY <1>1, <2>2, <2>3
<1>4. CASE UNCHANGED vars \/ Reading
  <2>1. UNCHANGED <<cluster, file, restore>>
    BY <1>4, ReadingDoes DEF vars
  <2> QED
    BY <2>1 DEF Handled, Held, Holds
<1>5. CASE CrashRestore \/ AlterFile
  <2>1. restore' = NoRestore
    BY <1>5, AlterDoes DEF CrashRestore
  <2> QED
    BY <1>0, <2>1 DEF Handled
<1>6. CASE \E n \in Clusters : StartRestore(n)
  <2>1. restore'.at = 1 /\ UNCHANGED file
    BY <1>6 DEF StartRestore
  <2>2. \A i \in DOMAIN file.items : ~ (i < 1)
    BY FileTyped
  <2> QED
    BY <2>1, <2>2 DEF Handled
<1>7. CASE BackupContents
  <2>1. backup # NoBackup /\ UNCHANGED restore
    BY <1>7, ContentsRead
  <2>2. restore = NoRestore
    BY <2>1 DEF InOrderOfUse
  <2> QED
    BY <1>0, <2>1, <2>2 DEF Handled
<1>8. CASE RestoreStep
  <2>1. UNCHANGED file /\ restore.step = "running"
    BY <1>8, RestoreBrings DEF OthersStay
  <2>2. PICK k, x, l, n : k = Target /\ x = Current /\ l = Brought(k, x) /\ n = restore.into
    OBVIOUS
  <2>p. PICK new \in Store : Arrives(new)
    BY <1>8, RestoreDoes
  <2>3. cluster' = [cluster EXCEPT ![n] = new] /\ Alike(new, l) /\ Moves
    BY <1>8, <2>2, <2>p, RestoreDoes DEF Arrives
  <2>4. /\ x \in Record /\ k \in Store /\ n \in Clusters /\ restore.at \in DOMAIN file.items /\ restore.at \in Nat
        /\ k = cluster[n] /\ x = file.items[restore.at]
    BY <2>1, <2>2, Running DEF Target, Current
  <2>l. l \in Store
    BY <2>2, <2>4, BroughtTyped
  <2>5. restore'.at = restore.at + 1 /\ restore'.into = n
    BY <2>1, <2>2, <2>3, Advances
  <2>6. restore'.errors = IF Refusal(k, x) THEN restore.errors \cup {restore.at} ELSE restore.errors
    BY <1>8, <2>2, RestoreRefuses
  <2>7. cluster'[n] = new
    BY <1>0, <2>3, <2>4
  <2>8. SUFFICES ASSUME NEW i \in DOMAIN file.items, i < restore.at + 1, i \notin restore'.errors
                 PROVE  Held(new, file.items[i])
    BY <2>1, <2>5, <2>7 DEF Handled
  <2>9. i \notin restore.errors /\ i \in Nat
    BY <2>6, <2>8, FileTyped
  <2>10. CASE i < restore.at
    <3>1. Held(k, file.items[i])
      BY <2>1, <2>2, <2>4, <2>9, <2>10 DEF Handled
    <3>2. Keeps(k, new)
      BY <2>2, <2>3, <2>4, <2>l, BroughtKeeps, AlikeHold
    <3> QED
      BY <1>f, <3>1, <3>2, HeldStays
  <2>11. CASE i = restore.at
    <3>1. ~ Refusal(k, x)
      BY <2>6, <2>8, <2>11
    <3>2. Held(new, x)
      BY <2>2, <2>3, <2>4, <2>l, <3>1, NotRefusedIsHeld, AlikeHold
    <3> QED
      BY <2>4, <2>11, <3>2
  <2> QED
    BY <2>4, <2>8, <2>9, <2>10, <2>11
<1> QED
  BY <1>2, <1>3, <1>4, <1>5, <1>6, <1>7, <1>8, NextIsSteps DEF NextSteps

LEMMA KnownHolds == Spec => []Known
<1>1. Init => Known
  <2> SUFFICES ASSUME Init PROVE Known
    OBVIOUS
  <2>1. /\ \A n \in Clusters : cluster[n] = Empty
        /\ DOMAIN backup.items = {} /\ DOMAIN file.items = {}
    BY DEF Init, NoBackup, NoFile
  <2>2. Sources(Empty) = {}
    BY DEF Sources, Entities, Artifacts, Empty
  <2> QED
    BY <2>1, <2>2 DEF Known
<1> QED
  BY <1>1, KnownStep, TypeCorrect, PTL DEF Spec

(* Nothing is swallowed: when a restore ends, into whatever cluster and     *)
(* beside whatever commits, each record of the file is in the store as the  *)
(* file has it or is among its errors.                                     *)
THEOREM NothingIsSwallowed == Spec => []RestoreIsComplete
<1>1. Init => Handled
  BY DEF Init, NoRestore, Handled
<1>2. TypedInOrder /\ Handled => RestoreIsComplete
  <2> SUFFICES ASSUME Typed, InOrderOfUse, Handled, restore.step = "done", NEW i \in DOMAIN file.items,
                      i \notin restore.errors
               PROVE  Holds(cluster[restore.into], file.items[i])
    BY DEF TypedInOrder, RestoreIsComplete
  <2>1. restore.at = Len(file.items) + 1
    BY DEF InOrderOfUse
  <2>2. i < restore.at
    BY <2>1, FileTyped
  <2> QED
    BY <2>2 DEF Handled, Held
<1> QED
  BY <1>1, <1>2, HandledStep, KnownHolds, TypeCorrect, PTL DEF Spec

(* Where restores alone wrote, a restore refuses what has lost its hash and *)
(* nothing else.                                                           *)
LEMMA FoundInLog ==
  ASSUME NEW S, NEW log \in Seq(S), NEW id, Named(log, id) # {}
  PROVE  \E j \in DOMAIN log : Find(log, id)[1] = log[j] /\ log[j].id = id
<1>1. PICK K, p : K = Named(log, id) /\ p = Find(log, id)
  OBVIOUS
<1>2. K \in SUBSET DOMAIN log /\ p = Pick(log, K)
  BY <1>1 DEF Named, Find
<1>3. p \in Seq(S) /\ \A n \in DOMAIN p : Place(K, n) \in K /\ p[n] = log[Place(K, n)]
  BY <1>2, PickPlaces
<1>4. p # <<>>
  BY <1>1, FindsNamed
<1>5. 1 \in DOMAIN p
  BY <1>3, <1>4
<1> QED
  BY <1>1, <1>3, <1>5 DEF Named

LEMMA RefusalIsBad ==
  ASSUME NEW items \in Seq(Record), Distinct(items), NEW m \in 0 .. Len(items), NEW at \in DOMAIN items, at <= m + 1
  PROVE  Refusal(Left(items, m), items[at]) <=> Bad(items[at])
<1>1. PICK k, x : k = Left(items, m) /\ x = items[at]
  OBVIOUS
<1>2. /\ k.canonical = LeftCanonical(items, m) /\ k.artifacts = LeftArtifacts(items, m)
      /\ k.events = LeftEvents(items, m) /\ k.receipts = LeftReceipts(items, m)
  BY <1>1, LeftParts
<1>3. /\ Len(items) \in Nat /\ DOMAIN items = 1..Len(items) /\ at \in Nat /\ m \in Nat /\ x \in Record
      /\ at \in 1..m \/ at = m + 1
  BY <1>1
<1>4. \A kind : \A i \in At(items, m, kind) : i \in DOMAIN items /\ items[i].kind = kind
  BY <1>3 DEF At
<1>5. x.kind = "entity" \/ x.kind = "artifact" => x.id \in Runs
  BY <1>3, KindOfRecord DEF EntityRecord, ArtifactRecord
<1>6. \A kind : x.kind = kind => (at \in At(items, m, kind) \/ \A i \in At(items, m, kind) : items[i].id # x.id)
  <2> TAKE kind
  <2> HAVE x.kind = kind
  <2>1. CASE at \in 1..m
    BY <1>1, <2>1 DEF At
  <2>2. CASE at = m + 1
    <3>1. m + 1 \in DOMAIN items /\ items[m + 1].kind = kind
      BY <1>1, <2>2
    <3> QED
      BY <1>1, <1>3, <2>2, <3>1, NewId
  <2> QED
    BY <1>3, <2>1, <2>2
<1>7. CASE x.kind = "entity"
  <2>1. CASE at \in At(items, m, "entity")
    <3>1. k.canonical[x.id] = Sole(x)
      BY <1>1, <1>2, <2>1, LeftSays
    <3>2. PICK v : v = [n |-> x.n, by |-> x.by]
      OBVIOUS
    <3>3. \A y : Len(<<y>>) = 1 /\ <<y>>[1] = y
      OBVIOUS
    <3>4. Latest(k, x.id) = v
      BY <3>1, <3>2, <3>3 DEF Latest, Sole
    <3> QED
      BY <1>1, <1>7, <3>2, <3>4 DEF Refusal, Bad
  <2>2. CASE \A i \in At(items, m, "entity") : items[i].id # x.id
    <3>1. k.canonical[x.id] = <<>>
      BY <1>2, <1>5, <1>7, <2>2, LeftSays
    <3>2. x.id \notin Entities(k)
      BY <3>1 DEF Entities
    <3> QED
      BY <1>1, <1>7, <3>2 DEF Refusal, Bad
  <2> QED
    BY <1>6, <1>7, <2>1, <2>2
<1>8. CASE x.kind = "artifact"
  <2>1. \/ k.artifacts[x.id] = Stands(x)
        \/ k.artifacts[x.id] = NoArtifact
    BY <1>1, <1>2, <1>5, <1>6, <1>8, LeftSays
  <2>2. x.blob # "whole" => k.artifacts[x.id] = NoArtifact
    BY <2>1 DEF Stands
  <2>3. k.artifacts[x.id] # NoArtifact => k.artifacts[x.id].filename = x.filename /\ x.blob = "whole"
    BY <2>1 DEF Stands
  <2>4. x.id \in Artifacts(k) <=> k.artifacts[x.id] # NoArtifact
    BY <1>5, <1>8 DEF Artifacts
  <2> QED
    BY <1>1, <1>8, <2>2, <2>3, <2>4 DEF Refusal, Bad
<1>9. CASE x.kind = "event"
  <2>1. k.events \in Seq(Event)
        /\ \A j \in DOMAIN k.events : \E i \in At(items, m, "event") : items[i].whole /\ k.events[j] = EventOf(items[i])
    BY <1>2, LeftLogs
  <2>2. ASSUME Named(k.events, x.id) # {} PROVE Find(k.events, x.id)[1] = EventOf(x) /\ x.whole
    <3>1. PICK j \in DOMAIN k.events : Find(k.events, x.id)[1] = k.events[j] /\ k.events[j].id = x.id
      BY <2>1, <2>2, FoundInLog
    <3>2. PICK i \in At(items, m, "event") : items[i].whole /\ k.events[j] = EventOf(items[i])
      BY <2>1
    <3>3. i \in DOMAIN items /\ items[i].kind = "event" /\ items[i].id = x.id
      BY <1>4, <3>1, <3>2 DEF EventOf
    <3>4. i = at
      BY <1>1, <1>9, <3>3 DEF Distinct
    <3> QED
      BY <1>1, <3>1, <3>2, <3>4
  <2>3. Refusal(k, x) <=> IF Named(k.events, x.id) # {} THEN Find(k.events, x.id)[1] # EventOf(x) ELSE ~ x.whole
    BY <1>9 DEF Refusal
  <2>4. Bad(x) <=> ~ x.whole
    BY <1>9 DEF Bad
  <2> QED
    BY <1>1, <2>2, <2>3, <2>4
<1>10. CASE x.kind = "receipt"
  <2>1. k.receipts \in Seq(Receipt)
        /\ \A j \in DOMAIN k.receipts :
              \E i \in At(items, m, "receipt") : items[i].whole /\ k.receipts[j] = ReceiptOf(items[i])
    BY <1>2, LeftLogs
  <2>2. ASSUME Named(k.receipts, x.id) # {} PROVE Find(k.receipts, x.id)[1] = ReceiptOf(x) /\ x.whole
    <3>1. PICK j \in DOMAIN k.receipts : Find(k.receipts, x.id)[1] = k.receipts[j] /\ k.receipts[j].id = x.id
      BY <2>1, <2>2, FoundInLog
    <3>2. PICK i \in At(items, m, "receipt") : items[i].whole /\ k.receipts[j] = ReceiptOf(items[i])
      BY <2>1
    <3>3. i \in DOMAIN items /\ items[i].kind = "receipt" /\ items[i].id = x.id
      BY <1>4, <3>1, <3>2 DEF ReceiptOf
    <3>4. i = at
      BY <1>1, <1>10, <3>3 DEF Distinct
    <3> QED
      BY <1>1, <3>1, <3>2, <3>4
  <2>3. Refusal(k, x) <=> IF Named(k.receipts, x.id) # {} THEN Find(k.receipts, x.id)[1] # ReceiptOf(x) ELSE ~ x.whole
    BY <1>10 DEF Refusal
  <2>4. Bad(x) <=> ~ x.whole
    BY <1>10 DEF Bad
  <2> QED
    BY <1>1, <2>2, <2>3, <2>4
<1>11. CASE x.kind \in {"index", "command", "staging"}
  BY <1>1, <1>11 DEF Refusal, Bad
<1> QED
  BY <1>3, <1>7, <1>8, <1>9, <1>10, <1>11, KindOfRecord

LEMMA JudgedStep == TypedInOrder /\ FileIsSound /\ Progress /\ Judged /\ [Next]_vars => Judged'
<1> SUFFICES ASSUME Typed, InOrderOfUse, FileIsSound, Progress, Judged, [Next]_vars PROVE Judged'
  BY DEF TypedInOrder
<1>0. NoRestore.step = "none" /\ Distinct(file.items)
  BY DEF NoRestore, FileIsSound, FileSound
<1>1. ASSUME UNCHANGED <<file, restore>>, \E n \in Clusters : foreign' = foreign \cup {n} PROVE Judged'
  BY <1>1 DEF Judged
<1>2. CASE Kernel
  <2>1. (\E n \in Clusters : Disturbs(n)) /\ UNCHANGED <<file, restore>>
    BY <1>2, KernelDoes
  <2> QED
    BY <1>1, <2>1 DEF Disturbs
<1>3. CASE \E n \in Clusters, a \in Runs : ChangeBlob(n, a)
  BY <1>1, <1>3 DEF ChangeBlob, Disturbs
<1>4. CASE UNCHANGED vars \/ Reading
  <2>1. UNCHANGED <<file, restore, foreign>>
    BY <1>4, ReadingDoes DEF vars
  <2> QED
    BY <2>1 DEF Judged
<1>5. CASE CrashRestore \/ AlterFile
  <2>1. restore' = NoRestore
    BY <1>5, AlterDoes DEF CrashRestore
  <2> QED
    BY <1>0, <2>1 DEF Judged
<1>6. CASE \E n \in Clusters : StartRestore(n)
  <2>1. restore'.at = 1 /\ restore'.errors = {} /\ UNCHANGED file
    BY <1>6 DEF StartRestore
  <2>2. \A i \in DOMAIN file.items : ~ (i < 1)
    BY FileTyped
  <2> QED
    BY <2>1, <2>2 DEF Judged
<1>7. CASE BackupContents
  <2>1. backup # NoBackup /\ UNCHANGED restore
    BY <1>7, ContentsRead
  <2>2. restore = NoRestore
    BY <2>1 DEF InOrderOfUse
  <2> QED
    BY <1>0, <2>1, <2>2 DEF Judged
<1>8. CASE RestoreStep
  <2>1. UNCHANGED <<file, foreign>> /\ restore.step = "running"
    BY <1>8, RestoreBrings DEF OthersStay
  <2>2. PICK items, at : items = file.items /\ at = restore.at
    OBVIOUS
  <2>3. Moves
    BY <1>8, RestoreDoes
  <2>4. at \in DOMAIN items /\ at \in Nat /\ restore.into \in Clusters
    BY <2>1, <2>2, Running
  <2>5. restore'.at = at + 1 /\ restore'.into = restore.into
    BY <2>1, <2>2, <2>3, Advances
  <2>6. SUFFICES ASSUME restore.into \notin foreign
                 PROVE  restore'.errors = {i \in DOMAIN items : i < at + 1 /\ Bad(items[i])}
    BY <2>1, <2>2, <2>5 DEF Judged
  <2>7. PICK m \in 0 .. Len(file.items) : Follows(restore.into, m)
    BY <2>4, <2>6 DEF Progress
  <2>8. Bare(Target) = Left(items, m) /\ at <= m + 1
    BY <2>1, <2>2, <2>7 DEF Follows, Target, Bare
  <2>9. Refusal(Target, Current) <=> Bad(items[at])
    <3>1. items \in Seq(Record) /\ Distinct(items) /\ m \in 0 .. Len(items)
      BY <1>0, <2>2, <2>7, FileTyped
    <3>2. Refusal(Left(items, m), items[at]) <=> Bad(items[at])
      BY <2>4, <2>8, <3>1, RefusalIsBad
    <3>3. Refusal(Bare(Target), Current) <=> Refusal(Target, Current)
      BY <2>1, Running, BareOf, AlikeHold
    <3> QED
      BY <2>2, <2>8, <3>2, <3>3 DEF Current
  <2>10. restore'.errors = IF Bad(items[at]) THEN restore.errors \cup {at} ELSE restore.errors
    BY <1>8, <2>2, <2>9, RestoreRefuses
  <2>11. restore.errors = {i \in DOMAIN items : i < at /\ Bad(items[i])}
    BY <2>1, <2>2, <2>6 DEF Judged
  <2>12. \A i \in DOMAIN items : i \in Nat
    BY <2>2, FileTyped
  <2>13. \A i \in DOMAIN items : i < at + 1 <=> i < at \/ i = at
    BY <2>4, <2>12
  <2> QED
    BY <2>4, <2>10, <2>11, <2>13
<1> QED
  BY <1>2, <1>3, <1>4, <1>5, <1>6, <1>7, <1>8, NextIsSteps DEF NextSteps

(* Until there is a file, commits alone write, and at home.                *)
LEMMA KernelAtHome ==
  ASSUME Typed, file = NoFile, HomeSound, NEW n \in Clusters, NEW c \in Commands, NEW new, KernelWrites(n, c, new)
  PROVE  n = "home" /\ \A d \in Commands : commits'[d] # Idle => commits'[d].at = "home"
<1>1. /\ \A d \in Commands : cluster["copy"].commands[d] = "none"
      /\ \A d \in Commands : commits[d] # Idle => commits[d].at = "home"
  BY DEF HomeSound
<1>2. commits[c].step \in Steps => commits[c] # Idle
  BY CommitFields DEF Steps
<1>3. CASE Proposing(n, c, new)
  BY <1>1, <1>3 DEF Proposing
<1>4. CASE Storing(n, c, new)
  <2>1. n = "home"
    BY <1>1, <1>4 DEF Storing, Clusters
  <2>2. PICK subject : commits' = [commits EXCEPT ![c] =
                [step |-> "event", at |-> n, run |-> born + 1, subject |-> subject]]
    BY <1>4 DEF Storing
  <2>3. PICK r : r = [step |-> "event", at |-> n, run |-> born + 1, subject |-> subject]
    OBVIOUS
  <2>4. r.at = n /\ commits' = [commits EXCEPT ![c] = r] /\ commits \in [Commands -> Commit \cup {Idle}]
    BY <2>2, <2>3 DEF Typed
  <2> QED
    BY <1>1, <2>1, <2>4
<1>5. ASSUME NEW step \in Steps, Going(n, c, step)
      PROVE  n = "home" /\ \A d \in Commands : commits'[d] # Idle => commits'[d].at = "home"
  <2>1. commits[c].step \in Steps /\ commits[c].at = n /\ Continue(c)
    BY <1>5 DEF Going
  <2>2. n = "home"
    BY <1>1, <1>2, <2>1
  <2>3. /\ \A d \in Commands : d # c => commits'[d] = commits[d]
        /\ commits'[c] = Idle \/ commits'[c].at = commits[c].at
    BY <2>1, ContinueTyped
  <2> QED
    BY <1>1, <2>1, <2>2, <2>3
<1> QED
  BY <1>3, <1>4, <1>5 DEF KernelWrites, Recording, Saving, Acknowledging, Orphaning, Steps

LEMMA KernelLeaves ==
  ASSUME Typed, NEW n \in Clusters, NEW c \in Commands, NEW new
  PROVE  /\ Proposing(n, c, new) => Proposes(cluster[n], c, new)
         /\ Recording(n, c, new) => Records(cluster[n], commits[c], new)
         /\ Saving(n, c, new) => Saves(cluster[n], c, new)
         /\ Acknowledging(n, c, new) => Acknowledges(cluster[n], c, commits[c], new)
         /\ Orphaning(n, c, new) => Orphans(cluster[n], commits[c], new)
<1>1. PICK k : k = cluster[n]
  OBVIOUS
<1>2. k \in Store
  BY <1>1 DEF Typed
<1>3. Proposing(n, c, new) => Proposes(k, c, new)
  BY <1>1, <1>2 DEF Proposing, Proposes, SameSources, Store
<1>4. Recording(n, c, new) => Records(k, commits[c], new)
  BY <1>1, <1>2 DEF Recording, Records, SameSources, Store
<1>5. Saving(n, c, new) => Saves(k, c, new)
  BY <1>1, <1>2 DEF Saving, Saves, SameSources, Store
<1>6. Acknowledging(n, c, new) => Acknowledges(k, c, commits[c], new)
  BY <1>1, <1>2 DEF Acknowledging, Acknowledges, SameSources, Store
<1>7. Orphaning(n, c, new) => Orphans(k, commits[c], new)
  BY <1>1, <1>2 DEF Orphaning, Orphans, SameSources, Store
<1> QED
  BY <1>1, <1>3, <1>4, <1>5, <1>6, <1>7

LEMMA StoringAdds ==
  ASSUME Typed, Known, NEW n \in Clusters, NEW c \in Commands, NEW new, Storing(n, c, new)
  PROVE  /\ \E run \in Runs, subject \in Runs :
               /\ run \notin Sources(cluster[n]) /\ Adds(cluster[n], run, subject, new)
               /\ commits' = [commits EXCEPT ![c] = [step |-> "event", at |-> n, run |-> run, subject |-> subject]]
         /\ commits[c] = Idle /\ cluster[n].commands[c] = "approved"
<1>1. PICK k, run : k = cluster[n] /\ run = born + 1
  OBVIOUS
<1>2. k \in Store
  BY <1>1 DEF Typed
<1>3. run \in Runs /\ run \notin Sources(k)
  <2>1. born \in Nat /\ \A s \in Sources(k) : s \in Nat /\ s <= born
    BY <1>1, Naturals DEF Typed, Known, Sources, Entities, Artifacts
  <2> QED
    BY <1>1, <2>1 DEF Storing
<1>4. PICK subject \in Subjects(k, c, run) :
         /\ new = Stored(k, c, run, subject)
         /\ commits' = [commits EXCEPT ![c] = [step |-> "event", at |-> n, run |-> run, subject |-> subject]]
  BY <1>1 DEF Storing
<1>5. Adds(k, run, subject, new) /\ subject \in Runs
  BY <1>2, <1>3, <1>4, StoredSources, StoredTyped
<1> QED
  BY <1>1, <1>3, <1>4, <1>5 DEF Storing

LEMMA LineageGrows ==
  ASSUME NEW q \in Seq(Version), NEW m \in Nat, {v.n : v \in Range(q)} = 1..m, NEW r \in Version, r.n = m + 1
  PROVE  /\ {v.n : v \in Range(Append(q, r))} = 1..(m + 1)
         /\ Append(q, r)[Len(Append(q, r))].n = m + 1
<1>1. PICK p : p = Append(q, r)
  OBVIOUS
<1>2. Range(p) = Range(q) \cup {r}
  BY <1>1, RangeOfAppend, AppendKeeps
<1>3. Len(p) = Len(q) + 1 /\ p[Len(q) + 1] = r
  BY <1>1
<1>4. 1..(m + 1) = (1..m) \cup {m + 1}
  OBVIOUS
<1>5. {v.n : v \in Range(q) \cup {r}} = {v.n : v \in Range(q)} \cup {r.n}
  OBVIOUS
<1> QED
  BY <1>1, <1>2, <1>3, <1>4, <1>5

LEMMA LineageStep ==
  ASSUME Typed, Known, NEW n \in Clusters, NEW c \in Commands, NEW new, KernelWrites(n, c, new),
         LineageSound(cluster[n])
  PROVE  LineageSound(new)
<1>1. PICK k : k = cluster[n]
  OBVIOUS
<1>2. k \in Store /\ k.canonical \in [Runs -> Seq(Version)]
  BY <1>1, StoreFields DEF Typed
<1>3. ASSUME new.canonical = k.canonical PROVE LineageSound(new)
  BY <1>1, <1>3 DEF LineageSound, Entities, Latest
<1>4. CASE ~ Storing(n, c, new)
  <2>1. SameSources(k, new)
    BY <1>1, <1>4, KernelLeaves DEF KernelWrites, Proposes, Records, Saves, Acknowledges, Orphans
  <2> QED
    BY <1>3, <2>1 DEF SameSources
<1>5. CASE Storing(n, c, new)
  <2>1. PICK run \in Runs, subject \in Runs : run \notin Sources(k) /\ Adds(k, run, subject, new)
    BY <1>1, <1>5, StoringAdds
  <2>2. CASE Creates(k, run, subject, new)
    <3>1. PICK v, q : v = [n |-> 1, by |-> run] /\ q = <<v>>
      OBVIOUS
    <3>2. new.canonical = [k.canonical EXCEPT ![run] = q] /\ Entities(new) = Entities(k) \cup {run}
      BY <2>2, <3>1 DEF Creates
    <3>3. \A e \in Runs : new.canonical[e] = IF e = run THEN q ELSE k.canonical[e]
      BY <1>2, <3>2
    <3>4. \A y : Range(<<y>>) = {y} /\ Len(<<y>>) = 1 /\ <<y>>[1] = y
      <4>1. \A y : DOMAIN <<y>> = {1} /\ Len(<<y>>) = 1 /\ <<y>>[1] = y
        OBVIOUS
      <4> QED
        BY <4>1 DEF Range
    <3>5. {w.n : w \in Range(q)} = {1} /\ q[Len(q)].n = 1
      BY <3>1, <3>4
    <3>6. 1..1 = {1}
      OBVIOUS
    <3>7. \A e \in Entities(new) : e \in Runs
      BY DEF Entities
    <3>8. ASSUME NEW e \in Entities(new)
          PROVE  {w.n : w \in Range(new.canonical[e])} = 1 .. new.canonical[e][Len(new.canonical[e])].n
      <4>1. CASE e = run
        BY <2>1, <3>3, <3>5, <3>6, <4>1
      <4>2. CASE e # run
        BY <1>1, <3>2, <3>3, <3>7, <3>8, <4>2 DEF LineageSound, Latest
      <4> QED
        BY <4>1, <4>2
    <3> QED
      BY <3>8 DEF LineageSound, Latest
  <2>3. CASE Updates(k, run, subject, new)
    <3>1. PICK m, v : m = Latest(k, subject).n /\ v = [n |-> m + 1, by |-> run]
      OBVIOUS
    <3>2. subject \in Entities(k) /\ new.canonical = [k.canonical EXCEPT ![subject] = Append(k.canonical[subject], v)]
          /\ Entities(new) = Entities(k)
      BY <2>3, <3>1 DEF Updates
    <3>3. m \in Nat /\ v \in Version /\ v.n = m + 1 /\ k.canonical[subject] \in Seq(Version)
      <4>1. Latest(k, subject) \in Version
        BY <1>2, <3>2, LatestTyped
      <4> QED
        BY <1>2, <2>1, <3>1, <4>1, Naturals DEF Version
    <3>4. \A e \in Runs : new.canonical[e] = IF e = subject THEN Append(k.canonical[subject], v) ELSE k.canonical[e]
      BY <1>2, <3>2
    <3>5. {w.n : w \in Range(k.canonical[subject])} = 1..m
      BY <1>1, <3>1, <3>2 DEF LineageSound
    <3>6. PICK p : p = Append(k.canonical[subject], v)
      OBVIOUS
    <3>7. {w.n : w \in Range(p)} = 1..(m + 1) /\ p[Len(p)].n = m + 1
      BY <3>3, <3>5, <3>6, LineageGrows
    <3>8. \A e \in Entities(new) : e \in Runs
      BY DEF Entities
    <3>9. ASSUME NEW e \in Entities(new)
          PROVE  {w.n : w \in Range(new.canonical[e])} = 1 .. new.canonical[e][Len(new.canonical[e])].n
      <4>1. CASE e = subject
        BY <2>1, <3>4, <3>6, <3>7, <4>1
      <4>2. CASE e # subject
        BY <1>1, <3>2, <3>4, <3>8, <3>9, <4>2 DEF LineageSound, Latest
      <4> QED
        BY <4>1, <4>2
    <3> QED
      BY <3>9 DEF LineageSound, Latest
  <2>4. CASE Ingests(k, run, subject, new)
    BY <1>3, <2>4 DEF Ingests
  <2> QED
    BY <2>1, <2>2, <2>3, <2>4 DEF Adds
<1> QED
  BY <1>4, <1>5

LEMMA StoresStep ==
  ASSUME Typed, Known, NEW n \in Clusters, NEW c \in Commands, NEW new, KernelWrites(n, c, new),
         StoresSound(cluster[n])
  PROVE  StoresSound(new)
<1>1. PICK k : k = cluster[n]
  OBVIOUS
<1>2. k \in Store /\ k.commands \in [Commands -> Statuses] /\ k.staging \in SUBSET Commands
  BY <1>1, StoreFields DEF Typed
<1>s. k.index = Sources(k) /\ Entities(k) \cap Artifacts(k) = {} /\ \A f \in k.staging : k.commands[f] # "none"
  BY <1>1 DEF StoresSound
<1>3. ASSUME new.canonical = k.canonical, new.artifacts = k.artifacts, new.index = k.index,
             \A f \in new.staging : new.commands[f] # "none"
      PROVE  StoresSound(new)
  <2>1. Entities(new) = Entities(k) /\ Artifacts(new) = Artifacts(k)
    BY <1>3 DEF Entities, Artifacts
  <2> QED
    BY <1>3, <1>s, <2>1 DEF StoresSound, Sources
<1>4. CASE Proposing(n, c, new)
  <2>1. Proposes(k, c, new)
    BY <1>1, <1>4, KernelLeaves
  <2>2. \A f \in new.staging : new.commands[f] # "none"
    BY <1>2, <1>s, <2>1 DEF Proposes
  <2> QED
    BY <1>3, <2>1, <2>2 DEF Proposes, SameSources
<1>5. CASE Saving(n, c, new)
  <2>1. Saves(k, c, new)
    BY <1>1, <1>5, KernelLeaves
  <2>2. \A f \in new.staging : new.commands[f] # "none"
    BY <1>2, <1>s, <2>1 DEF Saves
  <2> QED
    BY <1>3, <2>1, <2>2 DEF Saves, SameSources
<1>6. CASE Recording(n, c, new) \/ Acknowledging(n, c, new) \/ Orphaning(n, c, new)
  <2>1. SameSources(k, new) /\ new.staging = k.staging /\ new.commands = k.commands
    BY <1>1, <1>6, KernelLeaves DEF Records, Acknowledges, Orphans
  <2> QED
    BY <1>3, <1>s, <2>1 DEF SameSources
<1>7. CASE Storing(n, c, new)
  <2>1. PICK run \in Runs, subject \in Runs : run \notin Sources(k) /\ Adds(k, run, subject, new)
    BY <1>1, <1>7, StoringAdds
  <2>2. run \notin Entities(k) /\ run \notin Artifacts(k) /\ new.commands = k.commands
    BY <2>1 DEF Sources, Adds
  <2>3. /\ new.staging \subseteq k.staging
        /\ \/ /\ Entities(new) = Entities(k) \cup {run} /\ Artifacts(new) = Artifacts(k)
              /\ new.index = k.index \cup {run}
           \/ /\ Entities(new) = Entities(k) /\ Artifacts(new) = Artifacts(k)
              /\ new.index = k.index
           \/ /\ Entities(new) = Entities(k) /\ Artifacts(new) = Artifacts(k) \cup {run}
              /\ new.index = k.index \cup {run}
    BY <2>1 DEF Adds, Creates, Updates, Ingests
  <2>4. new.index = Sources(new)
    BY <1>s, <2>3 DEF Sources
  <2>5. Entities(new) \cap Artifacts(new) = {}
    BY <1>s, <2>2, <2>3
  <2>6. \A f \in new.staging : new.commands[f] # "none"
    BY <1>s, <2>2, <2>3
  <2> QED
    BY <2>4, <2>5, <2>6 DEF StoresSound
<1> QED
  BY <1>4, <1>5, <1>6, <1>7 DEF KernelWrites

(* What one more record at the end of a log changes of what the log says.  *)
Gains(log, new, r) ==
    /\ \A j \in DOMAIN new : (j \in DOMAIN log /\ new[j] = log[j]) \/ new[j] = r
    /\ \A j \in DOMAIN log : j \in DOMAIN new /\ new[j] = log[j]
    /\ \E j \in DOMAIN new : new[j] = r

LEMMA AppendGains ==
  ASSUME NEW S, NEW log \in Seq(S), NEW r \in S
  PROVE  Gains(log, Append(log, r), r)
<1>1. PICK new, l : new = Append(log, r) /\ l = Len(log)
  OBVIOUS
<1>2. /\ l \in Nat /\ DOMAIN log = 1..l /\ DOMAIN new = 1..(l + 1)
      /\ new[l + 1] = r /\ \A j \in 1..l : new[j] = log[j]
  BY <1>1
<1>3. \A j \in DOMAIN new : j \in DOMAIN log \/ j = l + 1
  BY <1>2
<1>4. l + 1 \in DOMAIN new /\ \A j \in DOMAIN log : j \in DOMAIN new
  BY <1>2
<1>5. Gains(log, new, r)
  BY <1>2, <1>3, <1>4 DEF Gains
<1> QED
  BY <1>1, <1>5

LEMMA EventGained ==
  ASSUME NEW log \in Seq(Event), NEW id \in Nat, NEW action \in Actions, NEW subject \in Runs
  PROVE  \E r \in Event : /\ Gains(log, append(log, id, action, subject), r)
                          /\ r.id = id /\ r.action = action /\ r.subject = subject
<1>1. PICK r : r = [id |-> id, action |-> action, subject |-> subject, prev |-> LastId(log), whole |-> TRUE]
  OBVIOUS
<1>2. r \in Event
  BY <1>1, LastIdTyped DEF Event
<1>3. Gains(log, append(log, id, action, subject), r)
  BY <1>1, <1>2, AppendGains DEF append
<1> QED
  BY <1>1, <1>2, <1>3

LEMMA ReceiptGained ==
  ASSUME NEW log \in Seq(Receipt), NEW id \in Nat, NEW event \in Nat, NEW cmd \in Commands
  PROVE  \E r \in Receipt : /\ Gains(log, appendReceipt(log, id, event, cmd), r)
                            /\ r.id = id /\ r.event = event /\ r.cmd = cmd
<1>1. PICK r : r = [id |-> id, event |-> event, cmd |-> cmd, prev |-> LastId(log), whole |-> TRUE]
  OBVIOUS
<1>2. r \in Receipt
  BY <1>1, LastIdTyped DEF Receipt
<1>3. Gains(log, appendReceipt(log, id, event, cmd), r)
  BY <1>1, <1>2, AppendGains DEF appendReceipt
<1> QED
  BY <1>1, <1>2, <1>3

(* What is appended is chained to the last of its log.                     *)
LEMMA ChainGrows ==
  ASSUME NEW S, NEW log \in Seq(S), NEW r \in S, Chained(log), r.prev = LastId(log)
  PROVE  Chained(Append(log, r))
<1>1. PICK new, l : new = Append(log, r) /\ l = Len(log)
  OBVIOUS
<1>2. /\ l \in Nat /\ DOMAIN log = 1..l /\ DOMAIN new = 1..(l + 1)
      /\ new[l + 1] = r /\ \A j \in 1..l : new[j] = log[j]
  BY <1>1
<1>3. ASSUME NEW i \in 1..l, i # 1 PROVE new[i].prev = new[i - 1].id
  <2>1. i - 1 \in 1..l
    BY <1>2, <1>3
  <2>2. log[i].prev = log[i - 1].id
    BY <1>2, <1>3 DEF Chained
  <2> QED
    BY <1>2, <2>1, <2>2
<1>4. ASSUME l + 1 # 1 PROVE new[l + 1].prev = new[l].id
  <2>1. log # <<>> /\ l \in 1..l
    BY <1>1, <1>2, <1>4
  <2>2. LastId(log) = log[l].id
    BY <1>1, <2>1 DEF LastId
  <2> QED
    BY <1>2, <2>1, <2>2
<1>5. ASSUME NEW i \in DOMAIN new \ {1} PROVE new[i].prev = new[i - 1].id
  <2>1. CASE i = l + 1
    <3>1. i - 1 = l
      BY <1>2, <2>1
    <3> QED
      BY <1>4, <1>5, <2>1, <3>1
  <2>2. CASE i # l + 1
    <3>1. i \in 1..l
      BY <1>2, <1>5, <2>2
    <3> QED
      BY <1>3, <1>5, <3>1
  <2> QED
    BY <2>1, <2>2
<1> QED
  BY <1>1, <1>5 DEF Chained

LEMMA EventChained ==
  ASSUME NEW log \in Seq(Event), NEW id \in Nat, NEW action \in Actions, NEW subject \in Runs, Chained(log)
  PROVE  Chained(append(log, id, action, subject))
<1>1. PICK r : r = [id |-> id, action |-> action, subject |-> subject, prev |-> LastId(log), whole |-> TRUE]
  OBVIOUS
<1>2. r \in Event /\ r.prev = LastId(log)
  BY <1>1, LastIdTyped DEF Event
<1> QED
  BY <1>1, <1>2, ChainGrows DEF append

LEMMA ReceiptChained ==
  ASSUME NEW log \in Seq(Receipt), NEW id \in Nat, NEW event \in Nat, NEW cmd \in Commands, Chained(log)
  PROVE  Chained(appendReceipt(log, id, event, cmd))
<1>1. PICK r : r = [id |-> id, event |-> event, cmd |-> cmd, prev |-> LastId(log), whole |-> TRUE]
  OBVIOUS
<1>2. r \in Receipt /\ r.prev = LastId(log)
  BY <1>1, LastIdTyped DEF Receipt
<1> QED
  BY <1>1, <1>2, ChainGrows DEF appendReceipt

LEMMA ChainStep ==
  ASSUME Typed, Known, NEW n \in Clusters, NEW c \in Commands, NEW new, KernelWrites(n, c, new),
         LogsChained(cluster[n])
  PROVE  LogsChained(new)
<1>1. PICK k : k = cluster[n]
  OBVIOUS
<1>2. k.events \in Seq(Event) /\ k.receipts \in Seq(Receipt) /\ commits \in [Commands -> Commit \cup {Idle}]
  BY <1>1, StoreFields DEF Typed
<1>3. Chained(k.events) /\ Chained(k.receipts)
  BY <1>1 DEF LogsChained
<1>4. ASSUME NEW step \in Steps, Going(n, c, step)
      PROVE  commits[c].run \in Nat /\ commits[c].subject \in Runs
  BY <1>2, <1>4, CommitFields DEF Going
<1>5. CASE Proposing(n, c, new) \/ Storing(n, c, new) \/ Saving(n, c, new)
  <2>1. CASE Storing(n, c, new)
    <3>1. PICK run \in Runs, subject \in Runs : Adds(k, run, subject, new)
      BY <1>1, <2>1, StoringAdds
    <3> QED
      BY <1>3, <3>1 DEF Adds, LogsChained
  <2>2. CASE Proposing(n, c, new) \/ Saving(n, c, new)
    <3>1. Proposes(k, c, new) \/ Saves(k, c, new)
      BY <1>1, <2>2, KernelLeaves
    <3> QED
      BY <1>3, <3>1 DEF Proposes, Saves, LogsChained
  <2> QED
    BY <1>5, <2>1, <2>2
<1>6. CASE Recording(n, c, new)
  <2>1. Records(k, commits[c], new) /\ Going(n, c, "event") /\ "event" \in Steps
    BY <1>1, <1>6, KernelLeaves DEF Recording, Steps
  <2>2. commits[c].run \in Nat /\ commits[c].subject \in Runs /\ "mutation_committed" \in Actions
    BY <1>4, <2>1 DEF Actions
  <2> QED
    BY <1>2, <1>3, <2>1, <2>2, EventChained DEF Records, LogsChained
<1>7. CASE Acknowledging(n, c, new)
  <2>1. Acknowledges(k, c, commits[c], new) /\ Going(n, c, "receipt") /\ "receipt" \in Steps
    BY <1>1, <1>7, KernelLeaves DEF Acknowledging, Steps
  <2>2. commits[c].run \in Nat
    BY <1>4, <2>1
  <2> QED
    BY <1>2, <1>3, <2>1, <2>2, ReceiptChained DEF Acknowledges, LogsChained
<1>8. CASE Orphaning(n, c, new)
  <2>1. Orphans(k, commits[c], new) /\ Going(n, c, "receipt") /\ "receipt" \in Steps
    BY <1>1, <1>8, KernelLeaves DEF Orphaning, Steps
  <2>2. commits[c].run \in Nat /\ commits[c].subject \in Runs
    BY <1>4, <2>1
  <2>3. MaxRuns + commits[c].run \in Nat /\ "mutation_orphaned" \in Actions
    BY <2>2, Naturals DEF Actions
  <2> QED
    BY <1>2, <1>3, <2>1, <2>2, <2>3, EventChained DEF Orphans, LogsChained
<1> QED
  BY <1>5, <1>6, <1>7, <1>8 DEF KernelWrites

(* What a commit owes the ledger it pays, or leaves to its command.        *)
LEMMA LedgerStep ==
  ASSUME Typed, Known, NEW n \in Clusters, NEW c \in Commands, NEW new, KernelWrites(n, c, new),
         LedgerSound(cluster[n], commits),
         \A d \in Commands : commits[d].step = "receipt" /\ commits[d].at = n => cluster[n].commands[d] = "committed"
  PROVE  LedgerSound(new, commits')
<1>1. PICK k : k = cluster[n]
  OBVIOUS
<1>2. /\ k \in Store /\ k.commands \in [Commands -> Statuses] /\ k.events \in Seq(Event) /\ k.receipts \in Seq(Receipt)
      /\ commits \in [Commands -> Commit \cup {Idle}] /\ Idle.step = "none"
  BY <1>1, StoreFields DEF Typed, Idle
<1>a. \A a \in Artifacts(k) : Told(k, a) \/ Telling(commits, a)
  BY <1>1 DEF LedgerSound
<1>b. \A j \in DOMAIN k.events : k.events[j].action = "mutation_committed" =>
         Receipted(k, k.events[j].id) \/ Owing(commits, k.events[j].id) \/ Forsaken(k, commits)
  BY <1>1 DEF LedgerSound
<1>c. \A d \in Commands : commits[d] # Idle => Unreceipted(k, d)
  BY <1>1 DEF LedgerSound
<1>d. \A d \in Commands : k.commands[d] # "committed" => Unreceipted(k, d)
  BY <1>1 DEF LedgerSound
<1>s. SameSources(k, new) => Artifacts(new) = Artifacts(k)
  BY DEF SameSources, Artifacts
<1>3. CASE Proposing(n, c, new)
  <2>0. Proposes(k, c, new)
    BY <1>1, <1>3, KernelLeaves
  <2>9. UNCHANGED commits
    BY <1>3 DEF Proposing
  <2>1. Proposes(k, c, new) /\ UNCHANGED commits
    BY <2>0, <2>9
  <2>2. /\ Artifacts(new) = Artifacts(k) /\ new.events = k.events /\ new.receipts = k.receipts
        /\ \A d \in Commands : new.commands[d] = IF d = c THEN "approved" ELSE k.commands[d]
        /\ k.commands[c] = "none"
    BY <1>2, <1>s, <2>1 DEF Proposes
  <2>3. \A d \in Commands : new.commands[d] = "committed" <=> k.commands[d] = "committed"
    BY <2>2
  <2>4. \A a : Told(new, a) <=> Told(k, a)
    BY <2>2 DEF Told
  <2>5. \A id : Receipted(new, id) <=> Receipted(k, id)
    BY <2>2 DEF Receipted
  <2>6. \A d : Unreceipted(new, d) <=> Unreceipted(k, d)
    BY <2>2 DEF Unreceipted
  <2>7. Forsaken(k, commits) => Forsaken(new, commits)
    BY <2>3, <2>6 DEF Forsaken
  <2> QED
    BY <1>a, <1>b, <1>c, <1>d, <2>1, <2>2, <2>3, <2>4, <2>5, <2>6, <2>7 DEF LedgerSound
<1>4. CASE Storing(n, c, new)
  <2>1. PICK run \in Runs, subject \in Runs :
          /\ Adds(k, run, subject, new)
          /\ commits' = [commits EXCEPT ![c] = [step |-> "event", at |-> n, run |-> run, subject |-> subject]]
    BY <1>1, <1>4, StoringAdds
  <2>2. commits[c] = Idle /\ k.commands[c] = "approved"
    BY <1>1, <1>4, StoringAdds
  <2>3. PICK r : r = [step |-> "event", at |-> n, run |-> run, subject |-> subject]
    OBVIOUS
  <2>4. commits'[c] = r /\ \A d \in Commands : d # c => commits'[d] = commits[d]
    BY <1>2, <2>1, <2>3
  <2>5. /\ new.events = k.events /\ new.receipts = k.receipts /\ new.commands = k.commands
        /\ \A a \in Artifacts(new) : a \in Artifacts(k) \/ a = subject
    BY <2>1 DEF Adds, Creates, Updates, Ingests
  <2>6. \A a : Told(new, a) <=> Told(k, a)
    BY <2>5 DEF Told
  <2>7. \A id : Receipted(new, id) <=> Receipted(k, id)
    BY <2>5 DEF Receipted
  <2>8. \A d : Unreceipted(new, d) <=> Unreceipted(k, d)
    BY <2>5 DEF Unreceipted
  <2>9. \A a : Telling(commits, a) => Telling(commits', a)
    BY <1>2, <2>2, <2>4 DEF Telling
  <2>10. Telling(commits', subject)
    BY <2>3, <2>4 DEF Telling
  <2>11. \A id : Owing(commits, id) => Owing(commits', id)
    BY <1>2, <2>2, <2>4 DEF Owing
  <2>12. Forsaken(k, commits) => Forsaken(new, commits')
    BY <2>2, <2>4, <2>5, <2>8 DEF Forsaken
  <2>13. \A d \in Commands : commits'[d] # Idle => Unreceipted(new, d)
    BY <1>c, <1>d, <2>2, <2>4, <2>8
  <2> QED
    BY <1>a, <1>b, <1>d, <2>5, <2>6, <2>7, <2>8, <2>9, <2>10, <2>11, <2>12, <2>13 DEF LedgerSound
<1>g. ASSUME NEW step \in Steps, Going(n, c, step)
      PROVE  /\ commits[c].step = step /\ commits[c].at = n /\ commits[c] # Idle
             /\ commits[c].run \in Nat /\ commits[c].subject \in Runs
             /\ \A d \in Commands : d # c => commits'[d] = commits[d]
             /\ step = "receipt" => commits'[c] = Idle
             /\ step = "event" => commits'[c].step = "save"
             /\ step = "save" => commits'[c].step = "receipt"
             /\ step # "receipt" => commits'[c].run = commits[c].run /\ commits'[c].subject = commits[c].subject
  <2>1. commits[c].step = step /\ commits[c].at = n /\ Continue(c) /\ commits[c].step \in Steps
    BY <1>g DEF Going
  <2>2. NextPhase["event"] = "save" /\ NextPhase["save"] = "receipt"
    BY DEF NextPhase
  <2> QED
    BY <1>2, <2>1, <2>2, CommitFields, ContinueTyped DEF Steps
<1>5. CASE Recording(n, c, new)
  <2>1. Records(k, commits[c], new) /\ Going(n, c, "event")
    BY <1>1, <1>5, KernelLeaves DEF Recording
  <2>2. /\ commits[c].step = "event" /\ commits[c].run \in Nat /\ commits[c].subject \in Runs /\ commits[c] # Idle
        /\ \A d \in Commands : d # c => commits'[d] = commits[d]
        /\ commits'[c].step = "save" /\ commits'[c].run = commits[c].run
    BY <1>g, <2>1 DEF Steps
  <2>3. PICK r : /\ Gains(k.events, new.events, r) /\ r.id = commits[c].run /\ r.subject = commits[c].subject
    BY <1>2, <2>1, <2>2, EventGained DEF Records, Actions
  <2>4. Artifacts(new) = Artifacts(k) /\ new.receipts = k.receipts /\ new.commands = k.commands
    BY <1>s, <2>1 DEF Records
  <2>5. \A a : Told(k, a) \/ Telling(commits, a) => Told(new, a) \/ Telling(commits', a)
    <3>1. \A a : Told(k, a) \/ a = commits[c].subject => Told(new, a)
      BY <2>3 DEF Told, Gains
    <3>2. \A a : Telling(commits, a) => a = commits[c].subject \/ Telling(commits', a)
      BY <2>2 DEF Telling
    <3> QED
      BY <3>1, <3>2
  <2>6. \A id : Receipted(new, id) <=> Receipted(k, id)
    BY <2>4 DEF Receipted
  <2>7. \A d : Unreceipted(new, d) <=> Unreceipted(k, d)
    BY <2>4 DEF Unreceipted
  <2>8. \A id : Owing(commits, id) => Owing(commits', id)
    BY <2>2 DEF Owing
  <2>9. Owing(commits', commits[c].run)
    BY <2>2 DEF Owing
  <2>10. Forsaken(k, commits) => Forsaken(new, commits')
    BY <2>2, <2>4, <2>7 DEF Forsaken
  <2>11. \A d \in Commands : commits'[d] # Idle => Unreceipted(new, d)
    BY <1>c, <2>2, <2>7
  <2>12. \A j \in DOMAIN new.events : new.events[j].action = "mutation_committed" =>
           Receipted(new, new.events[j].id) \/ Owing(commits', new.events[j].id) \/ Forsaken(new, commits')
    BY <1>b, <2>3, <2>6, <2>8, <2>9, <2>10 DEF Gains
  <2> QED
    BY <1>a, <1>d, <2>4, <2>5, <2>7, <2>11, <2>12 DEF LedgerSound
<1>6. CASE Saving(n, c, new)
  <2>1. Saves(k, c, new) /\ Going(n, c, "save")
    BY <1>1, <1>6, KernelLeaves DEF Saving
  <2>2. /\ commits[c].step = "save" /\ commits[c] # Idle
        /\ \A d \in Commands : d # c => commits'[d] = commits[d]
        /\ commits'[c].step = "receipt" /\ commits'[c].run = commits[c].run
    BY <1>g, <2>1 DEF Steps
  <2>3. /\ Artifacts(new) = Artifacts(k) /\ new.events = k.events /\ new.receipts = k.receipts
        /\ \A d \in Commands : new.commands[d] = IF d = c THEN "committed" ELSE k.commands[d]
    BY <1>2, <1>s, <2>1 DEF Saves
  <2>4. \A a : Told(new, a) <=> Told(k, a)
    BY <2>3 DEF Told
  <2>5. \A id : Receipted(new, id) <=> Receipted(k, id)
    BY <2>3 DEF Receipted
  <2>6. \A d : Unreceipted(new, d) <=> Unreceipted(k, d)
    BY <2>3 DEF Unreceipted
  <2>7. \A a : Telling(commits, a) => Telling(commits', a)
    BY <2>2 DEF Telling
  <2>8. \A id : Owing(commits, id) => Owing(commits', id)
    BY <2>2 DEF Owing
  <2>9. Forsaken(k, commits) => Forsaken(new, commits')
    BY <2>2, <2>3, <2>6 DEF Forsaken
  <2>10. \A d \in Commands : commits'[d] # Idle => Unreceipted(new, d)
    BY <1>c, <2>2, <2>6
  <2>11. \A d \in Commands : new.commands[d] # "committed" => Unreceipted(new, d)
    BY <1>d, <2>3, <2>6
  <2> QED
    BY <1>a, <1>b, <2>3, <2>4, <2>5, <2>7, <2>8, <2>9, <2>10, <2>11 DEF LedgerSound
<1>7. CASE Acknowledging(n, c, new)
  <2>1. Acknowledges(k, c, commits[c], new) /\ Going(n, c, "receipt")
    BY <1>1, <1>7, KernelLeaves DEF Acknowledging
  <2>2. /\ commits[c].step = "receipt" /\ commits[c].run \in Nat /\ commits[c] # Idle /\ commits[c].at = n
        /\ \A d \in Commands : d # c => commits'[d] = commits[d]
        /\ commits'[c] = Idle
    BY <1>g, <2>1 DEF Steps
  <2>3. PICK r : Gains(k.receipts, new.receipts, r) /\ r.event = commits[c].run /\ r.cmd = c
    BY <1>2, <2>1, <2>2, ReceiptGained DEF Acknowledges
  <2>4. Artifacts(new) = Artifacts(k) /\ new.events = k.events /\ new.commands = k.commands
    BY <1>s, <2>1 DEF Acknowledges
  <2>5. \A a : Told(new, a) <=> Told(k, a)
    BY <2>4 DEF Told
  <2>6. \A id : Receipted(k, id) \/ id = commits[c].run => Receipted(new, id)
    BY <2>3 DEF Receipted, Gains
  <2>7. \A d : d # c /\ Unreceipted(k, d) => Unreceipted(new, d)
    BY <2>3 DEF Unreceipted, Gains
  <2>8. \A a : Telling(commits, a) => Telling(commits', a)
    BY <2>2 DEF Telling
  <2>9. \A id : Owing(commits, id) => Owing(commits', id) \/ id = commits[c].run
    BY <2>2 DEF Owing
  <2>10. Forsaken(k, commits) => Forsaken(new, commits')
    BY <2>2, <2>4, <2>7 DEF Forsaken
  <2>11. \A d \in Commands : commits'[d] # Idle => Unreceipted(new, d)
    BY <1>c, <2>2, <2>7
  <2>12. k.commands[c] = "committed"
    BY <1>1, <2>2
  <2>13. \A d \in Commands : new.commands[d] # "committed" => Unreceipted(new, d)
    BY <1>d, <2>4, <2>7, <2>12
  <2>14. \A j \in DOMAIN new.events : new.events[j].action = "mutation_committed" =>
           Receipted(new, new.events[j].id) \/ Owing(commits', new.events[j].id) \/ Forsaken(new, commits')
    BY <1>b, <2>4, <2>6, <2>9, <2>10
  <2> QED
    BY <1>a, <2>4, <2>5, <2>8, <2>11, <2>13, <2>14 DEF LedgerSound
<1>8. CASE Orphaning(n, c, new)
  <2>1. Orphans(k, commits[c], new) /\ Going(n, c, "receipt")
    BY <1>1, <1>8, KernelLeaves DEF Orphaning
  <2>2. /\ commits[c].step = "receipt" /\ commits[c].run \in Nat /\ commits[c].subject \in Runs /\ commits[c] # Idle
        /\ commits[c].at = n
        /\ \A d \in Commands : d # c => commits'[d] = commits[d]
        /\ commits'[c] = Idle
    BY <1>g, <2>1 DEF Steps
  <2>3. Artifacts(new) = Artifacts(k) /\ new.receipts = k.receipts /\ new.commands = k.commands
    BY <1>s, <2>1 DEF Orphans
  <2>4. /\ \A a : Told(k, a) => Told(new, a)
        /\ \A j \in DOMAIN new.events : new.events[j].action = "mutation_committed" =>
              \E i \in DOMAIN k.events : k.events[i] = new.events[j]
    <3>1. CASE new.events = k.events
      BY <3>1 DEF Told
    <3>2. CASE new.events = append(k.events, MaxRuns + commits[c].run, "mutation_orphaned", commits[c].subject)
      <4>1. MaxRuns + commits[c].run \in Nat /\ "mutation_orphaned" \in Actions
        BY <2>2, Naturals DEF Actions
      <4>2. PICK r : Gains(k.events, new.events, r) /\ r.action = "mutation_orphaned"
        BY <1>2, <2>2, <3>2, <4>1, EventGained
      <4> QED
        BY <4>2 DEF Told, Gains
    <3> QED
      BY <2>1, <3>1, <3>2 DEF Orphans
  <2>5. \A id : Receipted(new, id) <=> Receipted(k, id)
    BY <2>3 DEF Receipted
  <2>6. \A d : Unreceipted(new, d) <=> Unreceipted(k, d)
    BY <2>3 DEF Unreceipted
  <2>7. \A a : Telling(commits, a) => Telling(commits', a)
    BY <2>2 DEF Telling
  <2>8. Forsaken(new, commits')
    <3>1. new.commands[c] = "committed" /\ Unreceipted(new, c)
      BY <1>1, <1>c, <2>2, <2>3, <2>6
    <3> QED
      BY <2>2, <3>1 DEF Forsaken
  <2>9. \A d \in Commands : commits'[d] # Idle => Unreceipted(new, d)
    BY <1>c, <2>2, <2>6
  <2> QED
    BY <1>a, <1>d, <2>3, <2>4, <2>6, <2>7, <2>8, <2>9 DEF LedgerSound
<1> QED
  BY <1>3, <1>4, <1>5, <1>6, <1>7, <1>8 DEF KernelWrites

(* Until there is a file, home is sound.                                   *)
LEMMA HomeSoundStep == TypedInOrder /\ SavedAtHome /\ Known /\ HomeSound /\ [Next]_vars => HomeSound'
<1> SUFFICES ASSUME Typed, InOrderOfUse, SavedAtHome, Known, HomeSound, [Next]_vars, file' = NoFile
             PROVE  HomeSound'
  BY DEF TypedInOrder, HomeSound
<1>0. "home" \in Clusters /\ "copy" \in Clusters /\ NoFile.items = <<>>
  BY DEF Clusters, NoFile
<1>1. ASSUME file = NoFile, UNCHANGED <<cluster, commits>> PROVE HomeSound'
  BY <1>1 DEF HomeSound
<1>2. CASE Kernel
  <2>1. PICK n \in Clusters, c \in Commands, new \in Store :
          Turns(n, new) /\ Disturbs(n) /\ KernelWrites(n, c, new)
    BY <1>2, KernelWritesSo
  <2>2. file = NoFile
    BY <1>2, KernelDoes
  <2>3. n = "home" /\ \A d \in Commands : commits'[d] # Idle => commits'[d].at = "home"
    BY <2>1, <2>2, KernelAtHome
  <2>4. cluster'["home"] = new /\ cluster'["copy"] = cluster["copy"]
    BY <1>0, <2>1, <2>3, TurnsTyped
  <2>5. LineageSound(new)
    BY <2>1, <2>2, <2>3, LineageStep DEF HomeSound
  <2>6. StoresSound(new) /\ LogsChained(new)
    BY <2>1, <2>2, <2>3, StoresStep, ChainStep DEF HomeSound
  <2>7. LedgerSound(new, commits')
    <3>1. \A d \in Commands : commits[d].step = "receipt" /\ commits[d].at = n => cluster[n].commands[d] = "committed"
      BY <2>2, <2>3 DEF SavedAtHome
    <3>2. LedgerSound(cluster[n], commits)
      BY <2>2, <2>3 DEF HomeSound
    <3> QED
      BY <2>1, <3>1, <3>2, LedgerStep
  <2>8. \A d \in Commands : cluster'["copy"].commands[d] = "none"
    BY <2>2, <2>4 DEF HomeSound
  <2> QED
    BY <2>3, <2>4, <2>5, <2>6, <2>7, <2>8 DEF HomeSound
<1>3. CASE Reading
  <2>1. UNCHANGED <<cluster, commits, file>>
    BY <1>3, ReadingDoes
  <2> QED
    BY <1>1, <2>1
<1>4. CASE BackupContents
  <2>1. UNCHANGED <<cluster, commits>>
    BY <1>4, LeavesOutside
  <2>2. file = NoFile
    BY <1>4, ContentsRead DEF InOrderOfUse
  <2> QED
    BY <1>1, <2>1, <2>2
<1>5. CASE RestoreStep
  <2>1. file' = file /\ restore.step = "running"
    BY <1>5, RestoreBrings DEF OthersStay
  <2>2. file # NoFile
    BY <2>1, Running
  <2> QED
    BY <2>1, <2>2
<1>6. CASE AlterFile
  <2>1. file # NoFile
    BY <1>6 DEF AlterFile
  <2>2. file.items # <<>> /\ Len(file'.items) = Len(file.items)
    BY <1>6, <2>1, AlterDoes DEF InOrderOfUse
  <2>3. file.items \in Seq(Record)
    BY FileTyped
  <2>4. Len(file'.items) # 0
    <3>1. \A q \in Seq(Record) : Len(q) = 0 => q = <<>>
      OBVIOUS
    <3> QED
      BY <2>2, <2>3, <3>1
  <2>5. NoFile.items = <<>> /\ Len(<<>>) = 0
    BY <1>0
  <2> QED
    BY <2>4, <2>5
<1>7. CASE \E n \in Clusters, a \in Runs : ChangeBlob(n, a)
  <2>1. PICK n \in Clusters, a \in Runs : ChangeBlob(n, a)
    BY <1>7
  <2>2. PICK new \in Store : Turns(n, new) /\ Decays(cluster[n], a, new)
    BY <2>1, ChangeBlobDoes
  <2>3. UNCHANGED <<commits, file>>
    BY <2>1, ChangeBlobDoes
  <2>4. \A m \in Clusters : \/ cluster'[m] = cluster[m]
                            \/ cluster'[m] = new /\ m = n
    BY <2>2, TurnsTyped
  <2>5. \A m \in Clusters : cluster'[m].commands = cluster[m].commands
    BY <2>2, <2>4 DEF Decays
  <2>6. ASSUME NEW k, NEW l, Decays(k, a, l),
               LineageSound(k), StoresSound(k), LogsChained(k), LedgerSound(k, commits)
        PROVE  LineageSound(l) /\ StoresSound(l) /\ LogsChained(l) /\ LedgerSound(l, commits)
    <3>1. /\ l.canonical = k.canonical /\ l.events = k.events /\ l.receipts = k.receipts
          /\ l.commands = k.commands /\ l.staging = k.staging /\ l.index = k.index
          /\ Entities(l) = Entities(k) /\ Artifacts(l) = Artifacts(k)
      BY <2>6 DEF Decays
    <3>2. LineageSound(l)
      BY <2>6, <3>1 DEF LineageSound, Latest
    <3>3. StoresSound(l)
      BY <2>6, <3>1 DEF StoresSound, Sources
    <3>4. LedgerSound(l, commits)
      BY <2>6, <3>1 DEF LedgerSound, Told, Receipted, Unreceipted, Forsaken
    <3>5. LogsChained(l)
      BY <2>6, <3>1 DEF LogsChained
    <3> QED
      BY <3>2, <3>3, <3>4, <3>5
  <2>7. /\ LineageSound(cluster["home"]) /\ StoresSound(cluster["home"])
        /\ LogsChained(cluster["home"]) /\ LedgerSound(cluster["home"], commits)
    BY <2>3 DEF HomeSound
  <2>8. /\ LineageSound(cluster'["home"]) /\ StoresSound(cluster'["home"])
        /\ LogsChained(cluster'["home"]) /\ LedgerSound(cluster'["home"], commits)
    BY <1>0, <2>2, <2>4, <2>6, <2>7
  <2> QED
    BY <1>0, <2>3, <2>5, <2>8 DEF HomeSound
<1>8. CASE UNCHANGED vars \/ CrashRestore \/ \E n \in Clusters : StartRestore(n)
  <2>1. UNCHANGED <<cluster, commits, file>>
    BY <1>8, LeavesOutside DEF vars
  <2> QED
    BY <1>1, <2>1
<1> QED
  BY <1>2, <1>3, <1>4, <1>5, <1>6, <1>7, <1>8, NextIsSteps DEF NextSteps

(* A backup that nothing wrote beside shows what is at home.               *)
LEMMA DisturbedIsNotQuiet ==
  ASSUME Typed, Disturbs("home")
  PROVE  backup' = NoBackup \/ backup'.quiet = FALSE
<1>1. backup' = [backup EXCEPT !.quiet = FALSE]
  BY DEF Disturbs
<1>2. CASE backup = NoBackup
  BY <1>1, <1>2 DEF NoBackup
<1>3. CASE backup \in Backup
  BY <1>1, <1>3 DEF Backup
<1> QED
  BY <1>2, <1>3 DEF Typed

LEMMA QuietBackupStep ==
  TypedInOrder /\ BackupSound /\ HomeSound /\ QuietBackup /\ [Next]_vars => QuietBackup'
<1> SUFFICES ASSUME Typed, InOrderOfUse, BackupSound, HomeSound, QuietBackup, [Next]_vars,
                    backup' # NoBackup, backup'.quiet
             PROVE  /\ \A c \in Commands : commits'[c] = Idle
                    /\ backup'.health = [verify |-> verify(cluster'["home"]), doctor |-> doctor(cluster'["home"])]
                    /\ \A kind \in KindsRead(backup'.step) : Shows(backup'.items, cluster'["home"], kind, options)
  BY OptionsStay DEF TypedInOrder, QuietBackup
<1> DEFINE Done ==
      /\ \A c \in Commands : commits'[c] = Idle
      /\ backup'.health = [verify |-> verify(cluster'["home"]), doctor |-> doctor(cluster'["home"])]
      /\ \A kind \in KindsRead(backup'.step) : Shows(backup'.items, cluster'["home"], kind, options)
<1>0. "home" \in Clusters /\ cluster["home"] \in Store
  BY DEF Typed, Clusters
<1>1. ASSUME cluster'["home"] = cluster["home"], UNCHANGED <<commits, backup>> PROVE Done
  BY <1>1 DEF QuietBackup
<1>2. ASSUME NEW n \in Clusters, Disturbs(n) PROVE n # "home" /\ UNCHANGED backup
  <2>1. n # "home"
    BY <1>2, DisturbedIsNotQuiet
  <2> QED
    BY <1>2, <2>1 DEF Disturbs
<1>3. CASE Kernel
  <2>1. PICK n \in Clusters, c \in Commands, new \in Store :
          Turns(n, new) /\ Disturbs(n) /\ KernelWrites(n, c, new)
    BY <1>3, KernelWritesSo
  <2>2. n # "home" /\ UNCHANGED backup
    BY <1>2, <2>1
  <2>3. file = NoFile
    BY <2>2 DEF InOrderOfUse
  <2> QED
    BY <2>1, <2>2, <2>3, KernelAtHome
<1>4. CASE \E n \in Clusters, a \in Runs : ChangeBlob(n, a)
  <2>1. PICK n \in Clusters, a \in Runs : ChangeBlob(n, a)
    BY <1>4
  <2>2. PICK new \in Store : Turns(n, new)
    BY <2>1, ChangeBlobDoes
  <2>3. n # "home" /\ UNCHANGED <<commits, backup>>
    BY <1>2, <2>1, ChangeBlobDoes
  <2> QED
    BY <1>0, <1>1, <2>2, <2>3, TurnsTyped
<1>5. CASE Reading
  <2>1. PICK kind, items :
           /\ kind \in {"entity", "artifact", "event", "receipt"} /\ items = ListOf(cluster["home"], kind, options)
           /\ items \in Seq(StoreRecord) /\ backup'.items = backup.items \o items
           /\ kind \notin KindsRead(backup.step)
           /\ KindsRead(backup'.step) = KindsRead(backup.step) \cup {kind}
           /\ \/ backup # NoBackup /\ backup'.quiet = backup.quiet /\ backup'.health = backup.health
              \/ /\ backup = NoBackup /\ backup'.quiet = (\A c \in Commands : commits[c] = Idle)
                 /\ backup'.health = [verify |-> verify(cluster["home"]), doctor |-> doctor(cluster["home"])]
    BY <1>5, ReadingLists
  <2>2. UNCHANGED <<cluster, commits>>
    BY <1>5, ReadingDoes
  <2>3. PICK k, p : k = cluster["home"] /\ p = backup.items
    OBVIOUS
  <2>k. kind \in {"entity", "artifact", "event", "receipt"}
    BY <2>1
  <2>4. k \in Store /\ p \in Seq(StoreRecord) /\ kind \in AllKinds
    BY <2>k, <1>0, <2>3, StepBackup DEF AllKinds
  <2>5. Shows(items, k, kind, options) /\ \A i \in DOMAIN items : items[i].kind = kind
    BY <2>1, <2>3, <2>4, ListShows
  <2>6. \A i \in DOMAIN p : p[i].kind # kind
    BY <2>1, <2>3 DEF BackupSound
  <2>7. Shows(p \o items, k, kind, options)
    BY <2>1, <2>4, <2>5, <2>6, ShowsMore
  <2>8. KindsRead("none") = {} /\ NoBackup.step = "none"
    BY DEF KindsRead, NoBackup
  <2>9. \A other \in KindsRead(backup.step) : other \in AllKinds
    BY DEF KindsRead, AllKinds
  <2>10. /\ \A c \in Commands : commits[c] = Idle
         /\ backup'.health = [verify |-> verify(k), doctor |-> doctor(k)]
         /\ \A other \in KindsRead(backup.step) : Shows(p, k, other, options)
    <3>1. CASE backup = NoBackup
      BY <2>1, <2>3, <2>8, <3>1
    <3>2. CASE backup # NoBackup
      <4>1. backup.quiet /\ backup'.health = backup.health
        BY <2>1, <3>2
      <4> QED
        BY <2>3, <3>2, <4>1 DEF QuietBackup
    <3> QED
      BY <3>1, <3>2
  <2>11. ASSUME NEW other \in KindsRead(backup.step)
         PROVE  Shows(p \o items, k, other, options)
    <3>1. \A j \in DOMAIN items : items[j].kind # other
      BY <2>1, <2>5, <2>11
    <3> QED
      BY <2>1, <2>4, <2>9, <2>10, <3>1, ShowsMore
  <2> QED
    BY <2>1, <2>2, <2>3, <2>7, <2>10, <2>11
<1>6. CASE BackupContents
  BY <1>6, ContentsRead
<1>7. CASE RestoreStep
  <2>1. restore.step = "running" /\ UNCHANGED backup
    BY <1>7, RestoreBrings DEF OthersStay
  <2>2. file # NoFile
    BY <2>1, Running
  <2> QED
    BY <2>1, <2>2 DEF InOrderOfUse
<1>8. CASE UNCHANGED vars \/ AlterFile \/ CrashRestore \/ \E n \in Clusters : StartRestore(n)
  <2>1. UNCHANGED <<cluster, commits, backup>>
    BY <1>8, LeavesOutside DEF vars
  <2> QED
    BY <1>1, <2>1
<1> QED
  BY <1>3, <1>4, <1>5, <1>6, <1>7, <1>8, NextIsSteps DEF NextSteps

(* With the contents read, a file shows what the backup and home show.     *)
LEMMA FilledShows ==
  ASSUME Typed, NEW filled, Fills(filled), NEW kind \in {"entity", "artifact", "event", "receipt"},
         Shows(backup.items, cluster["home"], kind, options)
  PROVE  Shows(filled, cluster["home"], kind, options)
<1>1. PICK k, p : k = cluster["home"] /\ p = backup.items
  OBVIOUS
<1>2. /\ filled \in Seq(StoreRecord) /\ DOMAIN filled = DOMAIN p
      /\ \A i \in DOMAIN filled : /\ filled[i].kind = p[i].kind /\ filled[i].id = p[i].id
                                  /\ IF filled[i].kind = "artifact"
                                     THEN filled[i].blob = k.artifacts[filled[i].id].blob
                                     ELSE filled[i] = p[i]
  BY <1>1 DEF Fills
<1>3. \A i \in DOMAIN filled : filled[i] \in StoreRecord
  BY <1>2, InSeq
<1>4. CASE kind = "entity"
  <2>1. ShowsSet(p, "entity", Entities(k), EntityForms(k))
    BY <1>1, <1>4 DEF Shows
  <2>2. ShowsSet(filled, "entity", Entities(k), EntityForms(k))
    BY <1>2, <2>1 DEF ShowsSet
  <2> QED
    BY <1>1, <1>4, <2>2 DEF Shows
<1>5. CASE kind = "artifact"
  <2>1. ShowsSet(p, "artifact", Artifacts(k), ArtifactForms(k))
    BY <1>1, <1>5 DEF Shows
  <2>2. \A i \in DOMAIN filled : filled[i].kind = "artifact" => filled[i] \in ArtifactForms(k)
    <3> SUFFICES ASSUME NEW i \in DOMAIN filled, filled[i].kind = "artifact"
                 PROVE  filled[i] \in ArtifactForms(k)
      OBVIOUS
    <3>1. filled[i] \in ArtifactRecord
      BY <1>3, KindOfRecord DEF Record
    <3>2. filled[i].id \in Artifacts(k) /\ filled[i].blob = k.artifacts[filled[i].id].blob
      BY <1>2, <2>1 DEF ShowsSet
    <3> QED
      BY <3>1, <3>2 DEF ArtifactForms
  <2>3. ShowsSet(filled, "artifact", Artifacts(k), ArtifactForms(k))
    BY <1>2, <2>1, <2>2 DEF ShowsSet
  <2> QED
    BY <1>1, <1>5, <2>3 DEF Shows
<1>6. ASSUME NEW list, ShowsLog(p, kind, list), kind # "artifact", DOMAIN list = 1..Len(list) PROVE ShowsLog(filled, kind, list)
  <2>1. PICK o \in Nat :
          /\ \A i \in DOMAIN p : p[i].kind = kind <=> o < i /\ i <= o + Len(list)
          /\ \A j \in DOMAIN list : o + j \in DOMAIN p /\ p[o + j] \in list[j]
    BY <1>6 DEF ShowsLog
  <2>2. \A i \in DOMAIN filled : filled[i].kind = kind <=> o < i /\ i <= o + Len(list)
    BY <1>2, <2>1
  <2>3. p \in Seq(StoreRecord) /\ Len(p) \in Nat /\ DOMAIN p = 1..Len(p)
    BY <1>1, StepBackup, InSeq
  <2>4. ASSUME NEW j \in DOMAIN list PROVE o + j \in DOMAIN filled /\ filled[o + j] \in list[j]
    <3>1. o + j \in DOMAIN p /\ p[o + j] \in list[j]
      BY <2>1
    <3>2. PICK i \in DOMAIN p : i = o + j
      BY <3>1
    <3>3. filled[i].kind = kind
      <4>1. j \in 1..Len(list)
        BY <1>6
      <4>2. o < i /\ i <= o + Len(list)
        BY <2>1, <3>2, <4>1
      <4> QED
        BY <1>2, <2>2, <3>2, <4>2
    <3> QED
      BY <1>2, <1>6, <3>1, <3>2, <3>3
  <2> QED
    BY <2>2, <2>4 DEF ShowsLog
<1>7. DOMAIN EventForms(k) = 1..Len(EventForms(k)) /\ DOMAIN ReceiptForms(k) = 1..Len(ReceiptForms(k))
  BY <1>1, FormsAreLists DEF Typed, Clusters
<1>8. CASE kind = "event"
  BY <1>1, <1>6, <1>7, <1>8 DEF Shows
<1>9. CASE kind = "receipt"
  BY <1>1, <1>6, <1>7, <1>9 DEF Shows
<1> QED
  BY <1>4, <1>5, <1>8, <1>9

LEMMA FileShows ==
  ASSUME Typed, NEW filled, Fills(filled),
         \A kind \in {"entity", "artifact", "event", "receipt"} : Shows(backup.items, cluster["home"], kind, options)
  PROVE  Portrays(FileOf(filled), cluster["home"], options)
<1>1. PICK k, q, g, m : /\ k = cluster["home"] /\ q = QueueItems(k, options) /\ g = StagingItems(k, options)
                        /\ m = <<IndexMark>>
  OBVIOUS
<1>2. k \in Store
  BY <1>1 DEF Typed, Clusters
<1>3. filled \in Seq(Record) /\ m \in Seq(Record) /\ q \in Seq(Record) /\ g \in Seq(Record)
  BY <1>1, FileOfTyped
<1>4. \A i \in DOMAIN filled : filled[i].kind \in {"entity", "artifact", "event", "receipt"}
  <2>1. filled \in Seq(StoreRecord)
    BY DEF Fills
  <2>2. \A i \in DOMAIN filled : filled[i] \in StoreRecord
    BY <2>1, InSeq
  <2> QED
    BY <2>2, Kinds
<1>5. /\ Shows(m, k, "index", options) /\ \A i \in DOMAIN m : m[i].kind = "index"
      /\ Shows(q, k, "command", options) /\ \A i \in DOMAIN q : q[i].kind = "command"
      /\ Shows(g, k, "staging", options) /\ \A i \in DOMAIN g : g[i].kind = "staging"
  <2>1. /\ ListOf(k, "index", options) = m /\ ListOf(k, "command", options) = q /\ ListOf(k, "staging", options) = g
        /\ "index" \in AllKinds /\ "command" \in AllKinds /\ "staging" \in AllKinds
    BY <1>1 DEF ListOf, AllKinds
  <2> QED
    BY <1>2, <2>1, ListShows
<1>6. PICK a, b, F : a = filled \o m /\ b = a \o q /\ F = b \o g
  OBVIOUS
<1>7. a \in Seq(Record) /\ b \in Seq(Record) /\ Joins(a, filled, m) /\ Joins(b, a, q)
  <2>1. a \in Seq(Record)
    BY <1>3, <1>6
  <2>2. b \in Seq(Record)
    BY <1>3, <1>6, <2>1
  <2>3. Joins(a, filled, m)
    BY <1>3, <1>6, ConcatJoins
  <2>4. Joins(b, a, q)
    BY <1>3, <1>6, <2>1, ConcatJoins
  <2> QED
    BY <2>1, <2>2, <2>3, <2>4
<1>8. /\ \A i \in DOMAIN a : a[i].kind \in {"entity", "artifact", "event", "receipt", "index"}
      /\ \A i \in DOMAIN b : b[i].kind \in {"entity", "artifact", "event", "receipt", "index", "command"}
  BY <1>4, <1>5, <1>7 DEF Joins
<1>9. ASSUME NEW kind \in AllKinds, Shows(a, k, kind, options), kind \notin {"command", "staging"}
      PROVE  Shows(F, k, kind, options)
  <2>1. Shows(b, k, kind, options)
    BY <1>2, <1>3, <1>5, <1>6, <1>7, <1>9, ShowsMore
  <2> QED
    BY <1>2, <1>3, <1>5, <1>6, <1>7, <1>9, <2>1, ShowsMore
<1>10. ASSUME NEW kind \in {"entity", "artifact", "event", "receipt"} PROVE Shows(F, k, kind, options)
  <2>1. Shows(filled, k, kind, options)
    BY <1>1, FilledShows
  <2>2. kind \in AllKinds /\ kind \notin {"index", "command", "staging"}
    BY DEF AllKinds
  <2>3. \A j \in DOMAIN m : m[j].kind # kind
    BY <1>5, <2>2
  <2>4. Shows(a, k, kind, options)
    BY <1>2, <1>3, <1>6, <2>1, <2>2, <2>3, ShowsMore
  <2> QED
    BY <1>9, <2>2, <2>4
<1>11. Shows(F, k, "index", options)
  <2>1. "index" \in AllKinds /\ \A i \in DOMAIN filled : filled[i].kind # "index"
    BY <1>4 DEF AllKinds
  <2>2. Shows(a, k, "index", options)
    BY <1>2, <1>3, <1>5, <1>6, <2>1, ShowsMore
  <2> QED
    BY <1>9, <2>1, <2>2
<1>12. Shows(F, k, "command", options)
  <2>1. "command" \in AllKinds
    BY DEF AllKinds
  <2>2. Shows(b, k, "command", options)
    BY <1>2, <1>3, <1>5, <1>6, <1>7, <1>8, <2>1, ShowsMore
  <2> QED
    BY <1>2, <1>3, <1>5, <1>6, <1>7, <2>1, <2>2, ShowsMore
<1>13. Shows(F, k, "staging", options)
  <2>1. "staging" \in AllKinds
    BY DEF AllKinds
  <2> QED
    BY <1>2, <1>3, <1>5, <1>6, <1>7, <1>8, <2>1, ShowsMore
<1>14. FileOf(filled) = F
  BY <1>1, <1>6 DEF FileOf
<1> QED
  BY <1>1, <1>10, <1>11, <1>12, <1>13, <1>14 DEF Portrays, AllKinds

(* An edit leaves a record what it says of the others.                     *)
LEMMA AlterationForms ==
  ASSUME NEW x \in Record, NEW y \in Alterations(x), NEW k \in Store
  PROVE  /\ x.kind = "entity" /\ x \in EntityForms(k) => y \in EntityForms(k)
         /\ x.kind = "artifact" /\ x \in ArtifactForms(k) => y \in ArtifactForms(k)
         /\ x.kind = "staging" /\ x \in StagingForms(k) => y \in StagingForms(k)
         /\ x.kind = "event" => \A j \in DOMAIN k.events : x \in EventForms(k)[j] => y \in EventForms(k)[j]
         /\ x.kind = "receipt" => \A j \in DOMAIN k.receipts : x \in ReceiptForms(k)[j] => y \in ReceiptForms(k)[j]
         /\ x.kind \notin {"index", "command"}
<1>1. ASSUME x.kind = "entity" PROVE x \in EntityForms(k) => y \in EntityForms(k)
  <2>1. x \in EntityRecord /\ y = [x EXCEPT !.by = Forged]
    BY <1>1, KindOfRecord DEF Alterations
  <2>2. y \in EntityRecord /\ y.id = x.id /\ y.n = x.n
    BY <2>1 DEF EntityRecord, Forged
  <2> QED
    BY <2>2 DEF EntityForms
<1>2. ASSUME x.kind = "artifact" PROVE x \in ArtifactForms(k) => y \in ArtifactForms(k)
  <2>1. x \in ArtifactRecord /\ (y = [x EXCEPT !.filename = Forged] \/ y = [x EXCEPT !.blob = "damaged"])
    BY <1>2, KindOfRecord DEF Alterations
  <2>2. y \in ArtifactRecord /\ y.id = x.id /\ (y.blob = x.blob \/ y.blob = "damaged")
    BY <2>1 DEF ArtifactRecord, Forged, Blobs
  <2> QED
    BY <2>2 DEF ArtifactForms
<1>3. ASSUME x.kind = "staging" PROVE x \in StagingForms(k) => y \in StagingForms(k)
  <2>1. x \in StagingRecord /\ y = [x EXCEPT !.whole = FALSE]
    BY <1>3, KindOfRecord DEF Alterations
  <2>2. y \in StagingRecord /\ y.id = x.id
    BY <2>1 DEF StagingRecord
  <2> QED
    BY <2>2 DEF StagingForms
<1>4. ASSUME x.kind = "event"
      PROVE  \A j \in DOMAIN k.events : x \in EventForms(k)[j] => y \in EventForms(k)[j]
  <2>1. x \in EventRecord /\ y = [x EXCEPT !.whole = FALSE]
    BY <1>4, KindOfRecord DEF Alterations
  <2>2. y \in EventRecord /\ y.id = x.id /\ y.action = x.action /\ y.subject = x.subject /\ y.prev = x.prev
    BY <2>1 DEF EventRecord
  <2> QED
    BY <2>2 DEF EventForms
<1>5. ASSUME x.kind = "receipt"
      PROVE  \A j \in DOMAIN k.receipts : x \in ReceiptForms(k)[j] => y \in ReceiptForms(k)[j]
  <2>1. x \in ReceiptRecord /\ y = [x EXCEPT !.whole = FALSE]
    BY <1>5, KindOfRecord DEF Alterations
  <2>2. y \in ReceiptRecord /\ y.id = x.id /\ y.event = x.event /\ y.cmd = x.cmd /\ y.prev = x.prev
    BY <2>1 DEF ReceiptRecord
  <2> QED
    BY <2>2 DEF ReceiptForms
<1>6. x.kind \notin {"index", "command"}
  BY DEF Alterations
<1> QED
  BY <1>1, <1>2, <1>3, <1>4, <1>5, <1>6

LEMMA AlteredShows ==
  ASSUME NEW items \in Seq(Record), NEW k \in Store, Portrays(items, k, options),
         NEW i \in DOMAIN items, NEW y \in Alterations(items[i])
  PROVE  Portrays([items EXCEPT ![i] = y], k, options)
<1>1. PICK new, x : new = [items EXCEPT ![i] = y] /\ x = items[i]
  OBVIOUS
<1>2. /\ DOMAIN items = 1..Len(items) /\ Len(items) \in Nat
      /\ \A j \in DOMAIN items : items[j] \in Record
  BY InSeq
<1>3. /\ x \in Record /\ y \in Record /\ y.kind = x.kind /\ y.id = x.id
      /\ x.kind \notin {"index", "command"}
  BY <1>1, <1>2, AlterationTyped, AlterationForms
<1>4. /\ DOMAIN new = DOMAIN items
      /\ \A j \in DOMAIN items : new[j] = IF j = i THEN y ELSE items[j]
  BY <1>1
<1>5. ASSUME NEW kind, NEW ids, NEW S, ShowsSet(items, kind, ids, S), x.kind = kind => (x \in S => y \in S)
      PROVE  ShowsSet(new, kind, ids, S)
  <2>1. /\ \A j \in DOMAIN items : items[j].kind = kind => items[j].id \in ids /\ items[j] \in S
        /\ \A id \in ids : \E j \in DOMAIN items : items[j].kind = kind /\ items[j].id = id
    BY <1>5 DEF ShowsSet
  <2>2. \A j \in DOMAIN items : new[j].kind = items[j].kind /\ new[j].id = items[j].id
    BY <1>1, <1>3, <1>4
  <2>3. \A j \in DOMAIN items : items[j].kind = kind => new[j] \in S
    BY <1>1, <1>4, <1>5, <2>1
  <2>4. \A id \in ids : \E j \in DOMAIN items : new[j].kind = kind /\ new[j].id = id
    BY <2>1, <2>2
  <2> QED
    BY <1>4, <2>1, <2>2, <2>3, <2>4 DEF ShowsSet
<1>6. ASSUME NEW kind, NEW list, ShowsLog(items, kind, list), DOMAIN list = 1..Len(list),
             x.kind = kind => \A j \in DOMAIN list : (x \in list[j] => y \in list[j])
      PROVE  ShowsLog(new, kind, list)
  <2>1. PICK o \in Nat :
          /\ \A j \in DOMAIN items : items[j].kind = kind <=> o < j /\ j <= o + Len(list)
          /\ \A j \in DOMAIN list : o + j \in DOMAIN items /\ items[o + j] \in list[j]
    BY <1>6 DEF ShowsLog
  <2>2. \A j \in DOMAIN items : new[j].kind = items[j].kind
    BY <1>1, <1>3, <1>4
  <2>3. ASSUME NEW j \in DOMAIN list PROVE o + j \in DOMAIN new /\ new[o + j] \in list[j]
    <3>1. PICK l \in DOMAIN items : l = o + j
      BY <2>1
    <3>2. o < l /\ l <= o + Len(list)
      BY <1>6, <2>1, <3>1
    <3>3. items[l].kind = kind /\ items[l] \in list[j]
      BY <2>1, <3>1, <3>2
    <3> QED
      BY <1>1, <1>4, <1>6, <3>1, <3>3
  <2> QED
    BY <1>4, <2>1, <2>2, <2>3 DEF ShowsLog
<1>7. /\ Len(EventForms(k)) = Len(k.events) /\ DOMAIN EventForms(k) = 1..Len(EventForms(k))
      /\ DOMAIN EventForms(k) = DOMAIN k.events
      /\ Len(ReceiptForms(k)) = Len(k.receipts) /\ DOMAIN ReceiptForms(k) = 1..Len(ReceiptForms(k))
      /\ DOMAIN ReceiptForms(k) = DOMAIN k.receipts
  BY FormsAreLists
<1>8. \A kind \in AllKinds : Shows(items, k, kind, options)
  BY DEF Portrays
<1>9. Shows(new, k, "entity", options)
  <2>1. ShowsSet(items, "entity", Entities(k), EntityForms(k))
    BY <1>8 DEF Shows, AllKinds
  <2>2. ShowsSet(new, "entity", Entities(k), EntityForms(k))
    BY <1>1, <1>3, <1>5, <2>1, AlterationForms
  <2> QED
    BY <2>2 DEF Shows
<1>10. Shows(new, k, "artifact", options)
  <2>1. ShowsSet(items, "artifact", Artifacts(k), ArtifactForms(k))
    BY <1>8 DEF Shows, AllKinds
  <2>2. ShowsSet(new, "artifact", Artifacts(k), ArtifactForms(k))
    BY <1>1, <1>3, <1>5, <2>1, AlterationForms
  <2> QED
    BY <2>2 DEF Shows
<1>11. Shows(new, k, "event", options)
  <2>1. ShowsLog(items, "event", EventForms(k))
    BY <1>8 DEF Shows, AllKinds
  <2>2. x.kind = "event" => \A j \in DOMAIN EventForms(k) : (x \in EventForms(k)[j] => y \in EventForms(k)[j])
    BY <1>1, <1>3, <1>7, AlterationForms
  <2>3. ShowsLog(new, "event", EventForms(k))
    BY <1>6, <1>7, <2>1, <2>2
  <2> QED
    BY <2>3 DEF Shows
<1>12. Shows(new, k, "receipt", options)
  <2>1. ShowsLog(items, "receipt", ReceiptForms(k))
    BY <1>8 DEF Shows, AllKinds
  <2>2. x.kind = "receipt" => \A j \in DOMAIN ReceiptForms(k) : (x \in ReceiptForms(k)[j] => y \in ReceiptForms(k)[j])
    BY <1>1, <1>3, <1>7, AlterationForms
  <2>3. ShowsLog(new, "receipt", ReceiptForms(k))
    BY <1>6, <1>7, <2>1, <2>2
  <2> QED
    BY <2>3 DEF Shows
<1>13. Shows(new, k, "index", options)
  <2>1. ShowsSet(items, "index", {Forged}, {IndexMark})
    BY <1>8 DEF Shows, AllKinds
  <2>2. ShowsSet(new, "index", {Forged}, {IndexMark})
    BY <1>3, <1>5, <2>1
  <2> QED
    BY <2>2 DEF Shows
<1>14. Shows(new, k, "command", options)
  <2>1. PICK ids : ids = {c \in Commands : "commandQueue" \in options /\ k.commands[c] # "none"}
    OBVIOUS
  <2>2. ShowsSet(items, "command", ids, CommandForms(k))
    BY <1>8, <2>1 DEF Shows, AllKinds
  <2>3. ShowsSet(new, "command", ids, CommandForms(k))
    BY <1>3, <1>5, <2>2
  <2> QED
    BY <2>1, <2>3 DEF Shows
<1>15. Shows(new, k, "staging", options)
  <2>1. PICK ids : ids = {f \in k.staging : "dataDir" \in options}
    OBVIOUS
  <2>2. ShowsSet(items, "staging", ids, StagingForms(k))
    BY <1>8, <2>1 DEF Shows, AllKinds
  <2>3. ShowsSet(new, "staging", ids, StagingForms(k))
    BY <1>1, <1>3, <1>5, <2>2, AlterationForms
  <2> QED
    BY <2>1, <2>3 DEF Shows
<1> QED
  BY <1>1, <1>9, <1>10, <1>11, <1>12, <1>13, <1>14, <1>15 DEF Portrays, AllKinds

(* With no commit in flight home is settled.                               *)
LEMMA HomeSettles ==
  ASSUME Typed, HomeSound, AlteredStaysOut, file = NoFile, \A c \in Commands : commits[c] = Idle
  PROVE  Settled(cluster["home"])
<1>1. PICK k : k = cluster["home"]
  OBVIOUS
<1>2. LineageSound(k) /\ StoresSound(k) /\ LogsChained(k) /\ LedgerSound(k, commits)
  BY <1>1 DEF HomeSound
<1>3. \A r \in Logs(k) : r.whole
  BY <1>1 DEF AlteredStaysOut, Clusters
<1>4. Idle.step = "none"
  BY DEF Idle
<1>5. \A a : ~ Telling(commits, a)
  BY <1>4 DEF Telling
<1>6. \A run : ~ Owing(commits, run)
  BY <1>4 DEF Owing
<1>7. Forsaken(k, commits) => \E c \in Commands : k.commands[c] = "committed" /\ Unreceipted(k, c)
  BY DEF Forsaken
<1>8. \A a \in Artifacts(k) : Told(k, a)
  BY <1>2, <1>5 DEF LedgerSound
<1>9. \A j \in DOMAIN k.events : k.events[j].action = "mutation_committed" =>
        \/ Receipted(k, k.events[j].id)
        \/ \E c \in Commands : k.commands[c] = "committed" /\ Unreceipted(k, c)
  BY <1>2, <1>6, <1>7 DEF LedgerSound
<1> QED
  BY <1>1, <1>2, <1>3, <1>8, <1>9 DEF Settled

Alters(i, x) == file' = [file EXCEPT !.items[i] = x, !.altered = TRUE]

LEMMA AlterFileAlters ==
  ASSUME AlterFile
  PROVE  \E i \in DOMAIN file.items : \E x \in Alterations(file.items[i]) : Alters(i, x)
<1>1. PICK i \in DOMAIN file.items : \E x \in Alterations(file.items[i]) :
         file' = [file EXCEPT !.items[i] = x, !.altered = TRUE]
  BY DEF AlterFile
<1>2. PICK x \in Alterations(file.items[i]) : file' = [file EXCEPT !.items[i] = x, !.altered = TRUE]
  BY <1>1
<1>3. Alters(i, x)
  BY <1>2 DEF Alters
<1> QED
  BY <1>3

LEMMA QuietFileStep ==
  TypedInOrder /\ HomeSound /\ AlteredStaysOut /\ QuietBackup /\ QuietFile /\ [Next]_vars => QuietFile'
<1> SUFFICES ASSUME Typed, InOrderOfUse, HomeSound, AlteredStaysOut, QuietBackup, QuietFile, [Next]_vars
             PROVE  QuietFile'
  BY DEF TypedInOrder
<1>0. UNCHANGED options
  BY OptionsStay
<1>1. ASSUME UNCHANGED file PROVE QuietFile'
  BY <1>0, <1>1 DEF QuietFile
<1>2. CASE BackupContents
  <2>1. CASE UNCHANGED file
    BY <1>1, <2>1
  <2>2. CASE ~ UNCHANGED file
    <3>1. PICK filled : Fills(filled) /\ file' = [items |-> FileOf(filled), quiet |-> backup.quiet,
                                                   health |-> backup.health, altered |-> FALSE]
      BY <1>2, <2>2, ContentsRead
    <3>2. backup # NoBackup /\ backup.step = "contents"
      BY <1>2, ContentsRead
    <3>3. file'.items = FileOf(filled) /\ file'.quiet = backup.quiet /\ file'.health = backup.health
      BY <3>1
    <3>4. SUFFICES ASSUME backup.quiet PROVE QuietFile'
      BY <3>3 DEF QuietFile
    <3>5. PICK k : k = cluster["home"]
      OBVIOUS
    <3>6. /\ \A c \in Commands : commits[c] = Idle
          /\ backup.health = [verify |-> verify(k), doctor |-> doctor(k)]
          /\ \A kind \in {"entity", "artifact", "event", "receipt"} : Shows(backup.items, k, kind, options)
      BY <3>2, <3>4, <3>5 DEF QuietBackup, KindsRead
    <3>7. Portrays(FileOf(filled), k, options)
      BY <3>1, <3>5, <3>6, FileShows
    <3>8. Settled(k)
      <4>1. file = NoFile
        BY <3>2 DEF InOrderOfUse
      <4> QED
        BY <3>5, <3>6, <4>1, HomeSettles
    <3>9. k \in Store
      BY <3>5 DEF Typed, Clusters
    <3> QED
      BY <1>0, <3>3, <3>6, <3>7, <3>8, <3>9 DEF QuietFile
  <2> QED
    BY <2>1, <2>2
<1>3. CASE AlterFile
  <2>1. file # NoFile /\ file \in File
    BY <1>3 DEF AlterFile, Typed
  <2>9. PICK i \in DOMAIN file.items : \E x \in Alterations(file.items[i]) : Alters(i, x)
    BY <1>3, AlterFileAlters
  <2>2. PICK x \in Alterations(file.items[i]) : Alters(i, x)
    BY <2>9
  <2>3. PICK items : items = [file.items EXCEPT ![i] = x]
    OBVIOUS
  <2>4. file'.items = items /\ file'.quiet = file.quiet /\ file'.health = file.health
    BY <2>1, <2>2, <2>3 DEF File, Alters
  <2>5. SUFFICES ASSUME file.quiet PROVE QuietFile'
    BY <2>4 DEF QuietFile
  <2>6. PICK k \in Store :
          /\ Settled(k) /\ Portrays(file.items, k, options)
          /\ file.health = [verify |-> verify(k), doctor |-> doctor(k)]
    BY <2>1, <2>5 DEF QuietFile
  <2>7. Portrays(items, k, options)
    BY <2>3, <2>6, FileTyped, AlteredShows
  <2> QED
    BY <1>0, <2>4, <2>6, <2>7 DEF QuietFile
<1>4. CASE Kernel
  BY <1>1, <1>4, KernelDoes
<1>5. CASE Reading
  BY <1>1, <1>5, ReadingDoes
<1>6. CASE RestoreStep
  BY <1>1, <1>6, RestoreBrings DEF OthersStay
<1>7. CASE \E n \in Clusters, a \in Runs : ChangeBlob(n, a)
  BY <1>1, <1>7, ChangeBlobDoes
<1>8. CASE UNCHANGED vars \/ CrashRestore \/ \E n \in Clusters : StartRestore(n)
  <2>1. UNCHANGED file
    BY <1>8, LeavesOutside DEF vars
  <2> QED
    BY <1>1, <2>1
<1> QED
  BY <1>2, <1>3, <1>4, <1>5, <1>6, <1>7, <1>8, NextIsSteps DEF NextSteps

-----------------------------------------------------------------------------
(* What a restore of a quiet backup leaves of the store it shows.          *)
LEMMA PickedLogRemains ==
  ASSUME NEW items \in Seq(Record), Distinct(items), NEW kind \in {"event", "receipt"},
         NEW log, NEW o \in Nat, NEW l \in Nat, DOMAIN log = 1..l, log = [j \in 1..l |-> log[j]],
         NEW S, NEW val \in Seq(S), Len(val) = Len(items),
         \A i \in DOMAIN items : items[i].kind = kind <=> o < i /\ i <= o + l,
         \A j \in 1..l : o + j \in DOMAIN items /\ items[o + j].id = log[j].id
                         /\ (items[o + j].whole => val[o + j] = log[j]),
         NEW left, left = Pick(val, {i \in DOMAIN items : items[i].kind = kind /\ items[i].whole})
  PROVE  LogRemains(items, kind, log, left)
<1>1. PICK K : K = {i \in DOMAIN items : items[i].kind = kind /\ items[i].whole}
  OBVIOUS
<1>2. /\ Len(items) \in Nat /\ DOMAIN items = 1..Len(items) /\ DOMAIN val = 1..Len(items)
      /\ Len(val) \in Nat
  OBVIOUS
<1>3. /\ left \in Seq(S)
      /\ \A n \in DOMAIN left : Place(K, n) \in K /\ left[n] = val[Place(K, n)]
      /\ \A i \in K : \E n \in DOMAIN left : Place(K, n) = i
  <2>1. K \in SUBSET DOMAIN val /\ left = Pick(val, K)
    BY <1>1, <1>2
  <2>2. /\ Pick(val, K) \in Seq(S)
        /\ \A n \in DOMAIN Pick(val, K) : Place(K, n) \in K /\ Pick(val, K)[n] = val[Place(K, n)]
        /\ \A i \in K : \E n \in DOMAIN Pick(val, K) : Place(K, n) = i
    BY <2>1, PickPlaces
  <2> QED
    BY <2>1, <2>2
<1>4. ASSUME NEW i \in DOMAIN items, items[i].kind = kind
      PROVE  \E j \in 1..l : i = o + j
  <2>1. o < i /\ i <= o + l /\ i \in Nat
    BY <1>2, <1>4
  <2>2. i - o \in 1..l /\ i = o + (i - o)
    BY <2>1
  <2> QED
    BY <2>2
<1>5. ASSUME NEW j \in 1..l PROVE items[o + j].kind = kind
  <2>1. o < o + j /\ o + j <= o + l /\ o + j \in DOMAIN items
    OBVIOUS
  <2> QED
    BY <2>1
<1>6. \A i \in DOMAIN items : items[i].kind = kind => (Bad(items[i]) <=> ~ items[i].whole)
  BY DEF Bad
<1>7. ASSUME NEW j \in 1..l PROVE Lost(items, kind, log[j].id) <=> ~ items[o + j].whole
  <2>1. ASSUME ~ items[o + j].whole PROVE Lost(items, kind, log[j].id)
    BY <1>5, <1>6, <2>1 DEF Lost
  <2>2. ASSUME Lost(items, kind, log[j].id) PROVE ~ items[o + j].whole
    <3>1. PICK i \in DOMAIN items : items[i].kind = kind /\ items[i].id = log[j].id /\ Bad(items[i])
      BY <2>2 DEF Lost
    <3>2. i = o + j
      BY <1>5, <3>1 DEF Distinct
    <3> QED
      BY <1>6, <3>1, <3>2
  <2> QED
    BY <2>1, <2>2
<1>8. IdsDistinct(log)
  <2> SUFFICES ASSUME NEW i \in 1..l, NEW j \in 1..l, log[i].id = log[j].id PROVE i = j
    BY DEF IdsDistinct
  <2>1. o + i = o + j
    BY <1>5 DEF Distinct
  <2> QED
    BY <2>1
<1>9. ASSUME NEW j \in 1..l, ~ Lost(items, kind, log[j].id) PROVE \E i \in DOMAIN left : left[i] = log[j]
  <2>1. o + j \in K
    BY <1>1, <1>5, <1>7, <1>9
  <2>2. PICK n \in DOMAIN left : Place(K, n) = o + j
    BY <1>3, <2>1
  <2>3. left[n] = log[j]
    BY <1>1, <1>3, <2>1, <2>2
  <2> QED
    BY <2>3
<1>10. ASSUME NEW n \in DOMAIN left PROVE \E j \in 1..l : left[n] = log[j] /\ ~ Lost(items, kind, log[j].id)
  <2>1. Place(K, n) \in K /\ left[n] = val[Place(K, n)]
    BY <1>3
  <2>2. PICK i : i = Place(K, n)
    OBVIOUS
  <2>3. i \in DOMAIN items /\ items[i].kind = kind /\ items[i].whole /\ left[n] = val[i]
    BY <1>1, <2>1, <2>2
  <2>4. PICK j \in 1..l : i = o + j
    BY <1>4, <2>3
  <2> QED
    BY <1>7, <2>3, <2>4
<1>11. ASSUME NEW id, Lost(items, kind, id) PROVE \E j \in 1..l : log[j].id = id
  <2>1. PICK i \in DOMAIN items : items[i].kind = kind /\ items[i].id = id
    BY <1>11 DEF Lost
  <2>2. PICK j \in 1..l : i = o + j
    BY <1>4, <2>1
  <2> QED
    BY <2>1, <2>2
<1>12. ASSUME \A id : ~ Lost(items, kind, id) PROVE left = log
  <2>0. PICK s : s = IF l = 0 THEN 0 ELSE o
    OBVIOUS
  <2>s. s \in Nat /\ s + l <= Len(items)
    <3>1. CASE l = 0
      BY <1>2, <2>0, <3>1
    <3>2. CASE l # 0
      <4>1. o + l \in DOMAIN items
        BY <3>2
      <4> QED
        BY <1>2, <2>0, <3>2, <4>1
    <3> QED
      BY <3>1, <3>2
  <2>1. PICK a, b : a = s + 1 /\ b = s + l
    OBVIOUS
  <2>2. a \in Nat /\ b \in Nat /\ 1 <= a /\ a <= b + 1 /\ b <= Len(val)
    BY <2>s, <2>1
  <2>4. K = a..b
    <3>1. ASSUME NEW i \in K PROVE i \in a..b
      <4>1. i \in Nat /\ o < i /\ i <= o + l
        BY <1>1, <1>2
      <4>2. l # 0
        BY <4>1
      <4> QED
        BY <2>0, <2>1, <4>1, <4>2
    <3>2. ASSUME NEW i \in a..b PROVE i \in K
      <4>1. i - s \in 1..l /\ i = s + (i - s)
        BY <2>s, <2>1, <2>2
      <4>2. PICK j \in 1..l : i = s + j
        BY <4>1
      <4>3. i = o + j
        BY <2>0, <4>2
      <4> QED
        BY <1>1, <1>5, <1>7, <1>12, <4>2, <4>3
    <3> QED
      BY <3>1, <3>2
  <2>3. Pick(val, a..b) = [n \in 1..(b + 1 - a) |-> val[a + n - 1]]
    BY <2>2, PickInterval
  <2>5. left = [n \in 1..(b + 1 - a) |-> val[a + n - 1]]
    BY <1>1, <2>3, <2>4
  <2>6. b + 1 - a = l
    BY <2>s, <2>1
  <2>7. \A n \in 1..l : a + n - 1 = o + n /\ val[o + n] = log[n]
    <3> TAKE n \in 1..l
    <3>1. s = o
      BY <2>0
    <3>2. items[o + n].whole
      BY <1>7, <1>12
    <3> QED
      BY <2>1, <3>1, <3>2
  <2>8. left = [n \in 1..l |-> log[n]]
    BY <2>5, <2>6, <2>7
  <2> QED
    BY <2>8
<1> QED
  BY <1>8, <1>9, <1>10, <1>11, <1>12 DEF LogRemains

LEMMA EventsRemain ==
  ASSUME NEW items \in Seq(Record), Distinct(items), NEW k \in Store, Portrays(items, k, options), \A r \in Logs(k) : r.whole
  PROVE  LogRemains(items, "event", k.events, Left(items, Len(items)).events)
<1>1. PICK m, log, l : m = Len(items) /\ log = k.events /\ l = Len(log)
  OBVIOUS
<1>2. /\ m \in Nat /\ DOMAIN items = 1..m /\ \A i \in DOMAIN items : items[i] \in Record
  BY <1>1, InSeq
<1>3. log \in Seq(Event)
  BY <1>1, StoreFields
<1>4. l \in Nat /\ DOMAIN log = 1..l /\ log = [j \in 1..l |-> log[j]] /\ \A j \in 1..l : log[j] \in Event
  BY <1>1, <1>3
<1>5. \A j \in 1..l : log[j].whole
  BY <1>1, <1>4 DEF Logs, Range
<1>6. PICK o \in Nat :
        /\ \A i \in DOMAIN items : items[i].kind = "event" <=> o < i /\ i <= o + l
        /\ \A j \in 1..l : o + j \in DOMAIN items /\ items[o + j] \in EventForms(k)[j]
  <2>1. ShowsLog(items, "event", EventForms(k))
    BY DEF Portrays, Shows, AllKinds
  <2>2. Len(EventForms(k)) = l /\ DOMAIN EventForms(k) = 1..l
    BY <1>1, <1>4, FormsAreLists
  <2> QED
    BY <2>1, <2>2 DEF ShowsLog
<1>7. PICK val : val = [i \in 1..m |-> EventOf(items[i])]
  OBVIOUS
<1>8. PICK S : S = {val[i] : i \in 1..m}
  OBVIOUS
<1>9. val \in Seq(S) /\ Len(val) = m
  BY <1>2, <1>7, <1>8
<1>10. ASSUME NEW j \in 1..l
       PROVE  items[o + j].id = log[j].id /\ (items[o + j].whole => val[o + j] = log[j])
  <2>1. PICK x : x = items[o + j]
    OBVIOUS
  <2>2. x \in EventRecord /\ x.id = log[j].id /\ x.action = log[j].action /\ x.subject = log[j].subject
        /\ x.prev = log[j].prev
    BY <1>1, <1>4, <1>6, <2>1 DEF EventForms
  <2>3. val[o + j] = EventOf(x)
    BY <1>2, <1>6, <1>7, <2>1
  <2>4. log[j] \in Event /\ log[j].whole = TRUE
    BY <1>4, <1>5 DEF Event
  <2>5. x.whole \in BOOLEAN
    BY <2>2 DEF EventRecord
  <2>6. x.whole => EventOf(x) = log[j]
    BY <2>2, <2>4, <2>5 DEF EventOf, Event
  <2> QED
    BY <2>1, <2>2, <2>3, <2>6
<1>11. PICK K : K = {i \in DOMAIN items : items[i].kind = "event" /\ items[i].whole}
  OBVIOUS
<1>12. Left(items, m).events = Pick(val, K)
  <2>1. PICK p : p = WholeIn(items, m, "event")
    OBVIOUS
  <2>2. {i \in At(items, m, "event") : items[i].whole} = K
    BY <1>2, <1>11 DEF At
  <2>3. p = Pick(items, K)
    BY <2>1, <2>2 DEF WholeIn
  <2>4. K \in SUBSET DOMAIN items
    BY <1>11
  <2>5. \A n \in DOMAIN p : Place(K, n) \in K /\ p[n] = items[Place(K, n)]
    BY <2>3, <2>4, PickPlaces
  <2>6. DOMAIN p = 1..Cardinality(K)
    BY <2>3 DEF Pick
  <2>7. Left(items, m).events = [n \in DOMAIN p |-> EventOf(p[n])]
    BY <2>1, LeftParts DEF LeftEvents
  <2>8. \A n \in 1..Cardinality(K) : EventOf(p[n]) = val[Place(K, n)]
    BY <1>2, <1>7, <2>4, <2>5, <2>6
  <2> QED
    BY <2>6, <2>7, <2>8 DEF Pick
<1>13. PICK left : left = Left(items, m).events
  OBVIOUS
<1>14. left = Pick(val, {i \in DOMAIN items : items[i].kind = "event" /\ items[i].whole})
  BY <1>11, <1>12, <1>13
<1>15. \A j \in 1..l : o + j \in DOMAIN items /\ items[o + j].id = log[j].id
                      /\ (items[o + j].whole => val[o + j] = log[j])
  BY <1>6, <1>10
<1>16. val \in Seq(S) /\ Len(val) = Len(items) /\ DOMAIN log = 1..l /\ log = [j \in 1..l |-> log[j]]
  BY <1>1, <1>4, <1>9
<1>17. LogRemains(items, "event", log, left)
  BY <1>4, <1>6, <1>14, <1>15, <1>16, PickedLogRemains
<1> QED
  BY <1>1, <1>13, <1>17

LEMMA ReceiptsRemain ==
  ASSUME NEW items \in Seq(Record), Distinct(items), NEW k \in Store, Portrays(items, k, options), \A r \in Logs(k) : r.whole
  PROVE  LogRemains(items, "receipt", k.receipts, Left(items, Len(items)).receipts)
<1>1. PICK m, log, l : m = Len(items) /\ log = k.receipts /\ l = Len(log)
  OBVIOUS
<1>2. /\ m \in Nat /\ DOMAIN items = 1..m /\ \A i \in DOMAIN items : items[i] \in Record
  BY <1>1, InSeq
<1>3. log \in Seq(Receipt)
  BY <1>1, StoreFields
<1>4. l \in Nat /\ DOMAIN log = 1..l /\ log = [j \in 1..l |-> log[j]] /\ \A j \in 1..l : log[j] \in Receipt
  BY <1>1, <1>3
<1>5. \A j \in 1..l : log[j].whole
  BY <1>1, <1>4 DEF Logs, Range
<1>6. PICK o \in Nat :
        /\ \A i \in DOMAIN items : items[i].kind = "receipt" <=> o < i /\ i <= o + l
        /\ \A j \in 1..l : o + j \in DOMAIN items /\ items[o + j] \in ReceiptForms(k)[j]
  <2>1. ShowsLog(items, "receipt", ReceiptForms(k))
    BY DEF Portrays, Shows, AllKinds
  <2>2. Len(ReceiptForms(k)) = l /\ DOMAIN ReceiptForms(k) = 1..l
    BY <1>1, <1>4, FormsAreLists
  <2> QED
    BY <2>1, <2>2 DEF ShowsLog
<1>7. PICK val : val = [i \in 1..m |-> ReceiptOf(items[i])]
  OBVIOUS
<1>8. PICK S : S = {val[i] : i \in 1..m}
  OBVIOUS
<1>9. val \in Seq(S) /\ Len(val) = m
  BY <1>2, <1>7, <1>8
<1>10. ASSUME NEW j \in 1..l
       PROVE  items[o + j].id = log[j].id /\ (items[o + j].whole => val[o + j] = log[j])
  <2>1. PICK x : x = items[o + j]
    OBVIOUS
  <2>2. x \in ReceiptRecord /\ x.id = log[j].id /\ x.event = log[j].event /\ x.cmd = log[j].cmd
        /\ x.prev = log[j].prev
    BY <1>1, <1>4, <1>6, <2>1 DEF ReceiptForms
  <2>3. val[o + j] = ReceiptOf(x)
    BY <1>2, <1>6, <1>7, <2>1
  <2>4. log[j] \in Receipt /\ log[j].whole = TRUE
    BY <1>4, <1>5 DEF Receipt
  <2>5. x.whole \in BOOLEAN
    BY <2>2 DEF ReceiptRecord
  <2>6. x.whole => ReceiptOf(x) = log[j]
    BY <2>2, <2>4, <2>5 DEF ReceiptOf, Receipt
  <2> QED
    BY <2>1, <2>2, <2>3, <2>6
<1>11. PICK K : K = {i \in DOMAIN items : items[i].kind = "receipt" /\ items[i].whole}
  OBVIOUS
<1>12. Left(items, m).receipts = Pick(val, K)
  <2>1. PICK p : p = WholeIn(items, m, "receipt")
    OBVIOUS
  <2>2. {i \in At(items, m, "receipt") : items[i].whole} = K
    BY <1>2, <1>11 DEF At
  <2>3. p = Pick(items, K)
    BY <2>1, <2>2 DEF WholeIn
  <2>4. K \in SUBSET DOMAIN items
    BY <1>11
  <2>5. \A n \in DOMAIN p : Place(K, n) \in K /\ p[n] = items[Place(K, n)]
    BY <2>3, <2>4, PickPlaces
  <2>6. DOMAIN p = 1..Cardinality(K)
    BY <2>3 DEF Pick
  <2>7. Left(items, m).receipts = [n \in DOMAIN p |-> ReceiptOf(p[n])]
    BY <2>1, LeftParts DEF LeftReceipts
  <2>8. \A n \in 1..Cardinality(K) : ReceiptOf(p[n]) = val[Place(K, n)]
    BY <1>2, <1>7, <2>4, <2>5, <2>6
  <2> QED
    BY <2>6, <2>7, <2>8 DEF Pick
<1>13. PICK left : left = Left(items, m).receipts
  OBVIOUS
<1>14. left = Pick(val, {i \in DOMAIN items : items[i].kind = "receipt" /\ items[i].whole})
  BY <1>11, <1>12, <1>13
<1>15. \A j \in 1..l : o + j \in DOMAIN items /\ items[o + j].id = log[j].id
                      /\ (items[o + j].whole => val[o + j] = log[j])
  BY <1>6, <1>10
<1>16. val \in Seq(S) /\ Len(val) = Len(items) /\ DOMAIN log = 1..l /\ log = [j \in 1..l |-> log[j]]
  BY <1>1, <1>4, <1>9
<1>17. LogRemains(items, "receipt", log, left)
  BY <1>4, <1>6, <1>14, <1>15, <1>16, PickedLogRemains
<1> QED
  BY <1>1, <1>13, <1>17

LEMMA StoresStay ==
  ASSUME NEW items \in Seq(Record), Distinct(items), NEW k \in Store, Portrays(items, k, options)
  PROVE  StoresRemain(items, k, Left(items, Len(items)))
<1>1. PICK m, t : m = Len(items) /\ t = Left(items, m)
  OBVIOUS
<1>2. /\ m \in Nat /\ m \in 0..Len(items) /\ DOMAIN items = 1..m
      /\ \A i \in DOMAIN items : items[i] \in Record
  BY <1>1, InSeq
<1>3. /\ t.canonical = LeftCanonical(items, m) /\ t.artifacts = LeftArtifacts(items, m)
      /\ t.commands = LeftCommands(items, m) /\ t.staging = LeftStaging(items, m)
  BY <1>1, LeftParts
<1>4. \A kind, i : i \in At(items, m, kind) <=> i \in DOMAIN items /\ items[i].kind = kind
  BY <1>2 DEF At
<1>5. /\ ShowsSet(items, "entity", Entities(k), EntityForms(k))
      /\ ShowsSet(items, "artifact", Artifacts(k), ArtifactForms(k))
      /\ ShowsSet(items, "index", {Forged}, {IndexMark})
      /\ ShowsSet(items, "command", {c \in Commands : "commandQueue" \in options /\ k.commands[c] # "none"}, CommandForms(k))
      /\ ShowsSet(items, "staging", {f \in k.staging : "dataDir" \in options}, StagingForms(k))
  BY DEF Portrays, Shows, AllKinds
<1>6. /\ \A i \in At(items, m, "entity") : items[i].id \in Runs /\ t.canonical[items[i].id] = Sole(items[i])
      /\ \A e \in Runs : (\A i \in At(items, m, "entity") : items[i].id # e) => t.canonical[e] = <<>>
      /\ \A i \in At(items, m, "artifact") : items[i].id \in Runs /\ t.artifacts[items[i].id] = Stands(items[i])
      /\ \A a \in Runs : (\A i \in At(items, m, "artifact") : items[i].id # a) => t.artifacts[a] = NoArtifact
      /\ \A i \in At(items, m, "command") : items[i].id \in Commands /\ t.commands[items[i].id] = items[i].status
      /\ \A c \in Commands : (\A i \in At(items, m, "command") : items[i].id # c) => t.commands[c] = "none"
  BY <1>2, <1>3, LeftSays
<1>7. Entities(t) = Entities(k) /\ \A e \in Entities(k) : \E v : t.canonical[e] = <<v>> /\ v.n = Latest(k, e).n
  <2>1. ASSUME NEW e \in Entities(k)
        PROVE  e \in Entities(t) /\ \E v : t.canonical[e] = <<v>> /\ v.n = Latest(k, e).n
    <3>1. PICK i \in DOMAIN items : items[i].kind = "entity" /\ items[i].id = e
      BY <1>5 DEF ShowsSet
    <3>2. items[i] \in EntityForms(k)
      BY <1>5, <3>1 DEF ShowsSet
    <3>3. items[i].n = Latest(k, e).n
      BY <3>1, <3>2 DEF EntityForms
    <3>4. e \in Runs /\ t.canonical[e] = Sole(items[i])
      BY <1>4, <1>6, <3>1
    <3>5. PICK v : v = [n |-> items[i].n, by |-> items[i].by]
      OBVIOUS
    <3>6. t.canonical[e] = <<v>> /\ v.n = Latest(k, e).n
      BY <3>3, <3>4, <3>5 DEF Sole
    <3>7. \A w : <<w>> # <<>>
      OBVIOUS
    <3> QED
      BY <3>4, <3>6, <3>7 DEF Entities
  <2>2. ASSUME NEW e \in Entities(t) PROVE e \in Entities(k)
    <3>1. PICK i \in At(items, m, "entity") : items[i].id = e
      BY <1>6 DEF Entities
    <3> QED
      BY <1>4, <1>5, <3>1 DEF ShowsSet
  <2> QED
    BY <2>1, <2>2
<1>8. ASSUME NEW i \in DOMAIN items, items[i].kind = "artifact"
      PROVE  /\ items[i].id \in Artifacts(k) /\ items[i].id \in Runs
             /\ items[i].blob = "whole" => k.artifacts[items[i].id].blob = "whole"
             /\ Lost(items, "artifact", items[i].id) <=> items[i].blob # "whole"
             /\ items[i].id \in Artifacts(t) <=> items[i].blob = "whole"
             /\ items[i].id \in Artifacts(t) => t.artifacts[items[i].id].blob = "whole"
  <2>1. items[i] \in ArtifactForms(k) /\ items[i].id \in Artifacts(k)
    BY <1>5, <1>8 DEF ShowsSet
  <2>2. items[i].blob = "whole" => k.artifacts[items[i].id].blob = "whole"
    BY <2>1 DEF ArtifactForms
  <2>3. ASSUME Lost(items, "artifact", items[i].id) PROVE items[i].blob # "whole"
    <3>1. PICK j \in DOMAIN items : items[j].kind = "artifact" /\ items[j].id = items[i].id /\ Bad(items[j])
      BY <2>3 DEF Lost
    <3>2. i = j
      BY <1>8, <3>1 DEF Distinct
    <3> QED
      BY <1>8, <3>1, <3>2 DEF Bad
  <2>4. ASSUME items[i].blob # "whole" PROVE Lost(items, "artifact", items[i].id)
    BY <1>8, <2>4 DEF Lost, Bad
  <2>5. items[i].id \in Runs /\ t.artifacts[items[i].id] = Stands(items[i])
    BY <1>4, <1>6, <1>8
  <2>6. /\ items[i].blob = "whole" => Stands(items[i]) # NoArtifact /\ Stands(items[i]).blob = "whole"
        /\ items[i].blob # "whole" => Stands(items[i]) = NoArtifact
    BY DEF Stands, NoArtifact
  <2> QED
    BY <2>1, <2>2, <2>3, <2>4, <2>5, <2>6 DEF Artifacts
<1>9. \A a \in Artifacts(k) : \E i \in DOMAIN items : items[i].kind = "artifact" /\ items[i].id = a
  BY <1>5 DEF ShowsSet
<1>10. \A a \in Artifacts(t) : \E i \in DOMAIN items : items[i].kind = "artifact" /\ items[i].id = a
  BY <1>4, <1>6 DEF Artifacts
<1>11. \A a : Lost(items, "artifact", a) => \E i \in DOMAIN items : items[i].kind = "artifact" /\ items[i].id = a
  BY DEF Lost
<1>12. /\ \A a : a \in Artifacts(t) <=> a \in Artifacts(k) /\ ~ Lost(items, "artifact", a)
       /\ \A a \in Artifacts(t) : t.artifacts[a].blob = "whole" /\ k.artifacts[a].blob = "whole"
       /\ \A a : Lost(items, "artifact", a) => a \in Artifacts(k)
  BY <1>8, <1>9, <1>10, <1>11
<1>13. ASSUME ~ WithQueue, NEW c \in Commands PROVE t.commands[c] = "none"
  <2>1. \A i \in DOMAIN items : items[i].kind # "command"
    BY <1>5, <1>13 DEF ShowsSet, WithQueue
  <2> QED
    BY <1>4, <1>6, <2>1
<1>14. ASSUME WithQueue PROVE t.commands = k.commands
  <2>1. k.commands \in [Commands -> Statuses] /\ DOMAIN t.commands = Commands
    BY <1>3, StoreFields DEF LeftCommands
  <2>2. t.commands = [c \in Commands |-> t.commands[c]]
    BY <1>3 DEF LeftCommands
  <2>3. ASSUME NEW c \in Commands PROVE t.commands[c] = k.commands[c]
    <3>1. CASE k.commands[c] = "none"
      <4>1. \A i \in At(items, m, "command") : items[i].id # c
        BY <1>4, <1>5, <3>1 DEF ShowsSet
      <4> QED
        BY <1>6, <3>1, <4>1
    <3>2. CASE k.commands[c] # "none"
      <4>1. PICK i \in DOMAIN items : items[i].kind = "command" /\ items[i].id = c
        BY <1>5, <1>14, <3>2 DEF ShowsSet, WithQueue
      <4>2. items[i] \in CommandForms(k)
        BY <1>5, <4>1 DEF ShowsSet
      <4> QED
        BY <1>4, <1>6, <4>1, <4>2 DEF CommandForms
    <3> QED
      BY <3>1, <3>2
  <2> QED
    BY <2>1, <2>2, <2>3
<1>15. t.staging \subseteq k.staging
  <2> SUFFICES ASSUME NEW f \in t.staging PROVE f \in k.staging
    OBVIOUS
  <2>1. PICK i \in At(items, m, "staging") : items[i].id = f
    BY <1>3 DEF LeftStaging
  <2> QED
    BY <1>4, <1>5, <2>1 DEF ShowsSet
<1> QED
  BY <1>1, <1>7, <1>12, <1>13, <1>14, <1>15 DEF StoresRemain

LEMMA AlikeRemain ==
  ASSUME NEW items, NEW k, NEW l, NEW t, Alike(t, l), StoresRemain(items, k, l)
  PROVE  StoresRemain(items, k, t)
<1>1. Entities(t) = Entities(l) /\ Artifacts(t) = Artifacts(l)
  BY AlikeSources
<1> QED
  BY <1>1 DEF StoresRemain, Alike

LEMMA LineageCut ==
  ASSUME NEW k \in Store, LineageSound(k), NEW items, NEW t, StoresRemain(items, k, t)
  PROVE  /\ canonical_lineage_intact(k) = "healthy"
         /\ canonical_lineage_intact(t) = IF NeverRewritten(k) THEN "healthy" ELSE "corrupt"
<1>1. canonical_lineage_intact(k) = "healthy"
  BY DEF LineageSound, canonical_lineage_intact, Unless
<1>2. ASSUME NEW e \in Entities(k)
      PROVE  {v.n : v \in Range(t.canonical[e])} # 1 .. Latest(t, e).n <=> Latest(k, e).n # 1
  <2>1. PICK w : t.canonical[e] = <<w>> /\ w.n = Latest(k, e).n
    BY DEF StoresRemain
  <2>2. PICK n : n = w.n
    OBVIOUS
  <2>3. n \in Nat
    BY <2>1, <2>2, LatestTyped DEF Version
  <2>4. Range(t.canonical[e]) = {w} /\ Latest(t, e) = w
    <3>1. \A x : DOMAIN <<x>> = {1} /\ <<x>>[1] = x /\ Len(<<x>>) = 1
      OBVIOUS
    <3> QED
      BY <2>1, <3>1 DEF Range, Latest
  <2>5. {v.n : v \in Range(t.canonical[e])} = {n}
    BY <2>2, <2>4
  <2>6. {n} = 1 .. n <=> n = 1
    BY <2>3
  <2> QED
    BY <2>1, <2>2, <2>4, <2>5, <2>6
<1>3. Entities(t) = Entities(k)
  BY DEF StoresRemain
<1>4. (\E e \in Entities(t) : {v.n : v \in Range(t.canonical[e])} # 1 .. Latest(t, e).n) <=> ~ NeverRewritten(k)
  BY <1>2, <1>3 DEF NeverRewritten
<1> QED
  BY <1>1, <1>4 DEF canonical_lineage_intact, Unless

LEMMA IndexAndStaging ==
  ASSUME NEW k, StoresSound(k)
  PROVE  index_references_valid(k) = "healthy" /\ index_populated(k) = "healthy" /\ no_orphan_staging(k) = "healthy"
<1>1. k.index = Sources(k) /\ \A f \in k.staging : k.commands[f] # "none"
  BY DEF StoresSound
<1>2. k.index \ Sources(k) = {} /\ Entities(k) \ k.index = {} /\ ~ (k.index = {} /\ Sources(k) # {})
  BY <1>1 DEF Sources
<1>3. no_orphan_staging(k) = "healthy"
  BY <1>1 DEF no_orphan_staging, Unless
<1> QED
  BY <1>2, <1>3 DEF index_references_valid, index_populated, Unless

LEMMA StagingRemains ==
  ASSUME WithQueue, NEW k, StoresSound(k), NEW items, NEW t, StoresRemain(items, k, t)
  PROVE  no_orphan_staging(t) = "healthy"
<1>1. \A f \in t.staging : t.commands[f] # "none"
  BY DEF StoresRemain, StoresSound
<1> QED
  BY <1>1 DEF no_orphan_staging, Unless

(* One more check in a verdict; one that is healthy changes nothing.       *)
LEMMA HealthJoins ==
  ASSUME NEW S, NEW x
  PROVE  /\ buildClusterHealth(S \cup {x}) = buildClusterHealth({x, buildClusterHealth(S)})
         /\ buildClusterHealth(S \cup {"healthy"}) = buildClusterHealth(S)
<1>1. buildClusterHealth(S \cup {"healthy"}) = buildClusterHealth(S)
  <2>1. (S \cup {"healthy"}) \cap {"stale", "degraded"} = S \cap {"stale", "degraded"}
    OBVIOUS
  <2> QED
    BY <2>1 DEF buildClusterHealth
<1>2. buildClusterHealth(S) \in {"corrupt", "unreachable", "degraded", "healthy"}
  BY DEF buildClusterHealth, Unless
<1>3. /\ (S \cup {x}) \cap {"stale", "degraded"} # {} <=> S \cap {"stale", "degraded"} # {} \/ x \in {"stale", "degraded"}
      /\ \A y : {x, y} \cap {"stale", "degraded"} # {} <=> y \in {"stale", "degraded"} \/ x \in {"stale", "degraded"}
  OBVIOUS
<1>4. CASE "corrupt" \in S
  BY <1>4 DEF buildClusterHealth
<1>5. CASE "corrupt" \notin S /\ "unreachable" \in S
  <2>1. buildClusterHealth(S) = "unreachable"
    BY <1>5 DEF buildClusterHealth
  <2> QED
    BY <1>5, <2>1 DEF buildClusterHealth
<1>6. CASE "corrupt" \notin S /\ "unreachable" \notin S
  <2>1. buildClusterHealth(S) = Unless(S \cap {"stale", "degraded"} # {}, "degraded")
    BY <1>6 DEF buildClusterHealth
  <2> QED
    BY <1>3, <1>6, <2>1 DEF buildClusterHealth, Unless
<1> QED
  BY <1>1, <1>4, <1>5, <1>6

LEMMA SameRecords ==
  ASSUME NEW k \in Store, Settled(k), NEW items, NEW t, Remains(items, k, t),
         \A kind \in {"artifact", "event", "receipt"} : \A id : ~ Lost(items, kind, id)
  PROVE  /\ t.events = k.events /\ t.receipts = k.receipts
         /\ Artifacts(t) = Artifacts(k) /\ Sources(t) = Sources(k)
         /\ artifact_content_integrity(t) = "healthy"
<1>1. t.events = k.events /\ t.receipts = k.receipts
  BY DEF Remains, LogRemains
<1>2. Entities(t) = Entities(k) /\ Artifacts(t) = Artifacts(k)
  BY DEF Remains, StoresRemain
<1>3. artifact_content_integrity(t) = "healthy"
  BY DEF Remains, StoresRemain, artifact_content_integrity, Unless
<1> QED
  BY <1>1, <1>2, <1>3 DEF Sources

LEMMA SameHealth ==
  ASSUME WithQueue, NEW k \in Store, Settled(k), NEW items, NEW t, Remains(items, k, t),
         \A kind \in {"artifact", "event", "receipt"} : \A id : ~ Lost(items, kind, id)
  PROVE  /\ doctor(t) = buildClusterHealth({doctor(k), index_populated(t)})
         /\ verify(t) = buildClusterHealth({index_references_valid(t),
                           IF NeverRewritten(k) THEN verify(k) ELSE "corrupt"})
<1>1. /\ t.events = k.events /\ t.receipts = k.receipts /\ t.commands = k.commands
      /\ Artifacts(t) = Artifacts(k) /\ Sources(t) = Sources(k)
  BY SameRecords DEF Remains, StoresRemain
<1>4. no_orphaned_mutations(t) = no_orphaned_mutations(k)
  BY <1>1 DEF no_orphaned_mutations
<1>5. provenance_references_valid(t) = provenance_references_valid(k)
  BY <1>1 DEF provenance_references_valid
<1>6. receipts_provenance_valid(t) = receipts_provenance_valid(k)
  BY <1>1 DEF receipts_provenance_valid
<1>7. artifact_content_integrity(t) = artifact_content_integrity(k)
  BY <1>1 DEF Remains, StoresRemain, artifact_content_integrity, Unless
<1>8. ledger_integrity_chain(t) = ledger_integrity_chain(k)
  BY <1>1 DEF ledger_integrity_chain
<1>9. command_receipt_bijection(t) = command_receipt_bijection(k)
  BY <1>1 DEF command_receipt_bijection, Committed, ReceiptsOf
<1>10. PICK S : S = SharedChecks(k) /\ S = SharedChecks(t)
  BY <1>4, <1>5, <1>6, <1>7, <1>8, <1>9 DEF SharedChecks
<1>11. StoresSound(k) /\ LineageSound(k) /\ StoresRemain(items, k, t)
  BY DEF Settled, Remains
<1>12. doctor(t) = buildClusterHealth({doctor(k), index_populated(t)})
  <2>1. PICK x : x = index_populated(t)
    OBVIOUS
  <2>2. /\ index_populated(k) = "healthy" /\ no_orphan_staging(k) = "healthy"
        /\ no_orphan_staging(t) = "healthy"
    BY <1>11, IndexAndStaging, StagingRemains
  <2>3. doctor(k) = buildClusterHealth(S \cup {"healthy", "healthy"})
    BY <1>10, <2>2 DEF doctor
  <2>4. doctor(t) = buildClusterHealth(S \cup {x, "healthy"})
    BY <1>10, <2>1, <2>2 DEF doctor
  <2>5. PICK T : T = S \cup {"healthy"}
    OBVIOUS
  <2>6. S \cup {"healthy", "healthy"} = T /\ S \cup {x, "healthy"} = T \cup {x}
    BY <2>5
  <2>7. doctor(k) = buildClusterHealth(T) /\ doctor(t) = buildClusterHealth(T \cup {x})
    BY <2>3, <2>4, <2>6
  <2>8. doctor(t) = buildClusterHealth({x, doctor(k)})
    BY <2>7, HealthJoins
  <2>9. \A y, z : {y, z} = {z, y}
    OBVIOUS
  <2> QED
    BY <2>1, <2>8, <2>9
<1>13. canonical_lineage_intact(k) = "healthy"
       /\ canonical_lineage_intact(t) = IF NeverRewritten(k) THEN "healthy" ELSE "corrupt"
  BY <1>11, LineageCut
<1>14. CASE NeverRewritten(k)
  <2>1. PICK x : x = index_references_valid(t)
    OBVIOUS
  <2>2. index_references_valid(k) = "healthy"
    BY <1>11, IndexAndStaging
  <2>3. verify(k) = buildClusterHealth(S \cup {"healthy", "healthy"})
    BY <1>10, <1>13, <2>2 DEF verify
  <2>4. verify(t) = buildClusterHealth(S \cup {x, "healthy"})
    BY <1>10, <1>13, <1>14, <2>1 DEF verify
  <2>5. PICK T : T = S \cup {"healthy"}
    OBVIOUS
  <2>6. S \cup {"healthy", "healthy"} = T /\ S \cup {x, "healthy"} = T \cup {x}
    BY <2>5
  <2>7. verify(k) = buildClusterHealth(T) /\ verify(t) = buildClusterHealth(T \cup {x})
    BY <2>3, <2>4, <2>6
  <2>8. verify(t) = buildClusterHealth({x, verify(k)})
    BY <2>7, HealthJoins
  <2> QED
    BY <1>12, <1>14, <2>1, <2>8
<1>15. CASE ~ NeverRewritten(k)
  <2>1. canonical_lineage_intact(t) = "corrupt"
    BY <1>13, <1>15
  <2>2. verify(t) = "corrupt"
    BY <2>1 DEF verify, buildClusterHealth
  <2>3. \A x : buildClusterHealth({x, "corrupt"}) = "corrupt"
    BY DEF buildClusterHealth
  <2> QED
    BY <1>12, <1>15, <2>2, <2>3
<1> QED
  BY <1>14, <1>15, <1>12

LEMMA HealthyAgain ==
  ASSUME WithQueue, NEW k \in Store, Settled(k), NEW items, NEW t, Remains(items, k, t),
         \A kind \in {"artifact", "event", "receipt"} : \A id : ~ Lost(items, kind, id),
         doctor(k) = "healthy", index_populated(t) = "healthy"
  PROVE  doctor(t) = "healthy"
<1>1. doctor(t) = buildClusterHealth({doctor(k), index_populated(t)})
  BY SameHealth
<1>2. buildClusterHealth({"healthy", "healthy"}) = "healthy"
  BY DEF buildClusterHealth, Unless
<1> QED
  BY <1>1, <1>2

(* Without the queue every receipt is one of a command never committed;    *)
(* with no receipt there is nothing to disagree.                           *)
LEMMA QueuelessHealth ==
  ASSUME ~ WithQueue, NEW k \in Store, Settled(k), NEW items, NEW t, Remains(items, k, t),
         \A kind \in {"artifact", "event", "receipt"} : \A id : ~ Lost(items, kind, id)
  PROVE  /\ doctor(t) = "corrupt" <=> DOMAIN t.receipts # {}
         /\ verify(t) = "corrupt" <=> DOMAIN t.receipts # {} \/ ~ NeverRewritten(k)
<1>1. /\ t.events = k.events /\ t.receipts = k.receipts
      /\ artifact_content_integrity(t) = "healthy"
  BY SameRecords
<1>2. Committed(t) = {}
  BY DEF Remains, StoresRemain, Committed
<1>3. /\ index_references_valid(t) # "corrupt" /\ index_populated(t) # "corrupt"
      /\ no_orphan_staging(t) # "corrupt"
      /\ no_orphaned_mutations(t) # "corrupt" /\ provenance_references_valid(t) # "corrupt"
      /\ receipts_provenance_valid(t) # "corrupt"
  <2>1. t.index \ Sources(t) = {}
    BY DEF Remains
  <2> QED
    BY <2>1 DEF index_references_valid, index_populated, no_orphan_staging, no_orphaned_mutations,
                provenance_references_valid, receipts_provenance_valid, Unless
<1>4. ledger_integrity_chain(t) = "healthy"
  <2>1. Chained(t.events) /\ Chained(t.receipts)
    BY <1>1 DEF Settled, LogsChained
  <2>2. /\ \A i \in DOMAIN t.events : t.events[i].whole
        /\ \A i \in DOMAIN t.receipts : t.receipts[i].whole
    BY <1>1 DEF Settled, Logs, Range
  <2> QED
    BY <2>1, <2>2 DEF Chained, ledger_integrity_chain, checkIntegrityChain, Unless
<1>5. command_receipt_bijection(t) = IF DOMAIN t.receipts # {} THEN "corrupt" ELSE "healthy"
  BY <1>2 DEF command_receipt_bijection, Unless
<1>6. \A S : buildClusterHealth(S) = "corrupt" <=> "corrupt" \in S
  BY DEF buildClusterHealth, Unless
<1>7. "corrupt" \in SharedChecks(t) <=> DOMAIN t.receipts # {}
  BY <1>1, <1>3, <1>4, <1>5 DEF SharedChecks
<1>8. doctor(t) = "corrupt" <=> DOMAIN t.receipts # {}
  BY <1>3, <1>6, <1>7 DEF doctor
<1>9. canonical_lineage_intact(t) = IF NeverRewritten(k) THEN "healthy" ELSE "corrupt"
  BY LineageCut DEF Settled, Remains
<1>10. verify(t) = "corrupt" <=> DOMAIN t.receipts # {} \/ ~ NeverRewritten(k)
  BY <1>3, <1>6, <1>7, <1>9 DEF verify
<1> QED
  BY <1>8, <1>10

(* What a healthy verdict of doctor() says.                                *)
LEMMA DoctorSays ==
  ASSUME NEW k
  PROVE  doctor(k) = "healthy" <=>
           /\ \A i \in DOMAIN k.events : k.events[i].action # "mutation_orphaned"
           /\ \A i \in DOMAIN k.events : k.events[i].subject \in Sources(k)
           /\ \A r \in Range(k.receipts) : Named(k.events, r.event) # {}
           /\ \A r \in Range(k.receipts) : \A i \in Named(k.events, r.event) : k.events[i].whole
           /\ \A a \in Artifacts(k) : k.artifacts[a].blob = "whole"
           /\ checkIntegrityChain(k.events) /\ checkIntegrityChain(k.receipts)
           /\ \A i \in DOMAIN k.receipts : k.receipts[i].cmd \in Committed(k)
           /\ \A c \in Committed(k) : Cardinality(ReceiptsOf(k, c)) = 1
           /\ index_populated(k) = "healthy"
           /\ no_orphan_staging(k) = "healthy"
<1>1. PICK S : S = SharedChecks(k) \cup {index_populated(k), no_orphan_staging(k)}
  OBVIOUS
<1>2. S = {no_orphaned_mutations(k), provenance_references_valid(k), receipts_provenance_valid(k),
           artifact_content_integrity(k), ledger_integrity_chain(k), command_receipt_bijection(k),
           index_populated(k), no_orphan_staging(k)}
  BY <1>1 DEF SharedChecks
<1>3. S \subseteq {"healthy", "corrupt", "unreachable", "stale", "degraded"}
  BY <1>2 DEF no_orphaned_mutations, provenance_references_valid, receipts_provenance_valid,
              artifact_content_integrity, ledger_integrity_chain, command_receipt_bijection,
              index_populated, no_orphan_staging, Unless
<1>4. doctor(k) = "healthy" <=> \A s \in S : s = "healthy"
  <2>1. doctor(k) = buildClusterHealth(S)
    BY <1>1 DEF doctor
  <2> QED
    BY <1>3, <2>1 DEF buildClusterHealth, Unless
<1>5. doctor(k) = "healthy" <=>
        /\ no_orphaned_mutations(k) = "healthy" /\ provenance_references_valid(k) = "healthy"
        /\ receipts_provenance_valid(k) = "healthy" /\ artifact_content_integrity(k) = "healthy"
        /\ ledger_integrity_chain(k) = "healthy" /\ command_receipt_bijection(k) = "healthy"
        /\ index_populated(k) = "healthy" /\ no_orphan_staging(k) = "healthy"
  BY <1>2, <1>4
<1>6. no_orphaned_mutations(k) = "healthy" <=> \A i \in DOMAIN k.events : k.events[i].action # "mutation_orphaned"
  BY DEF no_orphaned_mutations, Unless
<1>7. provenance_references_valid(k) = "healthy" <=> \A i \in DOMAIN k.events : k.events[i].subject \in Sources(k)
  BY DEF provenance_references_valid, Unless
<1>8. receipts_provenance_valid(k) = "healthy" <=>
        /\ \A r \in Range(k.receipts) : Named(k.events, r.event) # {}
        /\ \A r \in Range(k.receipts) : \A i \in Named(k.events, r.event) : k.events[i].whole
  BY DEF receipts_provenance_valid, Unless
<1>9. artifact_content_integrity(k) = "healthy" <=> \A a \in Artifacts(k) : k.artifacts[a].blob = "whole"
  BY DEF artifact_content_integrity, Unless
<1>10. ledger_integrity_chain(k) = "healthy" <=> checkIntegrityChain(k.events) /\ checkIntegrityChain(k.receipts)
  BY DEF ledger_integrity_chain, Unless
<1>11. command_receipt_bijection(k) = "healthy" <=>
         /\ \A i \in DOMAIN k.receipts : k.receipts[i].cmd \in Committed(k)
         /\ \A c \in Committed(k) : Cardinality(ReceiptsOf(k, c)) = 1
  BY DEF command_receipt_bijection, Unless
<1> QED
  BY <1>5, <1>6, <1>7, <1>8, <1>9, <1>10, <1>11

LEMMA StalenessSays ==
  ASSUME NEW k
  PROVE  /\ "stale" \in checkReceipts(k) <=> \E r \in Range(k.receipts) : Named(k.events, r.event) = {}
         /\ "stale" \in checkProvenance(k) <=> \E i \in DOMAIN k.events : k.events[i].subject \notin Sources(k)
<1>1. \A log : Tampered(log) # "stale"
  BY DEF Tampered, Unless
<1> QED
  BY <1>1 DEF checkReceipts, checkProvenance, Unless

(* One receipt per committed command: losing it shows.                     *)
LEMMA OnlyReceipt ==
  ASSUME NEW k \in Store, NEW c, Cardinality(ReceiptsOf(k, c)) = 1
  PROVE  \E j \in DOMAIN k.receipts : ReceiptsOf(k, c) = {j}
<1>1. k.receipts \in Seq(Receipt) /\ DOMAIN k.receipts = 1..Len(k.receipts) /\ Len(k.receipts) \in Nat
  BY StoreFields
<1>2. IsFiniteSet(1..Len(k.receipts))
  BY <1>1, FS_Interval
<1>3. IsFiniteSet(ReceiptsOf(k, c))
  BY <1>1, <1>2, FS_Subset DEF ReceiptsOf
<1>4. \E x : ReceiptsOf(k, c) = {x}
  BY <1>3, FS_Singleton
<1> QED
  BY <1>4 DEF ReceiptsOf

LEMMA LossesShow ==
  ASSUME WithQueue, NEW k \in Store, NEW t \in Store, Settled(k), doctor(k) = "healthy",
         NEW items, Remains(items, k, t), doctor(t) = "healthy",
         NEW kind \in {"artifact", "event", "receipt"}, NEW id
  PROVE  ~ Lost(items, kind, id)
<1>1. /\ \A i \in DOMAIN k.events : k.events[i].action # "mutation_orphaned"
      /\ \A i \in DOMAIN k.receipts : k.receipts[i].cmd \in Committed(k)
      /\ \A c \in Committed(k) : Cardinality(ReceiptsOf(k, c)) = 1
  BY DoctorSays
<1>2. /\ \A i \in DOMAIN t.events : t.events[i].subject \in Sources(t)
      /\ \A r \in Range(t.receipts) : Named(t.events, r.event) # {}
      /\ \A c \in Committed(t) : Cardinality(ReceiptsOf(t, c)) = 1
  BY DoctorSays
<1>3. /\ LogRemains(items, "event", k.events, t.events)
      /\ LogRemains(items, "receipt", k.receipts, t.receipts)
      /\ StoresRemain(items, k, t)
  BY DEF Remains
<1>4. \A x : ~ Lost(items, "receipt", x)
  <2> SUFFICES ASSUME NEW x, Lost(items, "receipt", x) PROVE FALSE
    OBVIOUS
  <2>1. PICK j \in DOMAIN k.receipts : k.receipts[j].id = x
    BY <1>3 DEF LogRemains
  <2>2. PICK c : c = k.receipts[j].cmd
    OBVIOUS
  <2>3. c \in Committed(k) /\ c \in Committed(t)
    BY <1>1, <1>3, <2>1, <2>2 DEF StoresRemain, Committed
  <2>4. PICK one : ReceiptsOf(k, c) = {one}
    BY <1>1, <2>3, OnlyReceipt
  <2>5. PICK i \in DOMAIN t.receipts : ReceiptsOf(t, c) = {i}
    BY <1>2, <2>3, OnlyReceipt
  <2>6. t.receipts[i].cmd = c
    BY <2>5 DEF ReceiptsOf
  <2>7. PICK l \in DOMAIN k.receipts : t.receipts[i] = k.receipts[l] /\ ~ Lost(items, "receipt", k.receipts[l].id)
    BY <1>3 DEF LogRemains
  <2>8. l \in ReceiptsOf(k, c) /\ j \in ReceiptsOf(k, c)
    BY <2>1, <2>2, <2>6, <2>7 DEF ReceiptsOf
  <2>9. l = j
    BY <2>4, <2>8
  <2> QED
    BY <2>1, <2>7, <2>9
<1>5. \A x : ~ Lost(items, "event", x)
  <2> SUFFICES ASSUME NEW x, Lost(items, "event", x) PROVE FALSE
    OBVIOUS
  <2>1. PICK j \in DOMAIN k.events : k.events[j].id = x
    BY <1>3 DEF LogRemains
  <2>2. k.events[j].action = "mutation_committed"
    <3>1. k.events[j] \in Event
      BY StoreFields, InSeq
    <3> QED
      BY <1>1, <2>1, <3>1 DEF Event, Actions
  <2>3. Receipted(k, x)
    <3>1. ASSUME NEW c \in Commands, k.commands[c] = "committed", Unreceipted(k, c) PROVE FALSE
      <4>1. Cardinality(ReceiptsOf(k, c)) = 1
        BY <1>1, <3>1 DEF Committed
      <4>2. ReceiptsOf(k, c) = {}
        BY <3>1 DEF Unreceipted, ReceiptsOf
      <4>3. PICK l : ReceiptsOf(k, c) = {l}
        BY <4>1, OnlyReceipt
      <4> QED
        BY <4>2, <4>3
    <3> QED
      BY <2>1, <2>2, <3>1 DEF Settled
  <2>4. PICK l \in DOMAIN k.receipts : k.receipts[l].event = x
    BY <2>3 DEF Receipted
  <2>5. PICK i \in DOMAIN t.receipts : t.receipts[i] = k.receipts[l]
    BY <1>3, <1>4, <2>4 DEF LogRemains
  <2>6. Named(t.events, x) # {}
    BY <1>2, <2>4, <2>5 DEF Range
  <2>7. PICK n \in DOMAIN t.events : t.events[n].id = x
    BY <2>6 DEF Named
  <2>8. ~ Lost(items, "event", x)
    BY <1>3, <2>7 DEF LogRemains
  <2> QED
    BY <2>8
<1>6. \A x : ~ Lost(items, "artifact", x)
  <2> SUFFICES ASSUME NEW x, Lost(items, "artifact", x) PROVE FALSE
    OBVIOUS
  <2>1. x \in Artifacts(k) /\ x \notin Artifacts(t)
    BY <1>3 DEF StoresRemain
  <2>2. x \notin Entities(t)
    BY <1>3, <2>1 DEF StoresRemain, Settled, StoresSound
  <2>3. PICK j \in DOMAIN k.events : k.events[j].subject = x
    BY <2>1 DEF Settled, Told
  <2>4. PICK i \in DOMAIN t.events : t.events[i] = k.events[j]
    BY <1>3, <1>5, <2>3 DEF LogRemains
  <2>5. x \in Sources(t)
    BY <1>2, <2>3, <2>4
  <2> QED
    BY <2>1, <2>2, <2>5 DEF Sources
<1> QED
  BY <1>4, <1>5, <1>6

(* The checks of the ledger tell what is lost from what still names it.    *)
LEMMA ChecksTell ==
  ASSUME NEW k \in Store, NEW t, Settled(k), doctor(k) = "healthy", NEW items, Remains(items, k, t)
  PROVE  /\ "stale" \in checkReceipts(t) <=>
               \E x : Lost(items, "event", x) /\ \E i \in DOMAIN t.receipts : t.receipts[i].event = x
         /\ "stale" \in checkProvenance(t) <=>
               \E x : Lost(items, "artifact", x) /\ \E i \in DOMAIN t.events : t.events[i].subject = x
<1>1. /\ \A i \in DOMAIN k.events : k.events[i].subject \in Sources(k)
      /\ \A r \in Range(k.receipts) : Named(k.events, r.event) # {}
  BY DoctorSays
<1>2. /\ LogRemains(items, "event", k.events, t.events)
      /\ LogRemains(items, "receipt", k.receipts, t.receipts)
      /\ StoresRemain(items, k, t)
  BY DEF Remains
<1>3. ASSUME NEW i \in DOMAIN t.receipts
      PROVE  Named(t.events, t.receipts[i].event) = {} <=> Lost(items, "event", t.receipts[i].event)
  <2>1. PICK j \in DOMAIN k.receipts : t.receipts[i] = k.receipts[j]
    BY <1>2 DEF LogRemains
  <2>2. PICK x : x = t.receipts[i].event
    OBVIOUS
  <2>3. Named(k.events, x) # {}
    BY <1>1, <2>1, <2>2 DEF Range
  <2>4. PICK l \in DOMAIN k.events : k.events[l].id = x
    BY <2>3 DEF Named
  <2>5. ASSUME ~ Lost(items, "event", x) PROVE Named(t.events, x) # {}
    <3>1. PICK n \in DOMAIN t.events : t.events[n] = k.events[l]
      BY <1>2, <2>4, <2>5 DEF LogRemains
    <3> QED
      BY <2>4, <3>1 DEF Named
  <2>6. ASSUME Named(t.events, x) # {} PROVE ~ Lost(items, "event", x)
    <3>1. PICK n \in DOMAIN t.events : t.events[n].id = x
      BY <2>6 DEF Named
    <3> QED
      BY <1>2, <3>1 DEF LogRemains
  <2> QED
    BY <2>2, <2>5, <2>6
<1>4. ASSUME NEW i \in DOMAIN t.events
      PROVE  t.events[i].subject \notin Sources(t) <=> Lost(items, "artifact", t.events[i].subject)
  <2>1. PICK j \in DOMAIN k.events : t.events[i] = k.events[j]
    BY <1>2 DEF LogRemains
  <2>2. t.events[i].subject \in Sources(k)
    BY <1>1, <2>1
  <2> QED
    BY <1>2, <2>2 DEF StoresRemain, Sources, Settled, StoresSound
<1> QED
  BY <1>3, <1>4, StalenessSays DEF Range

(* What a restore keeps of the logs is what is in the store that it ends with. *)
LEMMA KeptAreThere ==
  ASSUME file.items \in Seq(Record), NEW t, Alike(t, Left(file.items, Len(file.items))),
         restore.errors = {i \in DOMAIN file.items : Bad(file.items[i])}
  PROVE  /\ \A n \in DOMAIN t.receipts : \E y \in KeptOf("receipt") : y.event = t.receipts[n].event
         /\ \A y \in KeptOf("receipt") : \E n \in DOMAIN t.receipts : t.receipts[n].event = y.event
         /\ \A n \in DOMAIN t.events : \E y \in KeptOf("event") : y.subject = t.events[n].subject
         /\ \A y \in KeptOf("event") : \E n \in DOMAIN t.events : t.events[n].subject = y.subject
<1>1. PICK items, m : /\ items = file.items /\ m = Len(items) /\ Alike(t, Left(items, m))
                      /\ restore.errors = {i \in DOMAIN items : Bad(items[i])}
  OBVIOUS
<1>2. /\ items \in Seq(Record) /\ \A i \in DOMAIN items : items[i] \in Record
      /\ m \in Nat /\ m \in 0..Len(items) /\ DOMAIN items = 1..m
  BY <1>1, InSeq
<1>3. t.events = Left(items, m).events /\ t.receipts = Left(items, m).receipts
  BY <1>1 DEF Alike
<1>4. t.events = LeftEvents(items, m) /\ t.receipts = LeftReceipts(items, m)
  BY <1>3, LeftParts
<1>5. /\ \A i \in At(items, m, "event") : items[i].whole =>
           \E j \in DOMAIN t.events : t.events[j] = EventOf(items[i])
      /\ \A j \in DOMAIN t.events : \E i \in At(items, m, "event") :
           items[i].whole /\ t.events[j] = EventOf(items[i])
      /\ \A i \in At(items, m, "receipt") : items[i].whole =>
           \E j \in DOMAIN t.receipts : t.receipts[j] = ReceiptOf(items[i])
      /\ \A j \in DOMAIN t.receipts : \E i \in At(items, m, "receipt") :
           items[i].whole /\ t.receipts[j] = ReceiptOf(items[i])
  <2>1. /\ \A i \in At(items, m, "event") : items[i].whole =>
             \E j \in DOMAIN LeftEvents(items, m) : LeftEvents(items, m)[j] = EventOf(items[i])
        /\ \A j \in DOMAIN LeftEvents(items, m) : \E i \in At(items, m, "event") :
             items[i].whole /\ LeftEvents(items, m)[j] = EventOf(items[i])
        /\ \A i \in At(items, m, "receipt") : items[i].whole =>
             \E j \in DOMAIN LeftReceipts(items, m) : LeftReceipts(items, m)[j] = ReceiptOf(items[i])
        /\ \A j \in DOMAIN LeftReceipts(items, m) : \E i \in At(items, m, "receipt") :
             items[i].whole /\ LeftReceipts(items, m)[j] = ReceiptOf(items[i])
    BY <1>1, <1>2, LeftLogs
  <2> QED
    BY <1>4, <2>1
<1>6. \A kind \in {"event", "receipt"} : \A i :
         i \in DOMAIN items \ restore.errors /\ items[i].kind = kind <=> i \in At(items, m, kind) /\ items[i].whole
  BY <1>1, <1>2 DEF At, Bad
<1>7. \A kind \in {"event", "receipt"} : KeptOf(kind) = {items[i] : i \in {j \in At(items, m, kind) : items[j].whole}}
  BY <1>1, <1>6 DEF KeptOf
<1>8. /\ \A x : EventOf(x).subject = x.subject
      /\ \A x : ReceiptOf(x).event = x.event
  BY DEF EventOf, ReceiptOf
<1> QED
  BY <1>5, <1>7, <1>8

(* What a restore without other writers ends with: what remains of the     *)
(* store that a quiet file shows, and for errors what has lost its hash.    *)
LEMMA RestoredRemains ==
  ASSUME TypedInOrder, FileIsSound, RestoreConverges, Judged, QuietFile, RestoredAlone, file.quiet
  PROVE  /\ restore.errors = {i \in DOMAIN file.items : Bad(file.items[i])}
         /\ file.items \in Seq(Record) /\ Distinct(file.items)
         /\ cluster[restore.into] \in Store
         /\ Alike(cluster[restore.into], Left(file.items, Len(file.items)))
         /\ \E k \in Store : /\ Settled(k) /\ Portrays(file.items, k, options)
                             /\ file.health = [verify |-> verify(k), doctor |-> doctor(k)]
                             /\ Remains(file.items, k, cluster[restore.into])
<1>1. restore.step = "done" /\ restore.into \notin foreign /\ Typed /\ InOrderOfUse
  BY DEF RestoredAlone, TypedInOrder
<1>2. /\ restore # NoRestore /\ restore \in Restore /\ file # NoFile
      /\ restore.at = Len(file.items) + 1
  BY <1>1 DEF Typed, InOrderOfUse, NoRestore
<1>3. file.items \in Seq(Record) /\ Len(file.items) \in Nat /\ DOMAIN file.items = 1..Len(file.items)
  BY <1>1, FileTyped, InSeq
<1>4. restore.errors = {i \in DOMAIN file.items : Bad(file.items[i])}
  <2>1. restore.errors = {i \in DOMAIN file.items : i < restore.at /\ Bad(file.items[i])}
    BY <1>1 DEF Judged
  <2>2. \A i \in DOMAIN file.items : i < restore.at
    BY <1>2, <1>3
  <2> QED
    BY <2>1, <2>2
<1>5. restore.into \in Clusters /\ cluster[restore.into] \in Store
  BY <1>1, <1>2 DEF Restore, Typed
<1>6. PICK t, left : /\ t = cluster[restore.into] /\ left = Left(file.items, Len(file.items))
                     /\ Alike(t, left) /\ t.index \subseteq Sources(t)
  <2>1. PICK t, left : t = cluster[restore.into] /\ left = Left(file.items, Len(file.items))
    OBVIOUS
  <2>2. Bare(t) = left /\ t.index \subseteq Sources(t)
    BY <2>1 DEF RestoreConverges, Restored, Bare
  <2>3. Alike(left, t)
    BY <1>5, <2>1, <2>2, BareOf
  <2> QED
    BY <2>1, <2>2, <2>3 DEF Alike
<1>7. Distinct(file.items)
  BY DEF FileIsSound, FileSound
<1>8. PICK k \in Store : /\ Settled(k) /\ Portrays(file.items, k, options)
                         /\ file.health = [verify |-> verify(k), doctor |-> doctor(k)]
  BY <1>2 DEF QuietFile
<1>9. Remains(file.items, k, cluster[restore.into])
  <2>1. \A r \in Logs(k) : r.whole
    BY <1>8 DEF Settled
  <2>2. StoresRemain(file.items, k, Left(file.items, Len(file.items)))
    BY <1>3, <1>7, <1>8, StoresStay
  <2>3. LogRemains(file.items, "event", k.events, Left(file.items, Len(file.items)).events)
    BY <1>3, <1>7, <1>8, <2>1, EventsRemain
  <2>4. LogRemains(file.items, "receipt", k.receipts, Left(file.items, Len(file.items)).receipts)
    BY <1>3, <1>7, <1>8, <2>1, ReceiptsRemain
  <2>5. StoresRemain(file.items, k, t)
    BY <1>6, <2>2, AlikeRemain
  <2>6. t.events = left.events /\ t.receipts = left.receipts
    BY <1>6 DEF Alike
  <2> QED
    BY <1>6, <2>3, <2>4, <2>5, <2>6 DEF Remains
<1> QED
  BY <1>3, <1>4, <1>5, <1>6, <1>7, <1>8, <1>9

LEMMA QuietRestoreVerifies ==
  ASSUME TypedInOrder, FileIsSound, RestoreConverges, Judged, QuietFile
  PROVE  QuietBackupVerifies
<1> SUFFICES ASSUME RestoredAlone, restore.errors = {}, file.quiet, NEW t, t = cluster[restore.into]
             PROVE  IF WithQueue
                    THEN /\ doctor(t) = buildClusterHealth({file.health.doctor, index_populated(t)})
                         /\ verify(t) = buildClusterHealth({index_references_valid(t),
                                           IF NeverUpdated THEN file.health.verify ELSE "corrupt"})
                    ELSE /\ doctor(t) = "corrupt" <=> KeptOf("receipt") # {}
                         /\ verify(t) = "corrupt" <=> KeptOf("receipt") # {} \/ ~ NeverUpdated
  BY DEF QuietBackupVerifies
<1>2. PICK k \in Store : /\ Settled(k) /\ Portrays(file.items, k, options)
                         /\ file.health = [verify |-> verify(k), doctor |-> doctor(k)]
                         /\ Remains(file.items, k, t)
  BY RestoredRemains
<1>3. \A kind \in {"artifact", "event", "receipt"} : \A id : ~ Lost(file.items, kind, id)
  <2>1. restore.errors = {i \in DOMAIN file.items : Bad(file.items[i])}
    BY RestoredRemains
  <2> QED
    BY <2>1 DEF Lost
<1>4. NeverUpdated <=> NeverRewritten(k)
  <2>1. ShowsSet(file.items, "entity", Entities(k), EntityForms(k))
    BY <1>2 DEF Portrays, Shows, AllKinds
  <2>2. /\ \A i \in DOMAIN file.items : file.items[i].kind = "entity" =>
             file.items[i].id \in Entities(k) /\ file.items[i].n = Latest(k, file.items[i].id).n
        /\ \A e \in Entities(k) : \E i \in DOMAIN file.items : file.items[i].kind = "entity" /\ file.items[i].id = e
    BY <2>1 DEF ShowsSet, EntityForms
  <2>3. NeverUpdated <=> \A i \in DOMAIN file.items : file.items[i].kind = "entity" => file.items[i].n = 1
    BY DEF NeverUpdated, Range
  <2> QED
    BY <2>2, <2>3 DEF NeverRewritten
<1>5. CASE WithQueue
  <2>1. /\ doctor(t) = buildClusterHealth({doctor(k), index_populated(t)})
        /\ verify(t) = buildClusterHealth({index_references_valid(t),
                          IF NeverRewritten(k) THEN verify(k) ELSE "corrupt"})
    BY <1>2, <1>3, <1>5, SameHealth
  <2>2. file.health.doctor = doctor(k) /\ file.health.verify = verify(k)
    BY <1>2
  <2>3. (IF NeverUpdated THEN file.health.verify ELSE "corrupt") = (IF NeverRewritten(k) THEN verify(k) ELSE "corrupt")
    BY <1>4, <2>2
  <2> QED
    BY <1>5, <2>1, <2>2, <2>3
<1>6. CASE ~ WithQueue
  <2>1. DOMAIN t.receipts # {} <=> KeptOf("receipt") # {}
    BY RestoredRemains, KeptAreThere
  <2>2. /\ doctor(t) = "corrupt" <=> DOMAIN t.receipts # {}
        /\ verify(t) = "corrupt" <=> DOMAIN t.receipts # {} \/ ~ NeverRewritten(k)
    BY <1>2, <1>3, <1>6, QueuelessHealth
  <2> QED
    BY <1>4, <1>6, <2>1, <2>2
<1> QED
  BY <1>5, <1>6

LEMMA RestoreTells ==
  ASSUME TypedInOrder, FileIsSound, RestoreConverges, Judged, QuietFile
  PROVE  RefusalsShow
<1> SUFFICES ASSUME RestoredAlone, file.quiet, file.health.doctor = "healthy",
                    NEW t, t = cluster[restore.into]
             PROVE  /\ IF WithQueue
                       THEN doctor(t) = "healthy" <=>
                               /\ \A i \in restore.errors : file.items[i].kind = "staging"
                               /\ index_populated(t) = "healthy"
                       ELSE KeptOf("receipt") # {} => doctor(t) = "corrupt"
                    /\ "stale" \in checkReceipts(t) <=>
                          \E x \in RefusedOf("event"), y \in KeptOf("receipt") : y.event = x.id
                    /\ "stale" \in checkProvenance(t) <=>
                          \E x \in RefusedOf("artifact"), y \in KeptOf("event") : y.subject = x.id
  BY DEF RefusalsShow
<1>1. PICK items, m : items = file.items /\ m = Len(items)
  OBVIOUS
<1>2. /\ restore.errors = {i \in DOMAIN items : Bad(items[i])}
      /\ items \in Seq(Record) /\ Distinct(items) /\ t \in Store /\ Alike(t, Left(items, m))
  BY <1>1, RestoredRemains
<1>3. PICK k \in Store : Settled(k) /\ doctor(k) = "healthy" /\ Remains(items, k, t)
  <2>1. PICK k \in Store : /\ Settled(k)
                           /\ file.health = [verify |-> verify(k), doctor |-> doctor(k)]
                           /\ Remains(file.items, k, cluster[restore.into])
    BY RestoredRemains
  <2> QED
    BY <1>1, <2>1
<1>4. \A kind : \A id : Lost(items, kind, id) <=> \E x \in RefusedOf(kind) : x.id = id
  BY <1>1, <1>2 DEF Lost, RefusedOf
<1>5. /\ \A i \in DOMAIN items : items[i] \in Record
      /\ m \in Nat /\ m \in 0..Len(items) /\ DOMAIN items = 1..m
  BY <1>1, <1>2, InSeq
<1>6. (\A i \in restore.errors : items[i].kind = "staging") <=>
         \A kind \in {"artifact", "event", "receipt"} : \A id : ~ Lost(items, kind, id)
  BY <1>2 DEF Lost, Bad
<1>7. ASSUME WithQueue
      PROVE  doctor(t) = "healthy" <=>
                /\ \A kind \in {"artifact", "event", "receipt"} : \A id : ~ Lost(items, kind, id)
                /\ index_populated(t) = "healthy"
  <2>1. ASSUME \A kind \in {"artifact", "event", "receipt"} : \A id : ~ Lost(items, kind, id),
               index_populated(t) = "healthy"
        PROVE  doctor(t) = "healthy"
    <3>1. Settled(k) /\ Remains(items, k, t) /\ doctor(k) = "healthy"
      BY <1>3
    <3>2. \A other \in {"artifact", "event", "receipt"} : \A id : ~ Lost(items, other, id)
      BY <2>1
    <3> QED
      BY <1>7, <2>1, <3>1, <3>2, HealthyAgain
  <2>2. ASSUME doctor(t) = "healthy", NEW kind \in {"artifact", "event", "receipt"}, NEW id
        PROVE  ~ Lost(items, kind, id)
    BY <1>2, <1>3, <1>7, <2>2, LossesShow
  <2>3. ASSUME doctor(t) = "healthy" PROVE index_populated(t) = "healthy"
    BY <2>3, DoctorSays
  <2> QED
    BY <2>1, <2>2, <2>3
<1>13. ASSUME ~ WithQueue, KeptOf("receipt") # {} PROVE doctor(t) = "corrupt"
  <2>1. PICK n : n \in DOMAIN t.receipts
    BY <1>1, <1>2, <1>13, KeptAreThere
  <2>2. Committed(t) = {}
    BY <1>3, <1>13 DEF Remains, StoresRemain, Committed
  <2>3. command_receipt_bijection(t) = "corrupt"
    BY <2>1, <2>2 DEF command_receipt_bijection, Unless
  <2> QED
    BY <2>3 DEF doctor, SharedChecks, buildClusterHealth
<1>8. /\ \A n \in DOMAIN t.receipts : \E y \in KeptOf("receipt") : y.event = t.receipts[n].event
      /\ \A y \in KeptOf("receipt") : \E n \in DOMAIN t.receipts : t.receipts[n].event = y.event
      /\ \A n \in DOMAIN t.events : \E y \in KeptOf("event") : y.subject = t.events[n].subject
      /\ \A y \in KeptOf("event") : \E n \in DOMAIN t.events : t.events[n].subject = y.subject
  BY RestoredRemains, KeptAreThere
<1>9. /\ "stale" \in checkReceipts(t) <=>
            \E x : Lost(items, "event", x) /\ \E n \in DOMAIN t.receipts : t.receipts[n].event = x
      /\ "stale" \in checkProvenance(t) <=>
            \E x : Lost(items, "artifact", x) /\ \E n \in DOMAIN t.events : t.events[n].subject = x
  BY <1>3, ChecksTell
<1>10. "stale" \in checkReceipts(t) <=>
          \E x \in RefusedOf("event"), y \in KeptOf("receipt") : y.event = x.id
  <2>1. \A id : Lost(items, "event", id) <=> \E x \in RefusedOf("event") : x.id = id
    BY <1>4
  <2>2. ASSUME NEW id, Lost(items, "event", id), NEW n \in DOMAIN t.receipts, t.receipts[n].event = id
        PROVE  \E x \in RefusedOf("event"), y \in KeptOf("receipt") : y.event = x.id
    BY <1>8, <2>1, <2>2
  <2>3. ASSUME NEW x \in RefusedOf("event"), NEW y \in KeptOf("receipt"), y.event = x.id
        PROVE  \E id : Lost(items, "event", id) /\ \E n \in DOMAIN t.receipts : t.receipts[n].event = id
    <3>1. PICK id : id = x.id
      OBVIOUS
    <3>2. Lost(items, "event", id)
      BY <2>1, <3>1
    <3>3. PICK n \in DOMAIN t.receipts : t.receipts[n].event = id
      BY <1>8, <2>3, <3>1
    <3> QED
      BY <3>2, <3>3
  <2> QED
    BY <1>9, <2>2, <2>3
<1>11. "stale" \in checkProvenance(t) <=>
          \E x \in RefusedOf("artifact"), y \in KeptOf("event") : y.subject = x.id
  <2>1. \A id : Lost(items, "artifact", id) <=> \E x \in RefusedOf("artifact") : x.id = id
    BY <1>4
  <2>2. ASSUME NEW id, Lost(items, "artifact", id), NEW n \in DOMAIN t.events, t.events[n].subject = id
        PROVE  \E x \in RefusedOf("artifact"), y \in KeptOf("event") : y.subject = x.id
    BY <1>8, <2>1, <2>2
  <2>3. ASSUME NEW x \in RefusedOf("artifact"), NEW y \in KeptOf("event"), y.subject = x.id
        PROVE  \E id : Lost(items, "artifact", id) /\ \E n \in DOMAIN t.events : t.events[n].subject = id
    <3>1. PICK id : id = x.id
      OBVIOUS
    <3>2. Lost(items, "artifact", id)
      BY <2>1, <3>1
    <3>3. PICK n \in DOMAIN t.events : t.events[n].subject = id
      BY <1>8, <2>3, <3>1
    <3> QED
      BY <3>2, <3>3
  <2> QED
    BY <1>9, <2>2, <2>3
<1> QED
  BY <1>1, <1>6, <1>7, <1>10, <1>11, <1>13

LEMMA JudgedHolds == Spec => []Judged
<1>1. Init => Judged
  BY DEF Init, NoRestore, Judged
<1> QED
  BY <1>1, JudgedStep, ProgressHolds, TypeCorrect, FilesAreSound, PTL DEF Spec

LEMMA HomeIsSound == Spec => []HomeSound
<1>1. Init => HomeSound
  <2> SUFFICES ASSUME Init PROVE HomeSound
    OBVIOUS
  <2>1. /\ cluster["home"] = Empty /\ cluster["copy"] = Empty
        /\ \A c \in Commands : commits[c] = Idle
    BY DEF Init, Clusters
  <2>2. /\ Entities(Empty) = {} /\ Artifacts(Empty) = {} /\ Empty.staging = {} /\ Empty.index = {}
        /\ Empty.events = <<>> /\ Empty.receipts = <<>> /\ \A c \in Commands : Empty.commands[c] = "none"
        /\ DOMAIN <<>> = {}
    BY DEF Entities, Artifacts, Empty
  <2>9. Empty.receipts = <<>>
    BY DEF Empty
  <2>3. LineageSound(Empty) /\ StoresSound(Empty) /\ LogsChained(Empty) /\ LedgerSound(Empty, commits)
    BY <2>2, <2>9 DEF LineageSound, StoresSound, Sources, LogsChained, Chained, LedgerSound, Unreceipted
  <2> QED
    BY <2>1, <2>2, <2>3 DEF HomeSound
<1>2. ReceiptsSaved => SavedAtHome
  BY DEF ReceiptsSaved
<1> QED
  BY <1>1, <1>2, HomeSoundStep, SavedHolds, KnownHolds, TypeCorrect, PTL DEF Spec

(* A backup that nothing was written beside is a portrait of home: its file *)
(* shows each record of a store that is settled, edited or not, and carries *)
(* the verdicts on that store.                                             *)
THEOREM QuietFilesPortrayHome == Spec => []QuietFile
<1>1. Init => QuietBackup /\ QuietFile
  BY DEF Init, QuietBackup, QuietFile
<1>2. FileIsSound => BackupSound
  BY DEF FileIsSound
<1> QED
  BY <1>1, <1>2, QuietBackupStep, QuietFileStep, HomeIsSound, AlteredNeverGetsIn, FilesAreSound, TypeCorrect,
     PTL DEF Spec

(* A quiet backup that is restored without an error has its health and its  *)
(* troubles back, but for the lineage of what was updated, of which backup() *)
(* lists only the latest version, and for an index that was not rebuilt.     *)
(* This is so of a caller that gives the queue.  Without it, as the command  *)
(* line calls, a single receipt in the file makes the restored cluster       *)
(* corrupt for doctor() and verify(), and nothing else does but the lineage. *)
THEOREM QuietBackupsVerify == Spec => []QuietBackupVerifies
<1>1. TypedInOrder /\ FileIsSound /\ RestoreConverges /\ Judged /\ QuietFile => QuietBackupVerifies
  BY QuietRestoreVerifies
<1> QED
  BY <1>1, JudgedHolds, QuietFilesPortrayHome, RestoresConverge, FilesAreSound, TypeCorrect, PTL

(* A restore answers for each record of its file, and what it refused shows *)
(* in the checks that follow: with the queue no event, receipt or artifact  *)
(* is lost from a healthy backup without a warning of doctor(), and with it *)
(* or without it the checks of the ledger tell which kind is missing.       *)
THEOREM RefusalsAlwaysShow == Spec => []RefusalsAreReported
<1>1. TypedInOrder /\ FileIsSound /\ RestoreConverges /\ Judged /\ QuietFile => RefusalsShow
  BY RestoreTells
<1>2. RestoreIsComplete /\ RefusalsShow => RefusalsAreReported
  BY DEF RefusalsAreReported
<1> QED
  BY <1>1, <1>2, NothingIsSwallowed, JudgedHolds, QuietFilesPortrayHome, RestoresConverge, FilesAreSound,
     TypeCorrect, PTL
=============================================================================
