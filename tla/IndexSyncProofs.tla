--------------------------- MODULE IndexSyncProofs ---------------------------
(***************************************************************************)
(* What the derived index and the bundles made from it promise, for any      *)
(* numbers of entities, artifacts, values and calls: that records are images *)
(* of what was, that an undisturbed index is exact, and that a bundle is     *)
(* current, and complete where it may claim to be; and that the reports and *)
(* the traces say of the index what is so.                                  *)
(***************************************************************************)
EXTENDS IndexTraces, PickingProofs

-----------------------------------------------------------------------------
(* Types.                                                                  *)
ImageTexts == Texts \cup {ArtifactText(a, by) : a \in Artifacts, by \in Bys}
ImageMetas == Values \cup {<<"artifact", a>> : a \in Artifacts}

Image  == [src : Sources, text : ImageTexts, meta : ImageMetas]
Stored == [id : Nat, src : Sources, text : ImageTexts, meta : ImageMetas]
Got    == [src : Sources, version : Nat, indexStale : BOOLEAN]
Shown  == [src : Sources, version : Nat, indexStale : BOOLEAN, provenance : Nat, pending : Nat]

Stale     == [pc : {"searching", "indexing"}, src : Sources, image : Image]
Removal   == [pc : {"removing"}, src : Sources, image : Image, todo : SUBSET Nat]
Recording == [pc : {"recording"}, src : Sources]
Rebuilder == [pc : {"listing", "reading", "replacing"}, by : Bys, staged : Seq(Image), alone : BOOLEAN]
Planner   == [pc : {"resolving", "tracing", "bundle"}, query : Queries, page : Seq(Image), got : Seq(Got),
              resolved : SUBSET Shown, missing : SUBSET Sources, alone : BOOLEAN, began : [Sources -> Nat]]

(* What the fields of a call have to do with one another.                  *)
Sound(call) ==
  /\ call.pc \in {"searching", "indexing", "removing"} => call.image.src = call.src
  /\ call.pc = "removing" => IsFiniteSet(call.todo)
  /\ call.pc = "tracing" => Len(call.got) = 1 /\ call.page # <<>>
  /\ call.pc \in {"resolving", "tracing", "bundle"} => IsFiniteSet(call.resolved)
Call == {call \in {Idle} \cup Stale \cup Removal \cup Recording \cup Rebuilder \cup Planner : Sound(call)}

Typed ==
  /\ canonical \in [Entities -> Seq(Values)] /\ canonFile \in [Entities -> Seq(Values)]
  /\ ingested \in SUBSET Artifacts /\ IsFiniteSet(ingested)
  /\ damaged \in SUBSET Artifacts /\ lost \in SUBSET Entities /\ cut \in SUBSET Sources
  /\ events \in [Sources -> Nat]
  /\ index \in Seq(Stored)
  /\ calls \in [Calls -> Call]
  /\ history \in [Entities -> SUBSET Values]
  /\ born \in 0 .. NEntities
  /\ calm \in BOOLEAN

-----------------------------------------------------------------------------
(* Every image, in the index or on its way there, is of a version that was.  *)
Holds(call) ==
  IF call.pc \in {"searching", "indexing", "removing"} THEN {call.image}
  ELSE IF call.pc \in {"listing", "reading", "replacing"} THEN Range(call.staged)
  ELSE {}
Stock == {Unnumbered(r) : r \in Range(index)} \cup UNION {Holds(calls[c]) : c \in Calls}

IsHistory(image) ==
  image.src \in Entities =>
    /\ image.text = TextOf[image.meta] /\ image.meta \in history[image.src]
    /\ image.src \notin lost => image.meta \in Range(canonical[image.src])

HistoryKept ==
  /\ \A image \in Stock : IsHistory(image)
  /\ \A e \in Entities : Range(canonical[e]) \cup Range(canonFile[e]) \subseteq history[e]
  /\ \A e \in Entities : e > born => history[e] = {}

-----------------------------------------------------------------------------
(* Every version has its event, or a writer on its way to it, or the source *)
(* had a write that was cut short; the file is never ahead of the map.       *)
Versions == \A s \in Sources \ cut : VersionOf(s) <= events[s] + Cardinality(WritersOf(s))
FileBehind == \A e \in Entities : Len(canonFile[e]) <= Len(canonical[e])

(* What a retrieval has read so far is not older than when it began, and    *)
(* what it has read of the ledger accounts for the version that it read.     *)
NotOlder(call, o) == o.src \in lost \/ o.version >= call.began[o.src]
Accounted(o)      == o.src \notin cut => o.version <= o.provenance + o.pending

Current(call) ==
  call.pc \in {"resolving", "tracing", "bundle"} =>
    /\ \A s \in Sources : s \in lost \/ VersionOf(s) >= call.began[s]
    /\ call.pc = "tracing" =>
         /\ NotOlder(call, call.got[1])
         /\ call.got[1].version <= VersionOf(call.got[1].src)
    /\ \A o \in call.resolved : NotOlder(call, o) /\ Accounted(o)
PlansAreCurrent == \A c \in Calls : Current(calls[c])

-----------------------------------------------------------------------------
(* The undisturbed index.                                                  *)
DistinctIds == \A i, j \in DOMAIN index : index[i].id = index[j].id => i = j

RecordsOf(s) == {r \in Range(index) : r.src = s}
Present      == Live \cup ingested
IsImage(image) == image.src \in Entities => image = EntityImage(image.src, Latest(image.src))

(* The source has one record, of its latest version.                       *)
Exact(s) == \E r \in Range(index) : RecordsOf(s) = {r} /\ IsImage(Unnumbered(r))

(* Its writer is about to change its record.                               *)
AtWork(c)   == calls[c].pc \in {"searching", "removing", "indexing"}
InWork(s) == \E c \in Calls : AtWork(c) /\ calls[c].src = s

Matching(s) == {r.id : r \in RecordsOf(s)}

CalmCall(call) ==
  /\ call.pc \in {"searching", "removing", "indexing", "recording"} => call.src \in Present
  /\ call.pc \in {"searching", "removing", "indexing"} => IsImage(call.image)
  /\ call.pc = "indexing" => RecordsOf(call.src) = {}
  /\ call.pc = "removing" => call.todo = Matching(call.src)

Calm ==
  /\ \A c, d \in Busy : c # d => Writing(c) /\ Writing(d) /\ calls[c].src # calls[d].src
  /\ \A s \in Sources : RecordsOf(s) # {} => s \in Present
  /\ \A s \in Present : ~InWork(s) => Exact(s)
  /\ \A c \in Calls : CalmCall(calls[c])

(* A rebuild that nothing has joined has staged the stores as they are.     *)
Pictures(staged, S) ==
  /\ \A i, j \in DOMAIN staged : staged[i].src = staged[j].src => i = j
  /\ {staged[i].src : i \in DOMAIN staged} = S
  /\ \A i \in DOMAIN staged : IsImage(staged[i])

LoneRebuild(c) ==
  /\ Busy = {c}
  /\ Pictures(calls[c].staged, IF calls[c].pc = "listing" THEN Live ELSE Present)

LoneRebuilds == \A c \in Calls : Rebuilding(c) /\ calls[c].alone => LoneRebuild(c)

CalmInv == DistinctIds /\ (calm => Calm) /\ LoneRebuilds

-----------------------------------------------------------------------------
(* A retrieval that nothing has joined: what it has read, and has yet to     *)
(* read, is all of what was asked for, and as it is.                        *)
ToShow(call) == {call.page[i].src : i \in DOMAIN call.page} \cup {o.src : o \in call.resolved}

Complete(call) ==
  /\ call.missing = {}
  /\ \A i \in DOMAIN call.page : call.page[i].src \in Present /\ IsImage(call.page[i])
  /\ call.pc = "tracing" => ~call.got[1].indexStale /\ call.got[1].src = call.page[1].src
  /\ \A o \in call.resolved : ~o.indexStale /\ o.provenance = events[o.src]
  /\ ToShow(call) \subseteq AskedFor(call.query)
  /\ Cardinality(ToShow(call)) = Smaller(PageLimit, Cardinality(AskedFor(call.query)))
  /\ call.pc = "bundle" => call.page = <<>>

PlanInv == \A c \in Calls : Planning(c) /\ calls[c].alone => calm /\ Busy = {} /\ Complete(calls[c])

-----------------------------------------------------------------------------
(* The forms of a call, by its program counter.                            *)
LEMMA Forms ==
  ASSUME NEW call \in Call
  PROVE  /\ call.pc \in {"idle", "searching", "removing", "indexing", "recording", "listing", "reading",
                         "replacing", "resolving", "tracing", "bundle"}
         /\ call.pc = "idle" => call = Idle
         /\ call.pc \in {"searching", "indexing"} => call \in Stale
         /\ call.pc = "removing" => call \in Removal
         /\ call.pc = "recording" => call \in Recording
         /\ call.pc \in {"listing", "reading", "replacing"} => call \in Rebuilder
         /\ call.pc \in {"resolving", "tracing", "bundle"} => call \in Planner
         /\ Sound(call)
<1>1. Idle.pc = "idle"
  BY DEF Idle
<1>2. \A r \in Stale : r.pc \in {"searching", "indexing"}
  BY DEF Stale
<1>3. \A r \in Removal : r.pc = "removing"
  BY DEF Removal
<1>4. \A r \in Recording : r.pc = "recording"
  BY DEF Recording
<1>5. \A r \in Rebuilder : r.pc \in {"listing", "reading", "replacing"}
  BY DEF Rebuilder
<1>6. \A r \in Planner : r.pc \in {"resolving", "tracing", "bundle"}
  BY DEF Planner
<1> QED
  BY <1>1, <1>2, <1>3, <1>4, <1>5, <1>6 DEF Call

LEMMA StaleFields ==
  ASSUME NEW call \in Stale
  PROVE  call.src \in Sources /\ call.image \in Image /\ call = [pc |-> call.pc, src |-> call.src, image |-> call.image]
  BY DEF Stale

LEMMA RemovalFields ==
  ASSUME NEW call \in Removal
  PROVE  call.src \in Sources /\ call.image \in Image /\ call.todo \in SUBSET Nat
  BY DEF Removal

LEMMA RebuilderFields ==
  ASSUME NEW call \in Rebuilder
  PROVE  call.by \in Bys /\ call.staged \in Seq(Image) /\ call.alone \in BOOLEAN
  BY DEF Rebuilder

LEMMA PlannerFields ==
  ASSUME NEW call \in Planner
  PROVE  /\ call.query \in Queries /\ call.page \in Seq(Image) /\ call.got \in Seq(Got)
         /\ call.resolved \in SUBSET Shown /\ call.missing \in SUBSET Sources
         /\ call.alone \in BOOLEAN /\ call.began \in [Sources -> Nat]
  BY DEF Planner

(* What is needed to build each form.                                      *)
LEMMA IdleIsCall == Idle \in Call /\ Idle.pc = "idle"
<1>1. Idle.pc = "idle"
  BY DEF Idle
<1> QED
  BY <1>1 DEF Call, Sound

LEMMA StaleIsCall ==
  ASSUME NEW p \in {"searching", "indexing"}, NEW image \in Image
  PROVE  [pc |-> p, src |-> image.src, image |-> image] \in Call
<1> DEFINE r == [pc |-> p, src |-> image.src, image |-> image]
<1>1. image.src \in Sources
  BY DEF Image
<1>2. r \in Stale /\ r.pc = p /\ r.image.src = r.src
  BY <1>1 DEF Stale
<1> QED
  BY <1>2 DEF Call, Sound

LEMMA RemovalIsCall ==
  ASSUME NEW image \in Image, NEW todo \in SUBSET Nat, IsFiniteSet(todo)
  PROVE  [pc |-> "removing", src |-> image.src, image |-> image, todo |-> todo] \in Call
<1> DEFINE r == [pc |-> "removing", src |-> image.src, image |-> image, todo |-> todo]
<1>1. image.src \in Sources
  BY DEF Image
<1>2. r \in Removal /\ r.pc = "removing" /\ r.image.src = r.src /\ r.todo = todo
  BY <1>1 DEF Removal
<1> QED
  BY <1>2 DEF Call, Sound

LEMMA RecordingIsCall ==
  ASSUME NEW s \in Sources
  PROVE  [pc |-> "recording", src |-> s] \in Call
<1> DEFINE r == [pc |-> "recording", src |-> s]
<1>1. r \in Recording /\ r.pc = "recording"
  BY DEF Recording
<1> QED
  BY <1>1 DEF Call, Sound

LEMMA RebuilderIsCall ==
  ASSUME NEW r \in Rebuilder
  PROVE  r \in Call
<1>1. r.pc \in {"listing", "reading", "replacing"}
  BY DEF Rebuilder
<1> QED
  BY <1>1 DEF Call, Sound

LEMMA PlannerIsCall ==
  ASSUME NEW r \in Planner, IsFiniteSet(r.resolved),
         r.pc = "tracing" => Len(r.got) = 1 /\ r.page # <<>>
  PROVE  r \in Call
<1>1. r.pc \in {"resolving", "tracing", "bundle"}
  BY DEF Planner
<1> QED
  BY <1>1 DEF Call, Sound

(* A call that is no longer alone is otherwise what it was.                *)
LEMMA Joined ==
  ASSUME NEW call \in Call, call.pc \in {"listing", "reading", "replacing", "resolving", "tracing", "bundle"},
         NEW r, r = [call EXCEPT !.alone = FALSE]
  PROVE  /\ r \in Call /\ r.pc = call.pc /\ r.alone = FALSE
         /\ r.pc \in {"listing", "reading", "replacing"} => r.staged = call.staged
         /\ r.pc \in {"resolving", "tracing", "bundle"} =>
              r.got = call.got /\ r.page = call.page /\ r.resolved = call.resolved /\ r.began = call.began
<1>1. CASE call.pc \in {"listing", "reading", "replacing"}
  <2>1. call \in Rebuilder
    BY <1>1, Forms
  <2>2. r \in Rebuilder /\ r.pc = call.pc /\ r.alone = FALSE /\ r.staged = call.staged
    BY <2>1 DEF Rebuilder
  <2> QED
    BY <1>1, <2>2, RebuilderIsCall
<1>2. CASE call.pc \in {"resolving", "tracing", "bundle"}
  <2>1. call \in Planner /\ Sound(call)
    BY <1>2, Forms
  <2>2. r \in Planner /\ r.pc = call.pc /\ r.alone = FALSE
    BY <2>1 DEF Planner
  <2>3. r.got = call.got /\ r.page = call.page /\ r.resolved = call.resolved /\ r.began = call.began
    BY <2>1 DEF Planner
  <2>4. r \in Call
    BY <1>2, <2>1, <2>2, <2>3, PlannerIsCall DEF Sound
  <2> QED
    BY <1>2, <2>2, <2>3, <2>4
<1> QED
  BY <1>1, <1>2

(* The two ways a step changes the calls.                                  *)
LEMMA ContinueCalls ==
  ASSUME NEW cs \in [Calls -> Call], NEW c \in Calls, NEW call \in Call
  PROVE  /\ [cs EXCEPT ![c] = call] \in [Calls -> Call]
         /\ [cs EXCEPT ![c] = call][c] = call
         /\ \A d \in Calls : d # c => [cs EXCEPT ![c] = call][d] = cs[d]
  OBVIOUS

Kept(old, new) ==
  /\ new.pc = old.pc
  /\ old.pc \in {"idle", "searching", "removing", "indexing", "recording"} => new = old
  /\ old.pc \in {"listing", "reading", "replacing"} => new.staged = old.staged /\ new.alone = FALSE
  /\ old.pc \in {"resolving", "tracing", "bundle"} =>
       /\ new.got = old.got /\ new.page = old.page /\ new.resolved = old.resolved /\ new.began = old.began
       /\ new.alone = FALSE

LEMMA EnterCalls ==
  ASSUME Typed, NEW c \in Calls, NEW call \in Call, Enter(c, call)
  PROVE  /\ calls' \in [Calls -> Call] /\ calls'[c] = call
         /\ \A d \in Calls : d # c => Kept(calls[d], calls'[d])
<1>1. calls \in [Calls -> Call]
  BY DEF Typed
<1>2. calls' = [d \in Calls |-> IF d = c THEN call ELSE NotAlone(d)]
  BY DEF Enter
<1>3. ASSUME NEW d \in Calls PROVE NotAlone(d) \in Call /\ Kept(calls[d], NotAlone(d))
  <2>0. calls[d] \in Call
    BY <1>1
  <2>1. CASE Rebuilding(d) \/ Planning(d)
    <3>1. NotAlone(d) = [calls[d] EXCEPT !.alone = FALSE]
      BY <2>1 DEF NotAlone
    <3>2. calls[d].pc \in {"listing", "reading", "replacing", "resolving", "tracing", "bundle"}
      BY <2>1 DEF Rebuilding, Planning
    <3> QED
      BY <2>0, <3>1, <3>2, Joined DEF Kept
  <2>2. CASE ~(Rebuilding(d) \/ Planning(d))
    <3>1. NotAlone(d) = calls[d]
      BY <2>2 DEF NotAlone
    <3>2. calls[d].pc \notin {"listing", "reading", "replacing", "resolving", "tracing", "bundle"}
      BY <2>2 DEF Rebuilding, Planning
    <3> QED
      BY <2>0, <3>1, <3>2, Forms DEF Kept
  <2> QED
    BY <2>1, <2>2
<1> QED
  BY <1>2, <1>3

-----------------------------------------------------------------------------
(* The operators of the stores.                                            *)
LEMMA Sizes ==
  /\ NEntities \in Nat
  /\ Entities \in SUBSET Nat /\ \A e \in Entities : e <= NEntities
  /\ \A a \in Artifacts : a \in Nat /\ a \notin Entities
<1>1. NEntities \in Nat
  BY SizesAreNatural
<1>2. \A a \in Artifacts : a \in Nat /\ a \notin 0 .. NEntities
  BY IdsAreDistinct
<1>3. \A n \in 1 .. NEntities : n \in Nat /\ n <= NEntities /\ n \in 0 .. NEntities
  BY <1>1
<1> QED
  BY <1>1, <1>2, <1>3 DEF Entities

LEMMA LatestIs ==
  ASSUME Typed, NEW e \in Live
  PROVE  e \in Entities /\ Latest(e) \in Range(canonical[e]) /\ Latest(e) \in Values
<1>1. e \in Entities /\ canonical[e] \in Seq(Values) /\ canonical[e] # <<>>
  BY DEF Typed, Live
<1>2. \A q \in Seq(Values) : q # <<>> => Len(q) \in DOMAIN q /\ q[Len(q)] \in Values
  OBVIOUS
<1> QED
  BY <1>1, <1>2 DEF Latest, Range

LEMMA ImagesAre ==
  /\ \A e \in Entities, v \in Values : EntityImage(e, v) \in Image
  /\ \A a \in Artifacts, by \in Bys : ArtifactImage(a, by) \in Image
  /\ \A e, v : EntityImage(e, v).src = e /\ EntityImage(e, v).text = TextOf[v] /\ EntityImage(e, v).meta = v
  /\ \A a, by : ArtifactImage(a, by).src = a
<1>1. \A v \in Values : TextOf[v] \in ImageTexts /\ v \in ImageMetas
  BY DEF ImageTexts, ImageMetas, Texts
<1>2. \A a \in Artifacts, by \in Bys : ArtifactText(a, by) \in ImageTexts /\ <<"artifact", a>> \in ImageMetas
  BY DEF ImageTexts, ImageMetas
<1> QED
  BY <1>1, <1>2 DEF EntityImage, ArtifactImage, Image, Sources

LEMMA RecordIs ==
  ASSUME NEW id \in Nat, NEW image \in Image
  PROVE  /\ Record(id, image) \in Stored /\ Record(id, image).id = id
         /\ Record(id, image).src = image.src
         /\ Unnumbered(Record(id, image)) = image
<1>1. image = [src |-> image.src, text |-> image.text, meta |-> image.meta]
  BY DEF Image
<1>2. image.src \in Sources /\ image.text \in ImageTexts /\ image.meta \in ImageMetas
  BY DEF Image
<1> QED
  BY <1>1, <1>2 DEF Record, Stored, Unnumbered

LEMMA UnnumberedIs ==
  ASSUME NEW r \in Stored
  PROVE  /\ Unnumbered(r) \in Image /\ Unnumbered(r).src = r.src
         /\ Unnumbered(r).text = r.text /\ Unnumbered(r).meta = r.meta
         /\ r.src \in Sources /\ r.id \in Nat
  BY DEF Unnumbered, Stored, Image

LEMMA FreshAreFree ==
  ASSUME NEW n \in Nat, NEW used, IsFiniteSet(used)
  PROVE  /\ \A i \in 1..n : FreshIds(n, used)[i] \in Nat \ used
         /\ \A i, j \in 1..n : FreshIds(n, used)[i] = FreshIds(n, used)[j] => i = j
<1>1. PICK L \in Nat : L = n + Cardinality(used)
  BY FS_CardinalityType
<1>2. PICK K \in SUBSET (1..L) : K = (1..L) \ used
  OBVIOUS
<1>3. FreshIds(n, used) = [i \in 1..Cardinality(K) |-> Place(K, i)]
  BY <1>1, <1>2 DEF FreshIds, InOrder
<1>4. Cardinality(K) \in Nat /\ n <= Cardinality(K)
  BY <1>1, <1>2, FreeNumbers
<1>5. \A i \in 1..n : i \in 1..Cardinality(K)
  BY <1>4
<1>6. \A k \in K : k \in Nat \ used
  BY <1>2
<1>7. /\ \A i \in 1..Cardinality(K) : Place(K, i) \in K
      /\ \A i, j \in 1..Cardinality(K) : Place(K, i) = Place(K, j) => i = j
  BY <1>1, Places
<1>8. \A i \in 1..n : FreshIds(n, used)[i] = Place(K, i)
  BY <1>3, <1>5
<1>9. ASSUME NEW i \in 1..n PROVE i \in 1..Cardinality(K) /\ FreshIds(n, used)[i] = Place(K, i)
  BY <1>5, <1>8
<1>10. \A i \in 1..n : FreshIds(n, used)[i] \in K
  BY <1>7, <1>9
<1>11. ASSUME NEW i \in 1..n, NEW j \in 1..n, FreshIds(n, used)[i] = FreshIds(n, used)[j] PROVE i = j
  BY <1>7, <1>9, <1>11
<1> QED
  BY <1>6, <1>10, <1>11

(* Only finitely many ids are remembered by the calls.                     *)
LEMMA RememberedIsFinite ==
  ASSUME Typed
  PROVE  IsFiniteSet(RememberedIds) /\ RememberedIds \subseteq Nat
<1> DEFINE Removing == {d \in Calls : calls[d].pc = "removing"}
           top == [c \in Removing |-> CHOOSE t \in Nat : \A id \in calls[c].todo : id <= t]
           Tops == {top[c] : c \in Removing}
<1>1. ASSUME NEW c \in Removing PROVE calls[c].todo \in SUBSET Nat /\ IsFiniteSet(calls[c].todo)
  <2>1. calls[c] \in Removal /\ Sound(calls[c]) /\ calls[c].pc = "removing"
    BY Forms DEF Typed
  <2> QED
    BY <2>1, RemovalFields DEF Sound
<1>2. ASSUME NEW c \in Removing PROVE top[c] \in Nat /\ \A id \in calls[c].todo : id <= top[c]
  <2>1. \E t \in Nat : \A id \in calls[c].todo : id <= t
    BY <1>1, FiniteIsBounded
  <2> QED
    BY <2>1
<1>3. IsFiniteSet(Removing)
  BY CallsAreFinite, FS_Subset
<1> HIDE DEF Removing
<1>4. top \in Surjection(Removing, Tops)
  BY DEF Surjection
<1>5. IsFiniteSet(Tops) /\ Tops \in SUBSET Nat
  BY <1>2, <1>3, <1>4, FS_Surjection
<1> HIDE DEF Tops
<1>6. PICK t \in Nat : \A k \in Tops : k <= t
  BY <1>5, FiniteIsBounded
<1> HIDE DEF top
<1>7. ASSUME NEW id \in RememberedIds PROVE id \in Nat /\ id <= t
  <2>1. PICK c \in Removing : id \in calls[c].todo
    BY DEF RememberedIds, Removing
  <2>2. id \in Nat /\ top[c] \in Nat /\ id <= top[c] /\ top[c] <= t
    BY <1>1, <1>2, <1>6, <2>1 DEF Tops
  <2> QED
    BY <2>2
<1> QED
  BY <1>7, FS_BoundedSetOfNaturals

LEMMA IndexIdsAreFinite ==
  ASSUME Typed
  PROVE  LET ids == {r.id : r \in Range(index)} IN IsFiniteSet(ids) /\ ids \subseteq Nat
<1> DEFINE ids == {r.id : r \in Range(index)}
           f == [i \in DOMAIN index |-> index[i].id]
<1>1. index \in Seq(Stored) /\ Len(index) \in Nat /\ DOMAIN index = 1..Len(index)
  BY DEF Typed
<1>2. \A r \in Range(index) : r \in Stored /\ r.id \in Nat
  BY <1>1, UnnumberedIs DEF Range
<1>3. f \in Surjection(DOMAIN index, ids)
  BY DEF Range, Surjection
<1>4. IsFiniteSet(DOMAIN index)
  BY <1>1, PositionsFinite
<1>5. IsFiniteSet(ids)
  BY <1>3, <1>4, FS_Surjection
<1> QED
  BY <1>2, <1>5

(* The index store's writes.                                               *)
LEMMA Indexed ==
  ASSUME Typed, NEW image \in Image, indexRecord(image)
  PROVE  \E id \in Nat :
           /\ \A i \in DOMAIN index : index[i].id # id
           /\ index' = Append(index, Record(id, image))
<1> DEFINE used == RememberedIds \cup {r.id : r \in Range(index)}
           id == FreshIds(1, used)[1]
<1>1. IsFiniteSet(used)
  BY RememberedIsFinite, IndexIdsAreFinite, FS_Union
<1> HIDE DEF used
<1>2. id \in Nat \ used
  BY <1>1, FreshAreFree
<1>3. \A i \in DOMAIN index : index[i].id \in used
  BY DEF used, Range
<1>4. index' = Append(index, Record(id, image))
  BY DEF indexRecord, used
<1> QED
  BY <1>2, <1>3, <1>4

LEMMA Appended ==
  ASSUME Typed, NEW id \in Nat, NEW image \in Image, index' = Append(index, Record(id, image))
  PROVE  /\ index' \in Seq(Stored) /\ DOMAIN index' = DOMAIN index \cup {Len(index) + 1}
         /\ Len(index) + 1 \notin DOMAIN index
         /\ \A i \in DOMAIN index : index'[i] = index[i]
         /\ index'[Len(index) + 1] = Record(id, image)
<1>1. Record(id, image) \in Stored
  BY RecordIs
<1>2. index \in Seq(Stored)
  BY DEF Typed
<1>3. \A r \in Stored, q \in Seq(Stored) :
        /\ Append(q, r) \in Seq(Stored) /\ DOMAIN Append(q, r) = DOMAIN q \cup {Len(q) + 1}
        /\ Len(q) + 1 \notin DOMAIN q
        /\ \A i \in DOMAIN q : Append(q, r)[i] = q[i]
        /\ Append(q, r)[Len(q) + 1] = r
  OBVIOUS
<1> QED
  BY <1>1, <1>2, <1>3

LEMMA Replaced ==
  ASSUME Typed, NEW images \in Seq(Image), replaceAll(images)
  PROVE  /\ index' \in Seq(Stored) /\ DOMAIN index' = DOMAIN images
         /\ \A i \in DOMAIN images : Unnumbered(index'[i]) = images[i] /\ index'[i].src = images[i].src
         /\ \A i, j \in DOMAIN images : index'[i].id = index'[j].id => i = j
<1> DEFINE n == Len(images)
           ids == FreshIds(n, RememberedIds)
<1>1. n \in Nat /\ DOMAIN images = 1..n /\ \A i \in 1..n : images[i] \in Image
  OBVIOUS
<1>2. /\ \A i \in 1..n : ids[i] \in Nat
      /\ \A i, j \in 1..n : ids[i] = ids[j] => i = j
  BY <1>1, RememberedIsFinite, FreshAreFree
<1> HIDE DEF ids
<1>3. index' = [i \in 1..n |-> Record(ids[i], images[i])]
  BY DEF replaceAll, Numbered, ids
<1>4. \A i \in 1..n : /\ index'[i] \in Stored /\ index'[i].id = ids[i]
                      /\ index'[i].src = images[i].src /\ Unnumbered(index'[i]) = images[i]
  BY <1>1, <1>2, <1>3, RecordIs
<1>5. index' \in Seq(Stored) /\ DOMAIN index' = 1..n
  BY <1>1, <1>3, <1>4
<1> QED
  BY <1>1, <1>2, <1>4, <1>5

Survivors(id) == {i \in DOMAIN index : index[i].id # id}

LEMMA Removed ==
  ASSUME Typed, NEW id, remove(id)
  PROVE  /\ index' \in Seq(Stored)
         /\ \A n \in DOMAIN index' :
              Place(Survivors(id), n) \in Survivors(id) /\ index'[n] = index[Place(Survivors(id), n)]
         /\ \A m, n \in DOMAIN index' : Place(Survivors(id), m) = Place(Survivors(id), n) => m = n
         /\ \A i \in Survivors(id) : \E n \in DOMAIN index' : Place(Survivors(id), n) = i
<1>1. index' = Pick(index, Survivors(id))
  BY DEF remove, Survivors
<1>2. Survivors(id) \in SUBSET DOMAIN index
  BY DEF Survivors
<1> QED
  BY <1>1, <1>2, PickPlaces DEF Typed

(* What a search returns.                                                  *)
Hits(q) == {i \in DOMAIN index : Matches(index[i], q)}

LEMMA Searched ==
  ASSUME Typed, NEW q
  PROVE  /\ search(q) \in Seq(Stored)
         /\ \A n \in DOMAIN search(q) : Place(Hits(q), n) \in Hits(q) /\ search(q)[n] = index[Place(Hits(q), n)]
         /\ \A m, n \in DOMAIN search(q) : Place(Hits(q), m) = Place(Hits(q), n) => m = n
         /\ \A i \in Hits(q) : \E n \in DOMAIN search(q) : Place(Hits(q), n) = i
         /\ Len(search(q)) = Cardinality(Hits(q)) /\ IsFiniteSet(Hits(q))
<1>1. search(q) = Pick(index, Hits(q))
  BY DEF search, Hits
<1>2. Hits(q) \in SUBSET DOMAIN index
  BY DEF Hits
<1>3. Len(index) \in Nat /\ Hits(q) \in SUBSET (1..Len(index))
  BY <1>2 DEF Typed
<1>4. Cardinality(Hits(q)) \in Nat /\ IsFiniteSet(Hits(q))
  BY <1>3, Places, PositionsFinite
<1>5. search(q) = [n \in 1..Cardinality(Hits(q)) |-> index[Place(Hits(q), n)]]
  BY <1>1 DEF Pick
<1>6. Len(search(q)) = Cardinality(Hits(q))
  BY <1>4, <1>5
<1>7. index \in Seq(Stored)
  BY DEF Typed
<1> HIDE DEF Hits
<1>8. /\ Pick(index, Hits(q)) \in Seq(Stored)
      /\ \A n \in DOMAIN Pick(index, Hits(q)) : Place(Hits(q), n) \in Hits(q) /\ Pick(index, Hits(q))[n] = index[Place(Hits(q), n)]
      /\ \A m, n \in DOMAIN Pick(index, Hits(q)) : Place(Hits(q), m) = Place(Hits(q), n) => m = n
      /\ \A i \in Hits(q) : \E n \in DOMAIN Pick(index, Hits(q)) : Place(Hits(q), n) = i
  BY <1>2, <1>7, PickPlaces
<1> QED
  BY <1>1, <1>4, <1>6, <1>8

LEMMA SearchedAll ==
  ASSUME Typed
  PROVE  search(AnyText) = index
<1>1. Hits(AnyText) = DOMAIN index /\ search(AnyText) = Pick(index, Hits(AnyText))
  BY DEF Hits, search, Matches
<1> QED
  BY <1>1, PickAll DEF Typed

(* A page takes as many of them as it may, each once.                       *)
LEMMA SmallerIs ==
  ASSUME NEW m \in Nat, NEW n \in Nat
  PROVE  Smaller(m, n) \in Nat /\ Smaller(m, n) <= m /\ Smaller(m, n) <= n
  BY DEF Smaller

LEMMA PagesAre ==
  ASSUME Typed, NEW q, NEW page \in Pages(search(q))
  PROVE  /\ page \in Seq(Image) /\ Len(page) = Smaller(PageLimit, Cardinality(Hits(q)))
         /\ \A n \in DOMAIN page : \E i \in Hits(q) : page[n] = Unnumbered(index[i])
         /\ \E at \in [DOMAIN page -> Hits(q)] :
              /\ \A m, n \in DOMAIN page : at[m] = at[n] => m = n
              /\ \A n \in DOMAIN page : page[n] = Unnumbered(index[at[n]])
<1> DEFINE s == search(q)
           size == Smaller(PageLimit, Len(s))
<1>1. /\ s \in Seq(Stored)
      /\ \A n \in DOMAIN s : Place(Hits(q), n) \in Hits(q) /\ s[n] = index[Place(Hits(q), n)]
      /\ \A m, n \in DOMAIN s : Place(Hits(q), m) = Place(Hits(q), n) => m = n
      /\ Len(s) = Cardinality(Hits(q))
  BY Searched
<1> HIDE DEF s
<1>2. Len(s) \in Nat /\ DOMAIN s = 1..Len(s) /\ \A i \in DOMAIN s : s[i] \in Stored
  BY <1>1
<1>3. PICK rank \in Injection(1..size, DOMAIN s) : page = [i \in 1..size |-> Unnumbered(s[rank[i]])]
  BY DEF Pages, s
<1>4. rank \in [1..size -> DOMAIN s] /\ \A m, n \in 1..size : rank[m] = rank[n] => m = n
  <2>1. rank \in [1..size -> DOMAIN s] /\ IsInjective(rank)
    BY <1>3 DEF Injection
  <2> QED
    BY <2>1 DEF IsInjective
<1>5. size \in Nat
  BY <1>2, SizesAreNatural, SmallerIs
<1> HIDE DEF size
<1>6. \A i \in 1..size : Unnumbered(s[rank[i]]) \in Image
  BY <1>2, <1>4, UnnumberedIs
<1>7. page \in Seq(Image) /\ Len(page) = size /\ DOMAIN page = 1..size
  BY <1>3, <1>5, <1>6
<1> DEFINE at == [n \in DOMAIN page |-> Place(Hits(q), rank[n])]
<1>8. \A n \in DOMAIN page : at[n] = Place(Hits(q), rank[n]) /\ at[n] \in Hits(q) /\ page[n] = Unnumbered(index[at[n]])
  BY <1>1, <1>3, <1>4, <1>7
<1>9. at \in [DOMAIN page -> Hits(q)]
  BY <1>8
<1>10. \A m, n \in DOMAIN page : at[m] = at[n] => m = n
  BY <1>1, <1>4, <1>7, <1>8
<1> HIDE DEF at
<1>11. Len(page) = Smaller(PageLimit, Cardinality(Hits(q)))
  BY <1>1, <1>7 DEF size
<1> QED
  BY <1>7, <1>8, <1>9, <1>10, <1>11

(* What a rebuild lists.                                                   *)
LEMMA InOrderIs ==
  ASSUME NEW K \in SUBSET Nat, IsFiniteSet(K), 0 \notin K
  PROVE  /\ Cardinality(K) \in Nat
         /\ DOMAIN InOrder(K) = 1..Cardinality(K)
         /\ \A n \in 1..Cardinality(K) : InOrder(K)[n] \in K
         /\ \A m, n \in 1..Cardinality(K) : InOrder(K)[m] = InOrder(K)[n] => m = n
         /\ \A k \in K : \E n \in 1..Cardinality(K) : InOrder(K)[n] = k
<1>1. PICK top \in Nat : \A k \in K : k <= top
  BY FiniteIsBounded
<1>2. \A k \in K : k \in Nat /\ k # 0 /\ k <= top
  BY <1>1
<1>3. \A k \in K : k \in 1..top
  BY <1>2
<1>4. K \in SUBSET (1..top)
  BY <1>3
<1>5. InOrder(K) = [n \in 1..Cardinality(K) |-> Place(K, n)]
  BY DEF InOrder
<1>6. /\ Cardinality(K) \in Nat
      /\ \A n \in 1..Cardinality(K) : Place(K, n) \in K
      /\ \A m, n \in 1..Cardinality(K) : Place(K, m) = Place(K, n) => m = n
      /\ \A k \in K : \E n \in 1..Cardinality(K) : Place(K, n) = k
  BY <1>4, Places
<1>7. \A n \in 1..Cardinality(K) : InOrder(K)[n] = Place(K, n)
  BY <1>5
<1>8. DOMAIN InOrder(K) = 1..Cardinality(K)
  BY <1>5
<1> QED
  BY <1>6, <1>7, <1>8

LEMMA OwnersAreNumbers ==
  ASSUME Typed
  PROVE  /\ Live \in SUBSET Nat /\ IsFiniteSet(Live) /\ 0 \notin Live
         /\ ingested \in SUBSET Nat /\ IsFiniteSet(ingested) /\ 0 \notin ingested
<1>1. NEntities \in Nat /\ Live \in SUBSET (1..NEntities)
  BY Sizes DEF Live, Entities
<1>2. IsFiniteSet(Live)
  BY <1>1, PositionsFinite
<1>3. \A n \in 1..NEntities : n \in Nat /\ n # 0
  BY <1>1
<1>4. \A a \in Artifacts : a \in Nat \ (0..NEntities) /\ a # 0
  BY <1>1, IdsAreDistinct
<1> QED
  BY <1>1, <1>2, <1>3, <1>4 DEF Typed

LEMMA ListedEntities ==
  ASSUME Typed
  PROVE  /\ EntityImages \in Seq(Image)
         /\ \A i \in DOMAIN EntityImages :
              \E e \in Live : e = EntityImages[i].src /\ EntityImages[i] = EntityImage(e, Latest(e))
         /\ \A i, j \in DOMAIN EntityImages : EntityImages[i].src = EntityImages[j].src => i = j
         /\ \A e \in Live : \E i \in DOMAIN EntityImages : EntityImages[i].src = e
<1> DEFINE n == Cardinality(Live)
           at == InOrder(Live)
<1>1. /\ n \in Nat /\ \A i \in 1..n : at[i] \in Live
      /\ \A i, j \in 1..n : at[i] = at[j] => i = j
      /\ \A e \in Live : \E i \in 1..n : at[i] = e
  BY OwnersAreNumbers, InOrderIs
<1>2. EntityImages = [i \in 1..n |-> EntityImage(at[i], Latest(at[i]))]
  BY DEF EntityImages
<1> HIDE DEF n, at
<1>3. \A e \in Live : EntityImage(e, Latest(e)) \in Image /\ EntityImage(e, Latest(e)).src = e
  BY LatestIs, ImagesAre
<1>4. \A i \in 1..n : EntityImages[i] \in Image /\ EntityImages[i].src = at[i]
  BY <1>1, <1>2, <1>3
<1>5. EntityImages \in Seq(Image) /\ DOMAIN EntityImages = 1..n
  BY <1>1, <1>2, <1>4
<1> QED
  BY <1>1, <1>2, <1>4, <1>5

LEMMA ListedArtifacts ==
  ASSUME Typed, NEW by \in Bys
  PROVE  /\ ArtifactImages(ingested, by) \in Seq(Image)
         /\ \A i \in DOMAIN ArtifactImages(ingested, by) : ArtifactImages(ingested, by)[i].src \in ingested
         /\ \A i, j \in DOMAIN ArtifactImages(ingested, by) :
              ArtifactImages(ingested, by)[i].src = ArtifactImages(ingested, by)[j].src => i = j
         /\ \A a \in ingested : \E i \in DOMAIN ArtifactImages(ingested, by) :
              ArtifactImages(ingested, by)[i].src = a
<1> DEFINE n == Cardinality(ingested)
           at == InOrder(ingested)
           all == ArtifactImages(ingested, by)
<1>1. /\ n \in Nat /\ \A i \in 1..n : at[i] \in ingested
      /\ \A i, j \in 1..n : at[i] = at[j] => i = j
      /\ \A a \in ingested : \E i \in 1..n : at[i] = a
  BY OwnersAreNumbers, InOrderIs
<1>2. all = [i \in 1..n |-> ArtifactImage(at[i], by)]
  BY DEF ArtifactImages
<1> HIDE DEF n, at, all
<1>3. \A a \in ingested : ArtifactImage(a, by) \in Image /\ ArtifactImage(a, by).src = a
  BY ImagesAre DEF Typed
<1>4. \A i \in 1..n : all[i] \in Image /\ all[i].src = at[i]
  BY <1>1, <1>2, <1>3
<1>5. all \in Seq(Image) /\ DOMAIN all = 1..n
  BY <1>1, <1>2, <1>4
<1>6. /\ \A i \in DOMAIN all : all[i].src \in ingested
      /\ \A i, j \in DOMAIN all : all[i].src = all[j].src => i = j
      /\ \A a \in ingested : \E i \in DOMAIN all : all[i].src = a
  BY <1>1, <1>4, <1>5
<1> QED
  BY <1>5, <1>6 DEF all

-----------------------------------------------------------------------------
(* Type correctness.                                                       *)
LEMMA TypedInit == Init => Typed
<1> SUFFICES ASSUME Init PROVE Typed
  OBVIOUS
<1>1. calls \in [Calls -> Call]
  BY IdleIsCall DEF Init
<1>2. IsFiniteSet(ingested)
  BY FS_EmptySet DEF Init
<1>3. index \in Seq(Stored) /\ born \in 0 .. NEntities
  BY Sizes DEF Init
<1> QED
  BY <1>1, <1>2, <1>3 DEF Init, Typed

LEMMA TypedAgain ==
  ASSUME Typed, UNCHANGED owners, events' \in [Sources -> Nat], index' \in Seq(Stored),
         calls' \in [Calls -> Call], calm' \in BOOLEAN
  PROVE  Typed'
  BY DEF Typed, owners

LEMMA TypedContinue ==
  ASSUME Typed, NEW c \in Calls, NEW call \in Call, Continue(c, call)
  PROVE  /\ calls' \in [Calls -> Call] /\ calls'[c] = call
         /\ \A d \in Calls : d # c => calls'[d] = calls[d]
  BY ContinueCalls DEF Typed, Continue

LEMMA CallIs ==
  ASSUME Typed, NEW c \in Calls
  PROVE  calls[c] \in Call /\ Sound(calls[c])
  BY DEF Typed, Call

(* A new version of an entity in the map, and perhaps in the file.          *)
LEMMA VersionsTyped ==
  ASSUME Typed, NEW e \in Entities, NEW vs \in Seq(Values), StoreVersions(e, vs),
         canonFile' = canonical' \/ canonFile' = canonFile
  PROVE  /\ canonical' \in [Entities -> Seq(Values)] /\ canonFile' \in [Entities -> Seq(Values)]
         /\ history' \in [Entities -> SUBSET Values]
<1>1. Range(vs) \in SUBSET Values
  BY DEF Range
<1>2. \A h \in SUBSET Values : h \cup Range(vs) \in SUBSET Values
  BY <1>1
<1> QED
  BY <1>2 DEF Typed, StoreVersions

LEMMA CreateTyped ==
  ASSUME Typed, NEW c \in Calls, CreateEntity(c)
  PROVE  \E v \in Values, call \in Call :
           LET e == born + 1 IN
           /\ born' = e /\ e \in Entities /\ StoreVersions(e, <<v>>)
           /\ \/ /\ Persists
                 /\ call = [pc |-> "indexing", src |-> e, image |-> EntityImage(e, v)]
                 /\ calm' = (calm /\ ~Collides(e))
              \/ PersistThrows /\ call = Idle /\ calm' = FALSE
           /\ Enter(c, call) /\ Typed'
<1>1. born + 1 \in Entities /\ born + 1 \in 0 .. NEntities
  BY Sizes DEF CreateEntity, Typed, Entities
<1>2. PICK v \in Values :
        /\ born' = born + 1 /\ StoreVersions(born + 1, <<v>>)
        /\ \/ /\ Persists
              /\ StartWriter(c, born + 1, [pc |-> "indexing", src |-> born + 1, image |-> EntityImage(born + 1, v)])
           \/ /\ PersistThrows
              /\ Enter(c, Idle) /\ calm' = FALSE
  BY DEF CreateEntity
<1>3. PICK call :
        /\ call \in Call /\ Enter(c, call) /\ calm' \in BOOLEAN
        /\ \/ /\ Persists
              /\ call = [pc |-> "indexing", src |-> born + 1, image |-> EntityImage(born + 1, v)]
              /\ calm' = (calm /\ ~Collides(born + 1))
           \/ PersistThrows /\ call = Idle /\ calm' = FALSE
  <2>1. CASE /\ Persists
             /\ StartWriter(c, born + 1, [pc |-> "indexing", src |-> born + 1, image |-> EntityImage(born + 1, v)])
    <3>1. EntityImage(born + 1, v) \in Image /\ EntityImage(born + 1, v).src = born + 1
      BY <1>1, ImagesAre
    <3>2. [pc |-> "indexing", src |-> born + 1, image |-> EntityImage(born + 1, v)] \in Call
      BY <3>1, StaleIsCall
    <3> QED
      BY <2>1, <3>2 DEF StartWriter, Typed
  <2>2. CASE PersistThrows /\ Enter(c, Idle) /\ calm' = FALSE
    BY <2>2, IdleIsCall
  <2> QED
    BY <1>2, <2>1, <2>2
<1>4. calls' \in [Calls -> Call]
  BY <1>3, EnterCalls
<1>5. <<v>> \in Seq(Values) /\ (canonFile' = canonical' \/ canonFile' = canonFile)
  BY <1>3 DEF Persists, PersistThrows
<1>6. /\ canonical' \in [Entities -> Seq(Values)] /\ canonFile' \in [Entities -> Seq(Values)]
      /\ history' \in [Entities -> SUBSET Values]
  BY <1>1, <1>2, <1>5, VersionsTyped
<1>7. cut' \in SUBSET Sources
  BY <1>1 DEF CreateEntity, Typed, Sources
<1>8. Typed'
  BY <1>1, <1>2, <1>3, <1>4, <1>6, <1>7 DEF CreateEntity, Typed
<1> QED
  BY <1>1, <1>2, <1>3, <1>8

LEMMA UpdateTyped ==
  ASSUME Typed, NEW c \in Calls, UpdateEntity(c)
  PROVE  \E e \in Live, v \in Values, call \in Call :
           /\ StoreVersions(e, Append(canonical[e], v))
           /\ \/ /\ Persists
                 /\ call = [pc |-> "searching", src |-> e, image |-> EntityImage(e, v)]
                 /\ calm' = (calm /\ ~Collides(e))
              \/ PersistThrows /\ call = Idle /\ calm' = FALSE
           /\ Enter(c, call) /\ Typed'
<1>2. PICK e \in Live, v \in Values :
        /\ StoreVersions(e, Append(canonical[e], v))
        /\ \/ /\ Persists
              /\ StartWriter(c, e, [pc |-> "searching", src |-> e, image |-> EntityImage(e, v)])
           \/ /\ PersistThrows
              /\ Enter(c, Idle) /\ calm' = FALSE
  BY DEF UpdateEntity
<1>1. e \in Entities /\ canonical[e] \in Seq(Values)
  BY DEF Live, Typed
<1>3. PICK call :
        /\ call \in Call /\ Enter(c, call) /\ calm' \in BOOLEAN
        /\ \/ /\ Persists
              /\ call = [pc |-> "searching", src |-> e, image |-> EntityImage(e, v)]
              /\ calm' = (calm /\ ~Collides(e))
           \/ PersistThrows /\ call = Idle /\ calm' = FALSE
  <2>1. CASE /\ Persists
             /\ StartWriter(c, e, [pc |-> "searching", src |-> e, image |-> EntityImage(e, v)])
    <3>1. EntityImage(e, v) \in Image /\ EntityImage(e, v).src = e
      BY <1>1, ImagesAre
    <3>2. [pc |-> "searching", src |-> e, image |-> EntityImage(e, v)] \in Call
      BY <3>1, StaleIsCall
    <3> QED
      BY <2>1, <3>2 DEF StartWriter, Typed
  <2>2. CASE PersistThrows /\ Enter(c, Idle) /\ calm' = FALSE
    BY <2>2, IdleIsCall
  <2> QED
    BY <1>2, <2>1, <2>2
<1>4. calls' \in [Calls -> Call]
  BY <1>3, EnterCalls
<1>5. Append(canonical[e], v) \in Seq(Values) /\ (canonFile' = canonical' \/ canonFile' = canonFile)
  BY <1>1, <1>3 DEF Persists, PersistThrows
<1>6. /\ canonical' \in [Entities -> Seq(Values)] /\ canonFile' \in [Entities -> Seq(Values)]
      /\ history' \in [Entities -> SUBSET Values]
  BY <1>1, <1>2, <1>5, VersionsTyped
<1>7. cut' \in SUBSET Sources
  BY DEF UpdateEntity, Typed, Sources, Live
<1>8. Typed'
  BY <1>3, <1>4, <1>6, <1>7 DEF UpdateEntity, Typed
<1> QED
  BY <1>2, <1>3, <1>8

LEMMA IngestTyped ==
  ASSUME Typed, NEW c \in Calls, IngestArtifact(c)
  PROVE  \E a \in Artifacts \ ingested :
           LET call == [pc |-> "indexing", src |-> a, image |-> ArtifactImage(a, "filename")] IN
           /\ ingested' = ingested \cup {a} /\ call \in Call /\ Enter(c, call)
           /\ calm' = (calm /\ ~Collides(a)) /\ Typed'
<1>1. PICK a \in Artifacts \ ingested :
        /\ ingested' = ingested \cup {a}
        /\ StartWriter(c, a, [pc |-> "indexing", src |-> a, image |-> ArtifactImage(a, "filename")])
  BY DEF IngestArtifact
<1> DEFINE call == [pc |-> "indexing", src |-> a, image |-> ArtifactImage(a, "filename")]
<1>2. call \in Call
  <2>1. "filename" \in Bys
    BY DEF Bys
  <2>2. ArtifactImage(a, "filename") \in Image /\ ArtifactImage(a, "filename").src = a
    BY <2>1, ImagesAre
  <2> QED
    BY <2>2, StaleIsCall
<1>3. Enter(c, call) /\ calm' = (calm /\ ~Collides(a))
  BY <1>1 DEF StartWriter
<1> HIDE DEF call
<1>4. calls' \in [Calls -> Call]
  BY <1>2, <1>3, EnterCalls
<1>5. ingested' \in SUBSET Artifacts /\ IsFiniteSet(ingested')
  BY <1>1, FS_AddElement DEF Typed
<1>6. calm' \in BOOLEAN
  BY <1>3 DEF Typed
<1>7. Typed'
  BY <1>4, <1>5, <1>6 DEF IngestArtifact, Typed
<1> QED
  BY <1>1, <1>2, <1>3, <1>7 DEF call

LEMMA SearchTyped ==
  ASSUME Typed, NEW c \in Calls, SearchStale(c)
  PROVE  LET call == [pc |-> "removing", src |-> calls[c].src, image |-> calls[c].image,
                      todo |-> Matching(calls[c].src)]
         IN  /\ calls[c].pc = "searching" /\ calls[c] \in Stale /\ calls[c].image.src = calls[c].src
             /\ call \in Call /\ Continue(c, call) /\ Typed'
<1>1. calls[c] \in Stale /\ calls[c].image.src = calls[c].src /\ calls[c].pc = "searching"
  BY CallIs, Forms DEF SearchStale, Sound
<1>2. calls[c].image \in Image
  BY <1>1, StaleFields
<1> DEFINE todo == Matching(calls[c].src)
<1>3. {r.id : r \in {s \in Range(search(AnyText)) : s.src = calls[c].src}} = todo
  BY SearchedAll DEF Matching, RecordsOf, Range
<1>4. todo \in SUBSET {r.id : r \in Range(index)}
  BY DEF Matching, RecordsOf, Range
<1>5. todo \in SUBSET Nat /\ IsFiniteSet(todo)
  BY <1>4, IndexIdsAreFinite, FS_Subset
<1> DEFINE call == [pc |-> "removing", src |-> calls[c].src, image |-> calls[c].image, todo |-> todo]
<1>6. Continue(c, call)
  BY <1>3 DEF SearchStale
<1> HIDE DEF todo
<1>7. call \in Call
  BY <1>1, <1>2, <1>5, RemovalIsCall
<1> HIDE DEF call
<1>8. Typed'
  BY <1>6, <1>7, TypedContinue, TypedAgain DEF SearchStale, Typed
<1> QED
  BY <1>1, <1>6, <1>7, <1>8 DEF call, todo

LEMMA RemoveTyped ==
  ASSUME Typed, NEW c \in Calls, RemoveStale(c)
  PROVE  \E old \in calls[c].todo, call \in Call :
           /\ calls[c].pc = "removing" /\ calls[c] \in Removal
           /\ call.pc = "removing" /\ call.src = calls[c].src /\ call.image = calls[c].image
           /\ call.todo = calls[c].todo \ {old}
           /\ remove(old) /\ Continue(c, call) /\ Typed'
<1>1. calls[c] \in Removal /\ calls[c].image.src = calls[c].src /\ calls[c].pc = "removing" /\ IsFiniteSet(calls[c].todo)
  BY CallIs, Forms DEF RemoveStale, Sound
<1>2. calls[c].image \in Image /\ calls[c].todo \in SUBSET Nat
  BY <1>1, RemovalFields
<1>3. PICK old : /\ old = CHOOSE i \in calls[c].todo : \A j \in calls[c].todo : i <= j
                 /\ remove(old) /\ Continue(c, [calls[c] EXCEPT !.todo = @ \ {old}])
  BY DEF RemoveStale
<1>4. old \in calls[c].todo
  <2>1. \E i \in calls[c].todo : \A j \in calls[c].todo : i <= j
    BY <1>2, LeastExists DEF RemoveStale
  <2> QED
    BY <1>3, <2>1
<1>5. PICK call : call = [calls[c] EXCEPT !.todo = @ \ {old}]
  OBVIOUS
<1>6. call = [pc |-> "removing", src |-> calls[c].image.src, image |-> calls[c].image, todo |-> calls[c].todo \ {old}]
  BY <1>1, <1>5 DEF Removal
<1>7. call \in Call
  <2>1. calls[c].todo \ {old} \in SUBSET Nat /\ IsFiniteSet(calls[c].todo \ {old})
    BY <1>1, <1>2, FS_RemoveElement
  <2> QED
    BY <1>2, <1>6, <2>1, RemovalIsCall
<1>8. call.pc = "removing" /\ call.src = calls[c].src /\ call.image = calls[c].image /\ call.todo = calls[c].todo \ {old}
  BY <1>1, <1>6
<1>9. Continue(c, call)
  BY <1>3, <1>5
<1>10. index' \in Seq(Stored)
  BY <1>3, Removed
<1>11. Typed'
  BY <1>7, <1>9, <1>10, TypedContinue, TypedAgain DEF RemoveStale, Typed
<1> QED
  BY <1>1, <1>3, <1>4, <1>7, <1>8, <1>9, <1>11

LEMMA IndexTyped ==
  ASSUME Typed, NEW c \in Calls, IndexImage(c)
  PROVE  LET call == [pc |-> "recording", src |-> calls[c].src] IN
         /\ calls[c].pc = "indexing" \/ (calls[c].pc = "removing" /\ calls[c].todo = {})
         /\ calls[c].image \in Image /\ calls[c].image.src = calls[c].src /\ calls[c].src \in Sources
         /\ indexRecord(calls[c].image) /\ call \in Call /\ Continue(c, call) /\ Typed'
<1>1. calls[c].pc = "indexing" \/ (calls[c].pc = "removing" /\ calls[c].todo = {})
  BY DEF IndexImage
<1>2. calls[c].image \in Image /\ calls[c].image.src = calls[c].src /\ calls[c].src \in Sources
  BY <1>1, CallIs, Forms, StaleFields, RemovalFields DEF Sound
<1> DEFINE call == [pc |-> "recording", src |-> calls[c].src]
<1>3. call \in Call /\ Continue(c, call)
  BY <1>2, RecordingIsCall DEF IndexImage
<1> HIDE DEF call
<1>4. indexRecord(calls[c].image)
  BY DEF IndexImage
<1>5. index' \in Seq(Stored)
  BY <1>2, <1>4, Indexed, Appended
<1>6. Typed'
  BY <1>3, <1>5, TypedContinue, TypedAgain DEF IndexImage, Typed
<1> QED
  BY <1>1, <1>2, <1>3, <1>4, <1>6 DEF call

LEMMA RecordTyped ==
  ASSUME Typed, NEW c \in Calls, RecordEvent(c)
  PROVE  /\ calls[c].pc = "recording" /\ calls[c].src \in Sources
         /\ Continue(c, Idle) /\ Typed'
<1>1. calls[c].pc = "recording" /\ calls[c] \in Recording
  BY CallIs, Forms DEF RecordEvent
<1>2. calls[c].src \in Sources
  BY <1>1 DEF Recording
<1>3. events' \in [Sources -> Nat]
  BY <1>2 DEF RecordEvent, Typed
<1>4. Continue(c, Idle)
  BY DEF RecordEvent
<1>5. Typed'
  BY <1>3, <1>4, IdleIsCall, TypedContinue, TypedAgain DEF RecordEvent, Typed
<1> QED
  BY <1>1, <1>2, <1>4, <1>5

LEMMA ListTyped ==
  ASSUME Typed, NEW c \in Calls, ListEntities(c)
  PROVE  \E call \in Call :
           /\ call.pc = "listing" /\ call.staged = EntityImages /\ call.alone = (Busy = {})
           /\ Enter(c, call) /\ Typed'
<1>1. PICK by \in Bys : Enter(c, [pc |-> "listing", by |-> by, staged |-> EntityImages, alone |-> Busy = {}])
  BY DEF ListEntities, Bys
<1> DEFINE call == [pc |-> "listing", by |-> by, staged |-> EntityImages, alone |-> Busy = {}]
<1>2. EntityImages \in Seq(Image)
  BY ListedEntities
<1>3. call \in Rebuilder
  <2>1. (Busy = {}) \in BOOLEAN
    OBVIOUS
  <2> QED
    BY <1>2, <2>1 DEF Rebuilder
<1>4. call \in Call
  BY <1>3, RebuilderIsCall
<1>5. call.pc = "listing" /\ call.staged = EntityImages /\ call.alone = (Busy = {})
  OBVIOUS
<1>6. Enter(c, call)
  BY <1>1
<1> HIDE DEF call
<1>7. calls' \in [Calls -> Call]
  BY <1>4, <1>6, EnterCalls
<1>8. calm' \in BOOLEAN
  BY DEF ListEntities, Typed
<1>9. Typed'
  BY <1>7, <1>8, TypedAgain DEF ListEntities, Typed
<1> QED
  BY <1>4, <1>5, <1>6, <1>9

LEMMA ListArtifactsTyped ==
  ASSUME Typed, NEW c \in Calls, ListArtifacts(c)
  PROVE  \E call \in Call :
           /\ calls[c].pc = "listing" /\ calls[c] \in Rebuilder
           /\ call.pc \in {"reading", "replacing"} /\ call.alone = calls[c].alone
           /\ call.staged = calls[c].staged \o ArtifactImages(ingested, calls[c].by)
           /\ Continue(c, call) /\ Typed'
<1>1. calls[c].pc = "listing" /\ calls[c] \in Rebuilder
  BY CallIs, Forms DEF ListArtifacts
<1>2. calls[c].by \in Bys /\ calls[c].staged \in Seq(Image) /\ calls[c].alone \in BOOLEAN
  BY <1>1, RebuilderFields
<1>3. PICK p \in {"reading", "replacing"} : p = IF calls[c].by = "content" THEN "reading" ELSE "replacing"
  OBVIOUS
<1>4. PICK staged \in Seq(Image) : staged = calls[c].staged \o ArtifactImages(ingested, calls[c].by)
  <2>1. ArtifactImages(ingested, calls[c].by) \in Seq(Image)
    BY <1>2, ListedArtifacts
  <2>2. \A s, t \in Seq(Image) : s \o t \in Seq(Image)
    OBVIOUS
  <2>3. calls[c].staged \o ArtifactImages(ingested, calls[c].by) \in Seq(Image)
    BY <1>2, <2>1, <2>2
  <2> QED
    BY <2>3
<1>5. PICK call : call = [pc |-> p, by |-> calls[c].by, alone |-> calls[c].alone, staged |-> staged]
  OBVIOUS
<1>6. Continue(c, call)
  BY <1>3, <1>4, <1>5 DEF ListArtifacts
<1>7. call \in Rebuilder /\ call.pc = p /\ call.alone = calls[c].alone /\ call.staged = staged
  BY <1>2, <1>5 DEF Rebuilder
<1>8. call \in Call
  BY <1>7, RebuilderIsCall
<1>9. Typed'
  BY <1>6, <1>8, TypedContinue, TypedAgain DEF ListArtifacts, Typed
<1> QED
  BY <1>1, <1>4, <1>6, <1>7, <1>8, <1>9

Readable(staged) == {i \in DOMAIN staged : staged[i].src \notin damaged}

LEMMA ReadTyped ==
  ASSUME Typed, NEW c \in Calls, ReadContents(c)
  PROVE  \E call \in Call :
           /\ calls[c].pc = "reading" /\ calls[c] \in Rebuilder
           /\ call.pc = "replacing" /\ call.alone = (calls[c].alone /\ ingested \cap damaged = {})
           /\ call.staged = Pick(calls[c].staged, Readable(calls[c].staged))
           /\ Continue(c, call) /\ Typed'
<1>1. calls[c].pc = "reading" /\ calls[c] \in Rebuilder
  BY CallIs, Forms DEF ReadContents
<1>2. calls[c].by \in Bys /\ calls[c].staged \in Seq(Image) /\ calls[c].alone \in BOOLEAN
  BY <1>1, RebuilderFields
<1>3. PICK staged \in Seq(Image) : staged = Pick(calls[c].staged, Readable(calls[c].staged))
  <2>1. Readable(calls[c].staged) \in SUBSET DOMAIN calls[c].staged
    BY DEF Readable
  <2> QED
    BY <1>2, <2>1, PickPlaces
<1>4. PICK alone \in BOOLEAN : alone = (calls[c].alone /\ ingested \cap damaged = {})
  BY <1>2
<1>5. PICK call : call = [calls[c] EXCEPT !.pc = "replacing", !.staged = staged,
                                         !.alone = @ /\ ingested \cap damaged = {}]
  OBVIOUS
<1>6. Continue(c, call)
  BY <1>3, <1>5 DEF ReadContents, Readable
<1>7. call = [calls[c] EXCEPT !.pc = "replacing", !.staged = staged, !.alone = alone]
  BY <1>4, <1>5
<1>8. call \in Rebuilder /\ call.pc = "replacing" /\ call.alone = alone /\ call.staged = staged
  BY <1>1, <1>7 DEF Rebuilder
<1>9. call \in Call
  BY <1>8, RebuilderIsCall
<1>10. Typed'
  BY <1>6, <1>9, TypedContinue, TypedAgain DEF ReadContents, Typed
<1> QED
  BY <1>1, <1>3, <1>4, <1>6, <1>8, <1>9, <1>10

LEMMA SwapTyped ==
  ASSUME Typed, NEW c \in Calls, SwapIndex(c)
  PROVE  /\ calls[c].pc = "replacing" /\ calls[c] \in Rebuilder /\ calls[c].staged \in Seq(Image)
         /\ replaceAll(calls[c].staged) /\ Continue(c, Idle) /\ calm' = calls[c].alone /\ Typed'
<1>1. calls[c].pc = "replacing" /\ calls[c] \in Rebuilder
  BY CallIs, Forms DEF SwapIndex
<1>2. calls[c].staged \in Seq(Image) /\ calls[c].alone \in BOOLEAN
  BY <1>1, RebuilderFields
<1>3. replaceAll(calls[c].staged) /\ Continue(c, Idle) /\ calm' = calls[c].alone
  BY DEF SwapIndex
<1>4. index' \in Seq(Stored)
  BY <1>2, <1>3, Replaced
<1>5. Typed'
  BY <1>2, <1>3, <1>4, IdleIsCall, TypedContinue, TypedAgain DEF SwapIndex, Typed
<1> QED
  BY <1>1, <1>2, <1>3, <1>5

LEMMA VersionIsNumber ==
  ASSUME Typed, NEW s \in Sources
  PROVE  /\ VersionOf(s) \in Nat /\ (VersionOf(s) > 0 <=> s \in Present)
         /\ s \in Entities => VersionOf(s) = Len(canonical[s])
<1>1. ASSUME s \in Entities PROVE canonical[s] \in Seq(Values)
  BY <1>1 DEF Typed
<1>2. \A q \in Seq(Values) : Len(q) \in Nat /\ (Len(q) > 0 <=> q # <<>>)
  OBVIOUS
<1>3. s \in Entities => s \notin ingested
  BY Sizes DEF Typed
<1>4. CASE s \in Entities
  BY <1>1, <1>2, <1>3, <1>4 DEF VersionOf, Present, Live
<1>5. CASE s \notin Entities
  BY <1>5 DEF VersionOf, Present, Live
<1> QED
  BY <1>4, <1>5

LEMMA PlanTyped ==
  ASSUME Typed, NEW c \in Calls, Plan(c)
  PROVE  \E call \in Call :
           /\ calls[c] = Idle /\ (\A d \in Calls : ~Planning(d))
           /\ call \in Planner /\ call.pc = "resolving" /\ call.page \in Pages(search(call.query))
           /\ call.got = <<>> /\ call.resolved = {} /\ call.missing = {}
           /\ call.alone = (calm /\ Busy = {}) /\ call.began = [s \in Sources |-> VersionOf(s)]
           /\ Continue(c, call) /\ Typed'
<1>0. PICK q \in Queries : \E page \in Pages(search(q)) :
        Continue(c, [pc |-> "resolving", query |-> q, page |-> page, got |-> <<>>,
                     resolved |-> {}, missing |-> {}, alone |-> calm /\ Busy = {},
                     began |-> [s \in Sources |-> VersionOf(s)]])
  BY DEF Plan
<1>1. PICK page \in Pages(search(q)) :
        Continue(c, [pc |-> "resolving", query |-> q, page |-> page, got |-> <<>>,
                     resolved |-> {}, missing |-> {}, alone |-> calm /\ Busy = {},
                     began |-> [s \in Sources |-> VersionOf(s)]])
  BY <1>0
<1>2. PICK alone \in BOOLEAN : alone = (calm /\ Busy = {})
  OBVIOUS
<1>3. PICK began \in [Sources -> Nat] : began = [s \in Sources |-> VersionOf(s)]
  <2>1. \A s \in Sources : VersionOf(s) \in Nat
    BY VersionIsNumber
  <2>2. [s \in Sources |-> VersionOf(s)] \in [Sources -> Nat]
    BY <2>1
  <2> QED
    BY <2>2
<1>4. page \in Seq(Image)
  BY PagesAre
<1>5. PICK call : call = [pc |-> "resolving", query |-> q, page |-> page, got |-> <<>>,
                          resolved |-> {}, missing |-> {}, alone |-> alone, began |-> began]
  OBVIOUS
<1>6. Continue(c, call)
  BY <1>1, <1>2, <1>3, <1>5
<1>7. /\ call \in Planner /\ call.pc = "resolving" /\ call.page = page /\ call.query = q
      /\ call.got = <<>> /\ call.resolved = {} /\ call.missing = {} /\ call.alone = alone /\ call.began = began
  BY <1>4, <1>5 DEF Planner
<1>8. call \in Call
  BY <1>7, PlannerIsCall, FS_EmptySet
<1>9. Typed'
  BY <1>6, <1>8, TypedContinue, TypedAgain DEF Plan, Typed
<1> QED
  BY <1>2, <1>3, <1>6, <1>7, <1>8, <1>9 DEF Plan

(* What the retrieval finds at the source of its next candidate.            *)
Found(r) == [src |-> r.src, version |-> VersionOf(r.src),
             indexStale |-> r.src \in Entities /\ r.text # TextOf[Latest(r.src)]]

LEMMA FoundIs ==
  ASSUME Typed, NEW r \in Image
  PROVE  /\ Found(r) \in Got /\ Found(r).src = r.src /\ Found(r).version = VersionOf(r.src)
         /\ Found(r).indexStale <=> (r.src \in Entities /\ r.text # TextOf[Latest(r.src)])
<1>1. r.src \in Sources
  BY DEF Image
<1>2. VersionOf(r.src) \in Nat
  BY <1>1, VersionIsNumber
<1>3. PICK stale \in BOOLEAN : stale = (r.src \in Entities /\ r.text # TextOf[Latest(r.src)])
  OBVIOUS
<1>4. Found(r) = [src |-> r.src, version |-> VersionOf(r.src), indexStale |-> stale]
  BY <1>3 DEF Found
<1>5. Found(r) \in Got /\ Found(r).src = r.src /\ Found(r).version = VersionOf(r.src)
      /\ Found(r).indexStale = stale
  BY <1>1, <1>2, <1>4 DEF Got
<1> QED
  BY <1>3, <1>5

LEMMA PageHead ==
  ASSUME NEW p \in Seq(Image), p # <<>>
  PROVE  /\ Head(p) \in Image /\ Tail(p) \in Seq(Image) /\ Head(p) = p[1] /\ 1 \in DOMAIN p
         /\ \A i \in DOMAIN Tail(p) : i + 1 \in DOMAIN p /\ Tail(p)[i] = p[i + 1]
         /\ \A i \in DOMAIN p : i # 1 => \E j \in DOMAIN Tail(p) : Tail(p)[j] = p[i]
<1>1. \A i \in DOMAIN p : i # 1 => i - 1 \in DOMAIN Tail(p) /\ Tail(p)[i - 1] = p[i]
  OBVIOUS
<1>2. /\ Head(p) \in Image /\ Tail(p) \in Seq(Image) /\ Head(p) = p[1] /\ 1 \in DOMAIN p
      /\ \A i \in DOMAIN Tail(p) : i + 1 \in DOMAIN p /\ Tail(p)[i] = p[i + 1]
  OBVIOUS
<1> QED
  BY <1>1, <1>2

LEMMA ResolveTyped ==
  ASSUME Typed, NEW c \in Calls, Resolve(c)
  PROVE  LET b == calls[c]
             r == Head(b.page)
         IN  /\ b \in Planner /\ b.pc = "resolving" /\ b.page # <<>> /\ r \in Image
             /\ \E call \in Call :
                  /\ call \in Planner /\ Continue(c, call) /\ Typed'
                  /\ call.query = b.query /\ call.resolved = b.resolved /\ call.began = b.began
                  /\ call.alone = b.alone
                  /\ \/ /\ VersionOf(r.src) > 0 /\ call.pc = "tracing" /\ call.got = <<Found(r)>>
                        /\ call.page = b.page /\ call.missing = b.missing
                     \/ /\ ~(VersionOf(r.src) > 0) /\ call.pc = "resolving" /\ call.got = b.got
                        /\ call.page = Tail(b.page) /\ call.missing = b.missing \cup {r.src}
<1> DEFINE b == calls[c]
           r == Head(b.page)
<1>1. b \in Planner /\ b.pc = "resolving" /\ b.page # <<>> /\ IsFiniteSet(b.resolved)
  BY CallIs, Forms DEF Resolve, Sound
<1>2. b.page \in Seq(Image) /\ b.missing \in SUBSET Sources /\ b.resolved \in SUBSET Shown
  BY <1>1, PlannerFields
<1>3. r \in Image /\ r.src \in Sources /\ Tail(b.page) \in Seq(Image)
  BY <1>1, <1>2, PageHead DEF Image
<1>4. CASE VersionOf(r.src) > 0
  <2>1. PICK got : got = Found(r)
    OBVIOUS
  <2>2. <<got>> \in Seq(Got) /\ Len(<<got>>) = 1
    BY <1>3, <2>1, FoundIs
  <2>3. PICK call : call = [b EXCEPT !.pc = "tracing", !.got = <<got>>]
    OBVIOUS
  <2>4. Continue(c, call)
    BY <1>4, <2>1, <2>3 DEF Resolve, Found
  <2>5. /\ call \in Planner /\ call.pc = "tracing" /\ call.got = <<got>>
        /\ call.query = b.query /\ call.page = b.page /\ call.resolved = b.resolved
        /\ call.missing = b.missing /\ call.alone = b.alone /\ call.began = b.began
    BY <1>1, <2>2, <2>3 DEF Planner
  <2>6. call \in Call
    BY <1>1, <2>2, <2>5, PlannerIsCall
  <2>7. Typed'
    BY <2>4, <2>6, TypedContinue, TypedAgain DEF Resolve, Typed
  <2> QED
    BY <1>1, <1>3, <1>4, <2>1, <2>4, <2>5, <2>6, <2>7
<1>5. CASE ~(VersionOf(r.src) > 0)
  <2>1. PICK call : call = [b EXCEPT !.page = Tail(b.page), !.missing = b.missing \cup {r.src}]
    OBVIOUS
  <2>2. Continue(c, call)
    BY <1>5, <2>1 DEF Resolve
  <2>3. b.missing \cup {r.src} \in SUBSET Sources
    BY <1>2, <1>3
  <2>4. /\ call \in Planner /\ call.pc = "resolving" /\ call.got = b.got
        /\ call.query = b.query /\ call.page = Tail(b.page) /\ call.resolved = b.resolved
        /\ call.missing = b.missing \cup {r.src} /\ call.alone = b.alone /\ call.began = b.began
    BY <1>1, <1>3, <2>1, <2>3 DEF Planner
  <2>5. call \in Call
    BY <1>1, <2>4, PlannerIsCall
  <2>6. Typed'
    BY <2>2, <2>5, TypedContinue, TypedAgain DEF Resolve, Typed
  <2> QED
    BY <1>1, <1>3, <1>5, <2>2, <2>4, <2>5, <2>6
<1> QED
  BY <1>4, <1>5

LEMMA TracedIs ==
  ASSUME NEW o \in Got, NEW n \in Nat, NEW p \in Nat
  PROVE  /\ Traced(o, n, p) \in Shown /\ Traced(o, n, p).src = o.src /\ Traced(o, n, p).version = o.version
         /\ Traced(o, n, p).provenance = n /\ Traced(o, n, p).pending = p
         /\ Traced(o, n, p).indexStale = o.indexStale
  BY DEF Traced, Got, Shown

(* What the ledger's answer makes of the object.                           *)
Answered(o) == Traced(o, events[o.src], Cardinality(WritersOf(o.src)))

LEMMA WritersCounted ==
  ASSUME NEW s
  PROVE  WritersOf(s) \in SUBSET Calls /\ IsFiniteSet(WritersOf(s)) /\ Cardinality(WritersOf(s)) \in Nat
<1>1. WritersOf(s) \in SUBSET Calls
  BY DEF WritersOf
<1>2. IsFiniteSet(WritersOf(s))
  BY <1>1, CallsAreFinite, FS_Subset
<1> QED
  BY <1>1, <1>2, FS_CardinalityType

LEMMA AnsweredIs ==
  ASSUME Typed, NEW o \in Got
  PROVE  /\ Answered(o) \in Shown /\ Answered(o).src = o.src /\ Answered(o).version = o.version
         /\ Answered(o).provenance = events[o.src]
         /\ Answered(o).pending = Cardinality(WritersOf(o.src))
         /\ Answered(o).indexStale = o.indexStale
<1>1. events[o.src] \in Nat
  BY DEF Got, Typed
<1> QED
  BY <1>1, WritersCounted, TracedIs DEF Answered

LEMMA EventsTyped ==
  ASSUME Typed, NEW c \in Calls, ListEvents(c)
  PROVE  LET b == calls[c]
             o == b.got[1]
         IN  /\ b \in Planner /\ b.pc = "tracing" /\ b.page # <<>> /\ o \in Got /\ events[o.src] \in Nat
             /\ \E call \in Call :
                  /\ call \in Planner /\ Continue(c, call) /\ Typed'
                  /\ call.query = b.query /\ call.began = b.began /\ call.alone = b.alone
                  /\ call.pc = "resolving" /\ call.got = <<>> /\ call.page = Tail(b.page)
                  /\ call.missing = b.missing
                  /\ call.resolved = b.resolved \cup {Answered(o)}
<1> DEFINE b == calls[c]
           o == b.got[1]
<1>1. b \in Planner /\ b.pc = "tracing" /\ b.page # <<>> /\ IsFiniteSet(b.resolved) /\ Len(b.got) = 1
  BY CallIs, Forms DEF ListEvents, Sound
<1>2. b.page \in Seq(Image) /\ b.resolved \in SUBSET Shown /\ b.got \in Seq(Got)
  BY <1>1, PlannerFields
<1>3. o \in Got /\ Tail(b.page) \in Seq(Image)
  BY <1>1, <1>2, PageHead
<1>4. o.src \in Sources /\ events[o.src] \in Nat
  BY <1>3 DEF Got, Typed
<1>5. PICK resolved : resolved = b.resolved \cup {Answered(o)}
  OBVIOUS
<1>6. resolved \in SUBSET Shown /\ IsFiniteSet(resolved)
  <2>1. Answered(o) \in Shown
    BY <1>3, AnsweredIs
  <2>2. IsFiniteSet(b.resolved \cup {Answered(o)})
    BY <1>1, FS_AddElement
  <2> QED
    BY <1>2, <1>5, <2>1, <2>2
<1>7. PICK call : call = [b EXCEPT !.pc = "resolving", !.page = Tail(b.page), !.got = <<>>, !.resolved = resolved]
  OBVIOUS
<1>8. Continue(c, call)
  BY <1>5, <1>7 DEF ListEvents, Answered
<1>9. <<>> \in Seq(Got)
  OBVIOUS
<1>10. /\ call \in Planner /\ call.pc = "resolving" /\ call.got = <<>>
      /\ call.query = b.query /\ call.page = Tail(b.page) /\ call.resolved = resolved
      /\ call.missing = b.missing /\ call.alone = b.alone /\ call.began = b.began
  BY <1>1, <1>3, <1>6, <1>7, <1>9 DEF Planner
<1>11. call \in Call
  BY <1>6, <1>10, PlannerIsCall
<1>12. Typed'
  BY <1>8, <1>11, TypedContinue, TypedAgain DEF ListEvents, Typed
<1> QED
  BY <1>1, <1>3, <1>4, <1>5, <1>8, <1>10, <1>11, <1>12

LEMMA FinishTyped ==
  ASSUME Typed, NEW c \in Calls, FinishBundle(c)
  PROVE  LET b == calls[c] IN
         /\ b \in Planner /\ b.pc = "resolving" /\ b.page = <<>>
         /\ \E call \in Call :
              /\ call \in Planner /\ Continue(c, call) /\ Typed' /\ call.pc = "bundle"
              /\ call.query = b.query /\ call.page = b.page /\ call.resolved = b.resolved
              /\ call.missing = b.missing /\ call.alone = b.alone /\ call.began = b.began
<1> DEFINE b == calls[c]
<1>1. b \in Planner /\ b.pc = "resolving" /\ b.page = <<>> /\ IsFiniteSet(b.resolved)
  BY CallIs, Forms DEF FinishBundle, Sound
<1>2. PICK call : call = [b EXCEPT !.pc = "bundle"]
  OBVIOUS
<1>3. Continue(c, call)
  BY <1>2 DEF FinishBundle
<1>4. /\ call \in Planner /\ call.pc = "bundle"
      /\ call.query = b.query /\ call.page = b.page /\ call.resolved = b.resolved
      /\ call.missing = b.missing /\ call.alone = b.alone /\ call.began = b.began
  BY <1>1, <1>2 DEF Planner
<1>5. call \in Call
  BY <1>1, <1>4, PlannerIsCall
<1>6. Typed'
  BY <1>3, <1>5, TypedContinue, TypedAgain DEF FinishBundle, Typed
<1> QED
  BY <1>1, <1>3, <1>4, <1>5, <1>6

LEMMA ReturnTyped ==
  ASSUME Typed, NEW c \in Calls, ReturnBundle(c)
  PROVE  calls[c].pc = "bundle" /\ Continue(c, Idle) /\ Typed'
  BY IdleIsCall, TypedContinue, TypedAgain DEF ReturnBundle, Typed

LEMMA RestartTyped ==
  ASSUME Typed, Restart
  PROVE  Typed' /\ \A c \in Calls : calls'[c] = Idle
<1>1. calls' \in [Calls -> Call] /\ \A c \in Calls : calls'[c] = Idle
  BY IdleIsCall DEF Restart
<1>2. lost' \in SUBSET Entities /\ calm' \in BOOLEAN
  BY DEF Restart, Typed
<1>3. \A c \in Calls : Writing(c) => calls[c].src \in Sources
  BY CallIs, Forms DEF Writing, Stale, Removal, Recording
<1>4. cut' \in SUBSET Sources
  BY <1>3 DEF Restart, Typed
<1> QED
  BY <1>1, <1>2, <1>4 DEF Restart, Typed

LEMMA DamageTyped ==
  ASSUME Typed, NEW a \in Artifacts, DamageBlob(a)
  PROVE  Typed'
  BY DEF DamageBlob, Typed

LEMMA TypedStep == Typed /\ [Next]_vars => Typed'
<1> SUFFICES ASSUME Typed, [Next]_vars PROVE Typed'
  OBVIOUS
<1>1. ASSUME NEW c \in Calls, Write(c) PROVE Typed'
  BY <1>1, CreateTyped, UpdateTyped, IngestTyped, SearchTyped, RemoveTyped, IndexTyped, RecordTyped DEF Write
<1>2. ASSUME NEW c \in Calls, Rebuild(c) PROVE Typed'
  BY <1>2, ListTyped, ListArtifactsTyped, ReadTyped, SwapTyped DEF Rebuild
<1>3. ASSUME NEW c \in Calls, Retrieve(c) PROVE Typed'
  BY <1>3, PlanTyped, ResolveTyped, EventsTyped, FinishTyped, ReturnTyped DEF Retrieve
<1>4. ASSUME NEW a \in Artifacts, DamageBlob(a) PROVE Typed'
  BY <1>4, DamageTyped
<1>5. CASE UNCHANGED vars
  BY <1>5 DEF Typed, vars, owners
<1> QED
  BY <1>1, <1>2, <1>3, <1>4, <1>5, RestartTyped DEF Next

(* Every state is well typed.                                              *)
THEOREM TypeCorrect == Spec => []Typed
<1>1. Init => Typed
  BY TypedInit
<1>2. Typed /\ [Next]_vars => Typed'
  BY TypedStep
<1> QED
  BY <1>1, <1>2, PTL DEF Spec

-----------------------------------------------------------------------------
(* Records are images of versions that were: every image in the index or    *)
(* on its way there is, and what is true of an image stays true.            *)
HistoryGrows ==
  /\ \A e \in Entities : history[e] \subseteq history'[e]
  /\ \A e \in Entities : e \in lost' \/ Range(canonical[e]) \subseteq Range(canonical'[e])
  /\ lost \subseteq lost'

LEMMA StaysHistory ==
  ASSUME HistoryGrows, NEW image, IsHistory(image)
  PROVE  IsHistory(image)'
<1>1. SUFFICES ASSUME image.src \in Entities
               PROVE  /\ image.text = TextOf[image.meta] /\ image.meta \in history'[image.src]
                      /\ image.src \notin lost' => image.meta \in Range(canonical'[image.src])
  BY DEF IsHistory
<1>2. /\ image.text = TextOf[image.meta] /\ image.meta \in history[image.src]
      /\ image.src \notin lost => image.meta \in Range(canonical[image.src])
  BY <1>1 DEF IsHistory
<1> QED
  BY <1>1, <1>2 DEF HistoryGrows

LEMMA StockHas ==
  /\ \A i \in DOMAIN index : Unnumbered(index[i]) \in Stock
  /\ \A c \in Calls : Holds(calls[c]) \subseteq Stock
  BY DEF Stock, Range

LEMMA StockFrom ==
  ASSUME NEW X, \A i \in DOMAIN index' : Unnumbered(index'[i]) \in X,
         \A c \in Calls : Holds(calls'[c]) \subseteq X
  PROVE  Stock' \subseteq X
  BY DEF Stock, Range

LEMMA KeptHolds ==
  ASSUME NEW old \in Call, NEW new, Kept(old, new)
  PROVE  Holds(new) = Holds(old)
<1>1. CASE old.pc \in {"idle", "searching", "removing", "indexing", "recording"}
  BY <1>1 DEF Kept
<1>2. CASE old.pc \in {"listing", "reading", "replacing"}
  BY <1>2 DEF Kept, Holds
<1>3. CASE old.pc \in {"resolving", "tracing", "bundle"}
  BY <1>3 DEF Kept, Holds
<1> QED
  BY <1>1, <1>2, <1>3, Forms

LEMMA IdleHolds == Holds(Idle) = {}
  BY IdleIsCall DEF Holds

(* A step that changes one call, and brings only images of history, keeps   *)
(* the stock.                                                              *)
LEMMA EnterStock ==
  ASSUME Typed, NEW c \in Calls, NEW call \in Call, Enter(c, call), index' = index
  PROVE  Stock' \subseteq Stock \cup Holds(call)
<1>1. \A d \in Calls : Holds(calls'[d]) \subseteq Stock \cup Holds(call)
  <2>1. calls'[c] = call /\ \A d \in Calls : d # c => Kept(calls[d], calls'[d])
    BY EnterCalls
  <2>2. \A d \in Calls : d # c => Holds(calls'[d]) = Holds(calls[d])
    BY <2>1, CallIs, KeptHolds
  <2> QED
    BY <2>1, <2>2, StockHas
<1>2. \A i \in DOMAIN index' : Unnumbered(index'[i]) \in Stock \cup Holds(call)
  BY StockHas
<1> QED
  BY <1>1, <1>2, StockFrom

LEMMA ContinueStock ==
  ASSUME Typed, NEW c \in Calls, NEW call \in Call, Continue(c, call), NEW X,
         \A i \in DOMAIN index' : Unnumbered(index'[i]) \in Stock \cup X
  PROVE  Stock' \subseteq Stock \cup Holds(call) \cup X
<1>1. \A d \in Calls : Holds(calls'[d]) \subseteq Stock \cup Holds(call) \cup X
  <2>1. calls'[c] = call /\ \A d \in Calls : d # c => calls'[d] = calls[d]
    BY TypedContinue
  <2> QED
    BY <2>1, StockHas
<1> QED
  BY <1>1, StockFrom

LEMMA KeptAgain ==
  ASSUME HistoryKept, UNCHANGED <<canonical, canonFile, born, history, lost>>,
         \A image \in Stock' : image \in Stock \/ IsHistory(image)
  PROVE  HistoryKept'
<1>1. HistoryGrows
  BY DEF HistoryGrows
<1>2. \A image \in Stock' : IsHistory(image)
  BY DEF HistoryKept
<1>3. \A image \in Stock' : IsHistory(image)'
  BY <1>1, <1>2, StaysHistory
<1>4. \A e \in Entities : Range(canonical'[e]) \cup Range(canonFile'[e]) \subseteq history'[e]
  BY DEF HistoryKept
<1>5. \A e \in Entities : e > born' => history'[e] = {}
  BY DEF HistoryKept
<1> QED
  BY <1>3, <1>4, <1>5 DEF HistoryKept

LEMMA LatestIsHistory ==
  ASSUME Typed, HistoryKept, NEW e \in Live
  PROVE  IsHistory(EntityImage(e, Latest(e)))
  BY LatestIs, ImagesAre DEF IsHistory, HistoryKept

LEMMA ArtifactIsHistory ==
  ASSUME NEW image, image.src \in Artifacts
  PROVE  IsHistory(image)
  BY Sizes DEF IsHistory

(* Writers of versions.                                                     *)
LEMMA WrittenHistory ==
  ASSUME Typed, HistoryKept, NEW e \in Entities, NEW vs \in Seq(Values), NEW v \in Values,
         StoreVersions(e, vs), Range(vs) = Range(canonical[e]) \cup {v},
         canonFile' = canonical' \/ canonFile' = canonFile, lost' = lost
  PROVE  /\ HistoryGrows /\ IsHistory(EntityImage(e, v))'
         /\ \A f \in Entities : Range(canonical'[f]) \cup Range(canonFile'[f]) \subseteq history'[f]
         /\ \A f \in Entities : f # e => history'[f] = history[f]
<1>1. /\ canonical'[e] = vs /\ history'[e] = history[e] \cup Range(vs)
      /\ \A f \in Entities : f # e => canonical'[f] = canonical[f] /\ history'[f] = history[f]
  BY DEF StoreVersions, Typed
<1>2. HistoryGrows
  BY <1>1 DEF HistoryGrows
<1>3. \A f \in Entities : Range(canonical[f]) \subseteq history[f] /\ Range(canonFile[f]) \subseteq history[f]
  BY DEF HistoryKept
<1>4. \A f \in Entities : Range(canonical'[f]) \subseteq history'[f]
  BY <1>1, <1>3
<1>5. \A f \in Entities : Range(canonFile'[f]) \subseteq history'[f]
  BY <1>1, <1>3, <1>4
<1>6. EntityImage(e, v)' = EntityImage(e, v)
  BY DEF EntityImage
<1>7. v \in history'[e] /\ v \in Range(canonical'[e])
  BY <1>1
<1>8. IsHistory(EntityImage(e, v))'
  BY <1>1, <1>6, <1>7, ImagesAre DEF IsHistory
<1> QED
  BY <1>1, <1>2, <1>4, <1>5, <1>8

LEMMA EnterHistory ==
  ASSUME Typed, HistoryKept, HistoryGrows, NEW c \in Calls, NEW call \in Call, Enter(c, call), index' = index,
         \A image \in Holds(call) : IsHistory(image)'
  PROVE  \A image \in Stock' : IsHistory(image)'
<1>1. Stock' \subseteq Stock \cup Holds(call)
  BY EnterStock
<1>2. \A image \in Stock : IsHistory(image)
  BY DEF HistoryKept
<1> QED
  BY <1>1, <1>2, StaysHistory

LEMMA CreateHistory ==
  ASSUME Typed, HistoryKept, NEW c \in Calls, CreateEntity(c)
  PROVE  HistoryKept'
<1>1. PICK v \in Values, call \in Call :
        /\ born' = born + 1 /\ born + 1 \in Entities /\ StoreVersions(born + 1, <<v>>)
        /\ \/ /\ Persists
              /\ call = [pc |-> "indexing", src |-> born + 1, image |-> EntityImage(born + 1, v)]
           \/ PersistThrows /\ call = Idle
        /\ Enter(c, call)
  BY CreateTyped
<1>2. PICK e \in Entities : e = born + 1
  BY <1>1
<1>3. Range(<<v>>) = {v} /\ <<v>> \in Seq(Values)
  BY DEF Range
<1>4. Range(canonical[e]) = {}
  <2>1. e > born
    BY <1>2 DEF Typed
  <2> QED
    BY <2>1 DEF HistoryKept
<1>5. canonFile' = canonical' \/ canonFile' = canonFile
  BY <1>1 DEF Persists, PersistThrows
<1>6. index' = index /\ lost' = lost
  BY DEF CreateEntity
<1>7. /\ HistoryGrows /\ IsHistory(EntityImage(e, v))'
      /\ \A f \in Entities : Range(canonical'[f]) \cup Range(canonFile'[f]) \subseteq history'[f]
      /\ \A f \in Entities : f # e => history'[f] = history[f]
  <2>1. StoreVersions(e, <<v>>) /\ Range(<<v>>) = Range(canonical[e]) \cup {v}
    BY <1>1, <1>2, <1>3, <1>4
  <2> QED
    BY <1>3, <1>5, <1>6, <2>1, WrittenHistory
<1>8. Holds(call) \subseteq {EntityImage(e, v)}
  BY <1>1, <1>2, IdleHolds DEF Holds
<1>9. \A image \in Holds(call) : IsHistory(image)'
  BY <1>7, <1>8
<1>10. \A image \in Stock' : IsHistory(image)'
  BY <1>1, <1>6, <1>7, <1>9, EnterHistory
<1>11. \A f \in Entities : f > born' => history'[f] = {}
  <2>1. \A f \in Entities : f > born + 1 => f > born /\ f # e
    BY <1>2, Sizes DEF Typed
  <2> QED
    BY <1>1, <1>7, <2>1 DEF HistoryKept
<1> QED
  BY <1>7, <1>10, <1>11 DEF HistoryKept

LEMMA UpdateHistory ==
  ASSUME Typed, HistoryKept, NEW c \in Calls, UpdateEntity(c)
  PROVE  HistoryKept'
<1>1. PICK e \in Live, v \in Values, call \in Call :
        /\ StoreVersions(e, Append(canonical[e], v))
        /\ \/ /\ Persists
              /\ call = [pc |-> "searching", src |-> e, image |-> EntityImage(e, v)]
           \/ PersistThrows /\ call = Idle
        /\ Enter(c, call)
  BY UpdateTyped
<1>2. e \in Entities /\ canonical[e] \in Seq(Values) /\ canonical[e] # <<>>
  BY DEF Live, Typed
<1>3. PICK vs \in Seq(Values) : vs = Append(canonical[e], v)
  <2>1. \A q \in Seq(Values) : Append(q, v) \in Seq(Values)
    OBVIOUS
  <2> QED
    BY <1>2, <2>1
<1>4. Range(vs) = Range(canonical[e]) \cup {v}
  <2>1. \A q \in Seq(Values) : {Append(q, v)[i] : i \in DOMAIN Append(q, v)} = {q[i] : i \in DOMAIN q} \cup {v}
    <3>1. TAKE q \in Seq(Values)
    <3>2. DOMAIN Append(q, v) = DOMAIN q \cup {Len(q) + 1} /\ Append(q, v)[Len(q) + 1] = v
      OBVIOUS
    <3>3. \A i \in DOMAIN q : Append(q, v)[i] = q[i]
      OBVIOUS
    <3> QED
      BY <3>2, <3>3
  <2> QED
    BY <1>2, <1>3, <2>1 DEF Range
<1>5. canonFile' = canonical' \/ canonFile' = canonFile
  BY <1>1 DEF Persists, PersistThrows
<1>6. index' = index /\ lost' = lost /\ born' = born
  BY DEF UpdateEntity
<1>7. /\ HistoryGrows /\ IsHistory(EntityImage(e, v))'
      /\ \A f \in Entities : Range(canonical'[f]) \cup Range(canonFile'[f]) \subseteq history'[f]
      /\ \A f \in Entities : f # e => history'[f] = history[f]
  BY <1>1, <1>2, <1>3, <1>4, <1>5, <1>6, WrittenHistory
<1>8. Holds(call) \subseteq {EntityImage(e, v)}
  BY <1>1, IdleHolds DEF Holds
<1>9. \A image \in Holds(call) : IsHistory(image)'
  BY <1>7, <1>8
<1>10. \A image \in Stock' : IsHistory(image)'
  BY <1>1, <1>6, <1>7, <1>9, EnterHistory
<1>11. history[e] # {}
  <2>1. canonical[e] # <<>> => Range(canonical[e]) # {}
    <3>1. \A q \in Seq(Values) : q # <<>> => 1 \in DOMAIN q
      OBVIOUS
    <3> QED
      BY <1>2, <3>1 DEF Range
  <2> QED
    BY <1>2, <2>1 DEF HistoryKept
<1>12. \A f \in Entities : f > born' => history'[f] = {}
  BY <1>2, <1>6, <1>7, <1>11 DEF HistoryKept
<1> QED
  BY <1>7, <1>10, <1>12 DEF HistoryKept

LEMMA HistoryStep ==
  ASSUME Typed, HistoryKept, [Next]_vars
  PROVE  HistoryKept'
<1>1. ASSUME NEW c \in Calls, IngestArtifact(c) PROVE \A image \in Stock' : image \in Stock \/ IsHistory(image)
  <2>1. PICK a \in Artifacts, call \in Call :
          Enter(c, call) /\ call = [pc |-> "indexing", src |-> a, image |-> ArtifactImage(a, "filename")]
    BY <1>1, IngestTyped
  <2>2. Holds(call) = {ArtifactImage(a, "filename")}
    BY <2>1 DEF Holds
  <2>3. index' = index
    BY <1>1 DEF IngestArtifact
  <2>4. IsHistory(ArtifactImage(a, "filename"))
    BY ImagesAre, ArtifactIsHistory
  <2> QED
    BY <2>1, <2>2, <2>3, <2>4, EnterStock
<1>2. ASSUME NEW c \in Calls, ListEntities(c) PROVE \A image \in Stock' : image \in Stock \/ IsHistory(image)
  <2>1. PICK call \in Call : Enter(c, call) /\ call.pc = "listing" /\ call.staged = EntityImages
    BY <1>2, ListTyped
  <2>2. \A image \in Holds(call) : IsHistory(image)
    BY <2>1, ListedEntities, LatestIsHistory DEF Holds, Range
  <2>3. index' = index
    BY <1>2 DEF ListEntities
  <2> QED
    BY <2>1, <2>2, <2>3, EnterStock
<1>3. ASSUME NEW c \in Calls, NEW call \in Call, Continue(c, call), index' = index,
             \A image \in Holds(call) : image \in Stock \/ IsHistory(image)
      PROVE  \A image \in Stock' : image \in Stock \/ IsHistory(image)
  <2>1. Stock' \subseteq Stock \cup Holds(call) \cup {}
    BY <1>3, StockHas, ContinueStock
  <2> QED
    BY <1>3, <2>1
<1>4. ASSUME NEW c \in Calls, SearchStale(c) PROVE \A image \in Stock' : image \in Stock \/ IsHistory(image)
  <2>1. PICK call \in Call : /\ Continue(c, call) /\ call.pc = "removing" /\ call.image = calls[c].image
                             /\ calls[c].pc = "searching"
    BY <1>4, SearchTyped
  <2>2. Holds(call) = Holds(calls[c])
    BY <2>1 DEF Holds
  <2> QED
    BY <1>3, <1>4, <2>1, <2>2, StockHas DEF SearchStale
<1>5. ASSUME NEW c \in Calls, RemoveStale(c) PROVE \A image \in Stock' : image \in Stock \/ IsHistory(image)
  <2>1. PICK old \in calls[c].todo, call \in Call :
          /\ calls[c].pc = "removing" /\ call.pc = "removing" /\ call.image = calls[c].image
          /\ remove(old) /\ Continue(c, call)
    BY <1>5, RemoveTyped
  <2>2. Holds(call) = Holds(calls[c])
    BY <2>1 DEF Holds
  <2>3. \A n \in DOMAIN index' : \E i \in DOMAIN index : index'[n] = index[i]
    BY <2>1, Removed DEF Survivors
  <2>4. \A i \in DOMAIN index' : Unnumbered(index'[i]) \in Stock \cup {}
    BY <2>3, StockHas
  <2> QED
    BY <2>1, <2>2, <2>4, StockHas, ContinueStock
<1>6. ASSUME NEW c \in Calls, IndexImage(c) PROVE \A image \in Stock' : image \in Stock \/ IsHistory(image)
  <2>1. PICK call \in Call :
          /\ calls[c].pc \in {"indexing", "removing"} /\ calls[c].image \in Image
          /\ indexRecord(calls[c].image) /\ call = [pc |-> "recording", src |-> calls[c].src] /\ Continue(c, call)
    BY <1>6, IndexTyped
  <2> DEFINE image == calls[c].image
  <2>2. image \in Stock /\ image \in Image
    BY <1>6, <2>1, IndexTyped, StockHas DEF Holds
  <2>3. PICK id \in Nat : index' = Append(index, Record(id, image))
    BY <2>1, <2>2, Indexed
  <2>4. \A i \in DOMAIN index' : Unnumbered(index'[i]) \in Stock \cup {}
    BY <2>2, <2>3, Appended, RecordIs, StockHas
  <2>5. Holds(call) = {}
    BY <2>1 DEF Holds
  <2> QED
    BY <2>1, <2>4, <2>5, ContinueStock
<1>7. ASSUME NEW c \in Calls, RecordEvent(c) \/ ReturnBundle(c)
      PROVE  \A image \in Stock' : image \in Stock \/ IsHistory(image)
  BY <1>3, <1>7, IdleIsCall, IdleHolds DEF RecordEvent, ReturnBundle
<1>8. ASSUME NEW c \in Calls, ListArtifacts(c) PROVE \A image \in Stock' : image \in Stock \/ IsHistory(image)
  <2>1. PICK call \in Call :
          /\ calls[c].pc = "listing" /\ calls[c] \in Rebuilder
          /\ call.pc \in {"reading", "replacing"} /\ Continue(c, call)
          /\ call.staged = calls[c].staged \o ArtifactImages(ingested, calls[c].by)
    BY <1>8, ListArtifactsTyped
  <2> DEFINE s == calls[c].staged
             t == ArtifactImages(ingested, calls[c].by)
  <2>2. s \in Seq(Image) /\ t \in Seq(Image) /\ \A i \in DOMAIN t : t[i].src \in Artifacts
    BY <2>1, RebuilderFields, ListedArtifacts DEF Typed
  <2>3. Range(s) \subseteq Stock
    BY <2>1, StockHas DEF Holds
  <2>4. ASSUME NEW x \in Seq(Image), NEW y \in Seq(Image)
        PROVE  \A i \in DOMAIN (x \o y) : (\E j \in DOMAIN x : (x \o y)[i] = x[j]) \/ (\E j \in DOMAIN y : (x \o y)[i] = y[j])
    <3>1. TAKE i \in DOMAIN (x \o y)
    <3>2. CASE i <= Len(x)
      BY <3>2
    <3>3. CASE i > Len(x)
      <4>1. i - Len(x) \in DOMAIN y /\ (x \o y)[i] = y[i - Len(x)]
        BY <3>3
      <4> QED
        BY <4>1
    <3> QED
      BY <3>2, <3>3
  <2> HIDE DEF s, t
  <2>5. \A i \in DOMAIN (s \o t) : (\E j \in DOMAIN s : (s \o t)[i] = s[j]) \/ (\E j \in DOMAIN t : (s \o t)[i] = t[j])
    BY <2>2, <2>4
  <2>6. Holds(call) = Range(s \o t)
    BY <2>1 DEF Holds, s, t
  <2>7. \A image \in Holds(call) : image \in Stock \/ IsHistory(image)
    BY <2>2, <2>3, <2>5, <2>6, ArtifactIsHistory DEF Range
  <2> QED
    BY <1>3, <1>8, <2>1, <2>7 DEF ListArtifacts
<1>9. ASSUME NEW c \in Calls, ReadContents(c) PROVE \A image \in Stock' : image \in Stock \/ IsHistory(image)
  <2>1. PICK call \in Call :
          /\ calls[c].pc = "reading" /\ calls[c] \in Rebuilder /\ call.pc = "replacing"
          /\ call.staged = Pick(calls[c].staged, Readable(calls[c].staged)) /\ Continue(c, call)
    BY <1>9, ReadTyped
  <2>2. calls[c].staged \in Seq(Image) /\ Readable(calls[c].staged) \in SUBSET DOMAIN calls[c].staged
    BY <2>1, RebuilderFields DEF Readable
  <2>3. \A n \in DOMAIN call.staged : \E i \in DOMAIN calls[c].staged : call.staged[n] = calls[c].staged[i]
    BY <2>1, <2>2, PickPlaces
  <2>4. Holds(call) \subseteq Holds(calls[c])
    BY <2>1, <2>3 DEF Holds, Range
  <2> QED
    BY <1>3, <1>9, <2>1, <2>4, StockHas DEF ReadContents
<1>10. ASSUME NEW c \in Calls, SwapIndex(c) PROVE \A image \in Stock' : image \in Stock \/ IsHistory(image)
  <2>1. /\ calls[c].pc = "replacing" /\ calls[c].staged \in Seq(Image)
        /\ replaceAll(calls[c].staged) /\ Continue(c, Idle)
    BY <1>10, SwapTyped
  <2>2. \A i \in DOMAIN calls[c].staged : calls[c].staged[i] \in Stock
    BY <2>1, StockHas DEF Holds, Range
  <2>3. \A i \in DOMAIN index' : Unnumbered(index'[i]) \in Stock \cup {}
    BY <2>1, <2>2, Replaced
  <2> QED
    BY <2>1, <2>3, IdleIsCall, IdleHolds, ContinueStock
<1>11. ASSUME NEW c \in Calls, Plan(c) \/ Resolve(c) \/ ListEvents(c) \/ FinishBundle(c)
       PROVE  \A image \in Stock' : image \in Stock \/ IsHistory(image)
  <2>1. PICK call \in Call : Continue(c, call) /\ call \in Planner
    BY <1>11, PlanTyped, ResolveTyped, EventsTyped, FinishTyped
  <2>2. Holds(call) = {}
    BY <2>1 DEF Holds, Planner
  <2>3. index' = index
    BY <1>11 DEF Plan, Resolve, ListEvents, FinishBundle
  <2> QED
    BY <1>3, <2>1, <2>2, <2>3
<1>12. CASE UNCHANGED vars
  <2>1. Stock' = Stock
    BY <1>12 DEF Stock, vars
  <2> QED
    BY <1>12, <2>1, KeptAgain DEF vars, owners
<1>13. CASE Restart
  <2>1. Stock' \subseteq Stock
    <3>1. \A c \in Calls : Holds(calls'[c]) \subseteq Stock
      BY <1>13, RestartTyped, IdleHolds
    <3>2. index' = index
      BY <1>13 DEF Restart
    <3> QED
      BY <3>1, <3>2, StockHas, StockFrom
  <2>2. HistoryGrows
    BY <1>13 DEF Restart, HistoryGrows, Typed
  <2>3. \A image \in Stock' : IsHistory(image)'
    BY <2>1, <2>2, StaysHistory DEF HistoryKept
  <2> QED
    BY <1>13, <2>3 DEF Restart, HistoryKept
<1>14. ASSUME NEW c \in Calls, Write(c) \/ Rebuild(c) \/ Retrieve(c) PROVE HistoryKept'
  <2>1. CASE CreateEntity(c) \/ UpdateEntity(c)
    BY <2>1, CreateHistory, UpdateHistory
  <2>2. CASE ~CreateEntity(c) /\ ~UpdateEntity(c)
    <3>1. UNCHANGED <<canonical, canonFile, born, history, lost>>
      BY <1>14, <2>2 DEF Write, Rebuild, Retrieve, IngestArtifact, SearchStale, RemoveStale, IndexImage, RecordEvent,
        ListEntities, ListArtifacts, ReadContents, SwapIndex, Plan, Resolve, ListEvents, FinishBundle, ReturnBundle,
        owners
    <3>2. \A image \in Stock' : image \in Stock \/ IsHistory(image)
      BY <1>1, <1>2, <1>4, <1>5, <1>6, <1>7, <1>8, <1>9, <1>10, <1>11, <1>14, <2>2 DEF Write, Rebuild, Retrieve
    <3> QED
      BY <3>1, <3>2, KeptAgain
  <2> QED
    BY <2>1, <2>2
<1>15. ASSUME NEW a \in Artifacts, DamageBlob(a) PROVE HistoryKept'
  <2>1. Stock' = Stock
    BY <1>15 DEF Stock, DamageBlob
  <2> QED
    BY <1>15, <2>1, KeptAgain DEF DamageBlob
<1> QED
  BY <1>12, <1>13, <1>14, <1>15 DEF Next

LEMMA HistoryInit == Init => HistoryKept
<1> SUFFICES ASSUME Init PROVE HistoryKept
  OBVIOUS
<1>1. Stock = {}
  BY IdleHolds DEF Init, Stock, Range
<1>2. \A e \in Entities : Range(canonical[e]) = {} /\ Range(canonFile[e]) = {} /\ history[e] = {}
  BY DEF Init, Range
<1> QED
  BY <1>1, <1>2 DEF HistoryKept

(* In every interleaving of writers, rebuilds and restarts a record is an   *)
(* image of a version that its source really had.                          *)
THEOREM RecordsAreHistoryAlways == Spec => []RecordsAreHistory
<1>1. Init => Typed /\ HistoryKept
  BY TypedInit, HistoryInit
<1>2. Typed /\ HistoryKept /\ [Next]_vars => (Typed /\ HistoryKept)'
  BY TypedStep, HistoryStep
<1>3. Typed /\ HistoryKept => RecordsAreHistory
  <2> SUFFICES ASSUME Typed, HistoryKept, NEW i \in DOMAIN index, index[i].src \in Entities
               PROVE  /\ index[i].text = TextOf[index[i].meta] /\ index[i].meta \in history[index[i].src]
                      /\ index[i].src \notin lost => index[i].meta \in Range(canonical[index[i].src])
    BY DEF RecordsAreHistory, Range
  <2>1. index[i] \in Stored
    BY DEF Typed
  <2>2. IsHistory(Unnumbered(index[i]))
    BY StockHas DEF HistoryKept
  <2> QED
    BY <2>1, <2>2, UnnumberedIs DEF IsHistory
<1> QED
  BY <1>1, <1>2, <1>3, PTL DEF Spec

-----------------------------------------------------------------------------
(* Bundles are current: only a restart takes a version back, and it ends    *)
(* every retrieval.                                                        *)
StoresGrow ==
  /\ \A s \in Sources : VersionOf(s)' >= VersionOf(s)
  /\ lost \subseteq lost' /\ cut \subseteq cut'

VersionsNumbered == \A s \in Sources : VersionOf(s) \in Nat
LEMMA VersionsAreNumbers == Typed => VersionsNumbered
  BY VersionIsNumber DEF VersionsNumbered

LEMMA CurrentStays ==
  ASSUME Typed, Typed', StoresGrow, NEW call \in Call, Current(call)
  PROVE  Current(call)'
<1>1. SUFFICES ASSUME call.pc \in {"resolving", "tracing", "bundle"}
      PROVE  /\ \A s \in Sources : s \in lost' \/ VersionOf(s)' >= call.began[s]
             /\ call.pc = "tracing" =>
                  /\ NotOlder(call, call.got[1])'
                  /\ call.got[1].version <= VersionOf(call.got[1].src)'
             /\ \A o \in call.resolved : NotOlder(call, o)' /\ Accounted(o)'
  BY DEF Current
<1>2. call \in Planner /\ Sound(call)
  BY <1>1, Forms
<1>3. call.began \in [Sources -> Nat] /\ call.got \in Seq(Got)
  BY <1>2, PlannerFields
<1>4. ASSUME NEW s \in Sources, NEW n \in Nat, s \in lost \/ VersionOf(s) >= n
      PROVE  s \in lost' \/ VersionOf(s)' >= n
  <2>1. VersionOf(s) \in Nat
    BY VersionIsNumber
  <2>2. (VersionOf(s) \in Nat)'
    <3>1. VersionsNumbered'
      BY VersionsAreNumbers, PTL
    <3> QED
      BY <3>1 DEF VersionsNumbered
  <2>3. VersionOf(s)' >= VersionOf(s) /\ lost \subseteq lost'
    BY DEF StoresGrow
  <2> HIDE DEF VersionOf
  <2> QED
    BY <1>4, <2>1, <2>2, <2>3
<1>5. \A s \in Sources : s \in lost' \/ VersionOf(s)' >= call.began[s]
  BY <1>1, <1>3, <1>4 DEF Current
<1>6. ASSUME NEW o, NotOlder(call, o) PROVE NotOlder(call, o)'
  BY <1>6 DEF NotOlder, StoresGrow
<1>7. ASSUME NEW o, Accounted(o) PROVE Accounted(o)'
  BY <1>7 DEF Accounted, StoresGrow
<1>8. ASSUME call.pc = "tracing" PROVE call.got[1].version <= VersionOf(call.got[1].src)'
  <2>1. call.got[1] \in Got
    BY <1>2, <1>3, <1>8 DEF Sound
  <2>2. call.got[1].src \in Sources /\ call.got[1].version \in Nat
    BY <2>1 DEF Got
  <2>3. PICK s \in Sources, n \in Nat : s = call.got[1].src /\ n = call.got[1].version
    BY <2>2
  <2>4. n <= VersionOf(s)
    BY <1>8, <2>3 DEF Current
  <2>5. VersionOf(s) \in Nat /\ VersionOf(s)' >= VersionOf(s)
    BY VersionIsNumber DEF StoresGrow
  <2>6. (VersionOf(s) \in Nat)'
    <3>1. VersionsNumbered'
      BY VersionsAreNumbers, PTL
    <3> QED
      BY <3>1 DEF VersionsNumbered
  <2>7. n <= VersionOf(s)'
    BY <2>4, <2>5, <2>6
  <2> QED
    BY <2>3, <2>7
<1> QED
  BY <1>1, <1>5, <1>6, <1>7, <1>8 DEF Current

LEMMA CurrentKept ==
  ASSUME NEW old \in Call, NEW new, Kept(old, new), Current(old)
  PROVE  Current(new)
<1>1. CASE old.pc \in {"resolving", "tracing", "bundle"}
  <2>1. /\ new.got = old.got /\ new.resolved = old.resolved /\ new.began = old.began
        /\ new.pc = old.pc
    BY <1>1 DEF Kept
  <2>2. \A o : NotOlder(new, o) <=> NotOlder(old, o)
    BY <2>1 DEF NotOlder
  <2> QED
    BY <1>1, <2>1, <2>2 DEF Current
<1>2. CASE old.pc \notin {"resolving", "tracing", "bundle"}
  BY <1>2 DEF Kept, Current
<1> QED
  BY <1>1, <1>2

LEMMA EnterCurrent ==
  ASSUME Typed, Typed', PlansAreCurrent, StoresGrow, NEW c \in Calls, NEW call \in Call, Enter(c, call),
         call.pc \notin {"resolving", "tracing", "bundle"}
  PROVE  PlansAreCurrent'
<1>1. calls' \in [Calls -> Call] /\ calls'[c] = call /\ \A d \in Calls : d # c => Kept(calls[d], calls'[d])
  BY EnterCalls
<1>2. ASSUME NEW d \in Calls PROVE Current(calls'[d])
  <2>1. CASE d = c
    BY <1>1, <2>1 DEF Current
  <2>2. CASE d # c
    BY <1>1, <2>2, CallIs, CurrentKept DEF PlansAreCurrent
  <2> QED
    BY <2>1, <2>2
<1>3. ASSUME NEW d \in Calls, NEW new, new = calls'[d] PROVE Current(new)'
  <2>1. new \in Call /\ Current(new)
    BY <1>1, <1>2, <1>3
  <2> QED
    BY <2>1, CurrentStays
<1> QED
  BY <1>3 DEF PlansAreCurrent, Current, NotOlder, Accounted

LEMMA ContinueCurrent ==
  ASSUME Typed, Typed', PlansAreCurrent, StoresGrow, NEW c \in Calls, NEW call \in Call, Continue(c, call),
         Current(call)
  PROVE  PlansAreCurrent'
<1>1. calls' \in [Calls -> Call] /\ calls'[c] = call /\ \A d \in Calls : d # c => calls'[d] = calls[d]
  BY TypedContinue
<1>2. ASSUME NEW d \in Calls PROVE Current(calls'[d])
  BY <1>1 DEF PlansAreCurrent
<1>3. ASSUME NEW d \in Calls, NEW new, new = calls'[d] PROVE Current(new)'
  <2>1. new \in Call /\ Current(new)
    BY <1>1, <1>2, <1>3
  <2> QED
    BY <2>1, CurrentStays
<1> QED
  BY <1>3 DEF PlansAreCurrent, Current, NotOlder, Accounted

(* What each step does to the owner stores.                                 *)
LEMMA SameStoresGrow ==
  ASSUME Typed, UNCHANGED owners
  PROVE  StoresGrow
<1>1. UNCHANGED <<canonical, ingested, lost, cut>>
  BY DEF owners
<1>2. ASSUME NEW s \in Sources PROVE VersionOf(s)' >= VersionOf(s)
  <2>1. VersionOf(s)' = VersionOf(s)
    BY <1>1 DEF VersionOf
  <2>2. VersionOf(s) \in Nat
    BY VersionIsNumber
  <2> QED
    BY <2>1, <2>2
<1> QED
  BY <1>1, <1>2 DEF StoresGrow

LEMMA UnbornIsEmpty ==
  ASSUME Typed, HistoryKept, NEW e \in Entities, e > born
  PROVE  canonical[e] = <<>>
<1>1. Range(canonical[e]) = {} /\ canonical[e] \in Seq(Values)
  BY DEF HistoryKept, Typed
<1>2. \A q \in Seq(Values) : q # <<>> => 1 \in DOMAIN q
  OBVIOUS
<1> QED
  BY <1>1, <1>2 DEF Range

(* The versions after a write of an entity.                                *)
LEMMA WrittenVersions ==
  ASSUME Typed, NEW e \in Entities, NEW vs \in Seq(Values), StoreVersions(e, vs), ingested' = ingested
  PROVE  /\ VersionOf(e)' = Len(vs) /\ VersionOf(e) = Len(canonical[e])
         /\ \A s \in Sources : s # e => VersionOf(s)' = VersionOf(s)
<1>1. canonical'[e] = vs /\ \A f \in Entities : f # e => canonical'[f] = canonical[f]
  BY DEF StoreVersions, Typed
<1> QED
  BY <1>1 DEF VersionOf

(* Which entity a create or an update writes, and with how many versions.   *)
LEMMA CreateWrites ==
  ASSUME Typed, HistoryKept, NEW c \in Calls, CreateEntity(c)
  PROVE  \E e \in Entities, call \in Call :
           /\ Enter(c, call) /\ VersionOf(e)' = VersionOf(e) + 1
           /\ \A s \in Sources : s # e => VersionOf(s)' = VersionOf(s)
           /\ \A f \in Entities : f # e => canonical'[f] = canonical[f]
           /\ \/ Persists /\ call.pc = "indexing" /\ call.src = e /\ cut' = cut
              \/ PersistThrows /\ call = Idle /\ cut' = cut \cup {e}
<1>1. PICK v \in Values, call \in Call :
        /\ born + 1 \in Entities /\ StoreVersions(born + 1, <<v>>) /\ Enter(c, call)
        /\ \/ Persists /\ call = [pc |-> "indexing", src |-> born + 1, image |-> EntityImage(born + 1, v)]
           \/ PersistThrows /\ call = Idle
  BY CreateTyped
<1>2. PICK e \in Entities : e = born + 1
  BY <1>1
<1>3. canonical[e] = <<>>
  BY <1>2, UnbornIsEmpty DEF Typed
<1>4. <<v>> \in Seq(Values) /\ Len(<<v>>) = 1 /\ Len(<<>>) = 0
  OBVIOUS
<1>5. StoreVersions(e, <<v>>) /\ ingested' = ingested
  BY <1>1, <1>2 DEF CreateEntity
<1>6. VersionOf(e)' = VersionOf(e) + 1 /\ \A s \in Sources : s # e => VersionOf(s)' = VersionOf(s)
  <2>1. VersionOf(e)' = Len(<<v>>) /\ VersionOf(e) = Len(canonical[e])
    BY <1>4, <1>5, WrittenVersions
  <2>2. VersionOf(e)' = 1 /\ VersionOf(e) = 0
    BY <1>3, <1>4, <2>1
  <2>3. \A s \in Sources : s # e => VersionOf(s)' = VersionOf(s)
    BY <1>4, <1>5, WrittenVersions
  <2> QED
    BY <2>2, <2>3
<1>7. \A f \in Entities : f # e => canonical'[f] = canonical[f]
  BY <1>5 DEF StoreVersions, Typed
<1>8. cut' = cut \/ cut' = cut \cup {e}
  BY <1>2 DEF CreateEntity
<1>9. /\ calls'[c] = call
      /\ \/ Persists /\ cut' = cut /\ calls'[c].pc = "indexing"
         \/ PersistThrows /\ cut' = cut \cup {e} /\ calls'[c] = Idle
  <2>1. calls'[c] = call
    BY <1>1, EnterCalls
  <2>2. \/ /\ Persists /\ cut' = cut
           /\ \E v2 \in Values : StartWriter(c, e, [pc |-> "indexing", src |-> e, image |-> EntityImage(e, v2)])
        \/ PersistThrows /\ cut' = cut \cup {e} /\ Enter(c, Idle)
    BY <1>2 DEF CreateEntity
  <2>3. CASE PersistThrows /\ cut' = cut \cup {e} /\ Enter(c, Idle)
    BY <2>1, <2>3, IdleIsCall, EnterCalls
  <2>4. ASSUME NEW v2 \in Values, Persists, cut' = cut,
               StartWriter(c, e, [pc |-> "indexing", src |-> e, image |-> EntityImage(e, v2)])
        PROVE  calls'[c].pc = "indexing"
    BY <2>4 DEF StartWriter, Enter
  <2> QED
    BY <2>1, <2>2, <2>3, <2>4
<1>10. Idle.pc = "idle"
  BY IdleIsCall
<1>11. \/ Persists /\ call.pc = "indexing" /\ call.src = e /\ cut' = cut
       \/ PersistThrows /\ call = Idle /\ cut' = cut \cup {e}
  BY <1>1, <1>2, <1>9, <1>10
<1> QED
  BY <1>1, <1>6, <1>7, <1>11

LEMMA UpdateWrites ==
  ASSUME Typed, NEW c \in Calls, UpdateEntity(c)
  PROVE  \E e \in Entities, call \in Call :
           /\ Enter(c, call) /\ VersionOf(e)' = VersionOf(e) + 1
           /\ \A s \in Sources : s # e => VersionOf(s)' = VersionOf(s)
           /\ \A f \in Entities : f # e => canonical'[f] = canonical[f]
           /\ \/ Persists /\ call.pc = "searching" /\ call.src = e /\ cut' = cut
              \/ PersistThrows /\ call = Idle /\ cut' = cut \cup {e}
<1>1. PICK e \in Live, v \in Values :
        /\ StoreVersions(e, Append(canonical[e], v))
        /\ \/ /\ Persists /\ cut' = cut
              /\ StartWriter(c, e, [pc |-> "searching", src |-> e, image |-> EntityImage(e, v)])
           \/ PersistThrows /\ cut' = cut \cup {e} /\ Enter(c, Idle)
  BY DEF UpdateEntity
<1>2. e \in Entities /\ canonical[e] \in Seq(Values)
  BY DEF Live, Typed
<1>3. \A q \in Seq(Values) : Append(q, v) \in Seq(Values) /\ Len(Append(q, v)) = Len(q) + 1
  OBVIOUS
<1>4. ingested' = ingested
  BY DEF UpdateEntity
<1>5. VersionOf(e)' = VersionOf(e) + 1 /\ \A s \in Sources : s # e => VersionOf(s)' = VersionOf(s)
  BY <1>1, <1>2, <1>3, <1>4, WrittenVersions
<1>6. \A f \in Entities : f # e => canonical'[f] = canonical[f]
  BY <1>1, <1>2 DEF StoreVersions, Typed
<1>7. EntityImage(e, v) \in Image /\ EntityImage(e, v).src = e
  BY <1>2, ImagesAre
<1>8. [pc |-> "searching", src |-> e, image |-> EntityImage(e, v)] \in Call
  BY <1>7, StaleIsCall
<1>9. CASE /\ Persists /\ cut' = cut
           /\ StartWriter(c, e, [pc |-> "searching", src |-> e, image |-> EntityImage(e, v)])
  BY <1>2, <1>5, <1>6, <1>8, <1>9 DEF StartWriter
<1>10. CASE PersistThrows /\ cut' = cut \cup {e} /\ Enter(c, Idle)
  BY <1>2, <1>5, <1>6, <1>10, IdleIsCall
<1> QED
  BY <1>1, <1>9, <1>10

LEMMA IngestWrites ==
  ASSUME Typed, NEW c \in Calls, IngestArtifact(c)
  PROVE  \E a \in Artifacts, call \in Call :
           /\ Enter(c, call) /\ VersionOf(a)' = VersionOf(a) + 1
           /\ \A s \in Sources : s # a => VersionOf(s)' = VersionOf(s)
           /\ call.pc = "indexing" /\ call.src = a
<1>1. PICK a \in Artifacts \ ingested, call \in Call :
        /\ ingested' = ingested \cup {a} /\ Enter(c, call)
        /\ call = [pc |-> "indexing", src |-> a, image |-> ArtifactImage(a, "filename")]
  BY IngestTyped
<1>2. canonical' = canonical
  BY DEF IngestArtifact
<1>3. a \notin Entities
  BY Sizes
<1>4. VersionOf(a)' = 1 /\ VersionOf(a) = 0
  BY <1>1, <1>3 DEF VersionOf
<1>5. \A s \in Sources : s # a => VersionOf(s)' = VersionOf(s)
  BY <1>1, <1>2 DEF VersionOf
<1> QED
  BY <1>1, <1>4, <1>5

LEMMA WriteGrows ==
  ASSUME Typed, NEW src \in Sources, VersionOf(src)' = VersionOf(src) + 1,
         \A s \in Sources : s # src => VersionOf(s)' = VersionOf(s), lost' = lost, cut \subseteq cut'
  PROVE  StoresGrow
<1>1. \A s \in Sources : VersionOf(s) \in Nat
  BY VersionIsNumber
<1>2. \A s \in Sources : VersionOf(s)' >= VersionOf(s)
  <2> HIDE DEF VersionOf
  <2> QED
    BY <1>1
<1> QED
  BY <1>2 DEF StoresGrow

-----------------------------------------------------------------------------
(* The writers of a source, counted.                                       *)
AtWriting == {"searching", "removing", "indexing", "recording"}

LEMMA WritersAfter ==
  ASSUME Typed, NEW c \in Calls, NEW call \in Call, Enter(c, call) \/ Continue(c, call), NEW s
  PROVE  /\ WritersOf(s)' \ {c} = WritersOf(s) \ {c}
         /\ c \in WritersOf(s)' <=> (call.pc \in AtWriting /\ call.src = s)
         /\ c \in WritersOf(s) <=> (calls[c].pc \in AtWriting /\ calls[c].src = s)
<1>1. calls'[c] = call /\ \A d \in Calls : d # c => Kept(calls[d], calls'[d]) \/ calls'[d] = calls[d]
  BY EnterCalls, TypedContinue
<1>2. \A d \in Calls : d \in WritersOf(s) <=> (calls[d].pc \in AtWriting /\ calls[d].src = s)
  BY DEF WritersOf, Writing, AtWriting
<1>3. \A d \in Calls : d \in WritersOf(s)' <=> (calls'[d].pc \in AtWriting /\ calls'[d].src = s)
  BY DEF WritersOf, Writing, AtWriting
<1>4. ASSUME NEW d \in Calls, d # c PROVE d \in WritersOf(s)' <=> d \in WritersOf(s)
  <2>1. CASE calls'[d] = calls[d]
    BY <1>2, <1>3, <2>1
  <2>2. CASE Kept(calls[d], calls'[d])
    <3>1. calls'[d].pc = calls[d].pc
      BY <2>2 DEF Kept
    <3>2. calls[d].pc \in AtWriting => calls'[d] = calls[d]
      BY <2>2 DEF Kept, AtWriting
    <3> QED
      BY <1>2, <1>3, <3>1, <3>2
  <2> QED
    BY <1>1, <1>4, <2>1, <2>2
<1>5. WritersOf(s) \subseteq Calls /\ WritersOf(s)' \subseteq Calls
  BY DEF WritersOf
<1> QED
  BY <1>1, <1>2, <1>3, <1>4, <1>5

(* How many more writers a source has after a step of c.                    *)
LEMMA WritersChange ==
  ASSUME NEW old, NEW new, NEW c, IsFiniteSet(old), new \ {c} = old \ {c}
  PROVE  /\ (c \in new <=> c \in old) => Cardinality(new) = Cardinality(old)
         /\ (c \in new /\ c \notin old) => Cardinality(new) = Cardinality(old) + 1
         /\ (c \notin new /\ c \in old) => Cardinality(new) = Cardinality(old) - 1
<1>1. CASE c \in new <=> c \in old
  <2>1. new = old
    BY <1>1
  <2> QED
    BY <1>1, <2>1
<1>2. CASE c \in new /\ c \notin old
  <2>1. new = old \cup {c}
    BY <1>2
  <2> QED
    BY <1>2, <2>1, FS_AddElement
<1>3. CASE c \notin new /\ c \in old
  <2>1. new = old \ {c}
    BY <1>3
  <2> QED
    BY <1>3, <2>1, FS_RemoveElement
<1> QED
  BY <1>1, <1>2, <1>3

WritersNumbered == \A s \in Sources : Cardinality(WritersOf(s)) \in Nat
LEMMA WritersAreNumbers == WritersNumbered
  BY WritersCounted DEF WritersNumbered

(* The count holds again when what is written is matched by writers and     *)
(* events.                                                                 *)
LEMMA VersionsAgain ==
  ASSUME Typed, Typed', Versions, cut \subseteq cut',
         \A s \in Sources \ cut' :
            VersionOf(s)' + events[s] + Cardinality(WritersOf(s))
               <= VersionOf(s) + events'[s] + Cardinality(WritersOf(s)')
  PROVE  Versions'
<1>1. SUFFICES ASSUME NEW s \in Sources, s \notin cut'
               PROVE  VersionOf(s)' <= events'[s] + Cardinality(WritersOf(s)')
  BY DEF Versions
<1>2. VersionOf(s) \in Nat /\ events[s] \in Nat /\ events'[s] \in Nat /\ Cardinality(WritersOf(s)) \in Nat
  BY VersionIsNumber, WritersCounted DEF Typed
<1>3. VersionOf(s)' \in Nat
  <2>1. VersionsNumbered'
    BY VersionsAreNumbers, PTL
  <2> QED
    BY <2>1 DEF VersionsNumbered
<1>4. Cardinality(WritersOf(s)') \in Nat
  <2>1. WritersNumbered'
    BY WritersAreNumbers, PTL
  <2> QED
    BY <2>1 DEF WritersNumbered
<1>5. VersionOf(s) <= events[s] + Cardinality(WritersOf(s))
  BY <1>1 DEF Versions
<1>6. VersionOf(s)' + events[s] + Cardinality(WritersOf(s))
        <= VersionOf(s) + events'[s] + Cardinality(WritersOf(s)')
  BY <1>1
<1> HIDE DEF VersionOf, WritersOf
<1> QED
  BY <1>2, <1>3, <1>4, <1>5, <1>6

(* A step that starts the writer of what it has written, or has marked it.  *)
LEMMA StartVersions ==
  ASSUME Typed, Typed', Versions, NEW c \in Calls, calls[c] = Idle, NEW call \in Call, Enter(c, call),
         NEW src \in Sources, VersionOf(src)' = VersionOf(src) + 1,
         \A s \in Sources : s # src => VersionOf(s)' = VersionOf(s),
         events' = events, cut \subseteq cut',
         \/ call.pc \in AtWriting /\ call.src = src
         \/ call = Idle /\ src \in cut'
  PROVE  Versions'
<1>1. SUFFICES ASSUME NEW s \in Sources \ cut'
               PROVE  VersionOf(s)' + events[s] + Cardinality(WritersOf(s))
                        <= VersionOf(s) + events'[s] + Cardinality(WritersOf(s)')
  BY VersionsAgain
<1>2. /\ WritersOf(s)' \ {c} = WritersOf(s) \ {c}
      /\ c \in WritersOf(s)' <=> (call.pc \in AtWriting /\ call.src = s)
      /\ c \notin WritersOf(s)
  <2>1. calls[c].pc \notin AtWriting
    BY IdleIsCall DEF AtWriting
  <2> QED
    BY <2>1, WritersAfter
<1>3. IsFiniteSet(WritersOf(s)) /\ Cardinality(WritersOf(s)) \in Nat /\ VersionOf(s) \in Nat /\ events[s] \in Nat
  BY WritersCounted, VersionIsNumber DEF Typed
<1>4. CASE s = src
  <2>1. call.pc \in AtWriting /\ call.src = s
    BY <1>1, <1>4
  <2>2. Cardinality(WritersOf(s)') = Cardinality(WritersOf(s)) + 1
    BY <1>2, <1>3, <2>1, WritersChange
  <2>3. VersionOf(s)' = VersionOf(s) + 1
    BY <1>4
  <2> HIDE DEF VersionOf, WritersOf
  <2> QED
    BY <1>3, <2>2, <2>3
<1>5. CASE s # src
  <2>1. ~(call.pc \in AtWriting /\ call.src = s)
    BY <1>5, IdleIsCall DEF AtWriting
  <2>2. Cardinality(WritersOf(s)') = Cardinality(WritersOf(s))
    BY <1>2, <1>3, <2>1, WritersChange
  <2>3. VersionOf(s)' = VersionOf(s)
    BY <1>5
  <2> HIDE DEF VersionOf, WritersOf
  <2> QED
    BY <1>3, <2>2, <2>3
<1> QED
  BY <1>4, <1>5

(* A step that leaves its call, writing or not, as it was.                  *)
LEMMA QuietVersions ==
  ASSUME Typed, Typed', Versions, NEW c \in Calls, NEW call \in Call, Enter(c, call) \/ Continue(c, call),
         UNCHANGED owners, events' = events,
         call.pc \in AtWriting <=> calls[c].pc \in AtWriting,
         call.pc \in AtWriting => call.src = calls[c].src
  PROVE  Versions'
<1>1. \A s : Cardinality(WritersOf(s)') = Cardinality(WritersOf(s))
  BY WritersAfter, WritersCounted, WritersChange
<1>2. \A s \in Sources : VersionOf(s)' = VersionOf(s)
  BY DEF owners, VersionOf
<1>3. \A s \in Sources : VersionOf(s) \in Nat /\ events[s] \in Nat /\ Cardinality(WritersOf(s)) \in Nat
  BY WritersCounted, VersionIsNumber DEF Typed
<1>4. cut' = cut
  BY DEF owners
<1>5. ASSUME NEW s \in Sources \ cut'
      PROVE  VersionOf(s)' + events[s] + Cardinality(WritersOf(s))
               <= VersionOf(s) + events'[s] + Cardinality(WritersOf(s)')
  <2> HIDE DEF VersionOf, WritersOf
  <2> QED
    BY <1>1, <1>2, <1>3
<1> QED
  BY <1>4, <1>5, VersionsAgain

LEMMA RecordVersions ==
  ASSUME Typed, Typed', Versions, NEW c \in Calls, RecordEvent(c)
  PROVE  Versions'
<1>1. calls[c].pc = "recording" /\ calls[c].src \in Sources /\ Continue(c, Idle)
  BY RecordTyped
<1>2. PICK src \in Sources : src = calls[c].src
  BY <1>1
<1>3. events'[src] = events[src] + 1 /\ \A s \in Sources : s # src => events'[s] = events[s]
  BY <1>2 DEF RecordEvent, Typed
<1>4. UNCHANGED owners
  BY DEF RecordEvent
<1>5. \A s \in Sources : VersionOf(s)' = VersionOf(s)
  BY <1>4 DEF owners, VersionOf
<1>6. cut' = cut
  BY <1>4 DEF owners
<1>7. SUFFICES ASSUME NEW s \in Sources \ cut'
               PROVE  VersionOf(s)' + events[s] + Cardinality(WritersOf(s))
                        <= VersionOf(s) + events'[s] + Cardinality(WritersOf(s)')
  BY <1>6, VersionsAgain
<1>8. /\ WritersOf(s)' \ {c} = WritersOf(s) \ {c} /\ c \notin WritersOf(s)'
      /\ c \in WritersOf(s) <=> s = src
  <2>1. Idle \in Call /\ Idle.pc \notin AtWriting /\ calls[c].pc \in AtWriting
    BY <1>1, IdleIsCall DEF AtWriting
  <2> QED
    BY <1>1, <1>2, <2>1, WritersAfter
<1>9. IsFiniteSet(WritersOf(s)) /\ Cardinality(WritersOf(s)) \in Nat /\ VersionOf(s) \in Nat /\ events[s] \in Nat
  BY WritersCounted, VersionIsNumber DEF Typed
<1>10. Cardinality(WritersOf(s)') = IF s = src THEN Cardinality(WritersOf(s)) - 1 ELSE Cardinality(WritersOf(s))
  BY <1>8, <1>9, WritersChange
<1> HIDE DEF VersionOf, WritersOf
<1> QED
  BY <1>3, <1>5, <1>9, <1>10

LEMMA RestartVersions ==
  ASSUME Typed, Typed', Versions, FileBehind, Restart
  PROVE  Versions'
<1>1. SUFFICES ASSUME NEW s \in Sources, s \notin cut'
               PROVE  VersionOf(s)' <= events'[s] + Cardinality(WritersOf(s)')
  BY DEF Versions
<1>2. s \notin cut /\ WritersOf(s) = {}
  BY <1>1 DEF Restart, WritersOf
<1>3. WritersOf(s)' = {}
  BY RestartTyped, IdleIsCall DEF WritersOf, Writing
<1>4. VersionOf(s) <= events[s]
  <2>1. Cardinality(WritersOf(s)) = 0
    BY <1>2, FS_EmptySet
  <2>2. VersionOf(s) \in Nat /\ events[s] \in Nat /\ VersionOf(s) <= events[s] + Cardinality(WritersOf(s))
    BY <1>2, VersionIsNumber DEF Versions, Typed
  <2> HIDE DEF VersionOf, WritersOf
  <2> QED
    BY <2>1, <2>2
<1>5. VersionOf(s)' <= VersionOf(s)
  <2>1. canonical' = canonFile /\ ingested' = ingested
    BY DEF Restart
  <2>2. CASE s \in Entities
    BY <2>1, <2>2 DEF VersionOf, FileBehind
  <2>3. CASE s \notin Entities
    <3>1. VersionOf(s)' = VersionOf(s) /\ VersionOf(s) \in Nat
      BY <2>1, <2>3, VersionIsNumber DEF VersionOf
    <3> QED
      BY <3>1
  <2> QED
    BY <2>2, <2>3
<1>6. events'[s] = events[s] /\ events[s] \in Nat /\ Cardinality(WritersOf(s)') = 0
  BY <1>3, FS_EmptySet DEF Restart, Typed
<1>7. VersionOf(s) \in Nat
  BY VersionIsNumber
<1>8. VersionOf(s)' \in Nat
  <2>1. VersionsNumbered'
    BY VersionsAreNumbers, PTL
  <2> QED
    BY <2>1 DEF VersionsNumbered
<1> HIDE DEF VersionOf, WritersOf
<1> QED
  BY <1>4, <1>5, <1>6, <1>7, <1>8

(* The map is ahead of the file, if they differ.                            *)
LEMMA WrittenBehind ==
  ASSUME Typed, Typed', FileBehind, NEW e \in Entities, VersionOf(e)' = VersionOf(e) + 1,
         \A f \in Entities : f # e => canonical'[f] = canonical[f],
         canonFile' = canonical' \/ canonFile' = canonFile
  PROVE  FileBehind'
<1>1. Len(canonical'[e]) = Len(canonical[e]) + 1
  BY DEF VersionOf
<1>2. \A f \in Entities : canonical[f] \in Seq(Values) /\ canonical'[f] \in Seq(Values) /\ canonFile[f] \in Seq(Values)
  BY DEF Typed
<1>3. \A f \in Entities : Len(canonical[f]) \in Nat /\ Len(canonical'[f]) \in Nat /\ Len(canonFile[f]) \in Nat
  BY <1>2
<1>4. ASSUME NEW f \in Entities PROVE Len(canonFile'[f]) <= Len(canonical'[f])
  <2>1. CASE canonFile' = canonical'
    BY <1>3, <2>1
  <2>2. CASE canonFile' = canonFile
    <3>1. Len(canonFile[f]) <= Len(canonical[f])
      BY DEF FileBehind
    <3>2. Len(canonical[f]) <= Len(canonical'[f])
      BY <1>1, <1>3
    <3> QED
      BY <1>3, <2>2, <3>1, <3>2
  <2> QED
    BY <2>1, <2>2
<1> QED
  BY <1>4 DEF FileBehind

LEMMA VersionsStep ==
  ASSUME Typed, Typed', HistoryKept, Versions, FileBehind, [Next]_vars
  PROVE  Versions' /\ FileBehind'
<1>1. ASSUME NEW c \in Calls, CreateEntity(c) \/ UpdateEntity(c) PROVE Versions' /\ FileBehind'
  <2>1. PICK e \in Entities, call \in Call :
          /\ Enter(c, call) /\ VersionOf(e)' = VersionOf(e) + 1
          /\ \A s \in Sources : s # e => VersionOf(s)' = VersionOf(s)
          /\ \A f \in Entities : f # e => canonical'[f] = canonical[f]
          /\ \/ Persists /\ call.pc \in AtWriting /\ call.src = e /\ cut' = cut
             \/ PersistThrows /\ call = Idle /\ cut' = cut \cup {e}
    BY <1>1, CreateWrites, UpdateWrites DEF AtWriting
  <2>2. calls[c] = Idle /\ events' = events
    BY <1>1 DEF CreateEntity, UpdateEntity
  <2>3. canonFile' = canonical' \/ canonFile' = canonFile
    BY <2>1 DEF Persists, PersistThrows
  <2>4. e \in Sources
    BY DEF Sources
  <2>5. cut \subseteq cut' /\ (call = Idle => e \in cut')
    BY <2>1, IdleIsCall DEF AtWriting
  <2>6. \/ call.pc \in AtWriting /\ call.src = e
        \/ call = Idle /\ e \in cut'
    BY <2>1, <2>5
  <2>7. Versions'
    BY <2>1, <2>2, <2>4, <2>5, <2>6, StartVersions
  <2> QED
    BY <2>1, <2>3, <2>7, WrittenBehind
<1>2. ASSUME NEW c \in Calls, IngestArtifact(c) PROVE Versions'
  <2>1. PICK a \in Artifacts, call \in Call :
          /\ Enter(c, call) /\ VersionOf(a)' = VersionOf(a) + 1
          /\ \A s \in Sources : s # a => VersionOf(s)' = VersionOf(s)
          /\ call.pc = "indexing" /\ call.src = a
    BY <1>2, IngestWrites
  <2>2. calls[c] = Idle /\ events' = events /\ cut' = cut
    BY <1>2 DEF IngestArtifact
  <2>3. a \in Sources /\ call.pc \in AtWriting
    BY <2>1 DEF Sources, AtWriting
  <2> QED
    BY <2>1, <2>2, <2>3, StartVersions
<1>3. ASSUME NEW c \in Calls, SearchStale(c) \/ RemoveStale(c) \/ IndexImage(c) PROVE Versions'
  <2>1. PICK call \in Call :
          /\ Continue(c, call) /\ call.pc \in {"removing", "recording"} /\ call.src = calls[c].src
          /\ calls[c].pc \in {"searching", "removing", "indexing"}
    BY <1>3, SearchTyped, RemoveTyped, IndexTyped
  <2>2. UNCHANGED owners /\ events' = events
    BY <1>3 DEF SearchStale, RemoveStale, IndexImage
  <2>3. call.pc \in AtWriting /\ calls[c].pc \in AtWriting
    BY <2>1 DEF AtWriting
  <2> QED
    BY <2>1, <2>2, <2>3, QuietVersions
<1>4. ASSUME NEW c \in Calls, Rebuild(c) \/ Retrieve(c) PROVE Versions'
  <2>1. PICK call \in Call :
          /\ Enter(c, call) \/ Continue(c, call)
          /\ call.pc \in {"idle", "listing", "reading", "replacing", "resolving", "tracing", "bundle"}
    <3>1. CASE ListEntities(c) \/ ListArtifacts(c)
      BY <3>1, ListTyped, ListArtifactsTyped
    <3>2. CASE ReadContents(c) \/ SwapIndex(c)
      BY <3>2, ReadTyped, SwapTyped, IdleIsCall
    <3>3. CASE Plan(c)
      BY <3>3, PlanTyped
    <3>4. CASE Resolve(c)
      BY <3>4, ResolveTyped
    <3>5. CASE ListEvents(c)
      BY <3>5, EventsTyped
    <3>6. CASE FinishBundle(c) \/ ReturnBundle(c)
      BY <3>6, FinishTyped, ReturnTyped, IdleIsCall
    <3> QED
      BY <1>4, <3>1, <3>2, <3>3, <3>4, <3>5, <3>6 DEF Rebuild, Retrieve
  <2>2. calls[c].pc \in {"idle", "listing", "reading", "replacing", "resolving", "tracing", "bundle"}
    BY <1>4, IdleIsCall DEF Rebuild, Retrieve, ListEntities, ListArtifacts, ReadContents, SwapIndex, Plan, Resolve,
       ListEvents, FinishBundle, ReturnBundle
  <2>3. UNCHANGED owners /\ events' = events
    BY <1>4 DEF Rebuild, Retrieve, ListEntities, ListArtifacts, ReadContents, SwapIndex, Plan, Resolve,
       ListEvents, FinishBundle, ReturnBundle
  <2>4. call.pc \notin AtWriting /\ calls[c].pc \notin AtWriting
    BY <2>1, <2>2 DEF AtWriting
  <2> QED
    BY <2>1, <2>3, <2>4, QuietVersions
<1>5. ASSUME NEW a \in Artifacts, DamageBlob(a) PROVE Versions' /\ FileBehind'
  BY <1>5 DEF DamageBlob, Versions, FileBehind, VersionOf, WritersOf, Writing
<1>6. CASE UNCHANGED vars
  BY <1>6 DEF vars, owners, Versions, FileBehind, VersionOf, WritersOf, Writing
<1>7. CASE Restart
  <2>1. canonical' = canonFile /\ canonFile' = canonFile
    BY <1>7 DEF Restart
  <2>2. FileBehind'
    <3>1. \A e \in Entities : Len(canonFile[e]) \in Nat
      BY DEF Typed
    <3> QED
      BY <2>1, <3>1 DEF FileBehind
  <2> QED
    BY <1>7, <2>2, RestartVersions
<1>8. ASSUME NEW c \in Calls, ~CreateEntity(c), ~UpdateEntity(c), Write(c) \/ Rebuild(c) \/ Retrieve(c)
      PROVE  FileBehind'
  <2>1. UNCHANGED <<canonical, canonFile>>
    BY <1>8 DEF Write, Rebuild, Retrieve, IngestArtifact, SearchStale, RemoveStale, IndexImage, RecordEvent,
       ListEntities, ListArtifacts, ReadContents, SwapIndex, Plan, Resolve, ListEvents, FinishBundle, ReturnBundle,
       owners
  <2> QED
    BY <2>1 DEF FileBehind
<1> QED
  BY <1>1, <1>2, <1>3, <1>4, <1>5, <1>6, <1>7, <1>8, RecordVersions DEF Next, Write

(* The retrievals.                                                         *)
LEMMA PlanCurrent ==
  ASSUME Typed, NEW c \in Calls, Plan(c), PlansAreCurrent
  PROVE  PlansAreCurrent'
<1>1. PICK call \in Call :
        /\ call \in Planner /\ call.pc = "resolving" /\ call.resolved = {}
        /\ call.began = [s \in Sources |-> VersionOf(s)] /\ Continue(c, call) /\ Typed'
  BY PlanTyped
<1>2. \A s \in Sources : VersionOf(s) \in Nat
  BY VersionIsNumber
<1>3. \A s \in Sources : VersionOf(s) >= call.began[s]
  BY <1>1, <1>2
<1>4. Current(call)
  BY <1>1, <1>3 DEF Current
<1>5. StoresGrow
  BY SameStoresGrow DEF Plan, owners
<1> QED
  BY <1>1, <1>4, <1>5, ContinueCurrent

LEMMA ResolveCurrent ==
  ASSUME Typed, NEW c \in Calls, Resolve(c), PlansAreCurrent
  PROVE  PlansAreCurrent'
<1> DEFINE b == calls[c]
           r == Head(b.page)
<1>1. b \in Planner /\ b.pc = "resolving" /\ r \in Image
  BY ResolveTyped
<1>2. PICK call \in Call :
        /\ Continue(c, call) /\ Typed' /\ call.resolved = b.resolved /\ call.began = b.began
        /\ \/ call.pc = "tracing" /\ call.got = <<Found(r)>>
           \/ call.pc = "resolving"
  BY ResolveTyped
<1>3. /\ \A s \in Sources : s \in lost \/ VersionOf(s) >= b.began[s]
      /\ \A o \in b.resolved : NotOlder(b, o) /\ Accounted(o)
  BY <1>1 DEF PlansAreCurrent, Current
<1>4. \A o : NotOlder(call, o) <=> NotOlder(b, o)
  BY <1>2 DEF NotOlder
<1>5. NotOlder(call, Found(r)) /\ Found(r).version <= VersionOf(Found(r).src)
  <2>1. r.src \in Sources
    BY <1>1 DEF Image
  <2>2. VersionOf(r.src) \in Nat
    BY <2>1, VersionIsNumber
  <2> QED
    BY <1>1, <1>2, <1>3, <2>1, <2>2, FoundIs DEF NotOlder
<1>6. call.pc = "tracing" => NotOlder(call, call.got[1]) /\ call.got[1].version <= VersionOf(call.got[1].src)
  BY <1>2, <1>5
<1>7. Current(call)
  BY <1>2, <1>3, <1>4, <1>6 DEF Current
<1>8. StoresGrow
  BY SameStoresGrow DEF Resolve, owners
<1> QED
  BY <1>2, <1>7, <1>8, ContinueCurrent

LEMMA EventsCurrent ==
  ASSUME Typed, NEW c \in Calls, ListEvents(c), Versions, PlansAreCurrent
  PROVE  PlansAreCurrent'
<1> DEFINE b == calls[c]
           o == b.got[1]
<1>1. b.pc = "tracing" /\ o \in Got /\ events[o.src] \in Nat
  BY EventsTyped
<1>2. PICK call \in Call :
        /\ Continue(c, call) /\ Typed' /\ call.began = b.began /\ call.pc = "resolving"
        /\ call.resolved = b.resolved \cup {Answered(o)}
  BY EventsTyped
<1>3. /\ \A s \in Sources : s \in lost \/ VersionOf(s) >= b.began[s]
      /\ NotOlder(b, o) /\ o.version <= VersionOf(o.src)
      /\ \A x \in b.resolved : NotOlder(b, x) /\ Accounted(x)
  BY <1>1 DEF PlansAreCurrent, Current
<1>4. \A x : NotOlder(call, x) <=> NotOlder(b, x)
  BY <1>2 DEF NotOlder
<1>5. NotOlder(b, Answered(o)) /\ Accounted(Answered(o))
  <2>1. o.src \in Sources /\ o.version \in Nat
    BY <1>1 DEF Got
  <2>2. VersionOf(o.src) \in Nat /\ Cardinality(WritersOf(o.src)) \in Nat
    BY <2>1, VersionIsNumber, WritersCounted
  <2>3. o.src \notin cut => VersionOf(o.src) <= events[o.src] + Cardinality(WritersOf(o.src))
    BY <2>1 DEF Versions
  <2>4. o.src \notin cut => o.version <= events[o.src] + Cardinality(WritersOf(o.src))
    <3> HIDE DEF VersionOf, WritersOf, o
    <3> QED
      BY <1>1, <1>3, <2>1, <2>2, <2>3
  <2>5. /\ Answered(o).src = o.src /\ Answered(o).version = o.version
        /\ Answered(o).provenance = events[o.src] /\ Answered(o).pending = Cardinality(WritersOf(o.src))
    BY <1>1, AnsweredIs
  <2> QED
    BY <1>3, <2>4, <2>5 DEF NotOlder, Accounted
<1>6. Current(call)
  BY <1>2, <1>3, <1>4, <1>5 DEF Current
<1>7. StoresGrow
  BY SameStoresGrow DEF ListEvents, owners
<1> QED
  BY <1>2, <1>6, <1>7, ContinueCurrent

LEMMA FinishCurrent ==
  ASSUME Typed, NEW c \in Calls, FinishBundle(c), PlansAreCurrent
  PROVE  PlansAreCurrent'
<1> DEFINE b == calls[c]
<1>1. PICK call \in Call :
        /\ Continue(c, call) /\ Typed' /\ call.pc = "bundle" /\ b.pc = "resolving"
        /\ call.resolved = b.resolved /\ call.began = b.began
  BY FinishTyped
<1>2. \A o : NotOlder(call, o) <=> NotOlder(b, o)
  BY <1>1 DEF NotOlder
<1>3. Current(call)
  BY <1>1, <1>2 DEF PlansAreCurrent, Current
<1>4. StoresGrow
  BY SameStoresGrow DEF FinishBundle, owners
<1> QED
  BY <1>1, <1>3, <1>4, ContinueCurrent

LEMMA CurrentStep ==
  ASSUME Typed, HistoryKept, Versions, PlansAreCurrent, [Next]_vars
  PROVE  PlansAreCurrent'
<1>0. Typed'
  BY TypedStep
<1>1. ASSUME NEW c \in Calls, CreateEntity(c) \/ UpdateEntity(c) PROVE PlansAreCurrent'
  <2>1. PICK e \in Entities, call \in Call :
          /\ Enter(c, call) /\ VersionOf(e)' = VersionOf(e) + 1
          /\ \A s \in Sources : s # e => VersionOf(s)' = VersionOf(s)
          /\ \/ call.pc \in {"indexing", "searching"} /\ cut' = cut
             \/ call = Idle /\ cut' = cut \cup {e}
    BY <1>1, CreateWrites, UpdateWrites
  <2>2. call.pc \in {"indexing", "searching", "idle"}
    BY <2>1, IdleIsCall
  <2>3. lost' = lost /\ cut \subseteq cut' /\ e \in Sources
    BY <1>1, <2>1 DEF CreateEntity, UpdateEntity, Sources
  <2>4. StoresGrow
    BY <2>1, <2>3, WriteGrows
  <2> QED
    BY <1>0, <2>1, <2>2, <2>4, EnterCurrent
<1>3. ASSUME NEW c \in Calls, IngestArtifact(c) PROVE PlansAreCurrent'
  <2>1. PICK a \in Artifacts, call \in Call :
          /\ Enter(c, call) /\ VersionOf(a)' = VersionOf(a) + 1
          /\ \A s \in Sources : s # a => VersionOf(s)' = VersionOf(s)
          /\ call.pc = "indexing"
    BY <1>3, IngestWrites
  <2>2. lost' = lost /\ cut' = cut /\ a \in Sources
    BY <1>3 DEF IngestArtifact, Sources
  <2>3. StoresGrow
    BY <2>1, <2>2, WriteGrows
  <2> QED
    BY <1>0, <2>1, <2>3, EnterCurrent
<1>4. ASSUME NEW c \in Calls, NEW call \in Call, Continue(c, call), StoresGrow,
             call.pc \notin {"resolving", "tracing", "bundle"}
      PROVE  PlansAreCurrent'
  BY <1>0, <1>4, ContinueCurrent DEF Current
<1>5. ASSUME NEW c \in Calls, SearchStale(c) \/ RemoveStale(c) \/ IndexImage(c) \/ RecordEvent(c)
      PROVE  PlansAreCurrent'
  <2>1. PICK call \in Call : Continue(c, call) /\ call.pc \in {"removing", "recording", "idle"}
    BY <1>5, SearchTyped, RemoveTyped, IndexTyped, RecordTyped, IdleIsCall
  <2>2. UNCHANGED owners
    BY <1>5 DEF SearchStale, RemoveStale, IndexImage, RecordEvent
  <2> QED
    BY <1>4, <2>1, <2>2, SameStoresGrow
<1>6. ASSUME NEW c \in Calls, ListEntities(c) PROVE PlansAreCurrent'
  <2>1. PICK call \in Call : Enter(c, call) /\ call.pc = "listing"
    BY <1>6, ListTyped
  <2>2. StoresGrow
    BY <1>6, SameStoresGrow DEF ListEntities, owners
  <2> QED
    BY <1>0, <2>1, <2>2, EnterCurrent
<1>7. ASSUME NEW c \in Calls, ListArtifacts(c) \/ ReadContents(c) \/ SwapIndex(c) \/ ReturnBundle(c)
      PROVE  PlansAreCurrent'
  <2>1. PICK call \in Call : Continue(c, call) /\ call.pc \in {"reading", "replacing", "idle"}
    BY <1>7, ListArtifactsTyped, ReadTyped, SwapTyped, ReturnTyped, IdleIsCall
  <2>2. StoresGrow
    BY <1>7, SameStoresGrow DEF ListArtifacts, ReadContents, SwapIndex, ReturnBundle, owners
  <2> QED
    BY <1>4, <2>1, <2>2
<1>8. CASE Restart
  BY <1>8, RestartTyped, IdleIsCall DEF PlansAreCurrent, Current
<1>9. ASSUME NEW a \in Artifacts, DamageBlob(a) PROVE PlansAreCurrent'
  BY <1>9 DEF DamageBlob, PlansAreCurrent, Current, NotOlder, Accounted, VersionOf
<1>10. CASE UNCHANGED vars
  BY <1>10 DEF vars, owners, PlansAreCurrent, Current, NotOlder, Accounted, VersionOf
<1> QED
  BY <1>1, <1>3, <1>5, <1>6, <1>7, <1>8, <1>9, <1>10, PlanCurrent, ResolveCurrent, EventsCurrent,
     FinishCurrent DEF Next, Write, Rebuild, Retrieve

(* No object of a bundle is older than when its retrieval began, and a       *)
(* version comes without its event only when a writer of the object was      *)
(* between the two, or was cut short there.                                 *)
THEOREM BundleIsCurrentAlways == Spec => []BundleIsCurrent
<1> DEFINE IInv == Typed /\ HistoryKept /\ Versions /\ FileBehind /\ PlansAreCurrent
<1>1. Init => IInv
  <2> SUFFICES ASSUME Init PROVE IInv
    OBVIOUS
  <2>1. PlansAreCurrent
    BY IdleIsCall DEF Init, PlansAreCurrent, Current
  <2>2. \A s \in Sources : VersionOf(s) = 0 /\ events[s] = 0
    BY DEF Init, VersionOf
  <2>3. Versions
    <3>1. \A s \in Sources : Cardinality(WritersOf(s)) \in Nat
      BY WritersCounted
    <3> QED
      BY <2>2, <3>1 DEF Versions
  <2>4. FileBehind
    BY DEF Init, FileBehind
  <2> QED
    BY <2>1, <2>3, <2>4, TypedInit, HistoryInit
<1>2. IInv /\ [Next]_vars => IInv'
  <2> SUFFICES ASSUME IInv, [Next]_vars PROVE IInv'
    OBVIOUS
  <2>1. Typed' /\ HistoryKept' /\ PlansAreCurrent'
    BY TypedStep, HistoryStep, CurrentStep
  <2> QED
    BY <2>1, VersionsStep
<1>3. IInv => BundleIsCurrent
  BY DEF PlansAreCurrent, Current, NotOlder, Accounted, BundleIsCurrent
<1> QED
  BY <1>1, <1>2, <1>3, PTL DEF Spec

-----------------------------------------------------------------------------
(* The undisturbed index is exact.                                         *)
LEMMA AppendedRecords ==
  ASSUME Typed, NEW id \in Nat, NEW image \in Image, index' = Append(index, Record(id, image))
  PROVE  Range(index') = Range(index) \cup {Record(id, image)}
  BY Appended DEF Range

LEMMA RemovedRecords ==
  ASSUME Typed, NEW id, remove(id)
  PROVE  Range(index') = {r \in Range(index) : r.id # id}
<1>0. \A i : i \in Survivors(id) <=> i \in DOMAIN index /\ index[i].id # id
  BY DEF Survivors
<1>1. \A n \in DOMAIN index' : index'[n] \in {r \in Range(index) : r.id # id}
  BY <1>0, Removed DEF Range
<1>2. \A r \in Range(index) : r.id # id => \E n \in DOMAIN index' : index'[n] = r
  <2>1. TAKE r \in Range(index)
  <2>2. PICK i \in DOMAIN index : r = index[i]
    BY DEF Range
  <2> QED
    BY <1>0, <2>2, Removed
<1> QED
  BY <1>1, <1>2 DEF Range

LEMMA DistinctRecords ==
  ASSUME DistinctIds, NEW q \in Range(index), NEW r \in Range(index), q.id = r.id
  PROVE  q = r
  BY DEF DistinctIds, Range

LEMMA DistinctStep ==
  ASSUME Typed, DistinctIds, [Next]_vars
  PROVE  DistinctIds'
<1>1. ASSUME NEW c \in Calls, RemoveStale(c) PROVE DistinctIds'
  <2>1. PICK old : remove(old)
    BY <1>1, RemoveTyped
  <2>2. \A i \in Survivors(old) : i \in DOMAIN index
    BY DEF Survivors
  <2>3. /\ \A n \in DOMAIN index' :
             Place(Survivors(old), n) \in Survivors(old) /\ index'[n] = index[Place(Survivors(old), n)]
        /\ \A m, n \in DOMAIN index' : Place(Survivors(old), m) = Place(Survivors(old), n) => m = n
    BY <2>1, Removed
  <2> QED
    BY <2>2, <2>3 DEF DistinctIds
<1>2. ASSUME NEW c \in Calls, IndexImage(c) PROVE DistinctIds'
  <2>1. PICK image \in Image : indexRecord(image)
    BY <1>2, IndexTyped
  <2>2. PICK id \in Nat : (\A i \in DOMAIN index : index[i].id # id) /\ index' = Append(index, Record(id, image))
    BY <2>1, Indexed
  <2>3. /\ DOMAIN index' = DOMAIN index \cup {Len(index) + 1} /\ Len(index) + 1 \notin DOMAIN index
        /\ \A i \in DOMAIN index : index'[i] = index[i]
        /\ index'[Len(index) + 1] = Record(id, image)
    BY <2>2, Appended
  <2>4. Record(id, image).id = id
    BY DEF Record
  <2> QED
    BY <2>2, <2>3, <2>4 DEF DistinctIds
<1>3. ASSUME NEW c \in Calls, SwapIndex(c) PROVE DistinctIds'
  BY <1>3, SwapTyped, Replaced DEF DistinctIds
<1>4. CASE index' = index
  BY <1>4 DEF DistinctIds
<1>5. ASSUME NEW c \in Calls, Write(c), ~RemoveStale(c), ~IndexImage(c) PROVE index' = index
  BY <1>5 DEF Write, CreateEntity, UpdateEntity, IngestArtifact, SearchStale, RecordEvent
<1>6. ASSUME NEW c \in Calls, Rebuild(c), ~SwapIndex(c) PROVE index' = index
  BY <1>6 DEF Rebuild, ListEntities, ListArtifacts, ReadContents
<1>7. ASSUME NEW c \in Calls, Retrieve(c) PROVE index' = index
  BY <1>7 DEF Retrieve, Plan, Resolve, ListEvents, FinishBundle, ReturnBundle
<1>8. ASSUME NEW a \in Artifacts, DamageBlob(a) PROVE index' = index
  BY <1>8 DEF DamageBlob
<1>9. Restart \/ UNCHANGED vars => index' = index
  BY DEF Restart, vars
<1> QED
  BY <1>1, <1>2, <1>3, <1>4, <1>5, <1>6, <1>7, <1>8, <1>9 DEF Next

(* A lone rebuild leaves no room for a writer or another rebuild.           *)
LEMMA BusyIs ==
  ASSUME Typed, NEW c \in Calls
  PROVE  /\ c \in Busy <=> Writing(c) \/ Rebuilding(c)
         /\ ~(Writing(c) /\ Rebuilding(c)) /\ ~(Planning(c) /\ c \in Busy)
         /\ calls[c] = Idle => c \notin Busy /\ ~Planning(c)
         /\ AtWork(c) => Writing(c)
  BY IdleIsCall DEF Busy, Writing, Rebuilding, Planning, AtWork

LEMMA NoneAlone ==
  ASSUME Typed, LoneRebuilds, NEW c \in Busy, NEW d \in Calls, d # c
  PROVE  ~(Rebuilding(d) /\ calls[d].alone)
  BY DEF LoneRebuilds, LoneRebuild

(* What Calm says depends on the writers, the busy calls and the stores.    *)
SameStores == UNCHANGED <<canonical, ingested, index>>

LEMMA ImageSame ==
  ASSUME canonical' = canonical, NEW image
  PROVE  IsImage(image)' <=> IsImage(image)
  BY DEF IsImage, EntityImage, Latest

LEMMA ImageElse ==
  ASSUME NEW src, \A e \in Entities : e # src => canonical'[e] = canonical[e],
         NEW image, image.src # src, IsImage(image)
  PROVE  IsImage(image)'
  BY DEF IsImage, EntityImage, Latest

(* Nothing of what a writer relies on has changed.                          *)
LEMMA CalmCallStays ==
  ASSUME NEW call, CalmCall(call), Present \subseteq Present',
         call.pc \in {"searching", "removing", "indexing", "recording"} => RecordsOf(call.src)' = RecordsOf(call.src),
         call.pc \in {"searching", "removing", "indexing"} => (IsImage(call.image) => IsImage(call.image)')
  PROVE  CalmCall(call)'
  BY DEF CalmCall, Matching

LEMMA OtherCalls ==
  ASSUME NEW call \in Call, call.pc \notin {"searching", "removing", "indexing", "recording"}
  PROVE  CalmCall(call)'
  BY DEF CalmCall

LEMMA StoresSame ==
  ASSUME SameStores
  PROVE  /\ Present' = Present /\ Live' = Live
         /\ \A s : RecordsOf(s)' = RecordsOf(s) /\ Matching(s)' = Matching(s)
         /\ \A s : Exact(s) => Exact(s)'
<1>1. \A s : RecordsOf(s)' = RecordsOf(s)
  BY DEF SameStores, RecordsOf
<1>2. \A s : Matching(s)' = Matching(s)
  BY <1>1 DEF Matching
<1>3. Present' = Present /\ Live' = Live
  BY DEF SameStores, Present, Live
<1>4. ASSUME NEW s, Exact(s) PROVE Exact(s)'
  <2>1. PICK r \in Range(index) : RecordsOf(s) = {r} /\ IsImage(Unnumbered(r))
    BY <1>4 DEF Exact
  <2>2. PICK x : x = Unnumbered(r)
    OBVIOUS
  <2>3. IsImage(x)'
    BY <2>1, <2>2, ImageSame DEF SameStores
  <2>4. IsImage(Unnumbered(r))'
    BY <2>2, <2>3 DEF Unnumbered, IsImage
  <2>5. r \in Range(index')
    BY <2>1 DEF SameStores
  <2> QED
    BY <1>1, <2>1, <2>4, <2>5 DEF Exact
<1> QED
  BY <1>1, <1>2, <1>3, <1>4

LEMMA CalmSame ==
  ASSUME Typed, Typed', Calm, SameStores, Busy' \subseteq Busy,
         \A c \in Calls : Writing(c)' => Writing(c),
         \A c \in Busy' : Writing(c) => calls'[c] = calls[c],
         \A c \in Calls : AtWork(c) => calls'[c] = calls[c]
  PROVE  Calm'
<1>w. ASSUME NEW c \in Busy', Writing(c) PROVE Writing(c)' /\ calls'[c] = calls[c]
  BY <1>w DEF Writing
<1>1. \A c, d \in Busy' : c # d => Writing(c)' /\ Writing(d)' /\ calls'[c].src # calls'[d].src
  BY <1>w DEF Calm
<1>2. \A s \in Sources : RecordsOf(s)' # {} => s \in Present'
  BY StoresSame DEF Calm
<1>3. \A s \in Present' : ~InWork(s)' => Exact(s)'
  <2>1. \A s : InWork(s) => InWork(s)'
    BY DEF InWork, AtWork
  <2> QED
    BY <2>1, StoresSame DEF Calm
<1>4. ASSUME NEW c \in Calls, NEW call \in Call, call = calls'[c] PROVE CalmCall(call)'
  <2>1. CASE Writing(c)'
    <3>1. call = calls[c] /\ CalmCall(call)
      BY <1>4, <2>1 DEF Busy, Calm
    <3> QED
      BY <3>1, StoresSame, ImageSame, CalmCallStays DEF SameStores
  <2>2. CASE ~Writing(c)'
    <3>1. call.pc \notin {"searching", "removing", "indexing", "recording"}
      BY <1>4, <2>2 DEF Writing
    <3> QED
      BY <3>1, OtherCalls
  <2> QED
    BY <2>1, <2>2
<1>5. \A c \in Calls : CalmCall(calls[c])'
  BY <1>4 DEF CalmCall, Typed
<1> QED
  BY <1>1, <1>2, <1>3, <1>5 DEF Calm

(* A writer that collides with nothing begins: only the image of its own    *)
(* source is no longer the latest.                                         *)
LEMMA StartCalm ==
  ASSUME Typed, Typed', Calm, NEW c \in Calls, calls[c] = Idle, NEW call \in Call, call.pc \in {"searching", "indexing"},
         Enter(c, call), ~Collides(call.src), index' = index,
         \A e \in Entities : e # call.src => canonical'[e] = canonical[e],
         Present' = Present \cup {call.src}, IsImage(call.image)',
         call.pc = "indexing" => RecordsOf(call.src) = {}
  PROVE  Calm'
<1> DEFINE src == call.src
<1>1. calls'[c] = call /\ \A d \in Calls : d # c => Kept(calls[d], calls'[d])
  BY EnterCalls
<1>2. \A d \in Busy : d \in Calls /\ Writing(d) /\ calls[d].src # src /\ d # c
  BY BusyIs DEF Collides, Busy
<1>3. \A d \in Busy : calls'[d] = calls[d] /\ Writing(d)'
  <2>1. TAKE d \in Busy
  <2>2. calls'[d] = calls[d]
    BY <1>1, <1>2 DEF Kept, Writing
  <2> QED
    BY <1>2, <2>2 DEF Writing
<1>4. \A d \in Busy' : d = c \/ d \in Busy
  BY <1>1 DEF Busy, Writing, Rebuilding, Kept
<1>5. Writing(c)' /\ AtWork(c)'
  BY <1>1 DEF Writing, AtWork
<1>6. \A s : RecordsOf(s)' = RecordsOf(s) /\ Matching(s)' = Matching(s)
  BY DEF RecordsOf, Matching
<1>7. ASSUME NEW image, image.src # src, IsImage(image) PROVE IsImage(image)'
  BY <1>7, ImageElse
<1>8. \A x, y \in Busy' : x # y => Writing(x)' /\ Writing(y)' /\ calls'[x].src # calls'[y].src
  BY <1>1, <1>2, <1>3, <1>4, <1>5 DEF Calm
<1>9. \A s \in Sources : RecordsOf(s)' # {} => s \in Present'
  BY <1>6 DEF Calm
<1>10. ASSUME NEW s \in Present', ~InWork(s)' PROVE Exact(s)'
  <2>1. s # src
    BY <1>1, <1>5, <1>10 DEF InWork
  <2>2. ~InWork(s)
    <3>1. \A d \in Calls : AtWork(d) => d \in Busy /\ (AtWork(d)' /\ calls'[d] = calls[d])
      BY <1>3, BusyIs DEF AtWork
    <3> QED
      BY <1>10, <3>1 DEF InWork
  <2>3. PICK r \in Range(index) : RecordsOf(s) = {r} /\ IsImage(Unnumbered(r))
    BY <1>10, <2>1, <2>2 DEF Calm, Exact
  <2>4. PICK x : x = Unnumbered(r)
    OBVIOUS
  <2>5. x.src # src
    BY <2>1, <2>3, <2>4 DEF RecordsOf, Unnumbered
  <2>6. IsImage(x)'
    BY <1>7, <2>3, <2>4, <2>5
  <2>7. IsImage(Unnumbered(r))'
    BY <2>4, <2>6 DEF Unnumbered, IsImage
  <2> QED
    BY <1>6, <2>3, <2>7 DEF Exact
<1>11. ASSUME NEW d \in Calls, NEW now \in Call, now = calls'[d] PROVE CalmCall(now)'
  <2>1. CASE d = c
    BY <1>1, <1>6, <1>11, <2>1 DEF CalmCall
  <2>2. CASE d \in Busy
    <3>1. now = calls[d] /\ CalmCall(now) /\ now.src # src
      BY <1>2, <1>3, <1>11, <2>2 DEF Calm
    <3>2. now.pc \in {"searching", "removing", "indexing"} => now.image.src # src
      BY <3>1, CallIs DEF Sound
    <3> QED
      BY <1>6, <1>7, <3>1, <3>2, CalmCallStays
  <2>3. CASE d # c /\ d \notin Busy
    <3>1. now.pc \notin {"searching", "removing", "indexing", "recording"}
      BY <1>4, <1>11, <2>3 DEF Busy, Writing
    <3> QED
      BY <3>1, OtherCalls
  <2> QED
    BY <2>1, <2>2, <2>3
<1>12. \A d \in Calls : CalmCall(calls[d])'
  BY <1>11 DEF CalmCall, Typed
<1> QED
  BY <1>8, <1>9, <1>10, <1>12 DEF Calm

(* A writer's removal of one record of its source.                          *)
LEMMA RemoveCalm ==
  ASSUME Typed, DistinctIds, Calm, NEW c \in Calls, RemoveStale(c)
  PROVE  Calm'
<1>1. PICK old \in calls[c].todo, call \in Call :
        /\ calls[c].pc = "removing" /\ calls[c] \in Removal
        /\ call.pc = "removing" /\ call.src = calls[c].src /\ call.image = calls[c].image
        /\ call.todo = calls[c].todo \ {old}
        /\ remove(old) /\ Continue(c, call)
  BY RemoveTyped
<1>0. PICK src : src = calls[c].src
  OBVIOUS
<1>2. calls'[c] = call /\ \A d \in Calls : d # c => calls'[d] = calls[d]
  BY <1>1, TypedContinue
<1>3. Range(index') = {r \in Range(index) : r.id # old}
  BY <1>1, RemovedRecords
<1>4. calls[c].todo = Matching(src) /\ Writing(c) /\ AtWork(c) /\ c \in Busy
  BY <1>0, <1>1 DEF Calm, CalmCall, Writing, AtWork, Busy
<1>5. PICK q \in Range(index) : q.id = old /\ q.src = src
  BY <1>1, <1>4 DEF Matching, RecordsOf
<1>6. \A s : s # src => RecordsOf(s)' = RecordsOf(s) /\ Matching(s)' = Matching(s)
  <2>1. \A r \in Range(index) : r.id = old => r = q
    BY <1>5, DistinctRecords
  <2>2. \A s : s # src => RecordsOf(s)' = RecordsOf(s)
    BY <1>3, <1>5, <2>1 DEF RecordsOf
  <2> QED
    BY <2>2 DEF Matching
<1>7. RecordsOf(src)' = {r \in RecordsOf(src) : r.id # old}
  BY <1>2, <1>3 DEF RecordsOf
<1>8. Matching(src)' = call.todo
  BY <1>1, <1>4, <1>7 DEF Matching
<1>9. \A d \in Calls : /\ Writing(d)' <=> Writing(d)
                       /\ Rebuilding(d)' <=> Rebuilding(d)
                       /\ AtWork(d)' <=> AtWork(d)
                       /\ Writing(d) => calls'[d].src = calls[d].src
  BY <1>1, <1>2 DEF Writing, Rebuilding, AtWork
<1>10. Busy' = Busy /\ canonical' = canonical /\ ingested' = ingested
  BY <1>9 DEF Busy, RemoveStale, owners
<1>11. Present' = Present /\ \A s \in Sources : InWork(s)' <=> InWork(s)
  <2>1. \A d \in Calls : AtWork(d) => Writing(d)
    BY DEF AtWork, Writing
  <2> QED
    BY <1>9, <1>10, <2>1 DEF Present, Live, InWork
<1>12. \A x, y \in Busy' : x # y => Writing(x)' /\ Writing(y)' /\ calls'[x].src # calls'[y].src
  BY <1>9, <1>10 DEF Calm, Busy
<1>13. \A s \in Sources : RecordsOf(s)' # {} => s \in Present'
  BY <1>6, <1>7, <1>11 DEF Calm
<1>14. ASSUME NEW s \in Present', ~InWork(s)' PROVE Exact(s)'
  <2>1. s \in Present /\ s \in Sources
    BY <1>11 DEF Present, Live, Sources, Typed
  <2>2. s # src /\ ~InWork(s)
    BY <1>0, <1>4, <1>11, <1>14, <2>1 DEF InWork
  <2>3. PICK r \in Range(index) : RecordsOf(s) = {r} /\ IsImage(Unnumbered(r))
    BY <2>1, <2>2 DEF Calm, Exact
  <2>4. RecordsOf(s)' = {r} /\ r \in Range(index')
    BY <1>6, <2>2, <2>3 DEF RecordsOf
  <2>5. IsImage(Unnumbered(r))'
    BY <1>10, <2>3 DEF IsImage, EntityImage, Latest, Unnumbered
  <2> QED
    BY <2>4, <2>5 DEF Exact
<1>15. ASSUME NEW d \in Calls, NEW now \in Call, now = calls'[d] PROVE CalmCall(now)'
  <2>1. CalmCall(calls[d])
    BY DEF Calm
  <2>2. CASE d = c
    <3>1. now = call /\ now.src = src /\ now.image = calls[c].image /\ src \in Present /\ IsImage(now.image)
      BY <1>0, <1>1, <1>2, <1>15, <2>1, <2>2 DEF CalmCall
    <3>2. IsImage(now.image)'
      BY <1>10, <3>1, ImageSame
    <3> QED
      BY <1>1, <1>8, <1>11, <3>1, <3>2 DEF CalmCall
  <2>3. CASE d # c
    <3>1. now = calls[d] /\ CalmCall(now)
      BY <1>2, <1>15, <2>1, <2>3
    <3>2. now.pc \in {"searching", "removing", "indexing", "recording"} => now.src # src
      BY <1>0, <1>4, <2>3, <3>1 DEF Calm, Busy, Writing
    <3> QED
      BY <1>6, <1>10, <1>11, <3>1, <3>2, ImageSame, CalmCallStays
  <2> QED
    BY <2>2, <2>3
<1>16. \A d \in Calls : CalmCall(calls[d])'
  BY <1>15, RemoveTyped DEF CalmCall, Typed
<1> QED
  BY <1>12, <1>13, <1>14, <1>16 DEF Calm

(* It indexes the image.                                                   *)
LEMMA IndexCalm ==
  ASSUME Typed, Calm, NEW c \in Calls, IndexImage(c)
  PROVE  Calm'
<1>0. PICK src, image : src = calls[c].src /\ image = calls[c].image
  OBVIOUS
<1>1. PICK call \in Call :
        /\ call = [pc |-> "recording", src |-> src] /\ Continue(c, call)
        /\ calls[c].pc = "indexing" \/ (calls[c].pc = "removing" /\ calls[c].todo = {})
        /\ image \in Image /\ image.src = src /\ src \in Sources /\ indexRecord(image)
  BY <1>0, IndexTyped
<1>2. calls'[c] = call /\ \A d \in Calls : d # c => calls'[d] = calls[d]
  BY <1>1, TypedContinue
<1>3. PICK id \in Nat : index' = Append(index, Record(id, image))
  BY <1>1, Indexed
<1>r. PICK r : r = Record(id, image)
  OBVIOUS
<1>4. Range(index') = Range(index) \cup {r} /\ r.src = src /\ Unnumbered(r) = image
  BY <1>1, <1>3, <1>r, AppendedRecords, RecordIs
<1>5. Writing(c) /\ AtWork(c) /\ c \in Busy /\ IsImage(image) /\ src \in Present
  BY <1>0, <1>1 DEF Calm, CalmCall, Writing, AtWork, Busy
<1>6. RecordsOf(src) = {}
  BY <1>0, <1>1 DEF Calm, CalmCall, Matching
<1>7. RecordsOf(src)' = {r}
  BY <1>2, <1>4, <1>6 DEF RecordsOf
<1>8. \A s : s # src => RecordsOf(s)' = RecordsOf(s) /\ Matching(s)' = Matching(s)
  <2>1. \A s : s # src => RecordsOf(s)' = RecordsOf(s)
    BY <1>4 DEF RecordsOf
  <2> QED
    BY <2>1 DEF Matching
<1>9. \A d \in Calls : /\ Writing(d)' <=> Writing(d)
                       /\ Rebuilding(d)' <=> Rebuilding(d)
                       /\ d # c => (AtWork(d)' <=> AtWork(d))
                       /\ Writing(d) => calls'[d].src = calls[d].src
  <2>1. \A d \in Calls : d # c => calls'[d] = calls[d]
    BY <1>2
  <2>2. /\ calls'[c].pc = "recording" /\ calls'[c].src = calls[c].src
        /\ calls[c].pc \in {"indexing", "removing"}
    BY <1>0, <1>1, <1>2
  <2> QED
    BY <2>1, <2>2 DEF Writing, Rebuilding, AtWork
<1>10. Busy' = Busy /\ canonical' = canonical /\ ingested' = ingested
  BY <1>9 DEF Busy, IndexImage, owners
<1>11. Present' = Present /\ ~AtWork(c)'
  BY <1>1, <1>2, <1>10 DEF Present, Live, AtWork
<1>12. \A x, y \in Busy' : x # y => Writing(x)' /\ Writing(y)' /\ calls'[x].src # calls'[y].src
  BY <1>9, <1>10 DEF Calm, Busy
<1>13. \A s \in Sources : RecordsOf(s)' # {} => s \in Present'
  BY <1>5, <1>8, <1>11 DEF Calm
<1>14. ASSUME NEW s \in Present', ~InWork(s)' PROVE Exact(s)'
  <2>1. s \in Present
    BY <1>11
  <2>2. CASE s = src
    <3>1. IsImage(Unnumbered(r))'
      BY <1>4, <1>5, <1>10 DEF IsImage, EntityImage, Latest, Unnumbered
    <3> QED
      BY <1>4, <1>7, <2>2, <3>1 DEF Exact
  <2>3. CASE s # src
    <3>1. ~InWork(s)
      BY <1>0, <1>2, <1>9, <1>14, <2>3 DEF InWork
    <3>2. PICK q \in Range(index) : RecordsOf(s) = {q} /\ IsImage(Unnumbered(q))
      BY <2>1, <3>1 DEF Calm, Exact
    <3>3. RecordsOf(s)' = {q} /\ q \in Range(index')
      BY <1>4, <1>8, <2>3, <3>2
    <3>4. IsImage(Unnumbered(q))'
      BY <1>10, <3>2 DEF IsImage, EntityImage, Latest, Unnumbered
    <3> QED
      BY <3>3, <3>4 DEF Exact
  <2> QED
    BY <2>2, <2>3
<1>15. ASSUME NEW d \in Calls, NEW now \in Call, now = calls'[d] PROVE CalmCall(now)'
  <2>1. CASE d = c
    BY <1>1, <1>2, <1>5, <1>11, <1>15, <2>1 DEF CalmCall
  <2>2. CASE d # c
    <3>1. now = calls[d] /\ CalmCall(now)
      BY <1>2, <1>15, <2>2 DEF Calm
    <3>2. now.pc \in {"searching", "removing", "indexing", "recording"} => now.src # src
      BY <1>0, <1>5, <2>2, <3>1 DEF Calm, Busy, Writing
    <3> QED
      BY <1>8, <1>10, <1>11, <3>1, <3>2, ImageSame, CalmCallStays
  <2> QED
    BY <2>1, <2>2
<1>16. \A d \in Calls : CalmCall(calls[d])'
  BY <1>15, IndexTyped DEF CalmCall, Typed
<1> QED
  BY <1>12, <1>13, <1>14, <1>16 DEF Calm

(* A rebuild that nothing has joined swaps the index.                       *)
LEMMA SwapCalm ==
  ASSUME Typed, LoneRebuilds, NEW c \in Calls, SwapIndex(c), calls[c].alone
  PROVE  Calm'
<1> DEFINE staged == calls[c].staged
<1>1. calls[c].pc = "replacing" /\ staged \in Seq(Image) /\ replaceAll(staged) /\ Continue(c, Idle)
  BY SwapTyped
<1>2. Busy = {c} /\ Pictures(staged, Present)
  BY <1>1 DEF LoneRebuilds, LoneRebuild, Rebuilding
<1>3. calls'[c] = Idle /\ \A d \in Calls : d # c => calls'[d] = calls[d]
  BY <1>1, IdleIsCall, TypedContinue
<1>4. /\ DOMAIN index' = DOMAIN staged
      /\ \A i \in DOMAIN staged : Unnumbered(index'[i]) = staged[i] /\ index'[i].src = staged[i].src
  BY <1>1, Replaced
<1>5. canonical' = canonical /\ ingested' = ingested
  BY DEF SwapIndex, owners
<1>6. Present' = Present
  BY <1>5 DEF Present, Live
<1>7. \A d \in Calls : ~Writing(d)' /\ ~Rebuilding(d)' /\ ~AtWork(d)'
  <2>1. \A d \in Calls : d # c => ~Writing(d) /\ ~Rebuilding(d)
    BY <1>2 DEF Busy
  <2> QED
    BY <1>3, <2>1, IdleIsCall DEF Writing, Rebuilding, AtWork
<1>8. Busy' = {}
  BY <1>7 DEF Busy
<1>9. ASSUME NEW s \in Sources, RecordsOf(s)' # {} PROVE s \in Present'
  <2>1. PICK i \in DOMAIN index' : index'[i].src = s
    BY <1>9 DEF RecordsOf, Range
  <2> QED
    BY <1>2, <1>4, <1>6, <2>1 DEF Pictures
<1>10. ASSUME NEW s \in Present' PROVE Exact(s)'
  <2>1. PICK i \in DOMAIN staged : staged[i].src = s
    BY <1>2, <1>6 DEF Pictures
  <2>2. PICK r : r = index'[i]
    OBVIOUS
  <2>3. r \in Range(index') /\ r.src = s /\ Unnumbered(r) = staged[i]
    BY <1>4, <2>1, <2>2 DEF Range
  <2>4. \A q \in Range(index') : q.src = s => q = r
    BY <1>2, <1>4, <2>1, <2>2 DEF Pictures, Range
  <2>5. RecordsOf(s)' = {r}
    BY <2>3, <2>4 DEF RecordsOf
  <2>6. IsImage(Unnumbered(r))
    BY <1>2, <2>1, <2>3 DEF Pictures
  <2>7. IsImage(Unnumbered(r))'
    BY <1>5, <2>6 DEF IsImage, EntityImage, Latest, Unnumbered
  <2> QED
    BY <2>3, <2>5, <2>7 DEF Exact
<1>11. \A d \in Calls : CalmCall(calls[d])'
  BY <1>7 DEF CalmCall, AtWork, Writing
<1> QED
  BY <1>8, <1>9, <1>10, <1>11 DEF Calm

LEMMA SearchCalm ==
  ASSUME Typed, Typed', Calm, NEW c \in Calls, SearchStale(c)
  PROVE  Calm'
<1>1. PICK call \in Call :
        /\ call = [pc |-> "removing", src |-> calls[c].src, image |-> calls[c].image,
                   todo |-> Matching(calls[c].src)]
        /\ calls[c].pc = "searching" /\ Continue(c, call)
  BY SearchTyped
<1>2. calls'[c] = call /\ \A d \in Calls : d # c => calls'[d] = calls[d]
  BY <1>1, TypedContinue
<1>3. SameStores
  BY DEF SameStores, SearchStale, owners
<1>4. \A d \in Calls : /\ Writing(d)' <=> Writing(d)
                       /\ Rebuilding(d)' <=> Rebuilding(d)
                       /\ AtWork(d)' <=> AtWork(d)
                       /\ Writing(d) => calls'[d].src = calls[d].src
  BY <1>1, <1>2 DEF Writing, Rebuilding, AtWork
<1>5. Busy' = Busy
  BY <1>4 DEF Busy
<1>6. \A s : InWork(s)' <=> InWork(s)
  <2>1. \A d \in Calls : AtWork(d) => Writing(d)
    BY DEF AtWork, Writing
  <2> QED
    BY <1>4, <2>1 DEF InWork
<1>7. \A x, y \in Busy' : x # y => Writing(x)' /\ Writing(y)' /\ calls'[x].src # calls'[y].src
  BY <1>4, <1>5 DEF Calm, Busy
<1>8. \A s \in Sources : RecordsOf(s)' # {} => s \in Present'
  BY <1>3, StoresSame DEF Calm
<1>9. \A s \in Present' : ~InWork(s)' => Exact(s)'
  BY <1>3, <1>6, StoresSame DEF Calm
<1>10. ASSUME NEW d \in Calls, NEW now \in Call, now = calls'[d] PROVE CalmCall(now)'
  <2>1. CalmCall(calls[d])
    BY DEF Calm
  <2>2. CASE d = c
    <3>1. /\ now = call /\ now.src = calls[c].src /\ now.image = calls[c].image /\ now.pc = "removing"
          /\ now.todo = Matching(now.src) /\ now.src \in Present /\ IsImage(now.image)
      BY <1>1, <1>2, <1>10, <2>1, <2>2 DEF CalmCall
    <3>2. IsImage(now.image)' /\ Matching(now.src)' = Matching(now.src) /\ Present' = Present
      BY <1>3, <3>1, ImageSame, StoresSame DEF SameStores
    <3> QED
      BY <3>1, <3>2 DEF CalmCall
  <2>3. CASE d # c
    <3>1. now = calls[d] /\ CalmCall(now)
      BY <1>2, <1>10, <2>1, <2>3
    <3> QED
      BY <1>3, <3>1, StoresSame, ImageSame, CalmCallStays DEF SameStores
  <2> QED
    BY <2>2, <2>3
<1>11. \A d \in Calls : CalmCall(calls[d])'
  BY <1>10 DEF CalmCall, Typed
<1> QED
  BY <1>7, <1>8, <1>9, <1>11 DEF Calm

(* The stores after a new version.                                          *)
LEMMA WrittenPresent ==
  ASSUME Typed, NEW e \in Entities, NEW vs \in Seq(Values), NEW v, vs # <<>>, vs[Len(vs)] = v,
         StoreVersions(e, vs), ingested' = ingested, NEW image, image = EntityImage(e, v)
  PROVE  /\ \A f \in Entities : f # e => canonical'[f] = canonical[f]
         /\ Present' = Present \cup {e} /\ IsImage(image)'
<1>1. canonical'[e] = vs /\ \A f \in Entities : f # e => canonical'[f] = canonical[f]
  BY DEF StoreVersions, Typed
<1>2. Latest(e)' = v
  BY <1>1 DEF Latest
<1>3. image.src = e /\ image = [src |-> e, text |-> TextOf[v], meta |-> v]
  BY DEF EntityImage
<1>4. IsImage(image)'
  BY <1>1, <1>2, <1>3 DEF IsImage, EntityImage, Latest
<1>5. Live' = Live \cup {e}
  BY <1>1 DEF Live
<1> QED
  BY <1>1, <1>4, <1>5 DEF Present

LEMMA CreateCalm ==
  ASSUME Typed, Typed', HistoryKept, calm => Calm, NEW c \in Calls, CreateEntity(c), calm'
  PROVE  Calm'
<1>1. PICK v \in Values, call \in Call :
        /\ born + 1 \in Entities /\ StoreVersions(born + 1, <<v>>)
        /\ call = [pc |-> "indexing", src |-> born + 1, image |-> EntityImage(born + 1, v)]
        /\ calm' = (calm /\ ~Collides(born + 1)) /\ Enter(c, call)
  BY CreateTyped
<1>2. PICK e \in Entities : e = born + 1
  BY <1>1
<1>3. canonical[e] = <<>>
  BY <1>2, UnbornIsEmpty DEF Typed
<1>4. RecordsOf(e) = {}
  <2>1. e \notin Present /\ e \in Sources
    BY <1>3, Sizes DEF Present, Live, Sources, Typed
  <2> QED
    BY <1>1, <2>1 DEF Calm
<1>5. /\ call.pc = "indexing" /\ call.src = e /\ call.image = EntityImage(e, v)
      /\ StoreVersions(e, <<v>>) /\ ~Collides(e) /\ Calm
  BY <1>1, <1>2
<1>6. <<v>> \in Seq(Values) /\ <<v>> # <<>> /\ <<v>>[Len(<<v>>)] = v
  OBVIOUS
<1>7. ingested' = ingested /\ index' = index /\ calls[c] = Idle
  BY DEF CreateEntity
<1>8. PICK image : image = EntityImage(e, v)
  OBVIOUS
<1>9. /\ \A f \in Entities : f # e => canonical'[f] = canonical[f]
      /\ Present' = Present \cup {e} /\ IsImage(image)'
  BY <1>5, <1>6, <1>7, <1>8, WrittenPresent
<1>10. IsImage(call.image)'
  BY <1>5, <1>8, <1>9 DEF IsImage
<1> QED
  BY <1>1, <1>4, <1>5, <1>7, <1>9, <1>10, StartCalm

LEMMA UpdateCalm ==
  ASSUME Typed, Typed', calm => Calm, NEW c \in Calls, UpdateEntity(c), calm'
  PROVE  Calm'
<1>1. PICK e \in Live, v \in Values, call \in Call :
        /\ StoreVersions(e, Append(canonical[e], v))
        /\ call = [pc |-> "searching", src |-> e, image |-> EntityImage(e, v)]
        /\ calm' = (calm /\ ~Collides(e)) /\ Enter(c, call)
  BY UpdateTyped
<1>2. e \in Entities /\ canonical[e] \in Seq(Values)
  BY DEF Live, Typed
<1>3. PICK vs \in Seq(Values) : vs = Append(canonical[e], v) /\ vs # <<>> /\ vs[Len(vs)] = v
  <2>1. \A q \in Seq(Values) : /\ Append(q, v) \in Seq(Values) /\ Append(q, v) # <<>>
                               /\ Append(q, v)[Len(Append(q, v))] = v
    OBVIOUS
  <2> QED
    BY <1>2, <2>1
<1>4. /\ call.pc = "searching" /\ call.src = e /\ call.image = EntityImage(e, v) /\ ~Collides(e) /\ Calm
  BY <1>1
<1>5. ingested' = ingested /\ index' = index /\ calls[c] = Idle
  BY DEF UpdateEntity
<1>6. PICK image : image = EntityImage(e, v)
  OBVIOUS
<1>7. /\ \A f \in Entities : f # e => canonical'[f] = canonical[f]
      /\ Present' = Present \cup {e} /\ IsImage(image)'
  BY <1>1, <1>2, <1>3, <1>5, <1>6, WrittenPresent
<1>8. IsImage(call.image)'
  BY <1>4, <1>6, <1>7 DEF IsImage
<1> QED
  BY <1>1, <1>4, <1>5, <1>7, <1>8, StartCalm

LEMMA IngestCalm ==
  ASSUME Typed, Typed', calm => Calm, NEW c \in Calls, IngestArtifact(c), calm'
  PROVE  Calm'
<1>1. PICK a \in Artifacts \ ingested, call \in Call :
        /\ call = [pc |-> "indexing", src |-> a, image |-> ArtifactImage(a, "filename")]
        /\ ingested' = ingested \cup {a} /\ calm' = (calm /\ ~Collides(a)) /\ Enter(c, call)
  BY IngestTyped
<1>2. a \notin Entities /\ call.pc = "indexing" /\ call.src = a /\ call.image.src = a /\ Calm /\ ~Collides(a)
  BY <1>1, Sizes, ImagesAre
<1>3. RecordsOf(a) = {}
  <2>1. a \notin Present /\ a \in Sources
    BY <1>1, <1>2 DEF Present, Live, Sources
  <2> QED
    BY <1>2, <2>1 DEF Calm
<1>4. index' = index /\ canonical' = canonical /\ calls[c] = Idle
  BY DEF IngestArtifact
<1>5. Present' = Present \cup {a}
  BY <1>1, <1>4 DEF Present, Live
<1>6. IsImage(call.image)'
  BY <1>2 DEF IsImage
<1> QED
  BY <1>1, <1>2, <1>3, <1>4, <1>5, <1>6, StartCalm

(* Without a writer there is only the index to look at.                     *)
LEMMA QuietCalm ==
  ASSUME Typed, Typed', Calm, SameStores, Busy = {}, \A c \in Calls : ~Writing(c)',
         NEW b, Busy' \subseteq {b}
  PROVE  Calm'
<1>1. \A c \in Calls : ~Writing(c) /\ ~AtWork(c)
  BY DEF Busy, Writing, AtWork
<1>2. \A s \in Present' : Exact(s)'
  BY <1>1, StoresSame DEF Calm, InWork
<1>3. \A s \in Sources : RecordsOf(s)' # {} => s \in Present'
  BY StoresSame DEF Calm
<1>4. \A c \in Calls : CalmCall(calls[c])'
  <2>1. ASSUME NEW c \in Calls, NEW now \in Call, now = calls'[c] PROVE CalmCall(now)'
    <3>1. now.pc \notin {"searching", "removing", "indexing", "recording"}
      BY <2>1 DEF Writing
    <3> QED
      BY <3>1, OtherCalls
  <2> QED
    BY <2>1 DEF CalmCall, Typed
<1>5. \A x, y \in Busy' : x # y => Writing(x)' /\ Writing(y)' /\ calls'[x].src # calls'[y].src
  OBVIOUS
<1> QED
  BY <1>2, <1>3, <1>4, <1>5 DEF Calm

LEMMA RestartCalm ==
  ASSUME Typed, Typed', calm => Calm, Restart, calm'
  PROVE  Calm'
<1>1. calm /\ canonFile = canonical /\ Busy = {} /\ SameStores
  BY DEF Restart, SameStores
<1>2. \A c \in Calls : ~Writing(c)' /\ ~Rebuilding(c)'
  BY RestartTyped, IdleIsCall DEF Writing, Rebuilding
<1>3. Busy' \subseteq {Idle}
  BY <1>2 DEF Busy
<1> QED
  BY <1>1, <1>2, <1>3, QuietCalm

LEMMA ListCalm ==
  ASSUME Typed, Typed', calm => Calm, NEW c \in Calls, ListEntities(c), calm'
  PROVE  Calm'
<1>1. PICK call \in Call : call.pc = "listing" /\ Enter(c, call)
  BY ListTyped
<1>2. calls'[c] = call /\ \A d \in Calls : d # c => Kept(calls[d], calls'[d])
  BY <1>1, EnterCalls
<1>3. calm /\ Busy = {} /\ SameStores
  BY DEF ListEntities, SameStores, owners
<1>4. \A d \in Calls : d # c => ~Writing(d)' /\ ~Rebuilding(d)'
  BY <1>2, <1>3 DEF Busy, Writing, Rebuilding, Kept
<1>5. ~Writing(c)'
  BY <1>1, <1>2 DEF Writing
<1>6. Busy' \subseteq {c}
  BY <1>4 DEF Busy
<1> QED
  BY <1>3, <1>4, <1>5, <1>6, QuietCalm

(* A step of a rebuild or of a retrieval, or a writer's last, in one call.  *)
LEMMA ContinueCalm ==
  ASSUME Typed, Typed', Calm, SameStores, NEW c \in Calls, NEW call \in Call, Continue(c, call),
         ~AtWork(c), call.pc \notin {"searching", "removing", "indexing", "recording"},
         call.pc \in {"listing", "reading", "replacing"} => Rebuilding(c)
  PROVE  Calm'
<1>1. calls'[c] = call /\ \A d \in Calls : d # c => calls'[d] = calls[d]
  BY TypedContinue
<1>2. ~Writing(c)' /\ (Rebuilding(c)' => Rebuilding(c))
  BY <1>1 DEF Writing, Rebuilding
<1>3. \A d \in Calls : d # c => (Writing(d)' <=> Writing(d)) /\ (Rebuilding(d)' <=> Rebuilding(d))
  BY <1>1 DEF Writing, Rebuilding
<1>4. Busy' \subseteq Busy
  BY <1>2, <1>3 DEF Busy
<1>5. \A d \in Calls : Writing(d)' => Writing(d)
  BY <1>2, <1>3
<1>6. \A d \in Busy' : Writing(d) => calls'[d] = calls[d]
  <2>1. Writing(c) => c \notin Busy'
    BY <1>2, BusyIs DEF Busy
  <2> QED
    BY <1>1, <2>1 DEF Busy
<1>7. \A d \in Calls : AtWork(d) => calls'[d] = calls[d]
  BY <1>1
<1> QED
  BY <1>4, <1>5, <1>6, <1>7, CalmSame

-----------------------------------------------------------------------------
(* The rebuilds that nothing has joined.                                    *)
LEMMA PicturesStay ==
  ASSUME canonical' = canonical, NEW staged, NEW S, Pictures(staged, S)
  PROVE  Pictures(staged, S)'
  BY ImageSame DEF Pictures

LEMMA LoneWhen ==
  ASSUME NEW c \in Calls, Busy = {c}, NEW staged, staged = calls[c].staged,
         calls[c].pc = "listing" => Pictures(staged, Live),
         calls[c].pc # "listing" => Pictures(staged, Present)
  PROVE  LoneRebuild(c)
  BY DEF LoneRebuild

LEMMA NoneAloneAfterEnter ==
  ASSUME Typed, NEW c \in Calls, NEW call \in Call, Enter(c, call),
         call.pc \notin {"listing", "reading", "replacing"}
  PROVE  LoneRebuilds'
<1>1. calls'[c] = call /\ \A d \in Calls : d # c => Kept(calls[d], calls'[d])
  BY EnterCalls
<1>2. \A d \in Calls : ~(Rebuilding(d)' /\ calls'[d].alone)
  BY <1>1 DEF Rebuilding, Kept
<1> QED
  BY <1>2 DEF LoneRebuilds

LEMMA NoneAloneAfterContinue ==
  ASSUME Typed, LoneRebuilds, NEW c \in Busy, NEW call \in Call, Continue(c, call),
         call.pc \notin {"listing", "reading", "replacing"}
  PROVE  LoneRebuilds'
<1>1. c \in Calls
  BY DEF Busy
<1>2. calls'[c] = call /\ \A d \in Calls : d # c => calls'[d] = calls[d]
  BY <1>1, TypedContinue
<1>3. \A d \in Calls : d # c => ~(Rebuilding(d) /\ calls[d].alone)
  BY NoneAlone
<1>4. \A d \in Calls : ~(Rebuilding(d)' /\ calls'[d].alone)
  BY <1>2, <1>3 DEF Rebuilding
<1> QED
  BY <1>4 DEF LoneRebuilds

(* A call that is no rebuild and no writer, before and after.               *)
LEMMA LoneBesides ==
  ASSUME Typed, LoneRebuilds, SameStores, Busy' = Busy,
         \A c \in Calls : Rebuilding(c)' => Rebuilding(c) /\ calls'[c] = calls[c]
  PROVE  LoneRebuilds'
<1> SUFFICES ASSUME NEW c \in Calls, Rebuilding(c)', calls'[c].alone PROVE LoneRebuild(c)'
  BY DEF LoneRebuilds
<1>1. calls'[c] = calls[c] /\ LoneRebuild(c)
  BY DEF LoneRebuilds
<1>2. PICK staged : staged = calls[c].staged
  OBVIOUS
<1>3. PICK S : S = IF calls[c].pc = "listing" THEN Live ELSE Present
  OBVIOUS
<1>4. Pictures(staged, S)'
  BY <1>1, <1>2, <1>3, PicturesStay DEF LoneRebuild, SameStores
<1>5. Live' = Live /\ Present' = Present /\ Busy' = {c}
  BY <1>1, StoresSame DEF LoneRebuild
<1> QED
  BY <1>1, <1>2, <1>3, <1>4, <1>5 DEF LoneRebuild, Pictures

LEMMA EntitiesPictured ==
  ASSUME Typed
  PROVE  Pictures(EntityImages, Live)
<1>1. \A e \in Live : IsImage(EntityImage(e, Latest(e)))
  BY ImagesAre DEF IsImage
<1> QED
  BY <1>1, ListedEntities DEF Pictures

LEMMA PicturesJoin ==
  ASSUME NEW s \in Seq(Image), NEW t \in Seq(Image), NEW S, NEW T, Pictures(s, S), Pictures(t, T), S \cap T = {}
  PROVE  Pictures(s \o t, S \cup T)
<1> DEFINE u == s \o t
<1>1. /\ DOMAIN s = 1..Len(s) /\ DOMAIN t = 1..Len(t) /\ Len(s) \in Nat /\ Len(t) \in Nat
      /\ DOMAIN u = 1..Len(s) + Len(t)
      /\ \A i \in DOMAIN s : i \in DOMAIN u /\ u[i] = s[i]
      /\ \A i \in DOMAIN t : i + Len(s) \in DOMAIN u /\ u[i + Len(s)] = t[i]
  OBVIOUS
<1> HIDE DEF u
<1>2. \A i \in DOMAIN u : i \in DOMAIN s \/ \E j \in DOMAIN t : i = j + Len(s)
  <2>1. TAKE i \in DOMAIN u
  <2>2. CASE i <= Len(s)
    BY <1>1, <2>2
  <2>3. CASE i > Len(s)
    <3>1. i - Len(s) \in DOMAIN t /\ i = i - Len(s) + Len(s)
      BY <1>1, <2>3
    <3> QED
      BY <3>1
  <2> QED
    BY <1>1, <2>2, <2>3
<1>3. \A i \in DOMAIN s : s[i].src \in S /\ s[i].src \notin T
  BY DEF Pictures
<1>4. \A i \in DOMAIN t : t[i].src \in T /\ t[i].src \notin S
  BY DEF Pictures
<1>5. ASSUME NEW i \in DOMAIN u, NEW j \in DOMAIN u, u[i].src = u[j].src PROVE i = j
  <2>1. CASE i \in DOMAIN s /\ j \in DOMAIN s
    BY <1>1, <1>5, <2>1 DEF Pictures
  <2>2. CASE i \in DOMAIN s /\ j \notin DOMAIN s
    BY <1>1, <1>2, <1>3, <1>4, <1>5, <2>2
  <2>3. CASE i \notin DOMAIN s /\ j \in DOMAIN s
    BY <1>1, <1>2, <1>3, <1>4, <1>5, <2>3
  <2>4. CASE i \notin DOMAIN s /\ j \notin DOMAIN s
    <3>1. PICK a \in DOMAIN t : i = a + Len(s)
      BY <1>2, <2>4
    <3>2. PICK b \in DOMAIN t : j = b + Len(s)
      BY <1>2, <2>4
    <3>3. t[a].src = t[b].src
      BY <1>1, <1>5, <3>1, <3>2
    <3>4. a = b
      BY <3>3 DEF Pictures
    <3> QED
      BY <3>1, <3>2, <3>4
  <2> QED
    BY <2>1, <2>2, <2>3, <2>4
<1>6. \A i \in DOMAIN u : u[i].src \in S \cup T /\ IsImage(u[i])
  BY <1>1, <1>2 DEF Pictures
<1>7. \A x \in S \cup T : \E i \in DOMAIN u : u[i].src = x
  <2>1. \A x \in S : \E i \in DOMAIN s : s[i].src = x
    BY DEF Pictures
  <2>2. \A x \in T : \E i \in DOMAIN t : t[i].src = x
    BY DEF Pictures
  <2> QED
    BY <1>1, <2>1, <2>2
<1>8. {u[i].src : i \in DOMAIN u} = S \cup T
  BY <1>6, <1>7
<1>9. Pictures(u, S \cup T)
  BY <1>5, <1>6, <1>8 DEF Pictures
<1> QED
  BY <1>9 DEF u

LEMMA ArtifactsPictured ==
  ASSUME Typed, NEW by \in Bys
  PROVE  Pictures(ArtifactImages(ingested, by), ingested)
<1> DEFINE t == ArtifactImages(ingested, by)
<1>1. /\ \A i \in DOMAIN t : t[i].src \in ingested
      /\ \A i, j \in DOMAIN t : t[i].src = t[j].src => i = j
      /\ \A a \in ingested : \E i \in DOMAIN t : t[i].src = a
  BY ListedArtifacts
<1> HIDE DEF t
<1>2. {t[i].src : i \in DOMAIN t} = ingested
  BY <1>1
<1>3. \A i \in DOMAIN t : IsImage(t[i])
  BY <1>1, Sizes DEF IsImage, Typed
<1>4. Pictures(t, ingested)
  BY <1>1, <1>2, <1>3 DEF Pictures
<1> QED
  BY <1>4 DEF t

LEMMA ListLone ==
  ASSUME Typed, NEW c \in Calls, ListEntities(c)
  PROVE  LoneRebuilds'
<1>1. PICK call \in Call : /\ call.pc = "listing" /\ call.staged = EntityImages
                           /\ call.alone = (Busy = {}) /\ Enter(c, call)
  BY ListTyped
<1>2. calls'[c] = call /\ \A d \in Calls : d # c => Kept(calls[d], calls'[d])
  BY <1>1, EnterCalls
<1>3. \A d \in Calls : d # c => ~(Rebuilding(d)' /\ calls'[d].alone)
  BY <1>2 DEF Rebuilding, Kept
<1>4. ASSUME Rebuilding(c)', calls'[c].alone PROVE LoneRebuild(c)'
  <2>1. Busy = {}
    BY <1>1, <1>2, <1>4
  <2>2. \A d \in Calls : d # c => ~Writing(d)' /\ ~Rebuilding(d)'
    BY <1>2, <2>1 DEF Busy, Writing, Rebuilding, Kept
  <2>3. Busy' = {c}
    BY <1>4, <2>2 DEF Busy
  <2>4. PICK staged, S : staged = EntityImages /\ S = Live
    OBVIOUS
  <2>5. canonical' = canonical /\ Live' = Live
    BY DEF ListEntities, owners, Live
  <2>6. Pictures(staged, S)'
    BY <2>4, <2>5, EntitiesPictured, PicturesStay
  <2>7. calls'[c].pc = "listing" /\ calls'[c].staged = staged /\ S = Live'
    BY <1>1, <1>2, <2>4, <2>5
  <2> QED
    BY <2>3, <2>6, <2>7 DEF LoneRebuild, Pictures
<1> QED
  BY <1>3, <1>4 DEF LoneRebuilds

(* Its next step, if it still has the stores as they are.                   *)
LEMMA NextLone ==
  ASSUME Typed, LoneRebuilds, SameStores, NEW c \in Calls, Rebuilding(c), NEW call \in Call, Continue(c, call),
         call.pc \in {"reading", "replacing"},
         call.alone => calls[c].alone /\ (LoneRebuild(c) => Pictures(call.staged, Present))
  PROVE  LoneRebuilds'
<1>1. calls'[c] = call /\ \A d \in Calls : d # c => calls'[d] = calls[d]
  BY TypedContinue
<1>2. \A d \in Calls : d # c => ~(Rebuilding(d)' /\ calls'[d].alone)
  <2>1. c \in Busy
    BY DEF Busy
  <2>2. \A d \in Calls : d # c => ~(Rebuilding(d) /\ calls[d].alone)
    BY <2>1, NoneAlone
  <2> QED
    BY <1>1, <2>2 DEF Rebuilding
<1>3. ASSUME Rebuilding(c)', calls'[c].alone PROVE LoneRebuild(c)'
  <2>1. LoneRebuild(c) /\ Pictures(call.staged, Present)
    BY <1>1, <1>3 DEF LoneRebuilds
  <2>2. \A d \in Calls : d # c => ~Writing(d)' /\ ~Rebuilding(d)'
    BY <1>1, <2>1 DEF LoneRebuild, Busy, Writing, Rebuilding
  <2>3. Busy' = {c}
    BY <1>3, <2>2 DEF Busy
  <2>4. PICK S : S = Present
    OBVIOUS
  <2>5. Pictures(call.staged, S)'
    BY <2>1, <2>4, PicturesStay DEF SameStores
  <2>6. S = Present'
    BY <2>4, StoresSame
  <2> QED
    BY <1>1, <2>3, <2>5, <2>6 DEF LoneRebuild, Pictures
<1> QED
  BY <1>2, <1>3 DEF LoneRebuilds

LEMMA ListArtifactsLone ==
  ASSUME Typed, LoneRebuilds, NEW c \in Calls, ListArtifacts(c)
  PROVE  LoneRebuilds'
<1>1. PICK call \in Call :
        /\ calls[c].pc = "listing" /\ calls[c] \in Rebuilder
        /\ call.pc \in {"reading", "replacing"} /\ call.alone = calls[c].alone
        /\ call.staged = calls[c].staged \o ArtifactImages(ingested, calls[c].by) /\ Continue(c, call)
  BY ListArtifactsTyped
<1>2. calls[c].staged \in Seq(Image) /\ ArtifactImages(ingested, calls[c].by) \in Seq(Image) /\ calls[c].by \in Bys
  BY <1>1, RebuilderFields, ListedArtifacts
<1>3. Live \cap ingested = {}
  BY Sizes DEF Live, Typed
<1>4. LoneRebuild(c) => Pictures(call.staged, Present)
  <2>1. LoneRebuild(c) => Pictures(calls[c].staged, Live)
    BY <1>1 DEF LoneRebuild
  <2>2. Pictures(ArtifactImages(ingested, calls[c].by), ingested)
    BY <1>2, ArtifactsPictured
  <2> QED
    BY <1>1, <1>2, <1>3, <2>1, <2>2, PicturesJoin DEF Present
<1>5. Rebuilding(c) /\ SameStores
  BY <1>1 DEF Rebuilding, SameStores, ListArtifacts, owners
<1> QED
  BY <1>1, <1>4, <1>5, NextLone

LEMMA ReadLone ==
  ASSUME Typed, LoneRebuilds, NEW c \in Calls, ReadContents(c)
  PROVE  LoneRebuilds'
<1>1. PICK call \in Call :
        /\ calls[c].pc = "reading" /\ calls[c] \in Rebuilder
        /\ call.pc = "replacing" /\ call.alone = (calls[c].alone /\ ingested \cap damaged = {})
        /\ call.staged = Pick(calls[c].staged, Readable(calls[c].staged)) /\ Continue(c, call)
  BY ReadTyped
<1>2. calls[c].staged \in Seq(Image) /\ calls[c].alone \in BOOLEAN
  BY <1>1, RebuilderFields
<1>3. ASSUME call.alone, LoneRebuild(c) PROVE Pictures(call.staged, Present)
  <2>1. Pictures(calls[c].staged, Present) /\ ingested \cap damaged = {}
    BY <1>1, <1>3 DEF LoneRebuild
  <2>2. Present \cap damaged = {}
    BY <2>1, Sizes DEF Present, Live, Typed
  <2>3. Readable(calls[c].staged) = DOMAIN calls[c].staged
    BY <2>1, <2>2 DEF Readable, Pictures
  <2>4. call.staged = calls[c].staged
    BY <1>1, <1>2, <2>3, PickAll
  <2> QED
    BY <2>1, <2>4
<1>4. Rebuilding(c) /\ SameStores
  BY <1>1 DEF Rebuilding, SameStores, ReadContents, owners
<1>5. call.alone => calls[c].alone /\ (LoneRebuild(c) => Pictures(call.staged, Present))
  BY <1>1, <1>3
<1> QED
  BY <1>1, <1>4, <1>5, NextLone

LEMMA OtherLone ==
  ASSUME Typed, LoneRebuilds, SameStores, NEW c \in Calls, NEW call \in Call, Continue(c, call), c \notin Busy,
         call.pc \in {"idle", "resolving", "tracing", "bundle"}
  PROVE  LoneRebuilds'
<1>1. calls'[c] = call /\ \A d \in Calls : d # c => calls'[d] = calls[d]
  BY TypedContinue
<1>2. \A d \in Calls : /\ (Writing(d)' <=> Writing(d)) /\ (Rebuilding(d)' <=> Rebuilding(d))
                       /\ Rebuilding(d) => calls'[d] = calls[d]
  BY <1>1 DEF Busy, Writing, Rebuilding
<1>3. Busy' = Busy
  BY <1>2 DEF Busy
<1> QED
  BY <1>2, <1>3, LoneBesides

LEMMA CalmStep ==
  ASSUME Typed, HistoryKept, CalmInv, [Next]_vars
  PROVE  CalmInv'
<1>0. Typed' /\ DistinctIds' /\ DistinctIds /\ LoneRebuilds /\ (calm => Calm)
  BY TypedStep, DistinctStep DEF CalmInv
<1> SUFFICES (calm' => Calm') /\ LoneRebuilds'
  BY <1>0 DEF CalmInv
<1>1. ASSUME NEW c \in Calls, CreateEntity(c) PROVE (calm' => Calm') /\ LoneRebuilds'
  <2>1. PICK v \in Values, call \in Call :
          /\ \/ call = [pc |-> "indexing", src |-> born + 1, image |-> EntityImage(born + 1, v)]
             \/ call = Idle
          /\ Enter(c, call)
    BY <1>1, CreateTyped
  <2>2. call.pc \in {"indexing", "idle"}
    BY <2>1, IdleIsCall
  <2> QED
    BY <1>0, <1>1, <2>1, <2>2, CreateCalm, NoneAloneAfterEnter
<1>2. ASSUME NEW c \in Calls, UpdateEntity(c) PROVE (calm' => Calm') /\ LoneRebuilds'
  <2>1. PICK e \in Live, v \in Values, call \in Call :
          /\ \/ call = [pc |-> "searching", src |-> e, image |-> EntityImage(e, v)]
             \/ call = Idle
          /\ Enter(c, call)
    BY <1>2, UpdateTyped
  <2>2. call.pc \in {"searching", "idle"}
    BY <2>1, IdleIsCall
  <2> QED
    BY <1>0, <1>2, <2>1, <2>2, UpdateCalm, NoneAloneAfterEnter
<1>3. ASSUME NEW c \in Calls, IngestArtifact(c) PROVE (calm' => Calm') /\ LoneRebuilds'
  <2>1. PICK call \in Call : Enter(c, call) /\ call.pc = "indexing"
    BY <1>3, IngestTyped
  <2> QED
    BY <1>0, <1>3, <2>1, IngestCalm, NoneAloneAfterEnter
<1>4. ASSUME NEW c \in Calls, SearchStale(c) PROVE (calm' => Calm') /\ LoneRebuilds'
  <2>1. PICK call \in Call : Continue(c, call) /\ call.pc = "removing" /\ calls[c].pc = "searching"
    BY <1>4, SearchTyped
  <2>2. c \in Busy /\ calm' = calm
    BY <1>4, <2>1 DEF Busy, Writing, SearchStale
  <2> QED
    BY <1>0, <1>4, <2>1, <2>2, SearchCalm, NoneAloneAfterContinue
<1>5. ASSUME NEW c \in Calls, RemoveStale(c) PROVE (calm' => Calm') /\ LoneRebuilds'
  <2>1. PICK old \in calls[c].todo, call \in Call :
          Continue(c, call) /\ call.pc = "removing" /\ calls[c].pc = "removing"
    BY <1>5, RemoveTyped
  <2>2. c \in Busy /\ calm' = calm
    BY <1>5, <2>1 DEF Busy, Writing, RemoveStale
  <2> QED
    BY <1>0, <1>5, <2>1, <2>2, RemoveCalm, NoneAloneAfterContinue
<1>6. ASSUME NEW c \in Calls, IndexImage(c) PROVE (calm' => Calm') /\ LoneRebuilds'
  <2>1. PICK call \in Call :
          Continue(c, call) /\ call.pc = "recording" /\ calls[c].pc \in {"indexing", "removing"}
    BY <1>6, IndexTyped
  <2>2. c \in Busy /\ calm' = calm
    BY <1>6, <2>1 DEF Busy, Writing, IndexImage
  <2> QED
    BY <1>0, <1>6, <2>1, <2>2, IndexCalm, NoneAloneAfterContinue
<1>7. ASSUME NEW c \in Calls, RecordEvent(c) PROVE (calm' => Calm') /\ LoneRebuilds'
  <2>1. calls[c].pc = "recording" /\ Continue(c, Idle) /\ Idle \in Call /\ Idle.pc = "idle"
    BY <1>7, RecordTyped, IdleIsCall
  <2>2. c \in Busy /\ ~AtWork(c) /\ SameStores /\ calm' = calm
    BY <1>7, <2>1 DEF Busy, Writing, AtWork, RecordEvent, SameStores, owners
  <2>3. LoneRebuilds'
    BY <1>0, <2>1, <2>2, NoneAloneAfterContinue
  <2> QED
    BY <1>0, <2>1, <2>2, <2>3, ContinueCalm
<1>8. ASSUME NEW c \in Calls, ListEntities(c) PROVE (calm' => Calm') /\ LoneRebuilds'
  BY <1>0, <1>8, ListCalm, ListLone
<1>9. ASSUME NEW c \in Calls, ListArtifacts(c) \/ ReadContents(c) PROVE (calm' => Calm') /\ LoneRebuilds'
  <2>1. PICK call \in Call :
          Continue(c, call) /\ call.pc \in {"reading", "replacing"} /\ calls[c].pc \in {"listing", "reading"}
    BY <1>9, ListArtifactsTyped, ReadTyped
  <2>2. Rebuilding(c) /\ ~AtWork(c) /\ SameStores /\ calm' = calm
    BY <1>9, <2>1 DEF Rebuilding, AtWork, ListArtifacts, ReadContents, SameStores, owners
  <2>3. LoneRebuilds'
    BY <1>0, <1>9, ListArtifactsLone, ReadLone
  <2> QED
    BY <1>0, <2>1, <2>2, <2>3, ContinueCalm
<1>10. ASSUME NEW c \in Calls, SwapIndex(c) PROVE (calm' => Calm') /\ LoneRebuilds'
  <2>1. calls[c].pc = "replacing" /\ Continue(c, Idle) /\ calm' = calls[c].alone
    BY <1>10, SwapTyped
  <2>2. c \in Busy
    BY <2>1 DEF Busy, Rebuilding
  <2> QED
    BY <1>0, <1>10, <2>1, <2>2, IdleIsCall, SwapCalm, NoneAloneAfterContinue
<1>11. ASSUME NEW c \in Calls, Retrieve(c) PROVE (calm' => Calm') /\ LoneRebuilds'
  <2>1. PICK call \in Call : /\ Continue(c, call) /\ call.pc \in {"idle", "resolving", "tracing", "bundle"}
                             /\ calls[c].pc \in {"idle", "resolving", "tracing", "bundle"}
    <3>1. CASE Plan(c)
      BY <3>1, PlanTyped, IdleIsCall
    <3>2. CASE Resolve(c)
      BY <3>2, ResolveTyped
    <3>3. CASE ListEvents(c)
      BY <3>3, EventsTyped
    <3>4. CASE FinishBundle(c)
      BY <3>4, FinishTyped
    <3>5. CASE ReturnBundle(c)
      BY <3>5, ReturnTyped, IdleIsCall
    <3> QED
      BY <1>11, <3>1, <3>2, <3>3, <3>4, <3>5 DEF Retrieve
  <2>2. SameStores /\ calm' = calm
    BY <1>11 DEF Retrieve, Plan, Resolve, ListEvents, FinishBundle, ReturnBundle, SameStores, owners
  <2>3. c \notin Busy /\ ~AtWork(c)
    BY <2>1 DEF Busy, Writing, Rebuilding, AtWork
  <2>4. LoneRebuilds'
    BY <1>0, <2>1, <2>2, <2>3, OtherLone
  <2> QED
    BY <1>0, <2>1, <2>2, <2>3, <2>4, ContinueCalm
<1>12. CASE Restart
  <2>1. LoneRebuilds'
    BY <1>12, RestartTyped, IdleIsCall DEF LoneRebuilds, Rebuilding
  <2> QED
    BY <1>0, <1>12, <2>1, RestartCalm
<1>13. ASSUME UNCHANGED <<canonical, ingested, index, calls, calm>> PROVE (calm' => Calm') /\ LoneRebuilds'
  <2>1. Busy' = Busy /\ SameStores /\ \A c \in Calls : /\ Writing(c)' <=> Writing(c)
                                                       /\ Rebuilding(c)' <=> Rebuilding(c)
    BY <1>13 DEF Busy, Writing, Rebuilding, SameStores
  <2>2. LoneRebuilds'
    BY <1>0, <1>13, <2>1, LoneBesides
  <2> QED
    BY <1>0, <1>13, <2>1, <2>2, CalmSame
<1>14. ASSUME NEW a \in Artifacts, DamageBlob(a) PROVE (calm' => Calm') /\ LoneRebuilds'
  BY <1>13, <1>14 DEF DamageBlob
<1>15. CASE UNCHANGED vars
  BY <1>13, <1>15 DEF vars, owners
<1> QED
  BY <1>1, <1>2, <1>3, <1>4, <1>5, <1>6, <1>7, <1>8, <1>9, <1>10, <1>11, <1>12, <1>14, <1>15
     DEF Next, Write, Rebuild

LEMMA CalmInit == Init => CalmInv
<1> SUFFICES ASSUME Init PROVE CalmInv
  OBVIOUS
<1>1. index = <<>> /\ ingested = {} /\ (\A c \in Calls : calls[c] = Idle) /\ Range(index) = {}
  BY DEF Init, Range
<1>2. Present = {}
  BY <1>1 DEF Init, Present, Live
<1>3. \A c \in Calls : ~Writing(c) /\ ~Rebuilding(c) /\ calls[c].pc = "idle"
  BY <1>1, IdleIsCall DEF Writing, Rebuilding
<1>4. Busy = {} /\ DistinctIds /\ LoneRebuilds
  BY <1>1, <1>3 DEF Busy, DistinctIds, LoneRebuilds
<1>5. \A s \in Sources : RecordsOf(s) = {}
  BY <1>1 DEF RecordsOf
<1>6. Calm
  BY <1>2, <1>3, <1>4, <1>5 DEF Calm, CalmCall
<1> QED
  BY <1>4, <1>6 DEF CalmInv

(* When no writer runs on an undisturbed index, each source has its record.  *)
LEMMA AllExact ==
  ASSUME Typed, CalmInv, calm, Busy = {}
  PROVE  \A s \in Present : Exact(s)
<1>1. \A c \in Calls : ~AtWork(c)
  BY DEF Busy, Writing, AtWork
<1> QED
  BY <1>1 DEF CalmInv, Calm, InWork

LEMMA PossiblyStaleNever ==
  ASSUME Typed, CalmInv, calm, Busy = {}
  PROVE  ~possiblyStale
<1> DEFINE g == [i \in DOMAIN index |-> index[i].src]
<1>1. index \in Seq(Stored) /\ Len(index) \in Nat /\ DOMAIN index = 1..Len(index)
  BY DEF Typed
<1>2. \A i \in DOMAIN index : index[i] \in Range(index) /\ index[i].src \in Sources
  BY <1>1, UnnumberedIs DEF Range
<1>3. \A i \in DOMAIN index : index[i].src \in Present /\ index[i] \in RecordsOf(index[i].src)
  BY <1>2 DEF CalmInv, Calm, RecordsOf
<1>4. \A i, j \in DOMAIN index : index[i].src = index[j].src => i = j
  <2> SUFFICES ASSUME NEW i \in DOMAIN index, NEW j \in DOMAIN index, index[i].src = index[j].src PROVE i = j
    OBVIOUS
  <2>1. PICK r : RecordsOf(index[i].src) = {r}
    BY <1>3, AllExact DEF Exact
  <2>2. index[i] = r /\ index[j] = r
    BY <1>3, <2>1
  <2> QED
    BY <2>2 DEF CalmInv, DistinctIds
<1>5. \A s \in Present : \E i \in DOMAIN index : index[i].src = s
  BY AllExact DEF Exact, RecordsOf, Range
<1>6. g \in Bijection(DOMAIN index, Present)
  <2>1. g \in [DOMAIN index -> Present] /\ \A i \in DOMAIN index : g[i] = index[i].src
    BY <1>3
  <2> HIDE DEF g
  <2>2. \A i, j \in DOMAIN index : g[i] = g[j] => i = j
    BY <1>4, <2>1
  <2>3. \A s \in Present : \E i \in DOMAIN index : g[i] = s
    BY <1>5, <2>1
  <2> QED
    BY <2>1, <2>2, <2>3 DEF Bijection, Injection, Surjection, IsInjective
<1>7. ExistsBijection(DOMAIN index, Present)
  BY <1>6 DEF ExistsBijection
<1>8. IsFiniteSet(DOMAIN index) /\ Cardinality(DOMAIN index) = Len(index)
  <2>1. \A n \in Nat : IsFiniteSet(1..n) /\ Cardinality(1..n) = n
    <3>1. TAKE n \in Nat
    <3>2. 1 \in Int /\ n \in Int /\ (1 > n => n = 0) /\ n - 1 + 1 = n
      OBVIOUS
    <3>3. IsFiniteSet(1..n) /\ Cardinality(1..n) = IF 1 > n THEN 0 ELSE n - 1 + 1
      BY <3>2, FS_Interval
    <3> QED
      BY <3>2, <3>3
  <2>2. Len(index) \in Nat
    BY <1>1
  <2>3. IsFiniteSet(1..Len(index)) /\ Cardinality(1..Len(index)) = Len(index)
    BY <2>1, <2>2
  <2> QED
    BY <1>1, <2>3
<1>9. Cardinality(Present) = Len(index)
  BY <1>7, <1>8, FS_Bijection
<1>10. IsFiniteSet(Live) /\ IsFiniteSet(ingested)
  BY OwnersAreNumbers
<1>11. Live \cap ingested = {}
  BY Sizes DEF Live, Typed
<1>12. /\ Cardinality(Live) \in Nat /\ Cardinality(ingested) \in Nat
       /\ Cardinality(Present) = Cardinality(Live) + Cardinality(ingested)
  <2>1. Cardinality(Live) \in Nat /\ Cardinality(ingested) \in Nat
    BY <1>10, FS_CardinalityType
  <2>2. Cardinality(Live \cup ingested) = Cardinality(Live) + Cardinality(ingested) - Cardinality(Live \cap ingested)
    BY <1>10, FS_Union
  <2>3. Cardinality(Live \cap ingested) = 0
    BY <1>11, FS_EmptySet
  <2>4. \A k, m \in Nat : k + m - 0 = k + m
    OBVIOUS
  <2>5. Cardinality(Live \cup ingested) = Cardinality(Live) + Cardinality(ingested)
    BY <2>1, <2>2, <2>3, <2>4
  <2> QED
    BY <2>1, <2>5 DEF Present
<1>13. Len(index) = Cardinality(Live) + Cardinality(ingested)
  BY <1>9, <1>12
<1> QED
  BY <1>13 DEF possiblyStale

LEMMA CalmIsExact == Typed /\ CalmInv => CalmIndexIsExact
<1> SUFFICES ASSUME Typed, CalmInv, calm, Busy = {}
             PROVE  /\ ~ possiblyStale
                    /\ \A e \in Live : \E r \in Range(index) : Unnumbered(r) = EntityImage(e, Latest(e))
                    /\ \A a \in ingested : \E r \in Range(index) : r.src = a
  BY DEF CalmIndexIsExact
<1>1. ASSUME NEW e \in Live PROVE \E r \in Range(index) : Unnumbered(r) = EntityImage(e, Latest(e))
  <2>1. e \in Present /\ e \in Entities
    BY DEF Present, Live
  <2>2. PICK r \in Range(index) : RecordsOf(e) = {r} /\ IsImage(Unnumbered(r))
    BY <2>1, AllExact DEF Exact
  <2>3. r.src = e /\ Unnumbered(r).src = r.src
    BY <2>2 DEF RecordsOf, Unnumbered
  <2> QED
    BY <2>1, <2>2, <2>3 DEF IsImage
<1>2. ASSUME NEW a \in ingested PROVE \E r \in Range(index) : r.src = a
  BY AllExact DEF Present, Exact, RecordsOf
<1> QED
  BY <1>1, <1>2, PossiblyStaleNever

(* Writers of different sources do not disturb one another, and a rebuild    *)
(* that ran alone makes the index exact whatever happened before.          *)
THEOREM CalmIndexIsExactAlways == Spec => []CalmIndexIsExact
<1>1. Init => Typed /\ HistoryKept /\ CalmInv
  BY TypedInit, HistoryInit, CalmInit
<1>2. Typed /\ HistoryKept /\ CalmInv /\ [Next]_vars => (Typed /\ HistoryKept /\ CalmInv)'
  BY TypedStep, HistoryStep, CalmStep
<1>3. Typed /\ CalmInv => CalmIndexIsExact
  BY CalmIsExact
<1> QED
  BY <1>1, <1>2, <1>3, PTL DEF Spec

-----------------------------------------------------------------------------
(* A retrieval that nothing joins is complete.                             *)
SameOwners == UNCHANGED <<canonical, ingested, events, index>>

LEMMA CompleteStays ==
  ASSUME SameOwners, NEW call, Complete(call)
  PROVE  Complete(call)'
<1>1. Present' = Present /\ Live' = Live /\ \A e \in Live : Latest(e)' = Latest(e)
  BY DEF SameOwners, Present, Live, Latest
<1>2. \A i \in DOMAIN call.page : IsImage(call.page[i])'
  BY DEF Complete, SameOwners, IsImage, EntityImage, Latest
<1>3. \A q : AskedFor(q)' = AskedFor(q)
  BY DEF SameOwners, AskedFor
<1> QED
  BY <1>1, <1>2, <1>3 DEF Complete, SameOwners, ToShow

(* A call that enters makes every retrieval one that is not alone.          *)
LEMMA EnterPlans ==
  ASSUME Typed, NEW c \in Calls, NEW call \in Call, Enter(c, call),
         call.pc \notin {"resolving", "tracing", "bundle"}
  PROVE  PlanInv'
<1>1. calls'[c] = call /\ \A d \in Calls : d # c => Kept(calls[d], calls'[d])
  BY EnterCalls
<1>2. \A d \in Calls : ~(Planning(d)' /\ calls'[d].alone)
  BY <1>1 DEF Planning, Kept
<1> QED
  BY <1>2 DEF PlanInv

(* A busy call leaves no retrieval alone.                                  *)
LEMMA BusyPlans ==
  ASSUME Typed, PlanInv, NEW c \in Busy, NEW call \in Call, Continue(c, call),
         call.pc \notin {"resolving", "tracing", "bundle"}
  PROVE  PlanInv'
<1>1. c \in Calls
  BY DEF Busy
<1>2. calls'[c] = call /\ \A d \in Calls : d # c => calls'[d] = calls[d]
  BY <1>1, TypedContinue
<1>3. \A d \in Calls : ~(Planning(d) /\ calls[d].alone)
  BY DEF PlanInv
<1>4. \A d \in Calls : ~(Planning(d)' /\ calls'[d].alone)
  BY <1>2, <1>3 DEF Planning
<1> QED
  BY <1>4 DEF PlanInv

LEMMA QuietPlans ==
  ASSUME Typed, Typed', PlanInv, SameOwners, calm' = calm, Busy' = Busy,
         \A d \in Calls : Planning(d)' /\ calls'[d].alone =>
           calls'[d] = calls[d] \/ (calm /\ Busy = {} /\ Complete(calls'[d]))
  PROVE  PlanInv'
<1>1. ASSUME NEW d \in Calls, NEW now \in Call, now = calls'[d], Planning(d)', now.alone
      PROVE  calm' /\ Busy' = {} /\ Complete(now)'
  <2>1. calm /\ Busy = {} /\ Complete(now)
    BY <1>1 DEF PlanInv, Planning
  <2> QED
    BY <2>1, CompleteStays
<1>2. ASSUME NEW d \in Calls, Planning(d)', calls'[d].alone
      PROVE  calm' /\ Busy' = {} /\ Complete(calls[d])'
  <2>1. PICK now \in Call : now = calls'[d]
    BY DEF Typed
  <2>2. calm' /\ Busy' = {} /\ Complete(now)'
    BY <1>1, <1>2, <2>1
  <2> QED
    BY <2>1, <2>2 DEF Complete, ToShow
<1> QED
  BY <1>2 DEF PlanInv

LEMMA ContinuePlans ==
  ASSUME Typed, Typed', PlanInv, NEW c \in Calls, NEW call \in Call, Continue(c, call),
         c \notin Busy, call.pc \in {"idle", "resolving", "tracing", "bundle"},
         SameOwners, calm' = calm,
         call.pc # "idle" /\ call.alone => calm /\ Busy = {} /\ Complete(call)
  PROVE  PlanInv'
<1>1. calls'[c] = call /\ \A d \in Calls : d # c => calls'[d] = calls[d]
  BY TypedContinue
<1>2. \A d \in Calls : (Writing(d) \/ Rebuilding(d))' <=> (Writing(d) \/ Rebuilding(d))
  BY <1>1 DEF Busy, Writing, Rebuilding
<1>3. Busy' = Busy
  BY <1>2 DEF Busy
<1>4. ASSUME NEW d \in Calls, Planning(d)', calls'[d].alone
      PROVE  calls'[d] = calls[d] \/ (calm /\ Busy = {} /\ Complete(calls'[d]))
  BY <1>1, <1>4 DEF Planning
<1> QED
  BY <1>3, <1>4, QuietPlans

(* What an undisturbed index holds: each source once, as it is.             *)
LEMMA IndexedOnce ==
  ASSUME Typed, CalmInv, calm, Busy = {}
  PROVE  /\ \A i \in DOMAIN index :
              /\ index[i] \in Stored /\ index[i] \in Range(index) /\ index[i].src \in Present
              /\ Unnumbered(index[i]).src = index[i].src /\ Unnumbered(index[i]).text = index[i].text
              /\ Unnumbered(index[i]).meta = index[i].meta
              /\ IsImage(Unnumbered(index[i]))
         /\ \A i, j \in DOMAIN index : index[i].src = index[j].src => i = j
         /\ \A s \in Present : \E i \in DOMAIN index : index[i].src = s
<1>1. ASSUME NEW i \in DOMAIN index
      PROVE  /\ index[i] \in Stored /\ index[i] \in Range(index) /\ index[i].src \in Present
             /\ Unnumbered(index[i]).src = index[i].src /\ Unnumbered(index[i]).text = index[i].text
             /\ Unnumbered(index[i]).meta = index[i].meta
             /\ IsImage(Unnumbered(index[i])) /\ RecordsOf(index[i].src) = {index[i]}
  <2>1. index[i] \in Stored /\ index[i] \in Range(index)
    BY DEF Typed, Range
  <2>2. /\ Unnumbered(index[i]).src = index[i].src /\ Unnumbered(index[i]).text = index[i].text
        /\ Unnumbered(index[i]).meta = index[i].meta /\ index[i].src \in Sources
    BY <2>1, UnnumberedIs
  <2>3. index[i] \in RecordsOf(index[i].src)
    BY <2>1 DEF RecordsOf
  <2>4. index[i].src \in Present
    BY <2>2, <2>3 DEF CalmInv, Calm
  <2>5. PICK r \in Range(index) : RecordsOf(index[i].src) = {r} /\ IsImage(Unnumbered(r))
    BY <2>4, AllExact DEF Exact
  <2>6. index[i] = r
    BY <2>3, <2>5
  <2> QED
    BY <2>1, <2>2, <2>4, <2>5, <2>6
<1>2. ASSUME NEW i \in DOMAIN index, NEW j \in DOMAIN index, index[i].src = index[j].src PROVE i = j
  <2>1. index[i] = index[j]
    BY <1>1, <1>2
  <2> QED
    BY <2>1 DEF CalmInv, DistinctIds
<1>3. \A s \in Present : \E i \in DOMAIN index : index[i].src = s
  BY AllExact DEF Exact, RecordsOf, Range
<1> QED
  BY <1>1, <1>2, <1>3

LEMMA PositionsCounted == \A n \in Nat : IsFiniteSet(1..n) /\ Cardinality(1..n) = n
<1>1. TAKE n \in Nat
<1>2. 1 \in Int /\ n \in Int /\ (1 > n => n = 0) /\ n - 1 + 1 = n
  OBVIOUS
<1>3. IsFiniteSet(1..n) /\ Cardinality(1..n) = IF 1 > n THEN 0 ELSE n - 1 + 1
  BY <1>2, FS_Interval
<1> QED
  BY <1>2, <1>3

(* Different things have as many different names.                           *)
LEMMA AsManyNames ==
  ASSUME NEW S, IsFiniteSet(S), NEW f, DOMAIN f = S, \A x, y \in S : f[x] = f[y] => x = y
  PROVE  Cardinality({f[x] : x \in S}) = Cardinality(S) /\ IsFiniteSet({f[x] : x \in S})
<1> DEFINE T == {f[x] : x \in S}
           g == [x \in S |-> f[x]]
<1>1. g \in [S -> T] /\ \A x \in S : g[x] = f[x]
  OBVIOUS
<1>2. \A x, y \in S : g[x] = g[y] => x = y
  BY <1>1
<1>3. \A t \in T : \E x \in S : g[x] = t
  BY <1>1
<1> HIDE DEF g, T
<1>4. g \in Bijection(S, T)
  BY <1>1, <1>2, <1>3 DEF Bijection, Injection, Surjection, IsInjective
<1>5. ExistsBijection(S, T)
  BY <1>4 DEF ExistsBijection
<1>6. IsFiniteSet(T) /\ Cardinality(T) = Cardinality(S)
  BY <1>5, FS_Bijection
<1> QED
  BY <1>6 DEF T

(* What it has under a query: as many sources as hits.                      *)
LEMMA AskedForHits ==
  ASSUME Typed, CalmInv, calm, Busy = {}, NEW q
  PROVE  /\ AskedFor(q) = {index[i].src : i \in Hits(q)}
         /\ Cardinality(AskedFor(q)) = Cardinality(Hits(q))
<1> DEFINE f == [i \in Hits(q) |-> index[i].src]
<1>1. AskedFor(q) = {index[i].src : i \in Hits(q)}
  BY DEF AskedFor, Hits, Range
<1>2. \A i \in Hits(q) : i \in DOMAIN index
  BY DEF Hits
<1>3. \A i, j \in Hits(q) : f[i] = f[j] => i = j
  BY <1>2, IndexedOnce
<1>4. AskedFor(q) = {f[i] : i \in Hits(q)} /\ DOMAIN f = Hits(q)
  BY <1>1
<1>5. IsFiniteSet(Hits(q))
  BY Searched
<1> HIDE DEF f, Hits
<1>6. Cardinality({f[i] : i \in Hits(q)}) = Cardinality(Hits(q))
  BY <1>3, <1>4, <1>5, AsManyNames
<1> QED
  BY <1>1, <1>4, <1>6

(* A page of it shows different sources, all of them or as many as it may.  *)
LEMMA PageExact ==
  ASSUME Typed, CalmInv, calm, Busy = {}, NEW q, NEW page \in Pages(search(q))
  PROVE  LET shown == {page[n].src : n \in DOMAIN page} IN
         /\ \A n \in DOMAIN page : page[n].src \in Present /\ IsImage(page[n])
         /\ shown \subseteq AskedFor(q)
         /\ Cardinality(shown) = Smaller(PageLimit, Cardinality(AskedFor(q)))
<1>1. /\ page \in Seq(Image) /\ Len(page) = Smaller(PageLimit, Cardinality(Hits(q)))
      /\ \E at \in [DOMAIN page -> Hits(q)] :
           /\ \A m, n \in DOMAIN page : at[m] = at[n] => m = n
           /\ \A n \in DOMAIN page : page[n] = Unnumbered(index[at[n]])
  BY PagesAre
<1>2. PICK at \in [DOMAIN page -> Hits(q)] :
           /\ \A m, n \in DOMAIN page : at[m] = at[n] => m = n
           /\ \A n \in DOMAIN page : page[n] = Unnumbered(index[at[n]])
  BY <1>1
<1>3. \A n \in DOMAIN page : at[n] \in Hits(q) /\ at[n] \in DOMAIN index
  BY <1>2 DEF Hits
<1>4. \A n \in DOMAIN page : page[n].src = index[at[n]].src /\ page[n].src \in Present /\ IsImage(page[n])
  BY <1>2, <1>3, IndexedOnce
<1> DEFINE shown == {page[n].src : n \in DOMAIN page}
           f == [n \in DOMAIN page |-> page[n].src]
<1>5. shown \subseteq AskedFor(q)
  BY <1>3, <1>4, AskedForHits
<1>6. \A m, n \in DOMAIN page : f[m] = f[n] => m = n
  BY <1>2, <1>3, <1>4, IndexedOnce
<1>7. Len(page) \in Nat /\ DOMAIN page = 1..Len(page)
  BY <1>1
<1>8. IsFiniteSet(DOMAIN page) /\ Cardinality(DOMAIN page) = Len(page)
  BY <1>7, PositionsCounted
<1>9. shown = {f[n] : n \in DOMAIN page} /\ DOMAIN f = DOMAIN page
  OBVIOUS
<1> HIDE DEF f
<1>10. Cardinality({f[n] : n \in DOMAIN page}) = Cardinality(DOMAIN page)
  BY <1>6, <1>8, <1>9, AsManyNames
<1>11. Cardinality(shown) = Len(page)
  BY <1>8, <1>9, <1>10
<1> HIDE DEF shown
<1>12. Cardinality(shown) = Smaller(PageLimit, Cardinality(AskedFor(q)))
  BY <1>1, <1>11, AskedForHits
<1> QED
  BY <1>4, <1>5, <1>12 DEF shown

LEMMA PlanPlans ==
  ASSUME Typed, Typed', CalmInv, PlanInv, NEW c \in Calls, Plan(c)
  PROVE  PlanInv'
<1>1. PICK call \in Call :
        /\ calls[c] = Idle /\ call \in Planner /\ call.pc = "resolving" /\ call.page \in Pages(search(call.query))
        /\ call.resolved = {} /\ call.missing = {}
        /\ call.alone = (calm /\ Busy = {}) /\ Continue(c, call)
  BY PlanTyped
<1>2. c \notin Busy
  BY <1>1, BusyIs
<1>3. SameOwners /\ calm' = calm
  BY DEF Plan, SameOwners, owners
<1>4. ASSUME call.alone PROVE calm /\ Busy = {} /\ Complete(call)
  <2>1. calm /\ Busy = {}
    BY <1>1, <1>4
  <2>2. PICK page : page = call.page
    OBVIOUS
  <2> DEFINE q == call.query
  <2>5. page \in Pages(search(q))
    BY <1>1, <2>2
  <2> HIDE DEF q
  <2>6. /\ \A n \in DOMAIN page : page[n].src \in Present /\ IsImage(page[n])
        /\ {page[n].src : n \in DOMAIN page} \subseteq AskedFor(q)
        /\ Cardinality({page[n].src : n \in DOMAIN page}) = Smaller(PageLimit, Cardinality(AskedFor(q)))
    BY <2>1, <2>5, PageExact
  <2>3. /\ \A n \in DOMAIN page : page[n].src \in Present /\ IsImage(page[n])
        /\ {page[n].src : n \in DOMAIN page} \subseteq AskedFor(call.query)
        /\ Cardinality({page[n].src : n \in DOMAIN page}) = Smaller(PageLimit, Cardinality(AskedFor(call.query)))
    BY <2>6 DEF q
  <2>4. ToShow(call) = {page[n].src : n \in DOMAIN page}
    BY <1>1, <2>2 DEF ToShow
  <2> QED
    BY <1>1, <2>1, <2>2, <2>3, <2>4 DEF Complete
<1> QED
  BY <1>1, <1>2, <1>3, <1>4, ContinuePlans

LEMMA ResolvePlans ==
  ASSUME Typed, Typed', PlanInv, NEW c \in Calls, Resolve(c)
  PROVE  PlanInv'
<1> DEFINE b == calls[c]
           r == Head(b.page)
<1>1. b \in Planner /\ b.pc = "resolving" /\ b.page # <<>> /\ r \in Image
  BY ResolveTyped
<1>2. PICK call \in Call :
        /\ call \in Planner /\ Continue(c, call)
        /\ call.query = b.query /\ call.resolved = b.resolved /\ call.alone = b.alone
        /\ \/ /\ VersionOf(r.src) > 0 /\ call.pc = "tracing" /\ call.got = <<Found(r)>>
              /\ call.page = b.page /\ call.missing = b.missing
           \/ ~(VersionOf(r.src) > 0) /\ call.pc = "resolving"
  BY ResolveTyped
<1>3. c \notin Busy /\ Planning(c)
  BY <1>1, BusyIs DEF Planning
<1>4. SameOwners /\ calm' = calm
  BY DEF Resolve, SameOwners, owners
<1>5. ASSUME call.alone PROVE calm /\ Busy = {} /\ Complete(call)
  <2>1. calm /\ Busy = {} /\ Complete(b)
    BY <1>2, <1>3, <1>5 DEF PlanInv
  <2>2. r = b.page[1] /\ 1 \in DOMAIN b.page
    BY <1>1, PlannerFields, PageHead
  <2>3. r.src \in Present /\ IsImage(r) /\ r.src \in Sources
    BY <1>1, <2>1, <2>2 DEF Complete, Image
  <2>4. /\ call.pc = "tracing" /\ call.got[1] = Found(r) /\ call.page = b.page
        /\ call.missing = b.missing
    BY <1>2, <2>3, VersionIsNumber
  <2>5. r.src \in Entities => r.text = TextOf[Latest(r.src)]
    BY <2>3, ImagesAre DEF IsImage
  <2>6. ~call.got[1].indexStale /\ call.got[1].src = call.page[1].src
    BY <1>1, <2>2, <2>4, <2>5, FoundIs
  <2>7. ToShow(call) = ToShow(b)
    BY <1>2, <2>4 DEF ToShow
  <2> QED
    BY <1>2, <2>1, <2>4, <2>6, <2>7 DEF Complete
<1> QED
  BY <1>2, <1>3, <1>4, <1>5, ContinuePlans

LEMMA EventsPlans ==
  ASSUME Typed, Typed', PlanInv, NEW c \in Calls, ListEvents(c)
  PROVE  PlanInv'
<1> DEFINE b == calls[c]
           o == b.got[1]
<1>1. b \in Planner /\ b.pc = "tracing" /\ b.page # <<>> /\ o \in Got /\ events[o.src] \in Nat
  BY EventsTyped
<1>2. PICK call \in Call :
        /\ call \in Planner /\ Continue(c, call) /\ call.query = b.query /\ call.alone = b.alone
        /\ call.pc = "resolving" /\ call.page = Tail(b.page) /\ call.missing = b.missing
        /\ call.resolved = b.resolved \cup {Answered(o)}
  BY EventsTyped
<1>3. c \notin Busy /\ Planning(c)
  BY <1>1, BusyIs DEF Planning
<1>4. SameOwners /\ calm' = calm
  BY DEF ListEvents, SameOwners, owners
<1>5. ASSUME call.alone PROVE calm /\ Busy = {} /\ Complete(call)
  <2>1. calm /\ Busy = {} /\ Complete(b)
    BY <1>2, <1>3, <1>5 DEF PlanInv
  <2>2. ~o.indexStale /\ o.src = b.page[1].src
    BY <1>1, <2>1 DEF Complete
  <2>3. PICK shown : shown = Answered(o)
    OBVIOUS
  <2>4. ~shown.indexStale /\ shown.src = o.src /\ shown.provenance = events[shown.src]
    BY <1>1, <2>2, <2>3, AnsweredIs
  <2>5. call.resolved = b.resolved \cup {shown}
    BY <1>2, <2>3
  <2>6. \A x \in call.resolved : ~x.indexStale /\ x.provenance = events[x.src]
    BY <2>1, <2>4, <2>5 DEF Complete
  <2>7. /\ \A i \in DOMAIN call.page : i + 1 \in DOMAIN b.page /\ call.page[i] = b.page[i + 1]
        /\ \A i \in DOMAIN b.page : i # 1 => \E j \in DOMAIN call.page : call.page[j] = b.page[i]
    BY <1>1, <1>2, PlannerFields, PageHead
  <2>8. \A i \in DOMAIN call.page : call.page[i].src \in Present /\ IsImage(call.page[i])
    BY <2>1, <2>7 DEF Complete
  <2>9. ToShow(call) = ToShow(b)
    <3>1. 1 \in DOMAIN b.page
      BY <1>1, PlannerFields, PageHead
    <3>2. \A s \in ToShow(b) : s \in ToShow(call)
      BY <2>2, <2>4, <2>5, <2>7 DEF ToShow
    <3>3. \A s \in ToShow(call) : s \in ToShow(b)
      BY <2>2, <2>4, <2>5, <2>7, <3>1 DEF ToShow
    <3> QED
      BY <3>2, <3>3
  <2> QED
    BY <1>2, <2>1, <2>6, <2>8, <2>9 DEF Complete
<1> QED
  BY <1>2, <1>3, <1>4, <1>5, ContinuePlans

LEMMA FinishPlans ==
  ASSUME Typed, Typed', PlanInv, NEW c \in Calls, FinishBundle(c)
  PROVE  PlanInv'
<1> DEFINE b == calls[c]
<1>1. b \in Planner /\ b.pc = "resolving" /\ b.page = <<>>
  BY FinishTyped
<1>2. PICK call \in Call :
        /\ Continue(c, call) /\ call.pc = "bundle" /\ call.query = b.query /\ call.page = b.page
        /\ call.resolved = b.resolved /\ call.missing = b.missing /\ call.alone = b.alone
  BY FinishTyped
<1>3. c \notin Busy /\ Planning(c)
  BY <1>1, BusyIs DEF Planning
<1>4. SameOwners /\ calm' = calm
  BY DEF FinishBundle, SameOwners, owners
<1>5. ASSUME call.alone PROVE calm /\ Busy = {} /\ Complete(call)
  <2>1. calm /\ Busy = {} /\ Complete(b)
    BY <1>2, <1>3, <1>5 DEF PlanInv
  <2>2. ToShow(call) = ToShow(b)
    BY <1>2 DEF ToShow
  <2> QED
    BY <1>1, <1>2, <2>1, <2>2 DEF Complete
<1> QED
  BY <1>2, <1>3, <1>4, <1>5, ContinuePlans

LEMMA PlanStep ==
  ASSUME Typed, CalmInv, PlanInv, [Next]_vars
  PROVE  PlanInv'
<1>0. Typed'
  BY TypedStep
<1>1. ASSUME NEW c \in Calls, CreateEntity(c) \/ UpdateEntity(c) \/ IngestArtifact(c) \/ ListEntities(c)
      PROVE  PlanInv'
  <2>1. PICK call \in Call : Enter(c, call) /\ call.pc \in {"indexing", "searching", "listing", "idle"}
    <3>1. CASE CreateEntity(c)
      <4>1. PICK v \in Values, call \in Call :
              /\ \/ call = [pc |-> "indexing", src |-> born + 1, image |-> EntityImage(born + 1, v)]
                 \/ call = Idle
              /\ Enter(c, call)
        BY <3>1, CreateTyped
      <4> QED
        BY <4>1, IdleIsCall
    <3>2. CASE UpdateEntity(c)
      <4>1. PICK e \in Live, v \in Values, call \in Call :
              /\ \/ call = [pc |-> "searching", src |-> e, image |-> EntityImage(e, v)]
                 \/ call = Idle
              /\ Enter(c, call)
        BY <3>2, UpdateTyped
      <4> QED
        BY <4>1, IdleIsCall
    <3>3. CASE IngestArtifact(c)
      BY <3>3, IngestTyped
    <3>4. CASE ListEntities(c)
      BY <3>4, ListTyped
    <3> QED
      BY <1>1, <3>1, <3>2, <3>3, <3>4
  <2> QED
    BY <2>1, EnterPlans
<1>2. ASSUME NEW c \in Calls, \/ SearchStale(c) \/ RemoveStale(c) \/ IndexImage(c) \/ RecordEvent(c)
                              \/ ListArtifacts(c) \/ ReadContents(c) \/ SwapIndex(c)
      PROVE  PlanInv'
  <2>1. PICK call \in Call : Continue(c, call) /\ call.pc \in {"removing", "recording", "reading", "replacing", "idle"}
    BY <1>2, SearchTyped, RemoveTyped, IndexTyped, RecordTyped, ListArtifactsTyped, ReadTyped, SwapTyped,
       IdleIsCall
  <2>2. c \in Busy
    BY <1>2 DEF Busy, Writing, Rebuilding, SearchStale, RemoveStale, IndexImage, RecordEvent, ListArtifacts,
                ReadContents, SwapIndex
  <2> QED
    BY <2>1, <2>2, BusyPlans
<1>3. ASSUME NEW c \in Calls, ReturnBundle(c) PROVE PlanInv'
  <2>1. calls[c].pc = "bundle" /\ Continue(c, Idle) /\ Idle \in Call /\ Idle.pc = "idle"
    BY <1>3, ReturnTyped, IdleIsCall
  <2>2. c \notin Busy /\ SameOwners /\ calm' = calm
    BY <1>3, <2>1 DEF Busy, Writing, Rebuilding, ReturnBundle, SameOwners, owners
  <2> QED
    BY <1>0, <2>1, <2>2, ContinuePlans
<1>4. CASE Restart
  BY <1>4, RestartTyped, IdleIsCall DEF PlanInv, Planning
<1>5. ASSUME UNCHANGED <<canonical, ingested, events, index, calls, calm>> PROVE PlanInv'
  <2>1. SameOwners /\ calm' = calm /\ Busy' = Busy /\ \A d \in Calls : calls'[d] = calls[d]
    BY <1>5 DEF SameOwners, Busy, Writing, Rebuilding
  <2> QED
    BY <1>0, <2>1, QuietPlans
<1>6. ASSUME NEW a \in Artifacts, DamageBlob(a) PROVE PlanInv'
  BY <1>5, <1>6 DEF DamageBlob
<1>7. CASE UNCHANGED vars
  BY <1>5, <1>7 DEF vars, owners
<1> QED
  BY <1>0, <1>1, <1>2, <1>3, <1>4, <1>6, <1>7, PlanPlans, ResolvePlans, EventsPlans, FinishPlans
     DEF Next, Write, Rebuild, Retrieve

(* The entities an undisturbed index has under a query read as asked.        *)
LEMMA AskedEntities ==
  ASSUME Typed, CalmInv, calm, Busy = {}, NEW q
  PROVE  AskedFor(q) \cap Entities = {e \in Live : Matches(EntityImage(e, Latest(e)), q)}
<1>1. ASSUME NEW i \in DOMAIN index, index[i].src \in Entities
      PROVE  /\ index[i].src \in Live
             /\ Matches(index[i], q) <=> Matches(EntityImage(index[i].src, Latest(index[i].src)), q)
  <2>1. /\ index[i].src \in Present /\ Unnumbered(index[i]) = EntityImage(index[i].src, Latest(index[i].src))
        /\ Unnumbered(index[i]).text = index[i].text /\ Unnumbered(index[i]).meta = index[i].meta
    BY <1>1, IndexedOnce DEF IsImage
  <2>2. index[i].src \in Live
    BY <1>1, <2>1, Sizes DEF Present, Typed
  <2>3. /\ EntityImage(index[i].src, Latest(index[i].src)).text = index[i].text
        /\ EntityImage(index[i].src, Latest(index[i].src)).meta = index[i].meta
    BY <2>1
  <2> QED
    BY <2>2, <2>3 DEF Matches
<1>2. ASSUME NEW e \in AskedFor(q), e \in Entities
      PROVE  e \in Live /\ Matches(EntityImage(e, Latest(e)), q)
  <2>1. PICK i \in DOMAIN index : Matches(index[i], q) /\ index[i].src = e
    BY DEF AskedFor, Range
  <2> QED
    BY <1>1, <1>2, <2>1
<1>3. ASSUME NEW e \in Live, Matches(EntityImage(e, Latest(e)), q)
      PROVE  e \in AskedFor(q) /\ e \in Entities
  <2>1. e \in Present /\ e \in Entities
    BY DEF Present, Live
  <2>2. PICK i \in DOMAIN index : index[i].src = e
    BY <2>1, IndexedOnce
  <2>3. Matches(index[i], q)
    BY <1>1, <1>3, <2>1, <2>2
  <2> QED
    BY <2>1, <2>2, <2>3 DEF AskedFor, Range
<1> QED
  BY <1>2, <1>3

LEMMA PlanIsComplete == Typed /\ CalmInv /\ PlanInv => CalmBundleIsComplete
<1> SUFFICES ASSUME Typed, CalmInv, PlanInv, NEW c \in Calls, NEW b \in Call, b = calls[c], b.pc = "bundle", b.alone
             PROVE  /\ b.missing = {}
                    /\ assessFreshness(b).staleCount = 0
                    /\ {o.src : o \in b.resolved} \subseteq AskedFor(b.query)
                    /\ Cardinality({o.src : o \in b.resolved}) = Smaller(PageLimit, Cardinality(AskedFor(b.query)))
                    /\ AskedFor(b.query) \cap Entities
                          = {e \in Live : Matches(EntityImage(e, Latest(e)), b.query)}
                    /\ allFresh(b) <=> \A o \in b.resolved : events[o.src] > 0
  BY DEF CalmBundleIsComplete, Typed
<1>1. Complete(b) /\ calm /\ Busy = {}
  BY DEF PlanInv, Planning
<1>2. b.missing = {} /\ b.page = <<>>
  BY <1>1 DEF Complete
<1>3. \A o \in b.resolved : ~o.indexStale /\ o.provenance = events[o.src] /\ o \in Shown
  BY <1>1, Forms, PlannerFields DEF Complete
<1>4. \A o \in b.resolved : events[o.src] \in Nat
  BY <1>3 DEF Shown, Typed
<1>5. ToShow(b) = {o.src : o \in b.resolved}
  BY <1>2, Forms, PlannerFields DEF ToShow
<1>12. /\ {o.src : o \in b.resolved} \subseteq AskedFor(b.query)
       /\ Cardinality({o.src : o \in b.resolved}) = Smaller(PageLimit, Cardinality(AskedFor(b.query)))
  BY <1>1, <1>5 DEF Complete
<1>13. AskedFor(b.query) \cap Entities = {e \in Live : Matches(EntityImage(e, Latest(e)), b.query)}
  BY <1>1, AskedEntities
<1> DEFINE stale == {o \in b.resolved : o.indexStale}
           bare  == {o \in b.resolved : o.provenance = 0}
<1>6. stale = {} /\ Cardinality(stale) = 0
  BY <1>3, FS_EmptySet
<1>7. Cardinality(bare) = 0 <=> bare = {}
  <2>1. IsFiniteSet(b.resolved)
    BY Forms DEF Sound
  <2>2. IsFiniteSet(bare)
    BY <2>1, FS_Subset
  <2> QED
    BY <2>2, FS_EmptySet
<1>8. bare = {} <=> \A o \in b.resolved : events[o.src] > 0
  BY <1>3, <1>4
<1>9. /\ assessFreshness(b) = [staleCount |-> 0, unprovenanced |-> Cardinality(bare)]
      /\ assessFreshness(b).unprovenanced = Cardinality(bare)
  BY <1>6 DEF assessFreshness
<1> HIDE DEF bare
<1>10. allFresh(b) <=> Cardinality(bare) = 0
  <2>1. allFresh(b) => assessFreshness(b).unprovenanced = 0
    BY DEF allFresh
  <2>2. Cardinality(bare) = 0 => allFresh(b)
    BY <1>9 DEF allFresh
  <2> QED
    BY <1>9, <2>1, <2>2
<1>11. assessFreshness(b).staleCount = 0
  BY <1>9
<1> QED
  BY <1>2, <1>7, <1>8, <1>10, <1>11, <1>12, <1>13

(* A retrieval that no writer joins, on an undisturbed index, shows as many  *)
(* of the objects under its query as its limit allows, nothing missing or    *)
(* stale, and says so exactly when each of its objects has an event.         *)
THEOREM CalmBundleIsCompleteAlways == Spec => []CalmBundleIsComplete
<1>1. Init => Typed /\ HistoryKept /\ CalmInv /\ PlanInv
  BY TypedInit, HistoryInit, CalmInit, IdleIsCall DEF Init, PlanInv, Planning
<1>2. Typed /\ HistoryKept /\ CalmInv /\ PlanInv /\ [Next]_vars => (Typed /\ HistoryKept /\ CalmInv /\ PlanInv)'
  BY TypedStep, HistoryStep, CalmStep, PlanStep
<1>3. Typed /\ CalmInv /\ PlanInv => CalmBundleIsComplete
  BY PlanIsComplete
<1> QED
  BY <1>1, <1>2, <1>3, PTL DEF Spec

-----------------------------------------------------------------------------
(* The reports beside the traces.                                          *)
LEMMA FirstHit ==
  ASSUME Typed, NEW q, Hits(q) # {}
  PROVE  /\ search(q) # <<>>
         /\ \E p \in Hits(q) : search(q)[1] = index[p] /\ \A i \in Hits(q) : p <= i
<1>1. /\ \A n \in DOMAIN search(q) : search(q)[n] = index[Place(Hits(q), n)]
      /\ \A i \in Hits(q) : \E n \in DOMAIN search(q) : Place(Hits(q), n) = i
      /\ search(q) \in Seq(Stored)
  BY Searched
<1>2. search(q) # <<>> /\ 1 \in DOMAIN search(q)
  <2>1. DOMAIN search(q) # {}
    BY <1>1
  <2>2. \A s \in Seq(Stored) : DOMAIN s # {} => s # <<>> /\ 1 \in DOMAIN s
    OBVIOUS
  <2> QED
    BY <1>1, <2>1, <2>2
<1>3. Len(index) \in Nat /\ Hits(q) \in SUBSET (1..Len(index)) /\ Hits(q) \in SUBSET Nat
  BY DEF Hits, Typed
<1> HIDE DEF Hits
<1>4. PICK p \in Hits(q) : \A i \in Hits(q) : p <= i
  BY <1>3, LeastExists
<1>5. Below(Hits(q), p) = {p}
  <2>1. \A i \in Hits(q) : i \in Nat /\ (i <= p => i = p)
    BY <1>3, <1>4
  <2> QED
    BY <1>4, <2>1 DEF Below
<1>6. Cardinality({p}) = 1
  BY FS_Singleton
<1>7. Place(Hits(q), 1) = p
  BY <1>3, <1>4, <1>5, <1>6, PlaceIs
<1> QED
  BY <1>1, <1>2, <1>4, <1>7

LEMMA NoHit ==
  ASSUME Typed, NEW q, Hits(q) = {}
  PROVE  search(q) = <<>>
<1>1. search(q) = Pick(index, {})
  BY DEF search, Hits
<1> QED
  BY <1>1, PickNone

(* An entity with a record of its present text is among the hits for it.     *)
LEMMA OwnTextHits ==
  ASSUME Typed, NEW e \in Live, NEW i \in DOMAIN index, index[i].text = TextOf[Latest(e)]
  PROVE  i \in Hits(TextOf[Latest(e)])
<1>1. TextOf[Latest(e)] \in Texts
  BY LatestIs DEF Texts
<1>2. <<index[i].text, TextOf[Latest(e)]>> \in InText
  BY <1>1, TextsContainThemselves
<1> QED
  BY <1>2 DEF Hits, Matches

(* An entity that is not reported missing has the first hit for its text:    *)
(* with this text, or outdated.                                             *)
LEMMA MissingOrHit ==
  ASSUME Typed, NEW e \in Live, e \notin missingFromIndex
  PROVE  \E p \in DOMAIN index : index[p].src = e
<1>1. search(TextOf[Latest(e)]) # <<>> /\ search(TextOf[Latest(e)])[1].src = e
  BY DEF missingFromIndex
<1>2. Hits(TextOf[Latest(e)]) # {}
  BY <1>1, NoHit
<1>3. PICK p \in Hits(TextOf[Latest(e)]) : search(TextOf[Latest(e)])[1] = index[p]
  BY <1>2, FirstHit
<1>4. p \in DOMAIN index
  BY DEF Hits
<1> QED
  BY <1>1, <1>3, <1>4

LEMMA StaleIsListed ==
  ASSUME NEW i \in DOMAIN index
  PROVE  /\ explainIndex(index[i]).stale <=> Outdated(index[i])
         /\ explainIndex(index[i]).sourceExists <=> VersionOf(index[i].src) > 0
         /\ i <= ReportLimit => (index[i] \in listStaleRecords <=> Outdated(index[i]))
<1>1. explainIndex(index[i]).stale <=> Outdated(index[i])
  BY DEF explainIndex
<1>2. explainIndex(index[i]).sourceExists <=> VersionOf(index[i].src) > 0
  BY DEF explainIndex
<1>3. i <= ReportLimit => index[i] \in Reported
  BY DEF Reported
<1> QED
  BY <1>1, <1>2, <1>3 DEF listStaleRecords

LEMMA EntityIsReported ==
  ASSUME Typed, NEW e \in Live, Len(index) <= ReportLimit
  PROVE  \/ \E r \in Range(index) : r.src = e /\ r.text = TextOf[Latest(e)]
         \/ e \in missingFromIndex
         \/ \E r \in listStaleRecords : r.src = e
<1>1. SUFFICES ASSUME e \notin missingFromIndex
      PROVE  \/ \E r \in Range(index) : r.src = e /\ r.text = TextOf[Latest(e)]
             \/ \E r \in listStaleRecords : r.src = e
  OBVIOUS
<1>2. PICK p \in DOMAIN index : index[p].src = e
  BY <1>1, MissingOrHit
<1>3. p <= ReportLimit
  <2>1. Len(index) \in Nat /\ p \in 1..Len(index) /\ ReportLimit \in Nat
    BY SizesAreNatural DEF Typed
  <2> QED
    BY <2>1
<1>4. e \in Entities /\ index[p] \in Range(index)
  BY DEF Live, Range
<1>5. index[p].text # TextOf[Latest(e)] => Outdated(index[p])
  BY <1>2, <1>4 DEF Outdated
<1> QED
  BY <1>2, <1>3, <1>4, <1>5, StaleIsListed

LEMMA StoredIs ==
  ASSUME Typed, NEW i \in DOMAIN index
  PROVE  index[i] \in Stored /\ index[i].src \in Sources /\ index[i].id \in Nat
<1>1. index[i] \in Stored
  BY DEF Typed
<1> QED
  BY <1>1, UnnumberedIs

LEMMA VersionPresent ==
  ASSUME Typed, NEW s \in Sources
  PROVE  VersionOf(s) \in Nat /\ (VersionOf(s) > 0 <=> s \in Present)
<1>1. CASE s \in Entities
  <2>1. canonical[s] \in Seq(Values) /\ VersionOf(s) = Len(canonical[s])
    BY <1>1 DEF Typed, VersionOf
  <2>2. \A q \in Seq(Values) : Len(q) \in Nat /\ (Len(q) > 0 <=> q # <<>>)
    OBVIOUS
  <2>3. s \notin ingested
    BY <1>1, Sizes DEF Typed
  <2> QED
    BY <1>1, <2>1, <2>2, <2>3 DEF Present, Live
<1>2. CASE s \notin Entities
  BY <1>2 DEF VersionOf, Present, Live
<1> QED
  BY <1>1, <1>2

LEMMA NothingOutdated ==
  ASSUME Typed, CalmInv, calm, Busy = {}, NEW i \in DOMAIN index
  PROVE  ~ Outdated(index[i]) /\ VersionOf(index[i].src) # 0
<1>1. /\ index[i].src \in Present /\ IsImage(Unnumbered(index[i]))
      /\ Unnumbered(index[i]).src = index[i].src /\ Unnumbered(index[i]).text = index[i].text
  BY IndexedOnce
<1>2. index[i].src \in Sources
  BY StoredIs
<1>3. index[i].src \in Entities => index[i].text = TextOf[Latest(index[i].src)]
  <2> SUFFICES ASSUME index[i].src \in Entities PROVE index[i].text = TextOf[Latest(index[i].src)]
    OBVIOUS
  <2>1. Unnumbered(index[i]) = EntityImage(index[i].src, Latest(index[i].src))
    BY <1>1 DEF IsImage
  <2>2. \A e, v : EntityImage(e, v).text = TextOf[v]
    BY DEF EntityImage
  <2> QED
    BY <1>1, <2>1, <2>2
<1>4. VersionOf(index[i].src) \in Nat /\ VersionOf(index[i].src) > 0
  BY <1>1, <1>2, VersionPresent
<1>5. VersionOf(index[i].src) # 0
  BY <1>4
<1> QED
  BY <1>3, <1>5 DEF Outdated

LEMMA NothingListed ==
  ASSUME Typed, CalmInv, calm, Busy = {}
  PROVE  listStaleRecords = {} /\ orphanRecords = {}
<1>1. \A r \in Reported : ~ Outdated(r)
  BY NothingOutdated DEF Reported
<1>2. \A r \in Range(index) : VersionOf(r.src) # 0
  BY NothingOutdated DEF Range
<1> QED
  BY <1>1, <1>2 DEF listStaleRecords, orphanRecords

(* The record of an entity is under its text; the first one there is either  *)
(* this record or one indexed before it.                                    *)
LEMMA MissingIsShadowed ==
  ASSUME Typed, CalmInv, calm, Busy = {}, NEW e \in Live
  PROVE  e \in missingFromIndex <=>
           \E i, j \in DOMAIN index :
               /\ i < j /\ index[j].src = e /\ index[i].src # e
               /\ Matches(index[i], TextOf[Latest(e)])
<1> DEFINE q == TextOf[Latest(e)]
<1>1. e \in Present /\ e \in Entities
  BY DEF Present, Live
<1>2. PICK own \in DOMAIN index : index[own].src = e
  BY <1>1, IndexedOnce
<1>3. index[own].text = q
  <2>1. ~ Outdated(index[own])
    BY NothingOutdated
  <2> QED
    BY <1>1, <1>2, <2>1 DEF Outdated
<1>4. own \in Hits(q)
  BY <1>3, OwnTextHits
<1> HIDE DEF q
<1>5. search(q) # <<>>
  BY <1>4, FirstHit
<1>6. PICK p \in Hits(q) : search(q)[1] = index[p] /\ \A i \in Hits(q) : p <= i
  BY <1>4, FirstHit
<1>7. p \in DOMAIN index /\ Matches(index[p], q)
  BY DEF Hits
<1>8. e \in missingFromIndex <=> index[p].src # e
  BY <1>5, <1>6 DEF missingFromIndex, q
<1>9. \A i \in DOMAIN index : i \in Nat
  BY DEF Typed
<1>10. \A i \in DOMAIN index : index[i].src = e => i = own
  BY <1>2, IndexedOnce
<1>11. ASSUME index[p].src # e
       PROVE  \E i, j \in DOMAIN index : i < j /\ index[j].src = e /\ index[i].src # e /\ Matches(index[i], q)
  <2>1. p <= own /\ p # own
    BY <1>2, <1>4, <1>6, <1>11
  <2>2. p < own
    BY <1>7, <1>9, <2>1
  <2> QED
    BY <1>2, <1>7, <1>11, <2>2
<1>12. ASSUME NEW i \in DOMAIN index, NEW j \in DOMAIN index, i < j,
              index[j].src = e, index[i].src # e, Matches(index[i], q)
       PROVE  index[p].src # e
  <2>1. i \in Hits(q)
    BY <1>12 DEF Hits
  <2>2. p <= i /\ j = own
    BY <1>6, <1>10, <1>12, <2>1
  <2>3. p # own
    BY <1>7, <1>9, <1>12, <2>2
  <2> QED
    BY <1>7, <1>10, <2>3
<1> QED
  BY <1>8, <1>11, <1>12 DEF q

(* What a trace reads of these stores.                                     *)
Shelved(i) == [id |-> index[i].id, source |-> Uri(index[i].src), stale |-> explainIndex(index[i]).stale, at |-> i]

LEMMA UriIs ==
  /\ \A s \in Entities : Uri(s)[1] = "canonical"
  /\ \A s : s \notin Entities => Uri(s)[1] = "artifact"
  /\ \A s : Uri(s)[2] = s /\ Uri(s)[1] \in Five /\ Uri(s)[1] # "index"
<1>1. \A s : Uri(s) = <<IF s \in Entities THEN "canonical" ELSE "artifact", s>>
  BY DEF Uri
<1>2. \A a, b : <<a, b>>[1] = a /\ <<a, b>>[2] = b
  OBVIOUS
<1>3. \A s : Uri(s)[1] = (IF s \in Entities THEN "canonical" ELSE "artifact") /\ Uri(s)[2] = s
  BY <1>1, <1>2
<1> QED
  BY <1>3 DEF Five

LEMMA StoresHold ==
  ASSUME Typed, DistinctIds
  PROVE  /\ StoresAre(Stores)
         /\ Stores.entities = Live /\ Stores.artifacts = ingested
         /\ Stores.events = {} /\ Stores.receipts = {}
         /\ Stores.index = {Shelved(i) : i \in DOMAIN index}
<1>1. /\ Stores.entities = Live /\ Stores.artifacts = ingested
      /\ Stores.events = {} /\ Stores.receipts = {}
      /\ Stores.index = {Shelved(i) : i \in DOMAIN index}
  BY DEF Stores, Shelved
<1>2. IsFiniteSet(Live) /\ IsFiniteSet(ingested) /\ IsFiniteSet({})
  BY OwnersAreNumbers, FS_EmptySet
<1>3. IsFiniteSet({Shelved(i) : i \in DOMAIN index})
  <2> DEFINE f == [i \in DOMAIN index |-> Shelved(i)]
  <2>1. IsFiniteSet(DOMAIN index)
    <3>1. index \in Seq(Stored) /\ Len(index) \in Nat /\ DOMAIN index = 1..Len(index)
      BY DEF Typed
    <3> QED
      BY <3>1, PositionsFinite
  <2>2. DOMAIN f = DOMAIN index /\ {f[i] : i \in DOMAIN index} = {Shelved(i) : i \in DOMAIN index}
    OBVIOUS
  <2> HIDE DEF f
  <2>3. IsFiniteSet({f[i] : i \in DOMAIN index})
    BY <2>1, <2>2, ImageIsFinite
  <2> QED
    BY <2>2, <2>3
<1>4. \A i : Shelved(i).id = index[i].id /\ Shelved(i).source = Uri(index[i].src)
  BY DEF Shelved
<1>5. \A i, j \in DOMAIN index : index[i].id = index[j].id => i = j
  BY DEF DistinctIds
<1>6. \A x, y \in {Shelved(i) : i \in DOMAIN index} : x.id = y.id => x = y
  BY <1>4, <1>5
<1>7. \A x \in {Shelved(i) : i \in DOMAIN index} : x.source[1] \in Five
  BY <1>4, UriIs
<1> QED
  BY <1>1, <1>2, <1>3, <1>6, <1>7 DEF StoresAre

LEMMA OptionsAre ==
  /\ \A d : /\ Options(d).depth = 10 /\ Options(d).includeIndex /\ ~ Options(d).includeReceipts
            /\ Options(d).direction = d
  /\ Backward(Options("backward")) /\ ~ Forward(Options("backward"))
  /\ ~ Backward(Options("forward")) /\ Forward(Options("forward"))
  BY DEF Options, Backward, Forward

LEMMA HeldIs ==
  ASSUME Typed, DistinctIds, NEW s \in Sources
  PROVE  /\ IsHeld(Stores, Uri(s)) <=> s \in Present
         /\ s \in Present => Uri(s) \in Objects(Stores)
<1>1. Stores.entities = Live /\ Stores.artifacts = ingested
  BY StoresHold
<1>2. s \in Entities => s \notin ingested
  BY Sizes DEF Typed
<1>3. s \notin Entities => s \notin Live
  BY DEF Live
<1>4. IsHeld(Stores, Uri(s)) <=> s \in Present
  BY <1>1, <1>2, <1>3, UriIs DEF IsHeld, Present
<1>5. \A x \in Live : <<"canonical", x>> \in Objects(Stores)
  BY <1>1 DEF Objects
<1>6. \A x \in ingested : <<"artifact", x>> \in Objects(Stores)
  BY <1>1 DEF Objects
<1>7. s \in Present => Uri(s) \in Objects(Stores)
  BY <1>2, <1>3, <1>5, <1>6 DEF Uri, Present
<1> QED
  BY <1>4, <1>7

(* Without events, a source leads nowhere, and a visit of it adds its own   *)
(* node and, forward, its records.                                         *)
LEMMA SourceIsTraced ==
  ASSUME Typed, DistinctIds, NEW s \in Present, NEW d \in {"backward", "forward"}
  PROVE  LET v == VisitOf(Stores, Options(d), Uri(s))
         IN /\ Members(Leads(NextOf(Stores, Options(d)), Uri(s))) = {}
            /\ d = "backward" => v.nodes = {Node(Uri(s))} /\ v.edges = {}
            /\ d = "forward" =>
                 v.nodes = {Node(Uri(s))} \cup {Node(<<"index", r.id>>) : r \in RecordsFrom(Stores, Uri(s))}
<1> DEFINE g == Stores
           o == Options(d)
           u == Uri(s)
           v == VisitOf(g, o, u)
<1>1. StoresAre(g) /\ g.entities = Live /\ g.artifacts = ingested /\ g.events = {} /\ g.receipts = {}
  BY StoresHold
<1>2. s \in Sources /\ (s \in Entities <=> s \in Live) /\ (s \notin Entities => s \in ingested)
  BY Sizes DEF Present, Live, Typed, Sources
<1>3. u \in Objects(g)
  BY <1>2, HeldIs
<1>4. Leads(NextOf(g, o), u) = v.next
  BY <1>1, <1>3, TraceIsGraph
<1>5. /\ Own(g, u) = {} /\ Links(Own(g, u)) = {} /\ LinksFrom(g, u[2]) = {}
  BY <1>1 DEF Own, EventsOf, Links, LinksFrom
<1>6. o.includeIndex /\ ~ o.includeReceipts /\ (Backward(o) <=> d = "backward") /\ (Forward(o) <=> d = "forward")
  BY OptionsAre
<1> HIDE DEF g, o, v
<1>7. /\ EntityBack(g, u).nodes = {} /\ EntityBack(g, u).edges = {}
      /\ ArtifactBack(g, u).nodes = {} /\ ArtifactBack(g, u).edges = {}
      /\ ArtifactForth(g, u).edges = {}
  <2>1. EventsOf(g, u[2]) = {} /\ Links(EventsOf(g, u[2])) = {} /\ LinksFrom(g, u[2]) = {}
    BY <1>5 DEF Own
  <2>2. EntityBack(g, u).nodes = {} /\ EntityBack(g, u).edges = {}
    BY <2>1 DEF EntityBack, Visit
  <2>3. ArtifactBack(g, u).nodes = {} /\ ArtifactBack(g, u).edges = {}
    BY <2>1 DEF ArtifactBack, Visit
  <2>4. ArtifactForth(g, u).edges = {}
    BY <2>1 DEF ArtifactForth, Visit
  <2> QED
    BY <2>2, <2>3, <2>4
<1>8. /\ Nothing.nodes = {} /\ Nothing.edges = {}
      /\ traceForwardIndex(g, o, u).nodes =
           IF d = "forward" THEN {Node(<<"index", r.id>>) : r \in RecordsFrom(g, u)} ELSE {}
      /\ d = "backward" => traceForwardIndex(g, o, u).edges = {}
      /\ traceRelatedReceipts(g, o, u).nodes = {} /\ traceRelatedReceipts(g, o, u).edges = {}
  <2>1. /\ traceForwardIndex(g, o, u).nodes =
             IF Forward(o) /\ o.includeIndex THEN {Node(<<"index", r.id>>) : r \in RecordsFrom(g, u)} ELSE {}
        /\ traceForwardIndex(g, o, u).edges =
             IF Forward(o) /\ o.includeIndex
             THEN {Edge(u, <<"index", r.id>>, "index_record_derived_from") : r \in RecordsFrom(g, u)} ELSE {}
    BY SideVisitsAre
  <2>2. traceRelatedReceipts(g, o, u).nodes = {} /\ traceRelatedReceipts(g, o, u).edges = {}
    BY <1>6 DEF traceRelatedReceipts, Visit
  <2>3. Nothing.nodes = {} /\ Nothing.edges = {}
    BY DEF Nothing, Visit
  <2> QED
    BY <1>6, <2>1, <2>2, <2>3
<1>9. CASE s \in Live
  <2>1. u[1] = "canonical" /\ u[2] \in g.entities
    BY <1>1, <1>2, <1>9, UriIs
  <2> DEFINE back == IF Backward(o) THEN EntityBack(g, u) ELSE Nothing
  <2>2. /\ v.nodes = {Node(u)} \cup back.nodes \cup traceForwardIndex(g, o, u).nodes
                       \cup traceRelatedReceipts(g, o, u).nodes
        /\ v.edges = back.edges \cup traceForwardIndex(g, o, u).edges \cup traceRelatedReceipts(g, o, u).edges
        /\ Members(v.next) = IF Backward(o) THEN {LinkedArtifact(e) : e \in Links(Own(g, u))} ELSE {}
    BY <1>1, <2>1, EntityIs DEF v
  <2>3. back.nodes = {} /\ back.edges = {}
    BY <1>7, <1>8
  <2> HIDE DEF back
  <2>4. Members(v.next) = {}
    BY <1>5, <2>2
  <2>5. v.nodes = {Node(u)} \cup (IF d = "forward" THEN {Node(<<"index", r.id>>) : r \in RecordsFrom(g, u)} ELSE {})
    BY <1>8, <2>2, <2>3
  <2>6. d = "backward" => v.edges = {}
    BY <1>8, <2>2, <2>3
  <2> QED
    BY <1>4, <2>4, <2>5, <2>6 DEF g, o, v
<1>10. CASE s \in ingested /\ s \notin Entities
  <2>1. u[1] = "artifact" /\ u[2] \in g.artifacts
    BY <1>1, <1>10, UriIs
  <2> DEFINE back == IF Backward(o) THEN ArtifactBack(g, u) ELSE Nothing
             forth == IF Forward(o) THEN ArtifactForth(g, u) ELSE Nothing
  <2>2. /\ v.nodes = {Node(u)} \cup back.nodes \cup traceForwardIndex(g, o, u).nodes
        /\ v.edges = back.edges \cup forth.edges \cup traceForwardIndex(g, o, u).edges
        /\ Members(v.next) = IF Forward(o) THEN {LinkedEntity(e) : e \in LinksFrom(g, u[2])} ELSE {}
    BY <1>1, <2>1, ArtifactIs DEF v
  <2>3. back.nodes = {} /\ back.edges = {} /\ forth.edges = {}
    BY <1>7, <1>8
  <2> HIDE DEF back, forth
  <2>4. Members(v.next) = {}
    BY <1>5, <2>2
  <2>5. v.nodes = {Node(u)} \cup (IF d = "forward" THEN {Node(<<"index", r.id>>) : r \in RecordsFrom(g, u)} ELSE {})
    BY <1>8, <2>2, <2>3
  <2>6. d = "backward" => v.edges = {}
    BY <1>8, <2>2, <2>3
  <2> QED
    BY <1>4, <2>4, <2>5, <2>6 DEF g, o, v
<1> QED
  BY <1>2, <1>9, <1>10
(* The walks: from a record to its source, and from a source to itself.     *)
LEMMA StoresGraph ==
  ASSUME Typed, DistinctIds, NEW d
  PROVE  Graph(NextOf(Stores, Options(d)), Around(Stores))
  BY StoresHold, TraceIsGraph

LEMMA RecordWalk ==
  ASSUME Typed, DistinctIds, NEW i \in DOMAIN index
  PROVE  LET r == index[i]
             o == Options("backward")
             u == <<"index", r.id>>
             v == VisitOf(Stores, o, u)
             V == Members(Visited(NextOf(Stores, o), o.depth, u))
         IN /\ u \in Around(Stores)
            /\ v.nodes = {Node(u)}
            /\ r.src \in Present =>
                 /\ V = {u, Uri(r.src)}
                 /\ v.edges = {Edge(u, Uri(r.src), IF explainIndex(r).stale THEN "stale_projection_of"
                                                   ELSE "index_record_derived_from")}
            /\ r.src \notin Present => V = {u} /\ v.edges = {Edge(u, Uri(r.src), "missing_owner_truth")}
<1> DEFINE g == Stores
           r == index[i]
           o == Options("backward")
           u == <<"index", r.id>>
           s == Uri(r.src)
           v == VisitOf(g, o, u)
           next == NextOf(g, o)
           V == Members(Visited(next, o.depth, u))
<1>1. r.src \in Sources
  BY StoredIs
<1>2. StoresAre(g) /\ g.index = {Shelved(n) : n \in DOMAIN index}
  BY StoresHold
<1>3. PICK q \in g.index : q = Shelved(i)
  BY <1>2
<1>4. q.id = r.id /\ q.source = s /\ q.stale = explainIndex(r).stale
  BY <1>3 DEF Shelved
<1>5. u[1] = "index" /\ u[2] = q.id
  BY <1>4
<1>6. Backward(o) /\ o.depth = 10
  BY OptionsAre
<1>7. IsHeld(g, s) <=> r.src \in Present
  BY <1>1, HeldIs
<1>8. u \in Objects(g)
  <2>1. u[2] \in {x.id : x \in g.index}
    BY <1>5
  <2> QED
    BY <2>1 DEF Objects
<1>9. u \in Around(g)
  BY <1>8 DEF Around
<1>10. Graph(next, Around(g)) /\ Leads(next, u) = v.next
  BY <1>2, <1>8, TraceIsGraph
<1>11. IsRecordVisit(v, g, o, q, u)
  <2> HIDE DEF g, o, u
  <2>1. StoresAre(g)
    BY <1>2
  <2> QED
    BY <1>5, <2>1, RecordIsTraced
<1>12. /\ r.src \in Present =>
             /\ v.next = <<s>>
             /\ v.edges = {Edge(u, s, IF explainIndex(r).stale THEN "stale_projection_of"
                                      ELSE "index_record_derived_from")}
       /\ r.src \notin Present => v.next = <<>> /\ v.edges = {Edge(u, s, "missing_owner_truth")}
  BY <1>4, <1>6, <1>7, <1>11 DEF IsRecordVisit
<1> HIDE DEF g, v, next, u, s, o
<1>13. Members(<<s>>) = {s} /\ Members(<<>>) = {}
  BY DEF Members
<1>14. 10 \in Nat /\ 10 >= 2
  OBVIOUS
<1>15. ASSUME NEW W, u \in W, Closed(next, W) PROVE V \subseteq W
  BY <1>6, <1>9, <1>10, <1>14, <1>15, VisitsWithin
<1>16. {u} \cup Members(Leads(next, u)) \subseteq V
  BY <1>6, <1>9, <1>10, <1>14, VisitsNext
<1> HIDE DEF V
<1>17. CASE r.src \in Present
  <2>1. Members(Leads(next, s)) = {}
    BY <1>17, SourceIsTraced DEF next, g, o, s
  <2>2. Members(Leads(next, u)) = {s}
    BY <1>10, <1>12, <1>13, <1>17
  <2>3. Closed(next, {u, s})
    BY <2>1, <2>2 DEF Closed
  <2>4. V = {u, s}
    BY <1>15, <1>16, <2>2, <2>3
  <2> QED
    BY <1>9, <1>11, <1>12, <1>17, <2>4 DEF IsRecordVisit, g, v, next, u, s, o, V
<1>18. CASE r.src \notin Present
  <2>1. Members(Leads(next, u)) = {}
    BY <1>10, <1>12, <1>13, <1>18
  <2>2. Closed(next, {u})
    BY <2>1 DEF Closed
  <2>3. V = {u}
    BY <1>15, <1>16, <2>2
  <2> QED
    BY <1>9, <1>11, <1>12, <1>18, <2>3 DEF IsRecordVisit, g, v, next, u, s, o, V
<1> QED
  BY <1>17, <1>18

LEMMA SourceWalk ==
  ASSUME Typed, DistinctIds, NEW s \in Present
  PROVE  LET o == Options("forward")
         IN /\ Uri(s) \in Around(Stores)
            /\ Members(Visited(NextOf(Stores, o), o.depth, Uri(s))) = {Uri(s)}
<1> DEFINE o == Options("forward")
           next == NextOf(Stores, o)
           V == Members(Visited(next, o.depth, Uri(s)))
<1>1. s \in Sources
  BY DEF Present, Live, Typed, Sources
<1>2. Uri(s) \in Around(Stores)
  BY <1>1, HeldIs DEF Around
<1>3. Members(Leads(next, Uri(s))) = {}
  BY SourceIsTraced
<1>4. o.depth = 10 /\ 10 \in Nat /\ 10 >= 2
  BY OptionsAre
<1>5. Graph(next, Around(Stores))
  BY StoresGraph
<1> HIDE DEF o, next
<1>6. Closed(next, {Uri(s)})
  BY <1>3 DEF Closed
<1>7. V \subseteq {Uri(s)}
  BY <1>2, <1>4, <1>5, <1>6, VisitsWithin
<1>8. Uri(s) \in V
  BY <1>2, <1>4, <1>5, VisitsNext
<1> QED
  BY <1>2, <1>7, <1>8 DEF o, next
(* The trace of a record.                                                  *)
LEMMA RecordTrace ==
  ASSUME Typed, DistinctIds, NEW i \in DOMAIN index
  PROVE  LET r == index[i]
             trace == traceObject(Stores, <<"index", r.id>>, Options("backward"))
         IN /\ (\E e \in trace.edges : e.type \in Warnings) <=> explainIndex(r).stale
            /\ r.src \in Present <=> Node(Uri(r.src)) \in trace.nodes
<1> DEFINE g == Stores
           r == index[i]
           o == Options("backward")
           u == <<"index", r.id>>
           s == Uri(r.src)
           trace == traceObject(g, u, o)
           V == Members(Visited(NextOf(g, o), o.depth, u))
           type == IF explainIndex(r).stale THEN "stale_projection_of" ELSE "index_record_derived_from"
<1>1. r.src \in Sources
  BY StoredIs
<1>2. StoresAre(g)
  BY StoresHold
<1>3. o.depth \in Nat
  BY OptionsAre
<1>4. /\ u \in Around(g)
      /\ VisitOf(g, o, u).nodes = {Node(u)}
      /\ r.src \in Present => V = {u, s} /\ VisitOf(g, o, u).edges = {Edge(u, s, type)}
      /\ r.src \notin Present => V = {u} /\ VisitOf(g, o, u).edges = {Edge(u, s, "missing_owner_truth")}
  BY RecordWalk
<1>5. /\ trace.nodes = UNION {VisitOf(g, o, x).nodes : x \in V}
      /\ trace.edges = UNION {VisitOf(g, o, x).edges : x \in V}
  <2> HIDE DEF g, o, u
  <2> QED
    BY <1>2, <1>3, <1>4, TraceIs
<1>6. explainIndex(r).stale <=> Outdated(r)
  BY StaleIsListed
<1>7. r.src \in Present <=> VersionOf(r.src) > 0
  BY <1>1, VersionPresent
<1>8. s[1] # "index" /\ u[1] = "index"
  BY UriIs
<1>9. \A a, b, c : Edge(a, b, c).type = c
  BY DEF Edge
<1>10. \A a, b : Node(a) = Node(b) => a = b
  <2>1. \A a : Node(a).uri = a
    BY DEF Node
  <2> QED
    BY <2>1
<1>11. CASE r.src \in Present
  <2>1. VisitOf(g, o, s).nodes = {Node(s)} /\ VisitOf(g, o, s).edges = {}
    BY <1>11, SourceIsTraced
  <2> HIDE DEF g, o, u, s, trace, V, type
  <2>2. V = {u, s} /\ VisitOf(g, o, u).edges = {Edge(u, s, type)}
    BY <1>4, <1>11
  <2>3. trace.edges = {Edge(u, s, type)} /\ Node(s) \in trace.nodes
    BY <1>4, <1>5, <2>1, <2>2
  <2>4. (\E e \in trace.edges : e.type \in Warnings) <=> type \in Warnings
    BY <1>9, <2>3
  <2>5. type \in Warnings <=> explainIndex(r).stale
    BY DEF type, Warnings
  <2> QED
    BY <1>11, <2>3, <2>4, <2>5 DEF trace, g, u, o, s
<1>12. CASE r.src \notin Present
  <2>1. explainIndex(r).stale
    <3>1. VersionOf(r.src) \in Nat /\ ~ VersionOf(r.src) > 0
      BY <1>1, <1>7, <1>12, VersionPresent
    <3>2. VersionOf(r.src) = 0
      BY <3>1
    <3> QED
      BY <1>6, <3>2 DEF Outdated
  <2> HIDE DEF g, o, u, s, trace, V, type
  <2>2. V = {u} /\ VisitOf(g, o, u).edges = {Edge(u, s, "missing_owner_truth")}
    BY <1>4, <1>12
  <2>3. trace.edges = {Edge(u, s, "missing_owner_truth")} /\ trace.nodes = {Node(u)}
    BY <1>4, <1>5, <2>2
  <2>4. Node(s) \notin trace.nodes
    BY <1>8, <1>10, <2>3
  <2>5. \E e \in trace.edges : e.type \in Warnings
    BY <1>9, <2>3 DEF Warnings
  <2> QED
    BY <1>12, <2>1, <2>4, <2>5 DEF trace, g, u, o, s
<1> QED
  BY <1>11, <1>12

(* The trace of a source.                                                  *)
LEMMA SourceTrace ==
  ASSUME Typed, DistinctIds, NEW s \in Present
  PROVE  {n.uri : n \in traceObject(Stores, Uri(s), Options("forward")).nodes}
           = {Uri(s)} \cup {<<"index", index[i].id>> : i \in FirstRecords(s)}
<1> DEFINE g == Stores
           o == Options("forward")
           u == Uri(s)
           trace == traceObject(g, u, o)
           V == Members(Visited(NextOf(g, o), o.depth, u))
<1>1. StoresAre(g) /\ g.index = {Shelved(i) : i \in DOMAIN index}
  BY StoresHold
<1>2. o.depth \in Nat
  BY OptionsAre
<1>3. u \in Around(g) /\ V = {u}
  BY SourceWalk
<1>4. trace.nodes = UNION {VisitOf(g, o, x).nodes : x \in V}
  <2> HIDE DEF g, o, u
  <2> QED
    BY <1>1, <1>2, <1>3, TraceIs
<1>5. VisitOf(g, o, u).nodes = {Node(u)} \cup {Node(<<"index", q.id>>) : q \in RecordsFrom(g, u)}
  BY SourceIsTraced
<1>6. \A q \in g.index : q \in RecordsFrom(g, u) <=> q.at <= IndexLimit /\ q.source[2] = s
  BY UriIs DEF RecordsFrom
<1> HIDE DEF g, o, u, trace, V
<1>7. trace.nodes = {Node(u)} \cup {Node(<<"index", q.id>>) : q \in RecordsFrom(g, u)}
  BY <1>3, <1>4, <1>5
<1>8. \A a : Node(a).uri = a
  BY DEF Node
<1>9. {n.uri : n \in trace.nodes} = {u} \cup {<<"index", q.id>> : q \in RecordsFrom(g, u)}
  <2> DEFINE R == {u} \cup {<<"index", q.id>> : q \in RecordsFrom(g, u)}
  <2>1. trace.nodes = {Node(x) : x \in R}
    BY <1>7
  <2> HIDE DEF R
  <2>2. {n.uri : n \in trace.nodes} = R
    BY <1>8, <2>1
  <2> QED
    BY <2>2 DEF R
<1>10. \A i : Shelved(i).id = index[i].id /\ Shelved(i).source[2] = index[i].src /\ Shelved(i).at = i
  BY UriIs DEF Shelved
<1>11. RecordsFrom(g, u) = {Shelved(i) : i \in FirstRecords(s)}
  <2>1. RecordsFrom(g, u) \subseteq g.index
    BY DEF RecordsFrom
  <2>2. FirstRecords(s) = {i \in DOMAIN index : Shelved(i).at <= IndexLimit /\ Shelved(i).source[2] = s}
    BY <1>10 DEF FirstRecords
  <2> HIDE DEF Shelved
  <2> QED
    BY <1>1, <1>6, <2>1, <2>2
<1>12. {<<"index", q.id>> : q \in RecordsFrom(g, u)} = {<<"index", index[i].id>> : i \in FirstRecords(s)}
  BY <1>10, <1>11
<1> QED
  BY <1>9, <1>12 DEF trace, g, u, o

LEMMA TracesDoAgree ==
  ASSUME Typed, DistinctIds
  PROVE  TracesAgree
<1> DEFINE g == Stores
<1>1. ASSUME NEW i \in DOMAIN index
      PROVE  LET r     == index[i]
                 trace == traceObject(g, <<"index", r.id>>, Options("backward"))
             IN /\ (\E e \in trace.edges : e.type \in Warnings) <=> explainIndex(r).stale
                /\ i <= ReportLimit => (explainIndex(r).stale <=> r \in listStaleRecords)
                /\ explainIndex(r).sourceExists <=> Node(Uri(r.src)) \in trace.nodes
  <2>1. index[i].src \in Sources
    BY StoredIs
  <2>2. explainIndex(index[i]).sourceExists <=> index[i].src \in Present
    BY <2>1, StaleIsListed, VersionPresent
  <2> QED
    BY <2>2, RecordTrace, StaleIsListed
<1>2. ASSUME NEW s \in Live \cup ingested
      PROVE  {n.uri : n \in traceObject(g, Uri(s), Options("forward")).nodes}
               = {Uri(s)} \cup {<<"index", index[i].id>> : i \in FirstRecords(s)}
  BY SourceTrace DEF Present
<1> QED
  BY <1>1, <1>2 DEF TracesAgree

(* In every state, a writer or a rebuild under way or not: the trace of a    *)
(* record warns where its explanation does, and the list of stale records    *)
(* as far as it looks; and the forward trace of a source shows its records  *)
(* among the first IndexLimit of the index, and no others.                  *)
THEOREM TracesAgreeAlways == Spec => []TracesAgree
<1>1. Init => Typed /\ HistoryKept /\ CalmInv
  BY TypedInit, HistoryInit, CalmInit
<1>2. Typed /\ HistoryKept /\ CalmInv /\ [Next]_vars => (Typed /\ HistoryKept /\ CalmInv)'
  BY TypedStep, HistoryStep, CalmStep
<1>3. Typed /\ CalmInv => TracesAgree
  BY TracesDoAgree DEF CalmInv
<1> QED
  BY <1>1, <1>2, <1>3, PTL DEF Spec

(* In every reachable state an entity that no record of its own shows under  *)
(* its present text is reported, as missing or by an outdated record, as     *)
(* long as the list of stale records sees the whole index; on an index that  *)
(* is not out of step nothing is listed, and an entity is reported missing   *)
(* exactly when a record of another source, indexed before its own,         *)
(* contains its text; and between calls traces and explanations agree.      *)
THEOREM StalenessIsReportedAlways == Spec => []StalenessIsReported
<1>1. Init => Typed /\ HistoryKept /\ CalmInv
  BY TypedInit, HistoryInit, CalmInit
<1>2. Typed /\ HistoryKept /\ CalmInv /\ [Next]_vars => (Typed /\ HistoryKept /\ CalmInv)'
  BY TypedStep, HistoryStep, CalmStep
<1>3. Typed /\ CalmInv => StalenessIsReported
  <2> SUFFICES ASSUME Typed, CalmInv PROVE StalenessIsReported
    OBVIOUS
  <2>1. Len(index) <= ReportLimit =>
          \A e \in Live :
              \/ \E r \in Range(index) : r.src = e /\ r.text = TextOf[Latest(e)]
              \/ e \in missingFromIndex
              \/ \E r \in listStaleRecords : r.src = e
    BY EntityIsReported
  <2>2. (calm /\ Busy = {}) => listStaleRecords = {} /\ orphanRecords = {}
    BY NothingListed
  <2>3. (calm /\ Busy = {}) =>
          \A e \in Live : e \in missingFromIndex <=>
             \E i, j \in DOMAIN index :
                 /\ i < j /\ index[j].src = e /\ index[i].src # e
                 /\ Matches(index[i], TextOf[Latest(e)])
    BY MissingIsShadowed
  <2>4. TracesAgree
    BY TracesDoAgree DEF CalmInv
  <2> QED
    BY <2>1, <2>2, <2>3, <2>4 DEF StalenessIsReported
<1> QED
  BY <1>1, <1>2, <1>3, PTL DEF Spec
=============================================================================
