------------------------------ MODULE IndexSync ------------------------------
(***************************************************************************)
(* The derived index beside the stores it is derived from.  A record of    *)
(* the index is an image of an entity version or of an artifact; the       *)
(* kernel writes it after the owner store, in steps with awaits between    *)
(* them, and a rebuild replaces the whole index by what it listed earlier. *)
(* Every store method is one step.  The retrieval planner and the          *)
(* staleness reports read the index and the stores beside these writers.   *)
(*                                                                         *)
(* The canonical store keeps its map in memory and rewrites its file on    *)
(* every write: a write that throws leaves the map ahead of the file, and  *)
(* a restart reads the file.                                               *)
(***************************************************************************)
EXTENDS Picking, Sequences, Functions

CONSTANTS NEntities,    \* bound: entities ever created, numbered by creation
          Artifacts,    \* artifact ids (numbers above NEntities)
          Values,       \* what an entity can be: a kind, a name and attributes
          TextOf,       \* value -> its text, "kind: name"
          Words,        \* what else a retrieval can ask for
          InText,       \* pairs <<text, query>>: the text contains the query
          InMeta,       \* pairs <<metadata, query>>: its JSON contains the query
          PageLimit,    \* candidates of one retrieval: 20 unless asked otherwise
          ReportLimit,  \* records the list of stale records looks at: 100000
          Calls,        \* calls in flight
          MaxWrites,    \* bound: entity versions and artifacts in the stores
          MaxFaults     \* bound: failed writes, restarts and damaged blobs

ASSUME SizesAreNatural ==
    {NEntities, MaxWrites, MaxFaults, PageLimit, ReportLimit} \subseteq Nat
ASSUME IdsAreDistinct  == Artifacts \subseteq Nat \ (0 .. NEntities)
ASSUME CallsAreFinite  == IsFiniteSet(Calls)

Entities == 1 .. NEntities
Sources  == Entities \cup Artifacts
AnyText  == ""
Texts    == {TextOf[v] : v \in Values}
Queries  == Texts \cup Words

\* A text holds a colon, so it is not empty, and every text contains itself.
\* Case is ignored: two texts may contain each other and still differ.
ASSUME TextsAreNotEmpty == AnyText \notin Texts
ASSUME TextsContainThemselves == \A t \in Texts : <<t, t>> \in InText

VARIABLES canonical,   \* entity -> its versions in this process, oldest first
          canonFile,   \* the same in the file
          ingested,    \* the artifacts of the artifact store
          damaged,     \* artifacts whose blob no longer has its hash
          events,      \* source -> events recorded about it
          index,       \* the index records, in insertion order
          calls,       \* what each call in flight still has to do
          born,        \* entities created so far
          history,     \* entity -> every value it ever had
          lost,        \* entities that lost a version at a restart
          cut,         \* sources with a write that threw or was killed half-way
          calm,        \* nothing has disturbed the index since it was exact
          faults

owners == <<canonical, canonFile, ingested, damaged, born, history, lost, cut>>
vars == <<owners, events, index, calls, calm, faults>>

Idle == [pc |-> "idle"]
Live == {e \in Entities : canonical[e] # <<>>}
MayWrite == FoldFunction(+, 0, [e \in Entities |-> Len(canonical[e])])
                + Cardinality(ingested) < MaxWrites
Latest(e) == canonical[e][Len(canonical[e])]

EntityImage(e, v) == [src |-> e, text |-> TextOf[v], meta |-> v]
\* A commit and the kernel's rebuild index an artifact by its file name, the
\* other rebuild by its content.
Bys == {"filename", "content"}
ArtifactText(a, by) == <<"artifact", a, by>>
ArtifactImage(a, by) == [src |-> a, text |-> ArtifactText(a, by), meta |-> <<"artifact", a>>]

-----------------------------------------------------------------------------
(* The index store.                                                        *)

RememberedIds == UNION {calls[c].todo : c \in {d \in Calls : calls[d].pc = "removing"}}
\* Ids are random UUIDs: n new ones are none of those in use.
FreshIds(n, used) == InOrder((1 .. n + Cardinality(used)) \ used)

Record(id, image) == [id |-> id, src |-> image.src, text |-> image.text, meta |-> image.meta]
Numbered(images) ==
    [i \in 1 .. Len(images) |-> Record(FreshIds(Len(images), RememberedIds)[i], images[i])]

\* A substring of the text or of the metadata, in insertion order.
Matches(image, q) ==
    q = AnyText \/ <<image.text, q>> \in InText \/ <<image.meta, q>> \in InMeta
search(q) == Pick(index, {i \in DOMAIN index : Matches(index[i], q)})
Unnumbered(r) == [src |-> r.src, text |-> r.text, meta |-> r.meta]
indexRecord(image) ==
    LET used == RememberedIds \cup {r.id : r \in Range(index)} IN
    index' = Append(index, Record(FreshIds(1, used)[1], image))
remove(id) == index' = Pick(index, {i \in DOMAIN index : index[i].id # id})
replaceAll(images) == index' = Numbered(images)

-----------------------------------------------------------------------------
(* Which calls disturb one another: two writers of one source, and a       *)
(* rebuild with any writer.                                                *)

Writing(c)    == calls[c].pc \in {"searching", "removing", "indexing", "recording"}
Rebuilding(c) == calls[c].pc \in {"listing", "reading", "replacing"}
Planning(c)   == calls[c].pc \in {"resolving", "tracing", "bundle"}
Busy == {c \in Calls : Writing(c) \/ Rebuilding(c)}

WritersOf(src) == {c \in Calls : Writing(c) /\ calls[c].src = src}

Collides(src) == \E c \in Busy : Rebuilding(c) \/ calls[c].src = src
NotAlone(d) == IF Rebuilding(d) \/ Planning(d)
               THEN [calls[d] EXCEPT !.alone = FALSE] ELSE calls[d]
Enter(c, call) == calls' = [d \in Calls |-> IF d = c THEN call ELSE NotAlone(d)]
Continue(c, call) == calls' = [calls EXCEPT ![c] = call]

StartWriter(c, src, call) ==
    /\ Enter(c, call)
    /\ calm' = (calm /\ ~ Collides(src))

-----------------------------------------------------------------------------
(* Writers: createEntity and the create arm, the update arm,               *)
(* ingestArtifact and the ingest arm.                                      *)

\* The map changes before persist() writes the whole map to the file.
StoreVersions(e, versions) ==
    /\ canonical' = [canonical EXCEPT ![e] = versions]
    /\ history' = [history EXCEPT ![e] = @ \cup Range(versions)]

Persists == canonFile' = canonical' /\ UNCHANGED faults
PersistThrows == faults < MaxFaults /\ faults' = faults + 1 /\ UNCHANGED canonFile

CreateEntity(c) ==
    /\ calls[c] = Idle /\ born < NEntities /\ MayWrite
    /\ \E v \in Values :
        LET e == born + 1 IN
        /\ born' = e
        /\ StoreVersions(e, <<v>>)
        /\ \/ /\ Persists
              /\ StartWriter(c, e, [pc |-> "indexing", src |-> e, image |-> EntityImage(e, v)])
              /\ UNCHANGED cut
           \/ /\ PersistThrows
              /\ Enter(c, Idle) /\ calm' = FALSE
              /\ cut' = cut \cup {e}
    /\ UNCHANGED <<ingested, damaged, lost, events, index>>

UpdateEntity(c) ==
    /\ calls[c] = Idle /\ MayWrite
    /\ \E e \in Live, v \in Values :
        /\ StoreVersions(e, Append(canonical[e], v))
        /\ \/ /\ Persists
              /\ StartWriter(c, e, [pc |-> "searching", src |-> e, image |-> EntityImage(e, v)])
              /\ UNCHANGED cut
           \/ /\ PersistThrows
              /\ Enter(c, Idle) /\ calm' = FALSE
              /\ cut' = cut \cup {e}
    /\ UNCHANGED <<ingested, damaged, born, lost, events, index>>

SearchStale_SameText(c) ==
    /\ calls[c].pc = "searching"
    /\ LET matching == {r.id : r \in {s \in Range(search(calls[c].image.text)) :
                                          s.src = calls[c].src}} IN
       Continue(c, [pc |-> "removing", src |-> calls[c].src, image |-> calls[c].image,
                    todo |-> matching])
    /\ UNCHANGED <<owners, events, index, calm, faults>>

SearchStale(c) ==
    /\ calls[c].pc = "searching"
    /\ LET matching == {r.id : r \in {s \in Range(search(AnyText)) : s.src = calls[c].src}} IN
       Continue(c, [pc |-> "removing", src |-> calls[c].src, image |-> calls[c].image,
                    todo |-> matching])
    /\ UNCHANGED <<owners, events, index, calm, faults>>

RemoveStale(c) ==
    /\ calls[c].pc = "removing" /\ calls[c].todo # {}
    /\ LET old == CHOOSE i \in calls[c].todo : \A j \in calls[c].todo : i <= j IN
       /\ remove(old)
       /\ Continue(c, [calls[c] EXCEPT !.todo = @ \ {old}])
    /\ UNCHANGED <<owners, events, calm, faults>>

IngestArtifact(c) ==
    /\ calls[c] = Idle /\ MayWrite
    /\ \E a \in Artifacts \ ingested :
        /\ ingested' = ingested \cup {a}
        /\ StartWriter(c, a, [pc |-> "indexing", src |-> a,
                              image |-> ArtifactImage(a, "filename")])
    /\ UNCHANGED <<canonical, canonFile, damaged, born, history, lost, cut,
                   events, index, faults>>

IndexImage_Reread(c) ==
    /\ \/ calls[c].pc = "indexing"
       \/ calls[c].pc = "removing" /\ calls[c].todo = {}
    /\ indexRecord(IF calls[c].src \in Live
                   THEN [calls[c].image EXCEPT !.meta = Latest(calls[c].src)]
                   ELSE calls[c].image)
    /\ Continue(c, [pc |-> "recording", src |-> calls[c].src])
    /\ UNCHANGED <<owners, events, calm, faults>>

IndexImage(c) ==
    /\ \/ calls[c].pc = "indexing"
       \/ calls[c].pc = "removing" /\ calls[c].todo = {}
    /\ indexRecord(calls[c].image)
    /\ Continue(c, [pc |-> "recording", src |-> calls[c].src])
    /\ UNCHANGED <<owners, events, calm, faults>>

RecordEvent_OfTheFirst(c) ==
    /\ calls[c].pc = "recording"
    /\ events' = [events EXCEPT ![calls[c].src] = 1]
    /\ Continue(c, Idle)
    /\ UNCHANGED <<owners, index, calm, faults>>

\* The event, the save of the command and the receipt; only the event is
\* read by anything modelled here.
RecordEvent(c) ==
    /\ calls[c].pc = "recording"
    /\ events' = [events EXCEPT ![calls[c].src] = @ + 1]
    /\ Continue(c, Idle)
    /\ UNCHANGED <<owners, index, calm, faults>>

-----------------------------------------------------------------------------
(* The two rebuilds: performIndexRebuild of the kernel and rebuildIndex of *)
(* the operations, which reads each artifact's content and leaves an       *)
(* artifact out whose bytes do not have its hash.                          *)

EntityImages == [i \in 1 .. Cardinality(Live) |->
                    LET e == InOrder(Live)[i] IN EntityImage(e, Latest(e))]
ArtifactImages(S, by) == [i \in 1 .. Cardinality(S) |-> ArtifactImage(InOrder(S)[i], by)]

ListEntities(c) ==
    /\ calls[c] = Idle
    /\ \E by \in Bys :
        Enter(c, [pc |-> "listing", by |-> by, staged |-> EntityImages, alone |-> Busy = {}])
    /\ calm' = (calm /\ Busy = {})
    /\ UNCHANGED <<owners, events, index, faults>>

ListArtifacts(c) ==
    /\ calls[c].pc = "listing"
    /\ Continue(c, [pc |-> IF calls[c].by = "content" THEN "reading" ELSE "replacing",
                    by |-> calls[c].by, alone |-> calls[c].alone,
                    staged |-> calls[c].staged \o ArtifactImages(ingested, calls[c].by)])
    /\ UNCHANGED <<owners, events, index, calm, faults>>

ReadContents(c) ==
    /\ calls[c].pc = "reading"
    /\ LET staged == calls[c].staged IN
       Continue(c, [calls[c] EXCEPT
           !.pc = "replacing",
           !.staged = Pick(staged, {i \in DOMAIN staged : staged[i].src \notin damaged}),
           !.alone = @ /\ ingested \cap damaged = {}])
    /\ UNCHANGED <<owners, events, index, calm, faults>>

SwapIndex(c) ==
    /\ calls[c].pc = "replacing"
    /\ replaceAll(calls[c].staged)
    /\ Continue(c, Idle)
    /\ calm' = calls[c].alone
    /\ UNCHANGED <<owners, events, faults>>

-----------------------------------------------------------------------------
(* RetrievalPlanner.plan: candidates, then for each the owner's object and *)
(* the events about it.                                                    *)

VersionOf(src) == IF src \in Entities THEN Len(canonical[src])
                  ELSE IF src \in ingested THEN 1 ELSE 0

\* The first page of the ranking.  How BM25 ranks is left open: any
\* candidates may come first, in any order.
Smaller(m, n) == IF m <= n THEN m ELSE n
Pages_OneShort(hits) ==
    {[i \in 1 .. Len(hits) - 1 |-> Unnumbered(hits[i])]}
Pages(hits) ==
    LET size == Smaller(PageLimit, Len(hits)) IN
    {[i \in 1 .. size |-> Unnumbered(hits[rank[i]])] :
        rank \in Injection(1 .. size, DOMAIN hits)}

\* One retrieval runs at a time: it changes nothing another one reads.
Plan(c) ==
    /\ calls[c] = Idle /\ \A d \in Calls : ~ Planning(d)
    /\ \E q \in Queries : \E page \in Pages(search(q)) :
        Continue(c, [pc |-> "resolving", query |-> q, page |-> page, got |-> <<>>,
                     resolved |-> {}, missing |-> {}, alone |-> calm /\ Busy = {},
                     began |-> [s \in Sources |-> VersionOf(s)]])
    /\ UNCHANGED <<owners, events, index, calm, faults>>

Resolve(c) ==
    /\ calls[c].pc = "resolving" /\ calls[c].page # <<>>
    /\ LET r == Head(calls[c].page) IN
       IF VersionOf(r.src) > 0
       THEN Continue(c, [calls[c] EXCEPT
                !.pc = "tracing",
                !.got = <<[src |-> r.src, version |-> VersionOf(r.src),
                           indexStale |-> r.src \in Entities /\ r.text # TextOf[Latest(r.src)]]>>])
       ELSE Continue(c, [calls[c] EXCEPT !.page = Tail(@), !.missing = @ \cup {r.src}])
    /\ UNCHANGED <<owners, events, index, calm, faults>>

\* "pending" is not in the bundle: how many writers of the object are
\* between their write and its event when the events are read.
Traced(o, provenance, pending) ==
    [src |-> o.src, version |-> o.version, indexStale |-> o.indexStale,
     provenance |-> provenance, pending |-> pending]

\* listEvents({subjectId})
ListEvents(c) ==
    /\ calls[c].pc = "tracing"
    /\ LET o == calls[c].got[1] IN
       Continue(c, [calls[c] EXCEPT
           !.pc = "resolving", !.page = Tail(@), !.got = <<>>,
           !.resolved = @ \cup {Traced(o, events[o.src], Cardinality(WritersOf(o.src)))}])
    /\ UNCHANGED <<owners, events, index, calm, faults>>

FinishBundle(c) ==
    /\ calls[c].pc = "resolving" /\ calls[c].page = <<>>
    /\ Continue(c, [calls[c] EXCEPT !.pc = "bundle"])
    /\ UNCHANGED <<owners, events, index, calm, faults>>

ReturnBundle(c) ==
    /\ calls[c].pc = "bundle"
    /\ Continue(c, Idle)
    /\ UNCHANGED <<owners, events, index, calm, faults>>

assessFreshness(bundle) ==
    [staleCount     |-> Cardinality({o \in bundle.resolved : o.indexStale}),
     unprovenanced  |-> Cardinality({o \in bundle.resolved : o.provenance = 0})]
allFresh(bundle) == assessFreshness(bundle) = [staleCount |-> 0, unprovenanced |-> 0]

-----------------------------------------------------------------------------
(* The staleness reports.                                                  *)

\* A record is compared by its text alone: attributes that have changed
\* under the same kind and name are not noticed.
Outdated(r) == \/ VersionOf(r.src) = 0
               \/ r.src \in Entities /\ r.text # TextOf[Latest(r.src)]
Reported == {index[i] : i \in {j \in DOMAIN index : j <= ReportLimit}}
listStaleRecords_Existence == {r \in Reported : VersionOf(r.src) = 0}
listStaleRecords == {r \in Reported : Outdated(r)}
\* explainIndex and the index arm of a trace look at one record.
explainIndex(r) == [sourceExists |-> VersionOf(r.src) > 0, stale |-> Outdated(r)]
\* checkStale looks at every record for its source, and asks the index for
\* the first record that contains an entity's text and looks whether it is
\* the entity's; artifacts are not asked for.
orphanRecords == {r \in Range(index) : VersionOf(r.src) = 0}
missingFromIndex ==
    {e \in Live : LET hits == search(TextOf[Latest(e)]) IN
                  hits = <<>> \/ hits[1].src # e}
possiblyStale == Len(index) # Cardinality(Live) + Cardinality(ingested)

-----------------------------------------------------------------------------
(* The world.                                                              *)

\* The process ends and a new one loads the files.
Restart ==
    /\ faults < MaxFaults /\ faults' = faults + 1
    /\ canonical' = canonFile
    /\ lost' = lost \cup {e \in Entities : canonFile[e] # canonical[e]}
    /\ cut' = cut \cup {calls[c].src : c \in {d \in Calls : Writing(d)}}
    /\ calls' = [c \in Calls |-> Idle]
    /\ calm' = (calm /\ canonFile = canonical /\ Busy = {})
    /\ UNCHANGED <<canonFile, ingested, damaged, born, history, events, index>>

DamageBlob(a) ==
    /\ faults < MaxFaults /\ faults' = faults + 1
    /\ a \in ingested \ damaged
    /\ damaged' = damaged \cup {a}
    /\ UNCHANGED <<canonical, canonFile, ingested, born, history, lost, cut,
                   events, index, calls, calm>>

Init ==
    /\ canonical = [e \in Entities |-> <<>>] /\ canonFile = canonical
    /\ ingested = {} /\ damaged = {} /\ lost = {} /\ cut = {}
    /\ events = [s \in Sources |-> 0]
    /\ index = <<>> /\ born = 0
    /\ calls = [c \in Calls |-> Idle]
    /\ history = [e \in Entities |-> {}]
    /\ calm = TRUE /\ faults = 0

Write(c)   == CreateEntity(c) \/ UpdateEntity(c) \/ IngestArtifact(c) \/ SearchStale(c)
              \/ RemoveStale(c) \/ IndexImage(c) \/ RecordEvent(c)
Rebuild(c) == ListEntities(c) \/ ListArtifacts(c) \/ ReadContents(c) \/ SwapIndex(c)
Retrieve(c) == Plan(c) \/ Resolve(c) \/ ListEvents(c) \/ FinishBundle(c) \/ ReturnBundle(c)

Next == \/ \E c \in Calls : Write(c) \/ Rebuild(c) \/ Retrieve(c)
        \/ Restart
        \/ \E a \in Artifacts : DamageBlob(a)

Spec == Init /\ [][Next]_vars

-----------------------------------------------------------------------------
(* Properties.                                                             *)

\* A record of the index is an image of a version its source really had,
\* text and metadata of the same version, in every interleaving of writers,
\* rebuilds and restarts; its source is there, version included, unless a
\* restart lost a write that had thrown.
RecordsAreHistory ==
    \A r \in Range(index) :
        r.src \in Entities =>
            /\ r.text = TextOf[r.meta] /\ r.meta \in history[r.src]
            /\ r.src \notin lost => r.meta \in Range(canonical[r.src])

\* Writers of different sources do not disturb one another: as long as no
\* two writers of one source overlapped, no rebuild overlapped a writer and
\* no write threw or was cut short, the index is, whenever no writer runs,
\* exactly the image of the stores; and a rebuild that ran alone makes it so
\* whatever happened before.
CalmIndexIsExact ==
    (calm /\ Busy = {}) =>
        /\ ~ possiblyStale
        /\ \A e \in Live : \E r \in Range(index) :
              Unnumbered(r) = EntityImage(e, Latest(e))
        /\ \A a \in ingested : \E r \in Range(index) : r.src = a

\* A bundle never shows an object older than it was when the retrieval
\* began, unless a restart lost a version.  It reads the object, and later
\* the ledger: a version comes without its event only if a writer of the
\* object was still between the two when the ledger was read, or had thrown
\* or been killed there before.
BundleIsCurrent ==
    \A c \in Calls : calls[c].pc = "bundle" =>
        \A o \in calls[c].resolved :
            /\ o.src \in lost \/ o.version >= calls[c].began[o.src]
            /\ o.src \notin cut => o.version <= o.provenance + o.pending

\* A retrieval no writer overlaps, on an index nothing has disturbed, is
\* complete up to its limit: what it shows are different objects that the
\* index has under the query, all of them or as many as the limit allows,
\* the entities among them those that now read as asked; nothing is
\* missing, nothing stale, and it is marked all fresh unless the ledger
\* really has no event about one of its objects.
AskedFor(q) == {r.src : r \in {x \in Range(index) : Matches(x, q)}}
CalmBundleIsComplete ==
    \A c \in Calls : (calls[c].pc = "bundle" /\ calls[c].alone) =>
        LET b     == calls[c]
            shown == {o.src : o \in b.resolved}
        IN
        /\ b.missing = {}
        /\ assessFreshness(b).staleCount = 0
        /\ shown \subseteq AskedFor(b.query)
        /\ Cardinality(shown) = Smaller(PageLimit, Cardinality(AskedFor(b.query)))
        /\ AskedFor(b.query) \cap Entities
              = {e \in Live : Matches(EntityImage(e, Latest(e)), b.query)}
        /\ allFresh(b) <=> \A o \in b.resolved : events[o.src] > 0
=============================================================================
