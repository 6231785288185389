----------------------------- MODULE LocalStores -----------------------------
(***************************************************************************)
(* LocalCanonicalStore, LocalArtifactStore and LocalIndexStore: maps that   *)
(* are loaded when the process opens the store and written back whole, each *)
(* to its own file, by every call that changes them.                        *)
(***************************************************************************)
EXTENDS StoreState

\* A map was changed and persist() rewrites its file: tmp file, then rename.
\* When that throws, the map stays ahead of the file.
Persist(p, request, store, rows) ==
    /\ memory' = [memory EXCEPT ![store] = rows]
    /\ UNCHANGED call
    /\ \/ /\ stored' = [stored EXCEPT ![store] = rows]
          /\ Told(p, request, "ok")
          /\ UNCHANGED <<process, faults>>
       \/ /\ Fault
          /\ ToldFailure(p, request)
          /\ \/ UNCHANGED <<stored, process>>
             \/ stored' = [stored EXCEPT ![store] = rows] /\ Dies(p)

\* Wrong: the metadata is written first.
LocalArtifact_MetadataFirst(p, request, artifact) ==
    \/ /\ content' = content \cup {artifact.hash}
       /\ Persist(p, request, "artifacts", memory.artifacts \cup {artifact})
    \/ /\ UNCHANGED content
       /\ faults < MaxFaults
       /\ Persist(p, request, "artifacts", memory.artifacts \cup {artifact})

\* The bytes go to content/<hash>, by tmp file and rename and only when no file
\* of that name exists, before the metadata is touched.
LocalArtifact(p, request, artifact) ==
    \/ /\ content' = content \cup {artifact.hash}
       /\ Persist(p, request, "artifacts", memory.artifacts \cup {artifact})
    \/ artifact.hash \notin content /\ Throws(p, request)

-----------------------------------------------------------------------------
(* LocalCanonicalStore. *)

LocalGet(p)      == \E id \in Ids : Answers(p, <<"get", id>>, Latest(memory.entities[id]))
LocalVersions(p) == \E id \in Ids : Answers(p, <<"versions", id>>, memory.entities[id])

LocalCreate(p) ==
    \E id \in Ids, body \in Contents :
        /\ memory.entities[id] = <<>>
        /\ Persist(p, <<"create", id, body>>, "entities",
                   [memory.entities EXCEPT ![id] = WithVersion(@, 1, body)])
        /\ UNCHANGED content

LocalUpdate(p) ==
    \E id \in Ids, f \in Fields, x \in Values :
        LET history == memory.entities[id]
        IN IF history = <<>>
           THEN Answers(p, <<"update", id, f, x>>, "not found")
           ELSE /\ Newest(history) < MaxVersion
                /\ Persist(p, <<"update", id, f, x>>, "entities",
                           [memory.entities EXCEPT ![id] =
                               Patched(@, history[Newest(history)], f, x)])
                /\ UNCHANGED content

LocalImportEntity(p) ==
    \E id \in Ids, v \in Versions, body \in Contents :
        LET history == memory.entities[id]
        IN IF v \in DOMAIN history
           THEN Answers(p, <<"import", id, v, body>>, ContentMatch(history[v], body))
           ELSE /\ Persist(p, <<"import", id, v, body>>, "entities",
                           [memory.entities EXCEPT ![id] = WithVersion(@, v, body)])
                /\ UNCHANGED content

-----------------------------------------------------------------------------
(* LocalArtifactStore. *)

LocalArtifacts(p) ==
    \E file \in Files : Answers(p, <<"artifacts", file>>, OfFile(memory.artifacts, file))

LocalContent(p) ==
    \E a \in Artifacts : Answers(p, <<"content", a>>, ContentRead(memory.artifacts, a))

LocalIngest(p) ==
    \E a \in Artifacts, file \in Files, hash \in Hashes :
        /\ ~Holds(memory.artifacts, a)
        /\ LocalArtifact(p, <<"ingest", a, file, hash>>,
               ArtifactOf(a, file, NextVersion(memory.artifacts, file), hash))

LocalImportArtifact(p) ==
    \E a \in Artifacts, file \in Files, hash \in Hashes, n \in 1..Cardinality(Artifacts) :
        LET incoming == ArtifactOf(a, file, n, hash)
        IN IF Holds(memory.artifacts, a)
           THEN Answers(p, <<"import artifact", incoming>>,
                        ContentMatch(TRUE, incoming \in memory.artifacts))
           ELSE LocalArtifact(p, <<"import artifact", incoming>>, incoming)

-----------------------------------------------------------------------------
(* LocalIndexStore. *)

LocalSearch(p) ==
    \E s \in Sources : Answers(p, <<"search", s>>, Found(memory.index, s))

LocalIndex(p) ==
    /\ Len(memory.index) < MaxRecords
    /\ \E s \in Sources : Persist(p, <<"index", s>>, "index", Append(memory.index, s))
    /\ UNCHANGED content

\* delete() of an id nobody has rewrites the file all the same.
LocalRemove(p) ==
    /\ \E i \in 0..Len(memory.index) :
          Persist(p, <<"remove", i>>, "index", Without(memory.index, i))
    /\ UNCHANGED content

LocalClear(p) == Persist(p, <<"clear">>, "index", <<>>) /\ UNCHANGED content

LocalReplaceAll(p) ==
    /\ \E records \in [1..Cardinality(Sources) -> Sources] :
          Persist(p, <<"replaceAll", records>>, "index", records)
    /\ UNCHANGED content

-----------------------------------------------------------------------------

LocalCall(p) ==
    /\ backend = "local"
    /\ Idle(p)
    /\ \/ LocalGet(p) \/ LocalVersions(p) \/ LocalCreate(p) \/ LocalUpdate(p)
       \/ LocalImportEntity(p) \/ LocalArtifacts(p) \/ LocalContent(p) \/ LocalIngest(p)
       \/ LocalImportArtifact(p) \/ LocalSearch(p) \/ LocalIndex(p)
       \/ LocalRemove(p) \/ LocalClear(p) \/ LocalReplaceAll(p)
=============================================================================
