---------------------------- MODULE SqliteStores -----------------------------
(***************************************************************************)
(* SqliteCanonicalStore, SqliteArtifactStore and SqliteIndexStore over one  *)
(* database, which several processes may have open.                         *)
(*                                                                          *)
(* A statement outside a transaction commits by itself.  better-sqlite3     *)
(* begins a transaction deferred: one that starts by reading keeps that     *)
(* snapshot, and its first write throws when anybody has committed since.   *)
(* Any statement may throw, and what it belongs to then leaves no trace.    *)
(***************************************************************************)
EXTENDS StoreState

\* The last statement of a call, and its commit.
Writes(p, request, store, rows, hashes) ==
    \/ /\ Commits(p, store, rows)
       /\ content' = content \cup hashes
       /\ UNCHANGED memory
       /\ \/ Told(p, request, "ok") /\ UNCHANGED <<process, faults>>
          \/ Fault /\ ToldFailure(p, request) /\ Dies(p)
    \/ Throws(p, request)

\* A statement that cannot succeed.
Refused(p, request) == Answers(p, <<request[1]>>, "failed")


-----------------------------------------------------------------------------
(* SqliteCanonicalStore. *)

SqliteGet(p)      == \E id \in Ids : Answers(p, <<"get", id>>, Latest(stored.entities[id]))
SqliteVersions(p) == \E id \in Ids : Answers(p, <<"versions", id>>, stored.entities[id])

SqliteCreate(p) ==
    \E id \in Ids, body \in Contents :
        /\ stored.entities[id] = <<>>
        /\ Writes(p, <<"create", id, body>>, "entities",
                  [stored.entities EXCEPT ![id] = WithVersion(@, 1, body)], {})

\* update: BEGIN and the SELECT of the latest row ...
SqliteUpdateReads(p) ==
    \E id \in Ids, f \in Fields, x \in Values :
        IF stored.entities[id] = <<>>
        THEN Answers(p, <<"update", id, f, x>>, "not found")
        ELSE /\ Newest(stored.entities[id]) < MaxVersion
             /\ Reads(p, [name |-> "update", id |-> id, field |-> f, value |-> x,
                          latest |-> Latest(stored.entities[id]), overtaken |-> FALSE])

\* Wrong: no transaction around the SELECT and the INSERT, and the version
\* number taken anew.
SqliteUpdateWrites_Autocommit(p) ==
    /\ In(p, "update")
    /\ Newest(stored.entities[call[p].id]) < MaxVersion
    /\ Writes(p, Patch(p), "entities",
              [stored.entities EXCEPT ![call[p].id] =
                  Patched(@, call[p].latest.content, call[p].field, call[p].value)], {})

\* ... then the INSERT of version N+1 and COMMIT.
SqliteUpdateWrites(p) ==
    /\ In(p, "update")
    /\ IF call[p].overtaken
       THEN Refused(p, <<"update">>)
       ELSE Writes(p, Patch(p), "entities",
                   [stored.entities EXCEPT ![call[p].id] =
                       WithVersion(@, call[p].latest.version + 1,
                                   [call[p].latest.content EXCEPT
                                       ![call[p].field] = call[p].value])], {})

\* importSnapshot: the SELECT of that (id, version) ...
SqliteImportReads(p) ==
    \E id \in Ids, v \in Versions, body \in Contents :
        IF v \in DOMAIN stored.entities[id]
        THEN Answers(p, <<"import", id, v, body>>, ContentMatch(stored.entities[id][v], body))
        ELSE Reads(p, [name |-> "import", id |-> id, version |-> v,
                       content |-> body, overtaken |-> FALSE])

\* ... then the INSERT, a statement of its own: the primary key (id, version)
\* refuses it when somebody else inserted that row in between.
SqliteImportWrites(p) ==
    /\ In(p, "import")
    /\ LET id == call[p].id
           v  == call[p].version
       IN IF v \in DOMAIN stored.entities[id]
          THEN Refused(p, <<"import">>)
          ELSE Writes(p, <<"import", id, v, call[p].content>>, "entities",
                      [stored.entities EXCEPT ![id] = WithVersion(@, v, call[p].content)], {})

-----------------------------------------------------------------------------
(* SqliteArtifactStore. *)

SqliteArtifacts(p) ==
    \E file \in Files : Answers(p, <<"artifacts", file>>, OfFile(stored.artifacts, file))

SqliteContent(p) ==
    \E a \in Artifacts : Answers(p, <<"content", a>>, ContentRead(stored.artifacts, a))

\* ingest: the COUNT of that file name, outside the transaction ...
SqliteIngestCounts(p) ==
    \E file \in Files, hash \in Hashes :
        Reads(p, [name |-> "ingest", file |-> file, hash |-> hash,
                  version |-> NextVersion(stored.artifacts, file), overtaken |-> FALSE])

\* ... then the bytes (INSERT OR IGNORE) and the metadata, under a new id, in one.
SqliteIngestWrites(p) ==
    /\ In(p, "ingest")
    /\ \E a \in Artifacts :
          /\ ~Holds(stored.artifacts, a)
          /\ Writes(p, <<"ingest", a, call[p].file, call[p].hash>>, "artifacts",
                    stored.artifacts \cup
                        {ArtifactOf(a, call[p].file, call[p].version, call[p].hash)},
                    {call[p].hash})

\* importSnapshot: the SELECT by id ...
SqliteImportArtifactReads(p) ==
    \E a \in Artifacts, file \in Files, hash \in Hashes, n \in 1..Cardinality(Artifacts) :
        LET incoming == ArtifactOf(a, file, n, hash)
        IN IF Holds(stored.artifacts, a)
           THEN Answers(p, <<"import artifact", incoming>>,
                        ContentMatch(TRUE, incoming \in stored.artifacts))
           ELSE Reads(p, [name |-> "import artifact", artifact |-> incoming,
                          overtaken |-> FALSE])

\* ... then both rows in one transaction, which the primary key refuses when the
\* id has come in between.
SqliteImportArtifactWrites(p) ==
    /\ In(p, "import artifact")
    /\ IF Holds(stored.artifacts, call[p].artifact.id)
       THEN Refused(p, <<"import artifact">>)
       ELSE Writes(p, <<"import artifact", call[p].artifact>>, "artifacts",
                   stored.artifacts \cup {call[p].artifact}, {call[p].artifact.hash})

-----------------------------------------------------------------------------
(* SqliteIndexStore. *)

SqliteSearch(p) ==
    \E s \in Sources : Answers(p, <<"search", s>>, Found(stored.index, s))

SqliteIndex(p) ==
    /\ Len(stored.index) < MaxRecords
    /\ \E s \in Sources : Writes(p, <<"index", s>>, "index", Append(stored.index, s), {})

SqliteRemove(p) ==
    \E i \in 0..Len(stored.index) :
        IF i = 0 THEN Answers(p, <<"remove", i>>, "ok")
        ELSE Writes(p, <<"remove", i>>, "index", Without(stored.index, i), {})

SqliteClear(p) ==
    IF stored.index = <<>> THEN Answers(p, <<"clear">>, "ok")
    ELSE Writes(p, <<"clear">>, "index", <<>>, {})

\* replaceAll: the DELETE and every INSERT in one transaction, which begins with
\* a write and so has no snapshot to lose.
SqliteReplaceAll(p) ==
    \E records \in [1..Cardinality(Sources) -> Sources] :
        Writes(p, <<"replaceAll", records>>, "index", records, {})

-----------------------------------------------------------------------------

SqliteCall(p) ==
    /\ backend = "sqlite"
    /\ Idle(p)
    /\ \/ SqliteGet(p) \/ SqliteVersions(p) \/ SqliteCreate(p) \/ SqliteUpdateReads(p)
       \/ SqliteImportReads(p) \/ SqliteArtifacts(p) \/ SqliteContent(p) \/ SqliteIngestCounts(p)
       \/ SqliteImportArtifactReads(p) \/ SqliteSearch(p) \/ SqliteIndex(p)
       \/ SqliteRemove(p) \/ SqliteClear(p) \/ SqliteReplaceAll(p)

SqliteFinish(p) ==
    /\ backend = "sqlite"
    /\ process[p] = "open"
    /\ \/ SqliteUpdateWrites(p) \/ SqliteImportWrites(p)
       \/ SqliteIngestWrites(p) \/ SqliteImportArtifactWrites(p)
=============================================================================
