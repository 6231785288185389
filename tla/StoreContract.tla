---------------------------- MODULE StoreContract ----------------------------
(***************************************************************************)
(* What the kernel may rely on, whichever backend a store runs on: the      *)
(* interfaces CanonicalStore, ArtifactStore and IndexStore (contracts/).    *)
(*                                                                          *)
(*   seen   what a read returns now: the entities with all their versions,  *)
(*          the artifacts, the index records in insertion order             *)
(*   kept   what a restart finds                                            *)
(*   answer the last answer: to whom, what was asked, what came of it       *)
(*                                                                          *)
(* A call that returns has changed both.  A call that throws may have       *)
(* changed nothing, only what is seen (a map that is ahead of its file), or *)
(* both (an answer lost on its way back, or a caller killed before it).      *)
(***************************************************************************)
EXTENDS Naturals, Sequences, FiniteSets

CONSTANTS Clients, Ids, Fields, Values, Files, Hashes, Artifacts, Sources,
          MaxVersion    \* the highest version number of an entity

VARIABLES seen, kept,   \* [entities, artifacts, index]
          damaged,      \* content hashes whose stored bytes were altered
          answer        \* [to, call, result]

contractVars == <<seen, kept, damaged, answer>>

Versions == 1..MaxVersion
Contents == [Fields -> Values]

\* The newest version number of an entity: what get() and list() return.
Newest(history) == CHOOSE v \in DOMAIN history : \A w \in DOMAIN history : w <= v

Latest(history) ==
    IF DOMAIN history = {} THEN [version |-> 0, content |-> <<>>]   \* null
    ELSE [version |-> Newest(history), content |-> history[Newest(history)]]

\* A history with one more version.
WithVersion(history, v, content) ==
    [w \in DOMAIN history \cup {v} |-> IF w = v THEN content ELSE history[w]]

Unused(es) == {id \in Ids : DOMAIN es[id] = {}}
InUse(es)  == Ids \ Unused(es)

OfFile(as, file) == {a \in as : a.file = file}

\* A read of an artifact's content: what it returns, and never the bytes of
\* another hash.
ContentRead(as, a) ==
    IF \A b \in as : b.id # a THEN "null"
    ELSE IF (CHOOSE b \in as : b.id = a).hash \in damaged THEN "integrity error"
    ELSE "bytes"

-----------------------------------------------------------------------------
(* How a call ends.  A request is its name and what was passed. *)

Told(c, request, result) ==
    answer' = [to |-> c, call |-> request, result |-> result]

\* The write happened, and the caller knows.
Done(c, request, store, value) ==
    /\ seen' = [seen EXCEPT ![store] = value]
    /\ kept' = [kept EXCEPT ![store] = value]
    /\ Told(c, request, "ok")

\* It happened, at least for whoever reads on, but the caller hears that it failed.
Failed(c, request, store, value) ==
    /\ seen' = [seen EXCEPT ![store] = value]
    /\ kept' \in {kept, [kept EXCEPT ![store] = value]}
    /\ Told(c, <<request[1]>>, "failed")

Ends(c, request, store, value) ==
    Done(c, request, store, value) \/ Failed(c, request, store, value)

\* Nothing was to be written.
Answered(c, request, result) == UNCHANGED <<seen, kept>> /\ Told(c, request, result)

\* Any write may throw and leave no trace.
Throws(c) ==
    \E name \in {"create", "update", "import", "ingest", "import artifact",
                 "index", "remove", "clear", "replaceAll"} : Answered(c, <<name>>, "failed")

-----------------------------------------------------------------------------
(* CanonicalStore. *)

\* create: a new id, at version 1.
Create(c) ==
    \E id \in Unused(seen.entities), content \in Contents :
        Ends(c, <<"create", id, content>>, "entities",
             [seen.entities EXCEPT ![id] = WithVersion(@, 1, content)])

\* update: version N+1 is version base with the patch on top; earlier versions stay.
UpdateOn(c, id, base, f, x) ==
    LET history == seen.entities[id]
    IN Ends(c, <<"update", id, f, x>>, "entities",
            [seen.entities EXCEPT ![id] =
                WithVersion(@, Newest(history) + 1, [history[base] EXCEPT ![f] = x])])

\* It merges on the newest version.
Update(c) ==
    \E id \in Ids, f \in Fields, x \in Values :
        \/ /\ id \in InUse(seen.entities)
           /\ UpdateOn(c, id, Newest(seen.entities[id]), f, x)
        \/ /\ id \in Unused(seen.entities)
           /\ Answered(c, <<"update", id, f, x>>, "not found")

\* importSnapshot: the version it carries.  The same version twice is fine when
\* the contents agree and a conflict when they differ.
ImportEntity(c) ==
    \E id \in Ids, v \in Versions, content \in Contents :
        LET request == <<"import", id, v, content>>
        IN IF v \notin DOMAIN seen.entities[id]
           THEN Ends(c, request, "entities",
                     [seen.entities EXCEPT ![id] = WithVersion(@, v, content)])
           ELSE Answered(c, request,
                         IF seen.entities[id][v] = content THEN "ok" ELSE "conflict")

\* get, list, exists: the newest version of what is seen.
ReadLatest(c) == \E id \in Ids : Answered(c, <<"get", id>>, Latest(seen.entities[id]))

\* listVersions, getVersion: the whole history.
ReadHistory(c) == \E id \in Ids : Answered(c, <<"versions", id>>, seen.entities[id])

-----------------------------------------------------------------------------
(* ArtifactStore: nothing is ever changed in place. *)

\* ingest: a new id, at version n.
IngestAs(c, a, file, n, hash) ==
    /\ \A b \in seen.artifacts : b.id # a
    /\ Ends(c, <<"ingest", a, file, hash>>, "artifacts",
            seen.artifacts \cup {[id |-> a, file |-> file, version |-> n, hash |-> hash]})

\* Its version is one more than the artifacts of the same name, as the adapters
\* say; the interface only says that one is stamped.
Ingest(c) ==
    \E file \in Files, hash \in Hashes, a \in Artifacts :
        IngestAs(c, a, file, Cardinality(OfFile(seen.artifacts, file)) + 1, hash)

\* importSnapshot of an artifact.
ImportArtifact(c) ==
    \E file \in Files, hash \in Hashes, a \in Artifacts, n \in 1..Cardinality(Artifacts) :
        LET incoming == [id |-> a, file |-> file, version |-> n, hash |-> hash]
        IN IF \A b \in seen.artifacts : b.id # a
           THEN Ends(c, <<"import artifact", incoming>>, "artifacts",
                     seen.artifacts \cup {incoming})
           ELSE Answered(c, <<"import artifact", incoming>>,
                         IF incoming \in seen.artifacts THEN "ok" ELSE "conflict")

\* get, list, exists, versions: the metadata of the artifacts of a name.
ReadArtifacts(c) ==
    \E file \in Files : Answered(c, <<"artifacts", file>>, OfFile(seen.artifacts, file))

\* getContent.
ReadContent(c) ==
    \E a \in Artifacts : Answered(c, <<"content", a>>, ContentRead(seen.artifacts, a))

-----------------------------------------------------------------------------
(* IndexStore: derivative records, in insertion order. *)

\* What a search for a source returns.
Found(records, x) == SelectSeq(records, LAMBDA y : y = x)

\* index, remove, clear, replaceAll: each of them at one instant.
Index(c)   == \E x \in Sources : Ends(c, <<"index", x>>, "index", Append(seen.index, x))
Remove(c)  == \E i \in 0..Len(seen.index) :
                 Ends(c, <<"remove", i>>, "index",
                      [j \in 1..(Len(seen.index) - IF i = 0 THEN 0 ELSE 1) |->
                          seen.index[IF i = 0 \/ j < i THEN j ELSE j + 1]])
Clear(c)   == Ends(c, <<"clear">>, "index", <<>>)
Replace(c) == \E records \in [1..Cardinality(Sources) -> Sources] :
                 Ends(c, <<"replaceAll", records>>, "index", records)
Search(c)  == \E x \in Sources : Answered(c, <<"search", x>>, Found(seen.index, x))

-----------------------------------------------------------------------------
(* The world around it. *)

\* A process that held the store stops; the next one finds what was kept.
Restart == seen' = kept /\ UNCHANGED <<kept, answer>>

\* Bytes are altered below the store.
Alter == /\ \E h \in Hashes : damaged' = damaged \cup {h}
         /\ UNCHANGED <<seen, kept, answer>>

ContractInit ==
    /\ seen = [entities |-> [id \in Ids |-> <<>>], artifacts |-> {}, index |-> <<>>]
    /\ kept = seen
    /\ damaged = {}
    /\ answer = [to |-> "nobody", call |-> <<"none">>, result |-> "none"]

Called(c) ==
    \/ Create(c) \/ Update(c) \/ ImportEntity(c)
    \/ ReadLatest(c) \/ ReadHistory(c)
    \/ Ingest(c) \/ ImportArtifact(c)
    \/ ReadArtifacts(c) \/ ReadContent(c)
    \/ Index(c) \/ Remove(c) \/ Clear(c) \/ Replace(c) \/ Search(c)
    \/ Throws(c)

ContractNext ==
    \/ (Restart \/ \E c \in Clients : Called(c)) /\ UNCHANGED damaged
    \/ Alter

ContractSpec == ContractInit /\ [][ContractNext]_contractVars

-----------------------------------------------------------------------------
(* Lapses: steps the promises do not allow. *)

\* An update merges on a version that is not the newest any more.
StaleUpdate(c) ==
    \E id \in InUse(seen.entities), f \in Fields, x \in Values :
        \E base \in DOMAIN seen.entities[id] \ {Newest(seen.entities[id])} :
            UpdateOn(c, id, base, f, x)

\* An import that meets other content says nothing of it.
SilentImport(c) ==
    \E id \in Ids, v \in Versions, content \in Contents :
        /\ v \in DOMAIN seen.entities[id]
        /\ seen.entities[id][v] # content
        /\ Answered(c, <<"import", id, v, content>>, "ok")

\* An ingest takes a version number that an artifact of the name has had.
StaleIngest(c) ==
    \E file \in Files, hash \in Hashes, a \in Artifacts :
        \E n \in 1..Cardinality(OfFile(seen.artifacts, file)) :
            IngestAs(c, a, file, n, hash)
=============================================================================
