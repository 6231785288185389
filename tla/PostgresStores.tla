--------------------------- MODULE PostgresStores ----------------------------
(***************************************************************************)
(* PostgresCanonicalStore: a table several processes write through their    *)
(* connection pools, one statement at a time and never in a transaction.    *)
(* The other stores of such a cluster are the local ones or the SQLite ones.*)
(* An answer can be lost on its way back, after the row was written.        *)
(***************************************************************************)
EXTENDS StoreState

Inserts(p, request, rows) ==
    \/ /\ Commits(p, "entities", rows)
       /\ UNCHANGED <<content, memory, process>>
       /\ \/ Told(p, request, "ok") /\ UNCHANGED faults
          \/ Fault /\ ToldFailure(p, request)
    \/ Throws(p, request)

PostgresGet(p)      == \E id \in Ids : Answers(p, <<"get", id>>, Latest(stored.entities[id]))
PostgresVersions(p) == \E id \in Ids : Answers(p, <<"versions", id>>, stored.entities[id])

PostgresCreate(p) ==
    \E id \in Ids, body \in Contents :
        /\ stored.entities[id] = <<>>
        /\ Inserts(p, <<"create", id, body>>,
                   [stored.entities EXCEPT ![id] = WithVersion(@, 1, body)])

\* update: a get() of the latest version ...
PostgresUpdateReads(p) ==
    \E id \in Ids, f \in Fields, x \in Values :
        IF stored.entities[id] = <<>>
        THEN Answers(p, <<"update", id, f, x>>, "not found")
        ELSE Reads(p, [name |-> "update", id |-> id, field |-> f, value |-> x,
                       latest |-> Latest(stored.entities[id]), overtaken |-> FALSE])

\* ... then an INSERT that takes the table's highest version and one more, and
\* the fields that get() returned with the patch on top.  It collides with an
\* update of the same entity that executes at the same time.
PostgresUpdateWrites(p) ==
    /\ call[p] # None
    /\ LET id == call[p].id
       IN \/ /\ Newest(stored.entities[id]) < MaxVersion
             /\ Inserts(p, Patch(p),
                        [stored.entities EXCEPT ![id] =
                            Patched(@, call[p].latest.content, call[p].field, call[p].value)])
          \/ /\ \E q \in Processes \ {p} : call[q] # None /\ call[q].id = id
             /\ Answers(p, <<"update">>, "failed")

\* importSnapshot: ON CONFLICT DO NOTHING, then the row that is there is read
\* back, whatever it holds.
PostgresImportEntity(p) ==
    \E id \in Ids, v \in Versions, body \in Contents :
        IF v \in DOMAIN stored.entities[id]
        THEN Answers(p, <<"import", id, v, body>>, "ok")
        ELSE Inserts(p, <<"import", id, v, body>>,
                     [stored.entities EXCEPT ![id] = WithVersion(@, v, body)])

PostgresCall(p) ==
    /\ backend = "postgres"
    /\ Idle(p)
    /\ \/ PostgresGet(p) \/ PostgresVersions(p) \/ PostgresCreate(p)
       \/ PostgresUpdateReads(p) \/ PostgresImportEntity(p)

PostgresFinish(p) ==
    backend = "postgres" /\ process[p] = "open" /\ PostgresUpdateWrites(p)
=============================================================================
