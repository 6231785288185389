---------------------------- MODULE SharedStores -----------------------------
(***************************************************************************)
(* The three backends of the truth stores, and that each of them keeps the  *)
(* promises of the store interfaces (StoreContract): the local files held   *)
(* by one process, the SQLite database and the Postgres table shared by     *)
(* several.                                                                 *)
(***************************************************************************)
EXTENDS LocalStores, SqliteStores, PostgresStores

\* Opening a store.
Open(p) ==
    /\ OpenLocal(p) \/ OpenSqlite(p) \/ OpenPostgres(p) \/ Migrate(p)
    /\ UNCHANGED <<stored, content, call, answer, faults, calls>>

\* A call begins (and ends, when it has no second half).
Begin(p) ==
    /\ calls < MaxCalls
    /\ calls' = calls + 1
    /\ LocalCall(p) \/ SqliteCall(p) \/ PostgresCall(p)
    /\ UNCHANGED migrated

Finish(p) == (SqliteFinish(p) \/ PostgresFinish(p)) /\ UNCHANGED <<migrated, calls>>

Next ==
    \/ \E p \in Processes : /\ Open(p) \/ Begin(p) \/ Finish(p) \/ Stop(p)
                            /\ UNCHANGED <<backend, damaged>>
    \/ Alter

Spec == Init /\ [][Next]_vars

-----------------------------------------------------------------------------
(* The abstraction: what a read returns comes from the maps of the process  *)
(* that holds the local stores, and from the database otherwise.            *)

Held == backend = "local" /\ \E p \in Processes : process[p] # "out"

\* What a read returns now.
Seen == IF Held THEN memory ELSE stored

Contract == INSTANCE StoreContract WITH
    Clients <- Processes,
    seen    <- Seen,
    kept    <- stored

\* Where a shared backend lapses, and on which call: a Postgres update whose
\* get() was overtaken by another process's update, a Postgres import that meets
\* another row, and a SQLite ingest whose COUNT was overtaken.
Lapses(p) ==
    \/ /\ backend = "postgres" /\ In(p, "update")
       /\ call[p].latest # Latest(stored.entities[call[p].id])
       /\ Contract!StaleUpdate(p)
    \/ /\ backend = "postgres" /\ Idle(p)
       /\ Contract!SilentImport(p)
    \/ /\ backend = "sqlite" /\ In(p, "ingest")
       /\ call[p].version # NextVersion(stored.artifacts, call[p].file)
       /\ Contract!StaleIngest(p)

\* Each backend does what the interfaces promise, those three lapses apart:
\* acknowledged writes survive a restart, versions and artifacts are only ever
\* added and numbered in order, an update merges on the latest version, an import
\* never overwrites, and reads, conflicts and integrity errors say what is there.
ImplementsContract ==
    /\ Contract!ContractInit
    /\ [][Contract!ContractNext \/ \E p \in Processes : Lapses(p) /\ UNCHANGED damaged]_(
          Contract!contractVars)

\* "IDENTICAL to LocalCanonicalStore" (postgres-canonical-store.ts), and "throws
\* ImportConflictError when an entity with the same id exists but the incoming
\* content differs" (contracts/canonical-store.ts): no lapse under Postgres.
PostgresIsIdentical ==
    /\ Contract!ContractInit
    /\ [][backend = "postgres" => Contract!ContractNext]_(Contract!contractVars)

\* Whatever fails or is killed in the middle of an ingest or an import, no
\* artifact is known whose bytes were not stored first.
BytesBeforeMetadata ==
    \A a \in stored.artifacts \cup memory.artifacts : a.hash \in content
=============================================================================
