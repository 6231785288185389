----------------------------- MODULE StoreState ------------------------------
(***************************************************************************)
(* What the backends of one cluster share: where the stores keep their      *)
(* truth, the processes that hold them open, and the calls under way.       *)
(*                                                                          *)
(*   backend   the backend every process chose (adapters/factory.ts)        *)
(*   stored    the files or the tables: entities with all their versions,   *)
(*             artifacts, index records in insertion order                  *)
(*   content   content hashes whose bytes are stored                        *)
(*   damaged   content hashes whose stored bytes were altered               *)
(*   migrated  the row of migration 001_init in the SQLite database         *)
(*   memory    the maps of the process that holds the local stores          *)
(*   process   process -> "out", "opening" (SQLite, before its migration),  *)
(*             "open", "dying" (killed before its caller heard)             *)
(*   call      process -> the call it is in the middle of                   *)
(*   answer    the last answer, and to whom                                 *)
(*                                                                          *)
(* Rows and records are what the properties tell apart: an entity version   *)
(* is its fields (name, attributes), an artifact its id, file name, version *)
(* and hash, an index record its source.                                    *)
(***************************************************************************)
EXTENDS Naturals, Sequences, FiniteSets, SequencesExt

CONSTANTS Processes, Ids, Fields, Values, Files, Hashes, Artifacts, Sources,
          None,         \* no call under way
          MaxVersion,   \* bound: versions of an entity
          MaxRecords,   \* bound: index records
          MaxCalls,     \* bound: calls in a behaviour
          MaxFaults     \* bound: statements and writes that throw, kills after a write

ASSUME StoresAssumption == MaxVersion \in Nat \ {0} /\ IsFiniteSet(Sources)

VARIABLES backend, stored, content, damaged, migrated, memory, process, call,
          answer, calls, faults

vars == <<backend, stored, content, damaged, migrated, memory, process, call,
          answer, calls, faults>>

Versions == 1..MaxVersion
Contents == [Fields -> Values]

\* No rows: what a first open finds, and what migration 001_init creates.
NoRows == [entities |-> [id \in Ids |-> <<>>], artifacts |-> {}, index |-> <<>>]

Newest(history) == CHOOSE v \in DOMAIN history : \A w \in DOMAIN history : w <= v

Latest(history) ==
    IF DOMAIN history = {} THEN [version |-> 0, content |-> <<>>]   \* null
    ELSE [version |-> Newest(history), content |-> history[Newest(history)]]

\* One more version; the earlier ones are retained.
WithVersion(history, v, body) ==
    [w \in DOMAIN history \cup {v} |-> IF w = v THEN body ELSE history[w]]

\* Version N+1 from the latest, with the patch on top.
Patched(history, base, f, x) ==
    WithVersion(history, Newest(history) + 1, [base EXCEPT ![f] = x])

OfFile(as, file) == {a \in as : a.file = file}

\* The version an ingest stamps: the artifacts of that name, and one more.
NextVersion(as, file) == Cardinality(OfFile(as, file)) + 1

ArtifactOf(a, file, n, hash) == [id |-> a, file |-> file, version |-> n, hash |-> hash]

Holds(as, a) == \E b \in as : b.id = a

\* The two gates of a content read.
ContentRead(as, a) ==
    IF ~Holds(as, a) THEN "null"
    ELSE LET hash == (CHOOSE b \in as : b.id = a).hash
         IN IF hash \notin content THEN "null"
            ELSE IF hash \in damaged THEN "integrity error" ELSE "bytes"

\* What an import of something that is already there comes to.
ContentMatch(existing, incoming) == IF existing = incoming THEN "ok" ELSE "conflict"

\* The records of one source, in insertion order.
Found(records, s) == SelectSeq(records, LAMBDA r : r = s)

Without(records, i) == IF i \in DOMAIN records THEN RemoveAt(records, i) ELSE records

-----------------------------------------------------------------------------
(* The calls of a process. *)

Idle(p) == process[p] = "open" /\ call[p] = None

\* A request is its name and what was passed.  Of one that failed only the name
\* is told.
Told(p, request, result) ==
    answer' = [to |-> p, call |-> request, result |-> result]

ToldFailure(p, request) == Told(p, <<request[1]>>, "failed")

Fault == faults < MaxFaults /\ faults' = faults + 1

\* A killed process does nothing more.
Dies(p) == process' = [process EXCEPT ![p] = "dying"]

\* A call that wrote nothing is over.
Answers(p, request, result) ==
    /\ Told(p, request, result)
    /\ call' = [call EXCEPT ![p] = None]
    /\ UNCHANGED <<stored, content, memory, process, faults>>

Throws(p, request) ==
    /\ Fault
    /\ ToldFailure(p, request)
    /\ call' = [call EXCEPT ![p] = None]
    /\ UNCHANGED <<stored, content, memory, process>>

\* The first half of a call: what it has read so far.
Reads(p, reading) ==
    /\ call' = [call EXCEPT ![p] = reading]
    /\ UNCHANGED <<stored, content, memory, process, answer, faults>>

\* The call a process is in the middle of.
In(p, name) == call[p] # None /\ call[p].name = name

\* The update it is in the middle of, as it was asked for.
Patch(p) == <<"update", call[p].id, call[p].field, call[p].value>>

\* The rows of one store changed.  A transaction that read before that commit
\* can write nothing any more.
Commits(p, store, rows) ==
    /\ stored' = [stored EXCEPT ![store] = rows]
    /\ call' = [q \in Processes |->
                   IF q = p THEN None
                   ELSE IF call[q] # None
                        THEN [call[q] EXCEPT !.overtaken = TRUE] ELSE call[q]]

-----------------------------------------------------------------------------
(* Opening and closing. *)

\* load(): the whole file, versions grouped by entity.
Load == stored

\* createCluster with the local stores: the maps are loaded from the files.  One
\* process holds them at a time.
OpenLocal(p) ==
    /\ backend = "local"
    /\ \A q \in Processes : process[q] = "out"
    /\ process' = [process EXCEPT ![p] = "open"]
    /\ memory' = Load
    /\ UNCHANGED migrated

\* createCluster on Postgres: a pool.
OpenPostgres(p) ==
    /\ backend = "postgres"
    /\ process[p] = "out"
    /\ process' = [process EXCEPT ![p] = "open"]
    /\ UNCHANGED <<memory, migrated>>

\* SqliteDb.open up to the question whether the migration was applied.
OpenSqlite(p) ==
    /\ backend = "sqlite"
    /\ process[p] = "out"
    /\ process' = [process EXCEPT ![p] = IF migrated THEN "open" ELSE "opening"]
    /\ UNCHANGED <<memory, migrated>>

\* The migration and its bookkeeping row in one transaction.  Of two processes
\* that asked at the same time, the second violates the row's primary key and
\* its open throws.
Migrate(p) ==
    /\ process[p] = "opening"
    /\ process' = [process EXCEPT ![p] = IF migrated THEN "out" ELSE "open"]
    /\ migrated' = TRUE
    /\ UNCHANGED memory

\* A process closes or is killed, in the middle of a call too: its maps are gone,
\* an open transaction rolls back.
Stop(p) ==
    /\ process[p] # "out"
    /\ process' = [process EXCEPT ![p] = "out"]
    /\ call' = [call EXCEPT ![p] = None]
    /\ memory' = NoRows
    /\ UNCHANGED <<stored, content, migrated, answer, faults, calls>>

\* Stored bytes are altered from outside.
Alter ==
    /\ \E h \in content \ damaged : damaged' = damaged \cup {h}
    /\ UNCHANGED <<backend, stored, content, migrated, memory, process, call,
                   answer, calls, faults>>

Init ==
    /\ backend \in {"local", "sqlite", "postgres"}
    /\ stored = NoRows
    /\ content = {}
    /\ damaged = {}
    /\ migrated = FALSE
    /\ memory = NoRows
    /\ process = [p \in Processes |-> "out"]
    /\ call = [p \in Processes |-> None]
    /\ answer = [to |-> "nobody", call |-> <<"none">>, result |-> "none"]
    /\ calls = 0
    /\ faults = 0
=============================================================================
