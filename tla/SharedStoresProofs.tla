------------------------- MODULE SharedStoresProofs --------------------------
(***************************************************************************)
(* Proofs about SharedStores, for any number of processes, entities,        *)
(* artifacts and versions: no artifact is known whose bytes were not stored *)
(* first, and each of the three backends keeps the promises of the store    *)
(* interfaces, StoreContract, but for the lapses SharedStores names.        *)
(***************************************************************************)
EXTENDS SharedStores, FiniteSetTheorems, WellFoundedInduction, TLAPS

-----------------------------------------------------------------------------
(* The inductive invariant. *)

\* An entity's versions; the earlier ones need not all be there, because an
\* import brings the version it carries.
Histories == UNION {[S -> Contents] : S \in SUBSET Versions}

ArtifactRows == [id : Artifacts, file : Files, version : Nat, hash : Hashes]

Rows == [entities  : [Ids -> Histories],
         artifacts : {as \in SUBSET ArtifactRows : IsFiniteSet(as)},
         index     : Seq(Sources)]

UpdateCalls ==
    [name : {"update"}, id : Ids, field : Fields, value : Values,
     latest : [version : Versions, content : Contents], overtaken : BOOLEAN]

ImportCalls ==
    [name : {"import"}, id : Ids, version : Versions, content : Contents,
     overtaken : BOOLEAN]

IngestCalls ==
    [name : {"ingest"}, file : Files, hash : Hashes, version : Nat, overtaken : BOOLEAN]

ImportArtifactCalls ==
    [name : {"import artifact"},
     artifact : [id : Artifacts, file : Files, version : 1..Cardinality(Artifacts),
                 hash : Hashes],
     overtaken : BOOLEAN]

Calls == UpdateCalls \cup ImportCalls \cup IngestCalls \cup ImportArtifactCalls

TypeOK ==
    /\ backend \in {"local", "sqlite", "postgres"}
    /\ stored \in Rows
    /\ memory \in Rows
    /\ content \subseteq Hashes
    /\ process \in [Processes -> {"out", "opening", "open", "dying"}]
    /\ call \in [Processes -> Calls \cup {None}]

\* One process holds the local stores; it has no migration to wait for, and its
\* calls have no second half.
LocalIsAlone ==
    backend = "local" =>
        /\ \A p, q \in Processes : process[p] # "out" /\ process[q] # "out" => p = q
        /\ \A p \in Processes : process[p] # "opening" /\ call[p] = None

\* What the first half of an update read was a version once, and still is; it is
\* the latest one until somebody commits.
UpdateIsBased(c) ==
    /\ \E v \in DOMAIN stored.entities[c.id] : stored.entities[c.id][v] = c.latest.content
    /\ ~c.overtaken => c.latest = Latest(stored.entities[c.id])
    /\ backend = "sqlite" => c.latest.version < MaxVersion

\* What an ingest counted can only have become too small.
IngestIsCounted(c) == c.version \in 1..NextVersion(stored.artifacts, c.file)

CallIsSound(c) ==
    /\ c.name = "update" => UpdateIsBased(c)
    /\ c.name = "ingest" => IngestIsCounted(c)
    /\ backend = "postgres" => c.name = "update"

CallsAreSound == \A p \in Processes : call[p] # None => CallIsSound(call[p])

SharedInv == TypeOK /\ LocalIsAlone /\ CallsAreSound /\ BytesBeforeMetadata

-----------------------------------------------------------------------------
(* Histories. *)

(* A non-empty set of numbers has a least one.                              *)
LEMMA LeastExists ==
  ASSUME NEW S \in SUBSET Nat, S # {}
  PROVE  \E m \in S : \A n \in S : m <= n
<1>1. PICK m \in S : \A n \in S : ~ (<<n, m>> \in OpToRel(<, Nat))
  BY WFMin, NatLessThanWellFounded
<1>2. ASSUME NEW n \in S PROVE m <= n
  <2>1. n \in Nat /\ m \in Nat
    OBVIOUS
  <2>2. n < m => <<n, m>> \in OpToRel(<, Nat)
    BY <2>1 DEF OpToRel
  <2>3. ~ (n < m)
    BY <1>1, <2>2
  <2> QED
    BY <2>1, <2>3
<1> QED
  BY <1>2

(* Of the versions there are, one is the highest.                           *)
LEMMA NewestIsThere ==
  ASSUME NEW h \in Histories, DOMAIN h # {}
  PROVE  Newest(h) \in DOMAIN h /\ \A w \in DOMAIN h : w <= Newest(h)
<1> DEFINE Bounds == {n \in Nat : \A w \in DOMAIN h : w <= n}
<1>1. DOMAIN h \subseteq Versions
  BY DEF Histories
<1>2. MaxVersion \in Bounds
  BY <1>1, StoresAssumption DEF Versions
<1>3. PICK m \in Bounds : \A n \in Bounds : m <= n
  BY <1>2, LeastExists
<1>4. m \in DOMAIN h
  <2> SUFFICES ASSUME m \notin DOMAIN h PROVE FALSE
    OBVIOUS
  <2>1. PICK w \in DOMAIN h : TRUE
    OBVIOUS
  <2>2. m \in Nat /\ w \in 1..MaxVersion /\ w <= m
    BY <1>1 DEF Versions
  <2>3. \A x \in DOMAIN h : x \in Nat /\ x <= m /\ x # m
    BY <1>1, StoresAssumption DEF Versions
  <2>4. m - 1 \in Bounds
    BY <2>2, <2>3, StoresAssumption
  <2> QED
    BY <1>3, <2>2, <2>4
<1> QED
  BY <1>3, <1>4 DEF Newest

LEMMA EmptyHistory ==
  /\ <<>> \in Histories
  /\ DOMAIN <<>> = {}
  /\ \A h \in Histories : h = <<>> <=> DOMAIN h = {}
BY DEF Histories

LEMMA LatestIsThere ==
  ASSUME NEW h \in Histories, DOMAIN h # {}
  PROVE  /\ Latest(h) \in [version : Versions, content : Contents]
         /\ Latest(h).version = Newest(h)
         /\ Latest(h).content = h[Newest(h)]
<1>1. Newest(h) \in DOMAIN h
  BY NewestIsThere
<1>2. DOMAIN h \subseteq Versions /\ \A v \in DOMAIN h : h[v] \in Contents
  BY DEF Histories
<1> QED
  BY <1>1, <1>2 DEF Latest

(* One more version: the others stay what they are.                         *)
LEMMA WithVersionKeeps ==
  ASSUME NEW h \in Histories, NEW v \in Versions, NEW body \in Contents
  PROVE  /\ WithVersion(h, v, body) \in Histories
         /\ DOMAIN h \subseteq DOMAIN WithVersion(h, v, body)
         /\ v \notin DOMAIN h =>
                \A w \in DOMAIN h : WithVersion(h, v, body)[w] = h[w]
<1>1. DOMAIN h \subseteq Versions /\ \A w \in DOMAIN h : h[w] \in Contents
  BY DEF Histories
<1>2. WithVersion(h, v, body) \in [DOMAIN h \cup {v} -> Contents]
  BY <1>1 DEF WithVersion
<1>3. DOMAIN h \cup {v} \in SUBSET Versions
  BY <1>1
<1>4. WithVersion(h, v, body) \in Histories
  BY <1>2, <1>3 DEF Histories
<1> QED
  BY <1>4 DEF WithVersion

LEMMA PatchedContent ==
  ASSUME NEW body \in Contents, NEW f \in Fields, NEW x \in Values
  PROVE  [body EXCEPT ![f] = x] \in Contents
BY DEF Contents

-----------------------------------------------------------------------------
(* Artifacts of a name. *)

(* More artifacts are never counted as fewer.                               *)
LEMMA NextVersionGrows ==
  ASSUME NEW as, NEW bs, IsFiniteSet(bs), as \subseteq bs, NEW file
  PROVE  /\ NextVersion(as, file) \in Nat \ {0}
         /\ NextVersion(bs, file) \in Nat
         /\ NextVersion(as, file) <= NextVersion(bs, file)
<1>1. OfFile(bs, file) \subseteq bs /\ OfFile(as, file) \subseteq OfFile(bs, file)
  BY DEF OfFile
<1>2. IsFiniteSet(OfFile(bs, file))
  BY <1>1, FS_Subset
<1>3. /\ Cardinality(OfFile(as, file)) \in Nat
      /\ Cardinality(OfFile(bs, file)) \in Nat
      /\ Cardinality(OfFile(as, file)) <= Cardinality(OfFile(bs, file))
  BY <1>1, <1>2, FS_Subset, FS_CardinalityType
<1> DEFINE few  == Cardinality(OfFile(as, file))
           many == Cardinality(OfFile(bs, file))
<1>4. NextVersion(as, file) = few + 1 /\ NextVersion(bs, file) = many + 1
  BY DEF NextVersion
<1>5. few \in Nat /\ many \in Nat /\ few <= many
  BY <1>3
<1> HIDE DEF few, many
<1>6. few + 1 \in Nat \ {0} /\ many + 1 \in Nat /\ few + 1 <= many + 1
  BY <1>5
<1> QED
  BY <1>4, <1>6

-----------------------------------------------------------------------------
(* Index records. *)

(* RemoveAt, position by position.                                          *)
LEMMA WithoutOne ==
  ASSUME NEW s \in Seq(Sources), NEW i \in 0..Len(s)
  PROVE  /\ Without(s, i) \in Seq(Sources)
         /\ Without(s, i) = [j \in 1..(Len(s) - IF i = 0 THEN 0 ELSE 1) |->
                                s[IF i = 0 \/ j < i THEN j ELSE j + 1]]
<1>1. CASE i = 0
  <2>1. i \notin DOMAIN s
    BY <1>1
  <2>2. Without(s, i) = s
    BY <2>1 DEF Without
  <2>3. s = [j \in 1..Len(s) |-> s[j]]
    OBVIOUS
  <2> QED
    BY <1>1, <2>2, <2>3
<1>2. CASE i # 0
  <2> DEFINE before == SubSeq(s, 1, i - 1)
             after  == SubSeq(s, i + 1, Len(s))
  <2>1. i \in 1..Len(s) /\ Len(s) \in Nat
    BY <1>2
  <2>2. before \in Seq(Sources) /\ Len(before) = i - 1
        /\ \A j \in 1..(i - 1) : before[j] = s[j]
    BY <2>1
  <2>3. after \in Seq(Sources) /\ Len(after) = Len(s) - i
        /\ \A j \in 1..(Len(s) - i) : after[j] = s[i + j]
    BY <2>1
  <2>4. Without(s, i) = before \o after
    <3>1. i \in DOMAIN s
      BY <2>1
    <3> QED
      BY <3>1 DEF Without, RemoveAt
  <2> HIDE DEF before, after
  <2>5. Without(s, i) \in Seq(Sources) /\ Len(Without(s, i)) = Len(s) - 1
    BY <2>1, <2>2, <2>3, <2>4
  <2>6. ASSUME NEW j \in 1..(Len(s) - 1)
        PROVE  Without(s, i)[j] = s[IF i = 0 \/ j < i THEN j ELSE j + 1]
    <3>1. CASE j < i
      BY <3>1, <2>1, <2>2, <2>3, <2>4
    <3>2. CASE ~ (j < i)
      <4>1. Without(s, i)[j] = after[j - (i - 1)]
        BY <3>2, <2>1, <2>2, <2>3, <2>4
      <4>2. j - (i - 1) \in 1..(Len(s) - i)
        BY <3>2, <2>1
      <4>3. i + (j - (i - 1)) = j + 1
        BY <2>1
      <4> QED
        BY <3>2, <1>2, <4>1, <4>2, <4>3, <2>3
    <3> QED
      BY <3>1, <3>2
  <2>7. Without(s, i) = [j \in 1..(Len(s) - 1) |-> s[IF i = 0 \/ j < i THEN j ELSE j + 1]]
    BY <2>5, <2>6
  <2> QED
    BY <1>2, <2>5, <2>7
<1> QED
  BY <1>1, <1>2

(* The records replaceAll writes.                                           *)
LEMMA AllRecords ==
  ASSUME NEW records \in [1..Cardinality(Sources) -> Sources]
  PROVE  records \in Seq(Sources)
BY StoresAssumption, FS_CardinalityType

-----------------------------------------------------------------------------
(* How a call ends: it keeps the invariant, and it is what the contract says. *)

Stable == backend' = backend

(* Rows with one store's rows replaced.                                     *)
LEMMA RowsWith ==
  ASSUME NEW rows \in Rows
  PROVE  /\ \A es \in [Ids -> Histories] :
                /\ [rows EXCEPT !["entities"] = es] \in Rows
                /\ [rows EXCEPT !["entities"] = es].entities = es
                /\ [rows EXCEPT !["entities"] = es].artifacts = rows.artifacts
         /\ \A as \in SUBSET ArtifactRows :
                IsFiniteSet(as) =>
                    /\ [rows EXCEPT !["artifacts"] = as] \in Rows
                    /\ [rows EXCEPT !["artifacts"] = as].entities = rows.entities
                    /\ [rows EXCEPT !["artifacts"] = as].artifacts = as
         /\ \A records \in Seq(Sources) :
                /\ [rows EXCEPT !["index"] = records] \in Rows
                /\ [rows EXCEPT !["index"] = records].entities = rows.entities
                /\ [rows EXCEPT !["index"] = records].artifacts = rows.artifacts
BY DEF Rows

\* Versions and artifacts are only added.
Grows(r, s) ==
    /\ \A id \in Ids :
          /\ DOMAIN r.entities[id] \subseteq DOMAIN s.entities[id]
          /\ \A v \in DOMAIN r.entities[id] : s.entities[id][v] = r.entities[id][v]
    /\ r.artifacts \subseteq s.artifacts

(* One more version of one entity.                                          *)
LEMMA OneMoreVersion ==
  ASSUME NEW rows \in Rows, NEW id \in Ids, NEW v \in Versions, NEW body \in Contents,
         v \notin DOMAIN rows.entities[id]
  PROVE  LET es == [rows.entities EXCEPT ![id] = WithVersion(@, v, body)]
         IN /\ es \in [Ids -> Histories]
            /\ Grows(rows, [rows EXCEPT !["entities"] = es])
<1> DEFINE es == [rows.entities EXCEPT ![id] = WithVersion(@, v, body)]
<1>1. rows.entities \in [Ids -> Histories]
  BY DEF Rows
<1>2. rows.entities[id] \in Histories
  BY <1>1
<1>3. /\ WithVersion(rows.entities[id], v, body) \in Histories
      /\ DOMAIN rows.entities[id] \subseteq DOMAIN WithVersion(rows.entities[id], v, body)
      /\ \A w \in DOMAIN rows.entities[id] :
            WithVersion(rows.entities[id], v, body)[w] = rows.entities[id][w]
  BY <1>2, WithVersionKeeps
<1>4. es \in [Ids -> Histories]
  BY <1>1, <1>3
<1>5. \A i \in Ids : es[i] = IF i = id THEN WithVersion(rows.entities[id], v, body)
                                       ELSE rows.entities[i]
  BY <1>1
<1>6. /\ [rows EXCEPT !["entities"] = es].entities = es
      /\ [rows EXCEPT !["entities"] = es].artifacts = rows.artifacts
  BY <1>4, RowsWith
<1> HIDE DEF es
<1>7. Grows(rows, [rows EXCEPT !["entities"] = es])
  BY <1>3, <1>5, <1>6 DEF Grows
<1> QED
  BY <1>4, <1>7 DEF es

(* A call that is sound stays so while rows are only added, if it counts as *)
(* overtaken from then on.                                                  *)
LEMMA SoundWhileGrowing ==
  ASSUME TypeOK, NEW c \in Calls, CallIsSound(c), stored' \in Rows,
         Grows(stored, stored'), Stable
  PROVE  /\ [c EXCEPT !.overtaken = TRUE] \in Calls
         /\ CallIsSound([c EXCEPT !.overtaken = TRUE])'
<1> DEFINE d == [c EXCEPT !.overtaken = TRUE]
<1>1. d \in Calls /\ d.name = c.name /\ (c.name \in {"update", "import", "ingest"} => d.overtaken)
  BY DEF Calls, UpdateCalls, ImportCalls, IngestCalls, ImportArtifactCalls
<1>2. CASE c.name = "update"
  <2>1. /\ c \in UpdateCalls /\ d.id = c.id /\ d.latest = c.latest /\ c.id \in Ids
        /\ d.overtaken
    BY <1>2 DEF Calls, UpdateCalls, ImportCalls, IngestCalls, ImportArtifactCalls
  <2>2. UpdateIsBased(c)
    BY <1>2 DEF CallIsSound
  <2>3. PICK v \in DOMAIN stored.entities[c.id] : stored.entities[c.id][v] = c.latest.content
    BY <2>2 DEF UpdateIsBased
  <2>4. v \in DOMAIN stored'.entities[c.id] /\ stored'.entities[c.id][v] = c.latest.content
    BY <2>1, <2>3 DEF Grows
  <2>5. UpdateIsBased(d)'
    BY <2>1, <2>2, <2>4 DEF UpdateIsBased, Stable
  <2> QED
    BY <1>1, <1>2, <2>5 DEF CallIsSound
<1>3. CASE c.name = "ingest"
  <2>1. /\ c \in IngestCalls /\ d.file = c.file /\ d.version = c.version
        /\ c.version \in Nat
    BY <1>3 DEF Calls, UpdateCalls, ImportCalls, IngestCalls, ImportArtifactCalls
  <2>2. IngestIsCounted(c) /\ backend # "postgres"
    BY <1>3 DEF CallIsSound
  <2>3. IsFiniteSet(stored'.artifacts) /\ stored.artifacts \subseteq stored'.artifacts
    BY DEF Rows, Grows
  <2>4. /\ NextVersion(stored.artifacts, c.file) \in Nat
        /\ NextVersion(stored'.artifacts, c.file) \in Nat
        /\ NextVersion(stored.artifacts, c.file) <= NextVersion(stored'.artifacts, c.file)
    BY <2>3, NextVersionGrows
  <2>5. c.version \in 1..NextVersion(stored'.artifacts, c.file)
    BY <2>1, <2>2, <2>4 DEF IngestIsCounted
  <2>6. IngestIsCounted(d)'
    BY <2>1, <2>5 DEF IngestIsCounted
  <2> QED
    BY <1>1, <1>3, <2>2, <2>6 DEF CallIsSound, Stable
<1>4. CASE c.name \notin {"update", "ingest"}
  BY <1>1, <1>4 DEF CallIsSound, Stable
<1> QED
  BY <1>1, <1>2, <1>3, <1>4

(* Nothing is written, and the call is over or has its second half to come. *)
LEMMA Quiet ==
  ASSUME SharedInv, Stable, NEW p \in Processes, NEW c,
         UNCHANGED <<stored, content, memory, process>>,
         call' = [call EXCEPT ![p] = c],
         c = None \/ (c \in Calls /\ CallIsSound(c) /\ backend # "local")
  PROVE  SharedInv'
<1> USE DEF Stable
<1>1. call \in [Processes -> Calls \cup {None}]
  BY DEF SharedInv, TypeOK
<1>2. TypeOK'
  BY <1>1 DEF SharedInv, TypeOK
<1>3. LocalIsAlone'
  BY <1>1 DEF SharedInv, LocalIsAlone
<1>4. \A d : CallIsSound(d)' <=> CallIsSound(d)
  BY DEF CallIsSound, UpdateIsBased, IngestIsCounted
<1>5. CallsAreSound'
  BY <1>1, <1>4 DEF SharedInv, CallsAreSound
<1>6. BytesBeforeMetadata'
  BY DEF SharedInv, BytesBeforeMetadata
<1> QED
  BY <1>2, <1>3, <1>5, <1>6 DEF SharedInv

(* Local rows are written.                                                  *)
LEMMA Saved ==
  ASSUME SharedInv, Stable, backend = "local",
         memory' \in Rows, stored' \in {stored, [stored EXCEPT !["entities"] = memory'.entities],
            [stored EXCEPT !["artifacts"] = memory'.artifacts],
            [stored EXCEPT !["index"] = memory'.index]},
         content \subseteq content', content' \subseteq Hashes,
         \A a \in memory'.artifacts : a.hash \in content',
         process' \in [Processes -> {"out", "opening", "open", "dying"}],
         \A q \in Processes : /\ process'[q] # "out" => process[q] # "out"
                              /\ process'[q] = "opening" => process[q] = "opening",
         UNCHANGED call
  PROVE  SharedInv'
<1> USE DEF Stable
<1>1. /\ memory'.entities \in [Ids -> Histories]
      /\ memory'.artifacts \in SUBSET ArtifactRows /\ IsFiniteSet(memory'.artifacts)
      /\ memory'.index \in Seq(Sources)
  BY DEF Rows
<1>2. stored \in Rows /\ \A a \in stored.artifacts : a.hash \in content
  BY DEF SharedInv, TypeOK, BytesBeforeMetadata
<1>3. stored' \in Rows /\ stored'.artifacts \in {stored.artifacts, memory'.artifacts}
  BY <1>1, <1>2, RowsWith
<1>4. TypeOK'
  BY <1>3 DEF SharedInv, TypeOK
<1>5. LocalIsAlone'
  BY DEF SharedInv, LocalIsAlone
<1>6. CallsAreSound'
  BY DEF SharedInv, LocalIsAlone, CallsAreSound
<1>7. BytesBeforeMetadata'
  BY <1>2, <1>3 DEF BytesBeforeMetadata
<1> QED
  BY <1>4, <1>5, <1>6, <1>7 DEF SharedInv

(* A statement of a shared database commits.                                *)
LEMMA Committed ==
  ASSUME SharedInv, Stable, backend # "local", NEW p \in Processes,
         stored' \in Rows, Grows(stored, stored'), UNCHANGED memory,
         content \subseteq content', content' \subseteq Hashes,
         \A a \in stored'.artifacts : a \in stored.artifacts \/ a.hash \in content',
         process' \in [Processes -> {"out", "opening", "open", "dying"}],
         call' = [q \in Processes |->
                     IF q = p THEN None
                     ELSE IF call[q] # None
                          THEN [call[q] EXCEPT !.overtaken = TRUE] ELSE call[q]]
  PROVE  SharedInv'
<1> USE DEF Stable
<1>1. ASSUME NEW q \in Processes, NEW c, c = call[q], c # None
      PROVE  [c EXCEPT !.overtaken = TRUE] \in Calls
             /\ CallIsSound([c EXCEPT !.overtaken = TRUE])'
  <2>1. TypeOK /\ c \in Calls /\ CallIsSound(c)
    BY <1>1 DEF SharedInv, TypeOK, CallsAreSound
  <2> QED
    BY <2>1, SoundWhileGrowing
<1>2. \A q \in Processes : call'[q] # None =>
          q # p /\ call[q] # None /\ call'[q] = [call[q] EXCEPT !.overtaken = TRUE]
  OBVIOUS
<1>3. call' \in [Processes -> Calls \cup {None}]
  BY <1>1
<1>4. TypeOK'
  BY <1>3 DEF SharedInv, TypeOK
<1>5. LocalIsAlone'
  BY DEF LocalIsAlone
<1>6. CallsAreSound'
  <2> SUFFICES ASSUME NEW q \in Processes, NEW d, d = call'[q], d # None
               PROVE  CallIsSound(d)'
    BY DEF CallsAreSound
  <2>1. PICK c : c = call[q] /\ c # None /\ d = [c EXCEPT !.overtaken = TRUE]
    BY <1>2
  <2> QED
    BY <1>1, <2>1
<1>7. BytesBeforeMetadata'
  BY DEF SharedInv, BytesBeforeMetadata
<1> QED
  BY <1>4, <1>5, <1>6, <1>7 DEF SharedInv

\* The contract's variables do not change.
Steady == UNCHANGED <<Seen, stored, answer>>

(* A call that wrote nothing answers.                                       *)
LEMMA AnswersKeeps ==
  ASSUME SharedInv, Stable, NEW p \in Processes, NEW request, NEW result,
         Answers(p, request, result)
  PROVE  SharedInv' /\ Contract!Answered(p, request, result)
<1>1. SharedInv'
  BY Quiet DEF Answers
<1>2. UNCHANGED <<Seen, stored>>
  BY DEF Answers, Seen, Held, Stable
<1> QED
  BY <1>1, <1>2 DEF Answers, Told, Contract!Answered, Contract!Told

LEMMA ThrowsKeeps ==
  ASSUME SharedInv, Stable, NEW p \in Processes, NEW request, Throws(p, request)
  PROVE  SharedInv' /\ Contract!Answered(p, <<request[1]>>, "failed")
<1>1. SharedInv'
  BY Quiet DEF Throws
<1>2. UNCHANGED <<Seen, stored>>
  BY DEF Throws, Seen, Held, Stable
<1> QED
  BY <1>1, <1>2 DEF Throws, ToldFailure, Told, Contract!Answered, Contract!Told

(* The first half of a call.                                                *)
LEMMA ReadsKeeps ==
  ASSUME SharedInv, Stable, backend # "local", NEW p \in Processes,
         NEW c \in Calls, CallIsSound(c), Reads(p, c)
  PROVE  SharedInv' /\ Steady
<1>1. SharedInv'
  BY Quiet DEF Reads
<1> QED
  BY <1>1 DEF Reads, Steady, Seen, Held, Stable

(* A map of the local stores and its file.                                  *)
LEMMA PersistKeeps ==
  ASSUME SharedInv, Stable, backend = "local", NEW p \in Processes, Idle(p),
         NEW request, NEW store, NEW rows, Persist(p, request, store, rows),
         content \subseteq content', content' \subseteq Hashes,
         \/ store = "entities" /\ rows \in [Ids -> Histories]
         \/ /\ store = "artifacts"
            /\ rows \in SUBSET ArtifactRows /\ IsFiniteSet(rows)
            /\ \A a \in rows : a \in memory.artifacts \/ a.hash \in content'
         \/ store = "index" /\ rows \in Seq(Sources)
  PROVE  SharedInv' /\ Contract!Ends(p, request, store, rows)
<1>1. /\ process \in [Processes -> {"out", "opening", "open", "dying"}]
      /\ memory \in Rows /\ process[p] = "open"
      /\ \A a \in memory.artifacts : a.hash \in content
  BY DEF SharedInv, TypeOK, Idle, BytesBeforeMetadata
<1>2. /\ process' \in [Processes -> {"out", "opening", "open", "dying"}]
      /\ process'[p] \in {"open", "dying"}
      /\ \A q \in Processes : /\ process'[q] # "out" => process[q] # "out"
                              /\ process'[q] = "opening" => process[q] = "opening"
  BY <1>1 DEF Persist, Dies
<1>3. /\ memory' = [memory EXCEPT ![store] = rows]
      /\ stored' \in {stored, [stored EXCEPT ![store] = rows]}
      /\ UNCHANGED call
  BY DEF Persist
<1>4. SharedInv'
  <2>1. CASE store = "entities" /\ rows \in [Ids -> Histories]
    <3>0. memory' = [memory EXCEPT !["entities"] = rows]
      BY <1>3, <2>1
    <3>1. memory' \in Rows /\ memory'.entities = rows /\ memory'.artifacts = memory.artifacts
      BY <1>1, <2>1, <3>0, RowsWith
    <3> QED
      BY <1>1, <1>2, <1>3, <2>1, <3>1, Saved
  <2>2. CASE /\ store = "artifacts"
             /\ rows \in SUBSET ArtifactRows /\ IsFiniteSet(rows)
             /\ \A a \in rows : a \in memory.artifacts \/ a.hash \in content'
    <3>0. memory' = [memory EXCEPT !["artifacts"] = rows]
      BY <1>3, <2>2
    <3>1. memory' \in Rows /\ memory'.artifacts = rows
      BY <1>1, <2>2, <3>0, RowsWith
    <3> QED
      BY <1>1, <1>2, <1>3, <2>2, <3>1, Saved
  <2>3. CASE store = "index" /\ rows \in Seq(Sources)
    <3>1. memory' \in Rows /\ memory'.index = rows /\ memory'.artifacts = memory.artifacts
      BY <1>1, <1>3, <2>3, RowsWith DEF Rows
    <3> QED
      BY <1>1, <1>2, <1>3, <2>3, <3>1, Saved
  <2> QED
    BY <2>1, <2>2, <2>3
<1>5. Seen = memory /\ Seen' = memory'
  BY <1>1, <1>2 DEF Seen, Held, Stable
<1>6. Contract!Ends(p, request, store, rows)
  BY <1>3, <1>5 DEF Persist, ToldFailure, Told, Contract!Ends, Contract!Done, Contract!Failed, Contract!Told
<1> QED
  BY <1>4, <1>6

(* The local artifact store: the bytes first.                               *)
LEMMA LocalArtifactKeeps ==
  ASSUME SharedInv, Stable, backend = "local", NEW p \in Processes, Idle(p),
         NEW request, NEW artifact \in ArtifactRows, LocalArtifact(p, request, artifact)
  PROVE  /\ SharedInv'
         /\ \/ Contract!Ends(p, request, "artifacts", memory.artifacts \cup {artifact})
            \/ Contract!Answered(p, <<request[1]>>, "failed")
<1>1. CASE Throws(p, request)
  BY <1>1, ThrowsKeeps
<1>2. CASE /\ content' = content \cup {artifact.hash}
           /\ Persist(p, request, "artifacts", memory.artifacts \cup {artifact})
  <2>1. memory.artifacts \in SUBSET ArtifactRows /\ IsFiniteSet(memory.artifacts)
    BY DEF SharedInv, TypeOK, Rows
  <2>2. IsFiniteSet(memory.artifacts \cup {artifact})
    BY <2>1, FS_AddElement
  <2>3. content \subseteq Hashes /\ artifact.hash \in Hashes
    BY DEF SharedInv, TypeOK, ArtifactRows
  <2>4. /\ memory.artifacts \cup {artifact} \in SUBSET ArtifactRows
        /\ \A a \in memory.artifacts \cup {artifact} :
              a \in memory.artifacts \/ a.hash \in content'
        /\ content \subseteq content' /\ content' \subseteq Hashes
    BY <1>2, <2>1, <2>3
  <2> QED
    BY <1>2, <2>2, <2>4, PersistKeeps
<1> QED
  BY <1>1, <1>2 DEF LocalArtifact

(* The rows of a store shared by several processes.                         *)
LEMMA CommitKeeps ==
  ASSUME SharedInv, Stable, backend # "local", NEW p \in Processes,
         NEW request, NEW store, NEW rows, NEW hashes \in SUBSET Hashes,
         [stored EXCEPT ![store] = rows] \in Rows,
         Grows(stored, [stored EXCEPT ![store] = rows]),
         \A a \in [stored EXCEPT ![store] = rows].artifacts :
             a \in stored.artifacts \/ a.hash \in hashes,
         \/ Writes(p, request, store, rows, hashes)
         \/ hashes = {} /\ store = "entities" /\ Inserts(p, request, rows)
  PROVE  /\ SharedInv'
         /\ \/ Contract!Ends(p, request, store, rows)
            \/ Contract!Answered(p, <<request[1]>>, "failed")
<1>1. CASE Throws(p, request)
  BY <1>1, ThrowsKeeps
<1>2. CASE /\ Commits(p, store, rows)
           /\ content' = content \cup hashes
           /\ UNCHANGED memory
           /\ Told(p, request, "ok") \/ ToldFailure(p, request)
           /\ UNCHANGED process \/ Dies(p)
  <2>1. /\ process \in [Processes -> {"out", "opening", "open", "dying"}]
        /\ content \subseteq Hashes
    BY DEF SharedInv, TypeOK
  <2>2. process' \in [Processes -> {"out", "opening", "open", "dying"}]
    BY <1>2, <2>1 DEF Dies
  <2>3. stored' = [stored EXCEPT ![store] = rows]
    BY <1>2 DEF Commits
  <2>4. content \subseteq content' /\ content' \subseteq Hashes /\ hashes \subseteq content'
    BY <1>2, <2>1
  <2>5. call' = [q \in Processes |->
                     IF q = p THEN None
                     ELSE IF call[q] # None
                          THEN [call[q] EXCEPT !.overtaken = TRUE] ELSE call[q]]
    BY <1>2 DEF Commits
  <2>6. stored' \in Rows /\ Grows(stored, stored')
    BY <2>3
  <2>7. \A a \in stored'.artifacts : a \in stored.artifacts \/ a.hash \in content'
    BY <2>3, <2>4
  <2>8. SharedInv'
    BY <1>2, <2>2, <2>4, <2>5, <2>6, <2>7, Committed
  <2>9. Seen = stored /\ Seen' = stored'
    BY DEF Seen, Held, Stable
  <2> QED
    BY <1>2, <2>3, <2>8, <2>9
       DEF ToldFailure, Told, Contract!Ends, Contract!Done, Contract!Failed, Contract!Told
<1>3. CASE Writes(p, request, store, rows, hashes)
  BY <1>1, <1>2, <1>3 DEF Writes
<1>4. CASE hashes = {} /\ store = "entities" /\ Inserts(p, request, rows)
  <2>1. CASE Throws(p, request)
    BY <2>1, <1>1
  <2>2. CASE ~Throws(p, request)
    <3>1. /\ Commits(p, store, rows) /\ UNCHANGED <<content, memory, process>>
          /\ Told(p, request, "ok") \/ ToldFailure(p, request)
      BY <1>4, <2>2 DEF Inserts
    <3> QED
      BY <1>2, <1>4, <3>1
  <2> QED
    BY <2>1, <2>2
<1> QED
  BY <1>3, <1>4

(* One more version in a shared database.                                   *)
LEMMA VersionKeeps ==
  ASSUME SharedInv, Stable, backend # "local", NEW p \in Processes, NEW request,
         NEW id \in Ids, NEW v \in Versions, NEW body \in Contents,
         v \notin DOMAIN stored.entities[id],
         LET es == [stored.entities EXCEPT ![id] = WithVersion(@, v, body)]
         IN Writes(p, request, "entities", es, {}) \/ Inserts(p, request, es)
  PROVE  /\ SharedInv'
         /\ \/ Contract!Ends(p, request, "entities",
                   [stored.entities EXCEPT ![id] = WithVersion(@, v, body)])
            \/ Contract!Answered(p, <<request[1]>>, "failed")
<1> DEFINE es == [stored.entities EXCEPT ![id] = WithVersion(@, v, body)]
<1>1. stored \in Rows
  BY DEF SharedInv, TypeOK
<1>2. es \in [Ids -> Histories] /\ Grows(stored, [stored EXCEPT !["entities"] = es])
  BY <1>1, OneMoreVersion
<1>3. Writes(p, request, "entities", es, {}) \/ Inserts(p, request, es)
  OBVIOUS
<1> HIDE DEF es
<1>4. /\ [stored EXCEPT !["entities"] = es] \in Rows
      /\ [stored EXCEPT !["entities"] = es].artifacts = stored.artifacts
  BY <1>1, <1>2, RowsWith
<1>5. SharedInv' /\ (\/ Contract!Ends(p, request, "entities", es)
                     \/ Contract!Answered(p, <<request[1]>>, "failed"))
  BY <1>2, <1>3, <1>4, CommitKeeps
<1> QED
  BY <1>5 DEF es

-----------------------------------------------------------------------------
(* The calls, one by one. *)

(* A call that throws and leaves no trace.                                  *)
LEMMA FailedCall ==
  ASSUME NEW p \in Processes,
         NEW name \in {"create", "update", "import", "ingest", "import artifact",
                       "index", "remove", "clear", "replaceAll"},
         Contract!Answered(p, <<name>>, "failed")
  PROVE  Contract!Called(p)
BY DEF Contract!Called, Contract!Throws

(* Requests begin with their name.                                          *)
LEMMA NameComesFirst ==
  /\ \A n : <<n>>[1] = n
  /\ \A n, a : <<n, a>>[1] = n
  /\ \A n, a, b : <<n, a, b>>[1] = n
  /\ \A n, a, b, c : <<n, a, b, c>>[1] = n
OBVIOUS

(* The two gates of a content read let the same through as the contract's.  *)
LEMMA SameContentRead ==
  ASSUME NEW as, NEW a, \A b \in as : b.hash \in content
  PROVE  ContentRead(as, a) = Contract!ContentRead(as, a)
<1>1. CASE \A b \in as : b.id # a
  BY <1>1 DEF ContentRead, Holds, Contract!ContentRead
<1>2. CASE \E b \in as : b.id = a
  <2>1. (CHOOSE b \in as : b.id = a).hash \in content
    BY <1>2
  <2> QED
    BY <1>2, <2>1 DEF ContentRead, Holds, Contract!ContentRead
<1> QED
  BY <1>1, <1>2

(* The operators both specifications define are the same.                   *)
LEMMA SameOperators ==
  /\ Contract!Contents = Contents /\ Contract!Versions = Versions
  /\ \A h : Contract!Newest(h) = Newest(h)
  /\ \A h : Contract!Latest(h) = Latest(h)
  /\ \A h, v, body : Contract!WithVersion(h, v, body) = WithVersion(h, v, body)
  /\ \A as, file : Contract!OfFile(as, file) = OfFile(as, file)
  /\ \A s, x : Contract!Found(s, x) = Found(s, x)
  /\ \A S : Contract!Cardinality(S) = Cardinality(S)
<1>1. Contract!Contents = Contents /\ Contract!Versions = Versions
  BY DEF Contract!Contents, Contents, Contract!Versions, Versions
<1>2. \A h : Contract!Newest(h) = Newest(h)
  BY DEF Contract!Newest, Newest
<1>3. \A h : Contract!Latest(h) = Latest(h)
  BY <1>2 DEF Contract!Latest, Latest
<1>4. \A h, v, body : Contract!WithVersion(h, v, body) = WithVersion(h, v, body)
  BY DEF Contract!WithVersion, WithVersion
<1>5. \A as, file : Contract!OfFile(as, file) = OfFile(as, file)
  BY DEF Contract!OfFile, OfFile
<1>6. \A s, x : Contract!Found(s, x) = Found(s, x)
  BY DEF Contract!Found, Found
<1>7. \A S : Contract!Cardinality(S) = Cardinality(S)
  BY DEF Contract!Cardinality, Cardinality
<1> QED
  BY <1>1, <1>2, <1>3, <1>4, <1>5, <1>6, <1>7

(* Reads, whatever the backend.                                             *)
LEMMA ReadKeeps ==
  ASSUME SharedInv, Stable, NEW p \in Processes,
         \/ \E id \in Ids : Answers(p, <<"get", id>>, Latest(Seen.entities[id]))
         \/ \E id \in Ids : Answers(p, <<"versions", id>>, Seen.entities[id])
         \/ \E file \in Files : Answers(p, <<"artifacts", file>>, OfFile(Seen.artifacts, file))
         \/ \E a \in Artifacts : Answers(p, <<"content", a>>, ContentRead(Seen.artifacts, a))
         \/ \E s \in Sources : Answers(p, <<"search", s>>, Found(Seen.index, s))
  PROVE  SharedInv' /\ Contract!Called(p)
<1>1. CASE \E id \in Ids : Answers(p, <<"get", id>>, Latest(Seen.entities[id]))
  <2>1. SharedInv' /\ Contract!ReadLatest(p)
    BY <1>1, AnswersKeeps, SameOperators DEF Contract!ReadLatest
  <2> QED
    BY <2>1 DEF Contract!Called
<1>2. CASE \E id \in Ids : Answers(p, <<"versions", id>>, Seen.entities[id])
  <2>1. SharedInv' /\ Contract!ReadHistory(p)
    BY <1>2, AnswersKeeps DEF Contract!ReadHistory
  <2> QED
    BY <2>1 DEF Contract!Called
<1>3. CASE \E file \in Files : Answers(p, <<"artifacts", file>>, OfFile(Seen.artifacts, file))
  <2>1. SharedInv' /\ Contract!ReadArtifacts(p)
    BY <1>3, AnswersKeeps, SameOperators DEF Contract!ReadArtifacts
  <2> QED
    BY <2>1 DEF Contract!Called
<1>4. CASE \E a \in Artifacts : Answers(p, <<"content", a>>, ContentRead(Seen.artifacts, a))
  <2>1. \A b \in Seen.artifacts : b.hash \in content
    BY DEF SharedInv, BytesBeforeMetadata, Seen
  <2>2. PICK a \in Artifacts : Answers(p, <<"content", a>>, ContentRead(Seen.artifacts, a))
    BY <1>4
  <2>3. ContentRead(Seen.artifacts, a) = Contract!ContentRead(Seen.artifacts, a)
    BY <2>1, SameContentRead
  <2>4. SharedInv' /\ Contract!ReadContent(p)
    BY <2>2, <2>3, AnswersKeeps DEF Contract!ReadContent
  <2> QED
    BY <2>4 DEF Contract!Called
<1>5. CASE \E s \in Sources : Answers(p, <<"search", s>>, Found(Seen.index, s))
  <2>1. SharedInv' /\ Contract!Search(p)
    BY <1>5, AnswersKeeps, SameOperators DEF Contract!Search
  <2> QED
    BY <2>1 DEF Contract!Called
<1> QED
  BY <1>1, <1>2, <1>3, <1>4, <1>5

(* An import that finds its version there ...                               *)
LEMMA ImportAnswers ==
  ASSUME SharedInv, Stable, NEW p \in Processes, NEW id \in Ids, NEW v \in Versions,
         NEW body \in Contents, v \in DOMAIN Seen.entities[id],
         Answers(p, <<"import", id, v, body>>, ContentMatch(Seen.entities[id][v], body))
  PROVE  SharedInv' /\ Contract!Called(p)
<1>1. ContentMatch(Seen.entities[id][v], body)
          = IF Seen.entities[id][v] = body THEN "ok" ELSE "conflict"
  BY DEF ContentMatch
<1>2. SharedInv' /\ Contract!Answered(p, <<"import", id, v, body>>,
          IF Seen.entities[id][v] = body THEN "ok" ELSE "conflict")
  BY <1>1, AnswersKeeps
<1>3. Contract!ImportEntity(p)
  BY <1>2, SameOperators DEF Contract!ImportEntity
<1> QED
  BY <1>2, <1>3 DEF Contract!Called

(* ... and one that finds its artifact.                                     *)
LEMMA ImportArtifactAnswers ==
  ASSUME SharedInv, Stable, NEW p \in Processes, NEW a \in Artifacts, NEW file \in Files,
         NEW hash \in Hashes, NEW n \in 1..Cardinality(Artifacts), Holds(Seen.artifacts, a),
         Answers(p, <<"import artifact", ArtifactOf(a, file, n, hash)>>,
                 ContentMatch(TRUE, ArtifactOf(a, file, n, hash) \in Seen.artifacts))
  PROVE  SharedInv' /\ Contract!Called(p)
<1>1. (TRUE = (ArtifactOf(a, file, n, hash) \in Seen.artifacts))
          <=> ArtifactOf(a, file, n, hash) \in Seen.artifacts
  OBVIOUS
<1>2. ContentMatch(TRUE, ArtifactOf(a, file, n, hash) \in Seen.artifacts)
          = IF ArtifactOf(a, file, n, hash) \in Seen.artifacts THEN "ok" ELSE "conflict"
  BY <1>1 DEF ContentMatch
<1>3. SharedInv' /\ Contract!Answered(p, <<"import artifact", ArtifactOf(a, file, n, hash)>>,
          IF ArtifactOf(a, file, n, hash) \in Seen.artifacts THEN "ok" ELSE "conflict")
  BY <1>2, AnswersKeeps
<1>4. Contract!ImportArtifact(p)
  BY <1>3, SameOperators DEF Contract!ImportArtifact, Holds, ArtifactOf
<1> QED
  BY <1>3, <1>4 DEF Contract!Called

-----------------------------------------------------------------------------
(* The writes of the contract, said of what a read returns now.             *)

LEMMA ContractCreate ==
  ASSUME NEW p \in Processes, NEW id \in Ids, NEW body \in Contents,
         Seen.entities[id] = <<>>,
         Contract!Ends(p, <<"create", id, body>>, "entities",
             [Seen.entities EXCEPT ![id] = WithVersion(@, 1, body)])
  PROVE  Contract!Called(p)
<1>1. id \in Contract!Unused(Seen.entities)
  BY EmptyHistory DEF Contract!Unused
<1>2. Contract!Create(p)
  BY <1>1, SameOperators DEF Contract!Create
<1> QED
  BY <1>2 DEF Contract!Called

(* An update is one of the contract, or a lapse.                            *)
LEMMA ContractUpdate ==
  ASSUME NEW p \in Processes, NEW id \in Ids, NEW f \in Fields, NEW x \in Values,
         NEW v \in DOMAIN Seen.entities[id],
         Contract!Ends(p, <<"update", id, f, x>>, "entities",
             [Seen.entities EXCEPT ![id] = Patched(@, Seen.entities[id][v], f, x)])
  PROVE  /\ v = Newest(Seen.entities[id]) => Contract!Called(p)
         /\ v # Newest(Seen.entities[id]) => Contract!StaleUpdate(p)
<1>1. id \in Contract!InUse(Seen.entities)
  BY DEF Contract!InUse, Contract!Unused
<1>2. Contract!Ends(p, <<"update", id, f, x>>, "entities",
          [Seen.entities EXCEPT ![id] =
              WithVersion(@, Newest(Seen.entities[id]) + 1,
                          [Seen.entities[id][v] EXCEPT ![f] = x])])
  BY DEF Patched
<1>3. Contract!UpdateOn(p, id, v, f, x)
  BY <1>2, SameOperators DEF Contract!UpdateOn
<1>4. CASE v = Newest(Seen.entities[id])
  <2>1. Contract!Update(p)
    BY <1>1, <1>3, <1>4, SameOperators DEF Contract!Update
  <2> QED
    BY <1>4, <2>1 DEF Contract!Called
<1>5. CASE v # Newest(Seen.entities[id])
  BY <1>1, <1>3, <1>5, SameOperators DEF Contract!StaleUpdate
<1> QED
  BY <1>4, <1>5

LEMMA ContractNotFound ==
  ASSUME NEW p \in Processes, NEW id \in Ids, NEW f \in Fields, NEW x \in Values,
         Seen.entities[id] = <<>>,
         Contract!Answered(p, <<"update", id, f, x>>, "not found")
  PROVE  Contract!Called(p)
<1>1. id \in Contract!Unused(Seen.entities)
  BY EmptyHistory DEF Contract!Unused
<1>2. Contract!Update(p)
  BY <1>1 DEF Contract!Update
<1> QED
  BY <1>2 DEF Contract!Called

LEMMA ContractImport ==
  ASSUME NEW p \in Processes, NEW id \in Ids, NEW v \in Versions, NEW body \in Contents,
         v \notin DOMAIN Seen.entities[id],
         Contract!Ends(p, <<"import", id, v, body>>, "entities",
             [Seen.entities EXCEPT ![id] = WithVersion(@, v, body)])
  PROVE  Contract!Called(p)
<1>1. Contract!ImportEntity(p)
  BY SameOperators DEF Contract!ImportEntity
<1> QED
  BY <1>1 DEF Contract!Called

(* An ingest is one of the contract, or a lapse.                            *)
LEMMA ContractIngest ==
  ASSUME NEW p \in Processes, NEW a \in Artifacts, NEW file \in Files, NEW hash \in Hashes,
         NEW n \in 1..NextVersion(Seen.artifacts, file), IsFiniteSet(Seen.artifacts),
         ~Holds(Seen.artifacts, a),
         Contract!Ends(p, <<"ingest", a, file, hash>>, "artifacts",
             Seen.artifacts \cup {ArtifactOf(a, file, n, hash)})
  PROVE  /\ n = NextVersion(Seen.artifacts, file) => Contract!Called(p)
         /\ n # NextVersion(Seen.artifacts, file) => Contract!StaleIngest(p)
<1> DEFINE count == Contract!Cardinality(Contract!OfFile(Seen.artifacts, file))
<1>1. NextVersion(Seen.artifacts, file) = count + 1
  BY SameOperators DEF NextVersion
<1>2. count \in Nat
  <2>1. OfFile(Seen.artifacts, file) \subseteq Seen.artifacts
    BY DEF OfFile
  <2>2. Cardinality(OfFile(Seen.artifacts, file)) \in Nat
    BY <2>1, FS_Subset, FS_CardinalityType
  <2> QED
    BY <2>2, SameOperators
<1>3. Contract!IngestAs(p, a, file, n, hash)
  BY DEF Contract!IngestAs, Holds, ArtifactOf
<1> HIDE DEF count
<1>4. CASE n = NextVersion(Seen.artifacts, file)
  <2>1. Contract!IngestAs(p, a, file, count + 1, hash)
    BY <1>1, <1>3, <1>4
  <2>2. Contract!Ingest(p)
    BY <2>1 DEF Contract!Ingest, count
  <2> QED
    BY <1>4, <2>2 DEF Contract!Called
<1>5. CASE n # NextVersion(Seen.artifacts, file)
  <2>1. n \in 1..count
    BY <1>1, <1>2, <1>5
  <2>2. Contract!StaleIngest(p)
    BY <1>3, <2>1 DEF Contract!StaleIngest, count
  <2> QED
    BY <1>5, <2>2
<1> QED
  BY <1>4, <1>5

LEMMA ContractImportArtifact ==
  ASSUME NEW p \in Processes, NEW a \in Artifacts, NEW file \in Files, NEW hash \in Hashes,
         NEW n \in 1..Cardinality(Artifacts), ~Holds(Seen.artifacts, a),
         Contract!Ends(p, <<"import artifact", ArtifactOf(a, file, n, hash)>>, "artifacts",
             Seen.artifacts \cup {ArtifactOf(a, file, n, hash)})
  PROVE  Contract!Called(p)
<1>1. Contract!ImportArtifact(p)
  BY SameOperators DEF Contract!ImportArtifact, Holds, ArtifactOf
<1> QED
  BY <1>1 DEF Contract!Called

LEMMA ContractIndexWrites ==
  ASSUME SharedInv, NEW p \in Processes
  PROVE  /\ \A s \in Sources :
                Contract!Ends(p, <<"index", s>>, "index", Append(Seen.index, s))
                => Contract!Called(p)
         /\ \A i \in 0..Len(Seen.index) :
                Contract!Ends(p, <<"remove", i>>, "index", Without(Seen.index, i))
                => Contract!Called(p)
         /\ Contract!Ends(p, <<"clear">>, "index", <<>>) => Contract!Called(p)
         /\ \A records \in [1..Cardinality(Sources) -> Sources] :
                Contract!Ends(p, <<"replaceAll", records>>, "index", records) => Contract!Called(p)
<1>1. Seen.index \in Seq(Sources)
  BY DEF SharedInv, TypeOK, Rows, Seen
<1>2. \A i \in 0..Len(Seen.index) :
          Without(Seen.index, i) = [j \in 1..(Len(Seen.index) - IF i = 0 THEN 0 ELSE 1) |->
                                       Seen.index[IF i = 0 \/ j < i THEN j ELSE j + 1]]
  BY <1>1, WithoutOne
<1>3. \A s \in Sources : Contract!Ends(p, <<"index", s>>, "index", Append(Seen.index, s))
          => Contract!Index(p)
  BY DEF Contract!Index
<1>4. \A i \in 0..Len(Seen.index) :
          Contract!Ends(p, <<"remove", i>>, "index", Without(Seen.index, i)) => Contract!Remove(p)
  BY <1>2 DEF Contract!Remove
<1>5. Contract!Ends(p, <<"clear">>, "index", <<>>) => Contract!Clear(p)
  BY DEF Contract!Clear
<1>6. \A records \in [1..Cardinality(Sources) -> Sources] :
          Contract!Ends(p, <<"replaceAll", records>>, "index", records) => Contract!Replace(p)
  BY SameOperators DEF Contract!Replace
<1> QED
  BY <1>3, <1>4, <1>5, <1>6 DEF Contract!Called

-----------------------------------------------------------------------------
(* The local stores. *)

LEMMA LocalCallKeeps ==
  ASSUME SharedInv, Stable, NEW p \in Processes, LocalCall(p)
  PROVE  SharedInv' /\ Contract!Called(p)
<1>1. backend = "local" /\ Idle(p) /\ Seen = memory /\ memory \in Rows
  BY DEF LocalCall, Idle, Seen, Held, SharedInv, TypeOK
<1>2. /\ memory.entities \in [Ids -> Histories]
      /\ \A id \in Ids : memory.entities[id] \in Histories
      /\ memory.artifacts \in SUBSET ArtifactRows /\ IsFiniteSet(memory.artifacts)
      /\ memory.index \in Seq(Sources)
      /\ content \subseteq Hashes
  BY <1>1 DEF Rows, SharedInv, TypeOK
<1>3. CASE LocalGet(p) \/ LocalVersions(p) \/ LocalArtifacts(p) \/ LocalContent(p)
           \/ LocalSearch(p)
  BY <1>1, <1>3, ReadKeeps
     DEF LocalGet, LocalVersions, LocalArtifacts, LocalContent, LocalSearch
<1>4. CASE LocalCreate(p)
  <2>1. PICK id \in Ids, body \in Contents :
            /\ memory.entities[id] = <<>>
            /\ Persist(p, <<"create", id, body>>, "entities",
                       [memory.entities EXCEPT ![id] = WithVersion(@, 1, body)])
            /\ UNCHANGED content
    BY <1>4 DEF LocalCreate
  <2>2. 1 \in Versions
    BY StoresAssumption DEF Versions
  <2>3. WithVersion(memory.entities[id], 1, body) \in Histories
    BY <1>2, <2>2, WithVersionKeeps
  <2>4. [memory.entities EXCEPT ![id] = WithVersion(@, 1, body)] \in [Ids -> Histories]
    BY <1>2, <2>3
  <2>5. SharedInv' /\ Contract!Ends(p, <<"create", id, body>>, "entities",
            [memory.entities EXCEPT ![id] = WithVersion(@, 1, body)])
    BY <1>1, <1>2, <2>1, <2>4, PersistKeeps
  <2> QED
    BY <1>1, <2>1, <2>5, ContractCreate
<1>5. CASE LocalUpdate(p)
  <2>1. PICK id \in Ids, f \in Fields, x \in Values :
            LET history == memory.entities[id]
            IN IF history = <<>>
               THEN Answers(p, <<"update", id, f, x>>, "not found")
               ELSE /\ Newest(history) < MaxVersion
                    /\ Persist(p, <<"update", id, f, x>>, "entities",
                               [memory.entities EXCEPT ![id] =
                                   Patched(@, history[Newest(history)], f, x)])
                    /\ UNCHANGED content
    BY <1>5 DEF LocalUpdate
  <2>2. CASE memory.entities[id] = <<>>
    BY <1>1, <2>1, <2>2, AnswersKeeps, ContractNotFound
  <2>3. CASE memory.entities[id] # <<>>
    <3> DEFINE h == memory.entities[id]
               body == [h[Newest(h)] EXCEPT ![f] = x]
    <3>1. h \in Histories /\ DOMAIN h # {}
      BY <1>2, <2>3, EmptyHistory
    <3>2. Newest(h) \in DOMAIN h
      BY <3>1, NewestIsThere
    <3>3. DOMAIN h \subseteq Versions /\ h[Newest(h)] \in Contents
      BY <3>1, <3>2 DEF Histories
    <3>4. Newest(h) + 1 \in Versions
      <4>1. Newest(h) \in 1..MaxVersion /\ Newest(h) < MaxVersion /\ MaxVersion \in Nat
        BY <2>1, <2>3, <3>2, <3>3, StoresAssumption DEF Versions
      <4> QED
        BY <4>1 DEF Versions
    <3>5. body \in Contents
      BY <3>3, PatchedContent
    <3>6. WithVersion(h, Newest(h) + 1, body) \in Histories
      BY <3>1, <3>4, <3>5, WithVersionKeeps
    <3>7. [memory.entities EXCEPT ![id] = Patched(@, h[Newest(h)], f, x)]
              \in [Ids -> Histories]
      BY <1>2, <3>6 DEF Patched
    <3>8. SharedInv' /\ Contract!Ends(p, <<"update", id, f, x>>, "entities",
              [memory.entities EXCEPT ![id] = Patched(@, h[Newest(h)], f, x)])
      BY <1>1, <1>2, <2>1, <2>3, <3>7, PersistKeeps
    <3> QED
      BY <1>1, <3>2, <3>8, ContractUpdate
  <2> QED
    BY <2>2, <2>3
<1>6. CASE LocalImportEntity(p)
  <2>1. PICK id \in Ids, v \in Versions, body \in Contents :
            LET history == memory.entities[id]
            IN IF v \in DOMAIN history
               THEN Answers(p, <<"import", id, v, body>>, ContentMatch(history[v], body))
               ELSE /\ Persist(p, <<"import", id, v, body>>, "entities",
                               [memory.entities EXCEPT ![id] = WithVersion(@, v, body)])
                    /\ UNCHANGED content
    BY <1>6 DEF LocalImportEntity
  <2>2. CASE v \in DOMAIN memory.entities[id]
    BY <1>1, <2>1, <2>2, ImportAnswers
  <2>3. CASE v \notin DOMAIN memory.entities[id]
    <3>1. WithVersion(memory.entities[id], v, body) \in Histories
      BY <1>2, WithVersionKeeps
    <3>2. [memory.entities EXCEPT ![id] = WithVersion(@, v, body)] \in [Ids -> Histories]
      BY <1>2, <3>1
    <3>3. SharedInv' /\ Contract!Ends(p, <<"import", id, v, body>>, "entities",
              [memory.entities EXCEPT ![id] = WithVersion(@, v, body)])
      BY <1>1, <1>2, <2>1, <2>3, <3>2, PersistKeeps
    <3> QED
      BY <1>1, <2>3, <3>3, ContractImport
  <2> QED
    BY <2>2, <2>3
<1>7. CASE LocalIngest(p)
  <2>1. PICK a \in Artifacts, file \in Files, hash \in Hashes :
            /\ ~Holds(memory.artifacts, a)
            /\ LocalArtifact(p, <<"ingest", a, file, hash>>,
                   ArtifactOf(a, file, NextVersion(memory.artifacts, file), hash))
    BY <1>7 DEF LocalIngest
  <2>2. NextVersion(memory.artifacts, file) \in Nat \ {0}
    BY <1>2, NextVersionGrows
  <2>3. /\ NextVersion(memory.artifacts, file) \in 1..NextVersion(memory.artifacts, file)
        /\ ArtifactOf(a, file, NextVersion(memory.artifacts, file), hash) \in ArtifactRows
    BY <2>2 DEF ArtifactOf, ArtifactRows
  <2>4. /\ SharedInv'
        /\ \/ Contract!Ends(p, <<"ingest", a, file, hash>>, "artifacts", memory.artifacts \cup
                  {ArtifactOf(a, file, NextVersion(memory.artifacts, file), hash)})
           \/ Contract!Answered(p, <<"ingest">>, "failed")
    BY <1>1, <2>1, <2>3, LocalArtifactKeeps, NameComesFirst
  <2> QED
    BY <1>1, <1>2, <2>1, <2>3, <2>4, ContractIngest, FailedCall
<1>8. CASE LocalImportArtifact(p)
  <2>1. PICK a \in Artifacts, file \in Files, hash \in Hashes, n \in 1..Cardinality(Artifacts) :
            LET incoming == ArtifactOf(a, file, n, hash)
            IN IF Holds(memory.artifacts, a)
               THEN Answers(p, <<"import artifact", incoming>>,
                            ContentMatch(TRUE, incoming \in memory.artifacts))
               ELSE LocalArtifact(p, <<"import artifact", incoming>>, incoming)
    BY <1>8 DEF LocalImportArtifact
  <2>2. CASE Holds(memory.artifacts, a)
    BY <1>1, <2>1, <2>2, ImportArtifactAnswers
  <2>3. CASE ~Holds(memory.artifacts, a)
    <3>1. ArtifactOf(a, file, n, hash) \in ArtifactRows
      BY DEF ArtifactOf, ArtifactRows
    <3>2. /\ SharedInv'
          /\ \/ Contract!Ends(p, <<"import artifact", ArtifactOf(a, file, n, hash)>>, "artifacts",
                    memory.artifacts \cup {ArtifactOf(a, file, n, hash)})
             \/ Contract!Answered(p, <<"import artifact">>, "failed")
      BY <1>1, <2>1, <2>3, <3>1, LocalArtifactKeeps, NameComesFirst
    <3> QED
      BY <1>1, <2>3, <3>2, ContractImportArtifact, FailedCall
  <2> QED
    BY <2>2, <2>3
<1>9. CASE LocalIndex(p)
  <2>1. PICK s \in Sources : Persist(p, <<"index", s>>, "index", Append(memory.index, s))
                             /\ UNCHANGED content
    BY <1>9 DEF LocalIndex
  <2>2. Append(memory.index, s) \in Seq(Sources)
    BY <1>2
  <2>3. SharedInv' /\ Contract!Ends(p, <<"index", s>>, "index", Append(memory.index, s))
    BY <1>1, <1>2, <2>1, <2>2, PersistKeeps
  <2> QED
    BY <1>1, <2>3, ContractIndexWrites
<1>10. CASE LocalRemove(p)
  <2>1. PICK i \in 0..Len(memory.index) :
            Persist(p, <<"remove", i>>, "index", Without(memory.index, i)) /\ UNCHANGED content
    BY <1>10 DEF LocalRemove
  <2>2. Without(memory.index, i) \in Seq(Sources)
    BY <1>2, WithoutOne
  <2>3. SharedInv' /\ Contract!Ends(p, <<"remove", i>>, "index", Without(memory.index, i))
    BY <1>1, <1>2, <2>1, <2>2, PersistKeeps
  <2> QED
    BY <1>1, <2>3, ContractIndexWrites
<1>11. CASE LocalClear(p)
  <2>1. <<>> \in Seq(Sources)
    OBVIOUS
  <2>2. SharedInv' /\ Contract!Ends(p, <<"clear">>, "index", <<>>)
    BY <1>1, <1>2, <1>11, <2>1, PersistKeeps DEF LocalClear
  <2> QED
    BY <2>2, ContractIndexWrites
<1>12. CASE LocalReplaceAll(p)
  <2>1. PICK records \in [1..Cardinality(Sources) -> Sources] :
            Persist(p, <<"replaceAll", records>>, "index", records) /\ UNCHANGED content
    BY <1>12 DEF LocalReplaceAll
  <2>2. records \in Seq(Sources)
    BY AllRecords
  <2>3. SharedInv' /\ Contract!Ends(p, <<"replaceAll", records>>, "index", records)
    BY <1>1, <1>2, <2>1, <2>2, PersistKeeps
  <2> QED
    BY <2>3, ContractIndexWrites
<1> QED
  BY <1>3, <1>4, <1>5, <1>6, <1>7, <1>8, <1>9, <1>10, <1>11, <1>12 DEF LocalCall

-----------------------------------------------------------------------------
(* The SQLite stores. *)

(* What holds while a shared database is used.                              *)
LEMMA SharedFacts ==
  ASSUME SharedInv, backend # "local"
  PROVE  /\ Seen = stored /\ stored \in Rows
         /\ stored.entities \in [Ids -> Histories]
         /\ \A id \in Ids : stored.entities[id] \in Histories
         /\ stored.artifacts \in SUBSET ArtifactRows /\ IsFiniteSet(stored.artifacts)
         /\ stored.index \in Seq(Sources)
         /\ \A q \in Processes : call[q] # None => call[q] \in Calls /\ CallIsSound(call[q])
BY DEF SharedInv, TypeOK, Rows, CallsAreSound, Seen, Held

(* Index records and artifacts in a shared database.                        *)
LEMMA IndexKeeps ==
  ASSUME SharedInv, Stable, backend # "local", NEW p \in Processes, NEW request,
         NEW records \in Seq(Sources), Writes(p, request, "index", records, {})
  PROVE  /\ SharedInv'
         /\ \/ Contract!Ends(p, request, "index", records)
            \/ Contract!Answered(p, <<request[1]>>, "failed")
<1>1. stored \in Rows
  BY SharedFacts
<1>2. /\ [stored EXCEPT !["index"] = records] \in Rows
      /\ [stored EXCEPT !["index"] = records].entities = stored.entities
      /\ [stored EXCEPT !["index"] = records].artifacts = stored.artifacts
  BY <1>1, RowsWith
<1>3. Grows(stored, [stored EXCEPT !["index"] = records])
  BY <1>2 DEF Grows
<1>4. /\ {} \in SUBSET Hashes
      /\ \A a \in [stored EXCEPT !["index"] = records].artifacts :
             a \in stored.artifacts \/ a.hash \in {}
  BY <1>2
<1> QED
  BY <1>2, <1>3, <1>4, CommitKeeps

LEMMA ArtifactKeeps ==
  ASSUME SharedInv, Stable, backend # "local", NEW p \in Processes, NEW request,
         NEW artifact \in ArtifactRows,
         Writes(p, request, "artifacts", stored.artifacts \cup {artifact}, {artifact.hash})
  PROVE  /\ SharedInv'
         /\ \/ Contract!Ends(p, request, "artifacts", stored.artifacts \cup {artifact})
            \/ Contract!Answered(p, <<request[1]>>, "failed")
<1> DEFINE as == stored.artifacts \cup {artifact}
<1>1. stored \in Rows /\ as \in SUBSET ArtifactRows /\ IsFiniteSet(as)
  BY SharedFacts, FS_AddElement
<1>2. /\ [stored EXCEPT !["artifacts"] = as] \in Rows
      /\ [stored EXCEPT !["artifacts"] = as].entities = stored.entities
      /\ [stored EXCEPT !["artifacts"] = as].artifacts = as
  BY <1>1, RowsWith
<1>3. Grows(stored, [stored EXCEPT !["artifacts"] = as])
  BY <1>2 DEF Grows
<1>4. {artifact.hash} \in SUBSET Hashes
  BY DEF ArtifactRows
<1>5. \A a \in as : a \in stored.artifacts \/ a.hash \in {artifact.hash}
  OBVIOUS
<1> QED
  BY <1>2, <1>3, <1>4, <1>5, CommitKeeps

(* The first half of a call, and the calls that have no second one.         *)
LEMMA SqliteCallKeeps ==
  ASSUME SharedInv, Stable, NEW p \in Processes, SqliteCall(p)
  PROVE  SharedInv' /\ (Contract!Called(p) \/ Steady)
<1>1. backend = "sqlite" /\ backend # "local" /\ backend # "postgres"
  BY DEF SqliteCall
<1>2. /\ Seen = stored /\ stored \in Rows
      /\ stored.entities \in [Ids -> Histories]
      /\ \A id \in Ids : stored.entities[id] \in Histories
      /\ stored.artifacts \in SUBSET ArtifactRows /\ IsFiniteSet(stored.artifacts)
      /\ stored.index \in Seq(Sources)
  BY <1>1, SharedFacts
<1>3. CASE SqliteGet(p) \/ SqliteVersions(p) \/ SqliteArtifacts(p) \/ SqliteContent(p)
           \/ SqliteSearch(p)
  BY <1>2, <1>3, ReadKeeps
     DEF SqliteGet, SqliteVersions, SqliteArtifacts, SqliteContent, SqliteSearch
<1>4. CASE SqliteCreate(p)
  <2>1. PICK id \in Ids, body \in Contents :
            /\ stored.entities[id] = <<>>
            /\ Writes(p, <<"create", id, body>>, "entities",
                      [stored.entities EXCEPT ![id] = WithVersion(@, 1, body)], {})
    BY <1>4 DEF SqliteCreate
  <2>2. 1 \in Versions /\ 1 \notin DOMAIN stored.entities[id]
    BY <2>1, StoresAssumption, EmptyHistory DEF Versions
  <2>3. /\ SharedInv'
        /\ \/ Contract!Ends(p, <<"create", id, body>>, "entities",
                  [stored.entities EXCEPT ![id] = WithVersion(@, 1, body)])
           \/ Contract!Answered(p, <<"create">>, "failed")
    BY <1>1, <2>1, <2>2, VersionKeeps, NameComesFirst
  <2> QED
    BY <1>2, <2>1, <2>3, ContractCreate, FailedCall
<1>5. CASE SqliteUpdateReads(p)
  <2>1. PICK id \in Ids, f \in Fields, x \in Values :
            IF stored.entities[id] = <<>>
            THEN Answers(p, <<"update", id, f, x>>, "not found")
            ELSE /\ Newest(stored.entities[id]) < MaxVersion
                 /\ Reads(p, [name |-> "update", id |-> id, field |-> f, value |-> x,
                              latest |-> Latest(stored.entities[id]), overtaken |-> FALSE])
    BY <1>5 DEF SqliteUpdateReads
  <2>2. CASE stored.entities[id] = <<>>
    BY <1>2, <2>1, <2>2, AnswersKeeps, ContractNotFound
  <2>3. CASE stored.entities[id] # <<>>
    <3> DEFINE h == stored.entities[id]
               c == [name |-> "update", id |-> id, field |-> f, value |-> x,
                     latest |-> Latest(h), overtaken |-> FALSE]
    <3>1. h \in Histories /\ DOMAIN h # {}
      BY <1>2, <2>3, EmptyHistory
    <3>2. /\ Latest(h) \in [version : Versions, content : Contents]
          /\ Latest(h).version = Newest(h) /\ Latest(h).content = h[Newest(h)]
          /\ Newest(h) \in DOMAIN h
      BY <3>1, LatestIsThere, NewestIsThere
    <3>3. c \in Calls
      BY <3>2 DEF Calls, UpdateCalls
    <3>4. CallIsSound(c)
      BY <1>1, <2>1, <2>3, <3>2 DEF CallIsSound, UpdateIsBased
    <3> QED
      BY <1>1, <2>1, <2>3, <3>3, <3>4, ReadsKeeps
  <2> QED
    BY <2>2, <2>3
<1>6. CASE SqliteImportReads(p)
  <2>1. PICK id \in Ids, v \in Versions, body \in Contents :
            IF v \in DOMAIN stored.entities[id]
            THEN Answers(p, <<"import", id, v, body>>, ContentMatch(stored.entities[id][v], body))
            ELSE Reads(p, [name |-> "import", id |-> id, version |-> v,
                           content |-> body, overtaken |-> FALSE])
    BY <1>6 DEF SqliteImportReads
  <2>2. CASE v \in DOMAIN stored.entities[id]
    BY <1>1, <1>2, <2>1, <2>2, ImportAnswers
  <2>3. CASE v \notin DOMAIN stored.entities[id]
    <3> DEFINE c == [name |-> "import", id |-> id, version |-> v,
                     content |-> body, overtaken |-> FALSE]
    <3>1. c \in Calls /\ CallIsSound(c)
      BY <1>1 DEF Calls, ImportCalls, CallIsSound
    <3> QED
      BY <1>1, <2>1, <2>3, <3>1, ReadsKeeps
  <2> QED
    BY <2>2, <2>3
<1>7. CASE SqliteIngestCounts(p)
  <2>1. PICK file \in Files, hash \in Hashes :
            Reads(p, [name |-> "ingest", file |-> file, hash |-> hash,
                      version |-> NextVersion(stored.artifacts, file), overtaken |-> FALSE])
    BY <1>7 DEF SqliteIngestCounts
  <2> DEFINE c == [name |-> "ingest", file |-> file, hash |-> hash,
                   version |-> NextVersion(stored.artifacts, file), overtaken |-> FALSE]
  <2>2. NextVersion(stored.artifacts, file) \in Nat \ {0}
    BY <1>2, NextVersionGrows
  <2>3. c \in Calls
    BY <2>2 DEF Calls, IngestCalls
  <2>4. IngestIsCounted(c)
    BY <2>2 DEF IngestIsCounted
  <2>5. CallIsSound(c)
    BY <1>1, <2>4 DEF CallIsSound
  <2> QED
    BY <1>1, <2>1, <2>3, <2>5, ReadsKeeps
<1>8. CASE SqliteImportArtifactReads(p)
  <2>1. PICK a \in Artifacts, file \in Files, hash \in Hashes, n \in 1..Cardinality(Artifacts) :
            LET incoming == ArtifactOf(a, file, n, hash)
            IN IF Holds(stored.artifacts, a)
               THEN Answers(p, <<"import artifact", incoming>>,
                            ContentMatch(TRUE, incoming \in stored.artifacts))
               ELSE Reads(p, [name |-> "import artifact", artifact |-> incoming,
                              overtaken |-> FALSE])
    BY <1>8 DEF SqliteImportArtifactReads
  <2>2. CASE Holds(stored.artifacts, a)
    BY <1>2, <2>1, <2>2, ImportArtifactAnswers
  <2>3. CASE ~Holds(stored.artifacts, a)
    <3> DEFINE c == [name |-> "import artifact", artifact |-> ArtifactOf(a, file, n, hash),
                     overtaken |-> FALSE]
    <3>1. c \in Calls
      BY DEF Calls, ImportArtifactCalls, ArtifactOf
    <3>2. CallIsSound(c)
      BY <1>1 DEF CallIsSound
    <3> QED
      BY <1>1, <2>1, <2>3, <3>1, <3>2, ReadsKeeps
  <2> QED
    BY <2>2, <2>3
<1>9. CASE SqliteIndex(p)
  <2>1. PICK s \in Sources : Writes(p, <<"index", s>>, "index", Append(stored.index, s), {})
    BY <1>9 DEF SqliteIndex
  <2>2. Append(stored.index, s) \in Seq(Sources)
    BY <1>2
  <2>3. /\ SharedInv'
        /\ \/ Contract!Ends(p, <<"index", s>>, "index", Append(stored.index, s))
           \/ Contract!Answered(p, <<"index">>, "failed")
    BY <1>1, <2>1, <2>2, IndexKeeps, NameComesFirst
  <2> QED
    BY <1>2, <2>3, ContractIndexWrites, FailedCall
<1>10. CASE SqliteRemove(p)
  <2>1. PICK i \in 0..Len(stored.index) :
            IF i = 0 THEN Answers(p, <<"remove", i>>, "ok")
            ELSE Writes(p, <<"remove", i>>, "index", Without(stored.index, i), {})
    BY <1>10 DEF SqliteRemove
  <2>2. Without(stored.index, i) \in Seq(Sources)
    BY <1>2, WithoutOne
  <2>3. CASE i = 0
    <3>1. SharedInv' /\ Contract!Answered(p, <<"remove", i>>, "ok")
      BY <2>1, <2>3, AnswersKeeps
    <3>2. Without(stored.index, 0) = stored.index
      BY <1>2 DEF Without
    <3>3. [stored EXCEPT !["index"] = stored.index] = stored
      BY <1>2 DEF Rows
    <3>4. Contract!Ends(p, <<"remove", i>>, "index", Without(stored.index, 0))
      BY <1>2, <3>1, <3>2, <3>3 DEF Contract!Answered, Contract!Ends, Contract!Done
    <3> QED
      BY <1>2, <2>3, <3>1, <3>4, ContractIndexWrites
  <2>4. CASE i # 0
    <3>1. /\ SharedInv'
          /\ \/ Contract!Ends(p, <<"remove", i>>, "index", Without(stored.index, i))
             \/ Contract!Answered(p, <<"remove">>, "failed")
      BY <1>1, <2>1, <2>2, <2>4, IndexKeeps, NameComesFirst
    <3> QED
      BY <1>2, <3>1, ContractIndexWrites, FailedCall
  <2> QED
    BY <2>3, <2>4
<1>11. CASE SqliteClear(p)
  <2>1. CASE stored.index = <<>>
    <3>1. SharedInv' /\ Contract!Answered(p, <<"clear">>, "ok")
      BY <1>11, <2>1, AnswersKeeps DEF SqliteClear
    <3>2. [stored EXCEPT !["index"] = <<>>] = stored
      BY <1>2, <2>1 DEF Rows
    <3>3. Contract!Ends(p, <<"clear">>, "index", <<>>)
      BY <1>2, <3>1, <3>2 DEF Contract!Answered, Contract!Ends, Contract!Done
    <3> QED
      BY <3>1, <3>3, ContractIndexWrites
  <2>2. CASE stored.index # <<>>
    <3>1. <<>> \in Seq(Sources)
      OBVIOUS
    <3>2. /\ SharedInv'
          /\ \/ Contract!Ends(p, <<"clear">>, "index", <<>>)
             \/ Contract!Answered(p, <<"clear">>, "failed")
      BY <1>1, <1>11, <2>2, <3>1, IndexKeeps, NameComesFirst DEF SqliteClear
    <3> QED
      BY <3>2, ContractIndexWrites, FailedCall
  <2> QED
    BY <2>1, <2>2
<1>12. CASE SqliteReplaceAll(p)
  <2>1. PICK records \in [1..Cardinality(Sources) -> Sources] :
            Writes(p, <<"replaceAll", records>>, "index", records, {})
    BY <1>12 DEF SqliteReplaceAll
  <2>2. records \in Seq(Sources)
    BY AllRecords
  <2>3. /\ SharedInv'
        /\ \/ Contract!Ends(p, <<"replaceAll", records>>, "index", records)
           \/ Contract!Answered(p, <<"replaceAll">>, "failed")
    BY <1>1, <2>1, <2>2, IndexKeeps, NameComesFirst
  <2> QED
    BY <2>3, ContractIndexWrites, FailedCall
<1> QED
  BY <1>3, <1>4, <1>5, <1>6, <1>7, <1>8, <1>9, <1>10, <1>11, <1>12 DEF SqliteCall

(* The second half.                                                         *)
LEMMA SqliteFinishKeeps ==
  ASSUME SharedInv, Stable, NEW p \in Processes, SqliteFinish(p)
  PROVE  SharedInv' /\ (Contract!Called(p) \/ Lapses(p))
<1>1. backend = "sqlite" /\ backend # "local" /\ backend # "postgres"
  BY DEF SqliteFinish
<1>2. /\ Seen = stored /\ stored \in Rows
      /\ \A id \in Ids : stored.entities[id] \in Histories
  BY <1>1, SharedFacts
<1>3. PICK c : c = call[p]
  OBVIOUS
<1>4. c # None => c \in Calls /\ CallIsSound(c)
  BY <1>1, <1>3, SharedFacts
<1>5. CASE SqliteUpdateWrites(p)
  <2>1. c \in UpdateCalls /\ UpdateIsBased(c)
    BY <1>3, <1>4, <1>5
       DEF SqliteUpdateWrites, In, CallIsSound, Calls, UpdateCalls, ImportCalls, IngestCalls,
           ImportArtifactCalls
  <2>2. CASE c.overtaken
    <3>1. Answers(p, <<"update">>, "failed")
      BY <1>3, <1>5, <2>2 DEF SqliteUpdateWrites, Refused, Patch
    <3> QED
      BY <3>1, AnswersKeeps, FailedCall
  <2>3. CASE ~c.overtaken
    <3> DEFINE h    == stored.entities[c.id]
               body == [c.latest.content EXCEPT ![c.field] = c.value]
    <3>1. c.id \in Ids /\ c.field \in Fields /\ c.value \in Values
      BY <2>1 DEF UpdateCalls
    <3>2. c.latest = Latest(h) /\ c.latest.version < MaxVersion /\ DOMAIN h # {}
      BY <1>1, <2>1, <2>3 DEF UpdateIsBased
    <3>3. /\ Newest(h) \in DOMAIN h /\ \A w \in DOMAIN h : w <= Newest(h)
          /\ c.latest.version = Newest(h) /\ c.latest.content = h[Newest(h)]
      BY <1>2, <3>1, <3>2, NewestIsThere, LatestIsThere
    <3>4. DOMAIN h \subseteq Versions /\ h[Newest(h)] \in Contents
      BY <1>2, <3>1, <3>3 DEF Histories
    <3>5. Newest(h) + 1 \in Versions /\ Newest(h) + 1 \notin DOMAIN h
      <4>1. Newest(h) \in 1..MaxVersion /\ Newest(h) < MaxVersion /\ MaxVersion \in Nat
        BY <3>2, <3>3, <3>4, StoresAssumption DEF Versions
      <4>2. ~ (Newest(h) + 1 <= Newest(h))
        BY <4>1
      <4> QED
        BY <4>1, <4>2, <3>3 DEF Versions
    <3>6. body \in Contents
      BY <3>1, <3>3, <3>4, PatchedContent
    <3>7. Writes(p, <<"update", c.id, c.field, c.value>>, "entities",
                 [stored.entities EXCEPT ![c.id] = WithVersion(@, Newest(h) + 1, body)], {})
      BY <1>3, <1>5, <2>3, <3>3 DEF SqliteUpdateWrites, Patch
    <3>8. /\ SharedInv'
          /\ \/ Contract!Ends(p, <<"update", c.id, c.field, c.value>>, "entities",
                    [stored.entities EXCEPT ![c.id] = WithVersion(@, Newest(h) + 1, body)])
             \/ Contract!Answered(p, <<"update">>, "failed")
      BY <1>1, <3>1, <3>5, <3>6, <3>7, VersionKeeps, NameComesFirst
    <3>9. [stored.entities EXCEPT ![c.id] = WithVersion(@, Newest(h) + 1, body)]
              = [stored.entities EXCEPT ![c.id] = Patched(@, h[Newest(h)], c.field, c.value)]
      BY <3>3 DEF Patched
    <3>10. Contract!Ends(p, <<"update", c.id, c.field, c.value>>, "entities",
                [stored.entities EXCEPT ![c.id] =
                    Patched(@, h[Newest(h)], c.field, c.value)]) => Contract!Called(p)
      BY <1>2, <3>1, <3>3, ContractUpdate
    <3> QED
      BY <3>8, <3>9, <3>10, FailedCall
  <2> QED
    BY <2>2, <2>3
<1>6. CASE SqliteImportWrites(p)
  <2>1. c \in ImportCalls
    BY <1>3, <1>4, <1>6
       DEF SqliteImportWrites, In, Calls, UpdateCalls, ImportCalls, IngestCalls,
           ImportArtifactCalls
  <2>2. c.id \in Ids /\ c.version \in Versions /\ c.content \in Contents
    BY <2>1 DEF ImportCalls
  <2>3. CASE c.version \in DOMAIN stored.entities[c.id]
    <3>1. Answers(p, <<"import">>, "failed")
      BY <1>3, <1>6, <2>3 DEF SqliteImportWrites, Refused
    <3> QED
      BY <3>1, AnswersKeeps, FailedCall
  <2>4. CASE c.version \notin DOMAIN stored.entities[c.id]
    <3>1. Writes(p, <<"import", c.id, c.version, c.content>>, "entities",
              [stored.entities EXCEPT ![c.id] = WithVersion(@, c.version, c.content)], {})
      BY <1>3, <1>6, <2>4 DEF SqliteImportWrites
    <3>2. /\ SharedInv'
          /\ \/ Contract!Ends(p, <<"import", c.id, c.version, c.content>>, "entities",
                    [stored.entities EXCEPT ![c.id] = WithVersion(@, c.version, c.content)])
             \/ Contract!Answered(p, <<"import">>, "failed")
      BY <1>1, <2>2, <2>4, <3>1, VersionKeeps, NameComesFirst
    <3> QED
      BY <1>2, <2>2, <2>4, <3>2, ContractImport, FailedCall
  <2> QED
    BY <2>3, <2>4
<1>7. CASE SqliteIngestWrites(p)
  <2>1. c \in IngestCalls /\ IngestIsCounted(c)
    BY <1>3, <1>4, <1>7
       DEF SqliteIngestWrites, In, CallIsSound, Calls, UpdateCalls, ImportCalls, IngestCalls,
           ImportArtifactCalls
  <2>2. /\ c.file \in Files /\ c.hash \in Hashes /\ c.version \in Nat
        /\ c.version \in 1..NextVersion(stored.artifacts, c.file)
    BY <2>1 DEF IngestCalls, IngestIsCounted
  <2>3. PICK a \in Artifacts :
            /\ ~Holds(stored.artifacts, a)
            /\ Writes(p, <<"ingest", a, c.file, c.hash>>, "artifacts",
                      stored.artifacts \cup {ArtifactOf(a, c.file, c.version, c.hash)},
                      {c.hash})
    BY <1>3, <1>7 DEF SqliteIngestWrites
  <2>4. /\ ArtifactOf(a, c.file, c.version, c.hash) \in ArtifactRows
        /\ ArtifactOf(a, c.file, c.version, c.hash).hash = c.hash
    BY <2>2 DEF ArtifactOf, ArtifactRows
  <2>5. /\ SharedInv'
        /\ \/ Contract!Ends(p, <<"ingest", a, c.file, c.hash>>, "artifacts", stored.artifacts \cup
                  {ArtifactOf(a, c.file, c.version, c.hash)})
           \/ Contract!Answered(p, <<"ingest">>, "failed")
    BY <1>1, <2>3, <2>4, ArtifactKeeps, NameComesFirst
  <2>6. IsFiniteSet(Seen.artifacts)
    BY <1>1, SharedFacts
  <2>7. CASE Contract!Answered(p, <<"ingest">>, "failed")
    BY <2>5, <2>7, FailedCall
  <2>8. CASE Contract!Ends(p, <<"ingest", a, c.file, c.hash>>, "artifacts",
                 stored.artifacts \cup {ArtifactOf(a, c.file, c.version, c.hash)})
    <3>1. /\ c.version = NextVersion(stored.artifacts, c.file) => Contract!Called(p)
          /\ c.version # NextVersion(stored.artifacts, c.file) => Contract!StaleIngest(p)
      BY <1>2, <2>2, <2>3, <2>6, <2>8, ContractIngest
    <3> QED
      BY <1>1, <1>3, <1>7, <2>5, <3>1 DEF Lapses, SqliteIngestWrites
  <2> QED
    BY <2>5, <2>7, <2>8
<1>8. CASE SqliteImportArtifactWrites(p)
  <2>1. c \in ImportArtifactCalls
    BY <1>3, <1>4, <1>8
       DEF SqliteImportArtifactWrites, In, Calls, UpdateCalls, ImportCalls, IngestCalls,
           ImportArtifactCalls
  <2>2. PICK a \in Artifacts, file \in Files, hash \in Hashes, n \in 1..Cardinality(Artifacts) :
            c.artifact = ArtifactOf(a, file, n, hash)
    <3>1. /\ c.artifact.id \in Artifacts /\ c.artifact.file \in Files
          /\ c.artifact.hash \in Hashes /\ c.artifact.version \in 1..Cardinality(Artifacts)
          /\ c.artifact = ArtifactOf(c.artifact.id, c.artifact.file, c.artifact.version,
                                     c.artifact.hash)
      BY <2>1 DEF ImportArtifactCalls, ArtifactOf
    <3> QED
      BY <3>1
  <2>3. /\ c.artifact \in ArtifactRows /\ c.artifact.id = a
    BY <2>2 DEF ArtifactOf, ArtifactRows
  <2>4. CASE Holds(stored.artifacts, a)
    <3>1. Answers(p, <<"import artifact">>, "failed")
      BY <1>3, <1>8, <2>3, <2>4 DEF SqliteImportArtifactWrites, Refused
    <3> QED
      BY <3>1, AnswersKeeps, FailedCall
  <2>5. CASE ~Holds(stored.artifacts, a)
    <3>1. Writes(p, <<"import artifact", c.artifact>>, "artifacts",
                 stored.artifacts \cup {c.artifact}, {c.artifact.hash})
      BY <1>3, <1>8, <2>3, <2>5 DEF SqliteImportArtifactWrites
    <3>2. /\ SharedInv'
          /\ \/ Contract!Ends(p, <<"import artifact", c.artifact>>, "artifacts",
                    stored.artifacts \cup {c.artifact})
             \/ Contract!Answered(p, <<"import artifact">>, "failed")
      BY <1>1, <2>3, <3>1, ArtifactKeeps, NameComesFirst
    <3> QED
      BY <1>2, <2>2, <2>5, <3>2, ContractImportArtifact, FailedCall
  <2> QED
    BY <2>4, <2>5
<1> QED
  BY <1>5, <1>6, <1>7, <1>8 DEF SqliteFinish

-----------------------------------------------------------------------------
(* The Postgres store. *)

LEMMA PostgresCallKeeps ==
  ASSUME SharedInv, Stable, NEW p \in Processes, PostgresCall(p)
  PROVE  SharedInv' /\ (Contract!Called(p) \/ Lapses(p) \/ Steady)
<1>1. backend = "postgres" /\ backend # "local" /\ backend # "sqlite"
  BY DEF PostgresCall
<1>2. /\ Seen = stored /\ stored \in Rows
      /\ \A id \in Ids : stored.entities[id] \in Histories
  BY <1>1, SharedFacts
<1>3. CASE PostgresGet(p) \/ PostgresVersions(p)
  BY <1>2, <1>3, ReadKeeps DEF PostgresGet, PostgresVersions
<1>4. CASE PostgresCreate(p)
  <2>1. PICK id \in Ids, body \in Contents :
            /\ stored.entities[id] = <<>>
            /\ Inserts(p, <<"create", id, body>>, [stored.entities EXCEPT ![id] = WithVersion(@, 1, body)])
    BY <1>4 DEF PostgresCreate
  <2>2. 1 \in Versions /\ 1 \notin DOMAIN stored.entities[id]
    BY <2>1, StoresAssumption, EmptyHistory DEF Versions
  <2>3. /\ SharedInv'
        /\ \/ Contract!Ends(p, <<"create", id, body>>, "entities",
                  [stored.entities EXCEPT ![id] = WithVersion(@, 1, body)])
           \/ Contract!Answered(p, <<"create">>, "failed")
    BY <1>1, <2>1, <2>2, VersionKeeps, NameComesFirst
  <2> QED
    BY <1>2, <2>1, <2>3, ContractCreate, FailedCall
<1>5. CASE PostgresUpdateReads(p)
  <2>1. PICK id \in Ids, f \in Fields, x \in Values :
            IF stored.entities[id] = <<>>
            THEN Answers(p, <<"update", id, f, x>>, "not found")
            ELSE Reads(p, [name |-> "update", id |-> id, field |-> f, value |-> x,
                           latest |-> Latest(stored.entities[id]), overtaken |-> FALSE])
    BY <1>5 DEF PostgresUpdateReads
  <2>2. CASE stored.entities[id] = <<>>
    BY <1>2, <2>1, <2>2, AnswersKeeps, ContractNotFound
  <2>3. CASE stored.entities[id] # <<>>
    <3> DEFINE h == stored.entities[id]
               c == [name |-> "update", id |-> id, field |-> f, value |-> x,
                     latest |-> Latest(h), overtaken |-> FALSE]
    <3>1. h \in Histories /\ DOMAIN h # {}
      BY <1>2, <2>3, EmptyHistory
    <3>2. /\ Latest(h) \in [version : Versions, content : Contents]
          /\ Latest(h).content = h[Newest(h)]
          /\ Newest(h) \in DOMAIN h
      BY <3>1, LatestIsThere, NewestIsThere
    <3>3. c \in Calls
      BY <3>2 DEF Calls, UpdateCalls
    <3>4. CallIsSound(c)
      BY <1>1, <3>2 DEF CallIsSound, UpdateIsBased
    <3> QED
      BY <1>1, <2>1, <2>3, <3>3, <3>4, ReadsKeeps
  <2> QED
    BY <2>2, <2>3
<1>6. CASE PostgresImportEntity(p)
  <2>1. PICK id \in Ids, v \in Versions, body \in Contents :
            IF v \in DOMAIN stored.entities[id]
            THEN Answers(p, <<"import", id, v, body>>, "ok")
            ELSE Inserts(p, <<"import", id, v, body>>,
                         [stored.entities EXCEPT ![id] = WithVersion(@, v, body)])
    BY <1>6 DEF PostgresImportEntity
  <2>2. CASE v \in DOMAIN stored.entities[id] /\ stored.entities[id][v] = body
    <3>1. Answers(p, <<"import", id, v, body>>, ContentMatch(stored.entities[id][v], body))
      BY <2>1, <2>2 DEF ContentMatch
    <3> QED
      BY <1>2, <2>2, <3>1, ImportAnswers
  <2>4. CASE v \in DOMAIN stored.entities[id] /\ stored.entities[id][v] # body
    <3>1. SharedInv' /\ Contract!Answered(p, <<"import", id, v, body>>, "ok")
      BY <2>1, <2>4, AnswersKeeps
    <3>2. Contract!SilentImport(p)
      BY <1>2, <2>4, <3>1, SameOperators DEF Contract!SilentImport
    <3> QED
      BY <1>1, <3>1, <3>2 DEF Lapses, PostgresCall
  <2>3. CASE v \notin DOMAIN stored.entities[id]
    <3>1. /\ SharedInv'
          /\ \/ Contract!Ends(p, <<"import", id, v, body>>, "entities",
                    [stored.entities EXCEPT ![id] = WithVersion(@, v, body)])
             \/ Contract!Answered(p, <<"import">>, "failed")
      BY <1>1, <2>1, <2>3, VersionKeeps, NameComesFirst
    <3> QED
      BY <1>2, <2>3, <3>1, ContractImport, FailedCall
  <2> QED
    BY <2>2, <2>3, <2>4
<1> QED
  BY <1>3, <1>4, <1>5, <1>6 DEF PostgresCall

(* The INSERT of an update: on top of a version that was the latest once.   *)
LEMMA PostgresFinishKeeps ==
  ASSUME SharedInv, Stable, NEW p \in Processes, PostgresFinish(p)
  PROVE  SharedInv' /\ (Contract!Called(p) \/ Lapses(p))
<1>1. backend = "postgres" /\ backend # "local" /\ PostgresUpdateWrites(p)
  BY DEF PostgresFinish
<1>2. /\ Seen = stored /\ stored \in Rows
      /\ \A id \in Ids : stored.entities[id] \in Histories
  BY <1>1, SharedFacts
<1>3. PICK c : c = call[p]
  OBVIOUS
<1>4. c \in Calls /\ CallIsSound(c)
  BY <1>1, <1>3, SharedFacts DEF PostgresUpdateWrites
<1>5. c \in UpdateCalls /\ UpdateIsBased(c)
  BY <1>1, <1>4
     DEF CallIsSound, Calls, UpdateCalls, ImportCalls, IngestCalls, ImportArtifactCalls
<1>6. c.id \in Ids /\ c.field \in Fields /\ c.value \in Values
  BY <1>5 DEF UpdateCalls
<1>7. PICK v \in DOMAIN stored.entities[c.id] : stored.entities[c.id][v] = c.latest.content
  BY <1>5 DEF UpdateIsBased
<1>8. CASE Answers(p, <<"update">>, "failed")
  BY <1>8, AnswersKeeps, FailedCall
<1>9. CASE /\ Newest(stored.entities[c.id]) < MaxVersion
           /\ Inserts(p, <<"update", c.id, c.field, c.value>>,
                      [stored.entities EXCEPT ![c.id] =
                          Patched(@, c.latest.content, c.field, c.value)])
  <2> DEFINE h    == stored.entities[c.id]
             body == [h[v] EXCEPT ![c.field] = c.value]
  <2>1. h \in Histories /\ DOMAIN h # {}
    BY <1>2, <1>6, <1>7
  <2>2. Newest(h) \in DOMAIN h /\ \A w \in DOMAIN h : w <= Newest(h)
    BY <2>1, NewestIsThere
  <2>3. DOMAIN h \subseteq Versions /\ h[v] \in Contents
    BY <2>1, <1>7 DEF Histories
  <2>4. Newest(h) + 1 \in Versions /\ Newest(h) + 1 \notin DOMAIN h
    <3>1. Newest(h) \in 1..MaxVersion /\ Newest(h) < MaxVersion /\ MaxVersion \in Nat
      BY <1>9, <2>2, <2>3, StoresAssumption DEF Versions
    <3>2. ~ (Newest(h) + 1 <= Newest(h))
      BY <3>1
    <3> QED
      BY <3>1, <3>2, <2>2 DEF Versions
  <2>5. body \in Contents
    BY <1>6, <2>3, PatchedContent
  <2>6. Inserts(p, <<"update", c.id, c.field, c.value>>,
                [stored.entities EXCEPT ![c.id] = WithVersion(@, Newest(h) + 1, body)])
    BY <1>7, <1>9, <1>3 DEF Patched, Patch
  <2>7. /\ SharedInv'
        /\ \/ Contract!Ends(p, <<"update", c.id, c.field, c.value>>, "entities",
                  [stored.entities EXCEPT ![c.id] = WithVersion(@, Newest(h) + 1, body)])
           \/ Contract!Answered(p, <<"update">>, "failed")
    BY <1>1, <1>6, <2>4, <2>5, <2>6, VersionKeeps, NameComesFirst
  <2>8. [stored.entities EXCEPT ![c.id] = WithVersion(@, Newest(h) + 1, body)]
            = [stored.entities EXCEPT ![c.id] = Patched(@, h[v], c.field, c.value)]
    BY DEF Patched
  <2>9. ASSUME Contract!Ends(p, <<"update", c.id, c.field, c.value>>, "entities",
                   [stored.entities EXCEPT ![c.id] = Patched(@, h[v], c.field, c.value)])
        PROVE  Contract!Called(p) \/ Lapses(p)
    <3>1. CASE v = Newest(h)
      BY <1>2, <1>6, <1>7, <2>9, <3>1, ContractUpdate
    <3>2. CASE c.latest = Latest(h)
      <4>1. h[Newest(h)] = h[v]
        BY <1>7, <2>1, <3>2, LatestIsThere
      <4>2. Contract!Ends(p, <<"update", c.id, c.field, c.value>>, "entities",
                [stored.entities EXCEPT ![c.id] = Patched(@, h[Newest(h)], c.field, c.value)])
        BY <2>9, <4>1
      <4> QED
        BY <1>2, <1>6, <2>2, <4>2, ContractUpdate
    <3>3. CASE v # Newest(h) /\ c.latest # Latest(h)
      <4>1. Contract!StaleUpdate(p)
        BY <1>2, <1>6, <1>7, <2>9, <3>3, ContractUpdate
      <4>2. In(p, "update")
        BY <1>1, <1>3, <1>5 DEF In, UpdateCalls, PostgresUpdateWrites
      <4> QED
        BY <1>1, <1>3, <3>3, <4>1, <4>2 DEF Lapses
    <3> QED
      BY <3>1, <3>2, <3>3
  <2> QED
    BY <2>7, <2>8, <2>9, FailedCall
<1> QED
  BY <1>1, <1>3, <1>8, <1>9 DEF PostgresUpdateWrites, Patch

-----------------------------------------------------------------------------
(* Opening, closing, altered bytes. *)

(* The maps of a process that opens the local stores are the files.         *)
LEMMA OpenKeeps ==
  ASSUME SharedInv, Stable, NEW p \in Processes, Open(p)
  PROVE  SharedInv' /\ Steady
<1>1. /\ process \in [Processes -> {"out", "opening", "open", "dying"}]
      /\ backend \in {"local", "sqlite", "postgres"} /\ stored \in Rows
  BY DEF SharedInv, TypeOK
<1>2. UNCHANGED <<stored, content, call, answer>>
  BY DEF Open
<1>3. /\ process' \in [Processes -> {"out", "opening", "open", "dying"}]
      /\ memory' \in {memory, stored}
  BY <1>1 DEF Open, OpenLocal, OpenSqlite, OpenPostgres, Migrate, Load
<1>4. TypeOK'
  BY <1>2, <1>3 DEF SharedInv, TypeOK, Stable
<1>5. LocalIsAlone'
  <2>1. CASE OpenLocal(p)
    BY <1>1, <1>2, <2>1 DEF OpenLocal, SharedInv, LocalIsAlone
  <2>2. CASE OpenSqlite(p) \/ OpenPostgres(p)
    BY <1>1, <2>2 DEF OpenSqlite, OpenPostgres, LocalIsAlone, Stable
  <2>3. CASE Migrate(p)
    BY <1>1, <1>2, <2>3 DEF Migrate, SharedInv, LocalIsAlone, Stable
  <2> QED
    BY <2>1, <2>2, <2>3 DEF Open
<1>6. CallsAreSound'
  BY <1>2 DEF SharedInv, CallsAreSound, CallIsSound, UpdateIsBased, IngestIsCounted, Stable
<1>7. BytesBeforeMetadata'
  BY <1>2, <1>3 DEF SharedInv, BytesBeforeMetadata
<1>8. Seen' = Seen
  <2>1. CASE OpenLocal(p)
    BY <1>1, <1>2, <2>1 DEF OpenLocal, Load, Seen, Held, Stable
  <2>2. CASE OpenSqlite(p) \/ OpenPostgres(p)
    BY <1>2, <2>2 DEF OpenSqlite, OpenPostgres, Seen, Held, Stable
  <2>3. CASE Migrate(p)
    BY <1>2, <2>3 DEF SharedInv, LocalIsAlone, Migrate, Seen, Held, Stable
  <2> QED
    BY <2>1, <2>2, <2>3 DEF Open
<1> QED
  BY <1>2, <1>4, <1>5, <1>6, <1>7, <1>8 DEF SharedInv, Steady

(* Who closes the local stores leaves the files to the next.                *)
LEMMA StopKeeps ==
  ASSUME SharedInv, Stable, NEW p \in Processes, Stop(p)
  PROVE  SharedInv' /\ Contract!Restart
<1>1. /\ process \in [Processes -> {"out", "opening", "open", "dying"}]
      /\ call \in [Processes -> Calls \cup {None}]
      /\ stored \in Rows
  BY DEF SharedInv, TypeOK
<1>2. /\ UNCHANGED <<stored, content, answer>> /\ memory' = NoRows
      /\ process' = [process EXCEPT ![p] = "out"] /\ process[p] # "out"
      /\ call' = [call EXCEPT ![p] = None]
  BY DEF Stop
<1>3. NoRows \in Rows /\ NoRows.artifacts = {}
  <2>1. <<>> \in Seq(Sources) /\ IsFiniteSet({})
    BY FS_EmptySet
  <2>2. [id \in Ids |-> <<>>] \in [Ids -> Histories]
    BY EmptyHistory
  <2> QED
    BY <2>1, <2>2 DEF NoRows, Rows
<1>4. TypeOK'
  BY <1>1, <1>2, <1>3 DEF SharedInv, TypeOK, Stable
<1>5. LocalIsAlone'
  BY <1>1, <1>2 DEF SharedInv, LocalIsAlone, Stable
<1>6. CallsAreSound'
  <2>1. \A q \in Processes : call'[q] # None => call[q] # None /\ call'[q] = call[q]
    BY <1>1, <1>2
  <2>2. \A c : CallIsSound(c)' <=> CallIsSound(c)
    BY <1>2 DEF CallIsSound, UpdateIsBased, IngestIsCounted, Stable
  <2> QED
    BY <2>1, <2>2 DEF SharedInv, CallsAreSound
<1>7. BytesBeforeMetadata'
  BY <1>2, <1>3 DEF SharedInv, BytesBeforeMetadata
<1>8. Seen' = stored
  <2>1. ~Held'
    BY <1>1, <1>2 DEF Held, SharedInv, LocalIsAlone, Stable
  <2> QED
    BY <1>2, <2>1 DEF Seen
<1> QED
  BY <1>2, <1>4, <1>5, <1>6, <1>7, <1>8 DEF SharedInv, Contract!Restart

(* Stored bytes are altered: nobody's rows are.                             *)
LEMMA AlterKeeps ==
  ASSUME SharedInv, Alter
  PROVE  SharedInv' /\ Contract!Alter
<1>1. UNCHANGED <<backend, stored, content, memory, process, call, answer>>
  BY DEF Alter
<1>2. PICK h \in content \ damaged : damaged' = damaged \cup {h}
  BY DEF Alter
<1>3. h \in Hashes
  BY DEF SharedInv, TypeOK
<1>4. SharedInv'
  BY <1>1 DEF SharedInv, TypeOK, LocalIsAlone, CallsAreSound, CallIsSound, UpdateIsBased,
              IngestIsCounted, BytesBeforeMetadata
<1>5. UNCHANGED Seen
  BY <1>1 DEF Seen, Held
<1> QED
  BY <1>1, <1>2, <1>3, <1>4, <1>5 DEF Contract!Alter

-----------------------------------------------------------------------------
(* The theorems. *)

LEMMA InitKeeps == Init => SharedInv /\ Contract!ContractInit
<1> SUFFICES ASSUME Init PROVE SharedInv /\ Contract!ContractInit
  OBVIOUS
<1>1. <<>> \in Seq(Sources) /\ IsFiniteSet({}) /\ [id \in Ids |-> <<>>] \in [Ids -> Histories]
  BY FS_EmptySet, EmptyHistory
<1>2. NoRows \in Rows /\ NoRows.artifacts = {}
  BY <1>1 DEF NoRows, Rows
<1>3. TypeOK
  BY <1>2 DEF Init, TypeOK
<1>4. LocalIsAlone /\ CallsAreSound
  BY DEF Init, LocalIsAlone, CallsAreSound
<1>5. BytesBeforeMetadata
  BY <1>2 DEF Init, BytesBeforeMetadata
<1>6. Seen = stored /\ stored = NoRows
  BY DEF Init, Seen, Held
<1>7. Contract!ContractInit
  BY <1>6 DEF Init, NoRows, Contract!ContractInit
<1> QED
  BY <1>3, <1>4, <1>5, <1>7 DEF SharedInv

\* A step of the contract, or a lapse.
Promised ==
    Contract!ContractNext \/ \E p \in Processes : Lapses(p) /\ UNCHANGED damaged

(* Every step keeps the invariant and is a step of the contract, a lapse or *)
(* none.                                                                    *)
LEMMA StepKeeps ==
  SharedInv /\ [Next]_vars
      => SharedInv' /\ [Promised]_(Contract!contractVars)
<1> SUFFICES ASSUME SharedInv, [Next]_vars
             PROVE  SharedInv' /\ [Promised]_(Contract!contractVars)
  OBVIOUS
<1> USE DEF Contract!contractVars, Promised
<1>1. CASE \E p \in Processes : /\ Open(p) \/ Begin(p) \/ Finish(p) \/ Stop(p)
                                /\ UNCHANGED <<backend, damaged>>
  <2>1. PICK p \in Processes : Open(p) \/ Begin(p) \/ Finish(p) \/ Stop(p)
    BY <1>1
  <2>2. Stable /\ UNCHANGED damaged
    BY <1>1 DEF Stable
  <2>3. SharedInv' /\ (Contract!Called(p) \/ Lapses(p) \/ Contract!Restart \/ Steady)
    <3>1. CASE Open(p)
      BY <2>2, <3>1, OpenKeeps
    <3>2. CASE Begin(p)
      BY <2>2, <3>2, LocalCallKeeps, SqliteCallKeeps, PostgresCallKeeps DEF Begin
    <3>3. CASE Finish(p)
      BY <2>2, <3>3, SqliteFinishKeeps, PostgresFinishKeeps DEF Finish
    <3>4. CASE Stop(p)
      BY <2>2, <3>4, StopKeeps
    <3> QED
      BY <2>1, <3>1, <3>2, <3>3, <3>4
  <2>4. CASE Contract!Called(p) \/ Contract!Restart
    BY <2>2, <2>3, <2>4 DEF Contract!ContractNext
  <2>5. CASE Steady
    BY <2>2, <2>3, <2>5 DEF Steady
  <2>6. CASE Lapses(p)
    BY <2>2, <2>3, <2>6
  <2> QED
    BY <2>3, <2>4, <2>5, <2>6
<1>2. CASE Alter
  BY <1>2, AlterKeeps DEF Contract!ContractNext
<1>3. CASE UNCHANGED vars
  <2>1. UNCHANGED <<backend, stored, content, damaged, memory, process, call, answer>>
    BY <1>3 DEF vars
  <2>2. SharedInv'
    BY <2>1 DEF SharedInv, TypeOK, LocalIsAlone, CallsAreSound, CallIsSound, UpdateIsBased,
                IngestIsCounted, BytesBeforeMetadata
  <2>3. UNCHANGED Seen
    BY <2>1 DEF Seen, Held
  <2> QED
    BY <2>1, <2>2, <2>3
<1> QED
  BY <1>1, <1>2, <1>3 DEF Next

(* The inductive invariant: rows and calls have their types, the local      *)
(* stores have one holder, what a call in progress has read is still there, *)
(* and bytes precede metadata.                                              *)
LEMMA SharedInvariant == Spec => []SharedInv
<1>1. Init => SharedInv
  BY InitKeeps
<1>2. SharedInv /\ [Next]_vars => SharedInv'
  BY StepKeeps
<1> QED
  BY <1>1, <1>2, PTL DEF Spec

(* ingest and importSnapshot of the three artifact stores: whatever fails   *)
(* or is killed in between, no artifact is known whose bytes were not       *)
(* stored first.                                                            *)
THEOREM BytesBeforeMetadataAlways == Spec => []BytesBeforeMetadata
<1>1. SharedInv => BytesBeforeMetadata
  BY DEF SharedInv
<1> QED
  BY <1>1, SharedInvariant, PTL

(* The local, SQLite and Postgres stores behind the interfaces of           *)
(* contracts/: every step keeps the promises of StoreContract, or is one of *)
(* three lapses on the call it happens in: a Postgres update or a SQLite    *)
(* ingest that another process's write overtook, a Postgres import that     *)
(* meets another row.                                                       *)
THEOREM StoresImplementContract == Spec => ImplementsContract
<1>1. Init => Contract!ContractInit
  BY InitKeeps
<1>2. SharedInv /\ [Next]_vars => [Promised]_(Contract!contractVars)
  BY StepKeeps
<1> QED
  BY <1>1, <1>2, SharedInvariant, PTL DEF Spec, ImplementsContract, Promised
=============================================================================
