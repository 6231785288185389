------------------------- MODULE LocalLedgerProofs -------------------------
(***************************************************************************)
(* The local ledger store, proved for any number of records, restarts and   *)
(* rotations: what stays in its files, what memory holds, that the chain    *)
(* goes on, and that rotation with its marker is the transaction of         *)
(* SqliteLedger.  The invariant speaks of the files that are not damaged.   *)
(* Last, what SqliteLedger promises itself.                                 *)
(***************************************************************************)
EXTENDS LocalLedger, PickingProofs

---------------------------------------------------------------------------
(* Lines and records.                                                       *)

LEMMA RecordFacts ==
  ASSUME NEW r \in Record
  PROVE  /\ r # Torn /\ r \in Line
         /\ r.id \in Nat /\ r.id # 0 /\ r.id <= MaxRecord
         /\ r.prev \in Nat
<1>1. r.id \in 1..MaxRecord /\ r.prev \in 0..MaxRecord /\ MaxRecord \in Nat
  BY LedgerAssumption DEF Record
<1> QED
  BY <1>1 DEF Torn, Line

LEMMA RecordsAreLines ==
  ASSUME NEW s \in Seq(Record)
  PROVE  s \in Seq(Line)
<1>1. \A i \in DOMAIN s : s[i] \in Line
  BY DEF Line
<1> QED
  BY <1>1

LEMMA WholeType ==
  ASSUME NEW s \in Seq(Line)
  PROVE  Whole(s) \in Seq(Record)
<1> DEFINE K == {i \in DOMAIN s : s[i] # Torn}
<1>1. \A i \in K : s[i] \in Record
  BY DEF Line
<1>2. K \in SUBSET DOMAIN s
  OBVIOUS
<1> QED
  BY <1>1, <1>2, PickType DEF Whole

LEMMA ExceptType ==
  ASSUME NEW s \in Seq(Line), NEW ids
  PROVE  /\ Except(s, ids) \in Seq(Record)
         /\ \A r \in Members(Except(s, ids)) : r \in Members(s) /\ r # Torn /\ r.id \notin ids
<1> DEFINE K == {i \in DOMAIN s : s[i] # Torn /\ s[i].id \notin ids}
<1>1. \A i \in K : s[i] \in Record
  BY DEF Line
<1>2. K \in SUBSET DOMAIN s
  OBVIOUS
<1>3. /\ Pick(s, K) \in Seq(Record)
      /\ \A n \in DOMAIN Pick(s, K) : \E i \in K : Pick(s, K)[n] = s[i]
  BY <1>1, <1>2, PickType
<1> QED
  BY <1>3 DEF Except, Members

LEMMA WholeOfRecords ==
  ASSUME NEW s \in Seq(Record)
  PROVE  Whole(s) = s
<1>1. {i \in DOMAIN s : s[i] # Torn} = 1..Len(s)
  BY RecordFacts
<1>2. Len(s) \in Nat
  OBVIOUS
<1>3. Pick(s, 1..Len(s)) = [n \in 1..(Len(s) + 1 - 1) |-> s[1 + n - 1]]
  BY <1>2, PickInterval
<1>4. s = [n \in 1..Len(s) |-> s[n]]
  OBVIOUS
<1>5. Len(s) + 1 - 1 = Len(s) /\ \A n \in 1..Len(s) : 1 + n - 1 = n
  BY <1>2
<1>6. Pick(s, 1..Len(s)) = [n \in 1..Len(s) |-> s[n]]
  BY <1>3, <1>5
<1> QED
  BY <1>1, <1>4, <1>6 DEF Whole

LEMMA CutFacts ==
  ASSUME NEW s \in Seq(Record)
  PROVE  /\ s \in Seq(Line) /\ Append(s, Torn) \in Seq(Line)
         /\ Len(s) \in Nat /\ DOMAIN s = 1..Len(s) /\ DOMAIN Append(s, Torn) = 1..(Len(s) + 1)
         /\ \A i \in 1..Len(s) : Append(s, Torn)[i] = s[i] /\ s[i] # Torn /\ s[i] \in Record
         /\ Append(s, Torn)[Len(s) + 1] = Torn
<1>1. s \in Seq(Line) /\ Torn \in Line
  BY DEF Line
<1> QED
  BY <1>1, RecordFacts

LEMMA WholeOfCut ==
  ASSUME NEW s \in Seq(Record)
  PROVE  Whole(Append(s, Torn)) = s
<1> DEFINE t == Append(s, Torn)
<1>1. {i \in DOMAIN t : t[i] # Torn} = 1..Len(s)
  BY CutFacts
<1>2. 1..Len(s) \in SUBSET (1..Len(s))
  OBVIOUS
<1>3. Pick(s, 1..Len(s)) = Pick(t, 1..Len(s))
  <2>1. s \in Seq(Line) /\ t \in Seq(Line) /\ \A i \in 1..Len(s) : s[i] = t[i]
    BY CutFacts
  <2> HIDE DEF t
  <2> QED
    BY <1>2, <2>1, PickAgree
<1>4. {i \in DOMAIN s : s[i] # Torn} = 1..Len(s)
  BY CutFacts
<1> QED
  BY <1>1, <1>3, <1>4, WholeOfRecords DEF Whole

LEMMA ExceptOfCut ==
  ASSUME NEW s \in Seq(Record), NEW ids
  PROVE  Except(Append(s, Torn), ids) = Except(s, ids)
<1> DEFINE t == Append(s, Torn)
           K == {i \in DOMAIN s : s[i] # Torn /\ s[i].id \notin ids}
<1>1. {i \in DOMAIN t : t[i] # Torn /\ t[i].id \notin ids} = K
  BY CutFacts
<1>2. K \in SUBSET (1..Len(s)) /\ \A i \in K : s[i] = t[i]
  BY CutFacts
<1>3. Pick(s, K) = Pick(t, K)
  <2> HIDE DEF K, t
  <2>1. s \in Seq(Line) /\ t \in Seq(Line)
    BY CutFacts DEF t
  <2> QED
    BY <1>2, <2>1, PickAgree
<1> QED
  BY <1>1, <1>3 DEF Except

LEMMA IdsOfRecords ==
  ASSUME NEW s \in Seq(Record)
  PROVE  /\ IdsOf(s) = {r.id : r \in Members(s)}
         /\ IdsOf(Append(s, Torn)) = {r.id : r \in Members(s)}
<1>1. \A i \in 1..Len(s) : s[i].id # 0
  BY RecordFacts
<1>2. Torn.id = 0
  BY DEF Torn
<1>3. IdsOf(s) = {r.id : r \in Members(s)}
  BY <1>1 DEF IdsOf, Members
<1>4. ASSUME NEW x \in IdsOf(Append(s, Torn)) PROVE x \in IdsOf(s)
  BY <1>2, <1>4, CutFacts DEF IdsOf
<1>5. ASSUME NEW x \in IdsOf(s) PROVE x \in IdsOf(Append(s, Torn))
  BY <1>5, CutFacts DEF IdsOf
<1> QED
  BY <1>3, <1>4, <1>5

(***************************************************************************)
(* A file of complete records, no stamp of which is later than c: its ids   *)
(* go up, and every record commits to the one before it.                    *)
(***************************************************************************)
Chained(s, c) ==
  /\ s \in Seq(Record)
  /\ \A i \in DOMAIN s : s[i].id <= c
  /\ \A i, j \in DOMAIN s : i < j => s[i].id < s[j].id
  /\ \A i \in DOMAIN s \ {1} : s[i].prev = s[i - 1].id

LEMMA ChainedLater ==
  ASSUME NEW c \in Nat, NEW d \in Nat, c <= d, NEW s, Chained(s, c)
  PROVE  Chained(s, d)
<1>1. \A i \in DOMAIN s : s[i].id \in Nat
  BY RecordFacts DEF Chained
<1> QED
  BY <1>1 DEF Chained

LEMMA ChainedAppend ==
  ASSUME NEW c \in Nat, NEW s, Chained(s, c), NEW r \in Record, r.id = c + 1,
         r.prev = IF s = <<>> THEN 0 ELSE s[Len(s)].id
  PROVE  Chained(Append(s, r), c + 1) /\ Members(Append(s, r)) = Members(s) \cup {r}
<1> DEFINE t == Append(s, r)
<1>1. /\ s \in Seq(Record) /\ Len(s) \in Nat /\ DOMAIN s = 1..Len(s)
      /\ \A i \in 1..Len(s) : s[i] \in Record /\ s[i].id \in Nat /\ s[i].id <= c
  BY RecordFacts DEF Chained
<1>2. /\ t \in Seq(Record) /\ DOMAIN t = 1..(Len(s) + 1)
      /\ \A i \in 1..Len(s) : t[i] = s[i]
      /\ t[Len(s) + 1] = r
  BY <1>1
<1>3. \A i \in DOMAIN t : t[i].id <= c + 1
  BY <1>1, <1>2
<1>4. ASSUME NEW i \in DOMAIN t, NEW j \in DOMAIN t, i < j PROVE t[i].id < t[j].id
  <2>1. i \in 1..Len(s) /\ (j \in 1..Len(s) \/ j = Len(s) + 1)
    BY <1>2, <1>4
  <2> QED
    BY <1>1, <1>2, <1>4, <2>1 DEF Chained
<1>5. ASSUME NEW i \in DOMAIN t \ {1} PROVE t[i].prev = t[i - 1].id
  <2>1. CASE i \in 1..Len(s)
    <3>1. i - 1 \in 1..Len(s)
      BY <1>1, <1>5, <2>1
    <3> QED
      BY <1>1, <1>2, <1>5, <2>1, <3>1 DEF Chained
  <2>2. CASE i = Len(s) + 1
    <3>1. s # <<>> /\ i - 1 = Len(s) /\ Len(s) \in 1..Len(s)
      BY <1>1, <1>5, <2>2
    <3> QED
      BY <1>2, <2>2, <3>1
  <2> QED
    BY <1>1, <1>2, <2>1, <2>2
<1>6. Members(t) = Members(s) \cup {r}
  BY <1>1, <1>2 DEF Members
<1> HIDE DEF t
<1> QED
  BY <1>2, <1>3, <1>4, <1>5, <1>6 DEF Chained, t

(* Cutting a file at a boundary keeps its chain: what stays is contiguous.  *)
LEMMA ExceptOlder ==
  ASSUME NEW c \in Nat, NEW s, Chained(s, c), NEW b \in Nat, NEW ids,
         \A r \in Members(s) : r.id \in ids <=> r.id < b
  PROVE  /\ Chained(Except(s, ids), c)
         /\ Members(Except(s, ids)) = {r \in Members(s) : r.id >= b}
<1> DEFINE L == Len(s)
           K == {i \in DOMAIN s : s[i] # Torn /\ s[i].id \notin ids}
           t == Except(s, ids)
<1>1. /\ s \in Seq(Record) /\ L \in Nat /\ DOMAIN s = 1..L
      /\ \A i \in 1..L : s[i] \in Record /\ s[i].id \in Nat /\ s[i].id <= c /\ s[i] # Torn
  BY RecordFacts DEF Chained
<1>2. \A i \in 1..L : i \in K <=> s[i].id >= b
  BY <1>1 DEF Members
<1>3. K \in SUBSET (1..L)
  BY <1>1
<1>4. ASSUME NEW i \in K, NEW j \in K, NEW m \in 1..L, i <= m, m <= j PROVE m \in K
  <2>1. i = m \/ i < m
    BY <1>3, <1>4
  <2>2. s[i].id <= s[m].id
    BY <1>1, <1>3, <2>1 DEF Chained
  <2> QED
    BY <1>1, <1>2, <1>3, <2>2
<1>5. PICK p, q \in Nat : 1 <= p /\ p <= q + 1 /\ q <= L /\ K = p..q
  <2> HIDE DEF K
  <2> QED
    BY <1>1, <1>3, <1>4, ConvexIsInterval
<1>6. t = [n \in 1..(q + 1 - p) |-> s[p + n - 1]]
  <2>1. t = Pick(s, K)
    BY DEF Except
  <2>2. t = Pick(s, p..q)
    BY <1>5, <2>1
  <2> HIDE DEF t, K
  <2> QED
    BY <1>1, <1>5, <2>2, PickInterval
<1> DEFINE M == q + 1 - p
<1>7. M \in Nat /\ \A n \in 1..M : p + n - 1 \in 1..L /\ p + n - 1 \in K
  BY <1>1, <1>5
<1>8. t \in Seq(Record) /\ DOMAIN t = 1..M /\ \A n \in 1..M : t[n] = s[p + n - 1]
  <2>1. t = [n \in 1..M |-> s[p + n - 1]]
    BY <1>6
  <2>2. M \in Nat /\ \A n \in 1..M : s[p + n - 1] \in Record
    BY <1>1, <1>7
  <2> HIDE DEF t, M
  <2> QED
    BY <2>1, <2>2
<1>9. ASSUME NEW n \in 1..M, NEW o \in 1..M, n < o PROVE t[n].id < t[o].id
  <2>1. n \in Nat /\ o \in Nat
    BY <1>7
  <2>2. p + n - 1 < p + o - 1
    BY <1>5, <1>9, <2>1
  <2>3. p + n - 1 \in 1..L /\ p + o - 1 \in 1..L
    BY <1>7
  <2>4. s[p + n - 1].id < s[p + o - 1].id
    BY <1>1, <2>2, <2>3 DEF Chained
  <2> HIDE DEF t, M, K, L
  <2> QED
    BY <1>8, <2>4
<1>10. ASSUME NEW n \in 1..M, n # 1 PROVE t[n].prev = t[n - 1].id
  <2>1. n - 1 \in 1..M /\ p + n - 1 # 1 /\ (p + n - 1) - 1 = p + (n - 1) - 1
    BY <1>5, <1>7, <1>10
  <2>2. p + n - 1 \in DOMAIN s \ {1}
    BY <1>1, <1>7, <2>1
  <2>3. s[p + n - 1].prev = s[p + (n - 1) - 1].id
    BY <2>1, <2>2 DEF Chained
  <2> HIDE DEF t, M, K, L
  <2> QED
    BY <1>8, <2>1, <2>3
<1>11. \A n \in 1..M : t[n].id <= c
  BY <1>1, <1>7, <1>8
<1>12. Members(t) = {r \in Members(s) : r.id >= b}
  <2>1. ASSUME NEW r \in Members(t) PROVE r \in Members(s) /\ r.id >= b
    BY <1>1, <1>2, <1>7, <1>8, <2>1 DEF Members
  <2>2. ASSUME NEW r \in Members(s), r.id >= b PROVE r \in Members(t)
    <3>1. PICK i \in 1..L : r = s[i]
      BY <1>1 DEF Members
    <3>2. i \in p..q
      BY <1>2, <1>5, <2>2, <3>1
    <3>3. i + 1 - p \in 1..M /\ p + (i + 1 - p) - 1 = i
      BY <1>5, <3>2
    <3> QED
      BY <1>8, <3>1, <3>3 DEF Members
  <2> QED
    BY <2>1, <2>2
<1> HIDE DEF t, M
<1> QED
  BY <1>8, <1>9, <1>10, <1>11, <1>12 DEF Chained, t
---------------------------------------------------------------------------
(***************************************************************************)
(* Types.                                                                   *)
(***************************************************************************)
LEMMA StampType ==
  ASSUME TypeOK, Mint, NEW f \in Files
  PROVE  Stamp(f) \in Record
<1>1. clock \in Nat /\ clock < MaxRecord /\ MaxRecord \in Nat
  BY LedgerAssumption DEF TypeOK, Mint
<1>2. mem[f] \in Seq(Record)
  BY DEF TypeOK
<1>3. mem[f] # <<>> => mem[f][Len(mem[f])] \in Record
  BY <1>2
<1>4. mem[f] # <<>> => mem[f][Len(mem[f])].id \in 0..MaxRecord
  BY <1>1, <1>3, RecordFacts
<1> QED
  BY <1>1, <1>4 DEF Stamp, Record

LEMMA WrittenType ==
  ASSUME TypeOK, NEW f \in Files, NEW line \in Line
  PROVE  Written(f, line) \in Seq(Line)
<1>1. file[f] \in Seq(Line) /\ Torn \in Line
  BY DEF TypeOK, Line
<1>2. SubSeq(file[f], 1, Len(file[f]) - 1) \in Seq(Line)
  BY <1>1
<1> QED
  BY <1>1, <1>2 DEF Written

LEMMA WriteLineType ==
  ASSUME TypeOK, NEW f \in Files, NEW line \in Line, WriteLine(f, line)
  PROVE  file' \in [Files -> Seq(Line)] /\ array' \subseteq Files /\ damaged' \subseteq Files
<1>1. Written(f, line) \in Seq(Line)
  BY WrittenType
<1> QED
  BY <1>1 DEF TypeOK, WriteLine, Damage

LEMMA DieType ==
  ASSUME TypeOK, Die
  PROVE  /\ pc' = "down" /\ starts' \in 0..MaxStarts /\ mem' \in [Files -> Seq(Record)] /\ boundary' \in Nat
         /\ tails' \subseteq Files /\ acked' \in [Files -> SUBSET Nat]
  BY DEF TypeOK, Die

LEMMA OlderType ==
  ASSUME TypeOK, NEW f \in Files, NEW b
  PROVE  Older(f, b) \subseteq Nat
<1>1. mem[f] \in Seq(Record)
  BY DEF TypeOK
<1>2. IdsOf(mem[f]) \subseteq Nat
  BY <1>1, RecordFacts DEF IdsOf
<1> QED
  BY <1>2 DEF Older

LEMMA InitType ==
  ASSUME Init
  PROVE  TypeOK
<1>1. [id |-> 1, prev |-> 0] \in Record
  BY LedgerAssumption DEF Record
<1>2. file \in [Files -> Seq(Line)]
  <2>1. <<[id |-> 1, prev |-> 0]>> \in Seq(Line) /\ <<>> \in Seq(Line)
    BY <1>1 DEF Line
  <2> QED
    BY <2>1 DEF Init
<1>3. acked \in [Files -> SUBSET Nat]
  <2>1. ASSUME NEW f \in Files PROVE IdsOf(file[f]) \subseteq Nat
    <3>1. file[f] \in Seq(Line)
      BY <1>2
    <3>2. \A i \in DOMAIN file[f] : file[f][i].id \in Nat
      BY <3>1, RecordFacts DEF Line, Torn
    <3> QED
      BY <3>2 DEF IdsOf
  <2> QED
    BY <2>1 DEF Init
<1> QED
  BY <1>2, <1>3, LedgerAssumption DEF Init, TypeOK, Dead

LEMMA NextType ==
  ASSUME TypeOK, [Next]_vars
  PROVE  TypeOK'
<1> USE DEF Goto, Return, Up, Dead
<1> NextTail \in Files
  BY DEF NextTail, Files
<1>e. "events" \in Files /\ "receipts" \in Files
  BY DEF Files
<1>1. ASSUME NEW f \in Files, AppendRecord(f) PROVE TypeOK'
  <2>1. Stamp(f) \in Record /\ Stamp(f) \in Line
    BY <1>1, StampType DEF AppendRecord, Line
  <2>2. file' \in [Files -> Seq(Line)] /\ array' \subseteq Files /\ damaged' \subseteq Files
    BY <1>1, <2>1, WriteLineType DEF AppendRecord
  <2>3. mem' \in [Files -> Seq(Record)]
    BY <1>1, <2>1 DEF AppendRecord, TypeOK
  <2> QED
    BY <1>1, <2>2, <2>3 DEF AppendRecord, TypeOK, Mint
<1>2. ASSUME NEW f \in Files, AppendThrows(f) PROVE TypeOK'
  <2>1. Stamp(f) \in Record /\ Written(f, Torn) \in Seq(Line)
    BY <1>2, StampType, WrittenType DEF AppendThrows, Line
  <2>2. file' \in [Files -> Seq(Line)] /\ array' \subseteq Files /\ cut' \subseteq Files
    BY <1>2, <2>1 DEF AppendThrows, TypeOK
  <2>3. mem' \in [Files -> Seq(Record)]
    BY <1>2, <2>1 DEF AppendThrows, TypeOK
  <2> QED
    BY <1>2, <2>2, <2>3 DEF AppendThrows, TypeOK, Mint, Damage
<1>3. ASSUME NEW f \in Files, CrashInAppend(f) PROVE TypeOK'
  <2>1. Die
    BY <1>3 DEF CrashInAppend
  <2>2. /\ file' \in [Files -> Seq(Line)] /\ array' \subseteq Files /\ cut' \subseteq Files
        /\ damaged' \subseteq Files /\ clock' \in Nat
    <3>1. CASE Mint /\ WriteLine(f, Stamp(f)) /\ cut' = cut \ {f}
      <4>1. Stamp(f) \in Line
        BY <3>1, StampType DEF Line
      <4> QED
        BY <3>1, <4>1, WriteLineType DEF Mint, TypeOK
    <3>2. CASE WriteLine(f, Torn) /\ cut' = cut \cup {f} /\ UNCHANGED clock
      <4>1. Torn \in Line
        BY DEF Line
      <4> QED
        BY <3>2, <4>1, WriteLineType DEF TypeOK
    <3>3. CASE Mint /\ file' = [file EXCEPT ![f] = Written(f, Stamp(f))] /\ array' = array \ {f}
               /\ cut' = cut \cup {f} /\ Damage({f})
      <4>1. Written(f, Stamp(f)) \in Seq(Line)
        BY <3>3, StampType, WrittenType DEF Line
      <4> QED
        BY <3>3, <4>1 DEF Mint, Damage, TypeOK
    <3> QED
      BY <1>3, <3>1, <3>2, <3>3 DEF CrashInAppend
  <2> QED
    BY <1>3, <2>1, <2>2, DieType DEF CrashInAppend, TypeOK
<1>4. ASSUME Crash PROVE TypeOK'
  BY <1>4, DieType DEF Crash, TypeOK, disk
<1>5. ASSUME CrashInMarker PROVE TypeOK'
  BY <1>5, DieType DEF CrashInMarker, TypeOK
<1>6. ASSUME Open PROVE TypeOK'
  BY <1>6, LedgerAssumption DEF Open, TypeOK, disk
<1>7. ASSUME NEW f \in Files, NEW here, NEW there \in {"dedupReceipts", "unmark"}, DedupStep(f, here, there)
      PROVE TypeOK'
  <2>0. file[f] \in Seq(Line)
    BY DEF TypeOK
  <2>1. Except(file[f], moved[f]) \in Seq(Line)
    BY <2>0, ExceptType, RecordsAreLines
  <2>2. file' \in [Files -> Seq(Line)] /\ cut' \subseteq Files /\ array' \subseteq Files /\ damaged' \subseteq Files
    <3> file' \in {file, [file EXCEPT ![f] = Except(file[f], moved[f])], [file EXCEPT ![f] = <<>>]}
      BY <1>7 DEF DedupStep, Dedup
    <3>1. file' \in [Files -> Seq(Line)]
      <4>1. <<>> \in Seq(Line)
        OBVIOUS
      <4> QED
        BY <2>1, <4>1 DEF TypeOK
    <3>2. cut' \in {cut, cut \ {f}} /\ array' \in {array, array \ {f}} /\ damaged' \in {damaged, damaged \cup {f}}
      BY <1>7 DEF DedupStep, Dedup, Damage
    <3> QED
      BY <3>1, <3>2 DEF TypeOK
  <2> QED
    BY <1>7, <2>2 DEF DedupStep, TypeOK
<1>8. ASSUME ClearAfterRecovery PROVE TypeOK'
  BY <1>8 DEF ClearAfterRecovery, RemoveMarker, TypeOK
<1>9. ASSUME Load PROVE TypeOK'
  <2>1. mem' \in [Files -> Seq(Record)]
    BY <1>9, WholeType DEF Load, TypeOK
  <2> QED
    BY <1>9, <2>1 DEF Load, TypeOK, disk
<1>10. ASSUME LoadCorrupt PROVE TypeOK'
  BY <1>10 DEF LoadCorrupt, TypeOK, disk
<1>11. ASSUME RepairTail PROVE TypeOK'
  <2>1. mem[NextTail] \in Seq(Line)
    BY DEF TypeOK, Line
  <2> QED
    BY <1>11, <2>1 DEF RepairTail, TypeOK
<1>12. ASSUME RepairThrows PROVE TypeOK'
  BY <1>12 DEF RepairThrows, AfterTail, Damage, TypeOK, disk
<1>13. ASSUME Audit PROVE TypeOK'
  <2>1. Stamp("events") \in Record /\ Stamp("events") \in Line
    BY <1>13, <1>e, StampType DEF Audit, Line
  <2>2. file' \in [Files -> Seq(Line)] /\ array' \subseteq Files /\ damaged' \subseteq Files /\ cut' \subseteq Files
    <3>1. CASE WriteLine("events", Stamp("events")) /\ cut' = cut \ {"events"}
      BY <1>e, <2>1, <3>1, WriteLineType DEF TypeOK
    <3>2. CASE Damage({"events"}) /\ UNCHANGED <<file, cut, array>>
      BY <1>e, <3>2 DEF Damage, TypeOK
    <3> QED
      BY <1>13, <3>1, <3>2 DEF Audit
  <2>3. mem' \in [Files -> Seq(Record)]
    BY <1>13, <1>e, <2>1 DEF Audit, TypeOK
  <2> QED
    BY <1>13, <2>2, <2>3 DEF Audit, AfterTail, TypeOK, Mint
<1>14. ASSUME NEW b \in 2..clock + 1, Rotate(b) PROVE TypeOK'
  BY <1>14 DEF Rotate, TypeOK, disk
<1>15. ASSUME NEW f \in Files, NEW here, NEW there \in {"archiveReceipts", "mark"}, WriteArchive(f, here, there)
       PROVE TypeOK'
  <2>1. Older(f, boundary) \subseteq Nat
    BY OlderType
  <2>2. archived[f] \cup Older(f, boundary) \in SUBSET Nat
    BY <2>1 DEF TypeOK
  <2>3. archived' \in [Files -> SUBSET Nat]
    BY <1>15, <2>2 DEF WriteArchive, TypeOK
  <2> QED
    BY <1>15, <2>3 DEF WriteArchive, TypeOK
<1>16. ASSUME WriteMarker PROVE TypeOK'
  <2>1. \A f \in Files : Older(f, boundary) \subseteq Nat
    BY OlderType
  <2> QED
    BY <1>16, <2>1 DEF WriteMarker, TypeOK
<1>17. ASSUME NEW f \in Files, NEW here, NEW there \in {"swapReceipts", "finish"}, Swap(f, here, there)
       PROVE TypeOK'
  <2>0. mem[f] \in Seq(Line)
    BY RecordsAreLines DEF TypeOK
  <2>1. Except(mem[f], Older(f, boundary)) \in Seq(Line)
    BY <2>0, ExceptType, RecordsAreLines
  <2> QED
    BY <1>17, <2>1 DEF Swap, TypeOK
<1>18. ASSUME RotateThrows PROVE TypeOK'
  BY <1>18 DEF RotateThrows, RemoveMarker, Damage, TypeOK
<1>19. ASSUME FinishRotate PROVE TypeOK'
  <2>1. \A f \in Files : mem[f] \in Seq(Line)
    BY DEF TypeOK, Line
  <2>2. mem' \in [Files -> Seq(Record)]
    BY <1>19, <2>1, ExceptType DEF FinishRotate
  <2> QED
    BY <1>19, <2>2 DEF FinishRotate, RemoveMarker, TypeOK
<1>20. CASE UNCHANGED vars
  BY <1>20 DEF vars, disk, TypeOK
<1> QED
  BY <1>e, <1>1, <1>2, <1>3, <1>4, <1>5, <1>6, <1>7, <1>8, <1>9, <1>10, <1>11, <1>12, <1>13, <1>14,
     <1>15, <1>16, <1>17, <1>18, <1>19, <1>20 DEF Next

(* Every file is a sequence of lines and memory one of records, whatever    *)
(* goes wrong with the writes.                                              *)
THEOREM TypeOKAlways == Spec => []TypeOK
<1>1. Init => TypeOK
  BY InitType
<1>2. TypeOK /\ [Next]_vars => TypeOK'
  BY NextType
<1> QED
  BY <1>1, <1>2, PTL DEF Spec
---------------------------------------------------------------------------
(***************************************************************************)
(* The inductive invariant, of the files that are not damaged.              *)
(***************************************************************************)
Good == Files \ damaged

Body(f) == Whole(file[f])

Live(f) == IdsOf(file[f])

Uncut(f) == moved[f] \subseteq Live(f)

CutOf(f) == moved[f] \cap Live(f) = {}

Serving  == {"up", "archiveEvents", "archiveReceipts", "mark", "swapEvents"}
Cutting  == {"swapEvents", "swapReceipts", "finish"}
Rotating == Cutting \cup {"archiveEvents", "archiveReceipts", "mark"}
Loading  == {"down", "corrupt", "dedupEvents", "dedupReceipts", "unmark", "load"}

(* A file is a chain of complete records, and one torn line where it is cut.*)
LinesOf(f) ==
  /\ Chained(Body(f), clock)
  /\ file[f] = IF f \in cut THEN Append(Body(f), Torn) ELSE Body(f)

(* Memory holds these records, or those a rotation has not taken out of it  *)
(* yet; a torn line is there only until its turn in the repair.             *)
Swapped(f) == pc = "finish" \/ (pc = "swapReceipts" /\ f = "events")

MemoryOf(f) ==
  pc \notin Loading =>
    /\ Body(f) = IF Swapped(f) THEN Except(mem[f], Older(f, boundary)) ELSE mem[f]
    /\ f \in cut => pc \in {"repair", "audit"} /\ f \in tails /\ (pc = "audit" => f # NextTail)

(* What left the file, and what the marker will take out of it, is in the   *)
(* archive.                                                                 *)
KeptOf(f) ==
  /\ archived[f] \subseteq 1..clock
  /\ acked[f] \subseteq Live(f) \cup archived[f]
  /\ marker = "named" => moved[f] \subseteq archived[f]

ArchiveOf(f) ==
  /\ KeptOf(f)
  /\ pc \in Cutting \cup {"mark"} \/ (pc = "archiveReceipts" /\ f = "events") => Older(f, boundary) \subseteq archived[f]
  /\ pc \in Cutting => moved[f] = Older(f, boundary)

PlacesSound ==
  /\ pc \in Rotating => boundary \in 1..clock + 1
  /\ pc \in Cutting \cup {"dedupEvents", "dedupReceipts"} => marker = "named"

(* A marker names what both files hold, or held, below one boundary.        *)
BoundaryMarked ==
  marker = "named" =>
    \E b \in 1..clock + 1 : \A f \in Good :
      /\ \A i \in moved[f] : i < b
      /\ \A i \in Live(f) : i < b => i \in moved[f]

(* Each file is cut or not; both are, after a recovery and after a rotation.*)
CutMarked ==
  marker = "named" =>
    /\ \A f \in Good : Uncut(f) \/ CutOf(f)
    /\ pc \in {"unmark", "load", "repair", "audit", "finish"} => \A f \in Good : CutOf(f)
    /\ pc \in {"dedupReceipts", "swapReceipts"} => \A f \in Good : f = "events" => CutOf(f)
    /\ pc \in Serving => (\A f \in Good : Uncut(f)) \/ (\A f \in Good : CutOf(f))

LedgerInv ==
  /\ TypeOK
  /\ \A f \in Good : LinesOf(f) /\ MemoryOf(f) /\ ArchiveOf(f)
  /\ PlacesSound /\ BoundaryMarked /\ CutMarked

---------------------------------------------------------------------------
(* What a step makes of one file.                                           *)
LEMMA LinesFacts ==
  ASSUME NEW s \in Seq(Record), NEW t, t = s \/ t = Append(s, Torn)
  PROVE  /\ Whole(t) = s /\ IdsOf(t) = {r.id : r \in Members(s)}
         /\ \A ids : Except(t, ids) = Except(s, ids)
         /\ {r \in Members(t) : r # Torn} = Members(s)
         /\ Corrupt(t) => s = <<>>
<1>1. Whole(t) = s
  BY WholeOfRecords, WholeOfCut
<1>2. {r \in Members(t) : r # Torn} = Members(s)
  BY CutFacts DEF Members
<1>3. ASSUME Corrupt(t), s # <<>> PROVE FALSE
  <2>1. PICK i \in DOMAIN t, j \in DOMAIN t : i < j /\ t[i] = Torn /\ t[j] # Torn
    BY <1>1, <1>3 DEF Corrupt
  <2> QED
    BY <2>1, CutFacts
<1> QED
  BY <1>1, <1>2, <1>3, IdsOfRecords, ExceptOfCut

LEMMA LiveFacts ==
  ASSUME LedgerInv, NEW f \in Good
  PROVE  /\ Body(f) \in Seq(Record) /\ Live(f) = {r.id : r \in Members(Body(f))}
         /\ \A r \in Members(Body(f)) : r \in Record /\ r.id \in 1..clock
         /\ Live(f) \subseteq 1..clock
<1>1. LinesOf(f) /\ clock \in Nat
  BY DEF LedgerInv, TypeOK
<1>2. Body(f) \in Seq(Record) /\ (file[f] = Body(f) \/ file[f] = Append(Body(f), Torn))
  BY <1>1 DEF LinesOf, Chained
<1>3. ASSUME NEW r \in Members(Body(f)) PROVE r \in Record /\ r.id \in 1..clock
  <2>1. PICK i \in DOMAIN Body(f) : r = Body(f)[i]
    BY DEF Members
  <2>2. r \in Record /\ r.id <= clock
    BY <1>1, <1>2, <2>1 DEF LinesOf, Chained
  <2> QED
    BY <1>1, <2>2, RecordFacts
<1>4. Live(f) = {r.id : r \in Members(Body(f))}
  BY <1>2, LinesFacts DEF Live
<1> QED
  BY <1>2, <1>3, <1>4

LEMMA FileIs ==
  ASSUME NEW f \in Files, NEW s, Chained(s, clock'), file'[f] = IF f \in cut' THEN Append(s, Torn) ELSE s
  PROVE  LinesOf(f)' /\ Body(f)' = s /\ Live(f)' = {r.id : r \in Members(s)}
<1>1. s \in Seq(Record)
  BY DEF Chained
<1>2. Whole(file'[f]) = s /\ IdsOf(file'[f]) = {r.id : r \in Members(s)}
  BY <1>1, LinesFacts
<1> QED
  BY <1>2 DEF LinesOf, Body, Live

LEMMA FileKept ==
  ASSUME LedgerInv, NEW f \in Good, clock' \in Nat, clock <= clock', file'[f] = file[f], f \in cut' <=> f \in cut
  PROVE  LinesOf(f)' /\ Body(f)' = Body(f) /\ Live(f)' = Live(f)
<1>1. LinesOf(f) /\ clock \in Nat /\ f \in Files
  BY DEF LedgerInv, TypeOK, Good
<1>2. Chained(Body(f), clock')
  BY <1>1, ChainedLater DEF LinesOf
<1>3. file'[f] = IF f \in cut' THEN Append(Body(f), Torn) ELSE Body(f)
  BY <1>1 DEF LinesOf
<1> QED
  BY <1>1, <1>2, <1>3, FileIs, LiveFacts

(* An append finds memory and file the same, and no torn line.              *)
LEMMA LineWritten ==
  ASSUME LedgerInv, NEW f \in Files, pc \in {Up, "audit"}, pc = "audit" => f = "events",
         NEW line, WriteLine(f, line), f \notin damaged'
  PROVE  /\ f \in Good /\ f \notin cut /\ mem[f] = Body(f) /\ file[f] = Body(f)
         /\ file' = [file EXCEPT ![f] = Append(Body(f), line)]
         /\ damaged' = damaged
<1>1. f \notin array /\ f \in Good /\ damaged' = damaged
  BY DEF WriteLine, Damage, Good
<1>2. MemoryOf(f) /\ LinesOf(f)
  BY <1>1 DEF LedgerInv
<1>3. pc \notin Loading /\ ~Swapped(f)
  BY DEF Loading, Swapped, Up
<1>4. f \notin cut
  BY <1>2, <1>3 DEF MemoryOf, NextTail, Up
<1>5. mem[f] = Body(f) /\ file[f] = Body(f)
  BY <1>2, <1>3, <1>4 DEF MemoryOf, LinesOf
<1>6. Written(f, line) = Append(Body(f), line)
  BY <1>1, <1>4, <1>5 DEF Written
<1> QED
  BY <1>1, <1>4, <1>5, <1>6 DEF WriteLine

LEMMA RecordWritten ==
  ASSUME LedgerInv, NEW f \in Files, pc \in {Up, "audit"}, pc = "audit" => f = "events",
         Mint, WriteLine(f, Stamp(f)), cut' = cut \ {f}, f \notin damaged'
  PROVE  /\ LinesOf(f)' /\ Body(f)' = Append(Body(f), Stamp(f))
         /\ Members(Body(f))' = Members(Body(f)) \cup {Stamp(f)}
         /\ Live(f)' = Live(f) \cup {clock + 1}
<1>1. /\ f \in Good /\ mem[f] = Body(f) /\ TypeOK /\ Chained(Body(f), clock) /\ clock \in Nat
      /\ file' = [file EXCEPT ![f] = Append(Body(f), Stamp(f))]
  BY LineWritten DEF LedgerInv, LinesOf, TypeOK
<1>2. Stamp(f) \in Record /\ Stamp(f).id = clock + 1
      /\ Stamp(f).prev = IF Body(f) = <<>> THEN 0 ELSE Body(f)[Len(Body(f))].id
  BY <1>1, StampType DEF Stamp
<1>3. /\ Chained(Append(Body(f), Stamp(f)), clock')
      /\ Members(Append(Body(f), Stamp(f))) = Members(Body(f)) \cup {Stamp(f)}
  BY <1>1, <1>2, ChainedAppend DEF Mint
<1>4. file'[f] = IF f \in cut' THEN Append(Append(Body(f), Stamp(f)), Torn) ELSE Append(Body(f), Stamp(f))
  BY <1>1 DEF TypeOK
<1>5. /\ LinesOf(f)' /\ Body(f)' = Append(Body(f), Stamp(f))
      /\ Live(f)' = {r.id : r \in Members(Append(Body(f), Stamp(f)))}
  BY <1>3, <1>4, FileIs
<1>6. Members(Body(f))' = Members(Body(f)')
  BY DEF Members
<1> QED
  BY <1>1, <1>2, <1>3, <1>5, <1>6, LiveFacts

LEMMA TornWritten ==
  ASSUME LedgerInv, NEW f \in Files, pc \in {Up, "audit"}, pc = "audit" => f = "events",
         WriteLine(f, Torn), cut' = cut \cup {f}, clock' = clock, f \notin damaged'
  PROVE  LinesOf(f)' /\ Body(f)' = Body(f) /\ Live(f)' = Live(f)
<1>1. f \in Good /\ TypeOK /\ Chained(Body(f), clock) /\ file' = [file EXCEPT ![f] = Append(Body(f), Torn)]
  BY LineWritten DEF LedgerInv, LinesOf
<1>2. file'[f] = IF f \in cut' THEN Append(Body(f), Torn) ELSE Body(f)
  BY <1>1 DEF TypeOK
<1> QED
  BY <1>1, <1>2, FileIs, LiveFacts

(* A rotation, or the recovery of one, cuts a file at a boundary.           *)
LEMMA FileCut ==
  ASSUME LedgerInv, NEW f \in Good, NEW ids, NEW b \in Nat,
         \A i \in Live(f) : i \in ids <=> i < b,
         file'[f] = Except(Body(f), ids), f \notin cut', clock' = clock
  PROVE  /\ LinesOf(f)' /\ Body(f)' = Except(Body(f), ids)
         /\ Members(Body(f))' = {r \in Members(Body(f)) : r.id \notin ids}
         /\ Live(f)' = Live(f) \ ids
<1>1. f \in Files /\ Chained(Body(f), clock) /\ clock \in Nat
  BY DEF LedgerInv, LinesOf, TypeOK, Good
<1>2. \A r \in Members(Body(f)) : r.id \in Nat /\ (r.id \in ids <=> r.id < b)
  BY LiveFacts
<1>3. /\ Chained(Except(Body(f), ids), clock)
      /\ Members(Except(Body(f), ids)) = {r \in Members(Body(f)) : r.id >= b}
  BY <1>1, <1>2, ExceptOlder
<1>4. Members(Except(Body(f), ids)) = {r \in Members(Body(f)) : r.id \notin ids}
  BY <1>2, <1>3
<1>5. /\ LinesOf(f)' /\ Body(f)' = Except(Body(f), ids)
      /\ Live(f)' = {r.id : r \in Members(Except(Body(f), ids))}
  BY <1>1, <1>3, FileIs
<1>6. Members(Body(f))' = Members(Body(f)')
  BY DEF Members
<1> QED
  BY <1>4, <1>5, <1>6, LiveFacts

---------------------------------------------------------------------------
(***************************************************************************)
(* One step.  Of archive and marker every step but WriteMarker does no      *)
(* more than this: a file loses only what the marker names, an archive      *)
(* gains only what is live.                                                 *)
(***************************************************************************)
LEMMA StepKeeps ==
  ASSUME LedgerInv, clock' \in {clock, clock + 1}, damaged \subseteq damaged',
         marker' = "named" => marker = "named" /\ moved' = moved,
         \A f \in Good' :
           /\ \A i \in Live(f)' : i \in Live(f) \/ i = clock + 1
           /\ \A i \in Live(f) : i \in Live(f)' \/ (marker = "named" /\ i \in moved[f])
           /\ archived[f] \subseteq archived'[f] /\ archived'[f] \subseteq archived[f] \cup Live(f)
           /\ acked'[f] \subseteq acked[f] \cup Live(f)'
  PROVE  /\ \A f \in Good' : KeptOf(f)'
         /\ BoundaryMarked'
         /\ marker' = "named" => \A f \in Good' :
              /\ CutOf(f) => CutOf(f)'
              /\ Uncut(f) /\ Live(f) \subseteq Live(f)' => Uncut(f)'
<1>0. clock \in Nat /\ clock' \in Nat /\ clock <= clock' /\ Good' \subseteq Good
  BY DEF LedgerInv, TypeOK, Good
<1>1. ASSUME NEW f \in Good' PROVE KeptOf(f) /\ Live(f) \subseteq 1..clock
  BY <1>0, LiveFacts DEF LedgerInv, ArchiveOf
<1>2. ASSUME NEW f \in Good' PROVE KeptOf(f)'
  <2>1. archived'[f] \subseteq 1..clock'
    <3>1. archived'[f] \subseteq 1..clock
      BY <1>1 DEF KeptOf
    <3> QED
      BY <1>0, <3>1
  <2>2. acked'[f] \subseteq Live(f)' \cup archived'[f]
    <3>1. Live(f) \subseteq Live(f)' \cup archived[f]
      BY <1>1 DEF KeptOf
    <3> QED
      BY <1>1, <3>1 DEF KeptOf
  <2>3. marker' = "named" => moved'[f] \subseteq archived'[f]
    BY <1>1 DEF KeptOf
  <2> QED
    BY <2>1, <2>2, <2>3 DEF KeptOf
<1>3. BoundaryMarked'
  <2> SUFFICES ASSUME marker' = "named"
               PROVE  \E b \in 1..clock' + 1 : \A f \in Good' :
                        /\ \A i \in moved'[f] : i < b
                        /\ \A i \in Live(f)' : i < b => i \in moved'[f]
    BY DEF BoundaryMarked
  <2>1. PICK b \in 1..clock + 1 : \A f \in Good :
               /\ \A i \in moved[f] : i < b
               /\ \A i \in Live(f) : i < b => i \in moved[f]
    BY DEF LedgerInv, BoundaryMarked
  <2>2. 1..clock + 1 \subseteq 1..clock' + 1
    <3>1. \A c, d \in Nat : c <= d => 1..c + 1 \subseteq 1..d + 1
      OBVIOUS
    <3> QED
      BY <1>0, <3>1
  <2>3. ASSUME NEW f \in Good', NEW i \in Live(f)', i < b PROVE i \in moved'[f]
    <3>1. b <= clock + 1 /\ b \in Nat
      BY <1>0
    <3>2. i # clock + 1
      BY <1>0, <2>3, <3>1
    <3> QED
      BY <1>0, <2>1, <2>3, <3>2
  <2>4. b \in 1..clock' + 1
    BY <2>2
  <2> QED
    BY <1>0, <2>1, <2>3, <2>4
<1>4. ASSUME marker' = "named", NEW f \in Good'
      PROVE  /\ CutOf(f) => CutOf(f)'
             /\ Uncut(f) /\ Live(f) \subseteq Live(f)' => Uncut(f)'
  <2>1. clock + 1 \notin moved[f]
    <3>1. moved[f] \subseteq 1..clock
      BY <1>1, <1>4 DEF KeptOf
    <3> QED
      BY <1>0, <3>1
  <2>2. moved' = moved
    BY <1>4
  <2>3. CutOf(f) => CutOf(f)'
    BY <2>1, <2>2 DEF CutOf
  <2>4. Uncut(f) /\ Live(f) \subseteq Live(f)' => Uncut(f)'
    BY <2>2 DEF Uncut
  <2> QED
    BY <2>3, <2>4
<1> QED
  BY <1>2, <1>3, <1>4

(* A step that leaves files, archives and marker as they are.               *)
LEMMA StillKeeps ==
  ASSUME LedgerInv, UNCHANGED <<clock, file, cut, archived, acked>>, damaged \subseteq damaged',
         marker' = "named" => marker = "named" /\ moved' = moved
  PROVE  /\ Good' \subseteq Good
         /\ \A f \in Good' : LinesOf(f)' /\ Body(f)' = Body(f) /\ Live(f)' = Live(f) /\ KeptOf(f)'
         /\ BoundaryMarked'
         /\ marker' = "named" => \A f \in Good' : (CutOf(f) => CutOf(f)') /\ (Uncut(f) => Uncut(f)')
<1>1. Good' \subseteq Good /\ clock \in Nat /\ clock <= clock'
  BY DEF LedgerInv, TypeOK, Good
<1>2. \A f \in Good' : LinesOf(f)' /\ Body(f)' = Body(f) /\ Live(f)' = Live(f)
  BY <1>1, FileKept
<1> QED
  BY <1>1, <1>2, StepKeeps

(* The death of the process, whatever it leaves of an append.               *)
LEMMA DeathKeeps ==
  ASSUME LedgerInv, TypeOK', Die, UNCHANGED archived, damaged \subseteq damaged', clock' \in {clock, clock + 1},
         marker' = "named" => marker = "named" /\ moved' = moved,
         \A f \in Good' : /\ LinesOf(f)' /\ Live(f) \subseteq Live(f)'
                          /\ \A i \in Live(f)' : i \in Live(f) \/ i = clock + 1
  PROVE  LedgerInv'
<1>1. /\ \A f \in Good' : KeptOf(f)'
      /\ BoundaryMarked'
      /\ marker' = "named" => \A f \in Good' : (CutOf(f) => CutOf(f)') /\ (Uncut(f) => Uncut(f)')
  BY StepKeeps DEF Die
<1>2. pc' = "down" /\ Good' \subseteq Good
  BY DEF Die, Good
<1>3. \A f \in Good' : MemoryOf(f)' /\ ArchiveOf(f)'
  BY <1>1, <1>2 DEF MemoryOf, ArchiveOf, Loading, Cutting
<1>4. PlacesSound'
  BY <1>2 DEF PlacesSound, Rotating, Cutting
<1>5. CutMarked'
  BY <1>1, <1>2 DEF LedgerInv, CutMarked, Serving
<1> QED
  BY <1>1, <1>3, <1>4, <1>5 DEF LedgerInv

LEMMA AppendKeeps ==
  ASSUME LedgerInv, TypeOK', NEW f \in Files, AppendRecord(f)
  PROVE  LedgerInv'
<1>1. /\ TypeOK /\ pc = Up /\ pc' = Up /\ clock \in Nat /\ clock' = clock + 1 /\ Mint
      /\ WriteLine(f, Stamp(f)) /\ cut' = cut \ {f} /\ Good' \subseteq Good
  BY DEF AppendRecord, Mint, LedgerInv, TypeOK, WriteLine, Damage, Good
<1>2. \A g \in Good : mem[g] = Body(g) /\ g \notin cut /\ MemoryOf(g) /\ g \in Files
  BY <1>1 DEF LedgerInv, MemoryOf, Up, Loading, Swapped, Good
<1>3. ASSUME NEW g \in Good'
      PROVE  /\ LinesOf(g)' /\ mem'[g] = Body(g)' /\ g \notin cut' /\ Live(g) \subseteq Live(g)'
             /\ \A i \in Live(g)' : i \in Live(g) \/ i = clock + 1
             /\ acked'[g] \subseteq acked[g] \cup Live(g)'
  <2>1. CASE g = f
    <3>0. f \notin damaged'
      BY <2>1 DEF Good
    <3>1. LinesOf(f)' /\ Body(f)' = Append(Body(f), Stamp(f)) /\ Live(f)' = Live(f) \cup {clock + 1}
      BY <1>1, <3>0, RecordWritten DEF Up
    <3>2. mem'[g] = Append(mem[g], Stamp(g)) /\ acked'[g] = acked[g] \cup {clock + 1}
      BY <2>1 DEF AppendRecord, LedgerInv, TypeOK
    <3> QED
      BY <1>1, <1>2, <2>1, <3>1, <3>2
  <2>2. CASE g # f
    <3>1. file'[g] = file[g] /\ (g \in cut' <=> g \in cut) /\ mem'[g] = mem[g] /\ acked'[g] = acked[g]
      BY <2>2 DEF AppendRecord, WriteLine, LedgerInv, TypeOK
    <3>2. LinesOf(g)' /\ Body(g)' = Body(g) /\ Live(g)' = Live(g)
      BY <1>1, <3>1, FileKept
    <3> QED
      BY <1>1, <1>2, <3>1, <3>2
  <2> QED
    BY <2>1, <2>2
<1>4. UNCHANGED <<archived, marker, moved>> /\ damaged \subseteq damaged'
  BY DEF AppendRecord, WriteLine, Damage
<1>5. /\ \A g \in Good' : KeptOf(g)'
      /\ BoundaryMarked'
      /\ marker' = "named" => \A g \in Good' : (CutOf(g) => CutOf(g)') /\ (Uncut(g) => Uncut(g)')
  BY <1>1, <1>3, <1>4, StepKeeps
<1>6. \A g \in Good' : MemoryOf(g)' /\ ArchiveOf(g)'
  BY <1>1, <1>3, <1>5 DEF MemoryOf, ArchiveOf, Up, Cutting, Swapped
<1>7. PlacesSound'
  BY <1>1 DEF PlacesSound, Up, Cutting, Rotating
<1>8. CutMarked'
  BY <1>1, <1>4, <1>5 DEF LedgerInv, CutMarked, Serving, Up
<1> QED
  BY <1>3, <1>5, <1>6, <1>7, <1>8 DEF LedgerInv

LEMMA AppendThrowsKeeps ==
  ASSUME LedgerInv, TypeOK', NEW f \in Files, AppendThrows(f)
  PROVE  LedgerInv'
<1>1. /\ TypeOK /\ pc = Up /\ pc' = Up /\ clock \in Nat /\ clock' = clock + 1
      /\ f \notin Good' /\ Good' \subseteq Good
  BY DEF AppendThrows, Mint, LedgerInv, TypeOK, Damage, Good
<1>2. \A g \in Good : mem[g] = Body(g) /\ g \notin cut
  BY <1>1 DEF LedgerInv, MemoryOf, Up, Loading, Swapped
<1>3. ASSUME NEW g \in Good'
      PROVE  /\ LinesOf(g)' /\ mem'[g] = Body(g)' /\ g \notin cut' /\ Live(g)' = Live(g)
             /\ acked'[g] = acked[g]
  <2>1. g # f /\ g \in Files
    BY <1>1 DEF Good
  <2>2. file'[g] = file[g] /\ (g \in cut' <=> g \in cut) /\ mem'[g] = mem[g] /\ acked'[g] = acked[g]
    BY <2>1 DEF AppendThrows, LedgerInv, TypeOK
  <2>3. LinesOf(g)' /\ Body(g)' = Body(g) /\ Live(g)' = Live(g)
    BY <1>1, <2>2, FileKept
  <2> QED
    BY <1>1, <1>2, <2>2, <2>3
<1>4. UNCHANGED <<archived, marker, moved>> /\ damaged \subseteq damaged'
  BY DEF AppendThrows, Damage
<1>5. /\ \A g \in Good' : KeptOf(g)'
      /\ BoundaryMarked'
      /\ marker' = "named" => \A g \in Good' : (CutOf(g) => CutOf(g)') /\ (Uncut(g) => Uncut(g)')
  BY <1>1, <1>3, <1>4, StepKeeps
<1>6. \A g \in Good' : MemoryOf(g)' /\ ArchiveOf(g)'
  BY <1>1, <1>3, <1>5 DEF MemoryOf, ArchiveOf, Up, Cutting, Swapped
<1>7. PlacesSound'
  BY <1>1 DEF PlacesSound, Up, Cutting, Rotating
<1>8. CutMarked'
  BY <1>1, <1>4, <1>5 DEF LedgerInv, CutMarked, Serving, Up
<1> QED
  BY <1>3, <1>5, <1>6, <1>7, <1>8 DEF LedgerInv

LEMMA CrashInAppendKeeps ==
  ASSUME LedgerInv, TypeOK', NEW f \in Files, CrashInAppend(f)
  PROVE  LedgerInv'
<1>1. /\ TypeOK /\ clock \in Nat /\ pc \in {Up, "audit"} /\ (pc = "audit" => f = "events")
      /\ Die /\ UNCHANGED <<archived, marker, moved>>
  BY DEF CrashInAppend, LedgerInv, TypeOK
<1>2. clock' \in {clock, clock + 1} /\ damaged \subseteq damaged' /\ Good' \subseteq Good
      /\ \A g \in Good' : g # f => file'[g] = file[g] /\ (g \in cut' <=> g \in cut)
  <2>1. clock' \in {clock, clock + 1} /\ damaged \subseteq damaged'
    BY DEF CrashInAppend, Mint, WriteLine, Damage
  <2>2. \A g \in Files : g # f => file'[g] = file[g] /\ (g \in cut' <=> g \in cut)
    BY <1>1 DEF CrashInAppend, WriteLine, TypeOK
  <2> QED
    BY <2>1, <2>2 DEF Good
<1>3. ASSUME NEW g \in Good'
      PROVE  /\ LinesOf(g)' /\ Live(g) \subseteq Live(g)'
             /\ \A i \in Live(g)' : i \in Live(g) \/ i = clock + 1
  <2>1. CASE g # f
    <3>1. clock' \in Nat /\ clock <= clock'
      BY <1>1, <1>2
    <3>2. LinesOf(g)' /\ Body(g)' = Body(g) /\ Live(g)' = Live(g)
      BY <1>2, <2>1, <3>1, FileKept
    <3> QED
      BY <3>2
  <2>2. CASE g = f
    <3>0. f \notin damaged'
      BY <2>2 DEF Good
    <3>1. CASE Mint /\ WriteLine(f, Stamp(f)) /\ cut' = cut \ {f}
      <4>1. LinesOf(f)' /\ Live(f)' = Live(f) \cup {clock + 1}
        BY <1>1, <3>0, <3>1, RecordWritten
      <4> QED
        BY <2>2, <4>1
    <3>2. CASE WriteLine(f, Torn) /\ cut' = cut \cup {f} /\ UNCHANGED clock
      <4>1. LinesOf(f)' /\ Live(f)' = Live(f)
        BY <1>1, <3>0, <3>2, TornWritten
      <4> QED
        BY <2>2, <4>1
    <3> QED
      BY <3>0, <3>1, <3>2 DEF CrashInAppend, Damage
  <2> QED
    BY <2>1, <2>2
<1> QED
  BY <1>1, <1>2, <1>3, DeathKeeps

LEMMA CrashKeeps ==
  ASSUME LedgerInv, TypeOK', Crash
  PROVE  LedgerInv'
<1>1. Die /\ UNCHANGED <<clock, disk, damaged, acked>>
  BY DEF Crash, Die
<1>2. \A g \in Good' : LinesOf(g)' /\ Live(g)' = Live(g)
  BY <1>1, StillKeeps DEF disk
<1> QED
  BY <1>1, <1>2, DeathKeeps DEF disk

LEMMA CrashInMarkerKeeps ==
  ASSUME LedgerInv, TypeOK', CrashInMarker
  PROVE  LedgerInv'
<1>1. Die /\ UNCHANGED <<clock, file, cut, archived, damaged, acked>> /\ marker' # "named"
  BY DEF CrashInMarker, Die
<1>2. \A g \in Good' : LinesOf(g)' /\ Live(g)' = Live(g)
  BY <1>1, StillKeeps
<1> QED
  BY <1>1, <1>2, DeathKeeps

LEMMA OpenKeeps ==
  ASSUME LedgerInv, TypeOK', Open
  PROVE  LedgerInv'
<1>1. UNCHANGED <<clock, disk, acked, damaged>> /\ pc = "down"
      /\ pc' = IF marker = "named" THEN "dedupEvents" ELSE IF marker = "malformed" THEN "unmark" ELSE "load"
  BY DEF Open, Goto
<1>2. /\ \A g \in Good' : LinesOf(g)' /\ KeptOf(g)'
      /\ BoundaryMarked'
      /\ marker' = "named" => \A g \in Good' : (CutOf(g) => CutOf(g)') /\ (Uncut(g) => Uncut(g)')
  BY <1>1, StillKeeps DEF disk
<1>3. \A g \in Good' : MemoryOf(g)' /\ ArchiveOf(g)'
  BY <1>1, <1>2 DEF MemoryOf, ArchiveOf, Loading, Cutting
<1>4. PlacesSound'
  BY <1>1 DEF PlacesSound, Rotating, Cutting, disk
<1>5. CutMarked'
  BY <1>1, <1>2 DEF LedgerInv, CutMarked, Serving, disk, Good
<1> QED
  BY <1>2, <1>3, <1>4, <1>5 DEF LedgerInv

LEMMA LoadKeeps ==
  ASSUME LedgerInv, TypeOK', Load
  PROVE  LedgerInv'
<1>1. /\ TypeOK /\ UNCHANGED <<clock, disk, acked, damaged>> /\ pc = "load" /\ pc' \in {Up, "repair"}
      /\ tails' = {f \in Files : TornTail(file[f])} /\ (pc' = Up => tails' = {})
      /\ mem' = [f \in Files |-> Whole(file[f])]
  BY DEF Load, Goto, LedgerInv, Up
<1>2. /\ \A g \in Good' : LinesOf(g)' /\ Body(g)' = Body(g) /\ KeptOf(g)'
      /\ BoundaryMarked'
      /\ marker' = "named" => \A g \in Good' : (CutOf(g) => CutOf(g)') /\ (Uncut(g) => Uncut(g)')
  BY <1>1, StillKeeps DEF disk
<1>3. ASSUME NEW g \in Good' PROVE MemoryOf(g)'
  <2>1. g \in Good /\ g \in Files /\ LinesOf(g) /\ cut' = cut
    BY <1>1 DEF Good, LedgerInv, disk
  <2>2. mem'[g] = Body(g)
    BY <1>1, <2>1 DEF Body
  <2>3. g \in cut => g \in tails'
    <3>1. Body(g) \in Seq(Record)
      BY <2>1, LiveFacts
    <3>2. g \in cut => TornTail(file[g])
      BY <2>1, <3>1, CutFacts DEF LinesOf, TornTail
    <3> QED
      BY <1>1, <2>1, <3>2
  <2> QED
    BY <1>1, <1>2, <2>1, <2>2, <2>3 DEF MemoryOf, Swapped, Up
<1>4. \A g \in Good' : ArchiveOf(g)'
  BY <1>1, <1>2 DEF ArchiveOf, Cutting, Up
<1>5. PlacesSound'
  BY <1>1 DEF PlacesSound, Rotating, Cutting, disk, Up
<1>6. CutMarked'
  BY <1>1, <1>2 DEF LedgerInv, CutMarked, Serving, disk, Good, Up
<1> QED
  BY <1>2, <1>3, <1>4, <1>5, <1>6 DEF LedgerInv

LEMMA LoadCorruptKeeps ==
  ASSUME LedgerInv, TypeOK', LoadCorrupt
  PROVE  LedgerInv'
<1>1. UNCHANGED <<clock, disk, acked, damaged>> /\ pc = "load" /\ pc' = "corrupt"
  BY DEF LoadCorrupt, Goto
<1>2. /\ \A g \in Good' : LinesOf(g)' /\ KeptOf(g)'
      /\ BoundaryMarked'
      /\ marker' = "named" => \A g \in Good' : (CutOf(g) => CutOf(g)') /\ (Uncut(g) => Uncut(g)')
  BY <1>1, StillKeeps DEF disk
<1>3. \A g \in Good' : MemoryOf(g)' /\ ArchiveOf(g)'
  BY <1>1, <1>2 DEF MemoryOf, ArchiveOf, Loading, Cutting
<1>4. PlacesSound'
  BY <1>1 DEF PlacesSound, Rotating, Cutting
<1>5. CutMarked'
  BY <1>1, <1>2 DEF LedgerInv, CutMarked, Serving, disk, Good
<1> QED
  BY <1>2, <1>3, <1>4, <1>5 DEF LedgerInv

LEMMA HeldOlder ==
  ASSUME LedgerInv, NEW f \in Good, mem[f] = Body(f)
  PROVE  \A b : Older(f, b) = {i \in Live(f) : i < b}
<1>1. Body(f) \in Seq(Record) /\ Live(f) = {r.id : r \in Members(Body(f))}
  BY LiveFacts
<1>2. IdsOf(Body(f)) = Live(f)
  BY <1>1, LinesFacts
<1> QED
  BY <1>2 DEF Older

LEMMA DedupKeeps ==
  ASSUME LedgerInv, TypeOK', NEW f \in Files, NEW here, NEW there,
         \/ f = "events" /\ here = "dedupEvents" /\ there = "dedupReceipts"
         \/ f = "receipts" /\ here = "dedupReceipts" /\ there = "unmark",
         DedupStep(f, here, there)
  PROVE  LedgerInv'
<1>1. /\ TypeOK /\ pc = here /\ pc' = there /\ marker = "named" /\ UNCHANGED <<clock, archived, marker, moved, acked>>
      /\ clock \in Nat
  BY DEF DedupStep, Goto, LedgerInv, PlacesSound, TypeOK
<1>2. damaged \subseteq damaged' /\ Good' \subseteq Good
  BY DEF DedupStep, Dedup, Damage, Good
<1>3. ASSUME NEW g \in Good'
      PROVE  /\ LinesOf(g)'
             /\ Live(g)' = IF g = f THEN Live(g) \ moved[g] ELSE Live(g)
  <2>1. CASE g = f /\ moved[f] # {}
    <3>1. f \notin damaged' /\ f \in Good
      BY <1>2, <2>1 DEF Good
    <3>2. file' = [file EXCEPT ![f] = Except(file[f], moved[f])] /\ cut' = cut \ {f}
      BY <2>1, <3>1 DEF DedupStep, Dedup, Damage
    <3>3. Body(f) \in Seq(Record) /\ (file[f] = Body(f) \/ file[f] = Append(Body(f), Torn))
      BY <3>1 DEF LedgerInv, LinesOf, Chained
    <3>4. file'[f] = Except(Body(f), moved[f])
      BY <1>1, <3>2, <3>3, LinesFacts DEF TypeOK
    <3>5. PICK b \in 1..clock + 1 : \A i \in Live(f) : i \in moved[f] <=> i < b
      <4>1. PICK b \in 1..clock + 1 :
                 /\ \A i \in moved[f] : i < b
                 /\ \A i \in Live(f) : i < b => i \in moved[f]
        BY <1>1, <3>1 DEF LedgerInv, BoundaryMarked
      <4> QED
        BY <4>1
    <3>6. b \in Nat
      BY <1>1
    <3> QED
      BY <1>1, <2>1, <3>1, <3>2, <3>4, <3>5, <3>6, FileCut
  <2>2. CASE g # f \/ moved[f] = {}
    <3>1. file'[g] = file[g] /\ (g \in cut' <=> g \in cut)
      <4>0. g \in Files
        BY DEF Good
      <4>1. CASE moved[f] = {}
        BY <4>1 DEF DedupStep, Dedup
      <4>2. CASE moved[f] # {}
        <5>1. g # f
          BY <2>2, <4>2
        <5>2. file' \in {file, [file EXCEPT ![f] = Except(file[f], moved[f])], [file EXCEPT ![f] = <<>>]}
          BY <4>2 DEF DedupStep, Dedup
        <5>3. cut' = cut \/ cut' = cut \ {f}
          BY <4>2 DEF DedupStep, Dedup
        <5> QED
          BY <1>1, <4>0, <5>1, <5>2, <5>3 DEF TypeOK
      <4> QED
        BY <4>1, <4>2
    <3>2. LinesOf(g)' /\ Live(g)' = Live(g)
      BY <1>1, <1>2, <3>1, FileKept
    <3> QED
      BY <2>2, <3>2
  <2> QED
    BY <2>1, <2>2
<1>4. /\ \A g \in Good' : KeptOf(g)'
      /\ BoundaryMarked'
      /\ \A g \in Good' : (CutOf(g) => CutOf(g)') /\ (Uncut(g) /\ Live(g) \subseteq Live(g)' => Uncut(g)')
  BY <1>1, <1>2, <1>3, StepKeeps
<1>5. f \in Good' => CutOf(f)'
  BY <1>1, <1>3 DEF CutOf
<1>6. \A g \in Good' : MemoryOf(g)' /\ ArchiveOf(g)'
  BY <1>1, <1>4 DEF MemoryOf, ArchiveOf, Loading, Cutting
<1>7. PlacesSound'
  BY <1>1 DEF PlacesSound, Rotating, Cutting
<1>8. CutMarked'
  <2>1. \A g \in Good' : Uncut(g)' \/ CutOf(g)'
    <3>1. \A g \in Good' : Uncut(g) \/ CutOf(g)
      BY <1>1, <1>2 DEF LedgerInv, CutMarked
    <3> QED
      BY <1>3, <1>4, <1>5, <3>1
  <2>2. pc' = "unmark" => \A g \in Good' : CutOf(g)'
    <3>1. here = "dedupReceipts" => \A g \in Good : g = "events" => CutOf(g)
      BY <1>1 DEF LedgerInv, CutMarked
    <3> QED
      BY <1>1, <1>2, <1>4, <1>5, <3>1 DEF Good, Files
  <2>3. pc' = "dedupReceipts" => \A g \in Good' : g = "events" => CutOf(g)'
    BY <1>1, <1>5
  <2> QED
    BY <1>1, <2>1, <2>2, <2>3 DEF CutMarked, Serving
<1> QED
  BY <1>3, <1>4, <1>6, <1>7, <1>8 DEF LedgerInv

LEMMA ClearKeeps ==
  ASSUME LedgerInv, TypeOK', ClearAfterRecovery
  PROVE  LedgerInv'
<1>1. /\ UNCHANGED <<clock, file, cut, archived, acked, moved, damaged>> /\ pc = "unmark" /\ pc' = "load"
      /\ marker' \in {"none", marker}
  BY DEF ClearAfterRecovery, RemoveMarker, Goto
<1>2. /\ \A g \in Good' : LinesOf(g)' /\ KeptOf(g)'
      /\ BoundaryMarked'
      /\ marker' = "named" => \A g \in Good' : CutOf(g) => CutOf(g)'
  BY <1>1, StillKeeps
<1>3. \A g \in Good' : MemoryOf(g)' /\ ArchiveOf(g)'
  BY <1>1, <1>2 DEF MemoryOf, ArchiveOf, Loading, Cutting
<1>4. PlacesSound'
  BY <1>1 DEF PlacesSound, Rotating, Cutting
<1>5. CutMarked'
  BY <1>1, <1>2 DEF LedgerInv, CutMarked, Serving, Good
<1> QED
  BY <1>2, <1>3, <1>4, <1>5 DEF LedgerInv

LEMMA RepairTailKeeps ==
  ASSUME LedgerInv, TypeOK', RepairTail
  PROVE  LedgerInv'
<1>1. /\ TypeOK /\ clock \in Nat /\ UNCHANGED <<clock, archived, acked, marker, moved, damaged, mem, tails>>
      /\ pc = "repair" /\ pc' = "audit"
      /\ file' = [file EXCEPT ![NextTail] = mem[NextTail]] /\ cut' = cut \ {NextTail} /\ Good' = Good
  BY DEF RepairTail, Goto, LedgerInv, TypeOK, Good
<1>2. \A g \in Good : /\ g \in Files /\ mem[g] = Body(g) /\ Chained(Body(g), clock)
                      /\ g \in cut => g \in tails
  BY <1>1 DEF LedgerInv, MemoryOf, LinesOf, Loading, Swapped, Good
<1>3. ASSUME NEW g \in Good' PROVE LinesOf(g)' /\ Body(g)' = Body(g) /\ Live(g)' = Live(g)
  <2>1. CASE g = NextTail
    <3>1. file'[g] = IF g \in cut' THEN Append(Body(g), Torn) ELSE Body(g)
      BY <1>1, <1>2, <2>1 DEF TypeOK
    <3> QED
      BY <1>1, <1>2, <3>1, FileIs, LiveFacts
  <2>2. CASE g # NextTail
    <3>1. file'[g] = file[g] /\ (g \in cut' <=> g \in cut)
      BY <1>1, <2>2 DEF TypeOK
    <3> QED
      BY <1>1, <3>1, FileKept
  <2> QED
    BY <2>1, <2>2
<1>4. /\ \A g \in Good' : KeptOf(g)'
      /\ BoundaryMarked'
      /\ marker' = "named" => \A g \in Good' : (CutOf(g) => CutOf(g)') /\ (Uncut(g) => Uncut(g)')
  BY <1>1, <1>3, StepKeeps
<1>5. NextTail' = NextTail
  BY <1>1 DEF NextTail
<1>6. \A g \in Good' : MemoryOf(g)' /\ ArchiveOf(g)'
  BY <1>1, <1>2, <1>3, <1>4, <1>5 DEF MemoryOf, ArchiveOf, Swapped, Cutting
<1>7. PlacesSound'
  BY <1>1 DEF PlacesSound, Rotating, Cutting
<1>8. CutMarked'
  BY <1>1, <1>4 DEF LedgerInv, CutMarked, Serving
<1> QED
  BY <1>3, <1>4, <1>6, <1>7, <1>8 DEF LedgerInv

LEMMA RepairThrowsKeeps ==
  ASSUME LedgerInv, TypeOK', RepairThrows
  PROVE  LedgerInv'
<1>1. /\ UNCHANGED <<clock, disk, mem, acked>> /\ pc = "repair" /\ pc' \in {Up, "repair"}
      /\ tails' = tails \ {NextTail} /\ (pc' = Up => tails' = {}) /\ damaged' = damaged \cup {NextTail}
  BY DEF RepairThrows, Goto, AfterTail, Damage, Up
<1>2. /\ Good' \subseteq Good
      /\ \A g \in Good' : LinesOf(g)' /\ Body(g)' = Body(g) /\ KeptOf(g)'
      /\ BoundaryMarked'
      /\ marker' = "named" => \A g \in Good' : (CutOf(g) => CutOf(g)') /\ (Uncut(g) => Uncut(g)')
  BY <1>1, StillKeeps DEF disk
<1>3. ASSUME NEW g \in Good' PROVE MemoryOf(g)'
  <2>1. g \in Good /\ g # NextTail /\ MemoryOf(g) /\ cut' = cut
    BY <1>1, <1>2 DEF Good, LedgerInv, disk
  <2>2. mem[g] = Body(g) /\ (g \in cut => g \in tails)
    BY <1>1, <2>1 DEF MemoryOf, Loading, Swapped
  <2>3. g \in cut => g \in tails' /\ pc' = "repair"
    BY <1>1, <2>1, <2>2
  <2> QED
    BY <1>1, <1>2, <2>1, <2>2, <2>3 DEF MemoryOf, Swapped, Up
<1>4. \A g \in Good' : ArchiveOf(g)'
  BY <1>1, <1>2 DEF ArchiveOf, Cutting, Up
<1>5. PlacesSound'
  BY <1>1 DEF PlacesSound, Rotating, Cutting, Up
<1>6. CutMarked'
  BY <1>1, <1>2 DEF LedgerInv, CutMarked, Serving, disk, Up
<1> QED
  BY <1>2, <1>3, <1>4, <1>5, <1>6 DEF LedgerInv

LEMMA AuditKeeps ==
  ASSUME LedgerInv, TypeOK', Audit
  PROVE  LedgerInv'
<1>1. /\ TypeOK /\ pc = "audit" /\ pc' \in {Up, "repair"} /\ clock \in Nat /\ clock' = clock + 1 /\ Mint
      /\ tails' = tails \ {NextTail} /\ (pc' = Up => tails' = {})
      /\ UNCHANGED <<archived, marker, moved, acked>>
      /\ "events" \in Files
  BY DEF Audit, Goto, AfterTail, Mint, LedgerInv, TypeOK, Up, Files
<1>2. damaged \subseteq damaged' /\ Good' \subseteq Good
  BY DEF Audit, WriteLine, Damage, Good
<1>3. \A g \in Good : mem[g] = Body(g) /\ g \in Files /\ (g \in cut => g \in tails /\ g # NextTail)
  BY <1>1 DEF LedgerInv, MemoryOf, Loading, Swapped, Good
<1>4. ASSUME NEW g \in Good'
      PROVE  /\ LinesOf(g)' /\ mem'[g] = Body(g)' /\ (g \in cut' => g \in tails')
             /\ Live(g) \subseteq Live(g)'
             /\ \A i \in Live(g)' : i \in Live(g) \/ i = clock + 1
  <2>1. CASE g = "events"
    <3>0. "events" \notin damaged'
      BY <2>1 DEF Good
    <3>1. WriteLine("events", Stamp("events")) /\ cut' = cut \ {"events"}
      BY <3>0 DEF Audit, Damage
    <3>2. /\ LinesOf("events")' /\ Body("events")' = Append(Body("events"), Stamp("events"))
          /\ Live("events")' = Live("events") \cup {clock + 1}
      BY <1>1, <3>0, <3>1, RecordWritten
    <3>3. mem'["events"] = Append(mem["events"], Stamp("events"))
      BY <1>1 DEF Audit, TypeOK
    <3> QED
      BY <1>2, <1>3, <2>1, <3>1, <3>2, <3>3
  <2>2. CASE g # "events"
    <3>1. file'[g] = file[g] /\ (g \in cut' <=> g \in cut) /\ mem'[g] = mem[g]
      <4>0. g \in Files
        BY DEF Good
      <4>1. mem'[g] = mem[g]
        BY <1>1, <2>2, <4>0 DEF Audit, TypeOK
      <4>2. file' \in {file, [file EXCEPT !["events"] = Written("events", Stamp("events"))]}
        BY DEF Audit, WriteLine
      <4>3. cut' = cut \/ cut' = cut \ {"events"}
        BY DEF Audit
      <4> QED
        BY <1>1, <2>2, <4>0, <4>1, <4>2, <4>3 DEF TypeOK
    <3>2. LinesOf(g)' /\ Body(g)' = Body(g) /\ Live(g)' = Live(g)
      BY <1>1, <1>2, <3>1, FileKept
    <3> QED
      BY <1>1, <1>2, <1>3, <3>1, <3>2
  <2> QED
    BY <2>1, <2>2
<1>5. /\ \A g \in Good' : KeptOf(g)'
      /\ BoundaryMarked'
      /\ marker' = "named" => \A g \in Good' : (CutOf(g) => CutOf(g)') /\ (Uncut(g) => Uncut(g)')
  BY <1>1, <1>2, <1>4, StepKeeps
<1>6. \A g \in Good' : MemoryOf(g)' /\ ArchiveOf(g)'
  BY <1>1, <1>4, <1>5 DEF MemoryOf, ArchiveOf, Up, Cutting, Swapped
<1>7. PlacesSound'
  BY <1>1 DEF PlacesSound, Up, Cutting, Rotating
<1>8. CutMarked'
  BY <1>1, <1>2, <1>5 DEF LedgerInv, CutMarked, Serving, Up
<1> QED
  BY <1>4, <1>5, <1>6, <1>7, <1>8 DEF LedgerInv

LEMMA RotateKeeps ==
  ASSUME LedgerInv, TypeOK', NEW b \in 2..clock + 1, Rotate(b)
  PROVE  LedgerInv'
<1>1. /\ clock \in Nat /\ UNCHANGED <<clock, disk, mem, acked, damaged>>
      /\ pc = Up /\ pc' = "archiveEvents" /\ boundary' = b
  BY DEF Rotate, Goto, LedgerInv, TypeOK
<1>2. /\ Good' \subseteq Good
      /\ \A g \in Good' : LinesOf(g)' /\ Body(g)' = Body(g) /\ KeptOf(g)'
      /\ BoundaryMarked'
      /\ marker' = "named" => \A g \in Good' : (CutOf(g) => CutOf(g)') /\ (Uncut(g) => Uncut(g)')
  BY <1>1, StillKeeps DEF disk
<1>3. \A g \in Good' : mem[g] = Body(g) /\ g \notin cut
  BY <1>1, <1>2 DEF LedgerInv, MemoryOf, Up, Loading, Swapped
<1>4. \A g \in Good' : MemoryOf(g)' /\ ArchiveOf(g)'
  BY <1>1, <1>2, <1>3 DEF MemoryOf, ArchiveOf, Swapped, Cutting, disk
<1>5. PlacesSound'
  <2>1. b \in 1..clock + 1
    BY <1>1
  <2> QED
    BY <1>1, <2>1 DEF PlacesSound, Rotating, Cutting
<1>6. CutMarked'
  BY <1>1, <1>2 DEF LedgerInv, CutMarked, Serving, disk, Up
<1> QED
  BY <1>2, <1>4, <1>5, <1>6 DEF LedgerInv

LEMMA WriteArchiveKeeps ==
  ASSUME LedgerInv, TypeOK', NEW f \in Files, NEW here, NEW there,
         \/ f = "events" /\ here = "archiveEvents" /\ there = "archiveReceipts"
         \/ f = "receipts" /\ here = "archiveReceipts" /\ there = "mark",
         WriteArchive(f, here, there)
  PROVE  LedgerInv'
<1>1. /\ TypeOK /\ clock \in Nat /\ clock' = clock
      /\ UNCHANGED <<file, cut, marker, moved, mem, acked, damaged>> /\ pc = here
      /\ \/ /\ archived' = [archived EXCEPT ![f] = @ \cup Older(f, boundary)]
            /\ pc' = there /\ boundary' = boundary
         \/ archived' = archived /\ pc' = Up
      /\ here \in Serving /\ Good' = Good
  BY DEF WriteArchive, Goto, Return, LedgerInv, TypeOK, Serving, Good
<1>2. \A g \in Good : mem[g] = Body(g) /\ g \notin cut /\ g \in Files
  BY <1>1 DEF LedgerInv, MemoryOf, Serving, Loading, Swapped, Good
<1>3. \A g \in Good : LinesOf(g)' /\ Body(g)' = Body(g) /\ Live(g)' = Live(g)
  BY <1>1, FileKept
<1>4. \A g \in Good : archived[g] \subseteq archived'[g] /\ archived'[g] \subseteq archived[g] \cup Live(g)
  <2>1. \A g \in Good : Older(g, boundary) \subseteq Live(g)
    BY <1>2, HeldOlder
  <2> QED
    BY <1>1, <1>2, <2>1 DEF TypeOK
<1>5. /\ \A g \in Good' : KeptOf(g)'
      /\ BoundaryMarked'
      /\ marker' = "named" => \A g \in Good' : (CutOf(g) => CutOf(g)') /\ (Uncut(g) => Uncut(g)')
  BY <1>1, <1>3, <1>4, StepKeeps
<1>6. \A g \in Good' : MemoryOf(g)'
  BY <1>1, <1>2, <1>3 DEF MemoryOf, Swapped, Up
<1>7. ASSUME NEW g \in Good' PROVE ArchiveOf(g)'
  <2>1. CASE archived' = archived /\ pc' = Up
    BY <1>5, <2>1 DEF ArchiveOf, Up, Cutting
  <2>2. CASE /\ archived' = [archived EXCEPT ![f] = @ \cup Older(f, boundary)]
             /\ pc' = there /\ boundary' = boundary
    <3>1. Older(g, boundary)' = Older(g, boundary)
      BY <1>1, <2>2 DEF Older
    <3>2. g = f => Older(g, boundary) \subseteq archived'[g]
      BY <1>1, <2>2 DEF TypeOK
    <3>3. g # f /\ pc' = "mark" => Older(g, boundary) \subseteq archived'[g]
      <4>1. g # f /\ pc' = "mark" => g = "events" /\ pc = "archiveReceipts"
        BY <1>1, <1>2, <2>2 DEF Files
      <4> QED
        BY <1>1, <1>4, <4>1 DEF LedgerInv, ArchiveOf
    <3>4. pc' = "archiveReceipts" /\ g = "events" => g = f
      BY <1>1, <2>2
    <3> QED
      BY <1>5, <1>1, <2>2, <3>1, <3>2, <3>3, <3>4 DEF ArchiveOf, Cutting
  <2> QED
    BY <1>1, <2>1, <2>2
<1>8. PlacesSound'
  BY <1>1 DEF LedgerInv, PlacesSound, Rotating, Cutting, Up
<1>9. CutMarked'
  BY <1>1, <1>5 DEF LedgerInv, CutMarked, Serving, Up
<1> QED
  BY <1>1, <1>3, <1>5, <1>6, <1>7, <1>8, <1>9 DEF LedgerInv

LEMMA WriteMarkerKeeps ==
  ASSUME LedgerInv, TypeOK', WriteMarker
  PROVE  LedgerInv'
<1>1. /\ TypeOK /\ clock \in Nat /\ clock' = clock
      /\ UNCHANGED <<file, cut, archived, mem, boundary, acked, damaged>> /\ pc = "mark" /\ pc' = "swapEvents"
      /\ marker' = "named" /\ moved' = [g \in Files |-> Older(g, boundary)] /\ Good' = Good
  BY DEF WriteMarker, Goto, LedgerInv, TypeOK, Good
<1>2. \A g \in Good : mem[g] = Body(g) /\ g \notin cut /\ g \in Files
  BY <1>1 DEF LedgerInv, MemoryOf, Loading, Swapped, Good
<1>3. \A g \in Good : LinesOf(g)' /\ Body(g)' = Body(g) /\ Live(g)' = Live(g)
  BY <1>1, FileKept
<1>4. \A g \in Good : moved'[g] = {i \in Live(g) : i < boundary} /\ Older(g, boundary)' = moved'[g]
  <2>1. \A g \in Good : Older(g, boundary)' = Older(g, boundary)
    BY <1>1 DEF Older
  <2> QED
    BY <1>1, <1>2, <2>1, HeldOlder
<1>5. \A g \in Good : moved'[g] \subseteq archived[g] /\ KeptOf(g)
  BY <1>1, <1>2 DEF LedgerInv, ArchiveOf
<1>6. \A g \in Good' : MemoryOf(g)'
  BY <1>1, <1>2, <1>3 DEF MemoryOf, Swapped
<1>7. \A g \in Good' : KeptOf(g)'
  BY <1>1, <1>3, <1>5 DEF KeptOf
<1>8. \A g \in Good' : ArchiveOf(g)'
  BY <1>1, <1>4, <1>5, <1>7 DEF ArchiveOf, Cutting
<1>9. PlacesSound'
  BY <1>1 DEF LedgerInv, PlacesSound, Rotating, Cutting
<1>10. BoundaryMarked'
  <2>1. boundary \in 1..clock + 1
    BY <1>1 DEF LedgerInv, PlacesSound, Rotating
  <2>2. \A g \in Good' : /\ \A i \in moved'[g] : i < boundary
                         /\ \A i \in Live(g)' : i < boundary => i \in moved'[g]
    BY <1>1, <1>3, <1>4
  <2>3. \E b \in 1..clock + 1 : \A g \in Good' : /\ \A i \in moved'[g] : i < b
                                                 /\ \A i \in Live(g)' : i < b => i \in moved'[g]
    BY <2>1, <2>2
  <2> QED
    BY <1>1, <2>3 DEF BoundaryMarked
<1>11. CutMarked'
  <2>1. \A g \in Good' : Uncut(g)'
    BY <1>1, <1>3, <1>4 DEF Uncut
  <2> QED
    BY <1>1, <2>1 DEF CutMarked
<1> QED
  BY <1>1, <1>3, <1>6, <1>8, <1>9, <1>10, <1>11 DEF LedgerInv

LEMMA SwapKeeps ==
  ASSUME LedgerInv, TypeOK', NEW f \in Files, NEW here, NEW there,
         \/ f = "events" /\ here = "swapEvents" /\ there = "swapReceipts"
         \/ f = "receipts" /\ here = "swapReceipts" /\ there = "finish",
         Swap(f, here, there)
  PROVE  LedgerInv'
<1>1. /\ TypeOK /\ clock \in Nat /\ clock' = clock
      /\ UNCHANGED <<archived, marker, moved, mem, boundary, acked, damaged>> /\ pc = here /\ pc' = there
      /\ file' = [file EXCEPT ![f] = Except(mem[f], Older(f, boundary))] /\ cut' = cut \ {f}
      /\ marker = "named" /\ Good' = Good /\ here \in Cutting
  BY DEF Swap, Goto, LedgerInv, TypeOK, PlacesSound, Cutting, Good
<1>2. \A g \in Good : /\ MemoryOf(g) /\ g \notin cut /\ g \in Files /\ moved[g] = Older(g, boundary)
                      /\ Body(g) = IF Swapped(g) THEN Except(mem[g], Older(g, boundary)) ELSE mem[g]
  BY <1>1 DEF LedgerInv, MemoryOf, ArchiveOf, Cutting, Loading, Good
<1>3. boundary \in Nat /\ ~Swapped(f)
  BY <1>1 DEF TypeOK, Swapped
<1>4. f \in Good =>
        /\ LinesOf(f)' /\ Body(f)' = Except(mem[f], Older(f, boundary))
        /\ Live(f)' = Live(f) \ moved[f]
  <2> SUFFICES ASSUME f \in Good
               PROVE  /\ LinesOf(f)' /\ Body(f)' = Except(mem[f], Older(f, boundary))
                      /\ Live(f)' = Live(f) \ moved[f]
    OBVIOUS
  <2>1. mem[f] = Body(f) /\ moved[f] = Older(f, boundary)
    BY <1>2, <1>3
  <2>2. \A i \in Live(f) : i \in moved[f] <=> i < boundary
    BY <2>1, HeldOlder
  <2>3. file'[f] = Except(Body(f), moved[f]) /\ f \notin cut'
    BY <1>1, <2>1 DEF TypeOK
  <2>4. LinesOf(f)' /\ Body(f)' = Except(Body(f), moved[f]) /\ Live(f)' = Live(f) \ moved[f]
    BY <1>1, <1>3, <2>2, <2>3, FileCut
  <2> QED
    BY <2>1, <2>4
<1>5. \A g \in Good : g # f => LinesOf(g)' /\ Body(g)' = Body(g) /\ Live(g)' = Live(g)
  <2>1. \A g \in Good : g # f => file'[g] = file[g] /\ (g \in cut' <=> g \in cut)
    BY <1>1, <1>2 DEF TypeOK
  <2> QED
    BY <1>1, <2>1, FileKept
<1>6. /\ \A g \in Good' : KeptOf(g)'
      /\ BoundaryMarked'
      /\ \A g \in Good' : (CutOf(g) => CutOf(g)') /\ (Uncut(g) /\ Live(g) \subseteq Live(g)' => Uncut(g)')
  BY <1>1, <1>4, <1>5, StepKeeps
<1>7. \A g \in Good : Older(g, boundary)' = Older(g, boundary)
  BY <1>1 DEF Older
<1>8. ASSUME NEW g \in Good' PROVE MemoryOf(g)'
  <2>1. g \in Good /\ g \notin cut'
    BY <1>1, <1>2
  <2>2. CASE g = f
    <3>1. Swapped(g)'
      BY <1>1, <2>2 DEF Swapped
    <3>2. Body(g)' = Except(mem'[g], Older(g, boundary)')
      BY <1>1, <1>4, <1>7, <2>1, <2>2
    <3> QED
      BY <2>1, <3>1, <3>2 DEF MemoryOf
  <2>3. CASE g # f
    <3>1. Swapped(g)' <=> Swapped(g)
      BY <1>1, <1>2, <2>1, <2>3 DEF Swapped, Files
    <3>2. Body(g)' = IF Swapped(g)' THEN Except(mem'[g], Older(g, boundary)') ELSE mem'[g]
      BY <1>1, <1>2, <1>5, <1>7, <2>1, <2>3, <3>1
    <3> QED
      BY <2>1, <3>2 DEF MemoryOf
  <2> QED
    BY <2>2, <2>3
<1>9. \A g \in Good' : ArchiveOf(g)'
  <2>1. \A g \in Good : Older(g, boundary) \subseteq archived[g] /\ moved[g] = Older(g, boundary)
    BY <1>1 DEF LedgerInv, ArchiveOf
  <2> QED
    BY <1>1, <1>6, <1>7, <2>1 DEF ArchiveOf
<1>10. PlacesSound'
  BY <1>1 DEF LedgerInv, PlacesSound, Rotating, Cutting
<1>11. CutMarked'
  <2>1. f \in Good => CutOf(f)'
    BY <1>1, <1>4 DEF CutOf
  <2>2. \A g \in Good' : Uncut(g)' \/ CutOf(g)'
    <3>1. \A g \in Good' : Uncut(g) \/ CutOf(g)
      BY <1>1 DEF LedgerInv, CutMarked
    <3> QED
      BY <1>1, <1>5, <1>6, <2>1, <3>1
  <2>3. there = "finish" => \A g \in Good' : CutOf(g)'
    <3>1. here = "swapReceipts" => \A g \in Good : g = "events" => CutOf(g)
      BY <1>1 DEF LedgerInv, CutMarked
    <3> QED
      BY <1>1, <1>2, <1>6, <2>1, <3>1 DEF Files
  <2>4. there = "swapReceipts" => \A g \in Good' : g = "events" => CutOf(g)'
    BY <1>1, <2>1
  <2> QED
    BY <1>1, <2>2, <2>3, <2>4 DEF CutMarked, Serving
<1> QED
  BY <1>1, <1>4, <1>5, <1>6, <1>8, <1>9, <1>10, <1>11 DEF LedgerInv

LEMMA RotateThrowsKeeps ==
  ASSUME LedgerInv, TypeOK', RotateThrows
  PROVE  LedgerInv'
<1>1. /\ UNCHANGED <<clock, file, cut, archived, moved, mem, acked>> /\ pc' = Up
      /\ pc \in {"mark", "swapEvents", "swapReceipts"}
      /\ damaged' = damaged \cup (IF pc = "swapReceipts" THEN Files ELSE {})
      /\ marker' = "named" => marker = "named"
  BY DEF RotateThrows, RemoveMarker, Damage, Return, Goto
<1>2. /\ Good' \subseteq Good
      /\ \A g \in Good' : LinesOf(g)' /\ Body(g)' = Body(g) /\ KeptOf(g)'
      /\ BoundaryMarked'
      /\ marker' = "named" => \A g \in Good' : (CutOf(g) => CutOf(g)') /\ (Uncut(g) => Uncut(g)')
  BY <1>1, StillKeeps
<1>3. ASSUME NEW g \in Good' PROVE pc \in {"mark", "swapEvents"} /\ g \in Good
  BY <1>1 DEF Good
<1>4. \A g \in Good' : mem[g] = Body(g) /\ g \notin cut
  BY <1>3 DEF LedgerInv, MemoryOf, Loading, Swapped
<1>5. \A g \in Good' : MemoryOf(g)' /\ ArchiveOf(g)'
  BY <1>1, <1>2, <1>4 DEF MemoryOf, ArchiveOf, Swapped, Cutting, Up
<1>6. PlacesSound'
  BY <1>1 DEF PlacesSound, Rotating, Cutting, Up
<1>7. CutMarked'
  <2>1. marker' = "named" => (\A g \in Good' : Uncut(g)') \/ (\A g \in Good' : CutOf(g)')
    BY <1>1, <1>2, <1>3 DEF LedgerInv, CutMarked, Serving
  <2> QED
    BY <1>1, <2>1 DEF CutMarked, Up
<1> QED
  BY <1>2, <1>5, <1>6, <1>7 DEF LedgerInv

LEMMA FinishRotateKeeps ==
  ASSUME LedgerInv, TypeOK', FinishRotate
  PROVE  LedgerInv'
<1>1. /\ UNCHANGED <<clock, file, cut, archived, moved, acked, damaged>> /\ pc = "finish" /\ pc' = Up
      /\ marker' \in {"none", marker} /\ mem' = [g \in Files |-> Except(mem[g], Older(g, boundary))]
  BY DEF FinishRotate, RemoveMarker, Return, Goto
<1>2. /\ Good' \subseteq Good
      /\ \A g \in Good' : LinesOf(g)' /\ Body(g)' = Body(g) /\ KeptOf(g)'
      /\ BoundaryMarked'
      /\ marker' = "named" => \A g \in Good' : (CutOf(g) => CutOf(g)') /\ (Uncut(g) => Uncut(g)')
  BY <1>1, StillKeeps
<1>3. \A g \in Good' : mem'[g] = Body(g) /\ g \notin cut
  BY <1>1, <1>2 DEF LedgerInv, MemoryOf, Loading, Swapped, Good
<1>4. \A g \in Good' : MemoryOf(g)' /\ ArchiveOf(g)'
  BY <1>1, <1>2, <1>3 DEF MemoryOf, ArchiveOf, Swapped, Cutting, Up
<1>5. PlacesSound'
  BY <1>1 DEF PlacesSound, Rotating, Cutting, Up
<1>6. CutMarked'
  BY <1>1, <1>2 DEF LedgerInv, CutMarked, Serving, Up
<1> QED
  BY <1>2, <1>4, <1>5, <1>6 DEF LedgerInv

---------------------------------------------------------------------------
(***************************************************************************)
(* The invariant holds, and what the runs check follows from it.            *)
(***************************************************************************)
LEMMA InitInv ==
  ASSUME Init
  PROVE  LedgerInv
<1>1. TypeOK /\ clock \in Nat
  BY InitType DEF Init
<1>2. ASSUME NEW f \in Files
      PROVE  LinesOf(f) /\ Live(f) \subseteq 1..clock /\ acked[f] = Live(f)
  <2> DEFINE r == [id |-> 1, prev |-> 0]
  <2>1. r \in Record /\ r.id = 1
    BY LedgerAssumption DEF Record
  <2>2. CASE f \in array
    <3>1. clock = 1 /\ file[f] = <<r>> /\ f \notin cut
      BY <2>2 DEF Init
    <3>2. <<r>> \in Seq(Record) /\ Len(<<r>>) = 1 /\ DOMAIN <<r>> = {1} /\ <<r>>[1] = r
      BY <2>1
    <3>3. Chained(<<r>>, 1)
      <4> HIDE DEF r
      <4> QED
        BY <2>1, <3>2 DEF Chained
    <3>4. Members(<<r>>) = {r}
      <4> HIDE DEF r
      <4> QED
        BY <3>2 DEF Members
    <3> HIDE DEF r
    <3>5. Body(f) = <<r>> /\ Live(f) = {1}
      <4>1. Whole(<<r>>) = <<r>> /\ IdsOf(<<r>>) = {q.id : q \in Members(<<r>>)}
        BY <3>2, LinesFacts
      <4>2. IdsOf(<<r>>) = {1}
        BY <2>1, <3>4, <4>1
      <4> QED
        BY <3>1, <4>1, <4>2 DEF Body, Live
    <3> QED
      BY <3>1, <3>3, <3>5 DEF LinesOf, Live, Init
  <2>3. CASE f \notin array
    <3>1. file[f] = <<>> /\ f \notin cut
      BY <2>3 DEF Init
    <3>2. <<>> \in Seq(Record) /\ DOMAIN <<>> = {}
      OBVIOUS
    <3>3. Body(f) = <<>>
      BY <3>1, <3>2, WholeOfRecords DEF Body
    <3>4. Live(f) = {}
      BY <3>1, <3>2 DEF Live, IdsOf
    <3> QED
      BY <3>1, <3>2, <3>3, <3>4 DEF LinesOf, Live, Init, Chained
  <2> QED
    BY <2>2, <2>3
<1>3. \A f \in Files : LinesOf(f) /\ MemoryOf(f) /\ ArchiveOf(f)
  BY <1>2 DEF Init, MemoryOf, ArchiveOf, KeptOf, Loading, Cutting
<1>4. PlacesSound /\ BoundaryMarked /\ CutMarked
  BY DEF Init, PlacesSound, BoundaryMarked, CutMarked, Rotating, Cutting
<1> QED
  BY <1>1, <1>3, <1>4 DEF LedgerInv, Good

LEMMA NextInv ==
  ASSUME LedgerInv, [Next]_vars
  PROVE  LedgerInv'
<1>1. TypeOK'
  BY NextType DEF LedgerInv
<1>2. ASSUME NEW f \in Files, AppendRecord(f) \/ AppendThrows(f) \/ CrashInAppend(f) PROVE LedgerInv'
  BY <1>1, <1>2, AppendKeeps, AppendThrowsKeeps, CrashInAppendKeeps
<1>3. ASSUME Crash \/ CrashInMarker \/ Open PROVE LedgerInv'
  BY <1>1, <1>3, CrashKeeps, CrashInMarkerKeeps, OpenKeeps
<1>4. ASSUME DedupStep("events", "dedupEvents", "dedupReceipts") \/ DedupStep("receipts", "dedupReceipts", "unmark")
      PROVE  LedgerInv'
  BY <1>1, <1>4, DedupKeeps DEF Files
<1>5. ASSUME ClearAfterRecovery \/ Load \/ LoadCorrupt PROVE LedgerInv'
  BY <1>1, <1>5, ClearKeeps, LoadKeeps, LoadCorruptKeeps
<1>6. ASSUME RepairTail \/ RepairThrows \/ Audit PROVE LedgerInv'
  BY <1>1, <1>6, RepairTailKeeps, RepairThrowsKeeps, AuditKeeps
<1>7. ASSUME NEW b \in 2..clock + 1, Rotate(b) PROVE LedgerInv'
  BY <1>1, <1>7, RotateKeeps
<1>8. ASSUME \/ WriteArchive("events", "archiveEvents", "archiveReceipts")
             \/ WriteArchive("receipts", "archiveReceipts", "mark")
      PROVE  LedgerInv'
  BY <1>1, <1>8, WriteArchiveKeeps DEF Files
<1>9. ASSUME Swap("events", "swapEvents", "swapReceipts") \/ Swap("receipts", "swapReceipts", "finish")
      PROVE  LedgerInv'
  BY <1>1, <1>9, SwapKeeps DEF Files
<1>10. ASSUME WriteMarker \/ RotateThrows \/ FinishRotate PROVE LedgerInv'
  BY <1>1, <1>10, WriteMarkerKeeps, RotateThrowsKeeps, FinishRotateKeeps
<1>11. ASSUME UNCHANGED vars PROVE LedgerInv'
  <2>1. UNCHANGED <<pc, clock, file, cut, archived, marker, moved, mem, boundary, tails, acked, damaged>>
    BY <1>11 DEF vars, disk
  <2>2. /\ \A f \in Good' : LinesOf(f)' /\ Body(f)' = Body(f) /\ Live(f)' = Live(f) /\ KeptOf(f)'
        /\ BoundaryMarked'
    BY <2>1, StillKeeps
  <2>3. Good' = Good
    BY <2>1 DEF Good
  <2>4. ASSUME NEW f \in Good PROVE MemoryOf(f)' /\ ArchiveOf(f)'
    <3>1. (Swapped(f) <=> Swapped(f)') /\ Older(f, boundary)' = Older(f, boundary) /\ NextTail' = NextTail
      BY <2>1 DEF Swapped, Older, NextTail
    <3>2. MemoryOf(f) /\ ArchiveOf(f) /\ Body(f)' = Body(f) /\ KeptOf(f)'
      BY <2>2, <2>3 DEF LedgerInv
    <3> QED
      BY <2>1, <3>1, <3>2 DEF MemoryOf, ArchiveOf
  <2>5. PlacesSound'
    BY <2>1 DEF LedgerInv, PlacesSound
  <2>6. CutMarked'
    <3>1. \A f \in Good : (Uncut(f)' <=> Uncut(f)) /\ (CutOf(f)' <=> CutOf(f))
      BY <2>1, <2>2, <2>3 DEF Uncut, CutOf
    <3> QED
      BY <2>1, <2>3, <3>1 DEF LedgerInv, CutMarked
  <2> QED
    BY <1>1, <2>2, <2>3, <2>4, <2>5, <2>6 DEF LedgerInv
<1> QED
  BY <1>2, <1>3, <1>4, <1>5, <1>6, <1>7, <1>8, <1>9, <1>10, <1>11 DEF Next

LEMMA LedgerInvariant == Spec => []LedgerInv
<1>1. Init => LedgerInv
  BY InitInv
<1>2. LedgerInv /\ [Next]_vars => LedgerInv'
  BY NextInv
<1> QED
  BY <1>1, <1>2, PTL DEF Spec

(* No acknowledged record is lost: through every append, rotation, crash    *)
(* and recovery it is in its file or in the archive.                        *)
THEOREM AckedIsKeptAlways == Spec => []AckedIsKept
<1>1. LedgerInv => AckedIsKept
  BY DEF LedgerInv, ArchiveOf, KeptOf, AckedIsKept, Good, Live
<1> QED
  BY <1>1, LedgerInvariant, PTL

(* A process that is up answers reads with what its file holds.             *)
THEOREM MemoryIsFileAlways == Spec => []MemoryIsFile
<1>1. LedgerInv => MemoryIsFile
  BY DEF LedgerInv, MemoryOf, LinesOf, MemoryIsFile, Good, Loading, Swapped, Up
<1> QED
  BY <1>1, LedgerInvariant, PTL

(* PROV-004: every record of a file commits to the one before it.           *)
THEOREM ChainHoldsAlways == Spec => []ChainHolds
<1>1. LedgerInv => ChainHolds
  BY DEF LedgerInv, LinesOf, Chained, Body, ChainHolds, Good
<1> QED
  BY <1>1, LedgerInvariant, PTL

(* What stops the store from opening is a file without a complete record.   *)
THEOREM OpensAgainAlways == Spec => []OpensAgain
<1>1. ASSUME LedgerInv, NEW f \in Good, Corrupt(file[f]) PROVE Whole(file[f]) = <<>>
  <2>1. Body(f) \in Seq(Record) /\ (file[f] = Body(f) \/ file[f] = Append(Body(f), Torn))
    BY <1>1, LiveFacts DEF LedgerInv, LinesOf
  <2> QED
    BY <1>1, <2>1, LinesFacts
<1>2. LedgerInv => OpensAgain
  BY <1>1 DEF OpensAgain, Good
<1> QED
  BY <1>2, LedgerInvariant, PTL

---------------------------------------------------------------------------
(***************************************************************************)
(* The refinement of SqliteLedger, while no file is damaged.                *)
(***************************************************************************)

(* The rows of the abstract tables: the records of the files, but those     *)
(* that the other file has lost in the same rotation.                       *)
RowIds(f) == {r.id : r \in Rows(f)}

RowsSound ==
  /\ CutBegun <=> marker = "named" /\ \E f \in Files : moved[f] # {} /\ CutOf(f)
  /\ \A f \in Files :
       /\ Rows(f) = {r \in Members(Body(f)) : ~(CutBegun /\ r.id \in moved[f])}
       /\ RowIds(f) = {i \in Live(f) : ~(CutBegun /\ i \in moved[f])}
       /\ Live(f) = {r.id : r \in Members(Body(f))}

(* Between two rotations the tables are the files.                          *)
Steady == CutBegun => \A f \in Files : CutOf(f)

LEMMA RowsAre ==
  LedgerInv /\ damaged = {} => RowsSound
<1> SUFFICES ASSUME LedgerInv, damaged = {} PROVE RowsSound
  OBVIOUS
<1>1. CutBegun <=> marker = "named" /\ \E f \in Files : moved[f] # {} /\ CutOf(f)
  BY DEF CutBegun, CutOf, Live
<1>2. ASSUME NEW f \in Files
      PROVE  /\ Rows(f) = {r \in Members(Body(f)) : ~(CutBegun /\ r.id \in moved[f])}
             /\ RowIds(f) = {i \in Live(f) : ~(CutBegun /\ i \in moved[f])}
             /\ Live(f) = {r.id : r \in Members(Body(f))}
  <2>1. f \in Good /\ LinesOf(f)
    BY DEF LedgerInv, Good
  <2>2. Body(f) \in Seq(Record) /\ (file[f] = Body(f) \/ file[f] = Append(Body(f), Torn))
    BY <2>1 DEF LinesOf, Chained
  <2>3. {r \in Members(file[f]) : r # Torn} = Members(Body(f)) /\ Live(f) = {r.id : r \in Members(Body(f))}
    BY <2>2, LinesFacts DEF Live
  <2>4. Rows(f) = {r \in Members(Body(f)) : ~(CutBegun /\ r.id \in moved[f])}
    <3>1. Rows(f) = {r \in Members(file[f]) : r # Torn /\ ~(CutBegun /\ r.id \in moved[f])}
      BY DEF Rows, Members
    <3> QED
      BY <2>3, <3>1
  <2>5. RowIds(f) = {i \in Live(f) : ~(CutBegun /\ i \in moved[f])}
    BY <2>3, <2>4 DEF RowIds
  <2> QED
    BY <2>3, <2>4, <2>5
<1> QED
  BY <1>1, <1>2 DEF RowsSound

LEMMA SteadyAt ==
  LedgerInv /\ damaged = {} /\ pc \in Serving \cup {"unmark", "load", "repair", "audit", "finish"} => Steady
<1> SUFFICES ASSUME LedgerInv, damaged = {}, pc \in Serving \cup {"unmark", "load", "repair", "audit", "finish"},
                    CutBegun
             PROVE  \A f \in Files : CutOf(f)
  BY DEF Steady
<1>1. marker = "named" /\ \E f \in Files : moved[f] # {} /\ CutOf(f)
  BY RowsAre DEF RowsSound
<1>2. Good = Files
  BY DEF Good
<1>3. (\A f \in Files : Uncut(f)) \/ (\A f \in Files : CutOf(f))
  BY <1>1, <1>2 DEF LedgerInv, CutMarked
<1> QED
  BY <1>1, <1>3 DEF CutOf, Uncut

LEMMA SteadyRows ==
  ASSUME RowsSound, Steady, NEW f \in Files
  PROVE  Rows(f) = Members(Body(f)) /\ RowIds(f) = Live(f)
<1>1. CutBegun => \A i \in Live(f) : i \notin moved[f]
  BY DEF Steady, CutOf
<1>2. RowIds(f) = Live(f)
  BY <1>1 DEF RowsSound
<1>3. Rows(f) = Members(Body(f))
  <2>1. CASE ~CutBegun
    BY <2>1 DEF RowsSound
  <2>2. CASE CutBegun
    <3>1. \A r \in Members(Body(f)) : r.id \notin moved[f]
      BY <1>1, <2>2 DEF RowsSound
    <3> QED
      BY <3>1 DEF RowsSound
  <2> QED
    BY <2>1, <2>2
<1> QED
  BY <1>2, <1>3

RowsAreRecords == \A f \in Files : Rows(f) = Members(Body(f)) /\ RowIds(f) = Live(f)

LEMMA RecordsWhenSteady ==
  RowsSound /\ Steady => RowsAreRecords
  BY SteadyRows DEF RowsAreRecords

(* A step that leaves records, archives and marker as they are.             *)
LEMMA MapsToStutter ==
  ASSUME RowsSound, RowsSound', UNCHANGED <<clock, archived, marker, moved>>,
         \A f \in Files : Members(Body(f))' = Members(Body(f)) /\ Live(f)' = Live(f)
  PROVE  UNCHANGED Sqlite!vars
<1>1. \A f \in Files : CutOf(f)' <=> CutOf(f)
  BY DEF CutOf
<1>2. CutBegun' <=> CutBegun
  BY <1>1 DEF RowsSound
<1>3. \A f \in Files : Rows(f)' = Rows(f) /\ RowIds(f)' = RowIds(f)
  BY <1>2 DEF RowsSound
<1>4. [f \in Files |-> Rows(f)]' = [f \in Files |-> Rows(f)]
  BY <1>3
<1>5. [f \in Files |-> archived[f] \ RowIds(f)]' = [f \in Files |-> archived[f] \ RowIds(f)]
  BY <1>3
<1> QED
  BY <1>4, <1>5 DEF Sqlite!vars, RowIds

(* A step of a rotation or of a recovery in which tables and files agree.   *)
LEMMA MapsToSteadyStutter ==
  ASSUME RowsSound, RowsSound', Steady, Steady', clock' = clock,
         \A f \in Files : /\ Members(Body(f))' = Members(Body(f)) /\ Live(f)' = Live(f)
                          /\ archived[f] \subseteq archived'[f] /\ archived'[f] \subseteq archived[f] \cup Live(f)
  PROVE  UNCHANGED Sqlite!vars
<1>1. \A f \in Files : Rows(f) = Members(Body(f)) /\ RowIds(f) = Live(f)
  BY SteadyRows
<1>2. \A f \in Files : Rows(f)' = Members(Body(f))' /\ RowIds(f)' = Live(f)'
  <2>1. RowsAreRecords'
    BY RecordsWhenSteady, PTL
  <2> QED
    BY <2>1 DEF RowsAreRecords
<1>4. [f \in Files |-> Rows(f)]' = [f \in Files |-> Rows(f)]
  BY <1>1, <1>2
<1>5. [f \in Files |-> archived[f] \ RowIds(f)]' = [f \in Files |-> archived[f] \ RowIds(f)]
  BY <1>1, <1>2
<1> QED
  BY <1>4, <1>5 DEF Sqlite!vars, RowIds

(* A record written to a file is one row of its table, behind its last one. *)
LEMMA MapsToAppend ==
  ASSUME LedgerInv, RowsSound, RowsSound', Steady, damaged = {}, NEW f \in Files, mem[f] = Body(f),
         clock' = clock + 1, UNCHANGED <<archived, marker, moved>>,
         Members(Body(f))' = Members(Body(f)) \cup {Stamp(f)}, Live(f)' = Live(f) \cup {clock + 1},
         \A g \in Files : g # f => Members(Body(g))' = Members(Body(g)) /\ Live(g)' = Live(g)
  PROVE  Sqlite!append(f)
<1>0. f \in Good /\ clock \in Nat
  BY DEF Good, LedgerInv, TypeOK
<1>1. \A g \in Files : Rows(g) = Members(Body(g)) /\ RowIds(g) = Live(g)
  BY SteadyRows
<1>n. \A g \in Files : clock + 1 \notin archived[g] /\ (marker = "named" => clock + 1 \notin moved[g])
  <2>1. \A g \in Files : archived[g] \subseteq 1..clock /\ (marker = "named" => moved[g] \subseteq archived[g])
    BY DEF LedgerInv, ArchiveOf, KeptOf, Good
  <2>2. clock + 1 \notin 1..clock
    BY <1>0
  <2> QED
    BY <2>1, <2>2
<1>s. Steady'
  <2> SUFFICES ASSUME CutBegun' PROVE \A g \in Files : CutOf(g)'
    BY DEF Steady
  <2>1. PICK g \in Files : moved[g] # {} /\ CutOf(g)' /\ marker = "named"
    BY DEF RowsSound
  <2>2. CutOf(g)
    BY <2>1 DEF CutOf
  <2>3. \A h \in Files : CutOf(h)
    BY <2>1, <2>2 DEF RowsSound, Steady
  <2> QED
    BY <1>n, <2>1, <2>3 DEF CutOf
<1>2. \A g \in Files : Rows(g)' = Members(Body(g))' /\ RowIds(g)' = Live(g)'
  <2>1. RowsAreRecords'
    BY <1>s, RecordsWhenSteady, PTL
  <2> QED
    BY <2>1 DEF RowsAreRecords
<1>3. [g \in Files |-> Rows(g)]' = [[g \in Files |-> Rows(g)] EXCEPT ![f] = @ \cup {Stamp(f)}]
  BY <1>1, <1>2
<1>4. [g \in Files |-> archived[g] \ RowIds(g)]' = [g \in Files |-> archived[g] \ RowIds(g)]
  BY <1>1, <1>2, <1>n
<1>5. \E prev \in Sqlite!Ids(f) \cup {0} : Sqlite!IsTail(f, prev) /\ Stamp(f) = [id |-> clock + 1, prev |-> prev]
  <2> DEFINE s == Body(f)
  <2>1. s \in Seq(Record) /\ Chained(s, clock) /\ Len(s) \in Nat /\ DOMAIN s = 1..Len(s)
    BY <1>0, LiveFacts DEF LedgerInv, LinesOf
  <2>2. [g \in Files |-> Rows(g)][f] = Members(s)
    BY <1>1
  <2>3. Sqlite!Ids(f) = {r.id : r \in Members(s)}
    BY <2>2 DEF Sqlite!Ids
  <2>4. CASE s = <<>>
    <3>1. Members(s) = {}
      BY <2>4 DEF Members
    <3> QED
      BY <2>2, <2>4, <3>1 DEF Sqlite!IsTail, Stamp
  <2>5. CASE s # <<>>
    <3> DEFINE last == s[Len(s)]
    <3>1. Len(s) \in DOMAIN s /\ last \in Members(s)
      BY <2>1, <2>5 DEF Members
    <3>2. \A i \in DOMAIN s : s[i].id <= last.id
      <4>1. ASSUME NEW i \in DOMAIN s PROVE s[i].id <= last.id
        <5>1. i < Len(s) \/ i = Len(s)
          BY <2>1
        <5>2. s[i].id \in Nat /\ last.id \in Nat
          BY <2>1, <3>1, RecordFacts
        <5>3. i < Len(s) => s[i].id < last.id
          BY <2>1, <3>1 DEF Chained
        <5> HIDE DEF last
        <5> QED
          BY <5>1, <5>2, <5>3 DEF last
      <4> QED
        BY <4>1
    <3>3. Sqlite!IsTail(f, last.id)
      <4>1. Members(s) # {}
        BY <3>1
      <4>2. \A j \in {r.id : r \in Members(s)} : j <= last.id
        BY <3>2 DEF Members
      <4> HIDE DEF last, s
      <4> QED
        BY <2>2, <2>3, <3>1, <4>1, <4>2 DEF Sqlite!IsTail
    <3>4. Stamp(f) = [id |-> clock + 1, prev |-> last.id]
      BY <2>5 DEF Stamp
    <3> QED
      BY <2>3, <3>1, <3>3, <3>4
  <2> QED
    BY <2>4, <2>5
<1> QED
  BY <1>3, <1>4, <1>5 DEF Sqlite!append, RowIds

(* The first file that is cut takes both tables to the boundary; the cut of *)
(* the second one changes nothing any more.                                 *)
LEMMA MapsToRotate ==
  ASSUME LedgerInv, RowsSound, RowsSound', damaged = {}, NEW f \in Files, marker = "named",
         UNCHANGED <<clock, archived, marker, moved>>,
         Members(Body(f))' = {r \in Members(Body(f)) : r.id \notin moved[f]}, Live(f)' = Live(f) \ moved[f],
         \A g \in Files : g # f => Members(Body(g))' = Members(Body(g)) /\ Live(g)' = Live(g)
  PROVE  Sqlite!Next \/ UNCHANGED Sqlite!vars
<1>1. CASE moved[f] \cap Live(f) = {}
  <2>1. \A r \in Members(Body(f)) : r.id \notin moved[f]
    BY <1>1 DEF RowsSound
  <2>2. Members(Body(f))' = Members(Body(f)) /\ Live(f)' = Live(f)
    BY <1>1, <2>1
  <2>3. UNCHANGED Sqlite!vars
    BY <2>2, MapsToStutter
  <2> QED
    BY <2>3
<1>2. CASE moved[f] \cap Live(f) # {}
  <2>1. CutBegun'
    <3>1. CutOf(f)' /\ moved'[f] # {} /\ marker' = "named"
      BY <1>2 DEF CutOf
    <3> QED
      BY <3>1 DEF RowsSound
  <2>2. \A g \in Files : /\ Rows(g)' = {r \in Members(Body(g)) : r.id \notin moved[g]}
                         /\ RowIds(g)' = Live(g) \ moved[g]
    <3>1. \A g \in Files : /\ Rows(g)' = {r \in Members(Body(g))' : r.id \notin moved[g]}
                           /\ RowIds(g)' = Live(g)' \ moved[g]
      BY <2>1 DEF RowsSound
    <3> QED
      BY <3>1
  <2>3. CASE CutBegun
    <3>0. \A g \in Files : /\ Rows(g) = {r \in Members(Body(g)) : r.id \notin moved[g]}
                           /\ RowIds(g) = Live(g) \ moved[g]
      BY <2>3 DEF RowsSound
    <3>1. \A g \in Files : Rows(g)' = Rows(g) /\ RowIds(g)' = RowIds(g)
      BY <2>2, <3>0
    <3>2. [g \in Files |-> Rows(g)]' = [g \in Files |-> Rows(g)]
      BY <3>1
    <3>3. [g \in Files |-> archived[g] \ RowIds(g)]' = [g \in Files |-> archived[g] \ RowIds(g)]
      BY <3>1
    <3> QED
      BY <3>2, <3>3 DEF Sqlite!vars, RowIds
  <2>4. CASE ~CutBegun
    <3>1. \A g \in Files : Rows(g) = Members(Body(g)) /\ RowIds(g) = Live(g)
      BY <2>4 DEF RowsSound
    <3>2. PICK b \in 1..clock + 1 : \A g \in Files : /\ \A i \in moved[g] : i < b
                                                    /\ \A i \in Live(g) : i < b => i \in moved[g]
      BY DEF LedgerInv, BoundaryMarked, Good
    <3>3. \A g \in Files : Sqlite!Ids(g) = Live(g) /\ Sqlite!Older(g, b) = Live(g) \cap moved[g]
      <4>1. \A g \in Files : [h \in Files |-> Rows(h)][g] = Rows(g)
        OBVIOUS
      <4>2. \A g \in Files : Sqlite!Ids(g) = RowIds(g)
        BY <4>1 DEF Sqlite!Ids, RowIds
      <4> QED
        BY <3>1, <3>2, <4>2 DEF Sqlite!Older
    <3>4. Sqlite!Older(f, b) # {}
      BY <1>2, <3>3
    <3>5. [g \in Files |-> archived[g] \ RowIds(g)]'
            = [g \in Sqlite!Tables |-> [h \in Files |-> archived[h] \ RowIds(h)][g] \cup Sqlite!Older(g, b)]
      <4>1. \A g \in Files : moved[g] \subseteq archived[g]
        BY DEF LedgerInv, ArchiveOf, KeptOf, Good
      <4>2. \A g \in Files : archived[g] \ RowIds(g)' = (archived[g] \ RowIds(g)) \cup Sqlite!Older(g, b)
        BY <2>2, <3>1, <3>3, <4>1
      <4> QED
        BY <4>2 DEF Sqlite!Tables, Files
    <3>6. [g \in Files |-> Rows(g)]' = [g \in Sqlite!Tables |-> {r \in [h \in Files |-> Rows(h)][g] : r.id >= b}]
      <4>1. ASSUME NEW g \in Files PROVE Rows(g)' = {r \in Rows(g) : r.id >= b}
        <5>1. \A r \in Members(Body(g)) : r.id \in Live(g) /\ r.id \in Nat
          BY LiveFacts DEF Good
        <5>2. b \in Nat
          BY DEF LedgerInv, TypeOK
        <5>3. \A r \in Members(Body(g)) : r.id \notin moved[g] <=> r.id >= b
          BY <3>2, <5>1, <5>2
        <5> QED
          BY <2>2, <3>1, <5>3
      <4> QED
        BY <4>1 DEF Sqlite!Tables, Files
    <3>7. Sqlite!rotate(b)
      BY <3>4, <3>5, <3>6 DEF Sqlite!rotate, Sqlite!Tables, Files, RowIds
    <3> QED
      BY <3>2, <3>7 DEF Sqlite!Next
  <2> QED
    BY <2>3, <2>4
<1> QED
  BY <1>1, <1>2

LEMMA DamageStays ==
  ASSUME [Next]_vars
  PROVE  damaged \subseteq damaged'
<1> USE DEF Damage
<1>1. ASSUME NEW f \in Files, AppendRecord(f) \/ AppendThrows(f) \/ CrashInAppend(f) PROVE damaged \subseteq damaged'
  BY <1>1 DEF AppendRecord, AppendThrows, CrashInAppend, WriteLine
<1>2. ASSUME Crash \/ CrashInMarker \/ Open \/ ClearAfterRecovery \/ Load \/ LoadCorrupt PROVE damaged \subseteq damaged'
  BY <1>2 DEF Crash, CrashInMarker, Open, ClearAfterRecovery, Load, LoadCorrupt
<1>3. ASSUME NEW f, NEW here, NEW there, DedupStep(f, here, there) \/ WriteArchive(f, here, there) \/ Swap(f, here, there)
      PROVE  damaged \subseteq damaged'
  BY <1>3 DEF DedupStep, Dedup, WriteArchive, Swap
<1>4. ASSUME RepairTail \/ RepairThrows \/ Audit PROVE damaged \subseteq damaged'
  BY <1>4 DEF RepairTail, RepairThrows, Audit, WriteLine
<1>5. ASSUME NEW b, Rotate(b) PROVE damaged \subseteq damaged'
  BY <1>5 DEF Rotate
<1>6. ASSUME WriteMarker \/ RotateThrows \/ FinishRotate PROVE damaged \subseteq damaged'
  BY <1>6 DEF WriteMarker, RotateThrows, FinishRotate
<1>7. CASE UNCHANGED vars
  BY <1>7 DEF vars
<1> QED
  BY <1>1, <1>2, <1>3, <1>4, <1>5, <1>6, <1>7 DEF Next

(* A file that is not written keeps its records.                            *)
LEMMA FileSame ==
  ASSUME NEW g, file'[g] = file[g]
  PROVE  Members(Body(g))' = Members(Body(g)) /\ Live(g)' = Live(g)
  BY DEF Members, Body, Live

LEMMA SameFiles ==
  ASSUME file' = file
  PROVE  \A g \in Files : Members(Body(g))' = Members(Body(g)) /\ Live(g)' = Live(g)
  BY FileSame

(***************************************************************************)
(* The steps, one by one.                                                   *)
(***************************************************************************)
(* No file is damaged, and what that gives of each.                         *)
Undamaged ==
  /\ LedgerInv /\ damaged = {} /\ RowsSound
  /\ \A f \in Files : f \in Good /\ LinesOf(f) /\ MemoryOf(f) /\ clock \in Nat

LEMMA UndamagedFacts ==
  LedgerInv /\ damaged = {} => Undamaged
<1>1. LedgerInv /\ damaged = {} => \A f \in Files : f \in Good /\ LinesOf(f) /\ MemoryOf(f) /\ clock \in Nat
  BY DEF LedgerInv, TypeOK, Good
<1> QED
  BY <1>1, RowsAre DEF Undamaged

(* A record written to the end.                                             *)
LEMMA WriteMaps ==
  ASSUME Undamaged, Undamaged', NEW f \in Files, pc \in {Up, "audit"}, pc = "audit" => f = "events",
         Mint, WriteLine(f, Stamp(f)), cut' = cut \ {f}, UNCHANGED <<archived, marker, moved>>
  PROVE  Sqlite!append(f)
<1>1. f \notin damaged' /\ LedgerInv /\ damaged = {} /\ RowsSound /\ RowsSound' /\ clock' = clock + 1
  BY DEF Undamaged, Mint
<1>2. /\ Members(Body(f))' = Members(Body(f)) \cup {Stamp(f)} /\ Live(f)' = Live(f) \cup {clock + 1}
      /\ mem[f] = Body(f)
  BY <1>1, RecordWritten, LineWritten
<1>3. \A g \in Files : g # f => Members(Body(g))' = Members(Body(g)) /\ Live(g)' = Live(g)
  <2>1. \A g \in Files : g # f => file'[g] = file[g]
    BY <1>1 DEF WriteLine, LedgerInv, TypeOK
  <2> QED
    BY <2>1, FileSame
<1>4. Steady
  BY <1>1, SteadyAt DEF Serving, Up
<1> QED
  BY <1>1, <1>2, <1>3, <1>4, MapsToAppend

(* An append, also one that the process does not survive.                   *)
LEMMA AppendMaps ==
  ASSUME Undamaged, Undamaged', NEW f \in Files, AppendRecord(f) \/ AppendThrows(f) \/ CrashInAppend(f)
  PROVE  Sqlite!append(f) \/ UNCHANGED Sqlite!vars
<1>1. f \notin damaged' /\ LedgerInv /\ RowsSound /\ RowsSound'
  BY DEF Undamaged
<1>2. CASE AppendRecord(f)
  BY <1>2, WriteMaps DEF AppendRecord, Up
<1>3. CASE AppendThrows(f)
  BY <1>1, <1>3 DEF AppendThrows, Damage
<1>4. CASE CrashInAppend(f)
  <2>1. pc \in {Up, "audit"} /\ (pc = "audit" => f = "events") /\ UNCHANGED <<archived, marker, moved>>
    BY <1>4 DEF CrashInAppend
  <2>2. CASE Mint /\ WriteLine(f, Stamp(f)) /\ cut' = cut \ {f}
    BY <2>1, <2>2, WriteMaps
  <2>3. CASE WriteLine(f, Torn) /\ cut' = cut \cup {f} /\ UNCHANGED clock
    <3>1. Body(f)' = Body(f) /\ Live(f)' = Live(f)
      BY <1>1, <2>1, <2>3, TornWritten
    <3>2. \A g \in Files : g # f => file'[g] = file[g]
      BY <1>1, <2>3 DEF WriteLine, LedgerInv, TypeOK
    <3>3. \A g \in Files : Members(Body(g))' = Members(Body(g)) /\ Live(g)' = Live(g)
      BY <3>1, <3>2, FileSame DEF Members
    <3> QED
      BY <1>1, <2>1, <2>3, <3>3, MapsToStutter
  <2> QED
    BY <1>1, <1>4, <2>2, <2>3 DEF CrashInAppend, Damage
<1> QED
  BY <1>2, <1>3, <1>4

(* Steps that touch no file of the ledger.                                  *)
LEMMA QuietMaps ==
  ASSUME Undamaged, Undamaged',
         Crash \/ Open \/ Load \/ LoadCorrupt \/ RepairThrows \/ \E b \in 2..clock + 1 : Rotate(b)
  PROVE  UNCHANGED Sqlite!vars
<1>1. UNCHANGED <<clock, disk>>
  BY DEF Crash, Open, Load, LoadCorrupt, RepairThrows, Rotate
<1>2. \A g \in Files : Members(Body(g))' = Members(Body(g)) /\ Live(g)' = Live(g)
  BY <1>1, SameFiles DEF disk
<1> QED
  BY <1>1, <1>2, MapsToStutter DEF Undamaged, disk

(* Steps of the marker and of the archives, with the tables as the files.   *)
LEMMA MarkerMaps ==
  ASSUME Undamaged, Undamaged',
         CrashInMarker \/ ClearAfterRecovery \/ WriteMarker \/ RotateThrows \/ FinishRotate
  PROVE  UNCHANGED Sqlite!vars
<1>1. UNCHANGED <<clock, file, archived>>
  BY DEF CrashInMarker, ClearAfterRecovery, WriteMarker, RotateThrows, FinishRotate
<1>2. pc \in Serving \cup {"unmark", "finish"}
  <2>1. ~(pc = "swapReceipts" /\ RotateThrows)
    BY DEF Undamaged, RotateThrows, Damage, Files
  <2> QED
    BY <2>1 DEF CrashInMarker, ClearAfterRecovery, WriteMarker, RotateThrows, FinishRotate, Serving
<1>3. pc' \in Serving \cup {"load"} \/ marker' # "named"
  BY DEF CrashInMarker, ClearAfterRecovery, WriteMarker, RotateThrows, FinishRotate, Serving, Goto, Return, Up
<1>4. Steady
  BY <1>2, SteadyAt DEF Undamaged
<1>5. Steady'
  <2>1. CASE pc' \in Serving \cup {"load"}
    <3>1. (pc \in Serving \cup {"unmark", "load", "repair", "audit", "finish"})'
      BY <2>1 DEF Serving
    <3>2. LedgerInv' /\ (damaged = {})'
      BY DEF Undamaged
    <3> QED
      BY <3>1, <3>2, SteadyAt, PTL
  <2>2. CASE marker' # "named"
    BY <2>2 DEF Undamaged, RowsSound, Steady
  <2> QED
    BY <1>3, <2>1, <2>2
<1>6. \A g \in Files : Members(Body(g))' = Members(Body(g)) /\ Live(g)' = Live(g)
  BY <1>1, SameFiles
<1> QED
  BY <1>1, <1>4, <1>5, <1>6, MapsToSteadyStutter DEF Undamaged

LEMMA ArchiveMaps ==
  ASSUME Undamaged, Undamaged', NEW f \in Files, NEW here \in Serving, NEW there \in Serving,
         WriteArchive(f, here, there)
  PROVE  UNCHANGED Sqlite!vars
<1>1. /\ UNCHANGED <<clock, file>> /\ pc = here /\ pc' \in Serving
      /\ archived' \in {archived, [archived EXCEPT ![f] = archived[f] \cup Older(f, boundary)]}
  BY DEF WriteArchive, Goto, Return, Serving, Up
<1>2. Steady
  BY <1>1, SteadyAt DEF Undamaged
<1>3. Steady'
  <2>1. (pc \in Serving \cup {"unmark", "load", "repair", "audit", "finish"})'
    BY <1>1 DEF Serving
  <2>2. LedgerInv' /\ (damaged = {})'
    BY DEF Undamaged
  <2> QED
    BY <2>1, <2>2, SteadyAt, PTL
<1>4. \A g \in Files : Members(Body(g))' = Members(Body(g)) /\ Live(g)' = Live(g)
  BY <1>1, SameFiles
<1>5. \A g \in Files : archived[g] \subseteq archived'[g] /\ archived'[g] \subseteq archived[g] \cup Live(g)
  <2>1. mem[f] = Body(f)
    BY <1>1 DEF Undamaged, MemoryOf, Serving, Loading, Swapped
  <2>2. Older(f, boundary) \subseteq Live(f)
    BY <2>1, HeldOlder DEF Undamaged
  <2> QED
    BY <1>1, <2>2 DEF Undamaged, LedgerInv, TypeOK
<1> QED
  BY <1>1, <1>2, <1>3, <1>4, <1>5, MapsToSteadyStutter DEF Undamaged

LEMMA RepairMaps ==
  ASSUME Undamaged, Undamaged', RepairTail
  PROVE  UNCHANGED Sqlite!vars
<1>1. /\ UNCHANGED <<clock, archived, marker, moved>> /\ pc = "repair" /\ NextTail \in Files
      /\ file' = [file EXCEPT ![NextTail] = mem[NextTail]]
  BY DEF RepairTail, NextTail, Files
<1>2. \A g \in Files : Body(g) \in Seq(Record) /\ mem[g] = Body(g) /\ file \in [Files -> Seq(Line)]
                       /\ Live(g) = {r.id : r \in Members(Body(g))}
  BY <1>1, LiveFacts DEF Undamaged, MemoryOf, Loading, Swapped, LedgerInv, TypeOK
<1>3. \A g \in Files : g # NextTail => file'[g] = file[g]
  BY <1>1, <1>2
<1>4. file'[NextTail] = Body(NextTail)
  BY <1>1, <1>2
<1>5. Body(NextTail)' = Body(NextTail) /\ Live(NextTail)' = Live(NextTail)
  <2> DEFINE s == Body(NextTail)
  <2>1. s \in Seq(Record) /\ Live(NextTail) = {r.id : r \in Members(s)} /\ file'[NextTail] = s
    BY <1>1, <1>2, <1>4
  <2>2. Whole(s) = s /\ IdsOf(s) = {r.id : r \in Members(s)}
    <3> HIDE DEF s
    <3> QED
      BY <2>1, LinesFacts
  <2>3. Whole(file'[NextTail]) = s /\ IdsOf(file'[NextTail]) = Live(NextTail)
    BY <2>1, <2>2
  <2>4. NextTail' = NextTail
    BY DEF RepairTail, NextTail
  <2> QED
    BY <2>3, <2>4 DEF Body, Live
<1>6. \A g \in Files : Members(Body(g))' = Members(Body(g)) /\ Live(g)' = Live(g)
  <2>1. NextTail' = NextTail
    BY DEF RepairTail, NextTail
  <2>2. Members(Body(NextTail))' = Members(Body(NextTail))
    BY <1>5 DEF Members
  <2> QED
    BY <1>3, <1>5, <2>1, <2>2, FileSame
<1> QED
  BY <1>1, <1>6, MapsToStutter DEF Undamaged

LEMMA AuditMaps ==
  ASSUME Undamaged, Undamaged', Audit
  PROVE  Sqlite!append("events")
<1>1. "events" \in Files /\ "events" \notin damaged'
  BY DEF Undamaged, Files
<1>2. WriteLine("events", Stamp("events")) /\ cut' = cut \ {"events"}
  BY <1>1 DEF Audit, Damage
<1> QED
  BY <1>1, <1>2, WriteMaps DEF Audit

(* The renames of rotate, and the dedup that does them over.                *)
LEMMA CutMaps ==
  ASSUME Undamaged, Undamaged', NEW f \in Files, NEW here, NEW there,
         \/ DedupStep(f, here, there) /\ here \in {"dedupEvents", "dedupReceipts"}
         \/ Swap(f, here, there) /\ f = "events" /\ here = "swapEvents"
         \/ Swap(f, here, there) /\ f = "receipts" /\ here = "swapReceipts"
  PROVE  Sqlite!Next \/ UNCHANGED Sqlite!vars
<1>1. /\ UNCHANGED <<clock, archived, marker, moved>> /\ marker = "named" /\ pc = here /\ f \in Good
      /\ clock \in Nat /\ file \in [Files -> Seq(Line)] /\ f \notin damaged' /\ LedgerInv
      /\ Body(f) \in Seq(Record) /\ (file[f] = Body(f) \/ file[f] = Append(Body(f), Torn))
  <2>1. UNCHANGED <<clock, archived, marker, moved>> /\ pc = here /\ here \in {"dedupEvents", "dedupReceipts"} \cup Cutting
    BY DEF DedupStep, Swap, Cutting
  <2>2. LedgerInv /\ f \in Good /\ LinesOf(f) /\ f \notin damaged'
    BY DEF Undamaged
  <2> QED
    BY <2>1, <2>2, LiveFacts DEF LedgerInv, PlacesSound, TypeOK, LinesOf
<1>2. \A g \in Files : g # f => Members(Body(g))' = Members(Body(g)) /\ Live(g)' = Live(g)
  <2>1. \/ file' = file
        \/ file' = [file EXCEPT ![f] = Except(file[f], moved[f])]
        \/ file' = [file EXCEPT ![f] = <<>>]
        \/ file' = [file EXCEPT ![f] = Except(mem[f], Older(f, boundary))]
    BY DEF DedupStep, Dedup, Swap
  <2>2. \A g \in Files : g # f => file'[g] = file[g]
    BY <1>1, <2>1
  <2> QED
    BY <2>2, FileSame
<1>3. PICK b \in 1..clock + 1 : \A i \in Live(f) : i \in moved[f] <=> i < b
  <2>1. PICK b \in 1..clock + 1 : /\ \A i \in moved[f] : i < b
                                  /\ \A i \in Live(f) : i < b => i \in moved[f]
    BY <1>1 DEF LedgerInv, BoundaryMarked
  <2> QED
    BY <2>1
<1>4. b \in Nat
  BY <1>1
<1>5. CASE /\ file' = [file EXCEPT ![f] = Except(Body(f), moved[f])] /\ cut' = cut \ {f}
  <2>1. file'[f] = Except(Body(f), moved[f]) /\ f \notin cut'
    BY <1>1, <1>5
  <2>2. /\ Members(Body(f))' = {r \in Members(Body(f)) : r.id \notin moved[f]}
        /\ Live(f)' = Live(f) \ moved[f]
    BY <1>1, <1>3, <1>4, <2>1, FileCut
  <2> QED
    BY <1>1, <1>2, <2>2, MapsToRotate DEF Undamaged
<1>6. CASE file' = file
  <2>1. UNCHANGED Sqlite!vars
    BY <1>1, <1>6, SameFiles, MapsToStutter DEF Undamaged
  <2> QED
    BY <2>1
<1>7. CASE DedupStep(f, here, there)
  <2>1. Except(file[f], moved[f]) = Except(Body(f), moved[f])
    BY <1>1, LinesFacts
  <2> QED
    BY <1>1, <1>5, <1>6, <1>7, <2>1 DEF DedupStep, Dedup, Damage
<1>8. CASE \/ Swap(f, here, there) /\ f = "events" /\ here = "swapEvents"
           \/ Swap(f, here, there) /\ f = "receipts" /\ here = "swapReceipts"
  <2>1. mem[f] = Body(f) /\ moved[f] = Older(f, boundary)
    BY <1>1, <1>8 DEF LedgerInv, MemoryOf, ArchiveOf, Loading, Cutting, Swapped
  <2> QED
    BY <1>5, <1>8, <2>1 DEF Swap
<1> QED
  BY <1>7, <1>8

LEMMA StepMaps ==
  ASSUME Undamaged, Undamaged', [Next]_vars
  PROVE  Sqlite!Next \/ UNCHANGED Sqlite!vars
<1> Files = Sqlite!Tables /\ "events" \in Files /\ "receipts" \in Files
  BY DEF Files, Sqlite!Tables
<1>1. ASSUME NEW f \in Files, Sqlite!append(f) PROVE Sqlite!Next
  BY <1>1 DEF Sqlite!Next
<1>2. ASSUME NEW f \in Files, AppendRecord(f) \/ AppendThrows(f) \/ CrashInAppend(f)
      PROVE  Sqlite!Next \/ UNCHANGED Sqlite!vars
  BY <1>1, <1>2, AppendMaps
<1>3. CASE Crash \/ Open \/ Load \/ LoadCorrupt \/ RepairThrows \/ \E b \in 2..clock + 1 : Rotate(b)
  BY <1>3, QuietMaps
<1>4. CASE CrashInMarker \/ ClearAfterRecovery \/ WriteMarker \/ RotateThrows \/ FinishRotate
  BY <1>4, MarkerMaps
<1>5. CASE DedupStep("events", "dedupEvents", "dedupReceipts") \/ DedupStep("receipts", "dedupReceipts", "unmark")
  BY <1>5, CutMaps
<1>6. CASE Swap("events", "swapEvents", "swapReceipts") \/ Swap("receipts", "swapReceipts", "finish")
  BY <1>6, CutMaps
<1>7. CASE \/ WriteArchive("events", "archiveEvents", "archiveReceipts")
           \/ WriteArchive("receipts", "archiveReceipts", "mark")
  BY <1>7, ArchiveMaps DEF Serving
<1>8. CASE RepairTail
  BY <1>8, RepairMaps
<1>9. CASE Audit
  BY <1>1, <1>9, AuditMaps
<1>10. CASE UNCHANGED vars
  <2>1. UNCHANGED <<clock, file, archived, marker, moved>>
    BY <1>10 DEF vars, disk
  <2> QED
    BY <2>1, SameFiles, MapsToStutter DEF Undamaged
<1> QED
  BY <1>2, <1>3, <1>4, <1>5, <1>6, <1>7, <1>8, <1>9, <1>10 DEF Next

LEMMA InitMaps ==
  ASSUME Init
  PROVE  Sqlite!Init
<1>1. ~CutBegun
  BY DEF Init, CutBegun
<1>2. array \in SUBSET Sqlite!Tables
  BY LedgerAssumption DEF Init, Sqlite!Tables, Files
<1>3. [f \in Files |-> Rows(f)]
        = [t \in Sqlite!Tables |-> IF t \in array THEN {[id |-> 1, prev |-> 0]} ELSE {}]
  <2>1. ASSUME NEW f \in Files PROVE Rows(f) = IF f \in array THEN {[id |-> 1, prev |-> 0]} ELSE {}
    <3>1. CASE f \in array
      <4>1. file[f] = <<[id |-> 1, prev |-> 0]>>
        BY <3>1 DEF Init
      <4>2. {file[f][i] : i \in DOMAIN file[f]} = {[id |-> 1, prev |-> 0]}
        BY <4>1
      <4> QED
        BY <1>1, <3>1, <4>2 DEF Rows, Torn
    <3>2. CASE f \notin array
      <4>1. file[f] = <<>>
        BY <3>2 DEF Init
      <4> QED
        BY <3>2, <4>1 DEF Rows
    <3> QED
      BY <3>1, <3>2
  <2> QED
    BY <2>1 DEF Sqlite!Tables, Files
<1>4. [f \in Files |-> archived[f] \ {r.id : r \in Rows(f)}] = [t \in Sqlite!Tables |-> {}]
  BY DEF Init, Sqlite!Tables, Files
<1>5. clock = IF array = {} THEN 0 ELSE 1
  BY DEF Init
<1> QED
  BY <1>2, <1>3, <1>4, <1>5 DEF Sqlite!Init

(* The marker dance is a transaction of the SQLite store, over crashes and  *)
(* recoveries, as long as no write goes wrong beyond the code's care.       *)
THEOREM LedgerImplementsSqlite == Spec => ImplementsSqlite
<1>1. Init => Sqlite!Init
  BY InitMaps
<1>2. LedgerInv /\ LedgerInv' /\ [Next]_vars => [damaged' = {} => Sqlite!Next]_(Sqlite!vars)
  <2> SUFFICES ASSUME LedgerInv, LedgerInv', [Next]_vars, damaged' = {}
               PROVE  Sqlite!Next \/ UNCHANGED Sqlite!vars
    OBVIOUS
  <2>1. damaged = {}
    BY DamageStays
  <2>2. Undamaged
    BY <2>1, UndamagedFacts
  <2>3. Undamaged'
    <3>1. (damaged = {})'
      OBVIOUS
    <3> QED
      BY <3>1, UndamagedFacts, PTL
  <2> QED
    BY <2>2, <2>3, StepMaps
<1> QED
  BY <1>1, <1>2, LedgerInvariant, PTL DEF Spec, ImplementsSqlite
---------------------------------------------------------------------------
(* The promise of a ledger store, proved of SqliteLedger for any number of  *)
(* records and rotations; what implements it keeps the promise.             *)
VARIABLES ticks, rows, stored

Ledger == INSTANCE SqliteLedger WITH clock <- ticks, table <- rows, archived <- stored

(* The clock is ahead of every row, in its table or archived.               *)
RowsStamped ==
  \A t \in Ledger!Tables :
    /\ \A r \in rows[t] : r.id <= ticks
    /\ \A i \in stored[t] : i <= ticks

LedgerKept == Ledger!TypeOK /\ RowsStamped /\ Ledger!ChainHolds /\ Ledger!RotationIsAtomic

LEMMA LedgerInit == Ledger!Init => LedgerKept
<1> SUFFICES ASSUME Ledger!Init PROVE LedgerKept
  OBVIOUS
<1>1. PICK old \in SUBSET Ledger!Tables :
        /\ ticks    = IF old = {} THEN 0 ELSE 1
        /\ rows     = [t \in Ledger!Tables |-> IF t \in old THEN {[id |-> 1, prev |-> 0]} ELSE {}]
        /\ stored   = [t \in Ledger!Tables |-> {}]
  BY DEF Ledger!Init
<1>2. Ledger!TypeOK
  BY <1>1 DEF Ledger!TypeOK, Ledger!Row
<1>3. RowsStamped
  BY <1>1 DEF RowsStamped
<1>4. Ledger!ChainHolds
  BY <1>1 DEF Ledger!ChainHolds
<1>5. Ledger!RotationIsAtomic
  <2>1. 1 \in 1..ticks + 1
    BY <1>1
  <2>2. \A t \in Ledger!Tables : (\A i \in Ledger!Ids(t) : i >= 1) /\ (\A i \in stored[t] : i < 1)
    BY <1>1 DEF Ledger!Ids
  <2> QED
    BY <2>1, <2>2 DEF Ledger!RotationIsAtomic
<1> QED
  BY <1>2, <1>3, <1>4, <1>5 DEF LedgerKept

(* A new row is above all rows and commits to the last one.                 *)
LEMMA AppendKeepsRows ==
  ASSUME LedgerKept, NEW t \in Ledger!Tables, Ledger!append(t)
  PROVE  LedgerKept'
<1> DEFINE new(p) == [id |-> ticks + 1, prev |-> p]
<1>1. PICK prev \in Ledger!Ids(t) \cup {0} :
        /\ Ledger!IsTail(t, prev)
        /\ rows' = [rows EXCEPT ![t] = @ \cup {new(prev)}]
  BY DEF Ledger!append
<1>2. /\ ticks \in Nat /\ ticks' = ticks + 1 /\ stored' = stored
      /\ \A s \in Ledger!Tables : rows[s] \subseteq Ledger!Row /\ stored[s] \subseteq Nat
      /\ \A s \in Ledger!Tables : \A r \in rows[s] : r.id \in Nat /\ r.prev \in Nat /\ r.id <= ticks
  BY DEF LedgerKept, Ledger!TypeOK, RowsStamped, Ledger!append, Ledger!Row
<1>3. prev \in Nat
  BY <1>2 DEF Ledger!Ids
<1>4. /\ rows'[t] = rows[t] \cup {new(prev)}
      /\ \A s \in Ledger!Tables : s # t => rows'[s] = rows[s]
  BY <1>1 DEF LedgerKept, Ledger!TypeOK
<1>5. Ledger!Ids(t)' = Ledger!Ids(t) \cup {ticks + 1}
  <2>1. Ledger!Ids(t)' = {r.id : r \in rows'[t]}
    BY DEF Ledger!Ids
  <2>2. {r.id : r \in rows[t] \cup {new(prev)}} = {r.id : r \in rows[t]} \cup {new(prev).id}
    OBVIOUS
  <2> QED
    BY <1>4, <2>1, <2>2 DEF Ledger!Ids
<1>6. Ledger!TypeOK'
  <2>1. new(prev) \in Ledger!Row
    BY <1>2, <1>3 DEF Ledger!Row
  <2> QED
    BY <1>1, <1>2, <2>1 DEF LedgerKept, Ledger!TypeOK
<1>7. RowsStamped'
  BY <1>2, <1>4 DEF LedgerKept, Ledger!TypeOK, RowsStamped
<1>8. Ledger!ChainHolds'
  <2> SUFFICES ASSUME NEW s \in Ledger!Tables, NEW r \in rows'[s], NEW q \in rows'[s], q.id < r.id
               PROVE  /\ r.prev \in Ledger!Ids(s)' /\ r.prev < r.id
                      /\ \A i \in Ledger!Ids(s)' : i < r.id => i <= r.prev
    BY DEF Ledger!ChainHolds
  <2>1. CASE s # t
    BY <1>4, <2>1 DEF LedgerKept, Ledger!ChainHolds, Ledger!Ids
  <2>2. CASE s = t /\ r # new(prev)
    <3>1. r \in rows[t] /\ q \in rows[t]
      BY <1>2, <1>4, <2>2
    <3>2. r.prev \in Ledger!Ids(t) /\ r.prev < r.id /\ \A i \in Ledger!Ids(t) : i < r.id => i <= r.prev
      BY <3>1 DEF LedgerKept, Ledger!ChainHolds
    <3>3. Ledger!Ids(t)' = Ledger!Ids(t) \cup {ticks + 1}
      BY <1>5
    <3>4. r.id <= ticks
      BY <1>2, <3>1
    <3> QED
      BY <1>2, <2>2, <3>1, <3>2, <3>3, <3>4
  <2>3. CASE s = t /\ r = new(prev)
    <3>1. q \in rows[t]
      BY <1>2, <1>4, <2>3
    <3>2. prev \in Ledger!Ids(t) /\ \A i \in Ledger!Ids(t) : i <= prev
      BY <1>1, <3>1 DEF Ledger!IsTail
    <3>3. Ledger!Ids(t)' = Ledger!Ids(t) \cup {ticks + 1}
      BY <1>5
    <3>4. \A i \in Ledger!Ids(t) : i \in Nat /\ i <= ticks
      BY <1>2 DEF Ledger!Ids
    <3> QED
      BY <1>2, <2>3, <3>2, <3>3, <3>4
  <2> QED
    BY <2>1, <2>2, <2>3
<1>9. Ledger!RotationIsAtomic'
  <2>1. PICK b \in 1..ticks + 1 : \A s \in Ledger!Tables :
          (\A i \in Ledger!Ids(s) : i >= b) /\ (\A i \in stored[s] : i < b)
    BY DEF LedgerKept, Ledger!RotationIsAtomic
  <2>2. b \in 1..ticks' + 1 /\ b <= ticks + 1
    BY <1>2
  <2>3. \A s \in Ledger!Tables : Ledger!Ids(s)' \subseteq Ledger!Ids(s) \cup {ticks + 1}
    BY <1>4 DEF Ledger!Ids
  <2>4. \A s \in Ledger!Tables : (\A i \in Ledger!Ids(s)' : i >= b) /\ (\A i \in stored'[s] : i < b)
    BY <1>2, <2>1, <2>2, <2>3
  <2> QED
    BY <2>2, <2>4 DEF Ledger!RotationIsAtomic
<1> QED
  BY <1>6, <1>7, <1>8, <1>9 DEF LedgerKept

(* What stays is the rows from the boundary on: the row before one of them  *)
(* that is not the first stays as well.                                     *)
LEMMA RotateKeepsRows ==
  ASSUME LedgerKept, NEW b \in 1..ticks + 1, Ledger!rotate(b)
  PROVE  LedgerKept'
<1>1. /\ ticks \in Nat /\ ticks' = ticks /\ b \in Nat
      /\ \A s \in Ledger!Tables : rows[s] \subseteq Ledger!Row /\ stored[s] \subseteq Nat
      /\ \A s \in Ledger!Tables : \A r \in rows[s] : r.id \in Nat /\ r.prev \in Nat
      /\ \A s \in Ledger!Tables : rows'[s] = {r \in rows[s] : r.id >= b}
      /\ \A s \in Ledger!Tables : stored'[s] = stored[s] \cup Ledger!Older(s, b)
  BY DEF LedgerKept, Ledger!TypeOK, Ledger!rotate, Ledger!Row
<1>2. \A s \in Ledger!Tables : Ledger!Ids(s) \subseteq Nat
  BY <1>1 DEF Ledger!Ids
<1>3. \A s \in Ledger!Tables : Ledger!Ids(s)' = {i \in Ledger!Ids(s) : i >= b}
  BY <1>1, <1>2 DEF Ledger!Ids
<1>4. Ledger!TypeOK'
  BY <1>1, <1>2 DEF LedgerKept, Ledger!TypeOK, Ledger!rotate, Ledger!Older
<1>5. RowsStamped'
  BY <1>1 DEF LedgerKept, RowsStamped, Ledger!Older, Ledger!Ids
<1>6. Ledger!ChainHolds'
  <2> SUFFICES ASSUME NEW s \in Ledger!Tables, NEW r \in rows'[s], NEW q \in rows'[s], q.id < r.id
               PROVE  /\ r.prev \in Ledger!Ids(s)' /\ r.prev < r.id
                      /\ \A i \in Ledger!Ids(s)' : i < r.id => i <= r.prev
    BY DEF Ledger!ChainHolds
  <2>1. r \in rows[s] /\ q \in rows[s] /\ q.id >= b /\ q.id \in Ledger!Ids(s)
    BY <1>1 DEF Ledger!Ids
  <2>2. r.prev \in Ledger!Ids(s) /\ r.prev < r.id /\ \A i \in Ledger!Ids(s) : i < r.id => i <= r.prev
    BY <2>1 DEF LedgerKept, Ledger!ChainHolds
  <2>3. r.prev >= b
    BY <1>1, <1>2, <2>1, <2>2
  <2> QED
    BY <1>3, <2>2, <2>3
<1>7. Ledger!RotationIsAtomic'
  <2>1. PICK c \in 1..ticks + 1 : \A s \in Ledger!Tables :
          (\A i \in Ledger!Ids(s) : i >= c) /\ (\A i \in stored[s] : i < c)
    BY DEF LedgerKept, Ledger!RotationIsAtomic
  <2>2. CASE b >= c
    <3>1. \A s \in Ledger!Tables : (\A i \in Ledger!Ids(s)' : i >= b) /\ (\A i \in stored'[s] : i < b)
      BY <1>1, <1>2, <1>3, <2>1, <2>2 DEF Ledger!Older
    <3> QED
      BY <1>1, <3>1 DEF Ledger!RotationIsAtomic
  <2>3. CASE b < c
    <3>1. \A s \in Ledger!Tables : (\A i \in Ledger!Ids(s)' : i >= c) /\ (\A i \in stored'[s] : i < c)
      BY <1>1, <1>2, <1>3, <2>1, <2>3 DEF Ledger!Older
    <3> QED
      BY <1>1, <3>1 DEF Ledger!RotationIsAtomic
  <2> QED
    BY <1>1, <2>2, <2>3
<1> QED
  BY <1>4, <1>5, <1>6, <1>7 DEF LedgerKept

LEMMA StutterKeepsRows ==
  ASSUME LedgerKept, UNCHANGED Ledger!vars
  PROVE  LedgerKept'
BY DEF LedgerKept, Ledger!TypeOK, RowsStamped, Ledger!ChainHolds, Ledger!RotationIsAtomic, Ledger!Ids, Ledger!vars

(* The promise of a ledger store: the chain of each table holds and both    *)
(* tables are cut at one boundary, after any appends and rotations.         *)
THEOREM LedgerPromise == Ledger!Spec => [](Ledger!ChainHolds /\ Ledger!RotationIsAtomic)
<1>1. LedgerKept /\ [Ledger!Next]_(Ledger!vars) => LedgerKept'
  BY AppendKeepsRows, RotateKeepsRows, StutterKeepsRows DEF Ledger!Next
<1>2. LedgerKept => Ledger!ChainHolds /\ Ledger!RotationIsAtomic
  BY DEF LedgerKept
<1> QED
  BY LedgerInit, <1>1, <1>2, PTL DEF Ledger!Spec

(* No row is changed, and none leaves its table but for the archive.        *)
THEOREM NothingIsLost == Ledger!Spec => Ledger!NothingLost
<1> DEFINE Remains ==
      \A t \in Ledger!Tables :
        /\ stored[t] \subseteq stored'[t]
        /\ \A r \in rows[t] : r \in rows'[t] \/ r.id \in stored'[t]
<1>1. LedgerKept /\ [Ledger!Next]_(Ledger!vars) => LedgerKept'
  BY AppendKeepsRows, RotateKeepsRows, StutterKeepsRows DEF Ledger!Next
<1>2. ASSUME LedgerKept, NEW t \in Ledger!Tables, Ledger!append(t)
      PROVE  Remains
  BY <1>2 DEF Ledger!append, LedgerKept, Ledger!TypeOK
<1>3. ASSUME LedgerKept, NEW b \in 1..ticks + 1, Ledger!rotate(b)
      PROVE  Remains
  <2>1. /\ \A t \in Ledger!Tables : rows'[t] = {r \in rows[t] : r.id >= b}
        /\ \A t \in Ledger!Tables : stored'[t] = stored[t] \cup Ledger!Older(t, b)
    BY <1>3 DEF Ledger!rotate
  <2>2. b \in Nat /\ \A t \in Ledger!Tables : \A r \in rows[t] : r.id \in Nat
    BY <1>3 DEF LedgerKept, Ledger!TypeOK, Ledger!Row
  <2> QED
    BY <2>1, <2>2 DEF Ledger!Older, Ledger!Ids
<1>4. LedgerKept /\ [Ledger!Next]_(Ledger!vars) => [Remains]_(Ledger!vars)
  BY <1>2, <1>3 DEF Ledger!Next
<1> QED
  BY LedgerInit, <1>1, <1>4, PTL DEF Ledger!Spec, Ledger!NothingLost
=============================================================================
