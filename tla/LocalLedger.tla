---------------------------- MODULE LocalLedger ----------------------------
(***************************************************************************)
(* LocalLedgerStore: events.json and receipts.json, one JSON record per     *)
(* line, appended in place; rotate() moves old records into archive files.  *)
(* The methods run to their end without an await, so the only interleaving  *)
(* is with the death of the process: a step is one file operation, and the  *)
(* process may die before and after each, or in the middle of an append.    *)
(*                                                                          *)
(* A record is its id, which is also the time of its stamp, and the id of   *)
(* the record its prevHash commits to, 0 for none.  A line of a file is a   *)
(* record or Torn, bytes that do not parse.                                 *)
(***************************************************************************)
EXTENDS Picking, Sequences

CONSTANTS
  MaxRecord,  \* bound: ids are minted up to this one
  Legacy,     \* files that the whole-array implementation left, one record each
  MaxStarts   \* bound: how often the process is started

Files == {"events", "receipts"}

ASSUME LedgerAssumption ==
  /\ MaxRecord \in Nat \ {0} /\ MaxStarts \in Nat
  /\ Legacy \subseteq Files

VARIABLES
  pc,        \* what the process does; "down", "up", or a step of a method
  starts,    \* how often it was started
  clock,     \* the last id minted
  file,      \* file -> its lines
  cut,       \* files whose last line has no newline
  array,     \* files still in the legacy format
  archived,  \* file -> ids in its archive files
  marker,    \* rotate.inprogress: "none", "malformed", "named"
  moved,     \* file -> ids in the archive file that the marker names
  mem,       \* file -> the records in memory
  boundary,  \* rotate's argument: records with smaller ids are archived
  tails,     \* files whose torn tail the constructor has still to repair
  acked,     \* file -> ids of the appends that returned (ghost)
  damaged    \* files whose writes went wrong beyond the code's care (ghost)

disk == <<file, cut, array, archived, marker, moved>>
vars == <<pc, starts, clock, disk, mem, boundary, tails, acked, damaged>>

Record == [id : 1..MaxRecord, prev : 0..MaxRecord]

Torn == [id |-> 0, prev |-> 0]

Up   == "up"
Dead == {"down", "corrupt"}

IdsOf(lines) == {lines[i].id : i \in DOMAIN lines} \ {0}

(* The filters of a file keep its lines in their order (Pick).              *)
Whole(lines) == Pick(lines, {i \in DOMAIN lines : lines[i] # Torn})

Except(lines, ids) ==
  Pick(lines, {i \in DOMAIN lines : lines[i] # Torn /\ lines[i].id \notin ids})

Older(f, b) == {i \in IdsOf(mem[f]) : i < b}

(* A ledger that is new, or that the earlier implementation wrote.          *)
Init ==
  /\ pc = "down" /\ starts = 0
  /\ array \in SUBSET Legacy
  /\ clock    = IF array = {} THEN 0 ELSE 1
  /\ file     = [f \in Files |-> IF f \in array THEN <<[id |-> 1, prev |-> 0]>> ELSE <<>>]
  /\ cut      = {}
  /\ archived = [f \in Files |-> {}]
  /\ marker   = "none"
  /\ moved    = [f \in Files |-> {}]
  /\ mem      = [f \in Files |-> <<>>]
  /\ boundary = 0
  /\ tails    = {}
  /\ acked    = [f \in Files |-> IdsOf(file[f])]
  /\ damaged  = {}

Goto(where) == pc' = where

Return == Goto(Up) /\ boundary' = 0

Damage(fs) == damaged' = damaged \cup fs

(***************************************************************************)
(* append and appendReceipt: stamp, push, write.                            *)
(***************************************************************************)
Stamp_OneChain(f) ==
  [id |-> clock + 1, prev |-> clock]

(* prevHash comes from the tail in memory; the two files are two chains.    *)
Stamp(f) ==
  [id |-> clock + 1, prev |-> IF mem[f] = <<>> THEN 0 ELSE mem[f][Len(mem[f])].id]

Mint == clock < MaxRecord /\ clock' = clock + 1

(* What appendFileSync makes of the file: a line of its own, or, where the  *)
(* last line has no newline, the rest of that line; behind an array the     *)
(* file is neither an array nor lines.                                      *)
Written(f, line) ==
  IF f \in array THEN <<Torn>>
  ELSE IF f \in cut THEN SubSeq(file[f], 1, Len(file[f]) - 1) \o <<Torn>>
  ELSE Append(file[f], line)

WriteLine(f, line) ==
  /\ file'  = [file EXCEPT ![f] = Written(f, line)]
  /\ array' = array \ {f}
  /\ Damage({f} \cap array)

AppendRecord(f) ==
  /\ pc = Up
  /\ Mint
  /\ WriteLine(f, Stamp(f))
  /\ cut'   = cut \ {f}
  /\ mem'   = [mem EXCEPT ![f] = Append(@, Stamp(f))]
  /\ acked' = [acked EXCEPT ![f] = @ \cup {clock + 1}]
  /\ UNCHANGED <<pc, starts, archived, marker, moved, boundary, tails>>

(* The write throws, with part of the line in the file or none of it: the   *)
(* record stays in memory, where the next one will chain to it.             *)
AppendThrows(f) ==
  /\ pc = Up
  /\ Mint
  /\ \/ UNCHANGED <<file, cut, array>>
     \/ file' = [file EXCEPT ![f] = Written(f, Torn)] /\ cut' = cut \cup {f} /\ array' = array \ {f}
  /\ mem' = [mem EXCEPT ![f] = Append(@, Stamp(f))]
  /\ Damage({f})
  /\ UNCHANGED <<pc, starts, archived, marker, moved, boundary, tails, acked>>

(* The process is killed: memory is gone, the files are as they were.       *)
Die ==
  /\ pc' = "down"
  /\ mem' = [f \in Files |-> <<>>]
  /\ boundary' = 0
  /\ tails' = {}
  /\ UNCHANGED <<starts, acked>>

Crash ==
  /\ pc \notin Dead
  /\ Die
  /\ UNCHANGED <<clock, disk, damaged>>

(* Killed in the middle of an append: the line is there to the newline and  *)
(* only its caller does not know, or it is cut short somewhere, or exactly  *)
(* before its newline, where it parses although the next append will join   *)
(* it.                                                                      *)
CrashInAppend(f) ==
  /\ pc \in {Up, "audit"}
  /\ pc = "audit" => f = "events"
  /\ \/ Mint /\ WriteLine(f, Stamp(f)) /\ cut' = cut \ {f}
     \/ WriteLine(f, Torn) /\ cut' = cut \cup {f} /\ UNCHANGED clock
     \/ /\ Mint
        /\ file'  = [file EXCEPT ![f] = Written(f, Stamp(f))]
        /\ array' = array \ {f}
        /\ cut'   = cut \cup {f}
        /\ Damage({f})
  /\ Die
  /\ UNCHANGED <<archived, marker, moved>>

(***************************************************************************)
(* The constructor: recover a rotation, load, repair torn tails.            *)
(***************************************************************************)
Open ==
  /\ pc = "down"
  /\ starts < MaxStarts /\ starts' = starts + 1
  /\ Goto(IF marker = "named" THEN "dedupEvents" ELSE IF marker = "malformed" THEN "unmark" ELSE "load")
  /\ UNCHANGED <<clock, disk, mem, boundary, tails, acked, damaged>>

(* dedupActiveAgainstArchive drops what is archived and what does not       *)
(* parse.  It reads a legacy file by lines too: of an array on one line     *)
(* nothing is dropped, of one spread over many lines everything.            *)
Dedup(f) ==
  IF moved[f] = {} THEN UNCHANGED <<file, cut, array, damaged>>
  ELSE \/ /\ f \notin array
          /\ file' = [file EXCEPT ![f] = Except(@, moved[f])]
          /\ cut'  = cut \ {f}
          /\ UNCHANGED <<array, damaged>>
       \/ /\ f \in array
          /\ file'  = [file EXCEPT ![f] = <<>>]
          /\ array' = array \ {f}
          /\ Damage({f})
          /\ UNCHANGED cut
       \/ f \in array /\ Damage({f}) /\ UNCHANGED <<file, cut, array>>

DedupStep(f, here, there) ==
  /\ pc = here
  /\ Dedup(f)
  /\ Goto(there)
  /\ UNCHANGED <<starts, clock, archived, marker, moved, mem, boundary, tails, acked>>

(* removeFileBestEffort: the marker may survive.                            *)
RemoveMarker == marker' \in {"none", marker}

ClearAfterRecovery ==
  /\ pc = "unmark"
  /\ RemoveMarker
  /\ Goto("load")
  /\ UNCHANGED <<starts, clock, file, cut, array, archived, moved, mem, boundary, tails, acked, damaged>>

(* loadArray: a bad suffix is a torn tail if a good line precedes it; a bad *)
(* line before a good one, or nothing but bad lines, is a corrupt store.    *)
TornTail(lines) == \E i \in DOMAIN lines : lines[i] = Torn

Corrupt(lines) ==
  /\ TornTail(lines)
  /\ \/ Whole(lines) = <<>>
     \/ \E i, j \in DOMAIN lines : i < j /\ lines[i] = Torn /\ lines[j] # Torn

Load ==
  /\ pc = "load"
  /\ \A f \in Files : ~Corrupt(file[f])
  /\ mem'   = [f \in Files |-> Whole(file[f])]
  /\ tails' = {f \in Files : TornTail(file[f])}
  /\ Goto(IF tails' = {} THEN Up ELSE "repair")
  /\ UNCHANGED <<starts, clock, disk, boundary, acked, damaged>>

LoadCorrupt ==
  /\ pc = "load"
  /\ \E f \in Files : Corrupt(file[f])
  /\ Goto("corrupt")
  /\ UNCHANGED <<starts, clock, disk, mem, boundary, tails, acked, damaged>>

(* recordTailCorruption, file by file: rewrite it from memory, then append  *)
(* an audit event; where the rewrite fails there is no audit event.         *)
NextTail == IF "events" \in tails THEN "events" ELSE "receipts"

AfterTail(rest) == IF rest = {} THEN Up ELSE "repair"

RepairTail_AuditOnly ==
  /\ pc = "repair"
  /\ Goto("audit")
  /\ UNCHANGED <<starts, clock, disk, mem, boundary, tails, acked, damaged>>

RepairTail ==
  /\ pc = "repair"
  /\ file' = [file EXCEPT ![NextTail] = mem[NextTail]]
  /\ cut'  = cut \ {NextTail}
  /\ Goto("audit")
  /\ UNCHANGED <<starts, clock, array, archived, marker, moved, mem, boundary, tails, acked, damaged>>

RepairThrows ==
  /\ pc = "repair"
  /\ tails' = tails \ {NextTail}
  /\ Damage({NextTail})
  /\ Goto(AfterTail(tails'))
  /\ UNCHANGED <<starts, clock, disk, mem, boundary, acked>>

Audit ==
  /\ pc = "audit"
  /\ Mint
  /\ mem'   = [mem EXCEPT !["events"] = Append(@, Stamp("events"))]
  /\ tails' = tails \ {NextTail}
  /\ Goto(AfterTail(tails'))
  /\ \/ WriteLine("events", Stamp("events")) /\ cut' = cut \ {"events"}
     \/ Damage({"events"}) /\ UNCHANGED <<file, cut, array>>
  /\ UNCHANGED <<starts, archived, marker, moved, boundary, acked>>

(***************************************************************************)
(* rotate(beforeTimestamp)                                                  *)
(***************************************************************************)
Rotate(b) ==
  /\ pc = Up
  /\ \E f \in Files : Older(f, b) # {}
  /\ boundary' = b
  /\ Goto("archiveEvents")
  /\ UNCHANGED <<starts, clock, disk, mem, tails, acked, damaged>>

(* An error outside the try leaves the method as it is.                     *)
WriteArchive_Later(f, here, there) ==
  /\ pc = here
  /\ Goto(there)
  /\ UNCHANGED <<starts, clock, disk, mem, boundary, tails, acked, damaged>>

WriteArchive(f, here, there) ==
  /\ pc = here
  /\ \/ /\ archived' = [archived EXCEPT ![f] = @ \cup Older(f, boundary)]
        /\ Goto(there)
        /\ UNCHANGED boundary
     \/ UNCHANGED archived /\ Return
  /\ UNCHANGED <<starts, clock, file, cut, array, marker, moved, mem, tails, acked, damaged>>

WriteMarker_None ==
  /\ pc = "mark"
  /\ Goto("swapEvents")
  /\ UNCHANGED <<starts, clock, disk, mem, boundary, tails, acked, damaged>>

(* The retained slices are staged and the marker is written and fsynced.    *)
WriteMarker ==
  /\ pc = "mark"
  /\ marker' = "named"
  /\ moved'  = [f \in Files |-> Older(f, boundary)]
  /\ Goto("swapEvents")
  /\ UNCHANGED <<starts, clock, file, cut, array, archived, mem, boundary, tails, acked, damaged>>

CrashInMarker ==
  /\ pc = "mark"
  /\ marker' = "malformed"
  /\ Die
  /\ UNCHANGED <<clock, file, cut, array, archived, moved, damaged>>

Swap(f, here, there) ==
  /\ pc = here
  /\ file'  = [file EXCEPT ![f] = Except(mem[f], Older(f, boundary))]
  /\ cut'   = cut \ {f}
  /\ array' = array \ {f}
  /\ Goto(there)
  /\ UNCHANGED <<starts, clock, archived, marker, moved, mem, boundary, tails, acked, damaged>>

(* The catch restores memory and removes the marker, not the rename that    *)
(* has been done: after a failed second rename the events are rotated and   *)
(* the receipts are not.  A marker written in part may survive as well.     *)
RotateThrows ==
  /\ pc \in {"mark", "swapEvents", "swapReceipts"}
  /\ RemoveMarker \/ (pc = "mark" /\ marker' = "malformed")
  /\ Damage(IF pc = "swapReceipts" THEN Files ELSE {})
  /\ Return
  /\ UNCHANGED <<starts, clock, file, cut, array, archived, moved, mem, tails, acked>>

FinishRotate_StaleMemory ==
  /\ pc = "finish"
  /\ RemoveMarker
  /\ Return
  /\ UNCHANGED <<starts, clock, file, cut, array, archived, moved, mem, tails, acked, damaged>>

FinishRotate ==
  /\ pc = "finish"
  /\ RemoveMarker
  /\ mem' = [f \in Files |-> Except(mem[f], Older(f, boundary))]
  /\ Return
  /\ UNCHANGED <<starts, clock, file, cut, array, archived, moved, tails, acked, damaged>>

Next ==
  \/ \E f \in Files : AppendRecord(f) \/ AppendThrows(f) \/ CrashInAppend(f)
  \/ Crash \/ CrashInMarker
  \/ Open
  \/ DedupStep("events", "dedupEvents", "dedupReceipts")
  \/ DedupStep("receipts", "dedupReceipts", "unmark")
  \/ ClearAfterRecovery
  \/ Load \/ LoadCorrupt \/ RepairTail \/ RepairThrows \/ Audit
  \/ \E b \in 2..clock + 1 : Rotate(b)
  \/ WriteArchive("events", "archiveEvents", "archiveReceipts")
  \/ WriteArchive("receipts", "archiveReceipts", "mark")
  \/ WriteMarker
  \/ Swap("events", "swapEvents", "swapReceipts")
  \/ Swap("receipts", "swapReceipts", "finish")
  \/ RotateThrows \/ FinishRotate

Spec == Init /\ [][Next]_vars
---------------------------------------------------------------------------
Line == Record \cup {Torn}

TypeOK ==
  /\ pc \in Dead \cup {Up, "dedupEvents", "dedupReceipts", "unmark", "load", "repair", "audit",
                       "archiveEvents", "archiveReceipts", "mark", "swapEvents", "swapReceipts", "finish"}
  /\ starts \in 0..MaxStarts
  /\ clock  \in Nat
  /\ file   \in [Files -> Seq(Line)]
  /\ mem    \in [Files -> Seq(Record)]
  /\ cut \subseteq Files /\ array \subseteq Files /\ tails \subseteq Files /\ damaged \subseteq Files
  /\ archived \in [Files -> SUBSET Nat]
  /\ moved    \in [Files -> SUBSET Nat]
  /\ acked    \in [Files -> SUBSET Nat]
  /\ marker   \in {"none", "malformed", "named"}
  /\ boundary \in Nat

(***************************************************************************)
(* A file is damaged here once a write to it went wrong in one of the ways  *)
(* the code takes no care of: an append or the repair of a tail that threw, *)
(* an append cut exactly before its newline, an append or an interrupted    *)
(* rotation over a legacy array, a rotation whose second rename threw.      *)
(***************************************************************************)

(* "Durable before the call returns", and of rotation, "no event is ever    *)
(* dropped": an acknowledged record is in its active file or in an archive  *)
(* at every instant of every append, rotation, crash and recovery.          *)
AckedIsKept ==
  \A f \in Files \ damaged : acked[f] \subseteq IdsOf(file[f]) \cup archived[f]

(***************************************************************************)
(* The rotation of the files against the transaction of SqliteLedger: "a    *)
(* single SQLite transaction gives the cross-table atomicity that the local *)
(* store's filesystem marker dance emulated".  A rotation happens when the  *)
(* first of its files is cut, by rotate or by the recovery: from then on    *)
(* what it moves from the other counts as archived although it is still     *)
(* there.                                                                   *)
(***************************************************************************)
CutBegun ==
  marker = "named" /\ \E f \in Files : moved[f] # {} /\ moved[f] \cap IdsOf(file[f]) = {}

Rows(f) == {r \in {file[f][i] : i \in DOMAIN file[f]} : r # Torn /\ ~(CutBegun /\ r.id \in moved[f])}

Sqlite == INSTANCE SqliteLedger WITH
  table    <- [f \in Files |-> Rows(f)],
  archived <- [f \in Files |-> archived[f] \ {r.id : r \in Rows(f)}]

(* While no file is damaged every step, of an append, a rotation, a repair  *)
(* or a recovery, a crash in the middle of one included, is one transaction *)
(* of SqliteLedger or none: no record is lost, doubled, changed or chained  *)
(* to another than the last one, and both files are cut at one boundary.    *)
ImplementsSqlite ==
  Sqlite!Init /\ [][damaged' = {} => Sqlite!Next]_(Sqlite!vars)

(* What a process reads is what a restart will read.                        *)
MemoryIsFile == pc = Up => \A f \in Files \ damaged : mem[f] = file[f]

(* PROV-004, checkIntegrityChain: within an active file every record        *)
(* commits to the one before it, over torn tails, audit events, rotations   *)
(* and restarts.                                                            *)
ChainHolds ==
  \A f \in Files \ damaged :
    LET lines == Whole(file[f])
    IN  \A i \in DOMAIN lines \ {1} : lines[i].prev = lines[i - 1].id

(* "A mid-write failure must leave previously-committed events              *)
(* recoverable": only a file without one complete record stops the store    *)
(* from opening.                                                            *)
OpensAgain ==
  \A f \in Files \ damaged : pc = "corrupt" /\ Corrupt(file[f]) => Whole(file[f]) = <<>>

(* The same of any file, and for a legacy one: it is rewritten "in NDJSON   *)
(* form on the next mutation. No operator action required.", so an append   *)
(* that returned leaves a file that opens.                                  *)
AppendLeavesItReadable ==
  [][\A f \in Files : acked'[f] # acked[f] => ~Corrupt(file'[f])]_vars
=============================================================================
