---------------------------- MODULE SqliteLedger ----------------------------
(***************************************************************************)
(* SqliteLedgerStore: the ledger of one process over one database, and what *)
(* a ledger store promises: an append reads the tail and inserts its row in *)
(* one transaction, a rotation moves the old rows of both tables into the   *)
(* archives in one transaction.  A transaction that throws, and a process   *)
(* that dies, leave no trace, so neither has an action; what the process    *)
(* holds in memory is nothing.                                              *)
(*                                                                          *)
(* A row is its id, which stands for its seq and its timestamp as well, and *)
(* the id of the row its prev_hash commits to, 0 for none.                  *)
(***************************************************************************)
EXTENDS Naturals

VARIABLES
  clock,     \* the last id given out
  table,     \* ledger_events and ledger_receipts: their rows
  archived   \* ledger_events_archive and ledger_receipts_archive: ids

vars == <<clock, table, archived>>

Tables == {"events", "receipts"}

Ids(t) == {r.id : r \in table[t]}

Older(t, boundary) == {i \in Ids(t) : i < boundary}

(* A new database, or one that an earlier session left.                     *)
Init ==
  \E old \in SUBSET Tables :
    /\ clock    = IF old = {} THEN 0 ELSE 1
    /\ table    = [t \in Tables |-> IF t \in old THEN {[id |-> 1, prev |-> 0]} ELSE {}]
    /\ archived = [t \in Tables |-> {}]

(* tailEventHash, tailReceiptHash: ORDER BY seq DESC LIMIT 1, of this table *)
(* and not of its archive.                                                  *)
IsTail(t, i) ==
  IF table[t] = {} THEN i = 0 ELSE i \in Ids(t) /\ \A j \in Ids(t) : j <= i

(* append and appendReceipt: two chains.                                    *)
append(t) ==
  /\ clock' = clock + 1
  /\ \E prev \in Ids(t) \cup {0} :
       /\ IsTail(t, prev)
       /\ table' = [table EXCEPT ![t] = @ \cup {[id |-> clock + 1, prev |-> prev]}]
  /\ UNCHANGED archived

(* INSERT ... SELECT and DELETE of both tables; a boundary with nothing     *)
(* below it returns without a transaction, a boundary ahead of the clock is *)
(* refused.                                                                 *)
rotate(boundary) ==
  /\ \E t \in Tables : Older(t, boundary) # {}
  /\ archived' = [t \in Tables |-> archived[t] \cup Older(t, boundary)]
  /\ table'    = [t \in Tables |-> {r \in table[t] : r.id >= boundary}]
  /\ UNCHANGED clock

Next ==
  \/ \E t \in Tables : append(t)
  \/ \E boundary \in 1..clock + 1 : rotate(boundary)

Spec == Init /\ [][Next]_vars
---------------------------------------------------------------------------
Row == [id : Nat, prev : Nat]

TypeOK ==
  /\ clock    \in Nat
  /\ table    \in [Tables -> SUBSET Row]
  /\ archived \in [Tables -> SUBSET Nat]

(* checkIntegrityChain: every row but the first of its table commits to the *)
(* row before it.                                                           *)
ChainHolds ==
  \A t \in Tables : \A r, q \in table[t] :
    q.id < r.id =>
      /\ r.prev \in Ids(t) /\ r.prev < r.id
      /\ \A i \in Ids(t) : i < r.id => i <= r.prev

(* PROV-006: the two tables are cut at one boundary.                        *)
RotationIsAtomic ==
  \E boundary \in 1..clock + 1 : \A t \in Tables :
    /\ \A i \in Ids(t) : i >= boundary
    /\ \A i \in archived[t] : i < boundary

(* "Events are never deleted or modified except via rotate", and rotation   *)
(* drops none: a row stays, as it is or in the archive.                     *)
NothingLost ==
  [][\A t \in Tables :
       /\ archived[t] \subseteq archived'[t]
       /\ \A r \in table[t] : r \in table'[t] \/ r.id \in archived'[t]]_vars
=============================================================================
