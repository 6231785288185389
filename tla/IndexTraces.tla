---------------------------- MODULE IndexTraces ----------------------------
(***************************************************************************)
(* What the provenance traces, the explanation of a record and the two     *)
(* staleness reports say of the derived index, side by side.               *)
(***************************************************************************)
EXTENDS IndexSync, ProvenanceTrace

Uri(src) == <<IF src \in Entities THEN "canonical" ELSE "artifact", src>>

(* What a trace reads of these stores; the ledger's part is left empty, it *)
(* is looked at with the kernel's commands.                                *)
Stores ==
  [entities |-> Live, artifacts |-> ingested, events |-> {}, receipts |-> {},
   index |-> {[id |-> index[i].id, source |-> Uri(index[i].src),
               stale |-> explainIndex(index[i]).stale, at |-> i] : i \in DOMAIN index}]

Options(direction) ==
  [direction |-> direction, depth |-> 10, includeIndex |-> TRUE, includeReceipts |-> FALSE]

Warnings == {"stale_projection_of", "missing_owner_truth"}

FirstRecords(src) == {i \in DOMAIN index : i <= IndexLimit /\ index[i].src = src}

(* The trace of a record warns exactly where the record's explanation says *)
(* that it is stale, and the list of stale records does as far as it looks, *)
(* and leads to a source that there is; the trace of a source leads to its *)
(* records, those among the first IndexLimit of the index, none of them a  *)
(* gap.                                                                    *)
TracesAgree ==
  LET g == Stores IN
  /\ \A i \in DOMAIN index :
        LET r     == index[i]
            trace == traceObject(g, <<"index", r.id>>, Options("backward"))
        IN /\ (\E e \in trace.edges : e.type \in Warnings) <=> explainIndex(r).stale
           /\ i <= ReportLimit => (explainIndex(r).stale <=> r \in listStaleRecords)
           /\ explainIndex(r).sourceExists <=> Node(Uri(r.src)) \in trace.nodes
  /\ \A src \in Live \cup ingested :
        {n.uri : n \in traceObject(g, Uri(src), Options("forward")).nodes}
          = {Uri(src)} \cup {<<"index", index[i].id>> : i \in FirstRecords(src)}

(* An entity whose present text is in no record of its own is reported, in *)
(* every interleaving: by checkStale as missing or, where a record of its  *)
(* own is the first that contains the text, by that record in the list of  *)
(* stale ones, as long as the index is no longer than the list looks.  On  *)
(* an index that is not out of step no record is listed, and an entity is  *)
(* reported missing, wrongly, exactly when a record of another source that *)
(* contains its text was indexed before its own.  Once no call is under    *)
(* way the traces and the explanations of the records say the same.        *)
StalenessIsReported ==
    /\ Len(index) <= ReportLimit =>
          \A e \in Live :
              \/ \E r \in Range(index) : r.src = e /\ r.text = TextOf[Latest(e)]
              \/ e \in missingFromIndex
              \/ \E r \in listStaleRecords : r.src = e
    /\ (calm /\ Busy = {}) =>
          /\ listStaleRecords = {} /\ orphanRecords = {}
          /\ \A e \in Live : e \in missingFromIndex <=>
                \E i, j \in DOMAIN index :
                    /\ i < j /\ index[j].src = e /\ index[i].src # e
                    /\ Matches(index[i], TextOf[Latest(e)])
    /\ (\A c \in Calls : calls[c] = Idle) => TracesAgree
=============================================================================
