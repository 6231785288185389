---------------------------- MODULE KernelTraces ----------------------------
(***************************************************************************)
(* What the traces of provenance/trace-builder.ts show of a cluster that a *)
(* ClusterKernel wrote.                                                    *)
(***************************************************************************)
EXTENDS ClusterKernel, ProvenanceTrace

(* A session leaves finitely much behind: a trace of it comes to an end.    *)
ASSUME EarlierIsFinite == IsFiniteSet(EarlierEntities \cup EarlierArtifacts)

(* What an event is about, as its record in the ledger says: commands for  *)
(* the moves of the lifecycle, "index" for a rebuild.  The event of a      *)
(* committed link names the artifact as its subject, in the canonical      *)
(* store.                                                                  *)
VerbOf(e) == IF e.command # None THEN verb[e.command] ELSE "link_evidence"

EventRecord(i) ==
  LET e == events[i]
      about == IF e.subject # None THEN e.subject
               ELSE IF VerbOf(e) = "reindex" THEN "index" ELSE e.command
      store == IF e.subject = None THEN IF about = "index" THEN "index" ELSE "ledger"
               ELSE IF VerbOf(e) = "ingest_artifact" THEN "artifact" ELSE "canonical"
  IN [id |-> i, kind |-> e.kind, subject |-> about, store |-> store, parent |-> e.parent,
      artifact |-> IF e.kind = "evidence_linked" THEN target[cmd[e.call]].artifact ELSE None]

(* The ids of index records and commands in it lead to no node.             *)
AffectedIds(r) ==
  LET t == target[r.command]
  IN CASE verb[r.command] \in {"create_entity", "ingest_artifact"} -> {r.call}
       [] verb[r.command] = "update_entity" -> {t.entity}
       [] verb[r.command] = "link_evidence" -> {t.artifact, t.entity}
       [] OTHER -> {}

Ledger ==
  [entities  |-> {e \in Ids : version[e] > 0}, artifacts |-> artifacts,
   events    |-> {EventRecord(i) : i \in DOMAIN events},
   receipts  |-> {[id |-> r, event |-> r.event, affected |-> AffectedIds(r)] : r \in receipts},
   index     |-> {}]

Options(direction, depth) ==
  [direction |-> direction, depth |-> depth, includeIndex |-> FALSE, includeReceipts |-> TRUE]

Uris(graph) == {n.uri : n \in graph.nodes}

Linked == {c \in Commands : status[c] \in Executed /\ verb[c] = "link_evidence"}

(* Whichever way evidence was linked (KERNEL-007), the ledger shows it from *)
(* both ends: why() of the entity names the artifact and, once there is     *)
(* one, the link's receipt; the trace of the artifact leads forward to the  *)
(* entity; nothing that is named is missing; and as long as there are no    *)
(* more entities and artifacts than the depth that the command line takes   *)
(* by default, that depth shows all there is, whatever way the walk takes.  *)
(* The receipt leads back to an event of the link and forward to both ends. *)
(* The URIs that a trace prints resolve, all but those of its gaps; and the *)
(* trace of a bundle that holds both ends shows what the entity's trace     *)
(* shows, no more.  A trace is a call like any other: it is asked for where *)
(* a call may start.                                                        *)
Traceable(c) ==
  LET g        == Ledger
      entity   == <<"canonical", target[c].entity>>
      artifact == <<"artifact", target[c].artifact>>
      answer   == why(g, entity)
      forth    == traceObject(g, artifact, Options("forward", 10))
      both     == traceObject(g, entity, Options("bidirectional", 10))
      back     == traceObject(g, entity, Options("backward", 10))
      bundle   == traceBundle(g, <<entity, artifact>>, Options("backward", 10))
  IN /\ artifact \in answer.links /\ \A gap \in answer.gaps : gap.warning # "none"
     /\ \A r \in {x \in receipts : x.command = c} :
          LET receipt == traceObject(g, <<"receipt", r>>, Options("bidirectional", 10))
          IN /\ <<"receipt", r>> \in answer.receipts
             /\ {Node(EventUri(r.event)), Node(entity), Node(artifact)} \subseteq receipt.nodes
     /\ {Node(entity), Node(artifact)} \subseteq forth.nodes
     /\ resolveAll(g, <<entity, artifact>>)
     /\ \A n \in both.nodes \cup forth.nodes : n.isGap <=> ~resolve(g, n.uri)
     /\ <<bundle.nodes, bundle.edges, bundle.gaps>> = <<back.nodes, back.edges, back.gaps>>
     /\ Edge(artifact, entity, "evidence_linked_to") \in forth.edges
     /\ Cardinality(g.entities) + Cardinality(g.artifacts) <= 10 =>
          [nodes |-> Uris(both), edges |-> both.edges, gaps |-> both.gaps]
            = Closure(g, Options("bidirectional", 10), entity)

LinkIsTraceable == MayStart => \A c \in Linked : Traceable(c)
=============================================================================
