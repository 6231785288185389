-------------------------- MODULE ProvenanceTrace --------------------------
(***************************************************************************)
(* provenance/trace-builder.ts: the provenance graph around one object, as *)
(* operators on what the stores hold,                                      *)
(*                                                                         *)
(*   g.entities, g.artifacts  the ids the two owner stores hold            *)
(*   g.events     set of [id, kind, subject, store, parent, artifact], the *)
(*                ids numbers in append order                              *)
(*   g.receipts   set of [id, event, affected]                             *)
(*   g.index      set of [id, source, stale, at]; source is a URI, at the  *)
(*                record's place in the index                              *)
(*                                                                         *)
(* and o = [direction, depth, includeIndex, includeReceipts].  A URI is a  *)
(* pair <<store, id>>.  Labels and timestamps are left out.                *)
(***************************************************************************)
EXTENDS Picking, Walking, SequencesExt

CONSTANT IndexLimit   \* index records a forward trace looks at: 100

Backward(o) == o.direction # "forward"
Forward(o)  == o.direction # "backward"

Node(uri)    == [uri |-> uri, isSourceTruth |-> uri[1] # "index", isGap |-> FALSE]
GapNode(uri) == [uri |-> uri, isSourceTruth |-> FALSE, isGap |-> TRUE]

Edge(from, to, type) == [from |-> from, to |-> to, type |-> type]

(* A gap, with its warning if there is one: what was expected, and where.  *)
Gap(uri, store, warning) == [expectedUri |-> uri, store |-> store, warning |-> warning]

(* What a visit of one object adds to the graph, and where it goes on.     *)
Visit(nodes, edges, gaps, next) == [nodes |-> nodes, edges |-> edges, gaps |-> gaps, next |-> next]

addGapNode(uri) ==
  Visit({GapNode(uri)}, {},
        {Gap(uri, IF uri[1] = "receipt" THEN "ledger" ELSE uri[1], "none")}, <<>>)

eventToEdgeType(kind) ==
  CASE kind = "artifact_ingested"  -> "artifact_ingested_from"
    [] kind = "evidence_linked"    -> "evidence_linked_to"
    [] kind = "mutation_committed" -> "mutation_committed_by"
    [] kind = "index_rebuilt"      -> "index_record_derived_from"
    [] kind = "mutation_orphaned"  -> "missing_provenance"
    [] OTHER                       -> "entity_created_by"

EventUri(i)    == <<"ledger", i>>
EventsOf(g, id) == {e \in g.events : e.subject = id}

Links(events)    == {e \in events : e.kind = "evidence_linked"}
LinksFrom(g, id) == {e \in Links(g.events) : e.artifact = id}

(* Events in append order, and the URIs that they name.                    *)
LinkedArtifact(e) == <<"artifact", e.artifact>>
LinkedEntity(e)   == <<"canonical", e.subject>>

Listed(events) ==
  LET ids == InOrder({e.id : e \in events})
  IN [n \in DOMAIN ids |-> CHOOSE e \in events : e.id = ids[n]]

LinkedArtifacts(events) == LET list == Listed(events) IN [n \in DOMAIN list |-> LinkedArtifact(list[n])]
LinkedEntities(events)  == LET list == Listed(events) IN [n \in DOMAIN list |-> LinkedEntity(list[n])]

NoTrail(g, uri) ==
  IF EventsOf(g, uri[2]) = {} THEN {Gap(uri, "ledger", "missing_provenance")} ELSE {}

(* search({limit: 100}) comes before the filter by source.                 *)
RecordsFrom(g, uri)   == {r \in g.index : r.at <= IndexLimit /\ r.source[2] = uri[2]}
RelatedReceipts(g, id) == {r \in g.receipts : id \in r.affected}

traceForwardIndex(g, o, uri) ==
  LET records == IF Forward(o) /\ o.includeIndex THEN RecordsFrom(g, uri) ELSE {}
  IN Visit({Node(<<"index", r.id>>) : r \in records},
           {Edge(uri, <<"index", r.id>>, "index_record_derived_from") : r \in records}, {}, <<>>)

traceRelatedReceipts(g, o, uri) ==
  LET receipts == IF o.includeReceipts THEN RelatedReceipts(g, uri[2]) ELSE {}
  IN Visit({Node(<<"receipt", r.id>>) : r \in receipts},
           {Edge(<<"receipt", r.id>>, uri, "receipt_emitted_for") : r \in receipts}, {}, <<>>)

Join(v, w) == Visit(v.nodes \cup w.nodes, v.edges \cup w.edges, v.gaps \cup w.gaps, v.next \o w.next)

(* The events of an entity, the artifacts that they link to it.            *)
EntityBack(g, uri) ==
  LET own   == EventsOf(g, uri[2])
      links == Links(own)
  IN Visit({Node(EventUri(e.id)) : e \in own},
           {Edge(EventUri(e.id), uri, eventToEdgeType(e.kind)) : e \in own}
             \cup {Edge(LinkedArtifact(e), uri, "evidence_linked_to") : e \in links},
           NoTrail(g, uri), LinkedArtifacts(links))

Nothing == Visit({}, {}, {}, <<>>)

traceEntity(g, o, uri) ==
  IF uri[2] \notin g.entities THEN addGapNode(uri)
  ELSE Join(Join(Visit({Node(uri)}, {}, {}, <<>>),
                 IF Backward(o) THEN EntityBack(g, uri) ELSE Nothing),
            Join(traceForwardIndex(g, o, uri), traceRelatedReceipts(g, o, uri)))

ArtifactBack(g, uri) ==
  LET own == EventsOf(g, uri[2])
  IN Visit({Node(EventUri(e.id)) : e \in own},
           {Edge(EventUri(e.id), uri, "artifact_ingested_from") : e \in own}, NoTrail(g, uri), <<>>)

ArtifactForth_OwnEvents(g, uri) ==
  LET links == Links(EventsOf(g, uri[2]))
  IN Visit({}, {Edge(uri, LinkedEntity(e), "evidence_linked_to") : e \in links}, {}, LinkedEntities(links))

(* The entities that an artifact is evidence for, by the detail of their   *)
(* events.                                                                 *)
ArtifactForth(g, uri) ==
  LET links == LinksFrom(g, uri[2])
  IN Visit({}, {Edge(uri, LinkedEntity(e), "evidence_linked_to") : e \in links}, {}, LinkedEntities(links))

(* Receipts are not looked up for an artifact.                             *)
traceArtifact(g, o, uri) ==
  IF uri[2] \notin g.artifacts THEN addGapNode(uri)
  ELSE Join(Join(Visit({Node(uri)}, {}, {}, <<>>),
                 IF Backward(o) THEN ArtifactBack(g, uri) ELSE Nothing),
            Join(IF Forward(o) THEN ArtifactForth(g, uri) ELSE Nothing,
                 traceForwardIndex(g, o, uri)))

IsHeld(g, uri) == \/ uri[1] = "canonical" /\ uri[2] \in g.entities
                  \/ uri[1] = "artifact" /\ uri[2] \in g.artifacts

(* An index record leads to the owner's object; one whose owner is gone is *)
(* not followed.                                                           *)
traceIndexRecord(g, o, uri) ==
  LET found == {r \in g.index : r.id = uri[2]}
      record == CHOOSE r \in found : TRUE
  IN IF found = {} THEN addGapNode(uri)
     ELSE Join(Visit({Node(uri)}, {}, {}, <<>>),
          IF ~ Backward(o) THEN Nothing
          ELSE IF IsHeld(g, record.source)
          THEN Visit({}, {Edge(uri, record.source,
                               IF record.stale THEN "stale_projection_of" ELSE "index_record_derived_from")},
                     {}, <<record.source>>)
          ELSE Visit({}, {Edge(uri, record.source, "missing_owner_truth")},
                     {Gap(record.source, record.source[1], "missing_owner_truth")}, <<>>))

(* The subject is looked for in the store that the event names.            *)
traceEvent(g, o, uri) ==
  LET found == {x \in g.events : x.id = uri[2]}
      e == CHOOSE x \in found : TRUE
      subject == <<e.store, e.subject>>
  IN IF found = {} THEN addGapNode(uri)
     ELSE Join(Join(Visit({Node(uri)}, {}, {}, <<>>),
                    IF Backward(o) /\ e.parent # 0
                    THEN Visit({}, {Edge(EventUri(e.parent), uri, "entity_created_by")}, {},
                               <<EventUri(e.parent)>>)
                    ELSE Nothing),
               IF Forward(o)
               THEN Visit({}, {Edge(uri, subject, eventToEdgeType(e.kind))}, {}, <<subject>>)
               ELSE Nothing)

traceReceipt(g, o, uri) ==
  LET found == {r \in g.receipts : r.id = uri[2]}
      receipt == CHOOSE r \in found : TRUE
      affected == {id \in receipt.affected : id \in g.entities \cup g.artifacts}
      Owner(id) == <<IF id \in g.entities THEN "canonical" ELSE "artifact", id>>
  IN IF found = {} THEN addGapNode(uri)
     ELSE Join(Join(Visit({Node(uri)}, {}, {}, <<>>),
                    IF Backward(o)
                    THEN Visit({}, {Edge(EventUri(receipt.event), uri, "receipt_emitted_for")}, {},
                               <<EventUri(receipt.event)>>)
                    ELSE Nothing),
               IF Forward(o)
               THEN Visit({}, {Edge(uri, Owner(id), "mutation_committed_by") : id \in affected}, {},
                          SetToSeq({Owner(id) : id \in affected}))
               ELSE Nothing)

VisitOf(g, o, uri) ==
  CASE uri[1] = "canonical" -> traceEntity(g, o, uri)
    [] uri[1] = "artifact"  -> traceArtifact(g, o, uri)
    [] uri[1] = "index"     -> traceIndexRecord(g, o, uri)
    [] uri[1] = "ledger"    -> traceEvent(g, o, uri)
    [] uri[1] = "receipt"   -> traceReceipt(g, o, uri)

-----------------------------------------------------------------------------
(* What a walk can visit, and where each visit goes on.                    *)
Objects(g) ==
  ({"canonical"} \X g.entities) \cup ({"artifact"} \X g.artifacts)
    \cup ({"index"} \X {r.id : r \in g.index})
    \cup ({"ledger"} \X {e.id : e \in g.events}) \cup ({"receipt"} \X {r.id : r \in g.receipts})

NextOf(g, o) == [u \in Objects(g) |-> VisitOf(g, o, u).next]

(* The trace: what the visits of a walk add.  Of two nodes with one URI the *)
(* first stays.                                                            *)
NoneOf(nodes, uri) == \A n \in nodes : n.uri # uri

GraphOf(visits) ==
  [nodes |-> UNION {{m \in visits[n].nodes : \A i \in 1..(n - 1) : NoneOf(visits[i].nodes, m.uri)}
                         : n \in DOMAIN visits},
   edges |-> UNION {visits[n].edges : n \in DOMAIN visits},
   gaps  |-> UNION {visits[n].gaps : n \in DOMAIN visits}]

VisitsOf(g, o, uris) == [n \in DOMAIN uris |-> VisitOf(g, o, uris[n])]

traceObject(g, uri, o) == GraphOf(VisitsOf(g, o, Visited(NextOf(g, o), o.depth, uri)))

(* The graph of several objects, as of those that a bundle resolved: of two *)
(* nodes with one URI the last stays.                                      *)
Merged(graphs) ==
  [nodes |-> UNION {{m \in graphs[n].nodes : \A i \in (n + 1)..Len(graphs) : NoneOf(graphs[i].nodes, m.uri)}
                         : n \in DOMAIN graphs},
   edges |-> UNION {graphs[n].edges : n \in DOMAIN graphs},
   gaps  |-> UNION {graphs[n].gaps : n \in DOMAIN graphs}]

traceBundle(g, uris, o) == Merged([n \in DOMAIN uris |-> traceObject(g, uris[n], o)])

(* why(): a backward trace of depth 5, and what it says of the object.     *)
WhyOptions == [direction |-> "backward", depth |-> 5, includeIndex |-> FALSE, includeReceipts |-> TRUE]

Answer(graph, uri) ==
  LET incoming == {e \in graph.edges : e.to = uri}
  IN [created  |-> \E e \in incoming : e.type \in {"entity_created_by", "artifact_ingested_from"},
      links    |-> {e.from : e \in {x \in incoming : x.type = "evidence_linked_to"}},
      receipts |-> {n.uri : n \in {m \in graph.nodes : m.uri[1] = "receipt"}},
      gaps     |-> graph.gaps]

why(g, uri) == Answer(traceObject(g, uri, WhyOptions), uri)

-----------------------------------------------------------------------------
(* resolver/cluster-resolver.ts: a URI resolves when the store it names    *)
(* holds its id; the ledger keeps events and receipts apart.               *)
resolve(g, uri) ==
  uri[2] \in CASE uri[1] = "canonical" -> g.entities
               [] uri[1] = "artifact"  -> g.artifacts
               [] uri[1] = "index"     -> {r.id : r \in g.index}
               [] uri[1] = "ledger"    -> {e.id : e \in g.events}
               [] uri[1] = "receipt"   -> {r.id : r \in g.receipts}

resolveAll(g, uris) == \A n \in DOMAIN uris : resolve(g, uris[n])

-----------------------------------------------------------------------------
(* What a trace of depth d is meant to hold, said without the order of a   *)
(* walk: all that is seen from the objects within d - 1 steps.             *)
Sight(visits) ==
  [nodes |-> {n.uri : n \in UNION {v.nodes : v \in visits}},
   edges |-> UNION {v.edges : v \in visits},
   gaps  |-> UNION {v.gaps : v \in visits}]

Closure(g, o, uri) == Sight({VisitOf(g, o, u) : u \in Within(NextOf(g, o), uri, o.depth - 1)})
=============================================================================
