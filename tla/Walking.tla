------------------------------ MODULE Walking ------------------------------
(***************************************************************************)
(* A depth-first walk over a directed graph with a depth limit, in a form   *)
(* that proofs can expand.  next[u] lists where u leads to; what is not in  *)
(* the domain of next leads nowhere.                                       *)
(***************************************************************************)
EXTENDS Naturals, Sequences, FiniteSets

(* The calls of the recursion that are still to be made, the next one first. *)
ToVisit(uris, depth) == [n \in DOMAIN uris |-> [uri |-> uris[n], depth |-> depth]]

Leads(next, u) == IF u \in DOMAIN next THEN next[u] ELSE <<>>

(* One call: it returns at once below the limit and where it has been.      *)
traceFrom(next, limit, walk) ==
  LET call == Head(walk.todo)
      rest == Tail(walk.todo)
  IN IF call.depth >= limit \/ \E n \in DOMAIN walk.visited : walk.visited[n] = call.uri
     THEN [walk EXCEPT !.todo = rest]
     ELSE [visited |-> Append(walk.visited, call.uri),
           todo    |-> ToVisit(Leads(next, call.uri), call.depth + 1) \o rest]

Walk(next, limit, uri, calls) ==
  LET walk[n \in 0..calls] ==
        IF n = 0 THEN [visited |-> <<>>, todo |-> ToVisit(<<uri>>, 0)]
        ELSE LET before == walk[n - 1]
             IN IF before.todo = <<>> THEN before ELSE traceFrom(next, limit, before)
  IN walk[calls]

(* The walk makes one call for where it starts and at most one for each     *)
(* place that a vertex leads to.                                           *)
Calling(next) == UNION {{u} \X DOMAIN next[u] : u \in DOMAIN next}

(* What is visited, in the order of the visits.                             *)
Visited(next, limit, uri) == Walk(next, limit, uri, 1 + Cardinality(Calling(next))).visited

Members(uris) == {uris[i] : i \in DOMAIN uris}

(* What can be reached in so many steps.                                    *)
Within(next, uri, steps) ==
  LET within[n \in 0..steps] ==
        IF n = 0 THEN {uri}
        ELSE LET near == within[n - 1]
             IN near \cup UNION {Members(Leads(next, u)) : u \in near}
  IN within[steps]
=============================================================================
