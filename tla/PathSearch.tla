----------------------------- MODULE PathSearch -----------------------------
(***************************************************************************)
(* PathService: one search for a path between two subscribers, level by    *)
(* level from both of them, over the link hashes of a store that writers   *)
(* go on filling.  One read of the store is one step: what is done with    *)
(* its reply is local to the handler's thread.                             *)
(*                                                                         *)
(* A link is the set of its two parties, as addLink() writes both          *)
(* directions; of what it carries only that it exists.  A trail maps a     *)
(* subscriber to the way it was reached on: the code keeps the last step   *)
(* of it, and never replaces one.                                          *)
(***************************************************************************)
EXTENDS Naturals, Sequences, SequencesExt, FiniteSets

CONSTANTS Subscribers,
          MaxHops,      \* cfg.query.max_hops
          MaxVisited,   \* cfg.query.max_visited
          MaxGrow       \* bound: links that appear during the search

ASSUME PathAssumption ==
    /\ IsFiniteSet(Subscribers)
    /\ MaxHops \in Nat /\ MaxVisited \in Nat /\ MaxGrow \in Nat

Links == {{a, b} : a \in Subscribers, b \in Subscribers}
Sides == {1, 2}

VARIABLES
    links,     \* the link hashes of the store
    grown,
    ends,      \* the two parties of the request
    found_on,  \* the links there were when it came
    pc,        \* idle, hop, expand, hops, answered
    answer,    \* found; none or gave_up, both a 404; down, a 503
    hop, visited,
    side,      \* the side whose level is being expanded
    left,      \* subscribers of that level that are still to be expanded
    frontier,  \* per side, what has been reached behind them
    trail,     \* seen
    route, carried

search == <<ends, found_on, hop, visited, side, left, frontier, trail>>
vars   == <<links, grown, pc, answer, search, route, carried>>

(* Any graph of subscribers in contact; who is in contact with himself is   *)
(* left to Grow.                                                            *)
Init ==
    /\ links \in SUBSET {l \in Links : Cardinality(l) = 2} /\ grown = 0
    /\ ends = <<>> /\ found_on = {} /\ pc = "idle" /\ answer = ""
    /\ hop = 0 /\ visited = 0 /\ side = 1 /\ left = {}
    /\ frontier = <<{}, {}>> /\ trail = <<<<>>, <<>>>>
    /\ route = <<>> /\ carried = 0

(* A batch that lands adds a link; none is ever removed. *)
Grow(l) ==
    /\ grown < MaxGrow /\ l \notin links
    /\ links' = links \cup {l} /\ grown' = grown + 1
    /\ UNCHANGED <<pc, answer, search, route, carried>>

Answer(a) == pc' = "answered" /\ answer' = a

(* found(): what each hop carried is read only when it was asked for. *)
Found(r) ==
    /\ route' = r
    /\ \/ Answer("found")
       \/ pc' = "hops" /\ UNCHANGED answer

Request(a, b) ==
    /\ pc = "idle"
    /\ ends' = <<a, b>> /\ found_on' = links
    /\ IF a = b
       THEN Found(<<a>>) /\ UNCHANGED <<frontier, trail>>
       ELSE /\ frontier' = <<{a}, {b}>>
            /\ trail' = <<[n \in {a} |-> <<a>>], [n \in {b} |-> <<b>>]>>
            /\ pc' = "hop" /\ UNCHANGED <<answer, route>>
    /\ UNCHANGED <<links, grown, hop, visited, side, left, carried>>

(* A round expands the narrower side. *)
Hop ==
    /\ pc = "hop"
    /\ IF hop = MaxHops
       THEN Answer("none") /\ UNCHANGED <<side, left, frontier>>
       ELSE LET s == IF Cardinality(frontier[1]) <= Cardinality(frontier[2]) THEN 1 ELSE 2
            IN  /\ side' = s /\ left' = frontier[s]
                /\ frontier' = [frontier EXCEPT ![s] = {}]
                /\ pc' = "expand" /\ UNCHANGED answer
    /\ UNCHANGED <<links, grown, ends, found_on, hop, visited, trail, route, carried>>

Peers(n) == {m \in Subscribers : {n, m} \in links}
Seen(s) == DOMAIN trail[s]

CountTwice(n) == Cardinality(Peers(n))
Fresh(n) == Cardinality(Peers(n) \ Seen(side))

MetOwn(peers) == peers \cap Seen(side)
Met(peers) == peers \cap Seen(3 - side)

DeeperAtOnce(n, peers) == (left \ {n}) \cup peers
LevelOnly(n, peers) == left \ {n}

(* walk(): from the first party to the meeting point and on to the second.  *)
WalkTwice(there, back) == there \o Reverse(back)
Walk(there, back) == there \o Tail(Reverse(back))

(* One read of the store, and what follows from it: the peers are looked at *)
(* in an order the model leaves open, until one was seen from the other     *)
(* side or one is one too many.                                             *)
Expand(n) ==
    LET peers == Peers(n) \ Seen(side)
        reached == [m \in Seen(side) \cup peers |->
                        IF m \in peers THEN Append(trail[side][n], m) ELSE trail[side][m]]
        way(s, m) == IF s = side THEN reached[m] ELSE trail[s][m]
        others == Fresh(n) - Cardinality(Met(peers))
    IN  /\ pc = "expand" /\ n \in left
        /\ \/ /\ Answer("down")
              /\ UNCHANGED <<visited, left, frontier, trail, route>>
           \/ \E m \in Met(peers) :
              /\ visited < MaxVisited
              /\ Found(Walk(way(1, m), way(2, m)))
              /\ UNCHANGED <<visited, left, frontier, trail>>
           \/ /\ visited + Fresh(n) > MaxVisited /\ visited + others >= MaxVisited
              /\ Answer("gave_up")
              /\ UNCHANGED <<visited, left, frontier, trail, route>>
           \/ /\ Met(peers) = {} /\ visited + Fresh(n) <= MaxVisited
              /\ visited' = visited + Fresh(n)
              /\ left' = LevelOnly(n, peers)
              /\ frontier' = [frontier EXCEPT ![side] = @ \cup peers]
              /\ trail' = [trail EXCEPT ![side] = reached]
              /\ UNCHANGED <<pc, answer, route>>
        /\ UNCHANGED <<links, grown, ends, found_on, hop, side, carried>>

(* The level is done; a side that has run dry ends the search. *)
EndHop ==
    /\ pc = "expand" /\ left = {}
    /\ IF frontier[side] = {}
       THEN Answer("none") /\ UNCHANGED hop
       ELSE hop' = hop + 1 /\ pc' = "hop" /\ UNCHANGED answer
    /\ UNCHANGED <<links, grown, ends, found_on, visited, side, left, frontier, trail, route, carried>>

(* hops(): one read of the store per hop of the route. *)
Carried ==
    /\ pc = "hops"
    /\ \/ carried < Len(route) - 1 /\ carried' = carried + 1 /\ UNCHANGED <<pc, answer>>
       \/ carried < Len(route) - 1 /\ Answer("down") /\ UNCHANGED carried
       \/ carried = Len(route) - 1 /\ Answer("found") /\ UNCHANGED carried
    /\ UNCHANGED <<links, grown, search, route>>

Next ==
    \/ \E l \in Links : Grow(l)
    \/ \E a, b \in Subscribers : Request(a, b)
    \/ Hop
    \/ \E n \in Subscribers : Expand(n)
    \/ EndHop
    \/ Carried

Spec == Init /\ [][Next]_vars

-----------------------------------------------------------------------------
(* The types and the two bounds; the trails are disjoint as long as the     *)
(* search goes on.                                                          *)
TypeOK ==
    /\ links \in SUBSET Links /\ found_on \in SUBSET links /\ grown \in 0 .. MaxGrow
    /\ ends = <<>> \/ ends \in Subscribers \X Subscribers
    /\ pc \in {"idle", "hop", "expand", "hops", "answered"}
    /\ answer \in {"", "found", "none", "gave_up", "down"}
    /\ hop \in 0 .. MaxHops /\ visited \in 0 .. MaxVisited
    /\ side \in Sides /\ left \in SUBSET Subscribers
    /\ \A s \in Sides : frontier[s] \in SUBSET Seen(s) /\ Seen(s) \in SUBSET Subscribers
    /\ Seen(1) \cap Seen(2) = {}
    /\ route \in Seq(Subscribers) /\ carried \in Nat

(* b is at most k links from a. *)
Within(graph, a, b, k) ==
    \E way \in [0 .. k -> Subscribers] :
        /\ way[0] = a /\ way[k] = b
        /\ \A i \in 1 .. k : way[i - 1] = way[i] \/ {way[i - 1], way[i]} \in graph

(* What is found is a path of the store: from the one party to the other,   *)
(* over links that exist, past nobody twice, no longer than the hop limit   *)
(* (docs/DL_Design.md:461, "joins the trails at the shared subscriber").    *)
PathIsPath ==
    route # <<>> =>
        /\ Head(route) = ends[1] /\ Last(route) = ends[2]
        /\ \A i \in 1 .. Len(route) - 1 : {route[i], route[i + 1]} \in links
        /\ IsInjective(route)
        /\ Len(route) <= MaxHops + 1

(* Though the graph grows under it, the search misses no path within the    *)
(* hop limit that was there when it began, unless it was too much to visit. *)
NoneMeansNone ==
    answer = "none" => ~Within(found_on, ends[1], ends[2], MaxHops)

(* Nor does it answer with a detour: going level by level, it finds nothing *)
(* longer than the shortest path that was there when it began.              *)
NoDetour ==
    route # <<>> /\ Len(route) > 1 => ~Within(found_on, ends[1], ends[2], Len(route) - 2)

(* It gives up for the visited bound only if there are that many            *)
(* subscribers to visit besides the two parties: nobody is counted twice.   *)
FullBudget ==
    answer = "gave_up" =>
        \E reached \in SUBSET (Subscribers \ {ends[1], ends[2]}) :
            /\ Cardinality(reached) >= MaxVisited
            /\ \A n \in reached : \E s \in Sides : Within(links, ends[s], n, MaxHops)
=============================================================================
