-------------------------- MODULE PathSearchProofs --------------------------
(***************************************************************************)
(* Theorems about PathSearch, for any finite set of subscribers, any graph *)
(* between them, however it grows, and any two bounds.                     *)
(***************************************************************************)
EXTENDS PathSearch, FiniteSetTheorems, WellFoundedInduction, TLAPS

-----------------------------------------------------------------------------
(* The inductive invariant. *)

(* t leads from a to b over links of a graph, past nobody twice.            *)
Leads(t, a, b, graph) ==
    /\ t \in Seq(Subscribers) /\ Len(t) >= 1
    /\ t[1] = a /\ t[Len(t)] = b
    /\ \A i \in 1 .. Len(t) - 1 : {t[i], t[i + 1]} \in graph
    /\ \A i, j \in 1 .. Len(t) : t[i] = t[j] => i = j

(* Nobody but m is on both.                                                 *)
MeetAt(t, u, m) == \A i \in 1 .. Len(t), j \in 1 .. Len(u) : t[i] = u[j] => t[i] = m

Past(t, seen) == \A i \in 1 .. Len(t) : t[i] \in seen

IsPair(f) == DOMAIN f = 1 .. 2
Shape == IsPair(trail) /\ IsPair(frontier)

(* A trail leads to its subscriber from the party of its side, past nobody  *)
(* but subscribers that side has seen.                                      *)
Trails ==
    \A s \in Sides : \A n \in Seen(s) :
        Leads(trail[s][n], ends[s], n, links) /\ Past(trail[s][n], Seen(s))

(* The rounds of the two sides add up to hop, and a trail is no longer than *)
(* its side had rounds.                                                     *)
Rounds(h) ==
    /\ h[1] + h[2] = hop
    /\ pc = "hop" => \A s \in Sides : \A n \in Seen(s) : Len(trail[s][n]) <= h[s] + 1
    /\ pc = "expand" =>
        /\ hop < MaxHops /\ left \subseteq Seen(side)
        /\ \A n \in left : Len(trail[side][n]) <= h[side] + 1
        /\ \A n \in Seen(side) : Len(trail[side][n]) <= h[side] + 2
        /\ \A n \in Seen(3 - side) : Len(trail[3 - side][n]) <= h[3 - side] + 1

Budget == \E h \in [Sides -> Nat] : Rounds(h)

Unasked == pc = "idle" => ends = <<>> /\ Seen(1) = {} /\ Seen(2) = {} /\ route = <<>> /\ hop = 0

RouteLeads ==
    route # <<>> => Leads(route, ends[1], ends[2], links) /\ Len(route) <= MaxHops + 1

Searching == pc \in {"hop", "expand"} => route = <<>>

IInv == TypeOK /\ Shape /\ Trails /\ Budget /\ Unasked /\ RouteLeads /\ Searching

-----------------------------------------------------------------------------
USE PathAssumption

LEMMA WalkLeads ==
    ASSUME NEW graph, NEW a, NEW b, NEW m, NEW t, NEW u,
           Leads(t, a, m, graph), Leads(u, b, m, graph),
           MeetAt(t, u, m)
    PROVE  Leads(Walk(t, u), a, b, graph) /\ Len(Walk(t, u)) = Len(t) + Len(u) - 1
<1> DEFINE w == Walk(t, u)
           n == Len(t)
           k == Len(u)
<1>1. t \in Seq(Subscribers) /\ u \in Seq(Subscribers) /\ n \in Nat \ {0} /\ k \in Nat \ {0}
  BY DEF Leads
<1>2. /\ Tail(Reverse(u)) \in Seq(Subscribers)
      /\ Len(Tail(Reverse(u))) = k - 1
      /\ \A i \in 1 .. k - 1 : Tail(Reverse(u))[i] = u[k - i]
  <2>1. /\ Reverse(u) \in Seq(Subscribers) /\ Len(Reverse(u)) = k
        /\ \A i \in 1 .. k : Reverse(u)[i] = u[k - i + 1]
    BY <1>1 DEF Reverse
  <2>2. Reverse(u) # <<>>
    BY <1>1, <2>1
  <2> QED
    BY <1>1, <2>1, <2>2
<1>3. /\ w \in Seq(Subscribers) /\ Len(w) = n + k - 1
      /\ \A i \in 1 .. n : w[i] = t[i]
      /\ \A i \in n + 1 .. n + k - 1 : w[i] = Tail(Reverse(u))[i - n]
  BY <1>1, <1>2 DEF Walk
<1>4. \A i \in n .. n + k - 1 : w[i] = u[n + k - i]
  <2>1. ASSUME NEW i \in n + 1 .. n + k - 1 PROVE w[i] = u[n + k - i]
    <3>1. i - n \in 1 .. k - 1 /\ k - (i - n) = n + k - i
      BY <1>1
    <3> QED
      BY <1>2, <1>3, <3>1
  <2>2. w[n] = u[n + k - n]
    <3>1. n \in 1 .. n /\ n + k - n = k
      BY <1>1
    <3>2. t[n] = m /\ u[k] = m
      BY DEF Leads
    <3> QED
      BY <1>3, <3>1, <3>2
  <2> QED
    BY <1>1, <2>1, <2>2
<1> HIDE DEF w
<1>5. w[1] = a
  <2>1. t[1] = a /\ 1 \in 1 .. n
    BY <1>1 DEF Leads
  <2> QED
    BY <1>3, <2>1
<1>6. w[Len(w)] = b
  <2>1. n + k - 1 \in n .. n + k - 1 /\ n + k - (n + k - 1) = 1
    BY <1>1
  <2>2. u[1] = b
    BY DEF Leads
  <2> QED
    BY <1>3, <1>4, <2>1, <2>2
<1>7. ASSUME NEW i \in 1 .. Len(w) - 1 PROVE {w[i], w[i + 1]} \in graph
  <2>1. CASE i < n
    <3>1. i \in 1 .. n - 1 /\ i \in 1 .. n /\ i + 1 \in 1 .. n
      BY <1>1, <2>1
    <3>2. {t[i], t[i + 1]} \in graph
      BY <3>1 DEF Leads
    <3> QED
      BY <1>3, <3>1, <3>2
  <2>2. CASE i >= n
    <3>1. PICK j \in 1 .. k - 1 : j = n + k - i - 1
      <4>1. n + k - i - 1 \in 1 .. k - 1
        BY <1>1, <1>3, <2>2
      <4> QED
        BY <4>1
    <3>2. /\ i \in n .. n + k - 1 /\ n + k - i = j + 1
          /\ i + 1 \in n .. n + k - 1 /\ n + k - (i + 1) = j
      BY <1>1, <1>3, <2>2, <3>1
    <3>3. w[i] = u[j + 1] /\ w[i + 1] = u[j]
      BY <1>4, <3>2
    <3>4. {u[j], u[j + 1]} \in graph
      BY <3>1 DEF Leads
    <3>5. {u[j], u[j + 1]} = {u[j + 1], u[j]}
      OBVIOUS
    <3> QED
      BY <3>3, <3>4, <3>5
  <2>3. i \in Nat
    OBVIOUS
  <2> QED
    BY <1>1, <2>1, <2>2, <2>3
<1>8. ASSUME NEW i \in 1 .. Len(w), NEW j \in 1 .. Len(w), w[i] = w[j], i <= j PROVE i = j
  <2>1. CASE j <= n
    <3>1. i \in 1 .. n /\ j \in 1 .. n
      BY <1>1, <1>3, <1>8, <2>1
    <3>2. t[i] = t[j]
      BY <1>3, <1>8, <3>1
    <3> QED
      BY <3>1, <3>2 DEF Leads
  <2>2. CASE i >= n
    <3>1. PICK x \in 1 .. k, y \in 1 .. k : x = n + k - i /\ y = n + k - j
      <4>1. n + k - i \in 1 .. k /\ n + k - j \in 1 .. k
        BY <1>1, <1>3, <1>8, <2>2
      <4> QED
        BY <4>1
    <3>2. i \in n .. n + k - 1 /\ j \in n .. n + k - 1
      BY <1>1, <1>3, <1>8, <2>2
    <3>3. u[x] = u[y]
      BY <1>4, <1>8, <3>1, <3>2
    <3>4. x = y
      BY <3>1, <3>3 DEF Leads
    <3> QED
      BY <1>1, <3>1, <3>4
  <2>3. CASE i < n /\ j > n
    <3>1. PICK y \in 1 .. k - 1 : y = n + k - j
      <4>1. n + k - j \in 1 .. k - 1
        BY <1>1, <1>3, <2>3
      <4> QED
        BY <4>1
    <3>2. i \in 1 .. n /\ j \in n .. n + k - 1 /\ y \in 1 .. k /\ k \in 1 .. k /\ n \in 1 .. n
      BY <1>1, <1>3, <2>3
    <3>3. t[i] = u[y]
      BY <1>3, <1>4, <1>8, <3>1, <3>2
    <3>4. t[i] = m
      BY <3>2, <3>3 DEF MeetAt
    <3>5. t[n] = m /\ \A p, q \in 1 .. n : t[p] = t[q] => p = q
      BY DEF Leads
    <3>6. i = n
      BY <3>2, <3>4, <3>5
    <3> QED
      BY <1>1, <2>3, <3>6
  <2>4. i \in Nat /\ j \in Nat
    OBVIOUS
  <2> QED
    BY <1>1, <2>1, <2>2, <2>3, <2>4
<1>9. \A i, j \in 1 .. Len(w) : w[i] = w[j] => i = j
  <2> SUFFICES ASSUME NEW i \in 1 .. Len(w), NEW j \in 1 .. Len(w), w[i] = w[j] PROVE i = j
    OBVIOUS
  <2>1. i <= j \/ j <= i
    OBVIOUS
  <2> QED
    BY <1>8, <2>1
<1>10. Len(w) >= 1
  BY <1>1, <1>3
<1>11. Leads(w, a, b, graph) /\ Len(w) = n + k - 1
  BY <1>3, <1>5, <1>6, <1>7, <1>9, <1>10 DEF Leads
<1> QED
  BY <1>11 DEF w

LEMMA LeadsOn ==
    ASSUME NEW graph, NEW larger, graph \subseteq larger, NEW t, NEW a, NEW b, Leads(t, a, b, graph)
    PROVE  Leads(t, a, b, larger)
BY DEF Leads

(* A trail one link further. *)
LEMMA Further ==
    ASSUME NEW graph, NEW a, NEW n, NEW t, NEW seen, Leads(t, a, n, graph), Past(t, seen),
           NEW m \in Subscribers, m \notin seen, {n, m} \in graph
    PROVE  /\ Leads(Append(t, m), a, m, graph)
           /\ Len(Append(t, m)) = Len(t) + 1
           /\ Past(Append(t, m), seen \cup {m})
<1> DEFINE w == Append(t, m)
           k == Len(t)
<1>1. t \in Seq(Subscribers) /\ k \in Nat \ {0} /\ t[1] = a /\ t[k] = n
  BY DEF Leads
<1>2. /\ w \in Seq(Subscribers) /\ Len(w) = k + 1 /\ w[k + 1] = m
      /\ \A i \in 1 .. k : w[i] = t[i]
  BY <1>1
<1> HIDE DEF w
<1>3. Past(w, seen \cup {m})
  BY <1>1, <1>2 DEF Past
<1>4. w[1] = a
  BY <1>1, <1>2
<1>5. ASSUME NEW i \in 1 .. Len(w) - 1 PROVE {w[i], w[i + 1]} \in graph
  <2>1. CASE i = k
    <3>1. k \in 1 .. k
      BY <1>1
    <3>2. w[i] = n /\ w[i + 1] = m
      BY <1>1, <1>2, <2>1, <3>1
    <3> QED
      BY <3>2
  <2>2. CASE i # k
    <3>1. i \in 1 .. k - 1 /\ i \in 1 .. k /\ i + 1 \in 1 .. k
      BY <1>1, <1>2, <2>2
    <3>2. {t[i], t[i + 1]} \in graph
      BY <3>1 DEF Leads
    <3> QED
      BY <1>2, <3>1, <3>2
  <2> QED
    BY <2>1, <2>2
<1>6. ASSUME NEW i \in 1 .. Len(w), NEW j \in 1 .. Len(w), w[i] = w[j] PROVE i = j
  <2>1. \A x \in 1 .. k : t[x] # m
    BY DEF Past
  <2>2. \A x, y \in 1 .. k : t[x] = t[y] => x = y
    BY DEF Leads
  <2>3. i \in 1 .. k \/ i = k + 1
    BY <1>1, <1>2
  <2>4. j \in 1 .. k \/ j = k + 1
    BY <1>1, <1>2
  <2> QED
    BY <1>1, <1>2, <1>6, <2>1, <2>2, <2>3, <2>4
<1>7. Leads(w, a, m, graph)
  BY <1>1, <1>2, <1>4, <1>5, <1>6 DEF Leads
<1> QED
  BY <1>2, <1>3, <1>7 DEF w

-----------------------------------------------------------------------------
LEMMA InvInit == Init => IInv
<1> SUFFICES ASSUME Init PROVE IInv
  OBVIOUS
<1>a. grown = 0 /\ hop = 0 /\ visited = 0 /\ side = 1 /\ carried = 0
  BY Zenon DEF Init
<1>b. left = {} /\ ends = <<>> /\ found_on = {} /\ pc = "idle" /\ answer = ""
  BY Zenon DEF Init
<1>f. route = <<>>
  BY Zenon DEF Init
<1>c. links \in SUBSET {l \in Links : Cardinality(l) = 2}
  BY Zenon DEF Init
<1>d. trail = <<<<>>, <<>>>>
  BY Zenon DEF Init
<1>e. frontier = <<{}, {}>>
  BY Zenon DEF Init
<1>1. /\ trail[1] = <<>> /\ trail[2] = <<>> /\ DOMAIN trail = 1 .. 2
      /\ frontier[1] = {} /\ frontier[2] = {} /\ DOMAIN frontier = 1 .. 2
  <2>1. trail[1] = <<>> /\ trail[2] = <<>>
    BY <1>d
  <2>2. DOMAIN trail = 1 .. 2
    BY <1>d
  <2>3. frontier[1] = {} /\ frontier[2] = {} /\ DOMAIN frontier = 1 .. 2
    BY <1>e
  <2> QED
    BY <2>1, <2>2, <2>3
<1>2. \A s \in Sides : Seen(s) = {}
  BY <1>1 DEF Seen, Sides
<1>3. TypeOK
  <2>1. Seen(1) = {} /\ Seen(2) = {}
    BY <1>2 DEF Sides
  <2>2. links \in SUBSET Links /\ found_on \in SUBSET links
    BY <1>b, <1>c
  <2>3. grown \in 0 .. MaxGrow /\ hop \in 0 .. MaxHops /\ visited \in 0 .. MaxVisited /\ carried \in Nat
    BY <1>a
  <2>4. \A s \in Sides : frontier[s] \in SUBSET Seen(s) /\ Seen(s) \in SUBSET Subscribers
    BY <1>1, <1>2 DEF Sides
  <2>5. left \in SUBSET Subscribers /\ side \in Sides
    BY <1>a, <1>b DEF Sides
  <2>6. route \in Seq(Subscribers)
    BY <1>f
  <2> QED
    BY <1>b, <2>1, <2>2, <2>3, <2>4, <2>5, <2>6 DEF TypeOK
<1>4. Shape
  BY <1>1 DEF Shape, IsPair
<1>5. Trails
  BY <1>2 DEF Trails
<1>6. Budget
  <2>1. [s \in Sides |-> 0] \in [Sides -> Nat]
    OBVIOUS
  <2>2. Rounds([s \in Sides |-> 0])
    <3>1. [s \in Sides |-> 0][1] = 0 /\ [s \in Sides |-> 0][2] = 0 /\ hop = 0 /\ pc = "idle"
      BY <1>a, <1>b DEF Sides
    <3> QED
      BY <3>1 DEF Rounds
  <2> QED
    BY <2>1, <2>2 DEF Budget
<1>7. Unasked /\ RouteLeads /\ Searching
  BY <1>a, <1>b, <1>f, <1>2 DEF Unasked, RouteLeads, Searching, Sides
<1> QED
  BY <1>3, <1>4, <1>5, <1>6, <1>7 DEF IInv

LEMMA GrowKeeps ==
    ASSUME IInv, NEW l \in Links, Grow(l)
    PROVE  IInv'
<1>1. /\ links \subseteq links' /\ trail' = trail /\ ends' = ends /\ frontier' = frontier
      /\ route' = route /\ hop' = hop /\ pc' = pc /\ left' = left /\ side' = side
      /\ \A s : Seen(s)' = Seen(s)
  BY DEF Grow, search, Seen
<1>2. TypeOK'
  <2>1. links' \in SUBSET Links /\ found_on' \in SUBSET links'
    BY DEF IInv, TypeOK, Grow, search
  <2>3. grown' \in 0 .. MaxGrow
    <3>1. grown \in 0 .. MaxGrow
      BY Zenon DEF IInv, TypeOK
    <3>2. grown < MaxGrow /\ grown' = grown + 1
      BY Zenon DEF Grow
    <3> QED
      BY <3>1, <3>2
  <2>2. /\ \A s \in Sides : frontier'[s] \in SUBSET Seen(s)' /\ Seen(s)' \in SUBSET Subscribers
        /\ Seen(1)' \cap Seen(2)' = {}
    BY <1>1 DEF IInv, TypeOK
  <2> QED
    BY <1>1, <2>1, <2>2, <2>3 DEF IInv, TypeOK, Grow, search
<1>3. Trails'
  BY <1>1, LeadsOn DEF IInv, Trails
<1>4. Shape' /\ Unasked' /\ Searching' /\ Budget'
  BY <1>1 DEF IInv, Shape, Unasked, Searching, Budget, Rounds
<1>5. RouteLeads'
  BY <1>1, LeadsOn DEF IInv, RouteLeads
<1> QED
  BY <1>2, <1>3, <1>4, <1>5 DEF IInv

(* Steps that leave the graph, the parties and the trails alone. *)
LEMMA SameTrails ==
    ASSUME IInv, links' = links, ends' = ends, trail' = trail
    PROVE  /\ Trails' /\ \A s \in Sides : Seen(s)' = Seen(s)
           /\ route' = route => RouteLeads'
<1>1. \A s \in Sides : Seen(s)' = Seen(s)
  BY DEF Seen
<1>2. Trails'
  BY <1>1 DEF IInv, Trails
<1>3. route' = route => RouteLeads'
  BY DEF IInv, RouteLeads
<1> QED
  BY <1>1, <1>2, <1>3

LEMMA TypesOfTrails ==
    ASSUME IInv, NEW s \in Sides
    PROVE  /\ frontier[s] \subseteq Seen(s) /\ Seen(s) \subseteq Subscribers
           /\ \A n \in Seen(s) : Len(trail[s][n]) \in Nat
<1>1. frontier[s] \subseteq Seen(s) /\ Seen(s) \subseteq Subscribers
  BY DEF IInv, TypeOK
<1>2. ASSUME NEW n \in Seen(s) PROVE Len(trail[s][n]) \in Nat
  <2>1. trail[s][n] \in Seq(Subscribers)
    BY DEF IInv, Trails, Leads
  <2> QED
    BY <2>1
<1> QED
  BY <1>1, <1>2

LEMMA CarriedKeeps ==
    ASSUME IInv, Carried
    PROVE  IInv'
<1>1. /\ links' = links /\ trail' = trail /\ ends' = ends /\ frontier' = frontier
      /\ route' = route /\ hop' = hop /\ side' = side /\ left' = left
      /\ grown' = grown /\ found_on' = found_on /\ visited' = visited
  BY DEF Carried, search
<1>2. pc = "hops" /\ pc' \in {"hops", "answered"}
  BY DEF Carried, Answer
<1>3. carried' \in Nat
  <2>1. carried \in Nat
    BY Zenon DEF IInv, TypeOK
  <2>2. carried' = carried \/ carried' = carried + 1
    BY Zenon DEF Carried
  <2> QED
    BY <2>1, <2>2
<1>4. answer' \in {"", "found", "none", "gave_up", "down"}
  <2>1. answer \in {"", "found", "none", "gave_up", "down"}
    BY Zenon DEF IInv, TypeOK
  <2>2. answer' \in {answer, "found", "down"}
    BY DEF Carried, Answer
  <2> QED
    BY <2>1, <2>2
<1>5. TypeOK'
  BY <1>1, <1>2, <1>3, <1>4 DEF IInv, TypeOK, Seen
<1>6. Trails' /\ RouteLeads'
  BY <1>1, SameTrails
<1>7. Shape'
  BY <1>1 DEF IInv, Shape
<1>8. Budget'
  BY <1>1, <1>2 DEF IInv, Budget, Rounds
<1>9. Unasked' /\ Searching'
  BY <1>2 DEF Unasked, Searching
<1> QED
  BY <1>5, <1>6, <1>7, <1>8, <1>9 DEF IInv

LEMMA HopKeeps ==
    ASSUME IInv, Hop
    PROVE  IInv'
<1>1. /\ links' = links /\ trail' = trail /\ ends' = ends /\ route' = route /\ hop' = hop
      /\ grown' = grown /\ found_on' = found_on /\ visited' = visited /\ carried' = carried
      /\ pc = "hop"
  BY DEF Hop
<1>2. Trails' /\ RouteLeads' /\ \A s \in Sides : Seen(s)' = Seen(s)
  BY <1>1, SameTrails
<1>3. Searching'
  BY <1>1 DEF IInv, Searching
<1>4. PICK h \in [Sides -> Nat] : Rounds(h)
  BY DEF IInv, Budget
<1>5. CASE hop = MaxHops
  <2>1. /\ pc' = "answered" /\ answer' = "none" /\ side' = side /\ left' = left
        /\ frontier' = frontier
    BY <1>5 DEF Hop, Answer
  <2>2. TypeOK'
    BY <1>1, <1>2, <2>1 DEF IInv, TypeOK, Sides
  <2>3. Shape'
    BY <1>1, <2>1 DEF IInv, Shape
  <2>4. Budget'
    <3>1. Rounds(h)'
      BY <1>1, <1>4, <2>1 DEF Rounds
    <3> QED
      BY <3>1 DEF Budget
  <2>5. Unasked'
    BY <2>1 DEF Unasked
  <2> QED
    BY <1>2, <1>3, <2>2, <2>3, <2>4, <2>5 DEF IInv
<1>6. CASE hop # MaxHops
  <2>1. PICK s \in Sides :
            /\ side' = s /\ left' = frontier[s] /\ frontier' = [frontier EXCEPT ![s] = {}]
            /\ pc' = "expand" /\ answer' = answer
    <3>1. (IF Cardinality(frontier[1]) <= Cardinality(frontier[2]) THEN 1 ELSE 2) \in Sides
      BY DEF Sides
    <3> QED
      BY <1>6, <3>1 DEF Hop
  <2>2. Shape'
    BY <1>1, <2>1 DEF IInv, Shape, IsPair
  <2>3. \A r \in Sides : frontier'[r] \subseteq frontier[r]
    BY <2>1 DEF IInv, Shape, IsPair, Sides
  <2>4. TypeOK'
    <3>1. \A r \in Sides : frontier'[r] \in SUBSET Seen(r)' /\ Seen(r)' \in SUBSET Subscribers
      BY <1>2, <2>3, TypesOfTrails
    <3>2. left' \in SUBSET Subscribers
      BY <2>1, TypesOfTrails
    <3>3. Seen(1)' \cap Seen(2)' = {}
      BY <1>2 DEF IInv, TypeOK, Sides
    <3> QED
      BY <1>1, <2>1, <3>1, <3>2, <3>3 DEF IInv, TypeOK
  <2>5. Rounds(h)'
    <3>1. hop < MaxHops
      <4>1. hop \in 0 .. MaxHops
        BY Zenon DEF IInv, TypeOK
      <4> QED
        BY <1>6, <4>1
    <3>2. h[1] + h[2] = hop /\ \A r \in Sides : \A n \in Seen(r) : Len(trail[r][n]) <= h[r] + 1
      BY <1>1, <1>4 DEF Rounds
    <3>3. \A r \in Sides : \A n \in Seen(r) : Len(trail[r][n]) <= h[r] + 2
      BY <3>2, TypesOfTrails
    <3>4. s \in Sides /\ 3 - s \in Sides /\ left' \subseteq Seen(s)
      BY <2>1, TypesOfTrails DEF Sides
    <3> QED
      BY <1>1, <1>2, <2>1, <3>1, <3>2, <3>3, <3>4 DEF Rounds
  <2>6. Budget'
    BY <2>5 DEF Budget
  <2>7. Unasked'
    BY <2>1 DEF Unasked
  <2> QED
    BY <1>2, <1>3, <2>2, <2>4, <2>6, <2>7 DEF IInv
<1> QED
  BY <1>5, <1>6

LEMMA EndHopKeeps ==
    ASSUME IInv, EndHop
    PROVE  IInv'
<1>1. /\ links' = links /\ trail' = trail /\ ends' = ends /\ route' = route /\ left' = left
      /\ grown' = grown /\ found_on' = found_on /\ visited' = visited /\ carried' = carried
      /\ side' = side /\ frontier' = frontier /\ pc = "expand"
  BY DEF EndHop
<1>2. Trails' /\ RouteLeads' /\ \A s \in Sides : Seen(s)' = Seen(s)
  BY <1>1, SameTrails
<1>3. Searching'
  BY <1>1 DEF IInv, Searching
<1>4. PICK h \in [Sides -> Nat] : Rounds(h)
  BY DEF IInv, Budget
<1>5. hop < MaxHops /\ hop \in Nat /\ MaxHops \in Nat
  <2>1. hop \in 0 .. MaxHops
    BY Zenon DEF IInv, TypeOK
  <2> QED
    BY <1>1, <1>4, <2>1 DEF Rounds
<1>6. /\ pc' \in {"answered", "hop"} /\ answer' \in {answer, "none"}
      /\ hop' = hop \/ (hop' = hop + 1 /\ pc' = "hop")
      /\ pc' = "hop" => hop' = hop + 1
  BY DEF EndHop, Answer
<1>7. TypeOK'
  <2>1. hop' \in 0 .. MaxHops
    BY <1>5, <1>6
  <2>2. answer' \in {"", "found", "none", "gave_up", "down"}
    BY <1>6 DEF IInv, TypeOK
  <2>3. Seen(1)' = Seen(1) /\ Seen(2)' = Seen(2)
    BY <1>2 DEF Sides
  <2> QED
    BY <1>1, <1>2, <1>6, <2>1, <2>2, <2>3 DEF IInv, TypeOK
<1>8. Shape'
  BY <1>1 DEF IInv, Shape
<1>9. Unasked'
  BY <1>6 DEF Unasked
<1>10. Budget'
  <2>1. CASE pc' = "answered" /\ hop' = hop
    <3>1. Rounds(h)'
      BY <1>4, <2>1 DEF Rounds
    <3> QED
      BY <3>1 DEF Budget
  <2>2. CASE pc' = "hop" /\ hop' = hop + 1
    <3>1. side = 1 \/ side = 2
      BY DEF IInv, TypeOK, Sides
    <3>2. PICK k \in [Sides -> Nat] : k[side] = h[side] + 1 /\ k[3 - side] = h[3 - side]
      <4>1. /\ [h EXCEPT ![side] = @ + 1] \in [Sides -> Nat]
            /\ [h EXCEPT ![side] = @ + 1][side] = h[side] + 1
            /\ [h EXCEPT ![side] = @ + 1][3 - side] = h[3 - side]
        BY <3>1 DEF Sides
      <4> QED
        BY <4>1
    <3>3. h[1] + h[2] = hop /\ h[1] \in Nat /\ h[2] \in Nat
      BY <1>4 DEF Rounds, Sides
    <3>4. k[1] + k[2] = hop'
      BY <1>5, <2>2, <3>1, <3>2, <3>3
    <3>5. /\ \A n \in Seen(side) : Len(trail[side][n]) <= h[side] + 2
          /\ \A n \in Seen(3 - side) : Len(trail[3 - side][n]) <= h[3 - side] + 1
      BY <1>1, <1>4 DEF Rounds
    <3>6. /\ \A n \in Seen(side) : Len(trail[side][n]) <= k[side] + 1
          /\ \A n \in Seen(3 - side) : Len(trail[3 - side][n]) <= k[3 - side] + 1
      <4>1. k[side] + 1 = h[side] + 2
        BY <3>1, <3>2, <3>3
      <4> QED
        BY <3>2, <3>5, <4>1
    <3>7. \A s \in Sides : \A n \in Seen(s) : Len(trail[s][n]) <= k[s] + 1
      <4>1. CASE side = 1
        <5>1. 3 - side = 2
          BY <4>1
        <5> QED
          BY <3>6, <4>1, <5>1 DEF Sides
      <4>2. CASE side = 2
        <5>1. 3 - side = 1
          BY <4>2
        <5> QED
          BY <3>6, <4>2, <5>1 DEF Sides
      <4> QED
        BY <3>1, <4>1, <4>2
    <3>8. Rounds(k)'
      BY <1>1, <1>2, <2>2, <3>4, <3>7 DEF Rounds
    <3> QED
      BY <3>2, <3>8 DEF Budget
  <2>3. CASE pc' = "answered" /\ hop' # hop
    BY <1>6, <2>3
  <2> QED
    BY <1>6, <2>1, <2>2, <2>3
<1> QED
  BY <1>2, <1>3, <1>7, <1>8, <1>9, <1>10 DEF IInv

LEMMA Alone ==
    ASSUME NEW a \in Subscribers, NEW graph
    PROVE  Leads(<<a>>, a, a, graph) /\ Len(<<a>>) = 1 /\ Past(<<a>>, {a})
<1>1. <<a>> \in Seq(Subscribers) /\ Len(<<a>>) = 1 /\ <<a>>[1] = a
  OBVIOUS
<1> QED
  BY <1>1 DEF Leads, Past

LEMMA RequestKeeps ==
    ASSUME IInv, NEW a \in Subscribers, NEW b \in Subscribers, Request(a, b)
    PROVE  IInv'
<1>1. /\ links' = links /\ grown' = grown /\ visited' = visited /\ side' = side /\ left' = left
      /\ hop' = hop /\ carried' = carried /\ ends' = <<a, b>> /\ found_on' = links
      /\ pc = "idle"
  BY DEF Request
<1>2. hop = 0 /\ route = <<>> /\ Seen(1) = {} /\ Seen(2) = {}
  BY <1>1 DEF IInv, Unasked
<1>3. ends'[1] = a /\ ends'[2] = b /\ ends' \in Subscribers \X Subscribers
  BY <1>1
<1>4. PICK h \in [Sides -> Nat] : h[1] = 0 /\ h[2] = 0
  <2>1. [s \in Sides |-> 0] \in [Sides -> Nat] /\ [s \in Sides |-> 0][1] = 0 /\ [s \in Sides |-> 0][2] = 0
    BY DEF Sides
  <2> QED
    BY <2>1
<1>5. /\ links' \in SUBSET Links /\ found_on' \in SUBSET links' /\ side' \in Sides
      /\ left' \in SUBSET Subscribers
  BY <1>1 DEF IInv, TypeOK
<1>6. grown' \in 0 .. MaxGrow /\ hop' \in 0 .. MaxHops /\ visited' \in 0 .. MaxVisited /\ carried' \in Nat
  BY <1>1 DEF IInv, TypeOK
<1>7. CASE a = b
  <2>1. /\ route' = <<a>> /\ frontier' = frontier /\ trail' = trail
        /\ pc' \in {"answered", "hops"} /\ answer' \in {answer, "found"}
    BY <1>7 DEF Request, Found, Answer
  <2>2. \A s \in Sides : Seen(s)' = {} /\ frontier'[s] = {}
    <3>1. \A s \in Sides : Seen(s) = {} /\ Seen(s)' = Seen(s)
      BY <1>2, <2>1 DEF Sides, Seen
    <3> QED
      BY <2>1, <3>1, TypesOfTrails
  <2>3. TypeOK'
    <3>1. route' \in Seq(Subscribers)
      BY <2>1
    <3>2. answer' \in {"", "found", "none", "gave_up", "down"}
      BY <2>1 DEF IInv, TypeOK
    <3>3. /\ \A s \in Sides : frontier'[s] \in SUBSET Seen(s)' /\ Seen(s)' \in SUBSET Subscribers
          /\ Seen(1)' \cap Seen(2)' = {}
      BY <2>2 DEF Sides
    <3> QED
      BY <1>3, <1>5, <1>6, <2>1, <3>1, <3>2, <3>3 DEF TypeOK
  <2>4. Shape'
    BY <2>1 DEF IInv, Shape
  <2>5. Trails'
    BY <2>2 DEF Trails
  <2>6. Budget'
    <3>1. Rounds(h)'
      BY <1>1, <1>2, <1>4, <2>1 DEF Rounds
    <3> QED
      BY <3>1 DEF Budget
  <2>7. RouteLeads'
    <3>1. Leads(<<a>>, a, a, links') /\ Len(<<a>>) = 1
      BY Alone
    <3> QED
      BY <1>3, <1>7, <2>1, <3>1 DEF RouteLeads
  <2>8. Unasked' /\ Searching'
    BY <2>1 DEF Unasked, Searching
  <2> QED
    BY <2>3, <2>4, <2>5, <2>6, <2>7, <2>8 DEF IInv
<1>8. CASE a # b
  <2>1. /\ route' = route /\ frontier' = <<{a}, {b}>> /\ pc' = "hop" /\ answer' = answer
        /\ trail' = <<[n \in {a} |-> <<a>>], [n \in {b} |-> <<b>>]>>
    BY <1>8 DEF Request
  <2>2. /\ trail'[1] = [n \in {a} |-> <<a>>] /\ trail'[2] = [n \in {b} |-> <<b>>]
        /\ DOMAIN trail' = 1 .. 2
    BY <2>1
  <2>3. Seen(1)' = {a} /\ Seen(2)' = {b}
    BY <2>2 DEF Seen
  <2>4. frontier'[1] = {a} /\ frontier'[2] = {b} /\ DOMAIN frontier' = 1 .. 2
    BY <2>1
  <2>5. TypeOK'
    <3>1. /\ \A s \in Sides : frontier'[s] \in SUBSET Seen(s)' /\ Seen(s)' \in SUBSET Subscribers
          /\ Seen(1)' \cap Seen(2)' = {}
      BY <1>8, <2>3, <2>4 DEF Sides
    <3>2. route' \in Seq(Subscribers) /\ answer' \in {"", "found", "none", "gave_up", "down"}
      BY <2>1 DEF IInv, TypeOK
    <3> QED
      BY <1>3, <1>5, <1>6, <2>1, <3>1, <3>2 DEF TypeOK
  <2>6. Shape'
    BY <2>2, <2>4 DEF Shape, IsPair
  <2>7. \A s \in Sides : \A n \in Seen(s)' :
            /\ n \in Subscribers /\ ends'[s] = n /\ trail'[s][n] = <<n>> /\ Seen(s)' = {n}
    BY <1>3, <2>2, <2>3 DEF Sides
  <2>8. Trails'
    <3> SUFFICES ASSUME NEW s \in Sides, NEW n \in Seen(s)'
                 PROVE  (Leads(trail[s][n], ends[s], n, links) /\ Past(trail[s][n], Seen(s)))'
      BY DEF Trails
    <3>1. n \in Subscribers /\ ends'[s] = n /\ trail'[s][n] = <<n>> /\ Seen(s)' = {n}
      BY <2>7
    <3>2. Leads(<<n>>, n, n, links') /\ Past(<<n>>, {n})
      BY <3>1, Alone
    <3> QED
      BY <3>1, <3>2
  <2>9. Rounds(h)'
    <3>1. \A s \in Sides : \A n \in Seen(s)' : Len(trail'[s][n]) = 1
      BY <2>7, Alone
    <3>2. \A s \in Sides : h[s] + 1 = 1
      BY <1>4 DEF Sides
    <3>3. ASSUME NEW s \in Sides, NEW n \in Seen(s)' PROVE Len(trail'[s][n]) <= h[s] + 1
      <4>1. Len(trail'[s][n]) = 1 /\ h[s] + 1 = 1
        BY <3>1, <3>2
      <4> QED
        BY <4>1
    <3>4. h[1] + h[2] = hop' /\ pc' = "hop"
      BY <1>1, <1>2, <1>4, <2>1
    <3> QED
      BY <3>3, <3>4 DEF Rounds
  <2>10. Budget'
    BY <2>9 DEF Budget
  <2>11. Unasked' /\ Searching' /\ RouteLeads'
    BY <1>2, <2>1 DEF Unasked, Searching, RouteLeads
  <2> QED
    BY <2>5, <2>6, <2>8, <2>10, <2>11 DEF IInv
<1> QED
  BY <1>7, <1>8

(* The way to a subscriber after one more read. *)
Way(n, m) ==
    IF m \in Peers(n) \ Seen(side) THEN Append(trail[side][n], m) ELSE trail[side][m]

LEMMA Apart ==
    ASSUME IInv
    PROVE  /\ side \in Sides /\ 3 - side \in Sides /\ side # 3 - side
           /\ \A s \in Sides : s = side \/ s = 3 - side
           /\ Seen(side) \cap Seen(3 - side) = {}
<1>1. side = 1 \/ side = 2
  BY DEF IInv, TypeOK, Sides
<1>2. Seen(1) \cap Seen(2) = {}
  BY DEF IInv, TypeOK
<1>3. CASE side = 1
  <2>1. 3 - side = 2
    BY <1>3
  <2> QED
    BY <1>2, <1>3, <2>1 DEF Sides
<1>4. CASE side = 2
  <2>1. 3 - side = 1
    BY <1>4
  <2> QED
    BY <1>2, <1>4, <2>1 DEF Sides
<1> QED
  BY <1>1, <1>3, <1>4

LEMMA WayLeads ==
    ASSUME IInv, pc = "expand", NEW n \in left, NEW h \in [Sides -> Nat], Rounds(h),
           NEW m \in Seen(side) \cup (Peers(n) \ Seen(side))
    PROVE  /\ Leads(Way(n, m), ends[side], m, links) /\ Past(Way(n, m), Seen(side) \cup {m})
           /\ Len(Way(n, m)) \in Nat /\ Len(Way(n, m)) <= h[side] + 2
<1>1. side \in Sides /\ h[side] \in Nat
  BY Apart
<1>2. n \in Seen(side) /\ Len(trail[side][n]) <= h[side] + 1
  BY DEF Rounds
<1>3. Leads(trail[side][n], ends[side], n, links) /\ Past(trail[side][n], Seen(side))
  BY <1>1, <1>2 DEF IInv, Trails
<1>4. CASE m \in Peers(n) \ Seen(side)
  <2>1. m \in Subscribers /\ {n, m} \in links /\ m \notin Seen(side)
    BY <1>4 DEF Peers
  <2>2. Way(n, m) = Append(trail[side][n], m)
    BY <1>4 DEF Way
  <2>3. /\ Leads(Append(trail[side][n], m), ends[side], m, links)
        /\ Len(Append(trail[side][n], m)) = Len(trail[side][n]) + 1
        /\ Past(Append(trail[side][n], m), Seen(side) \cup {m})
    BY <1>3, <2>1, Further
  <2>4. Len(trail[side][n]) \in Nat
    BY <1>1, <1>2, TypesOfTrails
  <2> QED
    BY <1>1, <1>2, <2>2, <2>3, <2>4
<1>5. CASE m \in Seen(side)
  <2>1. Way(n, m) = trail[side][m]
    BY <1>5 DEF Way
  <2>2. Leads(trail[side][m], ends[side], m, links) /\ Past(trail[side][m], Seen(side))
    BY <1>1, <1>5 DEF IInv, Trails
  <2>3. Len(trail[side][m]) \in Nat /\ Len(trail[side][m]) <= h[side] + 2
    BY <1>1, <1>5, TypesOfTrails DEF Rounds
  <2> QED
    BY <2>1, <2>2, <2>3 DEF Past
<1> QED
  BY <1>4, <1>5

(* Where the two sides meet, their trails join to a path. *)
LEMMA MeetingLeads ==
    ASSUME IInv, pc = "expand", NEW n \in left,
           NEW m \in (Peers(n) \ Seen(side)) \cap Seen(3 - side),
           NEW there, NEW back,
           \/ side = 1 /\ there = Way(n, m) /\ back = trail[2][m]
           \/ side = 2 /\ there = trail[1][m] /\ back = Way(n, m)
    PROVE  /\ Leads(Walk(there, back), ends[1], ends[2], links)
           /\ Len(Walk(there, back)) <= hop + 2 /\ hop < MaxHops
<1>1. PICK h \in [Sides -> Nat] : Rounds(h)
  BY DEF IInv, Budget
<1>2. /\ h[1] \in Nat /\ h[2] \in Nat /\ h[1] + h[2] = hop
      /\ hop < MaxHops /\ hop \in Nat /\ MaxHops \in Nat
  <2>1. hop \in 0 .. MaxHops
    BY Zenon DEF IInv, TypeOK
  <2>2. h[1] + h[2] = hop /\ hop < MaxHops
    BY <1>1 DEF Rounds
  <2>3. h[1] \in Nat /\ h[2] \in Nat
    BY DEF Sides
  <2> QED
    BY <2>1, <2>2, <2>3
<1>3. /\ Leads(Way(n, m), ends[side], m, links) /\ Past(Way(n, m), Seen(side) \cup {m})
      /\ Len(Way(n, m)) \in Nat /\ Len(Way(n, m)) <= h[side] + 2
  <2>1. m \in Seen(side) \cup (Peers(n) \ Seen(side))
    OBVIOUS
  <2> QED
    BY <1>1, <2>1, WayLeads
<1>4. /\ Leads(trail[3 - side][m], ends[3 - side], m, links)
      /\ Past(trail[3 - side][m], Seen(3 - side))
      /\ Len(trail[3 - side][m]) \in Nat /\ Len(trail[3 - side][m]) <= h[3 - side] + 1
  <2>1. 3 - side \in Sides
    BY Apart
  <2>2. m \in Seen(3 - side)
    OBVIOUS
  <2> QED
    BY <1>1, <2>1, <2>2, TypesOfTrails DEF IInv, Trails, Rounds
<1>5. MeetAt(Way(n, m), trail[3 - side][m], m) /\ MeetAt(trail[3 - side][m], Way(n, m), m)
  <2>1. Seen(side) \cap Seen(3 - side) = {}
    BY Apart
  <2>2. /\ \A i \in 1 .. Len(Way(n, m)) : Way(n, m)[i] \in Seen(side) \cup {m}
        /\ \A j \in 1 .. Len(trail[3 - side][m]) : trail[3 - side][m][j] \in Seen(3 - side)
    BY <1>3, <1>4 DEF Past
  <2> QED
    BY <2>1, <2>2 DEF MeetAt
<1>6. ASSUME side = 1, there = Way(n, m), back = trail[2][m]
      PROVE  Leads(Walk(there, back), ends[1], ends[2], links) /\ Len(Walk(there, back)) <= hop + 2
  <2>1. 3 - side = 2
    BY <1>6
  <2>2. /\ Leads(there, ends[1], m, links) /\ Leads(back, ends[2], m, links)
        /\ Len(there) \in Nat /\ Len(there) <= h[1] + 2 /\ Len(back) \in Nat /\ Len(back) <= h[2] + 1
    BY <1>3, <1>4, <1>6, <2>1
  <2>3. MeetAt(there, back, m)
    BY <1>5, <1>6, <2>1
  <2>4. /\ Leads(Walk(there, back), ends[1], ends[2], links)
        /\ Len(Walk(there, back)) = Len(there) + Len(back) - 1
    <3>1. Leads(there, ends[1], m, links) /\ Leads(back, ends[2], m, links)
      BY <2>2
    <3> QED
      BY ONLY <2>3, <3>1, WalkLeads
  <2> QED
    BY <1>2, <2>2, <2>4
<1>7. ASSUME side = 2, there = trail[1][m], back = Way(n, m)
      PROVE  Leads(Walk(there, back), ends[1], ends[2], links) /\ Len(Walk(there, back)) <= hop + 2
  <2>1. 3 - side = 1
    BY <1>7
  <2>2. /\ Leads(there, ends[1], m, links) /\ Leads(back, ends[2], m, links)
        /\ Len(there) \in Nat /\ Len(there) <= h[1] + 1 /\ Len(back) \in Nat /\ Len(back) <= h[2] + 2
    BY <1>3, <1>4, <1>7, <2>1
  <2>3. MeetAt(there, back, m)
    BY <1>5, <1>7, <2>1
  <2>4. /\ Leads(Walk(there, back), ends[1], ends[2], links)
        /\ Len(Walk(there, back)) = Len(there) + Len(back) - 1
    <3>1. Leads(there, ends[1], m, links) /\ Leads(back, ends[2], m, links)
      BY <2>2
    <3> QED
      BY ONLY <2>3, <3>1, WalkLeads
  <2> QED
    BY <1>2, <2>2, <2>4
<1> QED
  BY <1>2, <1>6, <1>7

(* The level goes on: one side has reached more, the other is as it was. *)
Reached(n) == [m \in Seen(side) \cup (Peers(n) \ Seen(side)) |-> Way(n, m)]

GoesOn(n) ==
    /\ Met(Peers(n) \ Seen(side)) = {} /\ visited + Fresh(n) <= MaxVisited
    /\ visited' = visited + Fresh(n) /\ left' = left \ {n}
    /\ frontier' = [frontier EXCEPT ![side] = @ \cup (Peers(n) \ Seen(side))]
    /\ trail' = [trail EXCEPT ![side] = Reached(n)]
    /\ pc' = pc /\ answer' = answer /\ route' = route

(* More is to be visited than the bound allows. *)
TooMany(n) ==
    visited + (Fresh(n) - Cardinality(Met(Peers(n) \ Seen(side)))) >= MaxVisited

Ends(n) ==
    /\ visited' = visited /\ left' = left /\ frontier' = frontier /\ trail' = trail
    /\ pc' \in {"hops", "answered"} /\ answer' \in {answer, "found", "down", "gave_up"}
    /\ pc' = "hops" => answer' = answer
    /\ answer' \in {answer, "found", "down"} \/ TooMany(n)
    /\ \/ route' = route
       \/ \E m \in (Peers(n) \ Seen(side)) \cap Seen(3 - side) :
              \/ side = 1 /\ route' = Walk(Way(n, m), trail[2][m])
              \/ side = 2 /\ route' = Walk(trail[1][m], Way(n, m))

LEMMA ExpandCases ==
    ASSUME IInv, NEW n \in Subscribers, Expand(n)
    PROVE  /\ links' = links /\ grown' = grown /\ ends' = ends /\ found_on' = found_on
           /\ hop' = hop /\ side' = side /\ carried' = carried /\ pc = "expand" /\ n \in left
           /\ Ends(n) \/ GoesOn(n)
<1> DEFINE peers == Peers(n) \ Seen(side)
           reached == [m \in Seen(side) \cup peers |->
                          IF m \in peers THEN Append(trail[side][n], m) ELSE trail[side][m]]
           way(s, m) == IF s = side THEN reached[m] ELSE trail[s][m]
<1>1. /\ links' = links /\ grown' = grown /\ ends' = ends /\ found_on' = found_on
      /\ hop' = hop /\ side' = side /\ carried' = carried /\ pc = "expand" /\ n \in left
  BY DEF Expand
<1>2. reached = Reached(n)
  BY DEF Reached, Way
<1>3. side = 1 \/ side = 2
  BY DEF IInv, TypeOK, Sides
<1>4. \/ /\ Answer("down")
         /\ visited' = visited /\ left' = left /\ frontier' = frontier /\ trail' = trail /\ route' = route
      \/ \E m \in Met(peers) :
         /\ Found(Walk(way(1, m), way(2, m)))
         /\ visited' = visited /\ left' = left /\ frontier' = frontier /\ trail' = trail
      \/ /\ TooMany(n) /\ Answer("gave_up")
         /\ visited' = visited /\ left' = left /\ frontier' = frontier /\ trail' = trail /\ route' = route
      \/ /\ Met(peers) = {} /\ visited + Fresh(n) <= MaxVisited /\ visited' = visited + Fresh(n)
         /\ left' = LevelOnly(n, peers)
         /\ frontier' = [frontier EXCEPT ![side] = @ \cup peers]
         /\ trail' = [trail EXCEPT ![side] = reached]
         /\ pc' = pc /\ answer' = answer /\ route' = route
  BY Zenon DEF Expand, TooMany
<1>5. ASSUME Answer("down") \/ (TooMany(n) /\ Answer("gave_up")), visited' = visited, left' = left,
             frontier' = frontier, trail' = trail, route' = route
      PROVE  Ends(n)
  BY <1>5 DEF Ends, Answer
<1>6. ASSUME NEW m \in Met(peers), Found(Walk(way(1, m), way(2, m))), visited' = visited,
             left' = left, frontier' = frontier, trail' = trail
      PROVE  Ends(n)
  <2>1. m \in peers \cap Seen(3 - side)
    BY DEF Met
  <2>2. reached[m] = Way(n, m)
    BY <2>1 DEF Way
  <2>3. \/ side = 1 /\ way(1, m) = Way(n, m) /\ way(2, m) = trail[2][m]
        \/ side = 2 /\ way(1, m) = trail[1][m] /\ way(2, m) = Way(n, m)
    BY <1>3, <2>2
  <2> HIDE DEF way, reached, peers
  <2>4. /\ route' = Walk(way(1, m), way(2, m))
        /\ pc' \in {"hops", "answered"} /\ answer' \in {answer, "found"}
        /\ pc' = "hops" => answer' = answer
    BY <1>6 DEF Found, Answer
  <2>5. \/ side = 1 /\ route' = Walk(Way(n, m), trail[2][m])
        \/ side = 2 /\ route' = Walk(trail[1][m], Way(n, m))
    BY <2>3, <2>4
  <2> QED
    BY <1>6, <2>1, <2>4, <2>5 DEF Ends, peers
<1>7. ASSUME Met(peers) = {}, visited + Fresh(n) <= MaxVisited, visited' = visited + Fresh(n),
             left' = LevelOnly(n, peers), frontier' = [frontier EXCEPT ![side] = @ \cup peers],
             trail' = [trail EXCEPT ![side] = reached],
             pc' = pc, answer' = answer, route' = route
      PROVE  GoesOn(n)
  BY <1>2, <1>7 DEF GoesOn, LevelOnly
<1> HIDE DEF way, reached, peers
<1>8. Ends(n) \/ GoesOn(n)
  BY ONLY <1>4, <1>5, <1>6, <1>7, Zenon
<1> QED
  BY <1>1, <1>8

LEMMA MeetingEnds ==
    ASSUME IInv, NEW n \in left, Ends(n), pc = "expand"
    PROVE  \/ route' = route
           \/ Leads(route', ends[1], ends[2], links) /\ Len(route') <= hop + 2 /\ hop < MaxHops
<1>1. ASSUME NEW m \in (Peers(n) \ Seen(side)) \cap Seen(3 - side), side = 1,
             route' = Walk(Way(n, m), trail[2][m])
      PROVE  Leads(route', ends[1], ends[2], links) /\ Len(route') <= hop + 2 /\ hop < MaxHops
  BY <1>1, MeetingLeads
<1>2. ASSUME NEW m \in (Peers(n) \ Seen(side)) \cap Seen(3 - side), side = 2,
             route' = Walk(trail[1][m], Way(n, m))
      PROVE  Leads(route', ends[1], ends[2], links) /\ Len(route') <= hop + 2 /\ hop < MaxHops
  BY <1>2, MeetingLeads
<1> QED
  BY <1>1, <1>2 DEF Ends

LEMMA EndsKeeps ==
    ASSUME IInv, NEW n \in left, Ends(n), pc = "expand",
           links' = links, grown' = grown, ends' = ends, found_on' = found_on,
           hop' = hop, side' = side, carried' = carried
    PROVE  IInv'
<1>1. /\ visited' = visited /\ left' = left /\ frontier' = frontier /\ trail' = trail
      /\ pc' \in {"hops", "answered"} /\ answer' \in {answer, "found", "down", "gave_up"}
  BY DEF Ends
<1>2. Trails' /\ (\A s \in Sides : Seen(s)' = Seen(s)) /\ (route' = route => RouteLeads')
  BY <1>1, SameTrails
<1>3. \/ route' = route
      \/ Leads(route', ends[1], ends[2], links) /\ Len(route') <= MaxHops + 1
  <2>1. \/ route' = route
        \/ Leads(route', ends[1], ends[2], links) /\ Len(route') <= hop + 2 /\ hop < MaxHops
    BY MeetingEnds
  <2>2. hop \in 0 .. MaxHops /\ MaxHops \in Nat
    BY Zenon DEF IInv, TypeOK
  <2>3. Leads(route', ends[1], ends[2], links) => Len(route') \in Nat
    BY DEF Leads
  <2> QED
    BY <2>1, <2>2, <2>3
<1>4. RouteLeads'
  <2>1. CASE route' = route
    BY <1>2, <2>1
  <2>2. CASE Leads(route', ends[1], ends[2], links) /\ Len(route') <= MaxHops + 1
    BY <2>2 DEF RouteLeads
  <2> QED
    BY <1>3, <2>1, <2>2
<1>5. TypeOK'
  <2>1. route' \in Seq(Subscribers)
    BY <1>3 DEF IInv, TypeOK, Leads
  <2>2. answer' \in {"", "found", "none", "gave_up", "down"}
    <3>1. answer \in {"", "found", "none", "gave_up", "down"}
      BY Zenon DEF IInv, TypeOK
    <3> QED
      BY <1>1, <3>1
  <2>3. Seen(1)' = Seen(1) /\ Seen(2)' = Seen(2)
    BY <1>2 DEF Sides
  <2> QED
    BY <1>1, <1>2, <2>1, <2>2, <2>3 DEF IInv, TypeOK
<1>6. Shape'
  BY <1>1 DEF IInv, Shape
<1>7. Budget'
  <2>1. PICK h \in [Sides -> Nat] : Rounds(h)
    BY DEF IInv, Budget
  <2>2. Rounds(h)'
    BY <1>1, <2>1 DEF Rounds
  <2> QED
    BY <2>2 DEF Budget
<1>8. Unasked' /\ Searching'
  BY <1>1 DEF Unasked, Searching
<1> QED
  BY <1>2, <1>4, <1>5, <1>6, <1>7, <1>8 DEF IInv

LEMMA GoesOnKeeps ==
    ASSUME IInv, NEW n \in left, GoesOn(n), pc = "expand",
           links' = links, grown' = grown, ends' = ends, found_on' = found_on,
           hop' = hop, side' = side, carried' = carried
    PROVE  IInv'
<1> DEFINE peers == Peers(n) \ Seen(side)
<1>1. /\ pc' = pc /\ answer' = answer /\ route' = route /\ left' = left \ {n}
      /\ frontier' = [frontier EXCEPT ![side] = @ \cup peers]
      /\ trail' = [trail EXCEPT ![side] = Reached(n)]
  BY DEF GoesOn
<1>2. /\ side \in Sides /\ 3 - side \in Sides /\ side # 3 - side
      /\ \A s \in Sides : s = side \/ s = 3 - side
      /\ Seen(side) \cap Seen(3 - side) = {}
  BY Apart
<1>3. /\ trail'[side] = Reached(n) /\ trail'[3 - side] = trail[3 - side]
      /\ frontier'[side] = frontier[side] \cup peers /\ frontier'[3 - side] = frontier[3 - side]
      /\ DOMAIN trail' = 1 .. 2 /\ DOMAIN frontier' = 1 .. 2
  <2>1. DOMAIN trail = 1 .. 2 /\ DOMAIN frontier = 1 .. 2 /\ side \in 1 .. 2 /\ 3 - side \in 1 .. 2
    BY <1>2 DEF IInv, Shape, IsPair, Sides
  <2> QED
    BY <1>1, <1>2, <2>1
<1>4. Seen(side)' = Seen(side) \cup peers /\ Seen(3 - side)' = Seen(3 - side)
  <2>1. DOMAIN Reached(n) = Seen(side) \cup peers
    BY DEF Reached
  <2>2. DOMAIN (trail'[side']) = Seen(side) \cup peers /\ DOMAIN (trail'[3 - side']) = Seen(3 - side)
    BY <1>3, <2>1 DEF Seen
  <2> QED
    BY <2>2 DEF Seen
<1>5. \A m \in Seen(side)' : trail'[side][m] = Way(n, m)
  BY <1>3, <1>4 DEF Reached
<1>6. peers \subseteq Subscribers /\ peers \cap Seen(3 - side) = {}
  BY DEF Peers, GoesOn, Met
<1>7. PICK h \in [Sides -> Nat] : Rounds(h)
  BY DEF IInv, Budget
<1>8. \A m \in Seen(side)' :
          /\ Leads(Way(n, m), ends[side], m, links) /\ Past(Way(n, m), Seen(side)')
          /\ Len(Way(n, m)) <= h[side] + 2
  <2> SUFFICES ASSUME NEW m \in Seen(side)'
               PROVE  /\ Leads(Way(n, m), ends[side], m, links) /\ Past(Way(n, m), Seen(side)')
                      /\ Len(Way(n, m)) <= h[side] + 2
    OBVIOUS
  <2>1. m \in Seen(side) \cup (Peers(n) \ Seen(side))
    BY <1>4
  <2>2. /\ Leads(Way(n, m), ends[side], m, links) /\ Past(Way(n, m), Seen(side) \cup {m})
        /\ Len(Way(n, m)) <= h[side] + 2
    BY <1>7, <2>1, WayLeads
  <2>3. Past(Way(n, m), Seen(side)')
    BY <1>4, <2>1, <2>2 DEF Past
  <2> QED
    BY <2>2, <2>3
<1>9. \A m \in Seen(3 - side) :
          /\ Leads(trail[3 - side][m], ends[3 - side], m, links)
          /\ Past(trail[3 - side][m], Seen(3 - side))
          /\ Len(trail[3 - side][m]) <= h[3 - side] + 1
  BY <1>2, <1>7 DEF IInv, Trails, Rounds
<1> HIDE DEF peers
<1>10. Trails'
  <2> SUFFICES ASSUME NEW s \in Sides, NEW m \in Seen(s)'
               PROVE  Leads(trail'[s][m], ends'[s], m, links') /\ Past(trail'[s][m], Seen(s)')
    BY DEF Trails
  <2>1. CASE s = side
    <3>1. m \in Seen(side)'
      BY <2>1
    <3>2. trail'[s][m] = Way(n, m)
      BY <1>5, <2>1, <3>1
    <3> QED
      BY <1>8, <2>1, <3>1, <3>2
  <2>2. CASE s = 3 - side
    <3>1. m \in Seen(3 - side) /\ trail'[s][m] = trail[3 - side][m]
      BY <1>3, <1>4, <2>2
    <3> QED
      BY <1>4, <1>9, <2>2, <3>1
  <2> QED
    BY <1>2, <2>1, <2>2
<1>11. TypeOK'
  <2>1. visited' \in 0 .. MaxVisited
    <3>1. IsFiniteSet(Subscribers)
      OBVIOUS
    <3>2. IsFiniteSet(Peers(n) \ Seen(side))
      BY <1>6, <3>1, FS_Subset DEF peers
    <3>3. Fresh(n) \in Nat
      BY <3>2, FS_CardinalityType DEF Fresh
    <3>4. visited \in 0 .. MaxVisited
      BY Zenon DEF IInv, TypeOK
    <3>5. visited' = visited + Fresh(n) /\ visited + Fresh(n) <= MaxVisited
      BY Zenon DEF GoesOn
    <3> QED
      BY <3>3, <3>4, <3>5
  <2>2. \A s \in Sides : frontier'[s] \in SUBSET Seen(s)' /\ Seen(s)' \in SUBSET Subscribers
    <3>1. frontier[side] \subseteq Seen(side) /\ Seen(side) \subseteq Subscribers
      BY <1>2, TypesOfTrails
    <3>2. frontier[3 - side] \subseteq Seen(3 - side) /\ Seen(3 - side) \subseteq Subscribers
      BY <1>2, TypesOfTrails
    <3> QED
      BY <1>2, <1>3, <1>4, <1>6, <3>1, <3>2
  <2>3. Seen(1)' \cap Seen(2)' = {}
    <3>1. Seen(side)' \cap Seen(3 - side)' = {}
      BY <1>2, <1>4, <1>6
    <3>2. CASE side = 1
      <4>1. 3 - side = 2
        BY <3>2
      <4> QED
        BY <3>1, <3>2, <4>1
    <3>3. CASE side = 2
      <4>1. 3 - side = 1
        BY <3>3
      <4> QED
        BY <3>1, <3>3, <4>1
    <3> QED
      BY <1>2, <3>2, <3>3 DEF Sides
  <2>4. left' \in SUBSET Subscribers
    BY <1>1 DEF IInv, TypeOK
  <2> QED
    BY <1>1, <1>2, <2>1, <2>2, <2>3, <2>4 DEF IInv, TypeOK
<1>12. Shape'
  BY <1>3 DEF Shape, IsPair
<1>13. Rounds(h)'
  <2>1. /\ h[1] + h[2] = hop /\ hop < MaxHops /\ left \subseteq Seen(side)
        /\ \A m \in left : Len(trail[side][m]) <= h[side] + 1
    BY <1>7 DEF Rounds
  <2>2. left' \subseteq Seen(side)'
    BY <1>1, <1>4, <2>1
  <2>3. \A m \in left' : Len(trail'[side][m]) <= h[side] + 1
    <3> SUFFICES ASSUME NEW m \in left' PROVE Len(trail'[side][m]) <= h[side] + 1
      OBVIOUS
    <3>1. m \in left /\ m \in Seen(side) /\ m \in Seen(side)'
      BY <1>1, <2>1, <2>2
    <3>2. Way(n, m) = trail[side][m]
      BY <3>1 DEF Way
    <3> QED
      BY <1>5, <2>1, <3>1, <3>2
  <2>4. \A m \in Seen(side)' : Len(trail'[side][m]) <= h[side] + 2
    BY <1>5, <1>8
  <2>5. \A m \in Seen(3 - side)' : Len(trail'[3 - side][m]) <= h[3 - side] + 1
    BY <1>3, <1>4, <1>9
  <2> QED
    BY <1>1, <2>1, <2>2, <2>3, <2>4, <2>5 DEF Rounds
<1>14. Budget'
  BY <1>13 DEF Budget
<1>15. Unasked' /\ Searching'
  BY <1>1 DEF IInv, Unasked, Searching
<1>16. RouteLeads'
  BY <1>1 DEF IInv, RouteLeads
<1> QED
  BY <1>10, <1>11, <1>12, <1>14, <1>15, <1>16 DEF IInv

LEMMA ExpandKeeps ==
    ASSUME IInv, NEW n \in Subscribers, Expand(n)
    PROVE  IInv'
BY ExpandCases, EndsKeeps, GoesOnKeeps

LEMMA InvNext == IInv /\ [Next]_vars => IInv'
<1> SUFFICES ASSUME IInv, [Next]_vars PROVE IInv'
  OBVIOUS
<1>1. ASSUME NEW l \in Links, Grow(l) PROVE IInv'
  BY <1>1, GrowKeeps
<1>2. ASSUME NEW a \in Subscribers, NEW b \in Subscribers, Request(a, b) PROVE IInv'
  BY <1>2, RequestKeeps
<1>3. CASE Hop
  BY <1>3, HopKeeps
<1>4. ASSUME NEW n \in Subscribers, Expand(n) PROVE IInv'
  BY <1>4, ExpandKeeps
<1>5. CASE EndHop
  BY <1>5, EndHopKeeps
<1>6. CASE Carried
  BY <1>6, CarriedKeeps
<1>7. CASE UNCHANGED vars
  BY <1>7 DEF vars, search, IInv, TypeOK, Shape, IsPair, Trails, Seen, Budget, Rounds, Unasked,
              RouteLeads, Searching
<1> QED
  BY <1>1, <1>2, <1>3, <1>4, <1>5, <1>6, <1>7 DEF Next

LEMMA InvAlways == Spec => []IInv
BY InvInit, InvNext, PTL DEF Spec

-----------------------------------------------------------------------------
(* PathService::search() keeps within both its bounds, max_hops and         *)
(* max_visited, and no subscriber is ever seen from both sides while it     *)
(* runs.                                                                    *)
THEOREM PathTypeCorrect == Spec => []TypeOK
<1>1. IInv => TypeOK
  BY DEF IInv
<1> QED
  BY <1>1, InvAlways, PTL

(* What PathService::walk() joins is a path: from the one party to the      *)
(* other over links of the store, past nobody twice, and no longer than     *)
(* max_hops, whatever links writers add while it is searched for.           *)
THEOREM FoundPathIsPath == Spec => []PathIsPath
<1>1. IInv => PathIsPath
  <2> SUFFICES ASSUME IInv, route # <<>> PROVE
         /\ Head(route) = ends[1] /\ Last(route) = ends[2]
         /\ \A i \in 1 .. Len(route) - 1 : {route[i], route[i + 1]} \in links
         /\ IsInjective(route)
         /\ Len(route) <= MaxHops + 1
    BY DEF PathIsPath
  <2>1. Leads(route, ends[1], ends[2], links) /\ Len(route) <= MaxHops + 1
    BY DEF IInv, RouteLeads
  <2>2. Head(route) = ends[1]
    BY <2>1 DEF Leads
  <2>3. Last(route) = ends[2]
    BY <2>1 DEF Leads, Last
  <2>4. IsInjective(route)
    <3>1. DOMAIN route = 1 .. Len(route)
      BY <2>1 DEF Leads
    <3>2. \A i, j \in 1 .. Len(route) : route[i] = route[j] => i = j
      BY <2>1 DEF Leads
    <3> QED
      BY <3>1, <3>2 DEF IsInjective
  <2> QED
    BY <2>1, <2>2, <2>3, <2>4 DEF Leads
<1> QED
  BY <1>1, InvAlways, PTL

-----------------------------------------------------------------------------
(* Nearness in a graph. *)

LEMMA Smallest ==
    ASSUME NEW S, S \subseteq Nat, S # {}
    PROVE  \E n \in S : \A m \in S : n <= m
<1>1. PICK n \in S : \A m \in S : ~ (<<m, n>> \in OpToRel(<, Nat))
  BY NatLessThanWellFounded, WFMin
<1>2. \A m \in S : ~ (m < n)
  <2> TAKE m \in S
  <2>1. n \in Nat /\ m \in Nat
    OBVIOUS
  <2>2. <<m, n>> \in OpToRel(<, Nat) <=> m < n
    BY <2>1, Zenon DEF OpToRel
  <2> QED
    BY <1>1, <2>2, Zenon
<1> QED
  BY <1>2

(* A party is within no links of nobody else.                               *)
LEMMA WithinZero ==
    ASSUME NEW graph, NEW a, NEW b, Within(graph, a, b, 0)
    PROVE  b = a
BY DEF Within

LEMMA WithinOn ==
    ASSUME NEW graph, NEW larger, graph \subseteq larger, NEW a, NEW b \in Subscribers,
           NEW k \in Nat, NEW j \in Nat, k <= j, Within(graph, a, b, k)
    PROVE  Within(larger, a, b, j)
<1>1. PICK way \in [0 .. k -> Subscribers] :
        /\ way[0] = a /\ way[k] = b
        /\ \A i \in 1 .. k : way[i - 1] = way[i] \/ {way[i - 1], way[i]} \in graph
  BY DEF Within
<1> DEFINE on == [i \in 0 .. j |-> IF i <= k THEN way[i] ELSE b]
<1>2. on \in [0 .. j -> Subscribers]
  BY <1>1
<1>3. on[0] = a /\ on[j] = b
  BY <1>1
<1>4. ASSUME NEW i \in 1 .. j PROVE on[i - 1] = on[i] \/ {on[i - 1], on[i]} \in larger
  <2>1. CASE i <= k
    <3>1. i \in 1 .. k /\ on[i - 1] = way[i - 1] /\ on[i] = way[i]
      BY <2>1
    <3> QED
      BY <1>1, <3>1
  <2>2. CASE i > k
    <3>1. on[i] = b /\ on[i - 1] = b
      <4>1. on[i] = b
        BY <2>2
      <4>2. i - 1 = k \/ i - 1 > k
        BY <2>2
      <4> QED
        BY <1>1, <4>1, <4>2
    <3> QED
      BY <3>1
  <2> QED
    BY <2>1, <2>2
<1> HIDE DEF on
<1> QED
  BY <1>2, <1>3, <1>4 DEF Within

LEMMA WithinLast ==
    ASSUME NEW graph, NEW a, NEW b, NEW k \in Nat, NEW j, j = k + 1, Within(graph, a, b, j)
    PROVE  \E m \in Subscribers : Within(graph, a, m, k) /\ (m = b \/ {m, b} \in graph)
<1>1. PICK way \in [0 .. k + 1 -> Subscribers] :
        /\ way[0] = a /\ way[k + 1] = b
        /\ \A i \in 1 .. k + 1 : way[i - 1] = way[i] \/ {way[i - 1], way[i]} \in graph
  BY DEF Within
<1> DEFINE first == [i \in 0 .. k |-> way[i]]
<1>2. first \in [0 .. k -> Subscribers] /\ first[0] = a /\ first[k] = way[k]
  BY <1>1
<1>3. \A i \in 1 .. k : first[i - 1] = first[i] \/ {first[i - 1], first[i]} \in graph
  <2> TAKE i \in 1 .. k
  <2>1. i \in 1 .. k + 1 /\ first[i - 1] = way[i - 1] /\ first[i] = way[i]
    OBVIOUS
  <2> QED
    BY <1>1, <2>1
<1> HIDE DEF first
<1>4. Within(graph, a, way[k], k)
  BY <1>2, <1>3 DEF Within
<1>5. way[k] = b \/ {way[k], b} \in graph
  <2>1. k + 1 \in 1 .. k + 1 /\ (k + 1) - 1 = k
    OBVIOUS
  <2> QED
    BY <1>1, <2>1
<1>6. way[k] \in Subscribers
  BY <1>1
<1> QED
  BY <1>4, <1>5, <1>6

(* Two parties within j + k links of each other have a subscriber between   *)
(* them, within j of the one and k of the other.                            *)
LEMMA WithinBoth ==
    ASSUME NEW graph, NEW a, NEW b, NEW j \in Nat, NEW k \in Nat, Within(graph, a, b, j + k)
    PROVE  \E m \in Subscribers : Within(graph, a, m, j) /\ Within(graph, b, m, k)
<1>1. PICK way \in [0 .. j + k -> Subscribers] :
        /\ way[0] = a /\ way[j + k] = b
        /\ \A i \in 1 .. j + k : way[i - 1] = way[i] \/ {way[i - 1], way[i]} \in graph
  BY DEF Within
<1> DEFINE there == [i \in 0 .. j |-> way[i]]
           back == [i \in 0 .. k |-> way[j + k - i]]
           m == way[j]
<1>2. m \in Subscribers
  BY <1>1
<1>3. Within(graph, a, m, j)
  <2>1. there \in [0 .. j -> Subscribers] /\ there[0] = a /\ there[j] = m
    BY <1>1
  <2>2. \A i \in 1 .. j : there[i - 1] = there[i] \/ {there[i - 1], there[i]} \in graph
    <3> TAKE i \in 1 .. j
    <3>1. i \in 1 .. j + k /\ there[i - 1] = way[i - 1] /\ there[i] = way[i]
      OBVIOUS
    <3> QED
      BY <1>1, <3>1
  <2> HIDE DEF there, m
  <2> QED
    BY <2>1, <2>2 DEF Within
<1>4. Within(graph, b, m, k)
  <2>1. back \in [0 .. k -> Subscribers] /\ back[0] = b /\ back[k] = m
    BY <1>1
  <2>2. \A i \in 1 .. k : back[i - 1] = back[i] \/ {back[i - 1], back[i]} \in graph
    <3> TAKE i \in 1 .. k
    <3>1. PICK x \in 1 .. j + k : x = j + k - i + 1
      OBVIOUS
    <3>2. back[i - 1] = way[x] /\ back[i] = way[x - 1]
      BY <3>1
    <3>3. {way[x - 1], way[x]} = {way[x], way[x - 1]}
      OBVIOUS
    <3> QED
      BY <1>1, <3>2, <3>3
  <2> HIDE DEF back, m
  <2> QED
    BY <2>1, <2>2 DEF Within
<1> QED
  BY <1>2, <1>3, <1>4

LEMMA WithinBack ==
    ASSUME NEW graph, NEW a, NEW b \in Subscribers, NEW k \in Nat, Within(graph, a, b, k)
    PROVE  Within(graph, b, a, k)
<1>1. PICK m \in Subscribers : Within(graph, a, m, 0) /\ Within(graph, b, m, k)
  <2>1. 0 \in Nat /\ 0 + k = k
    OBVIOUS
  <2> QED
    BY <2>1, WithinBoth
<1>2. m = a
  BY <1>1, WithinZero
<1> QED
  BY <1>1, <1>2

(* Whoever is near a member of a set no link leads out of is a member.      *)
LEMMA WithinClosed ==
    ASSUME NEW graph, NEW a, NEW b, NEW k \in Nat, Within(graph, a, b, k), NEW S, a \in S,
           \A n \in S, m \in Subscribers : {n, m} \in graph => m \in S
    PROVE  b \in S
<1>1. PICK way \in [0 .. k -> Subscribers] :
        /\ way[0] = a /\ way[k] = b
        /\ \A i \in 1 .. k : way[i - 1] = way[i] \/ {way[i - 1], way[i]} \in graph
  BY DEF Within
<1> DEFINE out == {i \in 0 .. k : way[i] \notin S}
<1>2. SUFFICES ASSUME out # {} PROVE FALSE
  BY <1>1
<1>3. PICK i \in out : \A x \in out : i <= x
  <2>1. out \subseteq Nat
    OBVIOUS
  <2> HIDE DEF out
  <2> QED
    BY <1>2, <2>1, Smallest
<1>4. i \in 1 .. k /\ i - 1 \in 0 .. k /\ way[i] \notin S
  BY <1>1
<1>5. way[i - 1] \in S
  BY <1>3, <1>4
<1> QED
  BY <1>1, <1>4, <1>5

LEMMA LeadsWithin ==
    ASSUME NEW graph, NEW a, NEW b, NEW t, Leads(t, a, b, graph), NEW k \in Nat, Len(t) <= k + 1
    PROVE  Within(graph, a, b, k)
<1> DEFINE n == Len(t)
           way == [i \in 0 .. k |-> IF i < n THEN t[i + 1] ELSE b]
<1>1. t \in Seq(Subscribers) /\ n \in Nat \ {0} /\ t[1] = a /\ t[n] = b
  BY DEF Leads
<1>2. b \in Subscribers
  BY <1>1
<1>3. way \in [0 .. k -> Subscribers]
  BY <1>1, <1>2
<1>4. way[0] = a /\ way[k] = b
  BY <1>1
<1>5. ASSUME NEW i \in 1 .. k PROVE way[i - 1] = way[i] \/ {way[i - 1], way[i]} \in graph
  <2>1. CASE i < n
    <3>1. i \in 1 .. n - 1 /\ way[i - 1] = t[i] /\ way[i] = t[i + 1]
      BY <1>1, <2>1
    <3> QED
      BY <3>1 DEF Leads
  <2>2. CASE i >= n
    <3>1. way[i] = b
      BY <1>1, <2>2
    <3>2. way[i - 1] = b
      BY <1>1, <2>2
    <3> QED
      BY <3>1, <3>2
  <2> QED
    BY <1>1, <2>1, <2>2
<1> HIDE DEF way
<1> QED
  BY <1>3, <1>4, <1>5 DEF Within

-----------------------------------------------------------------------------
(* What the search has not missed.  Both sides are complete to the depth    *)
(* they have gone to: whoever was within as many links of a party as its    *)
(* side had rounds is seen from there, and only a subscriber that is still  *)
(* to be expanded may have had a peer nobody has seen yet.  Links that      *)
(* appear later only add to what a side has seen.                           *)
Underway == pc \in {"hop", "expand"}

Unexpanded(s) == frontier[s] \cup (IF pc = "expand" /\ s = side THEN left ELSE {})

Closed ==
    Underway => \A s \in Sides : \A n \in Seen(s) \ Unexpanded(s) : \A m \in Subscribers :
                    {n, m} \in found_on => m \in Seen(s)

Levels(h) ==
    /\ h[1] + h[2] = hop
    /\ pc = "hop" =>
        \A s \in Sides : \A n \in Subscribers : Within(found_on, ends[s], n, h[s]) => n \in Seen(s)
    /\ pc = "expand" =>
        /\ \A n \in Subscribers :
               Within(found_on, ends[side], n, h[side]) => n \in Seen(side) \ frontier[side]
        /\ \A n \in Subscribers :
               Within(found_on, ends[3 - side], n, h[3 - side]) => n \in Seen(3 - side)

Complete == Underway => \E h \in [Sides -> Nat] : Levels(h)

(* The bound counts everybody seen but the two parties. *)
Counted ==
    Underway => /\ Cardinality(Seen(1) \cup Seen(2)) = visited + 2
                /\ \A s \in Sides : ends[s] \in Seen(s)

Quiet == (answer # "" => pc = "answered") /\ (pc = "idle" => visited = 0)

LInv == Closed /\ Complete /\ Counted /\ Quiet /\ NoneMeansNone /\ NoDetour /\ FullBudget

-----------------------------------------------------------------------------
LEMMA LInit == Init => LInv
<1> SUFFICES ASSUME Init PROVE LInv
  OBVIOUS
<1>1. pc = "idle" /\ answer = "" /\ route = <<>>
  BY Zenon DEF Init
<1>2. ~ Underway
  BY <1>1 DEF Underway
<1>3. visited = 0
  BY Zenon DEF Init
<1>4. NoneMeansNone /\ FullBudget /\ Quiet
  BY <1>1, <1>3 DEF NoneMeansNone, FullBudget, Quiet
<1>5. NoDetour
  BY <1>1 DEF NoDetour
<1> QED
  BY <1>2, <1>4, <1>5 DEF LInv, Closed, Complete, Counted

(* The parties of a search that is under way are two. *)
LEMMA Parties ==
    ASSUME IInv, Counted, Underway
    PROVE  /\ ends[1] \in Seen(1) /\ ends[2] \in Seen(2)
           /\ ends[1] \in Subscribers /\ ends[2] \in Subscribers /\ ends[1] # ends[2]
<1>1. ends[1] \in Seen(1) /\ ends[2] \in Seen(2)
  BY DEF Counted, Sides
<1>2. Seen(1) \subseteq Subscribers /\ Seen(2) \subseteq Subscribers
  BY TypesOfTrails DEF Sides
<1>3. Seen(1) \cap Seen(2) = {}
  BY DEF IInv, TypeOK
<1> QED
  BY <1>1, <1>2, <1>3

(* As long as the sides have not met, there was no path of hop links.       *)
LEMMA NoPathYet ==
    ASSUME IInv, Complete, Underway
    PROVE  ~ Within(found_on, ends[1], ends[2], hop)
<1>1. SUFFICES ASSUME Within(found_on, ends[1], ends[2], hop) PROVE FALSE
  OBVIOUS
<1>2. PICK h \in [Sides -> Nat] : Levels(h)
  BY DEF Complete
<1>3. h[1] \in Nat /\ h[2] \in Nat /\ h[1] + h[2] = hop
  BY <1>2 DEF Levels, Sides
<1>4. PICK m \in Subscribers : /\ Within(found_on, ends[1], m, h[1])
                               /\ Within(found_on, ends[2], m, h[2])
  BY <1>1, <1>3, WithinBoth
<1>5. m \in Seen(1) /\ m \in Seen(2)
  <2>1. CASE pc = "hop"
    BY <1>2, <1>4, <2>1 DEF Levels, Sides
  <2>2. CASE pc = "expand"
    <3>1. side = 1 \/ side = 2
      BY DEF IInv, TypeOK, Sides
    <3>2. CASE side = 1
      <4>1. 3 - side = 2
        BY <3>2
      <4> QED
        BY <1>2, <1>4, <2>2, <3>2, <4>1 DEF Levels
    <3>3. CASE side = 2
      <4>1. 3 - side = 1
        BY <3>3
      <4> QED
        BY <1>2, <1>4, <2>2, <3>3, <4>1 DEF Levels
    <3> QED
      BY <3>1, <3>2, <3>3
  <2> QED
    BY <2>1, <2>2 DEF Underway
<1>6. Seen(1) \cap Seen(2) = {}
  BY DEF IInv, TypeOK
<1> QED
  BY <1>5, <1>6

(* What has been answered stays true of the graph there was, and of the one *)
(* there is, which only grows.                                              *)
LEMMA VerdictsStay ==
    ASSUME IInv, NoneMeansNone, NoDetour, FullBudget, links \subseteq links',
           ends' = ends, found_on' = found_on
    PROVE  /\ answer' = answer => NoneMeansNone' /\ FullBudget'
           /\ answer' \in {"", "found", "down"} => NoneMeansNone' /\ FullBudget'
           /\ route' = route => NoDetour'
<1>1. route' = route => NoDetour'
  BY DEF NoDetour
<1>2. answer' = answer => NoneMeansNone'
  BY DEF NoneMeansNone
<1>3. answer' \in {"", "found", "down"} => NoneMeansNone' /\ FullBudget'
  BY DEF NoneMeansNone, FullBudget
<1>4. ASSUME answer' = answer, answer' = "gave_up"
      PROVE  \E reached \in SUBSET (Subscribers \ {ends'[1], ends'[2]}) :
                /\ Cardinality(reached) >= MaxVisited
                /\ \A n \in reached : \E s \in Sides : Within(links', ends'[s], n, MaxHops)
  <2>1. PICK reached \in SUBSET (Subscribers \ {ends[1], ends[2]}) :
            /\ Cardinality(reached) >= MaxVisited
            /\ \A n \in reached : \E s \in Sides : Within(links, ends[s], n, MaxHops)
    BY <1>4 DEF FullBudget
  <2>2. ASSUME NEW n \in reached PROVE \E s \in Sides : Within(links', ends[s], n, MaxHops)
    <3>1. PICK s \in Sides : Within(links, ends[s], n, MaxHops)
      BY <2>1
    <3>2. n \in Subscribers /\ MaxHops \in Nat /\ MaxHops <= MaxHops
      OBVIOUS
    <3>3. Within(links', ends[s], n, MaxHops)
      BY <3>1, <3>2, WithinOn
    <3> QED
      BY <3>3
  <2> QED
    BY <2>1, <2>2
<1>5. answer' = answer => FullBudget'
  BY <1>4 DEF FullBudget
<1> QED
  BY <1>1, <1>2, <1>3, <1>5

LEMMA GrowKeepsL ==
    ASSUME IInv, LInv, NEW l \in Links, Grow(l)
    PROVE  LInv'
<1>1. /\ links \subseteq links' /\ trail' = trail /\ ends' = ends /\ frontier' = frontier
      /\ route' = route /\ hop' = hop /\ pc' = pc /\ left' = left /\ side' = side
      /\ found_on' = found_on /\ visited' = visited /\ answer' = answer
      /\ \A s : Seen(s)' = Seen(s)
  BY DEF Grow, search, Seen
<1>2. NoneMeansNone' /\ NoDetour' /\ FullBudget'
  BY <1>1, VerdictsStay DEF LInv
<1>3. Underway' = Underway /\ \A s : Unexpanded(s)' = Unexpanded(s)
  BY <1>1 DEF Underway, Unexpanded
<1>4. Closed' /\ Counted' /\ Quiet'
  BY <1>1, <1>3 DEF LInv, Closed, Counted, Quiet
<1>5. Complete'
  BY <1>1, <1>3 DEF LInv, Complete, Levels
<1> QED
  BY <1>2, <1>4, <1>5 DEF LInv

LEMMA RequestKeepsL ==
    ASSUME IInv, LInv, NEW a \in Subscribers, NEW b \in Subscribers, Request(a, b)
    PROVE  LInv'
<1>1. /\ links' = links /\ ends' = <<a, b>> /\ found_on' = links /\ hop' = hop
      /\ visited' = visited /\ side' = side /\ left' = left /\ pc = "idle"
  BY DEF Request
<1>2. hop = 0 /\ route = <<>>
  BY <1>1 DEF IInv, Unasked
<1>3. answer = ""
  BY <1>1 DEF LInv, Quiet
<1>4. ends'[1] = a /\ ends'[2] = b
  BY <1>1
<1>5. CASE a = b
  <2>1. /\ route' = <<a>> /\ pc' \in {"answered", "hops"} /\ answer' \in {answer, "found"}
        /\ pc' = "hops" => answer' = answer
    BY <1>5 DEF Request, Found, Answer
  <2>2. ~ Underway'
    BY <2>1 DEF Underway
  <2>3. answer' \in {"", "found"}
    BY <1>3, <2>1
  <2>4. NoneMeansNone' /\ FullBudget' /\ Quiet'
    BY <1>3, <2>1, <2>3 DEF NoneMeansNone, FullBudget, Quiet
  <2>5. NoDetour'
    <3>1. Len(route') = 1
      BY <2>1
    <3> QED
      BY <3>1 DEF NoDetour
  <2> QED
    BY <2>2, <2>4, <2>5 DEF LInv, Closed, Complete, Counted
<1>6. CASE a # b
  <2>1. /\ frontier' = <<{a}, {b}>> /\ pc' = "hop" /\ answer' = answer /\ route' = route
        /\ trail' = <<[n \in {a} |-> <<a>>], [n \in {b} |-> <<b>>]>>
    BY <1>6 DEF Request
  <2>2. Seen(1)' = {a} /\ Seen(2)' = {b} /\ frontier'[1] = {a} /\ frontier'[2] = {b}
    BY <2>1 DEF Seen
  <2>3. Closed'
    <3>1. \A s \in Sides : (Seen(s) \ Unexpanded(s))' = {}
      <4>1. (Seen(1) \ Unexpanded(1))' = {}
        BY <2>2 DEF Unexpanded
      <4>2. (Seen(2) \ Unexpanded(2))' = {}
        BY <2>2 DEF Unexpanded
      <4> QED
        BY <4>1, <4>2 DEF Sides
    <3> QED
      BY <3>1 DEF Closed
  <2>4. Complete'
    <3>1. PICK h \in [Sides -> Nat] : h[1] = 0 /\ h[2] = 0
      <4>1. [s \in Sides |-> 0] \in [Sides -> Nat] /\ [s \in Sides |-> 0][1] = 0 /\ [s \in Sides |-> 0][2] = 0
        BY DEF Sides
      <4> QED
        BY <4>1
    <3>2. ASSUME NEW n \in Subscribers, Within(found_on', ends'[1], n, 0) PROVE n \in Seen(1)'
      BY <1>4, <2>2, <3>2, WithinZero
    <3>3. ASSUME NEW n \in Subscribers, Within(found_on', ends'[2], n, 0) PROVE n \in Seen(2)'
      BY <1>4, <2>2, <3>3, WithinZero
    <3>4. \A s \in Sides : \A n \in Subscribers : Within(found_on', ends'[s], n, h[s]) => n \in Seen(s)'
      BY <3>1, <3>2, <3>3 DEF Sides
    <3>5. h[1] + h[2] = hop'
      BY <1>1, <1>2, <3>1
    <3>6. pc' = "hop" /\ pc' # "expand"
      BY <2>1
    <3>7. Levels(h)'
      BY <3>4, <3>5, <3>6, Zenon DEF Levels
    <3> QED
      BY <3>7 DEF Complete
  <2>5. Counted'
    <3>1. Cardinality({a} \cup {b}) = 2
      <4>1. IsFiniteSet({a}) /\ Cardinality({a}) = 1
        BY FS_Singleton
      <4>2. Cardinality({a} \cup {b}) = Cardinality({a}) + 1
        BY <1>6, <4>1, FS_AddElement
      <4> QED
        BY <4>1, <4>2
    <3>2. visited = 0
      BY <1>1 DEF LInv, Quiet
    <3>3. \A s \in Sides : ends'[s] \in Seen(s)'
      BY <1>4, <2>2 DEF Sides
    <3> QED
      BY <1>1, <2>2, <3>1, <3>2, <3>3 DEF Counted
  <2>6. NoneMeansNone' /\ FullBudget' /\ Quiet' /\ NoDetour'
    BY <1>2, <1>3, <2>1 DEF NoneMeansNone, FullBudget, Quiet, NoDetour
  <2> QED
    BY <2>3, <2>4, <2>5, <2>6 DEF LInv
<1> QED
  BY <1>5, <1>6

LEMMA HopKeepsL ==
    ASSUME IInv, LInv, Hop
    PROVE  LInv'
<1>1. /\ links' = links /\ trail' = trail /\ ends' = ends /\ route' = route /\ hop' = hop
      /\ found_on' = found_on /\ visited' = visited /\ pc = "hop"
  BY DEF Hop
<1>2. \A s : Seen(s)' = Seen(s)
  BY <1>1 DEF Seen
<1>3. Underway /\ answer = ""
  BY <1>1 DEF Underway, LInv, Quiet
<1>4. NoDetour'
  BY <1>1, VerdictsStay DEF LInv
<1>5. CASE hop = MaxHops
  <2>1. pc' = "answered" /\ answer' = "none"
    BY <1>5 DEF Hop, Answer
  <2>2. NoneMeansNone'
    BY <1>1, <1>3, <1>5, NoPathYet DEF NoneMeansNone, LInv
  <2>3. FullBudget' /\ Quiet' /\ ~ Underway'
    BY <2>1 DEF FullBudget, Quiet, Underway
  <2> QED
    BY <1>4, <2>2, <2>3 DEF LInv, Closed, Complete, Counted
<1>6. CASE hop # MaxHops
  <2>1. PICK s \in Sides :
            /\ side' = s /\ left' = frontier[s] /\ frontier' = [frontier EXCEPT ![s] = {}]
            /\ pc' = "expand" /\ answer' = answer
    <3>1. (IF Cardinality(frontier[1]) <= Cardinality(frontier[2]) THEN 1 ELSE 2) \in Sides
      BY DEF Sides
    <3> QED
      BY <1>6, <3>1 DEF Hop
  <2>2. /\ s = 1 \/ s = 2
        /\ frontier'[s] = {} /\ \A r \in Sides : r # s => frontier'[r] = frontier[r]
    BY <2>1 DEF IInv, Shape, IsPair, Sides
  <2>3. NoneMeansNone' /\ FullBudget'
    BY <1>1, <2>1, VerdictsStay DEF LInv
  <2>4. Quiet' /\ Underway'
    BY <1>3, <2>1 DEF Quiet, Underway
  <2>5. \A r \in Sides : Unexpanded(r)' = Unexpanded(r)
    <3>1. Unexpanded(s)' = Unexpanded(s)
      BY <1>1, <2>1, <2>2 DEF Unexpanded
    <3>2. ASSUME NEW r \in Sides, r # s PROVE Unexpanded(r)' = Unexpanded(r)
      BY <1>1, <2>1, <2>2, <3>2 DEF Unexpanded
    <3> QED
      BY <3>1, <3>2
  <2>6. Closed'
    BY <1>1, <1>2, <1>3, <2>5 DEF LInv, Closed
  <2>7. Complete'
    <3>1. PICK h \in [Sides -> Nat] : Levels(h)
      BY <1>3 DEF LInv, Complete
    <3>2. \A r \in Sides : \A n \in Subscribers : Within(found_on, ends[r], n, h[r]) => n \in Seen(r)
      BY <1>1, <3>1 DEF Levels
    <3>3. s \in Sides /\ 3 - s \in Sides
      BY <2>2 DEF Sides
    <3>4. Levels(h)'
      BY <1>1, <1>2, <2>1, <2>2, <3>1, <3>2, <3>3 DEF Levels
    <3> QED
      BY <3>4 DEF Complete
  <2>8. Counted'
    BY <1>1, <1>2, <1>3 DEF LInv, Counted
  <2> QED
    BY <1>4, <2>3, <2>4, <2>6, <2>7, <2>8 DEF LInv
<1> QED
  BY <1>5, <1>6

LEMMA CarriedKeepsL ==
    ASSUME IInv, LInv, Carried
    PROVE  LInv'
<1>1. links' = links /\ ends' = ends /\ route' = route /\ found_on' = found_on
  BY DEF Carried, search
<1>2. /\ pc = "hops" /\ pc' \in {"hops", "answered"} /\ answer' \in {answer, "found", "down"}
      /\ pc' = "hops" => answer' = answer
  BY DEF Carried, Answer
<1>3. answer = ""
  BY <1>2 DEF LInv, Quiet
<1>4. ~ Underway' /\ Quiet'
  BY <1>2, <1>3 DEF Underway, Quiet
<1>5. answer' \in {"", "found", "down"}
  BY <1>2, <1>3
<1>6. NoneMeansNone' /\ NoDetour' /\ FullBudget'
  BY <1>1, <1>5, VerdictsStay DEF LInv
<1> QED
  BY <1>4, <1>6 DEF LInv, Closed, Complete, Counted

LEMMA EndHopKeepsL ==
    ASSUME IInv, LInv, EndHop
    PROVE  LInv'
<1>1. /\ links' = links /\ trail' = trail /\ ends' = ends /\ route' = route /\ left' = left
      /\ found_on' = found_on /\ visited' = visited
      /\ side' = side /\ frontier' = frontier /\ pc = "expand" /\ left = {}
  BY DEF EndHop
<1>2. \A s : Seen(s)' = Seen(s)
  BY <1>1 DEF Seen
<1>3. Underway /\ answer = ""
  BY <1>1 DEF Underway, LInv, Quiet
<1>4. NoDetour'
  BY <1>1, VerdictsStay DEF LInv
<1>5. \A n \in Seen(side) \ frontier[side] : \A m \in Subscribers :
          {n, m} \in found_on => m \in Seen(side)
  <2>1. Unexpanded(side) = frontier[side] /\ side \in Sides
    BY <1>1, Apart DEF Unexpanded
  <2> QED
    BY <1>3, <2>1 DEF LInv, Closed
<1>6. CASE frontier[side] = {}
  <2>1. pc' = "answered" /\ answer' = "none"
    BY <1>6 DEF EndHop, Answer
  <2>2. ~ Within(found_on, ends[1], ends[2], MaxHops)
    <3>1. SUFFICES ASSUME Within(found_on, ends[1], ends[2], MaxHops) PROVE FALSE
      OBVIOUS
    <3>2. Seen(1) \cap Seen(2) = {} /\ ends[1] \in Seen(1) /\ ends[2] \in Seen(2)
      BY <1>3, Parties DEF IInv, TypeOK, LInv
    <3>3. \A n \in Seen(side), m \in Subscribers : {n, m} \in found_on => m \in Seen(side)
      BY <1>5, <1>6
    <3>4. CASE side = 1
      <4>1. ends[2] \in Seen(1)
        BY <3>1, <3>2, <3>3, <3>4, WithinClosed
      <4> QED
        BY <3>2, <4>1
    <3>5. CASE side = 2
      <4>1. Within(found_on, ends[2], ends[1], MaxHops)
        BY <1>3, <3>1, Parties, WithinBack DEF LInv
      <4>2. ends[1] \in Seen(2)
        BY <3>2, <3>3, <3>5, <4>1, WithinClosed
      <4> QED
        BY <3>2, <4>2
    <3> QED
      BY <3>4, <3>5 DEF IInv, TypeOK, Sides
  <2>3. NoneMeansNone'
    BY <1>1, <2>2 DEF NoneMeansNone
  <2>4. FullBudget' /\ Quiet' /\ ~ Underway'
    BY <2>1 DEF FullBudget, Quiet, Underway
  <2> QED
    BY <1>4, <2>3, <2>4 DEF LInv, Closed, Complete, Counted
<1>7. CASE frontier[side] # {}
  <2>1. hop' = hop + 1 /\ pc' = "hop" /\ answer' = answer
    BY <1>7 DEF EndHop
  <2>2. NoneMeansNone' /\ FullBudget'
    BY <1>1, <2>1, VerdictsStay DEF LInv
  <2>3. Quiet' /\ Underway' /\ Counted'
    BY <1>1, <1>2, <1>3, <2>1 DEF LInv, Quiet, Underway, Counted
  <2>4. Closed'
    <3>1. \A s \in Sides : Unexpanded(s)' = Unexpanded(s)
      BY <1>1, <2>1 DEF Unexpanded
    <3> QED
      BY <1>1, <1>2, <1>3, <3>1 DEF LInv, Closed
  <2>5. Complete'
    <3>1. PICK h \in [Sides -> Nat] : Levels(h)
      BY <1>3 DEF LInv, Complete
    <3>2. side \in Sides /\ 3 - side \in Sides /\ \A s \in Sides : s = side \/ s = 3 - side
      BY Apart
    <3>3. PICK g \in [Sides -> Nat] : g[side] = h[side] + 1 /\ g[3 - side] = h[3 - side]
      <4>1. [h EXCEPT ![side] = @ + 1] \in [Sides -> Nat]
        BY <3>2
      <4>2. /\ [h EXCEPT ![side] = @ + 1][side] = h[side] + 1
            /\ [h EXCEPT ![side] = @ + 1][3 - side] = h[3 - side]
        BY <3>2, Apart
      <4> QED
        BY <4>1, <4>2
    <3>4. g[1] + g[2] = hop'
      <4>1. h[1] + h[2] = hop /\ h[1] \in Nat /\ h[2] \in Nat
        BY <3>1 DEF Levels, Sides
      <4>2. side = 1 \/ side = 2
        BY <3>2 DEF Sides
      <4>3. CASE side = 1
        <5>1. 3 - side = 2
          BY <4>3
        <5>2. g[1] = h[1] + 1 /\ g[2] = h[2]
          BY <3>3, <4>3, <5>1
        <5> QED
          BY <2>1, <4>1, <5>2
      <4>4. CASE side = 2
        <5>1. 3 - side = 1
          BY <4>4
        <5>2. g[2] = h[2] + 1 /\ g[1] = h[1]
          BY <3>3, <4>4, <5>1
        <5> QED
          BY <2>1, <4>1, <5>2
      <4> QED
        BY <4>2, <4>3, <4>4
    <3>5. ASSUME NEW n \in Subscribers, Within(found_on, ends[side], n, g[side]) PROVE n \in Seen(side)
      <4>1. PICK k \in Nat : k = h[side] /\ g[side] = k + 1
        BY <3>2, <3>3
      <4>2. PICK m \in Subscribers :
                Within(found_on, ends[side], m, k) /\ (m = n \/ {m, n} \in found_on)
        <5>1. \A a, b, j : \A i \in Nat : j = i + 1 /\ Within(found_on, a, b, j) =>
                \E m \in Subscribers : Within(found_on, a, m, i) /\ (m = b \/ {m, b} \in found_on)
          BY WithinLast, Zenon
        <5> QED
          BY <3>5, <4>1, <5>1, Zenon
      <4>3. m \in Seen(side) \ frontier[side]
        BY <1>1, <3>1, <4>1, <4>2 DEF Levels
      <4> QED
        BY <1>5, <4>2, <4>3
    <3>6. ASSUME NEW n \in Subscribers, Within(found_on, ends[3 - side], n, g[3 - side])
          PROVE n \in Seen(3 - side)
      BY <1>1, <3>1, <3>3, <3>6 DEF Levels
    <3>7. \A s \in Sides : \A n \in Subscribers : Within(found_on, ends[s], n, g[s]) => n \in Seen(s)
      BY <3>2, <3>5, <3>6
    <3>8. \A s \in Sides : \A n \in Subscribers : Within(found_on', ends'[s], n, g[s]) => n \in Seen(s)'
      BY <1>1, <1>2, <3>7, Zenon
    <3>9. pc' = "hop" /\ pc' # "expand"
      BY <2>1
    <3>10. Levels(g)'
      BY <3>4, <3>8, <3>9, Zenon DEF Levels
    <3> QED
      BY <3>10, Zenon DEF Complete
  <2> QED
    BY <1>4, <2>2, <2>3, <2>4, <2>5 DEF LInv
<1> QED
  BY <1>6, <1>7

(* What a subscriber's reply adds to those seen: its peers are new to its   *)
(* own side, so only where the sides meet are they counted already.         *)
LEMMA Counts ==
    ASSUME IInv, Counted, Underway, NEW n
    PROVE  LET seen  == Seen(1) \cup Seen(2)
               peers == Peers(n) \ Seen(side)
           IN  /\ IsFiniteSet(seen \cup peers)
               /\ Cardinality(seen \cup peers) = visited + 2 + (Fresh(n) - Cardinality(Met(peers)))
               /\ Fresh(n) \in Nat /\ Cardinality(Met(peers)) \in Nat
<1> DEFINE seen  == Seen(1) \cup Seen(2)
           peers == Peers(n) \ Seen(side)
<1>1. IsFiniteSet(seen) /\ IsFiniteSet(peers)
  <2>1. seen \in SUBSET Subscribers
    BY TypesOfTrails DEF Sides
  <2>2. peers \in SUBSET Subscribers
    BY DEF Peers
  <2>3. IsFiniteSet(Subscribers)
    OBVIOUS
  <2> QED
    BY <2>1, <2>2, <2>3, FS_Subset
<1>2. seen \cap peers = Met(peers)
  <2>1. \/ side = 1 /\ 3 - side = 2
        \/ side = 2 /\ 3 - side = 1
    <3>1. side = 1 \/ side = 2
      BY DEF IInv, TypeOK, Sides
    <3> QED
      BY <3>1
  <2> QED
    BY <2>1 DEF Met
<1>3. Cardinality(seen) = visited + 2 /\ Fresh(n) = Cardinality(peers)
  BY DEF Counted, Fresh
<1>4. visited \in Nat
  <2>1. visited \in 0 .. MaxVisited
    BY Zenon DEF IInv, TypeOK
  <2> QED
    BY <2>1
<1> HIDE DEF seen, peers
<1>5. /\ IsFiniteSet(seen \cup peers)
      /\ Cardinality(seen \cup peers) = Cardinality(seen) + Cardinality(peers) - Cardinality(seen \cap peers)
  BY <1>1, FS_Union
<1>6. IsFiniteSet(seen \cap peers)
  BY <1>1, FS_Intersection
<1>7. Cardinality(peers) \in Nat /\ Cardinality(seen \cap peers) \in Nat
  BY <1>1, <1>6, FS_CardinalityType
<1>8. Cardinality(seen \cup peers) = visited + 2 + (Fresh(n) - Cardinality(Met(peers)))
  BY <1>2, <1>3, <1>4, <1>5, <1>7
<1> QED
  BY <1>2, <1>3, <1>5, <1>7, <1>8 DEF seen, peers

(* Giving up, the search can name everybody it would have had to visit.     *)
LEMMA BudgetIsFull ==
    ASSUME IInv, LInv, pc = "expand", NEW n \in left, TooMany(n)
    PROVE  \E reached \in SUBSET (Subscribers \ {ends[1], ends[2]}) :
               /\ Cardinality(reached) >= MaxVisited
               /\ \A m \in reached : \E s \in Sides : Within(links, ends[s], m, MaxHops)
<1> DEFINE seen    == Seen(1) \cup Seen(2)
           peers   == Peers(n) \ Seen(side)
           all     == seen \cup peers
           rest    == all \ {ends[1]}
           reached == rest \ {ends[2]}
<1>1. Underway /\ Counted
  BY DEF Underway, LInv
<1>2. /\ IsFiniteSet(all)
      /\ Cardinality(all) = visited + 2 + (Fresh(n) - Cardinality(Met(peers)))
      /\ Fresh(n) \in Nat /\ Cardinality(Met(peers)) \in Nat
  BY <1>1, Counts
<1>3. /\ ends[1] \in Seen(1) /\ ends[2] \in Seen(2)
      /\ ends[1] \in Subscribers /\ ends[2] \in Subscribers /\ ends[1] # ends[2]
  BY <1>1, Parties
<1>4. Cardinality(reached) = Cardinality(all) - 2
  <2>1. ends[1] \in all /\ ends[2] \in rest
    BY <1>3
  <2> HIDE DEF all
  <2>2. IsFiniteSet(rest) /\ Cardinality(rest) = Cardinality(all) - 1
    BY <1>2, <2>1, FS_RemoveElement
  <2> HIDE DEF rest
  <2>3. Cardinality(reached) = Cardinality(rest) - 1
    BY <2>1, <2>2, FS_RemoveElement
  <2>4. Cardinality(all) \in Nat
    BY <1>2, FS_CardinalityType
  <2> QED
    BY <2>2, <2>3, <2>4
<1>5. Cardinality(reached) >= MaxVisited
  <2>1. visited \in 0 .. MaxVisited
    BY Zenon DEF IInv, TypeOK
  <2>2. visited + (Fresh(n) - Cardinality(Met(peers))) >= MaxVisited
    BY DEF TooMany
  <2> HIDE DEF peers, all, reached
  <2> QED
    BY <1>2, <1>4, <2>1, <2>2
<1>6. reached \in SUBSET (Subscribers \ {ends[1], ends[2]})
  <2>1. seen \subseteq Subscribers
    BY TypesOfTrails DEF Sides
  <2>2. peers \subseteq Subscribers
    BY DEF Peers
  <2> QED
    BY <2>1, <2>2
<1>7. PICK h \in [Sides -> Nat] : Rounds(h)
  BY DEF IInv, Budget
<1>8. /\ \A s \in Sides : h[s] \in Nat /\ h[s] + 1 <= MaxHops
      /\ MaxHops \in Nat
  <2>1. h[1] \in Nat /\ h[2] \in Nat
    BY DEF Sides
  <2>2. h[1] + h[2] = hop /\ hop < MaxHops
    BY <1>7 DEF Rounds
  <2>3. hop \in 0 .. MaxHops
    BY Zenon DEF IInv, TypeOK
  <2>4. h[1] + 1 <= MaxHops /\ h[2] + 1 <= MaxHops
    BY <2>1, <2>2, <2>3
  <2> QED
    BY <2>1, <2>4 DEF Sides
<1>9. ASSUME NEW m, NEW s \in Sides, NEW t, Leads(t, ends[s], m, links), Len(t) <= h[s] + 2
      PROVE  Within(links, ends[s], m, MaxHops)
  <2>1. t \in Seq(Subscribers) /\ Len(t) \in Nat
    BY <1>9 DEF Leads
  <2>2. Len(t) <= MaxHops + 1
    BY <1>8, <1>9, <2>1
  <2> QED
    BY <1>8, <1>9, <2>2, LeadsWithin
<1>10. ASSUME NEW m \in Seen(side) \cup peers
       PROVE  \E s \in Sides : Within(links, ends[s], m, MaxHops)
  <2>1. Leads(Way(n, m), ends[side], m, links) /\ Len(Way(n, m)) <= h[side] + 2
    BY <1>7, WayLeads
  <2>2. side \in Sides
    BY Apart
  <2> QED
    BY <1>9, <2>1, <2>2
<1>11. ASSUME NEW m \in Seen(3 - side)
       PROVE  \E s \in Sides : Within(links, ends[s], m, MaxHops)
  <2>1. 3 - side \in Sides
    BY Apart
  <2>2. /\ Leads(trail[3 - side][m], ends[3 - side], m, links)
        /\ Len(trail[3 - side][m]) \in Nat /\ Len(trail[3 - side][m]) <= h[3 - side] + 1
    BY <1>7, <2>1, TypesOfTrails DEF IInv, Trails, Rounds
  <2>3. Len(trail[3 - side][m]) <= h[3 - side] + 2
    BY <1>8, <2>1, <2>2
  <2> QED
    BY <1>9, <2>1, <2>2, <2>3
<1>12. \A m \in reached : m \in Seen(side) \cup peers \/ m \in Seen(3 - side)
  <2>1. \A s \in Sides : s = side \/ s = 3 - side
    BY Apart
  <2> QED
    BY <2>1 DEF Sides
<1> HIDE DEF reached, peers
<1>13. \A m \in reached : \E s \in Sides : Within(links, ends[s], m, MaxHops)
  BY <1>10, <1>11, <1>12
<1> QED
  BY <1>5, <1>6, <1>13

LEMMA EndsKeepsL ==
    ASSUME IInv, LInv, NEW n \in left, Ends(n), pc = "expand",
           links' = links, ends' = ends, found_on' = found_on
    PROVE  LInv'
<1>1. /\ pc' \in {"hops", "answered"} /\ answer' \in {answer, "found", "down", "gave_up"}
      /\ pc' = "hops" => answer' = answer
      /\ answer' \in {answer, "found", "down"} \/ TooMany(n)
  BY DEF Ends
<1>2. Underway /\ answer = ""
  BY DEF Underway, LInv, Quiet
<1>3. ~ Underway' /\ Quiet'
  BY <1>1, <1>2 DEF Underway, Quiet
<1>4. NoneMeansNone'
  BY <1>1, <1>2 DEF NoneMeansNone
<1>5. FullBudget'
  <2>1. CASE answer' = "gave_up"
    <3>1. TooMany(n)
      BY <1>1, <1>2, <2>1
    <3>2. \E reached \in SUBSET (Subscribers \ {ends[1], ends[2]}) :
               /\ Cardinality(reached) >= MaxVisited
               /\ \A m \in reached : \E s \in Sides : Within(links, ends[s], m, MaxHops)
      BY <3>1, BudgetIsFull
    <3> QED
      BY <3>2 DEF FullBudget
  <2>2. CASE answer' # "gave_up"
    BY <2>2 DEF FullBudget
  <2> QED
    BY <2>1, <2>2
<1>6. NoDetour'
  <2>1. CASE route' = route
    BY <2>1, VerdictsStay DEF LInv
  <2>2. CASE Leads(route', ends[1], ends[2], links) /\ Len(route') <= hop + 2
    <3>1. SUFFICES ASSUME Len(route') > 1, Within(found_on, ends[1], ends[2], Len(route') - 2)
                   PROVE  FALSE
      BY DEF NoDetour
    <3>2. Len(route') \in Nat
      BY <2>2 DEF Leads
    <3>3. hop \in 0 .. MaxHops
      BY Zenon DEF IInv, TypeOK
    <3>4. Len(route') - 2 \in Nat /\ hop \in Nat /\ Len(route') - 2 <= hop
      BY <2>2, <3>1, <3>2, <3>3
    <3>5. ends[2] \in Subscribers
      BY <1>2, Parties DEF LInv
    <3>6. Within(found_on, ends[1], ends[2], hop)
      BY <3>1, <3>4, <3>5, WithinOn
    <3> QED
      BY <1>2, <3>6, NoPathYet DEF LInv
  <2> QED
    BY <2>1, <2>2, MeetingEnds
<1> QED
  BY <1>3, <1>4, <1>5, <1>6 DEF LInv, Closed, Complete, Counted

LEMMA GoesOnKeepsL ==
    ASSUME IInv, LInv, NEW n \in left, GoesOn(n), pc = "expand",
           links' = links, ends' = ends, found_on' = found_on, hop' = hop, side' = side
    PROVE  LInv'
<1> DEFINE peers == Peers(n) \ Seen(side)
<1>1. /\ pc' = pc /\ answer' = answer /\ route' = route /\ left' = left \ {n}
      /\ Met(peers) = {} /\ visited' = visited + Fresh(n)
      /\ frontier' = [frontier EXCEPT ![side] = @ \cup peers]
      /\ trail' = [trail EXCEPT ![side] = Reached(n)]
  BY DEF GoesOn
<1>2. /\ side \in Sides /\ 3 - side \in Sides /\ side # 3 - side
      /\ \A s \in Sides : s = side \/ s = 3 - side
  BY Apart
<1>3. /\ trail'[side] = Reached(n) /\ trail'[3 - side] = trail[3 - side]
      /\ frontier'[side] = frontier[side] \cup peers /\ frontier'[3 - side] = frontier[3 - side]
  <2>1. DOMAIN trail = 1 .. 2 /\ DOMAIN frontier = 1 .. 2 /\ side \in 1 .. 2 /\ 3 - side \in 1 .. 2
    BY <1>2 DEF IInv, Shape, IsPair, Sides
  <2> QED
    BY <1>1, <1>2, <2>1
<1>4. Seen(side)' = Seen(side) \cup peers /\ Seen(3 - side)' = Seen(3 - side)
  <2>1. DOMAIN Reached(n) = Seen(side) \cup peers
    BY DEF Reached
  <2>2. DOMAIN (trail'[side']) = Seen(side) \cup peers /\ DOMAIN (trail'[3 - side']) = Seen(3 - side)
    BY <1>3, <2>1 DEF Seen
  <2> QED
    BY <2>2 DEF Seen
<1>5. Underway /\ Underway' /\ pc' = "expand" /\ pc # "hop"
  BY <1>1 DEF Underway
<1>6. NoneMeansNone' /\ NoDetour' /\ FullBudget' /\ Quiet'
  BY <1>1, VerdictsStay DEF LInv, Quiet
<1>7. \A m \in Subscribers : {n, m} \in found_on => m \in Seen(side) \cup peers
  <2>1. found_on \subseteq links
    BY DEF IInv, TypeOK
  <2> QED
    BY <2>1 DEF Peers
<1>8. /\ Unexpanded(side) = frontier[side] \cup left
      /\ Unexpanded(side)' = frontier[side] \cup peers \cup (left \ {n})
      /\ Unexpanded(3 - side)' = Unexpanded(3 - side)
  <2>1. Unexpanded(side) = frontier[side] \cup left
    BY DEF Unexpanded
  <2>2. Unexpanded(side)' = frontier[side] \cup peers \cup (left \ {n})
    BY <1>1, <1>3, <1>5 DEF Unexpanded
  <2>3. Unexpanded(3 - side)' = Unexpanded(3 - side)
    BY <1>2, <1>3 DEF Unexpanded
  <2> QED
    BY <2>1, <2>2, <2>3
<1> HIDE DEF peers
<1>9. Closed'
  <2>1. \A s \in Sides : \A k \in Seen(s) \ Unexpanded(s) : \A m \in Subscribers :
            {k, m} \in found_on => m \in Seen(s)
    BY <1>5 DEF LInv, Closed
  <2>2. \A k \in Seen(side)' \ Unexpanded(side)' : \A m \in Subscribers :
            {k, m} \in found_on => m \in Seen(side)'
    <3> TAKE k \in Seen(side)' \ Unexpanded(side)'
    <3>1. k = n \/ k \in Seen(side) \ Unexpanded(side)
      BY <1>4, <1>8
    <3>2. CASE k = n
      BY <1>4, <1>7, <3>2
    <3>3. CASE k \in Seen(side) \ Unexpanded(side)
      BY <1>2, <1>4, <2>1, <3>3
    <3> QED
      BY <3>1, <3>2, <3>3
  <2>3. \A k \in Seen(3 - side)' \ Unexpanded(3 - side)' : \A m \in Subscribers :
            {k, m} \in found_on => m \in Seen(3 - side)'
    BY <1>2, <1>4, <1>8, <2>1
  <2>4. \A s \in Sides : \A k \in Seen(s)' \ Unexpanded(s)' : \A m \in Subscribers :
            {k, m} \in found_on => m \in Seen(s)'
    BY <1>2, <2>2, <2>3
  <2> QED
    BY <2>4 DEF Closed
<1>10. Complete'
  <2>1. PICK h \in [Sides -> Nat] : Levels(h)
    BY <1>5 DEF LInv, Complete
  <2>2. ASSUME NEW m \in Subscribers, Within(found_on, ends[side], m, h[side])
        PROVE  m \in Seen(side)' \ frontier'[side]
    <3>1. m \in Seen(side) \ frontier[side]
      BY <1>5, <2>1, <2>2 DEF Levels
    <3> QED
      BY <1>3, <1>4, <3>1 DEF peers
  <2>3. ASSUME NEW m \in Subscribers, Within(found_on, ends[3 - side], m, h[3 - side])
        PROVE  m \in Seen(3 - side)'
    BY <1>4, <1>5, <2>1, <2>3 DEF Levels
  <2>4. h[1] + h[2] = hop
    BY <2>1 DEF Levels
  <2>5. Levels(h)'
    BY <1>5, <2>2, <2>3, <2>4 DEF Levels
  <2> QED
    BY <2>5 DEF Complete
<1>11. Counted'
  <2>1. Cardinality(Seen(1) \cup Seen(2) \cup peers) = visited + 2 + (Fresh(n) - Cardinality(Met(peers)))
    BY <1>5, Counts DEF peers, LInv
  <2>2. Cardinality(Met(peers)) = 0 /\ Fresh(n) \in Nat
    BY <1>1, <1>5, Counts, FS_EmptySet DEF LInv, peers
  <2>3. (Seen(1) \cup Seen(2))' = Seen(1) \cup Seen(2) \cup peers
    <3>1. \/ side = 1 /\ 3 - side = 2
          \/ side = 2 /\ 3 - side = 1
      BY <1>2 DEF Sides
    <3> QED
      BY <1>4, <3>1
  <2>4. visited \in 0 .. MaxVisited
    BY Zenon DEF IInv, TypeOK
  <2>5. Cardinality((Seen(1) \cup Seen(2))') = visited + 2 + (Fresh(n) - 0)
    BY <2>1, <2>2, <2>3, Zenon
  <2>6. visited + 2 + (Fresh(n) - 0) = visited' + 2
    BY <1>1, <2>2, <2>4
  <2>7. Cardinality(Seen(1) \cup Seen(2))' = visited' + 2
    BY <2>5, <2>6, Zenon
  <2>8. \A s \in Sides : ends'[s] \in Seen(s)'
    BY <1>2, <1>4, <1>5 DEF LInv, Counted
  <2> QED
    BY <2>7, <2>8 DEF Counted
<1> QED
  BY <1>6, <1>9, <1>10, <1>11 DEF LInv

LEMMA LNext == IInv /\ LInv /\ [Next]_vars => LInv'
<1> SUFFICES ASSUME IInv, LInv, [Next]_vars PROVE LInv'
  OBVIOUS
<1>1. ASSUME NEW l \in Links, Grow(l) PROVE LInv'
  BY <1>1, GrowKeepsL
<1>2. ASSUME NEW a \in Subscribers, NEW b \in Subscribers, Request(a, b) PROVE LInv'
  BY <1>2, RequestKeepsL
<1>3. CASE Hop
  BY <1>3, HopKeepsL
<1>4. ASSUME NEW n \in Subscribers, Expand(n) PROVE LInv'
  BY <1>4, ExpandCases, EndsKeepsL, GoesOnKeepsL
<1>5. CASE EndHop
  BY <1>5, EndHopKeepsL
<1>6. CASE Carried
  BY <1>6, CarriedKeepsL
<1>7. CASE UNCHANGED vars
  <2>1. /\ links' = links /\ ends' = ends /\ found_on' = found_on /\ answer' = answer
        /\ route' = route /\ pc' = pc /\ hop' = hop /\ visited' = visited /\ side' = side
        /\ left' = left /\ frontier' = frontier /\ trail' = trail
    BY <1>7 DEF vars, search
  <2>2. (\A s : Seen(s)' = Seen(s)) /\ (\A s : Unexpanded(s)' = Unexpanded(s)) /\ Underway' = Underway
    BY <2>1 DEF Seen, Unexpanded, Underway
  <2>3. NoneMeansNone' /\ NoDetour' /\ FullBudget'
    BY <2>1, VerdictsStay DEF LInv
  <2>4. Closed' /\ Counted' /\ Quiet'
    BY <2>1, <2>2 DEF LInv, Closed, Counted, Quiet
  <2>5. Complete'
    BY <2>1, <2>2 DEF LInv, Complete, Levels
  <2> QED
    BY <2>3, <2>4, <2>5 DEF LInv
<1> QED
  BY <1>1, <1>2, <1>3, <1>4, <1>5, <1>6, <1>7 DEF Next

LEMMA LAlways == Spec => []LInv
BY InvAlways, LInit, LNext, PTL DEF Spec

(* A search that answers that there is no path within max_hops was right    *)
(* when it began: no link of such a path escapes its level by level         *)
(* expansion, whichever side is the narrower one and whatever links are     *)
(* added meanwhile.                                                         *)
THEOREM NoneIsNone == Spec => []NoneMeansNone
<1>1. LInv => NoneMeansNone
  BY DEF LInv
<1> QED
  BY <1>1, LAlways, PTL

(* No path that was there when the search began is shorter than the one it  *)
(* answers with, though the side that is expanded is chosen by its width.   *)
THEOREM FoundIsShortest == Spec => []NoDetour
<1>1. LInv => NoDetour
  BY DEF LInv
<1> QED
  BY <1>1, LAlways, PTL

(* max_visited is never used up by one subscriber counted twice: a search   *)
(* that gives up had that many to visit within the hop limit.               *)
THEOREM GivesUpWithCause == Spec => []FullBudget
<1>1. LInv => FullBudget
  BY DEF LInv
<1> QED
  BY <1>1, LAlways, PTL
=============================================================================
