---------------------------- MODULE ReportsProofs ----------------------------
(***************************************************************************)
(* Theorems about Paging, for any listing and any page the parameters of a *)
(* request may name, and about Reports, for any batches of call records:   *)
(* what the reports say of each other, what the log covers, and what a     *)
(* walk over a listing shows.                                              *)
(***************************************************************************)
EXTENDS Reports, AggregateProofs

-----------------------------------------------------------------------------
(* Pages. *)

(* What parseParams makes of a request it accepts.                          *)
LEMMA ParsedIsBounded ==
    ASSUME NEW offset, NEW limit,
           offset.count \in BOOLEAN, limit.count \in BOOLEAN,
           offset.named \in BOOLEAN, limit.named \in BOOLEAN,
           ParseParams(offset, limit).status = 200
    PROVE  /\ ParseParams(offset, limit).offset \in Word
           /\ ParseParams(offset, limit).limit \in 0 .. Cap
<1> DEFINE request == ParseParams(offset, limit)
<1>1. /\ offset.named => IsCount(offset)
      /\ limit.named => IsCount(limit)
  BY DEF ParseParams
<1>2. request.offset \in Word
  BY WidthAssumption DEF ParseParams, IsCount, Word
<1>3. request.limit \in 0 .. Cap
  BY <1>1, WidthAssumption, LimitAssumption DEF ParseParams, IsCount, Word, Smaller
<1> QED
  BY <1>2, <1>3

(* The last rank does not wrap when the first one is one Redis reads.       *)
LEMMA StopIsExact ==
    ASSUME NEW offset \in Word, NEW limit \in 1 .. Cap, Signed(offset)
    PROVE  Stop(offset, limit) = offset + limit - 1
<1>1. offset + limit - 1 \in 0 .. Width - 1
  BY WidthAssumption, LimitAssumption DEF Word, Signed
<1>2. \A n \in 0 .. Width - 1 : n % Width = n
  BY WidthAssumption
<1> QED
  BY <1>1, <1>2, LimitAssumption DEF Stop

(* ZREVRANGE over the ranks RedisQuery::top asks for cuts a board as page() *)
(* cuts a listing read whole: no page is short, long or shifted at the end  *)
(* of the board, for a limit of 0 or at the end of the number range.        *)
THEOREM RedisCutsLikePage ==
    ASSUME NEW Elements, NEW all \in Seq(Elements),
           NEW offset \in Word, NEW limit \in 0 .. Cap, TopServed(offset, limit)
    PROVE  TopPage(all, offset, limit) = Page(all, offset, limit)
<1> DEFINE n == Len(all)
<1>1. n \in Nat /\ offset \in Nat /\ limit \in Nat
  BY LimitAssumption DEF Word
<1>2. CASE limit = 0
  <2>1. Stop(offset, limit) = 0 - 1
    BY <1>2 DEF Stop
  <2>2. TopPage(all, offset, limit) =
            IF offset > n - 1 \/ offset >= n THEN <<>>
            ELSE SubSeq(all, offset + 1, Smaller(n - 1, n - 1) + 1)
    BY <1>1, <2>1 DEF TopPage, ZRange
  <2>3. Page(all, offset, limit) =
            IF offset >= n THEN <<>> ELSE SubSeq(all, offset + 1, offset + (n - offset))
    BY <1>2 DEF Page
  <2>4. Smaller(n - 1, n - 1) + 1 = n /\ offset + (n - offset) = n
    BY <1>1 DEF Smaller
  <2> QED
    BY <1>1, <2>2, <2>3, <2>4
<1>3. CASE limit > 0
  <2>1. Stop(offset, limit) = offset + limit - 1
    BY <1>1, <1>3, StopIsExact DEF TopServed
  <2>2. TopPage(all, offset, limit) =
            IF offset >= n THEN <<>>
            ELSE SubSeq(all, offset + 1, Smaller(offset + limit - 1, n - 1) + 1)
    BY <1>1, <1>3, <2>1 DEF TopPage, ZRange
  <2>3. Page(all, offset, limit) =
            IF offset >= n THEN <<>> ELSE SubSeq(all, offset + 1, offset + Smaller(limit, n - offset))
    BY <1>3 DEF Page
  <2>4. Smaller(offset + limit - 1, n - 1) + 1 = offset + Smaller(limit, n - offset)
    BY <1>1 DEF Smaller
  <2> QED
    BY <2>2, <2>3, <2>4
<1> QED
  BY <1>1, <1>2, <1>3

-----------------------------------------------------------------------------
(* The last page starts at a whole number of pages and reaches the end.     *)
LEMMA LastStartsOnPage ==
    ASSUME NEW count \in Nat \ {0}, NEW limit \in Nat \ {0}
    PROVE  \E q \in Nat : /\ LastOffset(count, limit) = q * limit
                         /\ q * limit < count
                         /\ count <= q * limit + limit
<1> DEFINE q == (count - 1) \div limit
<1>1. q \in Nat /\ q * limit <= count - 1 /\ count - 1 < (q + 1) * limit
  OBVIOUS
<1>2. (q + 1) * limit = q * limit + limit /\ q * limit \in Nat
  BY <1>1
<1>3. LastOffset(count, limit) = q * limit
  BY DEF LastOffset
<1> HIDE DEF q
<1> QED
  BY <1>1, <1>2, <1>3

LEMMA NextStartsOnPage ==
    ASSUME NEW count \in Nat, NEW limit \in Nat \ {0}, NEW k \in Nat,
           k * limit < LastOffset(count, limit)
    PROVE  /\ NextOffset(k * limit, count, limit) = (k + 1) * limit
           /\ (k + 1) * limit < count
<1>1. count # 0
  BY DEF LastOffset
<1>2. PICK q \in Nat : LastOffset(count, limit) = q * limit /\ q * limit < count
  BY <1>1, LastStartsOnPage
<1>3. k + 1 <= q
  <2>1. ASSUME q <= k PROVE q * limit <= k * limit
    BY <2>1
  <2>2. k * limit \in Nat /\ q * limit \in Nat /\ k * limit < q * limit
    BY <1>2
  <2> QED
    BY <2>1, <2>2
<1>4. (k + 1) * limit <= q * limit
  BY <1>3
<1>5. (k + 1) * limit = k * limit + limit /\ (k + 1) * limit \in Nat /\ q * limit \in Nat
  OBVIOUS
<1> QED
  BY <1>2, <1>4, <1>5 DEF NextOffset, Smaller

LEMMA TwoParts ==
    ASSUME NEW Elements, NEW all \in Seq(Elements), NEW h \in Nat, NEW e \in Nat,
           h <= e, e <= Len(all)
    PROVE  SubSeq(all, 1, h) \o SubSeq(all, h + 1, e) = SubSeq(all, 1, e)
OBVIOUS

(* "next" of the Pager goes on exactly where the page shown ends: what was  *)
(* shown of a listing that stays as it is, is its beginning, without a gap  *)
(* and without an entry shown twice.                                        *)
THEOREM NextPageContinues ==
    ASSUME NEW Elements, NEW all \in Seq(Elements), NEW limit \in Nat \ {0}, NEW k \in Nat,
           k * limit < LastOffset(Len(all), limit)
    PROVE  SubSeq(all, 1, k * limit) \o Page(all, k * limit, limit)
               = SubSeq(all, 1, NextOffset(k * limit, Len(all), limit))
<1> DEFINE offset == k * limit
           n == Len(all)
<1>1. offset \in Nat /\ n \in Nat /\ (k + 1) * limit = offset + limit
  OBVIOUS
<1>2. NextOffset(offset, n, limit) = offset + limit /\ offset + limit < n
  BY <1>1, NextStartsOnPage
<1> HIDE DEF offset
<1>3. Page(all, offset, limit) = SubSeq(all, offset + 1, offset + limit)
  <2>1. ~(offset >= n) /\ limit # 0 /\ Smaller(limit, n - offset) = limit
    BY <1>1, <1>2 DEF Smaller
  <2> QED
    BY <2>1 DEF Page
<1>4. SubSeq(all, 1, offset) \o SubSeq(all, offset + 1, offset + limit) = SubSeq(all, 1, offset + limit)
  BY <1>1, <1>2, TwoParts
<1> QED
  BY <1>2, <1>3, <1>4 DEF offset

(* And from the page on which it is dead, nothing is left out.              *)
THEOREM LastPageCompletes ==
    ASSUME NEW Elements, NEW all \in Seq(Elements), NEW limit \in Nat \ {0}, Len(all) # 0,
           NEW offset, offset = LastOffset(Len(all), limit)
    PROVE  SubSeq(all, 1, offset) \o Page(all, offset, limit) = all
<1>1. PICK n \in Nat \ {0} : n = Len(all)
  OBVIOUS
<1>2. offset \in Nat /\ offset < n /\ n <= offset + limit
  <2>1. PICK q \in Nat : offset = q * limit /\ q * limit < n /\ n <= q * limit + limit
    BY <1>1, LastStartsOnPage
  <2> QED
    BY <2>1
<1>3. Page(all, offset, limit) = SubSeq(all, offset + 1, n)
  <2>1. ~(offset >= n) /\ limit # 0 /\ Smaller(limit, n - offset) = n - offset
    BY <1>1, <1>2 DEF Smaller
  <2>2. Page(all, offset, limit) = SubSeq(all, offset + 1, offset + (n - offset))
    BY <1>1, <2>1 DEF Page
  <2>3. offset + (n - offset) = n
    BY <1>1, <1>2
  <2> QED
    BY <2>2, <2>3
<1>4. SubSeq(all, 1, offset) \o SubSeq(all, offset + 1, n) = SubSeq(all, 1, n)
  <2>1. offset \in Nat /\ n \in Nat /\ offset <= n /\ n <= Len(all)
    BY <1>1, <1>2
  <2> QED
    BY <2>1, TwoParts
<1>5. SubSeq(all, 1, n) = all
  BY <1>1
<1> QED
  BY <1>3, <1>4, <1>5

-----------------------------------------------------------------------------
(* The store: what a batch adds to it. *)

LEMMA NamesAreFinite == IsFiniteSet(NamesSeen)
<1>1. ASSUME NEW X, NEW s \in Seq(X) PROVE IsFiniteSet(ToSet(s))
  <2>1. PICK n \in Nat : DOMAIN s = 1 .. n
    OBVIOUS
  <2>2. IsFiniteSet(DOMAIN s)
    <3>1. 1 \in Int /\ n \in Int
      OBVIOUS
    <3> QED
      BY <2>1, <3>1, FS_Interval
  <2>3. IsFiniteSet({s[i] : i \in DOMAIN s})
    BY <2>2, ImageIsFinite
  <2> QED
    BY <2>3 DEF ToSet
<1>2. Batches \in Seq(Seq(CallRecord))
  BY ReportsAssumption
<1>3. IsFiniteSet(ToSet(Batches))
  BY <1>1, <1>2
<1> DEFINE of(r) == {r.subscriberMSISDN, r.secondPartyMSISDN, Operator(r)}
           in(batch) == UNION {of(r) : r \in ToSet(batch)}
<1>4. ASSUME NEW r PROVE IsFiniteSet(of(r))
  <2>1. ASSUME NEW a, NEW b, NEW c PROVE IsFiniteSet({a, b, c})
    <3>1. IsFiniteSet({a})
      BY FS_Singleton
    <3>2. IsFiniteSet({a} \cup {b})
      BY <3>1, FS_AddElement
    <3>3. IsFiniteSet(({a} \cup {b}) \cup {c})
      BY <3>2, FS_AddElement
    <3>4. {a, b, c} = ({a} \cup {b}) \cup {c}
      OBVIOUS
    <3> QED
      BY <3>3, <3>4
  <2> QED
    BY <2>1
<1>5. ASSUME NEW batch \in ToSet(Batches) PROVE IsFiniteSet(in(batch))
  <2>1. batch \in Seq(CallRecord)
    BY <1>2 DEF ToSet
  <2>2. IsFiniteSet(ToSet(batch))
    BY <1>1, <2>1
  <2>3. PICK g, S : S = ToSet(batch) /\ g = [r \in S |-> of(r)]
    OBVIOUS
  <2>4. IsFiniteSet({g[r] : r \in S})
    <3>1. IsFiniteSet(S)
      BY <2>2, <2>3
    <3> QED
      BY <3>1, ImageIsFinite
  <2>5. {g[r] : r \in S} = {of(r) : r \in S}
    BY <2>3
  <2>6. \A T \in {of(r) : r \in S} : IsFiniteSet(T)
    BY <1>4
  <2>7. IsFiniteSet(UNION {of(r) : r \in S})
    BY <2>4, <2>5, <2>6, FS_UNION
  <2> QED
    BY <2>3, <2>7
<1> HIDE DEF of, in
<1>6. PICK g, S : S = ToSet(Batches) /\ g = [batch \in S |-> in(batch)]
  OBVIOUS
<1>7. IsFiniteSet({g[batch] : batch \in S})
  BY <1>3, <1>6, ImageIsFinite
<1>8. {g[batch] : batch \in S} = {in(batch) : batch \in S}
  BY <1>6
<1>9. \A T \in {in(batch) : batch \in S} : IsFiniteSet(T)
  BY <1>5, <1>6
<1>10. IsFiniteSet(UNION {in(batch) : batch \in S})
  BY <1>7, <1>8, <1>9, FS_UNION
<1>11. NamesSeen = UNION {in(batch) : batch \in S}
  BY <1>6 DEF NamesSeen, in, of
<1> QED
  BY <1>10, <1>11

LEMMA BatchesAreKnown ==
    ASSUME NEW b \in DOMAIN Batches
    PROVE  KnownBatch(Batches[b], NamesSeen)
<1>1. Batches[b] \in Seq(CallRecord) /\ Batches[b] \in ToSet(Batches)
  BY ReportsAssumption DEF ToSet
<1>2. ASSUME NEW i \in DOMAIN Batches[b] PROVE Known(Batches[b][i], NamesSeen)
  <2>1. PICK r : r = Batches[b][i]
    OBVIOUS
  <2>2. r \in CallRecord /\ r \in ToSet(Batches[b])
    BY <1>1, <2>1 DEF ToSet
  <2>3. {r.subscriberMSISDN, r.secondPartyMSISDN, Operator(r)} \subseteq NamesSeen
    BY <1>1, <2>2 DEF NamesSeen
  <2> QED
    BY <2>1, <2>2, <2>3 DEF Known
<1> QED
  BY <1>1, <1>2 DEF KnownBatch

LEMMA AddAllHolds ==
    ASSUME NEW X, NEW old, NEW new, Holds(old, X), Holds(new, X)
    PROVE  /\ Holds(AddAll(old, new), X)
           /\ \A C : HeldIn(AddAll(old, new), C) = HeldIn(old, C) + HeldIn(new, C)
           /\ \A c : At(AddAll(old, new), c) = At(old, c) + At(new, c)
           /\ NonZero(old) = DOMAIN old /\ NonZero(new) = DOMAIN new =>
                  NonZero(AddAll(old, new)) = DOMAIN AddAll(old, new)
<1>1. PICK D, all : D = DOMAIN old \cup DOMAIN new /\ all = AddAll(old, new)
  OBVIOUS
<1>2. DOMAIN all = D /\ \A c \in D : all[c] = At(old, c) + At(new, c)
  BY <1>1 DEF AddAll
<1>3. \A c : At(old, c) \in Nat /\ At(new, c) \in Nat
  BY AtIsHeld
<1>4. IsFiniteSet(D) /\ D \subseteq X
  BY <1>1, FS_Union DEF Holds
<1>5. Holds(all, X)
  <2>1. all = [c \in D |-> At(old, c) + At(new, c)]
    BY <1>1 DEF AddAll
  <2>2. all \in [D -> Nat]
    BY <1>3, <2>1
  <2> QED
    BY <1>2, <1>4, <2>2 DEF Holds
<1>6. ASSUME NEW C PROVE HeldIn(all, C) = HeldIn(old, C) + HeldIn(new, C)
  <2>1. PICK E, u, v : /\ E = {c \in D : c \in C}
                       /\ u = [c \in D |-> At(old, c)] /\ v = [c \in D |-> At(new, c)]
    OBVIOUS
  <2>2. IsFiniteSet(E)
    BY <1>4, <2>1, FS_Subset
  <2>3. Naturals(u, E) /\ Naturals(v, E)
    BY <1>3, <2>1, <2>2 DEF Naturals
  <2>4. \A c \in E : all[c] = u[c] + v[c]
    BY <1>2, <2>1
  <2>5. SumOf(all, E) = SumOf(u, E) + SumOf(v, E)
    BY <2>3, <2>4, SumOfPlus
  <2>6. ASSUME NEW w, NEW cells, DOMAIN cells \subseteq D, w = [c \in D |-> At(cells, c)], Naturals(w, E)
        PROVE  SumOf(w, E) = HeldIn(cells, C)
    <3>1. PICK T : T = {c \in DOMAIN cells : c \in C}
      OBVIOUS
    <3>2. T \in SUBSET E
      BY <2>1, <2>6, <3>1
    <3>3. \A x \in E \ T : w[x] = 0
      BY <2>1, <2>6, <3>1 DEF At
    <3>4. SumOf(w, T) = SumOf(w, E)
      BY <2>6, <3>2, <3>3, SumOfPart
    <3>5. \A x \in T : w[x] = cells[x]
      BY <2>6, <3>1 DEF At
    <3>6. SumOf(w, T) = SumOf(cells, T)
      BY <3>5, SumOfSame
    <3> QED
      BY <3>1, <3>4, <3>6 DEF HeldIn
  <2>7. SumOf(u, E) = HeldIn(old, C) /\ SumOf(v, E) = HeldIn(new, C)
    BY <1>1, <2>1, <2>3, <2>6
  <2> QED
    BY <1>2, <2>1, <2>5, <2>7 DEF HeldIn
<1>7. ASSUME NEW c PROVE At(all, c) = At(old, c) + At(new, c)
  <2>1. CASE c \in D
    BY <1>2, <2>1 DEF At
  <2>2. CASE c \notin D
    BY <1>1, <1>2, <2>2 DEF At
  <2> QED
    BY <2>1, <2>2
<1>8. ASSUME NonZero(old) = DOMAIN old, NonZero(new) = DOMAIN new
      PROVE  NonZero(all) = DOMAIN all
  <2>1. ASSUME NEW c \in D PROVE all[c] # 0
    <3>1. At(old, c) # 0 \/ At(new, c) # 0
      BY <1>1, <1>8 DEF At, NonZero
    <3> QED
      BY <1>2, <1>3, <3>1
  <2> QED
    BY <1>2, <2>1 DEF NonZero
<1> QED
  BY <1>1, <1>5, <1>6, <1>7, <1>8

(* The store holds nothing but cells of those that occur, and no zeros.     *)
StoreInv ==
    /\ Holds(store, Cells(NamesSeen)) /\ NonZero(store) = DOMAIN store
    /\ Holds(merged, TotalCells)
    /\ stage \in [DOMAIN Batches -> {"new", "merged", "whole", "tail", "lost"}]

Left(b, from) == Behind(CommandsOf[b], from)

LEMMA CommandsLeft ==
    ASSUME NEW b \in DOMAIN Batches
    PROVE  /\ Left(b, 1) = Commands(Batches[b])
           /\ Left(b, 1) \in Seq(RealAdditions(Cells(NamesSeen)))
           /\ \A from \in 2 .. Len(CommandsOf[b]) :
                  /\ Left(b, from) = Behind(Commands(Batches[b]), from)
                  /\ from \in 1 .. Len(Commands(Batches[b]))
                  /\ Left(b, from) \in Seq(RealAdditions(Cells(NamesSeen)))
<1>1. KnownBatch(Batches[b], NamesSeen)
  BY BatchesAreKnown
<1>2. PICK s : s = Commands(Batches[b])
  OBVIOUS
<1>3. CommandsOf[b] = s
  BY <1>2 DEF CommandsOf
<1>4. s \in Seq(RealAdditions(Cells(NamesSeen)))
  <2>1. PICK t, u, f : Parts(Batches[b], NamesSeen, t, u, f)
    BY <1>1, CommandsAreParts
  <2> QED
    BY <1>2, <2>1 DEF Parts
<1>5. Behind(s, 1) = s
  BY <1>4 DEF Behind
<1>6. ASSUME NEW from \in 2 .. Len(s)
      PROVE  from \in 1 .. Len(s) /\ Behind(s, from) \in Seq(RealAdditions(Cells(NamesSeen)))
  <2>1. from \in 1 .. Len(s)
    BY <1>4
  <2> QED
    BY <1>4, <2>1, BehindIsLess
<1> QED
  BY <1>2, <1>3, <1>4, <1>5, <1>6 DEF Left

LEMMA ApplyAdds ==
    ASSUME StoreInv, NEW b, NEW from, Apply(b, from),
           Left(b, from) \in Seq(RealAdditions(Cells(NamesSeen)))
    PROVE  /\ Holds(store', Cells(NamesSeen)) /\ NonZero(store') = DOMAIN store'
           /\ merged' = merged
           /\ \A C : HeldIn(store', C) = HeldIn(store, C) + AddedTo(Left(b, from), C)
           /\ DOMAIN store \subseteq DOMAIN store'
           /\ \A c : At(store', c) = At(store, c) + AddedTo(Left(b, from), {c})
<1>1. PICK X, adds, new : X = Cells(NamesSeen) /\ adds = Left(b, from) /\ new = Summed(adds)
  OBVIOUS
<1>2. adds \in Seq(Additions(X))
  BY <1>1, RealAreAdditions
<1>3. Holds(new, X) /\ NonZero(new) = DOMAIN new
  BY <1>1, <1>2, SummedByCell, NoZeros
<1>4. \A C : HeldIn(new, C) = AddedTo(adds, C)
  BY <1>1, <1>2, HeldIsAdded
<1>5. store' = AddAll(store, new) /\ merged' = merged
  BY <1>1 DEF Apply, Left, Behind
<1>6. Holds(store, X) /\ NonZero(store) = DOMAIN store
  BY <1>1 DEF StoreInv
<1>7. PICK old, all : old = store /\ all = AddAll(store, new)
  OBVIOUS
<1>8. /\ Holds(all, X) /\ NonZero(all) = DOMAIN all
      /\ \A C : HeldIn(all, C) = HeldIn(old, C) + HeldIn(new, C)
      /\ \A c : At(all, c) = At(old, c) + At(new, c)
  BY <1>3, <1>6, <1>7, AddAllHolds
<1>9. \A c : At(new, c) = AddedTo(adds, {c})
  BY <1>3, <1>4, AtIsHeld
<1>10. DOMAIN old \subseteq DOMAIN all
  BY <1>7 DEF AddAll
<1> QED
  BY <1>1, <1>4, <1>5, <1>7, <1>8, <1>9, <1>10

-----------------------------------------------------------------------------
(* Listings: a finite set in a strict order. *)

StrictOrder(S, before) ==
    /\ \A x \in S : <<x, x>> \notin before
    /\ \A x, y, z \in S : <<x, y>> \in before /\ <<y, z>> \in before => <<x, z>> \in before
    /\ \A x, y \in S : x # y => <<x, y>> \in before \/ <<y, x>> \in before

Ahead(S, before, m) == {x \in S : <<x, m>> \in before}

Place(S, before, m) == Cardinality(Ahead(S, before, m))

(* A member's place says how many come first, and no two share one.         *)
LEMMA PlacesDiffer ==
    ASSUME NEW S, IsFiniteSet(S), NEW before, StrictOrder(S, before), NEW m \in S
    PROVE  /\ Place(S, before, m) \in 0 .. Cardinality(S) - 1
           /\ \A k \in S : <<m, k>> \in before => Place(S, before, m) < Place(S, before, k)
           /\ \A k \in S : Place(S, before, m) = Place(S, before, k) => m = k
<1>1. Cardinality(S) \in Nat
  BY FS_CardinalityType
<1>2. ASSUME NEW k \in S PROVE IsFiniteSet(Ahead(S, before, k)) /\ Place(S, before, k) \in Nat
  <2>1. Ahead(S, before, k) \subseteq S
    BY DEF Ahead
  <2>2. IsFiniteSet(Ahead(S, before, k))
    BY <2>1, FS_Subset
  <2> QED
    BY <2>2, FS_CardinalityType DEF Place
<1>3. Place(S, before, m) \in 0 .. Cardinality(S) - 1
  <2>1. PICK T : T = S \ {m}
    OBVIOUS
  <2>2. IsFiniteSet(T) /\ Cardinality(T) = Cardinality(S) - 1
    BY <2>1, FS_RemoveElement
  <2>3. Ahead(S, before, m) \in SUBSET T
    BY <2>1 DEF Ahead, StrictOrder
  <2>4. Cardinality(Ahead(S, before, m)) <= Cardinality(T)
    BY <2>2, <2>3, FS_Subset
  <2> QED
    BY <1>1, <1>2, <2>2, <2>4 DEF Place
<1>4. ASSUME NEW i \in S, NEW k \in S, <<i, k>> \in before
      PROVE  Place(S, before, i) < Place(S, before, k)
  <2>1. PICK T : T = Ahead(S, before, i) \cup {i}
    OBVIOUS
  <2>2. i \notin Ahead(S, before, i)
    BY DEF Ahead, StrictOrder
  <2>3. Cardinality(T) = Place(S, before, i) + 1
    BY <1>2, <2>1, <2>2, FS_AddElement DEF Place
  <2>4. T \in SUBSET Ahead(S, before, k)
    <3>1. ASSUME NEW x \in S, <<x, i>> \in before PROVE <<x, k>> \in before
      BY <1>4, <3>1 DEF StrictOrder
    <3> QED
      BY <1>4, <2>1, <3>1 DEF Ahead
  <2>5. Cardinality(T) <= Place(S, before, k)
    BY <1>2, <2>4, FS_Subset DEF Place
  <2> QED
    BY <1>2, <2>3, <2>5
<1>5. ASSUME NEW k \in S, Place(S, before, m) = Place(S, before, k) PROVE m = k
  <2>1. SUFFICES ASSUME m # k PROVE FALSE
    OBVIOUS
  <2>2. <<m, k>> \in before \/ <<k, m>> \in before
    BY <2>1 DEF StrictOrder
  <2>3. Place(S, before, m) < Place(S, before, k) \/ Place(S, before, k) < Place(S, before, m)
    BY <1>4, <2>2
  <2> QED
    BY <1>2, <1>5, <2>3
<1> QED
  BY <1>3, <1>4, <1>5

Lists(all, S, before) ==
    /\ all \in Seq(S) /\ Len(all) = Cardinality(S)
    /\ \A m \in S : /\ Place(S, before, m) + 1 \in 1 .. Len(all)
                    /\ all[Place(S, before, m) + 1] = m

LEMMA InOrderLists ==
    ASSUME NEW S, IsFiniteSet(S), NEW before, StrictOrder(S, before)
    PROVE  Lists(InOrder(S, before), S, before)
<1>1. PICK n : n = Cardinality(S)
  OBVIOUS
<1>2. n \in Nat
  BY <1>1, FS_CardinalityType
<1>3. PICK place, T : place = [m \in S |-> Place(S, before, m)] /\ T = 0 .. n - 1
  OBVIOUS
<1>4. IsFiniteSet(T) /\ Cardinality(T) = n
  <2>1. 0 \in Int /\ n - 1 \in Int
    BY <1>2
  <2>2. IsFiniteSet(0 .. n - 1) /\ Cardinality(0 .. n - 1) = IF 0 > n - 1 THEN 0 ELSE n - 1 - 0 + 1
    BY <2>1, FS_Interval
  <2> QED
    BY <1>2, <1>3, <2>2
<1>5. place \in Injection(S, T)
  <2>1. \A m \in S : Place(S, before, m) \in T
    BY <1>1, <1>3, PlacesDiffer
  <2>2. \A m, k \in S : place[m] = place[k] => m = k
    BY <1>3, PlacesDiffer
  <2> QED
    BY <1>3, <2>1, <2>2 DEF Injection, IsInjective
<1>6. place \in Surjection(S, T)
  BY <1>1, <1>4, <1>5, FS_Injection
<1>7. ASSUME NEW i \in 1 .. n
      PROVE  \E m \in S : Place(S, before, m) = i - 1
  <2>1. i - 1 \in T
    BY <1>2, <1>3
  <2> QED
    BY <1>3, <1>6, <2>1 DEF Surjection
<1>8. PICK all : all = InOrder(S, before)
  OBVIOUS
<1>9. all = [i \in 1 .. n |-> CHOOSE m \in S : Place(S, before, m) = i - 1]
  BY <1>1, <1>8 DEF InOrder, Place, Ahead
<1>10. ASSUME NEW i \in 1 .. n PROVE all[i] \in S /\ Place(S, before, all[i]) = i - 1
  BY <1>7, <1>9
<1>11. all \in Seq(S) /\ Len(all) = n
  <2>1. all \in [1 .. n -> S]
    BY <1>9, <1>10
  <2> QED
    BY <1>2, <2>1
<1>12. ASSUME NEW m \in S
       PROVE  /\ Place(S, before, m) + 1 \in 1 .. n
              /\ all[Place(S, before, m) + 1] = m
  <2>1. PICK i : i = Place(S, before, m) + 1
    OBVIOUS
  <2>2. i \in 1 .. n /\ i - 1 = Place(S, before, m)
    BY <1>1, <1>2, <2>1, PlacesDiffer
  <2>3. all[i] \in S /\ Place(S, before, all[i]) = Place(S, before, m)
    BY <1>10, <2>2
  <2>4. all[i] = m
    BY <2>3, PlacesDiffer
  <2> QED
    BY <2>1, <2>2, <2>4
<1> QED
  BY <1>1, <1>8, <1>11, <1>12 DEF Lists

(* Who is listed for a subject, and in which order.                         *)
Listed(subject) == IF subject[1] = "top" THEN OnBoard(subject[2]) ELSE Peers(subject[2])

Before(subject) ==
    CASE subject[1] = "top"   -> Higher(subject[2])
      [] subject[1] = "peers" -> {p \in Peers(subject[2]) \X Peers(subject[2]) : p[1] < p[2]}
      [] OTHER                -> Heavier(subject[2], subject[1])

LEMMA NamesAreNumbers == NamesSeen \subseteq Nat
<1>1. ASSUME NEW batch \in ToSet(Batches), NEW r \in ToSet(batch)
      PROVE  {r.subscriberMSISDN, r.secondPartyMSISDN, Operator(r)} \subseteq Nat
  <2>1. batch \in Seq(CallRecord)
    BY ReportsAssumption DEF ToSet
  <2>2. r \in CallRecord
    BY <2>1 DEF ToSet
  <2>3. Operator(r) \in Nat
    BY <2>2, DivisorAssumption DEF CallRecord, Operator
  <2> QED
    BY <2>2, <2>3 DEF CallRecord
<1> QED
  BY <1>1 DEF NamesSeen

LEMMA ListedAreKnown ==
    ASSUME Holds(store, Cells(NamesSeen)), NEW subject \in Subjects
    PROVE  IsFiniteSet(Listed(subject)) /\ Listed(subject) \subseteq NamesSeen
<1>1. PICK S, g : /\ S = IF subject[1] = "top"
                         THEN {d \in DOMAIN store : d[1] = "top" /\ d[3] = subject[2]}
                         ELSE Hash("link", subject[2])
                  /\ g = [c \in S |-> c[4]]
  OBVIOUS
<1>2. Listed(subject) = {g[c] : c \in S}
  BY <1>1 DEF Listed, OnBoard, Peers
<1>3. S \subseteq DOMAIN store
  BY <1>1 DEF Hash
<1>4. IsFiniteSet({g[c] : c \in S})
  <2>1. IsFiniteSet(S)
    BY <1>3, FS_Subset DEF Holds
  <2> QED
    BY <2>1, ImageIsFinite
<1>5. ASSUME NEW c \in S PROVE g[c] \in NamesSeen
  <2>1. c \in Cells(NamesSeen) /\ c[1] \in {"top", "link"}
    BY <1>1, <1>3 DEF Holds, Hash
  <2>2. c[4] \in NamesSeen
    BY <2>1 DEF Cells, FoldCells, TotalCells, TopCells
  <2> QED
    BY <1>1, <2>2
<1> QED
  BY <1>2, <1>4, <1>5

First(w, t, x, y) == \/ w[x] > w[y]
                     \/ w[x] = w[y] /\ t[x] > t[y]
                     \/ w[x] = w[y] /\ t[x] = t[y] /\ x < y

LEMMA ListingsAreOrdered ==
    ASSUME Holds(store, Cells(NamesSeen)), NEW subject \in Subjects
    PROVE  /\ Listing(subject) = InOrder(Listed(subject), Before(subject))
           /\ StrictOrder(Listed(subject), Before(subject))
<1>1. Listing(subject) = InOrder(Listed(subject), Before(subject))
  BY DEF Listing, Board, ByName, ByWeight, Listed, Before
<1>2. PICK S : S = Listed(subject)
  OBVIOUS
<1>3. \A x \in S : x \in Nat
  BY <1>2, ListedAreKnown, NamesAreNumbers
<1>4. ASSUME NEW c PROVE At(store, c) \in Nat
  BY AtIsHeld
<1>5. CASE subject[1] = "top"
  <2>1. PICK w : w = [m \in S |-> store[Score(subject[2], m)]]
    OBVIOUS
  <2>2. ASSUME NEW m \in S PROVE w[m] \in Nat
    <3>1. PICK c \in DOMAIN store : c[1] = "top" /\ c[3] = subject[2] /\ c[4] = m
      BY <1>2, <1>5 DEF Listed, OnBoard
    <3>2. c = Score(subject[2], m)
      <4>1. c \in Cells(NamesSeen)
        BY DEF Holds
      <4>2. c \in TopCells(NamesSeen)
        BY <3>1, <4>1 DEF Cells, FoldCells, TotalCells
      <4> QED
        BY <3>1, <4>2 DEF TopCells, Score
    <3> QED
      BY <2>1, <3>2 DEF Holds
  <2>3. Before(subject) = Higher(subject[2]) /\ S = OnBoard(subject[2])
    BY <1>2, <1>5 DEF Before, Listed
  <2>4. ASSUME NEW x \in S, NEW y \in S
        PROVE  <<x, y>> \in Before(subject) <=> (w[x] > w[y] \/ (w[x] = w[y] /\ x > y))
    BY <2>1, <2>3 DEF Higher
  <2>5. StrictOrder(S, Before(subject))
    <3>1. ASSUME NEW x \in S PROVE <<x, x>> \notin Before(subject)
      BY <1>3, <2>2, <2>4
    <3>2. ASSUME NEW x \in S, NEW y \in S, NEW z \in S, <<x, y>> \in Before(subject), <<y, z>> \in Before(subject)
          PROVE  <<x, z>> \in Before(subject)
      <4>1. w[x] \in Nat /\ w[y] \in Nat /\ w[z] \in Nat /\ x \in Nat /\ y \in Nat /\ z \in Nat
        BY <1>3, <2>2
      <4>2. /\ (w[x] > w[y] \/ (w[x] = w[y] /\ x > y))
            /\ (w[y] > w[z] \/ (w[y] = w[z] /\ y > z))
        BY <2>4, <3>2
      <4>3. w[x] > w[z] \/ (w[x] = w[z] /\ x > z)
        BY <4>1, <4>2
      <4> QED
        BY <2>4, <4>3
    <3>3. ASSUME NEW x \in S, NEW y \in S, x # y
          PROVE  <<x, y>> \in Before(subject) \/ <<y, x>> \in Before(subject)
      <4>1. w[x] \in Nat /\ w[y] \in Nat /\ x \in Nat /\ y \in Nat
        BY <1>3, <2>2
      <4>2. w[x] > w[y] \/ w[y] > w[x] \/ (w[x] = w[y] /\ (x > y \/ y > x))
        BY <3>3, <4>1
      <4> QED
        BY <2>4, <4>2
    <3> QED
      BY <3>1, <3>2, <3>3 DEF StrictOrder
  <2> QED
    BY <1>1, <1>2, <2>5
<1>6. CASE subject[1] = "peers"
  <2>1. Before(subject) = {p \in S \X S : p[1] < p[2]}
    BY <1>2, <1>6 DEF Before, Listed
  <2>2. StrictOrder(S, Before(subject))
    BY <1>3, <2>1 DEF StrictOrder
  <2> QED
    BY <1>1, <1>2, <2>2
<1>7. CASE subject[1] \notin {"top", "peers"}
  <2>1. PICK w, t : /\ w = [m \in S |-> At(store, Link(subject[2], m, subject[1]))]
                    /\ t = [m \in S |-> At(store, Link(subject[2], m, IF subject[1] = "dur" THEN "sms" ELSE "dur"))]
    OBVIOUS
  <2>2. ASSUME NEW m \in S PROVE w[m] \in Nat /\ t[m] \in Nat /\ m \in Nat
    BY <1>3, <1>4, <2>1
  <2>3. Before(subject) = Heavier(subject[2], subject[1]) /\ S = Peers(subject[2])
    BY <1>2, <1>7 DEF Before, Listed
  <2>4. ASSUME NEW x \in S, NEW y \in S
        PROVE  <<x, y>> \in Before(subject) <=> First(w, t, x, y)
    BY <2>1, <2>3 DEF Heavier, First
  <2>5. StrictOrder(S, Before(subject))
    <3>1. ASSUME NEW x \in S PROVE <<x, x>> \notin Before(subject)
      BY <2>2, <2>4 DEF First
    <3>2. ASSUME NEW x \in S, NEW y \in S, NEW z \in S, <<x, y>> \in Before(subject), <<y, z>> \in Before(subject)
          PROVE  <<x, z>> \in Before(subject)
      <4>1. /\ w[x] \in Nat /\ w[y] \in Nat /\ w[z] \in Nat /\ x \in Nat /\ y \in Nat /\ z \in Nat
            /\ t[x] \in Nat /\ t[y] \in Nat /\ t[z] \in Nat
        BY <2>2
      <4>2. /\ First(w, t, x, y)
            /\ First(w, t, y, z)
        BY <2>4, <3>2
      <4>3. First(w, t, x, z)
        BY <4>1, <4>2 DEF First
      <4> QED
        BY <2>4, <4>3
    <3>3. ASSUME NEW x \in S, NEW y \in S, x # y
          PROVE  <<x, y>> \in Before(subject) \/ <<y, x>> \in Before(subject)
      <4>1. w[x] \in Nat /\ w[y] \in Nat /\ x \in Nat /\ y \in Nat /\ t[x] \in Nat /\ t[y] \in Nat
        BY <2>2
      <4>2. First(w, t, x, y) \/ First(w, t, y, x)
        BY <3>3, <4>1 DEF First
      <4> QED
        BY <2>4, <4>2
    <3> QED
      BY <3>1, <3>2, <3>3 DEF StrictOrder
  <2> QED
    BY <1>1, <1>2, <2>5
<1> QED
  BY <1>5, <1>6, <1>7

LEMMA ListingLists ==
    ASSUME Holds(store, Cells(NamesSeen)), NEW subject \in Subjects
    PROVE  /\ Lists(Listing(subject), Listed(subject), Before(subject))
           /\ Listing(subject) \in Seq(NamesSeen)
           /\ Len(Listing(subject)) <= Cardinality(NamesSeen)
<1>1. PICK S, before, all : S = Listed(subject) /\ before = Before(subject) /\ all = Listing(subject)
  OBVIOUS
<1>2. IsFiniteSet(S) /\ S \subseteq NamesSeen
  BY <1>1, ListedAreKnown
<1>3. all = InOrder(S, before) /\ StrictOrder(S, before)
  BY <1>1, ListingsAreOrdered
<1>4. Lists(all, S, before)
  BY <1>2, <1>3, InOrderLists
<1>5. all \in Seq(NamesSeen)
  BY <1>2, <1>4 DEF Lists
<1>6. Cardinality(S) <= Cardinality(NamesSeen)
  BY <1>2, NamesAreFinite, FS_Subset
<1> QED
  BY <1>1, <1>4, <1>5, <1>6 DEF Lists

-----------------------------------------------------------------------------
(* The cells of the store through the steps. *)

LEMMA NothingHeld ==
    ASSUME NEW X
    PROVE  Holds(<<>>, X) /\ NonZero(<<>>) = DOMAIN <<>> /\ \A C : HeldIn(<<>>, C) = 0
<1>1. DOMAIN <<>> = {} /\ <<>> \in [{} -> Nat]
  OBVIOUS
<1>2. Holds(<<>>, X)
  BY <1>1, FS_EmptySet DEF Holds
<1>3. \A C : C \cap DOMAIN <<>> = {}
  BY <1>1
<1>4. \A C : HeldIn(<<>>, C) = 0
  BY <1>3, HeldInNone
<1> QED
  BY <1>1, <1>2, <1>4 DEF NonZero

(* Only a batch on its way changes the store, the totals or the stages.     *)
LEMMA OthersLeaveStore ==
    ASSUME [Next]_vars
    PROVE  \/ UNCHANGED <<store, merged, stage>>
           \/ \E b \in DOMAIN Batches : Merge(b) \/ Land(b) \/ LandTail(b) \/ Lose(b)
BY DEF Next, vars, Open, AskPeers, AskCount, AskRange, RangeFails, NextPage, Close

Totals(b) == TotalsOfBatch[b]

LEMMA TotalsAreCells ==
    ASSUME NEW b \in DOMAIN Batches
    PROVE  Totals(b) = TotalsOf(Batches[b]) /\ Holds(Totals(b), TotalCells)
<1>1. Totals(b) = TotalsOf(Batches[b])
  BY DEF Totals, TotalsOfBatch
<1> QED
  BY <1>1, BatchesAreKnown, TotalsHold

LEMMA StoreStarts == Init => StoreInv
<1> SUFFICES ASSUME Init PROVE StoreInv
  OBVIOUS
<1>1. store = <<>> /\ merged = <<>> /\ stage = [b \in DOMAIN Batches |-> "new"]
  BY DEF Init
<1>2. Holds(store, Cells(NamesSeen)) /\ NonZero(store) = DOMAIN store /\ Holds(merged, TotalCells)
  BY <1>1, NothingHeld
<1> QED
  BY <1>1, <1>2 DEF StoreInv

LEMMA StoreSteps == StoreInv /\ [Next]_vars => StoreInv'
<1> SUFFICES ASSUME StoreInv, [Next]_vars PROVE StoreInv'
  OBVIOUS
<1>1. CASE UNCHANGED <<store, merged, stage>>
  BY <1>1 DEF StoreInv
<1>2. ASSUME NEW b \in DOMAIN Batches, NEW s \in {"new", "merged", "whole", "tail", "lost"},
             stage' = [stage EXCEPT ![b] = s]
      PROVE  stage' \in [DOMAIN Batches -> {"new", "merged", "whole", "tail", "lost"}]
  BY <1>2 DEF StoreInv
<1>3. ASSUME NEW b \in DOMAIN Batches, NEW from, Apply(b, from),
             Left(b, from) \in Seq(RealAdditions(Cells(NamesSeen))),
             NEW s \in {"whole", "tail"}, stage' = [stage EXCEPT ![b] = s]
      PROVE  StoreInv'
  <2>1. Holds(store', Cells(NamesSeen)) /\ NonZero(store') = DOMAIN store' /\ merged' = merged
    BY <1>3, ApplyAdds
  <2> QED
    BY <1>2, <1>3, <2>1 DEF StoreInv
<1>4. ASSUME NEW b \in DOMAIN Batches, Merge(b) PROVE StoreInv'
  <2>1. PICK old, new : old = merged /\ new = Totals(b)
    OBVIOUS
  <2>2. merged' = AddAll(old, new) /\ store' = store /\ stage' = [stage EXCEPT ![b] = "merged"]
    BY <1>4, <2>1 DEF Merge, Totals
  <2>3. Holds(old, TotalCells) /\ Holds(new, TotalCells)
    BY <2>1, TotalsAreCells DEF StoreInv
  <2>4. Holds(AddAll(old, new), TotalCells)
    BY <2>3, AddAllHolds
  <2>5. stage' \in [DOMAIN Batches -> {"new", "merged", "whole", "tail", "lost"}]
    BY <1>2, <2>2
  <2> QED
    BY <2>2, <2>4, <2>5 DEF StoreInv
<1>5. ASSUME NEW b \in DOMAIN Batches, Land(b) PROVE StoreInv'
  BY <1>3, <1>5, CommandsLeft DEF Land
<1>6. ASSUME NEW b \in DOMAIN Batches, LandTail(b) PROVE StoreInv'
  <2>1. PICK from \in 2 .. Len(CommandsOf[b]) : Apply(b, from)
    BY <1>6 DEF LandTail
  <2>2. Left(b, from) \in Seq(RealAdditions(Cells(NamesSeen)))
    BY CommandsLeft
  <2>3. stage' = [stage EXCEPT ![b] = "tail"]
    BY <1>6 DEF LandTail
  <2> QED
    BY <1>3, <2>1, <2>2, <2>3
<1>7. ASSUME NEW b \in DOMAIN Batches, Lose(b) PROVE StoreInv'
  BY <1>2, <1>7 DEF Lose, StoreInv
<1> QED
  BY <1>1, <1>4, <1>5, <1>6, <1>7, OthersLeaveStore

(* The store holds nothing but cells of those who occur in the batches, and *)
(* none of them is zero: a hash that exists has something to show.          *)
THEOREM StoreIsTyped == Spec => []StoreInv
BY StoreStarts, StoreSteps, PTL DEF Spec

-----------------------------------------------------------------------------
(* The reader. *)

Weighed == UNION {[S -> Seq(Nat)] : S \in SUBSET NamesSeen}

Walks == [phase : {"ask", "counted", "shown"}, subject : Subjects, offset : Nat, count : Nat,
          shown : Seq(NamesSeen), at_start : Weighed, stirred : BOOLEAN, split : BOOLEAN]

(* Neither the size of a listing nor an offset exceeds the number of those  *)
(* who occur.                                                               *)
ReaderInv ==
    \/ reader = Idle
    \/ /\ reader \in Walks
       /\ reader.phase = "counted" => reader.subject[1] = "top"
       /\ reader.offset <= Cardinality(NamesSeen)
       /\ reader.count <= Cardinality(NamesSeen)

PageLimit == Smaller(PageSize, Cap)

LEMMA RequestIsRead ==
    ASSUME reader.offset \in Nat, reader.offset <= Cardinality(NamesSeen)
    PROVE  /\ Request.offset = reader.offset /\ Request.limit = PageLimit
           /\ reader.offset \in Word /\ PageLimit \in 1 .. Cap
           /\ TopServed(Request.offset, Request.limit)
<1>1. PICK k, p, offset : /\ k = Cardinality(NamesSeen) /\ p = PageSize /\ offset = reader.offset
  OBVIOUS
<1>2. k \in Nat /\ p \in Nat \ {0} /\ 2 * (k + p) <= Width /\ Width \in Nat /\ p < Width
  <2>1. k \in Nat
    BY <1>1, NamesAreFinite, FS_CardinalityType
  <2>2. p \in Word \ {0}
    BY <1>1, ReportsAssumption
  <2> QED
    BY <1>1, <2>1, <2>2, NamesAssumption, WidthAssumption DEF Word
<1>3. offset \in Nat /\ offset <= k /\ offset < Width
  BY <1>1, <1>2
<1>4. Text(reader.offset) = Text(offset) /\ IsCount(Text(offset)) /\ IsCount(Text(p))
  BY <1>1, <1>2, <1>3 DEF Text, IsCount, Word
<1>5. Request.offset = offset /\ Request.limit = PageLimit
  BY <1>1, <1>4 DEF Request, ParseParams, Text, PageLimit
<1>6. PICK limit : limit = PageLimit
  OBVIOUS
<1>7. limit \in 1 .. Cap /\ limit <= p
  BY <1>1, <1>2, <1>6, LimitAssumption DEF PageLimit, Smaller
<1>8. Signed(offset)
  BY <1>2, <1>3 DEF Signed
<1>9. Stop(offset, limit) = offset + limit - 1
  BY <1>2, <1>3, <1>7, <1>8, StopIsExact DEF Word
<1>10. Signed(Stop(offset, limit))
  <2>1. limit \in Nat
    BY <1>7, LimitAssumption
  <2>2. 2 * (offset + limit - 1) < Width
    BY <1>2, <1>3, <1>7, <2>1
  <2> QED
    BY <1>9, <2>2 DEF Signed
<1> QED
  BY <1>1, <1>2, <1>3, <1>5, <1>6, <1>7, <1>8, <1>10 DEF TopServed, Word

(* A board or not, the next page is what page() cuts.                       *)
LEMMA AskedPage ==
    ASSUME NEW S, NEW all \in Seq(S), reader.offset \in Nat, reader.offset <= Cardinality(NamesSeen)
    PROVE  /\ Page(all, Request.offset, Request.limit) = Page(all, reader.offset, PageLimit)
           /\ TopPage(all, Request.offset, Request.limit) = Page(all, reader.offset, PageLimit)
<1>1. PICK offset, limit : offset = Request.offset /\ limit = Request.limit
  OBVIOUS
<1>2. /\ offset = reader.offset /\ limit = PageLimit
      /\ offset \in Word /\ limit \in 0 .. Cap /\ TopServed(offset, limit)
  BY <1>1, RequestIsRead
<1>3. TopPage(all, offset, limit) = Page(all, offset, limit)
  BY <1>2, RedisCutsLikePage
<1> QED
  BY <1>1, <1>2, <1>3

LEMMA PagesArePart ==
    ASSUME NEW S, NEW all \in Seq(S), NEW offset \in Nat, NEW limit \in Nat
    PROVE  Page(all, offset, limit) \in Seq(S)
<1>1. CASE offset >= Len(all)
  BY <1>1 DEF Page
<1>2. CASE offset < Len(all)
  <2>1. PICK e : e = offset + IF limit = 0 THEN Len(all) - offset ELSE Smaller(limit, Len(all) - offset)
    OBVIOUS
  <2>2. e \in Nat /\ e <= Len(all)
    BY <1>2, <2>1 DEF Smaller
  <2>3. Page(all, offset, limit) = SubSeq(all, offset + 1, e)
    BY <1>2, <2>1 DEF Page
  <2>4. SubSeq(all, offset + 1, e) \in Seq(S)
    BY <1>2, <2>2
  <2> QED
    BY <2>3, <2>4
<1> QED
  BY <1>1, <1>2

LEMMA NextIsBounded ==
    ASSUME NEW offset \in Nat, NEW count \in Nat, offset < LastOffset(count, PageSize)
    PROVE  /\ NextOffset(offset, count, PageSize) \in Nat
           /\ NextOffset(offset, count, PageSize) < count
           /\ NextOffset(offset, count, PageSize) <= offset + PageSize
<1>1. PICK p : p = PageSize
  OBVIOUS
<1>2. p \in Nat \ {0}
  BY <1>1, ReportsAssumption, WidthAssumption DEF Word
<1>3. count # 0
  BY DEF LastOffset
<1>4. PICK q \in Nat : LastOffset(count, p) = q * p /\ q * p < count
  BY <1>2, <1>3, LastStartsOnPage
<1>5. PICK last : last = LastOffset(count, p)
  OBVIOUS
<1>6. last \in Nat /\ last < count
  BY <1>2, <1>4, <1>5
<1> QED
  BY <1>1, <1>2, <1>5, <1>6 DEF NextOffset, Smaller

(* A landing changes nothing of a walk but that it is noted.                *)
LEMMA StirredIsNoted ==
    ASSUME reader \in Walks, reader' = Stirred
    PROVE  /\ reader' \in Walks
           /\ reader'.phase = reader.phase /\ reader'.subject = reader.subject
           /\ reader'.offset = reader.offset /\ reader'.count = reader.count
           /\ reader'.shown = reader.shown /\ reader'.at_start = reader.at_start
           /\ reader'.stirred = TRUE /\ reader'.split = (reader.split \/ reader.phase = "counted")
<1>1. reader.phase # "idle"
  BY DEF Walks
<1>2. reader' = [reader EXCEPT !.stirred = TRUE, !.split = @ \/ reader.phase = "counted"]
  BY <1>1 DEF Stirred
<1> QED
  BY <1>2 DEF Walks

LEMMA IdleStays ==
    ASSUME reader = Idle, reader' = Stirred
    PROVE  reader' = Idle
BY DEF Idle, Stirred

(* Every step of the ingestion leaves the walk alone or stirs it.           *)
LEMMA BatchesStir ==
    ASSUME NEW b \in DOMAIN Batches, Merge(b) \/ Land(b) \/ LandTail(b) \/ Lose(b)
    PROVE  \/ reader' = reader /\ store' = store
           \/ /\ reader' = Stirred
              /\ \E from : Apply(b, from) /\ Left(b, from) \in Seq(RealAdditions(Cells(NamesSeen)))
<1>1. CASE Merge(b)
  BY <1>1 DEF Merge
<1>2. CASE Lose(b)
  BY <1>2 DEF Lose
<1>3. CASE Land(b)
  <2>1. Apply(b, 1)
    BY <1>3 DEF Land
  <2> QED
    BY <2>1, CommandsLeft DEF Apply
<1>4. CASE LandTail(b)
  <2>1. PICK from \in 2 .. Len(CommandsOf[b]) : Apply(b, from)
    BY <1>4 DEF LandTail
  <2>2. Left(b, from) \in Seq(RealAdditions(Cells(NamesSeen)))
    BY CommandsLeft
  <2> QED
    BY <2>1, <2>2 DEF Apply
<1> QED
  BY <1>1, <1>2, <1>3, <1>4

LEMMA ListingShows ==
    ASSUME Holds(store, Cells(NamesSeen)), NEW subject \in Subjects
    PROVE  ToSet(Listing(subject)) = Listed(subject)
<1>1. PICK S, before, all : S = Listed(subject) /\ before = Before(subject) /\ all = Listing(subject)
  OBVIOUS
<1>2. Lists(all, S, before)
  BY <1>1, ListingLists
<1>3. ToSet(all) \subseteq S
  BY <1>2 DEF Lists, ToSet
<1>4. ASSUME NEW m \in S PROVE m \in ToSet(all)
  <2>1. PICK i : i = Place(S, before, m) + 1
    OBVIOUS
  <2>2. i \in DOMAIN all /\ all[i] = m
    BY <1>2, <2>1 DEF Lists
  <2> QED
    BY <2>2 DEF ToSet
<1> QED
  BY <1>1, <1>3, <1>4

LEMMA ScoresAreKept ==
    ASSUME Holds(store, Cells(NamesSeen)), NEW board, NEW m \in OnBoard(board)
    PROVE  Score(board, m) \in DOMAIN store /\ store[Score(board, m)] \in Nat
<1>1. PICK c \in DOMAIN store : c[1] = "top" /\ c[3] = board /\ c[4] = m
  BY DEF OnBoard
<1>2. c \in Cells(NamesSeen)
  BY DEF Holds
<1>3. c \in TopCells(NamesSeen)
  BY <1>1, <1>2 DEF Cells, FoldCells, TotalCells
<1>4. c = Score(board, m)
  BY <1>1, <1>3 DEF TopCells, Score
<1> QED
  BY <1>4 DEF Holds

LEMMA WeightsAreNumbers ==
    ASSUME Holds(store, Cells(NamesSeen)), NEW subject \in Subjects, NEW m \in Listed(subject)
    PROVE  ListedWith(subject, m) \in Seq(Nat)
<1>1. CASE subject[1] = "top"
  <2>1. store[Score(subject[2], m)] \in Nat
    BY <1>1, ScoresAreKept DEF Listed
  <2> QED
    BY <1>1, <2>1 DEF ListedWith
<1>2. CASE subject[1] = "peers"
  BY <1>2 DEF ListedWith
<1>3. CASE subject[1] \notin {"top", "peers"}
  <2>1. PICK a, b : /\ a = At(store, Link(subject[2], m, "dur"))
                    /\ b = At(store, Link(subject[2], m, "sms"))
    OBVIOUS
  <2>2. a \in Nat /\ b \in Nat
    BY <2>1, AtIsHeld
  <2>3. ListedWith(subject, m) = <<a, b>>
    BY <1>3, <2>1 DEF ListedWith
  <2> QED
    BY <2>2, <2>3
<1> QED
  BY <1>1, <1>2, <1>3

LEMMA OpenStarts ==
    ASSUME StoreInv, NEW subject \in Subjects, Open(subject)
    PROVE  reader' \in Walks /\ ReaderInv'
<1>1. PICK w : w = [m \in ToSet(Listing(subject)) |-> ListedWith(subject, m)]
  OBVIOUS
<1>2. Holds(store, Cells(NamesSeen))
  BY DEF StoreInv
<1>3. w \in Weighed
  <2>1. ToSet(Listing(subject)) = Listed(subject) /\ Listed(subject) \in SUBSET NamesSeen
    BY <1>2, ListingShows, ListedAreKnown
  <2>2. \A m \in Listed(subject) : ListedWith(subject, m) \in Seq(Nat)
    BY <1>2, WeightsAreNumbers
  <2>3. w \in [Listed(subject) -> Seq(Nat)]
    BY <1>1, <2>1, <2>2
  <2> QED
    BY <2>1, <2>3 DEF Weighed
<1>4. reader' = [phase |-> "ask", subject |-> subject, offset |-> 0, count |-> 0, shown |-> <<>>,
                 at_start |-> w, stirred |-> FALSE, split |-> FALSE]
  BY <1>1 DEF Open
<1>5. reader' \in Walks
  BY <1>3, <1>4 DEF Walks
<1>6. reader'.phase = "ask" /\ reader'.offset = 0 /\ reader'.count = 0
  BY <1>4
<1>7. Cardinality(NamesSeen) \in Nat
  BY NamesAreFinite, FS_CardinalityType
<1>8. NamesSeen' = NamesSeen /\ Cardinality(NamesSeen)' = Cardinality(NamesSeen)
  OBVIOUS
<1> QED
  BY <1>5, <1>6, <1>7, <1>8 DEF ReaderInv

(* What a page is asked of, and what it shows.                              *)
LEMMA PeersAreShown ==
    ASSUME StoreInv, ReaderInv, AskPeers
    PROVE  /\ reader \in Walks /\ reader.phase = "ask" /\ reader.subject[1] # "top"
           /\ reader' = [reader EXCEPT !.phase = "shown", !.count = Len(Listing(reader.subject)),
                                       !.shown = @ \o Page(Listing(reader.subject), reader.offset, PageLimit)]
           /\ UNCHANGED store
<1>1. reader \in Walks /\ reader.offset <= Cardinality(NamesSeen)
  BY DEF AskPeers, ReaderInv, Idle
<1>2. PICK all : all = Listing(reader.subject)
  OBVIOUS
<1>3. reader.offset \in Nat /\ reader.subject \in Subjects
  BY <1>1 DEF Walks
<1>4. all \in Seq(NamesSeen)
  BY <1>2, <1>3, ListingLists DEF StoreInv
<1>5. Page(all, Request.offset, Request.limit) = Page(all, reader.offset, PageLimit)
  BY <1>1, <1>3, <1>4, AskedPage
<1> QED
  BY <1>1, <1>2, <1>5 DEF AskPeers, Show

LEMMA RangeIsShown ==
    ASSUME StoreInv, ReaderInv, AskRange
    PROVE  /\ reader \in Walks /\ reader.phase = "counted"
           /\ reader' = [reader EXCEPT !.phase = "shown", !.count = reader.count,
                                       !.shown = @ \o Page(Listing(reader.subject), reader.offset, PageLimit)]
           /\ UNCHANGED store
<1>1. reader \in Walks /\ reader.offset <= Cardinality(NamesSeen)
  BY DEF AskRange, ReaderInv, Idle
<1>2. PICK all : all = Listing(reader.subject)
  OBVIOUS
<1>3. reader.offset \in Nat /\ reader.subject \in Subjects
  BY <1>1 DEF Walks
<1>4. all \in Seq(NamesSeen)
  BY <1>2, <1>3, ListingLists DEF StoreInv
<1>5. TopPage(all, Request.offset, Request.limit) = Page(all, reader.offset, PageLimit)
  BY <1>1, <1>3, <1>4, AskedPage
<1> QED
  BY <1>1, <1>2, <1>5 DEF AskRange, Show

LEMMA ReaderSteps == StoreInv /\ ReaderInv /\ [Next]_vars => ReaderInv'
<1> SUFFICES ASSUME StoreInv, ReaderInv, [Next]_vars PROVE ReaderInv'
  OBVIOUS
<1>1. PICK k : k = Cardinality(NamesSeen)
  OBVIOUS
<1>2. k \in Nat
  BY <1>1, NamesAreFinite, FS_CardinalityType
<1>3. ASSUME reader' \in Walks, reader'.phase = "counted" => reader'.subject[1] = "top",
             reader'.offset <= k, reader'.count <= k
      PROVE  ReaderInv'
  BY <1>1, <1>3 DEF ReaderInv
<1>4. reader # Idle => /\ reader \in Walks /\ (reader.phase = "counted" => reader.subject[1] = "top")
                       /\ reader.offset <= k /\ reader.count <= k
  BY <1>1 DEF ReaderInv
<1>5. CASE reader' = reader
  BY <1>5 DEF ReaderInv
<1>6. ASSUME NEW b \in DOMAIN Batches, Merge(b) \/ Land(b) \/ LandTail(b) \/ Lose(b) PROVE ReaderInv'
  <2>1. CASE reader' = Stirred
    <3>1. CASE reader = Idle
      BY <2>1, <3>1, IdleStays DEF ReaderInv
    <3>2. CASE reader # Idle
      BY <1>3, <1>4, <2>1, <3>2, StirredIsNoted
    <3> QED
      BY <3>1, <3>2
  <2> QED
    BY <1>5, <1>6, <2>1, BatchesStir
<1>7. ASSUME NEW subject \in Subjects, Open(subject) PROVE ReaderInv'
  BY <1>7, OpenStarts
<1>8. ASSUME NEW all, all = Listing(reader.subject), reader \in Walks
      PROVE  /\ Len(all) \in Nat /\ Len(all) <= k
             /\ Page(all, reader.offset, PageLimit) \in Seq(NamesSeen)
  <2>1. reader.subject \in Subjects /\ reader.offset \in Nat
    BY <1>8 DEF Walks
  <2>2. all \in Seq(NamesSeen) /\ Len(all) <= k
    BY <1>1, <1>8, <2>1, ListingLists DEF StoreInv
  <2>3. PageLimit \in Nat
    <3>1. PageSize \in Nat /\ Cap \in Nat
      BY ReportsAssumption, LimitAssumption, WidthAssumption DEF Word
    <3> QED
      BY <3>1 DEF PageLimit, Smaller
  <2>4. Page(all, reader.offset, PageLimit) \in Seq(NamesSeen)
    <3>1. PICK offset, limit : offset = reader.offset /\ limit = PageLimit
      OBVIOUS
    <3>2. offset \in Nat /\ limit \in Nat
      BY <2>1, <2>3, <3>1
    <3>3. Page(all, offset, limit) \in Seq(NamesSeen)
      BY <2>2, <3>2, PagesArePart
    <3> QED
      BY <3>1, <3>3
  <2>5. Len(all) \in Nat
    BY <2>2
  <2> QED
    BY <2>2, <2>4, <2>5
<1>9. CASE AskPeers
  <2>1. PICK all : all = Listing(reader.subject)
    OBVIOUS
  <2>2. /\ reader \in Walks
        /\ reader' = [reader EXCEPT !.phase = "shown", !.count = Len(all),
                                    !.shown = @ \o Page(all, reader.offset, PageLimit)]
    BY <1>9, <2>1, PeersAreShown
  <2>3. /\ Len(all) \in Nat /\ Len(all) <= k
        /\ reader.shown \o Page(all, reader.offset, PageLimit) \in Seq(NamesSeen)
    BY <1>8, <2>1, <2>2 DEF Walks
  <2>4. reader.offset <= k
    BY <1>4, <2>2 DEF Idle, Walks
  <2>5. reader' \in Walks
    BY <2>2, <2>3 DEF Walks
  <2>6. reader'.phase = "shown" /\ reader'.offset <= k /\ reader'.count <= k
    BY <2>2, <2>3, <2>4 DEF Walks
  <2> QED
    BY <1>3, <2>5, <2>6
<1>10. CASE AskCount
  <2>1. PICK all : all = Listing(reader.subject)
    OBVIOUS
  <2>2. reader \in Walks
    BY <1>4, <1>10 DEF AskCount, Idle
  <2>3. reader.offset <= k
    BY <1>4, <2>2 DEF Idle, Walks
  <2>4. reader' = [reader EXCEPT !.phase = "counted", !.count = Len(all)] /\ reader.subject[1] = "top"
    BY <1>10, <2>1 DEF AskCount
  <2>5. Len(all) \in Nat /\ Len(all) <= k
    BY <1>8, <2>1, <2>2
  <2>6. reader' \in Walks
    BY <2>2, <2>4, <2>5 DEF Walks
  <2>7. reader'.offset <= k /\ reader'.count <= k /\ reader'.subject[1] = "top"
    BY <2>2, <2>3, <2>4, <2>5 DEF Walks
  <2> QED
    BY <1>3, <2>6, <2>7
<1>11. CASE AskRange
  <2>1. PICK all : all = Listing(reader.subject)
    OBVIOUS
  <2>2. /\ reader \in Walks
        /\ reader' = [reader EXCEPT !.phase = "shown", !.count = reader.count,
                                    !.shown = @ \o Page(all, reader.offset, PageLimit)]
    BY <1>11, <2>1, RangeIsShown
  <2>3. reader.shown \o Page(all, reader.offset, PageLimit) \in Seq(NamesSeen)
    BY <1>8, <2>1, <2>2 DEF Walks
  <2>4. reader.offset <= k /\ reader.count <= k
    BY <1>4, <2>2 DEF Idle, Walks
  <2>5. reader' \in Walks
    BY <2>2, <2>3 DEF Walks
  <2>6. reader'.phase = "shown" /\ reader'.offset <= k /\ reader'.count <= k
    BY <2>2, <2>4 DEF Walks
  <2> QED
    BY <1>3, <2>5, <2>6
<1>12. CASE RangeFails
  <2>1. reader \in Walks /\ reader' = [reader EXCEPT !.phase = "ask"]
    BY <1>4, <1>12 DEF RangeFails, Idle
  <2>2. reader.offset <= k /\ reader.count <= k
    BY <1>4, <2>1 DEF Idle, Walks
  <2>3. reader' \in Walks /\ reader'.phase = "ask" /\ reader'.offset <= k /\ reader'.count <= k
    BY <2>1, <2>2 DEF Walks
  <2> QED
    BY <1>3, <2>3
<1>13. CASE NextPage
  <2>1. reader \in Walks /\ reader.phase = "shown"
    BY <1>4, <1>13 DEF NextPage, Idle
  <2>2. reader.count <= k /\ reader.offset \in Nat /\ reader.count \in Nat
    BY <1>4, <2>1 DEF Idle, Walks
  <2>3. PICK next : next = NextOffset(reader.offset, reader.count, PageSize)
    OBVIOUS
  <2>4. reader' = [reader EXCEPT !.phase = "ask", !.offset = next]
    BY <1>13, <2>3 DEF NextPage
  <2>5. reader.offset < LastOffset(reader.count, PageSize)
    <3>1. LastOffset(reader.count, PageSize) \in Int
      <4>1. PageSize \in Nat \ {0}
        BY ReportsAssumption, WidthAssumption DEF Word
      <4>2. CASE reader.count = 0
        BY <4>2 DEF LastOffset
      <4>3. CASE reader.count # 0
        BY <2>2, <4>1, <4>3, LastStartsOnPage
      <4> QED
        BY <4>2, <4>3
    <3>2. ~(reader.offset >= LastOffset(reader.count, PageSize))
      BY <1>13, <2>1 DEF NextPage, AtEnd
    <3> QED
      BY <2>2, <3>1, <3>2
  <2>6. next \in Nat /\ next < reader.count
    BY <2>2, <2>3, <2>5, NextIsBounded
  <2>7. reader' \in Walks
    BY <2>1, <2>4, <2>6 DEF Walks
  <2>8. reader'.phase = "ask" /\ reader'.offset = next /\ reader'.count = reader.count
    BY <2>1, <2>4 DEF Walks
  <2>9. next <= k
    BY <1>2, <2>2, <2>6
  <2> QED
    BY <1>3, <2>2, <2>7, <2>8, <2>9
<1>14. CASE Close
  BY <1>14 DEF Close, ReaderInv
<1> QED
  BY <1>5, <1>6, <1>7, <1>9, <1>10, <1>11, <1>12, <1>13, <1>14 DEF Next, vars

LEMMA ReaderStarts == Init => ReaderInv
BY DEF Init, ReaderInv

(* The Pager takes no walk further than there are names to list, and only   *)
(* a board is read in two commands (redis_query.cpp:135).                   *)
THEOREM ReaderIsTyped == Spec => []ReaderInv
BY ReaderStarts, ReaderSteps, StoreIsTyped, PTL DEF Spec

(* Redis cuts a board as page() would, whatever offset and limit a request  *)
(* names, unless it refuses the ranks.                                      *)
THEOREM RedisPages == Spec => []RedisPageIsPage
<1>1. StoreInv /\ ReaderInv => RedisPageIsPage
  <2> SUFFICES ASSUME StoreInv, ReaderInv, reader.phase = "counted",
                      NEW offset \in Numbers, NEW limit \in Numbers,
                      ParseParams(offset, limit).status = 200,
                      TopServed(ParseParams(offset, limit).offset, ParseParams(offset, limit).limit)
               PROVE  TopPage(Board(reader.subject[2]), ParseParams(offset, limit).offset,
                              ParseParams(offset, limit).limit)
                          = Page(Board(reader.subject[2]), ParseParams(offset, limit).offset,
                                 ParseParams(offset, limit).limit)
    BY DEF RedisPageIsPage
  <2>1. reader \in Walks /\ reader.subject[1] = "top"
    BY DEF ReaderInv, Idle
  <2>2. PICK all : all = Board(reader.subject[2])
    OBVIOUS
  <2>3. all \in Seq(NamesSeen)
    <3>1. reader.subject \in Subjects
      BY <2>1 DEF Walks
    <3>2. Listing(reader.subject) = all
      BY <2>1, <2>2 DEF Listing
    <3> QED
      BY <3>1, <3>2, ListingLists DEF StoreInv
  <2>4. /\ offset.count \in BOOLEAN /\ limit.count \in BOOLEAN
        /\ offset.named \in BOOLEAN /\ limit.named \in BOOLEAN
    <3>1. ASSUME NEW x \in Numbers PROVE x.count \in BOOLEAN /\ x.named \in BOOLEAN
      <4>1. CASE x = Garbage
        BY <4>1 DEF Garbage
      <4>2. CASE x = Absent
        BY <4>2 DEF Absent
      <4>3. ASSUME NEW n, x = Text(n) PROVE x.count \in BOOLEAN /\ x.named \in BOOLEAN
        BY <4>3 DEF Text
      <4> QED
        BY <4>1, <4>2, <4>3 DEF Numbers
    <3> QED
      BY <3>1
  <2>5. PICK o, l : o = ParseParams(offset, limit).offset /\ l = ParseParams(offset, limit).limit
    OBVIOUS
  <2>6. o \in Word /\ l \in 0 .. Cap /\ TopServed(o, l)
    BY <2>4, <2>5, ParsedIsBounded
  <2>7. TopPage(all, o, l) = Page(all, o, l)
    BY <2>3, <2>6, RedisCutsLikePage
  <2> QED
    BY <2>2, <2>5, <2>7
<1> QED
  BY <1>1, StoreIsTyped, ReaderIsTyped, PTL

-----------------------------------------------------------------------------
(* The log of the run covers the store. *)

LEMMA CommandTotals ==
    ASSUME NEW b \in DOMAIN Batches, NEW f
    PROVE  /\ AddedTo(Commands(Batches[b]), {Total(f)}) = At(Totals(b), Total(f))
           /\ At(Totals(b), Total(f)) \in Nat
<1>1. PICK batch, X, C : batch = Batches[b] /\ X = Cells(NamesSeen) /\ C = {Total(f)}
  OBVIOUS
<1>2. KnownBatch(batch, NamesSeen)
  BY <1>1, BatchesAreKnown
<1>3. PICK t, u, s : Parts(batch, NamesSeen, t, u, s)
  BY <1>2, CommandsAreParts
<1>4. /\ Commands(batch) = (t \o u) \o s
      /\ t \in Seq(RealAdditions(X)) /\ u \in Seq(RealAdditions(X)) /\ s \in Seq(RealAdditions(X))
  BY <1>1, <1>3 DEF Parts
<1>5. /\ AddedTo(t, C) = HeldIn(TotalsOf(batch), C)
      /\ AddedTo(u, C) = HeldIn(Boards(Fold(batch)), C)
      /\ AddedTo(s, C) = HeldIn(Fold(batch), C)
  BY <1>3, Zenon DEF Parts
<1>6. Holds(Fold(batch), FoldCells(NamesSeen)) /\ Holds(Boards(Fold(batch)), TopCells(NamesSeen))
  <2>1. Holds(Fold(batch), FoldCells(NamesSeen))
    BY <1>2, FoldHolds
  <2> QED
    BY <2>1, BoardsHold
<1>7. HeldIn(Boards(Fold(batch)), C) = 0 /\ HeldIn(Fold(batch), C) = 0
  <2>1. C \cap DOMAIN Boards(Fold(batch)) = {} /\ C \cap DOMAIN Fold(batch) = {}
    BY <1>1, <1>6 DEF Holds, FoldCells, TopCells, Total
  <2> QED
    BY <2>1, HeldInNone
<1>8. Holds(Totals(b), TotalCells) /\ Totals(b) = TotalsOf(batch)
  BY <1>1, TotalsAreCells
<1>9. At(Totals(b), Total(f)) \in Nat /\ At(Totals(b), Total(f)) = HeldIn(Totals(b), C)
  BY <1>1, <1>8, AtIsHeld
<1>10. AddedTo((t \o u) \o s, C) = AddedTo(t, C) + AddedTo(u, C) + AddedTo(s, C)
  <2>1. t \in Seq(Additions(X)) /\ u \in Seq(Additions(X)) /\ s \in Seq(Additions(X))
    BY <1>4, RealAreAdditions
  <2>2. PICK v : v = t \o u
    OBVIOUS
  <2>3. v \in Seq(Additions(X)) /\ AddedTo(v, C) = AddedTo(t, C) + AddedTo(u, C)
    BY <2>1, <2>2, BothAdded
  <2>4. AddedTo(v \o s, C) = AddedTo(v, C) + AddedTo(s, C)
    BY <2>1, <2>3, BothAdded
  <2> QED
    BY <2>2, <2>3, <2>4, Zenon
<1>11. PICK n, k, l, h : n = AddedTo(t, C) /\ k = AddedTo(u, C) /\ l = AddedTo(s, C) /\ h = n + k + l
  OBVIOUS
<1>12. n \in Nat /\ k = 0 /\ l = 0
  BY <1>5, <1>7, <1>8, <1>9, <1>11
<1>13. h = n
  BY <1>11, <1>12
<1> QED
  BY <1>1, <1>4, <1>5, <1>8, <1>9, <1>10, <1>11, <1>13

(* What the batches on their way will add to a total.                       *)
Pending(f) == SumOf([b \in DOMAIN Batches |-> At(Totals(b), Total(f))], InStage("merged"))

(* The totals of the run are those of the store, of the batches on their    *)
(* way and of what was lost.                                                *)
LogInv(f) ==
    /\ At(store, Total(f)) + Pending(f) <= At(merged, Total(f))
    /\ InStage("lost") \cup InStage("tail") = {} =>
           At(store, Total(f)) + Pending(f) = At(merged, Total(f))

LEMMA StagesAreFinite ==
    ASSUME NEW f, NEW T \in SUBSET DOMAIN Batches
    PROVE  Naturals([b \in DOMAIN Batches |-> At(Totals(b), Total(f))], T)
<1>1. PICK n \in Nat : DOMAIN Batches = 1 .. n
  BY ReportsAssumption
<1>2. IsFiniteSet(DOMAIN Batches)
  <2>1. 1 \in Int /\ n \in Int
    OBVIOUS
  <2> QED
    BY <1>1, <2>1, FS_Interval
<1>3. IsFiniteSet(T)
  BY <1>2, FS_Subset
<1>4. \A b \in T : At(Totals(b), Total(f)) \in Nat
  BY CommandTotals
<1> QED
  BY <1>3, <1>4 DEF Naturals

LEMMA LogStarts == ASSUME NEW f PROVE Init => LogInv(f)
<1> SUFFICES ASSUME Init PROVE LogInv(f)
  OBVIOUS
<1>1. store = <<>> /\ merged = <<>> /\ InStage("merged") = {}
  BY DEF Init, InStage
<1>2. At(<<>>, Total(f)) = 0
  BY DEF At
<1>3. Pending(f) = 0
  BY <1>1, SumOfNone DEF Pending
<1> QED
  BY <1>1, <1>2, <1>3 DEF LogInv

LEMMA AddedAt ==
    ASSUME NEW X, NEW old, NEW new, Holds(old, X), Holds(new, X), NEW c
    PROVE  At(AddAll(old, new), c) = At(old, c) + At(new, c)
<1>1. PICK all : all = AddAll(old, new)
  OBVIOUS
<1>2. /\ Holds(all, X)
      /\ \A C : HeldIn(all, C) = HeldIn(old, C) + HeldIn(new, C)
      /\ \A d : At(all, d) = At(old, d) + At(new, d)
  BY <1>1, AddAllHolds
<1> QED
  BY <1>1, <1>2

LEMMA LogSteps == ASSUME NEW f PROVE StoreInv /\ LogInv(f) /\ [Next]_vars => LogInv(f)'
<1> SUFFICES ASSUME StoreInv, LogInv(f), [Next]_vars PROVE LogInv(f)'
  OBVIOUS
<1>1. PICK c, w, S : /\ c = Total(f) /\ w = [b \in DOMAIN Batches |-> At(Totals(b), Total(f))]
                     /\ S = InStage("merged")
  OBVIOUS
<1>2. PICK s, m, p : s = At(store, c) /\ m = At(merged, c) /\ p = SumOf(w, S)
  OBVIOUS
<1>3. s \in Nat /\ m \in Nat /\ p \in Nat
  <2>1. s \in Nat /\ m \in Nat
    BY <1>2, AtIsHeld DEF StoreInv
  <2>2. Naturals(w, S)
    BY <1>1, StagesAreFinite DEF InStage
  <2> QED
    BY <1>2, <2>1, <2>2, HeapIsFinite
<1>4. s + p <= m /\ (InStage("lost") \cup InStage("tail") = {} => s + p = m)
  BY <1>1, <1>2 DEF LogInv, Pending
<1>5. CASE UNCHANGED <<store, merged, stage>>
  BY <1>5 DEF LogInv, Pending, InStage
<1>6. stage \in [DOMAIN Batches -> {"new", "merged", "whole", "tail", "lost"}]
  BY DEF StoreInv
<1>7. ASSUME At(store', c) + SumOf(w, InStage("merged")') <= At(merged', c),
             InStage("lost")' \cup InStage("tail")' = {} =>
                 At(store', c) + SumOf(w, InStage("merged")') = At(merged', c)
      PROVE  LogInv(f)'
  <2>1. Pending(f)' = SumOf(w, InStage("merged")')
    BY <1>1 DEF Pending, Totals, TotalsOfBatch
  <2>2. Total(f)' = c
    BY <1>1 DEF Total
  <2>3. At(store, Total(f))' = At(store', c) /\ At(merged, Total(f))' = At(merged', c)
    BY <2>2 DEF At
  <2> QED
    BY <1>7, <2>1, <2>3 DEF LogInv
<1>8. ASSUME NEW b \in DOMAIN Batches PROVE w[b] \in Nat /\ w[b] = At(Totals(b), c)
  BY <1>1, CommandTotals
<1>9. ASSUME NEW b \in DOMAIN Batches, b \in S PROVE p = SumOf(w, S \ {b}) + w[b] /\ SumOf(w, S \ {b}) \in Nat
  <2>1. PICK T : T = S \ {b}
    OBVIOUS
  <2>2. Naturals(w, T)
    BY <1>1, <2>1, StagesAreFinite DEF InStage
  <2>3. b \notin T /\ T \cup {b} = S
    BY <1>9, <2>1
  <2>4. SumOf(w, T \cup {b}) = SumOf(w, T) + w[b]
    BY <1>8, <2>2, <2>3, SumOfMore
  <2>5. SumOf(w, T) \in Nat
    BY <2>2, HeapIsFinite
  <2> QED
    BY <1>2, <2>1, <2>3, <2>4, <2>5
<1>10. ASSUME NEW b \in DOMAIN Batches, Merge(b) PROVE LogInv(f)'
  <2>1. stage[b] = "new" /\ stage' = [stage EXCEPT ![b] = "merged"] /\ store' = store
    BY <1>10 DEF Merge
  <2>2. InStage("merged")' = S \cup {b} /\ b \notin S
    BY <1>1, <1>6, <2>1 DEF InStage
  <2>3. InStage("lost")' = InStage("lost") /\ InStage("tail")' = InStage("tail")
    BY <1>6, <2>1 DEF InStage
  <2>4. SumOf(w, S \cup {b}) = p + w[b]
    <3>1. Naturals(w, S)
      BY <1>1, StagesAreFinite DEF InStage
    <3> QED
      BY <1>2, <1>8, <2>2, <3>1, SumOfMore
  <2>5. At(merged', c) = m + w[b]
    <3>1. PICK X, old, new : X = TotalCells /\ old = merged /\ new = Totals(b)
      OBVIOUS
    <3>2. merged' = AddAll(old, new)
      BY <1>10, <3>1 DEF Merge, Totals
    <3>3. Holds(old, X) /\ Holds(new, X)
      BY <3>1, TotalsAreCells DEF StoreInv
    <3>4. At(AddAll(old, new), c) = At(old, c) + At(new, c)
      BY <3>3, AddedAt
    <3> QED
      BY <1>2, <1>8, <3>1, <3>2, <3>4
  <2>6. At(store', c) = s
    BY <1>2, <2>1
  <2>7. s + (p + w[b]) <= m + w[b] /\ (s + p = m => s + (p + w[b]) = m + w[b])
    BY <1>3, <1>4, <1>8
  <2> QED
    BY <1>4, <1>7, <2>2, <2>3, <2>4, <2>5, <2>6, <2>7
<1>11. ASSUME NEW b \in DOMAIN Batches, Land(b) PROVE LogInv(f)'
  <2>1. stage[b] = "merged" /\ stage' = [stage EXCEPT ![b] = "whole"] /\ Apply(b, 1)
    BY <1>11 DEF Land
  <2>2. InStage("merged")' = S \ {b} /\ b \in S
    BY <1>1, <1>6, <2>1 DEF InStage
  <2>3. InStage("lost")' = InStage("lost") /\ InStage("tail")' = InStage("tail")
    BY <1>6, <2>1 DEF InStage
  <2>4. Left(b, 1) = Commands(Batches[b]) /\ Left(b, 1) \in Seq(RealAdditions(Cells(NamesSeen)))
    BY CommandsLeft
  <2>5. At(store', c) = s + AddedTo(Left(b, 1), {c}) /\ merged' = merged
    BY <1>2, <2>1, <2>4, ApplyAdds
  <2>6. AddedTo(Left(b, 1), {c}) = w[b]
    BY <1>1, <1>8, <2>4, CommandTotals
  <2>7. PICK q : q = SumOf(w, S \ {b})
    OBVIOUS
  <2>8. p = q + w[b] /\ q \in Nat
    BY <1>9, <2>2, <2>7
  <2>9. (s + w[b]) + q <= m /\ (s + p = m => (s + w[b]) + q = m)
    BY <1>3, <1>4, <1>8, <2>8
  <2> QED
    BY <1>2, <1>4, <1>7, <2>2, <2>3, <2>5, <2>6, <2>7, <2>9
<1>12. ASSUME NEW b \in DOMAIN Batches, LandTail(b) PROVE LogInv(f)'
  <2>1. stage[b] = "merged" /\ stage' = [stage EXCEPT ![b] = "tail"]
    BY <1>12 DEF LandTail
  <2>2. PICK from \in 2 .. Len(CommandsOf[b]) : Apply(b, from)
    BY <1>12 DEF LandTail
  <2>3. InStage("merged")' = S \ {b} /\ b \in S /\ InStage("tail")' # {}
    BY <1>1, <1>6, <2>1 DEF InStage
  <2>4. PICK all, k : all = Commands(Batches[b]) /\ k = AddedTo(Left(b, from), {c})
    OBVIOUS
  <2>5. /\ Left(b, 1) = all /\ all \in Seq(RealAdditions(Cells(NamesSeen)))
        /\ Left(b, from) = Behind(all, from) /\ from \in 1 .. Len(all)
        /\ Left(b, from) \in Seq(RealAdditions(Cells(NamesSeen)))
    BY <2>4, CommandsLeft
  <2>6. At(store', c) = s + k /\ merged' = merged
    BY <1>2, <2>2, <2>4, <2>5, ApplyAdds
  <2>7. k \in Nat /\ k <= w[b]
    <3>1. Left(b, from) \in Seq(Additions(Cells(NamesSeen)))
      BY <2>5, RealAreAdditions
    <3>2. k \in Nat
      BY <2>4, <3>1, CountsAreNaturals
    <3>3. AddedTo(Behind(all, from), {c}) <= AddedTo(all, {c})
      BY <2>5, BehindIsLess
    <3>4. AddedTo(all, {c}) = w[b]
      BY <1>1, <1>8, <2>4, CommandTotals
    <3> QED
      BY <2>4, <2>5, <3>2, <3>3, <3>4, Zenon
  <2>8. PICK q : q = SumOf(w, S \ {b})
    OBVIOUS
  <2>9. p = q + w[b] /\ q \in Nat
    BY <1>9, <2>3, <2>8
  <2>10. (s + k) + q <= m
    BY <1>3, <1>4, <1>8, <2>7, <2>9
  <2> QED
    BY <1>2, <1>7, <2>3, <2>6, <2>8, <2>10
<1>13. ASSUME NEW b \in DOMAIN Batches, Lose(b) PROVE LogInv(f)'
  <2>1. stage[b] = "merged" /\ stage' = [stage EXCEPT ![b] = "lost"] /\ store' = store /\ merged' = merged
    BY <1>13 DEF Lose
  <2>2. InStage("merged")' = S \ {b} /\ b \in S /\ InStage("lost")' # {}
    BY <1>1, <1>6, <2>1 DEF InStage
  <2>3. PICK q : q = SumOf(w, S \ {b})
    OBVIOUS
  <2>4. p = q + w[b] /\ q \in Nat
    BY <1>9, <2>2, <2>3
  <2>5. s + q <= m
    BY <1>3, <1>4, <1>8, <2>4
  <2> QED
    BY <1>2, <1>7, <2>1, <2>2, <2>3, <2>5
<1> QED
  BY <1>5, <1>10, <1>11, <1>12, <1>13, OthersLeaveStore

(* What the process logs when it stops covers what it stored, and is that   *)
(* when nothing is on its way and nothing was lost or torn.                 *)
THEOREM LogCovers == Spec => []LogCoversStore
<1> DEFINE Inv == \A f \in TotalFields : LogInv(f)
<1>1. Init => Inv
  BY LogStarts
<1>2. StoreInv /\ Inv /\ [Next]_vars => Inv'
  <2> SUFFICES ASSUME StoreInv, Inv, [Next]_vars, NEW f \in TotalFields PROVE LogInv(f)'
    OBVIOUS
  <2>1. LogInv(f)
    OBVIOUS
  <2> QED
    BY <2>1, LogSteps
<1>3. StoreInv /\ Inv => LogCoversStore
  <2> SUFFICES ASSUME StoreInv, Inv, NEW f \in TotalFields
               PROVE  /\ At(store, Total(f)) <= At(merged, Total(f))
                      /\ InStage("merged") \cup InStage("lost") \cup InStage("tail") = {} =>
                             At(store, Total(f)) = At(merged, Total(f))
    BY DEF LogCoversStore, TotalsAnswer
  <2>1. LogInv(f)
    OBVIOUS
  <2>2. At(store, Total(f)) \in Nat /\ At(merged, Total(f)) \in Nat
    BY AtIsHeld DEF StoreInv
  <2>3. Pending(f) \in Nat
    <3>1. Naturals([b \in DOMAIN Batches |-> At(Totals(b), Total(f))], InStage("merged"))
      BY StagesAreFinite DEF InStage
    <3> QED
      BY <3>1, HeapIsFinite DEF Pending
  <2>4. InStage("merged") = {} => Pending(f) = 0
    BY SumOfNone DEF Pending
  <2> HIDE DEF Inv
  <2> QED
    BY <2>1, <2>2, <2>3, <2>4 DEF LogInv
<1> HIDE DEF Inv
<1> QED
  BY <1>1, <1>2, <1>3, StoreIsTyped, PTL DEF Spec

-----------------------------------------------------------------------------
(* The boards and the reports of their members. *)

(* What the cells of the store grow by in a step.                           *)
Grown(adds) == \A C : HeldIn(store', C) = HeldIn(store, C) + AddedTo(adds, C)

LEMMA StoreGrows ==
    ASSUME StoreInv, [Next]_vars
    PROVE  \/ store' = store /\ (NoTails' => NoTails)
           \/ \E b \in DOMAIN Batches : Grown(Commands(Batches[b])) /\ (NoTails' => NoTails)
           \/ \E b \in DOMAIN Batches : \E from \in 1 .. Len(Commands(Batches[b])) :
                  Grown(Behind(Commands(Batches[b]), from)) /\ ~NoTails'
<1>1. CASE UNCHANGED <<store, merged, stage>>
  BY <1>1 DEF NoTails, InStage
<1>2. stage \in [DOMAIN Batches -> {"new", "merged", "whole", "tail", "lost"}]
  BY DEF StoreInv
<1>3. ASSUME NEW b \in DOMAIN Batches, NEW s \in {"merged", "whole", "lost"},
             stage' = [stage EXCEPT ![b] = s], stage[b] # "tail"
      PROVE  NoTails' => NoTails
  BY <1>2, <1>3 DEF NoTails, InStage
<1>4. ASSUME NEW b, NEW from, Apply(b, from), Left(b, from) \in Seq(RealAdditions(Cells(NamesSeen)))
      PROVE  Grown(Left(b, from))
  <2>1. \A C : HeldIn(store', C) = HeldIn(store, C) + AddedTo(Left(b, from), C)
    <3>1. /\ Holds(store', Cells(NamesSeen)) /\ NonZero(store') = DOMAIN store'
          /\ merged' = merged
          /\ \A C : HeldIn(store', C) = HeldIn(store, C) + AddedTo(Left(b, from), C)
      BY <1>4, ApplyAdds
    <3> QED
      BY <3>1
  <2> QED
    BY <2>1 DEF Grown
<1>5. ASSUME NEW b \in DOMAIN Batches, Merge(b) PROVE store' = store /\ (NoTails' => NoTails)
  BY <1>3, <1>5 DEF Merge
<1>6. ASSUME NEW b \in DOMAIN Batches, Lose(b) PROVE store' = store /\ (NoTails' => NoTails)
  BY <1>3, <1>6 DEF Lose
<1>7. ASSUME NEW b \in DOMAIN Batches, Land(b)
      PROVE  Grown(Commands(Batches[b])) /\ (NoTails' => NoTails)
  <2>1. Left(b, 1) = Commands(Batches[b]) /\ Left(b, 1) \in Seq(RealAdditions(Cells(NamesSeen)))
    BY CommandsLeft
  <2>2. Apply(b, 1) /\ stage' = [stage EXCEPT ![b] = "whole"] /\ stage[b] = "merged"
    BY <1>7 DEF Land
  <2>3. Grown(Left(b, 1))
    BY <1>4, <2>1, <2>2
  <2>4. NoTails' => NoTails
    BY <1>3, <2>2
  <2> QED
    BY <2>1, <2>3, <2>4
<1>8. ASSUME NEW b \in DOMAIN Batches, LandTail(b)
      PROVE  \E from \in 1 .. Len(Commands(Batches[b])) :
                 Grown(Behind(Commands(Batches[b]), from)) /\ ~NoTails'
  <2>1. PICK from \in 2 .. Len(CommandsOf[b]) : Apply(b, from)
    BY <1>8 DEF LandTail
  <2>2. /\ Left(b, from) = Behind(Commands(Batches[b]), from) /\ from \in 1 .. Len(Commands(Batches[b]))
        /\ Left(b, from) \in Seq(RealAdditions(Cells(NamesSeen)))
    BY CommandsLeft
  <2>3. Grown(Left(b, from))
    BY <1>4, <2>1, <2>2
  <2>4. ~NoTails'
    BY <1>2, <1>8 DEF LandTail, NoTails, InStage
  <2> QED
    BY <2>2, <2>3, <2>4
<1> QED
  BY <1>1, <1>5, <1>6, <1>7, <1>8, OthersLeaveStore

LEMMA CommandsSum ==
    ASSUME NEW batch, KnownBatch(batch, NamesSeen), NEW C
    PROVE  /\ AddedTo(Commands(batch), C) =
                  HeldIn(TotalsOf(batch), C) + HeldIn(Boards(Fold(batch)), C) + HeldIn(Fold(batch), C)
           /\ HeldIn(TotalsOf(batch), C) \in Nat
           /\ HeldIn(Boards(Fold(batch)), C) \in Nat
           /\ HeldIn(Fold(batch), C) \in Nat
<1>1. PICK X : X = Cells(NamesSeen)
  OBVIOUS
<1>2. PICK t, u, s : Parts(batch, NamesSeen, t, u, s)
  BY CommandsAreParts
<1>3. /\ Commands(batch) = (t \o u) \o s
      /\ t \in Seq(RealAdditions(X)) /\ u \in Seq(RealAdditions(X)) /\ s \in Seq(RealAdditions(X))
  BY <1>1, <1>2 DEF Parts
<1>4. /\ AddedTo(t, C) = HeldIn(TotalsOf(batch), C)
      /\ AddedTo(u, C) = HeldIn(Boards(Fold(batch)), C)
      /\ AddedTo(s, C) = HeldIn(Fold(batch), C)
  BY <1>2, Zenon DEF Parts
<1>5. t \in Seq(Additions(X)) /\ u \in Seq(Additions(X)) /\ s \in Seq(Additions(X))
  BY <1>3, RealAreAdditions
<1>6. AddedTo((t \o u) \o s, C) = AddedTo(t, C) + AddedTo(u, C) + AddedTo(s, C)
  <2>1. PICK v : v = t \o u
    OBVIOUS
  <2>2. v \in Seq(Additions(X)) /\ AddedTo(v, C) = AddedTo(t, C) + AddedTo(u, C)
    BY <1>5, <2>1, BothAdded
  <2>3. AddedTo(v \o s, C) = AddedTo(v, C) + AddedTo(s, C)
    BY <1>5, <2>2, BothAdded
  <2> QED
    BY <2>1, <2>2, <2>3, Zenon
<1>7. AddedTo(t, C) \in Nat /\ AddedTo(u, C) \in Nat /\ AddedTo(s, C) \in Nat
  BY <1>5, CountsAreNaturals
<1> QED
  BY <1>3, <1>4, <1>6, <1>7, Zenon

(* A whole batch raises a score by what its member's fields grow by.        *)
LEMMA CommandsKeepBoards ==
    ASSUME NEW batch, KnownBatch(batch, NamesSeen), NEW board \in BoardNames, NEW m
    PROVE  AddedTo(Commands(batch), {Score(board, m)}) = AddedTo(Commands(batch), Ranked(board, m))
<1>1. PICK C, D : C = {Score(board, m)} /\ D = Ranked(board, m)
  OBVIOUS
<1>2. /\ Holds(Fold(batch), FoldCells(NamesSeen)) /\ Holds(TotalsOf(batch), TotalCells)
      /\ Holds(Boards(Fold(batch)), TopCells(NamesSeen))
  <2>1. Holds(Fold(batch), FoldCells(NamesSeen)) /\ Holds(TotalsOf(batch), TotalCells)
    BY FoldHolds, TotalsHold
  <2> QED
    BY <2>1, BoardsHold
<1>3. HeldIn(Boards(Fold(batch)), C) = HeldIn(Fold(batch), D)
  BY <1>1, <1>2, BoardsHold
<1>4. HeldIn(TotalsOf(batch), C) = 0 /\ HeldIn(Fold(batch), C) = 0
  <2>1. C \cap DOMAIN TotalsOf(batch) = {} /\ C \cap DOMAIN Fold(batch) = {}
    BY <1>1, <1>2 DEF Holds, TotalCells, FoldCells, Score
  <2> QED
    BY <2>1, HeldInNone
<1>5. HeldIn(TotalsOf(batch), D) = 0 /\ HeldIn(Boards(Fold(batch)), D) = 0
  <2>1. ASSUME NEW c \in D PROVE c[1] \in {"sub", "op"}
    BY <1>1, <2>1 DEF Ranked, Field, Kind
  <2>2. D \cap DOMAIN TotalsOf(batch) = {}
    BY <1>2, <2>1 DEF Holds, TotalCells
  <2>3. D \cap DOMAIN Boards(Fold(batch)) = {}
    BY <1>2, <2>1 DEF Holds, TopCells
  <2> QED
    BY <2>2, <2>3, HeldInNone
<1>6. AddedTo(Commands(batch), C) =
          HeldIn(TotalsOf(batch), C) + HeldIn(Boards(Fold(batch)), C) + HeldIn(Fold(batch), C)
  BY CommandsSum
<1>7. /\ AddedTo(Commands(batch), D) =
             HeldIn(TotalsOf(batch), D) + HeldIn(Boards(Fold(batch)), D) + HeldIn(Fold(batch), D)
      /\ HeldIn(Fold(batch), D) \in Nat
  BY CommandsSum
<1>8. PICK n : n = HeldIn(Fold(batch), D)
  OBVIOUS
<1>9. n \in Nat /\ AddedTo(Commands(batch), C) = 0 + n + 0 /\ AddedTo(Commands(batch), D) = 0 + 0 + n
  BY <1>3, <1>4, <1>5, <1>6, <1>7, <1>8, Zenon
<1>10. 0 + n + 0 = n /\ 0 + 0 + n = n
  BY <1>9
<1> QED
  BY <1>1, <1>9, <1>10

BoardInv(board, m) ==
    /\ HeldIn(store, {Score(board, m)}) <= HeldIn(store, Ranked(board, m))
    /\ NoTails => HeldIn(store, {Score(board, m)}) = HeldIn(store, Ranked(board, m))

LEMMA BoardStarts == ASSUME NEW board, NEW m PROVE Init => BoardInv(board, m)
<1> SUFFICES ASSUME Init PROVE BoardInv(board, m)
  OBVIOUS
<1>1. store = <<>>
  BY DEF Init
<1>2. \A C : HeldIn(<<>>, C) = 0
  BY NothingHeld
<1> QED
  BY <1>1, <1>2 DEF BoardInv

LEMMA BoardSteps ==
    ASSUME NEW board \in BoardNames, NEW m
    PROVE  StoreInv /\ BoardInv(board, m) /\ [Next]_vars => BoardInv(board, m)'
<1> SUFFICES ASSUME StoreInv, BoardInv(board, m), [Next]_vars PROVE BoardInv(board, m)'
  OBVIOUS
<1>1. PICK C, D : C = {Score(board, m)} /\ D = Ranked(board, m)
  OBVIOUS
<1>2. PICK s, r : s = HeldIn(store, C) /\ r = HeldIn(store, D)
  OBVIOUS
<1>3. s \in Nat /\ r \in Nat
  BY <1>2, HeldIsNatural DEF StoreInv
<1>4. s <= r /\ (NoTails => s = r)
  BY <1>1, <1>2 DEF BoardInv
<1>5. ASSUME HeldIn(store', C) <= HeldIn(store', D), NoTails' => HeldIn(store', C) = HeldIn(store', D)
      PROVE  BoardInv(board, m)'
  <2>1. /\ HeldIn(store, {Score(board, m)})' = HeldIn(store', C)
        /\ HeldIn(store, Ranked(board, m))' = HeldIn(store', D)
    BY <1>1 DEF HeldIn, SumOf, Heap
  <2> QED
    BY <1>5, <2>1 DEF BoardInv
<1>6. CASE store' = store /\ (NoTails' => NoTails)
  BY <1>2, <1>4, <1>5, <1>6
<1>7. ASSUME NEW b \in DOMAIN Batches, Grown(Commands(Batches[b])), NoTails' => NoTails
      PROVE  BoardInv(board, m)'
  <2>1. KnownBatch(Batches[b], NamesSeen)
    BY BatchesAreKnown
  <2>2. PICK n : n = AddedTo(Commands(Batches[b]), C)
    OBVIOUS
  <2>3. AddedTo(Commands(Batches[b]), D) = n
    BY <1>1, <2>1, <2>2, CommandsKeepBoards
  <2>4. n \in Nat
    <3>1. Left(b, 1) = Commands(Batches[b]) /\ Left(b, 1) \in Seq(RealAdditions(Cells(NamesSeen)))
      BY CommandsLeft
    <3>2. Commands(Batches[b]) \in Seq(Additions(Cells(NamesSeen)))
      BY <3>1, RealAreAdditions
    <3> QED
      BY <2>2, <3>2, CountsAreNaturals
  <2>5. HeldIn(store', C) = s + n /\ HeldIn(store', D) = r + n
    BY <1>2, <1>7, <2>2, <2>3 DEF Grown
  <2>6. s + n <= r + n /\ (s = r => s + n = r + n)
    BY <1>3, <1>4, <2>4
  <2> QED
    BY <1>4, <1>5, <1>7, <2>5, <2>6
<1>8. ASSUME NEW b \in DOMAIN Batches, NEW from \in 1 .. Len(Commands(Batches[b])),
             Grown(Behind(Commands(Batches[b]), from)), ~NoTails'
      PROVE  BoardInv(board, m)'
  <2>1. KnownBatch(Batches[b], NamesSeen)
    BY BatchesAreKnown
  <2>2. PICK rest : rest = Behind(Commands(Batches[b]), from)
    OBVIOUS
  <2>3. PICK n, k : n = AddedTo(rest, C) /\ k = AddedTo(rest, D)
    OBVIOUS
  <2>4. n <= k
    BY <1>1, <2>1, <2>2, <2>3, BehindKeepsBoards
  <2>5. n \in Nat /\ k \in Nat
    <3>1. Left(b, 1) = Commands(Batches[b]) /\ Left(b, 1) \in Seq(RealAdditions(Cells(NamesSeen)))
      BY CommandsLeft
    <3>2. PICK all : all = Commands(Batches[b])
      OBVIOUS
    <3>3. all \in Seq(RealAdditions(Cells(NamesSeen))) /\ from \in 1 .. Len(all) /\ rest = Behind(all, from)
      BY <2>2, <3>1, <3>2
    <3>4. rest \in Seq(RealAdditions(Cells(NamesSeen)))
      BY <3>3, BehindIsLess
    <3>5. rest \in Seq(Additions(Cells(NamesSeen)))
      BY <3>4, RealAreAdditions
    <3> QED
      BY <2>3, <3>5, CountsAreNaturals
  <2>6. HeldIn(store', C) = s + n /\ HeldIn(store', D) = r + k
    BY <1>2, <1>8, <2>2, <2>3 DEF Grown
  <2>7. s + n <= r + k
    BY <1>3, <1>4, <2>4, <2>5
  <2> QED
    BY <1>5, <1>8, <2>6, <2>7
<1> QED
  BY <1>6, <1>7, <1>8, StoreGrows

(* The numbers of a page, added up, are what is held in the cells they are  *)
(* read from.                                                               *)
Shows(shown, board, m, fs, n) ==
    /\ {fs[i] : i \in 1 .. n} = RanksBy(board) /\ Apart(fs, 1 .. n)
    /\ DOMAIN shown = 1 .. n
    /\ \A i \in 1 .. n : shown[i] = At(store, Field(board, m, fs[i]))

LEMMA ShownAddsUp ==
    ASSUME StoreInv, NEW board \in BoardNames, NEW m, NEW n \in Nat, NEW fs, NEW shown,
           Shows(shown, board, m, fs, n)
    PROVE  SumOver(shown, DOMAIN shown) = HeldIn(store, Ranked(board, m))
<1>1. Holds(store, Cells(NamesSeen)) /\ IsFiniteSet(1 .. n)
  <2>1. IsFiniteSet(1 .. n)
    BY FS_Interval
  <2> QED
    BY <2>1 DEF StoreInv
<1>2. PICK g : g = [i \in 1 .. n |-> Field(board, m, fs[i])]
  OBVIOUS
<1>3. Apart(g, 1 .. n) /\ \A i \in 1 .. n : shown[i] = At(store, g[i])
  BY <1>2 DEF Apart, Field, Shows
<1>4. Naturals(shown, 1 .. n) /\ SumOf(shown, 1 .. n) = HeldIn(store, {g[i] : i \in 1 .. n})
  BY <1>1, <1>3, HeldByName
<1>5. {g[i] : i \in 1 .. n} = Ranked(board, m)
  <2>1. \A c : c \in {g[i] : i \in 1 .. n} <=> \E i \in 1 .. n : c = Field(board, m, fs[i])
    BY <1>2
  <2>2. \A c : c \in Ranked(board, m) <=> \E f \in {fs[i] : i \in 1 .. n} : c = Field(board, m, f)
    BY DEF Ranked, Shows
  <2> QED
    BY <2>1, <2>2
<1>6. SumOver(shown, 1 .. n) = SumOf(shown, 1 .. n)
  BY <1>4, FoldIsSum
<1> QED
  BY <1>4, <1>5, <1>6 DEF Shows

LEMMA ScoreSumsTo ==
    ASSUME StoreInv, NEW board \in BoardNames, NEW m, BoardInv(board, m),
           NEW shown, SumOver(shown, DOMAIN shown) = HeldIn(store, Ranked(board, m))
    PROVE  SumsTo(At(store, Score(board, m)), shown)
<1>1. Holds(store, Cells(NamesSeen))
  BY DEF StoreInv
<1>2. At(store, Score(board, m)) = HeldIn(store, {Score(board, m)})
  BY <1>1, AtIsHeld
<1> QED
  BY <1>2 DEF SumsTo, BoardInv

LEMMA TwoSumTo ==
    ASSUME StoreInv, NEW board \in BoardNames, NEW m, BoardInv(board, m),
           NEW f, NEW g, f # g, RanksBy(board) = {f, g}
    PROVE  SumsTo(At(store, Score(board, m)), <<At(store, Field(board, m, f)), At(store, Field(board, m, g))>>)
<1>1. PICK fs : fs = <<f, g>>
  OBVIOUS
<1>2. PICK shown : shown = <<At(store, Field(board, m, f)), At(store, Field(board, m, g))>>
  OBVIOUS
<1>3. 1 .. 2 = {1, 2} /\ 2 \in Nat
  OBVIOUS
<1>4. {fs[i] : i \in 1 .. 2} = RanksBy(board) /\ Apart(fs, 1 .. 2)
  BY <1>1, <1>3 DEF Apart
<1>5. DOMAIN shown = 1 .. 2 /\ \A i \in 1 .. 2 : shown[i] = At(store, Field(board, m, fs[i]))
  BY <1>1, <1>2, <1>3
<1>6. SumOver(shown, DOMAIN shown) = HeldIn(store, Ranked(board, m))
  <2>1. PICK n \in Nat : n = 2
    OBVIOUS
  <2>2. Shows(shown, board, m, fs, n)
    BY <1>4, <1>5, <2>1 DEF Shows
  <2> QED
    BY <2>2, ShownAddsUp
<1> QED
  BY <1>2, <1>6, ScoreSumsTo

LEMMA ThreeSumTo ==
    ASSUME StoreInv, NEW board \in BoardNames, NEW m, BoardInv(board, m),
           NEW f, NEW g, NEW h, f # g, f # h, g # h, RanksBy(board) = {f, g, h}
    PROVE  SumsTo(At(store, Score(board, m)),
                  <<At(store, Field(board, m, f)), At(store, Field(board, m, g)), At(store, Field(board, m, h))>>)
<1>1. PICK fs : fs = <<f, g, h>>
  OBVIOUS
<1>2. PICK shown : shown = <<At(store, Field(board, m, f)), At(store, Field(board, m, g)),
                             At(store, Field(board, m, h))>>
  OBVIOUS
<1>3. 1 .. 3 = {1, 2, 3} /\ 3 \in Nat
  OBVIOUS
<1>4. {fs[i] : i \in 1 .. 3} = RanksBy(board) /\ Apart(fs, 1 .. 3)
  BY <1>1, <1>3 DEF Apart
<1>5. DOMAIN shown = 1 .. 3 /\ \A i \in 1 .. 3 : shown[i] = At(store, Field(board, m, fs[i]))
  BY <1>1, <1>2, <1>3
<1>6. SumOver(shown, DOMAIN shown) = HeldIn(store, Ranked(board, m))
  <2>1. PICK n \in Nat : n = 3
    OBVIOUS
  <2>2. Shows(shown, board, m, fs, n)
    BY <1>4, <1>5, <2>1 DEF Shows
  <2> QED
    BY <2>2, ShownAddsUp
<1> QED
  BY <1>2, <1>6, ScoreSumsTo

LEMMA BoardsOfPages ==
    ASSUME StoreInv, \A board \in BoardNames : \A m : BoardInv(board, m)
    PROVE  BoardsMatch
<1>1. ASSUME NEW m
      PROVE  /\ SumsTo(At(store, Score("voice", m)), Msisdn(m).voice)
             /\ SumsTo(At(store, Score("sms", m)), Msisdn(m).sms)
             /\ SumsTo(At(store, Score("data", m)), Msisdn(m).data)
             /\ SumsTo(At(store, Score("fail", m)), Msisdn(m).fail)
  <2>1. /\ Msisdn(m).voice = <<At(store, Sub(m, "voice_out")), At(store, Sub(m, "voice_in"))>>
        /\ Msisdn(m).sms = <<At(store, Sub(m, "sms_out")), At(store, Sub(m, "sms_in"))>>
        /\ Msisdn(m).data = <<At(store, Sub(m, "data_tx")), At(store, Sub(m, "data_rx"))>>
        /\ Msisdn(m).fail = <<At(store, Sub(m, "noans")), At(store, Sub(m, "busy")), At(store, Sub(m, "failed"))>>
    BY Zenon DEF Msisdn
  <2>2. \A f : /\ Field("voice", m, f) = Sub(m, f) /\ Field("sms", m, f) = Sub(m, f)
               /\ Field("data", m, f) = Sub(m, f) /\ Field("fail", m, f) = Sub(m, f)
    BY DEF Field, Kind, Sub, SubBoards
  <2>3. /\ RanksBy("voice") = {"voice_out", "voice_in"} /\ RanksBy("sms") = {"sms_out", "sms_in"}
        /\ RanksBy("data") = {"data_tx", "data_rx"} /\ RanksBy("fail") = {"noans", "busy", "failed"}
    BY DEF RanksBy
  <2>4. {"voice", "sms", "data", "fail"} \subseteq BoardNames
    BY DEF BoardNames, SubBoards
  <2>5. BoardInv("voice", m) /\ BoardInv("sms", m) /\ BoardInv("data", m) /\ BoardInv("fail", m)
    BY <2>4
  <2>6. /\ SumsTo(At(store, Score("voice", m)),
                  <<At(store, Field("voice", m, "voice_out")), At(store, Field("voice", m, "voice_in"))>>)
        /\ SumsTo(At(store, Score("sms", m)),
                  <<At(store, Field("sms", m, "sms_out")), At(store, Field("sms", m, "sms_in"))>>)
        /\ SumsTo(At(store, Score("data", m)),
                  <<At(store, Field("data", m, "data_tx")), At(store, Field("data", m, "data_rx"))>>)
    BY <2>3, <2>4, <2>5, TwoSumTo
  <2>7. SumsTo(At(store, Score("fail", m)),
               <<At(store, Field("fail", m, "noans")), At(store, Field("fail", m, "busy")),
                 At(store, Field("fail", m, "failed"))>>)
    BY <2>3, <2>4, <2>5, ThreeSumTo
  <2> QED
    BY <2>1, <2>2, <2>6, <2>7, Zenon
<1>2. ASSUME NEW m
      PROVE  /\ SumsTo(At(store, Score("op-voice", m)), OpAnswer(m).voice)
             /\ SumsTo(At(store, Score("op-sms", m)), OpAnswer(m).sms)
  <2>1. /\ OpAnswer(m).voice = <<At(store, Op(m, "voice_out")), At(store, Op(m, "voice_in"))>>
        /\ OpAnswer(m).sms = <<At(store, Op(m, "sms_out")), At(store, Op(m, "sms_in"))>>
    BY Zenon DEF OpAnswer
  <2>2. \A f : Field("op-voice", m, f) = Op(m, f) /\ Field("op-sms", m, f) = Op(m, f)
    BY DEF Field, Kind, Op, SubBoards
  <2>3. RanksBy("op-voice") = {"voice_out", "voice_in"} /\ RanksBy("op-sms") = {"sms_out", "sms_in"}
    BY DEF RanksBy
  <2>4. {"op-voice", "op-sms"} \subseteq BoardNames
    BY DEF BoardNames, OpBoards
  <2>5. BoardInv("op-voice", m) /\ BoardInv("op-sms", m)
    BY <2>4
  <2>6. /\ SumsTo(At(store, Score("op-voice", m)),
                  <<At(store, Field("op-voice", m, "voice_out")), At(store, Field("op-voice", m, "voice_in"))>>)
        /\ SumsTo(At(store, Score("op-sms", m)),
                  <<At(store, Field("op-sms", m, "sms_out")), At(store, Field("op-sms", m, "sms_in"))>>)
    BY <2>3, <2>4, <2>5, TwoSumTo
  <2> QED
    BY <2>1, <2>2, <2>6, Zenon
<1> QED
  BY <1>1, <1>2, Zenon DEF BoardsMatch

(* A score never exceeds what the page of its member adds up to, and unless *)
(* a batch lost its first commands it is that (rank_writer.cpp,             *)
(* aggregate_writer.cpp).                                                   *)
THEOREM BoardsAgree == Spec => []BoardsMatch
<1> DEFINE Inv == \A board \in BoardNames : \A m : BoardInv(board, m)
<1>1. Init => Inv
  BY BoardStarts
<1>2. StoreInv /\ Inv /\ [Next]_vars => Inv'
  BY BoardSteps
<1>3. StoreInv /\ Inv => BoardsMatch
  BY BoardsOfPages
<1> HIDE DEF Inv
<1> QED
  BY <1>1, <1>2, <1>3, StoreIsTyped, PTL DEF Spec

-----------------------------------------------------------------------------
(* The reports cover each other. *)

(* What sums of cells keep of each other, in a store or in a batch: held    *)
(* gives for a set of cells what they hold together.                        *)
Balanced(held) ==
    /\ \A a, b \in NamesSeen : \A f \in Weights : held[{Link(a, b, f)}] = held[{Link(b, a, f)}]
    /\ \A p \in Covered : /\ held[Of(NamesSeen, "op", p[1])] <= held[Of(NamesSeen, "sub", p[1])]
                          /\ held[Of(NamesSeen, "sub", p[1])] <= held[{Total(p[2])}]
    /\ held[CountCells] = held[{Total("records")}]
    /\ held[Of(NamesSeen, "link", "cnt")] <= 2 * (held[{Total("moc_cnt")}] + held[{Total("mtc_cnt")}])
    /\ held[Of(NamesSeen, "link", "sms")] <= 2 * (held[{Total("sms_mo_cnt")}] + held[{Total("sms_mt_cnt")}])
    /\ held[Of(NamesSeen, "link", "dur")]
           <= 2 * (held[Of(NamesSeen, "sub", "voice_out")] + held[Of(NamesSeen, "sub", "voice_in")])

Groups == SUBSET Cells(NamesSeen)
Held(cells) == [C \in Groups |-> HeldIn(cells, C)]
Brought(adds) == [C \in Groups |-> AddedTo(adds, C)]

LEMMA GroupsAreCells ==
    /\ \A kind, f : Of(NamesSeen, kind, f) \in Groups
    /\ \A a, b \in NamesSeen : \A f \in Weights : {Link(a, b, f)} \in Groups
    /\ \A p \in Covered : {Total(p[2])} \in Groups
    /\ CountCells \in Groups /\ {Total("records")} \in Groups
    /\ {Total("moc_cnt")} \in Groups /\ {Total("mtc_cnt")} \in Groups
    /\ {Total("sms_mo_cnt")} \in Groups /\ {Total("sms_mt_cnt")} \in Groups
<1>1. ASSUME NEW kind, NEW f PROVE Of(NamesSeen, kind, f) \in Groups
  BY DEF Of, Groups
<1>2. ASSUME NEW a \in NamesSeen, NEW b \in NamesSeen, NEW f \in Weights
      PROVE  {Link(a, b, f)} \in Groups
  BY <1>2 DEF Groups, Cells, FoldCells, Link, Weights
<1>3. ASSUME NEW f \in {"records", "moc_cnt", "mtc_cnt", "sms_mo_cnt", "sms_mt_cnt", "data_cnt", "noans_cnt",
                        "busy_cnt", "failed_cnt", "moc_dur", "mtc_dur", "data_dur", "data_rx", "data_tx"}
      PROVE  Total(f) \in Cells(NamesSeen)
  BY <1>3 DEF Cells, TotalCells, Total
<1>4. ASSUME NEW p \in Covered PROVE {Total(p[2])} \in Groups
  <2>1. p[2] \in {"moc_dur", "mtc_dur", "sms_mo_cnt", "sms_mt_cnt", "data_rx", "data_tx", "noans_cnt",
                  "busy_cnt", "failed_cnt"}
    BY <1>4 DEF Covered
  <2> QED
    BY <1>3, <2>1 DEF Groups
<1>5. CountCells \in Groups
  BY <1>3 DEF CountCells, Counts, Groups
<1>6. /\ {Total("records")} \in Groups
      /\ {Total("moc_cnt")} \in Groups /\ {Total("mtc_cnt")} \in Groups
      /\ {Total("sms_mo_cnt")} \in Groups /\ {Total("sms_mt_cnt")} \in Groups
  BY <1>3 DEF Groups
<1> QED
  BY <1>1, <1>2, <1>4, <1>5, <1>6, Zenon

LEMMA BothBalanced ==
    ASSUME NEW held \in [Groups -> Nat], NEW more \in [Groups -> Nat], NEW sum,
           Balanced(held), Balanced(more), \A C \in Groups : sum[C] = held[C] + more[C]
    PROVE  Balanced(sum)
<1>1. ASSUME NEW C \in Groups, NEW D \in Groups, held[C] <= held[D], more[C] <= more[D]
      PROVE  sum[C] <= sum[D]
  BY <1>1
<1>2. ASSUME NEW C \in Groups, NEW D \in Groups, held[C] = held[D], more[C] = more[D]
      PROVE  sum[C] = sum[D]
  BY <1>2
<1>3. ASSUME NEW C \in Groups, NEW D \in Groups, NEW E \in Groups,
             held[C] <= 2 * (held[D] + held[E]), more[C] <= 2 * (more[D] + more[E])
      PROVE  sum[C] <= 2 * (sum[D] + sum[E])
  <2>1. PICK c \in Nat, d \in Nat, e \in Nat, u \in Nat, v \in Nat, w \in Nat :
            /\ c = held[C] /\ d = held[D] /\ e = held[E] /\ u = more[C] /\ v = more[D] /\ w = more[E]
    OBVIOUS
  <2>2. c <= 2 * (d + e) /\ u <= 2 * (v + w)
    BY <1>3, <2>1
  <2>3. c + u <= 2 * ((d + v) + (e + w))
    BY <2>2
  <2>4. sum[C] = c + u /\ sum[D] = d + v /\ sum[E] = e + w
    BY <2>1
  <2> QED
    BY <2>3, <2>4
<1>4. ASSUME NEW a \in NamesSeen, NEW b \in NamesSeen, NEW f \in Weights
      PROVE  sum[{Link(a, b, f)}] = sum[{Link(b, a, f)}]
  <2>1. held[{Link(a, b, f)}] = held[{Link(b, a, f)}] /\ more[{Link(a, b, f)}] = more[{Link(b, a, f)}]
    BY Zenon DEF Balanced
  <2> QED
    BY <1>2, <2>1, GroupsAreCells
<1>5. ASSUME NEW p \in Covered
      PROVE  /\ sum[Of(NamesSeen, "op", p[1])] <= sum[Of(NamesSeen, "sub", p[1])]
             /\ sum[Of(NamesSeen, "sub", p[1])] <= sum[{Total(p[2])}]
  <2>1. /\ held[Of(NamesSeen, "op", p[1])] <= held[Of(NamesSeen, "sub", p[1])]
        /\ held[Of(NamesSeen, "sub", p[1])] <= held[{Total(p[2])}]
        /\ more[Of(NamesSeen, "op", p[1])] <= more[Of(NamesSeen, "sub", p[1])]
        /\ more[Of(NamesSeen, "sub", p[1])] <= more[{Total(p[2])}]
    BY Zenon DEF Balanced
  <2> QED
    BY <1>1, <2>1, GroupsAreCells
<1>6. sum[CountCells] = sum[{Total("records")}]
  BY <1>2, GroupsAreCells DEF Balanced
<1>7. /\ sum[Of(NamesSeen, "link", "cnt")] <= 2 * (sum[{Total("moc_cnt")}] + sum[{Total("mtc_cnt")}])
      /\ sum[Of(NamesSeen, "link", "sms")] <= 2 * (sum[{Total("sms_mo_cnt")}] + sum[{Total("sms_mt_cnt")}])
      /\ sum[Of(NamesSeen, "link", "dur")]
             <= 2 * (sum[Of(NamesSeen, "sub", "voice_out")] + sum[Of(NamesSeen, "sub", "voice_in")])
  BY <1>3, GroupsAreCells, Zenon DEF Balanced
<1> QED
  BY <1>4, <1>5, <1>6, <1>7, Zenon DEF Balanced

(* A whole batch is balanced.                                               *)
LEMMA PartsOfCommands ==
    ASSUME NEW batch, KnownBatch(batch, NamesSeen)
    PROVE  /\ \A kind \in {"sub", "op", "link"} : \A f :
                  AddedTo(Commands(batch), Of(NamesSeen, kind, f)) = HeldIn(Fold(batch), Of(NamesSeen, kind, f))
           /\ \A a, b, f : AddedTo(Commands(batch), {Link(a, b, f)}) = HeldIn(Fold(batch), {Link(a, b, f)})
           /\ \A f : AddedTo(Commands(batch), {Total(f)}) = HeldIn(TotalsOf(batch), {Total(f)})
           /\ AddedTo(Commands(batch), CountCells) = HeldIn(TotalsOf(batch), CountCells)
<1>1. /\ Holds(Fold(batch), FoldCells(NamesSeen)) /\ Holds(TotalsOf(batch), TotalCells)
      /\ Holds(Boards(Fold(batch)), TopCells(NamesSeen))
  <2>1. Holds(Fold(batch), FoldCells(NamesSeen)) /\ Holds(TotalsOf(batch), TotalCells)
    BY FoldHolds, TotalsHold
  <2> QED
    BY <2>1, BoardsHold
<1>2. ASSUME NEW C, \A c \in C : c[1] \in {"sub", "op", "link"}
      PROVE  AddedTo(Commands(batch), C) = HeldIn(Fold(batch), C)
  <2>1. C \cap DOMAIN TotalsOf(batch) = {} /\ C \cap DOMAIN Boards(Fold(batch)) = {}
    BY <1>1, <1>2 DEF Holds, TotalCells, TopCells
  <2>2. HeldIn(TotalsOf(batch), C) = 0 /\ HeldIn(Boards(Fold(batch)), C) = 0
    BY <2>1, HeldInNone
  <2>3. /\ AddedTo(Commands(batch), C) =
               HeldIn(TotalsOf(batch), C) + HeldIn(Boards(Fold(batch)), C) + HeldIn(Fold(batch), C)
        /\ HeldIn(Fold(batch), C) \in Nat
    BY CommandsSum
  <2> QED
    BY <2>2, <2>3
<1>3. ASSUME NEW C, \A c \in C : c[1] = "total"
      PROVE  AddedTo(Commands(batch), C) = HeldIn(TotalsOf(batch), C)
  <2>1. C \cap DOMAIN Fold(batch) = {} /\ C \cap DOMAIN Boards(Fold(batch)) = {}
    BY <1>1, <1>3 DEF Holds, FoldCells, TopCells
  <2>2. HeldIn(Fold(batch), C) = 0 /\ HeldIn(Boards(Fold(batch)), C) = 0
    BY <2>1, HeldInNone
  <2>3. /\ AddedTo(Commands(batch), C) =
               HeldIn(TotalsOf(batch), C) + HeldIn(Boards(Fold(batch)), C) + HeldIn(Fold(batch), C)
        /\ HeldIn(TotalsOf(batch), C) \in Nat
    BY CommandsSum
  <2> QED
    BY <2>2, <2>3
<1>4. ASSUME NEW kind \in {"sub", "op", "link"}, NEW f
      PROVE  AddedTo(Commands(batch), Of(NamesSeen, kind, f)) = HeldIn(Fold(batch), Of(NamesSeen, kind, f))
  <2>1. \A c \in Of(NamesSeen, kind, f) : c[1] \in {"sub", "op", "link"}
    BY <1>4 DEF Of
  <2> QED
    BY <1>2, <2>1
<1>5. ASSUME NEW a, NEW b, NEW f
      PROVE  AddedTo(Commands(batch), {Link(a, b, f)}) = HeldIn(Fold(batch), {Link(a, b, f)})
  <2>1. \A c \in {Link(a, b, f)} : c[1] \in {"sub", "op", "link"}
    BY DEF Link
  <2> QED
    BY <1>2, <2>1
<1>6. ASSUME NEW f PROVE AddedTo(Commands(batch), {Total(f)}) = HeldIn(TotalsOf(batch), {Total(f)})
  <2>1. \A c \in {Total(f)} : c[1] = "total"
    BY DEF Total
  <2> QED
    BY <1>3, <2>1
<1>7. AddedTo(Commands(batch), CountCells) = HeldIn(TotalsOf(batch), CountCells)
  <2>1. \A c \in CountCells : c[1] = "total"
    BY DEF CountCells, Total
  <2> QED
    BY <1>3, <2>1
<1> QED
  BY <1>4, <1>5, <1>6, <1>7, Zenon

LEMMA CommandsBalance ==
    ASSUME NEW batch, KnownBatch(batch, NamesSeen)
    PROVE  Brought(Commands(batch)) \in [Groups -> Nat] /\ Balanced(Brought(Commands(batch)))
<1> DEFINE B == Brought(Commands(batch))
<1>1. B \in [Groups -> Nat]
  <2>1. ASSUME NEW C \in Groups PROVE AddedTo(Commands(batch), C) \in Nat
    <3>1. PICK x \in Nat, y \in Nat, z \in Nat : AddedTo(Commands(batch), C) = x + y + z
      BY CommandsSum
    <3> QED
      BY <3>1
  <2> QED
    BY <2>1 DEF Brought
<1>2. \A C \in Groups : B[C] = AddedTo(Commands(batch), C)
  BY DEF Brought
<1>3. /\ \A kind \in {"sub", "op", "link"} : \A f :
             B[Of(NamesSeen, kind, f)] = HeldIn(Fold(batch), Of(NamesSeen, kind, f))
      /\ \A a, b \in NamesSeen : \A f \in Weights : B[{Link(a, b, f)}] = HeldIn(Fold(batch), {Link(a, b, f)})
      /\ \A f : {Total(f)} \in Groups => B[{Total(f)}] = HeldIn(TotalsOf(batch), {Total(f)})
      /\ B[CountCells] = HeldIn(TotalsOf(batch), CountCells)
  <2>1. \A kind \in {"sub", "op", "link"} : \A f :
            B[Of(NamesSeen, kind, f)] = HeldIn(Fold(batch), Of(NamesSeen, kind, f))
    BY <1>2, GroupsAreCells, PartsOfCommands
  <2>2. ASSUME NEW a \in NamesSeen, NEW b \in NamesSeen, NEW f \in Weights
        PROVE  B[{Link(a, b, f)}] = HeldIn(Fold(batch), {Link(a, b, f)})
    <3>1. {Link(a, b, f)} \in Groups
      BY GroupsAreCells
    <3>2. AddedTo(Commands(batch), {Link(a, b, f)}) = HeldIn(Fold(batch), {Link(a, b, f)})
      BY PartsOfCommands
    <3> QED
      BY <1>2, <3>1, <3>2
  <2>3. ASSUME NEW f, {Total(f)} \in Groups PROVE B[{Total(f)}] = HeldIn(TotalsOf(batch), {Total(f)})
    <3>1. AddedTo(Commands(batch), {Total(f)}) = HeldIn(TotalsOf(batch), {Total(f)})
      BY PartsOfCommands
    <3> QED
      BY <1>2, <2>3, <3>1
  <2>4. B[CountCells] = HeldIn(TotalsOf(batch), CountCells)
    BY <1>2, GroupsAreCells, PartsOfCommands
  <2> QED
    BY <2>1, <2>2, <2>3, <2>4
<1> HIDE DEF B
<1>4. ASSUME NEW a \in NamesSeen, NEW b \in NamesSeen, NEW f \in Weights
      PROVE  B[{Link(a, b, f)}] = B[{Link(b, a, f)}]
  <2>1. HeldIn(Fold(batch), {Link(a, b, f)}) = HeldIn(Fold(batch), {Link(b, a, f)})
    BY BatchMirrors
  <2> QED
    BY <1>3, <2>1, Zenon
<1>5. ASSUME NEW p \in Covered
      PROVE  /\ B[Of(NamesSeen, "op", p[1])] <= B[Of(NamesSeen, "sub", p[1])]
             /\ B[Of(NamesSeen, "sub", p[1])] <= B[{Total(p[2])}]
  <2>1. p = <<p[1], p[2]>>
    BY <1>5 DEF Covered
  <2>2. PICK f, t : f = p[1] /\ t = p[2]
    OBVIOUS
  <2>3. <<f, t>> \in Covered
    BY <2>1, <2>2, Zenon
  <2>4. /\ HeldIn(Fold(batch), Of(NamesSeen, "op", f)) <= HeldIn(Fold(batch), Of(NamesSeen, "sub", f))
        /\ HeldIn(Fold(batch), Of(NamesSeen, "sub", f)) <= HeldIn(TotalsOf(batch), {Total(t)})
    BY <2>3, BatchIsCovered
  <2>5. {Total(t)} \in Groups
    BY <2>2, GroupsAreCells
  <2>6. /\ B[Of(NamesSeen, "op", f)] = HeldIn(Fold(batch), Of(NamesSeen, "op", f))
        /\ B[Of(NamesSeen, "sub", f)] = HeldIn(Fold(batch), Of(NamesSeen, "sub", f))
        /\ B[{Total(t)}] = HeldIn(TotalsOf(batch), {Total(t)})
    BY <1>3, <2>5
  <2> QED
    BY <2>2, <2>4, <2>6, Zenon
<1>6. B[CountCells] = B[{Total("records")}]
  BY <1>3, GroupsAreCells, BatchIsCounted, Zenon
<1>7. /\ B[{Total("moc_cnt")}] = HeldIn(TotalsOf(batch), {Total("moc_cnt")})
      /\ B[{Total("mtc_cnt")}] = HeldIn(TotalsOf(batch), {Total("mtc_cnt")})
      /\ B[{Total("sms_mo_cnt")}] = HeldIn(TotalsOf(batch), {Total("sms_mo_cnt")})
      /\ B[{Total("sms_mt_cnt")}] = HeldIn(TotalsOf(batch), {Total("sms_mt_cnt")})
  BY <1>3, GroupsAreCells, Zenon
<1>8. /\ B[Of(NamesSeen, "link", "cnt")] = HeldIn(Fold(batch), Of(NamesSeen, "link", "cnt"))
      /\ B[Of(NamesSeen, "link", "sms")] = HeldIn(Fold(batch), Of(NamesSeen, "link", "sms"))
      /\ B[Of(NamesSeen, "link", "dur")] = HeldIn(Fold(batch), Of(NamesSeen, "link", "dur"))
      /\ B[Of(NamesSeen, "sub", "voice_out")] = HeldIn(Fold(batch), Of(NamesSeen, "sub", "voice_out"))
      /\ B[Of(NamesSeen, "sub", "voice_in")] = HeldIn(Fold(batch), Of(NamesSeen, "sub", "voice_in"))
  BY <1>3
<1>9. /\ B[Of(NamesSeen, "link", "cnt")] <= 2 * (B[{Total("moc_cnt")}] + B[{Total("mtc_cnt")}])
      /\ B[Of(NamesSeen, "link", "sms")] <= 2 * (B[{Total("sms_mo_cnt")}] + B[{Total("sms_mt_cnt")}])
      /\ B[Of(NamesSeen, "link", "dur")]
             <= 2 * (B[Of(NamesSeen, "sub", "voice_out")] + B[Of(NamesSeen, "sub", "voice_in")])
  BY <1>7, <1>8, BatchLinksTwice, Zenon
<1>10. Balanced(B)
  BY <1>4, <1>5, <1>6, <1>9, Zenon DEF Balanced
<1> QED
  BY <1>1, <1>10 DEF B

BalanceInv == NoTails => Balanced(Held(store))

LEMMA BalanceStarts == Init => BalanceInv
<1> SUFFICES ASSUME Init PROVE Balanced(Held(store))
  BY DEF BalanceInv
<1>1. \A C \in Groups : Held(store)[C] = 0
  BY NothingHeld DEF Init, Held
<1>2. PICK h : h = Held(store)
  OBVIOUS
<1>3. \A C \in Groups : h[C] = 0
  BY <1>1, <1>2
<1>4. Balanced(h)
  <2>1. /\ \A a, b \in NamesSeen : \A f \in Weights : h[{Link(a, b, f)}] = 0
        /\ \A p \in Covered : h[{Total(p[2])}] = 0
        /\ \A kind, f : h[Of(NamesSeen, kind, f)] = 0
        /\ h[CountCells] = 0 /\ h[{Total("records")}] = 0
        /\ h[{Total("moc_cnt")}] = 0 /\ h[{Total("mtc_cnt")}] = 0
        /\ h[{Total("sms_mo_cnt")}] = 0 /\ h[{Total("sms_mt_cnt")}] = 0
    BY <1>3, GroupsAreCells, Zenon
  <2> QED
    BY <2>1 DEF Balanced
<1> QED
  BY <1>2, <1>4

LEMMA BalanceSteps == StoreInv /\ BalanceInv /\ [Next]_vars => BalanceInv'
<1> SUFFICES ASSUME StoreInv, BalanceInv, [Next]_vars, NoTails' PROVE Balanced(Held(store))'
  BY DEF BalanceInv
<1>1. Balanced(Held(store))' <=> Balanced(Held(store'))
  BY DEF Balanced, Held, HeldIn, SumOf, Heap
<1>2. CASE store' = store /\ NoTails
  BY <1>1, <1>2 DEF BalanceInv
<1>3. ASSUME NEW b \in DOMAIN Batches, Grown(Commands(Batches[b])), NoTails
      PROVE  Balanced(Held(store'))
  <2>1. KnownBatch(Batches[b], NamesSeen)
    BY BatchesAreKnown
  <2>2. PICK held, more, sum : held = Held(store) /\ more = Brought(Commands(Batches[b])) /\ sum = Held(store')
    OBVIOUS
  <2>3. held \in [Groups -> Nat] /\ Balanced(held)
    <3>1. \A C : HeldIn(store, C) \in Nat
      BY HeldIsNatural DEF StoreInv
    <3>2. Balanced(Held(store))
      BY <1>3 DEF BalanceInv
    <3> QED
      BY <2>2, <3>1, <3>2 DEF Held
  <2>4. more \in [Groups -> Nat] /\ Balanced(more)
    BY <2>1, <2>2, CommandsBalance
  <2>5. \A C \in Groups : sum[C] = held[C] + more[C]
    BY <1>3, <2>2 DEF Held, Brought, Grown
  <2>6. Balanced(sum)
    BY <2>3, <2>4, <2>5, BothBalanced
  <2> QED
    BY <2>2, <2>6
<1> QED
  BY <1>1, <1>2, <1>3, StoreGrows

LEMMA SumsAreHeld ==
    ASSUME StoreInv
    PROVE  /\ \A kind, f : Sum(kind, f) = HeldIn(store, Of(NamesSeen, kind, f))
           /\ \A f \in TotalFields : TotalsAnswer[f] = HeldIn(store, {Total(f)})
           /\ SumOver(TotalsAnswer, Counts) = HeldIn(store, CountCells)
<1>1. Holds(store, Cells(NamesSeen))
  BY DEF StoreInv
<1>2. ASSUME NEW kind, NEW f PROVE Sum(kind, f) = HeldIn(store, Of(NamesSeen, kind, f))
  <2>1. PICK S : S = {c \in DOMAIN store : c[1] = kind /\ c[3] = f}
    OBVIOUS
  <2>2. S = {c \in DOMAIN store : c \in Of(NamesSeen, kind, f)}
    BY <1>1, <2>1 DEF Holds, Of
  <2>3. Naturals(store, {c \in DOMAIN store : c \in Of(NamesSeen, kind, f)})
    BY <1>1, HeldIsNatural
  <2>4. SumOver(store, S) = SumOf(store, S)
    BY <2>2, <2>3, FoldIsSum
  <2> QED
    BY <2>1, <2>2, <2>4 DEF Sum, HeldIn
<1>3. ASSUME NEW f \in TotalFields PROVE TotalsAnswer[f] = HeldIn(store, {Total(f)})
  <2>1. At(store, Total(f)) = HeldIn(store, {Total(f)})
    BY <1>1, AtIsHeld
  <2> QED
    BY <2>1 DEF TotalsAnswer
<1>4. SumOver(TotalsAnswer, Counts) = HeldIn(store, CountCells)
  <2>1. PICK g : g = [t \in Counts |-> Total(t)]
    OBVIOUS
  <2>2. Apart(g, Counts)
    BY <2>1 DEF Apart, Total
  <2>3. \A t \in Counts : TotalsAnswer[t] = At(store, g[t])
    BY <2>1 DEF TotalsAnswer, TotalFields, Counts
  <2>4. IsFiniteSet(Counts)
    <3>1. PICK s : s = <<"moc_cnt", "mtc_cnt", "sms_mo_cnt", "sms_mt_cnt", "data_cnt",
                         "noans_cnt", "busy_cnt", "failed_cnt">>
      OBVIOUS
    <3>2. IsFiniteSet(1 .. 8) /\ 1 .. 8 = {1, 2, 3, 4, 5, 6, 7, 8}
      <4>1. 1 .. 8 = {1, 2, 3, 4, 5, 6, 7, 8}
        OBVIOUS
      <4>2. PICK n \in Nat : n = 8
        OBVIOUS
      <4>3. IsFiniteSet(1 .. n)
        BY FS_Interval
      <4> QED
        BY <4>1, <4>2, <4>3
    <3>3. IsFiniteSet({s[i] : i \in 1 .. 8})
      BY <3>2, ImageIsFinite
    <3>4. {s[i] : i \in {1, 2, 3, 4, 5, 6, 7, 8}} = {s[1], s[2], s[3], s[4], s[5], s[6], s[7], s[8]}
      OBVIOUS
    <3>5. {s[1], s[2], s[3], s[4], s[5], s[6], s[7], s[8]} = Counts
      BY <3>1 DEF Counts
    <3> QED
      BY <3>2, <3>3, <3>4, <3>5
  <2>5. Naturals(TotalsAnswer, Counts) /\ SumOf(TotalsAnswer, Counts) = HeldIn(store, {g[t] : t \in Counts})
    BY <1>1, <2>2, <2>3, <2>4, HeldByName
  <2>6. {g[t] : t \in Counts} = CountCells
    BY <2>1 DEF CountCells
  <2> QED
    BY <2>5, <2>6, FoldIsSum
<1> QED
  BY <1>2, <1>3, <1>4

LEMMA BalancedMirrors ==
    ASSUME StoreInv, Balanced(Held(store))
    PROVE  LinksMirror
<1> SUFFICES ASSUME NEW c \in DOMAIN store, c[1] = "link"
             PROVE  LinkAnswer(c[2], c[4]) = LinkAnswer(c[4], c[2])
  BY DEF LinksMirror
<1>1. Holds(store, Cells(NamesSeen)) /\ NonZero(store) = DOMAIN store
  BY DEF StoreInv
<1>2. c[2] \in NamesSeen /\ c[4] \in NamesSeen
  <2>1. c \in Cells(NamesSeen)
    BY <1>1 DEF Holds
  <2> QED
    BY <2>1 DEF Cells, FoldCells, TotalCells, TopCells
<1>3. PICK a \in NamesSeen, b \in NamesSeen : a = c[2] /\ b = c[4]
  BY <1>2
<1>4. ASSUME NEW d PROVE d \in DOMAIN store <=> At(store, d) # 0
  BY <1>1 DEF NonZero, At
<1>5. ASSUME NEW f \in Metrics PROVE At(store, Link(a, b, f)) = At(store, Link(b, a, f))
  <2>1. f \in Weights
    BY <1>5 DEF Metrics, Weights
  <2>2. Held(store)[{Link(a, b, f)}] = Held(store)[{Link(b, a, f)}]
    BY <2>1, Zenon DEF Balanced
  <2>3. {Link(a, b, f)} \in Groups /\ {Link(b, a, f)} \in Groups
    BY <2>1, GroupsAreCells
  <2>4. HeldIn(store, {Link(a, b, f)}) = HeldIn(store, {Link(b, a, f)})
    BY <2>2, <2>3 DEF Held
  <2>5. /\ At(store, Link(a, b, f)) = HeldIn(store, {Link(a, b, f)})
        /\ At(store, Link(b, a, f)) = HeldIn(store, {Link(b, a, f)})
    BY <1>1, AtIsHeld
  <2> QED
    BY <2>4, <2>5, Zenon
<1>6. \A f \in Metrics : Link(a, b, f) \notin DOMAIN store <=> Link(b, a, f) \notin DOMAIN store
  BY <1>4, <1>5, Zenon
<1>7. [f \in Metrics |-> At(store, Link(a, b, f))] = [f \in Metrics |-> At(store, Link(b, a, f))]
  BY <1>5
<1>8. LinkAnswer(a, b) = LinkAnswer(b, a)
  <2>1. (\A f \in Metrics : Link(a, b, f) \notin DOMAIN store)
            <=> (\A f \in Metrics : Link(b, a, f) \notin DOMAIN store)
    BY <1>6, Zenon
  <2> QED
    BY <1>7, <2>1, Zenon DEF LinkAnswer
<1> QED
  BY <1>3, <1>8, Zenon

LEMMA BalancedCovers ==
    ASSUME StoreInv, Balanced(Held(store))
    PROVE  TotalsCover
<1>1. /\ \A kind, f : Sum(kind, f) = Held(store)[Of(NamesSeen, kind, f)]
      /\ \A f \in TotalFields : {Total(f)} \in Groups => TotalsAnswer[f] = Held(store)[{Total(f)}]
      /\ SumOver(TotalsAnswer, Counts) = Held(store)[CountCells]
  <2>1. \A C \in Groups : Held(store)[C] = HeldIn(store, C)
    BY DEF Held
  <2>2. ASSUME NEW kind, NEW f PROVE Sum(kind, f) = Held(store)[Of(NamesSeen, kind, f)]
    BY <2>1, SumsAreHeld, GroupsAreCells
  <2>3. ASSUME NEW f \in TotalFields, {Total(f)} \in Groups PROVE TotalsAnswer[f] = Held(store)[{Total(f)}]
    BY <2>1, <2>3, SumsAreHeld
  <2>4. SumOver(TotalsAnswer, Counts) = Held(store)[CountCells]
    BY <2>1, SumsAreHeld, GroupsAreCells
  <2> QED
    BY <2>2, <2>3, <2>4
<1>2. PICK h : h = Held(store)
  OBVIOUS
<1>3. /\ TotalsAnswer["records"] = h[{Total("records")}]
      /\ TotalsAnswer["moc_cnt"] = h[{Total("moc_cnt")}] /\ TotalsAnswer["mtc_cnt"] = h[{Total("mtc_cnt")}]
      /\ TotalsAnswer["sms_mo_cnt"] = h[{Total("sms_mo_cnt")}]
      /\ TotalsAnswer["sms_mt_cnt"] = h[{Total("sms_mt_cnt")}]
  <2>1. {"records", "moc_cnt", "mtc_cnt", "sms_mo_cnt", "sms_mt_cnt"} \subseteq TotalFields
    BY DEF TotalFields
  <2> QED
    BY <1>1, <1>2, <2>1, GroupsAreCells
<1>4. ASSUME NEW p \in Covered
      PROVE  Sum("op", p[1]) <= Sum("sub", p[1]) /\ Sum("sub", p[1]) <= TotalsAnswer[p[2]]
  <2>1. p[2] \in TotalFields
    BY <1>4 DEF Covered, TotalFields
  <2>2. TotalsAnswer[p[2]] = h[{Total(p[2])}]
    BY <1>1, <1>2, <2>1, GroupsAreCells
  <2>3. Sum("op", p[1]) = h[Of(NamesSeen, "op", p[1])] /\ Sum("sub", p[1]) = h[Of(NamesSeen, "sub", p[1])]
    BY <1>1, <1>2
  <2>4. /\ h[Of(NamesSeen, "op", p[1])] <= h[Of(NamesSeen, "sub", p[1])]
        /\ h[Of(NamesSeen, "sub", p[1])] <= h[{Total(p[2])}]
    BY <1>2, Zenon DEF Balanced
  <2> QED
    BY <2>2, <2>3, <2>4, Zenon
<1>5. TotalsAnswer["records"] = SumOver(TotalsAnswer, Counts)
  BY <1>1, <1>2, <1>3, Zenon DEF Balanced
<1>6. /\ Sum("link", "cnt") <= 2 * (TotalsAnswer["moc_cnt"] + TotalsAnswer["mtc_cnt"])
      /\ Sum("link", "sms") <= 2 * (TotalsAnswer["sms_mo_cnt"] + TotalsAnswer["sms_mt_cnt"])
      /\ Sum("link", "dur") <= 2 * (Sum("sub", "voice_out") + Sum("sub", "voice_in"))
  BY <1>1, <1>2, <1>3, Zenon DEF Balanced
<1> QED
  BY <1>4, <1>5, <1>6, Zenon DEF TotalsCover, Covered, Counts

(* Unless a batch lost its first commands, a link reads the same from both  *)
(* ends and the sums by subscriber, operator and pair and those of the      *)
(* totals cover each other: the separate switches of aggregator.cpp:25, :54 *)
(* and totals.cpp:33 agree.                                                 *)
THEOREM ReportsBalance == Spec => []ReportsAddUp
<1>1. Init => BalanceInv
  BY BalanceStarts
<1>2. StoreInv /\ BalanceInv /\ [Next]_vars => BalanceInv'
  BY BalanceSteps
<1>3. StoreInv /\ BalanceInv => ReportsAddUp
  BY BalancedMirrors, BalancedCovers DEF BalanceInv, ReportsAddUp
<1> QED
  BY <1>1, <1>2, <1>3, StoreIsTyped, PTL DEF Spec

-----------------------------------------------------------------------------
(* The walk of a reader over a listing. *)

Moves(r) == reader \in Walks /\ reader' = r /\ store' = store

(* Every step there is, as the reader sees it.                              *)
LEMMA WalkSteps ==
    ASSUME StoreInv, ReaderInv, [Next]_vars
    PROVE  \/ reader' = reader /\ store' = store
           \/ reader' = Idle
           \/ /\ reader \in Walks /\ reader' = Stirred
              /\ \E from : \E b \in DOMAIN Batches :
                     Apply(b, from) /\ Left(b, from) \in Seq(RealAdditions(Cells(NamesSeen)))
           \/ \E subject \in Subjects : Open(subject)
           \/ /\ reader.phase = "ask"
              /\ Moves([reader EXCEPT !.phase = "counted", !.count = Len(Listing(reader.subject))])
           \/ /\ reader.phase = "ask"
              /\ Moves([reader EXCEPT !.phase = "shown", !.count = Len(Listing(reader.subject)),
                                      !.shown = @ \o Page(Listing(reader.subject), reader.offset, PageLimit)])
           \/ /\ reader.phase = "counted"
              /\ Moves([reader EXCEPT !.phase = "shown", !.count = reader.count,
                                      !.shown = @ \o Page(Listing(reader.subject), reader.offset, PageLimit)])
           \/ /\ reader.phase = "counted"
              /\ Moves([reader EXCEPT !.phase = "ask"])
           \/ /\ reader.phase = "shown" /\ reader.offset < LastOffset(reader.count, PageSize)
              /\ Moves([reader EXCEPT !.phase = "ask",
                                      !.offset = NextOffset(reader.offset, reader.count, PageSize)])
<1>1. reader # Idle => reader \in Walks
  BY DEF ReaderInv
<1>2. ASSUME NEW b \in DOMAIN Batches, Merge(b) \/ Land(b) \/ LandTail(b) \/ Lose(b)
      PROVE  \/ reader' = reader /\ store' = store
             \/ reader' = Idle
             \/ /\ reader \in Walks /\ reader' = Stirred
                /\ \E from : Apply(b, from) /\ Left(b, from) \in Seq(RealAdditions(Cells(NamesSeen)))
  BY <1>1, <1>2, BatchesStir, IdleStays
<1>3. ASSUME AskPeers
      PROVE  /\ reader.phase = "ask"
             /\ Moves([reader EXCEPT !.phase = "shown", !.count = Len(Listing(reader.subject)),
                                     !.shown = @ \o Page(Listing(reader.subject), reader.offset, PageLimit)])
  BY <1>3, PeersAreShown, Zenon DEF Moves
<1>4. ASSUME AskCount
      PROVE  /\ reader.phase = "ask"
             /\ Moves([reader EXCEPT !.phase = "counted", !.count = Len(Listing(reader.subject))])
  <2>1. reader \in Walks
    BY <1>1, <1>4 DEF AskCount, Idle
  <2> QED
    BY <1>4, <2>1, Zenon DEF AskCount, Moves
<1>5. ASSUME AskRange
      PROVE  /\ reader.phase = "counted"
             /\ Moves([reader EXCEPT !.phase = "shown", !.count = reader.count,
                                     !.shown = @ \o Page(Listing(reader.subject), reader.offset, PageLimit)])
  BY <1>5, RangeIsShown, Zenon DEF Moves
<1>6. ASSUME RangeFails
      PROVE  reader.phase = "counted" /\ Moves([reader EXCEPT !.phase = "ask"])
  BY <1>1, <1>6 DEF RangeFails, Idle, Moves
<1>7. ASSUME NextPage
      PROVE  /\ reader.phase = "shown" /\ reader.offset < LastOffset(reader.count, PageSize)
             /\ Moves([reader EXCEPT !.phase = "ask",
                                     !.offset = NextOffset(reader.offset, reader.count, PageSize)])
  <2>1. reader \in Walks
    BY <1>1, <1>7 DEF NextPage, Idle
  <2>2. reader.offset \in Nat /\ reader.count \in Nat
    BY <2>1 DEF Walks
  <2>3. LastOffset(reader.count, PageSize) \in Int
    <3>1. PageSize \in Nat \ {0}
      BY ReportsAssumption, WidthAssumption DEF Word
    <3>2. CASE reader.count = 0
      BY <3>2 DEF LastOffset
    <3>3. CASE reader.count # 0
      BY <2>2, <3>1, <3>3, LastStartsOnPage
    <3> QED
      BY <3>2, <3>3
  <2>4. reader.phase = "shown" /\ ~(reader.offset >= LastOffset(reader.count, PageSize))
    BY <1>7 DEF NextPage, AtEnd
  <2>5. reader.offset < LastOffset(reader.count, PageSize)
    BY <2>2, <2>3, <2>4
  <2>6. /\ reader' = [reader EXCEPT !.phase = "ask",
                                    !.offset = NextOffset(reader.offset, reader.count, PageSize)]
        /\ store' = store
    BY <1>7 DEF NextPage
  <2> QED
    BY <2>1, <2>4, <2>5, <2>6 DEF Moves
<1>8. CASE UNCHANGED vars
  BY <1>8 DEF vars
<1>9. CASE Close
  BY <1>9 DEF Close
<1> QED
  BY <1>2, <1>3, <1>4, <1>5, <1>6, <1>7, <1>8, <1>9 DEF Next

LEMMA SameListing ==
    ASSUME store' = store, NEW subject
    PROVE  Listing(subject)' = Listing(subject)
BY DEF Listing, Board, ByName, ByWeight, InOrder, OnBoard, Higher, Peers, Hash, Heavier, At

LEMMA SizesAreNumbers ==
    /\ PageSize \in Nat \ {0} /\ Cap \in Nat
    /\ PageSize <= Cap => PageLimit = PageSize
<1>1. PageSize \in Nat \ {0} /\ Cap \in Nat
  BY ReportsAssumption, LimitAssumption, WidthAssumption DEF Word
<1> QED
  BY <1>1 DEF PageLimit, Smaller

(* What was shown of a listing that stays as it is: its beginning.          *)
Exact(r, all) ==
    /\ \E k \in Nat : r.offset = k * PageSize
    /\ r.offset = 0 \/ r.offset < Len(all)
    /\ r.phase \in {"ask", "counted"} => r.shown = SubSeq(all, 1, r.offset)
    /\ r.phase \in {"counted", "shown"} => r.count = Len(all)
    /\ r.phase = "shown" => r.shown = SubSeq(all, 1, r.offset) \o Page(all, r.offset, PageSize)

StillInv == reader \in Walks /\ ~reader.stirred => Exact(reader, Listing(reader.subject))

LEMMA StillSteps ==
    ASSUME PageSize <= Cap
    PROVE  StoreInv /\ ReaderInv /\ StillInv /\ [Next]_vars => StillInv'
<1> SUFFICES ASSUME StoreInv, ReaderInv, StillInv, [Next]_vars PROVE StillInv'
  OBVIOUS
<1>1. PICK all : all = Listing(reader.subject)
  OBVIOUS
<1>2. ASSUME reader \in Walks PROVE all \in Seq(NamesSeen) /\ Len(all) \in Nat
  <2>1. reader.subject \in Subjects
    BY <1>2 DEF Walks
  <2>2. all \in Seq(NamesSeen)
    BY <1>1, <2>1, ListingLists DEF StoreInv
  <2> QED
    BY <2>2
<1>3. ASSUME NEW r, r \in Walks, Moves(r), r.subject = reader.subject, r.stirred = reader.stirred,
             ~r.stirred => Exact(r, all)
      PROVE  StillInv'
  <2>1. reader' = r /\ store' = store
    BY <1>3 DEF Moves
  <2>2. PICK s : s = reader.subject
    OBVIOUS
  <2>3. Listing(s)' = Listing(s)
    BY <2>1, SameListing
  <2>4. Listing(reader.subject)' = Listing(s)'
    <3>1. reader'.subject = s
      BY <1>3, <2>1, <2>2
    <3> QED
      BY <3>1 DEF Listing, Board, ByName, ByWeight, InOrder, OnBoard, Higher, Peers, Hash, Heavier, At
  <2>5. Listing(reader.subject)' = all
    BY <1>1, <2>2, <2>3, <2>4
  <2> QED
    BY <1>3, <2>1, <2>5 DEF StillInv, Exact
<1>4. ASSUME reader \in Walks, ~reader.stirred PROVE Exact(reader, all)
  BY <1>1, <1>4 DEF StillInv
<1>5. PageSize \in Nat \ {0} /\ PageLimit = PageSize
  BY SizesAreNumbers
<1>6. CASE reader' = reader /\ store' = store
  <2>1. CASE reader \in Walks
    BY <1>3, <1>4, <1>6, <2>1 DEF Moves
  <2>2. CASE reader \notin Walks
    BY <1>6, <2>2 DEF StillInv, Walks, Weighed
  <2> QED
    BY <2>1, <2>2
<1>7. CASE reader' = Idle
  <2>1. Idle \notin Walks
    BY DEF Idle, Walks
  <2> QED
    BY <1>7, <2>1 DEF StillInv, Walks, Weighed
<1>8. CASE reader \in Walks /\ reader' = Stirred
  <2>1. reader'.stirred = TRUE
    BY <1>8, StirredIsNoted
  <2> QED
    BY <2>1 DEF StillInv
<1>9. ASSUME NEW subject \in Subjects, Open(subject) PROVE StillInv'
  <2>1. /\ reader'.phase = "ask" /\ reader'.offset = 0 /\ reader'.shown = <<>>
        /\ reader'.subject = subject /\ store' = store
    BY <1>9 DEF Open
  <2>2. PICK here : here = Listing(reader.subject)'
    OBVIOUS
  <2>3. SubSeq(here, 1, 0) = <<>>
    <3>1. Listing(reader.subject)' = Listing(subject)'
      BY <2>1 DEF Listing, Board, ByName, ByWeight, InOrder, OnBoard, Higher, Peers, Hash, Heavier, At
    <3>2. Listing(subject)' = Listing(subject)
      BY <2>1, SameListing
    <3>3. here \in Seq(NamesSeen)
      BY <2>2, <3>1, <3>2, ListingLists DEF StoreInv
    <3> QED
      BY <3>3
  <2>4. \E k \in Nat : 0 = k * PageSize
    <3>1. 0 = 0 * PageSize
      BY <1>5
    <3> QED
      BY <3>1
  <2>5. Exact(reader', here)
    BY <2>1, <2>3, <2>4 DEF Exact
  <2> QED
    BY <2>2, <2>5 DEF StillInv, Exact
<1>10. ASSUME NEW r, Moves(r), reader.phase = "ask",
              r = [reader EXCEPT !.phase = "counted", !.count = Len(all)]
       PROVE  StillInv'
  <2>1. reader \in Walks
    BY <1>10 DEF Moves
  <2>2. r \in Walks
    BY <1>2, <1>10, <2>1 DEF Walks
  <2>3. /\ r.subject = reader.subject /\ r.stirred = reader.stirred /\ r.phase = "counted"
        /\ r.offset = reader.offset /\ r.shown = reader.shown /\ r.count = Len(all)
    BY <1>10, <2>1 DEF Walks
  <2>4. ~r.stirred => Exact(r, all)
    BY <1>4, <1>10, <2>1, <2>3 DEF Exact
  <2> QED
    BY <1>3, <1>10, <2>2, <2>3, <2>4
<1>11. ASSUME NEW r, Moves(r), reader.phase = "counted", r = [reader EXCEPT !.phase = "ask"]
       PROVE  StillInv'
  <2>1. reader \in Walks
    BY <1>11 DEF Moves
  <2>2. r \in Walks
    BY <1>11, <2>1 DEF Walks
  <2>3. /\ r.subject = reader.subject /\ r.stirred = reader.stirred /\ r.phase = "ask"
        /\ r.offset = reader.offset /\ r.shown = reader.shown
    BY <1>11, <2>1 DEF Walks
  <2>4. ~r.stirred => Exact(r, all)
    BY <1>4, <1>11, <2>1, <2>3 DEF Exact
  <2> QED
    BY <1>3, <1>11, <2>2, <2>3, <2>4
<1>12. ASSUME NEW r, Moves(r), NEW count \in Nat, count = Len(all) \/ reader.stirred,
              reader.phase \in {"ask", "counted"},
              r = [reader EXCEPT !.phase = "shown", !.count = count,
                                 !.shown = @ \o Page(all, reader.offset, PageLimit)]
       PROVE  StillInv'
  <2>1. reader \in Walks
    BY <1>12 DEF Moves
  <2>2. reader.shown \o Page(all, reader.offset, PageLimit) \in Seq(NamesSeen)
    <3>1. PICK offset \in Nat : offset = reader.offset
      BY <2>1 DEF Walks
    <3>2. Page(all, offset, PageLimit) \in Seq(NamesSeen)
      BY <1>2, <1>5, <2>1, PagesArePart
    <3> QED
      BY <2>1, <3>1, <3>2 DEF Walks
  <2>3. r \in Walks
    BY <1>12, <2>1, <2>2 DEF Walks
  <2>4. /\ r.subject = reader.subject /\ r.stirred = reader.stirred /\ r.phase = "shown"
        /\ r.offset = reader.offset /\ r.count = count
        /\ r.shown = reader.shown \o Page(all, reader.offset, PageSize)
    BY <1>5, <1>12, <2>1 DEF Walks
  <2>5. ~r.stirred => Exact(r, all)
    <3>1. ASSUME ~reader.stirred PROVE Exact(r, all)
      <4>1. Exact(reader, all) /\ count = Len(all)
        BY <1>4, <1>12, <2>1, <3>1
      <4> QED
        BY <1>12, <2>4, <4>1 DEF Exact
    <3> QED
      BY <2>4, <3>1
  <2> QED
    BY <1>3, <1>12, <2>3, <2>4, <2>5
<1>13. ASSUME NEW r, Moves(r), reader.phase = "shown", reader.offset < LastOffset(reader.count, PageSize),
              r = [reader EXCEPT !.phase = "ask",
                                 !.offset = NextOffset(reader.offset, reader.count, PageSize)]
       PROVE  StillInv'
  <2>1. reader \in Walks
    BY <1>13 DEF Moves
  <2>2. PICK next : next = NextOffset(reader.offset, reader.count, PageSize)
    OBVIOUS
  <2>3. next \in Nat /\ next < reader.count
    <3>1. PICK offset \in Nat, count \in Nat : offset = reader.offset /\ count = reader.count
      BY <2>1 DEF Walks
    <3>2. NextOffset(offset, count, PageSize) \in Nat /\ NextOffset(offset, count, PageSize) < count
      BY <1>13, <3>1, NextIsBounded
    <3> QED
      BY <2>2, <3>1, <3>2
  <2>4. r \in Walks
    BY <1>13, <2>1, <2>2, <2>3 DEF Walks
  <2>5. /\ r.subject = reader.subject /\ r.stirred = reader.stirred /\ r.phase = "ask"
        /\ r.offset = next /\ r.shown = reader.shown
    BY <1>13, <2>1, <2>2 DEF Walks
  <2>6. ASSUME ~reader.stirred PROVE Exact(r, all)
    <3>1. /\ reader.count = Len(all)
          /\ reader.shown = SubSeq(all, 1, reader.offset) \o Page(all, reader.offset, PageSize)
      BY <1>4, <1>13, <2>1, <2>6 DEF Exact
    <3>2. PICK k \in Nat : reader.offset = k * PageSize
      BY <1>4, <2>1, <2>6 DEF Exact
    <3>3. k * PageSize < LastOffset(Len(all), PageSize) /\ next = NextOffset(k * PageSize, Len(all), PageSize)
      BY <1>13, <2>2, <3>1, <3>2
    <3>4. next = (k + 1) * PageSize /\ next < Len(all)
      BY <1>2, <1>5, <2>1, <3>3, NextStartsOnPage
    <3>5. SubSeq(all, 1, k * PageSize) \o Page(all, k * PageSize, PageSize) = SubSeq(all, 1, next)
      BY <1>2, <1>5, <2>1, <3>3, NextPageContinues
    <3>6. \E i \in Nat : next = i * PageSize
      BY <3>4
    <3>7. r.shown = SubSeq(all, 1, r.offset)
      BY <2>5, <3>1, <3>2, <3>5
    <3> QED
      BY <2>5, <3>4, <3>6, <3>7 DEF Exact
  <2> QED
    BY <1>3, <1>13, <2>4, <2>5, <2>6
<1>14. ASSUME Moves([reader EXCEPT !.phase = "shown", !.count = reader.count,
                                   !.shown = @ \o Page(all, reader.offset, PageLimit)]),
              reader.phase = "counted"
       PROVE  StillInv'
  <2>1. reader \in Walks
    BY <1>14 DEF Moves
  <2>2. reader.count \in Nat /\ (reader.count = Len(all) \/ reader.stirred)
    BY <1>4, <1>14, <2>1 DEF Walks, Exact
  <2> QED
    BY <1>12, <1>14, <2>2
<1>15. ASSUME Moves([reader EXCEPT !.phase = "shown", !.count = Len(all),
                                   !.shown = @ \o Page(all, reader.offset, PageLimit)]),
              reader.phase = "ask"
       PROVE  StillInv'
  <2>1. reader \in Walks
    BY <1>15 DEF Moves
  <2> QED
    BY <1>2, <1>12, <1>15, <2>1
<1> QED
  BY <1>1, <1>6, <1>7, <1>8, <1>9, <1>10, <1>11, <1>13, <1>14, <1>15, WalkSteps

LEMMA StillEnds ==
    ASSUME StoreInv, ReaderInv, StillInv
    PROVE  StillWalkIsExact
<1> SUFFICES ASSUME AtEnd, ~reader.stirred PROVE reader.shown = Listing(reader.subject)
  BY DEF StillWalkIsExact
<1>1. PICK all : all = Listing(reader.subject)
  OBVIOUS
<1>2. reader \in Walks /\ reader.phase = "shown"
  BY DEF AtEnd, ReaderInv, Idle
<1>3. reader.subject \in Subjects
  BY <1>2 DEF Walks
<1>4. all \in Seq(NamesSeen)
  BY <1>1, <1>3, ListingLists DEF StoreInv
<1>5. Exact(reader, all)
  BY <1>1, <1>2 DEF StillInv
<1>6. /\ reader.count = Len(all) /\ reader.offset >= LastOffset(Len(all), PageSize)
      /\ reader.shown = SubSeq(all, 1, reader.offset) \o Page(all, reader.offset, PageSize)
      /\ reader.offset = 0 \/ reader.offset < Len(all)
  BY <1>2, <1>5 DEF Exact, AtEnd
<1>7. PICK n \in Nat : n = Len(all)
  BY <1>4
<1>8. PageSize \in Nat \ {0}
  BY SizesAreNumbers
<1>9. CASE n = 0
  <2>1. all = <<>> /\ reader.offset = 0
    <3>1. reader.offset \in Nat
      BY <1>2 DEF Walks
    <3>2. reader.offset = 0
      BY <1>6, <1>7, <1>9, <3>1
    <3>3. all = <<>>
      <4>1. Len(all) = 0 /\ all \in Seq(NamesSeen)
        BY <1>4, <1>7, <1>9
      <4> QED
        BY <4>1
    <3> QED
      BY <3>2, <3>3
  <2>2. SubSeq(all, 1, 0) = <<>> /\ Page(all, 0, PageSize) = <<>>
    BY <1>7, <1>9, <2>1 DEF Page
  <2> QED
    BY <1>1, <1>6, <2>1, <2>2
<1>10. CASE n # 0
  <2>1. PICK q \in Nat : /\ LastOffset(n, PageSize) = q * PageSize
                         /\ q * PageSize < n /\ n <= q * PageSize + PageSize
    BY <1>8, <1>10, LastStartsOnPage
  <2>2. PICK k \in Nat : reader.offset = k * PageSize
    BY <1>5 DEF Exact
  <2>3. k * PageSize \in Nat /\ q * PageSize \in Nat /\ k * PageSize >= q * PageSize /\ k * PageSize < n
    BY <1>6, <1>7, <1>8, <1>10, <2>1, <2>2
  <2>4. k * PageSize < (q + 1) * PageSize
    <3>1. (q + 1) * PageSize = q * PageSize + PageSize
      BY <1>8
    <3> QED
      BY <1>8, <2>1, <2>3, <3>1
  <2>5. k <= q
    <3>1. ASSUME q + 1 <= k PROVE (q + 1) * PageSize <= k * PageSize
      BY <1>8, <3>1
    <3>2. (q + 1) * PageSize \in Nat
      BY <1>8
    <3> QED
      BY <2>3, <2>4, <3>1, <3>2
  <2>6. k * PageSize <= q * PageSize
    BY <1>8, <2>5
  <2>7. reader.offset = LastOffset(n, PageSize)
    BY <2>1, <2>2, <2>3, <2>6
  <2>8. SubSeq(all, 1, reader.offset) \o Page(all, reader.offset, PageSize) = all
    <3>1. PICK offset : offset = reader.offset
      OBVIOUS
    <3>2. offset = LastOffset(Len(all), PageSize) /\ Len(all) # 0
      BY <1>7, <1>10, <2>7, <3>1
    <3>3. SubSeq(all, 1, offset) \o Page(all, offset, PageSize) = all
      BY <1>4, <1>8, <3>2, LastPageCompletes
    <3> QED
      BY <3>1, <3>3
  <2> QED
    BY <1>1, <1>6, <2>8
<1> QED
  BY <1>9, <1>10

(* As long as the gateway serves the page size of the browser's settings    *)
(* whole, a walk over a listing nothing is added to shows it whole, in      *)
(* order and once (parts.tsx, Rankings.tsx).                                *)
THEOREM StillWalks ==
    ASSUME PageSize <= Cap
    PROVE  Spec => []StillWalkIsExact
<1>1. Init => StillInv
  <2>1. Idle \notin Walks
    BY DEF Idle, Walks
  <2> QED
    BY <2>1 DEF Init, StillInv
<1>2. StoreInv /\ ReaderInv /\ StillInv /\ [Next]_vars => StillInv'
  BY StillSteps
<1>3. StoreInv /\ ReaderInv /\ StillInv => StillWalkIsExact
  BY StillEnds
<1> QED
  BY <1>1, <1>2, <1>3, StoreIsTyped, ReaderIsTyped, PTL DEF Spec

-----------------------------------------------------------------------------
(* A walk under ingestion: what a landing does to the places in a listing.  *)

NoLess(u, v) == Len(u) = Len(v) /\ \A i \in 1 .. Len(u) : u[i] <= v[i]

LEMMA NoLessOrders ==
    ASSUME NEW u \in Seq(Nat), NEW v \in Seq(Nat), NEW w \in Seq(Nat), NoLess(u, v), NoLess(v, w)
    PROVE  NoLess(u, w) /\ (u = w => u = v)
<1>1. Len(u) = Len(v) /\ Len(v) = Len(w) /\ Len(u) \in Nat
  BY DEF NoLess
<1>2. ASSUME NEW i \in 1 .. Len(u)
      PROVE  u[i] <= w[i] /\ (u[i] = w[i] => u[i] = v[i])
  <2>1. u[i] <= v[i] /\ v[i] <= w[i]
    BY <1>1 DEF NoLess
  <2>2. u[i] \in Nat /\ v[i] \in Nat /\ w[i] \in Nat
    BY <1>1
  <2> QED
    BY <2>1, <2>2
<1>3. ASSUME u = w PROVE u = v
  <2>1. \A i \in 1 .. Len(u) : u[i] = v[i]
    BY <1>2, <1>3
  <2> QED
    BY <1>1, <2>1
<1> QED
  BY <1>1, <1>2, <1>3 DEF NoLess

Fuller ==
    /\ DOMAIN store \subseteq DOMAIN store'
    /\ \A c : At(store, c) \in Nat /\ At(store', c) \in Nat /\ At(store, c) <= At(store', c)

LEMMA ApplyIsFuller ==
    ASSUME StoreInv, NEW b, NEW from, Apply(b, from),
           Left(b, from) \in Seq(RealAdditions(Cells(NamesSeen)))
    PROVE  Fuller
<1>1. /\ Holds(store', Cells(NamesSeen)) /\ NonZero(store') = DOMAIN store'
      /\ merged' = merged
      /\ \A C : HeldIn(store', C) = HeldIn(store, C) + AddedTo(Left(b, from), C)
      /\ DOMAIN store \subseteq DOMAIN store'
      /\ \A c : At(store', c) = At(store, c) + AddedTo(Left(b, from), {c})
  BY ApplyAdds
<1>2. Left(b, from) \in Seq(Additions(Cells(NamesSeen)))
  BY RealAreAdditions
<1>3. ASSUME NEW c
      PROVE  At(store, c) \in Nat /\ At(store', c) \in Nat /\ At(store, c) <= At(store', c)
  <2>1. PICK n : n = AddedTo(Left(b, from), {c})
    OBVIOUS
  <2>2. n \in Nat
    BY <1>2, <2>1, CountsAreNaturals
  <2>3. PICK k : k = At(store, c)
    OBVIOUS
  <2>4. k \in Nat
    BY <2>3, AtIsHeld DEF StoreInv
  <2>5. At(store', c) = k + n
    BY <1>1, <2>1, <2>3
  <2> QED
    BY <2>2, <2>3, <2>4, <2>5
<1> QED
  BY <1>1, <1>3 DEF Fuller

SubjectKinds == {"top", "peers", "dur", "sms"}

LEMMA SubjectsAreOfAKind ==
    ASSUME NEW subject \in Subjects
    PROVE  subject[1] \in SubjectKinds
BY ReportsAssumption DEF SubjectKinds

LEMMA FullerLists ==
    ASSUME Holds(store, Cells(NamesSeen)), Holds(store', Cells(NamesSeen)), Fuller,
           NEW subject \in Subjects, NEW m \in Listed(subject)
    PROVE  /\ m \in Listed(subject)'
           /\ NoLess(ListedWith(subject, m), ListedWith(subject, m)')
           /\ ListedWith(subject, m)' \in Seq(Nat)
<1>1. m \in Listed(subject)'
  <2>1. CASE subject[1] = "top"
    BY <2>1 DEF Listed, OnBoard, Fuller
  <2>2. CASE subject[1] # "top"
    BY <2>2 DEF Listed, Peers, Hash, Fuller
  <2> QED
    BY <2>1, <2>2
<1>2. CASE subject[1] = "top"
  <2>1. PICK c : c = Score(subject[2], m)
    OBVIOUS
  <2>2. c \in DOMAIN store
    BY <1>2, <2>1, ScoresAreKept DEF Listed
  <2>3. store[c] = At(store, c) /\ store'[c] = At(store', c)
    BY <2>2 DEF Fuller, At
  <2>4. ListedWith(subject, m) = <<At(store, c)>> /\ ListedWith(subject, m)' = <<At(store', c)>>
    BY <1>2, <2>1, <2>3 DEF ListedWith
  <2>5. At(store, c) <= At(store', c) /\ At(store', c) \in Nat
    BY DEF Fuller
  <2>6. NoLess(<<At(store, c)>>, <<At(store', c)>>) /\ <<At(store', c)>> \in Seq(Nat)
    BY <2>5 DEF NoLess
  <2> QED
    BY <1>1, <2>4, <2>6
<1>3. CASE subject[1] = "peers"
  <2>1. ListedWith(subject, m) = <<>> /\ ListedWith(subject, m)' = <<>>
    BY <1>3 DEF ListedWith
  <2>2. NoLess(<<>>, <<>>) /\ <<>> \in Seq(Nat)
    BY DEF NoLess
  <2> QED
    BY <1>1, <2>1, <2>2
<1>4. CASE subject[1] \in {"dur", "sms"}
  <2>1. PICK c, d : c = Link(subject[2], m, "dur") /\ d = Link(subject[2], m, "sms")
    OBVIOUS
  <2>2. /\ ListedWith(subject, m) = <<At(store, c), At(store, d)>>
        /\ ListedWith(subject, m)' = <<At(store', c), At(store', d)>>
    BY <1>4, <2>1 DEF ListedWith, At
  <2>3. /\ At(store, c) <= At(store', c) /\ At(store, d) <= At(store', d)
        /\ At(store', c) \in Nat /\ At(store', d) \in Nat
    BY DEF Fuller
  <2>4. /\ NoLess(<<At(store, c), At(store, d)>>, <<At(store', c), At(store', d)>>)
        /\ <<At(store', c), At(store', d)>> \in Seq(Nat)
    BY <2>3 DEF NoLess
  <2> QED
    BY <1>1, <2>2, <2>4
<1> QED
  BY <1>2, <1>3, <1>4, SubjectsAreOfAKind DEF SubjectKinds

(* Whoever is ahead of a member whose weights stay, stays ahead of it.      *)
LEMMA AheadStaysAhead ==
    ASSUME Holds(store, Cells(NamesSeen)), Holds(store', Cells(NamesSeen)), Fuller,
           NEW subject \in Subjects, NEW m \in Listed(subject),
           ListedWith(subject, m)' = ListedWith(subject, m),
           NEW x \in Listed(subject), <<x, m>> \in Before(subject)
    PROVE  <<x, m>> \in Before(subject)'
<1>1. m \in Listed(subject)' /\ x \in Listed(subject)'
  BY FullerLists
<1>2. m \in Nat /\ x \in Nat
  BY ListedAreKnown, NamesAreNumbers
<1>3. CASE subject[1] = "top"
  <2>1. PICK c, d : c = Score(subject[2], x) /\ d = Score(subject[2], m)
    OBVIOUS
  <2>2. c \in DOMAIN store /\ d \in DOMAIN store
    BY <1>3, <2>1, ScoresAreKept DEF Listed
  <2>3. PICK w, v, wn, vn : /\ w = At(store, c) /\ v = At(store, d)
                            /\ wn = At(store', c) /\ vn = At(store', d)
    OBVIOUS
  <2>4. store[c] = w /\ store[d] = v /\ store'[c] = wn /\ store'[d] = vn
    BY <2>2, <2>3 DEF Fuller, At
  <2>5. w \in Nat /\ v \in Nat /\ wn \in Nat /\ vn \in Nat /\ w <= wn /\ v <= vn
    BY <2>3 DEF Fuller
  <2>6. vn = v
    BY <1>3, <2>1, <2>4 DEF ListedWith
  <2>7. w > v \/ (w = v /\ x > m)
    BY <1>3, <2>1, <2>4 DEF Before, Higher
  <2>8. wn > vn \/ (wn = vn /\ x > m)
    BY <1>2, <2>5, <2>6, <2>7
  <2>9. x \in OnBoard(subject[2])' /\ m \in OnBoard(subject[2])'
    BY <1>1, <1>3 DEF Listed
  <2> QED
    BY <1>3, <2>1, <2>4, <2>8, <2>9 DEF Before, Higher
<1>4. CASE subject[1] = "peers"
  <2>1. x < m
    BY <1>4 DEF Before
  <2>2. x \in Peers(subject[2])' /\ m \in Peers(subject[2])'
    BY <1>1, <1>4 DEF Listed
  <2> QED
    BY <1>4, <2>1, <2>2 DEF Before
<1>5. CASE subject[1] \in {"dur", "sms"}
  <2>1. PICK tie : tie = IF subject[1] = "dur" THEN "sms" ELSE "dur"
    OBVIOUS
  <2>2. PICK xw, xt, mw, mt :
            /\ xw = Link(subject[2], x, subject[1]) /\ xt = Link(subject[2], x, tie)
            /\ mw = Link(subject[2], m, subject[1]) /\ mt = Link(subject[2], m, tie)
    OBVIOUS
  <2>3. /\ At(store, xw) \in Nat /\ At(store', xw) \in Nat /\ At(store, xw) <= At(store', xw)
        /\ At(store, xt) \in Nat /\ At(store', xt) \in Nat /\ At(store, xt) <= At(store', xt)
        /\ At(store, mw) \in Nat /\ At(store', mw) \in Nat
        /\ At(store, mt) \in Nat /\ At(store', mt) \in Nat
    BY DEF Fuller
  <2>4. At(store', mw) = At(store, mw) /\ At(store', mt) = At(store, mt)
    <3>1. PICK c, d : c = Link(subject[2], m, "dur") /\ d = Link(subject[2], m, "sms")
      OBVIOUS
    <3>2. /\ ListedWith(subject, m) = <<At(store, c), At(store, d)>>
          /\ ListedWith(subject, m)' = <<At(store', c), At(store', d)>>
      BY <1>5, <3>1 DEF ListedWith, At
    <3>3. At(store', c) = At(store, c) /\ At(store', d) = At(store, d)
      BY <3>2
    <3>4. {mw, mt} = {c, d}
      BY <1>5, <2>1, <2>2, <3>1
    <3> QED
      BY <3>3, <3>4
  <2>5. \/ At(store, xw) > At(store, mw)
        \/ At(store, xw) = At(store, mw) /\ At(store, xt) > At(store, mt)
        \/ At(store, xw) = At(store, mw) /\ At(store, xt) = At(store, mt) /\ x < m
    BY <1>5, <2>1, <2>2 DEF Before, Heavier
  <2>6. \/ At(store', xw) > At(store', mw)
        \/ At(store', xw) = At(store', mw) /\ At(store', xt) > At(store', mt)
        \/ At(store', xw) = At(store', mw) /\ At(store', xt) = At(store', mt) /\ x < m
    BY <1>2, <2>3, <2>4, <2>5
  <2>7. x \in Peers(subject[2])' /\ m \in Peers(subject[2])'
    BY <1>1, <1>5 DEF Listed
  <2>8. <<x, m>> \in Heavier(subject[2], subject[1])'
    BY <2>1, <2>2, <2>6, <2>7 DEF Heavier, At
  <2>9. Before(subject)' = Heavier(subject[2], subject[1])'
    BY <1>5 DEF Before
  <2> QED
    BY <2>8, <2>9
<1> QED
  BY <1>3, <1>4, <1>5, SubjectsAreOfAKind DEF SubjectKinds

Rank(subject, m) == Place(Listed(subject), Before(subject), m)

LEMMA RanksAreNumbers ==
    ASSUME Holds(store, Cells(NamesSeen)), NEW subject \in Subjects, NEW m \in Listed(subject)
    PROVE  Rank(subject, m) \in Nat /\ Rank(subject, m) < Len(Listing(subject))
<1>1. PICK S, before, all : S = Listed(subject) /\ before = Before(subject) /\ all = Listing(subject)
  OBVIOUS
<1>2. Lists(all, S, before)
  BY <1>1, ListingLists
<1>3. IsFiniteSet(S) /\ StrictOrder(S, before)
  BY <1>1, ListedAreKnown, ListingsAreOrdered
<1>4. Place(S, before, m) \in 0 .. Cardinality(S) - 1 /\ Cardinality(S) \in Nat
  BY <1>1, <1>3, PlacesDiffer, FS_CardinalityType
<1>5. Len(all) = Cardinality(S)
  BY <1>2 DEF Lists
<1> QED
  BY <1>1, <1>4, <1>5 DEF Rank

LEMMA RankNeverFalls ==
    ASSUME Holds(store, Cells(NamesSeen)), Holds(store', Cells(NamesSeen)), Fuller,
           NEW subject \in Subjects, NEW m \in Listed(subject),
           ListedWith(subject, m)' = ListedWith(subject, m)
    PROVE  Rank(subject, m) <= Rank(subject, m)' /\ Rank(subject, m)' \in Nat
<1>1. PICK A, B : A = Ahead(Listed(subject), Before(subject), m)
                  /\ B = Ahead(Listed(subject), Before(subject), m)'
  OBVIOUS
<1>2. ASSUME NEW x \in A PROVE x \in B
  <2>1. x \in Listed(subject) /\ <<x, m>> \in Before(subject)
    BY <1>1, <1>2 DEF Ahead
  <2>2. x \in Listed(subject)' /\ <<x, m>> \in Before(subject)'
    BY <2>1, FullerLists, AheadStaysAhead
  <2> QED
    BY <1>1, <2>2 DEF Ahead
<1>3. IsFiniteSet(B)
  <2>1. \A c \in DOMAIN store' : c[1] \in {"top", "link"} => c[4] \in NamesSeen
    BY DEF Holds, Cells, FoldCells, TotalCells, TopCells
  <2>2. ASSUME NEW x \in Listed(subject)' PROVE x \in NamesSeen
    <3>1. PICK c \in DOMAIN store' : c[4] = x /\ c[1] \in {"top", "link"}
      BY <2>2 DEF Listed, OnBoard, Peers, Hash
    <3> QED
      BY <2>1, <3>1
  <2>3. B \subseteq NamesSeen
    BY <1>1, <2>2 DEF Ahead
  <2> QED
    BY <2>3, NamesAreFinite, FS_Subset
<1>4. Cardinality(A) <= Cardinality(B) /\ Cardinality(B) \in Nat
  <2>1. A \subseteq B
    BY <1>2
  <2> QED
    BY <1>3, <2>1, FS_Subset, FS_CardinalityType
<1>5. Rank(subject, m) = Cardinality(A) /\ Rank(subject, m)' = Cardinality(B)
  BY <1>1 DEF Rank, Place
<1> QED
  BY <1>4, <1>5

LEMMA OnItsPage ==
    ASSUME NEW S, NEW all \in Seq(S), NEW offset \in Nat, NEW limit \in Nat \ {0}, NEW i \in Nat,
           offset <= i, i < offset + limit, i < Len(all)
    PROVE  all[i + 1] \in ToSet(Page(all, offset, limit))
<1>1. PICK n \in Nat : n = Len(all)
  OBVIOUS
<1>2. PICK last \in Nat : last = offset + Smaller(limit, n - offset)
  <2>1. offset + Smaller(limit, n - offset) \in Nat
    BY <1>1 DEF Smaller
  <2> QED
    BY <2>1
<1>3. Page(all, offset, limit) = SubSeq(all, offset + 1, last)
  BY <1>1, <1>2 DEF Page
<1>4. last <= n /\ i < last
  BY <1>1, <1>2 DEF Smaller
<1>5. PICK page : page = SubSeq(all, offset + 1, last)
  OBVIOUS
<1>6. i + 1 - offset \in DOMAIN page /\ page[i + 1 - offset] = all[i + 1]
  BY <1>1, <1>4, <1>5
<1> QED
  BY <1>3, <1>5, <1>6 DEF ToSet

LEMMA BothShown ==
    ASSUME NEW S, NEW s \in Seq(S), NEW t \in Seq(S), NEW m, m \notin ToSet(s \o t)
    PROVE  m \notin ToSet(s) /\ m \notin ToSet(t)
<1>1. PICK both : both = s \o t
  OBVIOUS
<1>2. ASSUME NEW i \in DOMAIN s PROVE s[i] # m
  <2>1. i \in DOMAIN both /\ both[i] = s[i]
    BY <1>1
  <2> QED
    BY <1>1, <2>1 DEF ToSet
<1>3. ASSUME NEW i \in DOMAIN t PROVE t[i] # m
  <2>1. Len(s) + i \in DOMAIN both /\ both[Len(s) + i] = t[i]
    BY <1>1
  <2> QED
    BY <1>1, <2>1 DEF ToSet
<1> QED
  BY <1>2, <1>3 DEF ToSet

(* Where in the walk a member is due that was not shown yet: on the page    *)
(* that is asked for or behind it; and while a page is shown behind that    *)
(* one, which then is not the last.                                         *)
Due(r, rank, len) ==
    /\ r.phase \in {"ask", "counted"} => r.offset <= rank
    /\ r.phase = "counted" => r.count = len
    /\ r.phase = "shown" => r.offset + PageSize <= rank /\ r.offset + PageSize < r.count

Kept(r, s, m) ==
    /\ m \in Listed(s)
    /\ NoLess(r.at_start[m], ListedWith(s, m))
    /\ ~r.split /\ r.at_start[m] = ListedWith(s, m) /\ m \notin ToSet(r.shown) =>
           Due(r, Rank(s, m), Len(Listing(s)))

WalkInv ==
    \A s \in Subjects : reader \in Walks /\ reader.subject = s =>
        \A m \in DOMAIN reader.at_start : Kept(reader, s, m)

LEMMA LaterIsKept ==
    ASSUME NEW r, reader' = r,
           NEW s, r \in Walks => s = r.subject /\ \A m \in DOMAIN r.at_start : Kept(r, s, m)'
    PROVE  WalkInv'
<1> SUFFICES ASSUME r \in Walks, NEW m \in DOMAIN r.at_start PROVE Kept(reader, s, m)'
  BY DEF WalkInv, Walks, Weighed
<1>1. Kept(r, s, m)'
  OBVIOUS
<1> QED
  BY <1>1 DEF Kept, Due, NoLess

LEMMA SameIsKept ==
    ASSUME store' = store, NEW r, NEW s, NEW m
    PROVE  Kept(r, s, m)' <=> Kept(r, s, m)
<1>1. Listing(s)' = Listing(s)
  BY SameListing
<1>2. Listed(s)' = Listed(s) /\ Before(s)' = Before(s) /\ ListedWith(s, m)' = ListedWith(s, m)
  BY DEF Listed, ListedWith, Before, OnBoard, Higher, Peers, Hash, Heavier, At
<1>3. Rank(s, m)' = Rank(s, m)
  BY <1>2 DEF Rank, Place, Ahead
<1> QED
  BY <1>1, <1>2, <1>3 DEF Kept, Due, NoLess

(* A step that lands nothing.                                               *)
LEMMA QuietIsKept ==
    ASSUME WalkInv, NEW r \in Walks, Moves(r), r.at_start = reader.at_start,
           NEW s \in Subjects, r.subject = s, reader.subject = s, r.split = reader.split,
           ToSet(reader.shown) \subseteq ToSet(r.shown),
           \A m \in Listed(s) :
               m \notin ToSet(r.shown) /\ Due(reader, Rank(s, m), Len(Listing(s)))
                   => Due(r, Rank(s, m), Len(Listing(s)))
    PROVE  WalkInv'
<1>1. reader' = r /\ store' = store /\ reader \in Walks
  BY DEF Moves
<1>2. ASSUME NEW m \in DOMAIN r.at_start PROVE Kept(r, s, m)
  <2>1. Kept(reader, s, m)
    BY <1>1, <1>2 DEF WalkInv
  <2> QED
    BY <2>1 DEF Kept
<1>3. \A m \in DOMAIN r.at_start : Kept(r, s, m)'
  BY <1>1, <1>2, SameIsKept
<1> QED
  BY <1>1, <1>3, LaterIsKept

(* A landing: whoever has grown is no more asked about, whoever has not is  *)
(* no nearer to the front.                                                  *)
LEMMA LandingIsKept ==
    ASSUME WalkInv, StoreInv, Holds(store', Cells(NamesSeen)), Fuller,
           reader \in Walks, reader' = Stirred
    PROVE  WalkInv'
<1>1. PICK r : r = reader'
  OBVIOUS
<1>2. PICK s \in Subjects : s = reader.subject
  BY DEF Walks
<1>3. /\ r \in Walks /\ r.phase = reader.phase /\ r.subject = s /\ r.offset = reader.offset
      /\ r.count = reader.count /\ r.shown = reader.shown /\ r.at_start = reader.at_start
      /\ r.split = (reader.split \/ reader.phase = "counted")
  BY <1>1, <1>2, StirredIsNoted
<1>4. Holds(store, Cells(NamesSeen))
  BY DEF StoreInv
<1>5. ASSUME NEW m \in DOMAIN r.at_start PROVE Kept(r, s, m)'
  <2>1. Kept(reader, s, m)
    BY <1>2, <1>3, <1>5 DEF WalkInv
  <2>2. m \in Listed(s) /\ NoLess(r.at_start[m], ListedWith(s, m))
    BY <1>3, <2>1 DEF Kept
  <2>3. PICK u, v, w : u = r.at_start[m] /\ v = ListedWith(s, m) /\ w = ListedWith(s, m)'
    OBVIOUS
  <2>4. u \in Seq(Nat) /\ v \in Seq(Nat) /\ w \in Seq(Nat)
    <3>1. v \in Seq(Nat)
      BY <1>4, <2>2, <2>3, WeightsAreNumbers
    <3>2. w \in Seq(Nat)
      BY <1>4, <2>2, <2>3, FullerLists
    <3>3. u \in Seq(Nat)
      <4>1. r.at_start \in Weighed
        BY <1>3 DEF Walks
      <4>2. PICK S : r.at_start \in [S -> Seq(Nat)]
        BY <4>1 DEF Weighed
      <4> QED
        BY <1>5, <2>3, <4>2
    <3> QED
      BY <3>1, <3>2, <3>3
  <2>5. m \in Listed(s)' /\ NoLess(v, w)
    BY <1>4, <2>2, <2>3, FullerLists
  <2>6. NoLess(u, w) /\ (u = w => u = v)
    <3>1. NoLess(u, v)
      BY <2>2, <2>3
    <3> QED
      BY <2>4, <2>5, <3>1, NoLessOrders
  <2>7. ASSUME ~r.split, u = w, m \notin ToSet(r.shown)
        PROVE  Due(r, Rank(s, m)', Len(Listing(s)'))
    <3>1. v = w /\ reader.at_start[m] = ListedWith(s, m)
      BY <1>3, <2>3, <2>6, <2>7
    <3>2. ~reader.split /\ reader.phase # "counted"
      BY <1>3, <2>7 DEF Walks
    <3>3. Due(reader, Rank(s, m), Len(Listing(s)))
      BY <1>3, <2>1, <2>7, <3>1, <3>2 DEF Kept
    <3>4. PICK k \in Nat, n \in Nat : k = Rank(s, m) /\ n = Rank(s, m)' /\ k <= n
      BY <1>4, <2>2, <2>3, <3>1, RanksAreNumbers, RankNeverFalls
    <3>5. PICK offset \in Nat : offset = reader.offset
      BY DEF Walks
    <3>6. PageSize \in Nat
      BY SizesAreNumbers
    <3>7. reader.phase = "ask" => offset <= n
      BY <3>3, <3>4, <3>5 DEF Due
    <3>8. reader.phase = "shown" => offset + PageSize <= n /\ offset + PageSize < reader.count
      BY <3>3, <3>4, <3>5, <3>6 DEF Due
    <3> QED
      BY <1>3, <3>2, <3>4, <3>5, <3>7, <3>8 DEF Due
  <2> QED
    BY <2>3, <2>5, <2>6, <2>7 DEF Kept, Due, NoLess
<1> QED
  BY <1>1, <1>3, <1>5, LaterIsKept

LEMMA OpenIsKept ==
    ASSUME StoreInv, NEW s \in Subjects, Open(s)
    PROVE  WalkInv'
<1>1. PICK r : r = reader'
  OBVIOUS
<1>2. PICK w : w = [m \in ToSet(Listing(s)) |-> ListedWith(s, m)]
  OBVIOUS
<1>3. /\ r = [phase |-> "ask", subject |-> s, offset |-> 0, count |-> 0, shown |-> <<>>,
              at_start |-> w, stirred |-> FALSE, split |-> FALSE]
      /\ store' = store
  BY <1>1, <1>2 DEF Open
<1>4. Holds(store, Cells(NamesSeen))
  BY DEF StoreInv
<1>5. ASSUME NEW m \in DOMAIN w PROVE Kept(r, s, m)
  <2>1. m \in Listed(s) /\ w[m] = ListedWith(s, m)
    BY <1>2, <1>4, <1>5, ListingShows
  <2>2. ListedWith(s, m) \in Seq(Nat)
    BY <1>4, <2>1, WeightsAreNumbers
  <2>3. NoLess(ListedWith(s, m), ListedWith(s, m))
    <3>1. PICK u \in Seq(Nat) : u = ListedWith(s, m)
      BY <2>2
    <3>2. \A i \in 1 .. Len(u) : u[i] <= u[i]
      OBVIOUS
    <3> QED
      BY <3>1, <3>2 DEF NoLess
  <2>4. Rank(s, m) \in Nat
    BY <1>4, <2>1, RanksAreNumbers
  <2>5. Due(r, Rank(s, m), Len(Listing(s)))
    BY <1>3, <2>4 DEF Due
  <2> QED
    BY <1>3, <2>1, <2>3, <2>5 DEF Kept
<1>6. r.subject = s /\ r.at_start = w
  BY <1>3
<1>7. \A m \in DOMAIN r.at_start : Kept(r, s, m)'
  BY <1>3, <1>5, <1>6, SameIsKept
<1> QED
  BY <1>1, <1>6, <1>7, LaterIsKept

(* The page that is shown.                                                  *)
LEMMA PageIsKept ==
    ASSUME PageSize <= Cap, WalkInv, StoreInv, reader \in Walks, reader.phase \in {"ask", "counted"},
           NEW count \in Nat,
           \/ reader.phase = "counted" /\ count = reader.count
           \/ reader.phase = "ask" /\ count = Len(Listing(reader.subject)),
           Moves([reader EXCEPT !.phase = "shown", !.count = count,
                                !.shown = @ \o Page(Listing(reader.subject), reader.offset, PageLimit)])
    PROVE  WalkInv'
<1>1. PICK s \in Subjects : s = reader.subject
  BY DEF Walks
<1>2. PICK all : all = Listing(s)
  OBVIOUS
<1>3. PICK offset \in Nat : offset = reader.offset
  BY DEF Walks
<1>4. PageSize \in Nat \ {0} /\ PageLimit = PageSize
  BY SizesAreNumbers
<1>5. PICK page : page = Page(all, offset, PageSize)
  OBVIOUS
<1>6. all \in Seq(NamesSeen) /\ Len(all) \in Nat /\ Holds(store, Cells(NamesSeen))
  <2>1. Holds(store, Cells(NamesSeen))
    BY DEF StoreInv
  <2>2. all \in Seq(NamesSeen)
    BY <1>2, <2>1, ListingLists
  <2> QED
    BY <2>1, <2>2
<1>7. page \in Seq(NamesSeen)
  BY <1>4, <1>5, <1>6, PagesArePart
<1>8. PICK r : r = [reader EXCEPT !.phase = "shown", !.count = count, !.shown = @ \o page]
  OBVIOUS
<1>9. Moves(r)
  BY <1>1, <1>2, <1>3, <1>4, <1>5, <1>8
<1>10. reader.shown \in Seq(NamesSeen)
  BY DEF Walks
<1>11. reader.shown \o page \in Seq(NamesSeen)
  BY <1>7, <1>10
<1>12. r \in Walks
  BY <1>8, <1>11 DEF Walks
<1>13. /\ r.phase = "shown" /\ r.count = count /\ r.offset = offset /\ r.shown = reader.shown \o page
       /\ r.at_start = reader.at_start /\ r.subject = s /\ r.split = reader.split
  BY <1>1, <1>3, <1>8 DEF Walks
<1>14. ToSet(reader.shown) \subseteq ToSet(r.shown)
  BY <1>7, <1>10, <1>13, BothShown
<1>15. ASSUME NEW m \in Listed(s), m \notin ToSet(r.shown), Due(reader, Rank(s, m), Len(Listing(s)))
       PROVE  Due(r, Rank(s, m), Len(Listing(s)))
  <2>1. m \notin ToSet(page)
    BY <1>7, <1>10, <1>13, <1>15, BothShown
  <2>2. PICK i \in Nat : i = Rank(s, m) /\ i < Len(all)
    BY <1>2, <1>6, RanksAreNumbers
  <2>3. all[i + 1] = m
    <3>1. Lists(all, Listed(s), Before(s))
      BY <1>2, <1>6, ListingLists
    <3>2. all[Place(Listed(s), Before(s), m) + 1] = m
      BY <3>1 DEF Lists
    <3> QED
      BY <2>2, <3>2 DEF Rank
  <2>4. offset <= i
    BY <1>3, <1>15, <2>2 DEF Due
  <2>5. ~(i < offset + PageSize)
    BY <1>4, <1>5, <1>6, <2>1, <2>2, <2>3, <2>4, OnItsPage
  <2>6. count = Len(all)
    BY <1>1, <1>2, <1>15 DEF Due
  <2>7. offset + PageSize <= i /\ offset + PageSize < count
    BY <1>4, <1>6, <2>2, <2>5, <2>6
  <2> QED
    BY <1>13, <2>2, <2>7 DEF Due
<1> QED
  BY <1>1, <1>9, <1>12, <1>13, <1>14, <1>15, QuietIsKept

LEMMA NextIsKept ==
    ASSUME WalkInv, StoreInv, reader \in Walks, reader.phase = "shown",
           reader.offset < LastOffset(reader.count, PageSize),
           Moves([reader EXCEPT !.phase = "ask", !.offset = NextOffset(reader.offset, reader.count, PageSize)])
    PROVE  WalkInv'
<1>1. PICK s \in Subjects : s = reader.subject
  BY DEF Walks
<1>2. PICK offset \in Nat, count \in Nat : offset = reader.offset /\ count = reader.count
  BY DEF Walks
<1>3. PICK next : next = NextOffset(offset, count, PageSize)
  OBVIOUS
<1>4. next \in Nat /\ next <= offset + PageSize
  BY <1>2, <1>3, NextIsBounded
<1>5. PICK r : r = [reader EXCEPT !.phase = "ask", !.offset = next]
  OBVIOUS
<1>6. Moves(r)
  BY <1>2, <1>3, <1>5
<1>7. r \in Walks
  BY <1>4, <1>5 DEF Walks
<1>8. /\ r.phase = "ask" /\ r.offset = next /\ r.shown = reader.shown
      /\ r.at_start = reader.at_start /\ r.subject = s /\ r.split = reader.split
  BY <1>1, <1>5 DEF Walks
<1>9. ASSUME NEW m \in Listed(s), Due(reader, Rank(s, m), Len(Listing(s)))
      PROVE  Due(r, Rank(s, m), Len(Listing(s)))
  <2>1. PICK i \in Nat : i = Rank(s, m)
    BY RanksAreNumbers DEF StoreInv
  <2>2. offset + PageSize <= i
    BY <1>2, <1>9, <2>1 DEF Due
  <2>3. PageSize \in Nat
    BY SizesAreNumbers
  <2>4. next <= i
    BY <1>4, <2>2, <2>3
  <2> QED
    BY <1>8, <2>1, <2>4 DEF Due
<1> QED
  BY <1>1, <1>6, <1>7, <1>8, <1>9, QuietIsKept

(* The size of a board, and a lost connection behind it.                    *)
LEMMA CountIsKept ==
    ASSUME WalkInv, StoreInv, reader \in Walks, reader.phase = "ask",
           Moves([reader EXCEPT !.phase = "counted", !.count = Len(Listing(reader.subject))])
    PROVE  WalkInv'
<1>1. PICK s \in Subjects : s = reader.subject
  BY DEF Walks
<1>2. PICK n : n = Len(Listing(s))
  OBVIOUS
<1>3. n \in Nat
  <2>1. Listing(s) \in Seq(NamesSeen)
    BY ListingLists DEF StoreInv
  <2> QED
    BY <1>2, <2>1
<1>4. PICK r : r = [reader EXCEPT !.phase = "counted", !.count = n]
  OBVIOUS
<1>5. Moves(r)
  BY <1>1, <1>2, <1>4
<1>6. r \in Walks
  BY <1>3, <1>4 DEF Walks
<1>7. /\ r.phase = "counted" /\ r.count = n /\ r.offset = reader.offset /\ r.shown = reader.shown
      /\ r.at_start = reader.at_start /\ r.subject = s /\ r.split = reader.split
  BY <1>1, <1>4 DEF Walks
<1>8. ASSUME NEW m \in Listed(s), Due(reader, Rank(s, m), Len(Listing(s)))
      PROVE  Due(r, Rank(s, m), Len(Listing(s)))
  BY <1>2, <1>7, <1>8 DEF Due
<1> QED
  BY <1>1, <1>5, <1>6, <1>7, <1>8, QuietIsKept

LEMMA FailIsKept ==
    ASSUME WalkInv, reader \in Walks, reader.phase = "counted", Moves([reader EXCEPT !.phase = "ask"])
    PROVE  WalkInv'
<1>1. PICK s \in Subjects : s = reader.subject
  BY DEF Walks
<1>2. PICK r : r = [reader EXCEPT !.phase = "ask"]
  OBVIOUS
<1>3. r \in Walks
  BY <1>2 DEF Walks
<1>4. /\ r.phase = "ask" /\ r.offset = reader.offset /\ r.shown = reader.shown
      /\ r.at_start = reader.at_start /\ r.subject = s /\ r.split = reader.split
  BY <1>1, <1>2 DEF Walks
<1>5. ASSUME NEW m \in Listed(s), Due(reader, Rank(s, m), Len(Listing(s)))
      PROVE  Due(r, Rank(s, m), Len(Listing(s)))
  BY <1>4, <1>5 DEF Due
<1> QED
  BY <1>1, <1>2, <1>3, <1>4, <1>5, QuietIsKept

LEMMA WalkIsKept ==
    ASSUME PageSize <= Cap
    PROVE  StoreInv /\ ReaderInv /\ WalkInv /\ [Next]_vars => WalkInv'
<1> SUFFICES ASSUME StoreInv, ReaderInv, WalkInv, [Next]_vars PROVE WalkInv'
  OBVIOUS
<1>1. CASE reader' = reader /\ store' = store
  <2>1. CASE reader \in Walks
    <3>1. PICK s, r : s \in Subjects /\ s = reader.subject /\ r = reader
      BY <2>1 DEF Walks
    <3>2. Moves(r)
      BY <1>1, <2>1, <3>1 DEF Moves
    <3> QED
      BY <2>1, <3>1, <3>2, QuietIsKept
  <2>2. CASE reader \notin Walks
    <3>1. PICK r, s : r = reader /\ s = reader.subject
      OBVIOUS
    <3> QED
      BY <1>1, <2>2, <3>1, LaterIsKept
  <2> QED
    BY <2>1, <2>2
<1>2. CASE reader' = Idle
  <2>1. Idle \notin Walks
    BY DEF Idle, Walks
  <2> QED
    BY <1>2, <2>1, LaterIsKept
<1>3. ASSUME reader \in Walks, reader' = Stirred, NEW from, NEW b, Apply(b, from),
             Left(b, from) \in Seq(RealAdditions(Cells(NamesSeen)))
      PROVE  WalkInv'
  <2>1. Fuller
    BY <1>3, ApplyIsFuller
  <2>2. /\ Holds(store', Cells(NamesSeen)) /\ NonZero(store') = DOMAIN store'
        /\ merged' = merged
        /\ \A C : HeldIn(store', C) = HeldIn(store, C) + AddedTo(Left(b, from), C)
    BY <1>3, ApplyAdds
  <2> QED
    BY <1>3, <2>1, <2>2, LandingIsKept
<1>4. ASSUME NEW subject \in Subjects, Open(subject) PROVE WalkInv'
  BY <1>4, OpenIsKept
<1>5. ASSUME Moves([reader EXCEPT !.phase = "counted", !.count = Len(Listing(reader.subject))]),
             reader.phase = "ask"
      PROVE  WalkInv'
  BY <1>5, CountIsKept DEF Moves
<1>6. ASSUME NEW count, Moves([reader EXCEPT !.phase = "shown", !.count = count,
                               !.shown = @ \o Page(Listing(reader.subject), reader.offset, PageLimit)]),
             \/ reader.phase = "counted" /\ count = reader.count
             \/ reader.phase = "ask" /\ count = Len(Listing(reader.subject))
      PROVE  WalkInv'
  <2>1. reader \in Walks
    BY <1>6 DEF Moves
  <2>2. reader.subject \in Subjects /\ reader.count \in Nat
    BY <2>1 DEF Walks
  <2>3. Listing(reader.subject) \in Seq(NamesSeen)
    BY <2>2, ListingLists DEF StoreInv
  <2>4. count \in Nat
    BY <1>6, <2>2, <2>3
  <2> QED
    BY <1>6, <2>1, <2>4, PageIsKept
<1>7. ASSUME Moves([reader EXCEPT !.phase = "ask"]), reader.phase = "counted" PROVE WalkInv'
  BY <1>7, FailIsKept DEF Moves
<1>8. ASSUME Moves([reader EXCEPT !.phase = "ask",
                                  !.offset = NextOffset(reader.offset, reader.count, PageSize)]),
             reader.phase = "shown", reader.offset < LastOffset(reader.count, PageSize)
      PROVE  WalkInv'
  BY <1>8, NextIsKept DEF Moves
<1> QED
  BY <1>1, <1>2, <1>3, <1>4, <1>5, <1>6, <1>7, <1>8, WalkSteps

LEMMA WalkEnds ==
    ASSUME StoreInv, ReaderInv, WalkInv
    PROVE  WalkMissesNoStayer
<1> SUFFICES ASSUME AtEnd, ~reader.split, NEW m \in DOMAIN reader.at_start,
                    reader.at_start[m] = ListedWith(reader.subject, m), m \notin ToSet(reader.shown)
             PROVE  FALSE
  BY DEF WalkMissesNoStayer
<1>1. reader \in Walks /\ reader.phase = "shown"
  BY DEF AtEnd, ReaderInv, Idle
<1>2. PICK s \in Subjects : s = reader.subject
  BY <1>1 DEF Walks
<1>3. Kept(reader, s, m)
  BY <1>1, <1>2 DEF WalkInv
<1>4. Due(reader, Rank(s, m), Len(Listing(s)))
  BY <1>2, <1>3 DEF Kept
<1>5. PICK offset \in Nat, count \in Nat : offset = reader.offset /\ count = reader.count
  BY <1>1 DEF Walks
<1>6. offset + PageSize < count /\ offset >= LastOffset(count, PageSize)
  BY <1>1, <1>4, <1>5 DEF Due, AtEnd
<1>7. PageSize \in Nat \ {0} /\ count # 0
  BY <1>6, SizesAreNumbers
<1>8. PICK q \in Nat : LastOffset(count, PageSize) = q * PageSize /\ count <= q * PageSize + PageSize
  BY <1>7, LastStartsOnPage
<1>9. q * PageSize \in Nat
  BY <1>7
<1> QED
  BY <1>6, <1>7, <1>8, <1>9

(* As long as the gateway serves the page size of the browser's settings    *)
(* whole, a walk under ingestion misses nobody who was listed at its start  *)
(* and did not grow, unless a batch landed between the size of a board and  *)
(* its page (redis_query.cpp:144).                                          *)
THEOREM StayersAreShown ==
    ASSUME PageSize <= Cap
    PROVE  Spec => []WalkMissesNoStayer
<1>1. Init => WalkInv
  <2>1. Idle \notin Walks
    BY DEF Idle, Walks
  <2> QED
    BY <2>1 DEF Init, WalkInv
<1>2. StoreInv /\ ReaderInv /\ WalkInv /\ [Next]_vars => WalkInv'
  BY WalkIsKept
<1>3. StoreInv /\ ReaderInv /\ WalkInv => WalkMissesNoStayer
  BY WalkEnds
<1> QED
  BY <1>1, <1>2, <1>3, StoreIsTyped, ReaderIsTyped, PTL DEF Spec
=============================================================================
