------------------------- MODULE MissionEventsProofs -------------------------
(***************************************************************************)
(* Theorems about MissionEvents for every size of a segment, every limit   *)
(* on what is retained, and every bound.                                   *)
(***************************************************************************)
EXTENDS MissionEvents, FiniteSetTheorems, SequenceTheorems, WellFoundedInduction, TLAPS

-----------------------------------------------------------------------------
(* Least and greatest numbers *)

\* Min is the least element (the numbers are well-founded).
LEMMA MinOf ==
    ASSUME NEW S \in SUBSET Nat, S # {}
    PROVE  Min(S) \in S /\ \A x \in S : Min(S) <= x
<1> DEFINE R == {ss \in Nat \X Nat : ss[1] < ss[2]}
<1>1. IsWellFoundedOn(R, Nat)
  BY NatLessThanWellFounded DEF OpToRel
<1>2. PICK x \in S : \A y \in S : ~(<<y, x>> \in R)
  <2> HIDE DEF R
  <2> QED BY <1>1, WFMin
<1>3. ASSUME NEW y \in S PROVE x <= y
  <2>1. <<y, x>> \in Nat \X Nat /\ ~(<<y, x>>[1] < <<y, x>>[2])
    BY <1>2
  <2> QED BY <2>1
<1> QED BY <1>3 DEF Min

\* Max is the greatest element of a bounded set.
LEMMA MaxOf ==
    ASSUME NEW n \in Nat, NEW S \in SUBSET (0 .. n), S # {}
    PROVE  Max(S) \in S /\ \A x \in S : x <= Max(S)
<1> DEFINE T == {n - x : x \in S}
<1>1. T \in SUBSET Nat /\ T # {}
  <2>1. \A x \in S : n - x \in Nat OBVIOUS
  <2> QED BY <2>1
<1>2. Min(T) \in T /\ \A x \in T : Min(T) <= x
  BY <1>1, MinOf
<1>3. PICK m \in S : Min(T) = n - m
  BY <1>2
<1>4. \A x \in S : x <= m
  <2> TAKE x \in S
  <2>1. n - m <= n - x BY <1>2, <1>3
  <2> QED BY <2>1
<1> QED BY <1>3, <1>4 DEF Max

-----------------------------------------------------------------------------
(* Lists of directives *)

\* Ascending lists each element once, at the place that its rank gives it.
LEMMA AscendingIs ==
    ASSUME NEW S \in SUBSET Nat, IsFiniteSet(S)
    PROVE  /\ Cardinality(S) \in Nat
           /\ \A i \in 1 .. Cardinality(S) :
                /\ Ascending(S)[i] \in S
                /\ Cardinality({m \in S : m <= Ascending(S)[i]}) = i
           /\ \A x \in S : \E i \in 1 .. Cardinality(S) : Ascending(S)[i] = x
<1> DEFINE upTo(x) == {m \in S : m <= x}
           rank == [x \in S |-> Cardinality(upTo(x))]
           n == Cardinality(S)
<1>1. n \in Nat BY FS_CardinalityType
<1>2. ASSUME NEW x \in S
      PROVE  IsFiniteSet(upTo(x)) /\ Cardinality(upTo(x)) \in 1 .. n
  <2>1. IsFiniteSet(upTo(x)) /\ Cardinality(upTo(x)) <= n BY FS_Subset
  <2>2. Cardinality(upTo(x)) \in Nat /\ (Cardinality(upTo(x)) = 0 <=> upTo(x) = {})
    BY <2>1, FS_CardinalityType, FS_EmptySet
  <2>3. x \in upTo(x) OBVIOUS
  <2> QED BY <1>1, <2>1, <2>2, <2>3
<1>3. ASSUME NEW x \in S, NEW y \in S, Cardinality(upTo(x)) = Cardinality(upTo(y)), x < y
      PROVE  FALSE
  <2>1. upTo(x) \in SUBSET upTo(y)
    <3>1. \A m \in S : m <= x => m <= y BY <1>3
    <3> QED BY <3>1
  <2>2. y \in upTo(y) /\ y \notin upTo(x) BY <1>3
  <2> HIDE DEF upTo
  <2>3. upTo(x) = upTo(y) BY <1>2, <1>3, <2>1, FS_Subset
  <2> QED BY <2>2, <2>3
<1>4. rank \in Injection(S, 1 .. n)
  <2>1. rank \in [S -> 1 .. n] BY <1>2
  <2>2. ASSUME NEW x \in S, NEW y \in S, rank[x] = rank[y] PROVE x = y
    BY <1>3, <2>2
  <2> QED BY <2>1, <2>2 DEF Injection, IsInjective
<1>5. IsFiniteSet(1 .. n) /\ Cardinality(1 .. n) = n BY <1>1, FS_Interval
<1>6. rank \in Surjection(S, 1 .. n) BY <1>4, <1>5, FS_Injection
<1>7. ASSUME NEW i \in 1 .. n PROVE \E x \in S : Cardinality(upTo(x)) = i
  BY <1>6 DEF Surjection
<1>8. ASSUME NEW i \in 1 .. n
      PROVE  Ascending(S)[i] \in S /\ Cardinality(upTo(Ascending(S)[i])) = i
  BY <1>7 DEF Ascending
<1>9. ASSUME NEW x \in S PROVE \E i \in 1 .. n : Ascending(S)[i] = x
  <2>1. rank[x] \in 1 .. n BY <1>2
  <2>2. Cardinality(upTo(Ascending(S)[rank[x]])) = Cardinality(upTo(x)) /\ Ascending(S)[rank[x]] \in S
    BY <1>8, <2>1
  <2> DEFINE y == Ascending(S)[rank[x]]
  <2>3. y \in S /\ Cardinality(upTo(y)) = Cardinality(upTo(x)) BY <2>2
  <2> HIDE DEF y, upTo
  <2>4. ~(x < y) /\ ~(y < x) BY <1>3, <2>3
  <2>5. y = x BY <2>3, <2>4
  <2> QED BY <2>1, <2>5 DEF y
<1> QED BY <1>1, <1>8, <1>9

\* All places in order are the list itself.
LEMMA PickedIs ==
    ASSUME NEW T, NEW list \in Seq(T), NEW places \in SUBSET DOMAIN list
    PROVE  /\ Picked(list, places) \in Seq(T)
           /\ places = DOMAIN list => Picked(list, places) = list
<1>1. IsFiniteSet(DOMAIN list) /\ IsFiniteSet(places) /\ places \in SUBSET Nat
  <2>1. DOMAIN list = 1 .. Len(list) /\ Len(list) \in Nat OBVIOUS
  <2>2. IsFiniteSet(1 .. Len(list)) BY <2>1, FS_Interval
  <2>3. 1 .. Len(list) \in SUBSET Nat BY <2>1
  <2> QED BY <2>1, <2>2, <2>3, FS_Subset
<1>2. Cardinality(places) \in Nat /\ \A i \in 1 .. Cardinality(places) : Ascending(places)[i] \in places
  BY <1>1, AscendingIs
<1>3. \A i \in 1 .. Cardinality(places) : list[Ascending(places)[i]] \in T
  BY <1>2
<1>4. CASE places = DOMAIN list
  <2> DEFINE n == Len(list)
  <2>1. n \in Nat /\ places = 1 .. n BY <1>4
  <2> HIDE DEF n
  <2>2. Cardinality(places) = n BY <2>1, FS_Interval
  <2>3. ASSUME NEW i \in 1 .. n PROVE Ascending(places)[i] = i
    <3> DEFINE a == Ascending(places)[i]
    <3>1. a \in 1 .. n /\ Cardinality({m \in places : m <= a}) = i
      BY <1>1, <2>1, <2>2, AscendingIs
    <3> HIDE DEF a
    <3>2. {m \in places : m <= a} = 1 .. a BY <2>1, <3>1
    <3>3. Cardinality(1 .. a) = a BY <2>1, <3>1, FS_Interval
    <3> QED BY <3>1, <3>2, <3>3 DEF a
  <2>4. Picked(list, places) = [i \in 1 .. n |-> list[i]]
    BY <2>2, <2>3 DEF Picked
  <2>5. list = [i \in 1 .. n |-> list[i]] BY DEF n
  <2> QED BY <2>4, <2>5
<1> QED BY <1>2, <1>3, <1>4 DEF Picked

\* Latest cuts a list to its last DirectiveLimit elements.
LEMMA LatestIs ==
    ASSUME NEW T, NEW list \in Seq(T), NEW drop \in Nat,
           drop = IF Len(list) > DirectiveLimit THEN Len(list) - DirectiveLimit ELSE 0
    PROVE  /\ Latest(list) \in Seq(T)
           /\ Len(Latest(list)) = Len(list) - drop
           /\ \A i \in 1 .. Len(list) - drop : Latest(list)[i] = list[i + drop]
           /\ Len(Latest(list)) <= DirectiveLimit
<1>1. DirectiveLimit \in Nat \ {0} BY PageAssumption
<1>2. CASE Len(list) > DirectiveLimit
  <2> DEFINE n == Len(list)
             tail == SubSeq(list, drop + 1, n)
  <2>1. n \in Nat /\ drop \in 1 .. n /\ drop = n - DirectiveLimit /\ Latest(list) = tail
    BY <1>1, <1>2 DEF Latest
  <2>2. tail \in Seq(T) /\ Len(tail) = n - drop BY <2>1
  <2>3. \A i \in 1 .. n - drop : tail[i] = list[i + drop] BY <2>1
  <2> HIDE DEF tail
  <2> QED BY <1>1, <2>1, <2>2, <2>3
<1>3. CASE Len(list) <= DirectiveLimit
  BY <1>1, <1>3 DEF Latest
<1> QED BY <1>1, <1>2, <1>3

\* A function on 1 .. n is a sequence of length n.
LEMMA FunctionIsSeq ==
    ASSUME NEW T, NEW n \in Nat, NEW f \in [1 .. n -> T]
    PROVE  f \in Seq(T) /\ Len(f) = n
<1>1. \A i \in 1 .. n : f[i] \in T OBVIOUS
<1>2. f = [i \in 1 .. n |-> f[i]] OBVIOUS
<1>3. [i \in 1 .. n |-> f[i]] \in Seq(T) BY <1>1
<1> QED BY <1>2, <1>3

\* What a projection may list.
Lists == UNION {[1 .. n -> 1 .. MaxSeq] : n \in 0 .. DirectiveLimit}

\* The lists of a projection are the short sequences of event numbers.
LEMMA ListsAre ==
    ASSUME NEW list
    PROVE  list \in Lists <=> list \in Seq(1 .. MaxSeq) /\ Len(list) <= DirectiveLimit
<1>1. DirectiveLimit \in Nat BY PageAssumption
<1>2. ASSUME NEW n \in 0 .. DirectiveLimit, list \in [1 .. n -> 1 .. MaxSeq]
      PROVE  list \in Seq(1 .. MaxSeq) /\ Len(list) <= DirectiveLimit
  <2>2. n \in Nat /\ n <= DirectiveLimit BY <1>1, <1>2
  <2>3. list \in Seq(1 .. MaxSeq) /\ Len(list) = n BY <1>2, <2>2, FunctionIsSeq, Zenon
  <2> QED BY <2>2, <2>3
<1>3. ASSUME list \in Seq(1 .. MaxSeq), Len(list) <= DirectiveLimit
      PROVE  Len(list) \in 0 .. DirectiveLimit /\ list \in [1 .. Len(list) -> 1 .. MaxSeq]
  <2>1. Len(list) \in Nat BY <1>3
  <2>2. DOMAIN list = 1 .. Len(list) BY <1>3
  <2>3. \A i \in 1 .. Len(list) : list[i] \in 1 .. MaxSeq BY <1>3, ElementOfSeq
  <2>4. list = [i \in 1 .. Len(list) |-> list[i]] BY <1>3, <2>2
  <2> QED BY <1>1, <1>3, <2>1, <2>3, <2>4
<1> QED BY <1>2, <1>3 DEF Lists

-----------------------------------------------------------------------------
(* The invariant of the files *)

\* The numbers of the events in the journal.
Seqs == DOMAIN events

\* The events of one of the segments S when the journal has the events D.
Inside(S, D, start) == {seq \in D : seq >= start /\ \A later \in S : later > start => seq < later}

\* Each event is in a segment, and a segment without its first event has none and is the last.
Shape(S, D) ==
    /\ \A seq \in D : \E start \in S : start <= seq
    /\ \A start \in S \ D : /\ \A other \in S : other <= start
                            /\ \A seq \in D : seq < start

\* The journal is an interval up to event n.
Solid(D, n) == /\ n > 0 => n \in D
               /\ \A first \in D : \A seq \in first .. n : seq \in D

\* The journal ends with event n, and no segment is empty.
Ended(S, D, n) == S \subseteq D /\ \A seq \in D : seq <= n

\* A projection whose revision is not bounded.
Loose == [last : 0 .. MaxSeq, retained : 0 .. MaxSeq + 1, revision : Nat,
          compacted : 0 .. MaxSeq, directives : Lists]

\* The types, with revisions that are only natural numbers.
JournalTypes ==
    /\ saved \in Loose
    /\ work \in Loose
    /\ stage \in Stages
    /\ starts \subseteq 1 .. MaxSeq /\ doomed \subseteq starts
    /\ events \in Journals /\ torn \in BOOLEAN
    /\ checkpoint.revision \in Nat
    /\ checkpoint.through \in 0 .. MaxSeq
    /\ checkpoint.preserved \in Journals

\* What holds of the files in every state.
FilesOk == /\ Shape(starts, Seqs)
           /\ Solid(Seqs, saved.last)
           /\ NothingLost

\* What a handler has appended so far is in the journal.
InFlight ==
    stage # "idle" =>
        /\ saved.last <= work.last /\ work.last <= saved.last + MaxAppends
        /\ Solid(Seqs, work.last)
        /\ saved.last + 1 .. work.last \subseteq Seqs

\* What each step of a handler finds.
AtStage ==
    /\ stage \notin {"undoing", "removing"} => doomed = {}
    /\ stage \in {"reconciling", "undoing", "writing"} =>
            work.last < saved.last + MaxAppends
    /\ stage = "reconciling" =>
            work.last = saved.last \/ Ended(starts, Seqs, work.last)
    /\ stage = "undoing" =>
            /\ doomed # {} /\ work.last = saved.last
            /\ \A start \in doomed : start > saved.last
    /\ stage = "writing" =>
            /\ \A seq \in Seqs : seq <= work.last
            /\ \A start \in starts : start \in Seqs \/ start = work.last + 1
            /\ starts = {} => work.last = 0
    /\ stage \in {"compacting", "removing", "appended"} =>
            saved.last < work.last /\ Ended(starts, Seqs, work.last)
    /\ stage = "removing" =>
            /\ doomed # {}
            /\ \A start \in doomed : \A other \in starts : other < start => other \in doomed
            /\ \A start \in doomed : \A seq \in InSegment(start) : seq <= checkpoint.through
            /\ \E start \in starts \ doomed : start <= saved.last

\* The files are in order in every state, whatever a handler is doing.
JournalInv == JournalTypes /\ FilesOk /\ InFlight /\ AtStage

-----------------------------------------------------------------------------
(* Segments *)

\* A journal is a function from some event numbers to kinds.
LEMMA JournalIs ==
    ASSUME NEW f
    PROVE  f \in Journals <=> /\ f = [seq \in DOMAIN f |-> f[seq]]
                              /\ DOMAIN f \subseteq 1 .. MaxSeq
                              /\ \A seq \in DOMAIN f : f[seq] \in Kinds
BY DEF Journals

\* A journal restricted to some events.
LEMMA OnlyIs ==
    ASSUME NEW f \in Journals, NEW S
    PROVE  /\ Only(f, S) \in Journals
           /\ DOMAIN Only(f, S) = DOMAIN f \cap S
           /\ \A seq \in DOMAIN f \cap S : Only(f, S)[seq] = f[seq]
BY JournalIs DEF Only

\* The numbers of events and segments are positive and bounded.
LEMMA SeqsType ==
    ASSUME JournalTypes
    PROVE  /\ Seqs \in SUBSET (1 .. MaxSeq) /\ Seqs \in SUBSET Nat
           /\ starts \in SUBSET (1 .. MaxSeq) /\ starts \in SUBSET Nat
           /\ MaxSeq \in Nat /\ MaxSeq > 0 /\ MaxAppends \in Nat /\ MaxAppends > 0
<1>1. MaxSeq \in Nat /\ MaxSeq > 0 /\ MaxAppends \in Nat /\ MaxAppends > 0
  BY BoundAssumption, RetainAssumption
<1>2. 1 .. MaxSeq \in SUBSET Nat BY <1>1
<1> QED BY <1>1, <1>2, JournalIs DEF JournalTypes, Seqs

\* InSegment in terms of the sets of numbers.
LEMMA InsideIs ==
    ASSUME NEW start
    PROVE  InSegment(start) = Inside(starts, Seqs, start)
BY DEF InSegment, Inside, Seqs

\* The greatest of some numbers of events.
LEMMA GreatestOf ==
    ASSUME NEW S \in SUBSET (0 .. MaxSeq), S # {}
    PROVE  Max(S) \in S /\ \A x \in S : x <= Max(S)
BY MaxOf, BoundAssumption

\* The last segment holds all events from its name on, and tells the last event of the journal.
LEMMA LastSegment ==
    ASSUME JournalTypes, starts # {}
    PROVE  /\ LastStart \in starts /\ \A start \in starts : start <= LastStart
           /\ InSegment(LastStart) = {seq \in Seqs : seq >= LastStart}
           /\ InSegment(LastStart) = {} => ActualLast = LastStart - 1
           /\ InSegment(LastStart) # {} =>
                    ActualLast \in Seqs /\ ActualLast >= LastStart /\ \A seq \in Seqs : seq <= ActualLast
           /\ ActualLast \in 0 .. MaxSeq
<1>1. starts \in SUBSET (0 .. MaxSeq) /\ Seqs \in SUBSET (0 .. MaxSeq)
  BY SeqsType
<1>2. LastStart \in starts /\ \A start \in starts : start <= LastStart
  BY <1>1, GreatestOf DEF LastStart
<1>3. InSegment(LastStart) = {seq \in Seqs : seq >= LastStart}
  <2>1. ASSUME NEW later \in starts PROVE ~(later > LastStart)
    BY <1>2, SeqsType
  <2> QED BY <2>1 DEF InSegment, Seqs
<1>4. ASSUME InSegment(LastStart) # {}
      PROVE  ActualLast \in Seqs /\ ActualLast >= LastStart /\ \A seq \in Seqs : seq <= ActualLast
  <2> DEFINE m == Max(InSegment(LastStart))
  <2>1. m \in InSegment(LastStart) /\ \A x \in InSegment(LastStart) : x <= m
    BY <1>1, <1>3, <1>4, GreatestOf
  <2>2. ActualLast = m BY <1>4 DEF ActualLast
  <2> HIDE DEF m
  <2>3. m \in Seqs /\ m >= LastStart BY <1>3, <2>1
  <2>4. ASSUME NEW seq \in Seqs PROVE seq <= m
    BY <1>2, <1>3, <2>1, <2>3, SeqsType
  <2> QED BY <2>2, <2>3, <2>4
<1>5. InSegment(LastStart) = {} => ActualLast = LastStart - 1
  BY DEF ActualLast
<1>6. ActualLast \in 0 .. MaxSeq
  BY <1>2, <1>4, <1>5, SeqsType
<1> QED BY <1>2, <1>3, <1>4, <1>5, <1>6

\* The segment of an event that is not before all segments.
LEMMA SegmentOfIs ==
    ASSUME JournalTypes, NEW seq \in Nat, \E start \in starts : start <= seq
    PROVE  /\ SegmentOf(seq) \in starts /\ SegmentOf(seq) <= seq
           /\ \A start \in starts : start > SegmentOf(seq) => start > seq
<1> DEFINE S == {start \in starts : start <= seq}
<1>1. S \in SUBSET (0 .. MaxSeq) /\ S # {} BY SeqsType
<1>2. Max(S) \in S /\ \A x \in S : x <= Max(S) BY <1>1, GreatestOf
<1>3. SegmentOf(seq) = Max(S) BY DEF SegmentOf
<1>4. ASSUME NEW start \in starts, start > Max(S) PROVE start > seq
  <2>1. start \notin S BY <1>2, <1>4, SeqsType
  <2> QED BY <2>1, SeqsType
<1> QED BY <1>2, <1>3, <1>4

-----------------------------------------------------------------------------
(* Removing a segment *)

\* A removal of any segment keeps the shape of the journal.
LEMMA DropSegment ==
    ASSUME NEW S \in SUBSET Nat, NEW D \in SUBSET Nat, Shape(S, D), NEW d \in S,
           NEW S2, S2 = S \ {d}, NEW D2, D2 = D \ Inside(S, D, d)
    PROVE  Shape(S2, D2)
<1>1. ASSUME NEW seq \in D2 PROVE \E start \in S2 : start <= seq
  <2>1. PICK start \in S : start <= seq BY <1>1 DEF Shape
  <2>2. CASE start = d
    <3>1. PICK later \in S : later > d /\ ~(seq < later)
      BY <1>1, <2>1, <2>2 DEF Inside
    <3> QED BY <1>1, <3>1
  <2> QED BY <2>1, <2>2
<1>2. ASSUME NEW start \in S2 \ D2 PROVE start \notin D
  <2> SUFFICES ASSUME start \in D PROVE FALSE OBVIOUS
  <2>1. start \in Inside(S, D, d) BY <1>2
  <2>2. start >= d /\ start # d /\ start \in S BY <1>2, <2>1 DEF Inside
  <2>3. start > d BY <2>2
  <2>4. start < start BY <2>1, <2>2, <2>3 DEF Inside
  <2> QED BY <2>4
<1> QED BY <1>1, <1>2 DEF Shape

\* Removing the first segment keeps what is from another segment on.
LEMMA DropFirst ==
    ASSUME NEW S \in SUBSET Nat, NEW D \in SUBSET Nat, NEW d \in S,
           \A start \in S : d <= start, Shape(S, D),
           NEW D2, D2 = D \ Inside(S, D, d), NEW s \in S \ {d}
    PROVE  /\ \A seq \in D : seq >= s => seq \in D2
           /\ \A first \in D2 : \A seq \in D : seq >= first => seq \in D2
<1>1. s > d BY DEF Shape
<1>2. \A seq \in D : seq >= s => seq \in D2
  <2> TAKE seq \in D
  <2> HAVE seq >= s
  <2>1. seq \notin Inside(S, D, d) BY <1>1 DEF Inside
  <2> QED BY <2>1
<1>3. ASSUME NEW first \in D2, NEW seq \in D, seq >= first PROVE seq \in D2
  <2>1. PICK start \in S : start <= first BY DEF Shape
  <2>2. PICK t \in S : t > d /\ t <= first
    <3>1. first >= d BY <2>1
    <3> QED BY <3>1 DEF Inside
  <2>3. seq \notin Inside(S, D, d) BY <1>3, <2>2 DEF Inside
  <2> QED BY <2>3
<1> QED BY <1>2, <1>3

\* Removing a segment that begins after n changes nothing up to n.
LEMMA DropLate ==
    ASSUME NEW S \in SUBSET Nat, NEW D \in SUBSET Nat, NEW d \in S, NEW n \in Nat, d > n,
           NEW D2, D2 = D \ Inside(S, D, d)
    PROVE  /\ \A seq \in D : seq <= n => seq \in D2
           /\ Solid(D, n) => Solid(D2, n)
<1>1. \A seq \in D : seq <= n => seq \in D2 BY DEF Inside
<1>2. ASSUME Solid(D, n) PROVE Solid(D2, n)
  <2>1. n > 0 => n \in D2 BY <1>1, <1>2 DEF Solid
  <2>2. ASSUME NEW first \in D2, NEW seq \in first .. n PROVE seq \in D2
    <3>1. first \in Nat /\ first \in D OBVIOUS
    <3>2. seq \in D /\ seq <= n BY <1>2, <2>2, <3>1 DEF Solid
    <3> QED BY <1>1, <3>2
  <2> QED BY <2>1, <2>2 DEF Solid
<1> QED BY <1>1, <1>2

-----------------------------------------------------------------------------
(* Steps that leave the files alone *)

\* What the removal of one file does to the sets of numbers.
LEMMA RemoveIs ==
    ASSUME JournalTypes, NEW d \in starts, RemoveSegment(d)
    PROVE  /\ starts' = starts \ {d}
           /\ Seqs' = Seqs \ Inside(starts, Seqs, d)
           /\ events' \in Journals /\ torn' \in BOOLEAN
           /\ \A seq \in Seqs' : events'[seq] = events[seq]
           /\ Shape(starts, Seqs) => Shape(starts', Seqs')
<1> DEFINE kept == Seqs \ Inside(starts, Seqs, d)
<1>1. events' = Only(events, kept) /\ starts' = starts \ {d} /\ torn' = (torn /\ d # LastStart)
  BY InsideIs DEF RemoveSegment, Seqs
<1>2. events \in Journals BY DEF JournalTypes, Loose
<1> HIDE DEF kept
<1>3. /\ events' \in Journals /\ DOMAIN events' = DOMAIN events \cap kept
      /\ \A seq \in DOMAIN events \cap kept : events'[seq] = events[seq]
  BY <1>1, <1>2, OnlyIs
<1>4. Seqs' = Seqs \ Inside(starts, Seqs, d)
  BY <1>3 DEF Seqs, kept
<1>5. Shape(starts, Seqs) => Shape(starts', Seqs')
  BY <1>1, <1>4, SeqsType, DropSegment
<1>6. torn' \in BOOLEAN BY <1>1
<1> QED BY <1>1, <1>3, <1>4, <1>5, <1>6 DEF Seqs

\* Steps that leave the files and the snapshot alone.
LEMMA SameFiles ==
    ASSUME FilesOk, UNCHANGED <<saved, events, starts, checkpoint>>
    PROVE  FilesOk' /\ Seqs' = Seqs
BY DEF FilesOk, Seqs, NothingLost

\* An empty projection is a projection.
LEMMA NewProjectionType ==
    NewProjection \in Loose
<1>1. <<>> \in Seq(1 .. MaxSeq) /\ Len(<<>>) = 0 BY EmptySeq
<1>3. Len(<<>>) <= DirectiveLimit BY <1>1, PageAssumption
<1>2. <<>> \in Lists BY <1>1, <1>3, ListsAre, Zenon
<1> QED BY <1>2, BoundAssumption DEF NewProjection, Loose

\* A handler may end at any step: what it leaves is a journal in order.
LEMMA EndIsOk ==
    ASSUME JournalInv, stage' = "idle", work' = NewProjection, doomed' = {},
           UNCHANGED <<saved, events, starts, checkpoint>>, torn' \in BOOLEAN
    PROVE  JournalInv'
<1>1. JournalTypes' BY NewProjectionType DEF JournalInv, JournalTypes, Loose, Stages
<1>2. FilesOk' BY SameFiles DEF JournalInv
<1> QED BY <1>1, <1>2 DEF JournalInv, InFlight, AtStage

\* A handler starts with the saved projection.
LEMMA BeginOk == ASSUME JournalInv, Begin PROVE JournalInv'
<1>1. JournalTypes' BY DEF JournalInv, JournalTypes, Loose, Begin, files, Stages
<1>2. FilesOk' /\ Seqs' = Seqs BY SameFiles DEF JournalInv, Begin, files
<1>3. saved.last \in Nat /\ MaxAppends \in Nat /\ MaxAppends > 0
  BY RetainAssumption, BoundAssumption DEF JournalInv, JournalTypes, Loose
<1>4. InFlight'
  BY <1>2, <1>3 DEF JournalInv, Begin, files, InFlight, FilesOk
<1>5. AtStage'
  BY <1>2, <1>3 DEF JournalInv, Begin, files, AtStage
<1> QED BY <1>1, <1>2, <1>4, <1>5 DEF JournalInv

\* A handler fails or dies anywhere.
LEMMA AbortOk == ASSUME JournalInv, Abort PROVE JournalInv'
BY EndIsOk DEF Abort, files, JournalInv, JournalTypes, Loose

\* An append that cannot reconcile the journal ends its handler.
LEMMA RefuseOk == ASSUME JournalInv, Refuse PROVE JournalInv'
BY EndIsOk DEF Refuse, JournalInv, JournalTypes, Loose, AtStage

\* compact_if_needed with few closed segments.
LEMMA NeedNotCompactOk == ASSUME JournalInv, NeedNotCompact PROVE JournalInv'
<1>1. JournalTypes' BY DEF JournalInv, JournalTypes, Loose, NeedNotCompact, files, Stages
<1>2. FilesOk' /\ Seqs' = Seqs BY SameFiles DEF JournalInv, NeedNotCompact, files
<1>3. InFlight' BY <1>2 DEF JournalInv, NeedNotCompact, files, InFlight
<1>4. AtStage' BY <1>2 DEF JournalInv, NeedNotCompact, files, AtStage
<1> QED BY <1>1, <1>2, <1>3, <1>4 DEF JournalInv

\* The events that a handler appended are as many as the numbers it used.
LEMMA AppendedCount ==
    ASSUME JournalInv, stage # "idle"
    PROVE  Appended = saved.last + 1 .. work.last /\ Cardinality(Appended) = work.last - saved.last
<1>1. saved.last \in Nat /\ work.last \in Nat /\ saved.last <= work.last
  BY BoundAssumption DEF JournalInv, JournalTypes, Loose, InFlight
<1>2. Appended = saved.last + 1 .. work.last
  BY <1>1, SeqsType DEF Appended, JournalInv, InFlight, Seqs
<1>3. Cardinality(saved.last + 1 .. work.last) = work.last - saved.last
  <2> DEFINE a == saved.last + 1
             b == work.last
  <2>1. a \in Int /\ b \in Int /\ a <= b + 1 BY <1>1
  <2> HIDE DEF a, b
  <2>2. Cardinality(a .. b) = IF a > b THEN 0 ELSE b - a + 1 BY <2>1, FS_Interval
  <2>3. Cardinality(a .. b) = b - a + 1 BY <2>1, <2>2
  <2> QED BY <1>1, <2>3 DEF a, b
<1> QED BY <1>2, <1>3

\* A handler appends one more event.
LEMMA AgainOk == ASSUME JournalInv, Again PROVE JournalInv'
<1>1. JournalTypes' BY DEF JournalInv, JournalTypes, Loose, Again, files, Stages
<1>2. FilesOk' /\ Seqs' = Seqs BY SameFiles DEF JournalInv, Again, files
<1>3. InFlight' BY <1>2 DEF JournalInv, Again, files, InFlight
<1>4. work.last < saved.last + MaxAppends
  <2>1. work.last - saved.last < MaxAppends BY AppendedCount DEF Again
  <2> QED BY <2>1, BoundAssumption, RetainAssumption DEF JournalInv, JournalTypes, Loose
<1>5. AtStage' BY <1>2, <1>4 DEF JournalInv, Again, files, AtStage
<1> QED BY <1>1, <1>2, <1>3, <1>5 DEF JournalInv

\* mutate_snapshot saves the projection.
LEMMA SaveOk == ASSUME JournalInv, Save PROVE JournalInv'
<1>1. JournalTypes' BY NewProjectionType DEF JournalInv, JournalTypes, Loose, Save, files, Stages
<1>2. saved.last \in Nat /\ work.last \in Nat
  BY BoundAssumption DEF JournalInv, JournalTypes, Loose
<1>3. FilesOk'
  BY <1>2 DEF JournalInv, FilesOk, InFlight, Save, files, Seqs, NothingLost
<1> QED BY <1>1, <1>3 DEF JournalInv, Save, InFlight, AtStage

-----------------------------------------------------------------------------
(* The rollback of uncommitted events *)

\* A rollback is the first thing that a handler does: nothing was appended yet.
LEMMA RollbackCursor ==
    ASSUME JournalInv, stage = "reconciling", Orphans(work)
    PROVE  work.last = saved.last
<1> DEFINE n == work.last
<1>1. JournalTypes /\ n \in Nat /\ starts # {} /\ ActualLast > n
  BY BoundAssumption DEF JournalInv, JournalTypes, Loose, Orphans
<1>2. CASE Ended(starts, Seqs, n)
  <2>1. LastStart \in starts /\ LastStart \in Seqs BY <1>1, <1>2, LastSegment DEF Ended
  <2>2. InSegment(LastStart) # {} BY <1>1, <2>1, LastSegment, SeqsType
  <2>3. ActualLast \in Seqs BY <1>1, <2>2, LastSegment
  <2>4. ActualLast <= n BY <1>2, <2>3 DEF Ended
  <2> QED BY <1>1, <2>3, <2>4, SeqsType
<1> QED BY <1>2 DEF JournalInv, AtStage

\* reconcile_projection cuts the committed segment.
LEMMA RollbackOk == ASSUME JournalInv, Rollback PROVE JournalInv'
<1> DEFINE n == work.last
<1>1. stage = "reconciling" /\ Orphans(work) /\ (n = 0 \/ Holds(n)) /\ JournalTypes
  BY DEF Rollback, JournalInv
<1>2. /\ saved.last \in Nat /\ n \in Nat /\ doomed = {} /\ MaxAppends \in Nat
      /\ UNCHANGED <<saved, work, starts, checkpoint>>
  BY <1>1, SeqsType DEF Rollback, JournalInv, JournalTypes, Loose, AtStage
<1>3. n = saved.last BY <1>1, RollbackCursor
<1>4. CASE n = 0
  <2>1. doomed' = starts /\ starts # {} /\ UNCHANGED <<events, torn>>
    BY <1>1, <1>4 DEF Rollback, Orphans
  <2>2. stage' = "undoing" BY <2>1, <1>1 DEF Rollback
  <2>3. JournalTypes' BY <1>2, <2>1, <2>2 DEF JournalInv, JournalTypes, Loose, Stages
  <2>4. FilesOk' /\ Seqs' = Seqs BY <1>2, <2>1, SameFiles DEF JournalInv
  <2>5. InFlight' BY <1>1, <1>2, <2>2, <2>4 DEF JournalInv, InFlight
  <2>6. \A start \in starts : start > 0 BY <1>1, SeqsType
  <2>7. AtStage' BY <1>1, <1>2, <1>3, <1>4, <2>1, <2>2, <2>6 DEF JournalInv, AtStage
  <2> QED BY <2>3, <2>4, <2>5, <2>7 DEF JournalInv
<1>5. CASE n # 0
  <2> DEFINE c == SegmentOf(n)
             beyond == BeyondCursor(work, c)
  <2>1. \E start \in starts : start <= n BY <1>1, <1>5 DEF Holds
  <2>2. c \in starts /\ c <= n /\ \A start \in starts : start > c => start > n
    BY <1>1, <1>2, <2>1, SegmentOfIs
  <2>3. /\ doomed' = {start \in starts : start > c}
        /\ events' = Only(events, Seqs \ beyond)
        /\ torn' = (torn /\ c # LastStart)
    BY <1>5 DEF Rollback, Seqs
  <2>4. beyond = {seq \in Inside(starts, Seqs, c) : seq > n}
    BY InsideIs DEF BeyondCursor
  <2> HIDE DEF c, beyond
  <2>5. /\ events' \in Journals /\ DOMAIN events' = DOMAIN events \cap (Seqs \ beyond)
    BY <1>1, <2>3, OnlyIs DEF JournalTypes, Loose
  <2>6. Seqs' = Seqs \ beyond BY <2>5 DEF Seqs
  <2>7. JournalTypes'
    BY <1>1, <1>2, <2>2, <2>3, <2>5 DEF JournalTypes, Loose, Stages, Rollback
  <2>8. \A seq \in Seqs : seq <= n => seq \in Seqs'
    BY <2>4, <2>6, <1>1, <1>2, SeqsType
  <2>9. Shape(starts, Seqs')
    <3>1. ASSUME NEW start \in starts \ Seqs' PROVE start \notin Seqs
      <4> SUFFICES ASSUME start \in Seqs PROVE FALSE OBVIOUS
      <4>1. start \in beyond BY <2>6, <3>1
      <4>2. start > n /\ start >= c BY <2>4, <4>1 DEF Inside
      <4>3. start > c BY <1>1, <1>2, <2>2, <4>2, SeqsType
      <4>4. start < start BY <2>4, <4>1, <4>3 DEF Inside
      <4> QED BY <1>1, <4>4, SeqsType
    <3> QED BY <3>1, <2>6 DEF JournalInv, FilesOk, Shape
  <2>10. Solid(Seqs', n)
    <3>0. n > 0 BY <1>2, <1>5
    <3>3. n \in Seqs BY <1>1, <3>0 DEF JournalInv, InFlight, Solid
    <3>1. n \in Seqs' BY <1>2, <2>8, <3>3
    <3>2. ASSUME NEW first \in Seqs', NEW seq \in first .. n PROVE seq \in Seqs'
      <4>1. first \in Seqs BY <2>6
      <4>2. seq \in Seqs BY <1>1, <4>1 DEF JournalInv, InFlight, Solid
      <4>3. seq <= n BY <1>1, <1>2, <4>1, SeqsType
      <4> QED BY <2>8, <4>2, <4>3
    <3> QED BY <3>1, <3>2 DEF Solid
  <2>11. FilesOk'
    <3>1. \A seq \in 1 .. saved.last : seq \in Seqs' \/ seq <= checkpoint.through
      BY <1>2, <1>3, <2>8 DEF JournalInv, FilesOk, NothingLost, Seqs
    <3> QED BY <1>2, <1>3, <2>9, <2>10, <3>1 DEF FilesOk, NothingLost, Seqs
  <2>12. InFlight'
    <3>1. saved.last + 1 .. work.last = {} BY <1>2, <1>3
    <3> QED BY <1>2, <1>3, <2>10, <3>1 DEF InFlight
  <2>13. stage' = IF doomed' = {} THEN "reconciling" ELSE "undoing" BY DEF Rollback
  <2>14. \A start \in doomed' : start > saved.last BY <1>3, <2>2, <2>3
  <2>15. saved.last < saved.last + MaxAppends BY <1>1, <1>2, SeqsType
  <2>16. AtStage'
    BY <1>2, <1>3, <2>13, <2>14, <2>15 DEF AtStage
  <2> QED BY <2>7, <2>11, <2>12, <2>16 DEF JournalInv
<1> QED BY <1>4, <1>5

\* reconcile_projection removes one uncommitted segment.
LEMMA RemoveOrphanOk == ASSUME JournalInv, RemoveOrphan PROVE JournalInv'
<1> DEFINE d == NextDoomed
<1>1. JournalTypes /\ stage = "undoing" /\ UNCHANGED <<saved, work, checkpoint>>
      /\ RemoveSegment(d) /\ doomed' = doomed \ {d}
      /\ stage' = IF doomed' = {} THEN "reconciling" ELSE "undoing"
  BY DEF RemoveOrphan, JournalInv
<1>2. doomed # {} /\ work.last = saved.last /\ \A start \in doomed : start > saved.last
  BY <1>1 DEF JournalInv, AtStage
<1>3. doomed \in SUBSET Nat /\ doomed \subseteq starts
  BY <1>1, SeqsType DEF JournalTypes, Loose
<1>4. d \in doomed /\ d \in starts
  BY <1>2, <1>3, MinOf DEF NextDoomed
<1>5. saved.last \in Nat /\ d > saved.last /\ MaxAppends \in Nat /\ MaxAppends > 0
  BY <1>1, <1>2, <1>4, SeqsType DEF JournalTypes, Loose
<1> HIDE DEF d
<1>6. /\ starts' = starts \ {d}
      /\ Seqs' = Seqs \ Inside(starts, Seqs, d)
      /\ events' \in Journals /\ torn' \in BOOLEAN
      /\ Shape(starts', Seqs')
  BY <1>1, <1>4, RemoveIs DEF JournalInv, FilesOk
<1>7. /\ \A seq \in Seqs : seq <= saved.last => seq \in Seqs'
      /\ Solid(Seqs', saved.last)
  BY <1>1, <1>4, <1>5, <1>6, SeqsType, DropLate DEF JournalInv, FilesOk
<1>8. JournalTypes'
  BY <1>1, <1>3, <1>6 DEF JournalTypes, Loose, Stages
<1>9. FilesOk'
  <2>1. \A seq \in 1 .. saved.last : seq \in Seqs' \/ seq <= checkpoint.through
    BY <1>5, <1>7 DEF JournalInv, FilesOk, NothingLost, Seqs
  <2> QED BY <1>1, <1>6, <1>7, <2>1 DEF FilesOk, NothingLost, Seqs
<1>10. InFlight'
  <2>1. saved.last + 1 .. work.last = {} BY <1>2, <1>5
  <2> QED BY <1>1, <1>2, <1>5, <1>7, <2>1 DEF InFlight
<1>11. AtStage'
  BY <1>1, <1>2, <1>5 DEF AtStage
<1> QED BY <1>8, <1>9, <1>10, <1>11 DEF JournalInv

-----------------------------------------------------------------------------
(* What reconciling does *)

\* What the reconciliation does to the list of directives keeps it a list.
LEMMA WithDirectivesType ==
    ASSUME JournalTypes, starts # {}, NEW p, p.directives \in Lists
    PROVE  WithDirectives(p) \in Lists
<1> DEFINE listed == p.directives
           places == {i \in DOMAIN listed : listed[i] <= p.last}
           kept == Picked(listed, places)
           missing == {seq \in InSegment(LastStart) : events[seq] = "directive"} \ Range(kept)
           list == kept \o Ascending(missing)
<1>1. listed \in Seq(1 .. MaxSeq) BY ListsAre
<1>2. kept \in Seq(1 .. MaxSeq) BY <1>1, PickedIs
<1>3. missing \in SUBSET (1 .. MaxSeq)
  BY SeqsType DEF InSegment, Seqs
<1>4. IsFiniteSet(missing) /\ missing \in SUBSET Nat
  <2>1. IsFiniteSet(1 .. MaxSeq) BY BoundAssumption, FS_Interval
  <2>2. 1 .. MaxSeq \in SUBSET Nat BY BoundAssumption
  <2> HIDE DEF missing
  <2> QED BY <1>3, <2>1, <2>2, FS_Subset
<1> HIDE DEF listed, places, kept, missing
<1>5. Ascending(missing) \in Seq(1 .. MaxSeq)
  <2>1. /\ Cardinality(missing) \in Nat
        /\ \A i \in 1 .. Cardinality(missing) : Ascending(missing)[i] \in 1 .. MaxSeq
    BY <1>3, <1>4, AscendingIs
  <2>2. Ascending(missing) \in [1 .. Cardinality(missing) -> 1 .. MaxSeq]
    BY <2>1 DEF Ascending
  <2> QED BY <2>1, <2>2, FunctionIsSeq
<1>6. list \in Seq(1 .. MaxSeq) BY <1>2, <1>5, ConcatProperties
<1> DEFINE drop == IF Len(list) > DirectiveLimit THEN Len(list) - DirectiveLimit ELSE 0
<1>7. drop \in Nat /\ drop = IF Len(list) > DirectiveLimit THEN Len(list) - DirectiveLimit ELSE 0
  <2> HIDE DEF list
  <2> QED BY <1>6, PageAssumption
<1> HIDE DEF list, drop
<1>8. Latest(list) \in Seq(1 .. MaxSeq) /\ Len(Latest(list)) <= DirectiveLimit
  BY <1>6, <1>7, LatestIs
<1>9. Latest(list) \in Lists BY <1>8, ListsAre
<1> QED BY <1>9 DEF WithDirectives, list, missing, kept, places, listed

\* A reconciled projection is one, with the same cursor.
LEMMA ReconciledType ==
    ASSUME JournalTypes, NEW p, p \in Loose
    PROVE  /\ Reconciled(p) \in Loose
           /\ Reconciled(p).last = p.last
<1>1. CASE starts = {}
  <2>1. <<>> \in Lists BY NewProjectionType DEF NewProjection, Loose
  <2>2. 1 \in 0 .. MaxSeq + 1 BY BoundAssumption
  <2>3. Reconciled(p) = [p EXCEPT !.retained = 1, !.directives = <<>>] BY <1>1 DEF Reconciled
  <2> QED BY <2>1, <2>2, <2>3 DEF Loose
<1>2. CASE starts # {}
  <2>1. WithDirectives(p) \in Lists BY <1>2, WithDirectivesType DEF Loose
  <2>2. Min(starts) \in 1 .. MaxSeq BY <1>2, SeqsType, MinOf
  <2>3. AtLeastOne(p.retained) \in 0 .. MaxSeq + 1 BY BoundAssumption DEF AtLeastOne, Loose
  <2>4. Min(starts) \in 0 .. MaxSeq + 1 BY <2>2, BoundAssumption
  <2>5. checkpoint.revision \in Nat /\ checkpoint.through \in 0 .. MaxSeq BY DEF JournalTypes
  <2> DEFINE list == WithDirectives(p)
             least == Min(starts)
  <2>6. \/ Reconciled(p) = [p EXCEPT !.retained = least, !.revision = checkpoint.revision,
                                    !.compacted = checkpoint.through, !.directives = list]
        \/ Reconciled(p) = [p EXCEPT !.retained = AtLeastOne(p.retained), !.directives = list]
    BY <1>2 DEF Reconciled
  <2> HIDE DEF list, least
  <2> QED BY <2>1, <2>3, <2>4, <2>5, <2>6 DEF Loose, list, least
<1> QED BY <1>1, <1>2

\* reconcile_projection accepts the files.
LEMMA ReconcileOk == ASSUME JournalInv, Reconcile PROVE JournalInv'
<1> DEFINE n == work.last
<1>1. /\ JournalTypes /\ stage = "reconciling" /\ ~Orphans(work) /\ ~Refused(work)
      /\ work' = Reconciled(work) /\ torn' = FALSE /\ stage' = "writing"
      /\ UNCHANGED <<saved, doomed, events, starts, checkpoint>>
  BY DEF Reconcile, JournalInv
<1>2. JournalTypes' /\ work'.last = n
  BY <1>1, ReconciledType DEF JournalTypes, Loose, Stages
<1>3. FilesOk' /\ Seqs' = Seqs BY <1>1, SameFiles DEF JournalInv
<1>4. InFlight' BY <1>1, <1>2, <1>3 DEF JournalInv, InFlight
<1>5. starts = {} => n = 0 /\ Seqs = {}
  <2>1. n \in Nat BY <1>1, BoundAssumption DEF JournalTypes, Loose
  <2>2. starts = {} => n = 0 BY <1>1, <2>1 DEF Refused
  <2> QED BY <2>2 DEF JournalInv, FilesOk, Shape
<1>6. /\ \A seq \in Seqs : seq <= n
      /\ \A start \in starts : start \in Seqs \/ start = n + 1
  <2>1. CASE starts = {} BY <1>5, <2>1
  <2>2. CASE starts # {}
    <3>1. ActualLast = n BY <1>1, <2>2 DEF Refused
    <3>2. LastStart \in starts /\ \A start \in starts : start <= LastStart
      BY <1>1, <2>2, LastSegment
    <3>3. CASE InSegment(LastStart) = {}
      <4>1. LastStart = n + 1 BY <1>1, <2>2, <3>1, <3>2, <3>3, LastSegment, SeqsType
      <4>2. \A seq \in Seqs : seq < LastStart
        BY <1>1, <2>2, <3>2, <3>3, LastSegment, SeqsType
      <4>3. n \in Nat BY <1>1, BoundAssumption DEF JournalTypes, Loose
      <4>4. ASSUME NEW start \in starts, start \notin Seqs PROVE start = n + 1
        <5>1. LastStart <= start BY <3>2, <4>4 DEF JournalInv, FilesOk, Shape
        <5> QED BY <1>1, <3>2, <4>1, <5>1, SeqsType
      <4>5. \A seq \in Seqs : seq <= n BY <1>1, <4>1, <4>2, <4>3, SeqsType
      <4> QED BY <4>4, <4>5
    <3>4. CASE InSegment(LastStart) # {}
      <4>1. ActualLast \in Seqs /\ ActualLast >= LastStart /\ \A seq \in Seqs : seq <= ActualLast
        BY <1>1, <2>2, <3>4, LastSegment
      <4>2. ASSUME NEW start \in starts, start \notin Seqs PROVE FALSE
        <5>1. ActualLast < start BY <4>1, <4>2 DEF JournalInv, FilesOk, Shape
        <5>2. start <= LastStart BY <3>2
        <5> QED BY <1>1, <3>2, <4>1, <5>1, <5>2, SeqsType
      <4> QED BY <3>1, <4>1, <4>2
    <3> QED BY <3>3, <3>4
  <2> QED BY <2>1, <2>2
<1>7. AtStage' BY <1>1, <1>2, <1>3, <1>5, <1>6 DEF JournalInv, AtStage
<1> QED BY <1>2, <1>3, <1>4, <1>7 DEF JournalInv

\* Where the next event goes.
LEMMA TargetIs ==
    ASSUME JournalInv, stage = "writing", NEW rotate \in BOOLEAN, MayRotate(rotate), work.last < MaxSeq
    PROVE  /\ work.last \in Nat /\ Target(rotate) \in 1 .. MaxSeq /\ Target(rotate) <= work.last + 1
           /\ \/ Target(rotate) \in starts /\ \A start \in starts : start <= Target(rotate)
              \/ Target(rotate) = work.last + 1 /\ starts \subseteq Seqs
           /\ Target(rotate) \in Seqs \/ Target(rotate) = work.last + 1
<1> DEFINE n == work.last
<1>1. JournalTypes /\ n \in Nat /\ n + 1 \in 1 .. MaxSeq
  BY SeqsType DEF JournalInv, JournalTypes, Loose
<1>2. /\ \A seq \in Seqs : seq <= n
      /\ \A start \in starts : start \in Seqs \/ start = n + 1
      /\ starts = {} => n = 0
  BY DEF JournalInv, AtStage
<1>3. CASE starts = {}
  BY <1>1, <1>3 DEF Target
<1>4. CASE starts # {} /\ ~rotate
  <2>1. Target(rotate) = LastStart BY <1>4 DEF Target
  <2>2. LastStart \in starts /\ \A start \in starts : start <= LastStart BY <1>1, <1>4, LastSegment
  <2>3. LastStart \in 1 .. MaxSeq BY <1>1, <2>2, SeqsType
  <2>4. LastStart <= n + 1 BY <1>1, <1>2, <2>2, <2>3, SeqsType
  <2> QED BY <1>1, <1>2, <2>1, <2>2, <2>3, <2>4
<1>5. CASE starts # {} /\ rotate
  <2>1. Target(rotate) = n + 1 BY <1>5 DEF Target
  <2>2. InSegment(LastStart) # {}
    <3>1. Cardinality(InSegment(LastStart)) # 0 BY <1>5 DEF MayRotate
    <3> QED BY <3>1, FS_EmptySet
  <2>3. ASSUME NEW start \in starts, start \notin Seqs PROVE FALSE
    <3>1. start = n + 1 BY <1>2, <2>3
    <3>2. PICK seq \in Seqs : seq >= LastStart BY <1>1, <1>5, <2>2, LastSegment
    <3>3. start <= LastStart /\ LastStart \in starts BY <1>1, <1>5, LastSegment
    <3> QED BY <1>1, <1>2, <3>1, <3>2, <3>3, SeqsType
  <2> QED BY <1>1, <2>1, <2>3
<1> QED BY <1>3, <1>4, <1>5

-----------------------------------------------------------------------------
(* Appending an event *)

\* An event adds one to the cursor of a projection.
LEMMA ExtendedType ==
    ASSUME NEW p \in Loose, p.last < MaxSeq, NEW kind \in Kinds
    PROVE  Extended(p, kind) \in Loose /\ Extended(p, kind).last = p.last + 1
<1> DEFINE list == IF kind = "directive" THEN Latest(Append(p.directives, p.last + 1)) ELSE p.directives
<1>1. p.last + 1 \in 1 .. MaxSeq /\ p.last + 1 \in 0 .. MaxSeq /\ p.directives \in Lists
  BY BoundAssumption DEF Loose
<1>2. list \in Lists
  <2> DEFINE longer == Append(p.directives, p.last + 1)
             drop == IF Len(longer) > DirectiveLimit THEN Len(longer) - DirectiveLimit ELSE 0
  <2>1. p.directives \in Seq(1 .. MaxSeq) BY <1>1, ListsAre
  <2>2. longer \in Seq(1 .. MaxSeq) BY <1>1, <2>1, AppendProperties
  <2> HIDE DEF longer
  <2>3. drop \in Nat BY <2>2, PageAssumption
  <2>4. Latest(longer) \in Seq(1 .. MaxSeq) /\ Len(Latest(longer)) <= DirectiveLimit
    BY <2>2, <2>3, LatestIs
  <2>5. Latest(longer) \in Lists BY <2>4, ListsAre
  <2> QED BY <1>1, <2>5 DEF longer
<1>3. Extended(p, kind) = [p EXCEPT !.last = p.last + 1, !.directives = list]
  BY DEF Extended
<1> HIDE DEF list
<1> QED BY <1>1, <1>2, <1>3 DEF Loose

\* append writes a line.
LEMMA WriteOk ==
    ASSUME JournalInv, NEW kind \in Kinds, NEW rotate \in BOOLEAN, Write(kind, rotate)
    PROVE  JournalInv'
<1> DEFINE n == work.last
           t == Target(rotate)
<1>1. /\ JournalTypes /\ stage = "writing" /\ n < MaxSeq /\ MayRotate(rotate)
      /\ starts' = starts \cup {t} /\ work' = Extended(work, kind) /\ stage' = "compacting"
      /\ UNCHANGED <<saved, doomed, torn, checkpoint>>
      /\ events' = [seq \in Seqs \cup {n + 1} |-> IF seq = n + 1 THEN kind ELSE events[seq]]
  BY DEF Write, MayAppend, JournalInv, Seqs
<1>2. /\ n \in Nat /\ t \in 1 .. MaxSeq /\ t <= n + 1
      /\ \/ t \in starts /\ \A start \in starts : start <= t
         \/ t = n + 1 /\ starts \subseteq Seqs
      /\ t \in Seqs \/ t = n + 1
  BY <1>1, TargetIs
<1>3. saved.last \in Nat /\ n + 1 \in 1 .. MaxSeq /\ MaxSeq \in Nat
  BY <1>1, <1>2, BoundAssumption DEF JournalTypes, Loose
<1>4. Seqs' = Seqs \cup {n + 1}
  BY <1>1 DEF Seqs
<1>5. work' \in Loose /\ work'.last = n + 1
  BY <1>1, ExtendedType DEF JournalTypes
<1>6. /\ \A seq \in Seqs : seq <= n
      /\ \A start \in starts : start \in Seqs \/ start = n + 1
      /\ n < saved.last + MaxAppends /\ doomed = {}
      /\ saved.last <= n /\ Solid(Seqs, n) /\ saved.last + 1 .. n \subseteq Seqs
  BY <1>1 DEF JournalInv, AtStage, InFlight
<1> HIDE DEF t
<1>7. JournalTypes'
  <2>1. events' \in Journals
    <3>1. \A seq \in Seqs : events[seq] \in Kinds
      BY <1>1, JournalIs DEF JournalTypes, Seqs
    <3>2. Seqs \cup {n + 1} \in SUBSET (1 .. MaxSeq)
      BY <1>1, <1>3, SeqsType
    <3>3. events' \in [Seqs \cup {n + 1} -> Kinds] BY <1>1, <3>1
    <3> QED BY <3>2, <3>3 DEF Journals
  <2> QED BY <1>1, <1>2, <1>5, <1>6, <2>1 DEF JournalTypes, Stages
<1>8. starts' \subseteq Seqs'
  BY <1>1, <1>2, <1>4, <1>6
<1>9. \A m \in Nat : m <= n /\ Solid(Seqs, m) => Solid(Seqs', m)
  <2> TAKE m \in Nat
  <2> HAVE m <= n /\ Solid(Seqs, m)
  <2>1. ASSUME NEW first \in Seqs', NEW seq \in first .. m PROVE seq \in Seqs'
    BY <1>1, <1>2, <1>4, <2>1, SeqsType DEF Solid
  <2> QED BY <1>4, <2>1 DEF Solid
<1>10. FilesOk'
  <2>1. Shape(starts', Seqs')
    <3>1. ASSUME NEW seq \in Seqs' PROVE \E start \in starts' : start <= seq
      <4>1. CASE seq = n + 1 BY <1>1, <1>2, <4>1
      <4>2. CASE seq \in Seqs BY <1>1, <4>2 DEF JournalInv, FilesOk, Shape
      <4> QED BY <1>4, <4>1, <4>2
    <3> QED BY <1>8, <3>1 DEF Shape
  <2>2. Solid(Seqs', saved.last) BY <1>3, <1>6, <1>9 DEF JournalInv, FilesOk
  <2>3. NothingLost' BY <1>1, <1>4 DEF JournalInv, FilesOk, NothingLost, Seqs
  <2> QED BY <1>1, <2>1, <2>2, <2>3 DEF FilesOk
<1>11. InFlight'
  <2>1. Solid(Seqs', n + 1)
    <3>1. ASSUME NEW first \in Seqs', NEW seq \in first .. n + 1 PROVE seq \in Seqs'
      <4>1. first \in Nat BY <1>1, <1>2, <1>4, SeqsType
      <4>2. CASE seq = n + 1 BY <1>4, <4>2
      <4>3. CASE seq # n + 1
        <5>1. seq \in first .. n BY <1>2, <4>1, <4>3
        <5>2. first # n + 1 BY <1>2, <4>1, <5>1
        <5> QED BY <1>4, <1>6, <5>1, <5>2 DEF Solid
      <4> QED BY <4>2, <4>3
    <3> QED BY <1>4, <3>1 DEF Solid
  <2>2. saved.last + 1 .. n + 1 \subseteq Seqs' BY <1>2, <1>3, <1>4, <1>6
  <2>3. saved.last <= n + 1 /\ n + 1 <= saved.last + MaxAppends
    BY <1>1, <1>2, <1>3, <1>6, SeqsType
  <2> QED BY <1>1, <1>5, <2>1, <2>2, <2>3 DEF InFlight
<1>12. AtStage'
  <2>1. \A seq \in Seqs' : seq <= n + 1 BY <1>1, <1>2, <1>4, <1>6, SeqsType
  <2>2. saved.last < n + 1 BY <1>2, <1>3, <1>6
  <2> QED BY <1>1, <1>5, <1>6, <1>8, <2>1, <2>2 DEF AtStage, Ended
<1> QED BY <1>7, <1>10, <1>11, <1>12 DEF JournalInv

\* append fails to write a line.
LEMMA WriteTornOk ==
    ASSUME JournalInv, NEW rotate \in BOOLEAN, WriteTorn(rotate)
    PROVE  JournalInv'
<1> DEFINE n == work.last
           t == Target(rotate)
<1>1. /\ JournalTypes /\ stage = "writing" /\ n < MaxSeq /\ MayRotate(rotate)
      /\ starts' = starts \cup {t} /\ work' = NewProjection /\ stage' = "idle" /\ torn' = TRUE
      /\ UNCHANGED <<saved, doomed, events, checkpoint>>
  BY DEF WriteTorn, JournalInv
<1>2. /\ n \in Nat /\ t \in 1 .. MaxSeq /\ t <= n + 1
      /\ \/ t \in starts /\ \A start \in starts : start <= t
         \/ t = n + 1 /\ starts \subseteq Seqs
      /\ t \in Seqs \/ t = n + 1
  BY <1>1, TargetIs
<1>3. /\ \A seq \in Seqs : seq <= n
      /\ \A start \in starts : start \in Seqs \/ start = n + 1
      /\ doomed = {}
  BY <1>1 DEF JournalInv, AtStage
<1> HIDE DEF t
<1>4. JournalTypes'
  BY <1>1, <1>2, <1>3, NewProjectionType DEF JournalTypes, Stages
<1>5. Shape(starts', Seqs)
  <2>1. \A seq \in Seqs : \E start \in starts' : start <= seq
    BY <1>1 DEF JournalInv, FilesOk, Shape
  <2>2. ASSUME NEW start \in starts' \ Seqs
        PROVE  /\ \A other \in starts' : other <= start
               /\ \A seq \in Seqs : seq < start
    <3>1. start = n + 1 BY <1>1, <1>2, <1>3, <2>2
    <3>2. \A other \in starts' : other <= n + 1
      BY <1>1, <1>2, <1>3, SeqsType
    <3>3. \A seq \in Seqs : seq < n + 1 BY <1>1, <1>2, <1>3, SeqsType
    <3> QED BY <3>1, <3>2, <3>3
  <2> QED BY <2>1, <2>2 DEF Shape
<1>6. FilesOk'
  BY <1>1, <1>5 DEF JournalInv, FilesOk, NothingLost, Seqs
<1> QED BY <1>1, <1>3, <1>4, <1>6 DEF JournalInv, InFlight, AtStage

-----------------------------------------------------------------------------
(* Compaction *)

\* A compaction leaves a segment that begins with a committed event: what a
\* handler appends never fills all the segments that are retained.
LEMMA Survivor ==
    ASSUME JournalInv, stage = "compacting", Closed > CompactAfter
    PROVE  \E start \in starts \ Compacting : start <= saved.last
<1> DEFINE L == saved.last
           K == {s \in starts : s <= L}
           B == {s \in starts : s > L}
<1>1. JournalTypes /\ starts \in SUBSET Nat /\ starts \in SUBSET (0 .. MaxSeq) /\ IsFiniteSet(starts)
  <2>1. JournalTypes BY DEF JournalInv
  <2>2. starts \in SUBSET (1 .. MaxSeq) /\ starts \in SUBSET Nat BY <2>1, SeqsType
  <2>3. IsFiniteSet(1 .. MaxSeq) BY BoundAssumption, FS_Interval
  <2>4. IsFiniteSet(starts) BY <2>2, <2>3, FS_Subset
  <2>5. starts \in SUBSET (0 .. MaxSeq) BY <2>2
  <2> QED BY <2>1, <2>2, <2>4, <2>5
<1>2. L \in Nat /\ work.last \in Nat BY <1>1, BoundAssumption DEF JournalTypes, Loose
<1>3. IsFiniteSet(K) /\ IsFiniteSet(B) BY <1>1, FS_Subset
<1>4. Cardinality(starts) = Cardinality(K) + Cardinality(B)
  <2>1. K \cup B = starts /\ K \cap B = {}
    <3>1. \A s \in starts : s \in Nat /\ (s <= L <=> ~(s > L)) BY <1>1, <1>2
    <3> HIDE DEF L
    <3> QED BY <3>1
  <2>2. Cardinality(K \cap B) = 0 BY <2>1, FS_EmptySet
  <2>3. Cardinality(K \cup B) = Cardinality(K) + Cardinality(B) - 0
    BY <1>3, <2>2, FS_Union
  <2>4. Cardinality(K) \in Nat /\ Cardinality(B) \in Nat BY <1>3, FS_CardinalityType
  <2> HIDE DEF K, B
  <2>5. Cardinality(starts) = Cardinality(K) + Cardinality(B) - 0 BY <2>1, <2>3, Zenon
  <2> QED BY <2>4, <2>5
<1>5. Cardinality(B) <= Retain /\ Retain \in Nat /\ CompactAfter \in Nat /\ Retain < CompactAfter
  <2>1. B \in SUBSET Appended
    <3>1. starts \subseteq Seqs /\ \A seq \in Seqs : seq <= work.last
      BY DEF JournalInv, AtStage, Ended
    <3> QED BY <3>1 DEF Appended, Seqs
  <2>2. Appended = L + 1 .. work.last /\ Cardinality(Appended) = work.last - L
    BY AppendedCount
  <2>3. IsFiniteSet(Appended) BY <1>2, <2>2, FS_Interval
  <2>4. Cardinality(B) <= Cardinality(Appended) BY <2>1, <2>3, FS_Subset
  <2>5. work.last <= L + MaxAppends BY DEF JournalInv, InFlight
  <2>6. Cardinality(B) \in Nat BY <1>3, FS_CardinalityType
  <2> HIDE DEF B, L
  <2> QED BY <1>2, <2>2, <2>4, <2>5, <2>6, RetainAssumption
<1>6. Cardinality(K) \in Nat /\ Cardinality(B) \in Nat BY <1>3, FS_CardinalityType
<1>7. Closed = Cardinality(K) + Cardinality(B) - 1
  <2>1. Closed = Cardinality(starts) - 1 BY DEF Closed
  <2> HIDE DEF K, B
  <2> QED BY <1>4, <1>6, <2>1
<1> DEFINE m == Max(K)
<1>8. m \in K /\ \A s \in K : s <= m
  <2>1. K # {}
    <3> HIDE DEF K, B
    <3>1. Cardinality(K) # 0 BY <1>5, <1>6, <1>7
    <3> QED BY <3>1, FS_EmptySet
  <2>2. K \in SUBSET (0 .. MaxSeq) BY <1>1
  <2> HIDE DEF K
  <2> QED BY <2>1, <2>2, GreatestOf
<1> HIDE DEF m
<1>9. {s \in starts : s < m} = K \ {m}
  <2>1. ASSUME NEW s \in starts PROVE s < m <=> s \in K \ {m}
    BY <1>1, <1>2, <1>8
  <2> QED BY <2>1
<1>10. Cardinality(K \ {m}) = Cardinality(K) - 1 BY <1>3, <1>8, FS_RemoveElement
<1>11. m \notin Compacting
  <2> SUFFICES ASSUME m \in Compacting PROVE FALSE OBVIOUS
  <2>1. Cardinality({s \in starts : s < m}) < Closed - Retain BY DEF Compacting, Oldest
  <2> HIDE DEF K, B
  <2>2. Cardinality(K) - 1 < Cardinality(K) + Cardinality(B) - 1 - Retain 
    <3>1. Cardinality(K \ {m}) < Closed - Retain BY <1>9, <2>1
    <3> QED BY <1>5, <1>6, <1>7, <1>10, <3>1
  <2> QED BY <1>5, <1>6, <2>2
<1> QED BY <1>8, <1>11

\* The first segments are compacted.
LEMMA CompactingIs ==
    ASSUME JournalTypes, Closed > CompactAfter
    PROVE  /\ Compacting \subseteq starts /\ Compacting # {}
           /\ \A start \in Compacting : \A other \in starts : other < start => other \in Compacting
<1>1. starts \in SUBSET Nat /\ IsFiniteSet(starts)
  <2>1. IsFiniteSet(1 .. MaxSeq) BY BoundAssumption, FS_Interval
  <2> QED BY <2>1, SeqsType, FS_Subset
<1>2. Cardinality(starts) \in Nat BY <1>1, FS_CardinalityType
<1>3. ASSUME NEW start \in Compacting, NEW other \in starts, other < start PROVE other \in Compacting
  <2> DEFINE A(x) == {s \in starts : s < x}
  <2>1. A(other) \in SUBSET A(start)
    <3>1. \A s \in starts : s < other => s < start BY <1>1, <1>3 DEF Compacting, Oldest
    <3> QED BY <3>1
  <2>2. IsFiniteSet(A(start)) /\ IsFiniteSet(A(other)) BY <1>1, FS_Subset
  <2>3. Cardinality(A(other)) <= Cardinality(A(start)) BY <2>1, <2>2, FS_Subset
  <2>4. Cardinality(A(start)) < Closed - Retain BY DEF Compacting, Oldest
  <2>5. Cardinality(A(other)) \in Nat /\ Cardinality(A(start)) \in Nat /\ Closed \in Int /\ Retain \in Nat
    BY <1>2, <2>2, FS_CardinalityType, RetainAssumption DEF Closed
  <2>6. Cardinality(A(other)) < Closed - Retain
    <3> HIDE DEF A
    <3> QED BY <2>3, <2>4, <2>5
  <2> QED BY <2>6 DEF Compacting, Oldest
<1>4. Compacting # {}
  <2> DEFINE m == Min(starts)
  <2>1. starts # {}
    <3>1. Cardinality(starts) # 0 BY <1>2, RetainAssumption DEF Closed
    <3> QED BY <3>1, FS_EmptySet
  <2>2. m \in starts /\ \A s \in starts : m <= s BY <1>1, <2>1, MinOf
  <2> HIDE DEF m
  <2>3. {s \in starts : s < m} = {}
    <3>1. \A s \in starts : ~(s < m) BY <1>1, <2>2
    <3> QED BY <3>1
  <2>4. Cardinality({s \in starts : s < m}) = 0 BY <2>3, FS_EmptySet
  <2>5. 0 < Closed - Retain BY <1>2, RetainAssumption DEF Closed
  <2>6. m \in Compacting BY <2>2, <2>4, <2>5 DEF Compacting, Oldest
  <2> QED BY <2>6
<1> QED BY <1>3, <1>4 DEF Compacting, Oldest

\* The next checkpoint ends with the last event of the compacted segments, or later.
LEMMA NextCheckpointIs ==
    ASSUME JournalTypes
    PROVE  /\ NextCheckpoint.through \in 0 .. MaxSeq
           /\ checkpoint.through <= NextCheckpoint.through
           /\ \A seq \in CompactedEvents : seq <= NextCheckpoint.through
           /\ NextCheckpoint.through \in CompactedEvents \cup {checkpoint.through}
           /\ NextCheckpoint.revision = work.revision + 1
           /\ NextCheckpoint.preserved \in Journals
           /\ CompactedEvents \subseteq Seqs
<1> DEFINE S == CompactedEvents \cup {checkpoint.through}
<1>0. CompactedEvents \subseteq Seqs BY DEF CompactedEvents, InSegment, Seqs
<1>1. S \in SUBSET (0 .. MaxSeq) /\ S # {}
  BY <1>0, SeqsType DEF JournalTypes
<1>2. Max(S) \in S /\ \A x \in S : x <= Max(S) BY <1>1, GreatestOf
<1>3. NextCheckpoint.through = Max(S) BY DEF NextCheckpoint
<1>4. NextCheckpoint.preserved \in Journals
  <2> DEFINE refs == Range(work.directives)
             old == Only(checkpoint.preserved, refs)
             new == Only(events, CompactedEvents \cap refs)
  <2>1. old \in Journals /\ new \in Journals BY OnlyIs DEF JournalTypes
  <2>2. NextCheckpoint.preserved = [seq \in DOMAIN old \cup DOMAIN new |->
                                      IF seq \in DOMAIN old THEN old[seq] ELSE new[seq]]
    BY DEF NextCheckpoint, Preserved
  <2> HIDE DEF old, new
  <2>3. /\ DOMAIN old \cup DOMAIN new \in SUBSET (1 .. MaxSeq)
        /\ \A seq \in DOMAIN old : old[seq] \in Kinds
        /\ \A seq \in DOMAIN new : new[seq] \in Kinds
    BY <2>1, JournalIs
  <2>4. NextCheckpoint.preserved \in [DOMAIN old \cup DOMAIN new -> Kinds]
    BY <2>2, <2>3
  <2> QED BY <2>3, <2>4 DEF Journals
<1>5. NextCheckpoint.revision = work.revision + 1 BY DEF NextCheckpoint
<1> QED BY <1>0, <1>1, <1>2, <1>3, <1>4, <1>5

\* compact_if_needed writes the checkpoint.
LEMMA CompactOk == ASSUME JournalInv, Compact PROVE JournalInv'
<1>1. /\ JournalTypes /\ stage = "compacting" /\ Closed > CompactAfter
      /\ checkpoint' = NextCheckpoint /\ doomed' = Compacting /\ stage' = "removing"
      /\ UNCHANGED <<saved, work, events, starts, torn>>
  BY DEF JournalInv, Compact
<1>2. Seqs' = Seqs BY <1>1 DEF Seqs
<1>3. JournalTypes'
  <2>1. work.revision + 1 \in Nat BY <1>1 DEF JournalTypes, Loose
  <2> QED BY <1>1, <2>1, CompactingIs, NextCheckpointIs DEF JournalTypes, Stages
<1>4. NothingLost'
  <2>1. ASSUME NEW seq \in 1 .. saved.last, seq \notin Seqs PROVE seq <= checkpoint'.through
    <3>1. seq <= checkpoint.through BY <2>1 DEF JournalInv, FilesOk, NothingLost, Seqs
    <3>2. saved.last \in Nat BY <1>1, BoundAssumption DEF JournalTypes, Loose
    <3>3. checkpoint.through \in Nat /\ checkpoint'.through \in Nat
      BY <1>1, <1>3, BoundAssumption DEF JournalTypes
    <3>4. checkpoint.through <= checkpoint'.through BY <1>1, NextCheckpointIs
    <3> QED BY <3>1, <3>2, <3>3, <3>4
  <2> QED BY <1>1, <2>1 DEF NothingLost, Seqs
<1>5. FilesOk' BY <1>1, <1>2, <1>4 DEF JournalInv, FilesOk
<1>6. InFlight' BY <1>1, <1>2 DEF JournalInv, InFlight
<1>7. AtStage'
  <2>1. Compacting # {} /\ \A start \in Compacting : \A other \in starts : other < start => other \in Compacting
    BY <1>1, CompactingIs
  <2>2. \A start \in doomed' : \A seq \in InSegment(start)' : seq <= checkpoint'.through
    <3>1. ASSUME NEW start \in Compacting, NEW seq \in InSegment(start) PROVE seq <= checkpoint'.through
      <4>1. seq \in CompactedEvents BY <3>1 DEF CompactedEvents
      <4> QED BY <1>1, <4>1, NextCheckpointIs
    <3> QED BY <1>1, <3>1 DEF InSegment
  <2>3. \E start \in starts \ Compacting : start <= saved.last BY <1>1, Survivor
  <2>4. saved.last < work.last /\ Ended(starts, Seqs, work.last) BY <1>1 DEF JournalInv, AtStage
  <2> QED BY <1>1, <1>2, <2>1, <2>2, <2>3, <2>4 DEF AtStage
<1> QED BY <1>3, <1>5, <1>6, <1>7 DEF JournalInv

\* What a step of the removal of compacted segments does to the files.
LEMMA RemovedFirst ==
    ASSUME JournalInv, RemoveCompacted
    PROVE  /\ NextDoomed \in doomed /\ \A start \in starts : NextDoomed <= start
           /\ starts' = starts \ {NextDoomed} /\ starts' # {}
           /\ Seqs' = Seqs \ InSegment(NextDoomed)
           /\ events' \in Journals /\ torn' \in BOOLEAN
           /\ \A seq \in Seqs' : events'[seq] = events[seq]
           /\ \A first \in Seqs' : \A seq \in Seqs : seq >= first => seq \in Seqs'
           /\ \A start \in starts' : InSegment(start)' = InSegment(start)
           /\ \E start \in starts' : start <= saved.last /\ \A seq \in Seqs : seq >= start => seq \in Seqs'
<1> DEFINE d == NextDoomed
<1>1. JournalTypes /\ stage = "removing" /\ RemoveSegment(d)
  BY DEF JournalInv, RemoveCompacted
<1>2. /\ doomed # {} /\ doomed \subseteq starts
      /\ \A start \in doomed : \A other \in starts : other < start => other \in doomed
      /\ \E start \in starts \ doomed : start <= saved.last
      /\ Shape(starts, Seqs)
  BY <1>1 DEF JournalInv, JournalTypes, AtStage, FilesOk
<1>3. doomed \in SUBSET Nat /\ starts \in SUBSET Nat /\ Seqs \in SUBSET Nat BY <1>1, <1>2, SeqsType
<1>4. d \in doomed /\ \A start \in doomed : d <= start
  BY <1>2, <1>3, MinOf DEF NextDoomed
<1> HIDE DEF d
<1>5. \A start \in starts : d <= start
  <2> TAKE start \in starts
  <2>1. CASE start < d BY <1>2, <1>4, <2>1
  <2>2. CASE ~(start < d) BY <1>2, <1>3, <1>4, <2>2
  <2> QED BY <2>1, <2>2
<1>6. /\ starts' = starts \ {d}
      /\ Seqs' = Seqs \ Inside(starts, Seqs, d)
      /\ events' \in Journals /\ torn' \in BOOLEAN
      /\ \A seq \in Seqs' : events'[seq] = events[seq]
  BY <1>1, <1>2, <1>4, RemoveIs
<1>7. PICK s \in starts \ {d} : s <= saved.last BY <1>2, <1>4
<1>8. /\ \A seq \in Seqs : seq >= s => seq \in Seqs'
      /\ \A first \in Seqs' : \A seq \in Seqs : seq >= first => seq \in Seqs'
  <2> DEFINE D2 == Seqs \ Inside(starts, Seqs, d)
  <2>1. d \in starts BY <1>2, <1>4
  <2>4. D2 = Seqs \ Inside(starts, Seqs, d) OBVIOUS
  <2> HIDE DEF D2
  <2>5. Shape(starts, Seqs) BY <1>2
  <2>2. /\ \A seq \in Seqs : seq >= s => seq \in D2
        /\ \A first \in D2 : \A seq \in Seqs : seq >= first => seq \in D2
    BY <1>3, <1>5, <1>7, <2>1, <2>4, <2>5, DropFirst
  <2>3. Seqs' = D2 BY <1>6, <2>4
  <2> QED BY <2>2, <2>3
<1>9. ASSUME NEW start \in starts' PROVE InSegment(start)' = InSegment(start)
  <2>1. InSegment(start)' = Inside(starts', Seqs', start) BY DEF InSegment, Inside, Seqs
  <2>2. InSegment(start) = Inside(starts, Seqs, start) BY InsideIs
  <2>3. start \in starts /\ start > d BY <1>3, <1>4, <1>2, <1>5, <1>6, <1>9
  <2>4. ASSUME NEW seq \in Seqs, seq >= start PROVE seq \in Seqs'
    <3>1. seq \notin Inside(starts, Seqs, d) BY <1>3, <2>3, <2>4 DEF Inside
    <3> QED BY <1>6, <3>1
  <2>5. ASSUME NEW seq \in Seqs PROVE seq \in Inside(starts, Seqs, start) <=> seq \in Inside(starts', Seqs', start)
    <3>1. ASSUME seq >= start, \A later \in starts' : later > start => seq < later,
                 NEW later \in starts, later > start
          PROVE  seq < later
      <4>1. later # d BY <1>2, <1>3, <1>4, <1>5, <2>3, <3>1
      <4> QED BY <1>6, <3>1, <4>1
    <3> QED BY <1>6, <2>4, <3>1 DEF Inside
  <2>6. Seqs' \subseteq Seqs BY <1>6
  <2> QED BY <2>1, <2>2, <2>5, <2>6 DEF Inside
<1>10. Seqs' = Seqs \ InSegment(d) BY <1>6, InsideIs
<1> QED BY <1>4, <1>5, <1>6, <1>7, <1>8, <1>9, <1>10 DEF d

\* compact_if_needed removes one segment.
LEMMA RemoveCompactedOk == ASSUME JournalInv, RemoveCompacted PROVE JournalInv'
<1> DEFINE d == NextDoomed
<1>1. /\ JournalTypes /\ stage = "removing" /\ doomed' = doomed \ {d}
      /\ UNCHANGED <<saved, checkpoint>>
      /\ \/ /\ doomed' = {} /\ stage' = "appended"
            /\ work' = [work EXCEPT !.revision = checkpoint.revision,
                                    !.compacted = checkpoint.through,
                                    !.retained = Min(starts')]
         \/ doomed' # {} /\ UNCHANGED <<work, stage>>
  BY DEF JournalInv, RemoveCompacted
<1>2. /\ d \in doomed /\ d \in starts
      /\ starts' = starts \ {d} /\ starts' # {}
      /\ Seqs' = Seqs \ InSegment(d)
      /\ events' \in Journals /\ torn' \in BOOLEAN
      /\ \A first \in Seqs' : \A seq \in Seqs : seq >= first => seq \in Seqs'
      /\ \A start \in starts' : InSegment(start)' = InSegment(start)
  BY <1>1, RemovedFirst DEF JournalTypes
<1>3. PICK s \in starts' : s <= saved.last /\ \A seq \in Seqs : seq >= s => seq \in Seqs'
  BY RemovedFirst
<1>4. /\ saved.last < work.last /\ Ended(starts, Seqs, work.last)
      /\ \A start \in doomed : \A other \in starts : other < start => other \in doomed
      /\ \A start \in doomed : \A seq \in InSegment(start) : seq <= checkpoint.through
      /\ \E start \in starts \ doomed : start <= saved.last
      /\ saved.last <= work.last /\ work.last <= saved.last + MaxAppends
      /\ Solid(Seqs, work.last) /\ Solid(Seqs, saved.last)
      /\ saved.last + 1 .. work.last \subseteq Seqs
  BY <1>1 DEF JournalInv, AtStage, InFlight, FilesOk
<1> HIDE DEF d
<1>5. work' \in Loose /\ work'.last = work.last
  <2>1. Min(starts') \in 0 .. MaxSeq + 1
    <3>1. starts' \in SUBSET Nat BY <1>1, <1>2, SeqsType
    <3>2. Min(starts') \in starts' BY <1>2, <3>1, MinOf
    <3> QED BY <1>1, <1>2, <3>2, SeqsType
  <2>2. checkpoint.revision \in Nat /\ checkpoint.through \in 0 .. MaxSeq /\ work \in Loose
    BY <1>1 DEF JournalTypes
  <2> DEFINE least == Min(starts')
  <2> HIDE DEF least
  <2>3. \/ work' = [work EXCEPT !.revision = checkpoint.revision, !.compacted = checkpoint.through,
                                !.retained = least]
        \/ work' = work
    BY <1>1 DEF least
  <2>4. least \in 0 .. MaxSeq + 1 BY <2>1 DEF least
  <2> QED BY <2>2, <2>3, <2>4 DEF Loose
<1>6. JournalTypes'
  BY <1>1, <1>2, <1>5 DEF JournalTypes, Stages
<1>7. saved.last \in Nat /\ work.last \in Nat /\ s \in Nat /\ Seqs \in SUBSET Nat
  BY <1>1, <1>2, BoundAssumption, SeqsType DEF JournalTypes, Loose
<1>8. ASSUME NEW n \in Nat, saved.last <= n, Solid(Seqs, n) PROVE Solid(Seqs', n)
  <2>1. n >= s BY <1>3, <1>7, <1>8
  <2>2. n > 0 => n \in Seqs' BY <1>3, <1>8, <2>1 DEF Solid
  <2>3. ASSUME NEW first \in Seqs', NEW seq \in first .. n PROVE seq \in Seqs'
    <3>1. first \in Seqs /\ first \in Nat BY <1>2, <1>7
    <3>2. seq \in Seqs /\ seq >= first BY <1>8, <3>1 DEF Solid
    <3> QED BY <1>2, <3>2
  <2> QED BY <2>2, <2>3 DEF Solid
<1>9. FilesOk'
  <2>1. Shape(starts', Seqs')
    <3>1. RemoveSegment(d) BY DEF RemoveCompacted, d
    <3> QED BY <1>1, <1>2, <3>1, RemoveIs DEF JournalInv, FilesOk
  <2>2. ASSUME NEW seq \in 1 .. saved.last PROVE seq \in Seqs' \/ seq <= checkpoint.through
    BY <1>2, <1>4 DEF JournalInv, FilesOk, NothingLost, Seqs
  <2> QED BY <1>1, <1>4, <1>7, <1>8, <2>1, <2>2 DEF FilesOk, NothingLost, Seqs
<1>10. InFlight'
  <2>1. Solid(Seqs', work.last) BY <1>4, <1>7, <1>8
  <2>2. \A seq \in saved.last + 1 .. work.last : seq \in Seqs' BY <1>3, <1>4, <1>7
  <2> QED BY <1>1, <1>4, <1>5, <2>1, <2>2 DEF InFlight
<1>11. AtStage'
  <2>1. Ended(starts', Seqs', work.last)
    <3>1. ASSUME NEW start \in starts' PROVE start \in Seqs'
      <4>1. start \in Seqs BY <1>2, <1>4 DEF Ended
      <4>2. start \in Inside(starts, Seqs, start) BY <4>1, <1>7, SeqsType, <1>1 DEF Inside
      <4>3. start \in InSegment(start)' BY <1>2, <4>2, InsideIs
      <4> QED BY <4>3 DEF InSegment, Seqs
    <3> QED BY <1>2, <1>4, <3>1 DEF Ended
  <2>2. \A start \in doomed' : \A other \in starts' : other < start => other \in doomed'
    BY <1>1, <1>2, <1>4
  <2>3. \A start \in doomed' : \A seq \in InSegment(start)' : seq <= checkpoint'.through
    <3>1. \A start \in doomed' : start \in starts' /\ start \in doomed
      BY <1>1, <1>2 DEF JournalTypes
    <3> QED BY <1>1, <1>2, <1>4, <3>1
  <2>4. \E start \in starts' \ doomed' : start <= saved.last
    BY <1>1, <1>2, <1>4
  <2> QED BY <1>1, <1>4, <1>5, <2>1, <2>2, <2>3, <2>4 DEF AtStage
<1> QED BY <1>6, <1>9, <1>10, <1>11 DEF JournalInv

\* What only handlers change.
JournalVars == <<saved, work, stage, doomed, files>>

-----------------------------------------------------------------------------
(* The invariant holds *)

\* A new mission has an empty journal.
LEMMA InitOk == ASSUME Init PROVE JournalInv
<1>1. JournalTypes
  <2>1. events \in Journals BY BoundAssumption DEF Init, Journals
  <2>2. <<>> \in Journals BY <2>1 DEF Init
  <2>3. checkpoint.revision = 0 /\ checkpoint.through = 0 /\ checkpoint.preserved = <<>>
    BY DEF Init, NoCheckpoint
  <2>4. 0 \in 0 .. MaxSeq BY BoundAssumption
  <2>5. saved \in Loose /\ work \in Loose BY NewProjectionType DEF Init
  <2>6. stage \in Stages /\ starts \subseteq 1 .. MaxSeq /\ doomed \subseteq starts /\ torn \in BOOLEAN
    BY DEF Init, Stages
  <2> QED BY <2>1, <2>2, <2>3, <2>4, <2>5, <2>6 DEF JournalTypes
<1>2. saved.last = 0 /\ Seqs = {} BY DEF Init, NewProjection, Seqs
<1>3. FilesOk BY <1>2 DEF Init, FilesOk, Shape, Solid, NothingLost
<1> QED BY <1>1, <1>3 DEF Init, JournalInv, InFlight, AtStage

\* Readers change nothing.
LEMMA SameJournalOk == ASSUME JournalInv, UNCHANGED JournalVars PROVE JournalInv'
<1>1. JournalTypes' BY DEF JournalInv, JournalTypes, JournalVars, files
<1>2. FilesOk' /\ Seqs' = Seqs BY SameFiles DEF JournalInv, JournalVars, files
<1> QED BY <1>1, <1>2 DEF JournalInv, InFlight, AtStage, JournalVars, files, InSegment

\* Every step keeps the journal in order.
LEMMA StepOk == ASSUME JournalInv, [Next]_vars PROVE JournalInv'
<1>1. CASE HandlerStep
  <2>1. CASE \E kind \in Kinds, rotate \in BOOLEAN : Write(kind, rotate) BY <2>1, WriteOk
  <2>2. CASE \E rotate \in BOOLEAN : WriteTorn(rotate) BY <2>2, WriteTornOk
  <2> QED BY <1>1, <2>1, <2>2, BeginOk, RollbackOk, RemoveOrphanOk, ReconcileOk, RefuseOk, CompactOk,
             NeedNotCompactOk, RemoveCompactedOk, AgainOk, SaveOk, AbortOk DEF HandlerStep
<1>2. CASE ReaderStep
  <2>1. UNCHANGED JournalVars
    BY <1>2 DEF ReaderStep, Load, List, ReadSegment, Merge, JournalVars
  <2> QED BY <2>1, SameJournalOk
<1>3. CASE UNCHANGED vars
  BY <1>3, SameJournalOk DEF vars, JournalVars
<1> QED BY <1>1, <1>2, <1>3 DEF Next

\* The files of the journal are in order in every state, also between two
\* file operations of a handler and after one that failed (events.rs append).
THEOREM JournalHolds == Spec => []JournalInv
<1>1. JournalInv /\ [Next]_vars => JournalInv' BY StepOk
<1> QED BY <1>1, InitOk, PTL DEF Spec

\* A committed event leaves the journal only when a checkpoint covers it
\* (compact_if_needed, reconcile_projection).
THEOREM NothingIsLost == Spec => []NothingLost
BY JournalHolds, PTL DEF JournalInv, FilesOk

\* When a handler writes, the journal ends where its projection says: no
\* uncommitted event of another handler is left (reconcile_projection).
THEOREM AppendsContinue == Spec => []AppendContinues
<1>1. JournalInv => AppendContinues
  BY DEF JournalInv, AppendContinues, AtStage, InFlight, Solid, Seqs
<1> QED BY <1>1, JournalHolds, PTL

-----------------------------------------------------------------------------
(* The refinement of MissionHistory *)

\* A step that does not remove compacted segments leaves the committed events alone.
LEMMA CommittedStay ==
    ASSUME JournalInv, [Next]_vars, ~RemoveCompacted
    PROVE  \A seq \in 1 .. saved.last :
             /\ seq \in Seqs' <=> seq \in Seqs
             /\ seq \in Seqs => events'[seq] = events[seq]
<1>1. JournalTypes /\ saved.last \in Nat /\ work.last \in Nat /\ events \in Journals
      /\ Seqs \in SUBSET Nat
  BY BoundAssumption, SeqsType DEF JournalInv, JournalTypes, Loose
<1>2. CASE UNCHANGED events
  BY <1>2 DEF Seqs
<1>3. CASE Rollback
  <2>1. stage = "reconciling" /\ Orphans(work) BY <1>3 DEF Rollback
  <2>2. work.last = saved.last BY <2>1, RollbackCursor
  <2>3. CASE work.last = 0 BY <1>3, <2>3, <1>2 DEF Rollback
  <2>4. CASE work.last # 0
    <3> DEFINE beyond == BeyondCursor(work, SegmentOf(work.last))
    <3>1. events' = Only(events, DOMAIN events \ beyond) BY <1>3, <2>4 DEF Rollback
    <3>2. \A seq \in beyond : seq > saved.last BY <2>2 DEF BeyondCursor
    <3> HIDE DEF beyond
    <3>3. /\ DOMAIN events' = DOMAIN events \cap (DOMAIN events \ beyond)
          /\ \A seq \in DOMAIN events \cap (DOMAIN events \ beyond) : events'[seq] = events[seq]
      BY <1>1, <3>1, OnlyIs
    <3> QED BY <1>1, <3>2, <3>3 DEF Seqs
  <2> QED BY <2>3, <2>4
<1>4. CASE RemoveOrphan
  <2> DEFINE d == NextDoomed
  <2>1. RemoveSegment(d) /\ stage = "undoing" BY <1>4 DEF RemoveOrphan
  <2>2. doomed # {} /\ doomed \subseteq starts /\ \A start \in doomed : start > saved.last
    BY <1>1, <2>1 DEF JournalInv, AtStage, JournalTypes
  <2>3. doomed \in SUBSET Nat BY <1>1, <2>2, SeqsType
  <2>4. d \in doomed BY <2>2, <2>3, MinOf DEF NextDoomed
  <2> HIDE DEF d
  <2>5. /\ Seqs' = Seqs \ Inside(starts, Seqs, d)
        /\ \A seq \in Seqs' : events'[seq] = events[seq]
    BY <1>1, <2>1, <2>2, <2>4, RemoveIs
  <2>6. d > saved.last /\ d \in Nat BY <2>2, <2>3, <2>4
  <2>7. ASSUME NEW seq \in 1 .. saved.last PROVE seq \notin Inside(starts, Seqs, d)
    BY <1>1, <2>6 DEF Inside
  <2> QED BY <2>5, <2>7
<1>5. CASE \E kind \in Kinds, rotate \in BOOLEAN : Write(kind, rotate)
  <2>1. PICK kind \in Kinds, rotate \in BOOLEAN : Write(kind, rotate) BY <1>5
  <2>2. events' = [seq \in Seqs \cup {work.last + 1} |->
                     IF seq = work.last + 1 THEN kind ELSE events[seq]]
    BY <2>1 DEF Write, Seqs
  <2>3. saved.last <= work.last
    BY <2>1 DEF JournalInv, InFlight, Write
  <2>4. Seqs' = Seqs \cup {work.last + 1} BY <2>2 DEF Seqs
  <2> QED BY <1>1, <2>2, <2>3, <2>4
<1>6. CASE Begin \/ Reconcile \/ Refuse \/ (\E rotate \in BOOLEAN : WriteTorn(rotate)) \/ Compact
           \/ NeedNotCompact \/ Again \/ Save \/ Abort \/ ReaderStep \/ UNCHANGED vars
  BY <1>2, <1>6 DEF Begin, Reconcile, Refuse, WriteTorn, Compact, NeedNotCompact, Again, Save, Abort,
        ReaderStep, Load, List, ReadSegment, Merge, vars, files
<1> QED BY <1>3, <1>4, <1>5, <1>6 DEF Next, HandlerStep

\* The committed history is the same when its events are.
LEMMA LogStays ==
    ASSUME saved.last' = saved.last,
           \A seq \in 1 .. saved.last :
             /\ seq \in Seqs' <=> seq \in Seqs
             /\ seq \in Seqs => events'[seq] = events[seq]
    PROVE  CommittedLog' = CommittedLog
<1> DEFINE L == saved.last
           f == [seq \in 1 .. L |-> IF seq \in Seqs THEN events[seq] ELSE "compacted"]
           g == [seq \in 1 .. L |-> IF seq \in Seqs' THEN events'[seq] ELSE "compacted"]
<1>1. CommittedLog = f BY DEF CommittedLog, Seqs
<1>2. CommittedLog' = g BY DEF CommittedLog, Seqs
<1>3. ASSUME NEW seq \in 1 .. L PROVE f[seq] = g[seq]
  <2>1. /\ seq \in Seqs' <=> seq \in Seqs
        /\ seq \in Seqs => events'[seq] = events[seq]
    OBVIOUS
  <2>2. f[seq] = IF seq \in Seqs THEN events[seq] ELSE "compacted" OBVIOUS
  <2>3. g[seq] = IF seq \in Seqs' THEN events'[seq] ELSE "compacted" OBVIOUS
  <2> HIDE DEF f, g
  <2>4. CASE seq \in Seqs BY <2>1, <2>2, <2>3, <2>4
  <2>5. CASE seq \notin Seqs BY <2>1, <2>2, <2>3, <2>5
  <2> QED BY <2>4, <2>5
<1>4. DOMAIN f = 1 .. L /\ DOMAIN g = 1 .. L
      /\ f = [seq \in 1 .. L |-> f[seq]] /\ g = [seq \in 1 .. L |-> g[seq]]
  OBVIOUS
<1> HIDE DEF f, g
<1>5. f = g BY <1>3, <1>4
<1> QED BY <1>1, <1>2, <1>5

\* Only Save changes what the snapshot says is committed.
LEMMA SavedStays ==
    ASSUME [Next]_vars, ~Save
    PROVE  saved' = saved
BY DEF Next, HandlerStep, ReaderStep, Begin, Rollback, RemoveOrphan, Reconcile, Refuse, Write, WriteTorn,
       Compact, NeedNotCompact, RemoveCompacted, Again, Abort, Load, List, ReadSegment, Merge, vars, files

\* The committed history, event by event.
LEMMA LogIs ==
    ASSUME JournalInv
    PROVE  /\ DOMAIN CommittedLog = 1 .. saved.last
           /\ \A seq \in 1 .. saved.last :
                CommittedLog[seq] = IF seq \in Seqs THEN events[seq] ELSE "compacted"
BY DEF CommittedLog, Seqs

\* A removal compacts the events up to the last that left the journal.
LEMMA RemovalCompacts ==
    ASSUME JournalInv, RemoveCompacted
    PROVE  History!Compact \/ UNCHANGED CommittedLog
<1> DEFINE L == saved.last
           Gone == {seq \in 1 .. L : seq \notin Seqs'}
<1>1. /\ JournalTypes /\ L \in Nat /\ saved' = saved /\ Seqs \in SUBSET Nat
      /\ Solid(Seqs, L)
  BY BoundAssumption, SeqsType DEF JournalInv, JournalTypes, Loose, RemoveCompacted, FilesOk
<1>2. /\ Seqs' \subseteq Seqs /\ \A seq \in Seqs' : events'[seq] = events[seq]
      /\ \A first \in Seqs' : \A seq \in Seqs : seq >= first => seq \in Seqs'
  BY RemovedFirst
<1>3. /\ CommittedLog = [seq \in 1 .. L |-> IF seq \in Seqs THEN events[seq] ELSE "compacted"]
      /\ CommittedLog' = [seq \in 1 .. L |-> IF seq \in Seqs' THEN events'[seq] ELSE "compacted"]
  BY <1>1 DEF CommittedLog, Seqs
<1>4. CASE Gone = {}
  <2>1. \A seq \in 1 .. L : seq \in Seqs' BY <1>4
  <2>2. CommittedLog' = CommittedLog BY <1>2, <1>3, <2>1
  <2> QED BY <2>2
<1>5. CASE Gone # {}
  <2> DEFINE last == Max(Gone)
  <2>1. last \in Gone /\ \A seq \in Gone : seq <= last
    <3>1. Gone \in SUBSET (0 .. L) BY <1>1
    <3> HIDE DEF Gone
    <3> QED BY <1>1, <1>5, <3>1, MaxOf
  <2>2. last \in DOMAIN CommittedLog BY <1>3, <2>1
  <2>3. ASSUME NEW seq \in 1 .. L
        PROVE  CommittedLog'[seq] = IF seq <= last THEN "compacted" ELSE CommittedLog[seq]
    <3>1. CASE seq <= last
      <4>1. seq \notin Seqs'
        <5> SUFFICES ASSUME seq \in Seqs' PROVE FALSE OBVIOUS
        <5>1. last \in seq .. L BY <1>1, <2>1, <3>1
        <5>2. last \in Seqs BY <1>1, <1>2, <5>1 DEF Solid
        <5>3. last >= seq BY <1>1, <2>1, <3>1
        <5>4. last \in Seqs' BY <1>2, <5>2, <5>3
        <5> QED BY <2>1, <5>4
      <4> QED BY <1>3, <3>1, <4>1
    <3>2. CASE ~(seq <= last)
      <4>1. seq \in Seqs' BY <2>1, <3>2
      <4> QED BY <1>2, <1>3, <3>2, <4>1
    <3> QED BY <3>1, <3>2
  <2> HIDE DEF last
  <2>4. DOMAIN CommittedLog' = DOMAIN CommittedLog /\ DOMAIN CommittedLog = 1 .. L BY <1>3
  <2>5. CommittedLog' = [seq \in DOMAIN CommittedLog |->
                           IF seq <= last THEN "compacted" ELSE CommittedLog[seq]]
    BY <1>3, <2>3, <2>4
  <2>6. History!Compact BY <2>2, <2>5 DEF History!Compact
  <2> QED BY <2>6
<1> QED BY <1>4, <1>5

\* A save commits all events of its handler.
LEMMA SaveCommits ==
    ASSUME JournalInv, Save
    PROVE  History!Commit
<1> DEFINE L == saved.last
           n == work.last - saved.last
           batch == [i \in 1 .. n |-> events[L + i]]
<1>1. /\ JournalTypes /\ L \in Nat /\ work.last \in Nat /\ events \in Journals
      /\ MaxAppends \in Nat
  BY BoundAssumption, SeqsType DEF JournalInv, JournalTypes, Loose
<1>2. /\ L < work.last /\ work.last <= L + MaxAppends /\ L + 1 .. work.last \subseteq Seqs
  BY DEF JournalInv, AtStage, InFlight, Save
<1>3. n \in 1 .. MaxAppends /\ n \in Nat /\ work.last = L + n BY <1>1, <1>2
<1>4. batch \in [1 .. n -> Kinds]
  <2>1. ASSUME NEW i \in 1 .. n PROVE events[L + i] \in Kinds
    <3>1. L + i \in L + 1 .. work.last BY <1>1, <1>3
    <3> QED BY <1>1, <1>2, <3>1, JournalIs DEF Seqs
  <2> QED BY <2>1
<1>5. CommittedLog = [seq \in 1 .. L |-> IF seq \in Seqs THEN events[seq] ELSE "compacted"]
  BY DEF CommittedLog, Seqs
<1>6. CommittedLog' = [seq \in 1 .. L + n |-> IF seq \in Seqs THEN events[seq] ELSE "compacted"]
  <2>1. saved' = work /\ events' = events BY DEF Save, files
  <2> QED BY <1>3, <2>1 DEF CommittedLog, Seqs
<1> HIDE DEF n, L
<1>7. batch \in Seq(Kinds) /\ Len(batch) = n BY <1>3, <1>4, FunctionIsSeq
<1> DEFINE All == Kinds \cup {"compacted"}
<1>8. CommittedLog \in Seq(All) /\ Len(CommittedLog) = L
  <2>1. CommittedLog \in [1 .. L -> All]
    <3>1. \A seq \in Seqs : events[seq] \in Kinds BY <1>1, JournalIs DEF Seqs
    <3> QED BY <1>5, <3>1
  <2> QED BY <1>1, <2>1, FunctionIsSeq
<1>9. CommittedLog' \in Seq(All) /\ Len(CommittedLog') = L + n
  <2>1. CommittedLog' \in [1 .. L + n -> All]
    <3>1. \A seq \in Seqs : events[seq] \in Kinds BY <1>1, JournalIs DEF Seqs
    <3> QED BY <1>6, <3>1
  <2>2. L + n \in Nat BY <1>1, <1>3
  <2> QED BY <2>1, <2>2, FunctionIsSeq
<1>10. batch \in Seq(All) BY <1>7, SeqMonotonic
<1> DEFINE longer == CommittedLog \o batch
<1> HIDE DEF batch, All
<1>11. /\ longer \in Seq(All) /\ Len(longer) = L + n
       /\ \A i \in 1 .. L + n : longer[i] = IF i <= L THEN CommittedLog[i] ELSE batch[i - L]
  <2> DEFINE log == CommittedLog
  <2>1. log \in Seq(All) /\ Len(log) = L BY <1>8
  <2> HIDE DEF log
  <2>2. /\ log \o batch \in Seq(All) /\ Len(log \o batch) = Len(log) + Len(batch)
        /\ \A i \in 1 .. Len(log) + Len(batch) :
              (log \o batch)[i] = IF i <= Len(log) THEN log[i] ELSE batch[i - Len(log)]
    BY <1>10, <2>1, ConcatProperties
  <2>3. /\ log \o batch \in Seq(All) /\ Len(log \o batch) = L + n
        /\ \A i \in 1 .. L + n : (log \o batch)[i] = IF i <= L THEN log[i] ELSE batch[i - L]
    BY <1>7, <2>1, <2>2
  <2> QED BY <2>3 DEF log
<1> HIDE DEF longer
<1>12. ASSUME NEW i \in 1 .. L + n PROVE CommittedLog'[i] = longer[i]
  <2>1. CASE i <= L
    <3>1. i \in 1 .. L BY <1>1, <1>3, <2>1
    <3> QED BY <1>5, <1>6, <1>11, <2>1, <3>1
  <2>2. CASE ~(i <= L)
    <3>1. i - L \in 1 .. n /\ L + (i - L) = i /\ i \in L + 1 .. L + n BY <1>1, <1>3, <2>2
    <3>2. batch[i - L] = events[i] BY <3>1 DEF batch
    <3>3. i \in Seqs BY <1>2, <1>3, <3>1
    <3> QED BY <1>6, <1>11, <2>2, <3>2, <3>3
  <2> QED BY <2>1, <2>2
<1>13. CommittedLog' = longer BY <1>9, <1>11, <1>12, SeqEqual
<1>14. batch \in [1 .. n -> Kinds] BY <1>4
<1> QED BY <1>3, <1>14, <1>13 DEF History!Commit, longer

\* The journal implements MissionHistory: a save commits the events of its
\* handler in order, and otherwise only the oldest events leave the journal.
THEOREM HistoryIsKept == Spec => HistoryKept
<1>1. Init => History!Init
  <2>1. ASSUME Init PROVE CommittedLog = <<>>
    <3>1. saved.last = 0 BY <2>1 DEF Init, NewProjection
    <3>2. CommittedLog \in [1 .. 0 -> Kinds] BY <3>1 DEF CommittedLog
    <3>3. CommittedLog \in Seq(Kinds) /\ Len(CommittedLog) = 0 BY <3>2, FunctionIsSeq
    <3> QED BY <3>3, EmptySeq
  <2> QED BY <2>1 DEF History!Init
<1>2. JournalInv /\ [Next]_vars => [History!Next]_CommittedLog
  <2> SUFFICES ASSUME JournalInv, [Next]_vars PROVE [History!Next]_CommittedLog
    OBVIOUS
  <2>1. CASE RemoveCompacted BY <2>1, RemovalCompacts DEF History!Next
  <2>2. CASE Save BY <2>2, SaveCommits DEF History!Next
  <2>3. CASE ~RemoveCompacted /\ ~Save
    BY <2>3, CommittedStay, SavedStays, LogStays
  <2> QED BY <2>1, <2>2, <2>3
<1> QED BY <1>1, <1>2, JournalHolds, PTL DEF Spec, HistoryKept, History!Spec

\* A segment that begins with a committed event, and what follows it, has all of them.
LEMMA CommittedSegment ==
    ASSUME JournalInv, NEW start \in starts, NEW seq \in start .. saved.last
    PROVE  seq \in Seqs
<1>1. saved.last \in Nat /\ start \in Nat /\ start > 0
  BY BoundAssumption, SeqsType DEF JournalInv, JournalTypes, Loose
<1>2. Shape(starts, Seqs) /\ Solid(Seqs, saved.last) BY DEF JournalInv, FilesOk
<1>3. saved.last \in Seqs /\ start <= saved.last BY <1>1, <1>2 DEF Solid
<1>4. start \in Seqs
  <2> SUFFICES ASSUME start \notin Seqs PROVE FALSE OBVIOUS
  <2>1. saved.last < start BY <1>2, <1>3 DEF Shape
  <2> QED BY <1>1, <1>3, <2>1
<1> QED BY <1>2, <1>4 DEF Solid

-----------------------------------------------------------------------------
(* Revisions *)

\* Each compaction covers an event that the one before it did not cover, so
\* revisions are bounded by the numbers of events.
Revisions ==
    /\ checkpoint.revision <= checkpoint.through /\ checkpoint.through <= saved.last
    /\ saved.revision <= saved.compacted /\ saved.compacted <= saved.last
    /\ work.revision <= work.compacted /\ work.compacted <= saved.last
    /\ \A start \in starts : start > saved.revision /\ start > work.revision
    /\ stage = "removing" => \A start \in starts \ doomed : start > checkpoint.revision

-----------------------------------------------------------------------------
(* The directives of a projection *)

\* With the segments S, event seq is not before the segment of event n.
Final(S, n, seq) == \A start \in S : start <= n => start <= seq

\* The oldest directive of a full list may be lost.
Due(list) == {i \in DOMAIN list : i > 1 \/ Len(list) < DirectiveLimit}

\* The directives in the journal, and what the journal or the checkpoint holds.
Directives == {seq \in Seqs : events[seq] = "directive"}
Known == Seqs \cup DOMAIN checkpoint.preserved

\* A list of directives up to event n, with the directives D in the segments S:
\* those of the last segment are at the end of the list, and when one of them is
\* not in it, all that are listed are of the last segment; the due ones are in K.
Accounted(S, n, list, D, K) ==
    /\ \A i \in DOMAIN list : list[i] <= n
    /\ \A i \in DOMAIN list : \A j \in DOMAIN list :
          i < j /\ Final(S, n, list[i]) => Final(S, n, list[j])
    /\ \/ \A seq \in D : seq <= n /\ Final(S, n, seq) => \E i \in DOMAIN list : list[i] = seq
       \/ \A i \in DOMAIN list : Final(S, n, list[i])
    /\ \A i \in Due(list) : list[i] \in K

\* A projection lists the directives as the journal and the checkpoint have them.
Tracked(p) == Accounted(starts, p.last, p.directives, Directives, Known)

\* What the saved projection refers to is in the handler's list, or in a
\* segment that this handler cannot compact.
Held == \A i \in Due(saved.directives) :
           \/ \E j \in DOMAIN work.directives : work.directives[j] = saved.directives[i]
           \/ Final(starts, saved.last, saved.directives[i])

\* What the saved list and the handler's list say at each step of a handler.
DirectivesInv ==
    /\ Tracked(saved)
    /\ stage # "idle" => Tracked(work) /\ Held
    /\ stage \in {"reconciling", "undoing"} /\ work.last = saved.last =>
          work.directives = saved.directives
    /\ stage = "writing" /\ work.last = saved.last =>
          \/ work.directives = saved.directives
          \/ \A i \in DOMAIN saved.directives : Final(starts, saved.last, saved.directives[i])
    /\ stage = "removing" => \A start \in doomed :
          /\ \A i \in DOMAIN work.directives : work.directives[i] \in InSegment(start) =>
                work.directives[i] \in DOMAIN checkpoint.preserved
          /\ \A i \in Due(saved.directives) : saved.directives[i] \in InSegment(start) =>
                saved.directives[i] \in DOMAIN checkpoint.preserved

\* The numbers that revisions are compared with.
LEMMA RevisionTypes ==
    ASSUME JournalInv
    PROVE  /\ JournalTypes /\ saved.last \in Nat /\ work.last \in Nat
           /\ saved.revision \in Nat /\ work.revision \in Nat
           /\ saved.compacted \in Nat /\ work.compacted \in Nat
           /\ checkpoint.revision \in Nat /\ checkpoint.through \in Nat
           /\ starts \in SUBSET Nat /\ starts \in SUBSET (1 .. MaxSeq)
           /\ Seqs \in SUBSET Nat
BY BoundAssumption, SeqsType DEF JournalInv, JournalTypes, Loose

\* reconcile_projection takes the revision of a checkpoint that the snapshot missed.
LEMMA ReconcileRevisions ==
    ASSUME JournalInv, Revisions, Reconcile
    PROVE  Revisions'
<1>1. /\ work' = Reconciled(work) /\ stage' = "writing" /\ ~Refused(work) /\ ~Orphans(work)
      /\ UNCHANGED <<saved, doomed, starts, checkpoint>>
  BY DEF Reconcile
<1>2. work \in Loose BY DEF JournalInv, JournalTypes
<1>3. CASE starts = {} \/ ~Moved(work)
  <2>1. work'.revision = work.revision /\ work'.compacted = work.compacted
    BY <1>1, <1>2, <1>3 DEF Reconciled, Loose
  <2> QED BY <1>1, <2>1 DEF Revisions
<1>4. CASE starts # {} /\ Moved(work)
  <2>1. work'.revision = checkpoint.revision /\ work'.compacted = checkpoint.through
    BY <1>1, <1>2, <1>4 DEF Reconciled, Loose
  <2>2. checkpoint.through + 1 = Min(starts) BY <1>1, <1>4 DEF Refused, Bridged
  <2>3. \A start \in starts : Min(starts) <= start BY <1>4, RevisionTypes, MinOf
  <2>4. \A start \in starts : start > checkpoint.revision
    BY <2>2, <2>3, RevisionTypes DEF Revisions
  <2> QED BY <1>1, <2>1, <2>4 DEF Revisions
<1> QED BY <1>3, <1>4

\* append may add a segment after the committed events.
LEMMA TargetRevisions ==
    ASSUME JournalInv, Revisions, stage = "writing", NEW rotate \in BOOLEAN, MayRotate(rotate),
           work.last < MaxSeq, starts' = starts \cup {Target(rotate)}, stage' # "removing",
           UNCHANGED <<saved, checkpoint>>,
           (work'.revision = work.revision /\ work'.compacted = work.compacted) \/ work' = NewProjection
    PROVE  Revisions'
<1>1. Target(rotate) \in starts \/ Target(rotate) = work.last + 1 BY TargetIs
<1>2. saved.last <= work.last BY DEF JournalInv, InFlight
<1>3. work'.revision <= work'.compacted /\ work'.compacted <= saved.last
      /\ work'.revision \in {work.revision, 0}
  BY RevisionTypes DEF Revisions, NewProjection
<1>4. \A start \in starts' : start > saved.revision /\ start > work.revision /\ start > 0
  <2>1. work.last + 1 > saved.revision /\ work.last + 1 > work.revision /\ work.last + 1 > 0
    BY <1>2, RevisionTypes DEF Revisions
  <2>2. \A start \in starts : start > saved.revision /\ start > work.revision /\ start > 0
    BY RevisionTypes DEF Revisions
  <2> QED BY <1>1, <2>1, <2>2
<1> QED BY <1>3, <1>4, RevisionTypes DEF Revisions

\* compact_if_needed writes a checkpoint that covers one more event.
LEMMA CompactRevisions ==
    ASSUME JournalInv, Revisions, Compact
    PROVE  Revisions'
<1>1. /\ stage = "compacting" /\ Closed > CompactAfter
      /\ checkpoint' = NextCheckpoint /\ doomed' = Compacting /\ stage' = "removing"
      /\ UNCHANGED <<saved, work, starts>>
  BY DEF Compact
<1>2. JournalTypes /\ Seqs \in SUBSET Nat /\ starts \in SUBSET Nat /\ saved.last \in Nat
      /\ work.revision \in Nat /\ starts \subseteq Seqs
  BY <1>1, RevisionTypes DEF JournalInv, AtStage, Ended
<1>3. /\ Compacting \subseteq starts /\ Compacting # {}
      /\ \A start \in Compacting : \A other \in starts : other < start => other \in Compacting
  BY <1>1, <1>2, CompactingIs
<1>4. PICK keep \in starts \ Compacting : keep <= saved.last BY <1>1, Survivor
<1>5. ASSUME NEW start \in Compacting
      PROVE  start \in Nat /\ start \in InSegment(start)
             /\ \A other \in starts \ Compacting : start < other
  <2>1. \A other \in starts \ Compacting : start < other BY <1>2, <1>3
  <2>2. start \in Nat /\ start \in Seqs BY <1>2, <1>3
  <2> QED BY <2>1, <2>2 DEF InSegment, Seqs
<1>6. ASSUME NEW seq \in CompactedEvents PROVE seq \in Nat /\ seq <= saved.last
  <2>1. PICK start \in Compacting : seq \in InSegment(start) BY DEF CompactedEvents
  <2>2. seq \in Nat BY <1>2, <2>1 DEF InSegment, Seqs
  <2>3. seq < keep BY <1>5, <2>1 DEF InSegment
  <2> QED BY <1>2, <1>4, <2>2, <2>3
<1>7. PICK low \in Compacting : TRUE BY <1>3
<1>8. low > work.revision /\ low \in CompactedEvents /\ low \in Nat
  BY <1>3, <1>5 DEF Revisions, CompactedEvents
<1>9. /\ NextCheckpoint.through \in 0 .. MaxSeq
      /\ checkpoint.through <= NextCheckpoint.through
      /\ \A seq \in CompactedEvents : seq <= NextCheckpoint.through
      /\ NextCheckpoint.through \in CompactedEvents \cup {checkpoint.through}
      /\ NextCheckpoint.revision = work.revision + 1
  BY <1>2, NextCheckpointIs
<1>10. checkpoint'.through <= saved.last
  BY <1>1, <1>6, <1>9 DEF Revisions
<1>11. checkpoint'.revision = work.revision + 1 /\ checkpoint'.revision <= checkpoint'.through
  <2>1. low <= checkpoint'.through /\ checkpoint'.through \in Nat BY <1>1, <1>8, <1>9, BoundAssumption
  <2> QED BY <1>1, <1>2, <1>8, <1>9, <2>1
<1>12. \A start \in starts \ Compacting : start > checkpoint'.revision
  BY <1>2, <1>5, <1>8, <1>11
<1> QED BY <1>1, <1>10, <1>11, <1>12 DEF Revisions

\* No step of a handler puts a revision beyond what its compaction covers.
LEMMA RevisionsStep == ASSUME JournalInv, Revisions, HandlerStep PROVE Revisions'
<1>1. ASSUME UNCHANGED <<saved, checkpoint>>, starts' \subseteq starts, stage' # "removing",
             work' \in {work, saved, NewProjection}
      PROVE  Revisions'
  <2>1. NewProjection.revision = 0 /\ NewProjection.compacted = 0 BY DEF NewProjection
  <2>2. \A start \in starts : start > 0 BY RevisionTypes
  <2>3. saved.last \in Nat BY RevisionTypes
  <2> QED BY <1>1, <2>1, <2>2, <2>3 DEF Revisions
<1>2. CASE RemoveCompacted
  <2> DEFINE d == NextDoomed
  <2>1. /\ d \in doomed /\ starts' = starts \ {d} BY <1>2, RemovedFirst
  <2>2. /\ stage = "removing" /\ doomed' = doomed \ {d} /\ UNCHANGED <<saved, checkpoint>>
        /\ \/ /\ doomed' = {} /\ stage' = "appended"
              /\ work' = [work EXCEPT !.revision = checkpoint.revision,
                                      !.compacted = checkpoint.through,
                                      !.retained = Min(starts')]
           \/ doomed' # {} /\ UNCHANGED <<work, stage>>
    BY <1>2 DEF RemoveCompacted
  <2> HIDE DEF d
  <2>3. \A start \in starts' \ doomed' : start > checkpoint.revision
    BY <2>1, <2>2 DEF Revisions
  <2>4. CASE doomed' = {}
    <3>1. work'.revision = checkpoint.revision /\ work'.compacted = checkpoint.through
      BY <2>2, <2>4 DEF JournalInv, JournalTypes, Loose
    <3>2. stage' = "appended" BY <2>2, <2>4
    <3> QED BY <2>1, <2>2, <2>3, <2>4, <3>1, <3>2 DEF Revisions
  <2>5. CASE doomed' # {} BY <2>1, <2>2, <2>3, <2>5 DEF Revisions
  <2> QED BY <2>4, <2>5
<1>3. CASE \E kind \in Kinds, rotate \in BOOLEAN : Write(kind, rotate)
  <2>1. PICK kind \in Kinds, rotate \in BOOLEAN : Write(kind, rotate) BY <1>3
  <2>2. /\ stage = "writing" /\ MayRotate(rotate) /\ work.last < MaxSeq /\ stage' = "compacting"
        /\ starts' = starts \cup {Target(rotate)} /\ UNCHANGED <<saved, checkpoint>>
        /\ work' = Extended(work, kind)
    BY <2>1 DEF Write, MayAppend
  <2>3. work'.revision = work.revision /\ work'.compacted = work.compacted
    BY <2>2 DEF Extended, JournalInv, JournalTypes, Loose
  <2> QED BY <2>2, <2>3, TargetRevisions
<1>4. CASE \E rotate \in BOOLEAN : WriteTorn(rotate)
  <2>1. PICK rotate \in BOOLEAN : WriteTorn(rotate) BY <1>4
  <2>2. /\ stage = "writing" /\ MayRotate(rotate) /\ work.last < MaxSeq /\ stage' = "idle"
        /\ starts' = starts \cup {Target(rotate)} /\ UNCHANGED <<saved, checkpoint>>
        /\ work' = NewProjection
    BY <2>1 DEF WriteTorn
  <2> QED BY <2>2, TargetRevisions
<1>5. CASE Save
  <2>1. /\ saved' = work /\ work' = NewProjection /\ stage' = "idle"
        /\ UNCHANGED <<starts, checkpoint>> /\ saved.last < work.last
    BY <1>5 DEF Save, files, JournalInv, AtStage
  <2>2. NewProjection.revision = 0 /\ NewProjection.compacted = 0 BY DEF NewProjection
  <2>3. checkpoint.through <= work.last /\ work.compacted <= work.last
    BY <2>1, RevisionTypes DEF Revisions
  <2>4. \A start \in starts : start > 0 BY RevisionTypes
  <2> QED BY <2>1, <2>2, <2>3, <2>4, RevisionTypes DEF Revisions
<1>6. CASE RemoveOrphan
  <2>1. starts' \subseteq starts BY <1>6 DEF RemoveOrphan, RemoveSegment
  <2> QED BY <1>1, <1>6, <2>1 DEF RemoveOrphan
<1>7. CASE Begin \/ Rollback \/ Refuse \/ NeedNotCompact \/ Again \/ Abort
  BY <1>1, <1>7 DEF Begin, Rollback, Refuse, NeedNotCompact, Again, Abort, files
<1> QED BY <1>2, <1>3, <1>4, <1>5, <1>6, <1>7, ReconcileRevisions, CompactRevisions DEF HandlerStep

\* Steps that leave the last segment alone keep a list accounted for.
LEMMA AccountedStays ==
    ASSUME NEW S, NEW n, NEW list \in Seq(Nat), NEW D, NEW K, Accounted(S, n, list, D, K),
           NEW S2, \A seq \in Nat : Final(S2, n, seq) <=> Final(S, n, seq),
           NEW D2 \in SUBSET Nat, \A seq \in D2 : seq <= n => seq \in D,
           NEW K2, \A i \in Due(list) : list[i] \in K => list[i] \in K2
    PROVE  Accounted(S2, n, list, D2, K2)
<1>1. \A i \in DOMAIN list : list[i] \in Nat BY ElementOfSeq
<1> QED BY <1>1 DEF Accounted

\* A finding changes no list, and may begin a segment.
LEMMA AccountedFinding ==
    ASSUME NEW S, NEW n \in Nat, NEW list \in Seq(Nat), NEW D \in SUBSET Nat, NEW K, NEW S2, NEW K2,
           Accounted(S, n, list, D, K), \A seq \in D : seq <= n, K \subseteq K2,
           \/ \A seq \in Nat : Final(S2, n + 1, seq) <=> Final(S, n, seq)
           \/ \A seq \in Nat : Final(S2, n + 1, seq) <=> seq > n
    PROVE  Accounted(S2, n + 1, list, D, K2)
<1>1. \A i \in DOMAIN list : list[i] \in Nat /\ list[i] <= n
  BY ElementOfSeq DEF Accounted
<1>2. \A i \in DOMAIN list : list[i] <= n + 1 BY <1>1
<1>3. \A i \in Due(list) : list[i] \in K2 BY DEF Accounted
<1>4. CASE \A seq \in Nat : Final(S2, n + 1, seq) <=> Final(S, n, seq)
  BY <1>1, <1>2, <1>3, <1>4 DEF Accounted
<1>5. CASE \A seq \in Nat : Final(S2, n + 1, seq) <=> seq > n
  <2>1. \A i \in DOMAIN list : ~Final(S2, n + 1, list[i]) BY <1>1, <1>5
  <2>2. \A seq \in D : ~Final(S2, n + 1, seq) BY <1>5
  <2> QED BY <1>2, <1>3, <2>1, <2>2 DEF Accounted
<1> QED BY <1>4, <1>5

\* A directive is added at the end of the list, which may lose its first.
LEMMA AccountedDirective ==
    ASSUME NEW S, NEW n \in Nat, NEW list \in Seq(Nat), Len(list) <= DirectiveLimit,
           NEW D \in SUBSET Nat, NEW K, NEW S2, NEW K2,
           Accounted(S, n, list, D, K), \A seq \in D : seq <= n, K \cup {n + 1} \subseteq K2,
           \/ \A seq \in Nat : Final(S2, n + 1, seq) <=> Final(S, n, seq)
           \/ \A seq \in Nat : Final(S2, n + 1, seq) <=> seq > n
    PROVE  LET list2 == Latest(Append(list, n + 1))
           IN /\ Accounted(S2, n + 1, list2, D \cup {n + 1}, K2)
              /\ \A i \in Due(list) : \E j \in DOMAIN list2 : list2[j] = list[i]
<1> DEFINE list2 == Latest(Append(list, n + 1))
           D2 == D \cup {n + 1}
           longer == Append(list, n + 1)
           len == Len(list)
           drop == IF len + 1 > DirectiveLimit THEN 1 ELSE 0
           len2 == len + 1 - drop
<1>1. DirectiveLimit \in Nat /\ DirectiveLimit > 0 /\ len \in Nat /\ DOMAIN list = 1 .. len
      /\ len <= DirectiveLimit
  BY PageAssumption
<1>2. /\ longer \in Seq(Nat) /\ Len(longer) = len + 1
      /\ \A i \in 1 .. len : longer[i] = list[i]
      /\ longer[len + 1] = n + 1
  BY AppendProperties
<1>3. /\ drop \in Nat /\ drop <= 1
      /\ (drop = 1) <=> (len = DirectiveLimit)
  <2> HIDE DEF len
  <2> QED BY <1>1
<1>4. list2 = Latest(longer) OBVIOUS
<1> HIDE DEF longer, len, list2
<1>20. drop = IF Len(longer) > DirectiveLimit THEN Len(longer) - DirectiveLimit ELSE 0
  BY <1>1, <1>2
<1> HIDE DEF drop
<1>21. len2 \in Nat /\ len2 = Len(longer) - drop BY <1>1, <1>2, <1>3
<1>5. /\ list2 \in Seq(Nat) /\ Len(list2) = len2 /\ DOMAIN list2 = 1 .. len2 /\ len2 \in Nat
      /\ \A i \in 1 .. len2 : list2[i] = longer[i + drop]
  <2>0. longer \in Seq(Nat) /\ drop \in Nat BY <1>2, <1>3
  <2>1. /\ Latest(longer) \in Seq(Nat)
        /\ Len(Latest(longer)) = Len(longer) - drop
        /\ \A i \in 1 .. Len(longer) - drop : Latest(longer)[i] = longer[i + drop]
    BY <2>0, <1>20, LatestIs, Zenon
  <2> HIDE DEF len2
  <2>3. list2 \in Seq(Nat) /\ Len(list2) = len2 /\ \A i \in 1 .. len2 : list2[i] = longer[i + drop]
    BY <1>4, <1>21, <2>1
  <2> QED BY <1>21, <2>3, LenProperties
<1>6. /\ len2 > 0 /\ list2[len2] = n + 1
      /\ \A i \in 1 .. len2 : i < len2 => i + drop \in 1 .. len /\ list2[i] = list[i + drop]
  <2>1. len2 \in 1 .. len2 /\ len2 + drop = len + 1 BY <1>1, <1>3, <1>5
  <2>2. list2[len2] = n + 1 BY <1>2, <1>5, <2>1
  <2>3. \A i \in 1 .. len2 : i < len2 => i + drop \in 1 .. len BY <1>1, <1>3
  <2>4. \A i \in 1 .. len2 : i < len2 => list2[i] = list[i + drop] BY <1>2, <1>5, <2>3
  <2> QED BY <2>1, <2>2, <2>3, <2>4
<1>7. ASSUME NEW i \in 1 .. len, i > drop
      PROVE  i - drop \in 1 .. len2 /\ i - drop < len2 /\ list2[i - drop] = list[i]
  <2>1. i - drop \in 1 .. len2 /\ i - drop < len2 /\ (i - drop) + drop = i BY <1>1, <1>3, <1>7
  <2> QED BY <1>6, <2>1
<1>8. \A i \in 1 .. len : list[i] \in Nat /\ list[i] <= n BY <1>1, ElementOfSeq DEF Accounted
<1>9. \A i \in DOMAIN list2 : list2[i] <= n + 1
  <2> SUFFICES ASSUME NEW i \in 1 .. len2 PROVE list2[i] <= n + 1 BY <1>5
  <2>1. CASE i = len2 BY <1>6, <2>1
  <2>2. CASE i # len2
    <3>1. i < len2 BY <1>5, <2>2
    <3> QED BY <1>6, <1>8, <3>1
  <2> QED BY <2>1, <2>2
<1>10. Final(S2, n + 1, n + 1) BY DEF Final
<1>11. \A i \in DOMAIN list2 : \A j \in DOMAIN list2 :
          i < j /\ Final(S2, n + 1, list2[i]) => Final(S2, n + 1, list2[j])
  <2> SUFFICES ASSUME NEW i \in 1 .. len2, NEW j \in 1 .. len2, i < j, Final(S2, n + 1, list2[i])
               PROVE  Final(S2, n + 1, list2[j])
    BY <1>5
  <2>1. CASE j = len2 BY <1>6, <1>10, <2>1
  <2>2. CASE j # len2
    <3>1. i < len2 /\ j < len2 BY <1>5, <2>2
    <3>2. /\ i + drop \in 1 .. len /\ j + drop \in 1 .. len /\ i + drop < j + drop
          /\ list2[i] = list[i + drop] /\ list2[j] = list[j + drop]
      BY <1>3, <1>6, <3>1
    <3>3. list2[i] \in Nat /\ list2[j] \in Nat /\ list2[i] <= n BY <1>8, <3>2
    <3>4. CASE \A seq \in Nat : Final(S2, n + 1, seq) <=> Final(S, n, seq)
      BY <1>1, <3>2, <3>3, <3>4 DEF Accounted
    <3>5. CASE \A seq \in Nat : Final(S2, n + 1, seq) <=> seq > n
      BY <3>3, <3>5
    <3> QED BY <3>4, <3>5
  <2> QED BY <2>1, <2>2
<1>12. ASSUME \A i \in DOMAIN list : Final(S, n, list[i]),
              \A seq \in Nat : Final(S2, n + 1, seq) <=> Final(S, n, seq)
       PROVE  \A i \in DOMAIN list2 : Final(S2, n + 1, list2[i])
  <2> SUFFICES ASSUME NEW i \in 1 .. len2 PROVE Final(S2, n + 1, list2[i]) BY <1>5
  <2>1. CASE i = len2 BY <1>6, <1>10, <2>1
  <2>2. CASE i # len2
    <3>1. i < len2 BY <1>5, <2>2
    <3> QED BY <1>1, <1>6, <1>8, <1>12, <3>1
  <2> QED BY <2>1, <2>2
<1>13. \/ \A seq \in D2 : seq <= n + 1 /\ Final(S2, n + 1, seq) => \E i \in DOMAIN list2 : list2[i] = seq
       \/ \A i \in DOMAIN list2 : Final(S2, n + 1, list2[i])
  <2>0. len2 \in DOMAIN list2 BY <1>5, <1>6
  <2>1. CASE \A seq \in Nat : Final(S2, n + 1, seq) <=> seq > n
    <3>1. \A seq \in D : ~Final(S2, n + 1, seq) BY <2>1
    <3> QED BY <1>6, <2>0, <3>1
  <2>2. CASE \A seq \in Nat : Final(S2, n + 1, seq) <=> Final(S, n, seq)
    <3>1. CASE \A i \in DOMAIN list : Final(S, n, list[i]) BY <1>12, <2>2, <3>1
    <3>2. CASE \E i \in DOMAIN list : ~Final(S, n, list[i])
      <4>1. PICK low \in 1 .. len : ~Final(S, n, list[low]) BY <1>1, <3>2
      <4>2. ASSUME NEW seq \in D, Final(S, n, seq) PROVE \E i \in DOMAIN list2 : list2[i] = seq
        <5>1. PICK i \in 1 .. len : list[i] = seq BY <1>1, <3>2, <4>2 DEF Accounted
        <5>2. ~(i < low) /\ i # low BY <1>1, <4>1, <4>2, <5>1 DEF Accounted
        <5>3. i > drop BY <1>3, <5>2
        <5> QED BY <1>5, <1>7, <5>1, <5>3
      <4> QED BY <1>6, <2>0, <2>2, <4>2
    <3> QED BY <3>1, <3>2
  <2> QED BY <2>1, <2>2
<1>14. \A i \in Due(list2) : list2[i] \in K2
  <2> SUFFICES ASSUME NEW i \in Due(list2) PROVE list2[i] \in K2 OBVIOUS
  <2>1. i \in 1 .. len2 /\ (i > 1 \/ len2 < DirectiveLimit) BY <1>5 DEF Due
  <2>2. CASE i = len2 BY <1>6, <2>2
  <2>3. CASE i # len2
    <3>1. i < len2 BY <1>5, <2>1, <2>3
    <3>2. i + drop \in 1 .. len /\ list2[i] = list[i + drop] BY <1>6, <2>1, <3>1
    <3>3. i + drop > 1 \/ len < DirectiveLimit BY <1>1, <1>3, <2>1
    <3>4. i + drop \in Due(list) BY <1>1, <3>2, <3>3 DEF Due
    <3> QED BY <3>2, <3>4 DEF Accounted
  <2> QED BY <2>2, <2>3
<1>15. ASSUME NEW i \in Due(list) PROVE \E j \in DOMAIN list2 : list2[j] = list[i]
  <2>1. i \in 1 .. len /\ (i > 1 \/ len < DirectiveLimit) BY <1>1 DEF Due
  <2>2. i > drop BY <1>1, <1>3, <2>1
  <2> QED BY <1>5, <1>7, <2>1, <2>2
<1>16. Accounted(S2, n + 1, list2, D2, K2) BY <1>9, <1>11, <1>13, <1>14 DEF Accounted
<1> QED BY <1>15, <1>16 DEF list2

\* What a list has when some numbers joined it.
LEMMA LatestOfJoined ==
    ASSUME NEW list \in Seq(Nat), Len(list) <= DirectiveLimit,
           NEW M \in SUBSET Nat, IsFiniteSet(M),
           NEW list2, list2 = Latest(list \o Ascending(M))
    PROVE  /\ M = {} => list2 = list
           /\ \A i \in DOMAIN list2 : list2[i] \in M \/ \E j \in DOMAIN list : list2[i] = list[j]
<1> DEFINE more == Ascending(M)
           len == Len(list)
           m == Cardinality(M)
           longer == list \o more
           drop == IF Len(longer) > DirectiveLimit THEN Len(longer) - DirectiveLimit ELSE 0
<1>1. DirectiveLimit \in Nat /\ DirectiveLimit > 0 /\ len \in Nat /\ DOMAIN list = 1 .. len
      /\ len <= DirectiveLimit
  BY PageAssumption
<1>2. m \in Nat /\ \A i \in 1 .. m : more[i] \in M BY AscendingIs
<1>3. more \in Seq(Nat) /\ Len(more) = m
  <2>1. more \in [1 .. m -> Nat] BY <1>2 DEF Ascending
  <2> HIDE DEF more, m
  <2> QED BY <1>2, <2>1, FunctionIsSeq
<1>4. list2 = Latest(longer) OBVIOUS
<1> HIDE DEF more, m, len
<1>5. /\ longer \in Seq(Nat) /\ Len(longer) = len + m
      /\ \A i \in 1 .. len + m : longer[i] = IF i <= len THEN list[i] ELSE more[i - len]
  BY <1>3, ConcatProperties DEF len
<1>6. drop \in Nat
      /\ drop = IF Len(longer) > DirectiveLimit THEN Len(longer) - DirectiveLimit ELSE 0
  <2> HIDE DEF longer
  <2> QED BY <1>1, <1>2, <1>5
<1> HIDE DEF longer, drop
<1>61. drop \in Nat /\ len \in Nat /\ m \in Nat BY <1>1, <1>2, <1>6
<1>7. /\ list2 \in Seq(Nat) /\ Len(list2) = len + m - drop
      /\ \A i \in 1 .. len + m - drop : list2[i] = longer[i + drop]
      /\ DOMAIN list2 = 1 .. len + m - drop
  <2>0. longer \in Seq(Nat) /\ drop \in Nat BY <1>5, <1>6
  <2>1. /\ Latest(longer) \in Seq(Nat)
        /\ Len(Latest(longer)) = Len(longer) - drop
        /\ \A i \in 1 .. Len(longer) - drop : Latest(longer)[i] = longer[i + drop]
    BY <1>6, <2>0, LatestIs, Zenon
  <2>2. /\ list2 \in Seq(Nat) /\ Len(list2) = len + m - drop
        /\ \A i \in 1 .. len + m - drop : list2[i] = longer[i + drop]
    <3> DEFINE len2 == len + m - drop
    <3>1. len2 = Len(longer) - drop BY <1>5, <1>61
    <3> HIDE DEF len2
    <3>2. /\ list2 \in Seq(Nat) /\ Len(list2) = len2
          /\ \A i \in 1 .. len2 : list2[i] = longer[i + drop]
      BY <1>4, <2>1, <3>1
    <3> QED BY <3>2 DEF len2
  <2> QED BY <2>2, LenProperties
<1>8. ASSUME M = {} PROVE list2 = list
  <2>1. m = 0 BY <1>8, FS_EmptySet DEF m
  <2>2. drop = 0 BY <1>1, <1>5, <1>6, <2>1
  <2>3. \A i \in 1 .. len : list2[i] = list[i] BY <1>1, <1>5, <1>7, <2>1, <2>2
  <2>4. Len(list2) = len BY <1>1, <1>7, <2>1, <2>2
  <2>5. list2 = list BY <1>7, <2>3, <2>4, SeqEqual DEF len
  <2> QED BY <2>5
<1>9. ASSUME NEW i \in DOMAIN list2
      PROVE  list2[i] \in M \/ \E j \in DOMAIN list : list2[i] = list[j]
  <2>1. i \in 1 .. len + m - drop BY <1>7
  <2>2. i + drop \in 1 .. len + m BY <1>61, <2>1
  <2>3. list2[i] = longer[i + drop] BY <1>7, <2>1
  <2>4. CASE i + drop <= len
    <3>1. i + drop \in 1 .. len BY <1>1, <2>2, <2>4
    <3>2. list2[i] = list[i + drop] BY <1>5, <2>2, <2>3, <2>4
    <3> QED BY <1>1, <3>1, <3>2
  <2>5. CASE ~(i + drop <= len)
    <3>1. i + drop - len \in 1 .. m BY <1>61, <2>1, <2>2, <2>5
    <3>2. list2[i] = more[i + drop - len] BY <1>5, <1>61, <2>1, <2>2, <2>3, <2>5
    <3> QED BY <1>2, <3>1, <3>2
  <2> QED BY <2>4, <2>5
<1> QED BY <1>8, <1>9

\* When a directive of the last segment joins the list, all that were listed
\* are of that segment, and whatever is cut off can be read there.
LEMMA AccountedReconciled ==
    ASSUME NEW S, NEW n \in Nat, NEW list \in Seq(Nat), Len(list) <= DirectiveLimit,
           NEW D \in SUBSET Nat, NEW K, Accounted(S, n, list, D, K),
           NEW M \in SUBSET Nat, IsFiniteSet(M),
           \A seq \in M : seq \in D /\ seq <= n /\ Final(S, n, seq) /\ \A i \in DOMAIN list : list[i] # seq,
           \A i \in DOMAIN list : Final(S, n, list[i]) => list[i] \in K, M \subseteq K,
           NEW list2, list2 = Latest(list \o Ascending(M))
    PROVE  /\ Accounted(S, n, list2, D, K)
           /\ list2 = list \/ \A i \in DOMAIN list : Final(S, n, list[i])
<1>1. /\ M = {} => list2 = list
      /\ \A i \in DOMAIN list2 : list2[i] \in M \/ \E j \in DOMAIN list : list2[i] = list[j]
  BY LatestOfJoined
<1>2. CASE M = {} BY <1>1, <1>2
<1>3. CASE M # {}
  <2>1. \A i \in DOMAIN list : Final(S, n, list[i])
    <3>1. PICK seq \in M : TRUE BY <1>3
    <3> QED BY <3>1 DEF Accounted
  <2>2. \A i \in DOMAIN list : list[i] <= n BY DEF Accounted
  <2>3. \A i \in DOMAIN list2 : list2[i] <= n /\ Final(S, n, list2[i]) /\ list2[i] \in K
    BY <1>1, <2>1, <2>2
  <2> QED BY <2>1, <2>3 DEF Accounted, Due
<1> QED BY <1>2, <1>3

-----------------------------------------------------------------------------
(* What the steps do to the lists *)

\* The lists are sequences of event numbers within the limit.
LEMMA ListTypes ==
    ASSUME JournalInv
    PROVE  /\ saved.directives \in Seq(1 .. MaxSeq) /\ saved.directives \in Seq(Nat)
           /\ Len(saved.directives) <= DirectiveLimit
           /\ work.directives \in Seq(1 .. MaxSeq) /\ work.directives \in Seq(Nat)
           /\ Len(work.directives) <= DirectiveLimit
           /\ Directives \in SUBSET Nat
<1>1. saved.directives \in Lists /\ work.directives \in Lists BY DEF JournalInv, JournalTypes, Loose
<1>2. /\ saved.directives \in Seq(1 .. MaxSeq) /\ Len(saved.directives) <= DirectiveLimit
      /\ work.directives \in Seq(1 .. MaxSeq) /\ Len(work.directives) <= DirectiveLimit
  BY <1>1, ListsAre
<1>3. 1 .. MaxSeq \subseteq Nat BY BoundAssumption
<1> QED BY <1>2, <1>3, SeqMonotonic, RevisionTypes DEF Directives

\* The segment of the last committed event stays, and so does the handler's,
\* unless it appends an event.
LEMMA FinalStays ==
    ASSUME JournalInv, HandlerStep
    PROVE  /\ \A seq \in Nat : Final(starts', saved.last, seq) <=> Final(starts, saved.last, seq)
           /\ starts' \subseteq starts =>
                \A seq \in Nat : Final(starts', work.last, seq) <=> Final(starts, work.last, seq)
<1>1. /\ starts \in SUBSET Nat /\ saved.last \in Nat /\ work.last \in Nat /\ starts' \in SUBSET Nat
      /\ doomed \subseteq starts
  <2>1. JournalInv' BY StepOk DEF Next
  <2> QED BY <2>1, RevisionTypes, BoundAssumption DEF JournalInv, JournalTypes
<1>2. CASE starts' = starts BY <1>2
<1>3. CASE RemoveOrphan
  <2>1. RemoveSegment(NextDoomed) /\ stage = "undoing" BY <1>3 DEF RemoveOrphan
  <2>2. doomed # {} /\ work.last = saved.last /\ \A start \in doomed : start > saved.last
    BY <2>1 DEF JournalInv, AtStage
  <2>3. doomed \in SUBSET Nat BY <1>1
  <2>4. NextDoomed \in doomed BY <2>2, <2>3, MinOf DEF NextDoomed
  <2>5. NextDoomed > saved.last /\ starts' = starts \ {NextDoomed}
    BY <2>1, <2>2, <2>4 DEF RemoveSegment
  <2>6. \A start \in starts : start <= saved.last => start \in starts'
    BY <1>1, <2>5
  <2>7. \A start \in starts' : start \in starts BY <2>5
  <2> QED BY <2>2, <2>6, <2>7 DEF Final
<1>4. CASE RemoveCompacted
  <2>1. /\ \A start \in starts : NextDoomed <= start
        /\ starts' = starts \ {NextDoomed}
    BY <1>4, RemovedFirst
  <2>2. PICK keep \in starts' : keep <= saved.last BY <1>4, RemovedFirst
  <2>3. NextDoomed \in doomed BY <1>4, RemovedFirst
  <2>4. NextDoomed <= keep /\ NextDoomed \in Nat BY <1>1, <2>1, <2>2, <2>3
  <2>5. saved.last <= work.last BY <1>4 DEF JournalInv, InFlight, RemoveCompacted
  <2>6. ASSUME NEW n \in Nat, saved.last <= n, NEW seq \in Nat
        PROVE  Final(starts', n, seq) <=> Final(starts, n, seq)
    <3>1. ASSUME Final(starts, n, seq) PROVE Final(starts', n, seq)
      BY <2>1, <3>1 DEF Final
    <3>2. ASSUME Final(starts', n, seq) PROVE Final(starts, n, seq)
      <4> SUFFICES ASSUME NEW start \in starts, start <= n PROVE start <= seq BY DEF Final
      <4>1. CASE start \in starts' BY <3>2, <4>1 DEF Final
      <4>2. CASE start = NextDoomed
        <5>1. keep <= n /\ keep \in Nat BY <1>1, <2>2, <2>6
        <5>2. keep <= seq BY <3>2, <5>1, <2>2 DEF Final
        <5> QED BY <2>4, <4>2, <5>1, <5>2
      <4> QED BY <2>1, <4>1, <4>2
    <3> QED BY <3>1, <3>2
  <2> QED BY <1>1, <2>5, <2>6
<1>5. ASSUME NEW rotate \in BOOLEAN, stage = "writing", MayRotate(rotate), work.last < MaxSeq,
             starts' = starts \cup {Target(rotate)}
      PROVE  /\ \A seq \in Nat : Final(starts', saved.last, seq) <=> Final(starts, saved.last, seq)
             /\ starts' \subseteq starts => starts' = starts
  <2>1. Target(rotate) \in starts \/ Target(rotate) = work.last + 1 BY <1>5, TargetIs
  <2>2. saved.last <= work.last BY <1>5 DEF JournalInv, InFlight
  <2>3. \A start \in starts' : start <= saved.last => start \in starts BY <1>1, <1>5, <2>1, <2>2
  <2>4. starts \subseteq starts' BY <1>5
  <2> QED BY <2>3, <2>4 DEF Final
<1>6. CASE \E kind \in Kinds, rotate \in BOOLEAN : Write(kind, rotate)
  <2>1. PICK kind \in Kinds, rotate \in BOOLEAN : Write(kind, rotate) BY <1>6
  <2>2. /\ stage = "writing" /\ MayRotate(rotate) /\ work.last < MaxSeq
        /\ starts' = starts \cup {Target(rotate)}
    BY <2>1 DEF Write, MayAppend
  <2> QED BY <1>2, <1>5, <2>2
<1>7. CASE \E rotate \in BOOLEAN : WriteTorn(rotate)
  <2>1. PICK rotate \in BOOLEAN : WriteTorn(rotate) BY <1>7
  <2>2. /\ stage = "writing" /\ MayRotate(rotate) /\ work.last < MaxSeq
        /\ starts' = starts \cup {Target(rotate)}
    BY <2>1 DEF WriteTorn
  <2> QED BY <1>2, <1>5, <2>2
<1>8. CASE Begin \/ Rollback \/ Reconcile \/ Refuse \/ Compact \/ NeedNotCompact \/ Again \/ Save \/ Abort
  BY <1>2, <1>8 DEF Begin, Rollback, Reconcile, Refuse, Compact, NeedNotCompact, Again, Save, Abort, files
<1> QED BY <1>3, <1>4, <1>6, <1>7, <1>8 DEF HandlerStep

\* The members of a sequence.
LEMMA MemberOf ==
    ASSUME NEW T, NEW list \in Seq(T), NEW i \in DOMAIN list
    PROVE  list[i] \in T
<1>1. i \in 1 .. Len(list) BY LenProperties
<1> QED BY <1>1, ElementOfSeq

\* The saved list stays accounted for when what it refers to stays known.
LEMMA SavedTracked ==
    ASSUME JournalInv, DirectivesInv, HandlerStep, saved' = saved,
           \A i \in Due(saved.directives) : saved.directives[i] \in Known => saved.directives[i] \in Known'
    PROVE  Tracked(saved)'
<1> DEFINE list == saved.directives
           n == saved.last
<1>1. /\ list \in Seq(Nat) /\ n \in Nat /\ Directives' \in SUBSET Nat
      /\ Accounted(starts, n, list, Directives, Known)
  <2>1. JournalInv' BY StepOk DEF Next
  <2>2. Seqs' \in SUBSET Nat BY <2>1, BoundAssumption, JournalIs DEF JournalInv, JournalTypes, Seqs
  <2> QED BY <2>2, ListTypes, RevisionTypes DEF Directives, DirectivesInv, Tracked
<1>2. \A seq \in Nat : Final(starts', n, seq) <=> Final(starts, n, seq) BY FinalStays
<1>3. ASSUME NEW seq \in Directives', seq <= n PROVE seq \in Directives
  <2>1. seq \in Seqs' /\ events'[seq] = "directive" BY DEF Directives
  <2>2. CASE RemoveCompacted
    <3>1. Seqs' = Seqs \ InSegment(NextDoomed) /\ \A x \in Seqs' : events'[x] = events[x]
      BY <2>2, RemovedFirst
    <3> QED BY <2>1, <3>1 DEF Directives
  <2>3. CASE ~RemoveCompacted
    <3>1. [Next]_vars BY DEF Next
    <3>2. seq \in 1 .. saved.last
      <4>1. JournalInv' BY StepOk DEF Next
      <4>2. seq \in 1 .. MaxSeq BY <2>1, <4>1, JournalIs DEF JournalInv, JournalTypes, Seqs
      <4> QED BY <1>1, <1>3, <4>2
    <3>3. seq \in Seqs /\ events'[seq] = events[seq] BY <2>1, <2>3, <3>1, <3>2, CommittedStay
    <3> QED BY <2>1, <3>3 DEF Directives
  <2> QED BY <2>2, <2>3
<1>4. Accounted(starts', n, list, Directives', Known')
  <2> HIDE DEF list, n
  <2>1. \A i \in Due(list) : list[i] \in Known => list[i] \in Known' BY DEF list
  <2> QED BY <1>1, <1>2, <1>3, <2>1, AccountedStays
<1> QED BY <1>4 DEF Tracked

\* So does the handler's list when the handler appends nothing.
LEMMA WorkTracked ==
    ASSUME JournalInv, HandlerStep, Tracked(work), starts' \subseteq starts,
           work'.last = work.last, work'.directives = work.directives,
           Seqs' \subseteq Seqs, \A seq \in Seqs' : events'[seq] = events[seq],
           \A i \in Due(work.directives) : work.directives[i] \in Known => work.directives[i] \in Known'
    PROVE  Tracked(work)'
<1> DEFINE list == work.directives
           n == work.last
<1>1. /\ list \in Seq(Nat) /\ n \in Nat /\ Directives' \in SUBSET Nat /\ Directives' \subseteq Directives
      /\ Accounted(starts, n, list, Directives, Known)
  <2>1. Directives' \subseteq Directives BY DEF Directives
  <2> QED BY <2>1, ListTypes, RevisionTypes DEF Tracked
<1>2. \A seq \in Nat : Final(starts', n, seq) <=> Final(starts, n, seq) BY FinalStays
<1>3. Accounted(starts', n, list, Directives', Known')
  <2>1. \A i \in Due(list) : list[i] \in Known => list[i] \in Known' OBVIOUS
  <2>2. \A seq \in Directives' : seq <= n => seq \in Directives BY <1>1
  <2> HIDE DEF list, n
  <2> QED BY <1>1, <1>2, <2>1, <2>2, AccountedStays
<1> QED BY <1>3 DEF Tracked

\* The handler's list keeps what the saved one refers to while it is not written.
LEMMA HeldStays ==
    ASSUME JournalInv, HandlerStep, Held, saved' = saved, work'.directives = work.directives
    PROVE  Held'
<1>1. \A seq \in Nat : Final(starts', saved.last, seq) <=> Final(starts, saved.last, seq) BY FinalStays
<1>2. \A i \in Due(saved.directives) : saved.directives[i] \in Nat
  BY ListTypes, ElementOfSeq DEF Due
<1> QED BY <1>1, <1>2 DEF Held

\* Away from compaction nothing that was committed leaves the journal or the checkpoint.
LEMMA KnownStays ==
    ASSUME JournalInv, HandlerStep, ~RemoveCompacted, ~Compact, NEW seq \in 1 .. saved.last, seq \in Known
    PROVE  seq \in Known'
<1>1. [Next]_vars BY DEF Next
<1>2. seq \in Seqs => seq \in Seqs' BY <1>1, CommittedStay
<1>3. checkpoint' = checkpoint
  BY DEF HandlerStep, Begin, Rollback, RemoveOrphan, Reconcile, Refuse, Write, WriteTorn,
         NeedNotCompact, Again, Save, Abort, files
<1> QED BY <1>2, <1>3 DEF Known

\* What the saved projection lists was committed.
LEMMA SavedListed ==
    ASSUME JournalInv, DirectivesInv, NEW i \in DOMAIN saved.directives
    PROVE  saved.directives[i] \in 1 .. saved.last
<1>0. saved.directives \in Seq(1 .. MaxSeq) BY ListTypes
<1>1. saved.directives[i] \in 1 .. MaxSeq BY <1>0, MemberOf
<1>2. saved.directives[i] <= saved.last BY DEF DirectivesInv, Tracked, Accounted
<1> QED BY <1>1, <1>2, BoundAssumption, RevisionTypes

\* Steps that neither save nor compact keep the saved list.
LEMMA SavedTrackedQuietly ==
    ASSUME JournalInv, DirectivesInv, HandlerStep, ~RemoveCompacted, ~Compact, ~Save
    PROVE  Tracked(saved)'
<1>1. saved' = saved
  <2>1. [Next]_vars BY DEF Next
  <2> QED BY <2>1, SavedStays
<1>2. ASSUME NEW i \in Due(saved.directives), saved.directives[i] \in Known
      PROVE  saved.directives[i] \in Known'
  <2>1. saved.directives[i] \in 1 .. saved.last BY SavedListed DEF Due
  <2> QED BY <1>2, <2>1, KnownStays
<1> QED BY <1>1, <1>2, SavedTracked

-----------------------------------------------------------------------------
(* The steps *)

\* The checkpoint preserves what the handler's list refers to.
LEMMA PreservedIs ==
    DOMAIN NextCheckpoint.preserved =
        {seq \in DOMAIN checkpoint.preserved \cup CompactedEvents :
            \E i \in DOMAIN work.directives : work.directives[i] = seq}
<1> DEFINE refs == Range(work.directives)
           old == Only(checkpoint.preserved, refs)
           new == Only(events, CompactedEvents \cap refs)
<1>1. NextCheckpoint.preserved = Preserved(refs) BY DEF NextCheckpoint
<1>2. refs = {work.directives[i] : i \in DOMAIN work.directives} BY DEF Range
<1>3. DOMAIN Preserved(refs) = DOMAIN old \cup DOMAIN new BY DEF Preserved
<1>4. DOMAIN old = DOMAIN checkpoint.preserved \cap refs BY DEF Only
<1>5. DOMAIN new = Seqs \cap (CompactedEvents \cap refs) BY DEF Only, Seqs
<1>6. CompactedEvents \subseteq Seqs BY DEF CompactedEvents, InSegment, Seqs
<1> HIDE DEF refs, old, new
<1> QED BY <1>1, <1>2, <1>3, <1>4, <1>5, <1>6

\* compact_if_needed first stores the compacted directives in the checkpoint.
LEMMA CompactDirectives ==
    ASSUME JournalInv, DirectivesInv, Compact
    PROVE  DirectivesInv'
<1>1. /\ stage = "compacting" /\ Closed > CompactAfter /\ HandlerStep
      /\ checkpoint' = NextCheckpoint /\ doomed' = Compacting /\ stage' = "removing"
      /\ UNCHANGED <<saved, work, events, starts>>
  BY DEF Compact, HandlerStep
<1>2. Tracked(saved) /\ Tracked(work) /\ Held BY <1>1 DEF DirectivesInv
<1>3. Seqs' = Seqs BY <1>1 DEF Seqs
<1>4. DOMAIN checkpoint'.preserved =
        {seq \in DOMAIN checkpoint.preserved \cup CompactedEvents :
            \E i \in DOMAIN work.directives : work.directives[i] = seq}
  BY <1>1, PreservedIs
<1>5. PICK keep \in starts \ Compacting : keep <= saved.last BY <1>1, Survivor
<1>6. /\ \A start \in Compacting : start < keep /\ start \in starts /\ start \in Nat
      /\ keep \in Nat /\ saved.last \in Nat /\ starts \in SUBSET Nat
  <2>1. /\ Compacting \subseteq starts
        /\ \A start \in Compacting : \A other \in starts : other < start => other \in Compacting
    BY <1>1, RevisionTypes, CompactingIs
  <2> QED BY <1>5, <2>1, RevisionTypes
<1>7. ASSUME NEW seq \in 1 .. saved.last, Final(starts, saved.last, seq)
      PROVE  seq \in Seqs /\ \A start \in Compacting : seq \notin InSegment(start)
  <2>1. keep <= seq BY <1>5, <1>7 DEF Final
  <2>2. seq \in keep .. saved.last BY <1>6, <2>1
  <2>3. seq \in Seqs BY <1>5, <2>2, CommittedSegment
  <2>4. ASSUME NEW start \in Compacting, seq \in InSegment(start) PROVE FALSE
    <3>1. seq < keep BY <1>5, <1>6, <2>4 DEF InSegment
    <3> QED BY <1>6, <2>1, <3>1
  <2> QED BY <2>3, <2>4
<1>8. ASSUME NEW i \in DOMAIN work.directives
      PROVE  /\ work.directives[i] \in Known => work.directives[i] \in Known'
             /\ \A start \in Compacting : work.directives[i] \in InSegment(start) =>
                    work.directives[i] \in DOMAIN checkpoint'.preserved
  <2>1. \A start \in Compacting : InSegment(start) \subseteq CompactedEvents BY DEF CompactedEvents
  <2> QED BY <1>3, <1>4, <2>1 DEF Known
<1>9. ASSUME NEW i \in Due(saved.directives)
      PROVE  /\ saved.directives[i] \in Known => saved.directives[i] \in Known'
             /\ \A start \in Compacting : saved.directives[i] \in InSegment(start) =>
                    saved.directives[i] \in DOMAIN checkpoint'.preserved
  <2>1. saved.directives[i] \in 1 .. saved.last BY SavedListed DEF Due
  <2>2. CASE \E j \in DOMAIN work.directives : work.directives[j] = saved.directives[i]
    BY <1>8, <2>2
  <2>3. CASE Final(starts, saved.last, saved.directives[i])
    BY <1>3, <1>7, <2>1, <2>3 DEF Known
  <2> QED BY <1>2, <2>2, <2>3 DEF Held
<1>10. Tracked(saved)' BY <1>1, <1>9, SavedTracked
<1>11. Tracked(work)'
  <2>1. \A i \in Due(work.directives) : work.directives[i] \in Known => work.directives[i] \in Known'
    BY <1>8 DEF Due
  <2> QED BY <1>1, <1>2, <1>3, <2>1, WorkTracked
<1>12. Held' BY <1>1, <1>2, HeldStays
<1>13. \A start \in Compacting : InSegment(start)' = InSegment(start) BY <1>1 DEF InSegment
<1> QED BY <1>1, <1>8, <1>9, <1>10, <1>11, <1>12, <1>13 DEF DirectivesInv

\* Removing a segment takes no directive that the checkpoint has not stored.
LEMMA RemoveCompactedDirectives ==
    ASSUME JournalInv, DirectivesInv, RemoveCompacted
    PROVE  DirectivesInv'
<1> DEFINE d == NextDoomed
<1>1. /\ d \in doomed /\ starts' = starts \ {d} /\ Seqs' = Seqs \ InSegment(d)
      /\ \A seq \in Seqs' : events'[seq] = events[seq]
      /\ \A start \in starts' : InSegment(start)' = InSegment(start)
  BY RemovedFirst
<1>2. /\ stage = "removing" /\ doomed' = doomed \ {d} /\ UNCHANGED <<saved, checkpoint>> /\ HandlerStep
      /\ \/ /\ doomed' = {} /\ stage' = "appended"
            /\ work' = [work EXCEPT !.revision = checkpoint.revision,
                                    !.compacted = checkpoint.through,
                                    !.retained = Min(starts')]
         \/ doomed' # {} /\ UNCHANGED <<work, stage>>
  BY DEF RemoveCompacted, HandlerStep
<1>3. work'.last = work.last /\ work'.directives = work.directives
  BY <1>2 DEF JournalInv, JournalTypes, Loose
<1> HIDE DEF d
<1>4. Tracked(saved) /\ Tracked(work) /\ Held BY <1>2 DEF DirectivesInv
<1>5. ASSUME NEW i \in DOMAIN work.directives, work.directives[i] \in Known
      PROVE  work.directives[i] \in Known'
  BY <1>1, <1>2, <1>5 DEF DirectivesInv, Known
<1>6. ASSUME NEW i \in Due(saved.directives), saved.directives[i] \in Known
      PROVE  saved.directives[i] \in Known'
  BY <1>1, <1>2, <1>6 DEF DirectivesInv, Known
<1>7. Tracked(saved)' BY <1>2, <1>6, SavedTracked
<1>8. Tracked(work)'
  <2>1. \A i \in Due(work.directives) : work.directives[i] \in Known => work.directives[i] \in Known'
    BY <1>5 DEF Due
  <2>2. Seqs' \subseteq Seqs /\ starts' \subseteq starts BY <1>1
  <2> QED BY <1>1, <1>2, <1>3, <1>4, <2>1, <2>2, WorkTracked
<1>9. Held' BY <1>2, <1>3, <1>4, HeldStays
<1>10. ASSUME NEW start \in doomed' PROVE start \in doomed /\ InSegment(start)' = InSegment(start)
  <2>1. start \in doomed /\ start # d BY <1>2
  <2>2. start \in starts BY <2>1 DEF JournalInv, JournalTypes
  <2> QED BY <1>1, <2>1, <2>2
<1>11. \A start \in doomed' :
          /\ \A i \in DOMAIN work'.directives : work'.directives[i] \in InSegment(start)' =>
                work'.directives[i] \in DOMAIN checkpoint'.preserved
          /\ \A i \in Due(saved'.directives) : saved'.directives[i] \in InSegment(start)' =>
                saved'.directives[i] \in DOMAIN checkpoint'.preserved
  BY <1>2, <1>3, <1>10 DEF DirectivesInv
<1>12. stage' \in {"removing", "appended"} BY <1>2
<1> QED BY <1>7, <1>8, <1>9, <1>11, <1>12 DEF DirectivesInv

\* reconcile_projection looks for directives in the last segment.
LEMMA ReconcileDirectives ==
    ASSUME JournalInv, DirectivesInv, Reconcile
    PROVE  DirectivesInv'
<1> DEFINE n == work.last
           list == work.directives
           list2 == work'.directives
<1>1. /\ stage = "reconciling" /\ ~Orphans(work) /\ ~Refused(work) /\ HandlerStep
      /\ work' = Reconciled(work) /\ stage' = "writing"
      /\ UNCHANGED <<saved, doomed, events, starts, checkpoint>>
  BY DEF Reconcile, HandlerStep
<1>2. /\ Tracked(saved) /\ Tracked(work) /\ Held
      /\ n = saved.last => list = saved.directives
  BY <1>1 DEF DirectivesInv
<1>3. /\ n \in Nat /\ saved.last \in Nat /\ saved.last <= n /\ Solid(Seqs, n) /\ Shape(starts, Seqs)
      /\ starts \in SUBSET Nat /\ Seqs \in SUBSET Nat /\ starts \in SUBSET (1 .. MaxSeq)
      /\ work \in Loose /\ JournalTypes
  BY <1>1, RevisionTypes DEF JournalInv, JournalTypes, InFlight, FilesOk
<1>4. /\ list \in Seq(Nat) /\ Len(list) <= DirectiveLimit /\ list \in Seq(1 .. MaxSeq)
      /\ Accounted(starts, n, list, Directives, Known)
      /\ Directives \in SUBSET Nat
  BY <1>2, ListTypes DEF Tracked
<1>5. work'.last = n
  BY <1>1, <1>3, ReconciledType
<1>6. /\ Accounted(starts, n, list2, Directives, Known)
      /\ list2 = list \/ \A i \in DOMAIN list : Final(starts, n, list[i])
  <2>1. CASE starts = {}
    <3>1. list2 = <<>> BY <1>1, <1>3, <2>1 DEF Reconciled, Loose
    <3>2. n = 0 BY <1>1, <1>3, <2>1 DEF Refused
    <3>3. \A i \in DOMAIN list : FALSE
      <4> SUFFICES ASSUME NEW i \in DOMAIN list PROVE FALSE OBVIOUS
      <4>1. list[i] \in 1 .. MaxSeq BY <1>4, MemberOf
      <4>2. list[i] <= n BY <1>4 DEF Accounted
      <4> QED BY <3>2, <4>1, <4>2, BoundAssumption
    <3>4. \A seq \in Directives : FALSE
      <4>1. \A seq \in Seqs : FALSE BY <1>3, <2>1 DEF Shape
      <4> QED BY <4>1 DEF Directives
    <3>5. DOMAIN list2 = {} BY <3>1
    <3> QED BY <3>3, <3>4, <3>5 DEF Accounted, Due
  <2>2. CASE starts # {}
    <3> DEFINE last == LastStart
               places == {i \in DOMAIN list : list[i] <= n}
               kept == Picked(list, places)
               M == {seq \in InSegment(last) : events[seq] = "directive"} \ Range(kept)
    <3>1. list2 = WithDirectives(work)
      BY <1>1, <1>3, <2>2 DEF Reconciled, Loose
    <3>2. kept = list
      <4>1. places = DOMAIN list BY <1>4 DEF Accounted
      <4> HIDE DEF places
      <4> QED BY <1>4, <4>1, PickedIs
    <3>3. list2 = Latest(list \o Ascending(M))
      <4>1. WithDirectives(work) = Latest(kept \o Ascending(M)) BY DEF WithDirectives
      <4> QED BY <3>1, <3>2, <4>1
    <3>4. /\ last \in starts /\ \A start \in starts : start <= last
          /\ InSegment(last) = {seq \in Seqs : seq >= last} /\ last \in Nat
          /\ InSegment(last) = {} => ActualLast = last - 1
          /\ InSegment(last) # {} => ActualLast \in Seqs /\ \A seq \in Seqs : seq <= ActualLast
          /\ ActualLast = n
      <4>1. ActualLast = n BY <1>1, <2>2 DEF Refused
      <4> QED BY <1>3, <2>2, <4>1, LastSegment
    <3>5. M = {seq \in InSegment(last) : events[seq] = "directive" /\ \A i \in DOMAIN list : list[i] # seq}
      <4> HIDE DEF kept
      <4> QED BY <3>2 DEF Range
    <3> HIDE DEF last, places, kept, M
    <3>6. M \in SUBSET Seqs /\ M \in SUBSET Nat /\ IsFiniteSet(M)
      <4>1. M \in SUBSET Seqs BY <3>4, <3>5
      <4>2. M \in SUBSET (1 .. MaxSeq) BY <1>3, <4>1, SeqsType
      <4>3. IsFiniteSet(1 .. MaxSeq) BY BoundAssumption, FS_Interval
      <4>4. IsFiniteSet(M) BY <4>2, <4>3, FS_Subset
      <4> QED BY <1>3, <4>1, <4>4
    <3>7. ASSUME NEW seq \in M
          PROVE  seq \in Directives /\ seq <= n /\ Final(starts, n, seq) /\ \A i \in DOMAIN list : list[i] # seq
      <4>1. seq \in Seqs /\ seq >= last /\ events[seq] = "directive" /\ \A i \in DOMAIN list : list[i] # seq
        BY <3>4, <3>5
      <4>2. seq <= n
        <5>1. InSegment(last) # {} BY <3>5
        <5> QED BY <3>4, <4>1, <5>1
      <4>3. \A start \in starts : start <= seq
        <5> TAKE start \in starts
        <5>1. start <= last /\ last <= seq /\ start \in Nat /\ seq \in Nat BY <1>3, <3>4, <4>1
        <5> QED BY <3>4, <5>1
      <4> QED BY <4>1, <4>2, <4>3 DEF Directives, Final
    <3>8. ASSUME NEW i \in DOMAIN list, Final(starts, n, list[i]) PROVE list[i] \in Known
      <4>1. list[i] \in Nat /\ list[i] > 0 /\ list[i] <= n
        <5>1. list[i] \in 1 .. MaxSeq BY <1>4, MemberOf
        <5> QED BY <1>4, <5>1, BoundAssumption DEF Accounted
      <4>2. PICK start \in starts : start <= n
        <5>1. n \in Seqs BY <1>3, <4>1 DEF Solid
        <5> QED BY <1>3, <5>1 DEF Shape
      <4>3. PICK first \in Seqs : first <= list[i]
        <5>1. CASE \E s \in starts : s \in Seqs /\ s <= n
          <6>1. PICK s \in starts : s \in Seqs /\ s <= n BY <5>1
          <6>2. s <= list[i] BY <3>8, <6>1 DEF Final
          <6> QED BY <6>1, <6>2
        <5>2. CASE ~\E s \in starts : s \in Seqs /\ s <= n
          <6>1. start \notin Seqs BY <4>2, <5>2
          <6>2. n \in Seqs /\ n < start BY <1>3, <4>1, <6>1 DEF Solid, Shape
          <6> QED BY <1>3, <4>2, <6>2
        <5> QED BY <5>1, <5>2
      <4>4. list[i] \in first .. n BY <1>3, <4>1, <4>3
      <4>5. list[i] \in Seqs BY <1>3, <4>3, <4>4 DEF Solid
      <4> QED BY <4>5 DEF Known
    <3>9. M \subseteq Known BY <3>6 DEF Known
    <3> HIDE DEF list, list2, n
    <3> QED BY <1>3, <1>4, <3>3, <3>6, <3>7, <3>8, <3>9, AccountedReconciled
  <2> QED BY <2>1, <2>2
<1>7. Seqs' = Seqs /\ Directives' = Directives /\ Known' = Known BY <1>1 DEF Seqs, Directives, Known
<1>8. Tracked(saved)' BY <1>1, <1>2, <1>7 DEF Tracked
<1>9. Tracked(work)' BY <1>1, <1>5, <1>6, <1>7 DEF Tracked
<1>10. \A seq : Final(starts, n, seq) => Final(starts, saved.last, seq)
  BY <1>3 DEF Final
<1>11. Held'
  <2> SUFFICES ASSUME NEW i \in Due(saved.directives)
               PROVE  \/ \E j \in DOMAIN list2 : list2[j] = saved.directives[i]
                      \/ Final(starts, saved.last, saved.directives[i])
    BY <1>1 DEF Held
  <2>1. CASE Final(starts, saved.last, saved.directives[i]) BY <2>1
  <2>2. CASE \E j \in DOMAIN list : list[j] = saved.directives[i]
    BY <1>6, <1>10, <2>2
  <2> QED BY <1>2, <2>1, <2>2 DEF Held
<1>12. n = saved.last => \/ list2 = saved.directives
                         \/ \A i \in DOMAIN saved.directives : Final(starts, saved.last, saved.directives[i])
  BY <1>2, <1>6
<1> QED BY <1>1, <1>5, <1>8, <1>9, <1>11, <1>12 DEF DirectivesInv

\* append writes a line, and its event joins the list when it is a directive.
LEMMA WriteDirectives ==
    ASSUME JournalInv, DirectivesInv, NEW kind \in Kinds, NEW rotate \in BOOLEAN, Write(kind, rotate)
    PROVE  DirectivesInv'
<1> DEFINE n == work.last
           list == work.directives
           t == Target(rotate)
<1>1. /\ stage = "writing" /\ MayAppend(kind) /\ MayRotate(rotate) /\ HandlerStep
      /\ n < MaxSeq /\ starts' = starts \cup {t} /\ work' = Extended(work, kind)
      /\ stage' = "compacting" /\ UNCHANGED <<saved, doomed, checkpoint>>
      /\ events' = [seq \in Seqs \cup {n + 1} |-> IF seq = n + 1 THEN kind ELSE events[seq]]
  BY DEF Write, MayAppend, HandlerStep, Seqs
<1>2. /\ Tracked(saved) /\ Tracked(work) /\ Held
      /\ n = saved.last => \/ list = saved.directives
                           \/ \A i \in DOMAIN saved.directives : Final(starts, saved.last, saved.directives[i])
  BY <1>1 DEF DirectivesInv
<1>3. /\ n \in Nat /\ t \in Nat /\ starts \in SUBSET Nat /\ Seqs \in SUBSET Nat
      /\ \/ t \in starts /\ \A start \in starts : start <= t
         \/ t = n + 1 /\ starts \subseteq Seqs
      /\ t <= n + 1
      /\ \A seq \in Seqs : seq <= n
      /\ \A start \in starts : start \in Seqs \/ start = n + 1
  BY <1>1, TargetIs, RevisionTypes, BoundAssumption DEF JournalInv, AtStage
<1>4. /\ list \in Seq(Nat) /\ Len(list) <= DirectiveLimit
      /\ Accounted(starts, n, list, Directives, Known)
      /\ Directives \in SUBSET Nat /\ \A seq \in Directives : seq <= n
  BY <1>2, <1>3, ListTypes DEF Tracked, Directives
<1>5. \/ \A seq \in Nat : Final(starts', n + 1, seq) <=> Final(starts, n, seq)
      \/ \A seq \in Nat : Final(starts', n + 1, seq) <=> seq > n
  <2>1. CASE t <= n
    <3>1. starts' = starts /\ \A start \in starts : start <= n
      BY <1>1, <1>3, <2>1
    <3>2. \A start \in starts : start <= n + 1 BY <1>3, <3>1
    <3> QED BY <3>1, <3>2 DEF Final
  <2>2. CASE t = n + 1
    <3>1. n + 1 \in starts' /\ \A start \in starts' : start <= n + 1 /\ start \in Nat
      BY <1>1, <1>3, <2>2
    <3>2. ASSUME NEW seq \in Nat PROVE Final(starts', n + 1, seq) <=> seq > n
      <4>1. seq > n => \A start \in starts' : start <= seq BY <1>3, <3>1
      <4>2. (\A start \in starts' : start <= n + 1 => start <= seq) => seq > n BY <1>3, <3>1
      <4> QED BY <4>1, <4>2, <3>1 DEF Final
    <3> QED BY <3>2
  <2> QED BY <1>3, <2>1, <2>2
<1>6. Seqs' = Seqs \cup {n + 1} /\ Known' = Known \cup {n + 1}
  BY <1>1 DEF Seqs, Known
<1>7. work'.last = n + 1
      /\ work'.directives = IF kind = "directive" THEN Latest(Append(list, n + 1)) ELSE list
  BY <1>1 DEF Extended, JournalInv, JournalTypes, Loose
<1>8. Tracked(saved)'
  <2>1. ~RemoveCompacted /\ ~Compact /\ ~Save BY <1>1 DEF RemoveCompacted, Compact, Save
  <2> QED BY <1>1, <2>1, SavedTrackedQuietly
<1>9. CASE kind = "finding"
  <2>1. Directives' = Directives
    <3>1. \A seq \in Seqs : seq # n + 1 BY <1>3
    <3> QED BY <1>1, <1>6, <1>9, <3>1 DEF Directives
  <2>2. work'.directives = list BY <1>7, <1>9
  <2>3. Accounted(starts', n + 1, list, Directives, Known')
    <3>1. Known \subseteq Known' BY <1>6
    <3> HIDE DEF list, n, t
    <3> QED BY <1>3, <1>4, <1>5, <3>1, AccountedFinding
  <2>4. Tracked(work)' BY <1>7, <2>1, <2>2, <2>3 DEF Tracked
  <2>5. Held' BY <1>1, <1>2, <2>2, HeldStays
  <2> QED BY <1>1, <1>8, <2>4, <2>5 DEF DirectivesInv
<1>10. CASE kind = "directive"
  <2> DEFINE list2 == work'.directives
  <2>1. Directives' = Directives \cup {n + 1}
    <3>1. \A seq \in Seqs : seq # n + 1 BY <1>3
    <3> QED BY <1>1, <1>6, <1>10, <3>1 DEF Directives
  <2>2. list2 = Latest(Append(list, n + 1)) BY <1>7, <1>10
  <2> HIDE DEF list2
  <2>3. /\ Accounted(starts', n + 1, list2, Directives', Known')
        /\ \A i \in Due(list) : \E j \in DOMAIN list2 : list2[j] = list[i]
    <3>1. Known \cup {n + 1} \subseteq Known' BY <1>6
    <3> DEFINE L == Latest(Append(list, n + 1))
    <3>2. /\ Accounted(starts', n + 1, L, Directives \cup {n + 1}, Known')
          /\ \A i \in Due(list) : \E j \in DOMAIN L : L[j] = list[i]
      <4> HIDE DEF list, n, t
      <4> QED BY <1>3, <1>4, <1>5, <3>1, AccountedDirective
    <3> QED BY <2>1, <2>2, <3>2
  <2>4. Tracked(work)' BY <1>7, <2>3 DEF Tracked, list2
  <2>5. n = saved.last
    <3>1. Appended = {} BY <1>1, <1>10 DEF MayAppend
    <3>2. Appended = saved.last + 1 .. n BY <1>1, AppendedCount
    <3>3. saved.last <= n /\ saved.last \in Nat BY <1>1, RevisionTypes DEF JournalInv, InFlight
    <3> QED BY <1>3, <3>1, <3>2, <3>3
  <2>6. Held'
    <3> SUFFICES ASSUME NEW i \in Due(saved.directives)
                 PROVE  \/ \E j \in DOMAIN list2 : list2[j] = saved.directives[i]
                        \/ Final(starts', saved.last, saved.directives[i])
      BY <1>1 DEF Held, list2
    <3>1. CASE list = saved.directives BY <2>3, <3>1
    <3>2. CASE \A j \in DOMAIN saved.directives : Final(starts, saved.last, saved.directives[j])
      <4>1. i \in DOMAIN saved.directives BY DEF Due
      <4>2. saved.directives[i] \in Nat BY <4>1, ListTypes, MemberOf
      <4> QED BY <1>1, <3>2, <4>1, <4>2, FinalStays
    <3> QED BY <1>2, <2>5, <3>1, <3>2
  <2> QED BY <1>1, <1>8, <2>4, <2>6 DEF DirectivesInv
<1> QED BY <1>9, <1>10 DEF Kinds

\* Every step of a handler keeps the directives of both lists.
LEMMA DirectivesStep == ASSUME JournalInv, DirectivesInv, HandlerStep PROVE DirectivesInv'
<1>1. CASE Begin
  <2>1. /\ work' = saved /\ stage' = "reconciling" /\ UNCHANGED <<saved, events, starts, checkpoint>>
    BY <1>1 DEF Begin, files
  <2>2. Tracked(saved)' /\ Tracked(work)'
    BY <2>1 DEF DirectivesInv, Tracked, Directives, Known, Seqs
  <2>3. Held' BY <2>1 DEF Held, Due
  <2> QED BY <2>1, <2>2, <2>3 DEF DirectivesInv
<1>2. CASE Rollback \/ RemoveOrphan
  <2>1. /\ UNCHANGED <<saved, work>> /\ stage' \in {"reconciling", "undoing"}
        /\ stage \in {"reconciling", "undoing"} /\ work.last = saved.last
    BY <1>2, RollbackCursor DEF Rollback, RemoveOrphan, JournalInv, AtStage
  <2>2. work.directives = saved.directives /\ Held BY <2>1 DEF DirectivesInv
  <2>3. ~RemoveCompacted /\ ~Compact /\ ~Save
    BY <2>1 DEF RemoveCompacted, Compact, Save
  <2>4. Tracked(saved)' BY <2>3, SavedTrackedQuietly
  <2>5. Tracked(work)' BY <2>1, <2>2, <2>4 DEF Tracked
  <2>6. Held' BY <2>1, <2>2, HeldStays
  <2> QED BY <2>1, <2>2, <2>4, <2>5, <2>6 DEF DirectivesInv
<1>3. CASE Refuse \/ Abort \/ \E rotate \in BOOLEAN : WriteTorn(rotate)
  <2>1. stage' = "idle" /\ saved' = saved /\ checkpoint' = checkpoint /\ events' = events
    BY <1>3 DEF Refuse, Abort, WriteTorn, files
  <2>2. Known' = Known BY <2>1 DEF Known, Seqs
  <2>3. Tracked(saved)' BY <2>1, <2>2, SavedTracked
  <2> QED BY <2>1, <2>3 DEF DirectivesInv
<1>4. CASE NeedNotCompact \/ Again
  <2>1. /\ stage \in {"compacting", "appended"} /\ stage' \in {"appended", "reconciling"}
        /\ UNCHANGED <<saved, work, events, starts, checkpoint>>
    BY <1>4 DEF NeedNotCompact, Again, files
  <2>2. saved.last < work.last BY <2>1 DEF JournalInv, AtStage
  <2>3. saved.last # work.last BY <2>2, RevisionTypes
  <2>4. Tracked(saved)' /\ Tracked(work)' /\ Held'
    BY <2>1 DEF DirectivesInv, Tracked, Directives, Known, Seqs, Held, Due
  <2> QED BY <2>1, <2>3, <2>4 DEF DirectivesInv
<1>5. CASE Save
  <2>1. /\ stage = "appended" /\ stage' = "idle" /\ saved' = work
        /\ UNCHANGED <<events, starts, checkpoint>>
    BY <1>5 DEF Save, files
  <2>2. Tracked(saved)' BY <2>1 DEF DirectivesInv, Tracked, Directives, Known, Seqs
  <2> QED BY <2>1, <2>2 DEF DirectivesInv
<1>6. CASE \E kind \in Kinds, rotate \in BOOLEAN : Write(kind, rotate)
  BY <1>6, WriteDirectives
<1> QED BY <1>1, <1>2, <1>3, <1>4, <1>5, <1>6, ReconcileDirectives, CompactDirectives,
           RemoveCompactedDirectives DEF HandlerStep

-----------------------------------------------------------------------------
(* The theorems *)

\* What holds of the projections and the checkpoint in every state.
ListsInv == Revisions /\ DirectivesInv

\* No step breaks it; readers change none of it.
LEMMA ListsStep == ASSUME JournalInv, ListsInv, [Next]_vars PROVE ListsInv'
<1>1. CASE HandlerStep BY <1>1, RevisionsStep, DirectivesStep DEF ListsInv
<1>2. CASE ReaderStep \/ UNCHANGED vars
  <2>1. UNCHANGED <<saved, work, stage, doomed, events, starts, checkpoint>>
    BY <1>2 DEF ReaderStep, Load, List, ReadSegment, Merge, vars, files
  <2>2. Revisions' BY <2>1 DEF ListsInv, Revisions
  <2>3. Tracked(saved)' <=> Tracked(saved) BY <2>1 DEF Tracked, Directives, Known, Seqs
  <2>4. Tracked(work)' <=> Tracked(work) BY <2>1 DEF Tracked, Directives, Known, Seqs
  <2>5. Held' <=> Held BY <2>1 DEF Held, Due
  <2>6. DirectivesInv'
    BY <2>1, <2>3, <2>4, <2>5 DEF ListsInv, DirectivesInv, InSegment, Due
  <2> QED BY <2>2, <2>6 DEF ListsInv
<1> QED BY <1>1, <1>2 DEF Next

\* It holds of a mission that has no journal yet.
LEMMA ListsInitOk == ASSUME Init PROVE ListsInv
<1>1. /\ saved = NewProjection /\ work = NewProjection /\ stage = "idle" /\ starts = {} /\ events = <<>>
      /\ checkpoint.revision = 0 /\ checkpoint.through = 0
  BY DEF Init, NoCheckpoint
<1>2. /\ NewProjection.revision = 0 /\ NewProjection.compacted = 0 /\ NewProjection.last = 0
      /\ NewProjection.directives = <<>>
  BY DEF NewProjection
<1>3. Revisions BY <1>1, <1>2 DEF Revisions
<1>4. Tracked(saved)
  <2>1. Directives = {} BY <1>1 DEF Directives, Seqs
  <2>2. DOMAIN saved.directives = {} BY <1>1, <1>2
  <2> QED BY <2>1, <2>2 DEF Tracked, Accounted, Due
<1> QED BY <1>1, <1>3, <1>4 DEF ListsInv, DirectivesInv

\* Revisions never exceed what was compacted, and the recent directives of the
\* projections are in the journal or in the checkpoint (events.rs
\* reconcile_projection, compact_if_needed).
THEOREM ListsHold == Spec => []ListsInv
<1>1. Init => JournalInv /\ ListsInv BY InitOk, ListsInitOk
<1>2. JournalInv /\ ListsInv /\ [Next]_vars => ListsInv' BY ListsStep
<1> QED BY <1>1, <1>2, JournalHolds, PTL DEF Spec

\* compact_if_needed loses no directive that the saved projection refers to,
\* but the oldest of a full list (preserved_events).
THEOREM DirectivesAreKept == Spec => []DirectivesKept
<1>1. ListsInv => DirectivesKept
  BY DEF ListsInv, DirectivesInv, Tracked, Accounted, Due, Known, Seqs, DirectivesKept
<1> QED BY <1>1, ListsHold, PTL
=============================================================================
