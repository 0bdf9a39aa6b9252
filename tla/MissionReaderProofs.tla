------------------------- MODULE MissionReaderProofs -------------------------
(***************************************************************************)
(* Theorems about the readers of the event journal (MissionEvents), who    *)
(* hold no lock: pages, the types of all that is kept, and context         *)
(* packets, for every size of a segment, every limit and every bound.      *)
(***************************************************************************)
EXTENDS MissionEventsProofs

-----------------------------------------------------------------------------
(* The first events of a segment *)

\* FirstOf takes the least elements, n of them unless there are fewer.
LEMMA FirstOfIs ==
    ASSUME NEW S \in SUBSET Nat, IsFiniteSet(S), NEW n \in Nat
    PROVE  /\ FirstOf(n, S) \subseteq S
           /\ \A x \in FirstOf(n, S) : \A y \in S : y <= x => y \in FirstOf(n, S)
           /\ IsFiniteSet(FirstOf(n, S)) /\ Cardinality(FirstOf(n, S)) <= n
           /\ FirstOf(n, S) = S \/ Cardinality(FirstOf(n, S)) = n
<1> DEFINE N == Cardinality(S)
           A == Ascending(S)
           F == FirstOf(n, S)
           upTo(x) == {m \in S : m <= x}
           below(x) == {m \in S : m < x}
<1>1. /\ N \in Nat
      /\ \A i \in 1 .. N : A[i] \in S /\ Cardinality(upTo(A[i])) = i
      /\ \A x \in S : \E i \in 1 .. N : A[i] = x
  BY AscendingIs
<1>2. F = {x \in S : Cardinality(below(x)) < n} BY DEF FirstOf
<1>3. ASSUME NEW x \in S
      PROVE  /\ IsFiniteSet(below(x)) /\ Cardinality(below(x)) \in Nat
             /\ Cardinality(upTo(x)) = Cardinality(below(x)) + 1
  <2>1. IsFiniteSet(below(x)) BY FS_Subset
  <2>2. /\ \A m \in S : m <= x <=> m < x \/ m = x
        /\ ~(x < x)
    OBVIOUS
  <2>3. upTo(x) = below(x) \cup {x} /\ x \notin below(x) BY <2>2
  <2> HIDE DEF below, upTo
  <2> QED BY <2>1, <2>3, FS_AddElement, FS_CardinalityType
<1>4. \A i \in 1 .. N : A[i] \in F <=> i <= n
  <2> TAKE i \in 1 .. N
  <2>1. A[i] \in S /\ Cardinality(upTo(A[i])) = i BY <1>1
  <2>2. /\ Cardinality(below(A[i])) \in Nat
        /\ Cardinality(upTo(A[i])) = Cardinality(below(A[i])) + 1
    BY <1>3, <2>1
  <2>3. Cardinality(below(A[i])) = i - 1 /\ i \in Nat BY <2>1, <2>2
  <2> QED BY <1>2, <2>1, <2>3
<1>5. ASSUME NEW x \in F, NEW y \in S, y <= x PROVE y \in F
  <2>1. x \in S /\ Cardinality(below(x)) < n BY <1>2
  <2>2. below(y) \subseteq below(x)
    <3>1. \A m \in S : m < y => m < x BY <1>5, <2>1
    <3> QED BY <3>1
  <2>3. /\ Cardinality(below(y)) <= Cardinality(below(x))
        /\ Cardinality(below(x)) \in Nat /\ Cardinality(below(y)) \in Nat
    BY <1>3, <2>1, <2>2, FS_Subset
  <2> QED BY <1>2, <2>1, <2>3
<1>6. IsFiniteSet(F) /\ Cardinality(F) <= N /\ F \subseteq S
  <2>1. F \subseteq S BY <1>2
  <2> QED BY <2>1, FS_Subset
<1>7. CASE N <= n
  <2>1. S \subseteq F
    <3> SUFFICES ASSUME NEW x \in S PROVE x \in F OBVIOUS
    <3>1. PICK i \in 1 .. N : A[i] = x BY <1>1
    <3> QED BY <1>1, <1>4, <1>7, <3>1
  <2> QED BY <1>1, <1>5, <1>6, <1>7, <2>1
<1>8. CASE n < N
  <2> DEFINE g == [i \in 1 .. n |-> A[i]]
  <2>1. \A i \in 1 .. n : i \in 1 .. N /\ A[i] \in F BY <1>1, <1>4, <1>8
  <2>2. g \in [1 .. n -> F] BY <2>1
  <2>3. ASSUME NEW i \in 1 .. n, NEW j \in 1 .. n, g[i] = g[j] PROVE i = j
    <3>1. A[i] = A[j] BY <2>3
    <3>2. Cardinality(upTo(A[i])) = i /\ Cardinality(upTo(A[j])) = j BY <1>1, <2>1
    <3> HIDE DEF upTo, A
    <3> QED BY <3>1, <3>2
  <2>4. ASSUME NEW x \in F PROVE \E i \in 1 .. n : g[i] = x
    <3>1. PICK i \in 1 .. N : A[i] = x BY <1>1, <1>6
    <3>2. i <= n BY <1>4, <3>1
    <3>3. i \in 1 .. n BY <3>2
    <3>4. g[i] = A[i] BY <3>3
    <3> HIDE DEF g, A
    <3> QED BY <3>1, <3>3, <3>4
  <2> HIDE DEF g
  <2>5. g \in Bijection(1 .. n, F)
    BY <2>2, <2>3, <2>4 DEF Bijection, Injection, Surjection, IsInjective
  <2>6. IsFiniteSet(1 .. n) /\ Cardinality(1 .. n) = n BY FS_Interval
  <2>7. Cardinality(F) = n BY <2>5, <2>6, FS_Bijection DEF ExistsBijection
  <2> QED BY <1>5, <1>6, <2>7
<1> QED BY <1>1, <1>7, <1>8

-----------------------------------------------------------------------------
(* The reader *)

\* The numbers of the events that the reader has.
Page == DOMAIN reader.page

\* The types of what a reader holds.
ReaderTypes ==
    reader \in [stage : {"idle", "loaded", "reading", "merging", "done"},
                purpose : {"page", "context"}, last : 0 .. MaxSeq, after : Nat,
                limit : Nat, active : Nat, list : SUBSET (1 .. MaxSeq), page : Journals]

\* What a reader knows of the segments it still has to read.  Beyond the
\* cursor that it loaded, the journal may have been anything meanwhile.
Listed ==
    reader.stage = "reading" =>
        /\ reader.list # {}
        /\ \A start \in starts :
              start <= reader.last /\ (\E n \in reader.list : n <= start) => start \in reader.list
        /\ \A start \in starts : \A n \in reader.list :
              start < n /\ n <= reader.last => n \in starts
        /\ \A seq \in Page : \A n \in reader.list : n <= reader.last => seq < n
        /\ Cardinality(Page) <= reader.limit
        /\ \A first \in Page : \A seq \in first .. reader.last :
              seq \in Page \/ \E n \in reader.list : n <= seq

\* What it has gathered is what was committed.
Gathered ==
    /\ reader.last <= saved.last
    /\ reader.stage = "merging" => reader.purpose = "context"
    /\ reader.stage = "loaded" => reader.page = <<>>
    /\ reader.stage \in {"loaded", "reading", "merging"} \/ reader.purpose = "page" =>
          /\ \A seq \in Page : seq > reader.after
          /\ \A seq \in Page : seq <= reader.last /\ seq \in Seqs => events[seq] = reader.page[seq]
    /\ reader.stage = "merging" \/ (reader.stage = "done" /\ reader.purpose = "page") =>
          /\ reader.page # <<>>
          /\ \A p \in Page : \A seq \in reader.after + 1 .. reader.last : seq <= p => seq \in Page

\* What a reader holds agrees with the files, whatever handlers did meanwhile.
ReaderInv == ReaderTypes /\ Listed /\ Gathered

\* Handlers add segments beyond the committed events, and remove committed
\* ones from the front.
LEMMA StartsStay ==
    ASSUME JournalInv, HandlerStep
    PROVE  /\ \A start \in starts' : start \in starts \/ start > saved.last
           /\ \A m \in starts' : \A n \in starts :
                 m \in starts /\ m < n /\ n <= saved.last => n \in starts'
<1>1. JournalTypes /\ saved.last \in Nat /\ work.last \in Nat /\ starts \in SUBSET Nat
  BY BoundAssumption, SeqsType DEF JournalInv, JournalTypes, Loose
<1>2. CASE UNCHANGED starts BY <1>2
<1>3. CASE RemoveOrphan
  <2>1. RemoveSegment(NextDoomed) /\ stage = "undoing" BY <1>3 DEF RemoveOrphan
  <2>2. doomed # {} /\ doomed \subseteq starts /\ \A start \in doomed : start > saved.last
    BY <1>1, <2>1 DEF JournalInv, AtStage, JournalTypes
  <2>3. doomed \in SUBSET Nat BY <1>1, <2>2
  <2>4. NextDoomed \in doomed BY <2>2, <2>3, MinOf DEF NextDoomed
  <2>5. starts' = starts \ {NextDoomed} BY <2>1 DEF RemoveSegment
  <2> QED BY <1>1, <2>2, <2>4, <2>5
<1>4. CASE RemoveCompacted
  <2>1. /\ NextDoomed \in doomed /\ \A start \in starts : NextDoomed <= start
        /\ starts' = starts \ {NextDoomed}
    BY <1>4, RemovedFirst
  <2>2. NextDoomed \in Nat BY <1>1, <2>1 DEF JournalTypes
  <2> QED BY <1>1, <2>1, <2>2
<1>5. ASSUME NEW rotate \in BOOLEAN, stage = "writing", MayRotate(rotate), work.last < MaxSeq,
             starts' = starts \cup {Target(rotate)}
      PROVE  /\ \A start \in starts' : start \in starts \/ start > saved.last
             /\ starts \subseteq starts'
  <2>1. Target(rotate) \in starts \/ Target(rotate) = work.last + 1 BY <1>5, TargetIs
  <2>2. saved.last <= work.last BY <1>5 DEF JournalInv, InFlight
  <2> QED BY <1>1, <1>5, <2>1, <2>2
<1>6. CASE \E kind \in Kinds, rotate \in BOOLEAN : Write(kind, rotate)
  <2>1. PICK kind \in Kinds, rotate \in BOOLEAN : Write(kind, rotate) BY <1>6
  <2>2. /\ stage = "writing" /\ MayRotate(rotate) /\ work.last < MaxSeq
        /\ starts' = starts \cup {Target(rotate)}
    BY <2>1 DEF Write, MayAppend
  <2> QED BY <1>5, <2>2
<1>7. CASE \E rotate \in BOOLEAN : WriteTorn(rotate)
  <2>1. PICK rotate \in BOOLEAN : WriteTorn(rotate) BY <1>7
  <2>2. /\ stage = "writing" /\ MayRotate(rotate) /\ work.last < MaxSeq
        /\ starts' = starts \cup {Target(rotate)}
    BY <2>1 DEF WriteTorn
  <2> QED BY <1>5, <2>2
<1>8. CASE Begin \/ Rollback \/ Reconcile \/ Refuse \/ Compact \/ NeedNotCompact \/ Again \/ Save \/ Abort
  BY <1>2, <1>8 DEF Begin, Rollback, Reconcile, Refuse, Compact, NeedNotCompact, Again, Save, Abort, files
<1> QED BY <1>3, <1>4, <1>6, <1>7, <1>8 DEF HandlerStep

\* Handlers never change what a reader has.
LEMMA ReaderStays ==
    ASSUME HandlerStep
    PROVE  UNCHANGED reader
BY DEF HandlerStep, Begin, Rollback, RemoveOrphan, Reconcile, Refuse, Write, WriteTorn, Compact,
       NeedNotCompact, RemoveCompacted, Again, Save, Abort

\* A handler's step disturbs no reader.
LEMMA HandlerKeepsReader ==
    ASSUME JournalInv, ReaderInv, HandlerStep
    PROVE  ReaderInv'
<1>0. [Next]_vars /\ JournalInv' BY StepOk DEF Next
<1>1. /\ JournalTypes /\ saved.last \in Nat /\ work.last \in Nat /\ starts \in SUBSET Nat
      /\ reader' = reader /\ reader.last <= saved.last /\ reader.last \in Nat
      /\ reader.list \in SUBSET Nat /\ starts' \in SUBSET Nat /\ saved'.last \in Nat
  <2>1. /\ JournalTypes /\ saved.last \in Nat /\ work.last \in Nat /\ starts \in SUBSET Nat
    BY BoundAssumption, SeqsType DEF JournalInv, JournalTypes, Loose
  <2>2. reader' = reader /\ reader.last <= saved.last BY ReaderStays DEF ReaderInv, Gathered
  <2>3. reader.last \in Nat /\ reader.list \in SUBSET Nat
    BY BoundAssumption DEF ReaderInv, ReaderTypes
  <2>4. starts' \in SUBSET Nat /\ saved'.last \in Nat
    BY <1>0, BoundAssumption DEF JournalInv, JournalTypes, Loose
  <2> QED BY <2>1, <2>2, <2>3, <2>4
<1>2. ReaderTypes' BY <1>1 DEF ReaderInv, ReaderTypes
<1>3. Page' = Page /\ Page \in SUBSET (1 .. MaxSeq) /\ Page \in SUBSET Nat
  <2>1. 1 .. MaxSeq \in SUBSET Nat BY BoundAssumption
  <2> QED BY <1>1, <2>1, JournalIs DEF Page, ReaderInv, ReaderTypes
<1>4. Listed'
  <2>1. /\ \A start \in starts' : start \in starts \/ start > saved.last
        /\ \A m \in starts' : \A n \in starts :
              m \in starts /\ m < n /\ n <= saved.last => n \in starts'
    BY StartsStay
  <2>2. ASSUME reader.stage = "reading", NEW start \in starts', start <= reader.last,
               \E n \in reader.list : n <= start
        PROVE  start \in reader.list
    <3>1. start \in starts BY <1>1, <2>1, <2>2
    <3> QED BY <2>2, <3>1 DEF ReaderInv, Listed
  <2>3. ASSUME reader.stage = "reading", NEW start \in starts', NEW n \in reader.list,
               start < n, n <= reader.last
        PROVE  n \in starts'
    <3>1. start \in starts /\ n <= saved.last BY <1>1, <2>1, <2>3
    <3>2. n \in starts BY <2>3, <3>1 DEF ReaderInv, Listed
    <3> QED BY <2>1, <2>3, <3>1, <3>2
  <2> QED BY <1>1, <1>3, <2>2, <2>3 DEF ReaderInv, Listed
<1>5. ASSUME NEW seq \in Page, seq <= reader.last, seq \in Seqs'
      PROVE  seq \in Seqs /\ events'[seq] = events[seq]
  <2>1. CASE RemoveCompacted
    <3>1. /\ Seqs' = Seqs \ InSegment(NextDoomed)
          /\ \A x \in Seqs' : events'[x] = events[x]
      BY <2>1, RemovedFirst
    <3> QED BY <1>5, <3>1
  <2>2. CASE ~RemoveCompacted
    <3>1. seq \in 1 .. saved.last BY <1>1, <1>3, <1>5
    <3> QED BY <1>0, <1>5, <2>2, <3>1, CommittedStay
  <2> QED BY <2>1, <2>2
<1>6. saved.last <= saved'.last
  <2>1. CASE Save
    <3>1. saved' = work /\ saved.last < work.last BY <2>1 DEF Save, JournalInv, AtStage
    <3> QED BY <1>1, <3>1
  <2>2. CASE ~Save
    <3> QED BY <1>0, <1>1, <2>2, SavedStays
  <2> QED BY <2>1, <2>2
<1>8. Gathered'
  <2>1. reader.last <= saved'.last BY <1>1, <1>6
  <2> QED BY <1>1, <1>3, <1>5, <2>1 DEF ReaderInv, Gathered
<1> QED BY <1>2, <1>4, <1>8 DEF ReaderInv

\* A page of committed events up to the segments that are still to be read.
Fits(page, rest) ==
    /\ page \in Journals /\ Cardinality(DOMAIN page) <= reader.limit
    /\ \A p \in DOMAIN page : p > reader.after
    /\ \A seq \in DOMAIN page : seq <= reader.last /\ seq \in Seqs => events[seq] = page[seq]
    /\ \A p \in DOMAIN page : \A n \in rest : n <= reader.last => p < n
    /\ \A p \in DOMAIN page : \A m \in DOMAIN page : \A seq \in p .. reader.last :
          seq <= m => seq \in DOMAIN page
    /\ Cardinality(DOMAIN page) # reader.limit =>
          \A p \in DOMAIN page : \A seq \in p .. reader.last :
             seq \in DOMAIN page \/ \E n \in rest : n <= seq

\* What a page has after one more segment.
LEMMA GatherIs ==
    ASSUME JournalInv, ReaderInv, reader.stage = "reading",
           NEW start, start = Min(reader.list), start \in starts
    PROVE  Fits(Gather(start), reader.list \ {start})
<1> DEFINE page == Gather(start)
           rest == reader.list \ {start}
           more == {seq \in InSegment(start) : seq > reader.after}
           room == reader.limit - Cardinality(DOMAIN reader.page)
           new == FirstOf(room, more)
<1>1. /\ JournalTypes /\ saved.last \in Nat /\ reader.last \in Nat /\ reader.last <= saved.last
      /\ Seqs \in SUBSET (1 .. MaxSeq) /\ Seqs \in SUBSET Nat /\ starts \in SUBSET Nat
      /\ events \in Journals
  <2>1. reader.last \in Nat /\ reader.last <= saved.last
    BY BoundAssumption DEF ReaderInv, ReaderTypes, Gathered
  <2> QED BY <2>1, BoundAssumption, SeqsType DEF JournalInv, JournalTypes, Loose
<1>2. /\ reader.list # {} /\ reader.list \in SUBSET Nat
      /\ start \in reader.list /\ \A n \in reader.list : start <= n
  <2>1. reader.list # {} /\ reader.list \in SUBSET Nat
    BY BoundAssumption DEF ReaderInv, ReaderTypes, Listed
  <2> QED BY <2>1, MinOf
<1>3. /\ reader.page \in Journals /\ Page \in SUBSET (1 .. MaxSeq) /\ Page \in SUBSET Nat
      /\ IsFiniteSet(Page) /\ Cardinality(Page) \in Nat
      /\ reader.limit \in Nat /\ Cardinality(Page) <= reader.limit /\ reader.after \in Nat
  <2>1. reader.page \in Journals /\ reader.limit \in Nat /\ Cardinality(Page) <= reader.limit
        /\ reader.after \in Nat
    BY DEF ReaderInv, ReaderTypes, Listed
  <2>2. Page \in SUBSET (1 .. MaxSeq) BY <2>1, JournalIs DEF Page
  <2>3. IsFiniteSet(1 .. MaxSeq) /\ 1 .. MaxSeq \in SUBSET Nat BY BoundAssumption, FS_Interval
  <2>4. IsFiniteSet(Page) BY <2>2, <2>3, FS_Subset
  <2> QED BY <2>1, <2>2, <2>3, <2>4, FS_CardinalityType
<1>4. room \in Nat /\ room = reader.limit - Cardinality(Page) BY <1>3 DEF Page
<1>5. /\ more \in SUBSET Seqs /\ more \in SUBSET Nat /\ IsFiniteSet(more)
      /\ more = {seq \in Inside(starts, Seqs, start) : seq > reader.after}
  <2>1. more = {seq \in Inside(starts, Seqs, start) : seq > reader.after} BY InsideIs
  <2>2. more \in SUBSET Seqs BY <2>1 DEF Inside
  <2>3. IsFiniteSet(1 .. MaxSeq) BY BoundAssumption, FS_Interval
  <2>4. more \in SUBSET (1 .. MaxSeq) BY <1>1, <2>2
  <2>5. IsFiniteSet(more) BY <2>3, <2>4, FS_Subset
  <2> QED BY <1>1, <2>1, <2>2, <2>5
<1> HIDE DEF more, room
<1>6. /\ new \subseteq more
      /\ \A x \in new : \A y \in more : y <= x => y \in new
      /\ IsFiniteSet(new) /\ Cardinality(new) <= room /\ Cardinality(new) \in Nat
      /\ new = more \/ Cardinality(new) = room
  <2>0. more \in SUBSET Nat /\ IsFiniteSet(more) /\ room \in Nat BY <1>4, <1>5
  <2>1. /\ new \subseteq more
        /\ \A x \in new : \A y \in more : y <= x => y \in new
        /\ IsFiniteSet(new) /\ Cardinality(new) <= room
        /\ new = more \/ Cardinality(new) = room
    BY <2>0, FirstOfIs
  <2> HIDE DEF new
  <2> QED BY <2>1, FS_CardinalityType
<1>7. page = [seq \in Page \cup new |-> IF seq \in new THEN events[seq] ELSE reader.page[seq]]
  BY DEF Gather, Page, more, room
<1> HIDE DEF new, page
<1>8. DOMAIN page = Page \cup new BY <1>7
<1>9. ASSUME NEW seq \in more
      PROVE  /\ seq \in Nat /\ seq \in Seqs /\ start <= seq /\ seq > reader.after
             /\ \A later \in starts : later > start => seq < later
  <2>1. seq >= start /\ seq \in Nat BY <1>5 DEF Inside
  <2> QED BY <1>1, <1>2, <1>5, <2>1 DEF Inside
<1>10. ASSUME NEW seq \in start .. reader.last,
              seq > reader.after, \A later \in starts : later > start => seq < later
       PROVE  seq \in more
  <2>1. seq \in start .. saved.last BY <1>1, <1>2
  <2>2. seq \in Seqs BY <2>1, CommittedSegment
  <2> QED BY <1>1, <1>2, <1>5, <1>10, <2>2 DEF Inside
<1>11. \A seq \in Page : seq > reader.after BY DEF ReaderInv, Gathered
<1>12. page \in Journals
  <2>1. \A seq \in Page \cup new : seq \in 1 .. MaxSeq BY <1>1, <1>3, <1>5, <1>6
  <2>2. \A seq \in new : events[seq] \in Kinds BY <1>1, <1>5, <1>6, JournalIs DEF Seqs
  <2>3. \A seq \in Page : reader.page[seq] \in Kinds BY <1>3, JournalIs DEF Page
  <2>4. \A seq \in Page \cup new : page[seq] \in Kinds BY <1>7, <2>2, <2>3
  <2>5. page = [seq \in DOMAIN page |-> page[seq]] BY <1>7
  <2> QED BY <1>8, <2>1, <2>4, <2>5, JournalIs
<1>13. /\ Cardinality(DOMAIN page) <= reader.limit
       /\ Page \cap new = {} => Cardinality(DOMAIN page) = Cardinality(Page) + Cardinality(new)
  <2>1. Cardinality(Page \cup new) = Cardinality(Page) + Cardinality(new) - Cardinality(Page \cap new)
    BY <1>3, <1>6, FS_Union
  <2>2. IsFiniteSet(Page \cap new) /\ Cardinality(Page \cap new) \in Nat
    BY <1>3, FS_Subset, FS_CardinalityType
  <2>3. Page \cap new = {} => Cardinality(Page \cap new) = 0 BY FS_EmptySet
  <2> QED BY <1>3, <1>4, <1>6, <1>8, <2>1, <2>2, <2>3
<1>14. \A p \in DOMAIN page : p > reader.after /\ p \in Nat BY <1>3, <1>6, <1>8, <1>9, <1>11
<1>15. ASSUME NEW seq \in DOMAIN page, seq <= reader.last, seq \in Seqs PROVE events[seq] = page[seq]
  BY <1>7, <1>8, <1>15 DEF ReaderInv, Gathered
<1>16. ASSUME NEW p \in DOMAIN page, NEW n \in rest, n <= reader.last PROVE p < n
  <2>1. n \in reader.list /\ start < n BY <1>1, <1>2
  <2>2. CASE p \in Page BY <1>16, <2>1, <2>2 DEF ReaderInv, Listed
  <2>3. CASE p \in new
    <3>1. n \in starts BY <1>16, <2>1 DEF ReaderInv, Listed
    <3> QED BY <1>6, <1>9, <2>1, <2>3, <3>1
  <2> QED BY <1>8, <2>2, <2>3
<1>17. ASSUME NEW p \in Page, NEW seq \in p .. reader.last, seq < start PROVE seq \in Page
  <2>1. seq \in Page \/ \E n \in reader.list : n <= seq BY DEF ReaderInv, Listed
  <2>2. seq \in Nat BY <1>3
  <2> QED BY <1>2, <1>17, <2>1, <2>2
<1>18. ASSUME NEW p \in DOMAIN page, NEW m \in DOMAIN page, NEW seq \in p .. reader.last, seq <= m
       PROVE  seq \in DOMAIN page
  <2>1. p \in Nat /\ m \in Nat /\ seq \in Nat /\ seq > reader.after /\ p <= seq /\ seq <= reader.last
    BY <1>1, <1>3, <1>14
  <2>2. CASE seq < start
    <3>1. p \in Page BY <1>2, <1>6, <1>8, <1>9, <2>1, <2>2
    <3> QED BY <1>8, <1>17, <2>2, <3>1
  <2>3. CASE ~(seq < start)
    <3>1. start <= reader.last /\ start <= seq /\ seq \in start .. reader.last BY <1>1, <1>2, <2>1, <2>3
    <3>2. \A q \in Page : q < start BY <1>2, <3>1 DEF ReaderInv, Listed
    <3>3. m \in new
      <4>1. m \notin Page BY <1>1, <1>2, <1>18, <2>1, <3>1, <3>2
      <4> QED BY <1>8, <4>1
    <3>4. ASSUME NEW later \in starts, later > start PROVE seq < later
      <4>1. m < later BY <1>6, <1>9, <3>3, <3>4
      <4> QED BY <1>1, <1>18, <2>1, <4>1
    <3>5. seq \in more BY <1>10, <2>1, <3>1, <3>4
    <3> QED BY <1>6, <1>8, <1>18, <3>3, <3>5
  <2> QED BY <2>2, <2>3
<1>19. ASSUME Cardinality(DOMAIN page) # reader.limit, NEW p \in DOMAIN page, NEW seq \in p .. reader.last,
              \A n \in rest : ~(n <= seq)
       PROVE  seq \in DOMAIN page
  <2>1. p \in Nat /\ seq \in Nat /\ seq > reader.after /\ p <= seq /\ seq <= reader.last
    BY <1>1, <1>3, <1>14
  <2>2. CASE seq < start
    <3>1. p \in Page BY <1>2, <1>6, <1>8, <1>9, <2>1, <2>2
    <3> QED BY <1>8, <1>17, <2>2, <3>1
  <2>3. CASE ~(seq < start)
    <3>1. start <= reader.last /\ start <= seq /\ seq \in start .. reader.last BY <1>1, <1>2, <2>1, <2>3
    <3>2. \A q \in Page : q < start BY <1>2, <3>1 DEF ReaderInv, Listed
    <3>3. Page \cap new = {}
      <4> SUFFICES ASSUME NEW q \in Page \cap new PROVE FALSE OBVIOUS
      <4>1. q < start /\ start <= q /\ q \in Nat BY <1>6, <1>9, <3>2
      <4> QED BY <1>2, <4>1
    <3>4. new = more
      <4>1. Cardinality(new) # room BY <1>3, <1>4, <1>13, <1>19, <3>3
      <4> QED BY <1>6, <4>1
    <3>5. ASSUME NEW later \in starts, later > start PROVE seq < later
      <4> SUFFICES ASSUME later <= seq PROVE FALSE BY <1>1, <2>1
      <4>1. later <= reader.last BY <1>1, <2>1
      <4>2. later \in reader.list
        <5>1. start <= later BY <1>1, <1>2, <3>5
        <5>2. \E n \in reader.list : n <= later BY <1>2, <5>1
        <5> QED BY <4>1, <5>2 DEF ReaderInv, Listed
      <4>3. later \in rest BY <1>1, <1>2, <3>5, <4>2
      <4> QED BY <1>19, <4>3
    <3>6. seq \in more BY <1>10, <2>1, <3>1, <3>5
    <3> QED BY <1>8, <3>4, <3>6
  <2> QED BY <2>2, <2>3
<1>20. Fits(page, rest) BY <1>12, <1>13, <1>14, <1>15, <1>16, <1>18, <1>19 DEF Fits
<1> QED BY <1>20 DEF page

\* A reader that found nothing, or failed, has nothing.
LEMMA NoReaderOk ==
    ASSUME JournalInv, reader' = NoReader, UNCHANGED <<saved, starts, events>>
    PROVE  ReaderInv'
<1>1. saved.last \in Nat BY BoundAssumption DEF JournalInv, JournalTypes, Loose
<1>2. <<>> \in Journals
  <2>1. DOMAIN <<>> = {} /\ <<>> = [seq \in {} |-> 0] OBVIOUS
  <2>2. <<>> = [seq \in DOMAIN <<>> |-> <<>>[seq]] BY <2>1
  <2> QED BY <2>1, <2>2, JournalIs
<1>3. ReaderTypes' BY <1>2, BoundAssumption DEF ReaderTypes, NoReader
<1>4. reader'.stage = "idle" /\ reader'.last = 0 /\ reader'.page = <<>> BY DEF NoReader
<1>5. Page' = {} BY <1>4 DEF Page
<1> QED BY <1>1, <1>3, <1>4, <1>5 DEF ReaderInv, Listed, Gathered

\* read_since takes its cursor and the saved projection.
LEMMA LoadOk ==
    ASSUME JournalInv, ReaderInv, NEW purpose \in Purposes, NEW after \in 0 .. MaxSeq,
           NEW limit \in 1 .. MaxPage, Load(purpose, after, limit)
    PROVE  ReaderInv'
<1>1. saved.last \in 0 .. MaxSeq /\ saved.last \in Nat /\ MaxPage \in Nat
      /\ Purposes \subseteq {"page", "context"} /\ MaxSeq \in Nat
  BY BoundAssumption, PageAssumption DEF JournalInv, JournalTypes, Loose
<1>2. reader' = [stage |-> "loaded", purpose |-> purpose, last |-> saved.last, after |-> after,
                 limit |-> limit, active |-> 0, list |-> {}, page |-> <<>>]
  BY DEF Load, NoReader
<1>3. <<>> \in Journals
  <2>1. DOMAIN <<>> = {} /\ <<>> = [seq \in {} |-> 0] OBVIOUS
  <2>2. <<>> = [seq \in DOMAIN <<>> |-> <<>>[seq]] BY <2>1
  <2> QED BY <2>1, <2>2, JournalIs
<1>4. ReaderTypes'
  <2>1. purpose \in {"page", "context"} /\ after \in Nat /\ limit \in Nat BY <1>1
  <2> QED BY <1>1, <1>2, <1>3, <2>1 DEF ReaderTypes
<1>5. reader'.stage = "loaded" /\ reader'.last = saved.last /\ reader'.page = <<>> BY <1>2
<1>6. Page' = {} BY <1>5 DEF Page
<1>7. UNCHANGED <<saved, starts, events>> BY DEF Load, files
<1> QED BY <1>1, <1>4, <1>5, <1>6, <1>7 DEF ReaderInv, Listed, Gathered

\* read_since lists the segments.
LEMMA ListOk ==
    ASSUME JournalInv, ReaderInv, List
    PROVE  ReaderInv'
<1> DEFINE first == {start \in starts : start <= reader.after + 1}
           list == IF first = {} THEN starts ELSE {s \in starts : s >= Max(first)}
<1>0. UNCHANGED <<saved, starts, events>> /\ reader.stage = "loaded" BY DEF List, files
<1>1. CASE starts = {}
  <2>1. reader' = NoReader BY <1>1 DEF List
  <2> QED BY <1>0, <2>1, NoReaderOk
<1>2. CASE starts # {}
  <2>1. reader' = [reader EXCEPT !.stage = "reading", !.active = LastStart, !.list = list]
    BY <1>2 DEF List
  <2>2. JournalTypes /\ starts \in SUBSET (1 .. MaxSeq) /\ starts \in SUBSET (0 .. MaxSeq)
        /\ starts \in SUBSET Nat
    BY SeqsType DEF JournalInv
  <2>3. LastStart \in Nat BY <1>2, <2>2, LastSegment
  <2>4. list # {} /\ list \subseteq starts /\ \A a \in list : \A b \in starts : a <= b => b \in list
    <3>1. CASE first = {} BY <1>2, <3>1
    <3>2. CASE first # {}
      <4>1. first \in SUBSET (0 .. MaxSeq) BY <2>2
      <4>2. Max(first) \in first BY <3>2, <4>1, GreatestOf
      <4>3. Max(first) \in starts /\ Max(first) \in Nat BY <2>2, <4>2
      <4> HIDE DEF first
      <4>4. list = {s \in starts : s >= Max(first)} BY <3>2
      <4> QED BY <2>2, <4>3, <4>4
    <3> QED BY <3>1, <3>2
  <2> HIDE DEF list, first
  <2>5. reader \in [stage : {"idle", "loaded", "reading", "merging", "done"},
                purpose : {"page", "context"}, last : 0 .. MaxSeq, after : Nat,
                limit : Nat, active : Nat, list : SUBSET (1 .. MaxSeq), page : Journals]
    BY DEF ReaderInv, ReaderTypes
  <2>6. list \in SUBSET (1 .. MaxSeq) BY <2>2, <2>4
  <2>7. ReaderTypes' BY <2>1, <2>3, <2>5, <2>6 DEF ReaderTypes
  <2>8. /\ reader'.stage = "reading" /\ reader'.last = reader.last /\ reader'.page = <<>>
        /\ reader'.list = list /\ reader'.limit = reader.limit /\ reader'.after = reader.after
        /\ reader.limit \in Nat
    BY <1>0, <2>1, <2>5 DEF ReaderInv, Gathered
  <2>9. Page' = {} /\ Cardinality(Page') = 0 BY <2>8, FS_EmptySet DEF Page
  <2>10. Listed'
    <3>1. \A start \in starts : (\E n \in list : n <= start) => start \in list BY <2>4
    <3> QED BY <1>0, <2>4, <2>8, <2>9, <3>1 DEF Listed
  <2>11. Gathered' BY <1>0, <2>8, <2>9 DEF ReaderInv, Gathered
  <2> QED BY <2>7, <2>10, <2>11 DEF ReaderInv
<1> QED BY <1>1, <1>2

\* read_since reads one segment, stops, or fails.
LEMMA ReadOk ==
    ASSUME JournalInv, ReaderInv, ReadSegment
    PROVE  ReaderInv'
<1> DEFINE start == Min(reader.list)
           page == Gather(start)
           rest == reader.list \ {start}
           full == Cardinality(DOMAIN page) = reader.limit
<1>0. UNCHANGED <<saved, starts, events>> /\ reader.stage = "reading" BY DEF ReadSegment, files
<1>1. CASE ~Readable(start) \/ (~(rest # {} /\ ~full) /\ ~Starts(page))
  <2>1. reader' = NoReader BY <1>1 DEF ReadSegment
  <2> QED BY <1>0, <2>1, NoReaderOk
<1>2. CASE Readable(start) /\ ~(~(rest # {} /\ ~full) /\ ~Starts(page))
  <2>1. /\ page \in Journals /\ Cardinality(DOMAIN page) <= reader.limit
        /\ \A p \in DOMAIN page : p > reader.after
        /\ \A seq \in DOMAIN page : seq <= reader.last /\ seq \in Seqs => events[seq] = page[seq]
        /\ \A p \in DOMAIN page : \A n \in rest : n <= reader.last => p < n
        /\ \A p \in DOMAIN page : \A m \in DOMAIN page : \A seq \in p .. reader.last :
              seq <= m => seq \in DOMAIN page
        /\ Cardinality(DOMAIN page) # reader.limit =>
              \A p \in DOMAIN page : \A seq \in p .. reader.last :
                 seq \in DOMAIN page \/ \E n \in rest : n <= seq
    <3>1. start \in starts BY <1>2 DEF Readable
    <3> HIDE DEF start
    <3>2. Fits(Gather(start), reader.list \ {start}) BY <1>0, <3>1, GatherIs DEF start
    <3> QED BY <3>2 DEF Fits
  <2>2. reader \in [stage : {"idle", "loaded", "reading", "merging", "done"},
                purpose : {"page", "context"}, last : 0 .. MaxSeq, after : Nat,
                limit : Nat, active : Nat, list : SUBSET (1 .. MaxSeq), page : Journals]
    BY DEF ReaderInv, ReaderTypes
  <2>3. rest \in SUBSET (1 .. MaxSeq) /\ {} \in SUBSET (1 .. MaxSeq) BY <2>2
  <2>4. reader.last <= saved.last /\ reader.last \in Nat /\ reader.after \in Nat
    BY <2>2, BoundAssumption DEF ReaderInv, Gathered
  <2>5. rest \subseteq reader.list OBVIOUS
  <2>6. CASE rest # {} /\ ~full
    <3>1. reader' = [reader EXCEPT !.list = rest, !.page = page]
      BY <1>2, <2>6 DEF ReadSegment
    <3>2. \A s \in starts : s <= reader.last /\ (\E n \in rest : n <= s) => s \in rest
      <4> SUFFICES ASSUME NEW s \in starts, NEW n \in rest, s <= reader.last, n <= s
                   PROVE  s \in rest
        OBVIOUS
      <4>1. s \in reader.list BY <1>0, <2>5 DEF ReaderInv, Listed
      <4>2. reader.list \in SUBSET Nat /\ reader.list # {}
        BY <1>0, <2>2, BoundAssumption DEF ReaderInv, Listed
      <4>3. start <= n /\ start # n /\ n \in Nat /\ start \in Nat BY <4>2, MinOf
      <4> HIDE DEF start
      <4>4. s # start BY <4>1, <4>2, <4>3
      <4> QED BY <4>1, <4>4
    <3> HIDE DEF start, page, rest
    <3>3. ReaderTypes' BY <2>1, <2>2, <2>3, <3>1 DEF ReaderTypes
    <3>4. /\ reader'.stage = "reading" /\ reader'.last = reader.last /\ reader'.page = page
          /\ reader'.list = rest /\ reader'.limit = reader.limit /\ reader'.after = reader.after
          /\ Page' = DOMAIN page
      BY <1>0, <2>2, <3>1 DEF Page
    <3>5. Seqs' = Seqs BY <1>0 DEF Seqs
    <3>6. Listed'
      <4>1. \A s \in starts : \A n \in rest : s < n /\ n <= reader.last => n \in starts
        BY <1>0, <2>5 DEF ReaderInv, Listed
      <4> QED BY <1>0, <2>1, <2>6, <3>2, <3>4, <4>1 DEF Listed
    <3>7. Gathered' BY <1>0, <2>1, <2>4, <3>4, <3>5 DEF Gathered
    <3> QED BY <3>3, <3>6, <3>7 DEF ReaderInv
  <2>7. CASE ~(rest # {} /\ ~full)
    <3>1. reader' = [reader EXCEPT !.list = {}, !.page = page,
                       !.stage = IF reader.purpose = "context" THEN "merging" ELSE "done"]
      BY <1>2, <2>7 DEF ReadSegment
    <3>2. Starts(page) BY <1>2, <2>7
    <3> HIDE DEF start, page, rest
    <3>3. ReaderTypes' BY <2>1, <2>2, <2>3, <3>1 DEF ReaderTypes
    <3>4. /\ reader'.stage \in {"merging", "done"} /\ reader'.last = reader.last /\ reader'.page = page
          /\ reader'.after = reader.after /\ reader'.purpose = reader.purpose
          /\ reader'.stage = "done" <=> reader.purpose = "page"
          /\ Page' = DOMAIN page
      BY <2>2, <3>1 DEF Page
    <3>5. Seqs' = Seqs BY <1>0 DEF Seqs
    <3>6. page # <<>> /\ reader.after + 1 \in DOMAIN page
      <4>1. page # <<>> /\ Min(DOMAIN page) = reader.after + 1 BY <3>2 DEF Starts
      <4>2. DOMAIN page \in SUBSET Nat
        <5>1. DOMAIN page \subseteq 1 .. MaxSeq BY <2>1, JournalIs
        <5> QED BY <5>1, BoundAssumption
      <4>3. DOMAIN page # {}
        <5> SUFFICES ASSUME DOMAIN page = {} PROVE page = <<>> BY <4>1
        <5>1. page = [seq \in {} |-> page[seq]] BY <2>1, JournalIs
        <5> QED BY <5>1
      <4> QED BY <4>1, <4>2, <4>3, MinOf
    <3>7. Listed' BY <3>4 DEF Listed
    <3>8. \A p \in DOMAIN page : \A seq \in reader.after + 1 .. reader.last :
             seq <= p => seq \in DOMAIN page
      BY <2>1, <3>6
    <3>9. reader'.stage = "merging" => reader.purpose = "context"
      BY <2>2, <3>1
    <3>10. Gathered'
      <4>1. reader'.last <= saved'.last /\ reader'.stage # "loaded" /\ reader'.page # <<>>
        BY <1>0, <2>4, <3>4, <3>6
      <4>2. \A seq \in Page' : seq > reader'.after BY <2>1, <3>4
      <4>3. \A seq \in Page' : seq <= reader'.last /\ seq \in Seqs' => events'[seq] = reader'.page[seq]
        BY <1>0, <2>1, <3>4, <3>5
      <4>4. \A p \in Page' : \A seq \in reader'.after + 1 .. reader'.last : seq <= p => seq \in Page'
        BY <3>4, <3>8
      <4> QED BY <3>4, <3>9, <4>1, <4>2, <4>3, <4>4 DEF Gathered
    <3> QED BY <3>3, <3>7, <3>10 DEF ReaderInv
  <2> QED BY <2>6, <2>7
<1> QED BY <1>1, <1>2

\* context_event_window adds what a checkpoint preserved.
LEMMA MergeOk ==
    ASSUME JournalInv, ReaderInv, Merge
    PROVE  ReaderInv'
<1> DEFINE seqs == DOMAIN reader.page \cup DOMAIN checkpoint.preserved
           taken == LastOf(MaxPage, seqs)
           page == [seq \in taken |-> IF seq \in DOMAIN reader.page
                                      THEN reader.page[seq] ELSE checkpoint.preserved[seq]]
<1>0. UNCHANGED <<saved, starts, events>> /\ reader.stage = "merging" BY DEF Merge, files
<1>1. reader' = [reader EXCEPT !.stage = "done", !.page = page] BY DEF Merge
<1>2. reader \in [stage : {"idle", "loaded", "reading", "merging", "done"},
                purpose : {"page", "context"}, last : 0 .. MaxSeq, after : Nat,
                limit : Nat, active : Nat, list : SUBSET (1 .. MaxSeq), page : Journals]
  BY DEF ReaderInv, ReaderTypes
<1>3. page \in Journals
  <2>1. checkpoint.preserved \in Journals /\ reader.page \in Journals
    BY <1>2 DEF JournalInv, JournalTypes
  <2>2. taken \subseteq seqs BY DEF LastOf
  <2>3. seqs \subseteq 1 .. MaxSeq BY <2>1, JournalIs
  <2>4. \A seq \in taken : page[seq] \in Kinds BY <2>1, <2>2, JournalIs
  <2>5. DOMAIN page = taken /\ page = [seq \in DOMAIN page |-> page[seq]] OBVIOUS
  <2> HIDE DEF page, taken, seqs
  <2> QED BY <2>2, <2>3, <2>4, <2>5, JournalIs
<1> HIDE DEF page
<1>4. ReaderTypes' BY <1>1, <1>2, <1>3 DEF ReaderTypes
<1>5. reader'.stage = "done" /\ reader'.last = reader.last /\ reader'.purpose = reader.purpose
  BY <1>1, <1>2
<1> QED BY <1>0, <1>4, <1>5 DEF ReaderInv, Listed, Gathered

\* No step of a handler or of the reader breaks it.
LEMMA ReaderStepOk == ASSUME JournalInv, ReaderInv, [Next]_vars PROVE ReaderInv'
<1>1. CASE HandlerStep BY <1>1, HandlerKeepsReader
<1>2. CASE ReaderStep
  <2>1. CASE \E purpose \in Purposes, after \in 0 .. MaxSeq, limit \in 1 .. MaxPage :
                Load(purpose, after, limit)
    BY <2>1, LoadOk
  <2> QED BY <1>2, <2>1, ListOk, ReadOk, MergeOk DEF ReaderStep
<1>3. CASE UNCHANGED vars
  <2>1. UNCHANGED <<saved, events, starts, reader>> BY <1>3 DEF vars, files
  <2> QED BY <2>1 DEF ReaderInv, ReaderTypes, Listed, Gathered, Page, Seqs
<1> QED BY <1>1, <1>2, <1>3 DEF Next

\* It holds before the first read.
LEMMA ReaderInitOk == ASSUME Init PROVE ReaderInv
<1>1. <<>> \in Journals
  <2>1. DOMAIN <<>> = {} /\ <<>> = [seq \in {} |-> 0] OBVIOUS
  <2>2. <<>> = [seq \in DOMAIN <<>> |-> <<>>[seq]] BY <2>1
  <2> QED BY <2>1, <2>2, JournalIs
<1>2. ReaderTypes BY <1>1, BoundAssumption DEF Init, ReaderTypes, NoReader
<1>3. reader.stage = "idle" /\ reader.last = 0 /\ reader.page = <<>> /\ saved.last = 0
  BY DEF Init, NoReader, NewProjection
<1>4. Page = {} BY <1>3 DEF Page
<1> QED BY <1>2, <1>3, <1>4 DEF ReaderInv, Listed, Gathered

\* The segments a reader still has to read and the events it has stay those of
\* the journal, although it takes no lock (events.rs read_since_with_stats).
THEOREM ReaderHolds == Spec => []ReaderInv
<1>1. Init => JournalInv /\ ReaderInv BY InitOk, ReaderInitOk
<1>2. JournalInv /\ ReaderInv /\ [Next]_vars => ReaderInv' BY ReaderStepOk
<1> QED BY <1>1, <1>2, JournalHolds, PTL DEF Spec

\* A page that starts after a cursor has every committed event up to its last,
\* as it was committed, or as compacted (read_since_with_stats).
THEOREM PagesAreFaithful == Spec => []PageFaithful
<1>1. ASSUME JournalInv, ReaderInv PROVE PageFaithful
  <2> SUFFICES ASSUME reader.stage = "done", reader.purpose = "page",
                      NEW seq \in reader.after + 1 .. Max(DOMAIN reader.page),
                      seq <= reader.last
               PROVE  /\ seq \in DOMAIN reader.page
                      /\ CommittedLog[seq] \in {reader.page[seq], "compacted"}
    BY DEF PageFaithful
  <2>1. /\ reader.last \in Nat /\ saved.last \in Nat /\ reader.last <= saved.last
        /\ reader.after \in Nat /\ reader.page \in Journals
    BY <1>1, BoundAssumption
       DEF ReaderInv, ReaderTypes, Gathered, JournalInv, JournalTypes, Loose
  <2>2. Page \in SUBSET (0 .. MaxSeq) /\ Page # {}
    <3>1. Page \subseteq 1 .. MaxSeq BY <2>1, JournalIs DEF Page
    <3>2. reader.page # <<>> BY <1>1 DEF ReaderInv, Gathered
    <3>3. ASSUME Page = {} PROVE FALSE
      <4>1. reader.page = [n \in {} |-> reader.page[n]] BY <2>1, <3>3, JournalIs DEF Page
      <4> QED BY <3>2, <4>1
    <3> QED BY <3>1, <3>3
  <2>3. Max(Page) \in Page /\ Max(Page) \in Nat
    <3>1. Max(Page) \in Page BY <2>2, GreatestOf
    <3> QED BY <2>2, <3>1, BoundAssumption
  <2>4. seq \in reader.after + 1 .. reader.last /\ seq <= Max(Page) /\ seq \in 1 .. saved.last
    BY <2>1, <2>3 DEF Page
  <2>5. seq \in Page BY <1>1, <2>3, <2>4 DEF ReaderInv, Gathered
  <2>6. CommittedLog[seq] = IF seq \in Seqs THEN events[seq] ELSE "compacted"
    BY <1>1, <2>4, LogIs
  <2>7. seq \in Seqs => events[seq] = reader.page[seq] BY <1>1, <2>5 DEF ReaderInv, Gathered
  <2> QED BY <2>5, <2>6, <2>7 DEF Page
<1> QED BY <1>1, JournalHolds, ReaderHolds, PTL

\* Every variable has its type: cursors and revisions stay within the events
\* that were ever written, lists within their limit (mission/types.rs, events.rs).
THEOREM TypesHold == Spec => []TypeOK
<1>1. ASSUME JournalInv, ReaderInv, ListsInv PROVE TypeOK
  <2>1. /\ saved \in Loose /\ work \in Loose /\ JournalTypes /\ ReaderTypes
        /\ checkpoint.revision \in Nat /\ checkpoint.through \in 0 .. MaxSeq
        /\ MaxSeq \in Nat
    BY <1>1, BoundAssumption DEF JournalInv, JournalTypes, ReaderInv
  <2>2. /\ saved.revision <= saved.compacted /\ work.revision <= work.compacted
        /\ checkpoint.revision <= checkpoint.through
    BY <1>1 DEF ListsInv, Revisions
  <2>3. ASSUME NEW p \in Loose, p.revision <= p.compacted PROVE p \in Projections
    <3>1. p.revision \in 0 .. MaxSeq BY <2>1, <2>3 DEF Loose
    <3> QED BY <2>3, <3>1 DEF Loose, Projections, Lists
  <2>4. saved \in Projections /\ work \in Projections BY <2>1, <2>2, <2>3
  <2>5. checkpoint.revision \in 0 .. MaxSeq BY <2>1, <2>2
  <2>6. /\ reader.stage \in {"idle", "loaded", "reading", "merging", "done"}
        /\ reader.last \in 0 .. MaxSeq /\ reader.list \subseteq 1 .. MaxSeq
        /\ reader.page \in Journals
    BY <2>1 DEF ReaderTypes
  <2> QED BY <2>1, <2>4, <2>5, <2>6 DEF TypeOK, JournalTypes
<1> QED BY <1>1, JournalHolds, ReaderHolds, ListsHold, PTL
-----------------------------------------------------------------------------
(* Bounds that the journal keeps between its compactions *)

\* The segments up to event n.
UpTo(n) == {start \in starts : start <= n}

\* What was compacted before projection p is gone, and what p retains is at
\* most what comes next.
After(p) == /\ AtLeastOne(p.retained) <= p.last + 1
            /\ \A start \in starts : start > p.compacted /\ start >= AtLeastOne(p.retained)

Retained == After(saved) /\ (stage # "idle" => After(work))

\* Compaction comes as soon as there is one segment too many, so however often it is
\* interrupted, the next one covers what the last one did.
Counted ==
    /\ Cardinality(UpTo(saved.last)) <= CompactAfter + 1
    /\ stage \in {"reconciling", "undoing", "writing", "appended"} =>
          Cardinality(UpTo(work.last)) <= CompactAfter + 1
    /\ stage \in {"compacting", "removing"} => Cardinality(starts) <= CompactAfter + 2
    /\ Cardinality(UpTo(checkpoint.through)) <= CompactAfter + 1 - Retain
    /\ stage = "removing" => \A start \in starts \ doomed : start > checkpoint.through

\* A checkpoint preserves no more events than a projection lists.
Preserves ==
    /\ \A seq \in DOMAIN checkpoint.preserved : seq <= checkpoint.through
    /\ Cardinality(DOMAIN checkpoint.preserved) <= DirectiveLimit

\* The journal is never more than one handler ahead of the snapshot.
Ahead == \A seq \in Seqs : seq <= saved.last + MaxAppends

LimitsInv == Retained /\ Counted /\ Preserves /\ Ahead

\* Sets of segments are finite.
LEMMA SegmentsFinite ==
    ASSUME JournalTypes, NEW S \in SUBSET starts
    PROVE  IsFiniteSet(S) /\ Cardinality(S) \in Nat /\ Cardinality(S) <= Cardinality(starts)
           /\ Cardinality(starts) \in Nat /\ IsFiniteSet(starts)
<1>1. IsFiniteSet(1 .. MaxSeq) BY BoundAssumption, FS_Interval
<1>2. IsFiniteSet(starts) BY <1>1, SeqsType, FS_Subset
<1> QED BY <1>2, FS_Subset, FS_CardinalityType

\* Only an append adds an event.
LEMMA EventsAdded ==
    ASSUME HandlerStep
    PROVE  \/ Seqs' \subseteq Seqs
           \/ /\ \E kind \in Kinds, rotate \in BOOLEAN : Write(kind, rotate)
              /\ stage = "writing" /\ Seqs' = Seqs \cup {work.last + 1} /\ saved' = saved
<1>1. CASE \E kind \in Kinds, rotate \in BOOLEAN : Write(kind, rotate)
  <2>1. PICK kind \in Kinds, rotate \in BOOLEAN : Write(kind, rotate) BY <1>1
  <2>2. /\ stage = "writing" /\ saved' = saved
        /\ events' = [seq \in DOMAIN events \cup {work.last + 1} |->
                        IF seq = work.last + 1 THEN kind ELSE events[seq]]
    BY <2>1 DEF Write
  <2>3. Seqs' = Seqs \cup {work.last + 1} BY <2>2 DEF Seqs
  <2> QED BY <1>1, <2>2, <2>3
<1>2. CASE Rollback \/ RemoveOrphan \/ RemoveCompacted
  <2>1. events' = events \/ \E S : events' = Only(events, S)
    BY <1>2 DEF Rollback, RemoveOrphan, RemoveCompacted, RemoveSegment
  <2> QED BY <2>1 DEF Only, Seqs
<1>3. CASE \E rotate \in BOOLEAN : WriteTorn(rotate)
  BY <1>3 DEF WriteTorn, Seqs
<1>4. CASE Begin \/ Reconcile \/ Refuse \/ Compact \/ NeedNotCompact \/ Again \/ Save \/ Abort
  BY <1>4 DEF Begin, Reconcile, Refuse, Compact, NeedNotCompact, Again, Save, Abort, files, Seqs
<1> QED BY <1>1, <1>2, <1>3, <1>4 DEF HandlerStep

\* A handler ends, or is ended, before it appends more than it may.
LEMMA AheadStep ==
    ASSUME JournalInv, Ahead, HandlerStep
    PROVE  Ahead'
<1>0. /\ saved.last \in Nat /\ work.last \in Nat /\ MaxAppends \in Nat /\ Seqs \in SUBSET Nat
      /\ saved'.last \in Nat /\ Seqs' \in SUBSET Nat
  <2>1. JournalInv' BY StepOk DEF Next
  <2>2. saved'.last \in Nat /\ Seqs' \in SUBSET Nat
    BY <2>1, BoundAssumption, JournalIs DEF JournalInv, JournalTypes, Loose, Seqs
  <2> QED BY <2>2, RevisionTypes, RetainAssumption
<1>1. CASE Save
  <2>1. stage = "appended" /\ saved' = work /\ UNCHANGED events BY <1>1 DEF Save, files
  <2>2. saved.last < work.last BY <2>1 DEF JournalInv, AtStage
  <2>3. Seqs' = Seqs BY <2>1 DEF Seqs
  <2> QED BY <1>0, <2>1, <2>2, <2>3 DEF Ahead
<1>2. CASE ~Save
  <2>1. saved' = saved
    <3>1. [Next]_vars BY DEF Next
    <3> QED BY <1>2, <3>1, SavedStays
  <2>2. CASE Seqs' \subseteq Seqs BY <1>0, <2>1, <2>2 DEF Ahead
  <2>3. CASE stage = "writing" /\ Seqs' = Seqs \cup {work.last + 1}
    <3>1. work.last < saved.last + MaxAppends BY <2>3 DEF JournalInv, AtStage
    <3> QED BY <1>0, <2>1, <2>3, <3>1 DEF Ahead
  <2> QED BY <2>2, <2>3, EventsAdded
<1> QED BY <1>1, <1>2

\* A sequence has no more members than places.
LEMMA MembersCounted ==
    ASSUME NEW list \in Seq(Nat), NEW S \in SUBSET {list[i] : i \in DOMAIN list}
    PROVE  IsFiniteSet(S) /\ Cardinality(S) \in Nat /\ Cardinality(S) <= Len(list)
<1> DEFINE R == {list[i] : i \in DOMAIN list}
           n == Len(list)
           g == [i \in 1 .. n |-> list[i]]
<1>1. n \in Nat /\ DOMAIN list = 1 .. n BY LenProperties
<1>2. R = {list[i] : i \in 1 .. n} BY <1>1
<1>3. g \in Surjection(1 .. n, R)
  <2>1. g \in [1 .. n -> R] BY <1>2
  <2>2. \A x \in R : \E i \in 1 .. n : g[i] = x BY <1>2
  <2> QED BY <2>1, <2>2 DEF Surjection
<1> HIDE DEF R, n, g
<1>4. IsFiniteSet(1 .. n) /\ Cardinality(1 .. n) = n
  <2>1. n \in Nat BY <1>1
  <2>2. IsFiniteSet(1 .. n) /\ Cardinality(1 .. n) = (IF 1 > n THEN 0 ELSE n - 1 + 1)
    BY <2>1, FS_Interval
  <2> QED BY <2>1, <2>2
<1>5. IsFiniteSet(R) /\ Cardinality(R) <= n BY <1>3, <1>4, FS_Surjection
<1>6. S \in SUBSET R BY DEF R
<1>7. IsFiniteSet(S) /\ Cardinality(S) <= Cardinality(R) BY <1>5, <1>6, FS_Subset
<1>8. Cardinality(S) \in Nat /\ Cardinality(R) \in Nat BY <1>5, <1>7, FS_CardinalityType
<1>9. Cardinality(S) <= n BY <1>1, <1>5, <1>7, <1>8
<1> QED BY <1>7, <1>8, <1>9 DEF n

\* compact_if_needed preserves what the handler's list refers to.
LEMMA PreservesStep ==
    ASSUME JournalInv, Preserves, HandlerStep
    PROVE  Preserves'
<1>1. CASE Compact
  <2>1. checkpoint' = NextCheckpoint BY <1>1 DEF Compact
  <2>2. DOMAIN checkpoint'.preserved =
          {seq \in DOMAIN checkpoint.preserved \cup CompactedEvents :
              \E i \in DOMAIN work.directives : work.directives[i] = seq}
    BY <2>1, PreservedIs
  <2>3. /\ checkpoint'.through \in Nat /\ checkpoint.through <= checkpoint'.through
        /\ \A seq \in CompactedEvents : seq <= checkpoint'.through
        /\ CompactedEvents \subseteq Seqs
    BY <2>1, NextCheckpointIs, BoundAssumption DEF JournalInv
  <2>4. \A seq \in DOMAIN checkpoint'.preserved : seq <= checkpoint'.through
    <3>1. DOMAIN checkpoint.preserved \subseteq Nat
      BY JournalIs, BoundAssumption DEF JournalInv, JournalTypes
    <3>2. checkpoint.through \in Nat BY RevisionTypes
    <3> QED BY <2>2, <2>3, <3>1, <3>2 DEF Preserves
  <2>5. DOMAIN checkpoint'.preserved \subseteq {work.directives[i] : i \in DOMAIN work.directives}
    BY <2>2
  <2>6. Cardinality(DOMAIN checkpoint'.preserved) <= DirectiveLimit
    <3>1. work.directives \in Seq(Nat) /\ Len(work.directives) <= DirectiveLimit BY ListTypes
    <3>2. Len(work.directives) \in Nat /\ DirectiveLimit \in Nat BY <3>1, LenProperties, PageAssumption
    <3>3. /\ Cardinality(DOMAIN checkpoint'.preserved) \in Nat
          /\ Cardinality(DOMAIN checkpoint'.preserved) <= Len(work.directives)
      BY <2>5, <3>1, MembersCounted
    <3> QED BY <3>1, <3>2, <3>3
  <2> QED BY <2>4, <2>6 DEF Preserves
<1>2. CASE ~Compact
  <2>1. checkpoint' = checkpoint
    BY <1>2 DEF HandlerStep, Begin, Rollback, RemoveOrphan, Reconcile, Refuse, Write, WriteTorn,
       NeedNotCompact, RemoveCompacted, Again, Save, Abort, files
  <2> QED BY <2>1 DEF Preserves
<1> QED BY <1>1, <1>2

\* An append goes to a segment beyond all that was compacted.
LEMMA RetainedTarget ==
    ASSUME JournalInv, Revisions, Retained, stage = "writing", NEW rotate \in BOOLEAN, MayRotate(rotate),
           work.last < MaxSeq, starts' = starts \cup {Target(rotate)}, saved' = saved
    PROVE  /\ After(saved)'
           /\ work' = Extended(work, "finding") \/ work' = Extended(work, "directive") => After(work)'
<1>1. Target(rotate) \in starts \/ Target(rotate) = work.last + 1 BY TargetIs
<1>2. saved.last <= work.last BY DEF JournalInv, InFlight
<1>3. /\ saved.retained \in Nat /\ work.retained \in Nat
      /\ saved.last \in Nat /\ work.last \in Nat /\ saved.compacted \in Nat /\ work.compacted \in Nat
      /\ work \in Loose
  BY RevisionTypes, BoundAssumption DEF JournalInv, JournalTypes, Loose
<1>4. saved.compacted <= saved.last /\ work.compacted <= saved.last BY DEF Revisions
<1>5. After(saved) /\ After(work) BY DEF Retained
<1>6. After(saved)'
  <2>1. work.last + 1 > saved.compacted /\ work.last + 1 >= AtLeastOne(saved.retained)
    BY <1>2, <1>3, <1>4, <1>5 DEF After, AtLeastOne
  <2> QED BY <1>1, <1>5, <2>1 DEF After
<1>7. ASSUME work' = Extended(work, "finding") \/ work' = Extended(work, "directive")
      PROVE  After(work)'
  <2>1. work'.last = work.last + 1 /\ work'.retained = work.retained /\ work'.compacted = work.compacted
    BY <1>3, <1>7 DEF Extended, Loose
  <2>2. work.last + 1 > work.compacted /\ work.last + 1 >= AtLeastOne(work.retained)
    BY <1>2, <1>3, <1>4, <1>5 DEF After, AtLeastOne
  <2>3. AtLeastOne(work.retained) <= work'.last + 1
    BY <1>3, <1>5, <2>1 DEF After, AtLeastOne
  <2> QED BY <1>1, <1>5, <2>1, <2>2, <2>3 DEF After
<1> QED BY <1>6, <1>7

\* reconcile_projection takes what is retained from the files.
LEMMA RetainedReconcile ==
    ASSUME JournalInv, Retained, Reconcile
    PROVE  Retained'
<1>1. /\ work' = Reconciled(work) /\ stage' = "writing" /\ stage = "reconciling"
      /\ ~Refused(work) /\ ~Orphans(work)
      /\ UNCHANGED <<saved, doomed, starts, checkpoint>>
  BY DEF Reconcile
<1>2. /\ work \in Loose /\ work.retained \in Nat /\ work.last \in Nat /\ starts \in SUBSET Nat
      /\ work.compacted \in Nat /\ checkpoint.through \in Nat
  BY RevisionTypes, BoundAssumption DEF JournalInv, JournalTypes, Loose
<1>3. After(saved) /\ After(work) BY <1>1 DEF Retained
<1>4. CASE starts = {}
  <2>1. work'.retained = 1 /\ work'.last = work.last BY <1>1, <1>2, <1>4 DEF Reconciled, Loose
  <2>2. AtLeastOne(work'.retained) <= work'.last + 1 BY <1>2, <2>1 DEF AtLeastOne
  <2> QED BY <1>1, <1>3, <1>4, <2>2 DEF Retained, After
<1>5. CASE starts # {} /\ Moved(work)
  <2>1. work'.retained = Min(starts) /\ work'.compacted = checkpoint.through /\ work'.last = work.last
    BY <1>1, <1>2, <1>5 DEF Reconciled, Loose
  <2>2. checkpoint.through + 1 = Min(starts) BY <1>1, <1>5 DEF Refused, Bridged
  <2>3. Min(starts) \in starts /\ \A start \in starts : Min(starts) <= start
    BY <1>2, <1>5, MinOf
  <2>4. \A start \in starts : start > checkpoint.through BY <1>2, <2>2, <2>3
  <2>5. Min(starts) > 0 BY <1>2, <2>2
  <2>6. Min(starts) <= work.last + 1
    <3>1. JournalInv' BY ReconcileOk
    <3>2. \A start \in starts : start \in Seqs \/ start = work.last + 1
      BY <1>1, <2>1, <3>1 DEF JournalInv, AtStage, Reconcile, Seqs
    <3>3. \A seq \in Seqs : seq <= work.last
      BY <1>1, <2>1, <3>1 DEF JournalInv, AtStage, Reconcile, Seqs
    <3>4. \A start \in starts : start <= work.last + 1 BY <1>2, <3>2, <3>3
    <3> QED BY <2>3, <3>4
  <2>7. AtLeastOne(work'.retained) = Min(starts) BY <2>1, <2>5 DEF AtLeastOne
  <2> QED BY <1>1, <1>3, <2>1, <2>3, <2>4, <2>6, <2>7 DEF Retained, After
<1>6. CASE starts # {} /\ ~Moved(work)
  <2>1. work'.retained = AtLeastOne(work.retained) /\ work'.compacted = work.compacted
        /\ work'.last = work.last
    BY <1>1, <1>2, <1>6 DEF Reconciled, Loose
  <2>2. AtLeastOne(work'.retained) = AtLeastOne(work.retained) BY <1>2, <2>1 DEF AtLeastOne
  <2> QED BY <1>1, <1>3, <2>1, <2>2 DEF Retained, After
<1> QED BY <1>4, <1>5, <1>6

\* So does compact_if_needed.
LEMMA RetainedCompacted ==
    ASSUME JournalInv, Retained, Counted, RemoveCompacted
    PROVE  Retained'
<1>1. /\ NextDoomed \in doomed /\ starts' = starts \ {NextDoomed} /\ starts' # {}
      /\ \E start \in starts' : start <= saved.last
  BY RemovedFirst
<1>2. /\ stage = "removing" /\ saved' = saved /\ checkpoint' = checkpoint
      /\ doomed' = doomed \ {NextDoomed}
      /\ IF doomed' = {}
         THEN work' = [work EXCEPT !.revision = checkpoint.revision,
                                   !.compacted = checkpoint.through, !.retained = Min(starts')]
         ELSE UNCHANGED <<work, stage>>
  BY DEF RemoveCompacted
<1>3. After(saved) /\ After(work) BY <1>2 DEF Retained
<1>4. After(saved)' BY <1>1, <1>2, <1>3 DEF After
<1>5. CASE doomed' # {} BY <1>1, <1>2, <1>3, <1>4, <1>5 DEF After, Retained
<1>6. CASE doomed' = {}
  <2>1. /\ work'.compacted = checkpoint.through /\ work'.retained = Min(starts') /\ work'.last = work.last
    BY <1>2, <1>6 DEF JournalInv, JournalTypes, Loose
  <2>2. /\ starts \in SUBSET Nat /\ starts' \in SUBSET Nat /\ saved.last \in Nat /\ work.last \in Nat
        /\ \A start \in starts : start > 0
    <3>1. \A start \in starts : start > 0 BY RevisionTypes
    <3> QED BY <1>1, <3>1, RevisionTypes
  <2>3. Min(starts') \in starts' /\ \A start \in starts' : Min(starts') <= start
    BY <1>1, <2>2, MinOf
  <2>4. saved.last <= work.last BY <1>2 DEF JournalInv, InFlight
  <2>5. Min(starts') <= work.last + 1
    <3>1. PICK start \in starts' : start <= saved.last BY <1>1
    <3>2. Min(starts') <= start BY <2>3, <3>1
    <3>3. Min(starts') \in Nat /\ start \in Nat BY <2>2, <2>3, <3>1
    <3> QED BY <2>2, <2>4, <3>1, <3>2, <3>3
  <2>6. AtLeastOne(work'.retained) = Min(starts')
    <3>1. Min(starts') # 0 BY <1>1, <2>2, <2>3
    <3> QED BY <2>1, <3>1 DEF AtLeastOne
  <2>7. \A start \in starts' : start > checkpoint.through
    <3>1. \A start \in starts' : start \in starts \ doomed BY <1>1, <1>2, <1>6
    <3> QED BY <1>2, <3>1 DEF Counted
  <2>8. After(work)' BY <2>1, <2>3, <2>5, <2>6, <2>7 DEF After
  <2> QED BY <1>4, <2>8 DEF Retained
<1> QED BY <1>5, <1>6

\* Every step of a handler keeps the boundary of the retained history.
LEMMA RetainedStep ==
    ASSUME JournalInv, Revisions, Retained, Counted, HandlerStep
    PROVE  Retained'
<1>1. CASE Begin
  BY <1>1 DEF Begin, Retained, After, files
<1>2. CASE Rollback \/ RemoveOrphan
  <2>1. starts' \subseteq starts /\ UNCHANGED <<saved, work>> /\ stage # "idle"
    BY <1>2 DEF Rollback, RemoveOrphan, RemoveSegment
  <2> QED BY <2>1 DEF Retained, After
<1>3. CASE Compact \/ NeedNotCompact \/ Again
  BY <1>3 DEF Compact, NeedNotCompact, Again, Retained, After, files
<1>4. CASE Refuse \/ Abort
  BY <1>4 DEF Refuse, Abort, Retained, After, files
<1>5. CASE Save
  BY <1>5 DEF Save, Retained, After, files
<1>6. CASE \E kind \in Kinds, rotate \in BOOLEAN : Write(kind, rotate)
  <2>1. PICK kind \in Kinds, rotate \in BOOLEAN : Write(kind, rotate) BY <1>6
  <2>2. /\ stage = "writing" /\ MayRotate(rotate) /\ work.last < MaxSeq /\ saved' = saved
        /\ starts' = starts \cup {Target(rotate)} /\ work' = Extended(work, kind)
    BY <2>1 DEF Write, MayAppend
  <2>3. kind = "finding" \/ kind = "directive" BY DEF Kinds
  <2> QED BY <2>2, <2>3, RetainedTarget DEF Retained
<1>7. CASE \E rotate \in BOOLEAN : WriteTorn(rotate)
  <2>1. PICK rotate \in BOOLEAN : WriteTorn(rotate) BY <1>7
  <2>2. /\ stage = "writing" /\ MayRotate(rotate) /\ work.last < MaxSeq /\ saved' = saved
        /\ starts' = starts \cup {Target(rotate)} /\ stage' = "idle"
    BY <2>1 DEF WriteTorn
  <2> QED BY <2>2, RetainedTarget DEF Retained
<1> QED BY <1>1, <1>2, <1>3, <1>4, <1>5, <1>6, <1>7, RetainedReconcile, RetainedCompacted DEF HandlerStep

\* Numbers of segments that only become fewer.
LEMMA CountedKeeps ==
    ASSUME JournalTypes, JournalTypes', Counted,
           UpTo(saved.last)' \subseteq UpTo(saved.last),
           UpTo(checkpoint.through)' \subseteq UpTo(checkpoint.through)
    PROVE  /\ Cardinality(UpTo(saved.last))' <= CompactAfter + 1
           /\ Cardinality(UpTo(checkpoint.through))' <= CompactAfter + 1 - Retain
<1> DEFINE A == UpTo(saved.last)
           B == UpTo(checkpoint.through)
<1>1. IsFiniteSet(A) /\ IsFiniteSet(B) BY SegmentsFinite DEF UpTo
<1>2. A' \in SUBSET A /\ B' \in SUBSET B OBVIOUS
<1>3. Cardinality(A) <= CompactAfter + 1 /\ Cardinality(B) <= CompactAfter + 1 - Retain
  BY DEF Counted
<1> HIDE DEF A, B
<1>4. /\ Cardinality(A') <= Cardinality(A) /\ Cardinality(B') <= Cardinality(B)
      /\ Cardinality(A') \in Nat /\ Cardinality(B') \in Nat
      /\ Cardinality(A) \in Nat /\ Cardinality(B) \in Nat
  BY <1>1, <1>2, FS_Subset, FS_CardinalityType
<1>5. CompactAfter \in Nat /\ Retain \in Nat BY RetainAssumption
<1>6. Cardinality(A') <= CompactAfter + 1 /\ Cardinality(B') <= CompactAfter + 1 - Retain
  BY <1>3, <1>4, <1>5
<1> QED BY <1>6 DEF A, B

\* An append adds at most one segment to those up to the handler's cursor.
LEMMA CountedTarget ==
    ASSUME JournalInv, JournalInv', Revisions, Counted, stage = "writing", NEW rotate \in BOOLEAN,
           MayRotate(rotate), work.last < MaxSeq, starts' = starts \cup {Target(rotate)},
           UNCHANGED <<saved, checkpoint>>
    PROVE  /\ Cardinality(starts') <= CompactAfter + 2
           /\ Cardinality(UpTo(saved.last))' <= CompactAfter + 1
           /\ Cardinality(UpTo(checkpoint.through))' <= CompactAfter + 1 - Retain
<1> DEFINE A == UpTo(work.last)
           n == work.last + 1
<1>1. /\ starts \in SUBSET Nat /\ work.last \in Nat /\ saved.last \in Nat /\ checkpoint.through \in Nat
      /\ saved.last <= work.last /\ checkpoint.through <= saved.last
  BY RevisionTypes DEF Revisions, JournalInv, InFlight
<1>2. Target(rotate) \in starts \/ Target(rotate) = n BY TargetIs
<1>3. starts' \subseteq A \cup {n}
  <2>1. \A start \in starts : start \in Seqs \/ start = n BY DEF JournalInv, AtStage
  <2>2. \A seq \in Seqs : seq <= work.last BY DEF JournalInv, AtStage
  <2>3. starts \subseteq A \cup {n} BY <2>1, <2>2 DEF UpTo
  <2> QED BY <1>2, <2>3
<1>4. UpTo(saved.last)' \subseteq UpTo(saved.last)
  <2>1. ~(n <= saved.last) BY <1>1
  <2> QED BY <1>2, <2>1 DEF UpTo
<1>5. UpTo(checkpoint.through)' \subseteq UpTo(checkpoint.through)
  <2>1. ~(n <= checkpoint.through) BY <1>1
  <2> QED BY <1>2, <2>1 DEF UpTo
<1>6. Cardinality(starts') <= CompactAfter + 2
  <2>1. IsFiniteSet(A) /\ Cardinality(A) \in Nat BY SegmentsFinite DEF UpTo, JournalInv
  <2>2. Cardinality(A) <= CompactAfter + 1 BY DEF Counted
  <2>3. starts' \in SUBSET (A \cup {n}) BY <1>3
  <2> HIDE DEF A, n
  <2>4. IsFiniteSet(A \cup {n}) /\ Cardinality(A \cup {n}) <= Cardinality(A) + 1
    BY <2>1, FS_AddElement
  <2>5. Cardinality(starts') <= Cardinality(A \cup {n}) BY <2>3, <2>4, FS_Subset
  <2>6. Cardinality(A \cup {n}) \in Nat /\ Cardinality(starts') \in Nat /\ CompactAfter \in Nat
    BY <2>3, <2>4, FS_Subset, FS_CardinalityType, RetainAssumption
  <2> QED BY <2>1, <2>2, <2>4, <2>5, <2>6
<1> QED BY <1>4, <1>5, <1>6, CountedKeeps DEF JournalInv

\* A compaction covers what the checkpoint before it covered, and as many segments as it removes.
LEMMA CountedCompact ==
    ASSUME JournalInv, JournalInv', Counted, Compact
    PROVE  Counted'
<1> DEFINE k == Closed - Retain
           old == UpTo(checkpoint.through)
<1>1. /\ stage = "compacting" /\ Closed > CompactAfter /\ checkpoint' = NextCheckpoint
      /\ doomed' = Compacting /\ stage' = "removing" /\ UNCHANGED <<saved, work, events, starts>>
  BY DEF Compact
<1>2. JournalTypes /\ starts \in SUBSET Nat /\ IsFiniteSet(starts) /\ Cardinality(starts) \in Nat
      /\ checkpoint.through \in Nat
  BY RevisionTypes, SegmentsFinite
<1>3. Cardinality(starts) <= CompactAfter + 2 BY <1>1 DEF Counted
<1>4. CompactAfter \in Nat /\ Retain \in Nat /\ Retain < CompactAfter BY RetainAssumption
<1>5. k \in Nat /\ k <= CompactAfter + 1 - Retain /\ CompactAfter + 1 - Retain <= k
  BY <1>1, <1>2, <1>3, <1>4 DEF Closed
<1>6. Compacting = FirstOf(k, starts) BY DEF Compacting, Oldest, FirstOf
<1>7. Compacting \subseteq starts /\ Cardinality(Compacting) <= k /\ Cardinality(Compacting) \in Nat
  <2> HIDE DEF k
  <2> QED BY <1>2, <1>5, <1>6, FirstOfIs, FS_CardinalityType
<1>8. /\ checkpoint'.through \in CompactedEvents \cup {checkpoint.through}
      /\ CompactedEvents \subseteq Seqs
  BY <1>1, <1>2, NextCheckpointIs
<1>9. ASSUME NEW start \in starts \ Compacting PROVE start > checkpoint.through
  <2> SUFFICES ASSUME start <= checkpoint.through PROVE FALSE BY <1>2
  <2> DEFINE before == {s \in starts : s < start}
  <2>1. IsFiniteSet(before) /\ Cardinality(before) \in Nat BY <1>2, SegmentsFinite
  <2>2. ~(Cardinality(before) < k) BY DEF Compacting, Oldest
  <2>3. before \cup {start} \subseteq old /\ start \notin before
    <3>1. \A s \in starts : s < start => s <= checkpoint.through BY <1>2
    <3>2. ~(start < start) BY <1>2
    <3> QED BY <3>1, <3>2 DEF UpTo
  <2>4. IsFiniteSet(old) /\ Cardinality(old) \in Nat BY <1>2, SegmentsFinite DEF UpTo
  <2>5. Cardinality(old) <= CompactAfter + 1 - Retain BY DEF Counted
  <2> HIDE DEF before, old, k
  <2>6. Cardinality(before \cup {start}) = Cardinality(before) + 1 BY <2>1, <2>3, FS_AddElement
  <2>7. before \cup {start} \in SUBSET old BY <2>3
  <2>8. Cardinality(before \cup {start}) <= Cardinality(old) BY <2>4, <2>7, FS_Subset
  <2> QED BY <1>4, <1>5, <2>1, <2>2, <2>4, <2>5, <2>6, <2>8
<1>10. ASSUME NEW start \in starts \ Compacting PROVE start > checkpoint'.through
  <2>1. CASE checkpoint'.through = checkpoint.through BY <1>9, <2>1
  <2>2. CASE checkpoint'.through \in CompactedEvents
    <3>1. PICK c \in Compacting : checkpoint'.through \in InSegment(c)
      BY <2>2 DEF CompactedEvents
    <3>2. c < start
      <4>1. c \in starts /\ (start < c => start \in Compacting)
        BY <1>1, <1>2, CompactingIs
      <4>2. c # start OBVIOUS
      <4> QED BY <1>2, <4>1, <4>2
    <3> QED BY <1>2, <3>1, <3>2 DEF InSegment
  <2> QED BY <1>8, <2>1, <2>2
<1>11. Cardinality(UpTo(checkpoint.through))' <= CompactAfter + 1 - Retain
  <2>1. UpTo(checkpoint.through)' \in SUBSET Compacting
    <3>1. checkpoint'.through \in Nat BY <1>1, <1>2, NextCheckpointIs, BoundAssumption
    <3>2. \A start \in starts \ Compacting : ~(start <= checkpoint'.through)
      BY <1>2, <1>10, <3>1
    <3> QED BY <1>1, <3>2 DEF UpTo
  <2>2. IsFiniteSet(Compacting) BY <1>2, <1>7, SegmentsFinite
  <2>3. /\ Cardinality(UpTo(checkpoint.through)') <= Cardinality(Compacting)
        /\ Cardinality(UpTo(checkpoint.through)') \in Nat
    BY <2>1, <2>2, FS_Subset, FS_CardinalityType
  <2> HIDE DEF k
  <2> QED BY <1>4, <1>5, <1>7, <2>3
<1>12. Cardinality(UpTo(saved.last))' <= CompactAfter + 1 BY <1>1 DEF Counted, UpTo
<1> QED BY <1>1, <1>3, <1>10, <1>11, <1>12 DEF Counted

\* Every step of a handler keeps the numbers of segments within their bounds.
LEMMA CountedStep ==
    ASSUME JournalInv, Revisions, Counted, HandlerStep
    PROVE  Counted'
<1>0. /\ JournalInv' /\ JournalTypes /\ JournalTypes'
      /\ IsFiniteSet(starts') /\ Cardinality(starts') \in Nat
  <2>1. JournalInv' BY StepOk DEF Next
  <2>2. starts' \in SUBSET (1 .. MaxSeq) BY <2>1 DEF JournalInv, JournalTypes
  <2>3. IsFiniteSet(1 .. MaxSeq) BY BoundAssumption, FS_Interval
  <2>4. IsFiniteSet(starts') BY <2>2, <2>3, FS_Subset
  <2> QED BY <2>1, <2>4, FS_CardinalityType DEF JournalInv
<1>1. CASE Begin
  BY <1>1 DEF Begin, Counted, UpTo, files
<1>2. CASE Rollback \/ RemoveOrphan
  <2>1. /\ starts' \subseteq starts /\ UNCHANGED <<saved, work, checkpoint>>
        /\ stage \in {"reconciling", "undoing"} /\ stage' \in {"reconciling", "undoing"}
        /\ work.last = saved.last
    <3>1. stage = "reconciling" => work.last = saved.last \/ RemoveOrphan
      BY <1>2, RollbackCursor DEF Rollback
    <3> QED BY <1>2, <3>1 DEF Rollback, RemoveOrphan, RemoveSegment, JournalInv, AtStage
  <2>2. /\ UpTo(saved.last)' \subseteq UpTo(saved.last)
        /\ UpTo(checkpoint.through)' \subseteq UpTo(checkpoint.through)
    BY <2>1 DEF UpTo
  <2>3. /\ Cardinality(UpTo(saved.last))' <= CompactAfter + 1
        /\ Cardinality(UpTo(checkpoint.through))' <= CompactAfter + 1 - Retain
    BY <1>0, <2>2, CountedKeeps
  <2>4. UpTo(work.last)' = UpTo(saved.last)' BY <2>1 DEF UpTo
  <2> QED BY <2>1, <2>3, <2>4 DEF Counted
<1>3. CASE Refuse \/ Abort
  BY <1>3 DEF Refuse, Abort, Counted, UpTo, files
<1>4. CASE Reconcile
  <2>1. /\ UNCHANGED <<saved, starts, checkpoint>> /\ stage = "reconciling" /\ stage' = "writing"
        /\ work'.last = work.last
    <3>1. work' = Reconciled(work) /\ work \in Loose BY <1>0, <1>4 DEF Reconcile, JournalTypes
    <3>2. work'.last = work.last BY <3>1 DEF Reconciled, Loose
    <3> QED BY <1>4, <3>2 DEF Reconcile
  <2> QED BY <2>1 DEF Counted, UpTo
<1>5. CASE \E kind \in Kinds, rotate \in BOOLEAN : Write(kind, rotate)
  <2>1. PICK kind \in Kinds, rotate \in BOOLEAN : Write(kind, rotate) BY <1>5
  <2>2. /\ stage = "writing" /\ MayRotate(rotate) /\ work.last < MaxSeq
        /\ starts' = starts \cup {Target(rotate)} /\ stage' = "compacting"
        /\ UNCHANGED <<saved, checkpoint>>
    BY <2>1 DEF Write, MayAppend
  <2> QED BY <1>0, <2>2, CountedTarget DEF Counted
<1>6. CASE \E rotate \in BOOLEAN : WriteTorn(rotate)
  <2>1. PICK rotate \in BOOLEAN : WriteTorn(rotate) BY <1>6
  <2>2. /\ stage = "writing" /\ MayRotate(rotate) /\ work.last < MaxSeq
        /\ starts' = starts \cup {Target(rotate)} /\ stage' = "idle"
        /\ UNCHANGED <<saved, checkpoint>>
    BY <2>1 DEF WriteTorn
  <2> QED BY <1>0, <2>2, CountedTarget DEF Counted
<1>7. CASE NeedNotCompact
  <2>1. /\ Closed <= CompactAfter /\ stage' = "appended" /\ UNCHANGED <<saved, work, starts, checkpoint>>
    BY <1>7 DEF NeedNotCompact, files
  <2>2. Cardinality(UpTo(work.last)) <= Cardinality(starts) /\ Cardinality(UpTo(work.last)) \in Nat
        /\ Cardinality(starts) \in Nat
    BY <1>0, SegmentsFinite DEF UpTo
  <2>3. Cardinality(UpTo(work.last)) <= CompactAfter + 1
    BY <2>1, <2>2, RetainAssumption DEF Closed
  <2> QED BY <2>1, <2>3 DEF Counted, UpTo
<1>8. CASE RemoveCompacted
  <2>1. /\ stage = "removing" /\ UNCHANGED <<saved, checkpoint>> /\ doomed' = doomed \ {NextDoomed}
        /\ stage' \in {"removing", "appended"} /\ work'.last = work.last
    BY <1>0, <1>8 DEF RemoveCompacted, JournalTypes, Loose
  <2>2. /\ NextDoomed \in doomed /\ starts' = starts \ {NextDoomed} /\ NextDoomed \in starts
    BY <1>0, <1>8, RemovedFirst DEF JournalTypes
  <2>3. Cardinality(starts') <= CompactAfter + 1
    <3>1. Cardinality(starts) <= CompactAfter + 2 /\ IsFiniteSet(starts) /\ Cardinality(starts) \in Nat
      BY <1>0, <2>1, SegmentsFinite DEF Counted
    <3>2. Cardinality(starts') = Cardinality(starts) - 1 BY <2>2, <3>1, FS_RemoveElement
    <3> QED BY <3>1, <3>2, RetainAssumption
  <2>4. Cardinality(UpTo(work.last))' <= CompactAfter + 1
    <3>1. UpTo(work.last)' \in SUBSET starts' BY DEF UpTo
    <3>3. /\ Cardinality(UpTo(work.last)') <= Cardinality(starts')
          /\ Cardinality(UpTo(work.last)') \in Nat
      BY <1>0, <3>1, FS_Subset, FS_CardinalityType
    <3> QED BY <1>0, <2>3, <3>3, RetainAssumption
  <2>5. /\ UpTo(saved.last)' \subseteq UpTo(saved.last)
        /\ UpTo(checkpoint.through)' \subseteq UpTo(checkpoint.through)
    BY <2>1, <2>2 DEF UpTo
  <2>6. /\ Cardinality(UpTo(saved.last))' <= CompactAfter + 1
        /\ Cardinality(UpTo(checkpoint.through))' <= CompactAfter + 1 - Retain
    BY <1>0, <2>5, CountedKeeps
  <2>7. \A start \in starts' \ doomed' : start > checkpoint'.through
    BY <2>1, <2>2 DEF Counted
  <2>8. Cardinality(starts') <= CompactAfter + 2 BY <1>0, <2>3, RetainAssumption
  <2> QED BY <2>1, <2>4, <2>6, <2>7, <2>8 DEF Counted
<1>9. CASE Again \/ Save
  BY <1>9 DEF Again, Save, Counted, UpTo, files
<1> QED BY <1>0, <1>1, <1>2, <1>3, <1>4, <1>5, <1>6, <1>7, <1>8, <1>9, CountedCompact DEF HandlerStep

-----------------------------------------------------------------------------
(* Context packets *)

\* The limits hold in every state.
LEMMA LimitsStep == ASSUME JournalInv, ListsInv, LimitsInv, [Next]_vars PROVE LimitsInv'
<1>1. CASE HandlerStep
  BY <1>1, RetainedStep, CountedStep, PreservesStep, AheadStep DEF LimitsInv, ListsInv
<1>2. CASE ReaderStep \/ UNCHANGED vars
  <2>1. UNCHANGED <<saved, work, stage, doomed, events, starts, checkpoint>>
    BY <1>2 DEF ReaderStep, Load, List, ReadSegment, Merge, vars, files
  <2>2. UNCHANGED UpTo(saved.last) /\ UNCHANGED UpTo(work.last) /\ UNCHANGED UpTo(checkpoint.through)
    BY <2>1 DEF UpTo
  <2>3. Retained' BY <2>1 DEF LimitsInv, Retained, After
  <2>4. Counted' BY <2>1, <2>2 DEF LimitsInv, Counted
  <2>5. Preserves' /\ Ahead' BY <2>1 DEF LimitsInv, Preserves, Ahead, Seqs
  <2> QED BY <2>3, <2>4, <2>5 DEF LimitsInv
<1> QED BY <1>1, <1>2 DEF Next

\* They hold of a mission without a journal.
LEMMA LimitsInitOk == ASSUME Init PROVE LimitsInv
<1>1. /\ saved = NewProjection /\ stage = "idle" /\ starts = {} /\ events = <<>>
      /\ checkpoint.through = 0 /\ checkpoint.preserved = <<>>
  BY DEF Init, NoCheckpoint
<1>2. NewProjection.last = 0 /\ NewProjection.retained = 1 BY DEF NewProjection
<1>3. Retained BY <1>1, <1>2 DEF Retained, After, AtLeastOne
<1>4. Cardinality({}) = 0 /\ CompactAfter \in Nat /\ Retain \in Nat /\ Retain < CompactAfter
      /\ DirectiveLimit \in Nat
  BY FS_EmptySet, RetainAssumption, PageAssumption
<1>5. Counted
  <2>1. UpTo(saved.last) = {} /\ UpTo(checkpoint.through) = {} BY <1>1 DEF UpTo
  <2>2. 0 <= CompactAfter + 1 /\ 0 <= CompactAfter + 1 - Retain BY <1>4
  <2> QED BY <1>1, <1>4, <2>1, <2>2 DEF Counted
<1>6. Preserves
  <2>1. DOMAIN checkpoint.preserved = {} BY <1>1
  <2>2. 0 <= DirectiveLimit BY <1>4
  <2> QED BY <1>4, <2>1, <2>2 DEF Preserves
<1>7. Ahead BY <1>1 DEF Ahead, Seqs
<1> QED BY <1>3, <1>5, <1>6, <1>7 DEF LimitsInv

\* What the segments keep, a checkpoint preserves and a handler appends stays within
\* its limits, however often compactions and handlers are interrupted (compact_if_needed).
THEOREM LimitsHold == Spec => []LimitsInv
<1>1. Init => LimitsInv BY LimitsInitOk
<1>2. JournalInv /\ ListsInv /\ LimitsInv /\ [Next]_vars => LimitsInv' BY LimitsStep
<1> QED BY <1>1, <1>2, JournalHolds, ListsHold, PTL DEF Spec

\* What a reader of the tail has gathered, while the snapshot it loaded is the latest.
Tailed ==
    reader.purpose = "context" /\ reader.stage \in {"loaded", "reading", "merging"} =>
        /\ reader.limit = MaxPage /\ reader.last - ContextTail <= reader.after
        /\ reader.last = saved.last =>
              /\ reader.after = ContextAfter
              /\ \A seq \in Page : seq <= saved.last + MaxAppends
        /\ reader.stage = "merging" => reader.after + 1 .. reader.last \subseteq Page

PacketInv == Tailed /\ PacketHasRecentDirective

\* The tail begins where the retained history does, or ContextTail events before the end.
LEMMA ContextAfterIs ==
    ASSUME JournalInv
    PROVE  /\ ContextAfter + 1 \in {AtLeastOne(saved.retained), saved.last - ContextTail + 1}
           /\ AtLeastOne(saved.retained) <= ContextAfter + 1
           /\ saved.last - ContextTail <= ContextAfter
           /\ ContextAfter \in Int
<1> DEFINE a == AtLeastOne(saved.retained)
           b == saved.last - ContextTail + 1
<1>1. saved.last \in Nat /\ saved.retained \in Nat /\ ContextTail \in Nat
  BY BoundAssumption, PageAssumption DEF JournalInv, JournalTypes, Loose
<1>2. a \in Int /\ b \in Int BY <1>1 DEF AtLeastOne
<1>3. ContextAfter = Max({a, b}) - 1 BY DEF ContextAfter
<1>4. b = saved.last - ContextTail + 1 OBVIOUS
<1> HIDE DEF a, b
<1>5. Max({a, b}) \in {a, b} /\ a <= Max({a, b}) /\ b <= Max({a, b})
  <2>1. \E x \in {a, b} : \A y \in {a, b} : x >= y BY <1>2
  <2>2. Max({a, b}) \in {a, b} /\ \A y \in {a, b} : Max({a, b}) >= y BY <2>1 DEF Max
  <2> QED BY <1>2, <2>2
<1>6. Max({a, b}) \in Int BY <1>2, <1>5
<1>7. ContextAfter + 1 = Max({a, b}) /\ ContextAfter \in Int BY <1>3, <1>6
<1>8. saved.last - ContextTail <= ContextAfter BY <1>1, <1>4, <1>5, <1>6, <1>7
<1> QED BY <1>5, <1>7, <1>8 DEF a, b

\* A packet is overtaken, or the snapshot it was read from stays the latest.
LEMMA HandlerKeepsPacket ==
    ASSUME JournalInv, ReaderInv, PacketInv, HandlerStep
    PROVE  PacketInv'
<1>1. reader' = reader /\ Page' = Page BY ReaderStays DEF Page
<1>2. CASE Save
  <2>1. saved' = work /\ saved.last < work.last BY <1>2 DEF Save, JournalInv, AtStage
  <2>2. reader.last \in Nat /\ reader.last <= saved.last /\ saved.last \in Nat /\ work.last \in Nat
    BY RevisionTypes, BoundAssumption DEF ReaderInv, ReaderTypes, Gathered
  <2>3. reader'.last # saved'.last BY <1>1, <2>1, <2>2
  <2>4. PacketHasRecentDirective' BY <2>3 DEF PacketHasRecentDirective, PacketDirectives
  <2>5. Tailed' BY <1>1, <2>3 DEF PacketInv, Tailed
  <2> QED BY <2>4, <2>5 DEF PacketInv
<1>3. CASE ~Save
  <2>1. saved' = saved
    <3>1. [Next]_vars BY DEF Next
    <3> QED BY <1>3, <3>1, SavedStays
  <2>2. PacketHasRecentDirective' BY <1>1, <2>1 DEF PacketInv, PacketHasRecentDirective, PacketDirectives
  <2>3. Tailed' BY <1>1, <2>1 DEF PacketInv, Tailed, ContextAfter
  <2> QED BY <2>2, <2>3 DEF PacketInv
<1> QED BY <1>2, <1>3

\* context_event_window reads the tail of the snapshot it has loaded.
LEMMA LoadTail ==
    ASSUME JournalInv, NEW purpose \in Purposes, NEW after \in 0 .. MaxSeq, NEW limit \in 1 .. MaxPage,
           Load(purpose, after, limit)
    PROVE  PacketInv'
<1>1. reader' = [stage |-> "loaded", purpose |-> purpose, last |-> saved.last, after |-> after,
                 limit |-> limit, active |-> 0, list |-> {}, page |-> <<>>]
  BY DEF Load, NoReader
<1>2. saved' = saved /\ (purpose = "context" => after = ContextAfter /\ limit = MaxPage) BY DEF Load
<1>3. /\ reader'.stage = "loaded" /\ reader'.last = saved.last /\ reader'.after = after
      /\ reader'.limit = limit /\ reader'.purpose = purpose /\ Page' = {}
  BY <1>1 DEF Page
<1>4. PacketHasRecentDirective' BY <1>3 DEF PacketHasRecentDirective, PacketDirectives
<1>5. ContextAfter' = ContextAfter BY <1>2 DEF ContextAfter
<1>6. Tailed' BY <1>2, <1>3, <1>5, ContextAfterIs DEF Tailed
<1> QED BY <1>4, <1>6 DEF PacketInv

\* Listing the segments gathers nothing.
LEMMA ListTail ==
    ASSUME JournalInv, ReaderInv, PacketInv, List
    PROVE  PacketInv'
<1>1. saved' = saved /\ reader.stage = "loaded" BY DEF List
<1>2. ContextAfter' = ContextAfter BY <1>1 DEF ContextAfter
<1>3. CASE starts = {}
  <2>1. reader' = NoReader BY <1>3 DEF List
  <2>2. reader'.stage = "idle" BY <2>1 DEF NoReader
  <2> QED BY <2>2 DEF PacketInv, Tailed, PacketHasRecentDirective, PacketDirectives
<1>4. CASE starts # {}
  <2>1. PICK list : reader' = [reader EXCEPT !.stage = "reading", !.active = LastStart, !.list = list]
    BY <1>4 DEF List
  <2>2. /\ reader'.stage = "reading" /\ reader'.purpose = reader.purpose /\ reader'.limit = reader.limit
        /\ reader'.last = reader.last /\ reader'.after = reader.after /\ Page' = Page
    BY <2>1 DEF Page, ReaderInv, ReaderTypes
  <2>3. Tailed' BY <1>1, <1>2, <2>2 DEF PacketInv, Tailed
  <2>4. PacketHasRecentDirective' BY <2>2 DEF PacketHasRecentDirective, PacketDirectives
  <2> QED BY <2>3, <2>4 DEF PacketInv
<1> QED BY <1>3, <1>4

\* A full page is longer than the tail, so a page that stopped early has all of it.
LEMMA WholeTail ==
    ASSUME ReaderInv, NEW page \in Journals, reader.last - ContextTail <= reader.after,
           reader.after + 1 \in DOMAIN page,
           \A p \in DOMAIN page : p > reader.after,
           \A p \in DOMAIN page : \A m \in DOMAIN page : \A seq \in p .. reader.last :
              seq <= m => seq \in DOMAIN page,
           \/ Cardinality(DOMAIN page) = MaxPage
           \/ \A p \in DOMAIN page : \A seq \in p .. reader.last : seq \in DOMAIN page
    PROVE  reader.after + 1 .. reader.last \subseteq DOMAIN page
<1> DEFINE D == DOMAIN page
<1>1. /\ reader.after \in Nat /\ reader.last \in Nat /\ ContextTail \in 1 .. MaxPage /\ MaxPage \in Nat
      /\ D \in SUBSET Nat
  BY BoundAssumption, PageAssumption, JournalIs DEF ReaderInv, ReaderTypes
<1>2. CASE \A p \in D : \A seq \in p .. reader.last : seq \in D BY <1>2
<1>3. CASE Cardinality(D) = MaxPage
  <2> SUFFICES ASSUME NEW s \in reader.after + 1 .. reader.last, s \notin D PROVE FALSE
    OBVIOUS
  <2>1. \A m \in D : m < s
    <3> SUFFICES ASSUME NEW m \in D, s <= m PROVE FALSE BY <1>1
    <3> QED BY <1>1
  <2>2. D \in SUBSET (reader.after + 1 .. s - 1)
    <3>1. \A m \in D : m >= reader.after + 1 /\ m <= s - 1 BY <1>1, <2>1
    <3> QED BY <1>1, <3>1
  <2>3. s \in Nat /\ reader.after + 1 \in Int /\ s - 1 \in Int /\ ~(reader.after + 1 > s) BY <1>1
  <2>4. IsFiniteSet(reader.after + 1 .. s - 1)
        /\ Cardinality(reader.after + 1 .. s - 1) = s - 1 - reader.after
    <3>1. /\ IsFiniteSet(reader.after + 1 .. s - 1)
          /\ Cardinality(reader.after + 1 .. s - 1) =
                IF reader.after + 1 > s - 1 THEN 0 ELSE s - 1 - (reader.after + 1) + 1
      BY <2>3, FS_Interval
    <3> QED BY <1>1, <2>3, <3>1
  <2>5. Cardinality(D) <= s - 1 - reader.after BY <2>2, <2>4, FS_Subset
  <2>6. s - 1 - reader.after < ContextTail BY <1>1
  <2> QED BY <1>1, <1>3, <2>3, <2>5, <2>6
<1> QED BY <1>2, <1>3

\* Reading a segment keeps the page within what handlers may have appended, and
\* the last one completes the tail.
LEMMA ReadTail ==
    ASSUME JournalInv, ReaderInv, Ahead, PacketInv, ReadSegment
    PROVE  PacketInv'
<1> DEFINE start == Min(reader.list)
           page == Gather(start)
           rest == reader.list \ {start}
           full == Cardinality(DOMAIN page) = reader.limit
<1>1. saved' = saved /\ reader.stage = "reading" BY DEF ReadSegment
<1>2. ContextAfter' = ContextAfter BY <1>1 DEF ContextAfter
<1>3. CASE ~Readable(start) \/ (~(rest # {} /\ ~full) /\ ~Starts(page))
  <2>1. reader' = NoReader BY <1>3 DEF ReadSegment
  <2>2. reader'.stage = "idle" BY <2>1 DEF NoReader
  <2> QED BY <2>2 DEF PacketInv, Tailed, PacketHasRecentDirective, PacketDirectives
<1>4. CASE Readable(start) /\ ~(~(rest # {} /\ ~full) /\ ~Starts(page))
  <2>1. /\ page \in Journals
        /\ \A p \in DOMAIN page : p > reader.after
        /\ \A p \in DOMAIN page : \A m \in DOMAIN page : \A seq \in p .. reader.last :
              seq <= m => seq \in DOMAIN page
        /\ Cardinality(DOMAIN page) # reader.limit =>
              \A p \in DOMAIN page : \A seq \in p .. reader.last :
                 seq \in DOMAIN page \/ \E n \in rest : n <= seq
    <3>1. start \in starts BY <1>4 DEF Readable
    <3> HIDE DEF start
    <3>2. Fits(Gather(start), reader.list \ {start}) BY <1>1, <3>1, GatherIs DEF start
    <3> QED BY <3>2 DEF Fits
  <2>2. reader \in [stage : {"idle", "loaded", "reading", "merging", "done"},
                purpose : {"page", "context"}, last : 0 .. MaxSeq, after : Nat,
                limit : Nat, active : Nat, list : SUBSET (1 .. MaxSeq), page : Journals]
    BY DEF ReaderInv, ReaderTypes
  <2>3. DOMAIN page \subseteq Page \cup Seqs
    <3>1. DOMAIN page = Page \cup FirstOf(reader.limit - Cardinality(DOMAIN reader.page),
                                          {seq \in InSegment(start) : seq > reader.after})
      BY DEF Gather, Page
    <3>2. InSegment(start) \subseteq Seqs BY DEF InSegment, Seqs
    <3> QED BY <3>1, <3>2 DEF FirstOf
  <2>4. ASSUME reader.purpose = "context", reader.last = saved.last
        PROVE  \A seq \in DOMAIN page : seq <= saved.last + MaxAppends
    <3>1. \A seq \in Page : seq <= saved.last + MaxAppends BY <1>1, <2>4 DEF PacketInv, Tailed
    <3> HIDE DEF page
    <3> QED BY <2>3, <3>1 DEF Ahead
  <2>5. CASE rest # {} /\ ~full
    <3>1. reader' = [reader EXCEPT !.list = rest, !.page = page]
      BY <1>4, <2>5 DEF ReadSegment
    <3> HIDE DEF start, page, rest
    <3>2. /\ reader'.stage = "reading" /\ reader'.purpose = reader.purpose
          /\ reader'.limit = reader.limit /\ reader'.last = reader.last
          /\ reader'.after = reader.after /\ Page' = DOMAIN page
      BY <1>1, <2>2, <3>1 DEF Page
    <3>3. Tailed' BY <1>1, <1>2, <2>4, <3>2 DEF PacketInv, Tailed
    <3>4. PacketHasRecentDirective' BY <3>2 DEF PacketHasRecentDirective, PacketDirectives
    <3> QED BY <3>3, <3>4 DEF PacketInv
  <2>6. CASE ~(rest # {} /\ ~full)
    <3>1. reader' = [reader EXCEPT !.list = {}, !.page = page,
                       !.stage = IF reader.purpose = "context" THEN "merging" ELSE "done"]
      BY <1>4, <2>6 DEF ReadSegment
    <3>2. Starts(page) BY <1>4, <2>6
    <3> HIDE DEF start, page
    <3>3. /\ reader'.stage = (IF reader.purpose = "context" THEN "merging" ELSE "done")
          /\ reader'.purpose = reader.purpose /\ reader'.limit = reader.limit
          /\ reader'.last = reader.last /\ reader'.after = reader.after /\ Page' = DOMAIN page
      BY <2>2, <3>1 DEF Page
    <3>4. ASSUME reader.purpose = "context"
          PROVE  reader.after + 1 .. reader.last \subseteq DOMAIN page
      <4>1. reader.limit = MaxPage /\ reader.last - ContextTail <= reader.after
        BY <1>1, <3>4 DEF PacketInv, Tailed
      <4>2. reader.after + 1 \in DOMAIN page
        <5>1. page # <<>> /\ Min(DOMAIN page) = reader.after + 1 BY <3>2 DEF Starts
        <5>2. DOMAIN page \in SUBSET Nat /\ DOMAIN page # {}
          <6>1. DOMAIN page \in SUBSET Nat BY <2>1, JournalIs, BoundAssumption
          <6>2. ASSUME DOMAIN page = {} PROVE FALSE
            <7>1. page = [n \in {} |-> page[n]] BY <2>1, <6>2, JournalIs
            <7> QED BY <5>1, <7>1
          <6> QED BY <6>1, <6>2
        <5> QED BY <5>1, <5>2, MinOf
      <4>3. \/ Cardinality(DOMAIN page) = MaxPage
            \/ \A p \in DOMAIN page : \A seq \in p .. reader.last : seq \in DOMAIN page
        <5>1. Cardinality(DOMAIN page) # reader.limit => rest = {} BY <2>6
        <5> HIDE DEF rest
        <5> QED BY <2>1, <4>1, <5>1
      <4> QED BY <2>1, <4>1, <4>2, <4>3, WholeTail
    <3>5. Tailed' BY <1>1, <1>2, <2>4, <3>3, <3>4 DEF PacketInv, Tailed
    <3>6. PacketHasRecentDirective' BY <3>3 DEF PacketHasRecentDirective, PacketDirectives
    <3> QED BY <3>5, <3>6 DEF PacketInv
  <2> QED BY <2>5, <2>6
<1> QED BY <1>3, <1>4

\* What the saved list ends with is in the tail that was read, or in the checkpoint.
LEMMA RecentIsThere ==
    ASSUME JournalInv, ReaderInv, ListsInv, LimitsInv, PacketInv, DirectiveLimit > 1,
           reader.stage = "merging", reader.last = saved.last, saved.directives # <<>>,
           NEW seq, seq = Last(saved.directives),
           seq > saved.last - ContextTail \/ seq <= saved.compacted
    PROVE  seq \in Page \cup DOMAIN checkpoint.preserved /\ seq \in Nat
<1> DEFINE list == saved.directives
           n == Len(list)
<1>1. /\ saved.last \in Nat /\ saved.retained \in Nat /\ saved.compacted \in Nat /\ ContextTail \in Nat
      /\ starts \in SUBSET Nat /\ Seqs \in SUBSET Nat /\ DirectiveLimit \in Nat
  <2>1. ContextTail \in Nat /\ DirectiveLimit \in Nat BY PageAssumption
  <2>2. saved.retained \in Nat BY BoundAssumption DEF JournalInv, JournalTypes, Loose
  <2> QED BY <2>1, <2>2, RevisionTypes
<1>2. n \in Nat /\ n > 0 /\ n \in DOMAIN list /\ seq = list[n]
  <2>1. list \in Seq(Nat) BY ListTypes
  <2>2. n \in Nat /\ DOMAIN list = 1 .. n BY <2>1, LenProperties
  <2>3. n # 0 BY <2>1, EmptySeq
  <2> QED BY <2>2, <2>3 DEF Last
<1>3. seq \in 1 .. saved.last BY <1>2, SavedListed DEF ListsInv
<1>4. seq \in Known
  <2>1. n \in Due(list) BY <1>1, <1>2 DEF Due
  <2> QED BY <1>2, <2>1 DEF ListsInv, DirectivesInv, Tracked, Accounted
<1>5. /\ reader.purpose = "context" /\ reader.after = ContextAfter
      /\ reader.after + 1 .. reader.last \subseteq Page /\ reader.after \in Nat
  BY DEF ReaderInv, ReaderTypes, Gathered, PacketInv, Tailed
<1>6. CASE seq > reader.after
  <2>1. seq \in reader.after + 1 .. reader.last BY <1>1, <1>3, <1>5, <1>6
  <2> QED BY <1>3, <1>5, <2>1
<1>7. CASE seq <= reader.after
  <2>1. seq < AtLeastOne(saved.retained) \/ seq <= saved.compacted
    <3>1. reader.after + 1 = AtLeastOne(saved.retained)
          \/ reader.after + 1 = saved.last - ContextTail + 1
      BY <1>5, ContextAfterIs
    <3>2. CASE reader.after + 1 = AtLeastOne(saved.retained) BY <1>3, <1>5, <1>7, <3>2
    <3>3. CASE reader.after + 1 = saved.last - ContextTail + 1
      <4>1. ~(seq > saved.last - ContextTail) BY <1>1, <1>3, <1>5, <1>7, <3>3
      <4> QED BY <4>1
    <3> QED BY <3>1, <3>2, <3>3
  <2>2. \A start \in starts : start > seq
    <3>1. \A start \in starts : start > saved.compacted /\ start >= AtLeastOne(saved.retained)
      BY DEF LimitsInv, Retained, After
    <3>2. AtLeastOne(saved.retained) \in Nat BY <1>1 DEF AtLeastOne
    <3> QED BY <1>1, <1>3, <2>1, <3>1, <3>2
  <2>3. seq \notin Seqs
    <3> SUFFICES ASSUME seq \in Seqs PROVE FALSE OBVIOUS
    <3>1. PICK start \in starts : start <= seq BY DEF JournalInv, FilesOk, Shape
    <3> QED BY <1>1, <1>3, <2>2, <3>1
  <2> QED BY <1>3, <1>4, <2>3 DEF Known
<1> QED BY <1>1, <1>3, <1>5, <1>6, <1>7

\* context_event_window keeps the latest MaxPage events of both, and fewer than that follow.
LEMMA MergePacket ==
    ASSUME JournalInv, ReaderInv, ListsInv, LimitsInv, PacketInv, DirectiveLimit > 1,
           ContextTail + MaxAppends + DirectiveLimit <= MaxPage, Merge
    PROVE  PacketInv'
<1> DEFINE P == DOMAIN checkpoint.preserved
           seqs == Page \cup P
<1>1. saved' = saved /\ checkpoint' = checkpoint /\ reader.stage = "merging" BY DEF Merge, files
<1>2. reader' = [reader EXCEPT !.stage = "done",
                   !.page = [seq \in LastOf(MaxPage, seqs) |->
                               IF seq \in DOMAIN reader.page THEN reader.page[seq]
                               ELSE checkpoint.preserved[seq]]]
  BY DEF Merge, Page
<1> HIDE DEF seqs
<1>3. /\ reader'.stage = "done" /\ reader'.last = reader.last
      /\ DOMAIN reader'.page = LastOf(MaxPage, seqs)
  BY <1>2 DEF ReaderInv, ReaderTypes
<1>4. Tailed' BY <1>3 DEF Tailed
<1>5. ASSUME reader.last = saved.last, saved.directives # <<>>, NEW d, d = Last(saved.directives),
             d > saved.last - ContextTail \/ d <= saved.compacted
      PROVE  d \in LastOf(MaxPage, seqs)
  <2> DEFINE I == reader.after + 1 .. saved.last + MaxAppends
             later == {s \in seqs : s > d}
  <2>1. d \in seqs /\ d \in Nat BY <1>1, <1>5, RecentIsThere DEF seqs
  <2>2. /\ saved.last \in Nat /\ reader.after \in Nat /\ MaxAppends \in Nat /\ MaxPage \in Nat
        /\ ContextTail \in Nat /\ DirectiveLimit \in Nat /\ reader.last - ContextTail <= reader.after
        /\ reader.purpose = "context"
    <3>1. MaxAppends \in Nat BY RetainAssumption
    <3>2. MaxPage \in Nat /\ ContextTail \in Nat /\ DirectiveLimit \in Nat BY PageAssumption
    <3>3. reader.after \in Nat /\ reader.purpose = "context"
      BY <1>1 DEF ReaderInv, ReaderTypes, Gathered
    <3>4. reader.last - ContextTail <= reader.after BY <1>1, <3>3 DEF PacketInv, Tailed
    <3> QED BY <3>1, <3>2, <3>3, <3>4, RevisionTypes
  <2>3. Page \subseteq I
    <3>1. \A s \in Page : s <= saved.last + MaxAppends BY <1>1, <1>5, <2>2 DEF PacketInv, Tailed
    <3>2. \A s \in Page : s > reader.after /\ s \in Nat
      BY <1>1, JournalIs, BoundAssumption DEF ReaderInv, ReaderTypes, Gathered, Page
    <3> QED BY <2>2, <3>1, <3>2
  <2>4. /\ IsFiniteSet(I) /\ Cardinality(I) \in Nat /\ Cardinality(I) <= ContextTail + MaxAppends
    <3> DEFINE a == reader.after + 1
               b == saved.last + MaxAppends
    <3>1. a \in Int /\ b \in Int /\ b - a + 1 <= ContextTail + MaxAppends BY <1>5, <2>2
    <3> HIDE DEF a, b
    <3>2. IsFiniteSet(a .. b) /\ Cardinality(a .. b) = (IF a > b THEN 0 ELSE b - a + 1)
      BY <3>1, FS_Interval
    <3>3. Cardinality(a .. b) <= ContextTail + MaxAppends BY <2>2, <3>1, <3>2
    <3> QED BY <3>2, <3>3, FS_CardinalityType DEF a, b
  <2>5. IsFiniteSet(P) /\ Cardinality(P) \in Nat /\ Cardinality(P) <= DirectiveLimit
    <3>1. P \in SUBSET (1 .. MaxSeq) BY JournalIs DEF JournalInv, JournalTypes
    <3>2. IsFiniteSet(1 .. MaxSeq) BY BoundAssumption, FS_Interval
    <3>3. IsFiniteSet(P) BY <3>1, <3>2, FS_Subset
    <3> QED BY <3>3, FS_CardinalityType DEF LimitsInv, Preserves
  <2>6. seqs \subseteq I \cup P BY <2>3 DEF seqs
  <2>7. later \in SUBSET ((I \cup P) \ {d})
    <3>1. ~(d > d) BY <2>1
    <3> QED BY <2>6, <3>1
  <2>8. d \in I \cup P BY <2>1, <2>6
  <2> HIDE DEF I, P, later
  <2>9. /\ IsFiniteSet(I \cup P) /\ Cardinality(I \cup P) \in Nat
        /\ Cardinality(I \cup P) <= Cardinality(I) + Cardinality(P)
    <3>1. /\ IsFiniteSet(I \cup P)
          /\ Cardinality(I \cup P) = Cardinality(I) + Cardinality(P) - Cardinality(I \cap P)
      BY <2>4, <2>5, FS_Union
    <3>2. IsFiniteSet(I \cap P)
      <4>1. I \cap P \in SUBSET I OBVIOUS
      <4> QED BY <2>4, <4>1, FS_Subset
    <3>3. Cardinality(I \cap P) \in Nat /\ Cardinality(I \cup P) \in Nat
      BY <3>1, <3>2, FS_CardinalityType
    <3> QED BY <2>4, <2>5, <3>1, <3>3
  <2>10. /\ IsFiniteSet((I \cup P) \ {d})
         /\ Cardinality((I \cup P) \ {d}) = Cardinality(I \cup P) - 1
    BY <2>8, <2>9, FS_RemoveElement
  <2>11. Cardinality(later) <= Cardinality((I \cup P) \ {d}) /\ Cardinality(later) \in Nat
    BY <2>7, <2>10, FS_Subset, FS_CardinalityType
  <2>12. Cardinality(later) < MaxPage BY <2>2, <2>4, <2>5, <2>9, <2>10, <2>11
  <2> QED BY <2>1, <2>12 DEF LastOf, later
<1>6. PacketHasRecentDirective'
  BY <1>1, <1>3, <1>5 DEF PacketHasRecentDirective, PacketDirectives
<1> QED BY <1>4, <1>6 DEF PacketInv

\* A context packet that no save has overtaken has the latest directive when that is one of the latest
\* ContextTail events, or is compacted, although the packet is read without a lock
\* (context_event_window).  In production ContextTail + DirectiveLimit + MaxAppends is at
\* most 128 + 32 + 32, and MaxPage is 256.
THEOREM PacketsAreRecent ==
    ASSUME DirectiveLimit > 1, ContextTail + MaxAppends + DirectiveLimit <= MaxPage
    PROVE  Spec => []PacketHasRecentDirective
<1>1. Init => PacketInv
  BY DEF Init, NoReader, PacketInv, Tailed, PacketHasRecentDirective, PacketDirectives
<1>2. ASSUME JournalInv, ReaderInv, ListsInv, LimitsInv, PacketInv, [Next]_vars
      PROVE  PacketInv'
  <2>1. CASE HandlerStep BY <1>2, <2>1, HandlerKeepsPacket
  <2>2. CASE \E purpose \in Purposes, after \in 0 .. MaxSeq, limit \in 1 .. MaxPage :
                Load(purpose, after, limit)
    BY <1>2, <2>2, LoadTail
  <2>3. CASE List BY <1>2, <2>3, ListTail
  <2>4. CASE ReadSegment BY <1>2, <2>4, ReadTail DEF LimitsInv
  <2>5. CASE Merge BY <1>2, <2>5, MergePacket
  <2>6. CASE UNCHANGED vars
    BY <1>2, <2>6 DEF vars, PacketInv, Tailed, Page, ContextAfter, PacketHasRecentDirective, PacketDirectives
  <2> QED BY <1>2, <2>1, <2>2, <2>3, <2>4, <2>5, <2>6 DEF Next, ReaderStep
<1>3. PacketInv => PacketHasRecentDirective BY DEF PacketInv
<1> QED BY <1>1, <1>2, <1>3, JournalHolds, ReaderHolds, ListsHold, LimitsHold, PTL DEF Spec
=============================================================================
