---------------------------- MODULE MissionEvents ----------------------------
(***************************************************************************)
(* The event journal of one Agent Mission (src-tauri/src/mission/          *)
(* events.rs) and the snapshot that commits it (mod.rs mutate_snapshot,    *)
(* store.rs).                                                              *)
(*                                                                         *)
(* A handler holds the mutation lock.  It loads the snapshot, whose        *)
(* projection says how far the journal is committed, appends events to     *)
(* the segment files, and saves the snapshot.  The journal is written      *)
(* first: when the handler fails or the process dies before the save, the  *)
(* files hold events that no snapshot knows (orphans), and the next append *)
(* rolls them back.  When there are too many closed segments, the oldest   *)
(* are summarised in a checkpoint and removed, file by file, also before   *)
(* the save.  So a handler is a sequence of steps on files, and it may end *)
(* between any two of them.                                                *)
(*                                                                         *)
(* Readers hold no lock.  They load the saved projection, list the         *)
(* segments, and read them one after another while handlers go on.         *)
(*                                                                         *)
(* An event is its kind.  A line of a segment is complete or it is the     *)
(* incomplete tail of the last segment (torn).  The byte limit of a        *)
(* segment is a free choice to rotate before the event limit is reached.   *)
(* The projection's current_segment_* fields and closed_segment_count are  *)
(* computed from the files by every append before they are used, and are   *)
(* not state here.                                                         *)
(***************************************************************************)
EXTENDS Integers, Sequences, FiniteSets, FiniteSetsExt, SequencesExt

CONSTANTS
    SegmentEvents,      \* PRODUCTION_SEGMENT_EVENTS (256)
    CompactAfter,       \* PRODUCTION_COMPACT_AFTER_CLOSED_SEGMENTS (64)
    Retain,             \* PRODUCTION_RETAIN_CLOSED_SEGMENTS (32)
    DirectiveLimit,     \* directives a projection lists (32)
    MaxPage,            \* MAX_CURSOR_PAGE (256)
    PageLimits,         \* the page lengths that clients ask for
    ContextTail,        \* latest events of a context packet (128)
    MaxAppends,         \* bound on the events of one handler
    MaxSeq,             \* bound on the events of the mission
    Purposes            \* why readers read: for a page or for a context

ASSUME SegmentAssumption == SegmentEvents \in Nat \ {0}
ASSUME PageAssumption ==
    /\ DirectiveLimit \in Nat \ {0}
    /\ MaxPage \in Nat \ {0}
    /\ PageLimits \subseteq 1 .. MaxPage
    /\ ContextTail \in 1 .. MaxPage
    /\ Purposes \subseteq {"page", "context"}
\* compact_if_needed leaves Retain closed segments; a handler that filled
\* more than that by itself would compact the committed ones.
ASSUME RetainAssumption ==
    /\ MaxAppends \in Nat \ {0}
    /\ Retain \in Nat /\ MaxAppends <= Retain
    /\ CompactAfter \in Nat /\ Retain < CompactAfter
ASSUME BoundAssumption == MaxSeq \in Nat \ {0}

VARIABLES
    saved,      \* the event projection in snapshot.json
    work,       \* the projection in the memory of the handler
    stage,      \* what the handler does next
    doomed,     \* starts of the segments it still has to remove
    events,     \* the complete lines: sequence number -> kind
    starts,     \* the segment files, by the sequence number in their name
    torn,       \* the last segment ends in an incomplete line
    checkpoint, \* the latest checkpoint file
    reader      \* a reader of the journal

files == <<events, starts, torn, checkpoint>>
vars == <<saved, work, stage, doomed, files, reader>>

Kinds == {"finding", "directive"}
Stages == {"idle", "reconciling", "undoing", "writing", "compacting",
           "removing", "appended"}

Journals == UNION {[S -> Kinds] : S \in SUBSET (1 .. MaxSeq)}
NoCheckpoint == [revision |-> 0, through |-> 0, preserved |-> <<>>]
NewProjection == [last |-> 0, retained |-> 1, revision |-> 0,
                  compacted |-> 0, directives |-> <<>>]
Projections == [last : 0 .. MaxSeq, retained : 0 .. MaxSeq + 1,
                revision : 0 .. MaxSeq, compacted : 0 .. MaxSeq,
                directives : UNION {[1 .. n -> 1 .. MaxSeq] :
                                      n \in 0 .. DirectiveLimit}]


TypeOK ==
    /\ saved \in Projections /\ work \in Projections
    /\ stage \in Stages
    /\ starts \subseteq 1 .. MaxSeq /\ doomed \subseteq starts
    /\ events \in Journals /\ torn \in BOOLEAN
    /\ checkpoint.revision \in 0 .. MaxSeq
    /\ checkpoint.through \in 0 .. MaxSeq
    /\ checkpoint.preserved \in Journals
    /\ reader.stage \in {"idle", "loaded", "reading", "merging", "done"}
    /\ reader.last \in 0 .. MaxSeq /\ reader.list \subseteq 1 .. MaxSeq
    /\ reader.page \in Journals

Only(journal, seqs) == [seq \in DOMAIN journal \cap seqs |-> journal[seq]]
AtLeastOne(seq) == IF seq = 0 THEN 1 ELSE seq

-----------------------------------------------------------------------------
(* The segment files.                                                      *)

InSegment(start) ==
    {seq \in DOMAIN events :
        seq >= start /\ \A later \in starts : later > start => seq < later}

LastStart == Max(starts)

\* Fault: the name of the last segment stands for its last event.
ActualLastByName == LastStart

ActualLast == IF InSegment(LastStart) = {}
              THEN LastStart - 1
              ELSE Max(InSegment(LastStart))

\* The segment in which a sequence number would be, if any.
SegmentOf(seq) == Max({start \in starts : start <= seq})
Holds(seq) == /\ \E start \in starts : start <= seq
              /\ seq \in InSegment(SegmentOf(seq))

Oldest(n) ==
    {start \in starts : Cardinality({s \in starts : s < start}) < n}

\* Fault: the files are removed from the end.
LastDoomed == Max(doomed)

\* Files are removed in the order of their names.
NextDoomed == Min(doomed)

RemoveSegment(start) ==
    /\ starts' = starts \ {start}
    /\ events' = Only(events, DOMAIN events \ InSegment(start))
    /\ torn' = (torn /\ start # LastStart)

-----------------------------------------------------------------------------
(* reconcile_projection: what an append does to the files of earlier       *)
(* handlers before it writes.                                              *)

Orphans(p) == starts # {} /\ ActualLast > p.last

\* Fault: the cut takes the event at the cursor too.
FromCursor(p, start) == {seq \in InSegment(start) : seq >= p.last}

BeyondCursor(p, start) == {seq \in InSegment(start) : seq > p.last}

\* Records past the snapshot cursor are removed: the committed segment is
\* cut, and the later ones are removed one by one.
Rollback ==
    /\ stage = "reconciling" /\ Orphans(work)
    /\ work.last = 0 \/ Holds(work.last)
    /\ IF work.last = 0
       THEN /\ doomed' = starts
            /\ UNCHANGED <<events, torn>>
       ELSE LET committed == SegmentOf(work.last)
            IN /\ doomed' = {start \in starts : start > committed}
               /\ events' = Only(events,
                              DOMAIN events \ BeyondCursor(work, committed))
               /\ torn' = (torn /\ committed # LastStart)
    /\ stage' = IF doomed' = {} THEN "reconciling" ELSE "undoing"
    /\ UNCHANGED <<saved, work, starts, checkpoint, reader>>

RemoveOrphan ==
    /\ stage = "undoing"
    /\ RemoveSegment(NextDoomed)
    /\ doomed' = doomed \ {NextDoomed}
    /\ stage' = IF doomed' = {} THEN "reconciling" ELSE "undoing"
    /\ UNCHANGED <<saved, work, checkpoint, reader>>

\* The first retained sequence number moved past the one in the snapshot:
\* a compaction whose snapshot was never saved.
Moved(p) == Min(starts) > AtLeastOne(p.retained)
Bridged(p) == /\ InSegment(LastStart) # {}
              /\ checkpoint.revision > p.revision
              /\ checkpoint.through + 1 = Min(starts)

Refused(p) ==
    \/ starts = {} /\ p.last > 0
    \/ starts # {} /\ ~Orphans(p) /\ ActualLast # p.last
    \/ Orphans(p) /\ p.last > 0 /\ ~Holds(p.last)
    \/ starts # {} /\ ~Orphans(p) /\ Moved(p) /\ ~Bridged(p)

\* Fault: the list of directives is never shortened.
LatestUnbounded(seqs) == seqs

Latest(seqs) == IF Len(seqs) > DirectiveLimit
                THEN SubSeq(seqs, Len(seqs) - DirectiveLimit + 1, Len(seqs))
                ELSE seqs

\* The elements of a set of numbers in their order.
Ascending(nums) ==
    [i \in 1 .. Cardinality(nums) |->
        CHOOSE n \in nums : Cardinality({m \in nums : m <= n}) = i]

\* What a list has at some of its places.
Picked(list, places) ==
    [i \in 1 .. Cardinality(places) |-> list[Ascending(places)[i]]]

\* The directives of the last segment join the list, unless they are in it.
WithDirectives(p) ==
    LET listed == p.directives
        kept == Picked(listed, {i \in DOMAIN listed : listed[i] <= p.last})
        missing == {seq \in InSegment(LastStart) : events[seq] = "directive"}
                   \ Range(kept)
    IN Latest(kept \o Ascending(missing))

Reconciled(p) ==
    IF starts = {}
    THEN [p EXCEPT !.retained = 1, !.directives = <<>>]
    ELSE IF Moved(p)
    THEN [p EXCEPT !.retained = Min(starts),
                   !.revision = checkpoint.revision,
                   !.compacted = checkpoint.through,
                   !.directives = WithDirectives(p)]
    ELSE [p EXCEPT !.retained = AtLeastOne(p.retained),
                   !.directives = WithDirectives(p)]

\* An incomplete tail is cut off, whatever the checks on the checkpoint say.
Reconcile ==
    /\ stage = "reconciling"
    /\ ~Orphans(work) /\ ~Refused(work)
    /\ work' = Reconciled(work)
    /\ torn' = FALSE
    /\ stage' = "writing"
    /\ UNCHANGED <<saved, doomed, events, starts, checkpoint, reader>>

Refuse ==
    /\ stage = "reconciling" /\ Refused(work)
    /\ torn' = (torn /\ ActualLast # work.last)
    /\ stage' = "idle" /\ work' = NewProjection
    /\ UNCHANGED <<saved, doomed, events, starts, checkpoint, reader>>

-----------------------------------------------------------------------------
(* append and compact_if_needed.                                           *)

\* The events this handler appended so far.
Appended == {seq \in DOMAIN events : saved.last < seq /\ seq <= work.last}

\* A handler that takes a directive appends only that; worker_propose_tasks
\* appends one event per task.
MayAppend(kind) ==
    /\ work.last < MaxSeq
    /\ Appended # {} => kind = "finding"

\* The segment that the next event goes to.  A segment with an event may be
\* too long in bytes for another one.
Target(rotate) ==
    IF starts = {} \/ rotate THEN work.last + 1 ELSE LastStart

MayRotate(rotate) ==
    LET count == IF starts = {} THEN 0 ELSE Cardinality(InSegment(LastStart))
    IN /\ count >= SegmentEvents => rotate
       /\ count = 0 => ~rotate

Extended(p, kind) ==
    [p EXCEPT !.last = @ + 1,
              !.directives = IF kind = "directive"
                             THEN Latest(Append(@, p.last + 1)) ELSE @]

Write(kind, rotate) ==
    /\ stage = "writing" /\ MayAppend(kind) /\ MayRotate(rotate)
    /\ events' = [seq \in DOMAIN events \cup {work.last + 1} |->
                    IF seq = work.last + 1 THEN kind ELSE events[seq]]
    /\ starts' = starts \cup {Target(rotate)}
    /\ work' = Extended(work, kind)
    /\ stage' = "compacting"
    /\ UNCHANGED <<saved, doomed, torn, checkpoint, reader>>

\* The line does not reach the file, or only a part of it.
WriteTorn(rotate) ==
    /\ stage = "writing" /\ work.last < MaxSeq /\ MayRotate(rotate)
    /\ starts' = starts \cup {Target(rotate)}
    /\ torn' = TRUE
    /\ stage' = "idle" /\ work' = NewProjection
    /\ UNCHANGED <<saved, doomed, events, checkpoint, reader>>

Closed == Cardinality(starts) - 1
Compacting == Oldest(Closed - Retain)
CompactedEvents == UNION {InSegment(start) : start \in Compacting}

\* Fault: what the previous checkpoint preserved is forgotten.
PreservedNow(refs) == Only(events, CompactedEvents \cap refs)

\* The events of the previous checkpoint and of the removed segments that
\* the projection still refers to.
Preserved(refs) ==
    LET old == Only(checkpoint.preserved, refs)
        new == Only(events, CompactedEvents \cap refs)
    IN [seq \in DOMAIN old \cup DOMAIN new |->
          IF seq \in DOMAIN old THEN old[seq] ELSE new[seq]]

\* Fault: the checkpoint ends where the last removed segment starts.
CheckpointByName ==
    [revision |-> work.revision + 1,
     through |-> Max(Compacting \cup {checkpoint.through}),
     preserved |-> Preserved(Range(work.directives))]

NextCheckpoint ==
    [revision |-> work.revision + 1,
     through |-> Max(CompactedEvents \cup {checkpoint.through}),
     preserved |-> Preserved(Range(work.directives))]

\* The checkpoint is written before the segments it covers are removed.
Compact ==
    /\ stage = "compacting" /\ Closed > CompactAfter
    /\ checkpoint' = NextCheckpoint
    /\ doomed' = Compacting
    /\ stage' = "removing"
    /\ UNCHANGED <<saved, work, events, starts, torn, reader>>

NeedNotCompact ==
    /\ stage = "compacting" /\ Closed <= CompactAfter
    /\ stage' = "appended"
    /\ UNCHANGED <<saved, work, doomed, files, reader>>

RemoveCompacted ==
    /\ stage = "removing"
    /\ RemoveSegment(NextDoomed)
    /\ doomed' = doomed \ {NextDoomed}
    /\ IF doomed' = {}
       THEN /\ work' = [work EXCEPT !.revision = checkpoint.revision,
                                    !.compacted = checkpoint.through,
                                    !.retained = Min(starts')]
            /\ stage' = "appended"
       ELSE UNCHANGED <<work, stage>>
    /\ UNCHANGED <<saved, checkpoint, reader>>

-----------------------------------------------------------------------------
(* mutate_snapshot: the handler around the appends.                        *)

Begin ==
    /\ stage = "idle"
    /\ work' = saved
    /\ stage' = "reconciling"
    /\ UNCHANGED <<saved, doomed, files, reader>>

Again ==
    /\ stage = "appended"
    /\ Cardinality(Appended) < MaxAppends
    /\ events[work.last] = "finding" /\ work.last < MaxSeq
    /\ stage' = "reconciling"
    /\ UNCHANGED <<saved, work, doomed, files, reader>>

\* The new snapshot replaces the old one in one rename.
Save ==
    /\ stage = "appended"
    /\ saved' = work
    /\ stage' = "idle" /\ work' = NewProjection
    /\ UNCHANGED <<doomed, files, reader>>

\* The handler returns Err, or the process dies: nothing is saved, and what
\* was done to the files stays.
Abort ==
    /\ stage # "idle"
    /\ stage' = "idle" /\ work' = NewProjection
    /\ doomed' = {}
    /\ UNCHANGED <<saved, files, reader>>

-----------------------------------------------------------------------------
(* read_since, and context_event_window which calls it.                    *)

NoReader == [stage |-> "idle", purpose |-> "page", last |-> 0, after |-> 0,
             limit |-> 0, active |-> 0, list |-> {}, page |-> <<>>]

\* Fault: the tail is one event short.
ContextAfterTail == Max({AtLeastOne(saved.retained), saved.last - ContextTail + 1})

\* The tail that a context packet reads.
ContextAfter == Max({AtLeastOne(saved.retained), saved.last - ContextTail + 1}) - 1

\* A cursor at the end, in the future or in compacted history is answered
\* without a look at the journal.
Load(purpose, after, limit) ==
    /\ reader.stage \in {"idle", "done"}
    /\ after < saved.last /\ after + 1 >= AtLeastOne(saved.retained)
    /\ IF purpose = "context"
       THEN after = ContextAfter /\ limit = MaxPage
       ELSE limit \in PageLimits
    /\ reader' = [NoReader EXCEPT !.stage = "loaded", !.purpose = purpose,
                                  !.last = saved.last, !.after = after,
                                  !.limit = limit]
    /\ UNCHANGED <<saved, work, stage, doomed, files>>

\* The segments from the one that should hold the first event.
List ==
    /\ reader.stage = "loaded"
    /\ LET target == reader.after + 1
           first == {start \in starts : start <= target}
       IN reader' = IF starts = {} THEN NoReader
                    ELSE [reader EXCEPT
                            !.stage = "reading",
                            !.active = LastStart,
                            !.list = IF first = {} THEN starts
                                     ELSE {s \in starts : s >= Max(first)}]
    /\ UNCHANGED <<saved, work, stage, doomed, files>>

\* The first n of a set of sequence numbers.
FirstOf(n, seqs) == {seq \in seqs : Cardinality({s \in seqs : s < seq}) < n}
LastOf(n, seqs) == {seq \in seqs : Cardinality({s \in seqs : s > seq}) < n}

\* One more segment, or Err: it was removed meanwhile, or it has an
\* incomplete line and was not the last one when the segments were listed.
Readable(start) ==
    /\ start \in starts
    /\ torn /\ start = LastStart => start = reader.active

Gather(start) ==
    LET more == {seq \in InSegment(start) : seq > reader.after}
        room == reader.limit - Cardinality(DOMAIN reader.page)
        new == FirstOf(room, more)
    IN [seq \in DOMAIN reader.page \cup new |->
          IF seq \in new THEN events[seq] ELSE reader.page[seq]]

\* Fault: a page may begin anywhere after its cursor.
StartsAfter(page) == page # <<>>

Starts(page) == page # <<>> /\ Min(DOMAIN page) = reader.after + 1

ReadSegment ==
    /\ reader.stage = "reading"
    /\ LET start == Min(reader.list)
           page == Gather(start)
           rest == reader.list \ {start}
           full == Cardinality(DOMAIN page) = reader.limit
       IN reader' =
            IF ~Readable(start) THEN NoReader
            ELSE IF rest # {} /\ ~full
            THEN [reader EXCEPT !.list = rest, !.page = page]
            ELSE IF ~Starts(page) THEN NoReader
            ELSE [reader EXCEPT
                    !.list = {}, !.page = page,
                    !.stage = IF reader.purpose = "context"
                              THEN "merging" ELSE "done"]
    /\ UNCHANGED <<saved, work, stage, doomed, files>>

\* A context packet adds what the checkpoint preserved.
Merge ==
    /\ reader.stage = "merging"
    /\ LET seqs == DOMAIN reader.page \cup DOMAIN checkpoint.preserved
       IN reader' = [reader EXCEPT
                       !.stage = "done",
                       !.page = [seq \in LastOf(MaxPage, seqs) |->
                                   IF seq \in DOMAIN reader.page
                                   THEN reader.page[seq]
                                   ELSE checkpoint.preserved[seq]]]
    /\ UNCHANGED <<saved, work, stage, doomed, files>>

-----------------------------------------------------------------------------
Init ==
    /\ saved = NewProjection /\ work = NewProjection
    /\ stage = "idle" /\ doomed = {}
    /\ events = <<>> /\ starts = {} /\ torn = FALSE
    /\ checkpoint = NoCheckpoint
    /\ reader = NoReader

HandlerStep ==
    \/ Begin
    \/ Rollback
    \/ RemoveOrphan
    \/ Reconcile
    \/ Refuse
    \/ \E kind \in Kinds, rotate \in BOOLEAN : Write(kind, rotate)
    \/ \E rotate \in BOOLEAN : WriteTorn(rotate)
    \/ Compact
    \/ NeedNotCompact
    \/ RemoveCompacted
    \/ Again
    \/ Save
    \/ Abort

ReaderStep ==
    \/ \E purpose \in Purposes, after \in 0 .. MaxSeq, limit \in 1 .. MaxPage :
         Load(purpose, after, limit)
    \/ List
    \/ ReadSegment
    \/ Merge

Next == HandlerStep \/ ReaderStep

Spec == Init /\ [][Next]_vars

-----------------------------------------------------------------------------
(* Properties.                                                             *)

\* A committed event leaves the journal only when the latest checkpoint
\* covers it, although compaction removes files one by one, before the
\* snapshot is saved (compact_if_needed), and although the rollback of
\* uncommitted events cuts and removes files too.
NothingLost ==
    \A seq \in 1 .. saved.last :
        seq \in DOMAIN events \/ seq <= checkpoint.through

\* When a handler writes, the journal ends exactly where its projection
\* says: no event of an earlier handler that was never committed is left to
\* become history with the events of this one (reconcile_projection).
AppendContinues ==
    stage = "writing" => /\ \A seq \in DOMAIN events : seq <= work.last
                         /\ work.last > 0 => work.last \in DOMAIN events

\* Every directive that the saved projection refers to can be read, in the
\* journal or in the checkpoint (preserved_events).  The oldest one of a
\* full list is an exception: a handler whose directive pushed it out of the
\* list may compact the journal and then fail.
DirectivesKept ==
    \A i \in DOMAIN saved.directives :
        (i > 1 \/ Len(saved.directives) < DirectiveLimit) =>
            saved.directives[i] \in DOMAIN events \cup DOMAIN checkpoint.preserved

\* The journal as history: what was committed, in order.
CommittedLog == [seq \in 1 .. saved.last |->
                   IF seq \in DOMAIN events THEN events[seq] ELSE "compacted"]

History == INSTANCE MissionHistory WITH
    log <- CommittedLog, Compacted <- "compacted", MaxBatch <- MaxAppends

\* The journal implements MissionHistory: each save commits all events of
\* its handler in order, no step ever changes a committed one, and only the
\* oldest leave (append, reconcile_projection, compact_if_needed).
HistoryKept == History!Spec

\* A page has every committed event from its cursor to its end, unchanged,
\* although handlers append, roll back and compact while its segments are
\* read (read_since_with_stats holds no lock).
PageFaithful ==
    reader.stage = "done" /\ reader.purpose = "page" =>
        \A seq \in reader.after + 1 .. Max(DOMAIN reader.page) :
            seq <= reader.last =>
                /\ seq \in DOMAIN reader.page
                /\ CommittedLog[seq] \in {reader.page[seq], "compacted"}

\* No append finds a journal that it cannot reconcile with the snapshot,
\* wherever an earlier handler was interrupted (reconcile_projection).
Recoverable == stage = "reconciling" => ~Refused(work)

\* The latest directive of the mission, for a packet that was not overtaken.
PacketDirectives ==
    IF /\ reader.stage = "done" /\ reader.purpose = "context"
       /\ reader.last = saved.last /\ saved.directives # <<>>
    THEN {Last(saved.directives)}
    ELSE {}

\* A context packet has the latest directive when it is one of the latest
\* ContextTail events, and again when it is compacted (context_event_window).
PacketHasRecentDirective ==
    \A seq \in PacketDirectives :
        seq > saved.last - ContextTail \/ seq <= saved.compacted =>
            seq \in DOMAIN reader.page
=============================================================================
