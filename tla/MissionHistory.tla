--------------------------- MODULE MissionHistory ---------------------------
(***************************************************************************)
(* What the event journal of a mission promises: its history is a sequence *)
(* that only grows.  A handler commits the events it appended, all of them *)
(* or none; and compaction takes the oldest events out of the journal.     *)
(* An event that is still in the journal never changes.                    *)
(*                                                                         *)
(* MissionEvents implements it with segment files, checkpoints and the     *)
(* saved snapshot.                                                         *)
(***************************************************************************)
EXTENDS Integers, Sequences

CONSTANTS
    Kinds,      \* what an event may say
    Compacted,  \* stands for an event that is only in a checkpoint
    MaxBatch    \* the most events that one handler appends

VARIABLE log    \* the committed history, oldest first

Init == log = <<>>

\* A handler's events become history together.
Commit == \E n \in 1 .. MaxBatch : \E batch \in [1 .. n -> Kinds] :
             log' = log \o batch

\* A prefix of the history leaves the journal.
Compact == \E last \in DOMAIN log :
              log' = [seq \in DOMAIN log |->
                        IF seq <= last THEN Compacted ELSE log[seq]]

Next == Commit \/ Compact

Spec == Init /\ [][Next]_log
=============================================================================
