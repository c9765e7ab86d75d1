----------------------------- MODULE RepairFifo -----------------------------
(***************************************************************************)
(* What the sender's queue of repair symbols promises: a first-in          *)
(* first-out queue of bounded capacity.  Repair symbols enter at the tail  *)
(* in the order they are generated; when the queue is full the oldest      *)
(* makes room and is lost.  Symbols leave at the head only, into a frame   *)
(* or, when the frame cannot be reserved, into nothing.  One call of       *)
(* generate_and_queue_repair_symbols is one step: a batch enters, then     *)
(* some symbols leave.  The ring of                                        *)
(* src/plugins/fec/framework/window_framework_sender.h implements it.      *)
(***************************************************************************)
EXTENDS Naturals, Sequences

CONSTANTS
    Capacity,   \* the symbols the queue holds
    MaxBatch    \* most symbols that enter in one step

VARIABLES
    generated,  \* the repair symbols generated so far, numbered from 1
    queue,      \* the symbols waiting, oldest first
    free,       \* the places that hold nothing
    sent,       \* the symbols that left in a frame, in order
    lost        \* the symbols that left without a frame

vars == <<generated, queue, free, sent, lost>>

Symbols(s) == {s[i] : i \in DOMAIN s}

Init ==
    /\ generated = 0
    /\ queue = <<>>
    /\ free = Capacity
    /\ sent = <<>>
    /\ lost = {}

\* r symbols enter, the oldest making room for them; then n symbols leave
\* in frames, and one more without a frame if the call fails.
Step(r, n, fails) ==
    LET all     == queue \o [i \in 1 .. r |-> generated + i]
        over    == IF Len(all) > Capacity THEN Len(all) - Capacity ELSE 0
        kept    == SubSeq(all, over + 1, Len(all))
        leaving == IF fails THEN n + 1 ELSE n
    IN  /\ leaving <= Len(kept)
        /\ generated' = generated + r
        /\ queue' = SubSeq(kept, leaving + 1, Len(kept))
        /\ free' = Capacity - Len(queue')
        /\ sent' = sent \o SubSeq(kept, 1, n)
        /\ lost' = lost \cup Symbols(SubSeq(all, 1, over))
                        \cup Symbols(SubSeq(kept, n + 1, leaving))

Next ==
    \E r \in 0 .. MaxBatch, n \in 0 .. Capacity, fails \in BOOLEAN :
        Step(r, n, fails)

Spec == Init /\ [][Next]_vars

=============================================================================
