----------------------------- MODULE RadioQueue -----------------------------
(***************************************************************************)
(* The bounded queue of frames a member has yet to send                    *)
(* (src/src/application/queue.rs) under any sequence of calls: two classes *)
(* served in turns, a cap in items and one in bytes, and a bounded memory  *)
(* of what was offered, which the caller may tell to forget a frame.       *)
(* A frame is its identity, its length and its optional expiry.            *)
(***************************************************************************)
EXTENDS Sums, FiniteSets, SequencesExt

CONSTANTS
    Offered,            \* the frames a caller may offer: [sequence, bytes, expires_at]
    max_items,
    max_bytes,
    DISTRESS_BURST,     \* distress frames in a row before routine has a turn
    MAX_DEDUP_ENTRIES,  \* identities remembered
    Instants            \* the "now" of drop_expired

ASSUME QueueConstants ==
    /\ \A f \in Offered : f.bytes \in Nat /\ f.expires_at \subseteq Nat
    /\ max_items \in Nat /\ max_bytes \in Nat
    /\ DISTRESS_BURST \in Nat \ {0}
    \* 1024 in the code, against 568 for the 64 frames and bursts of 8 of lcq-node
    /\ MAX_DEDUP_ENTRIES \in Nat
    /\ MAX_DEDUP_ENTRIES >= (max_items - 1) * DISTRESS_BURST + max_items
    /\ Instants \subseteq Nat

VARIABLES
    distress, routine,  \* the two classes, oldest first
    seen_order,         \* the identities remembered, oldest first (seen is its range)
    queued_bytes,
    distress_streak,
    forgotten,          \* queued frames the caller has told the queue to forget
    overtaken,          \* frames taken from each class while the other one waited
    swept               \* drop_expired has removed a frame

queueVars == <<distress, routine, seen_order, queued_bytes, distress_streak,
               forgotten, overtaken, swept>>

Nobody == [Distress |-> 0, Routine |-> 0]

QueueInit ==
    /\ distress = <<>>
    /\ routine = <<>>
    /\ seen_order = <<>>
    /\ queued_bytes = 0
    /\ distress_streak = 0
    /\ forgotten = {}
    /\ overtaken = Nobody
    /\ swept = FALSE

Bytes(frames) == Total([i \in DOMAIN frames |-> frames[i].bytes])

Identities(frames) == {f.sequence : f \in Range(frames)}

Subtract(a, b) == IF a > b THEN a - b ELSE 0

\* Mutant: the oldest identity is let go one frame too early.
remember_short(sequence) ==
    LET all == Append(seen_order, sequence)
    IN  IF Len(all) > max_items THEN Tail(all) ELSE all

remember(sequence) ==
    LET all == Append(seen_order, sequence)
    IN  IF Len(all) > MAX_DEDUP_ENTRIES THEN Tail(all) ELSE all

\* offer() that returns Ok; a duplicate or a full queue changes nothing.
offer(frame, priority) ==
    /\ frame.sequence \notin Range(seen_order)
    /\ Len(distress) + Len(routine) < max_items
    /\ queued_bytes + frame.bytes <= max_bytes
    /\ seen_order' = remember(frame.sequence)
    /\ queued_bytes' = queued_bytes + frame.bytes
    /\ distress' = IF priority = "Distress" THEN Append(distress, frame) ELSE distress
    /\ routine' = IF priority = "Routine" THEN Append(routine, frame) ELSE routine
    /\ UNCHANGED <<distress_streak, forgotten, overtaken, swept>>

\* retain: an identity is remembered once, so what it drops is the first.
forget(sequence) ==
    /\ sequence \in Range(seen_order)
    /\ seen_order' = RemoveFirst(seen_order, sequence)
    /\ forgotten' = forgotten \cup ({sequence} \cap Identities(distress \o routine))
    /\ UNCHANGED <<distress, routine, queued_bytes, distress_streak, overtaken, swept>>

----------------------------------------------------------------------------
(* take_next                                                               *)

\* How often each class has been served while the other one had to wait.
Overtaking(class) ==
    [Distress |-> IF class = "Routine" /\ distress # <<>> THEN overtaken.Distress + 1 ELSE 0,
     Routine  |-> IF class = "Distress" /\ routine # <<>> THEN overtaken.Routine + 1 ELSE 0]

\* Mutant: the burst is over one frame late.
take_routine_late == distress = <<>> \/ distress_streak > DISTRESS_BURST

take_routine == distress = <<>> \/ distress_streak >= DISTRESS_BURST

take_next_routine ==
    /\ take_routine /\ routine # <<>>
    /\ routine' = Tail(routine)
    /\ distress_streak' = 0
    /\ queued_bytes' = Subtract(queued_bytes, Head(routine).bytes)
    /\ overtaken' = Overtaking("Routine")
    /\ forgotten' = forgotten \cap Identities(distress \o routine')
    /\ UNCHANGED <<distress, seen_order, swept>>

\* The streak is a u8 and saturates; past the burst one value is like another.
take_next_distress ==
    /\ ~(take_routine /\ routine # <<>>)
    /\ distress # <<>>
    /\ distress' = Tail(distress)
    /\ distress_streak' = IF distress_streak <= DISTRESS_BURST
                          THEN distress_streak + 1 ELSE distress_streak
    /\ queued_bytes' = Subtract(queued_bytes, Head(distress).bytes)
    /\ overtaken' = Overtaking("Distress")
    /\ forgotten' = forgotten \cap Identities(distress' \o routine)
    /\ UNCHANGED <<routine, seen_order, swept>>

take_next == take_next_routine \/ take_next_distress

----------------------------------------------------------------------------
(* drop_expired                                                            *)

Live(frame, now) == \A at \in frame.expires_at : at >= now

\* retain: what is left of the first k frames, for every k.
Retaining(frames, now) ==
    LET kept[k \in 0 .. Len(frames)] ==
            IF k = 0 THEN <<>>
            ELSE kept[k - 1] \o IF Live(frames[k], now) THEN <<frames[k]>> ELSE <<>>
    IN  kept

Retained(frames, now) == Retaining(frames, now)[Len(frames)]

\* Mutant: the byte count is left as it was.
drop_expired_bytes_kept(now) ==
    /\ distress' = Retained(distress, now)
    /\ routine' = Retained(routine, now)
    /\ UNCHANGED <<seen_order, distress_streak, forgotten, queued_bytes, overtaken, swept>>

drop_expired(now) ==
    /\ distress' = Retained(distress, now)
    /\ routine' = Retained(routine, now)
    /\ queued_bytes' = Bytes(distress') + Bytes(routine')
    /\ overtaken' = [Distress |-> IF distress' = <<>> THEN 0 ELSE overtaken.Distress,
                     Routine |-> IF routine' = <<>> THEN 0 ELSE overtaken.Routine]
    /\ forgotten' = forgotten \cap Identities(distress' \o routine')
    /\ swept' = (swept \/ <<distress', routine'>> # <<distress, routine>>)
    /\ UNCHANGED <<seen_order, distress_streak>>

QueueNext ==
    \/ \E frame \in Offered, priority \in {"Routine", "Distress"} : offer(frame, priority)
    \/ \E frame \in Offered : forget(frame.sequence)
    \/ take_next
    \/ \E now \in Instants : drop_expired(now)

----------------------------------------------------------------------------
(* Properties.                                                             *)

\* The byte count kept on the side is the length of what is queued, through
\* every order of offers, turns and expiries, and the caps hold: a count that
\* drifts up refuses traffic for ever, one that drifts down lets a flood in.
BytesExact ==
    /\ queued_bytes = Bytes(distress \o routine)
    /\ queued_bytes <= max_bytes
    /\ Len(distress) + Len(routine) <= max_items

\* "Distress goes first, yet routine traffic is guaranteed a share" (queue.rs):
\* a waiting routine frame is overtaken by one burst of distress at most, and a
\* waiting distress frame by one routine frame.
FairShare ==
    /\ overtaken.Routine <= DISTRESS_BURST
    /\ overtaken.Distress <= 1

\* "This frame is already queued" (QueueError::Duplicate): the bounded memory
\* does not let go of a frame while it is still waiting, however many frames of
\* the other class pass it, unless the caller has asked for it to be forgotten.
\* Expired frames fill the memory without taking a turn, so this is promised to
\* a caller that queues frames without an expiry, as lcq-node does.
QueuedIsRemembered ==
    ~swept => Identities(distress \o routine) \subseteq Range(seen_order) \cup forgotten

----------------------------------------------------------------------------
(* The inductive invariants behind them.                                   *)

\* The count is that of each class, and the caps hold.
Counted ==
    /\ distress \in Seq(Offered) /\ routine \in Seq(Offered)
    /\ queued_bytes = Bytes(distress) + Bytes(routine)
    /\ queued_bytes <= max_bytes
    /\ Len(distress) + Len(routine) <= max_items

\* A class is overtaken within one streak.
Turns ==
    /\ overtaken \in [Distress : Nat, Routine : Nat]
    /\ distress_streak \in Nat
    /\ overtaken.Routine <= distress_streak
    /\ overtaken.Routine <= DISTRESS_BURST
    /\ overtaken.Distress <= 1
    /\ overtaken.Distress = 1 => distress_streak = 0

Queued == Len(distress) + Len(routine)

\* How many frames can have come after the one at place j of its class, when
\* `queued` are waiting: those still here that are not ahead of it, and those
\* that have left, as a class lets at most `share` frames of the other pass
\* between two of its own.
Newer(queued, j, share, passing) ==
    queued - j + IF j < max_items THEN (max_items - 1 - j) * share + passing ELSE 0

\* An identity is in the memory, and at most `newer` others came after it.
Recalled(order, sequence, newer) ==
    \E p \in DOMAIN order : order[p] = sequence /\ Len(order) - p <= newer

\* A waiting frame is forgotten, or recalled.
HeldWithin(frame, newer) ==
    frame.sequence \in forgotten \/ Recalled(seen_order, frame.sequence, newer)

\* So is every frame of a class that lets `share` of the other pass.
Waiting(class, share, passing) ==
    \A j \in DOMAIN class : HeldWithin(class[j], Newer(Queued, j, share, passing))

Held ==
    /\ distress \in Seq(Offered) /\ routine \in Seq(Offered)
    /\ Queued <= max_items
    /\ Waiting(distress, 1, overtaken.Distress)
    /\ Waiting(routine, DISTRESS_BURST, overtaken.Routine)

QueueInv ==
    /\ Turns
    /\ swept \in BOOLEAN
    /\ seen_order \in Seq({f.sequence : f \in Offered})
    /\ ~swept => Held
=============================================================================
