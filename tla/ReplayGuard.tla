---------------------------- MODULE ReplayGuard -----------------------------
(***************************************************************************)
(* One receiver's guard against one sender's replays, over several lives:  *)
(* a verified frame is marked in memory, then the highest sequence is      *)
(* journalled (remember_seen), and a restart resumes the window from that  *)
(* one number.  Frames arrive in any order and any number of times.        *)
(***************************************************************************)
EXTENDS ReplayWindow

CONSTANT MaxSequence

ASSUME SequenceAssumption == MaxSequence \in Nat

Sequences == 0 .. MaxSequence

VARIABLES
    window,       \* in memory
    highest_seen, \* in the journal
    unwritten,    \* marked, its remember_seen not yet done
    base,         \* the highest this life resumed from
    marked,       \* sequences marked in this life
    remembered    \* sequences, of any life, whose mark_seen returned Ok

vars == <<window, highest_seen, unwritten, base, marked, remembered>>

Init ==
    /\ window = new
    /\ highest_seen = Nothing
    /\ unwritten = Nothing
    /\ base = Nothing
    /\ marked = {}
    /\ remembered = {}

\* A frame that is not a replay verifies and is marked.
Admit(sequence) ==
    /\ unwritten = Nothing
    /\ ~seen(window, sequence)
    /\ window' = mark(window, sequence)
    /\ marked' = marked \cup {sequence}
    /\ unwritten' = sequence
    /\ UNCHANGED <<highest_seen, base, remembered>>

\* Mutant: every mark overwrites the number, an older sequence too.
remember_seen_latest ==
    /\ unwritten # Nothing
    /\ highest_seen' = unwritten
    /\ remembered' = remembered \cup {unwritten}
    /\ unwritten' = Nothing
    /\ UNCHANGED <<window, base, marked>>

\* The journal records it, if it is news.
remember_seen ==
    /\ unwritten # Nothing
    /\ highest_seen' = IF highest_seen < unwritten THEN unwritten ELSE highest_seen
    /\ remembered' = remembered \cup {unwritten}
    /\ unwritten' = Nothing
    /\ UNCHANGED <<window, base, marked>>

\* The write fails: a line in the report, and the node carries on.
seen_not_durable ==
    /\ unwritten # Nothing
    /\ highest_seen < unwritten
    /\ unwritten' = Nothing
    /\ UNCHANGED <<window, highest_seen, base, marked, remembered>>

\* The process dies and comes back.
Restart ==
    /\ window' = IF highest_seen = Nothing THEN new ELSE resumed(highest_seen)
    /\ base' = highest_seen
    /\ marked' = {}
    /\ unwritten' = Nothing
    /\ UNCHANGED <<highest_seen, remembered>>

Next ==
    \/ \E sequence \in Sequences : Admit(sequence)
    \/ remember_seen
    \/ seen_not_durable
    \/ Restart

Spec == Init /\ [][Next]_vars

----------------------------------------------------------------------------
(* Properties.                                                             *)

\* The window, the journal's number and the history are sequences or Nothing.
TypeOK ==
    /\ window \in [highest : Sequences \cup {Nothing}, bits : SUBSET Word]
    /\ highest_seen \in Sequences \cup {Nothing}
    /\ unwritten \in Sequences \cup {Nothing}
    /\ base \in Sequences \cup {Nothing}
    /\ marked \subseteq Sequences
    /\ remembered \subseteq Sequences

\* The bits say exactly what they are for: inside the window a sequence is
\* refused if and only if it was marked in this life or lies at or below what
\* the life resumed from; past the window everything is refused.
WindowExact ==
    \A s \in Sequences :
        seen(window, s) <=> \/ s \in marked
                            \/ s <= base
                            \/ /\ window.highest # Nothing
                               /\ s <= window.highest - Depth

\* A frame whose sequence was journalled is never admitted again, in this life
\* or in any later one (THREAT-MODEL F2): the bit the journal does not keep is
\* covered by the number it keeps.
RememberedIsSeen == \A s \in remembered : seen(window, s)

\* The strengthening: the newest sequence is the newest of those the window
\* stands for, and the journal is ahead of everything it recorded.
NewestIsHighest ==
    /\ \A s \in marked : s <= window.highest
    /\ base <= window.highest
    /\ window.highest \in marked \cup {base}
    /\ window.highest = Nothing => window.bits = {}
    /\ base # Nothing => window.highest # Nothing
    /\ unwritten \in marked \cup {Nothing}
    /\ base <= highest_seen

\* What the journal recorded lies below its number, and what this life has not
\* marked itself it resumed from.
RememberedBelow ==
    \A s \in remembered : s <= highest_seen /\ (s <= base \/ s \in marked)

\* The inductive invariant of the guard over any number of lives.
IndInv == TypeOK /\ NewestIsHighest /\ WindowExact /\ RememberedBelow

=============================================================================
