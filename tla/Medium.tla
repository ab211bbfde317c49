------------------------------- MODULE Medium -------------------------------
(***************************************************************************)
(* Who gets through when two radios talk at once (src/src/sim/medium.rs):  *)
(* what becomes of a frame at one receiver, against everything else on the *)
(* air there.  A transmission is when it starts and ends and how strong it *)
(* arrives; times are in symbols, power in dB.                             *)
(***************************************************************************)
EXTENDS Integers, FiniteSets, FiniteSetsExt

CONSTANTS
    lead_symbols,         \* from the start to where the lock window opens
    locked_symbols,       \* to the end of the sync word, where the lock is
    header_end_symbols,   \* to the end of the header
    capture_threshold_db,
    SENSITIVITY_DBM,
    OWN_DBM               \* the receiver's own frame: nothing is heard over it

ASSUME MediumConstants ==
    /\ {lead_symbols, locked_symbols, header_end_symbols, capture_threshold_db} \subseteq Nat
    /\ lead_symbols < locked_symbols /\ locked_symbols < header_end_symbols
    /\ {SENSITIVITY_DBM, OWN_DBM} \subseteq Int

\* Transmission::overlaps: they share an instant.
overlaps(a, b) == a.start < b.end /\ b.start < a.end

\* The frame another one costs this one.
Cost(target, other) ==
    LET lock_start == target.start + lead_symbols
        lock_end   == target.start + locked_symbols
        header_end == target.start + header_end_symbols
    IN  CASE other.start < lock_end /\ other.end > lock_start -> "NoLock"
          [] other.start >= lock_end /\ other.start < header_end -> "HeaderError"
          [] other.start >= header_end -> "CrcError"
          [] OTHER -> "Decoded"           \* over before the lock window opened

Severity == [Decoded |-> 0, CrcError |-> 1, HeaderError |-> 2, NoLock |-> 3]

\* What overlaps a frame and is not weak enough for it to be captured.
Interferers(target, others) ==
    {o \in others : overlaps(target, o) /\ target.rssi - o.rssi < capture_threshold_db}

\* The worst that any of them does.
Worst(target, interferers) ==
    LET costs == {"Decoded"} \cup {Cost(target, o) : o \in interferers}
    IN  CHOOSE c \in costs : \A d \in costs : Severity[c] >= Severity[d]

judge(target, others) ==
    IF target.rssi < SENSITIVITY_DBM THEN "TooWeak"
    ELSE Worst(target, Interferers(target, others))
=============================================================================
