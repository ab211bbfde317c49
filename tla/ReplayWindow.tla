---------------------------- MODULE ReplayWindow ----------------------------
(***************************************************************************)
(* What a receiver remembers of one sender's sequence numbers              *)
(* (src/src/application/replay.rs): the newest one and Depth bits below    *)
(* it.  bits holds i when bit i of the word is set, that is, when highest  *)
(* - i has been seen; a shift moves every bit up and drops those past the  *)
(* end of the word.                                                        *)
(***************************************************************************)
EXTENDS Integers

CONSTANT Depth     \* REPLAY_WINDOW, also the width of the word

ASSUME DepthAssumption == Depth \in Nat \ {0}

Nothing == -1      \* highest is None

Word == 0 .. Depth - 1

new == [highest |-> Nothing, bits |-> {}]

\* Mutant: only the newest sequence itself counts as seen after a restart.
resumed_newest_only(highest) == [highest |-> highest, bits |-> {0}]

\* everything at or below highest counts as seen
resumed(highest) == [highest |-> highest, bits |-> Word]

seen(window, sequence) ==
    /\ window.highest # Nothing
    /\ sequence <= window.highest
    /\ \/ window.highest - sequence >= Depth
       \/ window.highest - sequence \in window.bits

\* Mutant: the word moves by one, however far the sequence jumped.
ShiftLeft_by_one(bits, shift) == {i \in Word : i - 1 \in bits}

ShiftLeft(bits, shift) == {i \in Word : i - shift \in bits}

mark(window, sequence) ==
    IF window.highest = Nothing
    THEN [highest |-> sequence, bits |-> {0}]
    ELSE IF sequence > window.highest
    THEN [highest |-> sequence,
          bits |-> ShiftLeft(window.bits, sequence - window.highest) \cup {0}]
    ELSE [window EXCEPT !.bits = @ \cup ({window.highest - sequence} \cap Word)]

=============================================================================
