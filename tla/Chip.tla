-------------------------------- MODULE Chip --------------------------------
(***************************************************************************)
(* The virtual SX126x (src/src/infrastructure/sx126x/chip.rs) on the air   *)
(* of module Hub.  The model's mutex makes every command, every delivery   *)
(* and every timer one step.  The buffer holds the frame it was filled     *)
(* from and whether the bytes are that frame's or its wreck; the interrupt *)
(* status is the set of flags that are up.  Channel activity detection,    *)
(* which no adapter uses, BUSY and the registers are left out.             *)
(***************************************************************************)
EXTENDS Hub

CONSTANTS
    tolerance        \* late_tolerance: preamble beyond what a lock needs

ASSUME ChipConstants == tolerance \in Nat

VARIABLES
    mode,            \* "StandbyRc", "Receive" or "Transmit"
    irq_status,
    irq_mask,        \* CfgDioIrq, which the driver sets for both alike
    buffer,          \* whose bytes, whether they are intact; for the properties,
                     \* from when they were heard and whether the one before was read
    rx_since,        \* when the current receive began, or empty
    generation,
    timers,          \* armed TxDone timers: [at, generation]
    host_wake,
    antenna,         \* what the chip gave the medium, not yet at the hub
    deaf_since       \* when the chip last was not receiving, for a property

chipVars == <<mode, irq_status, irq_mask, buffer, rx_since, generation, timers, host_wake,
              antenna, deaf_since>>

RX_FLAGS == {"Preamble", "HeaderErr", "RxDone", "CrcErr"}
TX_FLAGS == {"TxDone"}

Silent == [frame |-> {}, intact |-> FALSE, since |-> 0, alone |-> TRUE]

\* A fresh chip that was told to receive, as bring_up leaves it.
ChipInit ==
    /\ mode = "Receive"
    /\ irq_status = {} /\ irq_mask = RX_FLAGS
    /\ buffer = Silent
    /\ rx_since = {clock} /\ generation = 1 /\ timers = {}
    /\ host_wake = FALSE
    /\ antenna = 0
    /\ deaf_since = 0

\* raise: a masked source is not stored.
raise(flags) == irq_status' = irq_status \cup (flags \cap irq_mask)

irq_on_dio1 == irq_status \cap irq_mask # {}

set_mode(to) ==
    /\ mode' = to
    /\ rx_since' = IF to = "Receive" THEN {clock} ELSE {}
    /\ generation' = generation + 1
    /\ deaf_since' = clock

----------------------------------------------------------------------------
(* Commands.                                                               *)

\* SetStandby, WriteBuffer and CfgDioIrq, as prepare_for_tx sends them.
prepare_tx ==
    /\ set_mode("StandbyRc")
    /\ buffer' = [frame |-> {Frame(Vessel)}, intact |-> TRUE, since |-> clock, alone |-> TRUE]
    /\ irq_mask' = TX_FLAGS
    /\ UNCHANGED <<irq_status, timers, host_wake, antenna>>


\* SetTx: the buffer goes to the medium, TxDone comes after the airtime.
begin_transmit ==
    /\ set_mode("Transmit")
    /\ timers' = timers \cup {[at |-> clock + Airtime[Vessel], generation |-> generation + 1]}
    /\ antenna' = antenna + 1
    /\ UNCHANGED <<irq_status, irq_mask, buffer, host_wake>>

\* SetRx, continuous, after CfgDioIrq for reception.
begin_receive ==
    /\ set_mode("Receive")
    /\ irq_mask' = RX_FLAGS
    /\ UNCHANGED <<irq_status, buffer, timers, host_wake, antenna>>

\* ClrIrqStatus, of everything.
clear_irq ==
    /\ irq_status' = {}
    /\ UNCHANGED <<mode, irq_mask, buffer, rx_since, generation, timers, host_wake, antenna,
                   deaf_since>>

----------------------------------------------------------------------------
(* What happens to the chip.                                               *)

\* A timer thread wakes up; a timer of an earlier mode does nothing.  This
\* driver leaves none behind: a transmission ends only with its TxDone.
fire ==
    /\ \E timer \in timers :
        /\ timer.at <= clock
        /\ timers' = timers \ {timer}
        /\ IF mode = "Transmit" /\ generation = timer.generation
           THEN set_mode("StandbyRc") /\ raise({"TxDone"})
           ELSE UNCHANGED <<mode, rx_since, generation, deaf_since, irq_status>>
    /\ UNCHANGED <<irq_mask, buffer, host_wake, antenna, hubVars, clock>>

\* Mutant: whoever receives when a frame ends has it.
listening_now(delivery) == mode = "Receive"

\* Listening from nearly the start of the frame, as the chip reckons it.
listening(delivery) ==
    /\ mode = "Receive"
    /\ \A since \in rx_since : since <= (clock - Airtime[delivery.frame.from]) + tolerance

\* The medium thread: a frame has just ended here, or one has just started.
deliver ==
    /\ downlink # <<>>
    /\ LET message == Head(downlink)
       IN  IF message.kind = "preamble" \/ ~listening(message)
           THEN UNCHANGED <<irq_status, buffer>>
           ELSE IF message.verdict = "HeaderError"
                THEN raise({"Preamble", "HeaderErr"}) /\ UNCHANGED buffer
                ELSE /\ buffer' = [frame |-> {message.frame}, intact |-> message.verdict = "Decoded",
                                   since |-> deaf_since, alone |-> "RxDone" \notin irq_status]
                     /\ raise({"Preamble", "RxDone"}
                                \cup (IF message.verdict = "Decoded" THEN {} ELSE {"CrcErr"}))
    /\ downlink' = Tail(downlink)
    /\ UNCHANGED <<mode, irq_mask, rx_since, generation, timers, host_wake, antenna,
                   deaf_since, channel, frames, aired, verdicts, first_frame, clock>>

\* The antenna thread: the hub has the frame.
radiate ==
    /\ antenna > 0
    /\ antenna' = antenna - 1
    /\ Air(Vessel)
    /\ UNCHANGED <<mode, irq_status, irq_mask, buffer, rx_since, generation, timers, host_wake,
                   deaf_since, frames, downlink, verdicts, first_frame, clock>>
=============================================================================
