---------------------------- MODULE VirtualRadio ----------------------------
(***************************************************************************)
(* A vessel's radio on the emulated channel: the driver thread of          *)
(* src/src/infrastructure/sx126x/radio.rs and the node's handle on it, on  *)
(* the chip of module Chip and the air of module Hub.  A step of the       *)
(* driver thread is one look at the chip, so a frame may end between any   *)
(* two of them.  What the lora-phy driver does is external: TxDone is read *)
(* and cleared in one step there.  The profile is the continuous one.      *)
(***************************************************************************)
EXTENDS Chip

CONSTANTS MaxOwn   \* bound on frames the node hands over

ASSUME MaxOwnAssumption == MaxOwn \in Nat

VARIABLES
    pc,          \* the driver thread
    corrupted,   \* service_irq's local
    commands,    \* frames handed over and not yet taken
    asked,       \* frames handed over, for the bound
    events       \* RadioEvents sent to the node, notes left out

radioVars == <<pc, corrupted, commands, asked, events>>
vars == <<clock, hubVars, chipVars, radioVars>>

\* Driver::bring_up has configured a fresh chip and ended with listen.
Init ==
    /\ HubInit
    /\ ChipInit
    /\ pc = "wait" /\ corrupted = FALSE
    /\ commands = 0 /\ asked = 0
    /\ events = <<>>

Report(kind) == [kind |-> kind, frame |-> buffer.frame, intact |-> buffer.intact,
                 since |-> buffer.since, alone |-> buffer.alone]

----------------------------------------------------------------------------
(* The node: DriverHandle::transmit hands the frame over, then wakes.      *)

send_command ==
    /\ asked < MaxOwn
    /\ clock < MaxTime
    /\ asked' = asked + 1
    /\ commands' = commands + 1
    /\ host_wake' = TRUE
    /\ UNCHANGED <<clock, hubVars, mode, irq_status, irq_mask, buffer, rx_since, generation,
                   timers, antenna, deaf_since, pc, corrupted, events>>

----------------------------------------------------------------------------
(* The driver thread.                                                      *)

\* wait_for_activity, which ends on an interrupt, a wake or IDLE_WAIT.
wait_for_activity ==
    /\ pc = "wait"
    /\ host_wake' = FALSE
    /\ pc' = IF irq_on_dio1 THEN "process" ELSE "drain"
    /\ UNCHANGED <<clock, hubVars, mode, irq_status, irq_mask, buffer, rx_since, generation,
                   timers, antenna, deaf_since, corrupted, commands, asked, events>>

\* service_irq: process_irq_event, which reads the status and clears nothing.
service_process ==
    /\ pc = "process"
    /\ pc' = IF "RxDone" \in irq_status THEN "flags" ELSE "header"
    /\ UNCHANGED <<clock, hubVars, chipVars, corrupted, commands, asked, events>>

\* The chip's own word on the CRC, read a second time.
service_flags ==
    /\ pc = "flags"
    /\ corrupted' = ("CrcErr" \in irq_status)
    /\ pc' = "result"
    /\ UNCHANGED <<clock, hubVars, chipVars, commands, asked, events>>

\* get_rx_result, and the event.
service_result ==
    /\ pc = "result"
    /\ events' = Append(events, Report(IF corrupted THEN "CrcError" ELSE "Received"))
    /\ pc' = "clear"
    /\ UNCHANGED <<clock, hubVars, chipVars, corrupted, commands, asked>>

\* No reception: a header error is reported, a lone preamble is not.
service_header ==
    /\ pc = "header"
    /\ events' = IF "HeaderErr" \in irq_status
                 THEN Append(events, [Report("HeaderError") EXCEPT !.frame = {}])
                 ELSE events
    /\ pc' = "clear"
    /\ UNCHANGED <<clock, hubVars, chipVars, corrupted, commands, asked>>

\* Mutant: only what was acted on is cleared.
service_clear_done ==
    /\ pc = "clear"
    /\ irq_status' = irq_status \ {"RxDone", "Preamble"}
    /\ pc' = "drain"
    /\ UNCHANGED <<clock, hubVars, mode, irq_mask, buffer, rx_since, generation, timers, host_wake,
                   antenna, deaf_since, corrupted, commands, asked, events>>

\* clear_irq_status, of everything, what came in meanwhile included.
service_clear ==
    /\ pc = "clear"
    /\ clear_irq
    /\ pc' = "drain"
    /\ UNCHANGED <<clock, hubVars, corrupted, commands, asked, events>>

\* The next command, or back to the wait.
drain ==
    /\ pc = "drain"
    /\ commands' = IF commands = 0 THEN 0 ELSE commands - 1
    /\ pc' = IF commands = 0 THEN "wait" ELSE "prepare"
    /\ UNCHANGED <<clock, hubVars, chipVars, corrupted, asked, events>>

\* Driver::transmit: prepare_for_tx, then tx.
transmit_prepare ==
    /\ pc = "prepare"
    /\ prepare_tx
    /\ pc' = "tx"
    /\ UNCHANGED <<clock, hubVars, corrupted, commands, asked, events>>

transmit_start ==
    /\ pc = "tx"
    /\ begin_transmit
    /\ pc' = "await"
    /\ UNCHANGED <<clock, hubVars, corrupted, commands, asked, events>>

\* Chip::await_irq, which a wake of the node ends too.
await_irq ==
    /\ pc = "await"
    /\ irq_on_dio1 \/ host_wake
    /\ host_wake' = FALSE
    /\ pc' = "txirq"
    /\ UNCHANGED <<clock, hubVars, mode, irq_status, irq_mask, buffer, rx_since, generation,
                   timers, antenna, deaf_since, corrupted, commands, asked, events>>

\* Mutant: what stood there before the transmission is left alone.
transmit_done_kept ==
    /\ pc = "txirq"
    /\ pc' = IF "TxDone" \in irq_status THEN "listen" ELSE "await"
    /\ irq_status' = irq_status \ {"TxDone"}
    /\ UNCHANGED <<clock, hubVars, mode, irq_mask, buffer, rx_since, generation, timers, host_wake,
                   antenna, deaf_since, corrupted, commands, asked, events>>

\* tx: the status is read and cleared; it waits on unless TxDone was there.
transmit_done ==
    /\ pc = "txirq"
    /\ pc' = IF "TxDone" \in irq_status THEN "listen" ELSE "await"
    /\ clear_irq
    /\ UNCHANGED <<clock, hubVars, corrupted, commands, asked, events>>

\* Driver::listen, after a transmission, and on with the commands.
listen ==
    /\ pc = "listen"
    /\ begin_receive
    /\ pc' = "drain"
    /\ UNCHANGED <<clock, hubVars, corrupted, commands, asked, events>>

Driver ==
    \/ wait_for_activity \/ service_process \/ service_flags \/ service_result
    \/ service_header \/ service_clear \/ drain
    \/ transmit_prepare \/ transmit_start \/ await_irq \/ transmit_done \/ listen

----------------------------------------------------------------------------
(* The air, and time.                                                      *)

\* Another member transmits.
others_transmit ==
    /\ clock < MaxTime
    /\ Cardinality({f \in aired : f.from # Vessel}) < MaxOthers
    /\ \E from \in Others :
        /\ \A f \in aired : f.from = from => f.end <= clock
        /\ Air(from)
    /\ UNCHANGED <<clock, frames, downlink, verdicts, first_frame, chipVars, radioVars>>

hub_relays == relay /\ UNCHANGED <<chipVars, radioVars>>

chip_hears == deliver /\ UNCHANGED radioVars

antenna_sends == radiate /\ UNCHANGED radioVars

timer_fires == fire /\ UNCHANGED radioVars

Overdue == \/ channel # <<>> \/ downlink # <<>> \/ antenna > 0
           \/ \E f \in frames : f.end <= clock /\ f \notin Settled
           \/ \E timer \in timers : timer.at <= clock

Pending == timers # {} \/ \E f \in frames : f \notin Settled

\* Time passes once the hub's threads, the socket and the timers have done
\* what is due: they take far less than a symbol.  The driver thread may be
\* slow.  After MaxTime nothing new is asked, and what was begun ends.
Tick ==
    /\ ~Overdue
    /\ clock < MaxTime \/ Pending
    /\ clock' = clock + 1
    /\ UNCHANGED <<hubVars, chipVars, radioVars>>

Next ==
    \/ send_command \/ Driver
    \/ others_transmit \/ hub_relays \/ chip_hears \/ antenna_sends \/ timer_fires
    \/ Tick

\* Threads run and time passes; nobody is obliged to transmit.
Spec ==
    /\ Init /\ [][Next]_vars
    /\ WF_vars(Driver)
    /\ WF_vars(hub_relays) /\ WF_vars(chip_hears)
    /\ WF_vars(antenna_sends) /\ WF_vars(timer_fires)
    /\ WF_vars(Tick)

----------------------------------------------------------------------------
(* Properties.                                                             *)

\* Whose frames came through at an instant, partition considered.
Reached(f, at) == f.from \notin Cut \/ \E first \in first_frame : at >= first + isolate

\* The relay judges a frame against what it remembers, taking one frame from
\* its channel at a time and forgetting settled ones; the verdict is what the
\* medium model says of the frame against everything there ever was.
JudgedAgainstAll ==
    \A f \in {g \in Settled : g.from # Vessel} :
        verdicts[f] = IF Reached(f, f.end)
                      THEN judge(At(f), {At(o) : o \in {g \in aired \ {f} : Reached(g, f.end)}})
                      ELSE "Unheard"

Readings == {i \in DOMAIN events : events[i].kind \in {"Received", "CrcError"}}

\* What the driver thread reports as received the chip heard from (nearly)
\* the start of the frame to its end, whatever it did between the frames.
HeardWhole ==
    \A i \in Readings : \A f \in events[i].frame : events[i].since <= f.start + tolerance

\* However a frame's end falls between the looks of service_irq and the
\* vessel's own transmissions, it is reported at most once, and what the
\* vessel wrote into the buffer to send is never reported as heard.
ReportedOnce ==
    \A i \in Readings :
        /\ \A f \in events[i].frame : f.from # Vessel
        /\ \A j \in Readings : i # j => events[i].frame # events[j].frame

\* "A failed frame is telemetry, never a frame": the CRC flag is matched with
\* the frame it belongs to, for every frame that ended after the one before
\* it was read and cleared.
WrecksAreTelemetry ==
    \A i \in Readings :
        events[i].alone => events[i].intact = (events[i].kind = "Received")

\* The same of every frame.  The code does not keep this when two frames end
\* within one service, the second after the flags were looked at.
FailedIsNeverAFrame ==
    \A i \in Readings : events[i].kind = "Received" => events[i].intact

----------------------------------------------------------------------------
(* What the invariants above rest on, for their proof.                     *)

AnyFrame   == [from : Others \cup {Vessel}, start : Nat, end : Nat]
Verdicts   == {"Decoded", "HeaderError", "CrcError"}
Deliveries == [kind : {"delivery"}, frame : AnyFrame, verdict : Verdicts]
Buffers    == [frame : SUBSET AnyFrame, intact : BOOLEAN, since : Nat, alone : BOOLEAN]
Events     == [kind : {"Received", "CrcError", "HeaderError"}, frame : SUBSET AnyFrame,
               intact : BOOLEAN, since : Nat, alone : BOOLEAN]

AirTypeOK ==
    /\ clock \in Nat
    /\ aired \in SUBSET AnyFrame /\ IsFiniteSet(aired)
    /\ channel \in Seq(AnyFrame) /\ \A i \in DOMAIN channel : channel[i] \in aired
    /\ frames \in SUBSET aired /\ Settled \in SUBSET aired

RadioTypeOK ==
    /\ deaf_since \in Nat
    /\ downlink \in Seq({Preamble} \cup Deliveries)
    /\ buffer \in Buffers /\ corrupted \in BOOLEAN
    /\ events \in Seq(Events)

\* What the relay has forgotten ended longer ago than a frame lasts, and time
\* stands still while something has ended or is waiting to be looked at.
NothingIsLost ==
    /\ \A f \in aired : f.end = f.start + Airtime[f.from] /\ f.start <= clock
    /\ \A f \in aired \ Settled : f \in frames \/ \E i \in DOMAIN channel : channel[i] = f
    /\ \A i \in DOMAIN channel : channel[i].start = clock
    /\ \A f \in frames \ Settled : f.end >= clock
    /\ \A f \in Settled : f.end <= clock /\ (f \in frames \/ f.end + Retention <= clock)
    /\ Settled # {} => first_frame # {}

\* A frame is delivered when it ends, and once.
DeliveredOnce ==
    /\ \A f \in buffer.frame : f.from = Vessel \/ f \in Settled
    /\ \A i \in DOMAIN downlink : downlink[i].kind = "delivery" =>
        LET f == downlink[i].frame
        IN  /\ f \in Settled /\ f.from # Vessel /\ f.end = clock
            /\ \A j \in DOMAIN downlink : (downlink[j].kind = "delivery" /\ i # j) =>
                  downlink[j].frame # f
            /\ f \notin buffer.frame
            /\ \A j \in Readings : f \notin events[j].frame

\* What one thread can count on while the other threads run.
Modes ==
    /\ mode = "Receive" => irq_mask = RX_FLAGS /\ rx_since = {deaf_since}
    /\ pc \in {"tx", "await", "txirq", "listen"} => mode # "Receive"
    /\ pc \in {"flags", "result"} => "RxDone" \in irq_status
    /\ "CrcErr" \in irq_status => "RxDone" \in irq_status
    /\ pc = "listen" => "RxDone" \notin irq_status
    /\ (pc = "result" /\ buffer.alone) => corrupted = ~buffer.intact

\* A frame somebody else sent, heard from nearly its start to its end.
Whole(reading) ==
    \E f \in Settled : /\ reading.frame = {f} /\ f.from # Vessel
                        /\ reading.since <= f.start + tolerance

\* RxDone stands for the frame in the buffer, until the vessel's own is there.
BufferIsHeard ==
    ("RxDone" \in irq_status /\ pc \notin {"tx", "await", "txirq"}) =>
        /\ Whole(buffer)
        /\ buffer.alone => ("CrcErr" \in irq_status <=> ~buffer.intact)
        /\ pc # "clear" => \A i \in Readings : events[i].frame # buffer.frame

EventsAreWhole == \A i \in Readings : Whole(events[i])

AirInv == AirTypeOK /\ NothingIsLost /\ JudgedAgainstAll

\* What the node was told, and what the hub has yet to tell the chip.
ReportsInv ==
    /\ RadioTypeOK
    /\ DeliveredOnce
    /\ EventsAreWhole
    /\ ReportedOnce
    /\ WrecksAreTelemetry

RadioInv ==
    /\ AirInv
    /\ ReportsInv
    /\ Modes
    /\ BufferIsHeard

----------------------------------------------------------------------------

=============================================================================
