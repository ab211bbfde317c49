------------------------- MODULE VirtualRadioProofs -------------------------
(***************************************************************************)
(* Proofs about a radio on the emulated channel, for any members, powers,  *)
(* airtimes, partition, residual loss and timing of the medium, and any    *)
(* number of frames: the relay judges each frame against everything there  *)
(* ever was, and the driver thread reports what was heard, whole and once. *)
(***************************************************************************)
EXTENDS VirtualRadio, FiniteSetTheorems, TLAPS

LEMMA TheConstants ==
    /\ isolate \in Nat /\ Retention \in Nat /\ tolerance \in Nat
    /\ \A m \in Others \cup {Vessel} : Airtime[m] \in Nat \ {0} /\ Airtime[m] <= Retention
BY HubConstants, ChipConstants

----------------------------------------------------------------------------
(* The air.                                                                *)

\* judge, medium.rs: what shares no instant with a frame does not count.
LEMMA JudgeLocal ==
    ASSUME NEW target, NEW A, NEW B,
           {o \in A : overlaps(target, o)} = {o \in B : overlaps(target, o)}
    PROVE  judge(target, A) = judge(target, B)
<1>1. Interferers(target, A) = Interferers(target, B)
  BY DEF Interferers
<1> QED BY <1>1 DEF judge

LEMMA JudgeMore ==
    ASSUME NEW f, NEW G, NEW H, G \subseteq H,
           \A o \in H \ G : ~overlaps(At(f), At(o))
    PROVE  judge(At(f), {At(o) : o \in G}) = judge(At(f), {At(o) : o \in H})
<1>1. {o \in {At(g) : g \in G} : overlaps(At(f), o)} = {o \in {At(g) : g \in H} : overlaps(At(f), o)}
  OBVIOUS
<1> QED BY <1>1, JudgeLocal

LEMMA ApartInTime ==
    ASSUME NEW f \in AnyFrame, NEW o \in AnyFrame, o.start >= f.end \/ o.end <= f.start
    PROVE  ~overlaps(At(f), At(o))
<1>1. At(f).start = f.start /\ At(f).end = f.end /\ At(o).start = o.start /\ At(o).end = o.end
  BY DEF At
<1>2. f.start \in Nat /\ f.end \in Nat /\ o.start \in Nat /\ o.end \in Nat
  BY DEF AnyFrame
<1> QED BY <1>1, <1>2 DEF overlaps

LEMMA AirStays ==
    ASSUME AirInv, UNCHANGED <<clock, aired, channel, frames, verdicts, first_frame>>
    PROVE  AirInv'
<1>1. Settled' = Settled
  BY DEF Settled
<1>2. AirTypeOK' /\ NothingIsLost'
  BY <1>1 DEF AirInv, AirTypeOK, NothingIsLost
<1>3. JudgedAgainstAll'
  BY <1>1 DEF AirInv, JudgedAgainstAll, Reached
<1> QED BY <1>2, <1>3 DEF AirInv

\* A frame that starts now shares no instant with one that has ended.
LEMMA AirGrows ==
    ASSUME AirInv, NEW from \in Others \cup {Vessel}, Air(from),
           UNCHANGED <<clock, frames, verdicts, first_frame>>
    PROVE  AirInv'
<1> DEFINE new == Frame(from)
<1>1. /\ new \in AnyFrame /\ new.start = clock /\ new.end = clock + Airtime[from] /\ new.from = from
      /\ clock \in Nat
  BY TheConstants DEF Frame, AnyFrame, AirInv, AirTypeOK
<1>2. new \notin aired /\ aired' = aired \cup {new} /\ channel' = Append(channel, new)
  BY DEF Air
<1> HIDE DEF new
<1>3. Settled' = Settled
  BY DEF Settled
<1>4. /\ channel' \in Seq(AnyFrame) /\ Len(channel') = Len(channel) + 1 /\ Len(channel) \in Nat
      /\ \A i \in 1..Len(channel) : channel'[i] = channel[i]
      /\ channel'[Len(channel) + 1] = new
      /\ DOMAIN channel = 1..Len(channel) /\ DOMAIN channel' = 1..Len(channel')
  BY <1>1, <1>2 DEF AirInv, AirTypeOK
<1>5. /\ \A i \in DOMAIN channel' : channel'[i] = new \/ (i \in DOMAIN channel /\ channel'[i] = channel[i])
      /\ \A i \in DOMAIN channel : i \in DOMAIN channel' /\ channel'[i] = channel[i]
      /\ \E i \in DOMAIN channel' : channel'[i] = new
  BY <1>4
<1>6. IsFiniteSet(aired')
  BY <1>2, FS_AddElement DEF AirInv, AirTypeOK
<1>7. AirTypeOK'
  BY <1>1, <1>2, <1>3, <1>4, <1>5, <1>6 DEF AirInv, AirTypeOK
<1>8. NothingIsLost'
  BY <1>1, <1>2, <1>3, <1>5 DEF AirInv, NothingIsLost
<1>9. JudgedAgainstAll'
  <2> SUFFICES ASSUME NEW f \in Settled, f.from # Vessel, Reached(f, f.end)
               PROVE  verdicts[f] = judge(At(f), {At(o) : o \in {g \in aired' \ {f} : Reached(g, f.end)}})
    BY <1>3 DEF JudgedAgainstAll, Reached, AirInv
  <2>1. verdicts[f] = judge(At(f), {At(o) : o \in {g \in aired \ {f} : Reached(g, f.end)}})
    BY DEF AirInv, JudgedAgainstAll
  <2>2. f \in AnyFrame /\ f.end <= clock
    BY DEF AirInv, AirTypeOK, NothingIsLost
  <2>3. ~overlaps(At(f), At(new))
    BY <1>1, <2>2, ApartInTime DEF AnyFrame
  <2>4. /\ {g \in aired \ {f} : Reached(g, f.end)} \subseteq {g \in aired' \ {f} : Reached(g, f.end)}
        /\ \A o \in {g \in aired' \ {f} : Reached(g, f.end)} \ {g \in aired \ {f} : Reached(g, f.end)} : o = new
    BY <1>2
  <2> QED BY <2>1, <2>3, <2>4, JudgeMore
<1> QED BY <1>7, <1>8, <1>9 DEF AirInv

\* Time passes only when nothing waits to be looked at and nothing has ended.
LEMMA AirAges == AirInv /\ Tick => AirInv'
<1> SUFFICES ASSUME AirInv, Tick PROVE AirInv'
  OBVIOUS
<1>1. /\ clock' = clock + 1 /\ clock \in Nat
      /\ UNCHANGED <<aired, channel, frames, verdicts, first_frame>>
  BY DEF Tick, hubVars, AirInv, AirTypeOK
<1>2. Settled' = Settled
  BY <1>1 DEF Settled
<1>3. channel = <<>> /\ \A f \in frames : f.end <= clock => f \in Settled
  BY DEF Tick, Overdue
<1>4. AirTypeOK'
  BY <1>1, <1>2 DEF AirInv, AirTypeOK
<1>5. \A f \in aired : f.start \in Nat /\ f.end \in Nat
  BY DEF AirInv, AirTypeOK, AnyFrame
<1>6. NothingIsLost'
  BY <1>1, <1>2, <1>3, <1>4, <1>5, TheConstants DEF AirInv, AirTypeOK, NothingIsLost
<1>7. JudgedAgainstAll'
  BY <1>1, <1>2 DEF AirInv, JudgedAgainstAll, Reached
<1> QED BY <1>4, <1>6, <1>7 DEF AirInv

\* What the relay takes, knows, and settles at an instant.
LEMMA RelayTakes ==
    ASSUME AirInv, relay
    PROVE  /\ Known \subseteq aired /\ Ended \subseteq Known /\ Ended \cap Settled = {}
           /\ Settled' = Settled \cup Ended
           /\ \A f \in Ended : verdicts'[f] = fate(f, Known, First) /\ f.end = clock
           /\ \A f \in Settled : verdicts'[f] = verdicts[f]
           /\ frames' = {f \in Known : f \notin Settled \cup Ended \/ remembered(f)}
           /\ channel' \in Seq(AnyFrame)
           /\ \A i \in DOMAIN channel' : \E j \in DOMAIN channel : channel'[i] = channel[j]
           /\ \A i \in DOMAIN channel :
                channel[i] \in Known \/ \E j \in DOMAIN channel' : channel'[j] = channel[i]
<1>1. /\ verdicts' = [f \in Settled \cup Ended |-> IF f \in Ended THEN Decided[f] ELSE verdicts[f]]
      /\ frames' = {f \in Known : f \notin Settled \cup Ended \/ remembered(f)}
      /\ channel' = IF channel = <<>> THEN <<>> ELSE Tail(channel)
  BY DEF relay
<1>2. Ended \subseteq Known /\ Ended \cap Settled = {}
  BY DEF Ended
<1>3. Settled' = Settled \cup Ended
  BY <1>1 DEF Settled
<1>4. CASE channel = <<>>
  <2>1. Taken = {} /\ channel' = <<>> /\ DOMAIN channel = {} /\ DOMAIN channel' = {}
    BY <1>1, <1>4 DEF Taken
  <2>2. channel' \in Seq(AnyFrame)
    BY <1>1, <1>4 DEF AirInv, AirTypeOK
  <2>3. Known \subseteq aired /\ \A f \in Known : f \in frames
    BY <2>1 DEF Known, AirInv, AirTypeOK
  <2>4. \A f \in Ended : f.end = clock
    BY <1>2, <2>3 DEF Ended, AirInv, AirTypeOK, NothingIsLost, AnyFrame
  <2>5. \A f \in Ended : verdicts'[f] = fate(f, Known, First)
    BY <1>1 DEF Decided
  <2>6. \A f \in Settled : verdicts'[f] = verdicts[f]
    BY <1>1, <1>2
  <2> QED BY <1>1, <1>2, <1>3, <2>1, <2>2, <2>3, <2>4, <2>5, <2>6
<1>5. CASE channel # <<>>
  <2>1. /\ Taken = {channel[1]} /\ channel' = Tail(channel)
        /\ channel' \in Seq(AnyFrame) /\ Len(channel') = Len(channel) - 1 /\ Len(channel) \in Nat \ {0}
        /\ \A i \in 1..Len(channel') : channel'[i] = channel[i + 1]
        /\ DOMAIN channel = 1..Len(channel) /\ DOMAIN channel' = 1..Len(channel')
    BY <1>1, <1>5 DEF AirInv, AirTypeOK, Taken
  <2>2. 1 \in DOMAIN channel /\ channel[1] \in aired /\ channel[1].start = clock
    BY <2>1 DEF AirInv, AirTypeOK, NothingIsLost
  <2>3. Known \subseteq aired /\ \A f \in Known : f \in frames \/ f = channel[1]
    BY <2>1, <2>2 DEF Known, AirInv, AirTypeOK
  <2>4. channel[1].end >= clock
    BY <2>2, TheConstants DEF AirInv, AirTypeOK, NothingIsLost, AnyFrame
  <2>5. \A f \in Ended : f.end = clock
    BY <1>2, <2>3, <2>4 DEF Ended, AirInv, AirTypeOK, NothingIsLost, AnyFrame
  <2>6. \A f \in Ended : verdicts'[f] = fate(f, Known, First)
    BY <1>1 DEF Decided
  <2>7. \A f \in Settled : verdicts'[f] = verdicts[f]
    BY <1>1, <1>2
  <2>8. \A i \in DOMAIN channel' : \E j \in DOMAIN channel : channel'[i] = channel[j]
    BY <2>1
  <2>9. \A i \in DOMAIN channel : i = 1 \/ (i - 1 \in DOMAIN channel' /\ channel'[i - 1] = channel[i])
    BY <2>1
  <2>10. channel[1] \in Known
    BY <2>1 DEF Known
  <2> QED BY <1>1, <1>2, <1>3, <2>1, <2>3, <2>5, <2>6, <2>7, <2>8, <2>9, <2>10
<1> QED BY <1>4, <1>5

\* relay and settle, lcq-hub.rs: what the relay does not know of when it
\* settles a frame has yet to start, or was over before the frame began.
LEMMA RelayJudges == AirInv /\ relay => AirInv'
<1> SUFFICES ASSUME AirInv, relay PROVE AirInv'
  OBVIOUS
<1>1. UNCHANGED <<clock, aired>> /\ first_frame' = First /\ clock \in Nat
  BY DEF relay, AirInv, AirTypeOK
<1>2. \A f \in aired : /\ f \in AnyFrame /\ f.start \in Nat /\ f.end \in Nat
                       /\ f.from \in Others \cup {Vessel}
                       /\ f.end = f.start + Airtime[f.from] /\ f.start <= clock
                       /\ Airtime[f.from] <= Retention /\ Airtime[f.from] \in Nat \ {0}
  BY TheConstants DEF AirInv, AirTypeOK, NothingIsLost, AnyFrame
<1>3. AirTypeOK'
  BY <1>1, RelayTakes DEF AirInv, AirTypeOK
<1>4. NothingIsLost'
  <2>1. (\A f \in aired : f.end = f.start + Airtime[f.from] /\ f.start <= clock)'
    BY <1>1, <1>2
  <2>2. (\A f \in aired \ Settled : f \in frames \/ \E i \in DOMAIN channel : channel[i] = f)'
    <3> SUFFICES ASSUME NEW f \in aired, f \notin Settled \cup Ended
                 PROVE  f \in frames' \/ \E i \in DOMAIN channel' : channel'[i] = f
      BY <1>1, RelayTakes
    <3>1. f \in frames \/ \E i \in DOMAIN channel : channel[i] = f
      BY DEF AirInv, NothingIsLost
    <3>2. f \in Known => f \in frames'
      BY RelayTakes
    <3>3. frames \subseteq Known
      BY DEF Known
    <3> QED BY <3>1, <3>2, <3>3, RelayTakes
  <2>3. (\A i \in DOMAIN channel : channel[i].start = clock)'
    BY <1>1, RelayTakes DEF AirInv, NothingIsLost
  <2>4. (\A f \in frames \ Settled : f.end >= clock)'
    <3> SUFFICES ASSUME NEW f \in Known, f \notin Settled \cup Ended
                 PROVE  f.end >= clock
      BY <1>1, RelayTakes
    <3>1. ~(f.end <= clock) /\ f \in aired
      BY RelayTakes DEF Ended
    <3> QED BY <1>1, <1>2, <3>1
  <2>5. (\A f \in Settled : f.end <= clock /\ (f \in frames \/ f.end + Retention <= clock))'
    <3> SUFFICES ASSUME NEW f \in Settled \cup Ended
                 PROVE  f.end <= clock /\ (f \in frames' \/ f.end + Retention <= clock)
      BY <1>1, RelayTakes
    <3>1. f \in aired
      BY RelayTakes DEF AirInv, AirTypeOK
    <3>2. f.end <= clock /\ (f \in Known \/ f.end + Retention <= clock)
      BY <1>1, RelayTakes DEF AirInv, NothingIsLost, Known
    <3>3. remembered(f) \/ f.end + Retention <= clock
      BY <1>1, <1>2, <3>1, TheConstants DEF remembered
    <3> QED BY <3>2, <3>3, RelayTakes
  <2>6. first_frame' # {}
    BY <1>1 DEF First
  <2> QED BY <2>1, <2>2, <2>3, <2>4, <2>5, <2>6 DEF NothingIsLost
<1>5. JudgedAgainstAll'
  <2> SUFFICES ASSUME NEW f \in Settled', f.from # Vessel
               PROVE  verdicts'[f] = IF Reached(f, f.end)'
                        THEN judge(At(f), {At(o) : o \in {g \in aired \ {f} : Reached(g, f.end)'}})
                        ELSE "Unheard"
    BY <1>1 DEF JudgedAgainstAll
  <2>1. CASE f \in Settled
    <3>1. first_frame' = first_frame
      BY <1>1, <2>1 DEF First, AirInv, NothingIsLost
    <3>2. \A g : Reached(g, f.end)' = Reached(g, f.end)
      BY <3>1 DEF Reached
    <3>3. verdicts'[f] = verdicts[f]
      BY <2>1, RelayTakes
    <3> QED BY <2>1, <3>2, <3>3 DEF AirInv, JudgedAgainstAll
  <2>2. CASE f \in Ended
    <3>1. f \in Known /\ f \in aired /\ f.end = clock /\ verdicts'[f] = fate(f, Known, First)
      BY <2>2, RelayTakes
    <3>2. \A g : Reached(g, f.end)' = reaches(g.from, First)
      BY <1>1, <3>1 DEF Reached, reaches
    <3>3. ~reaches(f.from, First) => verdicts'[f] = "Unheard"
      BY <3>1 DEF fate
    <3> DEFINE G == {g \in Known \ {f} : reaches(g.from, First)}
               H == {g \in aired \ {f} : Reached(g, f.end)'}
    <3>4. reaches(f.from, First) => verdicts'[f] = judge(At(f), {At(o) : o \in G})
      BY <3>1 DEF fate
    <3>5. G \subseteq H
      BY <3>2, RelayTakes
    <3>6. \A o \in H \ G : o \in aired /\ o \notin Known
      BY <3>2
    <3>7. \A o \in aired : o \notin Known => o.start >= f.end \/ o.end <= f.start
      <4> SUFFICES ASSUME NEW o \in aired, o \notin Known
                   PROVE  o.start >= f.end \/ o.end <= f.start
        OBVIOUS
      <4>1. CASE o \in Settled
        <5>1. o.end + Retention <= clock
          BY <4>1 DEF AirInv, NothingIsLost, Known
        <5> QED BY <1>1, <1>2, <3>1, <5>1, TheConstants
      <4>2. CASE o \notin Settled
        <5>1. \E i \in DOMAIN channel : channel[i] = o
          BY <4>2 DEF AirInv, NothingIsLost, Known
        <5>2. o.start = clock
          BY <5>1 DEF AirInv, NothingIsLost
        <5> QED BY <1>1, <1>2, <3>1, <5>2
      <4> QED BY <4>1, <4>2
    <3> HIDE DEF G, H
    <3>8. \A o \in H \ G : ~overlaps(At(f), At(o))
      BY <1>2, <3>1, <3>6, <3>7, ApartInTime
    <3>9. judge(At(f), {At(o) : o \in G}) = judge(At(f), {At(o) : o \in H})
      BY <3>5, <3>8, JudgeMore
    <3> QED BY <3>2, <3>3, <3>4, <3>9 DEF H
  <2> QED BY <2>1, <2>2, RelayTakes
<1> QED BY <1>3, <1>4, <1>5 DEF AirInv

----------------------------------------------------------------------------
(* The driver thread and the chip, on steps that report nothing.           *)

\* What was told and what is to be told stays.
LEMMA ReportsStay ==
    ASSUME ReportsInv, UNCHANGED <<clock, verdicts, downlink, buffer, events>>,
           deaf_since' \in Nat, corrupted' \in BOOLEAN
    PROVE  ReportsInv'
<1>1. Settled' = Settled /\ Readings' = Readings
  BY DEF Settled, Readings
<1>2. RadioTypeOK'
  BY DEF ReportsInv, RadioTypeOK
<1>3. DeliveredOnce'
  BY <1>1 DEF ReportsInv, DeliveredOnce
<1>4. EventsAreWhole'
  BY <1>1 DEF ReportsInv, EventsAreWhole, Whole
<1>5. ReportedOnce' /\ WrecksAreTelemetry'
  BY <1>1 DEF ReportsInv, ReportedOnce, WrecksAreTelemetry
<1> QED BY <1>2, <1>3, <1>4, <1>5 DEF ReportsInv

\* The chip stays as it is, and the thread goes to a place that asks nothing of
\* it, or that it has looked for.
LEMMA ThreadMoves ==
    ASSUME RadioInv,
           UNCHANGED <<clock, verdicts, downlink, buffer, events, mode, irq_status, irq_mask,
                       rx_since, deaf_since>>,
           corrupted' \in BOOLEAN,
           pc' \in {"tx", "await", "txirq"} <=> pc \in {"tx", "await", "txirq"},
           pc' # "listen", pc # "clear",
           pc' \in {"flags", "result"} => "RxDone" \in irq_status,
           pc' = "result" => corrupted' = ("CrcErr" \in irq_status)
    PROVE  ReportsInv' /\ Modes' /\ BufferIsHeard'
<1>1. ReportsInv'
  BY ReportsStay DEF RadioInv, ReportsInv, RadioTypeOK
<1>2. BufferIsHeard'
  BY DEF RadioInv, BufferIsHeard, Whole, Readings, Settled
<1>3. Modes'
  BY DEF RadioInv, Modes, BufferIsHeard, ReportsInv, RadioTypeOK, Buffers
<1> QED BY <1>1, <1>2, <1>3

LEMMA ThreadSteps ==
    ASSUME RadioInv, wait_for_activity \/ service_process \/ service_flags \/ drain \/ await_irq
    PROVE  ReportsInv' /\ Modes' /\ BufferIsHeard'
<1>1. CASE wait_for_activity
  BY <1>1, ThreadMoves DEF wait_for_activity, hubVars, RadioInv, ReportsInv, RadioTypeOK
<1>2. CASE service_process
  BY <1>2, ThreadMoves DEF service_process, hubVars, chipVars, RadioInv, ReportsInv, RadioTypeOK
<1>3. CASE service_flags
  BY <1>3, ThreadMoves DEF service_flags, hubVars, chipVars, RadioInv, Modes
<1>4. CASE drain
  BY <1>4, ThreadMoves DEF drain, hubVars, chipVars, RadioInv, ReportsInv, RadioTypeOK
<1>5. CASE await_irq
  BY <1>5, ThreadMoves DEF await_irq, hubVars, RadioInv, ReportsInv, RadioTypeOK
<1> QED BY <1>1, <1>2, <1>3, <1>4, <1>5

\* Everything the chip and the thread look at stays.
LEMMA RadioStays ==
    ASSUME RadioInv,
           UNCHANGED <<clock, verdicts, downlink, buffer, events, mode, irq_status, irq_mask,
                       rx_since, deaf_since, pc, corrupted>>
    PROVE  ReportsInv' /\ Modes' /\ BufferIsHeard'
<1>1. ReportsInv'
  BY ReportsStay DEF RadioInv, ReportsInv, RadioTypeOK
<1>2. BufferIsHeard'
  BY DEF RadioInv, BufferIsHeard, Whole, Readings, Settled
<1>3. Modes'
  BY DEF RadioInv, Modes
<1> QED BY <1>1, <1>2, <1>3

\* The flags are taken away, and with them what they stood for.
LEMMA ClearSteps ==
    ASSUME RadioInv, service_clear \/ transmit_done
    PROVE  ReportsInv' /\ Modes' /\ BufferIsHeard'
<1>1. /\ irq_status' = {} /\ pc' \in {"drain", "listen", "await"}
      /\ pc' # "drain" => pc = "txirq"
      /\ UNCHANGED <<clock, verdicts, downlink, buffer, events, mode, irq_mask, rx_since, deaf_since,
                     corrupted>>
  BY DEF service_clear, transmit_done, clear_irq, hubVars
<1>2. ReportsInv'
  BY <1>1, ReportsStay DEF RadioInv, ReportsInv, RadioTypeOK
<1>3. BufferIsHeard'
  BY <1>1 DEF BufferIsHeard
<1>4. Modes'
  BY <1>1 DEF RadioInv, Modes
<1> QED BY <1>2, <1>3, <1>4

\* SetTx: no frame is heard from here on.
LEMMA StartStep ==
    ASSUME RadioInv, transmit_start
    PROVE  ReportsInv' /\ Modes' /\ BufferIsHeard'
<1>1. /\ mode' = "Transmit" /\ pc = "tx" /\ pc' = "await" /\ deaf_since' = clock /\ clock \in Nat
      /\ UNCHANGED <<clock, verdicts, downlink, buffer, events, irq_status, irq_mask, corrupted>>
  BY DEF transmit_start, begin_transmit, set_mode, hubVars, RadioInv, AirInv, AirTypeOK
<1>2. ReportsInv'
  BY <1>1, ReportsStay DEF RadioInv, ReportsInv, RadioTypeOK
<1>3. BufferIsHeard'
  BY <1>1 DEF BufferIsHeard
<1>4. Modes'
  BY <1>1 DEF RadioInv, Modes
<1> QED BY <1>2, <1>3, <1>4

\* SetRx: no flag of an earlier reception is up.
LEMMA ListenStep ==
    ASSUME RadioInv, listen
    PROVE  ReportsInv' /\ Modes' /\ BufferIsHeard'
<1>1. /\ mode' = "Receive" /\ pc = "listen" /\ pc' = "drain" /\ irq_mask' = RX_FLAGS
      /\ deaf_since' = clock /\ rx_since' = {clock} /\ clock \in Nat
      /\ UNCHANGED <<clock, verdicts, downlink, buffer, events, irq_status, corrupted>>
  BY DEF listen, begin_receive, set_mode, hubVars, RadioInv, AirInv, AirTypeOK
<1>2. ReportsInv'
  BY <1>1, ReportsStay DEF RadioInv, ReportsInv, RadioTypeOK
<1>3. BufferIsHeard'
  BY <1>1 DEF RadioInv, Modes, BufferIsHeard
<1>4. Modes'
  BY <1>1 DEF RadioInv, Modes
<1> QED BY <1>2, <1>3, <1>4

\* A timer raises nothing but TxDone.
LEMMA FireStep ==
    ASSUME RadioInv, timer_fires
    PROVE  ReportsInv' /\ Modes' /\ BufferIsHeard'
<1>1. UNCHANGED <<clock, verdicts, downlink, buffer, events, irq_mask, pc, corrupted>>
  BY DEF timer_fires, fire, hubVars, radioVars
<1>2. CASE UNCHANGED <<mode, rx_since, deaf_since, irq_status>>
  BY <1>1, <1>2, RadioStays
<1>3. CASE set_mode("StandbyRc") /\ raise({"TxDone"})
  <2>1. /\ mode' = "StandbyRc" /\ deaf_since' = clock /\ clock \in Nat
        /\ "RxDone" \in irq_status' <=> "RxDone" \in irq_status
        /\ "CrcErr" \in irq_status' <=> "CrcErr" \in irq_status
    BY <1>3 DEF set_mode, raise, RadioInv, AirInv, AirTypeOK
  <2>2. ReportsInv'
    BY <1>1, <2>1, ReportsStay DEF RadioInv, ReportsInv, RadioTypeOK
  <2>3. BufferIsHeard'
    BY <1>1, <2>1 DEF RadioInv, BufferIsHeard, Whole, Readings, Settled
  <2>4. Modes'
    BY <1>1, <2>1 DEF RadioInv, Modes
  <2> QED BY <2>2, <2>3, <2>4
<1> QED BY <1>2, <1>3 DEF timer_fires, fire

----------------------------------------------------------------------------
(* Reports.                                                                *)

\* The node is told of one thing more.
LEMMA OneMore ==
    ASSUME ReportsInv, NEW event \in Events, events' = Append(events, event)
    PROVE  /\ events' \in Seq(Events) /\ DOMAIN events \subseteq DOMAIN events'
           /\ \A i \in DOMAIN events : events'[i] = events[i]
           /\ \A i \in DOMAIN events' : i \in DOMAIN events \/ (i = Len(events) + 1 /\ events'[i] = event)
           /\ \A i \in Readings' : i \in Readings \/ (/\ i = Len(events) + 1 /\ events'[i] = event
                                                     /\ event.kind \in {"Received", "CrcError"})
<1>1. /\ events' \in Seq(Events) /\ Len(events') = Len(events) + 1 /\ Len(events) \in Nat
      /\ \A i \in 1..Len(events) : events'[i] = events[i]
      /\ events'[Len(events) + 1] = event
      /\ DOMAIN events = 1..Len(events) /\ DOMAIN events' = 1..Len(events')
  BY DEF ReportsInv, RadioTypeOK
<1>2. \A i \in DOMAIN events' : i \in DOMAIN events \/ (i = Len(events) + 1 /\ events'[i] = event)
  BY <1>1
<1>3. DOMAIN events \subseteq DOMAIN events'
  BY <1>1
<1> QED BY <1>1, <1>2, <1>3 DEF Readings

LEMMA ReportTypes ==
    ASSUME RadioInv, NEW kind \in {"Received", "CrcError", "HeaderError"}
    PROVE  /\ Report(kind) \in Events /\ Report(kind).kind = kind
           /\ Report(kind).frame = buffer.frame /\ Report(kind).intact = buffer.intact
           /\ Report(kind).since = buffer.since /\ Report(kind).alone = buffer.alone
<1>1. /\ buffer.frame \in SUBSET AnyFrame /\ buffer.intact \in BOOLEAN
      /\ buffer.since \in Nat /\ buffer.alone \in BOOLEAN
  BY DEF RadioInv, ReportsInv, RadioTypeOK, Buffers
<1> QED BY <1>1 DEF Report, Events

\* get_rx_result: the frame in the buffer is reported, and its flags are
\* still to be cleared.
LEMMA ResultStep ==
    ASSUME RadioInv, service_result
    PROVE  ReportsInv' /\ Modes' /\ BufferIsHeard'
<1> DEFINE kind == IF corrupted THEN "CrcError" ELSE "Received"
           event == Report(kind)
<1>1. /\ pc = "result" /\ pc' = "clear" /\ events' = Append(events, event)
      /\ UNCHANGED <<clock, verdicts, downlink, buffer, mode, irq_status, irq_mask, rx_since,
                     deaf_since, corrupted>>
  BY DEF service_result, hubVars, chipVars
<1>2. kind \in {"Received", "CrcError", "HeaderError"} /\ (kind = "Received" <=> ~corrupted)
  OBVIOUS
<1> HIDE DEF kind
<1>3. /\ event \in Events /\ event.kind = kind /\ event.frame = buffer.frame
      /\ event.intact = buffer.intact /\ event.since = buffer.since /\ event.alone = buffer.alone
  BY <1>2, ReportTypes
<1> HIDE DEF event
<1>4. ReportsInv
  BY DEF RadioInv
<1>5. "RxDone" \in irq_status
  BY <1>1 DEF RadioInv, Modes
<1>6. /\ Whole(buffer)
      /\ \A i \in Readings : events[i].frame # buffer.frame
  BY <1>1, <1>5 DEF RadioInv, BufferIsHeard
<1>7. buffer.alone => corrupted = ~buffer.intact
  BY <1>1 DEF RadioInv, Modes
<1>8. /\ events' \in Seq(Events)
      /\ \A i \in DOMAIN events : events'[i] = events[i]
      /\ Readings \subseteq DOMAIN events
      /\ \A i \in Readings' : i \in Readings \/ (i = Len(events) + 1 /\ events'[i] = event)
  BY <1>1, <1>3, <1>4, OneMore DEF Readings
<1>9. RadioTypeOK'
  BY <1>1, <1>4, <1>8 DEF ReportsInv, RadioTypeOK
<1>10. Settled' = Settled
  BY <1>1 DEF Settled
<1>11. DeliveredOnce'
  BY <1>1, <1>3, <1>4, <1>8, <1>10 DEF ReportsInv, DeliveredOnce
<1>12. Whole(event)
  BY <1>3, <1>6 DEF Whole
<1>13. EventsAreWhole'
  BY <1>4, <1>8, <1>10, <1>12 DEF ReportsInv, EventsAreWhole, Whole
<1>14. ReportedOnce'
  <2>1. \A f \in event.frame : f.from # Vessel
    BY <1>12 DEF Whole
  <2>2. \A i \in Readings' : \A f \in events'[i].frame : f.from # Vessel
    BY <1>4, <1>8, <2>1 DEF ReportsInv, ReportedOnce
  <2>3. \A i, j \in Readings' : i # j => events'[i].frame # events'[j].frame
    BY <1>3, <1>4, <1>6, <1>8 DEF ReportsInv, ReportedOnce
  <2> QED BY <2>2, <2>3 DEF ReportedOnce
<1>15. WrecksAreTelemetry'
  <2>1. corrupted \in BOOLEAN /\ buffer.intact \in BOOLEAN
    BY <1>4 DEF ReportsInv, RadioTypeOK, Buffers
  <2>2. event.alone => event.intact = (event.kind = "Received")
    BY <1>2, <1>3, <1>7, <2>1
  <2> QED BY <1>4, <1>8, <2>2 DEF ReportsInv, WrecksAreTelemetry
<1>16. Modes'
  BY <1>1 DEF RadioInv, Modes
<1>17. BufferIsHeard'
  BY <1>1, <1>10 DEF RadioInv, BufferIsHeard, Whole
<1> QED BY <1>9, <1>11, <1>13, <1>14, <1>15, <1>16, <1>17 DEF ReportsInv

\* A header error is reported; it is no reading.
LEMMA HeaderStep ==
    ASSUME RadioInv, service_header
    PROVE  ReportsInv' /\ Modes' /\ BufferIsHeard'
<1> DEFINE event == [Report("HeaderError") EXCEPT !.frame = {}]
<1>1. /\ pc = "header" /\ pc' = "clear" /\ (UNCHANGED events \/ events' = Append(events, event))
      /\ UNCHANGED <<clock, verdicts, downlink, buffer, mode, irq_status, irq_mask, rx_since,
                     deaf_since, corrupted>>
  BY DEF service_header, hubVars, chipVars
<1>2. event \in Events /\ event.kind = "HeaderError"
  <2>1. Report("HeaderError") \in Events /\ Report("HeaderError").kind = "HeaderError"
    BY ReportTypes
  <2> DEFINE none == {}
  <2>2. none \in SUBSET AnyFrame
    OBVIOUS
  <2>3. event = [Report("HeaderError") EXCEPT !.frame = none]
    OBVIOUS
  <2> HIDE DEF none, event
  <2> QED BY <2>1, <2>2, <2>3 DEF Events
<1> HIDE DEF event
<1>3. ReportsInv
  BY DEF RadioInv
<1>4. Modes'
  BY <1>1 DEF RadioInv, Modes
<1>5. CASE UNCHANGED events
  <2>1. ReportsInv'
    BY <1>1, <1>3, <1>5, ReportsStay DEF ReportsInv, RadioTypeOK
  <2>2. BufferIsHeard'
    BY <1>1, <1>5 DEF RadioInv, BufferIsHeard, Whole, Readings, Settled
  <2> QED BY <1>4, <2>1, <2>2
<1>6. CASE events' = Append(events, event)
  <2>1. /\ events' \in Seq(Events)
        /\ \A i \in Readings' : i \in Readings /\ events'[i] = events[i]
    BY <1>2, <1>3, <1>6, OneMore DEF Readings
  <2>2. RadioTypeOK'
    BY <1>1, <1>3, <2>1 DEF ReportsInv, RadioTypeOK
  <2>3. Settled' = Settled
    BY <1>1 DEF Settled
  <2>4. DeliveredOnce'
    BY <1>1, <1>3, <2>1, <2>3 DEF ReportsInv, DeliveredOnce
  <2>5. EventsAreWhole'
    BY <1>3, <2>1, <2>3 DEF ReportsInv, EventsAreWhole, Whole
  <2>6. ReportedOnce' /\ WrecksAreTelemetry'
    BY <1>3, <2>1 DEF ReportsInv, ReportedOnce, WrecksAreTelemetry
  <2>7. BufferIsHeard'
    BY <1>1, <2>3 DEF RadioInv, BufferIsHeard, Whole
  <2> QED BY <1>4, <2>2, <2>4, <2>5, <2>6, <2>7 DEF ReportsInv
<1> QED BY <1>1, <1>5, <1>6

\* WriteBuffer: the vessel's own frame is in the buffer.
LEMMA PrepareStep ==
    ASSUME RadioInv, transmit_prepare
    PROVE  ReportsInv' /\ Modes' /\ BufferIsHeard'
<1> DEFINE own == Frame(Vessel)
           yes == TRUE
<1>1. /\ mode' = "StandbyRc" /\ pc' = "tx" /\ deaf_since' = clock /\ clock \in Nat
      /\ buffer' = [frame |-> {own}, intact |-> yes, since |-> clock, alone |-> yes]
      /\ UNCHANGED <<clock, verdicts, downlink, events, irq_status, corrupted>>
  BY DEF transmit_prepare, prepare_tx, set_mode, hubVars, RadioInv, AirInv, AirTypeOK
<1>2. yes \in BOOLEAN
  OBVIOUS
<1>3. own \in AnyFrame /\ own.from = Vessel
  BY <1>1, TheConstants DEF Frame, AnyFrame
<1> HIDE DEF own, yes
<1>4. {own} \in SUBSET AnyFrame
  BY <1>3
<1>5. buffer' \in Buffers /\ buffer'.frame = {own}
  BY <1>1, <1>2, <1>4 DEF Buffers
<1>6. ReportsInv
  BY DEF RadioInv
<1>7. Settled' = Settled /\ Readings' = Readings
  BY <1>1 DEF Settled, Readings
<1>8. RadioTypeOK'
  BY <1>1, <1>5, <1>6 DEF ReportsInv, RadioTypeOK
<1>9. DeliveredOnce'
  BY <1>1, <1>3, <1>5, <1>6, <1>7 DEF ReportsInv, DeliveredOnce
<1>10. EventsAreWhole' /\ ReportedOnce' /\ WrecksAreTelemetry'
  BY <1>1, <1>6, <1>7 DEF ReportsInv, EventsAreWhole, Whole, ReportedOnce, WrecksAreTelemetry
<1>11. Modes'
  BY <1>1 DEF RadioInv, Modes
<1>12. BufferIsHeard'
  BY <1>1 DEF BufferIsHeard
<1> QED BY <1>8, <1>9, <1>10, <1>11, <1>12 DEF ReportsInv

\* The chip takes the first message of the hub; the rest is still to come.
LEMMA FirstMessage ==
    ASSUME RadioInv, downlink # <<>>, downlink' = Tail(downlink)
    PROVE  /\ Head(downlink) = downlink[1] /\ Head(downlink) \in {Preamble} \cup Deliveries
           /\ 1 \in DOMAIN downlink
           /\ downlink' \in Seq({Preamble} \cup Deliveries)
           /\ \A i \in DOMAIN downlink' :
                i + 1 \in DOMAIN downlink /\ i + 1 # 1 /\ downlink'[i] = downlink[i + 1] /\ i \in Nat
<1>1. downlink \in Seq({Preamble} \cup Deliveries)
  BY DEF RadioInv, ReportsInv, RadioTypeOK
<1> DEFINE S == {Preamble} \cup Deliveries
<1> HIDE DEF S
<1>2. downlink \in Seq(S)
  BY <1>1 DEF S
<1>3. /\ Head(downlink) = downlink[1] /\ Head(downlink) \in S
      /\ downlink' \in Seq(S) /\ Len(downlink') = Len(downlink) - 1 /\ Len(downlink) \in Nat \ {0}
      /\ \A i \in 1..Len(downlink') : downlink'[i] = downlink[i + 1]
      /\ DOMAIN downlink = 1..Len(downlink) /\ DOMAIN downlink' = 1..Len(downlink')
  BY <1>2
<1>4. 1 \in DOMAIN downlink /\ \A i \in DOMAIN downlink' :
          i + 1 \in DOMAIN downlink /\ i + 1 # 1 /\ downlink'[i] = downlink[i + 1] /\ i \in Nat
  BY <1>3
<1> QED BY <1>3, <1>4 DEF S

\* A message that leaves the buffer as it was.
LEMMA MessagePasses ==
    ASSUME RadioInv, downlink # <<>>, downlink' = Tail(downlink),
           UNCHANGED <<clock, verdicts, buffer, events, deaf_since, corrupted>>
    PROVE  ReportsInv'
<1>1. ReportsInv
  BY DEF RadioInv
<1>2. Settled' = Settled /\ Readings' = Readings
  BY DEF Settled, Readings
<1>3. RadioTypeOK'
  BY <1>1, FirstMessage DEF ReportsInv, RadioTypeOK
<1>4. DeliveredOnce'
  BY <1>1, <1>2, FirstMessage DEF ReportsInv, DeliveredOnce
<1>5. EventsAreWhole' /\ ReportedOnce' /\ WrecksAreTelemetry'
  BY <1>1, <1>2 DEF ReportsInv, EventsAreWhole, Whole, ReportedOnce, WrecksAreTelemetry
<1> QED BY <1>3, <1>4, <1>5 DEF ReportsInv

\* The medium thread, chip.rs: a chip that has been receiving long enough has
\* the frame, which it was not told of before; unless the frame before it was
\* still unread, CrcErr is this frame's own.
LEMMA DeliverStep ==
    ASSUME RadioInv, chip_hears
    PROVE  ReportsInv' /\ Modes' /\ BufferIsHeard'
<1> DEFINE message == Head(downlink)
<1>1. /\ downlink # <<>> /\ downlink' = Tail(downlink)
      /\ UNCHANGED <<clock, verdicts, events, mode, irq_mask, rx_since, deaf_since, pc, corrupted>>
  BY DEF chip_hears, deliver, radioVars
<1>2. CASE UNCHANGED <<irq_status, buffer>>
  <2>1. ReportsInv'
    BY <1>1, <1>2, MessagePasses
  <2>2. BufferIsHeard'
    BY <1>1, <1>2 DEF RadioInv, BufferIsHeard, Whole, Readings, Settled
  <2>3. Modes'
    BY <1>1, <1>2 DEF RadioInv, Modes
  <2> QED BY <2>1, <2>2, <2>3
<1>3. CASE raise({"Preamble", "HeaderErr"}) /\ UNCHANGED buffer
  <2>1. ReportsInv'
    BY <1>1, <1>3, MessagePasses
  <2>2. /\ "RxDone" \in irq_status' <=> "RxDone" \in irq_status
        /\ "CrcErr" \in irq_status' <=> "CrcErr" \in irq_status
    BY <1>3 DEF raise
  <2>3. BufferIsHeard'
    BY <1>1, <1>3, <2>2 DEF RadioInv, BufferIsHeard, Whole, Readings, Settled
  <2>4. Modes'
    BY <1>1, <1>3, <2>2 DEF RadioInv, Modes
  <2> QED BY <2>1, <2>3, <2>4
<1>4. CASE /\ message.kind # "preamble" /\ listening(message)
           /\ buffer' = [frame |-> {message.frame}, intact |-> message.verdict = "Decoded",
                         since |-> deaf_since, alone |-> "RxDone" \notin irq_status]
           /\ raise({"Preamble", "RxDone"}
                        \cup (IF message.verdict = "Decoded" THEN {} ELSE {"CrcErr"}))
  <2> DEFINE f == message.frame
             good == (message.verdict = "Decoded")
             only == ("RxDone" \notin irq_status)
  <2>1. message \in Deliveries /\ message = downlink[1] /\ 1 \in DOMAIN downlink
    BY <1>1, <1>4, FirstMessage DEF Preamble
  <2>2. message.kind = "delivery" /\ f \in AnyFrame
    BY <2>1 DEF Deliveries
  <2>3. good \in BOOLEAN /\ only \in BOOLEAN /\ deaf_since \in Nat
    BY DEF RadioInv, ReportsInv, RadioTypeOK
  <2>4. buffer' = [frame |-> {f}, intact |-> good, since |-> deaf_since, alone |-> only]
    BY <1>4
  <2>5. mode = "Receive" /\ deaf_since <= (clock - Airtime[f.from]) + tolerance
        /\ irq_mask = RX_FLAGS
    BY <1>4 DEF listening, RadioInv, Modes
  <2>6. /\ "RxDone" \in irq_status'
        /\ ("CrcErr" \in irq_status') <=> ("CrcErr" \in irq_status \/ ~good)
    BY <1>4, <2>5 DEF raise, RX_FLAGS
  <2>7. /\ f \in Settled /\ f.from # Vessel /\ f.end = clock
        /\ \A j \in DOMAIN downlink : (downlink[j].kind = "delivery" /\ j # 1) => downlink[j].frame # f
        /\ \A j \in Readings : f \notin events[j].frame
    BY <2>1, <2>2 DEF RadioInv, ReportsInv, DeliveredOnce
  <2>8. f.end = f.start + Airtime[f.from] /\ f.start \in Nat /\ Airtime[f.from] \in Nat
    BY <2>2, <2>7, TheConstants DEF RadioInv, AirInv, AirTypeOK, NothingIsLost, AnyFrame
  <2> HIDE DEF good, only, f, message
  <2>9. /\ buffer' \in Buffers /\ buffer'.frame = {f} /\ buffer'.intact = good
        /\ buffer'.since = deaf_since /\ buffer'.alone = only
    <3>1. {f} \in SUBSET AnyFrame
      BY <2>2
    <3> QED BY <2>3, <2>4, <3>1 DEF Buffers
  <2>10. buffer'.since <= f.start + tolerance
    BY <2>3, <2>5, <2>7, <2>8, <2>9, TheConstants
  <2>11. ReportsInv
    BY DEF RadioInv
  <2>12. Settled' = Settled /\ Readings' = Readings
    BY <1>1 DEF Settled, Readings
  <2>13. RadioTypeOK'
    BY <1>1, <2>9, <2>11, FirstMessage DEF ReportsInv, RadioTypeOK
  <2>14. DeliveredOnce'
    BY <1>1, <2>7, <2>9, <2>11, <2>12, FirstMessage DEF ReportsInv, DeliveredOnce
  <2>15. EventsAreWhole' /\ ReportedOnce' /\ WrecksAreTelemetry'
    BY <1>1, <2>11, <2>12 DEF ReportsInv, EventsAreWhole, Whole, ReportedOnce, WrecksAreTelemetry
  <2>16. Modes'
    BY <1>1, <2>5, <2>6, <2>9 DEF RadioInv, Modes, only
  <2>17. BufferIsHeard'
    <3>1. Whole(buffer)'
      BY <2>7, <2>9, <2>10, <2>12 DEF Whole
    <3>2. buffer'.alone => ("CrcErr" \in irq_status' <=> ~buffer'.intact)
      <4>1. only => "CrcErr" \notin irq_status
        BY DEF RadioInv, Modes, only
      <4> QED BY <2>6, <2>9, <4>1
    <3>3. \A i \in Readings' : events'[i].frame # buffer'.frame
      BY <1>1, <2>7, <2>9, <2>12
    <3> QED BY <3>1, <3>2, <3>3 DEF BufferIsHeard
  <2> QED BY <2>13, <2>14, <2>15, <2>16, <2>17 DEF ReportsInv
<1> QED BY <1>2, <1>3, <1>4 DEF chip_hears, deliver

LEMMA OneAfterTheOther ==
    ASSUME NEW S, NEW s \in Seq(S), NEW t \in Seq(S)
    PROVE  /\ s \o t \in Seq(S) /\ Len(s) \in Nat /\ Len(t) \in Nat /\ Len(s \o t) = Len(s) + Len(t)
           /\ DOMAIN s = 1..Len(s) /\ DOMAIN t = 1..Len(t) /\ DOMAIN (s \o t) = 1..(Len(s) + Len(t))
           /\ \A i \in 1..Len(s) : (s \o t)[i] = s[i]
           /\ \A i \in 1..Len(t) : (s \o t)[Len(s) + i] = t[i]
           /\ \A i \in DOMAIN (s \o t) : i \in DOMAIN s \/ \E j \in DOMAIN t : i = Len(s) + j
<1>1. /\ s \o t \in Seq(S) /\ Len(s) \in Nat /\ Len(t) \in Nat /\ Len(s \o t) = Len(s) + Len(t)
      /\ DOMAIN s = 1..Len(s) /\ DOMAIN t = 1..Len(t) /\ DOMAIN (s \o t) = 1..(Len(s) + Len(t))
  OBVIOUS
<1>2. \A i \in 1..Len(s) : (s \o t)[i] = s[i]
  OBVIOUS
<1>3. \A i \in 1..Len(t) : (s \o t)[Len(s) + i] = t[i]
  OBVIOUS
<1>4. ASSUME NEW i \in DOMAIN (s \o t), i \notin DOMAIN s
      PROVE  \E j \in DOMAIN t : i = Len(s) + j
  <2>1. i - Len(s) \in DOMAIN t /\ i = Len(s) + (i - Len(s))
    BY <1>1, <1>4
  <2> QED BY <2>1
<1> QED BY <1>1, <1>2, <1>3, <1>4

\* What the relay tells the vessel: a frame of somebody else that it settles
\* in this turn, each once.
LEMMA RelayTells ==
    ASSUME RadioInv, relay
    PROVE  /\ downlink' \in Seq({Preamble} \cup Deliveries)
           /\ DOMAIN downlink \subseteq DOMAIN downlink'
           /\ \A i \in DOMAIN downlink : downlink'[i] = downlink[i]
           /\ \A i \in DOMAIN downlink' \ DOMAIN downlink : downlink'[i].kind = "delivery" =>
                /\ downlink'[i].frame \in Ended /\ downlink'[i].frame.from # Vessel
                /\ \A j \in DOMAIN downlink' \ DOMAIN downlink :
                     (downlink'[j].kind = "delivery" /\ i # j) => downlink'[j].frame # downlink'[i].frame
<1>1. PICK lost, told :
        told \in SetToSeqs(Heard \ lost) /\ downlink' = downlink \o Messages(told)
  BY DEF relay
<1>2. Ended \subseteq aired /\ IsFiniteSet(aired) /\ aired \subseteq AnyFrame
  BY RelayTakes DEF RadioInv, AirInv, AirTypeOK
<1>3. \A f \in Heard : /\ f \in Ended /\ Decided[f] \in Verdicts /\ f.from # Vessel
  BY DEF Heard, Verdicts, Decided, fate
<1> DEFINE n == Cardinality(Heard \ lost)
<1>4. n \in Nat
  <2>1. Heard \ lost \subseteq aired
    BY <1>2, <1>3
  <2>2. IsFiniteSet(Heard \ lost)
    BY <1>2, <2>1, FS_Subset
  <2> QED BY <2>2, FS_CardinalityType
<1>5. told \in [1..n -> Heard \ lost] /\ \A i, j \in 1..n : i # j => told[i] # told[j]
  BY <1>1 DEF SetToSeqs
<1> HIDE DEF n
<1> DEFINE item(i) == Delivery(told[i], Decided[told[i]])
           news == [i \in DOMAIN told |-> item(i)]
           pre == IF Noticed = {} THEN <<>> ELSE <<Preamble>>
           S == {Preamble} \cup Deliveries
<1>6. DOMAIN told = 1..n /\ \A i \in 1..n : told[i] \in Heard
  BY <1>5
<1>7. \A i \in 1..n : /\ item(i) \in Deliveries /\ item(i).kind = "delivery"
                      /\ item(i).frame = told[i]
  <2>1. \A i \in 1..n : told[i] \in AnyFrame /\ Decided[told[i]] \in Verdicts
    BY <1>2, <1>3, <1>6
  <2> QED BY <2>1 DEF Delivery, Deliveries
<1>8. Messages(told) = pre \o news
  BY DEF Messages
<1> HIDE DEF item
<1>9. news \in [1..n -> S] /\ \A i \in 1..n : news[i] = item(i)
  BY <1>6, <1>7
<1>10. Preamble \in S /\ Preamble.kind = "preamble"
  BY DEF Preamble
<1> HIDE DEF S, news
<1>11. news \in Seq(S) /\ Len(news) = n
  BY <1>4, <1>9
<1>12. pre \in Seq(S) /\ (\A i \in 1..Len(pre) : pre[i].kind = "preamble") /\ Len(pre) \in Nat
  <2>1. CASE Noticed = {}
    BY <2>1
  <2>2. CASE Noticed # {}
    BY <1>10, <2>2
  <2> QED BY <2>1, <2>2
<1> HIDE DEF pre
<1>13. downlink \in Seq(S)
  BY DEF S, RadioInv, ReportsInv, RadioTypeOK
<1> DEFINE said == Messages(told)
<1>14. /\ said \in Seq(S)
       /\ \A i \in DOMAIN said : \/ said[i].kind = "preamble"
                                 \/ i - Len(pre) \in 1..n /\ said[i] = news[i - Len(pre)]
  <2>1. /\ said \in Seq(S) /\ DOMAIN pre = 1..Len(pre) /\ Len(pre) \in Nat /\ DOMAIN news = 1..n
        /\ \A i \in 1..Len(pre) : said[i] = pre[i]
        /\ \A i \in 1..n : said[Len(pre) + i] = news[i]
        /\ \A i \in DOMAIN said : i \in DOMAIN pre \/ \E j \in DOMAIN news : i = Len(pre) + j
    <3>1. said = pre \o news
      BY <1>8
    <3> HIDE DEF said
    <3>2. /\ pre \o news \in Seq(S) /\ DOMAIN pre = 1..Len(pre) /\ Len(pre) \in Nat
          /\ DOMAIN news = 1..Len(news)
          /\ \A i \in 1..Len(pre) : (pre \o news)[i] = pre[i]
          /\ \A i \in 1..Len(news) : (pre \o news)[Len(pre) + i] = news[i]
          /\ \A i \in DOMAIN (pre \o news) : i \in DOMAIN pre \/ \E j \in DOMAIN news : i = Len(pre) + j
      <4>1. pre \in Seq(S) /\ news \in Seq(S)
        BY <1>11, <1>12
      <4> QED BY <4>1, OneAfterTheOther
    <3> QED BY <1>11, <3>1, <3>2, Zenon
  <2>2. \A j \in DOMAIN news : (Len(pre) + j) - Len(pre) = j /\ said[Len(pre) + j] = news[j]
    BY <2>1, <1>4
  <2> HIDE DEF said
  <2> QED BY <1>12, <2>1, <2>2
<1> HIDE DEF said
<1>15. downlink' = downlink \o said
  BY <1>1 DEF said
<1>16. /\ downlink' \in Seq(S) /\ Len(downlink) \in Nat
       /\ DOMAIN downlink \subseteq DOMAIN downlink'
       /\ \A i \in DOMAIN downlink : downlink'[i] = downlink[i]
       /\ \A i \in DOMAIN downlink' \ DOMAIN downlink :
            i - Len(downlink) \in DOMAIN said /\ downlink'[i] = said[i - Len(downlink)] /\ i \in Nat
  <2>1. /\ downlink' \in Seq(S) /\ Len(downlink) \in Nat /\ Len(said) \in Nat
        /\ DOMAIN downlink = 1..Len(downlink) /\ DOMAIN said = 1..Len(said)
        /\ DOMAIN downlink' = 1..(Len(downlink) + Len(said))
        /\ \A i \in 1..Len(downlink) : downlink'[i] = downlink[i]
        /\ \A i \in 1..Len(said) : downlink'[Len(downlink) + i] = said[i]
        /\ \A i \in DOMAIN downlink' : i \in DOMAIN downlink \/ \E j \in DOMAIN said : i = Len(downlink) + j
    BY <1>13, <1>14, <1>15, OneAfterTheOther
  <2>2. \A j \in DOMAIN said : /\ (Len(downlink) + j) - Len(downlink) = j /\ Len(downlink) + j \in Nat
                               /\ downlink'[Len(downlink) + j] = said[j]
    BY <2>1
  <2>3. DOMAIN downlink \subseteq DOMAIN downlink'
    BY <2>1
  <2> QED BY <2>1, <2>2, <2>3
<1> DEFINE place(i) == (i - Len(downlink)) - Len(pre)
<1>17. \A i \in DOMAIN downlink' \ DOMAIN downlink : downlink'[i].kind = "delivery" =>
          place(i) \in 1..n /\ downlink'[i].frame = told[place(i)]
  BY <1>7, <1>9, <1>14, <1>16
<1>18. \A i, j \in DOMAIN downlink' \ DOMAIN downlink : place(i) = place(j) => i = j
  BY <1>12, <1>16
<1> HIDE DEF place
<1>19. ASSUME NEW i \in DOMAIN downlink' \ DOMAIN downlink, downlink'[i].kind = "delivery"
       PROVE  /\ downlink'[i].frame \in Ended /\ downlink'[i].frame.from # Vessel
              /\ \A j \in DOMAIN downlink' \ DOMAIN downlink :
                   (downlink'[j].kind = "delivery" /\ i # j) => downlink'[j].frame # downlink'[i].frame
  BY <1>3, <1>5, <1>6, <1>17, <1>18, <1>19
<1> QED BY <1>16, <1>19 DEF S

LEMMA RelayStep ==
    ASSUME RadioInv, hub_relays
    PROVE  ReportsInv' /\ Modes' /\ BufferIsHeard'
<1>1. /\ relay
      /\ UNCHANGED <<clock, buffer, events, mode, irq_status, irq_mask, rx_since, deaf_since, pc, corrupted>>
  BY DEF hub_relays, relay, chipVars, radioVars
<1>2. /\ Settled \subseteq Settled' /\ Ended \subseteq Settled' /\ Ended \cap Settled = {}
      /\ \A f \in Ended : f.end = clock
  BY <1>1, RelayTakes DEF RadioInv
<1>3. Readings' = Readings /\ ReportsInv
  BY <1>1 DEF Readings, RadioInv
<1>4. RadioTypeOK'
  BY <1>1, <1>3, RelayTells DEF ReportsInv, RadioTypeOK
<1>5. EventsAreWhole' /\ ReportedOnce' /\ WrecksAreTelemetry'
  BY <1>1, <1>2, <1>3 DEF ReportsInv, EventsAreWhole, Whole, ReportedOnce, WrecksAreTelemetry
<1>6. DeliveredOnce'
  <2>1. \A f \in buffer'.frame : f.from = Vessel \/ f \in Settled'
    BY <1>1, <1>2, <1>3 DEF ReportsInv, DeliveredOnce
  <2> SUFFICES ASSUME NEW i \in DOMAIN downlink', downlink'[i].kind = "delivery"
               PROVE  LET f == downlink'[i].frame
                      IN  /\ f \in Settled' /\ f.from # Vessel /\ f.end = clock
                          /\ \A j \in DOMAIN downlink' : (downlink'[j].kind = "delivery" /\ i # j) =>
                                downlink'[j].frame # f
                          /\ f \notin buffer.frame
                          /\ \A j \in Readings : f \notin events[j].frame
    BY <1>1, <1>3, <2>1 DEF DeliveredOnce
  <2> DEFINE f == downlink'[i].frame
  <2>2. CASE i \in DOMAIN downlink
    <3>1. /\ f \in Settled /\ f.from # Vessel /\ f.end = clock
          /\ \A j \in DOMAIN downlink : (downlink[j].kind = "delivery" /\ i # j) => downlink[j].frame # f
          /\ f \notin buffer.frame
          /\ \A j \in Readings : f \notin events[j].frame
      BY <1>1, <1>3, <2>2, RelayTells DEF ReportsInv, DeliveredOnce
    <3>2. \A j \in DOMAIN downlink' : (downlink'[j].kind = "delivery" /\ i # j) => downlink'[j].frame # f
      BY <1>1, <1>2, <3>1, RelayTells
    <3> QED BY <1>2, <3>1, <3>2
  <2>3. CASE i \notin DOMAIN downlink
    <3>1. /\ f \in Ended /\ f.from # Vessel
          /\ \A j \in DOMAIN downlink' \ DOMAIN downlink :
               (downlink'[j].kind = "delivery" /\ i # j) => downlink'[j].frame # f
      BY <1>1, <2>3, RelayTells
    <3>2. f \notin Settled /\ f \in Settled' /\ f.end = clock
      BY <1>2, <3>1
    <3>3. \A j \in DOMAIN downlink : downlink[j].kind = "delivery" => downlink[j].frame \in Settled
      BY <1>3 DEF ReportsInv, DeliveredOnce
    <3>4. \A j \in DOMAIN downlink' : (downlink'[j].kind = "delivery" /\ i # j) => downlink'[j].frame # f
      BY <1>1, <3>1, <3>2, <3>3, RelayTells
    <3>5. f \notin buffer.frame
      BY <1>3, <3>1, <3>2 DEF ReportsInv, DeliveredOnce
    <3>6. \A j \in Readings : f \notin events[j].frame
      BY <1>3, <3>2 DEF ReportsInv, EventsAreWhole, Whole
    <3> QED BY <3>1, <3>2, <3>4, <3>5, <3>6
  <2> QED BY <2>2, <2>3
<1>7. Modes'
  BY <1>1 DEF RadioInv, Modes
<1>8. BufferIsHeard'
  BY <1>1, <1>2, <1>3 DEF RadioInv, BufferIsHeard, Whole
<1> QED BY <1>4, <1>5, <1>6, <1>7, <1>8 DEF ReportsInv

\* Time passes only when the chip has been told everything.
LEMMA TickStep ==
    ASSUME RadioInv, Tick
    PROVE  ReportsInv' /\ Modes' /\ BufferIsHeard'
<1>1. /\ downlink = <<>>
      /\ UNCHANGED <<verdicts, downlink, buffer, events, mode, irq_status, irq_mask, rx_since,
                     deaf_since, pc, corrupted>>
  BY DEF Tick, Overdue, hubVars, chipVars, radioVars
<1>2. Settled' = Settled /\ Readings' = Readings /\ ReportsInv /\ DOMAIN downlink' = {}
  BY <1>1 DEF Settled, Readings, RadioInv
<1>3. RadioTypeOK' /\ DeliveredOnce'
  BY <1>1, <1>2 DEF ReportsInv, RadioTypeOK, DeliveredOnce
<1>4. EventsAreWhole' /\ ReportedOnce' /\ WrecksAreTelemetry'
  BY <1>1, <1>2 DEF ReportsInv, EventsAreWhole, Whole, ReportedOnce, WrecksAreTelemetry
<1>5. Modes' /\ BufferIsHeard'
  BY <1>1, <1>2 DEF RadioInv, Modes, BufferIsHeard, Whole
<1> QED BY <1>3, <1>4, <1>5 DEF ReportsInv

----------------------------------------------------------------------------
(* The theorems.                                                           *)

LEMMA RadioInitially == Init => RadioInv
<1> SUFFICES ASSUME Init PROVE RadioInv
  OBVIOUS
<1>1. DOMAIN channel = {} /\ DOMAIN downlink = {} /\ DOMAIN events = {} /\ Settled = {} /\ Readings = {}
  BY DEF Init, HubInit, Settled, Readings
<1>2. AirInv
  <2>1. IsFiniteSet(aired)
    BY FS_EmptySet DEF Init, HubInit
  <2>2. channel \in Seq(AnyFrame)
    BY DEF Init, HubInit
  <2> QED BY <1>1, <2>1, <2>2
          DEF Init, HubInit, AirInv, AirTypeOK, NothingIsLost, JudgedAgainstAll
<1>3. ReportsInv
  <2> DEFINE none == {}
             no == FALSE
             yes == TRUE
  <2>1. none \in SUBSET AnyFrame /\ no \in BOOLEAN /\ yes \in BOOLEAN
    OBVIOUS
  <2>2. buffer = [frame |-> none, intact |-> no, since |-> 0, alone |-> yes]
    BY DEF Init, ChipInit, Silent
  <2>3. corrupted \in BOOLEAN /\ deaf_since \in Nat
    BY DEF Init, ChipInit
  <2>4. downlink \in Seq({Preamble} \cup Deliveries) /\ events \in Seq(Events)
    BY DEF Init, HubInit
  <2>5. buffer.frame = {}
    BY <2>2
  <2> HIDE DEF none, no, yes
  <2>6. buffer \in Buffers
    BY <2>1, <2>2 DEF Buffers
  <2> QED BY <1>1, <2>3, <2>4, <2>5, <2>6 DEF ReportsInv, RadioTypeOK, DeliveredOnce, EventsAreWhole,
          ReportedOnce, WrecksAreTelemetry
<1>4. Modes /\ BufferIsHeard
  BY DEF Init, HubInit, ChipInit, Modes, BufferIsHeard
<1> QED BY <1>2, <1>3, <1>4 DEF RadioInv

LEMMA AirStep == AirInv /\ [Next]_vars => AirInv'
<1> SUFFICES ASSUME AirInv, [Next]_vars PROVE AirInv'
  OBVIOUS
<1>1. CASE send_command \/ Driver \/ chip_hears \/ timer_fires \/ UNCHANGED vars
  <2>1. UNCHANGED <<clock, aired, channel, frames, verdicts, first_frame>>
    BY <1>1 DEF send_command, Driver, wait_for_activity, service_process, service_flags, service_result,
        service_header, service_clear, drain, transmit_prepare, transmit_start, await_irq, transmit_done,
        listen, chip_hears, deliver, timer_fires, fire, hubVars, vars
  <2> QED BY <2>1, AirStays
<1>2. CASE others_transmit
  <2>1. PICK from \in Others : Air(from)
    BY <1>2 DEF others_transmit
  <2> QED BY <1>2, <2>1, AirGrows DEF others_transmit
<1>3. CASE antenna_sends
  BY <1>3, AirGrows DEF antenna_sends, radiate
<1>4. CASE hub_relays
  BY <1>4, RelayJudges DEF hub_relays
<1>5. CASE Tick
  BY <1>5, AirAges
<1> QED BY <1>1, <1>2, <1>3, <1>4, <1>5 DEF Next

LEMMA RadioStep == RadioInv /\ [Next]_vars => RadioInv'
<1> SUFFICES ASSUME RadioInv, [Next]_vars PROVE RadioInv'
  OBVIOUS
<1>1. AirInv'
  BY AirStep DEF RadioInv
<1>2. ReportsInv' /\ Modes' /\ BufferIsHeard'
  <2>1. CASE send_command \/ others_transmit \/ antenna_sends \/ UNCHANGED vars
    <3>1. UNCHANGED <<clock, verdicts, downlink, buffer, events, mode, irq_status, irq_mask,
                      rx_since, deaf_since, pc, corrupted>>
      BY <2>1 DEF send_command, others_transmit, antenna_sends, radiate, hubVars, chipVars, radioVars, vars
    <3> QED BY <3>1, RadioStays
  <2>2. CASE Driver
    BY <2>2, ThreadSteps, ResultStep, HeaderStep, ClearSteps, PrepareStep, StartStep, ListenStep DEF Driver
  <2>3. CASE hub_relays \/ chip_hears \/ timer_fires \/ Tick
    BY <2>3, RelayStep, DeliverStep, FireStep, TickStep
  <2> QED BY <2>1, <2>2, <2>3 DEF Next
<1> QED BY <1>1, <1>2 DEF RadioInv

\* The hub, the chip and the driver thread, however their steps fall between
\* each other: what the relay has forgotten is over, a frame is delivered
\* once, and RxDone stands for the frame in the buffer (RadioInv).
THEOREM RadioInvariance == Spec => []RadioInv
BY RadioInitially, RadioStep, PTL DEF Spec

\* relay and settle, lcq-hub.rs: taking one frame at a time and forgetting
\* settled ones after Retention changes no verdict.
THEOREM VerdictsAreFinal == Spec => []JudgedAgainstAll
<1>1. RadioInv => JudgedAgainstAll
  BY DEF RadioInv, AirInv
<1> QED BY <1>1, RadioInvariance, PTL

\* medium thread and service_irq: a frame the node is told of was heard from
\* nearly its start.
THEOREM ReadingsAreWhole == Spec => []HeardWhole
<1>1. RadioInv => HeardWhole
  BY DEF RadioInv, ReportsInv, EventsAreWhole, Whole, HeardWhole
<1> QED BY <1>1, RadioInvariance, PTL

\* service_irq: no frame is reported twice, and none the vessel sent.
THEOREM ReadingsAreDistinct == Spec => []ReportedOnce
<1>1. RadioInv => ReportedOnce
  BY DEF RadioInv, ReportsInv
<1> QED BY <1>1, RadioInvariance, PTL

\* service_irq reads the status and the CRC flag in two looks; the flag it
\* reports is that of the frame it reports, if the frame before it was read.
THEOREM FlagsMatchFrames == Spec => []WrecksAreTelemetry
<1>1. RadioInv => WrecksAreTelemetry
  BY DEF RadioInv, ReportsInv
<1> QED BY <1>1, RadioInvariance, PTL
=============================================================================
