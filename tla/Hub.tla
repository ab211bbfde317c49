-------------------------------- MODULE Hub ---------------------------------
(***************************************************************************)
(* The channel emulator (src/src/bin/lcq-hub.rs and its socket protocol,   *)
(* src/src/infrastructure/hub.rs), as one vessel meets it: members put     *)
(* frames on the air, the reader threads stamp and queue them, and the     *)
(* relay thread holds each for its airtime and settles its fate at the     *)
(* vessel.  What the hub writes to the vessel's socket is `downlink`.      *)
(***************************************************************************)
EXTENDS Medium, Sequences, SequencesExt

CONSTANTS
    Others,       \* the other members
    Vessel,       \* the member whose radio is modelled
    Rssi,         \* Options::rssi at the vessel, per other member
    Cut,          \* members on the far side of a partition
    isolate,      \* how long after the first frame the partition lasts
    Airtime,      \* of the frames of each member
    Retention,    \* how long a settled frame is remembered
    MayLose,      \* whether a residual loss is configured
    MaxOthers,    \* bound on frames of the other members
    MaxTime       \* bound on the clock

ASSUME HubConstants ==
    /\ Rssi \in [Others -> Int]
    /\ Vessel \notin Others /\ Cut \subseteq Others
    /\ MayLose \in BOOLEAN
    /\ Airtime \in [Others \cup {Vessel} -> Nat \ {0}]
    /\ {isolate, Retention, MaxOthers, MaxTime} \subseteq Nat
    /\ \A m \in DOMAIN Airtime : Airtime[m] <= Retention

VARIABLES
    clock,
    channel,      \* frames read from the sockets, not yet taken by the relay
    frames,       \* frames in flight, and settled ones still remembered
    downlink,     \* messages to the vessel
    aired,        \* every frame there was, for the bounds and the properties
    verdicts,     \* what became of each at the vessel
    first_frame   \* when the first frame was looked at, or empty

hubVars == <<channel, frames, downlink, aired, verdicts, first_frame>>

HubInit ==
    /\ clock = 0
    /\ channel = <<>> /\ frames = {} /\ downlink = <<>>
    /\ aired = {} /\ verdicts = <<>> /\ first_frame = {}

Frame(from) == [from |-> from, start |-> clock, end |-> clock + Airtime[from]]

\* A member transmits; its reader thread stamps the frame and queues it.
Air(from) ==
    /\ Frame(from) \notin aired
    /\ aired' = aired \cup {Frame(from)}
    /\ channel' = Append(channel, Frame(from))

\* Options::reaches.  The halves cannot hear each other while isolated, which
\* is counted from the first time anybody asks.
reaches(from, first) ==
    \/ from \notin Cut      \* its own half, the vessel included
    \/ \E at \in first : clock >= at + isolate

\* How a frame arrives at the vessel.
At(f) == [start |-> f.start, end |-> f.end,
          rssi |-> IF f.from = Vessel THEN OWN_DBM ELSE Rssi[f.from]]

Delivery(f, verdict) == [kind |-> "delivery", frame |-> f, verdict |-> verdict]
Preamble == [kind |-> "preamble"]

\* settle, at the vessel: the verdict, against what the relay remembers.
fate(f, known, first) ==
    IF f.from = Vessel \/ ~reaches(f.from, first) THEN "Unheard"
    ELSE judge(At(f), {At(o) : o \in {g \in known \ {f} : reaches(g.from, first)}})

\* Mutant: a frame is forgotten once it is settled.
remembered_briefly(f) == f.end > clock

\* A settled frame is kept longer than any frame lasts, for the frames that
\* started while it was on the air.
remembered(f) == f.end + Retention > clock

Settled == DOMAIN verdicts

\* The frame the relay takes from its channel, if there is one, and what it
\* then knows of; when the isolation is counted from; and what has ended.
Taken == IF channel = <<>> THEN {} ELSE {Head(channel)}
Known == frames \cup Taken
First == IF first_frame = {} THEN {clock} ELSE first_frame
Ended == {f \in Known : f.end <= clock /\ f \notin Settled}

Decided == [f \in Ended |-> fate(f, Known, First)]
Heard   == {f \in Ended : Decided[f] \in {"Decoded", "HeaderError", "CrcError"}}
Noticed == {f \in Taken : f.from # Vessel /\ reaches(f.from, First)
                          /\ Rssi[f.from] >= SENSITIVITY_DBM}

\* The messages of one turn: a preamble, and what became of the frames, in
\* the order in which they ended.  Frames that end at one instant of the
\* model may end in either order.
Messages(told) ==
    (IF Noticed = {} THEN <<>> ELSE <<Preamble>>)
        \o [i \in DOMAIN told |-> Delivery(told[i], Decided[told[i]])]

\* One turn of the relay loop: it takes one frame from the channel, if there
\* is one, announces its preamble, and settles every frame that has ended.
\* The configured residual loss takes some of those that were decoded.
relay ==
    /\ channel # <<>> \/ \E f \in frames : f.end <= clock /\ f \notin Settled
    /\ \E lost \in SUBSET {f \in Heard : MayLose /\ Decided[f] = "Decoded"} :
       \E told \in SetToSeqs(Heard \ lost) : downlink' = downlink \o Messages(told)
    /\ verdicts' = [f \in Settled \cup Ended |->
                       IF f \in Ended THEN Decided[f] ELSE verdicts[f]]
    /\ frames' = {f \in Known : f \notin Settled \cup Ended \/ remembered(f)}
    /\ first_frame' = First
    /\ channel' = IF channel = <<>> THEN <<>> ELSE Tail(channel)
    /\ UNCHANGED <<clock, aired>>
=============================================================================
