------------------------------- MODULE Bridge -------------------------------
(***************************************************************************)
(* The SX126x behind a serial cable (src/src/infrastructure/sx126x/        *)
(* bridge.rs): the host's Link, used by the one driver thread of           *)
(* radio.rs, the reader thread that feeds its inbox, and the device that   *)
(* serves the chip's pins and SPI.  The driver's steps are the calls it    *)
(* makes; a call is written, waits for the answer with its command byte,   *)
(* and may give up.  An answer carries no number, so one that is late may  *)
(* meet a later call: `stale` marks, for the properties alone, what        *)
(* answers a call that was given up.  The cable keeps its order both ways, *)
(* so the time an answer spends on it, and in the deframer of the reader   *)
(* thread, is counted with the time its request spends.                    *)
(***************************************************************************)
EXTENDS Naturals, Sequences, SequencesExt

CONSTANTS
    MaxLate,     \* bound on calls given up although the answer is on its way
    MaxRestarts, \* bound on restarts of the board
    MaxSlices,   \* slices of the line await_irq reads before its deadline
    MayClose     \* whether the port may close

ASSUME BridgeConstants ==
    /\ MaxLate \in Nat /\ MaxRestarts \in Nat
    /\ MaxSlices \in Nat \ {0}
    /\ MayClose \in BOOLEAN

VARIABLES
    \* the host
    pc,          \* the call the driver thread makes, or where it waits
    call,        \* "idle", "sent", or "verify" while verify_session asks
    inbox,       \* what the board said and the node asked, in order
    irq,         \* Link::irq, a notice nobody acted on
    woken,       \* Link::woken, the node asked during a call
    met,         \* Link::session
    poisoned,    \* Link::poisoned
    announced,   \* BridgeWatch::announced
    host_wanted, \* await_irq's local: a wake to hand on
    slices,      \* slices await_irq has waited
    commands,    \* frames the node handed over, at most one here
    \* the cable
    uplink,      \* requests the device has not handled
    open,        \* the port
    \* the board
    session,     \* drawn at boot
    events_on,
    reported,
    noticing,    \* the edge thread is about to send a notice
    greeting,    \* what handle(HELLO) has read and not answered yet
    mode,        \* of the chip: "unset", "listening", "sending", "idle"
    line,        \* DIO1
    \* for the bounds and the properties
    late,        \* calls given up early
    doubted      \* a call was given up and nothing answered since

host   == <<pc, call, irq, woken, met, poisoned, announced, host_wanted, slices>>
board  == <<session, events_on, reported, noticing, mode, line>>
device == <<board, greeting>>
bridgeVars == <<host, commands, inbox, uplink, open, device, late, doubted>>

----------------------------------------------------------------------------
(* What is said on the cable.                                              *)

Item(kind, cmd, id, level, stale) ==
    [kind |-> kind, cmd |-> cmd, session |-> id, level |-> level, stale |-> stale]

Request(at)       == [at |-> at, stale |-> FALSE]
EVENT_DIO1(level) == Item("dio1", "", 0, level, FALSE)
Wake              == Item("wake", "", 0, FALSE, FALSE)
Gone              == Item("gone", "", 0, FALSE, FALSE)

\* Everything asked so far belongs to calls that are over.
Spoil(items) == [i \in DOMAIN items |-> [items[i] EXCEPT !.stale = TRUE]]

SpoilReplies(items) ==
    [i \in DOMAIN items |->
        IF items[i].kind = "reply" THEN [items[i] EXCEPT !.stale = TRUE] ELSE items[i]]

SpoilGreeting == {[level |-> g.level, stale |-> TRUE] : g \in greeting}

\* The command byte of the call made at each place of the driver thread:
\* BridgeRadio::open, Driver::bring_up, BridgeWatch::wait_for_activity,
\* service_irq, Driver::transmit with BridgeIv::await_irq, Driver::listen.
Command ==
    [hello |-> "HELLO", reset |-> "RESET", config |-> "SPI", level |-> "PINS",
     process |-> "SPI", flags |-> "SPI", result |-> "SPI", clear |-> "SPI",
     tx |-> "SPI", txlevel |-> "PINS", txclear |-> "SPI", listen |-> "SPI"]

Calls == DOMAIN Command
Waits == {"wait", "txwait"}

\* call_checked asks for the session after silence; hello and irq_flags use
\* plain calls.
Checked == Calls \ {"hello", "flags"}

\* A link just opened, to a board nobody spoke to before: what hello() drains
\* is empty.
BridgeInit ==
    /\ pc = "hello" /\ call = "idle"
    /\ inbox = <<>> /\ uplink = <<>> /\ open = TRUE
    /\ irq = FALSE /\ woken = FALSE /\ met = 0
    /\ poisoned = FALSE /\ announced = FALSE
    /\ host_wanted = FALSE /\ slices = 0 /\ commands = 0
    /\ session = 1 /\ events_on = FALSE /\ reported = FALSE
    /\ noticing = FALSE /\ greeting = {} /\ mode = "unset" /\ line = FALSE
    /\ late = 0 /\ doubted = FALSE

----------------------------------------------------------------------------
(* The driver thread.                                                      *)

\* Mutant: await_irq waits for TxDone as long as it takes.
after_no_deadline(at, ok, level) ==
    CASE at = "level"   -> {IF ok /\ level THEN "process" ELSE "drain"}
      [] at = "txlevel" -> {IF ok /\ level THEN "txclear" ELSE IF ok THEN "txwait" ELSE "listen"}
      [] at \in {"hello", "reset", "config"} ->
            {IF ~ok THEN "dead" ELSE [hello |-> "reset", reset |-> "config", config |-> "wait"][at]}
      [] at = "process" -> {IF ok THEN "flags" ELSE "clear"}
      [] at = "flags"   -> {"result", "clear"}
      [] at = "result"  -> {"clear"}
      [] at = "tx"      -> {IF ok THEN "txwait" ELSE "listen"}
      [] at = "txclear" -> {"listen"}
      [] at \in {"clear", "listen"} -> {"drain"}

\* Where the driver thread goes on after the call it made at a place.
after(at, ok, level) ==
    CASE at \in {"hello", "reset", "config"} ->
            {IF ~ok THEN "dead" ELSE [hello |-> "reset", reset |-> "config", config |-> "wait"][at]}
      [] at = "level"   -> {IF ok /\ level THEN "process" ELSE "drain"}
      [] at = "process" -> {IF ok THEN "flags" ELSE "clear"}
      [] at = "flags"   -> {"result", "clear"}
      [] at = "result"  -> {"clear"}
      [] at = "tx"      -> {IF ok THEN "txwait" ELSE "listen"}
      [] at = "txlevel" -> {IF ~ok THEN "listen"
                            ELSE IF level THEN "txclear"
                            ELSE IF slices = MaxSlices THEN "listen" ELSE "txwait"}
      [] at = "txclear" -> {"listen"}
      [] at \in {"clear", "listen"} -> {"drain"}

\* The call at pc is over.  await_irq hands a wake it absorbed back to the
\* inbox once the line rose; wait_for_activity announces a poisoned link once.
Return(ok, level, refused) ==
    /\ call' = "idle"
    /\ pc' \in after(pc, ok, level)
    /\ announced' = (announced \/ (pc = "level" /\ refused))

\* The call took an item for its answer; the rest of the inbox stays.  If
\* another answer is on its way, it comes too late.
Answered(rest) ==
    /\ inbox' = SpoilReplies(rest)
    /\ uplink' = Spoil(uplink)
    /\ greeting' = SpoilGreeting
    /\ UNCHANGED board

\* Link::call: guard, then write.
call_begin ==
    /\ pc \in Calls
    /\ call = "idle"
    /\ IF poisoned \/ ~open
       THEN /\ Return(FALSE, FALSE, poisoned)
            /\ UNCHANGED uplink
       ELSE /\ call' = "sent"
            /\ uplink' = Append(uplink, Request(pc))
            /\ UNCHANGED <<pc, announced>>
    /\ UNCHANGED <<inbox, irq, woken, met, poisoned, host_wanted, slices, commands, open,
                   device, late, doubted>>

Expected == IF call = "verify" THEN "HELLO" ELSE Command[pc]

\* An item of the inbox that is not the answer: a notice is latched unless
\* its level says the line has fallen, a wake is latched, the rest is stale.
call_other ==
    /\ call # "idle"
    /\ inbox # <<>>
    /\ Head(inbox).kind \in {"dio1", "wake"} \/ (Head(inbox).kind = "reply"
                                                  /\ Head(inbox).cmd # Expected)
    /\ inbox' = Tail(inbox)
    /\ irq' = (irq \/ (Head(inbox).kind = "dio1" /\ Head(inbox).level))
    /\ woken' = (woken \/ Head(inbox).kind = "wake")
    /\ UNCHANGED <<pc, call, met, poisoned, announced, host_wanted, slices, commands,
                   uplink, open, device, late, doubted>>

\* The answer to the call of the driver.  hello() keeps the session and
\* latches the line; await_irq re-sends the wake it kept.
call_answered ==
    /\ call = "sent"
    /\ inbox # <<>>
    /\ Head(inbox).kind = "reply"
    /\ Head(inbox).cmd = Expected
    /\ LET reply == Head(inbox)
           rose  == pc = "txlevel" /\ reply.level
       IN  /\ Return(TRUE, reply.level, poisoned)
           /\ Answered(IF rose /\ host_wanted THEN Append(Tail(inbox), Wake) ELSE Tail(inbox))
           /\ met' = IF pc = "hello" THEN reply.session ELSE met
           /\ irq' = (irq \/ (pc = "hello" /\ reply.level))
           /\ doubted' = (doubted /\ reply.stale)
    /\ UNCHANGED <<woken, poisoned, host_wanted, slices, commands, open, late>>

\* The port closed: Gone is the answer, to verify_session's question too.
call_gone ==
    /\ call # "idle"
    /\ inbox # <<>>
    /\ Head(inbox).kind = "gone"
    /\ Answered(Tail(inbox))
    /\ Return(FALSE, FALSE, poisoned)
    /\ UNCHANGED <<irq, woken, met, poisoned, host_wanted, slices, commands, open, late, doubted>>

OnItsWay == uplink # <<>> \/ greeting # {}

\* Nothing in the inbox when the deadline passes.  A call given up while its
\* answer is on its way counts against the bound.
Silence(early) ==
    /\ call # "idle"
    /\ inbox = <<>>
    /\ OnItsWay = early
    /\ late' = IF early THEN late + 1 ELSE late
    /\ late' <= MaxLate
    /\ greeting' = SpoilGreeting
    /\ UNCHANGED <<inbox, irq, woken, met, poisoned, host_wanted, slices, commands, open, board>>

\* Mutant: silence is an error and nothing is asked.
call_timeout_unasked(early) ==
    /\ Silence(early)
    /\ call = "sent"
    /\ uplink' = Spoil(uplink)
    /\ Return(FALSE, FALSE, poisoned)
    /\ UNCHANGED doubted

\* The call of the driver is given up: call_checked asks who is there,
\* hello() asks again while its patience lasts, and irq_flags has no answer.
call_timeout(early) ==
    /\ Silence(early)
    /\ call = "sent"
    /\ IF pc \in Checked /\ open
       THEN /\ call' = "verify"
            /\ uplink' = Append(Spoil(uplink), Request("hello"))
            /\ UNCHANGED <<pc, announced, doubted>>
       ELSE /\ uplink' = Spoil(uplink)
            /\ doubted' = TRUE
            /\ \/ Return(FALSE, FALSE, poisoned)
               \/ pc = "hello" /\ call' = "idle" /\ UNCHANGED <<pc, announced>>

\* verify_session was answered: the caller still gets its Timeout, or Reset.
verify_answered ==
    /\ call = "verify"
    /\ inbox # <<>>
    /\ Head(inbox).kind = "reply"
    /\ Head(inbox).cmd = "HELLO"
    /\ Answered(Tail(inbox))
    /\ poisoned' = (Head(inbox).session # met)
    /\ doubted' = (doubted /\ Head(inbox).stale)
    /\ Return(FALSE, FALSE, Head(inbox).session # met)
    /\ UNCHANGED <<irq, woken, met, host_wanted, slices, commands, open, late>>

\* Not even HELLO was answered.
verify_timeout(early) ==
    /\ Silence(early)
    /\ call = "verify"
    /\ uplink' = Spoil(uplink)
    /\ doubted' = TRUE
    /\ Return(FALSE, FALSE, poisoned)

\* Mutant: a notice is believed without reading the line.
Waited_believed(host_woke, rest) ==
    /\ inbox' = rest
    /\ irq' = FALSE
    /\ woken' = FALSE
    /\ host_wanted' = (pc = "txwait" /\ (host_wanted \/ host_woke))
    /\ slices' = IF pc = "wait" THEN 0 ELSE IF slices < MaxSlices THEN slices + 1 ELSE slices
    /\ pc' = IF pc = "txwait" THEN "txlevel" 
           ELSE IF irq \/ (rest # inbox /\ Head(inbox).kind = "dio1") THEN "process" ELSE "drain"
    /\ UNCHANGED <<call, met, poisoned, announced, commands, uplink, open, device,
                   late, doubted>>

\* Link::wait, where a wait of the driver thread ends: a latch that is set,
\* the first notice or wake in the inbox, or the timeout.
Waited(host_woke, rest) ==
    /\ inbox' = rest
    /\ irq' = FALSE
    /\ woken' = FALSE
    /\ host_wanted' = (pc = "txwait" /\ (host_wanted \/ host_woke))
    /\ slices' = IF pc = "wait" THEN 0 ELSE IF slices < MaxSlices THEN slices + 1 ELSE slices
    /\ pc' = IF pc = "txwait" THEN "txlevel" ELSE "level"
    /\ UNCHANGED <<call, met, poisoned, announced, commands, uplink, open, device,
                   late, doubted>>

\* A wait of the driver thread, between calls or inside await_irq.
wait ==
    /\ pc \in Waits
    /\ \/ (irq \/ woken) /\ Waited(woken, inbox)
       \/ ~irq /\ ~woken /\ inbox = <<>> /\ Waited(FALSE, inbox)
       \/ /\ ~irq /\ ~woken /\ inbox # <<>>
          /\ LET item == Head(inbox)
             IN  IF item.kind \in {"wake", "gone"} \/ (item.kind = "dio1" /\ item.level)
                 THEN Waited(item.kind = "wake", Tail(inbox))
                 ELSE /\ inbox' = Tail(inbox)
                      /\ UNCHANGED <<host, commands, uplink, open, device, late, doubted>>

\* drive: the next command, or back to the wait.
drain ==
    /\ pc = "drain"
    /\ commands' = 0
    /\ pc' = IF commands = 0 THEN "wait" ELSE "tx"
    /\ slices' = 0
    /\ host_wanted' = FALSE
    /\ UNCHANGED <<call, irq, woken, met, poisoned, announced, inbox, uplink, open,
                   device, late, doubted>>

\* The node hands over a frame and wakes the driver: DriverHandle::transmit.
transmit ==
    /\ pc \notin {"hello", "dead"}
    /\ commands = 0
    /\ ~Contains(inbox, Wake)     \* a bound: one wake waits at a time
    /\ commands' = 1
    /\ inbox' = Append(inbox, Wake)
    /\ UNCHANGED <<host, uplink, open, device, late, doubted>>

----------------------------------------------------------------------------
(* The cable and the board.                                                *)

\* The port closes; the reader thread says so.
close ==
    /\ MayClose
    /\ open
    /\ open' = FALSE
    /\ inbox' = Append(inbox, Gone)
    /\ uplink' = <<>>
    /\ UNCHANGED <<host, commands, device, late, doubted>>

Reply(request, level) ==
    Item("reply", Command[request.at], session, level, request.stale)

\* What a request does to the chip: the driver's SPI commands, reduced to
\* whether it listens and what DIO1 shows.  A chip nobody configured since
\* the board booted does nothing.
Execute(at) ==
    /\ mode' = CASE at = "reset" -> "unset"
                 [] at = "config" -> "listening"
                 [] at = "listen" /\ mode # "unset" -> "listening"
                 [] at = "tx" /\ mode # "unset" -> "sending"
                 [] OTHER -> mode
    /\ line' = (line /\ at \notin {"reset", "clear", "txclear", "tx"})

\* Device::handle; HELLO clears `reported`, then reads the line.
handle ==
    /\ uplink # <<>>
    /\ greeting = {}
    /\ LET request == Head(uplink)
       IN  IF request.at = "hello"
           THEN /\ events_on' = TRUE
                /\ reported' = FALSE
                /\ greeting' = {[level |-> line, stale |-> request.stale]}
                /\ UNCHANGED <<inbox, mode, line>>
           ELSE /\ Execute(request.at)
                /\ inbox' = Append(inbox, Reply(request, line /\ Command[request.at] = "PINS"))
                /\ UNCHANGED <<events_on, reported, greeting>>
    /\ uplink' = Tail(uplink)
    /\ UNCHANGED <<host, commands, open, session, noticing, late, doubted>>

\* HELLO, its second half: what was read decides whether an edge is news.
greet ==
    /\ \E g \in greeting :
        /\ reported' = g.level
        /\ inbox' = IF open
                    THEN Append(inbox, Item("reply", "HELLO", session, g.level, g.stale))
                    ELSE inbox
    /\ greeting' = {}
    /\ UNCHANGED <<host, commands, uplink, open, session, events_on, noticing, mode,
                   line, late, doubted>>

\* Device::edges: an edge is reported once, with the level at that moment.
edges ==
    /\ \/ /\ ~noticing /\ line /\ events_on /\ ~reported
          /\ reported' = TRUE
          /\ noticing' = TRUE
          /\ UNCHANGED inbox
       \/ /\ noticing
          /\ noticing' = FALSE
          /\ inbox' = IF open THEN Append(inbox, EVENT_DIO1(line)) ELSE inbox
          /\ UNCHANGED reported
       \/ /\ ~noticing /\ ~line /\ reported
          /\ reported' = FALSE
          /\ UNCHANGED <<inbox, noticing>>
    /\ UNCHANGED <<host, commands, uplink, open, session, events_on, greeting, mode,
                   line, late, doubted>>

\* The chip raises an interrupt: a frame arrived.
chip_receives ==
    /\ mode = "listening"
    /\ ~line
    /\ line' = TRUE
    /\ UNCHANGED <<host, commands, inbox, uplink, open, session, events_on, reported,
                   noticing, greeting, mode, late, doubted>>

\* The chip raises an interrupt: the frame has left.
chip_sent ==
    /\ mode = "sending"
    /\ mode' = "idle"
    /\ line' = TRUE
    /\ UNCHANGED <<host, commands, inbox, uplink, open, session, events_on, reported,
                   noticing, greeting, late, doubted>>

\* The microcontroller boots again: what it was asked and what was configured
\* is gone, what it already sent is not.
restart ==
    /\ session <= MaxRestarts
    /\ open
    /\ session' = session + 1
    /\ events_on' = FALSE /\ reported' = FALSE /\ noticing' = FALSE
    /\ greeting' = {} /\ mode' = "unset" /\ line' = FALSE
    /\ uplink' = <<>>
    /\ UNCHANGED <<host, commands, inbox, open, late, doubted>>

----------------------------------------------------------------------------
Driver ==
    \/ call_begin \/ call_other \/ call_answered \/ call_gone \/ verify_answered
    \/ wait \/ drain
    \/ call_timeout(FALSE) \/ verify_timeout(FALSE)

Late == call_timeout(TRUE) \/ verify_timeout(TRUE)

Board == handle \/ greet

BridgeNext ==
    \/ Driver \/ Late \/ transmit
    \/ close
    \/ Board \/ edges \/ chip_receives \/ chip_sent \/ restart

\* Threads run, the board answers, and a transmission ends.  Nothing obliges
\* the node to send, the air to carry, the board to restart, or an answer to
\* be late.
BridgeSpec ==
    /\ BridgeInit /\ [][BridgeNext]_bridgeVars
    /\ WF_bridgeVars(Driver)
    /\ WF_bridgeVars(Board)
    /\ WF_bridgeVars(edges)
    /\ WF_bridgeVars(chip_sent)

----------------------------------------------------------------------------
(* Properties.                                                             *)

\* As long as every call that was given up was followed by an answered
\* HELLO, no answer to an earlier call is anywhere on its way to the call
\* that waits: asking for the session also clears the cable, which is all
\* that stands between a late reply and a later call of the same command.
AnswersAreCurrent ==
    (call = "sent" /\ ~doubted) =>
        /\ \A i \in DOMAIN uplink : ~uplink[i].stale
        /\ \A g \in greeting : ~g.stale
        /\ \A i \in DOMAIN inbox : ~inbox[i].stale

\* "An event is a hint, never a fact": when the driver is woken to service an
\* interrupt, DIO1 is high, however long the notice took and whatever was
\* cleared meanwhile, unless an answer is in doubt or the board restarted.
HintIsNoFact ==
    (pc = "process" /\ call = "idle" /\ ~doubted /\ session = met) => line

(* What the two invariants above rest on, for their proof.                 *)

Places    == Calls \cup Waits \cup {"drain", "dead"}
Requests  == [at : Calls, stale : BOOLEAN]
Greetings == [level : BOOLEAN, stale : BOOLEAN]
Items     == [kind : {"reply", "dio1", "wake", "gone"}, cmd : {"", "HELLO", "RESET", "SPI", "PINS"}, session : Nat,
              level : BOOLEAN, stale : BOOLEAN]

BridgeTypeOK ==
    /\ pc \in Places /\ call \in {"idle", "sent", "verify"}
    /\ inbox \in Seq(Items) /\ uplink \in Seq(Requests) /\ greeting \in SUBSET Greetings
    /\ met \in Nat /\ session \in Nat
    /\ open \in BOOLEAN /\ doubted \in BOOLEAN /\ line \in BOOLEAN

\* Only the driver's places that make a call have one under way, and the port
\* that closed carries none of its requests.
CallsInOrder ==
    /\ call # "idle" => pc \in Calls
    /\ call = "verify" => pc \in Checked
    /\ ~open => uplink = <<>>

\* The board a reply came from has not booted since the last one was met.
SessionsAreKnown ==
    /\ met <= session
    /\ \A i \in DOMAIN inbox : inbox[i].session <= session

\* A request of the call that waits is the last thing that was written.
FreshRequestIsLast ==
    \A i \in DOMAIN uplink : ~uplink[i].stale =>
        /\ i = Len(uplink)
        /\ call # "idle"
        /\ Command[uplink[i].at] = Expected

\* A HELLO being handled for the call that waits has nothing behind it.
FreshGreetingIsLast ==
    \A g \in greeting :
        /\ greeting = {g}
        /\ ~g.stale => uplink = <<>> /\ call # "idle" /\ Expected = "HELLO"

\* The answer to the call that waits has nothing behind it, and what it says
\* of the line still holds of a board that did not restart.
FreshReplyIsLast ==
    \A i \in DOMAIN inbox : (inbox[i].kind = "reply" /\ ~inbox[i].stale) =>
        /\ uplink = <<>> /\ greeting = {}
        /\ \A j \in DOMAIN inbox : j > i => inbox[j].kind # "reply"
        /\ call # "idle" /\ inbox[i].cmd = Expected
        /\ (inbox[i].cmd = "PINS" /\ inbox[i].level /\ session = met) => line

\* What is no reply is not late, and Gone is said of a port that closed.
NoticesHold ==
    \A i \in DOMAIN inbox : /\ inbox[i].kind # "reply" => ~inbox[i].stale
                            /\ inbox[i].kind = "gone" => ~open

\* Without a doubt nothing late is on the cable; while the session is asked
\* for, the call that was given up may be, but no other HELLO.
NothingLate ==
    (~doubted /\ (open \/ call # "idle")) =>
        /\ \A i \in DOMAIN uplink : uplink[i].stale =>
              call = "verify" /\ Command[uplink[i].at] # "HELLO"
        /\ \A g \in greeting : ~g.stale
        /\ \A i \in DOMAIN inbox : inbox[i].stale =>
              call = "verify" /\ inbox[i].cmd # "HELLO"

BridgeInv ==
    /\ BridgeTypeOK
    /\ CallsInOrder
    /\ SessionsAreKnown
    /\ FreshRequestIsLast
    /\ FreshGreetingIsLast
    /\ FreshReplyIsLast
    /\ NoticesHold
    /\ NothingLate
    /\ HintIsNoFact

----------------------------------------------------------------------------
(* What must eventually happen.                                            *)

\* An interrupt the board shows is taken care of, although the board reports
\* an edge once and the report may be overtaken by a HELLO or dropped.
InterruptIsServed == line ~> (~line \/ poisoned \/ ~open \/ pc = "dead")

\* A frame the node hands over is taken up by the driver thread, however the
\* transmission before it ends: TxDone may never come from a board that
\* restarted.
CommandIsTaken == (commands = 1) ~> (commands = 0 \/ pc = "dead")

\* "Press the XIAO's reset while a node runs: bridge_reset" (docs/
\* HARDWARE-BRINGUP.md): a restart that leaves the chip unconfigured under a
\* running driver is announced.
RestartIsAnnounced ==
    (pc \notin {"hello", "reset", "config", "dead"} /\ session # met /\ mode = "unset")
        ~> announced
=============================================================================
