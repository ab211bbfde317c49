------------------------------- MODULE Fleet --------------------------------
(***************************************************************************)
(* One round of the fleet: every member runs the loop of                   *)
(* src/src/bin/lcq-node.rs over its own journal, and they talk over a      *)
(* radio that loses, delays, duplicates and reorders.  A member may die at *)
(* any step and start again from its journal.                              *)
(*                                                                         *)
(* A member is one thread.  Its loop is cut where it writes to the journal *)
(* or to the air, because that is where a crash can tell the two sides     *)
(* apart; what it only does in memory goes with the step it belongs to.    *)
(* The journal is the abstract one (module Journal): a write is done as a  *)
(* whole or refused.  The schedule is order, not time: the slot a member   *)
(* sends in, and when it closes consultation, is whenever; module Case     *)
(* relates closing to the clocks.  A frame is identified by its author and *)
(* sequence, and the journal keeps that identity in place of the bytes.    *)
(***************************************************************************)
EXTENDS JournalState, ReplayWindow, Policy

CONSTANTS
    Openers,        \* members whose open deadline comes before a trigger
    Speaking,       \* opinion stages whose slots are not missed
    DoubleVoters,   \* Adversary::DoubleVote
    Liars,          \* Adversary::LieAcks
    Replayers,      \* Adversary::Replay
    Attempts,       \* binding attempts allowed
    RepairRounds,   \* REPAIR_ROUNDS
    Budget,         \* the policy's fault budget, in basis points
    Start,          \* where open_with_entropy started each member's counter
    MaxCrashes,     \* bound on crashes, all members together
    MaxRefusals     \* bound on journal writes that fail

Members == Senders
TheCase == CHOOSE key \in Keys : TRUE

ASSUME FleetConstants ==
    /\ Authors = Senders /\ Cardinality(Keys) = 1
    /\ Openers \cup DoubleVoters \cup Liars \cup Replayers \subseteq Members
    /\ Speaking \subseteq {"Independent", "Consultation"}
    /\ Start \in [Members -> Nat \ {0}]
    /\ Attempts \in Nat \ {0} /\ RepairRounds \in Nat
    /\ MaxCrashes \in Nat /\ MaxRefusals \in Nat

Honest == Members \ (DoubleVoters \cup Liars \cup Replayers)

\* Every member counts the same (Competence::FULL).
policy == [competences |-> [m \in Members |-> Scale], byzantine_bps |-> Budget,
           max_competence_ratio |-> 3]

Stages == {"Trigger", "Independent", "Consultation", "BindingSupport", "Nack"}

\* A sealed and signed frame, as its receivers read it.
AirFrames == [author : Members, sequence : 0 .. MaxSequence, stage : Stages,
              verdict : {"Support", "Dispute"}, heard : SUBSET Members]

VARIABLES
    journal,    \* each member's durable state
    mem,        \* what each process holds in memory
    step,       \* where each loop is between two writes
    made,       \* the votes ever committed, which the journals refer to
    air,        \* frames their authors have transmitted
    carried,    \* frames somebody else has put on the air
    crashes,
    refusals

vars == <<journal, mem, step, made, air, carried, crashes, refusals>>

Idle == [at |-> "idle"]
At(where, frame) == [at |-> where, frame |-> frame]

----------------------------------------------------------------------------
(* Reading a member's state.                                               *)

Up(n) == mem[n].status \in {"waiting", "consulting", "collecting"}
Joined(n) == mem[n].status \in {"consulting", "collecting"}
closed(n) == mem[n].status = "collecting"

has_voted(n) == TheCase \in journal[n].locks

\* The votes a member has counted, and so the bitmap its frames carry.
heard(n) == {m \in Members : mem[n].tally[m] # None}

\* Mutant: the last vote of an author counts.
Counted_latest(vote, sequence) == sequence

\* An author that has voted is AlreadyVoted.
Counted(vote, sequence) == IF vote = None THEN sequence ELSE vote

FrameOf(author, sequence) ==
    CHOOSE f \in made : f.author = author /\ f.sequence = sequence

\* journal.pending().next(): the outbox is ordered by sequence.
OutboxVote(j, n) == FrameOf(n, Min({p.sequence : p \in j.pending}))

binding_supporters(n) ==
    {m \in heard(n) : \E f \in air \cup made :
        /\ f.author = m /\ f.sequence = mem[n].tally[m] /\ f.verdict = "Support"}

\* No binding attempt is left.
VotingOver(n) == "BindingSupport" \in mem[n].sent \/ mem[n].attempts >= Attempts

RepairOpen(n) == mem[n].repair > 0

----------------------------------------------------------------------------
(* Starting.                                                               *)

\* Mutant: the votes of others are not read back.
restored_own_only(j, n) ==
    [m \in Members |-> IF m = n /\ TheCase \in j.locks /\ j.pending # {}
                       THEN OutboxVote(j, n).sequence ELSE None]

\* The witnessed votes and the member's own recovered vote, held until
\* consultation closes.
restored(j, n) ==
    [m \in Members |-> IF m = n /\ TheCase \in j.locks /\ j.pending # {}
                       THEN OutboxVote(j, n).sequence ELSE j.witnessed[m]]

\* What main() sets up from the journal.
Booted(j, n) ==
    [status   |-> "waiting",
     early    |-> restored(j, n),
     tally    |-> [m \in Members |-> None],
     windows  |-> [m \in Members |->
                    IF j.seen[m] = None THEN new ELSE resumed(j.seen[m])],
     acknowledged |-> FALSE,
     attempts |-> 0,
     sent     |-> {},
     repair   |-> 0,
     nacked   |-> FALSE,
     repaired |-> FALSE,
     forwards |-> {},
     due      |-> FALSE]

Down == [status |-> "down", tally |-> [m \in Members |-> None],
         early |-> [m \in Members |-> None]]

\* open_with_entropy has given the counter its start.
FreshJournal(n) == apply(EmptyState, Sequence(Start[n]))

Init ==
    /\ made = {}
    /\ journal = [n \in Members |-> FreshJournal(n)]
    /\ mem = [n \in Members |-> Booted(FreshJournal(n), n)]
    /\ step = [n \in Members |-> Idle]
    /\ air = {}
    /\ carried = {}
    /\ crashes = 0
    /\ refusals = 0

Crash(n) ==
    /\ Up(n)
    /\ crashes < MaxCrashes
    /\ crashes' = crashes + 1
    /\ mem' = [mem EXCEPT ![n] = Down]
    /\ step' = [step EXCEPT ![n] = Idle]
    /\ UNCHANGED <<journal, made, air, carried, refusals>>

Restart(n) ==
    /\ mem[n].status = "down"
    /\ mem' = [mem EXCEPT ![n] = Booted(journal[n], n)]
    /\ UNCHANGED <<journal, step, made, air, carried, crashes, refusals>>

----------------------------------------------------------------------------
(* Writing to the journal.                                                 *)

\* Mutant: reserving a sequence leaves no record.
Write_but_sequences(n, entry) ==
    /\ journal' = [journal EXCEPT ![n] = IF entry.kind = "Sequence" THEN @ ELSE apply(@, entry)]
    /\ UNCHANGED refusals

Write(n, entry) ==
    /\ journal' = [journal EXCEPT ![n] = apply(@, entry)]
    /\ UNCHANGED refusals

\* JournalError::NotDurable
NotDurable ==
    /\ refusals < MaxRefusals
    /\ refusals' = refusals + 1
    /\ UNCHANGED journal

\* mark_seen writes only what is news; a failure is reported and ignored.
remember_seen(n, sender, sequence) ==
    IF journal[n].seen[sender] >= sequence
    THEN UNCHANGED <<journal, refusals>>
    ELSE Write(n, Seen(sender, sequence)) \/ NotDurable

\* Mutant: a counted vote stays in memory.
witness_in_memory(n, author, sequence) == UNCHANGED <<journal, refusals>>

\* witness keeps the first vote of each author; a failure is reported.
witness(n, author, sequence) ==
    IF journal[n].witnessed[author] # None
    THEN UNCHANGED <<journal, refusals>>
    ELSE Write(n, Witnessed(author, sequence)) \/ NotDurable

----------------------------------------------------------------------------
(* Sending: reserve, commit, transmit, remember.                           *)

\* The frame could not be built: the stage is given up.
NotSent(n, stage) ==
    /\ mem' = [mem EXCEPT
            ![n].sent = @ \cup ({stage} \cap {"Independent", "Consultation", "BindingSupport"}),
            ![n].nacked = @ \/ stage = "Nack"]
    /\ step' = [step EXCEPT ![n] = Idle]
    /\ UNCHANGED <<made, air, carried, crashes>>

Due(n, stage) ==
    CASE stage = "Trigger" -> mem[n].status = "waiting" /\ n \in Openers
      [] stage = "BindingSupport" ->
            closed(n) /\ ~VotingOver(n) /\ ~(mem[n].attempts > 0 /\ mem[n].acknowledged)
      [] stage = "Nack" ->
            closed(n) /\ RepairOpen(n) /\ ~mem[n].nacked /\ Members \ (heard(n) \cup {n}) # {}
      [] OTHER -> Joined(n) /\ stage \in Speaking \ mem[n].sent

\* build, build_nack and build_trigger up to the seal.  A member that has
\* voted does not build a second vote, unless it is a double voter.
reserve(n, stage) ==
    LET sequence == journal[n].next_sequence
        already == stage = "BindingSupport" /\ has_voted(n)
        frame == [author |-> n, sequence |-> sequence, stage |-> stage,
                  verdict |-> IF already THEN "Dispute" ELSE "Support",
                  heard |-> CASE stage = "Trigger" -> {}
                              [] stage # "Nack" /\ n \in Liars -> Members
                              [] OTHER -> heard(n)]
    IN  /\ step[n] = Idle
        /\ Due(n, stage)
        /\ already => n \in DoubleVoters
        /\ sequence < MaxSequence
        /\ \/ /\ Write(n, Sequence(sequence + 1))
              /\ step' = [step EXCEPT ![n] =
                    At(IF stage = "BindingSupport" /\ ~already
                       THEN "reserved" ELSE "built", frame)]
              /\ UNCHANGED <<mem, made, air, carried, crashes>>
           \/ NotDurable /\ NotSent(n, stage)

\* Mutant: a vote the journal refused is transmitted all the same.
commit_vote_or_not(n) ==
    LET frame == step[n].frame
    IN  /\ step[n].at = "reserved"
        /\ \/ Write(n, Vote(TheCase, OutgoingFrame(frame.sequence, TheCase, {})))
           \/ NotDurable
        /\ made' = made \cup {frame}
        /\ step' = [step EXCEPT ![n] = At("built", frame)]
        /\ UNCHANGED <<mem, air, carried, crashes>>

\* Mutant: the lock is taken in memory only.
commit_vote_in_memory(n) ==
    LET frame == step[n].frame
    IN  /\ step[n].at = "reserved"
        /\ made' = made \cup {frame}
        /\ step' = [step EXCEPT ![n] = At("built", frame)]
        /\ UNCHANGED <<journal, mem, air, carried, crashes, refusals>>

\* The lock and the outbox entry, before the bytes leave.
commit_vote(n) ==
    LET frame == step[n].frame
    IN  /\ step[n].at = "reserved"
        /\ \/ /\ Write(n, Vote(TheCase, OutgoingFrame(frame.sequence, TheCase, {})))
              /\ made' = made \cup {frame}
              /\ step' = [step EXCEPT ![n] = At("built", frame)]
              /\ UNCHANGED <<mem, air, carried, crashes>>
           \/ NotDurable /\ NotSent(n, "BindingSupport")

\* build of a vote that was committed, in this life or an earlier one: the
\* same frame again, from the outbox.
from_outbox(n) ==
    /\ step[n] = Idle
    /\ Due(n, "BindingSupport")
    /\ has_voted(n) /\ n \notin DoubleVoters
    /\ step' = [step EXCEPT ![n] = At("built", OutboxVote(journal[n], n))]
    /\ UNCHANGED <<journal, mem, made, air, carried, crashes, refusals>>

Utterance(frame) == frame.stage \notin {"Trigger", "Nack"}

\* What the loop notes in memory once a frame is out: the attempt, its own
\* sequence, and its own vote, which no radio will bring it.
Noted(n, frame) ==
    LET vote == frame.stage = "BindingSupport"
    IN  [mem[n] EXCEPT
            !.status = IF @ = "waiting" THEN "consulting" ELSE @,
            !.attempts = IF vote THEN @ + 1 ELSE @,
            !.sent = IF Utterance(frame) /\ ~vote THEN @ \cup {frame.stage} ELSE @,
            !.windows[n] = IF Utterance(frame) THEN mark(@, frame.sequence) ELSE @,
            !.tally[n] = IF vote THEN Counted(@, frame.sequence) ELSE @,
            !.nacked = @ \/ frame.stage = "Nack"]

transmit(n) ==
    LET frame == step[n].frame
    IN  /\ step[n].at = "built"
        /\ air' = air \cup {frame}
        /\ mem' = [mem EXCEPT ![n] = Noted(n, frame)]
        /\ step' = [step EXCEPT ![n] = IF Utterance(frame) THEN At("sent", frame) ELSE Idle]
        /\ UNCHANGED <<journal, made, carried, crashes, refusals>>

remember_own(n) ==
    /\ step[n].at = "sent"
    /\ remember_seen(n, n, step[n].frame.sequence)
    /\ step' = [step EXCEPT ![n] = Idle]
    /\ UNCHANGED <<mem, made, air, carried, crashes>>

\* The slot has gone by: the attempt is spent.
slot_missed(n) ==
    /\ step[n] = Idle
    /\ closed(n) /\ ~VotingOver(n)
    /\ mem' = [mem EXCEPT ![n].attempts = @ + 1]
    /\ UNCHANGED <<journal, step, made, air, carried, crashes, refusals>>

\* Somebody holds the vote, so it is not repeated.
acknowledged(n) ==
    /\ step[n] = Idle
    /\ closed(n) /\ ~VotingOver(n)
    /\ mem[n].attempts > 0 /\ mem[n].acknowledged
    /\ mem' = [mem EXCEPT ![n].sent = @ \cup {"BindingSupport"}]
    /\ UNCHANGED <<journal, step, made, air, carried, crashes, refusals>>

----------------------------------------------------------------------------
(* Closing consultation and offering what was held.                        *)

Held(n) == {m \in Members : mem[n].early[m] # None}

\* Mutant: what was held is not offered.
close_consultation_only(n) ==
    /\ step[n] = Idle
    /\ mem[n].status = "consulting"
    /\ mem' = [mem EXCEPT ![n].status = "collecting"]
    /\ UNCHANGED <<journal, step, made, air, carried, crashes, refusals>>

close_consultation(n) ==
    /\ step[n] = Idle
    /\ mem[n].status = "consulting"
    /\ mem' = [mem EXCEPT ![n].status = "collecting"]
    /\ step' = [step EXCEPT ![n] = IF Held(n) = {} THEN Idle ELSE [at |-> "draining"]]
    /\ UNCHANGED <<journal, made, air, carried, crashes, refusals>>

\* A held vote of m, admitted and counted.
Offered(n, m) ==
    LET f == CHOOSE g \in air \cup made : g.author = m /\ g.sequence = mem[n].early[m]
    IN  [mem[n] EXCEPT !.early[m] = None,
                       !.tally[m] = Counted(@, mem[n].early[m]),
                       !.acknowledged = @ \/ n \in f.heard]

\* One held vote: admitted, counted, witnessed.
drain(n) ==
    /\ step[n].at = "draining"
    /\ \E m \in Held(n) :
        /\ mem' = [mem EXCEPT ![n] = Offered(n, m)]
        /\ witness(n, m, mem[n].early[m])
        /\ step' = [step EXCEPT ![n] = IF Held(n) = {m} THEN Idle ELSE @]
    /\ UNCHANGED <<made, air, carried, crashes>>

----------------------------------------------------------------------------
(* Receiving.                                                              *)

\* The votes a repair request f makes n queue: its own if the requester lacks
\* it, and, if the requester can hear n, those n holds and the requester lacks.
Owed(n, f) ==
    {g \in made \cup air :
        \/ /\ n \notin f.heard /\ has_voted(n)
           /\ g = OutboxVote(journal[n], n)
        \/ /\ n \in f.heard
           /\ g.author \notin f.heard \cup {f.author}
           /\ journal[n].witnessed[g.author] = g.sequence}

\* What reading f does to the process: join if waiting, mark the sequence,
\* hold a vote that is early, count one that is not, note an acknowledgement,
\* queue what a repair request asks for.
Learn(n, f) ==
    LET vote == f.stage = "BindingSupport"
        owed == IF f.stage = "Nack" /\ Joined(n) /\ RepairOpen(n) /\ ~mem[n].repaired
                THEN Owed(n, f) ELSE {}
    IN  [mem[n] EXCEPT
            !.status = IF @ = "waiting" THEN "consulting" ELSE @,
            !.windows[f.author] = mark(@, f.sequence),
            !.early[f.author] = IF vote /\ ~closed(n) THEN f.sequence ELSE @,
            !.tally[f.author] = IF vote /\ closed(n) THEN Counted(@, f.sequence) ELSE @,
            !.acknowledged = @ \/ n \in f.heard,
            !.forwards = @ \cup owed,
            !.repaired = @ \/ owed # {},
            !.due = @ \/ owed # {}]

\* Admit a frame and remember its sequence; a counted vote is witnessed next.
receive(n, f) ==
    /\ step[n] = Idle
    /\ Up(n)
    /\ f.author # n \/ f \in carried
    /\ ~seen(mem[n].windows[f.author], f.sequence)
    /\ mem' = [mem EXCEPT ![n] = Learn(n, f)]
    /\ remember_seen(n, f.author, f.sequence)
    /\ step' = [step EXCEPT ![n] =
            IF mem'[n].tally # mem[n].tally THEN At("admitted", f) ELSE Idle]
    /\ UNCHANGED <<made, air, carried, crashes>>

witness_admitted(n) ==
    /\ step[n].at = "admitted"
    /\ witness(n, step[n].frame.author, step[n].frame.sequence)
    /\ step' = [step EXCEPT ![n] = Idle]
    /\ UNCHANGED <<mem, made, air, carried, crashes>>

----------------------------------------------------------------------------
(* Repair, the end of the round, and a replaying member.                   *)

\* The next repair round begins on this member's timeline.
repair_round(n) ==
    /\ step[n] = Idle
    /\ closed(n) /\ VotingOver(n)
    /\ mem[n].repair < RepairRounds
    /\ mem' = [mem EXCEPT ![n].repair = @ + 1, ![n].nacked = FALSE, ![n].repaired = FALSE]
    /\ UNCHANGED <<journal, step, made, air, carried, crashes, refusals>>

\* Its own slot of the resend window: one frame, its own vote before others'.
carry(n) ==
    /\ step[n] = Idle
    /\ Up(n) /\ mem[n].due
    /\ \E f \in mem[n].forwards :
        /\ (\E g \in mem[n].forwards : g.author = n) => f.author = n
        /\ IF f.author = n
           THEN air' = air \cup {f} /\ UNCHANGED carried
           ELSE carried' = carried \cup {f} /\ UNCHANGED air
        /\ mem' = [mem EXCEPT ![n].due = FALSE, ![n].forwards = @ \ {f}]
    /\ UNCHANGED <<journal, step, made, crashes, refusals>>

\* The schedule has run its course: report the tally and exit.
finish(n) ==
    /\ step[n] = Idle
    /\ closed(n) /\ VotingOver(n)
    /\ mem[n].repair = RepairRounds
    /\ mem' = [mem EXCEPT ![n] = [Down EXCEPT !.status = "done", !.tally = mem[n].tally]]
    /\ UNCHANGED <<journal, step, made, air, carried, crashes, refusals>>

endorsed(n) == mem[n].status = "done" /\ approved(policy, binding_supporters(n))

\* Adversary::Replay puts back a frame it has heard.
Replay(n, f) ==
    /\ n \in Replayers /\ Up(n)
    /\ f.author # n /\ seen(mem[n].windows[f.author], f.sequence)
    /\ carried' = carried \cup {f}
    /\ UNCHANGED <<journal, mem, step, made, air, crashes, refusals>>

----------------------------------------------------------------------------
\* What a member's own loop does, given time.
Loop(n) ==
    \/ Restart(n)
    \/ \E stage \in Stages : reserve(n, stage)
    \/ commit_vote(n)
    \/ from_outbox(n)
    \/ transmit(n)
    \/ remember_own(n)
    \/ slot_missed(n)
    \/ acknowledged(n)
    \/ close_consultation(n)
    \/ drain(n)
    \/ witness_admitted(n)
    \/ repair_round(n)
    \/ carry(n)
    \/ finish(n)

Receive(n) == \E f \in air \cup carried : receive(n, f)

Next ==
    \E n \in Members :
        \/ Loop(n)
        \/ Receive(n)
        \/ Crash(n)
        \/ \E f \in air : Replay(n, f)

Spec == Init /\ [][Next]_vars

\* The process is scheduled, restarted when it died, and its loop reaches
\* every one of its steps.
LoopSpec == Spec /\ \A n \in Members : WF_vars(Loop(n))

\* The radio is kind as well: a frame on the air is delivered in the end.
DeliveredSpec == LoopSpec /\ \A n \in Members : WF_vars(Receive(n))

----------------------------------------------------------------------------
(* Properties.                                                             *)

\* No two different frames are ever sealed under one author and sequence,
\* which are the nonce (wire/crypto.rs nonce_for), over any restarts.
NoncesUnique ==
    \A f, g \in air : f.author = g.author /\ f.sequence = g.sequence => f = g

\* A member that follows its journal transmits one binding vote on the case,
\* however often it dies between reserving, committing and transmitting: what
\* is repeated is the same frame.
OneBindingFrame ==
    \A f, g \in air :
        /\ f.author = g.author /\ f.author \notin DoubleVoters
        /\ f.stage = "BindingSupport" /\ g.stage = "BindingSupport"
        => f = g

\* The votes of m that n counts, holds, or has witnessed.
Recorded(n, m) ==
    {mem[n].tally[m], mem[n].early[m], journal[n].witnessed[m]} \ {None}

\* A vote counted anywhere, now or in a life to come, is one its author is
\* durably bound to: the lock is held and the very frame is in the outbox.
CountedIsCommitted ==
    \A n \in Members, m \in Members \ DoubleVoters :
        \A sequence \in Recorded(n, m) :
            /\ TheCase \in journal[m].locks
            /\ sequence \in {p.sequence : p \in journal[m].pending}

\* Once consultation is closed and the held votes drained, the tally is missing
\* nothing the journal holds: neither a vote witnessed in an earlier life nor
\* the member's own.
RestoredIsCounted ==
    \A n \in Members : (closed(n) /\ step[n] = Idle) =>
        /\ \A m \in Members : journal[n].witnessed[m] # None => mem[n].tally[m] # None
        /\ has_voted(n) => mem[n].tally[n] # None

\* An endorsement stands on a majority of the honest members being durably
\* bound to the claim.
EndorsementIsBacked ==
    (\E n \in Members : endorsed(n)) =>
        2 * Cardinality({m \in Honest : has_voted(m)}) > Cardinality(Honest)

\* With honest acknowledgements and a journal that can be written, a member
\* that stops repeating its vote leaves it durably with somebody else: the
\* bitmap speaks of votes the sender cannot lose to a crash.
AcknowledgedIsDurable ==
    \A n \in Members : (refusals = 0 /\ Up(n) /\ mem[n].acknowledged) =>
        \E m \in Members \ {n} : journal[m].witnessed[n] # None

\* What a member counts from an author is what its journal says that author
\* voted: a second, contradicting vote counts nowhere, unless a crash has come
\* between the two.
CountsWhatItWitnessed ==
    \A n, m \in Members :
        /\ crashes = 0 \/ m \notin DoubleVoters
        /\ mem[n].tally[m] # None /\ journal[n].witnessed[m] # None
        => mem[n].tally[m] = journal[n].witnessed[m]

\* A vote that came too early is held and offered when consultation closes:
\* refusing is not forgetting.
HeldVotesAreOffered ==
    \A n, m \in Members : (mem[n].early[m] # None) ~> (mem[n].tally[m] # None)

----------------------------------------------------------------------------
(* The inductive invariant behind the first five.                          *)

Votes == [Members -> Nat \cup {None}]

Windows == [highest : Nat \cup {Nothing}, bits : SUBSET Word]

Running == [status : {"waiting", "consulting", "collecting"},
            early : Votes, tally : Votes, windows : [Members -> Windows],
            acknowledged : BOOLEAN, attempts : Nat, sent : SUBSET Stages,
            repair : Nat, nacked : BOOLEAN, repaired : BOOLEAN,
            forwards : SUBSET AirFrames, due : BOOLEAN]

Stopped == [status : {"down", "done"}, tally : Votes, early : Votes]

Steps == [at : {"idle", "draining"}]
            \cup [at : {"reserved", "built", "sent", "admitted"}, frame : AirFrames]

TypeOK ==
    /\ journal \in [Members -> State]
    /\ mem \in [Members -> Running \cup Stopped]
    /\ step \in [Members -> Steps]
    /\ made \subseteq AirFrames /\ air \subseteq AirFrames /\ carried \subseteq AirFrames
    /\ crashes \in Nat /\ refusals \in Nat

\* A frame n has built and may still transmit, or has just transmitted.
InHand(n, places) == IF step[n].at \in places THEN {step[n].frame} ELSE {}

\* Every frame a sequence has been spent on.
Sealed == air \cup made \cup UNION {InHand(n, {"reserved", "built", "sent"}) : n \in Members}

\* The frames past the point where a vote is committed.
Released == air \cup UNION {InHand(n, {"built", "sent"}) : n \in Members}

SealedBelowCounter == \A f \in Sealed : f.sequence < journal[f.author].next_sequence

SealedOnce ==
    \A f, g \in Sealed : f.author = g.author /\ f.sequence = g.sequence => f = g

\* What a loop between two writes is in the middle of.
StepFits(n) ==
    /\ step[n].at # "idle" => Up(n)
    /\ step[n].at \in {"reserved", "built", "sent"} => step[n].frame.author = n
    /\ step[n].at = "reserved" =>
        step[n].frame.stage = "BindingSupport" /\ ~has_voted(n)
    /\ step[n].at = "admitted" =>
        /\ step[n].frame \in air \cup made
        /\ step[n].frame.stage = "BindingSupport"
        /\ mem[n].tally[step[n].frame.author] # None
    /\ step[n].at = "draining" => closed(n)
    /\ (step[n].at \notin {"idle", "draining"} /\ step[n].frame.stage = "BindingSupport")
            => closed(n)

ForwardsWereSealed(n) == Up(n) => mem[n].forwards \subseteq air \cup made

RecordsAreBinding(n) ==
    \A m \in Members : \A sequence \in Recorded(n, m) :
        \E f \in air \cup made :
            f.author = m /\ f.sequence = sequence /\ f.stage = "BindingSupport"

\* The vote of m is in the tally of n or still to be offered to it.
Kept(n, m) ==
    \/ mem[n].tally[m] # None
    \/ mem[n].early[m] # None /\ (~closed(n) \/ step[n].at = "draining")

NothingDropped(n) ==
    Up(n) => /\ \A m \in Members : journal[n].witnessed[m] # None => Kept(n, m)
             /\ has_voted(n) =>
                    \/ Kept(n, n)
                    \/ step[n].at = "built" /\ step[n].frame.stage = "BindingSupport"

MemberInv(n) ==
    StepFits(n) /\ ForwardsWereSealed(n) /\ RecordsAreBinding(n) /\ NothingDropped(n)

OutboxHoldsTheVote ==
    /\ \A f \in made :
        /\ f.stage = "BindingSupport" /\ has_voted(f.author)
        /\ journal[f.author].pending = {OutgoingFrame(f.sequence, TheCase, {})}
    /\ \A n \in Members : IF has_voted(n) THEN \E f \in made : f.author = n
                                          ELSE journal[n].pending = {}

ReleasedIsCommitted ==
    \A f \in Released : f.stage = "BindingSupport" =>
        has_voted(f.author) /\ (f.author \notin DoubleVoters => f \in made)

IndInv ==
    /\ TypeOK
    /\ SealedBelowCounter
    /\ SealedOnce
    /\ OutboxHoldsTheVote
    /\ ReleasedIsCommitted
    /\ carried \subseteq air \cup made
    /\ \A n \in Members : MemberInv(n)

----------------------------------------------------------------------------
(* What AcknowledgedIsDurable rests on, while no write has been refused.   *)

\* Somebody else holds the vote of n.
Durable(n) == \E m \in Members \ {n} : journal[m].witnessed[n] # None

\* Every bit of a frame's bitmap but its author's own is in that author's journal.
BitmapIsBacked(f) ==
    \A m \in f.heard \ {f.author} : journal[f.author].witnessed[m] # None

\* A vote of n's own that came back to it was carried, or is the one it made.
OwnIsKnown(n, sequence) ==
    sequence # None => \/ Durable(n)
                       \/ \E f \in made : f.author = n /\ f.sequence = sequence

BitsAreBacked(n) ==
    /\ step[n].at \in {"reserved", "built"} => BitmapIsBacked(step[n].frame)
    /\ step[n].at = "reserved" => n \notin step[n].frame.heard
    /\ step[n].at = "admitted" /\ step[n].frame.author = n => Durable(n)
    /\ OwnIsKnown(n, journal[n].witnessed[n])
    /\ Up(n) =>
        /\ \A m \in Members \ {n} : mem[n].tally[m] # None =>
                \/ journal[n].witnessed[m] # None
                \/ step[n].at = "admitted" /\ step[n].frame.author = m
        /\ \A f \in mem[n].forwards : f.author # n => journal[n].witnessed[f.author] # None
        /\ OwnIsKnown(n, mem[n].early[n])
        /\ mem[n].acknowledged => Durable(n)

AckInv ==
    refusals = 0 =>
        /\ \A f \in air \cup made : BitmapIsBacked(f)
        /\ \A f \in made : f.author \notin f.heard
        /\ \A f \in carried : Durable(f.author)
        /\ \A n \in Members : BitsAreBacked(n)

----------------------------------------------------------------------------
(* What CountsWhatItWitnessed rests on, while nobody has crashed.          *)

CountsOnce(n) ==
    /\ mem[n].status # "down"
    /\ mem[n].status \in {"waiting", "consulting"} =>
        \A m \in Members : mem[n].tally[m] = None /\ journal[n].witnessed[m] = None
    /\ closed(n) /\ step[n].at # "draining" => Held(n) = {}
    /\ \A m \in Held(n) : mem[n].tally[m] = None /\ journal[n].witnessed[m] = None
    /\ \A m \in Members : journal[n].witnessed[m] # None
                                => mem[n].tally[m] = journal[n].witnessed[m]
    /\ step[n].at = "admitted" => mem[n].tally[step[n].frame.author] = step[n].frame.sequence

CrashFreeInv == crashes = 0 => \A n \in Members : CountsOnce(n)

=============================================================================
