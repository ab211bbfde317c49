------------------------------ MODULE Journal ------------------------------
(***************************************************************************)
(* What the trait Journal promises (src/src/application/journal.rs): one   *)
(* caller, one mutator at a time, every mutator either takes effect as a   *)
(* whole and survives any later crash, or does not happen.  A crash in the *)
(* middle of a mutator may leave either outcome, and its caller never      *)
(* learns which.  MemoryJournal is this with the crash left out; the file  *)
(* that survives the process is LogJournal, which implements this module.  *)
(***************************************************************************)
EXTENDS JournalClient

VARIABLES
    state,    \* the state a restart would find
    call,     \* the mutator in progress and the entry that records it
    done      \* the mutator has taken effect and has not been answered

vars == <<state, call, done, handed, inHand, votes, acknowledged>>

NoCall == [op |-> "none"]

Init ==
    /\ state = EmptyState
    /\ call = NoCall
    /\ done = FALSE
    /\ handed = <<>>
    /\ inHand = {}
    /\ votes = {}
    /\ acknowledged = {}

----------------------------------------------------------------------------
(* Calling a mutator.  The guard is the condition under which the code has *)
(* something to write; otherwise it returns at once and nothing changes.   *)

Call(op, entry) ==
    /\ call = NoCall
    /\ call' = [op |-> op, entry |-> entry]
    /\ UNCHANGED <<state, done, handed, inHand, votes, acknowledged>>

open_with_entropy(start) ==
    /\ state.next_sequence = 0
    /\ Call("open_with_entropy", Sequence(start))

commit_vote(key, sequence, expires_at) ==
    /\ sequence \in inHand
    /\ key \notin state.locks
    /\ Call("commit_vote", Vote(key, OutgoingFrame(sequence, key, expires_at)))

reserve_sequence ==
    /\ state.next_sequence < MaxSequence
    /\ Call("reserve_sequence", Sequence(state.next_sequence + 1))

acknowledge(sequence) ==
    /\ \E f \in state.pending : f.sequence = sequence
    /\ Call("acknowledge", Retired(sequence))

\* one frame of a drop_expired sweep
drop_expired(frame) ==
    /\ frame \in state.pending
    /\ frame.expires_at # {}
    /\ Call("drop_expired", Retired(frame.sequence))

witness(author, frame) ==
    /\ state.witnessed[author] = None
    /\ Call("witness", Witnessed(author, frame))

enter_epoch(epoch) ==
    /\ state.epoch < epoch
    /\ Call("enter_epoch", Epoch(epoch))

mark_seen(sender, sequence) ==
    /\ state.seen[sender] < sequence
    /\ Call("mark_seen", Seen(sender, sequence))

----------------------------------------------------------------------------
(* What becomes of it.                                                     *)

InProgress == call # NoCall

\* The change is durable.
Execute ==
    /\ InProgress /\ ~done
    /\ state' = apply(state, call.entry)
    /\ done' = TRUE
    /\ UNCHANGED <<call, handed, inHand, votes, acknowledged>>

\* The caller gets Ok.
Answer ==
    /\ done
    /\ done' = FALSE
    /\ call' = NoCall
    /\ handed' = IF call.op = "reserve_sequence"
                 THEN Append(handed, call.entry.next - 1) ELSE handed
    /\ inHand' = CASE call.op = "reserve_sequence" -> inHand \cup {call.entry.next - 1}
                   [] call.op = "commit_vote" -> inHand \ {call.entry.frame.sequence}
                   [] OTHER -> inHand
    /\ votes' = IF call.op = "commit_vote" THEN votes \cup {call.entry.frame} ELSE votes
    /\ acknowledged' = IF call.op = "acknowledge"
                       THEN acknowledged \cup {call.entry.sequence} ELSE acknowledged
    /\ UNCHANGED state

\* The caller gets NotDurable: the operation did not happen.
Refuse ==
    /\ InProgress /\ ~done
    /\ call' = NoCall
    /\ UNCHANGED <<state, done, handed, inHand, votes, acknowledged>>

\* The process dies.  What was in flight happened or it did not.
Crash ==
    /\ \/ state' = state
       \/ InProgress /\ ~done /\ state' = apply(state, call.entry)
    /\ call' = NoCall
    /\ done' = FALSE
    /\ inHand' = {}
    /\ UNCHANGED <<handed, votes, acknowledged>>

Next ==
    \/ \E start \in Starts : open_with_entropy(start)
    \/ \E key \in Keys, sequence \in inHand, expires_at \in Expiries :
            commit_vote(key, sequence, expires_at)
    \/ reserve_sequence
    \/ \E f \in state.pending : acknowledge(f.sequence)
    \/ \E f \in state.pending : drop_expired(f)
    \/ \E author \in Authors, frame \in 0 .. MaxSequence : witness(author, frame)
    \/ \E epoch \in Epochs : enter_epoch(epoch)
    \/ \E sender \in Senders, sequence \in 0 .. MaxSequence : mark_seen(sender, sequence)
    \/ Execute
    \/ Answer
    \/ Refuse
    \/ Crash

Spec == Init /\ [][Next]_vars

----------------------------------------------------------------------------
(* Properties.                                                             *)

Ops == {"open_with_entropy", "commit_vote", "reserve_sequence", "acknowledge",
        "drop_expired", "witness", "enter_epoch", "mark_seen"}

\* The state is one the log can rebuild, and the call in progress is one of the
\* trait's mutators with an entry of the log.
TypeOK ==
    /\ state \in State
    /\ call \in {NoCall} \cup [op : Ops, entry : Entry]
    /\ done \in BOOLEAN
    /\ handed \in Seq(Nat)
    /\ inHand \in SUBSET Nat
    /\ votes \in SUBSET Frames
    /\ acknowledged \in SUBSET Nat

\* A frame never outlives its acknowledgement: once acknowledge has returned
\* true the frame is not in the outbox, in this life or after a restart.
AcknowledgedStaysGone ==
    \A f \in state.pending : f.sequence \notin acknowledged

----------------------------------------------------------------------------
(* The inductive invariant behind them.                                    *)

\* Each mutator in progress carries the entry it was called with.
CallMatches ==
    /\ done => InProgress
    /\ InProgress =>
        \/ /\ call.op \in {"open_with_entropy", "reserve_sequence"}
           /\ call.entry \in [kind : {"Sequence"}, next : Nat]
        \/ /\ call.op = "commit_vote"
           /\ call.entry \in [kind : {"Vote"}, key : Keys, frame : Frames]
           /\ call.entry.frame.vote = call.entry.key
           /\ call.entry.frame.sequence \in inHand
        \/ /\ call.op \in {"acknowledge", "drop_expired"}
           /\ call.entry \in [kind : {"Retired"}, sequence : Nat]
           /\ call.entry.sequence < state.next_sequence
           /\ call.entry.sequence \notin inHand
        \/ /\ call.op = "witness"
           /\ call.entry \in [kind : {"Witnessed"}, author : Authors, bytes : Nat]
        \/ /\ call.op = "enter_epoch"
           /\ call.entry \in [kind : {"Epoch"}, epoch : Epochs]
        \/ /\ call.op = "mark_seen"
           /\ call.entry \in [kind : {"Seen"}, sender : Senders, sequence : Nat]

\* What was handed out is below the counter, and the number about to be handed
\* out is above everything handed out before.
CounterAhead ==
    /\ \A i \in 1 .. Len(handed) : handed[i] < state.next_sequence
    /\ \A i, j \in 1 .. Len(handed) : i < j => handed[i] < handed[j]
    /\ InProgress /\ call.op = "reserve_sequence" =>
        IF done
        THEN /\ call.entry.next = state.next_sequence
             /\ call.entry.next > 0
             /\ \A i \in 1 .. Len(handed) : handed[i] < call.entry.next - 1
        ELSE call.entry.next = state.next_sequence + 1

\* The lock of every committed vote is held, and a vote being committed is the
\* first for its key.
VotesLocked ==
    /\ \A f \in votes : f.vote \in state.locks
    /\ InProgress /\ call.op = "commit_vote" =>
        IF done
        THEN /\ call.entry.key \in state.locks
             /\ \A f \in votes : f.vote # call.entry.key
        ELSE call.entry.key \notin state.locks

\* A sequence is in hand, in the outbox, or acknowledged, never two of them,
\* and always below the counter.
OutboxFresh ==
    /\ \A n \in inHand : n < state.next_sequence /\ n \notin acknowledged
    /\ \A n \in acknowledged : n < state.next_sequence
    /\ \A f \in state.pending :
        /\ f.sequence < state.next_sequence
        /\ f.sequence \notin acknowledged
        /\ f.sequence \in inHand =>
              done /\ call.op = "commit_vote" /\ call.entry.frame.sequence = f.sequence
    /\ done /\ call.op \in {"acknowledge", "drop_expired"} =>
        \A f \in state.pending : f.sequence # call.entry.sequence
    /\ done /\ call.op = "reserve_sequence" =>
        /\ \A n \in acknowledged : n < call.entry.next - 1
        /\ \A f \in state.pending : f.sequence < call.entry.next - 1

\* What every call, effect, answer and crash preserves.
IndInv ==
    /\ TypeOK
    /\ CallMatches
    /\ CounterAhead
    /\ VotesLocked
    /\ OneVotePerCase
    /\ OutboxFresh
=============================================================================
