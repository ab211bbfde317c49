---------------------------- MODULE JournalState ----------------------------
(***************************************************************************)
(* The durable state of one member's safety journal and the records that   *)
(* it is rebuilt from (src/src/infrastructure/log.rs, enum Entry, struct   *)
(* State).  The operators are shared by the abstract journal (Journal) and *)
(* by the append-only file that implements it (LogJournal).                *)
(*                                                                         *)
(* Data kept: a sealed frame is what the journal can tell about it, the    *)
(* sequence it was sealed under, the vote (lock key) it carries and its    *)
(* optional expiry.  An Option is a set of at most one element for an      *)
(* expiry, and the value None below every number for an epoch, a seen      *)
(* sequence and a witnessed frame.                                         *)
(***************************************************************************)
EXTENDS Integers, Sequences, FiniteSets, FiniteSetsExt

CONSTANTS
    Keys,      \* lock keys: (mission, event, revision, content hash, voter)
    Senders,   \* members whose sequences are remembered
    Authors,   \* members whose binding votes are witnessed
    Epochs,    \* mission epochs a manifest may name
    Times,     \* protocol seconds used as expiries and as "now"
    MaxSequence  \* no sequence is reserved at or past this bound (u64 in the code)

ASSUME JournalConstants ==
    /\ Epochs \subseteq Nat
    /\ Times \subseteq Nat
    /\ MaxSequence \in Nat
    /\ IsFiniteSet(Keys) /\ IsFiniteSet(Senders) /\ IsFiniteSet(Authors)

\* Option::None for the fields that are numbers.
None == -1

\* A frame in the outbox: OutgoingFrame { bytes, sequence, expires_at }.
OutgoingFrame(sequence, vote, expires_at) ==
    [sequence |-> sequence, vote |-> vote, expires_at |-> expires_at]

Expiries == {{}} \cup {{t} : t \in Times}

Frames == [sequence : Nat, vote : Keys, expires_at : Expiries]

----------------------------------------------------------------------------
(* Entries: one durable fact each.                                         *)

Vote(key, frame)           == [kind |-> "Vote", key |-> key, frame |-> frame]
Sequence(next)             == [kind |-> "Sequence", next |-> next]
Seen(sender, sequence)     == [kind |-> "Seen", sender |-> sender, sequence |-> sequence]
Epoch(epoch)               == [kind |-> "Epoch", epoch |-> epoch]
Retired(sequence)          == [kind |-> "Retired", sequence |-> sequence]
Witnessed(author, frame)   == [kind |-> "Witnessed", author |-> author, bytes |-> frame]
Lock(key)                  == [kind |-> "Lock", key |-> key]
Frame(frame)               == [kind |-> "Frame", frame |-> frame]

Entry ==
    [kind : {"Vote"}, key : Keys, frame : Frames]
        \cup [kind : {"Sequence"}, next : Nat]
        \cup [kind : {"Seen"}, sender : Senders, sequence : Nat]
        \cup [kind : {"Epoch"}, epoch : Epochs]
        \cup [kind : {"Retired"}, sequence : Nat]
        \cup [kind : {"Witnessed"}, author : Authors, bytes : Nat]
        \cup [kind : {"Lock"}, key : Keys]
        \cup [kind : {"Frame"}, frame : Frames]

----------------------------------------------------------------------------
(* The live state.                                                         *)

State == [epoch         : Epochs \cup {None},
          seen          : [Senders -> Nat \cup {None}],
          locks         : SUBSET Keys,
          pending       : SUBSET Frames,
          next_sequence : Nat,
          witnessed     : [Authors -> Nat \cup {None}]]

\* State::default()
EmptyState == [epoch         |-> None,
               seen          |-> [s \in Senders |-> None],
               locks         |-> {},
               pending       |-> {},
               next_sequence |-> 0,
               witnessed     |-> [a \in Authors |-> None]]

Larger(a, b) == IF a >= b THEN a ELSE b

\* BTreeMap::insert and BTreeMap::remove on the outbox, keyed by sequence.
InsertFrame(pending, frame) ==
    {f \in pending : f.sequence # frame.sequence} \cup {frame}

\* Mutant: split_off in place of remove keeps the frame it was to retire.
RemoveFrame_SplitOff(pending, sequence) ==
    {f \in pending : f.sequence >= sequence}

RemoveFrame(pending, sequence) ==
    {f \in pending : f.sequence # sequence}

\* State::add_frame
add_frame(state, frame) ==
    [state EXCEPT !.pending = InsertFrame(@, frame),
                  !.next_sequence = Larger(@, frame.sequence + 1)]

\* State::apply: what one record does to the state that replay is building.
apply(state, entry) ==
    CASE entry.kind = "Vote" ->
            add_frame([state EXCEPT !.locks = @ \cup {entry.key}], entry.frame)
      [] entry.kind = "Lock" ->
            [state EXCEPT !.locks = @ \cup {entry.key}]
      [] entry.kind = "Frame" ->
            add_frame(state, entry.frame)
      [] entry.kind = "Sequence" ->
            [state EXCEPT !.next_sequence = Larger(@, entry.next)]
      [] entry.kind = "Epoch" ->
            [state EXCEPT
                !.seen  = IF entry.epoch > state.epoch
                          THEN [s \in Senders |-> None] ELSE @,
                !.epoch = Larger(@, entry.epoch)]
      [] entry.kind = "Seen" ->
            [state EXCEPT !.seen[entry.sender] = Larger(@, entry.sequence)]
      [] entry.kind = "Retired" ->
            [state EXCEPT !.pending = RemoveFrame(@, entry.sequence)]
      [] entry.kind = "Witnessed" ->
            [state EXCEPT !.witnessed[entry.author] =
                IF @ = None THEN entry.bytes ELSE @]
=============================================================================
