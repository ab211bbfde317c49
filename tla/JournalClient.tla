---------------------------- MODULE JournalClient ----------------------------
(***************************************************************************)
(* What the caller of a journal has been told over all its lives, and what *)
(* it may rely on (src/src/application/journal.rs).  The abstract journal  *)
(* (Journal) and the file (LogJournal) answer to the same caller, so both  *)
(* are held to the same two promises.                                      *)
(***************************************************************************)
EXTENDS JournalState

CONSTANT Starts    \* where open_with_entropy may start a fresh counter

ASSUME StartsAssumption == Starts \subseteq Nat

VARIABLES
    handed,       \* every sequence reserve_sequence ever returned, in order
    inHand,       \* those returned in this life and not yet put in a vote
    votes,        \* the frames of every commit_vote that returned Ok
    acknowledged  \* sequences whose acknowledge returned true

\* "A sequence number is never reused" (journal.rs, module comment): over all
\* the lives of a journal, whatever crashes and failed writes lie between,
\* reserve_sequence never returns one number twice.
SequenceNeverReused ==
    \A i, j \in 1 .. Len(handed) : handed[i] = handed[j] => i = j

\* At most one commit_vote per lock key ever returns Ok, over all lives: the
\* member never decides one case twice.
OneVotePerCase ==
    \A f, g \in votes : f.vote = g.vote => f = g
=============================================================================
