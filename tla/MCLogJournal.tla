---------------------------- MODULE MCLogJournal ----------------------------
(* Small instances of LogJournal for TLC.                                  *)
EXTENDS LogJournal

CONSTANTS k1, k2, s1, a1

\* One case, one frame that may expire: the life of a vote.
OneKey == {k1}
TwoKeys == {k1, k2}
NoMembers == {}
OneSender == {s1}
OneAuthor == {a1}
=============================================================================
