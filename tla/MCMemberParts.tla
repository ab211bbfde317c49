--------------------------- MODULE MCMemberParts ----------------------------
(* A small instance of the member's parts for TLC.                         *)
EXTENDS MemberParts

CONSTANTS long, brief, f1, f2, f3, f4

Plain == {f1, f2, f3, f4}

\* One long frame, one that expires, and enough others for the memory of what
\* was offered to overflow.
MCOffered ==
    {[sequence |-> long, bytes |-> 2, expires_at |-> {}],
     [sequence |-> brief, bytes |-> 1, expires_at |-> {1}]}
        \cup [sequence : Plain, bytes : {1}, expires_at : {{}}]

\* Nothing tells the plain frames apart but their identity.
Alike == Permutations(Plain)
=============================================================================
