----------------------------- MODULE CaseProofs -----------------------------
(***************************************************************************)
(* Proofs about the case machine, for any fleet, any skew budget, cutoff   *)
(* and expiry, saturation at the end of time included.                     *)
(***************************************************************************)
EXTENDS Case, TLAPS

\* What one clock calls certainly past is past on every honest clock, and what
\* it calls certainly ahead is ahead on every honest clock.
LEMMA CertaintyIsShared ==
    ASSUME NEW a \in Timestamp, NEW b \in Timestamp, NEW deadline \in Timestamp,
           WithinSkew(a, b)
    PROVE  /\ certainly_after(a, deadline) => b > deadline
           /\ certainly_before(a, deadline) => b < deadline
           /\ ~(certainly_after(a, deadline) /\ certainly_before(b, deadline))
BY TimeConstants DEF Timestamp, WithinSkew, certainly_after, certainly_before, saturating_add

\* The cutoff is an instant.
LEMMA CutoffType == consultation_cutoff \in Timestamp
BY TimeConstants, CaseConstants
   DEF consultation_cutoff, plus_secs, saturating_add, Timestamp

\* Certainty does not wear off as a clock advances.
LEMMA StaysAfter ==
    ASSUME NEW a \in Timestamp, NEW deadline \in Timestamp, certainly_after(a, deadline)
    PROVE  certainly_after(a + 1, deadline)
BY TimeConstants DEF Timestamp, certainly_after, saturating_add

\* The honest clocks stay honest, and nobody collects votes before the cutoff
\* has certainly passed on its own clock.
THEOREM Shape == Spec => []IndInv
<1>1. Init => IndInv
  BY CaseConstants DEF Init, IndInv, TypeOK, CaseShape, Phases
<1>2. ASSUME IndInv, [Next]_vars
      PROVE  IndInv'
  <2> USE <1>2 DEF IndInv
  <2>1. ASSUME NEW n \in Nodes, Tick(n) PROVE IndInv'
    <3>1. /\ now' \in [Nodes -> Timestamp] /\ now'[n] = now[n] + 1
          /\ \A m \in Nodes \ {n} : now'[m] = now[m]
      BY <2>1, TimeConstants DEF Tick, TypeOK, Timestamp
    <3>2. TypeOK'
      BY <2>1, <3>1 DEF Tick, TypeOK
    <3>3. \A m \in Nodes : phase'[m] = "CollectingVotes" =>
                certainly_after(now'[m], consultation_cutoff)
      <4> SUFFICES ASSUME NEW m \in Nodes, phase[m] = "CollectingVotes"
                   PROVE  certainly_after(now'[m], consultation_cutoff)
        BY <2>1 DEF Tick
      <4>1. certainly_after(now[m], consultation_cutoff) /\ now[m] \in Timestamp
        BY DEF CaseShape, TypeOK
      <4> QED BY <3>1, <4>1, CutoffType, StaysAfter
    <3>4. (Honest(now))'
      BY <2>1 DEF Tick
    <3>5. \A m \in Nodes : phase'[m] = "Consulting" => voted'[m] = {}
      BY <2>1 DEF Tick, CaseShape
    <3> QED BY <3>2, <3>3, <3>4, <3>5 DEF CaseShape, consultation_cutoff
  <2>2. ASSUME NEW n \in Nodes, close_consultation(n) PROVE IndInv'
    BY <2>2 DEF close_consultation, TypeOK, Phases, Honest, CaseShape, consultation_cutoff
  <2>3. ASSUME NEW n \in Nodes, NEW opinion \in Opinions, accept_opinion(n, opinion)
        PROVE  IndInv'
    BY <2>3 DEF accept_opinion, TypeOK, Phases, Honest, CaseShape, consultation_cutoff
  <2>4. ASSUME NEW n \in Nodes, NEW opinion \in Opinions, accept_vote(n, opinion)
        PROVE  IndInv'
    <3>1. opinion.author \in Authors
      BY DEF Opinions
    <3>2. TypeOK'
      BY <2>4, <3>1 DEF accept_vote, TypeOK
    <3>3. \A m \in Nodes : phase[m] = "Consulting" => voted'[m] = {}
      BY <2>4 DEF accept_vote, TypeOK, CaseShape
    <3> QED BY <2>4, <3>2, <3>3 DEF accept_vote, Honest, CaseShape, consultation_cutoff
  <2>5. CASE UNCHANGED vars
    BY <2>5 DEF vars, TypeOK, Honest, CaseShape, consultation_cutoff
  <2> QED BY <2>1, <2>2, <2>3, <2>4, <2>5 DEF Next
<1> QED BY <1>1, <1>2, PTL DEF Spec

\* A vote is counted only while every honest clock is past the cutoff and
\* before the expiry.
THEOREM VotesInEveryWindow == Spec => VoteInEveryWindow
<1> DEFINE Inside == \A n \in Nodes : binding'[n] # binding[n] =>
            \A m \in Nodes : /\ now[m] > consultation_cutoff
                             /\ now[m] < expires_at
<1>1. ASSUME IndInv, [Next]_vars PROVE [Inside]_vars
  <2> SUFFICES ASSUME NEW n \in Nodes, binding'[n] # binding[n], NEW m \in Nodes
               PROVE  now[m] > consultation_cutoff /\ now[m] < expires_at
    OBVIOUS
  <2>1. PICK k \in Nodes, opinion \in Opinions : accept_vote(k, opinion)
    BY <1>1 DEF Next, vars, Tick, close_consultation, accept_opinion
  <2>2. k = n
    BY <1>1, <2>1 DEF accept_vote, IndInv, TypeOK
  <2>3. certainly_after(now[n], consultation_cutoff)
    BY <1>1, <2>1, <2>2 DEF accept_vote, IndInv, CaseShape
  <2>4. certainly_before(now[n], expires_at)
    BY <2>1, <2>2 DEF accept_vote, Admissible, uncertain_about
  <2>5. /\ now[n] \in Timestamp /\ now[m] \in Timestamp /\ expires_at \in Timestamp
        /\ WithinSkew(now[n], now[m])
    BY <1>1 DEF IndInv, TypeOK, Honest
  <2> QED BY <2>3, <2>4, <2>5, CutoffType, CertaintyIsShared
<1> QED BY <1>1, Shape, PTL DEF Spec, VoteInEveryWindow

\* A consultation that has been voted on is frozen, and votes stand.
THEOREM FrozenOnceVoted == Spec => FrozenConsultation
<1> DEFINE Frozen == \A n \in Nodes : voted[n] # {} =>
            /\ independent'[n] = independent[n]
            /\ binding[n] \subseteq binding'[n]
<1>1. ASSUME IndInv, [Next]_vars PROVE [Frozen]_vars
  <2> SUFFICES ASSUME NEW n \in Nodes, voted[n] # {}
               PROVE  independent'[n] = independent[n] /\ binding[n] \subseteq binding'[n]
    OBVIOUS
  <2>1. phase[n] = "CollectingVotes"
    BY <1>1 DEF IndInv, CaseShape, TypeOK, Phases
  <2>2. ASSUME NEW k \in Nodes, NEW opinion \in Opinions, accept_opinion(k, opinion)
        PROVE  independent'[n] = independent[n] /\ binding[n] \subseteq binding'[n]
    BY <1>1, <2>1, <2>2 DEF accept_opinion, IndInv, TypeOK
  <2>3. ASSUME NEW k \in Nodes, NEW opinion \in Opinions, accept_vote(k, opinion)
        PROVE  independent'[n] = independent[n] /\ binding[n] \subseteq binding'[n]
    BY <1>1, <2>3 DEF accept_vote, IndInv, TypeOK
  <2> QED BY <1>1, <2>2, <2>3 DEF Next, vars, Tick, close_consultation
<1> QED BY <1>1, Shape, PTL DEF Spec, FrozenConsultation

\* No author weighs twice in any node's tally.
THEOREM AuthorsVoteOnce == Spec => []OneVotePerAuthor
<1>1. Init => OneVotePerAuthor
  BY DEF Init, OneVotePerAuthor
<1>2. ASSUME IndInv, OneVotePerAuthor, [Next]_vars
      PROVE  OneVotePerAuthor'
  <2>1. ASSUME NEW k \in Nodes, NEW opinion \in Opinions, accept_vote(k, opinion)
        PROVE  OneVotePerAuthor'
    <3> SUFFICES ASSUME NEW n \in Nodes
                 PROVE  /\ voted'[n] = {o.author : o \in binding'[n]}
                        /\ \A o, p \in binding'[n] : o.author = p.author => o = p
      BY DEF OneVotePerAuthor
    <3>1. CASE n # k
      BY <1>2, <2>1, <3>1 DEF accept_vote, OneVotePerAuthor, IndInv, TypeOK
    <3>2. CASE n = k
      <4>1. /\ voted'[n] = voted[n] \cup {opinion.author}
            /\ binding'[n] = binding[n] \cup {opinion}
            /\ opinion.author \notin voted[n]
        BY <1>2, <2>1, <3>2 DEF accept_vote, IndInv, TypeOK
      <4>2. /\ voted[n] = {o.author : o \in binding[n]}
            /\ \A o, p \in binding[n] : o.author = p.author => o = p
        BY <1>2 DEF OneVotePerAuthor
      <4> QED BY <4>1, <4>2
    <3> QED BY <3>1, <3>2
  <2> QED BY <1>2, <2>1
       DEF Next, vars, Tick, close_consultation, accept_opinion, OneVotePerAuthor
<1> QED BY <1>1, <1>2, Shape, PTL DEF Spec

\* The slot schedule opens the binding stage late enough for everyone.
THEOREM BindingSlotsAreLate == Spec => []AllMayCloseBeforeBindingSlots
<1>1. ASSUME IndInv PROVE AllMayCloseBeforeBindingSlots
  <2> SUFFICES ASSUME NEW m \in Nodes, NEW n \in Nodes, now[m] >= binding_stage_opens
               PROVE  certainly_after(now[n], consultation_cutoff)
    BY DEF AllMayCloseBeforeBindingSlots
  <2>1. /\ now[n] \in Timestamp /\ now[m] \in Timestamp
        /\ WithinSkew(now[n], now[m])
    BY <1>1 DEF IndInv, TypeOK, Honest
  <2> QED BY <2>1, TimeConstants, CaseConstants
       DEF Timestamp, WithinSkew, certainly_after, saturating_add, plus_secs,
           consultation_cutoff, binding_stage_opens, SettleSeconds
<1> QED BY <1>1, Shape, PTL

=============================================================================
