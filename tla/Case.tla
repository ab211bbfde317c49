-------------------------------- MODULE Case --------------------------------
(***************************************************************************)
(* One claim, as every node of the fleet remembers it: the state machine   *)
(* of src/src/domain/state/mod.rs, one instance per node, each driven by   *)
(* the node's own clock.  Two honest clocks never differ by more than      *)
(* Skew.  What a node is offered is arbitrary: any author, any stage, any  *)
(* verdict, this subject or another, in any order and any number of times; *)
(* authorship is established elsewhere.                                    *)
(***************************************************************************)
EXTENDS ProtocolTime, FiniteSets

CONSTANTS
    Nodes,
    Authors,
    Subjects,
    Subject,           \* the claim this case is about
    CutoffSeconds,     \* CONSULTATION_CUTOFF_SECONDS
    Expiries           \* validity ends the input system may supply

ASSUME CaseConstants ==
    /\ Subject \in Subjects
    /\ CutoffSeconds \in Nat
    /\ Expiries \subseteq Timestamp

Stages == {"Independent", "Consultation", "BindingSupport"}
Verdicts == {"Support", "Dispute", "InsufficientData"}
Opinions == [author : Authors, subject : Subjects, stage : Stages, verdict : Verdicts]
Phases == {"Consulting", "CollectingVotes"}

\* The case was raised at second zero.
consultation_cutoff == plus_secs(0, CutoffSeconds)

\* When the slot schedule lets the first binding vote on the air.
SettleSeconds == 2

\* Mutant: allowance for one clock that is off, not for two.
binding_stage_opens_one_skew == CutoffSeconds + Skew + SettleSeconds

binding_stage_opens == CutoffSeconds + 2 * Skew + SettleSeconds

VARIABLES
    now,           \* each node's own reading
    expires_at,    \* the case's expiry, the same at every node
    phase,
    independent,   \* the opinions consultation collected
    binding,       \* the votes counted
    voted          \* authors that have cast one

vars == <<now, expires_at, phase, independent, binding, voted>>

Honest(reading) == \A m, n \in Nodes : WithinSkew(reading[m], reading[n])

\* Case::open_until, at every node, with clocks that already disagree.
Init ==
    /\ now \in [Nodes -> {t \in Timestamp : t <= Skew}]
    /\ Honest(now)
    /\ expires_at \in Expiries
    /\ phase = [n \in Nodes |-> "Consulting"]
    /\ independent = [n \in Nodes |-> {}]
    /\ binding = [n \in Nodes |-> {}]
    /\ voted = [n \in Nodes |-> {}]

\* One node's clock moves on.
Tick(n) ==
    /\ now[n] < MaxSecond
    /\ now' = [now EXCEPT ![n] = @ + 1]
    /\ Honest(now')
    /\ UNCHANGED <<expires_at, phase, independent, binding, voted>>

\* Mutant: the cutoff is compared with the bare clock.
close_consultation_at_cutoff(n) ==
    /\ phase[n] # "CollectingVotes"
    /\ now[n] > consultation_cutoff
    /\ phase' = [phase EXCEPT ![n] = "CollectingVotes"]
    /\ UNCHANGED <<now, expires_at, independent, binding, voted>>

\* Mutant: an expired case is not closed.
close_consultation_while_valid(n) ==
    /\ phase[n] # "CollectingVotes"
    /\ certainly_after(now[n], consultation_cutoff)
    /\ ~certainly_after(now[n], expires_at)
    /\ phase' = [phase EXCEPT ![n] = "CollectingVotes"]
    /\ UNCHANGED <<now, expires_at, independent, binding, voted>>

close_consultation(n) ==
    /\ phase[n] # "CollectingVotes"
    /\ certainly_after(now[n], consultation_cutoff)
    /\ phase' = [phase EXCEPT ![n] = "CollectingVotes"]
    /\ UNCHANGED <<now, expires_at, independent, binding, voted>>

\* What accept checks before it looks at the phase.
Admissible(n, opinion) ==
    /\ opinion.subject = Subject
    /\ ~certainly_after(now[n], expires_at)

\* Mutant: an opinion is filed whatever the phase.
accept_opinion_any_phase(n, opinion) ==
    /\ Admissible(n, opinion)
    /\ opinion.stage # "BindingSupport"
    /\ ~\E o \in independent[n] : o.author = opinion.author /\ o.stage = opinion.stage
    /\ independent' = [independent EXCEPT ![n] = @ \cup {opinion}]
    /\ UNCHANGED <<now, expires_at, phase, binding, voted>>

\* accept while consulting: one opinion per author and stage, a repeat is the
\* same opinion.  A binding vote is WrongStageForPhase.
accept_opinion(n, opinion) ==
    /\ Admissible(n, opinion)
    /\ phase[n] = "Consulting"
    /\ opinion.stage # "BindingSupport"
    /\ ~\E o \in independent[n] : o.author = opinion.author /\ o.stage = opinion.stage
    /\ independent' = [independent EXCEPT ![n] = @ \cup {opinion}]
    /\ UNCHANGED <<now, expires_at, phase, binding, voted>>

\* Mutant: a vote near the expiry is counted on the bare clock.
accept_vote_uncertain(n, opinion) ==
    /\ Admissible(n, opinion)
    /\ phase[n] = "CollectingVotes"
    /\ opinion.stage = "BindingSupport"
    /\ opinion.author \notin voted[n]
    /\ voted' = [voted EXCEPT ![n] = @ \cup {opinion.author}]
    /\ binding' = [binding EXCEPT ![n] = @ \cup {opinion}]
    /\ UNCHANGED <<now, expires_at, phase, independent>>

\* Mutant: only a vote equal to one already counted is a repeat.
accept_vote_again(n, opinion) ==
    /\ Admissible(n, opinion)
    /\ phase[n] = "CollectingVotes"
    /\ opinion.stage = "BindingSupport"
    /\ ~uncertain_about(now[n], expires_at)
    /\ opinion \notin binding[n]
    /\ voted' = [voted EXCEPT ![n] = @ \cup {opinion.author}]
    /\ binding' = [binding EXCEPT ![n] = @ \cup {opinion}]
    /\ UNCHANGED <<now, expires_at, phase, independent>>

\* accept while collecting votes: an opinion is ConsultationClosed; a vote
\* needs certainty that the case is still valid (TimeUncertain) and an author
\* that has not voted (AlreadyVoted).
accept_vote(n, opinion) ==
    /\ Admissible(n, opinion)
    /\ phase[n] = "CollectingVotes"
    /\ opinion.stage = "BindingSupport"
    /\ ~uncertain_about(now[n], expires_at)
    /\ opinion.author \notin voted[n]
    /\ voted' = [voted EXCEPT ![n] = @ \cup {opinion.author}]
    /\ binding' = [binding EXCEPT ![n] = @ \cup {opinion}]
    /\ UNCHANGED <<now, expires_at, phase, independent>>

Next ==
    \E n \in Nodes :
        \/ Tick(n)
        \/ close_consultation(n)
        \/ \E opinion \in Opinions : accept_opinion(n, opinion) \/ accept_vote(n, opinion)

\* Clocks run, and the node's loop offers close_consultation on every turn.
Fairness == \A n \in Nodes : WF_vars(Tick(n)) /\ WF_vars(close_consultation(n))

Spec == Init /\ [][Next]_vars /\ Fairness

----------------------------------------------------------------------------
(* Properties.                                                             *)

\* Every node keeps a reading, a phase and sets of opinions and authors.
TypeOK ==
    /\ now \in [Nodes -> Timestamp]
    /\ expires_at \in Timestamp
    /\ phase \in [Nodes -> Phases]
    /\ independent \in [Nodes -> SUBSET Opinions]
    /\ binding \in [Nodes -> SUBSET Opinions]
    /\ voted \in [Nodes -> SUBSET Authors]

\* A node collects votes only once its own clock is certainly past the cutoff,
\* and has counted nobody before that.
CaseShape ==
    /\ \A n \in Nodes : phase[n] = "CollectingVotes" =>
            certainly_after(now[n], consultation_cutoff)
    /\ \A n \in Nodes : phase[n] = "Consulting" => voted[n] = {}

\* The inductive invariant: a node's phase, the other nodes' clocks and the
\* cutoff stay in step however the clocks drift within their bound.
IndInv == TypeOK /\ Honest(now) /\ CaseShape

\* A vote is counted only at a moment when EVERY honest clock is past the
\* consultation cutoff and no honest clock has reached the expiry: what one
\* node calls certain no other honest node would deny (Clock::certainly_after
\* and certainly_before, as accept and close_consultation use them).
VoteInEveryWindow ==
    [][\A n \in Nodes : binding'[n] # binding[n] =>
            \A m \in Nodes : /\ now[m] > consultation_cutoff
                             /\ now[m] < expires_at]_vars

\* Once one node has counted a vote, the consultation set of that node never
\* changes again and no counted vote is taken back or changed.
FrozenConsultation ==
    [][\A n \in Nodes : voted[n] # {} =>
            /\ independent'[n] = independent[n]
            /\ binding[n] \subseteq binding'[n]]_vars

\* No author weighs twice in a tally, whatever is replayed and whatever it
\* says the second time.
OneVotePerAuthor ==
    \A n \in Nodes :
        /\ voted[n] = {o.author : o \in binding[n]}
        /\ \A o, p \in binding[n] : o.author = p.author => o = p

\* By the time the slot schedule opens the binding stage on anyone's reading,
\* every honest member may already close consultation, however far behind its
\* clock is (BINDING_STAGE_OPENS_SECONDS).
AllMayCloseBeforeBindingSlots ==
    \A m, n \in Nodes :
        now[m] >= binding_stage_opens => certainly_after(now[n], consultation_cutoff)

\* Every node's consultation comes to an end.
ConsultationCloses == \A n \in Nodes : <>(phase[n] = "CollectingVotes")

=============================================================================
