------------------------------- MODULE Policy -------------------------------
(***************************************************************************)
(* The fleet's policy and its two thresholds                               *)
(* (src/src/domain/quorum/policy.rs and evaluation.rs), as operators.  A    *)
(* policy maps each member to its competence.                              *)
(***************************************************************************)
EXTENDS Integers, Sequences, FiniteSets, FiniteSetsExt, Functions

BasisPoints == 10000
Scale == 100            \* Competence::SCALE

\* Competence::try_new
OnScale(score) == 1 <= score /\ score <= Scale

ids(members) == {members[i].id : i \in DOMAIN members}
Scores(members) == {members[i].score : i \in DOMAIN members}

Blank == ""

\* Policy::with_settings: the checks that make a manifest's member list,
\* fault budget and ratio cap a policy.
with_settings_ok(members, bps, ratio) ==
    /\ bps < BasisPoints
    /\ ratio >= 1
    /\ Blank \notin ids(members)
    /\ \A score \in Scores(members) : OnScale(score)
    /\ Cardinality(ids(members)) = Len(members)
    /\ members # <<>>
    /\ Max(Scores(members)) <= ratio * Min(Scores(members))

with_settings(members, bps, ratio) ==
    [competences |-> [id \in ids(members) |->
                        (CHOOSE m \in Range(members) : m.id = id).score],
     byzantine_bps |-> bps,
     max_competence_ratio |-> ratio]

size(policy) == Cardinality(DOMAIN policy.competences)

max_faulty(policy) == (policy.byzantine_bps * size(policy)) \div BasisPoints

\* Mutant: a majority of the members, whatever the fault budget.
min_signers_majority(policy) == (size(policy) \div 2) + 1

\* Mutant: half of the members and the faulty ones, rounded up.
min_signers_half(policy) == (size(policy) + max_faulty(policy) + 1) \div 2

min_signers(policy) == ((size(policy) + max_faulty(policy)) \div 2) + 1

CompetenceOf(policy, members) ==
    MapThenSumSet(LAMBDA m : policy.competences[m], members)

total_competence(policy) == CompetenceOf(policy, DOMAIN policy.competences)

\* evaluate: repeated ids collapse, hence a set.  A signer the policy does not
\* know is UnknownSigner, and nothing is approved.
known(policy, signers) == signers \subseteq DOMAIN policy.competences

count_met(policy, signers) == Cardinality(signers) >= min_signers(policy)

competence_met(policy, signers) ==
    3 * CompetenceOf(policy, signers) > 2 * total_competence(policy)

approved(policy, signers) ==
    /\ known(policy, signers)
    /\ count_met(policy, signers)
    /\ competence_met(policy, signers)

=============================================================================
