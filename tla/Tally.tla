------------------------------- MODULE Tally --------------------------------
(***************************************************************************)
(* Endorsement under a policy: a fleet is provisioned, some of its members *)
(* are compromised within the fault budget, and every observer counts the  *)
(* supporters it hears, in any order and with any of them missing.  An     *)
(* honest member has one verdict; a compromised one may support at one     *)
(* observer and keep silent, or dispute, at another.                       *)
(***************************************************************************)
EXTENDS Policy

CONSTANTS
    Manifests,   \* member lists a fleet may be provisioned from
    Budgets,     \* fault budgets, in basis points
    Ratios,      \* competence ratio caps
    Observers    \* nodes that evaluate

ASSUME TallyConstants ==
    /\ Manifests \subseteq Seq([id : STRING, score : Nat])
    /\ Budgets \subseteq Nat

VARIABLES
    policy,      \* the policy, once a manifest was accepted
    faulty,      \* the compromised members
    convinced,   \* the honest members whose verdict is Support
    signers      \* per observer, the supporters it has counted

vars == <<policy, faulty, convinced, signers>>

NoPolicy == [competences |-> <<>>]

Init ==
    /\ policy = NoPolicy
    /\ faulty = {}
    /\ convinced = {}
    /\ signers = [o \in Observers |-> {}]

\* A manifest is accepted, and the world is what it is.
Provision(members, bps, ratio) ==
    /\ policy = NoPolicy
    /\ with_settings_ok(members, bps, ratio)
    /\ policy' = with_settings(members, bps, ratio)
    /\ \E bad \in SUBSET ids(members) :
        /\ Cardinality(bad) <= max_faulty(policy')
        /\ faulty' = bad
        /\ \E good \in SUBSET (ids(members) \ bad) : convinced' = good
    /\ UNCHANGED signers

\* An observer counts one more binding supporter.
Endorse(o, member) ==
    /\ member \in convinced \cup faulty
    /\ signers' = [signers EXCEPT ![o] = @ \cup {member}]
    /\ UNCHANGED <<policy, faulty, convinced>>

Next ==
    \/ \E members \in Manifests, bps \in Budgets, ratio \in Ratios :
            Provision(members, bps, ratio)
    \/ \E o \in Observers, member \in DOMAIN policy.competences : Endorse(o, member)

Spec == Init /\ [][Next]_vars

----------------------------------------------------------------------------
Provisioned == policy # NoPolicy

\* What concerns the policy alone is looked at before anything is counted.
JustProvisioned == Provisioned /\ \A o \in Observers : signers[o] = {}

\* The world a tally lives in: the compromised members are within the budget,
\* and only members are counted.
WithinBudget ==
    /\ IsFiniteSet(DOMAIN policy.competences)
    /\ Provisioned => policy.byzantine_bps \in Nat
    /\ faulty \subseteq DOMAIN policy.competences
    /\ Provisioned => Cardinality(faulty) <= max_faulty(policy)
    /\ \A o \in Observers : signers[o] \subseteq DOMAIN policy.competences

\* Two observers that each see the claim endorsed share a supporter that is
\* not compromised, whatever each of them missed: this is what the count
\* threshold of Policy::min_signers is for.
QuorumsShareHonest ==
    Provisioned => \A o, p \in Observers :
        (approved(policy, signers[o]) /\ approved(policy, signers[p]))
            => (signers[o] \cap signers[p]) \ faulty # {}

\* An endorsed claim has more honest supporters than honest members that do
\* not support it: the fault budget cannot carry a claim the honest majority
\* would not.
HonestMajority ==
    Provisioned => \A o \in Observers : approved(policy, signers[o]) =>
        2 * Cardinality(signers[o] \ faulty)
            > Cardinality(DOMAIN policy.competences \ faulty)

\* min_signers is what its comment says, the SMALLEST signer count whose
\* quorums all intersect in more than max_faulty members: the closed formula
\* against the definition, over all pairs of sets of signers.
MinSignersIsLeast ==
    JustProvisioned =>
        LET members == DOMAIN policy.competences
            safe(q) == \A a, b \in kSubset(q, members) :
                            Cardinality(a \cap b) > max_faulty(policy)
        IN  \A q \in 1 .. size(policy) : safe(q) <=> q >= min_signers(policy)
=============================================================================
