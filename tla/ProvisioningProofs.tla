------------------------ MODULE ProvisioningProofs -------------------------
(***************************************************************************)
(* What the count threshold of Policy::min_signers guarantees, for every   *)
(* manifest, fault budget and set of observers; and what the signature on  *)
(* a manifest does, for every file and whatever is done to it.             *)
(***************************************************************************)
EXTENDS Provisioning, SequenceTheorems, FiniteSetTheorems, WellFoundedInduction, TLAPS

\* A member list names finitely many members.
LEMMA FinitelyManyIds ==
    ASSUME NEW list \in Manifests
    PROVE  IsFiniteSet(ids(list))
<1>1. list \in Seq([id : STRING, score : Nat])
  BY TallyConstants
<1> DEFINE n == Len(list)
           id == [i \in 1 .. n |-> list[i].id]
<1>2. n \in Nat /\ DOMAIN list = 1 .. n
  BY <1>1
<1>3. IsFiniteSet(1 .. n)
  BY <1>2, FS_Interval
<1>4. ids(list) = {id[i] : i \in 1 .. n}
  BY <1>2 DEF ids
<1>5. id \in Surjection(1 .. n, ids(list))
  BY <1>2, <1>4 DEF Surjection, ids
<1> QED BY <1>3, <1>5, FS_Surjection DEF ExistsSurjection

\* The two thresholds of a provisioned fleet are natural numbers.
LEMMA Thresholds ==
    ASSUME IsFiniteSet(DOMAIN policy.competences), policy.byzantine_bps \in Nat
    PROVE  /\ size(policy) \in Nat
           /\ max_faulty(policy) \in Nat
           /\ min_signers(policy) \in Nat
           /\ 2 * min_signers(policy) > size(policy) + max_faulty(policy)
<1>1. size(policy) \in Nat
  BY FS_CardinalityType DEF size
<1>2. policy.byzantine_bps * size(policy) \in Nat
  BY <1>1
<1>3. max_faulty(policy) \in Nat
  BY <1>2 DEF max_faulty, BasisPoints
<1> QED BY <1>1, <1>3 DEF min_signers

\* Taking the members of F out of A leaves at least the difference, and exactly
\* the difference when all of F was there.
LEMMA WithoutThem ==
    ASSUME NEW A, IsFiniteSet(A), NEW F, IsFiniteSet(F)
    PROVE  /\ Cardinality(A) <= Cardinality(A \ F) + Cardinality(F)
           /\ F \subseteq A => Cardinality(A \ F) + Cardinality(F) = Cardinality(A)
<1>1. IsFiniteSet(A \ F) /\ IsFiniteSet(A \cap F)
  BY FS_Subset, A \ F \in SUBSET A, A \cap F \in SUBSET A
<1>2. Cardinality((A \ F) \cup (A \cap F)) =
        Cardinality(A \ F) + Cardinality(A \cap F) - Cardinality((A \ F) \cap (A \cap F))
  BY <1>1, FS_Union
<1>3. (A \ F) \cup (A \cap F) = A /\ (A \ F) \cap (A \cap F) = {}
  OBVIOUS
<1>4. Cardinality(A) = Cardinality(A \ F) + Cardinality(A \cap F) - Cardinality({})
  BY <1>2, <1>3, Zenon
<1>5. Cardinality(A \cap F) <= Cardinality(F)
  BY FS_Subset, A \cap F \in SUBSET F
<1>6. F \subseteq A => Cardinality(A \cap F) = Cardinality(F)
  <2>1. F \subseteq A => A \cap F = F
    OBVIOUS
  <2> QED BY <2>1, Zenon
<1>7. /\ Cardinality(A) \in Nat /\ Cardinality(F) \in Nat
      /\ Cardinality(A \ F) \in Nat /\ Cardinality(A \cap F) \in Nat
  BY <1>1, FS_CardinalityType
<1>8. Cardinality({}) = 0
  BY FS_EmptySet
<1> QED BY <1>4, <1>5, <1>6, <1>7, <1>8

\* Provisioning a fleet from a list and counting supporters keep the budget.
LEMMA ProvisionKeepsBudget ==
    ASSUME WithinBudget, NEW list, IsFiniteSet(ids(list)), NEW bps \in Nat, NEW ratio,
           Provision(list, bps, ratio)
    PROVE  WithinBudget'
<1>1. DOMAIN policy'.competences = ids(list) /\ policy'.byzantine_bps = bps
  BY DEF Provision, with_settings
<1>2. DOMAIN policy.competences = {}
  BY DEF Provision, NoPolicy
<1>3. \A o \in Observers : signers'[o] = {}
  BY <1>2 DEF Provision, WithinBudget
<1>4. faulty' \subseteq ids(list) /\ Cardinality(faulty') <= max_faulty(policy')
  BY DEF Provision
<1> QED BY <1>1, <1>3, <1>4 DEF WithinBudget, Provisioned, max_faulty, size

LEMMA EndorseKeepsBudget ==
    ASSUME WithinBudget, NEW o \in Observers, NEW id \in DOMAIN policy.competences,
           Endorse(o, id)
    PROVE  WithinBudget'
<1>1. \A p \in Observers : signers'[p] \subseteq DOMAIN policy.competences
  BY DEF Endorse, WithinBudget
<1> QED BY <1>1 DEF Endorse, WithinBudget, Provisioned, max_faulty, size

\* The fault budget is respected and only members are counted, in every
\* reachable state.
THEOREM Budgeted == Spec => []WithinBudget
<1>1. Init => WithinBudget
  BY FS_EmptySet DEF Init, WithinBudget, NoPolicy, Provisioned
<1>2. ASSUME WithinBudget, [Next]_vars
      PROVE  WithinBudget'
  <2>1. ASSUME NEW list \in Manifests, NEW bps \in Budgets, NEW ratio \in Ratios,
               Provision(list, bps, ratio)
        PROVE  WithinBudget'
    BY <1>2, <2>1, FinitelyManyIds, TallyConstants, ProvisionKeepsBudget
  <2>2. ASSUME NEW o \in Observers, NEW id \in DOMAIN policy.competences,
               Endorse(o, id)
        PROVE  WithinBudget'
    BY <1>2, <2>2, EndorseKeepsBudget
  <2>3. CASE UNCHANGED vars
    BY <1>2, <2>3 DEF vars, WithinBudget, Provisioned, max_faulty, size
  <2> QED BY <1>2, <2>1, <2>2, <2>3 DEF Next
<1> QED BY <1>1, <1>2, PTL DEF Spec

\* Two observers that see a claim endorsed share an honest supporter.
LEMMA SharedWithinBudget ==
    ASSUME WithinBudget
    PROVE  QuorumsShareHonest
<1> SUFFICES ASSUME Provisioned, NEW o \in Observers, NEW p \in Observers,
                    approved(policy, signers[o]), approved(policy, signers[p]),
                    signers[o] \cap signers[p] \subseteq faulty
             PROVE  FALSE
  BY DEF QuorumsShareHonest
<1> DEFINE M == DOMAIN policy.competences
           A == signers[o]
           B == signers[p]
<1>1. /\ IsFiniteSet(M)
      /\ policy.byzantine_bps \in Nat
      /\ A \subseteq M /\ B \subseteq M /\ faulty \subseteq M
      /\ Cardinality(faulty) <= max_faulty(policy)
  BY DEF WithinBudget
<1>2. /\ IsFiniteSet(A) /\ IsFiniteSet(B) /\ IsFiniteSet(faulty) /\ IsFiniteSet(A \cup B)
      /\ Cardinality(A \cup B) <= Cardinality(M)
  BY <1>1, FS_Subset, A \cup B \in SUBSET M
<1>3. /\ Cardinality(A \cup B) = Cardinality(A) + Cardinality(B) - Cardinality(A \cap B)
      /\ Cardinality(A \cap B) <= Cardinality(faulty)
  <2>1. Cardinality(A \cup B) = Cardinality(A) + Cardinality(B) - Cardinality(A \cap B)
    BY <1>2, FS_Union
  <2>2. A \cap B \in SUBSET faulty
    OBVIOUS
  <2> QED BY <1>2, <2>1, <2>2, FS_Subset
<1>4. Cardinality(A) >= min_signers(policy) /\ Cardinality(B) >= min_signers(policy)
  BY DEF approved, count_met
<1>5. /\ Cardinality(M) = size(policy)
      /\ size(policy) \in Nat /\ max_faulty(policy) \in Nat /\ min_signers(policy) \in Nat
      /\ 2 * min_signers(policy) > size(policy) + max_faulty(policy)
  BY <1>1, Thresholds DEF size
<1>6. /\ Cardinality(A) \in Nat /\ Cardinality(B) \in Nat
      /\ Cardinality(faulty) \in Nat /\ Cardinality(A \cap B) \in Nat
      /\ Cardinality(A \cup B) \in Nat
  <2>1. IsFiniteSet(A \cap B)
    BY <1>2, FS_Subset, A \cap B \in SUBSET A
  <2> QED BY <1>2, <2>1, FS_CardinalityType
<1> HIDE DEF A, B, M
<1> QED BY <1>1, <1>2, <1>3, <1>4, <1>5, <1>6

\* An endorsed claim is supported by a majority of the honest members.
LEMMA MajorityWithinBudget ==
    ASSUME WithinBudget
    PROVE  HonestMajority
<1> SUFFICES ASSUME Provisioned, NEW o \in Observers, approved(policy, signers[o])
             PROVE  2 * Cardinality(signers[o] \ faulty)
                      > Cardinality(DOMAIN policy.competences \ faulty)
  BY DEF HonestMajority
<1> DEFINE M == DOMAIN policy.competences
           A == signers[o]
<1>1. /\ IsFiniteSet(M)
      /\ policy.byzantine_bps \in Nat
      /\ A \subseteq M /\ faulty \subseteq M
      /\ Cardinality(faulty) <= max_faulty(policy)
  BY DEF WithinBudget
<1>2. /\ IsFiniteSet(A) /\ IsFiniteSet(faulty)
      /\ IsFiniteSet(A \ faulty) /\ IsFiniteSet(M \ faulty) /\ IsFiniteSet(A \cap faulty)
  BY <1>1, FS_Subset, A \ faulty \in SUBSET M, M \ faulty \in SUBSET M,
     A \cap faulty \in SUBSET M
<1>3. Cardinality(A) <= Cardinality(A \ faulty) + Cardinality(faulty)
  BY <1>2, WithoutThem
<1>4. Cardinality(M \ faulty) + Cardinality(faulty) = Cardinality(M)
  BY <1>1, <1>2, WithoutThem
<1>5. Cardinality(A) >= min_signers(policy)
  BY DEF approved, count_met
<1>6. /\ Cardinality(M) = size(policy)
      /\ size(policy) \in Nat /\ max_faulty(policy) \in Nat /\ min_signers(policy) \in Nat
      /\ 2 * min_signers(policy) > size(policy) + max_faulty(policy)
  BY <1>1, Thresholds DEF size
<1>7. /\ Cardinality(A) \in Nat /\ Cardinality(A \ faulty) \in Nat
      /\ Cardinality(M \ faulty) \in Nat /\ Cardinality(faulty) \in Nat
  BY <1>2, FS_CardinalityType
<1> HIDE DEF A, M
<1>8. 2 * Cardinality(A \ faulty) > Cardinality(M \ faulty)
  BY <1>1, <1>3, <1>4, <1>5, <1>6, <1>7
<1> QED BY <1>8 DEF A, M

\* The members that a set of numbers names.
Numbered(f, I) == {f[i] : i \in I}

\* Numbering the members, a set of numbers names as many members.
LEMMA NumberedMembers ==
    ASSUME NEW n \in Nat, NEW M, NEW f \in Bijection(1 .. n, M), NEW I \in SUBSET (1 .. n)
    PROVE  /\ Numbered(f, I) \in SUBSET M
           /\ Cardinality(Numbered(f, I)) = Cardinality(I)
<1> DEFINE A == {f[i] : i \in I}
           g == [i \in I |-> f[i]]
<1>1. IsFiniteSet(I)
  BY FS_Interval, FS_Subset, 1 \in Int, n \in Int
<1>2. f \in [1 .. n -> M] /\ \A i, j \in 1 .. n : f[i] = f[j] => i = j
  BY DEF Bijection, Injection, IsInjective
<1>3. A \in SUBSET M
  BY <1>2
<1>4. g \in Bijection(I, A)
  BY <1>2 DEF Bijection, Injection, IsInjective, Surjection
<1>5. ExistsBijection(I, A)
  BY <1>4 DEF ExistsBijection
<1> QED BY <1>1, <1>3, <1>5, FS_Bijection DEF Numbered

\* Among n members there are two sets of q that share no more than they must.
LEMMA BarelyOverlapping ==
    ASSUME NEW M, IsFiniteSet(M), NEW q \in 1 .. Cardinality(M), NEW most \in Nat,
           2 * q <= Cardinality(M) + most
    PROVE  \E a, b \in kSubset(q, M) : Cardinality(a \cap b) <= most
<1> DEFINE n == Cardinality(M)
           low == 1 .. q
           high == n - q + 1 .. n
           both == n - q + 1 .. q
<1>1. n \in Nat /\ ExistsBijection(1 .. n, M)
  BY FS_CardinalityType
<1>2. PICK f \in Bijection(1 .. n, M) : TRUE
  BY <1>1 DEF ExistsBijection
<1>3. q \in Nat /\ n - q \in Nat /\ n - q + 1 \in Int /\ q \in Int /\ n \in Int /\ 2 * q <= n + most
  BY <1>1
<1> HIDE DEF n
<1>4. low \in SUBSET (1 .. n) /\ high \in SUBSET (1 .. n) /\ both \in SUBSET (1 .. n)
      /\ low \cap high = both
  BY <1>3
<1>5. /\ Cardinality(low) = q
      /\ Cardinality(high) = q
      /\ Cardinality(both) <= most
  <2>1. /\ Cardinality(1 .. q) = IF 1 > q THEN 0 ELSE q - 1 + 1
        /\ Cardinality(n - q + 1 .. n) = IF n - q + 1 > n THEN 0 ELSE n - (n - q + 1) + 1
        /\ Cardinality(n - q + 1 .. q) = IF n - q + 1 > q THEN 0 ELSE q - (n - q + 1) + 1
    BY <1>3, FS_Interval, 1 \in Int
  <2> QED BY <1>3, <2>1
<1> HIDE DEF low, high, both
<1> DEFINE a == Numbered(f, low)
           b == Numbered(f, high)
<1>n. /\ a \in SUBSET M /\ Cardinality(a) = Cardinality(low)
      /\ b \in SUBSET M /\ Cardinality(b) = Cardinality(high)
      /\ Cardinality(Numbered(f, both)) = Cardinality(both)
  BY <1>1, <1>2, <1>4, NumberedMembers
<1>6. a \in kSubset(q, M) /\ b \in kSubset(q, M)
  BY <1>5, <1>n DEF kSubset
<1>7. a \cap b = Numbered(f, both)
  <2>1. \A i, j \in 1 .. n : f[i] = f[j] => i = j
    BY <1>2 DEF Bijection, Injection, IsInjective
  <2> QED BY <1>4, <2>1 DEF Numbered
<1>8. Cardinality(a \cap b) = Cardinality(both)
  BY <1>7, <1>n
<1> QED BY <1>5, <1>6, <1>8

\* The formula of Policy::min_signers is the least threshold whose quorums all
\* share more members than can be faulty, for every fleet and budget.
LEMMA LeastWithinBudget ==
    ASSUME WithinBudget
    PROVE  MinSignersIsLeast
<1> DEFINE M == DOMAIN policy.competences
           safe(k) == \A a, b \in kSubset(k, M) : Cardinality(a \cap b) > max_faulty(policy)
<1> SUFFICES ASSUME JustProvisioned, NEW q \in 1 .. size(policy)
             PROVE  safe(q) <=> q >= min_signers(policy)
  BY DEF MinSignersIsLeast
<1>1. IsFiniteSet(M) /\ policy.byzantine_bps \in Nat
  BY DEF WithinBudget, JustProvisioned
<1> DEFINE n == size(policy)
           most == max_faulty(policy)
           least == min_signers(policy)
<1>2. /\ n \in Nat /\ most \in Nat /\ least \in Nat /\ 2 * least > n + most
      /\ Cardinality(M) = n /\ q \in Nat /\ q <= n
  BY <1>1, Thresholds DEF size
<1>3. 2 * (least - 1) <= n + most
  BY <1>2 DEF min_signers
<1> HIDE DEF n, most, least
<1>4. ASSUME q >= least, NEW a \in kSubset(q, M), NEW b \in kSubset(q, M)
      PROVE  Cardinality(a \cap b) > most
  <2>1. a \in SUBSET M /\ b \in SUBSET M /\ Cardinality(a) = q /\ Cardinality(b) = q
    BY DEF kSubset
  <2>2. IsFiniteSet(a) /\ IsFiniteSet(b) /\ IsFiniteSet(a \cup b) /\ IsFiniteSet(a \cap b)
    BY <1>1, <2>1, FS_Subset, a \cup b \in SUBSET M, a \cap b \in SUBSET M
  <2>3. Cardinality(a \cup b) <= n
    BY <1>1, <1>2, <2>1, FS_Subset, a \cup b \in SUBSET M
  <2>4. Cardinality(a \cup b) = Cardinality(a) + Cardinality(b) - Cardinality(a \cap b)
    BY <2>2, FS_Union
  <2>5. Cardinality(a \cup b) \in Nat /\ Cardinality(a \cap b) \in Nat
    BY <2>2, FS_CardinalityType
  <2> QED BY <1>2, <1>4, <2>1, <2>3, <2>4, <2>5
<1>5. ASSUME safe(q), ~(q >= least)
      PROVE  FALSE
  <2>1. 2 * q <= n + most
    BY <1>2, <1>3, <1>5
  <2>2. PICK a \in kSubset(q, M), b \in kSubset(q, M) : Cardinality(a \cap b) <= most
    <3>1. q \in 1 .. Cardinality(M)
      BY <1>2 DEF n
    <3> QED BY <1>1, <1>2, <2>1, <3>1, BarelyOverlapping
  <2>3. Cardinality(a \cap b) > most
    BY <1>5 DEF most
  <2>4. Cardinality(a \cap b) \in Nat
    <3>1. IsFiniteSet(a \cap b)
      BY <1>1, FS_Subset, a \cap b \in SUBSET M DEF kSubset
    <3> QED BY <3>1, FS_CardinalityType
  <2> QED BY <1>2, <2>2, <2>3, <2>4
<1> QED BY <1>4, <1>5 DEF most, least

----------------------------------------------------------------------------
(* The manifest: what a vessel runs under.                                 *)

\* A sequence is one of its own elements.
LEMMA OwnElements ==
    ASSUME NEW S, NEW s \in Seq(S)
    PROVE  s \in Seq(Range(s)) /\ Range(s) \subseteq S
<1>1. DOMAIN s = 1 .. Len(s) /\ Len(s) \in Nat /\ s \in [1 .. Len(s) -> S]
  OBVIOUS
<1>2. s \in [1 .. Len(s) -> Range(s)]
  BY <1>1 DEF Range
<1>3. s \in Seq(Range(s))
  BY <1>1, <1>2, SeqDef
<1> QED BY <1>1, <1>3 DEF Range

\* What is left when a line is taken out.
LEMMA RemoveAtIsSeq ==
    ASSUME NEW S, NEW s \in Seq(S), NEW i \in 1 .. Len(s)
    PROVE  RemoveAt(s, i) \in Seq(S)
<1>1. SubSeq(s, 1, i - 1) \in Seq(S) /\ SubSeq(s, i + 1, Len(s)) \in Seq(S)
  OBVIOUS
<1> QED BY <1>1, ConcatProperties DEF RemoveAt

\* A set of numbers has a least one.
LEMMA LeastOf ==
    ASSUME NEW T \in SUBSET Nat, T # {}
    PROVE  \E i \in T : \A j \in T : i <= j
<1>1. \A a, b \in Nat : <<a, b>> \in OpToRel(<, Nat) <=> a < b
  BY Zenon DEF OpToRel
<1>2. PICK i \in T : \A j \in T : ~ (<<j, i>> \in OpToRel(<, Nat))
  BY NatLessThanWellFounded, WFMin
<1>3. \A j \in T : ~(j < i)
  BY <1>1, <1>2
<1> QED BY <1>3

\* Dropping a line of a kind takes out the first such line, or nothing.
LEMMA WithoutLine ==
    ASSUME NEW S, NEW lines \in Seq(S), NEW word
    PROVE  \/ /\ Without(lines, word) = lines
              /\ \A i \in 1 .. Len(lines) : lines[i].word # word
           \/ \E i \in 1 .. Len(lines) :
                lines[i].word = word /\ Without(lines, word) = RemoveAt(lines, i)
<1> DEFINE places == {i \in 1 .. Len(lines) : lines[i].word = word}
<1>1. CASE places = {}
  <2>1. \A i \in 1 .. Len(lines) : lines[i].word # word
    BY <1>1
  <2>2. Without(lines, word) = lines
    BY <2>1 DEF Without, RemoveFirstMatch
  <2> QED BY <2>1, <2>2
<1>2. CASE places # {}
  <2>1. PICK i \in places : \A j \in places : i <= j
    <3>1. places \in SUBSET Nat
      OBVIOUS
    <3> QED BY <1>2, <3>1, LeastOf
  <2>2. Min(places) \in places
    BY <2>1 DEF Min
  <2>3. Without(lines, word) = RemoveAt(lines, Min(places))
    BY <1>2 DEF Without, RemoveFirstMatch, SelectInSeq
  <2> QED BY <2>2, <2>3
<1> QED BY <1>1, <1>2

\* Signing puts the new lines behind lines of the file.
LEMMA SignedLines ==
    ASSUME NEW S, NEW lines \in Seq(S), NEW admin
    PROVE  sign_text(lines, admin) \in
                Seq(S \cup {issuer(admin), signature(admin, canonical(lines))})
<1> DEFINE T == S \cup {issuer(admin), signature(admin, canonical(lines))}
           a == Without(lines, "issuer")
           b == Without(a, "signature")
           new == <<issuer(admin), signature(admin, canonical(lines))>>
<1>1. a \in Seq(S)
  BY WithoutLine, RemoveAtIsSeq
<1>2. b \in Seq(S)
  BY <1>1, WithoutLine, RemoveAtIsSeq
<1>3. b \in Seq(T)
  BY <1>2, SeqMonotonic
<1>4. new \in Seq(T)
  OBVIOUS
<1> HIDE DEF T, b, new
<1>5. b \o new \in Seq(T)
  BY <1>3, <1>4, ConcatProperties
<1> QED BY <1>5 DEF T, b, new, sign_text

\* An edit leaves lines that were there, or one of the replacements.
LEMMA EditedLines ==
    ASSUME file \in Seq(Range(file)), NEW i \in DOMAIN file, Edit(i)
    PROVE  file' \in Seq(Range(file) \cup Replacements)
<1> DEFINE T == Range(file) \cup Replacements
<1>1. file \in Seq(T) /\ i \in 1 .. Len(file) /\ file[i] \in T
  BY SeqMonotonic DEF Range
<1> HIDE DEF T
<1>2. CASE file' = RemoveAt(file, i)
  BY <1>1, <1>2, RemoveAtIsSeq
<1>3. CASE file' = InsertAt(file, i, file[i])
  <2>1. SubSeq(file, 1, i - 1) \in Seq(T) /\ SubSeq(file, i, Len(file)) \in Seq(T)
    BY <1>1
  <2>2. <<file[i]>> \in Seq(T)
    BY <1>1
  <2>3. SubSeq(file, 1, i - 1) \o <<file[i]>> \in Seq(T)
    BY <2>1, <2>2, ConcatProperties
  <2> QED BY <1>3, <2>1, <2>3, ConcatProperties DEF InsertAt
<1>4. CASE i > 1 /\ file' = [file EXCEPT ![i] = file[i - 1], ![i - 1] = file[i]]
  BY <1>1, <1>4
<1>5. ASSUME NEW line \in Replacements, file' = [file EXCEPT ![i] = line]
      PROVE  file' \in Seq(T)
  <2>1. line \in T
    BY DEF T
  <2> QED BY <1>1, <1>5, <2>1
<1> QED BY <1>2, <1>3, <1>4, <1>5 DEF Edit, T

\* A file that settles has as many members as it says, one per index.
LEMMA MembersByIndex ==
    ASSUME NEW S, NEW lines \in Seq(S), settle(lines)
    PROVE  /\ Cardinality(Indices(lines)) \in Nat
           /\ \A n \in 1 .. Cardinality(Indices(lines)) :
                \E i \in Lines(lines, {"member"}) :
                    members(lines)[n] = lines[i] /\ lines[i].index = n - 1
<1> DEFINE L == Lines(lines, {"member"})
           index == [i \in L |-> lines[i].index]
           k == Cardinality(Indices(lines))
<1>1. IsFiniteSet(L)
  <2>1. DOMAIN lines = 1 .. Len(lines) /\ Len(lines) \in Int /\ 1 \in Int
    OBVIOUS
  <2>2. IsFiniteSet(DOMAIN lines)
    BY <2>1, FS_Interval
  <2>3. L \in SUBSET DOMAIN lines
    BY DEF Lines
  <2> QED BY <2>2, <2>3, FS_Subset
<1>2. index \in Surjection(L, Indices(lines))
  BY DEF Surjection, Indices
<1>3. k \in Nat
  BY <1>1, <1>2, FS_Surjection, FS_CardinalityType DEF ExistsSurjection
<1>4. Indices(lines) = 0 .. k - 1
  BY DEF settle
<1> HIDE DEF k
<1>5. ASSUME NEW n \in 1 .. k
      PROVE  \E i \in L : members(lines)[n] = lines[i] /\ lines[i].index = n - 1
  <2>1. n - 1 \in Indices(lines)
    BY <1>3, <1>4
  <2>2. \E i \in L : lines[i].index = n - 1
    BY <2>1 DEF Indices
  <2>3. members(lines)[n] = lines[CHOOSE i \in L : lines[i].index = n - 1]
    BY DEF members, k
  <2> HIDE DEF L
  <2> QED BY <2>2, <2>3
<1> QED BY <1>3, <1>5 DEF k

\* What provision accepts is authorised, has one key per member, and gives the
\* policy its budget and its members.
LEMMA AcceptedIsSigned ==
    ASSUME NEW S, file \in Seq(S), \A line \in Range(file) : Genuine(line),
           NEW now, accepts(now)
    PROVE  /\ canonical(file) \in authorised
           /\ \A m, n \in DOMAIN members(file) :
                members(file)[m].key = members(file)[n].key => m = n
<1>1. read(file, TRUE) /\ settle(file) /\ verify(file, Trusted, now)
  BY DEF accepts, parse_ok
<1>2. canonical(file) \in authorised
  <2> DEFINE seals == Lines(file, {"signature"})
             seal == CHOOSE i \in seals : TRUE
  <2>1. seals # {}
    BY <1>1 DEF read
  <2>2. seal \in seals
    BY <2>1
  <2>3. seal \in DOMAIN file /\ file[seal].word = "signature"
    BY <2>2 DEF Lines
  <2>4. file[seal].by = Trusted /\ file[seal].form = canonical(file)
    BY <1>1 DEF verify
  <2>5. file[seal] \in Range(file)
    BY <2>3 DEF Range
  <2> HIDE DEF seal
  <2> QED BY <2>3, <2>4, <2>5 DEF Genuine
<1>3. ASSUME NEW m \in DOMAIN members(file), NEW n \in DOMAIN members(file),
             members(file)[m].key = members(file)[n].key
      PROVE  m = n
  <2>1. /\ m \in 1 .. Cardinality(Indices(file)) /\ n \in 1 .. Cardinality(Indices(file))
        /\ Cardinality(Indices(file)) \in Nat
    BY <1>1, MembersByIndex DEF members
  <2>2. PICK i \in Lines(file, {"member"}) :
            members(file)[m] = file[i] /\ file[i].index = m - 1
    BY <1>1, <2>1, MembersByIndex
  <2>3. PICK j \in Lines(file, {"member"}) :
            members(file)[n] = file[j] /\ file[j].index = n - 1
    BY <1>1, <2>1, MembersByIndex
  <2>4. i = j
    BY <1>1, <1>3, <2>2, <2>3 DEF read, DistinctMembers
  <2> QED BY <2>1, <2>2, <2>3, <2>4
<1> QED BY <1>2, <1>3

\* The file and the policy that came of it, through edits, signatures, starts
\* and stops.
THEOREM SignedInvariance == ProvisioningSpec => []SignedInv
<1>1. ProvisioningInit => SignedInv
  <2> SUFFICES ASSUME ProvisioningInit PROVE SignedInv
    OBVIOUS
  <2>1. file \in Drafts /\ running = {}
    BY DEF ProvisioningInit
  <2>2. file \in Seq(Range(file))
    BY <2>1, ProvisioningConstants
  <2>3. \A line \in Range(file) : Genuine(line)
    BY <2>1, Unforged DEF Genuine
  <2> QED BY <2>1, <2>2, <2>3 DEF SignedInv, RunsWhatWasSigned
<1>2. SignedInv /\ [ProvisioningNext]_provisioningVars => SignedInv'
  <2> SUFFICES ASSUME SignedInv, [ProvisioningNext]_provisioningVars PROVE SignedInv'
    OBVIOUS
  <2>0. /\ file \in Seq(Range(file))
        /\ \A line \in Range(file) : Genuine(line)
        /\ running # {} => policy # NoPolicy
        /\ RunsWhatWasSigned
    BY DEF SignedInv
  <2>1. ASSUME NEW i \in DOMAIN file, Edit(i) PROVE SignedInv'
    <3> DEFINE T == Range(file) \cup Replacements
    <3>1. file' \in Seq(T)
      BY <2>0, <2>1, EditedLines
    <3>2. /\ policy' = policy /\ running' = running /\ authorised' = authorised
          /\ epoch' = epoch
      BY <2>1 DEF Edit, vars
    <3>3. \A line \in T : Genuine(line)'
      BY <2>0, <3>2, Unforged DEF Genuine
    <3> HIDE DEF T
    <3>4. file' \in Seq(Range(file')) /\ Range(file') \subseteq T
      BY <3>1, OwnElements
    <3>5. \A line \in Range(file') : Genuine(line)'
      BY <3>3, <3>4
    <3>6. (running # {} => policy # NoPolicy)' /\ RunsWhatWasSigned'
      BY <2>0, <3>2 DEF RunsWhatWasSigned, NoPolicy
    <3> QED BY <3>4, <3>5, <3>6 DEF SignedInv, Genuine
  <2>2. ASSUME NEW admin \in Admins, sign(admin) PROVE SignedInv'
    <3>f. PICK form : form = canonical(file)
      OBVIOUS
    <3> DEFINE T == Range(file) \cup {issuer(admin), signature(admin, form)}
    <3>1. /\ file' \in Seq(T)
      BY <2>0, <2>2, <3>f, SignedLines DEF sign
    <3>2. /\ policy' = policy /\ running' = running /\ epoch' = epoch
          /\ authorised' = IF admin = Trusted THEN authorised \cup {form} ELSE authorised
      BY <2>2, <3>f DEF sign, vars
    <3>3. \A line \in T : Genuine(line)'
      <4>1. \A line \in Range(file) : Genuine(line)'
        BY <2>0, <3>2 DEF Genuine
      <4>2. Genuine(issuer(admin))'
        BY DEF Genuine, issuer
      <4>3. Genuine(signature(admin, form))'
        BY <3>2 DEF Genuine, signature
      <4> QED BY <4>1, <4>2, <4>3
    <3> HIDE DEF T
    <3>4. file' \in Seq(Range(file')) /\ Range(file') \subseteq T
      BY <3>1, OwnElements
    <3>5. \A line \in Range(file') : Genuine(line)'
      BY <3>3, <3>4
    <3>6. (running # {} => policy # NoPolicy)' /\ RunsWhatWasSigned'
      BY <2>0, <3>2 DEF RunsWhatWasSigned, NoPolicy
    <3> QED BY <3>4, <3>5, <3>6 DEF SignedInv, Genuine
  <2>3. ASSUME NEW now \in Clock, start(now) PROVE SignedInv'
    <3> DEFINE list == roster(file)
               bps == field(file, "byzantine-bps")
               ratio == field(file, "max-competence-ratio")
    <3>1. /\ accepts(now) /\ running' = {canonical(file)}
          /\ policy' = with_settings(list, bps, ratio)
          /\ file' = file /\ authorised' = authorised
          /\ epoch' = field(file, "epoch")
      BY <2>3 DEF start, Provision, enter_epoch, not_rolled_back
    <3>2. /\ policy'.byzantine_bps = bps /\ DOMAIN policy'.competences = ids(list)
          /\ DOMAIN policy' # DOMAIN NoPolicy
      BY <3>1 DEF with_settings, NoPolicy
    <3>3. /\ canonical(file) \in authorised
          /\ \A m, n \in DOMAIN members(file) :
                members(file)[m].key = members(file)[n].key => m = n
      BY <2>0, <3>1, AcceptedIsSigned
    <3>4. /\ canonical(file).headers["byzantine-bps"] = bps
          /\ canonical(file).headers["epoch"] = field(file, "epoch")
          /\ canonical(file).members = members(file)
      BY DEF canonical, Headers
    <3>5. ids(list) = {members(file)[n].id : n \in DOMAIN members(file)}
      BY DEF ids, roster
    <3> HIDE DEF list, bps, ratio
    <3>6. RunsWhatWasSigned'
      BY <3>1, <3>2, <3>3, <3>4, <3>5 DEF RunsWhatWasSigned
    <3> QED BY <2>0, <3>1, <3>2, <3>6 DEF SignedInv, Genuine, NoPolicy
  <2>4. CASE stop
    BY <2>0, <2>4 DEF stop, SignedInv, Genuine, RunsWhatWasSigned
  <2>5. CASE Count
    BY <2>0, <2>5 DEF Count, Endorse, manifestVars, SignedInv, Genuine, RunsWhatWasSigned, NoPolicy
  <2>6. CASE Direct
    <3>1. policy = NoPolicy
      BY <2>6 DEF Direct, Provision
    <3> QED BY <2>0, <2>6, <3>1 DEF Direct, manifestVars, SignedInv, Genuine, RunsWhatWasSigned
  <2>7. CASE UNCHANGED provisioningVars
    BY <2>0, <2>7 DEF provisioningVars, vars, manifestVars, SignedInv, Genuine,
                      RunsWhatWasSigned, NoPolicy
  <2> QED BY <2>1, <2>2, <2>3, <2>4, <2>5, <2>6, <2>7 DEF ProvisioningNext
<1> QED BY <1>1, <1>2, PTL DEF ProvisioningSpec

\* Whatever is done to a file on its way, a vessel counts under a fleet its
\* administrator signed and no other, of the latest epoch it ever ran under.
THEOREM OnlyWhatWasSigned == ProvisioningSpec => []RunsWhatWasSigned
<1>1. SignedInv => RunsWhatWasSigned
  BY DEF SignedInv
<1> QED BY <1>1, SignedInvariance, PTL

----------------------------------------------------------------------------
(* The count threshold of a fleet that runs, from a file or from a list.   *)

\* A file that parses names finitely many members.
LEMMA FiniteRoster ==
    ASSUME NEW S, NEW lines \in Seq(S), settle(lines)
    PROVE  IsFiniteSet(ids(roster(lines)))
<1> DEFINE k == Cardinality(Indices(lines))
           id == [n \in 1 .. k |-> roster(lines)[n].id]
<1>1. k \in Nat /\ DOMAIN roster(lines) = 1 .. k
  BY MembersByIndex DEF roster, members
<1>2. IsFiniteSet(1 .. k)
  BY <1>1, FS_Interval, 1 \in Int, k \in Int
<1>3. id \in Surjection(1 .. k, ids(roster(lines)))
  <2> HIDE DEF k
  <2> QED BY <1>1 DEF Surjection, ids
<1> QED BY <1>2, <1>3, FS_Surjection DEF ExistsSurjection

\* A vessel's fleet keeps to the budget of its file, through edits, signatures,
\* starts, counts and stops.
THEOREM VesselBudgeted == ProvisioningSpec => []BudgetInv
<1> DEFINE Parsed(line) == line.word = "byzantine-bps" => line.value \in Nat
<1>1. ProvisioningInit => BudgetInv
  <2> SUFFICES ASSUME ProvisioningInit PROVE BudgetInv
    OBVIOUS
  <2>1. WithinBudget
    BY FS_EmptySet DEF ProvisioningInit, Init, WithinBudget, NoPolicy, Provisioned
  <2>2. \A line \in Range(file) : Parsed(line)
    BY BudgetsParse DEF ProvisioningInit
  <2> QED BY <2>1, <2>2 DEF BudgetInv
<1>2. SignedInv /\ BudgetInv /\ [ProvisioningNext]_provisioningVars => BudgetInv'
  <2> SUFFICES ASSUME SignedInv, BudgetInv, [ProvisioningNext]_provisioningVars
               PROVE  BudgetInv'
    OBVIOUS
  <2>0. /\ file \in Seq(Range(file)) /\ WithinBudget
        /\ \A line \in Range(file) : Parsed(line)
    BY DEF SignedInv, BudgetInv
  <2>w. ASSUME UNCHANGED vars PROVE WithinBudget'
    BY <2>0, <2>w DEF vars, WithinBudget, Provisioned, max_faulty, size
  <2>f. ASSUME file' = file PROVE \A line \in Range(file') : Parsed(line)
    BY <2>0, <2>f
  <2>1. ASSUME NEW i \in DOMAIN file, Edit(i) PROVE BudgetInv'
    <3> DEFINE T == Range(file) \cup Replacements
    <3>1. file' \in Seq(T)
      BY <2>0, <2>1, EditedLines
    <3>2. \A line \in T : Parsed(line)
      BY <2>0, BudgetsParse
    <3> HIDE DEF T
    <3>3. Range(file') \subseteq T
      BY <3>1, OwnElements
    <3>4. UNCHANGED vars
      BY <2>1 DEF Edit
    <3> QED BY <2>w, <3>2, <3>3, <3>4 DEF BudgetInv
  <2>2. ASSUME NEW admin \in Admins, sign(admin) PROVE BudgetInv'
    <3>f. PICK form : form = canonical(file)
      OBVIOUS
    <3> DEFINE T == Range(file) \cup {issuer(admin), signature(admin, form)}
    <3>1. file' \in Seq(T)
      BY <2>0, <2>2, <3>f, SignedLines DEF sign
    <3>2. \A line \in T : Parsed(line)
      BY <2>0 DEF issuer, signature
    <3> HIDE DEF T
    <3>3. Range(file') \subseteq T
      BY <3>1, OwnElements
    <3>4. UNCHANGED vars
      BY <2>2 DEF sign
    <3> QED BY <2>w, <3>2, <3>3, <3>4 DEF BudgetInv
  <2>3. ASSUME NEW now \in Clock, start(now) PROVE BudgetInv'
    <3>1. settle(file) /\ file' = file
      BY <2>3 DEF start, accepts, parse_ok
    <3>2. PICK bps : bps = field(file, "byzantine-bps")
      OBVIOUS
    <3>3. bps \in Nat
      <4> DEFINE places == Lines(file, {"byzantine-bps"})
      <4>1. places # {}
        BY <3>1 DEF settle, Headers
      <4>2. PICK i \in places : bps = file[i].value
        BY <3>2, <4>1 DEF field
      <4>3. file[i] \in Range(file) /\ file[i].word = "byzantine-bps"
        BY <4>2 DEF Lines, Range
      <4> QED BY <2>0, <4>2, <4>3
    <3>4. PICK list, ratio : list = roster(file) /\ ratio = field(file, "max-competence-ratio")
      OBVIOUS
    <3>5. IsFiniteSet(ids(list))
      BY <2>0, <3>1, <3>4, FiniteRoster
    <3>6. Provision(list, bps, ratio)
      BY <2>3, <3>2, <3>4 DEF start
    <3>7. WithinBudget'
      BY <2>0, <3>3, <3>5, <3>6, ProvisionKeepsBudget
    <3> QED BY <2>f, <3>1, <3>7 DEF BudgetInv
  <2>4. CASE stop
    <3>1. WithinBudget'
      BY <2>4, FS_EmptySet DEF stop, WithinBudget, NoPolicy, Provisioned
    <3> QED BY <2>4, <2>f, <3>1 DEF stop, BudgetInv
  <2>5. CASE Count
    BY <2>0, <2>5, <2>f, EndorseKeepsBudget DEF Count, manifestVars, BudgetInv
  <2>6. CASE Direct
    <3>1. WithinBudget'
      BY <2>0, <2>6, FinitelyManyIds, TallyConstants, ProvisionKeepsBudget DEF Direct
    <3> QED BY <2>6, <2>f, <3>1 DEF Direct, manifestVars, BudgetInv
  <2>7. CASE UNCHANGED provisioningVars
    BY <2>7, <2>f, <2>w DEF provisioningVars, manifestVars, BudgetInv
  <2> QED BY <2>1, <2>2, <2>3, <2>4, <2>5, <2>6, <2>7 DEF ProvisioningNext
<1> QED BY <1>1, <1>2, SignedInvariance, PTL DEF ProvisioningSpec

\* Two observers that see a claim endorsed share an honest supporter, whatever
\* file the fleet was provisioned from, for every fleet and budget.
THEOREM SharedHonestSupporter ==
    /\ ProvisioningSpec => []QuorumsShareHonest
    /\ Spec => []QuorumsShareHonest
<1>1. WithinBudget => QuorumsShareHonest
  BY SharedWithinBudget
<1>2. BudgetInv => WithinBudget
  BY DEF BudgetInv
<1> QED BY <1>1, <1>2, VesselBudgeted, Budgeted, PTL

\* An endorsed claim is supported by a majority of the honest members, whatever
\* file the fleet was provisioned from.
THEOREM EndorsedByHonestMajority ==
    /\ ProvisioningSpec => []HonestMajority
    /\ Spec => []HonestMajority
<1>1. WithinBudget => HonestMajority
  BY MajorityWithinBudget
<1>2. BudgetInv => WithinBudget
  BY DEF BudgetInv
<1> QED BY <1>1, <1>2, VesselBudgeted, Budgeted, PTL

\* min_signers is the smallest safe count, for every fleet a file or a list can
\* provision.
THEOREM LeastSafeThreshold ==
    /\ ProvisioningSpec => []MinSignersIsLeast
    /\ Spec => []MinSignersIsLeast
<1>1. WithinBudget => MinSignersIsLeast
  BY LeastWithinBudget
<1>2. BudgetInv => WithinBudget
  BY DEF BudgetInv
<1> QED BY <1>1, <1>2, VesselBudgeted, Budgeted, PTL

----------------------------------------------------------------------------
(* What is signed can be loaded.                                           *)

\* The lines the canonical form is made of.
Content(lines) == Lines(lines, Headers \cup {"member"})

\* f takes the content of one file to that of another, line by line.
Carries(f, a, b) ==
    /\ f \in [Content(a) -> Content(b)]
    /\ \A i \in Content(a) : b[f[i]] = a[i]
    /\ \A j \in Content(b) : \E i \in Content(a) : f[i] = j
    /\ \A i, j \in Content(a) : i < j => f[i] < f[j]

\* Two files with the same content in the same order.
SameContent(a, b) == \E f : Carries(f, a, b)

\* What is where once a line is taken out.
LEMMA RemoveAtEntries ==
    ASSUME NEW S, NEW s \in Seq(S), NEW k \in 1 .. Len(s)
    PROVE  /\ RemoveAt(s, k) \in Seq(S)
           /\ Len(RemoveAt(s, k)) = Len(s) - 1
           /\ \A p \in 1 .. k - 1 : RemoveAt(s, k)[p] = s[p]
           /\ \A p \in k .. Len(s) - 1 : RemoveAt(s, k)[p] = s[p + 1]
<1> DEFINE before == SubSeq(s, 1, k - 1)
           after == SubSeq(s, k + 1, Len(s))
           whole == before \o after
<1>1. /\ before \in Seq(S) /\ Len(before) = k - 1
      /\ \A p \in 1 .. k - 1 : before[p] = s[p]
  OBVIOUS
<1>2. /\ after \in Seq(S) /\ Len(after) = Len(s) - k
      /\ \A p \in 1 .. Len(s) - k : after[p] = s[p + k]
  OBVIOUS
<1>3. RemoveAt(s, k) = whole
  BY DEF RemoveAt
<1>4. Len(s) \in Nat /\ k \in Nat /\ 1 <= k /\ k <= Len(s)
  OBVIOUS
<1> HIDE DEF before, after
<1>5. /\ whole \in Seq(S) /\ Len(whole) = Len(before) + Len(after)
      /\ \A p \in 1 .. Len(before) + Len(after) :
            whole[p] = IF p <= Len(before) THEN before[p] ELSE after[p - Len(before)]
  BY <1>1, <1>2, ConcatProperties
<1> HIDE DEF whole
<1>6. ASSUME NEW p \in 1 .. k - 1 PROVE whole[p] = s[p]
  <2>1. p \in 1 .. Len(before) + Len(after) /\ p <= Len(before)
    BY <1>1, <1>2, <1>4
  <2> QED BY <1>1, <1>5, <2>1
<1>7. ASSUME NEW p \in k .. Len(s) - 1 PROVE whole[p] = s[p + 1]
  <2>1. p - (k - 1) \in 1 .. Len(s) - k /\ p - (k - 1) + k = p + 1
    BY <1>4
  <2>2. /\ p \in 1 .. Len(before) + Len(after) /\ ~(p <= Len(before))
        /\ p - Len(before) = p - (k - 1)
    BY <1>1, <1>2, <1>4
  <2> QED BY <1>2, <1>5, <2>1, <2>2
<1>8. Len(whole) = Len(s) - 1
  BY <1>1, <1>2, <1>4, <1>5
<1> QED BY <1>3, <1>5, <1>6, <1>7, <1>8

\* Sameness of content goes through a third file.
LEMMA SameContentTrans ==
    ASSUME NEW a, NEW b, NEW c, SameContent(a, b), SameContent(b, c)
    PROVE  SameContent(a, c)
<1>1. PICK f : Carries(f, a, b)
  BY DEF SameContent
<1>2. PICK g : Carries(g, b, c)
  BY DEF SameContent
<1> DEFINE h == [i \in Content(a) |-> g[f[i]]]
<1>3. h \in [Content(a) -> Content(c)]
  BY <1>1, <1>2 DEF Carries
<1>4. \A i \in Content(a) : c[h[i]] = a[i]
  BY <1>1, <1>2 DEF Carries
<1>5. \A j \in Content(c) : \E i \in Content(a) : h[i] = j
  BY <1>1, <1>2 DEF Carries
<1>6. \A i, j \in Content(a) : i < j => h[i] < h[j]
  BY <1>1, <1>2 DEF Carries
<1> QED BY <1>3, <1>4, <1>5, <1>6 DEF Carries, SameContent

\* Taking out a line that is no content.
LEMMA RemoveAtKeepsContent ==
    ASSUME NEW S, NEW s \in Seq(S), NEW k \in 1 .. Len(s),
           s[k].word \notin Headers \cup {"member"}
    PROVE  SameContent(s, RemoveAt(s, k))
<1> DEFINE t == RemoveAt(s, k)
           f == [i \in Content(s) |-> IF i < k THEN i ELSE i - 1]
           W == Headers \cup {"member"}
<1>1. /\ t \in Seq(S) /\ Len(t) = Len(s) - 1 /\ Len(s) \in Nat
      /\ \A p \in 1 .. k - 1 : t[p] = s[p]
      /\ \A p \in k .. Len(s) - 1 : t[p] = s[p + 1]
  BY RemoveAtEntries
<1>2. DOMAIN s = 1 .. Len(s) /\ DOMAIN t = 1 .. Len(s) - 1
  BY <1>1
<1> HIDE DEF t, W
<1>3. /\ \A i : i \in Content(s) <=> i \in 1 .. Len(s) /\ s[i].word \in W
      /\ \A i : i \in Content(t) <=> i \in 1 .. Len(s) - 1 /\ t[i].word \in W
      /\ k \notin Content(s)
  BY <1>2 DEF Content, Lines, W
<1>4. ASSUME NEW i \in Content(s) PROVE f[i] \in Content(t) /\ t[f[i]] = s[i]
  <2>1. i \in 1 .. Len(s) /\ s[i].word \in W /\ i # k
    BY <1>3
  <2>2. CASE i < k
    <3>1. f[i] = i /\ i \in 1 .. k - 1 /\ i \in 1 .. Len(s) - 1
      BY <1>1, <2>1, <2>2
    <3> QED BY <1>1, <1>3, <2>1, <3>1
  <2>3. CASE i > k
    <3>1. f[i] = i - 1 /\ i - 1 \in k .. Len(s) - 1 /\ i - 1 \in 1 .. Len(s) - 1 /\ i - 1 + 1 = i
      BY <1>1, <2>1, <2>3
    <3>2. t[i - 1] = s[i - 1 + 1]
      BY <1>1, <3>1
    <3> QED BY <1>3, <2>1, <3>1, <3>2
  <2> QED BY <1>1, <2>1, <2>2, <2>3
<1>5. ASSUME NEW j \in Content(t) PROVE \E i \in Content(s) : f[i] = j
  <2>1. j \in 1 .. Len(s) - 1 /\ t[j].word \in W
    BY <1>3
  <2>2. CASE j < k
    <3>1. j \in 1 .. k - 1 /\ j \in 1 .. Len(s)
      BY <1>1, <2>1, <2>2
    <3>2. j \in Content(s)
      BY <1>1, <1>3, <2>1, <3>1
    <3> QED BY <2>2, <3>2
  <2>3. CASE ~(j < k)
    <3>1. j \in k .. Len(s) - 1 /\ j + 1 \in 1 .. Len(s) /\ ~(j + 1 < k) /\ j + 1 - 1 = j
      BY <1>1, <2>1, <2>3
    <3>2. j + 1 \in Content(s)
      BY <1>1, <1>3, <2>1, <3>1
    <3> QED BY <3>1, <3>2
  <2> QED BY <2>2, <2>3
<1>6. ASSUME NEW i \in Content(s), NEW j \in Content(s), i < j PROVE f[i] < f[j]
  <2>1. i \in 1 .. Len(s) /\ j \in 1 .. Len(s) /\ i # k /\ j # k
    BY <1>3
  <2> QED BY <1>1, <1>6, <2>1
<1> HIDE DEF f
<1>7. f \in [Content(s) -> Content(t)]
  BY <1>4 DEF f
<1> QED BY <1>4, <1>5, <1>6, <1>7 DEF Carries, SameContent, t

\* Writing lines that are no content behind a file.
LEMMA ConcatKeepsContent ==
    ASSUME NEW S, NEW s \in Seq(S), NEW n \in Seq(S),
           \A i \in DOMAIN n : n[i].word \notin Headers \cup {"member"}
    PROVE  SameContent(s, s \o n)
<1> DEFINE t == s \o n
           f == [i \in Content(s) |-> i]
           W == Headers \cup {"member"}
<1>1. /\ t \in Seq(S) /\ Len(t) = Len(s) + Len(n)
      /\ \A p \in 1 .. Len(s) + Len(n) : t[p] = IF p <= Len(s) THEN s[p] ELSE n[p - Len(s)]
  BY ConcatProperties
<1>2. DOMAIN s = 1 .. Len(s) /\ DOMAIN n = 1 .. Len(n) /\ Len(s) \in Nat /\ Len(n) \in Nat
  OBVIOUS
<1> HIDE DEF t, W
<1>3. DOMAIN t = 1 .. Len(s) + Len(n)
  BY <1>1
<1>4. \A i \in 1 .. Len(s) : i \in DOMAIN t /\ t[i] = s[i]
  BY <1>1, <1>2, <1>3
<1>5. \A i \in DOMAIN t : i \in 1 .. Len(s) \/ t[i].word \notin W
  <2> SUFFICES ASSUME NEW i \in DOMAIN t, i \notin 1 .. Len(s) PROVE t[i].word \notin W
    OBVIOUS
  <2>1. i - Len(s) \in DOMAIN n /\ t[i] = n[i - Len(s)]
    BY <1>1, <1>2, <1>3
  <2> QED BY <2>1 DEF W
<1>6. Content(t) = Content(s)
  BY <1>2, <1>4, <1>5 DEF Content, Lines, W
<1>7. \A i \in Content(s) : t[i] = s[i] /\ f[i] = i
  BY <1>2, <1>4 DEF Content, Lines
<1>8. f \in [Content(s) -> Content(t)]
  BY <1>6
<1> HIDE DEF f
<1>9. /\ \A j \in Content(t) : \E i \in Content(s) : f[i] = j
      /\ \A i \in Content(s) : t[f[i]] = s[i]
      /\ \A i, j \in Content(s) : i < j => f[i] < f[j]
  BY <1>6, <1>7
<1>10. Carries(f, s, t)
  BY <1>8, <1>9 DEF Carries
<1> QED BY <1>10 DEF SameContent, t

\* Files with the same content hold the same headers and members, in an order
\* that is lawful in both or in neither.
LEMMA SameForm ==
    ASSUME NEW S, NEW a \in Seq(S), NEW b \in Seq(S), SameContent(a, b),
           read(a, FALSE), settle(a)
    PROVE  /\ \A word \in Headers : \A i, j \in Lines(b, {word}) : i = j
           /\ \E version \in Lines(b, {"version"}) : \A i \in Lines(b, Headers) : version <= i
           /\ \A i \in Lines(b, Headers), j \in Lines(b, {"member"}) : i < j
           /\ DistinctMembers(b)
           /\ settle(b)
           /\ canonical(b) = canonical(a)
<1>0. PICK f : Carries(f, a, b)
  BY DEF SameContent
<1>1. DOMAIN a = 1 .. Len(a) /\ DOMAIN b = 1 .. Len(b) /\ Len(a) \in Nat /\ Len(b) \in Nat
  OBVIOUS
<1>2. ASSUME NEW words \in SUBSET (Headers \cup {"member"})
      PROVE  /\ Lines(a, words) \subseteq Content(a) /\ Lines(b, words) \subseteq Content(b)
             /\ \A i \in Lines(a, words) : f[i] \in Lines(b, words) /\ b[f[i]] = a[i]
             /\ \A j \in Lines(b, words) : \E i \in Lines(a, words) : f[i] = j
  <2>1. /\ Lines(a, words) \subseteq Content(a) /\ Lines(b, words) \subseteq Content(b)
    BY DEF Lines, Content
  <2>2. ASSUME NEW i \in Lines(a, words) PROVE f[i] \in Lines(b, words) /\ b[f[i]] = a[i]
    <3>1. f[i] \in Content(b) /\ b[f[i]] = a[i]
      BY <1>0, <2>1 DEF Carries
    <3> QED BY <3>1 DEF Lines, Content
  <2>3. ASSUME NEW j \in Lines(b, words) PROVE \E i \in Lines(a, words) : f[i] = j
    <3>1. PICK i \in Content(a) : f[i] = j
      BY <1>0, <2>1 DEF Carries
    <3>2. b[j] = a[i]
      BY <1>0, <3>1 DEF Carries
    <3>3. i \in Lines(a, words)
      BY <3>2 DEF Lines, Content
    <3> QED BY <3>1, <3>3
  <2> QED BY <2>1, <2>2, <2>3
<1>3. /\ \A i \in Content(a) : i \in Nat /\ f[i] \in Nat
      /\ \A i, j \in Content(a) : i < j => f[i] < f[j]
  BY <1>0, <1>1 DEF Carries, Content, Lines
<1>4. ASSUME NEW word \in Headers, NEW i \in Lines(b, {word}), NEW j \in Lines(b, {word})
      PROVE  i = j
  <2>1. {word} \in SUBSET (Headers \cup {"member"})
    OBVIOUS
  <2>2. PICK x \in Lines(a, {word}) : f[x] = i
    BY <1>2, <2>1
  <2>3. PICK y \in Lines(a, {word}) : f[y] = j
    BY <1>2, <2>1
  <2>4. x = y
    BY <2>2, <2>3 DEF read
  <2> QED BY <2>2, <2>3, <2>4
<1>5. ASSUME NEW word \in Headers
      PROVE  field(b, word) = field(a, word) /\ Lines(b, {word}) # {}
  <2>1. {word} \in SUBSET (Headers \cup {"member"})
    OBVIOUS
  <2>2. PICK x : x \in Lines(a, {word})
    BY DEF settle
  <2>3. /\ f[x] \in Lines(b, {word}) /\ b[f[x]] = a[x]
    BY <1>2, <2>1, <2>2
  <2>4. (CHOOSE i \in Lines(a, {word}) : TRUE) = x
    BY <2>2 DEF read
  <2>5. (CHOOSE i \in Lines(b, {word}) : TRUE) = f[x]
    BY <1>4, <2>3
  <2> QED BY <2>3, <2>4, <2>5 DEF field
<1>6. \E version \in Lines(b, {"version"}) : \A i \in Lines(b, Headers) : version <= i
  <2>1. PICK v \in Lines(a, {"version"}) : \A i \in Lines(a, Headers) : v <= i
    BY DEF read
  <2>2. {"version"} \in SUBSET (Headers \cup {"member"}) /\ Headers \in SUBSET (Headers \cup {"member"})
    BY DEF Headers
  <2>3. f[v] \in Lines(b, {"version"}) /\ v \in Content(a)
    BY <1>2, <2>1, <2>2
  <2>4. ASSUME NEW i \in Lines(b, Headers) PROVE f[v] <= i
    <3>1. PICK x \in Lines(a, Headers) : f[x] = i
      BY <1>2, <2>2
    <3>2. x \in Content(a) /\ v <= x
      BY <1>2, <2>1, <2>2
    <3> QED BY <1>3, <2>3, <3>1, <3>2
  <2> QED BY <2>3, <2>4
<1>7. ASSUME NEW i \in Lines(b, Headers), NEW j \in Lines(b, {"member"}) PROVE i < j
  <2>1. {"member"} \in SUBSET (Headers \cup {"member"}) /\ Headers \in SUBSET (Headers \cup {"member"})
    OBVIOUS
  <2>2. PICK x \in Lines(a, Headers) : f[x] = i
    BY <1>2, <2>1
  <2>3. PICK y \in Lines(a, {"member"}) : f[y] = j
    BY <1>2, <2>1
  <2>4. x \in Content(a) /\ y \in Content(a) /\ x < y
    BY <1>2, <2>1 DEF read
  <2> QED BY <1>3, <2>2, <2>3, <2>4
<1>m. {"member"} \in SUBSET (Headers \cup {"member"})
  OBVIOUS
<1>8. DistinctMembers(b)
  <2> SUFFICES ASSUME NEW i \in Lines(b, {"member"}), NEW j \in Lines(b, {"member"}), i # j
               PROVE  /\ b[i].index # b[j].index
                      /\ b[i].id # b[j].id
                      /\ b[i].key # b[j].key
    BY DEF DistinctMembers
  <2>1. PICK x \in Lines(a, {"member"}) : f[x] = i
    BY <1>2, <1>m
  <2>2. PICK y \in Lines(a, {"member"}) : f[y] = j
    BY <1>2, <1>m
  <2>3. b[i] = a[x] /\ b[j] = a[y] /\ x # y
    BY <1>2, <1>m, <2>1, <2>2
  <2> QED BY <2>3 DEF read, DistinctMembers
<1>9. Indices(b) = Indices(a)
  BY <1>2, <1>m DEF Indices
<1>10. settle(b)
  BY <1>5, <1>9 DEF settle, Headers
<1>11. members(b) = members(a)
  <2>1. ASSUME NEW n \in 1 .. Cardinality(Indices(a))
        PROVE  /\ b[CHOOSE i \in Lines(b, {"member"}) : b[i].index = n - 1]
                    = a[CHOOSE i \in Lines(a, {"member"}) : a[i].index = n - 1]
    <3>1. PICK x \in Lines(a, {"member"}) : a[x].index = n - 1
      BY MembersByIndex
    <3>2. f[x] \in Lines(b, {"member"}) /\ b[f[x]] = a[x]
      BY <1>2, <1>m
    <3>3. \A i \in Lines(a, {"member"}) : a[i].index = n - 1 => i = x
      BY <3>1 DEF read, DistinctMembers
    <3>4. \A i \in Lines(b, {"member"}) : b[i].index = n - 1 => i = f[x]
      BY <1>8, <3>1, <3>2 DEF DistinctMembers
    <3>5. (CHOOSE i \in Lines(a, {"member"}) : a[i].index = n - 1) = x
      BY <3>1, <3>3
    <3>6. (CHOOSE i \in Lines(b, {"member"}) : b[i].index = n - 1) = f[x]
      BY <3>1, <3>2, <3>4
    <3> QED BY <3>2, <3>5, <3>6
  <2> QED BY <1>9, <2>1 DEF members
<1>12. canonical(b) = canonical(a)
  <2>1. [word \in Headers |-> field(b, word)] = [word \in Headers |-> field(a, word)]
    BY <1>5
  <2> QED BY <1>11, <2>1 DEF canonical
<1> QED BY <1>4, <1>6, <1>7, <1>8, <1>10, <1>12

\* The one line of a kind is dropped, and no line of another kind is added.
LEMMA WithoutKind ==
    ASSUME NEW S, NEW s \in Seq(S), NEW word, word \notin Headers \cup {"member"},
           \A i, j \in Lines(s, {word}) : i = j
    PROVE  /\ Without(s, word) \in Seq(S)
           /\ Range(Without(s, word)) \subseteq Range(s)
           /\ Lines(Without(s, word), {word}) = {}
           /\ \A other : (\A i, j \in Lines(s, {other}) : i = j)
                            => \A i, j \in Lines(Without(s, word), {other}) : i = j
           /\ \A other : Lines(s, {other}) = {} => Lines(Without(s, word), {other}) = {}
           /\ SameContent(s, Without(s, word))
<1> DEFINE t == Without(s, word)
<1> HIDE DEF t
<1>0. DOMAIN s = 1 .. Len(s) /\ Len(s) \in Nat
  OBVIOUS
<1>1. CASE t = s /\ \A i \in 1 .. Len(s) : s[i].word # word
  <2>1. Lines(s, {word}) = {}
    BY <1>0, <1>1 DEF Lines
  <2>2. SameContent(s, s)
    <3>1. Carries([i \in Content(s) |-> i], s, s)
      BY DEF Carries
    <3> QED BY <3>1 DEF SameContent
  <2> QED BY <1>1, <2>1, <2>2 DEF t
<1>2. ASSUME NEW k \in 1 .. Len(s), s[k].word = word, t = RemoveAt(s, k)
      PROVE  /\ t \in Seq(S)
             /\ Range(t) \subseteq Range(s)
             /\ Lines(t, {word}) = {}
             /\ \A other : (\A i, j \in Lines(s, {other}) : i = j)
                            => \A i, j \in Lines(t, {other}) : i = j
             /\ \A other : Lines(s, {other}) = {} => Lines(t, {other}) = {}
             /\ SameContent(s, t)
  <2>1. /\ t \in Seq(S) /\ Len(t) = Len(s) - 1
        /\ \A p \in 1 .. k - 1 : t[p] = s[p]
        /\ \A p \in k .. Len(s) - 1 : t[p] = s[p + 1]
    <3>1. t \in Seq(S) /\ Len(t) = Len(s) - 1
      BY <1>2, RemoveAtEntries
    <3>2. \A p \in 1 .. k - 1 : t[p] = s[p]
      BY <1>2, RemoveAtEntries
    <3>3. \A p \in k .. Len(s) - 1 : t[p] = s[p + 1]
      BY <1>2, RemoveAtEntries
    <3> QED BY <3>1, <3>2, <3>3
  <2> DEFINE back(p) == IF p < k THEN p ELSE p + 1
  <2>2. DOMAIN t = 1 .. Len(s) - 1
    BY <1>0, <2>1
  <2>3. \A p \in DOMAIN t : back(p) \in DOMAIN s /\ back(p) # k /\ t[p] = s[back(p)] /\ p \in Nat
    BY <1>0, <2>1, <2>2
  <2>4. \A p, q \in DOMAIN t : back(p) = back(q) => p = q
    BY <1>0, <2>2
  <2> HIDE DEF back
  <2>5. Range(t) \subseteq Range(s)
    BY <2>3 DEF Range
  <2>6. \A other : \A p \in Lines(t, {other}) : back(p) \in Lines(s, {other}) /\ p \in DOMAIN t
    BY <2>3 DEF Lines
  <2>7. k \in Lines(s, {word})
    BY <1>0, <1>2 DEF Lines
  <2>8. Lines(t, {word}) = {}
    BY <2>3, <2>6, <2>7
  <2>9. SameContent(s, t)
    BY <1>2, RemoveAtKeepsContent
  <2>10. ASSUME NEW other, \A i, j \in Lines(s, {other}) : i = j,
               NEW i \in Lines(t, {other}), NEW j \in Lines(t, {other})
        PROVE  i = j
    BY <2>4, <2>6, <2>10
  <2>11. ASSUME NEW other, Lines(s, {other}) = {} PROVE Lines(t, {other}) = {}
    BY <2>6, <2>11
  <2> QED BY <2>1, <2>5, <2>8, <2>9, <2>10, <2>11
<1> QED BY <1>1, <1>2, WithoutLine DEF t

\* A file that may be signed is one that parses once it is, under the form
\* that was signed.
LEMMA SignedParses ==
    ASSUME NEW S, NEW s \in Seq(S), NEW admin, sign_text_ok(s)
    PROVE  /\ parse_ok(sign_text(s, admin))
           /\ canonical(sign_text(s, admin)) = canonical(s)
           /\ \A i \in Lines(sign_text(s, admin), {"signature"}) :
                sign_text(s, admin)[i] = signature(admin, canonical(s))
<1> DEFINE a == Without(s, "issuer")
           b == Without(a, "signature")
           new == <<issuer(admin), signature(admin, canonical(s))>>
           t == b \o new
           T == S \cup {issuer(admin), signature(admin, canonical(s))}
<1>0. /\ read(s, FALSE) /\ settle(s) /\ policy_ok(s)
      /\ "issuer" \notin Headers \cup {"member"} /\ "signature" \notin Headers \cup {"member"}
  BY DEF sign_text_ok, Headers
<1>1. /\ \A i, j \in Lines(s, {"issuer"}) : i = j
      /\ \A i, j \in Lines(s, {"signature"}) : i = j
  BY <1>0 DEF read
<1>2. /\ a \in Seq(S) /\ Range(a) \subseteq Range(s) /\ Lines(a, {"issuer"}) = {}
      /\ \A i, j \in Lines(a, {"signature"}) : i = j
      /\ SameContent(s, a)
  BY <1>0, <1>1, WithoutKind
<1> HIDE DEF a
<1>3. /\ b \in Seq(S) /\ Range(b) \subseteq Range(a) /\ Lines(b, {"signature"}) = {}
      /\ Lines(b, {"issuer"}) = {}
      /\ SameContent(a, b)
  BY <1>0, <1>2, WithoutKind
<1> HIDE DEF b
<1>4. /\ new \in Seq(T) /\ Len(new) = 2 /\ DOMAIN new = 1 .. 2
      /\ new[1] = issuer(admin) /\ new[2] = signature(admin, canonical(s))
      /\ new[1].word = "issuer" /\ new[2].word = "signature" /\ new[1].ok /\ new[2].ok
  BY DEF issuer, signature
<1> HIDE DEF new
<1>5. b \in Seq(T) /\ s \in Seq(T)
  BY <1>3, SeqMonotonic
<1> HIDE DEF T
<1>6. SameContent(b, t)
  <2>1. \A i \in DOMAIN new : new[i].word \notin Headers \cup {"member"}
    BY <1>0, <1>4
  <2> QED BY <1>4, <1>5, <2>1, ConcatKeepsContent
<1>7. SameContent(s, t)
  BY <1>2, <1>3, <1>6, SameContentTrans
<1> DEFINE n == Len(b)
<1>8. /\ t \in Seq(T) /\ Len(t) = n + 2 /\ DOMAIN t = 1 .. n + 2 /\ n \in Nat
      /\ \A p \in 1 .. n : t[p] = b[p]
      /\ t[n + 1] = new[1] /\ t[n + 2] = new[2]
  <2>1. /\ t \in Seq(T) /\ Len(t) = Len(b) + Len(new) /\ Len(b) \in Nat
        /\ \A p \in 1 .. Len(b) + Len(new) :
                t[p] = IF p <= Len(b) THEN b[p] ELSE new[p - Len(b)]
    <3>1. Len(b) \in Nat
      BY <1>5
    <3>2. new \in Seq(T)
      BY <1>4
    <3>3. /\ b \o new \in Seq(T) /\ Len(b \o new) = Len(b) + Len(new)
          /\ \A p \in 1 .. Len(b) + Len(new) :
                (b \o new)[p] = IF p <= Len(b) THEN b[p] ELSE new[p - Len(b)]
      BY <1>5, <3>2, ConcatProperties
    <3> QED BY <3>1, <3>3
  <2> HIDE DEF t
  <2>2. n + 1 \in 1 .. n + 2 /\ n + 2 \in 1 .. n + 2 /\ ~(n + 1 <= n) /\ ~(n + 2 <= n)
        /\ n + 1 - n = 1 /\ n + 2 - n = 2 /\ \A p \in 1 .. n : p \in 1 .. n + 2 /\ p <= n
    BY <2>1
  <2>3. DOMAIN t = 1 .. n + 2
    BY <1>4, <2>1
  <2> QED BY <1>4, <2>1, <2>2, <2>3
<1> HIDE DEF t
<1>9. \A p \in DOMAIN t : p \in DOMAIN b \/ p = n + 1 \/ p = n + 2
  BY <1>3, <1>8
<1>10. \A p \in DOMAIN b : p \in 1 .. n /\ t[p] = b[p]
  BY <1>3, <1>8
<1> HIDE DEF n
<1>11. /\ Lines(t, {"issuer"}) = {n + 1}
       /\ Lines(t, {"signature"}) = {n + 2}
  <2>1. \A p \in DOMAIN b : b[p].word # "issuer" /\ b[p].word # "signature"
    BY <1>3 DEF Lines
  <2>2. n + 1 \in DOMAIN t /\ n + 2 \in DOMAIN t
    BY <1>8
  <2>3. ASSUME NEW p \in DOMAIN t
        PROVE  (t[p].word = "issuer" <=> p = n + 1) /\ (t[p].word = "signature" <=> p = n + 2)
    <3>1. CASE p \in DOMAIN b
      BY <1>8, <1>10, <2>1, <3>1
    <3>2. CASE p = n + 1
      BY <1>4, <1>8, <3>2
    <3>3. CASE p = n + 2
      BY <1>4, <1>8, <3>3
    <3> QED BY <1>9, <3>1, <3>2, <3>3
  <2> QED BY <2>2, <2>3 DEF Lines
<1>12. \A p \in DOMAIN t : t[p].ok
  <2>1. \A p \in DOMAIN b : b[p].ok
    <3>1. \A line \in Range(s) : line.ok
      BY <1>0 DEF read, Range
    <3> QED BY <1>2, <1>3, <3>1 DEF Range
  <2> QED BY <1>4, <1>8, <1>9, <1>10, <2>1
<1>13. /\ \A word \in Headers : \A i, j \in Lines(t, {word}) : i = j
       /\ \E version \in Lines(t, {"version"}) : \A i \in Lines(t, Headers) : version <= i
       /\ \A i \in Lines(t, Headers), j \in Lines(t, {"member"}) : i < j
       /\ DistinctMembers(t)
       /\ settle(t)
       /\ canonical(t) = canonical(s)
  BY <1>0, <1>5, <1>7, <1>8, SameForm
<1>14. read(t, TRUE)
  <2>1. \A word \in Headers \cup {"issuer", "signature"} : \A i, j \in Lines(t, {word}) : i = j
    <3>1. ASSUME NEW word \in {"issuer", "signature"},
                 NEW i \in Lines(t, {word}), NEW j \in Lines(t, {word})
          PROVE  i = j
      <4>1. CASE word = "issuer"
        BY <1>11, <4>1
      <4>2. CASE word = "signature"
        BY <1>11, <4>2
      <4> QED BY <4>1, <4>2
    <3> QED BY <1>13, <3>1
  <2>2. \A i \in Lines(t, {"signature"}) : i = Len(t)
    BY <1>8, <1>11
  <2>3. Lines(t, {"signature"}) # {}
    BY <1>11
  <2> QED BY <1>12, <1>13, <2>1, <2>2, <2>3 DEF read
<1>15. policy_ok(t)
  <2>1. members(t) = members(s)
    BY <1>13 DEF canonical
  <2>2. /\ field(t, "byzantine-bps") = field(s, "byzantine-bps")
        /\ field(t, "max-competence-ratio") = field(s, "max-competence-ratio")
    <3>1. \A word \in Headers : canonical(t).headers[word] = field(t, word)
                                /\ canonical(s).headers[word] = field(s, word)
      BY DEF canonical
    <3> QED BY <1>13, <3>1 DEF Headers
  <2>3. roster(t) = roster(s)
    BY <2>1 DEF roster
  <2> QED BY <1>0, <2>2, <2>3 DEF policy_ok
<1>16. sign_text(s, admin) = t
  BY DEF sign_text, t, new, b, a
<1> QED BY <1>4, <1>8, <1>11, <1>13, <1>14, <1>15, <1>16 DEF parse_ok

\* What was signed and not edited since is loaded by every node that trusts
\* the key, within its window, for every file and every key.
THEOREM WhatIsSignedLoads == ProvisioningSpec => []SignedIsLoadable
<1>1. ProvisioningInit => FreshInv
  BY DEF ProvisioningInit, FreshInv
<1>2. SignedInv /\ FreshInv /\ [ProvisioningNext]_provisioningVars => FreshInv'
  <2> SUFFICES ASSUME SignedInv, FreshInv, [ProvisioningNext]_provisioningVars
               PROVE  FreshInv'
    OBVIOUS
  <2>1. ASSUME NEW i \in DOMAIN file, Edit(i) PROVE FreshInv'
    BY <2>1 DEF Edit, FreshInv
  <2>2. ASSUME NEW admin \in Admins, sign(admin) PROVE FreshInv'
    <3>1. PICK s : s = file
      OBVIOUS
    <3>2. s \in Seq(Range(s)) /\ sign_text_ok(s) /\ file' = sign_text(s, admin) /\ fresh' = {admin}
      BY <2>2, <3>1 DEF sign, SignedInv
    <3>3. PICK t : t = sign_text(s, admin)
      OBVIOUS
    <3>4. /\ parse_ok(t)
          /\ \A j \in Lines(t, {"signature"}) : t[j] = signature(admin, canonical(t))
      BY <3>2, <3>3, SignedParses
    <3>5. file' = t
      BY <3>2, <3>3
    <3>6. /\ parse_ok(file')
          /\ \A j \in Lines(file', {"signature"}) : file'[j] = signature(admin, canonical(file'))
      BY <3>4, <3>5
    <3> QED BY <3>2, <3>6 DEF FreshInv
  <2>3. CASE UNCHANGED <<file, fresh>>
    BY <2>3 DEF FreshInv
  <2>4. ASSUME NEW now \in Clock, start(now) PROVE UNCHANGED <<file, fresh>>
    BY <2>4 DEF start
  <2>5. CASE stop \/ Count \/ Direct \/ UNCHANGED provisioningVars
    BY <2>3, <2>5 DEF stop, Count, Direct, provisioningVars, manifestVars
  <2> QED BY <2>1, <2>2, <2>3, <2>4, <2>5 DEF ProvisioningNext
<1>3. ASSUME FreshInv PROVE SignedIsLoadable
  <2> SUFFICES ASSUME NEW admin \in fresh, NEW now \in Clock,
                      field(file, "valid-from") <= now, now < field(file, "valid-until")
               PROVE  parse_ok(file) /\ verify(file, admin, now)
    BY DEF SignedIsLoadable
  <2> DEFINE seals == Lines(file, {"signature"})
             seal == CHOOSE i \in seals : TRUE
  <2>1. parse_ok(file) /\ \A i \in seals : file[i] = signature(admin, canonical(file))
    BY <1>3 DEF FreshInv
  <2>2. seal \in seals
    BY <2>1 DEF parse_ok, read
  <2>3. file[seal].by = admin /\ file[seal].form = canonical(file)
    <3> HIDE DEF seal
    <3> QED BY <2>1, <2>2 DEF signature
  <2> QED BY <2>1, <2>3 DEF verify
<1> QED BY <1>1, <1>2, <1>3, SignedInvariance, PTL DEF ProvisioningSpec
=============================================================================
