------------------------- MODULE MemberPartsProofs --------------------------
(***************************************************************************)
(* Proofs about the parts of a member that are automata of their own: the  *)
(* replay guard, for every window depth, every order of arrival and any    *)
(* number of restarts; the queue, for every capacity and burst; and the    *)
(* airtime meter, for every budget and window.                             *)
(***************************************************************************)
EXTENDS MemberParts, SequenceTheorems, WellFoundedInduction, TLAPS

\* Marking a sequence keeps a window a window and leaves its newest sequence
\* the newer of the two.
LEMMA MarkTypes ==
    ASSUME NEW w \in [highest : Sequences \cup {Nothing}, bits : SUBSET Word],
           NEW s \in Sequences
    PROVE  /\ mark(w, s) \in [highest : Sequences \cup {Nothing}, bits : SUBSET Word]
           /\ mark(w, s).highest = IF s > w.highest THEN s ELSE w.highest
           /\ mark(w, s).highest # Nothing
<1> USE DepthAssumption, SequenceAssumption DEF Sequences, Nothing, Word
<1>1. CASE w.highest = Nothing
  BY <1>1 DEF mark
<1>2. CASE w.highest # Nothing /\ s > w.highest
  <2>1. ShiftLeft(w.bits, s - w.highest) \cup {0} \in SUBSET Word
    BY DEF ShiftLeft
  <2> QED BY <1>2, <2>1 DEF mark
<1>3. CASE w.highest # Nothing /\ ~(s > w.highest)
  <2>1. mark(w, s) = [w EXCEPT !.bits = @ \cup ({w.highest - s} \cap Word)]
    BY <1>3 DEF mark
  <2>2. w.bits \cup ({w.highest - s} \cap Word) \in SUBSET Word
    OBVIOUS
  <2> QED BY <1>3, <2>1, <2>2
<1> QED BY <1>1, <1>2, <1>3

\* Marking a sequence the window does not hold adds that sequence, forgets
\* those the window has moved past (they count as seen) and changes nothing
\* else.
LEMMA MarkAdds ==
    ASSUME NEW w \in [highest : Sequences \cup {Nothing}, bits : SUBSET Word],
           NEW s \in Sequences, ~seen(w, s), NEW t \in Sequences
    PROVE  seen(mark(w, s), t) <=> \/ t = s
                                   \/ seen(w, t)
                                   \/ t <= mark(w, s).highest - Depth
<1> USE DepthAssumption, SequenceAssumption DEF Sequences, Nothing
<1>1. CASE w.highest = Nothing
  BY <1>1 DEF mark, seen
<1>2. CASE w.highest # Nothing /\ s > w.highest
  <2>1. /\ mark(w, s).highest = s
        /\ mark(w, s).bits = ShiftLeft(w.bits, s - w.highest) \cup {0}
    BY <1>2 DEF mark
  <2>2. CASE s - t >= Depth
    BY <1>2, <2>1, <2>2 DEF seen
  <2>3. CASE s - t < Depth /\ s < t
    BY <1>2, <2>1, <2>3 DEF seen
  <2>4. CASE s = t
    BY <1>2, <2>1, <2>4 DEF seen
  <2>5. CASE s - t < Depth /\ t < s
    <3>1. s - t \in Word /\ s - t # 0
      BY <2>5 DEF Word
    <3>2. s - t \in mark(w, s).bits <=> (s - t) - (s - w.highest) \in w.bits
      BY <2>1, <3>1 DEF ShiftLeft
    <3>3. (s - t) - (s - w.highest) = w.highest - t
      BY <1>2
    <3>4. s - t \in mark(w, s).bits <=> w.highest - t \in w.bits
      BY <3>2, <3>3
    <3>5. w.highest - t \in w.bits => t <= w.highest
      BY <1>2 DEF Word
    <3>6. ~(w.highest - t >= Depth)
      BY <1>2, <2>5
    <3> QED BY <1>2, <2>1, <2>5, <3>4, <3>5, <3>6 DEF seen
  <2> QED BY <2>2, <2>3, <2>4, <2>5
<1>3. CASE w.highest # Nothing /\ ~(s > w.highest)
  <2>1. /\ mark(w, s).highest = w.highest
        /\ mark(w, s).bits = w.bits \cup ({w.highest - s} \cap Word)
    BY <1>3 DEF mark
  <2>2. w.highest - s \in Word
    BY <1>3 DEF seen, Word
  <2>3. w.highest - t = w.highest - s <=> t = s
    BY <1>3
  <2> QED BY <1>3, <2>1, <2>2, <2>3 DEF seen
<1> QED BY <1>1, <1>2, <1>3

\* A resumed window refuses everything up to the sequence it resumed from and
\* nothing above it.
LEMMA ResumedSees ==
    ASSUME NEW h \in Sequences, NEW t \in Sequences
    PROVE  seen(resumed(h), t) <=> t <= h
BY DepthAssumption, SequenceAssumption DEF seen, resumed, Word, Sequences, Nothing

\* The inductive invariant: the window's bits are exact and the journal covers
\* what the bits forget.
THEOREM Guarded == Spec => []IndInv
<1> USE DepthAssumption, SequenceAssumption
<1>1. Init => IndInv
  BY DEF Init, IndInv, TypeOK, NewestIsHighest, WindowExact, RememberedBelow,
         new, seen, Sequences, Nothing
<1>2. ASSUME IndInv, [Next]_vars
      PROVE  IndInv'
  <2> USE <1>2 DEF IndInv
  <2>1. ASSUME NEW s \in Sequences, Admit(s) PROVE IndInv'
    <3> DEFINE w == window
    <3>0. w \in [highest : Sequences \cup {Nothing}, bits : SUBSET Word] /\ ~seen(w, s)
      BY <2>1 DEF Admit, TypeOK
    <3>1. /\ window' = mark(w, s)
          /\ marked' = marked \cup {s} /\ unwritten' = s
          /\ highest_seen' = highest_seen /\ base' = base /\ remembered' = remembered
      BY <2>1 DEF Admit
    <3>2. /\ window' \in [highest : Sequences \cup {Nothing}, bits : SUBSET Word]
          /\ window'.highest = IF s > window.highest THEN s ELSE window.highest
          /\ window'.highest # Nothing
      BY <3>0, <3>1, MarkTypes
    <3>3. TypeOK'
      BY <3>1, <3>2 DEF TypeOK
    <3>4. NewestIsHighest'
      BY <3>1, <3>2 DEF NewestIsHighest, TypeOK, Sequences, Nothing
    <3>5. WindowExact'
      <4> SUFFICES ASSUME NEW t \in Sequences
                   PROVE  seen(window', t) <=> \/ t \in marked'
                                               \/ t <= base'
                                               \/ /\ window'.highest # Nothing
                                                  /\ t <= window'.highest - Depth
        BY DEF WindowExact
      <4>1. seen(window', t) <=> t = s \/ seen(window, t) \/ t <= window'.highest - Depth
        BY <3>0, <3>1, MarkAdds
      <4>2. seen(window, t) <=> \/ t \in marked
                                \/ t <= base
                                \/ /\ window.highest # Nothing
                                   /\ t <= window.highest - Depth
        BY DEF WindowExact
      <4>3. (window.highest # Nothing /\ t <= window.highest - Depth)
                => t <= window'.highest - Depth
        BY <3>2 DEF TypeOK, Sequences, Nothing
      <4> QED BY <3>1, <3>2, <4>1, <4>2, <4>3
    <3>6. RememberedBelow'
      BY <3>1 DEF RememberedBelow
    <3> QED BY <3>3, <3>4, <3>5, <3>6
  <2>2. CASE remember_seen
    <3>1. /\ unwritten \in marked /\ unwritten \in Sequences
          /\ window' = window /\ base' = base /\ marked' = marked
          /\ unwritten' = Nothing /\ remembered' = remembered \cup {unwritten}
          /\ highest_seen' = IF highest_seen < unwritten THEN unwritten ELSE highest_seen
      BY <2>2 DEF remember_seen, NewestIsHighest, TypeOK
    <3>2. TypeOK'
      BY <3>1 DEF TypeOK
    <3>3. NewestIsHighest'
      BY <3>1 DEF NewestIsHighest, TypeOK, Sequences, Nothing
    <3>4. WindowExact'
      BY <3>1 DEF WindowExact
    <3>5. RememberedBelow'
      BY <3>1 DEF RememberedBelow, TypeOK, Sequences, Nothing
    <3> QED BY <3>2, <3>3, <3>4, <3>5
  <2>3. CASE seen_not_durable
    BY <2>3 DEF seen_not_durable, TypeOK, NewestIsHighest, WindowExact, RememberedBelow
  <2>4. CASE Restart
    <3>1. /\ base' = highest_seen /\ marked' = {} /\ unwritten' = Nothing
          /\ highest_seen' = highest_seen /\ remembered' = remembered
          /\ window' = IF highest_seen = Nothing THEN new ELSE resumed(highest_seen)
      BY <2>4 DEF Restart
    <3>2. CASE highest_seen = Nothing
      BY <3>1, <3>2 DEF TypeOK, NewestIsHighest, WindowExact, RememberedBelow,
                        new, seen, Sequences, Nothing
    <3>3. CASE highest_seen # Nothing
      <4>1. /\ highest_seen \in Sequences /\ window' = resumed(highest_seen)
            /\ window'.highest = highest_seen /\ window'.bits = Word
        BY <3>1, <3>3 DEF TypeOK, resumed
      <4>2. TypeOK'
        BY <3>1, <4>1 DEF TypeOK, resumed
      <4>3. NewestIsHighest'
        BY <3>1, <4>1 DEF NewestIsHighest, Sequences, Nothing
      <4>4. WindowExact'
        <5> SUFFICES ASSUME NEW t \in Sequences
                     PROVE  seen(window', t) <=> \/ t \in marked'
                                                 \/ t <= base'
                                                 \/ /\ window'.highest # Nothing
                                                    /\ t <= window'.highest - Depth
          BY DEF WindowExact
        <5>1. seen(window', t) <=> t <= highest_seen
          BY <4>1, ResumedSees
        <5>2. t <= highest_seen - Depth => t <= highest_seen
          BY <4>1 DEF Sequences
        <5> QED BY <3>1, <4>1, <5>1, <5>2
      <4>5. RememberedBelow'
        BY <3>1 DEF RememberedBelow
      <4> QED BY <4>2, <4>3, <4>4, <4>5
    <3> QED BY <3>2, <3>3
  <2>5. CASE UNCHANGED vars
    BY <2>5 DEF vars, TypeOK, NewestIsHighest, WindowExact, RememberedBelow
  <2> QED BY <1>2, <2>1, <2>2, <2>3, <2>4, <2>5 DEF Next
<1> QED BY <1>1, <1>2, PTL DEF Spec

\* The word of bits refuses exactly what it should.
THEOREM BitsAreExact == Spec => []WindowExact
<1>1. IndInv => WindowExact
  BY DEF IndInv
<1> QED BY <1>1, Guarded, PTL

\* What was journalled as seen is never admitted again, over any restarts.
THEOREM NeverAdmittedAgain == Spec => []RememberedIsSeen
<1>1. ASSUME IndInv PROVE RememberedIsSeen
  BY <1>1 DEF IndInv, TypeOK, WindowExact, RememberedBelow, RememberedIsSeen
<1> QED BY <1>1, Guarded, PTL

----------------------------------------------------------------------------
(* Induction over the lengths of a sequence.                               *)

\* A set of numbers has a least one.
LEMMA LeastOf ==
    ASSUME NEW T \in SUBSET Nat, T # {}
    PROVE  \E i \in T : \A j \in T : i <= j
<1>1. \A a, b \in Nat : <<a, b>> \in OpToRel(<, Nat) <=> a < b
  BY Zenon DEF OpToRel
<1>2. PICK i \in T : \A j \in T : ~ (<<j, i>> \in OpToRel(<, Nat))
  BY NatLessThanWellFounded, WFMin
<1>3. \A j \in T : ~(j < i)
  BY <1>1, <1>2
<1> QED BY <1>3

\* A set of lengths that holds 0, and with every length but the last the next
\* one, holds them all: induction over the prefixes of a sequence.
LEMMA EveryPrefix ==
    ASSUME NEW n \in Nat, NEW T, 0 \in T,
           \A k \in 1 .. n : k - 1 \in T => k \in T
    PROVE  \A k \in 0 .. n : k \in T
<1>1. PICK U \in SUBSET Nat : \A k : k \in U <=> k \in 0 .. n /\ k \notin T
  <2>1. {k \in 0 .. n : k \notin T} \in SUBSET Nat
    OBVIOUS
  <2> QED BY <2>1
<1>2. ASSUME U # {} PROVE FALSE
  <2>1. PICK k \in U : \A j \in U : k <= j
    BY <1>2, LeastOf
  <2>2. k \in 1 .. n /\ k - 1 \in 0 .. n /\ ~(k <= k - 1)
    BY <1>1, <2>1
  <2>3. k - 1 \in T
    BY <1>1, <2>1, <2>2
  <2> QED BY <1>1, <2>1, <2>2, <2>3
<1> QED BY <1>1, <1>2

----------------------------------------------------------------------------
(* Totals.                                                                 *)

\* The recursion has a solution.
LEMMA SumsStep ==
    ASSUME NEW w \in Seq(Nat)
    PROVE  /\ Sums(w)[0] = 0
           /\ \A k \in 1 .. Len(w) : Sums(w)[k] = Sums(w)[k - 1] + w[k]
<1> DEFINE Solves(s, n) == s = [k \in 0 .. n |-> IF k = 0 THEN 0 ELSE s[k - 1] + w[k]]
           T == {n \in Nat : \E s : Solves(s, n)}
<1>0. Len(w) \in Nat
  OBVIOUS
<1>1. 0 \in T
  <2>1. Solves([k \in 0 .. 0 |-> 0], 0)
    OBVIOUS
  <2> QED BY <2>1
<1>2. ASSUME NEW n \in 1 .. Len(w), n - 1 \in T PROVE n \in T
  <2>1. PICK s : Solves(s, n - 1)
    BY <1>2
  <2> DEFINE t == [k \in 0 .. n |-> IF k = n THEN s[n - 1] + w[n] ELSE s[k]]
  <2>2. \A k \in 0 .. n : t[k] = IF k = 0 THEN 0 ELSE t[k - 1] + w[k]
    <3> SUFFICES ASSUME NEW k \in 0 .. n
                 PROVE  t[k] = IF k = 0 THEN 0 ELSE t[k - 1] + w[k]
      OBVIOUS
    <3>1. CASE k = n
      BY <1>0, <3>1
    <3>2. CASE k # n
      <4>1. /\ k \in 0 .. n - 1 /\ t[k] = s[k]
            /\ k # 0 => k - 1 \in 0 .. n /\ k - 1 # n /\ t[k - 1] = s[k - 1]
        BY <1>0, <3>2
      <4> QED BY <2>1, <4>1
    <3> QED BY <3>1, <3>2
  <2>3. Solves(t, n) /\ n \in Nat
    BY <1>0, <2>2
  <2>4. \E f : Solves(f, n)
    <3> HIDE DEF t, Solves
    <3> QED BY <2>3
  <2> QED BY <2>3, <2>4
<1>3. Len(w) \in T
  <2> HIDE DEF T
  <2>1. \A n \in 0 .. Len(w) : n \in T
    BY <1>0, <1>1, <1>2, EveryPrefix
  <2> QED BY <1>0, <2>1
<1>4. Solves(Sums(w), Len(w))
  BY <1>3 DEF Sums
<1>5. \A k \in 0 .. Len(w) : Sums(w)[k] = IF k = 0 THEN 0 ELSE Sums(w)[k - 1] + w[k]
  <2> PICK s : s = Sums(w)
    OBVIOUS
  <2> HIDE DEF T
  <2> QED BY <1>4
<1> HIDE DEF T, Solves
<1> QED BY <1>0, <1>5

\* The sums of numbers are numbers.
LEMMA SumsNat ==
    ASSUME NEW w \in Seq(Nat)
    PROVE  \A k \in 0 .. Len(w) : Sums(w)[k] \in Nat
<1> DEFINE T == {n \in Nat : Sums(w)[n] \in Nat}
<1>0. Len(w) \in Nat
  OBVIOUS
<1>1. 0 \in T
  BY SumsStep
<1>2. \A n \in 1 .. Len(w) : n - 1 \in T => n \in T
  BY <1>0, SumsStep
<1>3. \A n \in 0 .. Len(w) : n \in T
  <2> HIDE DEF T
  <2> QED BY <1>0, <1>1, <1>2, EveryPrefix
<1> QED BY <1>3

LEMMA TotalNat ==
    ASSUME NEW w \in Seq(Nat)
    PROVE  Total(w) \in Nat
BY SumsNat DEF Total

\* Two sequences that begin alike have the same sums as long as they do.
LEMMA SumsAlike ==
    ASSUME NEW v \in Seq(Nat), NEW w \in Seq(Nat), Len(v) <= Len(w),
           \A i \in 1 .. Len(v) : v[i] = w[i]
    PROVE  Total(v) = Sums(w)[Len(v)]
<1> DEFINE T == {n \in Nat : Sums(v)[n] = Sums(w)[n]}
<1>0. Len(v) \in Nat /\ Len(w) \in Nat
  OBVIOUS
<1>1. 0 \in T
  BY SumsStep
<1>2. ASSUME NEW n \in 1 .. Len(v), n - 1 \in T PROVE n \in T
  <2>1. n \in 1 .. Len(w) /\ n \in Nat
    BY <1>0
  <2>2. Sums(v)[n] = Sums(v)[n - 1] + v[n] /\ Sums(w)[n] = Sums(w)[n - 1] + w[n]
    BY <2>1, SumsStep
  <2> QED BY <1>2, <2>1, <2>2
<1>3. \A n \in 0 .. Len(v) : n \in T
  <2> HIDE DEF T
  <2> QED BY <1>0, <1>1, <1>2, EveryPrefix
<1> QED BY <1>0, <1>3 DEF Total

\* The total of two sequences, one after the other.
LEMMA TotalSplit ==
    ASSUME NEW u \in Seq(Nat), NEW v \in Seq(Nat), NEW w \in Seq(Nat),
           Len(w) = Len(u) + Len(v),
           \A i \in 1 .. Len(u) : u[i] = w[i],
           \A i \in 1 .. Len(v) : v[i] = w[Len(u) + i]
    PROVE  Total(w) = Total(u) + Total(v)
<1> DEFINE T == {n \in Nat : Sums(w)[Len(u) + n] = Total(u) + Sums(v)[n]}
<1>0. Len(u) \in Nat /\ Len(v) \in Nat /\ Len(w) \in Nat
  OBVIOUS
<1>u. Total(u) = Sums(w)[Len(u)] /\ Total(u) \in Nat
  BY <1>0, SumsAlike, TotalNat
<1>1. 0 \in T
  BY <1>0, <1>u, SumsStep
<1>2. ASSUME NEW n \in 1 .. Len(v), n - 1 \in T PROVE n \in T
  <2>1. PICK m \in 1 .. Len(w) : m = Len(u) + n /\ m - 1 = Len(u) + (n - 1)
    BY <1>0
  <2>2. Sums(v)[n] = Sums(v)[n - 1] + v[n] /\ Sums(w)[m] = Sums(w)[m - 1] + w[m]
    BY <2>1, SumsStep
  <2>3. Sums(w)[m - 1] = Total(u) + Sums(v)[n - 1]
    BY <1>2, <2>1
  <2>4. v[n] = w[m] /\ v[n] \in Nat
    BY <2>1
  <2>5. Sums(v)[n - 1] \in Nat
    <3>1. n - 1 \in 0 .. Len(v)
      BY <1>0
    <3> QED BY <3>1, SumsNat
  <2>6. Sums(w)[m] = Total(u) + Sums(v)[n]
    <3>1. PICK a \in Nat : a = Total(u)
      BY <1>u
    <3>2. PICK b \in Nat : b = Sums(v)[n - 1]
      BY <2>5
    <3>3. Sums(v)[n] = b + v[n] /\ Sums(w)[m] = (a + b) + v[n]
      BY <2>2, <2>3, <2>4, <3>1, <3>2
    <3>4. (a + b) + v[n] = a + (b + v[n])
      BY <2>4
    <3> QED BY <3>1, <3>3, <3>4
  <2> QED BY <2>1, <2>6
<1>3. \A n \in 0 .. Len(v) : n \in T
  <2> HIDE DEF T
  <2> QED BY <1>0, <1>1, <1>2, EveryPrefix
<1> QED BY <1>0, <1>3 DEF Total

\* Amounts no larger, one by one, make a total no larger.
LEMMA TotalMono ==
    ASSUME NEW v \in Seq(Nat), NEW w \in Seq(Nat), Len(v) = Len(w),
           \A i \in 1 .. Len(v) : v[i] <= w[i]
    PROVE  Total(v) <= Total(w)
<1> DEFINE T == {n \in Nat : Sums(v)[n] <= Sums(w)[n]}
<1>0. Len(v) \in Nat
  OBVIOUS
<1>1. 0 \in T
  BY SumsStep
<1>2. ASSUME NEW n \in 1 .. Len(v), n - 1 \in T PROVE n \in T
  <2>1. n \in 1 .. Len(w) /\ n - 1 \in 0 .. Len(v) /\ n - 1 \in 0 .. Len(w) /\ n \in Nat
    BY <1>0
  <2>2. Sums(v)[n] = Sums(v)[n - 1] + v[n] /\ Sums(w)[n] = Sums(w)[n - 1] + w[n]
    BY <2>1, SumsStep
  <2>3. Sums(v)[n - 1] \in Nat /\ Sums(w)[n - 1] \in Nat /\ v[n] \in Nat /\ w[n] \in Nat
    BY <2>1, SumsNat
  <2> QED BY <1>2, <2>1, <2>2, <2>3
<1>3. \A n \in 0 .. Len(v) : n \in T
  <2> HIDE DEF T
  <2> QED BY <1>0, <1>1, <1>2, EveryPrefix
<1> QED BY <1>0, <1>3 DEF Total

\* Nothing adds up to nothing.
LEMMA TotalNothing ==
    ASSUME NEW w \in Seq(Nat), \A i \in 1 .. Len(w) : w[i] = 0
    PROVE  Total(w) = 0
<1> DEFINE T == {n \in Nat : Sums(w)[n] = 0}
<1>0. Len(w) \in Nat
  OBVIOUS
<1>1. 0 \in T
  BY SumsStep
<1>2. \A n \in 1 .. Len(w) : n - 1 \in T => n \in T
  BY <1>0, SumsStep
<1>3. \A n \in 0 .. Len(w) : n \in T
  <2> HIDE DEF T
  <2> QED BY <1>0, <1>1, <1>2, EveryPrefix
<1> QED BY <1>0, <1>3 DEF Total

\* One amount is its own total.
LEMMA TotalOne ==
    ASSUME NEW w \in Seq(Nat), Len(w) = 1
    PROVE  Total(w) = w[1]
<1>0. 1 \in 1 .. Len(w) /\ 1 - 1 = 0
  OBVIOUS
<1>1. 1 \in 1 .. Len(w) /\ 1 - 1 = 0 /\ w[1] \in Nat
  BY <1>0, ElementOfSeq
<1>2. Sums(w)[0] = 0 /\ Sums(w)[1] = Sums(w)[1 - 1] + w[1]
  BY <1>1, SumsStep
<1> QED BY <1>1, <1>2 DEF Total

----------------------------------------------------------------------------
(* The queue: how many frames may pass a waiting one.                      *)

\* One step of the count, in each of the ways a queue can move.
LEMMA NewerMoves ==
    ASSUME NEW q \in Nat, NEW j \in Nat \ {0}, NEW share \in Nat \ {0}, NEW passing \in Nat
    PROVE  /\ Newer(q, j, share, passing) \in Int
           /\ Newer(q + 1, j, share, passing) = Newer(q, j, share, passing) + 1
           /\ j <= q /\ j <= max_items => Newer(q, j, share, passing) >= 0
           /\ q > 0 /\ j < max_items =>
                Newer(q - 1, j, share, passing + 1) = Newer(q, j, share, passing)
           /\ q > 0 /\ 1 < j /\ j <= max_items /\ passing <= share =>
                Newer(q, j, share, passing) <= Newer(q - 1, j - 1, share, 0)
<1> USE QueueConstants DEF Newer
<1> DEFINE more(k) == (max_items - 1 - k) * share
<1>1. more(j) \in Int /\ more(j - 1) \in Int
  OBVIOUS
<1>2. more(j - 1) = more(j) + share
  OBVIOUS
<1>3. j < max_items => more(j) >= 0
  OBVIOUS
<1>4. j = max_items => more(j - 1) = 0
  OBVIOUS
<1>5. /\ Newer(q, j, share, passing) = q - j + IF j < max_items THEN more(j) + passing ELSE 0
      /\ Newer(q + 1, j, share, passing) = q + 1 - j + IF j < max_items THEN more(j) + passing ELSE 0
      /\ Newer(q - 1, j, share, passing + 1) =
            q - 1 - j + IF j < max_items THEN more(j) + (passing + 1) ELSE 0
      /\ Newer(q - 1, j - 1, share, 0) =
            q - 1 - (j - 1) + IF j - 1 < max_items THEN more(j - 1) + 0 ELSE 0
  OBVIOUS
<1> HIDE DEF more, Newer
<1> QED BY <1>1, <1>2, <1>3, <1>4, <1>5

\* One more frame is queued.
LEMMA NewerOffered ==
    ASSUME NEW q \in Nat, NEW p, p = q + 1,
           NEW j \in Nat \ {0}, NEW share \in Nat \ {0}, NEW passing \in Nat
    PROVE  Newer(p, j, share, passing) = Newer(q, j, share, passing) + 1
BY NewerMoves

\* A frame of the other class is served first.
LEMMA NewerPassed ==
    ASSUME NEW q \in Nat \ {0}, NEW p, p = q - 1, NEW j \in Nat \ {0}, j < max_items,
           NEW share \in Nat \ {0}, NEW passing \in Nat, NEW more, more = passing + 1
    PROVE  Newer(p, j, share, more) = Newer(q, j, share, passing)
BY NewerMoves

\* A frame with room in the queue behind it is within the memory.
LEMMA NewerFits ==
    ASSUME NEW q \in Nat, NEW j \in Nat \ {0}, NEW share \in Nat \ {0}, NEW passing \in Nat,
           q < max_items, j <= q, share <= DISTRESS_BURST, passing <= share
    PROVE  Newer(q, j, share, passing) < MAX_DEDUP_ENTRIES - 1
<1> USE QueueConstants
<1> DEFINE k == max_items - 1 - j
<1>1. k \in Nat /\ k + 1 <= max_items - 1 /\ max_items - 1 \in Nat
  OBVIOUS
<1>2. Newer(q, j, share, passing) = q - j + (k * share + passing)
  BY DEF Newer
<1>3. k * share + passing <= (k + 1) * share
  <2>1. (k + 1) * share = k * share + share /\ k * share \in Nat
    BY <1>1
  <2> QED BY <2>1
<1>4. (k + 1) * share <= (max_items - 1) * share
  BY <1>1
<1>5. (max_items - 1) * share <= (max_items - 1) * DISTRESS_BURST
  BY <1>1
<1>6. k * share \in Nat /\ (k + 1) * share \in Nat /\ (max_items - 1) * share \in Nat
      /\ (max_items - 1) * DISTRESS_BURST \in Nat
  BY <1>1
<1>7. MAX_DEDUP_ENTRIES >= (max_items - 1) * DISTRESS_BURST + max_items
  OBVIOUS
<1> HIDE DEF k
<1> QED BY <1>2, <1>3, <1>4, <1>5, <1>6, <1>7

\* Remembering one more identity keeps those that have not grown too old.
LEMMA RememberKeeps ==
    ASSUME NEW S, seen_order \in Seq(S), NEW s \in S, MAX_DEDUP_ENTRIES > 0
    PROVE  /\ remember(s) \in Seq(S)
           /\ \A n \in Int : n >= 0 => Recalled(remember(s), s, n)
           /\ \A t \in S, n \in Int :
                Recalled(seen_order, t, n) /\ n < MAX_DEDUP_ENTRIES - 1
                    => Recalled(remember(s), t, n + 1)
<1> DEFINE all == Append(seen_order, s)
           len == Len(seen_order)
<1>0. MAX_DEDUP_ENTRIES \in Nat
  BY QueueConstants
<1>1. /\ all \in Seq(S) /\ len \in Nat /\ Len(all) = len + 1
      /\ all[len + 1] = s
      /\ \A p \in 1 .. len : all[p] = seen_order[p]
      /\ DOMAIN seen_order = 1 .. len
  OBVIOUS
<1> HIDE DEF all, len
<1>2. CASE ~(len + 1 > MAX_DEDUP_ENTRIES)
  <2>1. remember(s) = all
    BY <1>1, <1>2 DEF remember, all
  <2>2. DOMAIN all = 1 .. len + 1
    BY <1>1
  <2>3. ASSUME NEW n \in Int, n >= 0 PROVE Recalled(all, s, n)
    BY <1>1, <2>2, <2>3, len + 1 \in DOMAIN all DEF Recalled
  <2>4. ASSUME NEW t \in S, NEW n \in Int, Recalled(seen_order, t, n)
        PROVE  Recalled(all, t, n + 1)
    <3>1. PICK p \in 1 .. len : seen_order[p] = t /\ len - p <= n
      BY <1>1, <2>4 DEF Recalled, len
    <3>2. p \in DOMAIN all /\ all[p] = t /\ Len(all) - p <= n + 1
      BY <1>1, <2>2, <3>1
    <3> QED BY <3>2 DEF Recalled
  <2> QED BY <1>1, <2>1, <2>3, <2>4
<1>3. CASE len + 1 > MAX_DEDUP_ENTRIES
  <2>1. remember(s) = Tail(all)
    BY <1>1, <1>3 DEF remember, all
  <2>2. /\ Tail(all) \in Seq(S) /\ Len(Tail(all)) = len
        /\ DOMAIN Tail(all) = 1 .. len
        /\ \A p \in 1 .. len : Tail(all)[p] = all[p + 1]
    BY <1>1
  <2>3. len \in 1 .. len
    BY <1>0, <1>1, <1>3
  <2>4. ASSUME NEW n \in Int, n >= 0 PROVE Recalled(Tail(all), s, n)
    <3>1. len \in DOMAIN Tail(all) /\ Tail(all)[len] = s /\ Len(Tail(all)) - len <= n
      BY <1>1, <2>2, <2>3, <2>4
    <3> QED BY <3>1 DEF Recalled
  <2>5. ASSUME NEW t \in S, NEW n \in Int, Recalled(seen_order, t, n), n < MAX_DEDUP_ENTRIES - 1
        PROVE  Recalled(Tail(all), t, n + 1)
    <3>1. PICK p \in 1 .. len : seen_order[p] = t /\ len - p <= n
      BY <1>1, <2>5 DEF Recalled, len
    <3>2. p - 1 \in 1 .. len /\ len - (p - 1) <= n + 1
      BY <1>0, <1>1, <1>3, <2>5, <3>1
    <3>3. Tail(all)[p - 1] = t
      BY <1>1, <2>2, <3>1, <3>2
    <3> QED BY <2>2, <3>2, <3>3 DEF Recalled
  <2> QED BY <2>1, <2>2, <2>4, <2>5
<1> QED BY <1>2, <1>3

\* Forgetting one identity leaves the others where they were, or closer.
LEMMA ForgetKeeps ==
    ASSUME NEW S, NEW order \in Seq(S), NEW s \in Range(order)
    PROVE  /\ RemoveFirst(order, s) \in Seq(S)
           /\ \A t \in S, n \in Int :
                Recalled(order, t, n) /\ t # s => Recalled(RemoveFirst(order, s), t, n)
<1> DEFINE places == {i \in 1 .. Len(order) : order[i] = s}
           at == Min(places)
           before == SubSeq(order, 1, at - 1)
           after == SubSeq(order, at + 1, Len(order))
<1>1. places # {} /\ places \in SUBSET Nat /\ \E i \in 1 .. Len(order) : order[i] = s
  BY DEF Range
<1>2. at \in 1 .. Len(order) /\ order[at] = s
  <2>1. PICK i \in places : \A j \in places : i <= j
    BY <1>1, LeastOf
  <2>2. at \in places
    BY <2>1 DEF Min
  <2> QED BY <2>2
<1>3. RemoveFirst(order, s) = before \o after
  BY <1>1 DEF RemoveFirst, RemoveAt, SelectInSeq
<1> HIDE DEF at
<1>4. /\ before \in Seq(S) /\ Len(before) = at - 1
      /\ \A p \in 1 .. at - 1 : before[p] = order[p]
  BY <1>2
<1>5. /\ after \in Seq(S) /\ Len(after) = Len(order) - at
      /\ \A p \in 1 .. Len(order) - at : after[p] = order[p + at]
  BY <1>2
<1> HIDE DEF before, after
<1>6. /\ before \o after \in Seq(S) /\ Len(before \o after) = Len(order) - 1
      /\ DOMAIN (before \o after) = 1 .. Len(order) - 1
      /\ \A p \in 1 .. at - 1 : (before \o after)[p] = order[p]
      /\ \A p \in at .. Len(order) - 1 : (before \o after)[p] = order[p + 1]
  <2> DEFINE whole == before \o after
  <2>1. /\ whole \in Seq(S) /\ Len(whole) = Len(before) + Len(after)
        /\ \A p \in 1 .. Len(before) + Len(after) :
              whole[p] = IF p <= Len(before) THEN before[p] ELSE after[p - Len(before)]
    BY <1>4, <1>5, ConcatProperties
  <2> HIDE DEF whole
  <2>2. Len(whole) = Len(order) - 1 /\ DOMAIN whole = 1 .. Len(order) - 1
    BY <1>2, <1>4, <1>5, <2>1
  <2>3. ASSUME NEW p \in 1 .. at - 1 PROVE whole[p] = order[p]
    <3>1. p \in 1 .. Len(before) + Len(after) /\ p <= Len(before)
      BY <1>2, <1>4, <1>5
    <3> QED BY <1>4, <2>1, <3>1
  <2>4. ASSUME NEW p \in at .. Len(order) - 1 PROVE whole[p] = order[p + 1]
    <3>1. p - (at - 1) \in 1 .. Len(order) - at /\ p - (at - 1) + at = p + 1
      BY <1>2
    <3>2. p \in 1 .. Len(before) + Len(after) /\ ~(p <= Len(before)) /\ p - Len(before) = p - (at - 1)
      BY <1>2, <1>4, <1>5
    <3> QED BY <1>5, <2>1, <3>1, <3>2
  <2> QED BY <2>1, <2>2, <2>3, <2>4 DEF whole
<1>7. ASSUME NEW t \in S, NEW n \in Int, Recalled(order, t, n), t # s
      PROVE  Recalled(before \o after, t, n)
  <2>1. PICK p \in 1 .. Len(order) : order[p] = t /\ Len(order) - p <= n
    BY <1>7 DEF Recalled
  <2>2. CASE p < at
    <3>1. p \in 1 .. Len(order) - 1 /\ (before \o after)[p] = t /\ Len(order) - 1 - p <= n
      BY <1>2, <1>6, <2>1, <2>2
    <3> QED BY <1>6, <3>1 DEF Recalled
  <2>3. CASE p > at
    <3>1. p - 1 \in at .. Len(order) - 1 /\ p - 1 \in 1 .. Len(order) - 1
          /\ Len(order) - 1 - (p - 1) <= n
      BY <1>2, <2>1, <2>3
    <3>2. (before \o after)[p - 1] = order[p - 1 + 1]
      BY <1>6, <3>1
    <3>3. (before \o after)[p - 1] = t
      BY <2>1, <3>2
    <3> QED BY <1>6, <3>1, <3>3 DEF Recalled
  <2> QED BY <1>2, <1>7, <2>1, <2>2, <2>3
<1> QED BY <1>3, <1>6, <1>7

\* What is queued is what either class holds.
LEMMA ClassesTogether ==
    ASSUME NEW a \in Seq(Offered), NEW b \in Seq(Offered)
    PROVE  /\ \A j \in DOMAIN a : a[j].sequence \in Identities(a \o b)
           /\ \A j \in DOMAIN b : b[j].sequence \in Identities(a \o b)
           /\ \A x \in Identities(a \o b) :
                \/ \E j \in DOMAIN a : x = a[j].sequence
                \/ \E j \in DOMAIN b : x = b[j].sequence
<1> DEFINE whole == a \o b
<1>1. /\ whole \in Seq(Offered) /\ Len(whole) = Len(a) + Len(b)
      /\ \A p \in 1 .. Len(a) + Len(b) :
            whole[p] = IF p <= Len(a) THEN a[p] ELSE b[p - Len(a)]
  BY ConcatProperties
<1>2. DOMAIN a = 1 .. Len(a) /\ DOMAIN b = 1 .. Len(b) /\ Len(a) \in Nat /\ Len(b) \in Nat
  OBVIOUS
<1> HIDE DEF whole
<1>3. DOMAIN whole = 1 .. Len(a) + Len(b)
  BY <1>1
<1>4. Identities(whole) = {whole[p].sequence : p \in DOMAIN whole}
  BY DEF Identities, Range
<1>5. ASSUME NEW j \in DOMAIN a PROVE a[j].sequence \in Identities(whole)
  <2>1. j \in DOMAIN whole /\ whole[j] = a[j]
    BY <1>1, <1>2, <1>3
  <2> QED BY <1>4, <2>1
<1>6. ASSUME NEW j \in DOMAIN b PROVE b[j].sequence \in Identities(whole)
  <2>1. /\ j + Len(a) \in 1 .. Len(a) + Len(b) /\ ~(j + Len(a) <= Len(a))
        /\ j + Len(a) - Len(a) = j
    BY <1>2
  <2>2. whole[j + Len(a)] = b[j]
    BY <1>1, <2>1
  <2> QED BY <1>3, <1>4, <2>1, <2>2
<1>7. ASSUME NEW x \in Identities(whole)
      PROVE  \/ \E j \in DOMAIN a : x = a[j].sequence
             \/ \E j \in DOMAIN b : x = b[j].sequence
  <2>1. PICK p \in 1 .. Len(a) + Len(b) : x = whole[p].sequence
    BY <1>3, <1>4
  <2>2. CASE p <= Len(a)
    <3>1. p \in DOMAIN a /\ whole[p] = a[p]
      BY <1>1, <1>2, <2>2
    <3> QED BY <2>1, <3>1
  <2>3. CASE ~(p <= Len(a))
    <3>1. p - Len(a) \in DOMAIN b /\ whole[p] = b[p - Len(a)]
      BY <1>1, <1>2, <2>3
    <3> QED BY <2>1, <3>1
  <2> QED BY <2>2, <2>3
<1> QED BY <1>5, <1>6, <1>7 DEF whole

\* Another frame is offered: what waits is still held, and so is the newcomer.
LEMMA HeldThroughOffer ==
    ASSUME seen_order \in Seq({f.sequence : f \in Offered}),
           NEW frame \in Offered, seen_order' = remember(frame.sequence),
           forgotten' = forgotten,
           Queued \in Nat, Queued < max_items, Queued' = Queued + 1,
           NEW class \in Seq(Offered), Len(class) <= Queued,
           NEW share \in 1 .. DISTRESS_BURST, NEW passing \in Nat, passing <= share,
           Waiting(class, share, passing)
    PROVE  Waiting(class, share, passing)' /\ Waiting(Append(class, frame), share, passing)'
<1> DEFINE S == {f.sequence : f \in Offered}
           longer == Append(class, frame)
<1>0. /\ max_items \in Nat /\ DISTRESS_BURST \in Nat /\ MAX_DEDUP_ENTRIES \in Nat
      /\ share \in Nat \ {0} /\ share <= DISTRESS_BURST
  BY QueueConstants
<1>1. MAX_DEDUP_ENTRIES > 0
  <2>1. (max_items - 1) * DISTRESS_BURST >= 0
    BY <1>0
  <2>2. (max_items - 1) * DISTRESS_BURST \in Int
    BY <1>0
  <2> QED BY <1>0, <2>1, <2>2, QueueConstants
<1>2. /\ DOMAIN class = 1 .. Len(class) /\ Len(class) \in Nat
      /\ DOMAIN longer = 1 .. Len(class) + 1
      /\ \A j \in DOMAIN class : longer[j] = class[j] /\ class[j] \in Offered
      /\ longer[Len(class) + 1] = frame
  OBVIOUS
<1> HIDE DEF longer
<1>3. ASSUME NEW j \in DOMAIN class
      PROVE  HeldWithin(class[j], Newer(Queued, j, share, passing))'
  <2> DEFINE n == Newer(Queued, j, share, passing)
             t == class[j].sequence
  <2>1. j \in Nat \ {0} /\ j <= Queued
    BY <1>2
  <2>2. n \in Int /\ n < MAX_DEDUP_ENTRIES - 1 /\ Newer(Queued', j, share, passing) = n + 1
    <3>1. n < MAX_DEDUP_ENTRIES - 1
      BY <1>0, <2>1, NewerFits
    <3>2. n \in Int /\ Newer(Queued + 1, j, share, passing) = n + 1
      <4> USE <1>0, <2>1
      <4>1. n \in Int
        BY NewerMoves
      <4>2. Newer(Queued + 1, j, share, passing) = n + 1
        BY NewerOffered
      <4> QED BY <4>1, <4>2
    <3> QED BY <3>1, <3>2
  <2>3. t \in forgotten \/ Recalled(seen_order, t, n)
    BY DEF Waiting, HeldWithin
  <2>4. t \in S /\ frame.sequence \in S
    BY <1>2
  <2> HIDE DEF n, S
  <2>5. t \in forgotten' \/ Recalled(seen_order', t, n + 1)
    BY <1>1, <2>2, <2>3, <2>4, RememberKeeps DEF S
  <2> QED BY <2>2, <2>5 DEF HeldWithin
<1>4. HeldWithin(frame, Newer(Queued, Len(class) + 1, share, passing))'
  <2> DEFINE n == Newer(Queued', Len(class) + 1, share, passing)
  <2>1. Len(class) + 1 \in Nat \ {0} /\ Len(class) + 1 <= Queued + 1
        /\ Len(class) + 1 <= max_items /\ Queued + 1 \in Nat
    BY <1>0, <1>2
  <2>2. n \in Int /\ n >= 0
    BY <1>0, <2>1, NewerMoves
  <2>3. frame.sequence \in S
    OBVIOUS
  <2> HIDE DEF n, S
  <2>4. Recalled(seen_order', frame.sequence, n)
    BY <1>1, <2>2, <2>3, RememberKeeps DEF S
  <2> QED BY <2>4 DEF HeldWithin, n
<1>5. Waiting(class, share, passing)'
  BY <1>3 DEF Waiting
<1>6. ASSUME NEW j \in DOMAIN longer
      PROVE  HeldWithin(longer[j], Newer(Queued, j, share, passing))'
  <2>1. CASE j \in DOMAIN class
    BY <1>2, <1>3, <2>1
  <2>2. CASE j = Len(class) + 1
    BY <1>2, <1>4, <2>2
  <2> QED BY <1>2, <2>1, <2>2
<1>7. Waiting(longer, share, passing)'
  BY <1>6 DEF Waiting
<1> QED BY <1>5, <1>7 DEF longer

\* A frame of the other class is served: what waits here is passed once more.
LEMMA HeldThroughPassing ==
    ASSUME seen_order' = seen_order, Queued \in Nat \ {0}, Queued' = Queued - 1,
           NEW class \in Seq(Offered), Len(class) < max_items,
           \A j \in DOMAIN class : class[j].sequence \in forgotten
                => class[j].sequence \in forgotten',
           NEW share \in 1 .. DISTRESS_BURST, NEW passing \in Nat,
           Waiting(class, share, passing)
    PROVE  Waiting(class, share, passing + 1)'
<1> SUFFICES ASSUME NEW j \in DOMAIN class
             PROVE  HeldWithin(class[j], Newer(Queued, j, share, passing + 1))'
  BY DEF Waiting
<1>1. j \in Nat \ {0} /\ j < max_items /\ share \in Nat \ {0}
  BY QueueConstants
<1>2. Newer(Queued', j, share, passing + 1) = Newer(Queued, j, share, passing)
  BY <1>1, NewerPassed
<1>3. HeldWithin(class[j], Newer(Queued, j, share, passing))
  BY DEF Waiting
<1> QED BY <1>2, <1>3 DEF HeldWithin

\* A frame of this class is served: the others move up, and no frame of the
\* other class has passed the new first one.
LEMMA HeldThroughServing ==
    ASSUME seen_order' = seen_order, seen_order \in Seq({f.sequence : f \in Offered}),
           Queued \in Nat \ {0}, Queued' = Queued - 1, Queued <= max_items,
           NEW class \in Seq(Offered), class # <<>>, Len(class) <= Queued,
           \A j \in DOMAIN Tail(class) : Tail(class)[j].sequence \in forgotten
                => Tail(class)[j].sequence \in forgotten',
           NEW share \in 1 .. DISTRESS_BURST, NEW passing \in Nat, passing <= share,
           Waiting(class, share, passing)
    PROVE  Waiting(Tail(class), share, 0)'
<1> SUFFICES ASSUME NEW j \in DOMAIN Tail(class)
             PROVE  HeldWithin(Tail(class)[j], Newer(Queued, j, share, 0))'
  BY DEF Waiting
<1>1. /\ j + 1 \in Nat \ {0} /\ 1 < j + 1 /\ j + 1 <= max_items /\ share \in Nat \ {0}
      /\ j \in Nat \ {0} /\ j + 1 - 1 = j
      /\ j + 1 \in DOMAIN class /\ Tail(class)[j] = class[j + 1]
  BY QueueConstants
<1> DEFINE n == Newer(Queued, j + 1, share, passing)
           m == Newer(Queued - 1, j, share, 0)
           t == class[j + 1].sequence
<1>2. n \in Int /\ m \in Int /\ n <= m
  <2>1. Newer(Queued, j + 1, share, passing) <= Newer(Queued - 1, j + 1 - 1, share, 0)
    BY <1>1, NewerMoves
  <2> QED BY <1>1, <2>1, NewerMoves
<1>3. t \in forgotten \/ Recalled(seen_order, t, n)
  BY <1>1 DEF Waiting, HeldWithin
<1>4. Len(seen_order) \in Nat /\ DOMAIN seen_order = 1 .. Len(seen_order)
  OBVIOUS
<1> HIDE DEF n, m
<1>5. Recalled(seen_order, t, n) => Recalled(seen_order, t, m)
  BY <1>2, <1>4 DEF Recalled
<1>6. t \in forgotten' \/ Recalled(seen_order', t, m)
  BY <1>1, <1>3, <1>5
<1> QED BY <1>1, <1>6 DEF HeldWithin, m

\* An identity is forgotten: a frame that waits under it is excused, the
\* others keep their place.
LEMMA HeldThroughForgetting ==
    ASSUME seen_order \in Seq({f.sequence : f \in Offered}), NEW s \in Range(seen_order),
           seen_order' = RemoveFirst(seen_order, s), Queued \in Nat, Queued' = Queued,
           NEW class \in Seq(Offered),
           \A j \in DOMAIN class : class[j].sequence \in forgotten \/ class[j].sequence = s
                => class[j].sequence \in forgotten',
           NEW share \in 1 .. DISTRESS_BURST, NEW passing \in Nat,
           Waiting(class, share, passing)
    PROVE  Waiting(class, share, passing)'
<1> DEFINE S == {f.sequence : f \in Offered}
<1> SUFFICES ASSUME NEW j \in DOMAIN class
             PROVE  HeldWithin(class[j], Newer(Queued, j, share, passing))'
  BY DEF Waiting
<1> DEFINE n == Newer(Queued, j, share, passing)
           t == class[j].sequence
<1>1. n \in Int /\ t \in S
  <2>1. j \in Nat \ {0} /\ share \in Nat \ {0}
    BY QueueConstants
  <2>2. n \in Int
    BY <2>1, NewerMoves
  <2>3. class[j] \in Offered
    OBVIOUS
  <2> QED BY <2>2, <2>3
<1>2. t \in forgotten \/ Recalled(seen_order, t, n)
  BY DEF Waiting, HeldWithin
<1> HIDE DEF n, S
<1>3. Recalled(seen_order, t, n) /\ t # s => Recalled(seen_order', t, n)
  BY <1>1, ForgetKeeps DEF S
<1> QED BY <1>2, <1>3 DEF HeldWithin, n

\* The turns of the two classes, whatever the caller does.
LEMMA TurnsKept ==
    ASSUME Turns, QueueNext
    PROVE  Turns'
<1> USE QueueConstants DEF Turns
<1>1. ASSUME NEW frame \in Offered, NEW priority \in {"Routine", "Distress"},
             offer(frame, priority)
      PROVE  Turns'
  BY <1>1 DEF offer
<1>2. ASSUME NEW frame \in Offered, forget(frame.sequence) PROVE Turns'
  BY <1>2 DEF forget
<1>3. CASE take_next_routine
  <2> DEFINE d == IF distress # <<>> THEN overtaken.Distress + 1 ELSE 0
  <2>1. overtaken' = [Distress |-> d, Routine |-> 0] /\ distress_streak' = 0
    BY <1>3 DEF take_next_routine, Overtaking
  <2>2. d \in Nat /\ d <= 1
    BY <1>3 DEF take_next_routine, take_routine
  <2> HIDE DEF d
  <2> QED BY <2>1, <2>2
<1>4. CASE take_next_distress
  <2> DEFINE r == IF routine # <<>> THEN overtaken.Routine + 1 ELSE 0
             streak == IF distress_streak <= DISTRESS_BURST THEN distress_streak + 1
                       ELSE distress_streak
  <2>1. overtaken' = [Distress |-> 0, Routine |-> r] /\ distress_streak' = streak
    BY <1>4 DEF take_next_distress, Overtaking
  <2>2. r \in Nat /\ streak \in Nat /\ r <= streak /\ r <= DISTRESS_BURST
    BY <1>4 DEF take_next_distress, take_routine
  <2> HIDE DEF r, streak
  <2> QED BY <2>1, <2>2
<1>5. ASSUME NEW now \in Instants, drop_expired(now) PROVE Turns'
  <2> DEFINE d == IF distress' = <<>> THEN 0 ELSE overtaken.Distress
             r == IF routine' = <<>> THEN 0 ELSE overtaken.Routine
  <2>1. overtaken' = [Distress |-> d, Routine |-> r] /\ distress_streak' = distress_streak
    BY <1>5 DEF drop_expired
  <2>2. /\ d \in Nat /\ r \in Nat /\ r <= distress_streak /\ r <= DISTRESS_BURST /\ d <= 1
        /\ d = 1 => distress_streak = 0
    OBVIOUS
  <2> HIDE DEF d, r
  <2> QED BY <2>1, <2>2
<1> QED BY <1>1, <1>2, <1>3, <1>4, <1>5 DEF QueueNext, take_next

\* The new state of a queue, named before the step.
LEMMA HeldAgain ==
    ASSUME NEW d \in Seq(Offered), NEW r \in Seq(Offered), NEW dp, NEW rp,
           distress' = d, routine' = r, Len(d) + Len(r) <= max_items,
           overtaken'.Distress = dp \/ d = <<>>,
           overtaken'.Routine = rp \/ r = <<>>,
           Waiting(d, 1, dp)', Waiting(r, DISTRESS_BURST, rp)'
    PROVE  Held'
<1>1. d = <<>> => DOMAIN d = {}
  OBVIOUS
<1>2. r = <<>> => DOMAIN r = {}
  OBVIOUS
<1>3. Queued' <= max_items
  BY DEF Queued
<1>4. Waiting(distress, 1, overtaken.Distress)'
  BY <1>1 DEF Waiting, HeldWithin
<1>5. Waiting(routine, DISTRESS_BURST, overtaken.Routine)'
  BY <1>2 DEF Waiting, HeldWithin
<1> QED BY <1>3, <1>4, <1>5 DEF Held

\* Nothing waits that is not held, as long as nothing has been swept away.
LEMMA HeldKept ==
    ASSUME QueueInv, QueueNext
    PROVE  QueueInv'
<1> DEFINE S == {f.sequence : f \in Offered}
<1>d. PICK d : d = distress
  OBVIOUS
<1>r. PICK r : r = routine
  OBVIOUS
<1>p. PICK dp, rp : dp = overtaken.Distress /\ rp = overtaken.Routine
  OBVIOUS
<1>q. PICK q : q = Queued
  OBVIOUS
<1>0. Turns'
  BY TurnsKept DEF QueueInv
<1>1. /\ max_items \in Nat /\ DISTRESS_BURST \in Nat /\ 1 \in 1 .. DISTRESS_BURST
      /\ DISTRESS_BURST \in 1 .. DISTRESS_BURST
      /\ dp \in Nat /\ dp <= 1 /\ rp \in Nat /\ rp <= DISTRESS_BURST
      /\ seen_order \in Seq(S) /\ swept \in BOOLEAN
  BY <1>p, QueueConstants DEF QueueInv, Turns
<1>2. ASSUME ~swept
      PROVE  /\ d \in Seq(Offered) /\ r \in Seq(Offered)
             /\ Len(d) \in Nat /\ Len(r) \in Nat
             /\ q = Len(d) + Len(r) /\ q \in Nat /\ q <= max_items
             /\ Len(d) <= q /\ Len(r) <= q
             /\ Waiting(d, 1, dp) /\ Waiting(r, DISTRESS_BURST, rp)
  BY <1>2, <1>d, <1>r, <1>p, <1>q DEF QueueInv, Held, Queued
<1>3. Queued' = Len(distress') + Len(routine')
  BY DEF Queued
<1>s. S = {f.sequence : f \in Offered}
  OBVIOUS
<1> HIDE DEF S
<1>4. ASSUME NEW frame \in Offered, NEW priority \in {"Routine", "Distress"},
             offer(frame, priority)
      PROVE  QueueInv'
  <2>1. /\ Len(distress) + Len(routine) < max_items
        /\ seen_order' = remember(frame.sequence)
        /\ distress' = IF priority = "Distress" THEN Append(d, frame) ELSE d
        /\ routine' = IF priority = "Routine" THEN Append(r, frame) ELSE r
        /\ forgotten' = forgotten /\ overtaken' = overtaken /\ swept' = swept
    BY <1>4, <1>d, <1>r DEF offer
  <2>2. seen_order' \in Seq(S)
    <3> DEFINE all == Append(seen_order, frame.sequence)
    <3>1. frame.sequence \in S
      BY <1>s
    <3>2. all \in Seq(S) /\ all # <<>>
      <4>1. all \in Seq(S) /\ Len(all) = Len(seen_order) + 1 /\ Len(seen_order) \in Nat
        BY <1>1, <3>1, AppendProperties
      <4>2. Len(<<>>) = 0
        OBVIOUS
      <4> HIDE DEF all
      <4> QED BY <4>1, <4>2
    <3>3. Tail(all) \in Seq(S)
      BY <3>2
    <3> QED BY <2>1, <3>2, <3>3 DEF remember
  <2>3. ASSUME ~swept PROVE Held'
    <3> DEFINE longd == Append(d, frame)
               longr == Append(r, frame)
    <3>1. /\ longd \in Seq(Offered) /\ longr \in Seq(Offered)
          /\ Len(longd) = Len(d) + 1 /\ Len(longr) = Len(r) + 1
      BY <1>2, <2>3
    <3>2. Queued' = Queued + 1 /\ Queued < max_items /\ Queued \in Nat
      <4>1. \/ Len(distress') = Len(d) + 1 /\ Len(routine') = Len(r)
            \/ Len(distress') = Len(d) /\ Len(routine') = Len(r) + 1
        BY <2>1, <3>1
      <4>2. Len(d) + Len(r) < max_items
        BY <1>d, <1>r, <2>1
      <4>3. Queued' = q + 1
        BY <1>2, <1>3, <2>3, <4>1
      <4> QED BY <1>1, <1>2, <1>q, <2>3, <4>2, <4>3
    <3>3. Waiting(d, 1, dp)' /\ Waiting(longd, 1, dp)'
      BY <1>1, <1>2, <1>q, <1>s, <2>1, <2>3, <3>2, HeldThroughOffer
    <3>4. Waiting(r, DISTRESS_BURST, rp)' /\ Waiting(longr, DISTRESS_BURST, rp)'
      BY <1>1, <1>2, <1>q, <1>s, <2>1, <2>3, <3>2, HeldThroughOffer
    <3>5. overtaken'.Distress = dp /\ overtaken'.Routine = rp
      BY <1>p, <2>1
    <3>6. Len(d) + Len(r) < max_items
      BY <1>d, <1>r, <2>1
    <3> HIDE DEF longd, longr
    <3>7. CASE priority = "Distress"
      <4>1. distress' = longd /\ routine' = r
        BY <2>1, <3>7 DEF longd
      <4>2. Len(longd) + Len(r) <= max_items
        BY <1>1, <1>2, <2>3, <3>1, <3>6
      <4> QED BY <1>2, <2>3, <3>1, <3>3, <3>4, <3>5, <4>1, <4>2, HeldAgain
    <3>8. CASE priority = "Routine"
      <4>1. distress' = d /\ routine' = longr
        BY <2>1, <3>8 DEF longr
      <4>2. Len(d) + Len(longr) <= max_items
        BY <1>1, <1>2, <2>3, <3>1, <3>6
      <4> QED BY <1>2, <2>3, <3>1, <3>3, <3>4, <3>5, <4>1, <4>2, HeldAgain
    <3> QED BY <3>7, <3>8
  <2> QED BY <1>0, <1>1, <1>s, <2>1, <2>2, <2>3 DEF QueueInv
<1>5. ASSUME NEW frame \in Offered, forget(frame.sequence) PROVE QueueInv'
  <2>1. /\ frame.sequence \in Range(seen_order)
        /\ seen_order' = RemoveFirst(seen_order, frame.sequence)
        /\ forgotten' = forgotten \cup ({frame.sequence} \cap Identities(d \o r))
        /\ distress' = d /\ routine' = r /\ overtaken' = overtaken /\ swept' = swept
    BY <1>5, <1>d, <1>r DEF forget
  <2>2. seen_order' \in Seq(S)
    BY <1>1, <2>1, ForgetKeeps
  <2>3. ASSUME ~swept PROVE Held'
    <3>1. Queued' = Queued /\ Queued \in Nat
      BY <1>2, <1>3, <1>q, <1>d, <1>r, <2>1, <2>3
    <3>2. /\ \A j \in DOMAIN d : d[j].sequence \in Identities(d \o r)
          /\ \A j \in DOMAIN r : r[j].sequence \in Identities(d \o r)
      BY <1>2, <2>3, ClassesTogether
    <3>3. Waiting(d, 1, dp)'
      <4>1. \A j \in DOMAIN d : d[j].sequence \in forgotten \/ d[j].sequence = frame.sequence
                => d[j].sequence \in forgotten'
        BY <2>1, <3>2
      <4> QED BY <1>1, <1>2, <1>s, <2>1, <2>3, <3>1, <4>1, HeldThroughForgetting
    <3>4. Waiting(r, DISTRESS_BURST, rp)'
      <4>1. \A j \in DOMAIN r : r[j].sequence \in forgotten \/ r[j].sequence = frame.sequence
                => r[j].sequence \in forgotten'
        BY <2>1, <3>2
      <4> QED BY <1>1, <1>2, <1>s, <2>1, <2>3, <3>1, <4>1, HeldThroughForgetting
    <3>5. overtaken'.Distress = dp /\ overtaken'.Routine = rp
      BY <1>p, <2>1
    <3>6. Len(d) + Len(r) <= max_items
      BY <1>2, <2>3
    <3> QED BY <1>2, <2>1, <2>3, <3>3, <3>4, <3>5, <3>6, HeldAgain
  <2> QED BY <1>0, <1>1, <1>s, <2>1, <2>2, <2>3 DEF QueueInv
<1>6. CASE take_next_routine
  <2>1. /\ r # <<>> /\ distress' = d /\ routine' = Tail(r)
        /\ seen_order' = seen_order /\ swept' = swept
        /\ forgotten' = forgotten \cap Identities(d \o Tail(r))
        /\ overtaken' = Overtaking("Routine")
    BY <1>6, <1>d, <1>r DEF take_next_routine
  <2>2. ASSUME ~swept PROVE Held'
    <3> DEFINE tail == Tail(r)
    <3>1. /\ tail \in Seq(Offered) /\ Len(tail) = Len(r) - 1 /\ Len(r) # 0
      BY <1>2, <2>1, <2>2
    <3>2. /\ Queued \in Nat \ {0} /\ Queued' = Queued - 1 /\ Queued <= max_items
          /\ Len(d) < max_items
      BY <1>1, <1>2, <1>3, <1>q, <2>1, <2>2, <3>1
    <3>3. /\ \A j \in DOMAIN d : d[j].sequence \in Identities(d \o tail)
          /\ \A j \in DOMAIN tail : tail[j].sequence \in Identities(d \o tail)
      BY <1>2, <2>2, <3>1, ClassesTogether
    <3>4. Waiting(d, 1, dp + 1)'
      <4>1. \A j \in DOMAIN d : d[j].sequence \in forgotten => d[j].sequence \in forgotten'
        BY <2>1, <3>3
      <4> QED BY <1>1, <1>2, <2>1, <2>2, <3>2, <4>1, HeldThroughPassing
    <3>5. Waiting(Tail(r), DISTRESS_BURST, 0)'
      <4>1. \A j \in DOMAIN Tail(r) : Tail(r)[j].sequence \in forgotten
                => Tail(r)[j].sequence \in forgotten'
        BY <2>1, <3>3
      <4>2. Len(r) <= Queued
        BY <1>2, <1>q, <2>2
      <4> QED BY <1>1, <1>2, <1>s, <2>1, <2>2, <3>2, <4>1, <4>2, HeldThroughServing
    <3>6. overtaken'.Distress = dp + 1 \/ d = <<>>
      BY <1>p, <1>d, <2>1 DEF Overtaking
    <3>7. overtaken'.Routine = 0
      BY <2>1 DEF Overtaking
    <3>8. Len(d) + Len(tail) <= max_items
      BY <1>1, <1>2, <2>2, <3>1
    <3> HIDE DEF tail
    <3> QED BY <1>2, <2>1, <2>2, <3>1, <3>4, <3>5, <3>6, <3>7, <3>8, HeldAgain DEF tail
  <2> QED BY <1>0, <1>1, <1>s, <2>1, <2>2 DEF QueueInv
<1>7. CASE take_next_distress
  <2>1. /\ d # <<>> /\ routine' = r /\ distress' = Tail(d)
        /\ seen_order' = seen_order /\ swept' = swept
        /\ forgotten' = forgotten \cap Identities(Tail(d) \o r)
        /\ overtaken' = Overtaking("Distress")
    BY <1>7, <1>d, <1>r DEF take_next_distress
  <2>2. ASSUME ~swept PROVE Held'
    <3> DEFINE tail == Tail(d)
    <3>1. /\ tail \in Seq(Offered) /\ Len(tail) = Len(d) - 1 /\ Len(d) # 0
      BY <1>2, <2>1, <2>2
    <3>2. /\ Queued \in Nat \ {0} /\ Queued' = Queued - 1 /\ Queued <= max_items
          /\ Len(r) < max_items
      BY <1>1, <1>2, <1>3, <1>q, <2>1, <2>2, <3>1
    <3>3. /\ \A j \in DOMAIN r : r[j].sequence \in Identities(tail \o r)
          /\ \A j \in DOMAIN tail : tail[j].sequence \in Identities(tail \o r)
      BY <1>2, <2>2, <3>1, ClassesTogether
    <3>4. Waiting(r, DISTRESS_BURST, rp + 1)'
      <4>1. \A j \in DOMAIN r : r[j].sequence \in forgotten => r[j].sequence \in forgotten'
        BY <2>1, <3>3
      <4> QED BY <1>1, <1>2, <2>1, <2>2, <3>2, <4>1, HeldThroughPassing
    <3>5. Waiting(Tail(d), 1, 0)'
      <4>1. \A j \in DOMAIN Tail(d) : Tail(d)[j].sequence \in forgotten
                => Tail(d)[j].sequence \in forgotten'
        BY <2>1, <3>3
      <4>2. Len(d) <= Queued
        BY <1>2, <1>q, <2>2
      <4> QED BY <1>1, <1>2, <1>s, <2>1, <2>2, <3>2, <4>1, <4>2, HeldThroughServing
    <3>6. overtaken'.Routine = rp + 1 \/ r = <<>>
      BY <1>p, <1>r, <2>1 DEF Overtaking
    <3>7. overtaken'.Distress = 0
      BY <2>1 DEF Overtaking
    <3>8. Len(tail) + Len(r) <= max_items
      BY <1>1, <1>2, <2>2, <3>1
    <3> HIDE DEF tail
    <3> QED BY <1>2, <2>1, <2>2, <3>1, <3>4, <3>5, <3>6, <3>7, <3>8, HeldAgain DEF tail
  <2> QED BY <1>0, <1>1, <1>s, <2>1, <2>2 DEF QueueInv
<1>8. ASSUME NEW now \in Instants, drop_expired(now) PROVE QueueInv'
  <2>1. /\ overtaken' = [Distress |-> IF distress' = <<>> THEN 0 ELSE overtaken.Distress,
                          Routine |-> IF routine' = <<>> THEN 0 ELSE overtaken.Routine]
        /\ forgotten' = forgotten \cap Identities(distress' \o routine')
        /\ swept' = (swept \/ <<distress', routine'>> # <<distress, routine>>)
        /\ seen_order' = seen_order
    BY <1>8 DEF drop_expired
  <2>2. ASSUME ~swept' PROVE Held'
    <3>1. ~swept /\ distress' = d /\ routine' = r
      BY <1>1, <1>d, <1>r, <2>1, <2>2
    <3>2. Queued' = Queued
      BY <1>3, <1>d, <1>r, <3>1 DEF Queued
    <3>3. /\ \A j \in DOMAIN d : d[j].sequence \in Identities(d \o r)
          /\ \A j \in DOMAIN r : r[j].sequence \in Identities(d \o r)
      BY <1>2, <3>1, ClassesTogether
    <3>4. Waiting(d, 1, dp)' /\ Waiting(r, DISTRESS_BURST, rp)'
      BY <1>2, <2>1, <3>1, <3>2, <3>3 DEF Waiting, HeldWithin
    <3>5. /\ overtaken'.Distress = dp \/ d = <<>>
          /\ overtaken'.Routine = rp \/ r = <<>>
      BY <1>p, <2>1, <3>1
    <3>6. Len(d) + Len(r) <= max_items
      BY <1>2, <3>1
    <3> QED BY <1>2, <3>1, <3>4, <3>5, <3>6, HeldAgain
  <2>3. swept' \in BOOLEAN
    BY <1>1, <2>1
  <2> QED BY <1>0, <1>1, <1>s, <2>1, <2>2, <2>3 DEF QueueInv
<1> QED BY <1>4, <1>5, <1>6, <1>7, <1>8 DEF QueueNext, take_next

\* What the queue keeps for every capacity, burst and memory large enough.
THEOREM QueueInvariance == PartsSpec => []QueueInv
<1>1. PartsInit => QueueInv
  <2> SUFFICES ASSUME QueueInit PROVE QueueInv
    BY DEF PartsInit
  <2>1. Turns
    BY QueueConstants DEF QueueInit, Turns, Nobody
  <2>2. Held
    <3>1. Queued = 0 /\ DOMAIN distress = {} /\ DOMAIN routine = {}
      BY DEF QueueInit, Queued
    <3> QED BY <3>1, QueueConstants DEF QueueInit, Held, Waiting
  <2>3. seen_order \in Seq({f.sequence : f \in Offered})
    <3>1. \A S : <<>> \in Seq(S)
      OBVIOUS
    <3> QED BY <3>1 DEF QueueInit
  <2> QED BY <2>1, <2>2, <2>3 DEF QueueInit, QueueInv
<1>2. QueueInv /\ [PartsNext]_allVars => QueueInv'
  <2> SUFFICES ASSUME QueueInv, QueueNext \/ UNCHANGED queueVars PROVE QueueInv'
    BY DEF PartsNext, allVars
  <2>1. CASE QueueNext
    BY <2>1, HeldKept
  <2>2. CASE UNCHANGED queueVars
    BY <2>2 DEF queueVars, QueueInv, Turns, Held, Waiting, HeldWithin, Queued
  <2> QED BY <2>1, <2>2
<1> QED BY <1>1, <1>2, PTL DEF PartsSpec

\* Neither class is starved: a waiting routine frame is overtaken by one burst
\* of distress at most and a waiting distress frame by one routine frame, over
\* any calls of offer, forget, take_next and drop_expired.
THEOREM RoutineGetsItsShare == PartsSpec => []FairShare
<1>1. QueueInv => FairShare
  BY DEF QueueInv, Turns, FairShare
<1> QED BY <1>1, QueueInvariance, PTL

\* With a memory of (max_items - 1) * DISTRESS_BURST + max_items identities no
\* frame is let in twice while it waits, unless its caller forgot it.
THEOREM WaitingIsRemembered == PartsSpec => []QueuedIsRemembered
<1>1. ASSUME QueueInv PROVE QueuedIsRemembered
  <2> SUFFICES ASSUME ~swept, NEW x \in Identities(distress \o routine)
               PROVE  x \in Range(seen_order) \cup forgotten
    BY DEF QueuedIsRemembered
  <2>1. /\ distress \in Seq(Offered) /\ routine \in Seq(Offered)
        /\ Waiting(distress, 1, overtaken.Distress)
        /\ Waiting(routine, DISTRESS_BURST, overtaken.Routine)
    BY <1>1 DEF QueueInv, Held
  <2>2. PICK n : x \in forgotten \/ Recalled(seen_order, x, n)
    <3>1. CASE \E j \in DOMAIN distress : x = distress[j].sequence
      BY <2>1, <3>1 DEF Waiting, HeldWithin
    <3>2. CASE \E j \in DOMAIN routine : x = routine[j].sequence
      BY <2>1, <3>2 DEF Waiting, HeldWithin
    <3> QED BY <2>1, <3>1, <3>2, ClassesTogether
  <2> QED BY <2>2 DEF Recalled, Range
<1> QED BY <1>1, QueueInvariance, PTL

----------------------------------------------------------------------------
(* The queue's byte count.                                                 *)

Weights(frames) == [i \in DOMAIN frames |-> frames[i].bytes]

LEMMA WeightsAre ==
    ASSUME NEW f \in Seq(Offered)
    PROVE  /\ Weights(f) \in Seq(Nat) /\ Len(Weights(f)) = Len(f)
           /\ \A i \in 1 .. Len(f) : Weights(f)[i] = f[i].bytes
           /\ Bytes(f) = Total(Weights(f)) /\ Bytes(f) \in Nat
<1>1. \A i \in 1 .. Len(f) : f[i] \in Offered /\ f[i].bytes \in Nat
  BY QueueConstants
<1>2. Weights(f) = [i \in 1 .. Len(f) |-> f[i].bytes]
  BY DEF Weights
<1>3. Weights(f) \in Seq(Nat)
  BY <1>1, <1>2
<1>4. Len(Weights(f)) = Len(f)
  BY <1>2
<1>5. Bytes(f) = Total(Weights(f))
  BY DEF Bytes, Weights
<1> QED BY <1>2, <1>3, <1>4, <1>5, TotalNat

\* The bytes of one queue and then another.
LEMMA BytesSplit ==
    ASSUME NEW f \in Seq(Offered), NEW g \in Seq(Offered), NEW h \in Seq(Offered),
           Len(h) = Len(f) + Len(g),
           \A i \in 1 .. Len(f) : f[i] = h[i],
           \A i \in 1 .. Len(g) : g[i] = h[Len(f) + i]
    PROVE  Bytes(h) = Bytes(f) + Bytes(g)
<1>0. Len(f) \in Nat /\ Len(g) \in Nat
  OBVIOUS
<1>1. PICK u \in Seq(Nat) : /\ Len(u) = Len(f) /\ Bytes(f) = Total(u)
                            /\ \A i \in 1 .. Len(f) : u[i] = f[i].bytes
  BY WeightsAre
<1>2. PICK v \in Seq(Nat) : /\ Len(v) = Len(g) /\ Bytes(g) = Total(v)
                            /\ \A i \in 1 .. Len(g) : v[i] = g[i].bytes
  BY WeightsAre
<1>3. PICK w \in Seq(Nat) : /\ Len(w) = Len(h) /\ Bytes(h) = Total(w)
                            /\ \A i \in 1 .. Len(h) : w[i] = h[i].bytes
  BY WeightsAre
<1>4. ASSUME NEW i \in 1 .. Len(u) PROVE u[i] = w[i]
  <2>1. i \in 1 .. Len(f) /\ i \in 1 .. Len(h)
    BY <1>0, <1>1
  <2>2. u[i] = f[i].bytes /\ w[i] = h[i].bytes /\ f[i] = h[i]
    BY <1>1, <1>3, <2>1
  <2> QED BY <2>2
<1>5. ASSUME NEW i \in 1 .. Len(v) PROVE v[i] = w[Len(u) + i]
  <2>1. PICK m \in 1 .. Len(h) : m = Len(f) + i
    BY <1>0, <1>2
  <2>2. w[m] = h[m].bytes /\ v[i] = g[i].bytes /\ g[i] = h[m]
    BY <1>2, <1>3, <2>1
  <2> QED BY <1>1, <2>1, <2>2
<1>6. Total(w) = Total(u) + Total(v)
  <2>1. Len(w) = Len(u) + Len(v)
    BY <1>1, <1>2, <1>3
  <2> QED BY <1>4, <1>5, <2>1, TotalSplit
<1> QED BY <1>1, <1>2, <1>3, <1>6

\* The bytes of no frame and of one.
LEMMA BytesFew ==
    /\ Bytes(<<>>) = 0
    /\ \A x \in Offered : <<x>> \in Seq(Offered) /\ x.bytes \in Nat /\ Bytes(<<x>>) = x.bytes
<1>1. Bytes(<<>>) = 0
  <2>1. PICK w \in Seq(Nat) : Len(w) = Len(<<>>) /\ Bytes(<<>>) = Total(w)
    <3>1. <<>> \in Seq(Offered)
      BY EmptySeq
    <3> QED BY <3>1, WeightsAre
  <2>2. Len(w) = 0 /\ 1 .. 0 = {}
    BY <2>1, EmptySeq
  <2>3. \A i \in 1 .. Len(w) : w[i] = 0
    BY <2>2
  <2> QED BY <2>3, <2>1, <2>2, TotalNothing
<1>2. ASSUME NEW x \in Offered
      PROVE  <<x>> \in Seq(Offered) /\ x.bytes \in Nat /\ Bytes(<<x>>) = x.bytes
  <2>1. <<x>> \in Seq(Offered) /\ x.bytes \in Nat
    BY QueueConstants
  <2>2. PICK w \in Seq(Nat) : /\ Len(w) = Len(<<x>>) /\ Bytes(<<x>>) = Total(w)
                              /\ \A i \in 1 .. Len(<<x>>) : w[i] = <<x>>[i].bytes
    BY <2>1, WeightsAre
  <2>3. Len(w) = 1 /\ w[1] = x.bytes
    BY <2>2
  <2> QED BY <2>1, <2>2, <2>3, TotalOne
<1> QED BY <1>1, <1>2

\* The bytes of two queues are those of the one that has both.
LEMMA BytesJoined ==
    ASSUME NEW f \in Seq(Offered), NEW g \in Seq(Offered)
    PROVE  Bytes(f \o g) = Bytes(f) + Bytes(g)
<1>0. Len(f) \in Nat /\ Len(g) \in Nat
  OBVIOUS
<1>c. f \o g \in Seq(Offered)
  BY ConcatProperties
<1>1. PICK h \in Seq(Offered) :
          /\ h = f \o g /\ Len(h) = Len(f) + Len(g)
          /\ \A i \in 1 .. Len(f) + Len(g) : h[i] = IF i <= Len(f) THEN f[i] ELSE g[i - Len(f)]
  BY <1>c, ConcatProperties
<1>2. \A i \in 1 .. Len(f) : f[i] = h[i]
  BY <1>0, <1>1
<1>3. ASSUME NEW i \in 1 .. Len(g) PROVE g[i] = h[Len(f) + i]
  <2>1. PICK m \in 1 .. Len(f) + Len(g) : m = Len(f) + i /\ m - Len(f) = i /\ ~(m <= Len(f))
    BY <1>0
  <2> QED BY <1>1, <2>1
<1> QED BY <1>1, <1>2, <1>3, BytesSplit

\* A frame more.
LEMMA BytesMore ==
    ASSUME NEW f \in Seq(Offered), NEW x \in Offered
    PROVE  /\ Append(f, x) \in Seq(Offered) /\ Len(Append(f, x)) = Len(f) + 1
           /\ x.bytes \in Nat
           /\ Bytes(Append(f, x)) = Bytes(f) + x.bytes
<1>0. Len(f) \in Nat
  OBVIOUS
<1>a. Append(f, x) \in Seq(Offered)
  BY AppendProperties
<1>h. PICK h \in Seq(Offered) : h = Append(f, x)
  BY <1>a
<1>1. /\ h = Append(f, x) /\ Len(h) = Len(f) + 1 /\ h[Len(f) + 1] = x
      /\ \A i \in 1 .. Len(f) : f[i] = h[i]
  BY <1>h, AppendProperties
<1>2. PICK g \in Seq(Offered) : Len(g) = 1 /\ g[1] = x /\ Bytes(g) = x.bytes /\ x.bytes \in Nat
  <2>1. Len(<<x>>) = 1 /\ <<x>>[1] = x
    OBVIOUS
  <2> QED BY <2>1, BytesFew
<1>3. \A i \in 1 .. Len(g) : g[i] = h[Len(f) + i]
  BY <1>1, <1>2
<1>4. Bytes(h) = Bytes(f) + Bytes(g)
  <2>1. Len(h) = Len(f) + Len(g)
    BY <1>1, <1>2
  <2>2. \A i \in 1 .. Len(f) : f[i] = h[i]
    BY <1>1
  <2> QED BY <1>3, <2>1, <2>2, BytesSplit
<1> QED BY <1>1, <1>2, <1>4

\* A frame taken from the front.
LEMMA BytesTaken ==
    ASSUME NEW f \in Seq(Offered), f # <<>>
    PROVE  /\ Tail(f) \in Seq(Offered) /\ Len(Tail(f)) = Len(f) - 1
           /\ Head(f).bytes \in Nat
           /\ Bytes(f) = Head(f).bytes + Bytes(Tail(f))
<1>0. Len(f) \in Nat \ {0}
  BY EmptySeq
<1>1. PICK x \in Offered : x = Head(f) /\ x = f[1]
  BY HeadTailProperties
<1>2. PICK t \in Seq(Offered) :
          /\ t = Tail(f) /\ Len(t) = Len(f) - 1
          /\ \A i \in 1 .. Len(t) : t[i] = f[i + 1]
  BY HeadTailProperties
<1>3. PICK g \in Seq(Offered) : Len(g) = 1 /\ g[1] = x /\ Bytes(g) = x.bytes /\ x.bytes \in Nat
  <2>1. Len(<<x>>) = 1 /\ <<x>>[1] = x
    OBVIOUS
  <2> QED BY <2>1, BytesFew
<1>4. \A i \in 1 .. Len(g) : g[i] = f[i]
  BY <1>1, <1>3
<1>5. ASSUME NEW i \in 1 .. Len(t) PROVE t[i] = f[Len(g) + i]
  <2>1. Len(g) + i = i + 1
    BY <1>0, <1>2, <1>3
  <2> QED BY <1>2, <2>1
<1>6. Bytes(f) = Bytes(g) + Bytes(t)
  <2>1. Len(f) = Len(g) + Len(t)
    BY <1>0, <1>2, <1>3
  <2> QED BY <1>4, <1>5, <2>1, BytesSplit
<1> QED BY <1>1, <1>2, <1>3, <1>6

\* retain, frame by frame.
LEMMA RetainingStep ==
    ASSUME NEW f \in Seq(Offered), NEW now
    PROVE  /\ Retaining(f, now)[0] = <<>>
           /\ \A k \in 1 .. Len(f) :
                Retaining(f, now)[k] = Retaining(f, now)[k - 1] \o
                    IF Live(f[k], now) THEN <<f[k]>> ELSE <<>>
<1> DEFINE Left(k) == IF Live(f[k], now) THEN <<f[k]>> ELSE <<>>
           Solves(s, n) == s = [k \in 0 .. n |-> IF k = 0 THEN <<>> ELSE s[k - 1] \o Left(k)]
           T == {n \in Nat : \E s : Solves(s, n)}
<1>0. Len(f) \in Nat
  OBVIOUS
<1> HIDE DEF Left
<1>1. 0 \in T
  <2>1. Solves([k \in 0 .. 0 |-> <<>>], 0)
    OBVIOUS
  <2> QED BY <2>1
<1>2. ASSUME NEW n \in 1 .. Len(f), n - 1 \in T PROVE n \in T
  <2>1. PICK s : Solves(s, n - 1)
    BY <1>2
  <2> DEFINE t == [k \in 0 .. n |-> IF k = n THEN s[n - 1] \o Left(n) ELSE s[k]]
  <2>2. \A k \in 0 .. n : t[k] = IF k = 0 THEN <<>> ELSE t[k - 1] \o Left(k)
    <3> SUFFICES ASSUME NEW k \in 0 .. n
                 PROVE  t[k] = IF k = 0 THEN <<>> ELSE t[k - 1] \o Left(k)
      OBVIOUS
    <3>1. CASE k = n
      <4>1. n # 0 /\ n - 1 \in 0 .. n /\ n - 1 # n /\ n \in 0 .. n
        BY <1>0
      <4>2. t[n] = s[n - 1] \o Left(n) /\ t[n - 1] = s[n - 1]
        BY <4>1
      <4> QED BY <3>1, <4>1, <4>2
    <3>2. CASE k # n
      <4>1. /\ k \in 0 .. n - 1 /\ t[k] = s[k]
            /\ k # 0 => k - 1 \in 0 .. n /\ k - 1 # n /\ t[k - 1] = s[k - 1]
        BY <1>0, <3>2
      <4> QED BY <2>1, <4>1
    <3> QED BY <3>1, <3>2
  <2>3. Solves(t, n) /\ n \in Nat
    BY <1>0, <2>2
  <2>4. \E s2 : Solves(s2, n)
    <3> HIDE DEF t, Solves
    <3> QED BY <2>3
  <2> QED BY <2>3, <2>4
<1>3. Len(f) \in T
  <2> HIDE DEF T
  <2>1. \A n \in 0 .. Len(f) : n \in T
    BY <1>0, <1>1, <1>2, EveryPrefix
  <2> QED BY <1>0, <2>1
<1>4. Solves(Retaining(f, now), Len(f))
  <2>1. PICK s : Solves(s, Len(f))
    BY <1>3
  <2> QED BY <2>1 DEF Retaining, Left
<1>5. \A k \in 0 .. Len(f) : Retaining(f, now)[k] =
          IF k = 0 THEN <<>> ELSE Retaining(f, now)[k - 1] \o Left(k)
  BY <1>4
<1> HIDE DEF T, Solves
<1>6. 0 \in 0 .. Len(f) /\ \A k \in 1 .. Len(f) : k \in 0 .. Len(f) /\ k # 0
  BY <1>0
<1> QED BY <1>5, <1>6 DEF Left

\* What is retained is a queue no longer and no heavier.
LEMMA RetainedFits ==
    ASSUME NEW f \in Seq(Offered), NEW now
    PROVE  /\ Retained(f, now) \in Seq(Offered)
           /\ Len(Retained(f, now)) <= Len(f)
           /\ Bytes(Retained(f, now)) <= Bytes(f)
<1> DEFINE R(k) == Retaining(f, now)[k]
           T == {n \in Nat : /\ R(n) \in Seq(Offered)
                             /\ Len(R(n)) <= n
                             /\ Bytes(R(n)) <= Sums(Weights(f))[n]}
<1>0. Len(f) \in Nat /\ Weights(f) \in Seq(Nat) /\ Len(Weights(f)) = Len(f)
  BY WeightsAre
<1>1. 0 \in T
  <2>1. R(0) = <<>> /\ Sums(Weights(f))[0] = 0
    BY <1>0, RetainingStep, SumsStep
  <2>2. <<>> \in Seq(Offered) /\ Len(<<>>) = 0 /\ Bytes(<<>>) = 0
    BY EmptySeq, BytesFew
  <2>3. R(0) \in Seq(Offered) /\ Len(R(0)) <= 0 /\ Bytes(R(0)) <= Sums(Weights(f))[0]
    <3>1. \A e, n : e = <<>> /\ n = 0 => e \in Seq(Offered) /\ Len(e) <= 0 /\ Bytes(e) <= n
      BY <2>2
    <3> HIDE DEF R
    <3> QED BY <2>1, <3>1
  <2> HIDE DEF R
  <2> QED BY <2>3
<1>2. ASSUME NEW n \in 1 .. Len(f), n - 1 \in T PROVE n \in T
  <2>0. n \in Nat /\ n - 1 \in 0 .. Len(f) /\ f[n] \in Offered
    BY <1>0
  <2>1. PICK r \in Seq(Offered) : r = R(n - 1)
    BY <1>2
  <2>2. Len(r) <= n - 1 /\ Bytes(r) <= Sums(Weights(f))[n - 1]
    BY <1>2, <2>1
  <2>3. Sums(Weights(f))[n] = Sums(Weights(f))[n - 1] + f[n].bytes
    <3>1. Weights(f)[n] = f[n].bytes
      BY WeightsAre
    <3> QED BY <1>0, <3>1, SumsStep
  <2>4. Sums(Weights(f))[n - 1] \in Nat /\ Bytes(r) \in Nat /\ f[n].bytes \in Nat
    BY <1>0, <2>0, SumsNat, WeightsAre, QueueConstants
  <2>5. R(n) = r \o IF Live(f[n], now) THEN <<f[n]>> ELSE <<>>
    BY <2>1, RetainingStep
  <2>6. CASE Live(f[n], now)
    <3>1. R(n) = Append(r, f[n])
      BY <2>0, <2>5, <2>6
    <3>2. /\ R(n) \in Seq(Offered) /\ Len(R(n)) = Len(r) + 1
          /\ Bytes(R(n)) = Bytes(r) + f[n].bytes
      BY <2>0, <3>1, BytesMore
    <3> HIDE DEF R
    <3> QED BY <2>0, <2>2, <2>3, <2>4, <3>2
  <2>7. CASE ~Live(f[n], now)
    <3>1. R(n) = r
      BY <2>0, <2>5, <2>7
    <3> HIDE DEF R
    <3> QED BY <2>0, <2>2, <2>3, <2>4, <3>1
  <2> QED BY <2>6, <2>7
<1>3. \A n \in 0 .. Len(f) : n \in T
  <2> HIDE DEF T
  <2> QED BY <1>0, <1>1, <1>2, EveryPrefix
<1>4. Len(f) \in T
  BY <1>0, <1>3
<1> QED BY <1>0, <1>4, WeightsAre DEF Retained, Total

\* No call lets the count drift or the caps be passed.
LEMMA CountKept ==
    ASSUME Counted, QueueNext
    PROVE  Counted'
<1> USE DEF Counted
<1>0. /\ Bytes(distress) \in Nat /\ Bytes(routine) \in Nat /\ queued_bytes \in Nat
      /\ Len(distress) \in Nat /\ Len(routine) \in Nat
      /\ max_items \in Nat /\ max_bytes \in Nat
  BY WeightsAre, QueueConstants
<1>d. PICK d \in Nat : d = Bytes(distress)
  BY <1>0
<1>r. PICK r \in Nat : r = Bytes(routine)
  BY <1>0
<1>q. queued_bytes = d + r
  BY <1>d, <1>r
<1>1. ASSUME NEW frame \in Offered, NEW priority \in {"Routine", "Distress"},
             offer(frame, priority)
      PROVE  Counted'
  <2>1. CASE priority = "Distress"
    <3>1. distress' = Append(distress, frame) /\ routine' = routine
      BY <1>1, <2>1 DEF offer
    <3>2. /\ distress' \in Seq(Offered) /\ frame.bytes \in Nat
          /\ Bytes(distress') = d + frame.bytes
          /\ Len(distress') = Len(distress) + 1
      BY <1>d, <3>1, BytesMore
    <3>3. Bytes(routine') = r
      BY <1>r, <3>1
    <3>4. /\ queued_bytes' = queued_bytes + frame.bytes /\ queued_bytes' <= max_bytes
          /\ Len(distress) + Len(routine) < max_items
      BY <1>1 DEF offer
    <3>5. queued_bytes' = Bytes(distress') + Bytes(routine')
      BY <1>q, <3>2, <3>3, <3>4
    <3>6. Len(distress') + Len(routine') <= max_items
      BY <1>0, <3>1, <3>2, <3>4
    <3> QED BY <3>1, <3>2, <3>4, <3>5, <3>6
  <2>2. CASE priority = "Routine"
    <3>1. routine' = Append(routine, frame) /\ distress' = distress
      BY <1>1, <2>2 DEF offer
    <3>2. /\ routine' \in Seq(Offered) /\ frame.bytes \in Nat
          /\ Bytes(routine') = r + frame.bytes
          /\ Len(routine') = Len(routine) + 1
      BY <1>r, <3>1, BytesMore
    <3>3. Bytes(distress') = d
      BY <1>d, <3>1
    <3>4. /\ queued_bytes' = queued_bytes + frame.bytes /\ queued_bytes' <= max_bytes
          /\ Len(distress) + Len(routine) < max_items
      BY <1>1 DEF offer
    <3>5. queued_bytes' = Bytes(distress') + Bytes(routine')
      BY <1>q, <3>2, <3>3, <3>4
    <3>6. Len(distress') + Len(routine') <= max_items
      BY <1>0, <3>1, <3>2, <3>4
    <3> QED BY <3>1, <3>2, <3>4, <3>5, <3>6
  <2> QED BY <2>1, <2>2
<1>2. ASSUME NEW frame \in Offered, forget(frame.sequence) PROVE Counted'
  BY <1>2 DEF forget
<1>3. CASE take_next_routine
  <2>1. /\ routine' = Tail(routine) /\ distress' = distress /\ routine # <<>>
        /\ queued_bytes' = Subtract(queued_bytes, Head(routine).bytes)
    BY <1>3 DEF take_next_routine
  <2>2. /\ routine' \in Seq(Offered) /\ Len(routine') = Len(routine) - 1
        /\ Head(routine).bytes \in Nat /\ Bytes(routine') \in Nat
        /\ Bytes(routine) = Head(routine).bytes + Bytes(routine')
    BY <2>1, BytesTaken, WeightsAre
  <2>3. PICK n \in Nat : n = Bytes(routine')
    BY <2>2
  <2>4. r = Head(routine).bytes + n /\ Bytes(distress') = d
    BY <1>r, <1>d, <2>1, <2>2, <2>3
  <2>5. queued_bytes' = d + n /\ queued_bytes' <= queued_bytes
    <3>1. PICK b \in Nat : b = Head(routine).bytes
      BY <2>2
    <3>2. queued_bytes = d + r /\ r = b + n /\ queued_bytes' = Subtract(queued_bytes, b)
      BY <1>q, <2>1, <2>4, <3>1
    <3>3. d + r \in Nat /\ Subtract(d + r, b) = d + n /\ d + n <= d + r
      BY <3>2 DEF Subtract
    <3> QED BY <3>2, <3>3
  <2>6. queued_bytes' = Bytes(distress') + Bytes(routine')
    BY <2>3, <2>4, <2>5
  <2>7. queued_bytes' <= max_bytes
    BY <1>0, <1>q, <2>5
  <2>8. Len(distress') + Len(routine') <= max_items
    BY <1>0, <2>1, <2>2
  <2> QED BY <2>1, <2>2, <2>6, <2>7, <2>8
<1>4. CASE take_next_distress
  <2>1. /\ distress' = Tail(distress) /\ routine' = routine /\ distress # <<>>
        /\ queued_bytes' = Subtract(queued_bytes, Head(distress).bytes)
    BY <1>4 DEF take_next_distress
  <2>2. /\ distress' \in Seq(Offered) /\ Len(distress') = Len(distress) - 1
        /\ Head(distress).bytes \in Nat /\ Bytes(distress') \in Nat
        /\ Bytes(distress) = Head(distress).bytes + Bytes(distress')
    BY <2>1, BytesTaken, WeightsAre
  <2>3. PICK n \in Nat : n = Bytes(distress')
    BY <2>2
  <2>4. d = Head(distress).bytes + n /\ Bytes(routine') = r
    BY <1>d, <1>r, <2>1, <2>2, <2>3
  <2>5. queued_bytes' = r + n /\ queued_bytes' <= queued_bytes
    <3>1. PICK b \in Nat : b = Head(distress).bytes
      BY <2>2
    <3>2. queued_bytes = d + r /\ d = b + n /\ queued_bytes' = Subtract(queued_bytes, b)
      BY <1>q, <2>1, <2>4, <3>1
    <3>3. d + r \in Nat /\ Subtract(d + r, b) = r + n /\ r + n <= d + r
      BY <3>2 DEF Subtract
    <3> QED BY <3>2, <3>3
  <2>6. queued_bytes' = Bytes(distress') + Bytes(routine')
    BY <2>3, <2>4, <2>5
  <2>7. queued_bytes' <= max_bytes
    BY <1>0, <1>q, <2>5
  <2>8. Len(distress') + Len(routine') <= max_items
    BY <1>0, <2>1, <2>2
  <2> QED BY <2>1, <2>2, <2>6, <2>7, <2>8
<1>5. ASSUME NEW now \in Instants, drop_expired(now) PROVE Counted'
  <2>1. /\ distress' = Retained(distress, now) /\ routine' = Retained(routine, now)
        /\ queued_bytes' = Bytes(distress') + Bytes(routine')
    BY <1>5 DEF drop_expired
  <2>2. /\ distress' \in Seq(Offered) /\ Len(distress') <= Len(distress)
        /\ Bytes(distress') <= Bytes(distress)
    BY <2>1, RetainedFits
  <2>3. /\ routine' \in Seq(Offered) /\ Len(routine') <= Len(routine)
        /\ Bytes(routine') <= Bytes(routine)
    BY <2>1, RetainedFits
  <2>4. /\ Bytes(distress') \in Nat /\ Bytes(routine') \in Nat
        /\ Len(distress') \in Nat /\ Len(routine') \in Nat
    BY <2>2, <2>3, WeightsAre
  <2> QED BY <1>0, <2>1, <2>2, <2>3, <2>4
<1> QED BY <1>1, <1>2, <1>3, <1>4, <1>5 DEF QueueNext, take_next

\* The byte count is exact and the caps hold, for every capacity and any frames,
\* over any calls of offer, forget, take_next and drop_expired.
THEOREM CountIsExact == PartsSpec => []BytesExact
<1>1. PartsInit => Counted
  <2>1. <<>> \in Seq(Offered) /\ Len(<<>>) = 0 /\ Bytes(<<>>) = 0
    BY EmptySeq, BytesFew
  <2> QED BY <2>1, QueueConstants DEF PartsInit, QueueInit, Counted
<1>2. Counted /\ [PartsNext]_allVars => Counted'
  <2> SUFFICES ASSUME Counted, QueueNext \/ UNCHANGED queueVars PROVE Counted'
    BY DEF PartsNext, allVars
  <2>1. CASE UNCHANGED queueVars
    BY <2>1 DEF queueVars, Counted
  <2> QED BY <2>1, CountKept
<1>3. Counted => BytesExact
  BY BytesJoined DEF Counted, BytesExact
<1> QED BY <1>1, <1>2, <1>3, PTL DEF PartsSpec

----------------------------------------------------------------------------
(* The airtime meter.                                                      *)

Entries == Seq(Nat \X Nat)

\* What an entry takes of the time from one instant to another.
Counts(entry, from, until) ==
    IF entry[1] >= from /\ entry[1] <= until THEN entry[2] ELSE 0

LEMMA CountsNat ==
    ASSUME NEW x \in Nat \X Nat, NEW from \in Int, NEW until \in Int
    PROVE  /\ Counts(x, from, until) \in Nat /\ x[1] \in Nat /\ x[2] \in Nat
           /\ Counts(x, from, until) <= x[2]
           /\ x[1] < from \/ x[1] > until => Counts(x, from, until) = 0
BY DEF Counts

LEMMA AirtimeIs ==
    ASSUME NEW e \in Entries
    PROVE  \E w \in Seq(Nat) : /\ Len(w) = Len(e) /\ Airtime(e) = Total(w)
                               /\ \A i \in 1 .. Len(e) : w[i] = e[i][2]
<1>1. PICK w : w = [i \in DOMAIN e |-> e[i][2]]
  OBVIOUS
<1>2. w = [i \in 1 .. Len(e) |-> e[i][2]] /\ Len(e) \in Nat
  BY <1>1 DEF Entries
<1>3. \A i \in 1 .. Len(e) : e[i][2] \in Nat
  BY CountsNat DEF Entries
<1>4. w \in Seq(Nat) /\ Len(w) = Len(e)
  BY <1>2, <1>3
<1> QED BY <1>1, <1>2, <1>4 DEF Airtime

LEMMA WithinIs ==
    ASSUME NEW e \in Entries, NEW from \in Int, NEW until \in Int
    PROVE  \E w \in Seq(Nat) : /\ Len(w) = Len(e) /\ Within(e, from, until) = Total(w)
                               /\ \A i \in 1 .. Len(e) : w[i] = Counts(e[i], from, until)
<1>1. PICK w : w = [i \in DOMAIN e |-> Counts(e[i], from, until)]
  OBVIOUS
<1>2. w = [i \in 1 .. Len(e) |-> Counts(e[i], from, until)] /\ Len(e) \in Nat
  BY <1>1 DEF Entries
<1>3. \A i \in 1 .. Len(e) : Counts(e[i], from, until) \in Nat
  BY CountsNat DEF Entries
<1>4. w \in Seq(Nat) /\ Len(w) = Len(e)
  BY <1>2, <1>3
<1>5. Within(e, from, until) = Total(w)
  BY <1>1 DEF Within, Counts
<1> QED BY <1>2, <1>4, <1>5

\* A window takes no more than everything.
LEMMA WithinAirtime ==
    ASSUME NEW e \in Entries, NEW from \in Int, NEW until \in Int
    PROVE  /\ Within(e, from, until) \in Nat /\ Airtime(e) \in Nat
           /\ Within(e, from, until) <= Airtime(e)
<1>1. PICK v \in Seq(Nat) :
          /\ Len(v) = Len(e) /\ Within(e, from, until) = Total(v)
          /\ \A i \in 1 .. Len(e) : v[i] = Counts(e[i], from, until)
  BY WithinIs
<1>2. PICK w \in Seq(Nat) : /\ Len(w) = Len(e) /\ Airtime(e) = Total(w)
                            /\ \A i \in 1 .. Len(e) : w[i] = e[i][2]
  BY AirtimeIs
<1>3. ASSUME NEW i \in 1 .. Len(v) PROVE v[i] <= w[i]
  <2>1. e[i] \in Nat \X Nat
    BY <1>1 DEF Entries
  <2>2. v[i] = Counts(e[i], from, until) /\ w[i] = e[i][2]
    BY <1>1, <1>2
  <2> QED BY <2>1, <2>2, CountsNat
<1>4. Total(v) <= Total(w)
  BY <1>1, <1>2, <1>3, TotalMono
<1> QED BY <1>1, <1>2, <1>4, TotalNat

\* Entries that a window has passed take nothing of it.
LEMMA WithinPassed ==
    ASSUME NEW e \in Entries, NEW from \in Int, NEW until \in Int,
           \A i \in 1 .. Len(e) : e[i][1] < from
    PROVE  Within(e, from, until) = 0
<1>1. PICK v \in Seq(Nat) :
          /\ Len(v) = Len(e) /\ Within(e, from, until) = Total(v)
          /\ \A i \in 1 .. Len(e) : v[i] = Counts(e[i], from, until)
  BY WithinIs
<1>2. ASSUME NEW i \in 1 .. Len(v) PROVE v[i] = 0
  <2>1. e[i] \in Nat \X Nat /\ v[i] = Counts(e[i], from, until) /\ e[i][1] < from
    BY <1>1 DEF Entries
  <2> QED BY <2>1, CountsNat
<1> QED BY <1>1, <1>2, TotalNothing

\* One list of entries and then another.
LEMMA EntriesSplit ==
    ASSUME NEW f \in Entries, NEW g \in Entries, NEW h \in Entries,
           NEW from \in Int, NEW until \in Int,
           Len(h) = Len(f) + Len(g),
           \A i \in 1 .. Len(f) : f[i] = h[i],
           \A i \in 1 .. Len(g) : g[i] = h[Len(f) + i]
    PROVE  /\ Airtime(h) = Airtime(f) + Airtime(g)
           /\ Within(h, from, until) = Within(f, from, until) + Within(g, from, until)
<1>0. Len(f) \in Nat /\ Len(g) \in Nat
  BY DEF Entries
<1>1. Airtime(h) = Airtime(f) + Airtime(g)
  <2>1. PICK u \in Seq(Nat) : /\ Len(u) = Len(f) /\ Airtime(f) = Total(u)
                              /\ \A i \in 1 .. Len(f) : u[i] = f[i][2]
    BY AirtimeIs
  <2>2. PICK v \in Seq(Nat) : /\ Len(v) = Len(g) /\ Airtime(g) = Total(v)
                              /\ \A i \in 1 .. Len(g) : v[i] = g[i][2]
    BY AirtimeIs
  <2>3. PICK w \in Seq(Nat) : /\ Len(w) = Len(h) /\ Airtime(h) = Total(w)
                              /\ \A i \in 1 .. Len(h) : w[i] = h[i][2]
    BY AirtimeIs
  <2>4. ASSUME NEW i \in 1 .. Len(u) PROVE u[i] = w[i]
    <3>1. i \in 1 .. Len(f) /\ i \in 1 .. Len(h)
      BY <1>0, <2>1
    <3>2. u[i] = f[i][2] /\ w[i] = h[i][2] /\ f[i] = h[i]
      BY <2>1, <2>3, <3>1
    <3> QED BY <3>2
  <2>5. ASSUME NEW i \in 1 .. Len(v) PROVE v[i] = w[Len(u) + i]
    <3>1. PICK m \in 1 .. Len(h) : m = Len(f) + i
      BY <1>0, <2>2
    <3>2. w[m] = h[m][2] /\ v[i] = g[i][2] /\ g[i] = h[m]
      BY <2>2, <2>3, <3>1
    <3> QED BY <2>1, <3>1, <3>2
  <2>6. Len(w) = Len(u) + Len(v)
    BY <2>1, <2>2, <2>3
  <2>7. Total(w) = Total(u) + Total(v)
    BY <2>4, <2>5, <2>6, TotalSplit
  <2> QED BY <2>1, <2>2, <2>3, <2>7
<1>2. Within(h, from, until) = Within(f, from, until) + Within(g, from, until)
  <2>1. PICK u \in Seq(Nat) : /\ Len(u) = Len(f) /\ Within(f, from, until) = Total(u)
                              /\ \A i \in 1 .. Len(f) : u[i] = Counts(f[i], from, until)
    BY WithinIs
  <2>2. PICK v \in Seq(Nat) : /\ Len(v) = Len(g) /\ Within(g, from, until) = Total(v)
                              /\ \A i \in 1 .. Len(g) : v[i] = Counts(g[i], from, until)
    BY WithinIs
  <2>3. PICK w \in Seq(Nat) : /\ Len(w) = Len(h) /\ Within(h, from, until) = Total(w)
                              /\ \A i \in 1 .. Len(h) : w[i] = Counts(h[i], from, until)
    BY WithinIs
  <2>4. ASSUME NEW i \in 1 .. Len(u) PROVE u[i] = w[i]
    <3>1. i \in 1 .. Len(f) /\ i \in 1 .. Len(h)
      BY <1>0, <2>1
    <3>2. u[i] = Counts(f[i], from, until) /\ w[i] = Counts(h[i], from, until) /\ f[i] = h[i]
      BY <2>1, <2>3, <3>1
    <3> QED BY <3>2
  <2>5. ASSUME NEW i \in 1 .. Len(v) PROVE v[i] = w[Len(u) + i]
    <3>1. PICK m \in 1 .. Len(h) : m = Len(f) + i
      BY <1>0, <2>2
    <3>2. w[m] = Counts(h[m], from, until) /\ v[i] = Counts(g[i], from, until) /\ g[i] = h[m]
      BY <2>2, <2>3, <3>1
    <3> QED BY <2>1, <3>1, <3>2
  <2>6. Len(w) = Len(u) + Len(v)
    BY <2>1, <2>2, <2>3
  <2>7. Total(w) = Total(u) + Total(v)
    BY <2>4, <2>5, <2>6, TotalSplit
  <2> QED BY <2>1, <2>2, <2>3, <2>7
<1> QED BY <1>1, <1>2

\* One entry alone.
LEMMA EntryAlone ==
    ASSUME NEW x \in Nat \X Nat, NEW from \in Int, NEW until \in Int
    PROVE  /\ <<x>> \in Entries
           /\ Airtime(<<x>>) = x[2]
           /\ Within(<<x>>, from, until) = Counts(x, from, until)
<1>0. <<x>> \in Entries /\ Len(<<x>>) = 1 /\ <<x>>[1] = x /\ 1 \in 1 .. 1
  BY DEF Entries
<1>1. PICK w \in Seq(Nat) : /\ Len(w) = Len(<<x>>) /\ Airtime(<<x>>) = Total(w)
                            /\ \A i \in 1 .. Len(<<x>>) : w[i] = <<x>>[i][2]
  BY <1>0, AirtimeIs
<1>2. PICK v \in Seq(Nat) : /\ Len(v) = Len(<<x>>) /\ Within(<<x>>, from, until) = Total(v)
                            /\ \A i \in 1 .. Len(<<x>>) : v[i] = Counts(<<x>>[i], from, until)
  BY <1>0, WithinIs
<1>4. Len(w) = 1 /\ w[1] = x[2] /\ Len(v) = 1 /\ v[1] = Counts(x, from, until)
  BY <1>0, <1>1, <1>2
<1> QED BY <1>0, <1>1, <1>2, <1>4, TotalOne

\* One entry more.
LEMMA EntryMore ==
    ASSUME NEW f \in Entries, NEW x \in Nat \X Nat, NEW from \in Int, NEW until \in Int
    PROVE  /\ Append(f, x) \in Entries
           /\ Airtime(Append(f, x)) = Airtime(f) + x[2]
           /\ Within(Append(f, x), from, until) = Within(f, from, until) + Counts(x, from, until)
<1>0. Len(f) \in Nat
  BY DEF Entries
<1>1. PICK h \in Entries : h = Append(f, x)
  BY AppendProperties DEF Entries
<1>2. /\ Len(h) = Len(f) + 1 /\ h[Len(f) + 1] = x
      /\ \A i \in 1 .. Len(f) : f[i] = h[i]
  BY <1>1, AppendProperties DEF Entries
<1>3. PICK g \in Entries : Len(g) = 1 /\ g[1] = x /\ g = <<x>>
  <2>1. Len(<<x>>) = 1 /\ <<x>>[1] = x
    OBVIOUS
  <2> QED BY <2>1, EntryAlone
<1>4. \A i \in 1 .. Len(g) : g[i] = h[Len(f) + i]
  BY <1>2, <1>3
<1>5. Len(h) = Len(f) + Len(g)
  BY <1>2, <1>3
<1>6. Airtime(h) = Airtime(f) + Airtime(g)
  BY <1>2, <1>4, <1>5, EntriesSplit
<1>7. Within(h, from, until) = Within(f, from, until) + Within(g, from, until)
  BY <1>2, <1>4, <1>5, EntriesSplit
<1> QED BY <1>1, <1>3, <1>6, <1>7, EntryAlone

\* evict lets go of a prefix, all of it older than the window.
LEMMA KeptIs ==
    ASSUME sent \in Entries, now_ms \in Nat
    PROVE  \E out \in Entries, kept \in Entries :
               /\ Kept = kept /\ SubSeq(sent, 1, Len(sent) - Len(kept)) = out
               /\ Len(sent) = Len(out) + Len(kept)
               /\ \A i \in 1 .. Len(out) : out[i] = sent[i] /\ Evicted(out[i])
               /\ \A i \in 1 .. Len(kept) : kept[i] = sent[Len(out) + i]
<1> DEFINE inside == {i \in DOMAIN sent : ~Evicted(sent[i])}
<1>0. Len(sent) \in Nat /\ DOMAIN sent = 1 .. Len(sent) /\ sent \in Seq(Nat \X Nat)
  BY DEF Entries
<1>1. PICK n \in 0 .. Len(sent) :
          /\ Kept = SubSeq(sent, n + 1, Len(sent))
          /\ \A i \in 1 .. n : Evicted(sent[i])
  <2>1. CASE inside = {}
    <3>1. Kept = <<>>
      BY <2>1 DEF Kept
    <3>2. SubSeq(sent, Len(sent) + 1, Len(sent)) = <<>>
      BY <1>0
    <3>3. \A i \in 1 .. Len(sent) : Evicted(sent[i])
      BY <1>0, <2>1
    <3>4. Len(sent) \in 0 .. Len(sent)
      BY <1>0
    <3> HIDE DEF inside
    <3> QED BY <3>1, <3>2, <3>3, <3>4
  <2>2. CASE inside # {}
    <3>1. PICK S \in SUBSET Nat : S = inside
      <4>1. inside \in SUBSET Nat
        BY <1>0
      <4> HIDE DEF inside
      <4> QED BY <4>1
    <3>2. PICK m \in S : \A j \in S : m <= j
      BY <2>2, <3>1, LeastOf
    <3>3. Min(S) = m
      <4>1. \A x \in S : (\A y \in S : x <= y) => x = m
        BY <3>2
      <4> QED BY <3>2, <4>1 DEF Min
    <3>4. Kept = SubSeq(sent, m, Len(sent))
      BY <2>2, <3>1, <3>3 DEF Kept
    <3>5. m \in 1 .. Len(sent) /\ \A i \in 1 .. Len(sent) : i < m => Evicted(sent[i])
      BY <1>0, <3>1, <3>2
    <3>6. m - 1 \in 0 .. Len(sent) /\ (m - 1) + 1 = m
      BY <1>0, <3>5
    <3>7. \A i \in 1 .. m - 1 : Evicted(sent[i])
      BY <1>0, <3>5
    <3> QED BY <3>4, <3>6, <3>7
  <2> QED BY <2>1, <2>2
<1>2. PICK kept : kept = SubSeq(sent, n + 1, Len(sent))
  OBVIOUS
<1>3. /\ kept \in Seq(Nat \X Nat) /\ Len(kept) = Len(sent) - n
      /\ \A i \in 1 .. Len(sent) - n : kept[i] = sent[n + i]
  <2>1. kept \in Seq(Nat \X Nat)
    BY <1>0, <1>2
  <2>2. Len(kept) = Len(sent) - n
    <3>1. n + 1 \in Int /\ Len(sent) \in Int /\ \A i \in n + 1 .. Len(sent) : sent[i] \in Nat \X Nat
      BY <1>0
    <3>2. Len(kept) = IF n + 1 <= Len(sent) THEN Len(sent) - (n + 1) + 1 ELSE 0
      BY <1>2, <3>1, SubSeqProperties
    <3>3. \A l \in Nat : n \in 0 .. l =>
              (IF n + 1 <= l THEN l - (n + 1) + 1 ELSE 0) = l - n
      BY <1>0
    <3> QED BY <1>0, <3>2, <3>3
  <2>3. ASSUME NEW i \in 1 .. Len(sent) - n PROVE kept[i] = sent[n + i]
    <3>1. n + 1 \in 1 .. Len(sent) + 1 /\ i \in 1 .. Len(sent) - (n + 1) + 1 /\ n + 1 + i - 1 = n + i
      BY <1>0
    <3>2. kept[i] = sent[n + 1 + i - 1]
      BY <1>0, <1>2, <3>1
    <3> QED BY <3>1, <3>2
  <2> QED BY <2>1, <2>2, <2>3
<1>4. PICK out : out = SubSeq(sent, 1, n)
  OBVIOUS
<1>5. /\ out \in Seq(Nat \X Nat) /\ Len(out) = n
      /\ \A i \in 1 .. n : out[i] = sent[i]
  BY <1>0, <1>4
<1>6. Len(sent) - Len(kept) = n /\ Len(sent) = Len(out) + Len(kept)
  BY <1>0, <1>3, <1>5
<1>7. \A i \in 1 .. Len(kept) : kept[i] = sent[Len(out) + i]
  BY <1>3, <1>5
<1>8. \A i \in 1 .. Len(out) : out[i] = sent[i] /\ Evicted(out[i])
  BY <1>1, <1>5
<1> QED BY <1>1, <1>2, <1>3, <1>4, <1>5, <1>6, <1>7, <1>8 DEF Entries

\* What evict leaves is what the count says, and no window that is not over
\* loses a frame by it.
LEMMA EvictKeeps ==
    ASSUME Metered
    PROVE  /\ Kept \in Entries
           /\ Remaining = Airtime(Kept) /\ Airtime(Kept) \in Nat
           /\ Remaining <= DUTY_CYCLE_BUDGET_MS
           /\ \A from \in Nat : from >= now_ms - DUTY_CYCLE_WINDOW_MS =>
                  Within(Kept, from, from + DUTY_CYCLE_WINDOW_MS)
                      = Within(sent, from, from + DUTY_CYCLE_WINDOW_MS)
<1>0. /\ sent \in Entries /\ now_ms \in Nat /\ total_ms = Airtime(sent)
      /\ total_ms <= DUTY_CYCLE_BUDGET_MS /\ DUTY_CYCLE_BUDGET_MS \in Nat
      /\ DUTY_CYCLE_WINDOW_MS \in Nat
  BY BudgetConstants DEF Metered, Entries
<1>1. PICK out \in Entries : \E kept \in Entries :
               /\ Kept = kept /\ SubSeq(sent, 1, Len(sent) - Len(kept)) = out
               /\ Len(sent) = Len(out) + Len(kept)
               /\ \A i \in 1 .. Len(out) : out[i] = sent[i] /\ Evicted(out[i])
               /\ \A i \in 1 .. Len(kept) : kept[i] = sent[Len(out) + i]
  BY <1>0, KeptIs
<1>2. PICK kept \in Entries :
               /\ Kept = kept /\ SubSeq(sent, 1, Len(sent) - Len(kept)) = out
               /\ Len(sent) = Len(out) + Len(kept)
               /\ \A i \in 1 .. Len(out) : out[i] = sent[i] /\ Evicted(out[i])
               /\ \A i \in 1 .. Len(kept) : kept[i] = sent[Len(out) + i]
  BY <1>1
<1>3. ASSUME NEW from \in Int, NEW until \in Int
      PROVE  /\ Airtime(sent) = Airtime(out) + Airtime(kept)
             /\ Within(sent, from, until) = Within(out, from, until) + Within(kept, from, until)
  <2>1. \A i \in 1 .. Len(out) : out[i] = sent[i]
    BY <1>2
  <2>2. \A i \in 1 .. Len(kept) : kept[i] = sent[Len(out) + i]
    BY <1>2
  <2>3. Len(sent) = Len(out) + Len(kept)
    BY <1>2
  <2>4. Airtime(sent) = Airtime(out) + Airtime(kept)
    BY <1>0, <2>1, <2>2, <2>3, EntriesSplit
  <2>5. Within(sent, from, until) = Within(out, from, until) + Within(kept, from, until)
    BY <1>0, <2>1, <2>2, <2>3, EntriesSplit
  <2> QED BY <2>4, <2>5
<1>4. PICK a \in Nat : a = Airtime(out)
  <2>1. 0 \in Int
    OBVIOUS
  <2> QED BY <2>1, WithinAirtime
<1>5. PICK b \in Nat : b = Airtime(kept)
  <2>1. 0 \in Int
    OBVIOUS
  <2> QED BY <2>1, WithinAirtime
<1>6. Airtime(sent) = a + b
  <2>1. 0 \in Int
    OBVIOUS
  <2> QED BY <1>3, <1>4, <1>5, <2>1
<1>7. Remaining = b
  <2>1. Remaining = IF total_ms > a THEN total_ms - a ELSE 0
    BY <1>2, <1>4 DEF Remaining
  <2> QED BY <1>0, <1>6, <2>1
<1>8. ASSUME NEW from \in Nat, from >= now_ms - DUTY_CYCLE_WINDOW_MS
      PROVE  Within(kept, from, from + DUTY_CYCLE_WINDOW_MS)
                 = Within(sent, from, from + DUTY_CYCLE_WINDOW_MS)
  <2>1. PICK until \in Int : until = from + DUTY_CYCLE_WINDOW_MS
    BY <1>0
  <2>2. ASSUME NEW i \in 1 .. Len(out) PROVE out[i][1] < from
    <3>1. out[i] \in Nat \X Nat /\ Evicted(out[i])
      BY <1>2 DEF Entries
    <3>2. out[i][1] \in Nat /\ out[i][1] < now_ms - DUTY_CYCLE_WINDOW_MS
      BY <3>1 DEF Evicted
    <3> QED BY <1>0, <1>8, <3>2
  <2>3. Within(out, from, until) = 0
    BY <2>2, WithinPassed
  <2>4. Within(kept, from, until) \in Nat
    BY WithinAirtime
  <2>5. Within(sent, from, until) = Within(out, from, until) + Within(kept, from, until)
    BY <1>3
  <2> QED BY <2>1, <2>3, <2>4, <2>5
<1> QED BY <1>0, <1>2, <1>5, <1>6, <1>7, <1>8

\* A list of entries in which every window still open takes no less than on the
\* air, and that fits the budget, keeps the meter's invariant.
LEMMA MeteredAgain ==
    ASSUME now_ms' \in 0 .. MaxTime, sent' \in Entries, onAir' \in Entries,
           total_ms' = Airtime(sent'), Airtime(sent') <= DUTY_CYCLE_BUDGET_MS,
           \A from \in 0 .. MaxTime : from >= now_ms' - DUTY_CYCLE_WINDOW_MS =>
               Within(onAir', from, from + DUTY_CYCLE_WINDOW_MS)
                   <= Within(sent', from, from + DUTY_CYCLE_WINDOW_MS),
           \A from \in 0 .. now_ms' : from < now_ms' - DUTY_CYCLE_WINDOW_MS =>
               Within(onAir', from, from + DUTY_CYCLE_WINDOW_MS) <= DUTY_CYCLE_BUDGET_MS
    PROVE  Metered'
<1>0. DUTY_CYCLE_BUDGET_MS \in Nat /\ DUTY_CYCLE_WINDOW_MS \in Nat /\ MaxTime \in Nat
  BY BudgetConstants
<1>1. ASSUME NEW from \in 0 .. now_ms'
      PROVE  Within(onAir', from, from + DUTY_CYCLE_WINDOW_MS) <= DUTY_CYCLE_BUDGET_MS
  <2>1. CASE from >= now_ms' - DUTY_CYCLE_WINDOW_MS
    <3>1. from \in 0 .. MaxTime
      BY <1>0
    <3>2. PICK until \in Int : until = from + DUTY_CYCLE_WINDOW_MS
      BY <1>0
    <3>3. Within(onAir', from, until) \in Nat
      BY WithinAirtime
    <3>4. Within(sent', from, until) \in Nat
      BY WithinAirtime
    <3>5. Airtime(sent') \in Nat
      BY WithinAirtime
    <3>6. Within(sent', from, until) <= Airtime(sent')
      BY WithinAirtime
    <3>7. Within(onAir', from, until) <= Within(sent', from, until)
      BY <2>1, <3>1, <3>2
    <3> QED BY <1>0, <3>2, <3>3, <3>4, <3>5, <3>6, <3>7
  <2>2. CASE from < now_ms' - DUTY_CYCLE_WINDOW_MS
    BY <2>2
  <2>3. from >= now_ms' - DUTY_CYCLE_WINDOW_MS \/ from < now_ms' - DUTY_CYCLE_WINDOW_MS
    <3>1. PICK n \in Nat : n = now_ms' /\ from \in Nat
      BY <1>0
    <3>2. \A a, b, c \in Nat : a >= b - c \/ a < b - c
      OBVIOUS
    <3> QED BY <1>0, <3>1, <3>2
  <2> QED BY <2>1, <2>2, <2>3
<1>2. DutyCycle'
  BY <1>1 DEF DutyCycle
<1> QED BY <1>2 DEF Metered, Entries

\* No step of the meter lets a window overrun.
LEMMA MeterKept ==
    ASSUME Metered, BudgetNext
    PROVE  Metered'
<1>0. /\ DUTY_CYCLE_BUDGET_MS \in Nat /\ DUTY_CYCLE_WINDOW_MS \in Nat /\ MaxTime \in Nat
      /\ now_ms \in 0 .. MaxTime /\ sent \in Entries /\ onAir \in Entries
      /\ total_ms = Airtime(sent) /\ total_ms <= DUTY_CYCLE_BUDGET_MS
  BY BudgetConstants DEF Metered, Entries
<1>1. ASSUME NEW from \in 0 .. MaxTime, from >= now_ms - DUTY_CYCLE_WINDOW_MS
      PROVE  Within(onAir, from, from + DUTY_CYCLE_WINDOW_MS)
                 <= Within(sent, from, from + DUTY_CYCLE_WINDOW_MS)
  BY <1>1 DEF Metered
<1>2. ASSUME NEW from \in 0 .. now_ms
      PROVE  Within(onAir, from, from + DUTY_CYCLE_WINDOW_MS) <= DUTY_CYCLE_BUDGET_MS
  BY DEF Metered, DutyCycle
<1>3. PICK kept \in Entries : kept = Kept
  BY EvictKeeps
<1>4. Remaining = Airtime(kept) /\ Airtime(kept) \in Nat /\ Remaining <= DUTY_CYCLE_BUDGET_MS
  BY <1>3, EvictKeeps
<1>5. ASSUME NEW from \in 0 .. MaxTime, from >= now_ms - DUTY_CYCLE_WINDOW_MS
      PROVE  Within(onAir, from, from + DUTY_CYCLE_WINDOW_MS)
                 <= Within(kept, from, from + DUTY_CYCLE_WINDOW_MS)
  <2>1. from \in Nat
    BY <1>0
  <2>2. Within(kept, from, from + DUTY_CYCLE_WINDOW_MS)
            = Within(sent, from, from + DUTY_CYCLE_WINDOW_MS)
    BY <1>3, <1>5, <2>1, EvictKeeps
  <2> QED BY <1>1, <1>5, <2>2
<1>6. ASSUME sent' = Kept, total_ms' = Remaining, UNCHANGED <<now_ms, onAir>>
      PROVE  Metered'
  <2>1. sent' = kept /\ now_ms' = now_ms /\ onAir' = onAir /\ total_ms' = Airtime(kept)
    BY <1>3, <1>4, <1>6
  <2>2. \A from \in 0 .. MaxTime : from >= now_ms' - DUTY_CYCLE_WINDOW_MS =>
               Within(onAir', from, from + DUTY_CYCLE_WINDOW_MS)
                   <= Within(sent', from, from + DUTY_CYCLE_WINDOW_MS)
    BY <1>5, <2>1
  <2>3. \A from \in 0 .. now_ms' : from < now_ms' - DUTY_CYCLE_WINDOW_MS =>
               Within(onAir', from, from + DUTY_CYCLE_WINDOW_MS) <= DUTY_CYCLE_BUDGET_MS
    BY <1>2, <2>1
  <2>4. Airtime(sent') <= DUTY_CYCLE_BUDGET_MS
    BY <1>4, <2>1
  <2> QED BY <1>0, <2>1, <2>2, <2>3, <2>4, MeteredAgain
<1>7. ASSUME NEW air_ms \in Airtimes, transmit_allowed(air_ms) PROVE Metered'
  <2> DEFINE x == <<now_ms, air_ms>>
  <2>0. x \in Nat \X Nat /\ x[1] = now_ms /\ x[2] = air_ms /\ air_ms \in Nat
    BY <1>0, BudgetConstants
  <2>1. /\ sent' = Append(kept, x) /\ now_ms' = now_ms
        /\ total_ms' = Airtime(kept) + air_ms
        /\ Airtime(kept) + air_ms <= DUTY_CYCLE_BUDGET_MS
        /\ onAir' = Append(onAir, x) \/ onAir' = onAir
    BY <1>3, <1>4, <1>7 DEF transmit_allowed, duty_cycle_ok
  <2> HIDE DEF x
  <2>2. sent' \in Entries /\ Airtime(sent') = Airtime(kept) + air_ms
    <3>1. 0 \in Int
      OBVIOUS
    <3> QED BY <2>0, <2>1, <3>1, EntryMore
  <2>3. onAir' \in Entries
    <3>1. 0 \in Int
      OBVIOUS
    <3> QED BY <1>0, <2>0, <2>1, <3>1, EntryMore
  <2>4. ASSUME NEW from \in 0 .. MaxTime, from >= now_ms - DUTY_CYCLE_WINDOW_MS
        PROVE  Within(onAir', from, from + DUTY_CYCLE_WINDOW_MS)
                   <= Within(sent', from, from + DUTY_CYCLE_WINDOW_MS)
    <3>1. PICK until \in Int : until = from + DUTY_CYCLE_WINDOW_MS
      BY <1>0
    <3>2. PICK c \in Nat : c = Counts(x, from, until)
      BY <2>0, CountsNat
    <3>3. PICK a \in Nat : a = Within(onAir, from, until)
      BY <1>0, WithinAirtime
    <3>4. PICK k \in Nat : k = Within(kept, from, until)
      BY WithinAirtime
    <3>5. a <= k
      BY <1>5, <2>4, <3>1, <3>3, <3>4
    <3>6. Within(sent', from, until) = k + c
      BY <2>0, <2>1, <3>2, <3>4, EntryMore
    <3>a. Within(Append(onAir, x), from, until) = a + c
      BY <1>0, <2>0, <3>2, <3>3, EntryMore
    <3>7. Within(onAir', from, until) = a + c \/ Within(onAir', from, until) = a
      BY <2>1, <3>3, <3>a
    <3> QED BY <3>1, <3>5, <3>6, <3>7
  <2>5. ASSUME NEW from \in 0 .. now_ms, from < now_ms - DUTY_CYCLE_WINDOW_MS
        PROVE  Within(onAir', from, from + DUTY_CYCLE_WINDOW_MS) <= DUTY_CYCLE_BUDGET_MS
    <3>1. PICK until \in Int : until = from + DUTY_CYCLE_WINDOW_MS /\ x[1] > until
      BY <1>0, <2>0, <2>5
    <3>2. Counts(x, from, until) = 0
      BY <2>0, <3>1, CountsNat
    <3>3. PICK a \in Nat : a = Within(onAir, from, until)
      BY <1>0, WithinAirtime
    <3>a. Within(Append(onAir, x), from, until) = a + 0
      BY <1>0, <2>0, <3>2, <3>3, EntryMore
    <3>4. Within(onAir', from, until) = a + 0 \/ Within(onAir', from, until) = a
      BY <2>1, <3>3, <3>a
    <3> QED BY <1>2, <3>1, <3>3, <3>4
  <2> QED BY <1>0, <2>1, <2>2, <2>3, <2>4, <2>5, MeteredAgain
<1>8. ASSUME NEW air_ms \in Airtimes, transmit_blocked(air_ms) PROVE Metered'
  BY <1>6, <1>8 DEF transmit_blocked
<1>9. CASE used_ms
  BY <1>6, <1>9 DEF used_ms
<1>10. CASE Elapse
  <2>1. /\ sent' = sent /\ onAir' = onAir /\ total_ms' = total_ms
        /\ now_ms' = now_ms + 1 /\ now_ms' \in 0 .. MaxTime
    BY <1>0, <1>10 DEF Elapse
  <2>2. ASSUME NEW from \in 0 .. MaxTime, from >= now_ms' - DUTY_CYCLE_WINDOW_MS
        PROVE  Within(onAir', from, from + DUTY_CYCLE_WINDOW_MS)
                   <= Within(sent', from, from + DUTY_CYCLE_WINDOW_MS)
    <3>1. from >= now_ms - DUTY_CYCLE_WINDOW_MS
      BY <1>0, <2>1, <2>2
    <3> QED BY <1>1, <2>1, <3>1
  <2>3. ASSUME NEW from \in 0 .. now_ms', from < now_ms' - DUTY_CYCLE_WINDOW_MS
        PROVE  Within(onAir', from, from + DUTY_CYCLE_WINDOW_MS) <= DUTY_CYCLE_BUDGET_MS
    <3>1. from \in 0 .. now_ms
      BY <1>0, <2>1, <2>3
    <3> QED BY <1>2, <2>1, <3>1
  <2> QED BY <1>0, <2>1, <2>2, <2>3, MeteredAgain
<1> QED BY <1>7, <1>8, <1>9, <1>10 DEF BudgetNext

\* In every window, the last one and every earlier one, what the process has put
\* on the air fits the budget: for every budget, window and prior airtime, any
\* frames, and whatever the radio refuses.
THEOREM DutyCycleHolds == PartsSpec => []DutyCycle
<1>1. ASSUME PartsInit PROVE Metered
  <2>1. PICK prior_ms \in Priors :
            /\ now_ms = 0
            /\ sent = IF prior_ms > 0 THEN <<<<0, prior_ms>>>> ELSE <<>>
            /\ total_ms = prior_ms /\ onAir = sent
    BY <1>1 DEF PartsInit, BudgetInit
  <2>2. /\ prior_ms \in Nat /\ prior_ms <= DUTY_CYCLE_BUDGET_MS /\ DUTY_CYCLE_BUDGET_MS \in Nat
        /\ MaxTime \in Nat /\ DUTY_CYCLE_WINDOW_MS \in Nat
    BY BudgetConstants
  <2>3. sent \in Entries /\ Airtime(sent) = prior_ms
    <3>1. CASE prior_ms > 0
      <4>1. <<0, prior_ms>> \in Nat \X Nat /\ <<0, prior_ms>>[2] = prior_ms /\ 0 \in Int
        BY <2>2
      <4> QED BY <2>1, <3>1, <4>1, EntryAlone
    <3>2. CASE ~(prior_ms > 0)
      <4>1. sent = <<>> /\ prior_ms = 0
        BY <2>1, <2>2, <3>2
      <4>2. <<>> \in Entries /\ Len(<<>>) = 0
        BY EmptySeq DEF Entries
      <4>3. PICK w \in Seq(Nat) : Len(w) = Len(<<>>) /\ Airtime(<<>>) = Total(w)
        BY <4>2, AirtimeIs
      <4>4. \A i \in 1 .. Len(w) : w[i] = 0
        BY <4>2, <4>3
      <4> QED BY <4>1, <4>2, <4>3, <4>4, TotalNothing
    <3> QED BY <3>1, <3>2
  <2>4. ASSUME NEW from \in Nat
        PROVE  /\ Within(sent, from, from + DUTY_CYCLE_WINDOW_MS) \in Nat
               /\ Within(sent, from, from + DUTY_CYCLE_WINDOW_MS) <= DUTY_CYCLE_BUDGET_MS
    <3>1. PICK until \in Int : until = from + DUTY_CYCLE_WINDOW_MS
      BY <2>2
    <3>2. Within(sent, from, until) \in Nat
      BY <2>3, WithinAirtime
    <3>3. Within(sent, from, until) <= Airtime(sent)
      BY <2>3, WithinAirtime
    <3> QED BY <2>2, <2>3, <3>1, <3>2, <3>3
  <2>5. DutyCycle
    BY <2>1, <2>4 DEF DutyCycle
  <2>6. ASSUME NEW from \in 0 .. MaxTime
        PROVE  Within(onAir, from, from + DUTY_CYCLE_WINDOW_MS)
                   <= Within(sent, from, from + DUTY_CYCLE_WINDOW_MS)
    <3>1. PICK n \in Nat : n = Within(sent, from, from + DUTY_CYCLE_WINDOW_MS)
      BY <2>2, <2>4
    <3>2. n <= n
      OBVIOUS
    <3> QED BY <2>1, <3>1, <3>2
  <2> QED BY <2>1, <2>2, <2>3, <2>5, <2>6 DEF Metered, Entries
<1>2. Metered /\ [PartsNext]_allVars => Metered'
  <2> SUFFICES ASSUME Metered, BudgetNext \/ UNCHANGED budgetVars PROVE Metered'
    BY DEF PartsNext, allVars
  <2>1. CASE UNCHANGED budgetVars
    BY <2>1 DEF budgetVars, Metered, DutyCycle
  <2> QED BY <2>1, MeterKept
<1>3. Metered => DutyCycle
  BY DEF Metered
<1> QED BY <1>1, <1>2, <1>3, PTL DEF PartsSpec
=============================================================================
