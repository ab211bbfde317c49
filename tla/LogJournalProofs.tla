-------------------------- MODULE LogJournalProofs --------------------------
(***************************************************************************)
(* Proofs about the append-only file.  What replay makes of a log: its     *)
(* loop, one more record, compaction; from that the inductive invariant    *)
(* LogInv, for kills and power cuts at any instant and any number of       *)
(* refused writes and failed rewrites; from that the promises; and, where  *)
(* only power cuts crash the process, that the log implements Journal.     *)
(***************************************************************************)
EXTENDS LogJournal, FiniteSetTheorems, SequenceTheorems, WellFoundedInduction, TLAPS

----------------------------------------------------------------------------
(* The largest and the smallest of finitely many numbers.                  *)

\* Among finitely many numbers one is the largest, and one the smallest.
LEMMA FiniteHasBounds ==
    ASSUME NEW S \in SUBSET Int, IsFiniteSet(S), S # {}
    PROVE  /\ \E m \in S : \A y \in S : m >= y
           /\ \E m \in S : \A y \in S : m <= y
<1> DEFINE Bounded(U) == /\ \E m \in U : \A y \in U : m >= y
                         /\ \E m \in U : \A y \in U : m <= y
           T == {U \in SUBSET S : U # {} /\ ~Bounded(U)}
<1> SUFFICES ASSUME T # {} PROVE FALSE
  OBVIOUS
<1>1. T \subseteq FiniteSubsetsOf(S)
  BY FS_Subset DEF FiniteSubsetsOf
<1>2. PICK U \in T : \A V \in T : ~(<<V, U>> \in StrictSubsetOrdering(S))
  <2> HIDE DEF T
  <2> QED BY <1>1, FS_StrictSubsetOrderingWellFounded, WFMin
<1>3. PICK x \in U : TRUE
  OBVIOUS
<1>4. CASE U = {x}
  BY <1>4
<1>5. CASE U # {x}
  <2>1. U \ {x} \in SUBSET S /\ U \ {x} # {} /\ U \ {x} # U /\ U \ {x} \subseteq U
    BY <1>3, <1>5
  <2>2. <<U \ {x}, U>> \in StrictSubsetOrdering(S)
    BY <2>1 DEF StrictSubsetOrdering
  <2>3. Bounded(U \ {x})
    BY <1>2, <2>1, <2>2
  <2>4. PICK m \in U \ {x} : \A y \in U \ {x} : m >= y
    BY <2>3
  <2>5. PICK k \in U \ {x} : \A y \in U \ {x} : k <= y
    BY <2>3
  <2>6. \E z \in U : \A y \in U : z >= y
    <3>1. CASE m >= x
      BY <3>1, <2>4
    <3>2. CASE ~(m >= x)
      BY <3>2, <2>4, <1>3
    <3> QED BY <3>1, <3>2
  <2>7. \E z \in U : \A y \in U : z <= y
    <3>1. CASE k <= x
      BY <3>1, <2>5
    <3>2. CASE ~(k <= x)
      BY <3>2, <2>5, <1>3
    <3> QED BY <3>1, <3>2
  <2> QED BY <2>6, <2>7
<1> QED BY <1>4, <1>5

\* Max is that number.
LEMMA MaxOf ==
    ASSUME NEW S \in SUBSET Int, IsFiniteSet(S), S # {}
    PROVE  Max(S) \in S /\ Max(S) \in Int /\ \A y \in S : Max(S) >= y
BY FiniteHasBounds DEF Max

\* Min is that number.
LEMMA MinOf ==
    ASSUME NEW S \in SUBSET Int, IsFiniteSet(S), S # {}
    PROVE  Min(S) \in S /\ Min(S) \in Int /\ \A y \in S : Min(S) <= y
BY FiniteHasBounds DEF Min

\* Whatever is largest is Max.
LEMMA MaxIs ==
    ASSUME NEW S \in SUBSET Int, NEW m \in S, \A y \in S : m >= y
    PROVE  Max(S) = m
<1>1. Max(S) \in S /\ \A y \in S : Max(S) >= y
  BY DEF Max
<1>2. Max(S) >= m /\ m >= Max(S) /\ Max(S) \in Int /\ m \in Int
  BY <1>1
<1> QED BY <1>2

\* Whatever is smallest is Min.
LEMMA MinIs ==
    ASSUME NEW S \in SUBSET Int, NEW m \in S, \A y \in S : m <= y
    PROVE  Min(S) = m
<1>1. Min(S) \in S /\ \A y \in S : Min(S) <= y
  BY DEF Min
<1>2. Min(S) <= m /\ m <= Min(S) /\ Min(S) \in Int /\ m \in Int
  BY <1>1
<1> QED BY <1>2

\* One more number.
LEMMA MaxAdds ==
    ASSUME NEW S \in SUBSET Int, IsFiniteSet(S), S # {}, NEW x \in Int
    PROVE  Max(S \cup {x}) = Larger(Max(S), x)
<1>1. Max(S) \in S /\ Max(S) \in Int /\ \A y \in S : Max(S) >= y
  BY MaxOf
<1>2. S \cup {x} \in SUBSET Int
  OBVIOUS
<1>3. CASE Max(S) >= x
  BY <1>1, <1>2, <1>3, MaxIs DEF Larger
<1>4. CASE ~(Max(S) >= x)
  <2>1. ASSUME NEW y \in S \cup {x} PROVE x >= y
    <3>1. CASE y \in S
      <4>1. y \in Int /\ Max(S) >= y
        BY <1>1, <3>1
      <4> QED BY <1>1, <1>4, <4>1
    <3> QED BY <3>1
  <2> QED BY <1>2, <1>4, <2>1, MaxIs DEF Larger
<1> QED BY <1>3, <1>4

\* What finitely many places hold is finite.
LEMMA FiniteImage ==
    ASSUME NEW n \in Nat, NEW D \in SUBSET (1 .. n), NEW f
    PROVE  IsFiniteSet(D) /\ IsFiniteSet({f[i] : i \in D})
<1> DEFINE g == [i \in D |-> f[i]]
           T == {f[i] : i \in D}
<1>1. IsFiniteSet(D)
  BY FS_Interval, FS_Subset, 1 \in Int, n \in Int
<1>2. g \in Surjection(D, T)
  BY DEF Surjection
<1> QED BY <1>1, <1>2, FS_Surjection

----------------------------------------------------------------------------
(* Records.                                                                *)

\* What each kind of record carries; a damaged one is none of them.
LEMMA EntryFields ==
    ASSUME NEW e \in Entry
    PROVE  /\ e.kind \in {"Vote", "Sequence", "Seen", "Epoch", "Retired", "Witnessed", "Lock", "Frame"}
           /\ e # Torn
           /\ e.kind \in {"Vote", "Lock"} => e.key \in Keys
           /\ e.kind \in {"Vote", "Frame"} => e.frame \in Frames /\ e.frame.sequence \in Nat
           /\ e.kind = "Sequence" => e.next \in Nat
           /\ e.kind = "Seen" => e.sender \in Senders /\ e.sequence \in Nat
           /\ e.kind = "Epoch" => e.epoch \in Epochs /\ e.epoch \in Nat
           /\ e.kind = "Retired" => e.sequence \in Nat
           /\ e.kind = "Witnessed" => e.author \in Authors /\ e.bytes \in Nat
<1>1. e.kind \in {"Vote", "Sequence", "Seen", "Epoch", "Retired", "Witnessed", "Lock", "Frame"}
  BY DEF Entry
<1>2. e # Torn
  BY <1>1 DEF Torn
<1>3. \A f \in Frames : f.sequence \in Nat
  BY DEF Frames
<1> QED BY <1>1, <1>2, <1>3, JournalConstants DEF Entry

\* log2 is log with e after it.
Longer(log, e, log2) ==
    /\ Len(log2) = Len(log) + 1
    /\ \A i \in 1 .. Len(log) : log2[i] = log[i]
    /\ log2[Len(log) + 1] = e

\* Appending one record makes a log longer by it.
LEMMA AppendIsLonger ==
    ASSUME NEW S, NEW log \in Seq(S), NEW e \in S
    PROVE  Append(log, e) \in Seq(S) /\ Longer(log, e, Append(log, e))
BY DEF Longer

\* Lengths add up.
LEMMA ConcatLen ==
    ASSUME NEW S, NEW a \in Seq(S), NEW b \in Seq(S)
    PROVE  Len(a \o b) = Len(a) + Len(b)
OBVIOUS

\* So does writing a sequence of one record behind it (write_all).
LEMMA ConcatIsLonger ==
    ASSUME NEW S, NEW log \in Seq(S), NEW one \in Seq(S), Len(one) = 1
    PROVE  log \o one \in Seq(S) /\ Longer(log, one[1], log \o one)
<1>0. log \o one \in Seq(S)
  OBVIOUS
<1>1. Len(log) \in Nat /\ Len(log \o one) = Len(log) + 1 /\ log \o one \in Seq(S)
  <2>1. Len(log \o one) = Len(log) + Len(one)
    BY ConcatLen
  <2> QED BY <1>0, <2>1
<1>2. \A i \in 1 .. Len(log) : (log \o one)[i] = log[i]
  OBVIOUS
<1>3. (log \o one)[Len(log) + 1] = one[1]
  <2>1. (Len(log) + 1) - Len(log) = 1 /\ ~(Len(log) + 1 <= Len(log)) /\ Len(log) + 1 \in 1 .. Len(log \o one)
    BY <1>1
  <2> QED BY <2>1
<1> QED BY <1>1, <1>2, <1>3 DEF Longer

\* The places of some kinds of record are places of the log.
LEMMA AtPlaces ==
    ASSUME NEW log \in Seq(Entry), NEW kinds
    PROVE  /\ At(log, kinds) \in SUBSET (1 .. Len(log))
           /\ \A i \in At(log, kinds) : log[i] \in Entry /\ log[i].kind \in kinds
BY DEF At

\* One more record adds at most its own place.
LEMMA AtLonger ==
    ASSUME NEW log \in Seq(Entry), NEW e \in Entry, NEW log2 \in Seq(Entry),
           Longer(log, e, log2), NEW kinds
    PROVE  /\ e.kind \in kinds => At(log2, kinds) = At(log, kinds) \cup {Len(log) + 1}
           /\ e.kind \notin kinds => At(log2, kinds) = At(log, kinds)
<1>1. DOMAIN log2 = 1 .. (Len(log) + 1) /\ DOMAIN log = 1 .. Len(log) /\ Len(log) \in Nat
  BY DEF Longer
<1>2. \A i : i \in 1 .. (Len(log) + 1) <=> i \in 1 .. Len(log) \/ i = Len(log) + 1
  BY <1>1
<1> QED BY <1>1, <1>2 DEF At, Longer

\* The epoch of a log, and of a longer one.
LEMMA EpochOfLog ==
    ASSUME NEW log \in Seq(Entry)
    PROVE  /\ LastEpoch(log) \in Epochs \cup {None}
           /\ LastEpoch(log) \in Int
           /\ \A i \in At(log, {"Epoch"}) : log[i].epoch <= LastEpoch(log)
           /\ LastEpoch(log) = None \/ \E i \in At(log, {"Epoch"}) : log[i].epoch = LastEpoch(log)
           /\ IsFiniteSet({None} \cup {log[i].epoch : i \in At(log, {"Epoch"})})
<1> DEFINE D == At(log, {"Epoch"})
           f == [i \in D |-> log[i].epoch]
           S == {None} \cup {log[i].epoch : i \in D}
<1>1. Len(log) \in Nat /\ D \in SUBSET (1 .. Len(log))
  BY AtPlaces
<1>2. {log[i].epoch : i \in D} = {f[i] : i \in D}
  OBVIOUS
<1>3. IsFiniteSet({log[i].epoch : i \in D})
  <2>1. IsFiniteSet({f[i] : i \in D})
    <3> HIDE DEF D, f
    <3> QED BY <1>1, FiniteImage
  <2> QED BY <1>2, <2>1
<1>4. IsFiniteSet(S)
  BY <1>3, FS_Singleton, FS_Union
<1>5. \A i \in D : log[i].epoch \in Epochs /\ log[i].epoch \in Nat
  BY AtPlaces, EntryFields
<1>6. S \in SUBSET Int /\ S # {} /\ S \in SUBSET (Epochs \cup {None})
  BY <1>5 DEF None
<1>7. LastEpoch(log) \in S /\ LastEpoch(log) \in Int /\ \A y \in S : LastEpoch(log) >= y
  BY <1>4, <1>6, MaxOf DEF LastEpoch
<1> QED BY <1>4, <1>5, <1>6, <1>7

\* The epoch replay finds after one more record.
LEMMA EpochLonger ==
    ASSUME NEW log \in Seq(Entry), NEW e \in Entry, NEW log2 \in Seq(Entry), Longer(log, e, log2)
    PROVE  LastEpoch(log2) = IF e.kind = "Epoch" THEN Larger(LastEpoch(log), e.epoch)
                             ELSE LastEpoch(log)
<1> DEFINE S == {None} \cup {log[i].epoch : i \in At(log, {"Epoch"})}
           S2 == {None} \cup {log2[i].epoch : i \in At(log2, {"Epoch"})}
<1>1. \A i \in At(log, {"Epoch"}) : log2[i] = log[i]
  BY AtPlaces DEF Longer
<1>2. S2 = IF e.kind = "Epoch" THEN S \cup {e.epoch} ELSE S
  BY <1>1, AtLonger DEF Longer
<1>3. IsFiniteSet(S) /\ S \in SUBSET Int /\ S # {}
  <2>1. \A i \in At(log, {"Epoch"}) : log[i].epoch \in Int
    BY AtPlaces, EntryFields
  <2>2. IsFiniteSet(S)
    BY EpochOfLog
  <2>3. S \in SUBSET Int /\ S # {}
    BY <2>1 DEF None
  <2> QED BY <2>2, <2>3
<1>4. e.kind = "Epoch" => e.epoch \in Int
  BY EntryFields
<1> HIDE DEF S, S2
<1> QED BY <1>2, <1>3, <1>4, MaxAdds DEF LastEpoch, S, S2

\* The place of the last later epoch: 0, or inside the log.
LEMMA RaisedOfLog ==
    ASSUME NEW log \in Seq(Entry)
    PROVE  /\ Raised(log) \in 0 .. Len(log)
           /\ IsFiniteSet({0} \cup {i \in At(log, {"Epoch"}) :
                    \A j \in At(log, {"Epoch"}) : j < i => log[j].epoch < log[i].epoch})
<1> DEFINE D == {i \in At(log, {"Epoch"}) :
                    \A j \in At(log, {"Epoch"}) : j < i => log[j].epoch < log[i].epoch}
<1>1. Len(log) \in Nat /\ D \in SUBSET (1 .. Len(log))
  BY AtPlaces
<1>2. IsFiniteSet(D)
  BY <1>1, FiniteImage
<1>3. IsFiniteSet({0} \cup D)
  BY <1>2, FS_Singleton, FS_Union
<1>4. {0} \cup D \in SUBSET Int /\ {0} \cup D # {} /\ {0} \cup D \subseteq 0 .. Len(log)
  BY <1>1
<1>5. Raised(log) \in {0} \cup D
  BY <1>3, <1>4, MaxOf DEF Raised
<1> QED BY <1>3, <1>4, <1>5

\* A record raises the epoch of the log exactly when it is a later one.
LEMMA RaisedLonger ==
    ASSUME NEW log \in Seq(Entry), NEW e \in Entry, NEW log2 \in Seq(Entry), Longer(log, e, log2)
    PROVE  Raised(log2) = IF e.kind = "Epoch" /\ e.epoch > LastEpoch(log) THEN Len(log) + 1
                          ELSE Raised(log)
<1> DEFINE E == At(log, {"Epoch"})
           E2 == At(log2, {"Epoch"})
           D == {i \in E : \A j \in E : j < i => log[j].epoch < log[i].epoch}
           D2 == {i \in E2 : \A j \in E2 : j < i => log2[j].epoch < log2[i].epoch}
           n == Len(log) + 1
<1>1. E \in SUBSET (1 .. Len(log)) /\ Len(log) \in Nat
  BY AtPlaces
<1>2. (\A i \in E : log2[i] = log[i]) /\ log2[n] = e
  BY <1>1 DEF Longer
<1>3. E2 = IF e.kind = "Epoch" THEN E \cup {n} ELSE E
  <2>1. /\ e.kind \in {"Epoch"} => E2 = E \cup {n}
        /\ e.kind \notin {"Epoch"} => E2 = E
    BY AtLonger
  <2> QED BY <2>1
<1>4. \A i \in E : i < n /\ ~(n < i)
  BY <1>1
<1>5. \A i \in E : i \in D2 <=> i \in D
  BY <1>2, <1>3, <1>4
<1>6. \A j \in E : log[j].epoch \in Int /\ log[j].epoch <= LastEpoch(log)
  <2>1. \A j \in E : log[j].epoch \in Int
    BY AtPlaces, EntryFields
  <2>2. \A j \in E : log[j].epoch <= LastEpoch(log)
    BY EpochOfLog
  <2> QED BY <2>1, <2>2
<1>7. ASSUME e.kind = "Epoch"
      PROVE  n \in D2 <=> e.epoch > LastEpoch(log)
  <2>1. e.epoch \in Nat /\ LastEpoch(log) \in Int
    BY <1>7, EntryFields, EpochOfLog
  <2>2. n \in D2 <=> \A j \in E : log[j].epoch < e.epoch
    BY <1>2, <1>3, <1>4, <1>7
  <2>3. CASE e.epoch > LastEpoch(log)
    BY <1>6, <2>1, <2>2, <2>3
  <2>4. CASE ~(e.epoch > LastEpoch(log))
    <3>1. LastEpoch(log) # None
      BY <2>1, <2>4 DEF None
    <3>2. PICK j \in E : log[j].epoch = LastEpoch(log)
      BY <3>1, EpochOfLog
    <3> QED BY <2>1, <2>2, <2>4, <3>2
  <2> QED BY <2>3, <2>4
<1>8. {0} \cup D \in SUBSET Int /\ IsFiniteSet({0} \cup D) /\ {0} \cup D # {} /\ n \in Int
  <2>1. IsFiniteSet({0} \cup D)
    BY RaisedOfLog
  <2>2. {0} \cup D \in SUBSET Int /\ {0} \cup D # {} /\ n \in Int
    BY <1>1
  <2> QED BY <2>1, <2>2
<1>9. Raised(log) = Max({0} \cup D) /\ Raised(log2) = Max({0} \cup D2)
  BY DEF Raised
<1>10. CASE e.kind = "Epoch" /\ e.epoch > LastEpoch(log)
  <2>1. {0} \cup D2 = ({0} \cup D) \cup {n}
    BY <1>3, <1>5, <1>7, <1>10
  <2>2. Max({0} \cup D2) = Larger(Raised(log), n)
    <3> HIDE DEF D, D2
    <3> QED BY <1>8, <1>9, <2>1, MaxAdds
  <2>3. Raised(log) \in 0 .. Len(log)
    BY RaisedOfLog
  <2> QED BY <1>1, <1>9, <1>10, <2>2, <2>3 DEF Larger
<1>11. CASE ~(e.kind = "Epoch" /\ e.epoch > LastEpoch(log))
  <2>1. D2 = D
    BY <1>3, <1>5, <1>7, <1>11
  <2> QED BY <1>9, <1>11, <2>1
<1> QED BY <1>10, <1>11

\* The newest sequence of a sender.
LEMMA SeenOfLog ==
    ASSUME NEW log \in Seq(Entry), NEW s
    PROVE  /\ LastSeen(log, s) \in Nat \cup {None}
           /\ SeenSince(log, s) \in SUBSET (1 .. Len(log))
           /\ \A i \in SeenSince(log, s) : log[i].sequence \in Nat
           /\ IsFiniteSet({None} \cup {log[i].sequence : i \in SeenSince(log, s)})
<1> DEFINE D == SeenSince(log, s)
           f == [i \in D |-> log[i].sequence]
           S == {None} \cup {log[i].sequence : i \in D}
<1>1. Len(log) \in Nat /\ D \in SUBSET (1 .. Len(log))
  BY AtPlaces DEF SeenSince
<1>2. IsFiniteSet({log[i].sequence : i \in D})
  <2>1. IsFiniteSet({f[i] : i \in D})
    <3> HIDE DEF D, f
    <3> QED BY <1>1, FiniteImage
  <2>2. {log[i].sequence : i \in D} = {f[i] : i \in D}
    OBVIOUS
  <2> QED BY <2>1, <2>2
<1>3. IsFiniteSet(S)
  BY <1>2, FS_Singleton, FS_Union
<1>4. \A i \in D : log[i].sequence \in Nat
  BY AtPlaces, EntryFields DEF SeenSince
<1>5. S \in SUBSET Int /\ S # {} /\ S \subseteq Nat \cup {None}
  BY <1>4 DEF None
<1>6. LastSeen(log, s) \in S
  BY <1>3, <1>5, MaxOf DEF LastSeen
<1> QED BY <1>1, <1>3, <1>4, <1>5, <1>6

\* The sequences seen after one more record: forgotten when it raises the epoch.
LEMMA SeenLonger ==
    ASSUME NEW log \in Seq(Entry), NEW e \in Entry, NEW log2 \in Seq(Entry), Longer(log, e, log2),
           NEW s
    PROVE  LastSeen(log2, s) =
              CASE e.kind = "Epoch" /\ e.epoch > LastEpoch(log) -> None
                [] e.kind = "Seen" /\ e.sender = s -> Larger(LastSeen(log, s), e.sequence)
                [] OTHER -> LastSeen(log, s)
<1> DEFINE D == SeenSince(log, s)
           D2 == SeenSince(log2, s)
           n == Len(log) + 1
           S == {None} \cup {log[i].sequence : i \in D}
           S2 == {None} \cup {log2[i].sequence : i \in D2}
<1>1. At(log, {"Seen"}) \in SUBSET (1 .. Len(log)) /\ Len(log) \in Nat
  BY AtPlaces
<1>2. (\A i \in At(log, {"Seen"}) : log2[i] = log[i]) /\ log2[n] = e
  BY <1>1 DEF Longer
<1>3. At(log2, {"Seen"}) = IF e.kind = "Seen" THEN At(log, {"Seen"}) \cup {n} ELSE At(log, {"Seen"})
  <2>1. /\ e.kind \in {"Seen"} => At(log2, {"Seen"}) = At(log, {"Seen"}) \cup {n}
        /\ e.kind \notin {"Seen"} => At(log2, {"Seen"}) = At(log, {"Seen"})
    BY AtLonger
  <2> QED BY <2>1
<1>4. Raised(log) \in Int /\ Raised(log) < n
  <2>1. Raised(log) \in 0 .. Len(log)
    BY RaisedOfLog
  <2> QED BY <1>1, <2>1
<1>5. LastSeen(log, s) = Max(S) /\ LastSeen(log2, s) = Max(S2)
  BY DEF LastSeen
<1>6. CASE e.kind = "Epoch" /\ e.epoch > LastEpoch(log)
  <2>1. Raised(log2) = n
    BY <1>6, RaisedLonger
  <2>2. D2 = {}
    BY <1>1, <1>3, <1>6, <2>1 DEF SeenSince
  <2>3. S2 = {None}
    BY <2>2
  <2>4. Max({None}) = None
    BY MaxIs, {None} \in SUBSET Int, None \in {None}, \A y \in {None} : None >= y DEF None
  <2> QED BY <1>5, <1>6, <2>3, <2>4
<1>7. CASE ~(e.kind = "Epoch" /\ e.epoch > LastEpoch(log))
  <2>1. Raised(log2) = Raised(log)
    BY <1>7, RaisedLonger
  <2>2. CASE e.kind = "Seen" /\ e.sender = s
    <3>1. D2 = D \cup {n}
      BY <1>1, <1>2, <1>3, <1>4, <2>1, <2>2 DEF SeenSince
    <3>2. S2 = S \cup {e.sequence}
      BY <1>1, <1>2, <3>1 DEF SeenSince
    <3>3. e.sequence \in Int
      BY <2>2, EntryFields
    <3>4. IsFiniteSet(S)
      BY SeenOfLog
    <3>5. S \in SUBSET Int /\ S # {}
      <4>1. \A i \in D : log[i].sequence \in Nat
        BY SeenOfLog
      <4> QED BY <4>1 DEF None
    <3>6. Max(S2) = Larger(Max(S), e.sequence)
      <4> HIDE DEF S, S2
      <4> QED BY <3>2, <3>3, <3>4, <3>5, MaxAdds
    <3> QED BY <1>5, <1>7, <2>2, <3>6
  <2>3. CASE ~(e.kind = "Seen" /\ e.sender = s)
    <3>1. D2 = D
      BY <1>1, <1>2, <1>3, <2>1, <2>3 DEF SeenSince
    <3>2. S2 = S
      BY <1>2, <3>1 DEF SeenSince
    <3> QED BY <1>5, <1>7, <2>3, <3>2
  <2> QED BY <2>2, <2>3
<1> QED BY <1>6, <1>7

\* The counter is past every number recorded and every frame.
LEMMA NextOfLog ==
    ASSUME NEW log \in Seq(Entry)
    PROVE  /\ NextSequence(log) \in Nat
           /\ \A i \in Framed(log) : log[i].frame \in Frames /\ log[i].frame.sequence < NextSequence(log)
           /\ LET S == {0} \cup {log[i].next : i \in At(log, {"Sequence"})}
                           \cup {log[i].frame.sequence + 1 : i \in Framed(log)}
              IN  IsFiniteSet(S) /\ S \in SUBSET Nat
<1> DEFINE D == At(log, {"Sequence"})
           F == Framed(log)
           d == [i \in D |-> log[i].next]
           f == [i \in F |-> log[i].frame.sequence + 1]
           A == {log[i].next : i \in D}
           B == {log[i].frame.sequence + 1 : i \in F}
           S == {0} \cup A \cup B
<1>1. Len(log) \in Nat /\ D \in SUBSET (1 .. Len(log)) /\ F \in SUBSET (1 .. Len(log))
  BY AtPlaces DEF Framed
<1>2. IsFiniteSet(A)
  <2>1. IsFiniteSet({d[i] : i \in D})
    <3> HIDE DEF D, d
    <3> QED BY <1>1, FiniteImage
  <2>2. A = {d[i] : i \in D}
    OBVIOUS
  <2> QED BY <2>1, <2>2
<1>3. IsFiniteSet(B)
  <2>1. IsFiniteSet({f[i] : i \in F})
    <3> HIDE DEF F, f
    <3> QED BY <1>1, FiniteImage
  <2>2. B = {f[i] : i \in F}
    OBVIOUS
  <2> QED BY <2>1, <2>2
<1>4. IsFiniteSet(S)
  <2>1. IsFiniteSet({0} \cup A)
    BY <1>2, FS_Singleton, FS_Union
  <2> QED BY <1>3, <2>1, FS_Union
<1>5. \A i \in D : log[i].next \in Nat
  BY AtPlaces, EntryFields
<1>6. \A i \in F : log[i].frame \in Frames /\ log[i].frame.sequence \in Nat
  BY AtPlaces, EntryFields DEF Framed
<1>7. S \in SUBSET Nat /\ S # {}
  BY <1>5, <1>6
<1>8. NextSequence(log) \in S /\ \A y \in S : NextSequence(log) >= y
  <2>1. NextSequence(log) = Max(S)
    BY DEF NextSequence
  <2>2. S \in SUBSET Int
    BY <1>7
  <2> HIDE DEF S
  <2> QED BY <1>4, <1>7, <2>1, <2>2, MaxOf
<1>9. ASSUME NEW i \in F PROVE log[i].frame.sequence < NextSequence(log)
  <2>1. log[i].frame.sequence + 1 \in S
    OBVIOUS
  <2>2. NextSequence(log) >= log[i].frame.sequence + 1 /\ NextSequence(log) \in Nat
    BY <1>7, <1>8, <2>1
  <2> QED BY <1>6, <2>2
<1>10. NextSequence(log) \in Nat
  BY <1>7, <1>8
<1> QED BY <1>4, <1>6, <1>7, <1>9, <1>10

\* The counter after one more record.
LEMMA NextLonger ==
    ASSUME NEW log \in Seq(Entry), NEW e \in Entry, NEW log2 \in Seq(Entry), Longer(log, e, log2)
    PROVE  NextSequence(log2) =
              CASE e.kind = "Sequence" -> Larger(NextSequence(log), e.next)
                [] e.kind \in {"Vote", "Frame"} -> Larger(NextSequence(log), e.frame.sequence + 1)
                [] OTHER -> NextSequence(log)
<1> DEFINE D == At(log, {"Sequence"})
           F == Framed(log)
           D2 == At(log2, {"Sequence"})
           F2 == Framed(log2)
           n == Len(log) + 1
           S == {0} \cup {log[i].next : i \in D} \cup {log[i].frame.sequence + 1 : i \in F}
           S2 == {0} \cup {log2[i].next : i \in D2} \cup {log2[i].frame.sequence + 1 : i \in F2}
<1>1. D \in SUBSET (1 .. Len(log)) /\ F \in SUBSET (1 .. Len(log)) /\ Len(log) \in Nat
  BY AtPlaces DEF Framed
<1>2. (\A i \in D \cup F : log2[i] = log[i]) /\ log2[n] = e
  BY <1>1 DEF Longer
<1>3. /\ e.kind = "Sequence" => D2 = D \cup {n} /\ F2 = F
      /\ e.kind \in {"Vote", "Frame"} => D2 = D /\ F2 = F \cup {n}
      /\ e.kind \notin {"Sequence", "Vote", "Frame"} => D2 = D /\ F2 = F
  <2>1. /\ e.kind \in {"Sequence"} => D2 = D \cup {n}
        /\ e.kind \notin {"Sequence"} => D2 = D
    BY AtLonger
  <2>2. /\ e.kind \in {"Vote", "Frame"} => F2 = F \cup {n}
        /\ e.kind \notin {"Vote", "Frame"} => F2 = F
    BY AtLonger DEF Framed
  <2> HIDE DEF D, D2, F, F2
  <2> QED BY <2>1, <2>2
<1>4. IsFiniteSet(S) /\ S \in SUBSET Int /\ S # {}
  <2>1. IsFiniteSet(S) /\ S \in SUBSET Nat
    BY NextOfLog
  <2> QED BY <2>1
<1>5. NextSequence(log) = Max(S) /\ NextSequence(log2) = Max(S2)
  BY DEF NextSequence
<1>6. CASE e.kind = "Sequence"
  <2>1. S2 = S \cup {e.next}
    <3> HIDE DEF D, D2, F, F2, n
    <3> QED BY <1>2, <1>3, <1>6
  <2>2. e.next \in Int
    BY <1>6, EntryFields
  <2> HIDE DEF S, S2
  <2> QED BY <1>4, <1>5, <1>6, <2>1, <2>2, MaxAdds
<1>7. CASE e.kind \in {"Vote", "Frame"}
  <2>1. S2 = S \cup {e.frame.sequence + 1}
    <3> HIDE DEF D, D2, F, F2, n
    <3> QED BY <1>2, <1>3, <1>7
  <2>2. e.frame.sequence + 1 \in Int
    BY <1>7, EntryFields
  <2> HIDE DEF S, S2
  <2> QED BY <1>4, <1>5, <1>7, <2>1, <2>2, MaxAdds
<1>8. CASE e.kind \notin {"Sequence", "Vote", "Frame"}
  <2>1. S2 = S
    <3> HIDE DEF D, D2, F, F2, n
    <3> QED BY <1>2, <1>3, <1>8
  <2> QED BY <1>5, <1>8, <2>1
<1> QED BY <1>6, <1>7, <1>8

\* The locks of a log.
LEMMA LocksLonger ==
    ASSUME NEW log \in Seq(Entry), NEW e \in Entry, NEW log2 \in Seq(Entry), Longer(log, e, log2)
    PROVE  /\ e.kind \in {"Vote", "Lock"} => Locked(log2) = Locked(log) \cup {e.key}
           /\ e.kind \notin {"Vote", "Lock"} => Locked(log2) = Locked(log)
<1> DEFINE D == At(log, {"Vote", "Lock"})
           D2 == At(log2, {"Vote", "Lock"})
           n == Len(log) + 1
<1>1. D \in SUBSET (1 .. Len(log)) /\ Len(log) \in Nat
  BY AtPlaces
<1>2. (\A i \in D : log2[i] = log[i]) /\ log2[n] = e
  BY <1>1 DEF Longer
<1>3. /\ e.kind \in {"Vote", "Lock"} => D2 = D \cup {n}
      /\ e.kind \notin {"Vote", "Lock"} => D2 = D
  BY AtLonger
<1> HIDE DEF D, D2, n
<1> QED BY <1>2, <1>3 DEF Locked, D, D2

\* The outbox of a log: frames with different sequences, finitely many.
LEMMA PendingOfLog ==
    ASSUME NEW log \in Seq(Entry)
    PROVE  /\ Outbox(log) \in SUBSET Frames
           /\ IsFiniteSet(Outbox(log))
           /\ \A f \in Outbox(log) : f.sequence < NextSequence(log)
           /\ \A f, g \in Outbox(log) : f.sequence = g.sequence => f = g
<1> DEFINE D == Outstanding(log)
           d == [i \in D |-> log[i].frame]
           p == {log[i].frame : i \in D}
<1>1. D \subseteq Framed(log) /\ D \in SUBSET (1 .. Len(log)) /\ Len(log) \in Nat
  BY AtPlaces DEF Outstanding, Framed
<1>2. IsFiniteSet(p)
  <2>1. IsFiniteSet({d[i] : i \in D})
    <3> HIDE DEF D, d
    <3> QED BY <1>1, FiniteImage
  <2>2. p = {d[i] : i \in D}
    OBVIOUS
  <2> QED BY <2>1, <2>2
<1>3. p \in SUBSET Frames /\ \A f \in p : f.sequence < NextSequence(log)
  <2> HIDE DEF D
  <2> QED BY <1>1, NextOfLog
<1>4. ASSUME NEW i \in D, NEW j \in D, log[i].frame.sequence = log[j].frame.sequence
      PROVE  i = j
  <2>1. i \in Int /\ j \in Int
    BY <1>1
  <2>2. ~(i > j) /\ ~(j > i)
    BY <1>1, <1>4 DEF Outstanding
  <2> QED BY <2>1, <2>2
<1>5. \A f, g \in p : f.sequence = g.sequence => f = g
  <2> HIDE DEF D
  <2> QED BY <1>4
<1> QED BY <1>2, <1>3, <1>5 DEF Outbox

\* The outbox after one more record.
LEMMA PendingLonger ==
    ASSUME NEW log \in Seq(Entry), NEW e \in Entry, NEW log2 \in Seq(Entry), Longer(log, e, log2)
    PROVE  Outbox(log2) = CASE e.kind \in {"Vote", "Frame"} -> InsertFrame(Outbox(log), e.frame)
                            [] e.kind = "Retired" -> RemoveFrame(Outbox(log), e.sequence)
                            [] OTHER -> Outbox(log)
<1> DEFINE F == Framed(log)
           F2 == Framed(log2)
           R == At(log, {"Retired"})
           R2 == At(log2, {"Retired"})
           O == Outstanding(log)
           O2 == Outstanding(log2)
           n == Len(log) + 1
           p == {log[i].frame : i \in O}
<1>1. F \in SUBSET (1 .. Len(log)) /\ R \in SUBSET (1 .. Len(log)) /\ Len(log) \in Nat
  BY AtPlaces DEF Framed
<1>2. (\A i \in F \cup R : log2[i] = log[i]) /\ log2[n] = e
  BY <1>1 DEF Longer
<1>3. (\A i \in F \cup R : n > i /\ ~(i > n)) /\ ~(n > n)
  BY <1>1
<1>4. /\ e.kind \in {"Vote", "Frame"} => F2 = F \cup {n} /\ R2 = R
      /\ e.kind = "Retired" => F2 = F /\ R2 = R \cup {n}
      /\ e.kind \notin {"Vote", "Frame", "Retired"} => F2 = F /\ R2 = R
  <2>1. /\ e.kind \in {"Vote", "Frame"} => F2 = F \cup {n}
        /\ e.kind \notin {"Vote", "Frame"} => F2 = F
    BY AtLonger DEF Framed
  <2>2. /\ e.kind \in {"Retired"} => R2 = R \cup {n}
        /\ e.kind \notin {"Retired"} => R2 = R
    BY AtLonger
  <2> HIDE DEF R, R2, F, F2
  <2> QED BY <2>1, <2>2
<1>5. /\ O = {i \in F : /\ \A k \in F : k > i => log[k].frame.sequence # log[i].frame.sequence
                        /\ \A k \in R : k > i => log[k].sequence # log[i].frame.sequence}
      /\ O2 = {i \in F2 : /\ \A k \in F2 : k > i => log2[k].frame.sequence # log2[i].frame.sequence
                          /\ \A k \in R2 : k > i => log2[k].sequence # log2[i].frame.sequence}
  BY DEF Outstanding
<1>6. {log2[i].frame : i \in O2} = CASE e.kind \in {"Vote", "Frame"} -> InsertFrame(p, e.frame)
                                    [] e.kind = "Retired" -> RemoveFrame(p, e.sequence)
                                    [] OTHER -> p
  <2> HIDE DEF F, F2, R, R2, O, O2, n
  <2>1. CASE e.kind \in {"Vote", "Frame"}
    <3>1. O2 = {i \in O : log[i].frame.sequence # e.frame.sequence} \cup {n}
      <4>1. F2 = F \cup {n} /\ R2 = R /\ n \notin F
        BY <1>3, <1>4, <2>1
      <4>2. n \in O2
        BY <1>2, <1>3, <1>5, <4>1
      <4>3. \A i \in F : i \in O2 <=> i \in O /\ log[i].frame.sequence # e.frame.sequence
        BY <1>2, <1>3, <1>5, <4>1
      <4>4. O \subseteq F /\ O2 \subseteq F2
        BY <1>5
      <4> QED BY <4>1, <4>2, <4>3, <4>4
    <3>2. \A i \in O : log2[i] = log[i]
      BY <1>2, <1>5
    <3>3. {log2[i].frame : i \in O2} = InsertFrame(p, e.frame)
      BY <1>2, <3>1, <3>2 DEF InsertFrame
    <3> QED BY <2>1, <3>3
  <2>2. CASE e.kind = "Retired"
    <3>1. O2 = {i \in O : e.sequence # log[i].frame.sequence}
      BY <1>2, <1>3, <1>4, <1>5, <2>2
    <3>2. \A i \in O : log2[i] = log[i]
      BY <1>2, <1>5
    <3>3. {log2[i].frame : i \in O2} = RemoveFrame(p, e.sequence)
      BY <1>2, <3>1, <3>2 DEF RemoveFrame
    <3> QED BY <2>2, <3>3
  <2>3. CASE e.kind \notin {"Vote", "Frame", "Retired"}
    <3>1. O2 = O
      BY <1>2, <1>4, <1>5, <2>3
    <3>2. \A i \in O : log2[i] = log[i]
      BY <1>2, <1>5
    <3> QED BY <2>3, <3>1, <3>2
  <2> QED BY <2>1, <2>2, <2>3
<1> QED BY <1>6 DEF Outbox

\* The first vote witnessed of an author is never replaced.
LEMMA WitnessOfLog ==
    ASSUME NEW log \in Seq(Entry), NEW a
    PROVE  /\ FirstWitnessed(log, a) \in Nat \cup {None}
           /\ FirstWitnessed(log, a) = None <=> WitnessesOf(log, a) = {}
           /\ WitnessesOf(log, a) \in SUBSET (1 .. Len(log))
           /\ IsFiniteSet(WitnessesOf(log, a))
<1> DEFINE D == WitnessesOf(log, a)
<1>1. D \in SUBSET (1 .. Len(log)) /\ Len(log) \in Nat
  BY AtPlaces DEF WitnessesOf
<1>2. IsFiniteSet(D)
  BY <1>1, FiniteImage
<1>3. \A i \in D : log[i].bytes \in Nat
  BY AtPlaces, EntryFields DEF WitnessesOf
<1>4. D # {} => Min(D) \in D
  <2> HIDE DEF D
  <2>1. D \in SUBSET Int
    BY <1>1
  <2> QED BY <1>2, <2>1, MinOf
<1> QED BY <1>1, <1>2, <1>3, <1>4 DEF FirstWitnessed, None

\* The witnessed votes after one more record: the first of an author stays.
LEMMA WitnessLonger ==
    ASSUME NEW log \in Seq(Entry), NEW e \in Entry, NEW log2 \in Seq(Entry), Longer(log, e, log2),
           NEW a
    PROVE  FirstWitnessed(log2, a) =
              IF e.kind = "Witnessed" /\ e.author = a /\ FirstWitnessed(log, a) = None
              THEN e.bytes ELSE FirstWitnessed(log, a)
<1> DEFINE W == At(log, {"Witnessed"})
           W2 == At(log2, {"Witnessed"})
           D == WitnessesOf(log, a)
           D2 == WitnessesOf(log2, a)
           n == Len(log) + 1
<1>1. W \in SUBSET (1 .. Len(log)) /\ Len(log) \in Nat
  BY AtPlaces
<1>2. (\A i \in W : log2[i] = log[i]) /\ log2[n] = e
  BY <1>1 DEF Longer
<1>3. /\ e.kind \in {"Witnessed"} => W2 = W \cup {n}
      /\ e.kind \notin {"Witnessed"} => W2 = W
  BY AtLonger
<1>4. D = {i \in W : log[i].author = a} /\ D2 = {i \in W2 : log2[i].author = a}
  BY DEF WitnessesOf
<1>5. /\ FirstWitnessed(log, a) = IF D = {} THEN None ELSE log[Min(D)].bytes
      /\ FirstWitnessed(log2, a) = IF D2 = {} THEN None ELSE log2[Min(D2)].bytes
      /\ FirstWitnessed(log, a) = None <=> D = {}
  BY WitnessOfLog DEF FirstWitnessed
<1>6. D # {} => Min(D) \in D /\ \A y \in D : Min(D) <= y
  <2>1. D \in SUBSET Int /\ IsFiniteSet(D)
    BY <1>1, WitnessOfLog
  <2> HIDE DEF D
  <2> QED BY <2>1, MinOf
<1> HIDE DEF W, W2, D, D2
<1>7. CASE e.kind = "Witnessed" /\ e.author = a
  <2>1. D2 = D \cup {n}
    BY <1>2, <1>3, <1>4, <1>7
  <2>2. CASE D = {}
    <3>1. D2 = {n} /\ n \in Int
      BY <1>1, <2>1, <2>2
    <3>2. Min({n}) = n
      BY <1>1, MinIs, {n} \in SUBSET Int, n \in {n}, \A y \in {n} : n <= y
    <3> QED BY <1>2, <1>5, <1>7, <2>2, <3>1, <3>2
  <2>3. CASE D # {}
    <3>1. Min(D) \in D2 /\ D2 \in SUBSET Int /\ n \in Int
      <4>1. D \in SUBSET (1 .. Len(log))
        BY <1>1, <1>4
      <4>2. n \in Int /\ D \in SUBSET Int
        BY <1>1, <4>1
      <4> HIDE DEF n
      <4> QED BY <1>6, <2>1, <2>3, <4>2
    <3>2. ASSUME NEW y \in D2 PROVE Min(D) <= y
      <4>1. Min(D) \in 1 .. Len(log)
        BY <1>1, <1>4, <1>6, <2>3
      <4>2. Min(D) <= n
        BY <1>1, <4>1
      <4> QED BY <1>6, <2>1, <2>3, <4>2
    <3>3. Min(D2) = Min(D)
      BY <3>1, <3>2, MinIs
    <3>4. log2[Min(D)] = log[Min(D)] /\ D2 # {}
      BY <1>2, <1>4, <1>6, <2>1, <2>3
    <3> QED BY <1>5, <2>3, <3>3, <3>4
  <2> QED BY <2>2, <2>3
<1>8. CASE ~(e.kind = "Witnessed" /\ e.author = a)
  <2>1. D2 = D
    BY <1>2, <1>3, <1>4, <1>8
  <2>2. D # {} => log2[Min(D)] = log[Min(D)]
    BY <1>2, <1>4, <1>6
  <2> QED BY <1>5, <1>8, <2>1, <2>2
<1> QED BY <1>7, <1>8

----------------------------------------------------------------------------
(* Replay.                                                                 *)

\* Every log amounts to such a state.
LEMMA ReplayedIsWell ==
    ASSUME NEW log \in Seq(Entry)
    PROVE  Well(Replayed(log))
<1> DEFINE seen == [s \in Senders |-> LastSeen(log, s)]
           locks == Locked(log)
           pend == Outbox(log)
           witnessed == [a \in Authors |-> FirstWitnessed(log, a)]
           epoch == LastEpoch(log)
           next == NextSequence(log)
<1>1. Replayed(log) = [epoch |-> epoch, seen |-> seen, locks |-> locks, pending |-> pend,
                       next_sequence |-> next, witnessed |-> witnessed]
  BY DEF Replayed
<1>2. epoch \in Epochs \cup {None}
  BY EpochOfLog
<1>3. seen \in [Senders -> Nat \cup {None}]
  BY SeenOfLog
<1>4. locks \in SUBSET Keys
  BY AtPlaces, EntryFields DEF Locked
<1>5. /\ pend \in SUBSET Frames /\ IsFiniteSet(pend)
      /\ \A f \in pend : f.sequence < next
      /\ \A f, g \in pend : f.sequence = g.sequence => f = g
  BY PendingOfLog
<1>6. next \in Nat
  BY NextOfLog
<1>7. witnessed \in [Authors -> Nat \cup {None}]
  BY WitnessOfLog
<1> HIDE DEF seen, locks, pend, witnessed, epoch, next
<1>8. Replayed(log) \in State
  BY <1>1, <1>2, <1>3, <1>4, <1>5, <1>6, <1>7 DEF State
<1>9. Replayed(log).pending = pend /\ Replayed(log).next_sequence = next
  BY <1>1
<1> QED BY <1>5, <1>8, <1>9 DEF Well

\* A state by its fields.
Made(epoch, seen, locks, pending_, next, witnessed) ==
    [epoch |-> epoch, seen |-> seen, locks |-> locks, pending |-> pending_,
     next_sequence |-> next, witnessed |-> witnessed]

\* The updates of two or three fields, and what they leave.
WithOutbox(R, p, n) == [R EXCEPT !.pending = p, !.next_sequence = n]
WithVote(R, l, p, n) == [R EXCEPT !.locks = l, !.pending = p, !.next_sequence = n]
WithVoteSettled(R, l, p, n) == [R EXCEPT !.locks = l, !.next_sequence = n, !.pending = p]
WithEpoch(R, s, e) == [R EXCEPT !.seen = s, !.epoch = e]

\* Updating fields of a state, field by field.
LEMMA Updates ==
    ASSUME NEW e, NEW s, NEW l, NEW p, NEW n, NEW w, NEW R, R = Made(e, s, l, p, n, w)
    PROVE  /\ \A p2, n2 : WithOutbox(R, p2, n2) = Made(e, s, l, p2, n2, w)
           /\ \A l2, p2, n2 : WithVote(R, l2, p2, n2) = Made(e, s, l2, p2, n2, w)
           /\ \A l2, p2, n2 : WithVoteSettled(R, l2, p2, n2) = Made(e, s, l2, p2, n2, w)
           /\ \A s2, e2 : WithEpoch(R, s2, e2) = Made(e2, s2, l, p, n, w)
<1> SUFFICES ASSUME NEW e2, NEW s2, NEW l2, NEW p2, NEW n2
    PROVE  /\ WithOutbox(R, p2, n2) = Made(e, s, l, p2, n2, w)
           /\ WithVote(R, l2, p2, n2) = Made(e, s, l2, p2, n2, w)
           /\ WithVoteSettled(R, l2, p2, n2) = Made(e, s, l2, p2, n2, w)
           /\ WithEpoch(R, s2, e2) = Made(e2, s2, l, p, n, w)
  OBVIOUS
<1> DEFINE P == [R EXCEPT !.pending = p2]
           L == [R EXCEPT !.locks = l2]
           LP == [L EXCEPT !.pending = p2]
           LN == [L EXCEPT !.next_sequence = n2]
           S == [R EXCEPT !.seen = s2]
<1>1. /\ P = Made(e, s, l, p2, n, w)
      /\ L = Made(e, s, l2, p, n, w)
      /\ S = Made(e, s2, l, p, n, w)
  BY DEF Made
<1>2. /\ WithOutbox(R, p2, n2) = [P EXCEPT !.next_sequence = n2]
      /\ WithVote(R, l2, p2, n2) = [LP EXCEPT !.next_sequence = n2]
      /\ WithVoteSettled(R, l2, p2, n2) = [LN EXCEPT !.pending = p2]
      /\ WithEpoch(R, s2, e2) = [S EXCEPT !.epoch = e2]
  BY DEF WithOutbox, WithVote, WithVoteSettled, WithEpoch
<1>3. LP = Made(e, s, l2, p2, n, w) /\ LN = Made(e, s, l2, p, n2, w)
  <2> HIDE DEF L
  <2> QED BY <1>1 DEF Made
<1> HIDE DEF P, LP, LN, S
<1>4. [P EXCEPT !.next_sequence = n2] = Made(e, s, l, p2, n2, w)
  BY <1>1 DEF Made
<1>5. [LP EXCEPT !.next_sequence = n2] = Made(e, s, l2, p2, n2, w)
  BY <1>3 DEF Made
<1>6. [LN EXCEPT !.pending = p2] = Made(e, s, l2, p2, n2, w)
  BY <1>3 DEF Made
<1>7. [S EXCEPT !.epoch = e2] = Made(e2, s2, l, p, n, w)
  BY <1>1 DEF Made
<1> QED BY <1>2, <1>4, <1>5, <1>6, <1>7

\* One more record does to what a log amounts to what State::apply does.
LEMMA ReplayedLonger ==
    ASSUME NEW log \in Seq(Entry), NEW e \in Entry, NEW log2 \in Seq(Entry), Longer(log, e, log2)
    PROVE  Replayed(log2) = apply(Replayed(log), e)
<1> DEFINE seen == [s \in Senders |-> LastSeen(log, s)]
           locks == Locked(log)
           pend == Outbox(log)
           witnessed == [a \in Authors |-> FirstWitnessed(log, a)]
           epoch == LastEpoch(log)
           next == NextSequence(log)
           seen2 == [s \in Senders |-> LastSeen(log2, s)]
           locks2 == Locked(log2)
           pend2 == Outbox(log2)
           witnessed2 == [a \in Authors |-> FirstWitnessed(log2, a)]
           epoch2 == LastEpoch(log2)
           next2 == NextSequence(log2)
<1>1. /\ Replayed(log) = [epoch |-> epoch, seen |-> seen, locks |-> locks, pending |-> pend,
                          next_sequence |-> next, witnessed |-> witnessed]
      /\ Replayed(log2) = [epoch |-> epoch2, seen |-> seen2, locks |-> locks2, pending |-> pend2,
                           next_sequence |-> next2, witnessed |-> witnessed2]
  BY DEF Replayed
<1>2. epoch2 = IF e.kind = "Epoch" THEN Larger(epoch, e.epoch) ELSE epoch
  BY EpochLonger
<1>3. seen2 = CASE e.kind = "Epoch" /\ e.epoch > epoch -> [s \in Senders |-> None]
                [] e.kind = "Seen" -> [seen EXCEPT ![e.sender] = Larger(@, e.sequence)]
                [] OTHER -> seen
  <2>1. \A s \in Senders : LastSeen(log2, s) =
              CASE e.kind = "Epoch" /\ e.epoch > LastEpoch(log) -> None
                [] e.kind = "Seen" /\ e.sender = s -> Larger(LastSeen(log, s), e.sequence)
                [] OTHER -> LastSeen(log, s)
    BY SeenLonger
  <2>2. e.kind = "Seen" => e.sender \in Senders
    BY EntryFields
  <2>3. CASE e.kind = "Epoch" /\ e.epoch > epoch
    BY <2>1, <2>3
  <2>4. CASE e.kind = "Seen"
    BY <2>1, <2>2, <2>4
  <2>5. CASE e.kind # "Seen" /\ ~(e.kind = "Epoch" /\ e.epoch > epoch)
    BY <2>1, <2>5
  <2> QED BY <2>3, <2>4, <2>5
<1>4. /\ e.kind \in {"Vote", "Lock"} => locks2 = locks \cup {e.key}
      /\ e.kind \notin {"Vote", "Lock"} => locks2 = locks
  BY LocksLonger
<1>5. pend2 = CASE e.kind \in {"Vote", "Frame"} -> InsertFrame(pend, e.frame)
                [] e.kind = "Retired" -> RemoveFrame(pend, e.sequence)
                [] OTHER -> pend
  BY PendingLonger
<1>6. next2 = CASE e.kind = "Sequence" -> Larger(next, e.next)
                [] e.kind \in {"Vote", "Frame"} -> Larger(next, e.frame.sequence + 1)
                [] OTHER -> next
  BY NextLonger
<1>7. witnessed2 = IF e.kind = "Witnessed"
                   THEN [witnessed EXCEPT ![e.author] = IF @ = None THEN e.bytes ELSE @]
                   ELSE witnessed
  <2>1. \A a \in Authors : FirstWitnessed(log2, a) =
              IF e.kind = "Witnessed" /\ e.author = a /\ FirstWitnessed(log, a) = None
              THEN e.bytes ELSE FirstWitnessed(log, a)
    BY WitnessLonger
  <2>2. e.kind = "Witnessed" => e.author \in Authors
    BY EntryFields
  <2>3. CASE e.kind = "Witnessed"
    BY <2>1, <2>2, <2>3
  <2>4. CASE e.kind # "Witnessed"
    BY <2>1, <2>4
  <2> QED BY <2>3, <2>4
<1>8. e.kind \in {"Vote", "Sequence", "Seen", "Epoch", "Retired", "Witnessed", "Lock", "Frame"}
  BY EntryFields
<1> HIDE DEF seen, locks, pend, witnessed, epoch, next, seen2, locks2, pend2, witnessed2, epoch2, next2
<1> DEFINE R == Replayed(log)
           moreLocks == locks \cup {e.key}
           morePend == InsertFrame(pend, e.frame)
           later == Larger(next, e.frame.sequence + 1)
           newer == Larger(epoch, e.epoch)
           cleared == IF e.epoch > epoch THEN [s \in Senders |-> None] ELSE seen
<1>0. /\ R.epoch = epoch /\ R.seen = seen /\ R.locks = locks
      /\ R.pending = pend /\ R.next_sequence = next /\ R.witnessed = witnessed
  BY <1>1
<1>17. /\ R = Made(epoch, seen, locks, pend, next, witnessed)
       /\ Replayed(log2) = Made(epoch2, seen2, locks2, pend2, next2, witnessed2)
  BY <1>1 DEF Made
<1>9. CASE e.kind = "Vote"
  <2>1. /\ epoch2 = epoch /\ seen2 = seen /\ witnessed2 = witnessed
        /\ locks2 = moreLocks /\ pend2 = morePend /\ next2 = later
    BY <1>2, <1>3, <1>4, <1>5, <1>6, <1>7, <1>9
  <2>2. apply(R, e) = [R EXCEPT !.locks = moreLocks, !.pending = morePend, !.next_sequence = later]
    <3> DEFINE L == [R EXCEPT !.locks = moreLocks]
    <3>1. apply(R, e) = add_frame([R EXCEPT !.locks = R.locks \cup {e.key}], e.frame)
      <4> HIDE DEF R
      <4> QED BY <1>9 DEF apply
    <3>2. apply(R, e) = [L EXCEPT !.pending = InsertFrame(L.pending, e.frame),
                                  !.next_sequence = Larger(L.next_sequence, e.frame.sequence + 1)]
      <4> HIDE DEF R
      <4> QED BY <1>0, <3>1 DEF add_frame
    <3>3. L.pending = pend /\ L.next_sequence = next
      <4> HIDE DEF moreLocks
      <4> QED BY <1>1
    <3>4. apply(R, e) = [L EXCEPT !.pending = morePend, !.next_sequence = later]
      <4> HIDE DEF L
      <4> QED BY <3>2, <3>3
    <3> HIDE DEF R, moreLocks, morePend, later
    <3> QED BY <3>4
  <2> HIDE DEF R, moreLocks, morePend, later
  <2>3. apply(R, e) = Made(epoch, seen, moreLocks, morePend, later, witnessed)
    <3>1. apply(R, e) = WithVote(R, moreLocks, morePend, later)
      BY <2>2 DEF WithVote
    <3> QED BY <1>17, <3>1, Updates
  <2> QED BY <1>17, <2>1, <2>3 DEF R
<1>10. CASE e.kind = "Lock"
  <2>1. /\ epoch2 = epoch /\ seen2 = seen /\ witnessed2 = witnessed
        /\ locks2 = moreLocks /\ pend2 = pend /\ next2 = next
    BY <1>2, <1>3, <1>4, <1>5, <1>6, <1>7, <1>10
  <2>2. apply(R, e) = [R EXCEPT !.locks = moreLocks]
    <3> HIDE DEF R
    <3> QED BY <1>0, <1>10 DEF apply
  <2> HIDE DEF R, moreLocks
  <2>3. [R EXCEPT !.locks = moreLocks] =
            [epoch |-> epoch, seen |-> seen, locks |-> moreLocks, pending |-> pend,
             next_sequence |-> next, witnessed |-> witnessed]
    BY <1>1 DEF R
  <2> QED BY <1>1, <2>1, <2>2, <2>3 DEF R
<1>11. CASE e.kind = "Frame"
  <2>1. /\ epoch2 = epoch /\ seen2 = seen /\ witnessed2 = witnessed
        /\ locks2 = locks /\ pend2 = morePend /\ next2 = later
    BY <1>2, <1>3, <1>4, <1>5, <1>6, <1>7, <1>11
  <2>2. apply(R, e) = [R EXCEPT !.pending = morePend, !.next_sequence = later]
    <3> HIDE DEF R
    <3> QED BY <1>0, <1>11 DEF apply, add_frame
  <2> HIDE DEF R, morePend, later
  <2>3. apply(R, e) = Made(epoch, seen, locks, morePend, later, witnessed)
    <3>1. apply(R, e) = WithOutbox(R, morePend, later)
      BY <2>2 DEF WithOutbox
    <3> QED BY <1>17, <3>1, Updates
  <2> QED BY <1>17, <2>1, <2>3 DEF R
<1>12. CASE e.kind = "Sequence"
  BY <1>1, <1>2, <1>3, <1>4, <1>5, <1>6, <1>7, <1>12 DEF apply
<1>13. CASE e.kind = "Epoch"
  <2>1. /\ epoch2 = newer /\ (seen2 = cleared) /\ witnessed2 = witnessed
        /\ locks2 = locks /\ pend2 = pend /\ next2 = next
    BY <1>2, <1>3, <1>4, <1>5, <1>6, <1>7, <1>13
  <2>2. apply(R, e) = [R EXCEPT !.seen = cleared, !.epoch = newer]
    <3> HIDE DEF R
    <3> QED BY <1>0, <1>13 DEF apply
  <2> HIDE DEF R, newer, cleared
  <2>3. apply(R, e) = Made(newer, cleared, locks, pend, next, witnessed)
    <3>1. apply(R, e) = WithEpoch(R, cleared, newer)
      BY <2>2 DEF WithEpoch
    <3> QED BY <1>17, <3>1, Updates
  <2> QED BY <1>17, <2>1, <2>3 DEF R
<1>14. CASE e.kind = "Seen"
  BY <1>1, <1>2, <1>3, <1>4, <1>5, <1>6, <1>7, <1>14 DEF apply
<1>15. CASE e.kind = "Retired"
  BY <1>1, <1>2, <1>3, <1>4, <1>5, <1>6, <1>7, <1>15 DEF apply
<1>16. CASE e.kind = "Witnessed"
  BY <1>1, <1>2, <1>3, <1>4, <1>5, <1>6, <1>7, <1>16 DEF apply
<1> QED BY <1>8, <1>9, <1>10, <1>11, <1>12, <1>13, <1>14, <1>15, <1>16

\* A log of whole records is read to its end, and one that a power cut damaged
\* up to the damage.
LEMMA WholeLog ==
    ASSUME NEW log \in Seq(Entry)
    PROVE  Whole(log) = log /\ replay(log) = Replayed(log)
<1> DEFINE T == {i \in DOMAIN log : log[i] = Torn}
<1>1. T = {}
  BY EntryFields
<1>2. Len(log) \in Nat /\ Len(log) + 1 \in Int
  OBVIOUS
<1>3. Min(T \cup {Len(log) + 1}) = Len(log) + 1
  <2>1. T \cup {Len(log) + 1} = {Len(log) + 1}
    BY <1>1
  <2>2. {Len(log) + 1} \in SUBSET Int /\ \A y \in {Len(log) + 1} : Len(log) + 1 <= y
    BY <1>2
  <2> HIDE DEF T
  <2> QED BY <2>1, <2>2, MinIs
<1>4. Whole(log) = SubSeq(log, 1, Len(log))
  <2> DEFINE n == Len(log) + 1
  <2>1. n - 1 = Len(log)
    BY <1>2
  <2> HIDE DEF n
  <2> QED BY <1>3, <2>1 DEF Whole, n
<1>5. SubSeq(log, 1, Len(log)) = log
  OBVIOUS
<1> QED BY <1>4, <1>5 DEF replay

\* Replay stops before a damaged last record.
LEMMA DamagedLog ==
    ASSUME NEW log \in Seq(Entry), NEW recs \in Seq(Entry \cup {Torn}),
           Len(recs) = Len(log) + 1, \A i \in 1 .. Len(log) : recs[i] = log[i],
           recs[Len(recs)] = Torn
    PROVE  Whole(recs) = log /\ replay(recs) = Replayed(log)
<1> DEFINE T == {i \in DOMAIN recs : recs[i] = Torn}
           n == Len(log) + 1
<1>1. Len(log) \in Nat /\ n \in Int /\ DOMAIN recs = 1 .. n
  OBVIOUS
<1>2. \A i \in 1 .. Len(log) : recs[i] # Torn
  BY EntryFields
<1>3. T = {n}
  BY <1>1, <1>2
<1>4. Len(recs) + 1 \in Int /\ n <= Len(recs) + 1
  BY <1>1
<1>5. Min(T \cup {Len(recs) + 1}) = n
  <2> DEFINE S == T \cup {Len(recs) + 1}
  <2>1. S \in SUBSET Int /\ n \in S /\ \A y \in S : n <= y
    BY <1>1, <1>3, <1>4
  <2> HIDE DEF S, n
  <2>2. Min(S) = n
    BY <2>1, MinIs
  <2> QED BY <2>2 DEF S
<1>6. Whole(recs) = SubSeq(recs, 1, Len(log))
  <2>1. n - 1 = Len(log)
    BY <1>1
  <2> HIDE DEF n
  <2> QED BY <1>5, <2>1 DEF Whole
<1>7. SubSeq(recs, 1, Len(log)) = log
  BY <1>1
<1> QED BY <1>6, <1>7 DEF replay

\* A log without records amounts to State::default().
LEMMA ReplayedEmpty ==
    Replayed(<<>>) = EmptyState
<1> DEFINE log == <<>>
<1>1. \A kinds : At(log, kinds) = {}
  BY DEF At
<1>2. LastEpoch(log) = None
  BY <1>1, MaxIs, {None} \in SUBSET Int, \A y \in {None} : None >= y DEF LastEpoch, None
<1>3. NextSequence(log) = 0
  BY <1>1, MaxIs, {0} \in SUBSET Int, \A y \in {0} : 0 >= y DEF NextSequence, Framed
<1>4. \A s : LastSeen(log, s) = None
  BY <1>1, MaxIs, {None} \in SUBSET Int, \A y \in {None} : None >= y DEF LastSeen, SeenSince, None
<1>5. \A a : FirstWitnessed(log, a) = None
  BY <1>1 DEF FirstWitnessed, WitnessesOf
<1>6. Locked(log) = {} /\ Outbox(log) = {}
  BY <1>1 DEF Locked, Outbox, Outstanding, Framed
<1> HIDE DEF log
<1> QED BY <1>2, <1>3, <1>4, <1>5, <1>6 DEF Replayed, EmptyState, log

----------------------------------------------------------------------------
(* The loop of replay, and the closed form used for it.                    *)

\* Induction over the turns of a loop: a set that holds 0, and with every number
\* below n the next one, holds them all.
LEMMA EveryTurn ==
    ASSUME NEW n \in Nat, NEW T, 0 \in T,
           \A k \in 1 .. n : k - 1 \in T => k \in T
    PROVE  \A k \in 0 .. n : k \in T
<1> DEFINE U == {k \in 0 .. n : k \notin T}
<1>1. U \in SUBSET Int /\ IsFiniteSet(U)
  <2>1. U \subseteq 0 .. n /\ U \in SUBSET Int
    OBVIOUS
  <2>2. IsFiniteSet(0 .. n)
    BY FS_Interval, 0 \in Int, n \in Int
  <2> HIDE DEF U
  <2> QED BY <2>1, <2>2, FS_Subset
<1>2. ASSUME U # {} PROVE FALSE
  <2>1. PICK k \in U : \A j \in U : k <= j
    <3> HIDE DEF U
    <3> QED BY <1>1, <1>2, FiniteHasBounds
  <2>2. k \in 0 .. n /\ k \notin T
    BY <2>1
  <2>3. k \in 1 .. n /\ k - 1 \in 0 .. n /\ ~(k <= k - 1)
    BY <2>2
  <2>4. k - 1 \in T
    BY <2>1, <2>3
  <2> QED BY <2>2, <2>3, <2>4
<1> QED BY <1>2

\* One turn of the loop.
Turn(before, k, record) ==
    IF before.at = k - 1 /\ record # Torn
    THEN [state |-> apply(before.state, record), at |-> k]
    ELSE before

LEMMA ReadLoopTurns ==
    ASSUME NEW recs \in Seq(Entry \cup {Torn})
    PROVE  /\ ReadLoop(recs)[0] = [state |-> EmptyState, at |-> 0]
           /\ \A k \in 1 .. Len(recs) :
                  ReadLoop(recs)[k] = Turn(ReadLoop(recs)[k - 1], k, recs[k])
<1> DEFINE first == [state |-> EmptyState, at |-> 0]
           Solves(s, n) == s = [k \in 0 .. n |-> IF k = 0 THEN first ELSE Turn(s[k - 1], k, recs[k])]
           T == {n \in Nat : \E s : Solves(s, n)}
<1>0. Len(recs) \in Nat
  OBVIOUS
<1>a. ReadLoop(recs) = CHOOSE s : Solves(s, Len(recs))
  BY DEF ReadLoop, Turn
<1> HIDE DEF first
<1>1. 0 \in T
  <2>1. Solves([k \in 0 .. 0 |-> first], 0)
    OBVIOUS
  <2> QED BY <2>1
<1>2. ASSUME NEW n \in 1 .. Len(recs), n - 1 \in T PROVE n \in T
  <2>1. PICK s : Solves(s, n - 1)
    BY <1>2
  <2> DEFINE t == [k \in 0 .. n |-> IF k = n THEN Turn(s[n - 1], n, recs[n]) ELSE s[k]]
  <2>2. \A k \in 0 .. n : t[k] = IF k = 0 THEN first ELSE Turn(t[k - 1], k, recs[k])
    <3> SUFFICES ASSUME NEW k \in 0 .. n
                 PROVE  t[k] = IF k = 0 THEN first ELSE Turn(t[k - 1], k, recs[k])
      OBVIOUS
    <3>1. CASE k = n
      <4>1. n # 0 /\ n - 1 \in 0 .. n /\ n - 1 # n /\ n \in 0 .. n
        BY <1>0
      <4>2. t[n] = Turn(s[n - 1], n, recs[n]) /\ t[n - 1] = s[n - 1]
        BY <4>1
      <4> QED BY <3>1, <4>1, <4>2
    <3>2. CASE k # n
      <4>1. /\ k \in 0 .. n - 1 /\ t[k] = s[k]
            /\ k # 0 => k - 1 \in 0 .. n /\ k - 1 # n /\ t[k - 1] = s[k - 1]
        BY <1>0, <3>2
      <4> QED BY <2>1, <4>1
    <3> QED BY <3>1, <3>2
  <2>3. Solves(t, n) /\ n \in Nat
    BY <1>0, <2>2
  <2>4. \E f : Solves(f, n)
    <3> HIDE DEF t, Solves
    <3> QED BY <2>3
  <2> QED BY <2>3, <2>4
<1>3. Len(recs) \in T
  <2> HIDE DEF T
  <2>1. \A n \in 0 .. Len(recs) : n \in T
    BY <1>0, <1>1, <1>2, EveryTurn
  <2> QED BY <1>0, <2>1
<1>4. Solves(ReadLoop(recs), Len(recs))
  <2>1. \E s : Solves(s, Len(recs))
    BY <1>3
  <2> HIDE DEF Solves
  <2> QED BY <1>a, <2>1
<1>5. \A k \in 0 .. Len(recs) :
          ReadLoop(recs)[k] = IF k = 0 THEN first ELSE Turn(ReadLoop(recs)[k - 1], k, recs[k])
  BY <1>4
<1> HIDE DEF T, Solves
<1>6. 0 \in 0 .. Len(recs) /\ \A k \in 1 .. Len(recs) : k \in 0 .. Len(recs) /\ k # 0
  BY <1>0
<1> QED BY <1>5, <1>6 DEF first

\* What Whole takes of a file: every record up to the first that is not whole.
LEMMA WholePrefix ==
    ASSUME NEW recs \in Seq(Entry \cup {Torn})
    PROVE  \E n \in 0 .. Len(recs) :
               /\ Whole(recs) = SubSeq(recs, 1, n)
               /\ \A i \in 1 .. n : recs[i] \in Entry
               /\ n < Len(recs) => recs[n + 1] = Torn
<1> DEFINE S == {i \in DOMAIN recs : recs[i] = Torn} \cup {Len(recs) + 1}
<1>0. Len(recs) \in Nat /\ DOMAIN recs = 1 .. Len(recs)
  OBVIOUS
<1>1. S \in SUBSET Int /\ S # {} /\ S \subseteq 1 .. Len(recs) + 1
  BY <1>0
<1>2. IsFiniteSet(S)
  <2>1. IsFiniteSet(1 .. Len(recs) + 1)
    BY <1>0, FS_Interval, 1 \in Int, Len(recs) + 1 \in Int
  <2> HIDE DEF S
  <2> QED BY <1>1, <2>1, FS_Subset
<1>3. PICK m \in S : m = Min(S) /\ \A y \in S : m <= y
  <2> HIDE DEF S
  <2> QED BY <1>1, <1>2, MinOf
<1>4. m \in 1 .. Len(recs) + 1 /\ m - 1 \in 0 .. Len(recs) /\ (m - 1) + 1 = m
  BY <1>0, <1>1, <1>3
<1>5. Whole(recs) = SubSeq(recs, 1, m - 1)
  BY <1>3 DEF Whole
<1>6. ASSUME NEW i \in 1 .. m - 1 PROVE recs[i] \in Entry
  <2>1. i \in 1 .. Len(recs) /\ ~(m <= i)
    BY <1>0, <1>4
  <2>2. i \notin S
    BY <1>3, <2>1
  <2>3. recs[i] # Torn /\ recs[i] \in Entry \cup {Torn}
    BY <1>0, <2>1, <2>2
  <2> QED BY <2>3
<1>7. ASSUME m - 1 < Len(recs) PROVE recs[m] = Torn
  <2>1. m # Len(recs) + 1
    BY <1>0, <1>4, <1>7
  <2> QED BY <1>3, <2>1
<1> HIDE DEF S
<1> QED BY <1>4, <1>5, <1>6, <1>7

\* The loop returns the closed form, for every file, however long and however
\* damaged, and the number of records up to which Open cuts it.
LEMMA LoopReturns ==
    ASSUME NEW recs \in Seq(Entry \cup {Torn})
    PROVE  ReadLoop(recs)[Len(recs)] = [state |-> replay(recs), at |-> Len(Whole(recs))]
<1>0. Len(recs) \in Nat
  OBVIOUS
<1>1. PICK n \in 0 .. Len(recs) :
               /\ Whole(recs) = SubSeq(recs, 1, n)
               /\ \A i \in 1 .. n : recs[i] \in Entry
               /\ n < Len(recs) => recs[n + 1] = Torn
  BY WholePrefix
<1> DEFINE Upto(k) == SubSeq(recs, 1, k)
           Read(k) == [state |-> Replayed(Upto(k)), at |-> k]
           T == {k \in Nat : ReadLoop(recs)[k] = Read(IF k <= n THEN k ELSE n)}
<1>2. ASSUME NEW k \in 0 .. n
      PROVE  /\ Upto(k) \in Seq(Entry) /\ Len(Upto(k)) = k
             /\ \A i \in 1 .. k : Upto(k)[i] = recs[i]
  <2>1. 1 \in Int /\ k \in Int /\ \A i \in 1 .. k : recs[i] \in Entry
    BY <1>0, <1>1
  <2>2. Upto(k) \in Seq(Entry)
    BY <2>1, SubSeqProperties
  <2>3. Len(Upto(k)) = IF 1 <= k THEN k - 1 + 1 ELSE 0
    BY <2>1, SubSeqProperties
  <2>4. \A i \in 1 .. k - 1 + 1 : Upto(k)[i] = recs[1 + i - 1]
    BY <2>1, SubSeqProperties
  <2>5. k \in Nat
    BY <1>0
  <2>6. Len(Upto(k)) = k
    BY <2>3, <2>5
  <2>7. ASSUME NEW i \in 1 .. k PROVE Upto(k)[i] = recs[i]
    <3>1. i \in 1 .. k - 1 + 1 /\ 1 + i - 1 = i
      BY <2>5
    <3> HIDE DEF Upto
    <3> QED BY <2>4, <3>1
  <2> HIDE DEF Upto
  <2> QED BY <2>2, <2>6, <2>7
<1>3. 0 \in T
  <2>1. Upto(0) = <<>>
    OBVIOUS
  <2>2. 0 <= n
    BY <1>0
  <2> HIDE DEF Upto
  <2> QED BY <2>1, <2>2, ReadLoopTurns, ReplayedEmpty
<1> HIDE DEF Upto
<1>4. ASSUME NEW k \in 1 .. Len(recs), k - 1 \in T PROVE k \in T
  <2>0. k \in Nat /\ k - 1 \in Nat /\ n \in Nat
    BY <1>0
  <2>1. ReadLoop(recs)[k] = Turn(ReadLoop(recs)[k - 1], k, recs[k])
    BY ReadLoopTurns
  <2>2. CASE k <= n
    <3>1. k - 1 <= n /\ k \in 1 .. n /\ k \in 0 .. n /\ k - 1 \in 0 .. n /\ (k - 1) + 1 = k
      BY <2>0, <2>2
    <3>2. ReadLoop(recs)[k - 1] = Read(k - 1)
      BY <1>4, <3>1
    <3>3. recs[k] \in Entry /\ recs[k] # Torn
      BY <1>1, <3>1, EntryFields
    <3>4. Longer(Upto(k - 1), recs[k], Upto(k))
      <4>1. Len(Upto(k - 1)) = k - 1 /\ \A i \in 1 .. k - 1 : Upto(k - 1)[i] = recs[i]
        BY <1>2, <3>1
      <4>2. Len(Upto(k)) = k /\ \A i \in 1 .. k : Upto(k)[i] = recs[i]
        BY <1>2, <3>1
      <4>3. \A i \in 1 .. k - 1 : Upto(k)[i] = Upto(k - 1)[i]
        BY <2>0, <4>1, <4>2
      <4>4. Upto(k)[k] = recs[k]
        BY <3>1, <4>2, k \in 1 .. k
      <4> QED BY <3>1, <4>1, <4>2, <4>3, <4>4 DEF Longer
    <3>5. Upto(k - 1) \in Seq(Entry) /\ Upto(k) \in Seq(Entry)
      BY <1>2, <3>1
    <3>6. Replayed(Upto(k)) = apply(Replayed(Upto(k - 1)), recs[k])
      BY <3>3, <3>4, <3>5, ReplayedLonger
    <3>7. Turn(Read(k - 1), k, recs[k]) = Read(k)
      <4>1. Read(k - 1).at = k - 1 /\ Read(k - 1).state = Replayed(Upto(k - 1))
        OBVIOUS
      <4> QED BY <3>3, <3>6, <4>1 DEF Turn
    <3> HIDE DEF Read
    <3> QED BY <2>0, <2>1, <2>2, <3>2, <3>7
  <2>3. CASE ~(k <= n)
    <3>1. ReadLoop(recs)[k - 1] = Read(n)
      <4>1. CASE k - 1 = n
        BY <1>4, <2>0, <4>1
      <4>2. CASE k - 1 # n
        <5>1. ~(k - 1 <= n)
          BY <2>0, <2>3, <4>2
        <5> HIDE DEF Read
        <5> QED BY <1>4, <5>1
      <4> QED BY <4>1, <4>2
    <3>2. n = k - 1 => recs[k] = Torn
      <4>1. n = k - 1 => n < Len(recs) /\ n + 1 = k
        BY <1>0, <2>0
      <4> QED BY <1>1, <4>1
    <3>3. Read(n).at = n
      OBVIOUS
    <3>4. Turn(Read(n), k, recs[k]) = Read(n)
      <4> HIDE DEF Read
      <4> QED BY <3>2, <3>3 DEF Turn
    <3> HIDE DEF Read
    <3> QED BY <2>0, <2>1, <2>3, <3>1, <3>4
  <2> QED BY <2>2, <2>3
<1>5. Len(recs) \in T
  <2> HIDE DEF T
  <2>1. \A k \in 0 .. Len(recs) : k \in T
    BY <1>0, <1>3, <1>4, EveryTurn
  <2> QED BY <1>0, <2>1
<1>6. ReadLoop(recs)[Len(recs)] = Read(n)
  <2>1. Len(recs) <= n => Len(recs) = n
    BY <1>0
  <2> HIDE DEF Read
  <2> QED BY <1>5, <2>1
<1>7. Upto(n) = Whole(recs) /\ Len(Whole(recs)) = n
  <2>1. n \in 0 .. n
    BY <1>0
  <2>2. Len(Upto(n)) = n
    BY <1>2, <2>1
  <2> QED BY <1>1, <2>2 DEF Upto
<1> QED BY <1>6, <1>7 DEF replay

\* Whatever order its records come in and wherever it is damaged, a file is read
\* by replay()'s loop as the closed form says: so every result here about
\* replay(recs) is one about the loop.
THEOREM LoopIsClosedForm ==
    /\ \A recs \in Seq(Entry \cup {Torn}) :
           ReadLoop(recs)[Len(recs)] = [state |-> replay(recs), at |-> Len(Whole(recs))]
    /\ Spec => []ReplayIsFold
<1>1. \A recs \in Seq(Entry \cup {Torn}) :
           ReadLoop(recs)[Len(recs)] = [state |-> replay(recs), at |-> Len(Whole(recs))]
  BY LoopReturns
<1>2. AnyRecord \subseteq Entry \cup {Torn}
  <2>1. \A n \in 0 .. MaxSequence : n \in Nat
    BY JournalConstants
  <2>2. \A n \in 0 .. MaxSequence, k \in Keys :
            OutgoingFrame(n, k, {}) \in Frames /\ OutgoingFrame(n, k, {}).vote = k
    BY <2>1 DEF OutgoingFrame, Frames, Expiries
  <2> QED BY <2>1, <2>2 DEF AnyRecord, Entry, Vote, Sequence, Seen, Epoch, Retired,
                            Witnessed, Lock, Frame
<1>3. BoundedSeq(AnyRecord, 3) \subseteq Seq(Entry \cup {Torn})
  <2> SUFFICES ASSUME NEW recs \in BoundedSeq(AnyRecord, 3)
               PROVE  recs \in Seq(Entry \cup {Torn})
    OBVIOUS
  <2>1. PICK m \in 0 .. 3 : recs \in [1 .. m -> AnyRecord]
    BY DEF BoundedSeq, SeqOf
  <2>2. m \in Nat /\ recs \in [1 .. m -> Entry \cup {Torn}]
    BY <1>2, <2>1
  <2> QED BY <2>2
<1>4. ReplayIsFold
  BY <1>1, <1>3 DEF ReplayIsFold
<1>5. Spec => []ReplayIsFold
  BY <1>4, PTL
<1> QED BY <1>1, <1>5

----------------------------------------------------------------------------
(* Compaction.                                                             *)

\* s lists the elements of S, each once.
Lists(s, S) ==
    /\ s \in Seq(S)
    /\ \A i, j \in 1 .. Len(s) : s[i] = s[j] => i = j
    /\ \A x \in S : \E i \in 1 .. Len(s) : s[i] = x

\* The image of a finite set is finite.
LEMMA FiniteMapped ==
    ASSUME NEW S, IsFiniteSet(S), NEW f
    PROVE  IsFiniteSet({f[x] : x \in S})
<1> DEFINE g == [x \in S |-> f[x]]
           T == {f[x] : x \in S}
<1>1. g \in Surjection(S, T)
  BY DEF Surjection
<1> QED BY <1>1, FS_Surjection

\* SetToSeq lists a finite set, each element at least once.
LEMMA SetToSeqLists ==
    ASSUME NEW S, IsFiniteSet(S)
    PROVE  Lists(SetToSeq(S), S)
<1> DEFINE n == Cardinality(S)
           s == SetToSeq(S)
<1>1. n \in Nat /\ \E f : f \in Bijection(1 .. n, S)
  BY FS_CardinalityType DEF ExistsBijection
<1>2. \E f \in [1 .. n -> S] : IsInjective(f)
  BY <1>1 DEF Bijection, Injection, IsInjective
<1>3. s \in [1 .. n -> S] /\ IsInjective(s)
  BY <1>2 DEF SetToSeq
<1> HIDE DEF s
<1>4. s \in Seq(S) /\ Len(s) = n
  BY <1>1, <1>3
<1>5. s \in Injection(1 .. n, S)
  BY <1>3 DEF Injection, IsInjective
<1>6. Cardinality(1 .. n) = n
  BY <1>1, FS_Interval
<1>7. s \in Surjection(1 .. n, S)
  BY <1>5, <1>6, FS_Injection
<1>8. \A i, j \in 1 .. n : s[i] = s[j] => i = j
  BY <1>3 DEF IsInjective
<1>9. \A x \in S : \E i \in 1 .. n : s[i] = x
  BY <1>7 DEF Surjection
<1> HIDE DEF n
<1>10. Lists(s, S)
  BY <1>4, <1>8, <1>9 DEF Lists
<1> QED BY <1>10 DEF s

\* An epoch is recorded before what was seen in it.
EpochFirst(s) ==
    \A i, j \in 1 .. Len(s) : s[i].kind = "Epoch" /\ s[j].kind = "Seen" => i < j

\* Two lists in a row list both sets.
LEMMA ConcatLists ==
    ASSUME NEW A, NEW B, NEW a, NEW b, Lists(a, A), Lists(b, B), A \cap B = {}
    PROVE  /\ Lists(a \o b, A \cup B)
           /\ EpochFirst(a) /\ (\A x \in B : x.kind # "Epoch") => EpochFirst(a \o b)
           /\ (\A x \in A : x.kind # "Seen") /\ EpochFirst(b) => EpochFirst(a \o b)
<1> DEFINE c == a \o b
           m == Len(a)
           n == Len(b)
<1>1. a \in Seq(A) /\ b \in Seq(B) /\ m \in Nat /\ n \in Nat
  BY DEF Lists
<1>2. c \in Seq(A \cup B) /\ Len(c) = m + n
  <2>1. a \in Seq(A \cup B) /\ b \in Seq(A \cup B)
    BY <1>1
  <2> QED BY <2>1
<1>3. \A i \in 1 .. m : c[i] = a[i] /\ a[i] \in A
  BY <1>1
<1>4. \A i \in (m + 1) .. (m + n) : c[i] = b[i - m] /\ i - m \in 1 .. n /\ b[i - m] \in B
  BY <1>1
<1> HIDE DEF c
<1>5. ASSUME NEW i \in 1 .. Len(c)
      PROVE  i \in 1 .. m \/ i \in (m + 1) .. (m + n)
  BY <1>1, <1>2
<1>6. \A i, j \in 1 .. Len(c) : c[i] = c[j] => i = j
  <2> SUFFICES ASSUME NEW i \in 1 .. Len(c), NEW j \in 1 .. Len(c), c[i] = c[j] PROVE i = j
    OBVIOUS
  <2>1. CASE i \in 1 .. m /\ j \in 1 .. m
    BY <1>3, <2>1 DEF Lists
  <2>2. CASE i \in (m + 1) .. (m + n) /\ j \in (m + 1) .. (m + n)
    <3>1. i - m \in 1 .. n /\ j - m \in 1 .. n /\ b[i - m] = b[j - m]
      BY <1>4, <2>2
    <3>2. \A k, l \in 1 .. n : b[k] = b[l] => k = l
      BY DEF Lists
    <3>3. i - m = j - m
      BY <3>1, <3>2
    <3> QED BY <1>1, <2>2, <3>3
  <2>3. CASE i \in 1 .. m /\ j \in (m + 1) .. (m + n)
    BY <1>3, <1>4, <2>3
  <2>4. CASE j \in 1 .. m /\ i \in (m + 1) .. (m + n)
    BY <1>3, <1>4, <2>4
  <2> QED BY <1>5, <2>1, <2>2, <2>3, <2>4
<1>7. \A x \in A \cup B : \E i \in 1 .. Len(c) : c[i] = x
  <2> SUFFICES ASSUME NEW x \in A \cup B PROVE \E i \in 1 .. Len(c) : c[i] = x
    OBVIOUS
  <2>1. CASE x \in A
    <3>1. PICK i \in 1 .. m : a[i] = x
      BY <2>1 DEF Lists
    <3>2. i \in 1 .. Len(c)
      BY <1>1, <1>2
    <3> QED BY <1>3, <3>1, <3>2
  <2>2. CASE x \in B
    <3>1. PICK i \in 1 .. n : b[i] = x
      BY <2>2 DEF Lists
    <3>2. i + m \in (m + 1) .. (m + n) /\ i + m \in 1 .. Len(c) /\ (i + m) - m = i
      BY <1>1, <1>2
    <3> QED BY <1>4, <3>1, <3>2
  <2> QED BY <2>1, <2>2
<1>8. ASSUME EpochFirst(a), \A x \in B : x.kind # "Epoch"
      PROVE  EpochFirst(c)
  <2> SUFFICES ASSUME NEW i \in 1 .. Len(c), NEW j \in 1 .. Len(c),
                      c[i].kind = "Epoch", c[j].kind = "Seen"
               PROVE  i < j
    BY DEF EpochFirst
  <2>1. i \in 1 .. m
    BY <1>4, <1>5, <1>8
  <2>2. CASE j \in 1 .. m
    BY <1>3, <1>8, <2>1, <2>2 DEF EpochFirst
  <2>3. CASE j \in (m + 1) .. (m + n)
    BY <1>1, <2>1, <2>3
  <2> QED BY <1>5, <2>2, <2>3
<1>9. ASSUME EpochFirst(b), \A x \in A : x.kind # "Seen"
      PROVE  EpochFirst(c)
  <2> SUFFICES ASSUME NEW i \in 1 .. Len(c), NEW j \in 1 .. Len(c),
                      c[i].kind = "Epoch", c[j].kind = "Seen"
               PROVE  i < j
    BY DEF EpochFirst
  <2>1. j \in (m + 1) .. (m + n)
    BY <1>3, <1>5, <1>9
  <2>2. CASE i \in 1 .. m
    BY <1>1, <2>1, <2>2
  <2>3. CASE i \in (m + 1) .. (m + n)
    <3>1. i - m < j - m
      BY <1>4, <1>9, <2>1, <2>3 DEF EpochFirst
    <3> QED BY <1>1, <2>1, <2>3, <3>1
  <2> QED BY <1>5, <2>2, <2>3
<1> QED BY <1>2, <1>6, <1>7, <1>8, <1>9 DEF Lists, c

\* The records a state is written down as.
EpochOf(state) == IF state.epoch = None THEN {} ELSE {Epoch(state.epoch)}
SeenOf(state) == {Seen(s, state.seen[s]) : s \in {s \in Senders : state.seen[s] # None}}
LocksOf(state) == {Lock(k) : k \in state.locks}
FramesOf(state) == {Frame(f) : f \in state.pending}
WitnessedOf(state) ==
    {Witnessed(a, state.witnessed[a]) : a \in {a \in Authors : state.witnessed[a] # None}}

RecordsOf(state) ==
    ((({Sequence(state.next_sequence)} \cup EpochOf(state)) \cup SeenOf(state))
        \cup LocksOf(state)) \cup FramesOf(state) \cup WitnessedOf(state)

\* What compaction writes are entries of the log.
LEMMA RecordsAreEntries ==
    ASSUME NEW state \in State
    PROVE  /\ RecordsOf(state) \in SUBSET Entry
           /\ \A e \in {Sequence(state.next_sequence)} : e.kind = "Sequence" /\ e \in Entry
           /\ \A e \in EpochOf(state) : e.kind = "Epoch" /\ e \in Entry
           /\ \A e \in SeenOf(state) : e.kind = "Seen" /\ e \in Entry
           /\ \A e \in LocksOf(state) : e.kind = "Lock" /\ e \in Entry
           /\ \A e \in FramesOf(state) : e.kind = "Frame" /\ e \in Entry
           /\ \A e \in WitnessedOf(state) : e.kind = "Witnessed" /\ e \in Entry
<1>1. \A e \in {Sequence(state.next_sequence)} : e.kind = "Sequence" /\ e \in Entry
  BY DEF State, Sequence, Entry
<1>2. \A e \in EpochOf(state) : e.kind = "Epoch" /\ e \in Entry
  <2>1. state.epoch # None => state.epoch \in Epochs
    BY DEF State
  <2> QED BY <2>1 DEF EpochOf, Epoch, Entry
<1>3. \A e \in SeenOf(state) : e.kind = "Seen" /\ e \in Entry
  <2>1. \A s \in Senders : state.seen[s] # None => state.seen[s] \in Nat
    BY DEF State
  <2>2. \A s \in Senders : state.seen[s] # None => Seen(s, state.seen[s]) \in Entry
    BY <2>1 DEF Seen, Entry
  <2>3. \A s : Seen(s, state.seen[s]).kind = "Seen"
    BY DEF Seen
  <2> QED BY <2>2, <2>3 DEF SeenOf
<1>4. \A e \in LocksOf(state) : e.kind = "Lock" /\ e \in Entry
  BY DEF LocksOf, State, Lock, Entry
<1>5. \A e \in FramesOf(state) : e.kind = "Frame" /\ e \in Entry
  BY DEF FramesOf, State, Frame, Entry
<1>6. \A e \in WitnessedOf(state) : e.kind = "Witnessed" /\ e \in Entry
  <2>1. \A a \in Authors : state.witnessed[a] # None => state.witnessed[a] \in Nat
    BY DEF State
  <2>2. \A a \in Authors : state.witnessed[a] # None => Witnessed(a, state.witnessed[a]) \in Entry
    BY <2>1 DEF Witnessed, Entry
  <2>3. \A a : Witnessed(a, state.witnessed[a]).kind = "Witnessed"
    BY DEF Witnessed
  <2> QED BY <2>2, <2>3 DEF WitnessedOf
<1> QED BY <1>1, <1>2, <1>3, <1>4, <1>5, <1>6 DEF RecordsOf

\* The records of each kind.
LEMMA RecordsByKind ==
    ASSUME NEW state \in State, NEW e \in RecordsOf(state)
    PROVE  /\ e.kind \in {"Sequence", "Epoch", "Seen", "Lock", "Frame", "Witnessed"}
           /\ e.kind = "Sequence" => e = Sequence(state.next_sequence)
           /\ e.kind = "Epoch" => e \in EpochOf(state)
           /\ e.kind = "Seen" => e \in SeenOf(state)
           /\ e.kind = "Lock" => e \in LocksOf(state)
           /\ e.kind = "Frame" => e \in FramesOf(state)
           /\ e.kind = "Witnessed" => e \in WitnessedOf(state)
BY RecordsAreEntries DEF RecordsOf

\* What compaction writes lists them, the epoch before the sequences seen.
LEMMA CompactedLists ==
    ASSUME Well(live)
    PROVE  Lists(CompactedEntries, RecordsOf(live)) /\ EpochFirst(CompactedEntries)
<1> DEFINE S1 == {Sequence(live.next_sequence)}
           s1 == <<Sequence(live.next_sequence)>>
           S2 == EpochOf(live)
           s2 == IF live.epoch = None THEN <<>> ELSE <<Epoch(live.epoch)>>
           S3 == SeenOf(live)
           S4 == LocksOf(live)
           S5 == FramesOf(live)
           S6 == WitnessedOf(live)
<1>0. live \in State /\ IsFiniteSet(live.pending)
  BY DEF Well
<1>1. Lists(s1, S1)
  BY DEF Lists
<1>2. Lists(s2, S2)
  <2>1. CASE live.epoch = None
    BY <2>1 DEF Lists, EpochOf
  <2>2. CASE live.epoch # None
    BY <2>2 DEF Lists, EpochOf
  <2> QED BY <2>1, <2>2
<1>3. IsFiniteSet(S3) /\ IsFiniteSet(S4) /\ IsFiniteSet(S5) /\ IsFiniteSet(S6)
  <2> DEFINE ss == {s \in Senders : live.seen[s] # None}
             aa == {a \in Authors : live.witnessed[a] # None}
             f3 == [s \in ss |-> Seen(s, live.seen[s])]
             f4 == [k \in live.locks |-> Lock(k)]
             f5 == [f \in live.pending |-> Frame(f)]
             f6 == [a \in aa |-> Witnessed(a, live.witnessed[a])]
  <2>1. IsFiniteSet(ss) /\ IsFiniteSet(aa) /\ IsFiniteSet(live.locks)
    BY <1>0, JournalConstants, FS_Subset DEF State
  <2>2. /\ S3 = {f3[s] : s \in ss}
        /\ S4 = {f4[k] : k \in live.locks}
        /\ S5 = {f5[f] : f \in live.pending}
        /\ S6 = {f6[a] : a \in aa}
    BY DEF SeenOf, LocksOf, FramesOf, WitnessedOf
  <2> HIDE DEF ss, aa, f3, f4, f5, f6
  <2> QED BY <1>0, <2>1, <2>2, FiniteMapped
<1>4. /\ Lists(SetToSeq(S3), S3) /\ Lists(SetToSeq(S4), S4)
      /\ Lists(SetToSeq(S5), S5) /\ Lists(SetToSeq(S6), S6)
  BY <1>3, SetToSeqLists
<1>5. /\ \A e \in S1 : e.kind = "Sequence"
      /\ \A e \in S2 : e.kind = "Epoch"
      /\ \A e \in S3 : e.kind = "Seen"
      /\ \A e \in S4 : e.kind = "Lock"
      /\ \A e \in S5 : e.kind = "Frame"
      /\ \A e \in S6 : e.kind = "Witnessed"
  BY <1>0, RecordsAreEntries
<1>6. CompactedEntries =
        ((((s1 \o s2) \o SetToSeq(S3)) \o SetToSeq(S4)) \o SetToSeq(S5)) \o SetToSeq(S6)
  BY DEF CompactedEntries, SeenOf, LocksOf, FramesOf, WitnessedOf
<1>7. RecordsOf(live) = ((((S1 \cup S2) \cup S3) \cup S4) \cup S5) \cup S6
  BY DEF RecordsOf
<1> HIDE DEF S1, S2, S3, S4, S5, S6, s1, s2
<1> DEFINE c2 == s1 \o s2
           c3 == c2 \o SetToSeq(S3)
           c4 == c3 \o SetToSeq(S4)
           c5 == c4 \o SetToSeq(S5)
           c6 == c5 \o SetToSeq(S6)
<1>8. Lists(c2, S1 \cup S2)
  BY <1>1, <1>2, <1>5, ConcatLists, S1 \cap S2 = {}
<1>9. EpochFirst(c2)
  <2>1. \A i \in 1 .. Len(c2) : c2[i] \in S1 \cup S2
    BY <1>8 DEF Lists
  <2> QED BY <1>5, <2>1 DEF EpochFirst
<1> HIDE DEF c2
<1>10. Lists(c3, (S1 \cup S2) \cup S3) /\ EpochFirst(c3)
  <2>1. (S1 \cup S2) \cap S3 = {}
    BY <1>5
  <2> QED BY <1>4, <1>5, <1>8, <1>9, <2>1, ConcatLists
<1> HIDE DEF c3
<1>11. Lists(c4, ((S1 \cup S2) \cup S3) \cup S4) /\ EpochFirst(c4)
  <2>1. ((S1 \cup S2) \cup S3) \cap S4 = {}
    BY <1>5
  <2> QED BY <1>4, <1>5, <1>10, <2>1, ConcatLists
<1> HIDE DEF c4
<1>12. Lists(c5, (((S1 \cup S2) \cup S3) \cup S4) \cup S5) /\ EpochFirst(c5)
  <2>1. (((S1 \cup S2) \cup S3) \cup S4) \cap S5 = {}
    BY <1>5
  <2> QED BY <1>4, <1>5, <1>11, <2>1, ConcatLists
<1> HIDE DEF c5
<1>13. Lists(c6, ((((S1 \cup S2) \cup S3) \cup S4) \cup S5) \cup S6) /\ EpochFirst(c6)
  <2>1. ((((S1 \cup S2) \cup S3) \cup S4) \cup S5) \cap S6 = {}
    BY <1>5
  <2> QED BY <1>4, <1>5, <1>12, <2>1, ConcatLists
<1> QED BY <1>6, <1>7, <1>13 DEF c6, c5, c4, c3, c2

\* Replaying what a state is written down as gives the state back.
LEMMA ReplayListed ==
    ASSUME NEW state, Well(state), NEW log, Lists(log, RecordsOf(state)), EpochFirst(log)
    PROVE  log \in Seq(Entry) /\ Replayed(log) = state
<1> DEFINE D == 1 .. Len(log)
<1>1. state \in State
  BY DEF Well
<1>2. log \in Seq(Entry) /\ DOMAIN log = D /\ Len(log) \in Nat
  BY <1>1, RecordsAreEntries DEF Lists
<1>3. \A i \in D : log[i] \in RecordsOf(state)
  BY DEF Lists
<1>4. \A e \in RecordsOf(state) : \E i \in D : log[i] = e
  BY DEF Lists
<1>5. \A i, j \in D : log[i] = log[j] => i = j
  BY DEF Lists
<1>6. \A i, j \in D : log[i].kind = "Epoch" /\ log[j].kind = "Seen" => i < j
  BY DEF EpochFirst
<1>7. \A kinds, i : i \in At(log, kinds) <=> i \in D /\ log[i].kind \in kinds
  BY <1>2 DEF At
<1> HIDE DEF D
<1>8. LastEpoch(log) = state.epoch
  <2> DEFINE S == {None} \cup {log[i].epoch : i \in At(log, {"Epoch"})}
  <2>1. CASE state.epoch = None
    <3>1. At(log, {"Epoch"}) = {}
      BY <1>1, <1>3, <1>7, <2>1, RecordsByKind DEF EpochOf
    <3>2. {None} \in SUBSET Int /\ None \in {None} /\ \A y \in {None} : None >= y
      BY DEF None
    <3> QED BY <2>1, <3>1, <3>2, MaxIs DEF LastEpoch
  <2>2. CASE state.epoch # None
    <3>1. state.epoch \in Nat
      BY <1>1, <2>2, JournalConstants DEF State
    <3>2. Epoch(state.epoch).kind = "Epoch" /\ Epoch(state.epoch).epoch = state.epoch
      BY DEF Epoch
    <3>3. \A i \in At(log, {"Epoch"}) : log[i] = Epoch(state.epoch)
      BY <1>1, <1>3, <1>7, <2>2, RecordsByKind DEF EpochOf
    <3>4. PICK i \in D : log[i] = Epoch(state.epoch)
      BY <1>4, <2>2 DEF EpochOf, RecordsOf
    <3>5. S = {None, state.epoch}
      BY <1>7, <3>2, <3>3, <3>4
    <3>6. S \in SUBSET Int /\ state.epoch \in S /\ \A y \in S : state.epoch >= y
      BY <3>1, <3>5 DEF None
    <3> HIDE DEF S
    <3> QED BY <3>6, MaxIs DEF LastEpoch, S
  <2> QED BY <2>1, <2>2
<1>9. \A j \in At(log, {"Seen"}) : j > Raised(log)
  <2> DEFINE R == {i \in At(log, {"Epoch"}) :
                    \A j \in At(log, {"Epoch"}) : j < i => log[j].epoch < log[i].epoch}
  <2>1. {0} \cup R \in SUBSET Int /\ {0} \cup R # {}
    BY <1>2, <1>7 DEF D
  <2>2. IsFiniteSet({0} \cup R)
    BY <1>2, RaisedOfLog
  <2>3. Raised(log) \in {0} \cup R
    <3> HIDE DEF R
    <3>1. Max({0} \cup R) \in {0} \cup R
      BY <2>1, <2>2, MaxOf
    <3> QED BY <3>1 DEF Raised, R
  <2>4. \A j \in At(log, {"Seen"}) : j \in D /\ j > 0 /\ \A i \in R : i < j
    BY <1>6, <1>7 DEF D
  <2>5. \A j \in D : j \in Int
    BY DEF D
  <2>6. \A j \in At(log, {"Seen"}) : \A i \in {0} \cup R : i \in Int /\ j \in Int /\ i < j
    BY <2>1, <2>4, <2>5
  <2> HIDE DEF R
  <2> QED BY <2>3, <2>6
<1>10. \A s \in Senders : LastSeen(log, s) = state.seen[s]
  <2> SUFFICES ASSUME NEW s \in Senders PROVE LastSeen(log, s) = state.seen[s]
    OBVIOUS
  <2> DEFINE W == SeenSince(log, s)
             S == {None} \cup {log[i].sequence : i \in W}
  <2>1. W = {i \in At(log, {"Seen"}) : log[i].sender = s}
    BY <1>9 DEF SeenSince
  <2>2. \A t : Seen(t, state.seen[t]).sender = t /\ Seen(t, state.seen[t]).sequence = state.seen[t]
            /\ Seen(t, state.seen[t]).kind = "Seen"
    BY DEF Seen
  <2>3. \A i \in W : state.seen[s] # None /\ log[i].sequence = state.seen[s]
    BY <1>1, <1>3, <1>7, <2>1, <2>2, RecordsByKind DEF SeenOf
  <2>4. CASE state.seen[s] = None
    <3>1. W = {}
      BY <2>3, <2>4
    <3>2. S = {None}
      BY <3>1
    <3>3. {None} \in SUBSET Int /\ None \in {None} /\ \A y \in {None} : None >= y
      BY DEF None
    <3> HIDE DEF W
    <3> QED BY <2>4, <3>2, <3>3, MaxIs DEF LastSeen, W
  <2>5. CASE state.seen[s] # None
    <3>1. state.seen[s] \in Nat
      BY <1>1, <2>5 DEF State
    <3>2. PICK i \in D : log[i] = Seen(s, state.seen[s])
      BY <1>4, <2>5 DEF SeenOf, RecordsOf
    <3>3. i \in W
      BY <1>7, <2>1, <2>2, <3>2
    <3>4. S = {None, state.seen[s]}
      BY <2>3, <3>3
    <3>5. S \in SUBSET Int /\ state.seen[s] \in S /\ \A y \in S : state.seen[s] >= y
      <4> DEFINE q == state.seen[s]
      <4>1. S = {None, q} /\ q \in Nat
        BY <3>1, <3>4
      <4> HIDE DEF S, q
      <4>2. S \in SUBSET Int /\ q \in S /\ \A y \in S : q >= y
        BY <4>1 DEF None
      <4> QED BY <4>2 DEF q
    <3> HIDE DEF S
    <3> QED BY <3>5, MaxIs DEF LastSeen, S
  <2> QED BY <2>4, <2>5
<1>11. Locked(log) = state.locks
  <2>1. \A k : Lock(k).kind = "Lock" /\ Lock(k).key = k
    BY DEF Lock
  <2>2. \A i \in At(log, {"Vote", "Lock"}) : log[i] \in LocksOf(state)
    BY <1>1, <1>3, <1>7, RecordsByKind
  <2>3. \A k \in state.locks : \E i \in At(log, {"Vote", "Lock"}) : log[i] = Lock(k)
    <3>1. \A k \in state.locks : Lock(k) \in RecordsOf(state)
      BY DEF LocksOf, RecordsOf
    <3> QED BY <1>4, <1>7, <2>1, <3>1
  <2> QED BY <2>1, <2>2, <2>3 DEF Locked, LocksOf
<1>12. /\ \A i \in Framed(log) : i \in D /\ log[i] \in FramesOf(state)
       /\ \A f \in state.pending : \E i \in Framed(log) : log[i] = Frame(f)
       /\ \A f : Frame(f).kind = "Frame" /\ Frame(f).frame = f
  <2>1. \A f : Frame(f).kind = "Frame" /\ Frame(f).frame = f
    BY DEF Frame
  <2>2. \A i \in Framed(log) : i \in D /\ log[i] \in FramesOf(state)
    BY <1>1, <1>3, <1>7, RecordsByKind DEF Framed
  <2>3. \A f \in state.pending : Frame(f) \in RecordsOf(state)
    BY DEF FramesOf, RecordsOf
  <2>4. \A f \in state.pending : \E i \in Framed(log) : log[i] = Frame(f)
    BY <1>4, <1>7, <2>1, <2>3 DEF Framed
  <2> QED BY <2>1, <2>2, <2>4
<1>13. Outbox(log) = state.pending
  <2>1. At(log, {"Retired"}) = {}
    BY <1>1, <1>3, <1>7, RecordsByKind
  <2>2. \A i, k \in Framed(log) : log[i].frame.sequence = log[k].frame.sequence => i = k
    <3> SUFFICES ASSUME NEW i \in Framed(log), NEW k \in Framed(log),
                        log[i].frame.sequence = log[k].frame.sequence
                 PROVE  i = k
      OBVIOUS
    <3>1. PICK f \in state.pending : log[i] = Frame(f)
      BY <1>12 DEF FramesOf
    <3>2. PICK g \in state.pending : log[k] = Frame(g)
      BY <1>12 DEF FramesOf
    <3>3. f = g
      BY <1>12, <3>1, <3>2 DEF Well
    <3> QED BY <1>5, <1>12, <3>1, <3>2, <3>3
  <2>3. \A i \in Framed(log) : i \in Int
    BY <1>12 DEF D
  <2>4. Outstanding(log) = Framed(log)
    BY <2>1, <2>2, <2>3 DEF Outstanding
  <2> QED BY <1>12, <2>4 DEF Outbox, FramesOf
<1>14. NextSequence(log) = state.next_sequence
  <2> DEFINE S == {0} \cup {log[i].next : i \in At(log, {"Sequence"})}
                      \cup {log[i].frame.sequence + 1 : i \in Framed(log)}
             n == state.next_sequence
  <2>1. n \in Nat
    BY <1>1 DEF State
  <2>2. Sequence(n).kind = "Sequence" /\ Sequence(n).next = n
    BY DEF Sequence
  <2>3. \A i \in At(log, {"Sequence"}) : log[i].next = n
    BY <1>1, <1>3, <1>7, <2>2, RecordsByKind
  <2>4. PICK i \in D : log[i] = Sequence(n)
    BY <1>4 DEF RecordsOf
  <2>5. n \in S
    BY <1>7, <2>2, <2>3, <2>4
  <2>6. \A k \in Framed(log) : log[k].frame.sequence + 1 \in Int /\ log[k].frame.sequence + 1 <= n
    <3> SUFFICES ASSUME NEW k \in Framed(log)
                 PROVE  log[k].frame.sequence + 1 \in Int /\ log[k].frame.sequence + 1 <= n
      OBVIOUS
    <3>1. PICK f \in state.pending : log[k] = Frame(f)
      BY <1>12 DEF FramesOf
    <3>2. f.sequence \in Nat /\ f.sequence < n
      BY <1>1 DEF Well, State, Frames
    <3>3. log[k].frame = f
      BY <1>12, <3>1
    <3> QED BY <2>1, <3>2, <3>3
  <2>7. S \in SUBSET Int /\ \A y \in S : n >= y
    BY <2>1, <2>3, <2>6
  <2> HIDE DEF S, n
  <2> QED BY <2>5, <2>7, MaxIs DEF NextSequence, S, n
<1>15. \A a \in Authors : FirstWitnessed(log, a) = state.witnessed[a]
  <2> SUFFICES ASSUME NEW a \in Authors PROVE FirstWitnessed(log, a) = state.witnessed[a]
    OBVIOUS
  <2> DEFINE W == WitnessesOf(log, a)
  <2>1. \A b : /\ Witnessed(b, state.witnessed[b]).kind = "Witnessed"
               /\ Witnessed(b, state.witnessed[b]).author = b
               /\ Witnessed(b, state.witnessed[b]).bytes = state.witnessed[b]
    BY DEF Witnessed
  <2>2. \A i \in W : state.witnessed[a] # None /\ log[i].bytes = state.witnessed[a]
    BY <1>1, <1>3, <1>7, <2>1, RecordsByKind DEF WitnessedOf, WitnessesOf
  <2>3. CASE state.witnessed[a] = None
    BY <2>2, <2>3 DEF FirstWitnessed
  <2>4. CASE state.witnessed[a] # None
    <3>1. PICK i \in D : log[i] = Witnessed(a, state.witnessed[a])
      BY <1>4, <2>4 DEF WitnessedOf, RecordsOf
    <3>2. i \in W
      BY <1>7, <2>1, <3>1 DEF WitnessesOf
    <3>3. W \in SUBSET Int /\ IsFiniteSet(W)
      BY <1>2, WitnessOfLog
    <3>4. Min(W) \in W
      <4> HIDE DEF W
      <4> QED BY <3>2, <3>3, MinOf
    <3> QED BY <2>2, <3>2, <3>4 DEF FirstWitnessed
  <2> QED BY <2>3, <2>4
<1>16. /\ [s \in Senders |-> LastSeen(log, s)] = state.seen
       /\ [a \in Authors |-> FirstWitnessed(log, a)] = state.witnessed
  BY <1>1, <1>10, <1>15 DEF State
<1>17. Replayed(log) = Made(state.epoch, state.seen, state.locks, state.pending,
                            state.next_sequence, state.witnessed)
  BY <1>8, <1>11, <1>13, <1>14, <1>16 DEF Replayed, Made
<1>18. state = Made(state.epoch, state.seen, state.locks, state.pending,
                    state.next_sequence, state.witnessed)
  BY <1>1 DEF State, Made
<1> QED BY <1>2, <1>17, <1>18

----------------------------------------------------------------------------
(* What a restart may find.                                                *)

\* Of a file of whole records: what a prefix amounts to, at least the flushed
\* one, read back whole or up to a damaged record.
LEMMA SoundSurvivors ==
    ASSUME NEW file, Sound(file)
    PROVE  /\ \A n \in file.synced .. Len(file.recs) :
                /\ SubSeq(file.recs, 1, n) \in Seq(Entry)
                /\ SubSeq(file.recs, 1, n) \in Survivors(file)
                /\ replay(SubSeq(file.recs, 1, n)) = Replayed(SubSeq(file.recs, 1, n))
           /\ \A recs \in Survivors(file) :
                /\ \E n \in file.synced .. Len(file.recs) :
                     replay(recs) = Replayed(SubSeq(file.recs, 1, n))
                /\ recs \in Seq(Entry \cup {Torn})
                /\ LET cut == [recs |-> recs, synced |-> Len(recs)]
                   IN  Sound(cut) \/ Damaged(cut)
<1> DEFINE N == file.synced .. Len(file.recs)
           kept(n) == SubSeq(file.recs, 1, n)
<1>1. file.recs \in Seq(Entry) /\ Len(file.recs) \in Nat /\ file.synced \in Nat
  BY DEF Sound
<1>2. \A n \in N : kept(n) \in Seq(Entry) /\ Len(kept(n)) = n /\ n \in Nat
  BY <1>1
<1>3. \A n \in N : replay(kept(n)) = Replayed(kept(n))
  <2> HIDE DEF kept, N
  <2> QED BY <1>2, WholeLog
<1>4. \A recs : recs \in Survivors(file) <=>
          \E n \in N : recs = kept(n) \/ (n < Len(file.recs) /\ recs = Append(kept(n), Torn))
  BY DEF Survivors
<1>5. ASSUME NEW recs \in Survivors(file)
      PROVE  /\ \E n \in N : replay(recs) = Replayed(kept(n))
             /\ recs \in Seq(Entry \cup {Torn})
             /\ LET cut == [recs |-> recs, synced |-> Len(recs)]
                IN  Sound(cut) \/ Damaged(cut)
  <2> HIDE DEF kept, N
  <2>1. PICK n \in N : recs = kept(n) \/ recs = Append(kept(n), Torn)
    BY <1>4
  <2> DEFINE log == kept(n)
             cut == [recs |-> recs, synced |-> Len(recs)]
  <2>2. log \in Seq(Entry) /\ Len(log) = n /\ n \in Nat /\ log \in Seq(Entry \cup {Torn})
    BY <1>2
  <2>3. cut.recs = recs /\ cut.synced = Len(recs)
    OBVIOUS
  <2> HIDE DEF log, cut
  <2>4. CASE recs = log
    <3>1. replay(recs) = Replayed(kept(n))
      BY <1>3, <2>4 DEF log
    <3>2. Sound(cut)
      BY <2>2, <2>3, <2>4 DEF Sound
    <3> QED BY <2>2, <2>4, <3>1, <3>2 DEF cut
  <2>5. CASE recs = Append(log, Torn)
    <3>1. /\ recs \in Seq(Entry \cup {Torn}) /\ Len(recs) = Len(log) + 1
          /\ \A i \in 1 .. Len(log) : recs[i] = log[i]
          /\ recs[Len(recs)] = Torn
      BY <2>2, <2>5
    <3>2. replay(recs) = Replayed(log)
      BY <2>2, <3>1, DamagedLog
    <3>3. SubSeq(recs, 1, Len(recs) - 1) = log /\ recs # <<>>
      BY <2>2, <2>5, <3>1
    <3>4. Damaged(cut)
      BY <2>2, <2>3, <3>1, <3>3 DEF Damaged
    <3> QED BY <3>1, <3>2, <3>4 DEF log, cut
  <2> QED BY <2>1, <2>4, <2>5 DEF log
<1> QED BY <1>2, <1>3, <1>4, <1>5

\* Of a file that a power cut damaged: what was before the damage.
LEMMA DamagedSurvivors ==
    ASSUME NEW file, Damaged(file), file.recs \in Seq(Entry \cup {Torn})
    PROVE  /\ Survivors(file) = {file.recs}
           /\ Whole(file.recs) = SubSeq(file.recs, 1, Len(file.recs) - 1)
           /\ replay(file.recs) = Replayed(Whole(file.recs))
           /\ Whole(file.recs) \in Seq(Entry)
           /\ Whole(file.recs) # file.recs
<1> DEFINE recs == file.recs
           log == SubSeq(recs, 1, Len(recs) - 1)
<1>1. /\ recs \in Seq(Entry \cup {Torn}) /\ recs # <<>> /\ recs[Len(recs)] = Torn
      /\ log \in Seq(Entry) /\ file.synced = Len(recs)
  BY DEF Damaged
<1>2. Len(recs) \in Nat /\ Len(recs) # 0
  BY <1>1
<1>3. Len(recs) = Len(log) + 1 /\ \A i \in 1 .. Len(log) : recs[i] = log[i]
  BY <1>1, <1>2
<1> HIDE DEF log
<1>4. Whole(recs) = log /\ replay(recs) = Replayed(log)
  BY <1>1, <1>3, DamagedLog
<1>5. log # recs
  BY <1>2, <1>3
<1>6. SubSeq(recs, 1, Len(recs)) = recs
  BY <1>1
<1>7. \A n \in Len(recs) .. Len(recs) : n = Len(recs)
  BY <1>2
<1>8. Len(recs) \in Len(recs) .. Len(recs) /\ ~(Len(recs) < Len(recs))
  BY <1>2
<1>9. Survivors(file) = {recs}
  BY <1>1, <1>6, <1>7, <1>8 DEF Survivors
<1> QED BY <1>1, <1>4, <1>5, <1>9 DEF log

----------------------------------------------------------------------------
(* What a record does to the promises.                                     *)

\* State::apply, field by field, for the records a mutator writes.
LEMMA ApplyFields ==
    ASSUME NEW s \in State, NEW e \in Entry
    PROVE  /\ e.kind = "Vote" =>
                /\ apply(s, e).locks = s.locks \cup {e.key}
                /\ apply(s, e).pending = InsertFrame(s.pending, e.frame)
                /\ apply(s, e).next_sequence = Larger(s.next_sequence, e.frame.sequence + 1)
           /\ e.kind = "Sequence" =>
                /\ apply(s, e).next_sequence = Larger(s.next_sequence, e.next)
                /\ apply(s, e).locks = s.locks
                /\ apply(s, e).pending = s.pending
           /\ e.kind = "Retired" =>
                /\ apply(s, e).next_sequence = s.next_sequence
                /\ apply(s, e).locks = s.locks
                /\ apply(s, e).pending = RemoveFrame(s.pending, e.sequence)
           /\ e.kind \in {"Witnessed", "Epoch", "Seen"} =>
                /\ apply(s, e).next_sequence = s.next_sequence
                /\ apply(s, e).locks = s.locks
                /\ apply(s, e).pending = s.pending
<1>1. CASE e.kind = "Vote"
  <2> DEFINE L == [s EXCEPT !.locks = @ \cup {e.key}]
  <2>1. /\ L.locks = s.locks \cup {e.key} /\ L.pending = s.pending
        /\ L.next_sequence = s.next_sequence /\ L \in [DOMAIN s -> {L[x] : x \in DOMAIN s}]
        /\ DOMAIN L = {"epoch", "seen", "locks", "pending", "next_sequence", "witnessed"}
    BY DEF State
  <2>2. apply(s, e) = add_frame(L, e.frame)
    BY <1>1 DEF apply
  <2> HIDE DEF L
  <2>3. /\ add_frame(L, e.frame).locks = L.locks
        /\ add_frame(L, e.frame).pending = InsertFrame(L.pending, e.frame)
        /\ add_frame(L, e.frame).next_sequence = Larger(L.next_sequence, e.frame.sequence + 1)
    BY <2>1 DEF add_frame
  <2> QED BY <1>1, <2>1, <2>2, <2>3
<1>2. CASE e.kind = "Sequence"
  BY <1>2 DEF apply, State
<1>3. CASE e.kind = "Retired"
  BY <1>3 DEF apply, State
<1>4. CASE e.kind \in {"Witnessed", "Epoch", "Seen"}
  BY <1>4 DEF apply, State
<1> QED BY <1>1, <1>2, <1>3, <1>4

\* No record takes the counter back.
LEMMA CounterGrows ==
    ASSUME NEW s \in State, NEW e \in Entry,
           e.kind \in {"Vote", "Sequence", "Retired", "Witnessed", "Epoch", "Seen"}
    PROVE  /\ s.next_sequence \in Nat /\ apply(s, e).next_sequence \in Nat
           /\ s.next_sequence <= apply(s, e).next_sequence
<1> DEFINE n == s.next_sequence
           n2 == apply(s, e).next_sequence
<1>1. n \in Nat
  BY DEF State
<1>2. CASE e.kind = "Vote"
  <2>1. e.frame.sequence \in Nat /\ n2 = Larger(n, e.frame.sequence + 1)
    BY <1>2, ApplyFields, EntryFields
  <2> HIDE DEF n, n2
  <2>2. n2 \in Nat /\ n <= n2
    BY <1>1, <2>1 DEF Larger
  <2> QED BY <1>1, <2>2 DEF n, n2
<1>3. CASE e.kind = "Sequence"
  <2>1. e.next \in Nat /\ n2 = Larger(n, e.next)
    BY <1>3, ApplyFields, EntryFields
  <2> HIDE DEF n, n2
  <2>2. n2 \in Nat /\ n <= n2
    BY <1>1, <2>1 DEF Larger
  <2> QED BY <1>1, <2>2 DEF n, n2
<1>4. CASE e.kind \notin {"Vote", "Sequence"}
  <2>1. n2 = n
    BY <1>4, ApplyFields
  <2> HIDE DEF n, n2
  <2>2. n2 \in Nat /\ n <= n2
    BY <1>1, <2>1
  <2> QED BY <1>1, <2>2 DEF n, n2
<1> QED BY <1>2, <1>3, <1>4

\* A record a mutator writes breaks no promise: the frame of a vote is under a
\* sequence nothing promised uses, and a frame is retired only once asked.
LEMMA KeepsLonger ==
    ASSUME NEW s, Well(s), NEW e \in Entry, Keeps(s), LogTypes,
           e.kind \in {"Vote", "Sequence", "Retired", "Witnessed", "Epoch", "Seen"},
           e.kind = "Vote" => /\ e.frame.sequence \notin acknowledged
                              /\ \A f \in votes : f.sequence # e.frame.sequence,
           e.kind = "Retired" => e.sequence \in asked
    PROVE  Keeps(apply(s, e))
<1> DEFINE a == apply(s, e)
           n == s.next_sequence
           n2 == a.next_sequence
<1>1. s \in State /\ n \in Nat
  BY DEF Well, State
<1>2. n2 \in Int /\ n <= n2
  BY <1>1, CounterGrows
<1>3. s.locks \subseteq a.locks
  BY <1>1, ApplyFields
<1>4. \A f \in votes : f \in s.pending /\ f \notin a.pending => f.sequence \in asked
  BY <1>1, ApplyFields DEF InsertFrame, RemoveFrame
<1>5. \A f \in a.pending : f \in s.pending \/ f.sequence \notin acknowledged
  BY <1>1, ApplyFields DEF InsertFrame, RemoveFrame
<1>6. \A f \in votes : f.sequence \in Nat
  BY DEF LogTypes, Frames
<1>7. /\ \A k \in DOMAIN handed : handed[k] \in Nat
      /\ \A k \in acknowledged : k \in Nat
  BY DEF LogTypes
<1>8. /\ \A k \in DOMAIN handed : handed[k] < n
      /\ \A f \in votes : f.vote \in s.locks /\ f.sequence < n /\ (f \in s.pending \/ f.sequence \in asked)
      /\ \A f \in s.pending : f.sequence \notin acknowledged
      /\ \A k \in acknowledged : k < n
  BY DEF Keeps
<1> HIDE DEF n
<1>9. /\ \A k \in DOMAIN handed : handed[k] < n2
      /\ \A f \in votes : f.sequence < n2
      /\ \A k \in acknowledged : k < n2
  <2> HIDE DEF n2
  <2> QED BY <1>1, <1>2, <1>6, <1>7, <1>8
<1>10. /\ \A f \in votes : f.vote \in a.locks /\ (f \in a.pending \/ f.sequence \in asked)
       /\ \A f \in a.pending : f.sequence \notin acknowledged
  BY <1>3, <1>4, <1>5, <1>8
<1> HIDE DEF a
<1> QED BY <1>9, <1>10 DEF Keeps, a

\* The update a mutator makes by hand is the one replay makes of its record.
LEMMA SettleIsApply ==
    ASSUME live \in State, NEW e \in Entry, Called(e)
    PROVE  Settle(e) = apply(live, e)
<1>1. e.kind \in {"Vote", "Sequence", "Retired", "Witnessed", "Epoch", "Seen"}
  BY DEF Called, Sequence
<1>2. CASE e.kind = "Vote"
  <2> DEFINE l == live.locks \cup {e.key}
             p == InsertFrame(live.pending, e.frame)
             n == Larger(live.next_sequence, e.frame.sequence + 1)
             L == [live EXCEPT !.locks = l]
  <2>1. live = Made(live.epoch, live.seen, live.locks, live.pending, live.next_sequence, live.witnessed)
    BY DEF State, Made
  <2>2. Settle(e) = WithVoteSettled(live, l, p, n)
    BY <1>2 DEF Settle, WithVoteSettled
  <2>3. apply(live, e) = add_frame(L, e.frame)
    BY <1>2 DEF apply
  <2>4. L.pending = live.pending /\ L.next_sequence = live.next_sequence
    BY DEF State
  <2>5. add_frame(L, e.frame) = WithOutbox(L, p, n)
    <3> HIDE DEF L
    <3> QED BY <2>4 DEF add_frame, WithOutbox
  <2>6. WithOutbox(L, p, n) = WithVote(live, l, p, n)
    <3> HIDE DEF l, p, n
    <3> QED BY DEF WithOutbox, WithVote
  <2> HIDE DEF l, p, n, L
  <2> QED BY <2>1, <2>2, <2>3, <2>5, <2>6, Updates
<1>3. CASE e.kind = "Sequence"
  <2>1. e.next = Larger(live.next_sequence, e.next)
    <3>1. live.next_sequence \in Nat /\ e.next \in Nat
      BY <1>3, EntryFields DEF State
    <3>2. live.next_sequence = 0 \/ e.next = live.next_sequence + 1
      BY <1>3 DEF Called, Sequence
    <3> QED BY <3>1, <3>2 DEF Larger
  <2> QED BY <1>3, <2>1 DEF Settle, apply
<1>4. CASE e.kind = "Retired"
  BY <1>4 DEF Settle, apply
<1>5. CASE e.kind = "Witnessed"
  <2>1. e.author \in Authors /\ live.witnessed[e.author] = None
    BY <1>5 DEF Called, Sequence
  <2> QED BY <1>5, <2>1 DEF Settle, apply
<1>6. CASE e.kind = "Epoch"
  <2>1. e.epoch \in Nat /\ live.epoch \in Int /\ live.epoch < e.epoch
    <3>1. live.epoch \in Int
      <4>1. live.epoch \in Epochs \cup {None}
        BY DEF State
      <4>2. Epochs \subseteq Nat
        BY JournalConstants
      <4>3. CASE live.epoch \in Epochs
        <5>1. live.epoch \in Nat
          BY <4>2, <4>3, Zenon
        <5> QED BY <5>1
      <4>4. CASE live.epoch = None
        BY <4>4 DEF None
      <4> QED BY <4>1, <4>3, <4>4
    <3>2. live.epoch < e.epoch
      BY <1>6 DEF Called, Sequence
    <3> QED BY <1>6, <3>1, <3>2, EntryFields
  <2>2. e.epoch > live.epoch /\ Larger(live.epoch, e.epoch) = e.epoch
    BY <2>1 DEF Larger
  <2> QED BY <1>6, <2>2 DEF Settle, apply
<1>7. CASE e.kind = "Seen"
  <2>1. e.sender \in Senders /\ live.seen[e.sender] < e.sequence
    BY <1>7 DEF Called, Sequence
  <2>2. live.seen[e.sender] \in Int /\ e.sequence \in Nat
    BY <1>7, <2>1, EntryFields DEF State, None
  <2>3. Larger(live.seen[e.sender], e.sequence) = e.sequence
    BY <2>1, <2>2 DEF Larger
  <2> QED BY <1>7, <2>3 DEF Settle, apply
<1> QED BY <1>1, <1>2, <1>3, <1>4, <1>5, <1>6, <1>7

\* While the process runs, its state is well-formed and keeps the promises.
LEMMA LiveKeeps ==
    ASSUME LogInv, phase # "down"
    PROVE  Well(live) /\ Keeps(live)
BY DEF LogInv, Tracks

\* What the file of the handle amounts to is a state a crash may leave.
LEMMA HandleFound ==
    ASSUME LogInv, phase # "down"
    PROVE  LET found == Replayed(files[handle].recs)
           IN  Well(found) /\ Keeps(found) /\ found.next_sequence \in Nat
<1> DEFINE file == files[handle]
<1>1. handle \in dirOnDisk /\ Sound(file)
  BY DEF LogInv, Placed, LogTypes
<1> HIDE DEF file
<1>2. /\ file.recs \in Seq(Entry) /\ Len(file.recs) \in file.synced .. Len(file.recs)
      /\ SubSeq(file.recs, 1, Len(file.recs)) = file.recs
  BY <1>1 DEF Sound
<1>3. file.recs \in Survivors(file) /\ Replayed(file.recs) = replay(file.recs)
  BY <1>1, <1>2, SoundSurvivors
<1>4. Replayed(file.recs) \in Recoveries
  BY <1>1, <1>3 DEF Recoveries, file
<1>5. Keeps(Replayed(file.recs))
  BY <1>4 DEF LogInv
<1>6. Well(Replayed(file.recs))
  BY <1>2, ReplayedIsWell
<1> QED BY <1>5, <1>6 DEF Well, State, file

\* One more record, and the state is as well-formed as before.
LEMMA WellAgain ==
    ASSUME Well(live), NEW e \in Entry
    PROVE  Well(apply(live, e))
<1>c. PICK c : c = CompactedEntries
  OBVIOUS
<1>1. c \in Seq(Entry) /\ Replayed(c) = live
  BY <1>c, CompactedLists, ReplayListed
<1>2. Append(c, e) \in Seq(Entry) /\ Longer(c, e, Append(c, e))
  BY <1>1, AppendIsLonger
<1>3. Replayed(Append(c, e)) = apply(live, e)
  BY <1>1, <1>2, ReplayedLonger
<1> QED BY <1>2, <1>3, ReplayedIsWell

\* Once its record is durable, whatever is found shows what it did.
LEMMA SettledFound ==
    ASSUME LogInv, phase \in {"settled", "renamed"}, job.entry # <<>>, NEW found \in Recoveries
    PROVE  Shows(found) /\ Well(found)
<1>0. PICK i \in dirOnDisk : \E recs \in Survivors(files[i]) : found = replay(recs)
  BY DEF Recoveries
<1>1. PICK recs \in Survivors(files[i]) : found = replay(recs)
  BY <1>0
<1>2. Sound(files[i]) /\ files[i].synced = Len(files[i].recs)
  BY DEF LogInv, Placed, Tracks
<1> DEFINE file == files[i]
<1> HIDE DEF file
<1>3. PICK n \in file.synced .. Len(file.recs) : replay(recs) = Replayed(SubSeq(file.recs, 1, n))
  BY <1>1, <1>2, SoundSurvivors DEF file
<1>4. file.recs \in Seq(Entry) /\ n = Len(file.recs)
  BY <1>2, <1>3 DEF Sound, file
<1>5. SubSeq(file.recs, 1, n) = file.recs
  BY <1>4
<1>6. found = Replayed(file.recs) /\ Well(found)
  BY <1>1, <1>3, <1>4, <1>5, ReplayedIsWell
<1>7. CASE i = handle
  BY <1>6, <1>7 DEF LogInv, Tracks, file
<1>8. CASE i # handle
  <2>1. phase = "renamed" /\ i = dir
    BY <1>8 DEF LogInv, Placed
  <2>2. found = live /\ live.next_sequence \in Nat
    BY <1>6, <2>1 DEF LogInv, Tracks, file, Well, State
  <2>3. Effected(job.entry[1])
    BY DEF LogInv, JobMatches
  <2>4. live.next_sequence <= live.next_sequence
    BY <2>2
  <2> QED BY <1>6, <2>2, <2>3, <2>4 DEF Shows, Effected
<1> QED BY <1>7, <1>8

----------------------------------------------------------------------------
(* The invariant: the steps that touch no file.                            *)

\* A file system whose writes are whole or refused, whose flushes may fail, and
\* whose failed rewrites leave the log as it was.
WholeFaults == Faults \subseteq {"refused", "unsynced", "no-rewrite"}

\* What a restart has to keep does not grow in a step that answers nobody.
LEMMA SamePromises ==
    ASSUME UNCHANGED <<handed, votes, acknowledged>>, asked \subseteq asked', NEW found, Keeps(found)
    PROVE  Keeps(found)'
BY DEF Keeps

\* The same of the state in memory.
LEMMA SameLive ==
    ASSUME UNCHANGED <<live, handed, votes, acknowledged>>, asked \subseteq asked', Keeps(live)
    PROVE  Keeps(live)'
BY DEF Keeps

\* What a restart may find depends on the files alone.
LEMMA SameFound ==
    ASSUME UNCHANGED <<files, dirOnDisk>>
    PROVE  Recoveries' = Recoveries
BY DEF Recoveries

\* A new, empty log satisfies the invariant.
LEMMA InitInv ==
    ASSUME Init
    PROVE  LogInv
<1>1. FirstInode \in Inodes
  BY LogConstants DEF FirstInode
<1> DEFINE file == EmptyFile
<1>2. file.recs = <<>> /\ file.synced = 0 /\ file.recs \in Seq(Entry) /\ Len(file.recs) = 0
  BY DEF EmptyFile
<1>3. Sound(file)
  BY <1>2 DEF Sound
<1>4. files[FirstInode] = file /\ dir = FirstInode /\ dirOnDisk = {FirstInode}
  BY <1>1 DEF Init
<1>5. LogTypes
  <2>1. file \in [recs : Seq(Entry \cup {Torn}), synced : Nat]
    BY DEF EmptyFile
  <2>2. files \in [Inodes -> [recs : Seq(Entry \cup {Torn}), synced : Nat]]
    BY <2>1 DEF Init
  <2>3. job \in [op : Mutators \cup {"none", "compact"}, entry : Seq(Entry), todo : SUBSET Nat]
    BY DEF Init, NoJob
  <2>4. job.todo = {}
    BY DEF Init, NoJob
  <2>5. IsFiniteSet(job.todo)
    BY <2>4, FS_EmptySet
  <2> QED BY <1>1, <2>2, <2>3, <2>5 DEF Init, LogTypes
<1>6. Placed
  BY <1>3, <1>4 DEF Init, Placed
<1>7. Tracks
  BY DEF Init, Tracks
<1>8. \A found : Keeps(found)
  BY DEF Init, Keeps
<1>9. JobMatches
  BY DEF Init, JobMatches, NoJob
<1>10. InHandFresh
  BY DEF Init, InHandFresh
<1> QED BY <1>5, <1>6, <1>7, <1>8, <1>9, <1>10 DEF LogInv, Init, OneVotePerCase

\* Calling a mutator.
LEMMA StartStep ==
    ASSUME LogInv, NEW op \in Mutators \ {"drop_expired"}, NEW e \in Entry, Start(op, e),
           asked \subseteq asked', asked' \subseteq Nat, Called(e)'
    PROVE  LogInv'
<1> USE DEF Start
<1>0. /\ phase = "idle" /\ phase' = "append"
      /\ job' = [op |-> op, entry |-> <<e>>, todo |-> {}]
      /\ UNCHANGED <<files, dir, dirOnDisk, handle, live, size, crashes, faults,
                     handed, inHand, votes, acknowledged, exposed>>
  OBVIOUS
<1>1. /\ job'.op = op /\ job'.entry = <<e>> /\ job'.entry[1] = e /\ Len(job'.entry) = 1
      /\ job'.todo = {} /\ <<e>> \in Seq(Entry)
  BY <1>0
<1>2. LogTypes'
  <2>1. job' \in [op : Mutators \cup {"none", "compact"}, entry : Seq(Entry), todo : SUBSET Nat]
    BY <1>0, <1>1
  <2>2. IsFiniteSet(job'.todo)
    BY <1>1, FS_EmptySet
  <2> QED BY <1>0, <2>1, <2>2 DEF LogInv, LogTypes
<1>3. Placed'
  BY <1>0 DEF LogInv, Placed
<1>4. Tracks'
  <2>1. Well(live) /\ Keeps(live) /\ live.next_sequence <= Replayed(files[handle].recs).next_sequence
    BY <1>0 DEF LogInv, Tracks
  <2>2. Keeps(live)'
    BY <1>0, <2>1, SameLive
  <2> QED BY <1>0, <2>1, <2>2 DEF Tracks
<1>5. \A found \in Recoveries' : Keeps(found)'
  BY <1>0, SameFound, SamePromises DEF LogInv
<1>6. JobMatches'
  BY <1>0, <1>1 DEF JobMatches, Called
<1>7. InHandFresh'
  BY <1>0 DEF LogInv, InHandFresh
<1>8. OneVotePerCase' /\ \A i, j \in DOMAIN handed' : i < j => handed'[i] < handed'[j]
  BY <1>0 DEF LogInv, OneVotePerCase
<1> QED BY <1>2, <1>3, <1>4, <1>5, <1>6, <1>7, <1>8 DEF LogInv

\* Each mutator writes the record its guard allows.
LEMMA CallsInv ==
    ASSUME LogInv,
           \/ \E key \in Keys, sequence \in inHand, expires_at \in Expiries :
                   commit_vote(key, sequence, expires_at)
           \/ reserve_sequence
           \/ \E f \in live.pending : acknowledge(f.sequence)
           \/ \E author \in Authors, frame \in 0 .. MaxSequence : witness(author, frame)
           \/ \E epoch \in Epochs : enter_epoch(epoch)
           \/ \E sender \in Senders, sequence \in 0 .. MaxSequence : mark_seen(sender, sequence)
    PROVE  LogInv'
<1>0. phase = "idle"
  BY DEF commit_vote, reserve_sequence, acknowledge, witness, enter_epoch, mark_seen, Start
<1>1. Well(live) /\ live \in State /\ live.pending \in SUBSET Frames /\ live.next_sequence \in Nat
  BY <1>0, LiveKeeps DEF Well, State
<1>2. inHand \in SUBSET Nat /\ asked \in SUBSET Nat
  BY DEF LogInv, LogTypes
<1>3. ASSUME NEW op \in Mutators \ {"drop_expired"}, NEW e \in Entry, Start(op, e)
      PROVE  /\ job'.op = op
             /\ UNCHANGED <<live, inHand>>
  BY <1>3 DEF Start
<1>4. ASSUME NEW key \in Keys, NEW sequence \in inHand, NEW expires_at \in Expiries,
             commit_vote(key, sequence, expires_at)
      PROVE  LogInv'
  <2> DEFINE f == OutgoingFrame(sequence, key, expires_at)
             e == Vote(key, f)
  <2>1. f \in Frames /\ f.vote = key /\ f.sequence = sequence
    BY <1>2 DEF OutgoingFrame, Frames
  <2>2. e \in [kind : {"Vote"}, key : Keys, frame : Frames] /\ e.frame = f /\ e.key = key
    BY <2>1 DEF Vote
  <2>3. e \in Entry
    BY <2>2 DEF Entry
  <2> HIDE DEF e, f
  <2>4. Start("commit_vote", e) /\ key \notin live.locks /\ asked' = asked
    BY <1>4 DEF commit_vote, e, f
  <2>5. job'.op = "commit_vote" /\ UNCHANGED <<live, inHand>>
    BY <1>3, <2>3, <2>4 DEF Mutators
  <2>6. Called(e)'
    BY <2>1, <2>2, <2>4, <2>5 DEF Called
  <2> QED BY <1>2, <2>3, <2>4, <2>6, StartStep DEF Mutators
<1>5. ASSUME reserve_sequence
      PROVE  LogInv'
  <2>0. PICK e : e = Sequence(live.next_sequence + 1)
    OBVIOUS
  <2>1. e \in Entry
    BY <1>1, <2>0 DEF Sequence, Entry
  <2>2. Start("reserve_sequence", e) /\ asked' = asked
    BY <1>5, <2>0 DEF reserve_sequence
  <2>3. job'.op = "reserve_sequence" /\ UNCHANGED <<live, inHand>>
    BY <1>3, <2>1, <2>2 DEF Mutators
  <2>4. Called(e)'
    BY <2>0, <2>3 DEF Called
  <2> QED BY <1>2, <2>1, <2>2, <2>4, StartStep DEF Mutators
<1>6. ASSUME NEW f \in live.pending, acknowledge(f.sequence)
      PROVE  LogInv'
  <2> DEFINE n == f.sequence
             e == Retired(n)
  <2>1. n \in Nat /\ n < live.next_sequence
    BY <1>1 DEF Well, Frames
  <2>2. n \notin inHand
    BY <1>0 DEF LogInv, InHandFresh
  <2> HIDE DEF n
  <2>3. e \in Entry /\ e.sequence = n
    BY <2>1 DEF Retired, Entry
  <2>4. \A T : n \in T => e \in [kind : {"Retired"}, sequence : T]
    BY DEF Retired
  <2> HIDE DEF e
  <2>5. Start("acknowledge", e) /\ asked' = asked \cup {n}
    BY <1>6 DEF acknowledge, e, n
  <2>6. job'.op = "acknowledge" /\ UNCHANGED <<live, inHand>>
    BY <1>3, <2>3, <2>5 DEF Mutators
  <2>7. Called(e)'
    <3>1. e \in [kind : {"Retired"}, sequence : asked']
      BY <2>4, <2>5
    <3> QED BY <2>1, <2>2, <2>3, <2>6, <3>1 DEF Called
  <2>8. asked \subseteq asked' /\ asked' \subseteq Nat
    BY <1>2, <2>1, <2>5
  <2> QED BY <2>3, <2>5, <2>7, <2>8, StartStep DEF Mutators
<1>7. ASSUME NEW author \in Authors, NEW frame \in 0 .. MaxSequence, witness(author, frame)
      PROVE  LogInv'
  <2> DEFINE e == Witnessed(author, frame)
  <2>1. e \in [kind : {"Witnessed"}, author : Authors, bytes : Nat] /\ e.author = author
    BY JournalConstants DEF Witnessed
  <2>2. e \in Entry
    BY <2>1 DEF Entry
  <2> HIDE DEF e
  <2>3. Start("witness", e) /\ live.witnessed[author] = None /\ asked' = asked
    BY <1>7 DEF witness, e
  <2>4. job'.op = "witness" /\ UNCHANGED <<live, inHand>>
    BY <1>3, <2>2, <2>3 DEF Mutators
  <2>5. Called(e)'
    BY <2>1, <2>3, <2>4 DEF Called
  <2> QED BY <1>2, <2>2, <2>3, <2>5, StartStep DEF Mutators
<1>8. ASSUME NEW epoch \in Epochs, enter_epoch(epoch)
      PROVE  LogInv'
  <2> DEFINE e == Epoch(epoch)
  <2>1. e \in [kind : {"Epoch"}, epoch : Epochs] /\ e.epoch = epoch
    BY DEF Epoch
  <2>2. e \in Entry
    BY <2>1 DEF Entry
  <2> HIDE DEF e
  <2>3. Start("enter_epoch", e) /\ live.epoch < epoch /\ asked' = asked
    BY <1>8 DEF enter_epoch, e
  <2>4. job'.op = "enter_epoch" /\ UNCHANGED <<live, inHand>>
    BY <1>3, <2>2, <2>3 DEF Mutators
  <2>5. Called(e)'
    BY <2>1, <2>3, <2>4 DEF Called
  <2> QED BY <1>2, <2>2, <2>3, <2>5, StartStep DEF Mutators
<1>9. ASSUME NEW sender \in Senders, NEW sequence \in 0 .. MaxSequence, mark_seen(sender, sequence)
      PROVE  LogInv'
  <2> DEFINE e == Seen(sender, sequence)
  <2>1. e \in [kind : {"Seen"}, sender : Senders, sequence : Nat] /\ e.sender = sender
        /\ e.sequence = sequence
    BY JournalConstants DEF Seen
  <2>2. e \in Entry
    BY <2>1 DEF Entry
  <2> HIDE DEF e
  <2>3. Start("mark_seen", e) /\ live.seen[sender] < sequence /\ asked' = asked
    BY <1>9 DEF mark_seen, e
  <2>4. job'.op = "mark_seen" /\ UNCHANGED <<live, inHand>>
    BY <1>3, <2>2, <2>3 DEF Mutators
  <2>5. Called(e)'
    BY <2>1, <2>3, <2>4 DEF Called
  <2> QED BY <1>2, <2>2, <2>3, <2>5, StartStep DEF Mutators
<1> QED BY <1>4, <1>5, <1>6, <1>7, <1>8, <1>9

Jobs == [op : Mutators \cup {"none", "compact"}, entry : Seq(Entry), todo : SUBSET Nat]

\* A step in memory: the file, the live state and what the caller knows stay.
LEMMA QuietStep ==
    ASSUME LogInv,
           UNCHANGED <<files, dir, dirOnDisk, handle, live, handed, inHand, votes, acknowledged>>,
           asked \subseteq asked', asked' \subseteq Nat,
           phase \in {"idle", "sweep", "append", "written"},
           phase' \in {"idle", "sweep", "append", "settled"},
           phase' = "settled" => job'.entry = <<>>,
           job' \in Jobs, IsFiniteSet(job'.todo), JobMatches'
    PROVE  LogInv'
<1>1. LogTypes'
  BY DEF LogInv, LogTypes, Jobs
<1>2. Placed'
  BY DEF LogInv, Placed
<1>3. Tracks'
  <2>1. Well(live) /\ Keeps(live) /\ live.next_sequence <= Replayed(files[handle].recs).next_sequence
    BY DEF LogInv, Tracks
  <2>2. Keeps(live)'
    BY <2>1, SameLive
  <2> QED BY <2>1, <2>2 DEF Tracks
<1>4. \A found \in Recoveries' : Keeps(found)'
  BY SameFound, SamePromises DEF LogInv
<1>5. InHandFresh'
  BY DEF LogInv, InHandFresh
<1>6. OneVotePerCase' /\ \A i, j \in DOMAIN handed' : i < j => handed'[i] < handed'[j]
  BY DEF LogInv, OneVotePerCase
<1> QED BY <1>1, <1>2, <1>3, <1>4, <1>5, <1>6 DEF LogInv

\* No mutator is running.
LEMMA NoJobFacts ==
    /\ NoJob \in Jobs /\ NoJob.op = "none" /\ NoJob.entry = <<>> /\ NoJob.todo = {}
    /\ IsFiniteSet(NoJob.todo)
<1>1. NoJob \in Jobs /\ NoJob.op = "none" /\ NoJob.entry = <<>> /\ NoJob.todo = {}
  BY DEF NoJob, Jobs
<1> QED BY <1>1, FS_EmptySet

\* A sweep between two frames.
LEMMA EntryCleared ==
    ASSUME NEW j \in Jobs, NEW k, k = [j EXCEPT !.entry = <<>>]
    PROVE  k \in Jobs /\ k.op = j.op /\ k.entry = <<>> /\ k.todo = j.todo
<1> DEFINE none == <<>>
<1>1. none \in Seq(Entry)
  OBVIOUS
<1>2. k = [j EXCEPT !.entry = none]
  OBVIOUS
<1> HIDE DEF none
<1>3. k \in Jobs /\ k.op = j.op /\ k.entry = none /\ k.todo = j.todo
  BY <1>1, <1>2 DEF Jobs
<1> QED BY <1>3 DEF none

\* drop_expired collects frames whose sequences are in no hand.
LEMMA DropInv ==
    ASSUME LogInv, NEW now \in Times, drop_expired(now)
    PROVE  LogInv'
<1> DEFINE X == Expired(now)
           T == {f.sequence : f \in X}
           g == [f \in X |-> f.sequence]
<1>0. /\ phase = "idle" /\ phase' = "sweep"
      /\ job' = [op |-> "drop_expired", entry |-> <<>>, todo |-> T]
      /\ UNCHANGED <<files, dir, dirOnDisk, handle, live, handed, inHand, votes, acknowledged, asked>>
  BY DEF drop_expired, client
<1>1. Well(live) /\ live.pending \in SUBSET Frames
  BY <1>0, LiveKeeps DEF Well, State
<1>2. X \in SUBSET live.pending
  BY DEF Expired
<1>3. IsFiniteSet(T)
  <2>1. IsFiniteSet(X)
    BY <1>1, <1>2, FS_Subset DEF Well
  <2>2. T = {g[f] : f \in X}
    OBVIOUS
  <2> HIDE DEF X, g
  <2> QED BY <2>1, <2>2, FiniteMapped
<1>4. \A f \in live.pending : f.sequence \in Nat /\ f.sequence < live.next_sequence /\ f.sequence \notin inHand
  <2>1. \A f \in live.pending : f.sequence \in Nat /\ f.sequence < live.next_sequence
    BY <1>1 DEF Well, Frames
  <2>2. \A f \in live.pending : f.sequence \notin inHand
    BY <1>0 DEF LogInv, InHandFresh
  <2> QED BY <2>1, <2>2
<1>5. T \in SUBSET Nat /\ \A n \in T : n < live.next_sequence /\ n \notin inHand
  BY <1>2, <1>4
<1> HIDE DEF T
<1>6. job' \in Jobs /\ job'.op = "drop_expired" /\ job'.entry = <<>> /\ job'.todo = T
  BY <1>0, <1>5 DEF Jobs, Mutators
<1>7. JobMatches'
  BY <1>0, <1>5, <1>6 DEF JobMatches
<1>8. asked \subseteq asked' /\ asked' \subseteq Nat
  BY <1>0 DEF LogInv, LogTypes
<1> QED BY <1>0, <1>3, <1>6, <1>7, <1>8, QuietStep

\* A sweep retires the lowest sequence it has left.
LEMMA SweepInv ==
    ASSUME LogInv, sweep_next
    PROVE  LogInv'
<1>0. /\ phase = "sweep" /\ job.op = "drop_expired" /\ job.entry = <<>>
      /\ UNCHANGED <<files, dir, dirOnDisk, handle, live, handed, inHand, votes, acknowledged>>
  BY DEF sweep_next, LogInv, JobMatches
<1>1. job \in Jobs /\ IsFiniteSet(job.todo) /\ job.todo \in SUBSET Nat /\ asked \in SUBSET Nat
  BY DEF LogInv, LogTypes, Jobs
<1>2. \A n \in job.todo : n < live.next_sequence /\ n \notin inHand
  BY DEF LogInv, JobMatches
<1>3. CASE job.todo = {}
  <2>1. phase' = "settled" /\ job' = job /\ asked' = asked
    BY <1>3 DEF sweep_next
  <2>2. JobMatches'
    BY <1>0, <1>3, <2>1 DEF JobMatches
  <2> QED BY <1>0, <1>1, <2>1, <2>2, QuietStep
<1>4. CASE job.todo # {}
  <2>0. PICK n : n = Min(job.todo)
    OBVIOUS
  <2>1. n \in job.todo /\ n \in Nat /\ n < live.next_sequence /\ n \notin inHand
    BY <1>1, <1>2, <1>4, <2>0, MinOf
  <2>2. /\ phase' = "append" /\ asked' = asked \cup {n}
        /\ job' = [job EXCEPT !.entry = <<Retired(n)>>, !.todo = job.todo \ {n}]
    BY <1>4, <2>0 DEF sweep_next
  <2> DEFINE e == Retired(n)
             T == job.todo \ {n}
  <2>3. e \in Entry /\ e.sequence = n /\ <<e>> \in Seq(Entry) /\ Len(<<e>>) = 1 /\ <<e>>[1] = e
    BY <2>1 DEF Retired, Entry
  <2>4. e \in [kind : {"Retired"}, sequence : asked']
    BY <2>2 DEF Retired
  <2>5. IsFiniteSet(T) /\ T \in SUBSET Nat /\ T \subseteq job.todo
    BY <1>1, FS_Subset
  <2> HIDE DEF e, T
  <2>6. job' = [job EXCEPT !.entry = <<e>>, !.todo = T]
    BY <2>2 DEF e, T
  <2>7. job' \in Jobs /\ job'.op = "drop_expired" /\ job'.entry = <<e>> /\ job'.todo = T
    BY <1>0, <1>1, <2>3, <2>5, <2>6 DEF Jobs, Mutators
  <2>8. Called(job.entry[1])'
    BY <1>0, <2>1, <2>3, <2>4, <2>7 DEF Called
  <2>9. JobMatches'
    BY <1>0, <1>2, <2>2, <2>3, <2>5, <2>7, <2>8 DEF JobMatches
  <2>10. asked \subseteq asked' /\ asked' \subseteq Nat
    BY <1>1, <2>1, <2>2
  <2> QED BY <1>0, <2>2, <2>5, <2>7, <2>9, <2>10, QuietStep
<1> QED BY <1>3, <1>4

\* Reading the outbox, and asking for a compaction.
LEMMA IdleInv ==
    ASSUME LogInv, pending \/ compact_now
    PROVE  LogInv'
<1>0. phase = "idle" /\ asked' = asked /\ asked \subseteq Nat /\ job = NoJob
  BY DEF pending, compact_now, client, LogInv, LogTypes, JobMatches
<1>1. CASE pending
  <2>1. JobMatches'
    BY <1>0, <1>1, NoJobFacts DEF pending, JobMatches
  <2> QED BY <1>0, <1>1, <2>1, NoJobFacts, QuietStep DEF pending
<1>2. CASE compact_now
  <2>1. /\ job' = [op |-> "compact", entry |-> <<>>, todo |-> {}] /\ phase' = "settled"
        /\ UNCHANGED <<files, dir, dirOnDisk, handle, live, handed, inHand, votes, acknowledged>>
    BY <1>2 DEF compact_now, client
  <2>2. job' \in Jobs /\ job'.op = "compact" /\ job'.entry = <<>> /\ job'.todo = {}
    BY <2>1 DEF Jobs
  <2>3. IsFiniteSet(job'.todo)
    BY <2>2, FS_EmptySet
  <2>4. JobMatches'
    BY <2>1, <2>2 DEF JobMatches
  <2> QED BY <1>0, <2>1, <2>2, <2>3, <2>4, QuietStep
<1> QED BY <1>1, <1>2

\* The write is refused, or the record is written and cannot be flushed: the
\* caller is told the same (NotDurable), and memory stays as it was.
LEMMA RefusedInv ==
    ASSUME LogInv, WholeFaults, write_fails \/ sync_fails
    PROVE  LogInv'
<1>0. /\ phase \in {"append", "written"} /\ NotDurable
      /\ UNCHANGED <<files, dir, dirOnDisk, handle, live, handed, inHand, votes, acknowledged, asked>>
  BY DEF write_fails, sync_fails, Fault, WholeFaults
<1>1. job \in Jobs /\ IsFiniteSet(job.todo) /\ job.todo \in SUBSET Nat /\ asked \in SUBSET Nat
  BY DEF LogInv, LogTypes, Jobs
<1>2. \A n \in job.todo : n < live.next_sequence /\ n \notin inHand
  BY DEF LogInv, JobMatches
<1>3. CASE job.op = "drop_expired"
  <2>1. phase' = "sweep" /\ job' = [job EXCEPT !.entry = <<>>]
    BY <1>0, <1>3 DEF NotDurable
  <2>2. job' \in Jobs /\ job'.op = "drop_expired" /\ job'.entry = <<>> /\ job'.todo = job.todo
    BY <1>1, <1>3, <2>1, EntryCleared
  <2>3. JobMatches'
    BY <1>0, <1>2, <2>1, <2>2 DEF JobMatches
  <2> QED BY <1>0, <1>1, <2>1, <2>2, <2>3, QuietStep
<1>4. CASE job.op \notin {"drop_expired", "open_with_entropy"}
  <2>1. phase' = "idle" /\ job' = NoJob
    BY <1>0, <1>4 DEF NotDurable
  <2>2. JobMatches'
    BY <2>1, NoJobFacts DEF JobMatches
  <2> QED BY <1>0, <1>1, <2>1, <2>2, NoJobFacts, QuietStep
<1>5. CASE job.op = "open_with_entropy"
  <2>1. phase' = "down" /\ job' = NoJob
    BY <1>0, <1>5 DEF NotDurable
  <2>2. inHand = {}
    BY <1>0, <1>5 DEF LogInv, JobMatches, Called
  <2>3. LogTypes'
    BY <1>0, <2>1, NoJobFacts DEF LogInv, LogTypes, Jobs
  <2>4. Placed'
    BY <1>0, <2>1 DEF LogInv, Placed
  <2>5. Tracks'
    BY <2>1 DEF Tracks
  <2>6. \A found \in Recoveries' : Keeps(found)'
    BY <1>0, SameFound, SamePromises DEF LogInv
  <2>7. JobMatches'
    BY <2>1, NoJobFacts DEF JobMatches
  <2>8. InHandFresh'
    BY <1>0, <2>2 DEF InHandFresh
  <2>9. OneVotePerCase' /\ \A i, j \in DOMAIN handed' : i < j => handed'[i] < handed'[j]
    BY <1>0 DEF LogInv, OneVotePerCase
  <2> QED BY <2>3, <2>4, <2>5, <2>6, <2>7, <2>8, <2>9 DEF LogInv
<1> QED BY <1>3, <1>4, <1>5

----------------------------------------------------------------------------
(* The invariant: the record.                                              *)

\* What Called says of the record's kind, its type and its sequence.
LEMMA CalledFacts ==
    ASSUME LogInv, NEW e \in Entry, Called(e)
    PROVE  /\ e.kind \in {"Vote", "Sequence", "Retired", "Witnessed", "Epoch", "Seen"}
           /\ e.kind = "Vote" => /\ e.frame.sequence \notin acknowledged
                                 /\ \A f \in votes : f.sequence # e.frame.sequence
           /\ e.kind = "Retired" => e.sequence \in asked
<1>1. e.kind \in {"Vote", "Sequence", "Retired", "Witnessed", "Epoch", "Seen"}
  BY DEF Called, Sequence
<1>2. e.kind = "Vote" => e.frame.sequence \in inHand
  BY DEF Called, Sequence
<1>3. e.kind = "Retired" => e.sequence \in asked
  BY DEF Called, Sequence
<1> QED BY <1>1, <1>2, <1>3 DEF LogInv, InHandFresh

\* The record is in the file and not yet flushed (try_append, write_all).
LEMMA WriteInv ==
    ASSUME LogInv, write_all
    PROVE  LogInv'
<1> DEFINE file == files[handle]
           recs == file.recs
           e == job.entry[1]
           recs2 == recs \o job.entry
           file2 == files'[handle]
<1>0. /\ phase = "append" /\ phase' = "written"
      /\ files' = [files EXCEPT ![handle].recs = recs2]
      /\ UNCHANGED <<dir, dirOnDisk, handle, live, job, handed, inHand, votes, acknowledged, asked>>
  BY DEF write_all, Write, client
<1>1. Len(job.entry) = 1 /\ Called(e) /\ job.entry \in Seq(Entry) /\ e \in Entry
  <2>1. Len(job.entry) = 1 /\ Called(e) /\ job.entry \in Seq(Entry)
    BY <1>0 DEF LogInv, JobMatches, LogTypes
  <2> QED BY <2>1
<1>2. /\ handle \in Inodes /\ handle = dir /\ dirOnDisk = {handle} /\ Sound(file)
      /\ files \in [Inodes -> [recs : Seq(Entry \cup {Torn}), synced : Nat]]
  BY <1>0 DEF LogInv, LogTypes, Placed, Tracks
<1>3. recs \in Seq(Entry) /\ Len(recs) \in Nat /\ file.synced \in Nat /\ file.synced <= Len(recs)
  BY <1>2 DEF Sound
<1>4. recs2 \in Seq(Entry) /\ Longer(recs, e, recs2)
  <2> HIDE DEF recs
  <2> QED BY <1>1, <1>3, ConcatIsLonger
<1>5. file2.recs = recs2 /\ file2.synced = file.synced
  BY <1>0, <1>2
<1>6. Len(recs2) = Len(recs) + 1 /\ recs2[Len(recs) + 1] = e
  BY <1>4 DEF Longer
<1>7. \A n \in 0 .. Len(recs) : SubSeq(recs2, 1, n) = SubSeq(recs, 1, n)
  <2> HIDE DEF recs2
  <2> QED BY <1>3, <1>4 DEF Longer
<1>8. job.entry = <<recs2[Len(recs2)]>>
  BY <1>1, <1>3, <1>6
<1>9. recs2 \in Seq(Entry \cup {Torn})
  BY <1>4
<1>10. files' \in [Inodes -> [recs : Seq(Entry \cup {Torn}), synced : Nat]]
  <2> HIDE DEF recs2
  <2> QED BY <1>0, <1>2, <1>9
<1> HIDE DEF recs2, file2, file, recs, e
<1>h. /\ Well(Replayed(recs)) /\ Keeps(Replayed(recs))
      /\ Well(live) /\ Keeps(live) /\ live.next_sequence <= Replayed(recs).next_sequence
  BY <1>0, HandleFound DEF recs, file, LogInv, Tracks
<1>11. Replayed(recs2) = apply(Replayed(recs), e)
  BY <1>1, <1>3, <1>4, ReplayedLonger
<1>12. Sound(file2)
  BY <1>3, <1>4, <1>5, <1>6 DEF Sound
<1>13. LogTypes'
  BY <1>0, <1>10 DEF LogInv, LogTypes
<1>14. Placed'
  BY <1>0, <1>2, <1>12 DEF Placed, file2
<1>15. Tracks'
  <2>1. live.next_sequence <= Replayed(recs2).next_sequence
    <3> DEFINE a == live.next_sequence
               b == Replayed(recs).next_sequence
               c == Replayed(recs2).next_sequence
    <3>1. a \in Nat /\ b \in Nat /\ a <= b /\ Replayed(recs) \in State
      BY <1>h DEF Well, State
    <3>2. c \in Nat /\ b <= c
      BY <1>1, <1>11, <3>1, CalledFacts, CounterGrows
    <3> HIDE DEF a, b, c
    <3>3. a <= c
      BY <3>1, <3>2
    <3> QED BY <3>3 DEF a, c
  <2>2. file2.synced < Len(file2.recs)
    BY <1>3, <1>5, <1>6
  <2>3. Keeps(live)'
    BY <1>0, <1>h, SameLive
  <2> QED BY <1>0, <1>5, <1>8, <1>h, <2>1, <2>2, <2>3 DEF Tracks, file2
<1>16. ASSUME NEW found \in Recoveries'
       PROVE  Keeps(found)
  <2>1. PICK r \in Survivors(file2) : found = replay(r)
    BY <1>0, <1>2 DEF Recoveries, file2
  <2>2. PICK n \in file2.synced .. Len(file2.recs) : found = Replayed(SubSeq(file2.recs, 1, n))
    BY <1>12, <2>1, SoundSurvivors
  <2>3. n \in Nat /\ file.synced <= n /\ n <= Len(recs) + 1 /\ found = Replayed(SubSeq(recs2, 1, n))
    BY <1>3, <1>5, <1>6, <2>2
  <2>4. CASE n <= Len(recs)
    <3>1. n \in 0 .. Len(recs) /\ n \in file.synced .. Len(file.recs)
      BY <1>3, <2>3, <2>4 DEF recs
    <3>2. found = Replayed(SubSeq(file.recs, 1, n))
      BY <1>7, <2>3, <3>1 DEF recs
    <3>3. SubSeq(file.recs, 1, n) \in Survivors(file) /\ found = replay(SubSeq(file.recs, 1, n))
      BY <1>2, <3>1, <3>2, SoundSurvivors
    <3>4. found \in Recoveries
      BY <1>2, <3>3 DEF Recoveries, file
    <3> QED BY <3>4 DEF LogInv
  <2>5. CASE n = Len(recs) + 1
    <3>1. SubSeq(recs2, 1, n) = recs2
      BY <1>4, <1>6, <2>5
    <3>2. found = apply(Replayed(recs), e)
      BY <1>11, <2>3, <3>1
    <3> QED BY <1>1, <1>h, <3>2, CalledFacts, KeepsLonger DEF LogInv
  <2> QED BY <1>3, <2>3, <2>4, <2>5
<1>17. \A found \in Recoveries' : Keeps(found)'
  BY <1>0, <1>16, SamePromises
<1>18. JobMatches'
  BY <1>0 DEF LogInv, JobMatches, Called
<1>19. InHandFresh'
  BY <1>0 DEF LogInv, InHandFresh
<1>20. OneVotePerCase' /\ \A i, j \in DOMAIN handed' : i < j => handed'[i] < handed'[j]
  BY <1>0 DEF LogInv, OneVotePerCase
<1> QED BY <1>13, <1>14, <1>15, <1>17, <1>18, <1>19, <1>20 DEF LogInv

\* What the flushed record has done to the live state.
LEMMA SettledEffect ==
    ASSUME LogInv, Well(live), Keeps(live), NEW e \in Entry, Called(e),
           NEW l, l = apply(live, e), Well(l)
    PROVE  /\ live.next_sequence <= l.next_sequence
           /\ job.op = "reserve_sequence" =>
                /\ e \in [kind : {"Sequence"}, next : Nat \ {0}]
                /\ e.next = l.next_sequence
                /\ \A n \in DOMAIN handed : handed[n] < e.next - 1
                /\ \A n \in acknowledged : n < e.next - 1
                /\ \A f \in votes \cup l.pending : f.sequence < e.next - 1
           /\ job.op = "commit_vote" =>
                /\ e.frame \in l.pending
                /\ e.key \in l.locks
                /\ \A f \in votes : f.vote # e.key
                /\ \A f \in l.pending : f \in live.pending \/ f = e.frame
           /\ job.op # "commit_vote" => l.pending \subseteq live.pending
           /\ job.op = "acknowledge" => \A f \in l.pending : f.sequence # e.sequence
<1> DEFINE n == live.next_sequence
           n2 == l.next_sequence
<1>1. live \in State /\ n \in Nat /\ n2 \in Nat /\ live.pending \in SUBSET Frames
  BY DEF Well, State
<1>2. CASE job.op = "reserve_sequence"
  <2>1. e = Sequence(n + 1)
    BY <1>2 DEF Called
  <2>2. e.kind = "Sequence" /\ e.next = n + 1 /\ e \in [kind : {"Sequence"}, next : Nat \ {0}]
    BY <1>1, <2>1 DEF Sequence
  <2>3. n2 = Larger(n, e.next) /\ l.pending = live.pending
    BY <1>1, <2>2, ApplyFields
  <2>4. /\ \A k \in DOMAIN handed : handed[k] < n
        /\ \A k \in acknowledged : k < n
        /\ \A f \in votes \cup live.pending : f.sequence < n
    BY DEF Keeps, Well
  <2> HIDE DEF n, n2
  <2>5. n2 = e.next /\ e.next - 1 = n /\ n <= n2
    BY <1>1, <2>2, <2>3 DEF Larger
  <2> QED BY <1>2, <2>2, <2>3, <2>4, <2>5 DEF n, n2
<1>3. CASE job.op = "commit_vote"
  <2>1. e.kind = "Vote" /\ e.key \notin live.locks
    BY <1>3 DEF Called
  <2>2. /\ l.locks = live.locks \cup {e.key} /\ l.pending = InsertFrame(live.pending, e.frame)
        /\ n2 = Larger(n, e.frame.sequence + 1) /\ e.frame.sequence \in Nat
    BY <1>1, <2>1, ApplyFields, EntryFields
  <2>3. \A f \in votes : f.vote \in live.locks
    BY DEF Keeps
  <2>4. n <= n2
    <3> HIDE DEF n, n2
    <3> QED BY <1>1, <2>2 DEF Larger
  <2> QED BY <1>3, <2>1, <2>2, <2>3, <2>4 DEF InsertFrame
<1>4. CASE job.op = "open_with_entropy"
  <2>1. e.kind = "Sequence"
    BY <1>4 DEF Called
  <2>2. n2 = Larger(n, e.next) /\ l.pending = live.pending /\ e.next \in Nat
    BY <1>1, <2>1, ApplyFields, EntryFields
  <2>3. n <= n2
    <3> HIDE DEF n, n2
    <3> QED BY <1>1, <2>2 DEF Larger
  <2> QED BY <1>4, <2>2, <2>3
<1>5. CASE job.op \in {"acknowledge", "drop_expired"}
  <2>1. e.kind = "Retired"
    BY <1>5 DEF Called
  <2>2. n2 = n /\ l.pending = RemoveFrame(live.pending, e.sequence)
    BY <1>1, <2>1, ApplyFields
  <2> QED BY <1>1, <1>5, <2>2 DEF RemoveFrame
<1>6. CASE job.op \in {"witness", "enter_epoch", "mark_seen"}
  <2>1. e.kind \in {"Witnessed", "Epoch", "Seen"}
    BY <1>6 DEF Called
  <2>2. n2 = n /\ l.pending = live.pending
    BY <1>1, <2>1, ApplyFields
  <2> QED BY <1>1, <1>6, <2>2
<1> QED BY <1>2, <1>3, <1>4, <1>5, <1>6 DEF Called

\* What the flushed record shows in a log, whatever was in the log before it.
LEMMA LoggedEffect ==
    ASSUME NEW s \in State, live \in State, NEW e \in Entry, Called(e),
           NEW l, l = apply(live, e), NEW t, t = apply(s, e),
           live.next_sequence <= t.next_sequence
    PROVE  /\ l.next_sequence <= t.next_sequence
           /\ job.op = "commit_vote" => e.key \in t.locks /\ e.frame \in t.pending
           /\ job.op = "acknowledge" => \A f \in t.pending : f.sequence # e.sequence
<1> DEFINE a == live.next_sequence
           b == s.next_sequence
           c == l.next_sequence
           d == t.next_sequence
<1>0. e.kind \in {"Vote", "Sequence", "Retired", "Witnessed", "Epoch", "Seen"}
  BY DEF Called, Sequence
<1>1. a \in Nat /\ b \in Nat /\ c \in Nat /\ d \in Nat /\ a <= d
  BY <1>0, CounterGrows
<1>2. c <= d
  <2>1. CASE e.kind = "Vote"
    <3>1. /\ e.frame.sequence \in Nat /\ c = Larger(a, e.frame.sequence + 1)
          /\ d = Larger(b, e.frame.sequence + 1)
      BY <2>1, ApplyFields, EntryFields
    <3> HIDE DEF a, b, c, d
    <3> QED BY <1>1, <3>1 DEF Larger
  <2>2. CASE e.kind = "Sequence"
    <3>1. e.next \in Nat /\ c = Larger(a, e.next) /\ d = Larger(b, e.next)
      BY <2>2, ApplyFields, EntryFields
    <3> HIDE DEF a, b, c, d
    <3> QED BY <1>1, <3>1 DEF Larger
  <2>3. CASE e.kind \notin {"Vote", "Sequence"}
    <3>1. c = a
      BY <1>0, <2>3, ApplyFields
    <3> QED BY <1>1, <3>1
  <2> QED BY <2>1, <2>2, <2>3
<1>3. job.op = "commit_vote" => e.key \in t.locks /\ e.frame \in t.pending
  <2> HAVE job.op = "commit_vote"
  <2>1. e.kind = "Vote"
    BY DEF Called
  <2> QED BY <2>1, ApplyFields DEF InsertFrame
<1>4. job.op = "acknowledge" => \A f \in t.pending : f.sequence # e.sequence
  <2> HAVE job.op = "acknowledge"
  <2>1. e.kind = "Retired"
    BY DEF Called
  <2> QED BY <2>1, ApplyFields DEF RemoveFrame
<1> QED BY <1>2, <1>3, <1>4

\* The record is flushed and memory follows it (try_append, sync_all).
LEMMA SyncInv ==
    ASSUME LogInv, sync_all
    PROVE  LogInv'
<1> DEFINE file == files[handle]
           recs == file.recs
           log == SubSeq(recs, 1, Len(recs) - 1)
           file2 == files'[handle]
<1>e. PICK e : e = job.entry[1]
  OBVIOUS
<1>0. /\ phase = "written" /\ phase' = "settled"
      /\ files' = [files EXCEPT ![handle].synced = Len(recs)]
      /\ live' = Settle(e)
      /\ UNCHANGED <<dir, dirOnDisk, handle, job, handed, inHand, votes, acknowledged, asked>>
  BY <1>e DEF sync_all, client
<1>1. Len(job.entry) = 1 /\ Called(e) /\ job.entry \in Seq(Entry) /\ e \in Entry
  <2>1. Len(job.entry) = 1 /\ Called(e) /\ job.entry \in Seq(Entry)
    BY <1>0, <1>e DEF LogInv, JobMatches, LogTypes
  <2> QED BY <1>e, <2>1
<1>2. /\ handle \in Inodes /\ handle = dir /\ dirOnDisk = {handle} /\ Sound(file)
      /\ job.entry = <<recs[Len(recs)]>> /\ file.synced < Len(recs)
      /\ live.next_sequence <= Replayed(recs).next_sequence
      /\ files \in [Inodes -> [recs : Seq(Entry \cup {Torn}), synced : Nat]]
  BY <1>0 DEF LogInv, LogTypes, Placed, Tracks
<1>3. recs \in Seq(Entry) /\ Len(recs) \in Nat /\ file.synced \in Nat /\ Len(recs) # 0
  BY <1>2 DEF Sound
<1>4. log \in Seq(Entry) /\ Longer(log, e, recs)
  <2>1. e = recs[Len(recs)]
    BY <1>2, <1>e
  <2>2. log \in Seq(Entry) /\ Len(log) + 1 = Len(recs) /\ \A i \in 1 .. Len(log) : recs[i] = log[i]
    BY <1>3
  <2> HIDE DEF log, recs
  <2> QED BY <2>1, <2>2 DEF Longer
<1>5. file2.recs = recs /\ file2.synced = Len(recs)
  BY <1>0, <1>2
<1>6. files' \in [Inodes -> [recs : Seq(Entry \cup {Torn}), synced : Nat]]
  <2> DEFINE m == Len(recs)
  <2>1. m \in Nat /\ files' = [files EXCEPT ![handle].synced = m]
    BY <1>0, <1>3
  <2> HIDE DEF m
  <2> QED BY <1>2, <2>1
<1> HIDE DEF log, recs, file, file2
<1>7. Well(live) /\ Keeps(live)
  BY <1>0, LiveKeeps
<1>8. live' = apply(live, e)
  BY <1>0, <1>1, <1>7, SettleIsApply DEF Well
<1>9. Replayed(recs) = apply(Replayed(log), e)
  BY <1>1, <1>3, <1>4, ReplayedLonger
<1>10. Well(live')
  BY <1>1, <1>7, <1>8, WellAgain
<1>k. Keeps(live)'
  <2>0. PICK l : l = apply(live, e)
    OBVIOUS
  <2>1. Keeps(l)
    BY <1>1, <1>7, <2>0, CalledFacts, KeepsLonger DEF LogInv
  <2> QED BY <1>0, <1>8, <2>0, <2>1 DEF Keeps
<1>s. /\ live'.next_sequence <= Replayed(recs).next_sequence
      /\ job.op = "commit_vote" => e.key \in Replayed(recs).locks /\ e.frame \in Replayed(recs).pending
      /\ job.op = "acknowledge" => \A f \in Replayed(recs).pending : f.sequence # e.sequence
  <2>0. PICK l, t : l = live' /\ t = Replayed(recs)
    OBVIOUS
  <2>1. Replayed(log) \in State
    BY <1>4, ReplayedIsWell DEF Well
  <2>2. /\ l.next_sequence <= t.next_sequence
        /\ job.op = "commit_vote" => e.key \in t.locks /\ e.frame \in t.pending
        /\ job.op = "acknowledge" => \A f \in t.pending : f.sequence # e.sequence
    BY <1>1, <1>2, <1>7, <1>8, <1>9, <2>0, <2>1, LoggedEffect DEF Well
  <2> QED BY <2>0, <2>2
<1>11. Sound(file2)
  BY <1>3, <1>5 DEF Sound
<1>12. LogTypes'
  BY <1>0, <1>6 DEF LogInv, LogTypes
<1>13. Placed'
  BY <1>0, <1>2, <1>11 DEF Placed, file2
<1>14. Tracks'
  <2>1. Shows(Replayed(files[handle].recs))'
    BY <1>0, <1>5, <1>e, <1>s DEF Shows, file2
  <2>2. \A i \in dirOnDisk' : files'[i].synced = Len(files'[i].recs)
    BY <1>0, <1>2, <1>5 DEF file2
  <2> QED BY <1>0, <1>5, <1>10, <1>k, <1>s, <2>1, <2>2 DEF Tracks, file2
<1>15. ASSUME NEW found \in Recoveries'
       PROVE  found \in Recoveries
  <2>1. PICK r \in Survivors(file2) : found = replay(r)
    BY <1>0, <1>2 DEF Recoveries, file2
  <2>2. PICK n \in file2.synced .. Len(file2.recs) : found = Replayed(SubSeq(file2.recs, 1, n))
    BY <1>11, <2>1, SoundSurvivors
  <2>3. n \in file.synced .. Len(file.recs) /\ found = Replayed(SubSeq(file.recs, 1, n))
    BY <1>2, <1>3, <1>5, <2>2 DEF recs
  <2>4. SubSeq(file.recs, 1, n) \in Survivors(file) /\ found = replay(SubSeq(file.recs, 1, n))
    BY <1>2, <2>3, SoundSurvivors
  <2> QED BY <1>2, <2>4 DEF Recoveries, file
<1>16. \A found \in Recoveries' : Keeps(found)'
  BY <1>0, <1>15, SamePromises DEF LogInv
<1> DEFINE l == live'
<1>17. /\ live.next_sequence <= l.next_sequence
       /\ job.op = "reserve_sequence" =>
            /\ e \in [kind : {"Sequence"}, next : Nat \ {0}]
            /\ e.next = l.next_sequence
            /\ \A n \in DOMAIN handed : handed[n] < e.next - 1
            /\ \A n \in acknowledged : n < e.next - 1
            /\ \A f \in votes \cup l.pending : f.sequence < e.next - 1
       /\ job.op = "commit_vote" =>
            /\ e.frame \in l.pending
            /\ e.key \in l.locks
            /\ \A f \in votes : f.vote # e.key
            /\ \A f \in l.pending : f \in live.pending \/ f = e.frame
       /\ job.op # "commit_vote" => l.pending \subseteq live.pending
       /\ job.op = "acknowledge" => \A f \in l.pending : f.sequence # e.sequence
  <2> HIDE DEF l
  <2>1. l = apply(live, e) /\ Well(l)
    BY <1>8, <1>10 DEF l
  <2> QED BY <1>1, <1>7, <2>1, SettledEffect
<1>18. live.next_sequence \in Nat /\ live'.next_sequence \in Nat /\ inHand \subseteq Nat /\ job.todo \subseteq Nat
  BY <1>7, <1>10 DEF Well, State, LogInv, LogTypes
<1>19. \A n \in Nat : n < live.next_sequence => n < live'.next_sequence
  <2> DEFINE a == live.next_sequence
             b == live'.next_sequence
  <2>1. a \in Nat /\ b \in Nat /\ a <= b
    BY <1>17, <1>18
  <2> HIDE DEF a, b
  <2>2. \A n \in Nat : n < a => n < b
    BY <2>1
  <2> QED BY <2>2 DEF a, b
<1>20. Effected(job.entry[1])'
  <2>1. job'.entry[1] = e /\ job'.op = job.op /\ UNCHANGED <<handed, inHand, votes, acknowledged>>
    BY <1>0, <1>e
  <2>2. job.op = "commit_vote" =>
            /\ e \in [kind : {"Vote"}, key : Keys, frame : Frames]
            /\ e.frame.vote = e.key
            /\ e.frame.sequence \in inHand
    BY <1>1 DEF Called
  <2>3. job.op = "acknowledge" =>
            /\ e \in [kind : {"Retired"}, sequence : Nat]
            /\ e.sequence < live'.next_sequence
            /\ e.sequence \notin inHand
    <3>1. job.op = "acknowledge" =>
            /\ e.kind = "Retired" /\ e \in [kind : {"Retired"}, sequence : asked]
            /\ e.sequence < live.next_sequence
            /\ e.sequence \notin inHand
      BY <1>1 DEF Called
    <3>2. job.op = "acknowledge" => e.sequence \in Nat /\ e \in [kind : {"Retired"}, sequence : Nat]
      BY <3>1 DEF LogInv, LogTypes
    <3> QED BY <1>19, <3>1, <3>2
  <2> QED BY <1>17, <2>1, <2>2, <2>3 DEF Effected
<1>21. JobMatches'
  <2>1. job.op \in Mutators /\ job.entry # <<>>
    BY <1>1 DEF Called, Mutators
  <2>2. \A n \in job.todo : n < live'.next_sequence /\ n \notin inHand
    BY <1>18, <1>19 DEF LogInv, JobMatches
  <2>3. job.op = "drop_expired" \/ job.todo = {}
    BY DEF LogInv, JobMatches
  <2> QED BY <1>0, <1>1, <1>20, <2>1, <2>2, <2>3 DEF JobMatches
<1>22. InHandFresh'
  <2>1. \A n \in inHand :
          /\ n < live'.next_sequence
          /\ n \notin acknowledged
          /\ \A f \in votes : f.sequence # n
          /\ \A f \in live.pending : f.sequence # n
    BY <1>0, <1>18, <1>19 DEF LogInv, InHandFresh
  <2>2. \A f \in live'.pending : f \in live.pending \/ (job.op = "commit_vote" /\ f = job.entry[1].frame)
    BY <1>17, <1>e
  <2> QED BY <1>0, <2>1, <2>2 DEF InHandFresh
<1>23. OneVotePerCase' /\ \A i, j \in DOMAIN handed' : i < j => handed'[i] < handed'[j]
  BY <1>0 DEF LogInv, OneVotePerCase
<1> QED BY <1>12, <1>13, <1>14, <1>16, <1>21, <1>22, <1>23 DEF LogInv

----------------------------------------------------------------------------
(* The invariant: the return to the caller.                                *)

\* What the caller is told holds in memory and in every state a crash may leave,
\* since each of them shows it.
LEMMA ReturnFacts ==
    ASSUME LogInv, phase \in {"settled", "renamed"}, Return, live' = live
    PROVE  /\ handed' \in Seq(Nat) /\ inHand' \subseteq Nat /\ votes' \subseteq Frames
           /\ acknowledged' \subseteq Nat /\ asked' = asked
           /\ phase' \in {"sweep", "idle"} /\ job' \in Jobs /\ IsFiniteSet(job'.todo)
           /\ JobMatches' /\ InHandFresh' /\ OneVotePerCase'
           /\ \A i, j \in DOMAIN handed' : i < j => handed'[i] < handed'[j]
           /\ \A found \in Recoveries : Keeps(found)'
           /\ Keeps(live)'
<1>0. /\ handed \in Seq(Nat) /\ inHand \in SUBSET Nat /\ votes \in SUBSET Frames
      /\ acknowledged \in SUBSET Nat /\ asked' = asked /\ job \in Jobs /\ IsFiniteSet(job.todo)
  BY DEF LogInv, LogTypes, Jobs, Return
<1>1. /\ Well(live) /\ Keeps(live) /\ live.next_sequence \in Nat
      /\ \A f \in live.pending : f.sequence \in Nat /\ f.sequence < live.next_sequence
  <2>1. Well(live) /\ Keeps(live)
    BY LiveKeeps
  <2> QED BY <2>1 DEF Well, State, Frames
<1>2. /\ \A found \in Recoveries : Keeps(found)
      /\ InHandFresh /\ OneVotePerCase /\ JobMatches
      /\ \A i, j \in DOMAIN handed : i < j => handed[i] < handed[j]
  BY DEF LogInv
<1>3. job.entry # <<>> => /\ Effected(job.entry[1]) /\ job.op \in Mutators
                          /\ \A found \in Recoveries : Shows(found) /\ Well(found)
  BY SettledFound DEF LogInv, JobMatches
<1>l. PICK l : l = live
  OBVIOUS
<1>a. job.entry # <<>> => Shows(l)
  <2> HAVE job.entry # <<>>
  <2>1. Effected(job.entry[1]) /\ l.next_sequence <= l.next_sequence
    BY <1>1, <1>3, <1>l
  <2> QED BY <1>l, <2>1 DEF Shows, Effected
<1>b. Keeps(l)' => Keeps(live)'
  BY <1>l DEF Keeps
<1>4. job.entry = <<>> => job.op \in {"compact", "drop_expired"}
  BY <1>2 DEF JobMatches
<1>5. CASE Sweeping
  <2>1. /\ phase' = "sweep" /\ job' = [job EXCEPT !.entry = <<>>] /\ job.op = "drop_expired"
        /\ UNCHANGED <<handed, inHand, votes, acknowledged>>
    BY <1>5 DEF Return, Sweeping
  <2>2. job' \in Jobs /\ job'.op = "drop_expired" /\ job'.entry = <<>> /\ job'.todo = job.todo
    BY <1>0, <2>1, EntryCleared
  <2>3. JobMatches'
    BY <1>2, <2>1, <2>2 DEF JobMatches
  <2>4. InHandFresh' /\ OneVotePerCase'
    BY <1>2, <2>1 DEF InHandFresh, OneVotePerCase
  <2>5. (\A found \in Recoveries : Keeps(found)') /\ Keeps(live)'
    BY <1>0, <1>1, <1>2, <2>1, SamePromises, SameLive
  <2> QED BY <1>0, <1>2, <2>1, <2>2, <2>3, <2>4, <2>5
<1>6. CASE ~Sweeping
  <2>0. phase' = "idle" /\ job' = NoJob
    BY <1>6 DEF Return
  <2>1. JobMatches'
    BY <2>0, NoJobFacts DEF JobMatches
  <2>2. phase' \in {"sweep", "idle"} /\ job' \in Jobs /\ IsFiniteSet(job'.todo)
    BY <2>0, NoJobFacts
  <2>3. CASE job.op \notin {"reserve_sequence", "commit_vote", "acknowledge"}
    <3>1. UNCHANGED <<handed, inHand, votes, acknowledged>>
      BY <2>3 DEF Return
    <3>2. InHandFresh' /\ OneVotePerCase'
      BY <1>2, <2>0, <2>3, <3>1 DEF InHandFresh, OneVotePerCase
    <3>3. (\A found \in Recoveries : Keeps(found)') /\ Keeps(live)'
      BY <1>0, <1>1, <1>2, <3>1, SamePromises, SameLive
    <3> QED BY <1>0, <1>2, <2>1, <2>2, <3>1, <3>2, <3>3
  <2>4. CASE job.op = "reserve_sequence"
    <3>e. PICK e : e = job.entry[1]
      OBVIOUS
    <3>n. PICK n : n = e.next - 1
      OBVIOUS
    <3>1. /\ e \in [kind : {"Sequence"}, next : Nat \ {0}]
          /\ e.next = live.next_sequence
          /\ \A k \in DOMAIN handed : handed[k] < n
          /\ \A k \in acknowledged : k < n
          /\ \A f \in votes \cup live.pending : f.sequence < n
          /\ job.entry # <<>>
      BY <1>3, <1>4, <2>4, <3>e, <3>n DEF Effected
    <3>2. n \in Nat /\ n < live.next_sequence
      BY <3>1, <3>n
    <3>3. handed' = Append(handed, n) /\ inHand' = inHand \cup {n} /\ UNCHANGED <<votes, acknowledged>>
      BY <2>4, <3>e, <3>n DEF Return
    <3>4. /\ handed' \in Seq(Nat) /\ Len(handed) \in Nat /\ DOMAIN handed' = 1 .. (Len(handed) + 1)
          /\ DOMAIN handed = 1 .. Len(handed)
          /\ \A k \in 1 .. Len(handed) : handed'[k] = handed[k]
          /\ handed'[Len(handed) + 1] = n
      BY <1>0, <3>2, <3>3
    <3>5. \A i, j \in DOMAIN handed' : i < j => handed'[i] < handed'[j]
      <4> SUFFICES ASSUME NEW i \in 1 .. (Len(handed) + 1), NEW j \in 1 .. (Len(handed) + 1), i < j
                   PROVE  handed'[i] < handed'[j]
        BY <3>4
      <4>1. i \in 1 .. Len(handed)
        BY <3>4
      <4>2. CASE j \in 1 .. Len(handed)
        BY <1>2, <3>4, <4>1, <4>2
      <4>3. CASE j = Len(handed) + 1
        BY <3>1, <3>4, <4>1, <4>3
      <4> QED BY <3>4, <4>2, <4>3
    <3>6. ASSUME NEW found, Well(found), Keeps(found), Shows(found)
          PROVE  Keeps(found)'
      <4>1. found.next_sequence \in Nat /\ live.next_sequence <= found.next_sequence
        BY <3>6 DEF Well, State, Shows
      <4>2. n < found.next_sequence
        BY <1>1, <3>2, <4>1
      <4>3. \A k \in DOMAIN handed' : handed'[k] < found.next_sequence
        <5> SUFFICES ASSUME NEW k \in 1 .. (Len(handed) + 1) PROVE handed'[k] < found.next_sequence
          BY <3>4
        <5>1. CASE k \in 1 .. Len(handed)
          BY <3>4, <3>6, <5>1 DEF Keeps
        <5>2. CASE k = Len(handed) + 1
          BY <3>4, <4>2, <5>2
        <5> QED BY <3>4, <5>1, <5>2
      <4> QED BY <1>0, <3>3, <3>6, <4>3 DEF Keeps
    <3>7. Keeps(live)'
      BY <1>1, <1>a, <1>b, <1>l, <3>1, <3>6
    <3>8. \A found \in Recoveries : Keeps(found)'
      BY <1>2, <1>3, <3>1, <3>6
    <3>9. n \notin acknowledged /\ (\A f \in votes \cup live.pending : f.sequence # n)
      BY <3>1, <3>2
    <3>10. InHandFresh'
      BY <1>2, <2>0, <2>4, <3>2, <3>3, <3>9 DEF InHandFresh
    <3>11. OneVotePerCase' /\ inHand' \subseteq Nat
      BY <1>0, <1>2, <3>2, <3>3 DEF OneVotePerCase
    <3> QED BY <1>0, <2>1, <2>2, <3>3, <3>4, <3>5, <3>7, <3>8, <3>10, <3>11
  <2>5. CASE job.op = "commit_vote"
    <3>e. PICK e : e = job.entry[1]
      OBVIOUS
    <3>g. PICK g : g = e.frame
      OBVIOUS
    <3>1. /\ e \in [kind : {"Vote"}, key : Keys, frame : Frames]
          /\ g.vote = e.key /\ g.sequence \in inHand /\ g \in live.pending
          /\ e.key \in live.locks
          /\ \A f \in votes : f.vote # e.key
          /\ job.entry # <<>>
      BY <1>3, <1>4, <2>5, <3>e, <3>g DEF Effected
    <3>2. g \in Frames
      BY <3>1, <3>g
    <3>3. /\ votes' = votes \cup {g} /\ inHand' = inHand \ {g.sequence}
          /\ UNCHANGED <<handed, acknowledged>>
      BY <2>5, <3>e, <3>g DEF Return
    <3>4. ASSUME NEW found, Well(found), Keeps(found), Shows(found)
          PROVE  Keeps(found)'
      <4>1. e.key \in found.locks /\ g \in found.pending /\ g.sequence < found.next_sequence
        BY <2>5, <3>4, <3>e, <3>g DEF Shows, Well
      <4> QED BY <1>0, <3>1, <3>3, <3>4, <4>1 DEF Keeps
    <3>5. (\A found \in Recoveries : Keeps(found)') /\ Keeps(live)'
      BY <1>1, <1>2, <1>3, <1>a, <1>b, <1>l, <3>1, <3>4
    <3>6. InHandFresh'
      BY <1>2, <2>0, <2>5, <3>3, <3>e, <3>g DEF InHandFresh
    <3>7. OneVotePerCase'
      BY <1>2, <3>1, <3>3 DEF OneVotePerCase
    <3> QED BY <1>0, <1>2, <2>1, <2>2, <3>2, <3>3, <3>5, <3>6, <3>7
  <2>6. CASE job.op = "acknowledge"
    <3>e. PICK e : e = job.entry[1]
      OBVIOUS
    <3>n. PICK n : n = e.sequence
      OBVIOUS
    <3>1. /\ e \in [kind : {"Retired"}, sequence : Nat]
          /\ n < live.next_sequence /\ n \notin inHand
          /\ \A f \in live.pending : f.sequence # n
          /\ job.entry # <<>>
      BY <1>3, <1>4, <2>6, <3>e, <3>n DEF Effected
    <3>2. n \in Nat
      BY <3>1, <3>n
    <3>3. acknowledged' = acknowledged \cup {n} /\ UNCHANGED <<handed, inHand, votes>>
      BY <2>6, <3>e, <3>n DEF Return
    <3>4. ASSUME NEW found, Well(found), Keeps(found), Shows(found)
          PROVE  Keeps(found)'
      <4>1. /\ \A f \in found.pending : f.sequence # n
            /\ found.next_sequence \in Nat /\ live.next_sequence <= found.next_sequence
        BY <2>6, <3>4, <3>e, <3>n DEF Shows, Well, State
      <4>2. n < found.next_sequence
        BY <1>1, <3>1, <3>2, <4>1
      <4> QED BY <1>0, <3>3, <3>4, <4>1, <4>2 DEF Keeps
    <3>5. (\A found \in Recoveries : Keeps(found)') /\ Keeps(live)'
      BY <1>1, <1>2, <1>3, <1>a, <1>b, <1>l, <3>1, <3>4
    <3>6. InHandFresh'
      BY <1>2, <2>0, <2>6, <3>1, <3>3 DEF InHandFresh
    <3>7. OneVotePerCase'
      BY <1>2, <3>3 DEF OneVotePerCase
    <3> QED BY <1>0, <1>2, <2>1, <2>2, <3>2, <3>3, <3>5, <3>6, <3>7
  <2> QED BY <2>3, <2>4, <2>5, <2>6
<1> QED BY <1>5, <1>6

FileTypes == [Inodes -> [recs : Seq(Entry \cup {Torn}), synced : Nat]]

\* Files that are reached are kept as they are.
LEMMA KeptFiles ==
    ASSUME NEW fs \in FileTypes, NEW reachable
    PROVE  /\ Keep(fs, reachable) \in FileTypes
           /\ \A i \in Inodes \cap reachable : Keep(fs, reachable)[i] = fs[i]
<1>1. EmptyFile \in [recs : Seq(Entry \cup {Torn}), synced : Nat]
  BY DEF EmptyFile
<1> QED BY <1>1 DEF Keep, FileTypes

\* The log is the file the path names, as it was.
LEMMA ReturnStep ==
    ASSUME LogInv, phase \in {"settled", "renamed"}, Return, live' = live,
           dir' = dir, handle' = dir, dirOnDisk' = {dir}, files'[dir] = files[dir],
           files' \in FileTypes
    PROVE  LogInv'
<1>1. /\ handed' \in Seq(Nat) /\ inHand' \subseteq Nat /\ votes' \subseteq Frames
      /\ acknowledged' \subseteq Nat /\ asked' = asked
      /\ phase' \in {"sweep", "idle"} /\ job' \in Jobs /\ IsFiniteSet(job'.todo)
      /\ JobMatches' /\ InHandFresh' /\ OneVotePerCase'
      /\ \A i, j \in DOMAIN handed' : i < j => handed'[i] < handed'[j]
      /\ \A found \in Recoveries : Keeps(found)'
      /\ Keeps(live)'
  BY ReturnFacts
<1>2. /\ dir \in Inodes /\ dir \in dirOnDisk /\ Sound(files[dir])
      /\ Well(live) /\ live.next_sequence <= Replayed(files[dir].recs).next_sequence
  <2>1. Well(live) /\ live.next_sequence \in Nat
    BY DEF LogInv, Tracks, Well, State
  <2>2. CASE phase = "settled"
    BY <2>1, <2>2 DEF LogInv, LogTypes, Placed, Tracks
  <2>3. CASE phase = "renamed"
    <3>1. live = Replayed(files[dir].recs)
      BY <2>3 DEF LogInv, Tracks
    <3>2. live.next_sequence <= live.next_sequence
      BY <2>1
    <3>3. live.next_sequence <= Replayed(files[dir].recs).next_sequence
      BY <3>1, <3>2
    <3> QED BY <2>1, <2>3, <3>3 DEF LogInv, LogTypes, Placed
  <2> QED BY <2>2, <2>3
<1>3. LogTypes'
  BY <1>1, <1>2 DEF LogInv, LogTypes, Jobs, FileTypes
<1>4. Placed'
  BY <1>1, <1>2 DEF Placed
<1>5. Tracks'
  BY <1>1, <1>2 DEF Tracks
<1>6. Recoveries' \subseteq Recoveries
  BY <1>2 DEF Recoveries
<1> QED BY <1>1, <1>3, <1>4, <1>5, <1>6 DEF LogInv

\* The mutator returns, compacted or not.
LEMMA ReturnInv ==
    ASSUME LogInv, WholeFaults, return_without_compacting \/ compact_reopen \/ compact_fails
    PROVE  LogInv'
<1>1. /\ dir \in Inodes /\ handle \in Inodes /\ files \in FileTypes
      /\ phase = "settled" => handle = dir /\ dirOnDisk = {dir}
  BY DEF LogInv, LogTypes, Placed, FileTypes
<1>2. CASE return_without_compacting
  <2>1. /\ phase = "settled" /\ Return
        /\ UNCHANGED <<files, dir, dirOnDisk, handle, live>>
    BY <1>2 DEF return_without_compacting
  <2> QED BY <1>1, <2>1, ReturnStep
<1>3. CASE compact_reopen
  <2>1. /\ phase = "renamed" /\ Return /\ files' = Keep(files, {dir})
        /\ dirOnDisk' = {dir} /\ handle' = dir /\ UNCHANGED <<dir, live>>
    BY <1>3 DEF compact_reopen
  <2>2. files' \in FileTypes /\ files'[dir] = files[dir]
    BY <1>1, <2>1, KeptFiles
  <2> QED BY <2>1, <2>2, ReturnStep
<1>4. CASE compact_fails
  <2>1. /\ phase = "settled" /\ Return /\ UNCHANGED <<dir, dirOnDisk, handle, live>>
        /\ files' = Keep(files, dirOnDisk' \cup {dir, handle})
    BY <1>4 DEF compact_fails, Compacting, Fault, WholeFaults
  <2>2. files' \in FileTypes /\ files'[dir] = files[dir]
    BY <1>1, <2>1, KeptFiles
  <2> QED BY <1>1, <2>1, <2>2, ReturnStep
<1> QED BY <1>2, <1>3, <1>4

\* The sibling file holds what the log amounts to before anything names it.
LEMMA RenameInv ==
    ASSUME LogInv, compact_rename
    PROVE  LogInv'
<1>0. phase = "settled" /\ Compacting
  BY DEF compact_rename, Compacting
<1>c. PICK c : c = CompactedEntries
  OBVIOUS
<1>1. PICK fresh \in Inodes \ (dirOnDisk \cup {dir, handle}) :
        /\ files' = [files EXCEPT ![fresh] = [recs |-> c, synced |-> Len(c)]]
        /\ dir' = fresh
        /\ dirOnDisk' = dirOnDisk \cup {fresh}
  BY <1>c DEF compact_rename
<1>2. phase' = "renamed" /\ UNCHANGED <<handle, live, job, handed, inHand, votes, acknowledged, asked>>
  BY DEF compact_rename, client
<1>3. /\ dir \in Inodes /\ handle = dir /\ dirOnDisk = {dir} /\ files \in FileTypes
      /\ Sound(files[dir])
  BY <1>0 DEF LogInv, LogTypes, Placed, FileTypes
<1>4. Well(live) /\ Keeps(live)
  BY <1>0, LiveKeeps
<1>5. c \in Seq(Entry) /\ Replayed(c) = live
  BY <1>4, <1>c, CompactedLists, ReplayListed
<1>6. Len(c) \in Nat /\ c \in Seq(Entry \cup {Torn})
  BY <1>5
<1> DEFINE file2 == [recs |-> c, synced |-> Len(c)]
<1>7. file2 \in [recs : Seq(Entry \cup {Torn}), synced : Nat] /\ file2.recs = c /\ file2.synced = Len(c)
  BY <1>6
<1>8. Sound(file2)
  BY <1>5, <1>6, <1>7 DEF Sound
<1> HIDE DEF file2
<1>9. /\ files' = [files EXCEPT ![fresh] = file2] /\ files' \in FileTypes
      /\ files'[fresh] = file2 /\ files'[dir] = files[dir]
  BY <1>1, <1>3, <1>7 DEF FileTypes, file2
<1>10. LogTypes'
  BY <1>1, <1>2, <1>3, <1>9 DEF LogInv, LogTypes, FileTypes
<1>11. Placed'
  BY <1>1, <1>2, <1>3, <1>8, <1>9 DEF Placed
<1>12. Tracks'
  <2>1. /\ live.next_sequence <= Replayed(files[dir].recs).next_sequence
        /\ job.entry # <<>> => /\ files[dir].synced = Len(files[dir].recs)
                               /\ Shows(Replayed(files[dir].recs))
    BY <1>0, <1>3 DEF LogInv, Tracks
  <2>2. Keeps(live)'
    BY <1>2, <1>4, SameLive
  <2>3. files'[handle'] = files[dir] /\ handle' # dir'
    BY <1>1, <1>2, <1>3, <1>9
  <2>4. job.entry # <<>> => Shows(Replayed(files[handle].recs))'
    BY <1>2, <2>1, <2>3 DEF Shows
  <2>5. job.entry # <<>> => \A i \in dirOnDisk' : files'[i].synced = Len(files'[i].recs)
    BY <1>1, <1>3, <1>7, <1>9, <2>1
  <2>6. files'[dir'].synced = Len(files'[dir'].recs) /\ live' = Replayed(files'[dir'].recs)
    BY <1>1, <1>2, <1>5, <1>7, <1>9
  <2> QED BY <1>2, <1>4, <2>1, <2>2, <2>3, <2>4, <2>5, <2>6 DEF Tracks
<1>13. ASSUME NEW found \in Recoveries'
       PROVE  Keeps(found)
  <2>1. PICK i \in dirOnDisk' : \E r \in Survivors(files'[i]) : found = replay(r)
    BY DEF Recoveries
  <2>2. CASE i = dir
    <3>1. found \in Recoveries
      BY <1>3, <1>9, <2>1, <2>2 DEF Recoveries
    <3> QED BY <3>1 DEF LogInv
  <2>3. CASE i = fresh
    <3>1. PICK r \in Survivors(file2) : found = replay(r)
      BY <1>9, <2>1, <2>3
    <3>2. PICK n \in file2.synced .. Len(file2.recs) : found = Replayed(SubSeq(file2.recs, 1, n))
      BY <1>8, <3>1, SoundSurvivors
    <3>3. n = Len(c) /\ SubSeq(c, 1, Len(c)) = c
      BY <1>5, <1>6, <1>7, <3>2
    <3> QED BY <1>4, <1>5, <1>7, <3>2, <3>3
  <2> QED BY <1>1, <1>3, <2>2, <2>3
<1>14. \A found \in Recoveries' : Keeps(found)'
  BY <1>2, <1>13, SamePromises
<1>15. JobMatches'
  BY <1>0, <1>2 DEF LogInv, JobMatches, Effected
<1>16. InHandFresh'
  BY <1>0, <1>2 DEF LogInv, InHandFresh
<1>17. OneVotePerCase' /\ \A i, j \in DOMAIN handed' : i < j => handed'[i] < handed'[j]
  BY <1>2 DEF LogInv, OneVotePerCase
<1> QED BY <1>10, <1>11, <1>12, <1>14, <1>15, <1>16, <1>17 DEF LogInv

----------------------------------------------------------------------------
(* The invariant: crashes and restarts.                                    *)

\* A crash finds nothing that could not have been found before.
LEMMA CrashStep ==
    ASSUME LogInv, Crashed, files' \in FileTypes, dir' \in Inodes, dirOnDisk' \subseteq Inodes,
           dir' \in dirOnDisk',
           \A i \in dirOnDisk' : Sound(files'[i]) \/ (i = dir' /\ Damaged(files'[i])),
           Recoveries' \subseteq Recoveries
    PROVE  LogInv'
<1>1. /\ phase' = "down" /\ job' = NoJob /\ inHand' = {} /\ handle' = dir'
      /\ UNCHANGED <<handed, votes, acknowledged, asked>>
  BY DEF Crashed
<1>2. LogTypes'
  BY <1>1, NoJobFacts DEF LogInv, LogTypes, Jobs, FileTypes
<1>3. Placed'
  BY <1>1 DEF Placed
<1>4. Tracks'
  BY <1>1 DEF Tracks
<1>5. \A found \in Recoveries' : Keeps(found)'
  BY <1>1, SamePromises DEF LogInv
<1>6. JobMatches'
  BY <1>1, NoJobFacts DEF JobMatches
<1>7. InHandFresh'
  BY <1>1 DEF InHandFresh
<1>8. OneVotePerCase' /\ \A i, j \in DOMAIN handed' : i < j => handed'[i] < handed'[j]
  BY <1>1 DEF LogInv, OneVotePerCase
<1> QED BY <1>2, <1>3, <1>4, <1>5, <1>6, <1>7, <1>8 DEF LogInv

\* A killed process leaves every record it wrote.
LEMMA KillInv ==
    ASSUME LogInv, Kill
    PROVE  LogInv'
<1>1. Crashed /\ phase # "down" /\ files' = Keep(files, dirOnDisk) /\ UNCHANGED <<dir, dirOnDisk>>
  BY DEF Kill, Crashed
<1>2. /\ files \in FileTypes /\ dir \in Inodes /\ dirOnDisk \in SUBSET Inodes /\ dir \in dirOnDisk
      /\ \A i \in dirOnDisk : Sound(files[i])
  BY <1>1 DEF LogInv, LogTypes, Placed, FileTypes
<1>3. files' \in FileTypes /\ \A i \in dirOnDisk : files'[i] = files[i]
  BY <1>1, <1>2, KeptFiles
<1>4. Recoveries' \subseteq Recoveries
  BY <1>1, <1>3 DEF Recoveries
<1> QED BY <1>1, <1>2, <1>3, <1>4, CrashStep

\* A power cut leaves the flushed records and some of the rest.
LEMMA PowerInv ==
    ASSUME LogInv, PowerCut
    PROVE  LogInv'
<1>1. Crashed /\ phase # "down"
  BY DEF PowerCut, Crashed
<1>2. /\ files \in FileTypes /\ dir \in Inodes /\ dirOnDisk \in SUBSET Inodes /\ dir \in dirOnDisk
      /\ \A i \in dirOnDisk : Sound(files[i])
  BY <1>1 DEF LogInv, LogTypes, Placed, FileTypes
<1>3. PICK i \in dirOnDisk : \E recs \in Survivors(files[i]) :
        /\ dir' = i /\ dirOnDisk' = {i}
        /\ files' = Keep([files EXCEPT ![i] = [recs |-> recs, synced |-> Len(recs)]], {i})
  BY DEF PowerCut
<1>4. PICK recs \in Survivors(files[i]) :
        /\ dir' = i /\ dirOnDisk' = {i}
        /\ files' = Keep([files EXCEPT ![i] = [recs |-> recs, synced |-> Len(recs)]], {i})
  BY <1>3
<1> DEFINE file == files[i]
           cut == [recs |-> recs, synced |-> Len(recs)]
           fs == [files EXCEPT ![i] = cut]
<1>5. Sound(file) /\ i \in Inodes
  BY <1>2
<1>6. /\ \E n \in file.synced .. Len(file.recs) : replay(recs) = Replayed(SubSeq(file.recs, 1, n))
      /\ recs \in Seq(Entry \cup {Torn})
      /\ Sound(cut) \/ Damaged(cut)
  <2> HIDE DEF file
  <2>1. recs \in Survivors(file)
    BY <1>4 DEF file
  <2> QED BY <1>5, <2>1, SoundSurvivors
<1>7. cut.recs = recs /\ cut.synced = Len(recs) /\ cut \in [recs : Seq(Entry \cup {Torn}), synced : Nat]
  BY <1>6
<1> HIDE DEF cut
<1>8. fs \in FileTypes /\ fs[i] = cut
  BY <1>2, <1>5, <1>7 DEF FileTypes
<1>9. files' = Keep(fs, {i})
  BY <1>4 DEF cut
<1> HIDE DEF fs
<1>10. files' \in FileTypes /\ files'[i] = cut
  BY <1>5, <1>8, <1>9, KeptFiles
<1>11. ASSUME NEW found \in Recoveries'
       PROVE  found = replay(recs)
  <2>1. PICK r \in Survivors(cut) : found = replay(r)
    BY <1>4, <1>10 DEF Recoveries
  <2>2. CASE Damaged(cut)
    BY <1>6, <1>7, <2>1, <2>2, DamagedSurvivors
  <2>3. CASE Sound(cut)
    <3>1. PICK n \in cut.synced .. Len(cut.recs) : found = Replayed(SubSeq(cut.recs, 1, n))
      BY <2>1, <2>3, SoundSurvivors
    <3>2. recs \in Seq(Entry) /\ Len(recs) \in Nat
      BY <1>7, <2>3 DEF Sound
    <3>3. n = Len(recs) /\ SubSeq(recs, 1, Len(recs)) = recs
      BY <1>7, <3>1, <3>2
    <3> QED BY <1>7, <3>1, <3>2, <3>3, WholeLog
  <2> QED BY <1>6, <2>2, <2>3
<1>12. replay(recs) \in Recoveries
  BY <1>4 DEF Recoveries
<1>13. Recoveries' \subseteq Recoveries
  BY <1>11, <1>12
<1> QED BY <1>1, <1>4, <1>5, <1>6, <1>10, <1>13, CrashStep

\* Opening reads the log to its end, or cuts it where a power cut damaged it.
LEMMA OpenInv ==
    ASSUME LogInv, Open
    PROVE  LogInv'
<1> DEFINE file == files[dir]
           recs == file.recs
           good == Whole(recs)
           cut == IF good = recs THEN file ELSE [recs |-> good, synced |-> Len(good)]
           fs == [files EXCEPT ![dir] = cut]
<1>0. /\ phase = "down" /\ files' = Keep(fs, {dir}) /\ live' = replay(recs)
      /\ dirOnDisk' = {dir} /\ handle' = dir
      /\ UNCHANGED <<dir, handed, inHand, votes, acknowledged, asked>>
  BY DEF Open, client
<1>1. /\ files \in FileTypes /\ dir \in Inodes /\ dir \in dirOnDisk /\ inHand = {}
      /\ Sound(file) \/ Damaged(file)
  BY <1>0 DEF LogInv, LogTypes, Placed, InHandFresh, FileTypes
<1>2. recs \in Seq(Entry \cup {Torn})
  BY <1>1 DEF FileTypes
<1> HIDE DEF file
<1>3. /\ Sound(cut) /\ cut.recs = good /\ good \in Seq(Entry) /\ replay(recs) = Replayed(good)
      /\ \A r \in Survivors(cut) : \E s \in Survivors(file) : replay(r) = replay(s)
  <2>1. CASE Sound(file)
    <3>1. good = recs /\ recs \in Seq(Entry) /\ replay(recs) = Replayed(recs)
      BY <2>1, WholeLog DEF Sound
    <3> QED BY <2>1, <3>1
  <2>2. CASE Damaged(file)
    <3>1. /\ Survivors(file) = {recs} /\ replay(recs) = Replayed(good) /\ good \in Seq(Entry)
          /\ good # recs
      BY <1>2, <2>2, DamagedSurvivors
    <3>2. cut = [recs |-> good, synced |-> Len(good)]
      BY <3>1
    <3> HIDE DEF good, cut
    <3>3. cut.recs = good /\ cut.synced = Len(good) /\ Len(good) \in Nat
      BY <3>1, <3>2
    <3>4. Sound(cut)
      BY <3>1, <3>3 DEF Sound
    <3>5. ASSUME NEW r \in Survivors(cut)
          PROVE  replay(r) = replay(recs)
      <4>1. PICK n \in cut.synced .. Len(cut.recs) : replay(r) = Replayed(SubSeq(cut.recs, 1, n))
        BY <3>4, SoundSurvivors
      <4>2. n = Len(good) /\ SubSeq(good, 1, Len(good)) = good
        BY <3>1, <3>3, <4>1
      <4> QED BY <3>1, <3>3, <4>1, <4>2
    <3> QED BY <3>1, <3>3, <3>4, <3>5
  <2> QED BY <1>1, <2>1, <2>2
<1>4. cut \in [recs : Seq(Entry \cup {Torn}), synced : Nat]
  <2>1. file \in [recs : Seq(Entry \cup {Torn}), synced : Nat]
    BY <1>1 DEF FileTypes, file
  <2>2. good \in Seq(Entry \cup {Torn}) /\ Len(good) \in Nat
    BY <1>3
  <2> HIDE DEF good
  <2> QED BY <2>1, <2>2
<1>5. /\ Len(good) = 0 => good = <<>>
      /\ live'.next_sequence \in Nat
  <2>1. Len(good) = 0 => good = <<>>
    <3> HIDE DEF good
    <3> QED BY <1>3
  <2>2. Well(live')
    BY <1>0, <1>3, ReplayedIsWell
  <2> QED BY <2>1, <2>2 DEF Well, State
<1>6. \/ phase' = "idle" /\ job' = NoJob
      \/ /\ phase' = "append" /\ live'.next_sequence = 0
         /\ \E start \in Starts :
              job' = [op |-> "open_with_entropy", entry |-> <<Sequence(start)>>, todo |-> {}]
  BY <1>0 DEF Open, file
<1> HIDE DEF good, cut
<1>7. fs \in FileTypes /\ fs[dir] = cut
  BY <1>1, <1>4 DEF FileTypes
<1> HIDE DEF fs
<1>8. files' \in FileTypes /\ files'[dir] = cut
  BY <1>0, <1>1, <1>7, KeptFiles
<1>9. ASSUME NEW found \in Recoveries'
      PROVE  found \in Recoveries
  <2>1. PICK r \in Survivors(cut) : found = replay(r)
    BY <1>0, <1>8 DEF Recoveries
  <2>2. PICK s \in Survivors(file) : replay(r) = replay(s)
    BY <1>3, <2>1
  <2> QED BY <1>1, <2>1, <2>2 DEF Recoveries, file
<1>10. \A found \in Recoveries' : Keeps(found)'
  BY <1>0, <1>9, SamePromises DEF LogInv
<1>11. job' \in Jobs /\ IsFiniteSet(job'.todo) /\ JobMatches'
  <2>1. CASE phase' = "idle" /\ job' = NoJob
    BY <2>1, NoJobFacts DEF JobMatches
  <2>2. CASE /\ phase' = "append" /\ live'.next_sequence = 0
             /\ \E start \in Starts :
                  job' = [op |-> "open_with_entropy", entry |-> <<Sequence(start)>>, todo |-> {}]
    <3>1. PICK start \in Starts :
            job' = [op |-> "open_with_entropy", entry |-> <<Sequence(start)>>, todo |-> {}]
      BY <2>2
    <3> DEFINE e == Sequence(start)
    <3>2. e \in [kind : {"Sequence"}, next : Nat] /\ e \in Entry
      BY StartsAssumption DEF Sequence, Entry
    <3> HIDE DEF e
    <3>3. /\ job' \in Jobs /\ job'.op = "open_with_entropy" /\ job'.entry = <<e>> /\ job'.todo = {}
          /\ Len(job'.entry) = 1 /\ job'.entry[1] = e
      BY <3>1, <3>2 DEF Jobs, Mutators, e
    <3>4. IsFiniteSet(job'.todo)
      BY <3>3, FS_EmptySet
    <3>5. Called(job.entry[1])'
      BY <1>0, <1>1, <2>2, <3>2, <3>3 DEF Called
    <3>6. JobMatches'
      BY <2>2, <3>3, <3>5 DEF JobMatches
    <3> QED BY <3>3, <3>4, <3>6
  <2> QED BY <1>6, <2>1, <2>2
<1>12. LogTypes'
  BY <1>0, <1>1, <1>6, <1>8, <1>11 DEF LogInv, LogTypes, Jobs, FileTypes
<1>13. Placed'
  BY <1>0, <1>3, <1>6, <1>8 DEF Placed
<1>14. Tracks'
  <2>1. live' = Replayed(files'[handle'].recs) /\ Well(live') /\ live'.next_sequence \in Nat
    BY <1>0, <1>3, <1>5, <1>8, ReplayedIsWell
  <2>2. live'.next_sequence <= Replayed(files'[handle'].recs).next_sequence
    <3>1. live'.next_sequence <= live'.next_sequence
      BY <2>1
    <3> QED BY <2>1, <3>1
  <2>3. live' \in Recoveries'
    <3>1. Len(cut.recs) \in cut.synced .. Len(cut.recs) /\ SubSeq(cut.recs, 1, Len(cut.recs)) = cut.recs
      BY <1>3 DEF Sound
    <3>2. Sound(cut) /\ live' = Replayed(cut.recs)
      BY <1>0, <1>3
    <3>3. PICK k \in cut.synced .. Len(cut.recs) : SubSeq(cut.recs, 1, k) = cut.recs
      BY <3>1
    <3>4. cut.recs \in Survivors(cut) /\ replay(cut.recs) = Replayed(cut.recs)
      BY <3>2, <3>3, SoundSurvivors
    <3> QED BY <1>0, <1>8, <3>2, <3>4 DEF Recoveries
  <2>4. Keeps(live)'
    BY <1>10, <2>3 DEF Keeps
  <2> QED BY <1>6, <2>1, <2>2, <2>4 DEF Tracks
<1>15. InHandFresh'
  BY <1>0, <1>1 DEF InHandFresh
<1>16. OneVotePerCase' /\ \A i, j \in DOMAIN handed' : i < j => handed'[i] < handed'[j]
  BY <1>0 DEF LogInv, OneVotePerCase
<1> QED BY <1>10, <1>11, <1>12, <1>13, <1>14, <1>15, <1>16 DEF LogInv

----------------------------------------------------------------------------
(* The theorems.                                                           *)

\* LogInv is inductive: whatever the calls, kills, power cuts, refused writes,
\* failed flushes and failed rewrites (log.rs, try_append, compact, open).
THEOREM LogInvariance ==
    ASSUME WholeFaults
    PROVE  Spec => []LogInv
<1>1. Init => LogInv
  BY InitInv
<1>2. ASSUME LogInv, [Next]_vars
      PROVE  LogInv'
  <2>1. CASE UNCHANGED vars
    <3>1. UNCHANGED <<files, dir, dirOnDisk, handle, live, phase, job, handed, inHand, votes,
                      acknowledged, asked>>
      BY <2>1 DEF vars
    <3>2. LogTypes' /\ Placed' /\ InHandFresh' /\ OneVotePerCase'
      BY <1>2, <3>1 DEF LogInv, LogTypes, Placed, InHandFresh, OneVotePerCase
    <3>t. Tracks'
      BY <1>2, <3>1 DEF LogInv, Tracks, Keeps, Shows
    <3>3. JobMatches'
      BY <1>2, <3>1 DEF LogInv, JobMatches, Called, Effected
    <3>4. \A found \in Recoveries' : Keeps(found)'
      BY <1>2, <3>1, SameFound, SamePromises DEF LogInv
    <3> QED BY <1>2, <3>1, <3>2, <3>t, <3>3, <3>4 DEF LogInv
  <2>2. CASE Open
    BY <1>2, <2>2, OpenInv
  <2>3. CASE \/ \E key \in Keys, sequence \in inHand, expires_at \in Expiries :
                   commit_vote(key, sequence, expires_at)
             \/ reserve_sequence
             \/ \E f \in live.pending : acknowledge(f.sequence)
             \/ \E author \in Authors, frame \in 0 .. MaxSequence : witness(author, frame)
             \/ \E epoch \in Epochs : enter_epoch(epoch)
             \/ \E sender \in Senders, sequence \in 0 .. MaxSequence : mark_seen(sender, sequence)
    BY <1>2, <2>3, CallsInv
  <2>4. CASE (\E now \in Times : drop_expired(now)) \/ sweep_next \/ pending \/ compact_now
    BY <1>2, <2>4, DropInv, SweepInv, IdleInv
  <2>5. CASE write_all \/ sync_all
    BY <1>2, <2>5, WriteInv, SyncInv
  <2>6. CASE write_fails \/ sync_fails
    BY <1>2, <2>6, RefusedInv
  <2>7. CASE return_without_compacting \/ compact_reopen \/ compact_fails
    BY <1>2, <2>7, ReturnInv
  <2>8. CASE compact_rename
    BY <1>2, <2>8, RenameInv
  <2>9. CASE Kill \/ PowerCut
    BY <1>2, <2>9, KillInv, PowerInv
  <2> QED BY <1>2, <2>1, <2>2, <2>3, <2>4, <2>5, <2>6, <2>7, <2>8, <2>9 DEF Next
<1> QED BY <1>1, <1>2, PTL DEF Spec

\* "A caller that gets Ok may put the frame on the air" (log.rs): for any
\* number of crashes of either kind, at any instant, and of mutators that failed
\* with their record left in the file, every state a restart may find keeps what
\* the caller was told.
THEOREM CrashesKeepPromises ==
    ASSUME WholeFaults
    PROVE  Spec => []EveryCrashKeepsPromises
<1>1. LogInv => EveryCrashKeepsPromises
  BY DEF LogInv, Keeps, EveryCrashKeepsPromises
<1> QED BY <1>1, LogInvariance, PTL

\* The file never hands out a sequence twice over all its lives, and never
\* takes two votes for one case.
THEOREM LogSequencesAndVotes ==
    ASSUME WholeFaults
    PROVE  Spec => []SequenceNeverReused /\ []OneVotePerCase
<1>1. ASSUME LogInv
      PROVE  SequenceNeverReused
  <2>1. handed \in Seq(Nat) /\ \A i, j \in DOMAIN handed : i < j => handed[i] < handed[j]
    BY <1>1 DEF LogInv, LogTypes
  <2>2. \A i \in DOMAIN handed : handed[i] \in Nat /\ i \in Int
    BY <2>1
  <2>3. DOMAIN handed = 1 .. Len(handed)
    BY <2>1
  <2> SUFFICES ASSUME NEW i \in DOMAIN handed, NEW j \in DOMAIN handed, handed[i] = handed[j], i # j
               PROVE  FALSE
    BY <2>3 DEF SequenceNeverReused
  <2>4. i < j \/ j < i
    BY <2>2
  <2>5. handed[i] < handed[j] \/ handed[j] < handed[i]
    BY <2>1, <2>4
  <2> QED BY <2>2, <2>5
<1>2. LogInv => SequenceNeverReused /\ OneVotePerCase
  BY <1>1 DEF LogInv
<1> QED BY <1>2, LogInvariance, PTL

----------------------------------------------------------------------------
(* Memory and log, where no flush fails.                                   *)

\* A file system whose writes are whole or refused, and whose failed rewrites
\* leave the log as it was.
CleanFaults == Faults \subseteq {"refused", "no-rewrite"}

\* A step that leaves memory and the file it appends to alone.
LEMMA SameMemory ==
    ASSUME LogInv, Agrees, phase \notin {"down", "written"}, phase' # "written",
           live' = live, files'[handle'].recs = files[handle].recs
    PROVE  Agrees'
BY DEF Agrees

\* The record goes behind what memory is.
LEMMA WriteAgrees ==
    ASSUME LogInv, Agrees, write_all
    PROVE  Agrees'
<1> DEFINE recs == files[handle].recs
           recs2 == recs \o job.entry
<1>1. /\ phase = "append" /\ phase' = "written" /\ UNCHANGED <<handle, live>>
      /\ files' = [files EXCEPT ![handle].recs = recs2]
  BY DEF write_all, Write
<1>2. /\ Sound(files[handle]) /\ handle \in Inodes /\ files \in FileTypes
      /\ job.entry \in Seq(Entry) /\ Len(job.entry) = 1
  BY <1>1 DEF LogInv, LogTypes, Placed, JobMatches, FileTypes
<1>3. recs \in Seq(Entry) /\ Len(recs) \in Nat /\ live = Replayed(recs)
  BY <1>1, <1>2 DEF Sound, Agrees
<1>4. files'[handle].recs = recs2
  BY <1>1, <1>2 DEF FileTypes
<1> HIDE DEF recs
<1>5. Len(recs2) - 1 = Len(recs) /\ SubSeq(recs2, 1, Len(recs)) = recs
  <2>1. recs2 \in Seq(Entry) /\ Longer(recs, job.entry[1], recs2)
    BY <1>2, <1>3, ConcatIsLonger
  <2> HIDE DEF recs2
  <2> QED BY <1>3, <2>1 DEF Longer
<1> HIDE DEF recs2
<1> QED BY <1>1, <1>3, <1>4, <1>5 DEF Agrees

\* Memory follows the record as a replay would.
LEMMA SyncAgrees ==
    ASSUME LogInv, Agrees, sync_all
    PROVE  Agrees'
<1> DEFINE recs == files[handle].recs
           log == SubSeq(recs, 1, Len(recs) - 1)
<1>e. PICK e : e = job.entry[1]
  OBVIOUS
<1>1. /\ phase = "written" /\ phase' = "settled" /\ handle' = handle /\ live' = Settle(e)
      /\ files' = [files EXCEPT ![handle].synced = Len(recs)]
  BY <1>e DEF sync_all
<1>2. /\ Sound(files[handle]) /\ handle \in Inodes /\ files \in FileTypes
      /\ Called(e) /\ job.entry \in Seq(Entry) /\ Len(job.entry) = 1
      /\ job.entry = <<recs[Len(recs)]>> /\ files[handle].synced < Len(recs)
      /\ live = Replayed(log)
  BY <1>1, <1>e DEF LogInv, LogTypes, Placed, JobMatches, Tracks, Agrees, FileTypes
<1>3. recs \in Seq(Entry) /\ Len(recs) \in Nat /\ Len(recs) # 0 /\ e \in Entry /\ e = recs[Len(recs)]
  BY <1>2, <1>e DEF Sound
<1>4. files'[handle].recs = recs
  BY <1>1, <1>2 DEF FileTypes
<1>5. log \in Seq(Entry) /\ Len(log) + 1 = Len(recs) /\ \A i \in 1 .. Len(log) : recs[i] = log[i]
  <2>1. recs \in Seq(Entry) /\ Len(recs) \in Nat /\ Len(recs) # 0
    BY <1>3
  <2> QED BY <2>1
<1> HIDE DEF recs, log
<1>6. Longer(log, e, recs)
  BY <1>3, <1>5 DEF Longer
<1>7. Replayed(recs) = apply(live, e)
  BY <1>2, <1>3, <1>5, <1>6, ReplayedLonger
<1>8. live \in State
  BY <1>1, LiveKeeps DEF Well
<1>9. live' = Replayed(recs)
  BY <1>1, <1>2, <1>3, <1>7, <1>8, SettleIsApply
<1> QED BY <1>1, <1>4, <1>9 DEF Agrees

\* A compacted log amounts to the memory it was written from.
LEMMA ReturnAgrees ==
    ASSUME LogInv, Agrees, CleanFaults, return_without_compacting \/ compact_reopen \/ compact_fails
    PROVE  Agrees'
<1>1. /\ dir \in Inodes /\ handle \in Inodes /\ files \in FileTypes
      /\ phase = "settled" => handle = dir
  BY DEF LogInv, LogTypes, Placed, FileTypes
<1>2. /\ phase \in {"settled", "renamed"} /\ phase' \in {"sweep", "idle"} /\ live' = live
  BY DEF return_without_compacting, compact_reopen, compact_fails, Compacting, Return
<1>3. CASE return_without_compacting
  BY <1>2, <1>3, SameMemory DEF return_without_compacting
<1>4. CASE compact_reopen
  <2>1. phase = "renamed" /\ handle' = dir /\ files' = Keep(files, {dir})
    BY <1>4 DEF compact_reopen
  <2>2. files'[dir] = files[dir]
    BY <1>1, <2>1, KeptFiles
  <2>3. live = Replayed(files[dir].recs)
    BY <2>1 DEF LogInv, Tracks
  <2> QED BY <1>2, <2>1, <2>2, <2>3 DEF Agrees
<1>5. CASE compact_fails
  <2>1. handle' = handle /\ files' = Keep(files, dirOnDisk' \cup {dir, handle})
    BY <1>5 DEF compact_fails
  <2>2. files'[handle] = files[handle]
    BY <1>1, <2>1, KeptFiles
  <2> QED BY <1>2, <2>1, <2>2, SameMemory
<1> QED BY <1>3, <1>4, <1>5

\* Opening reads memory from the log.
LEMMA OpenAgrees ==
    ASSUME LogInv, Open
    PROVE  Agrees'
<1> DEFINE file == files[dir]
           good == Whole(file.recs)
           cut == IF good = file.recs THEN file ELSE [recs |-> good, synced |-> Len(good)]
           fs == [files EXCEPT ![dir] = cut]
<1>1. /\ phase = "down" /\ files' = Keep(fs, {dir}) /\ live' = replay(file.recs)
      /\ handle' = dir /\ phase' \in {"idle", "append"}
  BY DEF Open
<1>2. files \in FileTypes /\ dir \in Inodes
  BY DEF LogInv, LogTypes, FileTypes
<1>3. cut.recs = good
  OBVIOUS
<1>4. files'[dir] = cut
  BY <1>1, <1>2 DEF Keep, FileTypes
<1>5. live' = Replayed(good)
  BY <1>1 DEF replay
<1> HIDE DEF cut, good
<1> QED BY <1>1, <1>3, <1>4, <1>5 DEF Agrees

\* Memory is the replay of the log, through calls, kills, power cuts, refused
\* writes and failed rewrites (log.rs, try_append and the update of each mutator).
THEOREM MemoryAgrees ==
    ASSUME CleanFaults
    PROVE  Spec => [](LogInv /\ Agrees)
<1>0. WholeFaults
  BY DEF CleanFaults, WholeFaults
<1>1. Init => Agrees
  BY DEF Init, Agrees
<1>2. ASSUME LogInv, Agrees, [Next]_vars
      PROVE  Agrees'
  <2>1. CASE UNCHANGED vars
    BY <1>2, <2>1 DEF vars, Agrees
  <2>2. CASE Open
    BY <1>2, <2>2, OpenAgrees
  <2>3. CASE \/ \E key \in Keys, sequence \in inHand, expires_at \in Expiries :
                   commit_vote(key, sequence, expires_at)
             \/ reserve_sequence
             \/ \E f \in live.pending : acknowledge(f.sequence)
             \/ \E author \in Authors, frame \in 0 .. MaxSequence : witness(author, frame)
             \/ \E epoch \in Epochs : enter_epoch(epoch)
             \/ \E sender \in Senders, sequence \in 0 .. MaxSequence : mark_seen(sender, sequence)
    <3>1. phase = "idle" /\ phase' = "append" /\ UNCHANGED <<files, handle, live>>
      BY <2>3 DEF commit_vote, reserve_sequence, acknowledge, witness, enter_epoch, mark_seen, Start
    <3> QED BY <1>2, <3>1, SameMemory
  <2>4. CASE (\E now \in Times : drop_expired(now)) \/ sweep_next \/ pending \/ compact_now
    <3>1. /\ phase \in {"idle", "sweep"} /\ phase' \in {"idle", "sweep", "append", "settled"}
          /\ UNCHANGED <<files, handle, live>>
      BY <2>4 DEF drop_expired, sweep_next, pending, compact_now
    <3> QED BY <1>2, <3>1, SameMemory
  <2>5. CASE write_all \/ sync_all
    BY <1>2, <2>5, WriteAgrees, SyncAgrees
  <2>6. CASE write_fails
    <3>1. phase = "append" /\ phase' \in {"sweep", "down", "idle"} /\ UNCHANGED <<files, handle, live>>
      BY <2>6 DEF write_fails, Fault, CleanFaults, NotDurable
    <3> QED BY <1>2, <3>1, SameMemory
  <2>7. CASE sync_fails
    BY <2>7 DEF sync_fails, Fault, CleanFaults
  <2>8. CASE return_without_compacting \/ compact_reopen \/ compact_fails
    BY <1>2, <2>8, ReturnAgrees
  <2>9. CASE compact_rename
    <3>1. phase = "settled" /\ phase' = "renamed" /\ UNCHANGED <<handle, live>>
      BY <2>9 DEF compact_rename, Compacting
    <3>2. handle \in Inodes /\ files \in FileTypes
      BY <1>2 DEF LogInv, LogTypes, FileTypes
    <3>3. PICK fresh \in Inodes \ (dirOnDisk \cup {dir, handle}) : \E x : files' = [files EXCEPT ![fresh] = x]
      BY <2>9 DEF compact_rename
    <3>4. files'[handle] = files[handle]
      BY <3>2, <3>3 DEF FileTypes
    <3> QED BY <1>2, <3>1, <3>4, SameMemory
  <2>10. CASE Kill \/ PowerCut
    BY <2>10 DEF Kill, PowerCut, Crashed, Agrees
  <2> QED BY <1>2, <2>1, <2>2, <2>3, <2>4, <2>5, <2>6, <2>7, <2>8, <2>9, <2>10 DEF Next
<1> QED BY <1>0, <1>1, <1>2, LogInvariance, PTL DEF Spec

\* The update each mutator makes in memory, the record it wrote and what
\* compaction kept agree whenever no mutator is running.
THEOREM MemoryMatchesLog ==
    ASSUME CleanFaults
    PROVE  Spec => []LiveMatchesLog
<1>1. ASSUME LogInv, Agrees, phase = "idle"
      PROVE  live = replay(files[dir].recs)
  <2>1. handle = dir /\ Sound(files[dir]) /\ live = Replayed(files[dir].recs)
    BY <1>1 DEF LogInv, Placed, Agrees
  <2> QED BY <2>1, WholeLog DEF Sound
<1>2. LogInv /\ Agrees => LiveMatchesLog
  BY <1>1 DEF LiveMatchesLog
<1> QED BY <1>2, MemoryAgrees, PTL

----------------------------------------------------------------------------
(* The refinement: the file implements the abstract journal.  A killed     *)
(* process leaves a record that the next life reads and a later power cut  *)
(* may still lose, which no step of the journal is; so the crashes here    *)
(* are power cuts.                                                         *)

PowerOnly == CrashKinds \subseteq {"power"}

RefInv == LogInv /\ Agrees /\ Flushed /\ Due

AbstractStep == J!Next \/ UNCHANGED J!vars

\* Both modules extend the records and the state they share.
LEMMA SameRecords ==
    /\ \A s, e : J!apply(s, e) = apply(s, e)
    /\ \A k, n, x : J!Vote(k, J!OutgoingFrame(n, k, x)) = Vote(k, OutgoingFrame(n, k, x))
    /\ \A n : J!Sequence(n) = Sequence(n) /\ J!Retired(n) = Retired(n) /\ J!Epoch(n) = Epoch(n)
    /\ \A a, b : J!Witnessed(a, b) = Witnessed(a, b) /\ J!Seen(a, b) = Seen(a, b)
    /\ J!EmptyState = EmptyState /\ J!Expiries = Expiries /\ J!None = None
    /\ J!NoCall = [op |-> "none"]
<1>1. \A s, e : J!apply(s, e) = apply(s, e)
  BY DEF J!apply, apply, J!add_frame, add_frame, J!InsertFrame, InsertFrame,
         J!RemoveFrame, RemoveFrame, J!Larger, Larger, J!None, None
<1>2. \A k, n, x : J!Vote(k, J!OutgoingFrame(n, k, x)) = Vote(k, OutgoingFrame(n, k, x))
  BY DEF J!Vote, Vote, J!OutgoingFrame, OutgoingFrame
<1>3. \A n : J!Sequence(n) = Sequence(n) /\ J!Retired(n) = Retired(n) /\ J!Epoch(n) = Epoch(n)
  BY DEF J!Sequence, Sequence, J!Retired, Retired, J!Epoch, Epoch
<1>4. \A a, b : J!Witnessed(a, b) = Witnessed(a, b) /\ J!Seen(a, b) = Seen(a, b)
  BY DEF J!Witnessed, Witnessed, J!Seen, Seen
<1>5. J!EmptyState = EmptyState /\ J!Expiries = Expiries /\ J!None = None /\ J!NoCall = [op |-> "none"]
  BY DEF J!EmptyState, EmptyState, J!Expiries, Expiries, J!None, None, J!NoCall
<1> QED BY <1>1, <1>2, <1>3, <1>4, <1>5

\* A step that changes nothing the caller can see.
LEMMA Stutters ==
    ASSUME UNCHANGED <<AbstractState, AbstractCall, AbstractDone, handed, inHand, votes, acknowledged>>
    PROVE  AbstractStep
BY DEF AbstractStep, J!vars

\* Calling a mutator is calling the abstract one.
LEMMA CallMaps ==
    ASSUME RefInv, NEW op \in Mutators \ {"drop_expired"}, NEW e, Start(op, e)
    PROVE  /\ J!Call(op, e)
           /\ AbstractState = live
           /\ Flushed' /\ Due'
<1>1. /\ phase = "idle" /\ phase' = "append"
      /\ job' = [op |-> op, entry |-> <<e>>, todo |-> {}]
      /\ UNCHANGED <<files, dir, dirOnDisk, handle, live, handed, inHand, votes, acknowledged>>
  BY DEF Start
<1>2. job.entry = <<>>
  BY <1>1, NoJobFacts DEF RefInv, LogInv, JobMatches
<1>3. job'.op = op /\ job'.entry = <<e>> /\ job'.entry[1] = e /\ job'.entry # <<>> /\ job'.todo = {}
  BY <1>1
<1>4. AbstractCall = [op |-> "none"] /\ AbstractCall' = [op |-> op, entry |-> e]
  BY <1>2, <1>3 DEF AbstractCall
<1>5. AbstractState = live /\ AbstractState' = live /\ ~AbstractDone /\ ~AbstractDone'
  BY <1>1 DEF AbstractState, AbstractDone
<1>6. AbstractDone' = AbstractDone
  BY <1>5 DEF AbstractDone
<1>7. J!Call(op, e)
  BY <1>1, <1>4, <1>5, <1>6, SameRecords DEF J!Call
<1>8. Flushed' /\ Due'
  BY <1>1, <1>3 DEF RefInv, Flushed, Due
<1> QED BY <1>5, <1>7, <1>8

\* Each mutator's guard is the abstract one's.
LEMMA CallsRefine ==
    ASSUME RefInv,
           \/ \E key \in Keys, sequence \in inHand, expires_at \in Expiries :
                   commit_vote(key, sequence, expires_at)
           \/ reserve_sequence
           \/ \E f \in live.pending : acknowledge(f.sequence)
           \/ \E author \in Authors, frame \in 0 .. MaxSequence : witness(author, frame)
           \/ \E epoch \in Epochs : enter_epoch(epoch)
           \/ \E sender \in Senders, sequence \in 0 .. MaxSequence : mark_seen(sender, sequence)
    PROVE  AbstractStep /\ Flushed' /\ Due'
<1>1. ASSUME NEW key \in Keys, NEW sequence \in inHand, NEW expires_at \in Expiries,
             commit_vote(key, sequence, expires_at)
      PROVE  AbstractStep /\ Flushed' /\ Due'
  <2>1. Start("commit_vote", Vote(key, OutgoingFrame(sequence, key, expires_at))) /\ key \notin live.locks
    BY <1>1 DEF commit_vote
  <2>2. /\ J!Call("commit_vote", Vote(key, OutgoingFrame(sequence, key, expires_at)))
        /\ AbstractState = live /\ Flushed' /\ Due'
    BY <2>1, CallMaps DEF Mutators
  <2>3. J!commit_vote(key, sequence, expires_at)
    BY <2>1, <2>2, SameRecords DEF J!commit_vote
  <2>4. expires_at \in J!Expiries
    BY SameRecords
  <2> QED BY <2>2, <2>3, <2>4 DEF AbstractStep, J!Next
<1>2. ASSUME reserve_sequence
      PROVE  AbstractStep /\ Flushed' /\ Due'
  <2>0. PICK e : e = Sequence(live.next_sequence + 1)
    OBVIOUS
  <2>1. Start("reserve_sequence", e) /\ live.next_sequence < MaxSequence
    BY <1>2, <2>0 DEF reserve_sequence
  <2>2. J!Call("reserve_sequence", e) /\ AbstractState = live /\ Flushed' /\ Due'
    BY <2>1, CallMaps DEF Mutators
  <2>3. e = J!Sequence(AbstractState.next_sequence + 1)
    BY <2>0, <2>2, SameRecords
  <2>4. J!reserve_sequence
    BY <2>1, <2>2, <2>3 DEF J!reserve_sequence, J!Call
  <2> QED BY <2>2, <2>4 DEF AbstractStep, J!Next
<1>3. ASSUME NEW f \in live.pending, acknowledge(f.sequence)
      PROVE  AbstractStep /\ Flushed' /\ Due'
  <2>1. Start("acknowledge", Retired(f.sequence))
    BY <1>3 DEF acknowledge
  <2>2. J!Call("acknowledge", Retired(f.sequence)) /\ AbstractState = live /\ Flushed' /\ Due'
    BY <2>1, CallMaps DEF Mutators
  <2>3. J!acknowledge(f.sequence)
    BY <2>2, SameRecords DEF J!acknowledge
  <2> QED BY <2>2, <2>3 DEF AbstractStep, J!Next
<1>4. ASSUME NEW author \in Authors, NEW frame \in 0 .. MaxSequence, witness(author, frame)
      PROVE  AbstractStep /\ Flushed' /\ Due'
  <2>1. Start("witness", Witnessed(author, frame)) /\ live.witnessed[author] = None
    BY <1>4 DEF witness
  <2>2. J!Call("witness", Witnessed(author, frame)) /\ AbstractState = live /\ Flushed' /\ Due'
    BY <2>1, CallMaps DEF Mutators
  <2>3. J!witness(author, frame)
    BY <2>1, <2>2, SameRecords DEF J!witness
  <2> QED BY <2>2, <2>3 DEF AbstractStep, J!Next
<1>5. ASSUME NEW epoch \in Epochs, enter_epoch(epoch)
      PROVE  AbstractStep /\ Flushed' /\ Due'
  <2>1. Start("enter_epoch", Epoch(epoch)) /\ live.epoch < epoch
    BY <1>5 DEF enter_epoch
  <2>2. J!Call("enter_epoch", Epoch(epoch)) /\ AbstractState = live /\ Flushed' /\ Due'
    BY <2>1, CallMaps DEF Mutators
  <2>3. J!enter_epoch(epoch)
    BY <2>1, <2>2, SameRecords DEF J!enter_epoch
  <2> QED BY <2>2, <2>3 DEF AbstractStep, J!Next
<1>6. ASSUME NEW sender \in Senders, NEW sequence \in 0 .. MaxSequence, mark_seen(sender, sequence)
      PROVE  AbstractStep /\ Flushed' /\ Due'
  <2>1. Start("mark_seen", Seen(sender, sequence)) /\ live.seen[sender] < sequence
    BY <1>6 DEF mark_seen
  <2>2. J!Call("mark_seen", Seen(sender, sequence)) /\ AbstractState = live /\ Flushed' /\ Due'
    BY <2>1, CallMaps DEF Mutators
  <2>3. J!mark_seen(sender, sequence)
    BY <2>1, <2>2, SameRecords DEF J!mark_seen
  <2> QED BY <2>2, <2>3 DEF AbstractStep, J!Next
<1> QED BY <1>1, <1>2, <1>3, <1>4, <1>5, <1>6

\* The steps in memory change nothing the caller can see, but for the retiring
\* of one frame of a sweep.
LEMMA MemoryRefines ==
    ASSUME RefInv,
           (\E now \in Times : drop_expired(now)) \/ sweep_next \/ pending \/ compact_now
    PROVE  AbstractStep /\ Flushed' /\ Due'
<1>1. ASSUME NEW now \in Times, drop_expired(now)
      PROVE  AbstractStep /\ Flushed' /\ Due'
  <2>1. /\ phase = "idle" /\ phase' = "sweep"
        /\ job' = [op |-> "drop_expired", entry |-> <<>>, todo |-> {f.sequence : f \in Expired(now)}]
        /\ UNCHANGED <<files, dir, dirOnDisk, handle, live, handed, inHand, votes, acknowledged>>
    BY <1>1 DEF drop_expired, client
  <2>2. job.entry = <<>> /\ job'.entry = <<>> /\ job'.todo = {f.sequence : f \in Expired(now)}
    BY <2>1, NoJobFacts DEF RefInv, LogInv, JobMatches
  <2>3. UNCHANGED <<AbstractState, AbstractCall, AbstractDone>>
    BY <2>1, <2>2 DEF AbstractState, AbstractCall, AbstractDone
  <2>4. Flushed'
    BY <2>1 DEF RefInv, Flushed
  <2>5. Due'
    BY <2>1, <2>2 DEF Due, Expired
  <2> QED BY <2>1, <2>3, <2>4, <2>5, Stutters
<1>2. ASSUME sweep_next
      PROVE  AbstractStep /\ Flushed' /\ Due'
  <2>0. /\ phase = "sweep" /\ job.op = "drop_expired" /\ job.entry = <<>> /\ job \in Jobs
        /\ IsFiniteSet(job.todo) /\ job.todo \in SUBSET Nat
        /\ UNCHANGED <<files, dir, dirOnDisk, handle, live, handed, inHand, votes, acknowledged>>
    BY <1>2 DEF sweep_next, RefInv, LogInv, LogTypes, JobMatches, Jobs
  <2>1. CASE job.todo = {}
    <3>1. phase' = "settled" /\ job' = job
      BY <1>2, <2>1 DEF sweep_next
    <3>2. UNCHANGED <<AbstractState, AbstractCall, AbstractDone>>
      BY <2>0, <3>1 DEF AbstractState, AbstractCall, AbstractDone
    <3>3. Flushed' /\ Due'
      BY <2>0, <3>1 DEF RefInv, Flushed, Due
    <3> QED BY <2>0, <3>2, <3>3, Stutters
  <2>2. CASE job.todo # {}
    <3>0. PICK n : n = Min(job.todo)
      OBVIOUS
    <3>1. n \in job.todo
      BY <2>0, <2>2, <3>0, MinOf
    <3>2. /\ phase' = "append"
          /\ job' = [job EXCEPT !.entry = <<Retired(n)>>, !.todo = job.todo \ {n}]
      BY <1>2, <2>2, <3>0 DEF sweep_next
    <3> DEFINE e == Retired(n)
               T == job.todo \ {n}
    <3>3. /\ e.sequence = n /\ <<e>>[1] = e /\ <<e>> # <<>>
          /\ n \notin T /\ T \in SUBSET job.todo /\ e = J!Retired(n)
      BY SameRecords DEF Retired
    <3> HIDE DEF e, T
    <3>4. job'.op = "drop_expired" /\ job'.entry = <<e>> /\ job'.todo = T
      BY <2>0, <3>2 DEF Jobs, e, T
    <3>5. PICK f \in live.pending : f.sequence = n /\ f.expires_at # {}
      BY <3>1 DEF RefInv, Due
    <3>6. AbstractCall = [op |-> "none"] /\ AbstractCall' = [op |-> "drop_expired", entry |-> e]
      BY <2>0, <3>3, <3>4 DEF AbstractCall
    <3>7. AbstractState = live /\ AbstractState' = live /\ AbstractDone' = AbstractDone
      BY <2>0, <3>2 DEF AbstractState, AbstractDone
    <3>8. J!drop_expired(f)
      BY <2>0, <3>3, <3>5, <3>6, <3>7, SameRecords DEF J!drop_expired, J!Call
    <3>9. Flushed'
      BY <2>0, <3>2 DEF RefInv, Flushed
    <3>10. Due'
      BY <2>0, <3>3, <3>4 DEF RefInv, Due
    <3> QED BY <3>5, <3>7, <3>8, <3>9, <3>10 DEF AbstractStep, J!Next
  <2> QED BY <2>1, <2>2
<1>3. ASSUME pending
      PROVE  AbstractStep /\ Flushed' /\ Due'
  <2>1. UNCHANGED <<files, dir, dirOnDisk, handle, live, phase, job, handed, inHand, votes, acknowledged>>
    BY <1>3 DEF pending
  <2>2. UNCHANGED <<AbstractState, AbstractCall, AbstractDone>>
    BY <2>1 DEF AbstractState, AbstractCall, AbstractDone
  <2>3. Flushed' /\ Due'
    BY <2>1 DEF RefInv, Flushed, Due
  <2> QED BY <2>1, <2>2, <2>3, Stutters
<1>4. ASSUME compact_now
      PROVE  AbstractStep /\ Flushed' /\ Due'
  <2>1. /\ phase = "idle" /\ phase' = "settled"
        /\ job' = [op |-> "compact", entry |-> <<>>, todo |-> {}]
        /\ UNCHANGED <<files, dir, dirOnDisk, handle, live, handed, inHand, votes, acknowledged>>
    BY <1>4 DEF compact_now, client
  <2>2. job.entry = <<>> /\ job'.entry = <<>> /\ job'.todo = {} /\ job'.op = "compact"
    BY <2>1, NoJobFacts DEF RefInv, LogInv, JobMatches
  <2>3. UNCHANGED <<AbstractState, AbstractCall, AbstractDone>>
    BY <2>1, <2>2 DEF AbstractState, AbstractCall, AbstractDone
  <2>4. Flushed' /\ Due'
    BY <2>1, <2>2 DEF RefInv, Flushed, Due
  <2> QED BY <2>1, <2>3, <2>4, Stutters
<1> QED BY <1>1, <1>2, <1>3, <1>4

\* Opening reads what the abstract state already is; on an empty log it also
\* calls the first mutator.
LEMMA OpenRefines ==
    ASSUME RefInv, Open
    PROVE  AbstractStep /\ Flushed' /\ Due'
<1> DEFINE file == files[dir]
           good == Whole(file.recs)
           cut == IF good = file.recs THEN file ELSE [recs |-> good, synced |-> Len(good)]
           fs == [files EXCEPT ![dir] = cut]
<1>1. /\ phase = "down" /\ files' = Keep(fs, {dir}) /\ live' = replay(file.recs)
      /\ dirOnDisk' = {dir} /\ handle' = dir
      /\ UNCHANGED <<dir, handed, inHand, votes, acknowledged>>
  BY DEF Open, client
<1>2. /\ files \in FileTypes /\ dir \in Inodes /\ dir \in dirOnDisk /\ job = NoJob
      /\ file.synced = Len(file.recs)
  BY <1>1 DEF RefInv, LogInv, LogTypes, Placed, JobMatches, Flushed, FileTypes
<1>3. files'[dir] = cut
  BY <1>1, <1>2 DEF Keep, FileTypes
<1>4. cut.synced = Len(cut.recs)
  BY <1>2
<1>5. \/ phase' = "idle" /\ job' = NoJob
      \/ /\ phase' = "append" /\ live'.next_sequence = 0
         /\ \E start \in Starts :
              job' = [op |-> "open_with_entropy", entry |-> <<Sequence(start)>>, todo |-> {}]
  BY <1>1 DEF Open
<1>6. AbstractState = live' /\ ~AbstractDone /\ AbstractCall = [op |-> "none"]
  BY <1>1, <1>2, NoJobFacts DEF AbstractState, AbstractDone, AbstractCall
<1>7. phase' \in {"idle", "append"} /\ AbstractState' = live' /\ ~AbstractDone'
  BY <1>5 DEF AbstractState, AbstractDone
<1>8. AbstractDone' = AbstractDone
  BY <1>6, <1>7 DEF AbstractDone
<1> HIDE DEF cut
<1>9. Flushed'
  BY <1>1, <1>3, <1>4, <1>7 DEF Flushed
<1>10. CASE phase' = "idle" /\ job' = NoJob
  <2>1. AbstractCall' = AbstractCall
    BY <1>2, <1>10 DEF AbstractCall
  <2>2. Due'
    BY <1>10, NoJobFacts DEF Due
  <2> QED BY <1>1, <1>6, <1>7, <1>8, <1>9, <2>1, <2>2, Stutters
<1>11. ASSUME phase' = "append", live'.next_sequence = 0, NEW start \in Starts,
              job' = [op |-> "open_with_entropy", entry |-> <<Sequence(start)>>, todo |-> {}]
       PROVE  AbstractStep /\ Flushed' /\ Due'
  <2>1. /\ job'.op = "open_with_entropy" /\ job'.entry = <<Sequence(start)>> /\ job'.todo = {}
        /\ job'.entry # <<>> /\ job'.entry[1] = Sequence(start)
    BY <1>11
  <2>2. AbstractCall' = [op |-> "open_with_entropy", entry |-> Sequence(start)]
    BY <2>1 DEF AbstractCall
  <2>3. J!open_with_entropy(start)
    BY <1>1, <1>6, <1>7, <1>8, <1>11, <2>2, SameRecords DEF J!open_with_entropy, J!Call
  <2>4. Due'
    BY <2>1 DEF Due
  <2> QED BY <1>9, <1>11, <2>3, <2>4 DEF AbstractStep, J!Next
<1> QED BY <1>5, <1>10, <1>11

\* While a record is being written, the abstract mutator is in progress.
LEMMA WritingMaps ==
    ASSUME RefInv, phase \in {"append", "written"}
    PROVE  /\ AbstractState = live /\ ~AbstractDone /\ J!InProgress
           /\ AbstractCall = [op |-> job.op, entry |-> job.entry[1]]
           /\ job.entry # <<>> /\ Len(job.entry) = 1 /\ Called(job.entry[1])
           /\ job.entry \in Seq(Entry) /\ job.entry[1] \in Entry
           /\ handle = dir /\ dirOnDisk = {dir} /\ dir \in Inodes /\ files \in FileTypes
           /\ Sound(files[handle]) /\ job \in Jobs /\ live \in State
<1>1. /\ Len(job.entry) = 1 /\ Called(job.entry[1]) /\ job.entry \in Seq(Entry) /\ job \in Jobs
      /\ handle = dir /\ dirOnDisk = {dir} /\ dir \in Inodes /\ files \in FileTypes
      /\ Sound(files[handle])
  BY DEF RefInv, LogInv, JobMatches, LogTypes, Placed, Jobs, FileTypes
<1>2. job.entry # <<>> /\ job.entry[1] \in Entry
  BY <1>1
<1>3. AbstractState = live /\ ~AbstractDone
  BY DEF AbstractState, AbstractDone
<1>4. AbstractCall = [op |-> job.op, entry |-> job.entry[1]]
  BY <1>2 DEF AbstractCall
<1>5. job.op # "none"
  BY <1>1 DEF Called
<1>6. J!InProgress
  BY <1>4, <1>5, SameRecords DEF J!InProgress
<1>7. live \in State
  BY LiveKeeps DEF RefInv, Well
<1> QED BY <1>1, <1>2, <1>3, <1>4, <1>6, <1>7

\* Writing the record changes nothing yet.
LEMMA WriteRefines ==
    ASSUME RefInv, write_all
    PROVE  AbstractStep /\ Flushed' /\ Due'
<1> DEFINE file == files[handle]
           recs == file.recs
           new == recs \o job.entry
<1>1. /\ phase = "append" /\ phase' = "written"
      /\ files' = [files EXCEPT ![handle].recs = new]
      /\ UNCHANGED <<dir, dirOnDisk, handle, live, job, handed, inHand, votes, acknowledged>>
  BY DEF write_all, Write, client
<1>2. UNCHANGED <<AbstractState, AbstractCall, AbstractDone>>
  BY <1>1 DEF AbstractState, AbstractCall, AbstractDone
<1>3. /\ files \in FileTypes /\ handle \in Inodes /\ Sound(file) /\ Len(job.entry) = 1
      /\ handle \in dirOnDisk /\ job.entry \in Seq(Entry)
  BY <1>1, WritingMaps
<1>4. file.synced = Len(recs)
  BY <1>1, <1>3 DEF RefInv, Flushed
<1>5. recs \in Seq(Entry) /\ Len(recs) \in Nat
  BY <1>3 DEF Sound
<1>6. Len(new) = Len(recs) + 1
  <2>1. Len(new) = Len(recs) + Len(job.entry)
    BY <1>3, <1>5, ConcatLen
  <2> QED BY <1>3, <2>1
<1> HIDE DEF new
<1>7. files'[handle].recs = new /\ files'[handle].synced = file.synced
  BY <1>1, <1>3 DEF FileTypes
<1>8. files'[handle].synced = Len(files'[handle].recs) - 1
  BY <1>4, <1>5, <1>6, <1>7
<1>9. Flushed'
  BY <1>1, <1>8 DEF Flushed
<1>10. Due'
  BY <1>1 DEF RefInv, Due
<1> QED BY <1>1, <1>2, <1>9, <1>10, Stutters

\* A refused write is the abstract refusal.
LEMMA WriteFailsRefines ==
    ASSUME RefInv, CleanFaults, write_fails
    PROVE  AbstractStep /\ Flushed' /\ Due'
<1>1. /\ phase = "append" /\ NotDurable
      /\ UNCHANGED <<files, dir, dirOnDisk, handle, live, handed, inHand, votes, acknowledged>>
  BY DEF write_fails, Fault, CleanFaults
<1>2. /\ AbstractState = live /\ ~AbstractDone /\ J!InProgress /\ handle = dir /\ dirOnDisk = {dir}
      /\ Sound(files[handle]) /\ job \in Jobs
  BY <1>1, WritingMaps
<1>3. live = replay(files[dir].recs)
  <2>1. live = Replayed(files[dir].recs) /\ files[dir].recs \in Seq(Entry)
    BY <1>1, <1>2 DEF RefInv, Agrees, Sound
  <2> QED BY <2>1, WholeLog
<1>4. /\ phase' \in {"sweep", "down", "idle"} /\ job'.entry = <<>>
      /\ job'.todo = job.todo \/ job'.todo = {}
  <2>1. CASE job.op = "drop_expired"
    <3>1. phase' = "sweep" /\ job' = [job EXCEPT !.entry = <<>>]
      BY <1>1, <2>1 DEF NotDurable
    <3> QED BY <1>2, <3>1, EntryCleared
  <2>2. CASE job.op # "drop_expired"
    BY <1>1, <2>2, NoJobFacts DEF NotDurable
  <2> QED BY <2>1, <2>2
<1>5. AbstractState' = AbstractState
  BY <1>1, <1>2, <1>3 DEF AbstractState
<1>6. AbstractCall' = J!NoCall
  BY <1>4, SameRecords DEF AbstractCall
<1>7. AbstractDone' = AbstractDone
  BY <1>1, <1>4 DEF AbstractDone
<1>8. J!Refuse
  BY <1>1, <1>2, <1>5, <1>6, <1>7 DEF J!Refuse
<1>9. Flushed'
  BY <1>1, <1>2, <1>4 DEF RefInv, Flushed
<1>10. Due'
  BY <1>1, <1>4 DEF RefInv, Due
<1> QED BY <1>8, <1>9, <1>10 DEF AbstractStep, J!Next

\* The flush is the instant at which the abstract mutator takes effect.
LEMMA SyncRefines ==
    ASSUME RefInv, sync_all
    PROVE  AbstractStep /\ Flushed' /\ Due'
<1>e. PICK e : e = job.entry[1]
  OBVIOUS
<1> DEFINE m == Len(files[handle].recs)
<1>1. /\ phase = "written" /\ phase' = "settled" /\ live' = Settle(e)
      /\ files' = [files EXCEPT ![handle].synced = m]
      /\ UNCHANGED <<dir, dirOnDisk, handle, job, handed, inHand, votes, acknowledged>>
  BY <1>e DEF sync_all, client
<1>2. /\ AbstractState = live /\ ~AbstractDone /\ J!InProgress
      /\ AbstractCall = [op |-> job.op, entry |-> e] /\ job.entry # <<>>
      /\ Called(e) /\ e \in Entry /\ live \in State
      /\ handle = dir /\ dirOnDisk = {dir} /\ dir \in Inodes /\ files \in FileTypes
  BY <1>1, <1>e, WritingMaps
<1>3. live' = apply(live, e)
  BY <1>1, <1>2, SettleIsApply
<1>4. AbstractState' = apply(AbstractState, AbstractCall.entry)
  BY <1>1, <1>2, <1>3 DEF AbstractState
<1>5. AbstractDone' = TRUE
  BY <1>1, <1>2 DEF AbstractDone
<1>6. AbstractCall' = AbstractCall
  BY <1>1 DEF AbstractCall
<1>7. J!Execute
  BY <1>1, <1>2, <1>4, <1>5, <1>6, SameRecords DEF J!Execute
<1> HIDE DEF m
<1>8. files'[handle].synced = m /\ files'[handle].recs = files[handle].recs
  BY <1>1, <1>2 DEF FileTypes
<1>9. Flushed'
  BY <1>1, <1>2, <1>8 DEF Flushed, m
<1>10. ASSUME NEW n \in job.todo
       PROVE  \E f \in live'.pending : f.sequence = n /\ f.expires_at # {}
  <2>1. job.op = "drop_expired"
    BY <1>10 DEF RefInv, LogInv, JobMatches
  <2>2. e.kind = "Retired" /\ e.sequence # n
    <3>1. e.kind = "Retired"
      BY <1>2, <2>1 DEF Called
    <3>2. e.sequence \notin job.todo
      BY <1>1, <1>e, <2>1 DEF RefInv, Due
    <3> QED BY <1>10, <3>1, <3>2
  <2>3. live'.pending = RemoveFrame(live.pending, e.sequence)
    BY <1>2, <1>3, <2>2, ApplyFields
  <2>4. PICK f \in live.pending : f.sequence = n /\ f.expires_at # {}
    BY <1>10 DEF RefInv, Due
  <2>5. f \in live'.pending
    BY <2>2, <2>3, <2>4 DEF RemoveFrame
  <2> QED BY <2>4, <2>5
<1>11. Due'
  BY <1>1, <1>10 DEF Due
<1> QED BY <1>7, <1>9, <1>11 DEF AbstractStep, J!Next

\* The return to the caller is the abstract answer; the end of a sweep and a
\* compaction asked for on its own answer nothing.
LEMMA ReturnMaps ==
    ASSUME RefInv, phase \in {"settled", "renamed"}, Return, live' = live,
           dir' = dir, handle' = dir, dirOnDisk' = {dir}, files'[dir] = files[dir]
    PROVE  AbstractStep /\ Flushed' /\ Due'
<1>1. phase' \in {"sweep", "idle"} /\ job \in Jobs /\ dir \in dirOnDisk
  BY DEF Return, RefInv, LogInv, LogTypes, Jobs, Placed
<1>2. job'.entry = <<>> /\ (job'.todo = job.todo \/ job'.todo = {})
  <2>1. CASE Sweeping
    <3>1. job' = [job EXCEPT !.entry = <<>>]
      BY <2>1 DEF Return
    <3> QED BY <1>1, <3>1, EntryCleared
  <2>2. CASE ~Sweeping
    BY <2>2, NoJobFacts DEF Return
  <2> QED BY <2>1, <2>2
<1>3. AbstractState = live /\ AbstractState' = live
  BY <1>1 DEF AbstractState
<1>4. AbstractCall' = J!NoCall
  BY <1>2, SameRecords DEF AbstractCall
<1>5. AbstractDone' = FALSE
  BY <1>1 DEF AbstractDone
<1>6. Flushed'
  BY <1>1 DEF RefInv, Flushed
<1>7. Due'
  BY <1>1, <1>2 DEF RefInv, Due
<1>8. CASE job.entry # <<>>
  <2>1. AbstractDone /\ AbstractCall = [op |-> job.op, entry |-> job.entry[1]]
    BY <1>8 DEF AbstractDone, AbstractCall
  <2>2. AbstractCall.op = job.op /\ AbstractCall.entry = job.entry[1]
    BY <2>1
  <2>3. J!Answer
    BY <1>3, <1>4, <1>5, <2>1, <2>2 DEF J!Answer, Return
  <2> QED BY <1>6, <1>7, <2>3 DEF AbstractStep, J!Next
<1>9. CASE job.entry = <<>>
  <2>1. job.op \in {"compact", "drop_expired"}
    BY <1>9 DEF RefInv, LogInv, JobMatches
  <2>2. UNCHANGED <<handed, inHand, votes, acknowledged>>
    BY <2>1 DEF Return
  <2>3. AbstractCall' = AbstractCall
    BY <1>4, <1>9, SameRecords DEF AbstractCall
  <2>4. AbstractDone' = AbstractDone
    BY <1>5, <1>9 DEF AbstractDone
  <2> QED BY <1>3, <1>6, <1>7, <2>2, <2>3, <2>4, Stutters
<1> QED BY <1>8, <1>9

\* Every way back to the caller is such a return.
LEMMA ReturnsRefine ==
    ASSUME RefInv, CleanFaults, return_without_compacting \/ compact_reopen \/ compact_fails
    PROVE  AbstractStep /\ Flushed' /\ Due'
<1>1. /\ dir \in Inodes /\ handle \in Inodes /\ files \in FileTypes
      /\ phase = "settled" => handle = dir /\ dirOnDisk = {dir}
  BY DEF RefInv, LogInv, LogTypes, Placed, FileTypes
<1>2. CASE return_without_compacting
  <2>1. /\ phase = "settled" /\ Return
        /\ UNCHANGED <<files, dir, dirOnDisk, handle, live>>
    BY <1>2 DEF return_without_compacting
  <2> QED BY <1>1, <2>1, ReturnMaps
<1>3. CASE compact_reopen
  <2>1. /\ phase = "renamed" /\ Return /\ files' = Keep(files, {dir})
        /\ dirOnDisk' = {dir} /\ handle' = dir /\ UNCHANGED <<dir, live>>
    BY <1>3 DEF compact_reopen
  <2>2. files'[dir] = files[dir]
    BY <1>1, <2>1, KeptFiles
  <2> QED BY <2>1, <2>2, ReturnMaps
<1>4. CASE compact_fails
  <2>1. /\ phase = "settled" /\ Return /\ UNCHANGED <<dir, dirOnDisk, handle, live>>
        /\ files' = Keep(files, dirOnDisk' \cup {dir, handle})
    BY <1>4 DEF compact_fails, Compacting, Fault, CleanFaults
  <2>2. files'[dir] = files[dir]
    BY <1>1, <2>1, KeptFiles
  <2> QED BY <1>1, <2>1, <2>2, ReturnMaps
<1> QED BY <1>2, <1>3, <1>4

\* Renaming the compacted file over the log changes nothing.
LEMMA RenameRefines ==
    ASSUME RefInv, compact_rename
    PROVE  AbstractStep /\ Flushed' /\ Due'
<1>0. phase = "settled" /\ phase' = "renamed"
  BY DEF compact_rename, Compacting
<1>c. PICK c : c = CompactedEntries
  OBVIOUS
<1>1. PICK fresh \in Inodes \ (dirOnDisk \cup {dir, handle}) :
        /\ files' = [files EXCEPT ![fresh] = [recs |-> c, synced |-> Len(c)]]
        /\ dirOnDisk' = dirOnDisk \cup {fresh}
  BY <1>c DEF compact_rename
<1>2. UNCHANGED <<handle, live, job, handed, inHand, votes, acknowledged>>
  BY DEF compact_rename, client
<1>3. UNCHANGED <<AbstractState, AbstractCall, AbstractDone>>
  BY <1>0, <1>2 DEF AbstractState, AbstractCall, AbstractDone
<1>4. files \in FileTypes /\ dirOnDisk \in SUBSET Inodes
  BY DEF RefInv, LogInv, LogTypes, FileTypes
<1>5. \A i \in dirOnDisk' : files'[i].synced = Len(files'[i].recs)
  <2>1. files'[fresh].synced = Len(files'[fresh].recs)
    BY <1>1, <1>4 DEF FileTypes
  <2>2. \A i \in dirOnDisk : files'[i] = files[i]
    BY <1>1, <1>4 DEF FileTypes
  <2> QED BY <1>0, <1>1, <2>1, <2>2 DEF RefInv, Flushed
<1>6. Flushed'
  BY <1>0, <1>5 DEF Flushed
<1>7. Due'
  BY <1>0, <1>2 DEF RefInv, Due
<1> QED BY <1>2, <1>3, <1>6, <1>7, Stutters

\* A power cut leaves what memory held, with or without the record in flight.
LEMMA PowerRefines ==
    ASSUME RefInv, PowerCut
    PROVE  AbstractStep /\ Flushed' /\ Due'
<1>1. /\ phase # "down" /\ phase' = "down" /\ job' = NoJob /\ inHand' = {}
      /\ UNCHANGED <<handed, votes, acknowledged>>
  BY DEF PowerCut, Crashed
<1>2. /\ files \in FileTypes /\ dirOnDisk \in SUBSET Inodes
      /\ \A i \in dirOnDisk : Sound(files[i])
  BY <1>1 DEF RefInv, LogInv, LogTypes, Placed, FileTypes
<1>3. PICK i \in dirOnDisk : \E recs \in Survivors(files[i]) :
        /\ dir' = i /\ dirOnDisk' = {i}
        /\ files' = Keep([files EXCEPT ![i] = [recs |-> recs, synced |-> Len(recs)]], {i})
  BY DEF PowerCut
<1>4. PICK recs \in Survivors(files[i]) :
        /\ dir' = i /\ dirOnDisk' = {i}
        /\ files' = Keep([files EXCEPT ![i] = [recs |-> recs, synced |-> Len(recs)]], {i})
  BY <1>3
<1> DEFINE file == files[i]
<1>5. Sound(file) /\ i \in Inodes
  BY <1>2
<1>6. files'[i] = [recs |-> recs, synced |-> Len(recs)]
  BY <1>2, <1>4, <1>5 DEF Keep, FileTypes
<1> HIDE DEF file
<1>7. PICK n \in file.synced .. Len(file.recs) : replay(recs) = Replayed(SubSeq(file.recs, 1, n))
  <2>1. recs \in Survivors(file)
    BY <1>4 DEF file
  <2> QED BY <1>5, <2>1, SoundSurvivors
<1>8. file.recs \in Seq(Entry) /\ Len(file.recs) \in Nat /\ file.synced \in Nat
  BY <1>5 DEF Sound
<1>9. AbstractState' = replay(recs)
  BY <1>1, <1>4, <1>6 DEF AbstractState
<1>10. AbstractState = live /\ AbstractCall' = J!NoCall /\ AbstractDone' = FALSE
  BY <1>1, NoJobFacts, SameRecords DEF AbstractState, AbstractCall, AbstractDone
<1>11. \/ AbstractState' = AbstractState
       \/ J!InProgress /\ ~AbstractDone /\ AbstractState' = apply(AbstractState, AbstractCall.entry)
  <2>1. CASE phase # "written"
    <3>1. file.synced = Len(file.recs)
      BY <2>1 DEF RefInv, Flushed, file
    <3>2. n = Len(file.recs) /\ SubSeq(file.recs, 1, Len(file.recs)) = file.recs
      BY <1>7, <1>8, <3>1
    <3>3. live = Replayed(file.recs)
      BY <1>1, <2>1 DEF RefInv, LogInv, Placed, Agrees, Tracks, file
    <3> QED BY <1>7, <1>9, <1>10, <3>2, <3>3
  <2>2. CASE phase = "written"
    <3>e. PICK e : e = job.entry[1]
      OBVIOUS
    <3>1. /\ ~AbstractDone /\ J!InProgress /\ AbstractCall = [op |-> job.op, entry |-> e]
          /\ e \in Entry /\ i = handle
      BY <2>2, <3>e, WritingMaps
    <3> DEFINE log == SubSeq(file.recs, 1, Len(file.recs) - 1)
    <3>2. /\ file.synced = Len(file.recs) - 1 /\ live = Replayed(log)
          /\ job.entry = <<file.recs[Len(file.recs)]>>
      BY <2>2, <3>1 DEF RefInv, Flushed, LogInv, Tracks, Agrees, file
    <3>3. CASE n = Len(file.recs) - 1
      BY <1>7, <1>9, <1>10, <3>2, <3>3
    <3>4. CASE n = Len(file.recs)
      <4>1. e = file.recs[Len(file.recs)]
        BY <3>e, <3>2
      <4>2. /\ log \in Seq(Entry) /\ Len(log) + 1 = Len(file.recs)
            /\ \A k \in 1 .. Len(log) : file.recs[k] = log[k]
        BY <1>8, <3>2
      <4>3. Longer(log, e, file.recs)
        <5> HIDE DEF log
        <5> QED BY <4>1, <4>2 DEF Longer
      <4>4. Replayed(file.recs) = apply(Replayed(log), e)
        BY <1>8, <3>1, <4>2, <4>3, ReplayedLonger
      <4>5. SubSeq(file.recs, 1, Len(file.recs)) = file.recs
        BY <1>8
      <4>6. AbstractState' = apply(live, e)
        BY <1>7, <1>9, <3>2, <3>4, <4>4, <4>5
      <4> QED BY <1>10, <3>1, <4>6
    <3> QED BY <1>7, <1>8, <3>2, <3>3, <3>4
  <2> QED BY <2>1, <2>2
<1>12. J!Crash
  BY <1>1, <1>10, <1>11, SameRecords DEF J!Crash
<1>13. Flushed'
  BY <1>1, <1>4, <1>6 DEF Flushed
<1>14. Due'
  BY <1>1, NoJobFacts DEF Due
<1> QED BY <1>12, <1>13, <1>14 DEF AbstractStep, J!Next

\* A new log is the abstract journal's initial state.
LEMMA InitRefines ==
    ASSUME Init
    PROVE  J!Init /\ Flushed /\ Due
<1>1. FirstInode \in Inodes
  BY LogConstants DEF FirstInode
<1>2. files[dir] = EmptyFile /\ dirOnDisk = {dir} /\ phase = "down" /\ job = NoJob
  BY <1>1 DEF Init
<1>3. files[dir].recs = <<>> /\ files[dir].synced = 0
  BY <1>2 DEF EmptyFile
<1>4. AbstractState = EmptyState
  <2> DEFINE log == <<>>
  <2>1. log \in Seq(Entry) /\ Replayed(log) = EmptyState
    BY ReplayedEmpty
  <2> HIDE DEF log
  <2>2. replay(log) = EmptyState
    BY <2>1, WholeLog
  <2> QED BY <1>2, <1>3, <2>2 DEF AbstractState, log
<1>5. AbstractCall = J!NoCall
  BY <1>2, NoJobFacts, SameRecords DEF AbstractCall
<1>6. AbstractDone = FALSE
  BY <1>2 DEF AbstractDone
<1>7. J!Init
  BY <1>4, <1>5, <1>6, SameRecords DEF J!Init, Init
<1>8. Flushed
  BY <1>2, <1>3 DEF Flushed
<1>9. Due
  BY <1>2, NoJobFacts DEF Due
<1> QED BY <1>7, <1>8, <1>9

\* The append-only log implements the abstract journal (log.rs against the
\* trait of journal.rs): seen by its caller, every mutator is one step that a
\* power cut at any instant, of any number, leaves done or not begun, and that
\* a refused write leaves not begun.
THEOREM LogImplementsJournal ==
    ASSUME CleanFaults, PowerOnly
    PROVE  Spec => ImplementsJournal
<1>1. Init => J!Init /\ Flushed /\ Due
  BY InitRefines
<1>2. ASSUME RefInv, [Next]_vars
      PROVE  AbstractStep /\ Flushed' /\ Due'
  <2>1. CASE UNCHANGED vars
    <3>1. UNCHANGED <<files, dir, dirOnDisk, handle, live, phase, job, handed, inHand, votes,
                      acknowledged>>
      BY <2>1 DEF vars
    <3>2. UNCHANGED <<AbstractState, AbstractCall, AbstractDone>>
      BY <3>1 DEF AbstractState, AbstractCall, AbstractDone
    <3>3. Flushed' /\ Due'
      BY <1>2, <3>1 DEF RefInv, Flushed, Due
    <3> QED BY <3>1, <3>2, <3>3, Stutters
  <2>2. CASE Open
    BY <1>2, <2>2, OpenRefines
  <2>3. CASE \/ \E key \in Keys, sequence \in inHand, expires_at \in Expiries :
                   commit_vote(key, sequence, expires_at)
             \/ reserve_sequence
             \/ \E f \in live.pending : acknowledge(f.sequence)
             \/ \E author \in Authors, frame \in 0 .. MaxSequence : witness(author, frame)
             \/ \E epoch \in Epochs : enter_epoch(epoch)
             \/ \E sender \in Senders, sequence \in 0 .. MaxSequence : mark_seen(sender, sequence)
    BY <1>2, <2>3, CallsRefine
  <2>4. CASE (\E now \in Times : drop_expired(now)) \/ sweep_next \/ pending \/ compact_now
    BY <1>2, <2>4, MemoryRefines
  <2>5. CASE write_all \/ sync_all
    BY <1>2, <2>5, WriteRefines, SyncRefines
  <2>6. CASE write_fails
    BY <1>2, <2>6, WriteFailsRefines
  <2>7. CASE sync_fails
    BY <2>7 DEF sync_fails, Fault, CleanFaults
  <2>8. CASE return_without_compacting \/ compact_reopen \/ compact_fails
    BY <1>2, <2>8, ReturnsRefine
  <2>9. CASE compact_rename
    BY <1>2, <2>9, RenameRefines
  <2>10. CASE Kill
    BY <2>10 DEF Kill, PowerOnly
  <2>11. CASE PowerCut
    BY <1>2, <2>11, PowerRefines
  <2> QED BY <1>2, <2>1, <2>2, <2>3, <2>4, <2>5, <2>6, <2>7, <2>8, <2>9, <2>10, <2>11 DEF Next
<1>3. RefInv /\ [Next]_vars => [J!Next]_(J!vars) /\ Flushed' /\ Due'
  BY <1>2 DEF AbstractStep
<1>4. LogInv /\ Agrees /\ Flushed /\ Due => RefInv
  BY DEF RefInv
<1> QED BY <1>1, <1>3, <1>4, MemoryAgrees, PTL DEF Spec, ImplementsJournal, J!Spec
=============================================================================
