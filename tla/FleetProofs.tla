---------------------------- MODULE FleetProofs ----------------------------
(***************************************************************************)
(* Proofs about the fleet, for any members, openers, adversaries, attempts *)
(* and repair rounds and any number of crashes and refused writes: no      *)
(* nonce is used twice, one binding frame per member, what is counted is   *)
(* committed, what was restored is counted, what is counted was witnessed, *)
(* what is acknowledged is durable.                                        *)
(***************************************************************************)
EXTENDS Fleet, FiniteSetTheorems, TLAPS

LEMMA CaseIsAKey == TheCase \in Keys
<1>1. Cardinality({}) = 0 /\ Cardinality(Keys) = 1
  BY FS_EmptySet, FleetConstants
<1>2. Keys # {}
  BY <1>1
<1> QED BY <1>2 DEF TheCase

----------------------------------------------------------------------------
(* What one record does to the journal.                                    *)

\* k comes after j in the life of a journal, with the same votes in it.
SameVotes(j, k) ==
    /\ k.locks = j.locks /\ k.pending = j.pending /\ k.witnessed = j.witnessed
    /\ k.next_sequence >= j.next_sequence

LEMMA ApplySequence ==
    ASSUME NEW j \in State, NEW next \in Nat
    PROVE  /\ apply(j, Sequence(next)) \in State
           /\ SameVotes(j, apply(j, Sequence(next)))
           /\ apply(j, Sequence(next)).next_sequence >= next
<1>1. apply(j, Sequence(next)) = [j EXCEPT !.next_sequence = Larger(@, next)]
  BY DEF apply, Sequence
<1>2. j.next_sequence \in Nat
  BY DEF State
<1>3. Larger(j.next_sequence, next) \in Nat /\ Larger(j.next_sequence, next) >= next
      /\ Larger(j.next_sequence, next) >= j.next_sequence
  BY <1>2 DEF Larger
<1> QED BY <1>1, <1>3 DEF State, SameVotes

LEMMA ApplySeen ==
    ASSUME NEW j \in State, NEW sender \in Senders, NEW sequence \in Nat
    PROVE  /\ apply(j, Seen(sender, sequence)) \in State
           /\ SameVotes(j, apply(j, Seen(sender, sequence)))
<1>1. apply(j, Seen(sender, sequence)) = [j EXCEPT !.seen[sender] = Larger(@, sequence)]
  BY DEF apply, Seen
<1>2. j.seen[sender] \in Nat \cup {None} /\ j.next_sequence \in Nat
  BY DEF State
<1>3. Larger(j.seen[sender], sequence) \in Nat \cup {None}
  BY <1>2 DEF Larger, None
<1> QED BY <1>1, <1>2, <1>3 DEF State, SameVotes

LEMMA ApplyWitnessed ==
    ASSUME NEW j \in State, NEW author \in Authors, NEW sequence \in Nat
    PROVE  LET k == apply(j, Witnessed(author, sequence))
           IN  /\ k \in State
               /\ k.locks = j.locks /\ k.pending = j.pending
               /\ k.next_sequence = j.next_sequence
               /\ \A a \in Authors : k.witnessed[a] =
                    IF a = author /\ j.witnessed[a] = None THEN sequence ELSE j.witnessed[a]
<1>1. apply(j, Witnessed(author, sequence)) =
        [j EXCEPT !.witnessed[author] = IF @ = None THEN sequence ELSE @]
  BY DEF apply, Witnessed
<1>2. j.witnessed \in [Authors -> Nat \cup {None}]
  BY DEF State
<1> QED BY <1>1, <1>2 DEF State

LEMMA ApplyVote ==
    ASSUME NEW j \in State, NEW key \in Keys, NEW sequence \in Nat, j.pending = {}
    PROVE  LET frame == OutgoingFrame(sequence, key, {})
               k == apply(j, Vote(key, frame))
           IN  /\ k \in State
               /\ k.locks = j.locks \cup {key} /\ k.pending = {frame}
               /\ k.witnessed = j.witnessed
               /\ k.next_sequence >= j.next_sequence
<1> DEFINE frame == OutgoingFrame(sequence, key, {})
<1>1. apply(j, Vote(key, frame)) = add_frame([j EXCEPT !.locks = @ \cup {key}], frame)
  BY DEF apply, Vote
<1>2. frame \in Frames /\ frame.sequence = sequence
  BY DEF OutgoingFrame, Frames, Expiries
<1>3. j.next_sequence \in Nat
  BY DEF State
<1>4. /\ Larger(j.next_sequence, sequence + 1) \in Nat
      /\ Larger(j.next_sequence, sequence + 1) >= j.next_sequence
  BY <1>3 DEF Larger
<1>5. InsertFrame({}, frame) = {frame}
  BY DEF InsertFrame
<1> HIDE DEF frame
<1>6. apply(j, Vote(key, frame)) =
        [j EXCEPT !.locks = j.locks \cup {key}, !.pending = {frame},
                  !.next_sequence = Larger(j.next_sequence, sequence + 1)]
  BY <1>1, <1>2, <1>5 DEF add_frame, State
<1> DEFINE k == apply(j, Vote(key, frame))
<1>7. /\ k \in State
      /\ k.locks = j.locks \cup {key} /\ k.pending = {frame}
      /\ k.witnessed = j.witnessed
      /\ k.next_sequence >= j.next_sequence
  <2> HIDE DEF k
  <2> DEFINE locks == j.locks \cup {key}
             pending == {frame}
             next == Larger(j.next_sequence, sequence + 1)
  <2>1. locks \in SUBSET Keys /\ pending \in SUBSET Frames /\ next \in Nat
    BY <1>2, <1>4 DEF State
  <2>2. next >= j.next_sequence
    BY <1>4
  <2>3. k = [j EXCEPT !.locks = locks, !.pending = pending, !.next_sequence = next]
    BY <1>6 DEF k
  <2> HIDE DEF locks, pending, next
  <2>4. k \in State /\ k.locks = locks /\ k.pending = pending
        /\ k.witnessed = j.witnessed /\ k.next_sequence = next
    BY <2>1, <2>3 DEF State
  <2> QED BY <2>2, <2>4 DEF locks, pending
<1> QED BY <1>7 DEF frame

----------------------------------------------------------------------------
(* What the shared helpers of the loop do.                                 *)

\* Remembering a sequence, whether the write succeeds or not, leaves the votes
\* in every journal as they are.
LEMMA RememberSeen ==
    ASSUME TypeOK, NEW n \in Members, NEW sender \in Members, NEW sequence \in Nat,
           remember_seen(n, sender, sequence)
    PROVE  /\ journal' \in [Members -> State] /\ refusals' \in Nat
           /\ \A m \in Members : SameVotes(journal[m], journal'[m])
<1>1. \A m \in Members : journal[m].next_sequence \in Nat
  BY DEF TypeOK, State
<1>2. CASE UNCHANGED <<journal, refusals>>
  BY <1>1, <1>2 DEF TypeOK, SameVotes
<1>3. CASE Write(n, Seen(sender, sequence))
  <2> DEFINE k == apply(journal[n], Seen(sender, sequence))
  <2>1. k \in State /\ SameVotes(journal[n], k)
    BY ApplySeen DEF TypeOK, Members
  <2>2. journal' = [journal EXCEPT ![n] = k] /\ refusals' = refusals
    BY <1>3 DEF Write
  <2> QED BY <1>1, <2>1, <2>2 DEF TypeOK, SameVotes
<1>4. CASE NotDurable
  BY <1>1, <1>4 DEF TypeOK, SameVotes, NotDurable
<1> QED BY <1>2, <1>3, <1>4 DEF remember_seen

\* Witnessing a vote touches one entry, and that only if it was empty.
LEMMA WitnessVote ==
    ASSUME TypeOK, NEW n \in Members, NEW author \in Members, NEW sequence \in Nat,
           witness(n, author, sequence)
    PROVE  /\ journal' \in [Members -> State] /\ refusals' \in Nat
           /\ \A m \in Members :
                /\ journal'[m].locks = journal[m].locks
                /\ journal'[m].pending = journal[m].pending
                /\ journal'[m].next_sequence = journal[m].next_sequence
                /\ \A a \in Members :
                    \/ journal'[m].witnessed[a] = journal[m].witnessed[a]
                    \/ /\ m = n /\ a = author /\ journal[m].witnessed[a] = None
                       /\ journal'[m].witnessed[a] = sequence
<1>1. Authors = Members
  BY FleetConstants DEF Members
<1>2. CASE UNCHANGED <<journal, refusals>>
  BY <1>2 DEF TypeOK
<1>3. CASE Write(n, Witnessed(author, sequence))
  BY <1>1, <1>3, ApplyWitnessed DEF TypeOK, Write
<1>4. CASE NotDurable
  BY <1>4 DEF TypeOK, NotDurable
<1> QED BY <1>2, <1>3, <1>4 DEF witness

LEMMA MarkType ==
    ASSUME NEW w \in Windows, NEW sequence \in Nat
    PROVE  mark(w, sequence) \in Windows
<1>1. 0 \in Word
  BY DepthAssumption DEF Word
<1>2. CASE w.highest = Nothing
  BY <1>1, <1>2 DEF mark, Windows
<1>3. CASE w.highest # Nothing /\ sequence > w.highest
  <2>1. ShiftLeft(w.bits, sequence - w.highest) \cup {0} \in SUBSET Word
    BY <1>1 DEF ShiftLeft
  <2> QED BY <1>3, <2>1 DEF mark, Windows
<1>4. CASE w.highest # Nothing /\ ~(sequence > w.highest)
  BY <1>4 DEF mark, Windows
<1> QED BY <1>2, <1>3, <1>4

\* A member that has voted has one frame in its outbox, the vote it made.
LEMMA OutboxIsTheVote ==
    ASSUME IndInv, NEW n \in Members, has_voted(n)
    PROVE  /\ OutboxVote(journal[n], n) \in made
           /\ OutboxVote(journal[n], n).author = n
           /\ OutboxVote(journal[n], n).stage = "BindingSupport"
           /\ \A f \in made : f.author = n => f = OutboxVote(journal[n], n)
<1>1. PICK f \in made : f.author = n
  BY DEF IndInv, OutboxHoldsTheVote
<1>2. /\ journal[n].pending = {OutgoingFrame(f.sequence, TheCase, {})}
      /\ f.stage = "BindingSupport"
  BY <1>1 DEF IndInv, OutboxHoldsTheVote
<1>3. {p.sequence : p \in journal[n].pending} = {f.sequence}
  BY <1>2 DEF OutgoingFrame
<1>4. f.sequence \in Nat
  BY DEF IndInv, TypeOK, AirFrames
<1>5. Min({f.sequence}) = f.sequence
  BY <1>4 DEF Min
<1>6. \A g \in made : g.author = n /\ g.sequence = f.sequence => g = f
  BY <1>1 DEF IndInv, SealedOnce, Sealed
<1>7. OutboxVote(journal[n], n) = f
  BY <1>1, <1>3, <1>5, <1>6 DEF OutboxVote, FrameOf
<1>8. ASSUME NEW g \in made, g.author = n
      PROVE  g = f
  <2>1. journal[n].pending = {OutgoingFrame(g.sequence, TheCase, {})}
    BY <1>8 DEF IndInv, OutboxHoldsTheVote
  <2>2. g.sequence = f.sequence
    <3>1. OutgoingFrame(g.sequence, TheCase, {}) = OutgoingFrame(f.sequence, TheCase, {})
      BY <1>2, <2>1
    <3>2. OutgoingFrame(g.sequence, TheCase, {}).sequence = g.sequence
          /\ OutgoingFrame(f.sequence, TheCase, {}).sequence = f.sequence
      BY DEF OutgoingFrame
    <3> QED BY <3>1, <3>2
  <2> QED BY <1>6, <1>8, <2>2
<1> QED BY <1>1, <1>2, <1>7, <1>8

----------------------------------------------------------------------------
(* A step of one member.                                                   *)

\* What a member's step leaves alone in the journals of the others, and which
\* it can only add to in its own.
JournalsKept(n) ==
    /\ \A k \in Members :
        /\ journal'[k].locks = journal[k].locks
        /\ journal'[k].pending = journal[k].pending
        /\ journal'[k].next_sequence >= journal[k].next_sequence
    /\ \A k \in Members \ {n} : journal'[k].witnessed = journal[k].witnessed

OthersKept(n) ==
    /\ made \subseteq made' /\ air \subseteq air'
    /\ \A k \in Members \ {n} :
        /\ mem'[k] = mem[k] /\ step'[k] = step[k]
        /\ journal'[k].witnessed = journal[k].witnessed
        /\ journal'[k].locks = journal[k].locks

\* The invariant of every other member survives a step of n.
LEMMA OthersInv ==
    ASSUME IndInv, NEW n \in Members, NEW k \in Members \ {n}, OthersKept(n)
    PROVE  MemberInv(k)'
<1>1. /\ mem'[k] = mem[k] /\ step'[k] = step[k]
      /\ journal'[k].witnessed = journal[k].witnessed
      /\ journal'[k].locks = journal[k].locks
      /\ air \cup made \subseteq air' \cup made'
  BY DEF OthersKept
<1>2. MemberInv(k)
  BY DEF IndInv
<1>3. Up(k)' = Up(k) /\ closed(k)' = closed(k) /\ has_voted(k)' = has_voted(k)
  BY <1>1 DEF Up, closed, has_voted
<1>4. \A m \in Members : Recorded(k, m)' = Recorded(k, m) /\ Kept(k, m)' = Kept(k, m)
  BY <1>1, <1>3 DEF Recorded, Kept
<1>5. StepFits(k)'
  BY <1>1, <1>2, <1>3 DEF MemberInv, StepFits
<1>6. ForwardsWereSealed(k)'
  BY <1>1, <1>2, <1>3 DEF MemberInv, ForwardsWereSealed
<1>7. RecordsAreBinding(k)'
  BY <1>1, <1>2, <1>4 DEF MemberInv, RecordsAreBinding
<1>8. NothingDropped(k)'
  BY <1>1, <1>2, <1>3, <1>4 DEF MemberInv, NothingDropped
<1> QED BY <1>5, <1>6, <1>7, <1>8 DEF MemberInv

\* A step that neither reserves a sequence nor commits a vote preserves the
\* invariant if what n holds in its hand, and what it puts on the air, was made
\* or in its hand before.
LEMMA MemberStep ==
    ASSUME IndInv, NEW n \in Members, TypeOK', OthersKept(n), JournalsKept(n),
           made' = made,
           air' \subseteq air \cup made \cup InHand(n, {"built", "sent"}),
           InHand(n, {"reserved", "built", "sent"})'
                \subseteq made \cup InHand(n, {"built", "sent"}),
           carried' \subseteq air' \cup made',
           MemberInv(n)'
    PROVE  IndInv'
<1>1. \A k \in Members : MemberInv(k)'
  BY OthersInv
<1>2. \A k \in Members \ {n} : step'[k] = step[k]
  BY DEF OthersKept
<1>3. InHand(n, {"built", "sent"})' \subseteq InHand(n, {"reserved", "built", "sent"})'
      /\ InHand(n, {"built", "sent"}) \subseteq InHand(n, {"reserved", "built", "sent"})
  BY DEF InHand
<1>4. Sealed' \subseteq Sealed
  <2> SUFFICES ASSUME NEW f \in Sealed' PROVE f \in Sealed
    OBVIOUS
  <2>1. CASE f \in air' \cup made'
    BY <1>3, <2>1 DEF Sealed
  <2>2. CASE f \in UNION {InHand(k, {"reserved", "built", "sent"})' : k \in Members}
    <3>1. PICK k \in Members : f \in InHand(k, {"reserved", "built", "sent"})'
      BY <2>2
    <3>2. k # n => f \in InHand(k, {"reserved", "built", "sent"})
      BY <1>2, <3>1 DEF InHand
    <3> QED BY <1>3, <3>1, <3>2 DEF Sealed
  <2> QED BY <2>1, <2>2 DEF Sealed
<1>5. Released' \subseteq Released \cup made
  <2> SUFFICES ASSUME NEW f \in Released' PROVE f \in Released \cup made
    OBVIOUS
  <2>1. CASE f \in air'
    BY <2>1 DEF Released
  <2>2. CASE f \in UNION {InHand(k, {"built", "sent"})' : k \in Members}
    <3>1. PICK k \in Members : f \in InHand(k, {"built", "sent"})'
      BY <2>2
    <3>2. k # n => f \in InHand(k, {"built", "sent"})
      BY <1>2, <3>1 DEF InHand
    <3> QED BY <1>3, <3>1, <3>2 DEF Released
  <2> QED BY <2>1, <2>2 DEF Released
<1>6. \A k \in Members : has_voted(k)' = has_voted(k)
  BY DEF JournalsKept, has_voted
<1>7. \A f \in Sealed : f.author \in Members /\ f.sequence \in Nat
  <2>1. Sealed \subseteq AirFrames
    BY DEF IndInv, TypeOK, Sealed, InHand, Steps
  <2> QED BY <2>1 DEF AirFrames
<1>8. \A k \in Members : journal[k].next_sequence \in Nat /\ journal'[k].next_sequence \in Nat
  BY DEF IndInv, TypeOK, State
<1>9. SealedBelowCounter'
  <2> SUFFICES ASSUME NEW f \in Sealed'
               PROVE  f.sequence < journal'[f.author].next_sequence
    BY DEF SealedBelowCounter
  <2>1. f \in Sealed /\ f.sequence < journal[f.author].next_sequence
    BY <1>4 DEF IndInv, SealedBelowCounter
  <2>2. journal'[f.author].next_sequence >= journal[f.author].next_sequence
    BY <1>7, <2>1 DEF JournalsKept
  <2> QED BY <1>7, <1>8, <2>1, <2>2
<1>10. SealedOnce'
  BY <1>4 DEF IndInv, SealedOnce
<1>11. \A f \in made \cup Released : f.author \in Members
  BY <1>7, Released \subseteq Sealed DEF Sealed, Released, InHand
<1>12. OutboxHoldsTheVote'
  BY <1>6, <1>11 DEF IndInv, OutboxHoldsTheVote, JournalsKept
<1>13. ReleasedIsCommitted'
  BY <1>5, <1>6, <1>11 DEF IndInv, OutboxHoldsTheVote, ReleasedIsCommitted
<1> QED BY <1>1, <1>9, <1>10, <1>12, <1>13 DEF IndInv

\* A member that is up has a whole process in memory.
LEMMA UpIsRunning ==
    ASSUME TypeOK, NEW n \in Members, Up(n)
    PROVE  mem[n] \in Running
<1> QED BY DEF TypeOK, Up, Running, Stopped

\* A step that leaves status, votes and forwards as they were.
LEMMA SameMemory ==
    ASSUME IndInv, NEW n \in Members, OthersKept(n), JournalsKept(n),
           journal'[n].witnessed = journal[n].witnessed,
           mem'[n].status = mem[n].status,
           mem'[n].tally = mem[n].tally, mem'[n].early = mem[n].early,
           Up(n) => mem'[n].forwards = mem[n].forwards,
           \/ step'[n] = step[n]
           \/ step'[n] = Idle /\ step[n].at \notin {"built", "draining"}
    PROVE  MemberInv(n)'
<1>1. MemberInv(n) /\ Idle.at = "idle"
  BY DEF IndInv, Idle
<1>2. Up(n)' = Up(n) /\ closed(n)' = closed(n) /\ has_voted(n)' = has_voted(n)
  BY DEF Up, closed, has_voted, JournalsKept
<1>3. \A m \in Members : Recorded(n, m)' = Recorded(n, m)
  BY DEF Recorded
<1>4. \A m \in Members : Kept(n, m) => Kept(n, m)'
  BY <1>1, <1>2 DEF Kept
<1>5. StepFits(n)'
  BY <1>1, <1>2 DEF MemberInv, StepFits, OthersKept
<1>6. ForwardsWereSealed(n)'
  BY <1>1, <1>2 DEF MemberInv, ForwardsWereSealed, OthersKept
<1>7. RecordsAreBinding(n)'
  BY <1>1, <1>3 DEF MemberInv, RecordsAreBinding, OthersKept
<1>8. NothingDropped(n)'
  BY <1>1, <1>2, <1>4 DEF MemberInv, NothingDropped
<1> QED BY <1>5, <1>6, <1>7, <1>8 DEF MemberInv

----------------------------------------------------------------------------
(* One lemma per action of the loop.                                       *)

\* A crash forgets what was in memory and keeps the journal.
LEMMA CrashKeeps ==
    ASSUME IndInv, NEW n \in Members, Crash(n)
    PROVE  IndInv'
<1>1. /\ mem' = [mem EXCEPT ![n] = Down] /\ step' = [step EXCEPT ![n] = Idle]
      /\ crashes' \in Nat
      /\ UNCHANGED <<journal, made, air, carried, refusals>>
  BY DEF Crash, IndInv, TypeOK
<1>2. Down \in Stopped /\ Idle \in Steps /\ Idle.at = "idle"
  BY DEF Down, Stopped, Idle, Steps, Votes
<1>3. TypeOK'
  BY <1>1, <1>2 DEF IndInv, TypeOK
<1>4. mem'[n] = Down /\ step'[n] = Idle
  BY <1>1 DEF IndInv, TypeOK
<1>5. OthersKept(n)
  BY <1>1 DEF OthersKept, IndInv, TypeOK
<1>6. JournalsKept(n)
  BY <1>1 DEF JournalsKept, IndInv, TypeOK, State
<1>7. MemberInv(n)'
  <2>1. ~Up(n)' /\ StepFits(n)'
    BY <1>2, <1>4 DEF Up, Down, StepFits
  <2>2. \A m \in Members : Recorded(n, m)' \subseteq Recorded(n, m)
    BY <1>1, <1>4 DEF Recorded, Down
  <2>3. RecordsAreBinding(n)'
    BY <1>1, <2>2 DEF IndInv, MemberInv, RecordsAreBinding
  <2> QED BY <2>1, <2>3 DEF MemberInv, ForwardsWereSealed, NothingDropped
<1>8. InHand(n, {"reserved", "built", "sent"})' = {}
  BY <1>2, <1>4 DEF InHand
<1> QED BY <1>1, <1>3, <1>5, <1>6, <1>7, <1>8, MemberStep DEF IndInv

\* What main() makes of a journal.
LEMMA BootedProcess ==
    ASSUME NEW j \in State, NEW n \in Members,
           TheCase \in j.locks /\ j.pending # {} => OutboxVote(j, n).sequence \in Nat
    PROVE  /\ Booted(j, n) \in Running
           /\ Booted(j, n).status = "waiting"
           /\ Booted(j, n).early = restored(j, n)
           /\ Booted(j, n).tally = [m \in Members |-> None]
           /\ Booted(j, n).forwards = {}
<1>1. Authors = Members /\ Senders = Members
  BY FleetConstants DEF Members
<1>2. restored(j, n) \in Votes
  BY <1>1 DEF restored, Votes, State
<1>3. \A m \in Members : (IF j.seen[m] = None THEN new ELSE resumed(j.seen[m])) \in Windows
  BY <1>1 DEF new, resumed, Windows, Nothing, State, None
<1>4. [m \in Members |-> IF j.seen[m] = None THEN new ELSE resumed(j.seen[m])]
        \in [Members -> Windows]
  BY <1>3
<1>5. [m \in Members |-> None] \in Votes
  BY DEF Votes
<1> QED BY <1>2, <1>4, <1>5 DEF Booted, Running

\* A restart reads back every vote the journal holds.
LEMMA RestartKeeps ==
    ASSUME IndInv, NEW n \in Members, Restart(n)
    PROVE  IndInv'
<1> DEFINE j == journal[n]
<1>1. /\ mem[n].status = "down"
      /\ mem' = [mem EXCEPT ![n] = Booted(j, n)]
      /\ UNCHANGED <<journal, step, made, air, carried, crashes, refusals>>
  BY DEF Restart
<1>2. j \in State /\ MemberInv(n)
  BY DEF IndInv, TypeOK
<1>3. has_voted(n) => /\ j.pending # {}
                      /\ OutboxVote(j, n) \in made
                      /\ OutboxVote(j, n).author = n
                      /\ OutboxVote(j, n).stage = "BindingSupport"
                      /\ OutboxVote(j, n).sequence \in Nat
  <2>1. has_voted(n) => j.pending # {}
    BY DEF IndInv, OutboxHoldsTheVote
  <2>2. \A f \in made : f.sequence \in Nat
    BY DEF IndInv, TypeOK, AirFrames
  <2> QED BY <2>1, <2>2, OutboxIsTheVote
<1>4. /\ Booted(j, n) \in Running /\ Booted(j, n).status = "waiting"
      /\ Booted(j, n).early = restored(j, n)
      /\ Booted(j, n).tally = [m \in Members |-> None]
      /\ Booted(j, n).forwards = {}
  BY <1>2, <1>3, BootedProcess DEF has_voted
<1>5. TypeOK' /\ mem'[n] = Booted(j, n)
  BY <1>1, <1>4 DEF IndInv, TypeOK
<1>6. OthersKept(n) /\ JournalsKept(n)
  BY <1>1 DEF OthersKept, JournalsKept, IndInv, TypeOK, State
<1>7. step[n].at = "idle" /\ step'[n] = step[n]
  BY <1>1, <1>2 DEF MemberInv, StepFits, Up
<1>8. \A m \in Members : mem'[n].early[m] =
            IF m = n /\ has_voted(n) THEN OutboxVote(j, n).sequence ELSE j.witnessed[m]
  BY <1>3, <1>4, <1>5 DEF restored, has_voted
<1>9. ~closed(n)' /\ has_voted(n)' = has_voted(n)
  BY <1>1, <1>4, <1>5 DEF closed, has_voted
<1>10. RecordsAreBinding(n)'
  <2>1. \A m \in Members :
            Recorded(n, m)' \subseteq
                Recorded(n, m) \cup
                    (IF m = n /\ has_voted(n) THEN {OutboxVote(j, n).sequence} ELSE {})
    BY <1>1, <1>4, <1>5, <1>8 DEF Recorded
  <2> QED BY <1>1, <1>2, <1>3, <2>1 DEF MemberInv, RecordsAreBinding
<1>11. NothingDropped(n)'
  <2>1. OutboxVote(j, n).sequence \in Nat => OutboxVote(j, n).sequence # None
    BY DEF None
  <2>2. \A m \in Members : journal'[n].witnessed[m] # None => Kept(n, m)'
    BY <1>1, <1>3, <1>8, <1>9, <2>1 DEF Kept
  <2>3. has_voted(n)' => Kept(n, n)'
    BY <1>3, <1>8, <1>9, <2>1 DEF Kept
  <2> QED BY <2>2, <2>3 DEF NothingDropped
<1>12. MemberInv(n)'
  BY <1>4, <1>5, <1>7, <1>10, <1>11 DEF MemberInv, StepFits, ForwardsWereSealed
<1>13. InHand(n, {"reserved", "built", "sent"})' = {}
  BY <1>7 DEF InHand
<1> QED BY <1>1, <1>5, <1>6, <1>12, <1>13, MemberStep DEF IndInv

\* A spent attempt, an acknowledged vote and a new repair round change only
\* what the invariant does not look at.
LEMMA CountersKeep ==
    ASSUME IndInv, NEW n \in Members,
           slot_missed(n) \/ acknowledged(n) \/ repair_round(n)
    PROVE  IndInv'
<1>1. /\ step[n] = Idle /\ Up(n)
      /\ UNCHANGED <<journal, step, made, air, carried, crashes, refusals>>
  BY DEF slot_missed, acknowledged, repair_round, closed, Up
<1>2. mem[n] \in Running
  BY <1>1, UpIsRunning DEF IndInv
<1>3. PICK r \in Running :
        /\ mem' = [mem EXCEPT ![n] = r]
        /\ r.status = mem[n].status /\ r.tally = mem[n].tally
        /\ r.early = mem[n].early /\ r.forwards = mem[n].forwards
  <2>1. CASE slot_missed(n)
    <3> DEFINE r == [mem[n] EXCEPT !.attempts = @ + 1]
    <3>1. r \in Running /\ r.status = mem[n].status /\ r.tally = mem[n].tally
          /\ r.early = mem[n].early /\ r.forwards = mem[n].forwards
      BY <1>2 DEF Running
    <3>2. mem' = [mem EXCEPT ![n] = r]
      BY <2>1 DEF slot_missed
    <3> QED BY <3>1, <3>2
  <2>2. CASE acknowledged(n)
    <3> DEFINE r == [mem[n] EXCEPT !.sent = @ \cup {"BindingSupport"}]
    <3>1. r \in Running /\ r.status = mem[n].status /\ r.tally = mem[n].tally
          /\ r.early = mem[n].early /\ r.forwards = mem[n].forwards
      BY <1>2 DEF Running, Stages
    <3>2. mem' = [mem EXCEPT ![n] = r]
      BY <2>2 DEF acknowledged
    <3> QED BY <3>1, <3>2
  <2>3. CASE repair_round(n)
    <3> DEFINE no == FALSE
               next == mem[n].repair + 1
               r == [mem[n] EXCEPT !.repair = next, !.nacked = no, !.repaired = no]
    <3>0. no \in BOOLEAN /\ next \in Nat
      BY <1>2 DEF Running
    <3> HIDE DEF no, next
    <3>1. r \in Running /\ r.status = mem[n].status /\ r.tally = mem[n].tally
          /\ r.early = mem[n].early /\ r.forwards = mem[n].forwards
      BY <1>2, <3>0 DEF Running
    <3>2. mem' = [mem EXCEPT ![n] = r]
      BY <2>3 DEF no, next, repair_round, IndInv, TypeOK
    <3> QED BY <3>1, <3>2
  <2> QED BY <2>1, <2>2, <2>3
<1>4. TypeOK' /\ mem'[n] = r
  BY <1>1, <1>3 DEF IndInv, TypeOK
<1>5. OthersKept(n) /\ JournalsKept(n)
  BY <1>1, <1>3 DEF OthersKept, JournalsKept, IndInv, TypeOK, State
<1>6. MemberInv(n)'
  BY <1>1, <1>3, <1>4, <1>5, SameMemory
<1>7. InHand(n, {"reserved", "built", "sent"})' = {}
  BY <1>1 DEF InHand, Idle
<1> QED BY <1>1, <1>4, <1>5, <1>6, <1>7, MemberStep DEF IndInv

\* A frame that could not be built is given up, and nothing of it is left.
LEMMA NotSentKeeps ==
    ASSUME IndInv, NEW n \in Members, NEW stage \in Stages,
           Up(n), step[n].at \in {"idle", "reserved"},
           NotDurable, NotSent(n, stage)
    PROVE  IndInv'
<1> DEFINE sent == mem[n].sent \cup ({stage} \cap {"Independent", "Consultation", "BindingSupport"})
           nacked == mem[n].nacked \/ stage = "Nack"
           r == [mem[n] EXCEPT !.sent = sent, !.nacked = nacked]
<1>1. /\ step' = [step EXCEPT ![n] = Idle] /\ refusals' \in Nat
      /\ UNCHANGED <<journal, made, air, carried, crashes>>
  BY DEF NotDurable, NotSent, IndInv, TypeOK
<1>2. mem[n] \in Running
  BY UpIsRunning DEF IndInv
<1>3. sent \in SUBSET Stages /\ nacked \in BOOLEAN
  BY <1>2 DEF Running
<1>4. mem' = [mem EXCEPT ![n] = r]
  BY DEF NotSent, IndInv, TypeOK
<1> HIDE DEF sent, nacked
<1>5. /\ r \in Running /\ r.status = mem[n].status /\ r.tally = mem[n].tally
      /\ r.early = mem[n].early /\ r.forwards = mem[n].forwards
  BY <1>2, <1>3 DEF Running
<1> HIDE DEF r
<1>6. Idle \in Steps /\ Idle.at = "idle"
  BY DEF Idle, Steps
<1>7. TypeOK' /\ mem'[n] = r /\ step'[n] = Idle
  BY <1>1, <1>4, <1>5, <1>6 DEF IndInv, TypeOK
<1>8. OthersKept(n) /\ JournalsKept(n)
  BY <1>1, <1>4 DEF OthersKept, JournalsKept, IndInv, TypeOK, State
<1>9. MemberInv(n)'
  BY <1>1, <1>5, <1>7, <1>8, SameMemory
<1>10. InHand(n, {"reserved", "built", "sent"})' = {}
  BY <1>6, <1>7 DEF InHand
<1> QED BY <1>1, <1>7, <1>8, <1>9, <1>10, MemberStep DEF IndInv

\* Reserving a sequence and sealing a frame under it: no frame sealed before
\* has that sequence, because every one of them is below the counter.
LEMMA ReserveKeeps ==
    ASSUME IndInv, NEW n \in Members, NEW stage \in Stages, reserve(n, stage)
    PROVE  IndInv'
<1> DEFINE sequence == journal[n].next_sequence
           already == stage = "BindingSupport" /\ has_voted(n)
           told == CASE stage = "Trigger" -> {}
                     [] stage # "Nack" /\ n \in Liars -> Members
                     [] OTHER -> heard(n)
           verdict == IF already THEN "Dispute" ELSE "Support"
           frame == [author |-> n, sequence |-> sequence, stage |-> stage,
                     verdict |-> verdict, heard |-> told]
           where == IF stage = "BindingSupport" /\ ~already THEN "reserved" ELSE "built"
<1>1. /\ step[n] = Idle /\ Due(n, stage) /\ (already => n \in DoubleVoters)
      /\ sequence < MaxSequence
  BY DEF reserve
<1>2. Up(n) /\ (stage = "BindingSupport" => closed(n)) /\ Idle.at = "idle"
  BY <1>1 DEF Due, Up, Joined, closed, Stages, Idle
<1>3. CASE NotDurable /\ NotSent(n, stage)
  BY <1>1, <1>2, <1>3, NotSentKeeps
<1>4. CASE /\ Write(n, Sequence(sequence + 1))
           /\ step' = [step EXCEPT ![n] = At(where, frame)]
           /\ UNCHANGED <<mem, made, air, carried, crashes>>
  <2> DEFINE j == apply(journal[n], Sequence(sequence + 1))
  <2>1. journal[n] \in State /\ sequence \in Nat /\ sequence + 1 \in Nat
    BY DEF IndInv, TypeOK, State
  <2>2. j \in State /\ SameVotes(journal[n], j) /\ j.next_sequence >= sequence + 1
    BY <2>1, ApplySequence
  <2>3. journal' = [journal EXCEPT ![n] = j] /\ refusals' = refusals
    BY <1>4 DEF Write
  <2> HIDE DEF j
  <2>4. /\ frame \in AirFrames /\ frame.author = n /\ frame.sequence = sequence
        /\ frame.stage = stage
    <3>1. told \in SUBSET Members
      BY DEF heard
    <3>2. verdict \in {"Support", "Dispute"}
      OBVIOUS
    <3>3. sequence \in 0 .. MaxSequence
      BY <1>1, <2>1, JournalConstants
    <3> HIDE DEF told, verdict, sequence
    <3> QED BY <3>1, <3>2, <3>3 DEF AirFrames
  <2>5. where \in {"reserved", "built"}
    OBVIOUS
  <2>6. where = "reserved" => stage = "BindingSupport" /\ ~has_voted(n)
    OBVIOUS
  <2>7. where = "built" => (stage = "BindingSupport" => has_voted(n) /\ n \in DoubleVoters)
    BY <1>1
  <2> HIDE DEF frame, where
  <2>8. /\ At(where, frame) \in Steps
        /\ At(where, frame).at = where /\ At(where, frame).frame = frame
    BY <2>4, <2>5 DEF At, Steps
  <2>9. step'[n] = At(where, frame) /\ TypeOK'
    BY <1>4, <2>2, <2>3, <2>8 DEF IndInv, TypeOK
  <2>10. \A k \in Members : /\ SameVotes(journal[k], journal'[k])
                            /\ journal[k].next_sequence \in Nat
                            /\ journal'[k].next_sequence \in Nat
    <3>1. \A k \in Members : journal'[k] = IF k = n THEN j ELSE journal[k]
      BY <2>3 DEF IndInv, TypeOK
    <3>2. \A k \in Members : journal[k] \in State /\ journal[k].next_sequence \in Nat
      BY DEF IndInv, TypeOK, State
    <3> QED BY <2>2, <3>1, <3>2 DEF SameVotes, State
  <2>11. OthersKept(n)
    BY <1>4, <2>3 DEF OthersKept, IndInv, TypeOK
  <2>12. \A k \in Members : has_voted(k)' = has_voted(k)
    BY <2>10 DEF has_voted, SameVotes
  <2>13. Sealed' \subseteq Sealed \cup {frame}
    <3> SUFFICES ASSUME NEW f \in Sealed', f \notin air \cup made
                 PROVE  f \in Sealed \cup {frame}
      BY <1>4 DEF Sealed
    <3>1. PICK k \in Members : f \in InHand(k, {"reserved", "built", "sent"})'
      BY <1>4 DEF Sealed
    <3>2. k # n => f \in InHand(k, {"reserved", "built", "sent"})
      BY <2>11, <3>1 DEF InHand, OthersKept
    <3>3. k = n => f = frame
      BY <2>8, <2>9, <3>1 DEF InHand
    <3> QED BY <3>2, <3>3 DEF Sealed
  <2>14. Released' \subseteq Released \cup (IF where = "built" THEN {frame} ELSE {})
    <3> SUFFICES ASSUME NEW f \in Released', f \notin air
                 PROVE  f \in Released \cup (IF where = "built" THEN {frame} ELSE {})
      BY <1>4 DEF Released
    <3>1. PICK k \in Members : f \in InHand(k, {"built", "sent"})'
      BY <1>4 DEF Released
    <3>2. k # n => f \in InHand(k, {"built", "sent"})
      BY <2>11, <3>1 DEF InHand, OthersKept
    <3>3. k = n => f = frame /\ where = "built"
      BY <2>5, <2>8, <2>9, <3>1 DEF InHand
    <3> QED BY <3>2, <3>3 DEF Released
  <2>15. \A f \in Sealed : f.author \in Members /\ f.sequence \in Nat
    BY DEF IndInv, TypeOK, Sealed, InHand, Steps, AirFrames
  <2>16. SealedBelowCounter'
    <3> SUFFICES ASSUME NEW f \in Sealed'
                 PROVE  f.sequence < journal'[f.author].next_sequence
      BY DEF SealedBelowCounter
    <3>1. CASE f \in Sealed
      BY <2>10, <2>15, <3>1 DEF IndInv, SealedBelowCounter, SameVotes
    <3>2. CASE f = frame
      <4>1. journal'[n] = j /\ j.next_sequence \in Nat
        BY <2>2, <2>3 DEF IndInv, TypeOK, State
      <4> QED BY <2>1, <2>2, <2>4, <3>2, <4>1
    <3> QED BY <2>13, <3>1, <3>2
  <2>17. \A f \in Sealed : f.author = n => f.sequence < sequence
    BY DEF IndInv, SealedBelowCounter
  <2>18. SealedOnce'
    BY <2>1, <2>4, <2>13, <2>15, <2>17 DEF IndInv, SealedOnce
  <2>19. \A f \in made \cup Released : f.author \in Members
    BY <2>15, Released \subseteq Sealed DEF Sealed, Released, InHand
  <2>20. OutboxHoldsTheVote'
    BY <1>4, <2>10, <2>12, <2>19 DEF IndInv, OutboxHoldsTheVote, SameVotes
  <2>21. ReleasedIsCommitted'
    BY <1>4, <2>4, <2>7, <2>12, <2>14, <2>19 DEF IndInv, ReleasedIsCommitted
  <2>22. MemberInv(n)'
    <3>1. MemberInv(n)
      BY DEF IndInv
    <3>2. /\ Up(n)' = Up(n) /\ closed(n)' = closed(n)
          /\ journal'[n].witnessed = journal[n].witnessed
      BY <1>4, <2>10 DEF Up, closed, SameVotes
    <3>3. StepFits(n)'
      BY <1>2, <2>4, <2>5, <2>6, <2>8, <2>9, <2>12, <3>2 DEF StepFits
    <3>4. \A m \in Members : Recorded(n, m)' = Recorded(n, m)
      BY <1>4, <3>2 DEF Recorded
    <3>5. \A m \in Members : Kept(n, m) => Kept(n, m)'
      BY <1>1, <1>2, <1>4, <3>2 DEF Kept
    <3>6. NothingDropped(n)'
      BY <1>1, <1>2, <2>12, <3>1, <3>2, <3>5 DEF MemberInv, NothingDropped
    <3>7. ForwardsWereSealed(n)' /\ RecordsAreBinding(n)'
      BY <1>4, <3>1, <3>2, <3>4 DEF MemberInv, ForwardsWereSealed, RecordsAreBinding
    <3> QED BY <3>3, <3>6, <3>7 DEF MemberInv
  <2>23. \A k \in Members : MemberInv(k)'
    BY <2>11, <2>22, OthersInv
  <2> QED BY <1>4, <2>9, <2>16, <2>18, <2>20, <2>21, <2>23 DEF IndInv
<1> QED BY <1>3, <1>4 DEF reserve

\* Committing the vote: the lock, the outbox entry and the frame agree, and the
\* member had no earlier vote.
LEMMA CommitVoteKeeps ==
    ASSUME IndInv, NEW n \in Members, commit_vote(n)
    PROVE  IndInv'
<1> DEFINE frame == step[n].frame
           outgoing == OutgoingFrame(frame.sequence, TheCase, {})
           j == apply(journal[n], Vote(TheCase, outgoing))
<1>1. step[n].at = "reserved" /\ MemberInv(n)
  BY DEF commit_vote, IndInv
<1>2. /\ Up(n) /\ closed(n) /\ ~has_voted(n)
      /\ frame.author = n /\ frame.stage = "BindingSupport"
  BY <1>1 DEF MemberInv, StepFits
<1>3. CASE NotDurable /\ NotSent(n, "BindingSupport")
  BY <1>1, <1>2, <1>3, NotSentKeeps DEF Stages
<1>4. CASE /\ Write(n, Vote(TheCase, outgoing))
           /\ made' = made \cup {frame}
           /\ step' = [step EXCEPT ![n] = At("built", frame)]
           /\ UNCHANGED <<mem, air, carried, crashes>>
  <2>1. frame \in AirFrames /\ frame \in Sealed /\ frame.sequence \in Nat
    BY <1>1 DEF IndInv, TypeOK, Steps, Sealed, InHand, AirFrames
  <2>2. journal[n] \in State /\ journal[n].pending = {}
    BY <1>2 DEF IndInv, TypeOK, OutboxHoldsTheVote
  <2>3. /\ j \in State
        /\ j.locks = journal[n].locks \cup {TheCase} /\ j.pending = {outgoing}
        /\ j.witnessed = journal[n].witnessed
        /\ j.next_sequence >= journal[n].next_sequence
    BY <2>1, <2>2, CaseIsAKey, ApplyVote
  <2>4. journal' = [journal EXCEPT ![n] = j] /\ refusals' = refusals
    BY <1>4 DEF Write
  <2> HIDE DEF j, frame
  <2>5. /\ At("built", frame) \in Steps
        /\ At("built", frame).at = "built" /\ At("built", frame).frame = frame
    BY <2>1 DEF At, Steps
  <2>6. step'[n] = At("built", frame) /\ journal'[n] = j /\ TypeOK'
    BY <1>4, <2>1, <2>3, <2>4, <2>5 DEF IndInv, TypeOK
  <2>7. \A k \in Members \ {n} : journal'[k] = journal[k]
    BY <2>4 DEF IndInv, TypeOK
  <2>8. OthersKept(n)
    BY <1>4, <2>7 DEF OthersKept, IndInv, TypeOK
  <2>9. has_voted(n)' /\ \A k \in Members \ {n} : has_voted(k)' = has_voted(k)
    BY <2>3, <2>6, <2>7 DEF has_voted
  <2>10. Sealed' \subseteq Sealed
    <3> SUFFICES ASSUME NEW f \in Sealed', f \notin air \cup made \cup {frame}
                 PROVE  f \in Sealed
      BY <1>4, <2>1 DEF Sealed
    <3>1. PICK k \in Members : f \in InHand(k, {"reserved", "built", "sent"})'
      BY <1>4 DEF Sealed
    <3>2. k # n => f \in InHand(k, {"reserved", "built", "sent"})
      BY <2>8, <3>1 DEF InHand, OthersKept
    <3>3. k # n
      BY <2>5, <2>6, <3>1 DEF InHand
    <3> QED BY <3>2, <3>3 DEF Sealed
  <2>11. Released' \subseteq Released \cup {frame}
    <3> SUFFICES ASSUME NEW f \in Released', f \notin air
                 PROVE  f \in Released \cup {frame}
      BY <1>4 DEF Released
    <3>1. PICK k \in Members : f \in InHand(k, {"built", "sent"})'
      BY <1>4 DEF Released
    <3>2. k # n => f \in InHand(k, {"built", "sent"})
      BY <2>8, <3>1 DEF InHand, OthersKept
    <3>3. k = n => f = frame
      BY <2>5, <2>6, <3>1 DEF InHand
    <3> QED BY <3>2, <3>3 DEF Released
  <2>12. \A f \in Sealed : f.author \in Members /\ f.sequence \in Nat
    BY DEF IndInv, TypeOK, Sealed, InHand, Steps, AirFrames
  <2>13. \A k \in Members : /\ journal'[k].next_sequence >= journal[k].next_sequence
                            /\ journal[k].next_sequence \in Nat
                            /\ journal'[k].next_sequence \in Nat
    <3>1. \A k \in Members : journal[k].next_sequence \in Nat /\ journal'[k].next_sequence \in Nat
      BY <2>6 DEF IndInv, TypeOK, State
    <3> QED BY <2>3, <2>6, <2>7, <3>1
  <2>14. SealedBelowCounter'
    BY <2>10, <2>12, <2>13 DEF IndInv, SealedBelowCounter
  <2>15. SealedOnce'
    BY <2>10 DEF IndInv, SealedOnce
  <2>16. \A f \in made \cup Released : f.author \in Members
    BY <2>12, Released \subseteq Sealed DEF Sealed, Released, InHand
  <2>17. \A f \in made : f.author # n
    BY <1>2 DEF IndInv, OutboxHoldsTheVote
  <2>18. OutboxHoldsTheVote'
    <3>1. ASSUME NEW f \in made'
          PROVE  /\ f.stage = "BindingSupport" /\ has_voted(f.author)'
                 /\ journal'[f.author].pending = {OutgoingFrame(f.sequence, TheCase, {})}
      <4>1. CASE f = frame
        BY <1>2, <2>3, <2>6, <2>9, <4>1 DEF frame
      <4>2. CASE f \in made
        BY <2>7, <2>9, <2>16, <2>17, <4>2 DEF IndInv, OutboxHoldsTheVote
      <4> QED BY <1>4, <4>1, <4>2
    <3>2. ASSUME NEW k \in Members
          PROVE  IF has_voted(k)' THEN \E f \in made' : f.author = k
                                  ELSE journal'[k].pending = {}
      <4>1. CASE k = n
        BY <1>2, <1>4, <2>9, <4>1 DEF frame
      <4>2. CASE k # n
        BY <1>4, <2>7, <2>9, <4>2 DEF IndInv, OutboxHoldsTheVote
      <4> QED BY <4>1, <4>2
    <3> QED BY <3>1, <3>2 DEF OutboxHoldsTheVote
  <2>19. ReleasedIsCommitted'
    <3> SUFFICES ASSUME NEW f \in Released', f.stage = "BindingSupport"
                 PROVE  has_voted(f.author)' /\ (f.author \notin DoubleVoters => f \in made')
      BY DEF ReleasedIsCommitted
    <3>1. CASE f = frame
      BY <1>2, <1>4, <2>9, <3>1 DEF frame
    <3>2. CASE f \in Released
      BY <1>4, <2>9, <2>16, <3>2 DEF IndInv, ReleasedIsCommitted
    <3> QED BY <2>11, <3>1, <3>2
  <2>20. MemberInv(n)'
    <3>1. /\ Up(n)' = Up(n) /\ closed(n)' = closed(n)
          /\ journal'[n].witnessed = journal[n].witnessed
      BY <1>4, <2>3, <2>6 DEF Up, closed
    <3>2. StepFits(n)'
      BY <1>2, <2>5, <2>6, <3>1 DEF StepFits, frame
    <3>3. \A m \in Members : Recorded(n, m)' = Recorded(n, m)
      BY <1>4, <3>1 DEF Recorded
    <3>4. \A m \in Members : Kept(n, m) => Kept(n, m)'
      BY <1>1, <1>4, <3>1 DEF Kept
    <3>5. NothingDropped(n)'
      BY <1>1, <1>2, <2>5, <2>6, <3>1, <3>4 DEF MemberInv, NothingDropped, frame
    <3>6. ForwardsWereSealed(n)' /\ RecordsAreBinding(n)'
      BY <1>1, <1>4, <3>1, <3>3 DEF MemberInv, ForwardsWereSealed, RecordsAreBinding
    <3> QED BY <3>2, <3>5, <3>6 DEF MemberInv
  <2>21. \A k \in Members : MemberInv(k)'
    BY <2>8, <2>20, OthersInv
  <2>22. carried' \subseteq air' \cup made'
    BY <1>4 DEF IndInv
  <2> QED BY <2>6, <2>14, <2>15, <2>18, <2>19, <2>21, <2>22 DEF IndInv
<1> QED BY <1>3, <1>4 DEF commit_vote

\* The vote again, from the outbox: the frame that was made.
LEMMA FromOutboxKeeps ==
    ASSUME IndInv, NEW n \in Members, from_outbox(n)
    PROVE  IndInv'
<1> DEFINE frame == OutboxVote(journal[n], n)
<1>1. /\ step[n] = Idle /\ Due(n, "BindingSupport") /\ has_voted(n)
      /\ step' = [step EXCEPT ![n] = At("built", frame)]
      /\ UNCHANGED <<journal, mem, made, air, carried, crashes, refusals>>
  BY DEF from_outbox
<1>2. Up(n) /\ closed(n) /\ Idle.at = "idle"
  BY <1>1 DEF Due, Up, closed, Idle
<1>3. /\ frame \in made /\ frame.author = n /\ frame.stage = "BindingSupport"
      /\ frame \in AirFrames
  BY <1>1, OutboxIsTheVote DEF IndInv, TypeOK
<1> HIDE DEF frame
<1>4. /\ At("built", frame) \in Steps
      /\ At("built", frame).at = "built" /\ At("built", frame).frame = frame
  BY <1>3 DEF At, Steps
<1>5. step'[n] = At("built", frame) /\ TypeOK'
  BY <1>1, <1>4 DEF IndInv, TypeOK
<1>6. OthersKept(n) /\ JournalsKept(n)
  BY <1>1 DEF OthersKept, JournalsKept, IndInv, TypeOK, State
<1>7. MemberInv(n)'
  <2>1. /\ Up(n)' = Up(n) /\ closed(n)' = closed(n) /\ has_voted(n)' = has_voted(n)
        /\ MemberInv(n)
    BY <1>1 DEF Up, closed, has_voted, IndInv
  <2>2. StepFits(n)'
    BY <1>2, <1>3, <1>4, <1>5, <2>1 DEF StepFits
  <2>3. \A m \in Members : Recorded(n, m)' = Recorded(n, m)
    BY <1>1 DEF Recorded
  <2>4. \A m \in Members : Kept(n, m) => Kept(n, m)'
    BY <1>1, <1>2, <2>1 DEF Kept
  <2>5. NothingDropped(n)'
    BY <1>1, <1>2, <2>1, <2>4 DEF MemberInv, NothingDropped
  <2>6. ForwardsWereSealed(n)' /\ RecordsAreBinding(n)'
    BY <1>1, <2>1, <2>3 DEF MemberInv, ForwardsWereSealed, RecordsAreBinding
  <2> QED BY <2>2, <2>5, <2>6 DEF MemberInv
<1>8. InHand(n, {"reserved", "built", "sent"})' \subseteq made
  BY <1>3, <1>4, <1>5 DEF InHand
<1> QED BY <1>1, <1>5, <1>6, <1>7, <1>8, MemberStep DEF IndInv

\* What a process holds once its frame is out.
LEMMA NotedFields ==
    ASSUME NEW n \in Members, mem[n] \in Running, NEW frame \in AirFrames
    PROVE  LET r == Noted(n, frame)
               vote == frame.stage = "BindingSupport"
           IN  /\ r \in Running /\ r.early = mem[n].early /\ r.forwards = mem[n].forwards
               /\ r.acknowledged = mem[n].acknowledged
               /\ r.status = "collecting" <=> mem[n].status = "collecting"
               /\ \A m \in Members : r.tally[m] =
                    IF m = n /\ vote THEN Counted(mem[n].tally[m], frame.sequence)
                                     ELSE mem[n].tally[m]
<1> DEFINE utterance == Utterance(frame)
           vote == frame.stage = "BindingSupport"
           status == IF mem[n].status = "waiting" THEN "consulting" ELSE mem[n].status
           attempts == IF vote THEN mem[n].attempts + 1 ELSE mem[n].attempts
           sent == IF utterance /\ ~vote THEN mem[n].sent \cup {frame.stage} ELSE mem[n].sent
           windows == [mem[n].windows EXCEPT ![n] = IF utterance THEN mark(@, frame.sequence) ELSE @]
           counted == IF vote THEN Counted(mem[n].tally[n], frame.sequence) ELSE mem[n].tally[n]
           tally == [mem[n].tally EXCEPT ![n] = counted]
           nacked == mem[n].nacked \/ frame.stage = "Nack"
           r == [mem[n] EXCEPT !.status = status, !.attempts = attempts, !.sent = sent,
                               !.windows = windows, !.tally = tally, !.nacked = nacked]
<1>1. frame.sequence \in Nat /\ frame.stage \in Stages
  BY DEF AirFrames
<1>2. Noted(n, frame) = r
  BY DEF Noted, Running
<1>3. /\ status \in {"waiting", "consulting", "collecting"}
      /\ status = "collecting" <=> mem[n].status = "collecting"
      /\ attempts \in Nat /\ sent \in SUBSET Stages /\ nacked \in BOOLEAN
  BY <1>1 DEF Running
<1>4. windows \in [Members -> Windows]
  <2>1. mem[n].windows \in [Members -> Windows]
    BY DEF Running
  <2>2. mark(mem[n].windows[n], frame.sequence) \in Windows
    BY <1>1, <2>1, MarkType
  <2> QED BY <2>1, <2>2
<1>5. mem[n].tally \in Votes /\ counted \in Nat \cup {None}
  BY <1>1 DEF Running, Votes, Counted
<1>6. /\ tally \in Votes
      /\ \A m \in Members : tally[m] = IF m = n THEN counted ELSE mem[n].tally[m]
  <2> HIDE DEF counted
  <2> QED BY <1>5 DEF Votes
<1>7. \A m \in Members : tally[m] =
        IF m = n /\ vote THEN Counted(mem[n].tally[m], frame.sequence) ELSE mem[n].tally[m]
  BY <1>6
<1> HIDE DEF status, attempts, sent, windows, tally, nacked
<1>8. /\ r \in Running /\ r.status = status /\ r.tally = tally
      /\ r.early = mem[n].early /\ r.forwards = mem[n].forwards
      /\ r.acknowledged = mem[n].acknowledged
  BY <1>3, <1>4, <1>6 DEF Running
<1> QED BY <1>2, <1>3, <1>7, <1>8

\* Transmitting puts on the air what was in hand, and counts a vote.
LEMMA TransmitKeeps ==
    ASSUME IndInv, NEW n \in Members, transmit(n)
    PROVE  IndInv'
<1> DEFINE frame == step[n].frame
           utterance == Utterance(frame)
           vote == frame.stage = "BindingSupport"
           r == Noted(n, frame)
<1>1. /\ step[n].at = "built" /\ air' = air \cup {frame}
      /\ mem' = [mem EXCEPT ![n] = r]
      /\ step' = [step EXCEPT ![n] = IF utterance THEN At("sent", frame) ELSE Idle]
      /\ UNCHANGED <<journal, made, carried, crashes, refusals>>
  BY DEF transmit
<1>2. /\ frame \in AirFrames /\ frame.sequence \in Nat /\ frame.stage \in Stages
      /\ MemberInv(n) /\ frame \in InHand(n, {"built", "sent"})
  BY <1>1 DEF IndInv, TypeOK, Steps, AirFrames, InHand
<1>3. Up(n) /\ (vote => closed(n)) /\ frame.author = n
  BY <1>1, <1>2 DEF MemberInv, StepFits
<1>4. mem[n] \in Running
  BY <1>3, UpIsRunning DEF IndInv
<1>5. /\ r \in Running /\ r.early = mem[n].early /\ r.forwards = mem[n].forwards
      /\ r.status = "collecting" <=> mem[n].status = "collecting"
      /\ \A m \in Members : r.tally[m] =
            IF m = n /\ vote THEN Counted(mem[n].tally[m], frame.sequence)
                             ELSE mem[n].tally[m]
  BY <1>2, <1>4, NotedFields
<1>6. /\ \A m \in Members : r.tally[m] = mem[n].tally[m]
            \/ (m = n /\ vote /\ r.tally[m] = frame.sequence)
      /\ \A m \in Members : mem[n].tally[m] # None => r.tally[m] # None
      /\ vote => r.tally[n] # None
  BY <1>2, <1>5 DEF Counted, None
<1> HIDE DEF r
<1>10. /\ At("sent", frame) \in Steps /\ Idle \in Steps /\ Idle.at = "idle"
       /\ At("sent", frame).at = "sent" /\ At("sent", frame).frame = frame
  BY <1>2 DEF At, Idle, Steps
<1> HIDE DEF frame
<1>11. /\ mem'[n] = r /\ TypeOK'
       /\ step'[n] = IF utterance THEN At("sent", frame) ELSE Idle
  BY <1>1, <1>2, <1>5, <1>10 DEF IndInv, TypeOK
<1>12. OthersKept(n) /\ JournalsKept(n)
  BY <1>1 DEF OthersKept, JournalsKept, IndInv, TypeOK, State
<1>13. /\ Up(n)' /\ closed(n)' = closed(n) /\ has_voted(n)' = has_voted(n)
  BY <1>1, <1>5, <1>11 DEF Up, closed, has_voted, Running
<1>14. MemberInv(n)'
  <2>1. StepFits(n)'
    BY <1>3, <1>10, <1>11, <1>13 DEF StepFits
  <2>2. ForwardsWereSealed(n)'
    BY <1>1, <1>2, <1>3, <1>5, <1>11 DEF MemberInv, ForwardsWereSealed
  <2>3. RecordsAreBinding(n)'
    <3>1. \A m \in Members : Recorded(n, m)' \subseteq
            Recorded(n, m) \cup (IF m = n /\ vote THEN {frame.sequence} ELSE {})
      BY <1>1, <1>5, <1>6, <1>11 DEF Recorded
    <3> QED BY <1>1, <1>2, <1>3, <3>1 DEF MemberInv, RecordsAreBinding
  <2>4. NothingDropped(n)'
    <3>1. \A m \in Members : Kept(n, m) => Kept(n, m)'
      BY <1>1, <1>5, <1>6, <1>11, <1>13 DEF Kept
    <3>2. vote => Kept(n, n)'
      BY <1>6, <1>11 DEF Kept
    <3> QED BY <1>1, <1>2, <1>3, <1>13, <3>1, <3>2 DEF MemberInv, NothingDropped, frame
  <2> QED BY <2>1, <2>2, <2>3, <2>4 DEF MemberInv
<1>15. InHand(n, {"reserved", "built", "sent"})' \subseteq InHand(n, {"built", "sent"})
  BY <1>2, <1>10, <1>11 DEF InHand
<1> QED BY <1>1, <1>2, <1>11, <1>12, <1>14, <1>15, MemberStep DEF IndInv

\* Remembering one's own sequence ends the transmission.
LEMMA RememberOwnKeeps ==
    ASSUME IndInv, NEW n \in Members, remember_own(n)
    PROVE  IndInv'
<1>1. /\ step[n].at = "sent" /\ step' = [step EXCEPT ![n] = Idle]
      /\ remember_seen(n, n, step[n].frame.sequence)
      /\ UNCHANGED <<mem, made, air, carried, crashes>>
  BY DEF remember_own
<1>2. step[n].frame.sequence \in Nat
  BY <1>1 DEF IndInv, TypeOK, Steps, AirFrames
<1>3. /\ journal' \in [Members -> State] /\ refusals' \in Nat
      /\ \A m \in Members : SameVotes(journal[m], journal'[m])
  BY <1>1, <1>2, RememberSeen DEF IndInv
<1>4. Idle \in Steps /\ Idle.at = "idle"
  BY DEF Idle, Steps
<1>5. TypeOK' /\ step'[n] = Idle
  BY <1>1, <1>3, <1>4 DEF IndInv, TypeOK
<1>6. OthersKept(n) /\ JournalsKept(n)
  BY <1>1, <1>3 DEF OthersKept, JournalsKept, SameVotes, IndInv, TypeOK
<1>7. MemberInv(n)'
  BY <1>1, <1>3, <1>5, <1>6, SameMemory DEF SameVotes
<1>8. InHand(n, {"reserved", "built", "sent"})' = {}
  BY <1>4, <1>5 DEF InHand
<1> QED BY <1>1, <1>5, <1>6, <1>7, <1>8, MemberStep DEF IndInv

\* Closing consultation turns what was held into what is to be offered.
LEMMA CloseKeeps ==
    ASSUME IndInv, NEW n \in Members, close_consultation(n)
    PROVE  IndInv'
<1> DEFINE r == [mem[n] EXCEPT !.status = "collecting"]
           draining == [at |-> "draining"]
           after == IF Held(n) = {} THEN Idle ELSE draining
<1>1. /\ step[n] = Idle /\ mem[n].status = "consulting"
      /\ mem' = [mem EXCEPT ![n] = r]
      /\ step' = [step EXCEPT ![n] = after]
      /\ UNCHANGED <<journal, made, air, carried, crashes, refusals>>
  BY DEF close_consultation
<1>2. Up(n) /\ MemberInv(n) /\ mem[n] \in Running /\ ~closed(n)
  BY <1>1, UpIsRunning DEF IndInv, Up, closed
<1>3. /\ r \in Running /\ r.status = "collecting" /\ r.tally = mem[n].tally
      /\ r.early = mem[n].early /\ r.forwards = mem[n].forwards
  BY <1>2 DEF Running
<1>4. after \in Steps /\ after.at \in {"idle", "draining"} /\ Idle.at = "idle"
      /\ (after.at # "draining" => Held(n) = {})
  BY DEF Idle, Steps
<1> HIDE DEF r, after
<1>5. mem'[n] = r /\ step'[n] = after /\ TypeOK'
  BY <1>1, <1>3, <1>4 DEF IndInv, TypeOK
<1>6. OthersKept(n) /\ JournalsKept(n)
  BY <1>1 DEF OthersKept, JournalsKept, IndInv, TypeOK, State
<1>7. Up(n)' /\ closed(n)' /\ has_voted(n)' = has_voted(n)
  BY <1>1, <1>3, <1>5 DEF Up, closed, has_voted
<1>8. MemberInv(n)'
  <2>1. StepFits(n)'
    BY <1>4, <1>5, <1>7 DEF StepFits
  <2>2. ForwardsWereSealed(n)'
    BY <1>1, <1>2, <1>3, <1>5 DEF MemberInv, ForwardsWereSealed
  <2>3. RecordsAreBinding(n)'
    <3>1. \A m \in Members : Recorded(n, m)' = Recorded(n, m)
      BY <1>1, <1>3, <1>5 DEF Recorded
    <3> QED BY <1>1, <1>2, <3>1 DEF MemberInv, RecordsAreBinding
  <2>4. NothingDropped(n)'
    <3>1. \A m \in Members : Kept(n, m) => Kept(n, m)'
      BY <1>3, <1>4, <1>5, <1>7 DEF Kept, Held
    <3> QED BY <1>1, <1>2, <1>4, <1>7, <3>1 DEF MemberInv, NothingDropped
  <2> QED BY <2>1, <2>2, <2>3, <2>4 DEF MemberInv
<1>9. InHand(n, {"reserved", "built", "sent"})' = {}
  BY <1>4, <1>5 DEF InHand
<1> QED BY <1>1, <1>5, <1>6, <1>8, <1>9, MemberStep DEF IndInv

\* What a process holds once a held vote is counted.
LEMMA OfferedFields ==
    ASSUME NEW n \in Members, mem[n] \in Running, NEW m \in Held(n)
    PROVE  LET r == Offered(n, m)
               f == CHOOSE g \in air \cup made : g.author = m /\ g.sequence = mem[n].early[m]
           IN  /\ r \in Running /\ r.status = mem[n].status
               /\ r.forwards = mem[n].forwards
               /\ r.acknowledged => mem[n].acknowledged \/ n \in f.heard
               /\ \A a \in Members : r.early[a] = IF a = m THEN None ELSE mem[n].early[a]
               /\ \A a \in Members : r.tally[a] =
                    IF a = m THEN Counted(mem[n].tally[m], mem[n].early[m])
                             ELSE mem[n].tally[a]
<1> DEFINE sequence == mem[n].early[m]
           early == [mem[n].early EXCEPT ![m] = None]
           counted == Counted(mem[n].tally[m], sequence)
           tally == [mem[n].tally EXCEPT ![m] = counted]
           f == CHOOSE g \in air \cup made : g.author = m /\ g.sequence = sequence
           ack == mem[n].acknowledged \/ n \in f.heard
           r == [mem[n] EXCEPT !.early = early, !.tally = tally, !.acknowledged = ack]
<1>1. m \in Members /\ sequence \in Nat
  BY DEF Held, Running, Votes
<1>2. Offered(n, m) = r
  BY DEF Offered, Running
<1>3. ack \in BOOLEAN
  BY DEF Running
<1>4. /\ mem[n].tally \in Votes /\ mem[n].early \in Votes
      /\ counted \in Nat \cup {None}
  BY <1>1 DEF Running, Votes, Counted
<1> HIDE DEF sequence, counted
<1>5. /\ early \in Votes /\ tally \in Votes
      /\ \A a \in Members : tally[a] = IF a = m THEN counted ELSE mem[n].tally[a]
      /\ \A a \in Members : early[a] = IF a = m THEN None ELSE mem[n].early[a]
  BY <1>1, <1>4 DEF Votes
<1> HIDE DEF early, tally, ack
<1>6. /\ r \in Running /\ r.status = mem[n].status /\ r.tally = tally
      /\ r.early = early /\ r.forwards = mem[n].forwards /\ r.acknowledged = ack
  BY <1>3, <1>5 DEF Running
<1>7. ack => mem[n].acknowledged \/ n \in f.heard
  BY DEF ack
<1> HIDE DEF r
<1> QED BY <1>2, <1>5, <1>6, <1>7 DEF sequence, counted

\* A held vote is counted and witnessed in one step.
LEMMA DrainKeeps ==
    ASSUME IndInv, NEW n \in Members, drain(n)
    PROVE  IndInv'
<1>1. PICK m \in Held(n) :
        /\ mem' = [mem EXCEPT ![n] = Offered(n, m)]
        /\ witness(n, m, mem[n].early[m])
        /\ step' = [step EXCEPT ![n] = IF Held(n) = {m} THEN Idle ELSE @]
  BY DEF drain
<1>2. step[n].at = "draining" /\ MemberInv(n) /\ UNCHANGED <<made, air, carried, crashes>>
  BY DEF drain, IndInv
<1> DEFINE sequence == mem[n].early[m]
           r == Offered(n, m)
<1>3. Up(n) /\ closed(n) /\ mem[n] \in Running
  BY <1>2, UpIsRunning DEF MemberInv, StepFits, IndInv
<1>4. m \in Members /\ sequence \in Nat /\ sequence # None
  BY <1>1, <1>3 DEF Held, Running, Votes
<1>5. /\ r \in Running /\ r.status = mem[n].status /\ r.forwards = mem[n].forwards
      /\ \A a \in Members : r.early[a] = IF a = m THEN None ELSE mem[n].early[a]
      /\ \A a \in Members : r.tally[a] =
            IF a = m THEN Counted(mem[n].tally[m], sequence) ELSE mem[n].tally[a]
  BY <1>3, OfferedFields
<1>6. r.tally[m] \in {mem[n].tally[m], sequence} /\ r.tally[m] # None
  BY <1>4, <1>5 DEF Counted
<1> HIDE DEF sequence, r
<1>10. /\ journal' \in [Members -> State] /\ refusals' \in Nat
       /\ \A k \in Members :
            /\ journal'[k].locks = journal[k].locks
            /\ journal'[k].pending = journal[k].pending
            /\ journal'[k].next_sequence = journal[k].next_sequence
            /\ \A a \in Members :
                \/ journal'[k].witnessed[a] = journal[k].witnessed[a]
                \/ /\ k = n /\ a = m /\ journal[k].witnessed[a] = None
                   /\ journal'[k].witnessed[a] = sequence
  BY <1>1, <1>4, WitnessVote DEF IndInv, sequence
<1>11. Idle \in Steps /\ Idle.at = "idle"
  BY DEF Idle, Steps
<1>12. /\ TypeOK' /\ mem'[n] = r
       /\ step'[n] = IF Held(n) = {m} THEN Idle ELSE step[n]
  BY <1>1, <1>2, <1>5, <1>10, <1>11 DEF IndInv, TypeOK, r
<1>13. \A k \in Members \ {n} : journal'[k].witnessed = journal[k].witnessed
  <2>1. \A k \in Members : /\ journal[k].witnessed \in [Members -> Nat \cup {None}]
                           /\ journal'[k].witnessed \in [Members -> Nat \cup {None}]
    BY <1>10, FleetConstants DEF IndInv, TypeOK, State, Members
  <2> QED BY <1>10, <2>1
<1>14. OthersKept(n)
  BY <1>1, <1>2, <1>10, <1>13 DEF OthersKept, IndInv, TypeOK
<1>15. JournalsKept(n)
  <2>1. \A k \in Members : journal[k].next_sequence \in Nat
    BY DEF IndInv, TypeOK, State
  <2> QED BY <1>10, <1>13, <2>1 DEF JournalsKept
<1>16. Up(n)' /\ closed(n)' /\ has_voted(n)' = has_voted(n)
  BY <1>3, <1>5, <1>10, <1>12 DEF Up, closed, has_voted
<1>17. MemberInv(n)'
  <2>1. StepFits(n)'
    BY <1>2, <1>11, <1>12, <1>16 DEF StepFits
  <2>2. ForwardsWereSealed(n)'
    BY <1>2, <1>3, <1>5, <1>12 DEF MemberInv, ForwardsWereSealed
  <2>3. RecordsAreBinding(n)'
    <3>1. \A a \in Members : Recorded(n, a)' \subseteq Recorded(n, a)
      BY <1>4, <1>5, <1>6, <1>10, <1>12 DEF Recorded, sequence
    <3> QED BY <1>2, <3>1 DEF MemberInv, RecordsAreBinding
  <2>4. NothingDropped(n)'
    <3>1. Kept(n, m)'
      BY <1>6, <1>12 DEF Kept
    <3>2. \A a \in Members \ {m} : Kept(n, a) => Kept(n, a)'
      BY <1>2, <1>5, <1>12, <1>16 DEF Kept, Held
    <3>3. \A a \in Members \ {m} : journal'[n].witnessed[a] = journal[n].witnessed[a]
      BY <1>10
    <3> QED BY <1>2, <1>3, <1>16, <3>1, <3>2, <3>3 DEF MemberInv, NothingDropped
  <2> QED BY <2>1, <2>2, <2>3, <2>4 DEF MemberInv
<1>18. InHand(n, {"reserved", "built", "sent"})' = {}
  BY <1>2, <1>11, <1>12 DEF InHand
<1> QED BY <1>2, <1>12, <1>14, <1>15, <1>17, <1>18, MemberStep DEF IndInv

\* What a process holds once it has read a frame.
LEMMA LearnFields ==
    ASSUME IndInv, NEW n \in Members, Up(n), NEW f \in AirFrames
    PROVE  LET r == Learn(n, f)
               vote == f.stage = "BindingSupport"
           IN  /\ r \in Running
               /\ r.status = "collecting" <=> mem[n].status = "collecting"
               /\ r.acknowledged => mem[n].acknowledged \/ n \in f.heard
               /\ r.forwards \subseteq mem[n].forwards \cup Owed(n, f)
               /\ \A m \in Members : r.early[m] =
                    IF m = f.author /\ vote /\ ~closed(n) THEN f.sequence
                                                         ELSE mem[n].early[m]
               /\ \A m \in Members : r.tally[m] =
                    IF m = f.author /\ vote /\ closed(n)
                    THEN Counted(mem[n].tally[m], f.sequence) ELSE mem[n].tally[m]
               /\ r.tally # mem[n].tally =>
                    /\ vote /\ closed(n) /\ mem[n].tally[f.author] = None
                    /\ r.tally[f.author] = f.sequence
<1> DEFINE a == f.author
           vote == f.stage = "BindingSupport"
           owed == IF f.stage = "Nack" /\ Joined(n) /\ RepairOpen(n) /\ ~mem[n].repaired
                   THEN Owed(n, f) ELSE {}
           status == IF mem[n].status = "waiting" THEN "consulting" ELSE mem[n].status
           windows == [mem[n].windows EXCEPT ![a] = mark(@, f.sequence)]
           held == IF vote /\ ~closed(n) THEN f.sequence ELSE mem[n].early[a]
           early == [mem[n].early EXCEPT ![a] = held]
           counted == IF vote /\ closed(n) THEN Counted(mem[n].tally[a], f.sequence)
                      ELSE mem[n].tally[a]
           tally == [mem[n].tally EXCEPT ![a] = counted]
           ack == mem[n].acknowledged \/ n \in f.heard
           forwards == mem[n].forwards \cup owed
           repaired == mem[n].repaired \/ owed # {}
           due == mem[n].due \/ owed # {}
           r == [mem[n] EXCEPT !.status = status, !.windows = windows, !.early = early,
                               !.tally = tally, !.acknowledged = ack, !.forwards = forwards,
                               !.repaired = repaired, !.due = due]
<1>1. a \in Members /\ f.sequence \in Nat
  BY DEF AirFrames
<1>2. mem[n] \in Running
  BY UpIsRunning DEF IndInv
<1>3. Learn(n, f) = r
  BY <1>2 DEF Learn, Running
<1>4. owed \subseteq AirFrames /\ owed \subseteq Owed(n, f)
  BY DEF Owed, IndInv, TypeOK
<1>5. /\ mem[n].tally \in Votes /\ mem[n].early \in Votes
      /\ mem[n].windows \in [Members -> Windows] /\ mem[n].forwards \subseteq AirFrames
      /\ mem[n].status \in {"waiting", "consulting", "collecting"}
      /\ mem[n].repaired \in BOOLEAN /\ mem[n].due \in BOOLEAN
      /\ mem[n].acknowledged \in BOOLEAN
  BY <1>2 DEF Running
<1>6. /\ status \in {"waiting", "consulting", "collecting"}
      /\ status = "collecting" <=> mem[n].status = "collecting"
      /\ forwards \in SUBSET AirFrames /\ forwards \subseteq mem[n].forwards \cup Owed(n, f)
      /\ repaired \in BOOLEAN /\ due \in BOOLEAN /\ ack \in BOOLEAN
      /\ ack => mem[n].acknowledged \/ n \in f.heard
  BY <1>4, <1>5
<1>7. windows \in [Members -> Windows]
  <2>1. mark(mem[n].windows[a], f.sequence) \in Windows
    BY <1>1, <1>5, MarkType
  <2> QED BY <1>5, <2>1
<1>8. held \in Nat \cup {None} /\ counted \in Nat \cup {None}
  BY <1>1, <1>5 DEF Votes, Counted
<1>9. /\ early \in Votes /\ tally \in Votes
      /\ \A m \in Members : early[m] = IF m = a THEN held ELSE mem[n].early[m]
      /\ \A m \in Members : tally[m] = IF m = a THEN counted ELSE mem[n].tally[m]
      /\ counted = mem[n].tally[a] => tally = mem[n].tally
  <2> HIDE DEF held, counted, a
  <2> QED BY <1>1, <1>5, <1>8 DEF Votes
<1>10. tally # mem[n].tally =>
            vote /\ closed(n) /\ mem[n].tally[a] = None /\ tally[a] = f.sequence
  BY <1>1, <1>9 DEF Counted
<1>11. \A m \in Members :
        /\ early[m] = IF m = a /\ vote /\ ~closed(n) THEN f.sequence ELSE mem[n].early[m]
        /\ tally[m] = IF m = a /\ vote /\ closed(n) THEN Counted(mem[n].tally[m], f.sequence)
                                                    ELSE mem[n].tally[m]
  BY <1>9
<1> HIDE DEF owed, status, windows, held, early, counted, tally, ack, forwards, repaired, due
<1>12. /\ r \in Running /\ r.status = status /\ r.tally = tally
       /\ r.early = early /\ r.forwards = forwards /\ r.acknowledged = ack
  BY <1>2, <1>6, <1>7, <1>9 DEF Running
<1> HIDE DEF r
<1> QED BY <1>3, <1>6, <1>10, <1>11, <1>12

\* Receiving: an early vote is held, a timely one counted and then witnessed.
LEMMA ReceiveKeeps ==
    ASSUME IndInv, NEW n \in Members, NEW f \in air \cup carried, receive(n, f)
    PROVE  IndInv'
<1> DEFINE a == f.author
           vote == f.stage = "BindingSupport"
           r == Learn(n, f)
<1>1. /\ step[n] = Idle /\ Up(n)
      /\ mem' = [mem EXCEPT ![n] = r]
      /\ remember_seen(n, f.author, f.sequence)
      /\ step' = [step EXCEPT ![n] =
            IF mem'[n].tally # mem[n].tally THEN At("admitted", f) ELSE Idle]
      /\ UNCHANGED <<made, air, carried, crashes>>
  BY DEF receive
<1>2. /\ f \in air \cup made /\ f \in AirFrames /\ a \in Members
      /\ f.sequence \in Nat /\ f.sequence # None
  BY DEF IndInv, TypeOK, AirFrames, None
<1>3. MemberInv(n)
  BY DEF IndInv
<1>4. /\ r \in Running
      /\ r.status = "collecting" <=> mem[n].status = "collecting"
      /\ r.forwards \subseteq mem[n].forwards \cup Owed(n, f)
      /\ \A m \in Members : r.early[m] =
            IF m = a /\ vote /\ ~closed(n) THEN f.sequence ELSE mem[n].early[m]
      /\ \A m \in Members : r.tally[m] =
            IF m = a /\ vote /\ closed(n)
            THEN Counted(mem[n].tally[m], f.sequence) ELSE mem[n].tally[m]
      /\ r.tally # mem[n].tally => vote /\ closed(n) /\ r.tally[a] # None
  BY <1>1, <1>2, LearnFields
<1>5. Owed(n, f) \subseteq air \cup made
  BY DEF Owed
<1>6. \A m \in Members :
        /\ mem[n].early[m] # None => r.early[m] # None
        /\ r.early[m] = mem[n].early[m] \/ (m = a /\ vote /\ r.early[m] = f.sequence)
  BY <1>2, <1>4
<1>7. \A m \in Members :
        /\ mem[n].tally[m] # None => r.tally[m] # None
        /\ r.tally[m] = mem[n].tally[m] \/ (m = a /\ vote /\ r.tally[m] = f.sequence)
  BY <1>2, <1>4 DEF Counted
<1> HIDE DEF r
<1>14. /\ journal' \in [Members -> State] /\ refusals' \in Nat
       /\ \A m \in Members : SameVotes(journal[m], journal'[m])
  BY <1>1, <1>2, RememberSeen DEF IndInv
<1>15. /\ At("admitted", f) \in Steps /\ Idle \in Steps /\ Idle.at = "idle"
       /\ At("admitted", f).at = "admitted" /\ At("admitted", f).frame = f
  BY <1>2 DEF At, Idle, Steps
<1>16. mem'[n] = r
  BY <1>1 DEF IndInv, TypeOK
<1>17. /\ TypeOK'
       /\ step'[n] = IF r.tally # mem[n].tally THEN At("admitted", f) ELSE Idle
  BY <1>1, <1>4, <1>14, <1>15, <1>16 DEF IndInv, TypeOK
<1>18. OthersKept(n) /\ JournalsKept(n)
  BY <1>1, <1>14 DEF OthersKept, JournalsKept, SameVotes, IndInv, TypeOK
<1>19. /\ Up(n)' /\ closed(n)' = closed(n) /\ has_voted(n)' = has_voted(n)
       /\ journal'[n].witnessed = journal[n].witnessed
  BY <1>4, <1>14, <1>16 DEF Up, closed, has_voted, SameVotes, Running
<1>20. MemberInv(n)'
  <2>1. StepFits(n)'
    BY <1>1, <1>2, <1>4, <1>15, <1>16, <1>17, <1>19 DEF StepFits
  <2>2. ForwardsWereSealed(n)'
    BY <1>1, <1>3, <1>4, <1>5, <1>16 DEF MemberInv, ForwardsWereSealed
  <2>3. RecordsAreBinding(n)'
    <3>1. \A m \in Members : Recorded(n, m)' \subseteq
            Recorded(n, m) \cup (IF m = a /\ vote THEN {f.sequence} ELSE {})
      BY <1>6, <1>7, <1>16, <1>19 DEF Recorded
    <3> QED BY <1>1, <1>2, <1>3, <3>1 DEF MemberInv, RecordsAreBinding
  <2>4. NothingDropped(n)'
    <3>1. \A m \in Members : Kept(n, m) => Kept(n, m)'
      BY <1>1, <1>6, <1>7, <1>15, <1>16, <1>19 DEF Kept
    <3> QED BY <1>1, <1>3, <1>15, <1>19, <3>1 DEF MemberInv, NothingDropped
  <2> QED BY <2>1, <2>2, <2>3, <2>4 DEF MemberInv
<1>21. InHand(n, {"reserved", "built", "sent"})' = {}
  BY <1>15, <1>17 DEF InHand
<1> QED BY <1>1, <1>17, <1>18, <1>20, <1>21, MemberStep DEF IndInv

\* Witnessing the vote that was just counted.
LEMMA WitnessAdmittedKeeps ==
    ASSUME IndInv, NEW n \in Members, witness_admitted(n)
    PROVE  IndInv'
<1> DEFINE f == step[n].frame
<1>1. /\ step[n].at = "admitted" /\ witness(n, f.author, f.sequence)
      /\ step' = [step EXCEPT ![n] = Idle]
      /\ UNCHANGED <<mem, made, air, carried, crashes>>
  BY DEF witness_admitted
<1>2. MemberInv(n) /\ f \in AirFrames /\ f.author \in Members /\ f.sequence \in Nat
  BY <1>1 DEF IndInv, TypeOK, Steps, AirFrames
<1>3. /\ Up(n) /\ closed(n) /\ f \in air \cup made /\ f.stage = "BindingSupport"
      /\ mem[n].tally[f.author] # None
  BY <1>1, <1>2 DEF MemberInv, StepFits
<1> HIDE DEF f
<1>4. /\ journal' \in [Members -> State] /\ refusals' \in Nat
      /\ \A k \in Members :
            /\ journal'[k].locks = journal[k].locks
            /\ journal'[k].pending = journal[k].pending
            /\ journal'[k].next_sequence = journal[k].next_sequence
            /\ \A a \in Members :
                \/ journal'[k].witnessed[a] = journal[k].witnessed[a]
                \/ /\ k = n /\ a = f.author /\ journal[k].witnessed[a] = None
                   /\ journal'[k].witnessed[a] = f.sequence
  BY <1>1, <1>2, WitnessVote DEF IndInv
<1>5. Idle \in Steps /\ Idle.at = "idle"
  BY DEF Idle, Steps
<1>6. TypeOK' /\ step'[n] = Idle
  BY <1>1, <1>4, <1>5 DEF IndInv, TypeOK
<1>7. \A k \in Members \ {n} : journal'[k].witnessed = journal[k].witnessed
  <2>1. \A k \in Members : /\ journal[k].witnessed \in [Members -> Nat \cup {None}]
                           /\ journal'[k].witnessed \in [Members -> Nat \cup {None}]
    BY <1>4, FleetConstants DEF IndInv, TypeOK, State, Members
  <2> QED BY <1>4, <2>1
<1>8. OthersKept(n)
  BY <1>1, <1>4, <1>7 DEF OthersKept, IndInv, TypeOK
<1>9. JournalsKept(n)
  <2>1. \A k \in Members : journal[k].next_sequence \in Nat
    BY DEF IndInv, TypeOK, State
  <2> QED BY <1>4, <1>7, <2>1 DEF JournalsKept
<1>10. Up(n)' = Up(n) /\ closed(n)' = closed(n) /\ has_voted(n)' = has_voted(n)
  BY <1>1, <1>4 DEF Up, closed, has_voted
<1>11. MemberInv(n)'
  <2>1. StepFits(n)'
    BY <1>5, <1>6 DEF StepFits
  <2>2. ForwardsWereSealed(n)'
    BY <1>1, <1>2, <1>10 DEF MemberInv, ForwardsWereSealed
  <2>3. RecordsAreBinding(n)'
    <3>1. \A m \in Members : Recorded(n, m)' \subseteq
            Recorded(n, m) \cup (IF m = f.author THEN {f.sequence} ELSE {})
      BY <1>1, <1>4 DEF Recorded
    <3> QED BY <1>1, <1>2, <1>3, <3>1 DEF MemberInv, RecordsAreBinding
  <2>4. NothingDropped(n)'
    <3>1. \A m \in Members : Kept(n, m) => Kept(n, m)'
      BY <1>1, <1>10 DEF Kept
    <3>2. \A m \in Members : m = f.author => Kept(n, m)'
      BY <1>1, <1>3 DEF Kept
    <3> QED BY <1>1, <1>2, <1>4, <1>10, <3>1, <3>2 DEF MemberInv, NothingDropped
  <2> QED BY <2>1, <2>2, <2>3, <2>4 DEF MemberInv
<1>12. InHand(n, {"reserved", "built", "sent"})' = {}
  BY <1>5, <1>6 DEF InHand
<1> QED BY <1>1, <1>6, <1>8, <1>9, <1>11, <1>12, MemberStep DEF IndInv

\* Carrying puts one queued frame on the air, under its author's name.
LEMMA CarryKeeps ==
    ASSUME IndInv, NEW n \in Members, carry(n)
    PROVE  IndInv'
<1>1. PICK f \in mem[n].forwards :
        /\ IF f.author = n
           THEN air' = air \cup {f} /\ UNCHANGED carried
           ELSE carried' = carried \cup {f} /\ UNCHANGED air
        /\ mem' = [mem EXCEPT ![n].due = FALSE, ![n].forwards = @ \ {f}]
  BY DEF carry
<1>2. step[n] = Idle /\ Up(n) /\ UNCHANGED <<journal, step, made, crashes, refusals>>
  BY DEF carry
<1>3. mem[n] \in Running /\ MemberInv(n) /\ Idle.at = "idle"
  BY <1>2, UpIsRunning DEF IndInv, Idle
<1>4. f \in air \cup made /\ f \in AirFrames
  BY <1>2, <1>3 DEF MemberInv, ForwardsWereSealed, Running
<1> DEFINE no == FALSE
           forwards == mem[n].forwards \ {f}
           r == [mem[n] EXCEPT !.due = no, !.forwards = forwards]
<1>5. no \in BOOLEAN /\ forwards \in SUBSET AirFrames /\ forwards \subseteq mem[n].forwards
  BY <1>3 DEF Running
<1>6. mem' = [mem EXCEPT ![n] = r]
  BY <1>1, <1>3 DEF IndInv, TypeOK, Running
<1> HIDE DEF no, forwards
<1>7. /\ r \in Running /\ r.status = mem[n].status /\ r.tally = mem[n].tally
      /\ r.early = mem[n].early /\ r.forwards = forwards
  BY <1>3, <1>5 DEF Running
<1> HIDE DEF r
<1>8. TypeOK' /\ mem'[n] = r
  <2>1. air' \subseteq AirFrames /\ carried' \subseteq AirFrames
    BY <1>1, <1>4 DEF IndInv, TypeOK
  <2> QED BY <1>2, <1>6, <1>7, <2>1 DEF IndInv, TypeOK
<1>9. air \subseteq air' /\ air' \subseteq air \cup {f} /\ carried' \subseteq carried \cup {f}
  BY <1>1
<1>10. OthersKept(n) /\ JournalsKept(n)
  BY <1>2, <1>6, <1>9 DEF OthersKept, JournalsKept, IndInv, TypeOK, State
<1>11. MemberInv(n)'
  <2>1. /\ Up(n)' = Up(n) /\ closed(n)' = closed(n) /\ has_voted(n)' = has_voted(n)
    BY <1>2, <1>7, <1>8 DEF Up, closed, has_voted
  <2>2. StepFits(n)'
    BY <1>2, <1>3 DEF StepFits
  <2>3. ForwardsWereSealed(n)'
    BY <1>2, <1>3, <1>5, <1>7, <1>8, <1>9 DEF MemberInv, ForwardsWereSealed
  <2>4. \A m \in Members : Recorded(n, m)' = Recorded(n, m) /\ (Kept(n, m) => Kept(n, m)')
    BY <1>2, <1>7, <1>8, <2>1 DEF Recorded, Kept
  <2>5. RecordsAreBinding(n)'
    BY <1>2, <1>3, <1>9, <2>4 DEF MemberInv, RecordsAreBinding
  <2>6. NothingDropped(n)'
    BY <1>2, <1>3, <2>1, <2>4 DEF MemberInv, NothingDropped
  <2> QED BY <2>2, <2>3, <2>5, <2>6 DEF MemberInv
<1>12. InHand(n, {"reserved", "built", "sent"})' = {}
  BY <1>2, <1>3 DEF InHand
<1>13. carried' \subseteq air' \cup made'
  BY <1>2, <1>4, <1>9 DEF IndInv
<1> QED BY <1>2, <1>4, <1>8, <1>9, <1>10, <1>11, <1>12, <1>13, MemberStep

\* The end of the round keeps the tally and nothing else.
LEMMA FinishKeeps ==
    ASSUME IndInv, NEW n \in Members, finish(n)
    PROVE  IndInv'
<1> DEFINE r == [Down EXCEPT !.status = "done", !.tally = mem[n].tally]
<1>1. /\ step[n] = Idle /\ closed(n) /\ mem' = [mem EXCEPT ![n] = r]
      /\ UNCHANGED <<journal, step, made, air, carried, crashes, refusals>>
  BY DEF finish
<1>2. mem[n] \in Running /\ MemberInv(n) /\ Idle.at = "idle"
  BY <1>1, UpIsRunning DEF IndInv, Idle, Up, closed
<1>3. /\ r \in Stopped /\ r.status = "done" /\ r.tally = mem[n].tally
      /\ r.early = [m \in Members |-> None]
  BY <1>2 DEF Down, Stopped, Running, Votes
<1> HIDE DEF r
<1>4. TypeOK' /\ mem'[n] = r
  BY <1>1, <1>3 DEF IndInv, TypeOK
<1>5. OthersKept(n) /\ JournalsKept(n)
  BY <1>1 DEF OthersKept, JournalsKept, IndInv, TypeOK, State
<1>6. MemberInv(n)'
  <2>1. ~Up(n)' /\ StepFits(n)'
    BY <1>1, <1>2, <1>3, <1>4 DEF Up, StepFits
  <2>2. \A m \in Members : Recorded(n, m)' \subseteq Recorded(n, m)
    BY <1>1, <1>3, <1>4 DEF Recorded
  <2>3. RecordsAreBinding(n)'
    BY <1>1, <1>2, <2>2 DEF MemberInv, RecordsAreBinding
  <2> QED BY <2>1, <2>3 DEF MemberInv, ForwardsWereSealed, NothingDropped
<1>7. InHand(n, {"reserved", "built", "sent"})' = {}
  BY <1>1, <1>2 DEF InHand
<1> QED BY <1>1, <1>4, <1>5, <1>6, <1>7, MemberStep DEF IndInv

\* A replayed frame is one its author transmitted.
LEMMA ReplayKeeps ==
    ASSUME IndInv, NEW n \in Members, NEW f \in air, Replay(n, f)
    PROVE  IndInv'
<1>1. /\ carried' = carried \cup {f}
      /\ UNCHANGED <<journal, mem, step, made, air, crashes, refusals>>
  BY DEF Replay
<1>2. TypeOK'
  BY <1>1 DEF IndInv, TypeOK
<1>3. OthersKept(n) /\ JournalsKept(n)
  BY <1>1 DEF OthersKept, JournalsKept, IndInv, TypeOK, State
<1>4. \A k \in Members : MemberInv(k)'
  BY <1>1, <1>3, OthersInv, SameMemory
<1>5. Sealed' = Sealed /\ Released' = Released
  BY <1>1 DEF Sealed, Released, InHand
<1>6. SealedBelowCounter' /\ SealedOnce' /\ ReleasedIsCommitted' /\ OutboxHoldsTheVote'
  BY <1>1, <1>5 DEF IndInv, SealedBelowCounter, SealedOnce, ReleasedIsCommitted,
                    OutboxHoldsTheVote, has_voted
<1> QED BY <1>1, <1>2, <1>4, <1>6 DEF IndInv

----------------------------------------------------------------------------

\* The fleet starts in the invariant.
LEMMA InitIndInv == Init => IndInv
<1> SUFFICES ASSUME Init PROVE IndInv
  OBVIOUS
<1>1. Authors = Members /\ Senders = Members
  BY FleetConstants DEF Members
<1>2. EmptyState \in State /\ EmptyState.locks = {} /\ EmptyState.pending = {}
      /\ EmptyState.witnessed = [m \in Members |-> None]
  BY <1>1 DEF EmptyState, State, None
<1>3. ASSUME NEW n \in Members
      PROVE  /\ FreshJournal(n) \in State /\ FreshJournal(n).locks = {}
             /\ FreshJournal(n).pending = {}
             /\ FreshJournal(n).witnessed = [m \in Members |-> None]
  <2>1. Start[n] \in Nat
    BY FleetConstants
  <2> QED BY <1>2, <2>1, ApplySequence DEF FreshJournal, SameVotes
<1>4. ASSUME NEW n \in Members
      PROVE  /\ journal[n] = FreshJournal(n) /\ step[n] = Idle
             /\ mem[n] = Booted(FreshJournal(n), n)
             /\ mem[n] \in Running /\ mem[n].forwards = {}
             /\ mem[n].tally = [m \in Members |-> None]
             /\ mem[n].early = [m \in Members |-> None]
  <2>1. journal[n] = FreshJournal(n) /\ step[n] = Idle /\ mem[n] = Booted(FreshJournal(n), n)
    BY DEF Init
  <2>2. restored(FreshJournal(n), n) = [m \in Members |-> None]
    BY <1>3 DEF restored
  <2> QED BY <1>3, <2>1, <2>2, BootedProcess
<1>5. Idle \in Steps /\ Idle.at = "idle"
  BY DEF Idle, Steps
<1>6. TypeOK
  BY <1>3, <1>4, <1>5 DEF Init, TypeOK
<1>7. Sealed = {} /\ Released = {}
  BY <1>4, <1>5 DEF Sealed, Released, InHand, Init
<1>8. SealedBelowCounter /\ SealedOnce /\ ReleasedIsCommitted
  BY <1>7 DEF SealedBelowCounter, SealedOnce, ReleasedIsCommitted
<1>9. OutboxHoldsTheVote
  BY <1>3, <1>4 DEF OutboxHoldsTheVote, has_voted, Init
<1>10. ASSUME NEW n \in Members PROVE MemberInv(n)
  <2>1. \A m \in Members : Recorded(n, m) = {}
    BY <1>3, <1>4 DEF Recorded
  <2>2. StepFits(n) /\ ForwardsWereSealed(n) /\ RecordsAreBinding(n)
    BY <1>4, <1>5, <2>1 DEF StepFits, ForwardsWereSealed, RecordsAreBinding
  <2>3. NothingDropped(n)
    BY <1>3, <1>4 DEF NothingDropped, has_voted
  <2> QED BY <2>2, <2>3 DEF MemberInv
<1> QED BY <1>6, <1>8, <1>9, <1>10 DEF IndInv, Init

\* Every step of the fleet preserves the invariant.
LEMMA NextKeeps ==
    ASSUME IndInv, [Next]_vars
    PROVE  IndInv'
<1>1. CASE UNCHANGED vars
  <2>1. UNCHANGED <<journal, mem, step, made, air, carried, crashes, refusals>>
    BY <1>1 DEF vars
  <2>2. TypeOK' /\ Sealed' = Sealed /\ Released' = Released
    BY <2>1 DEF IndInv, TypeOK, Sealed, Released, InHand
  <2>3. \A k \in Members : MemberInv(k)'
    BY <2>1 DEF IndInv, MemberInv, StepFits, ForwardsWereSealed, RecordsAreBinding,
                NothingDropped, Recorded, Kept, Up, closed, has_voted
  <2> QED BY <2>1, <2>2, <2>3 DEF IndInv, SealedBelowCounter, SealedOnce,
                ReleasedIsCommitted, OutboxHoldsTheVote, has_voted
<1>2. ASSUME NEW n \in Members, Loop(n)
      PROVE  IndInv'
  BY <1>2, RestartKeeps, ReserveKeeps, CommitVoteKeeps, FromOutboxKeeps, TransmitKeeps,
     RememberOwnKeeps, CountersKeep, CloseKeeps, DrainKeeps, WitnessAdmittedKeeps,
     CarryKeeps, FinishKeeps DEF Loop
<1>3. ASSUME NEW n \in Members, Receive(n)
      PROVE  IndInv'
  BY <1>3, ReceiveKeeps DEF Receive
<1> QED BY <1>1, <1>2, <1>3, CrashKeeps, ReplayKeeps DEF Next

\* IndInv holds of every reachable state of the fleet.
THEOREM Invariance == Spec => []IndInv
<1> QED BY InitIndInv, NextKeeps, PTL DEF Spec

\* No two different frames ever go out under one author and sequence, the
\* nonce they are sealed under, whatever crashes, refused writes, repetitions
\* and adversaries there are (build, build_nack, build_trigger; nonce_for).
THEOREM NonceNeverReused == Spec => []NoncesUnique
<1>1. IndInv => NoncesUnique
  BY DEF IndInv, SealedOnce, Sealed, NoncesUnique
<1> QED BY <1>1, Invariance, PTL

\* A member that is no double voter transmits one binding frame on the case,
\* whatever it dies between and however often its vote is repeated, asked for
\* or carried (build, JournalError::AlreadyVoted, journal.pending()).
THEOREM VotesWithOneFrame == Spec => []OneBindingFrame
<1>1. IndInv => OneBindingFrame
  <2> SUFFICES ASSUME IndInv, NEW f \in air, NEW g \in air,
                      f.author = g.author, f.author \notin DoubleVoters,
                      f.stage = "BindingSupport", g.stage = "BindingSupport"
               PROVE  f = g
    BY DEF OneBindingFrame
  <2>1. f \in made /\ g \in made /\ has_voted(f.author)
    BY DEF IndInv, ReleasedIsCommitted, Released
  <2>2. f.author \in Members
    BY DEF IndInv, TypeOK, AirFrames
  <2> QED BY <2>1, <2>2, OutboxIsTheVote
<1> QED BY <1>1, Invariance, PTL

\* A vote anybody counts, holds or has witnessed is one its author is durably
\* bound to: a crash of the author never leaves it free to vote again.
THEOREM CountsOnlyCommitted == Spec => []CountedIsCommitted
<1>1. IndInv => CountedIsCommitted
  <2> SUFFICES ASSUME IndInv, NEW n \in Members, NEW m \in Members \ DoubleVoters,
                      NEW sequence \in Recorded(n, m)
               PROVE  /\ TheCase \in journal[m].locks
                      /\ sequence \in {p.sequence : p \in journal[m].pending}
    BY DEF CountedIsCommitted
  <2>1. PICK f \in air \cup made :
            f.author = m /\ f.sequence = sequence /\ f.stage = "BindingSupport"
    BY DEF IndInv, MemberInv, RecordsAreBinding
  <2>2. f \in made
    BY <2>1 DEF IndInv, ReleasedIsCommitted, Released
  <2>3. has_voted(m) /\ journal[m].pending = {OutgoingFrame(sequence, TheCase, {})}
    BY <2>1, <2>2 DEF IndInv, OutboxHoldsTheVote
  <2>4. OutgoingFrame(sequence, TheCase, {}).sequence = sequence
    BY DEF OutgoingFrame
  <2> QED BY <2>3, <2>4 DEF has_voted
<1> QED BY <1>1, Invariance, PTL

\* Once consultation is closed and the held votes drained, the tally misses
\* nothing the journal holds, in whatever life it was written.
THEOREM RestoresEveryVote == Spec => []RestoredIsCounted
<1>1. IndInv => RestoredIsCounted
  <2> SUFFICES ASSUME IndInv, NEW n \in Members, closed(n), step[n] = Idle
               PROVE  /\ \A m \in Members : journal[n].witnessed[m] # None
                                                => mem[n].tally[m] # None
                      /\ has_voted(n) => mem[n].tally[n] # None
    BY DEF RestoredIsCounted
  <2>1. Up(n) /\ NothingDropped(n) /\ step[n].at = "idle"
    BY DEF Up, closed, IndInv, MemberInv, Idle
  <2> QED BY <2>1 DEF NothingDropped, Kept
<1> QED BY <1>1, Invariance, PTL

----------------------------------------------------------------------------
(* Endorsement.                                                            *)

\* The adversaries fit in the budget the policy was given.
WithinBudget ==
    /\ Budget \in Nat
    /\ Cardinality(DoubleVoters \cup Liars \cup Replayers) <= max_faulty(policy)

\* A signer count that passes leaves more than half of the honest members once
\* every faulty one is taken away.
LEMMA HonestSigners ==
    ASSUME WithinBudget, NEW signers \in SUBSET Members, count_met(policy, signers)
    PROVE  2 * Cardinality(signers \cap Honest) > Cardinality(Honest)
<1> DEFINE faulty == DoubleVoters \cup Liars \cup Replayers
           M == Members
<1>1. faulty \subseteq M /\ Honest = M \ faulty /\ IsFiniteSet(M)
  BY FleetConstants, JournalConstants DEF Honest, Members
<1>2. /\ IsFiniteSet(faulty) /\ IsFiniteSet(signers)
      /\ IsFiniteSet(signers \cap faulty) /\ IsFiniteSet(signers \cap Honest)
      /\ IsFiniteSet(Honest)
  BY <1>1, FS_Subset, signers \cap faulty \in SUBSET M, signers \cap Honest \in SUBSET M,
     faulty \in SUBSET M, Honest \in SUBSET M
<1> HIDE DEF faulty, M
<1>3. /\ Cardinality(M) \in Nat /\ Cardinality(faulty) \in Nat /\ Cardinality(Honest) \in Nat
      /\ Cardinality(signers) \in Nat /\ Cardinality(signers \cap faulty) \in Nat
      /\ Cardinality(signers \cap Honest) \in Nat
  BY <1>1, <1>2, FS_CardinalityType
<1>4. Cardinality({}) = 0
  BY FS_EmptySet
<1>5. Cardinality(M) = Cardinality(Honest) + Cardinality(faulty)
  <2>1. Honest \cup faulty = M /\ Honest \cap faulty = {}
    BY <1>1
  <2>2. Cardinality(Honest \cup faulty) =
            Cardinality(Honest) + Cardinality(faulty) - Cardinality(Honest \cap faulty)
    BY <1>2, FS_Union
  <2>3. Cardinality(M) = Cardinality(Honest) + Cardinality(faulty) - Cardinality({})
    BY <2>1, <2>2, Zenon
  <2> QED BY <1>3, <1>4, <2>3
<1>6. Cardinality(signers) =
        Cardinality(signers \cap Honest) + Cardinality(signers \cap faulty)
  <2>1. (signers \cap Honest) \cup (signers \cap faulty) = signers
        /\ (signers \cap Honest) \cap (signers \cap faulty) = {}
    BY <1>1 DEF M
  <2> DEFINE A == signers \cap Honest
             B == signers \cap faulty
  <2>2. Cardinality(A \cup B) = Cardinality(A) + Cardinality(B) - Cardinality(A \cap B)
    BY <1>2, FS_Union
  <2>3. A \cup B = signers /\ A \cap B = {}
    BY <2>1
  <2> HIDE DEF A, B
  <2>4. Cardinality(A) \in Nat /\ Cardinality(B) \in Nat
    BY <1>3 DEF A, B
  <2>5. Cardinality(signers) = Cardinality(A) + Cardinality(B) - Cardinality({})
    BY <2>2, <2>3, Zenon
  <2>6. Cardinality(signers) = Cardinality(A) + Cardinality(B)
    BY <1>4, <2>4, <2>5
  <2> QED BY <2>6 DEF A, B
<1>7. Cardinality(signers \cap faulty) <= Cardinality(faulty)
  BY <1>2, FS_Subset, signers \cap faulty \in SUBSET faulty
<1>8. /\ size(policy) = Cardinality(M) /\ max_faulty(policy) \in Nat
      /\ Cardinality(faulty) <= max_faulty(policy)
  <2>1. policy.byzantine_bps = Budget /\ DOMAIN policy.competences = M
    BY DEF policy, M
  <2>2. size(policy) = Cardinality(M)
    BY <2>1 DEF size
  <2>3. Budget * Cardinality(M) \in Nat
    BY <1>3 DEF WithinBudget
  <2>4. max_faulty(policy) = (Budget * Cardinality(M)) \div 10000
    BY <2>1, <2>2 DEF max_faulty, BasisPoints
  <2> QED BY <2>2, <2>3, <2>4 DEF WithinBudget, faulty
<1>9. 2 * min_signers(policy) > Cardinality(M) + max_faulty(policy) /\ min_signers(policy) \in Nat
  BY <1>3, <1>8 DEF min_signers
<1>10. Cardinality(signers) >= min_signers(policy)
  BY DEF count_met
<1> QED BY <1>3, <1>5, <1>6, <1>7, <1>8, <1>9, <1>10

\* With the adversaries inside the fault budget, a member that endorses does so
\* on the durable votes of more than half of the honest members, over any
\* losses, crashes and repairs (Policy::min_signers, Case::binding_supporters).
THEOREM EndorsementBacked ==
    ASSUME WithinBudget
    PROVE  Spec => []EndorsementIsBacked
<1>1. ASSUME IndInv PROVE EndorsementIsBacked
  <2> SUFFICES ASSUME NEW n \in Members, endorsed(n)
               PROVE  2 * Cardinality({m \in Honest : has_voted(m)}) > Cardinality(Honest)
    BY DEF EndorsementIsBacked
  <2> DEFINE S == binding_supporters(n)
             V == {m \in Honest : has_voted(m)}
  <2>1. S \in SUBSET Members /\ count_met(policy, S)
    BY DEF binding_supporters, heard, endorsed, approved
  <2>2. ASSUME NEW m \in S \cap Honest PROVE m \in V
    <3>1. m \in Members \ DoubleVoters /\ mem[n].tally[m] \in Recorded(n, m)
      BY <2>2 DEF binding_supporters, heard, Honest, Recorded
    <3>2. PICK f \in air \cup made : f.author = m /\ f.stage = "BindingSupport"
      BY <1>1, <3>1 DEF IndInv, MemberInv, RecordsAreBinding
    <3>3. has_voted(m)
      BY <1>1, <3>2 DEF IndInv, ReleasedIsCommitted, Released, OutboxHoldsTheVote
    <3> QED BY <2>2, <3>3
  <2>3. IsFiniteSet(V)
    <3>1. IsFiniteSet(Members) /\ V \in SUBSET Members
      BY JournalConstants DEF Members, Honest
    <3> QED BY <3>1, FS_Subset
  <2>4. Cardinality(S \cap Honest) <= Cardinality(V) /\ IsFiniteSet(S \cap Honest)
    BY <2>2, <2>3, FS_Subset, S \cap Honest \in SUBSET V
  <2>5. Cardinality(S \cap Honest) \in Nat /\ Cardinality(V) \in Nat
    BY <2>3, <2>4, FS_CardinalityType
  <2>6. 2 * Cardinality(S \cap Honest) > Cardinality(Honest)
    BY <2>1, HonestSigners
  <2>7. Cardinality(Honest) \in Nat
    <3>1. IsFiniteSet(Members) /\ Honest \in SUBSET Members
      BY JournalConstants DEF Members, Honest
    <3> QED BY <3>1, FS_Subset, FS_CardinalityType
  <2> HIDE DEF S, V
  <2>8. 2 * Cardinality(V) > Cardinality(Honest)
    BY <2>4, <2>5, <2>6, <2>7
  <2> QED BY <2>8 DEF V
<1> QED BY <1>1, Invariance, PTL

----------------------------------------------------------------------------
(* Two invariants above IndInv: what a member counts is what it witnessed, *)
(* and a vote that is acknowledged is durable with somebody else.          *)


----------------------------------------------------------------------------
(* What the actions do to the votes.                                       *)

\* A step of n that leaves every vote where it was.
Quiet(n) ==
    /\ OthersKept(n)
    /\ journal'[n].witnessed = journal[n].witnessed
    /\ mem'[n].status = mem[n].status
    /\ mem'[n].tally = mem[n].tally /\ mem'[n].early = mem[n].early
    /\ mem'[n].acknowledged = mem[n].acknowledged
    /\ mem'[n].forwards \subseteq mem[n].forwards

\* The places in the loop where a vote is on its way into tally and journal.
Counting == {"draining", "admitted"}

\* A step that only touches fields no vote is in.
LEMMA SameVotesInMemory ==
    ASSUME IndInv, NEW n \in Members, NEW r,
           mem' = [mem EXCEPT ![n] = r],
           \A k \in Members \ {n} : step'[k] = step[k],
           \A k \in Members : SameVotes(journal[k], journal'[k]),
           made \subseteq made', air \subseteq air',
           r.status = mem[n].status, r.tally = mem[n].tally, r.early = mem[n].early,
           r.acknowledged = mem[n].acknowledged, r.forwards \subseteq mem[n].forwards
    PROVE  Quiet(n)
<1>1. mem'[n] = r /\ \A k \in Members \ {n} : mem'[k] = mem[k]
  BY DEF IndInv, TypeOK
<1> QED BY <1>1 DEF Quiet, OthersKept, SameVotes

LEMMA UnwrittenVotes ==
    ASSUME IndInv, UNCHANGED journal
    PROVE  \A k \in Members : SameVotes(journal[k], journal'[k])
<1> QED BY DEF IndInv, TypeOK, State, SameVotes

\* A missed slot, an acknowledgement taken, a repair round.
LEMMA CountersQuiet ==
    ASSUME IndInv, NEW n \in Members,
           slot_missed(n) \/ acknowledged(n) \/ repair_round(n)
    PROVE  Quiet(n) /\ UNCHANGED <<journal, step, made, air, carried, crashes, refusals>>
           /\ step[n] = Idle
<1>1. /\ step[n] = Idle /\ Up(n)
      /\ UNCHANGED <<journal, step, made, air, carried, crashes, refusals>>
  BY DEF slot_missed, acknowledged, repair_round, closed, Up
<1>2. mem[n] \in Running
  BY <1>1, UpIsRunning DEF IndInv
<1>3. \E r : /\ mem' = [mem EXCEPT ![n] = r]
             /\ r.status = mem[n].status /\ r.tally = mem[n].tally /\ r.early = mem[n].early
             /\ r.acknowledged = mem[n].acknowledged /\ r.forwards = mem[n].forwards
  <2>1. CASE slot_missed(n)
    <3> DEFINE r == [mem[n] EXCEPT !.attempts = @ + 1]
    <3>1. mem' = [mem EXCEPT ![n] = r]
      BY <2>1 DEF slot_missed
    <3>2. /\ r.status = mem[n].status /\ r.tally = mem[n].tally /\ r.early = mem[n].early
          /\ r.acknowledged = mem[n].acknowledged /\ r.forwards = mem[n].forwards
      BY <1>2 DEF Running
    <3> HIDE DEF r
    <3> QED BY <3>1, <3>2
  <2>2. CASE acknowledged(n)
    <3> DEFINE r == [mem[n] EXCEPT !.sent = @ \cup {"BindingSupport"}]
    <3>1. mem' = [mem EXCEPT ![n] = r]
      BY <2>2 DEF acknowledged
    <3>2. /\ r.status = mem[n].status /\ r.tally = mem[n].tally /\ r.early = mem[n].early
          /\ r.acknowledged = mem[n].acknowledged /\ r.forwards = mem[n].forwards
      BY <1>2 DEF Running
    <3> HIDE DEF r
    <3> QED BY <3>1, <3>2
  <2>3. CASE repair_round(n)
    <3> DEFINE r == [mem[n] EXCEPT !.repair = @ + 1, !.nacked = FALSE, !.repaired = FALSE]
    <3>1. mem' = [mem EXCEPT ![n] = r]
      BY <2>3 DEF repair_round, IndInv, TypeOK
    <3>2. /\ r.status = mem[n].status /\ r.tally = mem[n].tally /\ r.early = mem[n].early
          /\ r.acknowledged = mem[n].acknowledged /\ r.forwards = mem[n].forwards
      BY <1>2 DEF Running
    <3> HIDE DEF r
    <3> QED BY <3>1, <3>2
  <2> QED BY <2>1, <2>2, <2>3
<1> QED BY <1>1, <1>3, UnwrittenVotes, SameVotesInMemory

\* A frame that is given up.
LEMMA NotSentQuiet ==
    ASSUME IndInv, NEW n \in Members, NEW stage \in Stages, Up(n), NotDurable, NotSent(n, stage)
    PROVE  Quiet(n) /\ step'[n] = Idle /\ refusals' = refusals + 1
           /\ UNCHANGED <<made, air, carried, crashes>>
<1> DEFINE r == [mem[n] EXCEPT
            !.sent = @ \cup ({stage} \cap {"Independent", "Consultation", "BindingSupport"}),
            !.nacked = @ \/ stage = "Nack"]
<1>1. mem[n] \in Running
  BY UpIsRunning DEF IndInv
<1>2. mem' = [mem EXCEPT ![n] = r]
  BY DEF NotSent, IndInv, TypeOK
<1>3. /\ r.status = mem[n].status /\ r.tally = mem[n].tally /\ r.early = mem[n].early
      /\ r.acknowledged = mem[n].acknowledged /\ r.forwards = mem[n].forwards
  BY <1>1 DEF Running
<1> HIDE DEF r
<1>4. /\ step' = [step EXCEPT ![n] = Idle] /\ refusals' = refusals + 1
      /\ UNCHANGED <<journal, made, air, carried, crashes>>
  BY DEF NotSent, NotDurable
<1>5. step'[n] = Idle /\ \A k \in Members \ {n} : step'[k] = step[k]
  BY <1>4 DEF IndInv, TypeOK
<1> QED BY <1>2, <1>3, <1>4, <1>5, UnwrittenVotes, SameVotesInMemory

\* Reserving: the frame in hand says what n has counted.
LEMMA ReserveEffect ==
    ASSUME IndInv, NEW n \in Members, NEW stage \in Stages, reserve(n, stage)
    PROVE  /\ Quiet(n) /\ step[n] = Idle /\ Up(n)
           /\ UNCHANGED <<made, air, carried, crashes>>
           /\ \/ step'[n] = Idle /\ refusals' = refusals + 1
              \/ /\ refusals' = refusals
                 /\ step'[n].at \in {"reserved", "built"}
                 /\ step'[n].at = "reserved" => closed(n) /\ ~has_voted(n)
                 /\ step'[n].frame.author = n
                 /\ step'[n].frame.heard \in {{}, heard(n)} \/ n \in Liars
<1> DEFINE sequence == journal[n].next_sequence
           already == stage = "BindingSupport" /\ has_voted(n)
           told == CASE stage = "Trigger" -> {}
                     [] stage # "Nack" /\ n \in Liars -> Members
                     [] OTHER -> heard(n)
           verdict == IF already THEN "Dispute" ELSE "Support"
           frame == [author |-> n, sequence |-> sequence, stage |-> stage,
                     verdict |-> verdict, heard |-> told]
           where == IF stage = "BindingSupport" /\ ~already THEN "reserved" ELSE "built"
<1>1. step[n] = Idle /\ Due(n, stage)
  BY DEF reserve
<1>2. Up(n) /\ (stage = "BindingSupport" => closed(n))
  BY <1>1 DEF Due, Up, Joined, closed, Stages
<1>3. CASE NotDurable /\ NotSent(n, stage)
  BY <1>1, <1>2, <1>3, NotSentQuiet
<1>4. CASE /\ Write(n, Sequence(sequence + 1))
           /\ step' = [step EXCEPT ![n] = At(where, frame)]
           /\ UNCHANGED <<mem, made, air, carried, crashes>>
  <2>1. journal[n] \in State /\ sequence + 1 \in Nat
    BY DEF IndInv, TypeOK, State
  <2>2. SameVotes(journal[n], apply(journal[n], Sequence(sequence + 1)))
    BY <2>1, ApplySequence
  <2>3. \A k \in Members : SameVotes(journal[k], journal'[k])
    BY <1>4, <2>2 DEF Write, IndInv, TypeOK, SameVotes, State
  <2>4. told \in {{}, heard(n)} \/ n \in Liars
    BY DEF Stages
  <2>5. frame.author = n /\ frame.heard = told
    OBVIOUS
  <2>6. /\ where \in {"reserved", "built"}
        /\ where = "reserved" => stage = "BindingSupport" /\ ~has_voted(n)
    OBVIOUS
  <2> HIDE DEF frame, where, told
  <2>7. At(where, frame).at = where /\ At(where, frame).frame = frame
    BY DEF At
  <2>8. step'[n] = At(where, frame) /\ \A k \in Members \ {n} : step'[k] = step[k]
    BY <1>4 DEF IndInv, TypeOK
  <2>9. refusals' = refusals
    BY <1>4 DEF Write
  <2>10. Quiet(n)
    BY <1>4, <2>3, <2>8 DEF Quiet, OthersKept, SameVotes
  <2> QED BY <1>1, <1>2, <1>4, <2>4, <2>5, <2>6, <2>7, <2>8, <2>9, <2>10
<1> QED BY <1>3, <1>4 DEF reserve

\* Committing: the frame in hand is the one that is made.
LEMMA CommitVoteEffect ==
    ASSUME IndInv, NEW n \in Members, commit_vote(n)
    PROVE  /\ Quiet(n) /\ step[n].at = "reserved"
           /\ UNCHANGED <<air, carried, crashes>>
           /\ \/ step'[n] = Idle /\ refusals' = refusals + 1 /\ made' = made
              \/ /\ refusals' = refusals /\ made' = made \cup {step[n].frame}
                 /\ step'[n] = At("built", step[n].frame)
<1> DEFINE frame == step[n].frame
           outgoing == OutgoingFrame(frame.sequence, TheCase, {})
           j == apply(journal[n], Vote(TheCase, outgoing))
<1>1. step[n].at = "reserved" /\ Up(n) /\ ~has_voted(n)
  BY DEF commit_vote, IndInv, MemberInv, StepFits
<1>2. CASE NotDurable /\ NotSent(n, "BindingSupport")
  BY <1>1, <1>2, NotSentQuiet DEF Stages
<1>3. CASE /\ Write(n, Vote(TheCase, outgoing))
           /\ made' = made \cup {frame}
           /\ step' = [step EXCEPT ![n] = At("built", frame)]
           /\ UNCHANGED <<mem, air, carried, crashes>>
  <2>1. frame.sequence \in Nat
    BY <1>1 DEF IndInv, TypeOK, Steps, AirFrames
  <2>2. journal[n] \in State /\ journal[n].pending = {}
    BY <1>1 DEF IndInv, TypeOK, OutboxHoldsTheVote
  <2>3. j.witnessed = journal[n].witnessed
    BY <2>1, <2>2, CaseIsAKey, ApplyVote
  <2> HIDE DEF j
  <2>4. journal' = [journal EXCEPT ![n] = j] /\ refusals' = refusals
    BY <1>3 DEF Write, j
  <2>5. /\ step'[n] = At("built", frame) /\ \A k \in Members \ {n} : step'[k] = step[k]
        /\ journal'[n] = j /\ \A k \in Members \ {n} : journal'[k] = journal[k]
    BY <1>3, <2>4 DEF IndInv, TypeOK
  <2>6. Quiet(n)
    BY <1>3, <2>3, <2>5 DEF Quiet, OthersKept
  <2> QED BY <1>1, <1>3, <2>4, <2>5, <2>6
<1> QED BY <1>2, <1>3 DEF commit_vote

\* The vote from the outbox.
LEMMA FromOutboxEffect ==
    ASSUME IndInv, NEW n \in Members, from_outbox(n)
    PROVE  /\ Quiet(n) /\ step[n] = Idle
           /\ UNCHANGED <<journal, mem, made, air, carried, crashes, refusals>>
           /\ step'[n].at = "built" /\ step'[n].frame \in made
<1>1. /\ step[n] = Idle /\ has_voted(n)
      /\ step' = [step EXCEPT ![n] = At("built", OutboxVote(journal[n], n))]
      /\ UNCHANGED <<journal, mem, made, air, carried, crashes, refusals>>
  BY DEF from_outbox
<1>2. OutboxVote(journal[n], n) \in made
  BY <1>1, OutboxIsTheVote
<1>3. /\ step'[n] = At("built", OutboxVote(journal[n], n))
      /\ \A k \in Members \ {n} : step'[k] = step[k]
  BY <1>1 DEF IndInv, TypeOK
<1>4. step'[n].at = "built" /\ step'[n].frame \in made
  BY <1>2, <1>3 DEF At
<1> QED BY <1>1, <1>3, <1>4 DEF Quiet, OthersKept

\* Remembering one's own sequence.
LEMMA RememberOwnEffect ==
    ASSUME IndInv, NEW n \in Members, remember_own(n)
    PROVE  /\ Quiet(n) /\ step[n].at = "sent" /\ step'[n] = Idle
           /\ UNCHANGED <<mem, made, air, carried, crashes>>
<1>1. /\ step[n].at = "sent" /\ step' = [step EXCEPT ![n] = Idle]
      /\ remember_seen(n, n, step[n].frame.sequence)
      /\ UNCHANGED <<mem, made, air, carried, crashes>>
  BY DEF remember_own
<1>2. step[n].frame.sequence \in Nat
  BY <1>1 DEF IndInv, TypeOK, Steps, AirFrames
<1>3. \A m \in Members : SameVotes(journal[m], journal'[m])
  BY <1>1, <1>2, RememberSeen DEF IndInv
<1>4. step'[n] = Idle /\ \A k \in Members \ {n} : step'[k] = step[k]
  BY <1>1 DEF IndInv, TypeOK
<1> QED BY <1>1, <1>3, <1>4 DEF Quiet, OthersKept, SameVotes

\* Carrying one of the queued frames.
LEMMA CarryEffect ==
    ASSUME IndInv, NEW n \in Members, carry(n)
    PROVE  /\ Quiet(n) /\ step[n] = Idle /\ Up(n)
           /\ UNCHANGED <<journal, step, made, crashes, refusals>>
           /\ \E f \in mem[n].forwards :
                \/ f.author = n /\ air' = air \cup {f} /\ carried' = carried
                \/ f.author # n /\ air' = air /\ carried' = carried \cup {f}
<1>1. PICK f \in mem[n].forwards :
        /\ IF f.author = n
           THEN air' = air \cup {f} /\ UNCHANGED carried
           ELSE carried' = carried \cup {f} /\ UNCHANGED air
        /\ mem' = [mem EXCEPT ![n].due = FALSE, ![n].forwards = @ \ {f}]
  BY DEF carry
<1>2. step[n] = Idle /\ Up(n) /\ UNCHANGED <<journal, step, made, crashes, refusals>>
  BY DEF carry
<1>3. mem[n] \in Running
  BY <1>2, UpIsRunning DEF IndInv
<1> DEFINE r == [mem[n] EXCEPT !.due = FALSE, !.forwards = @ \ {f}]
<1>4. mem' = [mem EXCEPT ![n] = r]
  BY <1>1 DEF IndInv, TypeOK
<1>5. /\ r.status = mem[n].status /\ r.tally = mem[n].tally /\ r.early = mem[n].early
      /\ r.acknowledged = mem[n].acknowledged /\ r.forwards \subseteq mem[n].forwards
  BY <1>3 DEF Running
<1> HIDE DEF r
<1>6. air \subseteq air'
  BY <1>1
<1>7. Quiet(n)
  BY <1>2, <1>4, <1>5, <1>6, UnwrittenVotes, SameVotesInMemory
<1> QED BY <1>1, <1>2, <1>7

\* Transmitting: the frame is out, and a vote is in the tally.
LEMMA TransmitEffect ==
    ASSUME IndInv, NEW n \in Members, transmit(n)
    PROVE  LET frame == step[n].frame
               vote == frame.stage = "BindingSupport"
           IN  /\ OthersKept(n) /\ Up(n) /\ mem'[n] \in Running
               /\ UNCHANGED <<journal, made, carried, crashes, refusals>>
               /\ air' = air \cup {frame}
               /\ step[n].at = "built" /\ step'[n].at \in {"sent", "idle"}
               /\ frame.author = n /\ (vote => closed(n))
               /\ mem'[n].status = "collecting" <=> mem[n].status = "collecting"
               /\ mem'[n].early = mem[n].early /\ mem'[n].forwards = mem[n].forwards
               /\ mem'[n].acknowledged = mem[n].acknowledged
               /\ \A m \in Members : mem'[n].tally[m] =
                    IF m = n /\ vote THEN Counted(mem[n].tally[m], frame.sequence)
                                     ELSE mem[n].tally[m]
<1> DEFINE frame == step[n].frame
           r == Noted(n, frame)
<1>1. /\ step[n].at = "built" /\ air' = air \cup {frame}
      /\ mem' = [mem EXCEPT ![n] = r]
      /\ step' = [step EXCEPT ![n] = IF Utterance(frame) THEN At("sent", frame) ELSE Idle]
      /\ UNCHANGED <<journal, made, carried, crashes, refusals>>
  BY DEF transmit
<1>2. /\ frame \in AirFrames /\ frame.author = n /\ Up(n)
      /\ frame.stage = "BindingSupport" => closed(n)
  BY <1>1 DEF IndInv, TypeOK, Steps, MemberInv, StepFits
<1>3. mem[n] \in Running
  BY <1>2, UpIsRunning DEF IndInv
<1>4. At("sent", frame).at = "sent" /\ Idle.at = "idle"
  BY DEF At, Idle
<1>5. /\ mem'[n] = r /\ step'[n].at \in {"sent", "idle"}
      /\ \A k \in Members \ {n} : mem'[k] = mem[k] /\ step'[k] = step[k]
  <2> HIDE DEF r
  <2> QED BY <1>1, <1>4 DEF IndInv, TypeOK
<1>6. OthersKept(n)
  BY <1>1, <1>5 DEF OthersKept
<1> QED BY <1>1, <1>2, <1>3, <1>5, <1>6, NotedFields

\* Closing consultation: what was held is to be offered.
LEMMA CloseEffect ==
    ASSUME IndInv, NEW n \in Members, close_consultation(n)
    PROVE  /\ OthersKept(n) /\ Up(n) /\ step[n] = Idle
           /\ UNCHANGED <<journal, made, air, carried, crashes, refusals>>
           /\ mem[n].status = "consulting" /\ mem'[n].status = "collecting"
           /\ mem'[n].tally = mem[n].tally /\ mem'[n].early = mem[n].early
           /\ mem'[n].acknowledged = mem[n].acknowledged
           /\ mem'[n].forwards = mem[n].forwards
           /\ step'[n].at = IF Held(n) = {} THEN "idle" ELSE "draining"
<1> DEFINE r == [mem[n] EXCEPT !.status = "collecting"]
           after == IF Held(n) = {} THEN Idle ELSE [at |-> "draining"]
<1>1. /\ step[n] = Idle /\ mem[n].status = "consulting"
      /\ mem' = [mem EXCEPT ![n] = r]
      /\ step' = [step EXCEPT ![n] = after]
      /\ UNCHANGED <<journal, made, air, carried, crashes, refusals>>
  BY DEF close_consultation
<1>2. Up(n) /\ mem[n] \in Running
  BY <1>1, UpIsRunning DEF IndInv, Up
<1>3. /\ r.status = "collecting" /\ r.tally = mem[n].tally /\ r.early = mem[n].early
      /\ r.acknowledged = mem[n].acknowledged /\ r.forwards = mem[n].forwards
  BY <1>2 DEF Running
<1>4. after.at = IF Held(n) = {} THEN "idle" ELSE "draining"
  BY DEF Idle
<1> HIDE DEF r, after
<1>5. /\ mem'[n] = r /\ step'[n] = after
      /\ \A k \in Members \ {n} : mem'[k] = mem[k] /\ step'[k] = step[k]
  BY <1>1 DEF IndInv, TypeOK
<1>6. OthersKept(n)
  BY <1>1, <1>5 DEF OthersKept
<1> QED BY <1>1, <1>2, <1>3, <1>4, <1>5, <1>6

\* Witnessing succeeds, and then the journal has a vote of the author, or is
\* refused and changes nothing.
LEMMA WitnessLands ==
    ASSUME TypeOK, NEW n \in Members, NEW author \in Members, NEW sequence \in Nat,
           witness(n, author, sequence)
    PROVE  \/ refusals' = refusals + 1
           \/ refusals' = refusals /\ journal'[n].witnessed[author] # None
<1>1. Authors = Members /\ sequence # None
  BY FleetConstants DEF Members, None
<1>2. CASE UNCHANGED <<journal, refusals>> /\ journal[n].witnessed[author] # None
  BY <1>2
<1>3. CASE Write(n, Witnessed(author, sequence))
  <2>1. journal[n] \in State
    BY DEF TypeOK
  <2>2. apply(journal[n], Witnessed(author, sequence)).witnessed[author] # None
    BY <1>1, <2>1, ApplyWitnessed
  <2> QED BY <1>3, <2>2 DEF TypeOK, Write
<1>4. CASE NotDurable
  BY <1>4 DEF NotDurable
<1> QED BY <1>2, <1>3, <1>4 DEF witness

\* What witnessing a vote of author leaves alone.
LEMMA WitnessIsLocal ==
    ASSUME TypeOK, NEW n \in Members, NEW author \in Members, NEW sequence \in Nat,
           witness(n, author, sequence)
    PROVE  /\ \A k \in Members \ {n} : /\ journal'[k].witnessed = journal[k].witnessed
                                       /\ journal'[k].locks = journal[k].locks
           /\ journal'[n].locks = journal[n].locks
           /\ \A a \in Members :
                \/ journal'[n].witnessed[a] = journal[n].witnessed[a]
                \/ /\ a = author /\ journal[n].witnessed[a] = None
                   /\ journal'[n].witnessed[a] = sequence
<1>1. /\ journal' \in [Members -> State]
      /\ \A m \in Members :
            /\ journal'[m].locks = journal[m].locks
            /\ \A a \in Members :
                \/ journal'[m].witnessed[a] = journal[m].witnessed[a]
                \/ /\ m = n /\ a = author /\ journal[m].witnessed[a] = None
                   /\ journal'[m].witnessed[a] = sequence
  BY WitnessVote
<1>2. \A k \in Members : /\ journal[k].witnessed \in [Members -> Nat \cup {None}]
                         /\ journal'[k].witnessed \in [Members -> Nat \cup {None}]
  BY <1>1, FleetConstants DEF TypeOK, State, Members
<1> QED BY <1>1, <1>2

\* Offering a held vote.
LEMMA DrainEffect ==
    ASSUME IndInv, NEW n \in Members, drain(n)
    PROVE  /\ OthersKept(n) /\ Up(n) /\ closed(n) /\ mem'[n].status = mem[n].status
           /\ UNCHANGED <<made, air, carried, crashes>>
           /\ step[n].at = "draining"
           /\ mem'[n].forwards = mem[n].forwards
           /\ \E m \in Held(n) :
                /\ step'[n].at = IF Held(n) = {m} THEN "idle" ELSE "draining"
                /\ \E f \in air \cup made :
                    /\ f.author = m /\ f.sequence = mem[n].early[m]
                    /\ mem'[n].acknowledged => mem[n].acknowledged \/ n \in f.heard
                /\ \A a \in Members : mem'[n].early[a] = IF a = m THEN None ELSE mem[n].early[a]
                /\ \A a \in Members : mem'[n].tally[a] =
                    IF a = m THEN Counted(mem[n].tally[m], mem[n].early[m])
                             ELSE mem[n].tally[a]
                /\ \A a \in Members :
                    \/ journal'[n].witnessed[a] = journal[n].witnessed[a]
                    \/ /\ a = m /\ journal[n].witnessed[a] = None
                       /\ journal'[n].witnessed[a] = mem[n].early[m]
                /\ \/ refusals' = refusals + 1
                   \/ refusals' = refusals /\ journal'[n].witnessed[m] # None
<1>1. PICK m \in Held(n) :
        /\ mem' = [mem EXCEPT ![n] = Offered(n, m)]
        /\ witness(n, m, mem[n].early[m])
        /\ step' = [step EXCEPT ![n] = IF Held(n) = {m} THEN Idle ELSE @]
  BY DEF drain
<1>2. step[n].at = "draining" /\ MemberInv(n) /\ UNCHANGED <<made, air, carried, crashes>>
  BY DEF drain, IndInv
<1> DEFINE sequence == mem[n].early[m]
           r == Offered(n, m)
           f == CHOOSE g \in air \cup made : g.author = m /\ g.sequence = sequence
<1>3. Up(n) /\ closed(n) /\ mem[n] \in Running
  BY <1>2, UpIsRunning DEF MemberInv, StepFits, IndInv
<1>4. m \in Members /\ sequence \in Nat /\ sequence # None
  BY <1>1, <1>3 DEF Held, Running, Votes
<1>5. /\ r.status = mem[n].status /\ r.forwards = mem[n].forwards
      /\ r.acknowledged => mem[n].acknowledged \/ n \in f.heard
      /\ \A a \in Members : r.early[a] = IF a = m THEN None ELSE mem[n].early[a]
      /\ \A a \in Members : r.tally[a] =
            IF a = m THEN Counted(mem[n].tally[m], sequence) ELSE mem[n].tally[a]
  BY <1>3, OfferedFields
<1>6. f \in air \cup made /\ f.author = m /\ f.sequence = sequence
  <2>1. sequence \in Recorded(n, m)
    BY <1>4 DEF Recorded
  <2>2. \E g \in air \cup made : g.author = m /\ g.sequence = sequence
    BY <1>2, <1>4, <2>1 DEF MemberInv, RecordsAreBinding
  <2> QED BY <2>2
<1>7. /\ \/ refusals' = refusals + 1
         \/ refusals' = refusals /\ journal'[n].witnessed[m] # None
      /\ \A k \in Members \ {n} : /\ journal'[k].witnessed = journal[k].witnessed
                                  /\ journal'[k].locks = journal[k].locks
      /\ \A a \in Members :
            \/ journal'[n].witnessed[a] = journal[n].witnessed[a]
            \/ /\ a = m /\ journal[n].witnessed[a] = None
               /\ journal'[n].witnessed[a] = sequence
  BY <1>1, <1>4, WitnessLands, WitnessIsLocal DEF IndInv
<1> HIDE DEF r
<1>8. /\ mem'[n] = r /\ step'[n] = IF Held(n) = {m} THEN Idle ELSE step[n]
      /\ \A k \in Members \ {n} : mem'[k] = mem[k] /\ step'[k] = step[k]
  BY <1>1 DEF IndInv, TypeOK, r
<1>9. step'[n].at = IF Held(n) = {m} THEN "idle" ELSE "draining"
  BY <1>2, <1>8 DEF Idle
<1>10. OthersKept(n)
  BY <1>2, <1>7, <1>8 DEF OthersKept
<1> HIDE DEF f
<1> QED BY <1>2, <1>3, <1>5, <1>6, <1>7, <1>8, <1>9, <1>10

\* Reading a frame.
LEMMA ReceiveEffect ==
    ASSUME IndInv, NEW n \in Members, NEW f \in air \cup carried, receive(n, f)
    PROVE  LET vote == f.stage = "BindingSupport"
           IN  /\ OthersKept(n) /\ Up(n) /\ step[n] = Idle /\ mem'[n] \in Running
               /\ UNCHANGED <<made, air, carried, crashes>>
               /\ f \in AirFrames /\ f \in air \cup made
               /\ f.author # n \/ f \in carried
               /\ refusals' \in {refusals, refusals + 1}
               /\ journal'[n].witnessed = journal[n].witnessed
               /\ mem'[n].status = "collecting" <=> mem[n].status = "collecting"
               /\ mem'[n].acknowledged => mem[n].acknowledged \/ n \in f.heard
               /\ mem'[n].forwards \subseteq mem[n].forwards \cup Owed(n, f)
               /\ \A m \in Members : mem'[n].early[m] =
                    IF m = f.author /\ vote /\ ~closed(n) THEN f.sequence
                                                         ELSE mem[n].early[m]
               /\ \A m \in Members : mem'[n].tally[m] =
                    IF m = f.author /\ vote /\ closed(n)
                    THEN Counted(mem[n].tally[m], f.sequence) ELSE mem[n].tally[m]
               /\ \/ step'[n] = Idle /\ mem'[n].tally = mem[n].tally
                  \/ /\ step'[n] = At("admitted", f)
                     /\ mem'[n].tally[f.author] = f.sequence
<1> DEFINE r == Learn(n, f)
           vote == f.stage = "BindingSupport"
<1>1. /\ step[n] = Idle /\ Up(n) /\ (f.author # n \/ f \in carried)
      /\ mem' = [mem EXCEPT ![n] = r]
      /\ remember_seen(n, f.author, f.sequence)
      /\ step' = [step EXCEPT ![n] =
            IF mem'[n].tally # mem[n].tally THEN At("admitted", f) ELSE Idle]
      /\ UNCHANGED <<made, air, carried, crashes>>
  BY DEF receive
<1>2. f \in air \cup made /\ f \in AirFrames /\ f.author \in Members /\ f.sequence \in Nat
  BY DEF IndInv, TypeOK, AirFrames
<1>3. /\ r \in Running
      /\ r.status = "collecting" <=> mem[n].status = "collecting"
      /\ r.acknowledged => mem[n].acknowledged \/ n \in f.heard
      /\ r.forwards \subseteq mem[n].forwards \cup Owed(n, f)
      /\ \A m \in Members : r.early[m] =
            IF m = f.author /\ vote /\ ~closed(n) THEN f.sequence ELSE mem[n].early[m]
      /\ \A m \in Members : r.tally[m] =
            IF m = f.author /\ vote /\ closed(n)
            THEN Counted(mem[n].tally[m], f.sequence) ELSE mem[n].tally[m]
      /\ r.tally # mem[n].tally => r.tally[f.author] = f.sequence
  BY <1>1, <1>2, LearnFields
<1>4. \A m \in Members : SameVotes(journal[m], journal'[m])
  BY <1>1, <1>2, RememberSeen DEF IndInv
<1>5. refusals' \in {refusals, refusals + 1}
  BY <1>1 DEF remember_seen, Write, NotDurable
<1> HIDE DEF r
<1>6. mem'[n] = r /\ \A k \in Members \ {n} : mem'[k] = mem[k]
  BY <1>1 DEF IndInv, TypeOK
<1>7. /\ step'[n] = IF r.tally # mem[n].tally THEN At("admitted", f) ELSE Idle
      /\ \A k \in Members \ {n} : step'[k] = step[k]
  BY <1>1, <1>6 DEF IndInv, TypeOK
<1>8. OthersKept(n) /\ journal'[n].witnessed = journal[n].witnessed
  BY <1>1, <1>4, <1>6, <1>7 DEF OthersKept, SameVotes
<1> QED BY <1>1, <1>2, <1>3, <1>5, <1>6, <1>7, <1>8

\* Witnessing the vote that was counted.
LEMMA WitnessAdmittedEffect ==
    ASSUME IndInv, NEW n \in Members, witness_admitted(n)
    PROVE  LET f == step[n].frame
           IN  /\ OthersKept(n) /\ Up(n) /\ closed(n)
               /\ step[n].at = "admitted" /\ step'[n] = Idle
               /\ UNCHANGED <<mem, made, air, carried, crashes>>
               /\ f.author \in Members
               /\ \A a \in Members :
                    \/ journal'[n].witnessed[a] = journal[n].witnessed[a]
                    \/ /\ a = f.author /\ journal[n].witnessed[a] = None
                       /\ journal'[n].witnessed[a] = f.sequence
               /\ \/ refusals' = refusals + 1
                  \/ refusals' = refusals /\ journal'[n].witnessed[f.author] # None
<1> DEFINE f == step[n].frame
<1>1. /\ step[n].at = "admitted" /\ witness(n, f.author, f.sequence)
      /\ step' = [step EXCEPT ![n] = Idle]
      /\ UNCHANGED <<mem, made, air, carried, crashes>>
  BY DEF witness_admitted
<1>2. /\ f.author \in Members /\ f.sequence \in Nat /\ Up(n) /\ closed(n)
  BY <1>1 DEF IndInv, TypeOK, Steps, AirFrames, MemberInv, StepFits
<1>3. step'[n] = Idle /\ \A k \in Members \ {n} : step'[k] = step[k]
  BY <1>1 DEF IndInv, TypeOK
<1>4. /\ \/ refusals' = refusals + 1
         \/ refusals' = refusals /\ journal'[n].witnessed[f.author] # None
      /\ \A k \in Members \ {n} : /\ journal'[k].witnessed = journal[k].witnessed
                                  /\ journal'[k].locks = journal[k].locks
      /\ \A a \in Members :
            \/ journal'[n].witnessed[a] = journal[n].witnessed[a]
            \/ /\ a = f.author /\ journal[n].witnessed[a] = None
               /\ journal'[n].witnessed[a] = f.sequence
  BY <1>1, <1>2, WitnessLands, WitnessIsLocal DEF IndInv
<1>5. OthersKept(n)
  BY <1>1, <1>3, <1>4 DEF OthersKept
<1> QED BY <1>1, <1>2, <1>3, <1>4, <1>5

\* The end of the round and a crash leave no running process behind.
LEMMA StopEffect ==
    ASSUME IndInv, NEW n \in Members, finish(n) \/ Crash(n)
    PROVE  /\ OthersKept(n) /\ UNCHANGED <<journal, made, air, carried, refusals>>
           /\ step'[n] = Idle /\ ~Up(n)'
           /\ mem'[n].early = [m \in Members |-> None]
           /\ finish(n) => /\ mem'[n].status = "done" /\ mem'[n].tally = mem[n].tally
                           /\ crashes' = crashes
           /\ Crash(n) => crashes' = crashes + 1
<1> DEFINE r == [Down EXCEPT !.status = "done", !.tally = mem[n].tally]
<1>1. CASE Crash(n)
  <2>1. /\ mem' = [mem EXCEPT ![n] = Down] /\ step' = [step EXCEPT ![n] = Idle]
        /\ crashes' = crashes + 1 /\ UNCHANGED <<journal, made, air, carried, refusals>>
    BY <1>1 DEF Crash
  <2>2. /\ mem'[n] = Down /\ step'[n] = Idle
        /\ \A k \in Members \ {n} : mem'[k] = mem[k] /\ step'[k] = step[k]
    BY <2>1 DEF IndInv, TypeOK
  <2>3. OthersKept(n) /\ ~Up(n)' /\ mem'[n].early = [m \in Members |-> None]
    BY <2>1, <2>2 DEF OthersKept, Up, Down
  <2>4. ~finish(n)
    BY <2>1 DEF finish, IndInv, TypeOK
  <2> QED BY <2>1, <2>2, <2>3, <2>4
<1>2. CASE finish(n)
  <2>1. /\ step[n] = Idle /\ mem' = [mem EXCEPT ![n] = r]
        /\ UNCHANGED <<journal, step, made, air, carried, crashes, refusals>>
    BY <1>2 DEF finish
  <2>2. r.status = "done" /\ r.tally = mem[n].tally /\ r.early = [m \in Members |-> None]
    BY DEF Down
  <2> HIDE DEF r
  <2>3. /\ mem'[n] = r /\ \A k \in Members \ {n} : mem'[k] = mem[k]
    BY <2>1 DEF IndInv, TypeOK
  <2>4. OthersKept(n) /\ ~Up(n)'
    BY <2>1, <2>2, <2>3 DEF OthersKept, Up
  <2>5. ~Crash(n)
    BY <2>1 DEF Crash, IndInv, TypeOK
  <2> QED BY <2>1, <2>2, <2>3, <2>4, <2>5
<1> QED BY <1>1, <1>2

\* A restart: the process main() sets up.
LEMMA RestartEffect ==
    ASSUME IndInv, NEW n \in Members, Restart(n)
    PROVE  /\ OthersKept(n)
           /\ UNCHANGED <<journal, step, made, air, carried, crashes, refusals>>
           /\ mem[n].status = "down" /\ step[n].at = "idle"
           /\ mem'[n].status = "waiting" /\ ~mem'[n].acknowledged
           /\ mem'[n].tally = [m \in Members |-> None] /\ mem'[n].forwards = {}
           /\ \/ mem'[n].early[n] = journal[n].witnessed[n]
              \/ \E f \in made : f.author = n /\ mem'[n].early[n] = f.sequence
<1> DEFINE j == journal[n]
<1>1. /\ mem[n].status = "down" /\ mem' = [mem EXCEPT ![n] = Booted(j, n)]
      /\ UNCHANGED <<journal, step, made, air, carried, crashes, refusals>>
  BY DEF Restart
<1>2. mem'[n] = Booted(j, n) /\ \A k \in Members \ {n} : mem'[k] = mem[k]
  BY <1>1 DEF IndInv, TypeOK
<1>3. /\ mem'[n].status = "waiting" /\ ~mem'[n].acknowledged
      /\ mem'[n].tally = [m \in Members |-> None] /\ mem'[n].forwards = {}
      /\ mem'[n].early = restored(j, n)
  BY <1>2 DEF Booted
<1>4. \/ restored(j, n)[n] = journal[n].witnessed[n]
      \/ \E f \in made : f.author = n /\ restored(j, n)[n] = f.sequence
  BY OutboxIsTheVote DEF restored, has_voted
<1>5. OthersKept(n) /\ step[n].at = "idle"
  BY <1>1, <1>2 DEF OthersKept, IndInv, MemberInv, StepFits, Up
<1> QED BY <1>1, <1>3, <1>4, <1>5

----------------------------------------------------------------------------
(* What is counted is what was witnessed.                                  *)

\* The others' counting does not notice a step of n.
LEMMA OthersCount ==
    ASSUME NEW n \in Members, NEW k \in Members \ {n}, OthersKept(n), CountsOnce(k)
    PROVE  CountsOnce(k)'
<1>1. /\ mem'[k] = mem[k] /\ step'[k] = step[k]
      /\ journal'[k].witnessed = journal[k].witnessed
  BY DEF OthersKept
<1> QED BY <1>1 DEF CountsOnce, closed, Held

\* A step that moves no vote and is not in the middle of counting one.
LEMMA QuietCounts ==
    ASSUME NEW n \in Members, Quiet(n), CountsOnce(n),
           step[n].at \notin Counting, step'[n].at \notin Counting
    PROVE  CountsOnce(n)'
<1>1. Held(n)' = Held(n) /\ closed(n)' = closed(n)
  BY DEF Quiet, Held, closed
<1> QED BY <1>1 DEF Quiet, CountsOnce, Counting

\* While nobody has crashed, every step of a member keeps its counting whole.
LEMMA LoopCounts ==
    ASSUME IndInv, NEW n \in Members, CountsOnce(n), Loop(n)
    PROVE  CountsOnce(n)' /\ OthersKept(n) /\ crashes' = crashes
<1>1. Idle.at = "idle" /\ \A g : At("built", g).at = "built"
  BY DEF Idle, At
<1>2. CASE Restart(n)
  BY <1>2, RestartEffect DEF CountsOnce
<1>3. ASSUME NEW stage \in Stages, reserve(n, stage)
      PROVE  CountsOnce(n)' /\ OthersKept(n) /\ crashes' = crashes
  <2>1. step[n].at \notin Counting /\ step'[n].at \notin Counting /\ Quiet(n) /\ crashes' = crashes
    BY <1>1, <1>3, ReserveEffect DEF Counting
  <2> QED BY <2>1, QuietCounts DEF Quiet
<1>4. CASE commit_vote(n)
  <2>1. step[n].at \notin Counting /\ step'[n].at \notin Counting /\ Quiet(n) /\ crashes' = crashes
    BY <1>1, <1>4, CommitVoteEffect DEF Counting
  <2> QED BY <2>1, QuietCounts DEF Quiet
<1>5. CASE from_outbox(n)
  <2>1. step[n].at \notin Counting /\ step'[n].at \notin Counting /\ Quiet(n) /\ crashes' = crashes
    BY <1>1, <1>5, FromOutboxEffect DEF Counting
  <2> QED BY <2>1, QuietCounts DEF Quiet
<1>6. CASE transmit(n)
  <2> DEFINE frame == step[n].frame
             vote == frame.stage = "BindingSupport"
  <2>1. /\ OthersKept(n) /\ mem'[n] \in Running /\ Up(n) /\ crashes' = crashes
        /\ journal' = journal /\ step[n].at = "built" /\ step'[n].at \notin Counting
        /\ vote => closed(n)
        /\ mem'[n].status = "collecting" <=> mem[n].status = "collecting"
        /\ mem'[n].early = mem[n].early
        /\ \A m \in Members : mem'[n].tally[m] =
            IF m = n /\ vote THEN Counted(mem[n].tally[m], frame.sequence)
                             ELSE mem[n].tally[m]
    BY <1>6, TransmitEffect DEF Counting
  <2>2. Held(n)' = Held(n) /\ closed(n)' = closed(n) /\ (closed(n) => Held(n) = {})
    BY <2>1 DEF Held, closed, CountsOnce
  <2>3. mem'[n].status \in {"waiting", "consulting", "collecting"}
    BY <2>1 DEF Running
  <2>4. mem[n].status \in {"waiting", "consulting", "collecting"}
    BY <2>1 DEF Up
  <2>5. \A m \in Members : mem'[n].tally[m] = mem[n].tally[m]
                            \/ (mem[n].tally[m] = None /\ vote)
    BY <2>1 DEF Counted
  <2>6. mem'[n].status \in {"waiting", "consulting"} =>
            \A m \in Members : mem'[n].tally[m] = None /\ journal'[n].witnessed[m] = None
    BY <2>1, <2>4, <2>5 DEF CountsOnce, closed
  <2>7. \A m \in Members : journal'[n].witnessed[m] # None
                                => mem'[n].tally[m] = journal'[n].witnessed[m]
    BY <2>1, <2>5 DEF CountsOnce
  <2>8. \A m \in Held(n)' : mem'[n].tally[m] = None /\ journal'[n].witnessed[m] = None
    BY <2>1, <2>2, <2>5 DEF CountsOnce, Held
  <2>9. mem'[n].status # "down" /\ step'[n].at # "admitted"
    BY <2>1, <2>3 DEF Counting
  <2> QED BY <2>1, <2>2, <2>6, <2>7, <2>8, <2>9 DEF CountsOnce
<1>7. CASE remember_own(n)
  <2>1. step[n].at \notin Counting /\ step'[n].at \notin Counting /\ Quiet(n) /\ crashes' = crashes
    BY <1>1, <1>7, RememberOwnEffect DEF Counting
  <2> QED BY <2>1, QuietCounts DEF Quiet
<1>8. CASE slot_missed(n) \/ acknowledged(n) \/ repair_round(n)
  <2>1. step[n].at \notin Counting /\ step'[n].at \notin Counting /\ Quiet(n) /\ crashes' = crashes
    BY <1>1, <1>8, CountersQuiet DEF Counting
  <2> QED BY <2>1, QuietCounts DEF Quiet
<1>9. CASE close_consultation(n)
  <2>1. Held(n)' = Held(n)
    BY <1>9, CloseEffect DEF Held
  <2> QED BY <1>9, <2>1, CloseEffect DEF CountsOnce, closed
<1>10. CASE drain(n)
  <2>1. /\ OthersKept(n) /\ Up(n) /\ closed(n) /\ mem'[n].status = mem[n].status
        /\ crashes' = crashes /\ step[n].at = "draining"
    BY <1>10, DrainEffect
  <2>2. PICK m \in Held(n) :
        /\ step'[n].at = IF Held(n) = {m} THEN "idle" ELSE "draining"
        /\ \A a \in Members : mem'[n].early[a] = IF a = m THEN None ELSE mem[n].early[a]
        /\ \A a \in Members : mem'[n].tally[a] =
            IF a = m THEN Counted(mem[n].tally[m], mem[n].early[m]) ELSE mem[n].tally[a]
        /\ \A a \in Members :
            \/ journal'[n].witnessed[a] = journal[n].witnessed[a]
            \/ /\ a = m /\ journal[n].witnessed[a] = None
               /\ journal'[n].witnessed[a] = mem[n].early[m]
    BY <1>10, DrainEffect
  <2>3. Held(n)' = Held(n) \ {m} /\ m \in Members
    BY <2>2 DEF Held
  <2>4. mem[n].tally[m] = None /\ journal[n].witnessed[m] = None
    BY <2>2 DEF CountsOnce
  <2>5. mem'[n].tally[m] = mem[n].early[m]
    BY <2>2, <2>3, <2>4 DEF Counted
  <2>6. \A a \in Held(n)' : mem'[n].tally[a] = None /\ journal'[n].witnessed[a] = None
    BY <2>2, <2>3 DEF CountsOnce, Held
  <2>7. \A a \in Members : journal'[n].witnessed[a] # None
                                => mem'[n].tally[a] = journal'[n].witnessed[a]
    BY <2>2, <2>3, <2>4, <2>5 DEF CountsOnce
  <2>8. closed(n)' /\ mem'[n].status = "collecting"
    BY <2>1 DEF closed
  <2> QED BY <2>1, <2>2, <2>3, <2>6, <2>7, <2>8 DEF CountsOnce
<1>11. CASE witness_admitted(n)
  <2>1. Held(n)' = Held(n) /\ closed(n)' = closed(n)
    BY <1>11, WitnessAdmittedEffect DEF Held, closed
  <2> DEFINE f == step[n].frame
  <2>2. /\ OthersKept(n) /\ closed(n) /\ step[n].at = "admitted" /\ step'[n] = Idle
        /\ UNCHANGED <<mem, crashes>>
        /\ \A a \in Members :
            \/ journal'[n].witnessed[a] = journal[n].witnessed[a]
            \/ /\ a = f.author /\ journal[n].witnessed[a] = None
               /\ journal'[n].witnessed[a] = f.sequence
    BY <1>11, WitnessAdmittedEffect
  <2>3. mem[n].tally[f.author] = f.sequence /\ Held(n) = {}
    BY <2>2 DEF CountsOnce
  <2>4. \A a \in Members : journal'[n].witnessed[a] # None
                                => mem'[n].tally[a] = journal'[n].witnessed[a]
    BY <2>2, <2>3 DEF CountsOnce
  <2>5. mem'[n].status = "collecting"
    BY <2>2 DEF closed
  <2> QED BY <1>1, <2>1, <2>2, <2>3, <2>4, <2>5 DEF CountsOnce
<1>12. CASE carry(n)
  <2>1. step[n].at \notin Counting /\ step'[n].at \notin Counting /\ Quiet(n) /\ crashes' = crashes
    BY <1>1, <1>12, CarryEffect DEF Counting
  <2> QED BY <2>1, QuietCounts DEF Quiet
<1>13. CASE finish(n)
  <2>1. Held(n)' = {}
    BY <1>13, StopEffect DEF Held
  <2> QED BY <1>1, <1>13, <2>1, StopEffect DEF CountsOnce, closed
<1> QED BY <1>2, <1>3, <1>4, <1>5, <1>6, <1>7, <1>8, <1>9, <1>10, <1>11, <1>12, <1>13 DEF Loop

\* The same of a frame that is read.
LEMMA ReceiveCounts ==
    ASSUME IndInv, NEW n \in Members, CountsOnce(n), NEW f \in air \cup carried, receive(n, f)
    PROVE  CountsOnce(n)' /\ OthersKept(n) /\ crashes' = crashes
<1> DEFINE vote == f.stage = "BindingSupport"
<1>1. /\ OthersKept(n) /\ Up(n) /\ step[n] = Idle /\ mem'[n] \in Running
      /\ crashes' = crashes /\ f \in AirFrames
      /\ journal'[n].witnessed = journal[n].witnessed
      /\ mem'[n].status = "collecting" <=> mem[n].status = "collecting"
      /\ \A m \in Members : mem'[n].early[m] =
            IF m = f.author /\ vote /\ ~closed(n) THEN f.sequence ELSE mem[n].early[m]
      /\ \A m \in Members : mem'[n].tally[m] =
            IF m = f.author /\ vote /\ closed(n)
            THEN Counted(mem[n].tally[m], f.sequence) ELSE mem[n].tally[m]
      /\ \/ step'[n] = Idle
         \/ step'[n] = At("admitted", f) /\ mem'[n].tally[f.author] = f.sequence
  BY ReceiveEffect
<1>2. /\ Idle.at = "idle" /\ At("admitted", f).at = "admitted"
      /\ At("admitted", f).frame = f /\ f.author \in Members
  BY <1>1 DEF Idle, At, AirFrames
<1>3. /\ mem'[n].status \in {"waiting", "consulting", "collecting"}
      /\ mem[n].status \in {"waiting", "consulting", "collecting"}
      /\ closed(n)' = closed(n)
  BY <1>1 DEF Running, Up, closed
<1>4. \A m \in Members : \/ mem'[n].tally[m] = mem[n].tally[m]
                         \/ mem[n].tally[m] = None /\ closed(n)
  BY <1>1 DEF Counted
<1>5. mem'[n].status \in {"waiting", "consulting"} =>
            \A m \in Members : mem'[n].tally[m] = None /\ journal'[n].witnessed[m] = None
  BY <1>1, <1>3, <1>4 DEF CountsOnce, closed
<1>6. closed(n) => Held(n) = {} /\ Held(n)' = {}
  BY <1>1, <1>2 DEF CountsOnce, Held
<1>7. ~closed(n) => \A m \in Members : mem'[n].tally[m] = None /\ journal'[n].witnessed[m] = None
  BY <1>3, <1>5 DEF closed
<1>8. \A m \in Held(n)' : mem'[n].tally[m] = None /\ journal'[n].witnessed[m] = None
  BY <1>6, <1>7 DEF Held
<1>9. \A m \in Members : journal'[n].witnessed[m] # None
                            => mem'[n].tally[m] = journal'[n].witnessed[m]
  BY <1>1, <1>4 DEF CountsOnce
<1>10. step'[n].at = "admitted" => mem'[n].tally[step'[n].frame.author] = step'[n].frame.sequence
  BY <1>1, <1>2
<1> QED BY <1>1, <1>3, <1>5, <1>6, <1>8, <1>9, <1>10 DEF CountsOnce

\* Nobody has counted or witnessed anything at the start.
LEMMA InitCounts == Init => CrashFreeInv
<1> SUFFICES ASSUME Init, NEW n \in Members PROVE CountsOnce(n)
  BY DEF CrashFreeInv
<1>1. Authors = Members
  BY FleetConstants DEF Members
<1>2. EmptyState \in State /\ EmptyState.witnessed = [m \in Members |-> None]
      /\ EmptyState.locks = {}
  BY <1>1 DEF EmptyState, State, None
<1>3. FreshJournal(n).witnessed = [m \in Members |-> None] /\ FreshJournal(n).locks = {}
  BY <1>2, ApplySequence, FleetConstants DEF FreshJournal, SameVotes
<1>4. journal[n] = FreshJournal(n) /\ step[n] = Idle /\ mem[n] = Booted(FreshJournal(n), n)
  BY DEF Init
<1>5. restored(FreshJournal(n), n) = [m \in Members |-> None]
  BY <1>3 DEF restored
<1>6. /\ mem[n].status = "waiting" /\ mem[n].tally = [m \in Members |-> None]
      /\ mem[n].early = [m \in Members |-> None] /\ step[n].at = "idle"
  BY <1>4, <1>5 DEF Booted, Idle
<1>7. Held(n) = {} /\ \A m \in Members : journal[n].witnessed[m] = None
  BY <1>3, <1>4, <1>6 DEF Held
<1> QED BY <1>6, <1>7 DEF CountsOnce, closed

\* Every step keeps counting whole until somebody crashes.
LEMMA NextCounts ==
    ASSUME IndInv, CrashFreeInv, [Next]_vars
    PROVE  CrashFreeInv'
<1> SUFFICES ASSUME crashes' = 0 PROVE \A k \in Members : CountsOnce(k)'
  BY DEF CrashFreeInv
<1>1. CASE UNCHANGED vars
  <2>1. crashes = 0 /\ UNCHANGED <<journal, mem, step>>
    BY <1>1 DEF vars
  <2> QED BY <2>1 DEF CrashFreeInv, CountsOnce, closed, Held
<1>2. ASSUME NEW n \in Members, CountsOnce(n)' /\ OthersKept(n) /\ crashes = 0
      PROVE  \A k \in Members : CountsOnce(k)'
  BY <1>2, OthersCount DEF CrashFreeInv
<1>3. ASSUME NEW n \in Members, Loop(n)
      PROVE  \A k \in Members : CountsOnce(k)'
  <2>1. crashes = 0
    BY <1>3 DEF Loop, Restart, reserve, commit_vote, from_outbox, transmit, remember_own,
        slot_missed, acknowledged, close_consultation, drain, witness_admitted,
        repair_round, carry, finish, NotSent
  <2> QED BY <1>2, <1>3, <2>1, LoopCounts DEF CrashFreeInv
<1>4. ASSUME NEW n \in Members, NEW f \in air \cup carried, receive(n, f)
      PROVE  \A k \in Members : CountsOnce(k)'
  <2>1. crashes = 0
    BY <1>4 DEF receive
  <2> QED BY <1>2, <1>4, <2>1, ReceiveCounts DEF CrashFreeInv
<1>5. ASSUME NEW n \in Members, Crash(n)
      PROVE  FALSE
  BY <1>5 DEF Crash, IndInv, TypeOK
<1>6. ASSUME NEW n \in Members, NEW f \in air, Replay(n, f)
      PROVE  \A k \in Members : CountsOnce(k)'
  <2>1. crashes = 0 /\ UNCHANGED <<journal, mem, step>>
    BY <1>6 DEF Replay
  <2> QED BY <2>1 DEF CrashFreeInv, CountsOnce, closed, Held
<1> QED BY <1>1, <1>3, <1>4, <1>5, <1>6 DEF Next, Receive

\* CrashFreeInv holds of every reachable state.
LEMMA CountingInvariance == Spec => []CrashFreeInv
<1> QED BY InitCounts, NextCounts, Invariance, PTL DEF Spec

\* What a member counts from an author is what its journal says that author
\* voted (Case::accept, journal.witness): always if the author keeps to its one
\* vote, and of a double voter until somebody crashes.
THEOREM CountsTheWitnessedVote == Spec => []CountsWhatItWitnessed
<1>1. IndInv /\ CrashFreeInv => CountsWhatItWitnessed
  <2> SUFFICES ASSUME IndInv, CrashFreeInv, NEW n \in Members, NEW m \in Members,
                      crashes = 0 \/ m \notin DoubleVoters,
                      mem[n].tally[m] # None, journal[n].witnessed[m] # None
               PROVE  mem[n].tally[m] = journal[n].witnessed[m]
    BY DEF CountsWhatItWitnessed
  <2>1. CASE crashes = 0
    BY <2>1 DEF CrashFreeInv, CountsOnce
  <2>2. CASE m \notin DoubleVoters
    <3>1. ASSUME NEW sequence \in Recorded(n, m)
          PROVE  has_voted(m) /\ OutboxVote(journal[m], m).sequence = sequence
      <4>1. PICK f \in air \cup made :
                f.author = m /\ f.sequence = sequence /\ f.stage = "BindingSupport"
        BY <3>1 DEF IndInv, MemberInv, RecordsAreBinding
      <4>2. f \in made
        BY <2>2, <4>1 DEF IndInv, ReleasedIsCommitted, Released
      <4>3. has_voted(m)
        BY <4>1, <4>2 DEF IndInv, OutboxHoldsTheVote
      <4> QED BY <4>1, <4>2, <4>3, OutboxIsTheVote
    <3>2. mem[n].tally[m] \in Recorded(n, m) /\ journal[n].witnessed[m] \in Recorded(n, m)
      BY DEF Recorded
    <3> QED BY <3>1, <3>2
  <2> QED BY <2>1, <2>2
<1> QED BY <1>1, Invariance, CountingInvariance, PTL

----------------------------------------------------------------------------
(* An acknowledged vote is durable.                                        *)

\* Nobody lies in its bitmap, and nobody plays old frames back.
HonestAcks == Liars = {} /\ Replayers = {}

\* No witnessed vote is ever dropped.
Grows == \A k, a \in Members : journal[k].witnessed[a] # None => journal'[k].witnessed[a] # None

\* A step of n preserves the invariant if what it adds is backed.
LEMMA AckStep ==
    ASSUME IndInv, AckInv, refusals = 0, NEW n \in Members, OthersKept(n), Grows,
           \A f \in (air' \cup made') \ (air \cup made) : BitmapIsBacked(f)',
           \A f \in made' \ made : f.author \notin f.heard,
           \A f \in carried' \ carried : Durable(f.author)',
           BitsAreBacked(n)'
    PROVE  AckInv'
<1>1. \A f \in AirFrames : f.author \in Members /\ f.heard \subseteq Members
  BY DEF AirFrames
<1>2. \A f \in AirFrames : BitmapIsBacked(f) => BitmapIsBacked(f)'
  BY <1>1 DEF BitmapIsBacked, Grows
<1>3. \A k \in Members : Durable(k) => Durable(k)'
  BY DEF Durable, Grows
<1>4. \A f \in air \cup made \cup carried : f \in AirFrames
  BY DEF IndInv, TypeOK
<1>5. \A f \in air' \cup made' : BitmapIsBacked(f)'
  BY <1>2, <1>4 DEF AckInv
<1>6. \A f \in carried' : Durable(f.author)'
  BY <1>1, <1>3, <1>4 DEF AckInv
<1>7. ASSUME NEW k \in Members \ {n} PROVE BitsAreBacked(k)'
  <2>1. /\ mem'[k] = mem[k] /\ step'[k] = step[k] /\ made \subseteq made'
        /\ journal'[k].witnessed = journal[k].witnessed
    BY DEF OthersKept
  <2>2. BitsAreBacked(k) /\ (Durable(k) => Durable(k)') /\ Up(k)' = Up(k)
    BY <1>3, <2>1 DEF AckInv, Up
  <2>3. step[k].at \in {"reserved", "built"} => step[k].frame \in AirFrames
    BY DEF IndInv, TypeOK, Steps
  <2>4. step[k].at \in {"reserved", "built"} => BitmapIsBacked(step[k].frame)'
    BY <1>2, <2>1, <2>2, <2>3 DEF BitsAreBacked
  <2>5. \A sequence : OwnIsKnown(k, sequence) => OwnIsKnown(k, sequence)'
    BY <2>1, <2>2 DEF OwnIsKnown
  <2> QED BY <2>1, <2>2, <2>4, <2>5 DEF BitsAreBacked
<1> QED BY <1>5, <1>6, <1>7 DEF AckInv

\* A step that moves no vote keeps what n owes to its bits.
LEMMA QuietBacked ==
    ASSUME IndInv, NEW n \in Members, Quiet(n), BitsAreBacked(n),
           step[n].at # "admitted", step'[n].at # "admitted",
           step'[n].at \in {"reserved", "built"} => BitmapIsBacked(step[n].frame)',
           step'[n].at = "reserved" => n \notin step'[n].frame.heard
    PROVE  BitsAreBacked(n)' /\ Grows
<1>1. Grows
  BY DEF Grows, Quiet, OthersKept
<1>2. Durable(n) => Durable(n)'
  BY <1>1 DEF Durable, Grows
<1>3. \A sequence : OwnIsKnown(n, sequence) => OwnIsKnown(n, sequence)'
  BY <1>2 DEF OwnIsKnown, Quiet, OthersKept
<1>4. Up(n)' = Up(n)
  BY DEF Quiet, Up
<1> QED BY <1>1, <1>2, <1>3, <1>4 DEF BitsAreBacked, Quiet

\* A member that has not voted has not counted a vote of its own.
LEMMA UnvotedIsUncounted ==
    ASSUME IndInv, NEW n \in Members, ~has_voted(n)
    PROVE  n \notin heard(n)
<1> SUFFICES ASSUME mem[n].tally[n] # None PROVE FALSE
  BY DEF heard
<1>1. mem[n].tally[n] \in Recorded(n, n)
  BY DEF Recorded
<1>2. PICK f \in air \cup made : f.author = n /\ f.stage = "BindingSupport"
  BY <1>1 DEF IndInv, MemberInv, RecordsAreBinding
<1> QED BY <1>2 DEF IndInv, OutboxHoldsTheVote, ReleasedIsCommitted, Released

\* What is in n's hand, or in the outbox, is backed.
LEMMA SendingBacked ==
    ASSUME IndInv, AckInv, HonestAcks, refusals = 0, refusals' = 0, NEW n \in Members,
           \/ \E stage \in Stages : reserve(n, stage)
           \/ commit_vote(n) \/ from_outbox(n)
    PROVE  AckInv'
<1>1. BitsAreBacked(n) /\ Idle.at = "idle" /\ \A g : At("built", g).at = "built"
                                                  /\ At("built", g).frame = g
  BY DEF AckInv, Idle, At
<1>2. ASSUME NEW stage \in Stages, reserve(n, stage)
      PROVE  AckInv'
  <2>1. /\ Quiet(n) /\ step[n] = Idle /\ Up(n) /\ UNCHANGED <<made, air, carried>>
        /\ \/ refusals' = refusals + 1
           \/ /\ step'[n].at \in {"reserved", "built"}
              /\ step'[n].at = "reserved" => ~has_voted(n)
              /\ step'[n].frame.author = n
              /\ step'[n].frame.heard \in {{}, heard(n)}
    BY <1>2, ReserveEffect DEF HonestAcks
  <2>2. /\ step'[n].at \in {"reserved", "built"} /\ (step'[n].at = "reserved" => ~has_voted(n))
        /\ step'[n].frame.author = n /\ step'[n].frame.heard \in {{}, heard(n)}
    BY <2>1
  <2>3. \A m \in heard(n) \ {n} : journal[n].witnessed[m] # None
    BY <1>1, <2>1 DEF BitsAreBacked, heard
  <2>4. journal'[n].witnessed = journal[n].witnessed
    BY <2>1 DEF Quiet
  <2>5. BitmapIsBacked(step[n].frame)'
    BY <2>2, <2>3, <2>4 DEF BitmapIsBacked
  <2>6. step'[n].at = "reserved" => n \notin step'[n].frame.heard
    BY <2>2, UnvotedIsUncounted
  <2>7. BitsAreBacked(n)' /\ Grows
    BY <1>1, <2>1, <2>2, <2>5, <2>6, QuietBacked
  <2> QED BY <2>1, <2>7, AckStep DEF Quiet
<1>3. CASE commit_vote(n)
  <2>1. /\ Quiet(n) /\ step[n].at = "reserved" /\ UNCHANGED <<air, carried>>
        /\ made' = made \cup {step[n].frame} /\ step'[n] = At("built", step[n].frame)
    BY <1>3, CommitVoteEffect
  <2>2. step[n].frame.author = n /\ n \notin step[n].frame.heard
    BY <1>1, <2>1 DEF IndInv, MemberInv, StepFits, BitsAreBacked
  <2>3. BitmapIsBacked(step[n].frame)
    BY <1>1, <2>1 DEF BitsAreBacked
  <2>4. \A f : f.author = n /\ BitmapIsBacked(f) => BitmapIsBacked(f)'
    BY <2>1 DEF BitmapIsBacked, Quiet
  <2>5. step'[n].at = "built" /\ BitmapIsBacked(step[n].frame)'
    BY <1>1, <2>1, <2>2, <2>3, <2>4
  <2>6. BitsAreBacked(n)' /\ Grows
    BY <1>1, <2>1, <2>5, QuietBacked
  <2>7. \A f \in (air' \cup made') \ (air \cup made) : BitmapIsBacked(f)'
    BY <2>1, <2>2, <2>3, <2>4
  <2>8. \A f \in made' \ made : f.author \notin f.heard
    BY <2>1, <2>2
  <2> QED BY <2>1, <2>6, <2>7, <2>8, AckStep DEF Quiet
<1>4. CASE from_outbox(n)
  <2>1. /\ Quiet(n) /\ step[n] = Idle /\ UNCHANGED <<journal, made, air, carried>>
        /\ step'[n].at = "built" /\ step'[n].frame \in made
    BY <1>4, FromOutboxEffect
  <2>2. BitmapIsBacked(step[n].frame)'
    BY <2>1 DEF AckInv, BitmapIsBacked
  <2>3. BitsAreBacked(n)' /\ Grows
    BY <1>1, <2>1, <2>2, QuietBacked
  <2> QED BY <2>1, <2>3, AckStep DEF Quiet
<1> QED BY <1>2, <1>3, <1>4

\* Steps that add nothing, and the frames that are carried for others.
LEMMA QuietStepsBacked ==
    ASSUME IndInv, AckInv, refusals = 0, refusals' = 0, NEW n \in Members,
           \/ slot_missed(n) \/ acknowledged(n) \/ repair_round(n)
           \/ remember_own(n) \/ carry(n)
    PROVE  AckInv'
<1>1. BitsAreBacked(n) /\ Idle.at = "idle"
  BY DEF AckInv, Idle
<1>2. CASE slot_missed(n) \/ acknowledged(n) \/ repair_round(n)
  <2>1. /\ Quiet(n) /\ step[n] = Idle /\ step'[n] = Idle
        /\ UNCHANGED <<made, air, carried>>
    BY <1>2, CountersQuiet
  <2>2. BitsAreBacked(n)' /\ Grows
    BY <1>1, <2>1, QuietBacked
  <2> QED BY <2>1, <2>2, AckStep DEF Quiet
<1>3. CASE remember_own(n)
  <2>1. /\ Quiet(n) /\ step[n].at = "sent" /\ step'[n] = Idle
        /\ UNCHANGED <<made, air, carried>>
    BY <1>3, RememberOwnEffect
  <2>2. BitsAreBacked(n)' /\ Grows
    BY <1>1, <2>1, QuietBacked
  <2> QED BY <2>1, <2>2, AckStep DEF Quiet
<1>4. CASE carry(n)
  <2>1. Quiet(n) /\ step[n] = Idle /\ step'[n] = Idle /\ Up(n) /\ UNCHANGED <<journal, made>>
    BY <1>4, CarryEffect
  <2>2. PICK f \in mem[n].forwards :
            \/ f.author = n /\ air' = air \cup {f} /\ carried' = carried
            \/ f.author # n /\ air' = air /\ carried' = carried \cup {f}
    BY <1>4, CarryEffect
  <2>3. f \in air \cup made
    BY <2>1 DEF IndInv, MemberInv, ForwardsWereSealed
  <2>4. f.author # n => Durable(f.author)'
    BY <1>1, <2>1 DEF BitsAreBacked, Durable
  <2>5. BitsAreBacked(n)' /\ Grows
    BY <1>1, <2>1, QuietBacked
  <2>6. (air' \cup made') \ (air \cup made) = {} /\ made' \ made = {}
    BY <2>1, <2>2, <2>3
  <2>7. \A g \in carried' \ carried : Durable(g.author)'
    BY <2>2, <2>4
  <2> QED BY <2>1, <2>5, <2>6, <2>7, AckStep DEF Quiet
<1> QED BY <1>2, <1>3, <1>4

\* The frame goes out as it was backed in hand.
LEMMA TransmitBacked ==
    ASSUME IndInv, AckInv, refusals = 0, NEW n \in Members, transmit(n)
    PROVE  AckInv'
<1> DEFINE frame == step[n].frame
<1>1. BitsAreBacked(n)
  BY DEF AckInv
<1>2. /\ OthersKept(n) /\ Up(n) /\ UNCHANGED <<journal, made, carried>>
      /\ air' = air \cup {frame} /\ step[n].at = "built" /\ step'[n].at \in {"sent", "idle"}
      /\ mem'[n].early = mem[n].early /\ mem'[n].forwards = mem[n].forwards
      /\ mem'[n].acknowledged = mem[n].acknowledged
      /\ \A m \in Members \ {n} : mem'[n].tally[m] = mem[n].tally[m]
  BY <1>1, TransmitEffect
<1>3. \A f : BitmapIsBacked(f)' = BitmapIsBacked(f)
  BY <1>2 DEF BitmapIsBacked
<1>4. BitmapIsBacked(frame)
  BY <1>1, <1>2 DEF BitsAreBacked
<1>5. \A f \in (air' \cup made') \ (air \cup made) : BitmapIsBacked(f)'
  BY <1>2, <1>3, <1>4
<1>6. Grows /\ Durable(n)' = Durable(n)
  BY <1>2 DEF Grows, Durable
<1>7. \A sequence : OwnIsKnown(n, sequence)' = OwnIsKnown(n, sequence)
  BY <1>2, <1>6 DEF OwnIsKnown
<1>8. BitsAreBacked(n)'
  BY <1>1, <1>2, <1>6, <1>7 DEF BitsAreBacked
<1> QED BY <1>2, <1>5, <1>6, <1>8, AckStep

\* Starting, closing and stopping.
LEMMA StatusBacked ==
    ASSUME IndInv, AckInv, refusals = 0, NEW n \in Members,
           Restart(n) \/ close_consultation(n) \/ finish(n) \/ Crash(n)
    PROVE  AckInv'
<1>1. BitsAreBacked(n) /\ Idle.at = "idle"
  BY DEF AckInv, Idle
<1>2. OthersKept(n) /\ UNCHANGED <<journal, made, air, carried>>
  BY RestartEffect, CloseEffect, StopEffect
<1>3. Grows /\ Durable(n)' = Durable(n)
  BY <1>2 DEF Grows, Durable
<1>4. \A sequence : OwnIsKnown(n, sequence)' = OwnIsKnown(n, sequence)
  BY <1>2, <1>3 DEF OwnIsKnown
<1>5. OwnIsKnown(n, journal[n].witnessed[n])
  BY <1>1 DEF BitsAreBacked
<1>6. CASE Restart(n)
  <2>1. /\ step'[n].at = "idle" /\ ~mem'[n].acknowledged /\ mem'[n].forwards = {}
        /\ \A m \in Members : mem'[n].tally[m] = None
        /\ \/ mem'[n].early[n] = journal[n].witnessed[n]
           \/ \E f \in made : f.author = n /\ mem'[n].early[n] = f.sequence
    BY <1>6, RestartEffect
  <2>2. OwnIsKnown(n, mem'[n].early[n])
    BY <1>5, <2>1 DEF OwnIsKnown
  <2>3. OwnIsKnown(n, mem[n].early[n])' /\ OwnIsKnown(n, journal[n].witnessed[n])'
    BY <1>2, <1>3, <1>5, <2>2 DEF OwnIsKnown
  <2>4. BitsAreBacked(n)'
    BY <2>1, <2>3 DEF BitsAreBacked
  <2> QED BY <1>2, <1>3, <2>4, AckStep
<1>7. CASE close_consultation(n)
  <2>1. /\ step[n] = Idle /\ step'[n].at \in {"idle", "draining"} /\ Up(n)
        /\ mem'[n].tally = mem[n].tally /\ mem'[n].early = mem[n].early
        /\ mem'[n].acknowledged = mem[n].acknowledged
        /\ mem'[n].forwards = mem[n].forwards
    BY <1>7, CloseEffect
  <2>2. BitsAreBacked(n)'
    BY <1>1, <1>2, <1>3, <1>4, <2>1 DEF BitsAreBacked
  <2> QED BY <1>2, <1>3, <2>2, AckStep
<1>8. CASE finish(n) \/ Crash(n)
  <2>1. step'[n].at = "idle" /\ ~Up(n)'
    BY <1>1, <1>8, StopEffect
  <2>2. OwnIsKnown(n, journal[n].witnessed[n])'
    BY <1>2, <1>3, <1>5 DEF OwnIsKnown
  <2>3. BitsAreBacked(n)'
    BY <2>1, <2>2 DEF BitsAreBacked
  <2> QED BY <1>2, <1>3, <2>3, AckStep
<1> QED BY <1>6, <1>7, <1>8

\* Witnessing a vote: the write that was not refused is what backs the tally.
LEMMA WitnessBacked ==
    ASSUME IndInv, AckInv, refusals = 0, refusals' = 0, NEW n \in Members, witness_admitted(n)
    PROVE  AckInv'
<1> DEFINE f == step[n].frame
<1>1. BitsAreBacked(n) /\ Idle.at = "idle"
  BY DEF AckInv, Idle
<1>2. /\ OthersKept(n) /\ Up(n) /\ step[n].at = "admitted" /\ step'[n] = Idle
      /\ UNCHANGED <<mem, made, air, carried>> /\ f.author \in Members
      /\ \A a \in Members :
            \/ journal'[n].witnessed[a] = journal[n].witnessed[a]
            \/ a = f.author /\ journal[n].witnessed[a] = None
      /\ journal'[n].witnessed[f.author] # None
  BY WitnessAdmittedEffect
<1>3. Grows
  BY <1>2 DEF Grows, OthersKept
<1>4. Durable(n) => Durable(n)'
  BY <1>3 DEF Durable, Grows
<1>5. \A sequence : OwnIsKnown(n, sequence) => OwnIsKnown(n, sequence)'
  BY <1>2, <1>4 DEF OwnIsKnown
<1>6. f.author = n => Durable(n)
  BY <1>1, <1>2 DEF BitsAreBacked
<1>7. OwnIsKnown(n, journal[n].witnessed[n])'
  <2>1. CASE f.author = n
    BY <1>4, <1>6, <2>1 DEF OwnIsKnown
  <2>2. CASE f.author # n
    <3>1. journal'[n].witnessed[n] = journal[n].witnessed[n]
      BY <1>2, <2>2
    <3>2. OwnIsKnown(n, journal[n].witnessed[n])
      BY <1>1 DEF BitsAreBacked
    <3> QED BY <1>2, <1>4, <3>1, <3>2 DEF OwnIsKnown
  <2> QED BY <2>1, <2>2
<1>8. \A m \in Members : m = f.author => journal'[n].witnessed[m] # None
  BY <1>2
<1>9. Up(n)' = Up(n)
  BY <1>2 DEF Up
<1>10. \A m \in Members \ {n} : mem[n].tally[m] # None => journal'[n].witnessed[m] # None
  BY <1>1, <1>2, <1>3, <1>8 DEF BitsAreBacked, Grows
<1>11. \A g \in mem[n].forwards : g.author # n => journal'[n].witnessed[g.author] # None
  <2>1. \A g \in mem[n].forwards : g.author \in Members
    BY <1>2 DEF IndInv, MemberInv, ForwardsWereSealed, TypeOK, AirFrames
  <2> QED BY <1>1, <1>2, <1>3, <2>1 DEF BitsAreBacked, Grows
<1>12. OwnIsKnown(n, mem[n].early[n])'
  BY <1>1, <1>2, <1>4 DEF BitsAreBacked, OwnIsKnown
<1>13. BitsAreBacked(n)'
  BY <1>1, <1>2, <1>4, <1>7, <1>9, <1>10, <1>11, <1>12 DEF BitsAreBacked
<1> QED BY <1>2, <1>3, <1>13, AckStep

\* Offering a held vote: its bitmap was backed by its author, and the vote
\* itself is witnessed in the same step.
LEMMA DrainBacked ==
    ASSUME IndInv, AckInv, refusals = 0, refusals' = 0, NEW n \in Members, drain(n)
    PROVE  AckInv'
<1>1. BitsAreBacked(n)
  BY DEF AckInv
<1>2. /\ OthersKept(n) /\ Up(n) /\ mem'[n].status = mem[n].status
      /\ UNCHANGED <<made, air, carried>> /\ step[n].at = "draining"
      /\ mem'[n].forwards = mem[n].forwards
  BY DrainEffect
<1>3. PICK m \in Held(n) :
        /\ step'[n].at \in {"idle", "draining"}
        /\ \E f \in air \cup made :
            /\ f.author = m /\ f.sequence = mem[n].early[m]
            /\ mem'[n].acknowledged => mem[n].acknowledged \/ n \in f.heard
        /\ \A a \in Members : mem'[n].early[a] = IF a = m THEN None ELSE mem[n].early[a]
        /\ \A a \in Members : a # m => mem'[n].tally[a] = mem[n].tally[a]
        /\ \A a \in Members :
            \/ journal'[n].witnessed[a] = journal[n].witnessed[a]
            \/ /\ a = m /\ journal[n].witnessed[a] = None
               /\ journal'[n].witnessed[a] = mem[n].early[m]
        /\ journal'[n].witnessed[m] # None
  BY DrainEffect
<1>4. PICK f \in air \cup made :
        /\ f.author = m /\ f.sequence = mem[n].early[m]
        /\ mem'[n].acknowledged => mem[n].acknowledged \/ n \in f.heard
  BY <1>3
<1>5. m \in Members /\ mem[n].early[m] # None
  BY <1>3 DEF Held
<1>6. Grows
  BY <1>2, <1>3 DEF Grows, OthersKept
<1>7. Durable(n) => Durable(n)'
  BY <1>6 DEF Durable, Grows
<1>8. Up(n)' = Up(n)
  BY <1>2 DEF Up
<1>9. n \in f.heard => Durable(n)
  <2>1. CASE m # n
    <3>1. BitmapIsBacked(f)
      BY DEF AckInv
    <3> QED BY <1>4, <1>5, <2>1, <3>1 DEF BitmapIsBacked, Durable
  <2>2. CASE m = n
    <3>1. Durable(n) \/ \E g \in made : g.author = n /\ g.sequence = mem[n].early[n]
      BY <1>1, <1>2, <1>5, <2>2 DEF BitsAreBacked, OwnIsKnown
    <3>2. ASSUME NEW g \in made, g.author = n, g.sequence = mem[n].early[n]
          PROVE  n \notin f.heard
      <4>1. g = f
        BY <1>4, <2>2, <3>2 DEF IndInv, SealedOnce, Sealed
      <4> QED BY <3>2, <4>1 DEF AckInv
    <3> QED BY <3>1, <3>2
  <2> QED BY <2>1, <2>2
<1>10. mem'[n].acknowledged => Durable(n)'
  BY <1>1, <1>2, <1>4, <1>7, <1>9 DEF BitsAreBacked
<1>11. \A sequence : OwnIsKnown(n, sequence) =>
            \/ Durable(n)' \/ sequence = None
            \/ \E g \in made' : g.author = n /\ g.sequence = sequence
  BY <1>2, <1>7 DEF OwnIsKnown
<1>12. OwnIsKnown(n, mem[n].early[n])'
  <2>1. mem'[n].early[n] \in {None, mem[n].early[n]}
    BY <1>3
  <2>2. OwnIsKnown(n, mem[n].early[n])
    BY <1>1, <1>2 DEF BitsAreBacked
  <2> QED BY <1>11, <2>1, <2>2 DEF OwnIsKnown
<1>13. OwnIsKnown(n, journal[n].witnessed[n])'
  <2>1. journal'[n].witnessed[n] \in {journal[n].witnessed[n], mem[n].early[n]}
    BY <1>3
  <2>2. OwnIsKnown(n, mem[n].early[n]) /\ OwnIsKnown(n, journal[n].witnessed[n])
    BY <1>1, <1>2 DEF BitsAreBacked
  <2> QED BY <1>11, <2>1, <2>2 DEF OwnIsKnown
<1>14. \A a \in Members \ {n} : mem'[n].tally[a] # None => journal'[n].witnessed[a] # None
  BY <1>1, <1>2, <1>3, <1>6 DEF BitsAreBacked, Grows
<1>15. \A g \in mem[n].forwards : g.author # n => journal'[n].witnessed[g.author] # None
  <2>1. \A g \in mem[n].forwards : g.author \in Members
    BY <1>2 DEF IndInv, MemberInv, ForwardsWereSealed, TypeOK, AirFrames
  <2> QED BY <1>1, <1>2, <1>6, <2>1 DEF BitsAreBacked, Grows
<1>16. BitsAreBacked(n)'
  BY <1>2, <1>3, <1>10, <1>12, <1>13, <1>14, <1>15 DEF BitsAreBacked
<1> QED BY <1>2, <1>6, <1>16, AckStep

\* Reading a frame: a bit for n is backed by the frame's author, or the frame
\* is n's own, which only somebody that holds its vote has put back.
LEMMA ReceiveBacked ==
    ASSUME IndInv, AckInv, refusals = 0, NEW n \in Members,
           NEW f \in air \cup carried, receive(n, f)
    PROVE  AckInv'
<1>1. BitsAreBacked(n) /\ Idle.at = "idle" /\ At("admitted", f).at = "admitted"
      /\ At("admitted", f).frame = f
  BY DEF AckInv, Idle, At
<1>2. /\ OthersKept(n) /\ Up(n) /\ step[n] = Idle /\ UNCHANGED <<made, air, carried>>
      /\ f \in AirFrames /\ f \in air \cup made /\ (f.author # n \/ f \in carried)
      /\ journal'[n].witnessed = journal[n].witnessed
      /\ mem'[n].acknowledged => mem[n].acknowledged \/ n \in f.heard
      /\ mem'[n].forwards \subseteq mem[n].forwards \cup Owed(n, f)
      /\ \A m \in Members : mem'[n].early[m] = mem[n].early[m] \/ m = f.author
      /\ \A m \in Members : mem'[n].tally[m] = mem[n].tally[m] \/ m = f.author
      /\ \/ step'[n] = Idle /\ mem'[n].tally = mem[n].tally
         \/ step'[n] = At("admitted", f)
  BY ReceiveEffect
<1>3. Grows /\ (Durable(n) => Durable(n)') /\ f.author \in Members
  BY <1>2 DEF Grows, OthersKept, Durable, AirFrames
<1>4. f.author = n => Durable(n)
  BY <1>2 DEF AckInv
<1>5. n \in f.heard => Durable(n)
  <2>1. f.author # n => (n \in f.heard => journal[f.author].witnessed[n] # None)
    BY <1>2 DEF AckInv, BitmapIsBacked
  <2> QED BY <1>3, <1>4, <2>1 DEF Durable
<1>6. mem'[n].acknowledged => Durable(n)'
  BY <1>1, <1>2, <1>3, <1>5 DEF BitsAreBacked
<1>7. \A g \in Owed(n, f) : g.author # n => journal[n].witnessed[g.author] # None
  <2> SUFFICES ASSUME NEW g \in Owed(n, f), g.author # n
               PROVE  journal[n].witnessed[g.author] # None
    OBVIOUS
  <2>1. g \in made \cup air /\ g.sequence # None
    BY DEF Owed, IndInv, TypeOK, AirFrames, None
  <2>2. has_voted(n) => g # OutboxVote(journal[n], n)
    BY OutboxIsTheVote
  <2> QED BY <2>1, <2>2 DEF Owed
<1>8. OwnIsKnown(n, mem[n].early[n])'
  <2>1. CASE f.author = n
    BY <1>3, <1>4, <2>1 DEF OwnIsKnown
  <2>2. CASE f.author # n
    <3>1. mem'[n].early[n] = mem[n].early[n] /\ OwnIsKnown(n, mem[n].early[n])
      BY <1>1, <1>2, <2>2 DEF BitsAreBacked
    <3> QED BY <1>2, <1>3, <3>1 DEF OwnIsKnown
  <2> QED BY <2>1, <2>2
<1>9. OwnIsKnown(n, journal[n].witnessed[n])'
  <2>1. OwnIsKnown(n, journal[n].witnessed[n])
    BY <1>1 DEF BitsAreBacked
  <2> QED BY <1>2, <1>3, <2>1 DEF OwnIsKnown
<1>10. \A m \in Members \ {n} : mem'[n].tally[m] # None =>
            \/ journal'[n].witnessed[m] # None
            \/ step'[n].at = "admitted" /\ step'[n].frame.author = m
  BY <1>1, <1>2 DEF BitsAreBacked
<1>11. \A g \in mem'[n].forwards : g.author # n => journal'[n].witnessed[g.author] # None
  BY <1>1, <1>2, <1>7 DEF BitsAreBacked
<1>12. /\ step'[n].at \in {"idle", "admitted"}
       /\ step'[n].at = "admitted" /\ step'[n].frame.author = n => Durable(n)'
  BY <1>1, <1>2, <1>3, <1>4
<1>13. BitsAreBacked(n)'
  BY <1>6, <1>8, <1>9, <1>10, <1>11, <1>12 DEF BitsAreBacked
<1> QED BY <1>2, <1>3, <1>13, AckStep

\* Nothing is out and nothing acknowledged at the start.
LEMMA InitBacked == Init => AckInv
<1> SUFFICES ASSUME Init PROVE AckInv
  OBVIOUS
<1>1. ASSUME NEW n \in Members PROVE BitsAreBacked(n)
  <2>1. Authors = Members
    BY FleetConstants DEF Members
  <2>2. EmptyState \in State /\ EmptyState.witnessed = [m \in Members |-> None]
        /\ EmptyState.locks = {}
    BY <2>1 DEF EmptyState, State, None
  <2>3. FreshJournal(n).witnessed = [m \in Members |-> None] /\ FreshJournal(n).locks = {}
    BY <2>2, ApplySequence, FleetConstants DEF FreshJournal, SameVotes
  <2>4. journal[n] = FreshJournal(n) /\ step[n] = Idle /\ mem[n] = Booted(FreshJournal(n), n)
    BY DEF Init
  <2>5. restored(FreshJournal(n), n) = [m \in Members |-> None]
    BY <2>3 DEF restored
  <2>6. /\ mem[n].tally = [m \in Members |-> None] /\ mem[n].early = [m \in Members |-> None]
        /\ step[n].at = "idle" /\ ~mem[n].acknowledged /\ mem[n].forwards = {}
    BY <2>4, <2>5 DEF Booted, Idle
  <2>7. journal[n].witnessed[n] = None /\ mem[n].early[n] = None
    BY <2>3, <2>4, <2>6
  <2> QED BY <2>6, <2>7 DEF BitsAreBacked, OwnIsKnown
<1> QED BY <1>1 DEF AckInv, Init

\* No step lets go of what backs a bit, as long as no write is refused.
LEMMA NextBacked ==
    ASSUME IndInv, AckInv, HonestAcks, [Next]_vars
    PROVE  AckInv'
<1> SUFFICES ASSUME refusals' = 0 PROVE AckInv'
  BY DEF AckInv
<1>1. CASE UNCHANGED vars
  <2>1. refusals = 0 /\ UNCHANGED <<journal, mem, step, made, air, carried>>
    BY <1>1 DEF vars
  <2> QED BY <2>1 DEF AckInv, BitsAreBacked, BitmapIsBacked, Durable, OwnIsKnown, Up
<1>2. ASSUME NEW n \in Members, Loop(n) PROVE AckInv'
  <2>1. refusals = 0
    <3>1. refusals \in Nat
      BY DEF IndInv, TypeOK
    <3>2. ASSUME refusals' = refusals \/ refusals' = refusals + 1 PROVE refusals = 0
      BY <3>1, <3>2
    <3>3. CASE \E stage \in Stages : reserve(n, stage)
      BY <3>2, <3>3, ReserveEffect
    <3>4. CASE commit_vote(n) \/ drain(n) \/ witness_admitted(n)
      BY <3>2, <3>4, CommitVoteEffect, DrainEffect, WitnessAdmittedEffect
    <3>5. CASE remember_own(n)
      BY <3>2, <3>5 DEF remember_own, remember_seen, Write, NotDurable
    <3>6. CASE Restart(n) \/ from_outbox(n) \/ transmit(n) \/ close_consultation(n)
      BY <3>6, RestartEffect, FromOutboxEffect, TransmitEffect, CloseEffect
    <3>7. CASE \/ slot_missed(n) \/ acknowledged(n) \/ repair_round(n)
               \/ carry(n) \/ finish(n)
      BY <3>7, CountersQuiet, CarryEffect, StopEffect
    <3> QED BY <1>2, <3>3, <3>4, <3>5, <3>6, <3>7 DEF Loop
  <2> QED BY <1>2, <2>1, StatusBacked, SendingBacked, TransmitBacked, QuietStepsBacked,
            DrainBacked, WitnessBacked DEF Loop
<1>3. ASSUME NEW n \in Members, NEW f \in air \cup carried, receive(n, f) PROVE AckInv'
  <2>1. refusals = 0
    BY <1>3, ReceiveEffect DEF IndInv, TypeOK
  <2> QED BY <1>3, <2>1, ReceiveBacked
<1>4. ASSUME NEW n \in Members, Crash(n) PROVE AckInv'
  <2>1. refusals = 0
    BY <1>4 DEF Crash
  <2> QED BY <1>4, <2>1, StatusBacked
<1>5. ASSUME NEW n \in Members, NEW f \in air, Replay(n, f) PROVE FALSE
  BY <1>5 DEF Replay, HonestAcks
<1> QED BY <1>1, <1>2, <1>3, <1>4, <1>5 DEF Next, Receive

\* With honest bitmaps and until a journal write is refused, a member that has
\* been acknowledged has its vote in somebody else's journal, whoever crashes
\* and however votes travel (acknowledges_us, journal.witness).
THEOREM AcknowledgedVoteIsDurable ==
    ASSUME HonestAcks
    PROVE  Spec => []AcknowledgedIsDurable
<1>1. IndInv /\ AckInv => AcknowledgedIsDurable
  BY DEF AckInv, BitsAreBacked, Durable, AcknowledgedIsDurable
<1>2. IndInv /\ AckInv /\ [Next]_vars => AckInv'
  BY NextBacked
<1> QED BY <1>1, <1>2, InitBacked, Invariance, PTL DEF Spec
=============================================================================
