--------------------------- MODULE JournalProofs ---------------------------
(***************************************************************************)
(* Proofs about the abstract journal, for any keys, members, epochs and    *)
(* bounds: its type invariant, that no sequence is ever returned twice and *)
(* that no case is ever voted on twice, over any number of lives.          *)
(***************************************************************************)
EXTENDS Journal, TLAPS

\* Every entry a mutator writes is one the log can hold.
LEMMA EntryTypes ==
    ASSUME TypeOK, CallMatches, InProgress
    PROVE  call.entry \in Entry
<1> QED BY DEF TypeOK, CallMatches, InProgress, NoCall, Entry

\* State::add_frame keeps the state well typed, moves the counter past the
\* frame and never back, and touches no lock.
LEMMA AddFrame ==
    ASSUME NEW s \in State, NEW f \in Frames
    PROVE  /\ add_frame(s, f) \in State
           /\ s.next_sequence <= add_frame(s, f).next_sequence
           /\ f.sequence < add_frame(s, f).next_sequence
           /\ add_frame(s, f).locks = s.locks
           /\ add_frame(s, f).pending = InsertFrame(s.pending, f)
<1>1. f.sequence \in Nat
  BY DEF Frames
<1>2. /\ Larger(s.next_sequence, f.sequence + 1) \in Nat
      /\ s.next_sequence <= Larger(s.next_sequence, f.sequence + 1)
      /\ f.sequence < Larger(s.next_sequence, f.sequence + 1)
  BY <1>1 DEF Larger, State
<1>3. InsertFrame(s.pending, f) \in SUBSET Frames
  BY DEF InsertFrame, State
<1> QED BY <1>2, <1>3 DEF add_frame, State

\* State::apply keeps the state well typed, whatever the entry.
LEMMA ApplyTypes ==
    ASSUME NEW s \in State, NEW e \in Entry
    PROVE  apply(s, e) \in State
<1> USE JournalConstants DEF None, Larger, RemoveFrame
<1>1. CASE e \in [kind : {"Vote"}, key : Keys, frame : Frames]
  <2>1. [s EXCEPT !.locks = @ \cup {e.key}] \in State
    BY <1>1 DEF State
  <2>2. apply(s, e) = add_frame([s EXCEPT !.locks = @ \cup {e.key}], e.frame)
    BY <1>1 DEF apply
  <2> QED BY <1>1, <2>1, <2>2, AddFrame DEF State
<1>2. CASE e \in [kind : {"Sequence"}, next : Nat]
  BY <1>2 DEF apply, State
<1>3. CASE e \in [kind : {"Seen"}, sender : Senders, sequence : Nat]
  BY <1>3 DEF apply, State
<1>4. CASE e \in [kind : {"Epoch"}, epoch : Epochs]
  BY <1>4 DEF apply, State
<1>5. CASE e \in [kind : {"Retired"}, sequence : Nat]
  BY <1>5 DEF apply, State
<1>6. CASE e \in [kind : {"Witnessed"}, author : Authors, bytes : Nat]
  BY <1>6 DEF apply, State
<1>7. CASE e \in [kind : {"Lock"}, key : Keys]
  BY <1>7 DEF apply, State
<1>8. CASE e \in [kind : {"Frame"}, frame : Frames]
  BY <1>8, AddFrame DEF apply
<1> QED BY <1>1, <1>2, <1>3, <1>4, <1>5, <1>6, <1>7, <1>8 DEF Entry

\* No record rewinds the counter or releases a lock (State::apply: "The counter
\* only ever moves forward").
LEMMA ApplyMonotone ==
    ASSUME NEW s \in State, NEW e \in Entry
    PROVE  /\ s.next_sequence <= apply(s, e).next_sequence
           /\ s.locks \subseteq apply(s, e).locks
<1> USE JournalConstants DEF None, Larger, RemoveFrame
<1>1. CASE e \in [kind : {"Vote"}, key : Keys, frame : Frames]
  <2>1. [s EXCEPT !.locks = @ \cup {e.key}] \in State
    BY <1>1 DEF State
  <2>2. apply(s, e) = add_frame([s EXCEPT !.locks = @ \cup {e.key}], e.frame)
    BY <1>1 DEF apply
  <2> QED BY <1>1, <2>1, <2>2, AddFrame DEF State
<1>2. CASE e \in [kind : {"Sequence"}, next : Nat]
  BY <1>2 DEF apply, State
<1>3. CASE e \in [kind : {"Seen"}, sender : Senders, sequence : Nat]
  BY <1>3 DEF apply, State
<1>4. CASE e \in [kind : {"Epoch"}, epoch : Epochs]
  BY <1>4 DEF apply, State
<1>5. CASE e \in [kind : {"Retired"}, sequence : Nat]
  BY <1>5 DEF apply, State
<1>6. CASE e \in [kind : {"Witnessed"}, author : Authors, bytes : Nat]
  BY <1>6 DEF apply, State
<1>7. CASE e \in [kind : {"Lock"}, key : Keys]
  BY <1>7 DEF apply, State
<1>8. CASE e \in [kind : {"Frame"}, frame : Frames]
  BY <1>8, AddFrame DEF apply
<1> QED BY <1>1, <1>2, <1>3, <1>4, <1>5, <1>6, <1>7, <1>8 DEF Entry

\* What one record does to the counter, the locks and the outbox.
LEMMA ApplyEffect ==
    ASSUME NEW s \in State, NEW e \in Entry
    PROVE  /\ e.kind = "Vote" =>
                /\ apply(s, e).locks = s.locks \cup {e.key}
                /\ apply(s, e).pending = InsertFrame(s.pending, e.frame)
                /\ e.frame.sequence < apply(s, e).next_sequence
           /\ e.kind = "Sequence" =>
                /\ apply(s, e).next_sequence = Larger(s.next_sequence, e.next)
                /\ apply(s, e).locks = s.locks
                /\ apply(s, e).pending = s.pending
           /\ e.kind = "Retired" =>
                /\ apply(s, e).next_sequence = s.next_sequence
                /\ apply(s, e).locks = s.locks
                /\ apply(s, e).pending = RemoveFrame(s.pending, e.sequence)
           /\ e.kind \in {"Witnessed", "Epoch", "Seen"} =>
                /\ apply(s, e).next_sequence = s.next_sequence
                /\ apply(s, e).locks = s.locks
                /\ apply(s, e).pending = s.pending
<1>1. CASE e.kind = "Vote"
  <2>1. e.frame \in Frames /\ e.key \in Keys
    BY <1>1 DEF Entry
  <2>2. [s EXCEPT !.locks = @ \cup {e.key}] \in State
    BY <2>1 DEF State
  <2>3. apply(s, e) = add_frame([s EXCEPT !.locks = @ \cup {e.key}], e.frame)
    BY <1>1 DEF apply
  <2> QED BY <1>1, <2>1, <2>2, <2>3, AddFrame DEF State
<1>2. CASE e.kind = "Sequence"
  BY <1>2 DEF apply, State
<1>3. CASE e.kind = "Retired"
  BY <1>3 DEF apply, State
<1>4. CASE e.kind \in {"Witnessed", "Epoch", "Seen"}
  BY <1>4 DEF apply, State
<1> QED BY <1>1, <1>2, <1>3, <1>4

\* The state with the call in progress applied: what Execute leaves, and what a
\* crash in the middle of the call may leave.
LEMMA AfterCall ==
    ASSUME IndInv, InProgress, ~done
    PROVE  LET after == apply(state, call.entry)
           IN  /\ after \in State
               /\ state.next_sequence <= after.next_sequence
               /\ state.locks \subseteq after.locks
               /\ \A f \in after.pending :
                    /\ f.sequence < after.next_sequence
                    /\ f.sequence \notin acknowledged
                    /\ \/ f \in state.pending
                       \/ call.op = "commit_vote" /\ f = call.entry.frame
<1> DEFINE after == apply(state, call.entry)
<1>1. call.entry \in Entry /\ state \in State
  BY EntryTypes DEF IndInv, TypeOK
<1>2. after \in State
  BY <1>1, ApplyTypes
<1>3. state.next_sequence <= after.next_sequence /\ state.locks \subseteq after.locks
  BY <1>1, ApplyMonotone
<1>4. ASSUME NEW f \in after.pending
      PROVE  f \in state.pending \/ (call.op = "commit_vote" /\ f = call.entry.frame)
  <2>1. CASE call.op = "commit_vote"
    BY <1>1, <1>4, <2>1, ApplyEffect DEF IndInv, CallMatches, InsertFrame
  <2>2. CASE call.op # "commit_vote"
    BY <1>1, <1>4, <2>2, ApplyEffect DEF IndInv, CallMatches, RemoveFrame
  <2> QED BY <2>1, <2>2
<1>5. ASSUME NEW f \in after.pending
      PROVE  f.sequence < after.next_sequence /\ f.sequence \notin acknowledged
  <2>1. CASE f \in state.pending
    BY <1>1, <1>2, <1>3, <2>1 DEF IndInv, OutboxFresh, State, Frames
  <2>2. CASE call.op = "commit_vote" /\ f = call.entry.frame
    BY <1>1, <1>2, <1>3, <2>2 DEF IndInv, OutboxFresh, CallMatches, State, Frames, TypeOK
  <2> QED BY <1>4, <1>5, <2>1, <2>2
<1> QED BY <1>2, <1>3, <1>4, <1>5

----------------------------------------------------------------------------

\* A new journal satisfies the invariant.
LEMMA InitIndInv == Init => IndInv
<1> SUFFICES ASSUME Init PROVE IndInv
  OBVIOUS
<1>1. EmptyState \in State
  BY DEF EmptyState, State, None
<1>2. /\ call \in {NoCall} \cup [op : Ops, entry : Entry]
      /\ handed \in Seq(Nat)
      /\ inHand = {} /\ votes = {} /\ acknowledged = {}
  BY DEF Init
<1>3. TypeOK
  BY <1>1, <1>2 DEF Init, TypeOK
<1> QED BY <1>3 DEF Init, IndInv, CallMatches, CounterAhead, VotesLocked,
             OneVotePerCase, OutboxFresh, InProgress, EmptyState

\* Calling a mutator records an entry of the right kind and changes nothing else.
LEMMA CallKeeps ==
    ASSUME IndInv, NEW op \in Ops, NEW entry \in Entry, Call(op, entry),
           op = "reserve_sequence" => entry.next = state.next_sequence + 1,
           op = "commit_vote" => entry.key \notin state.locks,
           \/ /\ op \in {"open_with_entropy", "reserve_sequence"}
              /\ entry \in [kind : {"Sequence"}, next : Nat]
           \/ /\ op = "commit_vote"
              /\ entry \in [kind : {"Vote"}, key : Keys, frame : Frames]
              /\ entry.frame.vote = entry.key
              /\ entry.frame.sequence \in inHand
           \/ /\ op \in {"acknowledge", "drop_expired"}
              /\ entry \in [kind : {"Retired"}, sequence : Nat]
              /\ entry.sequence < state.next_sequence
              /\ entry.sequence \notin inHand
           \/ /\ op = "witness"
              /\ entry \in [kind : {"Witnessed"}, author : Authors, bytes : Nat]
           \/ /\ op = "enter_epoch"
              /\ entry \in [kind : {"Epoch"}, epoch : Epochs]
           \/ /\ op = "mark_seen"
              /\ entry \in [kind : {"Seen"}, sender : Senders, sequence : Nat]
    PROVE  IndInv'
<1> USE DEF IndInv, Call, NoCall
<1>1. ~done /\ ~InProgress
  BY DEF CallMatches, InProgress
<1>2. TypeOK'
  BY DEF TypeOK
<1>3. CallMatches'
  BY <1>1 DEF CallMatches, InProgress
<1>4. CounterAhead'
  BY <1>1 DEF CounterAhead, InProgress
<1>5. VotesLocked'
  BY <1>1 DEF VotesLocked, InProgress
<1>6. OneVotePerCase'
  BY DEF OneVotePerCase
<1>7. OutboxFresh'
  BY <1>1 DEF OutboxFresh
<1> QED BY <1>2, <1>3, <1>4, <1>5, <1>6, <1>7

\* A mutator taking effect preserves the invariant: the counter passes the
\* sequence about to be handed out, the lock is taken, the retired frame goes.
LEMMA ExecuteKeeps ==
    ASSUME IndInv, Execute
    PROVE  IndInv'
<1> USE DEF IndInv
<1>1. /\ InProgress /\ ~done /\ done'
      /\ state' = apply(state, call.entry)
      /\ UNCHANGED <<call, handed, inHand, votes, acknowledged>>
  BY DEF Execute
<1>2. /\ state' \in State
      /\ state.next_sequence <= state'.next_sequence
      /\ state.locks \subseteq state'.locks
      /\ \A f \in state'.pending :
            /\ f.sequence < state'.next_sequence
            /\ f.sequence \notin acknowledged
            /\ \/ f \in state.pending
               \/ call.op = "commit_vote" /\ f = call.entry.frame
  BY <1>1, AfterCall
<1>3. call.entry \in Entry /\ state \in State
  BY <1>1, EntryTypes DEF TypeOK
<1>4. state.next_sequence \in Nat /\ state'.next_sequence \in Nat
  BY <1>2, <1>3 DEF State
<1>5. TypeOK'
  BY <1>1, <1>2 DEF TypeOK, Execute
<1>6. CallMatches'
  <2>1. InProgress' = InProgress
    BY <1>1 DEF InProgress
  <2>2. \A n \in Nat : n < state.next_sequence => n < state'.next_sequence
    BY <1>2, <1>4
  <2> QED BY <1>1, <2>1, <2>2 DEF CallMatches
<1>7. CounterAhead'
  <2>1. call.op = "reserve_sequence" =>
            call.entry \in [kind : {"Sequence"}, next : Nat]
    BY <1>1 DEF CallMatches
  <2>2. call.op = "reserve_sequence" => state'.next_sequence = state.next_sequence + 1
                                        /\ call.entry.next = state.next_sequence + 1
    BY <1>1, <1>3, <1>4, <2>1, ApplyEffect DEF CounterAhead, Larger
  <2>3. \A i \in 1 .. Len(handed) : handed[i] \in Nat
    BY DEF TypeOK
  <2> QED BY <1>1, <1>2, <1>4, <2>2, <2>3 DEF CounterAhead
<1>8. VotesLocked'
  <2>1. CASE call.op = "commit_vote"
    <3>1. state'.locks = state.locks \cup {call.entry.key}
      BY <1>1, <1>3, <2>1, ApplyEffect DEF CallMatches
    <3> QED BY <1>1, <2>1, <3>1 DEF VotesLocked
  <2>2. CASE call.op # "commit_vote"
    BY <1>1, <1>2, <2>2 DEF VotesLocked
  <2> QED BY <2>1, <2>2
<1>9. OneVotePerCase'
  BY <1>1 DEF OneVotePerCase
<1>10. OutboxFresh'
  <2>1. \A n \in inHand \cup acknowledged : n \in Nat /\ n < state'.next_sequence
    BY <1>2, <1>4 DEF OutboxFresh, TypeOK
  <2>2. ASSUME NEW f \in state'.pending, f.sequence \in inHand
        PROVE  call.op = "commit_vote" /\ call.entry.frame.sequence = f.sequence
    BY <1>1, <1>2, <2>2 DEF OutboxFresh
  <2>3. call.op \in {"acknowledge", "drop_expired"} =>
            \A f \in state'.pending : f.sequence # call.entry.sequence
    BY <1>1, <1>3, ApplyEffect DEF CallMatches, RemoveFrame
  <2>4. call.op = "reserve_sequence" =>
            /\ \A n \in acknowledged : n < call.entry.next - 1
            /\ \A f \in state'.pending : f.sequence < call.entry.next - 1
    <3>1. call.op = "reserve_sequence" => call.entry.next - 1 = state.next_sequence
      BY <1>1, <1>4 DEF CounterAhead
    <3>2. \A f \in state.pending : f.sequence < state.next_sequence
      BY DEF OutboxFresh
    <3> QED BY <1>2, <3>1, <3>2 DEF OutboxFresh
  <2> QED BY <1>1, <1>2, <2>1, <2>2, <2>3, <2>4 DEF OutboxFresh
<1> QED BY <1>5, <1>6, <1>7, <1>8, <1>9, <1>10

\* Returning Ok to the caller preserves the invariant: what enters the caller's
\* history is already covered by the durable state.
LEMMA AnswerKeeps ==
    ASSUME IndInv, Answer
    PROVE  IndInv'
<1> USE DEF IndInv
<1>1. /\ InProgress /\ done /\ ~done' /\ call' = NoCall /\ ~InProgress'
      /\ done' \in BOOLEAN
      /\ UNCHANGED state
  BY DEF Answer, CallMatches, InProgress
<1>2. state.next_sequence \in Nat
  BY DEF TypeOK, State
<1>3. CASE call.op = "reserve_sequence"
  <2> DEFINE n == call.entry.next - 1
  <2>1. /\ handed' = Append(handed, n)
        /\ inHand' = inHand \cup {n}
        /\ UNCHANGED <<votes, acknowledged>>
    BY <1>3 DEF Answer
  <2>2. /\ n \in Nat /\ n < state.next_sequence
        /\ \A i \in 1 .. Len(handed) : handed[i] < n
    BY <1>1, <1>2, <1>3 DEF CounterAhead
  <2>3. handed \in Seq(Nat) /\ handed' \in Seq(Nat)
    BY <2>1, <2>2 DEF TypeOK
  <2>4. TypeOK'
    BY <1>1, <2>1, <2>2, <2>3 DEF TypeOK
  <2>5. CounterAhead'
    BY <1>1, <1>2, <2>1, <2>2, <2>3 DEF CounterAhead
  <2>6. n \notin acknowledged /\ \A f \in state.pending : f.sequence # n
    <3>1. \A f \in state.pending : f.sequence < n
      BY <1>1, <1>3 DEF OutboxFresh
    <3>2. \A f \in state.pending : f.sequence \in Nat
      BY DEF TypeOK, State, Frames
    <3>3. \A m \in acknowledged : m < n /\ m \in Nat
      BY <1>1, <1>3 DEF OutboxFresh, TypeOK
    <3> QED BY <2>2, <3>1, <3>2, <3>3
  <2>7. OutboxFresh'
    BY <1>1, <1>3, <2>1, <2>2, <2>6 DEF OutboxFresh
  <2> QED BY <1>1, <2>1, <2>4, <2>5, <2>7 DEF CallMatches, VotesLocked, OneVotePerCase
<1>4. CASE call.op = "commit_vote"
  <2> DEFINE f == call.entry.frame
  <2>1. /\ votes' = votes \cup {f}
        /\ inHand' = inHand \ {f.sequence}
        /\ UNCHANGED <<handed, acknowledged>>
    BY <1>4 DEF Answer
  <2>2. f \in Frames /\ f.vote = call.entry.key
    BY <1>1, <1>4 DEF CallMatches
  <2>3. TypeOK'
    BY <1>1, <2>1, <2>2 DEF TypeOK
  <2>4. CounterAhead'
    BY <1>1, <2>1 DEF CounterAhead
  <2>5. VotesLocked' /\ OneVotePerCase'
    BY <1>1, <1>4, <2>1, <2>2 DEF VotesLocked, OneVotePerCase
  <2>6. OutboxFresh'
    BY <1>1, <1>4, <2>1 DEF OutboxFresh
  <2> QED BY <1>1, <2>3, <2>4, <2>5, <2>6 DEF CallMatches
<1>5. CASE call.op = "acknowledge"
  <2> DEFINE n == call.entry.sequence
  <2>1. acknowledged' = acknowledged \cup {n} /\ UNCHANGED <<handed, inHand, votes>>
    BY <1>5 DEF Answer
  <2>2. n \in Nat /\ n < state.next_sequence /\ n \notin inHand
    BY <1>1, <1>5 DEF CallMatches
  <2>3. \A f \in state.pending : f.sequence # n
    BY <1>1, <1>5 DEF OutboxFresh
  <2>4. TypeOK'
    BY <1>1, <2>1, <2>2 DEF TypeOK
  <2>5. OutboxFresh'
    BY <1>1, <1>5, <2>1, <2>2, <2>3 DEF OutboxFresh
  <2> QED BY <1>1, <2>1, <2>4, <2>5 DEF CallMatches, CounterAhead, VotesLocked, OneVotePerCase
<1>6. CASE call.op \notin {"reserve_sequence", "commit_vote", "acknowledge"}
  <2>1. UNCHANGED <<handed, inHand, votes, acknowledged>>
    BY <1>6 DEF Answer
  <2>2. TypeOK'
    BY <1>1, <2>1 DEF TypeOK
  <2> QED BY <1>1, <1>6, <2>1, <2>2 DEF CallMatches, CounterAhead, VotesLocked,
             OneVotePerCase, OutboxFresh
<1> QED BY <1>3, <1>4, <1>5, <1>6

\* Returning NotDurable preserves the invariant, since nothing happened.
LEMMA RefuseKeeps ==
    ASSUME IndInv, Refuse
    PROVE  IndInv'
<1>1. TypeOK'
  BY DEF IndInv, Refuse, TypeOK
<1> QED BY <1>1 DEF IndInv, Refuse, CallMatches, CounterAhead, VotesLocked,
             OneVotePerCase, OutboxFresh, InProgress

\* A crash preserves the invariant, whether or not the call in flight took effect.
LEMMA CrashKeeps ==
    ASSUME IndInv, Crash
    PROVE  IndInv'
<1> USE DEF IndInv
<1>1. /\ call' = NoCall /\ ~done' /\ ~InProgress' /\ inHand' = {} /\ done' \in BOOLEAN
      /\ UNCHANGED <<handed, votes, acknowledged>>
  BY DEF Crash, InProgress
<1>2. /\ state' \in State
      /\ state.next_sequence <= state'.next_sequence
      /\ state.locks \subseteq state'.locks
      /\ \A f \in state'.pending :
            f.sequence < state'.next_sequence /\ f.sequence \notin acknowledged
  <2>1. CASE state' = state
    BY <2>1 DEF TypeOK, State, OutboxFresh
  <2>2. CASE InProgress /\ ~done /\ state' = apply(state, call.entry)
    BY <2>2, AfterCall
  <2> QED BY <2>1, <2>2 DEF Crash
<1>3. state.next_sequence \in Nat /\ state'.next_sequence \in Nat
  BY <1>2 DEF TypeOK, State
<1>4. TypeOK'
  BY <1>1, <1>2 DEF TypeOK
<1>5. CounterAhead'
  <2>1. \A i \in 1 .. Len(handed) : handed[i] \in Nat
    BY DEF TypeOK
  <2> QED BY <1>1, <1>2, <1>3, <2>1 DEF CounterAhead
<1>6. OutboxFresh'
  <2>1. \A n \in acknowledged : n \in Nat
    BY DEF TypeOK
  <2> QED BY <1>1, <1>2, <1>3, <2>1 DEF OutboxFresh
<1> QED BY <1>1, <1>2, <1>4, <1>5, <1>6 DEF CallMatches, VotesLocked, OneVotePerCase

\* Every step of the journal preserves the invariant.
LEMMA NextKeeps ==
    ASSUME IndInv, [Next]_vars
    PROVE  IndInv'
<1> USE JournalConstants, StartsAssumption
<1>1. state.next_sequence \in Nat /\ (call = NoCall => ~done)
  BY DEF IndInv, TypeOK, State, CallMatches, InProgress
<1>2. ASSUME NEW start \in Starts, open_with_entropy(start)
      PROVE  IndInv'
  <2>1. Sequence(start) \in [kind : {"Sequence"}, next : Nat] /\ Sequence(start) \in Entry
    BY DEF Sequence, Entry
  <2> QED BY <1>2, <2>1, CallKeeps DEF open_with_entropy, Ops
<1>3. ASSUME NEW key \in Keys, NEW sequence \in inHand, NEW expires_at \in Expiries,
             commit_vote(key, sequence, expires_at)
      PROVE  IndInv'
  <2> DEFINE frame == OutgoingFrame(sequence, key, expires_at)
  <2>1. frame \in Frames /\ frame.sequence = sequence /\ frame.vote = key
    BY DEF OutgoingFrame, Frames, IndInv, TypeOK
  <2> HIDE DEF frame
  <2>2. /\ Vote(key, frame) \in [kind : {"Vote"}, key : Keys, frame : Frames]
        /\ Vote(key, frame) \in Entry
        /\ Vote(key, frame).key = key /\ Vote(key, frame).frame = frame
    BY <2>1 DEF Vote, Entry
  <2>3. Call("commit_vote", Vote(key, frame)) /\ key \notin state.locks
    BY <1>3 DEF commit_vote, frame
  <2> QED BY <1>3, <2>1, <2>2, <2>3, CallKeeps DEF Ops
<1>4. ASSUME reserve_sequence
      PROVE  IndInv'
  <2> DEFINE e == Sequence(state.next_sequence + 1)
  <2>1. /\ e \in [kind : {"Sequence"}, next : Nat] /\ e \in Entry
        /\ e.next = state.next_sequence + 1
    BY <1>1 DEF Sequence, Entry
  <2>2. Call("reserve_sequence", e)
    BY <1>4 DEF reserve_sequence
  <2> HIDE DEF e
  <2> QED BY <2>1, <2>2, CallKeeps DEF Ops
<1>5. ASSUME NEW f \in state.pending, acknowledge(f.sequence) \/ drop_expired(f)
      PROVE  IndInv'
  <2>1. f.sequence \in Nat
    BY DEF IndInv, TypeOK, State, Frames
  <2>2. /\ Retired(f.sequence) \in [kind : {"Retired"}, sequence : Nat]
        /\ Retired(f.sequence) \in Entry
        /\ Retired(f.sequence).sequence = f.sequence
    BY <2>1 DEF Retired, Entry
  <2>3. call = NoCall
    BY <1>5 DEF acknowledge, drop_expired, Call
  <2>4. f.sequence < state.next_sequence /\ f.sequence \notin inHand
    BY <1>1, <2>3 DEF IndInv, OutboxFresh
  <2>5. \E op \in {"acknowledge", "drop_expired"} : Call(op, Retired(f.sequence))
    BY <1>5 DEF acknowledge, drop_expired
  <2> QED BY <2>2, <2>4, <2>5, CallKeeps DEF Ops
<1>6. ASSUME NEW author \in Authors, NEW frame \in 0 .. MaxSequence, witness(author, frame)
      PROVE  IndInv'
  <2>1. /\ Witnessed(author, frame) \in [kind : {"Witnessed"}, author : Authors, bytes : Nat]
        /\ Witnessed(author, frame) \in Entry
    BY DEF Witnessed, Entry
  <2> QED BY <1>6, <2>1, CallKeeps DEF witness, Ops
<1>7. ASSUME NEW epoch \in Epochs, enter_epoch(epoch)
      PROVE  IndInv'
  <2>1. Epoch(epoch) \in [kind : {"Epoch"}, epoch : Epochs] /\ Epoch(epoch) \in Entry
    BY DEF Epoch, Entry
  <2> QED BY <1>7, <2>1, CallKeeps DEF enter_epoch, Ops
<1>8. ASSUME NEW sender \in Senders, NEW sequence \in 0 .. MaxSequence,
             mark_seen(sender, sequence)
      PROVE  IndInv'
  <2>1. /\ Seen(sender, sequence) \in [kind : {"Seen"}, sender : Senders, sequence : Nat]
        /\ Seen(sender, sequence) \in Entry
    BY DEF Seen, Entry
  <2> QED BY <1>8, <2>1, CallKeeps DEF mark_seen, Ops
<1>9. CASE UNCHANGED vars
  <2>1. TypeOK'
    BY <1>9 DEF IndInv, TypeOK, vars
  <2> QED BY <1>9, <2>1 DEF IndInv, vars, CallMatches, CounterAhead, VotesLocked,
             OneVotePerCase, OutboxFresh, InProgress
<1> QED BY <1>2, <1>3, <1>4, <1>5, <1>6, <1>7, <1>8, <1>9,
           ExecuteKeeps, AnswerKeeps, RefuseKeeps, CrashKeeps DEF Next

\* IndInv holds of every reachable state of the journal.
THEOREM Invariance == Spec => []IndInv
<1> QED BY InitIndInv, NextKeeps, PTL DEF Spec

\* The state, the call in progress and the caller's history keep their types
\* for any constants.
THEOREM TypeCorrect == Spec => []TypeOK
<1>1. IndInv => TypeOK
  BY DEF IndInv
<1> QED BY <1>1, Invariance, PTL

\* "A sequence number is never reused": for any number of lives, calls and
\* crashes, reserve_sequence returns each number at most once.
THEOREM NeverReused == Spec => []SequenceNeverReused
<1>1. IndInv => SequenceNeverReused
  <2> SUFFICES ASSUME IndInv, NEW i \in 1 .. Len(handed), NEW j \in 1 .. Len(handed),
                      handed[i] = handed[j]
               PROVE  i = j
    BY DEF SequenceNeverReused
  <2>1. handed[i] \in Nat /\ handed[j] \in Nat
    BY DEF IndInv, TypeOK
  <2> QED BY <2>1 DEF IndInv, CounterAhead
<1> QED BY <1>1, Invariance, PTL

\* A vote lock, once committed, holds for ever: for any number of lives,
\* commit_vote returns Ok at most once per lock key.
THEOREM VotesOnce == Spec => []OneVotePerCase
<1>1. IndInv => OneVotePerCase
  BY DEF IndInv
<1> QED BY <1>1, Invariance, PTL

\* An acknowledged frame is never offered for transmission again, in this life
\* or after a restart.
THEOREM AcknowledgedGone == Spec => []AcknowledgedStaysGone
<1>1. IndInv => AcknowledgedStaysGone
  BY DEF IndInv, OutboxFresh, AcknowledgedStaysGone
<1> QED BY <1>1, Invariance, PTL
=============================================================================
