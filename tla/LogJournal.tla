----------------------------- MODULE LogJournal -----------------------------
(***************************************************************************)
(* The append-only file behind a member's journal                          *)
(* (src/src/infrastructure/log.rs).  A mutator writes one record, flushes  *)
(* it, updates the state in memory, then rewrites the whole log into a     *)
(* sibling file renamed over it when it has grown too large.  The process  *)
(* may be killed, or the power cut, between any two of those steps, and    *)
(* the calls into the file system may fail.                                *)
(*                                                                         *)
(* The file system is modelled from how log.rs uses it: a file is its      *)
(* records and how many of them are flushed; the directory names one file  *)
(* and, until it is flushed, may come back from a power cut naming an      *)
(* earlier one; a handle keeps the file it was opened on, whatever the     *)
(* directory names since.                                                  *)
(***************************************************************************)
EXTENDS JournalClient, SequencesExt

CONSTANTS
    Threshold,    \* COMPACT_THRESHOLD_BYTES, in records
    Inodes,       \* files the directory can hold
    CrashKinds,   \* subset of {"kill", "power"}
    Faults,       \* subset of FaultKinds the file system may show
    MaxCrashes,   \* bound on crashes
    MaxFaults     \* bound on faults

FaultKinds == {"refused",      \* write_all fails and writes nothing
               "torn",         \* write_all fails after part of the record
               "unsynced",     \* sync_all fails after the whole record is written
               "no-rewrite",   \* compaction fails before or at the rename
               "no-dir-sync",  \* sync_parent_dir fails after the rename
               "no-reopen"}    \* the renamed file cannot be opened

ASSUME LogConstants ==
    /\ Threshold \in Nat
    /\ Inodes \subseteq Nat /\ Inodes # {}
    /\ CrashKinds \subseteq {"kill", "power"}
    /\ Faults \subseteq FaultKinds
    /\ MaxCrashes \in Nat /\ MaxFaults \in Nat

VARIABLES
    files,      \* records and flushed length of every file
    dir,        \* the file the journal's path names
    dirOnDisk,  \* the files the path may name after a power cut
    handle,     \* LogJournal::file, the file appends go to
    live,       \* LogJournal::state
    size,       \* LogJournal::bytes_on_disk, in records
    phase,      \* where the process is in the mutator it runs
    job,        \* the mutator: [op, entry, todo]
    crashes,    \* crashes so far
    faults,     \* faults so far
    asked,      \* sequences whose retirement was ever begun
    exposed     \* frames a caller has read from pending()

disk == <<files, dir, dirOnDisk>>
client == <<handed, inHand, votes, acknowledged, asked, exposed>>
vars == <<files, dir, dirOnDisk, handle, live, size, phase, job, crashes,
          faults, handed, inHand, votes, acknowledged, asked, exposed>>

Torn == [kind |-> "Torn"]
EmptyFile == [recs |-> <<>>, synced |-> 0]
NoJob == [op |-> "none", entry |-> <<>>, todo |-> {}]

FirstInode == CHOOSE i \in Inodes : TRUE

Init ==
    /\ files = [i \in Inodes |-> EmptyFile]
    /\ dir = FirstInode
    /\ dirOnDisk = {FirstInode}
    /\ handle = FirstInode
    /\ live = EmptyState
    /\ size = 0
    /\ phase = "down"
    /\ job = NoJob
    /\ crashes = 0
    /\ faults = 0
    /\ handed = <<>>
    /\ inHand = {}
    /\ votes = {}
    /\ acknowledged = {}
    /\ asked = {}
    /\ exposed = {}

----------------------------------------------------------------------------
(* Replay.                                                                 *)

\* The records replay reads: it stops at the first one that is not whole.
Whole(recs) ==
    SubSeq(recs, 1, Min({i \in DOMAIN recs : recs[i] = Torn} \cup {Len(recs) + 1}) - 1)

\* The records of some kinds.
At(log, kinds) == {i \in DOMAIN log : log[i].kind \in kinds}

Framed(log) == At(log, {"Vote", "Frame"})

\* The last record that moved to a later epoch.
Raised(log) ==
    Max({0} \cup {i \in At(log, {"Epoch"}) :
                    \A j \in At(log, {"Epoch"}) : j < i => log[j].epoch < log[i].epoch})

\* What was seen before it is forgotten.
SeenSince(log, sender) ==
    {i \in At(log, {"Seen"}) : log[i].sender = sender /\ i > Raised(log)}

\* Frames that were neither retired nor replaced since they were written.
Outstanding(log) ==
    {i \in Framed(log) :
        /\ \A k \in Framed(log) : k > i => log[k].frame.sequence # log[i].frame.sequence
        /\ \A k \in At(log, {"Retired"}) : k > i => log[k].sequence # log[i].frame.sequence}

Outbox(log) == {log[i].frame : i \in Outstanding(log)}

Locked(log) == {log[i].key : i \in At(log, {"Vote", "Lock"})}

WitnessesOf(log, author) == {i \in At(log, {"Witnessed"}) : log[i].author = author}

LastEpoch(log) == Max({None} \cup {log[i].epoch : i \in At(log, {"Epoch"})})

LastSeen(log, sender) == Max({None} \cup {log[i].sequence : i \in SeenSince(log, sender)})

NextSequence(log) ==
    Max({0} \cup {log[i].next : i \in At(log, {"Sequence"})}
            \cup {log[i].frame.sequence + 1 : i \in Framed(log)})

FirstWitnessed(log, author) ==
    IF WitnessesOf(log, author) = {} THEN None ELSE log[Min(WitnessesOf(log, author))].bytes

\* What the records of a log amount to, said without an order of evaluation;
\* ReplayIsFold relates it to the loop of the code.
Replayed(log) ==
    [epoch         |-> LastEpoch(log),
     seen          |-> [s \in Senders |-> LastSeen(log, s)],
     locks         |-> Locked(log),
     pending       |-> Outbox(log),
     next_sequence |-> NextSequence(log),
     witnessed     |-> [a \in Authors |-> FirstWitnessed(log, a)]]

replay(recs) == Replayed(Whole(recs))

----------------------------------------------------------------------------
(* Opening.                                                                *)

\* Files no name and no handle reaches are gone.
Keep(fs, reachable) == [i \in Inodes |-> IF i \in reachable THEN fs[i] ELSE EmptyFile]

\* LogJournal::open followed by open_with_entropy: flush the directory, replay,
\* cut a damaged tail off and flush the cut.  A log with nothing in it then
\* records where its counter starts before anything else, through the same
\* append as every mutator.
Open ==
    /\ phase = "down"
    /\ LET recs == files[dir].recs
           good == Whole(recs)
           cut == IF good = recs THEN files[dir]
                  ELSE [recs |-> good, synced |-> Len(good)]
       IN  /\ files' = Keep([files EXCEPT ![dir] = cut], {dir})
           /\ live' = replay(recs)
           /\ size' = Len(good)
           /\ IF Len(good) = 0 /\ replay(recs).next_sequence = 0
              THEN /\ phase' = "append"
                   /\ \E start \in Starts :
                        job' = [op |-> "open_with_entropy",
                                entry |-> <<Sequence(start)>>, todo |-> {}]
              ELSE phase' = "idle" /\ job' = NoJob
    /\ dirOnDisk' = {dir}
    /\ handle' = dir
    /\ UNCHANGED <<dir, crashes, faults, client>>

----------------------------------------------------------------------------
(* Calling a mutator.  Each begins by deciding whether it has anything to  *)
(* write; where it has not, it returns and nothing changes.                *)

Start(op, entry) ==
    /\ phase = "idle"
    /\ phase' = "append"
    /\ job' = [op |-> op, entry |-> <<entry>>, todo |-> {}]
    /\ UNCHANGED <<files, dir, dirOnDisk, handle, live, size, crashes, faults,
                   handed, inHand, votes, acknowledged, exposed>>

commit_vote(key, sequence, expires_at) ==
    /\ sequence \in inHand
    /\ key \notin live.locks
    /\ Start("commit_vote", Vote(key, OutgoingFrame(sequence, key, expires_at)))
    /\ UNCHANGED asked

reserve_sequence ==
    /\ live.next_sequence < MaxSequence
    /\ Start("reserve_sequence", Sequence(live.next_sequence + 1))
    /\ UNCHANGED asked

acknowledge(sequence) ==
    /\ \E f \in live.pending : f.sequence = sequence
    /\ Start("acknowledge", Retired(sequence))
    /\ asked' = asked \cup {sequence}

witness(author, frame) ==
    /\ live.witnessed[author] = None
    /\ Start("witness", Witnessed(author, frame))
    /\ UNCHANGED asked

enter_epoch(epoch) ==
    /\ live.epoch < epoch
    /\ Start("enter_epoch", Epoch(epoch))
    /\ UNCHANGED asked

mark_seen(sender, sequence) ==
    /\ live.seen[sender] < sequence
    /\ Start("mark_seen", Seen(sender, sequence))
    /\ UNCHANGED asked

\* drop_expired collects the expired frames, then retires them one by one, the
\* lowest sequence first.
Expired(now) == {f \in live.pending : \E at \in f.expires_at : at < now}

drop_expired(now) ==
    /\ phase = "idle"
    /\ Expired(now) # {}
    /\ phase' = "sweep"
    /\ job' = [op |-> "drop_expired", entry |-> <<>>,
               todo |-> {f.sequence : f \in Expired(now)}]
    /\ UNCHANGED <<files, dir, dirOnDisk, handle, live, size, crashes, faults, client>>

sweep_next ==
    /\ phase = "sweep"
    /\ IF job.todo = {}
       THEN phase' = "settled" /\ UNCHANGED <<job, asked>>
       ELSE /\ phase' = "append"
            /\ asked' = asked \cup {Min(job.todo)}
            /\ job' = [job EXCEPT !.entry = <<Retired(Min(job.todo))>>,
                                  !.todo = job.todo \ {Min(job.todo)}]
    /\ UNCHANGED <<files, dir, dirOnDisk, handle, live, size, crashes, faults,
                   handed, inHand, votes, acknowledged, exposed>>

\* pending(): a caller reads the outbox, and may transmit what it finds.
pending ==
    /\ phase = "idle"
    /\ ~ live.pending \subseteq exposed
    /\ exposed' = exposed \cup live.pending
    /\ UNCHANGED <<files, dir, dirOnDisk, handle, live, size, phase, job, crashes,
                   faults, handed, inHand, votes, acknowledged, asked>>

\* compact(), called directly rather than at the end of a mutator.
compact_now ==
    /\ phase = "idle"
    /\ phase' = "settled"
    /\ job' = [op |-> "compact", entry |-> <<>>, todo |-> {}]
    /\ UNCHANGED <<files, dir, dirOnDisk, handle, live, size, crashes, faults, client>>

----------------------------------------------------------------------------
(* try_append: write the record, flush it, then update the live state.     *)

Write(recs) == files' = [files EXCEPT ![handle].recs = @ \o recs]

Fault(kind) ==
    /\ kind \in Faults
    /\ faults < MaxFaults
    /\ faults' = faults + 1

\* The mutator returns NotDurable; a sweep leaves the frame for the next one.
NotDurable ==
    /\ IF job.op = "drop_expired"
       THEN phase' = "sweep" /\ job' = [job EXCEPT !.entry = <<>>]
       ELSE /\ phase' = IF job.op = "open_with_entropy" THEN "down" ELSE "idle"
            /\ job' = NoJob

write_all ==
    /\ phase = "append"
    /\ Write(job.entry)
    /\ phase' = "written"
    /\ UNCHANGED <<dir, dirOnDisk, handle, live, size, job, crashes, faults, client>>

write_fails ==
    /\ phase = "append"
    /\ \/ Fault("refused") /\ UNCHANGED files
       \/ Fault("torn") /\ Write(<<Torn>>)
    /\ NotDurable
    /\ UNCHANGED <<dir, dirOnDisk, handle, live, size, crashes, handed, inHand,
                   votes, acknowledged, asked, exposed>>

\* What each mutator does to the live state once its record is durable.
Settle(entry) ==
    CASE entry.kind = "Vote" ->
            [live EXCEPT !.locks = @ \cup {entry.key},
                         !.next_sequence = Larger(@, entry.frame.sequence + 1),
                         !.pending = InsertFrame(@, entry.frame)]
      [] entry.kind = "Sequence" -> [live EXCEPT !.next_sequence = entry.next]
      [] entry.kind = "Retired" -> [live EXCEPT !.pending = RemoveFrame(@, entry.sequence)]
      [] entry.kind = "Witnessed" -> [live EXCEPT !.witnessed[entry.author] = entry.bytes]
      [] entry.kind = "Epoch" -> [live EXCEPT !.seen = [s \in Senders |-> None],
                                              !.epoch = entry.epoch]
      [] entry.kind = "Seen" -> [live EXCEPT !.seen[entry.sender] = entry.sequence]

\* Mutant: the record is not flushed before the mutator returns.
sync_all_skipped ==
    /\ phase = "written"
    /\ size' = size + 1
    /\ live' = Settle(job.entry[1])
    /\ phase' = "settled"
    /\ UNCHANGED <<files, dir, dirOnDisk, handle, job, crashes, faults, client>>

sync_all ==
    /\ phase = "written"
    /\ files' = [files EXCEPT ![handle].synced = Len(files[handle].recs)]
    /\ size' = size + 1
    /\ live' = Settle(job.entry[1])
    /\ phase' = "settled"
    /\ UNCHANGED <<dir, dirOnDisk, handle, job, crashes, faults, client>>

sync_fails ==
    /\ phase = "written"
    /\ Fault("unsynced")
    /\ NotDurable
    /\ UNCHANGED <<files, dir, dirOnDisk, handle, live, size, crashes, handed,
                   inHand, votes, acknowledged, asked, exposed>>

----------------------------------------------------------------------------
(* compact_if_large, then the return to the caller.                        *)

\* One frame of a sweep has been retired; the sweep goes on, and only its end
\* considers compaction.
Sweeping == job.op = "drop_expired" /\ job.entry # <<>>

Large == size > Threshold \/ job.op = "compact"

Return ==
    /\ phase' = IF Sweeping THEN "sweep" ELSE "idle"
    /\ job' = IF Sweeping THEN [job EXCEPT !.entry = <<>>] ELSE NoJob
    /\ handed' = IF job.op = "reserve_sequence"
                 THEN Append(handed, job.entry[1].next - 1) ELSE handed
    /\ inHand' = CASE job.op = "reserve_sequence" -> inHand \cup {job.entry[1].next - 1}
                   [] job.op = "commit_vote" -> inHand \ {job.entry[1].frame.sequence}
                   [] OTHER -> inHand
    /\ votes' = IF job.op = "commit_vote" THEN votes \cup {job.entry[1].frame} ELSE votes
    /\ acknowledged' = IF job.op = "acknowledge"
                       THEN acknowledged \cup {job.entry[1].sequence} ELSE acknowledged
    /\ UNCHANGED <<asked, exposed>>

return_without_compacting ==
    /\ phase = "settled"
    /\ Sweeping \/ job.op = "open_with_entropy" \/ ~Large
    /\ Return
    /\ UNCHANGED <<files, dir, dirOnDisk, handle, live, size, crashes, faults>>

\* Mutant: compaction keeps the frames and forgets the locks.
CompactedEntries_NoLocks ==
    <<Sequence(live.next_sequence)>> \o SetToSeq({Frame(f) : f \in live.pending})

\* Mutant: compaction forgets the counter.
CompactedEntries_NoCounter ==
    SetToSeq({Lock(k) : k \in live.locks}) \o SetToSeq({Frame(f) : f \in live.pending})

\* Mutant: the epoch is written after the sequences seen in it.
CompactedEntries_EpochLast ==
    <<Sequence(live.next_sequence)>>
    \o SetToSeq({Seen(s, live.seen[s]) : s \in {s \in Senders : live.seen[s] # None}})
    \o (IF live.epoch = None THEN <<>> ELSE <<Epoch(live.epoch)>>)
    \o SetToSeq({Lock(k) : k \in live.locks})
    \o SetToSeq({Frame(f) : f \in live.pending})
    \o SetToSeq({Witnessed(a, live.witnessed[a]) :
                    a \in {a \in Authors : live.witnessed[a] # None}})

\* The live state as compaction writes it down, in the order of the code.
CompactedEntries ==
    <<Sequence(live.next_sequence)>>
    \o (IF live.epoch = None THEN <<>> ELSE <<Epoch(live.epoch)>>)
    \o SetToSeq({Seen(s, live.seen[s]) : s \in {s \in Senders : live.seen[s] # None}})
    \o SetToSeq({Lock(k) : k \in live.locks})
    \o SetToSeq({Frame(f) : f \in live.pending})
    \o SetToSeq({Witnessed(a, live.witnessed[a]) :
                    a \in {a \in Authors : live.witnessed[a] # None}})

Compacting ==
    /\ phase = "settled"
    /\ Large
    /\ ~Sweeping
    /\ job.op # "open_with_entropy"

\* Write the sibling file, flush it, rename it over the log.  Until the rename
\* nothing names the sibling, so a crash before it is a crash before this step.
compact_rename ==
    /\ Compacting
    /\ \E fresh \in Inodes \ (dirOnDisk \cup {dir, handle}) :
        /\ \A i \in Inodes \ (dirOnDisk \cup {dir, handle}) : fresh <= i
        /\ files' = [files EXCEPT ![fresh] =
                        [recs |-> CompactedEntries, synced |-> Len(CompactedEntries)]]
        /\ dir' = fresh
        /\ dirOnDisk' = dirOnDisk \cup {fresh}
    /\ phase' = "renamed"
    /\ UNCHANGED <<handle, live, size, job, crashes, faults, client>>

\* Mutant: the rename is not flushed before the old file is let go.
compact_reopen_unflushed ==
    /\ phase = "renamed"
    /\ handle' = dir
    /\ size' = Len(files[dir].recs)
    /\ Return
    /\ UNCHANGED <<files, dir, dirOnDisk, live, crashes, faults>>

\* Flush the directory, reopen the path, seek to its end.
compact_reopen ==
    /\ phase = "renamed"
    /\ dirOnDisk' = {dir}
    /\ handle' = dir
    /\ files' = Keep(files, {dir})
    /\ size' = Len(files[dir].recs)
    /\ Return
    /\ UNCHANGED <<dir, live, crashes, faults>>

\* Compaction fails; the mutator succeeds all the same, since its record is
\* already durable in the log the handle is on.
compact_fails ==
    /\ \/ /\ Compacting
          /\ Fault("no-rewrite")
          /\ UNCHANGED dirOnDisk
       \/ /\ phase = "renamed"
          /\ Fault("no-dir-sync")
          /\ UNCHANGED dirOnDisk
       \/ /\ phase = "renamed"
          /\ Fault("no-reopen")
          /\ dirOnDisk' = {dir}
    /\ Return
    /\ files' = Keep(files, dirOnDisk' \cup {dir, handle})
    /\ UNCHANGED <<dir, handle, live, size, crashes>>

----------------------------------------------------------------------------
(* Crashes.                                                                *)

Crashed ==
    /\ phase # "down"
    /\ crashes < MaxCrashes
    /\ crashes' = crashes + 1
    /\ phase' = "down"
    /\ job' = NoJob
    /\ live' = EmptyState
    /\ size' = 0
    /\ inHand' = {}
    /\ handle' = dir'
    /\ UNCHANGED <<faults, handed, votes, acknowledged, asked, exposed>>

\* The process is killed: everything it wrote is still in the files.
Kill ==
    /\ "kill" \in CrashKinds
    /\ files' = Keep(files, dirOnDisk)
    /\ UNCHANGED <<dir, dirOnDisk>>
    /\ Crashed

\* What a power cut may leave of a file: every flushed record, some of the
\* rest in order, and perhaps part of the next one.
Survivors(file) ==
    UNION {LET kept == SubSeq(file.recs, 1, n)
           IN  {kept} \cup IF n < Len(file.recs) THEN {Append(kept, Torn)} ELSE {}
             : n \in file.synced .. Len(file.recs)}

PowerCut ==
    /\ "power" \in CrashKinds
    /\ \E i \in dirOnDisk, recs \in UNION {Survivors(files[j]) : j \in dirOnDisk} :
        /\ recs \in Survivors(files[i])
        /\ dir' = i
        /\ dirOnDisk' = {i}
        /\ files' = Keep([files EXCEPT ![i] = [recs |-> recs, synced |-> Len(recs)]], {i})
    /\ Crashed

----------------------------------------------------------------------------

Next ==
    \/ Open
    \/ \E key \in Keys, sequence \in inHand, expires_at \in Expiries :
            commit_vote(key, sequence, expires_at)
    \/ reserve_sequence
    \/ \E f \in live.pending : acknowledge(f.sequence)
    \/ \E now \in Times : drop_expired(now)
    \/ sweep_next
    \/ \E author \in Authors, frame \in 0 .. MaxSequence : witness(author, frame)
    \/ \E epoch \in Epochs : enter_epoch(epoch)
    \/ \E sender \in Senders, sequence \in 0 .. MaxSequence : mark_seen(sender, sequence)
    \/ pending
    \/ compact_now
    \/ write_all
    \/ write_fails
    \/ sync_all
    \/ sync_fails
    \/ return_without_compacting
    \/ compact_rename
    \/ compact_reopen
    \/ compact_fails
    \/ Kill
    \/ PowerCut

Spec == Init /\ [][Next]_vars

----------------------------------------------------------------------------
(* Properties.                                                             *)

\* The states a restart may find if the machine dies now.
Recoveries == {replay(recs) : recs \in UNION {Survivors(files[i]) : i \in dirOnDisk}}

\* "A caller that gets Ok may put the frame on the air" (log.rs): whatever the
\* instant of the next crash and whatever of the unflushed data it spares, the
\* reopened log is past every sequence handed out, holds the lock of every
\* vote that was committed, keeps its frame until it is to be acknowledged, and does not
\* bring back one that was.
EveryCrashKeepsPromises ==
    \A found \in Recoveries :
        /\ \A n \in DOMAIN handed : handed[n] < found.next_sequence
        /\ \A f \in votes :
            /\ f.vote \in found.locks
            /\ f \in found.pending \/ f.sequence \in asked
        /\ \A f \in found.pending : f.sequence \notin acknowledged

\* Between two mutators the state in memory is the one a replay of the log
\* would rebuild: the update each mutator makes by hand, the record it wrote
\* and what compaction kept of it agree.
LiveMatchesLog ==
    phase = "idle" => live = replay(files[dir].recs)

\* Any records at all, whether or not a journal would write them in that order.
AnyRecord ==
    LET numbers == 0 .. MaxSequence
        frames == {OutgoingFrame(n, k, {}) : n \in numbers, k \in Keys}
    IN  {Torn}
        \cup {Vote(f.vote, f) : f \in frames} \cup {Frame(f) : f \in frames}
        \cup {Lock(k) : k \in Keys}
        \cup {Sequence(n) : n \in numbers} \cup {Retired(n) : n \in numbers}
        \cup {Epoch(e) : e \in Epochs}
        \cup {Seen(s, n) : s \in Senders, n \in numbers}
        \cup {Witnessed(a, n) : a \in Authors, n \in numbers}

\* The loop of replay(): after its k-th turn, the state built so far and how many
\* records were good.  It does not go on past the first one that is not whole.
ReadLoop(recs) ==
    LET read[k \in 0 .. Len(recs)] ==
            IF k = 0 THEN [state |-> EmptyState, at |-> 0]
            ELSE LET before == read[k - 1]
                 IN  IF before.at = k - 1 /\ recs[k] # Torn
                     THEN [state |-> apply(before.state, recs[k]), at |-> k]
                     ELSE before
    IN  read

\* replay() applies one record after the other (State::apply); what it returns
\* is the closed form used here, for every log of up to three records: epochs
\* that go back, a frame retired before it is written or written again
\* afterwards, a second witness, a damaged record before whole ones.  Looked at
\* once, before anything has happened.
ReplayIsFold ==
    (phase = "down" /\ crashes = 0 /\ files[dir].recs = <<>>) =>
        \A recs \in BoundedSeq(AnyRecord, 3) :
            ReadLoop(recs)[Len(recs)] = [state |-> replay(recs), at |-> Len(Whole(recs))]

\* "A vote lock is taken before its frame is exposed for transmission"
\* (journal.rs), so that a member never votes a second time while its first
\* vote is on the air: no caller of pending(), over all lives, is ever given
\* two different frames for one vote.
OneFramePerVote ==
    \A f, g \in exposed : f.vote = g.vote => f = g

\* The log implements the abstract journal: seen from its caller, every mutator
\* is atomic and durable, whatever the crashes.
AbstractCall ==
    IF job.entry = <<>> THEN [op |-> "none"]
    ELSE [op |-> job.op, entry |-> job.entry[1]]

AbstractState == IF phase = "down" THEN replay(files[dir].recs) ELSE live

AbstractDone == job.entry # <<>> /\ phase \in {"settled", "renamed"}

J == INSTANCE Journal WITH
        state <- AbstractState,
        call  <- AbstractCall,
        done  <- AbstractDone

ImplementsJournal == J!Spec

----------------------------------------------------------------------------
(* The inductive invariant behind them, for a file system whose writes are *)
(* whole or refused: whatever the kills, the power cuts, the failed        *)
(* flushes and the failed rewrites.                                        *)

Mutators == {"open_with_entropy", "commit_vote", "reserve_sequence", "acknowledge",
             "drop_expired", "witness", "enter_epoch", "mark_seen"}

LogTypes ==
    /\ files \in [Inodes -> [recs : Seq(Entry \cup {Torn}), synced : Nat]]
    /\ dir \in Inodes /\ handle \in Inodes /\ dirOnDisk \subseteq Inodes
    /\ phase \in {"down", "idle", "sweep", "append", "written", "settled", "renamed"}
    /\ job \in [op : Mutators \cup {"none", "compact"}, entry : Seq(Entry), todo : SUBSET Nat]
    /\ IsFiniteSet(job.todo)
    /\ handed \in Seq(Nat) /\ inHand \subseteq Nat /\ votes \subseteq Frames
    /\ acknowledged \subseteq Nat /\ asked \subseteq Nat

Sound(file) == file.recs \in Seq(Entry) /\ file.synced \in 0 .. Len(file.recs)

\* What a power cut in the middle of a record leaves.
Damaged(file) ==
    /\ file.recs # <<>>
    /\ file.recs[Len(file.recs)] = Torn
    /\ SubSeq(file.recs, 1, Len(file.recs) - 1) \in Seq(Entry)
    /\ file.synced = Len(file.recs)

\* Appends go to the file the path names, except between the rename and the
\* reopening; until then either file may be found.
Placed ==
    /\ dir \in dirOnDisk
    /\ phase \notin {"down", "renamed"} => handle = dir /\ dirOnDisk = {dir}
    /\ phase = "renamed" => handle # dir /\ dirOnDisk = {handle, dir}
    /\ \A i \in dirOnDisk : Sound(files[i]) \/ (phase = "down" /\ i = dir /\ Damaged(files[i]))

\* The states a log can amount to: the outbox is finite, holds one frame per
\* sequence, and the counter is past them all.
Well(state) ==
    /\ state \in State
    /\ IsFiniteSet(state.pending)
    /\ \A f \in state.pending : f.sequence < state.next_sequence
    /\ \A f, g \in state.pending : f.sequence = g.sequence => f = g

\* What every state a restart may find has to keep.
Keeps(found) ==
    /\ \A n \in DOMAIN handed : handed[n] < found.next_sequence
    /\ \A f \in votes :
        /\ f.vote \in found.locks
        /\ f \in found.pending \/ f.sequence \in asked
        /\ f.sequence < found.next_sequence
    /\ \A f \in found.pending : f.sequence \notin acknowledged
    /\ \A n \in acknowledged : n < found.next_sequence

\* What the mutator in progress is about to tell its caller.
Shows(found) ==
    /\ live.next_sequence <= found.next_sequence
    /\ job.op = "commit_vote" =>
        /\ job.entry[1].key \in found.locks
        /\ job.entry[1].frame \in found.pending
    /\ job.op = "acknowledge" =>
        \A f \in found.pending : f.sequence # job.entry[1].sequence

\* Memory is written down whole by a compaction and may lack what a failed
\* flush left in the log, so it keeps the promises by itself; a record that is
\* flushed is the last of its log, whatever came before it.
Tracks ==
    /\ phase # "down" =>
        /\ Well(live) /\ Keeps(live)
        /\ live.next_sequence <= Replayed(files[handle].recs).next_sequence
    /\ phase = "written" =>
        LET recs == files[handle].recs
        IN  files[handle].synced < Len(recs) /\ job.entry = <<recs[Len(recs)]>>
    /\ phase = "renamed" =>
        /\ files[dir].synced = Len(files[dir].recs)
        /\ live = Replayed(files[dir].recs)
    /\ phase \in {"settled", "renamed"} /\ job.entry # <<>> =>
        /\ \A i \in dirOnDisk : files[i].synced = Len(files[i].recs)
        /\ Shows(Replayed(files[handle].recs))

\* The record of the mutator in progress, and what let the code write it.
Called(e) ==
    \/ /\ job.op = "open_with_entropy"
       /\ e \in [kind : {"Sequence"}, next : Nat]
       /\ live.next_sequence = 0
       /\ inHand = {}
    \/ /\ job.op = "reserve_sequence"
       /\ e = Sequence(live.next_sequence + 1)
    \/ /\ job.op = "commit_vote"
       /\ e \in [kind : {"Vote"}, key : Keys, frame : Frames]
       /\ e.frame.vote = e.key
       /\ e.frame.sequence \in inHand
       /\ e.key \notin live.locks
    \/ /\ job.op \in {"acknowledge", "drop_expired"}
       /\ e \in [kind : {"Retired"}, sequence : asked]
       /\ e.sequence < live.next_sequence
       /\ e.sequence \notin inHand
    \/ /\ job.op = "witness"
       /\ e \in [kind : {"Witnessed"}, author : Authors, bytes : Nat]
       /\ live.witnessed[e.author] = None
    \/ /\ job.op = "enter_epoch"
       /\ e \in [kind : {"Epoch"}, epoch : Epochs]
       /\ live.epoch < e.epoch
    \/ /\ job.op = "mark_seen"
       /\ e \in [kind : {"Seen"}, sender : Senders, sequence : Nat]
       /\ live.seen[e.sender] < e.sequence

\* The same once it is durable and memory follows it.
Effected(e) ==
    /\ job.op = "reserve_sequence" =>
        /\ e \in [kind : {"Sequence"}, next : Nat \ {0}]
        /\ e.next = live.next_sequence
        /\ \A n \in DOMAIN handed : handed[n] < e.next - 1
        /\ \A n \in acknowledged : n < e.next - 1
        /\ \A f \in votes \cup live.pending : f.sequence < e.next - 1
    /\ job.op = "commit_vote" =>
        /\ e \in [kind : {"Vote"}, key : Keys, frame : Frames]
        /\ e.frame.vote = e.key
        /\ e.frame.sequence \in inHand
        /\ e.frame \in live.pending
        /\ e.key \in live.locks
        /\ \A f \in votes : f.vote # e.key
    /\ job.op = "acknowledge" =>
        /\ e \in [kind : {"Retired"}, sequence : Nat]
        /\ e.sequence < live.next_sequence
        /\ e.sequence \notin inHand
        /\ \A f \in live.pending : f.sequence # e.sequence

JobMatches ==
    /\ phase \in {"down", "idle"} => job = NoJob
    /\ phase = "sweep" => job.op = "drop_expired" /\ job.entry = <<>>
    /\ phase \in {"append", "written"} => Len(job.entry) = 1 /\ Called(job.entry[1])
    /\ phase \in {"settled", "renamed"} =>
        IF job.entry = <<>> THEN job.op \in {"compact", "drop_expired"}
        ELSE Len(job.entry) = 1 /\ job.op \in Mutators /\ Effected(job.entry[1])
    /\ job.op = "drop_expired" \/ job.todo = {}
    /\ \A n \in job.todo : n < live.next_sequence /\ n \notin inHand

\* A sequence in hand is in no frame but the one being committed under it.
InHandFresh ==
    /\ phase = "down" => inHand = {}
    /\ \A n \in inHand :
        /\ n < live.next_sequence
        /\ n \notin acknowledged
        /\ \A f \in votes : f.sequence # n
        /\ \A f \in live.pending :
              f.sequence = n => /\ phase \in {"settled", "renamed"}
                                /\ job.op = "commit_vote"
                                /\ job.entry[1].frame = f

LogInv ==
    /\ LogTypes
    /\ Placed
    /\ Tracks
    /\ \A found \in Recoveries : Keeps(found)
    /\ JobMatches
    /\ InHandFresh
    /\ \A i, j \in DOMAIN handed : i < j => handed[i] < handed[j]
    /\ OneVotePerCase

\* Where no flush fails, memory is what the log amounts to, without the record
\* being flushed.
Agrees ==
    /\ phase = "written" =>
        LET recs == files[handle].recs
        IN  live = Replayed(SubSeq(recs, 1, Len(recs) - 1))
    /\ phase \notin {"down", "written"} => live = Replayed(files[handle].recs)

\* Where only power cuts crash the process, nothing but the record being
\* written is ever unflushed.
Flushed ==
    /\ phase # "written" => \A i \in dirOnDisk : files[i].synced = Len(files[i].recs)
    /\ phase = "written" => files[handle].synced = Len(files[handle].recs) - 1
    /\ phase = "down" => dirOnDisk = {dir}

\* What a sweep has left to retire is in the outbox, and expires.
Due ==
    /\ \A n \in job.todo : \E f \in live.pending : f.sequence = n /\ f.expires_at # {}
    /\ phase \in {"append", "written"} /\ job.op = "drop_expired" =>
        job.entry[1].sequence \notin job.todo

=============================================================================
