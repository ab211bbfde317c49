---------------------------- MODULE Provisioning ----------------------------
(***************************************************************************)
(* From a manifest to a policy: an administrator writes and signs files    *)
(* (src/src/bin/lcq-manifest.rs), the files are edited on their way, and a *)
(* vessel starts from whatever it finds (provision and main in             *)
(* src/src/bin/lcq-node.rs), counting supporters under the policy of the   *)
(* file (module Tally).  A vessel reads the file once, so edits while it   *)
(* runs change nothing and are left out.                                   *)
(***************************************************************************)
EXTENDS Tally, Manifest

CONSTANTS
    Drafts,       \* files an administrator starts from
    Replacements, \* lines an edit may put in place of one with the same directive
    Admins,       \* keys that sign
    Trusted,      \* the administration key the vessel holds
    Vessel,       \* [index, key] of the device
    Clock,        \* what the vessel's clock may say, in seconds
    MaxEdits      \* bound on edits

ASSUME ProvisioningConstants ==
    /\ Trusted \in Admins
    /\ MaxEdits \in Nat
    /\ \A draft \in Drafts : draft \in Seq(Range(draft))

\* A fault budget that parses is a u32.
ASSUME BudgetsParse ==
    \A line \in Replacements \cup UNION {Range(draft) : draft \in Drafts} :
        line.word = "byzantine-bps" => line.value \in Nat

\* Ed25519 (external): who does not hold the trusted key makes no signature of
\* it, so none is in what is written by hand.
ASSUME Unforged ==
    \A line \in Replacements \cup UNION {Range(draft) : draft \in Drafts} :
        line.word = "signature" => line.by # Trusted

VARIABLES
    file,        \* the lines of the manifest file
    edits,       \* edits made so far
    authorised,  \* the canonical forms the trusted key has signed
    fresh,       \* the key that signed the file, if it was not edited since
    epoch,       \* the epoch in the vessel's journal, or 0
    running      \* the canonical form the vessel runs under, if any

manifestVars == <<file, edits, authorised, fresh, epoch, running>>
provisioningVars == <<vars, manifestVars>>

ProvisioningInit ==
    /\ Init
    /\ file \in Drafts
    /\ edits = 0
    /\ authorised = {}
    /\ fresh = {}
    /\ epoch = 0
    /\ running = {}

----------------------------------------------------------------------------
(* The file.                                                               *)

\* Somebody edits a line: removes it, repeats it, moves it, rewrites it.
Edit(i) ==
    /\ policy = NoPolicy
    /\ edits < MaxEdits
    /\ edits' = edits + 1
    /\ \/ file' = RemoveAt(file, i)
       \/ file' = InsertAt(file, i, file[i])
       \/ i > 1 /\ file' = [file EXCEPT ![i] = file[i - 1], ![i - 1] = file[i]]
       \/ \E line \in Replacements :
            /\ line.word = file[i].word
            /\ file' = [file EXCEPT ![i] = line]
    /\ fresh' = {}
    /\ UNCHANGED <<vars, authorised, epoch, running>>

\* lcq-manifest sign
sign(admin) ==
    /\ policy = NoPolicy
    /\ sign_text_ok(file)
    /\ file' = sign_text(file, admin)
    /\ authorised' = IF admin = Trusted THEN authorised \cup {canonical(file)} ELSE authorised
    /\ fresh' = {admin}
    /\ UNCHANGED <<vars, edits, epoch, running>>

----------------------------------------------------------------------------
(* The vessel.                                                             *)

\* What provision and main require of a file before the node runs under it.
accepts(now) ==
    /\ parse_ok(file)
    /\ verify(file, Trusted, now)
    /\ Vessel.index < Len(members(file))
    /\ members(file)[Vessel.index + 1].key = Vessel.key

\* "A journal is never reused under an older epoch"
not_rolled_back == field(file, "epoch") >= epoch

\* enter_epoch of the journal: the record is monotonic, so entering an older
\* epoch is a no-op, not a way to rewind.
enter_epoch(mission_epoch) ==
    epoch' = IF mission_epoch >= epoch THEN mission_epoch ELSE epoch

start(now) ==
    /\ policy = NoPolicy
    /\ accepts(now)
    /\ not_rolled_back
    /\ Provision(roster(file), field(file, "byzantine-bps"),
                 field(file, "max-competence-ratio"))
    /\ enter_epoch(field(file, "epoch"))
    /\ running' = {canonical(file)}
    /\ UNCHANGED <<file, edits, authorised, fresh>>

\* The process ends; the journal keeps the epoch.
stop ==
    /\ running # {}
    /\ running' = {}
    /\ policy' = NoPolicy
    /\ faulty' = {}
    /\ convinced' = {}
    /\ signers' = [o \in Observers |-> {}]
    /\ UNCHANGED <<file, edits, authorised, fresh, epoch>>

\* Observers count under the policy of the file, or of Direct.
Count ==
    /\ \E o \in Observers, id \in DOMAIN policy.competences : Endorse(o, id)
    /\ UNCHANGED manifestVars

\* A policy built from a list without a file, as the simulator builds its own.
\* Nothing was done with the file before, since nothing of it plays a part.
Direct ==
    /\ edits = 0 /\ fresh = {} /\ epoch = 0
    /\ \E list \in Manifests, bps \in Budgets, ratio \in Ratios :
            Provision(list, bps, ratio)
    /\ UNCHANGED manifestVars

ProvisioningNext ==
    \/ \E i \in DOMAIN file : Edit(i)
    \/ \E admin \in Admins : sign(admin)
    \/ \E now \in Clock : start(now)
    \/ stop
    \/ Count
    \/ Direct

ProvisioningSpec == ProvisioningInit /\ [][ProvisioningNext]_provisioningVars

----------------------------------------------------------------------------
(* Properties.                                                             *)

\* A file that was signed, and not edited since, is one that its nodes load
\* while its window is open: "signing something no node will load is a way to
\* hand an operator a file that bricks a fleet" (manifest.rs).
SignedIsLoadable ==
    \A admin \in fresh, now \in Clock :
        (field(file, "valid-from") <= now /\ now < field(file, "valid-until"))
            => parse_ok(file) /\ verify(file, admin, now)

\* A vessel runs only under a fleet its administrator signed, to the last
\* header and member, whatever was done to the file on its way, counts with
\* that fleet's budget, and no two of the members it counts hold one key.  Its
\* epoch is the latest it ever ran under, however often it was stopped, the
\* file replaced by an older one that was signed, and the vessel started again.
RunsWhatWasSigned ==
    \A form \in running :
        /\ form \in authorised
        /\ \A m, n \in DOMAIN form.members :
            form.members[m].key = form.members[n].key => m = n
        /\ form.headers["epoch"] = epoch
        /\ policy.byzantine_bps = form.headers["byzantine-bps"]
        /\ DOMAIN policy.competences = {form.members[n].id : n \in DOMAIN form.members}

----------------------------------------------------------------------------
(* The inductive invariants behind these two and those of Tally.           *)

\* What carries the trusted key's signature was signed with it.
Genuine(line) ==
    line.word = "signature" => (line.by = Trusted => line.form \in authorised)

SignedInv ==
    /\ file \in Seq(Range(file))
    /\ \A line \in Range(file) : Genuine(line)
    /\ running # {} => policy # NoPolicy
    /\ RunsWhatWasSigned

\* The file parses as long as it is as it was signed.
FreshInv ==
    \A admin \in fresh :
        /\ parse_ok(file)
        /\ \A i \in Lines(file, {"signature"}) : file[i] = signature(admin, canonical(file))

\* A fleet the file describes keeps to its budget, and the budget is a number.
BudgetInv ==
    /\ \A line \in Range(file) : line.word = "byzantine-bps" => line.value \in Nat
    /\ WithinBudget
=============================================================================
