--------------------------- MODULE AirtimeBudget ----------------------------
(***************************************************************************)
(* A transmitter's airtime over a sliding window                           *)
(* (src/src/application/budget.rs), and the one place that spends it       *)
(* (transmit in src/src/bin/lcq-node.rs): a frame is charged before the    *)
(* radio is asked, and is dropped when the window has no room for it.      *)
(***************************************************************************)
EXTENDS Sums, FiniteSets, SequencesExt

CONSTANTS
    DUTY_CYCLE_BUDGET_MS,
    DUTY_CYCLE_WINDOW_MS,
    Priors,             \* airtime spent before the process started
    Airtimes,           \* what a frame may cost
    MaxTime             \* bound on protocol time

ASSUME BudgetConstants ==
    /\ DUTY_CYCLE_BUDGET_MS \in Nat /\ DUTY_CYCLE_WINDOW_MS \in Nat
    /\ Priors \subseteq 0 .. DUTY_CYCLE_BUDGET_MS
    /\ Airtimes \subseteq Nat \ {0}
    /\ MaxTime \in Nat

VARIABLES
    now_ms,     \* protocol time since the process started
    sent,       \* <<at, airtime>> of what is still in the window, oldest first
    total_ms,
    onAir       \* <<at, airtime>> of every frame charged and handed to the radio

budgetVars == <<now_ms, sent, total_ms, onAir>>

\* with_prior
BudgetInit ==
    \E prior_ms \in Priors :
        /\ now_ms = 0
        /\ sent = IF prior_ms > 0 THEN <<<<0, prior_ms>>>> ELSE <<>>
        /\ total_ms = prior_ms
        /\ onAir = sent

\* Mutant: a frame leaves the window one instant early.
Evicted_early(entry) == entry[1] <= now_ms - DUTY_CYCLE_WINDOW_MS

\* now_ms.saturating_sub(DUTY_CYCLE_WINDOW_MS) is 0 where this is negative, and
\* no frame was sent before 0.
Evicted(entry) == entry[1] < now_ms - DUTY_CYCLE_WINDOW_MS

\* evict: from the front, up to the first frame still in the window.
Kept ==
    LET inside == {i \in DOMAIN sent : ~Evicted(sent[i])}
    IN  IF inside = {} THEN <<>> ELSE SubSeq(sent, Min(inside), Len(sent))

Airtime(entries) == Total([i \in DOMAIN entries |-> entries[i][2]])

\* What evict leaves of total_ms, which it counts down frame by frame.
Remaining ==
    LET out == Airtime(SubSeq(sent, 1, Len(sent) - Len(Kept)))
    IN  IF total_ms > out THEN total_ms - out ELSE 0

duty_cycle_ok(used_ms, next_ms) == used_ms + next_ms <= DUTY_CYCLE_BUDGET_MS

\* transmit: allowed, charged, and given to the radio.  The radio may refuse
\* it; the charge stands.
transmit_allowed(air_ms) ==
    /\ duty_cycle_ok(Remaining, air_ms)
    /\ sent' = Append(Kept, <<now_ms, air_ms>>)
    /\ total_ms' = Remaining + air_ms
    /\ \/ onAir' = Append(onAir, <<now_ms, air_ms>>)
       \/ onAir' = onAir
    /\ UNCHANGED now_ms

\* duty_blocked: the frame is dropped, and the window has been evicted.
transmit_blocked(air_ms) ==
    /\ ~duty_cycle_ok(Remaining, air_ms)
    /\ sent' = Kept
    /\ total_ms' = Remaining
    /\ UNCHANGED <<now_ms, onAir>>

\* used_ms(), for the report at the end.
used_ms ==
    /\ sent' = Kept
    /\ total_ms' = Remaining
    /\ UNCHANGED <<now_ms, onAir>>

Elapse ==
    /\ now_ms < MaxTime
    /\ now_ms' = now_ms + 1
    /\ UNCHANGED <<sent, total_ms, onAir>>

BudgetNext ==
    \/ \E air_ms \in Airtimes : transmit_allowed(air_ms) \/ transmit_blocked(air_ms)
    \/ used_ms
    \/ Elapse

----------------------------------------------------------------------------
(* Properties.                                                             *)

\* What the frames sent from one instant to another take.
Within(entries, from, until) ==
    Total([i \in DOMAIN entries |-> IF entries[i][1] >= from /\ entries[i][1] <= until
                                   THEN entries[i][2] ELSE 0])

\* "36 s of transmission in any 3600 s" (budget.rs): in every window, not only
\* the last one, the frames this process started take no more than the budget,
\* the airtime it was told of at its start included.
DutyCycle ==
    \A from \in 0 .. now_ms :
        Within(onAir, from, from + DUTY_CYCLE_WINDOW_MS) <= DUTY_CYCLE_BUDGET_MS

----------------------------------------------------------------------------
(* The inductive invariant.                                                *)

\* The meter has every frame of a window that has not passed, and what it has
\* fits the budget: nothing leaves it while a window may still count it.
Metered ==
    /\ now_ms \in 0 .. MaxTime
    /\ sent \in Seq(Nat \X Nat) /\ onAir \in Seq(Nat \X Nat)
    /\ total_ms = Airtime(sent)
    /\ total_ms <= DUTY_CYCLE_BUDGET_MS
    /\ \A from \in 0 .. MaxTime : from >= now_ms - DUTY_CYCLE_WINDOW_MS =>
           Within(onAir, from, from + DUTY_CYCLE_WINDOW_MS)
               <= Within(sent, from, from + DUTY_CYCLE_WINDOW_MS)
    /\ DutyCycle
=============================================================================
