---------------------------- MODULE MemberParts -----------------------------
(***************************************************************************)
(* The three parts of a member that are automata of their own: the guard   *)
(* against replays, the queue of frames to carry and the airtime meter.    *)
(* One thread owns all three and none reads another's state (a frame the   *)
(* meter refuses is dropped, so the queue never sees it again), so every   *)
(* behaviour is a behaviour of one part with the others left alone.        *)
(***************************************************************************)
EXTENDS ReplayGuard, RadioQueue, AirtimeBudget

VARIABLE part

allVars == <<vars, queueVars, budgetVars, part>>

PartsInit ==
    /\ part \in {"guard", "queue", "meter"}
    /\ Init
    /\ QueueInit
    /\ BudgetInit

PartsNext ==
    /\ UNCHANGED part
    /\ \/ part = "guard" /\ Next /\ UNCHANGED <<queueVars, budgetVars>>
       \/ part = "queue" /\ QueueNext /\ UNCHANGED <<vars, budgetVars>>
       \/ part = "meter" /\ BudgetNext /\ UNCHANGED <<vars, queueVars>>

PartsSpec == PartsInit /\ [][PartsNext]_allVars
=============================================================================
