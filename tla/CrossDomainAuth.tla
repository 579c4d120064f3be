---------------------------- MODULE CrossDomainAuth ----------------------------
(***************************************************************************)
(* What a cross-domain authentication promises, whatever chains it reads.  *)
(* Conditions on several chains become true and false at any time.  The    *)
(* check looks at each of them at a moment of its own, so it can promise   *)
(* no common moment: it accepts only if every condition held at some       *)
(* moment of the check, and the accepted result is recorded only after     *)
(* that.  A condition that failed throughout the check prevents both.      *)
(***************************************************************************)
CONSTANT Conditions

VARIABLES
    decision, \* what the check came to
    facts,    \* the conditions that hold now
    seen,     \* those that held at some moment of the check
    recorded  \* an accepted result was stored on the target chain

vars == <<decision, facts, seen, recorded>>

Init ==
    /\ decision = "none"
    /\ facts \in SUBSET Conditions
    /\ seen = {}
    /\ recorded = FALSE

Start ==
    /\ decision = "none" /\ decision' = "checking"
    /\ seen' = facts
    /\ UNCHANGED <<facts, recorded>>

\* A transaction on one of the chains.
Change ==
    /\ facts' \in SUBSET Conditions
    /\ seen' = IF decision = "checking" THEN seen \cup facts' ELSE seen
    /\ UNCHANGED <<decision, recorded>>

Accept ==
    /\ decision = "checking" /\ decision' = "accepted"
    /\ Conditions \subseteq seen
    /\ UNCHANGED <<facts, seen, recorded>>

\* The conditions were not met, or the check broke down.
Refuse ==
    /\ decision \in {"none", "checking"} /\ decision' = "refused"
    /\ UNCHANGED <<facts, seen, recorded>>

Record ==
    /\ decision = "accepted"
    /\ recorded' = TRUE
    /\ UNCHANGED <<decision, facts, seen>>

Next == Start \/ Change \/ Accept \/ Refuse \/ Record

Spec == Init /\ [][Next]_vars
===============================================================================
