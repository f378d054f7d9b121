--------------------------- MODULE Authorization ---------------------------
(***************************************************************************)
(* What approval of an exact candidate promises, without the forge, the    *)
(* configuration, the processes or the crashes: permission to merge is     *)
(* given to one candidate, is withdrawn before the candidate changes, and  *)
(* stands whenever the broker has a merge queued or records one.  Approval *)
(* implements it.                                                          *)
(***************************************************************************)
EXTENDS Naturals

CONSTANT Candidate   \* candidate revisions; 0 stands for an untracked batch

VARIABLES
    candidate,  \* the revision now under review
    permit,     \* "none", "given" (recorded) or "valid" (confirmed with the forge)
    queued,     \* a merge of it queued by the broker is live
    landed      \* the merge is on record

vars == <<candidate, permit, queued, landed>>

Init ==
    /\ candidate \in Candidate \cup {0}
    /\ permit = "none"
    /\ queued = FALSE
    /\ landed = FALSE

Give == /\ permit = "none" /\ candidate # 0 /\ ~landed
        /\ permit' = "given"
        /\ UNCHANGED <<candidate, queued, landed>>

\* A new approval replaces one whose withdrawal was under way.
GiveAgain == /\ permit = "valid" /\ ~landed
             /\ permit' = "given"
             /\ UNCHANGED <<candidate, queued, landed>>

Confirm == /\ permit = "given"
           /\ permit' = "valid"
           /\ UNCHANGED <<candidate, queued, landed>>

\* Only once nothing is queued any more.
Withdraw == /\ permit # "none" /\ ~queued /\ ~landed
            /\ permit' = "none"
            /\ UNCHANGED <<candidate, queued, landed>>

Queue == /\ permit = "valid" \/ candidate = 0
         /\ ~landed
         /\ queued' = TRUE
         /\ UNCHANGED <<candidate, permit, landed>>

\* The forge merged, somebody cancelled, or the broker turned the queue off.
Unqueue == /\ queued
           /\ queued' = FALSE
           /\ UNCHANGED <<candidate, permit, landed>>

\* The candidate is replaced by a later one, which nobody has approved.
Replace == /\ permit = "none" /\ ~queued /\ ~landed
           /\ \E c \in Candidate : c > candidate /\ candidate' = c
           /\ UNCHANGED <<permit, queued, landed>>

Land == /\ permit = "valid" \/ candidate = 0
        /\ ~queued
        /\ landed' = TRUE
        /\ UNCHANGED <<candidate, permit, queued>>

Next == Give \/ GiveAgain \/ Confirm \/ Withdraw \/ Queue \/ Unqueue \/ Replace \/ Land

Spec == Init /\ [][Next]_vars
=============================================================================
