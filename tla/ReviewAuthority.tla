-------------------------- MODULE ReviewAuthority --------------------------
(***************************************************************************)
(* What the review ledger of ONE review case promises, with no processes,  *)
(* no lock, no files and no crashes.  Decisions are numbered in the order  *)
(* in which they are recorded.  A whole-case decision replaces everything  *)
(* before it; a batch of child decisions adds to what is in force.  An     *)
(* approval may have an effect on the public catalogue only while it is    *)
(* in force.  ReviewHandoff is shown to implement this module.             *)
(***************************************************************************)
EXTENDS Integers

CONSTANT MaxDecisions       \* how many decisions one case receives (bound)

VARIABLES recorded,         \* number of decisions recorded so far
          inForce,          \* those no later whole-case decision has replaced
          approvals,        \* those that approve
          published         \* those whose revisions have a published page

ledger == <<recorded, inForce, approvals, published>>

Decided == 1..recorded

TypeOK ==
    /\ recorded \in 0..MaxDecisions
    /\ inForce \subseteq Decided
    /\ approvals \subseteq Decided
    /\ published \subseteq Decided

Init ==
    /\ recorded = 0
    /\ inForce = {}
    /\ approvals = {}
    /\ published = {}

(* A whole-case decision supersedes every earlier one. *)
Replace ==
    /\ recorded < MaxDecisions
    /\ recorded' = recorded + 1
    /\ inForce' = {recorded + 1}
    /\ approvals' \in {approvals, approvals \union {recorded + 1}}
    /\ UNCHANGED published

(* Child decisions of one request are added beside those in force. *)
Add ==
    /\ \E last \in (recorded + 1)..MaxDecisions :
         /\ recorded' = last
         /\ inForce' = inForce \union ((recorded + 1)..last)
         /\ \E more \in SUBSET ((recorded + 1)..last) :
              approvals' = approvals \union more
    /\ UNCHANGED published

(* An approval in force reaches the catalogue. *)
Publish ==
    /\ \E d \in inForce \intersect approvals :
         published' = published \union {d}
    /\ UNCHANGED <<recorded, inForce, approvals>>

Next == Replace \/ Add \/ Publish

Spec == Init /\ [][Next]_ledger

=============================================================================
