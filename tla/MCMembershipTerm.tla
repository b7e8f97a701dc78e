--------------------------- MODULE MCMembershipTerm ---------------------------
(* Instances of MembershipTerm small enough for TLC. *)
EXTENDS MembershipTerm

MCMembers == 1 .. 2
MCEnrolled == {1}
MCPlans == {"silver", "gold"}
MCTerm == [p \in MCPlans |-> IF p = "silver" THEN 1 ELSE 2]
MCSymmetry == Permutations(Fees) \union Permutations(Workers)
=============================================================================
