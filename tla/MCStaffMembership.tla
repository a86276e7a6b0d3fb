-------------------------- MODULE MCStaffMembership --------------------------
(* StaffMembership with two requests and a few invitations.                 *)
EXTENDS StaffMembership, TLC

MembershipSymmetry ==
    Permutations(Requests) \cup Permutations(InvitationIds)
        \cup Permutations(Tokens) \cup Permutations(Passwords)

\* Left out: a deactivation takes the steps of an activation and leaves the
\* other status, and with both the graph is three times as large.
CheckedUseCases == UseCases \ {"deactivate"}
=============================================================================
