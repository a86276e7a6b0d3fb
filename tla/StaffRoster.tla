----------------------------- MODULE StaffRoster -----------------------------
(***************************************************************************)
(* Who works at a restaurant, as its owner may think of it: for one e-mail *)
(* address, what was offered by invitation, whether the person is a        *)
(* member, and the password of the account.  Everything happens at one     *)
(* instant; how an invitation is kept, and its links, are not visible.     *)
(***************************************************************************)
CONSTANTS InvitationIds, Passwords, NoPassword

VARIABLES
    offer,       \* the state of each invitation
    member,      \* the membership: its status, and whether it was ever left
    password     \* the password of the account, which other restaurants share

rosterVars == <<offer, member, password>>

\* A link at the last instant of its validity ("closing") can still be used,
\* but no longer keeps a new invitation from being sent.
Usable == {"open", "closing"}
Offers == Usable \cup {"unused", "lapsed", "accepted", "revoked"}

NoMember == [status |-> "NONE", left |-> FALSE]

\* What becomes of an offer when time passes.
Older(o) == CASE o = "open"    -> {"open", "closing", "lapsed"}
              [] o = "closing" -> {"lapsed"}
              [] OTHER         -> {o}

Invite(i) ==
    /\ offer[i] = "unused"
    /\ \A j \in InvitationIds : offer[j] # "open"
    /\ member.status # "ACTIVE"
    /\ offer' = [offer EXCEPT ![i] = "open"]
    /\ UNCHANGED <<member, password>>

Renew(i) ==
    /\ offer[i] \notin {"unused", "accepted"}
    /\ member = NoMember
    /\ offer' = [offer EXCEPT ![i] = "open"]
    /\ UNCHANGED <<member, password>>

Revoke(i) ==
    /\ offer[i] # "unused"
    /\ offer' = [offer EXCEPT ![i] = "revoked"]
    /\ UNCHANGED <<member, password>>

\* An account that exists keeps its password.
Join(i) ==
    /\ offer[i] \in Usable
    /\ member.status # "ACTIVE"
    /\ offer' = [offer EXCEPT ![i] = "accepted"]
    /\ member' = [status |-> "ACTIVE", left |-> FALSE]
    /\ IF password = NoPassword THEN password' \in Passwords
                                ELSE UNCHANGED password

Leave ==
    /\ member.status \notin {"NONE", "REMOVED"}
    /\ member' = [status |-> "REMOVED", left |-> TRUE]
    /\ UNCHANGED <<offer, password>>

SetStatus(s) ==
    /\ member.status \notin {"NONE", s}
    /\ member' = [member EXCEPT !.status = s]
    /\ UNCHANGED <<offer, password>>

ChangePassword ==
    /\ member.status = "ACTIVE"
    /\ password' \in Passwords
    /\ UNCHANGED <<offer, member>>

Pass ==
    /\ offer' \in [InvitationIds -> Offers]
    /\ \A i \in InvitationIds : offer'[i] \in Older(offer[i])
    /\ UNCHANGED <<member, password>>

RosterNext ==
    \/ \E i \in InvitationIds : Invite(i) \/ Renew(i) \/ Revoke(i) \/ Join(i)
    \/ Leave \/ SetStatus("ACTIVE") \/ SetStatus("INACTIVE")
    \/ ChangePassword \/ Pass
=============================================================================
