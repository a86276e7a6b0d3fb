--------------------------- MODULE StaffMembership ---------------------------
(***************************************************************************)
(* One e-mail address at one restaurant: its rows in "staff_invitations",  *)
(* its row in "restaurant_staff" and the password in "staff".  A request   *)
(* is a use case at the database call it waits for; it decides on the rows *)
(* it has read and later writes them whole, so that a write carries the    *)
(* columns of an old reading.  Links are known by their tokens: random,    *)
(* never the same twice.                                                   *)
(***************************************************************************)
EXTENDS Integers

CONSTANTS
    Requests,        \* HTTP requests in flight at the same time
    Offered,         \* the use cases that clients call
    InvitationIds,   \* keys of invitations
    Tokens,          \* tokens of links (their hashes, in the rows)
    Passwords,       \* hashes of passwords
    Ttl,             \* INVITATION_TOKEN_TTL_HOURS
    Horizon,         \* bound on the clock
    NoId, NoToken, NoPassword

VARIABLES
    invitation,      \* the rows of the invitations
    member,          \* the membership
    password,        \* the password of the account, NoPassword without account
    minted,          \* the tokens generated so far
    mailed,          \* the tokens whose mails were put in the e-mail queue
    clock,
    req              \* what each request does, and holds in memory

vars == <<invitation, member, password, minted, mailed, clock, req>>

InvitationStatuses == {"PENDING", "ACCEPTED", "EXPIRED", "REVOKED"}

NoInvitation == [status |-> "NONE", token |-> NoToken, expiresAt |-> 0]
Invitation == [status : InvitationStatuses, token : Tokens, expiresAt : Nat]
                \cup {NoInvitation}

\* left: left_at is set.
NoMember == [status |-> "NONE", left |-> FALSE]
Membership == [status : {"ACTIVE", "INACTIVE", "REMOVED"}, left : BOOLEAN]
                \cup {NoMember}

InvitationUseCases == {"invite", "resend", "revoke", "validate", "accept"}
OwnerUseCases == {"remove", "activate", "deactivate", "update"}
\* What members do themselves: "update" is also that of their own profile.
MemberUseCases == {"update", "reset"}
UseCases == InvitationUseCases \cup OwnerUseCases \cup MemberUseCases

\* The call a request waits for: a look-up of the membership, of pending or
\* of all invitations, of one invitation; or a write, or the queueing of the
\* mail.
Steps == {"staff", "pending", "older", "find",
          "save", "join", "mail", "remove", "status", "keep"}

\* id and row: the invitation and its row as read; new: as it is to be
\* written; member and password: as read.
Idle == [op |-> "none", step |-> "idle", id |-> NoId, row |-> NoInvitation,
         new |-> NoInvitation, member |-> NoMember, password |-> NoPassword]

Request == [op : UseCases \cup {"none"}, step : Steps \cup {"idle"},
            id : InvitationIds \cup {NoId},
            row : Invitation, new : Invitation, member : Membership,
            password : Passwords \cup {NoPassword}]

ASSUME MembershipAssumption ==
    /\ NoId \notin InvitationIds
    /\ NoToken \notin Tokens
    /\ NoPassword \notin Passwords
    /\ Ttl \in Nat \ {0}
    /\ Horizon \in Nat
    /\ Offered \subseteq UseCases

rowVars == <<invitation, member, password>>

-----------------------------------------------------------------------------
(* Requests arrive and end.                                                *)

FirstStep(o) == IF o \in {"revoke", "validate", "accept"} THEN "find" ELSE "staff"

Receive(r, o) ==
    /\ req[r] = Idle
    /\ o \in Offered
    /\ req' = [req EXCEPT ![r] = [Idle EXCEPT !.op = o, !.step = FirstStep(o)]]
    /\ UNCHANGED <<rowVars, minted, mailed, clock>>

\* A request ends without a write: what it read refuses it, there is nothing
\* to do, a call rejects, or the process stops.
End(r) ==
    /\ req[r] # Idle
    /\ req' = [req EXCEPT ![r] = Idle]
    /\ UNCHANGED <<rowVars, minted, mailed, clock>>

-----------------------------------------------------------------------------
(* Invitations: what is read.                                              *)

\* findPendingByEmailAndRestaurant: validity must end after now, ...
IsOpen(i) == invitation[i].status = "PENDING" /\ clock < invitation[i].expiresAt

\* ... whereas isExpired wants it to have ended before now.
IsExpired(row) == row.expiresAt < clock

\* Slip: links that carry the e-mail address in place of a random token.
AnyTokens == Tokens
FreshTokens == Tokens \ minted

\* The member as invite, resend and accept want it.
Invitable(o) == IF o = "resend" THEN member = NoMember
                                ELSE member.status # "ACTIVE"

FindMember(r) ==
    /\ req[r].step = "staff"
    /\ req[r].op \in {"invite", "resend", "accept"}
    /\ Invitable(req[r].op)
    /\ req' = [req EXCEPT ![r] =
                 [@ EXCEPT !.member = member,
                           !.step = IF req[r].op = "accept" THEN "join" ELSE "pending"]]
    /\ UNCHANGED <<rowVars, minted, mailed, clock>>

\* Slip: a link sent again with the token it had.
PrepareSameToken(r, i, t) ==
    /\ t \in FreshTokens
    /\ minted' = minted \cup {t}
    /\ req' = [req EXCEPT ![r] =
                 [@ EXCEPT !.id = i, !.row = invitation[i], !.step = "save",
                           !.new = [status |-> "PENDING",
                                    token |-> IF invitation[i] = NoInvitation
                                              THEN t ELSE invitation[i].token,
                                    expiresAt |-> clock + Ttl]]]
    /\ UNCHANGED <<rowVars, mailed, clock>>

\* The request r will save invitation i, now row i, with a new link.
Prepare(r, i, t) ==
    /\ t \in FreshTokens
    /\ minted' = minted \cup {t}
    /\ req' = [req EXCEPT ![r] =
                 [@ EXCEPT !.id = i, !.row = invitation[i], !.step = "save",
                           !.new = [status |-> "PENDING", token |-> t,
                                    expiresAt |-> clock + Ttl]]]
    /\ UNCHANGED <<rowVars, mailed, clock>>

\* invite: nothing may be open; ids are unique from the start.
PrepareInvitation(r, i, t) ==
    /\ req[r].step = "pending" /\ req[r].op = "invite"
    /\ \A j \in InvitationIds : ~IsOpen(j)
    /\ invitation[i] = NoInvitation
    /\ \A q \in Requests : req[q].id # i
    /\ Prepare(r, i, t)

\* resend: an open one if there is one,
RenewOpen(r, i, t) ==
    /\ req[r].step = "pending" /\ req[r].op = "resend"
    /\ IsOpen(i)
    /\ Prepare(r, i, t)

FindNoneOpen(r) ==
    /\ req[r].step = "pending" /\ req[r].op = "resend"
    /\ \A j \in InvitationIds : ~IsOpen(j)
    /\ req' = [req EXCEPT ![r] = [@ EXCEPT !.step = "older"]]
    /\ UNCHANGED <<rowVars, minted, mailed, clock>>

\* or else any that was not accepted.
RenewOlder(r, i, t) ==
    /\ req[r].step = "older"
    /\ invitation[i].status \notin {"NONE", "ACCEPTED"}
    /\ Prepare(r, i, t)

\* The request r will save invitation i, as read, with status s.
Mark(r, i, s, next) ==
    /\ req' = [req EXCEPT ![r] =
                 [@ EXCEPT !.id = i, !.row = invitation[i], !.step = next,
                           !.new = [invitation[i] EXCEPT !.status = s]]]
    /\ UNCHANGED <<rowVars, minted, mailed, clock>>

\* By id, or the pending one of the address: any is found.
FindRevoked(r, i) ==
    /\ req[r].step = "find" /\ req[r].op = "revoke"
    /\ invitation[i] # NoInvitation
    /\ Mark(r, i, "REVOKED", "save")

\* By token.  An expired invitation is marked by whoever meets it.
FindExpired(r, i) ==
    /\ req[r].step = "find" /\ req[r].op \in {"validate", "accept"}
    /\ invitation[i].status = "PENDING" /\ IsExpired(invitation[i])
    /\ Mark(r, i, "EXPIRED", "save")

FindAccepted(r, i) ==
    /\ req[r].step = "find" /\ req[r].op = "accept"
    /\ invitation[i].status = "PENDING" /\ ~IsExpired(invitation[i])
    /\ Mark(r, i, "ACCEPTED", "staff")

-----------------------------------------------------------------------------
(* Invitations: what is written.                                           *)

\* token_hash is unique: a write that breaks this fails (End).
KeyFree(i, row) ==
    \A j \in InvitationIds \ {i} : invitation[j].token # row.token

\* A new link is mailed after it is saved.
Save(r) ==
    LET q == req[r]
    IN  /\ q.step = "save"
        /\ KeyFree(q.id, q.new)
        /\ invitation' = [invitation EXCEPT ![q.id] = q.new]
        /\ req' = [req EXCEPT ![r] = IF q.op \in {"invite", "resend"}
                                     THEN [q EXCEPT !.step = "mail"] ELSE Idle]
        /\ UNCHANGED <<member, password, minted, mailed, clock>>

Mail(r) ==
    /\ req[r].step = "mail"
    /\ mailed' = mailed \cup {req[r].new.token}
    /\ req' = [req EXCEPT ![r] = Idle]
    /\ UNCHANGED <<rowVars, minted, clock>>

\* The membership as RestaurantStaff.create makes it, also for one who left.
Joined == [status |-> "ACTIVE", left |-> FALSE]

\* Slip: a password given with the acceptance replaces that of the account.
JoinWithPassword(r) ==
    LET q == req[r]
    IN  /\ q.step = "join"
        /\ KeyFree(q.id, q.new)
        /\ invitation' = [invitation EXCEPT ![q.id] = q.new]
        /\ member' = Joined
        /\ password' \in Passwords
        /\ req' = [req EXCEPT ![r] = Idle]
        /\ UNCHANGED <<minted, mailed, clock>>

\* The transaction of createStaffWithInvitation: the account is created, with
\* the password given, or kept; the membership and the invitation are written.
Join(r) ==
    LET q == req[r]
    IN  /\ q.step = "join"
        /\ KeyFree(q.id, q.new)
        /\ invitation' = [invitation EXCEPT ![q.id] = q.new]
        /\ member' = Joined
        /\ IF password = NoPassword THEN password' \in Passwords
                                    ELSE UNCHANGED password
        /\ req' = [req EXCEPT ![r] = Idle]
        /\ UNCHANGED <<minted, mailed, clock>>

-----------------------------------------------------------------------------
(* The membership.                                                         *)

CanBeRemoved(status) == status \notin {"NONE", "REMOVED"}

\* To the target; one who has it already is answered at once.  A member who
\* was removed is not told apart from one who was deactivated.
CanBeSetTo(target, status) == status \notin {"NONE", target}

CanBeUpdated(status) == status # "NONE"

CanReset(status) == status = "ACTIVE"

\* The status each use case asks of the member it has read.
Suits(o, status) ==
    CASE o = "remove"     -> CanBeRemoved(status)
      [] o = "activate"   -> CanBeSetTo("ACTIVE", status)
      [] o = "deactivate" -> CanBeSetTo("INACTIVE", status)
      [] o = "update"     -> CanBeUpdated(status)
      [] o = "reset"      -> CanReset(status)
      [] OTHER            -> FALSE

FindStaff(r) ==
    /\ req[r].step = "staff"
    /\ Suits(req[r].op, member.status)
    /\ req' = [req EXCEPT ![r] =
                 [@ EXCEPT !.member = member, !.password = password,
                           !.step = CASE req[r].op = "remove" -> "remove"
                                      [] req[r].op \in {"update", "reset"} -> "keep"
                                      [] OTHER -> "status"]]
    /\ UNCHANGED <<rowVars, minted, mailed, clock>>

\* Slip: a removal that leaves left_at alone.
RemoveStaffUndated(r) ==
    /\ req[r].step = "remove"
    /\ member' = [member EXCEPT !.status = "REMOVED"]
    /\ req' = [req EXCEPT ![r] = Idle]
    /\ UNCHANGED <<invitation, password, minted, mailed, clock>>

RemoveStaff(r) ==
    /\ req[r].step = "remove"
    /\ member' = [status |-> "REMOVED", left |-> TRUE]
    /\ req' = [req EXCEPT ![r] = Idle]
    /\ UNCHANGED <<invitation, password, minted, mailed, clock>>

\* updateStatus writes the status alone; the save that follows, all columns.
UpdateStatus(r) ==
    LET s == IF req[r].op = "activate" THEN "ACTIVE" ELSE "INACTIVE"
    IN  /\ req[r].step = "status"
        /\ member' = [member EXCEPT !.status = s]
        /\ req' = [req EXCEPT ![r] = [@ EXCEPT !.member.status = s, !.step = "keep"]]
        /\ UNCHANGED <<invitation, password, minted, mailed, clock>>

\* The names and the phone that updates change are left out; the membership
\* and the password are written back as read, or the password replaced.
SaveStaff(r) ==
    /\ req[r].step = "keep"
    /\ member' = req[r].member
    /\ IF req[r].op = "reset" THEN password' \in Passwords
                              ELSE password' = req[r].password
    /\ req' = [req EXCEPT ![r] = Idle]
    /\ UNCHANGED <<invitation, minted, mailed, clock>>

Tick ==
    /\ clock < Horizon
    /\ clock' = clock + 1
    /\ UNCHANGED <<rowVars, minted, mailed, req>>

-----------------------------------------------------------------------------
\* The person may have an account already, from another restaurant.
Init ==
    /\ invitation = [i \in InvitationIds |-> NoInvitation]
    /\ member = NoMember
    /\ password \in Passwords \cup {NoPassword}
    /\ minted = {}
    /\ mailed = {}
    /\ clock = 0
    /\ req = [r \in Requests |-> Idle]

InvitationStep(r) ==
    \/ FindMember(r) \/ FindNoneOpen(r) \/ Save(r) \/ Mail(r) \/ Join(r)
    \/ \E i \in InvitationIds :
          FindRevoked(r, i) \/ FindExpired(r, i) \/ FindAccepted(r, i)
    \/ \E i \in InvitationIds, t \in Tokens :
          PrepareInvitation(r, i, t) \/ RenewOpen(r, i, t) \/ RenewOlder(r, i, t)

MemberStep(r) == FindStaff(r) \/ RemoveStaff(r) \/ UpdateStatus(r) \/ SaveStaff(r)

Next ==
    \/ \E r \in Requests :
          \/ InvitationStep(r) \/ MemberStep(r) \/ End(r)
          \/ \E o \in UseCases : Receive(r, o)
    \/ Tick

Spec == Init /\ [][Next]_vars

-----------------------------------------------------------------------------
TypeOK ==
    /\ invitation \in [InvitationIds -> Invitation]
    /\ member \in Membership
    /\ password \in Passwords \cup {NoPassword}
    /\ minted \subseteq Tokens
    /\ mailed \subseteq Tokens
    /\ clock \in Nat
    /\ req \in [Requests -> Request]

\* validate would let the link with token t through.
Works(t) == \E i \in InvitationIds :
    /\ invitation[i].status = "PENDING" /\ invitation[i].token = t
    /\ ~IsExpired(invitation[i])

\* A link that was mailed and no longer works (used, revoked, replaced or
\* lapsed) never works again, although requests save invitations whole, with
\* the token and the validity of an old reading.
LinksStayDead ==
    [][ \A t \in mailed : Works(t)' => Works(t) ]_vars

\* Nor does such a save ever meet the token in another row: the unique key of
\* token_hash refuses no request.
TokenKeyNeverRefuses ==
    \A r \in Requests : req[r].step \in {"save", "join"}
        => KeyFree(req[r].id, req[r].new)

\* However memberships are written over, one marked as removed has a date.
RemovalIsDated == member.status = "REMOVED" => member.left

-----------------------------------------------------------------------------
(* The roster that the rows stand for.                                     *)

\* Whether a lapsed invitation was marked EXPIRED yet makes no difference.
Offer(row) ==
    CASE row.status = "NONE"     -> "unused"
      [] row.status = "ACCEPTED" -> "accepted"
      [] row.status = "REVOKED"  -> "revoked"
      [] row.status = "EXPIRED"  -> "lapsed"
      [] row.status = "PENDING"  -> IF clock < row.expiresAt THEN "open"
                                    ELSE IF IsExpired(row) THEN "lapsed"
                                    ELSE "closing"

Roster == INSTANCE StaffRoster WITH
    offer <- [i \in InvitationIds |-> Offer(invitation[i])]

\* What the request r has read, and what it is about to write, is out of date.
IsStale(r) ==
    LET q == req[r]
    IN  \/ /\ q.step \in {"save", "join"}
           /\ \/ invitation[q.id] # q.row
              \/ IsExpired(q.new) /\ q.new.status \in {"PENDING", "ACCEPTED"}
              \/ q.new.status = "PENDING" /\ q.new.expiresAt = clock
              \/ q.op = "invite" /\ \E j \in InvitationIds : IsOpen(j)
              \/ (q.op \in {"invite", "resend"} \/ q.step = "join")
                 /\ member # q.member
        \/ q.step \in {"remove", "status", "keep"} /\ member # q.member
        \/ q.step = "keep" /\ password # q.password

\* Everything the use cases do is an operation of the roster at one instant,
\* or the step of a request with a reading that is out of date.
RosterUnlessStale ==
    [][ \/ Roster!RosterNext
        \/ \E r \in Requests : IsStale(r) /\ req'[r] # req[r] ]_(Roster!rosterVars)

-----------------------------------------------------------------------------
(* The inductive invariant.                                                *)

TokensOf(r) == {req[r].row.token, req[r].new.token}

\* A new link that no row has yet.
IsUnsaved(r) == req[r].step = "save" /\ req[r].op \in {"invite", "resend"}

Owns(i, t) ==
    \/ invitation[i].token = t
    \/ \E r \in Requests : req[r].id = i /\ t \in TokensOf(r)

\* The tokens in rows, and those that requests hold, were generated for one
\* invitation each,
OwnerInv ==
    /\ mailed \subseteq minted
    /\ \A r \in Requests : req[r].id = NoId => TokensOf(r) = {NoToken}
    /\ \A t \in Tokens, i, j \in InvitationIds :
          Owns(i, t) => t \in minted /\ (Owns(j, t) => i = j)

\* one that is not saved yet is known to its request only,
UnsavedInv ==
    \A r \in Requests : IsUnsaved(r) =>
        LET t == req[r].new.token
        IN  /\ t \notin mailed
            /\ \A i \in InvitationIds : invitation[i].token # t
            /\ \A q \in Requests \ {r} : t \notin TokensOf(q)

\* and an invitation that is not inserted yet likewise.
InsertInv ==
    \A r \in Requests : IsUnsaved(r) /\ req[r].op = "invite" =>
        /\ invitation[req[r].id] = NoInvitation
        /\ \A q \in Requests \ {r} : req[q].id # req[r].id

\* What a request will write to an invitation follows from what it read;
WriteSuits(q) ==
    /\ q.step \in {"save", "join", "mail"} => q.id # NoId /\ q.new # NoInvitation
    /\ q.step = "join" => q.op = "accept" /\ q.member.status # "ACTIVE"
    /\ q.step = "pending" => q.op \in {"invite", "resend"}
    /\ q.step = "older" => q.op = "resend"
    /\ q.op = "invite" /\ q.step \in {"pending", "save"} => q.member.status # "ACTIVE"
    /\ q.op = "resend" /\ q.step \in {"pending", "older", "save"} => q.member = NoMember
    /\ q.op = "accept" /\ q.step \in {"staff", "join"} =>
          /\ q.id # NoId
          /\ q.row.status = "PENDING"
          /\ q.new = [q.row EXCEPT !.status = "ACCEPTED"]
    /\ q.step = "save" =>
          CASE q.op = "invite" -> /\ q.row = NoInvitation
                                  /\ q.new.status = "PENDING"
            [] q.op = "resend" -> /\ q.row.status \notin {"NONE", "ACCEPTED"}
                                  /\ q.new.status = "PENDING"
            [] q.op = "revoke" -> /\ q.row # NoInvitation
                                  /\ q.new = [q.row EXCEPT !.status = "REVOKED"]
            [] OTHER -> /\ q.row.status = "PENDING"
                        /\ IsExpired(q.row)
                        /\ q.new = [q.row EXCEPT !.status = "EXPIRED"]

\* what it will write to the membership suits what it read of it.
StaffSuits(q) ==
    /\ q.step \in {"remove", "status", "keep"} =>
          member # NoMember /\ q.member # NoMember
    /\ q.step = "remove" => q.member.status # "REMOVED"
    /\ q.step = "status" => /\ q.op \in {"activate", "deactivate"}
                            /\ Suits(q.op, q.member.status)
    /\ q.step = "keep" => /\ q.op \in {"activate", "deactivate", "update", "reset"}
                          /\ q.op = "reset" => q.member.status = "ACTIVE"
                          /\ q.member.status = "REMOVED" => q.member.left

WriteInv == \A r \in Requests : WriteSuits(req[r])
StaffInv == \A r \in Requests : StaffSuits(req[r])

MembershipInv ==
    /\ TypeOK
    /\ RemovalIsDated
    /\ OwnerInv
    /\ UnsavedInv
    /\ InsertInv
    /\ WriteInv
    /\ StaffInv
=============================================================================
