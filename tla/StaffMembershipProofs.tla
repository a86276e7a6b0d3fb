------------------------ MODULE StaffMembershipProofs ------------------------
(***************************************************************************)
(* What StaffMembership guarantees for any number of requests, invitations,*)
(* links and passwords, and any validity of links: its inductive           *)
(* invariant, that a link that stopped working never works again, and that *)
(* only requests with an outdated reading do what the roster does not.     *)
(***************************************************************************)
EXTENDS StaffMembership, TLAPS

\* The request r, and no other, goes on as x.
Goes(r, x) ==
    /\ req'[r] = x
    /\ \A q \in Requests \ {r} : req'[q] = req[q]

LEMMA GoesOn ==
    ASSUME TypeOK, NEW r \in Requests, NEW x, req' = [req EXCEPT ![r] = x]
    PROVE  Goes(r, x)
  BY DEF TypeOK, Goes

\* The same fields of a record as TypeOK says.
LEMMA FieldTypes ==
    ASSUME TypeOK, NEW r \in Requests
    PROVE  /\ req[r] \in Request
           /\ req[r] = [op |-> req[r].op, step |-> req[r].step, id |-> req[r].id,
                        row |-> req[r].row, new |-> req[r].new,
                        member |-> req[r].member, password |-> req[r].password]
           /\ Idle \in Request
  BY MembershipAssumption DEF TypeOK, Request, Idle, Invitation, Membership

-----------------------------------------------------------------------------
(* Types.                                                                  *)

LEMMA TypesKept ==
    ASSUME TypeOK, WriteInv, StaffInv, [Next]_vars
    PROVE  TypeOK'
  <1> USE DEF TypeOK, rowVars
  <1>1. ASSUME NEW r \in Requests, NEW x \in Request, req' = [req EXCEPT ![r] = x]
        PROVE  req' \in [Requests -> Request]
    BY <1>1
  <1>2. ASSUME NEW r \in Requests, NEW o \in UseCases, Receive(r, o)
        PROVE  TypeOK'
    <2>1. [Idle EXCEPT !.op = o, !.step = FirstStep(o)] \in Request
      BY FieldTypes DEF FirstStep, Idle, Request, Steps
    <2> QED
      BY <1>1, <1>2, <2>1 DEF Receive
  <1>3. ASSUME NEW r \in Requests, End(r) PROVE TypeOK'
    BY <1>1, <1>3, FieldTypes DEF End
  <1>4. ASSUME NEW r \in Requests, InvitationStep(r) PROVE TypeOK'
    <2>0. req[r] \in Request
      BY FieldTypes
    <2>1. CASE FindMember(r)
      BY <1>1, <2>0, <2>1 DEF FindMember, Request, Steps
    <2>2. CASE FindNoneOpen(r)
      BY <1>1, <2>0, <2>2 DEF FindNoneOpen, Request, Steps
    <2>3. ASSUME NEW i \in InvitationIds, NEW t \in Tokens, Prepare(r, i, t)
          PROVE  TypeOK'
      <3>1. [status |-> "PENDING", token |-> t, expiresAt |-> clock + Ttl] \in Invitation
        BY MembershipAssumption DEF Invitation, InvitationStatuses
      <3> QED
        BY <1>1, <2>0, <2>3, <3>1 DEF Prepare, Request, Steps
    <2>4. ASSUME NEW i \in InvitationIds, NEW s \in InvitationStatuses,
                 NEW n \in Steps, invitation[i] # NoInvitation, Mark(r, i, s, n)
          PROVE  TypeOK'
      <3>1. [invitation[i] EXCEPT !.status = s] \in Invitation
        BY <2>4 DEF Invitation
      <3> QED
        BY <1>1, <2>0, <2>4, <3>1 DEF Mark, Request
    <2>5. ASSUME NEW i \in InvitationIds, FindRevoked(r, i) PROVE TypeOK'
      BY <2>4, <2>5 DEF FindRevoked, Steps, InvitationStatuses
    <2>6. ASSUME NEW i \in InvitationIds, FindExpired(r, i) PROVE TypeOK'
      BY <2>4, <2>6 DEF FindExpired, Steps, InvitationStatuses, NoInvitation
    <2>7. ASSUME NEW i \in InvitationIds, FindAccepted(r, i) PROVE TypeOK'
      BY <2>4, <2>7 DEF FindAccepted, Steps, InvitationStatuses, NoInvitation
    <2>8. CASE Save(r)
      <3>1. invitation' \in [InvitationIds -> Invitation]
        BY <2>0, <2>8 DEF Save, Request
      <3>2. [req[r] EXCEPT !.step = "mail"] \in Request
        BY <2>0 DEF Request, Steps
      <3> QED
        BY <1>1, <2>8, <3>1, <3>2, FieldTypes DEF Save
    <2>9. CASE Mail(r)
      <3>1. req[r].new.token \in Tokens
        BY <2>0, <2>9 DEF Mail, WriteInv, WriteSuits, Request, Invitation
      <3> QED
        BY <1>1, <2>9, <3>1, FieldTypes DEF Mail
    <2>10. CASE Join(r)
      <3>1. invitation' \in [InvitationIds -> Invitation]
        BY <2>0, <2>10 DEF Join, Joined, Request
      <3> QED
        BY <1>1, <2>10, <3>1, FieldTypes DEF Join, Joined, Membership
    <2> QED
      BY <1>4, <2>1, <2>2, <2>3, <2>5, <2>6, <2>7, <2>8, <2>9, <2>10
      DEF InvitationStep, PrepareInvitation, RenewOpen, RenewOlder
  <1>5. ASSUME NEW r \in Requests, MemberStep(r) PROVE TypeOK'
    <2>0. req[r] \in Request
      BY FieldTypes
    <2>1. CASE FindStaff(r)
      BY <1>1, <2>0, <2>1 DEF FindStaff, Request, Steps
    <2>2. CASE RemoveStaff(r)
      BY <1>1, <2>2, FieldTypes DEF RemoveStaff, Membership
    <2>3. CASE UpdateStatus(r)
      <3>1. member # NoMember /\ req[r].member # NoMember
        BY <2>3 DEF UpdateStatus, StaffInv, StaffSuits
      <3>2. ASSUME NEW m \in Membership, m # NoMember,
                   NEW s \in {"ACTIVE", "INACTIVE"}
            PROVE  [m EXCEPT !.status = s] \in Membership
        BY <3>2 DEF Membership
      <3>3. member' \in Membership
        BY <2>3, <3>1, <3>2 DEF UpdateStatus
      <3> DEFINE s == IF req[r].op = "activate" THEN "ACTIVE" ELSE "INACTIVE"
                 x == [req[r] EXCEPT !.member.status = s, !.step = "keep"]
      <3>4. x \in Request
        BY <2>0, <3>1, <3>2 DEF Request, Steps
      <3> QED
        BY <1>1, <2>3, <3>3, <3>4 DEF UpdateStatus
    <2>4. CASE SaveStaff(r)
      BY <1>1, <2>0, <2>4, FieldTypes DEF SaveStaff, Request
    <2> QED
      BY <1>5, <2>1, <2>2, <2>3, <2>4 DEF MemberStep
  <1>6. CASE Tick
    BY <1>6 DEF Tick
  <1>7. CASE UNCHANGED vars
    BY <1>7 DEF vars
  <1> QED
    BY <1>2, <1>3, <1>4, <1>5, <1>6, <1>7 DEF Next

-----------------------------------------------------------------------------
(* Links.                                                                  *)

LinkPart == OwnerInv /\ UnsavedInv /\ InsertInv

\* A request holds what it held, or nothing, and has nothing more to save.
Drops(r) ==
    /\ \/ /\ req'[r].id = req[r].id
          /\ req'[r].row = req[r].row
          /\ req'[r].new = req[r].new
       \/ req'[r] = Idle
    /\ req'[r].step = "save" => req[r].step = "save" /\ req'[r].op = req[r].op

\* What a request is about to write has a token, and a place.
LEMMA WritesToken ==
    ASSUME TypeOK, WriteInv, NEW r \in Requests,
           req[r].step \in {"save", "join", "mail"}
    PROVE  /\ req[r].id \in InvitationIds
           /\ req[r].new \in Invitation \ {NoInvitation}
           /\ req[r].new.token \in Tokens
  <1>1. req[r].id # NoId /\ req[r].new # NoInvitation
    BY DEF WriteInv, WriteSuits
  <1> QED
    BY <1>1 DEF TypeOK, Request, Invitation

\* A step that reads, writes and mails no invitation.
LEMMA DropsKeeps ==
    ASSUME TypeOK, WriteInv, LinkPart, invitation' = invitation, minted' = minted,
           mailed' = mailed, \A r \in Requests : Drops(r)
    PROVE  LinkPart'
  <1>1. \A r \in Requests : TokensOf(r)' \subseteq TokensOf(r) \cup {NoToken}
    BY DEF Drops, TokensOf, Idle, NoInvitation
  <1>2. \A r \in Requests : req'[r].id \in {req[r].id, NoId}
    BY DEF Drops, Idle
  <1>3. ASSUME NEW t \in Tokens, NEW i \in InvitationIds, Owns(i, t)'
        PROVE  Owns(i, t)
    BY <1>1, <1>3, MembershipAssumption DEF Owns, Drops, Idle
  <1>4. OwnerInv'
    <2>1. ASSUME NEW r \in Requests, req'[r].id = NoId
          PROVE  TokensOf(r)' = {NoToken}
      BY <2>1 DEF LinkPart, OwnerInv, Drops, TokensOf, Idle, NoInvitation
    <2> QED
      BY <1>3, <2>1 DEF LinkPart, OwnerInv
  <1>5. ASSUME NEW r \in Requests, IsUnsaved(r)'
        PROVE  /\ IsUnsaved(r)
               /\ req'[r].id = req[r].id /\ req'[r].new = req[r].new
               /\ req'[r].op = req[r].op
    BY <1>5 DEF IsUnsaved, Drops, Idle
  <1>6. UnsavedInv'
    <2> SUFFICES ASSUME NEW r \in Requests, IsUnsaved(r)'
                 PROVE  LET t == req[r].new.token
                        IN  /\ t \notin mailed
                            /\ \A i \in InvitationIds : invitation[i].token # t
                            /\ \A q \in Requests \ {r} : t \notin TokensOf(q)'
      BY <1>5 DEF UnsavedInv
    <2>1. req[r].new.token # NoToken
      BY <1>5, WritesToken, MembershipAssumption DEF IsUnsaved
    <2> QED
      BY <1>1, <1>5, <2>1 DEF LinkPart, UnsavedInv
  <1>7. InsertInv'
    BY <1>2, <1>5, WritesToken, MembershipAssumption
    DEF LinkPart, InsertInv, IsUnsaved
  <1> QED
    BY <1>4, <1>6, <1>7 DEF LinkPart

\* A new link is generated for invitation i, which nobody else inserts.
LEMMA PrepareKeeps ==
    ASSUME TypeOK, WriteInv, LinkPart,
           NEW r \in Requests, NEW i \in InvitationIds, NEW t \in Tokens,
           Prepare(r, i, t),
           \A q \in Requests \ {r} : IsUnsaved(q) /\ req[q].op = "invite"
                => req[q].id # i,
           req[r].op = "invite" => /\ invitation[i] = NoInvitation
                                   /\ \A q \in Requests : req[q].id # i
    PROVE  LinkPart'
  <1> USE DEF rowVars
  <1> DEFINE new == [status |-> "PENDING", token |-> t, expiresAt |-> clock + Ttl]
             x == [req[r] EXCEPT !.id = i, !.row = invitation[i],
                                 !.step = "save", !.new = new]
  <1>1. /\ Goes(r, x) /\ x.id = i /\ x.row = invitation[i] /\ x.step = "save"
        /\ x.new.token = t /\ x.op = req[r].op
    BY GoesOn, FieldTypes DEF Prepare, Request
  <1> HIDE DEF x
  <1>2. t \notin minted /\ minted' = minted \cup {t} /\ mailed' = mailed
        /\ invitation' = invitation
    BY DEF Prepare, FreshTokens
  <1>3. ASSUME NEW u \in Tokens, NEW j \in InvitationIds, Owns(j, u)'
        PROVE  Owns(j, u) \/ (j = i /\ u = t)
    BY <1>1, <1>2, <1>3 DEF Owns, TokensOf, Goes
  <1>4. \A j \in InvitationIds : ~Owns(j, t)
    BY <1>2 DEF LinkPart, OwnerInv
  <1>5. OwnerInv'
    <2>1. ASSUME NEW q \in Requests, req'[q].id = NoId
          PROVE  TokensOf(q)' = {NoToken}
      BY <1>1, <2>1, MembershipAssumption DEF LinkPart, OwnerInv, Goes, TokensOf
    <2> QED
      BY <1>2, <1>3, <1>4, <2>1 DEF LinkPart, OwnerInv
  <1>6. \A j \in InvitationIds : invitation[j].token # t
    BY <1>4 DEF Owns
  <1>7. ASSUME NEW q \in Requests \ {r}
        PROVE  /\ t \notin TokensOf(q)
               /\ req'[q] = req[q]
               /\ IsUnsaved(q)' <=> IsUnsaved(q)
               /\ TokensOf(q)' = TokensOf(q)
    <2>1. req'[q] = req[q]
      BY <1>1 DEF Goes
    <2>2. ASSUME req[q].id = NoId PROVE t \notin TokensOf(q)
      BY <2>2, MembershipAssumption DEF LinkPart, OwnerInv
    <2>3. ASSUME req[q].id \in InvitationIds PROVE t \notin TokensOf(q)
      BY <1>4, <2>3 DEF Owns
    <2> QED
      BY <2>1, <2>2, <2>3 DEF TypeOK, Request, IsUnsaved, TokensOf
  <1>8. ASSUME NEW q \in Requests \ {r}, IsUnsaved(q)
        PROVE  req[q].new.token \notin {t, invitation[i].token}
    BY <1>7, <1>8 DEF LinkPart, UnsavedInv, TokensOf
  <1>9. UnsavedInv'
    <2>1. /\ req'[r].new.token = t
          /\ t \notin mailed
          /\ \A q \in Requests \ {r} : t \notin TokensOf(q)'
      BY <1>1, <1>2, <1>7 DEF LinkPart, OwnerInv, Goes
    <2>2. ASSUME NEW q \in Requests \ {r}, IsUnsaved(q)
          PROVE  LET u == req[q].new.token
                 IN  /\ u \notin mailed
                     /\ \A j \in InvitationIds : invitation[j].token # u
                     /\ \A p \in Requests \ {q} : u \notin TokensOf(p)'
      BY <1>1, <1>7, <1>8, <2>2 DEF LinkPart, UnsavedInv, Goes, TokensOf
    <2> QED
      BY <1>2, <1>6, <1>7, <2>1, <2>2 DEF UnsavedInv
  <1>10. InsertInv'
    BY <1>1, <1>2, <1>7 DEF LinkPart, InsertInv, IsUnsaved, Goes
  <1> QED
    BY <1>5, <1>9, <1>10 DEF LinkPart

\* Invitation i is read by a request that will not give it a new link.
LEMMA MarkKeeps ==
    ASSUME TypeOK, WriteInv, LinkPart,
           NEW r \in Requests, NEW i \in InvitationIds,
           NEW s \in InvitationStatuses, NEW n \in Steps,
           invitation[i] # NoInvitation, req[r].op \notin {"invite", "resend"},
           Mark(r, i, s, n)
    PROVE  LinkPart'
  <1> USE DEF rowVars
  <1> DEFINE x == [req[r] EXCEPT !.id = i, !.row = invitation[i], !.step = n,
                                 !.new = [invitation[i] EXCEPT !.status = s]]
  <1>1. /\ Goes(r, x) /\ x.id = i /\ x.row = invitation[i]
        /\ x.new.token = invitation[i].token /\ x.op = req[r].op
    <2>1. Goes(r, x)
      BY GoesOn DEF Mark
    <2>2. req[r] \in Request /\ invitation[i] \in Invitation
      BY DEF TypeOK
    <2>3. [invitation[i] EXCEPT !.status = s].token = invitation[i].token
      BY <2>2 DEF Invitation, NoInvitation
    <2> QED
      BY <2>1, <2>2, <2>3 DEF Request
  <1> HIDE DEF x
  <1>2. UNCHANGED <<invitation, minted, mailed>>
    BY DEF Mark
  <1>3. ASSUME NEW u \in Tokens, NEW j \in InvitationIds, Owns(j, u)'
        PROVE  Owns(j, u)
    BY <1>1, <1>2, <1>3 DEF Owns, TokensOf, Goes
  <1>4. OwnerInv'
    <2>1. ASSUME NEW q \in Requests, req'[q].id = NoId
          PROVE  TokensOf(q)' = {NoToken}
      BY <1>1, <2>1, MembershipAssumption DEF LinkPart, OwnerInv, Goes, TokensOf
    <2> QED
      BY <1>2, <1>3, <2>1 DEF LinkPart, OwnerInv
  <1>5. ASSUME NEW q \in Requests, IsUnsaved(q)'
        PROVE  q # r /\ IsUnsaved(q) /\ req'[q] = req[q]
    BY <1>1, <1>5 DEF IsUnsaved, Goes
  <1>6. UnsavedInv'
    BY <1>1, <1>2, <1>5 DEF LinkPart, UnsavedInv, Goes, TokensOf
  <1>7. InsertInv'
    BY <1>1, <1>2, <1>5 DEF LinkPart, InsertInv, Goes
  <1> QED
    BY <1>4, <1>6, <1>7 DEF LinkPart

\* The request r writes its invitation.
Writes(r) ==
    /\ req[r].step \in {"save", "join"}
    /\ invitation' = [invitation EXCEPT ![req[r].id] = req[r].new]
    /\ UNCHANGED <<minted, mailed>>
    /\ Goes(r, Idle) \/ Goes(r, [req[r] EXCEPT !.step = "mail"])

LEMMA WritesKeeps ==
    ASSUME TypeOK, WriteInv, LinkPart, NEW r \in Requests, Writes(r)
    PROVE  LinkPart'
  <1> DEFINE q == req[r]
  <1>1. /\ q.id \in InvitationIds /\ q.new.token \in Tokens
        /\ q.new # NoInvitation
    BY WritesToken DEF Writes
  <1>2. /\ invitation'[q.id] = q.new
        /\ \A j \in InvitationIds \ {q.id} : invitation'[j] = invitation[j]
        /\ minted' = minted /\ mailed' = mailed
    BY <1>1 DEF Writes, TypeOK
  <1>3. /\ req'[r].step \in {"idle", "mail"}
        /\ \/ req'[r].id = NoId /\ TokensOf(r)' = {NoToken}
           \/ req'[r].id = q.id /\ TokensOf(r)' = TokensOf(r)
    <2>1. CASE Goes(r, Idle)
      BY <2>1 DEF Goes, Idle, NoInvitation, TokensOf
    <2>2. CASE Goes(r, [q EXCEPT !.step = "mail"])
      <3>1. q \in Request
        BY FieldTypes
      <3> QED
        BY <2>2, <3>1 DEF Goes, TokensOf, Request
    <2> QED
      BY <2>1, <2>2 DEF Writes
  <1>4. \A p \in Requests \ {r} : req'[p] = req[p] /\ TokensOf(p)' = TokensOf(p)
    BY DEF Writes, Goes, TokensOf
  <1>5. ASSUME NEW u \in Tokens, NEW j \in InvitationIds, Owns(j, u)'
        PROVE  Owns(j, u)
    <2>1. CASE invitation'[j].token = u
      BY <1>2, <2>1 DEF Owns, TokensOf
    <2>2. ASSUME NEW p \in Requests, req'[p].id = j, u \in TokensOf(p)'
          PROVE  req[p].id = j /\ u \in TokensOf(p)
      BY <1>3, <1>4, <2>2, MembershipAssumption
    <2> QED
      BY <1>5, <2>1, <2>2 DEF Owns
  <1>6. OwnerInv'
    <2>1. ASSUME NEW p \in Requests, req'[p].id = NoId
          PROVE  TokensOf(p)' = {NoToken}
      BY <1>1, <1>3, <1>4, <2>1, MembershipAssumption DEF LinkPart, OwnerInv
    <2> QED
      BY <1>2, <1>5, <2>1 DEF LinkPart, OwnerInv
  <1>7. ASSUME NEW p \in Requests, IsUnsaved(p)'
        PROVE  p # r /\ IsUnsaved(p) /\ req'[p] = req[p]
    BY <1>3, <1>4, <1>7 DEF IsUnsaved
  <1>8. UnsavedInv'
    <2> SUFFICES ASSUME NEW p \in Requests, IsUnsaved(p), p # r
                 PROVE  LET t == req[p].new.token
                        IN  /\ t \notin mailed
                            /\ \A i \in InvitationIds : invitation'[i].token # t
                            /\ \A o \in Requests \ {p} : t \notin TokensOf(o)'
      BY <1>2, <1>7 DEF UnsavedInv
    <2>1. req[p].new.token \in Tokens
      BY WritesToken DEF IsUnsaved
    <2>2. req[p].new.token \notin TokensOf(r)
      BY DEF LinkPart, UnsavedInv
    <2>3. req[p].new.token \notin mailed
      BY DEF LinkPart, UnsavedInv
    <2>4. \A i \in InvitationIds : invitation'[i].token # req[p].new.token
      BY <1>2, <2>2 DEF LinkPart, UnsavedInv, TokensOf
    <2>5. ASSUME NEW o \in Requests \ {p}
          PROVE  req[p].new.token \notin TokensOf(o)'
      <3>1. req[p].new.token \notin TokensOf(o)
        BY DEF LinkPart, UnsavedInv
      <3> QED
        BY <1>3, <1>4, <2>1, <3>1, MembershipAssumption
    <2> QED
      BY <2>3, <2>4, <2>5
  <1>9. InsertInv'
    <2> SUFFICES ASSUME NEW p \in Requests, IsUnsaved(p), p # r,
                        req[p].op = "invite"
                 PROVE  /\ invitation'[req[p].id] = NoInvitation
                        /\ \A o \in Requests \ {p} : req'[o].id # req[p].id
      BY <1>7 DEF InsertInv
    <2>1. req[p].id \in InvitationIds
      BY WritesToken DEF IsUnsaved
    <2> QED
      BY <1>2, <1>3, <1>4, <2>1, MembershipAssumption DEF LinkPart, InsertInv
  <1> QED
    BY <1>6, <1>8, <1>9 DEF LinkPart

LEMMA MailKeeps ==
    ASSUME TypeOK, WriteInv, LinkPart, NEW r \in Requests, Mail(r)
    PROVE  LinkPart'
  <1> USE DEF rowVars
  <1>1. /\ req[r].id \in InvitationIds /\ req[r].new.token \in Tokens
    BY WritesToken DEF Mail
  <1>2. Owns(req[r].id, req[r].new.token)
    BY DEF Owns, TokensOf
  <1>3. /\ Goes(r, Idle)
        /\ mailed' = mailed \cup {req[r].new.token}
        /\ UNCHANGED <<invitation, minted>>
    BY GoesOn DEF Mail
  <1>4. ASSUME NEW u \in Tokens, NEW j \in InvitationIds, Owns(j, u)'
        PROVE  Owns(j, u)
    BY <1>3, <1>4, MembershipAssumption DEF Owns, TokensOf, Goes, Idle
  <1>5. OwnerInv'
    <2>1. ASSUME NEW p \in Requests, req'[p].id = NoId
          PROVE  TokensOf(p)' = {NoToken}
      BY <1>3, <2>1 DEF LinkPart, OwnerInv, Goes, TokensOf, Idle, NoInvitation
    <2> QED
      BY <1>1, <1>2, <1>3, <1>4, <2>1 DEF LinkPart, OwnerInv
  <1>6. ASSUME NEW p \in Requests, IsUnsaved(p)'
        PROVE  p # r /\ IsUnsaved(p) /\ req'[p] = req[p]
    BY <1>3, <1>6 DEF IsUnsaved, Goes, Idle
  <1>7. UnsavedInv'
    <2> SUFFICES ASSUME NEW p \in Requests, IsUnsaved(p), p # r
                 PROVE  LET t == req[p].new.token
                        IN  /\ t \notin mailed'
                            /\ \A i \in InvitationIds : invitation[i].token # t
                            /\ \A o \in Requests \ {p} : t \notin TokensOf(o)'
      BY <1>3, <1>6 DEF UnsavedInv
    <2>1. req[p].new.token \in Tokens
      BY WritesToken DEF IsUnsaved
    <2> QED
      BY <1>3, <2>1, MembershipAssumption
      DEF LinkPart, UnsavedInv, TokensOf, Goes, Idle, NoInvitation
  <1>8. InsertInv'
    <2> SUFFICES ASSUME NEW p \in Requests, IsUnsaved(p), p # r,
                        req[p].op = "invite"
                 PROVE  /\ invitation[req[p].id] = NoInvitation
                        /\ \A o \in Requests \ {p} : req'[o].id # req[p].id
      BY <1>3, <1>6 DEF InsertInv
    <2>1. req[p].id \in InvitationIds
      BY WritesToken DEF IsUnsaved
    <2> QED
      BY <1>3, <2>1, MembershipAssumption DEF LinkPart, InsertInv, Goes, Idle
  <1> QED
    BY <1>5, <1>7, <1>8 DEF LinkPart

\* Steps of requests that hold less than before, or the same.
LEMMA LinksKept ==
    ASSUME TypeOK, WriteInv, LinkPart, [Next]_vars
    PROVE  LinkPart'
  <1> USE DEF rowVars
  <1>1. ASSUME NEW r \in Requests, NEW x, req' = [req EXCEPT ![r] = x],
               UNCHANGED <<invitation, minted, mailed>>, x.step # "save",
               x = Idle \/ (x.id = req[r].id /\ x.row = req[r].row /\ x.new = req[r].new)
        PROVE  LinkPart'
    <2>1. Goes(r, x)
      BY <1>1, GoesOn
    <2>2. \A q \in Requests : Drops(q)
      BY <1>1, <2>1 DEF Drops, Goes
    <2> QED
      BY <1>1, <2>2, DropsKeeps
  <1>e. ASSUME NEW r \in Requests, req' = [req EXCEPT ![r] = Idle],
               UNCHANGED <<invitation, minted, mailed>>
        PROVE  LinkPart'
    <2>1. Idle.step # "save"
      BY DEF Idle
    <2> QED
      BY <1>1, <1>e, <2>1
  <1>2. ASSUME NEW r \in Requests, NEW o \in UseCases, Receive(r, o)
        PROVE  LinkPart'
    <2> DEFINE x == [Idle EXCEPT !.op = o, !.step = FirstStep(o)]
    <2>1. /\ x.step # "save" /\ x.id = Idle.id /\ x.row = Idle.row /\ x.new = Idle.new
      BY DEF Idle, FirstStep
    <2>2. /\ req' = [req EXCEPT ![r] = x] /\ req[r] = Idle
          /\ UNCHANGED <<invitation, minted, mailed>>
      BY <1>2 DEF Receive
    <2> HIDE DEF x
    <2>3. x.id = req[r].id /\ x.row = req[r].row /\ x.new = req[r].new
      BY <2>1, <2>2
    <2> QED
      BY <1>1, <2>1, <2>2, <2>3
  <1>3. ASSUME NEW r \in Requests, End(r) PROVE LinkPart'
    BY <1>e, <1>3 DEF End
  <1>4. ASSUME NEW r \in Requests, InvitationStep(r) PROVE LinkPart'
    <2>0. req[r] \in Request
      BY FieldTypes
    <2>1. CASE FindMember(r)
      <3> DEFINE x == [req[r] EXCEPT !.member = member,
                      !.step = IF req[r].op = "accept" THEN "join" ELSE "pending"]
      <3>1. /\ x.step # "save" /\ x.id = req[r].id
            /\ x.row = req[r].row /\ x.new = req[r].new
        BY <2>0 DEF Request
      <3>2. req' = [req EXCEPT ![r] = x]
        BY <2>1 DEF FindMember
      <3> HIDE DEF x
      <3> QED
        BY <1>1, <2>1, <3>1, <3>2 DEF FindMember
    <2>2. CASE FindNoneOpen(r)
      <3> DEFINE x == [req[r] EXCEPT !.step = "older"]
      <3>1. /\ x.step # "save" /\ x.id = req[r].id
            /\ x.row = req[r].row /\ x.new = req[r].new
        BY <2>0 DEF Request
      <3>2. req' = [req EXCEPT ![r] = x]
        BY <2>2 DEF FindNoneOpen
      <3> HIDE DEF x
      <3> QED
        BY <1>1, <2>2, <3>1, <3>2 DEF FindNoneOpen
    <2>3. ASSUME NEW i \in InvitationIds, NEW t \in Tokens, PrepareInvitation(r, i, t)
          PROVE  LinkPart'
      BY <2>3, PrepareKeeps DEF PrepareInvitation
    <2>4. ASSUME NEW i \in InvitationIds, NEW t \in Tokens,
                 RenewOpen(r, i, t) \/ RenewOlder(r, i, t)
          PROVE  LinkPart'
      <3>1. invitation[i] # NoInvitation
        BY <2>4 DEF RenewOpen, RenewOlder, IsOpen, NoInvitation
      <3>2. req[r].op # "invite"
        BY <2>4 DEF RenewOpen, RenewOlder, WriteInv, WriteSuits
      <3> QED
        BY <2>4, <3>1, <3>2, PrepareKeeps
        DEF RenewOpen, RenewOlder, LinkPart, InsertInv
    <2>5. ASSUME NEW i \in InvitationIds, FindRevoked(r, i) PROVE LinkPart'
      BY <2>5, MarkKeeps DEF FindRevoked, Steps, InvitationStatuses
    <2>6. ASSUME NEW i \in InvitationIds, FindExpired(r, i) PROVE LinkPart'
      BY <2>6, MarkKeeps DEF FindExpired, Steps, InvitationStatuses, NoInvitation
    <2>7. ASSUME NEW i \in InvitationIds, FindAccepted(r, i) PROVE LinkPart'
      BY <2>7, MarkKeeps DEF FindAccepted, Steps, InvitationStatuses, NoInvitation
    <2>8. CASE Save(r)
      BY <2>8, GoesOn, WritesKeeps DEF Save, Writes
    <2>9. CASE Mail(r)
      BY <2>9, MailKeeps
    <2>10. CASE Join(r)
      BY <2>10, GoesOn, WritesKeeps DEF Join, Joined, Writes
    <2> QED
      BY <1>4, <2>1, <2>2, <2>3, <2>4, <2>5, <2>6, <2>7, <2>8, <2>9, <2>10
      DEF InvitationStep
  <1>5. ASSUME NEW r \in Requests, MemberStep(r) PROVE LinkPart'
    <2>0. req[r] \in Request
      BY FieldTypes
    <2>1. CASE FindStaff(r)
      <3> DEFINE x == [req[r] EXCEPT !.member = member, !.password = password,
                      !.step = CASE req[r].op = "remove" -> "remove"
                                 [] req[r].op \in {"update", "reset"} -> "keep"
                                 [] OTHER -> "status"]
      <3>1. /\ x.step # "save" /\ x.id = req[r].id
            /\ x.row = req[r].row /\ x.new = req[r].new
        BY <2>0 DEF Request
      <3>2. req' = [req EXCEPT ![r] = x]
        BY <2>1 DEF FindStaff
      <3> HIDE DEF x
      <3> QED
        BY <1>1, <2>1, <3>1, <3>2 DEF FindStaff
    <2>2. CASE RemoveStaff(r)
      BY <1>e, <2>2 DEF RemoveStaff
    <2>3. CASE UpdateStatus(r)
      <3> DEFINE s == IF req[r].op = "activate" THEN "ACTIVE" ELSE "INACTIVE"
      <3> DEFINE x == [req[r] EXCEPT !.member.status = s, !.step = "keep"]
      <3>1. /\ x.step # "save" /\ x.id = req[r].id
            /\ x.row = req[r].row /\ x.new = req[r].new
        BY <2>0 DEF Request
      <3>2. req' = [req EXCEPT ![r] = x]
        BY <2>3 DEF UpdateStatus
      <3> HIDE DEF x
      <3> QED
        BY <1>1, <2>3, <3>1, <3>2 DEF UpdateStatus
    <2>4. CASE SaveStaff(r)
      BY <1>e, <2>4 DEF SaveStaff
    <2> QED
      BY <1>5, <2>1, <2>2, <2>3, <2>4 DEF MemberStep
  <1>6. CASE UNCHANGED <<invitation, minted, mailed, req>>
    BY <1>6, DropsKeeps DEF Drops
  <1> QED
    BY <1>2, <1>3, <1>4, <1>5, <1>6 DEF Next, Tick, vars

-----------------------------------------------------------------------------
(* What requests will write.                                               *)

\* Time only makes more invitations expire, and the others are not touched.
LEMMA OthersWrite ==
    ASSUME TypeOK, TypeOK', WriteInv, NEW r \in Requests, clock <= clock',
           \A q \in Requests \ {r} : req'[q] = req[q], WriteSuits(req[r])'
    PROVE  WriteInv'
  <1> SUFFICES ASSUME NEW q \in Requests \ {r} PROVE WriteSuits(req[q])'
    BY DEF WriteInv
  <1>1. req'[q] = req[q] /\ WriteSuits(req[q])
    BY DEF WriteInv
  <1>2. \A i \in Invitation : IsExpired(i) => IsExpired(i)'
    BY DEF TypeOK, IsExpired, Invitation, NoInvitation
  <1>3. req[q].row \in Invitation
    BY FieldTypes DEF Request
  <1>4. IsExpired(req[q].row) => IsExpired(req[q].row)'
    BY <1>1, <1>2, <1>3 DEF IsExpired
  <1> QED
    BY <1>1, <1>4 DEF WriteSuits

LEMMA WritesSuit ==
    ASSUME TypeOK, TypeOK', WriteInv, [Next]_vars
    PROVE  WriteInv'
  <1> USE DEF rowVars
  <1>0. clock <= clock
    BY DEF TypeOK
  <1>1. ASSUME NEW r \in Requests, req' = [req EXCEPT ![r] = Idle], clock' = clock
        PROVE  WriteInv'
    <2>1. Goes(r, Idle)
      BY <1>1, GoesOn
    <2>2. WriteSuits(req[r])'
      BY <2>1 DEF Goes, Idle, WriteSuits
    <2> QED
      BY <1>0, <1>1, <2>1, <2>2, OthersWrite DEF Goes
  <1>2. ASSUME NEW r \in Requests, NEW x, req' = [req EXCEPT ![r] = x],
               clock' = clock, WriteSuits(req[r])'
        PROVE  WriteInv'
    <2>1. Goes(r, x)
      BY <1>2, GoesOn
    <2> QED
      BY <1>0, <1>2, <2>1, OthersWrite DEF Goes
  <1>3. ASSUME NEW r \in Requests, NEW o \in UseCases, Receive(r, o)
        PROVE  WriteInv'
    <2> DEFINE x == [Idle EXCEPT !.op = o, !.step = FirstStep(o)]
    <2>1. req' = [req EXCEPT ![r] = x] /\ clock' = clock
      BY <1>3 DEF Receive
    <2>2. req'[r] = x
      BY <2>1, GoesOn DEF Goes
    <2>3. x.op = o /\ x.step = FirstStep(o)
      BY DEF Idle
    <2> HIDE DEF x
    <2>4. WriteSuits(req[r])'
      BY <2>2, <2>3 DEF WriteSuits, FirstStep
    <2> QED
      BY <1>2, <2>1, <2>4
  <1>4. ASSUME NEW r \in Requests, InvitationStep(r) PROVE WriteInv'
    <2>0. req[r] \in Request /\ WriteSuits(req[r])
      BY FieldTypes DEF WriteInv
    <2>1. CASE FindMember(r)
      <3> DEFINE x == [req[r] EXCEPT !.member = member,
                         !.step = IF req[r].op = "accept" THEN "join" ELSE "pending"]
      <3>1. req' = [req EXCEPT ![r] = x] /\ clock' = clock
        BY <2>1 DEF FindMember
      <3>2. req'[r] = x
        BY <3>1, GoesOn DEF Goes
      <3>3. /\ x.op = req[r].op /\ x.id = req[r].id /\ x.row = req[r].row
            /\ x.new = req[r].new /\ x.member = member
            /\ x.step = IF req[r].op = "accept" THEN "join" ELSE "pending"
        BY <2>0 DEF Request
      <3> HIDE DEF x
      <3>4. req[r].op = "accept" => req[r].row \in Invitation \ {NoInvitation}
        BY <2>0, <2>1 DEF FindMember, WriteSuits, Request, NoInvitation
      <3>5. req[r].op = "accept" => req[r].new # NoInvitation
        BY <2>0, <2>1, <3>4 DEF FindMember, WriteSuits, Invitation, NoInvitation
      <3>7. ASSUME req[r].op = "accept" PROVE WriteSuits(req[r])'
        BY <2>0, <2>1, <3>2, <3>3, <3>5, <3>7 DEF FindMember, Invitable, WriteSuits
      <3>8. ASSUME req[r].op = "invite" PROVE WriteSuits(req[r])'
        BY <2>1, <3>2, <3>3, <3>8 DEF FindMember, Invitable, WriteSuits
      <3>9. ASSUME req[r].op = "resend" PROVE WriteSuits(req[r])'
        BY <2>1, <3>2, <3>3, <3>9 DEF FindMember, Invitable, WriteSuits
      <3> QED
        BY <1>2, <2>1, <3>1, <3>7, <3>8, <3>9 DEF FindMember
    <2>2. CASE FindNoneOpen(r)
      <3> DEFINE x == [req[r] EXCEPT !.step = "older"]
      <3>1. req' = [req EXCEPT ![r] = x] /\ clock' = clock
        BY <2>2 DEF FindNoneOpen
      <3>2. req'[r] = x
        BY <3>1, GoesOn DEF Goes
      <3>3. x.op = req[r].op /\ x.member = req[r].member /\ x.step = "older"
        BY <2>0 DEF Request
      <3> HIDE DEF x
      <3>4. WriteSuits(req[r])'
        BY <2>0, <2>2, <3>2, <3>3 DEF FindNoneOpen, WriteSuits
      <3> QED
        BY <1>2, <3>1, <3>4
    <2>3. ASSUME NEW i \in InvitationIds, NEW t \in Tokens, Prepare(r, i, t),
                 req[r].step \in {"pending", "older"},
                 req[r].op = "invite" => invitation[i] = NoInvitation,
                 req[r].op = "resend" => invitation[i].status \notin {"NONE", "ACCEPTED"}
          PROVE  WriteInv'
      <3> DEFINE new == [status |-> "PENDING", token |-> t, expiresAt |-> clock + Ttl]
                 x == [req[r] EXCEPT !.id = i, !.row = invitation[i],
                                     !.step = "save", !.new = new]
      <3>1. req' = [req EXCEPT ![r] = x] /\ clock' = clock
        BY <2>3 DEF Prepare
      <3>2. req'[r] = x
        BY <3>1, GoesOn DEF Goes
      <3>3. /\ x.op = req[r].op /\ x.id = i /\ x.row = invitation[i]
            /\ x.new.status = "PENDING" /\ x.member = req[r].member
            /\ x.step = "save" /\ x.new # NoInvitation
        BY <2>0 DEF Request, NoInvitation
      <3> HIDE DEF x
      <3>4. req[r].op \in {"invite", "resend"}
        BY <2>0, <2>3 DEF WriteSuits
      <3>5. WriteSuits(req[r])'
        BY <2>0, <2>3, <3>2, <3>3, <3>4, MembershipAssumption DEF WriteSuits
      <3> QED
        BY <1>2, <3>1, <3>5
    <2>4. ASSUME NEW i \in InvitationIds, NEW s \in InvitationStatuses,
                 NEW n \in {"save", "staff"}, Mark(r, i, s, n),
                 invitation[i] # NoInvitation, s # "PENDING",
                 s = "REVOKED" <=> req[r].op = "revoke",
                 s = "EXPIRED" => /\ req[r].op \in {"validate", "accept"}
                                  /\ invitation[i].status = "PENDING"
                                  /\ IsExpired(invitation[i]),
                 s = "ACCEPTED" <=> n = "staff",
                 s = "ACCEPTED" => invitation[i].status = "PENDING",
                 req[r].op \notin {"invite", "resend"}
          PROVE  WriteInv'
      <3> DEFINE new == [invitation[i] EXCEPT !.status = s]
                 x == [req[r] EXCEPT !.id = i, !.row = invitation[i],
                                     !.step = n, !.new = new]
      <3>1. req' = [req EXCEPT ![r] = x] /\ clock' = clock
        BY <2>4 DEF Mark
      <3>2. req'[r] = x
        BY <3>1, GoesOn DEF Goes
      <3>3. /\ x.op = req[r].op /\ x.id = i /\ x.row = invitation[i]
            /\ x.new = new /\ x.step = n
        BY <2>0 DEF Request
      <3>4. new.status = s /\ new # NoInvitation
        BY <2>4 DEF TypeOK, Invitation, InvitationStatuses, NoInvitation
      <3> HIDE DEF x
      <3>5. s # "EXPIRED" => s \in {"REVOKED", "ACCEPTED"}
        BY <2>4 DEF InvitationStatuses
      <3>6. IsExpired(invitation[i]) => IsExpired(req[r].row)'
        BY <3>1, <3>2, <3>3 DEF IsExpired
      <3>7. ASSUME s = "REVOKED" PROVE WriteSuits(req[r])'
        BY <2>4, <3>2, <3>3, <3>4, <3>7, MembershipAssumption DEF WriteSuits
      <3>8. ASSUME s = "ACCEPTED" PROVE WriteSuits(req[r])'
        BY <2>4, <3>2, <3>3, <3>4, <3>8, MembershipAssumption DEF WriteSuits
      <3>9. ASSUME s = "EXPIRED" PROVE WriteSuits(req[r])'
        BY <2>4, <3>2, <3>3, <3>4, <3>6, <3>9, MembershipAssumption DEF WriteSuits
      <3> QED
        BY <1>2, <3>1, <3>5, <3>7, <3>8, <3>9
    <2>5. ASSUME NEW i \in InvitationIds, NEW t \in Tokens,
                 \/ PrepareInvitation(r, i, t)
                 \/ RenewOpen(r, i, t)
                 \/ RenewOlder(r, i, t)
          PROVE  WriteInv'
      BY <2>0, <2>3, <2>5
      DEF PrepareInvitation, RenewOpen, RenewOlder, IsOpen, WriteSuits
    <2>6. ASSUME NEW i \in InvitationIds,
                 FindRevoked(r, i) \/ FindExpired(r, i) \/ FindAccepted(r, i)
          PROVE  WriteInv'
      <3>1. CASE FindRevoked(r, i)
        BY <2>4, <3>1 DEF FindRevoked, InvitationStatuses
      <3>2. CASE FindExpired(r, i)
        BY <2>4, <3>2 DEF FindExpired, InvitationStatuses, NoInvitation
      <3>3. CASE FindAccepted(r, i)
        BY <2>4, <3>3 DEF FindAccepted, InvitationStatuses, NoInvitation
      <3> QED
        BY <2>6, <3>1, <3>2, <3>3
    <2>7. CASE Save(r)
      <3>1. CASE req[r].op \in {"invite", "resend"}
        <4> DEFINE x == [req[r] EXCEPT !.step = "mail"]
        <4>1. req' = [req EXCEPT ![r] = x] /\ clock' = clock
          BY <2>7, <3>1 DEF Save
        <4>2. req'[r] = x
          BY <4>1, GoesOn DEF Goes
        <4>3. /\ x.op = req[r].op /\ x.id = req[r].id /\ x.new = req[r].new
              /\ x.step = "mail"
          BY <2>0 DEF Request
        <4> HIDE DEF x
        <4>4. WriteSuits(req[r])'
          BY <2>0, <2>7, <4>2, <4>3 DEF Save, WriteSuits
        <4> QED
          BY <1>2, <4>1, <4>4
      <3>2. CASE req[r].op \notin {"invite", "resend"}
        BY <1>1, <2>7, <3>2 DEF Save
      <3> QED
        BY <3>1, <3>2
    <2>8. CASE Mail(r)
      BY <1>1, <2>8 DEF Mail
    <2>9. CASE Join(r)
      BY <1>1, <2>9 DEF Join, Joined
    <2> QED
      BY <1>4, <2>1, <2>2, <2>5, <2>6, <2>7, <2>8, <2>9 DEF InvitationStep
  <1>5. ASSUME NEW r \in Requests, MemberStep(r) PROVE WriteInv'
    <2>0. req[r] \in Request /\ WriteSuits(req[r])
      BY FieldTypes DEF WriteInv
    <2>1. ASSUME NEW x, req' = [req EXCEPT ![r] = x], clock' = clock,
                 x.op = req[r].op, x.step \in {"remove", "status", "keep"}
          PROVE  WriteInv'
      <3>1. req'[r] = x
        BY <2>1, GoesOn DEF Goes
      <3>2. WriteSuits(req[r])'
        BY <2>1, <3>1 DEF WriteSuits
      <3> QED
        BY <1>2, <2>1, <3>2
    <2>2. CASE FindStaff(r)
      <3> DEFINE x == [req[r] EXCEPT !.member = member, !.password = password,
                         !.step = CASE req[r].op = "remove" -> "remove"
                                    [] req[r].op \in {"update", "reset"} -> "keep"
                                    [] OTHER -> "status"]
      <3>1. x.op = req[r].op /\ x.step \in {"remove", "status", "keep"}
        BY <2>0 DEF Request
      <3>2. req' = [req EXCEPT ![r] = x] /\ clock' = clock
        BY <2>2 DEF FindStaff
      <3> HIDE DEF x
      <3> QED
        BY <2>1, <3>1, <3>2
    <2>3. CASE UpdateStatus(r)
      <3> DEFINE s == IF req[r].op = "activate" THEN "ACTIVE" ELSE "INACTIVE"
                 x == [req[r] EXCEPT !.member.status = s, !.step = "keep"]
      <3>1. x.op = req[r].op /\ x.step = "keep"
        BY <2>0 DEF Request
      <3>2. req' = [req EXCEPT ![r] = x] /\ clock' = clock
        BY <2>3 DEF UpdateStatus
      <3> HIDE DEF x
      <3> QED
        BY <2>1, <3>1, <3>2
    <2>4. CASE RemoveStaff(r) \/ SaveStaff(r)
      BY <1>1, <2>4 DEF RemoveStaff, SaveStaff
    <2> QED
      BY <1>5, <2>2, <2>3, <2>4 DEF MemberStep
  <1>6. ASSUME NEW r \in Requests, End(r) PROVE WriteInv'
    BY <1>1, <1>6 DEF End
  <1>7. CASE Tick
    <2>1. clock <= clock' /\ req' = req
      BY <1>7 DEF Tick, TypeOK
    <2>2. ASSUME NEW r \in Requests PROVE WriteSuits(req[r])'
      <3>1. WriteSuits(req[r]) /\ req[r].row \in Invitation
        BY FieldTypes DEF WriteInv, Request
      <3>2. IsExpired(req[r].row) => IsExpired(req[r].row)'
        BY <2>1, <3>1 DEF TypeOK, IsExpired, Invitation, NoInvitation
      <3> QED
        BY <2>1, <3>1, <3>2 DEF WriteSuits
    <2> QED
      BY <2>2 DEF WriteInv
  <1>8. CASE UNCHANGED vars
    BY <1>8 DEF vars, WriteInv, WriteSuits, IsExpired
  <1> QED
    BY <1>3, <1>4, <1>5, <1>6, <1>7, <1>8 DEF Next

-----------------------------------------------------------------------------
(* The membership.                                                         *)

\* A membership that exists stays, and what the others read of it too.
LEMMA OthersStaff ==
    ASSUME TypeOK, StaffInv, NEW r \in Requests,
           member # NoMember => member' # NoMember,
           \A q \in Requests \ {r} : req'[q] = req[q], StaffSuits(req[r])'
    PROVE  StaffInv'
  <1> SUFFICES ASSUME NEW q \in Requests \ {r} PROVE StaffSuits(req[q])'
    BY DEF StaffInv
  <1>1. req'[q] = req[q] /\ StaffSuits(req[q])
    BY DEF StaffInv
  <1> QED
    BY <1>1 DEF StaffSuits

LEMMA StaffKept ==
    ASSUME TypeOK, StaffInv, RemovalIsDated, [Next]_vars
    PROVE  StaffInv' /\ RemovalIsDated'
  <1> USE DEF rowVars
  <1>1. ASSUME NEW r \in Requests, NEW x, req' = [req EXCEPT ![r] = x],
               x.step \notin {"remove", "status", "keep"},
               member # NoMember => member' # NoMember
        PROVE  StaffInv'
    <2>1. Goes(r, x)
      BY <1>1, GoesOn
    <2>2. StaffSuits(req[r])'
      BY <1>1, <2>1 DEF Goes, StaffSuits
    <2> QED
      BY <1>1, <2>1, <2>2, OthersStaff DEF Goes
  <1>2. ASSUME NEW r \in Requests, req' = [req EXCEPT ![r] = Idle],
               member # NoMember => member' # NoMember
        PROVE  StaffInv'
    <2>1. Idle.step \notin {"remove", "status", "keep"}
      BY DEF Idle
    <2> QED
      BY <1>1, <1>2, <2>1
  <1>3. ASSUME NEW r \in Requests, NEW o \in UseCases, Receive(r, o)
        PROVE  StaffInv' /\ RemovalIsDated'
    <2> DEFINE x == [Idle EXCEPT !.op = o, !.step = FirstStep(o)]
    <2>1. x.step \notin {"remove", "status", "keep"}
      BY DEF Idle, FirstStep
    <2>2. req' = [req EXCEPT ![r] = x] /\ member' = member
      BY <1>3 DEF Receive
    <2> HIDE DEF x
    <2> QED
      BY <1>1, <2>1, <2>2 DEF RemovalIsDated
  <1>4. ASSUME NEW r \in Requests, InvitationStep(r)
        PROVE  StaffInv' /\ RemovalIsDated'
    <2>0. req[r] \in Request
      BY FieldTypes
    <2>1. ASSUME NEW x, req' = [req EXCEPT ![r] = x], member' = member,
                 x.step \notin {"remove", "status", "keep"}
          PROVE  StaffInv' /\ RemovalIsDated'
      BY <1>1, <2>1 DEF RemovalIsDated
    <2>2. CASE FindMember(r)
      <3> DEFINE x == [req[r] EXCEPT !.member = member,
                         !.step = IF req[r].op = "accept" THEN "join" ELSE "pending"]
      <3>1. x.step \in {"join", "pending"}
        BY <2>0 DEF Request
      <3>2. req' = [req EXCEPT ![r] = x] /\ member' = member
        BY <2>2 DEF FindMember
      <3> HIDE DEF x
      <3> QED
        BY <2>1, <3>1, <3>2
    <2>3. CASE FindNoneOpen(r)
      <3> DEFINE x == [req[r] EXCEPT !.step = "older"]
      <3>1. x.step = "older"
        BY <2>0 DEF Request
      <3>2. req' = [req EXCEPT ![r] = x] /\ member' = member
        BY <2>3 DEF FindNoneOpen
      <3> HIDE DEF x
      <3> QED
        BY <2>1, <3>1, <3>2
    <2>4. ASSUME NEW i \in InvitationIds, NEW t \in Tokens, Prepare(r, i, t)
          PROVE  StaffInv' /\ RemovalIsDated'
      <3> DEFINE x == [req[r] EXCEPT !.id = i, !.row = invitation[i], !.step = "save",
                         !.new = [status |-> "PENDING", token |-> t,
                                  expiresAt |-> clock + Ttl]]
      <3>1. x.step = "save"
        BY <2>0 DEF Request
      <3>2. req' = [req EXCEPT ![r] = x] /\ member' = member
        BY <2>4 DEF Prepare
      <3> HIDE DEF x
      <3> QED
        BY <2>1, <3>1, <3>2
    <2>5. ASSUME NEW i \in InvitationIds, NEW s, NEW n \in {"save", "staff"},
                 Mark(r, i, s, n)
          PROVE  StaffInv' /\ RemovalIsDated'
      <3> DEFINE x == [req[r] EXCEPT !.id = i, !.row = invitation[i], !.step = n,
                                     !.new = [invitation[i] EXCEPT !.status = s]]
      <3>1. x.step = n
        BY <2>0 DEF Request
      <3>2. req' = [req EXCEPT ![r] = x] /\ member' = member
        BY <2>5 DEF Mark
      <3> HIDE DEF x
      <3> QED
        BY <2>1, <3>1, <3>2
    <2>6. CASE Save(r)
      <3> DEFINE x == [req[r] EXCEPT !.step = "mail"]
      <3>1. x.step = "mail" /\ Idle.step = "idle"
        BY <2>0 DEF Request, Idle
      <3>2. /\ member' = member
            /\ \/ req' = [req EXCEPT ![r] = x]
               \/ req' = [req EXCEPT ![r] = Idle]
        BY <2>6 DEF Save
      <3> HIDE DEF x
      <3>3. ASSUME req' = [req EXCEPT ![r] = x] PROVE StaffInv' /\ RemovalIsDated'
        BY <2>1, <3>1, <3>2, <3>3
      <3> QED
        BY <1>2, <3>2, <3>3 DEF RemovalIsDated
    <2>7. CASE Mail(r)
      BY <1>2, <2>7 DEF Mail, RemovalIsDated
    <2>8. CASE Join(r)
      BY <1>2, <2>8 DEF Join, Joined, RemovalIsDated, NoMember
    <2> QED
      BY <1>4, <2>2, <2>3, <2>4, <2>5, <2>6, <2>7, <2>8
      DEF InvitationStep, FindRevoked, FindExpired, FindAccepted,
          PrepareInvitation, RenewOpen, RenewOlder
  <1>5. ASSUME NEW r \in Requests, MemberStep(r)
        PROVE  StaffInv' /\ RemovalIsDated'
    <2>0. /\ req[r] \in Request /\ StaffSuits(req[r])
          /\ member \in Membership /\ req[r].member \in Membership
      BY FieldTypes DEF StaffInv, TypeOK, Request
    <2>1. ASSUME NEW x, req' = [req EXCEPT ![r] = x],
                 member # NoMember => member' # NoMember, StaffSuits(req[r])'
          PROVE  StaffInv'
      BY <2>1, GoesOn, OthersStaff DEF Goes
    <2>2. CASE FindStaff(r)
      <3> DEFINE x == [req[r] EXCEPT !.member = member, !.password = password,
                         !.step = CASE req[r].op = "remove" -> "remove"
                                    [] req[r].op \in {"update", "reset"} -> "keep"
                                    [] OTHER -> "status"]
      <3>1. /\ x.op = req[r].op /\ x.member = member
            /\ x.step = CASE req[r].op = "remove" -> "remove"
                          [] req[r].op \in {"update", "reset"} -> "keep"
                          [] OTHER -> "status"
        BY <2>0 DEF Request
      <3>2. req' = [req EXCEPT ![r] = x] /\ member' = member
        BY <2>2 DEF FindStaff
      <3>3. req'[r] = x
        BY <3>2, GoesOn DEF Goes
      <3> HIDE DEF x
      <3>4. StaffSuits(req[r])'
        BY <2>2, <3>1, <3>2, <3>3
        DEF FindStaff, StaffSuits, Suits, CanBeRemoved, CanBeSetTo,
           CanBeUpdated, CanReset, RemovalIsDated, NoMember
      <3> QED
        BY <2>1, <3>2, <3>4 DEF RemovalIsDated
    <2>3. CASE RemoveStaff(r)
      BY <1>2, <2>3 DEF RemoveStaff, RemovalIsDated, NoMember
    <2>4. CASE UpdateStatus(r)
      <3> DEFINE s == IF req[r].op = "activate" THEN "ACTIVE" ELSE "INACTIVE"
                 x == [req[r] EXCEPT !.member.status = s, !.step = "keep"]
      <3>1. member # NoMember /\ req[r].member # NoMember
            /\ req[r].op \in {"activate", "deactivate"}
        BY <2>0, <2>4 DEF UpdateStatus, StaffSuits
      <3>2. x.op = req[r].op /\ x.step = "keep" /\ x.member.status = s
        BY <2>0, <3>1 DEF Request, Membership
      <3>3. req' = [req EXCEPT ![r] = x]
        BY <2>4 DEF UpdateStatus
      <3>4. req'[r] = x
        BY <3>3, GoesOn DEF Goes
      <3>5. member'.status = s
        BY <2>0, <2>4, <3>1 DEF UpdateStatus, Membership
      <3>6. s \in {"ACTIVE", "INACTIVE"}
        OBVIOUS
      <3> HIDE DEF x, s
      <3>7. StaffSuits(req[r])'
        BY <3>1, <3>2, <3>4, <3>5, <3>6 DEF StaffSuits, NoMember
      <3>8. member' # NoMember
        BY <3>5, <3>6 DEF NoMember
      <3>9. StaffInv'
        BY <2>1, <3>3, <3>7, <3>8
      <3> QED
        BY <3>5, <3>6, <3>9 DEF RemovalIsDated
    <2>5. CASE SaveStaff(r)
      BY <1>2, <2>0, <2>5 DEF SaveStaff, RemovalIsDated, StaffSuits
    <2> QED
      BY <1>5, <2>2, <2>3, <2>4, <2>5 DEF MemberStep
  <1>6. ASSUME NEW r \in Requests, End(r) PROVE StaffInv' /\ RemovalIsDated'
    BY <1>2, <1>6 DEF End, RemovalIsDated
  <1>7. CASE UNCHANGED <<member, req>>
    BY <1>7 DEF StaffInv, StaffSuits, RemovalIsDated
  <1> QED
    BY <1>3, <1>4, <1>5, <1>6, <1>7 DEF Next, Tick, vars

-----------------------------------------------------------------------------
(* The invariant.                                                          *)

LEMMA InitInv == Init => MembershipInv
  <1> SUFFICES ASSUME Init PROVE MembershipInv
    OBVIOUS
  <1> USE DEF Init
  <1>1. TypeOK
    <2>1. Idle \in Request
      BY DEF Idle, Request, Invitation, Membership
    <2> QED
      BY <2>1 DEF TypeOK, Invitation, Membership
  <1>2. OwnerInv
    BY MembershipAssumption DEF OwnerInv, Owns, TokensOf, Idle, NoInvitation
  <1>3. UnsavedInv /\ InsertInv
    BY DEF UnsavedInv, InsertInv, IsUnsaved, Idle
  <1>4. WriteInv /\ StaffInv
    BY DEF WriteInv, WriteSuits, StaffInv, StaffSuits, Idle
  <1>5. RemovalIsDated
    BY DEF RemovalIsDated, NoMember
  <1> QED
    BY <1>1, <1>2, <1>3, <1>4, <1>5 DEF MembershipInv

LEMMA NextInv == MembershipInv /\ [Next]_vars => MembershipInv'
  <1> SUFFICES ASSUME MembershipInv, [Next]_vars PROVE MembershipInv'
    OBVIOUS
  <1>1. TypeOK'
    BY TypesKept DEF MembershipInv
  <1>2. LinkPart'
    BY LinksKept DEF MembershipInv, LinkPart
  <1>3. WriteInv'
    BY <1>1, WritesSuit DEF MembershipInv
  <1>4. StaffInv' /\ RemovalIsDated'
    BY StaffKept DEF MembershipInv
  <1> QED
    BY <1>1, <1>2, <1>3, <1>4 DEF MembershipInv, LinkPart

\* The inductive invariant holds, for all values of the constants.
THEOREM MembershipInvariant == Spec => []MembershipInv
  BY InitInv, NextInv, PTL DEF Spec

\* Every variable keeps its type.
THEOREM MembershipTypes == Spec => []TypeOK
  BY MembershipInvariant, PTL DEF MembershipInv

\* A membership marked as removed has the date, however it was written over.
THEOREM RemovalsAreDated == Spec => []RemovalIsDated
  BY MembershipInvariant, PTL DEF MembershipInv

\* No write of any number of concurrent requests meets its token elsewhere.
THEOREM TokenKeyNeverRefusesAny == Spec => []TokenKeyNeverRefuses
  <1>1. MembershipInv => TokenKeyNeverRefuses
    <2> SUFFICES ASSUME MembershipInv, NEW r \in Requests,
                        req[r].step \in {"save", "join"},
                        NEW j \in InvitationIds \ {req[r].id},
                        invitation[j].token = req[r].new.token
                 PROVE  FALSE
      BY DEF TokenKeyNeverRefuses, KeyFree
    <2>1. req[r].id \in InvitationIds /\ req[r].new.token \in Tokens
      BY WritesToken DEF MembershipInv
    <2>2. Owns(j, req[r].new.token) /\ Owns(req[r].id, req[r].new.token)
      BY DEF Owns, TokensOf
    <2> QED
      BY <2>1, <2>2 DEF MembershipInv, OwnerInv
  <1> QED
    BY <1>1, MembershipInvariant, PTL

-----------------------------------------------------------------------------
(* Dead links.                                                             *)

\* What a step may be, if it leaves the rows or the clock different.
LEMMA StepKinds ==
    ASSUME [Next]_vars
    PROVE  \/ invitation' = invitation /\ member' = member
              /\ password' = password /\ clock' = clock
           \/ Tick
           \/ \E r \in Requests : \/ Save(r) \/ Join(r) \/ RemoveStaff(r)
                                  \/ UpdateStatus(r) \/ SaveStaff(r)
  <1> DEFINE Same == invitation' = invitation /\ member' = member
                     /\ password' = password /\ clock' = clock
  <1> USE DEF rowVars
  <1>1. ASSUME NEW r \in Requests, NEW o \in UseCases, Receive(r, o) PROVE Same
    BY <1>1 DEF Receive
  <1>2. ASSUME NEW r \in Requests, End(r) PROVE Same
    BY <1>2 DEF End
  <1>3. ASSUME NEW r \in Requests, InvitationStep(r)
        PROVE  Same \/ Save(r) \/ Join(r)
    <2>1. CASE FindMember(r) \/ FindNoneOpen(r) \/ Mail(r)
      BY <2>1 DEF FindMember, FindNoneOpen, Mail
    <2>2. ASSUME NEW i \in InvitationIds, NEW s, NEW n, Mark(r, i, s, n) PROVE Same
      BY <2>2 DEF Mark
    <2>3. ASSUME NEW i \in InvitationIds, NEW t \in Tokens, Prepare(r, i, t) PROVE Same
      BY <2>3 DEF Prepare
    <2> HIDE DEF Same
    <2> QED
      BY <1>3, <2>1, <2>2, <2>3
      DEF InvitationStep, FindRevoked, FindExpired, FindAccepted,
          PrepareInvitation, RenewOpen, RenewOlder
  <1>4. ASSUME NEW r \in Requests, FindStaff(r) PROVE Same
    BY <1>4 DEF FindStaff
  <1>5. CASE UNCHANGED vars
    BY <1>5 DEF vars
  <1> HIDE DEF Same
  <1>6. Same => invitation' = invitation /\ member' = member
                /\ password' = password /\ clock' = clock
    BY DEF Same
  <1>7. ASSUME NEW r \in Requests, MemberStep(r)
        PROVE  Same \/ RemoveStaff(r) \/ UpdateStatus(r) \/ SaveStaff(r)
    BY <1>4, <1>7 DEF MemberStep
  <1> QED
    BY <1>1, <1>2, <1>3, <1>5, <1>6, <1>7 DEF Next

LEMMA LinksStep ==
    ASSUME MembershipInv, [Next]_vars, NEW t \in mailed, Works(t)'
    PROVE  Works(t)
  <1> USE DEF rowVars
  <1>0. PICK i \in InvitationIds :
            /\ invitation'[i].status = "PENDING" /\ invitation'[i].token = t
            /\ ~IsExpired(invitation[i])'
    BY DEF Works
  <1>1. CASE invitation'[i] = invitation[i]
    <2>1. clock <= clock' /\ clock \in Nat /\ clock' \in Nat
      <3>1. clock \in Nat
        BY DEF MembershipInv, TypeOK
      <3>2. CASE Tick
        BY <3>1, <3>2 DEF Tick
      <3>3. ASSUME NEW r \in Requests,
                   \/ Save(r) \/ Join(r) \/ RemoveStaff(r)
                   \/ UpdateStatus(r) \/ SaveStaff(r)
            PROVE  clock' = clock
        BY <3>3 DEF Save, Join, Joined, RemoveStaff, UpdateStatus, SaveStaff
      <3> QED
        BY StepKinds, <3>1, <3>2, <3>3
    <2>2. invitation[i].expiresAt \in Nat
      BY DEF MembershipInv, TypeOK, Invitation, NoInvitation
    <2> QED
      BY <1>0, <1>1, <2>1, <2>2 DEF Works, IsExpired
  <1>2. ASSUME NEW r \in Requests, Save(r), invitation'[i] # invitation[i]
        PROVE  FALSE
    <2>1. i = req[r].id /\ invitation'[i] = req[r].new
      BY <1>2 DEF Save, MembershipInv, TypeOK
    <2>2. req[r].step = "save" /\ WriteSuits(req[r])
          /\ req[r] \in Request /\ req[r].row \in Invitation
      BY <1>2, FieldTypes DEF Save, MembershipInv, WriteInv, Request
    <2>3. req[r].op \in {"invite", "resend"}
      BY <1>0, <2>1, <2>2 DEF WriteSuits, Invitation, NoInvitation
    <2> QED
      BY <1>0, <2>1, <2>2, <2>3 DEF MembershipInv, UnsavedInv, IsUnsaved
  <1>3. ASSUME NEW r \in Requests, Join(r), invitation'[i] # invitation[i]
        PROVE  FALSE
    <2>1. i = req[r].id /\ invitation'[i] = req[r].new
      BY <1>3 DEF Join, Joined, MembershipInv, TypeOK
    <2>2. req[r].step = "join" /\ WriteSuits(req[r])
          /\ req[r] \in Request /\ req[r].row \in Invitation
      BY <1>3, FieldTypes DEF Join, Joined, MembershipInv, WriteInv, Request
    <2>3. req[r].new.status = "ACCEPTED"
      BY <2>2 DEF WriteSuits, Invitation, NoInvitation
    <2> QED
      BY <1>0, <2>1, <2>3
  <1>4. CASE invitation' = invitation
    BY <1>1, <1>4
  <1> QED
    BY <1>1, <1>2, <1>3, <1>4, StepKinds
       DEF Tick, RemoveStaff, UpdateStatus, SaveStaff

\* No write of any number of concurrent requests revives a mailed link.
THEOREM MailedLinksStayDead == Spec => LinksStayDead
  <1>1. MembershipInv /\ [Next]_vars
          => [\A t \in mailed : Works(t)' => Works(t)]_vars
    BY LinksStep
  <1> QED
    BY <1>1, MembershipInvariant, PTL DEF Spec, LinksStayDead

-----------------------------------------------------------------------------
(* Why StaffMembership keeps to StaffRoster but for outdated readings: a   *)
(* write whose reading still holds is one operation of the roster, by what *)
(* the invariant knows of the request, and the other steps do not show.    *)

\* An operation of the roster, or a step that the roster does not show.
RosterStep == [Roster!RosterNext]_(Roster!rosterVars)

\* What offers mean for a row.
LEMMA OfferMeaning ==
    ASSUME TypeOK, NEW row \in Invitation
    PROVE  /\ row.status = "PENDING" /\ clock < row.expiresAt
                 <=> Offer(row) = "open"
           /\ row.status = "PENDING" /\ clock <= row.expiresAt
                 <=> Offer(row) \in Roster!Usable
           /\ row.status = "PENDING" /\ row.expiresAt < clock => Offer(row) = "lapsed"
           /\ row = NoInvitation <=> Offer(row) = "unused"
           /\ row.status = "ACCEPTED" <=> Offer(row) = "accepted"
           /\ row.status = "REVOKED" <=> Offer(row) = "revoked"
           /\ row.status = "EXPIRED" => Offer(row) = "lapsed"
           /\ Offer(row) \in Roster!Offers
  BY DEF TypeOK, Invitation, NoInvitation, InvitationStatuses, Offer, IsExpired,
         Roster!Usable, Roster!Offers

\* A write of one invitation changes its offer only.
LEMMA OneOffer ==
    ASSUME TypeOK, NEW i \in InvitationIds, NEW row \in Invitation,
           clock' = clock,
           invitation' = [invitation EXCEPT ![i] = row]
    PROVE  [j \in InvitationIds |-> Offer(invitation[j])]'
             = [[j \in InvitationIds |-> Offer(invitation[j])] EXCEPT ![i] = Offer(row)]
  <1> DEFINE o == [j \in InvitationIds |-> Offer(invitation[j])]
  <1>1. ASSUME NEW j \in InvitationIds
        PROVE  Offer(invitation[j])' = IF j = i THEN Offer(row) ELSE Offer(invitation[j])
    <2>1. /\ invitation'[j] = IF j = i THEN row ELSE invitation[j]
          /\ invitation[j] \in Invitation
      BY DEF TypeOK
    <2>2. CASE j = i
      BY <2>1, <2>2 DEF Offer, IsExpired, Invitation, NoInvitation, InvitationStatuses
    <2>3. CASE j # i
      BY <2>1, <2>3 DEF Offer, IsExpired, Invitation, NoInvitation, InvitationStatuses
    <2> QED
      BY <2>2, <2>3
  <1> QED
    BY <1>1

\* A step with the rows and the clock unchanged does not show.
LEMMA Unseen ==
    ASSUME invitation' = invitation, clock' = clock,
           member' = member, password' = password
    PROVE  RosterStep
  BY DEF RosterStep, Roster!rosterVars, Offer, IsExpired

LEMMA TickShows == TypeOK /\ Tick => RosterStep
  <1> SUFFICES ASSUME TypeOK, Tick PROVE RosterStep
    OBVIOUS
  <1>1. clock \in Nat /\ clock' = clock + 1 /\ invitation' = invitation
        /\ member' = member /\ password' = password
    BY DEF Tick, TypeOK, rowVars
  <1>2. ASSUME NEW i \in InvitationIds
        PROVE  /\ Offer(invitation[i])' \in Roster!Offers
               /\ Offer(invitation[i])' \in Roster!Older(Offer(invitation[i]))
    BY <1>1, <1>2 DEF TypeOK, Invitation, NoInvitation, InvitationStatuses, Offer,
       IsExpired, Roster!Offers, Roster!Usable, Roster!Older
  <1>3. Roster!Pass
    BY <1>1, <1>2 DEF Roster!Pass
  <1> QED
    BY <1>3 DEF RosterStep, Roster!RosterNext

LEMMA SaveShows ==
    ASSUME MembershipInv, NEW r \in Requests, Save(r), ~IsStale(r)
    PROVE  RosterStep
  <1> DEFINE q == req[r]
             o == [j \in InvitationIds |-> Offer(invitation[j])]
  <1>1. /\ q.step = "save" /\ q.id \in InvitationIds /\ q.new \in Invitation
        /\ q.row \in Invitation /\ q.op \in UseCases \cup {"none"}
        /\ WriteSuits(q) /\ TypeOK
    BY WritesToken, FieldTypes DEF Save, MembershipInv, WriteInv, Request
  <1>2. /\ member' = member /\ password' = password /\ clock' = clock
        /\ invitation' = [invitation EXCEPT ![q.id] = q.new]
    BY DEF Save
  <1>3. o' = [o EXCEPT ![q.id] = Offer(q.new)]
    BY <1>1, <1>2, OneOffer
  <1>4. invitation[q.id] = q.row /\ o[q.id] = Offer(q.row)
    BY <1>1 DEF IsStale
  <1>5. CASE q.op \in {"invite", "resend"}
    <2>1. /\ q.new.status = "PENDING" /\ ~IsExpired(q.new)
          /\ q.new.expiresAt # clock /\ member = q.member
      BY <1>1, <1>5 DEF IsStale, WriteSuits
    <2>2. Offer(q.new) = "open"
      BY <1>1, <2>1, OfferMeaning DEF IsExpired, TypeOK, Invitation, NoInvitation
    <2>3. CASE q.op = "invite"
      <3>1. member.status # "ACTIVE" /\ o[q.id] = "unused"
        BY <1>1, <1>4, <2>1, <2>3, OfferMeaning DEF WriteSuits
      <3>2. ASSUME NEW j \in InvitationIds PROVE o[j] # "open"
        BY <1>1, <2>3, OfferMeaning DEF IsStale, IsOpen, TypeOK
      <3>3. Roster!Invite(q.id)
        BY <1>2, <1>3, <2>2, <3>1, <3>2 DEF Roster!Invite
      <3> QED
        BY <1>1, <3>3 DEF RosterStep, Roster!RosterNext
    <2>4. CASE q.op = "resend"
      <3>1. q.row.status \notin {"NONE", "ACCEPTED"} /\ member = NoMember
        BY <1>1, <2>1, <2>4 DEF WriteSuits
      <3>2. o[q.id] \notin {"unused", "accepted"}
        BY <1>1, <1>4, <3>1, OfferMeaning DEF NoInvitation
      <3>3. Roster!Renew(q.id)
        BY <1>2, <1>3, <2>2, <3>1, <3>2 DEF Roster!Renew, NoMember, Roster!NoMember
      <3> QED
        BY <1>1, <3>3 DEF RosterStep, Roster!RosterNext
    <2> QED
      BY <1>5, <2>3, <2>4
  <1>6. CASE q.op = "revoke"
    <2>1. q.row # NoInvitation /\ q.new = [q.row EXCEPT !.status = "REVOKED"]
      BY <1>1, <1>6 DEF WriteSuits
    <2>2. q.new.status = "REVOKED"
      BY <1>1, <2>1 DEF Invitation, NoInvitation
    <2>3. Offer(q.new) = "revoked" /\ o[q.id] # "unused"
      BY <1>1, <1>4, <2>1, <2>2, OfferMeaning
    <2>4. Roster!Revoke(q.id)
      BY <1>2, <1>3, <2>3 DEF Roster!Revoke
    <2> QED
      BY <1>1, <2>4 DEF RosterStep, Roster!RosterNext
  <1>7. CASE q.op \notin {"invite", "resend", "revoke"}
    <2>1. /\ q.row.status = "PENDING" /\ IsExpired(q.row)
          /\ q.new = [q.row EXCEPT !.status = "EXPIRED"]
      BY <1>1, <1>7 DEF WriteSuits
    <2>2. q.new.status = "EXPIRED"
      BY <1>1, <2>1 DEF Invitation, NoInvitation
    <2>3. Offer(q.new) = "lapsed" /\ Offer(q.row) = "lapsed"
      BY <1>1, <2>1, <2>2, OfferMeaning DEF IsExpired
    <2>4. o' = o
      BY <1>3, <1>4, <2>3
    <2> QED
      BY <1>2, <2>4 DEF RosterStep, Roster!rosterVars
  <1> QED
    BY <1>5, <1>6, <1>7

LEMMA JoinShows ==
    ASSUME MembershipInv, NEW r \in Requests, Join(r), ~IsStale(r)
    PROVE  RosterStep
  <1> DEFINE q == req[r]
             o == [j \in InvitationIds |-> Offer(invitation[j])]
  <1>1. /\ q.step = "join" /\ q.id \in InvitationIds /\ q.new \in Invitation
        /\ q.row \in Invitation /\ WriteSuits(q) /\ TypeOK
    BY WritesToken, FieldTypes DEF Join, Joined, MembershipInv, WriteInv, Request
  <1>2. /\ clock' = clock /\ member' = [status |-> "ACTIVE", left |-> FALSE]
        /\ IF password = NoPassword THEN password' \in Passwords
                                    ELSE UNCHANGED password
        /\ invitation' = [invitation EXCEPT ![q.id] = q.new]
    BY DEF Join, Joined
  <1>3. o' = [o EXCEPT ![q.id] = Offer(q.new)]
    BY <1>1, <1>2, OneOffer
  <1>4. /\ q.row.status = "PENDING" /\ q.new = [q.row EXCEPT !.status = "ACCEPTED"]
        /\ q.member.status # "ACTIVE"
    BY <1>1 DEF WriteSuits
  <1>5. q.new.status = "ACCEPTED" /\ q.new.expiresAt = q.row.expiresAt
    BY <1>1, <1>4 DEF Invitation, NoInvitation
  <1>6. /\ invitation[q.id] = q.row /\ o[q.id] = Offer(q.row)
        /\ member = q.member /\ ~IsExpired(q.row)
    BY <1>1, <1>5 DEF IsStale, IsExpired
  <1>7. Offer(q.new) = "accepted" /\ o[q.id] \in Roster!Usable
    BY <1>1, <1>4, <1>5, <1>6, OfferMeaning DEF IsExpired, TypeOK, Invitation,
       NoInvitation
  <1>8. Roster!Join(q.id)
    BY <1>2, <1>3, <1>4, <1>6, <1>7 DEF Joined, Roster!Join
  <1> QED
    BY <1>1, <1>8 DEF RosterStep, Roster!RosterNext

LEMMA MemberShows ==
    ASSUME MembershipInv, NEW r \in Requests, ~IsStale(r),
           RemoveStaff(r) \/ UpdateStatus(r) \/ SaveStaff(r)
    PROVE  RosterStep
  <1> DEFINE q == req[r]
             o == [j \in InvitationIds |-> Offer(invitation[j])]
  <1>1. TypeOK /\ StaffSuits(q)
    BY DEF MembershipInv, StaffInv
  <1>2. q.step \in {"remove", "status", "keep"} /\ clock' = clock
        /\ invitation' = invitation
    BY DEF RemoveStaff, UpdateStatus, SaveStaff
  <1>3. o' = o
    BY <1>2 DEF Offer, IsExpired
  <1>4. member = q.member /\ member # NoMember /\ member \in Membership
    BY <1>1, <1>2 DEF IsStale, StaffSuits, TypeOK
  <1>5. member.status # "NONE"
    BY <1>4 DEF Membership
  <1>6. CASE RemoveStaff(r)
    <2>1. Roster!Leave
      BY <1>1, <1>3, <1>4, <1>5, <1>6 DEF RemoveStaff, StaffSuits, Roster!Leave
    <2> QED
      BY <2>1 DEF RosterStep, Roster!RosterNext
  <1>7. CASE UpdateStatus(r)
    <2>1. q.op \in {"activate", "deactivate"} /\ Suits(q.op, member.status)
      BY <1>1, <1>4, <1>7 DEF UpdateStatus, StaffSuits
    <2>2. CASE q.op = "activate"
      <3>1. Roster!SetStatus("ACTIVE")
        BY <1>3, <1>7, <2>1, <2>2 DEF UpdateStatus, Suits, CanBeRemoved, CanBeSetTo,
           CanBeUpdated, CanReset, Roster!SetStatus
      <3> QED
        BY <3>1 DEF RosterStep, Roster!RosterNext
    <2>3. CASE q.op = "deactivate"
      <3>1. Roster!SetStatus("INACTIVE")
        BY <1>3, <1>7, <2>1, <2>3 DEF UpdateStatus, Suits, CanBeRemoved, CanBeSetTo,
           CanBeUpdated, CanReset, Roster!SetStatus
      <3> QED
        BY <3>1 DEF RosterStep, Roster!RosterNext
    <2> QED
      BY <2>1, <2>2, <2>3
  <1>8. CASE SaveStaff(r)
    <2>1. member' = member /\ q.step = "keep" /\ password = q.password
      BY <1>4, <1>8 DEF SaveStaff, IsStale
    <2>2. CASE q.op = "reset"
      <3>1. Roster!ChangePassword
        BY <1>1, <1>3, <1>4, <1>8, <2>1, <2>2
        DEF SaveStaff, StaffSuits, Roster!ChangePassword
      <3> QED
        BY <3>1 DEF RosterStep, Roster!RosterNext
    <2>3. CASE q.op # "reset"
      BY <1>3, <1>8, <2>1, <2>3 DEF SaveStaff, RosterStep, Roster!rosterVars
    <2> QED
      BY <2>2, <2>3
  <1> QED
    BY <1>6, <1>7, <1>8

\* A write takes its request further, so that a stale one is seen to be the
\* step of that request.
LEMMA WriteMoves ==
    ASSUME TypeOK, NEW r \in Requests,
           Save(r) \/ Join(r) \/ RemoveStaff(r) \/ UpdateStatus(r) \/ SaveStaff(r)
    PROVE  req'[r] # req[r]
  <1>1. req[r] \in Request /\ Idle.step = "idle"
    BY FieldTypes DEF Idle
  <1>2. ASSUME NEW x, req' = [req EXCEPT ![r] = x], x.step # req[r].step
        PROVE  req'[r] # req[r]
    BY <1>2, GoesOn DEF Goes
  <1>3. CASE Save(r)
    <2>1. req[r].step = "save" /\ [req[r] EXCEPT !.step = "mail"].step = "mail"
      BY <1>1, <1>3 DEF Save, Request
    <2> QED
      BY <1>1, <1>2, <1>3, <2>1 DEF Save
  <1>4. CASE Join(r)
    BY <1>1, <1>2, <1>4 DEF Join, Joined
  <1>5. CASE RemoveStaff(r)
    BY <1>1, <1>2, <1>5 DEF RemoveStaff
  <1>6. CASE UpdateStatus(r)
    <2> DEFINE s == IF req[r].op = "activate" THEN "ACTIVE" ELSE "INACTIVE"
               x == [req[r] EXCEPT !.member.status = s, !.step = "keep"]
    <2>1. req[r].step = "status" /\ x.step = "keep"
      BY <1>1, <1>6 DEF UpdateStatus, Request
    <2>2. req' = [req EXCEPT ![r] = x]
      BY <1>6 DEF UpdateStatus
    <2> HIDE DEF x
    <2> QED
      BY <1>2, <2>1, <2>2
  <1>7. CASE SaveStaff(r)
    BY <1>1, <1>2, <1>7 DEF SaveStaff
  <1> QED
    BY <1>3, <1>4, <1>5, <1>6, <1>7

LEMMA OnlyStaleStray ==
    ASSUME MembershipInv, [Next]_vars
    PROVE  RosterStep \/ \E r \in Requests : IsStale(r) /\ req'[r] # req[r]
  <1>1. TypeOK
    BY DEF MembershipInv
  <1>2. ASSUME NEW r \in Requests,
               Save(r) \/ Join(r) \/ RemoveStaff(r) \/ UpdateStatus(r) \/ SaveStaff(r)
        PROVE  RosterStep \/ (IsStale(r) /\ req'[r] # req[r])
    BY <1>1, <1>2, SaveShows, JoinShows, MemberShows, WriteMoves
  <1> QED
    BY <1>1, <1>2, StepKinds, TickShows, Unseen

\* Only a request with an outdated reading does what the roster does not,
\* for all values of the constants.
THEOREM OnlyStaleStepsLeaveTheRoster == Spec => RosterUnlessStale
  <1>1. MembershipInv /\ [Next]_vars
          => [ \/ Roster!RosterNext
               \/ \E r \in Requests : IsStale(r) /\ req'[r] # req[r] ]_(Roster!rosterVars)
    BY OnlyStaleStray DEF RosterStep
  <1> QED
    BY <1>1, MembershipInvariant, PTL DEF Spec, RosterUnlessStale
=============================================================================
