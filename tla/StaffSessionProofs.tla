--------------------------- MODULE StaffSessionProofs ---------------------------
(***************************************************************************)
(* The sessions of a staff account: what is revoked stays refused, what    *)
(* may be used once is used once, and who is signed in is a member.        *)
(***************************************************************************)
EXTENDS StaffSession, TLAPS

\* What Redis holds: a key for everything given up, each as long as its token
\* lasts, and a code or none.
StoreInv ==
    /\ \A t \in loggedOut : IsRevoked(t)
    /\ \A k \in revoked : k.until = k.token.until
    /\ code = NoKey \/ code.value \in Codes
    /\ code.value # NoCode => code.value \notin used

\* A token that set a password is revoked, or its request is, or has ended,
\* before the revocation.
SpentInv ==
    /\ spent \subseteq issued
    /\ \A t \in spent : IsRevoked(t) \/ t \in lost \/ Revoking(t)

\* What a request knows from what it has read, as long as nobody has written
\* it since.
Knows(q) ==
    /\ q.step = "delete" =>
          q.code \notin used /\ code.value \in {q.code, NoCode}
    /\ q.step = "restaurants" =>
          /\ q.found = {x \in Restaurants : member[x] # "REMOVED"}
          /\ q.active = {x \in Restaurants : member[x] = "ACTIVE"}
    /\ q.step = "fallback" =>
          \A x \in Restaurants : member[x] = "REMOVED" \/ x \notin open
    /\ q.step = "restaurant" => member[q.at] = "ACTIVE"

RequestInv(q) ==
    /\ q.step = "delete" => q.code \in Codes
    /\ q.step \in {"membership", "save", "revoke"} => q.token \in Token
    /\ q.step \in {"save", "revoke"} => q.op = "reset"
    /\ q.op \in {"refresh", "reset"} /\ IsRevoked(q.token) => q.stale
    /\ ~q.stale => Knows(q)

Inv == TypeOK /\ StoreInv /\ SpentInv /\ \A r \in Requests : RequestInv(req[r])

-----------------------------------------------------------------------------
(* What every step has in common.                                          *)

Requesting == req \in [Requests -> Request] /\ \A r \in Requests : RequestInv(req[r])

LEMMA SplitInv == Inv <=> TypeOK /\ StoreInv /\ SpentInv /\ Requesting
BY DEF Inv, Requesting, TypeOK

\* A request that does nothing knows nothing.
LEMMA IdleFacts == Idle \in Request /\ RequestInv(Idle)
BY DEF Idle, Request, RequestInv, Knows

\* A token signed now is a token.
LEMMA SignedFacts ==
    ASSUME TypeOK, NEW k \in {"refresh", "select", "reset"},
           NEW x \in Restaurants \cup {NoRestaurant},
           NEW life \in {RefreshLife, TempLife}
    PROVE  Signed(k, x, life) \in Token
BY SessionAssumption DEF TypeOK, Signed, Token

\* Nothing is revoked or lost that no longer counts, and no request leaves the
\* place between password and revocation.
LEMMA SpentStays ==
    ASSUME SpentInv, spent' \subseteq spent, lost \subseteq lost', issued \subseteq issued',
           revoked \subseteq revoked',
           \A p \in Requests : req[p].step = "revoke" =>
              req'[p].step = "revoke" /\ req'[p].token = req[p].token
    PROVE  SpentInv'
BY DEF SpentInv, IsRevoked, Revoking

\* One request moves, to a state of which the invariant holds; what it and the
\* others rely on stays.
LEMMA OneMoves ==
    ASSUME StoreInv, Requesting, NEW r \in Requests, NEW q \in Request,
           RequestInv(q), req' = [req EXCEPT ![r] = q],
           UNCHANGED <<member, open, storeVars, loggedOut, used>>
    PROVE  StoreInv' /\ Requesting'
<1>1. StoreInv'
  BY DEF StoreInv, IsRevoked, storeVars
<1>2. req' \in [Requests -> Request]
  BY DEF Requesting
<1>3. ASSUME NEW p \in Requests
      PROVE  RequestInv(req[p])'
  <2>1. RequestInv(req'[p])
    BY DEF Requesting
  <2>. QED
    BY <2>1 DEF RequestInv, Knows, IsRevoked, storeVars
<1>. QED
  BY <1>1, <1>2, <1>3 DEF Requesting

\* What a request relies on is as it was.
Untouched(p) ==
    /\ \A k \in revoked' : k.token = req[p].token => IsRevoked(k.token)
    /\ \/ req[p].step # "delete"
       \/ used' \subseteq used /\ code'.value \in {code.value, NoCode}
    /\ p \in SigningIn => UNCHANGED <<member, open>>

\* A request that does not move keeps the invariant when somebody writes: it is
\* told, or what it relies on was not written.
LEMMA OtherRequest ==
    ASSUME Requesting, NEW p \in Requests, NEW told \in BOOLEAN,
           req'[p] = [req[p] EXCEPT !.stale = req[p].stale \/ told],
           told \/ Untouched(p)
    PROVE  req'[p] \in Request /\ RequestInv(req[p])'
<1>1. req[p] \in Request /\ RequestInv(req[p])
  BY DEF Requesting
<1>2. req'[p] \in Request
  BY <1>1 DEF Request
<1>3. /\ req'[p].op = req[p].op /\ req'[p].step = req[p].step
      /\ req'[p].at = req[p].at /\ req'[p].token = req[p].token
      /\ req'[p].code = req[p].code /\ req'[p].found = req[p].found
      /\ req'[p].active = req[p].active
      /\ req'[p].stale <=> req[p].stale \/ told
  BY <1>1 DEF Request
<1>4. CASE told
  BY <1>1, <1>2, <1>3, <1>4 DEF RequestInv
<1>5. CASE ~told
  <2>1. ~req[p].stale => Knows(req[p])'
    BY <1>1, <1>3, <1>5 DEF RequestInv, Knows, Untouched, SigningIn
  <2>. QED
    BY <1>1, <1>2, <1>3, <1>5, <2>1 DEF RequestInv, Untouched, IsRevoked
<1>. QED
  BY <1>4, <1>5
-----------------------------------------------------------------------------
(* The steps that change one request only.                                 *)

\* A request begins with what it has made sure of.
LEMMA BeginInv ==
    ASSUME Inv, NEW r \in Requests, NEW o, NEW s, NEW x \in Restaurants \cup {NoRestaurant},
           NEW t \in Token \cup {NoToken}, Begin(r, o, s, x, t),
           \/ s \in {"members", "store", "compare"} /\ o \notin {"refresh", "reset"}
           \/ s = "restaurant" /\ o = "select" /\ member[x] = "ACTIVE"
           \/ s = "membership" /\ t \in Token /\ ~IsRevoked(t)
    PROVE  Inv'
<1>. DEFINE q == [Idle EXCEPT !.op = o, !.step = s, !.at = x, !.token = t]
<1>1. /\ q.op = o /\ q.step = s /\ q.at = x /\ q.token = t /\ ~q.stale
      /\ q \in Request
  BY SessionAssumption DEF Begin, Idle, Request
<1>2. RequestInv(q)
  <2>. HIDE DEF q
  <2>. QED
    BY <1>1 DEF RequestInv, Knows
<1>3. req' = [req EXCEPT ![r] = q]
  BY DEF Begin
<1>4. TypeOK'
  <2>. HIDE DEF q
  <2>. QED
    BY <1>1, <1>3 DEF Inv, TypeOK, Begin, storeVars, history
<1>5. StoreInv' /\ Requesting'
  <2>. HIDE DEF q
  <2>. QED
    BY <1>1, <1>2, <1>3, SplitInv, OneMoves DEF Begin, history
<1>6. SpentInv'
  <2>1. \A p \in Requests : req[p].step = "revoke" => req'[p] = req[p]
    BY <1>3, SplitInv DEF Begin, Idle, Requesting
  <2>. QED
    BY <2>1, SplitInv, SpentStays DEF Begin, storeVars, history
<1>. QED
  BY <1>4, <1>5, <1>6 DEF Inv, Requesting

\* Every way of asking begins so.
LEMMA ReceiveSteps ==
    ASSUME Inv, NEW r \in Requests,
           \/ \E x \in Restaurants : \/ ReceiveLogin(r, x) \/ ReceiveLoginAt(r, x)
                                    \/ ReceiveForgot(r, x) \/ ReceiveVerify(r, x)
           \/ \E x \in Restaurants, t \in issued : ReceiveSelect(r, x, t)
           \/ \E t \in issued : ReceiveRefresh(r, t) \/ ReceiveReset(r, t)
    PROVE  Inv'
<1>1. issued \subseteq Token
  BY DEF Inv, TypeOK
<1>2. ASSUME NEW x \in Restaurants,
             \/ ReceiveLogin(r, x) \/ ReceiveLoginAt(r, x)
             \/ ReceiveForgot(r, x) \/ ReceiveVerify(r, x)
      PROVE  Inv'
  BY <1>2, BeginInv DEF ReceiveLogin, ReceiveLoginAt, ReceiveForgot, ReceiveVerify
<1>3. ASSUME NEW x \in Restaurants, NEW t \in issued, ReceiveSelect(r, x, t)
      PROVE  Inv'
  BY <1>1, <1>3, BeginInv DEF ReceiveSelect, Choosable
<1>4. ASSUME NEW t \in issued, ReceiveRefresh(r, t) \/ ReceiveReset(r, t)
      PROVE  Inv'
  <2>1. t \in Token /\ t.at \in Restaurants \cup {NoRestaurant}
    BY <1>1 DEF Token
  <2>. QED
    BY <1>4, <2>1, BeginInv DEF ReceiveRefresh, ReceiveReset
<1>. QED
  BY <1>2, <1>3, <1>4

\* One request goes on or ends, and nothing else changes but what clients hold.
LEMMA GoInv ==
    ASSUME Inv, NEW r \in Requests, NEW q \in Request, RequestInv(q), Go(r, q),
           issued \subseteq issued', issued' \subseteq Token, req[r].step # "revoke",
           UNCHANGED <<clock, member, open, storeVars, changes, history>>
    PROVE  Inv'
<1>1. TypeOK'
  BY DEF Inv, TypeOK, Go, storeVars, history
<1>2. StoreInv' /\ Requesting'
  BY SplitInv, OneMoves DEF Go, history
<1>3. SpentInv'
  <2>1. \A p \in Requests : req[p].step = "revoke" => req'[p] = req[p]
    BY SplitInv DEF Go, Requesting
  <2>. QED
    BY <2>1, SplitInv, SpentStays DEF storeVars, history
<1>. QED
  BY <1>1, <1>2, <1>3 DEF Inv, Requesting

\* A request that ends between the password and the revocation is remembered.
LEMMA EndInv ==
    ASSUME Inv, NEW r \in Requests, End(r)
    PROVE  Inv'
<1>1. StoreInv' /\ Requesting'
  BY IdleFacts, SplitInv, OneMoves DEF End
<1>2. TypeOK'
  BY <1>1 DEF End, Inv, TypeOK, Requesting, storeVars
<1>3. SpentInv'
  <2>1. /\ \A p \in Requests \ {r} : req'[p] = req[p]
        /\ UNCHANGED <<revoked, spent, issued>> /\ lost \subseteq lost'
    BY SplitInv DEF End, Requesting, storeVars
  <2>2. ASSUME NEW t \in spent
        PROVE  IsRevoked(t) \/ t \in lost' \/ Revoking(t)'
    <3>1. CASE \E p \in Requests \ {r} : req[p].step = "revoke" /\ req[p].token = t
      BY <2>1, <3>1 DEF Revoking
    <3>2. CASE req[r].step = "revoke" /\ req[r].token = t
      BY <2>1, <3>2 DEF End, Inv, SpentInv
    <3>. QED
      BY <2>1, <3>1, <3>2 DEF Inv, SpentInv, Revoking
  <2>. QED
    BY <2>1, <2>2 DEF Inv, SpentInv, IsRevoked
<1>. QED
  BY <1>1, <1>2, <1>3, SplitInv DEF Inv, Requesting

LEMMA RefreshInv ==
    ASSUME Inv, NEW r \in Requests, Refresh(r)
    PROVE  Inv'
<1>1. req' = [req EXCEPT ![r] = Idle]
  <2>1. req \in [Requests -> Request]
    BY DEF Inv, TypeOK
  <2>2. \A p \in Requests : [req[p] EXCEPT !.stale = req[p].stale \/ p \in {}] = req[p]
    <3>. TAKE p \in Requests
    <3>1. req[p] \in Request /\ req[p].stale \in BOOLEAN
      BY <2>1 DEF Request
    <3>2. (req[p].stale \/ p \in {}) = req[p].stale
      BY <3>1
    <3>. QED
      BY <3>1, <3>2 DEF Request
  <2>. QED
    BY <2>1, <2>2 DEF Refresh, EndTelling
<1>. QED
  BY <1>1, IdleFacts, GoInv DEF Refresh, Go, Inv, TypeOK

LEMMA GiveInv ==
    ASSUME Inv, NEW r \in Requests, NEW t \in Token, Give(r, t), req[r].step # "revoke",
           UNCHANGED <<clock, member, open, storeVars, changes, history>>
    PROVE  Inv'
BY IdleFacts, GoInv DEF Give, Go, Inv, TypeOK

\* The readings of a sign-in, and the tokens it gives.
LEMMA SignInSteps ==
    ASSUME Inv, NEW r \in Requests,
           FindMemberships(r) \/ FindRestaurants(r) \/ Fallback(r) \/ Choose(r)
    PROVE  Inv'
<1>. DEFINE q == req[r]
<1>1. q \in Request /\ RequestInv(q) /\ q.at \in Restaurants \cup {NoRestaurant}
  BY DEF Inv, TypeOK, Request
<1>2. CASE FindMemberships(r)
  <2>. DEFINE f == {x \in Restaurants : member[x] # "REMOVED"}
              a == {x \in Restaurants : member[x] = "ACTIVE"}
              n == [q EXCEPT !.step = "restaurants", !.found = f, !.active = a]
  <2>1. /\ n \in Request
        /\ n.step = "restaurants" /\ n.found = f /\ n.active = a
        /\ n.op = q.op /\ n.token = q.token /\ n.stale = q.stale
    BY <1>1 DEF Request
  <2>2. RequestInv(n)
    <3>. HIDE DEF n
    <3>. QED
      BY <1>1, <2>1 DEF RequestInv, Knows
  <2>. QED
    BY <1>2, <2>1, <2>2, GoInv DEF FindMemberships, Inv, TypeOK
<1>3. CASE FindRestaurants(r)
  <2>1. CASE \E x \in Restaurants : Give(r, Signed("refresh", x, RefreshLife))
    BY <1>3, <2>1, SignedFacts, GiveInv DEF FindRestaurants, Inv
  <2>2. CASE Give(r, Signed("select", NoRestaurant, TempLife))
    BY <1>3, <2>2, SignedFacts, GiveInv DEF FindRestaurants, Inv
  <2>3. CASE /\ q.step = "restaurants" /\ q.found \cap open = {}
             /\ Go(r, [q EXCEPT !.step = "fallback", !.found = {}, !.active = {}])
             /\ UNCHANGED issued
    <3>. DEFINE n == [q EXCEPT !.step = "fallback", !.found = {}, !.active = {}]
    <3>1. /\ n \in Request
          /\ n.step = "fallback"
          /\ n.op = q.op /\ n.token = q.token /\ n.stale = q.stale
      BY <1>1 DEF Request
    <3>2. ~q.stale => \A x \in Restaurants : member[x] = "REMOVED" \/ x \notin open
      BY <1>1, <2>3 DEF RequestInv, Knows
    <3>3. RequestInv(n)
      <4>. HIDE DEF n
      <4>. QED
        BY <1>1, <3>1, <3>2 DEF RequestInv, Knows
    <3>. QED
      BY <1>3, <2>3, <3>1, <3>3, GoInv DEF FindRestaurants, Inv, TypeOK
  <2>4. q.op = "loginAt" /\ q.at \in q.found \cap open => q.at \in Restaurants
    BY <1>1 DEF Request
  <2>. QED
    BY <1>3, <2>1, <2>2, <2>3, <2>4 DEF FindRestaurants
<1>4. CASE Fallback(r)
  BY <1>1, <1>4, SignedFacts, GiveInv DEF Fallback, Inv
<1>5. CASE Choose(r)
  BY <1>1, <1>5, SignedFacts, GiveInv DEF Choose, Inv
<1>. QED
  BY <1>2, <1>3, <1>4, <1>5

\* The readings of a recovery.
LEMMA RecoveryReadings ==
    ASSUME Inv, NEW r \in Requests, CompareCode(r) \/ FindForReset(r)
    PROVE  Inv'
<1>. DEFINE q == req[r]
<1>1. q \in Request /\ RequestInv(q)
  BY DEF Inv, TypeOK
<1>2. CASE CompareCode(r)
  <2>. DEFINE n == [q EXCEPT !.step = "delete", !.code = code.value]
  <2>1. code.value \in Codes /\ code.value \notin used
    BY <1>2, SessionAssumption DEF Inv, StoreInv, CompareCode
  <2>2. /\ n \in Request
        /\ n.step = "delete" /\ n.code = code.value
        /\ n.op = q.op /\ n.token = q.token /\ n.stale = q.stale
    BY <1>1, <2>1 DEF Request
  <2>3. RequestInv(n)
    <3>. HIDE DEF n
    <3>. QED
      BY <1>1, <2>1, <2>2 DEF RequestInv, Knows
  <2>. QED
    BY <1>2, <2>2, <2>3, GoInv DEF CompareCode, Inv, TypeOK
<1>3. CASE FindForReset(r)
  <2>. DEFINE n == [q EXCEPT !.step = "save"]
  <2>1. /\ n \in Request
        /\ n.step = "save" /\ n.op = q.op /\ n.token = q.token /\ n.stale = q.stale
    BY <1>1 DEF Request
  <2>2. RequestInv(n)
    <3>. HIDE DEF n
    <3>. QED
      BY <1>1, <1>3, <2>1 DEF RequestInv, Knows, FindForReset
  <2>. QED
    BY <1>3, <2>1, <2>2, GoInv DEF FindForReset, Inv, TypeOK
<1>. QED
  BY <1>2, <1>3
-----------------------------------------------------------------------------
(* The steps that write what others rely on.                               *)

\* All are told who have to be.
LEMMA OutdatedInv ==
    ASSUME Requesting, NEW S, Outdated(S),
           \A p \in Requests : p \in S \/ Untouched(p)
    PROVE  Requesting'
<1>1. ASSUME NEW p \in Requests
      PROVE  req'[p] \in Request /\ RequestInv(req[p])'
  <2>1. req'[p] = [req[p] EXCEPT !.stale = req[p].stale \/ p \in S]
    BY DEF Outdated
  <2>. DEFINE told == p \in S
  <2>2. told \in BOOLEAN /\ (told \/ Untouched(p))
    OBVIOUS
  <2>. QED
    BY <2>1, <2>2, OtherRequest
<1>. QED
  BY <1>1 DEF Requesting, Outdated

\* And one request ends by the write.
LEMMA EndTellingInv ==
    ASSUME Requesting, NEW r \in Requests, NEW S, EndTelling(r, S),
           \A p \in Requests \ {r} : p \in S \/ Untouched(p)
    PROVE  Requesting'
<1>1. ASSUME NEW p \in Requests \ {r}
      PROVE  req'[p] \in Request /\ RequestInv(req[p])'
  <2>1. req'[p] = [req[p] EXCEPT !.stale = req[p].stale \/ p \in S]
    BY DEF EndTelling
  <2>. DEFINE told == p \in S
  <2>2. told \in BOOLEAN /\ (told \/ Untouched(p))
    OBVIOUS
  <2>. QED
    BY <2>1, <2>2, OtherRequest
<1>2. req'[r] = Idle
  BY DEF EndTelling
<1>3. req'[r] \in Request /\ RequestInv(req[r])'
  BY <1>2, IdleFacts DEF Idle, RequestInv, Knows
<1>. QED
  BY <1>1, <1>3 DEF Requesting, EndTelling

\* Being told changes neither the step of a request nor its token.
LEMMA ToldStays ==
    ASSUME Requesting, NEW r \in Requests, NEW S, Outdated(S) \/ EndTelling(r, S),
           NEW p \in Requests, p # r \/ Outdated(S)
    PROVE  req'[p].step = req[p].step /\ req'[p].token = req[p].token
<1>1. req'[p] = [req[p] EXCEPT !.stale = req[p].stale \/ p \in S]
  BY DEF Outdated, EndTelling
<1>2. req[p] \in Request
  BY DEF Requesting
<1>. QED
  BY <1>1, <1>2 DEF Request

\* A token given up or spent is known to Redis for as long as it lasts.
LEMMA RevocationFacts ==
    ASSUME Inv, NEW t \in Token, revoked' = revoked \cup {Revocation(t)}
    PROVE  /\ \A u : u = t \/ IsRevoked(u) => IsRevoked(u)'
           /\ \A k \in revoked' : k.token = t \/ IsRevoked(k.token)
           /\ \A k \in revoked' : k.until = k.token.until
           /\ revoked' \subseteq [token : Token, until : Nat]
<1>1. /\ Revocation(t).token = t /\ Revocation(t).until = t.until
      /\ Revocation(t) \in [token : Token, until : Nat]
  BY DEF Revocation, RevokedUntil, Token
<1>. QED
  BY <1>1 DEF IsRevoked, Inv, StoreInv, TypeOK

LEMMA LogoutInv ==
    ASSUME Inv, NEW t \in issued, Logout(t)
    PROVE  Inv'
<1>1. t \in Token
  BY DEF Inv, TypeOK
<1>2. revoked' = revoked \cup {Revocation(t)} /\ loggedOut' = loggedOut \cup {t}
  BY DEF Logout
<1>3. StoreInv'
  BY <1>1, <1>2, RevocationFacts DEF Logout, Inv, StoreInv
<1>4. Requesting'
  <2>1. Outdated(Trusting(t))
    BY DEF Logout, Outdated
  <2>2. \A p \in Requests : p \in Trusting(t) \/ Untouched(p)
    BY <1>1, <1>2, RevocationFacts DEF Logout, Trusting, Untouched
  <2>. QED
    BY <2>1, <2>2, SplitInv, OutdatedInv
<1>5. TypeOK'
  BY <1>1, <1>2, <1>4, RevocationFacts DEF Logout, Inv, TypeOK, Requesting
<1>6. SpentInv'
  <2>1. \A p \in Requests : req'[p].step = req[p].step /\ req'[p].token = req[p].token
    BY SplitInv, ToldStays DEF Logout, Outdated
  <2>. QED
    BY <1>2, <2>1, SplitInv, SpentStays DEF Logout
<1>. QED
  BY <1>3, <1>4, <1>5, <1>6 DEF Inv, Requesting

LEMMA RevokeSpentInv ==
    ASSUME Inv, NEW r \in Requests, RevokeSpent(r)
    PROVE  Inv'
<1>. DEFINE t == req[r].token
<1>1. t \in Token
  BY DEF Inv, RequestInv, RevokeSpent
<1>2. revoked' = revoked \cup {Revocation(t)} /\ lost' = lost \ {t}
  BY DEF RevokeSpent
<1>3. StoreInv'
  BY <1>1, <1>2, RevocationFacts DEF RevokeSpent, Inv, StoreInv
<1>4. Requesting'
  <2>1. EndTelling(r, Trusting(t))
    BY DEF RevokeSpent
  <2>2. \A p \in Requests : p \in Trusting(t) \/ Untouched(p)
    BY <1>1, <1>2, RevocationFacts DEF RevokeSpent, Trusting, Untouched
  <2>. QED
    BY <2>1, <2>2, SplitInv, EndTellingInv
<1>5. TypeOK'
  BY <1>1, <1>2, <1>4, RevocationFacts DEF RevokeSpent, Inv, TypeOK, Requesting
<1>6. SpentInv'
  <2>1. \A p \in Requests \ {r} : req'[p].step = req[p].step /\ req'[p].token = req[p].token
    BY SplitInv, ToldStays DEF RevokeSpent
  <2>2. ASSUME NEW u \in spent
        PROVE  IsRevoked(u)' \/ u \in lost' \/ Revoking(u)'
    <3>1. CASE u = t
      BY <1>1, <1>2, <3>1, RevocationFacts
    <3>2. CASE u # t
      <4>1. Revoking(u) => Revoking(u)'
        BY <2>1, <3>2 DEF Revoking
      <4>2. IsRevoked(u) => IsRevoked(u)'
        BY <1>1, <1>2, RevocationFacts
      <4>. QED
        BY <1>2, <3>2, <4>1, <4>2 DEF Inv, SpentInv
    <3>. QED
      BY <3>1, <3>2
  <2>. QED
    BY <2>2 DEF RevokeSpent, Inv, SpentInv
<1>. QED
  BY <1>3, <1>4, <1>5, <1>6 DEF Inv, Requesting

LEMMA SaveCodeInv ==
    ASSUME Inv, NEW r \in Requests, NEW k \in Codes, SaveCode(r, k)
    PROVE  Inv'
<1>1. /\ code' = [value |-> k, left |-> CodeLife] /\ code' \in Key
      /\ used' = used \ {k}
  BY SessionAssumption DEF SaveCode, Key
<1>2. StoreInv'
  BY <1>1 DEF SaveCode, Inv, StoreInv, IsRevoked
<1>3. Requesting'
  <2>1. \A p \in Requests : p \in Comparing \/ Untouched(p)
    BY DEF SaveCode, Comparing, Untouched, IsRevoked
  <2>. QED
    BY <2>1, SplitInv, EndTellingInv DEF SaveCode
<1>4. TypeOK'
  BY <1>1, <1>3 DEF SaveCode, Inv, TypeOK, Requesting
<1>5. SpentInv'
  <2>1. \A p \in Requests : req[p].step = "revoke" =>
           req'[p].step = "revoke" /\ req'[p].token = req[p].token
    BY SplitInv, ToldStays DEF SaveCode
  <2>. QED
    BY <2>1, SplitInv, SpentStays DEF SaveCode
<1>. QED
  BY <1>2, <1>3, <1>4, <1>5 DEF Inv, Requesting

LEMMA DeleteCodeInv ==
    ASSUME Inv, NEW r \in Requests, DeleteCode(r)
    PROVE  Inv'
<1>1. /\ code' = NoKey /\ NoKey \in Key /\ NoKey.value = NoCode
      /\ used' = used \cup {req[r].code} /\ req[r].code \in Codes
      /\ Signed("reset", req[r].at, TempLife) \in Token
  <2>1. req[r].at \in Restaurants \cup {NoRestaurant}
    BY DEF Inv, TypeOK, Request
  <2>2. req[r].code \in Codes
    BY DEF DeleteCode, Inv, RequestInv
  <2>. QED
    BY <2>1, <2>2, SignedFacts, SessionAssumption
       DEF DeleteCode, Deleted, NoKey, Key, Inv
<1>2. StoreInv'
  BY <1>1 DEF DeleteCode, Inv, StoreInv, IsRevoked
<1>3. Requesting'
  <2>1. \A p \in Requests : p \in Comparing \/ Untouched(p)
    BY DEF DeleteCode, Comparing, Untouched, IsRevoked
  <2>. QED
    BY <2>1, SplitInv, EndTellingInv DEF DeleteCode
<1>4. TypeOK'
  BY <1>1, <1>3 DEF DeleteCode, Inv, TypeOK, Requesting
<1>5. SpentInv'
  <2>1. \A p \in Requests : req[p].step = "revoke" =>
           req'[p].step = "revoke" /\ req'[p].token = req[p].token
    BY SplitInv, ToldStays DEF DeleteCode
  <2>. QED
    BY <2>1, SplitInv, SpentStays DEF DeleteCode
<1>. QED
  BY <1>2, <1>3, <1>4, <1>5 DEF Inv, Requesting

LEMMA SavePasswordInv ==
    ASSUME Inv, NEW r \in Requests, SavePassword(r)
    PROVE  Inv'
<1>. DEFINE S == IF member' # member THEN SigningIn ELSE {}
            n == [req[r] EXCEPT !.step = "revoke"]
<1>1. req[r] \in Request /\ RequestInv(req[r]) /\ req[r].step = "save"
  BY DEF SavePassword, Inv, TypeOK
<1>2. /\ n \in Request
      /\ n.step = "revoke" /\ n.op = req[r].op /\ n.token = req[r].token
      /\ n.stale = req[r].stale
  BY <1>1 DEF Request
<1>3. req'[r] = n
  BY DEF SavePassword
<1>4. ASSUME NEW p \in Requests \ {r}
      PROVE  req'[p] \in Request /\ RequestInv(req[p])'
  <2>. DEFINE told == p \in S
  <2>1. req'[p] = [req[p] EXCEPT !.stale = req[p].stale \/ told]
    BY DEF SavePassword
  <2>2. told \/ Untouched(p)
    BY DEF SavePassword, Untouched, IsRevoked, storeVars
  <2>3. told \in BOOLEAN
    OBVIOUS
  <2>4. Requesting
    BY SplitInv
  <2>. HIDE DEF told
  <2>. QED
    BY <2>1, <2>2, <2>3, <2>4, OtherRequest
<1>5. RequestInv(req[r])'
  <2>. HIDE DEF n
  <2>. QED
    BY <1>1, <1>2, <1>3 DEF RequestInv, Knows, IsRevoked, SavePassword, storeVars
<1>6. Requesting'
  <2>1. \A p \in Requests : req'[p] \in Request /\ RequestInv(req[p])'
    BY <1>2, <1>3, <1>4, <1>5
  <2>. QED
    BY <2>1 DEF Requesting, SavePassword
<1>7. StoreInv'
  BY DEF SavePassword, Inv, StoreInv, IsRevoked, storeVars
<1>8. TypeOK'
  <2>1. member' \in [Restaurants -> Statuses]
    BY DEF SavePassword, Inv, TypeOK, Statuses
  <2>. QED
    BY <1>6, <2>1 DEF SavePassword, Inv, TypeOK, Requesting, storeVars
<1>9. SpentInv'
  <2>1. ASSUME NEW p \in Requests \ {r}
        PROVE  req'[p].step = req[p].step /\ req'[p].token = req[p].token
    <3>1. req[p] \in Request
      BY DEF Inv, TypeOK
    <3>. QED
      BY <3>1 DEF SavePassword, Request
  <2>2. \A t : Revoking(t) => Revoking(t)'
    BY <1>1, <2>1 DEF Revoking
  <2>3. /\ UNCHANGED <<revoked, lost, issued>>
        /\ spent' = spent \cup ({req[r].token} \cap issued)
    BY DEF SavePassword, storeVars
  <2>4. \A t : IsRevoked(t) => IsRevoked(t)'
    BY <2>3 DEF IsRevoked
  <2>5. ASSUME NEW t \in spent'
        PROVE  IsRevoked(t)' \/ t \in lost' \/ Revoking(t)'
    <3>1. CASE t \in spent
      BY <2>2, <2>3, <2>4, <3>1 DEF Inv, SpentInv
    <3>2. CASE t = req[r].token
      <4>1. Revoking(t)'
        BY <1>2, <1>3, <3>2 DEF Revoking
      <4>. QED
        BY <4>1
    <3>. QED
      BY <2>3, <3>1, <3>2
  <2>. QED
    BY <2>3, <2>5 DEF Inv, SpentInv
<1>. QED
  BY <1>6, <1>7, <1>8, <1>9 DEF Inv, Requesting

\* The rest of the service changes a membership or a restaurant.
LEMMA ChangesInv ==
    ASSUME Inv, NEW x \in Restaurants,
           ChangeRestaurant(x) \/ \E s \in Statuses : ChangeMember(x, s)
    PROVE  Inv'
<1>1. /\ Outdated(SigningIn)
      /\ UNCHANGED <<clock, storeVars, issued, history>>
      /\ changes < MaxChanges /\ changes' = changes + 1
  BY DEF ChangeRestaurant, ChangeMember
<1>2. StoreInv'
  BY <1>1 DEF Inv, StoreInv, IsRevoked, storeVars, history
<1>3. Requesting'
  <2>1. \A p \in Requests : p \in SigningIn \/ Untouched(p)
    BY <1>1 DEF Untouched, IsRevoked, storeVars, history
  <2>. QED
    BY <1>1, <2>1, SplitInv, OutdatedInv
<1>4. member' \in [Restaurants -> Statuses] /\ open' \subseteq Restaurants
  BY DEF ChangeRestaurant, ChangeMember, Inv, TypeOK
<1>5. changes' \in 0..MaxChanges
  BY <1>1, SessionAssumption DEF Inv, TypeOK
<1>6. TypeOK'
  BY <1>1, <1>3, <1>4, <1>5 DEF Inv, TypeOK, Requesting, storeVars, history
<1>7. SpentInv'
  <2>1. \A p \in Requests : req'[p].step = req[p].step /\ req'[p].token = req[p].token
    BY <1>1, SplitInv, ToldStays
  <2>. QED
    BY <1>1, <2>1, SplitInv, SpentStays DEF storeVars, history
<1>. QED
  BY <1>2, <1>3, <1>6, <1>7 DEF Inv, Requesting

\* Tokens and their keys end together.
LEMMA TickInv ==
    ASSUME Inv, Tick
    PROVE  Inv'
<1>1. /\ revoked' = {k \in revoked : k.until > clock'}
      /\ issued' = {t \in issued : t.until > clock'}
      /\ loggedOut' = loggedOut \cap issued'
      /\ spent' = spent \cap issued' /\ lost' = lost \cap issued'
      /\ used' = used /\ clock' = clock + 1 /\ clock < Horizon
      /\ UNCHANGED <<member, open, changes, req>>
  BY DEF Tick
<1>2. /\ code' \in Key /\ code'.value \in {code.value, NoCode}
      /\ code' = NoKey \/ code'.value = code.value
      /\ code = NoKey => code' = NoKey
  BY SessionAssumption DEF Tick, Inv, TypeOK, Key, NoKey
<1>3. ASSUME NEW t \in issued', IsRevoked(t)
      PROVE  IsRevoked(t)'
  <2>1. PICK k \in revoked : k.token = t /\ k.until = t.until
    BY <1>3 DEF Inv, StoreInv, IsRevoked
  <2>. QED
    BY <1>1, <2>1 DEF IsRevoked
<1>4. StoreInv'
  <2>1. \A t \in loggedOut' : IsRevoked(t)'
    BY <1>1, <1>3 DEF Inv, StoreInv
  <2>2. code' = NoKey \/ code'.value \in Codes
    BY <1>2 DEF Inv, StoreInv, NoKey
  <2>. QED
    BY <1>1, <1>2, <2>1, <2>2 DEF Inv, StoreInv
<1>5. ASSUME NEW p \in Requests
      PROVE  RequestInv(req[p])'
  <2>1. RequestInv(req[p])
    BY DEF Inv
  <2>. QED
    BY <1>1, <1>2, <2>1 DEF RequestInv, Knows, IsRevoked
<1>6. TypeOK'
  <2>1. clock' \in 0..Horizon
    BY <1>1, SessionAssumption DEF Inv, TypeOK
  <2>. QED
    BY <1>1, <1>2, <2>1 DEF Inv, TypeOK
<1>7. SpentInv'
  <2>1. \A t : Revoking(t)' <=> Revoking(t)
    BY <1>1 DEF Revoking
  <2>. QED
    BY <1>1, <1>3, <2>1 DEF Inv, SpentInv
<1>. QED
  BY <1>4, <1>5, <1>6, <1>7 DEF Inv
-----------------------------------------------------------------------------
(* The theorems.                                                           *)

LEMMA InitInv == Init => Inv
<1>. SUFFICES ASSUME Init PROVE Inv
  OBVIOUS
<1>1. TypeOK
  BY IdleFacts, SessionAssumption DEF Init, TypeOK, Key, NoKey
<1>2. StoreInv /\ \A r \in Requests : RequestInv(req[r])
  BY IdleFacts DEF Init, StoreInv, NoKey
<1>. QED
  BY <1>1, <1>2 DEF Inv, SpentInv, Init

LEMMA NextInv == Inv /\ [Next]_vars => Inv'
<1>. SUFFICES ASSUME Inv, [Next]_vars PROVE Inv'
  OBVIOUS
<1>1. CASE UNCHANGED vars
  <2>1. TypeOK'
    BY <1>1 DEF Inv, TypeOK, vars, storeVars, history
  <2>2. StoreInv'
    BY <1>1 DEF Inv, StoreInv, IsRevoked, vars, storeVars, history
  <2>3. \A r \in Requests : RequestInv(req[r])'
    BY <1>1 DEF Inv, RequestInv, Knows, IsRevoked, vars, storeVars, history
  <2>4. SpentInv'
    BY <1>1, SplitInv, SpentStays DEF vars, storeVars, history
  <2>. QED
    BY <2>1, <2>2, <2>3, <2>4 DEF Inv
<1>2. ASSUME NEW r \in Requests, SignInStep(r)
      PROVE  Inv'
  BY <1>2, ReceiveSteps, SignInSteps, RefreshInv DEF SignInStep
<1>3. ASSUME NEW r \in Requests, RecoveryStep(r)
      PROVE  Inv'
  BY <1>3, ReceiveSteps, RecoveryReadings, SaveCodeInv, DeleteCodeInv,
     SavePasswordInv, RevokeSpentInv DEF RecoveryStep
<1>4. ASSUME NEW r \in Requests, End(r)
      PROVE  Inv'
  BY <1>4, EndInv
<1>5. ASSUME NEW t \in issued, Logout(t)
      PROVE  Inv'
  BY <1>5, LogoutInv
<1>6. ASSUME NEW x \in Restaurants,
             ChangeRestaurant(x) \/ \E s \in Statuses : ChangeMember(x, s)
      PROVE  Inv'
  BY <1>6, ChangesInv
<1>7. CASE Tick
  BY <1>7, TickInv
<1>. QED
  BY <1>1, <1>2, <1>3, <1>4, <1>5, <1>6, <1>7 DEF Next

LEMMA Invariance == Spec => []Inv
BY InitInv, NextInv, PTL DEF Spec

\* For any number of requests, restaurants and tokens: what was given up by a
\* logout, or set a password in a request that went on to the end, is known as
\* revoked as long as it is valid (redis-token-revocation.repository.ts), and no
\* stored code has given a token.
THEOREM SessionInvariant == Spec => []SessionInv
<1>1. Inv => SessionInv
  BY DEF Inv, StoreInv, SpentInv, SessionInv
<1>. QED
  BY <1>1, Invariance, PTL

\* A refresh that began after the answer to the logout is refused
\* (refresh-token.use-case.ts).
THEOREM LogoutIsFinal == Spec => LoggedOutStaysOut
<1>. DEFINE Out ==
       \A r \in Requests :
          req[r].op = "refresh" /\ req[r].token \in loggedOut /\ ~req[r].stale
          => ~Refresh(r)
<1>1. Inv /\ [Next]_vars => [Out]_vars
  BY DEF Inv, RequestInv, StoreInv
<1>. QED
  BY <1>1, Invariance, PTL DEF Spec, LoggedOutStaysOut

\* A token sets a second password only in a request that overlaps with the
\* first one, or after one that ended before the revocation
\* (reset-password.use-case.ts).
THEOREM TokensAreSpent == Spec => TokensResetOnce
<1>. DEFINE Once ==
       \A r \in Requests :
          SavePassword(r) /\ req[r].token \in spent
          => req[r].stale \/ req[r].token \in lost \/ Revoking(req[r].token)
<1>1. Inv /\ [Next]_vars => [Once]_vars
  BY DEF Inv, RequestInv, SpentInv, SavePassword
<1>. QED
  BY <1>1, Invariance, PTL DEF Spec, TokensResetOnce

\* A verification that overlaps with no other one, and with no newer code, is
\* given the only token of its code, and deletes no other code
\* (verify-forgot-password-otp.use-case.ts).
THEOREM CodesAreSpent == Spec => CodesServeOnce
<1>. DEFINE Once ==
       \A r \in Requests :
          DeleteCode(r) /\ ~req[r].stale
          => req[r].code \notin used /\ code.value \in {req[r].code, NoCode}
<1>1. Inv /\ [Next]_vars => [Once]_vars
  BY DEF Inv, RequestInv, Knows, DeleteCode
<1>. QED
  BY <1>1, Invariance, PTL DEF Spec, CodesServeOnce

\* What a step of a request that signs in gives, and to whom.
LEMMA GivenByStep ==
    ASSUME Inv, NEW r \in Requests, SignInStep(r) \/ RecoveryStep(r) \/ End(r),
           NEW t \in issued' \ issued, t.kind = "refresh"
    PROVE  /\ req'[r] = Idle
           /\ \/ t.at \in open /\ member[t.at] = "ACTIVE"
              \/ req[r].stale
              \/ /\ req[r].step = "fallback" /\ t.at \in open
                 /\ \A x \in Restaurants : member[x] = "REMOVED" \/ x \notin open
<1>. DEFINE q == req[r]
<1>1. /\ req \in [Requests -> Request] /\ RequestInv(q)
      /\ \A k, x, life : Signed(k, x, life).kind = k /\ Signed(k, x, life).at = x
  BY DEF Inv, TypeOK, Signed
<1>2. ASSUME NEW u, Give(r, u)
      PROVE  req'[r] = Idle /\ t = u
  BY <1>1, <1>2 DEF Give
<1>3. CASE FindRestaurants(r)
  <2>1. PICK x : x \in q.active /\ x \in q.found \cap open
                 /\ Give(r, Signed("refresh", x, RefreshLife)) /\ q.step = "restaurants"
    <3>1. ~Give(r, Signed("select", NoRestaurant, TempLife))
      BY <1>1, <1>2
    <3>2. ~UNCHANGED issued
      OBVIOUS
    <3>. QED
      BY <1>3, <3>1, <3>2 DEF FindRestaurants
  <2>2. req'[r] = Idle /\ t.at = x
    BY <1>1, <1>2, <2>1
  <2>3. ~q.stale => q.active = {y \in Restaurants : member[y] = "ACTIVE"}
    BY <1>1, <2>1 DEF RequestInv, Knows
  <2>. QED
    BY <2>1, <2>2, <2>3
<1>4. CASE Fallback(r)
  BY <1>1, <1>2, <1>4 DEF Fallback, RequestInv, Knows
<1>5. CASE Choose(r)
  BY <1>1, <1>2, <1>5 DEF Choose, RequestInv, Knows
<1>6. CASE DeleteCode(r)
  BY <1>1, <1>6 DEF DeleteCode
<1>7. CASE issued' = issued
  BY <1>7
<1>8. FindRestaurants(r) \/ Fallback(r) \/ Choose(r) \/ DeleteCode(r) \/ issued' = issued
  BY DEF SignInStep, RecoveryStep, End, ReceiveLogin, ReceiveLoginAt,
     ReceiveForgot, ReceiveVerify, ReceiveSelect, ReceiveRefresh, ReceiveReset,
     Begin, FindMemberships, Refresh, SaveCode, CompareCode, FindForReset,
     SavePassword, RevokeSpent
<1>. QED
  BY <1>3, <1>4, <1>5, <1>6, <1>7, <1>8

\* Who signs in is an active member of an open restaurant, or one of the two
\* has changed on the way, or no usable membership is left
\* (login-staff.use-case.ts).
THEOREM SignedInAreMembers == Spec => SignedForMembers
<1>. DEFINE Members ==
       \A t \in issued' \ issued :
          t.kind = "refresh" =>
            \/ t.at \in open /\ member[t.at] = "ACTIVE"
            \/ \E r \in Requests : req'[r] = Idle /\ req[r].stale
            \/ \E r \in Requests : /\ req[r].step = "fallback" /\ req'[r] = Idle
                                   /\ t.at \in open
                                   /\ \A x \in Restaurants : member[x] = "REMOVED" \/ x \notin open
<1>1. Inv /\ [Next]_vars => [Members]_vars
  <2>. SUFFICES ASSUME Inv, Next, NEW t \in issued' \ issued, t.kind = "refresh"
                PROVE  \E r \in Requests :
                         /\ req'[r] = Idle
                         /\ \/ t.at \in open /\ member[t.at] = "ACTIVE"
                            \/ req[r].stale
                            \/ /\ req[r].step = "fallback" /\ t.at \in open
                               /\ \A x \in Restaurants : member[x] = "REMOVED" \/ x \notin open
    OBVIOUS
  <2>1. PICK r \in Requests : SignInStep(r) \/ RecoveryStep(r) \/ End(r)
    BY DEF Next, Logout, ChangeRestaurant, ChangeMember, Tick
  <2>. QED
    BY <2>1, GivenByStep
<1>. QED
  BY <1>1, Invariance, PTL DEF Spec, SignedForMembers
===============================================================================
