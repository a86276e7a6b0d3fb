----------------------------- MODULE StaffSession -----------------------------
(***************************************************************************)
(* One staff account that is a member of several restaurants: signing in,  *)
(* choosing a restaurant, refreshing and logging out; and the way back to  *)
(* an account whose password was forgotten.  Tokens are signed and carry   *)
(* their own end; Redis only knows the ones that were revoked, each until  *)
(* it would have ended.  Requests read Redis and the database call by call *)
(* while others, and the rest of the service, write them.                  *)
(***************************************************************************)
EXTENDS Integers, FiniteSets

CONSTANTS
    Requests,      \* HTTP requests in flight at the same time
    Offered,       \* the ways of asking that clients use
    Restaurants,
    Codes,         \* codes that are generated, each once
    RefreshLife,   \* of a refresh token
    TempLife,      \* of the tokens that choose a restaurant or reset a password
    CodeLife,
    Horizon,       \* bound on the clock
    MaxTokens,     \* bound on the tokens that clients hold
    MaxChanges,    \* bound on what the rest of the service changes
    NoCode, NoRestaurant, NoToken

VARIABLES
    clock,
    member,        \* the status of each membership
    open,          \* the restaurants whose staff may sign in
    code,          \* the key of the code
    revoked,       \* the keys of revoked tokens, with their end
    issued,        \* the tokens that clients hold and that have not ended
    changes,
    req,           \* what each request does, and holds in memory
    loggedOut,     \* the tokens given up by a logout (history)
    spent,         \* the tokens with which a password was set (history)
    lost,          \* those of them whose request ended before it revoked them
                   \* (history)
    used           \* the codes that gave a token (history)

storeVars == <<code, revoked>>
history == <<loggedOut, spent, lost, used>>
vars == <<clock, member, open, storeVars, issued, changes, req, history>>

\* INVITED and SUSPENDED are refused as INACTIVE is.
Statuses == {"ACTIVE", "INACTIVE", "REMOVED"}

Rank(s) == CASE s = "ACTIVE" -> 1 [] s = "INACTIVE" -> 2 [] s = "REMOVED" -> 3

\* Tokens signed in the same second for the same purpose are the same string.
Token == [kind : {"refresh", "select", "reset"},
          at : Restaurants \cup {NoRestaurant}, until : Nat]

Signed(k, x, life) == [kind |-> k, at |-> x, until |-> clock + life]

Key == [value : Codes \cup {NoCode}, left : 0..CodeLife]
NoKey == [value |-> NoCode, left |-> 0]

RecoveryWays == {"forgot", "verify", "reset"}
Ways == {"login", "loginAt", "select", "refresh"} \cup RecoveryWays

Idle == [op |-> "none", step |-> "idle", at |-> NoRestaurant, token |-> NoToken,
         code |-> NoCode, found |-> {}, active |-> {}, stale |-> FALSE]

\* at: the restaurant asked for, or that of the first membership; found and
\* active: the memberships read, by restaurant; stale: what the request relies
\* on was written since it was read (history).
Request == [op : Ways \cup {"none"},
            step : {"idle", "members", "restaurants", "fallback", "restaurant",
                    "membership", "save", "revoke", "store", "compare", "delete"},
            at : Restaurants \cup {NoRestaurant}, token : Token \cup {NoToken},
            code : Codes \cup {NoCode}, found : SUBSET Restaurants,
            active : SUBSET Restaurants, stale : BOOLEAN]

ASSUME SessionAssumption ==
    /\ NoCode \notin Codes /\ NoRestaurant \notin Restaurants /\ NoToken \notin Token
    /\ {RefreshLife, TempLife, CodeLife} \subseteq Nat \ {0}
    /\ {Horizon, MaxTokens, MaxChanges} \subseteq Nat
    /\ Offered \subseteq Ways

-----------------------------------------------------------------------------
IsRevoked(t) == \E k \in revoked : k.token = t

\* A request is seen from its first reading on: what it waited for before that
\* makes no difference to anyone.
Begin(r, o, s, x, t) ==
    /\ req[r] = Idle
    /\ o \in Offered
    /\ req' = [req EXCEPT ![r] = [Idle EXCEPT !.op = o, !.step = s, !.at = x, !.token = t]]
    /\ UNCHANGED <<clock, member, open, storeVars, issued, changes, history>>

\* The request is refused, a call rejects, or the process stops.
End(r) ==
    /\ req[r] # Idle
    /\ req' = [req EXCEPT ![r] = Idle]
    /\ lost' = lost \cup {t \in issued : /\ req[r].step = "revoke" /\ req[r].token = t
                                     /\ ~IsRevoked(t)}
    /\ UNCHANGED <<clock, member, open, storeVars, issued, changes, loggedOut, spent, used>>

Go(r, q) == req' = [req EXCEPT ![r] = q]

\* r ends, and what the requests in S rely on is out of date.
EndTelling(r, S) ==
    req' = [p \in Requests |-> IF p = r THEN Idle
                               ELSE [req[p] EXCEPT !.stale = @ \/ p \in S]]

\* The client is given a token.
Give(r, t) ==
    /\ Cardinality(issued \cup {t}) <= MaxTokens
    /\ issued' = issued \cup {t}
    /\ req' = [req EXCEPT ![r] = Idle]

-----------------------------------------------------------------------------
(* Signing in.                                                             *)

\* The requests that have read memberships to sign in with.
SigningIn == {p \in Requests : req[p].step \in {"restaurants", "fallback", "restaurant"}}

\* The account is found through the first of its memberships by status.
First(x) == \A y \in Restaurants : Rank(member[x]) <= Rank(member[y])

\* Then the password is compared; the request goes on when it is right.
ReceiveLogin(r, x) == First(x) /\ Begin(r, "login", "members", x, NoToken)

\* The client names the restaurant.
ReceiveLoginAt(r, x) == Begin(r, "loginAt", "members", x, NoToken)

FindMemberships(r) ==
    /\ req[r].step = "members"
    /\ Go(r, [req[r] EXCEPT !.step = "restaurants",
                !.found  = {x \in Restaurants : member[x] # "REMOVED"},
                !.active = {x \in Restaurants : member[x] = "ACTIVE"}])
    /\ UNCHANGED <<clock, member, open, storeVars, issued, changes, history>>

\* The restaurants are read together.  One membership left is signed in to, of
\* several the client chooses, and with none left the first one is tried again.
FindRestaurants(r) ==
    LET q == req[r]
        valid == q.found \cap open
        SignIn(x) == x \in q.active /\ Give(r, Signed("refresh", x, RefreshLife))
    IN  /\ q.step = "restaurants"
        /\ \/ /\ q.op = "loginAt" /\ q.at \in valid
              /\ SignIn(q.at)
           \/ /\ q.op = "login" /\ Cardinality(valid) > 1
              /\ Give(r, Signed("select", NoRestaurant, TempLife))
           \/ /\ q.op = "login"
              /\ \E x \in Restaurants : valid = {x} /\ SignIn(x)
           \/ /\ q.op = "login" /\ valid = {}
              /\ Go(r, [q EXCEPT !.step = "fallback", !.found = {}, !.active = {}])
              /\ UNCHANGED issued
        /\ UNCHANGED <<clock, member, open, storeVars, changes, history>>

\* The restaurant of the first membership, whatever the status of that.
Fallback(r) ==
    /\ req[r].step = "fallback"
    /\ req[r].at \in open
    /\ Give(r, Signed("refresh", req[r].at, RefreshLife))
    /\ UNCHANGED <<clock, member, open, storeVars, changes, history>>

\* Slip: a membership is enough, whatever its status.
ChoosableAny(x) == member[x] # "REMOVED"

Choosable(x) == member[x] = "ACTIVE"

\* The token is verified before anything is read.
ReceiveSelect(r, x, t) ==
    /\ t.kind = "select" /\ t \in issued
    /\ Choosable(x)
    /\ Begin(r, "select", "restaurant", x, t)

Choose(r) ==
    /\ req[r].step = "restaurant"
    /\ req[r].at \in open
    /\ Give(r, Signed("refresh", req[r].at, RefreshLife))
    /\ UNCHANGED <<clock, member, open, storeVars, changes, history>>

-----------------------------------------------------------------------------
(* Revocation.                                                             *)

\* Slip: the key ends before the token does.
RevokedUntilEarly(t) == t.until - 1

RevokedUntil(t) == t.until

Revocation(t) == [token |-> t, until |-> RevokedUntil(t)]

\* The requests that found the token not revoked.
Trusting(t) == {p \in Requests : req[p].token = t}

\* A logout is one call.
Logout(t) ==
    /\ t.kind = "refresh"
    /\ revoked' = revoked \cup {Revocation(t)}
    /\ loggedOut' = loggedOut \cup {t}
    /\ req' = [p \in Requests |-> [req[p] EXCEPT !.stale = @ \/ p \in Trusting(t)]]
    /\ UNCHANGED <<clock, member, open, code, issued, changes, spent, lost, used>>

\* Refreshing and resetting begin with the same question; then the token is
\* verified.
ReceiveRefresh(r, t) ==
    /\ t.kind = "refresh" /\ ~IsRevoked(t) /\ t \in issued
    /\ Begin(r, "refresh", "membership", t.at, t)

\* Slip: a token that was spent is not asked for.
ReceiveResetUnasked(r, t) ==
    /\ t.kind = "reset" /\ t \in issued
    /\ Begin(r, "reset", "membership", t.at, t)

ReceiveReset(r, t) ==
    /\ t.kind = "reset" /\ ~IsRevoked(t) /\ t \in issued
    /\ Begin(r, "reset", "membership", t.at, t)

\* The restaurant is not read: a new access token is signed.
Refresh(r) ==
    /\ req[r].op = "refresh" /\ req[r].step = "membership"
    /\ member[req[r].at] = "ACTIVE"
    /\ EndTelling(r, {})
    /\ UNCHANGED <<clock, member, open, storeVars, issued, changes, history>>

-----------------------------------------------------------------------------
(* A forgotten password.                                                   *)

\* A code is sent, or sent again: the same calls.
ReceiveForgot(r, x) ==
    /\ First(x) /\ member[x] = "ACTIVE"
    /\ Begin(r, "forgot", "store", x, NoToken)

ReceiveVerify(r, x) ==
    /\ First(x) /\ member[x] = "ACTIVE"
    /\ Begin(r, "verify", "compare", x, NoToken)

Comparing == {p \in Requests : req[p].step = "delete"}

\* The code replaces the one that is stored, if any; then it is mailed.
SaveCode(r, k) ==
    /\ req[r].step = "store"
    /\ k # code.value /\ \A p \in Requests : req[p].code # k
    /\ code' = [value |-> k, left |-> CodeLife]
    /\ EndTelling(r, Comparing)
    /\ used' = used \ {k}
    /\ UNCHANGED <<clock, member, open, revoked, issued, changes, loggedOut, spent, lost>>

\* The code is read twice: the first reading only asks whether there is one, the
\* second is compared with the client's, which is right.
CompareCode(r) ==
    /\ req[r].step = "compare"
    /\ code # NoKey
    /\ Go(r, [req[r] EXCEPT !.step = "delete", !.code = code.value])
    /\ UNCHANGED <<clock, member, open, storeVars, issued, changes, history>>

\* Slip: the code is left to end by itself.
Kept == code

Deleted == NoKey

\* The key is deleted, whatever it holds, and a token is signed.
DeleteCode(r) ==
    LET t == Signed("reset", req[r].at, TempLife)
    IN  /\ req[r].step = "delete"
        /\ Cardinality(issued \cup {t}) <= MaxTokens
        /\ code' = Deleted
        /\ used' = used \cup {req[r].code}
        /\ issued' = issued \cup {t}
        /\ EndTelling(r, Comparing)
        /\ UNCHANGED <<clock, member, open, revoked, changes, loggedOut, spent, lost>>

FindForReset(r) ==
    /\ req[r].op = "reset" /\ req[r].step = "membership"
    /\ member[req[r].at] = "ACTIVE"
    /\ Go(r, [req[r] EXCEPT !.step = "save"])
    /\ UNCHANGED <<clock, member, open, storeVars, issued, changes, history>>

\* The membership is written back as it was read, and the password with it.
SavePassword(r) ==
    LET changed == member' # member
    IN  /\ req[r].step = "save"
        /\ member' = [member EXCEPT ![req[r].at] = "ACTIVE"]
        /\ req' = [p \in Requests |->
                     IF p = r THEN [req[r] EXCEPT !.step = "revoke"]
                     ELSE [req[p] EXCEPT !.stale = @ \/ (changed /\ p \in SigningIn)]]
        /\ spent' = spent \cup ({req[r].token} \cap issued)
        /\ UNCHANGED <<clock, open, storeVars, issued, changes, loggedOut, lost, used>>

RevokeSpent(r) ==
    LET t == req[r].token
    IN  /\ req[r].step = "revoke"
        /\ revoked' = revoked \cup {Revocation(t)}
        /\ lost' = lost \ {t}
        /\ EndTelling(r, Trusting(t))
        /\ UNCHANGED <<clock, member, open, code, issued, changes, loggedOut, spent, used>>

-----------------------------------------------------------------------------
(* Around them.                                                            *)

Outdated(S) == req' = [p \in Requests |-> [req[p] EXCEPT !.stale = @ \/ p \in S]]

\* Another use case writes a membership; a restaurant opens or closes.
ChangeMember(x, s) ==
    /\ s # member[x]
    /\ changes < MaxChanges
    /\ changes' = changes + 1
    /\ member' = [member EXCEPT ![x] = s]
    /\ Outdated(SigningIn)
    /\ UNCHANGED <<clock, open, storeVars, issued, history>>

ChangeRestaurant(x) ==
    /\ changes < MaxChanges
    /\ changes' = changes + 1
    /\ open' = IF x \in open THEN open \ {x} ELSE open \cup {x}
    /\ Outdated(SigningIn)
    /\ UNCHANGED <<clock, member, storeVars, issued, history>>

Tick ==
    /\ clock < Horizon
    /\ clock' = clock + 1
    /\ code' = IF code.left > 1 THEN [code EXCEPT !.left = @ - 1] ELSE NoKey
    /\ revoked' = {k \in revoked : k.until > clock'}
    /\ issued' = {t \in issued : t.until > clock'}
    /\ loggedOut' = loggedOut \cap issued'
    /\ spent' = spent \cap issued' /\ lost' = lost \cap issued'
    /\ UNCHANGED <<member, open, changes, req, used>>

Init ==
    /\ clock = 0
    /\ member \in [Restaurants -> Statuses]
    /\ open = Restaurants
    /\ code = NoKey
    /\ revoked = {} /\ issued = {}
    /\ changes = 0
    /\ req = [r \in Requests |-> Idle]
    /\ loggedOut = {} /\ spent = {} /\ lost = {} /\ used = {}

SignInStep(r) ==
    \/ \E x \in Restaurants : ReceiveLogin(r, x) \/ ReceiveLoginAt(r, x)
    \/ FindMemberships(r) \/ FindRestaurants(r) \/ Fallback(r)
    \/ \E x \in Restaurants, t \in issued : ReceiveSelect(r, x, t)
    \/ Choose(r)
    \/ \E t \in issued : ReceiveRefresh(r, t)
    \/ Refresh(r)

RecoveryStep(r) ==
    \/ \E x \in Restaurants : ReceiveForgot(r, x) \/ ReceiveVerify(r, x)
    \/ \E k \in Codes : SaveCode(r, k)
    \/ CompareCode(r) \/ DeleteCode(r)
    \/ \E t \in issued : ReceiveReset(r, t)
    \/ FindForReset(r) \/ SavePassword(r) \/ RevokeSpent(r)

Next ==
    \/ \E r \in Requests : SignInStep(r) \/ RecoveryStep(r) \/ End(r)
    \/ \E t \in issued : Logout(t)
    \/ \E x \in Restaurants : ChangeRestaurant(x) \/ \E s \in Statuses : ChangeMember(x, s)
    \/ Tick

Spec == Init /\ [][Next]_vars

-----------------------------------------------------------------------------
TypeOK ==
    /\ clock \in 0..Horizon
    /\ member \in [Restaurants -> Statuses]
    /\ open \subseteq Restaurants
    /\ code \in Key
    /\ revoked \subseteq [token : Token, until : Nat]
    /\ issued \subseteq Token
    /\ changes \in 0..MaxChanges
    /\ req \in [Requests -> Request]
    /\ {loggedOut, spent, lost} \subseteq SUBSET Token /\ used \subseteq Codes

\* A request has set a password with the token, and has yet to revoke it.
Revoking(t) == \E r \in Requests : req[r].step = "revoke" /\ req[r].token = t

\* The keys of Redis outlive what they speak of: a token that was given up is
\* known as revoked as long as it is valid, and so is one that set a password,
\* unless its request is, or has ended, before the revocation.  A stored code
\* has given no token.
SessionInv ==
    /\ TypeOK
    /\ \A t \in issued \cap loggedOut : IsRevoked(t)
    /\ \A t \in issued \cap spent : IsRevoked(t) \/ t \in lost \/ Revoking(t)
    /\ code.value # NoCode => code.value \notin used

\* A refresh that began after the logout was answered is refused, however long
\* the token would have lasted.
LoggedOutStaysOut ==
    [][ \A r \in Requests :
          req[r].op = "refresh" /\ req[r].token \in loggedOut /\ ~req[r].stale
          => ~Refresh(r) ]_vars

\* A token sets a second password only in a request that overlaps with the
\* first, or when the first ended between the password and the revocation.
TokensResetOnce ==
    [][ \A r \in Requests :
          SavePassword(r) /\ req[r].token \in spent
          => req[r].stale \/ req[r].token \in lost \/ Revoking(req[r].token) ]_vars

\* A verification is given the only token of its code, and the code it deletes
\* is its own, unless it overlaps with another one or with a newer code.
CodesServeOnce ==
    [][ \A r \in Requests :
          DeleteCode(r) /\ ~req[r].stale
          => req[r].code \notin used /\ code.value \in {req[r].code, NoCode} ]_vars

\* Who signs in gets a token for an active membership of a restaurant that is
\* open, unless one of the two changed on the way; only the fallback, when no
\* membership but removed ones is left, looks at the restaurant alone.
SignedForMembers ==
    [][ \A t \in issued' \ issued :
          t.kind = "refresh" =>
            \/ t.at \in open /\ member[t.at] = "ACTIVE"
            \/ \E r \in Requests : req'[r] = Idle /\ req[r].stale
            \/ \E r \in Requests : /\ req[r].step = "fallback" /\ req'[r] = Idle
                                   /\ t.at \in open
                                   /\ \A x \in Restaurants : member[x] = "REMOVED" \/ x \notin open
    ]_vars
===============================================================================
