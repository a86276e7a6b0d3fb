------------------------------- MODULE OwnerOtp -------------------------------
(***************************************************************************)
(* The sign-in of one owner by a code sent to an e-mail address.  The code *)
(* and three counters are keys of Redis, each with a time to live that a   *)
(* call of its own sets; requests that send a code and requests that       *)
(* verify one read and write them call by call.  The first verification    *)
(* creates the restaurant.                                                 *)
(***************************************************************************)
EXTENDS Integers

CONSTANTS
    Requests,      \* HTTP requests in flight at the same time
    Offered,       \* the ways of asking that clients use
    Codes,         \* codes that are generated, each once
    Limit,         \* of codes asked for in a window, by the way of asking
    MaxAttempts,   \* wrong codes, until the code is deleted
    Expiry,        \* time to live of a code and of its attempts
    Window,        \* time to live of the other counters
    NoCode

VARIABLES
    code,          \* the key of the code, with the time it has left
    attempts,      \* the counter of wrong codes
    asked,         \* the counters of codes asked for
    owner,         \* the row of the restaurant with this address
    req,           \* what each request does, and holds in memory
    returned,      \* the codes that gave tokens (history)
    wrong,         \* the wrong tries at the code stored now (history)
    spared,        \* whether the counter forgot some of them (history)
    mixed,         \* whether it counts tries at other codes (history)
    orphans        \* the windows that no one will close (history)

redisVars == <<code, attempts, asked>>
tries == <<wrong, spared, mixed>>
history == <<returned, tries, orphans>>
vars == <<redisVars, owner, req, history>>

Ways == {"send", "resend"}

Key == [value : Codes \cup {NoCode}, left : 0..Expiry]
NoKey == [value |-> NoCode, left |-> 0]

\* A counter that is 0 does not exist; one without time left never ends.
Counter(top, time) == [n : 0..top, left : 0..time]
Zero == [n |-> 0, left |-> 0]

Idle == [op |-> "none", step |-> "idle", code |-> NoCode, right |-> FALSE, stale |-> FALSE]

\* code: the code to be sent, or the stored one as it was read; right: whether
\* the client's is the same; stale: the key was written since it was read, or
\* the tries it has counted are not this code's alone (history).
Request == [op : Ways \cup {"verify", "none"},
            step : {"idle", "ask", "window", "save", "clear", "read", "count",
                    "limit", "find", "create", "delete", "reset"},
            code : Codes \cup {NoCode}, right : BOOLEAN, stale : BOOLEAN]

ASSUME OtpAssumption ==
    /\ NoCode \notin Codes
    /\ Limit \in [Ways -> Nat \ {0}]
    /\ MaxAttempts \in Nat \ {0}
    /\ Expiry \in Nat \ {0}
    /\ Window \in Nat \ {0}
    /\ Offered \subseteq Ways

-----------------------------------------------------------------------------
(* Redis.                                                                  *)

\* Counters are told apart up to a bound that every test refuses.
AskTop(w) == Limit[w] + 1
TryTop == MaxAttempts + 1

Incremented(c, top) == [c EXCEPT !.n = IF @ < top THEN @ + 1 ELSE @]

\* EXPIRE does nothing to a key that does not exist.
Timed(c, time) == IF c = Zero THEN c ELSE [c EXCEPT !.left = time]

Aged(c) == IF c.left = 1 THEN Zero
           ELSE IF c.left > 1 THEN [c EXCEPT !.left = @ - 1] ELSE c

-----------------------------------------------------------------------------
Begin(r, o, s) ==
    /\ req[r] = Idle
    /\ req' = [req EXCEPT ![r] = [Idle EXCEPT !.op = o, !.step = s]]
    /\ UNCHANGED <<redisVars, owner, history>>

ReceiveSend(r) == "send" \in Offered /\ Begin(r, "send", "ask")
ReceiveResend(r) == "resend" \in Offered /\ Begin(r, "resend", "ask")
ReceiveVerify(r) == Begin(r, "verify", "read")

\* The request is refused (the restaurant is blocked, or was created by another
\* one), a call rejects, or the process stops.
End(r) ==
    /\ req[r] # Idle
    /\ req' = [req EXCEPT ![r] = Idle]
    /\ orphans' = IF req[r].step = "window" THEN orphans \cup {req[r].op} ELSE orphans
    /\ UNCHANGED <<redisVars, owner, returned, tries>>

Go(r, s) == req' = [req EXCEPT ![r].step = s]

\* The code's key was written by r, which goes on as q: what others have read
\* of it is out of date.
Touched(r, q) ==
    req' = [p \in Requests |->
              IF p = r THEN q
              ELSE IF req[p].op = "verify" /\ req[p].step # "read"
                   THEN [req[p] EXCEPT !.stale = TRUE] ELSE req[p]]

-----------------------------------------------------------------------------
(* Sending a code.                                                         *)

NextAfterAsking(w, n) ==
    IF n = 1 THEN "window" ELSE IF n > Limit[w] THEN "refused" ELSE "save"

\* INCR of the counter of this way: the first in a window sets its end.
Ask(r) ==
    LET w == req[r].op
        c == Incremented(asked[w], AskTop(w))
        s == NextAfterAsking(w, c.n)
    IN  /\ req[r].step = "ask"
        /\ asked' = [asked EXCEPT ![w] = c]
        /\ IF s = "refused" THEN req' = [req EXCEPT ![r] = Idle] ELSE Go(r, s)
        /\ UNCHANGED <<code, attempts, owner, history>>

SetWindow(r) ==
    LET w == req[r].op
    IN  /\ req[r].step = "window"
        /\ asked' = [asked EXCEPT ![w] = Timed(@, Window)]
        /\ Go(r, "save")
        /\ UNCHANGED <<code, attempts, owner, history>>

IsNew(k) == k # code.value /\ \A q \in Requests : req[q].code # k

\* The code replaces the one that is stored, if any.
SaveCode(r, k) ==
    /\ req[r].step = "save"
    /\ IsNew(k)
    /\ code' = [value |-> k, left |-> Expiry]
    /\ Touched(r, [req[r] EXCEPT !.step = "clear", !.code = k])
    /\ returned' = returned \ {k}
    /\ wrong' = 0 /\ spared' = FALSE /\ mixed' = (attempts # Zero)
    /\ UNCHANGED <<attempts, asked, owner, orphans>>

\* resetAttempts, wherever it is called.
Forget ==
    /\ attempts' = Zero
    /\ spared' = (spared \/ wrong > 0)
    /\ mixed' = FALSE
    /\ UNCHANGED <<code, asked, owner, wrong, orphans>>

\* Then the mail is put in the queue: what becomes of it is the queue's matter.
ClearAttempts(r) ==
    /\ req[r].step = "clear"
    /\ Forget
    /\ req' = [req EXCEPT ![r] = Idle]
    /\ UNCHANGED returned

-----------------------------------------------------------------------------
(* Verifying a code.                                                       *)

\* The client sends the code that is stored, or another one; they are compared
\* in memory.
ReadCode(r, b) ==
    /\ req[r].step = "read"
    /\ code # NoKey
    /\ req' = [req EXCEPT ![r] = [@ EXCEPT !.code = code.value, !.right = b,
                                           !.step = IF b THEN "find" ELSE "count"]]
    /\ UNCHANGED <<redisVars, owner, history>>

\* Slip: one try too few.
ExhaustedEarly(n) == n >= MaxAttempts - 1

Exhausted(n) == n >= MaxAttempts

\* INCR of the attempts.  After the first, their time to live is set.
CountTry(r) ==
    LET own == req[r].code = code.value
        c == Incremented(attempts, TryTop)
        q == [req[r] EXCEPT !.stale = @ \/ mixed]
    IN  /\ req[r].step = "count"
        /\ attempts' = c
        /\ wrong' = IF own /\ wrong < TryTop THEN wrong + 1 ELSE wrong
        /\ mixed' = (mixed \/ ~own)
        /\ req' = [req EXCEPT ![r] = IF c.n = 1 THEN [q EXCEPT !.step = "limit"]
                                     ELSE IF Exhausted(c.n) THEN [q EXCEPT !.step = "delete"]
                                     ELSE Idle]
        /\ UNCHANGED <<code, asked, owner, returned, spared, orphans>>

AfterFirst(r) == IF Exhausted(1) THEN [req[r] EXCEPT !.step = "delete"] ELSE Idle

\* Slip: the attempts are kept shorter than the code.
LimitTriesShort(r) ==
    /\ req[r].step = "limit"
    /\ attempts' = Timed(attempts, Expiry - 1)
    /\ req' = [req EXCEPT ![r] = AfterFirst(r)]
    /\ UNCHANGED <<code, asked, owner, history>>

\* EXPIRE of the attempts, by the request that counted the first.
LimitTries(r) ==
    /\ req[r].step = "limit"
    /\ attempts' = Timed(attempts, Expiry)
    /\ req' = [req EXCEPT ![r] = AfterFirst(r)]
    /\ UNCHANGED <<code, asked, owner, history>>

\* Slip: an owner who is known keeps the code until it expires.
FindOwnerOnly(r) ==
    /\ req[r].step = "find"
    /\ Go(r, IF owner = "none" THEN "create" ELSE "reset")
    /\ UNCHANGED <<redisVars, owner, history>>

\* The login is recorded, and the tokens are signed.
FindOwner(r) ==
    /\ req[r].step = "find"
    /\ Go(r, IF owner = "none" THEN "create" ELSE "delete")
    /\ UNCHANGED <<redisVars, owner, history>>

\* The address is a unique key: a second creation fails (End).
CreateOwner(r) ==
    /\ req[r].step = "create"
    /\ owner = "none"
    /\ owner' = "created"
    /\ Go(r, "delete")
    /\ UNCHANGED <<redisVars, history>>

\* The key is deleted, whatever it holds.
DeleteCode(r) ==
    /\ req[r].step = "delete"
    /\ code' = NoKey
    /\ Touched(r, [req[r] EXCEPT !.step = "reset"])
    /\ wrong' = 0 /\ spared' = FALSE
    /\ UNCHANGED <<attempts, asked, owner, returned, mixed, orphans>>

\* The attempts are reset; who sent the right code is given the tokens.
Answer(r) ==
    /\ req[r].step = "reset"
    /\ Forget
    /\ returned' = IF req[r].right THEN returned \cup {req[r].code} ELSE returned
    /\ req' = [req EXCEPT ![r] = Idle]

-----------------------------------------------------------------------------
(* Around them.                                                            *)

\* A unit of time: keys that have none left are gone.
Tick ==
    LET gone == code.left = 1
    IN  /\ code' = IF gone THEN NoKey
                   ELSE IF code = NoKey THEN code ELSE [code EXCEPT !.left = @ - 1]
        /\ attempts' = Aged(attempts)
        /\ asked' = [w \in Ways |-> Aged(asked[w])]
        /\ wrong' = IF gone THEN 0 ELSE wrong
        /\ spared' = (~gone /\ (spared \/ (mixed /\ wrong > 0 /\ attempts.left = 1)))
        /\ mixed' = (mixed /\ attempts.left # 1)
        /\ UNCHANGED <<owner, req, returned, orphans>>

Init ==
    /\ code = NoKey
    /\ attempts = Zero
    /\ asked = [w \in Ways |-> Zero]
    /\ owner = "none"
    /\ req = [r \in Requests |-> Idle]
    /\ returned = {} /\ orphans = {} /\ wrong = 0 /\ spared = FALSE /\ mixed = FALSE

SendStep(r) ==
    \/ Ask(r) \/ SetWindow(r) \/ ClearAttempts(r)
    \/ \E k \in Codes : SaveCode(r, k)

VerifyStep(r) ==
    \/ CountTry(r) \/ LimitTries(r) \/ FindOwner(r) \/ CreateOwner(r)
    \/ DeleteCode(r) \/ Answer(r)
    \/ \E b \in BOOLEAN : ReadCode(r, b)

RequestStep(r) ==
    \/ ReceiveSend(r) \/ ReceiveResend(r) \/ ReceiveVerify(r)
    \/ SendStep(r) \/ VerifyStep(r) \/ End(r)

Next ==
    \/ \E r \in Requests : RequestStep(r)
    \/ Tick

Spec == Init /\ [][Next]_vars

-----------------------------------------------------------------------------
TypeOK ==
    /\ code \in Key
    /\ attempts \in Counter(TryTop, Expiry)
    /\ asked \in [Ways -> UNION {Counter(AskTop(w), Window) : w \in Ways}]
    /\ owner \in {"none", "created"}
    /\ req \in [Requests -> Request]
    /\ returned \subseteq Codes
    /\ wrong \in 0..TryTop
    /\ spared \in BOOLEAN /\ mixed \in BOOLEAN
    /\ orphans \subseteq Ways

\* The counter of attempts agrees with the tries at the stored code, although
\* it is another key with a life of its own: it counts more only when it counts
\* tries at an earlier code, and less only when another request has reset it;
\* it is never gone before the code when it was started for this code.
TriesInv ==
    code # NoKey =>
        /\ ~mixed => attempts.n <= wrong
        /\ ~spared => wrong <= attempts.n
        /\ ~mixed /\ attempts.left > 0 => code.left <= attempts.left

\* A stored code is deleted before its time only by the request that verified
\* it, after MaxAttempts wrong tries at this code, or by a request that read,
\* or counted tries at, an earlier one.
DeletedForCause ==
    [][ \A r \in Requests :
          req[r].step = "delete" /\ code # NoKey /\ code' = NoKey /\ ~req[r].stale
              /\ req'[r].step = "reset"
          => /\ req[r].code = code.value
             /\ req[r].right \/ wrong >= MaxAttempts ]_vars

\* A code gives tokens twice only to verifications that overlap.
TokensOncePerCode ==
    [][ \A r \in Requests :
          /\ req[r].step = "reset" /\ req[r].right /\ req[r].code \in returned
          /\ ~req[r].stale
          => ~Answer(r) ]_vars

\* A counter of codes asked for ends by itself, and with it the refusals, unless
\* the request that opened its window was stopped before it set the end.
LimitLifts ==
    \A w \in Ways :
        asked[w].n > 0 /\ asked[w].left = 0 =>
            \/ w \in orphans
            \/ \E r \in Requests : req[r].op = w /\ req[r].step = "window"

-----------------------------------------------------------------------------
(* The inductive invariant.                                                *)

\* A key exists as long as it has a value.
KeyInv ==
    /\ code.value = NoCode <=> code.left = 0
    /\ attempts.left > 0 => attempts.n > 0
    /\ \A w \in Ways : asked[w].left > 0 => asked[w].n > 0

\* What a verification knows of the stored code, until it is told otherwise.
KnownInv(r) ==
    LET q == req[r]
    IN  /\ q.step \in {"save", "ask", "window", "clear"} => q.op \in Ways
        /\ q.step \in {"read", "count", "limit", "find", "create", "delete", "reset"}
              => q.op = "verify"
        /\ q.step \in {"count", "limit", "find", "create", "delete", "reset"}
              => q.code # NoCode
        /\ q.step = "read" => q.code = NoCode
        /\ q.step \in {"find", "create"} => q.right
        /\ q.step \in {"count", "limit", "find", "create", "delete"} /\ ~q.stale
              /\ code # NoKey
              => /\ q.code = code.value
                 /\ q.step = "limit" => wrong > 0
                 /\ q.step = "delete" => q.right \/ wrong >= MaxAttempts

\* Who deleted a code has told everybody who read it.
DeletedInv(r) ==
    req[r].step = "reset" =>
        /\ code.value # req[r].code
        /\ \A q \in Requests \ {r} :
              req[q].op = "verify" /\ req[q].code = req[r].code => req[q].stale

\* No code that gave tokens is stored, or held by who trusts it.
ReturnedInv ==
    /\ code.value \notin returned
    /\ \A r \in Requests :
          req[r].op = "verify" /\ ~req[r].stale => req[r].code \notin returned

OtpInv ==
    /\ TypeOK
    /\ KeyInv
    /\ TriesInv
    /\ LimitLifts
    /\ \A r \in Requests : KnownInv(r) /\ DeletedInv(r)
    /\ ReturnedInv
===============================================================================
