-------------------------- MODULE OwnerAccountProofs --------------------------
(***************************************************************************)
(* Proofs about what an owner does: OwnerOtp, for any number of requests   *)
(* and codes, any limits and any times to live, and RestaurantDossier.     *)
(*                                                                         *)
(* Signing in: the keys of Redis know nothing of each other; what relates  *)
(* them is what the requests know of the stored code until somebody writes *)
(* it.  The dossier: a step concerns one request; what it does to the      *)
(* invariant follows from the request's record alone, but for the locks    *)
(* that others hold, and for papers that a commit adds.                    *)
(***************************************************************************)
EXTENDS OwnerOtp, RestaurantDossier, FiniteSetTheorems, SequenceTheorems, TLAPS

-----------------------------------------------------------------------------
(* Counters.                                                               *)

\* INCR keeps the end of a counter.
LEMMA IncrementedIsCounter ==
    ASSUME NEW top \in Nat, NEW t \in Nat, NEW time \in Nat, NEW c \in Counter(t, time)
    PROVE  Incremented(c, top) \in Counter(t, time) \cup Counter(top, time)
  BY DEF Counter, Incremented

\* EXPIRE keeps the count,
LEMMA TimedIsCounter ==
    ASSUME NEW top \in Nat, NEW time \in Nat, NEW c \in Counter(top, time)
    PROVE  Timed(c, time) \in Counter(top, time)
  BY DEF Counter, Timed, Zero

\* and time takes it away as a whole.
LEMMA AgedIsCounter ==
    ASSUME NEW top \in Nat, NEW time \in Nat, NEW c \in Counter(top, time)
    PROVE  Aged(c) \in Counter(top, time)
  BY DEF Counter, Aged, Zero

-----------------------------------------------------------------------------
(* Requests.                                                               *)

\* One of them goes on.
LEMMA MovedIsTyped ==
    ASSUME TypeOK, NEW r \in Requests, NEW q \in Request,
           req' = [req EXCEPT ![r] = q]
    PROVE  req' \in [Requests -> Request]
  BY DEF TypeOK

\* Requests, when the code is written.
LEMMA TouchedIsTyped ==
    ASSUME TypeOK, NEW r \in Requests, NEW q \in Request, Touched(r, q)
    PROVE  req' \in [Requests -> Request]
  <1> SUFFICES ASSUME NEW p \in Requests
               PROVE  (IF p = r THEN q
                       ELSE IF req[p].op = "verify" /\ req[p].step # "read"
                            THEN [req[p] EXCEPT !.stale = TRUE] ELSE req[p]) \in Request
    BY DEF Touched
  <1>1. req[p] \in Request
    BY DEF TypeOK
  <1>2. [req[p] EXCEPT !.stale = TRUE] \in Request
    BY <1>1 DEF Request
  <1> QED
    BY <1>1, <1>2

\* A request that goes on.
LEMMA SteppedIsTyped ==
    ASSUME NEW q \in Request,
           NEW s \in {"idle", "ask", "window", "save", "clear", "read", "count",
                    "limit", "find", "create", "delete", "reset"}
    PROVE  [q EXCEPT !.step = s] \in Request
  BY DEF Request

LEMMA IdleIsTyped == Idle \in Request
  BY DEF Idle, Request

-----------------------------------------------------------------------------
(* One lemma for each action.                                              *)

\* A request arrives: it holds no code.
LEMMA BeginKeeps ==
    ASSUME OtpInv, NEW r \in Requests, NEW o \in Ways \cup {"verify"},
           NEW s \in {"ask", "read"}, s = "read" <=> o = "verify", Begin(r, o, s)
    PROVE  OtpInv'
  <1> DEFINE q == [Idle EXCEPT !.op = o, !.step = s]
  <1>1. /\ req' = [req EXCEPT ![r] = q]
        /\ UNCHANGED <<code, attempts, asked, owner, returned, wrong, spared, mixed, orphans>>
    BY DEF Begin, redisVars, history, tries
  <1>2. q \in Request /\ q.op = o /\ q.step = s /\ q.code = NoCode
    BY DEF Request, Ways, Idle
  <1> HIDE DEF q
  <1>. TypeOK
    BY DEF OtpInv
  <1>3. req' \in [Requests -> Request] /\ req \in [Requests -> Request]
    <2>1. req' \in [Requests -> Request]
      BY <1>1, <1>2, MovedIsTyped
    <2> QED
      BY <2>1 DEF TypeOK
  <1>4. TypeOK'
    BY <1>1, <1>3 DEF OtpInv, TypeOK
  <1>5. KeyInv' /\ TriesInv'
    BY <1>1 DEF OtpInv, KeyInv, TriesInv, NoKey
  <1>6. LimitLifts'
    <2>1. req[r].step # "window"
      BY DEF Begin, Idle
    <2> QED
      BY <1>1, <1>3, <2>1 DEF OtpInv, LimitLifts
  <1>7. ASSUME NEW p \in Requests
        PROVE  KnownInv(p)'
    <2>1. CASE p = r
      BY <1>1, <1>2, <1>3, <2>1 DEF KnownInv, Ways
    <2>2. CASE p # r
      BY <1>1, <1>3, <2>2 DEF OtpInv, KnownInv
    <2> QED
      BY <2>1, <2>2
  <1>8. ASSUME NEW p \in Requests
        PROVE  DeletedInv(p)'
    BY <1>1, <1>2, <1>3 DEF OtpInv, DeletedInv, KnownInv
  <1>9. ReturnedInv'
    <2>1. NoCode \notin returned
      BY OtpAssumption DEF OtpInv, TypeOK
    <2> QED
      BY <1>1, <1>2, <1>3, <2>1 DEF OtpInv, ReturnedInv
  <1> QED
    BY <1>4, <1>5, <1>6, <1>7, <1>8, <1>9 DEF OtpInv

\* It ends: a window it would have closed is known to stay open.
LEMMA EndKeeps ==
    ASSUME OtpInv, NEW r \in Requests, End(r)
    PROVE  OtpInv'
  <1>1. TypeOK'
    <2>. TypeOK /\ req[r] \in Request
      BY DEF OtpInv, TypeOK
    <2>1. code' \in Key /\ attempts' \in Counter(TryTop, Expiry)
      BY DEF redisVars, End, TypeOK
    <2>2. asked' \in [Ways -> UNION {Counter(AskTop(w), Window) : w \in Ways}]
      BY DEF redisVars, End, TypeOK
    <2>3. owner' \in {"none", "created"} /\ req' \in [Requests -> Request]
      <3>1. req' = [req EXCEPT ![r] = Idle] /\ owner' = owner
        BY DEF End
      <3> QED
        BY <3>1, IdleIsTyped, MovedIsTyped DEF TypeOK
    <2>4. returned' \subseteq Codes /\ wrong' \in 0..TryTop /\ orphans' \subseteq Ways
      BY OtpAssumption DEF tries, TypeOK, KnownInv, OtpInv, End
    <2>5. spared' \in BOOLEAN /\ mixed' \in BOOLEAN
      BY DEF tries, End, TypeOK
    <2> QED
      BY <2>1, <2>2, <2>3, <2>4, <2>5 DEF TypeOK
  <1>2. KeyInv'
    BY DEF redisVars, End, KeyInv, OtpInv
  <1>3. TriesInv'
    BY DEF redisVars, tries, End, TriesInv, OtpInv
  <1>4. LimitLifts'
    BY DEF redisVars, End, LimitLifts, OtpInv
  <1>5. ASSUME NEW s \in Requests
        PROVE  KnownInv(s)'
    BY DEF redisVars, tries, Idle, End, KnownInv, OtpInv
  <1>6. ASSUME NEW s \in Requests
        PROVE  DeletedInv(s)'
    BY DEF redisVars, Idle, End, DeletedInv, OtpInv
  <1>7. ReturnedInv'
    BY DEF redisVars, Idle, End, ReturnedInv, OtpInv
  <1> QED
    BY <1>1, <1>2, <1>3, <1>4, <1>5, <1>6, <1>7 DEF OtpInv

\* The first INCR in a window is followed by the end of the window.
LEMMA AskKeeps ==
    ASSUME OtpInv, NEW r \in Requests, Ask(r)
    PROVE  OtpInv'
  <1>1. TypeOK'
    <2>. TypeOK /\ req[r] \in Request
      BY DEF OtpInv, TypeOK
    <2>1. code' \in Key /\ attempts' \in Counter(TryTop, Expiry)
      BY DEF Ask, TypeOK
    <2>2. asked' \in [Ways -> UNION {Counter(AskTop(w), Window) : w \in Ways}]
      <3> DEFINE w == req[r].op
                 c == Incremented(asked[w], AskTop(w))
      <3>1. w \in Ways
        BY DEF Ask, KnownInv, OtpInv
      <3>2. AskTop(w) \in Nat /\ Window \in Nat
        BY <3>1, OtpAssumption DEF AskTop
      <3>3. PICK v \in Ways : asked[w] \in Counter(AskTop(v), Window)
        BY <3>1 DEF TypeOK
      <3>4. AskTop(v) \in Nat
        BY OtpAssumption DEF AskTop
      <3>5. c \in Counter(AskTop(v), Window) \cup Counter(AskTop(w), Window)
        BY <3>2, <3>3, <3>4, IncrementedIsCounter
      <3>6. asked' = [asked EXCEPT ![w] = c]
        BY DEF Ask
      <3> HIDE DEF w, c
      <3> QED
        BY <3>1, <3>5, <3>6 DEF TypeOK
    <2>3. owner' \in {"none", "created"} /\ req' \in [Requests -> Request]
      <3> DEFINE w == req[r].op
                 s == NextAfterAsking(w, Incremented(asked[w], AskTop(w)).n)
      <3>1. s \in {"window", "refused", "save"}
        BY DEF NextAfterAsking
      <3>2. req' = [req EXCEPT ![r] = IF s = "refused" THEN Idle ELSE [@ EXCEPT !.step = s]]
        BY DEF Ask, Go
      <3> HIDE DEF s
      <3>3. (IF s = "refused" THEN Idle ELSE [req[r] EXCEPT !.step = s]) \in Request
        BY <3>1, IdleIsTyped, SteppedIsTyped
      <3>4. req' \in [Requests -> Request]
        BY <3>2, <3>3, MovedIsTyped
      <3> QED
        BY <3>4 DEF Ask, TypeOK
    <2>4. returned' \subseteq Codes /\ wrong' \in 0..TryTop /\ orphans' \subseteq Ways
      BY DEF tries, history, Ask, TypeOK
    <2>5. spared' \in BOOLEAN /\ mixed' \in BOOLEAN
      BY DEF tries, history, Ask, TypeOK
    <2> QED
      BY <2>1, <2>2, <2>3, <2>4, <2>5 DEF TypeOK
  <1>2. KeyInv'
    BY DEF tries, Counter, Incremented, Ask, TypeOK, KeyInv, OtpInv
  <1>3. TriesInv'
    BY DEF tries, history, Ask, TriesInv, OtpInv
  <1>4. LimitLifts'
    <2> DEFINE w == req[r].op
               c == Incremented(asked[w], AskTop(w))
    <2>. TypeOK /\ req[r] \in Request
      BY DEF OtpInv, TypeOK
    <2>1. w \in Ways /\ req[r].step = "ask"
      BY DEF Ask, KnownInv, OtpInv
    <2>2. PICK u \in Ways : asked[w] \in Counter(AskTop(u), Window)
      BY <2>1 DEF TypeOK
    <2>3. /\ AskTop(w) \in Nat \ {0}
          /\ AskTop(u) \in Nat
      BY <2>1, OtpAssumption DEF AskTop
    <2>4. c.left = asked[w].left /\ (asked[w].n = 0 => c.n = 1) /\ asked[w].n \in Nat
      BY <2>2, <2>3 DEF Incremented, Counter
    <2>5. asked' = [asked EXCEPT ![w] = c] /\ orphans' = orphans
      BY DEF Ask, history
    <2>6. \A p \in Requests \ {r} : req'[p] = req[p]
      BY DEF Ask, Go, TypeOK
    <2>7. c.n = 1 => req'[r].op = w /\ req'[r].step = "window"
      <3>1. c.n = 1 => req' = [req EXCEPT ![r] = [@ EXCEPT !.step = "window"]]
        BY DEF Ask, Go, NextAfterAsking
      <3> HIDE DEF c
      <3> QED
        BY <3>1 DEF TypeOK, Request
    <2>8. \A v \in Ways \ {w} : asked'[v] = asked[v]
      BY <2>1, <2>5 DEF TypeOK
    <2>9. asked'[w] = c /\ req[r].op = w
      BY <2>1, <2>5 DEF TypeOK
    <2>10. LimitLifts
      BY DEF OtpInv
    <2> HIDE DEF w, c
    <2> SUFFICES ASSUME NEW v \in Ways, asked'[v].n > 0, asked'[v].left = 0, v \notin orphans
                 PROVE  \E p \in Requests : req'[p].op = v /\ req'[p].step = "window"
      BY <2>5 DEF LimitLifts
    <2>11. CASE v = w /\ asked[w].n = 0
      BY <2>4, <2>7, <2>11
    <2>12. CASE v # w \/ asked[w].n # 0
      <3>1. asked[v].n > 0 /\ asked[v].left = 0
        BY <2>4, <2>8, <2>9, <2>12
      <3>2. PICK p \in Requests : req[p].op = v /\ req[p].step = "window"
        BY <2>10, <3>1 DEF LimitLifts
      <3> QED
        BY <2>1, <2>6, <3>2
    <2> QED
      BY <2>11, <2>12
  <1>5. ASSUME NEW s \in Requests
        PROVE  KnownInv(s)'
    <2>1. CASE s # r
      <3>1. req'[s] = req[s] /\ code' = code /\ wrong' = wrong
        BY <2>1 DEF Ask, Go, history, tries, OtpInv, TypeOK
      <3> QED
        BY <3>1 DEF KnownInv, OtpInv
    <2>2. CASE s = r
      <3>1. req[r] \in Request /\ req[r].op \in Ways
        BY DEF Ask, OtpInv, TypeOK, KnownInv
      <3>2. \/ req'[r] = Idle
            \/ req'[r] = [req[r] EXCEPT !.step = "window"]
            \/ req'[r] = [req[r] EXCEPT !.step = "save"]
        BY DEF Ask, Go, NextAfterAsking, OtpInv, TypeOK
      <3>3. req'[r].step \in {"idle", "window", "save"} /\ (req'[r].step # "idle" => req'[r].op \in Ways)
        BY <3>1, <3>2 DEF Request, Idle
      <3> QED
        BY <2>2, <3>3 DEF KnownInv
    <2> QED
      BY <2>1, <2>2
  <1>6. ASSUME NEW s \in Requests
        PROVE  DeletedInv(s)'
    BY DEF history, Ways, Key, Idle, Request, Go, NextAfterAsking, Ask, TypeOK, DeletedInv,
       OtpInv
  <1>7. ReturnedInv'
    BY DEF tries, history, Ways, NoKey, Idle, Request, Go, Ask, TypeOK, ReturnedInv, OtpInv
  <1> QED
    BY <1>1, <1>2, <1>3, <1>4, <1>5, <1>6, <1>7 DEF OtpInv

\* The window has an end.
LEMMA SetWindowKeeps ==
    ASSUME OtpInv, NEW r \in Requests, SetWindow(r)
    PROVE  OtpInv'
  <1>1. TypeOK'
    <2>. TypeOK /\ req[r] \in Request
      BY DEF OtpInv, TypeOK
    <2>1. code' \in Key /\ attempts' \in Counter(TryTop, Expiry)
      BY DEF SetWindow, TypeOK
    <2>2. asked' \in [Ways -> UNION {Counter(AskTop(w), Window) : w \in Ways}]
      <3> DEFINE w == req[r].op
      <3>1. w \in Ways
        BY DEF SetWindow, KnownInv, OtpInv
      <3>2. PICK v \in Ways : asked[w] \in Counter(AskTop(v), Window)
        BY <3>1 DEF TypeOK
      <3>3. AskTop(v) \in Nat /\ Window \in Nat
        BY OtpAssumption DEF AskTop
      <3>4. Timed(asked[w], Window) \in Counter(AskTop(v), Window)
        BY <3>2, <3>3, TimedIsCounter
      <3>5. asked' = [asked EXCEPT ![w] = Timed(@, Window)]
        BY DEF SetWindow
      <3> HIDE DEF w
      <3> QED
        BY <3>1, <3>4, <3>5 DEF TypeOK
    <2>3. owner' \in {"none", "created"} /\ req' \in [Requests -> Request]
      <3>1. [req[r] EXCEPT !.step = "save"] \in Request
        BY SteppedIsTyped
      <3>2. req' = [req EXCEPT ![r] = [@ EXCEPT !.step = "save"]]
        BY DEF SetWindow, Go
      <3>3. req' \in [Requests -> Request]
        BY <3>1, <3>2, MovedIsTyped
      <3> QED
        BY <3>3 DEF SetWindow, TypeOK
    <2>4. returned' \subseteq Codes /\ wrong' \in 0..TryTop /\ orphans' \subseteq Ways
      BY DEF tries, history, SetWindow, TypeOK
    <2>5. spared' \in BOOLEAN /\ mixed' \in BOOLEAN
      BY DEF tries, history, SetWindow, TypeOK
    <2> QED
      BY <2>1, <2>2, <2>3, <2>4, <2>5 DEF TypeOK
  <1>2. KeyInv'
    BY DEF Counter, Zero, Timed, SetWindow, TypeOK, KeyInv, OtpInv
  <1>3. TriesInv'
    BY DEF tries, history, SetWindow, TriesInv, OtpInv
  <1>4. LimitLifts'
    BY OtpAssumption DEF history, Zero, Timed, Go, SetWindow, TypeOK, LimitLifts, OtpInv
  <1>5. ASSUME NEW s \in Requests
        PROVE  KnownInv(s)'
    BY DEF tries, history, Go, SetWindow, KnownInv, OtpInv
  <1>6. ASSUME NEW s \in Requests
        PROVE  DeletedInv(s)'
    BY DEF Go, SetWindow, DeletedInv, OtpInv
  <1>7. ReturnedInv'
    BY DEF history, Go, SetWindow, ReturnedInv, OtpInv
  <1> QED
    BY <1>1, <1>2, <1>3, <1>4, <1>5, <1>6, <1>7 DEF OtpInv

\* A new code: what others have read is stale, and no try was made at it.
LEMMA SaveCodeKeeps ==
    ASSUME OtpInv, NEW r \in Requests, NEW k \in Codes, SaveCode(r, k)
    PROVE  OtpInv'
  <1>1. TypeOK'
    <2>. TypeOK /\ req[r] \in Request
      BY DEF OtpInv, TypeOK
    <2>1. code' \in Key /\ attempts' \in Counter(TryTop, Expiry)
      BY OtpAssumption DEF Key, SaveCode, TypeOK
    <2>2. asked' \in [Ways -> UNION {Counter(AskTop(w), Window) : w \in Ways}]
      BY DEF SaveCode, TypeOK
    <2>3. owner' \in {"none", "created"} /\ req' \in [Requests -> Request]
      <3> DEFINE q == [req[r] EXCEPT !.step = "clear", !.code = k]
      <3>1. q \in Request
        BY IdleIsTyped DEF Request, TypeOK
      <3>2. Touched(r, q)
        BY DEF SaveCode
      <3> HIDE DEF q
      <3>3. req' \in [Requests -> Request]
        BY <3>1, <3>2, TouchedIsTyped
      <3> QED
        BY <3>3 DEF SaveCode, TypeOK
    <2>4. returned' \subseteq Codes /\ wrong' \in 0..TryTop /\ orphans' \subseteq Ways
      BY OtpAssumption DEF Ways, TryTop, SaveCode, TypeOK
    <2>5. spared' \in BOOLEAN /\ mixed' \in BOOLEAN
      BY DEF SaveCode
    <2> QED
      BY <2>1, <2>2, <2>3, <2>4, <2>5 DEF TypeOK
  <1>2. KeyInv'
    BY OtpAssumption DEF SaveCode, KeyInv, OtpInv
  <1>3. TriesInv'
    <2>1. wrong' = 0 /\ attempts' = attempts /\ (mixed' <=> attempts # Zero)
      BY DEF SaveCode
    <2>2. attempts \in Counter(TryTop, Expiry)
      BY DEF TypeOK, OtpInv
    <2>3. ~mixed' => attempts'.n = 0 /\ attempts'.left = 0
      BY <2>1 DEF Zero
    <2> QED
      BY <2>1, <2>2, <2>3 DEF Counter, TriesInv
  <1>4. LimitLifts'
    BY DEF Touched, SaveCode, LimitLifts, OtpInv
  <1>5. ASSUME NEW s \in Requests
        PROVE  KnownInv(s)'
    BY DEF Touched, SaveCode, KnownInv, OtpInv
  <1>6. ASSUME NEW s \in Requests
        PROVE  DeletedInv(s)'
    BY DEF Touched, IsNew, SaveCode, DeletedInv, OtpInv
  <1>7. ReturnedInv'
    BY DEF Touched, SaveCode, ReturnedInv, OtpInv
  <1> QED
    BY <1>1, <1>2, <1>3, <1>4, <1>5, <1>6, <1>7 DEF OtpInv

\* The counter forgets what it has counted.
LEMMA ClearAttemptsKeeps ==
    ASSUME OtpInv, NEW r \in Requests, ClearAttempts(r)
    PROVE  OtpInv'
  <1>1. TypeOK'
    <2>1. code' \in Key /\ attempts' \in Counter(TryTop, Expiry)
      BY OtpAssumption DEF Counter, Zero, TryTop, Forget, ClearAttempts, TypeOK, OtpInv
    <2>2. asked' \in [Ways -> UNION {Counter(AskTop(w), Window) : w \in Ways}]
      BY DEF Forget, ClearAttempts, TypeOK, OtpInv
    <2>3. owner' \in {"none", "created"} /\ req' \in [Requests -> Request]
      BY DEF Idle, Request, Forget, ClearAttempts, TypeOK, OtpInv
    <2>4. returned' \subseteq Codes /\ wrong' \in 0..TryTop /\ orphans' \subseteq Ways
      BY DEF Forget, ClearAttempts, TypeOK, OtpInv
    <2>5. spared' \in BOOLEAN /\ mixed' \in BOOLEAN
      BY DEF Forget, ClearAttempts
    <2> QED
      BY <2>1, <2>2, <2>3, <2>4, <2>5 DEF TypeOK
  <1>2. KeyInv'
    BY DEF Zero, Forget, ClearAttempts, KeyInv, OtpInv
  <1>3. TriesInv'
    <2>1. ~spared' => ~spared /\ ~(wrong > 0)
      BY DEF Forget, ClearAttempts
    <2>2. wrong' = wrong /\ code' = code /\ attempts' = Zero
      BY DEF Forget, ClearAttempts
    <2>3. wrong \in 0..TryTop
      BY DEF TypeOK, OtpInv
    <2> QED
      BY <2>1, <2>2, <2>3 DEF Zero, TriesInv
  <1>4. LimitLifts'
    BY DEF Forget, ClearAttempts, LimitLifts, OtpInv
  <1>5. ASSUME NEW s \in Requests
        PROVE  KnownInv(s)'
    BY DEF Idle, Forget, ClearAttempts, KnownInv, OtpInv
  <1>6. ASSUME NEW s \in Requests
        PROVE  DeletedInv(s)'
    BY DEF Idle, Forget, ClearAttempts, DeletedInv, OtpInv
  <1>7. ReturnedInv'
    BY DEF Idle, Forget, ClearAttempts, ReturnedInv, OtpInv
  <1> QED
    BY <1>1, <1>2, <1>3, <1>4, <1>5, <1>6, <1>7 DEF OtpInv

\* What is read is the stored code.
LEMMA ReadCodeKeeps ==
    ASSUME OtpInv, NEW r \in Requests, NEW b \in BOOLEAN, ReadCode(r, b)
    PROVE  OtpInv'
  <1>1. TypeOK'
    <2>. TypeOK /\ req[r] \in Request
      BY DEF OtpInv, TypeOK
    <2>1. code' \in Key /\ attempts' \in Counter(TryTop, Expiry)
      BY DEF redisVars, ReadCode, TypeOK
    <2>2. asked' \in [Ways -> UNION {Counter(AskTop(w), Window) : w \in Ways}]
      BY DEF redisVars, ReadCode, TypeOK
    <2>3. owner' \in {"none", "created"} /\ req' \in [Requests -> Request]
      <3> DEFINE q == [req[r] EXCEPT !.code = code.value, !.right = b,
                                     !.step = IF b THEN "find" ELSE "count"]
      <3>1. code.value \in Codes \cup {NoCode}
        BY DEF TypeOK, Key
      <3>2. q \in Request
        BY <3>1 DEF Request
      <3>3. req' = [req EXCEPT ![r] = q]
        BY DEF ReadCode
      <3> HIDE DEF q
      <3>4. req' \in [Requests -> Request]
        BY <3>2, <3>3, MovedIsTyped
      <3> QED
        BY <3>4 DEF ReadCode, redisVars, history, TypeOK
    <2>4. returned' \subseteq Codes /\ wrong' \in 0..TryTop /\ orphans' \subseteq Ways
      BY DEF tries, history, ReadCode, TypeOK
    <2>5. spared' \in BOOLEAN /\ mixed' \in BOOLEAN
      BY DEF tries, history, ReadCode, TypeOK
    <2> QED
      BY <2>1, <2>2, <2>3, <2>4, <2>5 DEF TypeOK
  <1>2. KeyInv'
    BY DEF redisVars, ReadCode, KeyInv, OtpInv
  <1>3. TriesInv'
    BY DEF redisVars, tries, history, ReadCode, TriesInv, OtpInv
  <1>4. LimitLifts'
    BY DEF redisVars, history, ReadCode, LimitLifts, OtpInv
  <1>5. ASSUME NEW s \in Requests
        PROVE  KnownInv(s)'
    BY DEF redisVars, tries, history, Key, NoKey, ReadCode, TypeOK, KeyInv, KnownInv, OtpInv
  <1>6. ASSUME NEW s \in Requests
        PROVE  DeletedInv(s)'
    BY DEF redisVars, ReadCode, DeletedInv, OtpInv
  <1>7. ReturnedInv'
    BY DEF redisVars, history, ReadCode, ReturnedInv, OtpInv
  <1> QED
    BY <1>1, <1>2, <1>3, <1>4, <1>5, <1>6, <1>7 DEF OtpInv

\* A wrong try counts for the stored code if it was made at it.
LEMMA CountTryKeeps ==
    ASSUME OtpInv, NEW r \in Requests, CountTry(r)
    PROVE  OtpInv'
  <1>1. TypeOK'
    <2>. TypeOK /\ req[r] \in Request
      BY DEF OtpInv, TypeOK
    <2>1. code' \in Key /\ attempts' \in Counter(TryTop, Expiry)
      BY OtpAssumption DEF Ways, Counter, TryTop, Incremented, CountTry, TypeOK
    <2>2. asked' \in [Ways -> UNION {Counter(AskTop(w), Window) : w \in Ways}]
      BY DEF CountTry, TypeOK
    <2>3. owner' \in {"none", "created"} /\ req' \in [Requests -> Request]
      <3> DEFINE p == [req[r] EXCEPT !.stale = @ \/ mixed]
                 n == Incremented(attempts, TryTop).n
                 q == IF n = 1 THEN [p EXCEPT !.step = "limit"]
                      ELSE IF Exhausted(n) THEN [p EXCEPT !.step = "delete"] ELSE Idle
      <3>1. (req[r].stale \/ mixed) \in BOOLEAN
        OBVIOUS
      <3>2. p \in Request
        BY <3>1 DEF Request
      <3>3. req' = [req EXCEPT ![r] = q]
        BY DEF CountTry
      <3> HIDE DEF p, n
      <3>4. q \in Request
        BY <3>2, IdleIsTyped, SteppedIsTyped
      <3> HIDE DEF q
      <3>5. req' \in [Requests -> Request]
        BY <3>3, <3>4, MovedIsTyped
      <3> QED
        BY <3>5 DEF CountTry, TypeOK
    <2>4. returned' \subseteq Codes /\ wrong' \in 0..TryTop /\ orphans' \subseteq Ways
      BY OtpAssumption DEF Ways, TryTop, CountTry, TypeOK
    <2>5. spared' \in BOOLEAN /\ mixed' \in BOOLEAN
      BY DEF CountTry, TypeOK
    <2> QED
      BY <2>1, <2>2, <2>3, <2>4, <2>5 DEF TypeOK
  <1>2. KeyInv'
    BY DEF Counter, Incremented, CountTry, TypeOK, KeyInv, OtpInv
  <1>3. TriesInv'
    BY OtpAssumption DEF Counter, Request, TryTop, Incremented, CountTry, TypeOK, TriesInv,
       KnownInv, OtpInv
  <1>4. LimitLifts'
    BY DEF CountTry, LimitLifts, OtpInv
  <1>5. ASSUME NEW s \in Requests
        PROVE  KnownInv(s)'
    BY OtpAssumption DEF Counter, Idle, Request, TryTop, Incremented, Exhausted, CountTry,
       TypeOK, TriesInv, KnownInv, OtpInv
  <1>6. ASSUME NEW s \in Requests
        PROVE  DeletedInv(s)'
    BY DEF Idle, Request, CountTry, TypeOK, DeletedInv, OtpInv
  <1>7. ReturnedInv'
    BY DEF Idle, Request, CountTry, TypeOK, ReturnedInv, OtpInv
  <1> QED
    BY <1>1, <1>2, <1>3, <1>4, <1>5, <1>6, <1>7 DEF OtpInv

\* The attempts get an end, not before the code's.
LEMMA LimitTriesKeeps ==
    ASSUME OtpInv, NEW r \in Requests, LimitTries(r)
    PROVE  OtpInv'
  <1>1. TypeOK'
    BY OtpAssumption DEF tries, history, Ways, Counter, Zero, Idle, Request, Timed,
       AfterFirst, LimitTries, TypeOK, OtpInv
  <1>2. KeyInv'
    BY DEF Counter, Zero, Timed, LimitTries, TypeOK, KeyInv, OtpInv
  <1>3. TriesInv'
    BY DEF tries, history, Key, Timed, LimitTries, TypeOK, TriesInv, OtpInv
  <1>4. LimitLifts'
    BY DEF history, LimitTries, LimitLifts, OtpInv
  <1>5. ASSUME NEW s \in Requests
        PROVE  KnownInv(s)'
    BY OtpAssumption DEF tries, history, Idle, Exhausted, AfterFirst, LimitTries, TypeOK,
       KnownInv, OtpInv
  <1>6. ASSUME NEW s \in Requests
        PROVE  DeletedInv(s)'
    BY DEF Idle, AfterFirst, LimitTries, DeletedInv, OtpInv
  <1>7. ReturnedInv'
    BY DEF history, Idle, AfterFirst, LimitTries, ReturnedInv, OtpInv
  <1> QED
    BY <1>1, <1>2, <1>3, <1>4, <1>5, <1>6, <1>7 DEF OtpInv

\* The owner is found,
LEMMA FindOwnerKeeps ==
    ASSUME OtpInv, NEW r \in Requests, FindOwner(r)
    PROVE  OtpInv'
  <1>1. TypeOK'
    BY DEF redisVars, tries, history, Ways, Request, Go, FindOwner, TypeOK, OtpInv
  <1>2. KeyInv'
    BY DEF redisVars, FindOwner, KeyInv, OtpInv
  <1>3. TriesInv'
    BY DEF redisVars, tries, history, FindOwner, TriesInv, OtpInv
  <1>4. LimitLifts'
    BY DEF redisVars, history, Go, FindOwner, LimitLifts, OtpInv
  <1>5. ASSUME NEW s \in Requests
        PROVE  KnownInv(s)'
    BY DEF redisVars, tries, history, Go, FindOwner, KnownInv, OtpInv
  <1>6. ASSUME NEW s \in Requests
        PROVE  DeletedInv(s)'
    BY DEF redisVars, Go, FindOwner, DeletedInv, OtpInv
  <1>7. ReturnedInv'
    BY DEF redisVars, history, Go, FindOwner, ReturnedInv, OtpInv
  <1> QED
    BY <1>1, <1>2, <1>3, <1>4, <1>5, <1>6, <1>7 DEF OtpInv

\* or created.
LEMMA CreateOwnerKeeps ==
    ASSUME OtpInv, NEW r \in Requests, CreateOwner(r)
    PROVE  OtpInv'
  <1>1. TypeOK'
    BY DEF redisVars, tries, history, Ways, Request, Go, CreateOwner, TypeOK, OtpInv
  <1>2. KeyInv'
    BY DEF redisVars, CreateOwner, KeyInv, OtpInv
  <1>3. TriesInv'
    BY DEF redisVars, tries, history, CreateOwner, TriesInv, OtpInv
  <1>4. LimitLifts'
    BY DEF redisVars, history, Go, CreateOwner, LimitLifts, OtpInv
  <1>5. ASSUME NEW s \in Requests
        PROVE  KnownInv(s)'
    BY DEF redisVars, tries, history, Go, CreateOwner, KnownInv, OtpInv
  <1>6. ASSUME NEW s \in Requests
        PROVE  DeletedInv(s)'
    BY DEF redisVars, Go, CreateOwner, DeletedInv, OtpInv
  <1>7. ReturnedInv'
    BY DEF redisVars, history, Go, CreateOwner, ReturnedInv, OtpInv
  <1> QED
    BY <1>1, <1>2, <1>3, <1>4, <1>5, <1>6, <1>7 DEF OtpInv

\* The deletion tells everybody who has read a code.
LEMMA DeleteCodeKeeps ==
    ASSUME OtpInv, NEW r \in Requests, DeleteCode(r)
    PROVE  OtpInv'
  <1>1. TypeOK'
    <2>. TypeOK /\ req[r] \in Request
      BY DEF OtpInv, TypeOK
    <2>1. code' \in Key /\ attempts' \in Counter(TryTop, Expiry)
      BY OtpAssumption DEF Key, NoKey, DeleteCode, TypeOK
    <2>2. asked' \in [Ways -> UNION {Counter(AskTop(w), Window) : w \in Ways}]
      BY DEF DeleteCode, TypeOK
    <2>3. owner' \in {"none", "created"} /\ req' \in [Requests -> Request]
      <3> DEFINE q == [req[r] EXCEPT !.step = "reset"]
      <3>1. q \in Request
        BY IdleIsTyped DEF Request, TypeOK
      <3>2. Touched(r, q)
        BY DEF DeleteCode
      <3> HIDE DEF q
      <3>3. req' \in [Requests -> Request]
        BY <3>1, <3>2, TouchedIsTyped
      <3> QED
        BY <3>3 DEF DeleteCode, TypeOK
    <2>4. returned' \subseteq Codes /\ wrong' \in 0..TryTop /\ orphans' \subseteq Ways
      BY OtpAssumption DEF Ways, TryTop, DeleteCode, TypeOK
    <2>5. spared' \in BOOLEAN /\ mixed' \in BOOLEAN
      BY DEF DeleteCode, TypeOK
    <2> QED
      BY <2>1, <2>2, <2>3, <2>4, <2>5 DEF TypeOK
  <1>2. KeyInv'
    BY DEF NoKey, DeleteCode, KeyInv, OtpInv
  <1>3. TriesInv'
    BY DEF DeleteCode, TriesInv
  <1>4. LimitLifts'
    BY DEF Touched, DeleteCode, LimitLifts, OtpInv
  <1>5. ASSUME NEW s \in Requests
        PROVE  KnownInv(s)'
    BY DEF Touched, DeleteCode, KnownInv, OtpInv
  <1>6. ASSUME NEW s \in Requests
        PROVE  DeletedInv(s)'
    <2>. TypeOK /\ req[r] \in Request /\ req[s] \in Request
      BY DEF OtpInv, TypeOK
    <2>1. /\ code'.value = NoCode
          /\ req'[r].step = "reset" /\ req'[r].op = req[r].op /\ req'[r].code = req[r].code
          /\ req'[r].stale = req[r].stale
      <3>1. code' = NoKey /\ req'[r] = [req[r] EXCEPT !.step = "reset"]
        BY DEF DeleteCode, Touched
      <3> QED
        BY <3>1 DEF NoKey, Request
    <2>2. /\ req[r].op = "verify"
          /\ req[r].code # NoCode
      BY DEF DeleteCode, KnownInv, OtpInv
    <2>3. ASSUME NEW p \in Requests \ {r}
          PROVE  /\ req'[p].op = req[p].op /\ req'[p].step = req[p].step
                 /\ req'[p].code = req[p].code
                 /\ req[p].stale => req'[p].stale
                 /\ req[p].op = "verify" /\ req[p].step # "read" => req'[p].stale
      <3>1. req[p] \in Request
        BY DEF TypeOK
      <3>2. req'[p] = IF req[p].op = "verify" /\ req[p].step # "read"
                      THEN [req[p] EXCEPT !.stale = TRUE] ELSE req[p]
        BY DEF DeleteCode, Touched
      <3> QED
        BY <3>1, <3>2 DEF Request
    <2>4. \A p \in Requests : req[p].step = "read" => req[p].code = NoCode
      BY DEF KnownInv, OtpInv
    <2> QED
      BY <2>1, <2>2, <2>3, <2>4 DEF DeletedInv, OtpInv, KnownInv
  <1>7. ReturnedInv'
    BY OtpAssumption DEF NoKey, Touched, DeleteCode, TypeOK, ReturnedInv, OtpInv
  <1> QED
    BY <1>1, <1>2, <1>3, <1>4, <1>5, <1>6, <1>7 DEF OtpInv

\* The code that gives tokens is no longer stored.
LEMMA AnswerKeeps ==
    ASSUME OtpInv, NEW r \in Requests, Answer(r)
    PROVE  OtpInv'
  <1>1. TypeOK'
    <2>. TypeOK /\ req[r] \in Request
      BY DEF OtpInv, TypeOK
    <2>1. code' \in Key /\ attempts' \in Counter(TryTop, Expiry)
      BY OtpAssumption DEF Counter, Zero, TryTop, Forget, Answer, TypeOK
    <2>2. asked' \in [Ways -> UNION {Counter(AskTop(w), Window) : w \in Ways}]
      BY DEF Forget, Answer, TypeOK
    <2>3. owner' \in {"none", "created"} /\ req' \in [Requests -> Request]
      <3>1. req' = [req EXCEPT ![r] = Idle]
        BY DEF Answer
      <3>2. req' \in [Requests -> Request]
        BY <3>1, IdleIsTyped, MovedIsTyped
      <3> QED
        BY <3>2 DEF Answer, Forget, TypeOK
    <2>4. returned' \subseteq Codes /\ wrong' \in 0..TryTop /\ orphans' \subseteq Ways
      <3>1. req[r].code # NoCode
        BY DEF Answer, KnownInv, OtpInv
      <3>2. req[r].code \in Codes
        BY <3>1 DEF Request
      <3> QED
        BY <3>2 DEF Answer, Forget, TypeOK
    <2>5. spared' \in BOOLEAN /\ mixed' \in BOOLEAN
      BY DEF Forget, Answer
    <2> QED
      BY <2>1, <2>2, <2>3, <2>4, <2>5 DEF TypeOK
  <1>2. KeyInv'
    BY DEF Zero, Forget, Answer, KeyInv, OtpInv
  <1>3. TriesInv'
    <2>1. ~spared' => ~spared /\ ~(wrong > 0)
      BY DEF Forget, Answer
    <2>2. wrong' = wrong /\ code' = code /\ attempts' = Zero
      BY DEF Forget, Answer
    <2>3. wrong \in 0..TryTop
      BY DEF TypeOK, OtpInv
    <2> QED
      BY <2>1, <2>2, <2>3 DEF Zero, TriesInv
  <1>4. LimitLifts'
    BY DEF Forget, Answer, LimitLifts, OtpInv
  <1>5. ASSUME NEW s \in Requests
        PROVE  KnownInv(s)'
    BY DEF Idle, Forget, Answer, KnownInv, OtpInv
  <1>6. ASSUME NEW s \in Requests
        PROVE  DeletedInv(s)'
    BY DEF Idle, Forget, Answer, DeletedInv, OtpInv
  <1>7. ReturnedInv'
    BY DEF Idle, Forget, Answer, TypeOK, DeletedInv, ReturnedInv, OtpInv
  <1> QED
    BY <1>1, <1>2, <1>3, <1>4, <1>5, <1>6, <1>7 DEF OtpInv

\* Time: the attempts of a code never end before it.
LEMMA TickKeeps ==
    ASSUME OtpInv, Tick
    PROVE  OtpInv'
  <1>1. TypeOK'
    <2>. TypeOK
      BY DEF OtpInv
    <2>1. code' \in Key /\ attempts' \in Counter(TryTop, Expiry)
      <3>1. attempts' \in Counter(TryTop, Expiry)
        <4>1. TryTop \in Nat /\ Expiry \in Nat
          BY OtpAssumption DEF TryTop
        <4>2. attempts \in Counter(TryTop, Expiry)
          BY DEF TypeOK
        <4>3. attempts' = Aged(attempts)
          BY DEF Tick
        <4> QED
          BY <4>1, <4>2, <4>3, AgedIsCounter
      <3>2. code' \in Key
        <4>1. code \in Key
          BY DEF TypeOK
        <4>2. \/ code' = NoKey
              \/ code' = code
              \/ code # NoKey /\ code' = [code EXCEPT !.left = @ - 1]
          BY DEF Tick
        <4>3. code # NoKey => code.left # 0
          BY <4>1, OtpAssumption DEF KeyInv, OtpInv, NoKey, Key
        <4>4. CASE code' = NoKey
          BY <4>4, OtpAssumption DEF NoKey, Key
        <4>5. CASE code # NoKey /\ code' = [code EXCEPT !.left = @ - 1]
          BY <4>1, <4>3, <4>5, OtpAssumption DEF Key
        <4> QED
          BY <4>1, <4>2, <4>4, <4>5
      <3> QED
        BY <3>1, <3>2
    <2>2. asked' \in [Ways -> UNION {Counter(AskTop(w), Window) : w \in Ways}]
      <3>1. ASSUME NEW w \in Ways
            PROVE  \E v \in Ways : Aged(asked[w]) \in Counter(AskTop(v), Window)
        <4>1. PICK v \in Ways : asked[w] \in Counter(AskTop(v), Window)
          BY DEF TypeOK
        <4>2. AskTop(v) \in Nat /\ Window \in Nat
          BY OtpAssumption DEF AskTop
        <4> QED
          BY <4>1, <4>2, AgedIsCounter
      <3>2. asked' = [w \in Ways |-> Aged(asked[w])]
        BY DEF Tick
      <3> QED
        BY <3>1, <3>2
    <2>3. owner' \in {"none", "created"} /\ req' \in [Requests -> Request]
      BY DEF Tick, TypeOK
    <2>4. returned' \subseteq Codes /\ wrong' \in 0..TryTop /\ orphans' \subseteq Ways
      BY OtpAssumption DEF TryTop, Tick, TypeOK
    <2>5. spared' \in BOOLEAN /\ mixed' \in BOOLEAN
      BY DEF Tick
    <2> QED
      BY <2>1, <2>2, <2>3, <2>4, <2>5 DEF TypeOK
  <1>2. KeyInv'
    BY DEF Key, NoKey, Counter, Zero, Aged, Tick, TypeOK, KeyInv, OtpInv
  <1>3. TriesInv'
    BY OtpAssumption DEF Ways, Key, NoKey, Counter, Zero, Aged, Tick, TypeOK, TriesInv,
       KeyInv, OtpInv
  <1>4. LimitLifts'
    BY DEF Zero, Aged, Tick, LimitLifts, OtpInv
  <1>5. ASSUME NEW s \in Requests
        PROVE  KnownInv(s)'
    BY DEF Tick, KnownInv, OtpInv
  <1>6. ASSUME NEW s \in Requests
        PROVE  DeletedInv(s)'
    BY DEF NoKey, Tick, KnownInv, DeletedInv, OtpInv
  <1>7. ReturnedInv'
    BY OtpAssumption DEF NoKey, Tick, TypeOK, ReturnedInv, OtpInv
  <1> QED
    BY <1>1, <1>2, <1>3, <1>4, <1>5, <1>6, <1>7 DEF OtpInv

-----------------------------------------------------------------------------
(* The theorems.                                                           *)

LEMMA OtpStarts == Init => OtpInv
  <1> SUFFICES ASSUME Init
               PROVE  OtpInv
    OBVIOUS
  <1>1. code \in Key
    BY OtpAssumption DEF Init, Key, NoKey
  <1>2. attempts \in Counter(TryTop, Expiry) /\ wrong \in 0..TryTop
    BY OtpAssumption DEF Init, Counter, Zero, TryTop
  <1>3. asked \in [Ways -> UNION {Counter(AskTop(w), Window) : w \in Ways}]
    <2>1. ASSUME NEW w \in Ways
          PROVE  Zero \in Counter(AskTop(w), Window)
      BY OtpAssumption DEF Counter, Zero, AskTop
    <2> QED
      BY <2>1 DEF Init
  <1>4. req \in [Requests -> Request]
    BY IdleIsTyped DEF Init
  <1>5. TypeOK
    BY <1>1, <1>2, <1>3, <1>4 DEF Init, TypeOK
  <1>6. KeyInv /\ TriesInv /\ LimitLifts
    BY DEF Init, KeyInv, TriesInv, LimitLifts, NoKey, Zero
  <1>7. ASSUME NEW r \in Requests
        PROVE  KnownInv(r) /\ DeletedInv(r)
    BY DEF Init, Idle, KnownInv, DeletedInv
  <1>8. ReturnedInv
    BY DEF Init, ReturnedInv
  <1> QED
    BY <1>5, <1>6, <1>7, <1>8 DEF OtpInv

LEMMA OtpStepKeeps == OtpInv /\ [Next]_vars => OtpInv'
  <1> SUFFICES ASSUME OtpInv, [Next]_vars
               PROVE  OtpInv'
    OBVIOUS
  <1>1. CASE UNCHANGED vars
    BY <1>1 DEF vars, redisVars, history, tries, OtpInv, TypeOK, KeyInv, TriesInv,
       LimitLifts, KnownInv, DeletedInv, ReturnedInv
  <1>2. CASE Tick
    BY <1>2, TickKeeps
  <1>3. ASSUME NEW r \in Requests, RequestStep(r)
        PROVE  OtpInv'
    <2>1. CASE ReceiveSend(r) \/ ReceiveResend(r) \/ ReceiveVerify(r)
      BY <2>1, BeginKeeps DEF ReceiveSend, ReceiveResend, ReceiveVerify, Ways
    <2>2. CASE SendStep(r)
      BY <2>2, AskKeeps, SetWindowKeeps, ClearAttemptsKeeps, SaveCodeKeeps DEF SendStep
    <2>3. CASE VerifyStep(r)
      BY <2>3, CountTryKeeps, LimitTriesKeeps, FindOwnerKeeps, CreateOwnerKeeps,
         DeleteCodeKeeps, AnswerKeeps, ReadCodeKeeps DEF VerifyStep
    <2>4. CASE End(r)
      BY <2>4, EndKeeps
    <2> QED
      BY <1>3, <2>1, <2>2, <2>3, <2>4 DEF RequestStep
  <1> QED
    BY <1>1, <1>2, <1>3 DEF Next

\* Always: the counter of attempts agrees with the tries at the stored code, a
\* window that no one will close is known, and what a verification holds that
\* nobody has made stale is the stored code (redis-otp-store.service.ts).
THEOREM OtpCorrect == Spec => []OtpInv
  BY OtpStarts, OtpStepKeeps, PTL DEF Spec

\* A verification that nobody has made stale deletes a code only because it is
\* the right one or because its wrong tries have reached the limit
\* (verify-email-otp.use-case.ts).
THEOREM CodesDieForCause == Spec => DeletedForCause
  <1> DEFINE ForCause ==
        \A r \in Requests :
          req[r].step = "delete" /\ code # NoKey /\ code' = NoKey /\ ~req[r].stale
              /\ req'[r].step = "reset"
          => /\ req[r].code = code.value
             /\ req[r].right \/ wrong >= MaxAttempts
  <1>1. OtpInv => ForCause
    BY DEF OtpInv, KnownInv
  <1>2. OtpInv /\ [Next]_vars => [ForCause]_vars
    BY <1>1
  <1>3. Spec => [][ForCause]_vars
    BY <1>2, OtpCorrect, PTL DEF Spec
  <1> QED
    BY <1>3 DEF DeletedForCause

\* A verification answers with tokens for a code that has given tokens before
\* only if the two have overlapped (verify-email-otp.use-case.ts).
THEOREM CodesServeOnce == Spec => TokensOncePerCode
  <1> DEFINE Again(r) == /\ req[r].step = "reset" /\ req[r].right /\ req[r].code \in returned
                         /\ ~req[r].stale
  <1>1. OtpInv => \A r \in Requests : ~Again(r)
    BY DEF OtpInv, ReturnedInv, KnownInv
  <1>2. OtpInv /\ [Next]_vars => [\A r \in Requests : Again(r) => ~Answer(r)]_vars
    BY <1>1
  <1>3. Spec => [][\A r \in Requests : Again(r) => ~Answer(r)]_vars
    BY <1>2, OtpCorrect, PTL DEF Spec
  <1> QED
    BY <1>3 DEF TokensOncePerCode

-----------------------------------------------------------------------------
(* The dossier.                                                            *)

LEMMA RanksKnown ==
    /\ \A x \in Rows \cup Papers : Rank(x) \in 1..6
    /\ \A x \in Rows : Rank(x) <= 5
    /\ \A x \in Papers : Rank(x) = 6
    /\ Rank("restaurant") = 1 /\ Rank("profile") = 2
    /\ Rank("settings") = 3 /\ Rank("address") = 4
    /\ \A x \in Days : Rank(x) = 5
  BY DossierAssumption DEF Rank, Rows

\* Two rows of one rank are the same, or are hours, or papers.
LEMMA RanksTell ==
    ASSUME NEW x \in Rows, NEW y \in Rows, Rank(x) = Rank(y)
    PROVE  x = y \/ (x \in Days /\ y \in Days)
  BY DossierAssumption DEF Rank, Rows

-----------------------------------------------------------------------------
(* Plans.                                                                  *)

UpTo(s, n) == \A i \in 1..Len(s) : Rank(s[i]) <= n
From(s, n) == \A i \in 1..Len(s) : n <= Rank(s[i])

\* A plan of rows up to rank n, then others from n to m.
LEMMA ConcatAscends ==
    ASSUME NEW S, S \subseteq Rows \cup Papers, NEW s \in Seq(S), NEW t \in Seq(S),
           NEW n \in 1..6, NEW m \in 1..6, n <= m, Ascends(s), Ascends(t),
           UpTo(s, n), From(t, n), UpTo(t, m)
    PROVE  /\ s \o t \in Seq(S)
           /\ Ascends(s \o t)
           /\ UpTo(s \o t, m)
           /\ s # <<>> => s \o t # <<>> /\ Head(s \o t) = Head(s)
  <1> DEFINE u == s \o t
  <1>1. /\ u \in Seq(S)
        /\ Len(u) = Len(s) + Len(t)
        /\ \A i \in 1..(Len(s) + Len(t)) :
              u[i] = IF i <= Len(s) THEN s[i] ELSE t[i - Len(s)]
    BY ConcatProperties
  <1>2. /\ Len(s) \in Nat /\ Len(t) \in Nat
        /\ \A i \in 1..Len(s) : s[i] \in Rows \cup Papers
        /\ \A i \in 1..Len(t) : t[i] \in Rows \cup Papers
    OBVIOUS
  <1> HIDE DEF u
  <1>3. ASSUME NEW i \in 1..Len(u), NEW j \in 1..Len(u), i < j
        PROVE  Rank(u[i]) <= Rank(u[j])
    <2>1. CASE j <= Len(s)
      <3>1. u[i] = s[i] /\ u[j] = s[j] /\ i \in 1..Len(s) /\ j \in 1..Len(s)
        BY <1>1, <1>2, <1>3, <2>1
      <3> QED
        BY <1>3, <3>1 DEF Ascends
    <2>2. CASE Len(s) < i
      <3>1. /\ u[i] = t[i - Len(s)] /\ u[j] = t[j - Len(s)]
            /\ i - Len(s) \in 1..Len(t) /\ j - Len(s) \in 1..Len(t)
            /\ i - Len(s) < j - Len(s)
        BY <1>1, <1>2, <1>3, <2>2
      <3> QED
        BY <3>1 DEF Ascends
    <2>3. CASE i <= Len(s) /\ Len(s) < j
      <3>1. /\ u[i] = s[i] /\ u[j] = t[j - Len(s)]
            /\ i \in 1..Len(s) /\ j - Len(s) \in 1..Len(t)
        BY <1>1, <1>2, <1>3, <2>3
      <3>2. Rank(s[i]) <= n /\ n <= Rank(t[j - Len(s)])
        BY <3>1 DEF UpTo, From
      <3>3. Rank(s[i]) \in 1..6 /\ Rank(t[j - Len(s)]) \in 1..6
        BY <1>2, <3>1, RanksKnown
      <3>4. Rank(s[i]) <= Rank(t[j - Len(s)])
        BY <3>2, <3>3
      <3> QED
        BY <3>1, <3>4
    <2> QED
      BY <1>1, <1>2, <2>1, <2>2, <2>3
  <1>4. Ascends(u)
    BY <1>3 DEF Ascends
  <1>5. ASSUME NEW i \in 1..Len(u)
        PROVE  Rank(u[i]) <= m
    <2>1. CASE i <= Len(s)
      <3>1. u[i] = s[i] /\ i \in 1..Len(s)
        BY <1>1, <1>2, <2>1
      <3>2. Rank(s[i]) <= n /\ Rank(s[i]) \in 1..6
        BY <1>2, <3>1, RanksKnown DEF UpTo
      <3> QED
        BY <3>1, <3>2
    <2>2. CASE Len(s) < i
      <3>1. u[i] = t[i - Len(s)] /\ i - Len(s) \in 1..Len(t)
        BY <1>1, <1>2, <2>2
      <3> QED
        BY <3>1 DEF UpTo
    <2> QED
      BY <1>1, <1>2, <2>1, <2>2
  <1>6. s # <<>> => u # <<>> /\ Head(u) = Head(s)
    BY <1>1, <1>2
  <1> QED
    BY <1>1, <1>4, <1>5, <1>6 DEF u, UpTo

\* Papers, and the hours, may come in any order.
LEMMA EqualRanksAscend ==
    ASSUME NEW S, S \subseteq Rows \cup Papers, NEW n \in 1..6,
           \A x \in S : Rank(x) = n, NEW s \in Seq(S)
    PROVE  /\ s \in Seq(Rows \cup Papers)
           /\ Ascends(s)
           /\ \A i \in 1..Len(s) : s[i] \in S /\ Rank(s[i]) = n
  <1>1. \A i \in 1..Len(s) : s[i] \in S
    OBVIOUS
  <1>2. s \in Seq(Rows \cup Papers)
    BY <1>1
  <1> QED
    BY <1>1, <1>2 DEF Ascends

\* The documents in some order.
LEMMA DocumentsListed == SetToSeq(Documents) \in Seq(Documents)
  <1> DEFINE n == Cardinality(Documents)
  <1>1. n \in Nat /\ ExistsBijection(1..n, Documents)
    BY FS_CardinalityType, DossierAssumption
  <1>2. PICK b \in [1..n -> Documents] : IsInjective(b)
    BY <1>1 DEF ExistsBijection, Bijection, Injection
  <1>3. SetToSeq(Documents) \in [1..n -> Documents]
    BY <1>2, Zenon DEF SetToSeq
  <1> QED
    BY <1>1, <1>3

LEMMA OnboardingPlanAscends ==
    ASSUME NEW images \in Seq(Images)
    PROVE  /\ OnboardingPlan(images) \in Seq(Rows \cup Papers)
           /\ Ascends(OnboardingPlan(images))
           /\ OnboardingPlan(images) # <<>>
           /\ Head(OnboardingPlan(images)) = "restaurant"
  <1> DEFINE fixed == <<"restaurant", "profile", "settings", "address">>
             docs == SetToSeq(Documents)
             S == Rows \cup Papers
  <1>1. /\ fixed \in Seq(S) /\ fixed # <<>> /\ Head(fixed) = "restaurant"
        /\ Ascends(fixed)
        /\ UpTo(fixed, 4)
    <2>1. /\ fixed \in Seq(S) /\ fixed # <<>> /\ Head(fixed) = "restaurant"
          /\ Len(fixed) = 4
          /\ fixed[1] = "restaurant" /\ fixed[2] = "profile"
          /\ fixed[3] = "settings" /\ fixed[4] = "address"
      BY DEF Rows
    <2> HIDE DEF fixed
    <2>2. \A i \in 1..4 : i = 1 \/ i = 2 \/ i = 3 \/ i = 4
      OBVIOUS
    <2>3. \A i \in 1..4 : Rank(fixed[i]) = i
      BY <2>1, <2>2, RanksKnown
    <2> QED
      BY <2>1, <2>3 DEF Ascends, UpTo
  <1>2. docs \in Seq(S) /\ Ascends(docs) /\ UpTo(docs, 6) /\ From(docs, 4)
    BY DocumentsListed, RanksKnown, EqualRanksAscend DEF Papers, UpTo, From
  <1>3. images \in Seq(S) /\ Ascends(images) /\ UpTo(images, 6) /\ From(images, 6)
    BY RanksKnown, EqualRanksAscend DEF Papers, UpTo, From
  <1> HIDE DEF fixed, docs, S
  <1> DEFINE first == fixed \o docs
  <1>4. /\ first \in Seq(S) /\ Ascends(first) /\ UpTo(first, 6)
        /\ first # <<>> /\ Head(first) = "restaurant"
    BY <1>1, <1>2, ConcatAscends DEF S
  <1> HIDE DEF first
  <1>5. /\ first \o images \in Seq(S) /\ Ascends(first \o images)
        /\ first \o images # <<>> /\ Head(first \o images) = "restaurant"
    BY <1>3, <1>4, ConcatAscends DEF S
  <1>6. OnboardingPlan(images) = first \o images
    BY DEF OnboardingPlan, first, fixed, docs
  <1> QED
    BY <1>5, <1>6 DEF S

LEMMA SavePlanAscends ==
    ASSUME NEW sections, NEW hours \in Seq(Days)
    PROVE  SavePlan(sections, hours) \in Seq(Rows) /\ Ascends(SavePlan(sections, hours))
  <1> DEFINE r == Given("restaurant", sections)
             p == Given("profile", sections)
             t == Given("settings", sections)
  <1>1. /\ r \in Seq(Rows) /\ p \in Seq(Rows) /\ t \in Seq(Rows)
        /\ Ascends(r) /\ Ascends(p) /\ Ascends(t)
        /\ UpTo(r, 1) /\ From(p, 1) /\ UpTo(p, 2) /\ From(t, 2) /\ UpTo(t, 3)
    <2>1. ASSUME NEW x \in {"restaurant", "profile", "settings"}
          PROVE  LET g == Given(x, sections)
                 IN  g \in Seq(Rows) /\ \A i \in 1..Len(g) : g[i] = x /\ i = 1
      <3>1. x \in Rows
        BY DEF Rows
      <3>2. CASE x \in sections
        <4>1. Given(x, sections) = <<x>>
          BY <3>2 DEF Given
        <4>2. <<x>> \in Seq(Rows) /\ Len(<<x>>) = 1 /\ <<x>>[1] = x
          BY <3>1
        <4>3. \A i \in 1..1 : i = 1
          OBVIOUS
        <4> QED
          BY <4>1, <4>2, <4>3
      <3>3. CASE x \notin sections
        <4>1. Given(x, sections) = <<>>
          BY <3>3 DEF Given
        <4> QED
          BY <4>1
      <3> QED
        BY <3>2, <3>3
    <2> QED
      BY <2>1, RanksKnown DEF Ascends, UpTo, From
  <1>2. hours \in Seq(Rows) /\ Ascends(hours) /\ From(hours, 3) /\ UpTo(hours, 5)
    <2>1. \A i \in 1..Len(hours) : hours[i] \in Days
      OBVIOUS
    <2>2. hours \in Seq(Rows)
      BY <2>1 DEF Rows
    <2> QED
      BY <2>1, <2>2, RanksKnown DEF Ascends, UpTo, From
  <1> HIDE DEF r, p, t
  <1> DEFINE first == r \o p
             second == first \o t
  <1>3. first \in Seq(Rows) /\ Ascends(first) /\ UpTo(first, 2)
    BY <1>1, ConcatAscends
  <1> HIDE DEF first
  <1>4. second \in Seq(Rows) /\ Ascends(second) /\ UpTo(second, 3)
    BY <1>1, <1>3, ConcatAscends
  <1> HIDE DEF second
  <1>5. second \o hours \in Seq(Rows) /\ Ascends(second \o hours)
    BY <1>2, <1>4, ConcatAscends
  <1>6. SavePlan(sections, hours) = second \o hours
    BY DEF SavePlan, second, first, r, p, t
  <1> QED
    BY <1>5, <1>6

-----------------------------------------------------------------------------
(* One request's record.                                                   *)

DossierLocal == DossierTypeOK /\ OnePaperOfEach /\ LocksInv /\ OrderInv /\ PapersInv

LEMMA TailOfPlan ==
    ASSUME NEW s \in Seq(Rows \cup Papers), s # <<>>
    PROVE  /\ Head(s) = s[1] /\ s[1] \in Rows \cup Papers /\ 1 \in 1..Len(s)
           /\ Tail(s) \in Seq(Rows \cup Papers)
           /\ \A i \in 1..Len(Tail(s)) : Tail(s)[i] = s[i + 1] /\ i + 1 \in 1..Len(s)
           /\ Ascends(s) => Ascends(Tail(s)) /\ From(Tail(s), Rank(Head(s)))
  <1>1. /\ Head(s) = s[1] /\ s[1] \in Rows \cup Papers /\ 1 \in 1..Len(s)
        /\ Tail(s) \in Seq(Rows \cup Papers)
        /\ Len(Tail(s)) = Len(s) - 1 /\ Len(s) \in Nat
        /\ \A i \in 1..Len(Tail(s)) : Tail(s)[i] = s[i + 1]
    BY HeadTailProperties
  <1>2. \A i \in 1..Len(Tail(s)) : i + 1 \in 1..Len(s) /\ 1 < i + 1
    BY <1>1
  <1>3. ASSUME Ascends(s)
        PROVE  Ascends(Tail(s)) /\ From(Tail(s), Rank(Head(s)))
    <2>1. ASSUME NEW i \in 1..Len(Tail(s)), NEW j \in 1..Len(Tail(s)), i < j
          PROVE  Rank(Tail(s)[i]) <= Rank(Tail(s)[j])
      <3>1. i + 1 \in 1..Len(s) /\ j + 1 \in 1..Len(s) /\ i + 1 < j + 1
        BY <1>2, <2>1
      <3>2. Rank(s[i + 1]) <= Rank(s[j + 1])
        BY <1>3, <3>1 DEF Ascends
      <3> QED
        BY <1>1, <3>2
    <2>2. ASSUME NEW i \in 1..Len(Tail(s))
          PROVE  Rank(Head(s)) <= Rank(Tail(s)[i])
      <3>1. Rank(s[1]) <= Rank(s[i + 1])
        BY <1>1, <1>2, <1>3 DEF Ascends
      <3> QED
        BY <1>1, <3>1
    <2> QED
      BY <2>1, <2>2 DEF Ascends, From
  <1> QED
    BY <1>1, <1>2, <1>3

LEMMA BlankKept ==
    ASSUME DossierTypeOK, OnePaperOfEach
    PROVE  /\ Blank \in Form /\ Blank.held = {} /\ Blank.made = NoPapers
           /\ KeepsOrder(Blank) /\ KeepsPapers(Blank)
  <1>1. /\ Blank \in Form /\ Blank.held = {} /\ Blank.made = NoPapers
        /\ Blank.step = "idle" /\ Blank.op = "get" /\ Blank.plan = <<>>
    BY DEF Blank, Form, NoPapers
  <1>2. \A p \in Papers : papers[p] + NoPapers[p] <= 1
    BY DEF DossierTypeOK, OnePaperOfEach, NoPapers
  <1> QED
    BY <1>1, <1>2 DEF KeepsOrder, KeepsPapers, IsWriting

\* A step of one request that commits nothing.
LEMMA Goes ==
    ASSUME DossierLocal, NEW f \in Forms, NEW q \in Form,
           form' = [form EXCEPT ![f] = q], papers' = papers,
           tables' = tables, commits' = commits,
           KeepsOrder(q), KeepsPapers(q),
           \A g \in Forms \ {f} : q.held \cap form[g].held = {}
    PROVE  DossierLocal'
  <1>1. /\ form \in [Forms -> Form] /\ form'[f] = q
        /\ \A g \in Forms \ {f} : form'[g] = form[g]
        /\ form' \in [Forms -> Form]
    BY DEF DossierLocal, DossierTypeOK
  <1>2. DossierTypeOK' /\ OnePaperOfEach'
    BY <1>1 DEF DossierLocal, DossierTypeOK, OnePaperOfEach
  <1>3. LocksInv'
    BY <1>1 DEF DossierLocal, LocksInv
  <1>4. OrderInv'
    BY <1>1 DEF DossierLocal, OrderInv, KeepsOrder, IsWriting, Ascends
  <1>5. \A g \in Forms : KeepsPapers(form'[g])
    BY <1>1 DEF DossierLocal, PapersInv
  <1>6. PapersInv'
    BY <1>5 DEF PapersInv, KeepsPapers, IsWriting
  <1> QED
    BY <1>2, <1>3, <1>4, <1>6 DEF DossierLocal

LEMMA ReceiveOnboardingKeeps ==
    ASSUME DossierLocal, NEW f \in Forms, ReceiveOnboarding(f)
    PROVE  DossierLocal'
  <1>1. PICK images \in Seq(Images) :
          form' = [form EXCEPT ![f] = [Blank EXCEPT !.step = "write", !.op = "onboard",
                                                    !.plan = OnboardingPlan(images)]]
    <2>1. PICK i \in Images, j \in Images : \E images \in {<<i>>, <<i, j>>} :
            form' = [form EXCEPT ![f] = [Blank EXCEPT !.step = "write", !.op = "onboard",
                                                      !.plan = OnboardingPlan(images)]]
      BY Zenon DEF ReceiveOnboarding
    <2>2. <<i>> \in Seq(Images) /\ <<i, j>> \in Seq(Images)
      OBVIOUS
    <2> QED
      BY <2>1, <2>2, Zenon
  <1> DEFINE plan == OnboardingPlan(images)
  <1>2. /\ plan \in Seq(Rows \cup Papers) /\ Ascends(plan)
        /\ plan # <<>> /\ Head(plan) = "restaurant"
    BY OnboardingPlanAscends
  <1> HIDE DEF plan
  <1> DEFINE q == [Blank EXCEPT !.step = "write", !.op = "onboard", !.plan = plan]
  <1>3. /\ q \in Form /\ q.plan = plan /\ q.step = "write" /\ q.op = "onboard"
        /\ q.held = {} /\ q.made = NoPapers
    BY <1>2 DEF Blank, Form, NoPapers
  <1>4. form' = [form EXCEPT ![f] = q]
    BY <1>1 DEF plan
  <1> HIDE DEF q
  <1>5. \A p \in Papers : papers[p] + NoPapers[p] <= 1
    BY BlankKept DEF DossierLocal, KeepsPapers
  <1>6. KeepsOrder(q) /\ KeepsPapers(q)
    BY <1>2, <1>3, <1>5 DEF KeepsOrder, KeepsPapers, IsWriting
  <1> QED
    BY <1>3, <1>4, <1>6, Goes DEF ReceiveOnboarding

LEMMA ReceiveSaveKeeps ==
    ASSUME DossierLocal, NEW f \in Forms, ReceiveSave(f)
    PROVE  DossierLocal'
  <1>1. PICK sections \in SUBSET Sections, hours \in Seq(Days) :
          form' = [form EXCEPT ![f] = [Blank EXCEPT !.step = "write", !.op = "save",
                                                    !.plan = SavePlan(sections, hours)]]
    <2>1. PICK sections \in SUBSET Sections, c \in Days, d \in Days :
          \E hours \in {<<>>, <<c>>, <<c, d>>} :
            form' = [form EXCEPT ![f] = [Blank EXCEPT !.step = "write", !.op = "save",
                                                      !.plan = SavePlan(sections, hours)]]
      BY Zenon DEF ReceiveSave
    <2>2. <<>> \in Seq(Days) /\ <<c>> \in Seq(Days) /\ <<c, d>> \in Seq(Days)
      OBVIOUS
    <2> QED
      BY <2>1, <2>2, Zenon
  <1> DEFINE plan == SavePlan(sections, hours)
  <1>2. plan \in Seq(Rows) /\ Ascends(plan)
    BY SavePlanAscends
  <1> HIDE DEF plan
  <1> DEFINE q == [Blank EXCEPT !.step = "write", !.op = "save", !.plan = plan]
  <1>3. \A i \in 1..Len(plan) : plan[i] \in Rows
    BY <1>2
  <1>4. plan \in Seq(Rows \cup Papers)
    BY <1>2, <1>3
  <1>5. /\ q \in Form /\ q.plan = plan /\ q.step = "write" /\ q.op = "save"
        /\ q.held = {} /\ q.made = NoPapers
    BY <1>4 DEF Blank, Form, NoPapers
  <1>6. form' = [form EXCEPT ![f] = q]
    BY <1>1 DEF plan
  <1> HIDE DEF q
  <1>7. \A p \in Papers : papers[p] + NoPapers[p] <= 1
    BY BlankKept DEF DossierLocal, KeepsPapers
  <1>8. KeepsOrder(q) /\ KeepsPapers(q)
    BY <1>2, <1>3, <1>5, <1>7 DEF KeepsOrder, KeepsPapers, IsWriting
  <1> QED
    BY <1>5, <1>6, <1>8, Goes DEF ReceiveSave

LEMMA BackToBlankKeeps ==
    ASSUME DossierLocal, NEW f \in Forms, Rollback(f) \/ Respond(f)
    PROVE  DossierLocal'
  BY BlankKept, Goes DEF DossierLocal, Rollback, Respond

\* What a request that only reads has: no locks, no papers of its own.
LEMMA ReaderKept ==
    ASSUME DossierTypeOK, OnePaperOfEach, NEW q \in Form,
           ~IsWriting(q), q.held = {}, q.made = NoPapers, q.op = "get",
           \A i \in 1..Len(q.plan) : q.plan[i] \in Rows
    PROVE  KeepsOrder(q) /\ KeepsPapers(q)
  <1>1. \A p \in Papers : papers[p] + NoPapers[p] <= 1
    BY DEF DossierTypeOK, OnePaperOfEach, NoPapers
  <1>2. q.step # "write" /\ q.step # "found" /\ q.op # "onboard"
    BY DEF IsWriting
  <1>3. \A p \in Papers : papers[p] + q.made[p] <= 1
    BY <1>1
  <1> QED
    BY <1>2, <1>3 DEF KeepsOrder, KeepsPapers, IsWriting

LEMMA ReadingPlan ==
    ASSUME NEW since \in [Rows -> Nat]
    PROVE  LET q == [Blank EXCEPT !.step = "read", !.op = "get", !.plan = Reads,
                                  !.since = since]
           IN  /\ q \in Form /\ ~IsWriting(q)
               /\ q.held = {} /\ q.made = NoPapers /\ q.op = "get"
               /\ \A i \in 1..Len(q.plan) : q.plan[i] \in Rows
  <1>1. Reads \in Seq(Rows)
    BY DEF Reads, Rows
  <1>2. \A i \in 1..Len(Reads) : Reads[i] \in Rows
    BY <1>1
  <1>3. Reads \in Seq(Rows \cup Papers)
    BY <1>1, <1>2
  <1> QED
    BY <1>2, <1>3 DEF Blank, Form, NoPapers, IsWriting

LEMMA ReceiveGetKeeps ==
    ASSUME DossierLocal, NEW f \in Forms, ReceiveGet(f)
    PROVE  DossierLocal'
  <1> DEFINE q == [Blank EXCEPT !.step = "read", !.op = "get", !.plan = Reads, !.since = tables]
  <1>1. tables \in [Rows -> Nat]
    BY DossierAssumption DEF DossierLocal, DossierTypeOK
  <1>2. /\ q \in Form /\ ~IsWriting(q) /\ q.held = {} /\ q.made = NoPapers /\ q.op = "get"
        /\ \A i \in 1..Len(q.plan) : q.plan[i] \in Rows
    BY <1>1, ReadingPlan
  <1>3. form' = [form EXCEPT ![f] = q]
    BY DEF ReceiveGet
  <1> HIDE DEF q
  <1> QED
    BY <1>2, <1>3, ReaderKept, Goes DEF ReceiveGet, DossierLocal

LEMMA ReadRowKeeps ==
    ASSUME DossierLocal, NEW f \in Forms, ReadRow(f)
    PROVE  DossierLocal'
  <1> DEFINE row == Head(form[f].plan)
             q == [form[f] EXCEPT !.plan = Tail(@), !.answer[row] = tables[row]]
  <1>1. form[f] \in Form /\ form \in [Forms -> Form] /\ tables \in [Rows -> Nat]
    BY DossierAssumption DEF DossierLocal, DossierTypeOK
  <1>2. form[f].plan \in Seq(Rows \cup Papers) /\ form[f].plan # <<>> /\ form[f].step = "read"
    BY <1>1 DEF ReadRow, Form
  <1>3. /\ Tail(form[f].plan) \in Seq(Rows \cup Papers)
        /\ \A i \in 1..Len(Tail(form[f].plan)) :
              /\ Tail(form[f].plan)[i] = form[f].plan[i + 1]
              /\ i + 1 \in 1..Len(form[f].plan)
    BY <1>2, TailOfPlan
  <1>4. ~IsWriting(form[f])
    BY <1>2 DEF IsWriting
  <1>5. /\ form[f].held = {} /\ form[f].made = NoPapers /\ form[f].op = "get"
        /\ \A i \in 1..Len(form[f].plan) : form[f].plan[i] \in Rows
    BY <1>4 DEF DossierLocal, PapersInv, KeepsPapers
  <1>6. form' = [form EXCEPT ![f] = q]
    BY <1>1 DEF ReadRow, Form
  <1>7. [form[f].answer EXCEPT ![row] = tables[row]] \in [Rows -> Nat]
    <2>1. form[f].answer \in [Rows -> Nat]
      BY <1>1 DEF Form
    <2>2. CASE row \in Rows
      BY <1>1, <2>1, <2>2
    <2>3. CASE row \notin Rows
      BY <2>1, <2>3
    <2> QED
      BY <2>2, <2>3
  <1>8. /\ q \in Form /\ ~IsWriting(q) /\ q.held = {} /\ q.made = NoPapers /\ q.op = "get"
        /\ \A i \in 1..Len(q.plan) : q.plan[i] \in Rows
    <2> DEFINE tail == Tail(form[f].plan)
               read == [form[f].answer EXCEPT ![row] = tables[row]]
    <2>1. tail \in Seq(Rows \cup Papers) /\ read \in [Rows -> Nat]
      BY <1>3, <1>7
    <2>2. \A i \in 1..Len(tail) : tail[i] \in Rows
      BY <1>3, <1>5
    <2>3. q = [form[f] EXCEPT !.plan = tail, !.answer = read]
      BY <1>1 DEF Form
    <2> HIDE DEF tail, read, q
    <2>4. /\ q.step = form[f].step /\ q.held = form[f].held /\ q.made = form[f].made
          /\ q.op = form[f].op /\ q.plan = tail /\ q \in Form
      BY <1>1, <2>1, <2>3 DEF Form
    <2> QED
      BY <1>4, <1>5, <2>2, <2>4 DEF IsWriting
  <1> HIDE DEF q
  <1> QED
    BY <1>6, <1>8, ReaderKept, Goes DEF ReadRow, DossierLocal

LEMMA ReadHoursKeeps ==
    ASSUME DossierLocal, NEW f \in Forms, ReadHours(f)
    PROVE  DossierLocal'
  <1> DEFINE seen == [r \in Rows |-> IF r \in Days THEN tables[r] ELSE form[f].answer[r]]
             q == [form[f] EXCEPT !.step = "answered", !.answer = seen]
  <1>1. form[f] \in Form /\ form \in [Forms -> Form] /\ tables \in [Rows -> Nat]
    BY DossierAssumption DEF DossierLocal, DossierTypeOK
  <1>2. ~IsWriting(form[f])
    BY DEF IsWriting, ReadHours
  <1>3. /\ form[f].held = {} /\ form[f].made = NoPapers /\ form[f].op = "get"
        /\ \A i \in 1..Len(form[f].plan) : form[f].plan[i] \in Rows
    BY <1>2 DEF DossierLocal, PapersInv, KeepsPapers
  <1>4. form' = [form EXCEPT ![f] = q]
    BY <1>1 DEF ReadHours, Form
  <1>5. seen \in [Rows -> Nat]
    BY <1>1 DEF Form
  <1> HIDE DEF seen
  <1>6. /\ q \in Form /\ ~IsWriting(q) /\ q.held = {} /\ q.made = NoPapers /\ q.op = "get"
        /\ \A i \in 1..Len(q.plan) : q.plan[i] \in Rows
    <2>1. /\ q.step = "answered" /\ q.held = form[f].held /\ q.made = form[f].made
          /\ q.op = form[f].op /\ q.plan = form[f].plan /\ q \in Form
      BY <1>1, <1>5 DEF Form
    <2> HIDE DEF q
    <2> QED
      BY <1>3, <2>1 DEF IsWriting
  <1> HIDE DEF q
  <1> QED
    BY <1>4, <1>6, ReaderKept, Goes DEF ReadHours, DossierLocal

-----------------------------------------------------------------------------
(* The statements of a transaction.                                        *)

LEMMA WriteRowKeeps ==
    ASSUME DossierLocal, NEW f \in Forms, WriteRow(f)
    PROVE  DossierLocal'
  <1> DEFINE o == form[f]
             row == Head(o.plan)
             q == [o EXCEPT !.plan = Tail(@), !.held = @ \cup {row}, !.wrote = @ \cup {row}]
  <1>1. o \in Form /\ form \in [Forms -> Form]
    BY DEF DossierLocal, DossierTypeOK
  <1>2. /\ o.plan \in Seq(Rows \cup Papers) /\ o.plan # <<>> /\ o.step = "write" /\ row \in Rows
        /\ \A g \in Forms \ {f} : row \notin form[g].held
        /\ form' = [form EXCEPT ![f] = q]
    BY <1>1 DEF WriteRow, IsFree, Form
  <1>3. KeepsOrder(o) /\ KeepsPapers(o)
    BY DEF DossierLocal, OrderInv, PapersInv
  <1>4. /\ row = o.plan[1] /\ 1 \in 1..Len(o.plan)
        /\ Tail(o.plan) \in Seq(Rows \cup Papers)
        /\ \A i \in 1..Len(Tail(o.plan)) : /\ Tail(o.plan)[i] = o.plan[i + 1]
                                           /\ i + 1 \in 1..Len(o.plan)
        /\ Ascends(Tail(o.plan)) /\ From(Tail(o.plan), Rank(row))
    <2>1. Ascends(o.plan)
      BY <1>2, <1>3 DEF KeepsOrder, IsWriting
    <2> QED
      BY <1>2, <2>1, TailOfPlan
  <1> DEFINE tail == Tail(o.plan)
             held == o.held \cup {row}
  <1>5. /\ q \in Form /\ q.plan = tail /\ q.held = held /\ q.step = "write"
        /\ q.op = o.op /\ q.made = o.made
    BY <1>1, <1>2, <1>4 DEF Form
  <1>6. \A x \in held, i \in 1..Len(tail) : Rank(x) <= Rank(tail[i])
    BY <1>2, <1>3, <1>4 DEF KeepsOrder, IsWriting, From
  <1>7. \A g \in Forms \ {f} : held \cap form[g].held = {}
    BY <1>2 DEF DossierLocal, LocksInv
  <1>8. o.op = "onboard" => "restaurant" \in held
    BY <1>3 DEF KeepsPapers
  <1>9. o.op # "onboard" => /\ o.made = NoPapers /\ held \subseteq Rows
                            /\ \A i \in 1..Len(tail) : tail[i] \in Rows
    BY <1>2, <1>3, <1>4 DEF KeepsPapers
  <1>10. \A p \in Papers : papers[p] + o.made[p] <= 1
    BY <1>3 DEF KeepsPapers
  <1> HIDE DEF q, tail, held, row, o
  <1>11. KeepsOrder(q)
    BY <1>4, <1>5, <1>6 DEF KeepsOrder, tail
  <1>12. KeepsPapers(q)
    BY <1>5, <1>8, <1>9, <1>10 DEF KeepsPapers, IsWriting
  <1> QED
    BY <1>2, <1>5, <1>7, <1>11, <1>12, Goes DEF WriteRow

LEMMA FindPaperKeeps ==
    ASSUME DossierLocal, NEW f \in Forms, FindPaper(f)
    PROVE  DossierLocal'
  <1> DEFINE o == form[f]
             p == Head(o.plan)
             seen == papers[p] + o.made[p] > 0
             q == [o EXCEPT !.step = "found", !.found = seen]
  <1>1. o \in Form /\ form \in [Forms -> Form]
    BY DEF DossierLocal, DossierTypeOK
  <1>2. /\ o.plan \in Seq(Rows \cup Papers) /\ o.plan # <<>> /\ o.step = "write" /\ p \in Papers
        /\ form' = [form EXCEPT ![f] = q]
    BY <1>1 DEF FindPaper, Form
  <1>3. KeepsOrder(o) /\ KeepsPapers(o)
    BY DEF DossierLocal, OrderInv, PapersInv
  <1>4. p = o.plan[1] /\ 1 \in 1..Len(o.plan)
    BY <1>2, TailOfPlan
  <1>5. o.op = "onboard"
    BY <1>2, <1>3, <1>4, DossierAssumption DEF KeepsPapers
  <1>6. "restaurant" \in o.held
    <2>1. p # "restaurant"
      BY <1>2, DossierAssumption DEF Rows
    <2> QED
      BY <1>3, <1>5, <2>1 DEF KeepsPapers
  <1>7. ~seen => papers[p] + o.made[p] = 0
    BY <1>1, <1>2 DEF DossierLocal, DossierTypeOK, Form
  <1>8. seen \in BOOLEAN
    OBVIOUS
  <1> HIDE DEF seen
  <1>9. /\ q \in Form /\ q.plan = o.plan /\ q.held = o.held /\ q.step = "found"
        /\ q.op = o.op /\ q.made = o.made /\ q.found = seen
    BY <1>1, <1>8 DEF Form
  <1>10. \A g \in Forms \ {f} : o.held \cap form[g].held = {}
    BY DEF DossierLocal, LocksInv
  <1> HIDE DEF q, p
  <1>11. KeepsOrder(q)
    BY <1>2, <1>3, <1>9 DEF KeepsOrder, IsWriting
  <1>12. KeepsPapers(q)
    BY <1>2, <1>3, <1>5, <1>6, <1>7, <1>9 DEF KeepsPapers, IsWriting, p
  <1> HIDE DEF o
  <1> QED
    BY <1>2, <1>9, <1>10, <1>11, <1>12, Goes DEF FindPaper

LEMMA WritePaperKeeps ==
    ASSUME DossierLocal, NEW f \in Forms, WritePaper(f)
    PROVE  DossierLocal'
  <1> DEFINE o == form[f]
             p == Head(o.plan)
             held == IF o.found THEN o.held \cup {p} ELSE o.held
             made == IF o.found THEN o.made ELSE [o.made EXCEPT ![p] = @ + 1]
             q == [o EXCEPT !.step = "write", !.plan = Tail(@), !.held = held, !.made = made]
  <1>1. o \in Form /\ form \in [Forms -> Form]
    BY DEF DossierLocal, DossierTypeOK
  <1>2. KeepsOrder(o) /\ KeepsPapers(o) /\ o.step = "found"
    BY DEF DossierLocal, OrderInv, PapersInv, WritePaper
  <1>3. /\ o.plan \in Seq(Rows \cup Papers) /\ o.plan # <<>> /\ p \in Papers
        /\ o.op = "onboard" /\ "restaurant" \in o.held
        /\ ~o.found => papers[p] + o.made[p] = 0
    BY <1>1, <1>2 DEF KeepsPapers, Form
  <1>4. form' = [form EXCEPT ![f] = q]
    <2>1. CASE o.found
      <3>1. q = [o EXCEPT !.step = "write", !.plan = Tail(@), !.held = @ \cup {p}]
        BY <1>1, <2>1 DEF Form
      <3> QED
        BY <1>1, <2>1, <3>1 DEF WritePaper
    <2>2. CASE ~o.found
      <3>1. q = [o EXCEPT !.step = "write", !.plan = Tail(@), !.made[p] = @ + 1]
        BY <1>1, <2>2 DEF Form
      <3> QED
        BY <1>1, <2>2, <3>1 DEF WritePaper
    <2> QED
      BY <2>1, <2>2
  <1>5. /\ p = o.plan[1] /\ 1 \in 1..Len(o.plan)
        /\ Tail(o.plan) \in Seq(Rows \cup Papers)
        /\ \A i \in 1..Len(Tail(o.plan)) : /\ Tail(o.plan)[i] = o.plan[i + 1]
                                           /\ i + 1 \in 1..Len(o.plan)
        /\ Ascends(Tail(o.plan)) /\ From(Tail(o.plan), Rank(p))
    <2>1. Ascends(o.plan)
      BY <1>2 DEF KeepsOrder, IsWriting
    <2> QED
      BY <1>3, <2>1, TailOfPlan
  <1>6. \A g \in Forms \ {f} : held \cap form[g].held = {}
    BY DEF DossierLocal, LocksInv, WritePaper, IsFree
  <1>7. /\ o.held \subseteq held /\ held \subseteq o.held \cup {p}
        /\ held \in SUBSET (Rows \cup Papers)
    BY <1>1, <1>3 DEF Form
  <1>8. made \in [Papers -> Nat] /\ \A r \in Papers : papers[r] + made[r] <= 1
    BY <1>1, <1>2, <1>3 DEF Form, KeepsPapers, DossierLocal, DossierTypeOK
  <1> DEFINE tail == Tail(o.plan)
  <1> HIDE DEF held, made
  <1>9. /\ q \in Form /\ q.plan = tail /\ q.held = held /\ q.step = "write"
        /\ q.op = o.op /\ q.made = made
    BY <1>1, <1>5, <1>7, <1>8 DEF Form
  <1>10. \A x \in held, i \in 1..Len(tail) : Rank(x) <= Rank(tail[i])
    BY <1>2, <1>5, <1>7 DEF KeepsOrder, IsWriting, From
  <1> HIDE DEF q, tail, p, o
  <1>11. KeepsOrder(q)
    BY <1>5, <1>9, <1>10 DEF KeepsOrder, tail
  <1>12. KeepsPapers(q)
    BY <1>3, <1>7, <1>8, <1>9 DEF KeepsPapers, IsWriting
  <1> QED
    BY <1>4, <1>6, <1>9, <1>11, <1>12, Goes DEF WritePaper

\* What is inserted was looked for under the lock of the restaurant's row,
\* which no other request with papers holds.
LEMMA CommitKeeps ==
    ASSUME DossierLocal, NEW f \in Forms, Commit(f)
    PROVE  DossierLocal'
  <1> DEFINE o == form[f]
             q == IF o.op = "onboard" THEN Blank
                  ELSE [Blank EXCEPT !.step = "read", !.op = "get",
                                     !.plan = Reads, !.since = tables']
  <1>1. o \in Form /\ form \in [Forms -> Form] /\ papers \in [Papers -> Nat]
    BY DEF DossierLocal, DossierTypeOK
  <1>2. /\ o.step = "write" /\ o.plan = <<>> /\ form' = [form EXCEPT ![f] = q]
        /\ papers' = [p \in Papers |-> papers[p] + o.made[p]]
    BY <1>1 DEF Commit
  <1>3. KeepsPapers(o)
    BY DEF DossierLocal, PapersInv
  <1>4. papers' \in [Papers -> Nat] /\ \A p \in Papers : papers'[p] <= 1
    BY <1>1, <1>2, <1>3 DEF KeepsPapers, Form
  <1>5. tables' \in [Rows -> 0..MaxCommits] /\ commits' \in 0..MaxCommits
    BY DossierAssumption DEF DossierLocal, DossierTypeOK, Commit, Committed
  <1>6. tables' \in [Rows -> Nat]
    BY <1>5, DossierAssumption
  <1>7. /\ q \in Form /\ ~IsWriting(q) /\ q.held = {} /\ q.made = NoPapers /\ q.op = "get"
        /\ \A i \in 1..Len(q.plan) : q.plan[i] \in Rows
    <2>1. CASE o.op = "onboard"
      BY <2>1, BlankKept DEF DossierLocal, Blank, IsWriting
    <2>2. CASE o.op # "onboard"
      BY <1>6, <2>2, ReadingPlan
    <2> QED
      BY <2>1, <2>2
  <1> HIDE DEF q
  <1>8. /\ form'[f] = q /\ \A g \in Forms \ {f} : form'[g] = form[g]
        /\ form' \in [Forms -> Form]
    BY <1>1, <1>2, <1>7
  <1>9. DossierTypeOK' /\ OnePaperOfEach'
    BY <1>4, <1>5, <1>8 DEF DossierTypeOK, OnePaperOfEach
  <1>10. LocksInv'
    BY <1>7, <1>8 DEF DossierLocal, LocksInv
  <1>11. OrderInv'
    BY <1>7, <1>8 DEF DossierLocal, OrderInv, KeepsOrder, IsWriting, Ascends
  <1>12. \A p \in Papers : papers'[p] + NoPapers[p] <= 1
    BY <1>4 DEF NoPapers
  <1>13. ASSUME NEW g \in Forms \ {f}
         PROVE  KeepsPapers(form[g])'
    <2>1. KeepsPapers(form[g]) /\ form'[g] = form[g]
      BY <1>8 DEF DossierLocal, PapersInv
    <2>2. CASE o.op = "onboard"
      <3>1. "restaurant" \in o.held
        BY <1>2, <1>3, <2>2 DEF KeepsPapers
      <3>2. "restaurant" \notin form[g].held
        BY <3>1 DEF DossierLocal, LocksInv
      <3>3. form[g].made = NoPapers /\ form[g].step # "found"
        BY <2>1, <3>2 DEF KeepsPapers
      <3> QED
        BY <1>12, <2>1, <3>3 DEF KeepsPapers, IsWriting
    <2>3. CASE o.op # "onboard"
      <3>1. papers' = papers
        BY <1>1, <1>2, <1>3, <2>3 DEF KeepsPapers, NoPapers
      <3> QED
        BY <2>1, <3>1 DEF KeepsPapers, IsWriting
    <2> QED
      BY <2>2, <2>3
  <1>14. KeepsPapers(form[f])'
    BY <1>7, <1>8, <1>12 DEF KeepsPapers, IsWriting
  <1>15. PapersInv'
    BY <1>13, <1>14 DEF PapersInv
  <1> QED
    BY <1>9, <1>10, <1>11, <1>15 DEF DossierLocal

-----------------------------------------------------------------------------
(* Waiting.                                                                *)

LEMMA NoOtherCircle ==
    ASSUME DossierLocal
    PROVE  OnlyHoursWaitInACircle
  <1> SUFFICES ASSUME NEW f \in Forms, NEW g \in Forms, f # g,
                      NEW x \in Wants(f) \cap form[g].held,
                      NEW y \in Wants(g) \cap form[f].held
               PROVE  Wants(f) \cup Wants(g) \subseteq Days
    BY DEF OnlyHoursWaitInACircle
  <1>1. /\ KeepsOrder(form[f]) /\ KeepsPapers(form[f]) /\ form[f] \in Form
        /\ KeepsOrder(form[g]) /\ KeepsPapers(form[g]) /\ form[g] \in Form
        /\ form[f].held \cap form[g].held = {}
    BY DEF DossierLocal, DossierTypeOK, OrderInv, PapersInv, LocksInv
  <1>2. ASSUME NEW h \in Forms, NEW z \in Wants(h), KeepsPapers(form[h]), form[h] \in Form
        PROVE  /\ IsWriting(form[h]) /\ Wants(h) = {z} /\ z \in Rows \cup Papers
               /\ 1 \in 1..Len(form[h].plan) /\ z = form[h].plan[1]
    <2>1. IsWriting(form[h]) /\ form[h].plan # <<>> /\ Wants(h) = {z} /\ z = Head(form[h].plan)
      BY <1>2 DEF Wants, IsWriting, KeepsPapers
    <2>2. form[h].plan \in Seq(Rows \cup Papers)
      BY <1>2 DEF Form
    <2> QED
      BY <2>1, <2>2, TailOfPlan
  <1>3. /\ IsWriting(form[f]) /\ Wants(f) = {x} /\ x \in Rows \cup Papers
        /\ 1 \in 1..Len(form[f].plan) /\ x = form[f].plan[1]
    BY <1>1, <1>2
  <1>4. /\ IsWriting(form[g]) /\ Wants(g) = {y} /\ y \in Rows \cup Papers
        /\ 1 \in 1..Len(form[g].plan) /\ y = form[g].plan[1]
    BY <1>1, <1>2
  <1>5. Rank(x) = Rank(y)
    <2>1. Rank(y) <= Rank(x)
      BY <1>1, <1>3 DEF KeepsOrder
    <2>2. Rank(x) <= Rank(y)
      BY <1>1, <1>4 DEF KeepsOrder
    <2> QED
      BY <1>3, <1>4, <2>1, <2>2, RanksKnown
  <1>6. x # y
    BY <1>1
  <1>7. CASE x \in Rows /\ y \in Rows
    BY <1>3, <1>4, <1>5, <1>6, <1>7, RanksTell
  <1>8. CASE x \in Papers /\ y \in Papers
    <2>1. x \notin Rows /\ y \notin Rows
      BY <1>8, DossierAssumption
    <2>2. "restaurant" \in form[f].held
      BY <1>1, <2>1 DEF KeepsPapers
    <2>3. "restaurant" \in form[g].held
      BY <1>1, <2>1 DEF KeepsPapers
    <2> QED
      BY <1>1, <2>2, <2>3
  <1> QED
    BY <1>3, <1>4, <1>5, <1>7, <1>8, RanksKnown

-----------------------------------------------------------------------------

LEMMA DossierStepKeeps ==
    ASSUME DossierLocal, [DossierNext]_dossierVars
    PROVE  DossierLocal'
  <1>1. CASE UNCHANGED dossierVars
    BY <1>1 DEF dossierVars, DossierLocal, DossierTypeOK, OnePaperOfEach, LocksInv,
                OrderInv, KeepsOrder, IsWriting, Ascends, PapersInv, KeepsPapers
  <1>2. ASSUME NEW f \in Forms, FormStep(f)
        PROVE  DossierLocal'
    BY <1>2, ReceiveOnboardingKeeps, ReceiveSaveKeeps, ReceiveGetKeeps, WriteRowKeeps,
       FindPaperKeeps, WritePaperKeeps, CommitKeeps, BackToBlankKeeps, ReadRowKeeps,
       ReadHoursKeeps DEF FormStep
  <1> QED
    BY <1>1, <1>2 DEF DossierNext

LEMMA DossierStarts ==
    ASSUME DossierInit
    PROVE  DossierLocal
  <1>1. DossierTypeOK /\ OnePaperOfEach
    <2>1. Blank \in Form
      BY DEF Blank, Form, NoPapers
    <2> QED
      BY <2>1, DossierAssumption DEF DossierInit, DossierTypeOK, OnePaperOfEach, NoPapers
  <1>2. \A f \in Forms : form[f] = Blank
    BY DEF DossierInit
  <1> QED
    BY <1>1, <1>2, BlankKept DEF DossierLocal, LocksInv, OrderInv, PapersInv

\* Whatever the numbers of requests, documents and images: an onboarding never
\* leaves two rows of one document or image, and transactions that wait for
\* each other in a circle of two wait for opening hours.
THEOREM DossierCorrect == DossierSpec => []DossierInv
  <1>1. DossierSpec => []DossierLocal
    <2>1. DossierInit => DossierLocal
      BY DossierStarts
    <2>2. DossierLocal /\ [DossierNext]_dossierVars => DossierLocal'
      BY DossierStepKeeps
    <2> QED
      BY <2>1, <2>2, PTL DEF DossierSpec
  <1>2. DossierLocal => DossierInv
    BY NoOtherCircle DEF DossierLocal, DossierInv
  <1> QED
    BY <1>1, <1>2, PTL

-----------------------------------------------------------------------------
(* Answers.                                                                *)

Upheld(q, r) == q.since[r] <= q.answer[r]

StillToRead(q, r) == \E i \in 1..Len(q.plan) : q.plan[i] = r

\* Rows only get newer; a row is in the answer, or still to be read.
IsFresh(q) ==
    /\ q.step \in {"read", "answered"} => \A r \in Rows : q.since[r] <= tables[r]
    /\ q.step = "read" => \A r \in ToSet(Reads) : StillToRead(q, r) \/ Upheld(q, r)
    /\ q.step = "answered" => \A r \in ToSet(Reads) \cup Days : Upheld(q, r)

FreshInv ==
    /\ \A r \in Rows : tables[r] <= commits
    /\ \A f \in Forms : IsFresh(form[f])

LEMMA ReadsKnown ==
    /\ ToSet(Reads) \subseteq Rows
    /\ ToSet(Reads) \cap Days = {}
    /\ \A r \in ToSet(Reads) : \E i \in 1..Len(Reads) : Reads[i] = r
  BY DossierAssumption DEF Reads, Rows, ToSet

\* Steps that leave the tables alone, and the record of the request fresh.
LEMMA FreshGoes ==
    ASSUME DossierLocal, FreshInv, NEW f \in Forms, NEW q,
           form' = [form EXCEPT ![f] = q], tables' = tables, commits' = commits, IsFresh(q)
    PROVE  FreshInv'
  <1>1. form'[f] = q /\ \A g \in Forms \ {f} : form'[g] = form[g]
    BY DEF DossierLocal, DossierTypeOK
  <1>2. \A g \in Forms : IsFresh(form'[g])
    BY <1>1 DEF FreshInv
  <1> QED
    BY <1>2 DEF FreshInv, IsFresh, Upheld, StillToRead

LEMMA WritingIsFresh ==
    ASSUME DossierLocal, FreshInv, NEW f \in Forms,
           \/ ReceiveOnboarding(f) \/ ReceiveSave(f) \/ WriteRow(f) \/ FindPaper(f)
           \/ WritePaper(f) \/ Rollback(f) \/ Respond(f)
    PROVE  FreshInv'
  <1>1. form \in [Forms -> Form] /\ form[f] \in Form
    BY DEF DossierLocal, DossierTypeOK
  <1>2. tables' = tables /\ commits' = commits
    BY DEF ReceiveOnboarding, ReceiveSave, WriteRow, FindPaper, WritePaper, Rollback, Respond
  <1>3. /\ form'[f].step \notin {"read", "answered"}
        /\ form' = [form EXCEPT ![f] = form'[f]]
    <2>1. CASE ReceiveOnboarding(f)
      BY <1>1, <2>1 DEF ReceiveOnboarding, Blank
    <2>2. CASE ReceiveSave(f)
      BY <1>1, <2>2 DEF ReceiveSave, Blank
    <2>3. CASE WriteRow(f)
      BY <1>1, <2>3 DEF WriteRow, Form
    <2>4. CASE FindPaper(f)
      BY <1>1, <2>4 DEF FindPaper, Form
    <2>5. CASE WritePaper(f)
      BY <1>1, <2>5 DEF WritePaper, Form
    <2>6. CASE Rollback(f) \/ Respond(f)
      BY <1>1, <2>6 DEF Rollback, Respond, Blank
    <2> QED
      BY <2>1, <2>2, <2>3, <2>4, <2>5, <2>6
  <1>4. IsFresh(form'[f])
    BY <1>3 DEF IsFresh
  <1> QED
    BY <1>2, <1>3, <1>4, FreshGoes

\* A reader starts with nothing read and with the tables as they are.
LEMMA StartedIsFresh ==
    ASSUME NEW since
    PROVE  LET q == [Blank EXCEPT !.step = "read", !.op = "get", !.plan = Reads,
                                  !.since = since]
           IN  /\ q.step = "read" /\ q.since = since
               /\ \A r \in ToSet(Reads) : StillToRead(q, r)
  BY ReadsKnown DEF Blank, StillToRead

LEMMA ReceiveGetIsFresh ==
    ASSUME DossierLocal, FreshInv, NEW f \in Forms, ReceiveGet(f)
    PROVE  FreshInv'
  <1> DEFINE q == [Blank EXCEPT !.step = "read", !.op = "get", !.plan = Reads, !.since = tables]
  <1>1. /\ q.step = "read" /\ q.since = tables
        /\ \A r \in ToSet(Reads) : StillToRead(q, r)
    BY StartedIsFresh
  <1>2. \A r \in Rows : tables[r] <= tables[r]
    BY DossierAssumption DEF DossierLocal, DossierTypeOK
  <1>3. form' = [form EXCEPT ![f] = q] /\ tables' = tables /\ commits' = commits
    BY DEF ReceiveGet
  <1> HIDE DEF q
  <1>4. IsFresh(q)
    BY <1>1, <1>2 DEF IsFresh
  <1> QED
    BY <1>3, <1>4, FreshGoes

LEMMA ReadRowIsFresh ==
    ASSUME DossierLocal, FreshInv, NEW f \in Forms, ReadRow(f)
    PROVE  FreshInv'
  <1> DEFINE o == form[f]
             row == Head(o.plan)
             read == [o.answer EXCEPT ![row] = tables[row]]
             tail == Tail(o.plan)
             q == [o EXCEPT !.plan = tail, !.answer = read]
  <1>1. o \in Form /\ form \in [Forms -> Form] /\ tables \in [Rows -> Nat]
    BY DossierAssumption DEF DossierLocal, DossierTypeOK
  <1>2. o.plan \in Seq(Rows \cup Papers) /\ o.plan # <<>> /\ o.step = "read"
    BY <1>1 DEF ReadRow, Form
  <1>3. form' = [form EXCEPT ![f] = q] /\ tables' = tables /\ commits' = commits
    BY <1>1 DEF ReadRow, Form
  <1>4. IsFresh(o)
    BY DEF FreshInv
  <1>5. row = o.plan[1] /\ \A i \in 1..Len(o.plan) : i = 1 \/ (i - 1 \in 1..Len(tail) /\ tail[i - 1] = o.plan[i])
    <2>1. /\ row = o.plan[1] /\ Len(tail) = Len(o.plan) - 1 /\ Len(o.plan) \in Nat
          /\ \A i \in 1..Len(tail) : tail[i] = o.plan[i + 1]
      BY <1>2, HeadTailProperties
    <2> HIDE DEF tail, row, o
    <2>2. ASSUME NEW i \in 1..Len(o.plan), i # 1
          PROVE  i - 1 \in 1..Len(tail) /\ tail[i - 1] = o.plan[i]
      <3>1. i - 1 \in 1..Len(tail) /\ (i - 1) + 1 = i
        BY <2>1, <2>2
      <3> QED
        BY <2>1, <3>1
    <2> QED
      BY <2>1, <2>2
  <1>6. /\ q.step = "read" /\ q.plan = tail /\ q.answer = read /\ q.since = o.since
    BY <1>1, <1>2 DEF Form
  <1>7. \A r \in Rows : read[r] = IF r = row THEN tables[row] ELSE o.answer[r]
    BY <1>1 DEF Form
  <1> HIDE DEF q, read, tail, row, o
  <1>8. ASSUME NEW r \in ToSet(Reads)
        PROVE  StillToRead(q, r) \/ Upheld(q, r)
    <2>1. r \in Rows
      BY ReadsKnown
    <2>2. CASE r = row
      BY <1>2, <1>4, <1>6, <1>7, <2>1, <2>2 DEF IsFresh, Upheld
    <2>3. CASE r # row /\ Upheld(o, r)
      BY <1>6, <1>7, <2>1, <2>3 DEF Upheld
    <2>4. CASE r # row /\ StillToRead(o, r)
      BY <1>5, <1>6, <2>4 DEF StillToRead
    <2> QED
      BY <1>2, <1>4, <2>2, <2>3, <2>4 DEF IsFresh
  <1>9. IsFresh(q)
    BY <1>2, <1>4, <1>6, <1>8 DEF IsFresh
  <1> QED
    BY <1>3, <1>9, FreshGoes

LEMMA ReadHoursIsFresh ==
    ASSUME DossierLocal, FreshInv, NEW f \in Forms, ReadHours(f)
    PROVE  FreshInv'
  <1> DEFINE o == form[f]
             seen == [r \in Rows |-> IF r \in Days THEN tables[r] ELSE o.answer[r]]
             q == [o EXCEPT !.step = "answered", !.answer = seen]
  <1>1. o \in Form /\ form \in [Forms -> Form]
    BY DEF DossierLocal, DossierTypeOK
  <1>2. /\ form' = [form EXCEPT ![f] = q] /\ tables' = tables /\ commits' = commits
        /\ o.step = "read" /\ o.plan = <<>>
    BY <1>1 DEF ReadHours, Form
  <1>3. IsFresh(o)
    BY DEF FreshInv
  <1>4. \A r \in ToSet(Reads) : Upheld(o, r)
    BY <1>2, <1>3 DEF IsFresh, StillToRead
  <1>5. /\ q.step = "answered" /\ q.answer = seen /\ q.since = o.since
    BY <1>1 DEF Form
  <1>6. \A r \in Rows : seen[r] = IF r \in Days THEN tables[r] ELSE o.answer[r]
    OBVIOUS
  <1> HIDE DEF q, seen, o
  <1>7. ASSUME NEW r \in ToSet(Reads) \cup Days
        PROVE  Upheld(q, r)
    <2>1. r \in Rows /\ (r \in Days \/ r \in ToSet(Reads) \ Days)
      BY ReadsKnown DEF Rows
    <2>2. CASE r \in Days
      BY <1>2, <1>3, <1>5, <1>6, <2>1, <2>2 DEF IsFresh, Upheld
    <2>3. CASE r \in ToSet(Reads) \ Days
      BY <1>4, <1>5, <1>6, <2>1, <2>3 DEF Upheld
    <2> QED
      BY <2>1, <2>2, <2>3
  <1>8. IsFresh(q)
    BY <1>2, <1>3, <1>5, <1>7 DEF IsFresh
  <1> QED
    BY <1>2, <1>8, FreshGoes

LEMMA CommitIsFresh ==
    ASSUME DossierLocal, FreshInv, NEW f \in Forms, Commit(f)
    PROVE  FreshInv'
  <1>1. /\ form \in [Forms -> Form] /\ tables \in [Rows -> Nat] /\ commits \in Nat
        /\ commits' = commits + 1
        /\ tables' = [r \in Rows |-> IF r \in form[f].wrote THEN commits + 1 ELSE tables[r]]
    BY DossierAssumption DEF DossierLocal, DossierTypeOK, Commit, Committed
  <1>2. \A r \in Rows : tables[r] <= tables'[r] /\ tables'[r] <= commits' /\ tables'[r] \in Nat
    BY <1>1 DEF FreshInv
  <1>3. ASSUME NEW g \in Forms \ {f}
        PROVE  IsFresh(form[g])'
    <2>1. form'[g] = form[g] /\ IsFresh(form[g]) /\ form[g] \in Form
      BY <1>1 DEF Commit, FreshInv
    <2>2. \A r \in Rows : form[g].since[r] <= tables[r] => form[g].since[r] <= tables'[r]
      BY <1>1, <1>2, <2>1 DEF Form
    <2> QED
      BY <2>1, <2>2 DEF IsFresh, Upheld, StillToRead
  <1>4. IsFresh(form[f])'
    <2>1. CASE form[f].op = "onboard"
      BY <1>1, <2>1 DEF Commit, Blank, IsFresh
    <2>2. CASE form[f].op # "onboard"
      <3> DEFINE q == [Blank EXCEPT !.step = "read", !.op = "get", !.plan = Reads,
                                    !.since = tables']
      <3>1. form'[f] = q
        BY <1>1, <2>2 DEF Commit
      <3>2. /\ q.step = "read" /\ q.since = tables'
            /\ \A r \in ToSet(Reads) : StillToRead(q, r)
        BY StartedIsFresh
      <3>3. \A r \in Rows : tables'[r] <= tables'[r]
        BY <1>2
      <3> HIDE DEF q
      <3>4. \A r \in ToSet(Reads) : StillToRead(form[f], r)'
        BY <3>1, <3>2 DEF StillToRead
      <3> QED
        BY <3>1, <3>2, <3>3, <3>4 DEF IsFresh
    <2> QED
      BY <2>1, <2>2
  <1> QED
    BY <1>2, <1>3, <1>4 DEF FreshInv

LEMMA FreshStepKeeps ==
    ASSUME DossierLocal, FreshInv, [DossierNext]_dossierVars
    PROVE  FreshInv'
  <1>1. CASE UNCHANGED dossierVars
    BY <1>1 DEF dossierVars, FreshInv, IsFresh, Upheld, StillToRead
  <1>2. ASSUME NEW f \in Forms, FormStep(f)
        PROVE  FreshInv'
    BY <1>2, WritingIsFresh, ReceiveGetIsFresh, ReadRowIsFresh, ReadHoursIsFresh, CommitIsFresh
       DEF FormStep
  <1> QED
    BY <1>1, <1>2 DEF DossierNext

\* Whatever the other requests commit meanwhile: an update of the profile is
\* answered with nothing older than what it wrote itself.
THEOREM AnswersStayFresh == DossierSpec => []AnswersFresh
  <1>1. DossierInit => FreshInv
    <2>1. DossierInit => \A r \in Rows : tables[r] <= commits
      BY DEF DossierInit
    <2>2. DossierInit => \A f \in Forms : form[f] = Blank
      BY DEF DossierInit
    <2>3. Blank.step = "idle"
      BY DEF Blank
    <2> QED
      BY <2>1, <2>2, <2>3 DEF FreshInv, IsFresh
  <1>2. DossierLocal /\ FreshInv /\ [DossierNext]_dossierVars => FreshInv'
    BY FreshStepKeeps
  <1>3. DossierLocal /\ FreshInv => AnswersFresh
    <2>1. ASSUME DossierLocal, FreshInv, NEW f \in Forms, form[f].step = "answered",
                 NEW r \in ToSet(Reads) \cup Days
          PROVE  form[f].answer[r] >= form[f].since[r]
      <3>1. Upheld(form[f], r)
        BY <2>1 DEF FreshInv, IsFresh
      <3>2. form[f] \in Form /\ r \in Rows
        BY <2>1, ReadsKnown DEF DossierLocal, DossierTypeOK, Rows
      <3>3. form[f].since[r] \in Nat /\ form[f].answer[r] \in Nat
        BY <3>2 DEF Form
      <3> QED
        BY <3>1, <3>3 DEF Upheld
    <2> QED
      BY <2>1 DEF AnswersFresh
  <1> QED
    BY DossierStarts, DossierStepKeeps, <1>1, <1>2, <1>3, PTL DEF DossierSpec
===============================================================================
