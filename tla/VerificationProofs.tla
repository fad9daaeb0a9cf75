------------------------- MODULE VerificationProofs -------------------------
(* Proofs about Verification, for any number of requests and any limits.     *)
EXTENDS Verification, FiniteSetTheorems, TLAPS

-----------------------------------------------------------------------------
(* What a step does to the requests. A step is of one request, which was not *)
(* over, leaves every other alone and keeps the purpose the request states.  *)
Moved(r) ==
    /\ \A q \in Request \ {r} : request'[q] = request[q]
    /\ ~ At(r, "over")
    /\ request'[r].at # "new"
    /\ At(r, "new") \/ request'[r].action = request[r].action

Handling(r) ==
    \/ GetIndex(r) \/ CheckCooldown(r) \/ GetExisting(r)
    \/ Increment(r) \/ SetExpiry(r) \/ Write(r) \/ Publish(r) \/ SendOtp(r)
    \/ CheckGuess(r) \/ WriteBack(r) \/ DeleteSession(r) \/ IssueToken(r)
    \/ GetToken(r) \/ DeleteToken(r)
    \/ Crash(r)

Entering(r) ==
    \/ \E a \in Action : Create(r, a)
    \/ \E i \in Request, c \in inbox \cup {None} : Confirm(r, i, c)
    \/ \E k \in Request, a \in Action : Use(r, k, a)

LEMMA NextCases == Next <=> (\E r \in Request : Entering(r) \/ Handling(r)) \/ Tick
BY DEF Next, Entering, Handling

LEMMA Moves ==
    ASSUME TypeOK, NEW r \in Request, Entering(r) \/ Handling(r)
    PROVE  Moved(r)
<1>0. request \in [Request -> RequestState] /\ request[r] \in RequestState
  BY DEF TypeOK
<1>1. CASE Entering(r)
  BY <1>0, <1>1 DEF Entering, Create, Confirm, Use, At, Moved, NotServed
<1>3. CASE GetIndex(r) \/ CheckCooldown(r) \/ GetExisting(r)
  BY <1>0, <1>3 DEF GetIndex, CheckCooldown, GetExisting, Goto, End, At, Moved, RequestState
<1>4. CASE Increment(r) \/ SetExpiry(r)
  BY <1>0, <1>4 DEF Increment, SetExpiry, Goto, End, At, Moved, RequestState
<1>5. CASE Write(r) \/ Publish(r) \/ SendOtp(r)
  BY <1>0, <1>5 DEF Write, Publish, SendOtp, Goto, End, At, Moved, RequestState
<1>6. CASE CheckGuess(r) \/ WriteBack(r) \/ DeleteSession(r) \/ IssueToken(r)
  BY <1>0, <1>6 DEF CheckGuess, WriteBack, DeleteSession, IssueToken, Goto, End, At, Moved,
                    RequestState
<1>7. CASE GetToken(r) \/ DeleteToken(r) \/ Crash(r)
  BY <1>0, <1>7 DEF GetToken, DeleteToken, Crash, Goto, End, At, Moved, RequestState
<1> QED BY <1>1, <1>3, <1>4, <1>5, <1>6, <1>7 DEF Handling
LEMMA MissesFinite ==
    ASSUME NEW i
    PROVE  IsFiniteSet(Misses(i)) /\ Cardinality(Misses(i)) \in Nat
<1>1. Misses(i) \subseteq Request
  BY DEF Misses
<1> QED BY <1>1, VerificationAssumption, FS_Subset, FS_CardinalityType

(* What has been found out stays true: who asked for a code and for what,    *)
(* who was confirmed with which code, and which codes were wrong.            *)
Keeps ==
    /\ \A c \in Request : Requested(c) =>
          Requested(c)' /\ request'[c].action = request[c].action
    /\ \A k \in Request : request[k].outcome = "confirmed" =>
          request'[k].outcome = "confirmed" /\ request'[k].guess = request[k].guess
    /\ \A i \in Request : Misses(i) \subseteq Misses(i)'

LEMMA MoveKeeps ==
    ASSUME TypeOK, VerificationInv, NEW r \in Request, Moved(r)
    PROVE  Keeps
<1>1. \A q \in Request : request[q].outcome # "none" => q # r
  BY DEF VerificationInv, HandlerInv, Moved
<1>2. \A c \in Request : Requested(c) =>
          Requested(c)' /\ request'[c].action = request[c].action
  BY DEF Moved, Requested, At
<1>3. \A k \in Request : request[k].outcome = "confirmed" =>
          request'[k].outcome = "confirmed" /\ request'[k].guess = request[k].guess
  BY <1>1 DEF Moved
<1>4. \A i \in Request : Misses(i) \subseteq Misses(i)'
  BY <1>1 DEF Moved, Misses
<1> QED BY <1>2, <1>3, <1>4 DEF Keeps

LEMMA StutterKeeps ==
    ASSUME UNCHANGED request
    PROVE  Keeps
BY DEF Keeps, Requested, At, Misses

LEMMA SoundKept ==
    ASSUME Keeps, NEW data \in SessionData, NEW i \in Request, Sound(data, i)
    PROVE  Sound(data, i)'
<1>1. Requested(data.code)' /\ data.action = PurposeOf(data.code)'
  BY DEF Keeps, Sound, Requested, PurposeOf
<1>2. Misses(i) \subseteq Misses(i)'
  BY DEF Keeps
<1>3. Cardinality(Misses(i)) <= Cardinality(Misses(i)')
  <2>1. IsFiniteSet(Misses(i)')
    <3>1. Misses(i)' \subseteq Request
      BY DEF Misses
    <3> QED BY <3>1, VerificationAssumption, FS_Subset
  <2> QED BY <1>2, <2>1, FS_Subset
<1>4. Cardinality(Misses(i)) \in Nat /\ Cardinality(Misses(i)') \in Nat
  <2>1. Misses(i)' \subseteq Request
    BY DEF Misses
  <2> QED BY <2>1, MissesFinite, VerificationAssumption, FS_Subset, FS_CardinalityType
<1>5. data.attempts \in Nat
  BY DEF SessionData
<1> QED BY <1>1, <1>3, <1>4, <1>5 DEF Sound

LEMMA IssuedKept ==
    ASSUME Keeps, NEW k \in Request, NEW a, Issued(k, a)
    PROVE  Issued(k, a)'
BY DEF Keeps, Issued, Requested, PurposeOf

(* A step that leaves a handler alone leaves it what it holds.               *)
LEMMA OthersKept ==
    ASSUME TypeOK, VerificationInv, Keeps, NEW q \in Request, request'[q] = request[q]
    PROVE  HandlerInv(q)'
<1> DEFINE x == request[q]
<1>0. x \in RequestState /\ x.seen \in SessionData /\ HandlerInv(q)
  BY DEF TypeOK, RequestState, VerificationInv
<1>1. x.id \in Request /\ Sound(x.seen, x.id) => Sound(x.seen, x.id)'
  BY <1>0, SoundKept
<1>2. \A a : x.id \in Request /\ Issued(x.id, a) => Issued(x.id, a)'
  BY IssuedKept
<1>3. x.id \in Request /\ request[x.id].outcome = "confirmed"
        => request'[x.id].outcome = "confirmed"
  BY DEF Keeps
<1>4. x.at \in {"writeBack", "delSession", "setToken", "getToken", "delToken"} => x.id \in Request
  BY <1>0 DEF HandlerInv
<1> QED BY <1>0, <1>1, <1>2, <1>3, <1>4 DEF HandlerInv, At

(* So does a key, whose life may get shorter or longer meanwhile.            *)
LEMMA SessionKept ==
    ASSUME TypeOK, VerificationInv, Keeps, NEW i \in Request, Live(session[i]),
           session'[i].code = session[i].code, session'[i].action = session[i].action,
           session'[i].attempts = session[i].attempts
    PROVE  Sound(session[i], i)'
<1>1. \A data \in SessionData : Sound(data, i) => Sound(data, i)'
  BY SoundKept
<1>2. session[i] \in SessionData /\ Sound(session[i], i)
  BY DEF TypeOK, VerificationInv, KeysInv
<1>3. PICK data \in SessionData : data = session[i]
  BY <1>2
<1>4. Sound(data, i)'
  BY <1>1, <1>2, <1>3
<1> QED BY <1>3, <1>4 DEF Sound, Requested, PurposeOf

LEMMA TokenKept ==
    ASSUME TypeOK, VerificationInv, Keeps, NEW k \in Request, Live(token[k]),
           token'[k].action = token[k].action
    PROVE  Issued(k, token[k].action)'
BY DEF VerificationInv, KeysInv, Keeps, Issued, Requested, PurposeOf

LEMMA InboxKept ==
    ASSUME TypeOK, VerificationInv, Keeps, NEW c \in inbox
    PROVE  Requested(c)'
BY DEF TypeOK, VerificationInv, KeysInv, Keeps

(* The keys, when a step writes none of those that carry a code.             *)
LEMMA KeysKept ==
    ASSUME TypeOK, VerificationInv, Keeps, UNCHANGED <<session, token, inbox>>,
           Live(index)' => index'.id \in Request, rate'.granted <= rate'.count
    PROVE  KeysInv'
<1>1. \A i \in Request : Live(session[i]) => Sound(session[i], i)'
  BY SessionKept
<1>2. \A k \in Request : Live(token[k]) => Issued(k, token[k].action)'
  BY TokenKept
<1>3. \A c \in inbox : Requested(c)'
  BY InboxKept
<1> QED BY <1>1, <1>2, <1>3 DEF KeysInv, Live

-----------------------------------------------------------------------------
(* Types.                                                                    *)

LEMMA KeyTypes ==
    /\ {TTL, Cooldown, TokenTTL, RateTTL, MaxRequests, MaxChecks} \subseteq Nat
    /\ TTL > 0 /\ TokenTTL > 0 /\ RateTTL > 0 /\ MaxRequests > 0 /\ MaxChecks > 0
    /\ NoSession \in SessionData
    /\ NoIndex \in [life: Never..TTL, id: Code]
    /\ NoRate \in [life: Never..RateTTL, count: Nat, granted: 0..MaxRequests]
    /\ NoToken \in [life: Never..TokenTTL, action: Purpose]
    /\ NotServed \in RequestState
<1>1. /\ {TTL, Cooldown, TokenTTL, RateTTL, MaxRequests, MaxChecks} \subseteq Nat
      /\ TTL > 0 /\ TokenTTL > 0 /\ RateTTL > 0 /\ MaxRequests > 0 /\ MaxChecks > 0
  BY VerificationAssumption
<1>2. NoSession \in SessionData
  BY <1>1 DEF NoSession, SessionData, Gone, Never, Code, Purpose
<1>3. NoIndex \in [life: Never..TTL, id: Code]
  BY <1>1 DEF NoIndex, Gone, Never, Code
<1>4. NoRate \in [life: Never..RateTTL, count: Nat, granted: 0..MaxRequests]
  BY <1>1 DEF NoRate, Gone, Never
<1>5. NoToken \in [life: Never..TokenTTL, action: Purpose]
  BY <1>1 DEF NoToken, Gone, Never, Purpose
<1>6. NotServed \in RequestState
  BY <1>2 DEF NotServed, RequestState, Code, Purpose
<1> QED BY <1>1, <1>2, <1>3, <1>4, <1>5, <1>6

LEMMA AgedTypes ==
    /\ \A s \in SessionData : Aged(s, NoSession) \in SessionData
    /\ \A x \in [life: Never..TTL, id: Code] :
          Aged(x, NoIndex) \in [life: Never..TTL, id: Code]
    /\ \A x \in [life: Never..RateTTL, count: Nat, granted: 0..MaxRequests] :
          Aged(x, NoRate) \in [life: Never..RateTTL, count: Nat, granted: 0..MaxRequests]
    /\ \A x \in [life: Never..TokenTTL, action: Purpose] :
          Aged(x, NoToken) \in [life: Never..TokenTTL, action: Purpose]
<1>1. \A s \in SessionData : Aged(s, NoSession) \in SessionData
  BY KeyTypes DEF Aged, SessionData, Never
<1>2. \A x \in [life: Never..TTL, id: Code] :
          Aged(x, NoIndex) \in [life: Never..TTL, id: Code]
  BY KeyTypes DEF Aged, Never
<1>3. \A x \in [life: Never..RateTTL, count: Nat, granted: 0..MaxRequests] :
          Aged(x, NoRate) \in [life: Never..RateTTL, count: Nat, granted: 0..MaxRequests]
  BY KeyTypes DEF Aged, Never
<1>4. \A x \in [life: Never..TokenTTL, action: Purpose] :
          Aged(x, NoToken) \in [life: Never..TokenTTL, action: Purpose]
  BY KeyTypes DEF Aged, Never
<1> QED BY <1>1, <1>2, <1>3, <1>4

LEMMA TypeStep ==
    ASSUME TypeOK, VerificationInv, Next
    PROVE  TypeOK'
<1>0. /\ index \in [life: Never..TTL, id: Code]
      /\ rate \in [life: Never..RateTTL, count: Nat, granted: 0..MaxRequests]
      /\ request \in [Request -> RequestState]
      /\ \A i \in Request : session[i] \in SessionData
  BY DEF TypeOK
<1>1. ASSUME NEW r \in Request, Entering(r)
      PROVE  TypeOK'
  <2>1. \A i \in Request, c \in Code :
           [NotServed EXCEPT !.op = "confirm", !.at = "check", !.id = i, !.guess = c]
             \in RequestState
    BY KeyTypes DEF RequestState, Code
  <2>2. \A a \in Action :
           [NotServed EXCEPT !.op = "create", !.at = "getIndex", !.action = a] \in RequestState
    BY KeyTypes DEF RequestState, Purpose
  <2>3. \A k \in Request, a \in Action :
           [NotServed EXCEPT !.op = "use", !.at = "getToken", !.id = k, !.action = a]
             \in RequestState
    BY KeyTypes DEF RequestState, Purpose, Code
  <2>4. inbox \cup {None} \subseteq Code
    BY DEF TypeOK, Code
  <2>5. ASSUME NEW x \in RequestState, request' = [request EXCEPT ![r] = x],
               UNCHANGED <<index, session, rate, token, inbox>>
        PROVE  TypeOK'
    BY <2>5 DEF TypeOK
  <2>6. CASE \E a \in Action : Create(r, a)
    BY <2>6, <2>2, <2>5 DEF Create
  <2>7. CASE \E i \in Request, c \in inbox \cup {None} : Confirm(r, i, c)
    BY <2>7, <2>1, <2>4, <2>5 DEF Confirm
  <2>8. CASE \E k \in Request, a \in Action : Use(r, k, a)
    BY <2>8, <2>3, <2>5 DEF Use
  <2> QED BY <1>1, <2>6, <2>7, <2>8 DEF Entering
<1>2. ASSUME NEW r \in Request, Handling(r)
      PROVE  TypeOK'
  <2>0. request[r] \in RequestState /\ request[r].seen \in SessionData
    BY <1>0 DEF RequestState
  <2>1. /\ \A x \in {"getTtl", "getSession", "incr", "expire", "write", "publish", "sendOtp",
                     "setToken", "delToken"} : Goto(r, x) \in [Request -> RequestState]
        /\ \A o \in {"none", "refused", "wrong", "confirmed", "used"} :
              End(r, o) \in [Request -> RequestState]
    BY <1>0, <2>0 DEF Goto, End, RequestState
  <2>2. \A x \in {"incr", "delSession", "writeBack"}, s \in SessionData :
           [request EXCEPT ![r].seen = s, ![r].at = x] \in [Request -> RequestState]
    BY <1>0, <2>0 DEF RequestState
  <2>3. request[r].at \notin {"new", "getIndex", "incr", "expire", "write", "over"}
          => request[r].id \in Request
    BY DEF VerificationInv, HandlerInv
  <2>4. CASE GetIndex(r)
    <3>1. \A x \in {"getTtl", "incr"}, i \in Code :
             [request EXCEPT ![r].id = i, ![r].at = x] \in [Request -> RequestState]
      BY <1>0, <2>0 DEF RequestState
    <3> QED BY <2>4, <1>0, <3>1 DEF GetIndex, TypeOK
  <2>5. CASE CheckCooldown(r) \/ Publish(r) \/ GetToken(r) \/ Crash(r)
    BY <2>5, <2>1 DEF CheckCooldown, Publish, GetToken, Crash, TypeOK
  <2>6. CASE GetExisting(r)
    <3>1. session[request[r].id] \in SessionData
      BY <2>6, <1>0, <2>3 DEF GetExisting, At
    <3> QED BY <2>6, <3>1, <2>1, <2>2 DEF GetExisting, TypeOK
  <2>7. CASE Increment(r)
    <3>1. rate.granted <= rate.count /\ rate.count \in Nat /\ rate.granted \in 0..MaxRequests
      BY <1>0 DEF VerificationInv, KeysInv
    <3>2. rate'.granted \in 0..MaxRequests
      BY <2>7, <3>1, KeyTypes DEF Increment, OverLimit
    <3>3. KeptLife(rate) \in Never..RateTTL
      BY <1>0, KeyTypes DEF KeptLife, Never
    <3>4. rate' \in [life: Never..RateTTL, count: Nat, granted: 0..MaxRequests]
      BY <2>7, <3>1, <3>2, <3>3 DEF Increment
    <3> QED BY <2>7, <3>4, <2>1 DEF Increment, TypeOK
  <2>8. CASE SetExpiry(r)
    <3>1. rate' \in [life: Never..RateTTL, count: Nat, granted: 0..MaxRequests]
      BY <2>8, <1>0, KeyTypes DEF SetExpiry, Never
    <3> QED BY <2>8, <3>1, <2>1 DEF SetExpiry, TypeOK
  <2>9. CASE Write(r)
    <3> DEFINE resend == Live(request[r].seen)
               i == IF resend THEN request[r].id ELSE r
    <3>1. i \in Request
      BY <2>9 DEF Write, VerificationInv, HandlerInv, At
    <3>2. NewSession(r) \in SessionData
      BY <2>9, <1>0, <2>0, <3>1, KeyTypes
      DEF NewSession, SessionData, RequestState, KeptLife, Never, Code, Write
    <3>3. session' \in [Request -> SessionData]
      BY <2>9, <3>1, <3>2 DEF Write, TypeOK
    <3>4. index' \in [life: Never..TTL, id: Code]
      BY <2>9, <1>0, <3>1, KeyTypes DEF Write, KeptLife, Never, Code
    <3>5. [request EXCEPT ![r].id = i, ![r].seen = NoSession, ![r].at = "publish"]
            \in [Request -> RequestState]
      BY <1>0, <2>0, <3>1, KeyTypes DEF RequestState, Code
    <3> QED BY <2>9, <3>3, <3>4, <3>5 DEF Write, TypeOK
  <2>10. CASE SendOtp(r)
    <3>1. request[r].id \in Request
      BY <2>10, <2>3 DEF SendOtp, At
    <3>2. Live(session[request[r].id]) => session[request[r].id].code \in Request
      BY <3>1 DEF VerificationInv, KeysInv, Sound, Requested
    <3> QED BY <2>10, <3>2, <2>1 DEF SendOtp, TypeOK
  <2>11. CASE CheckGuess(r)
    <3>1. session[request[r].id] \in SessionData
      BY <2>11, <1>0, <2>3 DEF CheckGuess, At
    <3> QED BY <2>11, <3>1, <2>1, <2>2 DEF CheckGuess, TypeOK
  <2>12. CASE WriteBack(r)
    <3> DEFINE i == request[r].id
               seen == request[r].seen
    <3>1. i \in Request /\ seen.attempts < MaxChecks
      BY <2>12, <2>3 DEF WriteBack, At, VerificationInv, HandlerInv
    <3>2. KeptLife(session[i]) \in Never..TTL /\ KeptLife(index) \in Never..TTL
      BY <1>0, <3>1, KeyTypes DEF KeptLife, SessionData, Never
    <3>3. seen.attempts + 1 \in 0..MaxChecks
      BY <2>0, <3>1, KeyTypes DEF SessionData
    <3>4. [seen EXCEPT !.life = KeptLife(session[i]), !.attempts = @ + 1] \in SessionData
      BY <2>0, <3>2, <3>3 DEF SessionData
    <3>5. session' \in [Request -> SessionData]
      BY <2>12, <3>1, <3>4 DEF WriteBack, TypeOK
    <3>6. index' \in [life: Never..TTL, id: Code]
      BY <2>12, <3>1, <3>2 DEF WriteBack, Code
    <3> QED BY <2>12, <3>5, <3>6, <2>1 DEF WriteBack, TypeOK
  <2>13. CASE DeleteSession(r)
    BY <2>13, <2>1, KeyTypes DEF DeleteSession, TypeOK
  <2>14. CASE IssueToken(r)
    <3>1. [life |-> TokenTTL, action |-> request[r].seen.action]
            \in [life: Never..TokenTTL, action: Purpose]
      BY <2>0, KeyTypes DEF SessionData, Never
    <3> QED BY <2>14, <3>1, <2>1 DEF IssueToken, TypeOK
  <2>15. CASE DeleteToken(r)
    BY <2>15, <2>1, KeyTypes DEF DeleteToken, TypeOK
  <2> QED BY <1>2, <2>4, <2>5, <2>6, <2>7, <2>8, <2>9, <2>10, <2>11, <2>12, <2>13, <2>14, <2>15
          DEF Handling
<1>3. CASE Tick
  BY <1>3, AgedTypes DEF Tick, TypeOK
<1> QED BY <1>1, <1>2, <1>3, NextCases

-----------------------------------------------------------------------------
(* The steps that write no key but the counter of the requests.              *)

LEMMA EnteringStep ==
    ASSUME TypeOK, VerificationInv, Keeps, NEW r \in Request, Entering(r)
    PROVE  KeysInv' /\ HandlerInv(r)'
<1>0. request \in [Request -> RequestState] /\ ~ Live(NoSession)
  BY DEF TypeOK, Live, NoSession
<1>1. UNCHANGED <<index, session, rate, token, inbox>>
  BY DEF Entering, Create, Confirm, Use
<1>2. KeysInv'
  <2>1. Live(index)' => index'.id \in Request
    BY <1>1 DEF VerificationInv, KeysInv, Live
  <2>2. rate'.granted <= rate'.count
    BY <1>1 DEF VerificationInv, KeysInv
  <2> QED BY <1>1, <2>1, <2>2, KeysKept
<1>3. CASE \E a \in Action : Create(r, a)
  <2>1. /\ request'[r].at = "getIndex" /\ request'[r].outcome = "none"
        /\ request'[r].seen = NoSession
    BY <1>0, <1>3 DEF Create, NotServed
  <2> QED BY <1>0, <1>2, <2>1 DEF HandlerInv, At, Live
<1>4. CASE \E i \in Request, c \in inbox \cup {None} : Confirm(r, i, c)
  <2>1. request'[r].at = "check" /\ request'[r].outcome = "none" /\ request'[r].id \in Request
    BY <1>0, <1>4 DEF Confirm, NotServed
  <2> QED BY <1>2, <2>1 DEF HandlerInv, At
<1>5. CASE \E k \in Request, a \in Action : Use(r, k, a)
  <2>1. PICK k \in Request : \E a \in Action : Use(r, k, a)
    BY <1>5
  <2>2. request'[r].at = "getToken" /\ request'[r].outcome = "none" /\ request'[r].id = k
    BY <1>0, <2>1 DEF Use, NotServed
  <2>3. request'[k].outcome = "confirmed"
    BY <2>1 DEF Use, Keeps
  <2> QED BY <1>2, <2>2, <2>3 DEF HandlerInv, At
<1> QED BY <1>3, <1>4, <1>5 DEF Entering

(* A handler that ends with nothing done, or goes on knowing nothing new.    *)
LEMMA PlainMove ==
    ASSUME TypeOK, VerificationInv, NEW r \in Request,
           \/ \E o \in {"none", "refused"} : request' = End(r, o)
           \/ /\ ~ At(r, "over")
              /\ request[r].id \in Request
              /\ \E x \in {"getTtl", "getSession", "sendOtp"} : request' = Goto(r, x),
           request[r].outcome = "none"
    PROVE  HandlerInv(r)'
<1>0. request[r] \in RequestState /\ request \in [Request -> RequestState]
  BY DEF TypeOK
<1>1. \/ request'[r].at = "over" /\ request'[r].outcome \in {"none", "refused"}
      \/ /\ request'[r].at \in {"getTtl", "getSession", "sendOtp"}
         /\ request'[r].id \in Request /\ request'[r].outcome = "none"
  BY <1>0 DEF End, Goto, RequestState
<1> QED BY <1>1 DEF HandlerInv, At

LEMMA ReadingStep ==
    ASSUME TypeOK, VerificationInv, Keeps, NEW r \in Request,
           \/ GetIndex(r) \/ CheckCooldown(r) \/ GetExisting(r) \/ Publish(r)
           \/ CheckGuess(r) \/ GetToken(r) \/ Crash(r)
    PROVE  KeysInv' /\ HandlerInv(r)'
<1>0. /\ request \in [Request -> RequestState] /\ request[r] \in RequestState
      /\ request[r].seen \in SessionData /\ ~ At(r, "over") /\ ~ At(r, "new")
      /\ request[r].outcome = "none"
      /\ request[r].at \notin {"new", "getIndex", "incr", "expire", "write", "over"}
            => request[r].id \in Request
  <2>1. HandlerInv(r) /\ request[r] \in RequestState
    BY DEF TypeOK, VerificationInv
  <2>2. ~ At(r, "over") /\ ~ At(r, "new")
    BY DEF GetIndex, CheckCooldown, GetExisting, Publish, CheckGuess, GetToken, Crash, At
  <2> QED BY <2>1, <2>2 DEF TypeOK, HandlerInv, RequestState
<1>1. UNCHANGED <<index, session, rate, token, inbox>>
  BY DEF GetIndex, CheckCooldown, GetExisting, Publish, CheckGuess, GetToken, Crash
<1>2. KeysInv'
  <2>1. Live(index)' => index'.id \in Request
    BY <1>1 DEF VerificationInv, KeysInv, Live
  <2>2. rate'.granted <= rate'.count
    BY <1>1 DEF VerificationInv, KeysInv
  <2> QED BY <1>1, <2>1, <2>2, KeysKept
<1>3. CASE GetIndex(r)
  <2>1. CASE Live(index)
    <3>1. index.id \in Request
      BY <2>1 DEF VerificationInv, KeysInv
    <3>2. /\ request'[r].at = "getTtl" /\ request'[r].id \in Request
          /\ request'[r].outcome = "none"
      BY <1>0, <1>3, <2>1, <3>1 DEF GetIndex, RequestState
    <3> QED BY <1>2, <3>2 DEF HandlerInv, At
  <2>2. CASE ~ Live(index)
    <3>1. request'[r].at = "incr" /\ request'[r].seen = request[r].seen
          /\ request'[r].outcome = "none"
      BY <1>0, <1>3, <2>2 DEF GetIndex, RequestState
    <3>2. ~ Live(request[r].seen)
      BY <1>3 DEF GetIndex, VerificationInv, HandlerInv
    <3> QED BY <1>2, <3>1, <3>2 DEF HandlerInv, At, Live
  <2> QED BY <2>1, <2>2
<1>4. CASE CheckCooldown(r) \/ Publish(r) \/ Crash(r)
  BY <1>0, <1>2, <1>4, PlainMove DEF CheckCooldown, Publish, Crash, At
<1>5. ASSUME NEW i \in Request, NEW d \in SessionData, d = session[i], Live(d)
      PROVE  Sound(d, i) /\ Sound(d, i)'
  BY <1>5, SoundKept DEF VerificationInv, KeysInv
<1>6. CASE GetExisting(r)
  <2>1. PICK i \in Request, d \in SessionData : i = request[r].id /\ d = session[i]
    BY <1>0, <1>6 DEF GetExisting, At, TypeOK
  <2>2. CASE request' = End(r, "refused")
    BY <1>0, <1>2, <2>2, PlainMove
  <2>3. CASE request' = [request EXCEPT ![r].seen = d, ![r].at = "incr"]
    <3>1. /\ request'[r].at = "incr" /\ request'[r].seen = d /\ request'[r].id = i
          /\ request'[r].outcome = "none"
      BY <1>0, <2>1, <2>3 DEF RequestState
    <3> QED BY <1>2, <1>5, <2>1, <3>1 DEF HandlerInv, At, Live
  <2> QED BY <1>6, <2>1, <2>2, <2>3, <1>2 DEF GetExisting
<1>7. CASE CheckGuess(r)
  <2>1. PICK i \in Request, d \in SessionData : i = request[r].id /\ d = session[i]
    BY <1>0, <1>7 DEF CheckGuess, At, TypeOK
  <2>2. CASE request' = End(r, "refused")
    BY <1>0, <1>2, <2>2, PlainMove
  <2>3. CASE /\ Live(d) /\ ~ Exhausted(d)
             /\ request' = [request EXCEPT ![r].seen = d,
                   ![r].at = IF request[r].guess = d.code THEN "delSession" ELSE "writeBack"]
    <3>1. /\ request'[r].at = IF request[r].guess = d.code THEN "delSession" ELSE "writeBack"
          /\ request'[r].seen = d /\ request'[r].id = i
          /\ request'[r].outcome = "none" /\ request'[r].guess = request[r].guess
      BY <1>0, <2>1, <2>3 DEF RequestState
    <3>2. d.attempts < MaxChecks
      BY <2>3, KeyTypes DEF Exhausted, SessionData
    <3>3. Sound(d, i)'
      BY <1>5, <2>1, <2>3
    <3> QED BY <1>2, <2>1, <3>1, <3>2, <3>3 DEF HandlerInv, At, Live
  <2> QED BY <1>7, <2>1, <2>2, <2>3, <1>2 DEF CheckGuess
<1>8. CASE GetToken(r)
  <2>1. PICK k \in Request : k = request[r].id
    BY <1>0, <1>8 DEF GetToken, At
  <2>2. CASE ~ Accepts(r)
    BY <1>0, <1>2, <1>8, <2>2, PlainMove DEF GetToken
  <2>3. CASE Accepts(r)
    <3>1. Issued(k, request[r].action)
      BY <2>1, <2>3 DEF Accepts, VerificationInv, KeysInv
    <3>2. PICK a \in Purpose : a = request[r].action
      BY <1>0 DEF RequestState
    <3>3. Issued(k, a)'
      BY <3>1, <3>2, IssuedKept
    <3>4. /\ request'[r].at = "delToken" /\ request'[r].id = k /\ request'[r].action = a
          /\ request'[r].outcome = "none"
      BY <1>0, <1>8, <2>1, <2>3, <3>2 DEF GetToken, Goto, RequestState
    <3> QED BY <1>2, <3>3, <3>4 DEF HandlerInv, At
  <2> QED BY <2>2, <2>3
<1> QED BY <1>2, <1>3, <1>4, <1>6, <1>7, <1>8

(* The counter of the requests: as many are let through as it has counted,   *)
(* or fewer.                                                                 *)
LEMMA CountingStep ==
    ASSUME TypeOK, VerificationInv, Keeps, NEW r \in Request, Increment(r) \/ SetExpiry(r)
    PROVE  KeysInv' /\ HandlerInv(r)'
<1>0. /\ request \in [Request -> RequestState] /\ request[r] \in RequestState
      /\ request[r].seen \in SessionData /\ HandlerInv(r)
      /\ rate.granted <= rate.count /\ rate.count \in Nat /\ rate.granted \in Nat
  BY DEF TypeOK, VerificationInv, KeysInv, RequestState
<1>1. UNCHANGED <<index, session, token, inbox>>
  BY DEF Increment, SetExpiry
<1>2. rate'.granted <= rate'.count
  <2>1. CASE Increment(r)
    BY <1>0, <2>1 DEF Increment
  <2>2. CASE SetExpiry(r)
    BY <1>0, <2>2 DEF SetExpiry, TypeOK
  <2> QED BY <2>1, <2>2
<1>3. KeysInv'
  <2>1. Live(index)' => index'.id \in Request
    BY <1>1 DEF VerificationInv, KeysInv, Live
  <2> QED BY <1>1, <1>2, <2>1, KeysKept
<1>4. request[r].outcome = "none"
  BY <1>0 DEF Increment, SetExpiry, HandlerInv, At
<1>5. CASE request' = End(r, "refused")
  BY <1>3, <1>4, <1>5, PlainMove
<1>6. CASE \E x \in {"expire", "write"} : request' = Goto(r, x)
  <2>1. /\ request'[r].at \in {"expire", "write"} /\ request'[r].outcome = "none"
        /\ request'[r].seen = request[r].seen /\ request'[r].id = request[r].id
    BY <1>0, <1>4, <1>6 DEF Goto, RequestState
  <2>2. CASE Live(request[r].seen)
    <3>1. request[r].id \in Request /\ Sound(request[r].seen, request[r].id)
      BY <1>0, <2>2 DEF HandlerInv, Increment, SetExpiry, At
    <3>2. PICK i \in Request, d \in SessionData : i = request[r].id /\ d = request[r].seen
      BY <1>0, <3>1
    <3>3. Sound(d, i)'
      BY <3>1, <3>2, SoundKept
    <3> QED BY <1>3, <2>1, <3>2, <3>3 DEF HandlerInv, At
  <2>3. CASE ~ Live(request[r].seen)
    BY <1>3, <2>1, <2>3 DEF HandlerInv, At, Live
  <2> QED BY <2>2, <2>3
<1> QED BY <1>5, <1>6 DEF Increment, SetExpiry

-----------------------------------------------------------------------------
(* The steps that write a session, a token or the inbox.                     *)

(* A step that only ends a request, or takes it to a place where it holds    *)
(* nothing but the id of a session.                                          *)
LEMMA HoldsNothing ==
    ASSUME NEW r \in Request,
           \/ request'[r].at = "over" /\ request'[r].outcome # "used"
           \/ /\ request'[r].at \in {"getTtl", "getSession", "publish", "sendOtp", "check"}
              /\ request'[r].id \in Request /\ request'[r].outcome = "none"
    PROVE  HandlerInv(r)'
BY DEF HandlerInv, At

LEMMA WriteStep ==
    ASSUME TypeOK, VerificationInv, Keeps, TypeOK', NEW r \in Request, Write(r)
    PROVE  KeysInv' /\ HandlerInv(r)'
<1> DEFINE x == request[r]
           resend == Live(x.seen)
           i == IF resend THEN x.id ELSE r
<1>0. /\ request \in [Request -> RequestState] /\ x \in RequestState
      /\ x.seen \in SessionData /\ HandlerInv(r) /\ x.at = "write" /\ x.outcome = "none"
  BY DEF TypeOK, VerificationInv, RequestState, Write, HandlerInv, At
<1>1. i \in Request /\ (resend => Sound(x.seen, x.id))
  BY <1>0 DEF HandlerInv
<1>2. PICK j \in Request : j = i
  BY <1>1
<1>3. /\ session' = [session EXCEPT ![j] = NewSession(r)]
      /\ index'.id = j
      /\ request' = [request EXCEPT ![r].id = j, ![r].seen = NoSession, ![r].at = "publish"]
      /\ UNCHANGED <<rate, token, inbox>>
  BY <1>2 DEF Write
<1>4. Requested(r)' /\ request'[r].action = x.action
  BY <1>0, <1>3 DEF Requested, At, RequestState
<1>5. NewSession(r).attempts <= Cardinality(Misses(j)')
  <2>1. Cardinality(Misses(j)') \in Nat
    <3>1. Misses(j)' \subseteq Request
      BY DEF Misses
    <3> QED BY <3>1, VerificationAssumption, FS_Subset, FS_CardinalityType
  <2>2. CASE resend
    <3>1. PICK d \in SessionData : d = x.seen
      BY <1>0
    <3>2. Sound(d, j)'
      BY <1>1, <1>2, <2>2, <3>1, SoundKept
    <3> QED BY <2>2, <3>1, <3>2 DEF Sound, NewSession
  <2>3. CASE ~ resend
    BY <2>1, <2>3 DEF NewSession
  <2> QED BY <2>2, <2>3
<1>6. NewSession(r).code = r /\ NewSession(r).action = x.action
  BY DEF NewSession
<1>7. session'[j] = NewSession(r)
  BY <1>3 DEF TypeOK
<1>8. Sound(session[j], j)'
  BY <1>4, <1>5, <1>6, <1>7 DEF Sound, PurposeOf
<1>9. \A q \in Request : Live(session'[q]) => Sound(session[q], q)'
  <2>1. ASSUME NEW q \in Request, q # j, Live(session'[q])
        PROVE  Sound(session[q], q)'
    <3>1. session'[q] = session[q]
      BY <1>3, <2>1 DEF TypeOK
    <3> QED BY <2>1, <3>1, SessionKept
  <2> QED BY <1>8, <2>1
<1>10. KeysInv'
  <2>1. \A k \in Request : Live(token[k])' => Issued(k, token[k].action)'
    BY <1>3, TokenKept DEF Live
  <2>2. \A c \in inbox' : Requested(c)'
    BY <1>3, InboxKept
  <2>3. rate'.granted <= rate'.count
    BY <1>3 DEF VerificationInv, KeysInv
  <2> QED BY <1>3, <1>9, <2>1, <2>2, <2>3 DEF KeysInv, Live
<1>11. request'[r].at = "publish" /\ request'[r].id = j /\ request'[r].outcome = "none"
  BY <1>0, <1>3 DEF RequestState
<1> QED BY <1>10, <1>11, HoldsNothing

LEMMA SendStep ==
    ASSUME TypeOK, VerificationInv, Keeps, NEW r \in Request, SendOtp(r)
    PROVE  KeysInv' /\ HandlerInv(r)'
<1>0. /\ request \in [Request -> RequestState] /\ request[r] \in RequestState
      /\ request[r].id \in Request
  BY DEF TypeOK, VerificationInv, HandlerInv, SendOtp, At
<1>1. \A c \in inbox' : Requested(c)
  BY <1>0 DEF SendOtp, VerificationInv, KeysInv, Sound
<1>2. \A c \in inbox' : Requested(c)'
  BY <1>1 DEF Keeps, Requested
<1>3. KeysInv'
  <2>1. \A q \in Request : Live(session[q])' => Sound(session[q], q)'
    BY SessionKept DEF SendOtp, Live
  <2>2. \A k \in Request : Live(token[k])' => Issued(k, token[k].action)'
    BY TokenKept DEF SendOtp, Live
  <2>3. rate'.granted <= rate'.count /\ (Live(index)' => index'.id \in Request)
    BY DEF SendOtp, VerificationInv, KeysInv, Live
  <2> QED BY <1>2, <2>1, <2>2, <2>3 DEF KeysInv
<1>4. request'[r].at = "over" /\ request'[r].outcome = "none"
  BY <1>0 DEF SendOtp, End, RequestState
<1> QED BY <1>3, <1>4, HoldsNothing

(* A wrong guess is one more miss of the session it writes back.             *)
LEMMA WriteBackStep ==
    ASSUME TypeOK, VerificationInv, Keeps, NEW r \in Request, WriteBack(r), Moved(r)
    PROVE  KeysInv' /\ HandlerInv(r)'
<1>0. /\ request \in [Request -> RequestState] /\ request[r] \in RequestState
      /\ request[r].id \in Request /\ request[r].seen \in SessionData
      /\ Sound(request[r].seen, request[r].id) /\ request[r].outcome = "none"
  BY DEF TypeOK, VerificationInv, HandlerInv, WriteBack, At, RequestState
<1>1. PICK i \in Request, d \in SessionData : i = request[r].id /\ d = request[r].seen
  BY <1>0
<1>2. request'[r].at = "over" /\ request'[r].outcome = "wrong" /\ request'[r].id = i
  BY <1>0, <1>1 DEF WriteBack, End, RequestState
<1>3. Misses(i)' = Misses(i) \cup {r} /\ r \notin Misses(i)
  BY <1>0, <1>2 DEF Misses, Moved
<1>4. Cardinality(Misses(i)') = Cardinality(Misses(i)) + 1
  BY <1>3, MissesFinite, FS_AddElement
<1>5. /\ session'[i].code = d.code /\ session'[i].action = d.action
      /\ session'[i].attempts = d.attempts + 1
      /\ \A q \in Request : q # i => session'[q] = session[q]
  BY <1>0, <1>1 DEF WriteBack, TypeOK, SessionData
<1>6. d.attempts + 1 <= Cardinality(Misses(i)')
  BY <1>0, <1>1, <1>4, MissesFinite DEF Sound, SessionData
<1>7. Requested(d.code)' /\ d.action = PurposeOf(d.code)'
  <2>1. Sound(d, i)'
    BY <1>0, <1>1, SoundKept
  <2> QED BY <2>1 DEF Sound
<1>8. Sound(session[i], i)'
  BY <1>5, <1>6, <1>7 DEF Sound, Requested, PurposeOf
<1>9. \A q \in Request : Live(session[q])' => Sound(session[q], q)'
  <2>1. ASSUME NEW q \in Request, q # i, Live(session'[q])
        PROVE  Sound(session[q], q)'
    BY <1>5, <2>1, SessionKept
  <2> QED BY <1>8, <2>1 DEF Live
<1>10. KeysInv'
  <2>1. \A k \in Request : Live(token[k])' => Issued(k, token[k].action)'
    BY TokenKept DEF WriteBack, Live
  <2>2. \A c \in inbox' : Requested(c)'
    BY InboxKept DEF WriteBack
  <2>3. rate'.granted <= rate'.count /\ index'.id \in Request
    BY <1>0 DEF WriteBack, VerificationInv, KeysInv
  <2> QED BY <1>9, <2>1, <2>2, <2>3 DEF KeysInv
<1> QED BY <1>2, <1>10, HoldsNothing

LEMMA DeleteSessionStep ==
    ASSUME TypeOK, VerificationInv, Keeps, NEW r \in Request, DeleteSession(r)
    PROVE  KeysInv' /\ HandlerInv(r)'
<1>0. /\ request \in [Request -> RequestState] /\ request[r] \in RequestState
      /\ request[r].id \in Request /\ request[r].seen \in SessionData
      /\ Sound(request[r].seen, request[r].id) /\ request[r].outcome = "none"
      /\ request[r].guess = request[r].seen.code
  BY DEF TypeOK, VerificationInv, HandlerInv, DeleteSession, At, RequestState
<1>1. PICK i \in Request, d \in SessionData : i = request[r].id /\ d = request[r].seen
  BY <1>0
<1>2. /\ request'[r].at = "setToken" /\ request'[r].outcome = "none" /\ request'[r].id = i
      /\ request'[r].seen = d /\ request'[r].guess = d.code
  BY <1>0, <1>1 DEF DeleteSession, Goto, RequestState
<1>3. Sound(d, i)'
  BY <1>0, <1>1, SoundKept
<1>4. /\ ~ Live(session'[i]) /\ ~ Live(index')
      /\ \A q \in Request : q # i => session'[q] = session[q]
  BY <1>1 DEF DeleteSession, TypeOK, Live, NoSession, NoIndex
<1>5. \A q \in Request : Live(session'[q]) => Sound(session[q], q)'
  BY <1>4, SessionKept
<1>6. KeysInv'
  <2>1. \A k \in Request : Live(token[k])' => Issued(k, token[k].action)'
    BY TokenKept DEF DeleteSession, Live
  <2>2. \A c \in inbox' : Requested(c)'
    BY InboxKept DEF DeleteSession
  <2>3. rate'.granted <= rate'.count
    BY DEF DeleteSession, VerificationInv, KeysInv
  <2> QED BY <1>4, <1>5, <2>1, <2>2, <2>3 DEF KeysInv, Live
<1> QED BY <1>2, <1>3, <1>6 DEF HandlerInv, At

(* The keys, when a step writes one token.                                   *)
LEMMA TokenStep ==
    ASSUME TypeOK, VerificationInv, Keeps, NEW k \in Request, NEW t,
           token' = [token EXCEPT ![k] = t], Live(t) => Issued(k, token[k].action)',
           UNCHANGED <<index, session, rate, inbox>>
    PROVE  KeysInv'
<1>1. \A q \in Request : Live(session'[q]) => Sound(session[q], q)'
  BY SessionKept
<1>2. \A q \in Request : Live(token'[q]) => Issued(q, token[q].action)'
  <2>1. token'[k] = t
    BY DEF TypeOK
  <2>2. ASSUME NEW q \in Request, q # k, Live(token'[q])
        PROVE  Issued(q, token[q].action)'
    <3>1. token'[q] = token[q]
      BY <2>2 DEF TypeOK
    <3> QED BY <2>2, <3>1, TokenKept
  <2> QED BY <2>1, <2>2
<1>3. \A c \in inbox' : Requested(c)'
  BY InboxKept
<1>4. rate'.granted <= rate'.count /\ (Live(index') => index'.id \in Request)
  BY DEF VerificationInv, KeysInv
<1> QED BY <1>1, <1>2, <1>3, <1>4 DEF KeysInv, Live

LEMMA IssueTokenStep ==
    ASSUME TypeOK, VerificationInv, Keeps, NEW r \in Request, IssueToken(r)
    PROVE  KeysInv' /\ HandlerInv(r)'
<1>0. /\ request \in [Request -> RequestState] /\ request[r] \in RequestState
      /\ Sound(request[r].seen, request[r].id)
      /\ request[r].guess = request[r].seen.code
  BY DEF TypeOK, VerificationInv, HandlerInv, IssueToken, At, RequestState
<1>1. /\ request'[r].at = "over" /\ request'[r].outcome = "confirmed"
      /\ request'[r].guess = request[r].guess
  BY <1>0 DEF IssueToken, End, RequestState
<1>2. token'[r].action = request[r].seen.action
  BY DEF IssueToken, TypeOK
<1>3. /\ request[r].guess \in Request /\ Requested(request[r].guess)
      /\ request[r].seen.action = request[request[r].guess].action
  BY <1>0 DEF Sound, Requested, PurposeOf
<1>4. Issued(r, token[r].action)'
  BY <1>1, <1>2, <1>3 DEF Keeps, Issued, PurposeOf, Requested
<1>5. KeysInv'
  BY <1>4, TokenStep DEF IssueToken
<1> QED BY <1>1, <1>5, HoldsNothing

LEMMA DeleteTokenStep ==
    ASSUME TypeOK, VerificationInv, Keeps, NEW r \in Request, DeleteToken(r)
    PROVE  KeysInv' /\ HandlerInv(r)'
<1>0. /\ request \in [Request -> RequestState] /\ request[r] \in RequestState
      /\ request[r].id \in Request /\ Issued(request[r].id, request[r].action)
  BY DEF TypeOK, VerificationInv, HandlerInv, DeleteToken, At, RequestState
<1>1. PICK k \in Request, a \in Purpose : k = request[r].id /\ a = request[r].action
  BY <1>0 DEF RequestState
<1>2. /\ request'[r].at = "over" /\ request'[r].outcome = "used"
      /\ request'[r].id = k /\ request'[r].action = a
  BY <1>0, <1>1 DEF DeleteToken, End, RequestState
<1>3. Issued(k, a)'
  BY <1>0, <1>1, IssuedKept
<1>4. KeysInv'
  <2>1. ~ Live(NoToken)
    BY DEF Live, NoToken
  <2> QED BY <1>1, <2>1, TokenStep DEF DeleteToken
<1> QED BY <1>2, <1>3, <1>4 DEF HandlerInv, At

LEMMA AgedKeeps ==
    /\ \A s \in SessionData : LET t == Aged(s, NoSession) IN
          Live(t) => Live(s) /\ t.code = s.code /\ t.action = s.action /\ t.attempts = s.attempts
    /\ \A x \in [life: Never..TokenTTL, action: Purpose] : LET t == Aged(x, NoToken) IN
          Live(t) => Live(x) /\ t.action = x.action
    /\ \A x \in [life: Never..TTL, id: Code] : LET t == Aged(x, NoIndex) IN
          Live(t) => Live(x) /\ t.id = x.id
    /\ \A x \in [life: Never..RateTTL, count: Nat, granted: 0..MaxRequests] :
          LET t == Aged(x, NoRate) IN x.granted <= x.count => t.granted <= t.count
<1>1. \A s \in SessionData : LET t == Aged(s, NoSession) IN
          Live(t) => Live(s) /\ t.code = s.code /\ t.action = s.action /\ t.attempts = s.attempts
  BY DEF Aged, Live, Gone, NoSession, SessionData
<1>2. \A x \in [life: Never..TokenTTL, action: Purpose] : LET t == Aged(x, NoToken) IN
          Live(t) => Live(x) /\ t.action = x.action
  BY DEF Aged, Live, Gone, NoToken
<1>3. \A x \in [life: Never..TTL, id: Code] : LET t == Aged(x, NoIndex) IN
          Live(t) => Live(x) /\ t.id = x.id
  BY DEF Aged, Live, Gone, NoIndex
<1>4. \A x \in [life: Never..RateTTL, count: Nat, granted: 0..MaxRequests] :
          LET t == Aged(x, NoRate) IN x.granted <= x.count => t.granted <= t.count
  BY DEF Aged, NoRate
<1> QED BY <1>1, <1>2, <1>3, <1>4

(* Time passes: a key that is still there is as it was.                      *)
LEMMA TickStep ==
    ASSUME TypeOK, VerificationInv, Tick
    PROVE  VerificationInv'
<1>1. Keeps
  BY StutterKeeps DEF Tick
<1>2. \A r \in Request : HandlerInv(r)'
  BY <1>1, OthersKept DEF Tick
<1>3. \A i \in Request : Live(session'[i]) =>
         /\ Live(session[i]) /\ session'[i].code = session[i].code
         /\ session'[i].action = session[i].action
         /\ session'[i].attempts = session[i].attempts
  <2>1. \A i \in Request : session[i] \in SessionData /\ session'[i] = Aged(session[i], NoSession)
    BY DEF Tick, TypeOK
  <2> QED BY <2>1, AgedKeeps
<1>4. \A k \in Request : Live(token'[k]) =>
         Live(token[k]) /\ token'[k].action = token[k].action
  <2>1. \A k \in Request : /\ token[k] \in [life: Never..TokenTTL, action: Purpose]
                           /\ token'[k] = Aged(token[k], NoToken)
    BY DEF Tick, TypeOK
  <2> QED BY <2>1, AgedKeeps
<1>5. \A i \in Request : Live(session'[i]) => Sound(session[i], i)'
  <2>1. ASSUME NEW i \in Request, Live(session'[i])
        PROVE  Sound(session[i], i)'
    BY <1>1, <1>3, <2>1, SessionKept
  <2> QED BY <2>1
<1>6. \A k \in Request : Live(token'[k]) => Issued(k, token[k].action)'
  <2>1. ASSUME NEW k \in Request, Live(token'[k])
        PROVE  Issued(k, token[k].action)'
    BY <1>1, <1>4, <2>1, TokenKept
  <2> QED BY <2>1
<1>7. \A c \in inbox' : Requested(c)'
  BY <1>1, InboxKept DEF Tick
<1>8. rate'.granted <= rate'.count
  BY AgedKeeps DEF Tick, TypeOK, VerificationInv, KeysInv
<1>9. Live(index') => index'.id \in Request
  BY AgedKeeps DEF Tick, TypeOK, VerificationInv, KeysInv
<1> QED BY <1>2, <1>5, <1>6, <1>7, <1>8, <1>9 DEF VerificationInv, KeysInv, Live

-----------------------------------------------------------------------------
LEMMA InvStep ==
    ASSUME TypeOK, VerificationInv, Next
    PROVE  VerificationInv'
<1>1. TypeOK'
  BY TypeStep
<1>2. ASSUME NEW r \in Request, Entering(r) \/ Handling(r)
      PROVE  VerificationInv'
  <2>1. Moved(r)
    BY <1>2, Moves
  <2>2. Keeps
    BY <2>1, MoveKeeps
  <2>3. KeysInv' /\ HandlerInv(r)'
    BY <1>1, <1>2, <2>1, <2>2, EnteringStep, ReadingStep, CountingStep, WriteStep, SendStep,
       WriteBackStep, DeleteSessionStep, IssueTokenStep, DeleteTokenStep DEF Handling
  <2>4. \A q \in Request \ {r} : HandlerInv(q)'
    BY <2>1, <2>2, OthersKept DEF Moved
  <2> QED BY <2>3, <2>4 DEF VerificationInv
<1> QED BY <1>2, TickStep, NextCases

LEMMA InitInv == Init => TypeOK /\ VerificationInv
<1> SUFFICES ASSUME Init PROVE TypeOK /\ VerificationInv
  OBVIOUS
<1>1. TypeOK
  BY KeyTypes DEF Init, TypeOK
<1>2. KeysInv
  BY DEF Init, KeysInv, Live, NoIndex, NoSession, NoRate, NoToken, Gone
<1>3. \A r \in Request : HandlerInv(r)
  BY DEF Init, HandlerInv, NotServed, At
<1> QED BY <1>1, <1>2, <1>3 DEF VerificationInv

(* The inductive invariant of the verification of a contact.                 *)
THEOREM VerificationInvariant == Spec => [](TypeOK /\ VerificationInv)
<1>1. ASSUME TypeOK, VerificationInv, UNCHANGED vars
      PROVE  TypeOK' /\ VerificationInv'
  <2>1. TypeOK'
    BY <1>1 DEF vars, TypeOK
  <2>2. Keeps
    BY <1>1, StutterKeeps DEF vars
  <2>3. \A r \in Request : HandlerInv(r)'
    BY <1>1, <2>2, OthersKept DEF vars
  <2>4. KeysInv'
    <3>1. Live(index)' => index'.id \in Request
      BY <1>1 DEF vars, VerificationInv, KeysInv, Live
    <3>2. rate'.granted <= rate'.count
      BY <1>1 DEF vars, VerificationInv, KeysInv
    <3> QED BY <1>1, <2>2, <3>1, <3>2, KeysKept DEF vars
  <2> QED BY <2>1, <2>3, <2>4 DEF VerificationInv
<1>2. TypeOK /\ VerificationInv /\ [Next]_vars => TypeOK' /\ VerificationInv'
  BY <1>1, TypeStep, InvStep
<1> QED BY InitInv, <1>2, PTL DEF Spec

(* Every key of Redis and every handler stays within its type, the attempts  *)
(* of a session and the codes of a window within their limits.               *)
THEOREM TypeCorrect == Spec => []TypeOK
BY VerificationInvariant, PTL

(* Code and purpose of a session change together, and a token carries the    *)
(* purpose of the code it was issued for (services/verifications.py:77-83,   *)
(* 147-172).                                                                 *)
THEOREM PurposeHolds == Spec => []PurposeIsKept
<1>1. VerificationInv => PurposeIsKept
  BY DEF VerificationInv, KeysInv, PurposeIsKept, Sound, Issued, Requested
<1> QED BY <1>1, VerificationInvariant, PTL

(* An operation is let through only with the token of a confirmation of a    *)
(* code requested for that operation (services/verifications.py:203).        *)
THEOREM OperationProved == Spec => []OperationHasItsOwnCode
<1>1. VerificationInv => OperationHasItsOwnCode
  BY DEF VerificationInv, HandlerInv, OperationHasItsOwnCode, Issued
<1> QED BY <1>1, VerificationInvariant, PTL

(* Resends and wrong guesses, which write back a session they read earlier,  *)
(* never count more attempts than wrong codes were submitted                 *)
(* (services/verifications.py:82,152).                                       *)
THEOREM AttemptsHold == Spec => []AttemptsAreMisses
<1>1. VerificationInv => AttemptsAreMisses
  BY DEF VerificationInv, KeysInv, AttemptsAreMisses, Sound
<1> QED BY <1>1, VerificationInvariant, PTL

-----------------------------------------------------------------------------
(* Spent tokens.                                                             *)

(* A token that has served is not there.                                     *)
SpentInv ==
    \A q \in Request : request[q].outcome = "used" => ~ Live(token[request[q].id])

(* What a step of a handler does to the tokens: one is made by its own       *)
(* confirmation, which is over then, and one is deleted by an operation,     *)
(* which is the only way to have used it.                                    *)
LEMMA TokenFrame ==
    ASSUME TypeOK, NEW r \in Request, Entering(r) \/ Handling(r)
    PROVE  /\ \A k \in Request : Live(token'[k]) =>
                 Live(token[k]) \/ (k = r /\ At(r, "setToken"))
           /\ request'[r].outcome = "used" =>
                 \/ At(r, "delToken") /\ ~ Live(token'[request'[r].id])
                 \/ request[r].outcome = "used"
           /\ request'[r].at = "delToken" => GetToken(r)
<1>0. /\ request \in [Request -> RequestState] /\ request[r] \in RequestState
      /\ token \in [Request -> [life: Never..TokenTTL, action: Purpose]]
  BY DEF TypeOK
<1>2. CASE Entering(r)
  BY <1>0, <1>2 DEF Entering, Create, Confirm, Use, At, NotServed, Live
<1>3. CASE GetIndex(r) \/ CheckCooldown(r) \/ GetExisting(r)
  BY <1>0, <1>3 DEF GetIndex, CheckCooldown, GetExisting, Goto, End, At, RequestState, Live
<1>4. CASE Increment(r) \/ SetExpiry(r)
  BY <1>0, <1>4 DEF Increment, SetExpiry, Goto, End, At, RequestState, Live
<1>5. CASE Write(r) \/ Publish(r) \/ SendOtp(r)
  BY <1>0, <1>5 DEF Write, Publish, SendOtp, Goto, End, At, RequestState, Live
<1>6. CASE CheckGuess(r) \/ WriteBack(r) \/ DeleteSession(r)
  BY <1>0, <1>6 DEF CheckGuess, WriteBack, DeleteSession, Goto, End, At, RequestState, Live
<1>7. CASE IssueToken(r)
  BY <1>0, <1>7 DEF IssueToken, End, At, RequestState, Live
<1>8. CASE GetToken(r)
  BY <1>0, <1>8 DEF GetToken, Goto, End, At, RequestState, Live
<1>9. CASE DeleteToken(r)
  BY <1>0, <1>9 DEF DeleteToken, End, At, RequestState, Live, NoToken
<1>10. CASE Crash(r)
  BY <1>0, <1>10 DEF Crash, End, At, RequestState, Live
<1> QED BY <1>2, <1>3, <1>4, <1>5, <1>6, <1>7, <1>8, <1>9, <1>10 DEF Handling

LEMMA SpentStep ==
    ASSUME TypeOK, VerificationInv, SpentInv, Next
    PROVE  SpentInv'
<1>1. CASE Tick
  <2>1. /\ request' = request
        /\ \A k \in Request : token'[k] = Aged(token[k], NoToken)
        /\ \A k \in Request : token[k] \in [life: Never..TokenTTL, action: Purpose]
    BY <1>1 DEF Tick, TypeOK
  <2>2. \A k \in Request : Live(token'[k]) => Live(token[k])
    BY <2>1, AgedKeeps
  <2> QED BY <2>1, <2>2 DEF SpentInv, VerificationInv, HandlerInv
<1>2. ASSUME NEW r \in Request, Entering(r) \/ Handling(r)
      PROVE  SpentInv'
  <2>1. ASSUME NEW q \in Request, request'[q].outcome = "used"
        PROVE  ~ Live(token'[request'[q].id])
    <3>1. CASE request[q].outcome = "used"
      <4>1. At(q, "over") /\ request[q].id \in Request
            /\ request[request[q].id].outcome = "confirmed"
        BY <3>1 DEF VerificationInv, HandlerInv, Issued
      <4>2. q # r /\ request'[q] = request[q]
        BY <1>2, <4>1, Moves DEF Moved
      <4>3. ~ At(request[q].id, "setToken")
        BY <4>1 DEF VerificationInv, HandlerInv, At
      <4> QED BY <1>2, <3>1, <4>1, <4>2, <4>3, TokenFrame DEF SpentInv
    <3>2. CASE request[q].outcome # "used"
      BY <1>2, <2>1, <3>2, Moves, TokenFrame DEF Moved
    <3> QED BY <3>1, <3>2
  <2> QED BY <2>1 DEF SpentInv
<1> QED BY <1>1, <1>2, NextCases

(* A token that has served an operation lets no other through that had not   *)
(* read it by then (services/verifications.py:194,224).                      *)
THEOREM SpentTokens == Spec => SpentTokenServesNobody
<1>1. Init => SpentInv
  BY DEF Init, SpentInv, NotServed
<1>2. ASSUME TypeOK, VerificationInv, SpentInv, Next,
             NEW r \in Request, NEW q \in Request,
             request[q].outcome = "used", request[q].id = request[r].id, At(r, "getToken")
      PROVE  request'[r].at # "delToken"
  <2>1. SUFFICES ASSUME request'[r].at = "delToken" PROVE FALSE
    OBVIOUS
  <2>2. ~ Tick
    BY <1>2, <2>1 DEF Tick, At
  <2>3. PICK p \in Request : Entering(p) \/ Handling(p)
    BY <1>2, <2>2, NextCases
  <2>4. p = r
    BY <1>2, <2>1, <2>3, Moves DEF Moved, At
  <2>5. GetToken(r)
    BY <1>2, <2>1, <2>3, <2>4, TokenFrame
  <2>6. ~ Accepts(r)
    BY <1>2 DEF SpentInv, Accepts
  <2> QED BY <1>2, <2>1, <2>5, <2>6 DEF GetToken, End, TypeOK
<1>3. TypeOK /\ VerificationInv /\ SpentInv /\ [Next]_vars => SpentInv'
  <2>1. UNCHANGED vars /\ SpentInv => SpentInv'
    BY DEF vars, SpentInv, Live
  <2> QED BY <2>1, SpentStep
<1>4. TypeOK /\ VerificationInv /\ SpentInv /\ [Next]_vars
         => [\A r, q \in Request :
               /\ request[q].outcome = "used" /\ request[q].id = request[r].id
               /\ At(r, "getToken")
               => request'[r].at # "delToken"]_vars
  BY <1>2
<1> QED BY <1>1, <1>3, <1>4, VerificationInvariant, PTL DEF Spec, SpentTokenServesNobody
-----------------------------------------------------------------------------
(* The window of the limit.                                                  *)

(* What the step of one handler does to the count of the contact: nothing,   *)
(* unless it increments it or sets its expiry.                               *)
LEMMA RateFrame ==
    ASSUME TypeOK, NEW r \in Request, Entering(r) \/ Handling(r)
    PROVE  /\ \A q \in Request : q # r => request'[q] = request[q]
           /\ \/ Increment(r)
              \/ SetExpiry(r)
              \/ /\ rate' = rate /\ request'[r].at # "expire"
                 /\ At(r, "expire") => request'[r].at = "over"
<1>0. request \in [Request -> RequestState] /\ request[r] \in RequestState
  BY DEF TypeOK
<1>1. \A q \in Request : q # r => request'[q] = request[q]
  BY Moves DEF Moved
<1>2. CASE Entering(r)
  BY <1>0, <1>1, <1>2 DEF Entering, Create, Confirm, Use, At, NotServed
<1>3. CASE GetIndex(r) \/ CheckCooldown(r) \/ GetExisting(r)
  BY <1>0, <1>1, <1>3 DEF GetIndex, CheckCooldown, GetExisting, Goto, End, At, RequestState
<1>4. CASE Increment(r) \/ SetExpiry(r)
  BY <1>1, <1>4
<1>5. CASE Write(r) \/ Publish(r) \/ SendOtp(r)
  BY <1>0, <1>1, <1>5 DEF Write, Publish, SendOtp, Goto, End, At, RequestState
<1>6. CASE CheckGuess(r) \/ WriteBack(r) \/ DeleteSession(r) \/ IssueToken(r)
  BY <1>0, <1>1, <1>6
     DEF CheckGuess, WriteBack, DeleteSession, IssueToken, Goto, End, At, RequestState
<1>7. CASE GetToken(r) \/ DeleteToken(r) \/ Crash(r)
  BY <1>0, <1>1, <1>7 DEF GetToken, DeleteToken, Crash, Goto, End, At, RequestState
<1> QED BY <1>2, <1>3, <1>4, <1>5, <1>6, <1>7 DEF Handling

(* The first INCR finds no key and makes one that does not expire; a later   *)
(* one keeps its life.                                                       *)
LEMMA IncrementWindow ==
    ASSUME TypeOK, WindowInv, NEW r \in Request, Increment(r)
    PROVE  /\ Live(rate)' /\ rate'.count > 0 /\ ~ At(r, "expire")
           /\ \/ /\ rate.life # Never /\ rate'.life = Never /\ request'[r].at = "expire"
                 /\ \A q \in Request : ~ At(q, "expire")
              \/ rate'.life = rate.life /\ request'[r].at # "expire"
<1>0. /\ rate \in [life: Never..RateTTL, count: Nat, granted: 0..MaxRequests]
      /\ request \in [Request -> RequestState] /\ request[r] \in RequestState
  BY DEF TypeOK
<1>1. /\ rate'.life = KeptLife(rate) /\ rate'.count = rate.count + 1
      /\ ~ At(r, "expire")
  BY DEF Increment, At
<1>2. CASE rate.count = 0
  <2>1. rate.life = Gone
    BY <1>2 DEF WindowInv, Live
  <2>2. rate'.life = Never /\ rate'.count = 1
    BY <1>1, <1>2, <2>1 DEF KeptLife, Live
  <2>3. request'[r].at = "expire"
    <3>1. ~ OverLimit(1)
      BY KeyTypes DEF OverLimit
    <3> QED BY <1>0, <1>2, <3>1 DEF Increment, Goto, RequestState
  <2>4. \A q \in Request : ~ At(q, "expire")
    BY <2>1 DEF WindowInv, Gone, Never
  <2> QED BY <1>1, <2>1, <2>2, <2>3, <2>4 DEF Live, Gone, Never
<1>3. CASE rate.count # 0
  <2>1. Live(rate) /\ rate.count > 0
    BY <1>0, <1>3 DEF WindowInv
  <2>2. rate'.life = rate.life
    BY <1>1, <2>1 DEF KeptLife
  <2>3. request'[r].at \in {"over", "write"}
    <3>1. rate.count + 1 # 1
      BY <1>0, <1>3
    <3> QED BY <1>0, <3>1 DEF Increment, Goto, End, RequestState
  <2> QED BY <1>0, <1>1, <2>1, <2>2, <2>3 DEF Live
<1> QED BY <1>2, <1>3

LEMMA TickWindow ==
    ASSUME TypeOK, Tick
    PROVE  /\ UNCHANGED request
           /\ rate.life = Never <=> rate'.life = Never
           /\ rate' = rate \/ rate' = NoRate \/ (Live(rate) /\ Live(rate)' /\ rate'.count = rate.count)
<1>0. rate \in [life: Never..RateTTL, count: Nat, granted: 0..MaxRequests]
  BY DEF TypeOK
<1>1. rate' = Aged(rate, NoRate) /\ UNCHANGED request
  BY DEF Tick
<1>2. CASE rate.life = 1
  BY <1>1, <1>2 DEF Aged, NoRate, Never, Gone
<1>3. CASE rate.life > 1
  BY <1>0, <1>1, <1>3, KeyTypes DEF Aged, Live, Never, Gone
<1>4. CASE rate.life # 1 /\ ~ (rate.life > 1)
  BY <1>1, <1>4 DEF Aged
<1> QED BY <1>2, <1>3, <1>4

LEMMA WindowStep ==
    ASSUME TypeOK, WindowInv, Next
    PROVE  /\ WindowInv'
           /\ ~ LimitStuck /\ LimitStuck'
                => \E r \in Request : At(r, "expire") /\ request'[r].at = "over"
<1>1. CASE Tick
  <2>1. WindowInv'
    BY <1>1, TickWindow DEF WindowInv, At, Live, NoRate
  <2>2. LimitStuck' => LimitStuck
    BY <1>1, TickWindow DEF LimitStuck, At
  <2> QED BY <2>1, <2>2
<1>2. ASSUME NEW r \in Request, Entering(r) \/ Handling(r)
      PROVE  /\ WindowInv'
             /\ ~ LimitStuck /\ LimitStuck' => At(r, "expire") /\ request'[r].at = "over"
  <2>0. \A q \in Request : q # r => request'[q] = request[q]
    BY <1>2, RateFrame
  <2>1. CASE Increment(r)
    BY <2>0, <2>1, IncrementWindow DEF WindowInv, LimitStuck, At
  <2>2. CASE SetExpiry(r)
    <3>1. /\ At(r, "expire") /\ Live(rate) /\ rate.life = Never /\ rate.count > 0
          /\ \A q \in Request : At(q, "expire") => q = r
      BY <2>2 DEF SetExpiry, WindowInv, Live, Never, Gone
    <3>2. rate'.life = RateTTL /\ rate'.count = rate.count /\ request'[r].at = "write"
      BY <2>2, <3>1 DEF SetExpiry, Goto, TypeOK, RequestState
    <3>3. RateTTL # Gone /\ RateTTL # Never
      BY KeyTypes DEF Gone, Never
    <3> QED BY <2>0, <3>1, <3>2, <3>3 DEF WindowInv, LimitStuck, At, Live
  <2>3. CASE rate' = rate /\ request'[r].at # "expire"
             /\ (At(r, "expire") => request'[r].at = "over")
    BY <2>0, <2>3 DEF WindowInv, LimitStuck, At, Live
  <2> QED BY <1>2, <2>1, <2>2, <2>3, RateFrame
<1> QED BY <1>1, <1>2, NextCases

(* The one request that opened the window is about to give it its end, and   *)
(* nobody else touches it meanwhile.                                         *)
THEOREM WindowInvariant == Spec => []WindowInv
<1>1. Init => WindowInv
  BY DEF Init, WindowInv, NoRate, Live, Gone, NotServed, At
<1>2. TypeOK /\ WindowInv /\ [Next]_vars => WindowInv'
  <2>1. ASSUME WindowInv, UNCHANGED vars PROVE WindowInv'
    BY <2>1 DEF vars, WindowInv, Live, At
  <2> QED BY <2>1, WindowStep
<1> QED BY <1>1, <1>2, TypeCorrect, PTL DEF Spec

(* The limit of a contact stops expiring only by the death of the process    *)
(* that serves the request between INCR and EXPIRE (repositories/            *)
(* verification.py:11-13), never by an interleaving.                         *)
THEOREM LimitExpires == Spec => OnlyDeathLeavesLimit
<1>1. TypeOK /\ WindowInv /\ [Next]_vars =>
        [~ LimitStuck /\ LimitStuck'
           => \E r \in Request : At(r, "expire") /\ request'[r].at = "over"]_vars
  BY WindowStep
<1> QED BY <1>1, TypeCorrect, WindowInvariant, PTL DEF Spec, OnlyDeathLeavesLimit

-----------------------------------------------------------------------------
(* The cooldown.                                                             *)

Rested(i) == ~ InCooldown(session[i].life)

(* What a step does to a session that is written: it does not get young      *)
(* again, and its code is replaced only after the cooldown.                  *)
SessionAges(i) ==
    /\ Rested(i) => Rested(i)'
    /\ Live(session[i])' /\ ~ Live(session[i]) => Rested(i)'
    /\ Live(session[i]) /\ Live(session[i])' /\ session'[i].code # session[i].code => Rested(i)

(* What a handler relies on of the session it works on.                      *)
Relies(r) ==
    /\ At(r, "getTtl") => Written(request[r].id)
    /\ ( \/ At(r, "getSession")
         \/ request[r].at \in {"incr", "expire", "write"} /\ Live(request[r].seen) ) =>
          /\ Written(request[r].id)
          /\ ~ InCooldown(session[request[r].id].life)
    /\ At(r, "writeBack") =>
          /\ Written(request[r].id)
          /\ \/ ~ Live(session[request[r].id])
             \/ session[request[r].id].code = request[r].seen.code
             \/ ~ InCooldown(session[request[r].id].life)

LEMMA CooldownParts ==
    CooldownInv <=> /\ Live(index) => Written(index.id)
                    /\ \A i \in Request : Live(session[i]) => Written(i)
                    /\ \A r \in Request : Relies(r)
BY DEF CooldownInv, Relies

LEMMA WrittenStays ==
    ASSUME TypeOK, Next, NEW i \in Request, Written(i)
    PROVE  Written(i)'
<1>0. request \in [Request -> RequestState] /\ request[i] \in RequestState
  BY DEF TypeOK
<1>1. CASE Tick
  BY <1>1 DEF Tick, Written
<1>2. ASSUME NEW r \in Request, Entering(r) \/ Handling(r)
      PROVE  Written(i)'
  <2>1. CASE i # r
    BY <1>2, <2>1, Moves DEF Moved, Written
  <2>2. CASE i = r
    <3>1. At(r, "publish") \/ At(r, "sendOtp")
      BY <1>2, <2>2, Moves DEF Moved, Written, At
    <3>2. Publish(r) \/ SendOtp(r) \/ Crash(r)
      BY <1>2, <3>1 DEF Entering, Handling, Create, Confirm, Use, GetIndex, CheckCooldown,
         GetExisting, Increment, SetExpiry, Write, CheckGuess, WriteBack, DeleteSession,
         IssueToken, GetToken, DeleteToken, At
    <3> QED BY <1>0, <2>2, <3>2 DEF Publish, SendOtp, Crash, Goto, End, Written, RequestState
  <2> QED BY <2>1, <2>2
<1> QED BY <1>1, <1>2, NextCases

(* Time only takes from a life.                                              *)
LEMMA AgedRests ==
    ASSUME NEW s \in SessionData
    PROVE  /\ ~ InCooldown(s.life) => ~ InCooldown(Aged(s, NoSession).life)
           /\ Live(Aged(s, NoSession)) => Live(s) /\ Aged(s, NoSession).code = s.code
<1>0. s.life \in Never..TTL
  BY DEF SessionData
<1>1. CASE s.life = 1
  BY <1>1 DEF Aged, NoSession, Live, InCooldown, Gone
<1>2. CASE s.life > 1
  <2>1. Aged(s, NoSession) = [s EXCEPT !.life = @ - 1]
    BY <1>0, <1>2, KeyTypes DEF Never, Aged
  <2>2. Aged(s, NoSession).life = s.life - 1 /\ Aged(s, NoSession).code = s.code
    BY <2>1 DEF SessionData
  <2>3. Live(s)
    BY <1>2 DEF Live, Gone
  <2>4. ~ InCooldown(s.life) => ~ InCooldown(s.life - 1)
    BY <1>0, <1>2, KeyTypes DEF InCooldown, Never
  <2> QED BY <2>2, <2>3, <2>4
<1>3. CASE s.life # 1 /\ ~ (s.life > 1)
  BY <1>3 DEF Aged
<1> QED BY <1>1, <1>2, <1>3

(* A session that is written over keeps its life, or does not expire.        *)
LEMMA KeptRests ==
    ASSUME NEW s \in SessionData
    PROVE  /\ Live(s) => KeptLife(s) = s.life
           /\ ~ Live(s) => ~ InCooldown(KeptLife(s))
           /\ ~ InCooldown(s.life) => ~ InCooldown(KeptLife(s))
BY DEF KeptLife, InCooldown, Never

(* The steps that write sessions: which one, and what with.                  *)
LEMMA SessionWrites ==
    ASSUME TypeOK, VerificationInv, NEW r \in Request, Entering(r) \/ Handling(r)
    PROVE  \/ Write(r) \/ WriteBack(r) \/ DeleteSession(r)
           \/ UNCHANGED <<session, index>>
BY DEF Entering, Handling, Create, Confirm, Use, GetIndex, CheckCooldown,
       GetExisting, Increment, SetExpiry, Publish, SendOtp, CheckGuess,
       IssueToken, GetToken, DeleteToken, Crash

LEMMA WriteEffect ==
    ASSUME TypeOK, VerificationInv, NEW r \in Request, Write(r)
    PROVE  /\ request'[r].at = "publish"
           /\ \/ /\ ~ Live(request[r].seen)
                 /\ session' = [session EXCEPT ![r] = NewSession(r)]
                 /\ index'.id = r
              \/ /\ Live(request[r].seen) /\ request[r].id \in Request
                 /\ index'.id = request[r].id
                 /\ session'[request[r].id].life = KeptLife(session[request[r].id])
                 /\ \A i \in Request \ {request[r].id} : session'[i] = session[i]
<1>0. request \in [Request -> RequestState] /\ session \in [Request -> SessionData]
  BY DEF TypeOK
<1>1. request'[r].at = "publish"
  BY <1>0 DEF Write, RequestState
<1>2. CASE ~ Live(request[r].seen)
  BY <1>1, <1>2 DEF Write
<1>3. CASE Live(request[r].seen)
  <2>1. request[r].id \in Request
    BY <1>3 DEF Write, At, VerificationInv, HandlerInv
  <2>2. /\ session' = [session EXCEPT ![request[r].id] = NewSession(r)]
        /\ index'.id = request[r].id
    BY <1>3 DEF Write
  <2>3. NewSession(r).life = KeptLife(session[request[r].id])
    BY <1>3 DEF NewSession
  <2> QED BY <1>0, <1>1, <1>3, <2>1, <2>2, <2>3
<1> QED BY <1>2, <1>3

LEMMA WriteBackEffect ==
    ASSUME TypeOK, VerificationInv, NEW r \in Request, WriteBack(r)
    PROVE  /\ request'[r].at = "over"
           /\ request[r].id \in Request /\ index'.id = request[r].id
           /\ session'[request[r].id].life = KeptLife(session[request[r].id])
           /\ session'[request[r].id].code = request[r].seen.code
           /\ \A i \in Request \ {request[r].id} : session'[i] = session[i]
<1>0. /\ request \in [Request -> RequestState] /\ session \in [Request -> SessionData]
      /\ request[r].seen \in SessionData
  BY DEF TypeOK, RequestState
<1>1. request[r].id \in Request
  BY DEF WriteBack, At, VerificationInv, HandlerInv
<1> DEFINE data == [request[r].seen EXCEPT !.life = KeptLife(session[request[r].id]),
                                           !.attempts = @ + 1]
<1>2. session' = [session EXCEPT ![request[r].id] = data] /\ index'.id = request[r].id
  BY DEF WriteBack
<1>3. data.life = KeptLife(session[request[r].id]) /\ data.code = request[r].seen.code
  BY <1>0 DEF SessionData
<1>4. request'[r].at = "over"
  BY <1>0 DEF WriteBack, End, RequestState
<1> QED BY <1>0, <1>1, <1>2, <1>3, <1>4

LEMMA SessionStep ==
    ASSUME TypeOK, VerificationInv, CooldownInv, Next, NEW i \in Request, Written(i)
    PROVE  SessionAges(i)
<1>0. session \in [Request -> SessionData] /\ session[i] \in SessionData
  BY DEF TypeOK
<1>1. CASE Tick
  <2>1. session'[i] = Aged(session[i], NoSession)
    BY <1>1 DEF Tick
  <2> QED BY <1>0, <2>1, AgedRests DEF SessionAges, Rested, Live
<1>2. ASSUME NEW r \in Request, Entering(r) \/ Handling(r)
      PROVE  SessionAges(i)
  <2>1. CASE UNCHANGED <<session, index>>
    BY <2>1 DEF SessionAges, Rested, Live
  <2>2. CASE session'[i] = session[i]
    BY <2>2 DEF SessionAges, Rested, Live
  <2>3. CASE Write(r)
    <3>1. i # r
      BY <2>3 DEF Write, Written, At
    <3>2. CASE ~ Live(request[r].seen)
      BY <2>2, <2>3, <3>1, <3>2, <1>0, WriteEffect
    <3>3. CASE Live(request[r].seen) /\ i = request[r].id
      <4>1. Rested(i)
        BY <2>3, <3>3 DEF Write, At, CooldownInv, Rested
      <4>2. session'[i].life = KeptLife(session[i])
        BY <2>3, <3>3, WriteEffect
      <4> QED BY <1>0, <4>1, <4>2, KeptRests DEF SessionAges, Rested
    <3> QED BY <2>2, <2>3, <3>2, <3>3, WriteEffect
  <2>4. CASE WriteBack(r) /\ i = request[r].id
    <3>1. /\ session'[i].life = KeptLife(session[i])
          /\ session'[i].code = request[r].seen.code
      BY <2>4, WriteBackEffect
    <3>2. ~ Live(session[i]) \/ session[i].code = request[r].seen.code \/ Rested(i)
      BY <2>4 DEF WriteBack, At, CooldownInv, Rested
    <3>3. ~ Live(session[i]) => Rested(i)'
      BY <1>0, <3>1, KeptRests DEF Rested
    <3>4. Rested(i) => Rested(i)'
      BY <1>0, <3>1, KeptRests DEF Rested
    <3> QED BY <3>1, <3>2, <3>3, <3>4 DEF SessionAges
  <2>5. CASE DeleteSession(r) /\ i = request[r].id
    BY <1>0, <2>5 DEF DeleteSession, NoSession, SessionAges, Rested, InCooldown, Live, Gone
  <2> QED BY <1>0, <1>2, <2>1, <2>2, <2>3, <2>4, <2>5, SessionWrites, WriteBackEffect
             DEF DeleteSession
<1> QED BY <1>1, <1>2, NextCases

(* A handler that a step leaves alone still relies on what it found.         *)
LEMMA OthersRely ==
    ASSUME TypeOK, VerificationInv, CooldownInv, Next,
           NEW q \in Request, request'[q] = request[q]
    PROVE  Relies(q)'
<1> DEFINE i == request[q].id
<1>0. Relies(q) /\ HandlerInv(q)
  BY CooldownParts DEF VerificationInv
<1>1. At(q, "getTtl") \/ At(q, "getSession") \/ At(q, "writeBack")
      \/ (request[q].at \in {"incr", "expire", "write"} /\ Live(request[q].seen))
        => i \in Request
  BY <1>0 DEF HandlerInv, At
<1>2. i \in Request /\ Written(i) => Written(i)'
  BY WrittenStays
<1>3. i \in Request /\ Written(i) => SessionAges(i)
  BY SessionStep
<1>4. At(q, "getTtl") => Written(i)'
  BY <1>0, <1>1, <1>2 DEF Relies
<1>5. ( \/ At(q, "getSession")
        \/ request[q].at \in {"incr", "expire", "write"} /\ Live(request[q].seen) ) =>
          Written(i)' /\ Rested(i)'
  BY <1>0, <1>1, <1>2, <1>3 DEF Relies, SessionAges, Rested
<1>6. At(q, "writeBack") =>
          /\ Written(i)'
          /\ ~ Live(session[i])' \/ session'[i].code = request[q].seen.code \/ Rested(i)'
  <2> SUFFICES ASSUME At(q, "writeBack")
               PROVE  /\ Written(i)'
                      /\ \/ ~ Live(session[i])' \/ session'[i].code = request[q].seen.code
                         \/ Rested(i)'
    OBVIOUS
  <2>1. Written(i) /\ Written(i)' /\ SessionAges(i)
    BY <1>0, <1>1, <1>2, <1>3 DEF Relies
  <2>2. ~ Live(session[i]) \/ session[i].code = request[q].seen.code \/ Rested(i)
    BY <1>0 DEF Relies, Rested
  <2> QED BY <2>1, <2>2 DEF SessionAges
<1> QED BY <1>4, <1>5, <1>6 DEF Relies, At, Written, Live, Rested

(* The handler that moves.                                                   *)
LEMMA MoverRelies ==
    ASSUME TypeOK, VerificationInv, CooldownInv, NEW r \in Request, Entering(r) \/ Handling(r)
    PROVE  Relies(r)'
<1>0. /\ request \in [Request -> RequestState] /\ request[r] \in RequestState
      /\ Relies(r) /\ HandlerInv(r)
  BY CooldownParts DEF TypeOK, VerificationInv
<1>1. ASSUME request'[r].at \notin {"getTtl", "getSession", "incr", "expire", "write",
                                    "writeBack"}
      PROVE  Relies(r)'
  BY <1>1 DEF Relies, At
<1>2. CASE Entering(r)
  <2>1. request'[r].at \in {"getIndex", "check", "getToken"}
    BY <1>0, <1>2 DEF Entering, Create, Confirm, Use, NotServed
  <2> QED BY <1>1, <2>1
<1>3. CASE GetIndex(r)
  <2>1. /\ request'[r].seen = request[r].seen /\ ~ Live(request[r].seen)
        /\ request'[r].id = index.id /\ index' = index
        /\ request'[r].at = IF Live(index) THEN "getTtl" ELSE "incr"
    BY <1>0, <1>3 DEF GetIndex, HandlerInv, RequestState
  <2>2. Live(index) => Written(index.id) /\ index.id \in Request
    BY DEF CooldownInv, VerificationInv, KeysInv
  <2>3. Live(index) => index.id # r
    BY <1>3, <2>2 DEF GetIndex, Written, At
  <2>4. Live(index) => Written(index.id)'
    BY <1>0, <1>3, <2>2, <2>3 DEF GetIndex, Written
  <2>5. CASE Live(index)
    BY <2>1, <2>4, <2>5 DEF Relies, At, Written
  <2>6. CASE ~ Live(index)
    BY <2>1, <2>6 DEF Relies, At, Live
  <2> QED BY <2>5, <2>6
<1>4. CASE CheckCooldown(r)
  <2>1. CASE InCooldown(session[request[r].id].life)
    BY <1>0, <1>1, <1>4, <2>1 DEF CheckCooldown, End, RequestState
  <2>2. CASE ~ InCooldown(session[request[r].id].life)
    <3> DEFINE i == request[r].id
    <3>1. i \in Request /\ Written(i) /\ i # r
      BY <1>0, <1>4 DEF CheckCooldown, HandlerInv, Relies, At, Written
    <3>2. /\ request'[r].at = "getSession" /\ request'[r].id = i
          /\ request'[i] = request[i] /\ session' = session
      BY <1>0, <1>4, <2>2, <3>1 DEF CheckCooldown, Goto, RequestState
    <3> QED BY <2>2, <3>1, <3>2 DEF Relies, At, Written
  <2> QED BY <2>1, <2>2
<1>5. CASE GetExisting(r)
  <2> DEFINE i == request[r].id
  <2>1. i \in Request /\ Written(i) /\ i # r /\ ~ InCooldown(session[i].life)
    BY <1>0, <1>5 DEF GetExisting, HandlerInv, Relies, At, Written
  <2>2. CASE Live(session[i]) /\ Exhausted(session[i])
    BY <1>0, <1>1, <1>5, <2>2 DEF GetExisting, End, RequestState
  <2>3. CASE ~ (Live(session[i]) /\ Exhausted(session[i]))
    <3>1. /\ request'[r].at = "incr" /\ request'[r].id = i
          /\ request'[i] = request[i] /\ session' = session
      BY <1>0, <1>5, <2>1, <2>3 DEF GetExisting, RequestState
    <3> QED BY <2>1, <3>1 DEF Relies, At, Written
  <2> QED BY <2>2, <2>3
<1>6. CASE Increment(r) \/ SetExpiry(r)
  <2> DEFINE i == request[r].id
  <2>1. /\ request'[r].at \in {"expire", "write", "over"}
        /\ request'[r].id = i /\ request'[r].seen = request[r].seen
        /\ session' = session /\ \A q \in Request \ {r} : request'[q] = request[q]
        /\ request[r].at \in {"incr", "expire"}
    BY <1>0, <1>6 DEF Increment, SetExpiry, Goto, End, At, RequestState
  <2>2. CASE Live(request[r].seen)
    <3>1. i \in Request /\ Written(i) /\ i # r /\ ~ InCooldown(session[i].life)
      BY <1>0, <2>1, <2>2 DEF HandlerInv, Relies, Written
    <3> QED BY <2>1, <3>1 DEF Relies, At, Written
  <2>3. CASE ~ Live(request[r].seen)
    BY <2>1, <2>3 DEF Relies, At, Live
  <2> QED BY <2>2, <2>3
<1>7. CASE Write(r) \/ Publish(r) \/ SendOtp(r)
  <2>1. request'[r].at \in {"publish", "sendOtp", "over"}
    BY <1>0, <1>7 DEF Write, Publish, SendOtp, Goto, End, RequestState
  <2> QED BY <1>1, <2>1
<1>8. CASE CheckGuess(r)
  <2> DEFINE i == request[r].id
             found == session[i]
  <2>1. i \in Request /\ (Live(found) => Written(i))
    BY <1>0, <1>8 DEF CheckGuess, HandlerInv, At, CooldownInv
  <2>2. CASE ~ Live(found) \/ Exhausted(found) \/ request[r].guess = found.code
    <3>1. request'[r].at \in {"over", "delSession"}
      BY <1>0, <1>8, <2>2 DEF CheckGuess, End, RequestState
    <3> QED BY <1>1, <3>1
  <2>3. CASE Live(found) /\ ~ Exhausted(found) /\ request[r].guess # found.code
    <3>1. i # r
      BY <1>8, <2>1, <2>3 DEF CheckGuess, At, Written
    <3>2. /\ request'[r].at = "writeBack" /\ request'[r].id = i /\ request'[r].seen = found
          /\ request'[i] = request[i] /\ session' = session
      BY <1>0, <1>8, <2>1, <2>3, <3>1 DEF CheckGuess, RequestState
    <3> QED BY <2>1, <2>3, <3>2 DEF Relies, At, Written
  <2> QED BY <2>2, <2>3
<1>9. CASE WriteBack(r) \/ DeleteSession(r) \/ IssueToken(r)
  <2>1. request'[r].at \in {"over", "setToken"}
    BY <1>0, <1>9 DEF WriteBack, DeleteSession, IssueToken, Goto, End, RequestState
  <2> QED BY <1>1, <2>1
<1>10. CASE GetToken(r) \/ DeleteToken(r) \/ Crash(r)
  <2>1. request'[r].at \in {"over", "delToken"}
    BY <1>0, <1>10 DEF GetToken, DeleteToken, Crash, Goto, End, RequestState
  <2> QED BY <1>1, <2>1
<1> QED BY <1>2, <1>3, <1>4, <1>5, <1>6, <1>7, <1>8, <1>9, <1>10 DEF Handling

(* Only written sessions are stored, and pointed to.                         *)
LEMMA StoredWritten ==
    ASSUME TypeOK, VerificationInv, CooldownInv, Next
    PROVE  /\ Live(index)' => Written(index.id)'
           /\ \A i \in Request : Live(session[i])' => Written(i)'
<1>0. /\ session \in [Request -> SessionData]
      /\ Live(index) => index.id \in Request
  BY DEF TypeOK, VerificationInv, KeysInv
<1>1. \A i \in Request : Written(i) => Written(i)'
  BY WrittenStays
<1>2. CASE Tick
  <2>1. Live(index)' => Live(index) /\ index'.id = index.id
    <3>1. index' = Aged(index, NoIndex) /\ index \in [life: Never..TTL, id: Code]
      BY <1>2 DEF Tick, TypeOK
    <3>2. Live(NoIndex) = FALSE
      BY DEF Live, NoIndex
    <3>3. index.life > 1 => Live(index)
      BY DEF Live, Gone
    <3> QED BY <3>1, <3>2, <3>3 DEF Aged, Live
  <2>2. \A i \in Request : session'[i] = Aged(session[i], NoSession)
    BY <1>2 DEF Tick
  <2>3. \A i \in Request : Live(session[i])' => Live(session[i])
    BY <1>0, <2>2, AgedRests DEF Live
  <2>4. \A i \in Request : Live(session[i])' => Written(i)'
    BY <1>1, <2>3 DEF CooldownInv
  <2>5. \A i \in Request : Written(i)' <=> request[i].at \in {"publish", "sendOtp", "over"}
    BY <1>2 DEF Tick, Written
  <2> QED BY <1>0, <2>1, <2>4, <2>5 DEF CooldownInv, Written
<1>3. ASSUME NEW r \in Request, Entering(r) \/ Handling(r)
      PROVE  /\ Live(index)' => index'.id \in Request /\ request'[index'.id].at
                                  \in {"publish", "sendOtp", "over"}
             /\ \A i \in Request : Live(session[i])' => Written(i)'
  <2>0. \A i \in Request : Written(i) => request'[i].at \in {"publish", "sendOtp", "over"}
    BY <1>1 DEF Written
  <2>1. CASE UNCHANGED <<session, index>>
    BY <1>0, <1>1, <2>0, <2>1 DEF CooldownInv, Live
  <2>2. CASE Write(r)
    <3>1. request'[r].at = "publish"
      BY <2>2, WriteEffect
    <3>2. Live(request[r].seen) => Written(request[r].id)
      BY <2>2 DEF Write, At, CooldownInv
    <3>3. \A i \in Request : Live(session[i])' => Live(session[i]) \/ i = r \/ Written(i)
      BY <1>0, <2>2, <3>2, WriteEffect DEF Live
    <3>4. \A i \in Request : Live(session[i])' => Written(i)'
      BY <1>1, <3>1, <3>3 DEF CooldownInv, Written
    <3> QED BY <2>0, <2>2, <3>1, <3>2, <3>4, WriteEffect
  <2>3. CASE WriteBack(r)
    <3>1. Written(request[r].id)
      BY <2>3 DEF WriteBack, At, CooldownInv
    <3>2. \A i \in Request : Live(session[i])' => Live(session[i]) \/ Written(i)
      BY <2>3, <3>1, WriteBackEffect DEF Live
    <3>3. \A i \in Request : Live(session[i])' => Written(i)'
      BY <1>1, <3>2 DEF CooldownInv
    <3> QED BY <2>0, <2>3, <3>1, <3>3, WriteBackEffect
  <2>4. CASE DeleteSession(r)
    <3>1. ~ Live(index)'
      BY <2>4 DEF DeleteSession, NoIndex, Live
    <3>2. \A i \in Request : Live(session[i])' => Live(session[i])
      BY <1>0, <2>4 DEF DeleteSession, NoSession, Live
    <3> QED BY <1>1, <3>1, <3>2 DEF CooldownInv
  <2> QED BY <1>3, <2>1, <2>2, <2>3, <2>4, SessionWrites
<1> QED BY <1>2, <1>3, NextCases DEF Written

LEMMA CooldownStep ==
    ASSUME TypeOK, VerificationInv, CooldownInv, Next
    PROVE  CooldownInv'
<1>1. \A q \in Request : Relies(q)'
  <2>1. CASE Tick
    BY <2>1, OthersRely DEF Tick
  <2>2. ASSUME NEW r \in Request, Entering(r) \/ Handling(r), NEW q \in Request
        PROVE  Relies(q)'
    BY <2>2, OthersRely, MoverRelies, Moves DEF Moved
  <2> QED BY <2>1, <2>2, NextCases
<1> QED BY <1>1, StoredWritten DEF CooldownInv, Relies, Written

(* The life of a session is read, and some commands later its code replaced: *)
(* what was read stays true enough, since a session that is written once is  *)
(* only ever written over with the life it has.                              *)
THEOREM CooldownInvariant == Spec => []CooldownInv
<1>1. Init => CooldownInv
  BY DEF Init, CooldownInv, NoIndex, NoSession, NotServed, Live, At
<1>2. TypeOK /\ VerificationInv /\ CooldownInv /\ [Next]_vars => CooldownInv'
  <2>1. ASSUME CooldownInv, UNCHANGED vars PROVE CooldownInv'
    BY <2>1 DEF vars, CooldownInv, Live, At, Written
  <2> QED BY <2>1, CooldownStep
<1> QED BY <1>1, <1>2, VerificationInvariant, PTL DEF Spec

(* A code is replaced only when its session is out of the cooldown, whatever *)
(* creations and wrong guesses of the contact run at once (services/         *)
(* verifications.py:41-83).                                                  *)
THEOREM CooldownHolds == Spec => CodeOutlivesCooldown
<1> DEFINE Outlives(i) ==
             /\ session[i].life > 0
             /\ Live(session'[i]) /\ session'[i].code # session[i].code
             => TTL - session[i].life >= Cooldown
<1>1. TypeOK /\ VerificationInv /\ CooldownInv /\ [Next]_vars =>
        [\A i \in Request : Outlives(i)]_vars
  <2>1. ASSUME TypeOK, VerificationInv, CooldownInv, Next, NEW i \in Request PROVE Outlives(i)
    <3>0. session[i] \in SessionData /\ session[i].life \in Never..TTL
      BY <2>1 DEF TypeOK, SessionData
    <3>1. session[i].life > 0 => Live(session[i]) /\ Written(i)
      BY <2>1 DEF Live, Gone, CooldownInv
    <3>2. session[i].life > 0 /\ Live(session[i])' /\ session'[i].code # session[i].code
            => Rested(i)
      BY <2>1, <3>1, SessionStep DEF SessionAges
    <3> QED BY <3>0, <3>2, KeyTypes DEF Rested, InCooldown, Live, Never
  <2> QED BY <2>1
<1> QED BY <1>1, VerificationInvariant, CooldownInvariant, PTL DEF Spec, CodeOutlivesCooldown
-----------------------------------------------------------------------------
(* Verification implements ContactProof.                                     *)

Creating == {"getIndex", "getTtl", "getSession", "incr", "expire", "write"}

(* What OriginInv says of a handler.                                         *)
Honest(r) ==
    /\ At(r, "new") => request[r].op = "none"
    /\ request[r].op = "create" => request[r].action \in Action
    /\ request[r].at \in Creating => Asked(r)
    /\ At(r, "writeBack") => Asked(request[r].seen.code)
    /\ request[r].guess \in inbox \cup {None}
    /\ request[r].outcome = "confirmed" => request[r].guess \in inbox

LEMMA OriginParts ==
    OriginInv <=> /\ \A i \in Request : Live(session[i]) => Asked(session[i].code)
                  /\ \A c \in inbox : Asked(c)
                  /\ \A r \in Request : Honest(r)
BY DEF OriginInv, Honest, Creating

(* A handler keeps what its request states, and a handler that had not       *)
(* ended had no outcome.                                                     *)
LEMMA HandlerKeeps ==
    ASSUME TypeOK, VerificationInv, NEW r \in Request, Handling(r)
    PROVE  /\ ~ At(r, "new") /\ request[r].outcome = "none"
           /\ request'[r].op = request[r].op
           /\ request'[r].action = request[r].action
           /\ request'[r].guess = request[r].guess
           /\ request'[r].outcome = "confirmed" => IssueToken(r)
           /\ request'[r].outcome = "used" => DeleteToken(r)
           /\ request'[r].at \in Creating => request[r].at \in Creating
           /\ request'[r].at = "writeBack" => CheckGuess(r)
<1>0. /\ request \in [Request -> RequestState] /\ request[r] \in RequestState
      /\ request[r].outcome # "none" => At(r, "over")
  BY DEF TypeOK, VerificationInv, HandlerInv
<1>1. ~ At(r, "over")
  BY Moves DEF Moved
<1>2. request[r].outcome = "none"
  BY <1>0, <1>1
<1>3. CASE GetIndex(r) \/ CheckCooldown(r) \/ GetExisting(r)
  BY <1>0, <1>2, <1>3 DEF GetIndex, CheckCooldown, GetExisting, Goto, End, At, RequestState,
                          Creating
<1>4. CASE Increment(r) \/ SetExpiry(r)
  BY <1>0, <1>2, <1>4 DEF Increment, SetExpiry, Goto, End, At, RequestState, Creating
<1>5. CASE Write(r) \/ Publish(r) \/ SendOtp(r)
  BY <1>0, <1>2, <1>5 DEF Write, Publish, SendOtp, Goto, End, At, RequestState, Creating
<1>6. CASE CheckGuess(r) \/ WriteBack(r) \/ DeleteSession(r)
  BY <1>0, <1>2, <1>6 DEF CheckGuess, WriteBack, DeleteSession, Goto, End, At, RequestState,
                          Creating
<1>7. CASE IssueToken(r)
  BY <1>0, <1>2, <1>7 DEF IssueToken, End, At, RequestState, Creating
<1>8. CASE DeleteToken(r)
  BY <1>0, <1>2, <1>8 DEF DeleteToken, End, At, RequestState, Creating
<1>9. CASE GetToken(r) \/ Crash(r)
  BY <1>0, <1>2, <1>9 DEF GetToken, Crash, Goto, End, At, RequestState, Creating
<1> QED BY <1>3, <1>4, <1>5, <1>6, <1>7, <1>8, <1>9 DEF Handling

LEMMA AskedStays ==
    ASSUME TypeOK, VerificationInv, OriginInv, Next, NEW c, Asked(c)
    PROVE  Asked(c)'
<1>1. CASE Tick
  BY <1>1 DEF Tick, Asked
<1>2. ASSUME NEW r \in Request, Entering(r) \/ Handling(r)
      PROVE  Asked(c)'
  <2>1. CASE c # r
    BY <1>2, <2>1, Moves DEF Moved, Asked
  <2>2. CASE c = r
    <3>1. ~ At(r, "new")
      BY <2>2 DEF Asked, OriginInv
    <3>2. Handling(r)
      BY <1>2, <3>1 DEF Entering, Create, Confirm, Use
    <3> QED BY <2>2, <3>2, HandlerKeeps DEF Asked
  <2> QED BY <2>1, <2>2
<1> QED BY <1>1, <1>2, NextCases

(* What is written to a session is the code of the creation that writes it,  *)
(* or one that was there.                                                    *)
LEMMA StoredAsked ==
    ASSUME TypeOK, VerificationInv, OriginInv, Next, NEW i \in Request, Live(session'[i])
    PROVE  Asked(session[i].code)'
<1>0. session \in [Request -> SessionData] /\ session[i] \in SessionData
  BY DEF TypeOK
<1>1. PICK c : c = session'[i].code
  OBVIOUS
<1>2. Live(session[i]) /\ c = session[i].code => Asked(c)
  BY DEF OriginInv
<1>3. Tick => Asked(c)
  <2>1. Tick => session'[i] = Aged(session[i], NoSession)
    BY DEF Tick
  <2> QED BY <1>0, <1>1, <1>2, <2>1, AgedRests
<1>4. ASSUME NEW r \in Request, Entering(r) \/ Handling(r)
      PROVE  Asked(c)
  <2>1. CASE session'[i] = session[i]
    BY <1>1, <1>2, <2>1
  <2>2. CASE Write(r)
    <3>1. Asked(r)
      BY <2>2 DEF OriginInv, Write, At
    <3>2. NewSession(r).code = r
      BY DEF NewSession
    <3>3. CASE session'[i] # session[i]
      <4>1. session'[i] = NewSession(r)
        BY <1>0, <2>2, <3>3 DEF Write
      <4> QED BY <1>1, <3>1, <3>2, <4>1
    <3> QED BY <2>1, <3>3
  <2>3. CASE WriteBack(r)
    <3>1. Asked(request[r].seen.code)
      BY <2>3 DEF OriginInv, WriteBack, At
    <3> QED BY <1>1, <2>1, <2>3, <3>1, WriteBackEffect
  <2>4. CASE DeleteSession(r)
    BY <1>0, <2>1, <2>4 DEF DeleteSession, NoSession, Live
  <2> QED BY <1>4, <2>1, <2>2, <2>3, <2>4, SessionWrites
<1>5. Asked(c)
  BY <1>3, <1>2, <1>4, NextCases
<1>6. Asked(c)'
  BY <1>5, AskedStays
<1> QED BY <1>1, <1>6 DEF Asked

LEMMA MailedAsked ==
    ASSUME TypeOK, VerificationInv, OriginInv, Next
    PROVE  inbox \subseteq inbox' /\ \A c \in inbox' : Asked(c)'
<1>1. inbox \subseteq inbox' /\ \A c \in inbox' : Asked(c)
  <2>1. CASE UNCHANGED inbox
    BY <2>1 DEF OriginInv
  <2>2. ASSUME NEW r \in Request, SendOtp(r)
        PROVE  inbox \subseteq inbox' /\ \A c \in inbox' : Asked(c)
    <3>1. request[r].id \in Request
      BY <2>2 DEF SendOtp, At, VerificationInv, HandlerInv
    <3> QED BY <2>2, <3>1 DEF SendOtp, OriginInv
  <2>3. ASSUME NEW r \in Request, Entering(r) \/ Handling(r)
        PROVE  SendOtp(r) \/ UNCHANGED inbox
    BY <2>3 DEF Entering, Handling, Create, Confirm, Use, GetIndex, CheckCooldown, GetExisting,
       Increment, SetExpiry, Write, Publish, CheckGuess, WriteBack, DeleteSession, IssueToken,
       GetToken, DeleteToken, Crash
  <2>4. CASE Tick
    BY <2>1, <2>4 DEF Tick
  <2> QED BY <2>1, <2>2, <2>3, <2>4, NextCases
<1> QED BY <1>1, AskedStays

(* Whoever is confirmed had guessed the code of the session, not a wrong one *)
(* (None), and what is not wrong was mailed.                                 *)
LEMMA GuessMailed ==
    ASSUME TypeOK, VerificationInv, OriginInv, NEW r \in Request, IssueToken(r)
    PROVE  request[r].guess \in inbox /\ request[r].guess \in Request
<1>1. request[r].guess = request[r].seen.code /\ Sound(request[r].seen, request[r].id)
  BY DEF IssueToken, At, VerificationInv, HandlerInv
<1>2. request[r].guess \in Request
  BY <1>1 DEF Sound, Requested
<1>3. request[r].guess # None
  BY <1>2, VerificationAssumption
<1> QED BY <1>2, <1>3 DEF OriginInv

LEMMA OthersHonest ==
    ASSUME TypeOK, VerificationInv, OriginInv, Next, NEW q \in Request, request'[q] = request[q]
    PROVE  Honest(q)'
<1>1. Honest(q)
  BY OriginParts
<1>2. inbox \subseteq inbox'
  BY MailedAsked
<1>3. Asked(q) => Asked(q)'
  BY AskedStays
<1>4. PICK c : c = request[q].seen.code
  OBVIOUS
<1>5. Asked(c) => Asked(c)'
  BY AskedStays
<1>6. At(q, "writeBack") => Asked(c)'
  BY <1>1, <1>4, <1>5 DEF Honest
<1>7. At(q, "writeBack")' => Asked(request[q].seen.code)'
  BY <1>4, <1>6 DEF At, Asked
<1> QED BY <1>1, <1>2, <1>3, <1>7 DEF Honest, At

LEMMA MoverHonest ==
    ASSUME TypeOK, VerificationInv, OriginInv, Next, NEW r \in Request, Entering(r) \/ Handling(r)
    PROVE  Honest(r)'
<1>0. request \in [Request -> RequestState] /\ Honest(r) /\ inbox \subseteq inbox'
  BY OriginParts, MailedAsked DEF TypeOK
<1>1. ASSUME NEW a \in Action, Create(r, a)
      PROVE  Honest(r)'
  <2>1. request'[r] = [NotServed EXCEPT !.op = "create", !.at = "getIndex", !.action = a]
    BY <1>0, <1>1 DEF Create
  <2> QED BY <2>1 DEF Honest, Asked, At, NotServed
<1>2. ASSUME NEW i \in Request, NEW c \in inbox \cup {None}, Confirm(r, i, c)
      PROVE  Honest(r)'
  <2>1. request'[r] = [NotServed EXCEPT !.op = "confirm", !.at = "check", !.id = i, !.guess = c]
    BY <1>0, <1>2 DEF Confirm
  <2> QED BY <1>0, <1>2, <2>1 DEF Honest, At, NotServed, Creating
<1>3. ASSUME NEW k \in Request, NEW a \in Action, Use(r, k, a)
      PROVE  Honest(r)'
  <2>1. request'[r] = [NotServed EXCEPT !.op = "use", !.at = "getToken", !.id = k, !.action = a]
    BY <1>0, <1>3 DEF Use
  <2> QED BY <2>1 DEF Honest, At, NotServed, Creating
<1>4. CASE Handling(r)
  <2>1. /\ ~ At(r, "new") /\ ~ At(r, "new")'
        /\ request'[r].op = request[r].op
        /\ request'[r].action = request[r].action
        /\ request'[r].guess = request[r].guess
        /\ request'[r].outcome = "confirmed" => IssueToken(r)
        /\ request'[r].at \in Creating => request[r].at \in Creating
        /\ request'[r].at = "writeBack" => CheckGuess(r)
    BY <1>4, HandlerKeeps, Moves DEF Moved, At
  <2>2. request'[r].at \in Creating => Asked(r)'
    BY <1>0, <2>1, AskedStays DEF Honest
  <2>3. request'[r].at = "writeBack" => Asked(request[r].seen.code)'
    <3> SUFFICES ASSUME request'[r].at = "writeBack" PROVE Asked(request[r].seen.code)'
      OBVIOUS
    <3>1. CheckGuess(r)
      BY <2>1
    <3>2. request[r].id \in Request
      BY <3>1 DEF CheckGuess, At, VerificationInv, HandlerInv
    <3>3. PICK i \in Request : i = request[r].id
      BY <3>2
    <3>4. Live(session[i]) /\ request'[r].seen = session[i]
      BY <1>0, <3>1, <3>3 DEF CheckGuess, End, RequestState
    <3>5. PICK c : c = session[i].code
      OBVIOUS
    <3>6. Asked(c)
      BY <3>4, <3>5 DEF OriginInv
    <3>7. Asked(c)'
      BY <3>6, AskedStays
    <3> QED BY <3>4, <3>5, <3>7 DEF Asked
  <2>4. request'[r].outcome = "confirmed" => request'[r].guess \in inbox'
    BY <1>0, <2>1, GuessMailed
  <2> QED BY <1>0, <2>1, <2>2, <2>3, <2>4 DEF Honest, At
<1> QED BY <1>1, <1>2, <1>3, <1>4 DEF Entering

(* A code that reaches the contact, or a session, is of somebody who asked   *)
(* for one, and whoever is confirmed had it by mail.                         *)
THEOREM OriginInvariant == Spec => []OriginInv
<1>1. Init => OriginInv
  BY DEF Init, OriginInv, NoSession, NotServed, Live, At
<1>2. TypeOK /\ VerificationInv /\ OriginInv /\ [Next]_vars => OriginInv'
  <2>1. ASSUME OriginInv, UNCHANGED vars PROVE OriginInv'
    BY <2>1 DEF vars, OriginInv, Live, At, Asked
  <2>2. ASSUME TypeOK, VerificationInv, OriginInv, Next PROVE OriginInv'
    <3>1. \A i \in Request : Live(session'[i]) => Asked(session[i].code)'
      BY <2>2, StoredAsked
    <3>2. \A c \in inbox' : Asked(c)'
      BY <2>2, MailedAsked
    <3>3. \A q \in Request : Honest(q)'
      <4>1. CASE Tick
        BY <2>2, <4>1, OthersHonest DEF Tick
      <4>2. ASSUME NEW r \in Request, Entering(r) \/ Handling(r), NEW q \in Request
            PROVE  Honest(q)'
        BY <2>2, <4>2, OthersHonest, MoverHonest, Moves DEF Moved
      <4> QED BY <2>2, <4>1, <4>2, NextCases
    <3> QED BY <3>1, <3>2, <3>3 DEF OriginInv, Honest, Creating, Live
  <2> QED BY <2>1, <2>2
<1> QED BY <1>1, <1>2, VerificationInvariant, PTL DEF Spec

-----------------------------------------------------------------------------
LEMMA PromiseStutters ==
    ASSUME rate'.granted = rate.granted, inbox' = inbox,
           \A q \in Request : /\ AskedFor(q)' = AskedFor(q)
                              /\ ProvedBy(q)' = ProvedBy(q)
                              /\ DoneFor(q)' = DoneFor(q)
    PROVE  UNCHANGED Promise!vars
BY DEF Promise!vars

(* What a request shows of itself is left alone by the others.               *)
LEMMA OthersShow ==
    ASSUME NEW r \in Request, Moved(r)
    PROVE  \A q \in Request \ {r} : /\ AskedFor(q)' = AskedFor(q)
                                    /\ ProvedBy(q)' = ProvedBy(q)
                                    /\ DoneFor(q)' = DoneFor(q)
BY DEF Moved, AskedFor, ProvedBy, DoneFor

LEMMA EnteringRefines ==
    ASSUME TypeOK, VerificationInv, OriginInv, NEW r \in Request, Entering(r), Moved(r)
    PROVE  [Promise!Next]_(Promise!vars)
<1>0. request \in [Request -> RequestState] /\ UNCHANGED <<rate, inbox>>
  BY DEF TypeOK, Entering, Create, Confirm, Use
<1>1. AskedFor(r) = None /\ ProvedBy(r) = None /\ DoneFor(r) = None
  <2>1. At(r, "new") /\ request[r].op = "none"
    BY DEF Entering, Create, Confirm, Use, OriginInv
  <2>2. request[r].outcome = "none"
    BY <2>1 DEF VerificationInv, HandlerInv, At
  <2> QED BY <2>1, <2>2 DEF AskedFor, ProvedBy, DoneFor
<1>2. ASSUME NEW a \in Action, Create(r, a)
      PROVE  Promise!Ask(r, a)
  <2>1. request'[r] = [NotServed EXCEPT !.op = "create", !.at = "getIndex", !.action = a]
    BY <1>0, <1>2 DEF Create
  <2>2. AskedFor(r)' = a /\ ProvedBy(r)' = None /\ DoneFor(r)' = None
    BY <2>1 DEF NotServed, AskedFor, ProvedBy, DoneFor
  <2> QED BY <1>0, <1>1, <2>2, OthersShow DEF Promise!Ask
<1>3. ASSUME \/ \E i \in Request, c \in inbox \cup {None} : Confirm(r, i, c)
             \/ \E k \in Request, a \in Action : Use(r, k, a)
      PROVE  UNCHANGED Promise!vars
  <2>1. request'[r].op \in {"confirm", "use"} /\ request'[r].outcome = "none"
    BY <1>0, <1>3 DEF Confirm, Use, NotServed
  <2>2. AskedFor(r)' = None /\ ProvedBy(r)' = None /\ DoneFor(r)' = None
    BY <2>1 DEF AskedFor, ProvedBy, DoneFor
  <2>3. \A q \in Request : /\ AskedFor(q)' = AskedFor(q)
                           /\ ProvedBy(q)' = ProvedBy(q)
                           /\ DoneFor(q)' = DoneFor(q)
    BY <1>1, <2>2, OthersShow
  <2> QED BY <1>0, <2>3, PromiseStutters
<1> QED BY <1>2, <1>3 DEF Entering, Promise!Next

(* A command of a handler that gets no request through, mails nothing and    *)
(* ends neither a confirmation nor an operation shows nothing.               *)
LEMMA PlainShows ==
    ASSUME TypeOK, VerificationInv, NEW r \in Request, Handling(r), Moved(r),
           ~ IssueToken(r), ~ DeleteToken(r)
    PROVE  \A q \in Request : /\ AskedFor(q)' = AskedFor(q)
                              /\ ProvedBy(q)' = ProvedBy(q)
                              /\ DoneFor(q)' = DoneFor(q)
<1>1. /\ AskedFor(r)' = AskedFor(r)
      /\ ProvedBy(r)' = ProvedBy(r)
      /\ DoneFor(r)' = DoneFor(r)
  BY HandlerKeeps DEF AskedFor, ProvedBy, DoneFor
<1> QED BY <1>1, OthersShow

LEMMA IncrementRefines ==
    ASSUME TypeOK, VerificationInv, NEW r \in Request, Increment(r), Moved(r)
    PROVE  [Promise!Next]_(Promise!vars)
<1>0. /\ rate.granted \in Nat /\ rate.count \in Nat /\ rate.granted <= rate.count
      /\ MaxRequests \in Nat
  BY KeyTypes DEF TypeOK, VerificationInv, KeysInv
<1>1. \A q \in Request : /\ AskedFor(q)' = AskedFor(q)
                         /\ ProvedBy(q)' = ProvedBy(q)
                         /\ DoneFor(q)' = DoneFor(q)
  <2>1. Handling(r) /\ ~ IssueToken(r) /\ ~ DeleteToken(r)
    BY DEF Handling, Increment, IssueToken, DeleteToken, At
  <2> QED BY <2>1, PlainShows
<1>2. CASE OverLimit(rate.count + 1)
  <2>1. rate'.granted = rate.granted /\ inbox' = inbox
    BY <1>0, <1>2 DEF Increment
  <2>2. UNCHANGED Promise!vars
    BY <1>1, <2>1, PromiseStutters
  <2> QED BY <2>2
<1>3. CASE ~ OverLimit(rate.count + 1)
  <2>1. rate'.granted = rate.granted + 1 /\ inbox' = inbox /\ rate.granted < MaxRequests
    BY <1>0, <1>3 DEF Increment, OverLimit
  <2>2. Promise!Grant
    BY <1>1, <2>1 DEF Promise!Grant
  <2> QED BY <2>2 DEF Promise!Next
<1> QED BY <1>2, <1>3

LEMMA SendOtpRefines ==
    ASSUME TypeOK, VerificationInv, OriginInv, NEW r \in Request, SendOtp(r), Moved(r)
    PROVE  [Promise!Next]_(Promise!vars)
<1>0. request[r].id \in Request /\ UNCHANGED rate
  BY DEF SendOtp, At, VerificationInv, HandlerInv
<1>1. \A q \in Request : /\ AskedFor(q)' = AskedFor(q)
                         /\ ProvedBy(q)' = ProvedBy(q)
                         /\ DoneFor(q)' = DoneFor(q)
  <2>1. Handling(r) /\ ~ IssueToken(r) /\ ~ DeleteToken(r)
    BY DEF Handling, SendOtp, IssueToken, DeleteToken, At
  <2> QED BY <2>1, PlainShows
<1>2. PICK i \in Request : i = request[r].id
  BY <1>0
<1>3. CASE Live(session[i])
  <2>1. PICK c : c = session[i].code
    OBVIOUS
  <2>2. inbox' = inbox \cup {c}
    BY <1>2, <1>3, <2>1 DEF SendOtp
  <2>3. Asked(c)
    BY <1>3, <2>1 DEF OriginInv
  <2>4. c \in Request /\ AskedFor(c) # None
    BY <2>3, VerificationAssumption DEF Asked, AskedFor
  <2>5. Promise!Mail(c)
    BY <1>0, <1>1, <2>2, <2>4 DEF Promise!Mail
  <2> QED BY <2>4, <2>5 DEF Promise!Next
<1>4. CASE ~ Live(session[i])
  <2>1. inbox' = inbox
    BY <1>2, <1>4 DEF SendOtp
  <2>2. UNCHANGED Promise!vars
    BY <1>0, <1>1, <2>1, PromiseStutters
  <2> QED BY <2>2
<1> QED BY <1>3, <1>4

LEMMA IssueTokenRefines ==
    ASSUME TypeOK, VerificationInv, OriginInv, NEW r \in Request, IssueToken(r), Moved(r)
    PROVE  Promise!Next
<1>0. request \in [Request -> RequestState] /\ request[r] \in RequestState
  BY DEF TypeOK
<1>1. Handling(r) /\ UNCHANGED <<rate, inbox>>
  BY DEF Handling, IssueToken
<1>2. PICK c : c = request[r].guess
  OBVIOUS
<1>3. c \in inbox /\ c \in Request
  BY <1>2, GuessMailed
<1>4. request'[r].outcome = "confirmed"
  BY <1>0 DEF IssueToken, End, RequestState
<1>5. /\ ProvedBy(r) = None /\ ProvedBy(r)' = c
      /\ AskedFor(r)' = AskedFor(r) /\ DoneFor(r)' = DoneFor(r)
  BY <1>1, <1>2, <1>4, HandlerKeeps DEF AskedFor, ProvedBy, DoneFor
<1>6. Promise!Confirm(r, c)
  BY <1>1, <1>3, <1>5, OthersShow DEF Promise!Confirm
<1> QED BY <1>3, <1>6 DEF Promise!Next

LEMMA DeleteTokenRefines ==
    ASSUME TypeOK, VerificationInv, OriginInv, NEW r \in Request, DeleteToken(r), Moved(r)
    PROVE  Promise!Next
<1>0. /\ request \in [Request -> RequestState] /\ request[r] \in RequestState
      /\ request[r].id \in Request /\ Issued(request[r].id, request[r].action)
  BY DEF TypeOK, VerificationInv, HandlerInv, DeleteToken, At
<1>1. Handling(r) /\ UNCHANGED <<rate, inbox>>
  BY DEF Handling, DeleteToken
<1>2. PICK k \in Request : k = request[r].id
  BY <1>0
<1>3. PICK c : c = request[k].guess
  OBVIOUS
<1>4. /\ c \in Request /\ request[k].outcome = "confirmed"
      /\ request[r].action = request[c].action
  BY <1>0, <1>2, <1>3 DEF Issued, Requested, PurposeOf
<1>5. c \in inbox /\ ProvedBy(k) = c
  BY <1>3, <1>4 DEF OriginInv, ProvedBy
<1>6. AskedFor(c) = request[r].action
  BY <1>4, <1>5 DEF OriginInv, Asked, AskedFor
<1>7. request'[r].outcome = "used"
  BY <1>0 DEF DeleteToken, End, RequestState
<1>8. /\ DoneFor(r) = None /\ DoneFor(r)' = AskedFor(c)
      /\ AskedFor(r)' = AskedFor(r) /\ ProvedBy(r)' = ProvedBy(r)
  BY <1>1, <1>6, <1>7, HandlerKeeps DEF AskedFor, ProvedBy, DoneFor
<1>9. Promise!Operate(r, k)
  BY <1>1, <1>4, <1>5, <1>8, OthersShow DEF Promise!Operate
<1> QED BY <1>9 DEF Promise!Next

LEMMA TickRefines ==
    ASSUME TypeOK, VerificationInv, Tick
    PROVE  [Promise!Next]_(Promise!vars)
<1>1. \A q \in Request : /\ AskedFor(q)' = AskedFor(q)
                         /\ ProvedBy(q)' = ProvedBy(q)
                         /\ DoneFor(q)' = DoneFor(q)
  BY DEF Tick, AskedFor, ProvedBy, DoneFor
<1>2. rate'.granted = rate.granted \/ rate'.granted = 0
  BY DEF Tick, Aged, NoRate, TypeOK
<1>3. CASE rate'.granted = rate.granted
  <2>1. UNCHANGED Promise!vars
    BY <1>1, <1>3, PromiseStutters DEF Tick
  <2> QED BY <2>1
<1>4. CASE rate'.granted = 0
  <2>1. Promise!NewWindow
    BY <1>1, <1>4 DEF Tick, Promise!NewWindow
  <2> QED BY <2>1 DEF Promise!Next
<1> QED BY <1>2, <1>3, <1>4

(* Handlers that interleave, retries, expiries and deaths included, do with  *)
(* the contact only what ContactProof allows: ask, get a code through the    *)
(* limit, mail it, prove it, and act on what was proved.                     *)
THEOREM Refinement == Spec => ImplementsContactProof
<1>1. Init => Promise!Init
  <2> SUFFICES ASSUME Init PROVE Promise!Init
    OBVIOUS
  <2>1. \A r \in Request : AskedFor(r) = None /\ ProvedBy(r) = None /\ DoneFor(r) = None
    BY DEF Init, NotServed, AskedFor, ProvedBy, DoneFor
  <2> QED BY <2>1 DEF Init, NoRate, Promise!Init, Promise!Nothing
<1>2. TypeOK /\ VerificationInv /\ OriginInv /\ [Next]_vars => [Promise!Next]_(Promise!vars)
  <2>1. ASSUME UNCHANGED vars PROVE UNCHANGED Promise!vars
    <3>1. \A q \in Request : /\ AskedFor(q)' = AskedFor(q)
                             /\ ProvedBy(q)' = ProvedBy(q)
                             /\ DoneFor(q)' = DoneFor(q)
      BY <2>1 DEF vars, AskedFor, ProvedBy, DoneFor
    <3> QED BY <2>1, <3>1, PromiseStutters DEF vars
  <2>2. ASSUME TypeOK, VerificationInv, OriginInv, NEW r \in Request,
               Entering(r) \/ Handling(r)
        PROVE  [Promise!Next]_(Promise!vars)
    <3>1. Moved(r)
      BY <2>2, Moves
    <3>2. ASSUME Handling(r), UNCHANGED <<rate, inbox>>, ~ IssueToken(r), ~ DeleteToken(r)
          PROVE  UNCHANGED Promise!vars
      BY <2>2, <3>1, <3>2, PlainShows, PromiseStutters
    <3>3. CASE SetExpiry(r)
      <4>1. rate'.granted = rate.granted /\ inbox' = inbox
        BY <2>2, <3>3 DEF SetExpiry, TypeOK
      <4>2. Handling(r) /\ ~ IssueToken(r) /\ ~ DeleteToken(r)
        BY <3>3 DEF Handling, SetExpiry, IssueToken, DeleteToken, At
      <4>3. UNCHANGED Promise!vars
        BY <2>2, <3>1, <4>1, <4>2, PlainShows, PromiseStutters
      <4> QED BY <4>3
    <3>4. Handling(r) => \/ Increment(r) \/ SetExpiry(r) \/ SendOtp(r)
                         \/ IssueToken(r) \/ DeleteToken(r)
                         \/ UNCHANGED <<rate, inbox>>
      BY DEF Handling, GetIndex, CheckCooldown, GetExisting, Write, Publish, CheckGuess,
             WriteBack, DeleteSession, GetToken, Crash
    <3> QED BY <2>2, <3>1, <3>2, <3>3, <3>4, EnteringRefines, IncrementRefines,
               SendOtpRefines, IssueTokenRefines, DeleteTokenRefines
  <2> QED BY <2>1, <2>2, TickRefines, NextCases
<1> QED BY <1>1, <1>2, VerificationInvariant, OriginInvariant, PTL
        DEF Spec, ImplementsContactProof, Promise!Spec
=============================================================================
