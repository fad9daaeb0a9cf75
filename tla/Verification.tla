---------------------------- MODULE Verification ----------------------------
(* Verification of one contact (services/verifications.py): a one-time code  *)
(* is mailed, confirmed for a token, and the token spent on one operation.   *)
(* All the state is in Redis. Every command (a pipeline is a MULTI/EXEC) is  *)
(* atomic, but a handler is a sequence of commands and handlers interleave   *)
(* between them.                                                             *)
EXTENDS Integers, FiniteSets

CONSTANTS
    Request,     \* the API requests of a behaviour: each is served once
    Action,      \* VerificationActionType
    None,        \* no session id, no code; as a guess, a wrong code
    TTL,         \* VERIFICATION_TTL_SECONDS
    Cooldown,    \* VERIFICATION_COOLDOWN_SECONDS
    TokenTTL,    \* VERIFICATION_TOKEN_TTL_SECONDS
    RateTTL,     \* OTP_RATE_LIMIT_TTL_SECONDS
    MaxRequests, \* VERIFICATION_MAX_REQUEST_COUNT
    MaxChecks    \* VERIFICATION_MAX_CHECK_ATTEMPTS

ASSUME VerificationAssumption ==
    /\ None \notin Request \cup Action /\ IsFiniteSet(Request)
    /\ {TTL, Cooldown, TokenTTL, RateTTL, MaxRequests, MaxChecks} \subseteq Nat \ {0}

VARIABLES
    index,   \* verification:contact:<hash>, the contact's session
    session, \* verification:<id>; the id is the request that made it
    rate,    \* rate_limit:otp:<hash>; "granted" counts the requests let
             \* through since the key appeared (not stored by the code)
    token,   \* vtoken:<hash>; the key is the confirmation that issued it
    inbox,   \* codes mailed to the contact; a code is the request that
             \* generated it
    request  \* what each request is doing

vars == <<index, session, rate, token, inbox, request>>

(* What is left of the life of a key, as Redis tells it: -1 is a key that    *)
(* does not expire; 0 stands for no key.                                     *)
Never == -1
Gone  == 0
Live(key) == key.life # Gone

Code == Request \cup {None}

Purpose == Action \cup {None}

SessionData == [life: Never..TTL, code: Code, action: Purpose, attempts: 0..MaxChecks]

NoIndex   == [life |-> Gone, id |-> None]
NoSession == [life |-> Gone, code |-> None, action |-> None, attempts |-> 0]
NoRate    == [life |-> Gone, count |-> 0, granted |-> 0]
NoToken   == [life |-> Gone, action |-> None]

(* at: the command a handler is about to execute. action: the purpose the    *)
(* request states; id: the session or token it works on; guess: the code it  *)
(* submits; seen: the session as it read it; outcome: how it ended.          *)
RequestState ==
    [op: {"none", "create", "confirm", "use"},
     at: {"new", "getIndex", "getTtl", "getSession", "incr", "expire", "write",
          "publish", "sendOtp", "check", "writeBack", "delSession", "setToken",
          "getToken", "delToken", "over"},
     action: Purpose, id: Code, guess: Code, seen: SessionData,
     outcome: {"none", "refused", "wrong", "confirmed", "used"}]

NotServed == [op |-> "none", at |-> "new", action |-> None, id |-> None,
              guess |-> None, seen |-> NoSession, outcome |-> "none"]

TypeOK ==
    /\ index \in [life: Never..TTL, id: Code]
    /\ session \in [Request -> SessionData]
    /\ rate \in [life: Never..RateTTL, count: Nat, granted: 0..MaxRequests]
    /\ token \in [Request -> [life: Never..TokenTTL, action: Purpose]]
    /\ inbox \subseteq Request
    /\ request \in [Request -> RequestState]

Init ==
    /\ index = NoIndex
    /\ session = [i \in Request |-> NoSession]
    /\ rate = NoRate
    /\ token = [k \in Request |-> NoToken]
    /\ inbox = {}
    /\ request = [r \in Request |-> NotServed]

-----------------------------------------------------------------------------
At(r, place) == request[r].at = place

Goto(r, place) == [request EXCEPT ![r].at = place]

End(r, outcome) == [request EXCEPT ![r].at = "over", ![r].outcome = outcome]

(* SET with a time to live, and SET with KEEPTTL: a key that is not there    *)
(* (any more) is made without one.                                           *)
KeptLife(key) == IF Live(key) THEN key.life ELSE Never

-----------------------------------------------------------------------------
(* POST /verifications: create_verification.                                 *)

Create(r, action) ==
    /\ At(r, "new")
    /\ request' = [request EXCEPT ![r] = [NotServed EXCEPT
                      !.op = "create", !.at = "getIndex", !.action = action]]
    /\ UNCHANGED <<index, session, rate, token, inbox>>

GetIndex(r) ==
    /\ At(r, "getIndex")
    /\ request' = [request EXCEPT ![r].id = index.id,
                                  ![r].at = IF Live(index) THEN "getTtl" ELSE "incr"]
    /\ UNCHANGED <<index, session, rate, token, inbox>>

(* Mutant: what is left of the life is compared, not what has passed of it.  *)
InCooldownAtTheEnd(life) == life > 0 /\ life < Cooldown

(* The cooldown counts from the creation of the session, whose time to live  *)
(* a resend keeps.                                                           *)
InCooldown(life) == life > 0 /\ TTL - life < Cooldown

CheckCooldown(r) ==
    /\ At(r, "getTtl")
    /\ request' = IF InCooldown(session[request[r].id].life)
                  THEN End(r, "refused") ELSE Goto(r, "getSession")
    /\ UNCHANGED <<index, session, rate, token, inbox>>

(* Mutant: one attempt too many.                                             *)
ExhaustedTooLate(found) == found.attempts > MaxChecks

Exhausted(found) == found.attempts >= MaxChecks

GetExisting(r) ==
    /\ At(r, "getSession")
    /\ LET found == session[request[r].id]
       IN  request' = IF Live(found) /\ Exhausted(found)
                      THEN End(r, "refused")
                      ELSE [request EXCEPT ![r].seen = found, ![r].at = "incr"]
    /\ UNCHANGED <<index, session, rate, token, inbox>>

(* Mutant: one request too many is let through.                              *)
OverLimitByOne(count) == count > MaxRequests + 1

OverLimit(count) == count > MaxRequests

(* Mutant: the window is opened by the last request it lets through.         *)
IncrementExpiringLate(r) ==
    /\ At(r, "incr")
    /\ LET n == rate.count + 1
       IN  /\ rate' = [life |-> KeptLife(rate), count |-> n,
                       granted |-> rate.granted + IF OverLimit(n) THEN 0 ELSE 1]
           /\ request' = IF OverLimit(n) THEN End(r, "refused")
                         ELSE Goto(r, IF n = MaxRequests THEN "expire" ELSE "write")
    /\ UNCHANGED <<index, session, token, inbox>>

Increment(r) ==
    /\ At(r, "incr")
    /\ LET n == rate.count + 1
       IN  /\ rate' = [life |-> KeptLife(rate), count |-> n,
                       granted |-> rate.granted + IF OverLimit(n) THEN 0 ELSE 1]
           /\ request' = IF OverLimit(n) THEN End(r, "refused")
                         ELSE Goto(r, IF n = 1 THEN "expire" ELSE "write")
    /\ UNCHANGED <<index, session, token, inbox>>

SetExpiry(r) ==
    /\ At(r, "expire")
    /\ rate' = IF Live(rate) THEN [rate EXCEPT !.life = RateTTL] ELSE rate
    /\ request' = Goto(r, "write")
    /\ UNCHANGED <<index, session, token, inbox>>

(* Mutant: a resend keeps the purpose of the session with the new code.      *)
NewSessionKeepingPurpose(r) ==
    IF Live(request[r].seen)
    THEN [life |-> KeptLife(session[request[r].id]), code |-> r,
          action |-> request[r].seen.action, attempts |-> request[r].seen.attempts]
    ELSE [life |-> TTL, code |-> r, action |-> request[r].action, attempts |-> 0]

(* Mutant: a resend counts as an attempt.                                    *)
NewSessionCountingResend(r) ==
    IF Live(request[r].seen)
    THEN [life |-> KeptLife(session[request[r].id]), code |-> r,
          action |-> request[r].action, attempts |-> request[r].seen.attempts + 1]
    ELSE [life |-> TTL, code |-> r, action |-> request[r].action, attempts |-> 0]

(* A resend replaces code and purpose together and keeps the attempts read.  *)
NewSession(r) ==
    IF Live(request[r].seen)
    THEN [life |-> KeptLife(session[request[r].id]), code |-> r,
          action |-> request[r].action, attempts |-> request[r].seen.attempts]
    ELSE [life |-> TTL, code |-> r, action |-> request[r].action, attempts |-> 0]

(* update_session on the session that was read, or create_session under a    *)
(* fresh id.                                                                 *)
Write(r) ==
    /\ At(r, "write")
    /\ LET resend == Live(request[r].seen)
           i      == IF resend THEN request[r].id ELSE r
       IN  /\ session' = [session EXCEPT ![i] = NewSession(r)]
           /\ index' = [life |-> IF resend THEN KeptLife(index) ELSE TTL, id |-> i]
           /\ request' = [request EXCEPT ![r].id = i, ![r].seen = NoSession,
                                         ![r].at = "publish"]
    /\ UNCHANGED <<rate, token, inbox>>

(* send_otp_task is queued, or refused by a full queue: what was written     *)
(* stays.                                                                    *)
Publish(r) ==
    /\ At(r, "publish")
    /\ \/ request' = Goto(r, "sendOtp")
       \/ request' = End(r, "refused")
    /\ UNCHANGED <<index, session, rate, token, inbox>>

(* The worker mails the code the session has when the task runs.             *)
SendOtp(r) ==
    /\ At(r, "sendOtp")
    /\ LET found == session[request[r].id]
       IN  inbox' = IF Live(found) THEN inbox \cup {found.code} ELSE inbox
    /\ request' = End(r, "none")
    /\ UNCHANGED <<index, session, rate, token>>

-----------------------------------------------------------------------------
(* PATCH /verifications/{id}: confirm_verification with a mailed code or a   *)
(* wrong one.                                                                *)

Confirm(r, i, guess) ==
    /\ At(r, "new")
    /\ request' = [request EXCEPT ![r] = [NotServed EXCEPT
                      !.op = "confirm", !.at = "check", !.id = i, !.guess = guess]]
    /\ UNCHANGED <<index, session, rate, token, inbox>>

CheckGuess(r) ==
    /\ At(r, "check")
    /\ LET found == session[request[r].id]
       IN  request' =
              IF ~ Live(found) \/ Exhausted(found) THEN End(r, "refused")
              ELSE [request EXCEPT ![r].seen = found,
                       ![r].at = IF request[r].guess = found.code THEN "delSession"
                                                                  ELSE "writeBack"]
    /\ UNCHANGED <<index, session, rate, token, inbox>>

(* The session as it was read, with one more attempt.                        *)
WriteBack(r) ==
    /\ At(r, "writeBack")
    /\ LET i    == request[r].id
           seen == request[r].seen
       IN  /\ session' = [session EXCEPT ![i] =
                             [seen EXCEPT !.life = KeptLife(session[i]),
                                          !.attempts = @ + 1]]
           /\ index' = [life |-> KeptLife(index), id |-> i]
    /\ request' = End(r, "wrong")
    /\ UNCHANGED <<rate, token, inbox>>

DeleteSession(r) ==
    /\ At(r, "delSession")
    /\ session' = [session EXCEPT ![request[r].id] = NoSession]
    /\ index' = NoIndex
    /\ request' = Goto(r, "setToken")
    /\ UNCHANGED <<rate, token, inbox>>

IssueToken(r) ==
    /\ At(r, "setToken")
    /\ token' = [token EXCEPT ![r] =
                    [life |-> TokenTTL, action |-> request[r].seen.action]]
    /\ request' = End(r, "confirmed")
    /\ UNCHANGED <<index, session, rate, inbox>>

-----------------------------------------------------------------------------
(* verify_operation_token, called by the operations on users and passwords.  *)

Use(r, k, action) ==
    /\ At(r, "new")
    /\ request[k].outcome = "confirmed"
    /\ request' = [request EXCEPT ![r] = [NotServed EXCEPT
                      !.op = "use", !.at = "getToken", !.id = k, !.action = action]]
    /\ UNCHANGED <<index, session, rate, token, inbox>>

(* Mutant: the action type of the token is not compared.                     *)
AcceptsAnyPurpose(r) == Live(token[request[r].id])

Accepts(r) ==
    Live(token[request[r].id]) /\ token[request[r].id].action = request[r].action

GetToken(r) ==
    /\ At(r, "getToken")
    /\ request' = IF Accepts(r) THEN Goto(r, "delToken") ELSE End(r, "refused")
    /\ UNCHANGED <<index, session, rate, token, inbox>>

DeleteToken(r) ==
    /\ At(r, "delToken")
    /\ token' = [token EXCEPT ![request[r].id] = NoToken]
    /\ request' = End(r, "used")
    /\ UNCHANGED <<index, session, rate, inbox>>

-----------------------------------------------------------------------------
(* The process that serves a request dies between two commands.              *)
Crash(r) ==
    /\ request[r].at \notin {"new", "over"}
    /\ request' = End(r, "none")
    /\ UNCHANGED <<index, session, rate, token, inbox>>

Aged(key, none) == IF key.life = 1 THEN none
                   ELSE IF key.life > 1 THEN [key EXCEPT !.life = @ - 1]
                   ELSE key

(* A unit of time: keys that have one left expire.                           *)
Tick ==
    /\ index' = Aged(index, NoIndex)
    /\ session' = [i \in Request |-> Aged(session[i], NoSession)]
    /\ rate' = Aged(rate, NoRate)
    /\ token' = [k \in Request |-> Aged(token[k], NoToken)]
    /\ UNCHANGED <<inbox, request>>

Next ==
    \/ \E r \in Request :
          \/ \E a \in Action : Create(r, a)
          \/ \E i \in Request, c \in inbox \cup {None} : Confirm(r, i, c)
          \/ \E k \in Request, a \in Action : Use(r, k, a)
          \/ GetIndex(r) \/ CheckCooldown(r) \/ GetExisting(r)
          \/ Increment(r) \/ SetExpiry(r) \/ Write(r) \/ Publish(r) \/ SendOtp(r)
          \/ CheckGuess(r) \/ WriteBack(r) \/ DeleteSession(r) \/ IssueToken(r)
          \/ GetToken(r) \/ DeleteToken(r)
          \/ Crash(r)
    \/ Tick

Spec == Init /\ [][Next]_vars

-----------------------------------------------------------------------------
(* What holds.                                                               *)

PurposeOf(code) == request[code].action

(* A code mailed for one purpose proves the contact for no other, whatever   *)
(* resends and wrong guesses overwrite meanwhile: code and purpose of a      *)
(* session change together (services/verifications.py:77-83,147-153), and a  *)
(* token carries the purpose of the code it was issued for (:172).           *)
PurposeIsKept ==
    /\ \A i \in Request : Live(session[i]) =>
          session[i].code \in Request /\ session[i].action = PurposeOf(session[i].code)
    /\ \A k \in Request : Live(token[k]) =>
          token[k].action = PurposeOf(request[k].guess)

(* An operation is let through only with a token that a confirmation got for *)
(* a code requested for that very operation (services/verifications.py:203). *)
OperationHasItsOwnCode ==
    \A r \in Request : request[r].outcome = "used" =>
        LET k == request[r].id
        IN  request[k].outcome = "confirmed" /\ request[r].action = PurposeOf(request[k].guess)

(* A spent token lets nobody through any more: operations share a token only *)
(* if they have all read it before the first of them has deleted it; no      *)
(* second confirmation, expiry or death brings it back                       *)
(* (services/verifications.py:194,224).                                      *)
SpentTokenServesNobody ==
    [][\A r, q \in Request :
          /\ request[q].outcome = "used" /\ request[q].id = request[r].id
          /\ At(r, "getToken")
          => request'[r].at # "delToken"]_vars

(* The wrong codes that were submitted to a session.                         *)
Misses(i) == {r \in Request : request[r].outcome = "wrong" /\ request[r].id = i}

(* The attempts of a session are wrong codes that were submitted to it: what *)
(* resends and wrong guesses write back may count too few of them, never too *)
(* many, so that nobody is shut out before MaxChecks wrong codes             *)
(* (services/verifications.py:82,152).                                       *)
AttemptsAreMisses ==
    \A i \in Request : Live(session[i]) => session[i].attempts <= Cardinality(Misses(i))

(* The count of the contact does not expire, and nobody is about to make it. *)
LimitStuck == rate.life = Never /\ \A r \in Request : ~ At(r, "expire")

(* A contact is locked out for good only if the process dies between INCR    *)
(* and EXPIRE (repositories/verification.py:11-13): no other interleaving of *)
(* requests with each other and with the expiry of the key loses the window, *)
(* because only the request that made the key sets its time to live, and a   *)
(* key without one does not expire before it does.                           *)
OnlyDeathLeavesLimit ==
    [][~ LimitStuck /\ LimitStuck'
          => \E r \in Request : At(r, "expire") /\ request'[r].at = "over"]_vars

(* The code of a session is replaced only when the session is out of its     *)
(* cooldown: though the life of the session is read some commands before the *)
(* session is written, no interleaving with other creations, guesses and     *)
(* expiries puts it back there meanwhile (services/verifications.py:41-83).  *)
(* It is the cooldown of the session, not of the code: a resend keeps the    *)
(* time to live (repositories/verification.py:47).                           *)
CodeOutlivesCooldown ==
    [][\A i \in Request :
          /\ session[i].life > 0
          /\ Live(session'[i]) /\ session'[i].code # session[i].code
          => TTL - session[i].life >= Cooldown]_vars

-----------------------------------------------------------------------------
(* What it promises.                                                         *)

AskedFor(r) == IF request[r].op = "create" THEN request[r].action ELSE None
ProvedBy(r) == IF request[r].outcome = "confirmed" THEN request[r].guess ELSE None
DoneFor(r)  == IF request[r].outcome = "used" THEN request[r].action ELSE None

Promise == INSTANCE ContactProof WITH
    asked   <- [r \in Request |-> AskedFor(r)],
    granted <- rate.granted,
    mailed  <- inbox,
    proved  <- [r \in Request |-> ProvedBy(r)],
    done    <- [r \in Request |-> DoneFor(r)]

(* Whatever handlers, expiries and deaths come between their commands, codes *)
(* are requested, mailed, confirmed and used in that order and for one       *)
(* purpose, and a window has only so many (services/verifications.py:33-224).*)
ImplementsContactProof == Promise!Spec

-----------------------------------------------------------------------------
(* What makes these inductive.                                               *)

(* A creation is past writing its session.                                   *)
Written(i) == request[i].at \in {"publish", "sendOtp", "over"}

(* Only sessions that are written are pointed to, and they do not get young  *)
(* again, so that a creation that is past the check may replace the code, as *)
(* may a wrong guess that still holds an older one.                          *)
CooldownInv ==
    /\ Live(index) => Written(index.id)
    /\ \A i \in Request : Live(session[i]) => Written(i)
    /\ \A r \in Request :
          /\ At(r, "getTtl") => Written(request[r].id)
          /\ ( \/ At(r, "getSession")
               \/ request[r].at \in {"incr", "expire", "write"} /\ Live(request[r].seen) ) =>
                /\ Written(request[r].id)
                /\ ~ InCooldown(session[request[r].id].life)
          /\ At(r, "writeBack") =>
                /\ Written(request[r].id)
                /\ \/ ~ Live(session[request[r].id])
                   \/ session[request[r].id].code = request[r].seen.code
                   \/ ~ InCooldown(session[request[r].id].life)

Asked(code) ==
    code \in Request /\ request[code].op = "create" /\ request[code].action \in Action

(* Codes are of creations, and what is confirmed was mailed.                 *)
OriginInv ==
    /\ \A i \in Request : Live(session[i]) => Asked(session[i].code)
    /\ \A c \in inbox : Asked(c)
    /\ \A r \in Request :
          /\ At(r, "new") => request[r].op = "none"
          /\ request[r].op = "create" => request[r].action \in Action
          /\ request[r].at \in {"getIndex", "getTtl", "getSession", "incr", "expire", "write"}
                => Asked(r)
          /\ At(r, "writeBack") => Asked(request[r].seen.code)
          /\ request[r].guess \in inbox \cup {None}
          /\ request[r].outcome = "confirmed" => request[r].guess \in inbox

(* The request that opened the window, alone, is about to close it, and a    *)
(* count that is there counts somebody.                                      *)
WindowInv ==
    /\ Live(rate) <=> rate.count > 0
    /\ \A r \in Request : At(r, "expire") =>
          rate.life = Never /\ \A q \in Request : At(q, "expire") => q = r

Requested(code) == code \in Request /\ ~ At(code, "new")

(* A session as it is stored, or as a handler holds it.                      *)
Sound(data, i) ==
    /\ Requested(data.code)
    /\ data.action = PurposeOf(data.code)
    /\ data.attempts <= Cardinality(Misses(i))

(* The token of a confirmation proves what its code was requested for.       *)
Issued(k, action) ==
    /\ request[k].outcome = "confirmed"
    /\ Requested(request[k].guess)
    /\ action = PurposeOf(request[k].guess)

KeysInv ==
    /\ Live(index) => index.id \in Request
    /\ \A i \in Request : Live(session[i]) => Sound(session[i], i)
    /\ rate.granted <= rate.count
    /\ \A k \in Request : Live(token[k]) => Issued(k, token[k].action)
    /\ \A c \in inbox : Requested(c)

(* What a handler holds between two commands.                                *)
HandlerInv(r) ==
    LET x == request[r]
    IN /\ x.at \notin {"new", "getIndex", "incr", "expire", "write", "over"} => x.id \in Request
       /\ At(r, "getIndex") => ~ Live(x.seen)
       /\ x.at \in {"incr", "expire", "write"} /\ Live(x.seen) =>
             x.id \in Request /\ Sound(x.seen, x.id)
       /\ x.at \in {"writeBack", "delSession", "setToken"} => Sound(x.seen, x.id)
       /\ At(r, "writeBack") => x.seen.attempts < MaxChecks
       /\ x.at \in {"delSession", "setToken"} => x.guess = x.seen.code
       /\ At(r, "getToken") => request[x.id].outcome = "confirmed"
       /\ At(r, "delToken") => Issued(x.id, x.action)
       /\ x.outcome # "none" => At(r, "over")
       /\ x.outcome = "used" => x.id \in Request /\ Issued(x.id, x.action)

VerificationInv == KeysInv /\ \A r \in Request : HandlerInv(r)

-----------------------------------------------------------------------------
(* What the documentation says and the code does not do.                     *)

(* "One-time password for verification" (schemas/verification.py:18): a code *)
(* is confirmed once.                                                        *)
CodeIsOneTime ==
    \A r, q \in Request :
        /\ request[r].outcome = "confirmed" /\ request[q].outcome = "confirmed"
        /\ request[r].guess = request[q].guess
        => r = q

(* A confirmed session is gone: another confirmation gets "Verification      *)
(* session not found or expired" (tests/integration/verifications/           *)
(* test_confirm.py:62-100).                                                  *)
ConfirmedSessionIsGone ==
    \A r \in Request : request[r].outcome = "confirmed" => ~ Live(session[request[r].id])
=============================================================================
