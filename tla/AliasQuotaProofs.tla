-------------------------- MODULE AliasQuotaProofs --------------------------
(* Proofs about AliasQuota, for any number of users, domains and creations   *)
(* and any limits.                                                           *)
EXTENDS AliasQuota, FiniteSetTheorems, TLAPS

LEMMA Counts ==
    ASSUME NEW A \in SUBSET Request, NEW B \in SUBSET A
    PROVE  /\ IsFiniteSet(A) /\ IsFiniteSet(B)
           /\ Cardinality(A) \in Nat /\ Cardinality(B) \in Nat
           /\ Cardinality(B) <= Cardinality(A)
BY QuotaAssumption, FS_Subset, FS_CardinalityType

(* What the server does with a request, apart from the commit.               *)
Working(r) ==
    \/ Begin(r) \/ LockDomain(r) \/ LockUser(r) \/ CountCreated(r) \/ CountNonDeleted(r)
    \/ Insert(r) \/ Publish(r) \/ Refuse(r) \/ Rollback(r)

LEMMA NextCases ==
    Next <=> \/ \E r \in Request :
                   Working(r) \/ Commit(r) \/ Decide(r) \/ LoseTask(r) \/ Delete(r)
             \/ Tick
BY DEF Next, Serve, Working

(* An alias is in the count of its user when its creation commits, and not   *)
(* before.                                                                   *)
LEMMA StatusKept ==
    ASSUME TypeOK, NEW a \in Request, S!Accept(a) \/ S!Send(a) \/ S!GiveUp(a)
    PROVE  status' = status
BY DEF TypeOK, S!TypeOK, S!Accept, S!Send, S!GiveUp, S!Becomes

LEMMA WorkingKeeps ==
    ASSUME TypeOK, NEW r \in Request, Working(r)
    PROVE  status' = status /\ UNCHANGED <<clock, revived>>
<1>1. CASE Begin(r) \/ LockDomain(r) \/ LockUser(r) \/ CountCreated(r) \/ CountNonDeleted(r)
           \/ Refuse(r)
  BY <1>1 DEF Begin, LockDomain, LockUser, CountCreated, CountNonDeleted, Refuse, End
<1>2. CASE Insert(r) \/ Publish(r) \/ Rollback(r)
  BY <1>2, StatusKept DEF Insert, Publish, Rollback, End
<1> QED BY <1>1, <1>2 DEF Working

LEMMA WorkingMoves ==
    ASSUME TypeOK, NEW r \in Request, Working(r)
    PROVE  /\ ~ At(r, "over")
           /\ \A q \in Request \ {r} : request'[q] = request[q]
           /\ request'[r].user = request[r].user
           /\ request'[r].started # request[r].started => Begin(r)
           /\ \/ At(r, "new") /\ request'[r].at = "begun"
              \/ At(r, "begun") /\ request'[r].at = "domain"
              \/ At(r, "domain") /\ request'[r].at = "user" /\ LockUser(r)
              \/ At(r, "user") /\ request'[r].at = "few" /\ CountCreated(r)
              \/ At(r, "few") /\ request'[r].at = "allowed" /\ CountNonDeleted(r)
              \/ At(r, "allowed") /\ request'[r].at = "inserted"
              \/ At(r, "inserted") /\ request'[r].at = "published"
              \/ request'[r].at = "over" /\ Release(r)
           /\ request'[r].at = "over" \/ LockUser(r) \/ UNCHANGED userLock
<1>0. request \in [Request -> RequestState] /\ request[r] \in RequestState
  BY DEF TypeOK
<1>1. CASE Begin(r)
  BY <1>0, <1>1 DEF Begin, At, RequestState
<1>2. CASE LockDomain(r) \/ LockUser(r)
  BY <1>0, <1>2 DEF LockDomain, LockUser, Goto, At, RequestState
<1>3. CASE CountCreated(r) \/ CountNonDeleted(r)
  BY <1>0, <1>3 DEF CountCreated, CountNonDeleted, Goto, At, RequestState
<1>4. CASE Insert(r) \/ Publish(r)
  BY <1>0, <1>4 DEF Insert, Publish, Goto, At, RequestState
<1>5. CASE Refuse(r) \/ Rollback(r)
  <2>1. ~ At(r, "over") /\ Goto(r, "over") /\ Release(r)
    BY <1>5 DEF Refuse, Rollback, End, At
  <2> QED BY <1>0, <2>1 DEF Goto, At, RequestState
<1> QED BY <1>1, <1>2, <1>3, <1>4, <1>5 DEF Working

-----------------------------------------------------------------------------
(* Types.                                                                    *)

LEMMA StatusTypes ==
    ASSUME TypeOK, NEW a \in Request,
           \/ S!Accept(a) \/ S!Send(a) \/ S!Commit(a) \/ S!GiveUp(a) \/ S!Decide(a) \/ S!Delete(a)
    PROVE  S!TypeOK'
<1>1. \A s \in {"absent", "pending", "active", "failed", "deleted"},
         p \in {"none", "unsent", "live", "over"} : S!Becomes(a, s, p) => S!TypeOK'
  BY DEF TypeOK, S!TypeOK, S!Becomes
<1>2. /\ status[a] \in {"absent", "pending", "active", "failed", "deleted"}
      /\ provisioning[a] \in {"none", "unsent", "live", "over"}
  BY DEF TypeOK, S!TypeOK
<1> QED BY <1>1, <1>2 DEF S!Accept, S!Send, S!Commit, S!GiveUp, S!Decide, S!Delete

LEMMA LockTypes ==
    ASSUME TypeOK, NEW r \in Request
    PROVE  /\ Without(domainLock, r) \in [Domain -> Holder]
           /\ Without(userLock, r) \in [User -> Holder]
BY DEF TypeOK, Without, Holder

(* TypeOK in two parts.                                                      *)
Typed ==
    /\ S!TypeOK
    /\ request \in [Request -> RequestState]
    /\ domainLock \in [Domain -> Holder]
    /\ userLock \in [User -> Holder]
    /\ clock \in 0 .. MaxTime + 1
    /\ revived \subseteq Request

KnowsDomain ==
    \A r \in Request :
        request[r].at \notin {"new", "begun", "over"} => request[r].domain \in Domain

LEMMA DomainStep ==
    ASSUME TypeOK, Next
    PROVE  KnowsDomain'
<1>0. request \in [Request -> RequestState] /\ KnowsDomain
  BY DEF TypeOK, KnowsDomain
<1>1. ASSUME NEW r \in Request, Working(r) \/ Commit(r)
      PROVE  KnowsDomain'
  <2>1. /\ \A q \in Request \ {r} : request'[q] = request[q]
        /\ request'[r].domain = request[r].domain
        /\ \/ request'[r].at \in {"begun", "over"}
           \/ LockDomain(r)
           \/ request[r].at \notin {"new", "begun", "over"}
    BY <1>0, <1>1 DEF Working, Begin, LockDomain, LockUser, CountCreated, CountNonDeleted,
       Insert, Publish, Refuse, Rollback, Commit, End, Goto, At, RequestState
  <2>2. LockDomain(r) => request[r].domain \in Domain
    BY DEF LockDomain
  <2> QED BY <1>0, <2>1, <2>2 DEF KnowsDomain
<1>2. UNCHANGED request => KnowsDomain'
  BY <1>0 DEF KnowsDomain
<1> QED BY <1>1, <1>2, NextCases DEF Decide, LoseTask, Delete, Tick

LEMMA TypeStep ==
    ASSUME TypeOK, Next
    PROVE  TypeOK'
<1>0. /\ request \in [Request -> RequestState] /\ clock \in 0 .. MaxTime + 1
      /\ S!TypeOK /\ domainLock \in [Domain -> Holder] /\ userLock \in [User -> Holder]
      /\ revived \subseteq Request
  BY DEF TypeOK
<1>1. ASSUME NEW r \in Request,
             NEW x \in {"new", "begun", "domain", "user", "few", "allowed", "inserted",
                        "published", "over"},
             Goto(r, x)
      PROVE  request' \in [Request -> RequestState]
  BY <1>0, <1>1 DEF Goto, RequestState
<1>2. UNCHANGED <<status, provisioning>> => S!TypeOK'
  BY <1>0 DEF S!TypeOK
<1>3. ASSUME NEW r \in Request, Working(r) \/ Commit(r)
      PROVE  Typed'
  <2>1. CASE Begin(r)
    <3>1. request' \in [Request -> RequestState]
      BY <1>0, <2>1 DEF Begin, RequestState
    <3> QED BY <1>0, <1>2, <2>1, <3>1 DEF Begin, Typed
  <2>2. CASE LockDomain(r)
    <3>1. domainLock' \in [Domain -> Holder]
      BY <1>0, <2>2 DEF LockDomain, Holder
    <3> QED BY <1>0, <1>1, <1>2, <2>2, <3>1 DEF LockDomain, Typed
  <2>3. CASE LockUser(r)
    <3>1. userLock' \in [User -> Holder]
      BY <1>0, <2>3 DEF LockUser, Holder
    <3> QED BY <1>0, <1>1, <1>2, <2>3, <3>1 DEF LockUser, Typed
  <2>4. CASE CountCreated(r) \/ CountNonDeleted(r)
    <3>1. /\ Goto(r, "few") \/ Goto(r, "allowed")
          /\ UNCHANGED <<status, provisioning, domainLock, userLock, clock, revived>>
      BY <2>4 DEF CountCreated, CountNonDeleted
    <3>2. request' \in [Request -> RequestState]
      BY <1>1, <3>1
    <3> QED BY <1>0, <1>2, <3>1, <3>2 DEF Typed
  <2>5. CASE Insert(r) \/ Publish(r)
    <3>1. /\ Goto(r, "inserted") \/ Goto(r, "published")
          /\ UNCHANGED <<domainLock, userLock, clock, revived>>
      BY <2>5 DEF Insert, Publish
    <3>2. request' \in [Request -> RequestState]
      BY <1>1, <3>1
    <3>3. S!TypeOK'
      BY <2>5, StatusTypes DEF Insert, Publish
    <3> QED BY <1>0, <3>1, <3>2, <3>3 DEF Typed
  <2>6. CASE Refuse(r) \/ Rollback(r) \/ Commit(r)
    <3>1. S!TypeOK'
      BY <1>2, <2>6, StatusTypes DEF Refuse, Rollback, Commit
    <3>2. Release(r) /\ Goto(r, "over") /\ UNCHANGED <<clock, revived>>
      BY <2>6 DEF Refuse, Rollback, Commit, End
    <3> QED BY <1>0, <1>1, <3>1, <3>2, LockTypes DEF Release, Typed
  <2> QED BY <1>3, <2>1, <2>2, <2>3, <2>4, <2>5, <2>6 DEF Working
<1>4. ASSUME NEW a \in Request, Decide(a) \/ LoseTask(a) \/ Delete(a)
      PROVE  Typed'
  <2>1. S!TypeOK'
    BY <1>4, StatusTypes DEF Decide, LoseTask, Delete
  <2>2. revived' \subseteq Request
    BY <1>0, <1>4 DEF Decide, LoseTask, Delete
  <2> QED BY <1>0, <1>4, <2>1, <2>2 DEF Decide, LoseTask, Delete, Typed
<1>5. ASSUME Tick
      PROVE  Typed'
  <2>1. clock' \in 0 .. MaxTime + 1
    BY <1>0, <1>5, QuotaAssumption DEF Tick
  <2> QED BY <1>0, <1>2, <1>5, <2>1 DEF Tick, Typed
<1>6. TypeOK' <=> Typed' /\ KnowsDomain'
  BY DEF TypeOK, Typed, KnowsDomain
<1> QED BY <1>3, <1>4, <1>5, <1>6, NextCases, DomainStep

-----------------------------------------------------------------------------
(* The advisory lock: a creation that counts is alone with its user.         *)
LEMMA LockStep ==
    ASSUME TypeOK, LockInv, NEW r \in Request, Working(r) \/ Commit(r)
    PROVE  LockInv'
<1>0. /\ request \in [Request -> RequestState] /\ userLock \in [User -> Holder]
      /\ None \notin Request /\ \A q \in Request : request[q].user \in User
  BY QuotaAssumption DEF TypeOK, RequestState
<1>1. /\ \A q \in Request \ {r} : request'[q] = request[q]
      /\ request'[r].user = request[r].user
  <2>1. CASE Commit(r)
    BY <1>0, <2>1 DEF Commit, Goto, RequestState
  <2> QED BY <2>1, WorkingMoves
<1>2. CASE request'[r].at = "over" /\ Release(r)
  <2>1. \A u \in User : userLock'[u] = IF userLock[u] = r THEN None ELSE userLock[u]
    BY <1>0, <1>2 DEF Release, Without
  <2>2. ASSUME NEW q \in Request, request'[q].at \in Inside
        PROVE  userLock'[request'[q].user] = q
    <3>1. q # r
      BY <1>2, <2>2 DEF Inside
    <3> QED BY <1>0, <1>1, <2>1, <2>2, <3>1 DEF LockInv
  <2>3. ASSUME NEW u \in User, userLock'[u] # None
        PROVE  request'[userLock'[u]].user = u /\ request'[userLock'[u]].at \in Inside
    <3>1. userLock'[u] = userLock[u] /\ userLock[u] # r /\ userLock[u] \in Request
      BY <1>0, <2>1, <2>3 DEF Holder
    <3> QED BY <1>1, <2>3, <3>1 DEF LockInv
  <2> QED BY <2>2, <2>3 DEF LockInv
<1>3. CASE LockUser(r)
  <2>1. userLock' = [userLock EXCEPT ![request[r].user] = r] /\ userLock[request[r].user] = None
    BY <1>3 DEF LockUser, LockIsFree
  <2>2. request'[r].at = "user"
    BY <1>0, <1>3 DEF LockUser, Goto, RequestState
  <2>3. ASSUME NEW q \in Request, request'[q].at \in Inside
        PROVE  userLock'[request'[q].user] = q
    BY <1>0, <1>1, <2>1, <2>3 DEF LockInv
  <2>4. ASSUME NEW u \in User, userLock'[u] # None
        PROVE  request'[userLock'[u]].user = u /\ request'[userLock'[u]].at \in Inside
    <3>1. CASE u = request[r].user
      BY <1>0, <1>1, <2>1, <2>2, <3>1 DEF Inside
    <3>2. CASE u # request[r].user
      <4>1. userLock'[u] = userLock[u] /\ userLock[u] \in Request
        BY <1>0, <2>1, <2>4, <3>2 DEF Holder
      <4>2. request[userLock[u]].user = u
        BY <2>4, <4>1 DEF LockInv
      <4> QED BY <1>1, <2>4, <3>2, <4>1, <4>2 DEF LockInv
    <3> QED BY <3>1, <3>2
  <2> QED BY <2>3, <2>4 DEF LockInv
<1>4. CASE /\ request[r].at \in Inside <=> request'[r].at \in Inside
           /\ UNCHANGED userLock
  <2>1. ASSUME NEW q \in Request, request'[q].at \in Inside
        PROVE  userLock'[request'[q].user] = q
    BY <1>1, <1>4, <2>1 DEF LockInv
  <2>2. ASSUME NEW u \in User, userLock'[u] # None
        PROVE  request'[userLock'[u]].user = u /\ request'[userLock'[u]].at \in Inside
    BY <1>0, <1>1, <1>4, <2>2 DEF LockInv, Holder
  <2> QED BY <2>1, <2>2 DEF LockInv
<1>5. CASE Commit(r)
  <2>1. request'[r].at = "over" /\ Release(r)
    BY <1>0, <1>5 DEF Commit, Goto, RequestState
  <2> QED BY <1>2, <2>1
<1>6. CASE Working(r)
  <2>1. CASE request'[r].at = "over"
    <3>1. Release(r)
      BY <1>6, <2>1, WorkingMoves
    <3> QED BY <1>2, <2>1, <3>1
  <2>2. CASE request'[r].at # "over" /\ ~ LockUser(r)
    BY <1>4, <1>6, <2>2, WorkingMoves DEF Inside, At
  <2> QED BY <1>3, <2>1, <2>2
<1> QED BY <1>5, <1>6

-----------------------------------------------------------------------------
(* The counts. As long as no alias gets in, none of them grows.              *)
Calm ==
    /\ \A a \in Request : status[a] = "absent" <=> status'[a] = "absent"
    /\ \A a \in Request :
          status[a] # "absent" => /\ request'[a].user = request[a].user
                                  /\ request'[a].started = request[a].started
    /\ \A a \in Request :
          status'[a] # "deleted" /\ a \notin revived' => status[a] # "deleted" /\ a \notin revived
    /\ clock' >= clock /\ clock' \in Nat

LEMMA CalmCounts ==
    ASSUME TypeOK, Calm, NEW u \in User
    PROVE  /\ Cardinality(CreatedInWindow(u)') <= Cardinality(CreatedInWindow(u))
           /\ Cardinality((NonDeleted(u) \ revived)') <= Cardinality(NonDeleted(u) \ revived)
           /\ Cardinality(CreatedInWindow(u)) \in Nat
           /\ Cardinality(CreatedInWindow(u)') \in Nat
           /\ Cardinality(NonDeleted(u) \ revived) \in Nat
           /\ Cardinality((NonDeleted(u) \ revived)') \in Nat
<1>0. clock \in Nat /\ \A a \in Request : request[a].started \in Nat
  BY DEF TypeOK, RequestState
<1>1. Aliases(u)' \subseteq Aliases(u)
  BY DEF Aliases, Calm
<1>2. CreatedInWindow(u)' \in SUBSET CreatedInWindow(u)
  <2>1. ASSUME NEW a \in CreatedInWindow(u)'
        PROVE  a \in CreatedInWindow(u)
    <3>1. a \in Aliases(u) /\ request'[a].started + Window >= clock'
      BY <1>1, <2>1 DEF CreatedInWindow, CreatedAt
    <3>2. a \in Request /\ request'[a].started = request[a].started
      BY <3>1 DEF Aliases, Calm
    <3>3. request[a].started + Window >= clock
      BY <1>0, <3>1, <3>2, QuotaAssumption DEF Calm
    <3> QED BY <3>1, <3>3 DEF CreatedInWindow, CreatedAt
  <2> QED BY <2>1
<1>3. (NonDeleted(u) \ revived)' \in SUBSET (NonDeleted(u) \ revived)
  BY <1>1 DEF NonDeleted, Aliases, Calm
<1>4. CreatedInWindow(u) \in SUBSET Request /\ NonDeleted(u) \ revived \in SUBSET Request
  BY DEF CreatedInWindow, NonDeleted, Aliases
<1> QED BY <1>2, <1>3, <1>4, Counts

LEMMA CalmKeeps ==
    ASSUME TypeOK, QuotaInv, Calm
    PROVE  WithinMonthlyLimit' /\ OnlyRevivedExceed'
<1>1. MonthlyLimit \in Nat /\ ActiveLimit \in Nat
  BY QuotaAssumption
<1>2. \A u \in User : Cardinality(CreatedInWindow(u)') <= MonthlyLimit
  <2>1. SUFFICES ASSUME NEW u \in User
                 PROVE  Cardinality(CreatedInWindow(u)') <= MonthlyLimit
    OBVIOUS
  <2>2. Cardinality(CreatedInWindow(u)) <= MonthlyLimit
    BY DEF QuotaInv, WithinMonthlyLimit
  <2>3. /\ Cardinality(CreatedInWindow(u)') <= Cardinality(CreatedInWindow(u))
        /\ Cardinality(CreatedInWindow(u)) \in Nat /\ Cardinality(CreatedInWindow(u)') \in Nat
    BY CalmCounts
  <2> QED BY <1>1, <2>2, <2>3
<1>3. \A u \in User : Cardinality((NonDeleted(u) \ revived)') <= ActiveLimit
  <2>1. SUFFICES ASSUME NEW u \in User
                 PROVE  Cardinality((NonDeleted(u) \ revived)') <= ActiveLimit
    OBVIOUS
  <2>2. Cardinality(NonDeleted(u) \ revived) <= ActiveLimit
    BY DEF QuotaInv, OnlyRevivedExceed
  <2>3. /\ Cardinality((NonDeleted(u) \ revived)') <= Cardinality(NonDeleted(u) \ revived)
        /\ Cardinality(NonDeleted(u) \ revived) \in Nat
        /\ Cardinality((NonDeleted(u) \ revived)') \in Nat
    BY CalmCounts
  <2> QED BY <1>1, <2>2, <2>3
<1> QED BY <1>2, <1>3 DEF WithinMonthlyLimit, OnlyRevivedExceed

(* A creation that does not move keeps what it counted.                      *)
LEMMA OthersKeep ==
    ASSUME TypeOK, QuotaInv, Calm, NEW q \in Request, request'[q] = request[q]
    PROVE  Counted(q)'
<1>1. PICK u \in User : u = request[q].user
  BY DEF TypeOK, RequestState
<1>2. /\ Cardinality(CreatedInWindow(u)') <= Cardinality(CreatedInWindow(u))
      /\ Cardinality((NonDeleted(u) \ revived)') <= Cardinality(NonDeleted(u) \ revived)
      /\ Cardinality(CreatedInWindow(u)) \in Nat /\ Cardinality(CreatedInWindow(u)') \in Nat
      /\ Cardinality(NonDeleted(u) \ revived) \in Nat
      /\ Cardinality((NonDeleted(u) \ revived)') \in Nat
  BY CalmCounts
<1>3. /\ ~ At(q, "over") => status[q] = "absent"
      /\ request[q].at \in Inside \ {"user"} => Cardinality(CreatedInWindow(u)) < MonthlyLimit
      /\ request[q].at \in Inside \ {"user", "few"} =>
            Cardinality(NonDeleted(u) \ revived) < ActiveLimit
  BY <1>1 DEF QuotaInv, Counted
<1>4. MonthlyLimit \in Nat /\ ActiveLimit \in Nat
  BY QuotaAssumption
<1>5. request[q].at # "over" => status'[q] = "absent"
  BY <1>3 DEF Calm, At
<1>6. request[q].at \in Inside \ {"user"} => Cardinality(CreatedInWindow(u)') < MonthlyLimit
  BY <1>2, <1>3, <1>4
<1>7. request[q].at \in Inside \ {"user", "few"} =>
         Cardinality((NonDeleted(u) \ revived)') < ActiveLimit
  BY <1>2, <1>3, <1>4
<1>8. request'[q].user = u /\ request'[q].at = request[q].at
  BY <1>1
<1> QED BY <1>5, <1>6, <1>7, <1>8 DEF Counted, At, CreatedInWindow, NonDeleted, Aliases

(* The commit adds one alias to the counts of its user, who has no other     *)
(* creation inside.                                                          *)
LEMMA CommitStep ==
    ASSUME TypeOK, QuotaInv, NEW r \in Request, Commit(r)
    PROVE  WithinMonthlyLimit' /\ OnlyRevivedExceed' /\ \A q \in Request : Counted(q)'
<1>0. /\ request \in [Request -> RequestState] /\ At(r, "published")
      /\ MonthlyLimit \in Nat /\ ActiveLimit \in Nat
  BY QuotaAssumption DEF TypeOK, Commit
<1>1. /\ \A q \in Request \ {r} : request'[q] = request[q]
      /\ request'[r].at = "over" /\ request'[r].user = request[r].user
      /\ request'[r].started = request[r].started /\ UNCHANGED <<clock, revived>>
  BY <1>0 DEF Commit, Goto, RequestState
<1>2. status' = [status EXCEPT ![r] = "pending"] /\ DOMAIN status = Request
  <2>1. S!Becomes(r, "pending", provisioning[r])
    BY DEF Commit, S!Commit
  <2> QED BY <2>1 DEF S!Becomes, TypeOK, S!TypeOK
<1>3. PICK w \in User : w = request[r].user
  BY <1>0 DEF RequestState
<1>4. /\ Cardinality(CreatedInWindow(w)) < MonthlyLimit
      /\ Cardinality(NonDeleted(w) \ revived) < ActiveLimit
  BY <1>0, <1>3 DEF QuotaInv, Counted, Inside, At
<1>5. /\ \A u \in User : u # w => Aliases(u)' = Aliases(u)
      /\ Aliases(w)' \subseteq Aliases(w) \cup {r}
  BY <1>1, <1>2, <1>3 DEF Aliases
<1>6. /\ \A u \in User : u # w => CreatedInWindow(u)' = CreatedInWindow(u)
      /\ CreatedInWindow(w)' \subseteq CreatedInWindow(w) \cup {r}
  BY <1>1, <1>5 DEF CreatedInWindow, CreatedAt, Aliases
<1>7. /\ \A u \in User : u # w => (NonDeleted(u) \ revived)' = NonDeleted(u) \ revived
      /\ (NonDeleted(w) \ revived)' \subseteq (NonDeleted(w) \ revived) \cup {r}
  <2>1. \A q \in Request : q # r => status'[q] = status[q]
    BY <1>2
  <2>2. ASSUME NEW u \in User, u # w
        PROVE  (NonDeleted(u) \ revived)' = NonDeleted(u) \ revived
    <3>1. r \notin Aliases(u) /\ Aliases(u) \subseteq Request
      BY <1>3, <2>2 DEF Aliases
    <3> QED BY <1>1, <1>5, <2>1, <2>2, <3>1 DEF NonDeleted
  <2>3. (NonDeleted(w) \ revived)' \subseteq (NonDeleted(w) \ revived) \cup {r}
    BY <1>1, <1>5, <2>1 DEF NonDeleted, Aliases
  <2> QED BY <2>2, <2>3
<1>8. ASSUME NEW A \in SUBSET Request, NEW B \in SUBSET (A \cup {r})
      PROVE  Cardinality(B) <= Cardinality(A) + 1 /\ Cardinality(A) \in Nat /\ Cardinality(B) \in Nat
  <2>1. A \cup {r} \in SUBSET Request /\ A \in SUBSET Request
    OBVIOUS
  <2>2. IsFiniteSet(A) /\ Cardinality(A) \in Nat /\ Cardinality(A \cup {r}) \in Nat
    BY <2>1, Counts
  <2>3. Cardinality(B) <= Cardinality(A \cup {r}) /\ Cardinality(B) \in Nat
    BY <2>1, Counts
  <2>4. Cardinality(A \cup {r}) <= Cardinality(A) + 1
    <3>1. PICK n \in Nat, k \in Nat : n = Cardinality(A) /\ k = Cardinality(A \cup {r})
      BY <2>2
    <3>2. k = IF r \in A THEN n ELSE n + 1
      BY <2>2, <3>1, FS_AddElement, Zenon
    <3>3. k <= n + 1
      BY <3>2
    <3> QED BY <3>1, <3>3
  <2> QED BY <2>2, <2>3, <2>4
<1>9. \A u \in User : CreatedInWindow(u) \in SUBSET Request /\ NonDeleted(u) \ revived \in SUBSET Request
  BY DEF CreatedInWindow, NonDeleted, Aliases
<1>10. WithinMonthlyLimit'
  <2>1. Cardinality(CreatedInWindow(w)') <= MonthlyLimit
    BY <1>0, <1>4, <1>6, <1>8, <1>9
  <2>2. \A u \in User : u # w => Cardinality(CreatedInWindow(u)') <= MonthlyLimit
    BY <1>6 DEF QuotaInv, WithinMonthlyLimit
  <2> QED BY <2>1, <2>2 DEF WithinMonthlyLimit
<1>11. OnlyRevivedExceed'
  <2>1. Cardinality((NonDeleted(w) \ revived)') <= ActiveLimit
    BY <1>0, <1>4, <1>7, <1>8, <1>9
  <2>2. \A u \in User : u # w => Cardinality((NonDeleted(u) \ revived)') <= ActiveLimit
    BY <1>7 DEF QuotaInv, OnlyRevivedExceed
  <2> QED BY <2>1, <2>2 DEF OnlyRevivedExceed
<1>12. ASSUME NEW q \in Request
       PROVE  Counted(q)'
  <2>1. CASE q = r
    BY <1>1, <2>1 DEF Counted, Inside, At
  <2>2. CASE q # r
    <3>1. PICK u \in User : u = request[q].user
      BY <1>0 DEF RequestState
    <3>2. request'[q] = request[q] /\ status'[q] = status[q]
      BY <1>1, <1>2, <2>2
    <3>3. request[q].at \in Inside => u # w
      BY <1>0, <1>3, <2>2, <3>1 DEF QuotaInv, LockInv, Inside, At
    <3>4. /\ request[q].at \in Inside => CreatedInWindow(u)' = CreatedInWindow(u)
          /\ request[q].at \in Inside => (NonDeleted(u) \ revived)' = NonDeleted(u) \ revived
      BY <1>6, <1>7, <3>3
    <3>5. /\ ~ At(q, "over") => status[q] = "absent"
          /\ request[q].at \in Inside \ {"user"} => Cardinality(CreatedInWindow(u)) < MonthlyLimit
          /\ request[q].at \in Inside \ {"user", "few"} =>
                Cardinality(NonDeleted(u) \ revived) < ActiveLimit
      BY <3>1 DEF QuotaInv, Counted
    <3>6. /\ request[q].at \in Inside \ {"user"} => Cardinality(CreatedInWindow(u)') < MonthlyLimit
          /\ request[q].at \in Inside \ {"user", "few"} =>
                Cardinality((NonDeleted(u) \ revived)') < ActiveLimit
      BY <3>4, <3>5
    <3> QED BY <3>1, <3>2, <3>5, <3>6 DEF Counted, At, CreatedInWindow, NonDeleted, Aliases
  <2> QED BY <2>1, <2>2
<1> QED BY <1>10, <1>11, <1>12

-----------------------------------------------------------------------------
(* A creation that works on: it passes a limit only below it.                *)
LEMMA WorkingStep ==
    ASSUME TypeOK, QuotaInv, NEW r \in Request, Working(r)
    PROVE  WithinMonthlyLimit' /\ OnlyRevivedExceed' /\ \A q \in Request : Counted(q)'
<1>0. /\ request \in [Request -> RequestState] /\ request[r] \in RequestState
      /\ clock \in Nat /\ MonthlyLimit \in Nat /\ ActiveLimit \in Nat
  BY QuotaAssumption DEF TypeOK
<1>1. status' = status /\ clock' = clock /\ revived' = revived
  BY WorkingKeeps
<1>2. /\ ~ At(r, "over") /\ status[r] = "absent" /\ request'[r].user = request[r].user
      /\ \A q \in Request \ {r} : request'[q] = request[q]
  BY WorkingMoves DEF QuotaInv, Counted
<1>3. Calm
  <2>1. ASSUME NEW a \in Request, status[a] # "absent"
        PROVE  request'[a] = request[a]
    BY <1>2, <2>1
  <2> QED BY <1>0, <1>1, <2>1 DEF Calm
<1>4. PICK u \in User : u = request[r].user
  BY <1>0 DEF RequestState
<1>5. /\ Cardinality(CreatedInWindow(u)') <= Cardinality(CreatedInWindow(u))
      /\ Cardinality((NonDeleted(u) \ revived)') <= Cardinality(NonDeleted(u) \ revived)
      /\ Cardinality(CreatedInWindow(u)) \in Nat /\ Cardinality(CreatedInWindow(u)') \in Nat
      /\ Cardinality(NonDeleted(u) \ revived) \in Nat
      /\ Cardinality((NonDeleted(u) \ revived)') \in Nat
  BY <1>3, CalmCounts
<1>6. /\ request[r].at \in Inside \ {"user"} => Cardinality(CreatedInWindow(u)) < MonthlyLimit
      /\ request[r].at \in Inside \ {"user", "few"} =>
            Cardinality(NonDeleted(u) \ revived) < ActiveLimit
  BY <1>4 DEF QuotaInv, Counted
<1>7. CountCreated(r) => Cardinality(CreatedInWindow(u)) < MonthlyLimit
  BY <1>4 DEF CountCreated, Below
<1>8. CountNonDeleted(r) => Cardinality(NonDeleted(u) \ revived) < ActiveLimit
  <2>1. NonDeleted(u) \in SUBSET Request /\ NonDeleted(u) \ revived \in SUBSET NonDeleted(u)
    BY DEF NonDeleted, Aliases
  <2>2. /\ Cardinality(NonDeleted(u) \ revived) <= Cardinality(NonDeleted(u))
        /\ Cardinality(NonDeleted(u)) \in Nat
    BY <2>1, Counts
  <2>3. CountNonDeleted(r) => Cardinality(NonDeleted(u)) < ActiveLimit
    BY <1>4 DEF CountNonDeleted, Below
  <2> QED BY <1>0, <1>5, <2>2, <2>3
<1>9. request'[r].at \in Inside \ {"user"} => Cardinality(CreatedInWindow(u)') < MonthlyLimit
  <2>1. request'[r].at \in Inside \ {"user"} =>
           request[r].at \in Inside \ {"user"} \/ CountCreated(r)
    BY WorkingMoves DEF Inside, At
  <2> QED BY <1>0, <1>5, <1>6, <1>7, <2>1
<1>10. request'[r].at \in Inside \ {"user", "few"} =>
          Cardinality((NonDeleted(u) \ revived)') < ActiveLimit
  <2>1. request'[r].at \in Inside \ {"user", "few"} =>
           request[r].at \in Inside \ {"user", "few"} \/ CountNonDeleted(r)
    BY WorkingMoves DEF Inside, At
  <2> QED BY <1>0, <1>5, <1>6, <1>8, <2>1
<1>11. Counted(r)'
  <2>1. request'[r].user = u /\ status'[r] = "absent"
    BY <1>1, <1>2, <1>4
  <2> QED BY <1>9, <1>10, <2>1 DEF Counted, At, CreatedInWindow, NonDeleted, Aliases
<1>12. \A q \in Request \ {r} : Counted(q)'
  BY <1>2, <1>3, OthersKeep
<1> QED BY <1>3, <1>11, <1>12, CalmKeeps

(* What becomes of the aliases, and time, let no alias in.                   *)
LEMMA RestStep ==
    ASSUME TypeOK, QuotaInv,
           \/ \E a \in Request : Decide(a) \/ LoseTask(a) \/ Delete(a)
           \/ Tick \/ UNCHANGED vars
    PROVE  QuotaInv'
<1>0. /\ status \in [Request -> {"absent", "pending", "active", "failed", "deleted"}]
      /\ clock \in Nat
  BY DEF TypeOK, S!TypeOK
<1>1. UNCHANGED <<request, userLock>>
  BY DEF Decide, LoseTask, Delete, Tick, vars
<1>2. Calm
  <2>1. ASSUME NEW a \in Request, Decide(a)
        PROVE  Calm
    <3>1. PICK s \in {"active", "failed"} : status' = [status EXCEPT ![a] = s]
      BY <2>1 DEF Decide, S!Decide, S!Becomes
    <3>2. status[a] # "absent" /\ (status[a] = "deleted" => a \in revived')
      BY <2>1 DEF Decide, S!Decide
    <3>3. revived \subseteq revived' /\ UNCHANGED <<request, clock>>
      BY <2>1 DEF Decide
    <3> QED BY <1>0, <3>1, <3>2, <3>3 DEF Calm
  <2>2. ASSUME NEW a \in Request, Delete(a)
        PROVE  Calm
    <3>1. status' = [status EXCEPT ![a] = "deleted"] /\ status[a] # "absent"
      BY <2>2 DEF Delete, S!Delete, S!Becomes
    <3>2. revived' = revived \ {a} /\ UNCHANGED <<request, clock>>
      BY <2>2 DEF Delete
    <3> QED BY <1>0, <3>1, <3>2 DEF Calm
  <2>3. ASSUME NEW a \in Request, LoseTask(a)
        PROVE  Calm
    <3>1. status' = status /\ UNCHANGED <<request, clock, revived>>
      BY <2>3, StatusKept DEF LoseTask
    <3> QED BY <1>0, <3>1 DEF Calm
  <2>4. CASE Tick \/ UNCHANGED vars
    BY <1>0, <2>4 DEF Tick, vars, Calm
  <2> QED BY <2>1, <2>2, <2>3, <2>4
<1>3. LockInv'
  BY <1>1 DEF QuotaInv, LockInv
<1>4. \A q \in Request : Counted(q)'
  BY <1>1, <1>2, OthersKeep
<1> QED BY <1>2, <1>3, <1>4, CalmKeeps DEF QuotaInv

LEMMA InvStep ==
    ASSUME TypeOK, QuotaInv, [Next]_vars
    PROVE  QuotaInv'
<1>1. ASSUME NEW r \in Request, Working(r) \/ Commit(r)
      PROVE  QuotaInv'
  <2>1. LockInv'
    BY <1>1, LockStep DEF QuotaInv
  <2> QED BY <1>1, <2>1, CommitStep, WorkingStep DEF QuotaInv
<1> QED BY <1>1, RestStep, NextCases

LEMMA InitInv == Init => TypeOK /\ QuotaInv
<1> SUFFICES ASSUME Init PROVE TypeOK /\ QuotaInv
  OBVIOUS
<1>1. \A a \in Request : status[a] = "absent" /\ At(a, "new")
  BY DEF Init, S!Init, At
<1>2. S!TypeOK
  BY DEF Init, S!Init, S!TypeOK
<1>3. TypeOK
  BY <1>2, QuotaAssumption DEF Init, TypeOK, Holder
<1>4. \A u \in User : CreatedInWindow(u) = {} /\ NonDeleted(u) \ revived = {}
  BY <1>1 DEF CreatedInWindow, NonDeleted, Aliases
<1>5. WithinMonthlyLimit /\ OnlyRevivedExceed
  BY <1>4, FS_EmptySet, QuotaAssumption DEF WithinMonthlyLimit, OnlyRevivedExceed
<1>6. LockInv /\ \A r \in Request : Counted(r)
  BY <1>1 DEF Init, LockInv, Counted, Inside, At
<1> QED BY <1>3, <1>5, <1>6 DEF QuotaInv

(* The inductive invariant of the creations.                                 *)
THEOREM QuotaInvariant == Spec => [](TypeOK /\ QuotaInv)
<1>1. TypeOK /\ UNCHANGED vars => TypeOK'
  BY DEF vars, TypeOK, S!TypeOK
<1>2. TypeOK /\ QuotaInv /\ [Next]_vars => TypeOK' /\ QuotaInv'
  BY <1>1, TypeStep, InvStep
<1> QED BY InitInv, <1>2, PTL DEF Spec

(* The statuses, the requests and the locks stay within their types.         *)
THEOREM TypeCorrect == Spec => []TypeOK
BY QuotaInvariant, PTL

(* No user has more aliases of the last window than the monthly limit,       *)
(* however many creations run at once (services/aliases.py:69-81).           *)
THEOREM MonthlyLimitHolds == Spec => []WithinMonthlyLimit
<1>1. QuotaInv => WithinMonthlyLimit
  BY DEF QuotaInv
<1> QED BY <1>1, QuotaInvariant, PTL

(* Only aliases decided after their deletion go over the limit of active     *)
(* ones (services/aliases.py:83-93).                                         *)
THEOREM ActiveLimitHolds == Spec => []OnlyRevivedExceed
<1>1. QuotaInv => OnlyRevivedExceed
  BY DEF QuotaInv
<1> QED BY <1>1, QuotaInvariant, PTL

-----------------------------------------------------------------------------
(* The rows of the domains, and who waits for whom.                          *)

LEMMA RowMoves ==
    ASSUME TypeOK, NEW r \in Request, Working(r) \/ Commit(r)
    PROVE  /\ \A q \in Request \ {r} : request'[q] = request[q]
           /\ request'[r].domain = request[r].domain
           /\ \/ Goto(r, "over") /\ Release(r)
              \/ LockDomain(r)
              \/ /\ UNCHANGED domainLock
                 /\ request[r].at \in Inside \cup {"domain"} => request'[r].at \in Inside
<1>0. request \in [Request -> RequestState] /\ request[r] \in RequestState
  BY DEF TypeOK
<1>1. CASE Begin(r)
  BY <1>0, <1>1 DEF Begin, At, RequestState, Inside
<1>2. CASE LockDomain(r) \/ LockUser(r)
  BY <1>0, <1>2 DEF LockDomain, LockUser, Goto, At, RequestState, Inside
<1>3. CASE CountCreated(r) \/ CountNonDeleted(r)
  BY <1>0, <1>3 DEF CountCreated, CountNonDeleted, Goto, At, RequestState, Inside
<1>4. CASE Insert(r) \/ Publish(r)
  BY <1>0, <1>4 DEF Insert, Publish, Goto, At, RequestState, Inside
<1>5. CASE Refuse(r) \/ Rollback(r) \/ Commit(r)
  <2>1. Goto(r, "over") /\ Release(r)
    BY <1>5 DEF Refuse, Rollback, Commit, End
  <2> QED BY <1>0, <2>1 DEF Goto, RequestState
<1> QED BY <1>1, <1>2, <1>3, <1>4, <1>5 DEF Working

LEMMA RowStep ==
    ASSUME TypeOK, RowInv, NEW r \in Request, Working(r) \/ Commit(r)
    PROVE  RowInv'
<1>0. /\ request \in [Request -> RequestState] /\ domainLock \in [Domain -> Holder]
      /\ None \notin Request
  BY QuotaAssumption DEF TypeOK
<1>1. /\ \A q \in Request \ {r} : request'[q] = request[q]
      /\ request'[r].domain = request[r].domain
  BY RowMoves
<1> SUFFICES ASSUME NEW d \in Domain, domainLock'[d] # None
             PROVE  /\ request'[domainLock'[d]].domain = d
                    /\ request'[domainLock'[d]].at \in Inside \cup {"domain"}
  BY DEF RowInv
<1>2. CASE Goto(r, "over") /\ Release(r)
  <2>1. domainLock'[d] = IF domainLock[d] = r THEN None ELSE domainLock[d]
    BY <1>0, <1>2 DEF Release, Without
  <2>2. domainLock'[d] = domainLock[d] /\ domainLock[d] \in Request \ {r}
    BY <1>0, <2>1 DEF Holder
  <2> QED BY <1>1, <2>2 DEF RowInv
<1>3. CASE LockDomain(r)
  <2>1. domainLock' = [domainLock EXCEPT ![request[r].domain] = r]
    BY <1>3 DEF LockDomain
  <2>2. request'[r].at = "domain" /\ domainLock[request[r].domain] = None
    BY <1>0, <1>3 DEF LockDomain, Goto, RequestState
  <2>3. CASE d = request[r].domain
    BY <1>0, <1>1, <2>1, <2>2, <2>3
  <2>4. CASE d # request[r].domain
    <3>1. domainLock'[d] = domainLock[d] /\ domainLock[d] \in Request
      BY <1>0, <2>1, <2>4 DEF Holder
    <3>2. domainLock[d] # r
      BY <1>3, <3>1 DEF RowInv, LockDomain, At, Inside
    <3> QED BY <1>1, <3>1, <3>2 DEF RowInv
  <2> QED BY <2>3, <2>4
<1>4. CASE /\ UNCHANGED domainLock
           /\ request[r].at \in Inside \cup {"domain"} => request'[r].at \in Inside
  <2>1. domainLock'[d] = domainLock[d] /\ domainLock[d] \in Request
    BY <1>0, <1>4 DEF Holder
  <2> QED BY <1>1, <1>4, <2>1 DEF RowInv
<1> QED BY <1>2, <1>3, <1>4, RowMoves

(* A row of a domain is held by a creation in that domain, from the moment   *)
(* it is locked to the end of the transaction.                               *)
THEOREM RowsAreHeld == Spec => []RowInv
<1>1. Init => RowInv
  BY DEF Init, RowInv
<1>2. TypeOK /\ RowInv /\ [Next]_vars => RowInv'
  <2>1. ASSUME RowInv, UNCHANGED <<request, domainLock>> PROVE RowInv'
    BY <2>1 DEF RowInv
  <2>2. ASSUME NEW a \in Request, Decide(a) \/ LoseTask(a) \/ Delete(a)
        PROVE  UNCHANGED <<request, domainLock>>
    BY <2>2 DEF Decide, LoseTask, Delete
  <2> QED BY <2>1, <2>2, RowStep, NextCases DEF Tick, vars
<1> QED BY <1>1, <1>2, TypeCorrect, PTL DEF Spec

(* The two locks are taken in one order, so that chains of waiting end, after *)
(* two steps at the latest (services/aliases.py:54,69).                      *)
THEOREM WaitingEnds == Spec => []WaitingIsShort
<1>1. ASSUME TypeOK, LockInv, RowInv
      PROVE  WaitingIsShort
  <2>0. None \notin Request
    BY QuotaAssumption
  <2>1. ASSUME NEW p \in Request, NEW q \in Request, WaitsFor(p, q)
        PROVE  /\ request[q].at \in Inside \cup {"domain"}
               /\ At(p, "domain") => request[q].at \in Inside
    <3>1. request[p].user \in User /\ (At(p, "begun") => request[p].domain \in Domain)
      BY <1>1, <2>1 DEF TypeOK, RequestState, WaitsFor, At
    <3> QED BY <1>1, <2>0, <2>1, <3>1 DEF WaitsFor, At, RowInv, LockInv
  <2>2. ASSUME NEW p \in Request, NEW q \in Request, WaitsFor(p, q)
        PROVE  At(p, "begun") \/ At(p, "domain")
    BY <2>2 DEF WaitsFor
  <2>3. \A p, q \in Request : WaitsFor(p, q) =>
            /\ At(p, "begun") \/ At(p, "domain")
            /\ request[q].at \in Inside \cup {"domain"}
            /\ At(p, "domain") => request[q].at \in Inside
    BY <2>1, <2>2
  <2> QED BY <2>3 DEF WaitingIsShort, At, Inside
<1>2. QuotaInv => LockInv
  BY DEF QuotaInv
<1> QED BY <1>1, <1>2, QuotaInvariant, RowsAreHeld, PTL

-----------------------------------------------------------------------------
(* The environment is the status machine.                                    *)

(* What creations, tasks and deletions do to the aliases here is what        *)
(* AliasStatus allows, which AliasLifecycle implements: a deletion or a      *)
(* verdict assumed by the limits is one the service makes.                   *)
THEOREM StatusMachineKept == Spec => S!Spec
<1>1. Init => S!Init
  BY DEF Init
<1>2. TypeOK /\ [Next]_vars => [S!Next]_(S!vars)
  <2>1. ASSUME NEW r \in Request,
               Working(r) \/ Commit(r) \/ Decide(r) \/ LoseTask(r) \/ Delete(r)
        PROVE  S!Next \/ UNCHANGED <<status, provisioning>>
    BY <2>1 DEF Working, Begin, LockDomain, LockUser, CountCreated, CountNonDeleted, Insert,
       Publish, Refuse, Rollback, Commit, Decide, LoseTask, Delete, S!Next
  <2> QED BY <2>1, NextCases DEF Tick, vars, S!vars
<1> QED BY <1>1, <1>2, TypeCorrect, PTL DEF Spec, S!Spec
=============================================================================
