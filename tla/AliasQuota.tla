----------------------------- MODULE AliasQuota -----------------------------
(* How many aliases a user may have (services/aliases.py:47-124,             *)
(* repositories/aliases.py:13-39). A creation is one transaction at READ     *)
(* COMMITTED: it locks the row of the domain, takes the advisory lock of the *)
(* user, counts, inserts, publishes the provisioning task, and commits. What *)
(* becomes of an alias otherwise is the abstract status machine AliasStatus, *)
(* which AliasLifecycle implements: a deletion and a verdict change the      *)
(* numbers without taking either lock.                                       *)
EXTENDS Naturals, FiniteSets

CONSTANTS
    User,
    Domain,
    Premium,      \* domains that are not is_default
    Request,      \* creations of a behaviour; each names the alias it makes
    MonthlyLimit, \* ALIAS_FREE_TIER_MONTHLY_LIMIT
    ActiveLimit,  \* ALIAS_FREE_TIER_ACTIVE_LIMIT
    Window,       \* ALIAS_FREE_TIER_WINDOW_DAYS
    MaxTime,      \* bound on the clock
    None          \* no request holds the lock; as a domain, one that is not there

ASSUME QuotaAssumption ==
    /\ Premium \subseteq Domain
    /\ IsFiniteSet(Request) /\ None \notin Request \cup Domain
    /\ MonthlyLimit \in Nat \ {0} /\ ActiveLimit \in Nat \ {0}
    /\ Window \in Nat \ {0} /\ MaxTime \in Nat

VARIABLES
    status,       \* committed status of each alias
    provisioning, \* its provisioning job
    request,      \* what each creation is doing
    domainLock,   \* the transaction that holds the row of each domain
    userLock,     \* the one that holds the advisory lock of each user
    clock,
    revived       \* aliases decided after their deletion (not in the code)

vars == <<status, provisioning, request, domainLock, userLock, clock, revived>>

S == INSTANCE AliasStatus WITH Alias <- Request, Established <- {}

(* started: now() in the database is the time the transaction began, and so  *)
(* is the created_at of its alias.                                           *)
RequestState ==
    [at: {"new", "begun", "domain", "user", "few", "allowed", "inserted",
          "published", "over"},
     user: User, domain: Domain \cup {None}, started: 0 .. MaxTime + 1]

Holder == Request \cup {None}

TypeOK ==
    /\ S!TypeOK
    /\ request \in [Request -> RequestState]
    /\ domainLock \in [Domain -> Holder]
    /\ userLock \in [User -> Holder]
    /\ clock \in 0 .. MaxTime + 1
    /\ revived \subseteq Request
    /\ \A r \in Request :
          request[r].at \notin {"new", "begun", "over"} => request[r].domain \in Domain

Init ==
    /\ S!Init
    /\ request \in [Request -> {x \in RequestState : x.at = "new" /\ x.started = 0}]
    /\ domainLock = [d \in Domain |-> None]
    /\ userLock = [u \in User |-> None]
    /\ clock = 0
    /\ revived = {}

-----------------------------------------------------------------------------
At(r, place) == request[r].at = place
Goto(r, place) == request' = [request EXCEPT ![r].at = place]

CreatedAt(a) == request[a].started

(* The aliases of a user that a statement sees: those that are committed.    *)
Aliases(u) == {a \in Request : status[a] # "absent" /\ request[a].user = u}

(* created_at >= now - window, the time being that of the statement.         *)
CreatedInWindow(u) == {a \in Aliases(u) : CreatedAt(a) + Window >= clock}

NonDeleted(u) == {a \in Aliases(u) : status[a] # "deleted"}

(* Authentication is the first statement of the transaction.                 *)
Begin(r) ==
    /\ At(r, "new")
    /\ request' = [request EXCEPT ![r].at = "begun", ![r].started = clock]
    /\ UNCHANGED <<status, provisioning, domainLock, userLock, clock, revived>>

(* Mutant: a domain that is not there goes for a default one.                *)
LockDomainOrNone(r) ==
    LET d == request[r].domain
    IN /\ At(r, "begun")
       /\ d \in Domain => domainLock[d] = None
       /\ d \notin Premium
       /\ domainLock' = [e \in Domain |-> IF e = d THEN r ELSE domainLock[e]]
       /\ Goto(r, "domain")
       /\ UNCHANGED <<status, provisioning, userLock, clock, revived>>

(* SELECT ... FOR UPDATE on the domain, which must be there and a default    *)
(* one.                                                                      *)
LockDomain(r) ==
    LET d == request[r].domain
    IN /\ At(r, "begun")
       /\ d \in Domain
       /\ domainLock[d] = None
       /\ d \notin Premium
       /\ domainLock' = [domainLock EXCEPT ![d] = r]
       /\ Goto(r, "domain")
       /\ UNCHANGED <<status, provisioning, userLock, clock, revived>>

(* Mutant: the lock does not exclude (pg_advisory_xact_lock_shared).         *)
SharedLock(u) == TRUE

LockIsFree(u) == userLock[u] = None

(* Mutant: the advisory lock is taken with or without the row.               *)
LockUserInAnyOrder(r) ==
    LET u == request[r].user
    IN /\ At(r, "begun") \/ At(r, "domain")
       /\ userLock[u] \in {None, r}
       /\ userLock' = [userLock EXCEPT ![u] = r]
       /\ Goto(r, IF At(r, "domain") THEN "user" ELSE "begun")
       /\ UNCHANGED <<status, provisioning, domainLock, clock, revived>>

(* pg_advisory_xact_lock                                                     *)
LockUser(r) ==
    LET u == request[r].user
    IN /\ At(r, "domain")
       /\ LockIsFree(u)
       /\ userLock' = [userLock EXCEPT ![u] = r]
       /\ Goto(r, "user")
       /\ UNCHANGED <<status, provisioning, domainLock, clock, revived>>

(* Mutant: > for >= in the refusal.                                          *)
OneMore(n, limit) == n <= limit

Below(n, limit) == n < limit

CountCreated(r) ==
    /\ At(r, "user")
    /\ Below(Cardinality(CreatedInWindow(request[r].user)), MonthlyLimit)
    /\ Goto(r, "few")
    /\ UNCHANGED <<status, provisioning, domainLock, userLock, clock, revived>>

CountNonDeleted(r) ==
    /\ At(r, "few")
    /\ Below(Cardinality(NonDeleted(request[r].user)), ActiveLimit)
    /\ Goto(r, "allowed")
    /\ UNCHANGED <<status, provisioning, domainLock, userLock, clock, revived>>

Insert(r) ==
    /\ At(r, "allowed")
    /\ S!Accept(r)
    /\ Goto(r, "inserted")
    /\ UNCHANGED <<domainLock, userLock, clock, revived>>

Publish(r) ==
    /\ At(r, "inserted")
    /\ S!Send(r)
    /\ Goto(r, "published")
    /\ UNCHANGED <<domainLock, userLock, clock, revived>>

(* Mutant: a lock of the session (pg_advisory_lock) outlives the             *)
(* transaction.                                                              *)
KeepLocks(lock, r) == lock

(* A transaction's locks go when it ends.                                    *)
Without(lock, r) == [x \in DOMAIN lock |-> IF lock[x] = r THEN None ELSE lock[x]]

Release(r) ==
    /\ domainLock' = Without(domainLock, r)
    /\ userLock' = Without(userLock, r)

Commit(r) ==
    /\ At(r, "published")
    /\ S!Commit(r)
    /\ Release(r)
    /\ Goto(r, "over")
    /\ UNCHANGED <<clock, revived>>

End(r) ==
    /\ Release(r)
    /\ Goto(r, "over")
    /\ UNCHANGED <<clock, revived>>

(* Refused: no such domain, or, under the locks, a premium one or a limit    *)
(* that is reached.                                                          *)
Refuse(r) ==
    LET u == request[r].user
        d == request[r].domain
    IN /\ \/ At(r, "begun") /\ d = None
          \/ At(r, "begun") /\ d \in Premium /\ domainLock[d] = None
          \/ At(r, "user") /\ ~ Below(Cardinality(CreatedInWindow(u)), MonthlyLimit)
          \/ At(r, "few") /\ ~ Below(Cardinality(NonDeleted(u)), ActiveLimit)
       /\ End(r)
       /\ UNCHANGED <<status, provisioning>>

(* A local part that collides, a broker or a database that fails: rolled     *)
(* back. A task that was published remains.                                  *)
Rollback(r) ==
    /\ request[r].at \notin {"new", "over"}
    /\ IF At(r, "inserted") THEN S!GiveUp(r) ELSE UNCHANGED <<status, provisioning>>
    /\ End(r)

(* The provisioning task decides or is lost; the user deletes.               *)
Decide(a) ==
    /\ S!Decide(a)
    /\ revived' = IF status[a] = "deleted" THEN revived \cup {a} ELSE revived
    /\ UNCHANGED <<request, domainLock, userLock, clock>>

LoseTask(a) ==
    /\ provisioning[a] = "live"
    /\ S!GiveUp(a)
    /\ UNCHANGED <<request, domainLock, userLock, clock, revived>>

Delete(a) ==
    /\ S!Delete(a)
    /\ revived' = revived \ {a}
    /\ UNCHANGED <<request, domainLock, userLock, clock>>

Tick ==
    /\ clock <= MaxTime
    /\ clock' = clock + 1
    /\ UNCHANGED <<status, provisioning, request, domainLock, userLock, revived>>

(* What the server does with a request it has begun.                         *)
Serve(r) ==
    \/ LockDomain(r) \/ LockUser(r) \/ CountCreated(r) \/ CountNonDeleted(r)
    \/ Insert(r) \/ Publish(r) \/ Commit(r) \/ Refuse(r)

Next ==
    \/ \E r \in Request :
          Begin(r) \/ Serve(r) \/ Rollback(r) \/ Decide(r) \/ LoseTask(r) \/ Delete(r)
    \/ Tick

(* The server goes on with what it has begun, unless it waits for a lock;    *)
(* nothing has to fail, nor a task or a deletion to come.                    *)
Fairness == \A r \in Request : WF_vars(Serve(r))

Spec == Init /\ [][Next]_vars /\ Fairness

-----------------------------------------------------------------------------
(* What holds.                                                               *)

(* No user has more than MonthlyLimit aliases of the last Window, whatever   *)
(* became of them: creations that run at once, on different domains, do not  *)
(* count the same aliases (services/aliases.py:69-81, repositories/          *)
(* aliases.py:19-31).                                                        *)
WithinMonthlyLimit == \A u \in User : Cardinality(CreatedInWindow(u)) <= MonthlyLimit

(* Creations at once do not go over the limit of aliases that are not        *)
(* deleted either: what goes over it was deleted before and decided after    *)
(* (services/aliases.py:83-93).                                              *)
OnlyRevivedExceed == \A u \in User : Cardinality(NonDeleted(u) \ revived) <= ActiveLimit

(* q is kept waiting by p, which holds the lock it asks for. A transaction   *)
(* that asks again for a lock of its own does not wait.                      *)
WaitsFor(q, p) ==
    /\ q # p
    /\ \/ /\ At(q, "begun") /\ request[q].domain \in Domain
          /\ domainLock[request[q].domain] = p
       \/ At(q, "domain") /\ userLock[request[q].user] = p

(* However many creations run at once, none waits for one that waits for one *)
(* that waits: a creation that holds the row of a domain waits for nothing   *)
(* but the advisory lock of its user, and whoever holds that lock goes on    *)
(* (services/aliases.py:54,69, repositories/aliases.py:20-23). So there is   *)
(* no circle of waiting among them, which would be a longer chain.           *)
WaitingIsShort ==
    \A p, q, r \in Request :
        WaitsFor(p, q) /\ WaitsFor(q, r) => \A s \in Request : ~ WaitsFor(r, s)

(* A creation that has begun is answered: the two locks are taken in one     *)
(* order and end with the transaction (core/dependencies.py:30-39).          *)
EveryCreationEnds == \A r \in Request : At(r, "begun") ~> At(r, "over")

-----------------------------------------------------------------------------
(* What makes these inductive.                                               *)

(* From the advisory lock to the end of the transaction.                     *)
Inside == {"user", "few", "allowed", "inserted", "published"}

LockInv ==
    /\ \A r \in Request : request[r].at \in Inside => userLock[request[r].user] = r
    /\ \A u \in User : userLock[u] # None =>
          request[userLock[u]].user = u /\ request[userLock[u]].at \in Inside

(* Who holds the row of a domain asked for it and is not over.               *)
RowInv ==
    \A d \in Domain : domainLock[d] # None =>
        request[domainLock[d]].domain = d /\ request[domainLock[d]].at \in Inside \cup {"domain"}

(* What was counted below a limit is below it until the alias is there.      *)
Counted(r) ==
    LET u == request[r].user
    IN /\ ~ At(r, "over") => status[r] = "absent"
       /\ request[r].at \in Inside \ {"user"} => Cardinality(CreatedInWindow(u)) < MonthlyLimit
       /\ request[r].at \in Inside \ {"user", "few"} =>
             Cardinality(NonDeleted(u) \ revived) < ActiveLimit

QuotaInv ==
    /\ LockInv
    /\ WithinMonthlyLimit /\ OnlyRevivedExceed
    /\ \A r \in Request : Counted(r)
=============================================================================
