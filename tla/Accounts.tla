------------------------------ MODULE Accounts ------------------------------
(* Users and their access tokens (services/users.py, passwords.py and        *)
(* tokens.py over PostgreSQL at READ COMMITTED). A request authenticates     *)
(* with a plain read of its token, then takes the lock of the user's row     *)
(* (SELECT ... FOR UPDATE), decides on what it reads under the lock, and     *)
(* what it writes shows at the commit, which gives the lock up.              *)
EXTENDS Naturals, FiniteSets

CONSTANTS
    User,    \* rows that the table users may ever have; one email each
    Initial, \* users that may be there in the initial state
    Admin,   \* administrators: they are there
    Request, \* the API requests of a behaviour: each is served once
    None     \* no request: a free row, the password users start with

ASSUME AccountsAssumption ==
    /\ Initial \subseteq User
    /\ Admin \subseteq Initial
    /\ None \notin Request

VARIABLES
    user,    \* committed rows of the table users
    lock,    \* the transaction that holds each user's row
    token,   \* committed rows of tokens; its key is the login that made it
    request  \* what each request is doing

vars == <<user, lock, token, request>>

(* A password or an address is named by the request that set it.             *)
Stamp == Request \cup {None}
Role  == {"user", "admin"}

UserRow == [state: {"absent", "live", "deleted"}, banned: BOOLEAN,
            role: Role, password: Stamp, email: Stamp]

NoRow == [state |-> "absent", banned |-> FALSE, role |-> "user",
          password |-> None, email |-> None]

(* issuedTo: the user's row when the token was issued (not stored by the     *)
(* code: it says what the token stood for then).                             *)
TokenRow == [status: {"none", "active", "revoked"}, issuedTo: UserRow]

(* target: the user whose row the request works on; password: the one it     *)
(* presents; change: the row it writes; revoked: the tokens it revokes.      *)
RequestState ==
    [op: {"none", "login", "delete", "update", "admin", "reset", "create"},
     at: {"new", "waiting", "inserting", "orphaned", "locked", "flushed", "over"},
     target: User \cup {None}, password: Stamp,
     change: UserRow, revoked: SUBSET Request]

NotServed == [op |-> "none", at |-> "new", target |-> None, password |-> None,
              change |-> NoRow, revoked |-> {}]

TypeOK ==
    /\ user \in [User -> UserRow]
    /\ lock \in [User -> Request \cup {None}]
    /\ token \in [Request -> TokenRow]
    /\ request \in [Request -> RequestState]

InitialRow(u, there) ==
    IF u \in there
    THEN [NoRow EXCEPT !.state = "live", !.role = IF u \in Admin THEN "admin" ELSE "user"]
    ELSE NoRow

Init ==
    /\ \E there \in SUBSET Initial :
          Admin \subseteq there /\ user = [u \in User |-> InitialRow(u, there)]
    /\ lock = [u \in User |-> None]
    /\ token = [k \in Request |-> [status |-> "none", issuedTo |-> NoRow]]
    /\ request = [r \in Request |-> NotServed]

-----------------------------------------------------------------------------
At(r, place) == request[r].at = place
Op(r)        == request[r].op
Target(r)    == request[r].target
Row(r)       == user[Target(r)]

Active(k) == token[k].status = "active"

Begin(r, op, u, p) ==
    /\ At(r, "new")
    /\ request' = [request EXCEPT ![r] =
                      [NotServed EXCEPT !.op = op, !.at = "waiting",
                                        !.target = u, !.password = p]]
    /\ UNCHANGED <<user, lock, token>>

(* POST /tokens, PATCH /passwords (with a verification token) and POST       *)
(* /users (likewise) need no access token.                                   *)
Login(r, u, p)   == Begin(r, "login", u, p)
ResetPassword(r, u) == Begin(r, "reset", u, None)
CreateUser(r, u) == Begin(r, "create", u, None)

(* The token is looked up, with its user's role, before the row is locked:   *)
(* nothing keeps it active from here on.                                     *)
Authenticated(k, role) == Active(k) /\ Row(k).role = role

DeleteMe(r, k) ==
    Authenticated(k, "user") /\ Begin(r, "delete", Target(k), None)
UpdateMe(r, k, p) ==
    Authenticated(k, "user") /\ Begin(r, "update", Target(k), p)
UpdateByAdmin(r, k, u) ==
    Authenticated(k, "admin") /\ Begin(r, "admin", u, None)

-----------------------------------------------------------------------------
(* Mutant: the row is read without FOR UPDATE.                               *)
NotLocked(u) == TRUE

Free(u) == lock[u] = None

(* What each service method requires of the row it has locked.               *)
Admits(r) ==
    CASE Op(r) = "login"  -> /\ Row(r).state = "live" /\ ~ Row(r).banned
                             /\ request[r].password = Row(r).password
      [] Op(r) = "admin"  -> Row(r).state = "live"
      [] Op(r) = "create" -> Row(r).state = "deleted" /\ ~ Row(r).banned
      [] OTHER            -> Row(r).state = "live" /\ ~ Row(r).banned

(* The rows it may write: a changed password needs the current one; a        *)
(* reactivation keeps role and address.                                      *)
Changes(r) ==
    CASE Op(r) = "login"  -> {Row(r)}
      [] Op(r) = "delete" -> {[Row(r) EXCEPT !.state = "deleted"]}
      [] Op(r) = "update" ->
            UNION {{[Row(r) EXCEPT !.password = p, !.email = e] : e \in {Row(r).email, r}} :
                      p \in {Row(r).password} \cup
                            {x \in {r} : request[r].password = Row(r).password}}
      [] Op(r) = "admin"  ->
            UNION {{[Row(r) EXCEPT !.banned = b, !.role = x] : b \in BOOLEAN} : x \in Role}
      [] Op(r) = "reset"  -> {[Row(r) EXCEPT !.password = r]}
      [] OTHER            -> {[Row(r) EXCEPT !.state = "live", !.password = r]}

(* SELECT ... FOR UPDATE: it waits for the row's lock and reads what is      *)
(* committed then; a row not yet committed is neither seen nor waited for.   *)
Readable(r) == Free(Target(r)) \/ Row(r).state = "absent"

Lock(r) ==
    /\ At(r, "waiting")
    /\ Readable(r)
    /\ Admits(r)
    /\ \E c \in Changes(r) :
          request' = [request EXCEPT ![r].at = "locked", ![r].change = c]
    /\ lock' = [lock EXCEPT ![Target(r)] = r]
    /\ UNCHANGED <<user, token>>

TokensOf(u) == {k \in Request : Active(k) /\ Target(k) = u}

(* Mutant: a revoked token is removed.                                       *)
RevokedByRemoval(tokens) == [k \in Request \ tokens |-> token[k]]

Revoked(tokens) ==
    [k \in Request |-> IF k \in tokens THEN [token[k] EXCEPT !.status = "revoked"]
                                       ELSE token[k]]

(* An exception: the transaction is rolled back, a revocation included       *)
(* (_get_active_user revokes before it raises).                              *)
Refuse(r) ==
    /\ At(r, "waiting")
    /\ Readable(r)
    /\ ~ Admits(r)
    /\ Op(r) = "create" => Row(r).state # "absent"
    /\ Op(r) = "delete" => Row(r).state = "live"
    /\ request' = [request EXCEPT ![r].at = "over"]
    /\ UNCHANGED <<user, lock, token>>

(* Only delete_user goes on without a user, hence without a lock, to revoke  *)
(* whatever tokens there are by then.                                        *)
FindDeleted(r) ==
    /\ At(r, "waiting")
    /\ Op(r) = "delete"
    /\ Readable(r)
    /\ Row(r).state # "live"
    /\ request' = [request EXCEPT ![r].at = "orphaned"]
    /\ UNCHANGED <<user, lock, token>>

RevokeOrphans(r) ==
    /\ At(r, "orphaned")
    /\ token' = Revoked(TokensOf(Target(r)))
    /\ request' = [request EXCEPT ![r].at = "over"]
    /\ UNCHANGED <<user, lock>>

(* create_user found no row. Its INSERT waits for one being inserted, and    *)
(* fails (IntegrityError) if that is committed.                              *)
FindNoUser(r) ==
    /\ At(r, "waiting")
    /\ Op(r) = "create"
    /\ Row(r).state = "absent"
    /\ request' = [request EXCEPT ![r].at = "inserting"]
    /\ UNCHANGED <<user, lock, token>>

NewRow(r) == [NoRow EXCEPT !.state = "live", !.password = r]

Insert(r) ==
    /\ At(r, "inserting")
    /\ Free(Target(r))
    /\ IF Row(r).state = "absent"
       THEN /\ request' = [request EXCEPT
                              ![r].at = "locked",
                              ![r].change = NewRow(r)]
            /\ lock' = [lock EXCEPT ![Target(r)] = r]
       ELSE /\ request' = [request EXCEPT ![r].at = "over"]
            /\ UNCHANGED lock
    /\ UNCHANGED <<user, token>>

(* Mutant: a ban or a change of role leaves the tokens alone.                *)
RevokesByUserOnly(op) == op \notin {"create", "admin"}

(* Mutant: a reset password leaves the tokens alone.                         *)
RevokesButOnReset(op) == op \notin {"create", "reset"}

(* Every operation but create_user calls revoke_all_by_user_id.              *)
Revokes(op) == op # "create"

(* The statements of the transaction: the tokens they revoke are the active  *)
(* ones committed now.                                                       *)
Flush(r) ==
    /\ At(r, "locked")
    /\ request' = [request EXCEPT
                      ![r].at = "flushed",
                      ![r].revoked = IF Revokes(Op(r)) THEN TokensOf(Target(r)) ELSE {}]
    /\ UNCHANGED <<user, lock, token>>

(* Mutant: the session is never closed, its locks stay.                      *)
KeepLock(r) == lock

Release(r) == [u \in User |-> IF lock[u] = r THEN None ELSE lock[u]]

Commit(r) ==
    /\ At(r, "flushed")
    /\ user' = [user EXCEPT ![Target(r)] = request[r].change]
    /\ token' = [Revoked(request[r].revoked) EXCEPT ![r] =
                    IF Op(r) = "login"
                    THEN [status |-> "active", issuedTo |-> request[r].change] ELSE @]
    /\ lock' = Release(r)
    /\ request' = [request EXCEPT ![r].at = "over"]

(* A later step fails, the connection is lost or the process dies.           *)
Rollback(r) ==
    /\ request[r].at \in {"waiting", "inserting", "orphaned", "locked", "flushed"}
    /\ lock' = Release(r)
    /\ request' = [request EXCEPT ![r].at = "over"]
    /\ UNCHANGED <<user, token>>

-----------------------------------------------------------------------------
Next ==
    \E r \in Request :
        \/ \E u \in User, p \in Stamp : Login(r, u, p)
        \/ \E u \in User : ResetPassword(r, u) \/ CreateUser(r, u)
        \/ \E k \in Request, p \in Stamp : UpdateMe(r, k, p)
        \/ \E k \in Request : DeleteMe(r, k)
        \/ \E k \in Request, u \in User : UpdateByAdmin(r, k, u)
        \/ Lock(r) \/ Refuse(r) \/ FindDeleted(r) \/ RevokeOrphans(r)
        \/ FindNoUser(r) \/ Insert(r) \/ Flush(r) \/ Commit(r) \/ Rollback(r)

(* The server runs what it has begun; Rollback stands for the case that it   *)
(* dies.                                                                     *)
Fairness ==
    \A r \in Request :
        WF_vars(\/ Lock(r) \/ Refuse(r) \/ FindDeleted(r) \/ RevokeOrphans(r)
                \/ FindNoUser(r) \/ Insert(r) \/ Flush(r) \/ Commit(r))

Spec == Init /\ [][Next]_vars /\ Fairness

-----------------------------------------------------------------------------
(* A user has one active token at most: every login revokes the others, and  *)
(* two logins at once do not miss each other's (services/tokens.py:42,68).   *)
OneActiveToken ==
    \A k, l \in Request : Active(k) /\ Active(l) /\ Target(k) = Target(l) => k = l

(* An active token belongs to a user who is there and not banned, though     *)
(* authentication looks at neither (core/dependencies.py:141-160,            *)
(* repositories/tokens.py:19-25): a ban or a deletion and a login that runs  *)
(* at the same time cannot leave one behind.                                 *)
TokensAreInGoodStanding ==
    \A k \in Request : Active(k) => Row(k).state = "live" /\ ~ Row(k).banned

(* An active token was issued under the password, address and role the user  *)
(* has now: whoever changes one of them shuts out every earlier login        *)
(* (services/users.py:171,206, services/passwords.py:54).                    *)
TokensAreCurrent ==
    \A k \in Request : Active(k) => token[k].issuedTo = Row(k)

(* Every request is answered: no lock is left behind, no two requests wait   *)
(* for each other (core/dependencies.py:30-39).                              *)
EveryRequestEnds == \A r \in Request : At(r, "waiting") ~> At(r, "over")

-----------------------------------------------------------------------------
(* The book of accounts, whose operations do not overlap.                    *)

Book == INSTANCE AccountBook
            WITH account <- user, Token <- Request, NewStamp <- None,
                 sessions <- [u \in User |-> TokensOf(u)],
                 issued <- {k \in Request : token[k].status # "none"}

(* Operations on a user that overlap have the effect of the same operations  *)
(* one after the other, in the order of their commits: none is lost, none    *)
(* acts on a row that has changed since it was read, and none spares a token *)
(* that was committed after it looked for them (services/tokens.py:42-73,    *)
(* services/users.py:37-48,171,206, services/passwords.py:36-54). A deletion *)
(* that finds its user gone ends whatever sessions there are by then.        *)
ImplementsAccountBook == Book!Spec

-----------------------------------------------------------------------------
(* What makes the safety properties inductive.                               *)

Holding == {"locked", "flushed"}

(* The lock of a row is held by one transaction, which is at work on it.     *)
LockInv ==
    /\ \A r \in Request : request[r].at # "new" => Target(r) \in User /\ Op(r) # "none"
    /\ \A r \in Request : request[r].at = "inserting" => Op(r) = "create"
    /\ \A r \in Request : request[r].at \in Holding => lock[Target(r)] = r
    /\ \A u \in User : lock[u] # None =>
          Target(lock[u]) = u /\ request[lock[u]].at \in Holding

(* A transaction would decide now as it has decided under the lock.          *)
Decided(r) ==
    \/ Admits(r) /\ request[r].change \in Changes(r)
    \/ Op(r) = "create" /\ Row(r).state = "absent" /\ request[r].change = NewRow(r)

(* The tokens a flush has revoked are tokens of its user, and all the active *)
(* ones.                                                                     *)
Kept(r) ==
    /\ Decided(r)
    /\ At(r, "flushed") =>
          /\ \A k \in request[r].revoked : token[k].status # "none" /\ Target(k) = Target(r)
          /\ Revokes(Op(r)) =>
                \A k \in Request : Active(k) /\ Target(k) = Target(r) => k \in request[r].revoked

HoldInv == \A r \in Request : request[r].at \in Holding => Kept(r)

(* Only a login that was committed has made a token.                         *)
TokenInv == \A k \in Request : token[k].status # "none" => At(k, "over")

(* A row that was never there is as blank as at first.                       *)
BlankInv == \A u \in User : user[u].state = "absent" => user[u] = NoRow

AccountsInv ==
    /\ LockInv /\ HoldInv /\ TokenInv /\ BlankInv
    /\ OneActiveToken /\ TokensAreInGoodStanding /\ TokensAreCurrent
=============================================================================
