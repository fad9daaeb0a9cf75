------------------------------ MODULE Addresses ------------------------------
(* Which user an address belongs to: the operations that change a user's     *)
(* row on the strength of a verification token (services/users.py and        *)
(* passwords.py with verify_operation_token of verifications.py). The token  *)
(* is in Redis, read and deleted by two commands; the rows are in PostgreSQL *)
(* at READ COMMITTED under row locks and the unique index of the addresses.  *)
(* Registration and password reset spend the token before they lock a row by *)
(* its address; deletion and change of address lock the row by its id first. *)
EXTENDS Naturals, FiniteSets

CONSTANTS
    User,    \* rows that the table users may ever have
    Address,
    Owned,   \* the address of each user, if there at first
    Request, \* the operations of a behaviour: each is served once
    None

ASSUME AddressAssumption ==
    /\ Owned \in [User -> Address]
    /\ \A u, v \in User : Owned[u] = Owned[v] => u = v
    /\ None \notin Request \cup User \cup Address

VARIABLES
    row,     \* committed rows of the table users
    lock,    \* the transaction that holds each row
    token,   \* the keys vtoken:<hash> that are there
    request  \* what each request is doing

vars == <<row, lock, token, request>>

(* VerificationActionType; the operations bear their names.                  *)
Action == {"create", "reset", "change", "delete"}

(* A token that a confirmation has issued, one for each purpose and address. *)
TokenData == [action: Action, contact: Address]

(* A password is named by the request that set it.                           *)
UserRow == [state: {"absent", "live", "deleted"}, email: Address \cup {None},
            password: Request \cup {None}]

NoRow == [state |-> "absent", email |-> None, password |-> None]

NoToken == [action |-> "none", contact |-> None]

(* user: the row the request has found or is told to work on; contact: the   *)
(* address it states; key: its token; change: the row it writes.             *)
RequestState ==
    [op: Action \cup {"none"},
     at: {"new", "lock", "getToken", "delToken", "look", "insert", "update",
          "index", "flushed", "over"},
     user: User \cup {None}, contact: Address \cup {None}, key: TokenData \cup {NoToken},
     change: UserRow]

NotServed == [op |-> "none", at |-> "new", user |-> None, contact |-> None,
              key |-> NoToken, change |-> NoRow]

TypeOK ==
    /\ row \in [User -> UserRow]
    /\ lock \in [User -> Request \cup {None}]
    /\ token \subseteq TokenData
    /\ request \in [Request -> RequestState]
    /\ \A r \in Request :
          request[r].at \in {"lock", "update", "index", "flushed"} => request[r].user \in User

Init ==
    /\ row \in [User -> UserRow]
    /\ \A u \in User :
          \/ row[u] = NoRow
          \/ \E s \in {"live", "deleted"} :
                row[u] = [NoRow EXCEPT !.state = s, !.email = Owned[u]]
    /\ lock = [u \in User |-> None]
    /\ token = TokenData
    /\ request = [r \in Request |-> NotServed]

-----------------------------------------------------------------------------
At(r, place) == request[r].at = place
Op(r)        == request[r].op
Target(r)    == request[r].user

Goto(r, place) == request' = [request EXCEPT ![r].at = place]

Over == [NotServed EXCEPT !.at = "over"]

End(r) == request' = [request EXCEPT ![r] = Over]

Begin(r, op, u, e, k) ==
    /\ At(r, "new")
    /\ request' = [request EXCEPT ![r] =
                      [NotServed EXCEPT !.op = op, !.user = u, !.contact = e, !.key = k,
                          !.at = IF op \in {"create", "reset"} THEN "getToken" ELSE "lock"]]
    /\ UNCHANGED <<row, lock, token>>

(* POST /users and PATCH /passwords state the address; PATCH /users/me does  *)
(* for the new one; the user of the latter and of DELETE /users/me is known  *)
(* from an access token.                                                     *)
CreateUser(r, e, k)    == Begin(r, "create", None, e, k)
UpdatePassword(r, e, k) == Begin(r, "reset", None, e, k)
UpdateMe(r, u, e, k)   == row[u].state # "absent" /\ Begin(r, "change", u, e, k)
DeleteMe(r, u, k)      == row[u].state # "absent" /\ Begin(r, "delete", u, None, k)

-----------------------------------------------------------------------------
(* verify_operation_token: GET, the comparisons, DEL.                        *)

(* Mutant: the address of the token is not compared.                         *)
FitsByAction(r) == request[r].key \in token /\ request[r].key.action = Op(r)

Fits(r) ==
    /\ request[r].key \in token
    /\ request[r].key.action = Op(r)
    /\ request[r].key.contact = request[r].contact

GetToken(r) ==
    /\ At(r, "getToken")
    /\ Fits(r)
    /\ Goto(r, "delToken")
    /\ UNCHANGED <<row, lock, token>>

(* Mutant: the session is never closed, its locks stay.                      *)
KeepLock(r) == lock

Release(r) == [u \in User |-> IF lock[u] = r THEN None ELSE lock[u]]

(* ContactNotVerifiedError                                                   *)
RefuseToken(r) ==
    /\ At(r, "getToken")
    /\ ~ Fits(r)
    /\ lock' = Release(r)
    /\ End(r)
    /\ UNCHANGED <<row, token>>

DeleteToken(r) ==
    /\ At(r, "delToken")
    /\ token' = token \ {request[r].key}
    /\ Goto(r, IF Op(r) \in {"create", "reset"} THEN "look" ELSE "update")
    /\ UNCHANGED <<row, lock>>

-----------------------------------------------------------------------------
(* SELECT ... FOR UPDATE finds a row in the snapshot of the statement, waits *)
(* for its lock, and looks again whether the row still matches.              *)

(* Mutant: the row that was found is locked by its id.                       *)
MatchesById(r, u) == row[u].state = "live" \/ Op(r) = "create"

Matches(r, u) ==
    CASE Op(r) = "create" -> row[u].email = request[r].contact
      [] Op(r) = "reset"  -> row[u].email = request[r].contact /\ row[u].state = "live"
      [] OTHER            -> row[u].state = "live"

Found(r) == {u \in User : row[u].email = request[r].contact
                          /\ (Op(r) = "reset" => row[u].state = "live")}

(* Mutant: a reset goes on with nobody.                                      *)
GoOnWithNobody(r) ==
    request' = [request EXCEPT ![r].at = IF Op(r) = "create" THEN "insert" ELSE "lock",
                               ![r].user = None]

(* Nobody is found: a registration goes on to insert, the others end.        *)
FoundNobody(r) ==
    IF Op(r) = "create" THEN request' = [request EXCEPT ![r].at = "insert", ![r].user = None]
                        ELSE End(r)

Look(r) ==
    /\ At(r, "look")
    /\ \/ \E u \in Found(r) :
             request' = [request EXCEPT ![r].user = u, ![r].at = "lock"]
       \/ Found(r) = {} /\ FoundNobody(r)
    /\ UNCHANGED <<row, lock, token>>

(* The row each operation will write when it has locked what it found; none  *)
(* for a registration that finds the user active (409).                      *)
Change(r, u) ==
    CASE Op(r) = "create" -> [row[u] EXCEPT !.state = "live", !.password = r]
      [] Op(r) = "reset"  -> [row[u] EXCEPT !.password = r]
      [] Op(r) = "change" -> [row[u] EXCEPT !.email = request[r].contact]
      [] OTHER            -> [row[u] EXCEPT !.state = "deleted"]

(* A change to the address the user has already needs no token.              *)
NeedsToken(r, u) ==
    \/ Op(r) = "delete"
    \/ Op(r) = "change" /\ request[r].contact # row[u].email

(* Mutant: a change of address checks that the new one is free by locking    *)
(* its present holder, too.                                                  *)
LockHolderToo(r) ==
    LET u == Target(r)
        others == {v \in User : row[v].email = request[r].contact /\ lock[v] # r}
    IN /\ At(r, "lock")
       /\ lock[u] = None
       /\ Matches(r, u)
       /\ Op(r) = "create" => row[u].state = "deleted"
       /\ lock' = [lock EXCEPT ![u] = r]
       /\ IF Op(r) = "change" /\ u \notin others /\ others # {}
          THEN request' = [request EXCEPT ![r].user = CHOOSE v \in others : TRUE]
          ELSE request' = [request EXCEPT
                  ![r].change = Change(r, u),
                  ![r].contact = IF Op(r) = "delete" THEN row[u].email ELSE @,
                  ![r].at = IF NeedsToken(r, u) THEN "getToken" ELSE "update"]
       /\ UNCHANGED <<row, token>>

Lock(r) ==
    LET u == Target(r)
    IN /\ At(r, "lock")
       /\ lock[u] = None
       /\ Matches(r, u)
       /\ Op(r) = "create" => row[u].state = "deleted"
       /\ lock' = [lock EXCEPT ![u] = r]
       /\ request' = [request EXCEPT
                         ![r].change = Change(r, u),
                         ![r].contact = IF Op(r) = "delete" THEN row[u].email ELSE @,
                         ![r].at = IF NeedsToken(r, u) THEN "getToken" ELSE "update"]
       /\ UNCHANGED <<row, token>>

(* The row is free but not what was looked for.                              *)
Miss(r) ==
    LET u == Target(r)
    IN /\ At(r, "lock")
       /\ lock[u] = None
       /\ \/ ~ Matches(r, u) /\ FoundNobody(r)
          \/ Matches(r, u) /\ Op(r) = "create" /\ row[u].state = "live" /\ End(r)
       /\ UNCHANGED <<row, lock, token>>

-----------------------------------------------------------------------------
(* The unique index. An UPDATE writes the row first and, if it has another   *)
(* address, enters it in the index then; an INSERT is its entry. Where the   *)
(* address is that of a row some transaction has written, both wait for it.  *)

Written(q) == request[q].at \in {"index", "flushed"}

(* The transactions whose end r waits for.                                   *)
InTheWay(r) ==
    {q \in Request \ {r} :
        \/ Written(q) /\ row[Target(q)].email = request[r].contact
        \/ At(q, "flushed") /\ request[q].change.email = request[r].contact}

(* Mutant: the index leaves out deleted rows.                                *)
TakenByLive(r) == \E u \in User \ {Target(r)} : /\ row[u].email = request[r].contact
                                                /\ row[u].state = "live"

Taken(r) == \E u \in User \ {Target(r)} : row[u].email = request[r].contact

Update(r) ==
    /\ At(r, "update")
    /\ Goto(r, IF request[r].change.email = row[Target(r)].email THEN "flushed" ELSE "index")
    /\ UNCHANGED <<row, lock, token>>

EnterIndex(r) ==
    /\ At(r, "index")
    /\ InTheWay(r) = {}
    /\ ~ Taken(r)
    /\ Goto(r, "flushed")
    /\ UNCHANGED <<row, lock, token>>

(* The new row's id is nobody else's.                                        *)
Insert(r) ==
    /\ At(r, "insert")
    /\ InTheWay(r) = {}
    /\ ~ Taken(r)
    /\ \E u \in User :
          /\ row[u].state = "absent" /\ lock[u] = None
          /\ lock' = [lock EXCEPT ![u] = r]
          /\ request' = [request EXCEPT
                ![r].at = "flushed", ![r].user = u,
                ![r].change = [state |-> "live", email |-> request[r].contact,
                               password |-> r]]
    /\ UNCHANGED <<row, token>>

(* IntegrityError                                                            *)
RefuseAddress(r) ==
    /\ request[r].at \in {"index", "insert"}
    /\ InTheWay(r) = {}
    /\ Taken(r)
    /\ lock' = Release(r)
    /\ End(r)
    /\ UNCHANGED <<row, token>>

Commit(r) ==
    /\ At(r, "flushed")
    /\ row' = [row EXCEPT ![Target(r)] = request[r].change]
    /\ lock' = Release(r)
    /\ End(r)
    /\ UNCHANGED token

(* A ban, a wrong current password, a token that has expired, a failure of   *)
(* any kind: rolled back. A token that was spent stays spent.                *)
Rollback(r) ==
    /\ request[r].at \notin {"new", "over"}
    /\ lock' = Release(r)
    /\ End(r)
    /\ UNCHANGED <<row, token>>

(* The transaction that r's next statement waits for, if any.                *)
WaitsFor(r) ==
    CASE At(r, "lock")               -> {lock[Target(r)]} \ {None}
      [] At(r, "index") \/ At(r, "insert") -> InTheWay(r)
      [] OTHER                       -> {}

(* The database fails one of those that wait for each other.                 *)
BreakDeadlock(r) ==
    /\ \E circle \in SUBSET Request :
          /\ r \in circle
          /\ \A q \in circle : WaitsFor(q) \cap circle # {}
    /\ Rollback(r)

-----------------------------------------------------------------------------
Serve(r) ==
    \/ GetToken(r) \/ RefuseToken(r) \/ DeleteToken(r)
    \/ Look(r) \/ Lock(r) \/ Miss(r)
    \/ Update(r) \/ EnterIndex(r) \/ Insert(r) \/ RefuseAddress(r)
    \/ Commit(r) \/ BreakDeadlock(r)

Next ==
    \E r \in Request :
        \/ \E e \in Address, k \in TokenData :
              \/ CreateUser(r, e, k) \/ UpdatePassword(r, e, k)
              \/ \E u \in User : UpdateMe(r, u, e, k)
        \/ \E u \in User, k \in TokenData : DeleteMe(r, u, k)
        \/ Serve(r)
        \/ Rollback(r)

(* The server and the database go on with what was begun.                    *)
Fairness == \A r \in Request : WF_vars(Serve(r))

Spec == Init /\ [][Next]_vars /\ Fairness

-----------------------------------------------------------------------------
(* What holds.                                                               *)

(* One row per address, deleted ones included, so that an address leads a    *)
(* registration or a reset to one user: registrations and changes that run   *)
(* at once do not slip past each other (models/domain.py:33,                 *)
(* services/users.py:84,159).                                                *)
AddressesAreUnique ==
    \A u, v \in User : row[u].state # "absent" /\ row[u].email = row[v].email => u = v

(* The token for an operation on an address was there and is deleted.        *)
Spent(op, e) == [action |-> op, contact |-> e] \notin token

(* What turns a row into another: one of the operations, by its token.       *)
Warranted(old, new) ==
    \/ old.state # "live" /\ Spent("create", new.email)
    \/ /\ old.state = "live"
       /\ \/ new.state = "deleted" /\ Spent("delete", old.email)
          \/ new = [old EXCEPT !.email = new.email] /\ Spent("change", new.email)
          \/ new = [old EXCEPT !.password = new.password] /\ Spent("reset", old.email)

(* A row is written only on the strength of a token for that very operation  *)
(* that confirms the address the row has when it is written, or is given:    *)
(* not the one it had when the token was checked or the row looked up        *)
(* (services/passwords.py:30-36, services/users.py:51-55,93-101,151-163).    *)
RowsChangeWithProof ==
    [][\A u \in User : row'[u] # row[u] => Warranted(row[u], row'[u])]_vars

(* What is waited for waits itself only if it is a change of address at the  *)
(* unique index: an operation never holds a row while it waits for another   *)
(* row, and a registration, a reset or a deletion that holds one waits for   *)
(* nothing, so that only users who exchange addresses can block each other   *)
(* (services/users.py:51,93-97,158-169, services/passwords.py:36).           *)
OnlyChangesHoldAndWait ==
    \A r \in Request : \A q \in WaitsFor(r) :
        WaitsFor(q) # {} => Op(q) = "change" /\ At(q, "index")

(* Every operation ends: users who exchange their addresses wait for each    *)
(* other on the index, and the database fails one of them, whose locks then  *)
(* go (services/users.py:158-169, core/dependencies.py:34-39).               *)
EveryOperationEnds == \A r \in Request : At(r, "lock") ~> At(r, "over")

-----------------------------------------------------------------------------
(* What makes these inductive.                                               *)

(* Between the lock of a row and the end of the transaction.                 *)
Holds(r) ==
    \/ request[r].at \in {"update", "index", "flushed"}
    \/ Op(r) \in {"change", "delete"} /\ request[r].at \in {"getToken", "delToken"}

(* The row is as it was found, and what is to be written is for it.          *)
ChangeInv(r) ==
    LET u == Target(r)
        c == request[r].change
        e == request[r].contact
    IN /\ c.email = e
       /\ c.state = IF Op(r) = "delete" THEN "deleted" ELSE "live"
       /\ Op(r) # "create" <=> row[u].state = "live"
       /\ ~ At(r, "flushed") => row[u].state # "absent"
       /\ Op(r) = "change" => c.password = row[u].password
       /\ Op(r) # "change" /\ row[u].state # "absent" => row[u].email = e

(* The operation is past the deletion of its token.                          *)
Proved(r) ==
    \/ Op(r) \in {"create", "reset"}
       /\ request[r].at \in {"look", "lock", "insert", "update", "flushed"}
    \/ request[r].at \in {"update", "index", "flushed"} /\ NeedsToken(r, Target(r))

HandlerInv(r) ==
    /\ request[r].at \notin {"new", "over"} =>
          Op(r) # "none" /\ (Op(r) # "delete" => request[r].contact \in Address)
    /\ request[r].at \in {"look", "insert"} => Op(r) \in {"create", "reset"}
    /\ At(r, "insert") => Op(r) = "create" /\ Target(r) = None
    /\ At(r, "index") => Op(r) = "change"
    /\ At(r, "delToken") =>
          request[r].key = [action |-> Op(r), contact |-> request[r].contact]
    /\ Holds(r) => Target(r) \in User /\ lock[Target(r)] = r /\ ChangeInv(r)
    /\ Proved(r) => Spent(Op(r), request[r].contact)

(* The index: no other row has what a transaction has flushed.          *)
IndexInv ==
    /\ \A u \in User : row[u].state # "absent" <=> row[u].email \in Address
    /\ \A r \in Request : At(r, "flushed") =>
          /\ \A u \in User \ {Target(r)} : row[u].email # request[r].change.email
          /\ \A q \in Request \ {r} :
                At(q, "flushed") => request[q].change.email # request[r].change.email

(* A row is locked by an operation that works on it and has not ended.       *)
HeldInv ==
    \A r \in Request, u \in User : lock[u] = r => Holds(r) /\ Target(r) = u

AddressInv ==
    /\ AddressesAreUnique /\ IndexInv
    /\ \A r \in Request : HandlerInv(r)
=============================================================================
