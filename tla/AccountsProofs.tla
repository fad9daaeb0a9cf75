--------------------------- MODULE AccountsProofs ---------------------------
(* Proofs about Accounts, for any number of users, administrators and        *)
(* requests.                                                                 *)
EXTENDS Accounts, TLAPS

(* The requests that enter, by whatever endpoint.                            *)
LEMMA StepCases ==
    ASSUME TypeOK, TokenInv, LockInv, [Next]_vars
    PROVE  \/ \E r \in Request, op \in {"login", "delete", "update", "admin", "reset", "create"},
                 u \in User, p \in Stamp : Begin(r, op, u, p)
           \/ \E r \in Request :
                 \/ Lock(r) \/ Refuse(r) \/ FindDeleted(r) \/ RevokeOrphans(r)
                 \/ FindNoUser(r) \/ Insert(r) \/ Flush(r) \/ Commit(r) \/ Rollback(r)
           \/ UNCHANGED vars
<1>1. \A k \in Request : Active(k) => Target(k) \in User
  BY DEF TokenInv, LockInv, At, Active
<1>2. None \in Stamp
  BY DEF Stamp
<1>3. ASSUME NEW r \in Request, NEW k \in Request, NEW p \in Stamp, UpdateMe(r, k, p)
      PROVE  \E u \in User : Begin(r, "update", u, p)
  BY <1>1, <1>3 DEF UpdateMe, Authenticated
<1>4. ASSUME NEW r \in Request, NEW k \in Request, DeleteMe(r, k)
      PROVE  \E u \in User : Begin(r, "delete", u, None)
  BY <1>1, <1>4 DEF DeleteMe, Authenticated
<1>5. ASSUME NEW r \in Request, NEW k \in Request, NEW u \in User, UpdateByAdmin(r, k, u)
      PROVE  Begin(r, "admin", u, None)
  BY <1>5 DEF UpdateByAdmin
<1>6. ASSUME NEW r \in Request, NEW u \in User, ResetPassword(r, u) \/ CreateUser(r, u)
      PROVE  Begin(r, "reset", u, None) \/ Begin(r, "create", u, None)
  BY <1>6 DEF ResetPassword, CreateUser
<1>7. ASSUME NEW r \in Request, NEW u \in User, NEW p \in Stamp, Login(r, u, p)
      PROVE  Begin(r, "login", u, p)
  BY <1>7 DEF Login
<1>8. CASE Next
  <2>1. PICK r \in Request :
          \/ \E u \in User, p \in Stamp : Login(r, u, p)
          \/ \E u \in User : ResetPassword(r, u) \/ CreateUser(r, u)
          \/ \E k \in Request, p \in Stamp : UpdateMe(r, k, p)
          \/ \E k \in Request : DeleteMe(r, k)
          \/ \E k \in Request, u \in User : UpdateByAdmin(r, k, u)
          \/ Lock(r) \/ Refuse(r) \/ FindDeleted(r) \/ RevokeOrphans(r)
          \/ FindNoUser(r) \/ Insert(r) \/ Flush(r) \/ Commit(r) \/ Rollback(r)
    BY <1>8 DEF Next
  <2> QED BY <2>1, <1>2, <1>3, <1>4, <1>5, <1>6, <1>7
<1> QED BY <1>8

(* The rows that a transaction may write are rows.                           *)
LEMMA ChangesType ==
    ASSUME NEW r \in Request, TypeOK, Target(r) \in User
    PROVE  Changes(r) \subseteq UserRow
<1>1. Row(r) \in UserRow
  BY DEF TypeOK, Row
<1>2. r \in Stamp
  BY DEF Stamp
<1>3. ASSUME NEW p \in Stamp, NEW e \in Stamp
      PROVE  [Row(r) EXCEPT !.password = p, !.email = e] \in UserRow
  BY <1>1 DEF UserRow
<1>4. Row(r).password \in Stamp /\ Row(r).email \in Stamp
  BY <1>1 DEF UserRow
<1>5. [Row(r) EXCEPT !.state = "deleted"] \in UserRow
  BY <1>1 DEF UserRow
<1>6. ASSUME NEW b \in BOOLEAN, NEW x \in Role
      PROVE  [Row(r) EXCEPT !.banned = b, !.role = x] \in UserRow
  BY <1>1 DEF UserRow
<1>7. [Row(r) EXCEPT !.password = r] \in UserRow
  BY <1>1, <1>2 DEF UserRow
<1>8. [Row(r) EXCEPT !.state = "live", !.password = r] \in UserRow
  BY <1>1, <1>2 DEF UserRow
<1>9. CASE Op(r) = "update"
  <2>1. Changes(r) = UNION {{[Row(r) EXCEPT !.password = p, !.email = e] :
                                e \in {Row(r).email, r}} :
                               p \in {Row(r).password} \cup
                                     {x \in {r} : request[r].password = Row(r).password}}
    BY <1>9 DEF Changes
  <2>2. \A p \in {Row(r).password, r} :
           {[Row(r) EXCEPT !.password = p, !.email = e] : e \in {Row(r).email, r}}
             \subseteq UserRow
    BY <1>2, <1>3, <1>4
  <2> QED BY <2>1, <2>2
<1>10. CASE Op(r) = "admin"
  <2>1. Changes(r) = UNION {{[Row(r) EXCEPT !.banned = b, !.role = x] : b \in BOOLEAN} :
                               x \in Role}
    BY <1>10 DEF Changes
  <2>2. \A x \in Role :
           {[Row(r) EXCEPT !.banned = b, !.role = x] : b \in BOOLEAN} \subseteq UserRow
    BY <1>6
  <2> QED BY <2>1, <2>2
<1>11. CASE Op(r) \notin {"update", "admin"}
  BY <1>11, <1>1, <1>5, <1>7, <1>8 DEF Changes
<1> QED BY <1>9, <1>10, <1>11

LEMMA RevokedType ==
    ASSUME TypeOK, NEW tokens
    PROVE  Revoked(tokens) \in [Request -> TokenRow]
BY DEF Revoked, TypeOK, TokenRow

LEMMA TypeStep ==
    ASSUME TypeOK, LockInv, TokenInv, [Next]_vars
    PROVE  TypeOK'
<1>0. NoRow \in UserRow /\ [NoRow EXCEPT !.state = "live"] \in UserRow
  BY DEF NoRow, UserRow, Role, Stamp
<1>1. ASSUME NEW r \in Request, NEW u \in User, NEW p \in Stamp,
             NEW op \in {"login", "delete", "update", "admin", "reset", "create"},
             Begin(r, op, u, p)
      PROVE  TypeOK'
  <2>1. [NotServed EXCEPT !.op = op, !.at = "waiting", !.target = u, !.password = p]
           \in RequestState
    BY <1>0 DEF NotServed, RequestState
  <2> QED BY <1>1, <2>1 DEF Begin, TypeOK
<1>2. ASSUME NEW r \in Request,
             \/ Lock(r) \/ Refuse(r) \/ FindDeleted(r) \/ RevokeOrphans(r)
             \/ FindNoUser(r) \/ Insert(r) \/ Flush(r) \/ Commit(r) \/ Rollback(r)
      PROVE  TypeOK'
  <2>0. Target(r) \in User
    BY <1>2 DEF LockInv, At, Lock, Refuse, FindDeleted, RevokeOrphans, FindNoUser,
                Insert, Flush, Commit, Rollback
  <2>1. \A x \in {"over", "orphaned", "inserting"} :
           [request EXCEPT ![r].at = x] \in [Request -> RequestState]
    BY DEF TypeOK, RequestState
  <2>2. \A c \in UserRow :
           [request EXCEPT ![r].at = "locked", ![r].change = c] \in [Request -> RequestState]
    <3>1. SUFFICES ASSUME NEW c \in UserRow
                   PROVE  [request[r] EXCEPT !.at = "locked", !.change = c] \in RequestState
      BY DEF TypeOK
    <3>2. request[r] \in RequestState
      BY DEF TypeOK
    <3> QED BY <3>2 DEF RequestState
  <2>3. [lock EXCEPT ![Target(r)] = r] \in [User -> Request \cup {None}]
    BY DEF TypeOK
  <2>4. Release(r) \in [User -> Request \cup {None}]
    BY DEF TypeOK, Release
  <2>5. CASE Lock(r)
    BY <2>5, <2>0, <2>2, <2>3, ChangesType DEF Lock, TypeOK
  <2>6. CASE Refuse(r) \/ FindDeleted(r) \/ FindNoUser(r)
    BY <2>6, <2>1 DEF Refuse, FindDeleted, FindNoUser, TypeOK
  <2>7. CASE RevokeOrphans(r)
    BY <2>7, <2>1, RevokedType DEF RevokeOrphans, TypeOK
  <2>8. CASE Insert(r)
    <3>1. NewRow(r) \in UserRow
      BY DEF NewRow, NoRow, UserRow, Role, Stamp
    <3> QED BY <2>8, <2>1, <2>2, <2>3, <3>1 DEF Insert, TypeOK
  <2>9. CASE Flush(r)
    <3>1. (IF Revokes(Op(r)) THEN TokensOf(Target(r)) ELSE {}) \in SUBSET Request
      BY DEF TokensOf
    <3>2. request[r] \in RequestState
      BY DEF TypeOK
    <3>3. [request[r] EXCEPT !.at = "flushed",
              !.revoked = IF Revokes(Op(r)) THEN TokensOf(Target(r)) ELSE {}] \in RequestState
      BY <3>1, <3>2 DEF RequestState
    <3> QED BY <2>9, <3>3 DEF Flush, TypeOK
  <2>10. CASE Commit(r)
    <3>1. request[r].change \in UserRow
      BY DEF TypeOK, RequestState
    <3>2. [status |-> "active", issuedTo |-> request[r].change] \in TokenRow
      BY <3>1 DEF TokenRow
    <3>3. token' \in [Request -> TokenRow]
      BY <2>10, <3>2, RevokedType DEF Commit
    <3> QED BY <2>10, <2>1, <2>4, <3>1, <3>3 DEF Commit, TypeOK
  <2>11. CASE Rollback(r)
    BY <2>11, <2>1, <2>4 DEF Rollback, TypeOK
  <2> QED BY <1>2, <2>5, <2>6, <2>7, <2>8, <2>9, <2>10, <2>11
<1>3. CASE UNCHANGED vars
  BY <1>3 DEF vars, TypeOK
<1> QED BY <1>1, <1>2, <1>3, StepCases

-----------------------------------------------------------------------------
(* What a decision under the lock amounts to.                                *)
LEMMA DecidedChange ==
    ASSUME TypeOK, BlankInv, NEW r \in Request, Target(r) \in User, Decided(r)
    PROVE  /\ Op(r) = "login" => /\ Row(r).state = "live" /\ ~ Row(r).banned
                                 /\ request[r].change = Row(r)
           /\ Op(r) = "delete" => /\ Row(r).state = "live" /\ ~ Row(r).banned
                                  /\ request[r].change = [Row(r) EXCEPT !.state = "deleted"]
           /\ Op(r) \in {"update", "reset"} =>
                 /\ Row(r).state = "live" /\ ~ Row(r).banned
                 /\ \E p, e \in Stamp :
                       request[r].change = [Row(r) EXCEPT !.password = p, !.email = e]
           /\ Op(r) = "admin" =>
                 /\ Row(r).state = "live"
                 /\ \E b \in BOOLEAN, x \in Role :
                       request[r].change = [Row(r) EXCEPT !.banned = b, !.role = x]
           /\ Op(r) = "create" =>
                 /\ Row(r).state # "live" /\ ~ Row(r).banned
                 /\ request[r].change = [Row(r) EXCEPT !.state = "live", !.password = r]
<1>1. Row(r) \in UserRow /\ request[r] \in RequestState
  BY DEF TypeOK, Row
<1>2. Row(r).password \in Stamp /\ Row(r).email \in Stamp /\ r \in Stamp
  BY <1>1 DEF UserRow, Stamp
<1>3. CASE Op(r) = "create"
  <2>1. CASE Row(r).state = "absent" /\ request[r].change = NewRow(r)
    BY <1>3, <2>1 DEF BlankInv, Row, NewRow, NoRow
  <2>2. CASE Admits(r) /\ request[r].change \in Changes(r)
    BY <1>3, <2>2 DEF Admits, Changes
  <2> QED BY <1>3, <2>1, <2>2 DEF Decided
<1>4. CASE Op(r) # "create"
  <2>1. Admits(r) /\ request[r].change \in Changes(r)
    BY <1>4 DEF Decided
  <2>2. CASE Op(r) \in {"login", "delete"}
    BY <2>1, <2>2 DEF Admits, Changes
  <2>3. CASE Op(r) = "update"
    <3>1. Row(r).state = "live" /\ ~ Row(r).banned
      BY <2>1, <2>3 DEF Admits
    <3>2. Changes(r) =
             UNION {{[Row(r) EXCEPT !.password = p, !.email = e] : e \in {Row(r).email, r}} :
                       p \in {Row(r).password} \cup
                             {x \in {r} : request[r].password = Row(r).password}}
      BY <2>3 DEF Changes
    <3>3. PICK p \in {Row(r).password, r} :
             request[r].change \in
                {[Row(r) EXCEPT !.password = p, !.email = e] : e \in {Row(r).email, r}}
      BY <2>1, <3>2
    <3> QED BY <1>2, <2>3, <3>1, <3>3
  <2>4. CASE Op(r) = "admin"
    <3>1. Row(r).state = "live"
      BY <2>1, <2>4 DEF Admits
    <3>2. Changes(r) =
             UNION {{[Row(r) EXCEPT !.banned = b, !.role = x] : b \in BOOLEAN} : x \in Role}
      BY <2>4 DEF Changes
    <3>3. PICK x \in Role :
             request[r].change \in {[Row(r) EXCEPT !.banned = b, !.role = x] : b \in BOOLEAN}
      BY <2>1, <3>2
    <3> QED BY <2>4, <3>1, <3>3
  <2>5. CASE Op(r) = "reset"
    <3>1. Row(r).state = "live" /\ ~ Row(r).banned
      BY <2>1, <2>5 DEF Admits
    <3>2. request[r].change = [Row(r) EXCEPT !.password = r]
      BY <2>1, <2>5 DEF Changes
    <3>3. request[r].change = [Row(r) EXCEPT !.password = r, !.email = Row(r).email]
      BY <1>1, <3>2 DEF UserRow
    <3> QED BY <1>2, <2>5, <3>1, <3>3
  <2> QED BY <1>1, <1>4, <2>2, <2>3, <2>4, <2>5
<1> QED BY <1>3, <1>4

(* What is admitted and written depends on the row and the request only.     *)
LEMMA SameDecision ==
    ASSUME NEW q \in Request, Op(q)' = Op(q), Row(q)' = Row(q),
           request'[q].password = request[q].password
    PROVE  (Admits(q) => Admits(q)') /\ Changes(q)' = Changes(q)
<1>1. Admits(q) => Admits(q)'
  BY DEF Admits
<1>2. Changes(q)' = Changes(q)
  BY DEF Changes
<1> QED BY <1>1, <1>2

(* A decision stands as long as the row does.                                *)
LEMMA DecidedKept ==
    ASSUME NEW q \in Request, Decided(q), Op(q)' = Op(q), Row(q)' = Row(q),
           request'[q].password = request[q].password,
           request'[q].change = request[q].change
    PROVE  Decided(q)'
BY SameDecision DEF Decided, NewRow

(* A step that changes no user and makes no token keeps what is said of      *)
(* tokens.                                                                   *)
LEMMA TokensKept ==
    ASSUME AccountsInv, user' = user,
           \A k \in Request : token[k].status # "none" =>
               request'[k].target = request[k].target /\ request'[k].at = "over",
           \A k \in Request : token'[k].status # "none" <=> token[k].status # "none",
           \A k \in Request : Active(k)' =>
               Active(k) /\ token'[k].issuedTo = token[k].issuedTo
    PROVE  /\ TokenInv' /\ OneActiveToken' /\ TokensAreInGoodStanding' /\ TokensAreCurrent'
           /\ BlankInv'
<1>1. \A k \in Request : Active(k)' => Active(k) /\ Target(k)' = Target(k) /\ Row(k)' = Row(k)
  BY DEF Target, Row, Active
<1>2. TokenInv' /\ BlankInv'
  BY DEF TokenInv, At, BlankInv, AccountsInv
<1>3. OneActiveToken'
  BY <1>1 DEF OneActiveToken, AccountsInv
<1>4. TokensAreInGoodStanding'
  BY <1>1 DEF TokensAreInGoodStanding, AccountsInv
<1>5. TokensAreCurrent'
  BY <1>1 DEF TokensAreCurrent, AccountsInv
<1> QED BY <1>2, <1>3, <1>4, <1>5

(* What holds of a transaction goes on to hold while others take their       *)
(* steps.                                                                    *)
LEMMA OthersKeep ==
    ASSUME NEW q \in Request, Kept(q), request'[q] = request[q], Row(q)' = Row(q),
           request[q].revoked \subseteq Request,
           \A k \in Request : token[k].status # "none" =>
               token'[k].status # "none" /\ Target(k)' = Target(k),
           \A k \in Request : Active(k)' /\ Target(k)' = Target(q) =>
               Active(k) /\ Target(k) = Target(q)
    PROVE  Kept(q)'
<1>1. Op(q)' = Op(q) /\ Target(q)' = Target(q) /\ At(q, "flushed")' = At(q, "flushed")
  BY DEF Op, Target, At
<1>2. Decided(q)'
  BY <1>1, DecidedKept DEF Kept
<1>3. ASSUME At(q, "flushed"), NEW k \in request[q].revoked
      PROVE  token'[k].status # "none" /\ Target(k)' = Target(q)'
  BY <1>1, <1>3 DEF Kept
<1>4. ASSUME At(q, "flushed"), Revokes(Op(q)), NEW k \in Request,
             Active(k)', Target(k)' = Target(q)'
      PROVE  k \in request'[q].revoked
  BY <1>1, <1>4 DEF Kept
<1>5. Revokes(Op(q))' <=> Revokes(Op(q))
  BY <1>1 DEF Revokes
<1> QED BY <1>1, <1>2, <1>3, <1>4, <1>5 DEF Kept

LEMMA BeginStep ==
    ASSUME TypeOK, AccountsInv, NEW r \in Request, NEW u \in User, NEW p,
           NEW op \in {"login", "delete", "update", "admin", "reset", "create"},
           Begin(r, op, u, p)
    PROVE  AccountsInv'
<1>1. /\ request[r].at = "new"
      /\ request'[r].at = "waiting" /\ request'[r].target = u /\ request'[r].op = op
      /\ \A q \in Request : q # r => request'[q] = request[q]
      /\ UNCHANGED <<user, lock, token>>
  BY DEF Begin, TypeOK, NotServed, At
<1>2. \A k \in Request : token[k].status # "none" => k # r
  BY <1>1 DEF AccountsInv, TokenInv, At
<1>3. TokenInv' /\ OneActiveToken' /\ TokensAreInGoodStanding' /\ TokensAreCurrent' /\ BlankInv'
  BY <1>1, <1>2, TokensKept DEF AccountsInv, TokenInv, Active, At
<1>4. LockInv'
  BY <1>1 DEF AccountsInv, LockInv, Target, Op, Holding, TypeOK
<1>5. ASSUME NEW q \in Request, request'[q].at \in Holding
      PROVE  Kept(q)'
  <2>1. q # r /\ request[q].at \in Holding /\ request'[q] = request[q]
    BY <1>1, <1>5 DEF Holding
  <2>2. Kept(q) /\ Row(q)' = Row(q) /\ request[q].revoked \subseteq Request
    BY <1>1, <2>1 DEF AccountsInv, HoldInv, Row, Target, TypeOK, RequestState
  <2>3. \A k \in Request : token[k].status # "none" =>
            token'[k].status # "none" /\ Target(k)' = Target(k)
    BY <1>1, <1>2 DEF Target
  <2>4. \A k \in Request : Active(k)' => Active(k) /\ Target(k)' = Target(k)
    BY <1>1, <1>2 DEF Active, Target
  <2> QED BY <2>1, <2>2, <2>3, <2>4, OthersKeep
<1>6. HoldInv'
  BY <1>5 DEF HoldInv, Holding
<1> QED BY <1>3, <1>4, <1>6 DEF AccountsInv

(* What the steps of a request that commit nothing leave alone.              *)
LEMMA QuietFrame ==
    ASSUME TypeOK, TokenInv, NEW r \in Request,
           \/ Lock(r) \/ Refuse(r) \/ FindDeleted(r) \/ RevokeOrphans(r)
           \/ FindNoUser(r) \/ Insert(r) \/ Flush(r) \/ Rollback(r)
    PROVE  /\ user' = user
           /\ \A q \in Request : /\ request'[q].op = request[q].op
                                 /\ request'[q].target = request[q].target
                                 /\ q # r => request'[q] = request[q]
           /\ \A k \in Request : token'[k].status # "none" <=> token[k].status # "none"
           /\ \A k \in Request : Active(k)' =>
                  Active(k) /\ token'[k].issuedTo = token[k].issuedTo
           /\ request[r].at \notin {"new", "over"}
           /\ token[r].status = "none"
<1>0. request[r] \in RequestState
  BY DEF TypeOK
<1>1. CASE Lock(r)
  <2>1. PICK c : request' = [request EXCEPT ![r].at = "locked", ![r].change = c]
    BY <1>1 DEF Lock
  <2> QED BY <2>1, <1>0, <1>1 DEF Lock, TypeOK, Active, At, TokenInv, RequestState
<1>2. CASE Refuse(r) \/ FindDeleted(r) \/ FindNoUser(r)
  BY <1>2 DEF Refuse, FindDeleted, FindNoUser, TypeOK, Active, At, TokenInv, RequestState
<1>3. CASE RevokeOrphans(r)
  BY <1>3 DEF RevokeOrphans, Revoked, TokensOf, TypeOK, Active, At, TokenInv, RequestState,
              TokenRow
<1>4. CASE Insert(r)
  BY <1>4 DEF Insert, TypeOK, Active, At, TokenInv, RequestState
<1>5. CASE Flush(r)
  BY <1>5 DEF Flush, TypeOK, Active, At, TokenInv, RequestState
<1>6. CASE Rollback(r)
  BY <1>6 DEF Rollback, TypeOK, Active, At, TokenInv, RequestState
<1> QED BY <1>1, <1>2, <1>3, <1>4, <1>5, <1>6

(* A lock is taken only when it is free, and with a decision.                *)
LEMMA QuietLock ==
    ASSUME TypeOK, AccountsInv, NEW r \in Request, Lock(r)
    PROVE  /\ request'[r].at = "locked"
           /\ lock[Target(r)] = None
           /\ lock' = [lock EXCEPT ![Target(r)] = r]
           /\ Decided(r)'
<1>0. request[r] \in RequestState
  BY DEF TypeOK
<1>1. PICK c \in Changes(r) :
         request' = [request EXCEPT ![r].at = "locked", ![r].change = c]
  BY DEF Lock
<1>2. /\ request'[r].at = "locked" /\ request'[r].change = c
      /\ Op(r)' = Op(r) /\ Row(r)' = Row(r) /\ request'[r].password = request[r].password
  BY <1>0, <1>1 DEF TypeOK, RequestState, Op, Row, Target, Lock
<1>3. Admits(r) => Row(r).state # "absent"
  BY DEF Admits
<1>4. Admits(r) /\ Admits(r)' /\ Changes(r)' = Changes(r)
  BY <1>2, SameDecision DEF Lock
<1>5. Decided(r)'
  BY <1>2, <1>4 DEF Decided
<1>6. lock[Target(r)] = None /\ lock' = [lock EXCEPT ![Target(r)] = r]
  BY <1>3, <1>4 DEF Lock, Readable, Free
<1> QED BY <1>2, <1>5, <1>6

LEMMA QuietStep ==
    ASSUME TypeOK, AccountsInv, NEW r \in Request,
           \/ Lock(r) \/ Refuse(r) \/ FindDeleted(r) \/ RevokeOrphans(r)
           \/ FindNoUser(r) \/ Insert(r) \/ Flush(r) \/ Rollback(r)
    PROVE  AccountsInv'
<1> USE AccountsAssumption DEF Holding
<1>0. request[r] \in RequestState /\ LockInv /\ HoldInv /\ TokenInv
  BY DEF TypeOK, AccountsInv
<1>1. /\ user' = user
      /\ \A q \in Request : /\ Op(q)' = Op(q) /\ Target(q)' = Target(q) /\ Row(q)' = Row(q)
                            /\ q # r => request'[q] = request[q]
      /\ \A k \in Request : token'[k].status # "none" <=> token[k].status # "none"
      /\ \A k \in Request : Active(k)' =>
             Active(k) /\ token'[k].issuedTo = token[k].issuedTo
      /\ Target(r) \in User /\ Op(r) # "none" /\ token[r].status = "none"
  BY <1>0, QuietFrame DEF Op, Target, Row, LockInv
<1>2. TokenInv' /\ OneActiveToken' /\ TokensAreInGoodStanding' /\ TokensAreCurrent' /\ BlankInv'
  BY <1>0, <1>1, TokensKept, QuietFrame DEF TokenInv, At, Target
<1>4. ASSUME NEW q \in Request, q # r, request[q].at \in Holding
      PROVE  Kept(q)'
  <2>1. Kept(q) /\ request[q].revoked \subseteq Request
    BY <1>0, <1>4 DEF HoldInv, TypeOK, RequestState
  <2> QED BY <1>1, <1>4, <2>1, OthersKeep
<1>5. CASE Lock(r)
  <2>1. LockInv'
    BY <1>0, <1>1, <1>5, QuietLock DEF LockInv, TypeOK
  <2>2. Kept(r)'
    BY <1>5, QuietLock DEF Kept, At
  <2>3. HoldInv'
    BY <1>1, <1>4, <2>2 DEF HoldInv
  <2> QED BY <1>2, <2>1, <2>3 DEF AccountsInv
<1>6. CASE Refuse(r) \/ FindDeleted(r) \/ RevokeOrphans(r) \/ FindNoUser(r)
  <2>1. PICK x \in {"over", "orphaned", "inserting"} :
           /\ request' = [request EXCEPT ![r].at = x]
           /\ x = "inserting" => Op(r) = "create"
    BY <1>6 DEF Refuse, FindDeleted, RevokeOrphans, FindNoUser
  <2>2. request[r].at \notin Holding /\ lock' = lock
    BY <1>6 DEF Refuse, FindDeleted, RevokeOrphans, FindNoUser, At
  <2>3. request'[r].at = x
    BY <1>0, <2>1 DEF TypeOK, RequestState
  <2>4. LockInv'
    BY <1>0, <1>1, <2>1, <2>2, <2>3 DEF LockInv, TypeOK
  <2>5. HoldInv'
    BY <1>1, <1>4, <2>3 DEF HoldInv
  <2> QED BY <1>2, <2>4, <2>5 DEF AccountsInv
<1>7. CASE Insert(r)
  <2>0. request[r].at = "inserting" /\ lock[Target(r)] = None
    BY <1>7 DEF Insert, At, Free
  <2>1. CASE Row(r).state = "absent"
    <3>1. /\ request'[r].at = "locked" /\ lock' = [lock EXCEPT ![Target(r)] = r]
          /\ request'[r].change = NewRow(r)
      BY <1>0, <1>7, <2>1 DEF Insert, TypeOK, RequestState
    <3>2. Decided(r)'
      BY <1>0, <1>1, <2>0, <2>1, <3>1 DEF LockInv, Decided, NewRow
    <3>3. HoldInv'
      BY <1>1, <1>4, <3>1, <3>2 DEF HoldInv, Kept, At
    <3>4. LockInv'
      BY <1>0, <1>1, <2>0, <3>1 DEF LockInv, TypeOK
    <3> QED BY <1>2, <3>3, <3>4 DEF AccountsInv
  <2>2. CASE Row(r).state # "absent"
    <3>1. request'[r].at = "over" /\ lock' = lock
      BY <1>0, <1>7, <2>2 DEF Insert, TypeOK, RequestState
    <3>2. LockInv'
      BY <1>0, <1>1, <2>0, <3>1 DEF LockInv, TypeOK
    <3>3. HoldInv'
      BY <1>1, <1>4, <3>1 DEF HoldInv
    <3> QED BY <1>2, <3>2, <3>3 DEF AccountsInv
  <2> QED BY <2>1, <2>2
<1>8. CASE Flush(r)
  <2>1. /\ request[r].at = "locked" /\ request'[r].at = "flushed"
        /\ request'[r].change = request[r].change
        /\ request'[r].password = request[r].password
        /\ request'[r].revoked = IF Revokes(Op(r)) THEN TokensOf(Target(r)) ELSE {}
        /\ UNCHANGED <<user, lock, token>>
    BY <1>0, <1>8 DEF Flush, At, TypeOK, RequestState
  <2>2. LockInv'
    BY <1>0, <1>1, <2>1 DEF LockInv, TypeOK
  <2>3. Decided(r)'
    BY <1>0, <1>1, <2>1, DecidedKept DEF HoldInv, Kept
  <2>4. \A k \in request'[r].revoked : token'[k].status # "none" /\ Target(k)' = Target(r)'
    BY <1>1, <2>1 DEF TokensOf, Active
  <2>5. Revokes(Op(r))' =>
            \A k \in Request : Active(k)' /\ Target(k)' = Target(r)' => k \in request'[r].revoked
    BY <1>1, <2>1 DEF TokensOf, Revokes
  <2>6. Kept(r)'
    BY <2>3, <2>4, <2>5 DEF Kept
  <2>7. HoldInv'
    BY <1>1, <1>4, <2>6 DEF HoldInv
  <2> QED BY <1>2, <2>2, <2>7 DEF AccountsInv
<1>9. CASE Rollback(r)
  <2>1. request'[r].at = "over" /\ lock' = Release(r)
    BY <1>0, <1>9 DEF Rollback, TypeOK, RequestState
  <2>2. LockInv'
    <3>1. \A u \in User : lock'[u] = IF lock[u] = r THEN None ELSE lock[u]
      BY <2>1 DEF Release
    <3> QED BY <1>0, <1>1, <2>1, <3>1 DEF LockInv, TypeOK
  <2>3. HoldInv'
    BY <1>1, <1>4, <2>1 DEF HoldInv
  <2> QED BY <1>2, <2>2, <2>3 DEF AccountsInv
<1> QED BY <1>5, <1>6, <1>7, <1>8, <1>9

(* What a commit does to tokens: whoever is active after it is the login     *)
(* itself or a token of another user.                                        *)
LEMMA CommitTokens ==
    ASSUME TypeOK, AccountsInv, NEW r \in Request, Commit(r)
    PROVE  /\ request[r].at = "flushed" /\ token[r].status = "none"
           /\ \A k \in Request \ {r} :
                 /\ token'[k].status # "none" <=> token[k].status # "none"
                 /\ Active(k)' => token'[k] = token[k]
                 /\ Active(k)' <=> Active(k) /\ k \notin request[r].revoked
                 /\ Active(k)' => Target(k) # Target(r)
           /\ token'[r] = IF Op(r) = "login"
                          THEN [status |-> "active", issuedTo |-> request[r].change]
                          ELSE token[r]
<1>0. /\ request[r] \in RequestState /\ Target(r) \in User /\ Op(r) # "none"
      /\ request[r].at = "flushed" /\ token[r].status = "none" /\ Kept(r)
      /\ BlankInv /\ TokensAreInGoodStanding
  BY DEF TypeOK, AccountsInv, LockInv, TokenInv, HoldInv, Holding, Commit, At
<1>1. ASSUME NEW k \in Request \ {r}
      PROVE  /\ token'[k].status # "none" <=> token[k].status # "none"
             /\ Active(k)' => token'[k] = token[k]
             /\ Active(k)' <=> Active(k) /\ k \notin request[r].revoked
  <2>1. token'[k] = IF k \in request[r].revoked THEN [token[k] EXCEPT !.status = "revoked"]
                                                ELSE token[k]
    BY DEF Commit, Revoked
  <2>2. token[k] \in TokenRow
    BY DEF TypeOK
  <2>3. k \in request[r].revoked => token[k].status # "none"
    BY <1>0 DEF Kept, At
  <2> QED BY <2>1, <2>2, <2>3 DEF TokenRow, Active
<1>2. ASSUME NEW k \in Request \ {r}, Active(k)'
      PROVE  Target(k) # Target(r)
  <2>1. CASE Revokes(Op(r))
    BY <1>0, <1>1, <1>2, <2>1 DEF Kept, At
  <2>2. CASE ~ Revokes(Op(r))
    <3>1. Row(r).state # "live"
      BY <1>0, <2>2, DecidedChange DEF Kept, Revokes
    <3>2. Row(k).state = "live"
      BY <1>0, <1>1, <1>2 DEF TokensAreInGoodStanding
    <3> QED BY <3>1, <3>2 DEF Row
  <2> QED BY <2>1, <2>2
<1>3. r \notin request[r].revoked
  BY <1>0 DEF Kept, At
<1>4. token'[r] = IF Op(r) = "login"
                  THEN [status |-> "active", issuedTo |-> request[r].change]
                  ELSE token[r]
  BY <1>0, <1>3 DEF Commit, Revoked, TypeOK
<1> QED BY <1>0, <1>1, <1>2, <1>4

LEMMA CommitStep ==
    ASSUME TypeOK, AccountsInv, NEW r \in Request, Commit(r)
    PROVE  AccountsInv'
<1> USE AccountsAssumption DEF Holding
<1>0. /\ request[r] \in RequestState
      /\ LockInv /\ HoldInv /\ TokenInv /\ BlankInv
      /\ OneActiveToken /\ TokensAreInGoodStanding /\ TokensAreCurrent
  BY DEF TypeOK, AccountsInv
<1>1. /\ request[r].at = "flushed" /\ request'[r].at = "over"
      /\ \A q \in Request : q # r => request'[q] = request[q]
      /\ \A q \in Request : Op(q)' = Op(q) /\ Target(q)' = Target(q)
      /\ Target(r) \in User /\ Op(r) # "none" /\ lock[Target(r)] = r
      /\ Kept(r)
  BY <1>0 DEF Commit, At, TypeOK, RequestState, Op, Target, LockInv, HoldInv
<1>2. /\ user'[Target(r)] = request[r].change
      /\ \A u \in User : u # Target(r) => user'[u] = user[u]
      /\ lock' = Release(r)
  BY <1>1 DEF Commit, TypeOK
<1>3. ASSUME NEW k \in Request, Active(k)', k # r
      PROVE  /\ Active(k) /\ token'[k] = token[k] /\ At(k, "over")
             /\ Target(k) # Target(r) /\ Row(k)' = Row(k)
  <2>1. token'[k] = token[k] /\ Active(k) /\ Target(k) # Target(r)
    BY <1>3, CommitTokens
  <2>2. At(k, "over") /\ Target(k) \in User
    BY <1>0, <2>1 DEF TokenInv, LockInv, At, Active
  <2> QED BY <1>1, <1>2, <2>1, <2>2 DEF Row
<1>4. ASSUME Active(r)'
      PROVE  /\ token'[r].issuedTo = Row(r)'
             /\ Row(r)'.state = "live" /\ ~ Row(r)'.banned
  <2>0. /\ token[r].status = "none"
        /\ token'[r] = IF Op(r) = "login"
                       THEN [status |-> "active", issuedTo |-> request[r].change]
                       ELSE token[r]
    BY CommitTokens
  <2>1. Op(r) = "login" /\ token'[r].issuedTo = request[r].change
    BY <1>4, <2>0 DEF Active
  <2>2. Row(r)' = request[r].change
    BY <1>1, <1>2 DEF Row
  <2>3. request[r].change.state = "live" /\ ~ request[r].change.banned
    BY <1>0, <1>1, <2>1, DecidedChange DEF Kept
  <2> QED BY <2>1, <2>2, <2>3
<1>5. TokenInv'
  <2>1. \A k \in Request \ {r} : token'[k].status # "none" <=> token[k].status # "none"
    BY CommitTokens
  <2> QED BY <1>0, <1>1, <2>1 DEF TokenInv, At
<1>6. OneActiveToken'
  <2>1. SUFFICES ASSUME NEW k \in Request, NEW l \in Request,
                        Active(k)', Active(l)', Target(k) = Target(l)
                 PROVE  k = l
    BY <1>1 DEF OneActiveToken
  <2>2. CASE k # r /\ l # r
    BY <1>0, <1>3, <2>1, <2>2 DEF OneActiveToken
  <2>3. CASE k = r \/ l = r
    BY <1>3, <2>1, <2>3
  <2> QED BY <2>2, <2>3
<1>7. TokensAreInGoodStanding'
  BY <1>0, <1>3, <1>4 DEF TokensAreInGoodStanding
<1>8. TokensAreCurrent'
  BY <1>0, <1>3, <1>4 DEF TokensAreCurrent
<1>9. LockInv'
  BY <1>0, <1>1, <1>2 DEF LockInv, TypeOK, Release
<1>10. ASSUME NEW q \in Request, q # r, request[q].at \in Holding
       PROVE  Kept(q)'
  <2>1. Target(q) \in User /\ Target(q) # Target(r) /\ Kept(q)
    BY <1>0, <1>1, <1>10 DEF LockInv, HoldInv
  <2>2. Row(q)' = Row(q) /\ request'[q] = request[q] /\ request[q].revoked \subseteq Request
    BY <1>1, <1>2, <1>10, <2>1 DEF Row, TypeOK, RequestState
  <2>3. \A k \in Request : token[k].status # "none" =>
            token'[k].status # "none" /\ Target(k)' = Target(k)
    BY <1>1, CommitTokens
  <2>4. \A k \in Request : Active(k)' /\ Target(k)' = Target(q) =>
            Active(k) /\ Target(k) = Target(q)
    BY <1>1, <1>3, <2>1
  <2> QED BY <2>1, <2>2, <2>3, <2>4, OthersKeep
<1>11. HoldInv'
  BY <1>1, <1>10 DEF HoldInv
<1>12. BlankInv'
  <2>1. request[r].change.state # "absent"
    <3>1. Row(r) \in UserRow /\ Op(r) \in {"login", "delete", "update", "admin", "reset", "create"}
      BY <1>0, <1>1 DEF TypeOK, Row, RequestState, Op
    <3> QED BY <1>0, <1>1, <3>1, DecidedChange DEF Kept, UserRow
  <2> QED BY <1>0, <1>2, <2>1 DEF BlankInv
<1> QED BY <1>5, <1>6, <1>7, <1>8, <1>9, <1>11, <1>12 DEF AccountsInv

-----------------------------------------------------------------------------
(* Rows, locks, tokens and requests keep their types, and the parts of the   *)
(* inductive invariant hold, however requests interleave, fail and die.      *)
THEOREM AccountsInvariant == Spec => [](TypeOK /\ AccountsInv)
<1>1. Init => TypeOK /\ AccountsInv
  <2> SUFFICES ASSUME Init PROVE TypeOK /\ AccountsInv
    OBVIOUS
  <2>1. NoRow \in UserRow /\ NotServed \in RequestState
    BY DEF NoRow, UserRow, Role, Stamp, NotServed, RequestState
  <2>2. \A u \in User, there \in SUBSET Initial : InitialRow(u, there) \in UserRow
    BY DEF InitialRow, NoRow, UserRow, Role, Stamp
  <2>3. TypeOK
    BY <2>1, <2>2 DEF Init, TypeOK, TokenRow
  <2>4. LockInv /\ HoldInv /\ BlankInv
    BY DEF Init, NotServed, LockInv, HoldInv, Holding, BlankInv, InitialRow, NoRow
  <2>5. TokenInv /\ OneActiveToken /\ TokensAreInGoodStanding /\ TokensAreCurrent
    BY DEF Init, TokenInv, OneActiveToken, TokensAreInGoodStanding, TokensAreCurrent, Active
  <2> QED BY <2>3, <2>4, <2>5 DEF AccountsInv
<1>2. TypeOK /\ AccountsInv /\ [Next]_vars => TypeOK' /\ AccountsInv'
  <2> SUFFICES ASSUME TypeOK, AccountsInv, [Next]_vars PROVE TypeOK' /\ AccountsInv'
    OBVIOUS
  <2>1. TypeOK'
    BY TypeStep DEF AccountsInv
  <2>2. CASE UNCHANGED vars
    <3>1. UNCHANGED <<user, lock, token, request>>
      BY <2>2 DEF vars
    <3>2. LockInv' /\ TokenInv' /\ BlankInv'
      BY <3>1 DEF AccountsInv, LockInv, TokenInv, BlankInv, Holding, Target, Op, At
    <3>3. HoldInv'
      <4>1. ASSUME NEW q \in Request, Kept(q)
            PROVE  Kept(q)'
        <5>1. /\ Row(q)' = Row(q) /\ request'[q] = request[q]
              /\ request[q].revoked \subseteq Request
          BY <3>1 DEF Row, Target, TypeOK, RequestState
        <5>2. \A k \in Request : Target(k)' = Target(k) /\ (Active(k)' <=> Active(k))
          BY <3>1 DEF Active, Target
        <5> QED BY <3>1, <4>1, <5>1, <5>2, OthersKeep
      <4> QED BY <3>1, <4>1 DEF AccountsInv, HoldInv, Holding
    <3>4. OneActiveToken' /\ TokensAreInGoodStanding' /\ TokensAreCurrent'
      BY <3>1 DEF AccountsInv, OneActiveToken, TokensAreInGoodStanding, TokensAreCurrent,
                  Active, Target, Row
    <3> QED BY <2>1, <3>2, <3>3, <3>4 DEF AccountsInv
  <2> QED BY <2>1, <2>2, StepCases, BeginStep, QuietStep, CommitStep DEF AccountsInv
<1> QED BY <1>1, <1>2, PTL DEF Spec

(* However many logins run at once, a user keeps one active token.           *)
THEOREM AtMostOneToken == Spec => []OneActiveToken
BY AccountsInvariant, PTL DEF AccountsInv

(* No token of a banned or deleted user is active, whichever of the ban and  *)
(* a login that runs at the same time is first.                              *)
THEOREM NoTokenOutlivesStanding == Spec => []TokensAreInGoodStanding
BY AccountsInvariant, PTL DEF AccountsInv

(* No token outlives a change of password, address, role or ban.             *)
THEOREM NoTokenOutlivesChange == Spec => []TokensAreCurrent
BY AccountsInvariant, PTL DEF AccountsInv
-----------------------------------------------------------------------------
(* Accounts implements AccountBook.                                          *)

(* A step at which neither rows nor active nor issued tokens change.         *)
LEMMA Stutters ==
    ASSUME user' = user,
           \A k \in Request : /\ Active(k)' <=> Active(k)
                              /\ Active(k) => Target(k)' = Target(k)
                              /\ token'[k].status # "none" <=> token[k].status # "none"
    PROVE  UNCHANGED Book!vars
<1>1. \A u \in User : TokensOf(u)' = TokensOf(u)
  BY DEF TokensOf
<1> QED BY <1>1 DEF Book!vars

LEMMA BeginRefines ==
    ASSUME TypeOK, AccountsInv, NEW r \in Request, NEW u \in User, NEW p,
           NEW op \in {"login", "delete", "update", "admin", "reset", "create"},
           Begin(r, op, u, p)
    PROVE  UNCHANGED Book!vars
<1>1. /\ request[r].at = "new" /\ UNCHANGED <<user, token>>
      /\ \A q \in Request : q # r => request'[q] = request[q]
  BY DEF Begin, TypeOK, At
<1>2. token[r].status = "none"
  BY <1>1 DEF AccountsInv, TokenInv, At
<1>3. \A k \in Request : /\ Active(k)' <=> Active(k)
                         /\ Active(k) => Target(k)' = Target(k)
  BY <1>1, <1>2 DEF Active, Target
<1> QED BY <1>1, <1>3, Stutters

(* Of the steps that commit nothing only the revocation of a deletion that   *)
(* finds its user gone shows.                                                *)
LEMMA QuietRefines ==
    ASSUME TypeOK, AccountsInv, NEW r \in Request,
           \/ Lock(r) \/ Refuse(r) \/ FindDeleted(r) \/ RevokeOrphans(r)
           \/ FindNoUser(r) \/ Insert(r) \/ Flush(r) \/ Rollback(r)
    PROVE  [Book!Next]_(Book!vars)
<1>1. /\ user' = user
      /\ \A k \in Request : /\ Target(k)' = Target(k)
                            /\ token'[k].status # "none" <=> token[k].status # "none"
      /\ Target(r) \in User
  BY QuietFrame DEF AccountsInv, LockInv, Target
<1>2. CASE RevokeOrphans(r)
  <2>1. PICK u \in User : u = Target(r)
    BY <1>1
  <2>2. \A k \in Request : Active(k)' <=> Active(k) /\ Target(k) # u
    BY <1>2, <2>1 DEF RevokeOrphans, Revoked, TokensOf, Active, TypeOK, TokenRow
  <2>3. TokensOf(u)' = {}
    BY <1>1, <2>2 DEF TokensOf
  <2>4. ASSUME NEW v \in User, v # u
        PROVE  TokensOf(v)' = TokensOf(v)
    <3>1. ASSUME NEW k \in Request
          PROVE  Active(k)' /\ Target(k)' = v <=> Active(k) /\ Target(k) = v
      BY <1>1, <2>2, <2>4
    <3> QED BY <3>1 DEF TokensOf
  <2>5. {k \in Request : token'[k].status # "none"} = {k \in Request : token[k].status # "none"}
    BY <1>1
  <2>6. user' = [user EXCEPT ![u] = user[u]]
    BY <1>1 DEF TypeOK
  <2>7. Book!Becomes(u, user[u])
    BY <2>3, <2>4, <2>5, <2>6 DEF Book!Becomes
  <2>8. Book!SignOut(u)
    BY <2>7 DEF Book!SignOut
  <2> QED BY <2>8 DEF Book!Next
<1>3. CASE ~ RevokeOrphans(r)
  <2>1. token' = token
    BY <1>3 DEF Lock, Refuse, FindDeleted, FindNoUser, Insert, Flush, Rollback
  <2>2. \A k \in Request : Active(k)' <=> Active(k)
    BY <2>1 DEF Active
  <2>3. \A k \in Request : /\ Active(k)' <=> Active(k)
                           /\ Active(k) => Target(k)' = Target(k)
                           /\ token'[k].status # "none" <=> token[k].status # "none"
    BY <1>1, <2>2
  <2>4. UNCHANGED Book!vars
    BY <1>1, <2>3, Stutters
  <2> QED BY <2>4
<1> QED BY <1>2, <1>3

(* A commit is the operation itself, on the account and the sessions of now. *)
LEMMA CommitRefines ==
    ASSUME TypeOK, AccountsInv, NEW r \in Request, Commit(r)
    PROVE  Book!Next
<1>0. /\ request[r].at = "flushed" /\ Kept(r) /\ token[r].status = "none"
      /\ Target(r) \in User /\ BlankInv /\ TokensAreInGoodStanding
      /\ Op(r) \in {"login", "delete", "update", "admin", "reset", "create"}
  BY CommitTokens DEF AccountsInv, LockInv, HoldInv, Holding, TypeOK, RequestState, Op
<1>1. PICK u \in User : u = Target(r)
  BY <1>0
<1>2. PICK c : c = request[r].change
  OBVIOUS
<1>3. user' = [user EXCEPT ![u] = c]
  BY <1>1, <1>2 DEF Commit
<1>4. \A k \in Request : Target(k)' = Target(k)
  BY DEF Commit, TypeOK, RequestState, Target
<1>5. token'[r] = IF Op(r) = "login" THEN [status |-> "active", issuedTo |-> c] ELSE token[r]
  BY <1>2, CommitTokens
<1>6. \A k \in Request \ {r} : token'[k].status # "none" <=> token[k].status # "none"
  BY CommitTokens
<1>7. ASSUME NEW v \in User, v # u
      PROVE  TokensOf(v)' = TokensOf(v)
  <2>1. ASSUME NEW k \in Request, Target(k) = v
        PROVE  Active(k)' <=> Active(k)
    <3>1. k # r
      BY <1>1, <1>7, <2>1
    <3>2. k \notin request[r].revoked
      BY <1>0, <1>1, <1>7, <2>1 DEF Kept, At
    <3> QED BY <3>1, <3>2, CommitTokens
  <2> QED BY <1>4, <2>1 DEF TokensOf
<1>8. \A k \in Request \ {r} : Active(k)' => Target(k) # u
  BY <1>1, CommitTokens
<1>9. user[u] = Row(r) /\ user \in [User -> UserRow]
  BY <1>1 DEF Row, TypeOK
<1>10. CASE Op(r) = "login"
  <2>1. Active(r)'
    BY <1>5, <1>10 DEF Active
  <2>2. TokensOf(u)' = {r}
    BY <1>1, <1>4, <1>8, <2>1 DEF TokensOf
  <2>3. user[u].state = "live" /\ ~ user[u].banned /\ user' = user
    BY <1>0, <1>1, <1>2, <1>3, <1>9, <1>10, DecidedChange DEF Kept
  <2>4. {k \in Request : token'[k].status # "none"}
           = {k \in Request : token[k].status # "none"} \cup {r}
    BY <1>5, <1>6, <1>10
  <2>5. Book!SignIn(u, r)
    BY <1>0, <1>7, <2>2, <2>3, <2>4 DEF Book!SignIn, Book!InUse, Book!Live
  <2> QED BY <2>5 DEF Book!Next
<1>11. CASE Op(r) # "login"
  <2>1. token'[r] = token[r]
    BY <1>5, <1>11
  <2>2. {k \in Request : token'[k].status # "none"} = {k \in Request : token[k].status # "none"}
    BY <1>6, <2>1
  <2>3. TokensOf(u)' = {}
    BY <1>0, <1>4, <1>8, <2>1 DEF TokensOf, Active
  <2>4. Book!Becomes(u, c)
    BY <1>3, <1>7, <2>2, <2>3 DEF Book!Becomes
  <2>5. CASE Op(r) = "delete"
    <3>1. Book!Leave(u)
      BY <1>0, <1>1, <1>2, <1>9, <2>4, <2>5, DecidedChange
         DEF Kept, Book!Leave, Book!InUse, Book!Live
    <3> QED BY <3>1 DEF Book!Next
  <2>6. CASE Op(r) \in {"update", "reset"}
    <3>1. /\ user[u].state = "live" /\ ~ user[u].banned
          /\ \E p, e \in Stamp :
                request[r].change = [Row(r) EXCEPT !.password = p, !.email = e]
      BY <1>0, <1>9, <2>6, DecidedChange DEF Kept
    <3>2. PICK p \in Stamp, e \in Stamp :
             request[r].change = [Row(r) EXCEPT !.password = p, !.email = e]
      BY <3>1
    <3>3. c = [user[u] EXCEPT !.password = p, !.email = e]
      BY <1>2, <1>9, <3>2
    <3>4. Book!Edit(u, p, e)
      BY <2>4, <3>1, <3>3 DEF Book!Edit, Book!InUse, Book!Live
    <3> QED BY <3>4 DEF Book!Next
  <2>7. CASE Op(r) = "admin"
    <3>1. /\ user[u].state = "live"
          /\ \E b \in BOOLEAN, x \in Role :
                request[r].change = [Row(r) EXCEPT !.banned = b, !.role = x]
      BY <1>0, <1>9, <2>7, DecidedChange DEF Kept
    <3>2. PICK b \in BOOLEAN, x \in Role :
             request[r].change = [Row(r) EXCEPT !.banned = b, !.role = x]
      BY <3>1
    <3>3. c = [user[u] EXCEPT !.banned = b, !.role = x]
      BY <1>2, <1>9, <3>2
    <3>4. Book!Moderate(u, b, x)
      BY <2>4, <3>1, <3>3 DEF Book!Moderate, Book!Live
    <3> QED BY <3>4 DEF Book!Next, Book!Role, Role
  <2>8. CASE Op(r) = "create"
    <3>1. /\ user[u].state # "live" /\ ~ user[u].banned
          /\ c = [user[u] EXCEPT !.state = "live", !.password = r]
      BY <1>0, <1>2, <1>9, <2>8, DecidedChange DEF Kept
    <3>2. TokensOf(u) = {}
      BY <1>0, <3>1 DEF TokensAreInGoodStanding, TokensOf, Row
    <3>3. r \in Stamp
      BY DEF Stamp
    <3>4. \A v \in User : TokensOf(v)' = TokensOf(v)
      BY <1>7, <2>3, <3>2
    <3>5. Book!Register(u, r)
      BY <1>3, <2>2, <3>1, <3>2, <3>4 DEF Book!Register, Book!Live
    <3> QED BY <3>3, <3>5 DEF Book!Next
  <2> QED BY <1>0, <1>11, <2>5, <2>6, <2>7, <2>8
<1> QED BY <1>10, <1>11

(* Requests that overlap, wait, fail and die leave the accounts and sessions *)
(* that the same operations leave one after the other, each applied at once  *)
(* to what is committed then.                                                *)
THEOREM Refinement == Spec => ImplementsAccountBook
<1>1. Init => Book!Init
  <2> SUFFICES ASSUME Init PROVE Book!Init
    OBVIOUS
  <2>1. PICK there \in SUBSET Initial :
           Admin \subseteq there /\ user = [u \in User |-> InitialRow(u, there)]
    BY DEF Init
  <2>2. user = [u \in User |->
                  IF u \in there
                  THEN [NoRow EXCEPT !.state = "live",
                                     !.role = IF u \in Admin THEN "admin" ELSE "user"]
                  ELSE NoRow]
    BY <2>1 DEF InitialRow
  <2>3. NoRow = Book!NoAccount
    BY DEF NoRow, Book!NoAccount
  <2>4. \A k \in Request : token[k].status = "none"
    BY DEF Init
  <2>5. \A u \in User : TokensOf(u) = {}
    BY <2>4 DEF TokensOf, Active
  <2> QED BY <2>1, <2>2, <2>3, <2>4, <2>5 DEF Book!Init
<1>2. TypeOK /\ AccountsInv /\ [Next]_vars => [Book!Next]_(Book!vars)
  <2> SUFFICES ASSUME TypeOK, AccountsInv, [Next]_vars PROVE [Book!Next]_(Book!vars)
    OBVIOUS
  <2>1. CASE UNCHANGED vars
    <3>1. UNCHANGED <<user, token, request>>
      BY <2>1 DEF vars
    <3>2. \A k \in Request : (Active(k)' <=> Active(k)) /\ Target(k)' = Target(k)
      BY <3>1 DEF Active, Target
    <3> QED BY <3>1, <3>2, Stutters
  <2> QED BY <2>1, StepCases, BeginRefines, QuietRefines, CommitRefines DEF AccountsInv
<1> QED BY <1>1, <1>2, AccountsInvariant, PTL DEF Spec, ImplementsAccountBook, Book!Spec
=============================================================================
