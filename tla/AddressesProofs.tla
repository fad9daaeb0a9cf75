-------------------------- MODULE AddressesProofs --------------------------
(* Proofs about Addresses, for any number of users, addresses and            *)
(* operations.                                                               *)
EXTENDS Addresses, TLAPS

Entering(r) ==
    \E op \in Action, u \in User \cup {None}, e \in Address \cup {None}, k \in TokenData :
        /\ op \in {"create", "reset", "change"} => e \in Address
        /\ op \in {"change", "delete"} => u \in User
        /\ Begin(r, op, u, e, k)

Refusing(r) == RefuseToken(r) \/ RefuseAddress(r) \/ BreakDeadlock(r) \/ Rollback(r)

Working(r) ==
    \/ GetToken(r) \/ DeleteToken(r) \/ Look(r) \/ Lock(r) \/ Miss(r)
    \/ Update(r) \/ EnterIndex(r) \/ Insert(r) \/ Commit(r)

LEMMA NextCases ==
    ASSUME Next
    PROVE  \E r \in Request : Entering(r) \/ Refusing(r) \/ Working(r)
<1>1. PICK r \in Request :
        \/ \E e \in Address, k \in TokenData :
              \/ CreateUser(r, e, k) \/ UpdatePassword(r, e, k)
              \/ \E u \in User : UpdateMe(r, u, e, k)
        \/ \E u \in User, k \in TokenData : DeleteMe(r, u, k)
        \/ Serve(r)
        \/ Rollback(r)
  BY DEF Next
<1>2. ASSUME NEW e \in Address, NEW k \in TokenData,
             CreateUser(r, e, k) \/ UpdatePassword(r, e, k)
      PROVE  Entering(r)
  BY <1>2 DEF CreateUser, UpdatePassword, Entering, Action
<1>3. ASSUME NEW e \in Address, NEW k \in TokenData, NEW u \in User, UpdateMe(r, u, e, k)
      PROVE  Entering(r)
  BY <1>3 DEF UpdateMe, Entering, Action
<1>4. ASSUME NEW u \in User, NEW k \in TokenData, DeleteMe(r, u, k)
      PROVE  Entering(r)
  BY <1>4 DEF DeleteMe, Entering, Action
<1>5. Serve(r) => Refusing(r) \/ Working(r)
  BY DEF Serve, Refusing, Working
<1> QED BY <1>1, <1>2, <1>3, <1>4, <1>5 DEF Refusing

-----------------------------------------------------------------------------
(* Types.                                                                    *)

LEMMA Constants ==
    /\ NoRow \in UserRow /\ NotServed \in RequestState /\ Over \in RequestState
    /\ NotServed.at = "new" /\ Over.at = "over" /\ NotServed.op = "none" /\ Over.op = "none"
<1>1. NoRow \in UserRow
  BY DEF NoRow, UserRow
<1>2. NotServed \in RequestState /\ NotServed.at = "new" /\ NotServed.op = "none"
  BY <1>1 DEF NotServed, RequestState
<1>3. Over \in RequestState /\ Over.at = "over" /\ Over.op = "none"
  BY <1>2 DEF Over, RequestState
<1> QED BY <1>1, <1>2, <1>3

(* What an operation may write is a row.                                     *)
LEMMA ChangeType ==
    ASSUME TypeOK, NEW r \in Request, NEW u \in User,
           Op(r) = "change" => request[r].contact \in Address
    PROVE  Change(r, u) \in UserRow
<1>1. row[u] \in UserRow
  BY DEF TypeOK
<1>2. /\ [row[u] EXCEPT !.state = "live", !.password = r] \in UserRow
      /\ [row[u] EXCEPT !.password = r] \in UserRow
      /\ [row[u] EXCEPT !.state = "deleted"] \in UserRow
      /\ \A e \in Address : [row[u] EXCEPT !.email = e] \in UserRow
  BY <1>1 DEF UserRow
<1> QED BY <1>2 DEF Change

(* A request that goes on is one of the requests, the others stay.           *)
LEMMA RequestTypes ==
    ASSUME TypeOK, NEW r \in Request, NEW x \in RequestState, request' = [request EXCEPT ![r] = x],
           x.at \in {"lock", "update", "index", "flushed"} => x.user \in User
    PROVE  /\ request' \in [Request -> RequestState]
           /\ \A q \in Request :
                request'[q].at \in {"lock", "update", "index", "flushed"} => request'[q].user \in User
BY DEF TypeOK

LEMMA TypeStep ==
    ASSUME TypeOK, AddressInv, NEW r \in Request, Entering(r) \/ Refusing(r) \/ Working(r)
    PROVE  TypeOK'
<1>0. /\ request[r] \in RequestState /\ HandlerInv(r) /\ request \in [Request -> RequestState]
      /\ request[r].at \in {"lock", "update", "index", "flushed"} => request[r].user \in User
  BY DEF TypeOK, AddressInv
<1>1. Release(r) \in [User -> Request \cup {None}]
  BY DEF Release, TypeOK
<1>2. ASSUME NEW x \in RequestState, request' = [request EXCEPT ![r] = x],
             x.at \in {"lock", "update", "index", "flushed"} => x.user \in User,
             row' \in [User -> UserRow], lock' \in [User -> Request \cup {None}],
             token' \subseteq TokenData
      PROVE  TypeOK'
  BY <1>2, RequestTypes DEF TypeOK
<1>3. CASE Entering(r)
  <2>1. PICK op \in Action, u \in User \cup {None}, e \in Address \cup {None}, k \in TokenData :
           (op \in {"change", "delete"} => u \in User) /\ Begin(r, op, u, e, k)
    BY <1>3 DEF Entering
  <2> DEFINE x == [NotServed EXCEPT !.op = op, !.user = u, !.contact = e, !.key = k,
                      !.at = IF op \in {"create", "reset"} THEN "getToken" ELSE "lock"]
  <2>2. x \in RequestState /\ (x.at = "lock" => x.user \in User) /\ x.at \in {"getToken", "lock"}
    BY <2>1, Constants DEF RequestState, Action
  <2>3. request' = [request EXCEPT ![r] = x] /\ UNCHANGED <<row, lock, token>>
    BY <2>1 DEF Begin
  <2> HIDE DEF x
  <2> QED BY <1>2, <2>2, <2>3 DEF TypeOK
<1>4. CASE Refusing(r)
  <2>1. /\ lock' = Release(r) /\ request' = [request EXCEPT ![r] = Over]
        /\ UNCHANGED <<row, token>>
    BY <1>4 DEF Refusing, RefuseToken, RefuseAddress, BreakDeadlock, Rollback, End
  <2> QED BY <1>1, <1>2, <2>1, Constants DEF TypeOK
<1>5. CASE Working(r)
  <2>0. /\ row \in [User -> UserRow] /\ lock \in [User -> Request \cup {None}]
        /\ token \subseteq TokenData
    BY DEF TypeOK
  <2>1. CASE GetToken(r) \/ DeleteToken(r) \/ Update(r) \/ EnterIndex(r)
    <3>1. \E x \in {"delToken", "look", "update", "flushed", "index"} :
             /\ request' = [request EXCEPT ![r].at = x]
             /\ x \in {"update", "flushed", "index"} => request[r].user \in User
      <4>1. CASE GetToken(r)
        BY <4>1 DEF GetToken, Goto
      <4>2. CASE DeleteToken(r)
        <5>1. Op(r) \in {"create", "reset"} \/ request[r].user \in User
          BY <1>0, <4>2 DEF DeleteToken, HandlerInv, Holds, At, Target, Op, Action, RequestState
        <5> QED BY <4>2, <5>1 DEF DeleteToken, Goto
      <4>3. CASE Update(r) \/ EnterIndex(r)
        BY <1>0, <4>3 DEF Update, EnterIndex, Goto, At
      <4> QED BY <2>1, <4>1, <4>2, <4>3
    <3>2. PICK x \in {"delToken", "look", "update", "flushed", "index"} :
             /\ request' = [request EXCEPT ![r].at = x]
             /\ x \in {"update", "flushed", "index"} => request[r].user \in User
      BY <3>1
    <3>3. [request[r] EXCEPT !.at = x] \in RequestState
      BY <1>0 DEF RequestState
    <3>4. /\ request' = [request EXCEPT ![r] = [request[r] EXCEPT !.at = x]]
          /\ [request[r] EXCEPT !.at = x].at = x
          /\ [request[r] EXCEPT !.at = x].user = request[r].user
      BY <1>0, <3>2 DEF RequestState
    <3>5. UNCHANGED <<row, lock>> /\ token' \subseteq TokenData
      BY <2>0, <2>1 DEF GetToken, DeleteToken, Update, EnterIndex
    <3>6. [request[r] EXCEPT !.at = x].at \in {"lock", "update", "index", "flushed"}
            => [request[r] EXCEPT !.at = x].user \in User
      BY <3>2, <3>4
    <3> QED BY <1>2, <2>0, <3>3, <3>4, <3>5, <3>6
  <2>2. CASE Look(r) \/ Miss(r)
    <3>0. UNCHANGED <<row, lock, token>>
      BY <2>2 DEF Look, Miss
    <3>1. CASE \E u \in Found(r) : request' = [request EXCEPT ![r].user = u, ![r].at = "lock"]
      <4>1. PICK u \in User : request' = [request EXCEPT ![r].user = u, ![r].at = "lock"]
        BY <3>1 DEF Found
      <4>2. /\ [request[r] EXCEPT !.user = u, !.at = "lock"] \in RequestState
            /\ [request[r] EXCEPT !.user = u, !.at = "lock"].user = u
            /\ request' = [request EXCEPT ![r] = [request[r] EXCEPT !.user = u, !.at = "lock"]]
        BY <1>0, <4>1 DEF RequestState
      <4> QED BY <1>2, <2>0, <3>0, <4>2
    <3>2. CASE request' = [request EXCEPT ![r].at = "insert", ![r].user = None]
      <4>1. /\ [request[r] EXCEPT !.at = "insert", !.user = None] \in RequestState
            /\ [request[r] EXCEPT !.at = "insert", !.user = None].at = "insert"
            /\ request' = [request EXCEPT ![r] =
                              [request[r] EXCEPT !.at = "insert", !.user = None]]
        BY <1>0, <3>2 DEF RequestState
      <4> QED BY <1>2, <2>0, <3>0, <4>1
    <3>3. CASE End(r)
      BY <1>2, <2>0, <3>0, <3>3, Constants DEF End
    <3> QED BY <2>2, <3>1, <3>2, <3>3 DEF Look, Miss, FoundNobody
  <2>3. CASE Lock(r)
    <3> DEFINE u == Target(r)
               e == IF Op(r) = "delete" THEN row[u].email ELSE request[r].contact
               p == IF NeedsToken(r, u) THEN "getToken" ELSE "update"
               x == [request[r] EXCEPT !.change = Change(r, u), !.contact = e, !.at = p]
    <3>1. u \in User
      BY <1>0, <2>3 DEF Lock, At, Target
    <3>2. Op(r) = "change" => request[r].contact \in Address
      BY <1>0, <2>3 DEF Lock, HandlerInv, At
    <3>3. Change(r, u) \in UserRow
      BY <3>1, <3>2, ChangeType
    <3>4. e \in Address \cup {None}
      BY <1>0, <2>0, <3>1 DEF RequestState, UserRow
    <3>5. /\ request' = [request EXCEPT ![r] = x]
          /\ lock' = [lock EXCEPT ![u] = r] /\ UNCHANGED <<row, token>>
      BY <1>0, <2>3 DEF Lock, RequestState
    <3>6. x \in RequestState /\ x.user = u
      BY <1>0, <3>3, <3>4 DEF RequestState, Target
    <3>7. lock' \in [User -> Request \cup {None}]
      BY <2>0, <3>5
    <3> HIDE DEF x
    <3> QED BY <1>2, <2>0, <3>1, <3>5, <3>6, <3>7
  <2>4. CASE Insert(r)
    <3>1. PICK u \in User :
             /\ lock' = [lock EXCEPT ![u] = r]
             /\ request' = [request EXCEPT
                   ![r].at = "flushed", ![r].user = u,
                   ![r].change = [state |-> "live", email |-> request[r].contact,
                                  password |-> r]]
      BY <2>4 DEF Insert
    <3> DEFINE c == [state |-> "live", email |-> request[r].contact, password |-> r]
               x == [request[r] EXCEPT !.at = "flushed", !.user = u, !.change = c]
    <3>2. c \in UserRow
      BY <1>0 DEF RequestState, UserRow
    <3>3. x \in RequestState /\ x.user = u /\ request' = [request EXCEPT ![r] = x]
      BY <1>0, <3>1, <3>2 DEF RequestState
    <3>4. lock' \in [User -> Request \cup {None}] /\ UNCHANGED <<row, token>>
      BY <2>0, <2>4, <3>1 DEF Insert
    <3> HIDE DEF x
    <3> QED BY <1>2, <2>0, <3>3, <3>4
  <2>5. CASE Commit(r)
    <3>1. row' \in [User -> UserRow]
      BY <1>0, <2>0, <2>5 DEF Commit, RequestState
    <3> QED BY <1>1, <1>2, <2>0, <2>5, <3>1, Constants DEF Commit, End
  <2> QED BY <1>5, <2>1, <2>2, <2>3, <2>4, <2>5 DEF Working
<1> QED BY <1>3, <1>4, <1>5

-----------------------------------------------------------------------------
(* What a step leaves alone.                                                 *)

(* The locks of the other operations, and with them what they have found.    *)
LEMMA LocksStay ==
    ASSUME TypeOK, AddressInv, NEW r \in Request, Entering(r) \/ Refusing(r) \/ Working(r)
    PROVE  \A q \in Request \ {r} : /\ request'[q] = request[q]
                                    /\ Holds(q) => lock'[Target(q)] = q
<1>0. /\ request \in [Request -> RequestState] /\ lock \in [User -> Request \cup {None}]
      /\ None \notin Request
      /\ \A q \in Request : Holds(q) => Target(q) \in User /\ lock[Target(q)] = q
  BY AddressAssumption DEF TypeOK, AddressInv, HandlerInv
<1>1. \A q \in Request \ {r} : request'[q] = request[q]
  <2>1. CASE Entering(r)
    BY <1>0, <2>1 DEF Entering, Begin
  <2>2. CASE Refusing(r)
    BY <1>0, <2>2 DEF Refusing, RefuseToken, RefuseAddress, BreakDeadlock, Rollback, End
  <2>3. CASE GetToken(r) \/ DeleteToken(r) \/ Update(r) \/ EnterIndex(r) \/ Commit(r)
    BY <1>0, <2>3 DEF GetToken, DeleteToken, Update, EnterIndex, Commit, Goto, End
  <2>4. CASE Look(r) \/ Miss(r)
    BY <1>0, <2>4 DEF Look, Miss, FoundNobody, End
  <2>5. CASE Lock(r) \/ Insert(r)
    BY <1>0, <2>5 DEF Lock, Insert
  <2> QED BY <2>1, <2>2, <2>3, <2>4, <2>5 DEF Working
<1>2. \/ UNCHANGED lock \/ lock' = Release(r)
      \/ \E u \in User : lock[u] = None /\ lock' = [lock EXCEPT ![u] = r]
  <2>1. CASE Lock(r)
    <3>1. Target(r) \in User
      BY <2>1 DEF Lock, At, Target, TypeOK
    <3> QED BY <2>1, <3>1 DEF Lock
  <2>2. CASE ~ Lock(r)
    BY <2>2 DEF Entering, Begin, Refusing, RefuseToken, RefuseAddress, BreakDeadlock, Rollback,
       Working, GetToken, DeleteToken, Look, Miss, Update, EnterIndex, Insert, Commit
  <2> QED BY <2>1, <2>2
<1>3. \A q \in Request \ {r} : Holds(q) => lock'[Target(q)] = q
  BY <1>0, <1>2 DEF Release
<1> QED BY <1>1, <1>3

LEMMA OthersStay ==
    ASSUME TypeOK, AddressInv, NEW q \in Request, request'[q] = request[q], token' \subseteq token,
           Holds(q) => lock'[Target(q)] = q /\ row'[Target(q)] = row[Target(q)]
    PROVE  HandlerInv(q)'
<1>0. HandlerInv(q)
  BY DEF AddressInv
<1>1. /\ Op(q)' = Op(q) /\ Target(q)' = Target(q) /\ Holds(q)' = Holds(q)
      /\ \A x : At(q, x)' = At(q, x)
  BY DEF Op, Target, Holds, At
<1>2. Holds(q) => ChangeInv(q)'
  <2>1. Holds(q) => ChangeInv(q)
    BY <1>0 DEF HandlerInv
  <2> QED BY <1>1, <2>1 DEF ChangeInv
<1>3. Proved(q)' => Proved(q)
  BY <1>1 DEF Proved, Holds, NeedsToken
<1>4. Proved(q)' => Spent(Op(q), request[q].contact)'
  BY <1>0, <1>1, <1>3 DEF HandlerInv, Spent
<1>5. Holds(q) => Target(q) \in User /\ lock'[Target(q)] = q
  BY <1>0 DEF HandlerInv
<1> QED BY <1>0, <1>1, <1>2, <1>4, <1>5 DEF HandlerInv

(* The index, when nothing is flushed or committed.                          *)
LEMMA IndexStays ==
    ASSUME TypeOK, AddressInv, UNCHANGED row,
           \A q \in Request : request'[q].at = "flushed" => request'[q] = request[q]
    PROVE  AddressesAreUnique' /\ IndexInv'
<1>1. AddressesAreUnique'
  BY DEF AddressInv, AddressesAreUnique
<1>2. IndexInv'
  BY DEF AddressInv, IndexInv, At, Target
<1> QED BY <1>1, <1>2

LEMMA FlushStep ==
    ASSUME TypeOK, AddressInv, UNCHANGED row, NEW r \in Request,
           \A q \in Request \ {r} : request'[q] = request[q],
           \A u \in User \ {request'[r].user} : row[u].email # request'[r].change.email,
           \A q \in Request \ {r} :
              At(q, "flushed") => request[q].change.email # request'[r].change.email
    PROVE  AddressesAreUnique' /\ IndexInv'
<1>1. AddressesAreUnique'
  BY DEF AddressInv, AddressesAreUnique
<1>2. \A u \in User : row'[u].state # "absent" <=> row'[u].email \in Address
  BY DEF AddressInv, IndexInv
<1>3. ASSUME NEW p \in Request, request'[p].at = "flushed"
      PROVE  /\ \A u \in User \ {request'[p].user} : row'[u].email # request'[p].change.email
             /\ \A q \in Request \ {p} : request'[q].at = "flushed" =>
                   request'[q].change.email # request'[p].change.email
  <2>1. CASE p = r
    BY <1>3, <2>1 DEF At
  <2>2. CASE p # r
    BY <1>3, <2>2 DEF AddressInv, IndexInv, At, Target
  <2> QED BY <2>1, <2>2
<1>4. IndexInv'
  BY <1>2, <1>3 DEF IndexInv, At, Target
<1> QED BY <1>1, <1>4

-----------------------------------------------------------------------------
(* What a request knows after its own step.                                  *)

LEMMA OverInv ==
    ASSUME NEW r \in Request, request'[r] = Over
    PROVE  HandlerInv(r)'
BY Constants DEF HandlerInv, Holds, Proved, At, Op

LEMMA EnterInv ==
    ASSUME TypeOK, NEW r \in Request, Entering(r)
    PROVE  HandlerInv(r)'
<1>1. PICK op \in Action, u \in User \cup {None}, e \in Address \cup {None}, k \in TokenData :
         /\ op \in {"create", "reset", "change"} => e \in Address
         /\ Begin(r, op, u, e, k)
  BY DEF Entering
<1>2. /\ request'[r].op = op /\ request'[r].contact = e
      /\ request'[r].at = IF op \in {"create", "reset"} THEN "getToken" ELSE "lock"
  BY <1>1 DEF Begin, TypeOK, NotServed
<1>3. ~ Holds(r)' /\ ~ Proved(r)'
  BY <1>1, <1>2 DEF Holds, Proved, Op, Action
<1> QED BY <1>1, <1>2, <1>3 DEF HandlerInv, At, Op, Action

(* The steps that only move a request on.                                    *)
LEMMA MoveInv ==
    ASSUME TypeOK, AddressInv, NEW r \in Request,
           GetToken(r) \/ DeleteToken(r) \/ Update(r) \/ EnterIndex(r)
    PROVE  HandlerInv(r)'
<1>0. /\ HandlerInv(r) /\ request[r] \in RequestState /\ request \in [Request -> RequestState]
      /\ UNCHANGED <<row, lock>> /\ token' \subseteq token
  BY DEF AddressInv, TypeOK, GetToken, DeleteToken, Update, EnterIndex
<1>1. PICK x \in {"delToken", "look", "update", "flushed", "index"} :
         request' = [request EXCEPT ![r].at = x]
  BY DEF GetToken, DeleteToken, Update, EnterIndex, Goto
<1>2. /\ request'[r].at = x /\ request'[r].op = request[r].op
      /\ request'[r].user = request[r].user /\ request'[r].contact = request[r].contact
      /\ request'[r].key = request[r].key /\ request'[r].change = request[r].change
  BY <1>0, <1>1 DEF RequestState
<1>3. ASSUME Holds(r), ~ At(r, "flushed")
      PROVE  Target(r)' \in User /\ lock'[Target(r)'] = r /\ ChangeInv(r)'
  <2>1. ChangeInv(r) /\ Target(r) \in User /\ lock[Target(r)] = r
    BY <1>0, <1>3 DEF HandlerInv
  <2> QED BY <1>0, <1>2, <1>3, <2>1 DEF ChangeInv, Target, Op, At
<1>4. CASE GetToken(r)
  <2>1. x = "delToken" /\ At(r, "getToken") /\ Fits(r)
    BY <1>2, <1>4, <1>0 DEF GetToken, Goto, RequestState
  <2>2. request[r].key = [action |-> Op(r), contact |-> request[r].contact]
    BY <2>1 DEF Fits, TypeOK, TokenData
  <2>3. Holds(r)' => Holds(r) /\ ~ At(r, "flushed")
    BY <1>2, <2>1 DEF Holds, Op, At
  <2>4. ~ Proved(r)'
    BY <1>2, <2>1 DEF Proved
  <2> QED BY <1>0, <1>2, <1>3, <2>1, <2>2, <2>3, <2>4 DEF HandlerInv, At, Op, Target
<1>5. CASE DeleteToken(r)
  <2>1. /\ x = IF Op(r) \in {"create", "reset"} THEN "look" ELSE "update"
        /\ At(r, "delToken") /\ token' = token \ {request[r].key}
    BY <1>2, <1>5, <1>0 DEF DeleteToken, Goto, RequestState
  <2>2. request[r].key = [action |-> Op(r), contact |-> request[r].contact]
    BY <1>0, <2>1 DEF HandlerInv
  <2>3. Spent(Op(r), request[r].contact)'
    BY <1>2, <2>1, <2>2 DEF Spent, Op
  <2>4. Holds(r)' => Holds(r) /\ ~ At(r, "flushed")
    BY <1>0, <1>2, <2>1 DEF Holds, Op, At, HandlerInv, RequestState, Action
  <2> QED BY <1>0, <1>2, <1>3, <2>1, <2>3, <2>4 DEF HandlerInv, At, Op, Target
<1>6. CASE Update(r) \/ EnterIndex(r)
  <2>1. /\ request[r].at \in {"update", "index"} /\ x \in {"flushed", "index"}
        /\ x = "index" => At(r, "update") /\ request[r].change.email # row[Target(r)].email
    BY <1>2, <1>6, <1>0 DEF Update, EnterIndex, Goto, RequestState, At
  <2>2. Holds(r) /\ ~ At(r, "flushed")
    BY <2>1 DEF Holds, At
  <2>3. x = "index" => Op(r) = "change"
    BY <1>0, <2>1, <2>2 DEF HandlerInv, ChangeInv
  <2>4. Proved(r)' => Proved(r)
    BY <1>0, <1>2, <2>1, <2>3 DEF Proved, NeedsToken, Op, Target, HandlerInv, At
  <2>5. Proved(r)' => Spent(Op(r), request[r].contact)'
    BY <1>0, <1>2, <2>4 DEF HandlerInv, Spent, Op
  <2> QED BY <1>0, <1>2, <1>3, <2>1, <2>2, <2>3, <2>5 DEF HandlerInv, At, Op, Target
<1> QED BY <1>4, <1>5, <1>6

LEMMA FindInv ==
    ASSUME TypeOK, AddressInv, NEW r \in Request, Look(r) \/ Miss(r)
    PROVE  HandlerInv(r)'
<1>0. /\ HandlerInv(r) /\ request[r] \in RequestState /\ request \in [Request -> RequestState]
      /\ UNCHANGED <<row, lock, token>> /\ request[r].at \in {"look", "lock"}
  BY DEF AddressInv, TypeOK, Look, Miss, At
<1>1. CASE End(r)
  BY <1>0, <1>1, OverInv DEF End
<1>2. CASE /\ Op(r) \in {"create", "reset"}
           /\ \/ Op(r) = "create" /\ request' = [request EXCEPT ![r].at = "insert", ![r].user = None]
              \/ \E u \in User : request' = [request EXCEPT ![r].user = u, ![r].at = "lock"]
  <2>1. PICK u \in User \cup {None}, x \in {"lock", "insert"} :
           /\ request'[r].at = x /\ (x = "insert" => Op(r) = "create" /\ u = None)
           /\ request'[r].user = u
           /\ request'[r].op = request[r].op /\ request'[r].contact = request[r].contact
    <3>1. CASE Op(r) = "create" /\ request' = [request EXCEPT ![r].at = "insert", ![r].user = None]
      <4>1. /\ request'[r].at = "insert" /\ request'[r].user = None
            /\ request'[r].op = request[r].op /\ request'[r].contact = request[r].contact
        BY <1>0, <3>1 DEF RequestState
      <4> QED BY <3>1, <4>1
    <3>2. CASE \E u \in User : request' = [request EXCEPT ![r].user = u, ![r].at = "lock"]
      <4>1. PICK u \in User : request' = [request EXCEPT ![r].user = u, ![r].at = "lock"]
        BY <3>2
      <4>2. /\ request'[r].at = "lock" /\ request'[r].user = u
            /\ request'[r].op = request[r].op /\ request'[r].contact = request[r].contact
        BY <1>0, <4>1 DEF RequestState
      <4> QED BY <4>2
    <3> QED BY <1>2, <3>1, <3>2
  <2>2. Proved(r) /\ ~ Holds(r)'
    BY <1>0, <1>2, <2>1 DEF Proved, Holds, Op
  <2>3. Spent(Op(r), request[r].contact)'
    BY <1>0, <2>1, <2>2 DEF HandlerInv, Spent, Op
  <2> QED BY <1>0, <1>2, <2>1, <2>2, <2>3 DEF HandlerInv, At, Op, Target
<1>3. CASE Look(r)
  <2>1. Op(r) \in {"create", "reset"}
    BY <1>0, <1>3 DEF HandlerInv, Look, At
  <2> QED BY <1>1, <1>2, <1>3, <2>1 DEF Look, Found, FoundNobody
<1>4. CASE Miss(r)
  BY <1>1, <1>2, <1>4 DEF Miss, FoundNobody
<1> QED BY <1>3, <1>4

LEMMA LockInv ==
    ASSUME TypeOK, AddressInv, NEW r \in Request, Lock(r)
    PROVE  HandlerInv(r)'
<1> DEFINE u == Target(r)
           e == IF Op(r) = "delete" THEN row[u].email ELSE request[r].contact
<1>0. /\ HandlerInv(r) /\ request[r] \in RequestState /\ request \in [Request -> RequestState]
      /\ UNCHANGED <<row, token>> /\ At(r, "lock") /\ u \in User /\ row[u] \in UserRow
      /\ Op(r) \in Action
  BY DEF AddressInv, TypeOK, Lock, At, Target, HandlerInv, RequestState, Op
<1>1. /\ request'[r].op = Op(r) /\ request'[r].user = u /\ request'[r].contact = e
      /\ request'[r].change = Change(r, u) /\ lock'[u] = r
      /\ request'[r].at = IF NeedsToken(r, u) THEN "getToken" ELSE "update"
  BY <1>0 DEF Lock, RequestState, Op, Target, TypeOK
<1>2. Matches(r, u) /\ (Op(r) = "create" => row[u].state = "deleted")
  BY DEF Lock
<1>3. /\ Change(r, u).email = e
      /\ Change(r, u).state = IF Op(r) = "delete" THEN "deleted" ELSE "live"
      /\ Op(r) # "create" <=> row[u].state = "live"
      /\ row[u].state # "absent"
      /\ Op(r) = "change" => Change(r, u).password = row[u].password
      /\ Op(r) # "change" => row[u].email = e
  <2>1. CASE Op(r) = "create"
    BY <1>0, <1>2, <2>1 DEF Matches, Change, UserRow
  <2>2. CASE Op(r) = "reset"
    BY <1>0, <1>2, <2>2 DEF Matches, Change, UserRow
  <2>3. CASE Op(r) = "change"
    BY <1>0, <1>2, <2>3 DEF Matches, Change, UserRow
  <2>4. CASE Op(r) = "delete"
    BY <1>0, <1>2, <2>4 DEF Matches, Change, UserRow
  <2> QED BY <1>0, <2>1, <2>2, <2>3, <2>4 DEF Action
<1>4. /\ Op(r)' = Op(r) /\ Target(r)' = u
      /\ request'[r].at \in {"getToken", "update"} /\ row' = row
  BY <1>0, <1>1 DEF Op, Target
<1> HIDE DEF u, e
<1>5. ChangeInv(r)'
  BY <1>1, <1>3, <1>4 DEF ChangeInv
<1>6. Proved(r)' => Spent(Op(r), request[r].contact)'
  <2>1. CASE Op(r) \in {"create", "reset"}
    BY <1>0, <1>1, <1>4, <2>1 DEF HandlerInv, Proved, Spent, At, Op, e
  <2>2. CASE Op(r) \in {"change", "delete"}
    BY <1>1, <1>4, <2>2 DEF Proved, NeedsToken, e
  <2> QED BY <1>0, <2>1, <2>2 DEF Action
<1>7. Op(r) # "delete" => e \in Address
  BY <1>0 DEF HandlerInv, At, e
<1>8. Op(r) # "none"
  BY <1>0 DEF Action
<1> QED BY <1>0, <1>1, <1>4, <1>5, <1>6, <1>7, <1>8 DEF HandlerInv, At

LEMMA InsertInv ==
    ASSUME TypeOK, AddressInv, NEW r \in Request, Insert(r)
    PROVE  HandlerInv(r)'
<1>0. /\ HandlerInv(r) /\ request[r] \in RequestState /\ request \in [Request -> RequestState]
      /\ UNCHANGED <<row, token>> /\ At(r, "insert") /\ Op(r) = "create"
      /\ lock \in [User -> Request \cup {None}]
  BY DEF AddressInv, TypeOK, Insert, At, HandlerInv
<1>1. PICK u \in User :
        /\ row[u].state = "absent" /\ lock' = [lock EXCEPT ![u] = r]
        /\ request' = [request EXCEPT
              ![r].at = "flushed", ![r].user = u,
              ![r].change = [state |-> "live", email |-> request[r].contact, password |-> r]]
  BY DEF Insert
<1>2. /\ request'[r].at = "flushed" /\ request'[r].user = u /\ lock'[u] = r
      /\ request'[r].op = "create" /\ request'[r].contact = request[r].contact
      /\ request'[r].change.state = "live" /\ request'[r].change.email = request[r].contact
  BY <1>0, <1>1 DEF RequestState, Op
<1>3. ChangeInv(r)'
  BY <1>0, <1>1, <1>2 DEF ChangeInv, Op, Target, At
<1>4. Spent(Op(r), request[r].contact)'
  BY <1>0, <1>2 DEF HandlerInv, Proved, Spent, At, Op
<1> QED BY <1>0, <1>2, <1>3, <1>4 DEF HandlerInv, At, Op, Target

(* A commit gives the row the address nobody else has or has flushed.        *)
LEMMA CommitStep ==
    ASSUME TypeOK, AddressInv, NEW r \in Request, Commit(r)
    PROVE  AddressesAreUnique' /\ IndexInv'
<1> DEFINE t == Target(r)
           c == request[r].change
<1>0. /\ row \in [User -> UserRow] /\ request \in [Request -> RequestState]
      /\ HandlerInv(r) /\ AddressesAreUnique /\ IndexInv /\ At(r, "flushed") /\ t \in User
      /\ request' = [request EXCEPT ![r] = Over] /\ row' = [row EXCEPT ![t] = c]
  BY DEF AddressInv, TypeOK, Commit, End, At, Target
<1>1. /\ ChangeInv(r) /\ lock[t] = r /\ Op(r) # "none"
      /\ Op(r) # "delete" => request[r].contact \in Address
  BY <1>0 DEF HandlerInv, Holds, At
<1>2. c.email \in Address /\ c.state \in {"live", "deleted"}
  <2>1. row[t].state = "live" => row[t].email \in Address
    BY <1>0 DEF IndexInv
  <2> QED BY <1>1, <2>1 DEF ChangeInv
<1>3. \A u \in User : row'[u] = IF u = t THEN c ELSE row[u]
  BY <1>0
<1>4. \A u \in User \ {t} : row[u].email # c.email
  BY <1>0 DEF IndexInv
<1>5. \A q \in Request \ {r} : request'[q] = request[q]
  BY <1>0
<1>6. \A q \in Request \ {r} : At(q, "flushed") => Target(q) # t
  BY <1>1 DEF AddressInv, HandlerInv, Holds, At
<1>7. request'[r].at = "over"
  BY <1>0, Constants
<1> HIDE DEF t, c
<1>8. AddressesAreUnique'
  BY <1>0, <1>3, <1>4 DEF AddressesAreUnique
<1>9. \A u \in User : row'[u].state # "absent" <=> row'[u].email \in Address
  BY <1>0, <1>2, <1>3 DEF IndexInv
<1>10. ASSUME NEW p \in Request, request'[p].at = "flushed"
       PROVE  /\ \A u \in User \ {request'[p].user} : row'[u].email # request'[p].change.email
              /\ \A q \in Request \ {p} : request'[q].at = "flushed" =>
                    request'[q].change.email # request'[p].change.email
  <2>1. p # r /\ request'[p] = request[p] /\ At(p, "flushed")
    BY <1>5, <1>7, <1>10 DEF At
  <2>2. \A u \in User \ {Target(p)} : row[u].email # request[p].change.email
    BY <1>0, <2>1 DEF IndexInv
  <2>3. c.email # request[p].change.email
    BY <1>0, <2>1 DEF IndexInv, c
  <2>4. \A q \in Request \ {p} : request'[q].at = "flushed" =>
                    request'[q].change.email # request'[p].change.email
    BY <1>0, <1>5, <1>7, <2>1 DEF IndexInv, At
  <2> QED BY <1>3, <2>1, <2>2, <2>3, <2>4 DEF Target
<1> QED BY <1>8, <1>9, <1>10 DEF IndexInv, At, Target

LEMMA IndexStep ==
    ASSUME TypeOK, AddressInv, NEW r \in Request, Entering(r) \/ Refusing(r) \/ Working(r)
    PROVE  AddressesAreUnique' /\ IndexInv'
<1>0. /\ request \in [Request -> RequestState] /\ request[r] \in RequestState /\ HandlerInv(r)
      /\ AddressesAreUnique /\ IndexInv
  BY DEF TypeOK, AddressInv
<1>1. \A q \in Request \ {r} : request'[q] = request[q]
  BY LocksStay
<1>2. ASSUME UNCHANGED row, request'[r].at # "flushed"
      PROVE  AddressesAreUnique' /\ IndexInv'
  BY <1>1, <1>2, IndexStays
<1>3. CASE Entering(r)
  <2>1. UNCHANGED row /\ request'[r].at # "flushed"
    BY <1>0, <1>3 DEF Entering, Begin, NotServed
  <2> QED BY <1>2, <2>1
<1>4. CASE Refusing(r)
  <2>1. UNCHANGED row /\ request'[r] = Over
    BY <1>0, <1>4 DEF Refusing, RefuseToken, RefuseAddress, BreakDeadlock, Rollback, End
  <2> QED BY <1>2, <2>1, Constants
<1>5. CASE GetToken(r) \/ DeleteToken(r)
  <2>1. UNCHANGED row /\ request'[r].at # "flushed"
    BY <1>0, <1>5 DEF GetToken, DeleteToken, Goto, RequestState
  <2> QED BY <1>2, <2>1
<1>6. CASE Look(r) \/ Miss(r)
  <2>1. CASE End(r)
    BY <1>0, <1>2, <1>6, <2>1, Constants DEF Look, Miss, End
  <2>2. CASE ~ End(r)
    <3>1. request'[r].at # "flushed"
      BY <1>0, <1>6, <2>2 DEF Look, Miss, FoundNobody, RequestState
    <3> QED BY <1>2, <1>6, <3>1 DEF Look, Miss
  <2> QED BY <2>1, <2>2
<1>7. CASE Lock(r)
  <2>1. UNCHANGED row /\ request'[r].at # "flushed"
    BY <1>0, <1>7 DEF Lock, RequestState
  <2> QED BY <1>2, <2>1
<1>8. CASE Update(r)
  <2>1. CASE request[r].change.email = row[Target(r)].email
    <3>1. UNCHANGED row /\ request'[r] = [request[r] EXCEPT !.at = "flushed"]
      BY <1>0, <1>8, <2>1 DEF Update, Goto
    <3>2. /\ request'[r].user = Target(r) /\ request'[r].change = request[r].change
      BY <1>0, <3>1 DEF RequestState, Target
    <3>3. Holds(r) /\ ~ At(r, "flushed")
      BY <1>8 DEF Update, Holds, At
    <3>4. Target(r) \in User /\ row[Target(r)].state # "absent" /\ lock[Target(r)] = r
      BY <1>0, <3>3 DEF HandlerInv, ChangeInv
    <3>5. \A u \in User \ {Target(r)} : row[u].email # request[r].change.email
      BY <1>0, <2>1, <3>4 DEF AddressesAreUnique
    <3>6. \A q \in Request \ {r} : At(q, "flushed") => Target(q) # Target(r)
      BY <3>4 DEF AddressInv, HandlerInv, Holds, At
    <3>7. \A q \in Request \ {r} :
              At(q, "flushed") => request[q].change.email # request[r].change.email
      BY <1>0, <2>1, <3>4, <3>6 DEF IndexInv
    <3> QED BY <1>1, <3>1, <3>2, <3>5, <3>7, FlushStep
  <2>2. CASE request[r].change.email # row[Target(r)].email
    <3>1. UNCHANGED row /\ request'[r].at # "flushed"
      BY <1>0, <1>8, <2>2 DEF Update, Goto, RequestState
    <3> QED BY <1>2, <3>1
  <2> QED BY <2>1, <2>2
<1>9. CASE EnterIndex(r)
  <2>1. /\ UNCHANGED row /\ request'[r].user = Target(r)
        /\ request'[r].change = request[r].change
    BY <1>0, <1>9 DEF EnterIndex, Goto, RequestState, Target
  <2>2. request[r].change.email = request[r].contact
    BY <1>0, <1>9 DEF EnterIndex, At, HandlerInv, Holds, ChangeInv
  <2>3. \A u \in User \ {Target(r)} : row[u].email # request[r].change.email
    BY <1>9, <2>2 DEF EnterIndex, Taken
  <2>4. \A q \in Request \ {r} :
            At(q, "flushed") => request[q].change.email # request[r].change.email
    BY <1>9, <2>2 DEF EnterIndex, InTheWay
  <2> QED BY <1>1, <2>1, <2>3, <2>4, FlushStep
<1>10. CASE Insert(r)
  <2>1. PICK u \in User :
           request' = [request EXCEPT
              ![r].at = "flushed", ![r].user = u,
              ![r].change = [state |-> "live", email |-> request[r].contact, password |-> r]]
    BY <1>10 DEF Insert
  <2>2. UNCHANGED row /\ request'[r].change.email = request[r].contact
    BY <1>0, <1>10, <2>1 DEF Insert, RequestState
  <2>3. Target(r) \notin User
    BY <1>0, <1>10, AddressAssumption DEF Insert, HandlerInv
  <2>4. \A v \in User : row[v].email # request'[r].change.email
    BY <1>10, <2>2, <2>3 DEF Insert, Taken
  <2>5. \A q \in Request \ {r} :
            At(q, "flushed") => request[q].change.email # request'[r].change.email
    BY <1>10, <2>2 DEF Insert, InTheWay
  <2> QED BY <1>1, <2>2, <2>4, <2>5, FlushStep
<1>11. CASE Commit(r)
  BY <1>11, CommitStep
<1> QED BY <1>3, <1>4, <1>5, <1>6, <1>7, <1>8, <1>9, <1>10, <1>11 DEF Working

-----------------------------------------------------------------------------
(* The invariant.                                                            *)

LEMMA InitInv == Init => TypeOK /\ AddressInv
<1> SUFFICES ASSUME Init PROVE TypeOK /\ AddressInv
  OBVIOUS
<1>0. /\ \A r \in Request : request[r] = NotServed
      /\ request \in [Request -> RequestState]
  BY Constants DEF Init
<1>1. TypeOK
  BY <1>0, Constants DEF Init, TypeOK
<1>2. \A u \in User :
        \/ row[u].state = "absent" /\ row[u].email = None
        \/ row[u].state # "absent" /\ row[u].email = Owned[u] /\ Owned[u] \in Address
  <2> TAKE u \in User
  <2>1. CASE row[u] = NoRow
    BY <2>1 DEF NoRow
  <2>2. CASE \E s \in {"live", "deleted"} : row[u] = [NoRow EXCEPT !.state = s, !.email = Owned[u]]
    BY <2>2, AddressAssumption DEF NoRow
  <2> QED BY <2>1, <2>2 DEF Init
<1>3. AddressesAreUnique
  BY <1>2, AddressAssumption DEF AddressesAreUnique
<1>4. \A u \in User : row[u].state # "absent" <=> row[u].email \in Address
  BY <1>2, AddressAssumption
<1>5. IndexInv
  BY <1>0, <1>4, Constants DEF IndexInv, At
<1>6. \A r \in Request : HandlerInv(r)
  BY <1>0, Constants DEF HandlerInv, Holds, Proved, At, Op
<1> QED BY <1>1, <1>3, <1>5, <1>6 DEF AddressInv

LEMMA HandlersStep ==
    ASSUME TypeOK, AddressInv, NEW r \in Request, Entering(r) \/ Refusing(r) \/ Working(r)
    PROVE  \A q \in Request : HandlerInv(q)'
<1>0. request \in [Request -> RequestState]
  BY DEF TypeOK
<1>1. HandlerInv(r)'
  <2>1. CASE Refusing(r) \/ Commit(r)
    <3>1. request'[r] = Over
      BY <1>0, <2>1 DEF Refusing, RefuseToken, RefuseAddress, BreakDeadlock, Rollback, Commit, End
    <3> QED BY <3>1, OverInv
  <2> QED BY <2>1, EnterInv, MoveInv, FindInv, LockInv, InsertInv DEF Working
<1>2. token' \subseteq token
  BY DEF Entering, Begin, Refusing, RefuseToken, RefuseAddress, BreakDeadlock, Rollback,
     Working, GetToken, DeleteToken, Look, Miss, Lock, Update, EnterIndex, Insert, Commit
<1>3. ASSUME NEW q \in Request \ {r}, Holds(q)
      PROVE  row'[Target(q)] = row[Target(q)]
  <2>1. CASE Commit(r)
    <3>1. lock[Target(r)] = r /\ lock[Target(q)] = q /\ Target(q) \in User
      BY <1>3, <2>1 DEF AddressInv, HandlerInv, Holds, Commit, At
    <3> QED BY <2>1, <3>1 DEF Commit, TypeOK
  <2>2. CASE ~ Commit(r)
    BY <2>2 DEF Entering, Begin, Refusing, RefuseToken, RefuseAddress, BreakDeadlock, Rollback,
       Working, GetToken, DeleteToken, Look, Miss, Lock, Update, EnterIndex, Insert
  <2> QED BY <2>1, <2>2
<1>4. ASSUME NEW q \in Request \ {r}
      PROVE  HandlerInv(q)'
  <2>1. request'[q] = request[q] /\ (Holds(q) => lock'[Target(q)] = q)
    BY LocksStay
  <2> QED BY <1>2, <1>3, <2>1, OthersStay
<1> QED BY <1>1, <1>4

LEMMA InvStep == TypeOK /\ AddressInv /\ [Next]_vars => TypeOK' /\ AddressInv'
<1> SUFFICES ASSUME TypeOK, AddressInv, [Next]_vars PROVE TypeOK' /\ AddressInv'
  OBVIOUS
<1>1. CASE Next
  <2>1. PICK r \in Request : Entering(r) \/ Refusing(r) \/ Working(r)
    BY <1>1, NextCases
  <2> QED BY <2>1, TypeStep, IndexStep, HandlersStep DEF AddressInv
<1>2. CASE UNCHANGED vars
  <2>1. TypeOK'
    BY <1>2 DEF TypeOK, vars
  <2>2. AddressesAreUnique' /\ IndexInv'
    BY <1>2, IndexStays DEF vars
  <2>3. \A q \in Request : HandlerInv(q)'
    BY <1>2, OthersStay DEF vars, AddressInv, HandlerInv
  <2> QED BY <2>1, <2>2, <2>3 DEF AddressInv
<1> QED BY <1>1, <1>2

(* What a request holds and knows, and what the index keeps apart.           *)
THEOREM AddressInvariant == Spec => [](TypeOK /\ AddressInv)
<1> QED BY InitInv, InvStep, PTL DEF Spec

(* The state keeps its types.                                                *)
THEOREM TypeCorrect == Spec => []TypeOK
<1> QED BY AddressInvariant, PTL

(* No two rows of the table users ever have one address.                     *)
THEOREM AddressesUnique == Spec => []AddressesAreUnique
<1>1. AddressInv => AddressesAreUnique
  BY DEF AddressInv
<1> QED BY <1>1, AddressInvariant, PTL

-----------------------------------------------------------------------------
(* What a commit writes was proved by the token of its operation: the row    *)
(* has been locked since it was looked at, and the token is not issued anew. *)
LEMMA CommitIsProved ==
    ASSUME TypeOK, AddressInv, NEW r \in Request, Commit(r), NEW u \in User, row'[u] # row[u]
    PROVE  Warranted(row[u], row'[u])
<1> DEFINE c == request[r].change
           e == request[r].contact
<1>1. /\ u = Target(r) /\ row'[u] = c /\ c \in UserRow /\ row[u] \in UserRow
      /\ At(r, "flushed") /\ Op(r) \in Action \cup {"none"}
  BY DEF Commit, TypeOK, RequestState, Target, Op
<1>2. HandlerInv(r) /\ ChangeInv(r) /\ Op(r) \in Action
  BY <1>1 DEF AddressInv, HandlerInv, Holds, At
<1>3. /\ c.email = e /\ c.state = IF Op(r) = "delete" THEN "deleted" ELSE "live"
      /\ Op(r) # "create" <=> row[u].state = "live"
      /\ Op(r) = "change" => c.password = row[u].password
      /\ Op(r) # "change" /\ row[u].state # "absent" => row[u].email = e
  BY <1>1, <1>2 DEF ChangeInv
<1>4. Proved(r) => Spent(Op(r), e)
  BY <1>2 DEF HandlerInv
<1> HIDE DEF c, e
<1>5. CASE Op(r) = "create"
  <2>1. Proved(r)
    BY <1>1, <1>5 DEF Proved, At
  <2> QED BY <1>1, <1>3, <1>4, <1>5, <2>1 DEF Warranted
<1>6. CASE Op(r) = "delete"
  <2>1. Proved(r)
    BY <1>1, <1>6 DEF Proved, NeedsToken, At
  <2> QED BY <1>1, <1>3, <1>4, <1>6, <2>1 DEF Warranted
<1>7. CASE Op(r) = "change"
  <2>1. CASE e = row[u].email
    <3>1. c = row[u]
      BY <1>1, <1>3, <1>7, <2>1 DEF UserRow
    <3> QED BY <1>1, <3>1
  <2>2. CASE e # row[u].email
    <3>1. Proved(r)
      BY <1>1, <1>7, <2>2 DEF Proved, NeedsToken, At, e
    <3>2. c = [row[u] EXCEPT !.email = c.email]
      BY <1>1, <1>3, <1>7 DEF UserRow
    <3> QED BY <1>1, <1>3, <1>4, <1>7, <3>1, <3>2 DEF Warranted
  <2> QED BY <2>1, <2>2
<1>8. CASE Op(r) = "reset"
  <2>1. Proved(r)
    BY <1>1, <1>8 DEF Proved, At
  <2>2. c = [row[u] EXCEPT !.password = c.password]
    BY <1>1, <1>3, <1>8 DEF UserRow
  <2> QED BY <1>1, <1>3, <1>4, <1>8, <2>1, <2>2 DEF Warranted
<1> QED BY <1>2, <1>5, <1>6, <1>7, <1>8 DEF Action

(* A row is written only when the token for that operation on that address   *)
(* has been spent.                                                           *)
THEOREM ChangesAreProved == Spec => RowsChangeWithProof
<1>1. TypeOK /\ AddressInv /\ [Next]_vars =>
         [\A u \in User : row'[u] # row[u] => Warranted(row[u], row'[u])]_vars
  <2> SUFFICES ASSUME TypeOK, AddressInv, Next, NEW u \in User, row'[u] # row[u]
               PROVE  Warranted(row[u], row'[u])
    BY DEF vars
  <2>1. PICK r \in Request : Entering(r) \/ Refusing(r) \/ Working(r)
    BY NextCases
  <2>2. Commit(r)
    BY <2>1 DEF Entering, Begin, Refusing, RefuseToken, RefuseAddress, BreakDeadlock, Rollback,
       Working, GetToken, DeleteToken, Look, Miss, Lock, Update, EnterIndex, Insert
  <2> QED BY <2>2, CommitIsProved
<1> QED BY <1>1, AddressInvariant, PTL DEF Spec, RowsChangeWithProof

-----------------------------------------------------------------------------
(* Waiting.                                                                  *)

(* The row a request has locked after its own step.                          *)
LEMMA HeldStep ==
    ASSUME TypeOK, AddressInv, HeldInv, NEW r \in Request, NEW u \in User,
           Entering(r) \/ Refusing(r) \/ Working(r), lock'[u] = r
    PROVE  Holds(r)' /\ Target(r)' = u
<1>0. /\ request \in [Request -> RequestState] /\ request[r] \in RequestState
      /\ lock \in [User -> Request \cup {None}] /\ None \notin Request
      /\ lock[u] = r => Holds(r) /\ Target(r) = u
  BY AddressAssumption DEF TypeOK, HeldInv
<1>1. CASE Entering(r)
  <2>1. lock' = lock /\ At(r, "new")
    BY <1>1 DEF Entering, Begin
  <2> QED BY <1>0, <2>1 DEF Holds, At
<1>2. CASE Refusing(r) \/ Commit(r)
  <2>1. lock' = Release(r)
    BY <1>2 DEF Refusing, RefuseToken, RefuseAddress, BreakDeadlock, Rollback, Commit
  <2> QED BY <1>0, <2>1 DEF Release
<1>3. CASE GetToken(r) \/ DeleteToken(r)
  <2>1. lock' = lock /\ request[r].at \in {"getToken", "delToken"}
    BY <1>3 DEF GetToken, DeleteToken, At
  <2>2. Op(r) \in {"change", "delete"} /\ Target(r) = u
    BY <1>0, <2>1 DEF Holds
  <2>3. /\ request'[r].at \in {"delToken", "update"}
        /\ request'[r].op = request[r].op /\ request'[r].user = request[r].user
    BY <1>0, <1>3, <2>2 DEF GetToken, DeleteToken, Goto, RequestState
  <2> QED BY <2>2, <2>3 DEF Holds, Op, Target
<1>4. CASE Look(r) \/ Miss(r)
  <2>1. lock' = lock /\ request[r].at \in {"look", "lock"}
    BY <1>4 DEF Look, Miss, At
  <2> QED BY <1>0, <2>1 DEF Holds
<1>5. CASE Lock(r)
  <2>1. At(r, "lock") /\ lock' = [lock EXCEPT ![Target(r)] = r]
    BY <1>5 DEF Lock
  <2>2. ~ Holds(r)
    BY <2>1 DEF Holds, At
  <2>3. u = Target(r)
    BY <1>0, <2>1, <2>2
  <2>4. /\ request'[r].op = request[r].op /\ request'[r].user = request[r].user
        /\ request'[r].at = IF NeedsToken(r, u) THEN "getToken" ELSE "update"
    BY <1>0, <1>5, <2>3 DEF Lock, RequestState
  <2> QED BY <2>3, <2>4 DEF Holds, NeedsToken, Op, Target
<1>6. CASE Update(r) \/ EnterIndex(r)
  <2>1. lock' = lock
    BY <1>6 DEF Update, EnterIndex
  <2>2. /\ request'[r].at \in {"index", "flushed"} /\ request'[r].user = request[r].user
    BY <1>0, <1>6 DEF Update, EnterIndex, Goto, RequestState
  <2> QED BY <1>0, <2>1, <2>2 DEF Holds, Target
<1>7. CASE Insert(r)
  <2>1. PICK v \in User :
          /\ lock' = [lock EXCEPT ![v] = r]
          /\ request' = [request EXCEPT
                ![r].at = "flushed", ![r].user = v,
                ![r].change = [state |-> "live", email |-> request[r].contact,
                               password |-> r]]
    BY <1>7 DEF Insert
  <2>2. ~ Holds(r)
    BY <1>7 DEF Insert, Holds, At
  <2>3. u = v
    BY <1>0, <2>1, <2>2
  <2> QED BY <1>0, <2>1, <2>3 DEF Holds, Target, RequestState
<1> QED BY <1>1, <1>2, <1>3, <1>4, <1>5, <1>6, <1>7 DEF Working

(* No step of another gives a request a lock.                                *)
LEMMA LocksAreOwn ==
    ASSUME TypeOK, NEW r \in Request, Entering(r) \/ Refusing(r) \/ Working(r)
    PROVE  \A q \in Request \ {r}, u \in User : lock'[u] = q => lock[u] = q
<1>0. lock \in [User -> Request \cup {None}] /\ None \notin Request
  BY AddressAssumption DEF TypeOK
<1>1. \/ UNCHANGED lock \/ lock' = Release(r)
      \/ \E u \in User : lock' = [lock EXCEPT ![u] = r]
  <2>1. CASE Lock(r)
    <3>1. Target(r) \in User
      BY <2>1 DEF Lock, At, Target, TypeOK
    <3> QED BY <2>1, <3>1 DEF Lock
  <2>2. CASE ~ Lock(r)
    BY <2>2 DEF Entering, Begin, Refusing, RefuseToken, RefuseAddress, BreakDeadlock, Rollback,
       Working, GetToken, DeleteToken, Look, Miss, Update, EnterIndex, Insert, Commit
  <2> QED BY <2>1, <2>2
<1> QED BY <1>0, <1>1 DEF Release

(* Locks are held by the operations that work on the row, and by no other.   *)
THEOREM LocksAreHeld == Spec => []HeldInv
<1>1. Init => HeldInv
  BY AddressAssumption DEF Init, HeldInv
<1>2. TypeOK /\ AddressInv /\ HeldInv /\ [Next]_vars => HeldInv'
  <2> SUFFICES ASSUME TypeOK, AddressInv, HeldInv, [Next]_vars,
                      NEW q \in Request, NEW u \in User, lock'[u] = q
               PROVE  Holds(q)' /\ Target(q)' = u
    BY DEF HeldInv
  <2>1. ASSUME NEW r \in Request, Entering(r) \/ Refusing(r) \/ Working(r)
        PROVE  Holds(q)' /\ Target(q)' = u
    <3>1. CASE q = r
      BY <2>1, <3>1, HeldStep
    <3>2. CASE q # r
      <4>1. lock[u] = q /\ request'[q] = request[q]
        BY <2>1, <3>2, LocksAreOwn, LocksStay
      <4> QED BY <4>1 DEF HeldInv, Holds, Target, Op
    <3> QED BY <3>1, <3>2
  <2>2. CASE UNCHANGED vars
    BY <2>2 DEF vars, HeldInv, Holds, Target, Op
  <2> QED BY <2>1, <2>2, NextCases
<1> QED BY <1>1, <1>2, AddressInvariant, PTL DEF Spec

(* Only changes of address wait while others wait for them: no circle of     *)
(* waiting has a registration, a reset or a deletion in it                   *)
(* (services/users.py:51,93-97,158-169, services/passwords.py:36).           *)
THEOREM WaitingIsForChanges == Spec => []OnlyChangesHoldAndWait
<1>1. TypeOK /\ AddressInv /\ HeldInv => OnlyChangesHoldAndWait
  <2> SUFFICES ASSUME TypeOK, AddressInv, HeldInv, NEW r \in Request, NEW q \in WaitsFor(r),
                      WaitsFor(q) # {}
               PROVE  Op(q) = "change" /\ At(q, "index")
    BY DEF OnlyChangesHoldAndWait
  <2>1. request[q].at \in {"lock", "index", "insert"}
    BY DEF WaitsFor, At
  <2>2. q \in Request /\ (Holds(q) \/ Written(q))
    <3>1. CASE At(r, "lock")
      <4>1. /\ Target(r) \in User /\ q = lock[Target(r)] /\ q \in Request
        BY <3>1 DEF WaitsFor, TypeOK, At, Target
      <4> QED BY <4>1 DEF HeldInv
    <3>2. CASE ~ At(r, "lock")
      <4>1. q \in InTheWay(r)
        BY <3>2 DEF WaitsFor
      <4> QED BY <4>1 DEF InTheWay, Written, At
    <3> QED BY <3>1, <3>2
  <2>3. At(q, "index")
    BY <2>1, <2>2 DEF Holds, Written, At
  <2> QED BY <2>2, <2>3 DEF AddressInv, HandlerInv
<1> QED BY <1>1, AddressInvariant, LocksAreHeld, PTL
=============================================================================
