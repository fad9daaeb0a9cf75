------------------------ MODULE AliasLifecycleProofs ------------------------
(* Proofs about AliasLifecycle, for any number of aliases, requests,         *)
(* addresses, retries and workers.                                           *)
EXTENDS AliasLifecycle, TLAPS

USE DEF Status, Place, Running, Calls

(* The steps of a worker, on task t.                                         *)
Work(t) ==
    \/ Start(t) \/ ReadOwner(t) \/ ListForwards(t)
    \/ CallDone(t) \/ CallRejected(t) \/ CallUnavailable(t)
    \/ SaveVerdict(t) \/ Crash(t)

LEMMA EffectType ==
    ASSUME NEW m \in Mailbox, NEW call, NEW e \in Email
    PROVE  Effect(m, call, e) \in Mailbox
BY DEF Effect, Mailbox, NoMailbox

(* What every step of a worker leaves alone, and the type of what it writes. *)
LEMMA WorkType ==
    ASSUME TypeOK, NEW t \in Task, Work(t)
    PROVE  /\ task' \in [Task -> TaskState]
           /\ mailbox' \in [Alias -> Mailbox]
           /\ row' \in [Alias -> Status]
           /\ UNCHANGED <<owner, request>>
<1> USE LifecycleAssumption
<1>0. /\ t[1] \in Request /\ t[2] \in Alias
      /\ task[t] \in TaskState /\ mailbox[t[2]] \in Mailbox
  BY DEF TypeOK, Task
<1>a. \A p \in Place : Goto(t, p) \in [Task -> TaskState]
  BY <1>0 DEF Goto, TypeOK, TaskState
<1>b. \A p \in Place, n \in 0..MaxRetries : Idle(p, n) \in TaskState
  BY DEF Idle, TaskState
<1>c. Finish(t) \in [Task -> TaskState] /\ Complete(t) \in [Task -> TaskState]
  BY <1>b DEF Finish, Complete, TypeOK
<1>1. CASE Start(t)
  BY <1>1, <1>a, <1>c DEF Start, TypeOK
<1>2. CASE ReadOwner(t)
  BY <1>2, <1>0 DEF ReadOwner, TypeOK, TaskState
<1>3. CASE ListForwards(t)
  <2>1. PICK listed \in SUBSET Email :
          task' = [task EXCEPT ![t].stale = listed,
                      ![t].at = IF listed = {} THEN "forwardListAddMailbox"
                                               ELSE "forwardListDeleteMailbox"]
    BY <1>3, <1>0 DEF ListForwards, Mailbox
  <2> QED BY <2>1, <1>3, <1>0 DEF ListForwards, TypeOK, TaskState
<1>d. Arguments(t) \subseteq Email
  BY <1>0 DEF Arguments, TaskState
<1>4. CASE CallDone(t)
  <2>1. PICK e \in Arguments(t) :
          /\ mailbox' = [mailbox EXCEPT ![t[2]] = Effect(@, task[t].at, e)]
          /\ task' = AfterCall(t, e)
    BY <1>4 DEF CallDone
  <2>2. Effect(mailbox[t[2]], task[t].at, e) \in Mailbox
    BY <1>0, <1>d, EffectType
  <2>3. [task EXCEPT ![t].stale = @ \ {e},
                     ![t].at = IF task[t].stale = {e} THEN "forwardListAddMailbox" ELSE @]
          \in [Task -> TaskState]
    BY <1>0 DEF TypeOK, TaskState
  <2>4. AfterCall(t, e) \in [Task -> TaskState]
    BY <1>a, <1>c, <2>3 DEF AfterCall
  <2> QED BY <2>1, <2>2, <2>4, <1>4 DEF CallDone, TypeOK
<1>5. CASE CallRejected(t)
  BY <1>5, <1>a, <1>c DEF CallRejected, TypeOK
<1>6. CASE CallUnavailable(t)
  <2>1. PICK e \in Arguments(t) :
          \E m \in {mailbox[t[2]], Effect(mailbox[t[2]], task[t].at, e)} :
             mailbox' = [mailbox EXCEPT ![t[2]] = m]
    BY <1>6 DEF CallUnavailable
  <2>2. mailbox' \in [Alias -> Mailbox]
    BY <2>1, <1>0, <1>d, EffectType DEF TypeOK
  <2>3. Retry(t) \in [Task -> TaskState]
    <3>1. task[t].tries \in Nat /\ task[t].tries \in 0..MaxRetries
      BY <1>0 DEF TaskState
    <3>2. task[t].tries < MaxRetries => task[t].tries + 1 \in 0..MaxRetries
      BY <3>1
    <3>3. task[t].tries < MaxRetries => Idle("queued", task[t].tries + 1) \in TaskState
      BY <3>2, <1>b
    <3> QED BY <3>3, <1>c DEF Retry, TypeOK
  <2> QED BY <2>2, <2>3, <1>6 DEF CallUnavailable, TypeOK
<1>7. CASE SaveVerdict(t)
  BY <1>7, <1>c, <1>0 DEF SaveVerdict, TypeOK
<1>8. CASE Crash(t)
  BY <1>8, <1>c DEF Crash, TypeOK
<1> QED BY <1>1, <1>2, <1>3, <1>4, <1>5, <1>6, <1>7, <1>8 DEF Work

(* Type correctness: no handler, retry or call of the provider takes the     *)
(* state out of its type; in particular the count of retries stays within    *)
(* max_retries (tasks.py:22-28).                                             *)
THEOREM TypeCorrect == Spec => []TypeOK
<1> USE LifecycleAssumption
<1>1. Init => TypeOK
  <2> SUFFICES ASSUME Init PROVE TypeOK
    OBVIOUS
  <2>1. NotServed \in RequestState
    BY DEF NotServed, RequestState
  <2>2. Idle("none", 0) \in TaskState
    BY DEF Idle, TaskState
  <2>3. NoMailbox \in Mailbox /\ ForwardingTo(InitialEmail) \in Mailbox
    BY DEF NoMailbox, ForwardingTo, Mailbox
  <2> QED BY <2>1, <2>2, <2>3 DEF Init, TypeOK
<1>2. TypeOK /\ [Next]_vars => TypeOK'
  <2> SUFFICES ASSUME TypeOK, [Next]_vars PROVE TypeOK'
    OBVIOUS
  <2>0. ASSUME NEW r \in Request, NEW op, NEW rows \in SUBSET Alias,
               NEW targets \in SUBSET Alias, NEW e \in Email,
               op \in {"create", "delete", "email"}, Serve(r, op, rows, targets, e)
        PROVE  TypeOK'
    <3>1. [op |-> op, phase |-> "open", aliases |-> rows,
           unsent |-> targets, email |-> e] \in RequestState
      BY <2>0 DEF RequestState
    <3> QED BY <3>1, <2>0 DEF Serve, TypeOK
  <2>1. ASSUME NEW r \in Request, NEW a \in Alias, CreateAlias(r, a) PROVE TypeOK'
    BY <2>0, <2>1 DEF CreateAlias
  <2>2. ASSUME NEW r \in Request, NEW a \in Alias, DeleteAlias(r, a) PROVE TypeOK'
    <3>1. (IF row[a] = "absent" THEN {} ELSE {a}) \in SUBSET Alias
      OBVIOUS
    <3> QED BY <2>0, <2>2, <3>1 DEF DeleteAlias
  <2>3. ASSUME NEW r \in Request, NEW e \in Email, ChangeEmail(r, e) PROVE TypeOK'
    <3>1. ActiveAliases \in SUBSET Alias
      BY DEF ActiveAliases
    <3> QED BY <2>0, <2>3, <3>1 DEF ChangeEmail
  <2>4. ASSUME NEW r \in Request, NEW a \in Alias, Publish(r, a) PROVE TypeOK'
    <3>1. Idle("queued", 0) \in TaskState
      BY DEF Idle, TaskState
    <3>2. <<r, a>> \in Task
      BY DEF Task
    <3>3. request' \in [Request -> RequestState]
      BY <2>4 DEF Publish, TypeOK, RequestState
    <3> QED BY <2>4, <3>1, <3>2, <3>3 DEF Publish, TypeOK
  <2>5. ASSUME NEW r \in Request, Commit(r) PROVE TypeOK'
    <3>1. \A a \in Alias : CommittedStatus(r, a) \in Status
      BY DEF CommittedStatus, TypeOK
    <3>2. request' \in [Request -> RequestState]
      BY <2>5 DEF Commit, TypeOK, RequestState
    <3>3. request[r].email \in Email
      BY DEF TypeOK, RequestState
    <3> QED BY <2>5, <3>1, <3>2, <3>3 DEF Commit, TypeOK
  <2>6. ASSUME NEW r \in Request, Abort(r) PROVE TypeOK'
    <3>1. request' \in [Request -> RequestState]
      BY <2>6 DEF Abort, TypeOK, RequestState
    <3> QED BY <2>6, <3>1 DEF Abort, TypeOK
  <2>7. ASSUME NEW t \in Task, Work(t) PROVE TypeOK'
    BY <2>7, WorkType DEF TypeOK
  <2>8. CASE UNCHANGED vars
    BY <2>8 DEF vars, TypeOK
  <2> QED BY <2>1, <2>2, <2>3, <2>4, <2>5, <2>6, <2>7, <2>8 DEF Next, Work
<1> QED BY <1>1, <1>2, PTL DEF Spec

-----------------------------------------------------------------------------
(* The safety invariants.                                                    *)

LEMMA TaskPairs ==
    /\ \A t \in Task : t[1] \in Request /\ t[2] \in Alias /\ t = <<t[1], t[2]>>
    /\ \A r \in Request, a \in Alias :
          <<r, a>> \in Task /\ <<r, a>>[1] = r /\ <<r, a>>[2] = a
BY DEF Task

(* A step of a worker on task t leaves every other task, alias and mailbox   *)
(* alone, and writes the status of its alias only when it ends.              *)
LEMMA WorkFrame ==
    ASSUME TypeOK, NEW t \in Task, Work(t)
    PROVE  /\ UNCHANGED <<owner, request>>
           /\ \A u \in Task : u # t => task'[u] = task[u]
           /\ task[t].at # "none" /\ task'[t].at # "none"
           /\ \A a \in Alias : a # t[2] => row'[a] = row[a] /\ mailbox'[a] = mailbox[a]
           /\ \/ row' = row
              \/ /\ task[t].at \in {"activate", "fail"}
                 /\ task'[t].at = "over"
                 /\ row'[t[2]] \in {"active", "failed"}
                 /\ row'[t[2]] = "active" => task[t].at = "activate"
                 /\ mailbox' = mailbox
<1>0. /\ t[1] \in Request /\ t[2] \in Alias /\ task \in [Task -> TaskState]
      /\ row \in [Alias -> Status] /\ mailbox \in [Alias -> Mailbox]
      /\ task[t] \in TaskState
  BY TaskPairs DEF TypeOK
<1> DEFINE Others(f) == \A u \in Task : u # t => f[u] = task[u]
<1>a. \A p \in Place : Others(Goto(t, p)) /\ Goto(t, p)[t].at = p
  BY <1>0 DEF Goto, TaskState
<1>b. \A n \in Nat, p \in Place :
        LET f == [task EXCEPT ![t] = Idle(p, n)] IN Others(f) /\ f[t].at = p
  BY <1>0 DEF Idle
<1>c. /\ Others(Finish(t)) /\ Finish(t)[t].at = "over"
      /\ Others(Complete(t)) /\ Complete(t)[t].at = "done"
  BY <1>b DEF Finish, Complete
<1>1. CASE Start(t)
  BY <1>1, <1>0, <1>a, <1>c DEF Start, At
<1>2. CASE ReadOwner(t)
  BY <1>2, <1>0 DEF ReadOwner, TaskState, At
<1>3. CASE ListForwards(t)
  BY <1>3, <1>0 DEF ListForwards, TaskState, At
<1>4. CASE CallDone(t)
  <2>1. PICK e \in Arguments(t) :
          /\ mailbox' = [mailbox EXCEPT ![t[2]] = Effect(@, task[t].at, e)]
          /\ task' = AfterCall(t, e)
    BY <1>4 DEF CallDone
  <2>2. LET f == [task EXCEPT ![t].stale = @ \ {e},
                     ![t].at = IF task[t].stale = {e} THEN "forwardListAddMailbox" ELSE @]
        IN  Others(f) /\ f[t].at \in {task[t].at, "forwardListAddMailbox"}
    BY <1>0 DEF TaskState
  <2>3. Others(AfterCall(t, e)) /\ AfterCall(t, e)[t].at # "none"
    <3> HIDE DEF Others
    <3>1. CASE At(t, "forwardListDeleteMailbox")
      BY <2>2, <3>1 DEF AfterCall, At
    <3>2. CASE At(t, "changeMailboxSettings")
      BY <1>a, <1>c, <3>2 DEF AfterCall, At
    <3>3. CASE ~ At(t, "forwardListDeleteMailbox") /\ ~ At(t, "changeMailboxSettings")
      BY <1>a, <1>c, <3>3 DEF AfterCall, At
    <3> QED BY <3>1, <3>2, <3>3
  <2> QED BY <2>1, <2>3, <1>4, <1>0 DEF CallDone
<1>5. CASE CallRejected(t)
  BY <1>5, <1>0, <1>a, <1>c DEF CallRejected
<1>6. CASE CallUnavailable(t)
  <2>1. Others(Retry(t)) /\ Retry(t)[t].at \in {"queued", "over"}
    <3>1. task[t].tries + 1 \in Nat
      BY <1>0, LifecycleAssumption DEF TaskState
    <3> QED BY <3>1, <1>b, <1>c DEF Retry
  <2>2. \A a \in Alias : a # t[2] => mailbox'[a] = mailbox[a]
    BY <1>6, <1>0 DEF CallUnavailable
  <2> QED BY <2>1, <2>2, <1>6, <1>0 DEF CallUnavailable
<1>7. CASE SaveVerdict(t)
  BY <1>7, <1>0, <1>c DEF SaveVerdict, At
<1>8. CASE Crash(t)
  BY <1>8, <1>0, <1>c DEF Crash
<1> QED BY <1>1, <1>2, <1>3, <1>4, <1>5, <1>6, <1>7, <1>8 DEF Work

(* Serving a request changes nothing but that request, which is new.         *)
LEMMA ServeFrame ==
    ASSUME TypeOK, NEW r \in Request, NEW op, NEW rows, NEW targets, NEW e,
           Serve(r, op, rows, targets, e)
    PROVE  /\ request[r].phase = "new"
           /\ request'[r] = [op |-> op, phase |-> "open", aliases |-> rows,
                             unsent |-> targets, email |-> e]
           /\ \A q \in Request : q # r => request'[q] = request[q]
           /\ UNCHANGED <<row, owner, task, mailbox>>
BY DEF Serve, TypeOK

(* The other steps of a request change only its phase and what it has to     *)
(* publish.                                                                  *)
LEMMA RequestFrame ==
    ASSUME TypeOK, NEW r \in Request,
           Commit(r) \/ Abort(r) \/ \E a \in Alias : Publish(r, a)
    PROVE  /\ request[r].phase = "open"
           /\ \A q \in Request :
                 /\ q # r => request'[q] = request[q]
                 /\ request'[q].op = request[q].op
                 /\ request'[q].aliases = request[q].aliases
                 /\ request'[q].email = request[q].email
           /\ UNCHANGED mailbox
<1>1. CASE Commit(r)
  BY <1>1 DEF Commit, Open, TypeOK, RequestState
<1>2. CASE Abort(r)
  BY <1>2 DEF Abort, Open, TypeOK, RequestState
<1>3. CASE \E a \in Alias : Publish(r, a)
  BY <1>3 DEF Publish, Open, TypeOK, RequestState
<1> QED BY <1>1, <1>2, <1>3

(* The four shapes a step has.                                               *)
Served(r) ==
    \/ \E a \in Alias : CreateAlias(r, a) \/ DeleteAlias(r, a)
    \/ \E e \in Email : ChangeEmail(r, e)

LEMMA StepCases ==
    ASSUME [Next]_vars
    PROVE  \/ \E r \in Request : Served(r)
           \/ \E r \in Request : Commit(r) \/ Abort(r) \/ \E a \in Alias : Publish(r, a)
           \/ \E t \in Task : Work(t)
           \/ UNCHANGED vars
BY DEF Next, Served, Work

LEMMA ServedFrame ==
    ASSUME TypeOK, NEW r \in Request, Served(r)
    PROVE  /\ request[r].phase = "new" /\ request'[r].phase = "open"
           /\ request'[r].unsent \subseteq Alias
           /\ request'[r].op \in {"create", "delete", "email"}
           /\ request'[r].op = "create" =>
                 \E a \in Alias : /\ request'[r].aliases = {a}
                                  /\ request'[r].unsent = {a}
                                  /\ row[a] = "absent"
                                  /\ \A q \in Request : ~ Creates(q, a)
           /\ request'[r].op = "delete" =>
                 \A a \in request'[r].aliases : row[a] # "absent"
           /\ \A q \in Request : q # r => request'[q] = request[q]
           /\ UNCHANGED <<row, owner, task, mailbox>>
<1>1. ASSUME NEW a \in Alias, CreateAlias(r, a)
      PROVE  /\ Serve(r, "create", {a}, {a}, InitialEmail)
             /\ row[a] = "absent"
             /\ \A q \in Request : ~ Creates(q, a)
  BY <1>1 DEF CreateAlias, Creates
<1>2. ASSUME NEW a \in Alias, DeleteAlias(r, a)
      PROVE  Serve(r, "delete", IF row[a] = "absent" THEN {} ELSE {a}, {a}, InitialEmail)
  BY <1>2 DEF DeleteAlias
<1>3. ASSUME NEW e \in Email, ChangeEmail(r, e)
      PROVE  Serve(r, "email", ActiveAliases, ActiveAliases, e)
  BY <1>3 DEF ChangeEmail
<1>4. CASE \E a \in Alias : CreateAlias(r, a)
  <2>1. PICK a \in Alias : CreateAlias(r, a)
    BY <1>4
  <2>2. /\ Serve(r, "create", {a}, {a}, InitialEmail)
        /\ row[a] = "absent"
        /\ \A q \in Request : ~ Creates(q, a)
    BY <2>1, <1>1
  <2>3. /\ request[r].phase = "new"
        /\ request'[r] = [op |-> "create", phase |-> "open", aliases |-> {a},
                          unsent |-> {a}, email |-> InitialEmail]
        /\ \A q \in Request : q # r => request'[q] = request[q]
        /\ UNCHANGED <<row, owner, task, mailbox>>
    BY <2>2, ServeFrame
  <2> QED BY <2>2, <2>3
<1>5. CASE \E a \in Alias : DeleteAlias(r, a)
  <2>1. PICK a \in Alias : DeleteAlias(r, a)
    BY <1>5
  <2> DEFINE rows == IF row[a] = "absent" THEN {} ELSE {a}
  <2>2. Serve(r, "delete", rows, {a}, InitialEmail)
    BY <2>1, <1>2
  <2>3. \A b \in rows : row[b] # "absent"
    OBVIOUS
  <2> HIDE DEF rows
  <2>4. /\ request[r].phase = "new"
        /\ request'[r] = [op |-> "delete", phase |-> "open", aliases |-> rows,
                          unsent |-> {a}, email |-> InitialEmail]
        /\ \A q \in Request : q # r => request'[q] = request[q]
        /\ UNCHANGED <<row, owner, task, mailbox>>
    BY <2>2, ServeFrame
  <2> QED BY <2>3, <2>4
<1>6. CASE \E e \in Email : ChangeEmail(r, e)
  <2>1. PICK e \in Email : ChangeEmail(r, e)
    BY <1>6
  <2>2. Serve(r, "email", ActiveAliases, ActiveAliases, e) /\ ActiveAliases \subseteq Alias
    BY <2>1, <1>3 DEF ActiveAliases
  <2>3. /\ request[r].phase = "new"
        /\ request'[r] = [op |-> "email", phase |-> "open", aliases |-> ActiveAliases,
                          unsent |-> ActiveAliases, email |-> e]
        /\ \A q \in Request : q # r => request'[q] = request[q]
        /\ UNCHANGED <<row, owner, task, mailbox>>
    BY <2>2, ServeFrame
  <2> QED BY <2>2, <2>3
<1> QED BY <1>4, <1>5, <1>6 DEF Served

(* Rows are never removed, deletions and changes of address never undone.    *)
LEMMA Monotone ==
    ASSUME TypeOK, [Next]_vars
    PROVE  /\ \A a \in Alias : row[a] # "absent" => row'[a] # "absent"
           /\ \A a \in Alias : DeleteCommitted(a) => DeleteCommitted(a)'
           /\ OwnedEmails \subseteq OwnedEmails'
<1>1. ASSUME NEW r \in Request, Served(r)
      PROVE  /\ row' = row
             /\ \A q \in Request : request[q].phase = "committed" => request'[q] = request[q]
  BY <1>1, ServedFrame
<1>2. ASSUME NEW r \in Request,
             Commit(r) \/ Abort(r) \/ \E a \in Alias : Publish(r, a)
      PROVE  /\ \A a \in Alias : row[a] # "absent" => row'[a] # "absent"
             /\ \A q \in Request : request[q].phase = "committed" => request'[q] = request[q]
  <2>1. \A q \in Request : request[q].phase = "committed" => request'[q] = request[q]
    BY <1>2, RequestFrame
  <2>2. \A a \in Alias : row[a] # "absent" => CommittedStatus(r, a) # "absent"
    BY DEF CommittedStatus
  <2> QED BY <1>2, <2>1, <2>2 DEF Commit, Abort, Publish, TypeOK
<1>3. ASSUME NEW t \in Task, Work(t)
      PROVE  /\ \A a \in Alias : row[a] # "absent" => row'[a] # "absent"
             /\ request' = request
  BY <1>3, WorkFrame
<1>4. CASE UNCHANGED vars
  BY <1>4 DEF vars, DeleteCommitted, OwnedEmails
<1>5. /\ \A a \in Alias : row[a] # "absent" => row'[a] # "absent"
      /\ \A q \in Request : request[q].phase = "committed" => request'[q] = request[q]
  BY <1>1, <1>2, <1>3, <1>4, StepCases DEF vars
<1> QED BY <1>5 DEF DeleteCommitted, OwnedEmails

-----------------------------------------------------------------------------

LEMMA RequestInvStep ==
    ASSUME TypeOK, RequestInv, [Next]_vars
    PROVE  RequestInv'
<1>0. \A r \in Request : request[r].unsent \subseteq Alias
  BY DEF TypeOK, RequestState
<1>1. ASSUME NEW r \in Request, Served(r) PROVE RequestInv'
  BY <1>1, ServedFrame DEF RequestInv
<1>2. ASSUME NEW r \in Request, NEW a \in Alias, Publish(r, a) PROVE RequestInv'
  <2>1. /\ request'[r].unsent = request[r].unsent \ {a}
        /\ request'[r].phase = "open" /\ request[r].phase = "open"
        /\ a \in request[r].unsent
    BY <1>2 DEF Publish, Open, TypeOK, RequestState
  <2>2. /\ \A q \in Request, b \in Alias :
              <<q, b>> # <<r, a>> => task'[<<q, b>>] = task[<<q, b>>]
        /\ task'[<<r, a>>] = Idle("queued", 0)
    BY <1>2, TaskPairs DEF Publish, TypeOK
  <2> QED BY <2>1, <2>2, <1>2, RequestFrame DEF RequestInv
<1>3. ASSUME NEW r \in Request, Commit(r) \/ Abort(r) PROVE RequestInv'
  <2>1. task' = task /\ request'[r].unsent = {} /\ request'[r].phase # "new"
    BY <1>3 DEF Commit, Abort, Open, TypeOK, RequestState
  <2> QED BY <2>1, <1>3, RequestFrame DEF RequestInv
<1>4. ASSUME NEW t \in Task, Work(t) PROVE RequestInv'
  BY <1>4, WorkFrame, TaskPairs DEF RequestInv
<1>5. CASE UNCHANGED vars
  BY <1>5 DEF vars, RequestInv
<1> QED BY <1>1, <1>2, <1>3, <1>4, <1>5, StepCases

LEMMA CreationInvStep ==
    ASSUME TypeOK, LifecycleInv, [Next]_vars
    PROVE  CreationInv'
<1> USE DEF LifecycleInv
<1>1. ASSUME NEW r \in Request, Served(r) PROVE CreationInv'
  <2>1. \A q \in Request, b \in Alias : q # r => (Creates(q, b)' <=> Creates(q, b))
    BY <1>1, ServedFrame DEF Creates
  <2>2. \A b \in Alias : Creates(r, b)' =>
           /\ row[b] = "absent" /\ b \in request'[r].unsent
           /\ \A q \in Request : ~ Creates(q, b)
    BY <1>1, ServedFrame DEF Creates
  <2>3. /\ request'[r].phase = "open"
        /\ \A q \in Request : q # r => request'[q] = request[q]
        /\ row' = row /\ task' = task
    BY <1>1, ServedFrame
  <2> QED BY <2>1, <2>2, <2>3 DEF CreationInv
<1>2. ASSUME NEW r \in Request, NEW a \in Alias, Publish(r, a) PROVE CreationInv'
  <2>1. \A q \in Request, b \in Alias : Creates(q, b)' <=> Creates(q, b)
    BY <1>2, RequestFrame DEF Creates
  <2>2. /\ request'[r].unsent = request[r].unsent \ {a}
        /\ request'[r].phase = "open" /\ request[r].phase = "open"
    BY <1>2 DEF Publish, Open, TypeOK, RequestState
  <2>3. /\ \A q \in Request, b \in Alias :
              <<q, b>> # <<r, a>> => task'[<<q, b>>] = task[<<q, b>>]
        /\ task'[<<r, a>>].at = "queued"
        /\ row' = row
    BY <1>2, TaskPairs DEF Publish, TypeOK, Idle
  <2> QED BY <2>1, <2>2, <2>3, <1>2, RequestFrame DEF CreationInv
<1>3. ASSUME NEW r \in Request, Commit(r) PROVE CreationInv'
  <2>1. \A q \in Request, b \in Alias : Creates(q, b)' <=> Creates(q, b)
    BY <1>3, RequestFrame DEF Creates
  <2>2. /\ request[r].phase = "open" /\ request[r].unsent = {}
        /\ request'[r].phase = "committed" /\ request'[r].unsent = {}
        /\ task' = task
        /\ \A b \in Alias : row'[b] = CommittedStatus(r, b)
    BY <1>3 DEF Commit, Open, TypeOK, RequestState
  <2>3. \A b \in Alias : Creates(r, b) => row'[b] = "pending"
    BY <2>2 DEF Creates, CommittedStatus
  <2>4. \A b \in Alias : ~ Creates(r, b) => (row'[b] # "absent" <=> row[b] # "absent")
    BY <2>2 DEF Creates, CommittedStatus, DeletionInv
  <2> QED BY <2>1, <2>2, <2>3, <2>4, <1>3, RequestFrame DEF CreationInv
<1>4. ASSUME NEW r \in Request, Abort(r) PROVE CreationInv'
  <2>1. \A q \in Request, b \in Alias : Creates(q, b)' <=> Creates(q, b)
    BY <1>4, RequestFrame DEF Creates
  <2>2. /\ request[r].phase = "open" /\ request'[r].phase = "aborted"
        /\ row' = row /\ task' = task
    BY <1>4 DEF Abort, Open, TypeOK, RequestState
  <2> QED BY <2>1, <2>2, <1>4, RequestFrame DEF CreationInv
<1>5. ASSUME NEW t \in Task, Work(t) PROVE CreationInv'
  <2>1. \A b \in Alias : row'[b] # "absent" <=> row[b] # "absent"
    BY <1>5, WorkFrame, TaskPairs DEF TaskInv
  <2>2. request' = request
    BY <1>5, WorkFrame
  <2>3. \A q \in Request, b \in Alias :
           task[<<q, b>>].at # "none" => task'[<<q, b>>].at # "none"
    BY <1>5, WorkFrame, TaskPairs
  <2> QED BY <2>1, <2>2, <2>3 DEF CreationInv, Creates
<1>6. CASE UNCHANGED vars
  BY <1>6 DEF vars, CreationInv, Creates
<1> QED BY <1>1, <1>2, <1>3, <1>4, <1>5, <1>6, StepCases

-----------------------------------------------------------------------------
(* Where a step of a worker takes its task, and with which address.          *)
LEMMA WorkTask ==
    ASSUME TypeOK, NEW t \in Task, Work(t)
    PROVE  /\ task'[t].email \in {task[t].email, owner, InitialEmail}
           /\ task'[t].at \in Running =>
                 task[t].at \in Running \/ Proceeds(Op(t), row[t[2]])
           /\ task'[t].at \in {"createMailbox", "fail"} => Op(t) = "create"
           /\ task'[t].at = "dropMailbox" =>
                 Op(t) = "delete" /\ Proceeds(Op(t), row[t[2]])
           /\ task'[t].at = "activate" =>
                 /\ Op(t) = "create" /\ task[t].at = "changeMailboxSettings"
                 /\ \E e : mailbox' = [mailbox EXCEPT
                              ![t[2]] = Effect(@, "changeMailboxSettings", e)]
                 /\ CanSucceed(mailbox[t[2]], "changeMailboxSettings")
<1>0. t[2] \in Alias /\ task \in [Task -> TaskState] /\ task[t] \in TaskState
  BY TaskPairs DEF TypeOK
<1>a. \A p \in Place :
        Goto(t, p)[t].at = p /\ Goto(t, p)[t].email = task[t].email
  BY <1>0 DEF Goto, TaskState
<1>b. /\ Finish(t)[t].at = "over" /\ Finish(t)[t].email = InitialEmail
      /\ Complete(t)[t].at = "done" /\ Complete(t)[t].email = InitialEmail
  BY <1>0 DEF Finish, Complete, Idle
<1>1. CASE Start(t)
  BY <1>1, <1>0, <1>a, <1>b DEF Start, At
<1>2. CASE ReadOwner(t)
  BY <1>2, <1>0 DEF ReadOwner, TaskState, At
<1>3. CASE ListForwards(t)
  BY <1>3, <1>0 DEF ListForwards, TaskState, At
<1>4. CASE CallDone(t)
  <2>1. PICK e \in Arguments(t) :
          /\ mailbox' = [mailbox EXCEPT ![t[2]] = Effect(@, task[t].at, e)]
          /\ task' = AfterCall(t, e)
    BY <1>4 DEF CallDone
  <2>2. task[t].at \in Calls /\ CanSucceed(mailbox[t[2]], task[t].at)
    BY <1>4 DEF CallDone
  <2>3. LET f == [task EXCEPT ![t].stale = @ \ {e},
                     ![t].at = IF task[t].stale = {e} THEN "forwardListAddMailbox" ELSE @]
        IN  /\ f[t].at \in {task[t].at, "forwardListAddMailbox"}
            /\ f[t].email = task[t].email
    BY <1>0 DEF TaskState
  <2>4. CASE At(t, "forwardListDeleteMailbox")
    BY <2>1, <2>3, <2>4 DEF AfterCall, At
  <2>5. CASE At(t, "changeMailboxSettings")
    BY <2>1, <2>2, <2>5, <1>a, <1>b DEF AfterCall, At
  <2>6. CASE ~ At(t, "forwardListDeleteMailbox") /\ ~ At(t, "changeMailboxSettings")
    BY <2>1, <2>2, <2>6, <1>a, <1>b DEF AfterCall, At
  <2> QED BY <2>4, <2>5, <2>6
<1>5. CASE CallRejected(t)
  BY <1>5, <1>0, <1>a, <1>b DEF CallRejected
<1>6. CASE CallUnavailable(t)
  <2>1. /\ Retry(t)[t].at \in {"queued", "over"}
        /\ Retry(t)[t].email = InitialEmail
    BY <1>0, <1>b DEF Retry, Idle
  <2> QED BY <2>1, <1>6 DEF CallUnavailable
<1>7. CASE SaveVerdict(t)
  BY <1>7, <1>b DEF SaveVerdict
<1>8. CASE Crash(t)
  BY <1>8, <1>b DEF Crash
<1> QED BY <1>1, <1>2, <1>3, <1>4, <1>5, <1>6, <1>7, <1>8 DEF Work

(* A worker changes the mailbox of its task's alias only, by a call that     *)
(* succeeds.                                                                 *)
LEMMA WorkMailbox ==
    ASSUME TypeOK, NEW t \in Task, Work(t)
    PROVE  \/ mailbox' = mailbox
           \/ /\ task[t].at \in Calls
              /\ \E e \in Arguments(t) :
                    mailbox' = [mailbox EXCEPT ![t[2]] = Effect(@, task[t].at, e)]
              /\ CanSucceed(mailbox[t[2]], task[t].at)
<1>0. t[2] \in Alias /\ mailbox \in [Alias -> Mailbox]
  BY TaskPairs DEF TypeOK
<1>1. CASE CallDone(t)
  BY <1>1 DEF CallDone
<1>2. CASE CallUnavailable(t)
  BY <1>2, <1>0 DEF CallUnavailable
<1>3. CASE ~ CallDone(t) /\ ~ CallUnavailable(t)
  BY <1>3 DEF Work, Start, ReadOwner, ListForwards, CallRejected, SaveVerdict, Crash
<1> QED BY <1>1, <1>2, <1>3

LEMMA TaskInvStep ==
    ASSUME TypeOK, LifecycleInv, [Next]_vars
    PROVE  TaskInv'
<1> USE DEF LifecycleInv
<1>0. /\ OwnedEmails \subseteq OwnedEmails' /\ InitialEmail \in OwnedEmails'
      /\ \A a \in Alias : row[a] # "absent" => row'[a] # "absent"
  BY Monotone DEF OwnedEmails
<1>1. ASSUME NEW r \in Request, Served(r) PROVE TaskInv'
  <2>1. \A t \in Task : task[t].at \in {"createMailbox", "activate", "fail"} => t[1] # r
    BY <1>1, ServedFrame, TaskPairs DEF RequestInv
  <2> QED BY <1>0, <1>1, <2>1, ServedFrame, TaskPairs DEF TaskInv, Op
<1>2. ASSUME NEW r \in Request, NEW a \in Alias, Publish(r, a) PROVE TaskInv'
  <2>1. /\ \A t \in Task : t # <<r, a>> => task'[t] = task[t]
        /\ task'[<<r, a>>].at = "queued" /\ task'[<<r, a>>].email = InitialEmail
        /\ owner' = owner
    BY <1>2, TaskPairs DEF Publish, TypeOK, Idle
  <2>2. \A t \in Task : Op(t)' = Op(t)
    BY <1>2, RequestFrame, TaskPairs DEF Op
  <2> QED BY <1>0, <2>1, <2>2, TaskPairs DEF TaskInv
<1>3. ASSUME NEW r \in Request, Commit(r) \/ Abort(r) PROVE TaskInv'
  <2>1. task' = task
    BY <1>3 DEF Commit, Abort
  <2>2. owner' \in OwnedEmails'
    <3>1. owner' = owner \/ (Commit(r) /\ request[r].op = "email" /\ owner' = request[r].email)
      BY <1>3 DEF Commit, Abort
    <3>2. Commit(r) => request'[r].phase = "committed"
      BY DEF Commit, TypeOK, RequestState
    <3> QED BY <1>0, <1>3, <3>1, <3>2, RequestFrame DEF TaskInv, OwnedEmails
  <2>3. \A t \in Task : Op(t)' = Op(t)
    BY <1>3, RequestFrame, TaskPairs DEF Op
  <2> QED BY <1>0, <2>1, <2>2, <2>3, TaskPairs DEF TaskInv
<1>4. ASSUME NEW t \in Task, Work(t) PROVE TaskInv'
  <2>1. /\ UNCHANGED <<owner, request>>
        /\ \A u \in Task : u # t => task'[u] = task[u]
    BY <1>4, WorkFrame
  <2>2. \A s : Proceeds(Op(t), s) => s # "absent"
    BY DEF Proceeds
  <2>3. /\ task'[t].at \in Running => row[t[2]] # "absent"
        /\ task'[t].at \in {"createMailbox", "activate", "fail"} => Op(t) = "create"
        /\ task'[t].email \in OwnedEmails
    BY <1>4, <2>2, WorkTask DEF TaskInv, OwnedEmails
  <2>4. \A u \in Task : Op(u)' = Op(u)
    BY <2>1 DEF Op
  <2> QED BY <1>0, <2>1, <2>3, <2>4, TaskPairs DEF TaskInv
<1>5. CASE UNCHANGED vars
  BY <1>5 DEF vars, TaskInv, Op, OwnedEmails
<1> QED BY <1>1, <1>2, <1>3, <1>4, <1>5, StepCases

LEMMA DeletionInvStep ==
    ASSUME TypeOK, LifecycleInv, [Next]_vars
    PROVE  DeletionInv'
<1> USE DEF LifecycleInv
<1>0. /\ \A a \in Alias : row[a] # "absent" => row'[a] # "absent"
      /\ \A a \in Alias : DeleteCommitted(a) => DeleteCommitted(a)'
  BY Monotone
<1>1. ASSUME NEW r \in Request, Served(r) PROVE DeletionInv'
  BY <1>0, <1>1, ServedFrame, TaskPairs DEF DeletionInv, At
<1>2. ASSUME NEW r \in Request, NEW a \in Alias, Publish(r, a) PROVE DeletionInv'
  <2>1. /\ \A t \in Task : t # <<r, a>> => task'[t] = task[t]
        /\ task'[<<r, a>>].at = "queued"
        /\ row' = row
    BY <1>2, TaskPairs DEF Publish, TypeOK, Idle
  <2> QED BY <1>0, <1>2, <2>1, RequestFrame, TaskPairs DEF DeletionInv, At
<1>3. ASSUME NEW r \in Request, Commit(r) PROVE DeletionInv'
  <2>1. /\ task' = task /\ request'[r].phase = "committed"
        /\ \A a \in Alias : row'[a] = CommittedStatus(r, a)
    BY <1>3 DEF Commit, TypeOK, RequestState
  <2>2. \A a \in Alias : row'[a] = "deleted" =>
           row[a] = "deleted" \/ (request[r].op = "delete" /\ a \in request[r].aliases)
    BY <2>1 DEF CommittedStatus
  <2>3. \A a \in Alias : row'[a] = "deleted" => DeleteCommitted(a)'
    BY <1>0, <1>3, <2>1, <2>2, RequestFrame DEF DeletionInv, DeleteCommitted
  <2> QED BY <1>0, <1>3, <2>1, <2>3, RequestFrame, TaskPairs DEF DeletionInv, At
<1>4. ASSUME NEW r \in Request, Abort(r) PROVE DeletionInv'
  <2>1. row' = row /\ task' = task
    BY <1>4 DEF Abort
  <2> QED BY <1>0, <1>4, <2>1, RequestFrame, TaskPairs DEF DeletionInv, At
<1>5. ASSUME NEW t \in Task, Work(t) PROVE DeletionInv'
  <2>1. /\ request' = request
        /\ \A u \in Task : u # t => task'[u] = task[u]
        /\ \A a \in Alias : row'[a] = "deleted" => row[a] = "deleted"
    BY <1>5, WorkFrame, TaskPairs
  <2>2. task'[t].at = "dropMailbox" => row[t[2]] = "deleted"
    BY <1>5, WorkTask DEF Proceeds
  <2> QED BY <1>0, <2>1, <2>2, TaskPairs DEF DeletionInv, At
<1>6. CASE UNCHANGED vars
  BY <1>6 DEF vars, DeletionInv, At, DeleteCommitted
<1> QED BY <1>1, <1>2, <1>3, <1>4, <1>5, <1>6, StepCases

LEMMA SetUpInvStep ==
    ASSUME TypeOK, LifecycleInv, [Next]_vars
    PROVE  SetUpInv' /\ ActiveHasMailbox'
<1> USE DEF LifecycleInv
<1>0. \A a \in Alias : DeleteCommitted(a) => DeleteCommitted(a)'
  BY Monotone
<1>1. ASSUME NEW r \in Request, Served(r) PROVE SetUpInv' /\ ActiveHasMailbox'
  BY <1>0, <1>1, ServedFrame, TaskPairs DEF SetUpInv, ActiveHasMailbox, At
<1>2. ASSUME NEW r \in Request, NEW a \in Alias, Publish(r, a)
      PROVE  SetUpInv' /\ ActiveHasMailbox'
  <2>1. /\ \A t \in Task : t # <<r, a>> => task'[t] = task[t]
        /\ task'[<<r, a>>].at = "queued"
        /\ row' = row /\ mailbox' = mailbox
    BY <1>2, TaskPairs DEF Publish, TypeOK, Idle
  <2> QED BY <1>0, <2>1, TaskPairs DEF SetUpInv, ActiveHasMailbox, At
<1>3. ASSUME NEW r \in Request, Commit(r) \/ Abort(r)
      PROVE  SetUpInv' /\ ActiveHasMailbox'
  <2>1. /\ task' = task /\ mailbox' = mailbox
        /\ \A a \in Alias : row'[a] = "active" => row[a] = "active"
    BY <1>3 DEF Commit, Abort, CommittedStatus
  <2> QED BY <1>0, <2>1, TaskPairs DEF SetUpInv, ActiveHasMailbox, At
<1>4. ASSUME NEW t \in Task, Work(t) PROVE SetUpInv' /\ ActiveHasMailbox'
  <2>0. t[2] \in Alias /\ mailbox \in [Alias -> Mailbox] /\ mailbox' \in [Alias -> Mailbox]
    BY <1>4, TaskPairs, WorkType DEF TypeOK
  <2>1. /\ \A u \in Task : u # t => task'[u] = task[u]
        /\ \A a \in Alias : a # t[2] => row'[a] = row[a] /\ mailbox'[a] = mailbox[a]
        /\ row' = row \/ (row'[t[2]] = "active" => At(t, "activate") /\ mailbox' = mailbox)
    BY <1>4, WorkFrame DEF At
  <2>2. ASSUME ~ DeleteCommitted(t[2]), mailbox[t[2]].exists
        PROVE  /\ mailbox'[t[2]].exists
               /\ mailbox[t[2]].discards => mailbox'[t[2]].discards
    <3>1. task[t].at # "dropMailbox"
      BY <2>2 DEF DeletionInv, At
    <3>2. \A e : task[t].at \in Calls =>
             LET m == Effect(mailbox[t[2]], task[t].at, e)
             IN  m.exists /\ (mailbox[t[2]].discards => m.discards)
      BY <2>0, <2>2, <3>1 DEF Effect, Mailbox
    <3> QED BY <1>4, <2>0, <2>2, <3>2, WorkMailbox
  <2>3. task'[t].at = "activate" => mailbox'[t[2]].exists /\ mailbox'[t[2]].discards
    <3>1. mailbox[t[2]].exists =>
             \A e : LET m == Effect(mailbox[t[2]], "changeMailboxSettings", e)
                    IN  m.exists /\ m.discards
      BY <2>0 DEF Effect, Mailbox
    <3>2. CanSucceed(mailbox[t[2]], "changeMailboxSettings") => mailbox[t[2]].exists
      BY DEF CanSucceed
    <3> QED BY <1>4, <2>0, <3>1, <3>2, WorkTask
  <2>4. SetUpInv'
    BY <1>0, <2>0, <2>1, <2>2, <2>3, TaskPairs DEF SetUpInv, At
  <2>5. ActiveHasMailbox'
    BY <1>0, <2>0, <2>1, <2>2 DEF ActiveHasMailbox, SetUpInv
  <2> QED BY <2>4, <2>5
<1>5. CASE UNCHANGED vars
  BY <1>0, <1>5 DEF vars, SetUpInv, ActiveHasMailbox, At, DeleteCommitted
<1> QED BY <1>1, <1>2, <1>3, <1>4, <1>5, StepCases

LEMMA ProviderInvStep ==
    ASSUME TypeOK, LifecycleInv, [Next]_vars
    PROVE  NoMailboxWithoutRow' /\ ForwardsOnlyToOwnedEmails'
<1> USE DEF LifecycleInv
<1>0. /\ \A a \in Alias : row[a] # "absent" => row'[a] # "absent"
      /\ OwnedEmails \subseteq OwnedEmails'
  BY Monotone
<1>1. ASSUME mailbox' = mailbox
      PROVE  NoMailboxWithoutRow' /\ ForwardsOnlyToOwnedEmails'
  BY <1>0, <1>1 DEF NoMailboxWithoutRow, ForwardsOnlyToOwnedEmails
<1>2. ASSUME NEW t \in Task, Work(t), mailbox' # mailbox
      PROVE  NoMailboxWithoutRow' /\ ForwardsOnlyToOwnedEmails'
  <2>0. t[2] \in Alias /\ mailbox \in [Alias -> Mailbox] /\ mailbox[t[2]] \in Mailbox
    BY TaskPairs DEF TypeOK
  <2>1. PICK e \in Arguments(t) :
           mailbox' = [mailbox EXCEPT ![t[2]] = Effect(@, task[t].at, e)]
    BY <1>2, WorkMailbox
  <2>2. task[t].at \in Calls
    BY <1>2, WorkMailbox
  <2>3. row[t[2]] # "absent"
    BY <2>2 DEF TaskInv
  <2>4. Effect(mailbox[t[2]], task[t].at, e).forwards \subseteq OwnedEmails
    <3>1. task[t].at = "forwardListAddMailbox" => e \in OwnedEmails
      BY DEF Arguments, At, TaskInv
    <3> QED BY <2>0, <2>2, <3>1
            DEF Effect, Mailbox, NoMailbox, ForwardsOnlyToOwnedEmails
  <2> QED BY <1>0, <2>0, <2>1, <2>3, <2>4
          DEF NoMailboxWithoutRow, ForwardsOnlyToOwnedEmails
<1>3. ASSUME NEW r \in Request, Served(r) PROVE mailbox' = mailbox
  BY <1>3, ServedFrame
<1>4. ASSUME NEW r \in Request, Commit(r) \/ Abort(r) \/ \E a \in Alias : Publish(r, a)
      PROVE  mailbox' = mailbox
  BY <1>4, RequestFrame
<1> QED BY <1>1, <1>2, <1>3, <1>4, StepCases DEF vars

LEMMA VerdictStep ==
    ASSUME TypeOK, LifecycleInv, [Next]_vars
    PROVE  VerdictIsFinal'
<1> USE DEF LifecycleInv
<1>1. ASSUME NEW r \in Request, Served(r) PROVE VerdictIsFinal'
  <2>1. \A q \in Request, b \in Alias : q = r => task[<<q, b>>].at = "none"
    BY <1>1, ServedFrame DEF RequestInv
  <2> QED BY <1>1, <2>1, ServedFrame DEF VerdictIsFinal
<1>2. ASSUME NEW r \in Request, NEW a \in Alias, Publish(r, a) PROVE VerdictIsFinal'
  <2>1. /\ \A t \in Task : t # <<r, a>> => task'[t] = task[t]
        /\ row' = row /\ a \in request[r].unsent /\ request[r].phase = "open"
    BY <1>2 DEF Publish, TypeOK, Open
  <2>2. request[r].op = "create" => row[a] = "absent"
    BY <2>1 DEF RequestInv, CreationInv, Creates
  <2> QED BY <1>2, <2>1, <2>2, RequestFrame, TaskPairs DEF VerdictIsFinal
<1>3. ASSUME NEW r \in Request, Commit(r) \/ Abort(r) PROVE VerdictIsFinal'
  <2>1. /\ task' = task
        /\ \A a \in Alias : row'[a] \in {"active", "failed"} => row'[a] = row[a]
    BY <1>3 DEF Commit, Abort, CommittedStatus
  <2> QED BY <1>3, <2>1, RequestFrame DEF VerdictIsFinal
<1>4. ASSUME NEW t \in Task, Work(t) PROVE VerdictIsFinal'
  <2>0. t[1] \in Request /\ t[2] \in Alias /\ t = <<t[1], t[2]>>
    BY TaskPairs
  <2>1. /\ request' = request
        /\ \A u \in Task : u # t => task'[u] = task[u]
        /\ task[t].at # "none"
        /\ \A a \in Alias : a # t[2] => row'[a] = row[a]
    BY <1>4, WorkFrame
  <2>2. CASE row' = row
    <3>1. row[t[2]] \in {"active", "failed"} /\ Op(t) = "create" => task'[t].at = "over"
      <4>1. row[t[2]] \in {"active", "failed"} /\ Op(t) = "create" => task[t].at = "over"
        BY <2>0, <2>1 DEF VerdictIsFinal, Op
      <4>2. task[t].at # "over"
        BY <1>4 DEF Work, Start, ReadOwner, ListForwards, CallDone, CallRejected,
                    CallUnavailable, SaveVerdict, Crash, At
      <4> QED BY <4>1, <4>2
    <3> QED BY <2>0, <2>1, <2>2, <3>1, TaskPairs DEF VerdictIsFinal, Op
  <2>3. CASE row' # row
    <3>1. task[t].at \in {"activate", "fail"} /\ task'[t].at = "over" /\ Op(t) = "create"
      BY <1>4, <2>3, WorkFrame DEF TaskInv
    <3>2. Creates(t[1], t[2])
      BY <2>0, <2>1, <3>1 DEF RequestInv, Creates, Op
    <3>3. \A q \in Request : q # t[1] /\ request[q].op = "create"
             => task[<<q, t[2]>>].at = "none"
      BY <2>0, <3>2 DEF CreationInv, RequestInv, Creates
    <3> QED BY <2>0, <2>1, <3>1, <3>3, TaskPairs DEF VerdictIsFinal
  <2> QED BY <2>2, <2>3
<1>5. CASE UNCHANGED vars
  BY <1>5 DEF vars, VerdictIsFinal
<1> QED BY <1>1, <1>2, <1>3, <1>4, <1>5, StepCases

(* How a task gets to the calls of a change of address, and past adding the  *)
(* address it forwards to.                                                   *)
LEMMA WorkRoute ==
    ASSUME TypeOK, NEW t \in Task, Work(t)
    PROVE  /\ task'[t].at = "readOwner" => Op(t) # "delete" /\ Proceeds(Op(t), row[t[2]])
           /\ task'[t].at \in {"forwardListShow", "forwardListDeleteMailbox"} =>
                 \/ task[t].at = "readOwner" /\ Op(t) # "create"
                 \/ task[t].at \in {"forwardListShow", "forwardListDeleteMailbox"}
           /\ task'[t].at = "changeMailboxSettings" =>
                 /\ task[t].at = "forwardListAddMailbox"
                 /\ mailbox'[t[2]].forwards # {}
<1>0. /\ t[2] \in Alias /\ task \in [Task -> TaskState] /\ task[t] \in TaskState
      /\ mailbox \in [Alias -> Mailbox] /\ mailbox[t[2]] \in Mailbox
  BY TaskPairs DEF TypeOK
<1>a. \A p \in Place : Goto(t, p)[t].at = p
  BY <1>0 DEF Goto, TaskState
<1>b. Finish(t)[t].at = "over" /\ Complete(t)[t].at = "done"
  BY <1>0 DEF Finish, Complete, Idle
<1>1. CASE Start(t)
  BY <1>1, <1>0, <1>a, <1>b DEF Start, At
<1>2. CASE ReadOwner(t)
  BY <1>2, <1>0 DEF ReadOwner, TaskState, At
<1>3. CASE ListForwards(t)
  BY <1>3, <1>0 DEF ListForwards, TaskState, At
<1>4. CASE CallDone(t)
  <2>1. PICK e \in Arguments(t) :
          /\ mailbox' = [mailbox EXCEPT ![t[2]] = Effect(@, task[t].at, e)]
          /\ task' = AfterCall(t, e)
    BY <1>4 DEF CallDone
  <2>2. task[t].at \in Calls
    BY <1>4 DEF CallDone
  <2>3. LET f == [task EXCEPT ![t].stale = @ \ {e},
                     ![t].at = IF task[t].stale = {e} THEN "forwardListAddMailbox" ELSE @]
        IN  f[t].at \in {task[t].at, "forwardListAddMailbox"}
    BY <1>0 DEF TaskState
  <2>4. CASE At(t, "forwardListDeleteMailbox")
    BY <2>1, <2>3, <2>4 DEF AfterCall, At
  <2>5. CASE At(t, "forwardListAddMailbox")
    <3>1. e \in Effect(mailbox[t[2]], "forwardListAddMailbox", e).forwards
      BY <1>0 DEF Effect, Mailbox
    <3>2. mailbox'[t[2]].forwards # {}
      BY <1>0, <2>1, <2>5, <3>1 DEF At
    <3> QED BY <2>1, <2>5, <3>2, <1>a DEF AfterCall, At
  <2>6. CASE ~ At(t, "forwardListDeleteMailbox") /\ ~ At(t, "forwardListAddMailbox")
    BY <2>1, <2>2, <2>6, <1>a, <1>b DEF AfterCall, At
  <2> QED BY <2>4, <2>5, <2>6
<1>5. CASE CallRejected(t)
  BY <1>5, <1>0, <1>a, <1>b DEF CallRejected
<1>6. CASE CallUnavailable(t)
  <2>1. Retry(t)[t].at \in {"queued", "over"}
    BY <1>0, <1>b DEF Retry, Idle
  <2> QED BY <2>1, <1>6 DEF CallUnavailable
<1>7. CASE SaveVerdict(t)
  BY <1>7, <1>b DEF SaveVerdict
<1>8. CASE Crash(t)
  BY <1>8, <1>b DEF Crash
<1> QED BY <1>1, <1>2, <1>3, <1>4, <1>5, <1>6, <1>7, <1>8 DEF Work

(* Task t is at emptying the list, between two tries of it or given up: it   *)
(* has not added its address.                                                *)
MidChange(t) ==
    \/ task[t].at \in {"forwardListDeleteMailbox", "forwardListAddMailbox", "over"}
    \/ /\ task[t].at \in {"queued", "readOwner", "forwardListShow"}
       /\ task[t].tries > 0

(* A change of address stays interrupted until it has added its address.     *)
LEMMA WorkChange ==
    ASSUME TypeOK, NEW t \in Task, Work(t), Op(t) = "email", MidChange(t)
    PROVE  \/ MidChange(t)'
           \/ task[t].at = "forwardListAddMailbox" /\ mailbox'[t[2]].forwards # {}
<1>0. task \in [Task -> TaskState] /\ task[t] \in TaskState
  BY DEF TypeOK
<1>a. \A p \in Place : Goto(t, p)[t].at = p /\ Goto(t, p)[t].tries = task[t].tries
  BY <1>0 DEF Goto, TaskState
<1>b. Finish(t)[t].at = "over"
  BY <1>0 DEF Finish, Idle
<1>1. CASE Start(t)
  BY <1>1, <1>a, <1>b DEF Start, At, MidChange
<1>2. CASE ReadOwner(t)
  BY <1>2, <1>0 DEF ReadOwner, TaskState, At, MidChange
<1>3. CASE ListForwards(t)
  BY <1>3, <1>0 DEF ListForwards, TaskState, MidChange
<1>4. CASE CallDone(t)
  <2>1. PICK e \in Arguments(t) : task' = AfterCall(t, e)
    BY <1>4 DEF CallDone
  <2>2. task[t].at \in {"forwardListDeleteMailbox", "forwardListAddMailbox"}
    BY <1>4 DEF CallDone, MidChange
  <2>3. LET f == [task EXCEPT ![t].stale = @ \ {e},
                     ![t].at = IF task[t].stale = {e} THEN "forwardListAddMailbox" ELSE @]
        IN  f[t].at \in {task[t].at, "forwardListAddMailbox"}
    BY <1>0 DEF TaskState
  <2>4. CASE task[t].at = "forwardListDeleteMailbox"
    BY <2>1, <2>3, <2>4 DEF AfterCall, At, MidChange
  <2>5. CASE task[t].at = "forwardListAddMailbox"
    <3>1. task'[t].at = "changeMailboxSettings"
      BY <2>1, <2>5, <1>a DEF AfterCall, At
    <3> QED BY <2>5, <3>1, WorkRoute
  <2> QED BY <2>2, <2>4, <2>5
<1>5. CASE CallRejected(t)
  BY <1>5, <1>b DEF CallRejected, MidChange
<1>6. CASE CallUnavailable(t)
  <2>1. task[t].tries + 1 > 0
    BY <1>0, LifecycleAssumption DEF TaskState
  <2>2. \/ Retry(t)[t].at = "over"
        \/ Retry(t)[t].at = "queued" /\ Retry(t)[t].tries > 0
    BY <1>0, <1>b, <2>1 DEF Retry, Idle
  <2> QED BY <1>6, <2>2 DEF CallUnavailable, MidChange
<1>7. CASE SaveVerdict(t)
  BY <1>7, <1>b DEF SaveVerdict, MidChange
<1>8. CASE Crash(t)
  BY <1>8, <1>b DEF Crash, MidChange
<1> QED BY <1>1, <1>2, <1>3, <1>4, <1>5, <1>6, <1>7, <1>8 DEF Work

LEMMA InterruptionStep ==
    ASSUME TypeOK, RequestInv, [Next]_vars, NEW a \in Alias, Interrupted(a)
    PROVE  Interrupted(a)' \/ mailbox'[a].forwards # {}
<1>0. PICK q \in Request : request[q].op = "email" /\ MidChange(<<q, a>>)
  BY DEF Interrupted, MidChange
<1>a. request'[q].op = "email" /\ MidChange(<<q, a>>)' => Interrupted(a)'
  BY DEF Interrupted, MidChange
<1>1. /\ <<q, a>> \in Task /\ task[<<q, a>>].at # "none"
      /\ request[q].phase # "new" /\ a \notin request[q].unsent
      /\ <<q, a>>[1] = q /\ <<q, a>>[2] = a
  BY <1>0, TaskPairs DEF RequestInv, MidChange
<1>2. ASSUME NEW r \in Request, Served(r) PROVE Interrupted(a)'
  BY <1>0, <1>a, <1>1, <1>2, ServedFrame DEF MidChange
<1>3. ASSUME NEW r \in Request,
             Commit(r) \/ Abort(r) \/ \E b \in Alias : Publish(r, b)
      PROVE  Interrupted(a)'
  <2>1. task'[<<q, a>>] = task[<<q, a>>]
    <3>1. ASSUME NEW b \in Alias, Publish(r, b)
          PROVE  task'[<<q, a>>] = task[<<q, a>>]
      <4>1. <<r, b>> # <<q, a>>
        BY <1>1, <3>1 DEF Publish
      <4> QED BY <1>1, <3>1, <4>1 DEF Publish, TypeOK
    <3> QED BY <1>3, <3>1 DEF Commit, Abort
  <2> QED BY <1>0, <1>a, <1>3, <2>1, RequestFrame DEF MidChange
<1>4. ASSUME NEW t \in Task, Work(t)
      PROVE  Interrupted(a)' \/ mailbox'[a].forwards # {}
  <2>1. CASE t = <<q, a>>
    BY <1>0, <1>a, <1>1, <1>4, <2>1, WorkChange, WorkFrame DEF Op
  <2>2. CASE t # <<q, a>>
    BY <1>0, <1>a, <1>1, <1>4, <2>2, WorkFrame DEF MidChange
  <2> QED BY <2>1, <2>2
<1>5. CASE UNCHANGED vars
  BY <1>0, <1>a, <1>5 DEF vars, MidChange
<1> QED BY <1>2, <1>3, <1>4, <1>5, StepCases

LEMMA RouteInvStep ==
    ASSUME TypeOK, LifecycleInv, [Next]_vars
    PROVE  RouteInv' /\ ForwardsUnlessInterrupted'
<1> USE DEF LifecycleInv
<1> DEFINE Exempt(a) == DeleteCommitted(a) \/ Interrupted(a)
<1>0. \A a \in Alias : Exempt(a) => Exempt(a)' \/ mailbox'[a].forwards # {}
  BY Monotone, InterruptionStep
<1> DEFINE Route(t) ==
              /\ task[t].at = "readOwner" => Op(t) \in {"create", "email"}
              /\ task[t].at \in {"forwardListShow", "forwardListDeleteMailbox"}
                    => Op(t) = "email"
              /\ task[t].at \in {"changeMailboxSettings", "activate"}
                    => mailbox[t[2]].forwards # {} \/ Exempt(t[2])
<1>z. /\ RouteInv <=> \A t \in Task : Route(t)
      /\ RouteInv' <=> \A t \in Task : Route(t)'
      /\ ForwardsUnlessInterrupted <=> \A a \in Alias :
                 row[a] = "active" => mailbox[a].forwards # {} \/ Exempt(a)
      /\ ForwardsUnlessInterrupted' <=> \A a \in Alias :
                 row'[a] = "active" => mailbox'[a].forwards # {} \/ Exempt(a)'
  BY DEF RouteInv, ForwardsUnlessInterrupted, At
<1> HIDE DEF Exempt, Route
<1>1. ASSUME NEW r \in Request, Served(r) PROVE RouteInv' /\ ForwardsUnlessInterrupted'
  <2>1. \A t \in Task : task[t].at # "none" => t[1] # r
    BY <1>1, ServedFrame, TaskPairs DEF RequestInv
  <2>2. \A t \in Task : task[t].at # "none" => Op(t)' = Op(t)
    BY <1>1, <2>1, ServedFrame, TaskPairs DEF Op
  <2>3. UNCHANGED <<row, task, mailbox>>
    BY <1>1, ServedFrame
  <2> QED BY <1>0, <1>z, <2>2, <2>3, TaskPairs DEF Route
<1>2. ASSUME NEW r \in Request, NEW a \in Alias, Publish(r, a)
      PROVE  RouteInv' /\ ForwardsUnlessInterrupted'
  <2>1. /\ \A t \in Task : t # <<r, a>> => task'[t] = task[t]
        /\ task'[<<r, a>>].at = "queued"
        /\ row' = row /\ mailbox' = mailbox
    BY <1>2, TaskPairs DEF Publish, TypeOK, Idle
  <2>2. \A t \in Task : Op(t)' = Op(t)
    BY <1>2, RequestFrame, TaskPairs DEF Op
  <2>3. RouteInv'
    <3> SUFFICES ASSUME NEW u \in Task
                 PROVE  Route(u)'
      BY <1>z
    <3>1. u[2] \in Alias
      BY TaskPairs
    <3>2. CASE u = <<r, a>>
      BY <2>1, <3>2 DEF Route
    <3>3. CASE u # <<r, a>>
      BY <1>0, <1>z, <2>1, <2>2, <3>1, <3>3 DEF Route
    <3> QED BY <3>2, <3>3
  <2>4. ForwardsUnlessInterrupted'
    BY <1>0, <1>z, <2>1
  <2> QED BY <2>3, <2>4
<1>3. ASSUME NEW r \in Request, Commit(r) \/ Abort(r)
      PROVE  RouteInv' /\ ForwardsUnlessInterrupted'
  <2>1. /\ task' = task /\ mailbox' = mailbox
        /\ \A a \in Alias : row'[a] = "active" => row[a] = "active"
    BY <1>3 DEF Commit, Abort, CommittedStatus
  <2>2. \A t \in Task : Op(t)' = Op(t)
    BY <1>3, RequestFrame, TaskPairs DEF Op
  <2>3. RouteInv'
    BY <1>0, <1>z, <2>1, <2>2, TaskPairs DEF Route
  <2>4. ForwardsUnlessInterrupted'
    BY <1>0, <1>z, <2>1
  <2> QED BY <2>3, <2>4
<1>4. ASSUME NEW t \in Task, Work(t) PROVE RouteInv' /\ ForwardsUnlessInterrupted'
  <2>0. t[1] \in Request /\ t[2] \in Alias /\ t = <<t[1], t[2]>>
        /\ mailbox \in [Alias -> Mailbox] /\ mailbox' \in [Alias -> Mailbox]
    BY <1>4, TaskPairs, WorkType DEF TypeOK
  <2>1. /\ request' = request
        /\ task[t].at # "none"
        /\ \A u \in Task : u # t => task'[u] = task[u]
        /\ \A a \in Alias : a # t[2] => row'[a] = row[a] /\ mailbox'[a] = mailbox[a]
        /\ row' = row \/ (row'[t[2]] = "active" => task[t].at = "activate" /\ mailbox' = mailbox)
    BY <1>4, WorkFrame
  <2>2. \A u \in Task : Op(u)' = Op(u)
    BY <2>1 DEF Op
  <2>3. mailbox[t[2]].forwards # {} => mailbox'[t[2]].forwards # {} \/ Exempt(t[2])'
    <3>1. task[t].at = "dropMailbox" => DeleteCommitted(t[2])'
      BY <2>0, Monotone DEF DeletionInv, At
    <3>2. task[t].at = "forwardListDeleteMailbox" => Interrupted(t[2])'
      <4>1. ASSUME task[t].at = "forwardListDeleteMailbox"
            PROVE  Op(t) = "email" /\ MidChange(t)
        BY <4>1 DEF RouteInv, MidChange
      <4>2. ASSUME task[t].at = "forwardListDeleteMailbox"
            PROVE  MidChange(t)'
        BY <1>4, <4>1, <4>2, WorkChange
      <4> QED BY <2>0, <2>1, <4>1, <4>2 DEF Op, Interrupted, MidChange
    <3>3. \A e : task[t].at \in Calls \ {"dropMailbox", "forwardListDeleteMailbox"} =>
             mailbox[t[2]].forwards \subseteq Effect(mailbox[t[2]], task[t].at, e).forwards
      BY <2>0 DEF Effect, Mailbox
    <3> QED BY <1>4, <2>0, <3>1, <3>2, <3>3, WorkMailbox DEF Exempt
  <2>4. task'[t].at = "readOwner" => Op(t) \in {"create", "email"}
    <3>1. Op(t) \in {"create", "delete", "email"}
      BY <2>0, <2>1 DEF RequestInv, TypeOK, RequestState, Op
    <3> QED BY <1>4, <3>1, WorkRoute
  <2>5. task'[t].at \in {"forwardListShow", "forwardListDeleteMailbox"} => Op(t) = "email"
    BY <1>4, WorkRoute DEF RouteInv, At
  <2>6. task'[t].at \in {"changeMailboxSettings", "activate"}
          => mailbox'[t[2]].forwards # {} \/ Exempt(t[2])'
    <3>1. CASE task'[t].at = "changeMailboxSettings"
      BY <1>4, <3>1, WorkRoute
    <3>2. CASE task'[t].at = "activate"
      BY <1>0, <1>4, <1>z, <2>0, <2>3, <3>2, WorkTask DEF Route
    <3> QED BY <3>1, <3>2
  <2>7. \A a \in Alias : mailbox[a].forwards # {} => mailbox'[a].forwards # {} \/ Exempt(a)'
    BY <1>0, <2>1, <2>3, <2>0
  <2>8. RouteInv'
    <3> SUFFICES ASSUME NEW u \in Task
                 PROVE  Route(u)'
      BY <1>z
    <3>1. u[2] \in Alias
      BY TaskPairs
    <3>2. CASE u = t
      BY <1>0, <2>0, <2>2, <2>4, <2>5, <2>6, <3>2 DEF Route
    <3>3. CASE u # t
      BY <1>z, <2>1, <2>2, <2>7, <1>0, <3>1, <3>3 DEF Route
    <3> QED BY <3>2, <3>3
  <2>9. ForwardsUnlessInterrupted'
    <3>1. Route(t)
      BY <1>z
    <3>2. row'[t[2]] = "active" => mailbox'[t[2]].forwards # {} \/ Exempt(t[2])'
      BY <1>0, <1>z, <2>0, <2>1, <2>7, <3>1 DEF Route
    <3> QED BY <1>0, <1>z, <2>0, <2>1, <2>7, <3>2
  <2> QED BY <2>8, <2>9
<1>5. CASE UNCHANGED vars
  <2>1. UNCHANGED <<row, task, mailbox>> /\ \A t \in Task : Op(t)' = Op(t)
    BY <1>5 DEF vars, Op
  <2> QED BY <1>0, <1>z, <2>1, TaskPairs DEF Route
<1> QED BY <1>1, <1>2, <1>3, <1>4, <1>5, StepCases

-----------------------------------------------------------------------------

(* All the parts of the inductive invariant hold of every behaviour, however *)
(* commits of requests, tasks, retries and crashes interleave.               *)
THEOREM LifecycleInvariant == Spec => []LifecycleInv
<1>1. Init => LifecycleInv
  <2> SUFFICES ASSUME Init PROVE LifecycleInv
    OBVIOUS
  <2>1. /\ \A r \in Request : request[r] = NotServed
        /\ \A t \in Task : task[t] = Idle("none", 0)
        /\ \A a \in Alias : row[a] = IF a \in Established THEN "active" ELSE "absent"
        /\ \A a \in Alias : mailbox[a] = IF a \in Established
                               THEN ForwardingTo(InitialEmail) ELSE NoMailbox
        /\ owner = InitialEmail
    BY DEF Init
  <2>2. RequestInv /\ CreationInv /\ VerdictIsFinal
    BY <2>1, TaskPairs
       DEF RequestInv, CreationInv, VerdictIsFinal, NotServed, Idle, Creates
  <2>3. TaskInv /\ DeletionInv /\ SetUpInv
    BY <2>1, TaskPairs
       DEF TaskInv, DeletionInv, SetUpInv, NotServed, Idle, OwnedEmails, At
  <2>4. NoMailboxWithoutRow /\ ActiveHasMailbox /\ ForwardsOnlyToOwnedEmails
    BY <2>1 DEF NoMailboxWithoutRow, ActiveHasMailbox, ForwardsOnlyToOwnedEmails,
                ForwardingTo, NoMailbox, OwnedEmails
  <2>5. RouteInv /\ ForwardsUnlessInterrupted
    BY <2>1, TaskPairs DEF RouteInv, ForwardsUnlessInterrupted, ForwardingTo, Idle, At
  <2> QED BY <2>2, <2>3, <2>4, <2>5 DEF LifecycleInv
<1>2. TypeOK /\ LifecycleInv /\ [Next]_vars => LifecycleInv'
  <2> SUFFICES ASSUME TypeOK, LifecycleInv, [Next]_vars PROVE LifecycleInv'
    OBVIOUS
  <2> QED BY RequestInvStep, CreationInvStep, TaskInvStep, DeletionInvStep,
             SetUpInvStep, ProviderInvStep, VerdictStep, RouteInvStep DEF LifecycleInv
<1> QED BY <1>1, <1>2, TypeCorrect, PTL DEF Spec

(* A creation that is rolled back after its task was published leaves no     *)
(* mailbox at the provider (services/aliases.py:126-134).                    *)
THEOREM RolledBackCreationLeavesNothing == Spec => []NoMailboxWithoutRow
BY LifecycleInvariant, PTL DEF LifecycleInv

(* No step but those that follow a committed deletion takes the mailbox of   *)
(* an active alias away or makes it keep mail (services/aliases.py:226).     *)
THEOREM ActiveAliasKeepsMailbox == Spec => []ActiveHasMailbox
BY LifecycleInvariant, PTL DEF LifecycleInv

(* Mail goes only to addresses that were once committed as the user's        *)
(* (services/aliases.py:192,201).                                            *)
THEOREM NeverForwardsElsewhere == Spec => []ForwardsOnlyToOwnedEmails
BY LifecycleInvariant, PTL DEF LifecycleInv

(* Only a change of address that is interrupted after it has removed the     *)
(* addresses can leave an active alias forwarding to nobody                  *)
(* (beget_mail_provider.py:181-197): none that is carried through, no retry, *)
(* crash, refusal or rolled back deletion does.                              *)
THEOREM ForwardsSomewhere == Spec => []ForwardsUnlessInterrupted
BY LifecycleInvariant, PTL DEF LifecycleInv

(* No task is left that could change the status of an active or failed alias *)
(* but a deletion (services/aliases.py:136-148).                             *)
THEOREM VerdictStands == Spec => []VerdictIsFinal
BY LifecycleInvariant, PTL DEF LifecycleInv

-----------------------------------------------------------------------------
(* The refinement of AliasStatus.                                            *)

LEMMA SingleInvariant == Spec => []SingleInv
<1>1. Init => SingleInv
  BY DEF Init, SingleInv, NotServed
<1>2. TypeOK /\ SingleInv /\ [Next]_vars => SingleInv'
  <2> SUFFICES ASSUME TypeOK, SingleInv, [Next]_vars PROVE SingleInv'
    OBVIOUS
  <2>1. ASSUME NEW r \in Request, NEW a \in Alias, DeleteAlias(r, a) PROVE SingleInv'
    <3> DEFINE rows == IF row[a] = "absent" THEN {} ELSE {a}
    <3>1. \A b \in rows : b = a
      OBVIOUS
    <3>2. Serve(r, "delete", rows, {a}, InitialEmail)
      BY <2>1 DEF DeleteAlias
    <3> HIDE DEF rows
    <3>3. /\ request[r].phase = "new"
          /\ request'[r] = [op |-> "delete", phase |-> "open", aliases |-> rows,
                            unsent |-> {a}, email |-> InitialEmail]
          /\ \A q \in Request : q # r => request'[q] = request[q]
          /\ UNCHANGED <<row, owner, task, mailbox>>
      BY <3>2, ServeFrame
    <3> QED BY <3>1, <3>3 DEF SingleInv
  <2>2. ASSUME NEW r \in Request, NEW a \in Alias, CreateAlias(r, a) PROVE SingleInv'
    <3>1. Serve(r, "create", {a}, {a}, InitialEmail)
      BY <2>2 DEF CreateAlias
    <3>2. /\ request[r].phase = "new"
          /\ request'[r] = [op |-> "create", phase |-> "open", aliases |-> {a},
                            unsent |-> {a}, email |-> InitialEmail]
          /\ \A q \in Request : q # r => request'[q] = request[q]
          /\ UNCHANGED <<row, owner, task, mailbox>>
      BY <3>1, ServeFrame
    <3> QED BY <3>2 DEF SingleInv
  <2>3. ASSUME NEW r \in Request, NEW e \in Email, ChangeEmail(r, e) PROVE SingleInv'
    <3>1. Serve(r, "email", ActiveAliases, ActiveAliases, e)
      BY <2>3 DEF ChangeEmail
    <3>2. /\ request[r].phase = "new"
          /\ request'[r] = [op |-> "email", phase |-> "open", aliases |-> ActiveAliases,
                            unsent |-> ActiveAliases, email |-> e]
          /\ \A q \in Request : q # r => request'[q] = request[q]
          /\ UNCHANGED <<row, owner, task, mailbox>>
      BY <3>1, ServeFrame
    <3> QED BY <3>2 DEF SingleInv
  <2>4. ASSUME NEW r \in Request, Commit(r) \/ Abort(r) \/ \E a \in Alias : Publish(r, a)
        PROVE  SingleInv'
    BY <2>4, RequestFrame DEF SingleInv
  <2>5. ASSUME NEW t \in Task, Work(t) PROVE SingleInv'
    BY <2>5, WorkFrame DEF SingleInv
  <2>6. CASE UNCHANGED vars
    BY <2>6 DEF vars, SingleInv
  <2> QED BY <2>1, <2>2, <2>3, <2>4, <2>5, <2>6, StepCases DEF Served
<1> QED BY <1>1, <1>2, TypeCorrect, PTL DEF Spec

(* The one creator of an alias tells how far its provisioning is.            *)
Stage(r, a) ==
    IF task[<<r, a>>].at \notin {"none", "over"} THEN "live"
    ELSE IF a \in request[r].unsent THEN "unsent" ELSE "over"

LEMMA ProvisioningByCreator ==
    ASSUME LifecycleInv, NEW r \in Request, NEW a \in Alias, Creates(r, a)
    PROVE  Provisioning(a) = Stage(r, a)
<1>1. \A q \in Request : Creates(q, a) => q = r
  BY DEF LifecycleInv, CreationInv
<1> QED BY <1>1 DEF Provisioning, Stage

LEMMA ProvisioningAfter ==
    ASSUME LifecycleInv', NEW r \in Request, NEW a \in Alias, Creates(r, a)'
    PROVE  Provisioning(a)' = Stage(r, a)'
<1>1. \A q \in Request : Creates(q, a)' => q = r
  BY DEF LifecycleInv, CreationInv
<1> QED BY <1>1 DEF Provisioning, Stage

LEMMA ProvisioningStays ==
    ASSUME NEW a \in Alias,
           \A r \in Request : Creates(r, a)' <=> Creates(r, a),
           \A r \in Request : Creates(r, a) =>
              /\ task'[<<r, a>>].at \in {"none", "over"} <=> task[<<r, a>>].at \in {"none", "over"}
              /\ a \in request'[r].unsent <=> a \in request[r].unsent
    PROVE  Provisioning(a)' = Provisioning(a)
BY DEF Provisioning

LEMMA Refines ==
    ASSUME NEW a \in Alias, NEW s, NEW p, row' = [row EXCEPT ![a] = s], Provisioning(a)' = p,
           \A b \in Alias : b # a => Provisioning(b)' = Provisioning(b)
    PROVE  Abstract!Becomes(a, s, p)
BY DEF Abstract!Becomes

LEMMA Stutters ==
    ASSUME UNCHANGED row, \A b \in Alias : Provisioning(b)' = Provisioning(b)
    PROVE  UNCHANGED Abstract!vars
BY DEF Abstract!vars

(* A request that is served creates at most the alias it names.              *)
LEMMA ServeRefines ==
    ASSUME TypeOK, LifecycleInv, LifecycleInv', NEW r \in Request, Served(r)
    PROVE  [Abstract!Next]_(Abstract!vars)
<1>0. /\ \A a \in Alias : ~ Creates(r, a)
      /\ UNCHANGED <<row, task>> /\ row \in [Alias -> Status]
      /\ \A q \in Request : q # r => request'[q] = request[q]
  BY ServedFrame DEF LifecycleInv, CreationInv, TypeOK
<1>1. \A a \in Alias, q \in Request : q # r => (Creates(q, a)' <=> Creates(q, a))
  BY <1>0 DEF Creates
<1>2. ASSUME NEW b \in Alias, ~ Creates(r, b)'
      PROVE  Provisioning(b)' = Provisioning(b)
  <2>1. \A q \in Request : Creates(q, b)' <=> Creates(q, b)
    BY <1>0, <1>1, <1>2
  <2>2. \A q \in Request : Creates(q, b) => request'[q].unsent = request[q].unsent
    BY <1>0
  <2> QED BY <1>0, <2>1, <2>2, ProvisioningStays
<1>3. CASE request'[r].op = "create"
  <2>1. PICK a \in Alias : /\ request'[r].aliases = {a} /\ request'[r].unsent = {a}
                           /\ row[a] = "absent" /\ \A q \in Request : ~ Creates(q, a)
    BY <1>3, ServedFrame
  <2>2. Creates(r, a)'
    BY <1>3, <2>1 DEF Creates
  <2>3. task'[<<r, a>>].at = "none"
    BY <2>1, ServedFrame DEF LifecycleInv, RequestInv
  <2>4. Provisioning(a)' = "unsent"
    BY <2>1, <2>2, <2>3, ProvisioningAfter DEF Stage
  <2>5. Provisioning(a) = "none"
    BY <2>1 DEF Provisioning
  <2>6. \A b \in Alias : b # a => Provisioning(b)' = Provisioning(b)
    BY <1>2, <2>1 DEF Creates
  <2>7. Abstract!Becomes(a, "absent", "unsent")
    BY <1>0, <2>1, <2>4, <2>6, Refines
  <2>8. Abstract!Accept(a)
    BY <2>1, <2>5, <2>7 DEF Abstract!Accept
  <2> QED BY <2>8 DEF Abstract!Next
<1>4. CASE request'[r].op # "create"
  BY <1>0, <1>2, <1>4, Stutters DEF Creates
<1> QED BY <1>3, <1>4

LEMMA PublishRefines ==
    ASSUME TypeOK, LifecycleInv, LifecycleInv', NEW r \in Request, NEW a \in Alias, Publish(r, a)
    PROVE  [Abstract!Next]_(Abstract!vars)
<1>0. /\ \A b \in Alias, q \in Request : Creates(q, b)' <=> Creates(q, b)
      /\ row' = row /\ row \in [Alias -> Status]
  BY RequestFrame DEF Creates, Publish, TypeOK
<1>1. /\ a \in request[r].unsent /\ a \notin request'[r].unsent
      /\ request'[r].unsent = request[r].unsent \ {a}
      /\ \A q \in Request : q # r => request'[q] = request[q]
      /\ \A u \in Task : u # <<r, a>> => task'[u] = task[u]
      /\ task'[<<r, a>>].at = "queued"
  BY TaskPairs DEF Publish, TypeOK, RequestState, Idle
<1>2. task[<<r, a>>].at = "none"
  BY <1>1 DEF LifecycleInv, RequestInv
<1>3. ASSUME NEW b \in Alias, b # a \/ ~ Creates(r, b)
      PROVE  Provisioning(b)' = Provisioning(b)
  <2>1. ASSUME NEW q \in Request, Creates(q, b)
        PROVE  /\ task'[<<q, b>>] = task[<<q, b>>]
               /\ b \in request'[q].unsent <=> b \in request[q].unsent
    <3>1. <<q, b>> # <<r, a>> /\ <<q, b>> \in Task
      BY <1>3, <2>1, TaskPairs
    <3> QED BY <1>1, <1>3, <2>1, <3>1
  <2> QED BY <1>0, <2>1, ProvisioningStays
<1>4. CASE Creates(r, a)
  <2>1. Provisioning(a) = "unsent"
    BY <1>1, <1>2, <1>4, ProvisioningByCreator DEF Stage
  <2>2. Provisioning(a)' = "live"
    BY <1>0, <1>1, <1>4, ProvisioningAfter DEF Stage
  <2>3. Abstract!Becomes(a, row[a], "live")
    BY <1>0, <1>3, <2>2, Refines
  <2>4. Abstract!Send(a)
    BY <2>1, <2>3 DEF Abstract!Send
  <2> QED BY <2>4 DEF Abstract!Next
<1>5. CASE ~ Creates(r, a)
  BY <1>0, <1>3, <1>5, Stutters
<1> QED BY <1>4, <1>5

(* The commit of a creation or a deletion decides one alias.                 *)
LEMMA CommitRefines ==
    ASSUME TypeOK, LifecycleInv, LifecycleInv', SingleInv, NEW r \in Request, Commit(r)
    PROVE  [Abstract!Next]_(Abstract!vars)
<1>0. /\ \A b \in Alias, q \in Request : Creates(q, b)' <=> Creates(q, b)
      /\ task' = task /\ row \in [Alias -> Status]
      /\ row' = [b \in Alias |-> CommittedStatus(r, b)]
      /\ request[r].unsent = {} /\ request[r].phase = "open"
      /\ request[r].aliases \subseteq Alias
  BY RequestFrame DEF Creates, Commit, TypeOK, RequestState
<1>1. \A q \in Request : request'[q].unsent = request[q].unsent
  BY DEF Commit, TypeOK, RequestState
<1>2. \A b \in Alias : Provisioning(b)' = Provisioning(b)
  BY <1>0, <1>1, ProvisioningStays
<1>3. CASE \E a \in request[r].aliases : request[r].op \in {"create", "delete"}
  <2>1. PICK a \in Alias : a \in request[r].aliases
    BY <1>0, <1>3
  <2>2. request[r].aliases = {a}
    BY <1>3, <2>1 DEF SingleInv
  <2>3. row' = [row EXCEPT ![a] = IF request[r].op = "create" THEN "pending" ELSE "deleted"]
    BY <1>0, <1>3, <2>1, <2>2 DEF CommittedStatus
  <2>4. CASE request[r].op = "create"
    <3>1. Creates(r, a)
      BY <2>1, <2>4 DEF Creates
    <3>2. row[a] = "absent" /\ task[<<r, a>>].at # "none"
      BY <1>0, <3>1 DEF LifecycleInv, CreationInv, TypeOK
    <3>3. Provisioning(a) \in {"live", "over"}
      BY <1>0, <3>1, ProvisioningByCreator DEF Stage
    <3>4. Abstract!Becomes(a, "pending", Provisioning(a))
      BY <1>2, <2>3, <2>4, Refines
    <3>5. Abstract!Commit(a)
      BY <3>2, <3>3, <3>4 DEF Abstract!Commit
    <3> QED BY <3>5 DEF Abstract!Next
  <2>5. CASE request[r].op = "delete"
    <3>1. row[a] # "absent"
      BY <2>1, <2>5 DEF LifecycleInv, DeletionInv
    <3>2. Abstract!Becomes(a, "deleted", Provisioning(a))
      BY <1>2, <2>3, <2>5, Refines
    <3>3. Abstract!Delete(a)
      BY <3>1, <3>2 DEF Abstract!Delete
    <3> QED BY <3>3 DEF Abstract!Next
  <2> QED BY <1>3, <2>4, <2>5
<1>4. CASE ~ \E a \in request[r].aliases : request[r].op \in {"create", "delete"}
  <2>1. row' = row
    BY <1>0, <1>4 DEF CommittedStatus
  <2> QED BY <1>2, <2>1, Stutters
<1> QED BY <1>3, <1>4

(* A creation that is rolled back gives its provisioning up, unless that is  *)
(* published.                                                                *)
LEMMA AbortRefines ==
    ASSUME TypeOK, LifecycleInv, LifecycleInv', SingleInv, NEW r \in Request, Abort(r)
    PROVE  [Abstract!Next]_(Abstract!vars)
<1>0. /\ \A b \in Alias, q \in Request : Creates(q, b)' <=> Creates(q, b)
      /\ UNCHANGED <<row, task>> /\ row \in [Alias -> Status]
      /\ request[r].aliases \subseteq Alias
  BY RequestFrame DEF Creates, Abort, TypeOK, RequestState
<1>1. /\ request'[r].unsent = {}
      /\ \A q \in Request : q # r => request'[q] = request[q]
  BY DEF Abort, TypeOK, RequestState
<1>2. ASSUME NEW b \in Alias, b \notin request[r].unsent \/ ~ Creates(r, b)
      PROVE  Provisioning(b)' = Provisioning(b)
  <2>1. \A q \in Request : Creates(q, b) =>
           (b \in request'[q].unsent <=> b \in request[q].unsent)
    BY <1>1, <1>2
  <2> QED BY <1>0, <2>1, ProvisioningStays
<1>3. CASE \E a \in Alias : Creates(r, a) /\ a \in request[r].unsent
  <2>1. PICK a \in Alias : Creates(r, a) /\ a \in request[r].unsent
    BY <1>3
  <2>2. task[<<r, a>>].at = "none"
    BY <2>1 DEF LifecycleInv, RequestInv
  <2>3. Provisioning(a) = "unsent"
    BY <2>1, <2>2, ProvisioningByCreator DEF Stage
  <2>4. Provisioning(a)' = "over"
    BY <1>0, <1>1, <2>1, <2>2, ProvisioningAfter DEF Stage
  <2>5. \A b \in Alias : b # a => ~ Creates(r, b)
    BY <2>1 DEF Creates, SingleInv
  <2>6. Abstract!Becomes(a, row[a], "over")
    BY <1>0, <1>2, <2>4, <2>5, Refines
  <2>7. Abstract!GiveUp(a)
    BY <2>3, <2>6 DEF Abstract!GiveUp
  <2> QED BY <2>7 DEF Abstract!Next
<1>4. CASE ~ \E a \in Alias : Creates(r, a) /\ a \in request[r].unsent
  BY <1>0, <1>2, <1>4, Stutters
<1> QED BY <1>3, <1>4

(* A worker ends the provisioning it executes, with or without a verdict.    *)
LEMMA WorkRefines ==
    ASSUME TypeOK, LifecycleInv, LifecycleInv', NEW t \in Task, Work(t)
    PROVE  [Abstract!Next]_(Abstract!vars)
<1> DEFINE r == t[1]
           a == t[2]
<1>0. /\ r \in Request /\ a \in Alias /\ t = <<r, a>> /\ row \in [Alias -> Status]
      /\ task[t].at # "none" /\ task'[t].at # "none" /\ request' = request
      /\ \A u \in Task : u # t => task'[u] = task[u]
      /\ row' \in [Alias -> Status] /\ \A b \in Alias : b # a => row'[b] = row[b]
  BY TaskPairs, WorkFrame, WorkType DEF TypeOK
<1>1. task[t].at # "over"
  BY DEF Work, Start, ReadOwner, ListForwards, CallDone, CallRejected,
         CallUnavailable, SaveVerdict, Crash, At
<1> HIDE DEF r, a
<1>2. \A b \in Alias, q \in Request : Creates(q, b)' <=> Creates(q, b)
  BY <1>0 DEF Creates
<1>3. ASSUME NEW b \in Alias, b # a \/ ~ Creates(r, b) \/ task'[t].at # "over"
      PROVE  Provisioning(b)' = Provisioning(b)
  <2>1. ASSUME NEW q \in Request, Creates(q, b)
        PROVE  task'[<<q, b>>].at \in {"none", "over"} <=> task[<<q, b>>].at \in {"none", "over"}
    <3>1. CASE <<q, b>> # t
      BY <1>0, <3>1, TaskPairs
    <3>2. CASE <<q, b>> = t
      BY <1>0, <1>1, <1>3, <2>1, <3>2
    <3> QED BY <3>1, <3>2
  <2> QED BY <1>0, <1>2, <2>1, ProvisioningStays
<1>4. CASE Creates(r, a) /\ task'[t].at = "over"
  <2>1. Provisioning(a) = "live"
    BY <1>0, <1>1, <1>4, ProvisioningByCreator DEF Stage
  <2>2. a \notin request[r].unsent
    BY <1>0 DEF LifecycleInv, RequestInv
  <2>3. Provisioning(a)' = "over"
    BY <1>0, <1>2, <1>4, <2>2, ProvisioningAfter DEF Stage
  <2>4. row' = [row EXCEPT ![a] = row'[a]]
    BY <1>0
  <2>s. PICK s : s = row'[a]
    OBVIOUS
  <2>5. Abstract!Becomes(a, s, "over")
    BY <1>0, <1>3, <2>3, <2>4, <2>s, Refines
  <2>6. CASE row' = row
    <3>1. Abstract!GiveUp(a)
      BY <1>0, <2>1, <2>5, <2>6, <2>s DEF Abstract!GiveUp, Abstract!Becomes
    <3> QED BY <1>0, <3>1 DEF Abstract!Next
  <2>7. CASE row' # row
    <3>1. task[t].at \in {"activate", "fail"} /\ row'[a] \in {"active", "failed"}
      BY <2>7, WorkFrame DEF a
    <3>2. row[a] # "absent"
      BY <1>0, <3>1 DEF LifecycleInv, TaskInv, a
    <3>3. row[a] \notin {"active", "failed"}
      BY <1>0, <1>1, <1>4 DEF LifecycleInv, VerdictIsFinal, Creates
    <3>4. row[a] \in {"pending", "deleted"}
      BY <1>0, <3>2, <3>3
    <3>5. Abstract!Decide(a)
      BY <1>0, <2>1, <2>5, <2>s, <3>1, <3>4 DEF Abstract!Decide
    <3> QED BY <1>0, <3>5 DEF Abstract!Next
  <2> QED BY <2>6, <2>7
<1>5. CASE ~ (Creates(r, a) /\ task'[t].at = "over")
  <2>1. row' = row
    <3>1. SUFFICES ASSUME row' # row PROVE FALSE
      OBVIOUS
    <3>2. task[t].at \in {"activate", "fail"} /\ task'[t].at = "over"
      BY <3>1, WorkFrame
    <3>3. Op(t) = "create"
      BY <3>2 DEF LifecycleInv, TaskInv
    <3>4. Creates(r, a)
      BY <1>0, <3>3 DEF LifecycleInv, RequestInv, Creates, Op, r
    <3> QED BY <1>5, <3>2, <3>4
  <2>2. \A b \in Alias : Provisioning(b)' = Provisioning(b)
    BY <1>3, <1>5
  <2> QED BY <2>1, <2>2, Stutters
<1> QED BY <1>4, <1>5

(* Every behaviour of requests, tasks and workers is one of AliasStatus: the *)
(* status of an alias is decided at most once, by its own provisioning, and  *)
(* then only deleted (services/aliases.py:126-172).                          *)
THEOREM Refinement == Spec => ImplementsAliasStatus
<1>1. Init => Abstract!Init
  <2> SUFFICES ASSUME Init PROVE Abstract!Init
    OBVIOUS
  <2>1. \A a \in Alias : Provisioning(a) = "none"
    BY DEF Init, Provisioning, Creates, NotServed
  <2> QED BY <2>1 DEF Init, Abstract!Init
<1>2. TypeOK /\ LifecycleInv /\ LifecycleInv' /\ SingleInv /\ [Next]_vars
         => [Abstract!Next]_(Abstract!vars)
  <2> SUFFICES ASSUME TypeOK, LifecycleInv, LifecycleInv', SingleInv, [Next]_vars
               PROVE  [Abstract!Next]_(Abstract!vars)
    OBVIOUS
  <2>1. CASE UNCHANGED vars
    <3>1. row' = row /\ \A a \in Alias : Provisioning(a)' = Provisioning(a)
      BY <2>1 DEF vars, Provisioning, Creates
    <3> QED BY <3>1, Stutters
  <2> QED BY <2>1, StepCases, ServeRefines, PublishRefines, CommitRefines, AbortRefines,
             WorkRefines
<1> QED BY <1>1, <1>2, TypeCorrect, LifecycleInvariant, SingleInvariant, PTL
        DEF Spec, ImplementsAliasStatus, Abstract!Spec

(* What follows from the abstract machine: a verdict is given at most once,  *)
(* and a deletion that comes after it is not undone.                         *)
Machine == INSTANCE AliasStatusProofs
               WITH status <- row, provisioning <- [a \in Alias |-> Provisioning(a)]

THEOREM VerdictGivenOnce == Spec => Machine!DecidedOnce
<1>1. Abstract!Init => Machine!Init
  BY DEF Abstract!Init, Machine!Init
<1>2. [Abstract!Next]_(Abstract!vars) => [Machine!Next]_(Machine!vars)
  <2>1. Abstract!vars = Machine!vars /\ Abstract!vars' = Machine!vars'
    BY DEF Abstract!vars, Machine!vars
  <2>2. Abstract!Next => Machine!Next
    BY DEF Abstract!Next, Abstract!Accept, Abstract!Send, Abstract!Commit, Abstract!GiveUp,
       Abstract!Decide, Abstract!Delete, Abstract!Becomes, Machine!Next, Machine!Accept,
       Machine!Send, Machine!Commit, Machine!GiveUp, Machine!Decide, Machine!Delete,
       Machine!Becomes
  <2> QED BY <2>1, <2>2
<1> QED BY <1>1, <1>2, Refinement, Machine!VerdictGivenOnce, PTL
        DEF ImplementsAliasStatus, Abstract!Spec, Machine!Spec
=============================================================================
