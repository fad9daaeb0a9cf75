--------------------------- MODULE AliasLifecycle ---------------------------
(* The aliases of one user, from the API request to the mailbox at the mail  *)
(* provider. Three kinds of process share the state:                         *)
(*   - API requests: one database transaction each, which publishes Celery   *)
(*     tasks BEFORE it commits (get_db commits when the endpoint is done);   *)
(*   - Celery workers: each task runs a service method in a transaction of   *)
(*     its own, reading rows without locks and calling the provider;         *)
(*   - the provider, whose mailboxes no transaction rolls back.              *)
EXTENDS Naturals, FiniteSets, MailProvider

CONSTANTS
    Alias,        \* rows of the table aliases that may ever be created
    Established,  \* the aliases already provisioned in the initial state
    InitialEmail, \* the user's address in the initial state
    Request,      \* the API requests of a behaviour: each is served once
    MaxRetries,   \* max_retries of the tasks (5 in tasks.py)
    Pool          \* number of worker processes

ASSUME LifecycleAssumption ==
    /\ Established \subseteq Alias
    /\ InitialEmail \in Email
    /\ MaxRetries \in Nat
    /\ Pool \in Nat \ {0}

VARIABLES
    row,      \* committed status of each alias ("absent": no such row)
    owner,    \* committed email of the user's row
    request,  \* what each API request is doing
    task,     \* what became of the task request r publishes for alias a
    mailbox   \* the provider's mailbox of each alias

vars == <<row, owner, request, task, mailbox>>

Status == {"absent", "pending", "active", "failed", "deleted"}

(* aliases: the rows the transaction concerns; unsent: the aliases whose     *)
(* task it has still to publish; email: the address it writes, if any.       *)
RequestState ==
    [op: {"none", "create", "delete", "email"},
     phase: {"new", "open", "committed", "aborted"},
     aliases: SUBSET Alias, unsent: SUBSET Alias, email: Email]

NotServed == [op |-> "none", phase |-> "new",
              aliases |-> {}, unsent |-> {}, email |-> InitialEmail]

(* A task is published at most once for a request and an alias; the          *)
(* request's op tells which task it is.                                      *)
Task == Request \X Alias

(* Where a task is: not published, in the queue, about to read the user's    *)
(* row, at a call of the provider, about to commit a verdict, or finished:   *)
(* "done" is a change of forwarding carried out to its last call.            *)
Running == Calls \cup {"readOwner", "forwardListShow", "activate", "fail"}
Place   == {"none", "queued", "done", "over"} \cup Running

(* email: the target read from the user's row; stale: the addresses listed   *)
(* at the provider and not yet removed.                                      *)
TaskState == [at: Place, tries: 0..MaxRetries, email: Email, stale: SUBSET Email]

Idle(place, n) == [at |-> place, tries |-> n, email |-> InitialEmail, stale |-> {}]

TypeOK ==
    /\ row \in [Alias -> Status]
    /\ owner \in Email
    /\ request \in [Request -> RequestState]
    /\ task \in [Task -> TaskState]
    /\ mailbox \in [Alias -> Mailbox]

Init ==
    /\ row = [a \in Alias |-> IF a \in Established THEN "active" ELSE "absent"]
    /\ owner = InitialEmail
    /\ request = [r \in Request |-> NotServed]
    /\ task = [t \in Task |-> Idle("none", 0)]
    /\ mailbox = [a \in Alias |->
                     IF a \in Established THEN ForwardingTo(InitialEmail) ELSE NoMailbox]

-----------------------------------------------------------------------------
(* API requests.                                                             *)

Open(r) == request[r].phase = "open"

(* The UPDATE of a soft delete holds the row's lock until its transaction    *)
(* ends.                                                                     *)
RowLocked(a) ==
    \E r \in Request : Open(r) /\ request[r].op = "delete" /\ a \in request[r].aliases

Serve(r, op, rows, targets, e) ==
    /\ request[r].phase = "new"
    /\ request' = [request EXCEPT ![r] =
                      [op |-> op, phase |-> "open",
                       aliases |-> rows, unsent |-> targets, email |-> e]]
    /\ UNCHANGED <<row, owner, task, mailbox>>

(* A creation holds the advisory lock of the user's quota and, through the   *)
(* foreign key of its INSERT, keeps the user's row from being updated; a     *)
(* change of address holds that row.                                         *)
UserLocked ==
    \E q \in Request : Open(q) /\ request[q].op \in {"create", "email"}

(* A fresh id and a fresh random part: no other request names this alias.    *)
CreateAlias(r, a) ==
    /\ ~ UserLocked
    /\ row[a] = "absent"
    /\ \A q \in Request : request[q].op = "create" => a \notin request[q].aliases
    /\ Serve(r, "create", {a}, {a}, InitialEmail)

(* A client has the id of an alias from a listing or from the answer to its  *)
(* creation, which is sent when the task is published, before the commit.    *)
Told(a) ==
    \/ row[a] # "absent"
    \/ \E q \in Request : request[q].op = "create" /\ task[<<q, a>>].at # "none"

(* The number of rows the UPDATE matched is not looked at: the task is       *)
(* published even when the alias is not there (or not there yet). An id that *)
(* nobody was told matches no row ever.                                      *)
DeleteAlias(r, a) ==
    /\ Told(a)
    /\ ~ RowLocked(a)
    /\ Serve(r, "delete", IF row[a] = "absent" THEN {} ELSE {a}, {a}, InitialEmail)

ActiveAliases == {a \in Alias : row[a] = "active"}

(* update_user takes the lock of the user's row first, so email changes are  *)
(* served one at a time.                                                     *)
ChangeEmail(r, e) ==
    /\ ~ UserLocked
    /\ Serve(r, "email", ActiveAliases, ActiveAliases, e)

(* apply_async of one task.                                                  *)
Publish(r, a) ==
    /\ Open(r)
    /\ a \in request[r].unsent
    /\ request' = [request EXCEPT ![r].unsent = @ \ {a}]
    /\ task' = [task EXCEPT ![<<r, a>>] = Idle("queued", 0)]
    /\ UNCHANGED <<row, owner, mailbox>>

(* What the transaction leaves of the status of an alias it concerns.        *)
CommittedStatus(r, a) ==
    IF a \notin request[r].aliases THEN row[a]
    ELSE CASE request[r].op = "create" -> "pending"
           [] request[r].op = "delete" -> "deleted"
           [] OTHER                    -> row[a]

(* get_db commits after the endpoint has published everything.               *)
Commit(r) ==
    /\ Open(r)
    /\ request[r].unsent = {}
    /\ request' = [request EXCEPT ![r].phase = "committed"]
    /\ row' = [a \in Alias |-> CommittedStatus(r, a)]
    /\ owner' = IF request[r].op = "email" THEN request[r].email ELSE owner
    /\ UNCHANGED <<task, mailbox>>

(* The broker refuses a task, the connection to the database is lost or the  *)
(* process dies: get_db rolls back, what is published stays published.       *)
Abort(r) ==
    /\ Open(r)
    /\ request' = [request EXCEPT ![r] = [@ EXCEPT !.phase = "aborted", !.unsent = {}]]
    /\ UNCHANGED <<row, owner, task, mailbox>>

-----------------------------------------------------------------------------
(* Workers.                                                                  *)

At(t, place) == task[t].at = place

Goto(t, place) == [task EXCEPT ![t].at = place]

Finish(t)   == [task EXCEPT ![t] = Idle("over", 0)]
Complete(t) == [task EXCEPT ![t] = Idle("done", 0)]

Op(t) == request[t[1]].op

Executing == {t \in Task : task[t].at \in Running}

(* Mutant: deprovision_alias without its status check.                       *)
ProceedsWithoutDeletedCheck(op, s) ==
    CASE op = "create" -> s \in {"pending", "deleted"}
      [] op = "email"  -> s = "active"
      [] OTHER         -> s # "absent"

(* Mutant: provision_alias without the NoResultFound branch.                 *)
ProceedsWithoutRow(op, s) ==
    CASE op = "create" -> s \in {"absent", "pending", "deleted"}
      [] op = "email"  -> s = "active"
      [] OTHER         -> s = "deleted"

(* The statuses under which each service method goes on after reading the    *)
(* row. provision_alias turns back on ACTIVE and FAILED only.                *)
Proceeds(op, s) ==
    CASE op = "create" -> s \in {"pending", "deleted"}
      [] op = "email"  -> s = "active"
      [] OTHER         -> s = "deleted"

(* A free worker takes the task (which acknowledges it) and reads the row.   *)
(* Taking it and reading are one step: between them the task may as well be  *)
(* in the queue.                                                             *)
Start(t) ==
    /\ At(t, "queued")
    /\ Cardinality(Executing) < Pool
    /\ task' = IF ~ Proceeds(Op(t), row[t[2]]) THEN Finish(t)
               ELSE Goto(t, IF Op(t) = "delete" THEN "dropMailbox" ELSE "readOwner")
    /\ UNCHANGED <<row, owner, request, mailbox>>

(* Mutant: the address is the one the request asked for, not the row's.      *)
ReadRequestedEmail(t) ==
    /\ At(t, "readOwner")
    /\ task' = [task EXCEPT
                   ![t].email = IF Op(t) = "email" THEN request[t[1]].email ELSE owner,
                   ![t].at = IF Op(t) = "create" THEN "createMailbox"
                                                 ELSE "forwardListShow"]
    /\ UNCHANGED <<row, owner, request, mailbox>>

(* The committed address, whatever the request that published the task asked *)
(* for. User rows are never removed, so the row is found.                    *)
ReadOwner(t) ==
    /\ At(t, "readOwner")
    /\ task' = [task EXCEPT
                   ![t].email = owner,
                   ![t].at = IF Op(t) = "create" THEN "createMailbox"
                                                 ELSE "forwardListShow"]
    /\ UNCHANGED <<row, owner, request, mailbox>>

(* Any failure of the listing is taken for an empty list.                    *)
ListForwards(t) ==
    /\ At(t, "forwardListShow")
    /\ \E listed \in {mailbox[t[2]].forwards, {}} :
          task' = [task EXCEPT
                      ![t].stale = listed,
                      ![t].at = IF listed = {} THEN "forwardListAddMailbox"
                                               ELSE "forwardListDeleteMailbox"]
    /\ UNCHANGED <<row, owner, request, mailbox>>

(* The address a call is about.                                              *)
Arguments(t) ==
    IF At(t, "forwardListDeleteMailbox") THEN task[t].stale ELSE {task[t].email}

(* The adapter's sequence of calls: create, add and set for a provisioning;  *)
(* remove every listed address, add and set for a change of address; drop.   *)
AfterCall(t, e) ==
    CASE At(t, "createMailbox")            -> Goto(t, "forwardListAddMailbox")
      [] At(t, "forwardListAddMailbox")    -> Goto(t, "changeMailboxSettings")
      [] At(t, "changeMailboxSettings")    ->
            IF Op(t) = "create" THEN Goto(t, "activate") ELSE Complete(t)
      [] At(t, "forwardListDeleteMailbox") ->
            [task EXCEPT ![t].stale = @ \ {e},
                         ![t].at = IF task[t].stale = {e} THEN "forwardListAddMailbox" ELSE @]
      [] OTHER                             -> Finish(t)

(* The provider carries out the call and says so (or gives a refusal that    *)
(* the adapter takes for success).                                           *)
CallDone(t) ==
    /\ task[t].at \in Calls
    /\ CanSucceed(mailbox[t[2]], task[t].at)
    /\ \E e \in Arguments(t) :
          /\ mailbox' = [mailbox EXCEPT ![t[2]] = Effect(@, task[t].at, e)]
          /\ task' = AfterCall(t, e)
    /\ UNCHANGED <<row, owner, request>>

(* Mutant: any refusal of the forwarding address is taken for "exists".      *)
RejectionIgnored(t) ==
    /\ task[t].at \in Calls
    /\ task' = IF At(t, "forwardListAddMailbox") THEN Goto(t, "changeMailboxSettings")
               ELSE IF Op(t) = "create" THEN Goto(t, "fail") ELSE Finish(t)
    /\ UNCHANGED <<row, owner, request, mailbox>>

(* ExternalProviderRejectionError: the service gives up, and a provisioning  *)
(* records the failure.                                                      *)
CallRejected(t) ==
    /\ task[t].at \in Calls
    /\ task' = IF Op(t) = "create" THEN Goto(t, "fail") ELSE Finish(t)
    /\ UNCHANGED <<row, owner, request, mailbox>>

(* Mutant: the bound of the retries is off by one.                           *)
RetryOnceMore(t) ==
    IF task[t].tries <= MaxRetries
    THEN [task EXCEPT ![t] = Idle("queued", task[t].tries + 1)]
    ELSE Finish(t)

(* Mutant: a retry does not count.                                           *)
RetryForever(t) == [task EXCEPT ![t] = Idle("queued", task[t].tries)]

(* autoretry_for: the task goes back to the queue, or is dropped for good.   *)
Retry(t) ==
    IF task[t].tries < MaxRetries
    THEN [task EXCEPT ![t] = Idle("queued", task[t].tries + 1)]
    ELSE Finish(t)

(* A timeout or an HTTP error does not say whether the provider has done it. *)
CallUnavailable(t) ==
    /\ task[t].at \in Calls
    /\ \E e \in Arguments(t) :
          \E m \in {mailbox[t[2]]} \cup
                   {x \in {Effect(mailbox[t[2]], task[t].at, e)} :
                          CanSucceed(mailbox[t[2]], task[t].at)} :
             mailbox' = [mailbox EXCEPT ![t[2]] = m]
    /\ task' = Retry(t)
    /\ UNCHANGED <<row, owner, request>>

(* Mutant: the failure is committed and the task is queued once more.        *)
SaveVerdictAndRequeue(t) ==
    /\ task[t].at \in {"activate", "fail"}
    /\ ~ RowLocked(t[2])
    /\ row' = [row EXCEPT ![t[2]] = IF At(t, "activate") THEN "active" ELSE "failed"]
    /\ task' = IF At(t, "fail") THEN [task EXCEPT ![t] = Idle("queued", @.tries)]
                                ELSE Finish(t)
    /\ UNCHANGED <<owner, request, mailbox>>

(* The commit of a provisioning: UPDATE ... WHERE id = ..., which waits for  *)
(* the row's lock and writes whatever the status has become meanwhile.       *)
SaveVerdict(t) ==
    /\ task[t].at \in {"activate", "fail"}
    /\ ~ RowLocked(t[2])
    /\ row' = [row EXCEPT ![t[2]] = IF At(t, "activate") THEN "active" ELSE "failed"]
    /\ task' = Finish(t)
    /\ UNCHANGED <<owner, request, mailbox>>

(* The worker is killed (the task was acknowledged when taken), its own      *)
(* commit fails, or its retry cannot be published.                           *)
Crash(t) ==
    /\ task[t].at \in Running
    /\ task' = Finish(t)
    /\ UNCHANGED <<row, owner, request, mailbox>>

-----------------------------------------------------------------------------
Next ==
    \/ \E r \in Request, a \in Alias :
          CreateAlias(r, a) \/ DeleteAlias(r, a) \/ Publish(r, a)
    \/ \E r \in Request, e \in Email : ChangeEmail(r, e)
    \/ \E r \in Request : Commit(r) \/ Abort(r)
    \/ \E t \in Task :
          \/ Start(t) \/ ReadOwner(t) \/ ListForwards(t)
          \/ CallDone(t) \/ CallRejected(t) \/ CallUnavailable(t)
          \/ SaveVerdict(t) \/ Crash(t)

(* The server runs an endpoint it has begun to its end (Abort stands for the *)
(* case that it dies), a worker executes what is queued and what it has      *)
(* begun (every call of the adapter has a time-out). Nothing is assumed of   *)
(* the clients, nor of the provider's answers.                               *)
Fairness ==
    /\ \A r \in Request : WF_vars(Commit(r) \/ \E a \in Alias : Publish(r, a))
    /\ \A t \in Task :
          WF_vars(\/ Start(t) \/ ReadOwner(t) \/ ListForwards(t)
                  \/ CallDone(t) \/ CallRejected(t) \/ CallUnavailable(t)
                  \/ SaveVerdict(t))

Spec == Init /\ [][Next]_vars /\ Fairness

-----------------------------------------------------------------------------
(* What holds.                                                               *)

DeleteCommitted(a) ==
    \E r \in Request : /\ request[r].op = "delete"
                       /\ request[r].phase = "committed"
                       /\ a \in request[r].aliases

(* A creation that is rolled back leaves no mailbox at the provider, though  *)
(* its task was published: provision_alias finds no row and stops            *)
(* (services/aliases.py:126-134).                                            *)
NoMailboxWithoutRow ==
    \A a \in Alias : mailbox[a].exists => row[a] # "absent"

(* The mailbox of an active alias is there and keeps no mail, unless a       *)
(* deletion of the alias was committed: no retry, failed change of address   *)
(* or deletion that is rolled back takes it away (services/aliases.py:226).  *)
ActiveHasMailbox ==
    \A a \in Alias : row[a] = "active" /\ ~ DeleteCommitted(a)
                        => mailbox[a].exists /\ mailbox[a].discards

(* The addresses the user's row has had.                                     *)
OwnedEmails ==
    {InitialEmail} \cup
    {request[r].email : r \in {q \in Request : /\ request[q].op = "email"
                                               /\ request[q].phase = "committed"}}

(* Mail is forwarded only to an address that was committed as the user's at  *)
(* some time: never to one whose change was rolled back after its tasks were *)
(* published (services/aliases.py:192,201 read the row).                     *)
ForwardsOnlyToOwnedEmails ==
    \A a \in Alias : mailbox[a].forwards \subseteq OwnedEmails

(* Once an alias is active or failed, no task that could change its status   *)
(* again is left: deletion is the only way out (services/aliases.py:136-148, *)
(* and a creation publishes one provisioning only).                          *)
VerdictIsFinal ==
    \A r \in Request, a \in Alias :
        row[a] \in {"active", "failed"} /\ request[r].op = "create"
            => task[<<r, a>>].at \in {"none", "over"}

(* A change of address may have emptied the alias's list and has not added   *)
(* its own address: it is at it or between two tries, or it was given up.    *)
Interrupted(a) ==
    \E r \in Request :
        /\ request[r].op = "email"
        /\ \/ task[<<r, a>>].at \in {"forwardListDeleteMailbox", "forwardListAddMailbox", "over"}
           \/ /\ task[<<r, a>>].at \in {"queued", "readOwner", "forwardListShow"}
              /\ task[<<r, a>>].tries > 0

(* The mail of an active alias goes somewhere, unless its deletion was       *)
(* committed or a change of address was interrupted after removing the       *)
(* addresses (beget_mail_provider.py:181-197): whatever changes overlap, one *)
(* that is carried through leaves no alias forwarding to nobody, nor does    *)
(* one that has not begun, and a provisioning has added the address before   *)
(* it activates the alias.                                                   *)
ForwardsUnlessInterrupted ==
    \A a \in Alias :
        row[a] = "active" /\ ~ DeleteCommitted(a) /\ ~ Interrupted(a)
            => mailbox[a].forwards # {}

(* Every task that was published is carried out or given up: no request      *)
(* holds a row for ever and no failing call is repeated for ever             *)
(* (tasks.py:22-28, max_retries).                                            *)
EveryTaskEnds == \A t \in Task : At(t, "queued") ~> task[t].at \in {"done", "over"}

-----------------------------------------------------------------------------
(* The abstract status machine.                                              *)

Creates(r, a) == request[r].op = "create" /\ a \in request[r].aliases

(* How far the one provisioning of an alias is.                              *)
Provisioning(a) ==
    IF \E r \in Request : Creates(r, a) /\ task[<<r, a>>].at \notin {"none", "over"} THEN "live"
    ELSE IF \E r \in Request : Creates(r, a) /\ a \in request[r].unsent THEN "unsent"
    ELSE IF \E r \in Request : Creates(r, a) THEN "over"
    ELSE "none"

Abstract == INSTANCE AliasStatus
                WITH status <- row, provisioning <- [a \in Alias |-> Provisioning(a)]

(* Whatever the order in which requests commit and tasks run, the status of  *)
(* an alias is decided at most once, by its own provisioning, and then only  *)
(* deleted; a deleted alias comes back only while that provisioning is still *)
(* alive (services/aliases.py:126-172).                                      *)
ImplementsAliasStatus == Abstract!Spec

-----------------------------------------------------------------------------
(* What makes the properties inductive.                                      *)

(* A request publishes nothing before it is served, nothing twice, and a     *)
(* creation only the task of its own alias.                                  *)
RequestInv ==
    \A r \in Request :
        /\ request[r].phase # "open" => request[r].unsent = {}
        /\ request[r].phase # "new" => request[r].op # "none"
        /\ request[r].op = "create" => request[r].unsent \subseteq request[r].aliases
        /\ \A a \in Alias :
              /\ a \in request[r].unsent => task[<<r, a>>].at = "none"
              /\ task[<<r, a>>].at # "none" =>
                    /\ request[r].phase # "new"
                    /\ request[r].op = "create" => a \in request[r].aliases

(* A creation or a deletion is about one alias.                              *)
SingleInv ==
    \A r \in Request : request[r].op \in {"create", "delete"} =>
        \A a, b \in request[r].aliases : a = b

(* An alias has one creator, its row is there once the creator has committed *)
(* and not before, and the creator commits after its task is published.      *)
CreationInv ==
    \A r \in Request, a \in Alias : Creates(r, a) =>
        /\ request[r].phase # "new"
        /\ \A q \in Request : Creates(q, a) => q = r
        /\ request[r].phase = "committed" <=> row[a] # "absent"
        /\ request[r].phase # "aborted" /\ a \notin request[r].unsent
              => task[<<r, a>>].at # "none"

(* A task that has got past reading the row found a row, a verdict is that   *)
(* of a provisioning, and a target is an address the user has had.           *)
TaskInv ==
    /\ owner \in OwnedEmails
    /\ \A t \in Task :
          /\ task[t].at \in Running => row[t[2]] # "absent"
          /\ task[t].at \in {"createMailbox", "activate", "fail"} => Op(t) = "create"
          /\ task[t].email \in OwnedEmails

(* Only a committed deletion makes a row deleted and a mailbox dropped.      *)
DeletionInv ==
    /\ \A r \in Request, a \in Alias :
          request[r].op = "delete" /\ a \in request[r].aliases => row[a] # "absent"
    /\ \A a \in Alias : row[a] = "deleted" => DeleteCommitted(a)
    /\ \A t \in Task : At(t, "dropMailbox") => DeleteCommitted(t[2])

(* A provisioning that is about to activate its alias has set it up.         *)
SetUpInv ==
    \A t \in Task : At(t, "activate") /\ ~ DeleteCommitted(t[2])
                       => mailbox[t[2]].exists /\ mailbox[t[2]].discards

(* Only a change of address lists and removes addresses, and a task that is  *)
(* past adding its own finds one there.                                      *)
RouteInv ==
    \A t \in Task :
        /\ At(t, "readOwner") => Op(t) \in {"create", "email"}
        /\ task[t].at \in {"forwardListShow", "forwardListDeleteMailbox"} => Op(t) = "email"
        /\ task[t].at \in {"changeMailboxSettings", "activate"} =>
              \/ mailbox[t[2]].forwards # {}
              \/ DeleteCommitted(t[2])
              \/ Interrupted(t[2])

LifecycleInv ==
    /\ RequestInv /\ CreationInv /\ TaskInv /\ DeletionInv /\ SetUpInv
    /\ NoMailboxWithoutRow /\ ActiveHasMailbox
    /\ ForwardsOnlyToOwnedEmails /\ VerdictIsFinal
    /\ RouteInv /\ ForwardsUnlessInterrupted

-----------------------------------------------------------------------------
(* What the documentation says and the code does not do.                     *)

(* "Soft-delete an email alias and mark it as removed"                       *)
(* (endpoints/aliases.py:42): the status of a removed alias stays DELETED.   *)
DeletedStaysDeleted ==
    [][\A a \in Alias : row[a] = "deleted" => row'[a] = "deleted"]_vars

(* "Alias creation request accepted and queued for background processing"    *)
(* (endpoints/aliases.py:68): a task will see to a pending alias.            *)
PendingIsQueued ==
    \A a \in Alias : row[a] = "pending" =>
        \E r \in Request : request[r].op = "create" /\ task[<<r, a>>].at \notin {"none", "over"}
=============================================================================
