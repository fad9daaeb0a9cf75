# Verification of the EmailAlias service

TLA+ models of the service in `src/app`, TLC configurations that check them on
small instances, and TLAPS proofs of the safety properties for every instance.
All paths below are relative to `src/`.

## The system

The service gives a user e-mail aliases: mailboxes at a mail provider (Beget)
that forward to the user's own address. It is a FastAPI application over
PostgreSQL and Redis, with Celery workers that talk to the provider.

| Component | State | Operations |
|---|---|---|
| Request transactions (`app/core/dependencies.py`) | one database session per request | authenticate, run the endpoint, **then** commit; roll back on any exception |
| Aliases (`app/services/aliases.py`, endpoints, repository) | table `aliases` with status PENDING, ACTIVE, FAILED, DELETED | create, delete, list; `provision_alias`, `update_forwarding_email`, `deprovision_alias` for the workers |
| Celery tasks (`app/infrastructure/celery`) | broker queues, tasks in execution | publish, take (acknowledged early), retry with a bound, give up |
| Provider adapter (`app/infrastructure/beget_mail_provider.py`) | the provider's mailboxes and forwarding lists | sequences of HTTP calls, each done, rejected or unavailable |
| Verification (`app/services/verifications.py`, repository) | Redis: session, index by contact, rate limit, token, all with a time to live | request a code, mail it, confirm it, spend the token |
| Users, passwords, tokens (`app/services/users.py`, `passwords.py`, `tokens.py`) | tables `users` and `tokens`; Redis: failed logins | register, update, delete, administer, reset, log in |
| Failed logins (`app/services/tokens.py`, repository) | Redis: a record for each address with failures, window, block and life | read before the row's lock, written or deleted after |
| Domains (`app/services/domains.py`, repository) | table `domains` | listing; its row is locked by a creation of an alias |
| Rate limiter, schemas, configuration, shell | read-only or library state | validation, refusal |

How they interact:

- An endpoint publishes Celery tasks **before** its transaction commits
  (`get_db` commits after the endpoint has returned). Publishing and committing
  are not atomic: a task may run before the commit, or after a rollback.
- A task reads rows without locks in a transaction of its own, calls the provider
  for seconds, and commits what it concludes. Nothing rolls the provider back.
- Changing the user's address publishes one forwarding task for each active alias.
- Operations on users and passwords spend a verification token in Redis, then work
  in PostgreSQL: two stores, no common transaction.
- Operations on one user are ordered by the lock of the user's row
  (`SELECT ... FOR UPDATE`); authentication is an unlocked read that precedes it.

What is hard, and what makes each part correct:

| Part | Hard behaviour | Correctness |
|---|---|---|
| Aliases and tasks | tasks overtaking commits, rollbacks after publishing, deletions during a provisioning, lost and repeated tasks, calls of unknown outcome | mailboxes belong to rows, active aliases have mailboxes, mail only to the user's addresses, a status decided once, tasks that end |
| Verification | handlers interleaving between Redis commands, keys expiring in between, write-backs of stale sessions | a code proves the contact for its own purpose only, limits hold, a code works once |
| Accounts | logins racing bans, deletions, resets and each other | one active token for a user, never for a banned or deleted one, never issued under an older password, address or role |
| Failed logins | a record read before the lock and written back after it, a clock that moves between | nobody is blocked without enough recent failures, a block is not forgotten early |
| Quota | creations at once on several domains, aliases changing status meanwhile | the limits hold |
| Addresses | a token spent, a row looked up and a row locked in separate steps; registrations and changes meeting in the unique index | an address leads to one row, a row changes only on a proof for the address it has then, users who wait for each other get on |

`PROJECT.json` lists the hazards line by line, with the properties that cover them.

## Modules

### `AliasLifecycle` (with `MailProvider`, `AliasStatus`)

The aliases of one user from the request to the mailbox.

| Variable | In the code |
|---|---|
| `row` | committed `aliases.status`, `"absent"` before there is a row |
| `owner` | committed `users.email` of the user |
| `request` | per request: operation, phase of its transaction, aliases concerned, tasks still to publish, address it writes |
| `task` | per request and alias: where the Celery task is, number of retries, address read, addresses listed and still to remove |
| `mailbox` | per alias, at the provider: exists, forwarding list, `forward_and_delete` set |

`CreateAlias`, `DeleteAlias` and `ChangeEmail` are the endpoints up to the first
`apply_async`; `Publish` is one `apply_async`; `Commit` and `Abort` are the two ends
of `get_db`. `UserLocked` and `RowLocked` are the locks that make requests wait: the
advisory lock and the foreign key of a creation, `FOR UPDATE` of a change of address,
the `UPDATE` of a deletion. `Start` is a worker that takes a task and reads the row;
`ReadOwner`, `ListForwards`, then `CallDone`, `CallRejected` or `CallUnavailable` for
each call of the adapter, in the order `AfterCall` gives; `SaveVerdict` is the commit
of a provisioning; `Crash` is the loss of a task that was acknowledged. `CallUnavailable`
may or may not have had its effect: a time-out does not tell. A task ends `"done"` if it is
a change of address carried to its last call, else `"over"`. `Told` says whose id a client
may have: the answer to a creation is sent before its transaction commits.

`MailProvider` holds the provider's mailboxes. It is external: its effects are read
off the adapter, and every answer the adapter tells apart is possible for every call.

`AliasStatus` is what the service promises about a status, without requests, tasks or
a provider. `AliasLifecycle` implements it under the mapping `status <- row`,
`provisioning <- Provisioning(a)`, the stage of the one provisioning job. Note what
the abstract machine has to allow: `Decide` from DELETED, and an alias PENDING whose
job is over. Both are findings below.

### `Verification` (with `ContactProof`)

The verification of one contact. Each action is one Redis command (or MULTI/EXEC) of
a handler, together with the computation up to the next command; handlers interleave
between actions and may die there (`Crash`). A code is named by the request that
generated it and a session id by the request that made it; guesses are codes that
were mailed, or a wrong one. Keys have a life counted in units of time; `Tick` is a
unit, -1 is a key without a time to live, as Redis has it. `KeptLife` is what SET with
KEEPTTL does: on a missing key it makes one that never expires. The field
`rate.granted` is not in the code: it counts the requests let through since the key
appeared.

`ContactProof` is what all this promises, without sessions, keys or time: codes are asked
for (`Ask`), let through one by one (`Grant`) in windows of `MaxRequests` (`NewWindow`),
mailed (`Mail`), guessed (`Confirm`), and an operation is done for what the guessed code was
asked for (`Operate`). `Verification` implements it; the mapping shows each request by what
it asked for, proved and did (`AskedFor`, `ProvedBy`, `DoneFor`). Note what it does not
promise: that a code is confirmed, or a token used, only once.

### `Accounts` (with `AccountBook`)

Users and access tokens. A request authenticates (`Authenticated`, an unlocked read),
waits for the row (`Lock`, with the decision and the row it will write), runs its
statements (`Flush`, which picks the tokens to revoke), and commits. `Refuse` is an
exception, `Rollback` any failure after the lock. `FindDeleted` and `RevokeOrphans` are
`delete_user` without a user: the only operation that goes on without the lock.
`FindNoUser` and `Insert` are `create_user` on an unknown address, which no row lock
orders. Passwords and addresses are named by the request that set them. `issuedTo` is
not in the code: it keeps the user's row as it was when the token was issued.
The row read under the lock is taken to be current; SQLAlchemy would return the
attributes read at authentication if that object were still referenced, which it is
not once the dependency has returned.

`AccountBook` has the same operations without requests, locks or transactions: each takes
effect at once, on the account as it is then, and ends the sessions it has to. `Accounts`
implements it: a `Commit` is the operation, everything before it and every failure is a
stutter. The one step that shows without a commit is `RevokeOrphans`, a `SignOut`.

### `LoginThrottle`

The failed logins of one address. `GetSession` reads the record, before any lock;
`WrongPassword` and `RightPassword` wait for the user's row and verify the password; the
record that was read is written back plus one (`SaveSession`), or deleted. Time is counted in halves of an hour: `ShortBlock`
and `Hour` are the two blocks, `Hour` is the window, and the life of a record is what SET
gives it. `missedAt` is not in the code: it keeps when each wrong password was verified,
so that a block can be held against the failures it stands for.

### `AliasQuota`

The two limits of `create_alias`. The transaction locks the domain's row (or finds no such
domain, and ends), takes the advisory lock of the user, counts, inserts, publishes and
commits. What it says of waiting is about creations among themselves: the lock on the
user's row that the foreign key of the INSERT takes is in `AliasLifecycle` (`UserLocked`). What happens to
aliases otherwise is not modelled again but taken from `AliasStatus` (`INSTANCE`), which
`AliasLifecycle` implements: deletions and verdicts change the numbers without either
lock. `created_at` is the time the transaction began, the window is counted back from
the time of the statement. `revived` is not in the code: the aliases that were decided
after their deletion.

### `Addresses`

The four operations that change a user's row on the strength of a verification token.
`GetToken` and `DeleteToken` are the two Redis commands of `verify_operation_token`;
`Look` is the unlocked half of `SELECT ... FOR UPDATE` by address, `Lock` and `Miss` are
what it finds when it has the lock; `Update`, `EnterIndex` and `Insert` are the flush;
`RefuseAddress` is the `IntegrityError` and `BreakDeadlock` the database ending one of
those that wait for each other. Registration and reset spend their token before they
look for the row; deletion and change of address lock the row first. `Accounts` has the
same operations seen from the tokens they revoke; here they are seen from what they prove.
`UpdateMe` is the change of address; the new password that the same request may carry needs
no verification and is in `Accounts`.

### Model-checking modules

`MCAliasLifecycle`, `MCVerification` and `MCLoginThrottle` add the symmetry of requests,
which are served once and otherwise alike; it is used in safety runs only. `MCAddresses`
gives each user an address. The other modules are checked as they are.

## Runs

| Run | Instance | Shows |
|---|---|---|
| `alias_safety` | 1 alias, 2 addresses, 3 requests, 1 retry, 2 workers | type, and the five safety invariants |
| `alias_refinement` | 2 aliases (one established), 2 requests, 1 worker, fair | `AliasLifecycle` implements `AliasStatus`; every published task ends |
| `verification_safety` | 3 requests, 2 purposes, lives of 1 and 2, limits 2 and 1 | type, purposes kept, operations proved, no attempt counted that was not a miss, a limit that expires unless a process dies, codes that outlive the cooldown; `Verification` implements `ContactProof`, which limits the codes of a window |
| `accounts` | a user and an administrator, 3 requests, fair | type, one token, in good standing, current; `Accounts` implements `AccountBook`; every request is answered |
| `throttle_safety` | 4 logins, blocks of 1 and 2, 6 times | type, blocks deserved, long blocks deserved, blocks lifted only by logins that began before, blocks remembered for an hour |
| `quota` | 2 users, 3 domains (one premium), 2 creations, limits of 1, a window of 1, fair | type, both limits, waiting no longer than two deep; every creation ends |
| `addresses` | 2 users, 2 addresses, 8 tokens, 2 operations, fair | type, unique addresses, changes on a proof, who may hold and wait; every operation ends |
| `alias_deletion`, `alias_pending`, `verification_one_time`, `verification_gone`, `throttle_block` | 1 to 4 requests | the findings below |

Bounds. A request is served once, so the number of requests bounds a behaviour.

- `AliasLifecycle`: three requests are a creation, a deletion and a change of address at
  once, or three of a kind; two workers let any two tasks interleave; one retry reaches
  both a retry and its exhaustion. The same address may be set again.
- `Verification`: a life of 2 lets a key be new, used and gone; a bound of one attempt
  lets two guesses meet it, and a bound of two requests lets three meet it. Two operations
  on one token take four requests, with a creation and a confirmation before them, and are
  beyond this run: `SpentTokenServesNobody` is proved, not run.
- `Accounts`: the administrator's token, the user's token and one operation between them
  need three requests.
- `LoginThrottle`: three wrong passwords block (the code's number) and a fourth finds the
  block or its end; `MaxTime` leaves room for the window, the first block and the second.
- `AliasQuota`: limits of 1 are met by the second of two creations, on the same or on
  different domains, within the window or after it.
- `Addresses`: two operations meet on one row, on one address, or in a circle when users
  exchange addresses; each row may be there, deleted or not there yet.

Longer histories are covered by the proofs, which bound neither requests nor users;
the proofs of `LoginThrottle`, `AliasQuota` and `Verification` keep a clock with an
arbitrary end or lives of arbitrary length. All runs allow deadlock: when every request
is served and every task is over the system rests.

Fairness is weak everywhere. `AliasLifecycle`: a begun endpoint is run to its end, and a
worker executes what is queued and what it has begun, since every call of the adapter has
a time-out. Neither `Abort` nor `Crash` is fair, clients owe nothing, the provider may
refuse or time out for ever. Weak fairness is enough for `Start`: with a bounded number of
retries every running task ends, so a worker is free for good in the end. `Accounts`,
`AliasQuota`, `Addresses`: the server and the database go on with what was begun; a
rollback is never fair, except that of a deadlock, which PostgreSQL detects. Requests are
finitely many, so whoever holds a lock ends and nobody else comes for ever; PostgreSQL
queues those that wait. `Verification` and `LoginThrottle` state no liveness.

## Findings

1. **A deleted alias comes back** (`alias_deletion`). `provision_alias` writes its verdict
   over a deletion committed since it read the row, and even provisions an alias it
   reads as DELETED (`app/services/aliases.py:136-171`).
2. **A pending alias nobody provisions** (`alias_pending`). The task is published before
   the commit and ends when it finds no row (`app/api/v1/endpoints/aliases.py:91`).
3. **A code confirmed twice** (`verification_one_time`): compared in one command, deleted
   in another (`app/services/verifications.py:146,168`).
4. **A confirmed session that is back, for ever** (`verification_gone`): KEEPTTL on a key
   that has gone makes it without a time to live (`app/repositories/verification.py:47`).
5. **A block written over** (`throttle_block`): a failure that waited for the lock behind
   the one that blocked the address writes back the record it had read before, plus one
   (`app/services/tokens.py:56,85-123`). Only logins under way when the address was blocked
   can do it (`OnlyEarlierLoginsLift`).

Behaviours the models have, without a run of their own:

- A deletion that is passed over: its `UPDATE` may match no row, and nobody looks
  (`app/repositories/aliases.py:71`). The client has the id from the answer to the creation,
  which the locked FastAPI sends before `get_db` commits; a deletion in between (`Told`,
  `DeleteAlias`) is answered 204, and the alias is then committed PENDING and provisioned.
- Two wrong guesses at once count as one (`app/services/verifications.py:147-156`). That is
  why `AttemptsAreMisses` is an inequality.
- A resend keeps the session's remaining life and answers the full one (`:108`), and the
  cooldown, computed from that life, does not start again (`:41`): `CodeOutlivesCooldown`
  is about the cooldown of the session, not of the code.
- The process may die between INCR and EXPIRE; the limit of that contact never expires
  (`app/repositories/verification.py:13`). `OnlyDeathLeavesLimit` says that nothing else
  does it.
- A failed login that read the record before a successful one deleted it brings its
  counts back (`app/services/tokens.py:85`).
- An alias deleted during its provisioning and then decided counts again: a user may have
  more aliases than the active limit. `OnlyRevivedExceed` says that nothing else does it.
- Two registrations of a new address at once: the second fails on the unique index, which
  `create_user` does not catch, as `update_user` does (`app/services/users.py:84,164`); the
  answer is 500 where 409 is documented (`app/api/v1/endpoints/users.py:135`).
- A verification token is spent even if the operation is then rolled back
  (`app/services/passwords.py:30`), and two operations that have both read it share it
  (`app/services/verifications.py:194,224`). `SpentTokenServesNobody` says that nobody else
  does.
- A change of address that fails between removing the addresses and adding its own leaves
  an active alias forwarding nowhere (`app/infrastructure/beget_mail_provider.py:181-197`):
  until a retry, or for good. `ForwardsUnlessInterrupted` says that nothing else does it,
  however changes, retries and deletions overlap.
- A listing that fails is taken for an empty list (`beget_mail_provider.py:133`), so a change
  of address may leave the former address in the list; it is one the user has had
  (`ForwardsOnlyToOwnedEmails`).

## Proofs

`AliasLifecycleProofs` proves, for any sets of aliases, addresses and requests, any
number of retries and workers:

- `TypeCorrect`: `Spec => []TypeOK`;
- `LifecycleInvariant`: `Spec => []LifecycleInv`, and from it four safety invariants
  of `alias_safety` (`RolledBackCreationLeavesNothing`, `ActiveAliasKeepsMailbox`,
  `NeverForwardsElsewhere`, `VerdictStands`);
- `ForwardsSomewhere` (`ForwardsUnlessInterrupted`): an active alias forwards somewhere,
  unless its deletion was committed or a change of address is between removing the
  addresses and adding its own, was given up there, or has to be tried again.

None of the five is inductive. `RequestInv` says that a request publishes a task at most
once and a creation only its own; `CreationInv` that an alias has one creator, whose
commit makes the row; `TaskInv` that a running task has found a row, that verdicts
belong to provisionings, and that targets are addresses the user has had; `DeletionInv`
that only committed deletions make rows deleted; `SetUpInv` that a provisioning about to
activate has set up the mailbox; `RouteInv`, for the last, that only a change of address
removes addresses and that a task past adding its own finds one there, unless another
change is `Interrupted`. An interruption ends only where an address is added
(`InterruptionStep`), so that it excuses every empty list until then. The only assumption is `LifecycleAssumption` on the
constants.

`Refinement` is `Spec => Abstract!Spec`. Each action is matched
with the action of `AliasStatus` it carries out, or with a stutter: serving a creation is
`Accept`, its `Publish` is `Send`, its `Commit` is `Commit`, its `Abort` is `GiveUp` unless
the task is out, the end of its task is `Decide` or `GiveUp`, the commit of a deletion is
`Delete`. It needs `LifecycleInv` before and after the step, for the creator of an alias
is what `Provisioning` is read off, and `SingleInv`: a transaction decides one alias.

What is proved of the abstract machine carries over. `AliasStatusProofs` proves
`StatusInvariant` (an alias that is decided has its job behind it) and from it
`VerdictGivenOnce`: an alias is decided at most once, and a deletion after the verdict
stands. `AliasLifecycleProofs` ends with the same theorem about `AliasLifecycle`, from
`Refinement` alone. So finding 1 is bounded: a deletion can be undone only by the one
verdict that was still to come.

`AccountsProofs` proves `AccountsInvariant`, type correctness with the inductive
invariant, for any users, administrators and requests, and from it `AtMostOneToken`,
`NoTokenOutlivesStanding`, `NoTokenOutlivesChange`. The argument: the lock of a row is
held by one transaction (`LockInv`), so what that transaction read is still so when it
commits (`HoldInv`): a login commits the row as it is, a registration has found no live
user, and the tokens picked by a flush are all the active ones, because only a login
under the lock makes a token and an unlocked step (`RevokeOrphans`) only revokes.

Its `Refinement` is `Spec => Book!Spec`. By `HoldInv` the row that a commit writes is the
one the operation makes of the row as it is at the commit (`DecidedChange`), and the tokens
it revokes are all of the user's, so that the commit is the operation; every other step
changes neither rows nor usable tokens.

`VerificationProofs` proves `VerificationInvariant` and from it `PurposeHolds`,
`OperationProved` and `AttemptsHold`, for any requests, purposes, lives and
limits. `KeysInv` is about Redis, `HandlerInv` about what a handler has read and has yet to
write: a session, stored or held, is `Sound`, that is, its code and purpose are those of
one request and its attempts are misses that have happened. Requests and misses are never
undone, so a stale session that is written back is sound still; a token is `Issued` by a
confirmation whose guess was the code of the session it had read.

Four more of its theorems each have an invariant of their own on top of it:

- `SpentTokens` (`SpentTokenServesNobody`) from `SpentInv`: a token that has served is not
  there, because its confirmation, the only request that could set the key, is over;
- `LimitExpires` (`OnlyDeathLeavesLimit`) from `WindowInv`: a count without an end belongs
  to one request, which is about to give it one, and a key without an end does not expire
  before, so that the EXPIRE always finds the key that INCR made;
- `CooldownHolds` (`CodeOutlivesCooldown`) from `CooldownInv`: ids are fresh and a session is
  written over only with the life it has, or with none, so a session found out of its
  cooldown stays out of it until it is written. A wrong guess that writes an old code back
  has a code that was replaced, hence a session that had rested;
- `Refinement` (`Spec => Promise!Spec`) from `OriginInv`: a code in a session, in a handler or
  in the mailbox is that of a creation, and a guess is a mailed code or a wrong one. INCR
  within the limit is `Grant`, the mailing `Mail`, SET of the token `Confirm`, its deletion
  `Operate`; the expiry of the count is `NewWindow`.

`LoginThrottleProofs` proves `ThrottleInvariant` and from it `BlockDeserved` and
`LongBlockDeserved`, for any number of logins, failures and times. A record
is `Honest` if it counts failures that happened in its window and its blocks rest on those
of the hour before. Failures are never undone, so records that are written back late stay
honest; a failure that is written counts itself, verified after everything its record has
seen, so no failure is counted twice. The long block adds one to the failures of the first.
`BlockLiftedByEarlierOnly` (`OnlyEarlierLoginsLift`) adds `EarlierInv`: a login that goes on
has read a record that did not block and, when it writes, holds the row; with `RecordInv`,
which keeps the record of a block alive as long as the block, no other step can lift one.
`BackOffHolds` (`BackOffStands`) adds `BackOffInv`: what a failure is about to save is no
older than the block it has read of, and blocks for the hour if that was within the hour.

`AliasQuotaProofs` proves `QuotaInvariant` and from it `MonthlyLimitHolds` and
`ActiveLimitHolds`, for any users, domains, limits and windows. What a creation counted
under the advisory lock of its user (`LockInv`) is still below the limit when it commits
(`Counted`): nobody else adds an alias of that user, the window only moves on, and a status
that changes makes the number of aliases smaller or is a revival. `WaitingEnds`
(`WaitingIsShort`) adds `RowInv`, that who holds the row of a domain asked for that row and
is not over: a creation waits for one that waits at most for one that goes on, hence never
in a circle. `StatusMachineKept` is `Spec => S!Spec`: what the quota model lets happen to
aliases is a behaviour of `AliasStatus`, so the limits do not rest on a machine of its own.

`AddressesProofs` proves `AddressInvariant` and from it `AddressesUnique` and
`ChangesAreProved`, for any users, addresses and operations. `HandlerInv` says that an
operation that holds a row has a change that fits that row as it is (`ChangeInv`) and, past
the deletion of its token, that the token is gone (`Proved`, `Spent`); tokens are not issued
anew. `IndexInv` says that what a transaction has flushed is in no other row and in no other
flush, which is what the waits in the unique index are for; a commit then keeps the
addresses apart. `WaitingIsForChanges` (`OnlyChangesHoldAndWait`) rests on `HeldInv`, that
who holds a row works on it and has not ended: only changes of address hold and wait, so
only they can be in the circle that PostgreSQL has to break.

Every proof assumes only what its module's `ASSUME` says of the constants. `TypeCorrect` is
proved in each module: it bounds, where the code has a bound, retries, attempts and times.

Only model-checked: the liveness properties `EveryTaskEnds`, `EveryRequestEnds`,
`EveryCreationEnds`, `EveryOperationEnds` (fairness and ENABLED are out of the prover's
reach). Every invariant, action property and refinement of a passing run is proved. The
absence of circles of waiting, a safety property, is proved for creations (`WaitingEnds`)
and narrowed to changes of address for operations (`WaitingIsForChanges`); that the waiting
then ends is checked.

## What is left

1. `Accounts` with `AliasLifecycle`: the aliases of a user who is deleted or banned stay as
   they are, and a creation that has authenticated goes on. No document says otherwise.
2. `Verification` with `Addresses` in one module: `Addresses` starts with all tokens issued,
   which is what `Verification` allows at most; joined, a token could be issued again during
   an operation.
3. A restart of Redis that loses sessions and counts, a broker that delivers twice.

## Not modelled

- Listings (aliases, domains) change nothing; a domain is written by nothing in the program.
- Validation and normalisation of inputs (`app/schemas`) keep no state; the models take
  valid inputs.
- Request limits per address are a library's (slowapi): they refuse requests before they
  begin.
- Logging, metrics, the mapping of exceptions to answers (`app/main.py`), configuration,
  migrations and deployment carry no state of the kind checked here.
- Hashes and random values are identities: no two are alike.
- The content of mails, spam settings and mailbox passwords is left out.
- Clocks: `AliasQuota` and `LoginThrottle` have one clock. PostgreSQL's and the
  application's are two; a difference moves the edge of the window.
- `update_status` and `touch` of the repositories are not called by anything.
- The answer of a request is sent before `get_db` commits, so a commit that fails leaves a
  2xx answer to what was rolled back (`app/core/dependencies.py:34`). The models are about
  what is committed, not about what the client has heard, but for the id of a new alias
  (`Told`).
