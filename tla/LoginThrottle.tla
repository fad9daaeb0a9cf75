---------------------------- MODULE LoginThrottle ----------------------------
(* The failed logins of one address (services/tokens.py, repositories/       *)
(* tokens.py): a record in Redis counts the wrong passwords of a window and  *)
(* says until when the address is blocked. A login reads the record, then    *)
(* waits for the lock of the user's row, verifies the password, and writes   *)
(* or deletes the record from what it had read before it waited.             *)
EXTENDS Naturals, FiniteSets

CONSTANTS
    Request,     \* logins of a behaviour: each is served once
    MaxFailures, \* wrong passwords that block the address (3)
    ShortBlock,  \* the first block (15 minutes)
    Hour,        \* the window, the next block, the life of the record
    MaxTime,     \* bound on the clock
    None         \* no request holds the row

ASSUME ThrottleAssumption ==
    /\ MaxFailures \in Nat \ {0} /\ MaxTime \in Nat
    /\ ShortBlock \in Nat \ {0} /\ Hour \in Nat /\ ShortBlock < Hour
    /\ IsFiniteSet(Request) /\ None \notin Request

VARIABLES
    session,  \* the record of the address
    clock,    \* the time, from 1 on: 0 stands for a time that is not set
    lock,     \* the request that holds the lock of the user's row
    request,  \* what each request is doing
    missedAt  \* when its wrong password was verified (not in the code)

vars == <<session, clock, lock, request, missedAt>>

(* The latest time a record can name is the end of a block or of its life.   *)
Time == 0 .. MaxTime + 1 + Hour

Session == [failed: Nat, start: Time, until: Time, last: Time, dies: Time]

(* A record that is there counts one failure at least.                       *)
NoSession == [failed |-> 0, start |-> 0, until |-> 0, last |-> 0, dies |-> 0]

(* seen: the record it read; next: the one it has to save.                   *)
RequestState ==
    [at: {"new", "checked", "missed", "proven", "held", "over"},
     seen: Session, next: Session]

TypeOK ==
    /\ session \in Session
    /\ clock \in 1 .. MaxTime + 1
    /\ lock \in Request \cup {None}
    /\ request \in [Request -> RequestState]
    /\ missedAt \in [Request -> Time]

Init ==
    /\ session = NoSession
    /\ clock = 1
    /\ lock = None
    /\ request = [r \in Request |-> [at |-> "new", seen |-> NoSession, next |-> NoSession]]
    /\ missedAt = [r \in Request |-> 0]

-----------------------------------------------------------------------------
At(r, place) == request[r].at = place

Goto(r, place) == request' = [request EXCEPT ![r].at = place]

Blocks(s) == s.until > clock

(* Mutant: a block is not looked at.                                         *)
GetSessionOfBlocked(r) ==
    /\ At(r, "new")
    /\ request' = [request EXCEPT ![r].at = "checked", ![r].seen = session]
    /\ UNCHANGED <<session, clock, lock, missedAt>>

(* A login starts with a read of the record, before any lock.                *)
GetSession(r) ==
    /\ At(r, "new")
    /\ request' = [request EXCEPT ![r].at = IF Blocks(session) THEN "over" ELSE "checked",
                                  ![r].seen = session]
    /\ UNCHANGED <<session, clock, lock, missedAt>>

(* Mutant: an old window goes on.                                            *)
WindowNeverEnds(s) == s.failed > 0

(* The window of the record is open, and the failure counts in it.           *)
WindowIsOpen(s) == s.failed > 0 /\ clock - s.start <= Hour

(* Mutant: every block is the long one.                                      *)
EveryBlockIsLong(s) == Hour

(* Mutant: a block is added to the one before.                               *)
BlocksAddUp(s) == IF s.last = 0 \/ clock - s.last > Hour THEN ShortBlock ELSE ShortBlock + Hour

BlockLength(s) == IF s.last = 0 \/ clock - s.last > Hour THEN ShortBlock ELSE Hour

(* _handle_failed_attempt: the record after one more failure, from the one   *)
(* that was read.                                                            *)
Missed(s) ==
    LET failed == IF WindowIsOpen(s) THEN s.failed + 1 ELSE 1
        enough == failed >= MaxFailures
    IN [failed |-> failed,
        start  |-> IF WindowIsOpen(s) THEN s.start ELSE clock,
        until  |-> IF enough THEN clock + BlockLength(s) ELSE 0,
        last   |-> IF enough THEN clock ELSE s.last,
        dies   |-> 0]

(* SELECT ... FOR UPDATE waits for the lock; the password is verified with   *)
(* what it reads.                                                            *)
WrongPassword(r) ==
    /\ At(r, "checked")
    /\ lock = None
    /\ lock' = r
    /\ request' = [request EXCEPT ![r].at = "missed", ![r].next = Missed(request[r].seen)]
    /\ missedAt' = [missedAt EXCEPT ![r] = clock]
    /\ UNCHANGED <<session, clock>>

RightPassword(r) ==
    /\ At(r, "checked")
    /\ lock = None
    /\ lock' = r
    /\ Goto(r, "proven")
    /\ UNCHANGED <<session, clock, missedAt>>

(* Mutant: the record lives as long as the first block.                      *)
LifeOfBlock == ShortBlock

LifeOfRecord == Hour

(* SET ... EX 3600                                                           *)
SaveSession(r) ==
    /\ At(r, "missed")
    /\ session' = [request[r].next EXCEPT !.dies = clock + LifeOfRecord]
    /\ Goto(r, "held")
    /\ UNCHANGED <<clock, lock, missedAt>>

(* DEL: a login that succeeds forgets the failures.                          *)
DeleteSession(r) ==
    /\ At(r, "proven")
    /\ session' = NoSession
    /\ Goto(r, "held")
    /\ UNCHANGED <<clock, lock, missedAt>>

(* The transaction ends, committed or rolled back. A request may end at any  *)
(* earlier point too: no such user, a banned one with the right password, a  *)
(* database or Redis that fails, a process that dies.                        *)
End(r) ==
    /\ request[r].at \in {"checked", "missed", "proven", "held"}
    /\ Goto(r, "over")
    /\ lock' = IF lock = r THEN None ELSE lock
    /\ UNCHANGED <<session, clock, missedAt>>

Tick ==
    /\ clock <= MaxTime
    /\ clock' = clock + 1
    /\ session' = IF session.dies > clock + 1 THEN session ELSE NoSession
    /\ UNCHANGED <<lock, request, missedAt>>

Next ==
    \/ \E r \in Request :
          \/ GetSession(r) \/ WrongPassword(r) \/ RightPassword(r)
          \/ SaveSession(r) \/ DeleteSession(r) \/ End(r)
    \/ Tick

Spec == Init /\ [][Next]_vars

-----------------------------------------------------------------------------
(* What holds.                                                               *)

Misses(from) == {r \in Request : missedAt[r] > 0 /\ missedAt[r] >= from}

(* Nobody is blocked for less than MaxFailures wrong passwords, all verified *)
(* within an hour: records that were read before a login deleted them, or    *)
(* before another failure was written, never count a failure twice or one    *)
(* from before the window (services/tokens.py:92-108).                       *)
BlockIsDeserved ==
    Blocks(session) =>
        \E from \in 1 .. session.last :
            /\ session.last - from <= Hour
            /\ Cardinality({r \in Misses(from) : missedAt[r] <= session.last}) >= MaxFailures

(* The hour's block is for those who were blocked already: it takes one      *)
(* wrong password more than the first block, within the hour before that one *)
(* and the hour that the first is remembered (services/tokens.py:109-113).   *)
LongBlockIsDeserved ==
    Blocks(session) /\ session.until - session.last = Hour =>
        Cardinality({r \in Misses(1) : missedAt[r] + 2 * Hour >= session.last}) > MaxFailures

(* A block is remembered for an hour, through later failures and the renewed *)
(* life of the record, and the next one within that hour is the long one.    *)
(* Only a login that succeeds forgets it, or a failure that had read an      *)
(* older record before the block was saved; no expiry does                   *)
(* (services/tokens.py:109-113,122).                                         *)
BackOffStands ==
    [][session.last > 0 /\ clock' < session.last + Hour =>
          \/ /\ session'.last >= session.last
             /\ session'.last > session.last /\ session'.until > 0
                   => session'.until = session'.last + Hour
          \/ \E r \in Request :
                /\ request'[r].at = "held"
                /\ \/ At(r, "proven")
                   \/ At(r, "missed") /\ request[r].seen.last < session.last]_vars

(* A block is lifted or shortened before its end only by a login that was    *)
(* under way when the address was blocked: it had read a record that did not *)
(* block, waited for the row, and writes or deletes what it never saw. A     *)
(* login that begins during the block cannot, nor does the record expire     *)
(* early (services/tokens.py:37-40,63,122-123).                              *)
OnlyEarlierLoginsLift ==
    [][Blocks(session) /\ session.until > clock' /\ session'.until < session.until
          => \E r \in Request :
                /\ request[r].at \in {"missed", "proven"} /\ request'[r].at = "held"
                /\ lock = r /\ ~ Blocks(request[r].seen)]_vars

-----------------------------------------------------------------------------
(* What the documentation says and the code does not do.                     *)

(* "Timestamp until which verification is temporarily blocked" (schemas/     *)
(* tokens.py:18): until then no further failure lifts or shortens the block. *)
BlockStands ==
    [][Blocks(session) /\ clock' = clock /\ session' # NoSession
          => session'.until >= session.until]_vars

-----------------------------------------------------------------------------
(* What makes these inductive.                                               *)

(* The wrong passwords of the last span up to a time.                        *)
Recent(time, span) == {r \in Misses(1) : missedAt[r] <= time /\ missedAt[r] + span >= time}

(* Every record at hand counts wrong passwords of its own window, and its    *)
(* blocks rest on those of the hour before them.                             *)
Honest(s) ==
    /\ s.failed > 0 => s.start \in 1 .. clock
    /\ s.failed <= Cardinality(Misses(s.start))
    /\ s.last <= clock
    /\ s.last > 0 => Cardinality(Recent(s.last, Hour)) >= MaxFailures
    /\ s.until > 0 =>
          /\ s.last > 0 /\ s.until <= s.last + Hour
          /\ s.until = s.last + Hour => Cardinality(Recent(s.last, 2 * Hour)) > MaxFailures

RecordInv ==
    /\ Honest(session)
    /\ session.until <= session.dies
    /\ session.last > 0 => session.last + Hour <= session.dies

HandlerInv(r) ==
    /\ Honest(request[r].seen) /\ Honest(request[r].next)
    /\ missedAt[r] <= clock
    /\ request[r].at \in {"new", "checked"} => missedAt[r] = 0

(* A login that goes on had read a record that did not block.                *)
EarlierInv ==
    \A r \in Request :
        /\ request[r].at \in {"checked", "missed", "proven"} => ~ Blocks(request[r].seen)
        /\ request[r].at \in {"missed", "proven"} => lock = r

ThrottleInv == RecordInv /\ \A r \in Request : HandlerInv(r)

(* A record about to be saved knows of the block in the record it was made   *)
(* from, and its own is the long one if that one is within the hour.         *)
BackOffInv ==
    \A r \in Request : At(r, "missed") =>
        LET seen == request[r].seen
            next == request[r].next
        IN /\ next.last >= seen.last
           /\ next.until > 0 /\ seen.last > 0 /\ next.last <= seen.last + Hour
                 => next.until = next.last + Hour
=============================================================================
