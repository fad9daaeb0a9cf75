------------------------- MODULE LoginThrottleProofs -------------------------
(* Proofs about LoginThrottle, for any number of logins, any limit and any   *)
(* lengths of the blocks.                                                    *)
EXTENDS LoginThrottle, FiniteSetTheorems, TLAPS

LEMMA Limits ==
    /\ MaxFailures \in Nat /\ MaxFailures > 0 /\ MaxTime \in Nat
    /\ ShortBlock \in Nat /\ ShortBlock > 0 /\ Hour \in Nat /\ ShortBlock < Hour
    /\ NoSession \in Session
BY ThrottleAssumption DEF NoSession, Session, Time

LEMMA Counts ==
    ASSUME NEW A \in SUBSET Request, NEW B \in SUBSET A
    PROVE  /\ IsFiniteSet(A) /\ IsFiniteSet(B)
           /\ Cardinality(A) \in Nat /\ Cardinality(B) \in Nat
           /\ Cardinality(B) <= Cardinality(A)
BY ThrottleAssumption, FS_Subset, FS_CardinalityType

LEMMA CountOneMore ==
    ASSUME NEW A \in SUBSET Request, NEW r \in A, NEW B \in SUBSET (A \ {r})
    PROVE  Cardinality(B) + 1 <= Cardinality(A)
<1>1. r \notin B /\ B \cup {r} \in SUBSET A
  OBVIOUS
<1>2. IsFiniteSet(B) /\ Cardinality(B) \in Nat
  BY Counts
<1>3. Cardinality(B \cup {r}) = Cardinality(B) + 1
  BY <1>1, <1>2, FS_AddElement
<1> QED BY <1>1, <1>3, Counts

-----------------------------------------------------------------------------
(* Types.                                                                    *)

LEMMA BlockTypes ==
    ASSUME NEW s
    PROVE  BlockLength(s) \in Nat /\ BlockLength(s) <= Hour /\ BlockLength(s) > 0
BY Limits DEF BlockLength

LEMMA MissedType ==
    ASSUME TypeOK, NEW s \in Session
    PROVE  Missed(s) \in Session
<1>1. clock \in Time /\ 0 \in Time /\ clock + BlockLength(s) \in Time
  BY Limits, BlockTypes DEF TypeOK, Time
<1>2. s.failed + 1 \in Nat /\ 1 \in Nat /\ s.start \in Time /\ s.last \in Time
  BY DEF Session
<1> QED BY <1>1, <1>2 DEF Missed, Session

LEMMA TypeStep ==
    ASSUME TypeOK, [Next]_vars
    PROVE  TypeOK'
<1>0. /\ request \in [Request -> RequestState] /\ session \in Session
      /\ clock \in 1 .. MaxTime + 1 /\ clock \in Time
  BY Limits DEF TypeOK, Time
<1>1. ASSUME NEW r \in Request, NEW x \in {"over", "checked", "missed", "proven", "held"},
             NEW s \in Session, NEW n \in Session
      PROVE  /\ [request EXCEPT ![r].at = x, ![r].seen = s] \in [Request -> RequestState]
             /\ [request EXCEPT ![r].at = x, ![r].next = n] \in [Request -> RequestState]
  BY <1>0 DEF RequestState
<1>8. ASSUME NEW r \in Request, NEW x \in {"over", "checked", "missed", "proven", "held"}
      PROVE  [request EXCEPT ![r].at = x] \in [Request -> RequestState]
  BY <1>0 DEF RequestState
<1>2. ASSUME NEW r \in Request, GetSession(r)
      PROVE  TypeOK'
  BY <1>0, <1>1, <1>2 DEF GetSession, TypeOK
<1>3. ASSUME NEW r \in Request, WrongPassword(r)
      PROVE  TypeOK'
  <2>1. Missed(request[r].seen) \in Session
    BY <1>0, MissedType DEF RequestState
  <2>2. missedAt' \in [Request -> Time]
    BY <1>0, <1>3 DEF WrongPassword, TypeOK
  <2> QED BY <1>0, <1>1, <1>3, <2>1, <2>2 DEF WrongPassword, TypeOK
<1>4. ASSUME NEW r \in Request, RightPassword(r) \/ End(r) \/ DeleteSession(r)
      PROVE  TypeOK'
  <2>1. request' \in [Request -> RequestState]
    BY <1>8, <1>4 DEF RightPassword, End, DeleteSession, Goto
  <2>2. lock' \in Request \cup {None}
    BY <1>4 DEF RightPassword, End, DeleteSession, TypeOK
  <2>3. session' \in Session
    BY <1>0, <1>4, Limits DEF RightPassword, End, DeleteSession
  <2> QED BY <1>4, <2>1, <2>2, <2>3 DEF RightPassword, End, DeleteSession, TypeOK
<1>5. ASSUME NEW r \in Request, SaveSession(r)
      PROVE  TypeOK'
  <2>1. clock + LifeOfRecord \in Time
    BY <1>0, Limits DEF LifeOfRecord, Time
  <2>2. session' \in Session
    BY <1>0, <1>5, <2>1 DEF SaveSession, RequestState, Session
  <2>3. request' \in [Request -> RequestState]
    BY <1>8, <1>5 DEF SaveSession, Goto
  <2> QED BY <1>5, <2>2, <2>3 DEF SaveSession, TypeOK
<1>6. CASE Tick
  BY <1>0, <1>6, Limits DEF Tick, TypeOK
<1>7. CASE UNCHANGED vars
  BY <1>7 DEF vars, TypeOK
<1> QED BY <1>2, <1>3, <1>4, <1>5, <1>6, <1>7 DEF Next

-----------------------------------------------------------------------------
(* The wrong passwords that were verified stay so; time goes on.             *)
Grows ==
    /\ clock' \in Nat /\ clock' >= clock
    /\ \A r \in Request : missedAt[r] > 0 => missedAt'[r] = missedAt[r]

LEMMA HonestKept ==
    ASSUME TypeOK, Grows, NEW s \in Session, Honest(s)
    PROVE  Honest(s)'
<1>0. clock \in Nat /\ missedAt \in [Request -> Nat]
  BY Limits DEF TypeOK, Time
<1>1. Misses(s.start) \subseteq Misses(s.start)' /\ Misses(1) \subseteq Misses(1)'
  BY <1>0 DEF Misses, Grows
<1>2. Recent(s.last, Hour) \subseteq Recent(s.last, Hour)'
  BY <1>0, <1>1 DEF Recent, Grows, Misses
<1>3. Recent(s.last, 2 * Hour) \subseteq Recent(s.last, 2 * Hour)'
  BY <1>0, <1>1 DEF Recent, Grows, Misses
<1>4. /\ Misses(s.start)' \in SUBSET Request
      /\ Recent(s.last, Hour)' \in SUBSET Request
      /\ Recent(s.last, 2 * Hour)' \in SUBSET Request
  BY DEF Misses, Recent
<1>5. /\ Cardinality(Misses(s.start)) \in Nat /\ Cardinality(Misses(s.start)') \in Nat
      /\ Cardinality(Misses(s.start)) <= Cardinality(Misses(s.start)')
  BY <1>1, <1>4, Counts
<1>6. /\ Cardinality(Recent(s.last, Hour)) \in Nat
      /\ Cardinality(Recent(s.last, Hour)') \in Nat
      /\ Cardinality(Recent(s.last, Hour)) <= Cardinality(Recent(s.last, Hour)')
  BY <1>2, <1>4, Counts
<1>7. /\ Cardinality(Recent(s.last, 2 * Hour)) \in Nat
      /\ Cardinality(Recent(s.last, 2 * Hour)') \in Nat
      /\ Cardinality(Recent(s.last, 2 * Hour)) <= Cardinality(Recent(s.last, 2 * Hour)')
  BY <1>3, <1>4, Counts
<1>8. s.failed \in Nat /\ s.start \in Nat /\ s.last \in Nat /\ s.until \in Nat
  BY Limits DEF Session, Time
<1>9. s.failed > 0 => s.start \in 1 .. clock'
  BY <1>0, <1>8 DEF Honest, Grows
<1>10. s.failed <= Cardinality(Misses(s.start)')
  BY <1>5, <1>8 DEF Honest
<1>11. s.last <= clock'
  BY <1>0, <1>8 DEF Honest, Grows
<1>12. s.last > 0 => Cardinality(Recent(s.last, Hour)') >= MaxFailures
  BY <1>6, Limits DEF Honest
<1>13. s.until > 0 =>
          /\ s.last > 0 /\ s.until <= s.last + Hour
          /\ s.until = s.last + Hour => Cardinality(Recent(s.last, 2 * Hour)') > MaxFailures
  BY <1>7, Limits DEF Honest
<1> QED BY <1>9, <1>10, <1>11, <1>12, <1>13 DEF Honest

LEMMA NoSessionHonest ==
    ASSUME TypeOK
    PROVE  Honest(NoSession)
<1>1. Misses(0) \in SUBSET Request
  BY DEF Misses
<1>2. Cardinality(Misses(0)) \in Nat
  BY <1>1, Counts
<1> QED BY <1>2 DEF Honest, NoSession, TypeOK

(* The life of a record is not among the things it counts.                   *)
LEMMA LifeIsApart ==
    ASSUME NEW s \in Session, NEW d, Honest(s)
    PROVE  Honest([s EXCEPT !.dies = d])
BY DEF Session, Honest

(* A wrong password makes one more wrong password, now.                      *)
LEMMA MissedHonest ==
    ASSUME TypeOK, ThrottleInv, NEW r \in Request, NEW s \in Session, Honest(s),
           missedAt[r] = 0, missedAt' = [missedAt EXCEPT ![r] = clock], UNCHANGED clock,
           NEW m \in Session, m = Missed(s)
    PROVE  Honest(m)'
<1>0. /\ clock \in Nat /\ clock > 0 /\ missedAt \in [Request -> Nat]
      /\ \A q \in Request : missedAt[q] <= clock
      /\ s.failed \in Nat /\ s.start \in Nat /\ s.last \in Nat /\ s.until \in Nat
      /\ missedAt'[r] = clock /\ \A q \in Request : q # r => missedAt'[q] = missedAt[q]
  BY Limits DEF TypeOK, Time, Session, ThrottleInv, RecordInv, HandlerInv
<1>1. /\ m.failed = IF WindowIsOpen(s) THEN s.failed + 1 ELSE 1
      /\ m.start = IF WindowIsOpen(s) THEN s.start ELSE clock
      /\ m.until = IF m.failed >= MaxFailures THEN clock + BlockLength(s) ELSE 0
      /\ m.last = IF m.failed >= MaxFailures THEN clock ELSE s.last
  BY DEF Missed
<1>2. PICK t \in Nat : t = clock /\ t = clock'
  BY <1>0
<1>3. m.start \in 1 .. t /\ t <= m.start + Hour
  BY <1>0, <1>1, <1>2, Limits DEF Honest, WindowIsOpen
<1>4. m.failed <= Cardinality(Misses(m.start)')
  <2>0. Misses(m.start)' \in SUBSET Request /\ r \in Misses(m.start)'
    BY <1>0, <1>2, <1>3 DEF Misses
  <2>1. CASE WindowIsOpen(s)
    <3>1. Misses(s.start) \in SUBSET (Misses(m.start)' \ {r})
      BY <1>0, <1>1, <2>1 DEF Misses
    <3>2. Cardinality(Misses(s.start)) + 1 <= Cardinality(Misses(m.start)')
      BY <2>0, <3>1, CountOneMore
    <3>3. Cardinality(Misses(s.start)) \in Nat /\ Cardinality(Misses(m.start)') \in Nat
      BY <2>0, <3>1, Counts
    <3> QED BY <1>0, <1>1, <2>1, <3>2, <3>3 DEF Honest
  <2>2. CASE ~ WindowIsOpen(s)
    <3>1. {} \in SUBSET (Misses(m.start)' \ {r})
      OBVIOUS
    <3>2. Cardinality({}) + 1 <= Cardinality(Misses(m.start)')
      BY <2>0, <3>1, CountOneMore
    <3> QED BY <1>1, <2>2, <3>2, FS_EmptySet
  <2> QED BY <2>1, <2>2
<1>5. Misses(m.start)' \subseteq Recent(t, Hour)'
  <2>1. ASSUME NEW q \in Request, missedAt'[q] > 0, missedAt'[q] >= m.start
        PROVE  missedAt'[q] \in Nat /\ missedAt'[q] <= t /\ missedAt'[q] + Hour >= t
    <3>1. missedAt'[q] \in Nat /\ missedAt'[q] <= t
      BY <1>0, <1>2
    <3> QED BY <1>3, <2>1, <3>1, Limits
  <2> QED BY <2>1 DEF Misses, Recent
<1>6. Honest(s)'
  BY <1>0, HonestKept DEF Grows
<1>7. CASE m.failed < MaxFailures
  <2>1. m.last = s.last /\ m.until = 0
    BY <1>0, <1>1, <1>7, Limits DEF Session
  <2>2. s.last <= t /\ (s.last > 0 => Cardinality(Recent(s.last, Hour)') >= MaxFailures)
    BY <1>2, <1>6 DEF Honest
  <2>3. /\ m.failed > 0 => m.start \in 1 .. clock'
        /\ s.last <= t
    BY <1>2, <1>3, <2>2
  <2> QED BY <1>1, <1>2, <1>4, <2>1, <2>2, <2>3 DEF Honest
<1>8. CASE m.failed >= MaxFailures
  <2>1. m.last = t /\ m.until = t + BlockLength(s)
    BY <1>1, <1>2, <1>8
  <2>2. Cardinality(Recent(t, Hour)') >= MaxFailures
    <3>1. Recent(t, Hour)' \in SUBSET Request /\ Misses(m.start)' \in SUBSET Request
      BY DEF Recent, Misses
    <3>2. /\ Cardinality(Misses(m.start)') <= Cardinality(Recent(t, Hour)')
          /\ Cardinality(Misses(m.start)') \in Nat /\ Cardinality(Recent(t, Hour)') \in Nat
      BY <1>5, <3>1, Counts
    <3>3. m.failed \in Nat
      BY DEF Session
    <3> QED BY <1>4, <1>8, <3>2, <3>3, Limits
  <2>3. ASSUME BlockLength(s) = Hour
        PROVE  Cardinality(Recent(t, 2 * Hour)') > MaxFailures
    <3>1. s.last > 0 /\ t <= s.last + Hour /\ s.last <= t
      BY <1>0, <1>2, <2>3, Limits DEF BlockLength, Honest
    <3>2. Recent(s.last, Hour) \in SUBSET (Recent(t, 2 * Hour)' \ {r})
      BY <1>0, <1>2, <3>1, Limits DEF Recent, Misses
    <3>3. Recent(t, 2 * Hour)' \in SUBSET Request /\ r \in Recent(t, 2 * Hour)'
      BY <1>0, <1>2, Limits DEF Recent, Misses
    <3>4. Cardinality(Recent(s.last, Hour)) + 1 <= Cardinality(Recent(t, 2 * Hour)')
      BY <3>2, <3>3, CountOneMore
    <3>5. /\ Cardinality(Recent(s.last, Hour)) \in Nat
          /\ Cardinality(Recent(t, 2 * Hour)') \in Nat
      BY <3>2, <3>3, Counts
    <3>6. Cardinality(Recent(s.last, Hour)) >= MaxFailures
      BY <3>1 DEF Honest
    <3> QED BY <3>4, <3>5, <3>6, Limits
  <2>4. BlockLength(s) <= Hour /\ BlockLength(s) \in Nat
    BY BlockTypes
  <2>5. t + BlockLength(s) = t + Hour => BlockLength(s) = Hour
    BY <1>0, <2>4, Limits
  <2>6. t + BlockLength(s) <= t + Hour
    BY <1>0, <2>4, Limits
  <2>7. m.start \in 1 .. clock' /\ m.last <= clock' /\ m.last > 0
    BY <1>0, <1>2, <1>3, <2>1
  <2>8. m.until <= m.last + Hour
    BY <2>1, <2>6
  <2>9. m.until = m.last + Hour => Cardinality(Recent(m.last, 2 * Hour)') > MaxFailures
    BY <2>1, <2>3, <2>5
  <2>10. Cardinality(Recent(m.last, Hour)') >= MaxFailures
    BY <2>1, <2>2
  <2> QED BY <1>4, <2>7, <2>8, <2>9, <2>10 DEF Honest
<1> QED
  <2>1. m.failed \in Nat
    BY DEF Session
  <2> QED BY <1>7, <1>8, <2>1, Limits

-----------------------------------------------------------------------------
(* What a step does to the wrong passwords, and what it leaves honest.       *)
LEMMA StepGrows ==
    ASSUME TypeOK, ThrottleInv, [Next]_vars
    PROVE  Grows
<1>0. clock \in Nat /\ missedAt \in [Request -> Nat]
  BY Limits DEF TypeOK, Time
<1>1. ASSUME NEW r \in Request, WrongPassword(r)
      PROVE  Grows
  <2>1. missedAt[r] = 0
    BY <1>1 DEF WrongPassword, At, ThrottleInv, RecordInv, HandlerInv
  <2> QED BY <1>0, <1>1, <2>1 DEF WrongPassword, Grows
<1>2. CASE UNCHANGED missedAt /\ clock' \in {clock, clock + 1}
  BY <1>0, <1>2 DEF Grows
<1>3. ASSUME NEW r \in Request, GetSession(r) \/ RightPassword(r) \/ SaveSession(r)
             \/ DeleteSession(r) \/ End(r)
      PROVE  Grows
  BY <1>2, <1>3 DEF GetSession, RightPassword, SaveSession, DeleteSession, End
<1>4. CASE Tick \/ UNCHANGED vars
  BY <1>2, <1>4 DEF Tick, vars
<1> QED BY <1>1, <1>3, <1>4 DEF Next

LEMMA InvStep ==
    ASSUME TypeOK, ThrottleInv, [Next]_vars
    PROVE  ThrottleInv'
<1>0. /\ request \in [Request -> RequestState] /\ session \in Session
      /\ clock \in Nat /\ clock > 0 /\ missedAt \in [Request -> Nat]
      /\ \A r \in Request : request[r].seen \in Session /\ request[r].next \in Session
  BY Limits DEF TypeOK, Time, RequestState
<1>1. Grows
  BY StepGrows
<1>2. \A s \in Session : Honest(s) => Honest(s)'
  BY <1>1, HonestKept
<1>3. Honest(NoSession)'
  BY <1>2, NoSessionHonest, Limits
<1>4. UNCHANGED session => RecordInv'
  <2>1. PICK s \in Session : s = session
    BY <1>0
  <2>2. Honest(s)'
    BY <1>2, <2>1 DEF ThrottleInv, RecordInv
  <2> QED BY <2>1, <2>2 DEF ThrottleInv, RecordInv, Honest
<1>5. ASSUME NEW q \in Request, request'[q].seen = request[q].seen,
             request'[q].next = request[q].next, missedAt'[q] = missedAt[q],
             request'[q].at \in {"new", "checked"} => request[q].at \in {"new", "checked"}
      PROVE  HandlerInv(q)'
  <2>1. PICK s \in Session, n \in Session : s = request[q].seen /\ n = request[q].next
    BY <1>0
  <2>2. Honest(s)' /\ Honest(n)'
    BY <1>2, <2>1 DEF ThrottleInv, HandlerInv
  <2>3. Honest(request[q].seen)' /\ Honest(request[q].next)'
    BY <1>5, <2>1, <2>2 DEF Honest
  <2>4. missedAt'[q] <= clock' /\ missedAt[q] \in Nat
    BY <1>0, <1>1, <1>5 DEF ThrottleInv, HandlerInv, Grows
  <2> QED BY <1>5, <2>3, <2>4 DEF ThrottleInv, HandlerInv
<1>7. ASSUME NEW r \in Request, GetSession(r)
      PROVE  ThrottleInv'
  <2>1. RecordInv'
    BY <1>4, <1>7 DEF GetSession
  <2>2. \A q \in Request \ {r} : HandlerInv(q)'
    BY <1>0, <1>5, <1>7 DEF GetSession
  <2>3. /\ request'[r].seen = session /\ request'[r].next = request[r].next
        /\ request[r].at = "new" /\ UNCHANGED <<clock, missedAt>>
    BY <1>0, <1>7 DEF GetSession, RequestState, At
  <2>4. PICK s \in Session, n \in Session : s = session /\ n = request[r].next
    BY <1>0
  <2>5. Honest(s)' /\ Honest(n)'
    BY <1>2, <2>4 DEF ThrottleInv, RecordInv, HandlerInv
  <2>6. Honest(request[r].seen)' /\ Honest(request[r].next)'
    BY <2>3, <2>4, <2>5 DEF Honest
  <2>7. HandlerInv(r)'
    BY <2>3, <2>6 DEF ThrottleInv, HandlerInv
  <2> QED BY <2>1, <2>2, <2>7 DEF ThrottleInv
<1>8. ASSUME NEW r \in Request, WrongPassword(r)
      PROVE  ThrottleInv'
  <2>1. RecordInv'
    BY <1>4, <1>8 DEF WrongPassword
  <2>2. \A q \in Request \ {r} : HandlerInv(q)'
    BY <1>0, <1>5, <1>8 DEF WrongPassword
  <2>3. /\ request'[r].seen = request[r].seen /\ request'[r].next = Missed(request[r].seen)
        /\ request'[r].at = "missed" /\ missedAt[r] = 0 /\ missedAt'[r] = clock
        /\ UNCHANGED clock
    BY <1>0, <1>8 DEF WrongPassword, RequestState, At, ThrottleInv, HandlerInv
  <2>4. PICK s \in Session, m \in Session : s = request[r].seen /\ m = Missed(s)
    BY <1>0, MissedType
  <2>5. Honest(s) /\ Honest(s)'
    BY <1>2, <2>4 DEF ThrottleInv, HandlerInv
  <2>6. Honest(m)'
    BY <1>8, <2>3, <2>4, <2>5, MissedHonest DEF WrongPassword
  <2>7. Honest(request[r].seen)' /\ Honest(request[r].next)'
    BY <2>3, <2>4, <2>5, <2>6 DEF Honest
  <2>8. HandlerInv(r)'
    BY <1>0, <2>3, <2>7 DEF HandlerInv
  <2> QED BY <2>1, <2>2, <2>8 DEF ThrottleInv
<1>9. ASSUME NEW r \in Request, RightPassword(r) \/ End(r) \/ SaveSession(r) \/ DeleteSession(r)
      PROVE  ThrottleInv'
  <2>1. UNCHANGED missedAt /\ \E x \in {"proven", "held", "over"} : Goto(r, x)
    BY <1>9 DEF RightPassword, End, SaveSession, DeleteSession
  <2>2. \A q \in Request : /\ request'[q].seen = request[q].seen
                           /\ request'[q].next = request[q].next
                           /\ request'[q].at \in {"new", "checked"}
                                 => request[q].at \in {"new", "checked"}
    BY <1>0, <2>1 DEF Goto, RequestState
  <2>3. \A q \in Request : HandlerInv(q)'
    BY <1>5, <2>1, <2>2
  <2>4. CASE RightPassword(r) \/ End(r)
    BY <1>4, <2>3, <2>4 DEF RightPassword, End, ThrottleInv
  <2>5. CASE SaveSession(r)
    <3>1. PICK n \in Session : n = request[r].next
      BY <1>0
    <3>2. Honest(n) /\ Honest(n)'
      BY <1>2, <3>1 DEF ThrottleInv, HandlerInv
    <3>3. /\ session'.failed = n.failed /\ session'.start = n.start /\ session'.until = n.until
          /\ session'.last = n.last /\ session'.dies = clock + Hour
      BY <2>5, <3>1 DEF SaveSession, Session, LifeOfRecord
    <3>4. n.until <= clock + Hour /\ n.last + Hour <= clock + Hour
      BY <1>0, <3>2, Limits DEF Honest, Session, Time
    <3>5. RecordInv'
      BY <3>2, <3>3, <3>4 DEF RecordInv, Honest
    <3> QED BY <2>3, <3>5 DEF ThrottleInv
  <2>6. CASE DeleteSession(r)
    <3>1. RecordInv'
      BY <1>3, <2>6 DEF DeleteSession, RecordInv, NoSession, Honest
    <3> QED BY <2>3, <3>1 DEF ThrottleInv
  <2> QED BY <1>9, <2>4, <2>5, <2>6
<1>10. CASE Tick \/ UNCHANGED vars
  <2>1. RecordInv'
    <3>1. CASE session' = NoSession
      BY <1>3, <3>1 DEF RecordInv, NoSession, Honest
    <3> QED BY <1>4, <1>10, <3>1 DEF Tick, vars
  <2>2. \A q \in Request : HandlerInv(q)'
    BY <1>5, <1>10 DEF Tick, vars
  <2> QED BY <2>1, <2>2 DEF ThrottleInv
<1> QED BY <1>7, <1>8, <1>9, <1>10 DEF Next

LEMMA InitInv == Init => TypeOK /\ ThrottleInv
<1> SUFFICES ASSUME Init PROVE TypeOK /\ ThrottleInv
  OBVIOUS
<1>1. TypeOK
  BY Limits DEF Init, TypeOK, RequestState, Time
<1>2. Honest(NoSession)
  BY <1>1, NoSessionHonest
<1> QED BY <1>1, <1>2 DEF Init, ThrottleInv, RecordInv, HandlerInv, NoSession

(* The inductive invariant of the failed logins of an address.               *)
THEOREM ThrottleInvariant == Spec => [](TypeOK /\ ThrottleInv)
<1>1. TypeOK /\ ThrottleInv /\ [Next]_vars => TypeOK' /\ ThrottleInv'
  BY TypeStep, InvStep
<1> QED BY InitInv, <1>1, PTL DEF Spec

(* The record, the clock and the lock stay within their types.               *)
THEOREM TypeCorrect == Spec => []TypeOK
BY ThrottleInvariant, PTL

(* Nobody is blocked for less than MaxFailures wrong passwords within an     *)
(* hour (services/tokens.py:92-108).                                         *)
THEOREM BlockDeserved == Spec => []BlockIsDeserved
<1>1. ASSUME TypeOK, ThrottleInv, Blocks(session)
      PROVE  \E from \in 1 .. session.last :
                /\ session.last - from <= Hour
                /\ Cardinality({r \in Misses(from) : missedAt[r] <= session.last}) >= MaxFailures
  <2> DEFINE last == session.last
             from == IF last > Hour THEN last - Hour ELSE 1
             Counted == {r \in Misses(from) : missedAt[r] <= last}
  <2>0. /\ last \in Nat /\ session.until \in Nat /\ clock \in Nat
        /\ missedAt \in [Request -> Nat]
    BY <1>1, Limits DEF TypeOK, Session, Time
  <2>1. last > 0 /\ Cardinality(Recent(last, Hour)) >= MaxFailures
    BY <1>1, <2>0 DEF ThrottleInv, RecordInv, HandlerInv, Honest, Blocks
  <2>2. from \in 1 .. last /\ last - from <= Hour
    BY <2>0, <2>1, Limits
  <2>3. Recent(last, Hour) \in SUBSET Counted /\ Counted \in SUBSET Request
    BY <2>0, <2>1, Limits DEF Recent, Misses
  <2>4. Cardinality(Counted) >= MaxFailures
    BY <2>1, <2>3, Counts, Limits
  <2> QED BY <2>2, <2>4
<1>2. TypeOK /\ ThrottleInv => BlockIsDeserved
  BY <1>1 DEF BlockIsDeserved
<1> QED BY <1>2, ThrottleInvariant, PTL

(* The hour's block takes one wrong password more than the first             *)
(* (services/tokens.py:109-113).                                             *)
THEOREM LongBlockDeserved == Spec => []LongBlockIsDeserved
<1>1. ASSUME TypeOK, ThrottleInv, Blocks(session), session.until - session.last = Hour
      PROVE  Cardinality({r \in Misses(1) : missedAt[r] + 2 * Hour >= session.last}) > MaxFailures
  <2> DEFINE last == session.last
             Counted == {r \in Misses(1) : missedAt[r] + 2 * Hour >= last}
  <2>0. last \in Nat /\ session.until \in Nat /\ clock \in Nat
    BY <1>1, Limits DEF TypeOK, Session, Time
  <2>1. Cardinality(Recent(last, 2 * Hour)) > MaxFailures
    BY <1>1, <2>0, Limits DEF ThrottleInv, RecordInv, HandlerInv, Honest, Blocks
  <2>2. Recent(last, 2 * Hour) \in SUBSET Counted /\ Counted \in SUBSET Request
    BY DEF Recent, Misses
  <2> QED BY <2>1, <2>2, Counts, Limits
<1>2. TypeOK /\ ThrottleInv => LongBlockIsDeserved
  BY <1>1 DEF LongBlockIsDeserved
<1> QED BY <1>2, ThrottleInvariant, PTL

(* What a failure is about to save knows of the last block it has read of,   *)
(* and blocks for the hour if that was within the hour before.               *)
LEMMA MissedBacksOff ==
    ASSUME TypeOK, NEW s \in Session, s.last <= clock, NEW m \in Session, m = Missed(s)
    PROVE  /\ m.last >= s.last
           /\ m.until > 0 /\ s.last > 0 /\ m.last <= s.last + Hour => m.until = m.last + Hour
<1>0. clock \in Nat /\ s.last \in Nat
  BY Limits DEF TypeOK, Session, Time
<1>1. /\ m.until = IF m.failed >= MaxFailures THEN clock + BlockLength(s) ELSE 0
      /\ m.last = IF m.failed >= MaxFailures THEN clock ELSE s.last
  BY DEF Missed
<1>2. s.last > 0 /\ clock <= s.last + Hour => BlockLength(s) = Hour
  BY <1>0, Limits DEF BlockLength
<1> QED BY <1>0, <1>1, <1>2

LEMMA BackOffStep ==
    ASSUME TypeOK, ThrottleInv, BackOffInv, [Next]_vars
    PROVE  BackOffInv'
<1>0. /\ request \in [Request -> RequestState]
      /\ \A r \in Request : request[r].seen \in Session
  BY DEF TypeOK, RequestState
<1>1. ASSUME NEW r \in Request, WrongPassword(r)
      PROVE  BackOffInv'
  <2>1. PICK s \in Session : s = request[r].seen
    BY <1>0
  <2>2. PICK m \in Session : m = Missed(s)
    BY MissedType
  <2>3. s.last <= clock
    BY <2>1 DEF ThrottleInv, HandlerInv, Honest
  <2>4. /\ request'[r].seen = s /\ request'[r].next = m
        /\ \A q \in Request \ {r} : request'[q] = request[q]
    BY <1>0, <1>1, <2>1, <2>2 DEF WrongPassword, RequestState
  <2>5. /\ m.last >= s.last
        /\ m.until > 0 /\ s.last > 0 /\ m.last <= s.last + Hour => m.until = m.last + Hour
    BY <2>2, <2>3, MissedBacksOff
  <2> QED BY <2>4, <2>5 DEF BackOffInv, At
<1>2. ASSUME NEW r \in Request, GetSession(r) \/ RightPassword(r) \/ SaveSession(r)
             \/ DeleteSession(r) \/ End(r)
      PROVE  BackOffInv'
  <2>1. /\ request'[r].at # "missed"
        /\ \A q \in Request \ {r} : request'[q] = request[q]
    BY <1>0, <1>2
       DEF GetSession, RightPassword, SaveSession, DeleteSession, End, Goto, RequestState
  <2> QED BY <2>1 DEF BackOffInv, At
<1>3. CASE Tick \/ UNCHANGED vars
  BY <1>3 DEF Tick, vars, BackOffInv, At
<1> QED BY <1>1, <1>2, <1>3 DEF Next

(* A block is remembered for an hour and followed by the long one, unless a  *)
(* login succeeds or a failure saves what it had read before the block       *)
(* (services/tokens.py:109-113,122).                                         *)
THEOREM BackOffHolds == Spec => BackOffStands
<1> DEFINE Remembered == session.last > 0 /\ clock' < session.last + Hour
           Stands == /\ session'.last >= session.last
                     /\ session'.last > session.last /\ session'.until > 0
                           => session'.until = session'.last + Hour
           Forgets(r) == /\ request'[r].at = "held"
                         /\ \/ At(r, "proven")
                            \/ At(r, "missed") /\ request[r].seen.last < session.last
<1>1. Init => BackOffInv
  BY DEF Init, BackOffInv, At
<1>2. TypeOK /\ ThrottleInv /\ BackOffInv /\ [Next]_vars => BackOffInv'
  BY BackOffStep
<1>3. TypeOK /\ ThrottleInv /\ BackOffInv /\ [Next]_vars
        => [Remembered => Stands \/ \E r \in Request : Forgets(r)]_vars
  <2> SUFFICES ASSUME TypeOK, ThrottleInv, BackOffInv, Next, Remembered
               PROVE  Stands \/ \E r \in Request : Forgets(r)
    OBVIOUS
  <2>0. /\ request \in [Request -> RequestState] /\ session \in Session /\ clock \in Nat
        /\ session.last \in Nat /\ session.dies \in Nat
        /\ session.last + Hour <= session.dies
        /\ \A r \in Request : request[r].seen.last \in Nat /\ request[r].next \in Session
    BY Limits DEF TypeOK, Session, Time, ThrottleInv, RecordInv, RequestState
  <2>1. CASE UNCHANGED session
    BY <2>0, <2>1
  <2>2. CASE Tick
    <3>1. session.dies > clock + 1
      BY <2>0, <2>2, Limits DEF Tick
    <3> QED BY <2>1, <2>2, <3>1 DEF Tick
  <2>3. ASSUME NEW r \in Request, DeleteSession(r)
        PROVE  Forgets(r)
    BY <2>0, <2>3 DEF DeleteSession, Goto, At, RequestState
  <2>4. ASSUME NEW r \in Request, SaveSession(r)
        PROVE  Stands \/ Forgets(r)
    <3>1. PICK n \in Session : n = request[r].next
      BY <2>0
    <3>2. /\ session'.last = n.last /\ session'.until = n.until
          /\ n.last \in Nat /\ n.until \in Nat
          /\ At(r, "missed") /\ request'[r].at = "held" /\ clock' = clock
      BY <2>0, <2>4, <3>1, Limits DEF SaveSession, Goto, At, Session, Time, RequestState
    <3>3. n.last <= clock
      BY <3>1 DEF ThrottleInv, HandlerInv, Honest
    <3>4. CASE request[r].seen.last < session.last
      BY <3>2, <3>4
    <3>5. CASE request[r].seen.last >= session.last
      <4>1. /\ n.last >= request[r].seen.last
            /\ n.until > 0 /\ request[r].seen.last > 0 /\ n.last <= request[r].seen.last + Hour
                  => n.until = n.last + Hour
        BY <3>1, <3>2 DEF BackOffInv
      <4>2. request[r].seen.last > 0 /\ n.last <= request[r].seen.last + Hour
        BY <2>0, <3>2, <3>3, <3>5, Limits
      <4> QED BY <2>0, <3>2, <3>5, <4>1, <4>2
    <3> QED BY <2>0, <3>4, <3>5
  <2> QED BY <2>1, <2>2, <2>3, <2>4 DEF Next, GetSession, WrongPassword, RightPassword, End
<1> QED BY <1>1, <1>2, <1>3, ThrottleInvariant, PTL DEF Spec, BackOffStands

(* What a login has read does not block, now as little as when it was read,  *)
(* and only who holds the row goes on to write the record.                   *)
THEOREM EarlierInvariant == Spec => []EarlierInv
<1>1. Init => EarlierInv
  BY DEF Init, EarlierInv
<1>2. TypeOK /\ ThrottleInv /\ EarlierInv /\ [Next]_vars => EarlierInv'
  <2> SUFFICES ASSUME TypeOK, ThrottleInv, EarlierInv, [Next]_vars PROVE EarlierInv'
    OBVIOUS
  <2>0. /\ request \in [Request -> RequestState]
        /\ \A q \in Request : request[q].seen \in Session
        /\ clock \in Nat /\ clock' \in Nat /\ clock' >= clock
    BY StepGrows, Limits DEF TypeOK, Time, RequestState, Grows
  <2>1. \A s \in Session : ~ Blocks(s) => ~ Blocks(s)'
    BY <2>0, Limits DEF Blocks, Session, Time
  <2>2. \A q \in Request : ~ Blocks(request[q].seen) /\ request'[q].seen = request[q].seen
                              => ~ Blocks(request[q].seen)'
    <3> SUFFICES ASSUME NEW q \in Request,
                        ~ Blocks(request[q].seen), request'[q].seen = request[q].seen
                 PROVE  ~ Blocks(request[q].seen)'
      OBVIOUS
    <3>1. PICK s \in Session : s = request[q].seen
      BY <2>0
    <3> QED BY <2>1, <3>1 DEF Blocks
  <2>3. CASE UNCHANGED request /\ UNCHANGED lock
    BY <2>2, <2>3 DEF EarlierInv
  <2>4. ASSUME NEW r \in Request, GetSession(r)
        PROVE  EarlierInv'
    <3>1. /\ request'[r].at = IF Blocks(session) THEN "over" ELSE "checked"
          /\ request'[r].seen = session
          /\ \A q \in Request \ {r} : request'[q] = request[q]
          /\ UNCHANGED <<clock, lock>>
      BY <2>0, <2>4 DEF GetSession, RequestState
    <3>2. request'[r].at = "checked" => ~ Blocks(request[r].seen)'
      BY <3>1 DEF Blocks
    <3> QED BY <2>2, <3>1, <3>2 DEF EarlierInv
  <2>5. ASSUME NEW r \in Request, WrongPassword(r) \/ RightPassword(r)
        PROVE  EarlierInv'
    <3>1. /\ request[r].at = "checked" /\ request'[r].seen = request[r].seen
          /\ \A q \in Request \ {r} : request'[q] = request[q]
          /\ lock = None /\ lock' = r
      BY <2>0, <2>5 DEF WrongPassword, RightPassword, Goto, RequestState, At
    <3>2. \A q \in Request : request[q].at \notin {"missed", "proven"}
      BY <3>1, ThrottleAssumption DEF EarlierInv
    <3> QED BY <2>2, <3>1, <3>2 DEF EarlierInv
  <2>6. ASSUME NEW r \in Request, SaveSession(r) \/ DeleteSession(r) \/ End(r)
        PROVE  EarlierInv'
    <3>1. /\ request'[r].at \in {"held", "over"}
          /\ \A q \in Request \ {r} : request'[q] = request[q]
          /\ lock' = IF lock = r /\ request'[r].at = "over" THEN None ELSE lock
      BY <2>0, <2>6 DEF SaveSession, DeleteSession, End, Goto, RequestState
    <3> QED BY <2>2, <3>1 DEF EarlierInv
  <2> QED BY <2>3, <2>4, <2>5, <2>6 DEF Next, Tick, vars
<1> QED BY <1>1, <1>2, ThrottleInvariant, PTL DEF Spec

(* A block that is overwritten is overwritten by a login that had read the   *)
(* record before: whoever begins during a block is refused, and the record   *)
(* of a block does not expire before the block (services/tokens.py:37-40).   *)
THEOREM BlockLiftedByEarlierOnly == Spec => OnlyEarlierLoginsLift
<1> DEFINE Lifted == Blocks(session) /\ session.until > clock' /\ session'.until < session.until
           Lifter(r) == /\ request[r].at \in {"missed", "proven"} /\ request'[r].at = "held"
                        /\ lock = r /\ ~ Blocks(request[r].seen)
<1>1. TypeOK /\ ThrottleInv /\ EarlierInv /\ [Next]_vars
        => [Lifted => \E r \in Request : Lifter(r)]_vars
  <2> SUFFICES ASSUME TypeOK, ThrottleInv, EarlierInv, Next, Lifted
               PROVE  \E r \in Request : Lifter(r)
    OBVIOUS
  <2>0. /\ request \in [Request -> RequestState] /\ session \in Session /\ clock \in Nat
        /\ session.until \in Nat /\ session.dies \in Nat /\ session.until <= session.dies
    BY Limits DEF TypeOK, Session, Time, ThrottleInv, RecordInv
  <2>1. ~ UNCHANGED session
    BY <2>0
  <2>2. ~ Tick
    BY <2>0 DEF Tick
  <2>3. PICK r \in Request : SaveSession(r) \/ DeleteSession(r)
    BY <2>1, <2>2 DEF Next, GetSession, WrongPassword, RightPassword, End
  <2>4. request[r].at \in {"missed", "proven"} /\ request'[r].at = "held"
    BY <2>0, <2>3 DEF SaveSession, DeleteSession, Goto, At, RequestState
  <2>5. Lifter(r)
    BY <2>4 DEF EarlierInv
  <2> QED BY <2>5
<1> QED BY <1>1, ThrottleInvariant, EarlierInvariant, PTL DEF Spec, OnlyEarlierLoginsLift
=============================================================================
