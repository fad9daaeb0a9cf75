---------------------------- MODULE ContactProof ----------------------------
(* What the verification of a contact promises, however its requests         *)
(* interleave, keys expire and processes die: an operation is let through    *)
(* for what a code was requested for, mailed and confirmed, in that order,   *)
(* and no window has more than MaxRequests codes. It does not promise that a *)
(* code or a token serves once. Verification implements it.                  *)
EXTENDS Naturals

CONSTANTS
    Request,
    Action,
    None,
    MaxRequests

VARIABLES
    asked,   \* what each code is requested for
    granted, \* codes that were let through in this window
    mailed,  \* codes the contact has got
    proved,  \* the code by which each confirmation was granted
    done     \* what each operation was let through for

vars == <<asked, granted, mailed, proved, done>>

Nothing == [r \in Request |-> None]

Init ==
    /\ asked = Nothing
    /\ granted = 0
    /\ mailed = {}
    /\ proved = Nothing
    /\ done = Nothing

Ask(r, a) ==
    /\ asked[r] = None
    /\ asked' = [asked EXCEPT ![r] = a]
    /\ UNCHANGED <<granted, mailed, proved, done>>

Grant ==
    /\ granted < MaxRequests
    /\ granted' = granted + 1
    /\ UNCHANGED <<asked, mailed, proved, done>>

NewWindow ==
    /\ granted' = 0
    /\ UNCHANGED <<asked, mailed, proved, done>>

Mail(c) ==
    /\ asked[c] # None
    /\ mailed' = mailed \cup {c}
    /\ UNCHANGED <<asked, granted, proved, done>>

Confirm(k, c) ==
    /\ c \in mailed
    /\ proved[k] = None
    /\ proved' = [proved EXCEPT ![k] = c]
    /\ UNCHANGED <<asked, granted, mailed, done>>

Operate(r, k) ==
    /\ proved[k] \in mailed
    /\ done[r] = None
    /\ done' = [done EXCEPT ![r] = asked[proved[k]]]
    /\ UNCHANGED <<asked, granted, mailed, proved>>

Next ==
    \/ Grant \/ NewWindow
    \/ \E r \in Request :
          \/ \E a \in Action : Ask(r, a)
          \/ Mail(r)
          \/ \E c \in Request : Confirm(r, c)
          \/ \E k \in Request : Operate(r, k)

Spec == Init /\ [][Next]_vars
=============================================================================
