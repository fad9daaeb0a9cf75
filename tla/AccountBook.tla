----------------------------- MODULE AccountBook -----------------------------
(* What the operations on accounts promise together: every one takes effect  *)
(* at once, on the account as it is then, and every one but a registration   *)
(* ends the user's sessions. Accounts, where requests overlap, wait for each *)
(* other, fail and die, implements it.                                       *)
CONSTANTS
    User,
    Initial, \* users that may be there in the initial state
    Admin,   \* administrators: they are there
    Token,   \* access tokens that may ever be issued
    Stamp,   \* what names a password or an address
    NewStamp \* that of a user of the initial state

VARIABLES
    account,  \* each user's account
    sessions, \* the tokens each user may use
    issued    \* the tokens that were ever issued

vars == <<account, sessions, issued>>

Role == {"user", "admin"}

Account == [state: {"absent", "live", "deleted"}, banned: BOOLEAN,
            role: Role, password: Stamp, email: Stamp]

NoAccount == [state |-> "absent", banned |-> FALSE, role |-> "user",
              password |-> NewStamp, email |-> NewStamp]

Init ==
    /\ \E there \in SUBSET Initial :
          /\ Admin \subseteq there
          /\ account = [u \in User |->
                IF u \in there
                THEN [NoAccount EXCEPT !.state = "live",
                                       !.role = IF u \in Admin THEN "admin" ELSE "user"]
                ELSE NoAccount]
    /\ sessions = [u \in User |-> {}]
    /\ issued = {}

Live(u)     == account[u].state = "live"
InUse(u)    == Live(u) /\ ~ account[u].banned

(* The user has the account a and no session.                                *)
Becomes(u, a) ==
    /\ account' = [account EXCEPT ![u] = a]
    /\ sessions' = [sessions EXCEPT ![u] = {}]
    /\ UNCHANGED issued

(* A token that was issued once is never issued again.                       *)
SignIn(u, k) ==
    /\ InUse(u)
    /\ k \notin issued
    /\ sessions' = [sessions EXCEPT ![u] = {k}]
    /\ issued' = issued \cup {k}
    /\ UNCHANGED account

Leave(u) == InUse(u) /\ Becomes(u, [account[u] EXCEPT !.state = "deleted"])

(* By the user, or by whoever has the user's mailbox.                        *)
Edit(u, p, e) == InUse(u) /\ Becomes(u, [account[u] EXCEPT !.password = p, !.email = e])

Moderate(u, b, x) == Live(u) /\ Becomes(u, [account[u] EXCEPT !.banned = b, !.role = x])

(* There are no sessions then; a ban outlives the deletion of the account.   *)
Register(u, p) ==
    /\ sessions[u] = {}
    /\ ~ Live(u) /\ ~ account[u].banned
    /\ account' = [account EXCEPT ![u] = [@ EXCEPT !.state = "live", !.password = p]]
    /\ UNCHANGED <<sessions, issued>>

SignOut(u) == Becomes(u, account[u])

Next ==
    \E u \in User :
        \/ \E k \in Token : SignIn(u, k)
        \/ \E p, e \in Stamp : Edit(u, p, e)
        \/ \E b \in BOOLEAN, x \in Role : Moderate(u, b, x)
        \/ \E p \in Stamp : Register(u, p)
        \/ Leave(u) \/ SignOut(u)

Spec == Init /\ [][Next]_vars
=============================================================================
