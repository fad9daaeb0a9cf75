----------------------------- MODULE AliasStatus -----------------------------
(* What the service promises about the status of an alias, whatever becomes  *)
(* of requests, tasks and workers: an alias is provisioned by one job, which *)
(* decides between ACTIVE and FAILED at most once, and only a deletion       *)
(* changes the status after that. AliasLifecycle implements it.              *)
CONSTANTS
    Alias,
    Established  \* aliases already provisioned in the initial state

VARIABLES
    status,      \* committed status, "absent" before the row exists
    provisioning \* the one provisioning job of the alias

vars == <<status, provisioning>>

TypeOK ==
    /\ status \in [Alias -> {"absent", "pending", "active", "failed", "deleted"}]
    /\ provisioning \in [Alias -> {"none", "unsent", "live", "over"}]

Init ==
    /\ status = [a \in Alias |-> IF a \in Established THEN "active" ELSE "absent"]
    /\ provisioning = [a \in Alias |-> "none"]

Becomes(a, s, p) ==
    /\ status' = [status EXCEPT ![a] = s]
    /\ provisioning' = [provisioning EXCEPT ![a] = p]

(* The alias gets its row in an open transaction.                            *)
Accept(a) ==
    /\ status[a] = "absent"
    /\ provisioning[a] = "none"
    /\ Becomes(a, "absent", "unsent")

Send(a) ==
    /\ provisioning[a] = "unsent"
    /\ Becomes(a, status[a], "live")

(* The row is committed; by then the job may even be over.                   *)
Commit(a) ==
    /\ status[a] = "absent"
    /\ provisioning[a] \in {"live", "over"}
    /\ Becomes(a, "pending", provisioning[a])

(* Not sent, found nothing to do, lost, or out of retries.                   *)
GiveUp(a) ==
    /\ provisioning[a] \in {"unsent", "live"}
    /\ Becomes(a, status[a], "over")

Decide(a) ==
    /\ provisioning[a] = "live"
    /\ status[a] \in {"pending", "deleted"}
    /\ \E s \in {"active", "failed"} : Becomes(a, s, "over")

Delete(a) ==
    /\ status[a] # "absent"
    /\ Becomes(a, "deleted", provisioning[a])

Next == \E a \in Alias :
    Accept(a) \/ Send(a) \/ Commit(a) \/ GiveUp(a) \/ Decide(a) \/ Delete(a)

Spec == Init /\ [][Next]_vars

-----------------------------------------------------------------------------
(* What follows, for whatever implements this.                               *)

(* An alias is decided by the end of its job and is pending only after the   *)
(* job was sent.                                                             *)
StatusInv ==
    /\ TypeOK
    /\ \A a \in Alias :
          /\ status[a] \in {"active", "failed"} =>
                provisioning[a] = "over" \/ (a \in Established /\ provisioning[a] = "none")
          /\ status[a] = "pending" => provisioning[a] \in {"live", "over"}
          /\ a \in Established => status[a] # "absent"

(* A verdict is given once, and then only deleted; what was deleted comes    *)
(* back only as the verdict of a job that was still to give it, so once at   *)
(* most (services/aliases.py:136-171).                                       *)
DecidedOnce ==
    [][\A a \in Alias :
          /\ status[a] \in {"active", "failed"} => status'[a] \in {status[a], "deleted"}
          /\ provisioning[a] = "over" /\ status[a] = "deleted" => status'[a] = "deleted"
          /\ provisioning[a] = "over" => provisioning'[a] = "over"]_vars
=============================================================================
