-------------------------- MODULE AliasStatusProofs --------------------------
(* Proofs about AliasStatus, for any aliases.                                *)
EXTENDS AliasStatus, TLAPS

(* What a step does to one alias.                                            *)
LEMMA StatusStep ==
    ASSUME StatusInv, Next, NEW a \in Alias
    PROVE  /\ status'[a] \in {"absent", "pending", "active", "failed", "deleted"}
           /\ provisioning'[a] \in {"none", "unsent", "live", "over"}
           /\ \/ status'[a] = status[a] /\ provisioning'[a] = provisioning[a]
              \/ /\ status[a] = "absent" /\ provisioning[a] = "none"
                 /\ status'[a] = "absent" /\ provisioning'[a] = "unsent"
              \/ /\ provisioning[a] = "unsent"
                 /\ status'[a] = status[a] /\ provisioning'[a] = "live"
              \/ /\ status[a] = "absent" /\ provisioning[a] \in {"live", "over"}
                 /\ status'[a] = "pending" /\ provisioning'[a] = provisioning[a]
              \/ /\ provisioning[a] \in {"unsent", "live"}
                 /\ status'[a] = status[a] /\ provisioning'[a] = "over"
              \/ /\ provisioning[a] = "live" /\ status[a] \in {"pending", "deleted"}
                 /\ status'[a] \in {"active", "failed"} /\ provisioning'[a] = "over"
              \/ /\ status[a] # "absent"
                 /\ status'[a] = "deleted" /\ provisioning'[a] = provisioning[a]
<1>0. TypeOK
  BY DEF StatusInv
<1>1. PICK b \in Alias :
         Accept(b) \/ Send(b) \/ Commit(b) \/ GiveUp(b) \/ Decide(b) \/ Delete(b)
  BY DEF Next
<1>2. ASSUME b # a
      PROVE  status'[a] = status[a] /\ provisioning'[a] = provisioning[a]
  BY <1>0, <1>1, <1>2 DEF TypeOK, Accept, Send, Commit, GiveUp, Decide, Delete, Becomes
<1>3. CASE b = a /\ (Accept(b) \/ Send(b) \/ Commit(b))
  BY <1>0, <1>3 DEF TypeOK, Accept, Send, Commit, Becomes
<1>4. CASE b = a /\ (GiveUp(b) \/ Decide(b) \/ Delete(b))
  BY <1>0, <1>4 DEF TypeOK, GiveUp, Decide, Delete, Becomes
<1> QED BY <1>0, <1>1, <1>2, <1>3, <1>4 DEF TypeOK

LEMMA TypeStep ==
    ASSUME StatusInv, Next
    PROVE  TypeOK'
<1>1. /\ status \in [Alias -> {"absent", "pending", "active", "failed", "deleted"}]
      /\ provisioning \in [Alias -> {"none", "unsent", "live", "over"}]
  BY DEF StatusInv, TypeOK
<1> QED BY <1>1 DEF TypeOK, Next, Accept, Send, Commit, GiveUp, Decide, Delete, Becomes

(* An alias is decided by the end of its job.                                *)
THEOREM StatusInvariant == Spec => []StatusInv
<1>1. Init => StatusInv
  BY DEF Init, StatusInv, TypeOK
<1>2. StatusInv /\ [Next]_vars => StatusInv'
  <2>1. ASSUME StatusInv, UNCHANGED vars PROVE StatusInv'
    BY <2>1 DEF StatusInv, TypeOK, vars
  <2>2. ASSUME StatusInv, Next PROVE StatusInv'
    <3>1. ASSUME NEW a \in Alias
          PROVE  /\ status'[a] \in {"active", "failed"} =>
                       \/ provisioning'[a] = "over"
                       \/ a \in Established /\ provisioning'[a] = "none"
                 /\ status'[a] = "pending" => provisioning'[a] \in {"live", "over"}
                 /\ a \in Established => status'[a] # "absent"
      BY <2>2, StatusStep DEF StatusInv
    <3> QED BY <2>2, <3>1, TypeStep DEF StatusInv
  <2> QED BY <2>1, <2>2
<1> QED BY <1>1, <1>2, PTL DEF Spec

(* The verdict on an alias is given at most once, and no deletion is undone  *)
(* after it (services/aliases.py:136-171).                                   *)
THEOREM VerdictGivenOnce == Spec => DecidedOnce
<1> DEFINE Settled(a) ==
             /\ status[a] \in {"active", "failed"} => status'[a] \in {status[a], "deleted"}
             /\ provisioning[a] = "over" /\ status[a] = "deleted" => status'[a] = "deleted"
             /\ provisioning[a] = "over" => provisioning'[a] = "over"
<1>1. StatusInv /\ [Next]_vars => [\A a \in Alias : Settled(a)]_vars
  <2>1. ASSUME StatusInv, Next, NEW a \in Alias PROVE Settled(a)
    BY <2>1, StatusStep DEF StatusInv
  <2> QED BY <2>1
<1> QED BY <1>1, StatusInvariant, PTL DEF Spec, DecidedOnce
=============================================================================
