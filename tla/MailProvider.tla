---------------------------- MODULE MailProvider ----------------------------
(* The Beget mail API as app/infrastructure/beget_mail_provider.py uses it:  *)
(* one mailbox per alias, its forwarding list, and the calls that change it. *)
(* The service itself is external: what a call does is read off from what    *)
(* the adapter expects of it, and every answer the adapter distinguishes     *)
(* (done, rejected, unavailable) is possible for every call.                 *)
CONSTANT Email

(* discards: mail is forwarded and not kept ("forward_and_delete").          *)
Mailbox == [exists: BOOLEAN, forwards: SUBSET Email, discards: BOOLEAN]

NoMailbox == [exists |-> FALSE, forwards |-> {}, discards |-> FALSE]

ForwardingTo(e) == [exists |-> TRUE, forwards |-> {e}, discards |-> TRUE]

(* The calls that change a mailbox, by their name in the API.                *)
Calls == {"createMailbox", "forwardListAddMailbox", "changeMailboxSettings",
          "forwardListDeleteMailbox", "dropMailbox"}

(* The adapter goes on after "already exists" and "not found", so creating,  *)
(* dropping and removing an address succeed whatever the mailbox is. The     *)
(* other two need a mailbox.                                                 *)
CanSucceed(m, call) ==
    m.exists \/ call \in {"createMailbox", "forwardListDeleteMailbox", "dropMailbox"}

(* What a call that the provider carries out leaves of mailbox m.            *)
Effect(m, call, e) ==
    CASE call = "createMailbox"            -> [m EXCEPT !.exists = TRUE]
      [] call = "forwardListAddMailbox"    -> [m EXCEPT !.forwards = @ \cup {e}]
      [] call = "forwardListDeleteMailbox" -> [m EXCEPT !.forwards = @ \ {e}]
      [] call = "changeMailboxSettings"    -> [m EXCEPT !.discards = TRUE]
      [] OTHER                             -> NoMailbox
=============================================================================
