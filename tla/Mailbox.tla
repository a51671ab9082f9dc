------------------------------- MODULE Mailbox -------------------------------
(***************************************************************************)
(* What a client may count on of the events that are published to it: each  *)
(* waits until it has been sent to the client, at least once, or has been   *)
(* given up; only what is not for the client leaves without either.  What   *)
(* is published before the client has a mailbox does not wait, and nothing  *)
(* waits twice.                                                             *)
(***************************************************************************)
EXTENDS Naturals

CONSTANT Mail      \* the events

VARIABLES
  published,  \* the events there have been
  foreign,    \* those that are not for the client
  waiting,    \* those the mailbox holds
  sent,       \* those the client was sent
  unsent      \* those that were given up

vars == <<published, foreign, waiting, sent, unsent>>

Init ==
  /\ published = {} /\ foreign = {} /\ waiting = {}
  /\ sent = {} /\ unsent = {}

\* An event comes, and the mailbox, if there is one, may be full.
Publish(e) ==
  /\ e \in Mail \ published
  /\ published' = published \cup {e}
  /\ foreign' \in {foreign, foreign \cup {e}}
  /\ \E dropped \in SUBSET waiting :
       /\ waiting' \in {waiting \ dropped, (waiting \ dropped) \cup {e}}
       /\ unsent' = unsent \cup (dropped \ sent)
  /\ sent' = sent

\* Sending and giving up do not end the waiting: a crash comes between.
Send(e) ==
  /\ e \in published
  /\ sent' = sent \cup {e}
  /\ UNCHANGED <<published, foreign, waiting, unsent>>

GiveUp(e) ==
  /\ e \in published
  /\ unsent' = unsent \cup {e}
  /\ UNCHANGED <<published, foreign, waiting, sent>>

Settle(e) ==
  /\ e \in waiting
  /\ e \in sent \cup unsent \cup foreign
  /\ waiting' = waiting \ {e}
  /\ UNCHANGED <<published, foreign, sent, unsent>>

Expire(e) ==
  /\ e \in waiting
  /\ waiting' = waiting \ {e}
  /\ unsent' = IF e \in sent THEN unsent ELSE unsent \cup {e}
  /\ UNCHANGED <<published, foreign, sent>>

Next == \E e \in Mail : Publish(e) \/ Send(e) \/ GiveUp(e) \/ Settle(e) \/ Expire(e)
Spec == Init /\ [][Next]_vars
==============================================================================
