------------------------------- MODULE MailSpec -------------------------------
(***************************************************************************)
(* What the post office promises (network/post.h): mail is lost when it is *)
(* sent or not at all; what is not lost comes out of the mailbox it was    *)
(* addressed to, once, and mail for one machine in the order it was sent.  *)
(***************************************************************************)
EXTENDS Sequences

CONSTANTS
  Machine,  \* machines with a post office
  Box,      \* mailboxes of a machine
  Mail      \* mail messages: records with the fields machine and box

VARIABLES
  way,    \* mail on its way to a machine
  boxes   \* mail in a mailbox

vars == <<way, boxes>>

Init ==
  /\ way = [m \in Machine |-> <<>>]
  /\ boxes = [m \in Machine |-> [b \in Box |-> <<>>]]

Send(x) ==
  /\ way' = [way EXCEPT ![x.machine] = Append(@, x)]
  /\ UNCHANGED boxes

Deliver(m) ==
  /\ way[m] # <<>>
  /\ way' = [way EXCEPT ![m] = Tail(@)]
  /\ LET x == Head(way[m])
     IN  boxes' = [boxes EXCEPT ![m][x.box] = Append(@, x)]

Receive(m, b) ==
  /\ boxes[m][b] # <<>>
  /\ boxes' = [boxes EXCEPT ![m][b] = Tail(@)]
  /\ UNCHANGED way

Next ==
  \/ \E x \in Mail : Send(x)
  \/ \E m \in Machine : Deliver(m) \/ \E b \in Box : Receive(m, b)

Spec == Init /\ [][Next]_vars
=============================================================================
