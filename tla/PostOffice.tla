------------------------------ MODULE PostOffice ------------------------------
(***************************************************************************)
(* The post office of Lab 2 (network/post.cc) on its network device        *)
(* (machine/network.cc): a thread that sends waits for the interrupt that  *)
(* ends its transmission, a packet that arrives is polled into a buffer of *)
(* one packet, and the postal worker takes it to its mailbox.              *)
(*                                                                         *)
(* Interrupts come when a thread enables them: between the calls of post.cc*)
(* on locks, semaphores and lists, which are single steps here, and never  *)
(* inside a call on the device.  sendLock is used as LockSpec says and a   *)
(* mailbox, a SynchList, as QueueSpec says; the modules Threads and        *)
(* SynchList show that they may be.  The wire is a datagram socket of the  *)
(* host: it loses nothing and keeps the order.                             *)
(***************************************************************************)
EXTENDS Naturals, FiniteSets, SequencesExt

CONSTANTS
  Machine,   \* machines
  Box,       \* mailboxes of each machine
  Sender,    \* threads that send mail
  Home,      \* the machine of a thread
  NoSender,  \* nobody
  MaxMail    \* bound on the mail a thread sends

ASSUME PostOfficeAssumption ==
  /\ Home \in [Sender -> Machine]
  /\ NoSender \notin Sender
  /\ MaxMail \in Nat

(* A mail message: whose, the how manyeth of that thread, and whereto. *)
Mail == [from : Sender, no : 1 .. MaxMail, machine : Machine, box : Box]

VARIABLES
  pc,                \* where a sender is in PostOfficeOutput::Send
  mail,              \* the mail a sender sends, or has sent last; a sequence of one
  sent,              \* how many a sender has sent
  sendLock,          \* who holds a machine's sendLock
  sendInt,           \* pending interrupts of a machine's NetworkOutput
  messageSent,       \* value of that semaphore
  wire,              \* packets in the socket of a machine
  inbox,             \* NetworkInput: the packet buffered, if inHdr.length # 0
  messageAvailable,  \* value of that semaphore
  worker,            \* where a machine's postal worker is
  carried,           \* the packet the worker has received
  boxes              \* mail in each mailbox

output == <<pc, mail, sent, sendLock, sendInt, messageSent>>
input == <<inbox, messageAvailable, worker, carried, boxes>>
vars == <<output, wire, input>>

TypeOK ==
  /\ pc \in [Sender -> {"idle", "queued", "locked", "sending", "sent"}]
  /\ \A s \in Sender : mail[s] \in Seq(Mail) /\ Len(mail[s]) <= 1
  /\ sent \in [Sender -> 0 .. MaxMail]
  /\ sendLock \in [Machine -> Sender \cup {NoSender}]
  /\ sendInt \in [Machine -> 0 .. 1]
  /\ messageSent \in [Machine -> 0 .. 1]
  /\ wire \in [Machine -> Seq(Mail)]
  /\ \A m \in Machine : inbox[m] \in Seq(Mail) /\ Len(inbox[m]) <= 1
  /\ messageAvailable \in [Machine -> 0 .. 1]
  /\ worker \in [Machine -> {"waits", "called", "carries"}]
  /\ \A m \in Machine : carried[m] \in Seq(Mail) /\ Len(carried[m]) <= 1
  /\ boxes \in [Machine -> [Box -> Seq(Mail)]]

Init ==
  /\ pc = [s \in Sender |-> "idle"]
  /\ mail = [s \in Sender |-> <<>>]
  /\ sent = [s \in Sender |-> 0]
  /\ sendLock = [m \in Machine |-> NoSender]
  /\ sendInt = [m \in Machine |-> 0]
  /\ messageSent = [m \in Machine |-> 0]
  /\ wire = [m \in Machine |-> <<>>]
  /\ inbox = [m \in Machine |-> <<>>]
  /\ messageAvailable = [m \in Machine |-> 0]
  /\ worker = [m \in Machine |-> "waits"]
  /\ carried = [m \in Machine |-> <<>>]
  /\ boxes = [m \in Machine |-> [b \in Box |-> <<>>]]

Goto(s, from, to) == pc[s] = from /\ pc' = [pc EXCEPT ![s] = to]
-----------------------------------------------------------------------------
(* PostOfficeOutput::Send prepares the packet and waits for sendLock, ... *)
Send(s, m, b) ==
  /\ sent[s] < MaxMail
  /\ Goto(s, "idle", "queued")
  /\ sent' = [sent EXCEPT ![s] = @ + 1]
  /\ mail' = [mail EXCEPT ![s] = <<[from |-> s, no |-> sent[s] + 1, machine |-> m, box |-> b]>>]
  /\ UNCHANGED <<sendLock, sendInt, messageSent, wire, input>>

(* ... takes it, ... *)
Acquire(s) ==
  /\ Goto(s, "queued", "locked")
  /\ sendLock[Home[s]] = NoSender
  /\ sendLock' = [sendLock EXCEPT ![Home[s]] = s]
  /\ UNCHANGED <<mail, sent, sendInt, messageSent, wire, input>>

(* Slip: no interrupt is scheduled for a packet that gets lost. *)
NetworkSendSilentLoss(s) ==
  /\ Goto(s, "locked", "sending")
  /\ \/ /\ LET x == Head(mail[s]) IN wire' = [wire EXCEPT ![x.machine] = Append(@, x)]
        /\ sendInt' = [sendInt EXCEPT ![Home[s]] = @ + 1]
     \/ UNCHANGED <<wire, sendInt>>
  /\ UNCHANGED <<mail, sent, sendLock, messageSent, input>>

(* ... gives the packet to the device, which schedules its interrupt and   *)
(* puts the packet on the wire or loses it, ...                            *)
NetworkSend(s) ==
  /\ Goto(s, "locked", "sending")
  /\ sendInt' = [sendInt EXCEPT ![Home[s]] = @ + 1]
  /\ \/ LET x == Head(mail[s]) IN wire' = [wire EXCEPT ![x.machine] = Append(@, x)]
     \/ UNCHANGED wire
  /\ UNCHANGED <<mail, sent, sendLock, messageSent, input>>

(* ... waits in messageSent->P, ... *)
AwaitSent(s) ==
  /\ Goto(s, "sending", "sent")
  /\ messageSent[Home[s]] > 0
  /\ messageSent' = [messageSent EXCEPT ![Home[s]] = @ - 1]
  /\ UNCHANGED <<mail, sent, sendLock, sendInt, wire, input>>

(* ... and releases the lock. *)
Release(s) ==
  /\ Goto(s, "sent", "idle")
  /\ sendLock' = [sendLock EXCEPT ![Home[s]] = NoSender]
  /\ mail' = [mail EXCEPT ![s] = <<>>]
  /\ UNCHANGED <<sent, sendInt, messageSent, wire, input>>

(* The interrupt: NetworkOutput::CallBack, PostOfficeOutput::CallBack. *)
SendInterrupt(m) ==
  /\ sendInt[m] > 0
  /\ sendInt' = [sendInt EXCEPT ![m] = @ - 1]
  /\ messageSent' = [messageSent EXCEPT ![m] = @ + 1]
  /\ UNCHANGED <<pc, mail, sent, sendLock, wire, input>>
-----------------------------------------------------------------------------
(* Slip: the buffer need not be free. *)
PollAlways(m) ==
  /\ wire[m] # <<>>
  /\ inbox' = [inbox EXCEPT ![m] = <<Head(wire[m])>>]
  /\ wire' = [wire EXCEPT ![m] = Tail(@)]
  /\ messageAvailable' = [messageAvailable EXCEPT ![m] = @ + 1]
  /\ UNCHANGED <<output, worker, carried, boxes>>

(* The polling interrupt, NetworkInput::CallBack: nothing while a packet   *)
(* is buffered or none is there.                                           *)
Poll(m) ==
  /\ inbox[m] = <<>>
  /\ wire[m] # <<>>
  /\ inbox' = [inbox EXCEPT ![m] = <<Head(wire[m])>>]
  /\ wire' = [wire EXCEPT ![m] = Tail(@)]
  /\ messageAvailable' = [messageAvailable EXCEPT ![m] = @ + 1]
  /\ UNCHANGED <<output, worker, carried, boxes>>

(* PostalDelivery: messageAvailable->P, ... *)
AwaitMessage(m) ==
  /\ worker[m] = "waits"
  /\ messageAvailable[m] > 0
  /\ messageAvailable' = [messageAvailable EXCEPT ![m] = @ - 1]
  /\ worker' = [worker EXCEPT ![m] = "called"]
  /\ UNCHANGED <<output, wire, inbox, carried, boxes>>

(* Slip: the length is not cleared. *)
TakePacketKeepsLength(m) ==
  /\ worker[m] = "called"
  /\ carried' = [carried EXCEPT ![m] = inbox[m]]
  /\ worker' = [worker EXCEPT ![m] = "carries"]
  /\ UNCHANGED <<output, wire, inbox, messageAvailable, boxes>>

(* ... network->Receive, which frees the buffer, ... *)
TakePacket(m) ==
  /\ worker[m] = "called"
  /\ carried' = [carried EXCEPT ![m] = inbox[m]]
  /\ inbox' = [inbox EXCEPT ![m] = <<>>]
  /\ worker' = [worker EXCEPT ![m] = "carries"]
  /\ UNCHANGED <<output, wire, messageAvailable, boxes>>

(* ... and MailBox::Put. *)
Put(m) ==
  /\ worker[m] = "carries"
  /\ LET x == Head(carried[m])
     IN  boxes' = [boxes EXCEPT ![m][x.box] = Append(@, x)]
  /\ carried' = [carried EXCEPT ![m] = <<>>]
  /\ worker' = [worker EXCEPT ![m] = "waits"]
  /\ UNCHANGED <<output, wire, inbox, messageAvailable>>

(* A thread receives from a mailbox: PostOfficeInput::Receive. *)
Receive(m, b) ==
  /\ boxes[m][b] # <<>>
  /\ boxes' = [boxes EXCEPT ![m][b] = Tail(@)]
  /\ UNCHANGED <<output, wire, inbox, messageAvailable, worker, carried>>
-----------------------------------------------------------------------------
Transmit(s) == Acquire(s) \/ NetworkSend(s) \/ AwaitSent(s) \/ Release(s)
Deliver(m) == SendInterrupt(m) \/ Poll(m) \/ AwaitMessage(m) \/ TakePacket(m) \/ Put(m)

Next ==
  \/ \E s \in Sender : Transmit(s) \/ \E m \in Machine, b \in Box : Send(s, m, b)
  \/ \E m \in Machine : Deliver(m) \/ \E b \in Box : Receive(m, b)

(* A machine goes on as long as a thread of its post office can run or its *)
(* network device has an interrupt due; threads need not send or receive.  *)
Fairness ==
  \A m \in Machine :
    WF_vars(Deliver(m) \/ \E s \in Sender : Home[s] = m /\ Transmit(s))

Spec == Init /\ [][Next]_vars /\ Fairness
-----------------------------------------------------------------------------
OnTheWay == [m \in Machine |-> carried[m] \o inbox[m] \o wire[m]]

Promise == INSTANCE MailSpec WITH way <- OnTheWay

(* Mail comes to its mailbox in order and once, and is lost nowhere but on *)
(* the network, although a buffer of one packet, an interrupt handler and  *)
(* a thread hand it on.                                                    *)
ImplementsMail == Promise!Spec

Quiet(m) ==
  /\ \A s \in Sender : Home[s] = m => pc[s] = "idle"
  /\ OnTheWay[m] = <<>>
  /\ worker[m] = "waits"

(* Whatever is lost, every thread that sends comes back from Send, and     *)
(* what is on the wire comes to the mailboxes: between the mails that are  *)
(* sent a machine comes to rest.                                           *)
Delivered == \A m \in Machine : ~ Quiet(m) ~> Quiet(m)
=============================================================================
