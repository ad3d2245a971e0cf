-------------------------- MODULE PostOfficeProofs --------------------------
(***************************************************************************)
(* Proofs about PostOffice for any number of machines, mailboxes, threads  *)
(* and mails: every buffer and semaphore holds at most one, and mail comes *)
(* out of its mailbox once and in order.                                   *)
(***************************************************************************)
EXTENDS PostOffice, Lists

Holding == {"locked", "sending", "sent"}
SenderLocation == {"idle", "queued", "locked", "sending", "sent"}

(* What a buffer of one packet holds when it is full.                      *)
One == {<<x>> : x \in Mail}

(* The thread in its critical section waits for the interrupt of machine   *)
(* m's network output, or has just been signalled.                         *)
Transmitting(m) == \E s \in Sender : sendLock[m] = s /\ pc[s] = "sending"

OutputTypes ==
  /\ pc \in [Sender -> SenderLocation]
  /\ mail \in [Sender -> Seq(Mail)]
  /\ sent \in [Sender -> 0 .. MaxMail]
  /\ sendLock \in [Machine -> Sender \cup {NoSender}]
  /\ sendInt \in [Machine -> Nat]
  /\ messageSent \in [Machine -> Nat]

(* A sender has its mail at hand from Send until it releases the lock.     *)
MailAtHand ==
  \A s \in Sender : /\ pc[s] = "idle" => mail[s] = <<>>
                    /\ pc[s] # "idle" => mail[s] \in One

(* The lock of a machine knows the sender in the critical section.         *)
LockIsKnown ==
  /\ \A s \in Sender : pc[s] \in Holding <=> sendLock[Home[s]] = s
  /\ \A m \in Machine, s \in Sender : sendLock[m] = s => Home[s] = m

(* One transmission has one interrupt or one unit of messageSent to come.  *)
OneInterrupt ==
  \A m \in Machine : /\ Transmitting(m) => sendInt[m] + messageSent[m] = 1
                     /\ ~Transmitting(m) => sendInt[m] + messageSent[m] = 0

OutputInv == OutputTypes /\ MailAtHand /\ LockIsKnown /\ OneInterrupt

InputTypes ==
  /\ wire \in [Machine -> Seq(Mail)]
  /\ inbox \in [Machine -> Seq(Mail)]
  /\ carried \in [Machine -> Seq(Mail)]
  /\ boxes \in [Machine -> [Box -> Seq(Mail)]]
  /\ worker \in [Machine -> {"waits", "called", "carries"}]
  /\ messageAvailable \in [Machine -> Nat]

(* The worker carries one packet when it says so, else none.               *)
CarriesOne ==
  \A m \in Machine : /\ worker[m] = "carries" => carried[m] \in One
                     /\ worker[m] # "carries" => carried[m] = <<>>

(* A packet in the buffer has one unit of messageAvailable, until the      *)
(* worker has taken that unit and is called.                               *)
BufferOfOne ==
  \A m \in Machine :
    /\ inbox[m] # <<>> => inbox[m] \in One
    /\ worker[m] = "called" => messageAvailable[m] = 0 /\ inbox[m] # <<>>
    /\ worker[m] # "called" => \/ messageAvailable[m] = 0 /\ inbox[m] = <<>>
                               \/ messageAvailable[m] = 1 /\ inbox[m] # <<>>

InputInv == InputTypes /\ CarriesOne /\ BufferOfOne

PostInv == OutputInv /\ InputInv

-----------------------------------------------------------------------------
(* The bounds of TypeOK follow.                                            *)
LEMMA PostInvTypes == PostInv => TypeOK
<1> SUFFICES ASSUME PostInv PROVE TypeOK
  OBVIOUS
<1>0. OutputInv /\ InputInv
  BY DEF PostInv
<1>1. \A m \in Machine : sendInt[m] \in 0 .. 1 /\ messageSent[m] \in 0 .. 1
  <2> SUFFICES ASSUME NEW m \in Machine
               PROVE  sendInt[m] \in 0 .. 1 /\ messageSent[m] \in 0 .. 1
    OBVIOUS
  <2>1. /\ sendInt[m] \in Nat /\ messageSent[m] \in Nat
        /\ sendInt[m] + messageSent[m] = 0 \/ sendInt[m] + messageSent[m] = 1
    BY <1>0 DEF OutputInv, OutputTypes, OneInterrupt
  <2> QED
    BY <2>1
<1>2. \A m \in Machine : messageAvailable[m] \in 0 .. 1
  <2> SUFFICES ASSUME NEW m \in Machine PROVE messageAvailable[m] \in 0 .. 1
    OBVIOUS
  <2>1. messageAvailable[m] = 0 \/ messageAvailable[m] = 1
    BY <1>0 DEF InputInv, BufferOfOne
  <2> QED
    BY <2>1
<1>3. /\ sendInt \in [Machine -> 0 .. 1] /\ messageSent \in [Machine -> 0 .. 1]
      /\ messageAvailable \in [Machine -> 0 .. 1]
  BY <1>0, <1>1, <1>2 DEF OutputInv, OutputTypes, InputInv, InputTypes
<1>4. ASSUME NEW q, q = <<>> \/ q \in One PROVE q \in Seq(Mail) /\ Len(q) <= 1
  <2>1. CASE q = <<>>
    BY <2>1
  <2>2. CASE q \in One
    <3>1. PICK x \in Mail : q = <<x>>
      BY <2>2 DEF One
    <3> QED
      BY <3>1
  <2> QED
    BY <1>4, <2>1, <2>2
<1>5. \A s \in Sender : mail[s] \in Seq(Mail) /\ Len(mail[s]) <= 1
  BY <1>0, <1>4 DEF OutputInv, MailAtHand
<1>6. \A m \in Machine : /\ inbox[m] \in Seq(Mail) /\ Len(inbox[m]) <= 1
                         /\ carried[m] \in Seq(Mail) /\ Len(carried[m]) <= 1
  BY <1>0, <1>4 DEF InputInv, CarriesOne, BufferOfOne
<1> QED
  BY <1>0, <1>3, <1>5, <1>6
     DEF TypeOK, OutputInv, OutputTypes, InputInv, InputTypes, SenderLocation

(* At the start nobody sends and nothing is under way.                     *)
LEMMA PostInvInit == Init => PostInv
<1> SUFFICES ASSUME Init PROVE PostInv
  OBVIOUS
<1>1. <<>> \in Seq(Mail)
  OBVIOUS
<1>2. \A m \in Machine : ~Transmitting(m)
  BY DEF Init, Transmitting
<1>3. OutputTypes
  BY <1>1, PostOfficeAssumption DEF Init, OutputTypes, SenderLocation
<1>4. LockIsKnown
  BY PostOfficeAssumption DEF Init, LockIsKnown, Holding
<1>5. MailAtHand /\ OneInterrupt
  BY <1>1, <1>2 DEF Init, MailAtHand, OneInterrupt
<1>6. InputTypes
  BY <1>1 DEF Init, InputTypes
<1>7. CarriesOne /\ BufferOfOne
  BY <1>1 DEF Init, CarriesOne, BufferOfOne
<1> QED
  BY <1>3, <1>4, <1>5, <1>6, <1>7 DEF PostInv, OutputInv, InputInv

(* A step of a sender is not seen by the lock of another machine.          *)
LEMMA TransmittingFrame ==
  ASSUME OutputInv, PostOfficeAssumption, NEW s \in Sender, NEW from, NEW to,
         Goto(s, from, to), NEW m \in Machine, m # Home[s],
         sendLock'[m] = sendLock[m]
  PROVE  Transmitting(m)' <=> Transmitting(m)
  BY DEF Transmitting, Goto, OutputInv, OutputTypes, LockIsKnown

(* What a step of s that goes to another place changes in pc.              *)
LEMMA SenderMoves ==
  ASSUME OutputTypes, NEW s \in Sender, NEW from, NEW to \in SenderLocation,
         Goto(s, from, to)
  PROVE  /\ pc[s] = from /\ pc'[s] = to /\ pc' \in [Sender -> SenderLocation]
         /\ \A u \in Sender : u # s => pc'[u] = pc[u]
  BY DEF Goto, OutputTypes

(* The sender in the critical section is the one that may be transmitting. *)
LEMMA HolderTransmits ==
  ASSUME NEW s \in Sender, NEW m \in Machine, sendLock[m] = s
  PROVE  Transmitting(m) <=> pc[s] = "sending"
  BY DEF Transmitting

(* The steps of a sender, one by one.                                      *)
LEMMA OutputStep ==
  ASSUME OutputInv, NEW s \in Sender,
         Transmit(s) \/ \E m \in Machine, b \in Box : Send(s, m, b)
  PROVE  OutputInv'
<1> DEFINE h == Home[s]
<1>0. /\ h \in Machine /\ s # NoSender /\ NoSender \notin Sender
      /\ OutputTypes /\ MailAtHand /\ LockIsKnown /\ OneInterrupt
  BY PostOfficeAssumption DEF OutputInv
<1>1. ASSUME NEW m \in Machine, NEW b \in Box, Send(s, m, b) PROVE OutputInv'
  <2> DEFINE x == [from |-> s, no |-> sent[s] + 1, machine |-> m, box |-> b]
  <2>1. /\ Goto(s, "idle", "queued") /\ sent[s] < MaxMail
        /\ sent' = [sent EXCEPT ![s] = sent[s] + 1] /\ mail' = [mail EXCEPT ![s] = <<x>>]
        /\ UNCHANGED <<sendLock, sendInt, messageSent>>
    BY <1>1 DEF Send
  <2>2. sent[s] + 1 \in 1 .. MaxMail /\ sent[s] + 1 \in 0 .. MaxMail
    <3>1. sent[s] \in 0 .. MaxMail /\ MaxMail \in Nat
      BY <1>0, PostOfficeAssumption DEF OutputTypes
    <3> QED
      BY <2>1, <3>1
  <2>3. x \in Mail
    BY <2>2 DEF Mail
  <2> HIDE DEF x
  <2>4. <<x>> \in Seq(Mail) /\ <<x>> \in One
    BY <2>3 DEF One
  <2>5. /\ pc[s] = "idle" /\ pc'[s] = "queued" /\ pc' \in [Sender -> SenderLocation]
        /\ \A u \in Sender : u # s => pc'[u] = pc[u]
    BY <1>0, <2>1, SenderMoves DEF SenderLocation
  <2>6. /\ mail' \in [Sender -> Seq(Mail)] /\ sent' \in [Sender -> 0 .. MaxMail]
        /\ mail'[s] = <<x>> /\ \A u \in Sender : u # s => mail'[u] = mail[u]
    BY <1>0, <2>1, <2>2, <2>4 DEF OutputTypes
  <2>7. OutputTypes'
    BY <1>0, <2>1, <2>5, <2>6 DEF OutputTypes
  <2>8. MailAtHand'
    BY <1>0, <2>4, <2>5, <2>6 DEF MailAtHand
  <2>9. LockIsKnown'
    BY <1>0, <2>1, <2>5 DEF LockIsKnown, Holding
  <2>10. \A k \in Machine : Transmitting(k)' <=> Transmitting(k)
    BY <2>1, <2>5 DEF Transmitting
  <2>11. OneInterrupt'
    BY <1>0, <2>1, <2>10 DEF OneInterrupt
  <2> QED
    BY <2>7, <2>8, <2>9, <2>11 DEF OutputInv
<1>2. ASSUME Acquire(s) PROVE OutputInv'
  <2>1. /\ Goto(s, "queued", "locked") /\ sendLock[h] = NoSender
        /\ sendLock' = [sendLock EXCEPT ![h] = s]
        /\ UNCHANGED <<mail, sent, sendInt, messageSent>>
    BY <1>2 DEF Acquire
  <2>2. /\ pc[s] = "queued" /\ pc'[s] = "locked" /\ pc' \in [Sender -> SenderLocation]
        /\ \A u \in Sender : u # s => pc'[u] = pc[u]
    BY <1>0, <2>1, SenderMoves DEF SenderLocation
  <2>3. /\ sendLock' \in [Machine -> Sender \cup {NoSender}] /\ sendLock'[h] = s
        /\ \A k \in Machine : k # h => sendLock'[k] = sendLock[k]
    BY <1>0, <2>1 DEF OutputTypes
  <2>4. OutputTypes' /\ MailAtHand'
    BY <1>0, <2>1, <2>2, <2>3 DEF OutputTypes, MailAtHand
  <2>5. ASSUME NEW u \in Sender PROVE pc'[u] \in Holding <=> sendLock'[Home[u]] = u
    <3>1. pc[u] \in Holding <=> sendLock[Home[u]] = u
      BY <1>0 DEF LockIsKnown
    <3>2. Home[u] \in Machine
      BY PostOfficeAssumption
    <3> QED
      BY <1>0, <2>1, <2>2, <2>3, <3>1, <3>2 DEF Holding
  <2>6. \A m \in Machine, u \in Sender : sendLock'[m] = u => Home[u] = m
    BY <1>0, <2>3 DEF LockIsKnown
  <2>7. LockIsKnown'
    BY <2>5, <2>6 DEF LockIsKnown
  <2>8. \A k \in Machine : Transmitting(k)' <=> Transmitting(k)
    BY <1>0, <2>1, <2>2, <2>3 DEF Transmitting
  <2>9. OneInterrupt'
    BY <1>0, <2>1, <2>8 DEF OneInterrupt
  <2> QED
    BY <2>4, <2>7, <2>9 DEF OutputInv
<1>3. ASSUME NetworkSend(s) PROVE OutputInv'
  <2>1. /\ Goto(s, "locked", "sending") /\ sendInt' = [sendInt EXCEPT ![h] = @ + 1]
        /\ UNCHANGED <<mail, sent, sendLock, messageSent>>
    BY <1>3 DEF NetworkSend
  <2>2. /\ pc[s] = "locked" /\ pc'[s] = "sending" /\ pc' \in [Sender -> SenderLocation]
        /\ \A u \in Sender : u # s => pc'[u] = pc[u]
    BY <1>0, <2>1, SenderMoves DEF SenderLocation
  <2>3. sendLock[h] = s
    BY <1>0, <2>2 DEF LockIsKnown, Holding
  <2>4. /\ sendInt' \in [Machine -> Nat] /\ sendInt'[h] = sendInt[h] + 1
        /\ \A k \in Machine : k # h => sendInt'[k] = sendInt[k]
    BY <1>0, <2>1 DEF OutputTypes
  <2>5. ~Transmitting(h) /\ Transmitting(h)'
    BY <1>0, <2>1, <2>2, <2>3, HolderTransmits DEF Transmitting
  <2>6. \A k \in Machine : k # h => (Transmitting(k)' <=> Transmitting(k))
    BY <2>1, TransmittingFrame, PostOfficeAssumption
  <2>7. sendInt[h] + messageSent[h] = 0 /\ sendInt[h] \in Nat /\ messageSent[h] \in Nat
    BY <1>0, <2>5 DEF OneInterrupt, OutputTypes
  <2>8. sendInt'[h] + messageSent'[h] = 1
    BY <2>1, <2>4, <2>7
  <2>9. OneInterrupt'
    BY <1>0, <2>1, <2>4, <2>5, <2>6, <2>8 DEF OneInterrupt
  <2>10. OutputTypes' /\ MailAtHand'
    BY <1>0, <2>1, <2>2, <2>4 DEF OutputTypes, MailAtHand
  <2>11. LockIsKnown'
    BY <1>0, <2>1, <2>2 DEF LockIsKnown, Holding
  <2> QED
    BY <2>9, <2>10, <2>11 DEF OutputInv
<1>4. ASSUME AwaitSent(s) PROVE OutputInv'
  <2>1. /\ Goto(s, "sending", "sent") /\ messageSent[h] > 0
        /\ messageSent' = [messageSent EXCEPT ![h] = @ - 1]
        /\ UNCHANGED <<mail, sent, sendLock, sendInt>>
    BY <1>4 DEF AwaitSent
  <2>2. /\ pc[s] = "sending" /\ pc'[s] = "sent" /\ pc' \in [Sender -> SenderLocation]
        /\ \A u \in Sender : u # s => pc'[u] = pc[u]
    BY <1>0, <2>1, SenderMoves DEF SenderLocation
  <2>3. sendLock[h] = s
    BY <1>0, <2>2 DEF LockIsKnown, Holding
  <2>4. Transmitting(h) /\ ~Transmitting(h)'
    BY <1>0, <2>1, <2>2, <2>3 DEF Transmitting
  <2>5. sendInt[h] + messageSent[h] = 1 /\ sendInt[h] \in Nat /\ messageSent[h] \in Nat
    BY <1>0, <2>4 DEF OneInterrupt, OutputTypes
  <2>6. messageSent[h] - 1 \in Nat /\ sendInt[h] + (messageSent[h] - 1) = 0
    BY <2>1, <2>5
  <2>7. /\ messageSent' \in [Machine -> Nat] /\ messageSent'[h] = messageSent[h] - 1
        /\ \A k \in Machine : k # h => messageSent'[k] = messageSent[k]
    BY <1>0, <2>1, <2>6 DEF OutputTypes
  <2>8. \A k \in Machine : k # h => (Transmitting(k)' <=> Transmitting(k))
    BY <2>1, TransmittingFrame, PostOfficeAssumption
  <2>9. OneInterrupt'
    BY <1>0, <2>1, <2>4, <2>6, <2>7, <2>8 DEF OneInterrupt
  <2>10. OutputTypes' /\ MailAtHand'
    BY <1>0, <2>1, <2>2, <2>7 DEF OutputTypes, MailAtHand
  <2>11. LockIsKnown'
    BY <1>0, <2>1, <2>2 DEF LockIsKnown, Holding
  <2> QED
    BY <2>9, <2>10, <2>11 DEF OutputInv
<1>5. ASSUME Release(s) PROVE OutputInv'
  <2>1. /\ Goto(s, "sent", "idle") /\ sendLock' = [sendLock EXCEPT ![h] = NoSender]
        /\ mail' = [mail EXCEPT ![s] = <<>>]
        /\ UNCHANGED <<sent, sendInt, messageSent>>
    BY <1>5 DEF Release
  <2>2. /\ pc[s] = "sent" /\ pc'[s] = "idle" /\ pc' \in [Sender -> SenderLocation]
        /\ \A u \in Sender : u # s => pc'[u] = pc[u]
    BY <1>0, <2>1, SenderMoves DEF SenderLocation
  <2>3. sendLock[h] = s
    BY <1>0, <2>2 DEF LockIsKnown, Holding
  <2>4. /\ sendLock' \in [Machine -> Sender \cup {NoSender}] /\ sendLock'[h] = NoSender
        /\ \A k \in Machine : k # h => sendLock'[k] = sendLock[k]
    BY <1>0, <2>1 DEF OutputTypes
  <2>5. <<>> \in Seq(Mail)
    OBVIOUS
  <2>6. /\ mail' \in [Sender -> Seq(Mail)] /\ mail'[s] = <<>>
        /\ \A u \in Sender : u # s => mail'[u] = mail[u]
    BY <1>0, <2>1, <2>5 DEF OutputTypes
  <2>7. \A k \in Machine : Transmitting(k)' <=> Transmitting(k)
    BY <1>0, <2>2, <2>3, <2>4 DEF Transmitting
  <2>8. ASSUME NEW u \in Sender PROVE pc'[u] \in Holding <=> sendLock'[Home[u]] = u
    <3>1. pc[u] \in Holding <=> sendLock[Home[u]] = u
      BY <1>0 DEF LockIsKnown
    <3>2. Home[u] \in Machine
      BY PostOfficeAssumption
    <3> QED
      BY <1>0, <2>2, <2>3, <2>4, <3>1, <3>2 DEF Holding
  <2>9. \A m \in Machine, u \in Sender : sendLock'[m] = u => Home[u] = m
    BY <1>0, <2>4 DEF LockIsKnown
  <2>10. LockIsKnown'
    BY <2>8, <2>9 DEF LockIsKnown
  <2>11. OutputTypes' /\ MailAtHand'
    BY <1>0, <2>1, <2>2, <2>4, <2>6 DEF OutputTypes, MailAtHand
  <2>12. OneInterrupt'
    BY <1>0, <2>1, <2>7 DEF OneInterrupt
  <2> QED
    BY <2>10, <2>11, <2>12 DEF OutputInv
<1> QED
  BY <1>1, <1>2, <1>3, <1>4, <1>5 DEF Transmit
(* The interrupt turns into a unit of messageSent.                         *)
LEMMA InterruptStep ==
  ASSUME OutputInv, NEW m \in Machine, SendInterrupt(m)
  PROVE  OutputInv'
<1>0. OutputTypes /\ MailAtHand /\ LockIsKnown /\ OneInterrupt
  BY DEF OutputInv
<1>1. /\ sendInt[m] > 0 /\ sendInt' = [sendInt EXCEPT ![m] = @ - 1]
      /\ messageSent' = [messageSent EXCEPT ![m] = @ + 1]
      /\ UNCHANGED <<pc, mail, sent, sendLock>>
  BY DEF SendInterrupt
<1>2. sendInt[m] \in Nat /\ messageSent[m] \in Nat
  BY <1>0 DEF OutputTypes
<1>3. /\ sendInt[m] - 1 \in Nat /\ messageSent[m] + 1 \in Nat
      /\ (sendInt[m] - 1) + (messageSent[m] + 1) = sendInt[m] + messageSent[m]
  BY <1>1, <1>2
<1>4. /\ sendInt' \in [Machine -> Nat] /\ messageSent' \in [Machine -> Nat]
      /\ sendInt'[m] = sendInt[m] - 1 /\ messageSent'[m] = messageSent[m] + 1
      /\ \A k \in Machine : k # m => sendInt'[k] = sendInt[k] /\ messageSent'[k] = messageSent[k]
  BY <1>0, <1>1, <1>3 DEF OutputTypes
<1>5. OutputTypes' /\ MailAtHand' /\ LockIsKnown'
  BY <1>0, <1>1, <1>4 DEF OutputTypes, MailAtHand, LockIsKnown
<1>6. \A k \in Machine : Transmitting(k)' <=> Transmitting(k)
  BY <1>1 DEF Transmitting
<1>7. \A k \in Machine : sendInt'[k] + messageSent'[k] = sendInt[k] + messageSent[k]
  BY <1>3, <1>4
<1>8. OneInterrupt'
  BY <1>0, <1>6, <1>7 DEF OneInterrupt
<1> QED
  BY <1>5, <1>8 DEF OutputInv

(* The packet of a sender that transmits.                                  *)
LEMMA PacketOf ==
  ASSUME OutputInv, NEW s \in Sender, pc[s] # "idle"
  PROVE  /\ Head(mail[s]) \in Mail /\ Head(mail[s]).machine \in Machine
         /\ Head(mail[s]).box \in Box
<1>1. mail[s] \in One
  BY DEF OutputInv, MailAtHand
<1>2. PICK x \in Mail : mail[s] = <<x>>
  BY <1>1 DEF One
<1> QED
  BY <1>2 DEF Mail

(* A packet carried is one of Mail, and nothing else is carried.           *)
LEMMA PacketCarried ==
  ASSUME InputInv, NEW m \in Machine, worker[m] = "carries"
  PROVE  /\ carried[m] \in One /\ carried[m] = <<Head(carried[m])>>
         /\ Head(carried[m]) \in Mail /\ Head(carried[m]).box \in Box
<1>1. carried[m] \in One
  BY DEF InputInv, CarriesOne
<1>2. PICK x \in Mail : carried[m] = <<x>>
  BY <1>1 DEF One
<1> QED
  BY <1>1, <1>2 DEF Mail

(* The steps of the network, the worker and the receivers.                 *)
LEMMA InputStep ==
  ASSUME InputInv, OutputInv, [Next]_vars
  PROVE  InputInv'
<1>0. InputTypes /\ CarriesOne /\ BufferOfOne
  BY DEF InputInv
<1>1. ASSUME UNCHANGED input, wire' \in [Machine -> Seq(Mail)] PROVE InputInv'
  <2>1. UNCHANGED <<inbox, messageAvailable, worker, carried, boxes>>
    BY <1>1 DEF input
  <2> QED
    BY <1>0, <1>1, <2>1 DEF InputInv, InputTypes, CarriesOne, BufferOfOne
<1>2. ASSUME NEW s \in Sender, NetworkSend(s) PROVE InputInv'
  <2> DEFINE x == Head(mail[s])
  <2>1. /\ pc[s] = "locked" /\ UNCHANGED input
        /\ wire' = wire \/ wire' = [wire EXCEPT ![x.machine] = Append(@, x)]
    BY <1>2 DEF NetworkSend, Goto
  <2>2. x \in Mail /\ x.machine \in Machine
    BY <2>1, PacketOf
  <2> HIDE DEF x
  <2>3. wire[x.machine] \in Seq(Mail)
    BY <1>0, <2>2 DEF InputTypes
  <2>4. Append(wire[x.machine], x) \in Seq(Mail)
    BY <2>2, <2>3, AppendProperties
  <2>5. wire' \in [Machine -> Seq(Mail)]
    BY <1>0, <2>1, <2>2, <2>4 DEF InputTypes
  <2> QED
    BY <1>1, <2>1, <2>5
<1>3. ASSUME UNCHANGED <<wire, input>> PROVE InputInv'
  BY <1>0, <1>1, <1>3 DEF InputTypes
<1>4. ASSUME NEW m \in Machine, Poll(m) PROVE InputInv'
  <2> DEFINE p == <<Head(wire[m])>>
  <2>1. /\ inbox[m] = <<>> /\ wire[m] # <<>> /\ inbox' = [inbox EXCEPT ![m] = p]
        /\ wire' = [wire EXCEPT ![m] = Tail(wire[m])]
        /\ messageAvailable' = [messageAvailable EXCEPT ![m] = messageAvailable[m] + 1]
        /\ UNCHANGED <<worker, carried, boxes>>
    BY <1>4 DEF Poll
  <2>2. wire[m] \in Seq(Mail)
    BY <1>0 DEF InputTypes
  <2>3. Head(wire[m]) \in Mail /\ Tail(wire[m]) \in Seq(Mail)
    BY <2>1, <2>2, HeadTailProperties
  <2>4. p \in Seq(Mail) /\ p \in One /\ p # <<>>
    BY <2>3 DEF One
  <2> HIDE DEF p
  <2>5. worker[m] # "called" /\ messageAvailable[m] = 0
    BY <1>0, <2>1 DEF BufferOfOne
  <2>6. /\ inbox' \in [Machine -> Seq(Mail)] /\ wire' \in [Machine -> Seq(Mail)]
        /\ messageAvailable' \in [Machine -> Nat]
        /\ inbox'[m] = p /\ messageAvailable'[m] = 1
        /\ \A k \in Machine : k # m => /\ inbox'[k] = inbox[k]
                                       /\ messageAvailable'[k] = messageAvailable[k]
    BY <1>0, <2>1, <2>3, <2>4, <2>5 DEF InputTypes
  <2>7. InputTypes' /\ CarriesOne'
    BY <1>0, <2>1, <2>6 DEF InputTypes, CarriesOne
  <2>8. BufferOfOne'
    BY <1>0, <2>1, <2>4, <2>5, <2>6 DEF BufferOfOne
  <2> QED
    BY <2>7, <2>8 DEF InputInv
<1>5. ASSUME NEW m \in Machine, AwaitMessage(m) PROVE InputInv'
  <2>1. /\ worker[m] = "waits" /\ messageAvailable[m] > 0
        /\ messageAvailable' = [messageAvailable EXCEPT ![m] = messageAvailable[m] - 1]
        /\ worker' = [worker EXCEPT ![m] = "called"]
        /\ UNCHANGED <<wire, inbox, carried, boxes>>
    BY <1>5 DEF AwaitMessage
  <2>2. messageAvailable[m] = 1 /\ inbox[m] # <<>>
    BY <1>0, <2>1 DEF BufferOfOne
  <2>3. /\ worker' \in [Machine -> {"waits", "called", "carries"}]
        /\ messageAvailable' \in [Machine -> Nat]
        /\ worker'[m] = "called" /\ messageAvailable'[m] = 0
        /\ \A k \in Machine : k # m => /\ worker'[k] = worker[k]
                                       /\ messageAvailable'[k] = messageAvailable[k]
    BY <1>0, <2>1, <2>2 DEF InputTypes
  <2>4. InputTypes' /\ CarriesOne'
    BY <1>0, <2>1, <2>3 DEF InputTypes, CarriesOne
  <2>5. BufferOfOne'
    BY <1>0, <2>1, <2>2, <2>3 DEF BufferOfOne
  <2> QED
    BY <2>4, <2>5 DEF InputInv
<1>6. ASSUME NEW m \in Machine, TakePacket(m) PROVE InputInv'
  <2>1. /\ worker[m] = "called" /\ carried' = [carried EXCEPT ![m] = inbox[m]]
        /\ inbox' = [inbox EXCEPT ![m] = <<>>]
        /\ worker' = [worker EXCEPT ![m] = "carries"]
        /\ UNCHANGED <<wire, messageAvailable, boxes>>
    BY <1>6 DEF TakePacket
  <2>2. inbox[m] \in One /\ messageAvailable[m] = 0
    BY <1>0, <2>1 DEF BufferOfOne
  <2>3. <<>> \in Seq(Mail) /\ inbox[m] \in Seq(Mail)
    BY <1>0 DEF InputTypes
  <2>4. /\ worker' \in [Machine -> {"waits", "called", "carries"}]
        /\ inbox' \in [Machine -> Seq(Mail)] /\ carried' \in [Machine -> Seq(Mail)]
        /\ worker'[m] = "carries" /\ inbox'[m] = <<>> /\ carried'[m] = inbox[m]
        /\ \A k \in Machine : k # m => /\ worker'[k] = worker[k]
                                       /\ inbox'[k] = inbox[k] /\ carried'[k] = carried[k]
    BY <1>0, <2>1, <2>3 DEF InputTypes
  <2>5. InputTypes'
    BY <1>0, <2>1, <2>4 DEF InputTypes
  <2>6. CarriesOne'
    BY <1>0, <2>2, <2>4 DEF CarriesOne
  <2>7. BufferOfOne'
    BY <1>0, <2>1, <2>2, <2>4 DEF BufferOfOne
  <2> QED
    BY <2>5, <2>6, <2>7 DEF InputInv
<1>7. ASSUME NEW m \in Machine, Put(m) PROVE InputInv'
  <2> DEFINE x == Head(carried[m])
  <2>1. /\ worker[m] = "carries"
        /\ boxes' = [boxes EXCEPT ![m] = [boxes[m] EXCEPT ![x.box] = Append(boxes[m][x.box], x)]]
        /\ carried' = [carried EXCEPT ![m] = <<>>]
        /\ worker' = [worker EXCEPT ![m] = "waits"]
        /\ UNCHANGED <<wire, inbox, messageAvailable>>
    BY <1>7 DEF Put
  <2>2. x \in Mail /\ x.box \in Box
    BY <2>1, PacketCarried
  <2> HIDE DEF x
  <2>3. boxes[m] \in [Box -> Seq(Mail)] /\ boxes[m][x.box] \in Seq(Mail) /\ <<>> \in Seq(Mail)
    BY <1>0, <2>2 DEF InputTypes
  <2>4. Append(boxes[m][x.box], x) \in Seq(Mail)
    BY <2>2, <2>3, AppendProperties
  <2>5. boxes' \in [Machine -> [Box -> Seq(Mail)]]
    BY <1>0, <2>1, <2>3, <2>4 DEF InputTypes
  <2>6. /\ worker' \in [Machine -> {"waits", "called", "carries"}]
        /\ carried' \in [Machine -> Seq(Mail)] /\ worker'[m] = "waits" /\ carried'[m] = <<>>
        /\ \A k \in Machine : k # m => worker'[k] = worker[k] /\ carried'[k] = carried[k]
    BY <1>0, <2>1, <2>3 DEF InputTypes
  <2>7. InputTypes' /\ CarriesOne'
    BY <1>0, <2>1, <2>5, <2>6 DEF InputTypes, CarriesOne
  <2>8. BufferOfOne'
    BY <1>0, <2>1, <2>6 DEF BufferOfOne
  <2> QED
    BY <2>7, <2>8 DEF InputInv
<1>8. ASSUME NEW m \in Machine, NEW b \in Box, Receive(m, b) PROVE InputInv'
  <2>1. /\ boxes[m][b] # <<>>
        /\ boxes' = [boxes EXCEPT ![m] = [boxes[m] EXCEPT ![b] = Tail(boxes[m][b])]]
        /\ UNCHANGED <<wire, inbox, messageAvailable, worker, carried>>
    BY <1>8 DEF Receive
  <2>2. boxes[m] \in [Box -> Seq(Mail)] /\ boxes[m][b] \in Seq(Mail)
    BY <1>0 DEF InputTypes
  <2>3. Tail(boxes[m][b]) \in Seq(Mail)
    BY <2>1, <2>2, HeadTailProperties
  <2>4. boxes' \in [Machine -> [Box -> Seq(Mail)]]
    BY <1>0, <2>1, <2>2, <2>3 DEF InputTypes
  <2>5. InputTypes' /\ CarriesOne' /\ BufferOfOne'
    BY <1>0, <2>1, <2>4 DEF InputTypes, CarriesOne, BufferOfOne
  <2> QED
    BY <2>5 DEF InputInv
<1>9. ASSUME NEW s \in Sender, Transmit(s) \/ \E m \in Machine, b \in Box : Send(s, m, b)
      PROVE  InputInv'
  BY <1>2, <1>3, <1>9 DEF Transmit, Acquire, AwaitSent, Release, Send
<1>10. ASSUME NEW m \in Machine, SendInterrupt(m) PROVE InputInv'
  BY <1>3, <1>10 DEF SendInterrupt
<1>11. CASE UNCHANGED vars
  BY <1>3, <1>11 DEF vars
<1> QED
  BY <1>4, <1>5, <1>6, <1>7, <1>8, <1>9, <1>10, <1>11 DEF Next, Deliver

(* Every step keeps both sides of the post office in order.                *)
LEMMA PostInvStep == PostInv /\ [Next]_vars => PostInv'
<1> SUFFICES ASSUME PostInv, [Next]_vars PROVE PostInv'
  OBVIOUS
<1>0. OutputInv /\ InputInv
  BY DEF PostInv
<1>1. ASSUME UNCHANGED output PROVE OutputInv'
  <2>1. UNCHANGED <<pc, mail, sent, sendLock, sendInt, messageSent>>
    BY <1>1 DEF output
  <2> QED
    BY <1>0, <2>1 DEF OutputInv, OutputTypes, MailAtHand, LockIsKnown, OneInterrupt, Transmitting
<1>2. ASSUME NEW m \in Machine, Deliver(m) \/ \E b \in Box : Receive(m, b) PROVE OutputInv'
  <2>1. CASE SendInterrupt(m)
    BY <1>0, <2>1, InterruptStep
  <2>2. CASE Poll(m) \/ AwaitMessage(m) \/ TakePacket(m) \/ Put(m) \/ \E b \in Box : Receive(m, b)
    BY <1>1, <2>2 DEF Poll, AwaitMessage, TakePacket, Put, Receive
  <2> QED
    BY <1>2, <2>1, <2>2 DEF Deliver
<1>3. ASSUME NEW s \in Sender, Transmit(s) \/ \E m \in Machine, b \in Box : Send(s, m, b)
      PROVE  OutputInv'
  BY <1>0, <1>3, OutputStep
<1>4. OutputInv'
  BY <1>1, <1>2, <1>3 DEF Next, vars
<1>5. InputInv'
  BY <1>0, InputStep
<1> QED
  BY <1>4, <1>5 DEF PostInv

(* The post office's invariant holds in every state.                       *)
LEMMA PostInvariant == Spec => []PostInv
  BY PostInvInit, PostInvStep, PTL DEF Spec

(* The state keeps its types: at most one interrupt and one unit of each   *)
(* semaphore are ever outstanding, so that no transmission is started      *)
(* while another goes on (ASSERT(sendBusy == FALSE) in NetworkOutput::Send)*)
(* and no packet is announced to the postal worker twice.                  *)
THEOREM PostOfficeTypeCorrect == Spec => []TypeOK
  BY PostInvTypes, PostInvariant, PTL
-----------------------------------------------------------------------------
(* What is on the way to a machine changes only where a part of it does,   *)
LEMMA WayPart ==
  ASSUME NEW k \in Machine, UNCHANGED <<carried[k], inbox[k], wire[k]>>
  PROVE  OnTheWay'[k] = OnTheWay[k]
  BY DEF OnTheWay

(* and not at all when it changes for no machine.                          *)
LEMMA WayFrame ==
  ASSUME \A k \in Machine : \/ UNCHANGED <<carried[k], inbox[k], wire[k]>>
                            \/ OnTheWay'[k] = OnTheWay[k]
  PROVE  OnTheWay' = OnTheWay
<1>1. \A k \in Machine : OnTheWay'[k] = OnTheWay[k]
  BY WayPart
<1> QED
  BY <1>1 DEF OnTheWay

(* The device puts a packet on the wire: it is at the end of what is on    *)
(* the way.                                                                *)
LEMMA WireSends ==
  ASSUME InputTypes, NEW x \in Mail, x.machine \in Machine,
         wire' = [wire EXCEPT ![x.machine] = Append(@, x)],
         UNCHANGED <<inbox, carried, boxes>>
  PROVE  Promise!Send(x)
<1> DEFINE m == x.machine
           held == carried[m] \o inbox[m]
<1>1. carried[m] \in Seq(Mail) /\ inbox[m] \in Seq(Mail) /\ wire[m] \in Seq(Mail)
  BY DEF InputTypes
<1>2. held \in Seq(Mail)
  BY <1>1, ConcatProperties
<1>3. held \o Append(wire[m], x) = Append(held \o wire[m], x)
  <2> HIDE DEF held, m
  <2> QED
    BY <1>1, <1>2, ConcatAppend
<1>4. /\ wire'[m] = Append(wire[m], x)
      /\ \A k \in Machine : k # m => wire'[k] = wire[k]
  BY DEF InputTypes
<1>5. OnTheWay'[m] = Append(OnTheWay[m], x)
  BY <1>3, <1>4 DEF OnTheWay
<1>6. \A k \in Machine : k # m => OnTheWay'[k] = OnTheWay[k]
  <2> SUFFICES ASSUME NEW k \in Machine, k # m PROVE OnTheWay'[k] = OnTheWay[k]
    OBVIOUS
  <2>1. wire'[k] = wire[k] /\ inbox'[k] = inbox[k] /\ carried'[k] = carried[k]
    BY <1>4
  <2> QED
    BY <2>1, WayPart
<1>7. OnTheWay' = [OnTheWay EXCEPT ![m] = Append(@, x)]
  BY <1>5, <1>6 DEF OnTheWay
<1> QED
  BY <1>7 DEF Promise!Send

(* Polled into the buffer, a packet stays where it was on the way.         *)
LEMMA PollKeepsWay ==
  ASSUME InputInv, NEW m \in Machine, Poll(m)
  PROVE  OnTheWay' = OnTheWay
<1> DEFINE w == wire[m]
<1>1. InputTypes
  BY DEF InputInv
<1>2. /\ inbox[m] = <<>> /\ w # <<>>
      /\ inbox' = [inbox EXCEPT ![m] = <<Head(w)>>]
      /\ wire' = [wire EXCEPT ![m] = Tail(w)]
      /\ carried' = carried
  BY DEF Poll
<1>3. carried[m] \in Seq(Mail) /\ w \in Seq(Mail)
  BY <1>1 DEF InputTypes
<1>4. Head(w) \in Mail /\ Tail(w) \in Seq(Mail)
  BY <1>2, <1>3, HeadTailProperties
<1>5. <<Head(w)>> \in Seq(Mail) /\ w = <<Head(w)>> \o Tail(w)
  BY <1>2, <1>3, <1>4
<1>6. (carried[m] \o <<Head(w)>>) \o Tail(w) = carried[m] \o (<<Head(w)>> \o Tail(w))
  <2> HIDE DEF w
  <2> QED
    BY <1>3, <1>4, <1>5, ConcatAssociative
<1>7. carried[m] \o inbox[m] = carried[m]
  BY <1>2, <1>3, ConcatEmptySeq
<1>8. /\ inbox'[m] = <<Head(w)>> /\ wire'[m] = Tail(w) /\ carried'[m] = carried[m]
      /\ \A k \in Machine : k # m => UNCHANGED <<carried[k], inbox[k], wire[k]>>
  BY <1>1, <1>2 DEF InputTypes
<1>9. OnTheWay[m] = carried[m] \o w
  BY <1>7 DEF OnTheWay
<1>10. OnTheWay'[m] = (carried[m] \o <<Head(w)>>) \o Tail(w)
  BY <1>8 DEF OnTheWay
<1>11. OnTheWay'[m] = OnTheWay[m]
  BY <1>5, <1>6, <1>9, <1>10
<1> QED
  BY <1>8, <1>11, WayFrame

(* So does a packet that the worker takes from the buffer.                 *)
LEMMA TakeKeepsWay ==
  ASSUME InputInv, NEW m \in Machine, TakePacket(m)
  PROVE  OnTheWay' = OnTheWay
<1>1. InputTypes /\ CarriesOne
  BY DEF InputInv
<1>2. /\ worker[m] = "called" /\ wire' = wire
      /\ carried' = [carried EXCEPT ![m] = inbox[m]]
      /\ inbox' = [inbox EXCEPT ![m] = <<>>]
  BY DEF TakePacket
<1>3. carried[m] = <<>> /\ inbox[m] \in Seq(Mail)
  BY <1>1, <1>2 DEF CarriesOne, InputTypes
<1>4. /\ inbox'[m] = <<>> /\ carried'[m] = inbox[m] /\ wire'[m] = wire[m]
      /\ \A k \in Machine : k # m => UNCHANGED <<carried[k], inbox[k], wire[k]>>
  BY <1>1, <1>2 DEF InputTypes
<1>5. <<>> \o inbox[m] = inbox[m] \o <<>>
  BY <1>3, ConcatEmptySeq
<1>6. OnTheWay'[m] = OnTheWay[m]
  BY <1>3, <1>4, <1>5 DEF OnTheWay
<1> QED
  BY <1>4, <1>6, WayFrame

(* The worker puts the first packet that is on the way into its mailbox.   *)
LEMMA PutDelivers ==
  ASSUME InputInv, NEW m \in Machine, Put(m)
  PROVE  Promise!Deliver(m)
<1> DEFINE x == Head(carried[m])
           i == inbox[m]
           w == wire[m]
           p == <<x>> \o i
<1>1. InputTypes
  BY DEF InputInv
<1>2. /\ worker[m] = "carries" /\ carried' = [carried EXCEPT ![m] = <<>>]
      /\ boxes' = [boxes EXCEPT ![m][x.box] = Append(@, x)]
      /\ UNCHANGED <<wire, inbox>>
  BY DEF Put
<1>3. carried[m] = <<x>> /\ x \in Mail
  BY <1>2, PacketCarried
<1> HIDE DEF x
<1>4. i \in Seq(Mail) /\ w \in Seq(Mail)
  BY <1>1 DEF InputTypes
<1>5. /\ <<x>> \in Seq(Mail) /\ <<x>> # <<>>
      /\ Head(<<x>>) = x /\ Tail(<<x>>) = <<>>
  BY <1>3, OneElement
<1>6. /\ <<x>> \o i # <<>> /\ Head(<<x>> \o i) = x
      /\ Tail(<<x>> \o i) = <<>> \o i /\ <<x>> \o i \in Seq(Mail)
  BY <1>4, <1>5, ConcatTail, ConcatProperties
<1>7. /\ p \o w # <<>> /\ Head(p \o w) = x
      /\ Tail(p \o w) = (<<>> \o i) \o w
  <2>1. p \in Seq(Mail) /\ p # <<>> /\ Head(p) = x /\ Tail(p) = <<>> \o i
    BY <1>6
  <2>2. w \in Seq(Mail)
    BY <1>4
  <2> HIDE DEF p, w
  <2>3. p \o w # <<>> /\ Head(p \o w) = Head(p) /\ Tail(p \o w) = Tail(p) \o w
    BY <2>1, <2>2, ConcatTail
  <2> QED
    BY <2>1, <2>3
<1>8. /\ carried'[m] = <<>>
      /\ \A k \in Machine : k # m => carried'[k] = carried[k]
  BY <1>1, <1>2 DEF InputTypes
<1>9. OnTheWay[m] # <<>> /\ Head(OnTheWay[m]) = x
  BY <1>3, <1>7 DEF OnTheWay
<1>10. OnTheWay'[m] = Tail(OnTheWay[m])
  BY <1>2, <1>3, <1>7, <1>8 DEF OnTheWay
<1>11. \A k \in Machine : k # m => OnTheWay'[k] = OnTheWay[k]
  <2> SUFFICES ASSUME NEW k \in Machine, k # m PROVE OnTheWay'[k] = OnTheWay[k]
    OBVIOUS
  <2>1. wire'[k] = wire[k] /\ inbox'[k] = inbox[k] /\ carried'[k] = carried[k]
    BY <1>2, <1>8
  <2> QED
    BY <2>1, WayPart
<1>12. OnTheWay' = [OnTheWay EXCEPT ![m] = Tail(@)]
  BY <1>10, <1>11 DEF OnTheWay
<1> QED
  BY <1>2, <1>9, <1>12 DEF Promise!Deliver

(* Every step is one that the promise allows, or is not seen in it.        *)
LEMMA StepKeepsPromise ==
  PostInv /\ [Next]_vars => [Promise!Next]_(Promise!vars)
<1> SUFFICES ASSUME PostInv, [Next]_vars PROVE [Promise!Next]_(Promise!vars)
  OBVIOUS
<1>0. OutputInv /\ InputInv /\ InputTypes
  BY DEF PostInv, InputInv
<1>1. ASSUME UNCHANGED <<wire, inbox, carried, boxes>> PROVE UNCHANGED Promise!vars
  BY <1>1 DEF Promise!vars, OnTheWay
<1>2. ASSUME NEW s \in Sender, NetworkSend(s) PROVE [Promise!Next]_(Promise!vars)
  <2> DEFINE x == Head(mail[s])
  <2>1. /\ pc[s] = "locked" /\ UNCHANGED <<inbox, carried, boxes>>
        /\ wire' = wire \/ wire' = [wire EXCEPT ![x.machine] = Append(@, x)]
    BY <1>2 DEF NetworkSend, Goto, input
  <2>2. x \in Mail /\ x.machine \in Machine
    BY <1>0, <2>1, PacketOf
  <2> HIDE DEF x
  <2>3. CASE wire' = wire
    BY <1>1, <2>1, <2>3
  <2>4. CASE wire' = [wire EXCEPT ![x.machine] = Append(@, x)]
    <3>1. Promise!Send(x)
      BY <1>0, <2>1, <2>2, <2>4, WireSends
    <3> QED
      BY <2>2, <3>1 DEF Promise!Next
  <2> QED
    BY <2>1, <2>3, <2>4
<1>3. ASSUME NEW s \in Sender, \/ Acquire(s) \/ AwaitSent(s) \/ Release(s)
                               \/ \E m \in Machine, b \in Box : Send(s, m, b)
      PROVE  UNCHANGED Promise!vars
  BY <1>1, <1>3 DEF Acquire, AwaitSent, Release, Send, input
<1>4. ASSUME NEW m \in Machine, SendInterrupt(m) \/ AwaitMessage(m)
      PROVE  UNCHANGED Promise!vars
  BY <1>1, <1>4 DEF SendInterrupt, AwaitMessage, input
<1>5. ASSUME NEW m \in Machine, Poll(m) \/ TakePacket(m) PROVE UNCHANGED Promise!vars
  <2>1. OnTheWay' = OnTheWay
    BY <1>0, <1>5, PollKeepsWay, TakeKeepsWay
  <2>2. boxes' = boxes
    BY <1>5 DEF Poll, TakePacket
  <2> QED
    BY <2>1, <2>2 DEF Promise!vars
<1>6. ASSUME NEW m \in Machine, Put(m) PROVE Promise!Next
  BY <1>0, <1>6, PutDelivers DEF Promise!Next
<1>7. ASSUME NEW m \in Machine, NEW b \in Box, Receive(m, b) PROVE Promise!Next
  <2>1. OnTheWay' = OnTheWay
    BY <1>7 DEF Receive, OnTheWay
  <2>2. Promise!Receive(m, b)
    BY <1>7, <2>1 DEF Receive, Promise!Receive
  <2> QED
    BY <2>2 DEF Promise!Next
<1>8. CASE UNCHANGED vars
  BY <1>1, <1>8 DEF vars, input
<1> QED
  BY <1>2, <1>3, <1>4, <1>5, <1>6, <1>7, <1>8 DEF Next, Transmit, Deliver

(* What the post office does is what MailSpec promises: mail is lost when  *)
(* it is sent or not at all, and comes out of its mailbox once and in the  *)
(* order in which it was put on the wire, for any number of machines,      *)
(* mailboxes, threads and mails.                                           *)
THEOREM MailComesOnceInOrder == Spec => ImplementsMail
<1>1. Init => Promise!Init
  BY ConcatEmptySeq DEF Init, Promise!Init, OnTheWay
<1> QED
  BY <1>1, StepKeepsPromise, PostInvariant, PTL
     DEF Spec, ImplementsMail, Promise!Spec
=============================================================================
