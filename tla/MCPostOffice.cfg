\* Two machines with two mailboxes, three senders, one of them for each mail.
CONSTANTS
  here = here
  there = there
  s1 = s1
  s2 = s2
  s3 = s3
  Machine = {here, there}
  Box = {0, 1}
  Sender = {s1, s2, s3}
  Home <- MCHome
  NoSender = NoSender
  MaxMail = 1
SPECIFICATION Spec
INVARIANTS
  TypeOK
PROPERTIES
  ImplementsMail
  Delivered
CHECK_DEADLOCK FALSE
