---------------------------- MODULE VirtualMemory ----------------------------
(***************************************************************************)
(* What the demand paging of Assignment 2 promises: every program has its  *)
(* own address space, filled from its executable when it is loaded, in     *)
(* which a load returns what was last stored there, and which only the     *)
(* program itself changes, while it runs.  Frames, the swap file and page  *)
(* faults do not show.                                                     *)
(***************************************************************************)
CONSTANTS
  Program,  \* user programs
  Page,     \* pages of an address space
  Value,    \* what a page can hold
  Image,    \* what a program's executable puts in each of its pages
  NotLoaded \* the address space of a program that has not started

VARIABLES
  mem,   \* the address spaces
  seen,  \* what the last load returned
  runs   \* the thread that has the processor, whichever that is

vars == <<mem, seen>>

Init ==
  /\ mem = [p \in Program |-> NotLoaded]
  /\ seen \in Value

Load(p) ==
  /\ runs = p
  /\ mem[p] = NotLoaded
  /\ mem' = [mem EXCEPT ![p] = Image[p]]
  /\ UNCHANGED seen

Read(p, v) ==
  /\ runs = p
  /\ mem[p] # NotLoaded
  /\ seen' = mem[p][v]
  /\ UNCHANGED mem

Write(p, v, x) ==
  /\ runs = p
  /\ mem[p] # NotLoaded
  /\ mem' = [mem EXCEPT ![p][v] = x]
  /\ UNCHANGED seen

Next ==
  \E p \in Program :
    \/ Load(p)
    \/ \E v \in Page : Read(p, v) \/ \E x \in Value : Write(p, v, x)

Spec == Init /\ [][Next]_vars
=============================================================================
