----------------------------- MODULE ProcessProofs -----------------------------
(***************************************************************************)
(* Proofs about Process, for any number of processes and any priorities.   *)
(***************************************************************************)
EXTENDS Process, Lists

Status == {"unused", "running", "ready", "blocked", "joined", "deleted"}

Sorted(list, prior) ==
  \A i, j \in DOMAIN list : i < j => prior[list[i]] >= prior[list[j]]

ReadyAre(list, stat) ==
  /\ list \in Seq(Process) /\ IsInjective(list)
  /\ \A p \in Process : p \in ToSet(list) <=> stat[p] = "ready"

(* The processes wherever they are: on the ready list, by priority, on the *)
(* processor, waiting for the children or waiting for deletion.            *)
Placed ==
  /\ ReadyAre(readyList, status)
  /\ Sorted(readyList, priority)
  /\ \A p \in Process : status[p] = "running" <=> p = current
  /\ \A p \in Process : status[p] = "blocked" =>
       p \in leaving /\ (p = toBeDestroyed \/ current = NoProcess)
  /\ toBeDestroyed # NoProcess => status[toBeDestroyed] = "blocked"

(* Pids are given out in rising order, so that a child's is higher than    *)
(* its parent's; the tree holds nobody who is not alive.                   *)
Tree ==
  /\ \A p, q \in Process : p < q /\ status[p] = "unused" => status[q] = "unused"
  /\ \A p \in Process : status[p] = "unused" => children[p] = <<>> /\ p \notin leaving
  /\ \A q \in Process : parent[q] < q
  /\ \A q \in Live : parent[q] = NoProcess => q = InitProc
  /\ \A p \in Live : IsInjective(children[p])
  /\ \A p \in Live, q \in Process : q \in ToSet(children[p]) <=> q \in Live /\ parent[q] = p

(* A process that waits for its children has one that is not about to be   *)
(* deleted; one that does not wait is on its way out when it terminates.   *)
Joining ==
  /\ \A p \in Process : status[p] = "joined" =>
       /\ p \in needJoin \cap leaving
       /\ \E q \in Live \ {toBeDestroyed} : parent[q] = p
  /\ \A p \in leaving \ needJoin : status[p] \in {"running", "blocked", "deleted"}

(* Every parent is alive, and a process that leaves, and does not wait,    *)
(* has no children.                                                        *)
NobodyDangles ==
  /\ \A q \in Live : parent[q] # NoProcess => parent[q] \in Live
  /\ \A q \in Live : parent[q] \in leaving /\ status[parent[q]] # "joined" =>
       q = toBeDestroyed

(* The invariant while nothing has gone wrong; after a crash there are     *)
(* only the types, and the cause.                                          *)
Sound ==
  /\ TypeOK /\ ~ crashed
  /\ Placed /\ Tree /\ Joining
  /\ InitHasLeft \/ lateClone \/ NobodyDangles

Wrong == TypeOK /\ crashed /\ (InitHasLeft \/ lateClone)

ProcessInv == Sound \/ Wrong
-----------------------------------------------------------------------------
(* Function f with x at a and y at b.                                      *)
WithTwo(f, a, x, b, y) == [f EXCEPT ![a] = x, ![b] = y]
HasTwo(g, S, f, a, x, b, y) == g[a] = x /\ g[b] = y /\ \A c \in S \ {a, b} : g[c] = f[c]

LEMMA TwoUpdates ==
  ASSUME NEW S, NEW T, NEW f \in [S -> T], NEW a \in S, NEW b \in S, a # b,
         NEW x \in T, NEW y \in T
  PROVE  /\ WithTwo(f, a, x, b, y) \in [S -> T]
         /\ HasTwo(WithTwo(f, a, x, b, y), S, f, a, x, b, y)
BY DEF WithTwo, HasTwo

LEMMA Pids ==
  /\ Process \subseteq Nat /\ InitProc \in Process
  /\ NoProcess \notin Process /\ \A p \in Process : NoProcess < p
BY ProcessAssumption DEF Process, InitProc, NoProcess

LEMMA Priorities == Priority \cup {0} \subseteq Nat
BY ProcessAssumption

-----------------------------------------------------------------------------
(* Insert, when the priorities are prior.                                  *)
Lower(list, p, prior) == {i \in DOMAIN list : prior[list[i]] < prior[p]}
Place(list, p, prior) == Min(Lower(list, p, prior) \cup {Len(list) + 1})

(* The place is in front of all that are lower, and behind the others.     *)
LEMMA PlaceFacts ==
  ASSUME NEW list \in Seq(Process), NEW p \in Process,
         NEW prior \in [Process -> Nat], Sorted(list, prior)
  PROVE  /\ Place(list, p, prior) \in 1 .. Len(list) + 1
         /\ \A i \in 1 .. Len(list) :
              /\ i < Place(list, p, prior) => prior[list[i]] >= prior[p]
              /\ i >= Place(list, p, prior) => prior[p] >= prior[list[i]]
<1> DEFINE n == Len(list)
           low == Lower(list, p, prior)
           k == Place(list, p, prior)
<1>1. n \in Nat /\ DOMAIN list = 1 .. n /\ \A i \in 1 .. n : list[i] \in Process
  BY LenProperties, ElementOfSeq
<1> HIDE DEF n
<1>2. low = {i \in 1 .. n : prior[list[i]] < prior[p]}
  BY <1>1 DEF Lower
<1>3. k \in low \cup {n + 1} /\ \A i \in low \cup {n + 1} : k <= i
  <2>1. low \cup {n + 1} \subseteq Nat /\ low \cup {n + 1} # {}
    BY <1>1, <1>2
  <2> HIDE DEF low
  <2>2. k = Min(low \cup {n + 1})
    BY DEF Place, low, n
  <2> QED
    BY <2>1, <2>2, MinIsElement
<1> HIDE DEF low, k
<1>4. k \in 1 .. n + 1
  BY <1>1, <1>2, <1>3
<1>5. ASSUME NEW i \in 1 .. n, i < k PROVE prior[list[i]] >= prior[p]
  <2>1. i \notin low
    BY <1>3, <1>4, <1>5
  <2>2. prior[list[i]] \in Nat /\ prior[p] \in Nat
    BY <1>1
  <2> QED
    BY <1>2, <2>1, <2>2
<1>6. ASSUME NEW i \in 1 .. n, i >= k PROVE prior[p] >= prior[list[i]]
  <2>1. k \in low /\ k \in 1 .. n
    BY <1>1, <1>2, <1>3, <1>4, <1>6
  <2>2. prior[list[k]] \in Nat /\ prior[p] \in Nat /\ prior[list[i]] \in Nat
    BY <1>1, <2>1
  <2>3. prior[list[k]] < prior[p]
    BY <1>2, <2>1
  <2>4. prior[list[k]] >= prior[list[i]]
    <3>1. CASE k = i
      BY <2>2, <3>1
    <3>2. CASE k # i
      <4>1. k < i /\ k \in DOMAIN list /\ i \in DOMAIN list
        BY <1>1, <1>4, <1>6, <2>1, <3>2
      <4> QED
        BY <4>1 DEF Sorted
    <3> QED
      BY <3>1, <3>2
  <2> QED
    BY <2>2, <2>3, <2>4
<1> QED
  BY <1>4, <1>5, <1>6 DEF k, n

(* A process put into the ready list is in it, and the list stays sorted.  *)
LEMMA InsertFacts ==
  ASSUME NEW list \in Seq(Process), NEW p \in Process,
         priority' \in [Process -> Nat], Sorted(list, priority'),
         IsInjective(list), p \notin ToSet(list)
  PROVE  /\ Insert(list, p) \in Seq(Process) /\ IsInjective(Insert(list, p))
         /\ ToSet(Insert(list, p)) = ToSet(list) \cup {p}
         /\ Sorted(Insert(list, p), priority')
<1> DEFINE n == Len(list)
           k == Place(list, p, priority')
           new == InsertAt(list, k, p)
<1>1. Insert(list, p) = new
  BY DEF Insert, Place, Lower
<1>2. n \in Nat /\ \A i \in 1 .. n : list[i] \in Process
  BY LenProperties, ElementOfSeq
<1>3. PICK prior : prior = priority'
  OBVIOUS
<1>4. /\ k \in 1 .. n + 1
      /\ \A i \in 1 .. n : /\ i < k => prior[list[i]] >= prior[p]
                           /\ i >= k => prior[p] >= prior[list[i]]
  BY <1>3, PlaceFacts
<1> HIDE DEF k
<1>5. /\ new \in Seq(Process) /\ Len(new) = n + 1
      /\ \A i \in 1 .. n + 1 : new[i] = IF i < k THEN list[i] ELSE IF i = k THEN p ELSE list[i - 1]
      /\ ToSet(new) = ToSet(list) \cup {p}
      /\ IsInjective(new)
  BY <1>4, InsertAtFacts
<1>6. DOMAIN new = 1 .. n + 1
  BY <1>5, LenProperties
<1> HIDE DEF new, n
<1>7. \A i, j \in 1 .. n : i < j => prior[list[i]] >= prior[list[j]]
  BY <1>3, LenProperties DEF Sorted, n
<1>8. \A i \in 1 .. n : prior[list[i]] \in Nat
  BY <1>2, <1>3
<1>9. ASSUME NEW i \in 1 .. n + 1, NEW j \in 1 .. n + 1, i < j
      PROVE  prior[new[i]] >= prior[new[j]]
  <2>1. /\ i < k => new[i] = list[i] /\ i \in 1 .. n
        /\ i = k => new[i] = p
        /\ i > k => new[i] = list[i - 1] /\ i - 1 \in 1 .. n
    BY <1>2, <1>4, <1>5
  <2>2. /\ j < k => new[j] = list[j] /\ j \in 1 .. n
        /\ j = k => new[j] = p
        /\ j > k => new[j] = list[j - 1] /\ j - 1 \in 1 .. n
    BY <1>2, <1>4, <1>5
  <2>3. CASE j < k
    BY <1>2, <1>4, <1>7, <1>9, <2>1, <2>2, <2>3
  <2>4. CASE j = k
    BY <1>2, <1>4, <1>9, <2>1, <2>2, <2>4
  <2>5. CASE j > k /\ i = k
    <3>1. j - 1 \in 1 .. n /\ j - 1 >= k
      BY <1>2, <1>4, <2>5
    <3> QED
      BY <1>4, <2>1, <2>2, <2>5, <3>1
  <2>6. CASE j > k /\ i < k
    <3>1. j - 1 \in 1 .. n /\ i < j - 1 /\ i \in 1 .. n
      BY <1>2, <1>4, <2>6
    <3> QED
      BY <1>7, <2>1, <2>2, <2>6, <3>1
  <2>7. CASE j > k /\ i > k
    <3>1. j - 1 \in 1 .. n /\ i - 1 < j - 1 /\ i - 1 \in 1 .. n
      BY <1>2, <1>4, <1>9, <2>7
    <3> QED
      BY <1>7, <2>1, <2>2, <2>7, <3>1
  <2> QED
    BY <1>4, <2>3, <2>4, <2>5, <2>6, <2>7
<1> QED
  BY <1>1, <1>3, <1>5, <1>6, <1>9 DEF Sorted

(* What is left of a sorted list without its head is sorted, and the head  *)
(* is none of it.                                                          *)
LEMMA TailSorted ==
  ASSUME NEW list \in Seq(Process), list # <<>>, NEW prior, Sorted(list, prior)
  PROVE  Sorted(Tail(list), prior)
<1> DEFINE n == Len(list)
           rest == Tail(list)
<1>1. n \in Nat /\ n # 0 /\ DOMAIN list = 1 .. n
  BY LenProperties, EmptySeq
<1>2. rest \in Seq(Process) /\ Len(rest) = n - 1 /\ \A i \in 1 .. n - 1 : rest[i] = list[i + 1]
  BY HeadTailProperties
<1>3. DOMAIN rest = 1 .. n - 1
  BY <1>2, LenProperties
<1> HIDE DEF rest, n
<1>4. ASSUME NEW i \in 1 .. n - 1, NEW j \in 1 .. n - 1, i < j
      PROVE  prior[rest[i]] >= prior[rest[j]]
  <2>1. i + 1 \in 1 .. n /\ j + 1 \in 1 .. n /\ i + 1 < j + 1
    BY <1>1, <1>4
  <2> QED
    BY <1>1, <1>2, <2>1 DEF Sorted
<1> QED
  BY <1>3, <1>4 DEF Sorted, rest

(* The priorities of those who are not in the list do not matter.          *)
LEMMA SortedKept ==
  ASSUME NEW list \in Seq(Process), NEW prior, NEW other, Sorted(list, prior),
         \A p \in ToSet(list) : other[p] = prior[p]
  PROVE  Sorted(list, other)
BY DEF Sorted, ToSet

-----------------------------------------------------------------------------
(* PriorityScheduler::Run, when nobody has the processor.                  *)
LEMMA RunFirstFacts ==
  ASSUME NEW list, NEW stat \in [Process -> Status], NEW prior,
         ReadyAre(list, stat), Sorted(list, prior),
         \A p \in Process : stat[p] # "running",
         RunFirst(list, stat)
  PROVE  /\ ReadyAre(readyList', status') /\ Sorted(readyList', prior)
         /\ status' \in [Process -> Status]
         /\ current' \in Process \cup {NoProcess}
         /\ list = <<>> <=> current' = NoProcess
         /\ \A p \in Process : status'[p] = "running" <=> p = current'
         /\ \A p \in Process : \/ status'[p] = stat[p]
                               \/ stat[p] = "ready" /\ status'[p] = "running"
<1>1. /\ list \in Seq(Process) /\ IsInjective(list)
      /\ \A p \in Process : p \in ToSet(list) <=> stat[p] = "ready"
  BY DEF ReadyAre
<1>2. CASE list = <<>> /\ current' = NoProcess /\ readyList' = list /\ status' = stat
  BY <1>2, Pids DEF ReadyAre
<1>3. CASE /\ list # <<>> /\ current' = Head(list) /\ readyList' = Tail(list)
           /\ status' = [stat EXCEPT ![Head(list)] = "running"]
  <2>1. PICK h : h = Head(list)
    OBVIOUS
  <2>2. PICK rest : rest = Tail(list)
    OBVIOUS
  <2>3. /\ h \in Process /\ rest \in Seq(Process) /\ IsInjective(rest)
        /\ ToSet(list) = ToSet(rest) \cup {h} /\ h \notin ToSet(rest)
    BY <1>1, <1>3, <2>1, <2>2, TailSet
  <2>4. Sorted(rest, prior)
    BY <1>1, <1>3, <2>2, TailSorted
  <2>5. /\ current' = h /\ readyList' = rest
        /\ status' = [stat EXCEPT ![h] = "running"]
    BY <1>3, <2>1, <2>2
  <2>6. /\ status' \in [Process -> Status] /\ status'[h] = "running"
        /\ \A p \in Process \ {h} : status'[p] = stat[p]
    BY <2>3, <2>5 DEF Status
  <2>7. ReadyAre(rest, status')
    BY <1>1, <2>3, <2>6 DEF ReadyAre
  <2>8. h # NoProcess /\ stat[h] = "ready"
    BY <1>1, <2>3, Pids
  <2> QED
    BY <1>3, <2>3, <2>4, <2>5, <2>6, <2>7, <2>8
<1> QED
  BY <1>2, <1>3 DEF RunFirst
-----------------------------------------------------------------------------
(* The step makes no process and deletes none.                             *)
KeepsLives ==
  \A p \in Process : /\ status'[p] = "unused" <=> status[p] = "unused"
                     /\ status'[p] = "deleted" <=> status[p] = "deleted"

LEMMA LivesKept ==
  ASSUME KeepsLives
  PROVE  Live' = Live
BY DEF KeepsLives, Live

(* Everything that exists and is not deleted is in one of four states.     *)
LEMMA LiveIs ==
  ASSUME NEW p \in Process
  PROVE  p \in Live <=> status[p] # "unused" /\ status[p] # "deleted"
BY DEF Live

(* Process p, which acts, is the only one that runs, and nobody waits for  *)
(* deletion.                                                               *)
LEMMA ActsFacts ==
  ASSUME Sound, NEW p \in Process, Acts(p)
  PROVE  /\ status[p] = "running" /\ p \in Live /\ p \notin ToSet(readyList)
         /\ current = p /\ toBeDestroyed = NoProcess
         /\ \A q \in Process : status[q] # "blocked" /\ (status[q] = "running" <=> q = p)
         /\ status \in [Process -> Status]
         /\ ReadyAre(readyList, status) /\ Sorted(readyList, priority)
         /\ readyList \in Seq(Process) /\ IsInjective(readyList)
<1>1. status[p] = "running" /\ current = p /\ toBeDestroyed = NoProcess
  BY DEF Acts, Sound, Placed
<1>2. \A q \in Process : status[q] # "blocked" /\ (status[q] = "running" <=> q = p)
  BY <1>1, Pids DEF Sound, Placed
<1>3. ReadyAre(readyList, status) /\ Sorted(readyList, priority)
  BY DEF Sound, Placed
<1> QED
  BY <1>1, <1>2, <1>3 DEF Live, ReadyAre, Sound, TypeOK, Status

(* The tree stays as it is as long as nobody comes or goes.                *)
LEMMA TreeKept ==
  ASSUME Tree, KeepsLives, UNCHANGED <<parent, children>>,
         \A p \in Process : p \in leaving' => p \in leaving \/ status[p] # "unused"
  PROVE  Tree'
<1>1. Live' = Live
  BY LivesKept
<1>2. \A p \in Process : status'[p] = "unused" <=> status[p] = "unused"
  BY DEF KeepsLives
<1> QED
  BY <1>1, <1>2 DEF Tree

(* Nor does anybody lose a living parent, unless a process stops to wait   *)
(* or begins to leave.                                                     *)
LEMMA DanglesKept ==
  ASSUME Sound, KeepsLives, UNCHANGED <<parent, toBeDestroyed>>, leaving' \subseteq Process,
         \A p \in Process : p \in leaving' =>
           status'[p] = "joined" \/ (p \in leaving /\ status[p] # "joined")
  PROVE  NobodyDangles => NobodyDangles'
<1>1. Live' = Live
  BY LivesKept
<1>2. \A q \in Live : parent[q] \in Process \cup {NoProcess}
  BY DEF Sound, TypeOK, Live
<1>3. ASSUME NobodyDangles, NEW q \in Live, parent[q] # NoProcess,
             parent[q] \in leaving', status'[parent[q]] # "joined"
      PROVE  q = toBeDestroyed
  BY <1>2, <1>3 DEF NobodyDangles
<1>4. NoProcess \notin leaving'
  BY Pids
<1> QED
  BY <1>1, <1>2, <1>3, <1>4 DEF NobodyDangles
-----------------------------------------------------------------------------
(* A step is safe when it keeps all that was said, or shows what went      *)
(* wrong.                                                                  *)
LEMMA JoinStep ==
  ASSUME Sound, NEW p \in Process, NEW q \in Process, Join(p, q)
  PROVE  Sound'
<1>1. /\ Acts(p) /\ p \notin leaving /\ q \in Live \ needJoin
      /\ needJoin' = needJoin \cup {q}
      /\ UNCHANGED <<current, readyList, toBeDestroyed, status, priority, parent, children,
                     leaving, crashed, lateClone>>
  BY DEF Join, tree
<1>2. TypeOK' /\ Placed' /\ KeepsLives /\ ~ crashed'
  BY <1>1 DEF Sound, TypeOK, Placed, ReadyAre, Sorted, KeepsLives
<1>3. Tree'
  BY <1>1, <1>2, TreeKept DEF Sound
<1>4. Live' = Live
  BY <1>2, LivesKept
<1>5. Joining'
  BY <1>1, <1>4 DEF Sound, Joining
<1>6. NobodyDangles => NobodyDangles'
  BY <1>1, <1>4 DEF NobodyDangles
<1>7. InitHasLeft => InitHasLeft'
  <2>1. InitHasLeft => q # InitProc
    BY <1>1, ActsFacts, Pids DEF Sound, Joining, InitHasLeft, Live
  <2> QED
    BY <1>1, <2>1 DEF InitHasLeft
<1> QED
  BY <1>1, <1>2, <1>3, <1>5, <1>6, <1>7 DEF Sound

LEMMA YieldStep ==
  ASSUME Sound, NEW p \in Process, Yield(p)
  PROVE  Sound'
<1> DEFINE first == Head(readyList)
           rest == Tail(readyList)
<1>1. /\ Acts(p) /\ p \notin leaving /\ readyList # <<>>
      /\ current' = first /\ readyList' = Insert(rest, p)
      /\ status' = [status EXCEPT ![p] = "ready", ![first] = "running"]
      /\ UNCHANGED <<toBeDestroyed, priority, needJoin, parent, children, leaving,
                     crashed, lateClone>>
  BY DEF Yield, tree
<1>2. /\ status[p] = "running" /\ p \notin ToSet(readyList) /\ toBeDestroyed = NoProcess
      /\ \A q \in Process : status[q] # "blocked" /\ (status[q] = "running" <=> q = p)
      /\ status \in [Process -> Status]
      /\ ReadyAre(readyList, status) /\ Sorted(readyList, priority)
      /\ readyList \in Seq(Process) /\ IsInjective(readyList)
  BY <1>1, ActsFacts
<1>3. /\ first \in Process /\ rest \in Seq(Process) /\ IsInjective(rest)
      /\ ToSet(readyList) = ToSet(rest) \cup {first} /\ first \notin ToSet(rest)
      /\ first \in ToSet(readyList)
  BY <1>1, <1>2, TailSet
<1>4. Sorted(rest, priority)
  BY <1>1, <1>2, TailSorted
<1>5. priority' \in [Process -> Nat] /\ Sorted(rest, priority')
  BY <1>1, <1>4, Priorities DEF Sound, TypeOK
<1> HIDE DEF first, rest
<1>6. p # first /\ p \notin ToSet(rest)
  BY <1>2, <1>3
<1>7. /\ readyList' \in Seq(Process) /\ IsInjective(readyList')
      /\ ToSet(readyList') = ToSet(rest) \cup {p} /\ Sorted(readyList', priority')
  BY <1>1, <1>3, <1>5, <1>6, InsertFacts
<1>8. /\ status' \in [Process -> Status]
      /\ status'[p] = "ready" /\ status'[first] = "running"
      /\ \A q \in Process \ {p, first} : status'[q] = status[q]
  BY <1>1, <1>2, <1>3, <1>6 DEF Status
<1>9. status[first] = "ready" /\ \A q \in Process : q \in ToSet(readyList) <=> status[q] = "ready"
  BY <1>2, <1>3 DEF ReadyAre
<1>10. ReadyAre(readyList', status')
  BY <1>3, <1>6, <1>7, <1>8, <1>9 DEF ReadyAre
<1>11. TypeOK' /\ ~ crashed'
  BY <1>1, <1>3, <1>7, <1>8 DEF Sound, TypeOK, Status
<1>12. Placed'
  <2>1. \A q \in Process : status'[q] = "running" <=> q = current'
    BY <1>1, <1>2, <1>3, <1>6, <1>8
  <2>2. \A q \in Process : status'[q] # "blocked"
    BY <1>2, <1>8
  <2> QED
    BY <1>1, <1>2, <1>7, <1>10, <2>1, <2>2 DEF Placed
<1>13. KeepsLives
  BY <1>2, <1>8, <1>9 DEF KeepsLives
<1>14. Tree'
  BY <1>1, <1>13, TreeKept DEF Sound
<1>15. Live' = Live
  BY <1>13, LivesKept
<1>16. \A q \in Process : status'[q] = "joined" <=> status[q] = "joined"
  BY <1>2, <1>8, <1>9
<1>17. Joining'
  <2>1. \A q \in leaving \ needJoin : q # first /\ q # p
    BY <1>1, <1>9 DEF Sound, Joining
  <2>2. leaving \subseteq Process
    BY DEF Sound, TypeOK
  <2> QED
    BY <1>1, <1>8, <1>15, <1>16, <2>1, <2>2 DEF Sound, Joining
<1>18. NobodyDangles => NobodyDangles'
  <2>1. \A q \in Process : q \in leaving' =>
          status'[q] = "joined" \/ (q \in leaving /\ status[q] # "joined")
    BY <1>1, <1>16
  <2>2. leaving' \subseteq Process
    BY <1>1 DEF Sound, TypeOK
  <2> QED
    BY <1>1, <1>13, <2>1, <2>2, DanglesKept
<1> QED
  BY <1>1, <1>11, <1>12, <1>14, <1>17, <1>18 DEF Sound, InitHasLeft

LEMMA TerminateJoinedStep ==
  ASSUME Sound, NEW p \in Process, TerminateJoined(p)
  PROVE  Sound'
<1>1. PICK stat : stat = [status EXCEPT ![p] = "joined"]
  OBVIOUS
<1>2. /\ Acts(p) /\ p \notin leaving /\ p \in needJoin /\ children[p] # <<>>
      /\ leaving' = leaving \cup {p}
      /\ RunFirst(readyList, stat)
      /\ UNCHANGED <<toBeDestroyed, priority, needJoin, parent, children, crashed, lateClone>>
  BY <1>1 DEF TerminateJoined, tree
<1>3. /\ status[p] = "running" /\ p \in Live /\ toBeDestroyed = NoProcess
      /\ \A q \in Process : status[q] # "blocked" /\ (status[q] = "running" <=> q = p)
      /\ status \in [Process -> Status]
      /\ ReadyAre(readyList, status) /\ Sorted(readyList, priority)
  BY <1>2, ActsFacts
<1>4. /\ stat \in [Process -> Status] /\ stat[p] = "joined"
      /\ \A q \in Process \ {p} : stat[q] = status[q]
  BY <1>1, <1>3 DEF Status
<1>5. ReadyAre(readyList, stat) /\ \A q \in Process : stat[q] # "running"
  BY <1>3, <1>4 DEF ReadyAre
<1>6. /\ ReadyAre(readyList', status') /\ Sorted(readyList', priority)
      /\ status' \in [Process -> Status] /\ current' \in Process \cup {NoProcess}
      /\ \A q \in Process : status'[q] = "running" <=> q = current'
      /\ \A q \in Process : \/ status'[q] = stat[q]
                            \/ stat[q] = "ready" /\ status'[q] = "running"
  BY <1>2, <1>3, <1>4, <1>5, RunFirstFacts
<1>7. status'[p] = "joined" /\ \A q \in Process \ {p} :
         \/ status'[q] = status[q]
         \/ status[q] = "ready" /\ status'[q] = "running"
  BY <1>4, <1>6
<1>8. TypeOK' /\ ~ crashed'
  BY <1>2, <1>6 DEF Sound, TypeOK, Status, ReadyAre
<1>9. Placed'
  <2>1. \A q \in Process : status'[q] # "blocked"
    BY <1>3, <1>7
  <2> QED
    BY <1>2, <1>3, <1>6, <2>1 DEF Placed
<1>10. KeepsLives
  BY <1>3, <1>7 DEF KeepsLives
<1>11. Tree'
  BY <1>2, <1>3, <1>10, TreeKept DEF Sound
<1>12. Live' = Live
  BY <1>10, LivesKept
<1>13. Joining'
  <2>1. \E q \in Live : parent[q] = p
    <3>1. children[p] \in Seq(Process)
      BY DEF Sound, TypeOK
    <3>2. PICK q \in Process : q \in ToSet(children[p])
      BY <1>2, <3>1, SeqFacts
    <3> QED
      BY <1>3, <3>2 DEF Sound, Tree
  <2>2. \A q \in Live : q # toBeDestroyed
    BY <1>3, Pids DEF Live
  <2>3. \A r \in Process \ {p} : status'[r] = "joined" => status[r] = "joined"
    BY <1>7
  <2>4. ASSUME NEW r \in Process, status'[r] = "joined"
        PROVE  r \in needJoin' \cap leaving' /\ \E q \in Live' \ {toBeDestroyed'} : parent'[q] = r
    <3>1. CASE r = p
      BY <1>2, <1>12, <2>1, <2>2, <3>1
    <3>2. CASE r # p
      BY <1>2, <1>12, <2>3, <2>4, <3>2 DEF Sound, Joining
    <3> QED
      BY <3>1, <3>2
  <2>5. ASSUME NEW r \in leaving' \ needJoin'
        PROVE  status'[r] \in {"running", "blocked", "deleted"}
    <3>1. r \in leaving \ needJoin /\ r # p /\ r \in Process
      BY <1>2, <2>5 DEF Sound, TypeOK
    <3>2. status[r] \in {"running", "blocked", "deleted"}
      BY <3>1 DEF Sound, Joining
    <3> QED
      BY <1>7, <3>1, <3>2
  <2> QED
    BY <2>4, <2>5 DEF Joining
<1>14. NobodyDangles => NobodyDangles'
  <2>1. \A q \in Process : q \in leaving' =>
          status'[q] = "joined" \/ (q \in leaving /\ status[q] # "joined")
    BY <1>2, <1>7
  <2>2. leaving' \subseteq Process
    BY <1>2 DEF Sound, TypeOK
  <2> QED
    BY <1>2, <1>10, <2>1, <2>2, DanglesKept
<1> QED
  BY <1>2, <1>8, <1>9, <1>11, <1>13, <1>14 DEF Sound, InitHasLeft
-----------------------------------------------------------------------------
(* The lowest pid that is not in use is above all that are.                *)
LEMMA NextPid ==
  ASSUME Tree, NEW q \in Process, IsNextPid(q)
  PROVE  /\ status[q] = "unused" /\ q \notin Live
         /\ \A p \in Process : status[p] = "unused" => q <= p
         /\ \A p \in Process : status[p] # "unused" => p < q
<1>1. Unused # {} /\ Unused \subseteq Nat /\ q = Min(Unused)
  BY Pids DEF IsNextPid, Unused
<1>2. q \in Unused /\ \A p \in Unused : q <= p
  BY <1>1, MinIsElement
<1>3. status[q] = "unused" /\ q \notin Live
  BY <1>2 DEF Unused, Live
<1>4. \A p \in Process : q < p => status[p] = "unused"
  BY <1>3 DEF Tree
<1>5. \A p \in Process : p \in Nat /\ q \in Nat
  BY Pids
<1> QED
  BY <1>2, <1>3, <1>4, <1>5 DEF Unused

(* A new process q under a living one: what Fork and Clone share.  Its     *)
(* parent is not about to end, unless late says so.                        *)
LEMMA AdoptStep ==
  ASSUME Sound, NEW p \in Process, Acts(p), NEW q \in Process, NEW par \in Live,
         NEW n \in Priority, IsNextPid(q),
         priority' = [priority EXCEPT ![q] = n],
         UNCHANGED <<current, toBeDestroyed, needJoin, leaving, crashed>>,
         lateClone' \in BOOLEAN, lateClone => lateClone',
         par \in leaving => lateClone',
         Adopt(q, par)
  PROVE  Sound'
<1>1. /\ status[q] = "unused" /\ q \notin Live
      /\ \A r \in Process : status[r] = "unused" => q <= r
      /\ \A r \in Process : status[r] # "unused" => r < q
  BY NextPid DEF Sound
<1>2. /\ status[p] = "running" /\ current = p /\ toBeDestroyed = NoProcess
      /\ \A r \in Process : status[r] # "blocked" /\ (status[r] = "running" <=> r = p)
      /\ status \in [Process -> Status]
      /\ ReadyAre(readyList, status) /\ Sorted(readyList, priority)
      /\ readyList \in Seq(Process) /\ IsInjective(readyList)
  BY ActsFacts
<1>3. par \in Process /\ par # q /\ par < q /\ status[par] # "unused"
  BY <1>1 DEF Live
<1>4. /\ parent' = [parent EXCEPT ![q] = par]
      /\ children' = [children EXCEPT ![par] = Append(@, q)]
      /\ readyList' = Insert(readyList, q)
      /\ status' = [status EXCEPT ![q] = "ready"]
  BY DEF Adopt
<1>5. /\ parent' \in [Process -> Process \cup {NoProcess}] /\ parent'[q] = par
      /\ \A r \in Process \ {q} : parent'[r] = parent[r]
  BY <1>3, <1>4 DEF Sound, TypeOK
<1>6. /\ status' \in [Process -> Status] /\ status'[q] = "ready"
      /\ \A r \in Process \ {q} : status'[r] = status[r]
  BY <1>2, <1>4 DEF Status
<1>7. /\ priority' \in [Process -> Priority \cup {0}]
      /\ \A r \in Process \ {q} : priority'[r] = priority[r]
  BY DEF Sound, TypeOK
<1>8. q \notin ToSet(readyList)
  BY <1>1, <1>2 DEF ReadyAre
<1>9. /\ readyList' \in Seq(Process) /\ IsInjective(readyList')
      /\ ToSet(readyList') = ToSet(readyList) \cup {q} /\ Sorted(readyList', priority')
  <2>1. priority' \in [Process -> Nat]
    BY <1>7, Priorities
  <2>2. ToSet(readyList) \subseteq Process
    BY <1>2, SeqFacts
  <2>3. Sorted(readyList, priority')
    BY <1>2, <1>7, <1>8, <2>2, SortedKept
  <2> QED
    BY <1>2, <1>4, <1>8, <2>1, <2>3, InsertFacts
<1>10. /\ children[par] \in Seq(Process) /\ children[q] = <<>>
       /\ IsInjective(children[par]) /\ q \notin ToSet(children[par])
  BY <1>1, <1>3 DEF Sound, TypeOK, Tree
<1>11. /\ children'[par] \in Seq(Process)
       /\ ToSet(children'[par]) = ToSet(children[par]) \cup {q}
       /\ IsInjective(children'[par])
       /\ \A r \in Process \ {par} : children'[r] = children[r]
       /\ children' \in [Process -> Seq(Process)]
  <2>1. PICK more : more = Append(children[par], q)
    OBVIOUS
  <2>2. /\ more \in Seq(Process) /\ ToSet(more) = ToSet(children[par]) \cup {q}
        /\ IsInjective(more)
    BY <1>10, <2>1, AppendSet
  <2>3. children' = [children EXCEPT ![par] = more] /\ children \in [Process -> Seq(Process)]
    BY <1>4, <2>1 DEF Sound, TypeOK
  <2> QED
    BY <1>3, <2>2, <2>3
<1>12. TypeOK' /\ ~ crashed'
  BY <1>5, <1>6, <1>7, <1>9, <1>11 DEF Sound, TypeOK, Status
<1>13. Live' = Live \cup {q}
  BY <1>1, <1>6 DEF Live
<1>14. Placed'
  <2>1. ReadyAre(readyList', status')
    BY <1>2, <1>6, <1>9 DEF ReadyAre
  <2>2. \A r \in Process : /\ status'[r] = "running" <=> r = current'
                           /\ status'[r] # "blocked"
    BY <1>1, <1>2, <1>6
  <2>3. toBeDestroyed' = NoProcess
    BY <1>2
  <2> QED
    BY <1>9, <2>1, <2>2, <2>3 DEF Placed
<1>15. Tree'
  <2>1. ASSUME NEW r \in Process, NEW s \in Process, r < s, status'[r] = "unused"
        PROVE  status'[s] = "unused"
    <3>1. r # q /\ status[r] = "unused"
      BY <1>6, <2>1
    <3>2. status[s] = "unused"
      BY <2>1, <3>1 DEF Sound, Tree
    <3>3. q <= r /\ r \in Nat /\ s \in Nat /\ q \in Nat
      BY <1>1, <3>1, Pids
    <3>4. s # q
      BY <2>1, <3>3
    <3> QED
      BY <1>6, <3>2, <3>4
  <2>2. \A r \in Process : status'[r] = "unused" => children'[r] = <<>> /\ r \notin leaving'
    <3>1. \A r \in Process : status'[r] = "unused" => r # q /\ r # par /\ status[r] = "unused"
      BY <1>3, <1>6
    <3> QED
      BY <1>11, <3>1 DEF Sound, Tree
  <2>3. \A r \in Process : parent'[r] < r
    BY <1>3, <1>5 DEF Sound, Tree
  <2>4. \A r \in Live' : parent'[r] = NoProcess => r = InitProc
    BY <1>3, <1>5, <1>13, Pids DEF Sound, Tree, Live
  <2>5. \A r \in Live' : IsInjective(children'[r])
    <3>1. IsInjective(children'[q])
      BY <1>3, <1>10, <1>11 DEF IsInjective
    <3>2. \A r \in Live : r \in Process
      BY DEF Live
    <3> QED
      BY <1>11, <1>13, <3>1, <3>2 DEF Sound, Tree
  <2>6. ASSUME NEW r \in Live', NEW s \in Process
        PROVE  s \in ToSet(children'[r]) <=> s \in Live' /\ parent'[s] = r
    <3>1. r \in Process /\ (s \in Live => s \in Process)
      BY DEF Live
    <3>2. CASE r = q
      <4>1. children'[r] = <<>>
        BY <1>3, <1>10, <1>11, <3>2
      <4>2. s \notin ToSet(children'[r])
        BY <4>1, NoElements
      <4>3. ~ (s \in Live' /\ parent'[s] = r)
        <5> SUFFICES ASSUME s \in Live', parent'[s] = q PROVE FALSE
          BY <3>2
        <5>1. s # q /\ parent[s] = q /\ s \in Live
          BY <1>3, <1>5, <1>13
        <5>2. q < s /\ status[s] # "unused"
          BY <5>1 DEF Sound, Tree, Live
        <5>3. s < q
          BY <1>1, <5>2
        <5> QED
          BY <5>2, <5>3, Pids
      <4> QED
        BY <4>2, <4>3
    <3>3. CASE r # q /\ r # par
      <4>1. r \in Live /\ children'[r] = children[r]
        BY <1>11, <1>13, <3>1, <3>3
      <4>2. s \in ToSet(children[r]) <=> s \in Live /\ parent[s] = r
        BY <4>1 DEF Sound, Tree
      <4>3. CASE s = q
        BY <1>1, <1>5, <3>3, <4>1, <4>2, <4>3
      <4>4. CASE s # q
        BY <1>5, <1>13, <4>1, <4>2, <4>4
      <4> QED
        BY <4>3, <4>4
    <3>4. CASE r = par
      BY <1>3, <1>5, <1>11, <1>13, <3>1, <3>4 DEF Sound, Tree
    <3> QED
      BY <3>2, <3>3, <3>4
  <2> QED
    BY <2>1, <2>2, <2>3, <2>4, <2>5, <2>6 DEF Tree
<1>16. Joining'
  <2>1. \A r \in Process : status'[r] = "joined" => status[r] = "joined"
    BY <1>6
  <2>2. \A r \in Live : r # q /\ r \in Process
    BY <1>1 DEF Live
  <2>3. ASSUME NEW r \in Process, status'[r] = "joined"
        PROVE  r \in needJoin' \cap leaving' /\ \E s \in Live' \ {toBeDestroyed'} : parent'[s] = r
    <3>1. r \in needJoin \cap leaving
      BY <2>1, <2>3 DEF Sound, Joining
    <3>2. PICK s \in Live \ {toBeDestroyed} : parent[s] = r
      BY <2>1, <2>3 DEF Sound, Joining
    <3>3. s \in Live' /\ parent'[s] = r
      BY <1>5, <1>13, <2>2, <3>2
    <3> QED
      BY <3>1, <3>2, <3>3
  <2>4. \A r \in leaving' \ needJoin' : status'[r] \in {"running", "blocked", "deleted"}
    <3>1. leaving \subseteq Process /\ q \notin leaving
      BY <1>1 DEF Sound, TypeOK, Tree
    <3> QED
      BY <1>6, <3>1 DEF Sound, Joining
  <2> QED
    BY <2>3, <2>4 DEF Joining
<1>17. NobodyDangles => lateClone' \/ NobodyDangles'
  <2> SUFFICES ASSUME NobodyDangles, ~ lateClone' PROVE NobodyDangles'
    OBVIOUS
  <2>1. par \notin leaving
    OBVIOUS
  <2>2. \A r \in Live : r # q /\ r \in Process
    BY <1>1 DEF Live
  <2>3. \A r \in Live : parent'[r] = parent[r] /\ (parent[r] # NoProcess => parent[r] \in Live)
    BY <1>5, <2>2 DEF NobodyDangles
  <2>4. \A r \in Live : status'[r] = status[r]
    BY <1>6, <2>2
  <2>5. ASSUME NEW r \in Live' PROVE parent'[r] # NoProcess => parent'[r] \in Live'
    BY <1>5, <1>13, <2>3
  <2>6. ASSUME NEW r \in Live', parent'[r] \in leaving', status'[parent'[r]] # "joined"
        PROVE  r = toBeDestroyed'
    <3>1. r # q
      BY <1>5, <2>1, <2>6
    <3>2. r \in Live /\ parent'[r] = parent[r] /\ parent[r] \in leaving
      BY <1>13, <2>3, <2>6, <3>1
    <3>3. parent[r] \in Live
      BY <2>3, <3>2, Pids DEF Sound, TypeOK
    <3> QED
      BY <2>4, <2>6, <3>2, <3>3 DEF NobodyDangles
  <2> QED
    BY <2>5, <2>6 DEF NobodyDangles
<1> QED
  BY <1>12, <1>14, <1>15, <1>16, <1>17 DEF Sound, InitHasLeft

LEMMA ForkStep ==
  ASSUME Sound, NEW p \in Process, NEW q \in Process, NEW n \in Priority, Fork(p, q, n)
  PROVE  Sound'
<1>1. /\ Acts(p) /\ p \notin leaving /\ IsNextPid(q)
      /\ priority' = [priority EXCEPT ![q] = n] /\ Adopt(q, p)
      /\ UNCHANGED <<current, toBeDestroyed, needJoin, leaving, crashed, lateClone>>
  BY DEF Fork
<1>2. p \in Live
  BY <1>1, ActsFacts
<1>3. lateClone' \in BOOLEAN /\ (lateClone => lateClone')
  BY <1>1 DEF Sound, TypeOK
<1> QED
  BY <1>1, <1>2, <1>3, AdoptStep

LEMMA CloneStep ==
  ASSUME Sound, NEW p \in Process, NEW q \in Process, NEW r \in Process,
         CloneToOwnChild(p, q, r)
  PROVE  Sound'
<1>1. PICK n : n = priority[q]
  OBVIOUS
<1>2. /\ Acts(p) /\ q \in Live /\ n # 0 /\ IsNextPid(r)
      /\ priority' = [priority EXCEPT ![r] = n] /\ Adopt(r, q)
      /\ lateClone' = (lateClone \/ q \in leaving)
      /\ UNCHANGED <<current, toBeDestroyed, needJoin, leaving, crashed>>
  BY <1>1 DEF CloneToOwnChild
<1>3. n \in Priority
  BY <1>1, <1>2 DEF Sound, TypeOK
<1>4. lateClone' \in BOOLEAN /\ (lateClone => lateClone') /\ (q \in leaving => lateClone')
  BY <1>2 DEF Sound, TypeOK
<1> QED
  BY <1>2, <1>3, <1>4, AdoptStep
-----------------------------------------------------------------------------
(* Children that are handed to the parent of p, their list behind its own. *)
LEMMA HandOver ==
  ASSUME Sound, NEW p \in Live, NEW par \in Live, par = parent[p],
         NEW both, both = children[par] \o children[p],
         UNCHANGED status, leaving' = leaving \cup {p},
         parent' \in [Process -> Process \cup {NoProcess}],
         \A q \in Process : /\ q \in ToSet(children[p]) => parent'[q] = par
                            /\ q \notin ToSet(children[p]) => parent'[q] = parent[q],
         children' = WithTwo(children, p, <<>>, par, both)
  PROVE  /\ Tree'
         /\ children' \in [Process -> Seq(Process)]
<1>1. /\ p \in Process /\ par \in Process /\ par < p /\ par # p
      /\ status[p] # "unused" /\ status[par] # "unused"
  BY Pids DEF Live, Sound, Tree
<1>2. /\ children \in [Process -> Seq(Process)]
      /\ parent \in [Process -> Process \cup {NoProcess}] /\ leaving \subseteq Process
  BY DEF Sound, TypeOK
<1>4. /\ children[par] \in Seq(Process) /\ children[p] \in Seq(Process)
      /\ IsInjective(children[par]) /\ IsInjective(children[p])
      /\ \A q \in Process : /\ q \in ToSet(children[par]) <=> q \in Live /\ parent[q] = par
                            /\ q \in ToSet(children[p]) <=> q \in Live /\ parent[q] = p
  BY <1>1, <1>2 DEF Sound, Tree
<1>5. ToSet(children[par]) \subseteq Process /\ ToSet(children[p]) \subseteq Process
  BY <1>4, SeqFacts
<1>6. /\ both \in Seq(Process) /\ ToSet(both) = ToSet(children[par]) \cup ToSet(children[p])
      /\ IsInjective(both)
  <2>1. ToSet(children[par]) \cap ToSet(children[p]) = {}
    BY <1>1, <1>4, <1>5
  <2> QED
    BY <1>4, <2>1, ConcatSet, ConcatInjective
<1>7. /\ children' \in [Process -> Seq(Process)]
      /\ children'[p] = <<>> /\ children'[par] = both
      /\ \A q \in Process \ {p, par} : children'[q] = children[q]
  <2>1. <<>> \in Seq(Process)
    OBVIOUS
  <2>2. PICK none \in Seq(Process) : none = <<>>
    BY <2>1, Zenon
  <2>3. children' = WithTwo(children, p, none, par, both)
    BY <2>2
  <2>4. PICK lists : lists = Seq(Process)
    OBVIOUS
  <2>5. none \in lists /\ both \in lists /\ children \in [Process -> lists] /\ p # par
    BY <1>1, <1>2, <1>6, <2>2, <2>4
  <2>6. /\ WithTwo(children, p, none, par, both) \in [Process -> lists]
        /\ HasTwo(WithTwo(children, p, none, par, both), Process, children, p, none, par, both)
    BY <1>1, <2>5, TwoUpdates
  <2>7. /\ children' \in [Process -> Seq(Process)]
        /\ HasTwo(children', Process, children, p, none, par, both)
    BY <2>3, <2>4, <2>6
  <2> QED
    BY <2>2, <2>7 DEF HasTwo
<1>8. /\ parent' \in [Process -> Process \cup {NoProcess}]
      /\ \A q \in Process : /\ q \in ToSet(children[p]) => parent'[q] = par
                            /\ q \notin ToSet(children[p]) => parent'[q] = parent[q]
  OBVIOUS
<1>9. Live' = Live /\ Live \subseteq Process
  BY DEF Live
<1>10. Tree'
  <2>1. \A q, r \in Process : q < r /\ status'[q] = "unused" => status'[r] = "unused"
    BY DEF Sound, Tree
  <2>2. \A q \in Process : status'[q] = "unused" => children'[q] = <<>> /\ q \notin leaving'
    BY <1>1, <1>7 DEF Sound, Tree
  <2>3. ASSUME NEW q \in Process PROVE parent'[q] < q
    <3>1. CASE q \in ToSet(children[p])
      <4>1. parent[q] = p /\ parent'[q] = par /\ parent[q] < q
        BY <1>4, <1>8, <3>1 DEF Sound, Tree
      <4>2. p < q
        BY <4>1
      <4>3. p \in Nat /\ par \in Nat /\ q \in Nat
        BY <1>1, Pids
      <4>4. par < q
        BY <1>1, <4>2, <4>3
      <4> QED
        BY <4>1, <4>4
    <3>2. CASE q \notin ToSet(children[p])
      BY <1>8, <3>2 DEF Sound, Tree
    <3> QED
      BY <3>1, <3>2
  <2>4. \A q \in Live : parent'[q] = NoProcess => q = InitProc
    BY <1>1, <1>8, <1>9, Pids DEF Sound, Tree
  <2>5. ASSUME NEW q \in Live PROVE IsInjective(children'[q])
    <3>1. CASE q = p
      BY <1>7, <3>1 DEF IsInjective
    <3>2. CASE q = par
      BY <1>6, <1>7, <3>2
    <3>3. CASE q # p /\ q # par
      BY <1>7, <1>9, <3>3 DEF Sound, Tree
    <3> QED
      BY <3>1, <3>2, <3>3
  <2>6. ASSUME NEW q \in Live, NEW r \in Process
        PROVE  r \in ToSet(children'[q]) <=> r \in Live /\ parent'[r] = q
    <3>1. CASE q = p
      <4>1. r \notin ToSet(children'[q])
        BY <1>7, <3>1, NoElements
      <4>2. ~ (r \in Live /\ parent'[r] = p)
        BY <1>1, <1>4, <1>8
      <4> QED
        BY <3>1, <4>1, <4>2
    <3>2. CASE q = par
      BY <1>1, <1>4, <1>6, <1>7, <1>8, <3>2
    <3>3. CASE q # p /\ q # par
      <4>1. children'[q] = children[q] /\ q \in Process
        BY <1>7, <1>9, <3>3
      <4>2. r \in ToSet(children[q]) <=> r \in Live /\ parent[r] = q
        BY DEF Sound, Tree
      <4> QED
        BY <1>4, <1>8, <3>3, <4>1, <4>2
    <3> QED
      BY <3>1, <3>2, <3>3
  <2> QED
    BY <1>9, <2>1, <2>2, <2>3, <2>4, <2>5, <2>6 DEF Tree
<1> QED
  BY <1>7, <1>10

LEMMA TerminateStep ==
  ASSUME Sound, NEW p \in Process, Terminate(p)
  PROVE  Sound' \/ Wrong'
<1>1. /\ Acts(p) /\ p \notin leaving /\ (p \in needJoin => children[p] = <<>>)
      /\ leaving' = leaving \cup {p}
      /\ UNCHANGED <<current, readyList, toBeDestroyed, status, priority, needJoin, lateClone>>
  BY DEF Terminate
<1>2. status[p] = "running" /\ p \in Live /\ toBeDestroyed = NoProcess
  BY <1>1, ActsFacts
<1>3. KeepsLives /\ Live' = Live /\ Live \subseteq Process
  BY <1>1 DEF KeepsLives, Live
<1>4. Placed'
  BY <1>1 DEF Sound, Placed, ReadyAre, Sorted
<1>5. InitHasLeft => InitHasLeft'
  BY <1>1 DEF InitHasLeft
<1>6. parent[p] \in Process \cup {NoProcess} /\ parent[p] # p /\ NoProcess \notin Process
  BY Pids DEF Sound, TypeOK, Tree
<1>7. leaving' \subseteq Process
  BY <1>1 DEF Sound, TypeOK
<1>8. \A r \in leaving' \ needJoin' : status'[r] \in {"running", "blocked", "deleted"}
  BY <1>1, <1>2 DEF Sound, Joining
<1>9. CASE (parent[p] = NoProcess \/ children[p] = <<>>) /\ UNCHANGED <<tree, crashed>>
  <2>1. UNCHANGED <<parent, children, crashed>>
    BY <1>9 DEF tree
  <2>2. TypeOK' /\ ~ crashed'
    BY <1>1, <2>1 DEF Sound, TypeOK
  <2>3. Tree'
    BY <1>1, <1>2, <1>3, <2>1, TreeKept DEF Sound
  <2>4. Joining'
    BY <1>1, <1>3, <1>8, <2>1 DEF Sound, Joining
  <2>5. NobodyDangles => InitHasLeft' \/ NobodyDangles'
    <3>1. CASE children[p] = <<>>
      <4>1. \A q \in Live : parent[q] # p
        <5>1. \A q : q \notin ToSet(children[p])
          BY <3>1, NoElements
        <5> QED
          BY <1>2, <1>3, <5>1 DEF Sound, Tree
      <4> QED
        BY <1>1, <1>3, <2>1, <4>1 DEF NobodyDangles
    <3>2. CASE children[p] # <<>>
      BY <1>1, <1>2, <1>9, <3>2 DEF InitHasLeft, Sound, Tree
    <3> QED
      BY <3>1, <3>2
  <2> QED
    BY <1>1, <1>4, <1>5, <2>2, <2>3, <2>4, <2>5 DEF Sound
<1>10. CASE /\ parent[p] \in Live /\ children[p] # <<>>
            /\ parent' = [q \in Process |->
                            IF q \in ToSet(children[p]) THEN parent[p] ELSE parent[q]]
            /\ children' = [children EXCEPT ![p] = <<>>, ![parent[p]] = @ \o children[p]]
            /\ UNCHANGED crashed
  <2>1. PICK par \in Live : par = parent[p]
    BY <1>10
  <2>2. parent' = [q \in Process |-> IF q \in ToSet(children[p]) THEN par ELSE parent[q]]
    BY <1>10, <2>1
  <2>3. /\ parent' \in [Process -> Process \cup {NoProcess}]
        /\ \A q \in Process : /\ q \in ToSet(children[p]) => parent'[q] = par
                              /\ q \notin ToSet(children[p]) => parent'[q] = parent[q]
    BY <1>3, <2>1, <2>2 DEF Sound, TypeOK
  <2>4. Tree' /\ children' \in [Process -> Seq(Process)]
    <3>1. PICK both : both = children[par] \o children[p]
      OBVIOUS
    <3>2. children' = WithTwo(children, p, <<>>, par, both)
      BY <1>10, <2>1, <3>1 DEF WithTwo
    <3> QED
      BY <1>1, <1>2, <2>1, <2>3, <3>1, <3>2, HandOver
  <2>5. TypeOK' /\ ~ crashed'
    BY <1>1, <1>10, <2>3, <2>4 DEF Sound, TypeOK
  <2>6. \A q \in Process : q \in ToSet(children[p]) <=> q \in Live /\ parent[q] = p
    BY <1>2 DEF Sound, Tree
  <2>7. Joining'
    <3>1. ASSUME NEW r \in Process, status'[r] = "joined"
          PROVE  r \in needJoin' \cap leaving' /\ \E q \in Live' \ {toBeDestroyed'} : parent'[q] = r
      <4>1. r \in needJoin \cap leaving /\ r # p
        BY <1>1, <1>2, <3>1 DEF Sound, Joining
      <4>2. PICK q \in Live \ {toBeDestroyed} : parent[q] = r
        BY <1>1, <3>1 DEF Sound, Joining
      <4>3. parent'[q] = r
        BY <1>3, <2>3, <2>6, <4>1, <4>2
      <4> QED
        BY <1>1, <1>3, <4>1, <4>2, <4>3
    <3> QED
      BY <1>8, <3>1 DEF Joining
  <2>8. NobodyDangles => NobodyDangles'
    <3> SUFFICES ASSUME NobodyDangles PROVE NobodyDangles'
      OBVIOUS
    <3>1. \A q \in Live' : parent'[q] # NoProcess => parent'[q] \in Live'
      BY <1>3, <2>1, <2>3 DEF NobodyDangles
    <3>2. ASSUME NEW q \in Live', parent'[q] \in leaving', status'[parent'[q]] # "joined"
          PROVE  q = toBeDestroyed'
      <4>1. q \in Live /\ q \in Process /\ status' = status
        BY <1>1, <1>3
      <4>2. CASE q \in ToSet(children[p])
        <5>1. par \in leaving /\ status[par] # "joined"
          BY <1>1, <1>6, <2>1, <2>3, <3>2, <4>1, <4>2
        <5>2. p = toBeDestroyed
          BY <1>2, <2>1, <5>1 DEF NobodyDangles
        <5> QED
          BY <1>2, <1>6, <5>2
      <4>3. CASE q \notin ToSet(children[p])
        <5>1. parent'[q] = parent[q] /\ parent[q] # p
          BY <2>3, <2>6, <4>1, <4>3
        <5> QED
          BY <1>1, <3>2, <4>1, <5>1 DEF NobodyDangles
      <4> QED
        BY <4>2, <4>3
    <3> QED
      BY <3>1, <3>2 DEF NobodyDangles
  <2> QED
    BY <1>1, <1>4, <1>5, <2>3, <2>4, <2>5, <2>7, <2>8 DEF Sound
<1>11. CASE /\ parent[p] \in Process \ Live /\ children[p] # <<>>
            /\ crashed' = TRUE /\ UNCHANGED tree
  <2>1. ~ NobodyDangles
    BY <1>2, <1>6, <1>11 DEF NobodyDangles
  <2>2. TypeOK'
    BY <1>1, <1>11 DEF Sound, TypeOK, tree
  <2> QED
    BY <1>1, <1>5, <1>11, <2>1, <2>2 DEF Sound, Wrong
<1> QED
  BY <1>9, <1>10, <1>11 DEF Terminate
-----------------------------------------------------------------------------
(* Process p goes to sleep for good and the first of list runs.  Of those  *)
(* who waited for their children, woken has no child but p.                *)
LEMMA SleepStep ==
  ASSUME Sound, NEW p \in Process, Acts(p), p \in leaving,
         NEW list, NEW stat \in [Process -> Status], NEW woken \in SUBSET Process,
         ReadyAre(list, stat), Sorted(list, priority), RunFirst(list, stat),
         stat[p] = "blocked",
         \A r \in woken : status[r] = "joined" /\ stat[r] = "ready",
         \A r \in Process : r # p /\ r \notin woken => stat[r] = status[r],
         \A r \in woken, q \in Live : parent[q] = r => q = p,
         \A r \in Process \ woken : status[r] = "joined" => \E q \in Live \ {p} : parent[q] = r,
         toBeDestroyed' = IF list = <<>> THEN NoProcess ELSE p,
         UNCHANGED <<priority, needJoin, parent, children, leaving, crashed, lateClone>>
  PROVE  Sound'
<1>1. /\ status[p] = "running" /\ p \in Live /\ toBeDestroyed = NoProcess
      /\ \A q \in Process : status[q] # "blocked" /\ (status[q] = "running" <=> q = p)
      /\ status \in [Process -> Status]
  BY ActsFacts
<1>2. \A q \in Process : stat[q] # "running"
  BY <1>1
<1>3. /\ ReadyAre(readyList', status') /\ Sorted(readyList', priority)
      /\ status' \in [Process -> Status] /\ current' \in Process \cup {NoProcess}
      /\ list = <<>> <=> current' = NoProcess
      /\ \A q \in Process : status'[q] = "running" <=> q = current'
      /\ \A q \in Process : \/ status'[q] = stat[q]
                            \/ stat[q] = "ready" /\ status'[q] = "running"
  BY <1>2, RunFirstFacts
<1>4. p \notin woken
  BY <1>1
<1>5. /\ status'[p] = "blocked"
      /\ \A q \in woken : status[q] = "joined" /\ status'[q] \in {"ready", "running"}
      /\ \A q \in Process : q # p /\ q \notin woken =>
           \/ status'[q] = status[q]
           \/ status[q] = "ready" /\ status'[q] = "running"
  BY <1>3, <1>4
<1>6. toBeDestroyed' \in {p, NoProcess} /\ (list # <<>> => toBeDestroyed' = p)
  OBVIOUS
<1>7. TypeOK' /\ ~ crashed'
  BY <1>3, <1>6 DEF Sound, TypeOK, Status, ReadyAre
<1>8. Placed'
  <2>1. ASSUME NEW q \in Process, status'[q] = "blocked"
        PROVE  q \in leaving' /\ (q = toBeDestroyed' \/ current' = NoProcess)
    <3>1. q = p
      BY <1>1, <1>5, <2>1
    <3> QED
      BY <1>3, <3>1
  <2>2. toBeDestroyed' # NoProcess => status'[toBeDestroyed'] = "blocked"
    BY <1>5, <1>6
  <2> QED
    BY <1>3, <2>1, <2>2 DEF Placed
<1>9. KeepsLives
  BY <1>1, <1>5 DEF KeepsLives
<1>10. Tree'
  BY <1>9, TreeKept DEF Sound
<1>11. Live' = Live /\ Live \subseteq Process
  BY <1>9, LivesKept DEF Live
<1>12. Joining'
  <2>1. ASSUME NEW r \in Process, status'[r] = "joined"
        PROVE  r \in needJoin' \cap leaving' /\ \E q \in Live' \ {toBeDestroyed'} : parent'[q] = r
    <3>1. r # p /\ r \notin woken /\ status[r] = "joined"
      BY <1>5, <2>1
    <3>2. r \in needJoin \cap leaving
      BY <3>1 DEF Sound, Joining
    <3>3. PICK q \in Live \ {p} : parent[q] = r
      BY <3>1
    <3>4. q \in Live' \ {toBeDestroyed'}
      BY <1>6, <1>11, <3>3, Pids
    <3> QED
      BY <3>2, <3>3, <3>4
  <2>2. ASSUME NEW r \in leaving' \ needJoin'
        PROVE  status'[r] \in {"running", "blocked", "deleted"}
    <3>1. r \in Process /\ status[r] \in {"running", "blocked", "deleted"}
      BY <2>2 DEF Sound, Joining, TypeOK
    <3>2. r \notin woken
      BY <1>5, <3>1
    <3> QED
      BY <1>5, <3>1, <3>2
  <2> QED
    BY <2>1, <2>2 DEF Joining
<1>13. NobodyDangles => NobodyDangles'
  <2> SUFFICES ASSUME NobodyDangles PROVE NobodyDangles'
    OBVIOUS
  <2>1. ASSUME NEW q \in Live, parent[q] \in leaving, status'[parent[q]] # "joined"
        PROVE  q = toBeDestroyed'
    <3>1. parent[q] \in Process
      BY <2>1 DEF Sound, TypeOK
    <3>2. status[parent[q]] = "joined"
      <4> SUFFICES ASSUME status[parent[q]] # "joined" PROVE FALSE
        OBVIOUS
      <4>1. q = toBeDestroyed
        BY <2>1 DEF NobodyDangles
      <4> QED
        BY <1>1, <1>11, <4>1, Pids
    <3>3. parent[q] \in woken
      BY <1>1, <1>5, <2>1, <3>1, <3>2
    <3>4. q = p
      BY <3>3
    <3>5. list # <<>>
      <4>1. parent[q] \in ToSet(list)
        BY <3>1, <3>3 DEF ReadyAre
      <4> QED
        BY <4>1, NoElements
    <3> QED
      BY <1>6, <3>4, <3>5
  <2> QED
    BY <1>11, <2>1 DEF NobodyDangles
<1> QED
  BY <1>7, <1>8, <1>10, <1>12, <1>13 DEF Sound, InitHasLeft

(* A list of children with at most one has no other; one with more has     *)
(* another.                                                                *)
LEMMA OtherChildren ==
  ASSUME Sound, NEW r \in Live, NEW p \in Live, parent[p] = r
  PROVE  /\ Len(children[r]) <= 1 => \A q \in Live : parent[q] = r => q = p
         /\ ~ (Len(children[r]) <= 1) => \E q \in Live \ {p} : parent[q] = r
<1> DEFINE c == children[r]
<1>1. Live \subseteq Process
  BY DEF Live
<1>2. /\ c \in Seq(Process) /\ IsInjective(c)
      /\ \A q \in Process : q \in ToSet(c) <=> q \in Live /\ parent[q] = r
  BY <1>1 DEF Sound, TypeOK, Tree
<1> HIDE DEF c
<1>3. Len(c) \in Nat /\ DOMAIN c = 1 .. Len(c) /\ \A i \in DOMAIN c : c[i] \in ToSet(c)
  BY <1>2, SeqFacts DEF ToSet
<1>4. ASSUME Len(c) <= 1, NEW q \in Live, parent[q] = r PROVE q = p
  <2>1. PICK i \in DOMAIN c : c[i] = q
    BY <1>1, <1>2, <1>4 DEF ToSet
  <2>2. PICK j \in DOMAIN c : c[j] = p
    BY <1>1, <1>2 DEF ToSet
  <2>3. i = j
    BY <1>3, <1>4
  <2> QED
    BY <2>1, <2>2, <2>3
<1>5. ASSUME ~ (Len(c) <= 1) PROVE \E q \in Live \ {p} : parent[q] = r
  <2>1. 1 \in DOMAIN c /\ 2 \in DOMAIN c
    BY <1>3, <1>5
  <2>2. c[1] # c[2]
    BY <1>2, <2>1 DEF IsInjective
  <2>3. PICK q \in ToSet(c) : q # p
    BY <1>3, <2>1, <2>2
  <2>4. ToSet(c) \subseteq Process
    BY <1>2, SeqFacts
  <2> QED
    BY <1>2, <2>3, <2>4
<1> QED
  BY <1>4, <1>5 DEF c

LEMMA LeaveStep ==
  ASSUME Sound, NEW p \in Process, Leave(p)
  PROVE  Sound' \/ Wrong'
<1>1. PICK gone : gone = [status EXCEPT ![p] = "blocked"]
  OBVIOUS
<1>2. PICK par : par = parent[p]
  OBVIOUS
<1>3. /\ Acts(p) /\ p \in leaving
      /\ UNCHANGED <<priority, needJoin, parent, children, leaving, lateClone>>
  BY DEF Leave, tree
<1>4. /\ status[p] = "running" /\ p \in Live /\ toBeDestroyed = NoProcess
      /\ p \notin ToSet(readyList)
      /\ status \in [Process -> Status]
      /\ ReadyAre(readyList, status) /\ Sorted(readyList, priority)
      /\ readyList \in Seq(Process) /\ IsInjective(readyList)
  BY <1>3, ActsFacts
<1>5. Live \subseteq Process /\ NoProcess \notin Process
  BY Pids DEF Live
<1>6. par \in Process \cup {NoProcess} /\ par # p
  <2>1. parent[p] \in Process \cup {NoProcess} /\ parent[p] < p
    BY DEF Sound, TypeOK, Tree
  <2>2. p \in Nat
    BY Pids
  <2> QED
    BY <1>2, <2>1, <2>2
<1>7. /\ gone \in [Process -> Status] /\ gone[p] = "blocked"
      /\ \A q \in Process : q # p => gone[q] = status[q]
  BY <1>1, <1>4 DEF Status
<1>8. ReadyAre(readyList, gone)
  BY <1>4, <1>7 DEF ReadyAre
<1>9. ASSUME NEW r \in Process, status[r] = "joined", r # par
      PROVE  \E q \in Live \ {p} : parent[q] = r
  BY <1>2, <1>9 DEF Sound, Joining
<1>10. ASSUME \/ par = NoProcess
              \/ par \in Live /\ ~ JoinIsDone(par),
              RunFirst(readyList, gone),
              toBeDestroyed' = IF readyList = <<>> THEN NoProcess ELSE p,
              UNCHANGED crashed
       PROVE  Sound'
  <2>1. ASSUME NEW r \in Process, status[r] = "joined"
        PROVE  \E q \in Live \ {p} : parent[q] = r
    <3>1. CASE r # par
      BY <1>9, <2>1, <3>1
    <3>2. CASE r = par
      <4>1. par \in Live /\ ~ (Len(children[par]) <= 1)
        BY <1>5, <1>10, <2>1, <3>2 DEF JoinIsDone
      <4> QED
        BY <1>2, <1>4, <3>2, <4>1, OtherChildren
    <3> QED
      BY <3>1, <3>2
  <2>2. PICK none \in SUBSET Process : none = {}
    OBVIOUS
  <2>3. /\ \A r \in none : status[r] = "joined" /\ gone[r] = "ready"
        /\ \A r \in none, q \in Live : parent[q] = r => q = p
        /\ \A r \in Process : r # p /\ r \notin none => gone[r] = status[r]
        /\ \A r \in Process \ none : status[r] = "joined" => \E q \in Live \ {p} : parent[q] = r
    BY <1>7, <2>1, <2>2
  <2> QED
    BY <1>3, <1>4, <1>7, <1>8, <1>10, <2>3, SleepStep
<1>11. ASSUME par \in Live, JoinIsDone(par),
              RunFirst(Insert(readyList, par), [gone EXCEPT ![par] = "ready"]),
              toBeDestroyed' = IF Insert(readyList, par) = <<>> THEN NoProcess ELSE p,
              UNCHANGED crashed
       PROVE  Sound'
  <2>1. PICK list : list = Insert(readyList, par)
    OBVIOUS
  <2>2. PICK stat : stat = [gone EXCEPT ![par] = "ready"]
    OBVIOUS
  <2>3. par \in Process /\ status[par] = "joined" /\ Len(children[par]) <= 1
    BY <1>5, <1>11 DEF JoinIsDone
  <2>4. par \notin ToSet(readyList)
    BY <1>4, <2>3 DEF ReadyAre
  <2>5. priority' \in [Process -> Nat] /\ Sorted(readyList, priority') /\ priority' = priority
    BY <1>3, <1>4, Priorities DEF Sound, TypeOK
  <2>6. /\ list \in Seq(Process) /\ IsInjective(list)
        /\ ToSet(list) = ToSet(readyList) \cup {par} /\ Sorted(list, priority)
    BY <1>4, <2>1, <2>3, <2>4, <2>5, InsertFacts
  <2>7. /\ stat \in [Process -> Status] /\ stat[par] = "ready" /\ stat[p] = "blocked"
        /\ \A q \in Process : q # p /\ q # par => stat[q] = status[q]
    BY <1>6, <1>7, <2>2, <2>3 DEF Status
  <2>8. ReadyAre(list, stat)
    BY <1>4, <2>6, <2>7 DEF ReadyAre
  <2>9. \A q \in Live : parent[q] = par => q = p
    BY <1>2, <1>4, <1>11, <2>3, OtherChildren
  <2>10. PICK woken \in SUBSET Process : woken = {par}
    BY <2>3
  <2>11. /\ \A r \in woken : status[r] = "joined" /\ stat[r] = "ready"
         /\ \A r \in woken, q \in Live : parent[q] = r => q = p
         /\ \A r \in Process : r # p /\ r \notin woken => stat[r] = status[r]
         /\ \A r \in Process \ woken : status[r] = "joined" => \E q \in Live \ {p} : parent[q] = r
    BY <1>9, <2>3, <2>7, <2>9, <2>10
  <2>12. RunFirst(list, stat) /\ toBeDestroyed' = IF list = <<>> THEN NoProcess ELSE p
    BY <1>11, <2>1, <2>2
  <2> QED
    BY <1>3, <1>11, <2>6, <2>7, <2>8, <2>11, <2>12, SleepStep
<1>12. ASSUME par \in Process \ Live, crashed' = TRUE,
              UNCHANGED <<current, readyList, toBeDestroyed, status>>
       PROVE  Wrong'
  <2>1. ~ NobodyDangles
    BY <1>2, <1>4, <1>5, <1>12 DEF NobodyDangles
  <2>2. TypeOK'
    BY <1>3, <1>12 DEF Sound, TypeOK
  <2> QED
    BY <1>3, <1>12, <2>1, <2>2 DEF Sound, Wrong, InitHasLeft
<1> QED
  BY <1>1, <1>2, <1>10, <1>11, <1>12 DEF Leave
-----------------------------------------------------------------------------
(* ~Process takes the process out of the tree.                             *)
LEMMA TakeOut ==
  ASSUME Sound, NEW p \in Process, p = toBeDestroyed,
         status' = [status EXCEPT ![p] = "deleted"],
         UNCHANGED <<parent, leaving>>,
         children' \in [Process -> Seq(Process)],
         \A r \in Live : r # parent[p] => children'[r] = children[r],
         \A r \in Process : children[r] = <<>> => children'[r] = <<>>,
         parent[p] \in Process => children'[parent[p]] = RemoveFirst(children[parent[p]], p)
  PROVE  Tree' /\ Live' = Live \ {p}
<1>1. /\ status \in [Process -> Status] /\ children \in [Process -> Seq(Process)]
      /\ status[p] = "blocked" /\ p \in leaving /\ Live \subseteq Process
  BY Pids DEF Sound, TypeOK, Placed, Status, Live
<1>2. status'[p] = "deleted" /\ \A q \in Process \ {p} : status'[q] = status[q]
  BY <1>1
<1>3. Live' = Live \ {p}
  BY <1>1, <1>2 DEF Live
<1>4. \A q \in Process : status'[q] = "unused" <=> status[q] = "unused"
  BY <1>1, <1>2
<1>5. ASSUME NEW r \in Live
      PROVE  /\ IsInjective(children'[r])
             /\ \A q \in Process : q \in ToSet(children'[r]) <=> q \in Live \ {p} /\ parent[q] = r
  <2>1. /\ r \in Process /\ children[r] \in Seq(Process) /\ IsInjective(children[r])
        /\ \A q \in Process : q \in ToSet(children[r]) <=> q \in Live /\ parent[q] = r
    BY <1>1 DEF Sound, Tree
  <2>2. CASE r = parent[p]
    <3>1. children'[r] = RemoveFirst(children[r], p)
      BY <2>1, <2>2
    <3>2. /\ IsInjective(RemoveFirst(children[r], p))
          /\ ToSet(RemoveFirst(children[r], p)) = ToSet(children[r]) \ {p}
      BY <2>1, RemoveFirstFacts
    <3> QED
      BY <2>1, <3>1, <3>2
  <2>3. CASE r # parent[p]
    BY <2>1, <2>3
  <2> QED
    BY <2>2, <2>3
<1>6. Tree'
  <2>1. \A q, r \in Process : q < r /\ status'[q] = "unused" => status'[r] = "unused"
    BY <1>4 DEF Sound, Tree
  <2>2. \A q \in Process : status'[q] = "unused" => children'[q] = <<>> /\ q \notin leaving'
    BY <1>4 DEF Sound, Tree
  <2>3. /\ \A q \in Process : parent'[q] < q
        /\ \A q \in Live' : parent'[q] = NoProcess => q = InitProc
    BY <1>3 DEF Sound, Tree
  <2>4. /\ \A r \in Live' : IsInjective(children'[r])
        /\ \A r \in Live', q \in Process :
             q \in ToSet(children'[r]) <=> q \in Live' /\ parent'[q] = r
    BY <1>3, <1>5
  <2> QED
    BY <2>1, <2>2, <2>3, <2>4 DEF Tree
<1> QED
  BY <1>3, <1>6

LEMMA DestroyStep ==
  ASSUME Sound, Destroy
  PROVE  Sound' \/ Wrong'
<1>1. PICK p \in Process : p = toBeDestroyed
  BY DEF Destroy, Sound, TypeOK
<1>2. /\ toBeDestroyed' = NoProcess
      /\ UNCHANGED <<current, readyList, priority, needJoin, parent, leaving, lateClone>>
  BY DEF Destroy
<1>3. /\ status[p] = "blocked" /\ p \in leaving /\ p # NoProcess
      /\ status \in [Process -> Status] /\ p \in Live
  BY <1>1, Pids DEF Sound, Placed, TypeOK, Status, Live
<1>4. parent[p] \in Process \cup {NoProcess} /\ Live \subseteq Process
      /\ children \in [Process -> Seq(Process)]
  BY DEF Sound, TypeOK, Live
<1>5. \A q \in Process : q \in ToSet(children[p]) <=> q \in Live /\ parent[q] = p
  BY <1>3 DEF Sound, Tree
<1>6. \A q \in Live : parent[q] = p => q # p
  <2>1. \A q \in Process : parent[q] < q /\ q \in Nat
    BY Pids DEF Sound, Tree
  <2> QED
    BY <1>4, <2>1
<1>7. NobodyDangles => \A q \in Live : parent[q] # p
  BY <1>1, <1>3, <1>6 DEF NobodyDangles
<1>8. ASSUME status' = [status EXCEPT ![p] = "deleted"], UNCHANGED crashed,
             Tree', Live' = Live \ {p}, children' \in [Process -> Seq(Process)],
             NobodyDangles => \A q \in Live : parent[q] # p
      PROVE  Sound'
  <2>1. /\ status' \in [Process -> Status] /\ status'[p] = "deleted"
        /\ \A q \in Process : q # p => status'[q] = status[q]
    BY <1>3, <1>8 DEF Status
  <2>2. TypeOK' /\ ~ crashed'
    BY <1>2, <1>8, <2>1 DEF Sound, TypeOK, Status
  <2>3. Placed'
    <3>1. ReadyAre(readyList', status')
      BY <1>2, <1>3, <2>1 DEF Sound, Placed, ReadyAre
    <3>2. Sorted(readyList', priority')
      BY <1>2 DEF Sound, Placed
    <3>3. \A q \in Process : status'[q] = "running" <=> q = current'
      BY <1>2, <1>3, <2>1 DEF Sound, Placed
    <3>4. \A q \in Process : status'[q] = "blocked" => q \in leaving' /\ current' = NoProcess
      BY <1>1, <1>2, <2>1 DEF Sound, Placed
    <3> QED
      BY <1>2, <3>1, <3>2, <3>3, <3>4 DEF Placed
  <2>4. Joining'
    <3>1. ASSUME NEW r \in Process, status'[r] = "joined"
          PROVE  r \in needJoin' \cap leaving' /\ \E q \in Live' \ {toBeDestroyed'} : parent'[q] = r
      <4>1. status[r] = "joined"
        BY <2>1, <3>1
      <4>2. r \in needJoin \cap leaving /\ \E q \in Live \ {p} : parent[q] = r
        BY <1>1, <4>1 DEF Sound, Joining
      <4>3. \A q \in Live : q # NoProcess
        BY <1>4, Pids
      <4> QED
        BY <1>2, <1>8, <4>2, <4>3
    <3>2. \A r \in leaving' \ needJoin' : status'[r] \in {"running", "blocked", "deleted"}
      <4>1. leaving \subseteq Process
        BY DEF Sound, TypeOK
      <4> QED
        BY <1>2, <2>1, <4>1 DEF Sound, Joining
    <3> QED
      BY <3>1, <3>2 DEF Joining
  <2>5. NobodyDangles => NobodyDangles'
    <3> SUFFICES ASSUME NobodyDangles PROVE NobodyDangles'
      OBVIOUS
    <3>1. \A q \in Live' : parent'[q] # NoProcess => parent'[q] \in Live'
      BY <1>2, <1>8 DEF NobodyDangles
    <3>2. \A q \in Live' : ~ (parent'[q] \in leaving' /\ status'[parent'[q]] # "joined")
      <4> SUFFICES ASSUME NEW q \in Live \ {p}, parent[q] \in leaving, status'[parent[q]] # "joined"
                   PROVE  FALSE
        BY <1>2, <1>8
      <4>1. parent[q] # p /\ parent[q] \in Process
        BY <1>8 DEF Sound, TypeOK
      <4>2. q = toBeDestroyed
        BY <2>1, <4>1 DEF NobodyDangles
      <4> QED
        BY <1>1, <4>2
    <3> QED
      BY <3>1, <3>2 DEF NobodyDangles
  <2> QED
    BY <1>2, <1>8, <2>2, <2>3, <2>4, <2>5 DEF Sound, InitHasLeft
<1>9. CASE /\ parent[p] = NoProcess /\ status' = [status EXCEPT ![p] = "deleted"]
           /\ UNCHANGED <<children, crashed>>
  <2>1. Tree' /\ Live' = Live \ {p}
    BY <1>1, <1>2, <1>4, <1>9, Pids, TakeOut
  <2> QED
    BY <1>4, <1>7, <1>8, <1>9, <2>1
<1>10. CASE /\ parent[p] # NoProcess /\ children[p] = <<>>
            /\ status' = [status EXCEPT ![p] = "deleted"]
            /\ children' = [children EXCEPT ![parent[p]] = RemoveFirst(@, p)]
            /\ UNCHANGED crashed
  <2>1. \A q \in Live : parent[q] # p
    BY <1>4, <1>5, <1>10, NoElements
  <2>2. PICK par \in Process : par = parent[p]
    BY <1>4, <1>10
  <2>3. PICK left : left = RemoveFirst(children[par], p)
    OBVIOUS
  <2>4. left \in Seq(Process)
    BY <1>4, <2>3, RemoveFirstFacts
  <2>5. /\ children' \in [Process -> Seq(Process)] /\ children'[par] = left
        /\ \A r \in Process \ {par} : children'[r] = children[r]
    BY <1>4, <1>10, <2>2, <2>3, <2>4
  <2>6. children[par] = <<>> => left = <<>>
    <3> SUFFICES ASSUME children[par] = <<>> PROVE RemoveFirst(<<>>, p) = <<>>
      BY <2>3
    <3> QED
      BY DEF RemoveFirst
  <2>7. Tree' /\ Live' = Live \ {p}
    <3>1. \A r \in Live : r # parent[p] => children'[r] = children[r]
      BY <1>4, <2>2, <2>5
    <3>2. \A r \in Process : children[r] = <<>> => children'[r] = <<>>
      BY <2>5, <2>6
    <3>3. children'[parent[p]] = RemoveFirst(children[parent[p]], p)
      BY <2>2, <2>3, <2>5
    <3> QED
      BY <1>1, <1>2, <1>10, <2>5, <3>1, <3>2, <3>3, TakeOut
  <2> QED
    BY <1>8, <1>10, <2>1, <2>5, <2>7
<1>11. CASE /\ parent[p] # NoProcess /\ children[p] # <<>>
            /\ crashed' = TRUE /\ UNCHANGED <<status, children>>
  <2>1. \E q \in Live : parent[q] = p
    <3>1. PICK q : q \in ToSet(children[p])
      BY <1>4, <1>11, SeqFacts
    <3>2. q \in Process
      BY <1>4, <3>1, SeqFacts
    <3> QED
      BY <1>5, <3>1, <3>2
  <2>2. TypeOK'
    BY <1>2, <1>11 DEF Sound, TypeOK
  <2> QED
    BY <1>2, <1>7, <1>11, <2>1, <2>2 DEF Sound, Wrong, InitHasLeft
<1> QED
  BY <1>1, <1>9, <1>10, <1>11 DEF Destroy

-----------------------------------------------------------------------------
LEMMA InitSound == Init => Sound
<1> SUFFICES ASSUME Init PROVE Sound
  OBVIOUS
<1>1. readyList = <<>> /\ readyList \in Seq(Process) /\ IsInjective(readyList)
  BY DEF Init, IsInjective
<1>2. /\ status \in [Process -> Status]
      /\ \A p \in Process : status[p] = IF p = InitProc THEN "running" ELSE "unused"
  BY DEF Init, Status
<1>3. /\ children \in [Process -> Seq(Process)]
      /\ \A p \in Process : children[p] = <<>> /\ parent[p] = NoProcess
  BY DEF Init
<1>4. TypeOK /\ ~ crashed
  BY <1>1, <1>2, <1>3, Pids DEF Init, TypeOK, Status
<1>5. Placed
  <2>1. \A p : p \notin ToSet(readyList)
    BY <1>1, NoElements
  <2>2. ReadyAre(readyList, status)
    BY <1>1, <1>2, <2>1 DEF ReadyAre
  <2>3. Sorted(readyList, priority)
    BY <1>1 DEF Sorted
  <2> QED
    BY <1>2, <2>2, <2>3 DEF Init, Placed
<1>6. Live = {InitProc}
  BY <1>2, Pids DEF Live
<1>7. Tree
  <2>1. \A p, q \in Process : p < q => q # InitProc
    BY Pids DEF InitProc
  <2>2. IsInjective(<<>>) /\ \A p : p \notin ToSet(<<>>)
    BY NoElements DEF IsInjective
  <2> QED
    BY <1>2, <1>3, <1>6, <2>1, <2>2, Pids DEF Init, Tree
<1>8. Joining /\ NobodyDangles
  BY <1>2, <1>3, <1>6, Pids DEF Init, Joining, NobodyDangles
<1> QED
  BY <1>4, <1>5, <1>7, <1>8 DEF Sound

LEMMA NextKeepsInv == ProcessInv /\ [Next]_vars => ProcessInv'
<1> SUFFICES ASSUME ProcessInv, [Next]_vars PROVE ProcessInv'
  OBVIOUS
<1>1. CASE Sound /\ Next
  <2>1. CASE Destroy
    BY <1>1, <2>1, DestroyStep DEF ProcessInv
  <2>2. ASSUME NEW p \in Process, TerminateJoined(p) \/ Terminate(p) \/ Leave(p) \/ Yield(p)
        PROVE  ProcessInv'
    BY <1>1, <2>2, TerminateJoinedStep, TerminateStep, LeaveStep, YieldStep DEF ProcessInv
  <2>3. ASSUME NEW p \in Process, NEW q \in Process,
               \/ Join(p, q)
               \/ \E n \in Priority : Fork(p, q, n)
               \/ \E r \in Process : CloneToOwnChild(p, q, r)
        PROVE  ProcessInv'
    BY <1>1, <2>3, JoinStep, ForkStep, CloneStep DEF ProcessInv
  <2> QED
    BY <1>1, <2>1, <2>2, <2>3 DEF Next, Ends
<1>2. CASE Wrong /\ Next
  <2>1. ~ Next
    BY <1>2 DEF Wrong, Next, Ends, Destroy, TerminateJoined, Terminate, Leave, Yield, Join,
                Fork, CloneToOwnChild, Acts
  <2> QED
    BY <1>2, <2>1
<1>3. CASE UNCHANGED vars
  BY <1>3 DEF vars, tree, ProcessInv, Sound, Wrong, TypeOK, Placed, ReadyAre, Sorted, Tree,
              Joining, NobodyDangles, InitHasLeft, Live
<1> QED
  BY <1>1, <1>2, <1>3 DEF ProcessInv

THEOREM ProcessInvariant == Spec => []ProcessInv
<1>1. Init => ProcessInv
  BY InitSound DEF ProcessInv
<1> QED
  BY <1>1, NextKeepsInv, PTL DEF Spec

(* The variables keep their types, for any number of processes and any     *)
(* priorities.                                                             *)
THEOREM ProcessTypeCorrect == Spec => []TypeOK
<1>1. ProcessInv => TypeOK
  BY DEF ProcessInv, Sound, Wrong
<1> QED
  BY <1>1, ProcessInvariant, PTL

(* A deleted process is used only when the Init Process has terminated     *)
(* before its children, or a process was cloned that had begun to.         *)
THEOREM CrashesHaveACause == Spec => []CrashHasCause
<1>1. ProcessInv => CrashHasCause
  BY DEF ProcessInv, Sound, Wrong, CrashHasCause
<1> QED
  BY <1>1, ProcessInvariant, PTL

(* Ready list, processor, lists of children and parents agree, and whoever *)
(* waits for its children has some.                                        *)
THEOREM FamilyIsConsistent == Spec => []Family
<1>1. ASSUME Sound PROVE Family
  <2>1. Live \subseteq Process
    BY DEF Live
  <2>2. ToSet(readyList) = {p \in Live : status[p] = "ready"}
    <3>1. ToSet(readyList) \subseteq Process
      BY <1>1, SeqFacts DEF Sound, TypeOK
    <3> QED
      BY <1>1, <3>1 DEF Sound, Placed, ReadyAre, Live
  <2>3. /\ \A p \in Live : status[p] = "running" <=> p = current
        /\ \A p \in Live : status[p] = "blocked" => p = toBeDestroyed \/ current = NoProcess
    BY <1>1, <2>1 DEF Sound, Placed
  <2>4. \A i, j \in DOMAIN readyList :
          i < j => priority[readyList[i]] >= priority[readyList[j]]
    BY <1>1 DEF Sound, Placed, Sorted
  <2>5. ASSUME NEW p \in Live
        PROVE  IsInjective(children[p]) /\ ToSet(children[p]) = {q \in Live : parent[q] = p}
    <3>1. ToSet(children[p]) \subseteq Process
      BY <1>1, <2>1, SeqFacts DEF Sound, TypeOK
    <3> QED
      BY <1>1, <2>1, <3>1 DEF Sound, Tree
  <2>6. ASSUME NEW p \in Live, status[p] = "joined" PROVE children[p] # <<>>
    <3>1. PICK q \in Live : parent[q] = p
      BY <1>1, <2>1, <2>6 DEF Sound, Joining
    <3>2. q \in ToSet(children[p])
      BY <2>5, <3>1
    <3> QED
      BY <3>2, NoElements
  <2> QED
    BY <2>2, <2>3, <2>4, <2>5, <2>6 DEF Family
<1>2. ProcessInv => Family
  BY <1>1 DEF ProcessInv, Wrong, Family
<1> QED
  BY <1>2, ProcessInvariant, PTL
=============================================================================
