-------------------------- MODULE CompactFlashProofs --------------------------
(***************************************************************************)
(* Proofs about CompactFlash: driver and card agree on the transfer in     *)
(* progress, a task is woken with exactly its blocks, no interrupt that a  *)
(* task waits for is dropped once the kernel has booted, and a call        *)
(* returns the bytes it moved, for any tasks, blocks and counts.           *)
(***************************************************************************)
EXTENDS CompactFlash, SequenceTheorems, TLAPS

\* The call of |t| is in progress.
Active(t) == pc[t] \in { "sent", "waiting", "orphan", "asleep" }

\* The tasks asleep are the ones on the list, once each; only the first may have had
\* its command sent.
QueueInv ==
    /\ \A t \in Task : pc[t] = "asleep" <=> \E i \in 1..Len(requests) : requests[i] = t
    /\ \A i, j \in 1..Len(requests) : requests[i] = requests[j] => i = j
    /\ \A i \in 2..Len(requests) : BIO_SEND(req[requests[i]].state)

\* A task is between its call and its sleep only while the kernel boots, and then it
\* is the only one there is.
ProbeInv ==
    /\ \A t \in Task : pc[t] \in { "sent", "waiting", "orphan" } =>
          probing /\ requests = << >> /\ BIO_RW_SECTOR(req[t].state)
    /\ probing => \A t \in Task : t # Main => pc[t] = "none"

\* A request counts what it has moved, and is done exactly when nothing is left.
RequestOK(t) ==
    /\ req[t].count <= req[t].total /\ req[t].total \in Counts \cup { 0 }
    /\ req[t].block = req[t].first + req[t].total - req[t].count
    /\ Len(moved[t]) = req[t].total - req[t].count
    /\ \A i \in 1..Len(moved[t]) : moved[t][i] = req[t].first + i - 1
    /\ Active(t) => req[t].count > 0 /\ req[t].state # "DONE"
    /\ ~Active(t) => req[t].count = 0

RequestInv == \A t \in Task : RequestOK(t)

\* The card executes the command of the request that moves sectors, and interrupts
\* only with a sector ready; it is idle when no call is in progress.
CardInv ==
    /\ \A t \in Task : Active(t) /\ BIO_RW_SECTOR(req[t].state) =>
          /\ card.op = OpOf(req[t].state) /\ card.block = req[t].block
          /\ card.left = req[t].count /\ (intr => card.drq)
    /\ (\A t \in Task : ~Active(t)) => card = NoCommand /\ ~intr

CfInv == TypeOK /\ QueueInv /\ ProbeInv /\ RequestInv /\ CardInv

-----------------------------------------------------------------------------
(* Lemmas.                                                                 *)

RequestState == { "READ_CMD", "READ_SECTOR", "WRITE_CMD", "WRITE_SECTOR", "DONE" }
Request == [ state : RequestState, block : Nat, count : 0..MaxCount,
             first : Nat, total : 0..MaxCount ]
Card == [ op : { "none", "read", "write" }, block : Nat, left : 0..MaxCount, drq : BOOLEAN ]
Place == { "none", "sent", "waiting", "asleep", "orphan", "woken" }

\* The type invariant, with names for its sets.
LEMMA Types ==
    TypeOK <=> /\ requests \in Seq(Task) /\ req \in [Task -> Request]
               /\ pc \in [Task -> Place] /\ moved \in [Task -> Seq(Nat)]
               /\ result \in [Task -> Int] /\ probing \in BOOLEAN
               /\ card \in Card /\ intr \in BOOLEAN
BY Zenon DEF TypeOK, Request, RequestState, Card, Place

\* The byte of the sector count register carries every valid count: the card moves as
\* many sectors as the driver asked for, 0 standing for the largest count.
LEMMA RegisterCarriesCount ==
    ASSUME NEW n \in Nat, ValidCount(n)
    PROVE  CardCount(CountRegister(n)) = n
<1>1. MaxCount \in Nat /\ MaxCount > 0 /\ n > 0 /\ n <= MaxCount
  BY CompactFlashAssumption DEF ValidCount
<1>2. CASE n < MaxCount
  <2>1. n % MaxCount = n
    BY <1>1, <1>2
  <2>. QED
    BY <1>1, <1>2, <2>1 DEF CardCount, CountRegister
<1>3. CASE n = MaxCount
  <2>1. 0 % MaxCount = 0
    BY <1>1
  <2>. QED
    BY <1>1, <1>3, <2>1 DEF CardCount, CountRegister
<1>. QED
  BY <1>1, <1>2, <1>3

\* The command that a task or the handler sends for a valid request.
LEMMA SendSectorsCard ==
    ASSUME NEW op \in { "read", "write" }, NEW b \in Nat, NEW n \in Nat, ValidCount(n)
    PROVE  /\ SendSectors(op, b, n) \in Card
           /\ SendSectors(op, b, n).op = op /\ SendSectors(op, b, n).block = b
           /\ SendSectors(op, b, n).left = n
BY RegisterCarriesCount, CompactFlashAssumption DEF SendSectors, Card, ValidCount

\* A request that a step does not touch stays as it was.
LEMMA RequestKept ==
    ASSUME NEW u \in Task, RequestOK(u), req'[u] = req[u], moved'[u] = moved[u],
           Active(u)' <=> Active(u)
    PROVE  RequestOK(u)'
BY Zenon DEF RequestOK

\* The head of the list and what is behind it.
LEMMA HeadRequest ==
    ASSUME CfInv, requests # << >>
    PROVE  /\ Head(requests) \in Task /\ Head(requests) = requests[1]
           /\ 1 \in 1..Len(requests)
           /\ pc[Head(requests)] = "asleep"
           /\ \A t \in Task : pc[t] \notin { "sent", "waiting", "orphan" }
           /\ Tail(requests) \in Seq(Task) /\ Len(Tail(requests)) = Len(requests) - 1
           /\ \A i \in 1..Len(Tail(requests)) : Tail(requests)[i] = requests[i + 1]
<1>1. requests \in Seq(Task)
  BY Types DEF CfInv
<1>2. Len(requests) \in Nat /\ Len(requests) > 0
  BY <1>1, EmptySeq
<1>3. /\ Head(requests) \in Task /\ Head(requests) = requests[1] /\ 1 \in 1..Len(requests)
      /\ Tail(requests) \in Seq(Task) /\ Len(Tail(requests)) = Len(requests) - 1
      /\ \A i \in 1..Len(Tail(requests)) : Tail(requests)[i] = requests[i + 1]
  BY <1>1, <1>2, HeadTailProperties
<1>4. pc[Head(requests)] = "asleep"
  BY <1>3 DEF CfInv, QueueInv
<1>. QED
  BY <1>3, <1>4 DEF CfInv, ProbeInv

-----------------------------------------------------------------------------
(* The invariant, one action after the other.                              *)

\* The driver starts with no request and an idle card.
LEMMA CfInvInit == Init => CfInv
<1>. SUFFICES ASSUME Init PROVE CfInv
  OBVIOUS
<1>. USE CompactFlashAssumption DEF Init
<1>1. TypeOK
  <2>1. 0 \in 0..MaxCount
    OBVIOUS
  <2>2. req \in [Task -> Request]
    BY <2>1 DEF Request, RequestState
  <2>3. card \in Card
    BY <2>1 DEF Card, NoCommand
  <2>4. requests \in Seq(Task) /\ moved \in [Task -> Seq(Nat)]
    OBVIOUS
  <2>5. pc \in [Task -> Place] /\ result \in [Task -> Int]
    BY DEF Place
  <2>6. probing \in BOOLEAN /\ intr \in BOOLEAN
    OBVIOUS
  <2>. QED
    BY <2>2, <2>3, <2>4, <2>5, <2>6, Types, Zenon
<1>2. QueueInv /\ ProbeInv /\ RequestInv /\ CardInv
  BY DEF QueueInv, ProbeInv, RequestInv, RequestOK, CardInv, Active, NoCommand, BIO_RW_SECTOR
<1>. QED
  BY <1>1, <1>2 DEF CfInv

\* The card has a sector ready: a pending interrupt now has one.
LEMMA CardReadyInv == CfInv /\ CardReady => CfInv'
<1>. SUFFICES ASSUME CfInv, CardReady PROVE CfInv'
  OBVIOUS
<1>1. /\ card \in Card /\ card.left > 0 /\ card' = [card EXCEPT !.drq = TRUE] /\ intr' = TRUE
      /\ UNCHANGED << requests, req, pc, moved, result, probing >>
  BY Types DEF CfInv, CardReady
<1>2. /\ card' \in Card /\ card'.drq = TRUE
      /\ card'.op = card.op /\ card'.block = card.block /\ card'.left = card.left
  BY <1>1 DEF Card
<1>3. TypeOK
  BY DEF CfInv
<1>4. TypeOK'
  BY <1>1, <1>2, <1>3 DEF TypeOK, Card
<1>5. QueueInv' /\ ProbeInv' /\ RequestInv'
  BY <1>1 DEF CfInv, QueueInv, ProbeInv, RequestInv, RequestOK, Active
<1>6. ~(\A t \in Task : ~Active(t))
  BY <1>1 DEF CfInv, CardInv, NoCommand
<1>7. CardInv'
  BY <1>1, <1>2, <1>6 DEF CfInv, CardInv, Active
<1>. QED
  BY <1>4, <1>5, <1>7 DEF CfInv

\* The probes end: the main task is not in a call, and it was the only one.
LEMMA ProbesDoneInv == CfInv /\ ProbesDone => CfInv'
<1>. SUFFICES ASSUME CfInv, ProbesDone PROVE CfInv'
  OBVIOUS
<1>1. /\ probing /\ pc[Main] = "none" /\ probing' = FALSE
      /\ UNCHANGED << requests, req, pc, moved, result, card, intr >>
  BY DEF ProbesDone
<1>2. TypeOK'
  BY <1>1 DEF CfInv, TypeOK
<1>3. QueueInv' /\ RequestInv' /\ CardInv'
  BY <1>1 DEF CfInv, QueueInv, RequestInv, RequestOK, CardInv, Active
<1>4. ProbeInv'
  BY <1>1 DEF CfInv, ProbeInv
<1>. QED
  BY <1>2, <1>3, <1>4 DEF CfInv

\* A call: the command goes to an idle card, or the request is queued behind others.
LEMMA CallInv ==
    ASSUME CfInv, NEW t \in Task, NEW op \in { "read", "write" }, NEW b \in Block,
           NEW n \in Counts, Call(t, op, b, n)
    PROVE  CfInv'
<1>. USE CompactFlashAssumption
<1>1. PICK r : r = [ state |-> IF CanStart THEN IF op = "read" THEN "READ_SECTOR" ELSE "WRITE_SECTOR"
                               ELSE IF op = "read" THEN "READ_CMD" ELSE "WRITE_CMD",
                     block |-> b, count |-> n, first |-> b, total |-> n ]
  OBVIOUS
<1>2. /\ pc[t] = "none" /\ (probing => t = Main) /\ ValidCount(n)
      /\ req' = [req EXCEPT ![t] = r] /\ moved' = [moved EXCEPT ![t] = << >>]
      /\ card' = IF CanStart THEN SendSectors(op, b, n) ELSE card
      /\ UNCHANGED << result, probing, intr >>
  BY <1>1 DEF Call
<1>3. /\ ~probing => pc' = [pc EXCEPT ![t] = "asleep"] /\ requests' = Append(requests, t)
      /\ probing => pc' = [pc EXCEPT ![t] = "sent"] /\ requests' = requests
  BY DEF Call, Masked
<1>4. /\ requests \in Seq(Task) /\ req \in [Task -> Request] /\ pc \in [Task -> Place]
      /\ moved \in [Task -> Seq(Nat)] /\ result \in [Task -> Int] /\ probing \in BOOLEAN
      /\ card \in Card /\ intr \in BOOLEAN
  BY Types DEF CfInv
<1>5. b \in Nat /\ n \in Nat /\ n \in 0..MaxCount /\ n > 0
  BY <1>2 DEF ValidCount
<1>6. /\ r \in Request /\ r.block = b /\ r.count = n /\ r.first = b /\ r.total = n
      /\ CanStart => BIO_RW_SECTOR(r.state) /\ OpOf(r.state) = op
      /\ ~CanStart => BIO_SEND(r.state) /\ ~BIO_RW_SECTOR(r.state)
      /\ r.state # "DONE"
  BY <1>1, <1>5 DEF Request, RequestState, BIO_RW_SECTOR, BIO_SEND, OpOf
<1>7. /\ req' \in [Task -> Request] /\ moved' \in [Task -> Seq(Nat)]
      /\ req'[t] = r /\ moved'[t] = << >>
      /\ \A u \in Task : u # t => req'[u] = req[u] /\ moved'[u] = moved[u]
  BY <1>2, <1>4, <1>6
<1>8. probing => CanStart /\ \A u \in Task : ~Active(u)
  <2>1. SUFFICES ASSUME probing PROVE CanStart /\ \A u \in Task : ~Active(u)
    OBVIOUS
  <2>2. \A u \in Task : pc[u] = "none"
    BY <1>2, <2>1 DEF CfInv, ProbeInv
  <2>3. \A i \in 1..Len(requests) : FALSE
    BY <1>4, <2>2, ElementOfSeq, ZenonT(60) DEF CfInv, QueueInv
  <2>4. requests = << >>
    BY <1>4, <2>3, EmptySeq
  <2>. QED
    BY <2>2, <2>4 DEF Active, CanStart
<1>9. CanStart => \A u \in Task : ~Active(u)
  BY <1>2, <1>8 DEF CfInv, ProbeInv, QueueInv, Active, CanStart
<1>10. /\ pc' \in [Task -> Place] /\ requests' \in Seq(Task)
       /\ \A u \in Task : u # t => pc'[u] = pc[u]
       /\ pc'[t] = IF probing THEN "sent" ELSE "asleep"
  <2>1. Append(requests, t) \in Seq(Task)
    BY <1>4, AppendProperties
  <2>2. CASE probing
    BY <1>3, <1>4, <2>2 DEF Place
  <2>3. CASE ~probing
    BY <1>3, <1>4, <2>1, <2>3 DEF Place
  <2>. QED
    BY <2>2, <2>3
<1>11. /\ CanStart => card' \in Card /\ card'.op = op /\ card'.block = b /\ card'.left = n
       /\ ~CanStart => card' = card
  BY <1>2, <1>5, SendSectorsCard
<1>12. TypeOK'
  <2>1. card' \in Card /\ result' \in [Task -> Int] /\ probing' \in BOOLEAN /\ intr' \in BOOLEAN
    BY <1>2, <1>4, <1>11
  <2>. QED
    BY <1>7, <1>10, <2>1, Zenon DEF TypeOK, Request, RequestState, Card, Place
<1>13. QueueInv'
  <2>1. CASE probing
    <3>1. requests' = requests /\ requests = << >>
      BY <1>3, <1>8, <2>1 DEF CanStart
    <3>2. \A u \in Task : pc'[u] # "asleep"
      BY <1>8, <1>10, <2>1 DEF Active
    <3>. QED
      BY <3>1, <3>2 DEF QueueInv
  <2>2. CASE ~probing
    <3>1. /\ Len(requests') = Len(requests) + 1 /\ Len(requests) \in Nat
          /\ requests'[Len(requests) + 1] = t
          /\ \A i \in 1..Len(requests) : requests'[i] = requests[i]
      <4>1. requests' = Append(requests, t)
        BY <1>3, <2>2
      <4>. QED
        BY <1>4, <4>1, AppendProperties, LenProperties
    <3>2. \A i \in 1..Len(requests) : requests[i] # t /\ requests[i] \in Task
      BY <1>2, <1>4, ElementOfSeq DEF CfInv, QueueInv
    <3>3. \A u \in Task : pc'[u] = "asleep" <=> \E i \in 1..Len(requests') : requests'[i] = u
      <4>1. \A u \in Task : pc[u] = "asleep" <=> \E i \in 1..Len(requests) : requests[i] = u
        BY DEF CfInv, QueueInv
      <4>2. pc'[t] = "asleep" /\ Len(requests) + 1 \in 1..Len(requests')
        BY <1>10, <2>2, <3>1
      <4>3. ASSUME NEW u \in Task, u # t
            PROVE  (\E i \in 1..Len(requests') : requests'[i] = u)
                   <=> (\E i \in 1..Len(requests) : requests[i] = u)
        BY <3>1, <4>3
      <4>. QED
        BY <1>10, <3>1, <4>1, <4>2, <4>3
    <3>4. \A i, j \in 1..Len(requests') : requests'[i] = requests'[j] => i = j
      BY <3>1, <3>2 DEF CfInv, QueueInv
    <3>5. \A i \in 2..Len(requests') : BIO_SEND(req'[requests'[i]].state)
      <4>1. SUFFICES ASSUME NEW i \in 2..Len(requests')
                     PROVE  BIO_SEND(req'[requests'[i]].state)
        OBVIOUS
      <4>2. CASE i = Len(requests) + 1
        <5>1. requests # << >>
          BY <3>1, <4>2, EmptySeq
        <5>. QED
          BY <1>6, <1>7, <3>1, <4>2, <5>1 DEF CanStart
      <4>3. CASE i # Len(requests) + 1
        <5>1. i \in 2..Len(requests) /\ requests'[i] = requests[i]
          BY <3>1, <4>3
        <5>. QED
          BY <1>7, <3>2, <5>1 DEF CfInv, QueueInv
      <4>. QED
        BY <4>2, <4>3
    <3>. QED
      BY <3>3, <3>4, <3>5 DEF QueueInv
  <2>. QED
    BY <2>1, <2>2
<1>14. ProbeInv'
  <2>1. \A u \in Task : u # t /\ pc[u] \in { "sent", "waiting", "orphan" } => FALSE
    BY <1>8 DEF CfInv, ProbeInv, Active
  <2>2. probing => requests' = << >> /\ BIO_RW_SECTOR(req'[t].state)
    BY <1>3, <1>6, <1>7, <1>8 DEF CanStart
  <2>3. \A u \in Task : pc'[u] \in { "sent", "waiting", "orphan" } => u = t /\ probing
    BY <1>10, <2>1
  <2>4. probing' => \A u \in Task : u # Main => pc'[u] = "none"
    BY <1>2, <1>10 DEF CfInv, ProbeInv
  <2>. QED
    BY <1>2, <2>2, <2>3, <2>4 DEF ProbeInv
<1>15. RequestInv'
  <2>1. \A u \in Task : u # t => (Active(u)' <=> Active(u))
    BY <1>10 DEF Active
  <2>2. Active(t)'
    BY <1>10 DEF Active
  <2>3. Len(moved'[t]) = 0
    BY <1>7
  <2>. QED
    <3>1. SUFFICES ASSUME NEW u \in Task PROVE RequestOK(u)'
      BY DEF RequestInv
    <3>2. CASE u = t
      <4>1. n <= n /\ n \in Counts \cup { 0 } /\ b = b + n - n /\ 0 = n - n /\ 1..0 = {}
        BY <1>5
      <4>2. req'[u] = r /\ Len(moved'[u]) = 0 /\ Active(u)'
        BY <1>7, <2>2, <2>3, <3>2
      <4>3. /\ req'[u].count <= req'[u].total /\ req'[u].total \in Counts \cup { 0 }
            /\ req'[u].block = req'[u].first + req'[u].total - req'[u].count
            /\ Len(moved'[u]) = req'[u].total - req'[u].count
        BY <1>6, <4>1, <4>2
      <4>4. req'[u].count > 0 /\ req'[u].state # "DONE"
        BY <1>5, <1>6, <4>2
      <4>5. \A i \in 1..Len(moved'[u]) : moved'[u][i] = req'[u].first + i - 1
        BY <4>1, <4>2
      <4>. QED
        BY <4>2, <4>3, <4>4, <4>5, Zenon DEF RequestOK
    <3>3. CASE u # t
      BY <1>7, <2>1, <3>3, RequestKept DEF CfInv, RequestInv
    <3>. QED
      BY <3>2, <3>3
<1>16. CardInv'
  <2>1. Active(t)' /\ \A u \in Task : u # t => (Active(u)' <=> Active(u))
    BY <1>10 DEF Active
  <2>2. CASE CanStart
    BY <1>2, <1>6, <1>7, <1>9, <1>11, <2>1, <2>2 DEF CfInv, CardInv
  <2>3. CASE ~CanStart
    BY <1>2, <1>6, <1>7, <1>11, <2>1, <2>3 DEF CfInv, CardInv
  <2>. QED
    BY <2>2, <2>3
<1>. QED
  BY <1>12, <1>13, <1>14, <1>15, <1>16 DEF CfInv

\* scheduler_sleep_on() while the kernel boots: the main task, alone, is marked, put
\* on the list, or preempted in between.
LEMMA SleepOnInv ==
    ASSUME CfInv, NEW t \in Task, SetWaiting(t) \/ Enqueue(t) \/ Preempt(t)
    PROVE  CfInv'
<1>1. /\ requests \in Seq(Task) /\ pc \in [Task -> Place]
      /\ UNCHANGED << req, moved, result, probing, card, intr >>
  BY Types DEF CfInv, SetWaiting, Enqueue, Preempt
<1>2. /\ pc[t] \in { "sent", "waiting" } /\ probing /\ requests = << >>
      /\ BIO_RW_SECTOR(req[t].state) /\ t = Main
  BY DEF CfInv, ProbeInv, SetWaiting, Enqueue, Preempt
<1>3. PICK p \in { "waiting", "asleep", "orphan" } :
         /\ pc' = [pc EXCEPT ![t] = p]
         /\ requests' = IF p = "asleep" THEN << t >> ELSE << >>
  <2>1. Append(<< >>, t) = << t >>
    OBVIOUS
  <2>. QED
    BY <1>2, <2>1 DEF SetWaiting, Enqueue, Preempt
<1>4. /\ pc' \in [Task -> Place] /\ pc'[t] = p
      /\ \A u \in Task : u # t => pc'[u] = pc[u] /\ pc'[u] = "none"
  BY <1>1, <1>2, <1>3 DEF Place, CfInv, ProbeInv
<1>5. requests' \in Seq(Task) /\ Len(requests') = IF p = "asleep" THEN 1 ELSE 0
  BY <1>3
<1>6. p = "asleep" => requests'[1] = t
  BY <1>3
<1>7. TypeOK'
  BY <1>1, <1>4, <1>5 DEF CfInv, TypeOK, Place
<1>8. QueueInv'
  BY <1>4, <1>5, <1>6 DEF QueueInv
<1>9. ProbeInv'
  BY <1>1, <1>2, <1>3, <1>4 DEF ProbeInv
<1>10. \A u \in Task : Active(u)' <=> Active(u)
  BY <1>2, <1>4 DEF Active
<1>11. RequestInv' /\ CardInv'
  BY <1>1, <1>10 DEF CfInv, RequestInv, RequestOK, CardInv
<1>. QED
  BY <1>7, <1>8, <1>9, <1>11 DEF CfInv

\* A woken task returns: its request was over.
LEMMA ReturnInv ==
    ASSUME CfInv, NEW t \in Task, Return(t)
    PROVE  CfInv'
<1>1. /\ pc[t] = "woken" /\ pc' = [pc EXCEPT ![t] = "none"] /\ pc \in [Task -> Place]
      /\ result' = [result EXCEPT ![t] = Bytes(req[t])]
      /\ UNCHANGED << requests, req, moved, probing, card, intr >>
  BY Types DEF CfInv, Return
<1>2. Bytes(req[t]) \in Int
  <2>1. /\ req[t].total \in Nat /\ req[t].count \in Nat
        /\ IntRange \in Nat \ {0, 1} /\ SectorSize \in Nat
    BY Types, CompactFlashAssumption DEF CfInv, Request
  <2>2. PICK k \in Int : k = (req[t].total - req[t].count) * SectorSize
    BY <2>1
  <2>3. k % IntRange \in Int
    BY <2>1
  <2>. QED
    BY <2>1, <2>2, <2>3 DEF Bytes, ToInt
<1>3. /\ pc' \in [Task -> Place] /\ pc'[t] = "none"
      /\ \A u \in Task : u # t => pc'[u] = pc[u]
  BY <1>1 DEF Place
<1>4. \A u \in Task : (Active(u)' <=> Active(u)) /\ (pc'[u] = "asleep" <=> pc[u] = "asleep")
  BY <1>1, <1>3 DEF Active
<1>5. TypeOK'
  BY <1>1, <1>2, <1>3 DEF CfInv, TypeOK, Place
<1>6. QueueInv'
  BY <1>1, <1>4 DEF CfInv, QueueInv
<1>7. ProbeInv'
  BY <1>1, <1>3 DEF CfInv, ProbeInv
<1>8. RequestInv' /\ CardInv'
  BY <1>1, <1>4 DEF CfInv, RequestInv, RequestOK, CardInv
<1>. QED
  BY <1>5, <1>6, <1>7, <1>8 DEF CfInv

\* cf20_handler() with no request: every interrupt it drops leaves the card as it is.
LEMMA HandlerSpuriousInv == CfInv /\ HandlerSpurious => CfInv'
<1>. SUFFICES ASSUME CfInv, HandlerSpurious PROVE CfInv'
  OBVIOUS
<1>1. intr' = FALSE /\ UNCHANGED << requests, req, pc, moved, result, probing, card >>
  BY DEF HandlerSpurious
<1>2. TypeOK'
  BY <1>1 DEF CfInv, TypeOK
<1>3. QueueInv' /\ ProbeInv' /\ RequestInv' /\ CardInv'
  BY <1>1 DEF CfInv, QueueInv, ProbeInv, RequestInv, RequestOK, CardInv, Active
<1>. QED
  BY <1>2, <1>3 DEF CfInv

\* The command of a request that was not sent yet, at the head of |list|.
LEMMA SendNextCard ==
    ASSUME TypeOK, RequestInv, NEW u \in Task, Active(u), NEW list, list # << >>,
           Head(list) = u, BIO_SEND(req[u].state), NEW c
    PROVE  SendNext(list, c) \in Card
<1>1. /\ req[u] \in Request /\ req[u].count > 0
  BY Types DEF RequestInv, RequestOK
<1>2. /\ req[u].block \in Nat /\ req[u].count \in Nat /\ ValidCount(req[u].count)
      /\ OpOf(req[u].state) \in { "read", "write" }
  BY <1>1, CompactFlashAssumption DEF Request, ValidCount, OpOf
<1>. QED
  BY <1>2, SendSectorsCard DEF SendNext

\* cf20_handler() when the command of the head was still to be sent: no task's
\* request is moving sectors.
LEMMA HandlerSendInv == CfInv /\ HandlerSend => CfInv'
<1>. SUFFICES ASSUME CfInv, HandlerSend PROVE CfInv'
  OBVIOUS
<1>1. /\ requests # << >> /\ BIO_SEND(req[Head(requests)].state)
      /\ intr' = FALSE /\ card' = SendNext(requests, card)
      /\ UNCHANGED << requests, req, pc, moved, result, probing >>
  BY DEF HandlerSend
<1>2. /\ Head(requests) \in Task /\ Head(requests) = requests[1] /\ Active(Head(requests))
      /\ \A t \in Task : pc[t] \notin { "sent", "waiting", "orphan" }
  BY <1>1, HeadRequest DEF Active
<1>3. card' \in Card
  BY <1>1, <1>2, SendNextCard DEF CfInv
<1>4. TypeOK'
  BY <1>1, <1>3 DEF CfInv, TypeOK, Card
<1>5. \A i \in 1..Len(requests) : BIO_SEND(req[requests[i]].state)
  BY <1>1, <1>2 DEF CfInv, QueueInv
<1>6. \A t \in Task : Active(t) => ~BIO_RW_SECTOR(req[t].state)
  BY <1>2, <1>5 DEF CfInv, QueueInv, Active, BIO_SEND, BIO_RW_SECTOR
<1>7. QueueInv' /\ ProbeInv' /\ RequestInv'
  BY <1>1 DEF CfInv, QueueInv, ProbeInv, RequestInv, RequestOK, Active
<1>8. CardInv'
  BY <1>1, <1>2, <1>6 DEF CardInv, Active
<1>. QED
  BY <1>4, <1>7, <1>8 DEF CfInv

\* cf20_handler() when a sector of the head request is ready: the block the card
\* offers is the next one of the request.
LEMMA HandlerSectorInv == CfInv /\ HandlerSector => CfInv'
<1>. SUFFICES ASSUME CfInv, HandlerSector PROVE CfInv'
  OBVIOUS
<1>. USE CompactFlashAssumption
<1>0. PICK t, q, r : t = Head(requests) /\ q = req[t] /\ r = Advance(q)
  OBVIOUS
<1>1. /\ intr /\ requests # << >> /\ BIO_RW_SECTOR(q.state) /\ intr' = FALSE
      /\ req' = [req EXCEPT ![t] = r]
      /\ moved' = [moved EXCEPT ![t] = Append(@, IF card.drq THEN card.block ELSE -1)]
      /\ UNCHANGED << result, probing >>
  BY <1>0 DEF HandlerSector
<1>2. /\ r.state = "DONE" => /\ requests' = Tail(requests) /\ pc' = [pc EXCEPT ![t] = "woken"]
                             /\ card' = SendNext(Tail(requests), NextSector)
      /\ r.state # "DONE" => card' = NextSector /\ UNCHANGED << requests, pc >>
  BY <1>0 DEF HandlerSector, Wake
<1>3. /\ requests \in Seq(Task) /\ req \in [Task -> Request] /\ pc \in [Task -> Place]
      /\ moved \in [Task -> Seq(Nat)] /\ result \in [Task -> Int] /\ probing \in BOOLEAN
      /\ card \in Card /\ intr \in BOOLEAN
  BY Types DEF CfInv
<1>4. /\ t \in Task /\ t = requests[1] /\ pc[t] = "asleep" /\ Len(requests) \in Nat \ {0}
      /\ \A u \in Task : pc[u] \notin { "sent", "waiting", "orphan" }
      /\ Tail(requests) \in Seq(Task) /\ Len(Tail(requests)) = Len(requests) - 1
      /\ \A i \in 1..Len(Tail(requests)) : Tail(requests)[i] = requests[i + 1]
  BY <1>0, <1>1, <1>3, HeadRequest, EmptySeq
<1>5. /\ Active(t) /\ RequestOK(t) /\ q \in Request /\ q = req[t] /\ q.count > 0
      /\ card.block = q.block /\ card.left = q.count /\ card.op = OpOf(q.state) /\ card.drq
  BY <1>0, <1>1, <1>3, <1>4 DEF CfInv, RequestInv, RequestOK, CardInv, Active
<1>6. /\ q.block \in Nat /\ q.count \in 1..MaxCount /\ q.first \in Nat /\ q.total \in 0..MaxCount
      /\ q.state \in RequestState
  BY <1>5 DEF Request
<1>7. /\ r \in Request /\ r.block = q.block + 1 /\ r.count = q.count - 1 /\ r.first = q.first
      /\ r.total = q.total /\ r.state = IF q.count = 1 THEN "DONE" ELSE q.state
  <2>1. r = [q EXCEPT !.block = @ + 1, !.count = @ - 1,
                      !.state = IF q.count = 1 THEN "DONE" ELSE @]
    BY <1>0 DEF Advance
  <2>2. q = [ state |-> q.state, block |-> q.block, count |-> q.count,
              first |-> q.first, total |-> q.total ]
    BY <1>5 DEF Request
  <2>3. r = [ state |-> IF q.count = 1 THEN "DONE" ELSE q.state, block |-> q.block + 1,
              count |-> q.count - 1, first |-> q.first, total |-> q.total ]
    BY <2>1, <2>2
  <2>4. /\ r.block = q.block + 1 /\ r.count = q.count - 1 /\ r.first = q.first
        /\ r.total = q.total /\ r.state = IF q.count = 1 THEN "DONE" ELSE q.state
    BY <2>3
  <2>5. /\ q.block + 1 \in Nat /\ q.count - 1 \in 0..MaxCount
        /\ (IF q.count = 1 THEN "DONE" ELSE q.state) \in RequestState
    BY <1>6 DEF RequestState
  <2>6. r \in Request
    BY <1>6, <2>3, <2>5 DEF Request
  <2>. QED
    BY <2>4, <2>6
<1>8. /\ req' \in [Task -> Request] /\ req'[t] = r
      /\ \A u \in Task : u # t => req'[u] = req[u]
  BY <1>1, <1>3, <1>4, <1>7
<1>9. /\ moved' \in [Task -> Seq(Nat)] /\ moved'[t] = Append(moved[t], q.block)
      /\ \A u \in Task : u # t => moved'[u] = moved[u]
  <2>1. Append(moved[t], q.block) \in Seq(Nat)
    BY <1>3, <1>4, <1>6, AppendProperties
  <2>. QED
    BY <1>1, <1>3, <1>4, <1>5, <2>1
<1>10. /\ Len(moved'[t]) = q.total - q.count + 1
       /\ \A i \in 1..Len(moved'[t]) : moved'[t][i] = q.first + i - 1
  <2>1. /\ Len(moved'[t]) = Len(moved[t]) + 1 /\ Len(moved[t]) = q.total - q.count
        /\ moved'[t][Len(moved[t]) + 1] = q.block
        /\ \A i \in 1..Len(moved[t]) : moved'[t][i] = moved[t][i]
    BY <1>3, <1>4, <1>5, <1>6, <1>9, AppendProperties, SMTT(30) DEF RequestOK
  <2>2. /\ q.block = q.first + q.total - q.count
        /\ \A i \in 1..Len(moved[t]) : moved[t][i] = q.first + i - 1
    BY <1>5 DEF RequestOK
  <2>3. ASSUME NEW i \in 1..Len(moved'[t]) PROVE moved'[t][i] = q.first + i - 1
    <3>1. CASE i = Len(moved[t]) + 1
      BY <1>6, <2>1, <2>2, <3>1
    <3>2. CASE i # Len(moved[t]) + 1
      <4>1. i \in 1..Len(moved[t])
        BY <1>6, <2>1, <3>2
      <4>. QED
        BY <2>1, <2>2, <4>1
    <3>. QED
      BY <3>1, <3>2
  <2>. QED
    BY <2>1, <2>3
<1>11. /\ NextSector \in Card
       /\ q.count > 1 => /\ NextSector.op = card.op /\ NextSector.block = card.block + 1
                         /\ NextSector.left = card.left - 1
       /\ q.count = 1 => NextSector = NoCommand
  <2>1. CASE q.count > 1
    <3>1. NextSector = [card EXCEPT !.block = @ + 1, !.left = @ - 1, !.drq = FALSE]
      BY <1>5, <2>1 DEF NextSector
    <3>2. card = [ op |-> card.op, block |-> card.block, left |-> card.left, drq |-> card.drq ]
      BY <1>3 DEF Card
    <3>3. NextSector = [ op |-> card.op, block |-> card.block + 1, left |-> card.left - 1,
                         drq |-> FALSE ]
      BY <3>1, <3>2
    <3>4. /\ card.op \in { "none", "read", "write" } /\ card.block + 1 \in Nat
          /\ card.left - 1 \in 0..MaxCount
      <4>1. /\ card.op \in { "none", "read", "write" } /\ card.block \in Nat
            /\ card.left \in 0..MaxCount
        BY <1>3 DEF Card
      <4>. QED
        BY <1>5, <2>1, <4>1
    <3>5. NextSector \in Card
      BY <3>3, <3>4 DEF Card
    <3>. QED
      BY <2>1, <3>3, <3>5
  <2>2. CASE q.count = 1
    BY <1>5, <2>2 DEF NextSector, Card, NoCommand
  <2>. QED
    BY <1>6, <2>1, <2>2
<1>12. r.count <= r.total /\ r.total \in Counts \cup { 0 } /\ r.block = r.first + r.total - r.count
  <2>1. /\ q.count <= q.total /\ q.total \in Counts \cup { 0 }
        /\ q.block = q.first + q.total - q.count
    BY <1>5 DEF RequestOK
  <2>. QED
    BY <1>6, <1>7, <2>1
<1>13. \A i \in 2..Len(requests) : requests[i] \in Task /\ requests[i] # t
  BY <1>3, <1>4, ElementOfSeq DEF CfInv, QueueInv
<1>14. CASE r.state = "DONE"
  <2>1. /\ requests' = Tail(requests) /\ pc' = [pc EXCEPT ![t] = "woken"]
        /\ card' = SendNext(Tail(requests), NextSector) /\ q.count = 1
    BY <1>1, <1>2, <1>7, <1>14 DEF BIO_RW_SECTOR
  <2>2. /\ pc' \in [Task -> Place] /\ pc'[t] = "woken"
        /\ \A u \in Task : u # t => pc'[u] = pc[u]
    BY <1>3, <1>4, <2>1 DEF Place
  <2>3. ~Active(t)' /\ \A u \in Task : u # t => (Active(u)' <=> Active(u))
    BY <2>2 DEF Active
  <2>4. QueueInv'
    <3>1. /\ Len(requests') = Len(requests) - 1
          /\ \A i \in 1..Len(requests') : i + 1 \in 2..Len(requests) /\ requests'[i] = requests[i + 1]
      BY <1>4, <2>1
    <3>2. ASSUME NEW u \in Task
          PROVE  pc'[u] = "asleep" <=> \E i \in 1..Len(requests') : requests'[i] = u
      <4>1. CASE u = t
        BY <1>13, <2>2, <3>1, <4>1
      <4>2. CASE u # t
        <5>1. pc'[u] = "asleep" <=> \E i \in 1..Len(requests) : requests[i] = u
          BY <2>2, <4>2 DEF CfInv, QueueInv
        <5>2. ASSUME NEW i \in 1..Len(requests), requests[i] = u
              PROVE  i - 1 \in 1..Len(requests') /\ requests'[i - 1] = u
          <6>1. i # 1 /\ i - 1 \in 1..Len(requests') /\ (i - 1) + 1 = i
            BY <1>4, <3>1, <4>2, <5>2
          <6>. QED
            BY <3>1, <5>2, <6>1
        <5>. QED
          BY <1>4, <3>1, <5>1, <5>2
      <4>. QED
        BY <4>1, <4>2
    <3>3. ASSUME NEW i \in 1..Len(requests'), NEW j \in 1..Len(requests'),
                 requests'[i] = requests'[j]
          PROVE  i = j
      <4>1. i + 1 \in 1..Len(requests) /\ j + 1 \in 1..Len(requests) /\ requests[i + 1] = requests[j + 1]
        BY <1>4, <3>1, <3>3
      <4>2. i + 1 = j + 1
        BY <4>1 DEF CfInv, QueueInv
      <4>. QED
        BY <1>4, <3>1, <4>2
    <3>4. ASSUME NEW i \in 2..Len(requests') PROVE BIO_SEND(req'[requests'[i]].state)
      <4>1. i \in 1..Len(requests') /\ i + 1 \in 2..Len(requests)
        BY <1>4, <3>1
      <4>2. BIO_SEND(req[requests[i + 1]].state)
        BY <4>1 DEF CfInv, QueueInv
      <4>. QED
        BY <1>8, <1>13, <3>1, <4>1, <4>2
    <3>. QED
      BY <3>2, <3>3, <3>4 DEF QueueInv
  <2>5. ProbeInv'
    BY <1>1, <1>4, <2>2 DEF CfInv, ProbeInv
  <2>6. RequestInv'
    <3>1. SUFFICES ASSUME NEW u \in Task PROVE RequestOK(u)'
      BY DEF RequestInv
    <3>2. CASE u = t
      <4>1. req'[u] = r /\ moved'[u] = moved'[t] /\ ~Active(u)'
        BY <1>8, <2>3, <3>2
      <4>2. Len(moved'[u]) = r.total - r.count /\ r.count = 0
        BY <1>6, <1>7, <1>10, <2>1, <4>1
      <4>3. \A i \in 1..Len(moved'[u]) : moved'[u][i] = r.first + i - 1
        BY <1>7, <1>10, <4>1
      <4>. QED
        BY <1>12, <4>1, <4>2, <4>3, Zenon DEF RequestOK
    <3>3. CASE u # t
      BY <1>8, <1>9, <2>3, <3>3, RequestKept DEF CfInv, RequestInv
    <3>. QED
      BY <3>2, <3>3
  <2>7. CASE Tail(requests) = << >>
    <3>1. card' = NoCommand /\ card' \in Card
      BY <1>11, <2>1, <2>7 DEF SendNext
    <3>2. \A u \in Task : ~Active(u)'
      <4>1. \A i \in 1..Len(requests) : i = 1
        <5>1. Len(Tail(requests)) = 0
          BY <2>7, EmptySeq
        <5>2. Len(requests) - 1 = 0 /\ Len(requests) \in Nat
          BY <1>4, <5>1, Zenon
        <5>3. \A m \in Nat : m - 1 = 0 => \A i \in 1..m : i = 1
          OBVIOUS
        <5>. QED
          BY <5>2, <5>3, Zenon
      <4>2. \A u \in Task : u # t => pc[u] # "asleep"
        BY <1>4, <4>1 DEF CfInv, QueueInv
      <4>. QED
        BY <1>4, <2>3, <4>2 DEF Active
    <3>3. CardInv'
      BY <1>1, <3>1, <3>2 DEF CardInv
    <3>4. TypeOK'
      BY <1>1, <1>3, <1>4, <1>8, <1>9, <2>1, <2>2, <3>1, Zenon
      DEF TypeOK, Card, Request, RequestState, Place
    <3>. QED
      BY <2>4, <2>5, <2>6, <3>3, <3>4 DEF CfInv
  <2>8. CASE Tail(requests) # << >>
    <3>1. PICK h : h = Head(Tail(requests))
      OBVIOUS
    <3>2. h = requests[2] /\ 2 \in 2..Len(requests)
      <4>1. Len(Tail(requests)) \in Nat \ {0} /\ Head(Tail(requests)) = Tail(requests)[1]
        BY <1>4, <2>8, EmptySeq
      <4>. QED
        BY <1>4, <3>1, <4>1
    <3>3. h \in Task /\ h # t /\ BIO_SEND(req[h].state) /\ pc[h] = "asleep"
      BY <1>13, <3>2 DEF CfInv, QueueInv
    <3>4. card' \in Card
      BY <2>1, <2>8, <3>1, <3>3, SendNextCard DEF CfInv, Active
    <3>5. \A u \in Task : Active(u)' => ~BIO_RW_SECTOR(req'[u].state)
      <4>1. SUFFICES ASSUME NEW u \in Task, u # t, pc[u] = "asleep"
                     PROVE  ~BIO_RW_SECTOR(req[u].state)
        BY <1>4, <1>8, <2>2, <2>3 DEF Active
      <4>2. PICK i \in 1..Len(requests) : requests[i] = u
        BY <4>1 DEF CfInv, QueueInv
      <4>3. i \in 2..Len(requests)
        BY <1>4, <4>1, <4>2
      <4>. QED
        BY <4>2, <4>3 DEF CfInv, QueueInv, BIO_SEND, BIO_RW_SECTOR
    <3>6. Active(h)'
      BY <2>2, <3>3 DEF Active
    <3>7. CardInv'
      BY <3>3, <3>5, <3>6 DEF CardInv
    <3>8. TypeOK'
      BY <1>1, <1>3, <1>4, <1>8, <1>9, <2>1, <2>2, <3>4, Zenon
      DEF TypeOK, Card, Request, RequestState, Place
    <3>. QED
      BY <2>4, <2>5, <2>6, <3>7, <3>8 DEF CfInv
  <2>. QED
    BY <2>7, <2>8
<1>15. CASE r.state # "DONE"
  <2>1. card' = NextSector /\ UNCHANGED << requests, pc >> /\ q.count > 1 /\ r.state = q.state
    BY <1>2, <1>6, <1>7, <1>15
  <2>2. \A u \in Task : Active(u)' <=> Active(u)
    BY <2>1 DEF Active
  <2>3. TypeOK'
    BY <1>1, <1>3, <1>8, <1>9, <1>11, <2>1, Zenon DEF TypeOK, Card, Request, RequestState, Place
  <2>4. QueueInv'
    BY <1>8, <1>13, <2>1 DEF CfInv, QueueInv
  <2>5. ProbeInv'
    BY <1>1, <1>4, <2>1 DEF CfInv, ProbeInv
  <2>6. RequestInv'
    <3>1. SUFFICES ASSUME NEW u \in Task PROVE RequestOK(u)'
      BY DEF RequestInv
    <3>2. CASE u = t
      <4>1. req'[u] = r /\ moved'[u] = moved'[t] /\ Active(u)'
        BY <1>5, <1>8, <2>2, <3>2
      <4>2. Len(moved'[u]) = r.total - r.count /\ r.count > 0
        <5>1. q.count \in Int /\ q.total \in Int /\ r.count = q.count - 1 /\ r.total = q.total
          BY <1>6, <1>7
        <5>2. Len(moved'[u]) = q.total - q.count + 1
          BY <1>10, <4>1
        <5>. QED
          BY <2>1, <5>1, <5>2
      <4>3. \A i \in 1..Len(moved'[u]) : moved'[u][i] = r.first + i - 1
        BY <1>7, <1>10, <4>1
      <4>. QED
        BY <1>12, <1>15, <4>1, <4>2, <4>3, Zenon DEF RequestOK
    <3>3. CASE u # t
      BY <1>8, <1>9, <2>2, <3>3, RequestKept DEF CfInv, RequestInv
    <3>. QED
      BY <3>2, <3>3
  <2>7. CardInv'
    <3>1. ASSUME NEW u \in Task, u # t, Active(u) PROVE ~BIO_RW_SECTOR(req[u].state)
      <4>1. pc[u] = "asleep"
        BY <1>4, <3>1 DEF Active
      <4>2. PICK i \in 1..Len(requests) : requests[i] = u
        BY <4>1 DEF CfInv, QueueInv
      <4>3. i \in 2..Len(requests)
        BY <1>4, <3>1, <4>2
      <4>. QED
        BY <4>2, <4>3 DEF CfInv, QueueInv, BIO_SEND, BIO_RW_SECTOR
    <3>2. /\ card'.op = OpOf(r.state) /\ card'.block = r.block /\ card'.left = r.count
      BY <1>5, <1>7, <1>11, <2>1
    <3>. QED
      BY <1>1, <1>5, <1>8, <2>2, <3>1, <3>2 DEF CardInv
  <2>. QED
    BY <2>3, <2>4, <2>5, <2>6, <2>7 DEF CfInv
<1>. QED
  BY <1>14, <1>15

\* Every step keeps the invariant.
LEMMA CfInvNext == CfInv /\ [Next]_vars => CfInv'
<1>. SUFFICES ASSUME CfInv, [Next]_vars PROVE CfInv'
  OBVIOUS
<1>1. CASE UNCHANGED vars
  <2>1. UNCHANGED << requests, req, pc, moved, result, probing, card, intr >>
    BY <1>1 DEF vars
  <2>2. TypeOK'
    BY <2>1 DEF CfInv, TypeOK
  <2>3. QueueInv' /\ ProbeInv'
    BY <2>1 DEF CfInv, QueueInv, ProbeInv
  <2>4. CardInv'
    BY <2>1 DEF CfInv, CardInv, Active
  <2>5. RequestInv'
    BY <2>1, RequestKept DEF CfInv, RequestInv, Active
  <2>. QED
    BY <2>2, <2>3, <2>4, <2>5 DEF CfInv
<1>2. CASE Handler
  BY <1>2, HandlerSpuriousInv, HandlerSectorInv, HandlerSendInv DEF Handler
<1>. QED
  BY <1>1, <1>2, CardReadyInv, ProbesDoneInv, CallInv, SleepOnInv, ReturnInv DEF Next

\* The invariant holds in every run of the driver.
LEMMA CfInvariant == Spec => []CfInv
<1>. QED
  BY CfInvInit, CfInvNext, PTL DEF Spec

-----------------------------------------------------------------------------
(* The theorems.                                                           *)

\* The driver and the card agree on the transfer in progress: whatever calls come
\* between the interrupts, only the request at the head of the list moves sectors, and
\* the card executes its command with as many sectors left (cf20_handler()).
THEOREM CardFollows == Spec => []CardFollowsHead
<1>1. CfInv => CardFollowsHead
  <2>. SUFFICES ASSUME CfInv, NEW i \in 1..Len(requests), BIO_RW_SECTOR(req[requests[i]].state)
                PROVE  /\ i = 1
                       /\ card.op = OpOf(req[requests[1]].state)
                       /\ card.block = req[requests[1]].block
                       /\ card.left = req[requests[1]].count
    BY DEF CardFollowsHead, CfInv
  <2>1. requests \in Seq(Task) /\ Len(requests) \in Nat
    BY Types DEF CfInv
  <2>2. i = 1
    BY <2>1 DEF CfInv, QueueInv, BIO_SEND, BIO_RW_SECTOR
  <2>3. requests[1] \in Task /\ pc[requests[1]] = "asleep"
    BY <2>1, <2>2, ElementOfSeq DEF CfInv, QueueInv
  <2>. QED
    BY <2>2, <2>3 DEF CfInv, CardInv, Active
<1>. QED
  BY <1>1, CfInvariant, PTL

\* A task is woken when exactly the blocks it asked cf20_read_block() or
\* cf20_write_block() for have been moved, in order, none of another task's.
THEOREM TransfersWhole == Spec => []WholeTransfer
<1>1. CfInv => WholeTransfer
  <2>. SUFFICES ASSUME CfInv, NEW t \in Task, pc[t] = "woken"
                PROVE  moved[t] = [ i \in 1..req[t].total |-> req[t].first + i - 1 ]
    BY DEF WholeTransfer
  <2>1. req[t] \in Request /\ moved[t] \in Seq(Nat) /\ RequestOK(t) /\ ~Active(t)
    BY Types DEF CfInv, RequestInv, Active
  <2>2. req[t].count = 0 /\ req[t].total \in Nat /\ Len(moved[t]) = req[t].total
    BY <2>1 DEF RequestOK, Request
  <2>3. moved[t] = [ i \in 1..Len(moved[t]) |-> moved[t][i] ]
    BY <2>1, SMTT(30)
  <2>. QED
    BY <2>1, <2>2, <2>3 DEF RequestOK
<1>. QED
  BY <1>1, CfInvariant, PTL

\* Once the kernel has booted, cf20_handler() takes an interrupt for a spurious one
\* only when no task waits for it: a system call is on the list before the interrupts
\* are enabled again.
THEOREM NoInterruptLost == Spec => SpuriousOnly
<1>1. CfInv => (~probing /\ requests = << >> => \A t \in Task : pc[t] \in { "none", "woken" })
  <2>. SUFFICES ASSUME CfInv, ~probing, requests = << >>, NEW t \in Task
                PROVE  pc[t] \in { "none", "woken" }
    OBVIOUS
  <2>1. pc[t] \in Place /\ pc[t] \notin { "sent", "waiting", "orphan" }
    BY Types DEF CfInv, ProbeInv
  <2>2. pc[t] # "asleep"
    BY DEF CfInv, QueueInv
  <2>. QED
    BY <2>1, <2>2 DEF Place
<1>2. CfInv /\ [Next]_vars =>
         [ ~probing /\ intr /\ ~intr' /\ requests = << >>
             => \A t \in Task : pc[t] \in { "none", "woken" } ]_vars
  BY <1>1
<1>. QED
  BY <1>2, CfInvariant, PTL DEF Spec, SpuriousOnly

\* What blkdev.h promises to a caller, in the width of an int.
InInt(bytes) == IF bytes < IntRange \div 2 THEN bytes ELSE ToInt(bytes)

\* An int holds the counts below half of its range.
LEMMA IntHolds == \A n \in Nat : ToInt(n) = InInt(n)
<1>. USE CompactFlashAssumption
<1>1. SUFFICES ASSUME NEW n \in Nat, n < IntRange \div 2 PROVE ToInt(n) = n
  BY DEF InInt
<1>2. IntRange \div 2 \in Nat /\ IntRange \div 2 <= IntRange
  OBVIOUS
<1>3. n % IntRange = n
  BY <1>1, <1>2
<1>. QED
  BY <1>1, <1>3 DEF ToInt

\* A call returns the bytes that the card moved for it, whatever the number of
\* blocks, the sector size and the width of an int: exactly while they fit in an
\* int, cut to it when they do not.
THEOREM CallReturnsBytes == Spec => ReturnsBytes
<1>. USE CompactFlashAssumption
<1>1. ASSUME CfInv, NEW t \in Task, pc[t] = "woken"
      PROVE  Bytes(req[t]) = InInt(Len(moved[t]) * SectorSize)
  <2>1. req[t] \in Request /\ moved[t] \in Seq(Nat) /\ RequestOK(t) /\ ~Active(t)
    BY <1>1, Types DEF CfInv, RequestInv, Active
  <2>2. /\ req[t].count = 0 /\ req[t].total \in Nat
        /\ Len(moved[t]) = req[t].total
    BY <2>1 DEF RequestOK, Request
  <2>3. PICK b : b = req[t].total * SectorSize
    OBVIOUS
  <2>4. b \in Nat
    BY <2>2, <2>3
  <2>5. (req[t].total - req[t].count) * SectorSize = b
    BY <2>2, <2>3
  <2>. QED
    BY <2>2, <2>3, <2>4, <2>5, IntHolds DEF Bytes
<1>2. ASSUME CfInv, [Next]_vars, NEW t \in Task, pc[t] = "woken", pc'[t] = "none"
      PROVE  Return(t)
  <2>1. pc \in [Task -> Place]
    BY <1>2, Types DEF CfInv
  <2>2. requests # << >> => Head(requests) \in Task
    BY <1>2, HeadRequest
  <2>3. CASE Handler
    BY <1>2, <2>1, <2>2, <2>3 DEF Handler, HandlerSpurious, HandlerSector, HandlerSend, Wake
  <2>4. CASE CardReady \/ ProbesDone \/ UNCHANGED vars
    BY <1>2, <2>4 DEF CardReady, ProbesDone, vars
  <2>5. ASSUME NEW u \in Task, NEW op, NEW b, NEW n, Call(u, op, b, n) PROVE FALSE
    BY <1>2, <2>1, <2>5 DEF Call
  <2>6. ASSUME NEW u \in Task, SetWaiting(u) \/ Enqueue(u) \/ Preempt(u) PROVE FALSE
    BY <1>2, <2>1, <2>6 DEF SetWaiting, Enqueue, Preempt
  <2>7. ASSUME NEW u \in Task, Return(u) PROVE u = t
    BY <1>2, <2>1, <2>7 DEF Return
  <2>. QED
    BY <1>2, <2>3, <2>4, <2>5, <2>6, <2>7 DEF Next
<1>3. CfInv /\ [Next]_vars =>
         [ \A t \in Task : pc[t] = "woken" /\ pc'[t] = "none" =>
             LET bytes == Len(moved[t]) * SectorSize
             IN result'[t] = IF bytes < IntRange \div 2 THEN bytes ELSE ToInt(bytes) ]_vars
  <2>. SUFFICES ASSUME CfInv, [Next]_vars, NEW t \in Task, pc[t] = "woken", pc'[t] = "none"
                PROVE  result'[t] = InInt(Len(moved[t]) * SectorSize)
    BY DEF InInt
  <2>1. Return(t) /\ result \in [Task -> Int]
    BY <1>2, Types DEF CfInv
  <2>. QED
    BY <1>1, <2>1 DEF Return
<1>. QED
  BY <1>3, CfInvariant, PTL DEF Spec, ReturnsBytes
=============================================================================
