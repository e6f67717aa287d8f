--------------------------- MODULE InterruptsProofs ---------------------------
(***************************************************************************)
(* Proofs about Interrupts: each interrupt is served by the handler of its *)
(* own driver, and is in service exactly while that handler has not        *)
(* acknowledged it, for any number of tasks and any assignment of lines    *)
(* and vectors that the assumption allows.                                 *)
(***************************************************************************)
EXTENDS Interrupts, SequenceTheorems, TLAPS

\* What the boot does, in order, and how many of those steps are left when the
\* handler of a driver has just been hooked.
BootStep == Driver \X { "handle", "enable" }
BootSteps == SetupSteps("uart") \o SetupSteps("clk") \o SetupSteps("cf20")
LeftWhenHooked(d) == IF d = "uart" THEN 5 ELSE IF d = "clk" THEN 3 ELSE 1

\* The boot is somewhere in that order.
SetupInv ==
    /\ setup \in Seq(BootStep)
    /\ Len(setup) \in 0..6
    /\ \A k \in 1..Len(setup) : setup[k] = BootSteps[6 - Len(setup) + k]

Hooked(d) ==
    idt_offset + Irq[d] \in DOMAIN idt /\ idt[idt_offset + Irq[d]] = d

\* A line that is not masked has its driver's handler in the table, because each
\* driver hooks before it unmasks; the system calls keep their entries.
TableInv ==
    /\ \A v \in DOMAIN Syscalls : v \in DOMAIN idt /\ idt[v] = Syscalls[v]
    /\ \A d \in Driver : Len(setup) <= LeftWhenHooked(d) => Hooked(d)
    /\ \A n \in Lines : n \notin imr["master"] => \E d \in Driver : Irq[d] = n /\ Hooked(d)

\* What a handler of |d| may still have to do.
Rest(d) == IF d = "uart" THEN { << "body", "ack" >>, << "ack" >>, << >> }
           ELSE { << "ack", "body" >>, << "body" >>, << >> }

\* The handlers that run or were left: each is its line's own, and one that was left
\* on the stack of another task has nothing to do but return.
FrameOK(f) ==
    \/ f = NoHandler
    \/ \E d \in Driver, todo \in UNION { Rest(e) : e \in Driver } :
          todo \in Rest(d) /\ f = [ by |-> d, line |-> Irq[d], todo |-> todo ]

FrameInv ==
    /\ DOMAIN frame = IrqTask
    /\ \A t \in IrqTask : FrameOK(frame[t])
    /\ \A t \in IrqTask : t # running => frame[t].todo = << >>

IrqInv == IrqTypeOK /\ SetupInv /\ TableInv /\ FrameInv /\ InServiceExact

-----------------------------------------------------------------------------
(* Lemmas.                                                                 *)

\* What appending two elements to a sequence gives.
LEMMA AppendTwo ==
    ASSUME NEW S, NEW s \in Seq(S), NEW x \in S, NEW y \in S, NEW r, r = s \o << x, y >>
    PROVE  /\ r \in Seq(S) /\ Len(r) = Len(s) + 2
           /\ r[Len(s) + 1] = x /\ r[Len(s) + 2] = y
           /\ \A k \in 1..Len(s) : r[k] = s[k]
<1>1. << x, y >> \in Seq(S) /\ Len(<< x, y >>) = 2
  OBVIOUS
<1>. QED
  BY <1>1

\* The steps of the boot, one by one.
LEMMA BootOrder ==
    /\ BootSteps \in Seq(BootStep)
    /\ Len(BootSteps) = 6
    /\ BootSteps[1] = << "uart", "handle" >> /\ BootSteps[2] = << "uart", "enable" >>
    /\ BootSteps[3] = << "clk", "handle" >> /\ BootSteps[4] = << "clk", "enable" >>
    /\ BootSteps[5] = << "cf20", "handle" >> /\ BootSteps[6] = << "cf20", "enable" >>
<1>. DEFINE u1 == << "uart", "handle" >>
            u2 == << "uart", "enable" >>
            k1 == << "clk", "handle" >>
            k2 == << "clk", "enable" >>
            c1 == << "cf20", "handle" >>
            c2 == << "cf20", "enable" >>
<1>0. PICK two, four, six :
         two = << u1, u2 >> /\ four = two \o << k1, k2 >> /\ six = four \o << c1, c2 >>
  OBVIOUS
<1>1. BootSteps = six
  BY <1>0 DEF BootSteps, SetupSteps
<1>2. /\ u1 \in BootStep /\ u2 \in BootStep /\ k1 \in BootStep /\ k2 \in BootStep
      /\ c1 \in BootStep /\ c2 \in BootStep
  BY InterruptsAssumption DEF BootStep
<1>. HIDE DEF u1, u2, k1, k2, c1, c2
<1>3. two \in Seq(BootStep) /\ Len(two) = 2 /\ two[1] = u1 /\ two[2] = u2
  BY <1>0, <1>2
<1>4. /\ four \in Seq(BootStep) /\ Len(four) = 4 /\ four[3] = k1 /\ four[4] = k2
      /\ four[1] = u1 /\ four[2] = u2
  <2>1. /\ four \in Seq(BootStep) /\ Len(four) = Len(two) + 2
        /\ four[Len(two) + 1] = k1 /\ four[Len(two) + 2] = k2
        /\ \A k \in 1..Len(two) : four[k] = two[k]
    BY <1>0, <1>2, <1>3, AppendTwo
  <2>. QED
    BY <1>3, <2>1
<1>5. /\ six \in Seq(BootStep) /\ Len(six) = 6 /\ six[5] = c1 /\ six[6] = c2
      /\ six[1] = u1 /\ six[2] = u2 /\ six[3] = k1 /\ six[4] = k2
  <2>1. /\ six \in Seq(BootStep) /\ Len(six) = Len(four) + 2
        /\ six[Len(four) + 1] = c1 /\ six[Len(four) + 2] = c2
        /\ \A k \in 1..Len(four) : six[k] = four[k]
    BY <1>0, <1>2, <1>4, AppendTwo
  <2>. QED
    BY <1>4, <2>1
<1>. QED
  BY <1>1, <1>5 DEF u1, u2, k1, k2, c1, c2

\* The lines of the boards are the master's: interrupts_from_irq() and irq_enable()
\* take its branch for all of them.
LEMMA MasterLine ==
    ASSUME NEW d \in Driver
    PROVE  /\ interrupts_from_irq(Irq[d]) = idt_offset + Irq[d]
           /\ irq_enable(Irq[d]) = p8259a_irq_enable("master", Irq[d])
<1>1. Irq[d] \in 0..7
  BY InterruptsAssumption DEF Lines
<1>2. irq_base["master"] = 0 /\ irq_max["master"] = 8
  BY DEF irq_base, irq_max, Pic
<1>3. irq_max["slave"] = 16 /\ irq_base["slave"] = 8
  BY DEF irq_max, irq_base, Pic
<1>4. interrupts_from_irq(Irq[d]) = idt_offset + Irq[d]
  BY <1>1, <1>2, <1>3 DEF interrupts_from_irq
<1>5. irq_enable(Irq[d]) = p8259a_irq_enable("master", Irq[d])
  BY <1>1, <1>2, <1>3 DEF irq_enable
<1>. QED
  BY <1>4, <1>5

\* A set of lines has a least one.
LEMMA MinLine ==
    ASSUME NEW S \in SUBSET Lines, S # {}
    PROVE  Min(S) \in S /\ \A y \in S : Min(S) <= y
<1>1. S \subseteq 0..7
  BY DEF Lines
<1>2. \E x \in S : \A y \in S : x <= y
  <2>. SUFFICES ASSUME \A x \in S : \E y \in S : y < x PROVE FALSE
    BY <1>1
  <2>0. 0 \notin S
    BY <1>1
  <2>1. 1 \notin S
    BY <1>1, <2>0
  <2>2. 2 \notin S
    BY <1>1, <2>0, <2>1
  <2>3. 3 \notin S
    BY <1>1, <2>0, <2>1, <2>2
  <2>4. 4 \notin S
    BY <1>1, <2>0, <2>1, <2>2, <2>3
  <2>5. 5 \notin S
    BY <1>1, <2>0, <2>1, <2>2, <2>3, <2>4
  <2>6. 6 \notin S
    BY <1>1, <2>0, <2>1, <2>2, <2>3, <2>4, <2>5
  <2>7. 7 \notin S
    BY <1>1, <2>0, <2>1, <2>2, <2>3, <2>4, <2>5, <2>6
  <2>. QED
    <3>1. PICK x \in S : TRUE
      OBVIOUS
    <3>2. x = 0 \/ x = 1 \/ x = 2 \/ x = 3 \/ x = 4 \/ x = 5 \/ x = 6 \/ x = 7
      BY <1>1, <3>1
    <3>. QED
      BY <3>1, <3>2, <2>0, <2>1, <2>2, <2>3, <2>4, <2>5, <2>6, <2>7
<1>. QED
  BY <1>2 DEF Min

-----------------------------------------------------------------------------
(* The invariant.                                                          *)

\* The boot starts with every line masked and no handler running.
LEMMA IrqInvInit == IrqInit => IrqInv
<1>. SUFFICES ASSUME IrqInit PROVE IrqInv
  OBVIOUS
<1>. USE InterruptsAssumption DEF IrqInit
<1>1. IrqTypeOK
  BY DEF IrqTypeOK, Lines, Pic, p8259a_initialize
<1>2. SetupInv
  <2>1. setup = BootSteps
    BY DEF BootSteps
  <2>2. 6 \in 0..6 /\ \A k \in 1..6 : 6 - 6 + k = k
    OBVIOUS
  <2>. QED
    BY <2>1, <2>2, BootOrder, Zenon DEF SetupInv
<1>3. TableInv
  <2>1. Len(setup) = 6
    BY BootOrder DEF BootSteps
  <2>. QED
    BY <2>1 DEF TableInv, LeftWhenHooked, Pic, p8259a_initialize
<1>4. FrameInv
  BY DEF FrameInv, FrameOK, NoHandler
<1>5. InServiceExact
  BY DEF InServiceExact, NoHandler
<1>. QED
  BY <1>1, <1>2, <1>3, <1>4, <1>5 DEF IrqInv

\* A step of the boot: the driver that unmasks its line has hooked its handler in
\* the step before, and the entries of the others are not touched.
LEMMA BootInv == IrqInv /\ Boot => IrqInv'
<1>. SUFFICES ASSUME IrqInv, Boot PROVE IrqInv'
  OBVIOUS
<1>. USE InterruptsAssumption
<1>0. PICK n, d : n = Len(setup) /\ d = setup[1][1]
  OBVIOUS
<1>1. /\ n \in 1..6 /\ setup[1] = BootSteps[7 - n]
      /\ Len(setup') = n - 1 /\ SetupInv'
  <2>0. setup \in Seq(BootStep) /\ setup # << >> /\ n \in 0..6 /\ setup' = Tail(setup)
    BY <1>0 DEF IrqInv, SetupInv, Boot
  <2>1. n \in 1..6 /\ setup[1] = BootSteps[7 - n]
    <3>1. n \in 1..6
      BY <1>0, <2>0, EmptySeq, SMTT(30)
    <3>2. setup[1] = BootSteps[6 - n + 1] /\ 6 - n + 1 = 7 - n
      BY <1>0, <3>1 DEF IrqInv, SetupInv
    <3>. QED
      BY <3>1, <3>2
  <2>2. /\ setup' \in Seq(BootStep) /\ Len(setup') = n - 1
        /\ \A k \in 1..(n - 1) : setup'[k] = setup[k + 1]
    BY <1>0, <2>0, <2>1, HeadTailProperties
  <2>3. \A k \in 1..(n - 1) : setup[k + 1] = BootSteps[6 - (n - 1) + k]
    BY <1>0, <2>1 DEF IrqInv, SetupInv
  <2>. QED
    <3>1. n - 1 \in 0..6 /\ \A k \in 1..(n - 1) : setup'[k] = BootSteps[6 - (n - 1) + k]
      BY <2>1, <2>2, <2>3
    <3>2. SetupInv'
      BY <2>2, <3>1 DEF SetupInv
    <3>. QED
      BY <2>1, <2>2, <3>2
<1>2. \/ n = 6 /\ setup[1] = << "uart", "handle" >>
      \/ n = 5 /\ setup[1] = << "uart", "enable" >>
      \/ n = 4 /\ setup[1] = << "clk", "handle" >>
      \/ n = 3 /\ setup[1] = << "clk", "enable" >>
      \/ n = 2 /\ setup[1] = << "cf20", "handle" >>
      \/ n = 1 /\ setup[1] = << "cf20", "enable" >>
  BY <1>1, BootOrder
<1>d. d \in Driver
  BY <1>0, <1>2
<1>s. /\ setup[1][2] = "handle" =>
            (n = 6 /\ d = "uart") \/ (n = 4 /\ d = "clk") \/ (n = 2 /\ d = "cf20")
      /\ setup[1][2] = "enable" =>
            (n = 5 /\ d = "uart") \/ (n = 3 /\ d = "clk") \/ (n = 1 /\ d = "cf20")
      /\ setup[1][2] \in { "handle", "enable" }
  BY <1>0, <1>2
<1>3. FrameInv' /\ InServiceExact'
  BY DEF IrqInv, FrameInv, InServiceExact, Boot
<1>4. IrqTypeOK' /\ TableInv'
  <2>1. CASE setup[1][2] = "handle"
    <3>0. PICK v : v = idt_offset + Irq[d]
      OBVIOUS
    <3>1. /\ DOMAIN idt' = DOMAIN idt \cup { v } /\ idt'[v] = d /\ imr' = imr
          /\ \A w \in DOMAIN idt : w # v => idt'[w] = idt[w]
      <4>1. v \in Int /\ v >= 0 /\ v < IDT_ENTRIES
        BY <1>d, <3>0 DEF Lines
      <4>2. idt' = interrupts_handle(v, d) /\ imr' = imr
        BY <1>d, <2>1, <3>0, <1>0, MasterLine DEF Boot
      <4>3. idt' = [ w \in DOMAIN idt \cup { v } |-> IF w = v THEN d ELSE idt[w] ]
        BY <4>1, <4>2 DEF interrupts_handle
      <4>. QED
        BY <4>2, <4>3
    <3>2. v \in idt_offset..(idt_offset + 15) /\ v \notin DOMAIN Syscalls
      BY <1>d, <3>0 DEF Lines
    <3>3. IrqTypeOK'
      BY <3>1, <3>2 DEF IrqInv, IrqTypeOK, Boot
    <3>4. \A e \in Driver : Hooked(e) => Hooked(e)'
      BY <1>d, <3>0, <3>1 DEF Hooked, Lines
    <3>5. Hooked(d)'
      BY <1>d, <3>0, <3>1 DEF Hooked
    <3>6. \A e \in Driver : n - 1 <= LeftWhenHooked(e) => n <= LeftWhenHooked(e) \/ e = d
      BY <1>s, <2>1 DEF LeftWhenHooked
    <3>7. TableInv'
      BY <1>0, <1>1, <1>d, <3>1, <3>2, <3>4, <3>5, <3>6 DEF IrqInv, TableInv
    <3>. QED
      BY <3>3, <3>7
  <2>2. CASE setup[1][2] = "enable"
    <3>1. idt' = idt /\ imr' = [imr EXCEPT !["master"] = @ \ { Irq[d] }]
      BY <1>d, <2>2, <1>0, MasterLine DEF Boot, p8259a_irq_enable
    <3>2. Hooked(d)
      <4>1. n <= LeftWhenHooked(d)
        BY <1>s, <2>2 DEF LeftWhenHooked
      <4>. QED
        BY <1>0, <1>d, <4>1 DEF IrqInv, TableInv
    <3>3. imr' \in [ Pic -> SUBSET Lines ] /\ imr'["master"] = imr["master"] \ { Irq[d] }
      BY <3>1 DEF IrqInv, IrqTypeOK, Pic
    <3>4. IrqTypeOK'
      BY <3>1, <3>3 DEF IrqInv, IrqTypeOK, Boot
    <3>5. \A e \in Driver : n - 1 <= LeftWhenHooked(e) => n <= LeftWhenHooked(e)
      BY <1>s, <2>2 DEF LeftWhenHooked
    <3>6. \A e : Hooked(e)' <=> Hooked(e)
      BY <3>1 DEF Hooked
    <3>7. TableInv'
      BY <1>0, <1>1, <1>d, <3>1, <3>2, <3>3, <3>5, <3>6 DEF IrqInv, TableInv
    <3>. QED
      BY <3>4, <3>7
  <2>. QED
    BY <1>s, <2>1, <2>2
<1>. QED
  BY <1>1, <1>3, <1>4 DEF IrqInv

\* An interrupt that the CPU takes: its line is unmasked, so its entry leads to the
\* handler of its driver, and no other line is in service.
LEMMA DeliverInv == IrqInv /\ Deliver => IrqInv'
<1>. SUFFICES ASSUME IrqInv, Deliver PROVE IrqInv'
  OBVIOUS
<1>. USE InterruptsAssumption
<1>1. PICK n : n = Min(irr \ imr["master"])
  OBVIOUS
<1>2. n \in irr /\ n \in Lines /\ n \notin imr["master"]
  BY <1>1, MinLine DEF IrqInv, IrqTypeOK, Deliver
<1>3. PICK d \in Driver : Irq[d] = n /\ Hooked(d)
  BY <1>2 DEF IrqInv, TableInv
<1>4. PICK f : f = [ by |-> d, line |-> Irq[d], todo |-> HandlerSteps(d) ]
  OBVIOUS
<1>5. /\ irr' = irr \ { n } /\ isr' = isr \cup { n } /\ frame' = [frame EXCEPT ![running] = f]
      /\ UNCHANGED << setup, idt, imr, running >>
  BY <1>1, <1>3, <1>4 DEF Deliver, Hooked
<1>6. isr = {}
  BY DEF IrqInv, InServiceExact, Deliver, NoHandler
<1>7. /\ f.todo = HandlerSteps(d) /\ f.line = n
      /\ \E k \in 1..Len(f.todo) : f.todo[k] = "ack"
  BY <1>3, <1>4 DEF HandlerSteps
<1>8. FrameOK(f)
  <2>1. HandlerSteps(d) \in Rest(d)
    BY DEF HandlerSteps, Rest
  <2>. QED
    BY <1>4, <2>1 DEF FrameOK
<1>9. running \in IrqTask /\ DOMAIN frame = IrqTask
  BY DEF IrqInv, IrqTypeOK
<1>10. frame'[running] = f /\ \A t \in IrqTask : t # running => frame'[t] = frame[t]
  BY <1>5, <1>9
<1>11. IrqTypeOK'
  BY <1>2, <1>5 DEF IrqInv, IrqTypeOK
<1>12. SetupInv' /\ TableInv'
  BY <1>5 DEF IrqInv, SetupInv, TableInv, Hooked
<1>13. FrameInv'
  BY <1>5, <1>8, <1>9, <1>10 DEF IrqInv, FrameInv
<1>14. InServiceExact'
  BY <1>5, <1>6, <1>7, <1>10 DEF InServiceExact
<1>. QED
  BY <1>11, <1>12, <1>13, <1>14 DEF IrqInv

HasAck(todo) == \E k \in 1..Len(todo) : todo[k] = "ack"

\* What is left of a handler after each of its steps.
LEMMA RestTail ==
    ASSUME NEW d \in Driver, NEW todo \in Rest(d), todo # << >>
    PROVE  /\ Tail(todo) \in Rest(d)
           /\ todo[1] = "ack" => HasAck(todo) /\ ~HasAck(Tail(todo))
           /\ todo[1] = "body" => (HasAck(Tail(todo)) <=> HasAck(todo))
           /\ todo[1] = "body" /\ d # "uart" => todo = << "body" >> /\ Tail(todo) = << >>
<1>1. /\ Tail(<< "body", "ack" >>) = << "ack" >> /\ Tail(<< "ack", "body" >>) = << "body" >>
      /\ Tail(<< "ack" >>) = << >> /\ Tail(<< "body" >>) = << >>
  OBVIOUS
<1>2. /\ HasAck(<< "body", "ack" >>) /\ HasAck(<< "ack", "body" >>) /\ HasAck(<< "ack" >>)
      /\ ~HasAck(<< "body" >>) /\ ~HasAck(<< >>)
  BY DEF HasAck
<1>3. \/ d = "uart" /\ todo = << "body", "ack" >> /\ Tail(todo) = << "ack" >> /\ todo[1] = "body"
      \/ d = "uart" /\ todo = << "ack" >> /\ Tail(todo) = << >> /\ todo[1] = "ack"
      \/ d # "uart" /\ todo = << "ack", "body" >> /\ Tail(todo) = << "body" >> /\ todo[1] = "ack"
      \/ d # "uart" /\ todo = << "body" >> /\ Tail(todo) = << >> /\ todo[1] = "body"
  <2>1. \/ d = "uart" /\ todo = << "body", "ack" >>
        \/ d = "uart" /\ todo = << "ack" >>
        \/ d # "uart" /\ todo = << "ack", "body" >>
        \/ d # "uart" /\ todo = << "body" >>
    BY Zenon DEF Rest
  <2>2. /\ << "body", "ack" >>[1] = "body" /\ << "ack" >>[1] = "ack"
        /\ << "ack", "body" >>[1] = "ack" /\ << "body" >>[1] = "body"
    OBVIOUS
  <2>. QED
    BY <1>1, <2>1, <2>2, Zenon
<1>4. Tail(todo) \in Rest(d)
  BY <1>3, Zenon DEF Rest
<1>5. "ack" # "body"
  OBVIOUS
<1>. QED
  BY <1>2, <1>3, <1>4, <1>5, Zenon

\* Where a handler that has something to do stands.
LEMMA HandlerPoint ==
    ASSUME IrqInv, frame[running].todo # << >>
    PROVE  \E d \in Driver : /\ frame[running].by = d /\ frame[running].line = Irq[d]
                            /\ frame[running].todo \in Rest(d)
<1>1. FrameOK(frame[running]) /\ frame[running] # NoHandler
  BY DEF IrqInv, IrqTypeOK, FrameInv, NoHandler
<1>. QED
  <2>1. PICK d \in Driver, todo \in UNION { Rest(e) : e \in Driver } :
           todo \in Rest(d) /\ frame[running] = [ by |-> d, line |-> Irq[d], todo |-> todo ]
    BY <1>1 DEF FrameOK
  <2>. QED
    BY <2>1

\* A handler that goes on keeps the shape of its frame.
LEMMA StepFrame ==
    ASSUME IrqInv, frame[running].todo # << >>, Step
    PROVE  /\ DOMAIN frame' = IrqTask
           /\ \A t \in IrqTask : FrameOK(frame'[t])
           /\ frame'[running].todo = Tail(frame[running].todo)
           /\ frame'[running].line = frame[running].line
           /\ \A t \in IrqTask : t # running => frame'[t].todo = << >>
<1>. USE InterruptsAssumption
<1>1. running \in IrqTask /\ DOMAIN frame = IrqTask
  BY DEF IrqInv, IrqTypeOK
<1>2. PICK d \in Driver, todo \in UNION { Rest(e) : e \in Driver } :
         todo \in Rest(d) /\ frame[running] = [ by |-> d, line |-> Irq[d], todo |-> todo ]
  BY <1>1 DEF IrqInv, FrameInv, FrameOK, NoHandler
<1>3. PICK f : f = [ by |-> d, line |-> Irq[d], todo |-> Tail(todo) ]
  OBVIOUS
<1>4. frame' = [frame EXCEPT ![running] = f]
  <2>1. frame' = [frame EXCEPT ![running] = [frame[running] EXCEPT !.todo = Tail(@)]]
    BY <1>1 DEF Step
  <2>2. [frame[running] EXCEPT !.todo = Tail(@)] = f
    <3>1. PICK g : g = frame[running]
      OBVIOUS
    <3>2. g = [ by |-> d, line |-> Irq[d], todo |-> todo ] /\ g.todo = todo
      BY <1>2, <3>1
    <3>3. \A b, l, x, y : [[ by |-> b, line |-> l, todo |-> x ] EXCEPT !.todo = y]
                         = [ by |-> b, line |-> l, todo |-> y ]
      OBVIOUS
    <3>4. [g EXCEPT !.todo = Tail(todo)] = f
      <4>1. [[ by |-> d, line |-> Irq[d], todo |-> todo ] EXCEPT !.todo = Tail(todo)]
            = [ by |-> d, line |-> Irq[d], todo |-> Tail(todo) ]
        BY <3>3
      <4>. QED
        BY <1>3, <3>2, <4>1
    <3>. QED
      BY <3>1, <3>2, <3>4
  <2>. QED
    BY <2>1, <2>2
<1>5. Tail(todo) \in Rest(d)
  BY <1>2, RestTail
<1>6. FrameOK(f)
  BY <1>3, <1>5 DEF FrameOK
<1>7. frame'[running] = f /\ \A t \in IrqTask : t # running => frame'[t] = frame[t]
  BY <1>1, <1>4
<1>8. DOMAIN frame' = IrqTask
  BY <1>1, <1>4
<1>9. \A t \in IrqTask : FrameOK(frame'[t])
  BY <1>6, <1>7 DEF IrqInv, FrameInv
<1>10. f.todo = Tail(frame[running].todo) /\ f.line = frame[running].line
  BY <1>2, <1>3
<1>11. \A t \in IrqTask : t # running => frame'[t].todo = << >>
  BY <1>7 DEF IrqInv, FrameInv
<1>. QED
  BY <1>7, <1>8, <1>9, <1>10, <1>11

\* Every step keeps the invariant.
LEMMA IrqInvNext == IrqInv /\ [IrqNext]_irqvars => IrqInv'
<1>. SUFFICES ASSUME IrqInv, [IrqNext]_irqvars PROVE IrqInv'
  OBVIOUS
<1>. USE InterruptsAssumption
<1>0. running \in IrqTask /\ DOMAIN frame = IrqTask
  BY DEF IrqInv, IrqTypeOK
<1>1. CASE Boot
  BY <1>1, BootInv
<1>2. ASSUME NEW d \in Driver, Raise(d) PROVE IrqInv'
  BY <1>2 DEF IrqInv, Raise, IrqTypeOK, SetupInv, TableInv, Hooked, FrameInv, InServiceExact
<1>3. CASE Deliver
  BY <1>3, DeliverInv
<1>4. CASE HandlerAck
  <2>1. /\ frame[running].todo # << >> /\ frame[running].todo[1] = "ack"
        /\ isr' = irq_ack /\ Step /\ UNCHANGED << setup, idt, imr, irr, running >>
    BY <1>4 DEF HandlerAck
  <2>2. PICK d \in Driver : /\ frame[running].line = Irq[d] /\ frame[running].todo \in Rest(d)
    BY <2>1, HandlerPoint
  <2>3. isr = { Irq[d] }
    BY <2>1, <2>2, RestTail DEF IrqInv, InServiceExact, HasAck
  <2>4. isr' = {}
    <3>1. Min(isr) = Irq[d]
      BY <2>3, MinLine
    <3>. QED
      BY <2>1, <2>3, <3>1 DEF irq_ack
  <2>5. ~HasAck(frame'[running].todo)
    BY <2>1, <2>2, StepFrame, RestTail
  <2>6. FrameInv'
    BY <2>1, StepFrame DEF FrameInv
  <2>7. IrqTypeOK' /\ SetupInv' /\ TableInv'
    BY <2>1, <2>4, <2>6 DEF IrqInv, IrqTypeOK, FrameInv, SetupInv, TableInv, Hooked
  <2>. QED
    BY <2>1, <2>4, <2>5, <2>6, <2>7 DEF IrqInv, InServiceExact, HasAck
<1>5. CASE HandlerBody
  <2>1. /\ frame[running].todo # << >> /\ frame[running].todo[1] = "body"
        /\ Step /\ UNCHANGED << setup, idt, imr, irr, isr, running >>
    BY <1>5 DEF HandlerBody
  <2>2. PICK d \in Driver : /\ frame[running].line = Irq[d] /\ frame[running].todo \in Rest(d)
    BY <2>1, HandlerPoint
  <2>3. HasAck(frame'[running].todo) <=> HasAck(frame[running].todo)
    BY <2>1, <2>2, StepFrame, RestTail
  <2>4. FrameInv'
    BY <2>1, StepFrame DEF FrameInv
  <2>5. IrqTypeOK' /\ SetupInv' /\ TableInv'
    BY <2>1, <2>4 DEF IrqInv, IrqTypeOK, FrameInv, SetupInv, TableInv, Hooked
  <2>6. InServiceExact'
    BY <2>1, <2>3, StepFrame DEF IrqInv, InServiceExact, HasAck
  <2>. QED
    BY <2>4, <2>5, <2>6 DEF IrqInv
<1>6. CASE HandlerReturn
  <2>1. /\ frame[running].todo = << >> /\ frame' = [frame EXCEPT ![running] = NoHandler]
        /\ UNCHANGED << setup, idt, imr, irr, isr, running >>
    BY <1>6 DEF HandlerReturn
  <2>2. /\ frame'[running] = NoHandler /\ DOMAIN frame' = IrqTask
        /\ \A t \in IrqTask : t # running => frame'[t] = frame[t]
    BY <1>0, <2>1
  <2>3. FrameInv'
    BY <2>1, <2>2 DEF IrqInv, FrameInv, FrameOK
  <2>4. IrqTypeOK' /\ SetupInv' /\ TableInv'
    BY <2>1, <2>2 DEF IrqInv, IrqTypeOK, SetupInv, TableInv, Hooked
  <2>5. InServiceExact'
    BY <2>1, <2>2 DEF IrqInv, InServiceExact, NoHandler
  <2>. QED
    BY <2>3, <2>4, <2>5 DEF IrqInv
<1>7. ASSUME NEW t \in IrqTask, ClkSchedule(t) PROVE IrqInv'
  <2>1. /\ frame[running].by = "clk" /\ frame[running].todo # << >>
        /\ frame[running].todo[1] = "body" /\ t # running /\ running' = t
        /\ Step /\ UNCHANGED << setup, idt, imr, irr, isr >>
    BY <1>7 DEF ClkSchedule
  <2>2. frame[running].todo \in Rest("clk")
    BY <2>1, HandlerPoint
  <2>3. frame[running].todo = << "body" >> /\ frame'[running].todo = << >>
    BY <2>1, <2>2, StepFrame, RestTail
  <2>4. frame'[t].todo = << >>
    BY <2>1, StepFrame
  <2>5. FrameInv'
    BY <2>1, <2>3, StepFrame DEF FrameInv
  <2>6. IrqTypeOK' /\ SetupInv' /\ TableInv'
    BY <2>1, <2>5 DEF IrqInv, IrqTypeOK, FrameInv, SetupInv, TableInv, Hooked
  <2>7. InServiceExact'
    BY <2>1, <2>3, <2>4 DEF IrqInv, InServiceExact
  <2>. QED
    BY <2>5, <2>6, <2>7 DEF IrqInv
<1>8. ASSUME NEW t \in IrqTask, Sleep(t) PROVE IrqInv'
  <2>1. /\ frame[running] = NoHandler /\ t # running /\ running' = t
        /\ UNCHANGED << setup, idt, imr, irr, isr, frame >>
    BY <1>8 DEF Sleep
  <2>2. frame[running].todo = << >> /\ frame[t].todo = << >>
    BY <2>1 DEF IrqInv, FrameInv, NoHandler
  <2>3. FrameInv'
    BY <2>1, <2>2 DEF IrqInv, FrameInv
  <2>4. IrqTypeOK' /\ SetupInv' /\ TableInv'
    BY <2>1 DEF IrqInv, IrqTypeOK, SetupInv, TableInv, Hooked
  <2>5. InServiceExact'
    BY <2>1, <2>2 DEF IrqInv, InServiceExact
  <2>. QED
    BY <2>3, <2>4, <2>5 DEF IrqInv
<1>9. CASE UNCHANGED irqvars
  BY <1>9 DEF irqvars, IrqInv, IrqTypeOK, SetupInv, TableInv, Hooked, FrameInv, InServiceExact
<1>. QED
  BY <1>1, <1>2, <1>3, <1>4, <1>5, <1>6, <1>7, <1>8, <1>9 DEF IrqNext

\* The invariant holds whatever the devices request and the tasks do.
LEMMA IrqInvariant == IrqSpec => []IrqInv
<1>. QED
  BY IrqInvInit, IrqInvNext, PTL DEF IrqSpec

-----------------------------------------------------------------------------
(* The theorems.                                                           *)

\* Whatever is requested while the drivers hook their handlers and unmask their
\* lines (interrupts_handle(), irq_enable()), each interrupt runs the handler of the
\* driver whose line it is, and the entries of the system calls stay.
THEOREM InterruptsServedByOwn == IrqSpec => []ServedByOwn
<1>1. IrqInv => ServedByOwn
  BY DEF IrqInv, ServedByOwn, FrameInv, FrameOK, TableInv, NoHandler
<1>. QED
  BY <1>1, IrqInvariant, PTL

\* A line is in service at the controller exactly while its own handler runs and has
\* not called irq_ack() yet, whatever tasks clk_handler() switches between: no task is
\* left running with the clock, or all lines, blocked.
THEOREM InterruptsInServiceExact == IrqSpec => []InServiceExact
<1>1. IrqInv => InServiceExact
  BY DEF IrqInv
<1>. QED
  BY <1>1, IrqInvariant, PTL
=============================================================================
