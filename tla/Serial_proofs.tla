----------------------------- MODULE Serial_proofs -----------------------------
(***************************************************************************)
(* What is proved of the serial lines, and the types of all devices.       *)
(*                                                                         *)
(* An access to a FIFO, and the write of a read-modify-write, stand on     *)
(* what the access before them found.  The functions of the drivers are    *)
(* sequences in which that access is there, each value written is one the  *)
(* register may hold (Shape), and every step leaves such a sequence.       *)
(***************************************************************************)
EXTENDS Firmware_proofs

CsrBits == {"mtvec", "global", "software", "timer", "external"}

\* The registers with a type, and those that are merged into.
MayHold(reg, v) ==
  CASE reg \in {"mtimecmp_hi", "mtimecmp_lo"} -> v \in 0 .. Half - 1
    [] reg = "msip"           -> v \in {0, 1}
    [] reg = "perf_ctrl"      -> v \in BOOLEAN
    [] reg = "UART_CTRL"      -> v \subseteq {"TX", "RX"}
    [] reg = "SPI_CTRL"       -> v \subseteq {"EN", "CS_AUTO", "TX", "RX"}
    [] reg \in {"DOUT", "IRQ_MODE", "IRQ_POL", "IRQ_EN"} -> v \subseteq Pins
    [] reg = "PLIC_ENABLE"    -> v \subseteq Sources
    [] reg = "PLIC_PRIORITY"  -> \E src \in Sources, p \in {0, 1} : v = [s \in {src} |-> p]
    [] reg = "PLIC_THRESHOLD" -> v = 0
    [] reg = "CONTEXT_SEL"    -> v \in Contexts
    [] OTHER -> TRUE
Merged(s) ==
  CASE s = "uart" -> {"UART_CTRL"}
    [] s = "irq"  -> {"DOUT", "IRQ_MODE", "IRQ_POL", "IRQ_EN", "PLIC_ENABLE"}
    [] OTHER -> {}
StatusOf == {"UART_STATUS", "SPI_STATUS", "STATUS"}
Fits(a, s) ==
  /\ a[1] \in {"csrs", "csrc"} => a[2] \in CsrBits
  /\ a[1] = "until" => a[2] \in StatusOf
  /\ a[1] \in {"write", "merge"} => MayHold(a[2], a[3])
  /\ a[1] = "merge" => a[2] \in Merged(s)
  /\ a[1] = "write" /\ a[2] = "mtimecmp_hi" => a[4] \in Times

\* What an access stands on: a byte put and the room, a byte taken and the
\* byte, the end of a frame and the last bit.
IsPut(a)   == a[1] = "write" /\ a[2] = "TX_DATA"
IsGet(a)   == a[1] = "read" /\ a[2] = "RX_DATA"
IsTake(a)  == a[1] = "read" /\ a[2] = "SPI_RX_DATA"
IsLeave(a) == a[1] = "write" /\ a[2] = "CS_CTRL" /\ a[3] = {}
Leans(a)   == a[1] = "merge" \/ IsPut(a) \/ IsGet(a) \/ IsTake(a) \/ IsLeave(a)
LeansOn(a) ==
  CASE a[1] = "merge" -> R(a[2])
    [] IsPut(a)  -> Until("UART_STATUS", "TX_NOT_FULL")
    [] IsGet(a)  -> Until("UART_STATUS", "RX_NOT_EMPTY")
    [] IsTake(a) -> Until("SPI_STATUS", "RX_NOT_EMPTY")
    [] IsLeave(a) -> Until("SPI_STATUS", "IDLE")

\* What is left of a function, and a function that has not begun.
Shape(t, s) ==
  /\ IsSequence(t)
  /\ \A i \in 1 .. Len(t) : Fits(t[i], s) /\ (i > 1 /\ Leans(t[i]) => t[i - 1] = LeansOn(t[i]))
Whole(t, s) == Shape(t, s) /\ (t # <<>> => ~Leans(t[1]))

\* The empty function, one access, and two of which the second leans on the first.
LEMMA NoneIsWhole == \A s : Whole(<<>>, s)
<1>1. <<>> \in Seq({}) /\ Len(<<>>) = 0
  OBVIOUS
<1> QED BY <1>1 DEF Whole, Shape, IsSequence

\* One access that stands on nothing, for the accesses the drivers make.
LEMMA OneIsWhole ==
  ASSUME NEW a, NEW s, Fits(a, s), ~Leans(a)
  PROVE  Whole(<<a>>, s)
<1>1. <<a>> \in Seq({a}) /\ Len(<<a>>) = 1 /\ \A i \in 1 .. Len(<<a>>) : <<a>>[i] = a
  OBVIOUS
<1> QED BY <1>1 DEF Whole, Shape, IsSequence

\* An access and the one it stands on: the poll of STATUS and the byte.
LEMMA PairIsWhole ==
  ASSUME NEW a, NEW b, NEW s, Fits(a, s), Fits(b, s), ~Leans(a), Leans(b) => a = LeansOn(b)
  PROVE  Whole(<<a, b>>, s)
<1>1. PICK t : t = <<a, b>>
  OBVIOUS
<1>2. t \in Seq({a, b}) /\ Len(t) = 2 /\ t[1] = a /\ t[2] = b
  BY <1>1
<1>3. ASSUME NEW i \in 1 .. Len(t)
      PROVE  Fits(t[i], s) /\ (i > 1 /\ Leans(t[i]) => t[i - 1] = LeansOn(t[i]))
  <2>1. i = 1 \/ i = 2
    BY <1>2
  <2>2. CASE i = 1
    BY <1>2, <2>2
  <2>3. CASE i = 2
    BY <1>2, <2>3
  <2> QED BY <2>1, <2>2, <2>3
<1>4. Whole(t, s)
  BY <1>2, <1>3 DEF Whole, Shape, IsSequence
<1> QED BY <1>1, <1>4

\* One function after another.
LEMMA BothAreWhole ==
  ASSUME NEW t, NEW u, NEW s, Whole(t, s), Whole(u, s)
  PROVE  Whole(t \o u, s)
<1>1. PICK S : t \in Seq(S)
  BY DEF Whole, Shape, IsSequence
<1>2. PICK T : u \in Seq(T)
  BY DEF Whole, Shape, IsSequence
<1>3. PICK U : U = S \cup T
  OBVIOUS
<1>4. t \in Seq(U) /\ u \in Seq(U)
  BY <1>1, <1>2, <1>3, SeqMonotonic
<1>5. PICK v, m, n : v = t \o u /\ m = Len(t) /\ n = Len(u)
  OBVIOUS
<1>6. /\ v \in Seq(U) /\ Len(v) = m + n /\ m \in Nat /\ n \in Nat
      /\ \A i \in 1 .. m + n : v[i] = IF i <= m THEN t[i] ELSE u[i - m]
  BY <1>4, <1>5, ConcatProperties, LenProperties
<1>7. /\ \A i \in 1 .. m : Fits(t[i], s) /\ (i > 1 /\ Leans(t[i]) => t[i - 1] = LeansOn(t[i]))
      /\ \A i \in 1 .. n : Fits(u[i], s) /\ (i > 1 /\ Leans(u[i]) => u[i - 1] = LeansOn(u[i]))
  BY <1>5 DEF Whole, Shape
<1>8. (m > 0 => ~Leans(t[1])) /\ (n > 0 => ~Leans(u[1]))
  BY <1>4, <1>5, <1>6, EmptySeq DEF Whole
<1>9. ASSUME NEW i \in 1 .. Len(v)
      PROVE  Fits(v[i], s) /\ (i > 1 /\ Leans(v[i]) => v[i - 1] = LeansOn(v[i]))
  <2>1. CASE i <= m
    <3>1. i \in 1 .. m /\ v[i] = t[i] /\ (i > 1 => v[i - 1] = t[i - 1])
      BY <1>6, <2>1
    <3> QED BY <1>7, <3>1
  <2>2. CASE ~(i <= m)
    <3>1. PICK j : j = i - m
      OBVIOUS
    <3>2. j \in 1 .. n /\ v[i] = u[j]
      BY <1>6, <2>2, <3>1
    <3>3. j > 1 => v[i - 1] = u[j - 1]
      <4>1. j > 1 => i - 1 \in 1 .. m + n /\ ~(i - 1 <= m) /\ (i - 1) - m = j - 1
        BY <1>6, <2>2, <3>1, <3>2
      <4> QED BY <1>6, <4>1
    <3>4. j = 1 => ~Leans(v[i])
      BY <1>6, <1>8, <3>2
    <3> QED BY <1>6, <1>7, <3>2, <3>3, <3>4
  <2> QED BY <2>1, <2>2
<1>10. v # <<>> => ~Leans(v[1])
  <2>1. CASE m > 0
    BY <1>6, <1>8, <2>1
  <2>2. CASE m = 0 /\ n > 0
    BY <1>6, <1>8, <2>2
  <2>3. CASE m = 0 /\ n = 0
    BY <1>6, <2>3, EmptySeq
  <2> QED BY <1>6, <2>1, <2>2, <2>3
<1>11. Whole(v, s)
  BY <1>6, <1>9, <1>10 DEF Whole, Shape, IsSequence
<1> QED BY <1>5, <1>11

\* What an access leaves.
LEMMA RestHasShape ==
  ASSUME NEW t, NEW s, Shape(t, s), t # <<>>
  PROVE  /\ Fits(Head(t), s) /\ Shape(Tail(t), s)
         /\ Tail(t) # <<>> /\ Leans(Head(Tail(t))) => Head(t) = LeansOn(Head(Tail(t)))
<1>1. PICK S : t \in Seq(S)
  BY DEF Shape, IsSequence
<1>2. PICK u : u = Tail(t)
  OBVIOUS
<1>3. /\ Len(t) \in Nat /\ Len(t) >= 1 /\ Head(t) = t[1] /\ u \in Seq(S)
      /\ Len(u) = Len(t) - 1 /\ \A i \in 1 .. Len(u) : u[i] = t[i + 1]
  BY <1>1, <1>2, HeadTailProperties
<1>4. Fits(Head(t), s)
  BY <1>3 DEF Shape
<1>5. ASSUME NEW i \in 1 .. Len(u)
      PROVE  Fits(u[i], s) /\ (Leans(u[i]) => t[i] = LeansOn(u[i])) /\ (i > 1 => t[i] = u[i - 1])
  <2>1. i + 1 \in 1 .. Len(t) /\ i + 1 > 1 /\ u[i] = t[i + 1] /\ (i + 1) - 1 = i
    BY <1>3
  <2>2. i > 1 => i - 1 \in 1 .. Len(u) /\ (i - 1) + 1 = i
    BY <1>3
  <2> QED BY <1>3, <2>1, <2>2 DEF Shape
<1>6. Shape(u, s)
  BY <1>3, <1>5 DEF Shape, IsSequence
<1>7. u # <<>> => 1 \in 1 .. Len(u) /\ Head(u) = u[1]
  BY <1>3, EmptySeq
<1> QED BY <1>2, <1>3, <1>4, <1>5, <1>6, <1>7

-----------------------------------------------------------------------------
(***************************************************************************)
(* The hart, in every scene.                                               *)
(***************************************************************************)
MergesTyped(t, values) == t # <<>> /\ Head(t)[1] = "merge" => MayHold(Head(t)[2], values[Len(values)])
HartKept ==
  /\ HartTypeOK /\ (Thread => isrSeen = <<>>)
  /\ Shape(todo, scene) /\ IsSequence(seen) /\ MergesTyped(todo, seen)
  /\ Shape(isrTodo, scene) /\ IsSequence(isrSeen) /\ MergesTyped(isrTodo, isrSeen)

\* A merge of two values a register may hold is one.
LEMMA MergedMayBeHeld ==
  ASSUME NEW s, NEW reg \in Merged(s), NEW old, NEW bits, NEW mask,
         MayHold(reg, old), MayHold(reg, bits)
  PROVE  MayHold(reg, (old \ mask) \cup bits)
<1>1. reg \in {"UART_CTRL", "DOUT", "IRQ_MODE", "IRQ_POL", "IRQ_EN", "PLIC_ENABLE"}
  <2>1. CASE s = "uart"
    BY <2>1 DEF Merged
  <2>2. CASE s = "irq"
    BY <2>2 DEF Merged
  <2>3. CASE s # "uart" /\ s # "irq"
    BY <2>3 DEF Merged
  <2> QED BY <2>1, <2>2, <2>3
<1>2. CASE reg = "UART_CTRL"
  BY <1>2 DEF MayHold
<1>3. CASE reg = "PLIC_ENABLE"
  BY <1>3 DEF MayHold
<1>4. CASE reg \in {"DOUT", "IRQ_MODE", "IRQ_POL", "IRQ_EN"}
  BY <1>4 DEF MayHold
<1> QED BY <1>1, <1>2, <1>3, <1>4

\* What an access writes, the register it writes to may hold.
LEMMA WrittenMayBeHeld ==
  ASSUME HartKept, Current # <<>>
  PROVE  /\ Fits(Head(Current), scene)
         /\ \A reg : Writes(reg) => MayHold(reg, Written)
<1>1. /\ Shape(Current, scene) /\ MergesTyped(Current, Values)
  BY DEF HartKept, Current, Values
<1>2. PICK a : a = Head(Current)
  OBVIOUS
<1>3. Fits(a, scene)
  BY <1>1, <1>2, RestHasShape
<1>4. ASSUME NEW reg, Writes(reg) PROVE MayHold(reg, Written)
  <2>1. a[2] = reg /\ a[1] \in {"write", "merge"} /\ MayHold(reg, a[3])
    BY <1>2, <1>3, <1>4 DEF Writes, Op, Reg, Fits
  <2>2. CASE a[1] = "write"
    BY <1>2, <2>1, <2>2 DEF Written, Op
  <2>3. CASE a[1] = "merge"
    <3>1. PICK old : old = Values[Len(Values)]
      OBVIOUS
    <3>2. reg \in Merged(scene) /\ MayHold(reg, old)
      BY <1>1, <1>2, <1>3, <2>1, <2>3, <3>1 DEF Fits, MergesTyped
    <3>3. Written = (old \ a[4]) \cup a[3]
      BY <1>2, <2>3, <3>1 DEF Written, Op, Into
    <3> QED BY <2>1, <3>2, <3>3, MergedMayBeHeld
  <2> QED BY <2>1, <2>2, <2>3
<1> QED BY <1>2, <1>3, <1>4

\* What one access leaves of a function, and of what was read.
LEMMA RestIsTyped ==
  ASSUME NEW t, NEW values, NEW v, NEW s, Shape(t, s), t # <<>>, IsSequence(values),
         Head(t)[1] = "read" /\ Head(t)[2] \in Merged(s) => MayHold(Head(t)[2], v)
  PROVE  LET read == IF Head(t)[1] = "read" THEN Append(values, v) ELSE values IN
         Shape(Tail(t), s) /\ IsSequence(read) /\ MergesTyped(Tail(t), read)
<1>1. PICK read : read = IF Head(t)[1] = "read" THEN Append(values, v) ELSE values
  OBVIOUS
<1>2. PICK u, a : u = Tail(t) /\ a = Head(t)
  OBVIOUS
<1>3. Fits(a, s) /\ Shape(u, s) /\ (u # <<>> /\ Leans(Head(u)) => a = LeansOn(Head(u)))
  BY <1>2, RestHasShape
<1>4. IsSequence(read)
  BY <1>1, AppendedIsSequence
<1>5. MergesTyped(u, read)
  <2>1. SUFFICES ASSUME u # <<>>, Head(u)[1] = "merge" PROVE MayHold(Head(u)[2], read[Len(read)])
    BY DEF MergesTyped
  <2>2. PICK b : b = Head(u)
    OBVIOUS
  <2>3. Fits(b, s)
    BY <1>3, <2>1, <2>2, RestHasShape
  <2>4. a = R(b[2])
    BY <1>3, <2>1, <2>2 DEF Leans, LeansOn, IsPut, IsGet, IsTake, IsLeave
  <2>5. a[1] = "read" /\ a[2] = b[2]
    BY <2>4 DEF R
  <2>6. b[2] \in Merged(s)
    BY <2>1, <2>2, <2>3 DEF Fits
  <2>7. read = Append(values, v) /\ MayHold(b[2], v)
    BY <1>1, <1>2, <2>5, <2>6
  <2> QED BY <2>2, <2>7, LastAppended
<1> QED BY <1>1, <1>2, <1>3, <1>4, <1>5

\* An access takes the head of its sequence, and what it read is what its
\* register may hold.
LEMMA AccessKeepsHart ==
  ASSUME HartKept, Current # <<>>, NEW v, Access(v), scene' = scene,
         Op = "read" /\ Reg \in Merged(scene) => MayHold(Reg, v)
  PROVE  HartKept'
<1>1. /\ UNCHANGED <<call, isr, calls>> /\ (Thread' <=> Thread)
      /\ enabled' = CASE Op = "csrs" -> enabled \cup {Reg}
                      [] Op = "csrc" -> enabled \ {Reg}
                      [] OTHER -> enabled
  BY DEF Access, Thread
<1>2. Fits(Head(Current), scene)
  BY WrittenMayBeHeld
<1>3. enabled' \subseteq CsrBits
  <2>1. enabled \subseteq CsrBits
    BY DEF HartKept, HartTypeOK, CsrBits
  <2>2. CASE Op = "csrs"
    BY <1>1, <1>2, <2>1, <2>2 DEF Fits, Op, Reg
  <2>3. CASE Op # "csrs"
    BY <1>1, <2>1, <2>3
  <2> QED BY <2>2, <2>3
<1>4. CASE Thread
  <2>1. /\ todo' = Tail(todo) /\ UNCHANGED <<isrTodo, isrSeen>> /\ todo # <<>>
        /\ seen' = IF Head(todo)[1] = "read" THEN Append(seen, v) ELSE seen
    BY <1>4 DEF Access, Current, Values, Op
  <2>2. Shape(todo', scene) /\ IsSequence(seen') /\ MergesTyped(todo', seen')
    BY <1>4, <2>1, RestIsTyped DEF HartKept, Op, Reg, Current
  <2>3. call # "none"
    BY <2>1 DEF HartKept, HartTypeOK
  <2> QED BY <1>1, <1>3, <2>1, <2>2, <2>3 DEF HartKept, HartTypeOK, MergesTyped, Thread, CsrBits
<1>5. CASE ~Thread
  <2>1. /\ isrTodo' = Tail(isrTodo) /\ UNCHANGED <<todo, seen>> /\ isrTodo # <<>>
        /\ isrSeen' = IF Head(isrTodo)[1] = "read" THEN Append(isrSeen, v) ELSE isrSeen
    BY <1>5 DEF Access, Current, Values, Op
  <2>2. Shape(isrTodo', scene) /\ IsSequence(isrSeen') /\ MergesTyped(isrTodo', isrSeen')
    BY <1>5, <2>1, RestIsTyped DEF HartKept, Op, Reg, Current
  <2> QED BY <1>1, <1>3, <1>5, <2>1, <2>2 DEF HartKept, HartTypeOK, MergesTyped, Thread, CsrBits
<1> QED BY <1>4, <1>5

\* A function that begins needs no reading yet.
LEMMA WholeIsTyped ==
  ASSUME NEW t, NEW s, Whole(t, s)
  PROVE  /\ Shape(t, s) /\ IsSequence(<<>>) /\ \A values : MergesTyped(t, values)
         /\ t # <<>> => ~Leans(Head(t))
<1>1. <<>> \in Seq({})
  OBVIOUS
<1>2. t # <<>> => ~Leans(Head(t))
  <2>1. PICK S : t \in Seq(S)
    BY DEF Whole, Shape, IsSequence
  <2> QED BY <2>1 DEF Whole
<1> QED BY <1>1, <1>2 DEF Whole, IsSequence, MergesTyped, Leans

\* The calls, the returns and the interrupts.
LEMMA BeginKeepsHart ==
  ASSUME HartKept, NEW f, NEW t, Begin(f, t), f # "none", Whole(t, scene), scene' = scene
  PROVE  HartKept'
<1>1. /\ Shape(t, scene) /\ IsSequence(<<>>) /\ MergesTyped(t, <<>>)
  BY WholeIsTyped
<1>2. /\ call' = f /\ todo' = t /\ seen' = <<>> /\ calls' = calls - 1 /\ calls \in Nat /\ calls > 0
      /\ UNCHANGED <<isr, isrTodo, isrSeen, enabled>>
  BY DEF Begin, HartKept, HartTypeOK, handler
<1>3. calls' \in Nat
  BY <1>2
<1> QED BY <1>1, <1>2, <1>3 DEF HartKept, HartTypeOK, MergesTyped, Thread

\* A call, and a call's next accesses, start on a whole sequence.
LEMMA ContinueKeepsHart ==
  ASSUME HartKept, NEW t, Continue(t), call # "none", Whole(t, scene), scene' = scene
  PROVE  HartKept'
<1>1. /\ Shape(t, scene) /\ IsSequence(<<>>) /\ MergesTyped(t, <<>>)
  BY WholeIsTyped
<1>2. /\ todo' = t /\ seen' = <<>> /\ UNCHANGED <<call, calls, isr, isrTodo, isrSeen, enabled>>
  BY DEF Continue, handler
<1> QED BY <1>1, <1>2 DEF HartKept, HartTypeOK, MergesTyped, Thread

\* A call returns when its accesses are done.
LEMMA ReturnKeepsHart ==
  ASSUME HartKept, Return, todo = <<>>, scene' = scene
  PROVE  HartKept'
<1>1. call' = "none" /\ seen' = <<>> /\ UNCHANGED <<todo, calls, isr, isrTodo, isrSeen, enabled>>
  BY DEF Return, handler
<1>2. IsSequence(<<>>)
  BY NoneIsWhole, WholeIsTyped
<1> QED BY <1>1, <1>2 DEF HartKept, HartTypeOK, MergesTyped, Thread

\* The trap handler starts on a whole sequence, beside the call's.
LEMMA InterruptKeepsHart ==
  ASSUME HartKept, NEW cause \in {"software", "timer", "external"}, NEW t, Interrupt(cause, t),
         Whole(t, scene), scene' = scene
  PROVE  HartKept'
<1>1. /\ Shape(t, scene) /\ IsSequence(<<>>) /\ MergesTyped(t, <<>>)
  BY WholeIsTyped
<1>2. /\ isr' = cause /\ isrTodo' = t /\ isrSeen' = <<>> /\ UNCHANGED <<call, todo, seen, calls, enabled>>
  BY DEF Interrupt, thread
<1> QED BY <1>1, <1>2 DEF HartKept, HartTypeOK, MergesTyped, Thread

\* The handler's next accesses, after what it read.
LEMMA HandlerContinueKeepsHart ==
  ASSUME HartKept, NEW t, HandlerContinue(t), ~Thread, Whole(t, scene), scene' = scene
  PROVE  HartKept'
<1>1. /\ Shape(t, scene) /\ IsSequence(<<>>) /\ MergesTyped(t, <<>>)
  BY WholeIsTyped
<1>2. /\ isrTodo' = t /\ isrSeen' = <<>> /\ UNCHANGED <<call, todo, seen, calls, isr, enabled>>
  BY DEF HandlerContinue, thread
<1> QED BY <1>1, <1>2 DEF HartKept, HartTypeOK, MergesTyped, Thread

\* The handler returns to the call.
LEMMA MretKeepsHart ==
  ASSUME HartKept, Mret, isrTodo = <<>>, scene' = scene
  PROVE  HartKept'
<1>1. isr' = "none" /\ isrSeen' = <<>> /\ UNCHANGED <<call, todo, seen, calls, isrTodo, enabled>>
  BY DEF Mret, thread
<1>2. IsSequence(<<>>)
  BY NoneIsWhole, WholeIsTyped
<1> QED BY <1>1, <1>2 DEF HartKept, HartTypeOK, MergesTyped, Thread

\* A step of a device leaves the hart alone.
LEMMA StillHart ==
  ASSUME HartKept, UNCHANGED hart, scene' = scene
  PROVE  HartKept'
BY DEF hart, thread, handler, HartKept, HartTypeOK, MergesTyped, Thread

\* The accesses of the drivers, one by one.
LEMMA AccessesAreWhole ==
  ASSUME NEW s
  PROVE  /\ \A reg, v : MayHold(reg, v) /\ reg \notin {"TX_DATA", "mtimecmp_hi"}
                          /\ (reg = "CS_CTRL" => v # {}) => Whole(<<W(reg, v)>>, s)
         /\ \A reg : reg \notin {"RX_DATA", "SPI_RX_DATA"} => Whole(<<R(reg)>>, s)
         /\ \A reg \in StatusOf : \A what : Whole(<<Until(reg, what)>>, s)
         /\ \A b \in CsrBits : Whole(<<<<"csrs", b>>>>, s) /\ Whole(<<<<"csrc", b>>>>, s)
<1>1. ASSUME NEW reg, NEW v, MayHold(reg, v), reg \notin {"TX_DATA", "mtimecmp_hi"},
             reg = "CS_CTRL" => v # {}
      PROVE  Whole(<<W(reg, v)>>, s)
  <2>1. PICK a : a = W(reg, v)
    OBVIOUS
  <2>2. a[1] = "write" /\ a[2] = reg /\ a[3] = v
    BY <2>1 DEF W
  <2>3. Fits(a, s) /\ ~Leans(a)
    BY <1>1, <2>2 DEF Fits, Leans, IsPut, IsGet, IsTake, IsLeave
  <2> QED BY <2>1, <2>3, OneIsWhole
<1>2. ASSUME NEW reg, reg \notin {"RX_DATA", "SPI_RX_DATA"} PROVE Whole(<<R(reg)>>, s)
  <2>1. PICK a : a = R(reg)
    OBVIOUS
  <2>2. a[1] = "read" /\ a[2] = reg
    BY <2>1 DEF R
  <2> QED BY <1>2, <2>1, <2>2, OneIsWhole DEF Fits, Leans, IsPut, IsGet, IsTake, IsLeave
<1>3. ASSUME NEW reg \in StatusOf, NEW what PROVE Whole(<<Until(reg, what)>>, s)
  <2>1. PICK a : a = Until(reg, what)
    OBVIOUS
  <2>2. a[1] = "until" /\ a[2] = reg
    BY <2>1 DEF Until
  <2> QED BY <2>1, <2>2, OneIsWhole DEF Fits, Leans, IsPut, IsGet, IsTake, IsLeave
<1>4. ASSUME NEW b \in CsrBits, NEW op \in {"csrs", "csrc"} PROVE Whole(<<<<op, b>>>>, s)
  <2>1. PICK a : a = <<op, b>>
    OBVIOUS
  <2>2. a[1] = op /\ a[2] = b
    BY <2>1
  <2> QED BY <1>4, <2>1, <2>2, OneIsWhole DEF Fits, Leans, IsPut, IsGet, IsTake, IsLeave
<1> QED BY <1>1, <1>2, <1>3, <1>4

\* A read-modify-write reads the register it writes.
LEMMA MergeIsWhole ==
  ASSUME NEW s, NEW reg \in Merged(s), NEW bits, NEW mask, MayHold(reg, bits)
  PROVE  Whole(Merge(reg, bits, mask), s)
<1>1. PICK a, b : a = R(reg) /\ b = <<"merge", reg, bits, mask>>
  OBVIOUS
<1>2. a[1] = "read" /\ a[2] = reg /\ b[1] = "merge" /\ b[2] = reg /\ b[3] = bits
  BY <1>1 DEF R
<1>3. reg \notin {"RX_DATA", "SPI_RX_DATA"}
  BY DEF Merged
<1>4. Fits(a, s) /\ Fits(b, s) /\ ~Leans(a)
  BY <1>2, <1>3 DEF Fits, Leans, IsPut, IsGet, IsTake, IsLeave
<1>5. a = LeansOn(b)
  BY <1>1, <1>2 DEF LeansOn, IsPut, IsGet, IsTake, IsLeave
<1>6. Whole(<<a, b>>, s)
  BY <1>4, <1>5, PairIsWhole
<1> QED BY <1>1, <1>6 DEF Merge

\* irq.h, in every scene.
LEMMA EnablesAreWhole ==
  \A s : /\ Whole(irq_set_mtvec, s)
         /\ Whole(irq_enable_global, s) /\ Whole(irq_disable_global, s)
         /\ Whole(irq_enable_software, s) /\ Whole(irq_disable_software, s)
         /\ Whole(irq_enable_timer, s) /\ Whole(irq_disable_timer, s)
         /\ Whole(irq_enable_external, s) /\ Whole(irq_disable_external, s)
BY AccessesAreWhole DEF CsrBits, irq_set_mtvec, irq_enable_global, irq_disable_global, irq_enable_software,
   irq_disable_software, irq_enable_timer, irq_disable_timer, irq_enable_external, irq_disable_external

\* Explicit sequences.
LEMMA OneAndOne ==
  ASSUME NEW a, NEW b
  PROVE  <<a>> \o <<b>> = <<a, b>>
<1>1. PICK T : T = {a, b}
  OBVIOUS
<1>2. PICK x, y, z : x = <<a>> /\ y = <<b>> /\ z = <<a, b>>
  OBVIOUS
<1>3. /\ x \in Seq(T) /\ Len(x) = 1 /\ x[1] = a /\ y \in Seq(T) /\ Len(y) = 1 /\ y[1] = b
      /\ z \in Seq(T) /\ Len(z) = 2 /\ z[1] = a /\ z[2] = b
  BY <1>1, <1>2
<1>4. /\ x \o y \in Seq(T) /\ Len(x \o y) = 2
      /\ \A i \in 1 .. 2 : (x \o y)[i] = IF i <= 1 THEN x[i] ELSE y[i - 1]
  BY <1>3, ConcatProperties
<1>5. \A i \in 1 .. 2 : (x \o y)[i] = z[i]
  <2>1. (x \o y)[1] = a /\ (x \o y)[2] = b
    BY <1>3, <1>4
  <2>2. \A i \in 1 .. 2 : i = 1 \/ i = 2
    OBVIOUS
  <2> QED BY <1>3, <2>1, <2>2
<1>6. x \o y = z
  BY <1>3, <1>4, <1>5, SeqEqual
<1> QED BY <1>2, <1>6

\* Two accesses and one more are three.
LEMMA TwoAndOne ==
  ASSUME NEW a, NEW b, NEW c
  PROVE  <<a, b>> \o <<c>> = <<a, b, c>>
<1>1. PICK T : T = {a, b, c}
  OBVIOUS
<1>2. PICK x, y, z : x = <<a, b>> /\ y = <<c>> /\ z = <<a, b, c>>
  OBVIOUS
<1>3. /\ x \in Seq(T) /\ Len(x) = 2 /\ x[1] = a /\ x[2] = b /\ y \in Seq(T) /\ Len(y) = 1 /\ y[1] = c
      /\ z \in Seq(T) /\ Len(z) = 3 /\ z[1] = a /\ z[2] = b /\ z[3] = c
  BY <1>1, <1>2
<1>4. /\ x \o y \in Seq(T) /\ Len(x \o y) = 3
      /\ \A i \in 1 .. 3 : (x \o y)[i] = IF i <= 2 THEN x[i] ELSE y[i - 2]
  <2>1. /\ x \o y \in Seq(T) /\ Len(x \o y) = Len(x) + Len(y)
        /\ \A i \in 1 .. Len(x) + Len(y) : (x \o y)[i] = IF i <= Len(x) THEN x[i] ELSE y[i - Len(x)]
    BY <1>3, ConcatProperties
  <2>2. Len(x) + Len(y) = 3
    BY <1>3
  <2> QED BY <1>3, <2>1, <2>2
<1>5. \A i \in 1 .. 3 : (x \o y)[i] = z[i]
  <2>1. (x \o y)[1] = a /\ (x \o y)[2] = b /\ (x \o y)[3] = c
    BY <1>3, <1>4
  <2>2. \A i \in 1 .. 3 : i = 1 \/ i = 2 \/ i = 3
    OBVIOUS
  <2> QED BY <1>3, <2>1, <2>2
<1>6. x \o y = z
  BY <1>3, <1>4, <1>5, SeqEqual
<1> QED BY <1>2, <1>6

\* A function on 1 .. 2 is a pair.
LEMMA TwoOf ==
  ASSUME NEW f, f = [i \in 1 .. 2 |-> f[i]]
  PROVE  f = <<f[1], f[2]>>
<1>1. PICK g : g = <<f[1], f[2]>>
  OBVIOUS
<1>2. g = [i \in 1 .. 2 |-> g[i]] /\ g[1] = f[1] /\ g[2] = f[2]
  BY <1>1
<1>3. \A i \in 1 .. 2 : g[i] = f[i]
  BY <1>2
<1>4. [i \in 1 .. 2 |-> f[i]] = [i \in 1 .. 2 |-> g[i]]
  BY <1>3
<1> QED BY <1>1, <1>2, <1>4

\* The concatenation of two sequences.
LEMMA FlattenTwo ==
  ASSUME NEW a, NEW b
  PROVE  FlattenSeq(<<a, b>>) = a \o b
<1>1. PICK s : s = <<a, b>>
  OBVIOUS
<1>2. Len(s) = 2 /\ s[1] = a /\ s[2] = b
  BY <1>1
<1> DEFINE Recurs(f) == f = [i \in 1 .. Len(s) |-> IF i = 1 THEN s[i] ELSE f[i - 1] \o s[i]]
<1>3. \E f : Recurs(f)
  <2>1. PICK f : f = [i \in 1 .. 2 |-> IF i = 1 THEN a ELSE a \o b]
    OBVIOUS
  <2>2. \A i \in 1 .. 2 : f[i] = IF i = 1 THEN s[i] ELSE f[i - 1] \o s[i]
    BY <1>2, <2>1
  <2>3. Recurs(f)
    BY <1>2, <2>1, <2>2
  <2> QED BY <2>3
<1>4. PICK g : g = CHOOSE f : Recurs(f)
  OBVIOUS
<1>5. Recurs(g)
  BY <1>3, <1>4
<1>6. g[1] = a /\ g[2] = a \o b
  <2> DEFINE Body(i) == IF i = 1 THEN s[i] ELSE g[i - 1] \o s[i]
  <2>1. g = [i \in 1 .. 2 |-> Body(i)]
    BY <1>2, <1>5
  <2> HIDE DEF Body
  <2>2. g[1] = Body(1) /\ g[2] = Body(2)
    BY <2>1
  <2>3. Body(1) = a /\ Body(2) = g[1] \o b
    BY <1>2 DEF Body
  <2> QED BY <2>2, <2>3
<1>7. FlattenSeq(s) = g[2]
  BY <1>2, <1>4 DEF FlattenSeq
<1> QED BY <1>1, <1>6, <1>7

-----------------------------------------------------------------------------
(***************************************************************************)
(* The UART.  Who puts a byte has seen room, and who takes one has seen it, *)
(* unless the handler came between; and the last thing the handler does is *)
(* to look once more.                                                      *)
(***************************************************************************)
Line == Range(Arrivals) \ {"old"}
UartWell ==
  /\ UartTypeOK /\ IsSequence(txFifo) /\ rxFifo \in Seq(Line) /\ coming \in Seq(Line)
  /\ shift = <<>> \/ \E b : shift = <<b>>
PutHolds   == todo # <<>> /\ IsPut(Head(todo)) => ~Full(txFifo) \/ crowded
GetHolds   == todo # <<>> /\ IsGet(Head(todo)) => rxFifo # <<>> \/ stolen
EchoHolds  == isrTodo # <<>> /\ IsPut(Head(isrTodo)) => ~Full(txFifo)
LooksAgain ==
  ~Thread => IF isrTodo # <<>> THEN isrTodo[Len(isrTodo)] = R("UART_STATUS")
             ELSE rxFifo # <<>> => rxIrq \/ unheard \/ "RX_NOT_EMPTY" \in Last(isrSeen)
UartInv ==
  /\ HartKept /\ UartWell /\ UartKept
  /\ PutHolds /\ GetHolds /\ EchoHolds /\ LooksAgain

\* What each kind of access leans on.
LEMMA LeansOnWhat ==
  ASSUME NEW a
  PROVE  /\ IsPut(a) => Leans(a) /\ LeansOn(a) = Until("UART_STATUS", "TX_NOT_FULL")
         /\ IsGet(a) => Leans(a) /\ LeansOn(a) = Until("UART_STATUS", "RX_NOT_EMPTY")
         /\ IsTake(a) => Leans(a) /\ LeansOn(a) = Until("SPI_STATUS", "RX_NOT_EMPTY")
         /\ IsLeave(a) => Leans(a) /\ LeansOn(a) = Until("SPI_STATUS", "IDLE")
BY DEF Leans, LeansOn, IsPut, IsGet, IsTake, IsLeave

\* What an access that leans on a poll can count on: the poll came just before it.
LEMMA LeansOnTheLast ==
  ASSUME NEW t, NEW s, Shape(t, s), t # <<>>, Tail(t) # <<>>, Leans(Head(Tail(t)))
  PROVE  Head(t) = LeansOn(Head(Tail(t)))
BY RestHasShape

\* The access of the UART, by kinds.
LEMMA UartAccessIs ==
  ASSUME UartInv, scene = "uart", Current # <<>>
  PROVE  /\ Writes("TX_DATA") => IsPut(Head(Current)) /\ Op = "write"
         /\ Reads("RX_DATA") => IsGet(Head(Current)) /\ Op = "read"
         /\ Writes("TX_DATA") => ~Reads("RX_DATA")
         /\ Writes("UART_CTRL") => Written \subseteq {"TX", "RX"}
         /\ Op = "read" /\ Reg \in Merged(scene) => MayHold(Reg, UartRead)
<1>1. PICK a : a = Head(Current)
  OBVIOUS
<1>2. Fits(a, scene) /\ (Writes("UART_CTRL") => MayHold("UART_CTRL", Written))
  BY <1>1, WrittenMayBeHeld DEF UartInv
<1>3. Op = a[1] /\ Reg = a[2]
  BY <1>1 DEF Op, Reg
<1>4. Merged(scene) = {"UART_CTRL"}
  BY DEF Merged
<1>5. a[1] = "merge" => a[2] = "UART_CTRL"
  BY <1>2, <1>4 DEF Fits
<1>6. a[1] = "until" => a[2] # "RX_DATA"
  BY <1>2 DEF Fits, StatusOf
<1>7. Op = "read" /\ Reg \in Merged(scene) => MayHold(Reg, UartRead)
  <2>1. Reg = "UART_CTRL" => UartRead = uartCtrl
    BY DEF UartRead
  <2> QED BY <1>4, <2>1 DEF MayHold, UartInv, UartWell, UartTypeOK
<1>8. MayHold("UART_CTRL", Written) => Written \subseteq {"TX", "RX"}
  BY DEF MayHold
<1> QED BY <1>1, <1>2, <1>3, <1>5, <1>6, <1>7, <1>8 DEF Writes, Reads, IsPut, IsGet

\* The queues after an access.
LEMMA UartQueues ==
  ASSUME UartInv, scene = "uart", UartAccess
  PROVE  UartWell' /\ SentInOrder'
<1>1. Current # <<>> /\ UartWrite
  BY DEF UartAccess
<1>2. PICK puts, gets : puts = Writes("TX_DATA") /\ gets = Reads("RX_DATA")
  OBVIOUS
<1>3. UartWell /\ SentInOrder
  BY DEF UartInv, UartKept
<1>4. PICK S : txFifo \in Seq(S)
  BY <1>3 DEF UartWell, IsSequence
<1>5. PICK T : T = S \cup {Written}
  OBVIOUS
<1>6. Seq(S) \subseteq Seq(T)
  BY <1>5, SeqMonotonic
<1>7. txFifo \in Seq(T) /\ Written \in T /\ UartDepth \in Nat /\ Len(txFifo) <= UartDepth
  BY <1>3, <1>4, <1>5, <1>6, UartConstants DEF UartWell, UartTypeOK
<1>8. /\ txFifo' = IF puts /\ ~Full(txFifo) THEN Append(txFifo, Written) ELSE txFifo
      /\ rxFifo' = IF gets /\ rxFifo # <<>> THEN Tail(rxFifo) ELSE rxFifo
      /\ owed' = IF puts /\ ~(crowded /\ Thread /\ Full(txFifo)) THEN Append(owed, Written) ELSE owed
      /\ UNCHANGED <<shift, coming>>
  BY <1>1, <1>2 DEF UartWrite
<1>9. txFifo' \in Seq(T) /\ Len(txFifo') <= UartDepth
  <2>1. Append(txFifo, Written) \in Seq(T) /\ Len(Append(txFifo, Written)) = Len(txFifo) + 1 /\ Len(txFifo) \in Nat
    BY <1>7, AppendProperties
  <2> QED BY <1>7, <1>8, <2>1 DEF Full
<1>10. rxFifo' \in Seq(Line) /\ Len(rxFifo') <= UartDepth
  <2>1. rxFifo \in Seq(Line) /\ Len(rxFifo) <= UartDepth
    BY <1>3 DEF UartWell, UartTypeOK
  <2>2. rxFifo # <<>> => Tail(rxFifo) \in Seq(Line) /\ Len(Tail(rxFifo)) = Len(rxFifo) - 1 /\ Len(rxFifo) \in Nat
    BY <2>1, HeadTailProperties
  <2> QED BY <1>7, <1>8, <2>1, <2>2
<1>11. /\ uartCtrl' \subseteq {"TX", "RX"} /\ txIrq' \in BOOLEAN /\ rxIrq' \in BOOLEAN
       /\ crowded' \in BOOLEAN /\ stolen' \in BOOLEAN /\ unheard' \in BOOLEAN
  <2>1. uartCtrl' \subseteq {"TX", "RX"}
    <3>1. Writes("UART_CTRL") => Written \subseteq {"TX", "RX"}
      BY <1>1, UartAccessIs
    <3> QED BY <1>1, <1>3, <3>1 DEF UartWrite, UartWell, UartTypeOK
  <2>2. txIrq' \in BOOLEAN /\ rxIrq' \in BOOLEAN /\ unheard' \in BOOLEAN
    BY <1>1 DEF UartWrite
  <2>3. crowded \in BOOLEAN /\ stolen \in BOOLEAN
    BY <1>3 DEF UartWell, UartTypeOK
  <2>4. \A reg, made, before \in BOOLEAN : Behind(reg, made, before) \in BOOLEAN
    BY DEF Behind
  <2>5. Writes("TX_DATA") \in BOOLEAN /\ Reads("RX_DATA") \in BOOLEAN
    BY DEF Writes, Reads
  <2>6. crowded' = Behind("TX_DATA", Writes("TX_DATA"), crowded)
        /\ stolen' = Behind("RX_DATA", Reads("RX_DATA"), stolen)
    BY <1>1 DEF UartWrite
  <2>7. crowded' \in BOOLEAN /\ stolen' \in BOOLEAN
    BY <2>3, <2>5, <2>6 DEF Behind
  <2> QED BY <2>1, <2>2, <2>7
<1>12. UartWell'
  <2>1. Len(shift') <= 1 /\ coming' \in Seq(Line) /\ (shift' = <<>> \/ \E b : shift' = <<b>>)
    BY <1>3, <1>8 DEF UartWell, UartTypeOK
  <2> QED BY <1>9, <1>10, <1>11, <2>1 DEF UartWell, UartTypeOK, IsSequence, Line
<1>13. SentInOrder'
  <2>1. CASE puts /\ ~Full(txFifo)
    <3>1. owed' = Append(shift \o txFifo, Written) /\ txFifo' = Append(txFifo, Written) /\ shift' = shift
      BY <1>3, <1>8, <2>1 DEF SentInOrder
    <3>2. CASE shift = <<>>
      <4>1. <<>> \o txFifo = txFifo /\ <<>> \o Append(txFifo, Written) = Append(txFifo, Written)
        BY <1>7, <1>9, <3>1, ConcatEmptySeq
      <4> QED BY <3>1, <3>2, <4>1 DEF SentInOrder
    <3>3. ASSUME NEW b, shift = <<b>> PROVE SentInOrder'
      <4>1. PICK U : U = T \cup {b}
        OBVIOUS
      <4>2. txFifo \in Seq(U) /\ <<b>> \in Seq(U) /\ Written \in U /\ <<Written>> \in Seq(U)
        <5>1. Seq(T) \subseteq Seq(U)
          BY <4>1, SeqMonotonic
        <5> QED BY <1>7, <4>1, <5>1
      <4>3. <<b>> \o txFifo \in Seq(U)
        BY <4>2, ConcatProperties
      <4>4. Append(<<b>> \o txFifo, Written) = (<<b>> \o txFifo) \o <<Written>>
        BY <4>2, <4>3, AppendIsConcat
      <4>5. Append(txFifo, Written) = txFifo \o <<Written>>
        BY <4>2, AppendIsConcat
      <4>6. (<<b>> \o txFifo) \o <<Written>> = <<b>> \o (txFifo \o <<Written>>)
        BY <4>2, ConcatAssociative
      <4> QED BY <3>1, <3>3, <4>4, <4>5, <4>6 DEF SentInOrder
    <3> QED BY <1>3, <3>2, <3>3 DEF UartWell
  <2>2. CASE puts /\ Full(txFifo)
    <3>1. IsPut(Head(Current))
      BY <1>1, <1>2, <2>2, UartAccessIs
    <3>2. Thread /\ crowded
      <4>1. CASE Thread
        BY <1>1, <2>2, <3>1, <4>1 DEF Current, UartInv, PutHolds
      <4>2. CASE ~Thread
        BY <1>1, <2>2, <3>1, <4>2 DEF Current, UartInv, EchoHolds
      <4> QED BY <4>1, <4>2
    <3> QED BY <1>3, <1>8, <2>2, <3>2 DEF SentInOrder
  <2>3. CASE ~puts
    BY <1>3, <1>8, <2>3 DEF SentInOrder
  <2> QED BY <2>1, <2>2, <2>3
<1> QED BY <1>12, <1>13

\* What a poll has seen, and what the handler did behind it.
LEMMA UartPolls ==
  ASSUME UartInv, scene = "uart", UartAccess
  PROVE  PutHolds' /\ GetHolds' /\ EchoHolds'
<1>1. /\ Current # <<>> /\ UartWrite /\ Access(UartRead)
      /\ Op = "until" => Head(Current)[3] \in UartStatus
  BY DEF UartAccess
<1>2. /\ Writes("TX_DATA") => IsPut(Head(Current))
      /\ Reads("RX_DATA") => IsGet(Head(Current))
  BY <1>1, UartAccessIs
<1>3. /\ txFifo' = IF Writes("TX_DATA") /\ ~Full(txFifo) THEN Append(txFifo, Written) ELSE txFifo
      /\ rxFifo' = IF Reads("RX_DATA") /\ rxFifo # <<>> THEN Tail(rxFifo) ELSE rxFifo
      /\ crowded' = Behind("TX_DATA", Writes("TX_DATA"), crowded)
      /\ stolen' = Behind("RX_DATA", Reads("RX_DATA"), stolen)
  BY <1>1 DEF UartWrite
<1>4. ASSUME NEW t, t = Current, t # <<>>, Tail(t) # <<>>
      PROVE  /\ IsPut(Head(Tail(t))) => ~Full(txFifo')
             /\ IsGet(Head(Tail(t))) => rxFifo' # <<>>
  <2>1. PICK a, b : a = Head(t) /\ b = Head(Tail(t))
    OBVIOUS
  <2>2. Shape(t, scene)
    BY <1>4 DEF UartInv, HartKept, Current
  <2>3. Leans(b) => a = LeansOn(b)
    BY <1>4, <2>1, <2>2, LeansOnTheLast
  <2>4. Op = a[1] /\ Reg = a[2] /\ Head(Current)[3] = a[3]
    BY <1>4, <2>1 DEF Op, Reg
  <2>5. ASSUME IsPut(b) PROVE ~Full(txFifo')
    <3>1. a = Until("UART_STATUS", "TX_NOT_FULL")
      BY <2>3, <2>5, LeansOnWhat
    <3>2. a[1] = "until" /\ a[2] = "UART_STATUS" /\ a[3] = "TX_NOT_FULL"
      BY <3>1 DEF Until
    <3>3. "TX_NOT_FULL" \in UartStatus /\ ~Writes("TX_DATA")
      BY <1>1, <2>4, <3>2 DEF Writes
    <3> QED BY <1>3, <3>3 DEF UartStatus
  <2>6. ASSUME IsGet(b) PROVE rxFifo' # <<>>
    <3>1. a = Until("UART_STATUS", "RX_NOT_EMPTY")
      BY <2>3, <2>6, LeansOnWhat
    <3>2. a[1] = "until" /\ a[2] = "UART_STATUS" /\ a[3] = "RX_NOT_EMPTY"
      BY <3>1 DEF Until
    <3>3. "RX_NOT_EMPTY" \in UartStatus /\ ~Reads("RX_DATA")
      BY <1>1, <2>4, <3>2 DEF Reads
    <3> QED BY <1>3, <3>3 DEF UartStatus
  <2> QED BY <2>1, <2>5, <2>6
<1>5. CASE Thread
  <2>1. todo = Current /\ todo' = Tail(todo) /\ isrTodo' = isrTodo /\ isrTodo = <<>>
    BY <1>1, <1>5 DEF Access, Current, UartInv, HartKept, HartTypeOK
  <2> QED BY <1>1, <1>4, <2>1 DEF PutHolds, GetHolds, EchoHolds, Full
<1>6. CASE ~Thread
  <2>1. isrTodo = Current /\ isrTodo' = Tail(isrTodo) /\ todo' = todo
    BY <1>1, <1>6 DEF Access, Current
  <2>2. EchoHolds'
    BY <1>1, <1>4, <2>1 DEF EchoHolds, Full
  <2>3. PutHolds'
    <3>1. SUFFICES ASSUME todo # <<>>, IsPut(Head(todo)) PROVE ~Full(txFifo') \/ crowded'
      BY <2>1 DEF PutHolds, Full
    <3>2. Relies("TX_DATA")
      BY <3>1 DEF Relies, IsPut
    <3>3. crowded' = (crowded \/ Writes("TX_DATA"))
      BY <1>3, <1>6, <3>2 DEF Behind
    <3> QED BY <1>3, <3>1, <3>3 DEF UartInv, PutHolds
  <2>4. GetHolds'
    <3>1. SUFFICES ASSUME todo # <<>>, IsGet(Head(todo)) PROVE rxFifo' # <<>> \/ stolen'
      BY <2>1 DEF GetHolds
    <3>2. Relies("RX_DATA")
      BY <3>1 DEF Relies, IsGet
    <3>3. stolen' = (stolen \/ Reads("RX_DATA"))
      BY <1>3, <1>6, <3>2 DEF Behind
    <3> QED BY <1>3, <3>1, <3>3 DEF UartInv, GetHolds
  <2> QED BY <2>2, <2>3, <2>4
<1> QED BY <1>5, <1>6

\* The head and the tail of a sequence behind an element.
LEMMA ConsIsTailed ==
  ASSUME NEW S, NEW s \in Seq(S), NEW b \in S
  PROVE  Tail(<<b>> \o s) = s
<1>1. PICK u : u = <<b>> \o s
  OBVIOUS
<1>2. <<b>> \in Seq(S) /\ Len(<<b>>) = 1
  OBVIOUS
<1>3. u \in Seq(S) /\ Len(u) = 1 + Len(s) /\ Len(s) \in Nat
      /\ \A i \in 1 .. 1 + Len(s) : u[i] = IF i <= 1 THEN <<b>>[i] ELSE s[i - 1]
  BY <1>1, <1>2, ConcatProperties, LenProperties
<1>4. u # <<>>
  BY <1>3, EmptySeq
<1>5. Tail(u) \in Seq(S) /\ Len(Tail(u)) = Len(s) /\ \A i \in 1 .. Len(s) : Tail(u)[i] = s[i]
  BY <1>3, <1>4, HeadTailProperties
<1>6. Tail(u) = s
  BY <1>5, SeqEqual
<1> QED BY <1>1, <1>6

\* No byte is forgotten, and none is made up.
LEMMA UartHears ==
  ASSUME UartInv, scene = "uart", UartAccess
  PROVE  GetcReturnsByte' /\ NoByteForgotten' /\ LooksAgain'
<1>1. /\ Current # <<>> /\ UartWrite /\ Access(UartRead) /\ (Thread' <=> Thread)
  BY DEF UartAccess, Access, Thread
<1>2. /\ Reads("RX_DATA") => IsGet(Head(Current)) /\ Op = "read"
  BY <1>1, UartAccessIs
<1>3. /\ rxFifo' = IF Reads("RX_DATA") /\ rxFifo # <<>> THEN Tail(rxFifo) ELSE rxFifo
      /\ rxIrq' = (rxIrq /\ ~(Writes("UART_IRQ_STATUS") /\ "RX" \in Written))
      /\ unheard' = (rxFifo' # <<>> /\ (unheard \/ (Thread /\ Writes("UART_IRQ_STATUS") /\ "RX" \in Written)))
      /\ got' = CASE Thread /\ Reads("RX_DATA") -> <<UartRead, stolen>> [] OTHER -> got
  BY <1>1 DEF UartWrite
<1>4. rxFifo \in Seq(Line) /\ GetcReturnsByte /\ (rxFifo # <<>> => Head(rxFifo) \in Line)
  BY DEF UartInv, UartWell, UartKept
<1>5. GetcReturnsByte'
  <2>1. CASE Thread /\ Reads("RX_DATA")
    <3>1. got' = <<UartRead, stolen>> /\ Reg = "RX_DATA"
      BY <1>3, <2>1 DEF Reads
    <3>2. got'[1] = UartRead /\ got'[2] = stolen
      BY <3>1
    <3>3. UartRead = IF rxFifo = <<>> THEN "old" ELSE Head(rxFifo)
      BY <3>1 DEF UartRead
    <3>4. rxFifo # <<>> => UartRead # "old"
      BY <1>4, <3>3 DEF Line
    <3>5. rxFifo # <<>> \/ stolen
      BY <1>1, <1>2, <2>1 DEF Current, UartInv, GetHolds
    <3> QED BY <3>2, <3>4, <3>5 DEF GetcReturnsByte
  <2>2. CASE ~(Thread /\ Reads("RX_DATA"))
    <3>1. got' = got
      BY <1>3, <2>2
    <3> QED BY <1>4, <3>1 DEF GetcReturnsByte
  <2> QED BY <2>1, <2>2
<1>6. rxFifo' # <<>> => rxFifo # <<>>
  BY <1>3
<1>7. CASE Thread
  <2>1. rxFifo # <<>> => rxIrq \/ unheard
    BY <1>7 DEF UartInv, UartKept, NoByteForgotten
  <2>2. NoByteForgotten'
    BY <1>3, <1>6, <1>7, <2>1 DEF NoByteForgotten
  <2> QED BY <1>1, <1>5, <1>7, <2>2 DEF LooksAgain
<1>8. CASE ~Thread
  <2>1. PICK t, u : t = isrTodo /\ u = Tail(t)
    OBVIOUS
  <2>2. isrTodo' = u /\ t # <<>> /\ t[Len(t)] = R("UART_STATUS") /\ Current = t
    BY <1>1, <1>8, <2>1 DEF Access, Current, UartInv, LooksAgain
  <2>3. PICK S : t \in Seq(S)
    BY <2>1 DEF UartInv, HartKept, Shape, IsSequence
  <2>4. /\ Len(t) \in Nat /\ Len(t) >= 1 /\ u \in Seq(S) /\ Len(u) = Len(t) - 1
        /\ Head(t) = t[1] /\ \A i \in 1 .. Len(u) : u[i] = t[i + 1]
    BY <2>1, <2>2, <2>3, HeadTailProperties
  <2>5. u # <<>> => u[Len(u)] = R("UART_STATUS")
    <3>1. u # <<>> => Len(u) \in 1 .. Len(u) /\ Len(u) + 1 = Len(t)
      BY <2>4, EmptySeq
    <3> QED BY <2>2, <2>4, <3>1
  <2>6. ASSUME u = <<>>, rxFifo' # <<>> PROVE "RX_NOT_EMPTY" \in Last(isrSeen')
    <3>1. Head(t) = R("UART_STATUS")
      <4>1. Len(u) = 0
        BY <2>6
      <4>2. Len(t) = 1
        BY <2>4, <4>1
      <4> QED BY <2>2, <2>4, <4>2
    <3>2. Op = "read" /\ Reg = "UART_STATUS"
      BY <2>2, <3>1 DEF Op, Reg, R
    <3>3. isrSeen' = Append(isrSeen, UartStatus)
      BY <1>1, <1>8, <3>2 DEF Access, Values, UartRead
    <3>4. "RX_NOT_EMPTY" \in UartStatus
      BY <1>6, <2>6 DEF UartStatus
    <3>5. IsSequence(isrSeen)
      BY DEF UartInv, HartKept
    <3> QED BY <3>3, <3>4, <3>5, LastAppended DEF Last
  <2>7. LooksAgain'
    BY <1>1, <1>8, <2>2, <2>5, <2>6 DEF LooksAgain
  <2> QED BY <1>1, <1>5, <1>8, <2>7 DEF NoByteForgotten
<1> QED BY <1>7, <1>8

\* An access of the hart keeps what the UART's proof needs.
LEMMA UartAccessStep ==
  ASSUME UartInv, scene = "uart", UartAccess, scene' = scene
  PROVE  UartInv'
<1>1. Current # <<>> /\ Access(UartRead) /\ HartKept
  BY DEF UartAccess, UartInv
<1>2. HartKept'
  BY <1>1, UartAccessIs, AccessKeepsHart
<1> QED BY <1>2, UartQueues, UartPolls, UartHears DEF UartInv, UartKept

\* The lines.
LEMMA LineStep ==
  ASSUME UartInv, TxLoads \/ TxSent \/ RxArrives, scene' = scene
  PROVE  UartInv'
<1>1. UNCHANGED hart /\ UNCHANGED <<uartCtrl, crowded, stolen, unheard, got>>
  BY DEF TxLoads, TxSent, RxArrives, uartHistory
<1>2. HartKept' /\ UNCHANGED <<call, todo, isr, isrTodo, isrSeen>>
  BY <1>1, StillHart DEF UartInv, hart, thread, handler
<1>3. (Thread' <=> Thread) /\ GetcReturnsByte'
  BY <1>1, <1>2 DEF Thread, GetcReturnsByte, UartInv, UartKept
<1>4. PICK S : txFifo \in Seq(S)
  BY DEF UartInv, UartWell, IsSequence
<1>5. /\ rxFifo \in Seq(Line) /\ coming \in Seq(Line) /\ UartDepth \in Nat
      /\ Len(txFifo) <= UartDepth /\ Len(rxFifo) <= UartDepth /\ Len(txFifo) \in Nat /\ Len(rxFifo) \in Nat
  BY <1>4, UartConstants, LenProperties DEF UartInv, UartWell, UartTypeOK
<1>6. CASE TxLoads
  <2>1. /\ shift = <<>> /\ txFifo # <<>> /\ shift' = <<Head(txFifo)>> /\ txFifo' = Tail(txFifo)
        /\ UNCHANGED <<rxFifo, rxIrq, coming, owed>> /\ txIrq' = (txIrq \/ txFifo' = <<>>)
    BY <1>6 DEF TxLoads, uartHistory
  <2>2. /\ txFifo' \in Seq(S) /\ Len(txFifo') = Len(txFifo) - 1 /\ txFifo = <<Head(txFifo)>> \o Tail(txFifo)
    BY <1>4, <2>1, HeadTailProperties
  <2>3. Len(shift') = 1
    BY <2>1
  <2>4. ~Full(txFifo)' /\ Len(txFifo') <= UartDepth
    BY <1>5, <2>2 DEF Full
  <2>5. owed' = shift' \o txFifo'
    <3>1. owed = <<>> \o txFifo
      BY <2>1 DEF UartInv, UartKept, SentInOrder
    <3>2. owed = txFifo
      BY <1>4, <3>1, ConcatEmptySeq
    <3> QED BY <2>1, <2>2, <3>2
  <2>6. UartWell'
    BY <1>1, <2>1, <2>2, <2>3, <2>4 DEF UartInv, UartWell, UartTypeOK, IsSequence, Line
  <2> QED BY <1>1, <1>2, <1>3, <2>1, <2>4, <2>5, <2>6
          DEF UartInv, UartKept, SentInOrder, NoByteForgotten, PutHolds, GetHolds, EchoHolds, LooksAgain, Full
<1>7. CASE TxSent
  <2>1. /\ shift # <<>> /\ shift' = <<>> /\ owed' = Tail(owed)
        /\ UNCHANGED <<txFifo, rxFifo, txIrq, rxIrq, coming>>
    BY <1>7 DEF TxSent
  <2>2. PICK b : shift = <<b>>
    BY <2>1 DEF UartInv, UartWell
  <2>3. PICK U : U = S \cup {b}
    OBVIOUS
  <2>4. txFifo \in Seq(U) /\ b \in U
    <3>1. Seq(S) \subseteq Seq(U)
      BY <2>3, SeqMonotonic
    <3> QED BY <1>4, <2>3, <3>1
  <2>5. owed = <<b>> \o txFifo
    BY <2>2 DEF UartInv, UartKept, SentInOrder
  <2>6. Tail(<<b>> \o txFifo) = txFifo
    BY <2>4, ConsIsTailed
  <2>7. <<>> \o txFifo = txFifo
    BY <1>4, ConcatEmptySeq
  <2>8. Len(<<>>) = 0
    OBVIOUS
  <2>9. UartWell'
    BY <1>1, <2>1, <2>8 DEF UartInv, UartWell, UartTypeOK, IsSequence, Line
  <2> QED BY <1>1, <1>2, <1>3, <2>1, <2>5, <2>6, <2>7, <2>9
          DEF UartInv, UartKept, SentInOrder, NoByteForgotten, PutHolds, GetHolds, EchoHolds, LooksAgain, Full
<1>8. CASE RxArrives
  <2>1. /\ coming # <<>> /\ coming' = Tail(coming)
        /\ rxFifo' = IF Full(rxFifo) THEN rxFifo ELSE Append(rxFifo, Head(coming))
        /\ rxIrq' = (rxIrq \/ rxFifo = <<>>) /\ UNCHANGED <<txFifo, shift, txIrq, owed>>
    BY <1>8 DEF RxArrives, uartHistory
  <2>2. coming' \in Seq(Line) /\ Head(coming) \in Line
    BY <1>5, <2>1
  <2>3. /\ Append(rxFifo, Head(coming)) \in Seq(Line) /\ Len(Append(rxFifo, Head(coming))) = Len(rxFifo) + 1
    BY <1>5, <2>2, AppendProperties
  <2>4. rxFifo' \in Seq(Line) /\ Len(rxFifo') <= UartDepth
    BY <1>5, <2>1, <2>3 DEF Full
  <2>5. rxFifo # <<>> => rxFifo' # <<>> /\ rxIrq' = rxIrq
    <3>1. Append(rxFifo, Head(coming)) # <<>>
      <4>1. PICK v : v = Append(rxFifo, Head(coming))
        OBVIOUS
      <4>2. Len(v) # 0
        BY <1>5, <2>3, <4>1
      <4> QED BY <4>1, <4>2
    <3>2. rxIrq \in BOOLEAN
      BY DEF UartInv, UartWell, UartTypeOK
    <3> QED BY <2>1, <3>1, <3>2
  <2>6. rxFifo = <<>> => rxIrq'
    BY <2>1
  <2>7. UartWell'
    <3>1. rxIrq' \in BOOLEAN
      BY <2>1
    <3> QED BY <1>1, <2>1, <2>2, <2>4, <3>1 DEF UartInv, UartWell, UartTypeOK, IsSequence, Line
  <2>8. NoByteForgotten' /\ GetHolds' /\ LooksAgain'
    BY <1>1, <1>2, <1>3, <2>5, <2>6 DEF UartInv, UartKept, NoByteForgotten, GetHolds, LooksAgain
  <2> QED BY <1>1, <1>2, <1>3, <2>1, <2>7, <2>8
          DEF UartInv, UartKept, SentInOrder, PutHolds, EchoHolds, Full
<1> QED BY <1>6, <1>7, <1>8

\* The drivers of the UART are whole.
LEMMA PutsAreWhole ==
  ASSUME NEW ch, NEW s
  PROVE  Whole(uart_putc(ch), s)
<1>1. PICK a, b : a = Until("UART_STATUS", "TX_NOT_FULL") /\ b = W("TX_DATA", ch)
  OBVIOUS
<1>2. a[1] = "until" /\ a[2] = "UART_STATUS" /\ b[1] = "write" /\ b[2] = "TX_DATA" /\ b[3] = ch
  BY <1>1 DEF Until, W
<1>3. Fits(a, s) /\ Fits(b, s) /\ ~Leans(a)
  BY <1>2 DEF Fits, StatusOf, MayHold, Leans, IsPut, IsGet, IsTake, IsLeave
<1>4. LeansOn(b) = a
  BY <1>1, <1>2, LeansOnWhat DEF IsPut
<1>5. Whole(<<a, b>>, s)
  BY <1>3, <1>4, PairIsWhole
<1> QED BY <1>1, <1>5 DEF uart_putc

\* uart_getc() takes its byte after its poll.
LEMMA GetsAreWhole == \A s : Whole(uart_getc, s)
<1> TAKE s
<1>1. PICK a, b : a = Until("UART_STATUS", "RX_NOT_EMPTY") /\ b = R("RX_DATA")
  OBVIOUS
<1>2. a[1] = "until" /\ a[2] = "UART_STATUS" /\ b[1] = "read" /\ b[2] = "RX_DATA"
  BY <1>1 DEF Until, R
<1>3. Fits(a, s) /\ Fits(b, s) /\ ~Leans(a)
  BY <1>2 DEF Fits, StatusOf, Leans, IsPut, IsGet, IsTake, IsLeave
<1>4. LeansOn(b) = a
  BY <1>1, <1>2, LeansOnWhat DEF IsGet
<1>5. Whole(<<a, b>>, s)
  BY <1>3, <1>4, PairIsWhole
<1> QED BY <1>1, <1>5 DEF uart_getc

\* uart_puts() puts each byte after its own poll.
LEMMA TwoPutsAreWhole ==
  ASSUME NEW a, NEW b, NEW s
  PROVE  Whole(Put(<<a, b>>), s)
<1>1. PICK x, y : x = uart_putc(a) /\ y = uart_putc(b)
  OBVIOUS
<1>2. PICK w : w = <<a, b>>
  OBVIOUS
<1>3. w[1] = a /\ w[2] = b /\ DOMAIN w = 1 .. 2
  BY <1>2
<1>4. [i \in DOMAIN w |-> uart_putc(w[i])] = <<x, y>>
  <2>1. PICK f : f = [i \in 1 .. 2 |-> uart_putc(w[i])]
    OBVIOUS
  <2>2. f[1] = x /\ f[2] = y /\ f = [i \in 1 .. 2 |-> f[i]]
    BY <1>1, <1>3, <2>1
  <2>3. f = <<x, y>>
    BY <2>2, TwoOf
  <2> QED BY <1>3, <2>1, <2>3
<1>5. Put(w) = FlattenSeq(<<x, y>>)
  BY <1>4 DEF Put
<1>6. Whole(x, s) /\ Whole(y, s)
  BY <1>1, PutsAreWhole
<1> QED BY <1>2, <1>5, <1>6, FlattenTwo, BothAreWhole

\* The functions of uart.h, and the handler, are whole.
LEMMA UartDriversAreWhole ==
  ASSUME scene = "uart"
  PROVE  /\ Whole(UartStart, scene)
         /\ \A f \in {uart_printf(<<"c", "%x">>, Printed), uart_puts(<<"a", "b">>),
                      uart_tx_irq_enable, uart_rx_irq_enable, uart_irq_clear, uart_irq_status} : Whole(f, scene)
         /\ Whole(uart_irq_clear, scene) /\ Whole(Drain, scene)
<1>1. Whole(uart_irq_clear, scene) /\ Whole(uart_irq_status, scene) /\ Whole(Drain, scene)
  <2>1. MayHold("UART_IRQ_STATUS", {"TX", "RX"})
    BY DEF MayHold
  <2> QED BY <2>1, AccessesAreWhole DEF uart_irq_clear, uart_irq_status, Drain
<1>2. Whole(uart_tx_irq_enable, scene) /\ Whole(uart_rx_irq_enable, scene)
  <2>1. MayHold("UART_CTRL", {"TX"}) /\ MayHold("UART_CTRL", {"RX"}) /\ "UART_CTRL" \in Merged(scene)
    BY DEF MayHold, Merged
  <2> QED BY <2>1, MergeIsWhole DEF uart_tx_irq_enable, uart_rx_irq_enable, SetBits
<1>3. \A a, b : Whole(uart_puts(<<a, b>>), scene)
  <2> TAKE a, b
  <2>1. Whole(<<Until("UART_STATUS", "TX_EMPTY")>>, scene)
    BY AccessesAreWhole DEF StatusOf
  <2> QED BY <2>1, TwoPutsAreWhole, BothAreWhole DEF uart_puts
<1>4. Whole(uart_printf(<<"c", "%x">>, Printed), scene)
  <2>1. PICK x, y : x = uart_putc("c") /\ y = uart_puts(<<"0", "x">>) \o uart_puthex32(Printed)
    OBVIOUS
  <2>2. PICK w : w = <<"c", "%x">>
    OBVIOUS
  <2>3. w[1] = "c" /\ w[2] = "%x" /\ DOMAIN w = 1 .. 2
    BY <2>2
  <2>4. uart_printf(w, Printed) = FlattenSeq(<<x, y>>)
    <3>1. PICK f : f = [i \in 1 .. 2 |-> IF w[i] = "%x" THEN uart_puts(<<"0", "x">>) \o uart_puthex32(Printed)
                                         ELSE uart_putc(w[i])]
      OBVIOUS
    <3>2. f[1] = x /\ f[2] = y /\ f = [i \in 1 .. 2 |-> f[i]]
      <4>1. f[1] = IF w[1] = "%x" THEN uart_puts(<<"0", "x">>) \o uart_puthex32(Printed) ELSE uart_putc(w[1])
        BY <3>1
      <4>2. f[2] = IF w[2] = "%x" THEN uart_puts(<<"0", "x">>) \o uart_puthex32(Printed) ELSE uart_putc(w[2])
        BY <3>1
      <4>3. f = [i \in 1 .. 2 |-> f[i]]
        BY <3>1
      <4> QED BY <2>1, <2>3, <4>1, <4>2, <4>3
    <3>3. f = <<x, y>>
      BY <3>2, TwoOf
    <3> QED BY <2>3, <3>1, <3>3 DEF uart_printf
  <2>5. \A v : Whole(uart_puthex8(v), scene)
    BY TwoPutsAreWhole DEF uart_puthex8
  <2>6. \A v : Whole(uart_puthex32(v), scene)
    <3> TAKE v
    <3>1. PICK a, b, c, d : /\ a = uart_puthex8(v \div 2^24) /\ b = uart_puthex8((v \div 2^16) % 256)
                            /\ c = uart_puthex8((v \div 2^8) % 256) /\ d = uart_puthex8(v % 256)
      OBVIOUS
    <3>2. Whole(a, scene) /\ Whole(b, scene) /\ Whole(c, scene) /\ Whole(d, scene)
      BY <2>5, <3>1
    <3>3. Whole(a \o b, scene)
      BY <3>2, BothAreWhole
    <3>4. Whole((a \o b) \o c, scene)
      BY <3>2, <3>3, BothAreWhole
    <3>5. Whole(((a \o b) \o c) \o d, scene)
      BY <3>2, <3>4, BothAreWhole
    <3> QED BY <3>1, <3>5 DEF uart_puthex32
  <2>7. Whole(x, scene) /\ Whole(y, scene)
    BY <1>3, <2>1, <2>6, PutsAreWhole, BothAreWhole
  <2>8. FlattenSeq(<<x, y>>) = x \o y
    BY FlattenTwo
  <2>9. Whole(x \o y, scene)
    BY <2>7, BothAreWhole
  <2> QED BY <2>2, <2>4, <2>8, <2>9
<1>5. Whole(UartStart, scene)
  <2>1. MayHold("BAUD_DIV", 867) /\ MayHold("UART_CTRL", {"RX"})
    BY DEF MayHold
  <2>2. Whole(<<W("BAUD_DIV", 867)>>, scene) /\ Whole(<<W("UART_CTRL", {"RX"})>>, scene)
    BY <2>1, AccessesAreWhole
  <2>3. PICK a, b : a = W("BAUD_DIV", 867) /\ b = W("UART_CTRL", {"RX"})
    OBVIOUS
  <2>4. <<a>> \o <<b>> = <<a, b>>
    BY OneAndOne
  <2>5. Whole(uart_init(867, {"RX"}), scene)
    <3>1. Whole(<<a>> \o <<b>>, scene)
      BY <2>2, <2>3, BothAreWhole
    <3>2. uart_init(867, {"RX"}) = <<a, b>>
      BY <2>3 DEF uart_init
    <3>3. Whole(<<a, b>>, scene)
      BY <2>4, <3>1
    <3> QED BY <3>2, <3>3
  <2>6. Whole(uart_init(867, {"RX"}) \o irq_enable_external, scene)
    BY <2>5, EnablesAreWhole, BothAreWhole
  <2> QED BY <2>6, EnablesAreWhole, BothAreWhole DEF UartStart
<1> QED BY <1>1, <1>2, <1>3, <1>4, <1>5

\* The handler's functions end with a look at STATUS.
LEMMA EndsWithALook ==
  ASSUME NEW t, NEW s, Whole(t, s)
  PROVE  t \o Drain # <<>> /\ (t \o Drain)[Len(t \o Drain)] = R("UART_STATUS")
<1>1. PICK S : t \in Seq(S)
  BY DEF Whole, Shape, IsSequence
<1>2. PICK d, T : d = R("UART_STATUS") /\ T = S \cup {d}
  OBVIOUS
<1>3. t \in Seq(T) /\ <<d>> \in Seq(T) /\ Len(<<d>>) = 1 /\ <<d>>[1] = d
  <2>1. Seq(S) \subseteq Seq(T)
    BY <1>2, SeqMonotonic
  <2> QED BY <1>1, <1>2, <2>1
<1>4. PICK u, n : u = t \o <<d>> /\ n = Len(t)
  OBVIOUS
<1>5. u \in Seq(T) /\ n \in Nat /\ Len(u) = n + 1 /\ u[n + 1] = d
  <2>1. n \in Nat
    BY <1>3, <1>4, LenProperties
  <2>2. u \in Seq(T) /\ Len(u) = n + 1 /\ \A i \in 1 .. n + 1 : u[i] = IF i <= n THEN t[i] ELSE <<d>>[i - n]
    BY <1>3, <1>4, ConcatProperties
  <2>3. n + 1 \in 1 .. n + 1 /\ ~(n + 1 <= n) /\ (n + 1) - n = 1
    BY <2>1
  <2> QED BY <1>3, <2>1, <2>2, <2>3
<1>6. u # <<>>
  <2>1. Len(u) # 0
    BY <1>5
  <2> QED BY <2>1
<1> QED BY <1>2, <1>4, <1>5, <1>6 DEF Drain

\* A function that begins stands on nothing.
LEMMA UartProgramStep ==
  ASSUME UartInv, scene = "uart", scene' = scene,
         UartCall \/ UartReturn \/ UartInterrupt \/ UartHandles \/ UartMret
  PROVE  UartInv'
<1>1. UNCHANGED uartVars
  BY DEF UartCall, UartReturn, UartInterrupt, UartHandles, UartMret
<1>2. UNCHANGED <<uartCtrl, txFifo, shift, rxFifo, txIrq, rxIrq, coming, owed, crowded, stolen, unheard, got>>
  BY <1>1 DEF uartVars, uart, uartHistory
<1>3. UartWell' /\ SentInOrder' /\ GetcReturnsByte'
  BY <1>2 DEF UartInv, UartWell, UartTypeOK, UartKept, SentInOrder, GetcReturnsByte, Line
<1>4. (rxFifo # <<>> /\ Thread => rxIrq \/ unheard) /\ HartKept
  BY DEF UartInv, UartKept, NoByteForgotten
<1>5. ASSUME HartKept', UNCHANGED <<isr, isrTodo, isrSeen>>, todo' # <<>> => ~Leans(Head(todo'))
      PROVE  UartInv'
  <2>1. ~(todo' # <<>> /\ IsPut(Head(todo'))) /\ ~(todo' # <<>> /\ IsGet(Head(todo')))
    BY <1>5, LeansOnWhat
  <2> QED BY <1>2, <1>3, <1>5, <2>1
          DEF UartInv, UartKept, NoByteForgotten, PutHolds, GetHolds, EchoHolds, LooksAgain, Thread, Full
<1>6. ASSUME HartKept', todo' = todo, NoByteForgotten', EchoHolds', LooksAgain'
      PROVE  UartInv'
  BY <1>2, <1>3, <1>6 DEF UartInv, UartKept, PutHolds, GetHolds, Full
<1>7. ASSUME NEW f, NEW t, Begin(f, t), f # "none", Whole(t, scene) PROVE UartInv'
  <2>1. todo' = t /\ UNCHANGED <<isr, isrTodo, isrSeen>>
    BY <1>7 DEF Begin, handler
  <2> QED BY <1>4, <1>5, <1>7, <2>1, BeginKeepsHart, WholeIsTyped
<1>8. CASE UartCall
  <2>1. \/ \E f \in {uart_printf(<<"c", "%x">>, Printed), uart_puts(<<"a", "b">>),
                     uart_tx_irq_enable, uart_rx_irq_enable, uart_irq_clear, uart_irq_status} : Begin("other", f)
        \/ Begin("getc", uart_getc)
    BY <1>8 DEF UartCall
  <2>2. CASE Begin("getc", uart_getc)
    BY <1>7, <2>2, GetsAreWhole
  <2>3. ASSUME NEW f \in {uart_printf(<<"c", "%x">>, Printed), uart_puts(<<"a", "b">>),
                          uart_tx_irq_enable, uart_rx_irq_enable, uart_irq_clear, uart_irq_status},
               Begin("other", f)
        PROVE  UartInv'
    <3>1. Whole(f, scene)
      BY UartDriversAreWhole
    <3> QED BY <1>7, <2>3, <3>1
  <2> QED BY <2>1, <2>2, <2>3
<1>9. CASE UartReturn
  <2>1. Return /\ todo = <<>>
    BY <1>9 DEF UartReturn, GoesOn
  <2>2. HartKept' /\ todo' = <<>> /\ UNCHANGED <<isr, isrTodo, isrSeen>>
    BY <1>4, <2>1, ReturnKeepsHart DEF Return, handler
  <2> QED BY <1>5, <2>2
<1>10. ASSUME NEW t, Whole(t \o Drain, scene), Whole(t, scene), ~Leans(Head(t \o Drain)),
              isrTodo' = t \o Drain, todo' = todo, ~Thread', HartKept'
       PROVE  UartInv'
  <2>1. PICK u : u = t \o Drain
    OBVIOUS
  <2>2. u # <<>> /\ u[Len(u)] = R("UART_STATUS") /\ ~IsPut(Head(u)) /\ isrTodo' = u
    BY <1>10, <2>1, EndsWithALook, LeansOnWhat
  <2>3. NoByteForgotten' /\ EchoHolds' /\ LooksAgain'
    BY <1>10, <2>2 DEF NoByteForgotten, EchoHolds, LooksAgain
  <2> QED BY <1>6, <1>10, <2>3
<1>11. CASE UartInterrupt
  <2>1. Interrupt("external", uart_irq_clear \o Drain)
    BY <1>11 DEF UartInterrupt
  <2>2. Whole(uart_irq_clear, scene) /\ Whole(uart_irq_clear \o Drain, scene)
    BY UartDriversAreWhole, BothAreWhole
  <2>3. isrTodo' = uart_irq_clear \o Drain /\ todo' = todo /\ isr' = "external"
    BY <2>1 DEF Interrupt, thread
  <2>4. HartKept'
    BY <1>4, <2>1, <2>2, InterruptKeepsHart
  <2>5. ~Leans(Head(uart_irq_clear \o Drain))
    BY <2>2, EndsWithALook, WholeIsTyped
  <2> QED BY <1>10, <2>2, <2>3, <2>4, <2>5 DEF Thread
<1>12. CASE UartHandles
  <2>1. HandlerContinue((uart_getc \o uart_putc("echo")) \o Drain) /\ isr = "external"
    BY <1>12 DEF UartHandles, HandlerAt, irq_mcause
  <2>2. PICK t : t = uart_getc \o uart_putc("echo")
    OBVIOUS
  <2>3. Whole(t, scene) /\ Whole(t \o Drain, scene)
    <3>1. Whole(t, scene)
      BY <2>2, GetsAreWhole, PutsAreWhole, BothAreWhole
    <3> QED BY <3>1, UartDriversAreWhole, BothAreWhole
  <2>4. isrTodo' = t \o Drain /\ todo' = todo /\ isr' = "external"
    BY <2>1, <2>2 DEF HandlerContinue, thread
  <2>5. HartKept'
    BY <1>4, <2>1, <2>2, <2>3, HandlerContinueKeepsHart DEF Thread
  <2>6. ~Leans(Head(t \o Drain))
    BY <2>3, EndsWithALook, WholeIsTyped
  <2> QED BY <1>10, <2>3, <2>4, <2>5, <2>6 DEF Thread
<1>13. CASE UartMret
  <2>1. /\ Mret /\ isr = "external" /\ isrTodo = <<>> /\ "RX_NOT_EMPTY" \notin Last(isrSeen)
    BY <1>13 DEF UartMret, HandlerAt, irq_mcause
  <2>2. HartKept' /\ todo' = todo /\ isrTodo' = <<>> /\ isr' = "none"
    BY <1>4, <2>1, MretKeepsHart DEF Mret, thread
  <2>3. rxFifo # <<>> => rxIrq \/ unheard
    BY <2>1 DEF UartInv, LooksAgain, Thread
  <2>4. NoByteForgotten' /\ EchoHolds' /\ LooksAgain'
    BY <1>2, <2>2, <2>3 DEF NoByteForgotten, EchoHolds, LooksAgain, Thread
  <2> QED BY <1>6, <2>2, <2>4
<1> QED BY <1>8, <1>9, <1>11, <1>12, <1>13

\* Every step of the UART's scene keeps its invariant.
LEMMA UartStep ==
  ASSUME UartInv, scene = "uart", scene' = scene, UartNext
  PROVE  UartInv'
BY UartAccessStep, LineStep, UartProgramStep DEF UartNext

-----------------------------------------------------------------------------
(***************************************************************************)
(* The SPI master.  The chip select is low from the first bit of a frame   *)
(* to its last, and the answer to a byte that was put when all was quiet   *)
(* is the only one there is.                                               *)
(***************************************************************************)
Spares(t, regs) == IsSequence(t) /\ \A i \in 1 .. Len(t) : t[i][1] = "write" => t[i][2] \notin regs
InFrame(t)      == Spares(t, {"SPI_CTRL"}) /\ t # <<>> /\ IsLeave(t[Len(t)])
SpiWell ==
  /\ SpiTypeOK /\ IsSequence(spiTx) /\ IsSequence(spiRx) /\ asked[2] \in BOOLEAN
  /\ wire = <<>> \/ \E b : wire = <<b>>
SelectInv ==
  /\ "CS_AUTO" \notin spiCtrl => csLow = csManual
  /\ "CS_AUTO" \in spiCtrl /\ csLow => InFlight
  /\ InFlight /\ ~loose => csLow /\ csManual
FrameInv == InFrame(todo) \/ (Spares(todo, {"CS_CTRL"}) /\ ~csManual)
HandlerSpares == Spares(isrTodo, {"SPI_CTRL", "CS_CTRL"})
LeaveHolds == todo # <<>> /\ IsLeave(Head(todo)) => (InFlight => loose)
TakeHolds  == todo # <<>> /\ IsTake(Head(todo)) => spiRx # <<>> \/ ~asked[2]
OneAnswer ==
  asked[2] => \/ spiTx = <<asked[1]>> /\ wire = <<>> /\ spiRx = <<>>
              \/ spiTx = <<>> /\ wire = <<asked[1]>> /\ spiRx = <<>>
              \/ spiTx = <<>> /\ wire = <<>> /\ spiRx \in {<<>>, <<Answer(asked[1])>>}
SpiInv ==
  /\ HartKept /\ SpiWell /\ SelectInv /\ FrameInv /\ HandlerSpares
  /\ LeaveHolds /\ TakeHolds /\ OneAnswer /\ TransferReturnsItsAnswer

\* The invariant implies the property.
LEMMA SpiInvIsEnough == SpiInv => SpiKept
BY DEF SpiInv, SelectInv, InFlight, SpiKept, FrameKept

\* What an access leaves spares what the function spared.
LEMMA RestSpares ==
  ASSUME NEW t, NEW regs, Spares(t, regs), t # <<>>
  PROVE  /\ Spares(Tail(t), regs) /\ (Head(t)[1] = "write" => Head(t)[2] \notin regs)
         /\ Tail(t) = <<>> => Head(t) = t[Len(t)]
         /\ Tail(t) # <<>> => Tail(t)[Len(Tail(t))] = t[Len(t)]
<1>1. PICK S : t \in Seq(S)
  BY DEF Spares, IsSequence
<1>2. PICK u : u = Tail(t)
  OBVIOUS
<1>3. /\ Len(t) \in Nat /\ Len(t) >= 1 /\ Head(t) = t[1] /\ u \in Seq(S)
      /\ Len(u) = Len(t) - 1 /\ \A i \in 1 .. Len(u) : u[i] = t[i + 1]
  BY <1>1, <1>2, HeadTailProperties
<1>4. \A i \in 1 .. Len(u) : i + 1 \in 1 .. Len(t)
  BY <1>3
<1>5. Spares(u, regs)
  BY <1>3, <1>4 DEF Spares, IsSequence
<1>6. Head(t)[1] = "write" => Head(t)[2] \notin regs
  BY <1>3 DEF Spares
<1>7. u = <<>> => Head(t) = t[Len(t)]
  <2>1. u = <<>> => Len(u) = 0
    OBVIOUS
  <2>2. u = <<>> => Len(t) = 1
    BY <1>3, <2>1
  <2> QED BY <1>3, <2>2
<1>8. u # <<>> => u[Len(u)] = t[Len(t)]
  <2>1. u # <<>> => Len(u) \in 1 .. Len(u) /\ Len(u) + 1 = Len(t)
    BY <1>3, EmptySeq
  <2> QED BY <1>3, <2>1
<1> QED BY <1>2, <1>5, <1>6, <1>7, <1>8

\* The access of the SPI master, by kinds.
LEMMA SpiAccessIs ==
  ASSUME SpiInv, scene = "spi", Current # <<>>
  PROVE  /\ \A reg : Writes(reg) => Op = "write" /\ Reg = reg /\ Written = Head(Current)[3]
         /\ Reads("SPI_RX_DATA") => Op = "read" /\ IsTake(Head(Current))
         /\ \A reg : Writes(reg) => ~Reads("SPI_RX_DATA")
         /\ Writes("SPI_CTRL") => Written \subseteq {"EN", "CS_AUTO", "TX", "RX"}
         /\ ~Thread => ~Writes("SPI_CTRL") /\ ~Writes("CS_CTRL")
<1>1. PICK a : a = Head(Current)
  OBVIOUS
<1>2. Fits(a, scene) /\ (Writes("SPI_CTRL") => MayHold("SPI_CTRL", Written))
  BY <1>1, WrittenMayBeHeld DEF SpiInv
<1>3. Op = a[1] /\ Reg = a[2]
  BY <1>1 DEF Op, Reg
<1>4. Merged(scene) = {}
  BY DEF Merged
<1>5. a[1] # "merge"
  BY <1>2, <1>4 DEF Fits
<1>6. a[1] = "until" => a[2] # "SPI_RX_DATA"
  BY <1>2 DEF Fits, StatusOf
<1>7. a[1] # "merge" => Written = a[3]
  BY <1>1, <1>3 DEF Written
<1>8. MayHold("SPI_CTRL", Written) => Written \subseteq {"EN", "CS_AUTO", "TX", "RX"}
  BY DEF MayHold
<1>9. ~Thread => (a[1] = "write" => a[2] \notin {"SPI_CTRL", "CS_CTRL"})
  BY <1>1, RestSpares DEF SpiInv, HandlerSpares, Current
<1>10. ~Thread => ~Writes("SPI_CTRL") /\ ~Writes("CS_CTRL")
  BY <1>3, <1>5, <1>9 DEF Writes
<1> QED BY <1>1, <1>2, <1>3, <1>5, <1>6, <1>7, <1>8, <1>10 DEF Writes, Reads, IsTake

\* An access, and what is on its way.
LEMMA SpiFlight ==
  ASSUME SpiInv, scene = "spi", SpiAccess
  PROVE  /\ InFlight => InFlight'
         /\ ~Writes("SPI_TX_DATA") => InFlight' = InFlight
         /\ IsSequence(spiTx') /\ Len(spiTx') <= SpiDepth
<1>1. Current # <<>> /\ SpiWrite
  BY DEF SpiAccess
<1>2. /\ spiTx' = IF Writes("SPI_TX_DATA") /\ Len(spiTx) < SpiDepth THEN Append(spiTx, Written) ELSE spiTx
      /\ wire' = wire
  BY <1>1 DEF SpiWrite
<1>3. PICK S : spiTx \in Seq(S)
  BY DEF SpiInv, SpiWell, IsSequence
<1>4. PICK T, v : T = S \cup {Written} /\ v = Append(spiTx, Written)
  OBVIOUS
<1>5. spiTx \in Seq(T) /\ Written \in T
  <2>1. Seq(S) \subseteq Seq(T)
    BY <1>4, SeqMonotonic
  <2> QED BY <1>3, <1>4, <2>1
<1>6. v \in Seq(T) /\ Len(v) = Len(spiTx) + 1 /\ Len(spiTx) \in Nat
  BY <1>4, <1>5, AppendProperties
<1>7. v # <<>>
  <2>1. Len(v) # 0
    BY <1>6
  <2> QED BY <2>1
<1>8. Len(spiTx) <= SpiDepth /\ SpiDepth \in Nat
  BY SpiConstants DEF SpiInv, SpiWell, SpiTypeOK
<1>9. IsSequence(spiTx') /\ Len(spiTx') <= SpiDepth
  BY <1>2, <1>4, <1>5, <1>6, <1>8 DEF IsSequence
<1> QED BY <1>2, <1>4, <1>7, <1>9 DEF InFlight

\* The registers after an access.
LEMMA SpiRegisters ==
  ASSUME SpiInv, scene = "spi", SpiAccess
  PROVE  SpiWell'
<1>1. Current # <<>> /\ SpiWrite
  BY DEF SpiAccess
<1>2. SpiWell
  BY DEF SpiInv
<1>3. spiCtrl' \subseteq {"EN", "CS_AUTO", "TX", "RX"} /\ spiIrq' \subseteq {"TX", "RX"}
  <2>1. Writes("SPI_CTRL") => Written \subseteq {"EN", "CS_AUTO", "TX", "RX"}
    BY <1>1, SpiAccessIs
  <2>2. /\ spiCtrl' = IF Writes("SPI_CTRL") THEN Written ELSE spiCtrl
        /\ spiIrq' = IF Writes("SPI_IRQ_STATUS") THEN spiIrq \ Written ELSE spiIrq
    BY <1>1 DEF SpiWrite
  <2> QED BY <1>2, <2>1, <2>2 DEF SpiWell, SpiTypeOK
<1>4. csManual' \in BOOLEAN /\ csLow' \in BOOLEAN
  <2>1. /\ csManual' = IF Writes("CS_CTRL") THEN Written # {} ELSE csManual
        /\ csLow' = IF "CS_AUTO" \in spiCtrl' THEN csLow ELSE csManual'
    BY <1>1 DEF SpiWrite
  <2>2. csManual \in BOOLEAN /\ csLow \in BOOLEAN
    BY <1>2 DEF SpiWell, SpiTypeOK
  <2> QED BY <2>1, <2>2
<1>5. loose' \in BOOLEAN
  <2>1. loose' = IF Writes("SPI_TX_DATA") THEN loose \/ ~csLow \/ Behind("CS_CTRL", Writes("SPI_TX_DATA"), FALSE)
                 ELSE InFlight /\ loose
    BY <1>1 DEF SpiWrite
  <2> QED BY <2>1
<1>6. asked'[2] \in BOOLEAN
  <2>1. asked' = IF Thread /\ Writes("SPI_TX_DATA") THEN <<Written, ~InFlight /\ spiRx = <<>>>>
                 ELSE <<asked[1], asked[2] /\ (Thread \/ ~(Writes("SPI_TX_DATA") \/ Reads("SPI_RX_DATA")))>>
    BY <1>1 DEF SpiWrite
  <2> QED BY <2>1
<1>7. IsSequence(spiRx') /\ Len(spiRx') <= SpiDepth
  <2>1. PICK S : spiRx \in Seq(S)
    BY <1>2 DEF SpiWell, IsSequence
  <2>2. spiRx # <<>> => Tail(spiRx) \in Seq(S) /\ Len(Tail(spiRx)) = Len(spiRx) - 1
    BY <2>1, HeadTailProperties
  <2>3. Len(spiRx) \in Nat /\ Len(spiRx) <= SpiDepth /\ SpiDepth \in Nat
    BY <1>2, <2>1, LenProperties, SpiConstants DEF SpiWell, SpiTypeOK
  <2>4. spiRx' = IF Reads("SPI_RX_DATA") /\ spiRx # <<>> THEN Tail(spiRx) ELSE spiRx
    BY <1>1 DEF SpiWrite
  <2> QED BY <2>1, <2>2, <2>3, <2>4 DEF IsSequence
<1>8. wire' = wire
  BY <1>1 DEF SpiWrite
<1> QED BY <1>2, <1>3, <1>4, <1>5, <1>6, <1>7, <1>8, SpiFlight DEF SpiWell, SpiTypeOK

\* The chip select after an access.
LEMMA SpiSelects ==
  ASSUME SpiInv, scene = "spi", SpiAccess
  PROVE  SelectInv' /\ FrameInv' /\ HandlerSpares' /\ LeaveHolds'
<1>1. /\ Current # <<>> /\ SpiWrite /\ Access(SpiRead)
      /\ Op = "until" => Head(Current)[3] \in SpiStatus
  BY DEF SpiAccess
<1>2. PICK puts, behind : puts = Writes("SPI_TX_DATA") /\ behind = Behind("CS_CTRL", Writes("SPI_TX_DATA"), FALSE)
  OBVIOUS
<1>3. /\ spiCtrl' = IF Writes("SPI_CTRL") THEN Written ELSE spiCtrl
      /\ csManual' = IF Writes("CS_CTRL") THEN Written # {} ELSE csManual
      /\ csLow' = IF "CS_AUTO" \in spiCtrl' THEN csLow ELSE csManual'
      /\ loose' = IF puts THEN loose \/ ~csLow \/ behind ELSE InFlight /\ loose
  BY <1>1, <1>2 DEF SpiWrite
<1>4. (InFlight => InFlight') /\ (~puts => InFlight' = InFlight)
  BY <1>2, SpiFlight
<1>5. SelectInv /\ FrameInv /\ LeaveHolds /\ csManual \in BOOLEAN /\ csLow \in BOOLEAN /\ loose \in BOOLEAN
  BY DEF SpiInv, SpiWell, SpiTypeOK
<1>6. /\ \A reg : Writes(reg) => Op = "write" /\ Reg = reg /\ Written = Head(Current)[3]
      /\ ~Thread => ~Writes("SPI_CTRL") /\ ~Writes("CS_CTRL")
  BY <1>1, SpiAccessIs
<1>7. Writes("SPI_CTRL") => Thread /\ ~csManual
  <2>1. SUFFICES ASSUME Writes("SPI_CTRL") PROVE Thread /\ ~csManual
    OBVIOUS
  <2>2. Thread /\ Current = todo /\ Head(todo)[1] = "write" /\ Head(todo)[2] = "SPI_CTRL"
    BY <1>6, <2>1 DEF Current, Op, Reg
  <2>3. ~InFrame(todo)
    BY <1>1, <2>2, RestSpares DEF InFrame
  <2> QED BY <1>5, <2>2, <2>3 DEF FrameInv
<1>8. Writes("CS_CTRL") /\ Written = {} => (InFlight => loose)
  <2>1. SUFFICES ASSUME Writes("CS_CTRL"), Written = {} PROVE InFlight => loose
    OBVIOUS
  <2>2. Thread /\ Current = todo /\ IsLeave(Head(todo))
    BY <1>6, <2>1 DEF Current, Op, Reg, IsLeave
  <2> QED BY <1>1, <1>5, <2>2 DEF LeaveHolds
<1>9. /\ Writes("SPI_CTRL") => ~Writes("CS_CTRL") /\ ~puts
      /\ Writes("CS_CTRL") => ~puts
  BY <1>2 DEF Writes
<1>10. SelectInv'
  <2>1. "CS_AUTO" \notin spiCtrl' => csLow' = csManual'
    BY <1>3
  <2>2. "CS_AUTO" \in spiCtrl' /\ csLow' => InFlight'
    <3>1. CASE Writes("SPI_CTRL")
      <4>1. csLow => "CS_AUTO" \in spiCtrl
        BY <1>5, <1>7, <3>1 DEF SelectInv
      <4> QED BY <1>3, <1>4, <1>5, <4>1 DEF SelectInv
    <3>2. CASE ~Writes("SPI_CTRL")
      BY <1>3, <1>4, <1>5, <3>2 DEF SelectInv
    <3> QED BY <3>1, <3>2
  <2>3. ASSUME InFlight', ~loose' PROVE csLow' /\ csManual'
    <3>1. CASE puts
      <4>1. csLow /\ ~loose /\ ~Writes("CS_CTRL") /\ ~Writes("SPI_CTRL")
        BY <1>3, <1>9, <2>3, <3>1
      <4>2. csManual
        BY <1>5, <4>1 DEF SelectInv
      <4> QED BY <1>3, <4>1, <4>2
    <3>2. CASE ~puts
      <4>1. InFlight /\ ~loose
        BY <1>3, <1>4, <2>3, <3>2
      <4>2. csLow /\ csManual
        BY <1>5, <4>1 DEF SelectInv
      <4>3. csManual'
        BY <1>3, <1>8, <4>1, <4>2
      <4> QED BY <1>3, <4>2, <4>3
    <3> QED BY <3>1, <3>2
  <2> QED BY <2>1, <2>2, <2>3 DEF SelectInv
<1>11. CASE Thread
  <2>1. /\ todo = Current /\ todo' = Tail(todo) /\ isrTodo' = isrTodo
    BY <1>1, <1>11 DEF Access, Current
  <2>2. HandlerSpares'
    BY <2>1 DEF SpiInv, HandlerSpares
  <2>3. FrameInv'
    <3>1. PICK t, u : t = todo /\ u = Tail(t)
      OBVIOUS
    <3>2. todo' = u /\ t # <<>> /\ Head(Current) = Head(t)
      BY <1>1, <2>1, <3>1
    <3>3. CASE InFrame(t)
      <4>1. Spares(t, {"SPI_CTRL"}) /\ IsLeave(t[Len(t)])
        BY <3>3 DEF InFrame
      <4>2. CASE u # <<>>
        <5>1. InFrame(u)
          BY <3>1, <3>2, <4>1, <4>2, RestSpares DEF InFrame
        <5> QED BY <3>2, <5>1 DEF FrameInv
      <4>3. CASE u = <<>>
        <5>1. IsLeave(Head(t))
          BY <3>1, <3>2, <4>1, <4>3, RestSpares
        <5>2. Writes("CS_CTRL") /\ Written = {}
          BY <1>6, <3>2, <5>1 DEF IsLeave, Writes, Op, Reg
        <5>3. Spares(<<>>, {"CS_CTRL"})
          BY NoneIsWhole DEF Spares, Whole, Shape
        <5> QED BY <1>3, <3>2, <4>3, <5>2, <5>3 DEF FrameInv
      <4> QED BY <4>2, <4>3
    <3>4. CASE Spares(t, {"CS_CTRL"}) /\ ~csManual
      <4>1. Spares(u, {"CS_CTRL"}) /\ (Head(t)[1] = "write" => Head(t)[2] # "CS_CTRL")
        BY <3>1, <3>2, <3>4, RestSpares
      <4>2. ~Writes("CS_CTRL")
        BY <1>6, <3>2, <4>1 DEF Op, Reg
      <4> QED BY <1>3, <3>2, <3>4, <4>1, <4>2 DEF FrameInv
    <3> QED BY <1>5, <3>1, <3>3, <3>4 DEF FrameInv
  <2>4. LeaveHolds'
    <3>1. SUFFICES ASSUME Tail(todo) # <<>>, IsLeave(Head(Tail(todo))) PROVE InFlight' => loose'
      BY <2>1 DEF LeaveHolds
    <3>2. Shape(todo, scene)
      BY DEF SpiInv, HartKept
    <3>3. Head(todo) = Until("SPI_STATUS", "IDLE")
      BY <1>1, <2>1, <3>1, <3>2, LeansOnTheLast, LeansOnWhat
    <3>4. Op = "until" /\ Head(Current)[3] = "IDLE"
      BY <2>1, <3>3 DEF Op, Until
    <3>5. ~InFlight /\ ~puts
      BY <1>1, <1>2, <3>4 DEF SpiStatus, Writes
    <3> QED BY <1>4, <3>5
  <2> QED BY <1>10, <2>2, <2>3, <2>4
<1>12. CASE ~Thread
  <2>1. /\ isrTodo = Current /\ isrTodo' = Tail(isrTodo) /\ todo' = todo
    BY <1>1, <1>12 DEF Access, Current
  <2>2. HandlerSpares'
    BY <1>1, <2>1, RestSpares DEF SpiInv, HandlerSpares
  <2>3. csManual' = csManual
    BY <1>3, <1>6, <1>12
  <2>4. LeaveHolds'
    <3>1. SUFFICES ASSUME todo # <<>>, IsLeave(Head(todo)) PROVE InFlight' => loose'
      BY <2>1 DEF LeaveHolds
    <3>2. puts => behind
      <4>1. Relies("CS_CTRL")
        BY <3>1 DEF Relies, IsLeave
      <4> QED BY <1>2, <1>12, <4>1 DEF Behind
    <3>3. InFlight => loose
      BY <1>5, <3>1 DEF LeaveHolds
    <3> QED BY <1>3, <1>4, <3>2, <3>3
  <2> QED BY <1>5, <1>10, <2>1, <2>2, <2>3, <2>4 DEF FrameInv
<1> QED BY <1>11, <1>12

\* One byte on an empty line.
LEMMA OneByte ==
  ASSUME NEW b
  PROVE  Append(<<>>, b) = <<b>> /\ Head(<<b>>) = b /\ Tail(<<b>>) = <<>> /\ <<b>> # <<>> /\ <<b>>[1] = b
OBVIOUS

\* The answer to the byte that was asked, after an access.
LEMMA SpiAnswers ==
  ASSUME SpiInv, scene = "spi", SpiAccess
  PROVE  OneAnswer' /\ TakeHolds' /\ TransferReturnsItsAnswer'
<1>1. /\ Current # <<>> /\ SpiWrite /\ Access(SpiRead)
      /\ Op = "until" => Head(Current)[3] \in SpiStatus
  BY DEF SpiAccess
<1>2. PICK puts, reads : puts = Writes("SPI_TX_DATA") /\ reads = Reads("SPI_RX_DATA")
  OBVIOUS
<1>3. /\ spiTx' = IF puts /\ Len(spiTx) < SpiDepth THEN Append(spiTx, Written) ELSE spiTx
      /\ spiRx' = IF reads /\ spiRx # <<>> THEN Tail(spiRx) ELSE spiRx
      /\ asked' = IF Thread /\ puts THEN <<Written, ~InFlight /\ spiRx = <<>>>>
                  ELSE <<asked[1], asked[2] /\ (Thread \/ ~(puts \/ reads))>>
      /\ answered' = IF Thread /\ reads THEN <<SpiRead, asked>> ELSE answered
      /\ wire' = wire
  BY <1>1, <1>2 DEF SpiWrite
<1>4. /\ puts => ~reads
      /\ reads => IsTake(Head(Current)) /\ Reg = "SPI_RX_DATA"
  BY <1>1, <1>2, SpiAccessIs DEF Reads
<1>5. OneAnswer /\ TakeHolds /\ TransferReturnsItsAnswer /\ asked[2] \in BOOLEAN
  BY DEF SpiInv, SpiWell
<1>6. CASE Thread /\ puts
  <2>1. asked'[1] = Written /\ asked'[2] = (~InFlight /\ spiRx = <<>>)
    BY <1>3, <1>6
  <2>2. ASSUME asked'[2] PROVE spiTx' = <<Written>> /\ wire' = <<>> /\ spiRx' = <<>>
    <3>1. spiTx = <<>> /\ wire = <<>> /\ spiRx = <<>>
      BY <2>1, <2>2 DEF InFlight
    <3>2. Len(spiTx) < SpiDepth
      BY <3>1, SpiConstants
    <3> QED BY <1>3, <1>4, <1>6, <3>1, <3>2, OneByte
  <2>3. OneAnswer'
    BY <2>1, <2>2 DEF OneAnswer
  <2>4. TakeHolds'
    <3>1. todo = Current /\ todo' = Tail(todo) /\ Shape(todo, scene)
      BY <1>1, <1>6 DEF Access, Current, SpiInv, HartKept
    <3>2. SUFFICES ASSUME Tail(todo) # <<>>, IsTake(Head(Tail(todo))) PROVE FALSE
      BY <3>1 DEF TakeHolds
    <3>3. Head(todo) = Until("SPI_STATUS", "RX_NOT_EMPTY")
      BY <1>1, <3>1, <3>2, LeansOnTheLast, LeansOnWhat
    <3>4. Op = "until"
      BY <3>1, <3>3 DEF Op, Until
    <3> QED BY <1>2, <1>6, <3>4 DEF Writes
  <2>5. answered' = answered
    BY <1>3, <1>4, <1>6
  <2> QED BY <1>5, <2>3, <2>4, <2>5 DEF TransferReturnsItsAnswer
<1>7. CASE Thread /\ ~puts
  <2>1. asked'[1] = asked[1] /\ asked'[2] = asked[2] /\ spiTx' = spiTx
    BY <1>3, <1>5, <1>7
  <2>2. OneAnswer'
    <3>1. CASE reads /\ spiRx # <<>>
      <4>1. asked[2] => spiTx = <<>> /\ wire = <<>> /\ spiRx = <<Answer(asked[1])>>
        BY <1>5, <3>1 DEF OneAnswer
      <4>2. spiRx' = Tail(spiRx)
        BY <1>3, <3>1
      <4>3. Tail(<<Answer(asked[1])>>) = <<>>
        BY OneByte
      <4> QED BY <1>3, <2>1, <4>1, <4>2, <4>3 DEF OneAnswer
    <3>2. CASE ~(reads /\ spiRx # <<>>)
      <4>1. spiRx' = spiRx
        BY <1>3, <3>2
      <4> QED BY <1>3, <1>5, <2>1, <4>1 DEF OneAnswer
    <3> QED BY <3>1, <3>2
  <2>3. TakeHolds'
    <3>1. todo = Current /\ todo' = Tail(todo) /\ Shape(todo, scene)
      BY <1>1, <1>7 DEF Access, Current, SpiInv, HartKept
    <3>2. SUFFICES ASSUME Tail(todo) # <<>>, IsTake(Head(Tail(todo))) PROVE spiRx' # <<>>
      BY <3>1 DEF TakeHolds
    <3>3. Head(todo) = Until("SPI_STATUS", "RX_NOT_EMPTY")
      BY <1>1, <3>1, <3>2, LeansOnTheLast, LeansOnWhat
    <3>4. Op = "until" /\ Head(Current)[3] = "RX_NOT_EMPTY" /\ Reg = "SPI_STATUS"
      BY <3>1, <3>3 DEF Op, Reg, Until
    <3>5. spiRx # <<>> /\ ~reads
      BY <1>1, <1>4, <3>4 DEF SpiStatus
    <3> QED BY <1>3, <3>5
  <2>4. TransferReturnsItsAnswer'
    <3>1. CASE reads
      <4>1. answered' = <<SpiRead, asked>> /\ SpiRead = IF spiRx = <<>> THEN <<"old", "old">> ELSE Head(spiRx)
        BY <1>3, <1>4, <1>7, <3>1 DEF SpiRead
      <4>2. answered'[1] = SpiRead /\ answered'[2] = asked
        BY <4>1
      <4>3. ASSUME asked[2] PROVE SpiRead = Answer(asked[1])
        <5>1. todo = Current /\ IsTake(Head(todo))
          BY <1>4, <1>7, <3>1 DEF Current
        <5>2. spiRx # <<>>
          BY <1>1, <1>5, <4>3, <5>1 DEF TakeHolds
        <5>3. spiRx = <<Answer(asked[1])>>
          BY <1>5, <4>3, <5>2 DEF OneAnswer
        <5> QED BY <4>1, <5>2, <5>3, OneByte
      <4> QED BY <4>2, <4>3 DEF TransferReturnsItsAnswer
    <3>2. CASE ~reads
      <4>1. answered' = answered
        BY <1>3, <3>2
      <4> QED BY <1>5, <4>1 DEF TransferReturnsItsAnswer
    <3> QED BY <3>1, <3>2
  <2> QED BY <2>2, <2>3, <2>4
<1>8. CASE ~Thread
  <2>1. asked'[1] = asked[1] /\ asked'[2] = (asked[2] /\ ~(puts \/ reads)) /\ answered' = answered
    BY <1>3, <1>8
  <2>2. ASSUME asked'[2] PROVE asked[2] /\ spiTx' = spiTx /\ spiRx' = spiRx
    BY <1>3, <2>1, <2>2
  <2>3. OneAnswer'
    BY <1>3, <1>5, <2>1, <2>2 DEF OneAnswer
  <2>4. todo' = todo
    BY <1>1, <1>8 DEF Access
  <2>5. TakeHolds'
    BY <1>5, <2>2, <2>4 DEF TakeHolds
  <2> QED BY <1>5, <2>1, <2>3, <2>5 DEF TransferReturnsItsAnswer
<1> QED BY <1>6, <1>7, <1>8

\* An access of the hart keeps what the SPI master's proof needs.
LEMMA SpiAccessStep ==
  ASSUME SpiInv, scene = "spi", SpiAccess, scene' = scene
  PROVE  SpiInv'
<1>1. Current # <<>> /\ Access(SpiRead) /\ HartKept /\ Merged(scene) = {}
  BY DEF SpiAccess, SpiInv, Merged
<1>2. HartKept'
  BY <1>1, AccessKeepsHart
<1> QED BY <1>2, SpiRegisters, SpiSelects, SpiAnswers DEF SpiInv

\* The line.
LEMMA SpiLineStep ==
  ASSUME SpiInv, SpiLoads \/ SpiDone, scene' = scene
  PROVE  SpiInv'
<1>1. UNCHANGED <<hart, spiCtrl, csManual, asked, answered, loose>>
  BY DEF SpiLoads, SpiDone, spiHistory
<1>2. HartKept' /\ UNCHANGED <<todo, isrTodo>>
  BY <1>1, StillHart DEF SpiInv, hart, thread, handler
<1>3. FrameInv' /\ HandlerSpares' /\ TransferReturnsItsAnswer'
  BY <1>1, <1>2 DEF SpiInv, FrameInv, HandlerSpares, TransferReturnsItsAnswer, Spares, InFrame
<1>4. SpiWell /\ SelectInv /\ LeaveHolds /\ TakeHolds /\ OneAnswer /\ SpiDepth \in Nat
  BY SpiConstants DEF SpiInv
<1>5. PICK S : spiTx \in Seq(S)
  BY <1>4 DEF SpiWell, IsSequence
<1>6. PICK R0 : spiRx \in Seq(R0)
  BY <1>4 DEF SpiWell, IsSequence
<1>7. /\ Len(spiTx) \in Nat /\ Len(spiRx) \in Nat /\ Len(spiTx) <= SpiDepth /\ Len(spiRx) <= SpiDepth
      /\ csLow \in BOOLEAN
  BY <1>4, <1>5, <1>6, LenProperties DEF SpiWell, SpiTypeOK
<1>8. CASE SpiLoads
  <2>1. /\ wire = <<>> /\ spiTx # <<>> /\ wire' = <<Head(spiTx)>> /\ spiTx' = Tail(spiTx)
        /\ csLow' = (csLow \/ "CS_AUTO" \in spiCtrl) /\ UNCHANGED <<spiRx, spiIrq>>
    BY <1>8 DEF SpiLoads
  <2>2. spiTx' \in Seq(S) /\ Len(spiTx') = Len(spiTx) - 1
    BY <1>5, <2>1, HeadTailProperties
  <2>3. Len(wire') = 1 /\ wire' # <<>>
    BY <2>1
  <2>4. SpiWell'
    <3>1. Len(spiTx') <= SpiDepth /\ csLow' \in BOOLEAN
      BY <1>4, <1>7, <2>1, <2>2
    <3> QED BY <1>1, <1>4, <2>1, <2>2, <2>3, <3>1 DEF SpiWell, SpiTypeOK, IsSequence
  <2>5. InFlight /\ InFlight'
    BY <2>1, <2>3 DEF InFlight
  <2>6. SelectInv' /\ LeaveHolds' /\ TakeHolds'
    <3>1. (csLow => csLow') /\ ("CS_AUTO" \notin spiCtrl => csLow' = csLow)
      BY <1>7, <2>1
    <3>2. SelectInv'
      BY <1>1, <1>4, <2>5, <3>1 DEF SelectInv
    <3>3. LeaveHolds' /\ TakeHolds'
      BY <1>1, <1>2, <1>4, <2>1, <2>5 DEF LeaveHolds, TakeHolds
    <3> QED BY <3>2, <3>3
  <2>7. OneAnswer'
    <3>1. ASSUME asked[2] PROVE spiTx = <<asked[1]>> /\ spiRx = <<>>
      BY <1>4, <2>1, <3>1 DEF OneAnswer
    <3>2. Tail(<<asked[1]>>) = <<>> /\ Head(<<asked[1]>>) = asked[1]
      BY OneByte
    <3> QED BY <1>1, <2>1, <3>1, <3>2 DEF OneAnswer
  <2> QED BY <1>2, <1>3, <2>4, <2>6, <2>7 DEF SpiInv
<1>9. CASE SpiDone
  <2>1. PICK room, last : room = (Len(spiRx) < SpiDepth) /\ last = (spiTx = <<>>)
    OBVIOUS
  <2>2. /\ wire # <<>> /\ wire' = <<>> /\ spiTx' = spiTx
        /\ spiRx' = IF room THEN Append(spiRx, Answer(wire[1])) ELSE spiRx
        /\ csLow' = (csLow /\ ~("CS_AUTO" \in spiCtrl /\ last))
        /\ spiIrq' = spiIrq \cup (IF last THEN {"TX"} ELSE {}) \cup (IF room THEN {"RX"} ELSE {})
    BY <1>9, <2>1 DEF SpiDone
  <2>3. PICK T, v, a : T = R0 \cup {Answer(wire[1])} /\ v = Append(spiRx, Answer(wire[1])) /\ a = Answer(wire[1])
    OBVIOUS
  <2>4. spiRx \in Seq(T) /\ a \in T
    <3>1. Seq(R0) \subseteq Seq(T)
      BY <2>3, SeqMonotonic
    <3> QED BY <1>6, <2>3, <3>1
  <2>5. v \in Seq(T) /\ Len(v) = Len(spiRx) + 1 /\ v = Append(spiRx, a)
    BY <2>3, <2>4, AppendProperties
  <2>6. v # <<>>
    <3>1. Len(v) # 0
      BY <1>7, <2>5
    <3> QED BY <3>1
  <2>7. SpiWell'
    <3>1. IsSequence(spiRx') /\ Len(spiRx') <= SpiDepth
      <4>1. CASE room
        <5>1. spiRx' = v /\ Len(v) <= SpiDepth
          <6>1. Len(spiRx) < SpiDepth
            BY <2>1, <4>1
          <6>2. spiRx' = v
            BY <2>2, <2>3, <4>1
          <6>3. Len(v) <= SpiDepth
            BY <1>4, <1>7, <2>5, <6>1
          <6> QED BY <6>2, <6>3
        <5> QED BY <2>5, <5>1 DEF IsSequence
      <4>2. CASE ~room
        BY <1>7, <2>2, <2>4, <4>2 DEF IsSequence
      <4> QED BY <4>1, <4>2
    <3>2. csLow' \in BOOLEAN /\ spiIrq' \subseteq {"TX", "RX"} /\ Len(wire') <= 1
      <4>1. spiIrq \subseteq {"TX", "RX"}
        BY <1>4 DEF SpiWell, SpiTypeOK
      <4>2. Len(<<>>) = 0
        OBVIOUS
      <4> QED BY <1>7, <2>2, <4>1, <4>2
    <3> QED BY <1>1, <1>4, <2>2, <3>1, <3>2 DEF SpiWell, SpiTypeOK
  <2>8. InFlight /\ (InFlight' => ~last)
    BY <2>1, <2>2 DEF InFlight
  <2>9. SelectInv'
    <3>1. "CS_AUTO" \in spiCtrl /\ csLow' => InFlight'
      BY <2>1, <2>2 DEF InFlight
    <3>2. "CS_AUTO" \notin spiCtrl => csLow' = csLow
      BY <1>7, <2>2
    <3>3. InFlight' /\ ~loose => csLow' /\ csManual
      BY <1>4, <2>2, <2>8 DEF SelectInv
    <3> QED BY <1>1, <1>4, <3>1, <3>2, <3>3 DEF SelectInv
  <2>10. LeaveHolds' /\ TakeHolds'
    BY <1>1, <1>2, <1>4, <2>2, <2>3, <2>6, <2>8 DEF LeaveHolds, TakeHolds
  <2>11. OneAnswer'
    <3>1. ASSUME asked[2] PROVE wire = <<asked[1]>> /\ spiTx = <<>> /\ spiRx = <<>>
      BY <1>4, <2>2, <3>1 DEF OneAnswer
    <3>2. asked[2] => spiRx' \in {<<>>, <<Answer(asked[1])>>}
      <4>1. Append(<<>>, Answer(asked[1])) = <<Answer(asked[1])>> /\ <<asked[1]>>[1] = asked[1]
        BY OneByte
      <4> QED BY <2>2, <3>1, <4>1
    <3> QED BY <1>1, <2>2, <3>1, <3>2 DEF OneAnswer
  <2> QED BY <1>2, <1>3, <2>7, <2>9, <2>10, <2>11 DEF SpiInv
<1> QED BY <1>8, <1>9

\* Sequences, one after the other.
LEMMA BothSpare ==
  ASSUME NEW s, NEW t, NEW regs, Spares(s, regs), Spares(t, regs)
  PROVE  Spares(s \o t, regs)
<1>1. IsSequence(s) /\ IsSequence(t)
  BY DEF Spares
<1>2. PICK u : /\ u = s \o t /\ IsSequence(u) /\ Len(s) \in Nat /\ Len(t) \in Nat
               /\ Len(u) = Len(s) + Len(t)
               /\ \A i \in 1 .. Len(s) : u[i] = s[i]
               /\ \A i \in 1 .. Len(t) : u[Len(s) + i] = t[i]
               /\ \A i \in 1 .. Len(u) : i \in 1 .. Len(s) \/ \E j \in 1 .. Len(t) : i = Len(s) + j
  BY <1>1, Joined
<1>3. ASSUME NEW i \in 1 .. Len(u) PROVE u[i][1] = "write" => u[i][2] \notin regs
  <2>1. CASE i \in 1 .. Len(s)
    BY <1>2, <2>1 DEF Spares
  <2>2. CASE \E j \in 1 .. Len(t) : i = Len(s) + j
    <3>1. PICK j \in 1 .. Len(t) : i = Len(s) + j
      BY <2>2
    <3>2. u[i] = t[j] /\ (t[j][1] = "write" => t[j][2] \notin regs)
      BY <1>2, <3>1 DEF Spares
    <3> QED BY <3>2
  <2> QED BY <1>2, <2>1, <2>2
<1>4. Spares(u, regs)
  BY <1>2, <1>3 DEF Spares
<1> QED BY <1>2, <1>4

\* One access spares the registers it does not write.
LEMMA OneSpares ==
  ASSUME NEW a, NEW regs, a[1] = "write" => a[2] \notin regs
  PROVE  Spares(<<a>>, regs)
<1>1. PICK s : s = <<a>>
  OBVIOUS
<1>2. s \in Seq({a}) /\ Len(s) = 1 /\ \A i \in 1 .. Len(s) : s[i] = a
  BY <1>1
<1>3. Spares(s, regs)
  BY <1>2 DEF Spares, IsSequence
<1> QED BY <1>1, <1>3

\* The accesses of the drivers, by the register they write.
LEMMA AccessesSpare ==
  ASSUME NEW regs
  PROVE  /\ \A reg, v : reg \notin regs => Spares(<<W(reg, v)>>, regs)
         /\ \A reg : Spares(<<R(reg)>>, regs)
         /\ \A reg, what : Spares(<<Until(reg, what)>>, regs)
         /\ \A b : Spares(<<<<"csrs", b>>>>, regs)
<1>1. ASSUME NEW reg, NEW v, reg \notin regs PROVE Spares(<<W(reg, v)>>, regs)
  <2>1. PICK a : a = W(reg, v)
    OBVIOUS
  <2>2. a[2] = reg
    BY <2>1 DEF W
  <2> QED BY <1>1, <2>1, <2>2, OneSpares
<1>2. ASSUME NEW reg PROVE Spares(<<R(reg)>>, regs)
  <2>1. PICK a : a = R(reg)
    OBVIOUS
  <2>2. a[1] = "read"
    BY <2>1 DEF R
  <2> QED BY <2>1, <2>2, OneSpares
<1>3. ASSUME NEW reg, NEW what PROVE Spares(<<Until(reg, what)>>, regs)
  <2>1. PICK a : a = Until(reg, what)
    OBVIOUS
  <2>2. a[1] = "until"
    BY <2>1 DEF Until
  <2> QED BY <2>1, <2>2, OneSpares
<1>4. ASSUME NEW b PROVE Spares(<<<<"csrs", b>>>>, regs)
  <2>1. PICK a : a = <<"csrs", b>>
    OBVIOUS
  <2>2. a[1] = "csrs"
    BY <2>1
  <2> QED BY <2>1, <2>2, OneSpares
<1> QED BY <1>1, <1>2, <1>3, <1>4

\* Three sequences.
LEMMA ThreeJoined ==
  ASSUME NEW s, NEW t, NEW u, IsSequence(s), IsSequence(t), IsSequence(u)
  PROVE  (s \o t) \o u = s \o (t \o u)
<1>1. PICK S, T, U : s \in Seq(S) /\ t \in Seq(T) /\ u \in Seq(U)
  BY DEF IsSequence
<1>2. PICK V : V = S \cup T \cup U
  OBVIOUS
<1>3. Seq(S) \subseteq Seq(V) /\ Seq(T) \subseteq Seq(V) /\ Seq(U) \subseteq Seq(V)
  BY <1>2, SeqMonotonic
<1>4. s \in Seq(V) /\ t \in Seq(V) /\ u \in Seq(V)
  BY <1>1, <1>3
<1> QED BY <1>4, ConcatAssociative

\* The drivers of the SPI master are whole, and only a frame writes CS_CTRL:
\* it writes nothing to CTRL, and ends with the chip select high.
SpiFits(t) == Whole(t, "spi") /\ (InFrame(t) \/ Spares(t, {"CS_CTRL"}))

\* A byte is put after its poll, and leaves mode and chip select alone.
LEMMA BytesFit ==
  \A b : /\ Whole(spi_write_byte(b), "spi") /\ Spares(spi_write_byte(b), {"SPI_CTRL", "CS_CTRL"})
         /\ Whole(spi_transfer(b), "spi") /\ Spares(spi_transfer(b), {"SPI_CTRL", "CS_CTRL"})
<1> TAKE b
<1>1. PICK a, c : a = Until("SPI_STATUS", "TX_NOT_FULL") /\ c = W("SPI_TX_DATA", b)
  OBVIOUS
<1>2. MayHold("SPI_TX_DATA", b)
  BY DEF MayHold
<1>3. Whole(<<a>>, "spi") /\ Whole(<<c>>, "spi")
  BY <1>1, <1>2, AccessesAreWhole DEF StatusOf
<1>4. Spares(<<a>>, {"SPI_CTRL", "CS_CTRL"}) /\ Spares(<<c>>, {"SPI_CTRL", "CS_CTRL"})
  BY <1>1, AccessesSpare
<1>5. spi_write_byte(b) = <<a>> \o <<c>>
  BY <1>1, OneAndOne DEF spi_write_byte
<1>6. Whole(spi_write_byte(b), "spi") /\ Spares(spi_write_byte(b), {"SPI_CTRL", "CS_CTRL"})
  BY <1>3, <1>4, <1>5, BothAreWhole, BothSpare
<1>7. PICK d, e : d = Until("SPI_STATUS", "RX_NOT_EMPTY") /\ e = R("SPI_RX_DATA")
  OBVIOUS
<1>8. d[1] = "until" /\ d[2] = "SPI_STATUS" /\ e[1] = "read" /\ e[2] = "SPI_RX_DATA"
  BY <1>7 DEF Until, R
<1>9. Fits(d, "spi") /\ Fits(e, "spi") /\ ~Leans(d) /\ LeansOn(e) = d
  <2>1. LeansOn(e) = d
    BY <1>7, <1>8, LeansOnWhat DEF IsTake
  <2> QED BY <1>8, <2>1 DEF Fits, StatusOf, Leans, IsPut, IsGet, IsTake, IsLeave
<1>10. Whole(<<d, e>>, "spi")
  BY <1>9, PairIsWhole
<1>11. Spares(<<d, e>>, {"SPI_CTRL", "CS_CTRL"})
  <2>1. Spares(<<d>>, {"SPI_CTRL", "CS_CTRL"}) /\ Spares(<<e>>, {"SPI_CTRL", "CS_CTRL"})
    BY <1>7, AccessesSpare
  <2>2. <<d>> \o <<e>> = <<d, e>>
    BY OneAndOne
  <2>3. Spares(<<d>> \o <<e>>, {"SPI_CTRL", "CS_CTRL"})
    BY <2>1, BothSpare
  <2> QED BY <2>2, <2>3
<1>12. spi_read_byte = <<d, e>>
  BY <1>7 DEF spi_read_byte
<1>13. Whole(spi_transfer(b), "spi") /\ Spares(spi_transfer(b), {"SPI_CTRL", "CS_CTRL"})
  BY <1>6, <1>10, <1>11, <1>12, BothAreWhole, BothSpare DEF spi_transfer
<1> QED BY <1>6, <1>13

\* Two of them.
LEMMA PairsFit ==
  ASSUME NEW x, NEW y
  PROVE  /\ spi_transfer_buf(<<x, y>>) = spi_transfer(x) \o spi_transfer(y)
         /\ spi_write_buf(<<x, y>>) = (spi_write_byte(x) \o spi_write_byte(y)) \o spi_wait_idle
<1>1. PICK w : w = <<x, y>>
  OBVIOUS
<1>2. w[1] = x /\ w[2] = y /\ DOMAIN w = 1 .. 2
  BY <1>1
<1>3. PICK f : f = [i \in 1 .. 2 |-> spi_transfer(w[i])]
  OBVIOUS
<1>4. f = <<spi_transfer(x), spi_transfer(y)>>
  <2>1. f[1] = spi_transfer(x) /\ f[2] = spi_transfer(y) /\ f = [i \in 1 .. 2 |-> f[i]]
    BY <1>2, <1>3
  <2> QED BY <2>1, TwoOf
<1>5. spi_transfer_buf(w) = spi_transfer(x) \o spi_transfer(y)
  <2>1. spi_transfer_buf(w) = FlattenSeq(f)
    BY <1>2, <1>3 DEF spi_transfer_buf
  <2> QED BY <1>4, <2>1, FlattenTwo
<1>6. PICK g : g = [i \in 1 .. 2 |-> spi_write_byte(w[i])]
  OBVIOUS
<1>7. g = <<spi_write_byte(x), spi_write_byte(y)>>
  <2>1. g[1] = spi_write_byte(x) /\ g[2] = spi_write_byte(y) /\ g = [i \in 1 .. 2 |-> g[i]]
    BY <1>2, <1>6
  <2> QED BY <2>1, TwoOf
<1>8. spi_write_buf(w) = (spi_write_byte(x) \o spi_write_byte(y)) \o spi_wait_idle
  <2>1. spi_write_buf(w) = FlattenSeq(g) \o spi_wait_idle
    BY <1>2, <1>6 DEF spi_write_buf
  <2> QED BY <1>7, <2>1, FlattenTwo
<1> QED BY <1>1, <1>5, <1>8

\* spi_cs_assert(), two bytes, the wait for the last bit, spi_cs_deassert().
LEMMA FrameFits == SpiFits(Frame(spi_write_buf(<<"c", "d">>)))
<1>1. PICK b, p, i, l : /\ b = W("CS_CTRL", {0}) /\ p = spi_write_byte("c") \o spi_write_byte("d")
                        /\ i = Until("SPI_STATUS", "IDLE") /\ l = W("CS_CTRL", {})
  OBVIOUS
<1>2. Whole(p, "spi") /\ Spares(p, {"SPI_CTRL", "CS_CTRL"})
  BY <1>1, BytesFit, BothAreWhole, BothSpare
<1>3. Whole(<<b>>, "spi") /\ Spares(<<b>>, {"SPI_CTRL"})
  <2>1. MayHold("CS_CTRL", {0}) /\ {0} # {}
    BY DEF MayHold
  <2> QED BY <1>1, <2>1, AccessesAreWhole, AccessesSpare
<1>4. i[1] = "until" /\ i[2] = "SPI_STATUS" /\ l[1] = "write" /\ l[2] = "CS_CTRL" /\ l[3] = {}
  BY <1>1 DEF Until, W
<1>5. IsLeave(l) /\ LeansOn(l) = i
  BY <1>1, <1>4, LeansOnWhat DEF IsLeave
<1>6. Whole(<<i, l>>, "spi")
  <2>1. Fits(i, "spi") /\ Fits(l, "spi") /\ ~Leans(i)
    BY <1>4 DEF Fits, StatusOf, MayHold, Leans, IsPut, IsGet, IsTake, IsLeave
  <2> QED BY <1>5, <2>1, PairIsWhole
<1>7. PICK e : e = <<i, l>>
  OBVIOUS
<1>8. e = <<i>> \o <<l>> /\ e \in Seq({i, l}) /\ Len(e) = 2 /\ e[2] = l
  <2>1. e = <<i>> \o <<l>>
    BY <1>7, OneAndOne
  <2>2. e \in Seq({i, l}) /\ Len(e) = 2 /\ e[2] = l
    BY <1>7
  <2> QED BY <2>1, <2>2
<1>9. Spares(e, {"SPI_CTRL"})
  <2>1. Spares(<<i>>, {"SPI_CTRL"}) /\ Spares(<<l>>, {"SPI_CTRL"})
    BY <1>1, AccessesSpare
  <2> QED BY <1>8, <2>1, BothSpare
<1>10. PICK q : q = <<b>> \o p
  OBVIOUS
<1>11. Whole(q, "spi") /\ Spares(q, {"SPI_CTRL"})
  <2>1. Spares(p, {"SPI_CTRL"})
    BY <1>2 DEF Spares
  <2> QED BY <1>2, <1>3, <1>10, <2>1, BothAreWhole, BothSpare
<1>12. Frame(spi_write_buf(<<"c", "d">>)) = q \o e
  <2>1. spi_write_buf(<<"c", "d">>) = p \o <<i>>
    BY <1>1, PairsFit DEF spi_wait_idle
  <2>2. Frame(spi_write_buf(<<"c", "d">>)) = (<<b>> \o (p \o <<i>>)) \o <<l>>
    BY <1>1, <2>1 DEF Frame, spi_cs_assert, spi_cs_deassert
  <2>3. IsSequence(<<b>>) /\ IsSequence(p) /\ IsSequence(q) /\ IsSequence(<<i>>) /\ IsSequence(<<l>>)
    <3>1. <<i>> \in Seq({i}) /\ <<l>> \in Seq({l})
      OBVIOUS
    <3> QED BY <1>2, <1>3, <1>11, <3>1 DEF Spares, IsSequence
  <2>4. <<b>> \o (p \o <<i>>) = q \o <<i>>
    BY <1>10, <2>3, ThreeJoined
  <2>5. (q \o <<i>>) \o <<l>> = q \o (<<i>> \o <<l>>)
    BY <2>3, ThreeJoined
  <2> QED BY <1>8, <2>2, <2>4, <2>5
<1>13. Whole(q \o e, "spi") /\ Spares(q \o e, {"SPI_CTRL"})
  BY <1>6, <1>7, <1>9, <1>11, BothAreWhole, BothSpare
<1>14. q \o e # <<>> /\ IsLeave((q \o e)[Len(q \o e)])
  <2>1. IsSequence(q) /\ IsSequence(e)
    BY <1>9, <1>11 DEF Spares
  <2>2. PICK u : /\ u = q \o e /\ IsSequence(u) /\ Len(q) \in Nat /\ Len(e) \in Nat
                 /\ Len(u) = Len(q) + Len(e)
                 /\ \A j \in 1 .. Len(q) : u[j] = q[j]
                 /\ \A j \in 1 .. Len(e) : u[Len(q) + j] = e[j]
                 /\ \A j \in 1 .. Len(u) : j \in 1 .. Len(q) \/ \E k \in 1 .. Len(e) : j = Len(q) + k
    BY <2>1, Joined
  <2>3. Len(u) = Len(q) + 2 /\ u[Len(q) + 2] = l
    <3>1. 2 \in 1 .. Len(e)
      BY <1>8
    <3> QED BY <1>8, <2>2, <3>1
  <2>4. u # <<>>
    <3>1. Len(u) # 0
      BY <2>2, <2>3
    <3> QED BY <3>1
  <2> QED BY <1>5, <2>2, <2>3, <2>4
<1>15. InFrame(q \o e)
  BY <1>13, <1>14 DEF InFrame
<1> QED BY <1>12, <1>13, <1>15 DEF SpiFits

\* The functions of spi.h are whole, and none but a frame moves the pin.
LEMMA SpiDriversFit ==
  /\ \A mode \in {AutoCs, ManualCs} : SpiFits(spi_init(mode, 4))
  /\ SpiFits(spi_disable) /\ SpiFits(spi_write_byte("w")) /\ SpiFits(spi_transfer("t"))
  /\ SpiFits(spi_transfer_buf(<<"a", "b">>)) /\ SpiFits(SpiStart)
<1>1. \A reg, v : MayHold(reg, v) /\ reg \notin {"TX_DATA", "mtimecmp_hi", "CS_CTRL"} =>
        Whole(<<W(reg, v)>>, "spi") /\ Spares(<<W(reg, v)>>, {"CS_CTRL"})
  BY AccessesAreWhole, AccessesSpare
<1>2. \A mode \in {AutoCs, ManualCs, {}} : MayHold("SPI_CTRL", mode)
  BY DEF MayHold, AutoCs, ManualCs
<1>3. MayHold("DIVIDER", 4)
  BY DEF MayHold
<1>4. ASSUME NEW mode \in {AutoCs, ManualCs}
      PROVE  Whole(spi_init(mode, 4), "spi") /\ Spares(spi_init(mode, 4), {"CS_CTRL"})
  <2>1. PICK a, b, c : a = W("SPI_CTRL", {}) /\ b = W("DIVIDER", 4) /\ c = W("SPI_CTRL", mode)
    OBVIOUS
  <2>2. /\ Whole(<<a>>, "spi") /\ Whole(<<b>>, "spi") /\ Whole(<<c>>, "spi")
        /\ Spares(<<a>>, {"CS_CTRL"}) /\ Spares(<<b>>, {"CS_CTRL"}) /\ Spares(<<c>>, {"CS_CTRL"})
    BY <1>1, <1>2, <1>3, <2>1
  <2>3. Whole(<<a>> \o <<b>>, "spi") /\ Spares(<<a>> \o <<b>>, {"CS_CTRL"})
    BY <2>2, BothAreWhole, BothSpare
  <2>4. Whole((<<a>> \o <<b>>) \o <<c>>, "spi") /\ Spares((<<a>> \o <<b>>) \o <<c>>, {"CS_CTRL"})
    BY <2>2, <2>3, BothAreWhole, BothSpare
  <2>5. (<<a>> \o <<b>>) \o <<c>> = <<a, b, c>>
    <3>1. <<a>> \o <<b>> = <<a, b>>
      BY OneAndOne
    <3>2. <<a, b>> \o <<c>> = <<a, b, c>>
      BY TwoAndOne
    <3> QED BY <3>1, <3>2
  <2> QED BY <2>1, <2>4, <2>5 DEF spi_init
<1>5. SpiFits(spi_disable)
  BY <1>1, <1>2 DEF spi_disable, SpiFits
<1>6. \A t : Spares(t, {"SPI_CTRL", "CS_CTRL"}) => Spares(t, {"CS_CTRL"})
  BY DEF Spares
<1>7. SpiFits(spi_write_byte("w")) /\ SpiFits(spi_transfer("t"))
  BY <1>6, BytesFit DEF SpiFits
<1>8. SpiFits(spi_transfer_buf(<<"a", "b">>))
  <2>1. PICK x, y : x = spi_transfer("a") /\ y = spi_transfer("b")
    OBVIOUS
  <2>2. /\ Whole(x, "spi") /\ Whole(y, "spi")
        /\ Spares(x, {"SPI_CTRL", "CS_CTRL"}) /\ Spares(y, {"SPI_CTRL", "CS_CTRL"})
    BY <2>1, BytesFit
  <2>3. Whole(x \o y, "spi") /\ Spares(x \o y, {"SPI_CTRL", "CS_CTRL"})
    BY <2>2, BothAreWhole, BothSpare
  <2> QED BY <1>6, <2>1, <2>3, PairsFit DEF SpiFits
<1>9. SpiFits(SpiStart)
  <2>1. PICK x, y, z : x = spi_init(ManualCs, 4) /\ y = irq_enable_external /\ z = irq_enable_global
    OBVIOUS
  <2>2. /\ Whole(x, "spi") /\ Whole(y, "spi") /\ Whole(z, "spi")
        /\ Spares(x, {"CS_CTRL"}) /\ Spares(y, {"CS_CTRL"}) /\ Spares(z, {"CS_CTRL"})
    <3>1. Spares(irq_enable_external, {"CS_CTRL"}) /\ Spares(irq_enable_global, {"CS_CTRL"})
      BY AccessesSpare DEF irq_enable_external, irq_enable_global
    <3> QED BY <1>4, <2>1, <3>1, EnablesAreWhole
  <2>3. Whole(x \o y, "spi") /\ Spares(x \o y, {"CS_CTRL"})
    BY <2>2, BothAreWhole, BothSpare
  <2>4. Whole((x \o y) \o z, "spi") /\ Spares((x \o y) \o z, {"CS_CTRL"})
    BY <2>2, <2>3, BothAreWhole, BothSpare
  <2> QED BY <2>1, <2>4 DEF SpiStart, SpiFits
<1> QED BY <1>4, <1>5, <1>7, <1>8, <1>9 DEF SpiFits

\* So are the two functions of the handler, and they leave the chip select alone.
LEMMA SpiHandlerFits ==
  ASSUME NEW f \in {<<>>, spi_transfer("h")}
  PROVE  /\ Whole((spi_read_irq_status \o spi_clear_irq) \o f, "spi")
         /\ Spares((spi_read_irq_status \o spi_clear_irq) \o f, {"SPI_CTRL", "CS_CTRL"})
<1>1. MayHold("SPI_IRQ_STATUS", {"TX", "RX"})
  BY DEF MayHold
<1>2. PICK x, y : x = spi_read_irq_status /\ y = spi_clear_irq
  OBVIOUS
<1>3. /\ Whole(x, "spi") /\ Whole(y, "spi")
      /\ Spares(x, {"SPI_CTRL", "CS_CTRL"}) /\ Spares(y, {"SPI_CTRL", "CS_CTRL"})
  BY <1>1, <1>2, AccessesAreWhole, AccessesSpare DEF spi_read_irq_status, spi_clear_irq
<1>4. Whole(f, "spi") /\ Spares(f, {"SPI_CTRL", "CS_CTRL"})
  <2>1. \A i \in 1 .. Len(<<>>) : FALSE
    OBVIOUS
  <2>2. IsSequence(<<>>)
    BY NoneIsWhole DEF Whole, Shape
  <2>3. Spares(<<>>, {"SPI_CTRL", "CS_CTRL"})
    BY <2>1, <2>2 DEF Spares
  <2> QED BY <2>3, NoneIsWhole, BytesFit
<1>5. Whole(x \o y, "spi") /\ Spares(x \o y, {"SPI_CTRL", "CS_CTRL"})
  BY <1>3, BothAreWhole, BothSpare
<1>6. Whole((x \o y) \o f, "spi") /\ Spares((x \o y) \o f, {"SPI_CTRL", "CS_CTRL"})
  BY <1>4, <1>5, BothAreWhole, BothSpare
<1> QED BY <1>2, <1>6

\* A call, a return and the interrupt keep the SPI master's invariant.
LEMMA SpiProgramStep ==
  ASSUME SpiInv, scene = "spi", scene' = scene, SpiCall \/ SpiReturn \/ SpiInterrupt \/ SpiMret
  PROVE  SpiInv'
<1>1. UNCHANGED spiVars
  BY DEF SpiCall, SpiReturn, SpiInterrupt, SpiMret
<1>2. UNCHANGED <<spiCtrl, csManual, csLow, spiTx, wire, spiRx, spiIrq, asked, answered, loose>>
  BY <1>1 DEF spiVars, spi, spiHistory
<1>3. SpiWell' /\ SelectInv' /\ OneAnswer' /\ TransferReturnsItsAnswer' /\ (InFlight' = InFlight)
  BY <1>2 DEF SpiInv, SpiWell, SpiTypeOK, SelectInv, InFlight, OneAnswer, TransferReturnsItsAnswer
<1>4. HartKept
  BY DEF SpiInv
<1>5. Spares(<<>>, {"CS_CTRL"}) /\ Spares(<<>>, {"SPI_CTRL", "CS_CTRL"})
  <2>1. \A i \in 1 .. Len(<<>>) : FALSE
    OBVIOUS
  <2>2. IsSequence(<<>>)
    BY NoneIsWhole DEF Whole, Shape
  <2> QED BY <2>1, <2>2 DEF Spares
<1>6. ASSUME todo = <<>> PROVE ~csManual
  BY <1>6 DEF SpiInv, FrameInv, InFrame
<1>7. ASSUME HartKept', isrTodo' = isrTodo, todo = <<>>, todo' # <<>> => ~Leans(Head(todo')),
             InFrame(todo') \/ Spares(todo', {"CS_CTRL"})
      PROVE  SpiInv'
  <2>1. LeaveHolds' /\ TakeHolds'
    BY <1>7, LeansOnWhat DEF LeaveHolds, TakeHolds
  <2>2. FrameInv' /\ HandlerSpares'
    BY <1>2, <1>6, <1>7 DEF SpiInv, FrameInv, HandlerSpares
  <2> QED BY <1>3, <1>7, <2>1, <2>2 DEF SpiInv
<1>8. ASSUME HartKept', todo' = todo, HandlerSpares' PROVE SpiInv'
  BY <1>2, <1>3, <1>8 DEF SpiInv, FrameInv, LeaveHolds, TakeHolds
<1>9. CASE SpiCall
  <2>1. PICK f \in {spi_init(AutoCs, 4), spi_init(ManualCs, 4), spi_disable,
                    spi_write_byte("w"), spi_transfer("t"), spi_transfer_buf(<<"a", "b">>),
                    Frame(spi_write_buf(<<"c", "d">>))} : Begin("other", f)
    BY <1>9 DEF SpiCall
  <2>2. SpiFits(f)
    BY SpiDriversFit, FrameFits
  <2>3. Whole(f, scene) /\ (InFrame(f) \/ Spares(f, {"CS_CTRL"}))
    BY <2>2 DEF SpiFits
  <2>4. todo = <<>> /\ todo' = f /\ isrTodo' = isrTodo
    BY <1>4, <2>1 DEF Begin, handler, HartKept, HartTypeOK
  <2>5. HartKept' /\ (f # <<>> => ~Leans(Head(f)))
    BY <1>4, <2>1, <2>3, BeginKeepsHart, WholeIsTyped
  <2> QED BY <1>7, <2>3, <2>4, <2>5
<1>10. CASE SpiReturn
  <2>1. Return /\ todo = <<>>
    BY <1>10 DEF SpiReturn, GoesOn
  <2>2. HartKept' /\ todo' = <<>> /\ isrTodo' = isrTodo
    BY <1>4, <2>1, ReturnKeepsHart DEF Return, handler
  <2> QED BY <1>5, <1>7, <2>1, <2>2
<1>11. CASE SpiInterrupt
  <2>1. PICK f \in {<<>>, spi_transfer("h")} : Interrupt("external", (spi_read_irq_status \o spi_clear_irq) \o f)
    BY <1>11 DEF SpiInterrupt
  <2>2. PICK t : t = (spi_read_irq_status \o spi_clear_irq) \o f
    OBVIOUS
  <2>3. Whole(t, scene) /\ Spares(t, {"SPI_CTRL", "CS_CTRL"})
    BY <2>2, SpiHandlerFits
  <2>4. HartKept' /\ todo' = todo /\ isrTodo' = t
    BY <1>4, <2>1, <2>2, <2>3, InterruptKeepsHart DEF Interrupt, thread
  <2> QED BY <1>8, <2>3, <2>4 DEF HandlerSpares
<1>12. CASE SpiMret
  <2>1. Mret /\ isrTodo = <<>>
    BY <1>12 DEF SpiMret, HandlerAt
  <2>2. HartKept' /\ todo' = todo /\ isrTodo' = <<>>
    BY <1>4, <2>1, MretKeepsHart DEF Mret, thread
  <2> QED BY <1>5, <1>8, <2>2 DEF HandlerSpares
<1> QED BY <1>9, <1>10, <1>11, <1>12

\* Every step of the SPI master's scene keeps its invariant.
LEMMA SpiStep ==
  ASSUME SpiInv, scene = "spi", scene' = scene, SpiNext
  PROVE  SpiInv'
BY SpiAccessStep, SpiLineStep, SpiProgramStep DEF SpiNext

-----------------------------------------------------------------------------
\* In the other scenes the lines rest.
UartRest == uartCtrl = {} /\ txFifo = <<>> /\ shift = <<>> /\ rxFifo = <<>> /\ coming = Arrivals
            /\ {txIrq, rxIrq, crowded, stolen, unheard} \subseteq BOOLEAN /\ owed = <<>> /\ got[1] # "old"
SpiRest  == spiCtrl = {"CS_AUTO"} /\ spiIrq = {} /\ {csManual, csLow, loose} \subseteq BOOLEAN
            /\ spiTx = <<>> /\ wire = <<>> /\ spiRx = <<>> /\ ~answered[2][2]
LinesInv ==
  /\ IF scene = "uart" THEN UartInv ELSE UartRest
  /\ IF scene = "spi" THEN SpiInv ELSE SpiRest

\* The invariant implies the property.
LEMMA LinesInvIsEnough == LinesInv => SerialKept
<1> SUFFICES ASSUME LinesInv PROVE UartKept /\ SpiKept
  BY DEF SerialKept
<1>1. UartInv => UartKept
  BY DEF UartInv
<1>2. UartRest => UartKept
  <2>1. <<>> \o <<>> = <<>>
    <3>1. <<>> \in Seq({})
      OBVIOUS
    <3> QED BY <3>1, ConcatEmptySeq
  <2> QED BY <2>1 DEF UartRest, UartKept, SentInOrder, GetcReturnsByte, NoByteForgotten
<1>3. SpiInv => SpiKept
  BY SpiInvIsEnough
<1>4. SpiRest => SpiKept
  BY DEF SpiRest, SpiKept, TransferReturnsItsAnswer, FrameKept
<1> QED BY <1>1, <1>2, <1>3, <1>4 DEF LinesInv

\* It holds at the start.
LEMMA LinesStart == Init => LinesInv
<1> SUFFICES ASSUME Init PROVE LinesInv
  OBVIOUS
<1>1. UartInit /\ SpiInit /\ HartInit(IF scene = "main" THEN "main" ELSE "start", StartOf(scene), MaxCalls[scene])
  BY DEF Init
<1>2. UartRest
  <2>1. got[1] = "none"
    BY <1>1 DEF UartInit
  <2> QED BY <1>1, <2>1 DEF UartRest, UartInit
<1>3. SpiRest
  <2>1. answered = <<"none", asked>> /\ asked = <<"none", FALSE>>
    BY <1>1 DEF SpiInit
  <2>2. answered[2] = asked /\ asked[2] = FALSE
    BY <2>1
  <2> QED BY <1>1, <2>2 DEF SpiRest, SpiInit
<1>4. /\ call # "none" /\ todo = StartOf(scene) /\ seen = <<>> /\ calls = MaxCalls[scene]
      /\ isr = "none" /\ isrTodo = <<>> /\ isrSeen = <<>> /\ enabled = {} /\ scene \in Scenes
  BY <1>1 DEF HartInit, Init
<1>5. ASSUME Whole(todo, scene) PROVE HartKept
  <2>1. calls \in Nat
    BY <1>4, CallsConstant
  <2>2. Shape(todo, scene) /\ IsSequence(seen) /\ MergesTyped(todo, seen)
    BY <1>4, <1>5, WholeIsTyped
  <2>3. Shape(isrTodo, scene) /\ IsSequence(isrSeen) /\ MergesTyped(isrTodo, isrSeen)
    BY <1>4, NoneIsWhole, WholeIsTyped
  <2> QED BY <1>4, <2>1, <2>2, <2>3 DEF HartKept, HartTypeOK, Thread
<1>6. CASE scene = "uart"
  <2>1. todo = UartStart
    BY <1>4, <1>6 DEF StartOf
  <2>2. Whole(todo, scene)
    BY <1>6, <2>1, UartDriversAreWhole
  <2>3. HartKept /\ (todo # <<>> => ~Leans(Head(todo)))
    BY <1>5, <2>2, WholeIsTyped
  <2>4. UartWell
    <3>1. <<>> \in Seq(Line) /\ Len(<<>>) = 0
      OBVIOUS
    <3>2. IsSequence(<<>>)
      BY NoneIsWhole DEF Whole, Shape
    <3>3. UartTypeOK
      <4>1. txFifo = <<>> /\ rxFifo = <<>> /\ shift = <<>> /\ UartDepth \in Nat
        BY <1>1, UartConstants DEF UartInit
      <4>2. Len(txFifo) <= UartDepth /\ Len(rxFifo) <= UartDepth /\ Len(shift) <= 1
        BY <3>1, <4>1
      <4>3. uartCtrl = {} /\ {txIrq, rxIrq, crowded, stolen, unheard} \subseteq BOOLEAN
        BY <1>1 DEF UartInit
      <4> QED BY <4>2, <4>3 DEF UartTypeOK
    <3> QED BY <1>1, <3>1, <3>2, <3>3, UartConstants DEF UartInit, UartWell, Line
  <2>5. UartKept
    <3>1. <<>> \o <<>> = <<>>
      <4>1. <<>> \in Seq({})
        OBVIOUS
      <4> QED BY <4>1, ConcatEmptySeq
    <3> QED BY <1>2, <3>1 DEF UartRest, UartKept, SentInOrder, GetcReturnsByte, NoByteForgotten
  <2>6. PutHolds /\ GetHolds /\ EchoHolds /\ LooksAgain
    BY <1>4, <2>3, LeansOnWhat DEF PutHolds, GetHolds, EchoHolds, LooksAgain, Thread
  <2> QED BY <1>3, <1>6, <2>3, <2>4, <2>5, <2>6 DEF LinesInv, UartInv
<1>7. CASE scene = "spi"
  <2>1. todo = SpiStart
    BY <1>4, <1>7 DEF StartOf
  <2>2. Whole(todo, scene) /\ (InFrame(todo) \/ Spares(todo, {"CS_CTRL"}))
    BY <1>7, <2>1, SpiDriversFit DEF SpiFits
  <2>3. HartKept /\ (todo # <<>> => ~Leans(Head(todo)))
    BY <1>5, <2>2, WholeIsTyped
  <2>4. SpiWell
    <3>1. Len(<<>>) = 0
      OBVIOUS
    <3>2. asked[2] = FALSE
      BY <1>1 DEF SpiInit
    <3>3. IsSequence(<<>>)
      BY NoneIsWhole DEF Whole, Shape
    <3>4. SpiTypeOK
      <4>1. spiTx = <<>> /\ spiRx = <<>> /\ wire = <<>> /\ SpiDepth \in Nat
        BY <1>1, SpiConstants DEF SpiInit
      <4>2. Len(spiTx) <= SpiDepth /\ Len(spiRx) <= SpiDepth /\ Len(wire) <= 1
        BY <3>1, <4>1
      <4>3. spiCtrl = {"CS_AUTO"} /\ spiIrq = {} /\ {csManual, csLow, loose} \subseteq BOOLEAN
        BY <1>1 DEF SpiInit
      <4> QED BY <4>2, <4>3 DEF SpiTypeOK
    <3> QED BY <1>1, <3>2, <3>3, <3>4 DEF SpiInit, SpiWell
  <2>5. SelectInv /\ OneAnswer /\ TransferReturnsItsAnswer
    <3>1. asked[2] = FALSE
      BY <1>1 DEF SpiInit
    <3> QED BY <1>1, <1>3, <3>1 DEF SpiInit, SpiRest, SelectInv, InFlight, OneAnswer, TransferReturnsItsAnswer
  <2>6. FrameInv /\ HandlerSpares /\ LeaveHolds /\ TakeHolds
    <3>1. ~csManual
      BY <1>1 DEF SpiInit
    <3>2. Spares(<<>>, {"SPI_CTRL", "CS_CTRL"})
      <4>1. \A i \in 1 .. Len(<<>>) : FALSE
        OBVIOUS
      <4>2. IsSequence(<<>>)
        BY NoneIsWhole DEF Whole, Shape
      <4> QED BY <4>1, <4>2 DEF Spares
    <3> QED BY <1>4, <2>2, <2>3, <3>1, <3>2, LeansOnWhat DEF FrameInv, HandlerSpares, LeaveHolds, TakeHolds
  <2> QED BY <1>2, <1>7, <2>3, <2>4, <2>5, <2>6 DEF LinesInv, SpiInv
<1> QED BY <1>2, <1>3, <1>6, <1>7 DEF LinesInv

\* Every step keeps it.
LEMMA LinesGoOn == LinesInv /\ [Next]_vars => LinesInv'
<1> SUFFICES ASSUME LinesInv, [Next]_vars PROVE LinesInv'
  OBVIOUS
<1>1. scene' = scene
  BY DEF Next, Clint, Perf, Timer, Uart, Spi, Irq, Ascon, vars
<1>2. UNCHANGED uartVars => (UartRest => UartRest')
  BY DEF uartVars, uart, uartHistory, UartRest
<1>3. UNCHANGED spiVars => (SpiRest => SpiRest')
  BY DEF spiVars, spi, spiHistory, SpiRest
<1>4. ASSUME UNCHANGED vars PROVE LinesInv'
  <2>1. UNCHANGED <<hart, uartVars, spiVars>> /\ UNCHANGED <<todo, isr, isrTodo, isrSeen>>
    BY <1>4 DEF vars, devices, hart, thread, handler
  <2>2. HartKept => HartKept'
    BY <1>1, <2>1, StillHart
  <2>3. UartInv => UartInv'
    <3>1. UNCHANGED <<uartCtrl, txFifo, shift, rxFifo, txIrq, rxIrq, coming, owed, crowded, stolen, unheard, got>>
      BY <2>1 DEF uartVars, uart, uartHistory
    <3> QED BY <2>1, <2>2, <3>1
            DEF UartInv, UartWell, UartTypeOK, UartKept, SentInOrder, GetcReturnsByte, NoByteForgotten,
                PutHolds, GetHolds, EchoHolds, LooksAgain, Thread, Full, Line
  <2>4. SpiInv => SpiInv'
    <3>1. UNCHANGED <<spiCtrl, csManual, csLow, spiTx, wire, spiRx, spiIrq, asked, answered, loose>>
      BY <2>1 DEF spiVars, spi, spiHistory
    <3> QED BY <2>1, <2>2, <3>1
            DEF SpiInv, SpiWell, SpiTypeOK, SelectInv, InFlight, FrameInv, InFrame, Spares, HandlerSpares,
                LeaveHolds, TakeHolds, OneAnswer, TransferReturnsItsAnswer
  <2> QED BY <1>1, <1>2, <1>3, <2>1, <2>3, <2>4 DEF LinesInv
<1>5. CASE Uart
  <2>1. scene = "uart" /\ UartNext /\ UNCHANGED spiVars
    BY <1>5 DEF Uart
  <2> QED BY <1>1, <1>3, <2>1, UartStep DEF LinesInv
<1>6. CASE Spi
  <2>1. scene = "spi" /\ SpiNext /\ UNCHANGED uartVars
    BY <1>6 DEF Spi
  <2> QED BY <1>1, <1>2, <2>1, SpiStep DEF LinesInv
<1>7. CASE scene \notin {"uart", "spi"} /\ UNCHANGED <<uartVars, spiVars>>
  BY <1>1, <1>2, <1>3, <1>7 DEF LinesInv
<1>8. CASE Clint \/ Perf \/ Timer \/ Irq \/ Ascon
  BY <1>7, <1>8 DEF Clint, Perf, Timer, Irq, Ascon
<1> QED BY <1>4, <1>5, <1>6, <1>8 DEF Next

\* The bytes of the thread go out in the order they were put, uart_getc and
\* spi_transfer return what came in for them, no byte waits unheard, and a
\* frame keeps its chip select (uart.h:51-72, spi.h:95-137), under the
\* interrupts of the handlers, for every depth of the FIFOs, every sequence of
\* bytes on the line and every number of calls.
THEOREM SerialIsKept == Spec => []SerialKept
<1> QED BY LinesInvIsEnough, LinesStart, LinesGoOn, PTL DEF Spec

-----------------------------------------------------------------------------
(***************************************************************************)
(* The types of all devices.  A register takes what is written to it, and  *)
(* every value the drivers write, or merge with what they read, is one the *)
(* register may hold (Fits): that the functions of every driver are whole  *)
(* is what the types rest on.  A deadline fits two words because the time  *)
(* it is counted from is one the clock has shown.                          *)
(***************************************************************************)

\* A function of accesses that lean on nothing.
LEMMA PlainsAreWhole ==
  ASSUME NEW S, NEW t \in Seq(S), NEW s, \A a \in S : Fits(a, s) /\ ~Leans(a)
  PROVE  Whole(t, s)
<1>1. \A i \in 1 .. Len(t) : t[i] \in S
  OBVIOUS
<1>2. t # <<>> => t[1] \in S
  OBVIOUS
<1> QED BY <1>1, <1>2 DEF Whole, Shape, IsSequence

\* The accesses of the drivers that lean on nothing and fit.
LEMMA AccessesFit ==
  ASSUME NEW s
  PROVE  /\ \A reg, v : MayHold(reg, v) /\ reg \notin {"TX_DATA", "mtimecmp_hi", "CS_CTRL"}
                          => Fits(W(reg, v), s) /\ ~Leans(W(reg, v))
         /\ \A reg : reg \notin {"RX_DATA", "SPI_RX_DATA"} => Fits(R(reg), s) /\ ~Leans(R(reg))
<1>1. ASSUME NEW reg, NEW v, MayHold(reg, v), reg \notin {"TX_DATA", "mtimecmp_hi", "CS_CTRL"}
      PROVE  Fits(W(reg, v), s) /\ ~Leans(W(reg, v))
  <2>1. PICK a : a = W(reg, v)
    OBVIOUS
  <2>2. a[1] = "write" /\ a[2] = reg /\ a[3] = v
    BY <2>1 DEF W
  <2>3. Fits(a, s) /\ ~Leans(a)
    BY <1>1, <2>2 DEF Fits, Leans, IsPut, IsGet, IsTake, IsLeave
  <2> QED BY <2>1, <2>3
<1>2. ASSUME NEW reg, reg \notin {"RX_DATA", "SPI_RX_DATA"} PROVE Fits(R(reg), s) /\ ~Leans(R(reg))
  <2>1. PICK a : a = R(reg)
    OBVIOUS
  <2>2. a[1] = "read" /\ a[2] = reg
    BY <2>1 DEF R
  <2>3. Fits(a, s) /\ ~Leans(a)
    BY <1>2, <2>2 DEF Fits, Leans, IsPut, IsGet, IsTake, IsLeave
  <2> QED BY <2>1, <2>3
<1> QED BY <1>1, <1>2

\* The words of a time, and a time made of two words.
LEMMA TimesHaveWords ==
  /\ \A d \in Times : Hi(d) \in 0 .. Half - 1 /\ Lo(d) \in 0 .. Half - 1
  /\ \A h \in 0 .. Half - 1, l \in 0 .. Half - 1 : Half * h + l \in Times
  /\ Half - 1 \in 0 .. Half - 1 /\ Top \in Times /\ 0 .. MaxTime \subseteq Times
<1>1. Half \in Nat /\ Half > 1 /\ Half * Half \in Nat /\ Top = Half * Half - 1 /\ Top \in Nat
  BY ClintConstants, TopIsNat DEF Top
<1>2. ASSUME NEW h \in 0 .. Half - 1, NEW l \in 0 .. Half - 1 PROVE Half * h + l \in Times
  <2>1. h \in Nat /\ l \in Nat /\ h < Half /\ l < Half
    BY <1>1
  <2>2. Half * h + Half <= Half * Half
    BY <1>1, <2>1, Steps
  <2>3. Half * h \in Nat
    BY <1>1, <2>1
  <2> QED BY <1>1, <2>1, <2>2, <2>3 DEF Times
<1>3. ASSUME NEW d \in Times PROVE Hi(d) \in 0 .. Half - 1 /\ Lo(d) \in 0 .. Half - 1
  <2>1. d \in Nat /\ d <= Half * Half - 1
    BY <1>1 DEF Times
  <2>2. Hi(d) \in Nat /\ Lo(d) \in 0 .. Half - 1 /\ Half * Hi(d) + Lo(d) = d
    BY <2>1, WordsOf
  <2>3. SUFFICES ASSUME Half <= Hi(d) PROVE FALSE
    BY <1>1, <2>2
  <2>4. Half * Half <= Half * Hi(d)
    <3>1. Half < Hi(d) => Half * Half + Half <= Half * Hi(d)
      BY <1>1, <2>2, Steps
    <3>2. Half * Hi(d) \in Nat
      BY <1>1, <2>2
    <3> QED BY <1>1, <2>2, <2>3, <3>1, <3>2
  <2>5. Half * Hi(d) \in Nat
    BY <1>1, <2>2
  <2> QED BY <1>1, <2>1, <2>2, <2>4, <2>5
<1>4. 0 .. MaxTime \subseteq Times
  <2>1. MaxTime \in Nat /\ MaxTime < Half * (Half - 1)
    BY ClintConstants
  <2>2. Half * (Half - 1) + Half <= Half * Half
    BY <1>1, Steps
  <2>3. Half * (Half - 1) \in Nat
    BY <1>1
  <2>4. MaxTime <= Top
    BY <1>1, <2>1, <2>2, <2>3
  <2> QED BY <1>1, <2>1, <2>4 DEF Times
<1> QED BY <1>1, <1>2, <1>3, <1>4 DEF Times

\* The functions of clint.h and soc_ctrl.h.
LEMMA ClockDriversAreWhole ==
  \A s : /\ Whole(clint_mtime, s) /\ \A d \in Times : Whole(clint_set_mtimecmp(d), s)
         /\ Whole(soc_perf_cycle64, s) /\ Whole(soc_perf_instr64, s) /\ Whole(soc_perf_enable, s)
         /\ Whole(soc_perf_disable, s) /\ Whole(soc_ctrl_soft_reset, s)
         /\ Whole(clint_sw_irq_set, s) /\ Whole(clint_sw_irq_clear, s) /\ Whole(clint_sw_irq_pending, s)
         /\ Whole(irq_disable_timer \o irq_disable_software \o irq_disable_global, s)
         /\ Whole(ClintStart, s)
<1> TAKE s
<1>1. /\ Whole(clint_sw_irq_set, s) /\ Whole(clint_sw_irq_clear, s) /\ Whole(clint_sw_irq_pending, s)
      /\ Whole(soc_perf_enable, s) /\ Whole(soc_perf_disable, s) /\ Whole(soc_ctrl_soft_reset, s)
  <2>1. /\ MayHold("msip", 0) /\ MayHold("msip", 1) /\ MayHold("perf_ctrl", TRUE) /\ MayHold("perf_ctrl", FALSE)
        /\ MayHold("sys_ctrl", 1)
    BY DEF MayHold
  <2> QED BY <2>1, AccessesAreWhole
          DEF clint_sw_irq_set, clint_sw_irq_clear, clint_sw_irq_pending, soc_perf_enable, soc_perf_disable,
              soc_ctrl_soft_reset
<1>2. Whole(clint_mtime, s)
  <2>1. PICK a, b : a = R("mtime_hi") /\ b = R("mtime_lo")
    OBVIOUS
  <2>2. clint_mtime \in Seq({a, b})
    BY <2>1 DEF clint_mtime
  <2>3. Fits(a, s) /\ ~Leans(a) /\ Fits(b, s) /\ ~Leans(b)
    BY <2>1, AccessesFit
  <2> QED BY <2>2, <2>3, PlainsAreWhole
<1>3. Whole(soc_perf_cycle64, s)
  <2>1. PICK a, b : a = R("cycle_hi") /\ b = R("cycle_lo")
    OBVIOUS
  <2>2. soc_perf_cycle64 \in Seq({a, b})
    BY <2>1 DEF soc_perf_cycle64
  <2>3. Fits(a, s) /\ ~Leans(a) /\ Fits(b, s) /\ ~Leans(b)
    BY <2>1, AccessesFit
  <2> QED BY <2>2, <2>3, PlainsAreWhole
<1>4. Whole(soc_perf_instr64, s)
  <2>1. PICK a, b : a = R("instr_hi") /\ b = R("instr_lo")
    OBVIOUS
  <2>2. soc_perf_instr64 \in Seq({a, b})
    BY <2>1 DEF soc_perf_instr64
  <2>3. Fits(a, s) /\ ~Leans(a) /\ Fits(b, s) /\ ~Leans(b)
    BY <2>1, AccessesFit
  <2> QED BY <2>2, <2>3, PlainsAreWhole
<1>5. ASSUME NEW d \in Times PROVE Whole(clint_set_mtimecmp(d), s)
  <2>1. PICK a, b, c : a = CompareHi(Half - 1, Top) /\ b = W("mtimecmp_lo", Lo(d)) /\ c = CompareHi(Hi(d), d)
    OBVIOUS
  <2>2. clint_set_mtimecmp(d) \in Seq({a, b, c})
    BY <2>1 DEF clint_set_mtimecmp
  <2>3. /\ a[1] = "write" /\ a[2] = "mtimecmp_hi" /\ a[3] = Half - 1 /\ a[4] = Top
        /\ c[1] = "write" /\ c[2] = "mtimecmp_hi" /\ c[3] = Hi(d) /\ c[4] = d
    BY <2>1 DEF CompareHi
  <2>4. MayHold("mtimecmp_hi", Half - 1) /\ MayHold("mtimecmp_hi", Hi(d)) /\ MayHold("mtimecmp_lo", Lo(d))
    BY TimesHaveWords DEF MayHold
  <2>5. Fits(a, s) /\ ~Leans(a)
    BY <2>3, <2>4, TimesHaveWords DEF Fits, Leans, IsPut, IsGet, IsTake, IsLeave
  <2>6. Fits(c, s) /\ ~Leans(c)
    BY <2>3, <2>4 DEF Fits, Leans, IsPut, IsGet, IsTake, IsLeave
  <2>7. Fits(b, s) /\ ~Leans(b)
    BY <2>1, <2>4, AccessesFit
  <2> QED BY <2>2, <2>5, <2>6, <2>7, PlainsAreWhole
<1>6. Whole(irq_disable_timer \o irq_disable_software \o irq_disable_global, s)
  BY EnablesAreWhole, BothAreWhole
<1>7. Whole(ClintStart, s)
  BY EnablesAreWhole, BothAreWhole DEF ClintStart
<1> QED BY <1>1, <1>2, <1>3, <1>4, <1>5, <1>6, <1>7

\* A deadline counted from a time that the clock has shown.
LEMMA DeadlineFits ==
  ASSUME ClockInv, NEW us \in Delays, NEW v, Agree(v), NEW from \in Nat,
         NEW t1 \in from .. mtime, NEW t2 \in from .. mtime, NEW t3 \in from .. mtime,
         t1 <= t2, t2 <= t3, v = <<Hi(t1), Lo(t2), Hi(t3)>>
  PROVE  MtimeOf(v) + us \in Times
<1>1. mtime \in 0 .. MaxTime /\ MaxTime \in Nat
  BY TopIsNat DEF ClockInv
<1>2. MtimeOf(v) = t2
  BY <1>1, TimeRead
<1>3. us \in Nat /\ MaxTime + us < Half * Half /\ Half * Half \in Nat
  BY ClintConstants
<1>4. t2 \in Nat /\ t2 <= MaxTime
  BY <1>1
<1>5. PICK q : q = Half * Half
  OBVIOUS
<1>6. q \in Nat /\ t2 + us \in Nat /\ t2 + us <= q - 1
  BY <1>1, <1>3, <1>4, <1>5
<1>7. Times = 0 .. q - 1
  BY <1>5 DEF Times, Top
<1> QED BY <1>2, <1>6, <1>7

\* An access to the clocks keeps the hart and the types of the registers.
LEMMA ClockAccessIsTyped ==
  ASSUME HartKept, ClintTypeOK, scene \in {"clint", "perf"}, scene' = scene, ClintAccess
  PROVE  HartKept' /\ ClintTypeOK'
<1>1. Current # <<>> /\ Access(ClintRead) /\ Merged(scene) = {}
  BY DEF ClintAccess, Merged
<1>2. HartKept'
  BY <1>1, AccessKeepsHart
<1>3. Fits(Head(Current), scene) /\ \A reg : Writes(reg) => MayHold(reg, Written)
  BY <1>1, WrittenMayBeHeld
<1>4. ASSUME Writes("mtimecmp_hi") PROVE Written \in 0 .. Half - 1 /\ Head(Current)[4] \in Times
  <2>1. PICK a : a = Head(Current)
    OBVIOUS
  <2>2. a[1] \in {"write", "merge"} /\ a[2] = "mtimecmp_hi"
    BY <1>4, <2>1 DEF Writes, Op, Reg
  <2>3. a[1] = "write"
    BY <1>1, <1>3, <2>1, <2>2 DEF Fits
  <2>4. a[4] \in Times
    BY <1>3, <2>1, <2>2, <2>3 DEF Fits
  <2>5. Written \in 0 .. Half - 1
    BY <1>3, <1>4 DEF MayHold
  <2> QED BY <2>1, <2>4, <2>5
<1>5. /\ Writes("mtimecmp_lo") => Written \in 0 .. Half - 1
      /\ Writes("msip") => Written \in {0, 1}
      /\ Writes("perf_ctrl") => Written \in BOOLEAN
  BY <1>3 DEF MayHold
<1>6. /\ msip' = Register("msip", msip) /\ shadow' = Register("mtimecmp_lo", shadow)
      /\ mtimecmp' = (IF Writes("mtimecmp_hi") THEN Half * Written + shadow ELSE mtimecmp)
      /\ perfEn' = Register("perf_ctrl", perfEn)
      /\ due' = (IF Writes("mtimecmp_hi") THEN Head(Current)[4] ELSE due)
      /\ UNCHANGED <<mtime, counter, began>>
  BY DEF ClintAccess, ClintWrite
<1>7. mixed' \in BOOLEAN /\ crossed' \in BOOLEAN
  <2>1. mixed \in BOOLEAN /\ crossed \in BOOLEAN
    BY DEF ClintTypeOK
  <2>2. mixed' = (IF Writes("mtimecmp_hi") THEN Thread /\ crossed ELSE mixed)
    BY DEF ClintAccess, ClintWrite
  <2>3. crossed' = (IF Thread /\ Writes("mtimecmp_hi") THEN FALSE
                    ELSE crossed \/ (~Thread /\ Writes("mtimecmp_lo") /\ Opened))
    BY DEF ClintAccess, ClintWrite
  <2>4. mixed' \in BOOLEAN
    BY <2>1, <2>2
  <2>5. crossed' \in BOOLEAN
    BY <2>1, <2>3
  <2> QED BY <2>4, <2>5
<1>8. mtimecmp' \in Times /\ due' \in Times
  BY <1>4, <1>6, TimesHaveWords DEF ClintTypeOK
<1>9. shadow' \in 0 .. Half - 1 /\ msip' \in {0, 1} /\ perfEn' \in BOOLEAN
  BY <1>5, <1>6 DEF ClintTypeOK, Register
<1> QED BY <1>2, <1>6, <1>7, <1>8, <1>9 DEF ClintTypeOK

\* A step that does not touch the clocks keeps their types.
LEMMA ClockTypesStay == ASSUME ClintTypeOK, UNCHANGED <<clint, perf, due, crossed, mixed>>,
                               began' = began \/ began' \in {mtime, counter}
                        PROVE  ClintTypeOK'
BY DEF ClintTypeOK, clint, perf

\* The calls, the returns and the handler of the programs of the clocks.
LEMMA ClockProgramIsTyped ==
  ASSUME HartKept, ClintTypeOK, ClintInv, scene' = scene,
         ClintCall \/ PerfCall \/ ReadAgain \/ Arms \/ ClintReturn \/ ClintInterrupt \/ ClintMret
  PROVE  HartKept' /\ ClintTypeOK'
<1>1. CASE ClintCall
  <2>1. \A f : f = clint_clear_timer => Whole(f, scene)
    BY ClockDriversAreWhole, TimesHaveWords DEF clint_clear_timer
  <2>2. PICK name, f : Begin(name, f) /\ name # "none" /\ Whole(f, scene)
    BY <1>1, <2>1, ClockDriversAreWhole DEF ClintCall
  <2>3. HartKept'
    BY <2>2, BeginKeepsHart
  <2>4. ClintTypeOK'
    BY <1>1, ClockTypesStay DEF ClintCall, Called
  <2> QED BY <2>3, <2>4
<1>2. CASE PerfCall
  <2>1. PICK name, f : Begin(name, f) /\ name # "none" /\ Whole(f, scene)
    BY <1>2, ClockDriversAreWhole DEF PerfCall
  <2>2. HartKept'
    BY <2>1, BeginKeepsHart
  <2>3. ClintTypeOK'
    BY <1>2, ClockTypesStay DEF PerfCall, Called
  <2> QED BY <2>2, <2>3
<1>3. ASSUME UNCHANGED clintVars PROVE ClintTypeOK'
  <2>1. UNCHANGED <<clint, perf, clintHistory>>
    BY <1>3 DEF clintVars
  <2>2. UNCHANGED <<clint, perf, due, crossed, mixed>> /\ began' = began
    BY <2>1 DEF clintHistory
  <2> QED BY <2>2, ClockTypesStay
<1>4. \A v : Len(v) = 3 => v # <<>>
  <2>1. Len(<<>>) = 0
    OBVIOUS
  <2> QED BY <2>1
<1>5. CASE ReadAgain
  <2> ClintTypeOK'
    BY <1>3, <1>5 DEF ReadAgain
  <2>1. CASE (GoesOn("mtime") \/ GoesOn("arm")) /\ Continue(clint_mtime)
    BY <2>1, ContinueKeepsHart, ClockDriversAreWhole DEF GoesOn
  <2>2. CASE Len(isrSeen) = 3 /\ HandlerContinue(clint_mtime)
    <3>1. ~Thread
      BY <1>4, <2>2 DEF HartKept
    <3> QED BY <2>2, <3>1, HandlerContinueKeepsHart, ClockDriversAreWhole
  <2> QED BY <1>5, <2>1, <2>2 DEF ReadAgain
<1>6. CASE Arms
  <2> ClintTypeOK'
    BY <1>3, <1>6 DEF Arms
  <2>1. PICK us \in Delays :
          \/ /\ GoesOn("arm") /\ Len(seen) = 3 /\ Agree(seen)
             /\ Continue(clint_set_mtimecmp(MtimeOf(seen) + us))
          \/ /\ isrTodo = <<>> /\ Len(isrSeen) = 3 /\ Agree(isrSeen)
             /\ HandlerContinue(clint_set_mtimecmp(MtimeOf(isrSeen) + us))
    BY <1>6 DEF Arms
  <2>2. CASE GoesOn("arm") /\ Len(seen) = 3 /\ Agree(seen) /\ Continue(clint_set_mtimecmp(MtimeOf(seen) + us))
    <3>1. call = "arm" /\ todo = <<>> /\ seen # <<>>
      BY <1>4, <2>2 DEF GoesOn
    <3>2. began \in Nat /\ ClockInv
      BY DEF ClintInv, ClockInv
    <3>3. PICK t1 \in began .. mtime, t2 \in began .. mtime, t3 \in began .. mtime :
            t1 <= t2 /\ t2 <= t3 /\ seen = <<Hi(t1), Lo(t2), Hi(t3)>>
      BY <3>1, ThreadHasTheClock
    <3>4. MtimeOf(seen) + us \in Times
      BY <2>2, <3>2, <3>3, DeadlineFits
    <3>5. Whole(clint_set_mtimecmp(MtimeOf(seen) + us), scene)
      BY <3>4, ClockDriversAreWhole
    <3> QED BY <2>2, <3>1, <3>5, ContinueKeepsHart
  <2>3. CASE isrTodo = <<>> /\ Len(isrSeen) = 3 /\ Agree(isrSeen)
             /\ HandlerContinue(clint_set_mtimecmp(MtimeOf(isrSeen) + us))
    <3>1. isrSeen # <<>> /\ ClockInv
      BY <1>4, <2>3 DEF ClintInv
    <3>2. PICK t1 \in 0 .. mtime, t2 \in 0 .. mtime, t3 \in 0 .. mtime :
            t1 <= t2 /\ t2 <= t3 /\ isrSeen = <<Hi(t1), Lo(t2), Hi(t3)>>
      BY <2>3, <3>1, HandlerHasTheClock
    <3>3. ~Thread
      BY <2>3, <3>1, HandlerHasTheClock
    <3>4. MtimeOf(isrSeen) + us \in Times
      BY <2>3, <3>1, <3>2, DeadlineFits
    <3>5. Whole(clint_set_mtimecmp(MtimeOf(isrSeen) + us), scene)
      BY <3>4, ClockDriversAreWhole
    <3> QED BY <2>3, <3>3, <3>5, HandlerContinueKeepsHart
  <2> QED BY <2>1, <2>2, <2>3
<1>7. CASE ClintReturn
  <2>1. Return /\ todo = <<>> /\ UNCHANGED <<clint, perf, began, due, crossed, mixed>>
    BY <1>7 DEF ClintReturn, GoesOn
  <2> QED BY <2>1, ReturnKeepsHart, ClockTypesStay
<1>8. CASE ClintInterrupt
  <2>1. Whole(clint_clear_timer, scene) /\ Whole(clint_mtime, scene)
    BY ClockDriversAreWhole, TimesHaveWords DEF clint_clear_timer
  <2>2. Whole(clint_sw_irq_clear \o <<>>, scene) /\ Whole(clint_sw_irq_clear \o clint_mtime, scene)
    BY ClockDriversAreWhole, NoneIsWhole, BothAreWhole
  <2>3. \/ \E f \in {clint_clear_timer, clint_mtime} : Interrupt("timer", f)
        \/ \E f \in {<<>>, clint_mtime} : Interrupt("software", clint_sw_irq_clear \o f)
    BY <1>8 DEF ClintInterrupt
  <2>4. PICK cause, t : cause \in {"software", "timer"} /\ Interrupt(cause, t) /\ Whole(t, scene)
    BY <2>1, <2>2, <2>3
  <2> QED BY <1>3, <1>8, <2>4, InterruptKeepsHart DEF ClintInterrupt
<1>9. CASE ClintMret
  BY <1>3, <1>9, MretKeepsHart DEF ClintMret, HandlerAt
<1> QED BY <1>1, <1>2, <1>5, <1>6, <1>7, <1>8, <1>9

\* Every step of the two scenes of the clocks.
LEMMA ClocksAreTyped ==
  ASSUME HartKept, ClintTypeOK, ClintInv, scene \in {"clint", "perf"}, scene' = scene, ClintNext \/ PerfNext
  PROVE  HartKept' /\ ClintTypeOK'
<1>1. CASE ClintTick
  <2>1. /\ UNCHANGED <<hart, mtimecmp, shadow, msip, counter, perfEn, began, due, crossed, mixed>>
        /\ mtime < MaxTime /\ mtime' = mtime + 1
    BY <1>1 DEF ClintTick, perf, clintHistory
  <2> QED BY <2>1, StillHart, ClintConstants DEF ClintTypeOK
<1>2. CASE CounterTick
  <2>1. /\ UNCHANGED <<hart, mtime, mtimecmp, shadow, msip, perfEn, began, due, crossed, mixed>>
        /\ counter < MaxTime /\ counter' = counter + 1
    BY <1>2 DEF CounterTick, clint, clintHistory
  <2> QED BY <2>1, StillHart, ClintConstants DEF ClintTypeOK
<1>3. CASE SoftReset
  <2>1. /\ call' = "start" /\ todo' = ClintStart /\ seen' = <<>> /\ enabled' = {}
        /\ UNCHANGED <<isr, isrTodo, isrSeen, calls>>
    BY <1>3 DEF SoftReset, handler
  <2>2. Shape(todo', scene) /\ IsSequence(seen') /\ MergesTyped(todo', seen')
    BY <2>1, ClockDriversAreWhole, WholeIsTyped
  <2>3. HartKept'
    BY <2>1, <2>2 DEF HartKept, HartTypeOK, MergesTyped, Thread
  <2>4. /\ mtime' = 0 /\ mtimecmp' = Top /\ shadow' = Half - 1 /\ msip' = 0 /\ counter' = 0 /\ perfEn' = TRUE
        /\ due' = Top /\ crossed' = FALSE /\ mixed' = FALSE /\ began' = began
    BY <1>3 DEF SoftReset
  <2>5. 0 \in 0 .. MaxTime
    BY TopIsNat
  <2>6. ClintTypeOK'
    BY <2>4, <2>5, TimesHaveWords DEF ClintTypeOK
  <2> QED BY <2>3, <2>6
<1> QED BY <1>1, <1>2, <1>3, ClockAccessIsTyped, ClockProgramIsTyped DEF ClintNext, PerfNext

\* The functions of timer.h.
LEMMA TimerDriversAreWhole ==
  ASSUME NEW s
  PROVE  /\ \A n : Whole(timer0_oneshot(n), s) /\ Whole(timer1_oneshot(n), s) /\ Whole(wdt_enable(n), s)
         /\ \A n, i : Whole(timer0_autoreload(n, i), s) /\ Whole(timer1_autoreload(n, i), s)
         /\ \A f \in {timer0_wait_timeout, timer1_wait_timeout, timer0_clear, timer1_clear, timer0_stop,
                      timer1_stop, wdt_feed, wdt_disable, wdt_expired, wdt_clear} : Whole(f, s)
         /\ Whole(TimerStart, s)
<1> DEFINE Regs == CtrlRegs \cup LoadRegs \cup StatusRegs \cup {"WDT_FEED"}
<1>1. \A reg \in Regs : reg \notin {"TX_DATA", "mtimecmp_hi", "CS_CTRL", "RX_DATA", "SPI_RX_DATA"}
  BY DEF CtrlRegs, LoadRegs, StatusRegs
<1>2. \A reg \in Regs : \A v : MayHold(reg, v)
  BY DEF CtrlRegs, LoadRegs, StatusRegs, MayHold
<1>3. ASSUME NEW c \in Regs, NEW l \in Regs, NEW x, NEW n, NEW y
      PROVE  Whole(<<W(c, x), W(l, n), W(c, y)>>, s)
  <2>1. PICK a, b, d : a = W(c, x) /\ b = W(l, n) /\ d = W(c, y)
    OBVIOUS
  <2>2. PICK S, t : S = {a, b, d} /\ t = <<a, b, d>>
    OBVIOUS
  <2>3. Fits(a, s) /\ ~Leans(a) /\ Fits(b, s) /\ ~Leans(b) /\ Fits(d, s) /\ ~Leans(d)
    BY <1>1, <1>2, <2>1, AccessesFit
  <2>4. t \in Seq(S) /\ \A e \in S : Fits(e, s) /\ ~Leans(e)
    BY <2>2, <2>3
  <2>5. Whole(t, s)
    BY <2>4, PlainsAreWhole
  <2> QED BY <2>1, <2>2, <2>5
<1>4. \A reg \in Regs : \A v : Whole(<<W(reg, v)>>, s) /\ Whole(<<R(reg)>>, s)
  BY <1>1, <1>2, AccessesAreWhole
<1>5. /\ "T0_CTRL" \in Regs /\ "T0_LOAD" \in Regs /\ "T0_STATUS" \in Regs
      /\ "T1_CTRL" \in Regs /\ "T1_LOAD" \in Regs /\ "T1_STATUS" \in Regs
      /\ "WDT_CTRL" \in Regs /\ "WDT_LOAD" \in Regs /\ "WDT_STATUS" \in Regs /\ "WDT_FEED" \in Regs
  BY DEF CtrlRegs, LoadRegs, StatusRegs
<1> HIDE DEF Regs
<1>6. \A n : Whole(timer0_oneshot(n), s) /\ Whole(timer1_oneshot(n), s) /\ Whole(wdt_enable(n), s)
  BY <1>3, <1>5 DEF timer0_oneshot, timer1_oneshot, wdt_enable
<1>7. \A n, i : Whole(timer0_autoreload(n, i), s) /\ Whole(timer1_autoreload(n, i), s)
  BY <1>3, <1>5 DEF timer0_autoreload, timer1_autoreload
<1>8. /\ Whole(timer0_wait_timeout, s) /\ Whole(timer1_wait_timeout, s) /\ Whole(timer0_clear, s)
      /\ Whole(timer1_clear, s) /\ Whole(timer0_stop, s) /\ Whole(timer1_stop, s) /\ Whole(wdt_feed, s)
      /\ Whole(wdt_disable, s) /\ Whole(wdt_expired, s) /\ Whole(wdt_clear, s)
  BY <1>4, <1>5 DEF timer0_wait_timeout, timer1_wait_timeout, timer0_clear, timer1_clear, timer0_stop,
     timer1_stop, wdt_feed, wdt_disable, wdt_expired, wdt_clear
<1>9. Whole(TimerStart, s)
  BY EnablesAreWhole, BothAreWhole DEF TimerStart
<1> QED BY <1>6, <1>7, <1>8, <1>9

\* Every step of the timers' scene keeps the hart.
LEMMA TimersKeepHart ==
  ASSUME HartKept, scene = "timer", scene' = scene, TimerNext
  PROVE  HartKept'
<1>1. CASE TimerAccess
  <2>1. Current # <<>> /\ Access(flag) /\ Merged(scene) = {}
    BY <1>1 DEF TimerAccess, Merged
  <2> QED BY <2>1, AccessKeepsHart
<1>2. CASE TimerIdles
  BY <1>2, StillHart DEF TimerIdles
<1>3. CASE BoardResets
  <2>1. /\ call' = "start" /\ todo' = TimerStart /\ seen' = <<>> /\ enabled' = {}
        /\ UNCHANGED <<isr, isrTodo, isrSeen, calls>>
    BY <1>3 DEF BoardResets, handler
  <2>2. Shape(todo', scene) /\ IsSequence(seen') /\ MergesTyped(todo', seen')
    BY <2>1, TimerDriversAreWhole, WholeIsTyped
  <2> QED BY <2>1, <2>2 DEF HartKept, HartTypeOK, MergesTyped, Thread
<1>4. \A a, b : Whole(a, scene) /\ Whole(b, scene) => Whole(Of(a, b), scene)
  BY DEF Of
<1>5. CASE ChannelCall
  <2>1. /\ \A n : Whole(Of(timer0_oneshot(n), timer1_oneshot(n)), scene)
        /\ \A n, i : Whole(Of(timer0_autoreload(n, i), timer1_autoreload(n, i)), scene)
        /\ Whole(Of(timer0_wait_timeout, timer1_wait_timeout), scene)
        /\ Whole(Of(timer0_clear, timer1_clear), scene) /\ Whole(Of(timer0_stop, timer1_stop), scene)
    BY <1>4, TimerDriversAreWhole
  <2>2. PICK name, f : Begin(name, f) /\ name # "none" /\ Whole(f, scene)
    BY <1>5, <2>1 DEF ChannelCall
  <2> QED BY <2>2, BeginKeepsHart
<1>6. CASE WatchdogCall
  <2>1. PICK name, f : Begin(name, f) /\ name # "none" /\ Whole(f, scene)
    BY <1>6, TimerDriversAreWhole DEF WatchdogCall
  <2> QED BY <2>1, BeginKeepsHart
<1>7. CASE WaitsOn
  <2>1. PICK f : f = Of(timer0_wait_timeout, timer1_wait_timeout) /\ Continue(f) /\ call = "wait"
    BY <1>7 DEF WaitsOn, GoesOn
  <2>2. Whole(f, scene)
    BY <1>4, <2>1, TimerDriversAreWhole
  <2> QED BY <2>1, <2>2, ContinueKeepsHart
<1>8. CASE TimerReturn
  BY <1>8, ReturnKeepsHart DEF TimerReturn, GoesOn
<1>9. CASE TimerInterrupt
  <2>1. PICK f : f = Of(timer0_clear, timer1_clear) /\ Interrupt("external", f)
    BY <1>9 DEF TimerInterrupt
  <2>2. Whole(f, scene)
    BY <1>4, <2>1, TimerDriversAreWhole
  <2> QED BY <2>1, <2>2, InterruptKeepsHart
<1>10. CASE TimerMret
  BY <1>10, MretKeepsHart DEF TimerMret, HandlerAt
<1> QED BY <1>1, <1>2, <1>3, <1>5, <1>6, <1>7, <1>8, <1>9, <1>10 DEF TimerNext

-----------------------------------------------------------------------------
\* The functions of gpio.h, plic.h and plic_drv.h.
LEMMA PinDriversAreWhole ==
  ASSUME scene = "irq"
  PROVE  /\ \A p \in Pins : \A edge, polarity : Whole(gpio_irq_enable({p}, edge, polarity), scene)
         /\ Whole(gpio_set({0}), scene) /\ Whole(gpio_clear({0}), scene) /\ Whole(gpio_write(Pins, {4}), scene)
         /\ Whole(gpio_read \o gpio_irq_status \o gpio_irq_clear(Pins), scene)
         /\ Whole(plic_enable("ASCON"), scene) /\ Whole(plic_disable("GPIO"), scene)
         /\ Whole(mstatus_disable_irq \o plic_enable("ASCON") \o mstatus_enable_irq, scene)
         /\ Whole(plic_init_ascon, scene) /\ Whole(IrqStart, scene)
         /\ Whole(plic_claim \o gpio_irq_status, scene)
         /\ \A pins : Whole(gpio_irq_clear(pins), scene)
         /\ \A src : Whole(plic_complete(src), scene)
<1>1. /\ {"DOUT", "IRQ_MODE", "IRQ_POL", "IRQ_EN", "PLIC_ENABLE"} = Merged(scene)
      /\ \A reg \in {"DOUT", "IRQ_MODE", "IRQ_POL", "IRQ_EN"} : \A v : v \subseteq Pins => MayHold(reg, v)
      /\ \A v : v \subseteq Sources => MayHold("PLIC_ENABLE", v)
      /\ MayHold("PLIC_THRESHOLD", 0)
      /\ \A reg \in {"IRQ_STAT", "PLIC_COMPLETE", "SOC_IRQ_MASK", "SOC_IRQ_STATUS", "DIR"} : \A v : MayHold(reg, v)
  BY DEF Merged, MayHold
<1>2. \A src \in Sources : MayHold("PLIC_PRIORITY", [s \in {src} |-> 1])
  BY DEF MayHold
<1>3. /\ \A reg \in {"DOUT", "IRQ_MODE", "IRQ_POL", "IRQ_EN"} : \A v, mask : v \subseteq Pins => Whole(Merge(reg, v, mask), scene)
      /\ \A v, mask : v \subseteq Sources => Whole(Merge("PLIC_ENABLE", v, mask), scene)
  BY <1>1, MergeIsWhole
<1>4. \A p \in Pins : \A edge, polarity : Whole(gpio_irq_enable({p}, edge, polarity), scene)
  <2> TAKE p \in Pins
  <2> TAKE edge, polarity
  <2>1. PICK a, b, c : /\ a = Merge("IRQ_MODE", IF edge THEN {p} ELSE {}, {p})
                       /\ b = Merge("IRQ_POL", IF polarity THEN {p} ELSE {}, {p}) /\ c = SetBits("IRQ_EN", {p})
    OBVIOUS
  <2>2. Whole(a, scene) /\ Whole(b, scene) /\ Whole(c, scene)
    BY <1>3, <2>1 DEF SetBits
  <2>3. Whole(a \o b, scene)
    BY <2>2, BothAreWhole
  <2>4. Whole((a \o b) \o c, scene)
    BY <2>2, <2>3, BothAreWhole
  <2> QED BY <2>1, <2>4 DEF gpio_irq_enable
<1>5. Whole(gpio_set({0}), scene) /\ Whole(gpio_clear({0}), scene) /\ Whole(gpio_write(Pins, {4}), scene)
  <2>1. {0} \subseteq Pins /\ {} \subseteq Pins /\ Pins \cap {4} \subseteq Pins
    BY IrqConstants
  <2> QED BY <1>3, <2>1 DEF gpio_set, gpio_clear, gpio_write, SetBits, ClearBits
<1>6. \A src \in Sources : Whole(plic_enable(src), scene) /\ Whole(plic_disable(src), scene)
  BY <1>3 DEF plic_enable, plic_disable, SetBits, ClearBits
<1>7. /\ \A pins : Whole(gpio_irq_clear(pins), scene)
      /\ \A src : Whole(plic_complete(src), scene)
      /\ \A out : Whole(gpio_set_dir(out), scene)
      /\ \A m : Whole(soc_ctrl_irq_mask_set(m), scene) /\ Whole(soc_ctrl_irq_clear(m), scene)
      /\ Whole(plic_set_threshold(0), scene)
      /\ \A src \in Sources : Whole(plic_set_priority(src, 1), scene)
  BY <1>1, <1>2, AccessesAreWhole DEF gpio_irq_clear, plic_complete, gpio_set_dir, soc_ctrl_irq_mask_set,
     soc_ctrl_irq_clear, plic_set_threshold, plic_set_priority
<1>8. /\ Whole(gpio_read, scene) /\ Whole(gpio_irq_status, scene) /\ Whole(plic_claim, scene)
      /\ Whole(soc_ctrl_irq_status, scene)
  BY AccessesAreWhole DEF gpio_read, gpio_irq_status, plic_claim, soc_ctrl_irq_status
<1>9. Whole(mstatus_disable_irq, scene) /\ Whole(mstatus_enable_irq, scene) /\ Whole(mie_enable_external, scene)
  BY AccessesAreWhole DEF CsrBits, mstatus_disable_irq, mstatus_enable_irq, mie_enable_external
<1>10. "GPIO" \in Sources /\ "ASCON" \in Sources
  BY DEF Sources
<1>11. Whole(plic_claim \o gpio_irq_status, scene)
  BY <1>8, BothAreWhole
<1>12. Whole((gpio_read \o gpio_irq_status) \o gpio_irq_clear(Pins), scene)
  <2>1. Whole(gpio_read \o gpio_irq_status, scene)
    BY <1>8, BothAreWhole
  <2> QED BY <1>7, <2>1, BothAreWhole
<1>13. Whole((mstatus_disable_irq \o plic_enable("ASCON")) \o mstatus_enable_irq, scene)
  <2>1. Whole(mstatus_disable_irq \o plic_enable("ASCON"), scene)
    BY <1>6, <1>9, <1>10, BothAreWhole
  <2> QED BY <1>9, <2>1, BothAreWhole
<1>14. Whole(plic_init_ascon, scene)
  <2>1. PICK a, b, c : /\ a = plic_set_priority("ASCON", 1) /\ b = <<W("PLIC_ENABLE", {"ASCON"})>>
                       /\ c = plic_set_threshold(0)
    OBVIOUS
  <2>2. Whole(b, scene)
    <3>1. MayHold("PLIC_ENABLE", {"ASCON"})
      BY <1>1, <1>10
    <3> QED BY <2>1, <3>1, AccessesAreWhole
  <2>3. Whole(a \o b, scene)
    BY <1>7, <1>10, <2>1, <2>2, BothAreWhole
  <2>4. Whole((a \o b) \o c, scene)
    BY <1>7, <2>1, <2>3, BothAreWhole
  <2> QED BY <2>1, <2>4 DEF plic_init_ascon
<1>15. Whole(plic_init_source("GPIO"), scene)
  <2>1. PICK a, b, c : a = plic_set_threshold(0) /\ b = plic_set_priority("GPIO", 1) /\ c = plic_enable("GPIO")
    OBVIOUS
  <2>2. Whole(a \o b, scene)
    BY <1>7, <1>10, <2>1, BothAreWhole
  <2>3. Whole((a \o b) \o c, scene)
    BY <1>6, <1>10, <2>1, <2>2, BothAreWhole
  <2> QED BY <2>1, <2>3 DEF plic_init_source
<1>16. Whole(IrqStart, scene)
  <2>1. PICK a, b, c, d, e, f, g, h :
          /\ a = irq_set_mtvec /\ b = gpio_set_dir({}) /\ c = plic_init_source("GPIO")
          /\ d = soc_ctrl_irq_mask_set({"GPIO"}) /\ e = soc_ctrl_irq_status /\ f = soc_ctrl_irq_clear({"GPIO"})
          /\ g = mie_enable_external /\ h = mstatus_enable_irq
    OBVIOUS
  <2>2. /\ Whole(a, scene) /\ Whole(b, scene) /\ Whole(c, scene) /\ Whole(d, scene) /\ Whole(e, scene)
        /\ Whole(f, scene) /\ Whole(g, scene) /\ Whole(h, scene)
    BY <1>7, <1>8, <1>9, <1>15, <2>1, EnablesAreWhole
  <2>3. PICK x : x = ((a \o b) \o c) \o d
    OBVIOUS
  <2>4. Whole(x, scene)
    <3>1. Whole(a \o b, scene)
      BY <2>2, BothAreWhole
    <3>2. Whole((a \o b) \o c, scene)
      BY <2>2, <3>1, BothAreWhole
    <3> QED BY <2>2, <2>3, <3>2, BothAreWhole
  <2>5. Whole(((x \o e) \o f) \o g, scene)
    <3>1. Whole(x \o e, scene)
      BY <2>2, <2>4, BothAreWhole
    <3>2. Whole((x \o e) \o f, scene)
      BY <2>2, <3>1, BothAreWhole
    <3> QED BY <2>2, <3>2, BothAreWhole
  <2>6. Whole((((x \o e) \o f) \o g) \o h, scene)
    BY <2>2, <2>5, BothAreWhole
  <2> QED BY <2>1, <2>3, <2>6 DEF IrqStart
<1> QED BY <1>4, <1>5, <1>6, <1>7, <1>10, <1>11, <1>12, <1>13, <1>14, <1>16

\* An access to the pins or the PLIC keeps the hart and the types of the registers.
LEMMA PinAccessIsTyped ==
  ASSUME HartKept, IrqTypeOK, scene = "irq", scene' = scene, IrqAccess
  PROVE  HartKept' /\ IrqTypeOK'
<1>1. Current # <<>> /\ Access(IrqRead)
  BY DEF IrqAccess
<1>2. /\ din \subseteq Pins /\ dout \subseteq Pins /\ irqEn \subseteq Pins /\ irqMode \subseteq Pins
      /\ irqPol \subseteq Pins /\ irqStat \subseteq Pins
      /\ plicEnable \subseteq Sources /\ pending \subseteq Sources /\ inService \subseteq Sources
      /\ priority \in [Sources -> {0, 1}] /\ threshold = 0 /\ tangled \subseteq Kept
      /\ unseen \in BOOLEAN /\ missed \in BOOLEAN
  BY DEF IrqTypeOK
<1>3. ASSUME Op = "read", Reg \in Merged(scene) PROVE MayHold(Reg, IrqRead)
  <2>1. Reg \in {"DOUT", "IRQ_MODE", "IRQ_POL", "IRQ_EN", "PLIC_ENABLE"}
    BY <1>3 DEF Merged
  <2>2. CASE Reg = "PLIC_ENABLE"
    BY <1>2, <2>2 DEF MayHold, IrqRead
  <2>3. CASE Reg = "DOUT"
    BY <1>2, <2>3 DEF MayHold, IrqRead
  <2>4. CASE Reg = "IRQ_MODE"
    BY <1>2, <2>4 DEF MayHold, IrqRead
  <2>5. CASE Reg = "IRQ_POL"
    BY <1>2, <2>5 DEF MayHold, IrqRead
  <2>6. CASE Reg = "IRQ_EN"
    BY <1>2, <2>6 DEF MayHold, IrqRead
  <2> QED BY <2>1, <2>2, <2>3, <2>4, <2>5, <2>6
<1>4. HartKept'
  BY <1>1, <1>3, AccessKeepsHart
<1>5. \A reg : Writes(reg) => MayHold(reg, Written)
  BY <1>1, WrittenMayBeHeld
<1>6. /\ Writes("DOUT") => Written \subseteq Pins
      /\ Writes("IRQ_MODE") => Written \subseteq Pins
      /\ Writes("IRQ_POL") => Written \subseteq Pins
      /\ Writes("IRQ_EN") => Written \subseteq Pins
      /\ Writes("PLIC_ENABLE") => Written \subseteq Sources
      /\ Writes("PLIC_THRESHOLD") => Written = 0
  BY <1>5 DEF MayHold
<1>7. /\ dout' \subseteq Pins /\ irqMode' \subseteq Pins /\ irqPol' \subseteq Pins /\ irqEn' \subseteq Pins
      /\ plicEnable' \subseteq Sources /\ threshold' = 0 /\ din' = din
  BY <1>2, <1>6 DEF IrqAccess
<1>8. priority' \in [Sources -> {0, 1}]
  <2>1. CASE ~Writes("PLIC_PRIORITY")
    BY <1>2, <2>1 DEF IrqAccess
  <2>2. CASE Writes("PLIC_PRIORITY")
    <3>1. PICK src \in Sources, p \in {0, 1} : Written = [s \in {src} |-> p]
      BY <1>5, <2>2 DEF MayHold
    <3>2. PICK f : f = [s \in {src} |-> p]
      OBVIOUS
    <3>3. priority' = [x \in Sources |-> IF x \in DOMAIN f THEN f[x] ELSE priority[x]]
      BY <2>2, <3>1, <3>2 DEF IrqAccess
    <3> QED BY <1>2, <3>2, <3>3
  <2> QED BY <2>1, <2>2
<1>9. PlicWins \subseteq Sources
  BY <1>2 DEF PlicWins
<1>10. inService' \subseteq Sources
  BY <1>2, <1>9 DEF IrqAccess
<1>11. irqStat' \subseteq Pins /\ pending' \subseteq Sources
  <2>1. PICK raw : Pinned(raw)
    BY DEF IrqAccess
  <2>2. irqStat' \subseteq irqStat \cup (raw \cap irqEn')
    BY <2>1 DEF Pinned
  <2>3. pending' \subseteq pending \cup {"GPIO"}
    BY <2>1 DEF Pinned
  <2>4. "GPIO" \in Sources
    BY DEF Sources
  <2> QED BY <1>2, <1>7, <2>2, <2>3, <2>4
<1>12. tangled' \subseteq Kept
  <2>1. PICK X : X = {reg \in Kept : Writes(reg) /\ (Overwrites(reg) \/ Behind(reg, TRUE, FALSE))}
    OBVIOUS
  <2>2. tangled' = tangled \cup X
    BY <2>1 DEF IrqAccess
  <2> QED BY <1>2, <2>1, <2>2
<1>13. unseen' \in BOOLEAN /\ missed' \in BOOLEAN
  BY DEF IrqAccess
<1> QED BY <1>2, <1>4, <1>7, <1>8, <1>10, <1>11, <1>12, <1>13 DEF IrqTypeOK

\* Every step of the scene of the pins.
LEMMA PinsAreTyped ==
  ASSUME HartKept, IrqTypeOK, scene = "irq", scene' = scene, IrqNext
  PROVE  HartKept' /\ IrqTypeOK'
<1>1. ASSUME NEW p \in Pins, PinMoves(p) PROVE HartKept' /\ IrqTypeOK'
  <2>1. UNCHANGED <<hart, dout, irqEn, irqMode, irqPol, plicEnable, priority, threshold, inService, wanted, tangled>>
    BY <1>1 DEF PinMoves
  <2>2. din' \subseteq Pins /\ unseen' \in BOOLEAN /\ missed' \in BOOLEAN
    BY <1>1 DEF PinMoves, IrqTypeOK
  <2>3. PICK raw : irqStat' = irqStat \cup (raw \cap irqEn)
    BY <1>1 DEF PinMoves
  <2>4. pending' \subseteq pending \cup {"GPIO"}
    BY <1>1 DEF PinMoves
  <2>5. irqStat' \subseteq Pins /\ pending' \subseteq Sources
    BY <2>3, <2>4 DEF IrqTypeOK, Sources
  <2> QED BY <2>1, <2>2, <2>5, StillHart DEF IrqTypeOK
<1>2. ASSUME UNCHANGED irqVars PROVE IrqTypeOK'
  <2>1. /\ UNCHANGED <<din, dout, irqEn, irqMode, irqPol, irqStat>>
        /\ UNCHANGED <<plicEnable, priority, threshold, pending, inService>>
        /\ UNCHANGED <<tangled, unseen, missed>>
    BY <1>2 DEF irqVars, gpio, plic, irqHistory
  <2> QED BY <2>1 DEF IrqTypeOK
<1>3. CASE IrqCall
  <2>1. \A p \in Pins : \A edge, polarity \in BOOLEAN : Whole(gpio_irq_enable({p}, edge, polarity), scene)
    BY PinDriversAreWhole
  <2>2. PICK name, f : Begin(name, f) /\ name # "none" /\ Whole(f, scene)
    <3>1. CASE \E p \in Pins, edge, polarity \in BOOLEAN : Begin("other", gpio_irq_enable({p}, edge, polarity))
      BY <2>1, <3>1
    <3>2. CASE Begin("init", plic_init_ascon)
      BY <3>2, PinDriversAreWhole
    <3>3. CASE \E f \in {gpio_set({0}), gpio_clear({0}), gpio_write(Pins, {4}),
                         gpio_read \o gpio_irq_status \o gpio_irq_clear(Pins),
                         plic_enable("ASCON"), plic_disable("GPIO"),
                         mstatus_disable_irq \o plic_enable("ASCON") \o mstatus_enable_irq} : Begin("other", f)
      BY <3>3, PinDriversAreWhole
    <3> QED BY <1>3, <3>1, <3>2, <3>3 DEF IrqCall
  <2>3. HartKept'
    BY <2>2, BeginKeepsHart
  <2> QED BY <1>2, <1>3, <2>3 DEF IrqCall
<1>4. CASE IrqReturn
  BY <1>2, <1>4, ReturnKeepsHart DEF IrqReturn, GoesOn
<1>5. CASE IrqInterrupt
  <2>1. PICK f : f = plic_claim \o gpio_irq_status /\ Interrupt("external", f)
    BY <1>5 DEF IrqInterrupt
  <2>2. HartKept'
    BY <2>1, PinDriversAreWhole, InterruptKeepsHart
  <2> QED BY <1>2, <1>5, <2>2 DEF IrqInterrupt
<1>6. CASE IrqHandles
  <2>1. PICK f \in {gpio_set({0}), plic_enable("ASCON")} :
          HandlerContinue(gpio_irq_clear(isrSeen[2]) \o f \o plic_complete(isrSeen[1]))
    BY <1>6 DEF IrqHandles
  <2>2. PICK a, c : a = gpio_irq_clear(isrSeen[2]) /\ c = plic_complete(isrSeen[1])
    OBVIOUS
  <2>3. Whole(a, scene) /\ Whole(f, scene) /\ Whole(c, scene)
    BY <2>1, <2>2, PinDriversAreWhole
  <2>4. Whole(a \o f, scene)
    BY <2>3, BothAreWhole
  <2>5. Whole((a \o f) \o c, scene) /\ HandlerContinue((a \o f) \o c)
    BY <2>1, <2>2, <2>3, <2>4, BothAreWhole
  <2>6. ~Thread
    BY <1>6 DEF IrqHandles, HandlerAt, irq_mcause, Thread
  <2>7. HartKept'
    BY <2>5, <2>6, HandlerContinueKeepsHart
  <2> QED BY <1>2, <1>6, <2>7 DEF IrqHandles
<1>7. CASE IrqMret
  BY <1>2, <1>7, MretKeepsHart DEF IrqMret, Completed, HandlerAt
<1> QED BY <1>1, <1>3, <1>4, <1>5, <1>6, <1>7, PinAccessIsTyped DEF IrqNext

\* The functions of ascon.h, and the programs made of them.
LEMMA LoadsAreWhole ==
  ASSUME NEW s, NEW c \in Contexts, NEW mode, NEW job, NEW ad, NEW t, Whole(ad, s)
  PROVE  Whole(Load(c, mode, job, ad, t), s)
<1>1. /\ MayHold("CONTEXT_SEL", c) /\ MayHold("MODE", mode) /\ MayHold("KEY", job) /\ MayHold("NONCE", job)
      /\ MayHold("PTEXT", job) /\ MayHold("TAG_IN", t)
  BY DEF MayHold
<1>2. PICK a, b, d, e, f, g : /\ a = ascon_select_context(c) /\ b = ascon_set_mode(mode) /\ d = ascon_set_key(job)
                              /\ e = ascon_set_nonce(job) /\ f = ascon_set_ptext(job) /\ g = ascon_set_tag_in(t)
  OBVIOUS
<1>3. /\ Whole(a, s) /\ Whole(b, s) /\ Whole(d, s) /\ Whole(e, s) /\ Whole(f, s) /\ Whole(g, s)
  BY <1>1, <1>2, AccessesAreWhole DEF ascon_select_context, ascon_set_mode, ascon_set_key, ascon_set_nonce,
     ascon_set_ptext, ascon_set_tag_in
<1>4. Whole((a \o b) \o d, s)
  <2>1. Whole(a \o b, s)
    BY <1>3, BothAreWhole
  <2> QED BY <1>3, <2>1, BothAreWhole
<1>5. Whole((((a \o b) \o d) \o e) \o f, s)
  <2>1. Whole(((a \o b) \o d) \o e, s)
    BY <1>3, <1>4, BothAreWhole
  <2> QED BY <1>3, <2>1, BothAreWhole
<1>6. Whole((((((a \o b) \o d) \o e) \o f) \o ad) \o g, s)
  <2>1. Whole(((((a \o b) \o d) \o e) \o f) \o ad, s)
    BY <1>5, BothAreWhole
  <2> QED BY <1>3, <2>1, BothAreWhole
<1> QED BY <1>2, <1>6 DEF Load

\* The functions that the programs call.
LEMMA CipherDriversAreWhole ==
  ASSUME NEW s
  PROVE  /\ Whole(Encrypt(0), s) /\ Whole(Encrypt(1), s) /\ Whole(Decrypt(1), s) /\ Whole(Forged(1), s)
         /\ Whole(ascon_core_start, s) /\ Whole(ascon_soft_reset, s)
         /\ \A c \in Contexts : Whole(ascon_select_context(c) \o ascon_wait_core_done_check_tag
                                        \o ascon_get_ctext \o ascon_get_tag, s)
         /\ \A x : Whole(<<W("RETCODE", x)>>, s)
         /\ \A reg, v : reg \in {"PTEXT_0", "PT_MULTI", "MODE", "KEY", "NONCE"} => Whole(<<W(reg, v)>>, s)
         /\ Whole(ascon_dma_start, s) /\ Whole(ascon_wait_dma_done, s)
         /\ \A src, dst, len : Whole(ascon_dma_config(src, dst, len), s)
<1>1. \A reg \in {"CTRL", "RETCODE", "PTEXT_0", "PT_MULTI", "MODE", "KEY", "NONCE", "AD",
                  "DMA_SRC", "DMA_DST", "DMA_LEN"} : \A v : MayHold(reg, v)
  BY DEF MayHold
<1>2. /\ Whole(ascon_core_start, s) /\ Whole(ascon_soft_reset, s) /\ Whole(ascon_dma_start, s)
      /\ Whole(ascon_clear_ad, s) /\ \A ad : Whole(ascon_set_ad(ad), s)
  BY <1>1, AccessesAreWhole DEF ascon_core_start, ascon_soft_reset, ascon_dma_start, ascon_clear_ad, ascon_set_ad
<1>3. Whole(Encrypt(0), s) /\ Whole(Encrypt(1), s) /\ Whole(Decrypt(1), s) /\ Whole(Forged(1), s)
  BY <1>2, LoadsAreWhole DEF Contexts, Encrypt, Decrypt, Forged
<1>4. Whole(ascon_wait_core_done_check_tag, s) /\ Whole(ascon_wait_dma_done, s)
  BY AccessesAreWhole DEF StatusOf, ascon_wait_core_done_check_tag, ascon_wait_core_done, ascon_wait_dma_done
<1>5. ASSUME NEW c \in Contexts
      PROVE  Whole(ascon_select_context(c) \o ascon_wait_core_done_check_tag \o ascon_get_ctext \o ascon_get_tag, s)
  <2>1. MayHold("CONTEXT_SEL", c)
    BY DEF MayHold
  <2>2. PICK a, b, d, e : /\ a = ascon_select_context(c) /\ b = ascon_wait_core_done_check_tag
                          /\ d = ascon_get_ctext /\ e = ascon_get_tag
    OBVIOUS
  <2>3. Whole(a, s) /\ Whole(b, s) /\ Whole(d, s) /\ Whole(e, s)
    BY <1>4, <2>1, <2>2, AccessesAreWhole DEF ascon_select_context, ascon_get_ctext, ascon_get_tag
  <2>4. Whole(a \o b, s)
    BY <2>3, BothAreWhole
  <2>5. Whole((a \o b) \o d, s)
    BY <2>3, <2>4, BothAreWhole
  <2>6. Whole(((a \o b) \o d) \o e, s)
    BY <2>3, <2>5, BothAreWhole
  <2> QED BY <2>2, <2>6
<1>6. /\ \A x : Whole(<<W("RETCODE", x)>>, s)
      /\ \A reg, v : reg \in {"PTEXT_0", "PT_MULTI", "MODE", "KEY", "NONCE"} => Whole(<<W(reg, v)>>, s)
  BY <1>1, AccessesAreWhole
<1>7. ASSUME NEW src, NEW dst, NEW len PROVE Whole(ascon_dma_config(src, dst, len), s)
  <2>1. PICK a, b, d : a = W("DMA_SRC", src) /\ b = W("DMA_DST", dst) /\ d = W("DMA_LEN", len)
    OBVIOUS
  <2>2. PICK S, t : S = {a, b, d} /\ t = <<a, b, d>>
    OBVIOUS
  <2>3. Fits(a, s) /\ ~Leans(a) /\ Fits(b, s) /\ ~Leans(b) /\ Fits(d, s) /\ ~Leans(d)
    BY <1>1, <2>1, AccessesFit
  <2>4. t \in Seq(S) /\ \A e \in S : Fits(e, s) /\ ~Leans(e)
    BY <2>2, <2>3
  <2>5. Whole(t, s)
    BY <2>4, PlainsAreWhole
  <2> QED BY <2>1, <2>2, <2>5 DEF ascon_dma_config
<1> QED BY <1>2, <1>3, <1>4, <1>5, <1>6, <1>7

\* A job of the DMA, and main.
LEMMA JobsAreWhole == \A s : Whole(DmaJob, s) /\ Whole(main, s)
<1> TAKE s
<1>1. PICK k, p, q, r : /\ p = ascon_dma_config(Base("PTEXT_0"), Base("CTEXT_0"), 8)
                        /\ q = ascon_dma_start /\ r = ascon_wait_dma_done /\ k = <<W("PTEXT_0", 4)>>
  OBVIOUS
<1>2. Whole(k, s) /\ Whole(p, s) /\ Whole(q, s) /\ Whole(r, s) /\ Whole(Encrypt(0), s)
  BY <1>1, CipherDriversAreWhole
<1>3. Whole((((Encrypt(0) \o k) \o p) \o q) \o r, s)
  <2>1. Whole(Encrypt(0) \o k, s)
    BY <1>2, BothAreWhole
  <2>2. Whole((Encrypt(0) \o k) \o p, s)
    BY <1>2, <2>1, BothAreWhole
  <2>3. Whole(((Encrypt(0) \o k) \o p) \o q, s)
    BY <1>2, <2>2, BothAreWhole
  <2> QED BY <1>2, <2>3, BothAreWhole
<1>4. Whole(DmaJob, s)
  BY <1>1, <1>3 DEF DmaJob
<1>5. PICK a, b, c, d, e, f : /\ a = <<W("PT_MULTI", 5)>> /\ b = ascon_soft_reset /\ c = ascon_set_mode(Enc)
                              /\ d = ascon_set_key(5) /\ e = ascon_set_nonce(5)
                              /\ f = ascon_dma_config(PT_MULTI_BASE, CT_MULTI_BASE, DMEM_MULTI_PT_LEN)
  OBVIOUS
<1>6. Whole(a, s) /\ Whole(b, s) /\ Whole(c, s) /\ Whole(d, s) /\ Whole(e, s) /\ Whole(f, s)
  BY <1>5, CipherDriversAreWhole DEF ascon_set_mode, ascon_set_key, ascon_set_nonce
<1>7. Whole(((a \o b) \o c) \o d, s)
  <2>1. Whole(a \o b, s)
    BY <1>6, BothAreWhole
  <2>2. Whole((a \o b) \o c, s)
    BY <1>6, <2>1, BothAreWhole
  <2> QED BY <1>6, <2>2, BothAreWhole
<1>8. Whole((((((((a \o b) \o c) \o d) \o e) \o f) \o q) \o r), s)
  <2>1. Whole((((a \o b) \o c) \o d) \o e, s)
    BY <1>6, <1>7, BothAreWhole
  <2>2. Whole(((((a \o b) \o c) \o d) \o e) \o f, s)
    BY <1>6, <2>1, BothAreWhole
  <2>3. Whole((((((a \o b) \o c) \o d) \o e) \o f) \o q, s)
    BY <1>2, <2>2, BothAreWhole
  <2> QED BY <1>2, <2>3, BothAreWhole
<1>9. Whole(main, s)
  BY <1>1, <1>5, <1>8 DEF main
<1> QED BY <1>4, <1>9

\* Every step of the scenes of the cipher core keeps the hart.
LEMMA CipherKeepsHart ==
  ASSUME HartKept, scene \in {"ascon", "main"}, scene' = scene, AsconNext
  PROVE  HartKept'
<1>1. CASE AsconAccess
  <2>1. Current # <<>> /\ Access(AsconRead) /\ Merged(scene) = {}
    BY <1>1 DEF AsconAccess, Merged
  <2> QED BY <2>1, AccessKeepsHart
<1>2. CASE AsconCall
  <2>1. /\ Whole(Encrypt(0) \o ascon_core_start, scene) /\ Whole(Decrypt(1) \o ascon_core_start, scene)
        /\ Whole(Forged(1) \o ascon_core_start, scene)
    BY CipherDriversAreWhole, BothAreWhole
  <2>2. PICK name, f : Begin(name, f) /\ name # "none" /\ Whole(f, scene)
    <3>1. CASE \E f \in {Encrypt(0), Decrypt(1), Forged(1)} : Begin("other", f \o ascon_core_start)
      BY <2>1, <3>1
    <3>2. CASE Begin("other", Encrypt(1)) \/ Begin("other", ascon_soft_reset) \/ Begin("other", DmaJob)
      BY <3>2, CipherDriversAreWhole, JobsAreWhole
    <3>3. CASE \E c \in Contexts :
                 Begin("collect", ascon_select_context(c) \o ascon_wait_core_done_check_tag
                                    \o ascon_get_ctext \o ascon_get_tag)
      BY <3>3, CipherDriversAreWhole
    <3> QED BY <1>2, <3>1, <3>2, <3>3 DEF AsconCall
  <2> QED BY <2>2, BeginKeepsHart
<1>3. CASE AsconReturn
  <2>1. CASE todo = <<>> /\ Return
    BY <2>1, ReturnKeepsHart
  <2>2. CASE call = "main" /\ Continue(<<W("RETCODE", retcode)>>)
    <3>1. PICK t : t = <<W("RETCODE", retcode)>> /\ Continue(t)
      BY <2>2
    <3>2. Whole(t, scene)
      BY <3>1, CipherDriversAreWhole
    <3> QED BY <2>2, <3>1, <3>2, ContinueKeepsHart
  <2> QED BY <1>3, <2>1, <2>2 DEF AsconReturn, GoesOn
<1>4. CASE TimesOut
  <2>1. PICK t : t = <<W("RETCODE", "-2")>> /\ Continue(t) /\ call = "main"
    BY <1>4 DEF TimesOut
  <2>2. Whole(t, scene)
    BY <2>1, CipherDriversAreWhole
  <2> QED BY <2>1, <2>2, ContinueKeepsHart
<1>5. CASE CoreInitialises \/ CoreTakesAD \/ CoreTakesText \/ CoreEnds
  BY <1>5, StillHart DEF CoreInitialises, CoreTakesAD, CoreTakesText, CoreEnds, Goes
<1>6. CASE DmaDone \/ DmaLands \/ DmaFails
  BY <1>6, StillHart DEF DmaDone, DmaLands, DmaFails
<1> QED BY <1>1, <1>2, <1>3, <1>4, <1>5, <1>6 DEF AsconNext

\* The registers of the cipher core and of its DMA; the write FIFO is a sequence.
CipherTypes == AsconTypeOK /\ IsSequence(wrFifo)

\* The write FIFO takes what fits, and gives its first two.
LEMMA FifoFits ==
  ASSUME IsSequence(wrFifo), Len(wrFifo) <= WrDepth
  PROVE  /\ \A x : IsSequence(Pushed(x)) /\ Len(Pushed(x)) <= WrDepth
         /\ LET left == SubSeq(wrFifo, 3, Len(wrFifo)) IN
            Len(wrFifo) >= 2 => IsSequence(left) /\ Len(left) <= WrDepth
         /\ IsSequence(<<>>) /\ Len(<<>>) <= WrDepth
<1>1. PICK S : wrFifo \in Seq(S)
  BY DEF IsSequence
<1>2. WrDepth \in Nat /\ Len(wrFifo) \in Nat
  BY <1>1, DepthConstant
<1>3. ASSUME NEW x PROVE IsSequence(Pushed(x)) /\ Len(Pushed(x)) <= WrDepth
  <2>1. CASE Len(wrFifo) = WrDepth
    <3>1. Overflow # {}
      BY <2>1 DEF Overflow
    <3>2. Pushed(x) = wrFifo
      BY <3>1 DEF Pushed
    <3> QED BY <3>2
  <2>2. CASE Len(wrFifo) # WrDepth
    <3>1. Pushed(x) = Append(wrFifo, x)
      BY <2>2 DEF Pushed, Overflow
    <3>2. IsSequence(Append(wrFifo, x))
      BY AppendedIsSequence
    <3>3. PICK T : T = S \cup {x}
      OBVIOUS
    <3>4. wrFifo \in Seq(T) /\ x \in T
      BY <1>1, <3>3, SeqMonotonic
    <3>5. Len(Append(wrFifo, x)) = Len(wrFifo) + 1
      BY <3>4
    <3> QED BY <1>2, <2>2, <3>1, <3>2, <3>5
  <2> QED BY <2>1, <2>2
<1>4. ASSUME Len(wrFifo) >= 2
      PROVE  LET left == SubSeq(wrFifo, 3, Len(wrFifo)) IN IsSequence(left) /\ Len(left) <= WrDepth
  <2>1. PICK left, n : n = Len(wrFifo) /\ left = SubSeq(wrFifo, 3, n)
    OBVIOUS
  <2>2. \A i \in 3 .. n : wrFifo[i] \in S
    BY <1>1, <2>1
  <2>3. 3 \in 1 .. n + 1 /\ n \in Nat
    BY <1>2, <1>4, <2>1
  <2>4. left \in Seq(S) /\ Len(left) = IF 3 <= n THEN n - 3 + 1 ELSE 0
    BY <1>1, <2>1, <2>2, <2>3, SubSeqProperties
  <2>5. Len(left) <= WrDepth
    BY <1>2, <2>1, <2>3, <2>4
  <2> QED BY <2>1, <2>4, <2>5 DEF IsSequence
<1>5. IsSequence(<<>>) /\ Len(<<>>) <= WrDepth
  <2>1. <<>> \in Seq({}) /\ Len(<<>>) = 0
    OBVIOUS
  <2> QED BY <1>2, <2>1 DEF IsSequence
<1> QED BY <1>3, <1>4, <1>5

\* An access keeps the types of the cipher core.
LEMMA CipherAccessIsTyped ==
  ASSUME HartKept, CipherTypes, scene \in {"ascon", "main"}, AsconAccess
  PROVE  CipherTypes'
<1>1. Current # <<>> /\ AsconWrite /\ Ctrl
  BY DEF AsconAccess, AsconWrite
<1>2. /\ selected \in Contexts /\ active \in Contexts
      /\ dmaEn \in BOOLEAN /\ dmaBusy \in BOOLEAN /\ pump \in BOOLEAN
      /\ core.phase \in {"idle", "init", "ad", "data", "tag"}
      /\ sticky \subseteq {"CORE_DONE", "TAG_MISMATCH", "DMA_DONE", "DMA_ERR"}
      /\ Len(wrFifo) <= WrDepth /\ IsSequence(wrFifo)
  BY DEF CipherTypes, AsconTypeOK
<1>3. selected' \in Contexts
  <2>1. selected' = IF Op = "write" /\ Reg = "CONTEXT_SEL" THEN Written ELSE selected
    BY <1>1 DEF AsconWrite
  <2>2. Writes("CONTEXT_SEL") => Written \in Contexts
    BY <1>1, WrittenMayBeHeld DEF MayHold
  <2> QED BY <1>2, <2>1, <2>2 DEF Writes
<1>4. active' \in Contexts
  BY <1>1, <1>2 DEF Ctrl, Contexts
<1>5. dmaEn' \in BOOLEAN /\ dmaBusy' \in BOOLEAN /\ pump' \in BOOLEAN
  <2>1. dmaEn' = IF Writes("CTRL") THEN "DMA_EN" \in Bits ELSE dmaEn
    BY <1>1 DEF Ctrl
  <2>2. dmaEn' \in BOOLEAN
    <3>1. CASE Writes("CTRL")
      <4>1. dmaEn' = ("DMA_EN" \in Bits)
        BY <2>1, <3>1
      <4> QED BY <4>1
    <3>2. CASE ~Writes("CTRL")
      <4>1. dmaEn' = dmaEn
        BY <2>1, <3>2
      <4> QED BY <1>2, <4>1
    <3> QED BY <3>1, <3>2
  <2>3. /\ dmaBusy' = (ByDma \/ (dmaBusy /\ ~Resets))
        /\ pump' = (ByDma \/ (pump /\ ~Resets))
    BY <1>1 DEF Ctrl
  <2>4. dmaBusy' \in BOOLEAN /\ pump' \in BOOLEAN
    BY <2>3
  <2> QED BY <2>2, <2>4
<1>6. core'.phase \in {"idle", "init", "ad", "data", "tag"}
  BY <1>1, <1>2 DEF Ctrl
<1>7. sticky' \subseteq {"CORE_DONE", "TAG_MISMATCH", "DMA_DONE", "DMA_ERR"}
  BY <1>1, <1>2 DEF Ctrl
<1>8. Len(wrFifo') <= WrDepth /\ IsSequence(wrFifo')
  BY <1>1, <1>2, FifoFits DEF Ctrl
<1> QED BY <1>3, <1>4, <1>5, <1>6, <1>7, <1>8 DEF CipherTypes, AsconTypeOK

\* A step of the core, or of its DMA.
LEMMA CipherStepIsTyped ==
  ASSUME CipherTypes, DeviceStep
  PROVE  CipherTypes'
<1>1. /\ selected \in Contexts /\ active \in Contexts
      /\ dmaEn \in BOOLEAN /\ dmaBusy \in BOOLEAN /\ pump \in BOOLEAN
      /\ core.phase \in {"idle", "init", "ad", "data", "tag"}
      /\ sticky \subseteq {"CORE_DONE", "TAG_MISMATCH", "DMA_DONE", "DMA_ERR"}
      /\ Len(wrFifo) <= WrDepth /\ IsSequence(wrFifo)
  BY DEF CipherTypes, AsconTypeOK
<1>2. UNCHANGED <<selected, active, dmaEn>>
  BY DEF DeviceStep, CoreStep, CoreInitialises, CoreTakesAD, CoreTakesText, CoreEnds, Goes, DmaDone, DmaLands,
         DmaFails, asconCore
<1>3. dmaBusy' \in BOOLEAN /\ pump' \in BOOLEAN
  BY <1>1 DEF DeviceStep, CoreStep, CoreInitialises, CoreTakesAD, CoreTakesText, CoreEnds, Goes, DmaDone, DmaLands,
         DmaFails
<1>4. Overflow \subseteq {"DMA_ERR"}
  BY DEF Overflow
<1>5. sticky' \subseteq {"CORE_DONE", "TAG_MISMATCH", "DMA_DONE", "DMA_ERR"}
  <2>1. CASE CoreInitialises \/ CoreTakesAD \/ DmaLands
    BY <1>1, <2>1 DEF CoreInitialises, CoreTakesAD, DmaLands, asconCore
  <2>2. CASE CoreTakesText
    BY <1>1, <1>4, <2>2 DEF CoreTakesText
  <2>3. CASE CoreEnds
    BY <1>1, <1>4, <2>3 DEF CoreEnds
  <2>4. CASE DmaDone
    BY <1>1, <2>4 DEF DmaDone
  <2>5. CASE DmaFails
    BY <1>1, <2>5 DEF DmaFails
  <2> QED BY <2>1, <2>2, <2>3, <2>4, <2>5 DEF DeviceStep, CoreStep
<1>6. core'.phase \in {"idle", "init", "ad", "data", "tag"}
  <2>1. CASE CoreStep
    BY <2>1 DEF CoreStep, CoreInitialises, CoreTakesAD, CoreTakesText, CoreEnds, Goes
  <2>2. CASE DmaDone \/ DmaLands \/ DmaFails
    BY <1>1, <2>2 DEF DmaDone, DmaLands, DmaFails, asconCore
  <2> QED BY <2>1, <2>2 DEF DeviceStep
<1>7. Len(wrFifo') <= WrDepth /\ IsSequence(wrFifo')
  <2>1. CASE CoreInitialises \/ CoreTakesAD \/ DmaLands \/ DmaFails
    BY <1>1, <2>1 DEF CoreInitialises, CoreTakesAD, DmaLands, DmaFails
  <2>2. CASE CoreTakesText
    <3>1. PICK x : wrFifo' = Pushed(x)
      BY <2>2 DEF CoreTakesText
    <3> QED BY <1>1, <3>1, FifoFits
  <2>3. CASE CoreEnds
    <3>1. PICK x : wrFifo' = Pushed(x)
      BY <2>3 DEF CoreEnds
    <3> QED BY <1>1, <3>1, FifoFits
  <2>4. CASE DmaDone
    BY <1>1, <2>4, FifoFits DEF DmaDone
  <2> QED BY <2>1, <2>2, <2>3, <2>4 DEF DeviceStep, CoreStep
<1> QED BY <1>1, <1>2, <1>3, <1>5, <1>6, <1>7 DEF CipherTypes, AsconTypeOK

\* Every step of the scenes of the cipher core.
LEMMA CiphersAreTyped ==
  ASSUME HartKept, CipherTypes, scene \in {"ascon", "main"}, scene' = scene, AsconNext
  PROVE  HartKept' /\ CipherTypes'
<1>1. HartKept'
  BY CipherKeepsHart
<1>2. CASE AsconAccess
  BY <1>1, <1>2, CipherAccessIsTyped
<1>3. CASE DeviceStep
  BY <1>1, <1>3, CipherStepIsTyped
<1>4. CASE AsconCall \/ AsconReturn \/ TimesOut
  <2>1. UNCHANGED <<selected, active, core, sticky, dmaEn, dmaBusy, pump, wrFifo>>
    BY <1>4 DEF AsconCall, AsconReturn, TimesOut, asconVars, asconCore, asconDma
  <2> QED BY <1>1, <2>1 DEF CipherTypes, AsconTypeOK
<1> QED BY <1>2, <1>3, <1>4 DEF AsconNext, DeviceStep, CoreStep

-----------------------------------------------------------------------------
\* The types of all devices, and the two facts about sequences they need.
TypesInv ==
  /\ scene \in Scenes /\ HartKept
  /\ ClintTypeOK /\ TimerTypeOK /\ UartTypeOK /\ SpiTypeOK /\ IrqTypeOK /\ CipherTypes

\* The devices' own invariants: the times, the counts and the queues stand on them.
DevicesInv == ClintsInv /\ TimersInv /\ LinesInv

\* The invariant implies the types.
LEMMA TypesInvIsEnough == TypesInv => FirmwareTypeOK
BY DEF TypesInv, FirmwareTypeOK, HartKept, CipherTypes

\* It holds at the start.
LEMMA TypesStart == Init => TypesInv
<1> SUFFICES ASSUME Init PROVE TypesInv
  OBVIOUS
<1>1. /\ scene \in Scenes
      /\ HartInit(IF scene = "main" THEN "main" ELSE "start", StartOf(scene), MaxCalls[scene])
      /\ ClintInit /\ TimerInit /\ UartInit /\ SpiInit /\ IrqInit /\ AsconInit
  BY DEF Init
<1>2. HartKept
  <2>1. CASE scene = "uart"
    BY <2>1, LinesStart DEF LinesInv, UartInv
  <2>2. CASE scene = "spi"
    BY <2>2, LinesStart DEF LinesInv, SpiInv
  <2>3. CASE scene \notin {"uart", "spi"}
    <3>1. /\ call # "none" /\ todo = StartOf(scene) /\ seen = <<>> /\ calls = MaxCalls[scene]
          /\ isr = "none" /\ isrTodo = <<>> /\ isrSeen = <<>> /\ enabled = {}
      BY <1>1 DEF HartInit
    <3>2. calls \in Nat
      BY <1>1, <3>1, CallsConstant
    <3>3. Whole(todo, scene)
      <4>1. CASE scene \in {"clint", "perf"}
        BY <3>1, <4>1, ClockDriversAreWhole DEF StartOf
      <4>2. CASE scene = "timer"
        BY <3>1, <4>2, TimerDriversAreWhole DEF StartOf
      <4>3. CASE scene = "irq"
        <5>1. StartOf(scene) = IrqStart
          BY <4>3 DEF StartOf
        <5> QED BY <3>1, <4>3, <5>1, PinDriversAreWhole
      <4>4. CASE scene = "ascon"
        BY <3>1, <4>4, NoneIsWhole DEF StartOf, Idle
      <4>5. CASE scene = "main"
        <5>1. StartOf(scene) = main
          BY <4>5 DEF StartOf
        <5> QED BY <3>1, <5>1, JobsAreWhole
      <4> QED BY <1>1, <2>3, <4>1, <4>2, <4>3, <4>4, <4>5 DEF Scenes
    <3>4. Shape(todo, scene) /\ IsSequence(seen) /\ MergesTyped(todo, seen)
      BY <3>1, <3>3, WholeIsTyped
    <3>5. Shape(isrTodo, scene) /\ IsSequence(isrSeen) /\ MergesTyped(isrTodo, isrSeen)
      BY <3>1, NoneIsWhole, WholeIsTyped
    <3> QED BY <3>1, <3>2, <3>4, <3>5 DEF HartKept, HartTypeOK, Thread
  <2> QED BY <2>1, <2>2, <2>3
<1>3. ClintTypeOK
  <2>1. 0 \in 0 .. MaxTime
    BY TopIsNat
  <2>2. /\ mtime = 0 /\ mtimecmp = Top /\ shadow = Half - 1 /\ msip = 0 /\ counter = 0 /\ perfEn = TRUE
        /\ began = 0 /\ due = Top /\ crossed = FALSE /\ mixed = FALSE
    BY <1>1 DEF ClintInit
  <2> QED BY <2>1, <2>2, TimesHaveWords DEF ClintTypeOK
<1>4. TimerTypeOK
  <2>1. 0 \in Counts /\ AllOnes \in Counts /\ 0 \in 0 .. RstCycles /\ 0 \in 0 .. Longest
    BY TimerConstants DEF Counts, Longest
  <2>2. /\ unit \in Units /\ ctrl = {} /\ load = AllOnes /\ count \in {AllOnes, 0}
        /\ rstCnt = 0 /\ lasts = 0 /\ ran = 0 /\ quiet = 0
    BY <1>1 DEF TimerInit
  <2>3. {enR, flag, clr, feed, rstReq, pend, stale, fed} \subseteq BOOLEAN
    BY <1>1 DEF TimerInit
  <2> QED BY <2>1, <2>2, <2>3 DEF TimerTypeOK
<1>5. Len(<<>>) = 0
  OBVIOUS
<1>6. UartTypeOK
  <2>1. txFifo = <<>> /\ rxFifo = <<>> /\ shift = <<>> /\ UartDepth \in Nat
    BY <1>1, UartConstants DEF UartInit
  <2>2. Len(txFifo) <= UartDepth /\ Len(rxFifo) <= UartDepth /\ Len(shift) <= 1
    BY <1>5, <2>1
  <2>3. uartCtrl = {} /\ {txIrq, rxIrq, crowded, stolen, unheard} \subseteq BOOLEAN
    BY <1>1 DEF UartInit
  <2> QED BY <2>2, <2>3 DEF UartTypeOK
<1>7. SpiTypeOK
  <2>1. spiTx = <<>> /\ spiRx = <<>> /\ wire = <<>> /\ SpiDepth \in Nat
    BY <1>1, SpiConstants DEF SpiInit
  <2>2. Len(spiTx) <= SpiDepth /\ Len(spiRx) <= SpiDepth /\ Len(wire) <= 1
    BY <1>5, <2>1
  <2>3. spiCtrl = {"CS_AUTO"} /\ spiIrq = {} /\ {csManual, csLow, loose} \subseteq BOOLEAN
    BY <1>1 DEF SpiInit
  <2> QED BY <2>2, <2>3 DEF SpiTypeOK
<1>8. IrqTypeOK
  BY <1>1 DEF IrqInit, IrqTypeOK
<1>9. CipherTypes
  <2>1. IsSequence(<<>>)
    BY NoneIsWhole DEF Whole, Shape
  <2>2. core.phase = "idle"
    BY <1>1 DEF AsconInit
  <2>3. selected \in Contexts /\ active \in Contexts /\ sticky = {}
    BY <1>1 DEF AsconInit, Contexts
  <2>4. {dmaEn, dmaBusy, pump} \subseteq BOOLEAN
    BY <1>1 DEF AsconInit
  <2>5. wrFifo = <<>> /\ WrDepth \in Nat
    BY <1>1, DepthConstant DEF AsconInit
  <2>6. IsSequence(wrFifo) /\ Len(wrFifo) <= WrDepth
    BY <1>5, <2>1, <2>5
  <2> QED BY <2>2, <2>3, <2>4, <2>6 DEF CipherTypes, AsconTypeOK
<1> QED BY <1>1, <1>2, <1>3, <1>4, <1>6, <1>7, <1>8, <1>9 DEF TypesInv

\* The devices a step leaves alone keep their types.
LEMMA OthersAreTyped ==
  /\ ClintTypeOK /\ UNCHANGED clintVars => ClintTypeOK'
  /\ TimerTypeOK /\ UNCHANGED timerVars => TimerTypeOK'
  /\ UartTypeOK /\ UNCHANGED uartVars => UartTypeOK'
  /\ SpiTypeOK /\ UNCHANGED spiVars => SpiTypeOK'
  /\ IrqTypeOK /\ UNCHANGED irqVars => IrqTypeOK'
  /\ CipherTypes /\ UNCHANGED asconVars => CipherTypes'
<1>1. ClintTypeOK /\ UNCHANGED clintVars => ClintTypeOK'
  BY DEF ClintTypeOK, clintVars, clint, perf, clintHistory
<1>2. TimerTypeOK /\ UNCHANGED timerVars => TimerTypeOK'
  BY DEF TimerTypeOK, timerVars, timer, timerHistory
<1>3. UartTypeOK /\ UNCHANGED uartVars => UartTypeOK'
  BY DEF UartTypeOK, uartVars, uart, uartHistory
<1>4. SpiTypeOK /\ UNCHANGED spiVars => SpiTypeOK'
  BY DEF SpiTypeOK, spiVars, spi, spiHistory
<1>5. IrqTypeOK /\ UNCHANGED irqVars => IrqTypeOK'
  BY DEF IrqTypeOK, irqVars, gpio, plic, irqHistory
<1>6. CipherTypes /\ UNCHANGED asconVars => CipherTypes'
  BY DEF CipherTypes, AsconTypeOK, asconVars, asconCore, asconDma, IsSequence
<1> QED BY <1>1, <1>2, <1>3, <1>4, <1>5, <1>6

\* Every step keeps it.
LEMMA TypesGoOn == TypesInv /\ DevicesInv /\ [Next]_vars /\ DevicesInv' => TypesInv'
<1> SUFFICES ASSUME TypesInv, DevicesInv, [Next]_vars, DevicesInv' PROVE TypesInv'
  OBVIOUS
<1>1. scene' = scene /\ scene \in Scenes /\ HartKept
  BY DEF Next, Clint, Perf, Timer, Uart, Spi, Irq, Ascon, vars, TypesInv
<1>2. CASE Clint \/ Perf
  <2>1. scene \in {"clint", "perf"} /\ (ClintNext \/ PerfNext)
    BY <1>2 DEF Clint, Perf
  <2>2. ClintInv
    BY <2>1 DEF DevicesInv, ClintsInv
  <2>3. HartKept' /\ ClintTypeOK'
    BY <1>1, <2>1, <2>2, ClocksAreTyped DEF TypesInv
  <2> QED BY <1>1, <1>2, <2>3, OthersAreTyped DEF Clint, Perf, TypesInv
<1>3. CASE Timer
  <2>1. scene = "timer" /\ TimerNext
    BY <1>3 DEF Timer
  <2>2. HartKept' /\ TimerTypeOK'
    BY <1>1, <2>1, TimersKeepHart DEF DevicesInv, TimersInv, TimerInv, CountInv
  <2> QED BY <1>1, <1>3, <2>2, OthersAreTyped DEF Timer, TypesInv
<1>4. CASE Uart
  <2>1. HartKept' /\ UartTypeOK'
    BY <1>1, <1>4 DEF Uart, DevicesInv, LinesInv, UartInv, UartWell
  <2> QED BY <1>1, <1>4, <2>1, OthersAreTyped DEF Uart, TypesInv
<1>5. CASE Spi
  <2>1. HartKept' /\ SpiTypeOK'
    BY <1>1, <1>5 DEF Spi, DevicesInv, LinesInv, SpiInv, SpiWell
  <2> QED BY <1>1, <1>5, <2>1, OthersAreTyped DEF Spi, TypesInv
<1>6. CASE Irq
  <2>1. HartKept' /\ IrqTypeOK'
    BY <1>1, <1>6, PinsAreTyped DEF Irq, TypesInv
  <2> QED BY <1>1, <1>6, <2>1, OthersAreTyped DEF Irq, TypesInv
<1>7. CASE Ascon
  <2>1. HartKept' /\ CipherTypes'
    BY <1>1, <1>7, CiphersAreTyped DEF Ascon, TypesInv
  <2> QED BY <1>1, <1>7, <2>1, OthersAreTyped DEF Ascon, TypesInv
<1>8. CASE UNCHANGED vars
  <2>1. UNCHANGED <<scene, hart, clintVars, timerVars, uartVars, spiVars, irqVars, asconVars>>
    BY <1>8 DEF vars, devices
  <2> QED BY <1>1, <2>1, StillHart, OthersAreTyped DEF TypesInv
<1> QED BY <1>2, <1>3, <1>4, <1>5, <1>6, <1>7, <1>8 DEF Next

\* The registers and the queues of all devices, and what the hart has left to
\* do, keep their types, for every value of the constants: no deadline and no
\* shadow outgrows its word, no FIFO its depth, no mask its register.
THEOREM FirmwareIsTyped == Spec => []FirmwareTypeOK
<1>1. Init => TypesInv /\ DevicesInv
  BY TypesStart, ClintStarts, TimersStart, LinesStart DEF DevicesInv
<1>2. TypesInv /\ DevicesInv /\ [Next]_vars => (TypesInv /\ DevicesInv)'
  <2>1. DevicesInv /\ [Next]_vars => DevicesInv'
    BY ClintsGoOn, TimersGoOn, LinesGoOn DEF DevicesInv
  <2> QED BY <2>1, TypesGoOn
<1> QED BY <1>1, <1>2, TypesInvIsEnough, PTL DEF Spec
=============================================================================
