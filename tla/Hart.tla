-------------------------------- MODULE Hart --------------------------------
(***************************************************************************)
(* A hart that runs the drivers of gnu_toolchain/include.  A function of a *)
(* driver is the sequence of its accesses to the registers of a device,    *)
(* made one at a time and in program order (volatile, with the fences).    *)
(* The thread makes the accesses of the function it is in; an interrupt    *)
(* handler may run between any two of them, to its end.                    *)
(***************************************************************************)
EXTENDS Naturals, Sequences

VARIABLES
  call, todo, seen,          \* the thread: its function, its accesses, the values it has read
  isr, isrTodo, isrSeen,     \* the handler: its cause, its accesses, the values it has read
  enabled,                   \* mie, and "global" for mstatus.MIE
  calls                      \* calls the program may still make

thread  == <<call, todo, seen, calls>>
handler == <<isr, isrTodo, isrSeen>>
hart    == <<thread, handler, enabled>>

\* The accesses.  A poll is the read that ends it.
R(reg)             == <<"read", reg>>
W(reg, v)          == <<"write", reg, v>>
Until(reg, what)   == <<"until", reg, what>>
Merge(reg, bits, mask) == <<R(reg), <<"merge", reg, bits, mask>>>>
SetBits(reg, bits)     == Merge(reg, bits, bits)
ClearBits(reg, bits)   == Merge(reg, {}, bits)

\* irq.h: one instruction each, csrs or csrc.
irq_set_mtvec        == <<<<"csrs", "mtvec">>>>
irq_enable_global    == <<<<"csrs", "global">>>>
irq_disable_global   == <<<<"csrc", "global">>>>
irq_enable_software  == <<<<"csrs", "software">>>>
irq_enable_timer     == <<<<"csrs", "timer">>>>
irq_enable_external  == <<<<"csrs", "external">>>>
irq_disable_software == <<<<"csrc", "software">>>>
irq_disable_timer    == <<<<"csrc", "timer">>>>
irq_disable_external == <<<<"csrc", "external">>>>
irq_mcause           == isr

\* Whoever runs: its next access, what it reads, what it writes.
Thread   == isr = "none"
Current  == IF Thread THEN todo ELSE isrTodo
Values   == IF Thread THEN seen ELSE isrSeen
Op       == Head(Current)[1]
Reg      == Head(Current)[2]
Reads(reg)  == Op \in {"read", "until"} /\ Reg = reg
Writes(reg) == Op \in {"write", "merge"} /\ Reg = reg
Into(old)   == (old \ Head(Current)[4]) \cup Head(Current)[3]
Written     == IF Op = "merge" THEN Into(Values[Len(Values)]) ELSE Head(Current)[3]

\* The access is made, and reads v if it reads.
Access(v) ==
  LET got == IF Op = "read" THEN Append(Values, v) ELSE Values IN
  /\ IF Thread THEN todo' = Tail(todo) /\ seen' = got /\ UNCHANGED <<isrTodo, isrSeen>>
               ELSE isrTodo' = Tail(isrTodo) /\ isrSeen' = got /\ UNCHANGED <<todo, seen>>
  /\ enabled' = CASE Op = "csrs" -> enabled \cup {Reg}
                  [] Op = "csrc" -> enabled \ {Reg}
                  [] OTHER -> enabled
  /\ UNCHANGED <<call, isr, calls>>

\* The thread has polled, and its next access, to reg, relies on what it saw:
\* the handler makes one behind its back.
Relies(reg) == todo # <<>> /\ Head(todo)[2] = reg
Behind(reg, made, before) == IF Thread THEN before /\ ~made ELSE before \/ (made /\ Relies(reg))

Begin(function, accesses) ==
  /\ Thread /\ call = "none" /\ calls > 0
  /\ call' = function /\ todo' = accesses /\ seen' = <<>> /\ calls' = calls - 1
  /\ UNCHANGED <<handler, enabled>>
GoesOn(function) == Thread /\ call = function /\ todo = <<>>
Continue(accesses) ==
  /\ todo' = accesses /\ seen' = <<>>
  /\ UNCHANGED <<call, calls, handler, enabled>>
Return ==
  /\ call' = "none" /\ seen' = <<>>
  /\ UNCHANGED <<todo, calls, handler, enabled>>

Interrupt(cause, accesses) ==
  /\ Thread /\ {"global", cause} \subseteq enabled
  /\ isr' = cause /\ isrTodo' = accesses /\ isrSeen' = <<>>
  /\ UNCHANGED <<thread, enabled>>
HandlerAt(cause) == irq_mcause = cause /\ isrTodo = <<>>
HandlerContinue(accesses) ==
  /\ isrTodo' = accesses /\ isrSeen' = <<>>
  /\ UNCHANGED <<thread, isr, enabled>>
Mret ==
  /\ isr' = "none" /\ isrSeen' = <<>>
  /\ UNCHANGED <<thread, isrTodo, enabled>>

\* The program is in a function, and may make n calls after it.
HartInit(function, accesses, n) ==
  /\ call = function /\ todo = accesses /\ seen = <<>> /\ calls = n
  /\ isr = "none" /\ isrTodo = <<>> /\ isrSeen = <<>>
  /\ enabled = {}
HartTypeOK ==
  /\ calls \in Nat
  /\ isr \in {"none", "software", "timer", "external"} /\ (Thread => isrTodo = <<>>)
  /\ call = "none" => todo = <<>>
  /\ enabled \subseteq {"mtvec", "global", "software", "timer", "external"}
=============================================================================
