---------------------------------- MODULE Irq ----------------------------------
(***************************************************************************)
(* Interrupts: lib/sys/boot.s, lib/sys/irq.cpp, the addresses of           *)
(* include/common.h and the set-up functions of include/computer.h.        *)
(*                                                                         *)
(* A step of irq_handler is one instruction from the acknowledgement on,   *)
(* since the next interrupt can come from there; before it the device      *)
(* waits, and the entry and the call of a handler are one step each.  The  *)
(* program is what its main does to handlers, screen and addresses, one    *)
(* store per step.                                                         *)
(*                                                                         *)
(* The registers are those irq_handler saves and one that stands for those *)
(* that nobody saves: t0 to t6, a6 and a7, which belong to whoever is      *)
(* executing, the handler that irq_handler calls included.                 *)
(*                                                                         *)
(* The device is external: it interrupts when irq_en is set and the last   *)
(* interrupt was acknowledged, with the interrupted place in register tp.  *)
(* So is std::function: an object of three parts, which an assignment      *)
(* stores in any order; manager is the part that is tested before a call.  *)
(***************************************************************************)
EXTENDS Integers, Sequences

CONSTANTS
  ArgRegisters,         \* how many registers the handler saves: a0 to a5, 6
  MaxNesting,           \* bound: interrupts on the stack at a time
  StackTop,             \* bound: words above the stack pointer of the program
  MaxInterrupts         \* bound: interrupts the devices raise

ASSUME IrqAssumption ==
  /\ {ArgRegisters, MaxNesting} \subseteq Nat \ {0}
  /\ {StackTop, MaxInterrupts} \subseteq Nat

VARIABLES
  enabled, busy, kind, raised, interrupts,  \* the device
  place, tp, sp, regs, stack,               \* the processor
  script, at, done,                         \* the program and the stores done
  addresses,                                \* updated by update_offsets
  handlers, live,                           \* live: screen points to an object
  broken,                                   \* a call went wrong
  early, overtaken                          \* history

device      == <<enabled, busy, kind, raised, interrupts>>
frame       == <<sp, regs, stack>>
programVars == <<script, at, done, addresses, handlers, live>>
irqVars     == <<device, place, tp, frame, programVars, broken, early, overtaken>>

Kinds == {"KEYBOARD", "UART_RX", "TIMER"}

-------------------------------------------------------------------------------
(***************************************************************************)
(* The program: what the mains of the snake, the image program and the     *)
(* bitmap program do, with the functions of computer.h, that an interrupt  *)
(* can see.  The third script is in no main of the repository: it uses     *)
(* what computer.h offers to leave the character mode for the bitmap mode. *)
(***************************************************************************)
Op(op, to, what) == [op |-> op, to |-> to, what |-> what]
Assign(k, code)  == Op("assign", k, code)
Screen(what)     == Op("screen", "none", what)
UpdateOffsets    == Op("addresses", "none", "none")
SetupIrqEnabled  == Op("enable", "none", "none")

\* A variant with a mistake in it: the handlers are there before the screen.
SetupHandlersFirst ==
  << UpdateOffsets, Assign("KEYBOARD", "arrows"), Assign("UART_RX", "serial"),
     Assign("TIMER", "blink"), Screen("new") >>

SetupCharacterMode ==
  << UpdateOffsets, Screen("new"), Assign("KEYBOARD", "arrows"),
     Assign("UART_RX", "serial"), Assign("TIMER", "blink") >>

DisableCharacterMode ==
  << Assign("TIMER", "none"), Assign("KEYBOARD", "none"), Screen("deleted") >>

SetupBitmapMode == << UpdateOffsets, Assign("UART_RX", "serial") >>

\* boot.s enables interrupts before it calls main.
Mains ==
  { <<SetupIrqEnabled>> \o main : main \in
      { SetupCharacterMode \o << Assign("TIMER", "frame") >>,
        SetupBitmapMode \o << Assign("UART_RX", "serial"), Assign("TIMER", "picture") >>,
        SetupCharacterMode \o DisableCharacterMode \o SetupBitmapMode } }

\* Which handlers use the screen, and which have captured data on the heap.
UsesScreen == {"arrows", "blink", "frame"}
Captures   == {"frame", "picture"}

Parts == {"manager", "invoker", "captured"}
Empty == [part \in Parts |-> "none"]

Callable(h) ==
  /\ h.invoker # "none"
  /\ h.invoker \in UsesScreen => live
  /\ h.invoker \in Captures => h.captured = h.invoker

Current == script[at]

Stores ==
  CASE Current.op = "addresses" -> {"irq_vector", "irq_handle"}
    [] Current.op = "assign"    -> Parts
    [] OTHER                    -> {Current.op}

StoreDone(s) ==
  /\ enabled'   = (enabled \/ Current.op = "enable")
  /\ live'      = IF Current.op = "screen" THEN Current.what = "new" ELSE live
  /\ addresses' = IF Current.op = "addresses" THEN addresses \cup {s} ELSE addresses
  /\ handlers'  = IF Current.op = "assign"
                  THEN [handlers EXCEPT ![Current.to][s] = Current.what]
                  ELSE handlers

-------------------------------------------------------------------------------
(***************************************************************************)
(* The places of irq_handler: the dispatch, the acknowledgement, a load    *)
(* for each register, the two additions to sp with the load of ra between  *)
(* them, and the jump.  The compiler's prologue takes four words, ra in    *)
(* the last, and the handler one below them for each register.             *)
(***************************************************************************)
Program     == 0
Dispatch    == 1
Acknowledge == 2
Load(r)     == 2 + r
Release     == ArgRegisters + 3
LoadRa      == ArgRegisters + 4
ReleaseRa   == ArgRegisters + 5
Jump        == ArgRegisters + 6
Places      == Program .. Jump

Args      == 1 .. ArgRegisters
Ra        == ArgRegisters + 1
Saved     == 1 .. Ra
Temp      == Ra + 1
Registers == 1 .. Temp
Values    == {"own", "other"}       \* the program's value, or any other
FrameSize == ArgRegisters + 4
StackLow  == -(MaxNesting * FrameSize)
Words     == StackLow .. (StackTop - 1)

\* Where a register is saved, from the stack pointer inside of the handler.
Slot(r) == IF r = Ra THEN ArgRegisters + 3 ELSE r - 1

SavedAt(base) ==
  [w \in Words |-> IF \E r \in Saved : w = base + Slot(r)
                   THEN regs[CHOOSE r \in Saved : w = base + Slot(r)]
                   ELSE stack[w]]

Running == ~broken

IrqInit ==
  /\ enabled = FALSE /\ busy = FALSE /\ kind = "none" /\ raised = {} /\ interrupts = 0
  /\ place = Program /\ tp = Program /\ sp = 0
  /\ regs = [r \in Registers |-> "own"] /\ stack = [w \in Words |-> "other"]
  /\ script \in Mains /\ at = 1 /\ done = {}
  /\ addresses = {} /\ live = FALSE
  /\ handlers = [k \in Kinds |-> Empty]
  /\ broken = FALSE /\ early = FALSE /\ overtaken = FALSE

\* One store of the program; its last statement is followed by an endless loop.
ProgramStep ==
  /\ Running /\ place = Program /\ at <= Len(script)
  /\ \E s \in Stores \ done :
       /\ StoreDone(s)
       /\ IF done \cup {s} = Stores THEN at' = at + 1 /\ done' = {}
          ELSE at' = at /\ done' = done \cup {s}
  /\ UNCHANGED <<busy, kind, raised, interrupts, place, tp, frame, script, broken,
                 early, overtaken>>

\* A key is hit, a character received, the timer goes on.
Raise(k) ==
  /\ Running /\ interrupts < MaxInterrupts /\ k \notin raised
  /\ interrupts' = interrupts + 1 /\ raised' = raised \cup {k}
  /\ UNCHANGED <<enabled, busy, kind, place, tp, frame, programVars, broken, early, overtaken>>

\* The interrupt, the compiler's prologue and the saving of the registers.
Interrupt(k) ==
  /\ Running /\ enabled /\ ~busy /\ k \in raised
  /\ sp - FrameSize >= StackLow
  /\ busy' = TRUE /\ kind' = k /\ raised' = raised \ {k}
  /\ tp' = place /\ place' = Dispatch
  /\ sp' = sp - FrameSize /\ stack' = SavedAt(sp')
  /\ overtaken' = (overtaken \/ place # Program)
  /\ UNCHANGED <<enabled, interrupts, regs, programVars, broken, early>>

(***************************************************************************)
(* The switch.  At its old address irq_vector is a byte of the RAM.  What  *)
(* is called uses the registers as it likes, those that nobody saves too   *)
(* if it needs that many.                                                  *)
(***************************************************************************)
CallHandler ==
  /\ Running /\ place = Dispatch
  /\ \E k \in IF "irq_vector" \in addresses THEN {kind} ELSE Kinds :
       broken' = (handlers[k].manager # "none" /\ ~Callable(handlers[k]))
  /\ \E left \in {regs[Temp], "other"} :
       regs' = [r \in Registers |-> IF r = Temp THEN left ELSE "other"]
  /\ place' = Acknowledge
  /\ UNCHANGED <<device, tp, sp, stack, programVars, early, overtaken>>

\* A variant with a mistake in it: only what a handler has seen is acknowledged.
AcknowledgeHandled ==
  /\ Running /\ place = Acknowledge
  /\ busy' = (busy /\ ("irq_handle" \notin addresses \/ handlers[kind].manager = "none"))
  /\ early' = (early \/ "irq_handle" \notin addresses)
  /\ place' = Load(1)
  /\ UNCHANGED <<enabled, kind, raised, interrupts, tp, frame, programVars, broken, overtaken>>

\* At its old address irq_handle is a byte of the RAM, which the device does
\* not see: it goes on waiting.
AcknowledgeIrq ==
  /\ Running /\ place = Acknowledge
  /\ busy' = (busy /\ "irq_handle" \notin addresses)
  /\ early' = (early \/ "irq_handle" \notin addresses)
  /\ place' = Load(1)
  /\ UNCHANGED <<enabled, kind, raised, interrupts, tp, frame, programVars, broken, overtaken>>

\* A load from the stack; above its top are words of no interest.
Reload(r, w) ==
  /\ regs' = [regs EXCEPT ![r] = IF w \in Words THEN stack[w] ELSE "other"]
  /\ place' = place + 1
  /\ UNCHANGED <<sp, tp>>

Pop(words) ==
  /\ sp + words <= StackTop
  /\ sp' = sp + words
  /\ place' = place + 1
  /\ UNCHANGED <<regs, tp>>

\* A variant with a mistake in it: the four words of the prologue stay.
ReturnLeavesFrame ==
  /\ Running
  /\ \/ \E r \in Args : place = Load(r) /\ Reload(r, sp + Slot(r))
     \/ place = Release /\ Pop(ArgRegisters)
     \/ place = LoadRa /\ Reload(Ra, sp + Slot(Ra) - ArgRegisters)
     \/ place = ReleaseRa /\ place' = place + 1 /\ UNCHANGED <<sp, regs, tp>>
     \/ place = Jump /\ place' = tp /\ UNCHANGED <<sp, regs, tp>>
  /\ UNCHANGED <<device, stack, programVars, broken, early, overtaken>>

\* Each instruction from the first load to the jump.
ReturnStep ==
  /\ Running
  /\ \/ \E r \in Args : place = Load(r) /\ Reload(r, sp + Slot(r))
     \/ place = Release /\ Pop(ArgRegisters)
     \/ place = LoadRa /\ Reload(Ra, sp + Slot(Ra) - ArgRegisters)
     \/ place = ReleaseRa /\ Pop(4)
     \/ place = Jump /\ place' = tp /\ UNCHANGED <<sp, regs, tp>>
  /\ UNCHANGED <<device, stack, programVars, broken, early, overtaken>>

HandlerStep == CallHandler \/ AcknowledgeIrq \/ ReturnStep

TakeInterrupt == \E k \in Kinds : Interrupt(k)

IrqNext ==
  \/ ProgramStep
  \/ \E k \in Kinds : Raise(k)
  \/ TakeInterrupt
  \/ HandlerStep

IrqSpec == IrqInit /\ [][IrqNext]_irqVars

\* The processor goes on, and the device interrupts it when it may.
IrqFairness ==
  /\ WF_irqVars(ProgramStep)
  /\ WF_irqVars(HandlerStep)
  /\ WF_irqVars(TakeInterrupt)

IrqFairSpec == IrqSpec /\ IrqFairness

-------------------------------------------------------------------------------
(***************************************************************************)
(* Whenever the program executes, its stack pointer is its own and so are  *)
(* the registers that irq_handler saves: a0 to a5 and ra.  The exception   *)
(* are t0 to t6, a6 and a7, which hold what the last handler has left in   *)
(* them: they are the program's only as long as no interrupt has come.     *)
(* And no interrupt has come between an acknowledgement and the jump       *)
(* behind it: such a one leaves in tp a place of irq_handler, where every  *)
(* later jump goes, and the program never executes again.                  *)
(***************************************************************************)
ReturnsWhole ==
  place = Program =>
    /\ sp = 0 /\ ~overtaken
    /\ \A r \in Saved : regs[r] = "own"
    /\ regs[Temp] = "own" \/ interrupts # 0

(***************************************************************************)
(* The device is not left waiting for an acknowledgement, unless an        *)
(* interrupt came before update_offsets had stored the address of          *)
(* irq_handle: then it waits for ever, since interrupts are enabled by     *)
(* boot.s and the addresses updated in main.                               *)
(***************************************************************************)
DeviceReleased == busy => early \/ place \in {Dispatch, Acknowledge}

(***************************************************************************)
(* A handler that is called is complete, has its captured data, and has a  *)
(* screen if it uses one, in every order of set-up, change of handlers and *)
(* tear-down.  The exception is an interrupt in the middle of the          *)
(* assignment to its own handler.                                          *)
(***************************************************************************)
CallsAreGood == broken => Current.op = "assign" /\ Current.to = kind /\ done # {}

(***************************************************************************)
(* Every event is dispatched in the end, but for the three accidents the   *)
(* properties above name.                                                  *)
(***************************************************************************)
EventsServed ==
  \A k \in Kinds : k \in raised ~> k \notin raised \/ early \/ overtaken \/ broken

===============================================================================
