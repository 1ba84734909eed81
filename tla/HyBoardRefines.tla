--------------------------- MODULE HyBoardRefines ---------------------------
(***************************************************************************)
(* HyBoard implements HyMachine.  The mapping undoes what the instruction  *)
(* in flight has already done to the registers, until the moment its       *)
(* effect becomes visible: when it retires, or, for a store that a device  *)
(* answers, when that device performs it.  An interrupt is visible as soon *)
(* as it is certain.                                                       *)
(***************************************************************************)
EXTENDS HyBoard

(* The store in flight has been performed by the device it selects. *)
Stored == pins.busack

(* The address of the instruction in flight, whose pc is already past it   *)
(* (and, for a call, already the target: the bus holds what was pushed).   *)
PcBefore ==
    CASE cycle \in {0, 1} -> r[PC]
      [] cycle = 3 /\ I.opcode \in CallOpcodes -> Wrap(pins.d - 4)
      [] OTHER -> Wrap(r[PC] - 4)

SpBefore ==
    CASE cycle = 3 /\ I.opcode \in {Pop, Ret} -> Wrap(r[SP] - 4)
      [] cycle = 3 /\ I.opcode \in CallOpcodes \cup {Push} -> Wrap(r[SP] + 4)
      [] OTHER -> r[SP]

InFlight == [r EXCEPT ![PC] = PcBefore, ![SP] = SpBefore]

(* A store performed and acknowledged counts as done; the bus controller   *)
(* lowers the acknowledge on the next clock, frozen or not, with the       *)
(* request: a store in cycle 3 without a request is done too.              *)
ProgramRegisters ==
    IF cycle = 3 /\ pins.rw /\ (Stored \/ ~pins.busreq) THEN r ELSE InFlight

(* The interrupt is certain once an access is requested that no device     *)
(* will answer; from then on the CPU fetches from the vector only.         *)
Unanswered == pins.busreq /\ ~pins.busack /\ \A n \in 1..4 : pins.a \notin Answers(n)
Interrupted == BusIrq /\ (pins.irq \/ Unanswered)

ArchRegisters ==
    IF Interrupted THEN [r EXCEPT ![PC] = BusErrorVector[0]] ELSE ProgramRegisters

Machine == INSTANCE HyMachine WITH r <- ArchRegisters, interrupted <- Interrupted

(* The board runs programs as the atomic machine does: interleaved with    *)
(* freezes and resets, every instruction happens exactly once, reads what  *)
(* the memory and the devices hold at that moment, and takes effect as a   *)
(* whole.  With BUSIRQ high that ends with the first access that meets     *)
(* nobody: that instruction changes nothing but sp, lr and pc, whose value *)
(* is lost, and no other is executed until a RESET, which may then start   *)
(* at the bus error vector (hyrisc_clock, hyrisc_execute,                  *)
(* hyrisc_bci_update, hyrisc_pulse_reset, the update() of each device).    *)
ImplementsMachine == Machine!Spec

(* And it keeps running them: no instruction is stuck in the four cycles,  *)
(* unless the board waits for a key that nobody presses (the main loop of  *)
(* main.cpp, getchar_impl of dev_terminal_t).                              *)
KeepsRunning == Machine!Progress \/ <>[]AwaitsKey
=============================================================================
