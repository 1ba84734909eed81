----------------------------- MODULE HyMachine -----------------------------
(***************************************************************************)
(* What the board promises to a program: the instruction set as an atomic  *)
(* machine.  Each step runs one whole instruction on the registers, the    *)
(* flags and the memory; there are no cycles, no pins, no main loop and no *)
(* order of devices.  With BUSIRQ strapped low, a read that no device      *)
(* answers gives an unspecified word and such a write is lost.  With       *)
(* BUSIRQ high the instruction is abandoned: its address is lost, what it  *)
(* did to sp and lr stays, and nothing runs until the next RESET.          *)
(* HyBoardRefines shows that HyBoard implements this machine.              *)
(***************************************************************************)
EXTENDS HyIsa, HyDevices

CONSTANTS ResetVector, BusErrorVector, BusIrq

VARIABLES r, st, mem, out, port, status, interrupted

vars == <<r, st, mem, out, port, status, interrupted>>

BootRegs(v) == [k \in Regs |-> IF k = PC THEN v ELSE 0]

(* The registers at power-on: at the reset vector, or at a bus error       *)
(* vector if the pins powered up in an unlucky state.                      *)
Starts == {BootRegs(v) : v \in {ResetVector} \cup {BusErrorVector[e] : e \in Byte}}

(* Any program may be in memory. *)
Init ==
    /\ r \in Starts
    /\ st = {}
    /\ mem \in [RamBytes -> Byte]
    /\ out = <<>>
    /\ port \in IoWords
    /\ status = "running"
    /\ interrupted = FALSE

(* The words a read of size s at address a may give. *)
Reads(a, s) ==
    CASE a \in BiosAnswers -> ReadVector(mem, BiosBytes, a, s)
      [] a \in MemAnswers  -> ReadVector(mem, MemBytes, a, s)
      [] a \in TermAnswers -> ReadTerminal(a)
      [] a = IoPort        -> {port}
      [] a = IoPort + 1    -> IoWords
      [] OTHER             -> Word

(* The effect of writing d with size s at address a. *)
Write(a, s, d) ==
    /\ mem' = CASE a \in BiosAnswers -> WriteVector(mem, BiosBytes, a, s, d)
                [] a \in MemAnswers  -> WriteVector(mem, MemBytes, a, s, d)
                [] OTHER             -> mem
    /\ out' = WriteTerminal(out, a, d)
    /\ port' = IF a = IoPort THEN d ELSE port

(* An access of address a does not raise the bus error interrupt. *)
Heeded(a) == BusIrq => a \in BiosAnswers \cup MemAnswers \cup TermAnswers \cup IoAnswers

Registers(rr, f) ==
    /\ r' = ZeroR0(rr)
    /\ st' = f
    /\ UNCHANGED <<mem, out, port, status, interrupted>>

(* One instruction: i is decoded, rr is the register file with pc past it. *)
Execute1(i, rr) ==
    \/ /\ i.opcode \in MoveOpcodes
       /\ \E w \in MoveResults(i, rr) : Registers([rr EXCEPT ![i.x] = w], st)
    \/ /\ i.opcode \in AluOpcodes
       /\ \E t \in Temps(i, rr) : Registers(AluRegs(i, rr, t), NextFlags(st, t))
    \/ i.opcode \in JumpOpcodes /\ Registers(JumpRegs(i, rr, st), st)
    \/ i.opcode = Rstm /\ Registers(ResetRange(i, rr), st)
    \/ (i.opcode = Nop \/ ~Taken(i, st)) /\ Registers(rr, st)
    \/ /\ i.opcode \in ReadOpcodes /\ Taken(i, st)
       /\ Heeded(ReadAddress(i, rr))
       /\ \E d \in Reads(ReadAddress(i, rr), ReadSize(i)) :
             Registers(ReadDone(i, ReadIssued(i, rr), d), st)
    \/ /\ i.opcode \in WriteOpcodes /\ Taken(i, st)
       /\ Heeded(WriteAddress(i, rr))
       /\ Write(WriteAddress(i, rr), WriteSize(i), WriteValue(i, rr))
       /\ r' = ZeroR0(WriteIssued(i, rr))
       /\ UNCHANGED <<st, status, interrupted>>

Trap(i, rr) ==
    /\ Signal(i, rr) # "none"
    /\ status' = Signal(i, rr)
    /\ UNCHANGED <<r, st, mem, out, port, interrupted>>

(* The fetch is heeded; or it is the first one and a BUSACK left over from *)
(* the power-on stands for its answer.                                     *)
Fetched == Heeded(r[PC]) \/ r \in Starts

PastPc == [r EXCEPT ![PC] = Wrap(r[PC] + 4)]

Step ==
    /\ status = "running" /\ ~interrupted /\ Fetched
    /\ \E w \in Reads(r[PC], Execute) :
          Execute1(Decode[w], PastPc) \/ Trap(Decode[w], PastPc)

(* hyrisc_bci_update; the error code is 0, as no device reports an error. *)
Vector == BusErrorVector[0]

(* The CPU leaves an instruction that has made rr of the registers. *)
Abandon(rr) ==
    /\ status = "running" /\ ~interrupted
    /\ r' = [rr EXCEPT ![PC] = Vector]
    /\ interrupted' = TRUE
    /\ UNCHANGED <<st, mem, out, port, status>>

(* Nobody answers the fetch of an instruction, or the access i makes. *)
FetchFails == ~Heeded(r[PC]) /\ Abandon(r)

AccessFails(i, rr) ==
    /\ Taken(i, st)
    /\ \/ /\ i.opcode \in ReadOpcodes
          /\ ~Heeded(ReadAddress(i, rr)) /\ Abandon(ReadIssued(i, rr))
       \/ /\ i.opcode \in WriteOpcodes
          /\ ~Heeded(WriteAddress(i, rr)) /\ Abandon(WriteIssued(i, rr))

Interrupt ==
    \/ FetchFails
    \/ Fetched /\ \E w \in Reads(r[PC], Execute) : AccessFails(Decode[w], PastPc)

(* The RESET pin: a new start on the memory the program left.  The pulse   *)
(* updates the bus controller first, which replaces the reset vector while *)
(* an access goes unanswered.                                              *)
Reset ==
    /\ status = "running"
    /\ \/ r' = BootRegs(ResetVector)
       \/ interrupted /\ r' = BootRegs(Vector)
    /\ st' = {}
    /\ interrupted' = FALSE
    /\ UNCHANGED <<mem, out, port, status>>

Next == Step \/ Interrupt \/ Reset

Spec == Init /\ [][Next]_vars

(* A program that does not trap keeps running. *)
Progress == WF_vars(Step)
=============================================================================
