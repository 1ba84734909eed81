----------------------------- MODULE HyIoSpace -----------------------------
(***************************************************************************)
(* What the I/O bus promises to the program that uses it, port by port.    *)
(* The PCI ports are an address register and a read-only table; a drive is *)
(* a queue of bytes that IDENTIFY fills, that only reads of its data port  *)
(* take from, in order and each byte once, and that is silent when it is   *)
(* empty; a read that wants more than it has spoils it until it is filled  *)
(* again; a port where nobody answers keeps the last word that crossed the *)
(* bus.  No buffers, counts or directions, and nothing that one drive or   *)
(* port does reaches another.                                              *)
(***************************************************************************)
EXTENDS HyWords, Sequences

CONSTANTS
    PciAddressPort, PciDataPort,
    Registered,         (* the configuration words, by device and register *)
    Supported,          (* the registers that can be read *)
    AtaPorts, Channel(_), Register(_),
    Attached, Answers   (* the drives with a file; the answers to IDENTIFY *)

VARIABLES
    port, data,         (* the selected port; the last word *)
    bus,                (* the access on the CPU's bus, with the word it moved *)
    pciAddr,            (* the PCI address register *)
    select,             (* the drive selected in each channel *)
    ready,              (* the drives that were identified and not spoilt *)
    left                (* the bytes each of them still has to deliver *)

vars == <<port, data, bus, pciAddr, select, ready, left>>
devices == <<pciAddr, select, ready, left>>

Bus == [a: {"port", "data"}, rw: {"read", "write"}, d: Word]

Init == port \in Word /\ data \in Word /\ bus \in Bus /\ pciAddr \in Word
        /\ select = [c \in {0, 1} |-> 0]
        /\ ready = {}
        /\ left = [d \in {0, 1} \X {0, 1} |-> <<>>]

Selected == <<Channel(port), select[Channel(port)]>>
At(registers) == port \in AtaPorts /\ Register(port) \in registers

(* Selecting a port, and reading back which one it is. *)
Latch ==
    /\ port' \in Word
    /\ \E rw \in {"read", "write"} : bus' = [a |-> "port", rw |-> rw, d |-> port']
    /\ bus'.rw = "read" => port' = port
    /\ UNCHANGED <<data, devices>>

(* A word written to the selected port. *)
Write ==
    /\ data' \in Word /\ bus' = [a |-> "data", rw |-> "write", d |-> data']
    /\ pciAddr' = IF port = PciAddressPort THEN data' ELSE pciAddr
    /\ select' = IF At({1, 6})
                 THEN [select EXCEPT ![Channel(port)] = (data' \div 16) % 2] ELSE select
    /\ IF At({7}) /\ data' = 236 /\ Selected \in Attached
       THEN /\ ready' = ready \cup {Selected}
            /\ \E bytes \in Answers : left' = [left EXCEPT ![Selected] = bytes]
       ELSE UNCHANGED <<ready, left>>
    /\ UNCHANGED port

Target == <<(pciAddr \div 65536) % 256, (pciAddr \div 2048) % 32>>
PciRegister == (pciAddr \div 4) % 64

(* The word of the first n bytes of a queue, and what is left after them. *)
First(q, n) ==
    LET Byte_(k) == IF k <= n THEN q[k] ELSE 0
    IN  Assemble(Byte_(1), Byte_(2), Byte_(3), Byte_(4))
Rest(q, n) == [i \in 1..(Len(q) - n) |-> q[i + n]]

Read == bus' = [a |-> "data", rw |-> "read", d |-> data'] /\ UNCHANGED port

(* The data port of an identified drive that still has bytes. *)
Deliver ==
    /\ Read
    /\ At({0}) /\ Selected \in ready /\ left[Selected] # <<>>
    /\ \E n \in {1, 2, 4} :
           /\ n <= Len(left[Selected])
           /\ data' = First(left[Selected], n)
           /\ left' = [left EXCEPT ![Selected] = Rest(@, n)]
    /\ UNCHANGED <<pciAddr, select, ready>>

(* A read wider than what is left of the queue. *)
Spoil ==
    /\ Read
    /\ At({0}) /\ Selected \in ready
    /\ Len(left[Selected]) \in 1..3
    /\ data' \in Word
    /\ ready' = ready \ {Selected}
    /\ left' = [left EXCEPT ![Selected] = <<>>]
    /\ UNCHANGED <<pciAddr, select>>

(* The registers that answer, and drives without a queue. *)
Answer ==
    /\ Read
    /\ \/ port = PciAddressPort /\ data' = pciAddr
       \/ /\ port = PciDataPort
          /\ IF Target \notin DOMAIN Registered THEN data' = WordMod - 1
             ELSE PciRegister \in Supported /\ data' = Registered[Target][PciRegister]
       \/ At({1, 6}) /\ data' = 224 + 16 * select[Channel(port)]
       \/ At({7}) /\ data' \in Byte /\ (Selected \in ready => (data' \div 64) % 2 = 1)
       \/ At({0}) /\ Selected \notin ready /\ data' \in Word
    /\ UNCHANGED devices

(* Nobody answers: the end of a transfer, registers and ports without one. *)
Echo ==
    /\ Read
    /\ UNCHANGED <<data, devices>>
    /\ \/ port \notin AtaPorts \cup {PciAddressPort, PciDataPort}
       \/ port = PciDataPort /\ Target \in DOMAIN Registered /\ PciRegister \notin Supported
       \/ At(2..5 \cup 8..15)
       \/ At({0}) /\ (Selected \in ready => left[Selected] = <<>>)

Next == Latch \/ Write \/ Deliver \/ Spoil \/ Answer \/ Echo

Spec == Init /\ [][Next]_vars
=============================================================================
