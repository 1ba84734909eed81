--------------------------- MODULE HyIobusRefines ---------------------------
(***************************************************************************)
(* The I/O bus and its devices implement HyIoSpace: the queue of a drive   *)
(* is the part of its buffer that rw_pending_bytes counts from the end,    *)
(* until the drive is read past it.                                        *)
(***************************************************************************)
EXTENDS HyIobus, Sequences

(* The last n bytes of a buffer. *)
Tail_(buf, n) == [i \in 1..n |-> buf[SectorSize - n + i - 1]]

Intact == identified \ overrun

Left == [d \in Drives |->
            IF d \in Intact THEN Tail_(drive[d].buf, drive[d].pending) ELSE <<>>]

Space == INSTANCE HyIoSpace WITH
    Registered <- PciConfig, Supported <- PciRegisters,
    Answers <- {Tail_(b, SectorSize) : b \in IdentifyData},
    ready <- Intact, left <- Left

(* The program reads with one access size, and its reads fill a sector.    *)
OneSize ==
    \A s, t \in Sizes : Width(s) = Width(t) /\ SectorSize % Width(s) = 0

(* A drive that was identified is ready, and owes what its buffer holds.   *)
DrivesReady ==
    \A d \in identified :
        /\ drive[d].reading /\ drive[d].status = Ready
        /\ d \notin overrun => drive[d].pending <= SectorSize

(* It owes whole words to a program that reads with one access size.       *)
WholeWords ==
    /\ overrun = {}
    /\ \A d \in identified : \A s \in Sizes : drive[d].pending % Width(s) = 0

(* A program that reads with one access size, which divides the sector,    *)
(* never reads a drive past its end, wherever it breaks off a transfer,    *)
(* starts another and comes back (ata_io_handle_data).                     *)
OneSizeStaysInside == OneSize => overrun = {}

(* What a program reads at every port is what HyIoSpace promises there: in *)
(* particular the bytes of an IDENTIFY in order, each once, and then the   *)
(* end, although the select latches, ext.port, ext.data and the PCI        *)
(* address may change between any two reads, and so may the access size: a *)
(* drive read past its end gives any bytes, to that program's reads of     *)
(* that drive and until its next IDENTIFY (iobus.hpp, pci.hpp, ata.hpp).   *)
ImplementsIoSpace == Space!Spec
=============================================================================
