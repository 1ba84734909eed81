------------------------------ MODULE HyIobus ------------------------------
(***************************************************************************)
(* The I/O bus (src/dev/iobus.hpp) with the devices that main attaches to  *)
(* it, in this order: PCI, ATA.  Each action is one call of                *)
(* dev_iobus_t::update() for an access of the CPU, which may be any load   *)
(* or store to IOBUS_PORT or IOBUS_DATA at any time: the devices' update() *)
(* is part of it.                                                          *)
(***************************************************************************)
EXTENDS HyPci, HyAta

CONSTANTS
    PortWords,      (* bound: the ports the program selects *)
    DataWords,      (* bound: the words it writes *)
    Sizes,          (* the access sizes it uses *)
    PowerOnWords    (* what uninitialised words may hold *)

ASSUME IobusAssumption ==
    /\ PortWords \subseteq Word /\ DataWords \subseteq Word
    /\ Sizes \subseteq 0..3
    /\ PowerOnWords \subseteq Word
    /\ PciPorts \cap AtaPorts = {}

VARIABLES
    bus,            (* the pins of the access: bci.a, bci.rw and bci.d *)
    identified,     (* history: the drives that took an IDENTIFY command *)
    overrun         (* history: those of them read past their end since *)

history == <<identified, overrun>>
vars == <<port, data, pciAddr, command, disabled, select, drive, bus, identified, overrun>>

Accesses(words) == [a: {"port", "data"}, rw: {"read", "write"}, d: words]

TypeOK ==
    /\ port \in Word /\ data \in Word /\ bus \in Accesses(Word)
    /\ PciTypeOK
    /\ AtaTypeOK
    /\ identified \subseteq Attached
    /\ overrun \subseteq identified

(* ext lives on the stack of main and is not initialised either. *)
Init ==
    /\ port \in PowerOnWords
    /\ data \in PowerOnWords
    /\ bus \in Accesses(PowerOnWords)
    /\ pciAddr \in PowerOnWords
    /\ PciInit
    /\ AtaInit
    /\ identified = {}
    /\ overrun = {}
-----------------------------------------------------------------------------
Access(a, rw, d) == bus' = [a |-> a, rw |-> rw, d |-> d]

WritePort ==
    /\ \E p \in PortWords : port' = p /\ Access("port", "write", p)
    /\ UNCHANGED <<data, pciVars, ataVars, history>>

ReadPort ==
    /\ Access("port", "read", port)
    /\ UNCHANGED <<ext, pciVars, ataVars, history>>

(* A write to IOBUS_DATA: every device sees the new word; the ones whose   *)
(* port it is not return early.                                            *)
Send(d) == data' = d /\ Access("data", "write", d) /\ UNCHANGED port

WritePci ==
    \E d \in DataWords :
        /\ Send(d)
        /\ PciWrite(d)
        /\ UNCHANGED <<ataVars, history>>

WriteAta ==
    \E d \in DataWords :
        /\ Send(d)
        /\ AtaWrite(d)
        /\ IF Addressed({RegCommand}) /\ d = Identify /\ Current \in Attached
           THEN identified' = identified \cup {Current} /\ overrun' = overrun \ {Current}
           ELSE UNCHANGED history
        /\ UNCHANGED pciVars

WriteNobody ==
    /\ port \notin PciPorts \cup AtaPorts
    /\ \E d \in DataWords : Send(d)
    /\ UNCHANGED <<pciVars, ataVars, history>>

(* A read of IOBUS_DATA returns what the devices leave in ext.data. *)
Receive == Access("data", "read", data') /\ UNCHANGED <<port, identified>>

(* A data read of size s takes more bytes than the selected drive has: the *)
(* unsigned count wraps around.                                            *)
PastEnd(s) ==
    /\ Addressed({RegData}) /\ Current \in identified
    /\ drive[Current].reading /\ drive[Current].pending \in 1..(Width(s) - 1)

ReadPci ==
    /\ PciRead
    /\ Receive
    /\ UNCHANGED <<ataVars, overrun>>

ReadAta ==
    /\ \E s \in Sizes :
           /\ AtaRead(s)
           /\ overrun' = IF PastEnd(s) THEN overrun \cup {Current} ELSE overrun
    /\ Receive
    /\ UNCHANGED pciVars

ReadNobody ==
    /\ port \notin PciPorts \cup AtaPorts
    /\ UNCHANGED data
    /\ Receive
    /\ UNCHANGED <<pciVars, ataVars, overrun>>

Next ==
    \/ WritePort \/ ReadPort
    \/ WritePci \/ WriteAta \/ WriteNobody
    \/ ReadPci \/ ReadAta \/ ReadNobody

Spec == Init /\ [][Next]_vars
-----------------------------------------------------------------------------
(* A drive that took an IDENTIFY command has no more bytes to deliver than *)
(* its "Sector-sized buffer" (ata.hpp:122) holds, whatever sizes the       *)
(* program mixes, whatever it does with other drives, ports and devices    *)
(* between its reads, and whatever the count was at power-on: only a read  *)
(* wider than what is left takes the count, and so the index, out of the   *)
(* buffer, in that drive alone, and the next IDENTIFY brings it back       *)
(* (ata_io_handle_data, store_identify_buffer).                            *)
TransferInSector ==
    \A d \in identified \ overrun : drive[d].pending <= SectorSize /\ drive[d].reading

(* A status register that shows DRQ, "Data request ready" (ata.hpp:64), is *)
(* one of a drive that has data to transfer.                               *)
DrqMeansPending ==
    \A d \in identified : (drive[d].status \div 8) % 2 = 1 => drive[d].pending # 0
=============================================================================
