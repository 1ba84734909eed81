------------------------------- MODULE HyAta -------------------------------
(***************************************************************************)
(* The ATA controller (src/dev/iobus/ata.hpp): two channels of two drives, *)
(* a select latch in each channel, and a buffer in each drive from which   *)
(* the program reads the answer of the IDENTIFY command.  Each action is   *)
(* one call of update(), for one register and one direction.               *)
(*                                                                         *)
(* The channel index of the class is set by every access before it is used *)
(* and is a function of the port.  rw_base_lba and rw_sectors are never    *)
(* read.                                                                   *)
(***************************************************************************)
EXTENDS HyIoExt

CONSTANTS
    PriIo, SecIo,       (* iobus_pri_io_base, iobus_sec_io_base: 0x1f0, 0x170 *)
    IoSpan,             (* IOBUS_ATA_IO_SIZE: the offset of the last port, 0xd *)
    SectorSize,         (* ATA_SECTOR_SIZE: 0x200 *)
    CountMod,           (* the width of size_t: 2^64 *)
    IndexMod,           (* the width of int: 2^32 *)
    Attached,           (* the drives that attach_drive found a file for *)
    IdentifyData,       (* what store_identify_buffer may put in the buffer *)
    Garbage,            (* the bytes uninitialised or foreign memory may hold *)
    PowerOnDrives       (* what the uninitialised fields of a drive may hold *)

Drives == {0, 1} \X {0, 1}          (* <<channel, drive number>> *)
BufferIndices == 0..(SectorSize - 1)
Buffers == [BufferIndices -> Byte]

Drive == [
    pending: 0..(CountMod - 1),     (* rw_pending_bytes *)
    buf:     Buffers,               (* rw_buf *)
    reading: BOOLEAN,               (* rw_direction = RW_READ *)
    status:  Byte,
    error:   Byte]

(* Registers, commands and the status after IDENTIFY, DRDY | DRQ. *)
RegData == 0
RegError == 1
RegSelect == 6
RegCommand == 7
Identify == 236
Ready == 72
SelectBits == 224

ASSUME AtaAssumption ==
    /\ PriIo \in Word /\ SecIo \in Word /\ IoSpan \in Nat
    /\ SectorSize \in Nat \ {0}
    /\ CountMod \in Nat /\ SectorSize < CountMod
    /\ IndexMod \in Nat /\ SectorSize < IndexMod
    /\ Attached \subseteq Drives
    /\ IdentifyData \subseteq Buffers /\ IdentifyData # {}
    /\ Garbage \subseteq Byte /\ Garbage # {}
    /\ PowerOnDrives \subseteq Drive /\ PowerOnDrives # {}
    /\ Ready \in Byte /\ SelectBits + 16 \in Word

VARIABLES
    select,     (* drive_number of each channel *)
    drive       (* the drives *)

ataVars == <<select, drive>>

AtaTypeOK ==
    /\ select \in [{0, 1} -> {0, 1}]
    /\ drive \in [Drives -> Drive]

AtaInit ==
    /\ select = [c \in {0, 1} |-> 0]
    /\ drive \in [Drives -> PowerOnDrives]

(* ata_check_access_and_channel *)
PriPorts == PriIo..(PriIo + IoSpan)
SecPorts == SecIo..(SecIo + IoSpan)
AtaPorts == PriPorts \cup SecPorts
Channel(p) == IF p \in PriPorts THEN 0 ELSE 1
Register(p) == p % 16

(* Mutant: one select latch for both channels. *)
CurrentSharedLatch == <<Channel(port), select[0]>>

(* CURRENT_DRIVE *)
Current == <<Channel(port), select[Channel(port)]>>

(* update() selects the register; ERROR falls through to HDDEVSEL. *)
Addressed(registers) == port \in AtaPorts /\ Register(port) \in registers
SelectRegisters == {RegError, RegSelect}
-----------------------------------------------------------------------------
AtaReadSelect ==
    /\ Addressed(SelectRegisters)
    /\ data' = SelectBits + 16 * select[Channel(port)]
    /\ UNCHANGED ataVars

(* Mutant: the drive bit is shifted down and not masked. *)
AtaWriteSelectUnmasked(d) ==
    /\ Addressed(SelectRegisters)
    /\ select' = [select EXCEPT ![Channel(port)] = d \div 16]
    /\ UNCHANGED drive

AtaWriteSelect(d) ==
    /\ Addressed(SelectRegisters)
    /\ select' = [select EXCEPT ![Channel(port)] = (d \div 16) % 2]
    /\ UNCHANGED drive

AtaReadStatus ==
    /\ Addressed({RegCommand})
    /\ data' = drive[Current].status
    /\ UNCHANGED ataVars

(* IDENTIFY: a drive without a file only clears its status. *)
AtaIdentifyAbsent(d) ==
    /\ Addressed({RegCommand}) /\ d = Identify
    /\ Current \notin Attached
    /\ drive' = [drive EXCEPT ![Current].status = 0]
    /\ UNCHANGED select

AtaIdentify(d) ==
    /\ Addressed({RegCommand}) /\ d = Identify
    /\ Current \in Attached
    /\ \E b \in IdentifyData :
           drive' = [drive EXCEPT ![Current] =
               [pending |-> SectorSize, buf |-> b, reading |-> TRUE,
                status |-> Ready, error |-> 0]]
    /\ UNCHANGED select

(* READ PIO and every other command is accepted and does nothing. *)
AtaIgnoreCommand(d) ==
    /\ Addressed({RegCommand}) /\ d # Identify
    /\ UNCHANGED ataVars
-----------------------------------------------------------------------------
(* The byte of the buffer k bytes after rw_index, which keeps the low bits *)
(* of the difference; outside the buffer there is other memory.            *)
TransferByte(v, k) ==
    LET i == (SectorSize - v.pending + k) % IndexMod
    IN  IF i \in BufferIndices THEN {v.buf[i]} ELSE Garbage

TransferLane(v, s, k) == IF k < Width(s) THEN TransferByte(v, k) ELSE {0}

(* The words a data read of size s can return. *)
TransferWords(v, s) ==
    {Assemble(b0, b1, b2, b3) :
        b0 \in TransferLane(v, s, 0), b1 \in TransferLane(v, s, 1),
        b2 \in TransferLane(v, s, 2), b3 \in TransferLane(v, s, 3)}

(* Mutant: no early return at the end of the transfer. *)
TransferringPastEnd(v) == v.reading

Transferring(v) == v.pending # 0 /\ v.reading

(* Mutant: every access counts as one of 2 bytes. *)
AtaReadDataHalf(s) ==
    /\ Addressed({RegData})
    /\ Transferring(drive[Current])
    /\ data' \in TransferWords(drive[Current], s)
    /\ drive' = [drive EXCEPT ![Current].pending = (@ - 2) % CountMod]
    /\ UNCHANGED select

AtaReadData(s) ==
    /\ Addressed({RegData})
    /\ Transferring(drive[Current])
    /\ data' \in TransferWords(drive[Current], s)
    /\ drive' = [drive EXCEPT ![Current].pending = (@ - Width(s)) % CountMod]
    /\ UNCHANGED select

(* The early returns of ata_io_handle_data, and the registers update()     *)
(* has no case for: the word of the last access stays.                     *)
AtaReadNothing ==
    /\ \/ Addressed({RegData}) /\ ~Transferring(drive[Current])
       \/ Addressed(0..15 \ {RegData, RegError, RegSelect, RegCommand})
    /\ UNCHANGED <<data, ataVars>>

(* Writes of data ("To-do") and to the registers without a case. *)
AtaWriteNothing ==
    /\ Addressed(0..15 \ {RegError, RegSelect, RegCommand})
    /\ UNCHANGED ataVars

AtaRead(s) == AtaReadSelect \/ AtaReadStatus \/ AtaReadData(s) \/ AtaReadNothing

AtaWrite(d) ==
    \/ AtaWriteSelect(d) \/ AtaIdentifyAbsent(d) \/ AtaIdentify(d)
    \/ AtaIgnoreCommand(d) \/ AtaWriteNothing
=============================================================================
