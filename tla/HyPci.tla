------------------------------- MODULE HyPci -------------------------------
(***************************************************************************)
(* The PCI configuration mechanism (src/dev/iobus/pci.hpp): a register     *)
(* that holds a configuration address, and a window on the configuration   *)
(* registers of the device that address names.  Each action is one call of *)
(* update().                                                               *)
(***************************************************************************)
EXTENDS HyIoExt

CONSTANTS
    PciAddressPort,     (* IOBUS_PCI_CFG_ADDR: 0xcf8 *)
    PciDataPort,        (* IOBUS_PCI_CFG_DATA: 0xcfc *)
    PciDevices,         (* the <<bus, device>> pairs of register_device *)
    PciConfig           (* the registers of each device's descriptor *)

VARIABLES
    pciAddr,    (* addr; not initialised at power-on *)
    command,    (* the command register of each device *)
    disabled    (* the devices that were given the command 0 *)

pciVars == <<pciAddr, command, disabled>>

PciPorts == {PciAddressPort, PciDataPort}

(* The registers a read returns: identification, status, class, header     *)
(* type and six base addresses.                                            *)
PciRegisters == 0..9

ASSUME PciAssumption ==
    /\ PciAddressPort \in Word /\ PciDataPort \in Word
    /\ PciAddressPort # PciDataPort /\ 255 \in Word
    /\ PciDevices \subseteq (0..255) \X (0..31)
    /\ PciConfig \in [PciDevices -> [PciRegisters -> Word]]

PciTypeOK ==
    /\ pciAddr \in Word
    /\ command \in [PciDevices -> Word]
    /\ disabled \subseteq PciDevices

PciInit ==
    /\ command = [d \in PciDevices |-> 255]
    /\ disabled = {}

(* The fields of a configuration address.  The function number and the     *)
(* enable bit are extracted by the code and never used.                    *)
PciTarget(a) == <<(a \div 65536) % 256, (a \div 2048) % 32>>
PciRegister(a) == (a \div 4) % 64

(* Mutant: no device, no answer. *)
PciAnswerAbsentSilent(a) ==
    IF PciTarget(a) \in PciDevices /\ PciRegister(a) \in PciRegisters
    THEN PciConfig[PciTarget(a)][PciRegister(a)] ELSE data

(* search_device and the registers it finds: a device that does not exist  *)
(* reads all ones, and a register that is not supported leaves the word of *)
(* the last access where it is.                                            *)
PciAnswer(a) ==
    IF PciTarget(a) \notin PciDevices THEN Ones
    ELSE IF PciRegister(a) \in PciRegisters THEN PciConfig[PciTarget(a)][PciRegister(a)]
    ELSE data

PciReadAddress ==
    /\ port = PciAddressPort
    /\ data' = pciAddr
    /\ UNCHANGED pciVars

PciWriteAddress(d) ==
    /\ port = PciAddressPort
    /\ pciAddr' = d
    /\ UNCHANGED <<command, disabled>>

PciReadConfig ==
    /\ port = PciDataPort
    /\ data' = PciAnswer(pciAddr)
    /\ UNCHANGED pciVars

(* Only the command register of an existing device takes a word. *)
PciWriteConfig(d) ==
    LET target == PciTarget(pciAddr)
        taken  == target \in PciDevices /\ PciRegister(pciAddr) = 1
    IN  /\ port = PciDataPort
        /\ command' = IF taken THEN [command EXCEPT ![target] = d] ELSE command
        /\ disabled' = IF taken /\ d = 0 THEN disabled \cup {target} ELSE disabled
        /\ UNCHANGED pciAddr

PciRead == PciReadAddress \/ PciReadConfig
PciWrite(d) == PciWriteAddress(d) \/ PciWriteConfig(d)
=============================================================================
