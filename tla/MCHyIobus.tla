----------------------------- MODULE MCHyIobus -----------------------------
(***************************************************************************)
(* Model-checking instance of the I/O bus: bytes of 7 bits, so that every  *)
(* port, command and PCI word of the program fits TLC's integers; a short  *)
(* sector; the IDE controller's descriptor at bus 0, device 0.             *)
(***************************************************************************)
EXTENDS HyIobusRefines

Bar(base) == 1 + 4 * base

MCPciDevices == {<<0, 0>>}
MCPciConfig ==
    [d \in MCPciDevices |-> [n \in 0..9 |->
        <<478 * 65536 + 32902, 0, 16842753, 0, Bar(496), Bar(1014), Bar(368), Bar(886),
          11, 12>>[n + 1]]]

MCBuffer == [i \in 0..(SectorSize - 1) |-> i + 1]
MCIdentifyData == {MCBuffer}
MCGarbage == {99}
PowerOn(count, reading) ==
    [pending |-> count, buf |-> [i \in 0..(SectorSize - 1) |-> 99], reading |-> reading,
     status |-> 99, error |-> 98]

(* Memory that was zero; memory that was not. *)
MCQuietDrives == {PowerOn(0, TRUE)}
MCNoisyDrives == {PowerOn(SectorSize - 2, TRUE)}
MCPowerOnWords == {0, 97}
MCZero == {0}

(* Two drives on the primary channel and one on the secondary one. *)
MCAttached == {<<0, 0>>, <<0, 1>>, <<1, 0>>}
MCMaster == {<<0, 0>>}

(* Data and command ports of both channels, select port of the primary one. *)
MCTransferPorts == {496, 502, 503, 368, 375}
MCTransferWords == {236, 16}

(* The PCI ports, and the data, error, LBA and command ports of the        *)
(* primary channel.                                                        *)
MCConfigPorts == {3320, 3324, 496, 497, 499, 503}

(* Configuration addresses: registers 0, 1 and 15 of the controller and    *)
(* register 1 on a bus that does not exist; IDENTIFY.                      *)
MCConfigWords == {0, 4, 60, 65540, 236}
=============================================================================
