--------------------------- MODULE HyIobusProofs ---------------------------
(***************************************************************************)
(* The I/O bus and its devices, for every size of a sector, every set of   *)
(* drives and PCI devices, every program and whatever uninitialised memory *)
(* held: they are well-typed and they implement HyIoSpace.                 *)
(***************************************************************************)
EXTENDS HyIobusRefines, HyWordsTheorems

(* The type of what an access may read or write. *)
LEMMA SelectedDrive ==
    ASSUME AtaTypeOK
    PROVE  /\ Channel(port) \in {0, 1}
           /\ Current \in Drives
           /\ drive[Current] \in Drive
BY DEF AtaTypeOK, Channel, Current, Drives

LEMMA TransferType ==
    ASSUME NEW v \in Drive, NEW s \in Sizes
    PROVE  TransferWords(v, s) \subseteq Word
<1>1. ASSUME NEW k \in 0..3 PROVE TransferByte(v, k) \subseteq Byte
    <2>1. \A i \in BufferIndices : v.buf[i] \in Byte
        BY DEF Drive, Buffers
    <2> QED BY <2>1, AtaAssumption DEF TransferByte
<1>2. \A k \in 0..3 : TransferLane(v, s, k) \subseteq Byte
    BY <1>1, Constants DEF TransferLane
<1> QED BY <1>2, AssembleType DEF TransferWords

LEMMA PciAnswerType ==
    ASSUME data \in Word, NEW a PROVE PciAnswer(a) \in Word
<1>1. Ones \in Word
    BY Constants DEF Ones
<1> QED BY <1>1, PciAssumption DEF PciAnswer

LEMMA PciWriteType ==
    ASSUME PciTypeOK, NEW d \in Word, PciWrite(d) PROVE PciTypeOK'
BY DEF PciTypeOK, PciWrite, PciWriteAddress, PciWriteConfig

LEMMA AtaWriteType ==
    ASSUME AtaTypeOK, NEW d \in Word, AtaWrite(d) PROVE AtaTypeOK'
<1>1. Current \in Drives /\ drive[Current] \in Drive /\ Channel(port) \in {0, 1}
    BY SelectedDrive
<1>2. CASE AtaWriteSelect(d)
    <2>1. (d \div 16) % 2 \in {0, 1}
        BY WordInt
    <2> QED BY <1>1, <1>2, <2>1 DEF AtaWriteSelect, AtaTypeOK
<1>3. CASE AtaIdentifyAbsent(d)
    <2>1. [drive[Current] EXCEPT !.status = 0] \in Drive
        BY <1>1, Constants DEF Drive
    <2> QED BY <1>1, <1>3, <2>1 DEF AtaIdentifyAbsent, AtaTypeOK
<1>4. CASE AtaIdentify(d)
    <2>1. ASSUME NEW b \in IdentifyData
          PROVE  [pending |-> SectorSize, buf |-> b, reading |-> TRUE,
                  status |-> Ready, error |-> 0] \in Drive
        BY AtaAssumption, Constants DEF Drive
    <2> QED BY <1>1, <1>4, <2>1 DEF AtaIdentify, AtaTypeOK
<1>5. CASE AtaIgnoreCommand(d) \/ AtaWriteNothing
    BY <1>5 DEF AtaIgnoreCommand, AtaWriteNothing, ataVars, AtaTypeOK
<1> QED BY <1>2, <1>3, <1>4, <1>5 DEF AtaWrite

LEMMA AtaReadType ==
    ASSUME AtaTypeOK, data \in Word, NEW s \in Sizes, AtaRead(s)
    PROVE  AtaTypeOK' /\ data' \in Word
<1>1. Current \in Drives /\ drive[Current] \in Drive /\ Channel(port) \in {0, 1}
    BY SelectedDrive
<1>2. CASE AtaReadSelect
    <2>1. select[Channel(port)] \in {0, 1}
        BY <1>1 DEF AtaTypeOK
    <2>2. SelectBits + 16 * select[Channel(port)] \in Word
        BY <2>1, AtaAssumption, ModuliTypes DEF SelectBits, Word
    <2> QED BY <1>2, <2>2 DEF AtaReadSelect, ataVars, AtaTypeOK
<1>3. CASE AtaReadStatus
    BY <1>1, <1>3, HalfIsWord DEF AtaReadStatus, ataVars, AtaTypeOK, Drive
<1>4. CASE AtaReadData(s)
    <2>1. Width(s) \in Int
        BY IobusAssumption DEF Width
    <2>2. (drive[Current].pending - Width(s)) % CountMod \in 0..(CountMod - 1)
        BY <1>1, <2>1, AtaAssumption DEF Drive
    <2>3. [drive[Current] EXCEPT !.pending = (@ - Width(s)) % CountMod] \in Drive
        BY <1>1, <2>2 DEF Drive
    <2>4. drive' \in [Drives -> Drive]
        BY <1>1, <1>4, <2>3 DEF AtaReadData, AtaTypeOK
    <2>5. data' \in Word
        BY <1>1, <1>4, TransferType DEF AtaReadData
    <2> QED BY <1>4, <2>4, <2>5 DEF AtaReadData, AtaTypeOK
<1>5. CASE AtaReadNothing
    BY <1>5 DEF AtaReadNothing, ataVars, AtaTypeOK
<1> QED BY <1>2, <1>3, <1>4, <1>5 DEF AtaRead
-----------------------------------------------------------------------------
LEMMA AccessType ==
    ASSUME NEW a \in {"port", "data"}, NEW rw \in {"read", "write"}, NEW d \in Word,
           Access(a, rw, d)
    PROVE  bus' \in Accesses(Word)
BY DEF Access, Accesses

LEMMA SendType ==
    ASSUME port \in Word, NEW d \in DataWords, Send(d)
    PROVE  d \in Word /\ port' \in Word /\ data' \in Word /\ bus' \in Accesses(Word)
BY IobusAssumption, AccessType DEF Send

LEMMA ReceiveType ==
    ASSUME port \in Word, data' \in Word, Receive
    PROVE  port' \in Word /\ bus' \in Accesses(Word) /\ identified' = identified
BY AccessType DEF Receive

LEMMA TypeInit == Init => TypeOK
<1> SUFFICES ASSUME Init PROVE TypeOK
    OBVIOUS
<1>1. port \in Word /\ data \in Word /\ pciAddr \in Word /\ bus \in Accesses(Word)
    BY IobusAssumption DEF Init, Accesses
<1>2. 255 \in Word
    BY PciAssumption
<1>3. PciTypeOK
    BY <1>1, <1>2 DEF Init, PciInit, PciTypeOK
<1>4. AtaTypeOK
    BY AtaAssumption DEF Init, AtaInit, AtaTypeOK
<1> QED BY <1>1, <1>3, <1>4 DEF Init, TypeOK

LEMMA TypeNext == TypeOK /\ [Next]_vars => TypeOK'
<1> SUFFICES ASSUME TypeOK, [Next]_vars PROVE TypeOK'
    OBVIOUS
<1>1. CASE UNCHANGED vars
    BY <1>1 DEF vars, TypeOK, PciTypeOK, AtaTypeOK
<1>2. CASE WritePort
    BY <1>2, IobusAssumption, AccessType
        DEF WritePort, pciVars, ataVars, history, TypeOK, PciTypeOK, AtaTypeOK
<1>3. CASE ReadPort
    BY <1>3, AccessType DEF ReadPort, ext, pciVars, ataVars, history, TypeOK, PciTypeOK, AtaTypeOK
<1>4. CASE WritePci
    <2>1. PICK d \in DataWords : Send(d) /\ PciWrite(d) /\ UNCHANGED <<ataVars, history>>
        BY <1>4 DEF WritePci
    <2>2. PciTypeOK'
        BY <2>1, SendType, PciWriteType DEF TypeOK
    <2> QED BY <2>1, <2>2, SendType DEF ataVars, history, TypeOK, AtaTypeOK
<1>5. CASE WriteAta
    <2>1. PICK d \in DataWords : Send(d) /\ AtaWrite(d)
        BY <1>5 DEF WriteAta
    <2>2. AtaTypeOK'
        BY <2>1, SendType, AtaWriteType DEF TypeOK
    <2>3. identified' \subseteq Attached /\ overrun' \subseteq identified' /\ UNCHANGED pciVars
        BY <1>5 DEF WriteAta, TypeOK, history
    <2> QED BY <2>1, <2>2, <2>3, SendType DEF pciVars, TypeOK, PciTypeOK
<1>6. CASE WriteNobody
    BY <1>6, SendType DEF WriteNobody, pciVars, ataVars, history, TypeOK, PciTypeOK, AtaTypeOK
<1>7. CASE ReadPci
    <2>1. data' \in Word /\ UNCHANGED pciVars
        BY <1>7, PciAnswerType
            DEF ReadPci, PciRead, PciReadAddress, PciReadConfig, TypeOK, PciTypeOK
    <2> QED BY <1>7, <2>1, ReceiveType DEF ReadPci, pciVars, ataVars, TypeOK, PciTypeOK, AtaTypeOK
<1>8. CASE ReadAta
    <2>1. AtaTypeOK' /\ data' \in Word
        BY <1>8, AtaReadType DEF ReadAta, TypeOK
    <2>2. overrun' \subseteq identified
        BY <1>8 DEF ReadAta, PastEnd, TypeOK
    <2> QED BY <1>8, <2>1, <2>2, ReceiveType DEF ReadAta, pciVars, TypeOK, PciTypeOK
<1>9. CASE ReadNobody
    BY <1>9, ReceiveType DEF ReadNobody, pciVars, ataVars, TypeOK, PciTypeOK, AtaTypeOK
<1> QED BY <1>1, <1>2, <1>3, <1>4, <1>5, <1>6, <1>7, <1>8, <1>9 DEF Next

(* Every count, latch and word stays in its width, for every program, also *)
(* one that mixes access sizes or reads drives before it identifies them.  *)
THEOREM IobusTypeCorrect == Spec => []TypeOK
BY TypeInit, TypeNext, PTL DEF Spec
-----------------------------------------------------------------------------
(* The words of HyIoSpace are the ones of the program. *)
LEMMA SameWords ==
    /\ Space!Word = Word /\ Space!Byte = Byte /\ Space!WordMod = WordMod
    /\ \A a, b, c, d : Space!Assemble(a, b, c, d) = Assemble(a, b, c, d)
BY DEF Space!Word, Word, Space!Byte, Byte, Space!WordMod, WordMod, Space!HalfMod, HalfMod,
    Space!Assemble, Assemble

LEMMA WidthType == ASSUME NEW s \in Sizes PROVE Width(s) \in {1, 2, 4}
BY IobusAssumption DEF Width

(* What a data read does to an intact drive that has enough bytes.         *)
LEMMA IntactTransfer ==
    ASSUME TypeOK, DrivesReady, NEW s \in Sizes, AtaReadData(s), Current \in Intact, ~PastEnd(s)
    PROVE  LET n == Width(s)
               p == drive[Current].pending
           IN  /\ n \in {1, 2, 4} /\ n <= p /\ p <= SectorSize
               /\ drive' = [drive EXCEPT ![Current].pending = p - n]
<1> DEFINE n == Width(s)
           p == drive[Current].pending
<1>1. n \in {1, 2, 4} /\ Current \in Drives /\ drive[Current] \in Drive
    BY WidthType, SelectedDrive DEF TypeOK
<1>2. p \in Nat /\ p # 0 /\ p <= SectorSize /\ drive[Current].reading
    BY <1>1, AtaAssumption DEF AtaReadData, Transferring, DrivesReady, Intact, Drive
<1>3. p \notin 1..(n - 1)
    BY <1>2 DEF PastEnd, Intact, AtaReadData
<1>4. n <= p /\ (p - n) % CountMod = p - n
    BY <1>1, <1>2, <1>3, AtaAssumption
<1>5. drive' = [drive EXCEPT ![Current].pending = p - n]
    BY <1>1, <1>4 DEF AtaReadData, TypeOK, AtaTypeOK
<1> QED BY <1>1, <1>2, <1>4, <1>5

(* What a write to the ATA controller does to the drives and the history.  *)
LEMMA WriteAtaCases ==
    ASSUME TypeOK, WriteAta
    PROVE  \/ /\ drive'[Current].reading /\ drive'[Current].status = Ready
              /\ drive'[Current].pending = SectorSize
              /\ \A e \in Drives \ {Current} : drive'[e] = drive[e]
              /\ identified' = identified \cup {Current}
              /\ overrun' = overrun \ {Current}
           \/ (\A e \in identified : drive'[e] = drive[e]) /\ UNCHANGED history
<1>1. PICK d \in DataWords : Send(d) /\ AtaWrite(d)
            /\ IF Addressed({RegCommand}) /\ d = Identify /\ Current \in Attached
               THEN identified' = identified \cup {Current} /\ overrun' = overrun \ {Current}
               ELSE UNCHANGED history
    BY DEF WriteAta
<1>2. Current \in Drives /\ drive \in [Drives -> Drive] /\ identified \subseteq Attached
    BY SelectedDrive DEF TypeOK, AtaTypeOK
<1>3. CASE AtaIdentify(d)
    <2>1. /\ drive'[Current].reading /\ drive'[Current].status = Ready
          /\ drive'[Current].pending = SectorSize
        BY <1>2, <1>3 DEF AtaIdentify
    <2>2. \A e \in Drives \ {Current} : drive'[e] = drive[e]
        BY <1>2, <1>3 DEF AtaIdentify
    <2> QED BY <1>1, <1>3, <2>1, <2>2 DEF AtaIdentify
<1>4. CASE AtaIdentifyAbsent(d)
    <2>1. Current \notin identified /\ UNCHANGED history
        BY <1>1, <1>2, <1>4 DEF AtaIdentifyAbsent
    <2>2. \A e \in Drives \ {Current} : drive'[e] = drive[e]
        BY <1>2, <1>4 DEF AtaIdentifyAbsent
    <2> QED BY <1>2, <2>1, <2>2, AtaAssumption
<1>5. CASE AtaWriteSelect(d) \/ AtaIgnoreCommand(d) \/ AtaWriteNothing
    <2>1. drive' = drive
        BY <1>5 DEF AtaWriteSelect, AtaIgnoreCommand, AtaWriteNothing, ataVars
    <2>2. UNCHANGED history
        BY <1>1, <1>5 DEF AtaWriteSelect, AtaIgnoreCommand, AtaWriteNothing, Addressed,
            RegCommand, SelectRegisters, RegError, RegSelect, Identify
    <2> QED BY <2>1, <2>2
<1> QED BY <1>1, <1>3, <1>4, <1>5 DEF AtaWrite

(* Which read of the ATA controller it is: one of data, or one that takes  *)
(* nothing from a drive.                                                   *)
LEMMA ReadAtaCases ==
    ASSUME ReadAta
    PROVE  /\ UNCHANGED <<port, select, identified, pciAddr>>
           /\ \/ \E s \in Sizes :
                    /\ AtaReadData(s)
                    /\ overrun' = IF PastEnd(s) THEN overrun \cup {Current} ELSE overrun
              \/ /\ UNCHANGED <<drive, history>>
                 /\ AtaReadSelect \/ AtaReadStatus \/ AtaReadNothing
<1>1. UNCHANGED <<port, identified, pciAddr>>
    BY DEF ReadAta, Receive, pciVars
<1>2. PICK s \in Sizes : /\ AtaRead(s)
                         /\ overrun' = IF PastEnd(s) THEN overrun \cup {Current} ELSE overrun
    BY DEF ReadAta
<1>3. UNCHANGED select
    BY <1>2 DEF AtaRead, AtaReadData, AtaReadSelect, AtaReadStatus, AtaReadNothing, ataVars
<1>4. ASSUME AtaReadSelect \/ AtaReadStatus \/ AtaReadNothing
      PROVE  UNCHANGED drive /\ ~PastEnd(s)
    <2>1. UNCHANGED drive
        BY <1>4 DEF AtaReadSelect, AtaReadStatus, AtaReadNothing, ataVars
    <2>2. ~PastEnd(s)
        BY <1>4 DEF AtaReadSelect, AtaReadStatus, AtaReadNothing, PastEnd, Addressed,
            Transferring, SelectRegisters, RegData, RegError, RegSelect, RegCommand
    <2> QED BY <2>1, <2>2
<1> QED BY <1>1, <1>2, <1>3, <1>4 DEF AtaRead, history

(* The steps that touch neither a drive nor its history.                   *)
LEMMA OtherSteps ==
    ASSUME \/ WritePort \/ ReadPort \/ WritePci \/ WriteNobody \/ ReadPci \/ ReadNobody
           \/ UNCHANGED vars
    PROVE  UNCHANGED <<drive, history>>
BY DEF WritePort, ReadPort, WritePci, WriteNobody, ReadPci, ReadNobody, Receive, ataVars,
    history, vars

LEMMA DrivesReadyInit == Init => DrivesReady
BY DEF Init, DrivesReady

LEMMA DrivesReadyNext == TypeOK /\ DrivesReady /\ [Next]_vars => DrivesReady'
<1> SUFFICES ASSUME TypeOK, DrivesReady, [Next]_vars PROVE DrivesReady'
    OBVIOUS
<1>1. CASE UNCHANGED <<drive, history>>
    BY <1>1 DEF DrivesReady, history
<1>2. CASE WriteAta
    <2>1. identified \subseteq Drives /\ Current \in Drives
        BY SelectedDrive, AtaAssumption DEF TypeOK
    <2>2. CASE (\A e \in identified : drive'[e] = drive[e]) /\ UNCHANGED history
        BY <2>2 DEF DrivesReady, history
    <2>3. CASE /\ drive'[Current].reading /\ drive'[Current].status = Ready
               /\ drive'[Current].pending = SectorSize
               /\ \A e \in Drives \ {Current} : drive'[e] = drive[e]
               /\ identified' = identified \cup {Current}
               /\ overrun' = overrun \ {Current}
        BY <2>1, <2>3, AtaAssumption DEF DrivesReady
    <2> QED BY <1>2, <2>2, <2>3, WriteAtaCases
<1>3. CASE ReadAta
    <2>1. Current \in Drives /\ drive \in [Drives -> Drive] /\ identified \subseteq Drives
        BY SelectedDrive, AtaAssumption DEF TypeOK, AtaTypeOK
    <2>2. ASSUME NEW s \in Sizes, AtaReadData(s),
                 overrun' = IF PastEnd(s) THEN overrun \cup {Current} ELSE overrun
          PROVE  DrivesReady'
        <3>1. identified' = identified /\ overrun \subseteq overrun'
            BY <1>3, <2>2, ReadAtaCases
        <3>2. \A e \in Drives \ {Current} : drive'[e] = drive[e]
            BY <2>1, <2>2 DEF AtaReadData
        <3>3. /\ drive'[Current].reading = drive[Current].reading
              /\ drive'[Current].status = drive[Current].status
            BY <2>1, <2>2 DEF AtaReadData, Drive
        <3>4. ASSUME Current \in identified, Current \notin overrun'
              PROVE  drive'[Current].pending <= SectorSize
            <4>1. Current \in Intact /\ ~PastEnd(s)
                BY <2>2, <3>4 DEF Intact
            <4> DEFINE q == drive[Current].pending - Width(s)
            <4>2. /\ Width(s) \in {1, 2, 4} /\ drive[Current].pending <= SectorSize
                  /\ drive' = [drive EXCEPT ![Current].pending = q]
                BY <2>2, <4>1, IntactTransfer
            <4>3. drive[Current].pending \in Nat
                BY <2>1, AtaAssumption DEF Drive
            <4>4. drive'[Current].pending = q
                BY <2>1, <4>2 DEF Drive
            <4> QED BY <4>2, <4>3, <4>4, AtaAssumption
        <3> QED BY <2>1, <3>1, <3>2, <3>3, <3>4 DEF DrivesReady
    <2> QED BY <1>1, <1>3, <2>2, ReadAtaCases
<1> QED BY <1>1, <1>2, <1>3, OtherSteps DEF Next

LEMMA DrivesReadyHolds == Spec => []DrivesReady
BY DrivesReadyInit, DrivesReadyNext, IobusTypeCorrect, PTL DEF Spec

(* The count of an identified drive never exceeds its buffer, and its      *)
(* direction stays, until it is read past its end: no other read of it     *)
(* looks outside the sector, whatever sizes the program mixes.             *)
THEOREM TransferInSectorHolds == Spec => []TransferInSector
<1>1. DrivesReady => TransferInSector
    BY DEF DrivesReady, TransferInSector
<1> QED BY <1>1, DrivesReadyHolds, PTL
-----------------------------------------------------------------------------
(* A transfer that is not over, in whole words, has one more.              *)
LEMMA WholeWord ==
    ASSUME NEW p \in Nat, NEW w \in {1, 2, 4}, p % w = 0, p # 0
    PROVE  w <= p /\ p - w \in Nat /\ (p - w) % w = 0
<1>1. CASE w = 1
    BY <1>1
<1>2. CASE w = 2
    BY <1>2
<1>3. CASE w = 4
    BY <1>3
<1> QED BY <1>1, <1>2, <1>3

LEMMA WholeWordsInit == Init => WholeWords
BY DEF Init, WholeWords

LEMMA WholeWordsNext ==
    ASSUME OneSize
    PROVE  TypeOK /\ DrivesReady /\ WholeWords /\ [Next]_vars => WholeWords'
<1> SUFFICES ASSUME TypeOK, DrivesReady, WholeWords, [Next]_vars PROVE WholeWords'
    OBVIOUS
<1>1. CASE UNCHANGED <<drive, history>>
    BY <1>1 DEF WholeWords, history
<1>2. CASE WriteAta
    <2>1. identified \subseteq Drives /\ Current \in Drives
        BY SelectedDrive, AtaAssumption DEF TypeOK
    <2>2. CASE (\A e \in identified : drive'[e] = drive[e]) /\ UNCHANGED history
        BY <2>2 DEF WholeWords, history
    <2>3. CASE /\ drive'[Current].pending = SectorSize
               /\ \A e \in Drives \ {Current} : drive'[e] = drive[e]
               /\ identified' = identified \cup {Current}
               /\ overrun' = overrun \ {Current}
        <3>1. \A s \in Sizes : SectorSize % Width(s) = 0
            BY DEF OneSize
        <3> QED BY <2>1, <2>3, <3>1 DEF WholeWords
    <2> QED BY <1>2, <2>2, <2>3, WriteAtaCases
<1>3. CASE ReadAta
    <2>1. Current \in Drives /\ drive \in [Drives -> Drive] /\ identified \subseteq Drives
        BY SelectedDrive, AtaAssumption DEF TypeOK, AtaTypeOK
    <2>2. ASSUME NEW s \in Sizes, AtaReadData(s),
                 overrun' = IF PastEnd(s) THEN overrun \cup {Current} ELSE overrun
          PROVE  WholeWords'
        <3> DEFINE p == drive[Current].pending
        <3>1. identified' = identified
            BY <1>3, ReadAtaCases
        <3>2. \A e \in Drives \ {Current} : drive'[e] = drive[e]
            BY <2>1, <2>2 DEF AtaReadData
        <3>3. CASE Current \in identified
            <4>1. /\ Width(s) \in {1, 2, 4} /\ p \in Nat /\ p # 0 /\ p % Width(s) = 0
                BY <2>1, <2>2, <3>3, WidthType, AtaAssumption
                    DEF AtaReadData, Transferring, WholeWords, Drive
            <4>2. Width(s) <= p /\ p - Width(s) \in Nat /\ (p - Width(s)) % Width(s) = 0
                BY <4>1, WholeWord
            <4>3. ~PastEnd(s)
                BY <4>1, <4>2 DEF PastEnd
            <4>4. Current \in Intact /\ overrun' = {}
                BY <2>2, <3>3, <4>3 DEF Intact, WholeWords
            <4>5. drive' = [drive EXCEPT ![Current].pending = p - Width(s)]
                BY <2>2, <4>3, <4>4, IntactTransfer
            <4>6. drive'[Current].pending = p - Width(s)
                BY <2>1, <4>5 DEF Drive
            <4>7. \A u \in Sizes : Width(u) = Width(s)
                BY DEF OneSize
            <4> QED BY <2>1, <3>1, <3>2, <4>2, <4>4, <4>6, <4>7 DEF WholeWords
        <3>4. CASE Current \notin identified
            <4>1. overrun' = {}
                BY <2>2, <3>4 DEF PastEnd, WholeWords
            <4> QED BY <2>1, <3>1, <3>2, <3>4, <4>1 DEF WholeWords
        <3> QED BY <3>3, <3>4
    <2> QED BY <1>1, <1>3, <2>2, ReadAtaCases
<1> QED BY <1>1, <1>2, <1>3, OtherSteps DEF Next

(* A program that reads with one access size, a divisor of the sector      *)
(* size, never takes a count out of the sector.                            *)
THEOREM OneSizeStaysInsideHolds == Spec => []OneSizeStaysInside
<1>1. ASSUME OneSize PROVE Spec => []WholeWords
    <2>1. TypeOK /\ DrivesReady /\ WholeWords /\ [Next]_vars => WholeWords'
        BY <1>1, WholeWordsNext
    <2> QED BY <2>1, WholeWordsInit, IobusTypeCorrect, DrivesReadyHolds, PTL DEF Spec
<1>2. WholeWords => OneSizeStaysInside
    BY DEF WholeWords, OneSizeStaysInside
<1>3. CASE OneSize
    BY <1>1, <1>2, <1>3, PTL
<1>4. CASE ~OneSize
    <2>1. OneSizeStaysInside
        BY <1>4 DEF OneSizeStaysInside
    <2> QED BY <2>1, PTL
<1> QED BY <1>3, <1>4
-----------------------------------------------------------------------------
(* The queue of a drive, and what taking bytes from it leaves.             *)
LEMMA TailFacts ==
    ASSUME NEW buf \in Buffers, NEW n \in 0..SectorSize
    PROVE  /\ Tail_(buf, n) \in [1..n -> Byte]
           /\ Tail_(buf, n) \in Seq(Byte)
           /\ Len(Tail_(buf, n)) = n
           /\ Tail_(buf, n) = <<>> <=> n = 0
<1>1. \A i \in 1..n : SectorSize - n + i - 1 \in BufferIndices
    BY AtaAssumption DEF BufferIndices
<1>2. Tail_(buf, n) \in [1..n -> Byte]
    BY <1>1 DEF Tail_, Buffers
<1>3. n \in Nat
    BY AtaAssumption
<1>4. Tail_(buf, n) \in Seq(Byte) /\ Len(Tail_(buf, n)) = n
    BY <1>2, <1>3
<1> QED BY <1>2, <1>3, <1>4

LEMMA TailRest ==
    ASSUME NEW buf \in Buffers, NEW p \in 0..SectorSize, NEW n \in 1..p
    PROVE  Space!Rest(Tail_(buf, p), n) = Tail_(buf, p - n)
<1>1. Len(Tail_(buf, p)) = p
    BY TailFacts
<1>2. \A i \in 1..(p - n) : Tail_(buf, p)[i + n] = buf[SectorSize - (p - n) + i - 1]
    <2> SUFFICES ASSUME NEW i \in 1..(p - n)
                 PROVE  Tail_(buf, p)[i + n] = buf[SectorSize - (p - n) + i - 1]
        OBVIOUS
    <2>1. i + n \in 1..p /\ SectorSize - p + (i + n) - 1 = SectorSize - (p - n) + i - 1
        BY AtaAssumption
    <2> QED BY <2>1 DEF Tail_
<1> QED BY <1>1, <1>2 DEF Space!Rest, Tail_

(* The word a data read gives is made of the first bytes of the queue.     *)
LEMMA TailFirst ==
    ASSUME NEW v \in Drive, NEW s \in Sizes, Width(s) <= v.pending, v.pending <= SectorSize
    PROVE  TransferWords(v, s) = {Space!First(Tail_(v.buf, v.pending), Width(s))}
<1> DEFINE q == Tail_(v.buf, v.pending)
           lane(k) == IF k < Width(s) THEN q[k + 1] ELSE 0
<1>1. v.pending \in 0..SectorSize /\ v.buf \in Buffers
    BY AtaAssumption DEF Drive
<1>2. Width(s) \in {1, 2, 4}
    BY WidthType
<1>3. ASSUME NEW k \in 0..3 PROVE TransferLane(v, s, k) = {lane(k)}
    <2>1. CASE k < Width(s)
        <3> DEFINE i == SectorSize - v.pending + k
        <3>1. i \in BufferIndices
            BY <1>1, <1>2, <2>1, AtaAssumption DEF BufferIndices
        <3>2. i % IndexMod = i
            BY <3>1, AtaAssumption DEF BufferIndices
        <3>3. TransferByte(v, k) = {v.buf[i]}
            BY <3>1, <3>2 DEF TransferByte
        <3>4. k + 1 \in 1..v.pending /\ SectorSize - v.pending + (k + 1) - 1 = i
            BY <1>1, <1>2, <2>1, AtaAssumption
        <3>5. q[k + 1] = v.buf[i]
            BY <3>4 DEF Tail_
        <3> QED BY <2>1, <3>3, <3>5 DEF TransferLane
    <2>2. CASE ~(k < Width(s))
        BY <2>2 DEF TransferLane
    <2> QED BY <2>1, <2>2
<1>4. TransferWords(v, s) = {Assemble(lane(0), lane(1), lane(2), lane(3))}
    BY <1>3 DEF TransferWords
<1> DEFINE qbyte(k) == IF k <= Width(s) THEN q[k] ELSE 0
<1>5. /\ qbyte(1) = lane(0) /\ qbyte(2) = lane(1)
      /\ qbyte(3) = lane(2) /\ qbyte(4) = lane(3)
    BY <1>2
<1>6. Space!First(q, Width(s)) = Assemble(qbyte(1), qbyte(2), qbyte(3), qbyte(4))
    BY SameWords DEF Space!First
<1> HIDE DEF qbyte, lane, q
<1>7. TransferWords(v, s) = {Space!First(q, Width(s))}
    BY <1>4, <1>5, <1>6
<1> QED BY <1>7 DEF q
-----------------------------------------------------------------------------
(* The queues a step leaves alone, fills or takes from.                    *)
LEMMA LeftSame ==
    ASSUME history' = history,
           \A d \in identified : drive'[d].buf = drive[d].buf
                                   /\ drive'[d].pending = drive[d].pending
    PROVE  UNCHANGED <<Intact, Left>>
BY DEF Left, Intact, Tail_, history

LEMMA RefinesInit == Init => Space!Init
<1> SUFFICES ASSUME Init PROVE Space!Init
    OBVIOUS
<1>1. TypeOK
    BY TypeInit
<1>2. Intact = {} /\ Left = [d \in {0, 1} \X {0, 1} |-> <<>>]
    BY DEF Init, Left, Intact, Drives
<1> QED BY <1>1, <1>2, SameWords
    DEF Init, AtaInit, Space!Init, Space!Bus, TypeOK, PciTypeOK, Accesses

LEMMA RefinesLatch == TypeOK /\ TypeOK' /\ (WritePort \/ ReadPort) => Space!Latch
<1> SUFFICES ASSUME TypeOK, TypeOK', WritePort \/ ReadPort PROVE Space!Latch
    OBVIOUS
<1>1. UNCHANGED <<data, pciAddr, select, drive, history>>
    BY DEF WritePort, ReadPort, ext, pciVars, ataVars
<1>2. UNCHANGED <<Intact, Left>>
    BY <1>1, LeftSame
<1>3. port' \in Word
    BY DEF TypeOK
<1>4. \E rw \in {"read", "write"} : bus' = [a |-> "port", rw |-> rw, d |-> port']
    BY DEF WritePort, ReadPort, Access, ext
<1>5. bus'.rw = "read" => port' = port
    BY DEF WritePort, ReadPort, Access, ext
<1> QED BY <1>1, <1>2, <1>3, <1>4, <1>5, SameWords DEF Space!Latch, Space!devices

(* A word written to a port outside the ATA controller. *)
LEMMA RefinesWriteElsewhere ==
    TypeOK /\ TypeOK' /\ (WritePci \/ WriteNobody) => Space!Write
<1> SUFFICES ASSUME TypeOK, TypeOK', WritePci \/ WriteNobody PROVE Space!Write
    OBVIOUS
<1>1. UNCHANGED <<port, select, drive, history>>
    BY DEF WritePci, WriteNobody, Send, ataVars
<1>2. UNCHANGED <<Intact, Left>>
    BY <1>1, LeftSame
<1>3. data' \in Word /\ bus' = [a |-> "data", rw |-> "write", d |-> data']
    BY DEF TypeOK, WritePci, WriteNobody, Send, Access
<1>4. port \notin AtaPorts
    BY IobusAssumption DEF WritePci, WriteNobody, PciWrite, PciWriteAddress, PciWriteConfig, PciPorts
<1>5. pciAddr' = IF port = PciAddressPort THEN data' ELSE pciAddr
    BY PciAssumption DEF WritePci, WriteNobody, PciWrite, PciWriteAddress, PciWriteConfig, PciPorts,
        pciVars, Send
<1> QED BY <1>1, <1>2, <1>3, <1>4, <1>5, SameWords DEF Space!Write, Space!At

LEMMA RefinesWriteAta == TypeOK /\ TypeOK' /\ WriteAta => Space!Write
<1> SUFFICES ASSUME TypeOK, TypeOK', WriteAta PROVE Space!Write
    OBVIOUS
<1>1. PICK d \in DataWords : Send(d) /\ AtaWrite(d)
            /\ IF Addressed({RegCommand}) /\ d = Identify /\ Current \in Attached
               THEN identified' = identified \cup {Current} /\ overrun' = overrun \ {Current}
               ELSE UNCHANGED history
    BY DEF WriteAta
<1>2. data' = d /\ port' = port /\ pciAddr' = pciAddr
    BY <1>1 DEF Send, WriteAta, pciVars
<1>3. data' \in Word /\ bus' = [a |-> "data", rw |-> "write", d |-> data']
    BY <1>1 DEF TypeOK, Send, Access
<1>4. port # PciAddressPort /\ port \in AtaPorts
    BY <1>1, IobusAssumption DEF AtaWrite, AtaWriteSelect, AtaIdentifyAbsent, AtaIdentify,
        AtaIgnoreCommand, AtaWriteNothing, Addressed, PciPorts
<1>5. Current \in Drives /\ drive \in [Drives -> Drive] /\ identified \subseteq Drives
    BY SelectedDrive, AtaAssumption DEF TypeOK, AtaTypeOK
<1>6. select' = IF Space!At({1, 6})
                THEN [select EXCEPT ![Channel(port)] = (data' \div 16) % 2] ELSE select
    BY <1>1, <1>2 DEF AtaWrite, AtaWriteSelect, AtaIdentifyAbsent, AtaIdentify,
        AtaIgnoreCommand, AtaWriteNothing, Addressed, Space!At, SelectRegisters, RegError,
        RegSelect, RegCommand, ataVars
<1>7. IF Space!At({7}) /\ data' = 236 /\ Space!Selected \in Attached
      THEN /\ Intact' = Intact \cup {Space!Selected}
           /\ \E bytes \in {Tail_(b, SectorSize) : b \in IdentifyData} :
                  Left' = [Left EXCEPT ![Space!Selected] = bytes]
      ELSE UNCHANGED <<Intact, Left>>
    <2>1. Space!Selected = Current
        BY DEF Space!Selected, Current
    <2>2. Space!At({7}) /\ data' = 236 <=> Addressed({RegCommand}) /\ d = Identify
        BY <1>2 DEF Space!At, Addressed, RegCommand, Identify
    <2>3. CASE Addressed({RegCommand}) /\ d = Identify /\ Current \in Attached
        <3>1. Intact' = Intact \cup {Current}
            BY <1>1, <2>3 DEF Intact
        <3>2. AtaIdentify(d)
            BY <1>1, <2>3 DEF AtaWrite, AtaWriteSelect, AtaIdentifyAbsent, AtaIgnoreCommand,
                AtaWriteNothing, Addressed, SelectRegisters, RegError, RegSelect, RegCommand
        <3>3. PICK b \in IdentifyData : drive' = [drive EXCEPT ![Current] =
                  [pending |-> SectorSize, buf |-> b, reading |-> TRUE,
                   status |-> Ready, error |-> 0]]
            BY <3>2 DEF AtaIdentify
        <3>4. \A e \in Drives \ {Current} : drive'[e] = drive[e]
            BY <1>5, <3>3
        <3>5. drive'[Current].buf = b /\ drive'[Current].pending = SectorSize
            BY <1>5, <3>3
        <3>6. Left' = [Left EXCEPT ![Current] = Tail_(b, SectorSize)]
            BY <1>5, <3>1, <3>4, <3>5 DEF Left, Tail_
        <3>7. \E bytes \in {Tail_(c, SectorSize) : c \in IdentifyData} :
                  Left' = [Left EXCEPT ![Current] = bytes]
            BY <3>6
        <3> QED BY <2>1, <2>2, <2>3, <3>1, <3>7
    <2>4. CASE ~(Addressed({RegCommand}) /\ d = Identify /\ Current \in Attached)
        <3>1. UNCHANGED history
            BY <1>1, <2>4
        <3>2. \A e \in Drives : drive'[e].buf = drive[e].buf /\ drive'[e].pending = drive[e].pending
            <4>1. CASE AtaIdentifyAbsent(d)
                BY <1>5, <4>1 DEF AtaIdentifyAbsent, Drive
            <4>2. CASE drive' = drive
                BY <4>2
            <4> QED BY <1>1, <2>4, <4>1, <4>2 DEF AtaWrite, AtaWriteSelect, AtaIdentify,
                AtaIgnoreCommand, AtaWriteNothing, ataVars
        <3>3. UNCHANGED <<Intact, Left>>
            BY <1>5, <3>1, <3>2, LeftSame
        <3> QED BY <2>1, <2>2, <2>4, <3>1, <3>3
    <2> QED BY <2>3, <2>4
<1> QED BY <1>2, <1>3, <1>4, <1>6, <1>7, SameWords DEF Space!Write
-----------------------------------------------------------------------------
LEMMA RefinesReadPci == TypeOK /\ ReadPci => Space!Answer \/ Space!Echo
<1> SUFFICES ASSUME TypeOK, ReadPci PROVE Space!Answer \/ Space!Echo
    OBVIOUS
<1>1. UNCHANGED <<port, select, drive, history, pciAddr>>
    BY DEF ReadPci, Receive, history, PciRead, PciReadAddress, PciReadConfig, pciVars, ataVars
<1>2. UNCHANGED <<Intact, Left>>
    BY <1>1, LeftSame
<1>3. Space!Read
    BY <1>1 DEF ReadPci, Receive, Access, Space!Read
<1>4. UNCHANGED <<pciAddr, select, Intact, Left>>
    BY <1>1, <1>2
<1>5. CASE PciReadAddress
    BY <1>3, <1>4, <1>5 DEF PciReadAddress, Space!Answer, Space!devices
<1>6. CASE PciReadConfig
    <2>1. port = PciDataPort /\ data' = PciAnswer(pciAddr)
        BY <1>6 DEF PciReadConfig
    <2>2. Space!Target = PciTarget(pciAddr) /\ Space!PciRegister = PciRegister(pciAddr)
        BY DEF Space!Target, PciTarget, Space!PciRegister, PciRegister
    <2>3. DOMAIN PciConfig = PciDevices
        BY PciAssumption
    <2>4. CASE PciTarget(pciAddr) \notin PciDevices
        <3>1. data' = Space!WordMod - 1
            BY <2>1, <2>4, SameWords DEF PciAnswer, Ones
        <3> QED BY <1>3, <1>4, <2>1, <2>2, <2>3, <2>4, <3>1 DEF Space!Answer, Space!devices
    <2>5. CASE PciTarget(pciAddr) \in PciDevices /\ PciRegister(pciAddr) \in PciRegisters
        <3>1. data' = PciConfig[Space!Target][Space!PciRegister]
            BY <2>1, <2>2, <2>5 DEF PciAnswer
        <3> QED BY <1>3, <1>4, <2>1, <2>2, <2>3, <2>5, <3>1 DEF Space!Answer, Space!devices
    <2>6. CASE PciTarget(pciAddr) \in PciDevices /\ PciRegister(pciAddr) \notin PciRegisters
        <3>1. data' = data
            BY <2>1, <2>6 DEF PciAnswer
        <3> QED BY <1>3, <1>4, <2>1, <2>2, <2>3, <2>6, <3>1 DEF Space!Echo, Space!devices
    <2> QED BY <2>4, <2>5, <2>6
<1> QED BY <1>5, <1>6 DEF ReadPci, PciRead

LEMMA RefinesReadNobody == ReadNobody => Space!Echo
<1> SUFFICES ASSUME ReadNobody PROVE Space!Echo
    OBVIOUS
<1>1. UNCHANGED <<port, data, select, drive, history, pciAddr>>
    BY DEF ReadNobody, Receive, history, pciVars, ataVars
<1>2. UNCHANGED <<Intact, Left>>
    BY <1>1, LeftSame
<1>3. Space!Read
    BY <1>1 DEF ReadNobody, Receive, Access, Space!Read
<1> QED BY <1>1, <1>2, <1>3 DEF ReadNobody, PciPorts, Space!Echo, Space!devices

LEMMA AtaReadsRead ==
    ASSUME ReadAta PROVE Space!Read /\ Space!Selected = Current
BY DEF ReadAta, Receive, Access, Space!Read, Space!Selected, Current

(* A read that an intact drive has enough bytes for.                       *)
LEMMA RefinesTransfer ==
    ASSUME TypeOK, DrivesReady, ReadAta, NEW s \in Sizes, AtaReadData(s),
           Current \in Intact, ~PastEnd(s), UNCHANGED <<port, select, identified, overrun, pciAddr>>
    PROVE  Space!Deliver
<1> DEFINE v == drive[Current]
           n == Width(s)
           q == Tail_(v.buf, v.pending)
<1>1. Current \in Drives /\ drive \in [Drives -> Drive] /\ Space!At({0})
    BY SelectedDrive DEF TypeOK, AtaTypeOK, AtaReadData, Addressed, RegData, Space!At
<1>2. /\ n \in {1, 2, 4} /\ n <= v.pending /\ v.pending <= SectorSize
      /\ drive' = [drive EXCEPT ![Current].pending = v.pending - n]
    BY IntactTransfer
<1>3. v \in Drive /\ v.buf \in Buffers /\ v.pending \in 0..SectorSize /\ n \in 1..v.pending
    BY <1>1, <1>2, AtaAssumption DEF Drive
<1>4. Left[Current] = q /\ Len(q) = v.pending /\ q # <<>>
    BY <1>1, <1>2, <1>3, TailFacts DEF Left
<1>5. data' = Space!First(q, n)
    <2>1. data' \in TransferWords(v, s)
        BY DEF AtaReadData
    <2> QED BY <1>2, <1>3, <2>1, TailFirst
<1>6. Space!Rest(q, n) = Tail_(v.buf, v.pending - n)
    BY <1>3, TailRest
<1>7. /\ drive'[Current].buf = v.buf /\ drive'[Current].pending = v.pending - n
      /\ \A e \in Drives \ {Current} : drive'[e] = drive[e]
    BY <1>1, <1>2, <1>3 DEF Drive
<1>8. Intact' = Intact
    BY DEF Intact
<1>9. Left' = [Left EXCEPT ![Current] = Space!Rest(@, n)]
    <2>1. Left' = [d \in Drives |-> IF d \in Intact
                      THEN Tail_(drive'[d].buf, drive'[d].pending) ELSE <<>>]
        BY <1>8 DEF Left, Tail_
    <2>2. Left'[Current] = Space!Rest(Left[Current], n)
        BY <1>1, <1>4, <1>6, <1>7, <2>1
    <2>3. \A e \in Drives \ {Current} : Left'[e] = Left[e]
        BY <1>7, <2>1 DEF Left
    <2> QED BY <1>1, <2>1, <2>2, <2>3 DEF Left
<1> HIDE DEF v, n, q
<1> QED BY <1>1, <1>2, <1>3, <1>4, <1>5, <1>8, <1>9, AtaReadsRead DEF Space!Deliver

(* A read wider than what an intact drive has left.                        *)
LEMMA RefinesOverrun ==
    ASSUME TypeOK, DrivesReady, ReadAta, NEW s \in Sizes, AtaReadData(s),
           Current \in Intact, PastEnd(s), overrun' = overrun \cup {Current},
           UNCHANGED <<port, select, identified, pciAddr>>
    PROVE  Space!Spoil
<1>1. Current \in Drives /\ drive \in [Drives -> Drive] /\ Space!At({0})
    BY SelectedDrive DEF TypeOK, AtaTypeOK, AtaReadData, Addressed, RegData, Space!At
<1>2. Len(Left[Current]) \in 1..3
    <2> DEFINE v == drive[Current]
    <2>1. v.pending \in 0..SectorSize /\ v.buf \in Buffers /\ v.pending \in 1..3
        BY <1>1, WidthType, AtaAssumption DEF PastEnd, DrivesReady, Intact, Drive
    <2>2. Left[Current] = Tail_(v.buf, v.pending)
        BY <1>1 DEF Left
    <2> QED BY <2>1, <2>2, TailFacts
<1>3. Intact' = Intact \ {Current}
    BY DEF Intact
<1>4. Left' = [Left EXCEPT ![Current] = <<>>]
    <2>1. \A e \in Drives \ {Current} : drive'[e] = drive[e]
        BY <1>1 DEF AtaReadData
    <2> QED BY <1>1, <1>3, <2>1 DEF Left, Tail_
<1>5. data' \in Space!Word
    BY <1>1, TransferType, SameWords DEF AtaReadData
<1> QED BY <1>1, <1>2, <1>3, <1>4, <1>5, AtaReadsRead DEF Space!Spoil

LEMMA RefinesReadAta ==
    ASSUME TypeOK, DrivesReady, ReadAta
    PROVE  Space!Deliver \/ Space!Spoil \/ Space!Answer \/ Space!Echo
<1>1. UNCHANGED <<port, select, identified, pciAddr>> /\ Space!Read /\ Space!Selected = Current
    BY ReadAtaCases, AtaReadsRead
<1>2. Current \in Drives /\ drive \in [Drives -> Drive] /\ identified \subseteq Drives
    BY SelectedDrive, AtaAssumption DEF TypeOK, AtaTypeOK
<1>3. ASSUME NEW s \in Sizes, AtaReadData(s),
             overrun' = IF PastEnd(s) THEN overrun \cup {Current} ELSE overrun
      PROVE  Space!Deliver \/ Space!Spoil \/ Space!Answer
    <2>1. CASE Current \in Intact /\ ~PastEnd(s)
        BY <1>1, <1>3, <2>1, RefinesTransfer
    <2>2. CASE Current \in Intact /\ PastEnd(s)
        BY <1>1, <1>3, <2>2, RefinesOverrun
    <2>3. CASE Current \notin Intact
        <3>1. Intact' = Intact
            BY <1>1, <1>3, <2>3 DEF PastEnd, Intact
        <3>2. \A e \in Drives \ {Current} : drive'[e] = drive[e]
            BY <1>2, <1>3 DEF AtaReadData
        <3>3. Left' = Left
            BY <2>3, <3>1, <3>2 DEF Left, Tail_
        <3>4. data' \in Space!Word
            BY <1>2, <1>3, TransferType, SameWords DEF AtaReadData
        <3>5. Space!At({0})
            BY <1>3 DEF AtaReadData, Addressed, RegData, Space!At
        <3> QED BY <1>1, <2>3, <3>1, <3>3, <3>4, <3>5 DEF Space!Answer, Space!devices
    <2> QED BY <2>1, <2>2, <2>3
<1>4. CASE UNCHANGED <<drive, history>> /\ (AtaReadSelect \/ AtaReadStatus \/ AtaReadNothing)
    <2>1. UNCHANGED <<pciAddr, select, Intact, Left>>
        BY <1>1, <1>4, LeftSame
    <2>2. CASE AtaReadSelect
        <3>1. Space!At({1, 6}) /\ data' = 224 + 16 * select[Channel(port)]
            BY <2>2 DEF AtaReadSelect, Addressed, SelectRegisters, RegError, RegSelect, SelectBits,
                Space!At
        <3> QED BY <1>1, <2>1, <3>1 DEF Space!Answer, Space!devices
    <2>3. CASE AtaReadStatus
        <3>1. Space!At({7}) /\ data' = drive[Current].status
            BY <2>3 DEF AtaReadStatus, Addressed, RegCommand, Space!At
        <3>2. data' \in Space!Byte
            BY <1>2, <3>1, SameWords DEF Drive
        <3>3. Current \in Intact => (data' \div 64) % 2 = 1
            <4>1. (72 \div 64) % 2 = 1
                OBVIOUS
            <4> QED BY <3>1, <4>1 DEF DrivesReady, Intact, Ready
        <3> QED BY <1>1, <2>1, <3>1, <3>2, <3>3 DEF Space!Answer, Space!devices
    <2>4. CASE AtaReadNothing
        <3>1. data' = data
            BY <2>4 DEF AtaReadNothing
        <3>2. CASE Addressed({RegData}) /\ ~Transferring(drive[Current])
            <4>1. Space!At({0})
                BY <3>2 DEF Addressed, RegData, Space!At
            <4>2. Current \in Intact => Left[Current] = <<>>
                <5> SUFFICES ASSUME Current \in Intact PROVE Left[Current] = <<>>
                    OBVIOUS
                <5>1. drive[Current].pending = 0 /\ drive[Current].buf \in Buffers
                    BY <1>2, <3>2 DEF Transferring, DrivesReady, Intact, Drive
                <5>2. Left[Current] = Tail_(drive[Current].buf, 0)
                    BY <1>2, <5>1 DEF Left
                <5>3. 0 \in 0..SectorSize
                    BY AtaAssumption
                <5> QED BY <5>1, <5>2, <5>3, TailFacts
            <4> QED BY <1>1, <2>1, <3>1, <4>1, <4>2 DEF Space!Echo, Space!devices
        <3>3. CASE Addressed(0..15 \ {RegData, RegError, RegSelect, RegCommand})
            <4>1. Space!At(2..5 \cup 8..15)
                BY <3>3 DEF Addressed, RegData, RegError, RegSelect, RegCommand, Space!At
            <4> QED BY <1>1, <2>1, <3>1, <4>1 DEF Space!Echo, Space!devices
        <3> QED BY <2>4, <3>2, <3>3 DEF AtaReadNothing
    <2> QED BY <1>4, <2>2, <2>3, <2>4
<1> QED BY <1>3, <1>4, ReadAtaCases
-----------------------------------------------------------------------------
LEMMA RefinesNext ==
    TypeOK /\ TypeOK' /\ DrivesReady /\ [Next]_vars => [Space!Next]_(Space!vars)
<1> SUFFICES ASSUME TypeOK, TypeOK', DrivesReady, [Next]_vars PROVE [Space!Next]_(Space!vars)
    OBVIOUS
<1>1. CASE UNCHANGED vars
    <2>1. UNCHANGED <<port, data, bus, pciAddr, select, drive, history>>
        BY <1>1 DEF vars, history
    <2>2. UNCHANGED <<Intact, Left>>
        BY <2>1, LeftSame
    <2> QED BY <2>1, <2>2 DEF Space!vars
<1>2. CASE WritePort \/ ReadPort
    BY <1>2, RefinesLatch DEF Space!Next
<1>3. CASE WritePci \/ WriteNobody
    BY <1>3, RefinesWriteElsewhere DEF Space!Next
<1>4. CASE WriteAta
    BY <1>4, RefinesWriteAta DEF Space!Next
<1>5. CASE ReadPci
    BY <1>5, RefinesReadPci DEF Space!Next
<1>6. CASE ReadAta
    BY <1>6, RefinesReadAta DEF Space!Next
<1>7. CASE ReadNobody
    BY <1>7, RefinesReadNobody DEF Space!Next
<1> QED BY <1>1, <1>2, <1>3, <1>4, <1>5, <1>6, <1>7 DEF Next

(* A program gets, port by port, what HyIoSpace promises: the bytes of an  *)
(* IDENTIFY in order and each once, whatever it does at other ports and    *)
(* with other drives in between, until it reads that drive past its end.   *)
THEOREM IobusImplementsIoSpace == Spec => ImplementsIoSpace
<1>1. TypeOK /\ TypeOK' /\ DrivesReady /\ [Next]_vars => [Space!Next]_(Space!vars)
    BY RefinesNext
<1> QED BY <1>1, RefinesInit, IobusTypeCorrect, DrivesReadyHolds, PTL
    DEF Spec, ImplementsIoSpace, Space!Spec
=============================================================================
