----------------------------- MODULE IdeDevice -----------------------------
(***************************************************************************)
(* NEMU's IDE disk (nemu/src/device/dev/ide.c) seen from its ports: the    *)
(* sector registers (ports 3 to 6), the command/status port (7) and the    *)
(* data port (0).  An access to a port is one instruction of the kernel,   *)
(* so each handler branch is one atomic operation here.                    *)
(*                                                                         *)
(* The image behind the disk is a file opened with mode "rb": reads return *)
(* its words, the fwrite of a data-port write fails and leaves both the    *)
(* file and the file position as they are.                                 *)
(***************************************************************************)
EXTENDS I8259

CONSTANTS
  NrSectors,   \* sectors of the disk image
  NrWords,     \* 4-byte words of a sector (128 in the code)
  PortBase     \* the values of a port's byte (256 in the code)

ASSUME DiskAssumption ==
  /\ NrSectors \in Nat \ {0} /\ NrWords \in Nat \ {0}
  /\ PortBase \in Nat \ {0}

VARIABLES
  status,      \* what port 7 holds: READY, or the write command
  sectorPorts, \* what ports 3 to 6 hold: a byte each of a sector number
  ide_write,   \* the last command was a write
  file_pos,    \* position in the image, in words
  byte_cnt,    \* words moved since the last command
  abort        \* an assertion of the handler has failed: NEMU is gone

device == <<status, sectorPorts, ide_write, file_pos, byte_cnt, abort>>

Sectors == 0 .. NrSectors - 1
Words   == 0 .. NrWords - 1

READY       == 64  \* 0x40
CMD_WRITE   == 48  \* 0x30

(* Each word of the image is identified by its position.                   *)
DiskWord(s, w) == s * NrWords + w

(* The ports that ide_prepare writes, and those of the sector number.      *)
Ports       == 1 .. 6
SectorPorts == 3 .. 6

(* The byte of a sector number that goes to a port, the lowest to port 3.  *)
(* (Sectors fit in 29 bits: what is masked off port 6 is not theirs.)      *)
PortByte(s, port) ==
  LET high == s \div PortBase
      top2 == high \div PortBase
  IN CASE port = 3 -> s % PortBase
       [] port = 4 -> high % PortBase
       [] port = 5 -> top2 % PortBase
       [] port = 6 -> top2 \div PortBase

(* The sector that a command is about.                                     *)
sector == sectorPorts[3] + PortBase * (sectorPorts[4] + PortBase *
            (sectorPorts[5] + PortBase * sectorPorts[6]))

DeviceInit ==
  /\ status = READY
  /\ sectorPorts = [port \in SectorPorts |-> 0]
  /\ ide_write = FALSE
  /\ file_pos = 0
  /\ byte_cnt = 0
  /\ abort = FALSE

(* The driver's waitdisk sees (status & 0xC0) = 0x40.                      *)
DeviceReady == status = READY

(* out_byte on one of the ports before the command's.                      *)
OutPort(port, s) ==
  /\ sectorPorts' = [p \in SectorPorts |->
                       IF p = port THEN PortByte(s, p) ELSE sectorPorts[p]]
  /\ UNCHANGED <<status, ide_write, file_pos, byte_cnt, abort>>

(* Mutant of OutReadCommand: the count of the last transfer is kept.       *)
OutReadCommand_KeepsCount ==
  /\ file_pos' = DiskWord(sector, 0)
  /\ ide_write' = FALSE
  /\ status' = READY
  /\ UNCHANGED <<sectorPorts, byte_cnt, abort>>

(* Command 0x20.  The caller also raises IDE_IRQ, in the same instruction. *)
OutReadCommand ==
  /\ file_pos' = DiskWord(sector, 0)
  /\ byte_cnt' = 0
  /\ ide_write' = FALSE
  /\ status' = READY
  /\ UNCHANGED <<sectorPorts, abort>>

(* Command 0x30: the status port keeps the command byte until a whole      *)
(* sector has been written.                                                *)
OutWriteCommand ==
  /\ file_pos' = DiskWord(sector, 0)
  /\ byte_cnt' = 0
  /\ ide_write' = TRUE
  /\ status' = CMD_WRITE
  /\ UNCHANGED <<sectorPorts, abort>>

(* The assertions that guard the data port: byte_cnt <= 512, and the       *)
(* direction of the access is that of the last command.                    *)
DataPortAsserts(writing) == byte_cnt <= NrWords /\ ide_write = writing

(* Mutant of FinishWord: the disk waits for one word too many.             *)
FinishWord_OneMore ==
  /\ byte_cnt' = byte_cnt + 1
  /\ status' = IF byte_cnt = NrWords THEN READY ELSE status

FinishWord ==
  /\ byte_cnt' = byte_cnt + 1
  /\ status' = IF byte_cnt + 1 = NrWords THEN READY ELSE status

(* in_long on the data port yields the word at file_pos.                   *)
InWord ==
  /\ FinishWord
  /\ file_pos' = file_pos + 1
  /\ UNCHANGED <<sectorPorts, ide_write, abort>>

(* out_long on the data port.                                              *)
OutWord ==
  /\ FinishWord
  /\ UNCHANGED <<sectorPorts, ide_write, file_pos, abort>>

DeviceAbort ==
  /\ abort' = TRUE
  /\ UNCHANGED <<status, sectorPorts, ide_write, file_pos, byte_cnt>>

DeviceTypeOK ==
  /\ status \in {READY, CMD_WRITE}
  /\ sectorPorts \in [SectorPorts -> Sectors]
  /\ ide_write \in BOOLEAN
  /\ file_pos \in 0 .. NrSectors * NrWords
  /\ byte_cnt \in 0 .. NrWords
  /\ abort \in BOOLEAN
=============================================================================
