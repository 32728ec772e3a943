------------------------------- MODULE DfuFlash -------------------------------
(***************************************************************************)
(* The firmware update: dfu.py (the requests of a DFU host on the control    *)
(* endpoint), flashwriter.py behind a clock crossing (soc.py), and           *)
(* flash_uid.py, which reads the serial number of the flash over the same    *)
(* SPI port.                                                                 *)
(*                                                                         *)
(* The host downloads images, each to an area of the flash that it chose: a  *)
(* block with each DNLOAD, in packets which the bus may damage, then a       *)
(* DNLOAD without data; it waits for the end of a request before the next,   *)
(* so the handler is in DFU_DNLOAD while the host is in "Data" or "Status".  *)
(* The flash is that of any data sheet: a command ends with its chip select, *)
(* erasing and programming need the write latch and take time, a program     *)
(* stays in its page, and only an erased byte takes a value.                 *)
(***************************************************************************)
EXTENDS Naturals, Sequences, SequencesExt

CONSTANTS
  Areas,            \* where images go, multiples of EraseSize (soc.py)
  Size,             \* of the flash; addresses wrap there
  EraseSize, PageSize,          \* ERASE_SIZE, PROGRAM_SIZE
  BlockSize,        \* wTransferSize of the functional descriptor, and depth of the FIFO
  PacketSize,
  CdcDepth, PhyDepth,
  Images,           \* sequences of bytes, of a block at least
  MaxDownloads, MaxDfuDamage,      \* bounds
  Uid, Dummies,     \* the serial number, and how many bytes come before it
  Old, Erased, Mixed  \* what a cell holds at first, when erased, when programmed twice

VARIABLES
  host, image, area, sent, block, downloads, dfuDamage,       \* the host
  state, addr, last_addr, fifo,                            \* DFUHandler
  cdc,                                                     \* the clock crossing
  writer, erase_done, outstanding,                         \* FlashWriter
  reader, read_cnt, uid,                                   \* FlashUID
  owner, wire, answers,                                    \* the SPI port
  cells, wel, busy, command,                               \* the flash
  wanted                                                   \* history: what the cells should hold

dfuHostVars == <<host, image, area, sent, block, downloads, dfuDamage>>
handlerVars == <<state, addr, last_addr, fifo>>
writerVars == <<writer, erase_done, outstanding>>
readerVars == <<reader, read_cnt, uid>>
spiVars == <<owner, wire, answers>>
flashVars == <<cells, wel, busy, command>>
backVars == <<writerVars, readerVars, spiVars, flashVars>>
dfuVars == <<dfuHostVars, handlerVars, cdc, backVars, wanted>>

Addresses == 0 .. Size - 1
NoCommand == [op |-> "none"]

DfuInit ==
  /\ host = "Choose" /\ image = << >> /\ area = 0 /\ sent = 0 /\ block = 0
  /\ downloads = 0 /\ dfuDamage = 0
  /\ state = 2 /\ addr = 0 /\ last_addr = 0 /\ fifo = << >>
  /\ cdc = << >>
  /\ writer = "IDLE" /\ erase_done = FALSE /\ outstanding = 0
  /\ reader = "WRITE" /\ read_cnt = Len(Uid) + Dummies /\ uid = << >>
  /\ owner = "none" /\ wire = << >> /\ answers = << >>
  /\ cells = [a \in Addresses |-> Old] /\ wel = FALSE /\ busy = FALSE /\ command = NoCommand
  /\ wanted = cells

-----------------------------------------------------------------------------
\* The addresses of n bytes from a, and the blocks that are erased for them.
Span(a, n) == a .. a + n - 1
EraseBlock(a) == Span((a \div EraseSize) * EraseSize, EraseSize)

\* SET_INTERFACE: the area is that of the alternate setting.
Choose ==
  /\ host = "Choose" /\ downloads < MaxDownloads
  /\ \E i \in Images, a \in Areas :
       /\ image' = i /\ area' = a
       /\ wanted' = [c \in Addresses |->
            IF c \in Span(a, Len(i)) THEN i[c - a + 1]
            ELSE IF \E x \in Span(a, Len(i)) : c \in EraseBlock(x) THEN Erased ELSE wanted[c]]
  /\ host' = "Setup" /\ sent' = 0 /\ downloads' = downloads + 1
  /\ UNCHANGED <<block, dfuDamage, handlerVars, cdc, backVars>>

\* The address of the last byte of a block.
LastAddr(a, length) == (a + length + Size - 1) % Size

\* A new DNLOAD cycle starts at the area.  (The last address of its first block is
\* still made from the address before.)
FirstAddr == IF state = 2 THEN area ELSE addr

\* new_request of a DNLOAD: one without data ends the download.
Dnload ==
  /\ host = "Setup"
  /\ LET length == IF BlockSize < Len(image) - sent THEN BlockSize ELSE Len(image) - sent
     IN  /\ block' = length
         /\ state' = IF length > 0 THEN 5 ELSE 2
         /\ last_addr' = LastAddr(addr, length)
         /\ addr' = FirstAddr
         /\ host' = IF length > 0 THEN "Data" ELSE "Status"
  /\ UNCHANGED <<image, area, sent, downloads, dfuDamage, fifo, cdc, backVars, wanted>>

PacketBytes == SubSeq(image, sent + 1, sent + IF PacketSize < block THEN PacketSize ELSE block)

\* Bytes go into the FIFO as they come; those that find no room are dropped.
Written(bytes) ==
  LET room == BlockSize - Len(fifo)
  IN  fifo \o SubSeq(bytes, 1, IF Len(bytes) < room THEN Len(bytes) ELSE room)

\* Mutant of Discarded: the bytes of a damaged packet stay.
DiscardedNot(bytes) == Written(bytes)

\* write_discard: what a damaged packet brought is forgotten.
Discarded(bytes) == fifo

\* A packet that arrives whole is acknowledged, and what it brought is committed.
DfuPacket ==
  /\ host = "Data"
  /\ fifo' = Written(PacketBytes)
  /\ sent' = sent + Len(PacketBytes) /\ block' = block - Len(PacketBytes)
  /\ host' = IF block' = 0 THEN "Status" ELSE "Data"
  /\ UNCHANGED <<image, area, downloads, dfuDamage, state, addr, last_addr, cdc, backVars, wanted>>

\* A damaged packet is not answered, and the host sends it again.
DamagedPacket ==
  /\ host = "Data" /\ dfuDamage < MaxDfuDamage
  /\ dfuDamage' = dfuDamage + 1 /\ fifo' = Discarded(PacketBytes)
  /\ UNCHANGED <<host, image, area, sent, block, downloads, state, addr, last_addr, cdc, backVars, wanted>>

\* The status of a DNLOAD is refused (NAK) until the FIFO is empty; GETSTATUS, which
\* the host asks then, is answered at any time.
DfuStatus ==
  /\ host = "Status" /\ fifo = << >>
  /\ host' = IF state = 2 THEN "Choose" ELSE "Setup"
  /\ UNCHANGED <<image, area, sent, block, downloads, dfuDamage, handlerVars, cdc, backVars, wanted>>

\* The source drives its bytes while the handler is in DFU_DNLOAD only.
Drain ==
  /\ host \in {"Data", "Status"} /\ fifo # << >> /\ Len(cdc) < CdcDepth
  /\ fifo' = Tail(fifo) /\ addr' = (addr + 1) % Size
  /\ cdc' = Append(cdc, [addr |-> addr, data |-> Head(fifo), last |-> addr = last_addr])
  /\ UNCHANGED <<dfuHostVars, state, last_addr, backVars, wanted>>

-----------------------------------------------------------------------------
(* The flash and the SPI port, of LiteSPI: a user who asks for the port has it until *)
(* it asks no more, and gets one answer for each transfer.                          *)

Grant ==
  /\ owner = "none"
  /\ \/ writer # "IDLE" /\ owner' = "writer"
     \/ reader # "DONE" /\ owner' = "reader"
  /\ UNCHANGED <<dfuHostVars, handlerVars, cdc, writerVars, readerVars, wire, answers, flashVars, wanted>>

\* A transfer goes over the wire: the first since chip select says what the command
\* is, those that follow are its data.
Shift ==
  /\ wire # << >> /\ wire' = Tail(wire)
  /\ LET first == command.op = "none"
         n == IF first THEN 0 ELSE Len(command.data)
     IN  /\ command' = IF first THEN [op |-> Head(wire).op, addr |-> Head(wire).addr, data |-> << >>]
                       ELSE [command EXCEPT !.data = Append(@, Head(wire).data)]
         /\ answers' = Append(answers,
              CASE first /\ Head(wire).op = "STATUS" -> IF busy THEN 1 ELSE 0
                [] ~first /\ command.op = "UID" /\ n >= Dummies -> Uid[n - Dummies + 1]
                [] OTHER -> 0)
  /\ UNCHANGED <<dfuHostVars, handlerVars, cdc, writerVars, readerVars, owner, cells, wel, busy, wanted>>

\* The value of a cell in which b is programmed.
Programmed(c, b) == IF c = Erased THEN b ELSE IF c = b THEN c ELSE Mixed

\* Chip select rises: the command is executed, or ignored by a busy flash.
Deselect ==
  LET c == command
      starts == ~busy /\ wel /\ (c.op = "ERASE" \/ (c.op = "PROGRAM" /\ c.data # << >>))
      page == (c.addr \div PageSize) * PageSize
  IN  /\ command' = NoCommand
      /\ wel' = IF starts THEN FALSE ELSE wel \/ (c.op = "WREN" /\ ~busy)
      /\ busy' = (busy \/ starts)
      /\ cells' =
           IF starts /\ c.op = "ERASE"
           THEN [a \in Addresses |-> IF a \in EraseBlock(c.addr) THEN Erased ELSE cells[a]]
           ELSE IF starts
           THEN FoldLeft(LAMBDA m, i :
                  LET a == page + ((c.addr - page + i - 1) % PageSize)
                  IN  [m EXCEPT ![a] = Programmed(@, c.data[i])],
                  cells, [i \in 1 .. Len(c.data) |-> i])
           ELSE cells

\* Erasing or programming takes its time.
FlashReady ==
  /\ busy /\ busy' = FALSE
  /\ UNCHANGED <<dfuHostVars, handlerVars, cdc, writerVars, readerVars, spiVars, cells, wel, command, wanted>>

-----------------------------------------------------------------------------
(* FlashWriter *)

\* A transfer is given to the port.
Send(op, a, data) ==
  /\ owner = "writer" /\ Len(wire) + Len(answers) < PhyDepth
  /\ wire' = Append(wire, [op |-> op, addr |-> a, data |-> data])

sink == Head(cdc)

WriterStart ==
  /\ writer = "IDLE" /\ cdc # << >>
  /\ writer' = "WREN"
  /\ UNCHANGED <<dfuHostVars, handlerVars, cdc, erase_done, outstanding, readerVars, spiVars, flashVars, wanted>>

\* The states that give a command to the port, and those that wait for its answer.
Commands ==
  [WREN |-> "WREN_WAIT", ERASE |-> "ERASE_WAIT", READ_STATUS |-> "READ_STATUS_WAIT", PROGRAM |-> "PROGRAM_DATA"]

WriterCommand ==
  /\ writer \in DOMAIN Commands
  /\ Send(IF writer = "READ_STATUS" THEN "STATUS" ELSE writer, IF cdc = << >> THEN 0 ELSE sink.addr, 0)
  /\ writer' = Commands[writer]
  /\ outstanding' = IF writer = "PROGRAM" THEN 1 ELSE outstanding
  /\ UNCHANGED <<dfuHostVars, handlerVars, cdc, erase_done, readerVars, owner, answers, flashVars, wanted>>

\* An erase is done before the first program of its block, and once.
EraseDone(erases) == erases

\* The latch is set: erase at the start of a block, else program.
WriterLatched ==
  /\ writer = "WREN_WAIT" /\ owner = "writer" /\ answers # << >>
  /\ LET erases == sink.addr % EraseSize = 0 /\ ~erase_done
     IN  writer' = (IF erases THEN "ERASE" ELSE "PROGRAM") /\ erase_done' = EraseDone(erases)
  /\ answers' = Tail(answers) /\ Deselect
  /\ UNCHANGED <<dfuHostVars, handlerVars, cdc, outstanding, readerVars, owner, wire, wanted>>

WriterErased ==
  /\ writer = "ERASE_WAIT" /\ owner = "writer" /\ answers # << >>
  /\ writer' = "READ_STATUS" /\ answers' = Tail(answers) /\ Deselect
  /\ UNCHANGED <<dfuHostVars, handlerVars, cdc, erase_done, outstanding, readerVars, owner, wire, wanted>>

\* The status is read until the flash is ready.
Waits == Head(answers) = 1

WriterStatus ==
  /\ writer = "READ_STATUS_WAIT" /\ owner = "writer" /\ answers # << >>
  /\ writer' = IF Waits THEN "READ_STATUS" ELSE IF cdc # << >> THEN "WREN" ELSE "IDLE"
  /\ owner' = IF writer' = "IDLE" THEN "none" ELSE owner
  /\ answers' = Tail(answers) /\ Deselect
  /\ UNCHANGED <<dfuHostVars, handlerVars, cdc, erase_done, outstanding, readerVars, wire, wanted>>

\* A program ends with its page, or with the block of the host.
PageEnds == sink.last \/ sink.addr % PageSize = PageSize - 1

WriterData ==
  /\ writer = "PROGRAM_DATA" /\ cdc # << >>
  /\ Send("DATA", 0, sink.data) /\ cdc' = Tail(cdc)
  /\ outstanding' = outstanding + 1
  /\ writer' = IF PageEnds THEN "PROGRAM_WAIT" ELSE writer
  /\ UNCHANGED <<dfuHostVars, handlerVars, erase_done, readerVars, owner, answers, flashVars, wanted>>

\* The answers to a program are counted, and nothing else of them is looked at.
WriterAnswer ==
  /\ writer \in {"PROGRAM_DATA", "PROGRAM_WAIT"} /\ owner = "writer" /\ answers # << >>
  /\ answers' = Tail(answers) /\ outstanding' = outstanding - 1
  /\ UNCHANGED <<dfuHostVars, handlerVars, cdc, writer, erase_done, readerVars, owner, wire, flashVars, wanted>>

WriterProgrammed ==
  /\ writer = "PROGRAM_WAIT" /\ outstanding = 0
  /\ writer' = "READ_STATUS" /\ Deselect
  /\ UNCHANGED <<dfuHostVars, handlerVars, cdc, erase_done, outstanding, readerVars, spiVars, wanted>>

-----------------------------------------------------------------------------
(* FlashUID *)

\* The command, and then as many bytes again as the answer has.
ReaderWrite ==
  /\ reader = "WRITE" /\ owner = "reader" /\ wire = << >>
  /\ wire' = <<[op |-> "UID", addr |-> 0, data |-> 0]>> /\ reader' = "READ"
  /\ UNCHANGED <<dfuHostVars, handlerVars, cdc, writerVars, read_cnt, uid, owner, answers, flashVars, wanted>>

MoreToRead == read_cnt > 0

\* The last bytes that were read are kept.
ReaderRead ==
  /\ reader = "READ" /\ answers # << >>
  /\ answers' = Tail(answers)
  /\ LET all == Append(uid, Head(answers))
     IN  uid' = IF Len(all) > Len(Uid) THEN Tail(all) ELSE all
  /\ IF MoreToRead
     THEN reader' = "WRITE" /\ read_cnt' = read_cnt - 1 /\ UNCHANGED <<owner, flashVars>>
     ELSE reader' = "DONE" /\ owner' = "none" /\ Deselect /\ UNCHANGED read_cnt
  /\ UNCHANGED <<dfuHostVars, handlerVars, cdc, writerVars, wire, wanted>>

Host == Dnload \/ DfuPacket \/ DfuStatus
Device ==
  \/ Drain \/ Grant \/ Shift \/ FlashReady
  \/ WriterStart \/ WriterCommand \/ WriterLatched \/ WriterErased \/ WriterStatus
  \/ WriterData \/ WriterAnswer \/ WriterProgrammed
  \/ ReaderWrite \/ ReaderRead

DfuNext == Choose \/ DamagedPacket \/ Host \/ Device

DfuSpec == DfuInit /\ [][DfuNext]_dfuVars

\* The host ends what it began, and everything in the device runs.
DfuFairSpec ==
  /\ DfuSpec /\ WF_dfuVars(Host) /\ WF_dfuVars(Drain) /\ WF_dfuVars(Grant) /\ WF_dfuVars(Shift)
  /\ WF_dfuVars(FlashReady)
  /\ WF_dfuVars(WriterStart \/ WriterCommand \/ WriterLatched \/ WriterErased \/ WriterStatus
             \/ WriterData \/ WriterAnswer \/ WriterProgrammed)
  /\ WF_dfuVars(ReaderWrite \/ ReaderRead)

-----------------------------------------------------------------------------
\* Nothing of a download is under way, in the device or in the flash.
Settled == host = "Choose" /\ cdc = << >> /\ writer = "IDLE" /\ ~busy

\* When all has settled the flash holds the images, what was erased for them and what
\* it held before, whatever packets were damaged and wherever blocks, pages and erase
\* blocks end; and what the reader shows as the serial number is that.
FlashRight ==
  /\ Settled => cells = wanted
  /\ reader = "DONE" => uid = Uid
=============================================================================
