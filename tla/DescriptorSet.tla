---------------------------- MODULE DescriptorSet ----------------------------
(***************************************************************************)
(* What a host reads over the control endpoint: the descriptor sets for      *)
(* Windows (microsoft_wcid: WindowsRequestHandler, GetDescriptorSetHandler)  *)
(* and the serial number as a string descriptor (usb_serialnumber.py).       *)
(*                                                                         *)
(* The answer goes out in packets, each asked for by the host and            *)
(* acknowledged by it.  A packet or an acknowledgement may be lost, and the   *)
(* host asks again; it knows by the packet's id whether it has it already.   *)
(***************************************************************************)
EXTENDS Integers, Sequences, SequencesExt

CONSTANTS
  MaxPacketSize,
  PositionLimit,        \* what startPosition can hold (2^11)
  ElementSize,          \* of the ROM, in bytes (4)
  Sets,                 \* the descriptor sets, of vendor codes 1, 2, ...
  Serial,               \* the nibbles of the serial number, the highest first
  Lengths,              \* what hosts ask for at most
  MaxReads, MaxLosses        \* bounds

\* An answer that fills its last packet would need an empty one behind it, which neither
\* handler sends.
ASSUME SizesAssumption ==
  /\ 2 + 2 * Len(Serial) < MaxPacketSize
  /\ \A c \in DOMAIN Sets : Len(Sets[c]) % MaxPacketSize # 0

VARIABLES
  readSetup, readStage, got, expected,  \* the host: its request, what it has, the id it waits for
  readFsm, startPosition, tx_data_pid, expectingAck,    \* WindowsRequestHandler
  serial,                       \* the state of USBSerialNumberHandler
  flight,                       \* the packet on its way to the host
  reads, losses

deviceVars == <<readFsm, startPosition, tx_data_pid, expectingAck, serial>>
descriptorVars == <<readSetup, readStage, got, expected, deviceVars, flight, reads, losses>>

DescriptorRequests ==
  [kind : {"set", "serial"}, code : 1 .. Len(Sets) + 1, value : 0 .. 1, length : Lengths]

NoPacket == [pid |-> 0, data |-> << >>]

DescriptorInit ==
  /\ readSetup = [kind |-> "other", code |-> 1, value |-> 0, length |-> 0] /\ readStage = "done"
  /\ got = << >> /\ expected = 1
  /\ readFsm = "IDLE" /\ startPosition = 0 /\ tx_data_pid = 1 /\ expectingAck = FALSE
  /\ serial = "IDLE"
  /\ flight = NoPacket /\ reads = 0 /\ losses = 0

-----------------------------------------------------------------------------
(* The ROM: of each set its length and address, then the sets, padded.      *)

Aligned(n) == ((n + ElementSize - 1) \div ElementSize) * ElementSize
Padded(d) == d \o [i \in 1 .. Aligned(Len(d)) - Len(d) |-> 0]

\* Where the set of a code begins, behind the table and the sets before it.
RomAddress(code) ==
  Len(Sets) * ElementSize
    + FoldLeft(LAMBDA n, d : n + Aligned(Len(d)), 0, SubSeq(Sets, 1, code - 1))

rom == [i \in 1 .. Len(Sets) * ElementSize |-> 0] \o FlattenSeq([c \in DOMAIN Sets |-> Padded(Sets[c])])

\* The last byte of a packet: of the set, or as much as a packet or the host takes.
onLastPacket(position, sentBytes, code, length) ==
  position = Len(Sets[code]) - 1 \/ sentBytes + 1 >= length

\* The bytes of a packet, read from the ROM.
DescriptorPacket(code, start, wanted) ==
  LET length == IF wanted - start \in 1 .. MaxPacketSize THEN wanted - start ELSE MaxPacketSize
      count == CHOOSE n \in 1 .. MaxPacketSize :
                 /\ onLastPacket(start + n - 1, n - 1, code, length)
                 /\ \A k \in 1 .. n - 1 : ~onLastPacket(start + k - 1, k - 1, code, length)
  IN  [k \in 1 .. count |-> rom[((RomAddress(code) + start + k - 1) % Len(rom)) + 1]]

\* Mutant of Nibble: the lowest nibble comes first.
NibbleSwapped(position) == Serial[Len(Serial) - (position - 2) \div 2]

\* nibble_sel counts from the lowest nibble.
Nibble(position) ==
  LET sel == (2 + 2 * Len(Serial) - 1 - position) \div 2 IN Serial[Len(Serial) - sel]

\* The string descriptor: its length and type, and a character of two bytes a nibble.
SerialPacket(wanted) ==
  LET size == 2 + 2 * Len(Serial)
      byte(position) == CASE position = 0 -> size [] position = 1 -> 3
                          [] position % 2 = 0 -> Nibble(position) [] OTHER -> 0
  IN  [i \in 1 .. IF wanted < size THEN wanted ELSE size |-> byte(i - 1)]

-----------------------------------------------------------------------------
\* A request.  A handler looks at those that are for it only.
DescriptorSetup(s) ==
  /\ readStage = "done" /\ reads < MaxReads /\ reads' = reads + 1
  /\ readSetup' = s /\ readStage' = "data" /\ got' = << >> /\ expected' = 1
  /\ IF s.kind = "serial"
     THEN serial' = "GET_DESCRIPTOR" /\ UNCHANGED <<readFsm, startPosition, tx_data_pid>>
     ELSE /\ readFsm' = IF s.value = 0 THEN "GET_DESCRIPTOR_SET" ELSE "UNHANDLED"
          /\ startPosition' = 0 /\ tx_data_pid' = 1 /\ UNCHANGED serial
  /\ UNCHANGED <<expectingAck, flight, losses>>

\* The host has all it can get: as much as it asked for, or a packet that is not full.
Enough == Len(got) >= readSetup.length \/ (got # << >> /\ Len(got) % MaxPacketSize # 0)

\* The host asks for a packet: of the set or the serial number, or a refusal.
DescriptorRequested ==
  /\ readStage = "data" /\ flight = NoPacket /\ ~Enough
  /\ IF readSetup.kind = "serial"
     THEN flight' = [pid |-> 1, data |-> SerialPacket(readSetup.length)] /\ UNCHANGED <<readStage, readFsm, expectingAck>>
     ELSE IF readFsm = "GET_DESCRIPTOR_SET" /\ readSetup.code <= Len(Sets)
     THEN /\ flight' = [pid |-> tx_data_pid, data |-> DescriptorPacket(readSetup.code, startPosition, readSetup.length)]
          /\ expectingAck' = TRUE /\ UNCHANGED <<readStage, readFsm>>
     ELSE /\ readFsm' = "IDLE" /\ readStage' = "stalled"
          /\ expectingAck' = (expectingAck \/ readFsm = "GET_DESCRIPTOR_SET") /\ UNCHANGED flight
  /\ UNCHANGED <<readSetup, got, expected, startPosition, tx_data_pid, serial, reads, losses>>

Toggled == 1 - tx_data_pid

\* The host takes a packet that it has not, and acknowledges it in any case; the
\* acknowledgement moves the handler on.  The packet or the acknowledgement may be lost.
Deliver ==
  /\ flight # NoPacket /\ flight' = NoPacket
  /\ \E data, ack \in BOOLEAN :
       /\ ack => data
       /\ IF ack THEN UNCHANGED losses ELSE losses < MaxLosses /\ losses' = losses + 1
       /\ IF data /\ flight.pid = expected
          THEN got' = got \o flight.data /\ expected' = 1 - expected
          ELSE UNCHANGED <<got, expected>>
       /\ IF ack /\ expectingAck /\ readFsm = "GET_DESCRIPTOR_SET"
          THEN /\ startPosition' = (startPosition + MaxPacketSize) % PositionLimit
               /\ tx_data_pid' = Toggled /\ expectingAck' = FALSE
          ELSE UNCHANGED <<startPosition, tx_data_pid, expectingAck>>
  /\ UNCHANGED <<readSetup, readStage, readFsm, serial, reads>>

\* The host ends a request that was answered, and the handler acknowledges that.
DescriptorStatus ==
  /\ \/ readStage = "data" /\ flight = NoPacket /\ Enough
     \/ readStage = "stalled"
  /\ readStage' = "done"
  /\ IF readStage = "stalled" THEN UNCHANGED <<readFsm, serial>>
     ELSE IF readSetup.kind = "serial" THEN serial' = "IDLE" /\ UNCHANGED readFsm
     ELSE readFsm' = "IDLE" /\ UNCHANGED serial
  /\ UNCHANGED <<readSetup, got, expected, startPosition, tx_data_pid, expectingAck, flight, reads, losses>>

DescriptorNext == (\E s \in DescriptorRequests : DescriptorSetup(s)) \/ DescriptorRequested \/ Deliver \/ DescriptorStatus

DescriptorSpec == DescriptorInit /\ [][DescriptorNext]_descriptorVars

\* The host goes on with its request, and not everything is lost.
DescriptorFairSpec ==
  /\ DescriptorSpec
  /\ WF_descriptorVars(DescriptorRequested)
  /\ WF_descriptorVars(Deliver)
  /\ WF_descriptorVars(DescriptorStatus)

-----------------------------------------------------------------------------
SerialString == <<2 + 2 * Len(Serial), 3>> \o FlattenSeq([i \in DOMAIN Serial |-> <<Serial[i], 0>>])

Content == IF readSetup.kind = "serial" THEN SerialString ELSE Sets[readSetup.code]

\* What the host has at the end is the beginning of what it asked for, as much of it as
\* it wanted, each byte once and in its place, whatever was lost and sent again.
DescriptorRight ==
  readStage = "done" /\ got # << >> =>
    got = SubSeq(Content, 1, IF readSetup.length < Len(Content) THEN readSetup.length ELSE Len(Content))
=============================================================================
