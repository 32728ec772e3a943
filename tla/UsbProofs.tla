----------------------------- MODULE UsbProofs -----------------------------
(***************************************************************************)
(* Proofs about what answers the USB host.                                 *)
(*                                                                         *)
(* Memory bridge: what is answered was done, wherever no request was given *)
(* up and no packet cut (MemoryIsRight), for every word size, every set of *)
(* words and cells, any number of requests, of requests given up and of    *)
(* damaged packets, and however far the bus is behind.  The invariant says of *)
(* every cell that no such request is about that the last write to it that is *)
(* still to be done brings what the host wrote last, or, if there is none, *)
(* that the memory holds it; the cell of a write whose word the handler has *)
(* not given to the bus yet is left out.  Writes are counted past the one read *)
(* that may be among them.  A machine that is not idle belongs to the request *)
(* under way or to one that was given up.                                  *)
(*                                                                         *)
(* LEDs: the chain gets its own colours (LedsAreRight), for any number of    *)
(* LEDs, any colours and any times.  The invariant says how long the line    *)
(* has been high or low in each state and for each count of the output, and  *)
(* which bit of the frame that is.                                          *)
(*                                                                         *)
(* Control requests: the trace and power handlers hold the settings whose  *)
(* requests were answered, and the divider makes the length of a bit from  *)
(* the last rate (SettingsAreRight), for any number of digits of any base, *)
(* any limit of the divider and any number of requests, of requests given up *)
(* and of damaged packets; what those may have left otherwise is left out  *)
(* until the next request for it is answered.  Of a request under way the  *)
(* settings are already those that its answer will make true, whatever was *)
(* given up before it; a handler in the state of an earlier one changes only *)
(* what is left out.  While the divider works, its remainder and what it took *)
(* off make the numerator.                                                 *)
(***************************************************************************)
EXTENDS MemBridge, SerialLed, UsbControl, ModFacts

-----------------------------------------------------------------------------
(***************************************************************************)
(* The memory bridge.                                                      *)
(***************************************************************************)
Values == Words \cup {Zero}

\* The bytes that may come, and the words the handler may have of them.
Octets ==
  {w[i] : w \in Words \cup {Zero}, i \in 1 .. WordBytes} \cup UNION {{g[i] : i \in 1 .. Len(g)} : g \in Garbage}
Given == [1 .. WordBytes -> Octets]

\* The bus has the address of a write and not its word; or it has a read to do.
AwaitsWord == write \in {"RECEIVE", "WRITE"}
AwaitsRead == read = "READ" /\ rdata = << >>

\* The request for this machine is under way, as the bridge began with it.
Begun(to) == Unfinished /\ memSetup.to = to

-----------------------------------------------------------------------------
HostOK ==
  /\ memSetup \in [to : {"write", "read", "other"}, addr : Cells \cup {0}, word : Values]
  /\ memSetup.to # "other" => memSetup.addr \in Cells
  /\ memSetup.to = "write" => memSetup.word \in Words
  /\ value \in [Cells -> Values] /\ DOMAIN memory = Cells /\ known \subseteq Cells
  /\ ~doubt => known = Cells

\* Whoever is in ADDR or RECEIVE has the request under way, or one that was given up.
WriteOK ==
  /\ write \in {"IDLE", "ADDR", "RECEIVE", "WRITE"} /\ data \in Given
  /\ write # "IDLE" => awaddr \in Cells
  /\ write \in {"ADDR", "RECEIVE"} => memIdx = 0 /\ (Begun("write") \/ (doubt /\ awaddr \in open))
  /\ Begun("write") => awaddr = memSetup.addr
  /\ write = "WRITE" /\ awaddr \in known => data = value[awaddr]

ReadOK ==
  /\ read \in {"IDLE", "ADDR", "READ", "TRANSMIT"}
  /\ read # "IDLE" => araddr \in Cells /\ (Begun("read") \/ doubt)
  /\ rdata # << >> => read = "READ" /\ rdata = <<rdata[1]>>
  /\ Begun("read") => read # "IDLE" /\ araddr = memSetup.addr
  /\ Begun("read") /\ araddr \in known =>
       /\ rdata # << >> => rdata[1] = value[araddr]
       /\ read = "TRANSMIT" => word = value[araddr]

AnswersOK ==
  /\ ~doubt /\ (Answered("write") \/ Answered("read")) => begun
  /\ Answered("read") /\ begun /\ memSetup.addr \in known => answer = value[memSetup.addr]

\* Where the k-th write is in the queue of the bus, if there is a read in place p of it
\* (none, if p is 0).
At(p, k) == IF p # 0 /\ k >= p THEN k + 1 ELSE k

\* The cell of the k-th write.
Cell(p, k) == bus[At(p, k)][2]

\* What the bus has to do: a write for each of its words, perhaps one more whose word it has
\* not, and perhaps one read, which is the last if its request is under way.
QueueOK(p) ==
  /\ p \in 0 .. Len(bus) /\ (p # 0 <=> AwaitsRead)
  /\ Len(bus) = Len(wdata) + (IF AwaitsWord THEN 1 ELSE 0) + (IF AwaitsRead THEN 1 ELSE 0)
  /\ \A k \in 1 .. Len(wdata) : bus[At(p, k)][1] = "write"
  /\ AwaitsWord => bus[At(p, Len(wdata) + 1)] = <<"write", awaddr>>
  /\ AwaitsRead => bus[p] = <<"read", araddr>>
  /\ AwaitsRead /\ Begun("read") => p = Len(bus)

\* The write to this cell is the one whose word the bus has not.
Awaited(a) == AwaitsWord /\ a = awaddr

CellsOK(p) ==
  \A a \in known :
    ~Awaited(a) /\ (\A k \in 1 .. Len(wdata) : Cell(p, k) # a) => memory[a] = value[a]

WordsOK(p) ==
  \A k \in 1 .. Len(wdata) :
    /\ Cell(p, k) \in known /\ ~Awaited(Cell(p, k))
    /\ \A j \in k + 1 .. Len(wdata) : Cell(p, j) # Cell(p, k)
    => wdata[k] = value[Cell(p, k)]

BusOK(p) == QueueOK(p) /\ CellsOK(p) /\ WordsOK(p)

MemInv ==
  /\ HostOK /\ WriteOK /\ ReadOK /\ AnswersOK
  /\ bus \in Seq({"write", "read"} \X Cells) /\ wdata \in Seq(Given)
  /\ \E p \in Nat : BusOK(p)
-----------------------------------------------------------------------------
LEMMA MemStarts == MemInit => MemInv
<1> SUFFICES ASSUME MemInit PROVE MemInv
  OBVIOUS
<1>1. /\ memSetup = [to |-> "other", addr |-> 0, word |-> Zero] /\ memStage = "done"
      /\ write = "IDLE" /\ read = "IDLE" /\ bus = << >> /\ wdata = << >> /\ rdata = << >>
      /\ memory = [a \in Cells |-> Zero] /\ value = memory /\ known = Cells /\ data = Zero
      /\ ~doubt /\ ~begun
  BY DEF MemInit
<1>2. Zero \in Given
  <2>1. \A i \in 1 .. WordBytes : Zero[i] \in Octets
    BY DEF Octets
  <2> QED
    BY <2>1 DEF Given, Zero
<1>3. HostOK
  BY <1>1 DEF HostOK, Values
<1>4. WriteOK /\ ReadOK /\ AnswersOK
  BY <1>1, <1>2 DEF WriteOK, ReadOK, AnswersOK, Begun, Unfinished, Answered
<1>5. Len(wdata) = 0 /\ Len(bus) = 0 /\ bus \in Seq({"write", "read"} \X Cells) /\ wdata \in Seq(Given)
  BY <1>1
<1>6. ~AwaitsWord /\ ~AwaitsRead
  BY <1>1 DEF AwaitsWord, AwaitsRead
<1>7. QueueOK(0)
  BY <1>5, <1>6 DEF QueueOK
<1>8. CellsOK(0) /\ WordsOK(0)
  BY <1>1, <1>5 DEF CellsOK, WordsOK
<1> QED
  BY <1>3, <1>4, <1>5, <1>7, <1>8 DEF MemInv, BusOK

\* What is in the queue of the bus, write by write.
LEMMA WritesAreIn ==
  ASSUME MemInv, NEW p \in Nat, QueueOK(p)
  PROVE  /\ Len(bus) \in Nat /\ Len(wdata) \in Nat /\ Len(wdata) <= Len(bus)
         /\ \A i \in 1 .. Len(bus) : bus[i] \in {"write", "read"} \X Cells /\ bus[i][2] \in Cells
         /\ \A k \in 1 .. Len(wdata) : At(p, k) \in 1 .. Len(bus) /\ Cell(p, k) \in Cells
<1>1. bus \in Seq({"write", "read"} \X Cells) /\ wdata \in Seq(Given)
  BY DEF MemInv
<1>2. Len(bus) \in Nat /\ Len(wdata) \in Nat
  BY <1>1
<1>3. Len(wdata) <= Len(bus) /\ (p # 0 => Len(wdata) + 1 <= Len(bus))
  <2> DEFINE w == IF AwaitsWord THEN 1 ELSE 0
             r == IF AwaitsRead THEN 1 ELSE 0
  <2>1. Len(bus) = Len(wdata) + w + r /\ (p # 0 => r = 1) /\ w \in {0, 1} /\ r \in {0, 1}
    BY DEF QueueOK
  <2> HIDE DEF w, r
  <2> QED
    BY <1>2, <2>1
<1>4. \A i \in 1 .. Len(bus) : bus[i] \in {"write", "read"} \X Cells
  BY <1>1
<1>5. \A k \in 1 .. Len(wdata) : At(p, k) \in 1 .. Len(bus)
  BY <1>2, <1>3 DEF At
<1> QED
  BY <1>2, <1>3, <1>4, <1>5 DEF Cell

\* What does not touch the bus leaves it right.
LEMMA BusStays ==
  ASSUME NEW p \in Nat, BusOK(p), UNCHANGED <<bus, wdata, memory>>,
         AwaitsWord' <=> AwaitsWord, AwaitsWord => awaddr' = awaddr,
         AwaitsRead' <=> AwaitsRead, AwaitsRead => araddr' = araddr,
         AwaitsRead /\ Begun("read")' => Begun("read"),
         \A a \in known' : ~Awaited(a) => a \in known /\ value'[a] = value[a]
  PROVE  BusOK(p)'
<1>1. QueueOK(p) /\ CellsOK(p) /\ WordsOK(p)
  BY DEF BusOK
<1>2. QueueOK(p)'
  BY <1>1 DEF QueueOK
<1>3. \A a : Awaited(a)' <=> Awaited(a)
  BY DEF Awaited
<1>4. \A k : Cell(p, k)' = Cell(p, k)
  BY DEF Cell
<1>5. CellsOK(p)'
  <2> SUFFICES ASSUME NEW a \in known', ~Awaited(a)', \A k \in 1 .. Len(wdata) : Cell(p, k)' # a
               PROVE  memory[a] = value'[a]
    BY DEF CellsOK
  <2>1. a \in known /\ value'[a] = value[a] /\ ~Awaited(a)
    BY <1>3
  <2>2. \A k \in 1 .. Len(wdata) : Cell(p, k) # a
    BY <1>4
  <2> QED
    BY <1>1, <2>1, <2>2 DEF CellsOK
<1>6. WordsOK(p)'
  <2> SUFFICES ASSUME NEW k \in 1 .. Len(wdata), Cell(p, k)' \in known', ~Awaited(Cell(p, k))',
                      \A j \in k + 1 .. Len(wdata) : Cell(p, j)' # Cell(p, k)'
               PROVE  wdata[k] = value'[Cell(p, k)']
    BY DEF WordsOK
  <2>1. ~Awaited(Cell(p, k))
    BY <1>4 DEF Awaited
  <2>2. Cell(p, k) \in known /\ value'[Cell(p, k)] = value[Cell(p, k)]
    BY <1>4, <2>1
  <2>3. \A j \in k + 1 .. Len(wdata) : Cell(p, j) # Cell(p, k)
    BY <1>4
  <2> QED
    BY <1>1, <1>4, <2>1, <2>2, <2>3 DEF WordsOK
<1> QED
  BY <1>2, <1>5, <1>6 DEF BusOK

\* The bus takes the address of a write.
LEMMA WriteQueued ==
  ASSUME MemInv, NEW p \in Nat, BusOK(p), write = "ADDR", AwaitsWord',
         bus' = Append(bus, <<"write", awaddr>>), UNCHANGED <<wdata, memory, awaddr, araddr, read, rdata>>,
         value' = value, known' \subseteq known, memSetup.to = "write", memSetup' = memSetup
  PROVE  bus' \in Seq({"write", "read"} \X Cells) /\ BusOK(p)'
<1> DEFINE n == Len(wdata)
<1>1. QueueOK(p) /\ CellsOK(p) /\ WordsOK(p) /\ WriteOK /\ HostOK
  BY DEF BusOK, MemInv
<1>2. /\ n \in Nat /\ Len(bus) \in Nat /\ bus \in Seq({"write", "read"} \X Cells)
      /\ \A k \in 1 .. n : At(p, k) \in 1 .. Len(bus)
  BY <1>1, WritesAreIn DEF MemInv
<1>3. ~AwaitsWord /\ (AwaitsRead' <=> AwaitsRead) /\ ~Begun("read") /\ ~Begun("read")'
  BY DEF AwaitsWord, AwaitsRead, Begun
<1>4. awaddr \in Cells
  BY <1>1 DEF WriteOK
<1>5. /\ bus' \in Seq({"write", "read"} \X Cells) /\ Len(bus') = Len(bus) + 1
      /\ bus'[Len(bus) + 1] = <<"write", awaddr>> /\ \A i \in 1 .. Len(bus) : bus'[i] = bus[i]
  BY <1>2, <1>4
<1>6. At(p, n + 1) = Len(bus) + 1
  BY <1>1, <1>2, <1>3 DEF QueueOK, At
<1>7. QueueOK(p)'
  <2>1. p \in 0 .. Len(bus') /\ (p # 0 <=> AwaitsRead')
    BY <1>1, <1>2, <1>3, <1>5 DEF QueueOK
  <2>2. Len(bus') = Len(wdata') + (IF AwaitsWord' THEN 1 ELSE 0) + (IF AwaitsRead' THEN 1 ELSE 0)
    BY <1>1, <1>2, <1>3, <1>5 DEF QueueOK
  <2>3. \A k \in 1 .. n : bus'[At(p, k)][1] = "write"
    BY <1>1, <1>2, <1>5 DEF QueueOK
  <2>4. AwaitsRead => bus'[p] = <<"read", araddr>>
    BY <1>1, <1>2, <1>5 DEF QueueOK
  <2> QED
    BY <1>3, <1>5, <1>6, <2>1, <2>2, <2>3, <2>4 DEF QueueOK
<1>8. \A k \in 1 .. n : Cell(p, k)' = Cell(p, k)
  BY <1>2, <1>5 DEF Cell
<1>9. \A a : ~Awaited(a)
  BY <1>3 DEF Awaited
<1>10. CellsOK(p)'
  <2> SUFFICES ASSUME NEW a \in known', \A k \in 1 .. n : Cell(p, k)' # a
               PROVE  memory[a] = value[a]
    BY DEF CellsOK
  <2>1. a \in known /\ \A k \in 1 .. n : Cell(p, k) # a
    BY <1>8
  <2> QED
    BY <1>1, <1>9, <2>1 DEF CellsOK
<1>11. WordsOK(p)'
  <2> SUFFICES ASSUME NEW k \in 1 .. n, Cell(p, k)' \in known',
                      \A j \in k + 1 .. n : Cell(p, j)' # Cell(p, k)'
               PROVE  wdata[k] = value[Cell(p, k)']
    BY DEF WordsOK
  <2>1. Cell(p, k)' = Cell(p, k) /\ Cell(p, k) \in known
    BY <1>8
  <2>2. \A j \in k + 1 .. n : j \in 1 .. n /\ Cell(p, j) # Cell(p, k)
    <3> SUFFICES ASSUME NEW j \in k + 1 .. n PROVE j \in 1 .. n /\ Cell(p, j) # Cell(p, k)
      OBVIOUS
    <3>1. j \in 1 .. n
      BY <1>2
    <3> QED
      BY <1>8, <2>1, <3>1
  <2> QED
    BY <1>1, <1>9, <2>1, <2>2 DEF WordsOK
<1> QED
  BY <1>5, <1>7, <1>10, <1>11 DEF BusOK

-----------------------------------------------------------------------------
\* A request comes.
LEMMA SetupKeeps ==
  ASSUME MemInv, NEW s \in MemRequests, MemSetup(s)
  PROVE  MemInv'
<1>1. HostOK /\ WriteOK /\ ReadOK /\ AnswersOK
  BY DEF MemInv
<1>2. /\ memSetup' = s /\ (memStage' = IF s.to = "other" THEN "done" ELSE "data")
      /\ begun' = (Machine(s.to) = "IDLE") /\ doubt' = (doubt \/ Unfinished)
      /\ open' = (IF Unfinished /\ memSetup.to = "write" THEN open \cup {memSetup.addr} ELSE open)
      /\ UNCHANGED <<answer, data, word, bus, wdata, rdata, memory, value, known>>
  BY DEF MemSetup, busVars
<1>3. IF s.to = "write" /\ write = "IDLE" THEN write' = "ADDR" /\ awaddr' = s.addr /\ memIdx' = 0
      ELSE UNCHANGED <<write, awaddr, memIdx>>
  BY DEF MemSetup
<1>4. IF s.to = "read" /\ read = "IDLE" THEN read' = "ADDR" /\ araddr' = s.addr ELSE UNCHANGED <<read, araddr>>
  BY DEF MemSetup
<1>5. /\ s \in [to : {"write", "read", "other"}, addr : Cells \cup {0}, word : Values] /\ s.addr \in Cells
      /\ s.to = "write" => s.word \in Words
  BY DEF MemRequests, Values
<1>6. /\ Begun("write")' <=> s.to = "write" /\ write = "IDLE"
      /\ Begun("read")' <=> s.to = "read" /\ read = "IDLE"
  BY <1>2 DEF Begun, Unfinished, Machine
<1>7. HostOK'
  BY <1>1, <1>2, <1>5 DEF HostOK
<1>8. WriteOK'
  <2>1. CASE s.to = "write" /\ write = "IDLE"
    BY <1>1, <1>2, <1>3, <1>5, <1>6, <2>1 DEF WriteOK
  <2>2. CASE ~(s.to = "write" /\ write = "IDLE")
    <3>1. write' = write /\ awaddr' = awaddr /\ memIdx' = memIdx /\ ~Begun("write")'
      BY <1>3, <1>6, <2>2
    <3>2. ASSUME write \in {"ADDR", "RECEIVE"} PROVE memIdx = 0 /\ doubt' /\ awaddr \in open'
      BY <1>1, <1>2, <3>2 DEF WriteOK, Begun
    <3> QED
      BY <1>1, <1>2, <3>1, <3>2 DEF WriteOK
  <2> QED
    BY <2>1, <2>2
<1>9. ReadOK'
  <2>1. CASE s.to = "read" /\ read = "IDLE"
    BY <1>1, <1>2, <1>4, <1>5, <1>6, <2>1 DEF ReadOK
  <2>2. CASE ~(s.to = "read" /\ read = "IDLE")
    <3>1. read' = read /\ araddr' = araddr /\ ~Begun("read")'
      BY <1>4, <1>6, <2>2
    <3>2. read # "IDLE" => doubt'
      BY <1>1, <1>2 DEF ReadOK, Begun
    <3> QED
      BY <1>1, <1>2, <3>1, <3>2 DEF ReadOK
  <2> QED
    BY <2>1, <2>2
<1>10. AnswersOK'
  BY <1>2 DEF AnswersOK, Answered
<1>11. PICK p \in Nat : BusOK(p)
  BY DEF MemInv
<1>12. /\ AwaitsWord' <=> AwaitsWord
       /\ AwaitsWord => awaddr' = awaddr
       /\ AwaitsRead' <=> AwaitsRead
       /\ AwaitsRead => araddr' = araddr
       /\ AwaitsRead => ~Begun("read")'
  BY <1>2, <1>3, <1>4, <1>6 DEF AwaitsWord, AwaitsRead
<1>13. BusOK(p)'
  BY <1>2, <1>11, <1>12, BusStays
<1> QED
  BY <1>2, <1>7, <1>8, <1>9, <1>10, <1>13 DEF MemInv

\* The bus takes an address.
LEMMA AddressKeeps ==
  ASSUME MemInv, Address
  PROVE  MemInv'
<1>1. HostOK /\ WriteOK /\ ReadOK /\ AnswersOK
  BY DEF MemInv
<1>2. UNCHANGED <<memSetup, memStage, answer, awaddr, data, memIdx, araddr, word, wdata, rdata, memory,
                  begun, value, known, open, doubt>>
  BY DEF Address, hostVars, memPast
<1>3. HostOK' /\ AnswersOK'
  BY <1>1, <1>2 DEF HostOK, AnswersOK, Answered
<1>4. \A to : Begun(to)' <=> Begun(to)
  BY <1>2 DEF Begun, Unfinished
<1>5. PICK p \in Nat : BusOK(p)
  BY DEF MemInv
<1>6. CASE /\ memSetup.to = "write" /\ write = "ADDR" /\ write' = "RECEIVE" /\ read' = read
           /\ bus' = Append(bus, <<"write", awaddr>>)
  <2>1. WriteOK' /\ ReadOK'
    BY <1>1, <1>2, <1>4, <1>6 DEF WriteOK, ReadOK
  <2>2. AwaitsWord'
    BY <1>6 DEF AwaitsWord
  <2>3. bus' \in Seq({"write", "read"} \X Cells) /\ BusOK(p)'
    BY <1>2, <1>5, <1>6, <2>2, WriteQueued
  <2> QED
    BY <1>2, <1>3, <2>1, <2>3 DEF MemInv
<1>7. CASE /\ memSetup.to = "read" /\ read = "ADDR" /\ read' = "READ" /\ write' = write
           /\ bus' = Append(bus, <<"read", araddr>>)
  <2> DEFINE n == Len(wdata)
  <2>1. WriteOK' /\ ReadOK'
    BY <1>1, <1>2, <1>4, <1>7 DEF WriteOK, ReadOK
  <2>2. rdata = << >> /\ araddr \in Cells
    BY <1>1, <1>7 DEF ReadOK
  <2>3. ~AwaitsRead /\ AwaitsRead' /\ (AwaitsWord' <=> AwaitsWord)
    BY <1>2, <1>7, <2>2 DEF AwaitsRead, AwaitsWord
  <2>4. QueueOK(p) /\ CellsOK(p) /\ WordsOK(p) /\ p = 0
    BY <1>5, <2>3 DEF BusOK, QueueOK
  <2>5. /\ n \in Nat /\ Len(bus) \in Nat /\ bus \in Seq({"write", "read"} \X Cells)
        /\ n + (IF AwaitsWord THEN 1 ELSE 0) = Len(bus)
    BY <2>3, <2>4, WritesAreIn DEF MemInv, QueueOK
  <2> PICK q \in Nat : q = Len(bus) + 1
    BY <2>5
  <2>6. /\ bus' \in Seq({"write", "read"} \X Cells) /\ Len(bus') = q
        /\ bus'[q] = <<"read", araddr>> /\ \A i \in 1 .. Len(bus) : bus'[i] = bus[i]
    BY <1>7, <2>2, <2>5
  <2>7. \A k \in 1 .. Len(bus) : At(q, k) = k /\ At(p, k) = k
    BY <2>4, <2>5 DEF At
  <2>8. \A k \in 1 .. n : k \in 1 .. Len(bus)
    BY <2>5
  <2>9. \A k \in 1 .. Len(bus) : bus'[At(q, k)] = bus[At(p, k)]
    BY <2>6, <2>7
  <2>10. QueueOK(q)'
    <3>1. q \in 0 .. Len(bus') /\ q # 0
      BY <2>5, <2>6
    <3>2. Len(bus') = n + (IF AwaitsWord THEN 1 ELSE 0) + 1
      BY <2>5, <2>6
    <3>3. \A k \in 1 .. n : bus'[At(q, k)][1] = "write"
      BY <2>4, <2>8, <2>9 DEF QueueOK
    <3>4. AwaitsWord => bus'[At(q, n + 1)] = <<"write", awaddr>>
      BY <2>4, <2>5, <2>9 DEF QueueOK
    <3>5. wdata' = wdata /\ awaddr' = awaddr /\ araddr' = araddr
      BY <1>2
    <3> QED
      BY <2>3, <2>6, <3>1, <3>2, <3>3, <3>4, <3>5 DEF QueueOK
  <2>11. \A k \in 1 .. n : Cell(q, k)' = Cell(p, k)
    <3> QED
      BY <2>8, <2>9 DEF Cell
  <2>12. \A a : Awaited(a)' <=> Awaited(a)
    BY <1>2, <2>3 DEF Awaited
  <2>13. CellsOK(q)'
    <3> SUFFICES ASSUME NEW a \in known, ~Awaited(a), \A k \in 1 .. n : Cell(q, k)' # a
                 PROVE  memory[a] = value[a]
      BY <1>2, <2>12 DEF CellsOK
    <3>1. \A k \in 1 .. n : Cell(p, k) # a
      BY <2>11
    <3> QED
      BY <2>4, <3>1 DEF CellsOK
  <2>14. WordsOK(q)'
    <3> SUFFICES ASSUME NEW k \in 1 .. n, Cell(q, k)' \in known, ~Awaited(Cell(q, k))',
                        \A j \in k + 1 .. n : Cell(q, j)' # Cell(q, k)'
                 PROVE  wdata[k] = value[Cell(q, k)']
      BY <1>2 DEF WordsOK
    <3>1. Cell(q, k)' = Cell(p, k) /\ Cell(p, k) \in known
      BY <2>11
    <3>2. ~Awaited(Cell(p, k))
      BY <1>2, <2>3, <3>1 DEF Awaited
    <3>3. \A j \in k + 1 .. n : j \in 1 .. n
      BY <2>5
    <3>4. \A j \in k + 1 .. n : Cell(p, j) # Cell(p, k)
      BY <2>11, <3>1, <3>3
    <3> QED
      BY <2>4, <3>1, <3>2, <3>4 DEF WordsOK
  <2> QED
    BY <1>2, <1>3, <2>1, <2>5, <2>6, <2>10, <2>13, <2>14 DEF MemInv, BusOK
<1> QED
  BY <1>6, <1>7 DEF Address

\* What the handler has of a packet is a word.
LEMMA ReceivedIs ==
  ASSUME MemInv, memIdx = 0, NEW bytes, \A i \in 1 .. Len(bytes) : bytes[i] \in Octets
  PROVE  Received(bytes) \in Given
<1>1. data \in Given
  BY DEF MemInv, WriteOK
<1>2. \A i \in 1 .. WordBytes : i - 0 = i /\ i > 0
  BY MemAssumption
<1>3. ASSUME NEW i \in 1 .. WordBytes
      PROVE  (IF i > memIdx /\ i - memIdx <= Len(bytes) THEN bytes[i - memIdx] ELSE data[i]) \in Octets
  <2>1. CASE i > memIdx /\ i - memIdx <= Len(bytes)
    <3>1. i \in 1 .. Len(bytes)
      BY <1>2, <2>1
    <3> QED
      BY <1>2, <2>1, <3>1
  <2>2. CASE ~(i > memIdx /\ i - memIdx <= Len(bytes))
    BY <1>1, <2>2 DEF Given
  <2> QED
    BY <2>1, <2>2
<1> QED
  BY <1>3 DEF Received, Given

LEMMA WordIs ==
  ASSUME NEW w \in Words
  PROVE  w \in Seq(Octets) /\ Len(w) = WordBytes /\ w = [i \in 1 .. WordBytes |-> w[i]]
<1>1. w = [i \in 1 .. WordBytes |-> w[i]] /\ WordBytes \in Nat
  BY MemAssumption
<1>2. \A i \in 1 .. WordBytes : w[i] \in Octets
  BY DEF Octets
<1>3. w \in [1 .. WordBytes -> Octets]
  BY <1>1, <1>2
<1> QED
  BY <1>1, <1>3

\* A packet of data arrives, whole or damaged.
LEMMA PacketKeeps ==
  ASSUME MemInv, MemPacket
  PROVE  MemInv'
<1>1. HostOK /\ WriteOK /\ ReadOK /\ AnswersOK
  BY DEF MemInv
<1>2. /\ memSetup.to = "write" /\ memStage = "data" /\ write = "RECEIVE"
      /\ UNCHANGED <<memSetup, answer, begun, doubt, awaddr, read, araddr, word, bus, wdata, rdata, memory>>
  BY DEF MemPacket, readVars, busVars
<1>3. memIdx = 0 /\ awaddr \in Cells /\ memSetup.addr \in Cells /\ memSetup.word \in Words
  BY <1>1, <1>2 DEF WriteOK, HostOK
<1>4. \A p : ~Begun("read") /\ ~Begun("read")'
  BY <1>2 DEF Begun
<1>5. ReadOK'
  BY <1>1, <1>2, <1>4 DEF ReadOK
<1>6. AwaitsWord /\ (AwaitsRead' <=> AwaitsRead)
  BY <1>2 DEF AwaitsWord, AwaitsRead
<1>7. PICK p \in Nat : BusOK(p)
  BY DEF MemInv
<1>8. bus' \in Seq({"write", "read"} \X Cells) /\ wdata' \in Seq(Given)
  BY <1>2 DEF MemInv
<1>9. CASE /\ Acknowledge /\ data' = Received(memSetup.word)
           /\ value' = IF begun THEN [value EXCEPT ![memSetup.addr] = memSetup.word] ELSE value
           /\ known' = IF begun THEN known \cup {memSetup.addr} ELSE known \ (open \cup {memSetup.addr})
  <2>1. write' = "WRITE" /\ memStage' \in {"status", "unheard"}
    BY <1>9 DEF Acknowledge
  <2>2. ~Begun("write")' /\ (begun <=> Begun("write")) /\ AwaitsWord'
    BY <1>2, <2>1 DEF Begun, Unfinished, AwaitsWord
  <2>3. data' = memSetup.word /\ data' \in Given
    <3>1. Received(memSetup.word) = [i \in 1 .. WordBytes |-> memSetup.word[i]]
      <4>1. \A i \in 1 .. WordBytes : i > 0 /\ i - 0 = i
        BY MemAssumption
      <4> QED
        BY <1>3, <4>1, WordIs DEF Received
    <3>2. \A i \in 1 .. Len(memSetup.word) : memSetup.word[i] \in Octets
      BY <1>3, WordIs
    <3> QED
      BY <1>3, <1>9, <3>1, <3>2, WordIs, ReceivedIs
  <2>4. memSetup.word \in Values
    BY <1>3 DEF Values
  <2>5. CASE begun
    <3>1. awaddr = memSetup.addr
      BY <1>1, <2>2, <2>5 DEF WriteOK
    <3>2. /\ value' \in [Cells -> Values] /\ value'[awaddr] = memSetup.word
          /\ \A a \in Cells : a # awaddr => value'[a] = value[a]
          /\ known' = known \cup {awaddr}
      BY <1>1, <1>3, <1>9, <2>4, <2>5, <3>1 DEF HostOK
    <3>3. HostOK'
      BY <1>1, <1>2, <1>3, <3>2 DEF HostOK
    <3>4. WriteOK'
      BY <1>2, <1>3, <2>1, <2>2, <2>3, <3>2 DEF WriteOK
    <3>5. AnswersOK'
      BY <1>2, <2>5 DEF AnswersOK, Answered
    <3>6. \A a \in known' : ~Awaited(a) => a \in known /\ value'[a] = value[a]
      BY <1>1, <1>6, <3>2 DEF Awaited, HostOK
    <3>7. BusOK(p)'
      BY <1>2, <1>4, <1>6, <1>7, <2>2, <3>6, BusStays
    <3> QED
      BY <1>5, <1>8, <3>3, <3>4, <3>5, <3>7 DEF MemInv
  <2>6. CASE ~begun
    <3>1. doubt /\ awaddr \in open
      BY <1>1, <1>2, <2>2, <2>6 DEF WriteOK
    <3>2. value' = value /\ known' \subseteq known /\ awaddr \notin known'
      BY <1>9, <2>6, <3>1
    <3>3. HostOK'
      BY <1>1, <1>2, <3>1, <3>2 DEF HostOK
    <3>4. WriteOK'
      BY <1>2, <1>3, <2>1, <2>2, <2>3, <3>2 DEF WriteOK
    <3>5. AnswersOK'
      BY <1>2, <2>6, <3>1 DEF AnswersOK, Answered
    <3>6. BusOK(p)'
      BY <1>2, <1>4, <1>6, <1>7, <2>2, <3>2, BusStays
    <3> QED
      BY <1>5, <1>8, <3>3, <3>4, <3>5, <3>6 DEF MemInv
  <2> QED
    BY <2>5, <2>6
<1>10. CASE /\ \E g \in Garbage : data' = Received(g)
            /\ memIdx' = MemDiscarded(WordBytes) /\ UNCHANGED <<write, memStage, value, known, open>>
  <2>1. data' \in Given
    <3> PICK g \in Garbage : data' = Received(g)
      BY <1>10
    <3>1. \A i \in 1 .. Len(g) : g[i] \in Octets
      BY DEF Octets
    <3> QED
      BY <1>3, <3>1, ReceivedIs
  <2>2. \A to : Begun(to)' <=> Begun(to)
    BY <1>2, <1>10 DEF Begun, Unfinished
  <2>3. memIdx' = 0
    BY <1>10 DEF MemDiscarded
  <2>4. HostOK' /\ WriteOK' /\ AnswersOK'
    BY <1>1, <1>2, <1>10, <2>1, <2>2, <2>3 DEF HostOK, WriteOK, AnswersOK, Answered
  <2>5. AwaitsWord'
    BY <1>2, <1>10 DEF AwaitsWord
  <2>6. BusOK(p)'
    BY <1>2, <1>4, <1>6, <1>7, <1>10, <2>5, BusStays
  <2> QED
    BY <1>5, <1>8, <2>4, <2>6 DEF MemInv
<1> QED
  BY <1>9, <1>10 DEF MemPacket

\* The bus takes the address amid a packet.
LEMMA CutKeeps ==
  ASSUME MemInv, CutPacket
  PROVE  MemInv'
<1>1. HostOK /\ WriteOK /\ ReadOK /\ AnswersOK
  BY DEF MemInv
<1>2. /\ memSetup.to = "write" /\ memStage = "data" /\ write = "ADDR" /\ Acknowledge
      /\ bus' = Append(bus, <<"write", awaddr>>)
      /\ known' = known \ (open \cup {memSetup.addr}) /\ doubt' = TRUE
      /\ UNCHANGED <<memSetup, answer, begun, value, awaddr, read, araddr, word, wdata, rdata, memory>>
  BY DEF CutPacket, readVars
<1>3. memIdx = 0 /\ awaddr \in Cells /\ memSetup.word \in Words
  BY <1>1, <1>2 DEF WriteOK, HostOK
<1>4. write' = "WRITE" /\ memStage' \in {"status", "unheard"}
  BY <1>2 DEF Acknowledge
<1>5. data' \in Given
  <2> PICK k \in 1 .. WordBytes : data' = Received(SubSeq(memSetup.word, k + 1, WordBytes))
    BY DEF CutPacket
  <2> DEFINE rest == SubSeq(memSetup.word, k + 1, WordBytes)
  <2>1. memSetup.word \in Seq(Octets) /\ Len(memSetup.word) = WordBytes /\ WordBytes \in Nat
    BY <1>3, WordIs, MemAssumption
  <2>2. rest \in Seq(Octets)
    BY <2>1
  <2>3. \A i \in 1 .. Len(rest) : rest[i] \in Octets
    BY <2>2
  <2> QED
    BY <1>3, <2>3, ReceivedIs
<1>6. awaddr \notin known' /\ known' \subseteq known
  BY <1>1, <1>2 DEF WriteOK
<1>7. ~Begun("write")' /\ ~Begun("read")' /\ ~Begun("read")
  BY <1>2, <1>4 DEF Begun, Unfinished
<1>8. HostOK' /\ WriteOK'
  BY <1>1, <1>2, <1>3, <1>4, <1>5, <1>6, <1>7 DEF HostOK, WriteOK
<1>9. ReadOK' /\ AnswersOK'
  BY <1>1, <1>2, <1>7 DEF ReadOK, AnswersOK, Answered
<1>10. AwaitsWord'
  BY <1>4 DEF AwaitsWord
<1>11. PICK p \in Nat : BusOK(p)
  BY DEF MemInv
<1>12. bus' \in Seq({"write", "read"} \X Cells) /\ BusOK(p)'
  BY <1>2, <1>6, <1>10, <1>11, WriteQueued
<1>13. wdata' \in Seq(Given)
  BY <1>2 DEF MemInv
<1> QED
  BY <1>8, <1>9, <1>12, <1>13 DEF MemInv

\* The handler gives the bus the word of its write.
LEMMA WordGivenKeeps ==
  ASSUME MemInv, memSetup.to = "write", write = "WRITE", write' = "IDLE",
         wdata' = Append(wdata, data),
         UNCHANGED <<memSetup, memStage, answer, awaddr, data, memIdx, read, araddr, word,
                     bus, rdata, memory, begun, value, known, open, doubt>>
  PROVE  MemInv'
<1>1. HostOK /\ WriteOK /\ ReadOK /\ AnswersOK
  BY DEF MemInv
<1>2. \A to : Begun(to)' <=> Begun(to)
  BY DEF Begun, Unfinished
<1>3. HostOK' /\ WriteOK' /\ ReadOK' /\ AnswersOK'
  BY <1>1, <1>2 DEF HostOK, WriteOK, ReadOK, AnswersOK, Answered
<1>4. PICK p \in Nat : BusOK(p)
  BY DEF MemInv
<1>5. QueueOK(p) /\ CellsOK(p) /\ WordsOK(p)
  BY <1>4 DEF BusOK
<1> DEFINE n == Len(wdata)
<1>6. AwaitsWord /\ ~AwaitsWord' /\ (AwaitsRead' <=> AwaitsRead) /\ awaddr \in Cells
  BY <1>1 DEF AwaitsWord, AwaitsRead, WriteOK
<1>7. n \in Nat /\ Len(bus) \in Nat
  BY <1>5, WritesAreIn
<1>8. /\ wdata' \in Seq(Given) /\ Len(wdata') = n + 1 /\ wdata'[n + 1] = data
      /\ \A i \in 1 .. n : wdata'[i] = wdata[i]
  BY <1>1, <1>7 DEF MemInv, WriteOK
<1>9. bus[At(p, n + 1)][1] = "write" /\ Cell(p, n + 1) = awaddr
  <2>1. bus[At(p, n + 1)] = <<"write", awaddr>>
    BY <1>5, <1>6 DEF QueueOK
  <2> QED
    BY <2>1 DEF Cell
<1>10. \A k : Cell(p, k)' = Cell(p, k)
  BY DEF Cell
<1>11. \A a : ~Awaited(a)' /\ (Awaited(a) <=> a = awaddr)
  BY <1>6 DEF Awaited
<1>12. QueueOK(p)'
  <2>1. \A k \in 1 .. n + 1 : bus[At(p, k)][1] = "write"
    <3> SUFFICES ASSUME NEW k \in 1 .. n + 1 PROVE bus[At(p, k)][1] = "write"
      OBVIOUS
    <3>1. k \in 1 .. n \/ k = n + 1
      BY <1>7
    <3> QED
      BY <1>5, <1>9, <3>1 DEF QueueOK
  <2>2. Len(bus) = (n + 1) + (IF AwaitsRead THEN 1 ELSE 0)
    BY <1>5, <1>6, <1>7 DEF QueueOK
  <2> QED
    BY <1>2, <1>5, <1>6, <1>7, <1>8, <2>1, <2>2 DEF QueueOK
<1>13. CellsOK(p)'
  <2> SUFFICES ASSUME NEW c \in known, \A k \in 1 .. n + 1 : Cell(p, k) # c
               PROVE  memory[c] = value[c]
    BY <1>8, <1>10 DEF CellsOK
  <2>1. n + 1 \in 1 .. n + 1 /\ \A k \in 1 .. n : k \in 1 .. n + 1
    BY <1>7
  <2>2. ~Awaited(c) /\ \A k \in 1 .. n : Cell(p, k) # c
    BY <1>9, <1>11, <2>1
  <2> QED
    BY <1>5, <2>2 DEF CellsOK
<1>14. WordsOK(p)'
  <2> SUFFICES ASSUME NEW k \in 1 .. n + 1, Cell(p, k) \in known,
                      \A j \in k + 1 .. n + 1 : Cell(p, j) # Cell(p, k)
               PROVE  wdata'[k] = value[Cell(p, k)]
    BY <1>8, <1>10 DEF WordsOK
  <2>1. CASE k = n + 1
    BY <1>1, <1>8, <1>9, <2>1 DEF WriteOK
  <2>2. CASE k \in 1 .. n
    <3>1. n + 1 \in k + 1 .. n + 1 /\ \A j \in k + 1 .. n : j \in k + 1 .. n + 1
      BY <1>7, <2>2
    <3>2. ~Awaited(Cell(p, k)) /\ \A j \in k + 1 .. n : Cell(p, j) # Cell(p, k)
      BY <1>9, <1>11, <3>1
    <3> QED
      BY <1>5, <1>8, <2>2, <3>2 DEF WordsOK
  <2> QED
    BY <1>7, <2>1, <2>2
<1> QED
  BY <1>3, <1>8, <1>12, <1>13, <1>14 DEF MemInv, BusOK

\* The handler takes the word that the bus has read.
LEMMA WordReadKeeps ==
  ASSUME MemInv, memSetup.to = "read", read = "READ", rdata # << >>, read' = "TRANSMIT",
         word' = Head(rdata), rdata' = Tail(rdata),
         UNCHANGED <<memSetup, memStage, answer, write, awaddr, data, memIdx, araddr,
                     bus, wdata, memory, begun, value, known, open, doubt>>
  PROVE  MemInv'
<1>1. HostOK /\ WriteOK /\ ReadOK /\ AnswersOK
  BY DEF MemInv
<1>2. \A to : Begun(to)' <=> Begun(to)
  BY DEF Begun, Unfinished
<1>3. word' = rdata[1] /\ rdata' = << >>
  <2>1. PICK x : rdata = <<x>>
    BY <1>1 DEF ReadOK
  <2>2. Head(<<x>>) = x /\ Tail(<<x>>) = << >> /\ <<x>>[1] = x
    OBVIOUS
  <2> QED
    BY <2>1, <2>2
<1>4. HostOK' /\ WriteOK' /\ ReadOK' /\ AnswersOK'
  BY <1>1, <1>2, <1>3 DEF HostOK, WriteOK, ReadOK, AnswersOK, Answered
<1>5. PICK p \in Nat : BusOK(p)
  BY DEF MemInv
<1>6. (AwaitsWord' <=> AwaitsWord) /\ ~AwaitsRead /\ ~AwaitsRead'
  BY DEF AwaitsWord, AwaitsRead
<1>7. BusOK(p)'
  BY <1>5, <1>6, BusStays
<1> QED
  BY <1>4, <1>7 DEF MemInv

\* The host takes the word.
LEMMA DataKeeps ==
  ASSUME MemInv, DataRequested
  PROVE  MemInv'
<1>1. HostOK /\ WriteOK /\ ReadOK /\ AnswersOK
  BY DEF MemInv
<1>2. /\ memSetup.to = "read" /\ memStage = "data" /\ read = "TRANSMIT" /\ read' = "IDLE"
      /\ \/ answer' = word /\ memStage' = "status"
         \/ answer' = answer /\ memStage' = "unheard"
      /\ UNCHANGED <<memSetup, write, awaddr, data, memIdx, araddr, word, bus, wdata, rdata, memory,
                     begun, value, known, open, doubt>>
  BY DEF DataRequested, writeVars, busVars, memPast
<1>3. /\ begun <=> Begun("read")
      /\ ~Begun("read")'
      /\ ~Begun("write") /\ ~Begun("write")'
  BY <1>2 DEF Begun, Unfinished
<1>4. rdata = << >> /\ (~doubt => begun)
  BY <1>1, <1>2, <1>3 DEF ReadOK
<1>5. HostOK' /\ WriteOK' /\ ReadOK'
  BY <1>1, <1>2, <1>3, <1>4 DEF HostOK, WriteOK, ReadOK
<1>6. AnswersOK'
  <2>1. begun /\ memSetup.addr \in known => word = value[memSetup.addr]
    BY <1>1, <1>2, <1>3 DEF ReadOK
  <2> QED
    BY <1>2, <1>4, <2>1 DEF AnswersOK, Answered
<1>7. PICK p \in Nat : BusOK(p)
  BY DEF MemInv
<1>8. (AwaitsWord' <=> AwaitsWord) /\ ~AwaitsRead /\ ~AwaitsRead'
  BY <1>2 DEF AwaitsWord, AwaitsRead
<1>9. BusOK(p)'
  BY <1>2, <1>7, <1>8, BusStays
<1> QED
  BY <1>2, <1>5, <1>6, <1>9 DEF MemInv

\* The status of a request is answered.
LEMMA StatusKeeps ==
  ASSUME MemInv, MemStatus
  PROVE  MemInv'
<1>1. HostOK /\ WriteOK /\ ReadOK /\ AnswersOK
  BY DEF MemInv
<1>2. /\ memStage = "status" /\ memStage' = "done"
      /\ UNCHANGED <<memSetup, answer, write, awaddr, data, memIdx, read, araddr, word,
                     bus, wdata, rdata, memory, begun, value, known, open, doubt>>
  BY DEF MemStatus, writeVars, readVars, busVars, memPast
<1>3. \A to : ~Begun(to) /\ ~Begun(to)'
  BY <1>2 DEF Begun, Unfinished
<1>4. HostOK' /\ WriteOK' /\ ReadOK' /\ AnswersOK'
  BY <1>1, <1>2, <1>3 DEF HostOK, WriteOK, ReadOK, AnswersOK, Answered
<1>5. PICK p \in Nat : BusOK(p)
  BY DEF MemInv
<1>6. (AwaitsWord' <=> AwaitsWord) /\ (AwaitsRead' <=> AwaitsRead)
  BY <1>2 DEF AwaitsWord, AwaitsRead
<1>7. BusOK(p)'
  BY <1>2, <1>3, <1>5, <1>6, BusStays
<1> QED
  BY <1>2, <1>4, <1>7 DEF MemInv

\* The first of the queue, and what is behind it.
LEMMA QueueTail ==
  ASSUME MemInv, bus # << >>, NEW p \in Nat, BusOK(p)
  PROVE  /\ Len(bus) \in Nat /\ Len(bus) >= 1 /\ Head(bus) = bus[1]
         /\ Tail(bus) \in Seq({"write", "read"} \X Cells) /\ Len(Tail(bus)) = Len(bus) - 1
         /\ \A i \in 1 .. Len(bus) - 1 : Tail(bus)[i] = bus[i + 1]
         /\ bus[1] \in {"write", "read"} \X Cells
         /\ bus[1][1] # "write" => p = 1
         /\ Len(wdata) >= 1 /\ bus[1][1] = "write" => p # 1 /\ At(p, 1) = 1
<1> DEFINE n == Len(wdata)
<1>1. bus \in Seq({"write", "read"} \X Cells) /\ n \in Nat /\ QueueOK(p) /\ Len(bus) \in Nat
  BY WritesAreIn DEF MemInv, BusOK
<1>2. /\ Len(bus) >= 1 /\ Head(bus) = bus[1]
      /\ Tail(bus) \in Seq({"write", "read"} \X Cells) /\ Len(Tail(bus)) = Len(bus) - 1
      /\ \A i \in 1 .. Len(bus) - 1 : Tail(bus)[i] = bus[i + 1]
      /\ bus[1] \in {"write", "read"} \X Cells
  BY <1>1
<1>3. ASSUME p # 1, n = 0 => AwaitsWord PROVE bus[1][1] = "write"
  <2>1. At(p, 1) = 1
    BY <1>3 DEF At
  <2>2. CASE n >= 1
    <3>1. 1 \in 1 .. n
      BY <1>1, <2>2
    <3> QED
      BY <1>1, <2>1, <3>1 DEF QueueOK
  <2>3. CASE n = 0
    <3>1. bus[At(p, n + 1)] = <<"write", awaddr>> /\ n + 1 = 1
      BY <1>1, <1>3, <2>3 DEF QueueOK
    <3>2. bus[1] = <<"write", awaddr>>
      BY <2>1, <3>1
    <3> QED
      BY <3>2
  <2> QED
    BY <1>1, <2>2, <2>3
<1>4. ASSUME n = 0, ~AwaitsWord PROVE p = 1
  <2>1. Len(bus) = IF AwaitsRead THEN 1 ELSE 0
    BY <1>1, <1>4 DEF QueueOK
  <2>2. AwaitsRead /\ Len(bus) = 1
    BY <1>2, <2>1
  <2> QED
    BY <1>1, <2>2 DEF QueueOK
<1>5. p = 1 => bus[1] = <<"read", araddr>>
  BY <1>1 DEF QueueOK
<1>6. p = 1 => bus[1][1] # "write"
  BY <1>5
<1> QED
  BY <1>1, <1>2, <1>3, <1>4, <1>6 DEF At

\* The bus does the write that it was asked first.
LEMMA WriteDoneKeeps ==
  ASSUME MemInv, BusDone, Head(bus)[1] = "write"
  PROVE  MemInv'
<1>1. HostOK /\ WriteOK /\ ReadOK /\ AnswersOK
  BY DEF MemInv
<1>2. PICK p \in Nat : BusOK(p)
  BY DEF MemInv
<1>3. QueueOK(p) /\ CellsOK(p) /\ WordsOK(p)
  BY <1>2 DEF BusOK
<1> DEFINE n == Len(wdata)
           a == Head(bus)[2]
<1>4. /\ bus # << >> /\ bus' = Tail(bus) /\ wdata # << >> /\ wdata' = Tail(wdata)
      /\ memory' = [memory EXCEPT ![a] = Head(wdata)] /\ rdata' = rdata
      /\ UNCHANGED <<memSetup, memStage, answer, write, awaddr, data, memIdx, read, araddr, word,
                     begun, value, known, open, doubt>>
  BY DEF BusDone, hostVars, writeVars, readVars, memPast
<1>5. /\ n \in Nat /\ n >= 1 /\ wdata' \in Seq(Given) /\ Len(wdata') = n - 1 /\ Head(wdata) = wdata[1]
      /\ \A i \in 1 .. n - 1 : wdata'[i] = wdata[i + 1]
  BY <1>4 DEF MemInv
<1>6. /\ Len(bus) \in Nat /\ Len(bus) >= 1 /\ bus' \in Seq({"write", "read"} \X Cells) /\ Len(bus') = Len(bus) - 1
      /\ \A i \in 1 .. Len(bus) - 1 : bus'[i] = bus[i + 1]
      /\ p # 1 /\ At(p, 1) = 1 /\ a = Cell(p, 1) /\ a \in Cells
  BY <1>2, <1>4, <1>5, QueueTail DEF Cell
<1> PICK q \in Nat : q = IF p = 0 THEN 0 ELSE p - 1
  OBVIOUS
<1>7. \A k \in Nat : k >= 1 => At(p, k + 1) = At(q, k) + 1 /\ At(q, k) \in Nat /\ At(q, k) >= 1
  BY <1>6 DEF At
<1>8. \A k \in 1 .. n - 1 : /\ k \in Nat /\ k >= 1 /\ k + 1 \in 1 .. n
                            /\ At(q, k) \in 1 .. Len(bus) - 1 /\ At(q, k) + 1 = At(p, k + 1)
  <2> SUFFICES ASSUME NEW k \in 1 .. n - 1
               PROVE  /\ k \in Nat /\ k >= 1 /\ k + 1 \in 1 .. n
                      /\ At(q, k) \in 1 .. Len(bus) - 1 /\ At(q, k) + 1 = At(p, k + 1)
    OBVIOUS
  <2>1. k \in Nat /\ k >= 1 /\ k + 1 \in 1 .. n
    BY <1>5
  <2>2. At(p, k + 1) \in 1 .. Len(bus)
    BY <1>3, <2>1, WritesAreIn
  <2>3. At(p, k + 1) = At(q, k) + 1 /\ At(q, k) \in Nat /\ At(q, k) >= 1
    BY <1>7, <2>1
  <2> QED
    BY <1>6, <2>1, <2>2, <2>3
<1>9. \A k \in 1 .. n - 1 : bus'[At(q, k)] = bus[At(p, k + 1)] /\ Cell(q, k)' = Cell(p, k + 1)
  BY <1>6, <1>8 DEF Cell
<1>10. \A to : Begun(to)' <=> Begun(to)
  BY <1>4 DEF Begun, Unfinished
<1>11. DOMAIN memory' = Cells /\ \A c \in Cells : memory'[c] = IF c = a THEN wdata[1] ELSE memory[c]
  BY <1>1, <1>4, <1>5, <1>6 DEF HostOK
<1>12. HostOK' /\ WriteOK' /\ ReadOK' /\ AnswersOK'
  BY <1>1, <1>4, <1>10, <1>11 DEF HostOK, WriteOK, ReadOK, AnswersOK, Answered
<1>13. (AwaitsWord' <=> AwaitsWord) /\ (AwaitsRead' <=> AwaitsRead)
  BY <1>4 DEF AwaitsWord, AwaitsRead
<1>14. QueueOK(q)'
  <2> DEFINE w == IF AwaitsWord THEN 1 ELSE 0
             r == IF AwaitsRead THEN 1 ELSE 0
  <2>1. Len(bus) = n + w + r /\ p \in 0 .. Len(bus) /\ (p # 0 <=> AwaitsRead)
    BY <1>3 DEF QueueOK
  <2>2. q \in 0 .. Len(bus') /\ (q # 0 <=> AwaitsRead)
    <3> HIDE DEF n, w, r
    <3>1. p <= Len(bus)
      BY <1>6, <2>1
    <3>2. q <= Len(bus) - 1 /\ (q # 0 <=> p # 0)
      BY <1>6, <3>1
    <3>3. q \in 0 .. Len(bus')
      BY <1>6, <3>2
    <3> QED
      BY <2>1, <3>2, <3>3
  <2>3. Len(bus') = Len(wdata') + w + r
    <3>1. w \in {0, 1} /\ r \in {0, 1}
      OBVIOUS
    <3> HIDE DEF w, r
    <3> QED
      BY <1>5, <1>6, <2>1, <3>1
  <2>4. \A k \in 1 .. n - 1 : bus'[At(q, k)][1] = "write"
    BY <1>3, <1>8, <1>9 DEF QueueOK
  <2>5. ASSUME AwaitsWord PROVE bus'[At(q, Len(wdata') + 1)] = <<"write", awaddr>>
    <3>1. At(q, n) + 1 = At(p, n + 1) /\ At(q, n) >= 1 /\ At(q, n) \in Nat
      BY <1>5, <1>7
    <3>2. At(p, n + 1) <= Len(bus)
      BY <1>5, <1>6, <2>1, <2>5 DEF At
    <3>3. bus'[At(q, n)] = bus[At(p, n + 1)]
      BY <1>6, <3>1, <3>2
    <3>4. bus'[At(q, n)] = <<"write", awaddr>>
      BY <1>3, <2>5, <3>3 DEF QueueOK
    <3>5. Len(wdata') + 1 = n
      BY <1>5
    <3> QED
      BY <3>4, <3>5
  <2>6. ASSUME AwaitsRead PROVE bus'[q] = <<"read", araddr>> /\ (Begun("read") => q = Len(bus'))
    <3>1. q = p - 1 /\ q \in 1 .. Len(bus) - 1 /\ bus'[q] = bus[p]
      BY <1>6, <2>1, <2>6
    <3>2. bus[p] = <<"read", araddr>> /\ (Begun("read") => p = Len(bus))
      BY <1>3, <2>6 DEF QueueOK
    <3> QED
      BY <1>6, <3>1, <3>2
  <2>7. awaddr' = awaddr /\ araddr' = araddr /\ Len(wdata') = n - 1
    BY <1>4, <1>5
  <2> QED
    BY <1>10, <1>13, <2>2, <2>3, <2>4, <2>5, <2>6, <2>7 DEF QueueOK
<1>15. \A c : Awaited(c)' <=> Awaited(c)
  BY <1>4, <1>13 DEF Awaited
<1>16. CellsOK(q)'
  <2> SUFFICES ASSUME NEW c \in known, ~Awaited(c), \A k \in 1 .. n - 1 : Cell(q, k)' # c
               PROVE  memory'[c] = value[c]
    BY <1>4, <1>5, <1>15 DEF CellsOK
  <2>1. \A k \in 1 + 1 .. n : Cell(p, k) # c
    <3> SUFFICES ASSUME NEW k \in 1 + 1 .. n PROVE Cell(p, k) # c
      OBVIOUS
    <3>1. k - 1 \in 1 .. n - 1 /\ (k - 1) + 1 = k
      BY <1>5
    <3> QED
      BY <1>9, <3>1
  <2>2. c \in Cells
    BY <1>1 DEF HostOK
  <2>3. CASE c = a
    <3>1. 1 \in 1 .. n /\ Cell(p, 1) = c
      BY <1>5, <1>6, <2>3
    <3>2. wdata[1] = value[c]
      BY <1>3, <2>1, <3>1 DEF WordsOK
    <3> QED
      BY <1>11, <2>2, <2>3, <3>2
  <2>4. CASE c # a
    <3>1. \A k \in 1 .. n : Cell(p, k) # c
      BY <1>5, <1>6, <2>1, <2>4
    <3> QED
      BY <1>3, <1>11, <2>2, <2>4, <3>1 DEF CellsOK
  <2> QED
    BY <2>3, <2>4
<1>17. WordsOK(q)'
  <2> SUFFICES ASSUME NEW k \in 1 .. n - 1, Cell(q, k)' \in known, ~Awaited(Cell(q, k)'),
                      \A j \in k + 1 .. n - 1 : Cell(q, j)' # Cell(q, k)'
               PROVE  wdata'[k] = value[Cell(q, k)']
    <3>1. \A k \in 1 .. n - 1 : Awaited(Cell(q, k))' <=> Awaited(Cell(q, k)')
      BY <1>4, <1>13 DEF Awaited
    <3> QED
      BY <1>4, <1>5, <3>1 DEF WordsOK
  <2>1. k + 1 \in 1 .. n /\ Cell(q, k)' = Cell(p, k + 1) /\ wdata'[k] = wdata[k + 1]
    BY <1>5, <1>8, <1>9
  <2>2. \A j \in (k + 1) + 1 .. n : Cell(p, j) # Cell(p, k + 1)
    <3> SUFFICES ASSUME NEW j \in (k + 1) + 1 .. n PROVE Cell(p, j) # Cell(p, k + 1)
      OBVIOUS
    <3>1. j - 1 \in k + 1 .. n - 1 /\ j - 1 \in 1 .. n - 1 /\ (j - 1) + 1 = j
      BY <1>5
    <3>2. Cell(q, j - 1)' = Cell(p, j)
      BY <1>9, <3>1
    <3> QED
      BY <2>1, <3>1, <3>2
  <2> QED
    BY <1>3, <2>1, <2>2 DEF WordsOK
<1> QED
  BY <1>5, <1>6, <1>12, <1>14, <1>16, <1>17 DEF MemInv, BusOK

\* The bus does the read that it was asked first.
LEMMA ReadDoneKeeps ==
  ASSUME MemInv, BusDone, Head(bus)[1] # "write"
  PROVE  MemInv'
<1>1. HostOK /\ WriteOK /\ ReadOK /\ AnswersOK
  BY DEF MemInv
<1>2. PICK p \in Nat : BusOK(p)
  BY DEF MemInv
<1>3. QueueOK(p) /\ CellsOK(p) /\ WordsOK(p)
  BY <1>2 DEF BusOK
<1> DEFINE n == Len(wdata)
           a == Head(bus)[2]
<1>4. /\ bus # << >> /\ bus' = Tail(bus) /\ rdata' = Append(rdata, memory[a])
      /\ UNCHANGED <<memSetup, memStage, answer, write, awaddr, data, memIdx, read, araddr, word,
                     wdata, memory, begun, value, known, open, doubt>>
  BY DEF BusDone, hostVars, writeVars, readVars, memPast
<1>5. /\ n \in Nat /\ Len(bus) \in Nat /\ p = 1
      /\ bus' \in Seq({"write", "read"} \X Cells) /\ Len(bus') = Len(bus) - 1
      /\ \A i \in 1 .. Len(bus) - 1 : bus'[i] = bus[i + 1]
  BY <1>2, <1>3, <1>4, QueueTail, WritesAreIn
<1>6. AwaitsRead /\ bus[1] = <<"read", araddr>> /\ Head(bus) = bus[1]
  BY <1>2, <1>3, <1>4, <1>5, QueueTail DEF QueueOK
<1>7. a = araddr /\ read = "READ" /\ rdata = << >>
  BY <1>6 DEF AwaitsRead
<1>8. rdata' = <<memory[araddr]>> /\ rdata' # << >> /\ rdata'[1] = memory[araddr]
  BY <1>4, <1>7
<1>9. \A to : Begun(to)' <=> Begun(to)
  BY <1>4 DEF Begun, Unfinished
<1>10. ASSUME Begun("read"), araddr \in known PROVE memory[araddr] = value[araddr]
  <2>1. Len(bus) = 1
    BY <1>3, <1>5, <1>6, <1>10 DEF QueueOK
  <2>2. n = 0 /\ ~AwaitsWord
    <3> DEFINE w == IF AwaitsWord THEN 1 ELSE 0
    <3>1. 1 = n + w + 1 /\ w \in {0, 1}
      BY <1>3, <1>6, <2>1 DEF QueueOK
    <3>2. n = 0 /\ w = 0
      <4> HIDE DEF w
      <4> QED
        BY <1>5, <3>1
    <3> QED
      BY <3>2
  <2> QED
    BY <1>3, <1>10, <2>2 DEF CellsOK, Awaited
<1>11. ReadOK'
  BY <1>1, <1>4, <1>7, <1>8, <1>9, <1>10 DEF ReadOK
<1>12. HostOK' /\ WriteOK' /\ AnswersOK'
  BY <1>1, <1>4, <1>9 DEF HostOK, WriteOK, AnswersOK, Answered
<1>13. (AwaitsWord' <=> AwaitsWord) /\ ~AwaitsRead'
  BY <1>4, <1>8 DEF AwaitsWord, AwaitsRead
<1> DEFINE w == IF AwaitsWord THEN 1 ELSE 0
<1>14. Len(bus) = n + w + 1 /\ w \in {0, 1}
  BY <1>3, <1>6 DEF QueueOK
<1>15. \A k \in 1 .. Len(bus) - 1 : bus'[At(0, k)] = bus[At(p, k)]
  BY <1>5 DEF At
<1>16. \A k \in 1 .. n : k \in 1 .. Len(bus) - 1
  <2> HIDE DEF w
  <2> QED
    BY <1>5, <1>14
<1>17. QueueOK(0)'
  <2>1. \A k \in 1 .. n : bus'[At(0, k)][1] = "write"
    BY <1>3, <1>15, <1>16 DEF QueueOK
  <2>2. ASSUME AwaitsWord PROVE bus'[At(0, n + 1)] = <<"write", awaddr>>
    <3>1. n + 1 \in 1 .. Len(bus) - 1
      BY <1>5, <1>14, <2>2
    <3>2. bus'[At(0, n + 1)] = bus[At(p, n + 1)]
      BY <1>15, <3>1
    <3> QED
      BY <1>3, <2>2, <3>2 DEF QueueOK
  <2>3. Len(bus') = n + w + 0 /\ 0 \in 0 .. Len(bus')
    <3> HIDE DEF w
    <3> QED
      BY <1>5, <1>14
  <2>4. wdata' = wdata /\ awaddr' = awaddr
    BY <1>4
  <2> QED
    BY <1>13, <2>1, <2>2, <2>3, <2>4 DEF QueueOK
<1>18. \A k \in 1 .. n : Cell(0, k)' = Cell(p, k)
  BY <1>15, <1>16 DEF Cell
<1>19. \A c : Awaited(c)' <=> Awaited(c)
  BY <1>4, <1>13 DEF Awaited
<1>20. CellsOK(0)'
  <2> SUFFICES ASSUME NEW c \in known, ~Awaited(c), \A k \in 1 .. n : Cell(0, k)' # c
               PROVE  memory[c] = value[c]
    BY <1>4, <1>19 DEF CellsOK
  <2>1. \A k \in 1 .. n : Cell(p, k) # c
    BY <1>18
  <2> QED
    BY <1>3, <2>1 DEF CellsOK
<1>21. WordsOK(0)'
  <2> SUFFICES ASSUME NEW k \in 1 .. n, Cell(0, k)' \in known, ~Awaited(Cell(0, k)'),
                      \A j \in k + 1 .. n : Cell(0, j)' # Cell(0, k)'
               PROVE  wdata[k] = value[Cell(0, k)']
    <3>1. \A k \in 1 .. n : Awaited(Cell(0, k))' <=> Awaited(Cell(0, k)')
      BY <1>4, <1>13 DEF Awaited
    <3> QED
      BY <1>4, <3>1 DEF WordsOK
  <2>1. Cell(0, k)' = Cell(p, k)
    BY <1>18
  <2>2. \A j \in k + 1 .. n : j \in 1 .. n
    BY <1>5
  <2>3. \A j \in k + 1 .. n : Cell(p, j) # Cell(p, k)
    BY <1>18, <2>1, <2>2
  <2> QED
    BY <1>3, <2>1, <2>3 DEF WordsOK
<1>22. wdata' \in Seq(Given)
  BY <1>4 DEF MemInv
<1> QED
  BY <1>5, <1>11, <1>12, <1>17, <1>20, <1>21, <1>22 DEF MemInv, BusOK

-----------------------------------------------------------------------------
\* The invariant holds in every state the bridge, its host and the bus reach.
THEOREM MemInvHolds == MemSpec => []MemInv
<1>1. MemInv /\ [MemNext]_memVars => MemInv'
  <2> SUFFICES ASSUME MemInv, [MemNext]_memVars PROVE MemInv'
    OBVIOUS
  <2>1. ASSUME NEW s \in MemRequests, MemSetup(s) PROVE MemInv'
    BY <2>1, SetupKeeps
  <2>2. CASE Address
    BY <2>2, AddressKeeps
  <2>3. CASE MemPacket
    BY <2>3, PacketKeeps
  <2>4. CASE CutPacket
    BY <2>4, CutKeeps
  <2>5. CASE Word
    <3>1. UNCHANGED <<memSetup, memStage, answer, awaddr, data, memIdx, araddr, bus, memory,
                      begun, value, known, open, doubt>>
      BY <2>5 DEF Word, hostVars, memPast
    <3>2. \/ /\ memSetup.to = "write" /\ write = "WRITE" /\ write' = "IDLE"
             /\ wdata' = Append(wdata, data) /\ UNCHANGED <<read, word, rdata>>
          \/ /\ memSetup.to = "read" /\ read = "READ" /\ rdata # << >> /\ read' = "TRANSMIT"
             /\ word' = Head(rdata) /\ rdata' = Tail(rdata) /\ UNCHANGED <<write, wdata>>
      BY <2>5 DEF Word
    <3> QED
      BY <3>1, <3>2, WordGivenKeeps, WordReadKeeps
  <2>6. CASE DataRequested
    BY <2>6, DataKeeps
  <2>7. CASE MemStatus
    BY <2>7, StatusKeeps
  <2>8. CASE BusDone
    BY <2>8, WriteDoneKeeps, ReadDoneKeeps
  <2>9. CASE UNCHANGED memVars
    <3>1. UNCHANGED <<memSetup, memStage, answer, write, awaddr, data, memIdx, read, araddr, word,
                      bus, wdata, rdata, memory, begun, value, known, open, doubt>>
      BY <2>9 DEF memVars, hostVars, writeVars, readVars, busVars, memPast
    <3>2. \A to : Begun(to)' <=> Begun(to)
      BY <3>1 DEF Begun, Unfinished
    <3>3. HostOK' /\ WriteOK' /\ ReadOK' /\ AnswersOK'
      BY <3>1, <3>2 DEF MemInv, HostOK, WriteOK, ReadOK, AnswersOK, Answered
    <3>4. PICK p \in Nat : BusOK(p)
      BY DEF MemInv
    <3>5. (AwaitsWord' <=> AwaitsWord) /\ (AwaitsRead' <=> AwaitsRead)
      BY <3>1 DEF AwaitsWord, AwaitsRead
    <3>6. BusOK(p)'
      BY <3>1, <3>2, <3>4, <3>5, BusStays
    <3> QED
      BY <3>1, <3>3, <3>6 DEF MemInv
  <2> QED
    BY <2>1, <2>2, <2>3, <2>4, <2>5, <2>6, <2>7, <2>8, <2>9 DEF MemNext
<1> QED
  BY <1>1, MemStarts, PTL DEF MemSpec

\* usb_mem_bridge.py: what is answered was done, wherever the host did not give a request
\* up: a write that was acknowledged is the one the bus does, a read gives what was written
\* last to its cell, and when the bus has done all it was asked the memory holds what was
\* acknowledged.
THEOREM MemoryIsRight == MemSpec => []MemoryRight
<1>1. MemInv => MemoryRight
  <2> SUFFICES ASSUME MemInv PROVE MemoryRight
    OBVIOUS
  <2>1. HostOK /\ WriteOK /\ ReadOK /\ AnswersOK
    BY DEF MemInv
  <2>2. ASSUME bus = << >>, NEW a \in known PROVE memory[a] = value[a]
    <3>1. PICK p \in Nat : BusOK(p)
      BY DEF MemInv
    <3>2. QueueOK(p) /\ CellsOK(p)
      BY <3>1 DEF BusOK
    <3>3. Len(bus) = 0 /\ Len(wdata) \in Nat
      BY <2>2, <3>2, WritesAreIn
    <3>4. Len(wdata) = 0 /\ ~AwaitsWord
      <4> DEFINE w == IF AwaitsWord THEN 1 ELSE 0
                 r == IF AwaitsRead THEN 1 ELSE 0
      <4>1. 0 = Len(wdata) + w + r /\ w \in {0, 1} /\ r \in {0, 1}
        BY <3>2, <3>3 DEF QueueOK
      <4>2. Len(wdata) = 0 /\ w = 0
        <5> HIDE DEF w, r
        <5> QED
          BY <3>3, <4>1
      <4> QED
        BY <4>2
    <3> QED
      BY <3>2, <3>4 DEF CellsOK, Awaited
  <2> QED
    BY <2>1, <2>2 DEF MemoryRight, HostOK, AnswersOK
<1> QED
  BY <1>1, MemInvHolds, PTL

-----------------------------------------------------------------------------
(***************************************************************************)
(* The LEDs.                                                               *)
(***************************************************************************)
\* The place in the frame of bit mux of LED led.
Place == led * LedBits + mux

\* What the chain has when the next pulse is about to begin: the bits before place n, or a
\* pause after a whole frame.
Before(n) ==
  /\ chain.high = 0
  /\ IF Paused THEN n = 0 /\ chain.bits \in {0, FrameBits} ELSE chain.bits = n

\* The pulse on the wire has this many clocks behind it, and is the bit that was asked for.
During(clocks) ==
  /\ chain.high = clocks /\ chain.low = 0
  /\ Brightness[(chain.bits % ColourBits) + 1] => out.data \in chain.seen
  /\ out.data => Brightness[(chain.bits % ColourBits) + 1]

\* The bit of the pulse that is out is the one before the next to take.
Counted ==
  /\ chain.bits \in 0 .. FrameBits - 1
  /\ out.last = (chain.bits = FrameBits - 1)
  /\ Place = IF out.last THEN 0 ELSE chain.bits + 1

\* The pulse has ended some clocks ago.
After(clocks) ==
  /\ chain.high = 0 /\ chain.low = clocks
  /\ chain.bits \in 1 .. FrameBits
  /\ out.last = (chain.bits = FrameBits)
  /\ Place = IF out.last THEN 0 ELSE chain.bits

LedTypeOK ==
  /\ led \in Leds /\ mux \in 0 .. LedBits - 1
  /\ out.cnt \in Nat /\ out.data \in BOOLEAN /\ out.last \in BOOLEAN
  /\ out = [state |-> out.state, cnt |-> out.cnt, data |-> out.data, last |-> out.last]
  /\ chain = [high |-> chain.high, low |-> chain.low, bits |-> chain.bits, seen |-> chain.seen,
              good |-> chain.good]
  /\ chain.high \in Nat /\ chain.low \in Nat /\ chain.bits \in Nat

LedPhase ==
  CASE out.state = "IDLE" -> out.cnt = 0 /\ Before(Place) /\ Place = 0
    [] out.state = "HIGH" ->
         /\ out.cnt <= BitTime
         /\ IF out.cnt = BitTime THEN Before(Place)
            ELSE chain.high = BitTime - out.cnt /\ chain.low = 0 /\ chain.bits = Place
    [] out.state = "DATA" ->
         /\ out.cnt <= BitTime
         /\ IF out.data THEN Counted /\ During(2 * BitTime + 1 - out.cnt)
            ELSE IF out.cnt = BitTime THEN Counted /\ During(BitTime + 1)
            ELSE After(BitTime - out.cnt)
    [] out.state = "LOW" ->
         /\ out.cnt <= 2 * BitTime
         /\ IF ~out.data THEN After(3 * BitTime + 1 - out.cnt)
            ELSE IF out.cnt = 2 * BitTime THEN Counted /\ During(2 * BitTime + 2)
            ELSE After(2 * BitTime - out.cnt)
    [] out.state = "END" ->
         /\ out.cnt <= EndTime /\ chain.high = 0 /\ chain.bits = FrameBits /\ Place = 0
         /\ chain.low + out.cnt >= EndTime
    [] OTHER -> FALSE

LedInv == LedTypeOK /\ LedPhase /\ LedsRight

-----------------------------------------------------------------------------
\* Numbers.

LEMMA NextPlace ==
  ASSUME NEW N \in Nat \ {0}, NEW L \in Nat \ {0}, NEW l \in 0 .. N - 1, NEW m \in 0 .. L - 1
  PROVE  LET k == (m + 1) % L
             i == IF m = L - 1 THEN (l + 1) % N ELSE l
         IN  /\ k \in 0 .. L - 1 /\ i \in 0 .. N - 1
             /\ i * L + k = IF l = N - 1 /\ m = L - 1 THEN 0 ELSE l * L + m + 1
<1>0. L >= 1 /\ N >= 1
  OBVIOUS
<1>1. (m + 1) % L = (IF m = L - 1 THEN 0 ELSE m + 1) /\ (m + 1) % L \in 0 .. L - 1
  BY <1>0, ModNext
<1>2. (l + 1) % N = (IF l = N - 1 THEN 0 ELSE l + 1) /\ (l + 1) % N \in 0 .. N - 1
  BY <1>0, ModNext
<1>3. (l + 1) * L = l * L + L /\ 0 * L = 0
  OBVIOUS
<1>4. CASE m = L - 1
  BY <1>1, <1>2, <1>3, <1>4
<1>5. CASE m # L - 1
  BY <1>1, <1>5
<1> QED
  BY <1>4, <1>5

-----------------------------------------------------------------------------
LEMMA LedNumbers ==
  /\ LedCount \in Nat \ {0} /\ ColourBits \in Nat \ {0}
  /\ LedBits \in Nat \ {0} /\ FrameBits \in Nat \ {0}
  /\ BitTime \in Nat \ {0} /\ EndTime \in Nat /\ EndTime > 3 * BitTime + 2
<1>1. {LedCount, ColourBits, BitTime} \subseteq Nat \ {0} /\ EndTime \in Nat /\ EndTime > 3 * BitTime + 2
  BY LedAssumption
<1>2. 3 * ColourBits \in Nat \ {0}
  BY <1>1
<1>3. LedCount * (3 * ColourBits) \in Nat \ {0}
  BY <1>1, <1>2
<1> QED
  BY <1>1, <1>2, <1>3 DEF LedBits, FrameBits

LEMMA PlaceFacts ==
  ASSUME NEW l \in Leds, NEW m \in 0 .. LedBits - 1, NEW n, n = l * LedBits + m
  PROVE  /\ n \in 0 .. FrameBits - 1
         /\ n % LedBits = m
         /\ (n % (FrameBits)) \div LedBits = l
         /\ n % ColourBits = m % ColourBits
         /\ n = FrameBits - 1 <=> l = LedCount - 1 /\ m = LedBits - 1
<1> DEFINE N == LedCount
           C == ColourBits
           L == LedBits
<1>0. N \in Nat \ {0} /\ C \in Nat \ {0} /\ L = 3 * C /\ L \in Nat /\ FrameBits = N * L /\ l \in 0 .. N - 1
      /\ m \in 0 .. L - 1 /\ n = l * L + m
  BY LedNumbers DEF LedBits, FrameBits, Leds
<1> HIDE DEF N, C, L
<1>1. L \in Nat /\ L >= 1 /\ m \in 0 .. L - 1 /\ n \in Nat
  BY <1>0
<1>2. N * L = L * N /\ l * L = L * l /\ (N - 1) * L = N * L - L
  BY <1>0, <1>1
<1>3. n < N * L /\ (n = N * L - 1 <=> l = N - 1 /\ m = L - 1)
  <2>1. CASE l = N - 1
    BY <1>0, <1>1, <1>2, <2>1
  <2>2. CASE l # N - 1
    <3> DEFINE d == N - 2 - l
    <3>1. d \in Nat /\ l = N - 2 - d
      BY <1>0, <2>2
    <3>2. d * L >= 0 /\ l * L = N * L - 2 * L - d * L
      <4> HIDE DEF d
      <4>1. l * L = (N - 2 - d) * L
        BY <1>0, <3>1
      <4>2. (N - 2 - d) * L = N * L - 2 * L - d * L
        BY <1>0, <3>1, <1>1
      <4>3. d * L >= 0
        BY <1>0, <3>1, <1>1
      <4> QED BY <4>1, <4>2, <4>3
    <3> HIDE DEF d
    <3>3. N * L \in Int /\ d * L \in Int /\ l * L \in Int
      BY <1>0, <3>1, <1>1
    <3> QED BY <1>0, <1>1, <2>2, <3>2, <3>3
  <2> QED BY <2>1, <2>2
<1>4. n % L = m /\ n \div L = l
  <2>1. n = L * l + m
    BY <1>0, <1>2
  <2>0. \A x \in Int, q \in Int, r \in 0 .. L - 1 : x = L * q + r => x % L = r
    BY <1>1, ModUniqueBy
  <2>2. n % L = m
    <3>1. n \in Int /\ l \in Int /\ m \in 0 .. L - 1
      BY <1>0, <1>1
    <3> QED BY <3>1, <2>0, <2>1
  <2>3. n = L * (n \div L) + (n % L) /\ n \div L \in Int
    <3>1. n \in Int
      BY <1>0, <1>1
    <3> QED BY <1>0, <1>1, <3>1, DivModBy
  <2>4. n \div L = l
    <3> DEFINE q == n \div L
    <3>0. n = L * q + m
      BY <2>2, <2>3
    <3>q. q \in Int
      BY <2>3
    <3> HIDE DEF q
    <3>1. L * q = L * l /\ q \in Int
      <4>1. L * q \in Int /\ L * l \in Int
        BY <1>0, <3>q, <1>1
      <4> QED BY <2>1, <3>q, <3>0, <1>1, <4>1
    <3>2. q = l
      <4>1. CASE q > l
        <5>1. q - l - 1 \in Nat
          BY <1>0, <3>1, <4>1
        <5>2. L * q = L * l + L + L * (q - l - 1)
          BY <1>0, <1>1, <3>1
        <5>3. L * (q - l - 1) >= 0
          BY <1>0, <1>1, <5>1
        <5>4. L * (q - l - 1) \in Int /\ L * l \in Int
          BY <1>0, <1>1, <5>1
        <5> QED BY <5>2, <5>3, <5>4, <3>1, <1>1
      <4>2. CASE q < l
        <5>1. l - q - 1 \in Nat
          BY <1>0, <3>1, <4>2
        <5>2. L * l = L * q + L + L * (l - q - 1)
          BY <1>0, <1>1, <3>1
        <5>3. L * (l - q - 1) >= 0
          BY <1>0, <1>1, <5>1
        <5>4. L * (l - q - 1) \in Int /\ L * q \in Int
          BY <1>0, <1>1, <5>1, <3>1
        <5> QED BY <5>2, <5>3, <5>4, <3>1, <1>1
      <4> QED BY <4>1, <4>2, <3>1, <1>0
    <3> QED BY <3>2 DEF q
  <2> QED BY <2>2, <2>4
<1>5. n % (N * L) = n
  <2>1. N * L \in Nat /\ N * L >= 1
    BY <1>0, <1>1, <1>3
  <2>2. n \in Int
    BY <1>0, <1>1
  <2>3. 0 <= n /\ n < N * L
    BY <1>0, <1>1, <1>3
  <2> QED BY <2>1, <2>2, <2>3, ModNear
<1>6. n % C = m % C
  <2> DEFINE q == m \div C
             r == m % C
  <2>1. m = C * q + r /\ q \in Int /\ r \in 0 .. C - 1
    BY <1>0, DivModBy
  <2> HIDE DEF q, r
  <2>2. n = C * (3 * l + q) + r
    BY <1>0, <2>1
  <2>3. 3 * l + q \in Int /\ n \in Int
    BY <1>0, <2>1
  <2>0. \A x \in Int, y \in Int, z \in 0 .. C - 1 : x = C * y + z => x % C = z
    BY <1>0, ModUniqueBy
  <2>4. n % C = r
    BY <2>0, <2>1, <2>2, <2>3
  <2> QED BY <2>4 DEF r
<1> QED
  BY <1>0, <1>1, <1>3, <1>4, <1>5, <1>6 DEF N, C, L

LEMMA LedInitInv == LedInit => LedInv
<1> SUFFICES ASSUME LedInit PROVE LedInv
  OBVIOUS
<1>1. 0 * LedBits + 0 = 0 /\ 0 \in Leds /\ 0 \in 0 .. LedBits - 1
  BY LedNumbers DEF Leds
<1>2. Place = 0
  BY <1>1 DEF LedInit, Place
<1> QED
  BY <1>1, <1>2, LedNumbers DEF LedInit, LedInv, LedTypeOK, LedPhase, LedsRight, Before, Paused

LEMMA LedStepInv == LedInv /\ [LedNext]_ledVars => LedInv'
<1> SUFFICES ASSUME LedInv, [LedNext]_ledVars PROVE LedInv'
  OBVIOUS
<1>1. CASE UNCHANGED ledVars
  BY <1>1 DEF ledVars, LedInv, LedTypeOK, LedPhase, LedsRight, Place, Before, During, Counted, After, Paused
<1>2. CASE LedNext
  <2> DEFINE B == chain.bits
             AfterP(c) == /\ chain'.high = 0 /\ chain'.low = c /\ chain'.bits \in 1 .. FrameBits
                          /\ out'.last = (chain'.bits = FrameBits)
                          /\ Place' = IF out'.last THEN 0 ELSE chain'.bits
             DuringP(c) == /\ chain'.high = c /\ chain'.low = 0
                           /\ Brightness[(chain'.bits % ColourBits) + 1] => out'.data \in chain'.seen
                           /\ out'.data => Brightness[(chain'.bits % ColourBits) + 1]
             Bright(n) == Brightness[(n % ColourBits) + 1]
  <2>0. SourceStep /\ OutputStep /\ ChainStep
    BY <1>2 DEF LedNext
  <2>t. LedTypeOK /\ LedPhase /\ chain.good
    BY DEF LedInv, LedsRight
  <2>n. /\ LedBits \in Nat /\ FrameBits \in Nat /\ FrameBits >= 1 /\ BitTime \in Nat /\ BitTime >= 1 /\ EndTime \in Nat
        /\ EndTime > 3 * BitTime + 2
        /\ led \in Nat /\ mux \in Nat /\ out.cnt \in Nat /\ chain.low \in Nat /\ chain.high \in Nat /\ B \in Nat
    BY <2>t, LedNumbers DEF LedTypeOK, Leds
  \* The place of the bit to take, and what it looks like from the chain.
  <2>p. /\ Place \in 0 .. FrameBits - 1
        /\ Bit(led, mux) = (Asked(Place) /\ Bright(Place))
        /\ (LastBit /\ led = LedCount - 1) = (Place = FrameBits - 1)
    <3> DEFINE n == led * LedBits + mux
    <3>1. /\ n \in 0 .. FrameBits - 1 /\ n % LedBits = mux /\ (n % FrameBits) \div LedBits = led
          /\ n % ColourBits = mux % ColourBits
          /\ n = FrameBits - 1 <=> led = LedCount - 1 /\ mux = LedBits - 1
      <4>1. led \in Leds /\ mux \in 0 .. LedBits - 1
        BY <2>t DEF LedTypeOK
      <4>2. n = led * LedBits + mux
        OBVIOUS
      <4> HIDE DEF n
      <4> QED
        BY <4>1, <4>2, PlaceFacts
    <3> HIDE DEF n
    <3>2. Place = n
      BY DEF Place, n
    <3> QED
      BY <3>1, <3>2 DEF Bit, Asked, LastBit
  <2>q. /\ led' \in Leds /\ mux' \in 0 .. LedBits - 1
        /\ Place' = IF OutputReady THEN IF Place = FrameBits - 1 THEN 0 ELSE Place + 1 ELSE Place
    <3>1. CASE OutputReady
      <4> DEFINE k == (mux + 1) % LedBits
                 i == IF mux = LedBits - 1 THEN (led + 1) % LedCount ELSE led
      <4>1. k \in 0 .. LedBits - 1 /\ i \in 0 .. LedCount - 1
            /\ i * LedBits + k = IF led = LedCount - 1 /\ mux = LedBits - 1 THEN 0 ELSE led * LedBits + mux + 1
        BY LedNumbers, <2>t, NextPlace DEF LedTypeOK, Leds
      <4>2. mux' = k /\ led' = i
        BY <2>0, <3>1 DEF SourceStep, LastBit
      <4>3. Place' = i * LedBits + k
        BY <4>2 DEF Place
      <4> HIDE DEF i, k
      <4>4. (led = LedCount - 1 /\ mux = LedBits - 1) = (Place = FrameBits - 1)
        BY <2>p DEF LastBit
      <4>5. Place = led * LedBits + mux /\ led * LedBits \in Nat
        BY <2>n DEF Place
      <4> QED
        BY <3>1, <4>1, <4>2, <4>3, <4>4, <4>5, <2>n DEF Leds
    <3>2. CASE ~OutputReady
      <4>1. led' = led /\ mux' = mux
        BY <2>0, <3>2 DEF SourceStep
      <4> QED
        BY <3>2, <4>1, <2>t DEF Place, LedTypeOK
    <3> QED
      BY <3>1, <3>2
  \* What the chain does in this clock.
  <2>w. ASSUME Wire
        PROVE  /\ chain'.high = chain.high + 1 /\ chain'.low = 0
               /\ chain'.seen = chain.seen \cup {Asked(B)}
               /\ chain'.bits = IF Paused THEN 0 ELSE B
               /\ chain'.good <=> (Paused => B \in {0, FrameBits})
               /\ chain' = [high |-> chain'.high, low |-> chain'.low, bits |-> chain'.bits, seen |-> chain'.seen,
                            good |-> chain'.good]
    BY <2>0, <2>t, <2>w DEF ChainStep, LedTypeOK
  <2>f. ASSUME ~Wire, chain.high # 0
        PROVE  /\ chain'.high = 0 /\ chain'.low = 1 /\ chain'.bits = B + 1
               /\ chain'.good <=> PulseRight
               /\ chain' = [high |-> chain'.high, low |-> chain'.low, bits |-> chain'.bits, seen |-> chain'.seen,
                            good |-> chain'.good]
    BY <2>0, <2>t, <2>f DEF ChainStep, LedTypeOK
  <2>l. ASSUME ~Wire, chain.high = 0
        PROVE  /\ chain'.high = 0 /\ chain'.low = (IF Paused THEN chain.low ELSE chain.low + 1) /\ chain'.bits = B
               /\ chain'.good
               /\ chain' = [high |-> chain'.high, low |-> chain'.low, bits |-> chain'.bits, seen |-> chain'.seen,
                            good |-> chain'.good]
    BY <2>0, <2>t, <2>l DEF ChainStep, LedTypeOK
  <2>c. /\ chain'.high \in Nat /\ chain'.low \in Nat /\ chain'.bits \in Nat
        /\ chain' = [high |-> chain'.high, low |-> chain'.low, bits |-> chain'.bits, seen |-> chain'.seen,
                     good |-> chain'.good]
    BY <2>w, <2>f, <2>l, <2>n
  \* And the output.
  <2>e. ASSUME NEW st, NEW tm, out' = Enter(st, tm)
        PROVE  /\ out'.state = st /\ out'.cnt = tm /\ out'.data = out.data /\ out'.last = out.last
               /\ out' = [state |-> out'.state, cnt |-> out'.cnt, data |-> out'.data, last |-> out'.last]
    BY <2>e, <2>t DEF Enter, LedTypeOK
  <2>d. ASSUME out.state # "IDLE", out.cnt # 0
        PROVE  /\ out'.state = out.state /\ out'.cnt = out.cnt - 1 /\ out'.data = out.data /\ out'.last = out.last
               /\ out' = [state |-> out'.state, cnt |-> out'.cnt, data |-> out'.data, last |-> out'.last]
               /\ Place' = Place
    <3>1. out' = [out EXCEPT !.cnt = @ - 1]
      BY <2>0, <2>d DEF OutputStep
    <3>2. ~OutputReady
      BY <2>d DEF OutputReady
    <3> QED
      BY <3>1, <3>2, <2>q, <2>t DEF LedTypeOK
  <2> DEFINE OutOK == /\ out'.cnt \in Nat /\ out'.data \in BOOLEAN /\ out'.last \in BOOLEAN
                      /\ out' = [state |-> out'.state, cnt |-> out'.cnt, data |-> out'.data, last |-> out'.last]
  <2>g. ASSUME OutOK, LedPhase', chain'.good PROVE LedInv'
    BY <2>g, <2>q, <2>c DEF LedInv, LedTypeOK, LedsRight
  <2>b. out.data \in BOOLEAN /\ out.last \in BOOLEAN
    BY <2>t DEF LedTypeOK
  <2>3. CASE out.state = "IDLE"
    <3>1. out' = Enter("HIGH", BitTime)
      BY <2>0, <2>3 DEF OutputStep
    <3>2. ~Wire /\ ~OutputReady
      BY <2>3 DEF Wire, OutputReady
    <3>3. Before(Place) /\ Place = 0
      BY <2>3, <2>t DEF LedPhase, After, During
    <3>4. chain'.high = 0 /\ chain'.bits = B /\ chain'.low = (IF Paused THEN chain.low ELSE chain.low + 1) /\ chain'.good
      BY <2>l, <3>2, <3>3 DEF Before
    <3>5. B \in {0, FrameBits} /\ (~Paused => B = 0)
      BY <3>3 DEF Before
    <3>6. Place' = 0
      BY <3>2, <3>3, <2>q
    <3>7. Before(Place)'
      BY <3>3, <3>4, <3>5, <3>6, <2>n DEF Before, Paused
    <3>8. OutOK /\ out'.state = "HIGH" /\ out'.cnt = BitTime
      BY <3>1, <2>e, <2>n, <2>b
    <3>9. LedPhase'
      BY <3>7, <3>8, <2>n DEF LedPhase, After, During
    <3> QED
      BY <3>4, <3>8, <3>9, <2>g
  <2>4. CASE out.state = "HIGH"
    <3>1. Wire
      BY <2>4 DEF Wire
    <3>2. /\ out.cnt <= BitTime
          /\ IF out.cnt = BitTime THEN Before(Place)
             ELSE chain.high = BitTime - out.cnt /\ chain.low = 0 /\ B = Place
      BY <2>4, <2>t DEF LedPhase
    <3>3. chain'.good /\ chain'.bits = Place /\ chain'.low = 0 /\ chain'.high = BitTime - out.cnt + 1
      <4>1. /\ chain'.high = chain.high + 1 /\ chain'.low = 0 /\ chain'.bits = IF Paused THEN 0 ELSE B
            /\ chain'.good <=> (Paused => B \in {0, FrameBits})
        BY <3>1, <2>w
      <4>2. CASE out.cnt = BitTime
        BY <3>2, <4>1, <4>2, <2>n DEF Before
      <4>3. CASE out.cnt # BitTime
        <5>1. ~Paused
          BY <3>2, <4>3, <2>n DEF Paused
        <5> QED
          BY <3>2, <4>1, <4>3, <5>1, <2>n
      <4> QED
        BY <4>2, <4>3
    <3>4. CASE out.cnt # 0
      <4>1. LedPhase'
        BY <2>4, <3>2, <3>3, <3>4, <2>d, <2>n DEF LedPhase, After, During
      <4>2. OutOK
        BY <2>4, <3>4, <2>d, <2>n, <2>b
      <4> QED
        BY <3>3, <4>1, <4>2, <2>g
    <3>5. CASE out.cnt = 0
      <4>1. OutputReady
        BY <2>4, <3>5 DEF OutputReady
      <4>2. out' = [Enter("DATA", BitTime) EXCEPT !.data = Bit(led, mux), !.last = LastBit /\ led = LedCount - 1]
        BY <2>0, <2>4, <3>5 DEF OutputStep
      <4>3. /\ out'.state = "DATA" /\ out'.cnt = BitTime
            /\ out'.data = (Asked(Place) /\ Bright(Place)) /\ out'.last = (Place = FrameBits - 1)
            /\ out' = [state |-> out'.state, cnt |-> out'.cnt, data |-> out'.data, last |-> out'.last]
        BY <4>2, <2>p, <2>t DEF Enter, LedTypeOK
      <4>4. B = Place
        BY <3>2, <3>5, <2>n
      <4>5. Asked(Place) \in chain'.seen
        BY <3>1, <4>4, <2>w
      <4>6. Asked(Place) \in BOOLEAN
        BY DEF Asked
      <4>7. Bright(Place) \in BOOLEAN
        <5>1. Place % ColourBits \in 0 .. ColourBits - 1
          BY <2>p, LedNumbers, DivModBy
        <5> QED
          BY <5>1, LedNumbers, LedAssumption
      <4>8. OutOK
        BY <4>3, <4>6, <4>7, <2>n
      <4>9. DuringP(BitTime + 1)
        BY <3>3, <3>5, <4>3, <4>5, <4>6, <4>7, <2>n DEF During
      <4>10. Counted'
        BY <3>3, <4>1, <4>3, <2>p, <2>q, <2>n DEF Counted
      <4>11. LedPhase'
        BY <4>3, <4>9, <4>10, <2>n DEF LedPhase, After, During
      <4> QED
        BY <3>3, <4>8, <4>11, <2>g
    <3> QED
      BY <3>4, <3>5
  \* The pulse ends: it was long for a one and short for a zero.
  <2>h. ASSUME ~Wire, Counted, During(IF out.data THEN 2 * BitTime + 2 ELSE BitTime + 1), Place' = Place,
               out'.last = out.last
        PROVE  chain'.good /\ AfterP(1)
    <3>1. chain.high = (IF out.data THEN 2 * BitTime + 2 ELSE BitTime + 1) /\ chain.high # 0
      BY <2>h, <2>n DEF During
    <3>2. Pulse = out.data
      BY <3>1, <2>n, <2>b DEF Pulse
    <3>3. PulseRight
      BY <2>h, <3>2, <2>n DEF PulseRight, During, Counted
    <3> QED
      BY <2>h, <2>f, <3>1, <3>3, <2>n DEF After, Counted
  <2>k. ASSUME ~Wire, NEW c \in Nat, After(c), Place' = Place, out'.last = out.last, c < EndTime
        PROVE  chain'.good /\ AfterP(c + 1)
    BY <2>k, <2>l, <2>n DEF After, Paused
  <2>5. CASE out.state = "DATA"
    <3>1. /\ out.cnt <= BitTime
          /\ IF out.data THEN Counted /\ During(2 * BitTime + 1 - out.cnt)
             ELSE IF out.cnt = BitTime THEN Counted /\ During(BitTime + 1)
             ELSE After(BitTime - out.cnt)
      BY <2>5, <2>t DEF LedPhase
    <3>2. ~OutputReady /\ Wire = out.data /\ Place' = Place
      BY <2>5, <2>b, <2>q DEF OutputReady, Wire
    <3>3. out'.last = out.last /\ out'.data = out.data /\ OutOK
          /\ out'.state = (IF out.cnt = 0 THEN "LOW" ELSE "DATA")
          /\ out'.cnt = IF out.cnt = 0 THEN 2 * BitTime ELSE out.cnt - 1
      <4>1. CASE out.cnt = 0
        <5>1. out' = Enter("LOW", 2 * BitTime)
          BY <2>0, <2>5, <4>1 DEF OutputStep
        <5> QED
          BY <5>1, <4>1, <2>e, <2>n, <2>b
      <4>2. CASE out.cnt # 0
        BY <4>2, <2>5, <2>d, <2>n, <2>b
      <4> QED BY <4>1, <4>2
    <3>4. CASE out.data
      <4>1. Counted /\ During(2 * BitTime + 1 - out.cnt) /\ ~Paused
        <5>1. Counted /\ During(2 * BitTime + 1 - out.cnt)
          BY <3>1, <3>4
        <5>2. chain.low = 0
          BY <5>1 DEF During
        <5> QED
          BY <5>1, <5>2, <2>n DEF Paused
      <4>2. chain'.good /\ chain'.bits = B /\ chain'.low = 0 /\ chain'.high = 2 * BitTime + 2 - out.cnt /\ chain.seen \subseteq chain'.seen
        BY <4>1, <3>2, <3>4, <2>w, <2>n DEF During
      <4>3. Counted' /\ DuringP(2 * BitTime + 2 - out.cnt)
        BY <4>1, <4>2, <3>2, <3>3, <2>n DEF Counted, During
      <4>4. LedPhase'
        <5>1. CASE out.cnt = 0
          <6>1. 2 * BitTime + 2 - out.cnt = 2 * BitTime + 2
            BY <5>1, <2>n
          <6>2. Counted' /\ DuringP(2 * BitTime + 2) /\ out'.state = "LOW" /\ out'.cnt = 2 * BitTime /\ out'.data
            BY <6>1, <5>1, <4>3, <3>3, <3>4
          <6>4. out'.cnt <= 2 * BitTime
            BY <5>1, <3>3, <2>n
          <6>3. During(2 * BitTime + 2)'
            BY <6>2 DEF During
          <6> QED
            BY <6>2, <6>3, <6>4 DEF LedPhase
        <5>2. CASE out.cnt # 0
          <6>1. 2 * BitTime + 2 - out.cnt = 2 * BitTime + 1 - (out.cnt - 1)
            BY <2>n
          <6>2. DuringP(2 * BitTime + 1 - out'.cnt)
            BY <6>1, <5>2, <4>3, <3>3, <2>n DEF During
          <6>3. Counted' /\ out'.state = "DATA" /\ out'.cnt <= BitTime /\ out'.data
            BY <5>2, <4>3, <3>1, <3>3, <3>4, <2>n
          <6> QED
            BY <6>2, <6>3 DEF LedPhase, During
        <5> QED BY <5>1, <5>2
      <4> QED
        BY <4>2, <4>4, <3>3, <2>g
    <3>5. CASE ~out.data
      <4>1. chain'.good /\ AfterP(BitTime - out.cnt + 1)
        <5>1. CASE out.cnt = BitTime
          <6>1. Counted /\ During(BitTime + 1)
            BY <3>1, <3>5, <5>1
          <6>2. chain'.good /\ AfterP(1)
            BY <6>1, <3>2, <3>3, <3>5, <2>h
          <6>3. BitTime - out.cnt + 1 = 1
            BY <5>1, <2>n
          <6> QED
            BY <6>2, <6>3, <5>1, <2>n DEF After
        <5>2. CASE out.cnt # BitTime
          <6>1. After(BitTime - out.cnt) /\ BitTime - out.cnt \in Nat /\ BitTime - out.cnt < EndTime
            BY <3>1, <3>5, <5>2, <2>n
          <6> QED
            BY <6>1, <3>2, <3>3, <3>5, <2>k
        <5> QED BY <5>1, <5>2
      <4>2. LedPhase'
        <5>1. CASE out.cnt = 0
          <6>1. AfterP(3 * BitTime + 1 - out'.cnt)
            BY <5>1, <4>1, <3>3, <2>n DEF After
          <6> QED
            BY <6>1, <5>1, <3>3, <3>5, <2>n DEF LedPhase, After, During
        <5>2. CASE out.cnt # 0
          <6>1. AfterP(BitTime - out'.cnt)
            BY <5>2, <4>1, <3>1, <3>3, <2>n DEF After
          <6> QED
            BY <6>1, <5>2, <3>1, <3>3, <3>5, <2>n DEF LedPhase, After, During
        <5> QED BY <5>1, <5>2
      <4> QED
        BY <4>1, <4>2, <3>3, <2>g
    <3> QED
      BY <3>4, <3>5
  <2>6. CASE out.state = "LOW"
    <3>1. /\ out.cnt <= 2 * BitTime
          /\ IF ~out.data THEN After(3 * BitTime + 1 - out.cnt)
             ELSE IF out.cnt = 2 * BitTime THEN Counted /\ During(2 * BitTime + 2)
             ELSE After(2 * BitTime - out.cnt)
      BY <2>6, <2>t DEF LedPhase
    <3>2. ~OutputReady /\ ~Wire /\ Place' = Place
      BY <2>6, <2>q DEF OutputReady, Wire
    <3> DEFINE c == IF out.data THEN 2 * BitTime - out.cnt ELSE 3 * BitTime + 1 - out.cnt
    <3>3. out'.last = out.last /\ out'.data = out.data /\ OutOK
          /\ out'.state = (IF out.cnt # 0 THEN "LOW" ELSE IF out.last THEN "END" ELSE "HIGH")
          /\ out'.cnt = (IF out.cnt # 0 THEN out.cnt - 1 ELSE IF out.last THEN EndTime ELSE BitTime)
      <4>1. CASE out.cnt = 0
        <5>1. out' = IF out.last THEN Enter("END", EndTime) ELSE Enter("HIGH", BitTime)
          BY <2>0, <2>6, <4>1 DEF OutputStep
        <5>2. CASE out.last
          BY <5>1, <5>2, <4>1, <2>e, <2>n, <2>b
        <5>3. CASE ~out.last
          BY <5>1, <5>3, <4>1, <2>e, <2>n, <2>b
        <5> QED BY <5>2, <5>3
      <4>2. CASE out.cnt # 0
        BY <4>2, <2>6, <2>d, <2>n, <2>b
      <4> QED BY <4>1, <4>2
    <3>c. c \in Nat /\ c < EndTime - 1
      BY <3>1, <2>n
    <3>4. chain'.good /\ AfterP(c + 1)
      <4>1. CASE out.data /\ out.cnt = 2 * BitTime
        <5>1. Counted /\ During(2 * BitTime + 2) /\ c = 0
          BY <3>1, <4>1, <2>n
        <5>2. chain'.good /\ AfterP(1)
          BY <5>1, <4>1, <3>2, <3>3, <2>h
        <5> QED
          BY <5>1, <5>2
      <4>2. CASE ~(out.data /\ out.cnt = 2 * BitTime)
        <5>1. After(c)
          BY <3>1, <4>2
        <5> HIDE DEF c
        <5> QED
          BY <5>1, <3>c, <3>2, <3>3, <2>k, <2>n
      <4> QED BY <4>1, <4>2
    <3>5. /\ chain'.high = 0 /\ chain'.low = c + 1 /\ chain'.bits \in 1 .. FrameBits
          /\ out.last = (chain'.bits = FrameBits) /\ Place' = IF out.last THEN 0 ELSE chain'.bits
      <4> HIDE DEF c
      <4> QED
        BY <3>3, <3>4 DEF After
    <3>6. LedPhase'
      <4>1. CASE out.cnt # 0
        <5>1. CASE out.data
          <6>1. c + 1 = 2 * BitTime - (out.cnt - 1)
            BY <5>1, <2>n
          <6>2. AfterP(2 * BitTime - out'.cnt)
            BY <6>1, <3>4, <3>3, <4>1 DEF After
          <6>3. out'.state = "LOW" /\ out'.cnt <= 2 * BitTime /\ out'.cnt # 2 * BitTime /\ out'.data
            BY <5>1, <4>1, <3>1, <3>3, <2>n
          <6> QED
            BY <6>2, <6>3 DEF LedPhase, After
        <5>2. CASE ~out.data
          <6>1. c + 1 = 3 * BitTime + 1 - (out.cnt - 1)
            BY <5>2, <2>n
          <6>2. AfterP(3 * BitTime + 1 - out'.cnt)
            BY <6>1, <3>4, <3>3, <4>1 DEF After
          <6> QED
            BY <6>2, <5>2, <4>1, <3>1, <3>3, <2>n DEF LedPhase, After, During
        <5> QED BY <5>1, <5>2
      <4>2. CASE out.cnt = 0 /\ out.last
        <5>1. chain'.bits = FrameBits /\ Place' = 0 /\ chain'.low \in Nat
          BY <4>2, <3>5, <2>c
        <5> QED
          BY <5>1, <4>2, <3>3, <3>5, <2>n DEF LedPhase, After, During
      <4>3. CASE out.cnt = 0 /\ ~out.last
        <5>1. chain'.low < EndTime
          <6> HIDE DEF c
          <6> QED BY <3>5, <3>c, <2>n
        <5>2. Before(Place)'
          BY <5>1, <4>3, <3>5, <2>c, <2>n DEF Before, Paused
        <5> QED
          BY <5>2, <4>3, <3>3, <2>n DEF LedPhase, After, During
      <4> QED BY <4>1, <4>2, <4>3
    <3> QED
      BY <3>3, <3>4, <3>6, <2>g
  <2>7. CASE out.state = "END"
    <3>1. out.cnt <= EndTime /\ chain.high = 0 /\ B = FrameBits /\ Place = 0 /\ chain.low + out.cnt >= EndTime
      BY <2>7, <2>t DEF LedPhase, After, During
    <3>2. ~OutputReady /\ ~Wire /\ Place' = Place
      BY <2>7, <2>q DEF OutputReady, Wire
    <3>3. chain'.high = 0 /\ chain'.bits = FrameBits /\ chain'.good
          /\ chain'.low = IF Paused THEN chain.low ELSE chain.low + 1
      BY <3>1, <3>2, <2>l
    <3>4. CASE out.cnt # 0
      <4>1. LedPhase'
        BY <2>7, <3>1, <3>3, <3>4, <2>d, <2>n DEF LedPhase, Paused
      <4> QED
        BY <2>7, <3>3, <3>4, <4>1, <2>d, <2>n, <2>b, <2>g
    <3>5. CASE out.cnt = 0
      <4>1. out' = Enter("IDLE", 0)
        BY <2>0, <2>7, <3>5 DEF OutputStep
      <4>2. OutOK /\ out'.state = "IDLE" /\ out'.cnt = 0
        BY <4>1, <2>e, <2>b
      <4>3. Before(Place)' /\ Place' = 0
        BY <3>1, <3>2, <3>3, <3>5, <2>n DEF Before, Paused
      <4> QED
        BY <3>3, <4>2, <4>3, <2>g DEF LedPhase, After, During
    <3> QED
      BY <3>4, <3>5
  <2> QED
    BY <2>3, <2>4, <2>5, <2>6, <2>7, <2>t DEF LedPhase, After, During
<1> QED
  BY <1>1, <1>2

\* Every LED gets its own colours and every frame is whole and ends with its pause, for
\* any number of LEDs, any colour and any time of a bit, whenever the LEDs change.
THEOREM LedsAreRight == LedSpec => []LedsRight
<1>1. LedInit => LedInv
  BY LedInitInv
<1>2. LedInv /\ [LedNext]_ledVars => LedInv'
  BY LedStepInv
<1>3. LedInv => LedsRight
  BY DEF LedInv
<1> QED
  BY <1>1, <1>2, <1>3, PTL DEF LedSpec
-----------------------------------------------------------------------------
(***************************************************************************)
(* The control requests.                                                   *)
(***************************************************************************)
Rate == [1 .. Bytes -> 0 .. Base - 1]

LEMMA ControlConstants ==
  /\ Base \in Nat /\ Base >= 1 /\ Num \in Nat /\ ResMax \in Nat /\ Bytes \in Nat /\ Bytes >= 1
  /\ Rates \subseteq Rate
  BY ControlAssumption DEF Rate

LEMMA DigitStep ==
  ASSUME NEW B \in Nat, NEW R \in Nat, NEW d \in [1 .. B -> 0 .. R - 1], NEW n \in 1 .. B, NEW t \in Nat
  PROVE  d[B - n + 1] + R * t \in Nat
<1>1. B - n + 1 \in 1 .. B
  OBVIOUS
<1> DEFINE x == d[B - n + 1]
            y == R * t
<1>2. x \in Nat /\ y \in Nat
  BY <1>1
<1> HIDE DEF x, y
<1>3. x + y \in Nat
  BY <1>2
<1> QED
  BY <1>3 DEF x, y

LEMMA DigitsExist ==
  ASSUME NEW B \in Nat, NEW R \in Nat, NEW d \in [1 .. B -> 0 .. R - 1]
  PROVE  \E g \in [0 .. B -> Nat] :
           g = [n \in 0 .. B |-> IF n = 0 THEN 0 ELSE d[B - n + 1] + R * g[n - 1]]
<1> DEFINE next == [n \in 1 .. B |-> [t \in Nat |-> d[B - n + 1] + R * t]]
<1>1. ASSUME NEW n \in 1 .. B, NEW t \in Nat PROVE d[B - n + 1] + R * t \in Nat
  BY DigitStep
<1> DEFINE T == Nat
           zero == 0
           g == Recursion(B, T, zero, next)
<1>2. g \in [0 .. B -> Nat] /\ g[0] = 0 /\ \A n \in 1 .. B : g[n] = next[n][g[n - 1]]
  <2>1. zero \in T /\ next \in [1 .. B -> [T -> T]]
    BY <1>1
  <2> HIDE DEF next, T, zero
  <2>2. g \in [0 .. B -> T] /\ g[0] = zero /\ \A n \in 1 .. B : g[n] = next[n][g[n - 1]]
    BY <2>1, RecursionIs
  <2> QED
    BY <2>2 DEF T, zero
<1> HIDE DEF g, T, zero
<1>3. g = [n \in 0 .. B |-> IF n = 0 THEN 0 ELSE d[B - n + 1] + R * g[n - 1]]
  <2>1. ASSUME NEW n \in 0 .. B, n # 0 PROVE next[n][g[n - 1]] = d[B - n + 1] + R * g[n - 1]
    <3>1. n \in 1 .. B /\ n - 1 \in 0 .. B
      BY <2>1
    <3>2. g[n - 1] \in Nat
      BY <1>2, <3>1
    <3> QED
      BY <3>1, <3>2
  <2> HIDE DEF next
  <2>2. \A n \in 0 .. B : g[n] = IF n = 0 THEN 0 ELSE d[B - n + 1] + R * g[n - 1]
    <3>1. \A n \in 0 .. B : n # 0 => n \in 1 .. B
      OBVIOUS
    <3> QED
      BY <1>2, <2>1, <3>1, Zenon
  <2>3. g = [n \in 0 .. B |-> g[n]]
    BY <1>2
  <2>4. [n \in 0 .. B |-> g[n]] = [n \in 0 .. B |-> IF n = 0 THEN 0 ELSE d[B - n + 1] + R * g[n - 1]]
    BY <2>2, Zenon
  <2> QED
    BY <2>3, <2>4, Zenon
<1> QED
  BY <1>2, <1>3, Zenon

IsAbove(above, B, R, d) ==
  above = CHOOSE g : g = [n \in 0 .. B |-> IF n = 0 THEN 0 ELSE d[B - n + 1] + R * g[n - 1]]

LEMMA DigitsUnfold ==
  ASSUME NEW B \in Nat, NEW R \in Nat, NEW d \in [1 .. B -> 0 .. R - 1], NEW above, IsAbove(above, B, R, d)
  PROVE  above[0] = 0 /\ \A n \in 1 .. B : above[n] = d[B - n + 1] + R * above[n - 1]
<1>1. PICK g \in [0 .. B -> Nat] : g = [n \in 0 .. B |-> IF n = 0 THEN 0 ELSE d[B - n + 1] + R * g[n - 1]]
  BY DigitsExist, Zenon
<1>2. above = [n \in 0 .. B |-> IF n = 0 THEN 0 ELSE d[B - n + 1] + R * above[n - 1]]
  BY <1>1, Zenon DEF IsAbove
<1>3. \A n \in 0 .. B : above[n] = IF n = 0 THEN 0 ELSE d[B - n + 1] + R * above[n - 1]
  BY <1>2, Zenon
<1>4. 0 \in 0 .. B /\ \A n \in 1 .. B : n \in 0 .. B /\ n # 0
  OBVIOUS
<1> QED
  BY <1>3, <1>4, Zenon

\* The number is one, and is zero if all digits are.
LEMMA DigitsMakeNat ==
  ASSUME NEW B \in Nat, NEW R \in Nat, NEW d \in [1 .. B -> 0 .. R - 1], NEW above,
         above[0] = 0, \A n \in 1 .. B : above[n] = d[B - n + 1] + R * above[n - 1]
  PROVE  above[B] \in Nat /\ ((\A i \in 1 .. B : d[i] = 0) => above[B] = 0)
<1>1. ASSUME NEW n \in 1 .. B, NEW t \in Nat PROVE d[B - n + 1] + R * t \in Nat
  BY DigitStep
<1>2. \A n \in 1 .. B : above[n - 1] \in Nat => above[n] \in Nat
  BY <1>1
<1>3. \A n \in 0 .. B : above[n] \in Nat
  <2>1. above[0] \in Nat
    OBVIOUS
  <2> QED
    BY <1>2, <2>1, InductionUpTo
<1>4. ASSUME \A i \in 1 .. B : d[i] = 0 PROVE above[B] = 0
  <2>1. \A n \in 1 .. B : above[n - 1] = 0 => above[n] = 0
    <3>1. ASSUME NEW n \in 1 .. B PROVE d[B - n + 1] = 0
      BY <1>4
    <3>2. R * 0 = 0 /\ 0 + 0 = 0
      OBVIOUS
    <3> QED
      BY <3>1, <3>2
  <2> DEFINE T == {0}
  <2>2. \A n \in 1 .. B : above[n - 1] \in T => above[n] \in T
    BY <2>1
  <2>3. above[0] \in T
    OBVIOUS
  <2>4. \A x \in T : x = 0
    OBVIOUS
  <2> HIDE DEF T
  <2>5. \A n \in 0 .. B : above[n] \in T
    BY <2>2, <2>3, InductionUpTo
  <2> QED
    BY <2>4, <2>5
<1> QED
  BY <1>3, <1>4

LEMMA ValueIsNat ==
  ASSUME NEW d \in [1 .. Bytes -> 0 .. Base - 1]
  PROVE  ValueOf(d) \in Nat /\ ((\A i \in 1 .. Bytes : d[i] = 0) => ValueOf(d) = 0)
<1> DEFINE above == CHOOSE g : g = [n \in 0 .. Bytes |-> IF n = 0 THEN 0 ELSE d[Bytes - n + 1] + Base * g[n - 1]]
<1>1. above[0] = 0 /\ \A n \in 1 .. Bytes : above[n] = d[Bytes - n + 1] + Base * above[n - 1]
  <2>1. Bytes \in Nat /\ Base \in Nat
    BY ControlConstants
  <2>2. IsAbove(above, Bytes, Base, d)
    BY Zenon DEF IsAbove
  <2> HIDE DEF above
  <2> QED
    BY <2>1, <2>2, DigitsUnfold
<1>2. ValueOf(d) = above[Bytes]
  BY DEF ValueOf
<1> HIDE DEF above
<1> QED
  BY <1>1, <1>2, ControlConstants, DigitsMakeNat, ZenonT(60)

-----------------------------------------------------------------------------
Ops == {"SET_INPUT_FORMAT", "SET_INTERFACE", "SET_ASYNC_BAUDRATE", "SET_ENABLE", "SET_VOLTAGE",
        "SET_LINE_CODING", "UNHANDLED"}

\* A request as the host makes it, and who answers to its kind.
RequestOK(s) ==
  /\ s.to \in Handlers /\ s.op \in Ops
  /\ s.op \in {"SET_INPUT_FORMAT", "SET_ASYNC_BAUDRATE"} => s.to = "trace"
  /\ s.op \in {"SET_ENABLE", "SET_VOLTAGE"} => s.to = "power"
  /\ s.op = "SET_ASYNC_BAUDRATE" => s.data \in Rates

OfChannels(f) == f = [c \in Channels |-> f[c]]

\* A rate is on its way: the digits that the divider sees may change.
RateComes == stage # "done" /\ setup.op = "SET_ASYNC_BAUDRATE"

ControlType ==
  /\ stage \in {"data", "status", "done"}
  /\ stage # "done" => RequestOK(setup)
  /\ start \in BOOLEAN /\ done \in BOOLEAN /\ damaged \in BOOLEAN
  /\ fsm = [h \in Handlers |-> fsm[h]]
  /\ OfChannels(en) /\ OfChannels(sel) /\ OfChannels(want.en) /\ OfChannels(want.sel)
  /\ want.rate \in Rate

\* The handler of the request is in the state for it; the others change nothing that is sure.
HandlersRight ==
  \A h \in Handlers :
    IF stage # "done" /\ h = setup.to THEN fsm[h] = setup.op ELSE Touched(fsm[h]) \subseteq unsure

\* The request under way, if any, has made its setting; what is sure is besides what the
\* answered ones made it.
Op == IF stage = "done" THEN "UNHANDLED" ELSE setup.op
Made(setting) == Sure(setting) \/ (stage # "done" /\ setting \in Changes(setup))

SettingsOK ==
  /\ Made(<<"format", 0>>) => input_format = Format(Op, setup, want.format)
  /\ \A c \in Channels :
       /\ Made(<<"en", c>>) => en[c] = Enables(Op, setup, want.en)[c]
       /\ Made(<<"sel", c>>) => sel[c] = Selects(Op, setup, want.sel)[c]

RateRight ==
  IF RateComes
  THEN ~damaged => /\ stage = "data" => idx = 0
                   /\ stage = "status" => async_baudrate = setup.data
  ELSE Sure(<<"rate", 0>>) => async_baudrate = want.rate

\* What the divider has taken off the numerator so often, while the rate is the one it began
\* with; at a rate of zero only the limit ends it.
DividerRight ==
  /\ start => done
  /\ ~start => LET den == ValueOf(want.rate)
               IN  /\ acc \in Nat /\ res \in 0 .. ResMax
                   /\ ~done /\ den # 0 => acc + den * res = Num
                   /\ done => res = Quotient(Num, den)

BitsRight == ~RateComes /\ Sure(<<"rate", 0>>) /\ Sure(<<"bits", 0>>) => DividerRight

ControlInv == ControlType /\ HandlersRight /\ SettingsOK /\ RateRight /\ BitsRight

LEMMA RatesComeInPieces ==
  ASSUME NEW d \in Rates
  PROVE  d \in Rate /\ Len(d) = Bytes /\ d # << >>
<1>1. d \in [1 .. Bytes -> 0 .. Base - 1] /\ d \in Rate
  BY ControlConstants DEF Rate
<1>2. Len(d) = Bytes
  BY <1>1, ControlConstants
<1>3. Len(<< >>) = 0
  OBVIOUS
<1> QED
  BY <1>1, <1>2, <1>3, ControlConstants

LEMMA RequestsOK ==
  ASSUME NEW s \in Requests
  PROVE  RequestOK(s) /\ (s.op = "SET_ASYNC_BAUDRATE" => s.data # << >>)
  BY RatesComeInPieces DEF Requests, Request, RequestOK, Handlers, Ops

\* Settings of a handler that has none to make, or makes one twice.
LEMMA NoSetting ==
  ASSUME NEW f, NEW s, NEW old, OfChannels(old)
  PROVE  /\ f # "SET_ENABLE" => Enables(f, s, old) = old
         /\ f # "SET_VOLTAGE" => Selects(f, s, old) = old
         /\ OfChannels(Enables(f, s, old)) /\ OfChannels(Selects(f, s, old))
         /\ Enables(f, s, Enables(f, s, old)) = Enables(f, s, old)
         /\ Selects(f, s, Selects(f, s, old)) = Selects(f, s, old)
  BY DEF Enables, Selects, OfChannels

\* The settings a request names, and a state may change.
LEMMA ChangesAre ==
  ASSUME NEW s
  PROVE  /\ <<"format", 0>> \in Changes(s) <=> s.op = "SET_INPUT_FORMAT"
         /\ <<"rate", 0>> \in Changes(s) <=> s.op = "SET_ASYNC_BAUDRATE"
         /\ <<"bits", 0>> \notin Changes(s)
         /\ \A c \in Channels : <<"en", c>> \in Changes(s) <=> s.op = "SET_ENABLE" /\ Named(s, c)
         /\ \A c \in Channels : <<"sel", c>> \in Changes(s) <=>
              s.op = "SET_VOLTAGE" /\ s.channel = c /\ s.value \in DOMAIN Voltages[c + 1]
<1>1. CASE s.op = "SET_INPUT_FORMAT"
  BY <1>1 DEF Changes
<1>2. CASE s.op = "SET_ASYNC_BAUDRATE"
  BY <1>2 DEF Changes
<1>3. CASE s.op = "SET_ENABLE"
  BY <1>3 DEF Changes
<1>4. CASE s.op = "SET_VOLTAGE"
  BY <1>4 DEF Changes
<1>5. CASE s.op \notin {"SET_INPUT_FORMAT", "SET_ASYNC_BAUDRATE", "SET_ENABLE", "SET_VOLTAGE"}
  BY <1>5 DEF Changes
<1> QED
  BY <1>1, <1>2, <1>3, <1>4, <1>5

LEMMA TouchedAre ==
  /\ <<"format", 0>> \in Touched("SET_INPUT_FORMAT")
  /\ <<"rate", 0>> \in Touched("SET_ASYNC_BAUDRATE")
  /\ \A c \in Channels : <<"en", c>> \in Touched("SET_ENABLE") /\ <<"sel", c>> \in Touched("SET_VOLTAGE")
  /\ Touched("IDLE") = {} /\ Touched("UNHANDLED") = {}
  BY DEF Touched

\* A channel by itself.
LEMMA OneChannel ==
  ASSUME NEW f, NEW s, NEW old, NEW c \in Channels
  PROVE  /\ Enables(f, s, old)[c] = IF f = "SET_ENABLE" /\ Named(s, c) THEN s.value % 2 ELSE old[c]
         /\ Selects(f, s, old)[c] = IF f = "SET_VOLTAGE" /\ s.channel = c /\ s.value \in DOMAIN Voltages[c + 1]
                                    THEN Voltages[c + 1][s.value] ELSE old[c]
  BY DEF Enables, Selects

-----------------------------------------------------------------------------
LEMMA ControlStarts == ControlInit => ControlInv
<1> SUFFICES ASSUME ControlInit PROVE ControlInv
  OBVIOUS
<1>1. [i \in 1 .. Bytes |-> 0] \in Rate
  BY ControlConstants DEF Rate
<1>2. ControlType
  BY <1>1 DEF ControlInit, ControlType, OfChannels
<1>3. HandlersRight
  BY TouchedAre DEF ControlInit, HandlersRight
<1>4. SettingsOK
  BY OneChannel DEF ControlInit, SettingsOK, Op, Format
<1>5. RateRight
  BY DEF ControlInit, RateRight, RateComes
<1>6. DividerRight
  <2> DEFINE den == ValueOf(want.rate)
  <2>1. den = 0
    BY <1>1, ValueIsNat DEF ControlInit, Rate
  <2> HIDE DEF den
  <2>2. ~start /\ acc = 0 /\ res = 0 /\ ~done
    BY DEF ControlInit
  <2> QED
    BY <2>1, <2>2, ControlConstants DEF DividerRight, den
<1> QED
  BY <1>2, <1>3, <1>4, <1>5, <1>6 DEF ControlInv, BitsRight

LEMMA RequestKeeps ==
  ASSUME ControlInv, NEW s \in Requests, Setup(s)
  PROVE  ControlInv'
<1>1. RequestOK(s) /\ (s.op = "SET_ASYNC_BAUDRATE" => s.data # << >>)
  BY RequestsOK
<1>2. ControlType /\ HandlersRight /\ SettingsOK /\ RateRight /\ BitsRight
  BY DEF ControlInv
<1>3. /\ setup' = s /\ stage' \in {"data", "status"} /\ (s.data # << >> => stage' = "data") /\ ~damaged'
      /\ unsure' = IF stage # "done" /\ s # setup THEN unsure \cup Touched(setup.op) ELSE unsure
      /\ \A h \in Handlers : fsm'[h] = IF s.to = h THEN s.op ELSE fsm[h]
      /\ UNCHANGED <<async_baudrate, start, acc, res, done, want>>
  BY DEF Setup, dividerVars, Dispatched
<1>4. ControlType'
  <2>1. OfChannels(en') /\ OfChannels(sel')
    BY <1>2, NoSetting DEF Setup, ControlType
  <2>2. fsm' = [h \in Handlers |-> fsm'[h]] /\ damaged' \in BOOLEAN
    BY DEF Setup
  <2> QED
    BY <1>1, <1>2, <1>3, <2>1, <2>2 DEF ControlType, OfChannels
\* What a state may change that is not that of this request is not sure any more.
<1>5. /\ \A h \in Handlers : (s.op = fsm[h] /\ s = setup) \/ Touched(fsm[h]) \subseteq unsure'
      /\ unsure \subseteq unsure'
      /\ stage # "done" => s = setup \/ Touched(setup.op) \subseteq unsure'
  BY <1>2, <1>3 DEF HandlersRight
<1>6. HandlersRight'
  <2> SUFFICES ASSUME NEW h \in Handlers
               PROVE  IF h = s.to THEN fsm'[h] = s.op ELSE Touched(fsm'[h]) \subseteq unsure'
    BY <1>3 DEF HandlersRight
  <2>1. CASE h = s.to
    BY <1>3, <2>1
  <2>2. CASE h # s.to
    <3>1. fsm'[h] = fsm[h]
      BY <1>3, <2>2
    <3>2. CASE stage # "done" /\ h = setup.to
      BY <1>2, <1>3, <2>2, <3>1, <3>2 DEF HandlersRight
    <3>3. CASE ~(stage # "done" /\ h = setup.to)
      BY <1>2, <1>5, <2>2, <3>1, <3>3 DEF HandlersRight
    <3> QED
      BY <2>2, <3>2, <3>3
  <2> QED
    BY <2>1, <2>2
<1>7. Op' = s.op /\ (\A x : Made(x)' <=> x \notin unsure' \/ x \in Changes(s))
  BY <1>3 DEF Op, Made, Sure
<1>8. ASSUME Made(<<"format", 0>>)' PROVE input_format' = Format(Op', s, want.format)
  <2>1. input_format' = Format(fsm'["trace"], s, Format(fsm["trace"], s, input_format))
    BY DEF Setup
  <2>2. CASE s.op = "SET_INPUT_FORMAT"
    BY <1>1, <1>3, <1>7, <2>1, <2>2 DEF Format, RequestOK, Handlers
  <2>3. CASE s.op # "SET_INPUT_FORMAT"
    <3>1. <<"format", 0>> \notin unsure'
      BY <1>7, <1>8, <2>3, ChangesAre
    <3>2. fsm["trace"] # "SET_INPUT_FORMAT" /\ fsm'["trace"] # "SET_INPUT_FORMAT" /\ Op # "SET_INPUT_FORMAT"
      BY <1>3, <1>5, <2>3, <3>1, TouchedAre DEF Handlers, Op
    <3>3. Made(<<"format", 0>>)
      BY <1>5, <3>1 DEF Made, Sure
    <3> QED
      BY <1>2, <1>7, <2>1, <2>3, <3>2, <3>3 DEF SettingsOK, Format
  <2> QED
    BY <2>2, <2>3
<1>9. ASSUME NEW c \in Channels, Made(<<"en", c>>)' PROVE en'[c] = Enables(Op', s, want.en)[c]
  <2> DEFINE f == fsm["power"]
             g == fsm'["power"]
  <2>1. en' = Enables(g, s, Enables(f, s, en))
    BY DEF Setup
  <2>2. CASE s.op = "SET_ENABLE" /\ Named(s, c)
    <3>1. g = "SET_ENABLE"
      BY <1>1, <1>3, <2>2 DEF RequestOK, Handlers
    <3> QED
      BY <1>7, <2>1, <2>2, <3>1, OneChannel
  <2>3. CASE ~(s.op = "SET_ENABLE" /\ Named(s, c))
    <3>1. <<"en", c>> \notin unsure'
      BY <1>7, <1>9, <2>3, ChangesAre
    <3>2. f = "SET_ENABLE" => s.op = "SET_ENABLE"
      BY <1>5, <3>1, TouchedAre DEF Handlers
    <3>3. g = "SET_ENABLE" => s.op = "SET_ENABLE"
      BY <1>3, <3>2 DEF Handlers
    <3>4. Op = "SET_ENABLE" => s = setup
      BY <1>5, <3>1, TouchedAre DEF Op
    <3>5. en'[c] = en[c]
      BY <2>1, <2>3, <3>2, <3>3, OneChannel
    <3>6. Made(<<"en", c>>)
      BY <1>5, <3>1 DEF Made, Sure
    <3>7. en[c] = Enables(Op, setup, want.en)[c]
      BY <1>2, <3>6 DEF SettingsOK
    <3>8. en[c] = want.en[c]
      BY <2>3, <3>4, <3>7, OneChannel DEF Op
    <3> QED
      BY <1>7, <2>3, <3>5, <3>8, OneChannel
  <2> QED
    BY <2>2, <2>3
<1>10. ASSUME NEW c \in Channels, Made(<<"sel", c>>)' PROVE sel'[c] = Selects(Op', s, want.sel)[c]
  <2> DEFINE f == fsm["power"]
             g == fsm'["power"]
             Takes == s.channel = c /\ s.value \in DOMAIN Voltages[c + 1]
  <2>1. sel' = Selects(g, s, Selects(f, s, sel))
    BY DEF Setup
  <2>2. CASE s.op = "SET_VOLTAGE" /\ Takes
    <3>1. g = "SET_VOLTAGE"
      BY <1>1, <1>3, <2>2 DEF RequestOK, Handlers
    <3> QED
      BY <1>7, <2>1, <2>2, <3>1, OneChannel
  <2>3. CASE ~(s.op = "SET_VOLTAGE" /\ Takes)
    <3>1. <<"sel", c>> \notin unsure'
      BY <1>7, <1>10, <2>3, ChangesAre
    <3>2. f = "SET_VOLTAGE" => s.op = "SET_VOLTAGE"
      BY <1>5, <3>1, TouchedAre DEF Handlers
    <3>3. g = "SET_VOLTAGE" => s.op = "SET_VOLTAGE"
      BY <1>3, <3>2 DEF Handlers
    <3>4. Op = "SET_VOLTAGE" => s = setup
      BY <1>5, <3>1, TouchedAre DEF Op
    <3>5. sel'[c] = sel[c]
      BY <2>1, <2>3, <3>2, <3>3, OneChannel
    <3>6. Made(<<"sel", c>>)
      BY <1>5, <3>1 DEF Made, Sure
    <3>7. sel[c] = Selects(Op, setup, want.sel)[c]
      BY <1>2, <3>6 DEF SettingsOK
    <3>8. sel[c] = want.sel[c]
      BY <2>3, <3>4, <3>7, OneChannel DEF Op
    <3> QED
      BY <1>7, <2>3, <3>5, <3>8, OneChannel
  <2> QED
    BY <2>2, <2>3
<1>11. SettingsOK'
  BY <1>3, <1>8, <1>9, <1>10 DEF SettingsOK
<1>12. RateRight' /\ BitsRight'
  <2>1. CASE s.op = "SET_ASYNC_BAUDRATE"
    <3>1. idx' = 0
      BY <1>1, <2>1 DEF Setup, RequestOK, FirstByte
    <3> QED
      BY <1>1, <1>3, <2>1, <3>1 DEF RateRight, BitsRight, RateComes
  <2>2. CASE s.op # "SET_ASYNC_BAUDRATE"
    <3>1. ~RateComes'
      BY <1>3, <2>2 DEF RateComes
    <3>2. ASSUME <<"rate", 0>> \notin unsure' PROVE ~RateComes /\ <<"rate", 0>> \notin unsure
      BY <1>5, <2>2, <3>2, TouchedAre DEF RateComes
    <3>3. RateRight'
      BY <1>2, <1>3, <3>1, <3>2 DEF RateRight, Sure
    <3>4. ASSUME <<"rate", 0>> \notin unsure', <<"bits", 0>> \notin unsure' PROVE DividerRight'
      <4>1. DividerRight
        BY <1>2, <1>5, <3>2, <3>4 DEF BitsRight, Sure
      <4> QED
        BY <1>3, <4>1 DEF DividerRight
    <3> QED
      BY <3>3, <3>4 DEF BitsRight, Sure
  <2> QED
    BY <2>1, <2>2
<1> QED
  BY <1>4, <1>6, <1>11, <1>12 DEF ControlInv

\* Bytes are taken for a rate only if they are of one, or no rate is sure.
LEMMA BytesTaken ==
  ASSUME ControlInv, stage # "done", fsm["trace"] = "SET_ASYNC_BAUDRATE"
  PROVE  RateComes \/ ~Sure(<<"rate", 0>>)
<1>1. CASE setup.to = "trace"
  BY <1>1 DEF ControlInv, HandlersRight, Handlers, RateComes
<1>2. CASE setup.to # "trace"
  BY <1>2, TouchedAre DEF ControlInv, HandlersRight, Handlers, Sure
<1> QED
  BY <1>1, <1>2

LEMMA RatePacketKeeps ==
  ASSUME ControlInv, Data
  PROVE  ControlInv'
<1>1. ControlType /\ HandlersRight /\ SettingsOK /\ RateRight /\ BitsRight
  BY DEF ControlInv
<1>2. /\ stage = "data" /\ stage' \in {"status", "done"} /\ (stage' = "done" <=> fsm[setup.to] = "UNHANDLED")
      /\ \A h \in Handlers : fsm'[h] = IF fsm[h] = "UNHANDLED" THEN "IDLE" ELSE fsm[h]
      /\ UNCHANGED <<setup, input_format, en, sel, start, acc, res, done, want, unsure, damaged>>
  BY DEF Data, Stalled, powerVars, dividerVars
<1>3. RequestOK(setup) /\ fsm[setup.to] = setup.op
  BY <1>1, <1>2 DEF ControlType, HandlersRight, RequestOK
<1>4. ControlType'
  <2>1. fsm' = [h \in Handlers |-> fsm'[h]]
    BY DEF Data, Stalled
  <2> QED
    BY <1>1, <1>2, <1>3, <2>1 DEF ControlType, OfChannels
<1>5. HandlersRight'
  BY <1>1, <1>2, <1>3, TouchedAre DEF HandlersRight
<1>6. Op' = Op /\ \A x : Made(x)' => Made(x)
  BY <1>2, <1>3 DEF Op, Made, Sure
<1>7. SettingsOK'
  BY <1>1, <1>2, <1>6 DEF SettingsOK
<1>8. RateComes' <=> RateComes
  BY <1>2, <1>3 DEF RateComes
<1>9. RateRight'
  <2>1. CASE RateComes
    <3> DEFINE d == setup.data
    <3>1. d \in Rate /\ Len(d) = Bytes /\ stage' = "status" /\ fsm["trace"] = "SET_ASYNC_BAUDRATE"
      BY <1>2, <1>3, <2>1, RatesComeInPieces DEF RateComes, RequestOK
    <3>2. async_baudrate' = [i \in 1 .. Bytes |->
             IF i > idx /\ i - idx <= Len(d) THEN d[i - idx] ELSE async_baudrate[i]]
      BY <3>1 DEF Data, Bytewise
    <3> HIDE DEF d
    <3>3. \A i \in 1 .. Bytes : i > 0 /\ i - 0 <= Bytes /\ i - 0 = i
      BY ControlConstants
    <3>4. ASSUME ~damaged PROVE async_baudrate' = d
      <4>1. idx = 0
        BY <1>1, <1>2, <2>1, <3>4 DEF RateRight
      <4> QED
        BY <3>1, <3>2, <3>3, <4>1 DEF Rate
    <3> QED
      BY <1>2, <1>8, <2>1, <3>1, <3>4 DEF RateRight, d
  <2>2. CASE ~RateComes
    <3>1. Sure(<<"rate", 0>>) => UNCHANGED async_baudrate
      BY <1>2, <2>2, BytesTaken DEF Data, Bytewise
    <3> QED
      BY <1>1, <1>2, <1>8, <2>2, <3>1 DEF RateRight, Sure
  <2> QED
    BY <2>1, <2>2
<1>10. BitsRight'
  BY <1>1, <1>2, <1>8 DEF BitsRight, DividerRight, Sure
<1> QED
  BY <1>4, <1>5, <1>7, <1>9, <1>10 DEF ControlInv

LEMMA DamagedRateKeeps ==
  ASSUME ControlInv, DamagedData
  PROVE  ControlInv'
<1>1. ControlType /\ HandlersRight /\ SettingsOK /\ RateRight /\ BitsRight
  BY DEF ControlInv
<1>2. UNCHANGED <<setup, stage, fsm, input_format, en, sel, start, acc, res, done, want, unsure>> /\ stage = "data"
  BY DEF DamagedData, powerVars, dividerVars
<1>3. PICK d \in Remains :
        Bytewise(d) /\ damaged' = (damaged \/ (fsm["trace"] = "SET_ASYNC_BAUDRATE" /\ d # << >>))
  BY DEF DamagedData
<1>4. ControlType'
  BY <1>1, <1>2, <1>3 DEF ControlType, OfChannels
<1>5. HandlersRight' /\ SettingsOK'
  BY <1>1, <1>2 DEF HandlersRight, SettingsOK, Op, Made, Sure
<1>6. RateRight'
  <2>1. CASE RateComes
    <3>1. fsm["trace"] = "SET_ASYNC_BAUDRATE"
      BY <1>1, <1>2, <2>1 DEF ControlType, HandlersRight, RequestOK, RateComes
    <3>2. ASSUME ~damaged' PROVE idx' = 0
      <4>1. d = << >> /\ ~damaged
        BY <1>3, <3>1, <3>2
      <4>2. idx' = idx + 0 /\ idx = 0
        BY <1>1, <1>2, <1>3, <2>1, <3>1, <4>1 DEF Bytewise, RateRight
      <4> QED
        BY <4>2
    <3> QED
      BY <1>2, <2>1, <3>2 DEF RateRight, RateComes
  <2>2. CASE ~RateComes
    <3>1. Sure(<<"rate", 0>>) => UNCHANGED async_baudrate
      BY <1>2, <1>3, <2>2, BytesTaken DEF Bytewise
    <3> QED
      BY <1>1, <1>2, <2>2, <3>1 DEF RateRight, RateComes, Sure
  <2> QED
    BY <2>1, <2>2
<1>7. BitsRight'
  BY <1>1, <1>2 DEF BitsRight, DividerRight, RateComes, Sure
<1> QED
  BY <1>4, <1>5, <1>6, <1>7 DEF ControlInv

LEMMA AnswerKeeps ==
  ASSUME ControlInv, Status
  PROVE  ControlInv'
<1>1. ControlType /\ HandlersRight /\ SettingsOK /\ RateRight /\ BitsRight
  BY DEF ControlInv
<1>2. /\ UNCHANGED <<setup, async_baudrate, idx, input_format, en, sel, acc, res, done, damaged>>
      /\ stage = "status" /\ stage' = "done" /\ fsm' = [h \in Handlers |-> "IDLE"]
      /\ start' = (start \/ fsm["trace"] = "SET_ASYNC_BAUDRATE")
      /\ unsure' = (unsure \ (Changes(setup) \cup Restarted)) \cup Pieces \cup TooEarly
  BY DEF Status, traceVars, powerVars
<1>3. RequestOK(setup) /\ fsm[setup.to] = setup.op
  BY <1>1, <1>2 DEF ControlType, HandlersRight, RequestOK
<1>4. OfChannels(want.en) /\ OfChannels(want.sel) /\ want.rate \in Rate
  BY <1>1 DEF ControlType
<1>5. setup.op = "SET_ASYNC_BAUDRATE" => setup.data \in Rate
  BY <1>3, RatesComeInPieces DEF RequestOK
\* The request was answered, or would have changed nothing.
<1>6. /\ want'.format = Format(setup.op, setup, want.format)
      /\ want'.en = Enables(setup.op, setup, want.en) /\ want'.sel = Selects(setup.op, setup, want.sel)
      /\ want'.rate = IF setup.op = "SET_ASYNC_BAUDRATE" THEN setup.data ELSE want.rate
  <2>1. CASE Accepts(setup)
    BY <2>1 DEF Status, Settings
  <2>2. CASE ~Accepts(setup)
    <3>1. want' = want
      BY <2>2 DEF Status
    <3>2. CASE setup.op = "SET_ENABLE"
      <4>1. \A c \in Channels : ~Named(setup, c)
        BY <2>2, <3>2 DEF Accepts
      <4>2. Enables(setup.op, setup, want.en) = want.en
        BY <1>4, <4>1 DEF Enables, OfChannels
      <4> QED
        BY <1>4, <3>1, <3>2, <4>2, NoSetting DEF Format
    <3>3. CASE setup.op = "SET_VOLTAGE"
      <4>1. \A c \in Channels : ~(setup.channel = c /\ setup.value \in DOMAIN Voltages[c + 1])
        BY <2>2, <3>3 DEF Accepts
      <4>2. Selects(setup.op, setup, want.sel) = want.sel
        BY <1>4, <4>1 DEF Selects, OfChannels
      <4> QED
        BY <1>4, <3>1, <3>3, <4>2, NoSetting DEF Format
    <3>4. CASE setup.op = "UNHANDLED"
      BY <1>4, <3>1, <3>4, NoSetting DEF Format
    <3> QED
      BY <2>2, <3>2, <3>3, <3>4 DEF Accepts
  <2> QED
    BY <2>1, <2>2
<1>7. ControlType'
  <2>1. OfChannels(want'.en) /\ OfChannels(want'.sel) /\ want'.rate \in Rate
    BY <1>4, <1>5, <1>6, NoSetting
  <2> QED
    BY <1>1, <1>2, <2>1 DEF ControlType, OfChannels
<1>8. HandlersRight'
  BY <1>2, TouchedAre DEF HandlersRight
<1>9. /\ \A x : x # <<"bits", 0>> /\ Made(x)' => Made(x)
      /\ Op = setup.op /\ Op' = "UNHANDLED"
  BY <1>2 DEF Made, Sure, Op, Restarted
<1>10. SettingsOK'
  <2>1. Made(<<"format", 0>>)' => input_format' = Format(Op', setup', want'.format)
    BY <1>1, <1>2, <1>6, <1>9 DEF SettingsOK, Format
  <2>2. ASSUME NEW c \in Channels
        PROVE  /\ Made(<<"en", c>>)' => en'[c] = Enables(Op', setup', want'.en)[c]
               /\ Made(<<"sel", c>>)' => sel'[c] = Selects(Op', setup', want'.sel)[c]
    <3>1. Enables(Op', setup', want'.en)[c] = want'.en[c] /\ Selects(Op', setup', want'.sel)[c] = want'.sel[c]
      BY <1>9, OneChannel
    <3>2. <<"en", c>> # <<"bits", 0>> /\ <<"sel", c>> # <<"bits", 0>>
      OBVIOUS
    <3> QED
      BY <1>1, <1>2, <1>6, <1>9, <3>1, <3>2 DEF SettingsOK
  <2> QED
    BY <2>1, <2>2 DEF SettingsOK
<1>11. ~RateComes'
  BY <1>2 DEF RateComes
<1>12. RateRight'
  <2> SUFFICES ASSUME <<"rate", 0>> \notin unsure' PROVE async_baudrate' = want'.rate
    BY <1>11 DEF RateRight, Sure
  <2>1. CASE setup.op = "SET_ASYNC_BAUDRATE"
    <3>1. ~damaged /\ RateComes
      BY <1>2, <2>1 DEF Pieces, RateComes
    <3> QED
      BY <1>1, <1>2, <1>6, <2>1, <3>1 DEF RateRight
  <2>2. CASE setup.op # "SET_ASYNC_BAUDRATE"
    <3>1. ~RateComes /\ <<"rate", 0>> \notin unsure
      BY <1>2, <2>2, ChangesAre DEF RateComes, Restarted
    <3> QED
      BY <1>1, <1>2, <1>6, <2>2, <3>1 DEF RateRight, Sure
  <2> QED
    BY <2>1, <2>2
<1>13. BitsRight'
  <2> SUFFICES ASSUME <<"rate", 0>> \notin unsure', <<"bits", 0>> \notin unsure' PROVE DividerRight'
    BY DEF BitsRight, Sure
  <2>1. CASE fsm["trace"] = "SET_ASYNC_BAUDRATE"
    <3>1. ~start /\ done
      <4>1. <<"bits", 0>> \notin TooEarly
        BY <1>2
      <4> QED
        BY <1>1, <2>1, <4>1 DEF TooEarly, ControlType
    <3>2. start' /\ done'
      BY <1>1, <1>2, <2>1, <3>1 DEF ControlType
    <3> QED
      BY <3>2 DEF DividerRight
  <2>2. CASE fsm["trace"] # "SET_ASYNC_BAUDRATE"
    <3>1. setup.op # "SET_ASYNC_BAUDRATE"
      BY <1>3, <2>2 DEF RequestOK
    <3>2. ~RateComes /\ <<"rate", 0>> \notin unsure /\ <<"bits", 0>> \notin unsure
      BY <1>2, <2>2, <3>1, ChangesAre DEF RateComes, Restarted
    <3>3. DividerRight
      BY <1>1, <3>2 DEF BitsRight, Sure
    <3>4. start' = start
      BY <1>1, <1>2, <2>2 DEF ControlType
    <3> QED
      BY <1>2, <1>6, <3>1, <3>3, <3>4 DEF DividerRight
  <2> QED
    BY <2>1, <2>2
<1> QED
  BY <1>7, <1>8, <1>10, <1>12, <1>13 DEF ControlInv

-----------------------------------------------------------------------------
\* The divider may stop when it cannot take the rate off again, or has counted to its limit.
LEMMA QuotientFound ==
  ASSUME NEW n \in Nat, NEW d \in Nat, NEW a \in Nat, NEW r \in 0 .. ResMax,
         d # 0 => a + d * r = n, a < d \/ r = ResMax
  PROVE  r = Quotient(n, d)
<1>0. ResMax \in Nat
  BY ControlConstants
<1>1. CASE d = 0
  BY <1>0, <1>1 DEF Quotient
<1>2. CASE d # 0
  <2> DEFINE k == a \div d
             l == a % d
  <2>1. k \in Int /\ l \in 0 .. d - 1 /\ a = d * k + l
    BY <1>2, DivModBy
  <2> HIDE DEF k, l
  <2>2. d * (r + k) = d * r + d * k
    BY <2>1
  <2>3. n = d * (r + k) + l
    BY <1>2, <2>1, <2>2
  <2>4. n \div d = r + k
    BY <1>2, <2>1, <2>3, DivUniqueBy
  <2>5. ASSUME a < d PROVE k = 0
    <3>1. a = d * 0 + a /\ a \in 0 .. d - 1
      BY <2>5
    <3> QED
      BY <1>2, <3>1, DivUniqueBy DEF k
  <2>6. k >= 0
    <3>1. ASSUME k <= -1 PROVE FALSE
      <4>1. d * (-k) >= d
        <5>1. PICK e \in Nat : -k = 1 + e
          BY <2>1, <3>1
        <5>2. d * e >= 0 /\ d * (1 + e) = d + d * e
          OBVIOUS
        <5> QED
          BY <5>1, <5>2
      <4>2. d * (-k) = -(d * k)
        BY <2>1
      <4> QED
        BY <2>1, <4>1, <4>2
    <3> QED
      BY <2>1, <3>1
  <2>7. CASE a < d
    BY <1>0, <1>2, <2>4, <2>5, <2>7 DEF Quotient
  <2>8. CASE r = ResMax
    BY <1>0, <1>2, <2>1, <2>4, <2>6, <2>8 DEF Quotient
  <2> QED
    BY <2>7, <2>8
<1> QED
  BY <1>1, <1>2

LEMMA DivideKeeps ==
  ASSUME ControlInv, Divide
  PROVE  ControlInv'
<1>1. UNCHANGED <<setup, stage, fsm, async_baudrate, idx, input_format, en, sel, want, unsure, damaged>> /\ start' = FALSE
  BY DEF Divide, traceVars, powerVars
<1> DEFINE den == ValueOf(async_baudrate)
           goes == ~done /\ acc >= den /\ ~Saturated
<1>2. /\ acc' = IF goes THEN acc - den ELSE IF start THEN Num ELSE acc
      /\ res' = IF goes THEN (res + 1) % (ResMax + 1) ELSE IF start THEN 0 ELSE res
      /\ done' = IF done THEN ~start ELSE ~goes
  BY DEF Divide
<1>3. done \in BOOLEAN /\ start \in BOOLEAN /\ want.rate \in Rate
  BY DEF ControlInv, ControlType
<1>4. ControlType'
  <2>1. goes \in BOOLEAN
    OBVIOUS
  <2> HIDE DEF goes
  <2>2. done' \in BOOLEAN
    BY <1>2, <1>3, <2>1
  <2> QED
    BY <1>1, <2>2 DEF ControlInv, ControlType, OfChannels
<1>5. HandlersRight' /\ SettingsOK' /\ RateRight'
  BY <1>1 DEF ControlInv, HandlersRight, SettingsOK, Op, Made, Sure, RateRight, RateComes
<1>6. BitsRight'
  <2>1. SUFFICES ASSUME ~RateComes, Sure(<<"rate", 0>>), Sure(<<"bits", 0>>) PROVE DividerRight'
    BY <1>1 DEF BitsRight, RateComes, Sure
  <2>2. DividerRight /\ async_baudrate = want.rate
    BY <2>1 DEF ControlInv, RateRight, BitsRight
  <2>3. DividerRight'
    <3>1. DividerRight /\ den = ValueOf(want.rate) /\ den \in Nat
      BY <1>3, <2>2, ValueIsNat DEF Rate
    <3>2. ValueOf(want.rate)' = den
      BY <1>1, <3>1
    <3> HIDE DEF den
    <3>3. CASE start
      <4>1. acc' = Num /\ res' = 0 /\ ~done'
        BY <1>2, <3>1, <3>3 DEF DividerRight
      <4>2. Num + den * 0 = Num
        BY <3>1, ControlConstants
      <4> QED
        BY <1>1, <3>2, <4>1, <4>2, ControlConstants DEF DividerRight
    <3>4. CASE ~start
      <4>1. acc \in Nat /\ res \in 0 .. ResMax /\ ~done
        BY <3>1, <3>4 DEF DividerRight, Divide
      <4>2. den # 0 => acc + den * res = Num
        BY <3>1, <3>4, <4>1 DEF DividerRight
      <4>3. CASE goes
        <5>1. acc' = acc - den /\ acc >= den /\ res # ResMax /\ ~done'
          BY <1>2, <4>1, <4>3 DEF Saturated
        <5>2. res' = res + 1
          <6>1. ResMax \in Nat /\ res \in Nat /\ res < ResMax
            BY <4>1, <5>1, ControlConstants
          <6> DEFINE M == ResMax + 1
                     x == res + 1
          <6>2. M \in Nat /\ M >= 1 /\ x \in Int /\ 0 <= x /\ x < M
            BY <6>1
          <6> HIDE DEF M, x
          <6>3. x % M = x
            BY <6>2, ModNear
          <6> USE DEF M, x
          <6> QED
            BY <1>2, <4>3, <6>3
        <5>3. acc' \in Nat /\ res' \in 0 .. ResMax
          BY <3>1, <4>1, <5>1, <5>2, ControlConstants
        <5>4. den # 0 => acc' + den * res' = Num
          <6>1. den * (res + 1) = den * res + den
            BY <3>1, <4>1
          <6> QED
            BY <3>1, <4>1, <4>2, <5>1, <5>2, <6>1
        <5> QED
          BY <1>1, <3>2, <5>1, <5>3, <5>4 DEF DividerRight
      <4>4. CASE ~goes
        <5>1. acc' = acc /\ res' = res /\ done'
          BY <1>2, <3>4, <4>1, <4>4
        <5>2. acc < den \/ res = ResMax
          BY <3>1, <4>1, <4>4 DEF Saturated
        <5>3. res = Quotient(Num, den)
          BY <3>1, <4>1, <4>2, <5>2, ControlConstants, QuotientFound
        <5> QED
          BY <1>1, <3>2, <4>1, <5>1, <5>3 DEF DividerRight, Quotient
      <4> QED
        BY <4>3, <4>4
    <3> QED
      BY <1>3, <3>3, <3>4
  <2> QED
    BY <2>3
<1> QED
  BY <1>4, <1>5, <1>6 DEF ControlInv

-----------------------------------------------------------------------------
LEMMA ControlKeeps == ControlInv /\ [ControlNext]_controlVars => ControlInv'
<1> SUFFICES ASSUME ControlInv, [ControlNext]_controlVars PROVE ControlInv'
  OBVIOUS
<1>1. CASE \E s \in Requests : Setup(s)
  BY <1>1, RequestKeeps
<1>2. CASE Data
  BY <1>2, RatePacketKeeps
<1>3. CASE DamagedData
  BY <1>3, DamagedRateKeeps
<1>4. CASE Status
  BY <1>4, AnswerKeeps
<1>5. CASE Divide
  BY <1>5, DivideKeeps
<1>6. CASE UNCHANGED controlVars
  BY <1>6 DEF controlVars, traceVars, powerVars, dividerVars, ControlInv, ControlType, OfChannels,
    HandlersRight, SettingsOK, Op, Made, Sure, RateRight, RateComes, BitsRight, DividerRight
<1> QED
  BY <1>1, <1>2, <1>3, <1>4, <1>5, <1>6 DEF ControlNext

\* Between requests the input format, the rate, the supplies and the length of a bit are what
\* the requests that were answered made them (trace/usb_handler.py, power/usb_handler.py,
\* trace/util.py), although every handler sees every request and a request may be given up and
\* made again; what one given up for another, a rate in pieces or one that came too early
\* may have left otherwise is so again after the next request for it: SettingsRight of
\* UsbControl.
THEOREM SettingsAreRight == ControlSpec => []SettingsRight
<1>1. ControlInv => SettingsRight
  <2> SUFFICES ASSUME ControlInv PROVE SettingsRight
    OBVIOUS
  <2>1. ASSUME stage = "done"
        PROVE  /\ Sure(<<"format", 0>>) => input_format = want.format
               /\ Sure(<<"rate", 0>>) => async_baudrate = want.rate
               /\ \A c \in Channels : /\ Sure(<<"en", c>>) => en[c] = want.en[c]
                                      /\ Sure(<<"sel", c>>) => sel[c] = want.sel[c]
    BY <2>1, OneChannel DEF ControlInv, SettingsOK, Op, Made, Format, RateRight, RateComes
  <2>2. BaudrateTaken
    BY DEF ControlInv, BitsRight, RateComes, DividerRight, BaudrateTaken
  <2> QED
    BY <2>1, <2>2 DEF SettingsRight
<1> QED
  BY <1>1, ControlStarts, ControlKeeps, PTL DEF ControlSpec
=============================================================================
