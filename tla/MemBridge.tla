------------------------------ MODULE MemBridge ------------------------------
(***************************************************************************)
(* usb_mem_bridge.py: words of the SoC's memory written and read with        *)
(* control requests, over AXI-Lite behind a clock crossing (soc.py).  The    *)
(* bus takes addresses and words when it likes and does what it was asked in  *)
(* the order of the addresses.                                              *)
(*                                                                         *)
(* The host may give a request up at any time and begin another, also one    *)
(* for another handler.  Each of the two state machines looks at a request   *)
(* in IDLE only, and moves only while the last request is of its kind, as it  *)
(* stands below the m.If() on the fields of the request: what it was at it    *)
(* goes on with at the next request of that kind.                           *)
(***************************************************************************)
EXTENDS Naturals, Sequences

CONSTANTS
  Words,                    \* the words a host writes, sequences of WordBytes bytes
  Garbage,                  \* the words that may arrive in a damaged packet
  WordBytes, Cells,
  MaxMemRequests, MaxMemGivenUp, MaxMemDamage    \* bounds

ASSUME MemAssumption ==
  /\ WordBytes \in Nat
  /\ \A w \in Words : w = [i \in 1 .. WordBytes |-> w[i]]

VARIABLES
  memSetup, memStage, answer,     \* the host: its request, what it waits for, what it read
  write, awaddr, data, memIdx, \* handle_write
  read, araddr, word,       \* handle_read
  bus, wdata, rdata, memory,\* external: what the bus has to do, and the cells
  begun,                    \* history: whether the last request met its state machine idle
  value, known,             \* history: the words the bridge took, and where they must be
  open, doubt,              \* history: cells of writes given up before their packet was
                            \* acknowledged; whether a request was ever given up or cut
  memRequests, memGivenUp, memDamage

memCounts == <<memRequests, memGivenUp, memDamage>>
hostVars == <<memSetup, memStage, answer>>
memPast == <<begun, value, known, open, doubt>>
writeVars == <<write, awaddr, data, memIdx>>
readVars == <<read, araddr, word>>
busVars == <<bus, wdata, rdata, memory>>
memVars == <<hostVars, writeVars, readVars, busVars, memPast, memCounts>>

Zero == [i \in 1 .. WordBytes |-> 0]

MemRequests == [to : {"write"}, addr : Cells, word : Words] \cup [to : {"read", "other"}, addr : Cells, word : {Zero}]

MemInit ==
  /\ memSetup = [to |-> "other", addr |-> 0, word |-> Zero] /\ memStage = "done" /\ answer = Zero
  /\ write = "IDLE" /\ awaddr = 0 /\ data = Zero /\ memIdx = 0
  /\ read = "IDLE" /\ araddr = 0 /\ word = Zero
  /\ bus = << >> /\ wdata = << >> /\ rdata = << >> /\ memory = [a \in Cells |-> Zero]
  /\ begun = FALSE /\ value = memory /\ known = Cells /\ open = {} /\ doubt = FALSE
  /\ memRequests = 0 /\ memGivenUp = 0 /\ memDamage = 0

\* The machine a request is for, if any.
Machine(to) == IF to = "write" THEN write ELSE IF to = "read" THEN read ELSE "none"

\* The host gives up a request the bridge had begun with and not taken its packet or
\* given its word.
Unfinished == memStage = "data" /\ begun

\* A request: the next one, or one for which the host gave the last up.
MemSetup(s) ==
  /\ IF memStage = "done" THEN memRequests < MaxMemRequests /\ memRequests' = memRequests + 1 /\ UNCHANGED memGivenUp
     ELSE memGivenUp < MaxMemGivenUp /\ memGivenUp' = memGivenUp + 1 /\ UNCHANGED memRequests
  /\ memSetup' = s /\ memStage' = IF s.to = "other" THEN "done" ELSE "data"
  /\ begun' = (Machine(s.to) = "IDLE")
  /\ IF s.to = "write" /\ write = "IDLE" THEN write' = "ADDR" /\ awaddr' = s.addr /\ memIdx' = 0
     ELSE UNCHANGED <<write, awaddr, memIdx>>
  /\ IF s.to = "read" /\ read = "IDLE" THEN read' = "ADDR" /\ araddr' = s.addr ELSE UNCHANGED <<read, araddr>>
  /\ open' = IF Unfinished /\ memSetup.to = "write" THEN open \cup {memSetup.addr} ELSE open
  /\ doubt' = (doubt \/ Unfinished)
  /\ UNCHANGED <<answer, data, word, busVars, value, known, memDamage>>

\* The bus takes the address.
Address ==
  /\ \/ /\ memSetup.to = "write" /\ write = "ADDR" /\ write' = "RECEIVE"
        /\ bus' = Append(bus, <<"write", awaddr>>) /\ UNCHANGED read
     \/ /\ memSetup.to = "read" /\ read = "ADDR" /\ read' = "READ"
        /\ bus' = Append(bus, <<"read", araddr>>) /\ UNCHANGED write
  /\ UNCHANGED <<hostVars, awaddr, data, memIdx, araddr, word, wdata, rdata, memory, memPast, memCounts>>

\* Mutant of MemDiscarded: what came of a damaged packet counts.
MemDiscardedNot(n) == n

\* rx_invalid: the bytes of the packet are received anew.
MemDiscarded(n) == 0

\* The bytes of a packet, as many as the word has room for.
Received(bytes) ==
  [i \in 1 .. WordBytes |-> IF i > memIdx /\ i - memIdx <= Len(bytes) THEN bytes[i - memIdx] ELSE data[i]]

\* The packet is acknowledged; the host may not hear of it.
Acknowledge ==
  /\ write' = "WRITE" /\ open' = {}
  /\ \/ memStage' = "status" /\ UNCHANGED memDamage
     \/ memDamage < MaxMemDamage /\ memDamage' = memDamage + 1 /\ memStage' = "unheard"

\* A packet whose address the bus has: its word goes to the cell of its request, or of
\* one that was given up.  A damaged one is not answered and sent again.
MemPacket ==
  /\ memSetup.to = "write" /\ memStage = "data" /\ write = "RECEIVE"
  /\ \/ /\ Acknowledge
        /\ data' = Received(memSetup.word) /\ memIdx' = WordBytes
        /\ value' = IF begun THEN [value EXCEPT ![memSetup.addr] = memSetup.word] ELSE value
        /\ known' = IF begun THEN known \cup {memSetup.addr} ELSE known \ (open \cup {memSetup.addr})
     \/ /\ memDamage < MaxMemDamage /\ memDamage' = memDamage + 1
        /\ \E g \in Garbage : data' = Received(g)
        /\ memIdx' = MemDiscarded(WordBytes) /\ UNCHANGED <<write, memStage, value, known, open>>
  /\ UNCHANGED <<memSetup, answer, begun, doubt, awaddr, readVars, busVars, memRequests, memGivenUp>>

\* The bus takes the address after the first bytes of the packet are gone.
CutPacket ==
  /\ memSetup.to = "write" /\ memStage = "data" /\ write = "ADDR"
  /\ Acknowledge
  /\ \E k \in 1 .. WordBytes :
       data' = Received(SubSeq(memSetup.word, k + 1, WordBytes)) /\ memIdx' = WordBytes - k
  /\ bus' = Append(bus, <<"write", awaddr>>)
  /\ known' = known \ (open \cup {memSetup.addr}) /\ doubt' = TRUE
  /\ UNCHANGED <<memSetup, answer, begun, value, awaddr, readVars, wdata, rdata, memory, memRequests, memGivenUp>>

\* The bus takes the word, or gives one.
Word ==
  /\ \/ /\ memSetup.to = "write" /\ write = "WRITE" /\ write' = "IDLE"
        /\ wdata' = Append(wdata, data) /\ UNCHANGED <<read, word, rdata>>
     \/ /\ memSetup.to = "read" /\ read = "READ" /\ rdata # << >> /\ read' = "TRANSMIT"
        /\ word' = Head(rdata) /\ rdata' = Tail(rdata) /\ UNCHANGED <<write, wdata>>
  /\ UNCHANGED <<hostVars, awaddr, data, memIdx, araddr, bus, memory, memPast, memCounts>>

\* The host asks for the word, until then it is refused (NAK).  It is sent once: if it is
\* lost nobody answers when the host asks again.
DataRequested ==
  /\ memSetup.to = "read" /\ memStage = "data" /\ read = "TRANSMIT" /\ read' = "IDLE"
  /\ \/ answer' = word /\ memStage' = "status" /\ UNCHANGED memDamage
     \/ memDamage < MaxMemDamage /\ memDamage' = memDamage + 1 /\ memStage' = "unheard" /\ UNCHANGED answer
  /\ UNCHANGED <<memSetup, writeVars, araddr, word, busVars, memPast, memRequests, memGivenUp>>

\* The status is answered at once, also if the bus has not done the write.
MemStatus ==
  /\ memStage = "status" /\ memStage' = "done"
  /\ UNCHANGED <<memSetup, answer, writeVars, readVars, busVars, memPast, memCounts>>

\* External: the bus does what it was asked first.
BusDone ==
  /\ bus # << >> /\ bus' = Tail(bus)
  /\ LET a == Head(bus)[2]
     IN  IF Head(bus)[1] = "write"
         THEN wdata # << >> /\ memory' = [memory EXCEPT ![a] = Head(wdata)] /\ wdata' = Tail(wdata) /\ UNCHANGED rdata
         ELSE rdata' = Append(rdata, memory[a]) /\ UNCHANGED <<memory, wdata>>
  /\ UNCHANGED <<hostVars, writeVars, readVars, memPast, memCounts>>

MemNext ==
  \/ \E s \in MemRequests : MemSetup(s)
  \/ Address \/ MemPacket \/ CutPacket \/ Word \/ DataRequested \/ MemStatus \/ BusDone

MemSpec == MemInit /\ [][MemNext]_memVars

-----------------------------------------------------------------------------
Answered(to) == memSetup.to = to /\ memStage \in {"status", "done"}

\* As long as no request was given up, and no packet was coming in when the bus took the
\* address, a host is answered nothing but what was done: a request that found the bridge
\* still with the last write is not acknowledged, and what is read is what was written,
\* whatever packets or acknowledgements were lost and however late the bus is.  After that
\* this is so of the cells such requests did not name, and again of one of theirs when a
\* later write to it met the bridge idle: the request behind takes the place of the one
\* that was given up, and an answered write goes to its address, or a read returns its word.
MemoryRight ==
  /\ ~doubt => /\ known = Cells
               /\ Answered("write") \/ Answered("read") => begun
  /\ Answered("read") /\ begun /\ memSetup.addr \in known => answer = value[memSetup.addr]
  /\ bus = << >> => \A a \in known : memory[a] = value[a]
=============================================================================
